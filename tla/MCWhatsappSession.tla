------------------------- MODULE MCWhatsappSession -------------------------
(* Instances of WhatsappSession for TLC; model values come from the cfg.    *)
EXTENDS WhatsappSession, TLC

\* Identities are only compared; no liveness property is checked under it.
Symmetry == Permutations(Devices)
=============================================================================
