-------------------------- MODULE MCWhatsappQueue --------------------------
(* Instances of WhatsappQueue for TLC; its constants are plain numbers.     *)
EXTENDS WhatsappQueue
=============================================================================
