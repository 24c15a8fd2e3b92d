----------------------------- MODULE FileRules -----------------------------
(***************************************************************************)
(* What a photo goes through from multer to the provider, under the default *)
(* policies, which the routes of the program use: the two pipes of          *)
(* @ProcessedFile check it and re-encode it, and StorageService.upload then *)
(* checks and re-encodes the result again.                                 *)
(*                                                                         *)
(* Sizes are classes: 0 empty, 1 within maxOutputSize, 2 within the limit   *)
(* of its type, 3 within maxSize, 4 above.                                 *)
(***************************************************************************)
EXTENDS Integers

CONSTANTS
  QUALITY, MIN_QUALITY,  \* of DEFAULT_COMPRESSION_POLICY
  STEP                   \* by which the quality goes down

VARIABLES
  at,       \* "pipe", "encode", "service", "store"; "none" before, "end" after
  file,     \* [name : legal or not, ext, bytes : true format, mime, size]
  round,    \* 1 in the pipes, 2 in the service
  quality,  \* of the encoding at hand; -1 when the file is as it was sent
  answer    \* HTTP status, 0 before

vars == <<at, file, round, quality, answer>>

Formats   == {"png", "jpeg", "webp"}
\* mimeFromExtension, of which "image/" is left out
MimeOf(ext) == CASE ext = "jpg" -> "jpeg" [] ext \in Formats -> ext [] OTHER -> "other"
File ==
  [legal : BOOLEAN, ext : Formats \union {"jpg", "gif", "none"},
   bytes : Formats \union {"gif", "garbage"},
   mime  : Formats \union {"text"}, size : 0..4]

Init ==
  /\ at = "none" /\ round = 1 /\ quality = -1 /\ answer = 0
  /\ file = [legal |-> TRUE, ext |-> "none", bytes |-> "garbage", mime |-> "text",
             size |-> 0]

Ends(status) == at' = "end" /\ answer' = status

Receive ==
  /\ at \in {"none", "end"}
  /\ file' \in File /\ at' = "pipe" /\ round' = 1 /\ quality' = -1 /\ answer' = 0

-----------------------------------------------------------------------------
(* FileValidationService: the validators in their order                     *)

\* MimeTypeValidator.  A file declared as text is taken at its word.
TypeOk ==
  /\ file.ext \in {"png", "jpg", "jpeg", "webp"}
  /\ file.mime = "text" \/ file.bytes = MimeOf(file.ext)

\* SizeValidator: the limit of all, and that of the type, which is lower.
SizeOk == file.size \in 1..2

Valid == file.legal /\ TypeOk /\ SizeOk

\* MulterValidationPipe: an error of the rules is the client's.
PipeValidates ==
  /\ at = "pipe"
  /\ IF Valid THEN at' = "encode" /\ UNCHANGED answer ELSE Ends(422)
  /\ UNCHANGED <<file, round, quality>>

\* StorageService.upload: no filter knows the same error from here.
ServiceValidates ==
  /\ at = "service"
  /\ IF Valid THEN at' = "encode" /\ UNCHANGED answer ELSE Ends(500)
  /\ round' = 2 /\ quality' = -1
  /\ UNCHANGED file

-----------------------------------------------------------------------------
(* SharpImageProcessor                                                      *)

\* Mutant: the re-encoded file keeps its name.
ReencodedBug(size) == [file EXCEPT !.bytes = "jpeg", !.mime = "jpeg", !.size = size]

\* The result of process, its name and its type of its new format.
Reencoded(size) ==
  [file EXCEPT !.ext = "jpeg", !.bytes = "jpeg", !.mime = "jpeg", !.size = size]

\* The condition of compress's loop.
Lower(size, q) == size > 1 /\ q > MIN_QUALITY

\* What is not an image fails: 422 in MulterImagePipe.
Unreadable ==
  /\ at = "encode" /\ file.bytes = "garbage"
  /\ Ends(IF round = 1 THEN 422 ELSE 500)
  /\ UNCHANGED <<file, round, quality>>

\* One encoding, of any size; the loop goes on or process returns.
Encode ==
  /\ at = "encode" /\ file.bytes # "garbage"
  /\ quality' = IF quality = -1 THEN QUALITY ELSE quality - STEP
  /\ \E size \in 1..3 :
       IF Lower(size, quality')
         THEN UNCHANGED <<at, file>>
         ELSE /\ file' = Reencoded(size)
              /\ at' = IF round = 1 THEN "service" ELSE "store"
  /\ UNCHANGED <<round, answer>>

\* provider.save, under uniqueFileName of the name, with the type of the file;
\* bucket or disk can fail.
Store ==
  /\ at = "store"
  /\ Ends(201) \/ Ends(500)
  /\ UNCHANGED <<file, round, quality>>

Next ==
  \/ Receive \/ PipeValidates \/ ServiceValidates \/ Unreadable \/ Encode \/ Store

Spec == Init /\ [][Next]_vars

-----------------------------------------------------------------------------
(* Properties                                                               *)

\* What is stored is what its name and its content type say, whatever the
\* client declared; and a file that passed the pipes meets an internal error over
\* its size, in the check of the service, or once it is encoded again and the
\* provider fails: the service finds no other fault with what the pipes let pass.
StoredIsWhatItSays ==
  /\ answer = 201 => file.bytes = file.mime /\ MimeOf(file.ext) = file.bytes
  /\ answer = 500 => \/ quality = -1 /\ file.size > 2
                     \/ quality # -1 /\ file.bytes = MimeOf(file.ext)

\* The photo handed on is within maxOutputSize or of the least quality allowed, and
\* no step of the loop starts from there.
ShrunkAsFarAsAllowed ==
  at \in {"service", "store"} =>
    /\ file.size > 1 => quality <= MIN_QUALITY
    /\ quality > MIN_QUALITY - STEP
=============================================================================
