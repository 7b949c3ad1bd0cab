----------------------------- MODULE ImageScaler -----------------------------
(***************************************************************************)
(* The sizes of one image on its way through EverythingStrategy: whether   *)
(* the chain has a scaler is decided from the size of the uploaded file,   *)
(* each processor replaces the file by one of another size, and the scaler *)
(* tries qualities and percentages until the file is smaller than          *)
(* MaxFileSize.                                                            *)
(*                                                                         *)
(* A size is in units of which FiveMB make 5 * 1024 * 1024 bytes.          *)
(***************************************************************************)
EXTENDS Integers

CONSTANTS
  MaxFileSize,   (* the limit of the configuration                         *)
  Sizes,         (* the sizes a file may have                              *)
  FiveMB,
  Enlarges       (* the processors before the scaler that may write more   *)
                 (* than they read                                         *)

ASSUME ScalerAssumption ==
  /\ MaxFileSize \in Nat
  /\ Sizes \subseteq Nat
  /\ FiveMB \in Nat \ {0}
  /\ Enlarges \subseteq {"orient", "compress", "strip"}

VARIABLES
  at,        (* the processor or command that is next                      *)
  mime,      (* UploadedFile.mime                                          *)
  size,      (* the size of the file at UploadedFile.path                  *)
  arrived,   (* its size when it was uploaded                              *)
  scale,     (* whether the strategy has appended the scaler               *)
  percent,   (* of the next ResizePercent                                  *)
  grew,      (* whether a processor before the scaler has written more than it *)
             (* read                                                       *)
  unread,    (* the scaler ignored an error of FileSize                    *)
  commands   (* how many commands have been run                            *)

vars == <<at, mime, size, arrived, scale, percent, grew, unread, commands>>

CountUpTo == 16   \* where the count of commands stops, above what is needed

Outcomes == {"ok", "failed", "refused"}   \* refused: an error of the scaler

TypeOK ==
  /\ at \in {"decide", "orient", "compress", "strip", "scale", "q90", "q70",
             "resize"} \cup Outcomes
  /\ mime \in {"jpeg", "png", "gif"}
  /\ size \in Sizes
  /\ arrived \in Sizes
  /\ scale \in BOOLEAN
  /\ percent \in Int
  /\ grew \in BOOLEAN
  /\ unread \in BOOLEAN
  /\ commands \in 0..CountUpTo

(* NewUploadedFile has accepted the file.                                  *)
Init ==
  /\ at = "decide"
  /\ mime \in {"jpeg", "png", "gif"}
  /\ size \in Sizes
  /\ arrived = size
  /\ scale = FALSE
  /\ percent = 90
  /\ grew = FALSE
  /\ unread = FALSE
  /\ commands = 0

-----------------------------------------------------------------------------
(* Mutant: a file of just the size allowed is scaled.                      *)
Bug_TooBig(s) == s >= MaxFileSize

TooBig(s) == s > MaxFileSize

(* The strategy looks at the size of the uploaded file, once.              *)
Decide ==
  /\ at = "decide"
  /\ scale' = TooBig(size)
  /\ at' = "orient"
  /\ UNCHANGED <<mime, size, arrived, percent, grew, unread, commands>>

(* A command succeeds, and SetPath makes its output, of size s, the image. *)
Replace(s) ==
  /\ size' = s
  /\ commands' = IF commands < CountUpTo THEN commands + 1 ELSE commands

(* A processor p before the scaler writes its output.                      *)
Rewrite(p) ==
  \E s \in Sizes :
    /\ p \in Enlarges \/ s <= size
    /\ Replace(s)
    /\ grew' = (grew \/ s > size)

(* Mutant: a type the scaler does not take is no error.                    *)
Bug_Last ==
  IF ~scale THEN "ok"
  ELSE CASE mime = "jpeg" -> "q90"
         [] mime = "png"  -> "scale"
         [] mime = "gif"  -> "unscaled"

(* Where the chain goes on after the EXIF stripper: the scaler begins with *)
(* a conversion unless the image is a jpeg, and takes no gif.              *)
Last ==
  IF ~scale THEN "ok"
  ELSE CASE mime = "jpeg" -> "q90"
         [] mime = "png"  -> "scale"
         [] mime = "gif"  -> "refused"

Orient ==
  /\ at = "orient"
  /\ Rewrite("orient")
  /\ at' = "compress"
  /\ UNCHANGED <<mime, arrived, scale, percent, unread>>

(* jpegtran or optipng; a gif is left as it is.                            *)
Compress ==
  /\ at = "compress"
  /\ IF mime = "gif"
       THEN UNCHANGED <<size, commands, grew>>
       ELSE Rewrite("compress")
  /\ at' = "strip"
  /\ UNCHANGED <<mime, arrived, scale, percent, unread>>

(* exiftool, for a jpeg.                                                   *)
Strip ==
  /\ at = "strip"
  /\ IF mime = "jpeg"
       THEN Rewrite("strip")
       ELSE UNCHANGED <<size, commands, grew>>
  /\ at' = Last
  /\ UNCHANGED <<mime, arrived, scale, percent, unread>>

-----------------------------------------------------------------------------
(* The scaler.                                                             *)

(* ConvertToJpeg.                                                          *)
ToJpeg ==
  /\ at = "scale"
  /\ \E s \in Sizes : Replace(s)
  /\ mime' = "jpeg"
  /\ at' = "q90"
  /\ UNCHANGED <<arrived, scale, percent, grew, unread>>

(* What FileSize tells of a file of size s: an error comes with 0.         *)
Told(s) == {s, 0}

Fits(s) == s < MaxFileSize

(* The first percentage, by how much the image is too big.                 *)
FirstPercent(s) ==
  IF s - MaxFileSize >= 3 * FiveMB THEN 30
  ELSE IF s - MaxFileSize >= 2 * FiveMB THEN 40
  ELSE IF s - MaxFileSize >= FiveMB THEN 60
  ELSE 90

(* Quality 90, then 70; the scaler is content with a file that it is told  *)
(* to be small enough, even if it is told so in an error.                  *)
TryQuality(q, next) ==
  /\ at = q
  /\ \E s \in Sizes : \E told \in Told(s) :
       /\ Replace(s)
       /\ unread' = (unread \/ told # s)
       /\ at' = IF Fits(told) THEN "ok" ELSE next
       /\ percent' = IF q = "q70" THEN FirstPercent(told) ELSE percent
  /\ UNCHANGED <<mime, arrived, scale, grew>>

Quality90 == TryQuality("q90", "q70")
Quality70 == TryQuality("q70", "resize")

(* Mutant: the loop tests the size it was entered with.                    *)
Bug_Judge(s) ==
  IF s = 0 \/ percent < 10 THEN "refused"
  ELSE IF Fits(size) THEN "ok"
  ELSE "resize"

(* Mutant: the loop goes on as long as there is a percentage.              *)
Bug_JudgeOn(s) ==
  IF s = 0 \/ percent < 0 THEN "refused"
  ELSE IF Fits(s) THEN "ok"
  ELSE "resize"

(* What the loop makes of a result of size s.                              *)
Judge(s) ==
  IF s = 0 \/ percent < 10 THEN "refused"
  ELSE IF Fits(s) THEN "ok"
  ELSE "resize"

(* Mutant: the percentage is not reduced.                                  *)
Bug_NextPercent == percent

NextPercent == percent - 10

(* ResizePercent, again and again.                                         *)
Resize ==
  /\ at = "resize"
  /\ \E s \in Sizes :
       /\ Replace(s)
       /\ at' = Judge(s)
  /\ percent' = IF at' = "resize" THEN NextPercent ELSE percent
  /\ UNCHANGED <<mime, arrived, scale, grew, unread>>

(* A command fails, or FileSize does where its error is looked at; what    *)
(* file there is then does not matter any more.                            *)
Fail ==
  /\ at \notin Outcomes
  /\ at' = "failed"
  /\ UNCHANGED <<mime, size, arrived, scale, percent, grew, unread, commands>>

Step ==
  \/ Decide \/ Orient \/ Compress \/ Strip
  \/ ToJpeg \/ Quality90 \/ Quality70 \/ Resize
  \/ Fail

Next == Step \/ (at \in Outcomes /\ UNCHANGED vars)

Spec == Init /\ [][Next]_vars

(* Commands end, if only because they are killed.                          *)
FairSpec == Spec /\ WF_vars(Step)

-----------------------------------------------------------------------------
(* An image that is saved is no larger than the limit, below it if it was  *)
(* scaled: the percentages and the sizes tested along the way are those of *)
(* the file that is saved.  Not so if the scaler missed an error, or if a  *)
(* processor enlarged an image for which no scaler was planned.            *)
SavedFits ==
  at = "ok" /\ ~unread /\ (scale \/ ~grew) =>
    size <= MaxFileSize /\ (scale => size < MaxFileSize)

(* gm is asked for a percentage of the image that makes sense, and for a   *)
(* tenth at a time: 0 comes up as the last try of a hopeless image.        *)
PercentSane == at = "resize" => percent \in {p * 10 : p \in 0..9}

(* No image within the limit is refused: without a failure it is saved.    *)
SmallIsAccepted == at = "refused" => arrived > MaxFileSize

(* However an image resists, it is over after 15 commands, each of which   *)
(* is killed after a minute.                                               *)
CommandsBounded == commands <= 15

(* The chain ends.                                                         *)
ChainEnds == <>(at \in Outcomes)
=============================================================================
