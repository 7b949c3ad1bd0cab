-------------------------- MODULE Processing_proofs --------------------------
(***************************************************************************)
(* For every chain of processors, every set of thumbnails and every set of *)
(* OCR commands: the temporary files of a request are there as long as     *)
(* they are needed, and what is left of them is accounted for.             *)
(***************************************************************************)
EXTENDS Processing, TLAPS

(* A file has one name, and no two files have the same.                    *)
LEMMA Distinct ==
  /\ \A n : Image(n) # Scratch
  /\ \A m, n : Image(m) = Image(n) => m = n
  /\ \A n, x : Image(n) \notin {ThumbOf(x), Tif(x), Text(x)}
  /\ \A x : Scratch \notin {ThumbOf(x), Tif(x), Text(x)}
  /\ \A x, y : ThumbOf(x) \notin {Tif(y), Text(y)}
  /\ \A x, y : ThumbOf(x) = ThumbOf(y) => x = y
  /\ \A x, y : Tif(x) # Text(y)
  /\ \A x, y : Tif(x) = Tif(y) => x = y
  /\ \A x, y : Text(x) = Text(y) => x = y
BY DEF Image, Scratch, ThumbOf, Tif, Text

(* What the command of the chain writes.                                   *)
MainWrites == IF Chain[step] = "new" THEN Image(step) ELSE Scratch

(* The request's own goroutine writes the next image.                      *)
LEMMA OutputOfMain == output(Main) = MainWrites
BY ProcessingAssumption DEF output, MainWrites

(* An OCR command writes a tif, then a text.                               *)
LEMMA OutputOfOcr ==
  ASSUME NEW o \in Ocrs
  PROVE  output(o) = IF work[o] = "first" THEN Tif(o) ELSE Text(o)
BY ProcessingAssumption DEF output

(* Both commands of a circle write the same file.                          *)
LEMMA OutputOfThumb ==
  ASSUME NEW t \in Thumbs
  PROVE  output(t) = ThumbOf(t)
BY ProcessingAssumption DEF output

(* The caller of a command is one of three kinds.                          *)
LEMMA Kinds ==
  /\ Callers = Thumbs \cup Ocrs \cup {Main} /\ Workers = Thumbs \cup Ocrs
  /\ Thumbs \cap Ocrs = {} /\ Main \notin Workers /\ Circles \subseteq Thumbs
  /\ Len(Chain) \in Nat /\ \A i \in 1..Len(Chain) : Chain[i] \in {"new", "inplace"}
BY ProcessingAssumption DEF Callers, Workers

-----------------------------------------------------------------------------
(* Types.                                                                  *)

(* A command only writes files of the request.                             *)
LEMMA OutputIsFile ==
  ASSUME NEW c \in Callers, c = Main => step <= Len(Chain), TypeOK
  PROVE  output(c) \in Files
<1>1. CASE c = Main
  <2>1. step \in 0..Len(Chain)
    BY <1>1, Kinds DEF TypeOK
  <2> QED BY <1>1, <2>1, OutputOfMain DEF Files, MainWrites
<1>2. CASE c \in Ocrs
  BY <1>2, OutputOfOcr DEF Files
<1>3. CASE c \in Thumbs
  BY <1>3, OutputOfThumb DEF Files
<1> QED BY <1>1, <1>2, <1>3, Kinds

(* A request starts with its uploaded file.                                *)
LEMMA InitTyped == ASSUME Init PROVE TypeOK
<1>1. Cmd!TypeOK
  BY DEF Init, Cmd!Init, Cmd!TypeOK
<1>2. Len(Chain) \in Nat /\ {Image(0)} \subseteq Files
  BY Kinds DEF Files
<1> QED BY <1>1, <1>2 DEF Init, TypeOK, Answered

(* While its command runs the chain is not at its end; a program runs only *)
(* during a call.                                                          *)
Running == run[Main] = "running" => step <= Len(Chain) /\ request = "chain"
Alive == \A c \in Callers : proc[c] = "alive" => run[c] = "running"

Typed == TypeOK /\ Running /\ Alive

(* No step leaves the types.                                                *)
LEMMA StepTyped ==
  ASSUME Typed, [Next]_vars
  PROVE  Typed'
<1> USE DEF Typed, TypeOK, Running, Alive, Cmd!TypeOK
<1>1. ASSUME NEW c \in Callers, Write(c) PROVE Typed'
  BY <1>1, Kinds, OutputIsFile DEF Write, others, ocrVars, Answered
<1>2. ASSUME NEW c \in Callers, Succeed(c) PROVE Typed'
  BY <1>2, Kinds, OutputIsFile DEF Succeed, Cmd!Exit, others, ocrVars, Answered
<1>3. ASSUME NEW c \in Callers, Break(c) PROVE Typed'
  BY <1>3, Kinds, OutputIsFile DEF Break, Cmd!Exit, others, ocrVars, Answered
<1>4. CASE RunStep
  BY <1>4, Kinds, OutputIsFile DEF RunStep, Cmd!Begin, others, ocrVars, Answered
<1>5. CASE StepDone
  BY <1>5, Kinds, OutputIsFile DEF StepDone, Cmd!Return, SetPath, ocrVars, Answered
<1>6. CASE StepFails
  BY <1>6, Kinds, OutputIsFile DEF StepFails, Cmd!Return, Answer, Clean, ocrVars, Answered
<1>7. CASE StepRefused
  BY <1>7, Kinds, OutputIsFile DEF StepRefused, Answer, Clean, ocrVars, Answered
<1>8. CASE StartWorkers
  BY <1>8, Kinds, OutputIsFile DEF StartWorkers, Answered
<1>9. ASSUME NEW t \in Thumbs, TakeThumb(t) PROVE Typed'
  BY <1>9, Kinds, OutputIsFile DEF TakeThumb, ocrVars, Answered
<1>10. CASE TakeOcr
  BY <1>10, Kinds, OutputIsFile DEF TakeOcr, Answered
<1>11. CASE TakeError
  BY <1>11, Kinds, OutputIsFile DEF TakeError, Answer, Clean, ocrVars, Answered
<1>12. CASE StartSaving
  BY <1>12, Kinds, OutputIsFile DEF StartSaving, AllReceived, ocrVars, Answered
<1>13. CASE EndSaving
  BY <1>13, Kinds, OutputIsFile DEF EndSaving, Answer, Clean, Answered, ocrVars, Answered
<1>14. ASSUME NEW w \in Workers, RunWorker(w) PROVE Typed'
  BY <1>14, Kinds, OutputIsFile DEF RunWorker, Cmd!Begin, others, ocrVars, Answered
<1>15. ASSUME NEW w \in Workers, FirstDone(w) PROVE Typed'
  BY <1>15, Kinds, OutputIsFile DEF FirstDone, Goto, Cmd!Return, ocrVars, Answered
<1>16. ASSUME NEW t \in Thumbs, Refuse(t) PROVE Typed'
  BY <1>16, Kinds, OutputIsFile DEF Refuse, Goto, ocrVars, Answered
<1>17. ASSUME NEW t \in Thumbs, ThumbDone(t) PROVE Typed'
  BY <1>17, Kinds, OutputIsFile DEF ThumbDone, Goto, Cmd!Return, ocrVars, Answered
<1>18. ASSUME NEW t \in Thumbs, ThumbFails(t) PROVE Typed'
  BY <1>18, Kinds, OutputIsFile DEF ThumbFails, Goto, Cmd!Return, ocrVars, Answered
<1>19. ASSUME NEW o \in Ocrs, OcrDone(o) PROVE Typed'
  BY <1>19, Kinds, OutputIsFile DEF OcrDone, Goto, Cmd!Return, ocrVars, Answered
<1>20. ASSUME NEW o \in Ocrs, OcrFails(o) PROVE Typed'
  BY <1>20, Kinds, OutputIsFile DEF OcrFails, Goto, Cmd!Return, ocrVars, Answered
<1>21. ASSUME NEW o \in Ocrs, CollectOcr(o) PROVE Typed'
  BY <1>21, Kinds, OutputIsFile DEF CollectOcr, Goto, Better, Answered
<1>22. ASSUME NEW o \in Ocrs, CollectError(o) PROVE Typed'
  BY <1>22, Kinds, OutputIsFile DEF CollectError, Answered
<1>23. CASE UNCHANGED vars
  BY <1>23 DEF vars, ocrVars, Answered
<1> QED
  BY <1>1, <1>2, <1>3, <1>4, <1>5, <1>6, <1>7, <1>8, <1>9, <1>10, <1>11, <1>12, <1>13,
     <1>14, <1>15, <1>16, <1>17, <1>18, <1>19, <1>20, <1>21, <1>22, <1>23
  DEF Next, Handler, Worker, Quiet

(* Nothing runs before the first processor.                                *)
LEMMA InitStarts == ASSUME Init PROVE Typed
<1>1. TypeOK
  BY InitTyped
<1>2. Main \in Callers
  BY Kinds
<1> QED
  BY <1>1, <1>2 DEF Init, Cmd!Init, Typed, Running, Alive

(* So types hold throughout.                                               *)
LEMMA TypedAlways == Spec => []Typed
<1> QED BY InitStarts, StepTyped, PTL DEF Spec

(* The states of a request are well typed.                                 *)
THEOREM ProcessingTyped == Spec => []TypeOK
<1>1. Typed => TypeOK
  BY DEF Typed
<1> QED BY <1>1, TypedAlways, PTL

-----------------------------------------------------------------------------
(* Where the goroutines are.                                               *)

(* Nothing is concurrent with the chain; a chain that failed is the last   *)
(* of the request.                                                         *)
ChainAlone ==
  /\ request = "chain" =>
       image < step /\ run[Main] # "failed" /\ ocr = "off"
         /\ \A w \in Workers : work[w] = "off"
  /\ run[Main] = "failed" => request = "failed" /\ ocr = "off"

(* The commands of a worker fit its place.                                 *)
WorkFits ==
  \A w \in Workers :
    /\ work[w] = "off"    => run[w] = "idle"
    /\ work[w] = "first"  => run[w] \in {"idle", "running"}
    /\ work[w] = "second" => run[w] \in {"ok", "running"}
    /\ run[w] = "running" => work[w] \in {"first", "second"}

(* A thumbnail that is done has a path.                                    *)
PathsKnown == \A t \in Thumbs : work[t] \in {"sentOk", "taken"} => t \in thumbPath

(* The best result is that of all that were taken, the text that of all.   *)
BestSoFar ==
  /\ \A o \in Ocrs : work[o] = "taken" => best \in Ocrs /\ Words[o] <= Words[best]
  /\ ocr \in {"sentOk", "taken"} =>
       /\ \A o \in Ocrs : work[o] = "taken"
       /\ Ocrs # {} => text = best

Places ==
  /\ ChainAlone /\ WorkFits /\ PathsKnown /\ BestSoFar
  /\ request = "storing" => AllReceived

(* Every step leads from place to place.                                   *)
LEMMA StepPlaces ==
  ASSUME Typed, Typed', Places, [Next]_vars
  PROVE  Places'
<1> USE DEF Typed, TypeOK, Running, Alive, Cmd!TypeOK, Places, ChainAlone, WorkFits, PathsKnown, BestSoFar, AllReceived
<1>1. ASSUME NEW c \in Callers, Write(c) PROVE Places'
  BY <1>1, Kinds, ProcessingAssumption DEF Write, others, ocrVars, Answered
<1>2. ASSUME NEW c \in Callers, Succeed(c) PROVE Places'
  BY <1>2, Kinds, ProcessingAssumption DEF Succeed, Cmd!Exit, others, ocrVars, Answered
<1>3. ASSUME NEW c \in Callers, Break(c) PROVE Places'
  BY <1>3, Kinds, ProcessingAssumption DEF Break, Cmd!Exit, others, ocrVars, Answered
<1>4. CASE RunStep
  BY <1>4, Kinds, ProcessingAssumption DEF RunStep, Cmd!Begin, others, ocrVars, Answered
<1>5. CASE StepDone
  BY <1>5, Kinds, ProcessingAssumption DEF StepDone, Cmd!Return, SetPath, ocrVars, Answered
<1>6. CASE StepFails
  BY <1>6, Kinds, ProcessingAssumption DEF StepFails, Cmd!Return, Answer, Clean, ocrVars, Answered
<1>7. CASE StepRefused
  BY <1>7, Kinds, ProcessingAssumption DEF StepRefused, Answer, Clean, ocrVars, Answered
<1>8. CASE StartWorkers
  BY <1>8, Kinds, ProcessingAssumption DEF StartWorkers, Answered
<1>9. ASSUME NEW t \in Thumbs, TakeThumb(t) PROVE Places'
  BY <1>9, Kinds, ProcessingAssumption DEF TakeThumb, ocrVars, Answered
<1>10. CASE TakeOcr
  BY <1>10, Kinds, ProcessingAssumption DEF TakeOcr, Answered
<1>11. CASE TakeError
  BY <1>11, Kinds, ProcessingAssumption DEF TakeError, Answer, Clean, ocrVars, Answered
<1>12. CASE StartSaving
  BY <1>12, Kinds, ProcessingAssumption DEF StartSaving, AllReceived, ocrVars, Answered
<1>13. CASE EndSaving
  BY <1>13, Kinds, ProcessingAssumption DEF EndSaving, Answer, Clean, Answered, ocrVars, Answered
<1>14. ASSUME NEW w \in Workers, RunWorker(w) PROVE Places'
  BY <1>14, Kinds, ProcessingAssumption DEF RunWorker, Cmd!Begin, others, ocrVars, Answered
<1>15. ASSUME NEW w \in Workers, FirstDone(w) PROVE Places'
  BY <1>15, Kinds, ProcessingAssumption DEF FirstDone, Goto, Cmd!Return, ocrVars, Answered
<1>16. ASSUME NEW t \in Thumbs, Refuse(t) PROVE Places'
  BY <1>16, Kinds, ProcessingAssumption DEF Refuse, Goto, ocrVars, Answered
<1>17. ASSUME NEW t \in Thumbs, ThumbDone(t) PROVE Places'
  BY <1>17, Kinds, ProcessingAssumption DEF ThumbDone, Goto, Cmd!Return, ocrVars, Answered
<1>18. ASSUME NEW t \in Thumbs, ThumbFails(t) PROVE Places'
  BY <1>18, Kinds, ProcessingAssumption DEF ThumbFails, Goto, Cmd!Return, ocrVars, Answered
<1>19. ASSUME NEW o \in Ocrs, OcrDone(o) PROVE Places'
  BY <1>19, Kinds, ProcessingAssumption DEF OcrDone, Goto, Cmd!Return, ocrVars, Answered
<1>20. ASSUME NEW o \in Ocrs, OcrFails(o) PROVE Places'
  BY <1>20, Kinds, ProcessingAssumption DEF OcrFails, Goto, Cmd!Return, ocrVars, Answered
<1>21. ASSUME NEW o \in Ocrs, CollectOcr(o) PROVE Places'
  BY <1>21, Kinds, ProcessingAssumption DEF CollectOcr, Goto, Better, Answered
<1>22. ASSUME NEW o \in Ocrs, CollectError(o) PROVE Places'
  BY <1>22, Kinds, ProcessingAssumption DEF CollectError, Answered
<1>23. CASE UNCHANGED vars
  BY <1>23 DEF vars, ocrVars, Answered
<1> QED
  BY <1>1, <1>2, <1>3, <1>4, <1>5, <1>6, <1>7, <1>8, <1>9, <1>10, <1>11, <1>12, <1>13,
     <1>14, <1>15, <1>16, <1>17, <1>18, <1>19, <1>20, <1>21, <1>22, <1>23
  DEF Next, Handler, Worker, Quiet

(* Every goroutine starts at its place.                                    *)
LEMMA InitPlaces == ASSUME Init PROVE Places
<1>1. Main \in Callers /\ Workers \subseteq Callers /\ Len(Chain) \in Nat
  BY Kinds
<1> QED
  BY <1>1, Kinds DEF Init, Cmd!Init, Places, ChainAlone, WorkFits, PathsKnown, BestSoFar, AllReceived

(* So does what relates the places of the goroutines.                      *)
LEMMA PlacesAlways == Spec => []Places
<1>1. Typed /\ Typed' /\ Places /\ [Next]_vars => Places'
  BY StepPlaces
<1> QED BY InitPlaces, <1>1, TypedAlways, PTL DEF Spec

-----------------------------------------------------------------------------
(* The files.                                                              *)

(* What the request's goroutine leaves on disk: the image, and the output  *)
(* of the command that runs or was the last to fail.                       *)
OfMain(f) ==
  \/ f = Image(image) /\ request \notin Answered
  \/ /\ f = MainWrites
     /\ \/ run[Main] = "running" /\ (proc[Main] = "zero" => f # Scratch)
        \/ run[Main] = "failed"

(* A thumbnail, as long as it is made, if that failed or nobody took it.   *)
OfThumb(f) ==
  \E t \in Thumbs :
    /\ f = ThumbOf(t)
    /\ \/ work[t] \in {"first", "second"} /\ run[t] # "idle"
       \/ work[t] = "sentErr" /\ run[t] = "failed"
       \/ work[t] = "sentOk"
       \/ work[t] = "taken" /\ request \notin Answered

(* The outputs of an OCR command, as long as it runs or if it failed.      *)
OfOcr(f) ==
  \E o \in Ocrs :
    \/ /\ f = Tif(o)
       /\ \/ work[o] \in {"first", "second"}
          \/ work[o] = "sentErr" /\ run[o] = "failed"
    \/ /\ f = Text(o)
       /\ \/ work[o] = "second"
          \/ work[o] = "sentErr" /\ run[o] = "failed" /\ Tif(o) \notin disk

Owned == \A f \in disk : OfMain(f) \/ OfThumb(f) \/ OfOcr(f)

(* What is still needed is there.                                          *)
Needed ==
  /\ request \notin Answered =>
       /\ Image(image) \in disk
       /\ \A t \in Thumbs : work[t] \in {"sentOk", "taken"} => ThumbOf(t) \in disk
  /\ request = "chain" /\ run[Main] = "running" /\ proc[Main] = "zero"
       /\ Chain[step] = "new" => Image(step) \in disk

(* What is needed stays.                                                   *)
LEMMA StepNeeded ==
  ASSUME Typed, Places, Needed, [Next]_vars
  PROVE  Needed'
<1> USE OutputOfMain, OutputOfOcr, OutputOfThumb DEF Typed, TypeOK, Running, Alive, Cmd!TypeOK, Places, ChainAlone, WorkFits, PathsKnown, Needed, MainWrites
<1>1. ASSUME NEW c \in Callers, Write(c) PROVE Needed'
  BY <1>1, Kinds, ProcessingAssumption, Distinct DEF Write, others, ocrVars, Answered
<1>2. ASSUME NEW c \in Callers, Succeed(c) PROVE Needed'
  BY <1>2, Kinds, ProcessingAssumption, Distinct DEF Succeed, Cmd!Exit, others, ocrVars, Answered
<1>3. ASSUME NEW c \in Callers, Break(c) PROVE Needed'
  BY <1>3, Kinds, ProcessingAssumption, Distinct DEF Break, Cmd!Exit, others, ocrVars, Answered
<1>4. CASE RunStep
  BY <1>4, Kinds, ProcessingAssumption, Distinct DEF RunStep, Cmd!Begin, others, ocrVars, Answered
<1>5. CASE StepDone
  BY <1>5, Kinds, ProcessingAssumption, Distinct DEF StepDone, Cmd!Return, SetPath, ocrVars, Answered
<1>6. CASE StepFails
  BY <1>6, Kinds, ProcessingAssumption, Distinct DEF StepFails, Cmd!Return, Answer, Clean, ocrVars, Answered
<1>7. CASE StepRefused
  BY <1>7, Kinds, ProcessingAssumption, Distinct DEF StepRefused, Answer, Clean, ocrVars, Answered
<1>8. CASE StartWorkers
  BY <1>8, Kinds, ProcessingAssumption, Distinct DEF StartWorkers, Answered
<1>9. ASSUME NEW t \in Thumbs, TakeThumb(t) PROVE Needed'
  BY <1>9, Kinds, ProcessingAssumption, Distinct DEF TakeThumb, ocrVars, Answered
<1>10. CASE TakeOcr
  BY <1>10, Kinds, ProcessingAssumption, Distinct DEF TakeOcr, Answered
<1>11. CASE TakeError
  BY <1>11, Kinds, ProcessingAssumption, Distinct DEF TakeError, Answer, Clean, ocrVars, Answered
<1>12. CASE StartSaving
  BY <1>12, Kinds, ProcessingAssumption, Distinct DEF StartSaving, AllReceived, ocrVars, Answered
<1>13. CASE EndSaving
  BY <1>13, Kinds, ProcessingAssumption, Distinct DEF EndSaving, Answer, Clean, Answered, ocrVars, Answered
<1>14. ASSUME NEW w \in Workers, RunWorker(w) PROVE Needed'
  BY <1>14, Kinds, ProcessingAssumption, Distinct DEF RunWorker, Cmd!Begin, others, ocrVars, Answered
<1>15. ASSUME NEW w \in Workers, FirstDone(w) PROVE Needed'
  BY <1>15, Kinds, ProcessingAssumption, Distinct DEF FirstDone, Goto, Cmd!Return, ocrVars, Answered
<1>16. ASSUME NEW t \in Thumbs, Refuse(t) PROVE Needed'
  BY <1>16, Kinds, ProcessingAssumption, Distinct DEF Refuse, Goto, ocrVars, Answered
<1>17. ASSUME NEW t \in Thumbs, ThumbDone(t) PROVE Needed'
  BY <1>17, Kinds, ProcessingAssumption, Distinct DEF ThumbDone, Goto, Cmd!Return, ocrVars, Answered
<1>18. ASSUME NEW t \in Thumbs, ThumbFails(t) PROVE Needed'
  BY <1>18, Kinds, ProcessingAssumption, Distinct DEF ThumbFails, Goto, Cmd!Return, ocrVars, Answered
<1>19. ASSUME NEW o \in Ocrs, OcrDone(o) PROVE Needed'
  BY <1>19, Kinds, ProcessingAssumption, Distinct DEF OcrDone, Goto, Cmd!Return, ocrVars, Answered
<1>20. ASSUME NEW o \in Ocrs, OcrFails(o) PROVE Needed'
  BY <1>20, Kinds, ProcessingAssumption, Distinct DEF OcrFails, Goto, Cmd!Return, ocrVars, Answered
<1>21. ASSUME NEW o \in Ocrs, CollectOcr(o) PROVE Needed'
  BY <1>21, Kinds, ProcessingAssumption, Distinct DEF CollectOcr, Goto, Better, Answered
<1>22. ASSUME NEW o \in Ocrs, CollectError(o) PROVE Needed'
  BY <1>22, Kinds, ProcessingAssumption, Distinct DEF CollectError, Answered
<1>23. CASE UNCHANGED vars
  BY <1>23 DEF vars, ocrVars, Answered
<1> QED
  BY <1>1, <1>2, <1>3, <1>4, <1>5, <1>6, <1>7, <1>8, <1>9, <1>10, <1>11, <1>12, <1>13,
     <1>14, <1>15, <1>16, <1>17, <1>18, <1>19, <1>20, <1>21, <1>22, <1>23
  DEF Next, Handler, Worker, Quiet

(* What is on disk has somebody whom it is of.                             *)
LEMMA StepOwned ==
  ASSUME Typed, Places, Places', Needed, Owned, [Next]_vars
  PROVE  Owned'
<1> USE OutputOfMain, OutputOfOcr, OutputOfThumb DEF Typed, TypeOK, Running, Alive, Cmd!TypeOK, Places, ChainAlone, WorkFits, PathsKnown, Needed, MainWrites,
      Owned, OfMain, OfThumb, OfOcr
<1>1. ASSUME NEW c \in Callers, Write(c) PROVE Owned'
  BY <1>1, Kinds, ProcessingAssumption, Distinct DEF Write, others, ocrVars, Answered
<1>2. ASSUME NEW c \in Callers, Succeed(c) PROVE Owned'
  BY <1>2, Kinds, ProcessingAssumption, Distinct DEF Succeed, Cmd!Exit, others, ocrVars, Answered
<1>3. ASSUME NEW c \in Callers, Break(c) PROVE Owned'
  BY <1>3, Kinds, ProcessingAssumption, Distinct DEF Break, Cmd!Exit, others, ocrVars, Answered
<1>4. CASE RunStep
  BY <1>4, Kinds, ProcessingAssumption, Distinct DEF RunStep, Cmd!Begin, others, ocrVars, Answered
<1>5. CASE StepDone
  <2>1. /\ request = "chain" /\ request' = request /\ step' = step + 1
        /\ run[Main] = "running" /\ run' = [run EXCEPT ![Main] = "ok"]
        /\ proc[Main] = "zero"
        /\ UNCHANGED work
        /\ IF Chain[step] = "new" THEN SetPath(step) ELSE UNCHANGED <<image, disk>>
    BY <1>5, Kinds DEF StepDone, Cmd!Return
  <2>2. \A f \in disk : f = Image(image) \/ (f = MainWrites /\ f # Scratch)
    <3>1. \A w \in Workers : work[w] = "off"
      BY <2>1
    <3>2. \A f : ~OfThumb(f) /\ ~OfOcr(f)
      BY <3>1, Kinds
    <3>3. \A f \in disk : OfMain(f)
      BY <3>2 DEF Owned
    <3> QED BY <2>1, <3>3 DEF OfMain
  <2>3. disk' \subseteq {Image(image')}
    <3>1. CASE Chain[step] = "new"
      BY <2>1, <2>2, <3>1 DEF SetPath
    <3>2. CASE Chain[step] # "new"
      BY <2>1, <2>2, <3>2
    <3> QED BY <3>1, <3>2
  <2> QED
    BY <2>1, <2>3 DEF Answered
<1>6. CASE StepFails
  BY <1>6, Kinds, ProcessingAssumption, Distinct DEF StepFails, Cmd!Return, Answer, Clean, ocrVars, Answered
<1>7. CASE StepRefused
  BY <1>7, Kinds, ProcessingAssumption, Distinct DEF StepRefused, Answer, Clean, ocrVars, Answered
<1>8. CASE StartWorkers
  BY <1>8, Kinds, ProcessingAssumption, Distinct DEF StartWorkers, Answered
<1>9. ASSUME NEW t \in Thumbs, TakeThumb(t) PROVE Owned'
  BY <1>9, Kinds, ProcessingAssumption, Distinct DEF TakeThumb, ocrVars, Answered
<1>10. CASE TakeOcr
  BY <1>10, Kinds, ProcessingAssumption, Distinct DEF TakeOcr, Answered
<1>11. CASE TakeError
  BY <1>11, Kinds, ProcessingAssumption, Distinct DEF TakeError, Answer, Clean, ocrVars, Answered
<1>12. CASE StartSaving
  BY <1>12, Kinds, ProcessingAssumption, Distinct DEF StartSaving, AllReceived, ocrVars, Answered
<1>13. CASE EndSaving
  BY <1>13, Kinds, ProcessingAssumption, Distinct DEF EndSaving, Answer, Clean, Answered, ocrVars, Answered
<1>14. ASSUME NEW w \in Workers, RunWorker(w) PROVE Owned'
  BY <1>14, Kinds, ProcessingAssumption, Distinct DEF RunWorker, Cmd!Begin, others, ocrVars, Answered
<1>15. ASSUME NEW w \in Workers, FirstDone(w) PROVE Owned'
  BY <1>15, Kinds, ProcessingAssumption, Distinct DEF FirstDone, Goto, Cmd!Return, ocrVars, Answered
<1>16. ASSUME NEW t \in Thumbs, Refuse(t) PROVE Owned'
  BY <1>16, Kinds, ProcessingAssumption, Distinct DEF Refuse, Goto, ocrVars, Answered
<1>17. ASSUME NEW t \in Thumbs, ThumbDone(t) PROVE Owned'
  <2>1. /\ UNCHANGED <<request, step, image, disk>>
        /\ \A w \in Callers \ {t} : run'[w] = run[w] /\ proc'[w] = proc[w]
        /\ \A w \in Workers \ {t} : work'[w] = work[w]
    BY <1>17, Kinds DEF ThumbDone, Goto, Cmd!Return
  <2>2. work'[t] = IF ThumbOf(t) \in disk THEN "sentOk" ELSE "sentErr"
    BY <1>17, Kinds DEF ThumbDone, Goto
  <2>3. \A f : OfMain(f) => OfMain(f)'
    BY <2>1, Kinds DEF Answered
  <2>4. \A f \in disk : OfThumb(f) => OfThumb(f)'
    BY <2>1, <2>2, Kinds DEF Answered
  <2>5. \A f : OfOcr(f) => OfOcr(f)'
    BY <2>1, Kinds
  <2> QED BY <2>1, <2>3, <2>4, <2>5
<1>18. ASSUME NEW t \in Thumbs, ThumbFails(t) PROVE Owned'
  BY <1>18, Kinds, ProcessingAssumption, Distinct DEF ThumbFails, Goto, Cmd!Return, ocrVars, Answered
<1>19. ASSUME NEW o \in Ocrs, OcrDone(o) PROVE Owned'
  BY <1>19, Kinds, ProcessingAssumption, Distinct DEF OcrDone, Goto, Cmd!Return, ocrVars, Answered
<1>20. ASSUME NEW o \in Ocrs, OcrFails(o) PROVE Owned'
  BY <1>20, Kinds, ProcessingAssumption, Distinct DEF OcrFails, Goto, Cmd!Return, ocrVars, Answered
<1>21. ASSUME NEW o \in Ocrs, CollectOcr(o) PROVE Owned'
  BY <1>21, Kinds, ProcessingAssumption, Distinct DEF CollectOcr, Goto, Better, Answered
<1>22. ASSUME NEW o \in Ocrs, CollectError(o) PROVE Owned'
  BY <1>22, Kinds, ProcessingAssumption, Distinct DEF CollectError, Answered
<1>23. CASE UNCHANGED vars
  BY <1>23 DEF vars, ocrVars, Answered
<1> QED
  BY <1>1, <1>2, <1>3, <1>4, <1>5, <1>6, <1>7, <1>8, <1>9, <1>10, <1>11, <1>12, <1>13,
     <1>14, <1>15, <1>16, <1>17, <1>18, <1>19, <1>20, <1>21, <1>22, <1>23
  DEF Next, Handler, Worker, Quiet

FilesInv == Typed /\ Places /\ Needed /\ Owned

(* The whole invariant holds throughout.                                   *)
LEMMA FilesAlways == Spec => []FilesInv
<1>1. Init => Needed /\ Owned
  BY Kinds DEF Init, Cmd!Init, Needed, Owned, OfMain, Answered
<1>2. Typed /\ Typed' /\ Places /\ Places' /\ Needed /\ Owned /\ [Next]_vars => Needed' /\ Owned'
  BY StepNeeded, StepOwned
<1> QED BY <1>1, <1>2, TypedAlways, PlacesAlways, PTL DEF Spec, FilesInv

(* The image is where its path says until the handler answers, however     *)
(* long the chain and however many commands read it.                       *)
THEOREM ImageStays == Spec => []ImageOnDisk
<1>1. FilesInv => ImageOnDisk
  BY DEF FilesInv, Needed, ImageOnDisk
<1> QED BY <1>1, FilesAlways, PTL

(* Saving starts when all thumbnails are there and nothing runs.           *)
THEOREM SavesWhatIsDone == Spec => []ReadyToSave
<1>1. FilesInv => ReadyToSave
  BY Kinds DEF FilesInv, Typed, Running, Alive, Places, WorkFits, PathsKnown, BestSoFar, AllReceived, Needed, ReadyToSave, Answered
<1> QED BY <1>1, FilesAlways, PTL

(* The text that is answered is the best of any number of commands'.       *)
THEOREM TextOfTheBest == Spec => []TextIsBest
<1>1. FilesInv => TextIsBest
  BY Kinds DEF FilesInv, Places, BestSoFar, AllReceived, TextIsBest
<1> QED BY <1>1, FilesAlways, PTL

(* A request whose processors all succeeded leaves nothing.                *)
THEOREM SuccessLeavesNothing == Spec => []NothingLeft
<1>1. FilesInv => NothingLeft
  BY Kinds DEF FilesInv, Typed, Running, Places, BestSoFar, ChainAlone, Owned, OfMain, OfThumb, OfOcr, NothingLeft, AllReceived, Answered
<1> QED BY <1>1, FilesAlways, PTL

(* Any other leaves what failed commands wrote and late thumbnails only.   *)
THEOREM LeftoversAreExplained == Spec => []LeftoversExplained
<1>1. ASSUME FilesInv, Quiet, NEW f \in disk
      PROVE  \/ run[Main] = "failed" /\ f = output(Main)
             \/ \E o \in Ocrs : run[o] = "failed" /\ disk \cap {Tif(o), Text(o)} = {f}
             \/ \E t \in Thumbs : (run[t] = "failed" \/ work[t] = "sentOk") /\ f = ThumbOf(t)
  <2>1. request \in Answered /\ \A w \in Workers : work[w] \notin {"first", "second"}
    BY <1>1 DEF Quiet
  <2>2. CASE OfMain(f)
    BY <1>1, <2>1, <2>2, OutputOfMain, Kinds DEF OfMain, Quiet
  <2>3. CASE OfThumb(f)
    BY <2>1, <2>3, Kinds DEF OfThumb
  <2>4. CASE OfOcr(f)
    <3>1. PICK o \in Ocrs :
            /\ run[o] = "failed"
            /\ f = Tif(o) \/ (f = Text(o) /\ Tif(o) \notin disk)
      BY <2>1, <2>4, Kinds DEF OfOcr
    <3>2. CASE f = Tif(o)
      <4>1. Text(o) \notin disk
        <5>1. ~(OfMain(Text(o)) \/ OfThumb(Text(o)))
          BY <2>1, Distinct DEF OfMain, OfThumb, MainWrites
        <5>2. ASSUME OfOcr(Text(o)) PROVE FALSE
          BY <1>1, <2>1, <3>2, <5>2, Distinct, Kinds DEF OfOcr
        <5> QED BY <1>1, <5>1, <5>2 DEF FilesInv, Owned
      <4> QED BY <1>1, <3>1, <3>2, <4>1
    <3>3. CASE f = Text(o) /\ Tif(o) \notin disk
      BY <1>1, <3>1, <3>3
    <3> QED BY <3>1, <3>2, <3>3
  <2> QED BY <1>1, <2>2, <2>3, <2>4 DEF FilesInv, Owned
<1>2. FilesInv => LeftoversExplained
  BY <1>1 DEF LeftoversExplained
<1> QED BY <1>2, FilesAlways, PTL

-----------------------------------------------------------------------------
(* Nobody waits in vain.                                                   *)

(* A worker between its start and its result.                              *)
AtWork(w) == work[w] \in {"first", "second"}

(* asyncProcessType has received all results, has one to receive, or a     *)
(* goroutine has still to send one: a thumbnail's, or the OCR runner's.    *)
HandlerGoesOn ==
  request = "async" =>
    \/ AllReceived
    \/ ocr \in {"collect", "sentOk", "sentErr"}
    \/ \E t \in Thumbs : AtWork(t) \/ work[t] \in {"sentOk", "sentErr"}

(* The OCR runner that collects has a result to receive, or one of its     *)
(* commands has still to send one.                                         *)
CollectorGoesOn ==
  ocr = "collect" => \E o \in Ocrs : AtWork(o) \/ work[o] \in {"sentOk", "sentErr"}

(* A worker has a command that runs, or one to start.                      *)
WorkerGoesOn ==
  \A w \in Workers : AtWork(w) =>
    \/ run[w] = "running"
    \/ work[w] = "first" /\ run[w] = "idle"
    \/ work[w] = "second" /\ run[w] = "ok"

(* The workers have been started, and while the runner collects it has not *)
(* received everything.                                                    *)
Started ==
  /\ request = "async" => ocr # "off"
  /\ request # "chain" /\ ocr # "off" => \A w \in Workers : work[w] # "off"
  /\ request = "chain" => ocr = "off"
  /\ ocr = "collect" => \E o \in Ocrs : work[o] # "taken"

LEMMA StepStarted ==
  ASSUME Typed, Places, Started, [Next]_vars
  PROVE  Started'
<1> USE Kinds DEF Typed, TypeOK, Started, Places, ChainAlone, Answered
<1>1. ASSUME NEW c \in Callers, Write(c) \/ Succeed(c) \/ Break(c) PROVE Started'
  BY <1>1 DEF Write, Succeed, Break, others, ocrVars
<1>2. CASE RunStep \/ StepDone
  BY <1>2 DEF RunStep, StepDone, others, ocrVars
<1>3. CASE StepFails \/ StepRefused \/ TakeError \/ EndSaving
  BY <1>3 DEF StepFails, StepRefused, TakeError, EndSaving, Answer, ocrVars
<1>4. CASE StartWorkers
  BY <1>4 DEF StartWorkers
<1>5. ASSUME NEW t \in Thumbs, TakeThumb(t) PROVE Started'
  BY <1>5 DEF TakeThumb, ocrVars
<1>6. CASE TakeOcr \/ StartSaving
  BY <1>6 DEF TakeOcr, StartSaving, ocrVars
<1>7. ASSUME NEW w \in Workers, Worker(w) PROVE Started'
  <2>1. CASE RunWorker(w)
    BY <2>1 DEF RunWorker, others, ocrVars
  <2>2. CASE FirstDone(w)
    BY <2>2 DEF FirstDone, Goto, ocrVars
  <2>3. CASE w \in Thumbs /\ (Refuse(w) \/ ThumbDone(w) \/ ThumbFails(w))
    BY <2>3 DEF Refuse, ThumbDone, ThumbFails, Goto, ocrVars
  <2>4. CASE w \in Ocrs /\ (OcrDone(w) \/ OcrFails(w))
    BY <2>4 DEF OcrDone, OcrFails, Goto, ocrVars
  <2>5. CASE w \in Ocrs /\ CollectOcr(w)
    BY <2>5 DEF CollectOcr, Goto
  <2>6. CASE w \in Ocrs /\ CollectError(w)
    BY <2>6 DEF CollectError
  <2> QED BY <1>7, <2>1, <2>2, <2>3, <2>4, <2>5, <2>6 DEF Worker
<1>8. CASE UNCHANGED vars
  BY <1>8 DEF vars, ocrVars
<1> QED
  BY <1>1, <1>2, <1>3, <1>4, <1>5, <1>6, <1>7, <1>8 DEF Next, Handler

(* For any chain, thumbnails and OCR commands: no goroutine of a request   *)
(* waits for a result that nobody sends, and none is stuck between its     *)
(* commands.  (That commands end is fairness and their timeout.)           *)
THEOREM NobodyIsStuck == Spec => [](HandlerGoesOn /\ CollectorGoesOn /\ WorkerGoesOn)
<1>1. Init => Started
  BY DEF Init, Started
<1>2. Typed /\ Places /\ Started /\ [Next]_vars => Started'
  BY StepStarted
<1>3. Typed /\ Places /\ Started => HandlerGoesOn
  BY Kinds DEF Typed, TypeOK, Started, HandlerGoesOn, AllReceived, AtWork
<1>4. Typed /\ Places /\ Started => CollectorGoesOn
  BY Kinds DEF Typed, TypeOK, Started, CollectorGoesOn, AtWork
<1>5. Places => WorkerGoesOn
  BY DEF Places, WorkFits, WorkerGoesOn, AtWork
<1> QED BY <1>1, <1>2, <1>3, <1>4, <1>5, TypedAlways, PlacesAlways, PTL DEF Spec
=============================================================================
