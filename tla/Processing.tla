------------------------------ MODULE Processing ------------------------------
(***************************************************************************)
(* One request's temporary files: the image processor that the strategy    *)
(* built runs a chain of processors on the image, then thumbnails and OCR  *)
(* concurrently, each as one or two external commands; the handler then    *)
(* saves the results and Clean removes them.  asyncProcessType and         *)
(* MultiOCRCommand return at the first error while others still run.       *)
(*                                                                         *)
(* A command is what module Command promises of runProcessorCommand.  The  *)
(* name of a file is the name of its input with a suffix per step, so a    *)
(* file is identified by the steps that lead to it.                        *)
(***************************************************************************)
EXTENDS Naturals, Sequences

CONSTANTS
  Chain,     (* the processors before the concurrent ones, in order:       *)
             (* "new" for one that writes a new file, "inplace"            *)
  Thumbs,    (* thumbnails made by one command ...                         *)
  Circles,   (* ... and by two (CircleThumb)                               *)
  Ocrs,      (* the commands of the OCR runner                             *)
  Words,     (* how many words there are in the text each of them reads    *)
  NoText,    (* neither of them                                            *)
  Main       (* the goroutine of the request                               *)

ASSUME ProcessingAssumption ==
  /\ Chain \in Seq({"new", "inplace"})
  /\ Circles \subseteq Thumbs
  /\ Thumbs \cap Ocrs = {}
  /\ Main \notin Thumbs \cup Ocrs
  /\ Words \in [Ocrs -> Nat]
  /\ NoText \notin Ocrs

Workers == Thumbs \cup Ocrs   \* goroutines that run commands, Main aside
Callers == Workers \cup {Main}

VARIABLES
  run, proc,    (* the commands: see module Command                        *)
  request,      (* where the request's goroutine is                        *)
  step,         (* the processor of the chain it runs or runs next         *)
  image,        (* UploadedFile.path: the number of its file               *)
  thumbPath,    (* the thumbnails whose localPath is set                   *)
  disk,         (* the files there are                                     *)
  work,         (* work[w]: where worker w is                              *)
  ocr,          (* the goroutine of the OCR runner                         *)
  best,         (* MultiOCRCommand.Run: the command whose result is best   *)
  text          (* UploadedFile.ocrText: the command it is the text of     *)

ocrVars == <<ocr, best, text>>
vars == <<run, proc, request, step, image, thumbPath, disk, work, ocrVars>>

Cmd == INSTANCE Command

(* The files: the uploaded image and what the chain makes of it, what an   *)
(* in-place step works in, thumbnails, and the two outputs of an OCR       *)
(* command.                                                                *)
Image(n)   == <<"image", n>>
Scratch    == <<"scratch", 0>>
ThumbOf(t) == <<"thumb", t>>
Tif(o)     == <<"tif", o>>
Text(o)    == <<"text", o>>

Files == {Image(n) : n \in 0..Len(Chain)} \cup {Scratch}
           \cup {ThumbOf(t) : t \in Thumbs}
           \cup {Tif(o) : o \in Ocrs} \cup {Text(o) : o \in Ocrs}

Answered == {"ok", "failed"}

TypeOK ==
  /\ Cmd!TypeOK
  /\ request \in {"chain", "async", "storing"} \cup Answered
  /\ step \in 1..(Len(Chain) + 1)
  /\ image \in 0..Len(Chain)
  /\ thumbPath \subseteq Thumbs
  /\ disk \subseteq Files
  /\ work \in [Workers -> {"off", "first", "second", "sentOk", "sentErr", "taken"}]
  /\ ocr \in {"off", "collect", "sentOk", "sentErr", "taken"}
  /\ best \in Ocrs \cup {NoText}
  /\ text \in Ocrs \cup {NoText}

(* saveToTmp has written the file, and NewUploadedFile accepts its type.   *)
Init ==
  /\ Cmd!Init
  /\ request = "chain"
  /\ step = 1
  /\ image = 0
  /\ thumbPath = {}
  /\ disk = {Image(0)}
  /\ work = [w \in Workers |-> "off"]
  /\ ocr = "off"
  /\ best = NoText
  /\ text = NoText

-----------------------------------------------------------------------------
(* Commands, for any caller.                                               *)

(* What the current command of c reads and writes.                         *)
input(c) ==
  IF c = Main \/ work[c] = "first" THEN Image(image)
  ELSE IF c \in Ocrs THEN Tif(c) ELSE ThumbOf(c)

(* Mutant: the first command of a circle writes to a name of its own.      *)
Bug_Output(c) ==
  CASE c = Main   -> IF Chain[step] = "new" THEN Image(step) ELSE Scratch
    [] c \in Ocrs -> IF work[c] = "first" THEN Tif(c) ELSE Text(c)
    [] c \in Circles /\ work[c] = "first" -> <<"square", c>>
    [] OTHER      -> ThumbOf(c)

output(c) ==
  CASE c = Main   -> IF Chain[step] = "new" THEN Image(step) ELSE Scratch
    [] c \in Ocrs -> IF work[c] = "first" THEN Tif(c) ELSE Text(c)
    [] OTHER      -> ThumbOf(c)

others == <<request, step, image, thumbPath, work, ocrVars>>

(* It starts writing its output once it can read its input.                *)
Write(c) ==
  /\ proc[c] = "alive"
  /\ input(c) \in disk
  /\ disk' = disk \cup {output(c)}
  /\ UNCHANGED <<run, proc, others>>

(* It succeeds; an in-place command ends by renaming what it wrote.  The   *)
(* chain takes a success at its word (SetPath does not look for the file), *)
(* the workers do not ...                                                  *)
Succeed(c) ==
  /\ Cmd!Exit(c, "zero")
  /\ c = Main => output(c) \in disk
  /\ disk' = disk \ {Scratch}
  /\ UNCHANGED others

(* ... or ends in an error or is killed, and leaves what it wrote.         *)
Break(c) ==
  /\ Cmd!Exit(c, "bad")
  /\ UNCHANGED <<disk, others>>

-----------------------------------------------------------------------------
(* The request's goroutine.                                                *)

(* Mutant: Clean does not know of the thumbnails.                          *)
Bug_CleanImageOnly == disk' = disk \ {Image(image)}

(* UploadedFile.Clean.                                                     *)
Clean == disk' = disk \ ({Image(image)} \cup {ThumbOf(t) : t \in thumbPath})

(* The handler answers, and its deferred Clean runs.                       *)
Answer(a) ==
  /\ request' = a
  /\ Clean

(* The next processor of the chain starts its command.                     *)
RunStep ==
  /\ request = "chain"
  /\ step <= Len(Chain)
  /\ Cmd!Begin(Main)
  /\ UNCHANGED <<disk, others>>

(* Mutant: SetPath assigns the path first and then removes the file there. *)
Bug_SetPath(n) ==
  /\ image' = n
  /\ disk' = disk \ {Image(n)}

(* UploadedFile.SetPath: remove the old file and take the new one.         *)
SetPath(n) ==
  /\ disk' = disk \ {Image(image)}
  /\ image' = n

(* It succeeded: multiProcessType goes on with the next processor ...      *)
StepDone ==
  /\ request = "chain"
  /\ Cmd!Return(Main, "ok")
  /\ step' = step + 1
  /\ IF Chain[step] = "new" THEN SetPath(step) ELSE UNCHANGED <<image, disk>>
  /\ UNCHANGED <<request, thumbPath, work, ocrVars>>

(* ... or returns its error.                                               *)
StepFails ==
  /\ request = "chain"
  /\ Cmd!Return(Main, "failed")
  /\ Answer("failed")
  /\ UNCHANGED <<step, image, thumbPath, work, ocrVars>>

(* The strategy or a processor gives up without a command: the size of the *)
(* file or its type is not known, the image cannot be scaled.              *)
StepRefused ==
  /\ request = "chain"
  /\ run[Main] # "running"
  /\ Answer("failed")
  /\ UNCHANGED <<run, proc, step, image, thumbPath, work, ocrVars>>

(* asyncProcessType starts its goroutines, MultiOCRCommand its own.        *)
StartWorkers ==
  /\ request = "chain"
  /\ step > Len(Chain)
  /\ run[Main] # "running"
  /\ request' = "async"
  /\ work' = [w \in Workers |-> "first"]
  /\ ocr' = IF Ocrs = {} THEN "taken" ELSE "collect"
  /\ UNCHANGED <<run, proc, step, image, thumbPath, disk, best, text>>

(* It receives nil errors, as many as it has goroutines ...                *)
TakeThumb(t) ==
  /\ request = "async"
  /\ work[t] = "sentOk"
  /\ work' = [work EXCEPT ![t] = "taken"]
  /\ UNCHANGED <<run, proc, request, step, image, thumbPath, disk, ocrVars>>

TakeOcr ==
  /\ request = "async"
  /\ ocr = "sentOk"
  /\ ocr' = "taken"
  /\ UNCHANGED <<run, proc, request, step, image, thumbPath, disk, work, best, text>>

(* ... or an error, and returns it.                                        *)
TakeError ==
  /\ request = "async"
  /\ ocr = "sentErr" \/ \E t \in Thumbs : work[t] = "sentErr"
  /\ Answer("failed")
  /\ UNCHANGED <<run, proc, step, image, thumbPath, work, ocrVars>>

(* Mutant: Run does not wait for the OCR.                                  *)
Bug_ThumbsSuffice == \A t \in Thumbs : work[t] = "taken"

AllReceived == ocr = "taken" /\ \A t \in Thumbs : work[t] = "taken"

(* processor.Run returned nil: image and thumbnails are saved to the       *)
(* stores (module UploadServer) ...                                        *)
StartSaving ==
  /\ request = "async"
  /\ AllReceived
  /\ request' = "storing"
  /\ UNCHANGED <<run, proc, step, image, thumbPath, disk, work, ocrVars>>

(* ... and the answer depends on them.                                     *)
EndSaving ==
  /\ request = "storing"
  /\ \E a \in Answered : Answer(a)
  /\ UNCHANGED <<run, proc, step, image, thumbPath, work, ocrVars>>

Handler ==
  \/ RunStep \/ StepDone \/ StepFails \/ StepRefused
  \/ StartWorkers
  \/ \E t \in Thumbs : TakeThumb(t)
  \/ TakeOcr \/ TakeError
  \/ StartSaving \/ EndSaving

-----------------------------------------------------------------------------
(* The workers.                                                            *)

Goto(w, x) == work' = [work EXCEPT ![w] = x]

(* The worker begins the command it has come to: its first, or, when that  *)
(* one has returned nil, its second.                                       *)
RunWorker(w) ==
  /\ \/ work[w] = "first" /\ run[w] = "idle"
     \/ work[w] = "second" /\ run[w] = "ok"
  /\ Cmd!Begin(w)
  /\ UNCHANGED <<disk, others>>

(* ThumbFile.Process refuses the geometry it is asked for.                 *)
Refuse(t) ==
  /\ work[t] = "first"
  /\ run[t] = "idle"
  /\ Goto(t, "sentErr")
  /\ UNCHANGED <<run, proc, request, step, image, thumbPath, disk, ocrVars>>

(* The first of two commands has succeeded.                                *)
FirstDone(w) ==
  /\ w \in Circles \cup Ocrs
  /\ work[w] = "first"
  /\ Cmd!Return(w, "ok")
  /\ Goto(w, "second")
  /\ UNCHANGED <<request, step, image, thumbPath, disk, ocrVars>>

(* Mutant: SetPath believes there is a file.                               *)
Bug_ThumbDone(t) ==
  /\ work[t] = IF t \in Circles THEN "second" ELSE "first"
  /\ Cmd!Return(t, "ok")
  /\ thumbPath' = thumbPath \cup {t}
  /\ Goto(t, "sentOk")
  /\ UNCHANGED <<request, step, image, disk, ocrVars>>

(* The last command of a thumbnail has: ThumbFile.SetPath, if it is there. *)
ThumbDone(t) ==
  /\ work[t] = IF t \in Circles THEN "second" ELSE "first"
  /\ Cmd!Return(t, "ok")
  /\ IF ThumbOf(t) \in disk
       THEN thumbPath' = thumbPath \cup {t} /\ Goto(t, "sentOk")
       ELSE thumbPath' = thumbPath /\ Goto(t, "sentErr")
  /\ UNCHANGED <<request, step, image, disk, ocrVars>>

ThumbFails(t) ==
  /\ Cmd!Return(t, "failed")
  /\ Goto(t, "sentErr")
  /\ UNCHANGED <<request, step, image, thumbPath, disk, ocrVars>>

(* Mutant: the call that removes the first output is not deferred.         *)
Bug_OcrDone(o) ==
  /\ work[o] = "second"
  /\ Cmd!Return(o, "ok")
  /\ Goto(o, IF Text(o) \in disk THEN "sentOk" ELSE "sentErr")
  /\ disk' = disk \ {Text(o)}
  /\ UNCHANGED <<request, step, image, thumbPath, ocrVars>>

(* tesseract has: its text is read if it is there, and the deferred calls  *)
(* remove what both commands wrote.                                        *)
OcrDone(o) ==
  /\ work[o] = "second"
  /\ Cmd!Return(o, "ok")
  /\ Goto(o, IF Text(o) \in disk THEN "sentOk" ELSE "sentErr")
  /\ disk' = disk \ {Tif(o), Text(o)}
  /\ UNCHANGED <<request, step, image, thumbPath, ocrVars>>

(* Mutant: no call is deferred before tesseract has succeeded.             *)
Bug_OcrFails(o) ==
  /\ Cmd!Return(o, "failed")
  /\ Goto(o, "sentErr")
  /\ UNCHANGED <<request, step, image, thumbPath, disk, ocrVars>>

(* A call is deferred only after the command it cleans up has succeeded.   *)
OcrFails(o) ==
  /\ Cmd!Return(o, "failed")
  /\ Goto(o, "sentErr")
  /\ disk' = IF work[o] = "second" THEN disk \ {Tif(o)} ELSE disk
  /\ UNCHANGED <<request, step, image, thumbPath, ocrVars>>

(* Mutant: the count of the best result is not remembered.                 *)
Bug_Better(o) == o

(* The best of the results there have been, with o's: the first of those   *)
(* with the most words.                                                    *)
Better(o) == IF best # NoText /\ Words[o] <= Words[best] THEN best ELSE o

(* MultiOCRCommand.Run receives a result, whoever still listens to it;     *)
(* with the last one the runner sets the text of the image.                *)
CollectOcr(o) ==
  /\ ocr = "collect"
  /\ work[o] = "sentOk"
  /\ Goto(o, "taken")
  /\ best' = Better(o)
  /\ IF \A q \in Ocrs \ {o} : work[q] = "taken"
       THEN ocr' = "sentOk" /\ text' = best'
       ELSE UNCHANGED <<ocr, text>>
  /\ UNCHANGED <<run, proc, request, step, image, thumbPath, disk>>

(* Mutant: the goroutine of the OCR runner logs the error and ends.        *)
Bug_OcrErrorLogged(o) ==
  /\ ocr = "collect"
  /\ work[o] = "sentErr"
  /\ ocr' = "off"
  /\ UNCHANGED <<run, proc, request, step, image, thumbPath, disk, work, best, text>>

CollectError(o) ==
  /\ ocr = "collect"
  /\ work[o] = "sentErr"
  /\ ocr' = "sentErr"
  /\ UNCHANGED <<run, proc, request, step, image, thumbPath, disk, work, best, text>>

Worker(w) ==
  \/ RunWorker(w)
  \/ FirstDone(w)
  \/ w \in Thumbs /\ (Refuse(w) \/ ThumbDone(w) \/ ThumbFails(w))
  \/ w \in Ocrs /\ (OcrDone(w) \/ OcrFails(w) \/ CollectOcr(w) \/ CollectError(w))

(* No goroutine and no command of the request is left.                     *)
Quiet ==
  /\ request \in Answered
  /\ \A c \in Callers : run[c] # "running"
  /\ \A w \in Workers : work[w] \notin {"first", "second"}
  /\ ocr # "collect"

Next ==
  \/ \E c \in Callers : Write(c) \/ Succeed(c) \/ Break(c)
  \/ Handler
  \/ \E w \in Workers : Worker(w)
  \/ Quiet /\ UNCHANGED vars

Spec == Init /\ [][Next]_vars

(* A command is over some time, if only because it is killed after the     *)
(* timeout; goroutines run.                                                *)
FairSpec ==
  /\ Spec
  /\ WF_vars(Handler)
  /\ \A c \in Callers : WF_vars(Succeed(c) \/ Break(c))
  /\ \A w \in Workers : WF_vars(Worker(w))

-----------------------------------------------------------------------------
(* Until the handler answers, the image is where its path says, whatever   *)
(* the chain and the concurrent workers do; so every command is begun on a *)
(* file that exists and Save can open it.                                  *)
ImageOnDisk == request \notin Answered => Image(image) \in disk

(* When saving starts every thumbnail is a file on disk and nothing of the *)
(* request runs any more: no file is saved while a command writes it.      *)
ReadyToSave ==
  request = "storing" =>
    /\ \A t \in Thumbs : t \in thumbPath /\ ThumbOf(t) \in disk
    /\ \A c \in Callers : proc[c] # "alive"
    /\ \A w \in Workers : work[w] = "taken"

(* What is saved and answered has the text of an OCR command than which no *)
(* other found more words, in whatever order they ended.                   *)
TextIsBest ==
  request = "storing" /\ Ocrs # {} =>
    text \in Ocrs /\ \A o \in Ocrs : Words[o] <= Words[text]

(* A request whose processors all succeeded leaves no file behind.         *)
NothingLeft == request \in Answered /\ AllReceived => disk = {}

(* After any other, what is left once everything is quiet is the output of *)
(* a command that failed, or a thumbnail that was finished after the       *)
(* answer: Clean, the deferred calls and SetPath account for the rest.     *)
LeftoversExplained ==
  Quiet => \A f \in disk :
    \/ run[Main] = "failed" /\ f = output(Main)
    \/ \E o \in Ocrs : run[o] = "failed" /\ disk \cap {Tif(o), Text(o)} = {f}
    \/ \E t \in Thumbs : (run[t] = "failed" \/ work[t] = "sentOk") /\ f = ThumbOf(t)

(* The request is answered, its goroutines end and its commands are over.  *)
EverythingEnds == <>Quiet
=============================================================================
