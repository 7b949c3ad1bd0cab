# mandible in TLA+

mandible is an image upload server: an HTTP request brings an image, external
programs (gm, jpegtran, optipng, exiftool, tesseract) process it in a temporary
file, and the result is saved under a fresh random id to one or more image stores
(memory, local directory, S3, GCS).  This directory holds TLA+ models of the parts
of it that run concurrently and fail half way, TLC configurations that check them on
small instances, and TLAPS proofs of their main properties for every instance.

## Inventory

| component | source | state | operations | what makes it correct |
|---|---|---|---|---|
| image stores | `imagestore/*store.go`, `store.go` | objects by id and size | `Exists`, `Save`, `Get`, and the concurrent versions of `MultiImageStore` | an acknowledged object is whole in every store that outlives the process; no goroutine or reader leaks |
| hash generator | `imagestore/hash.go` | the id it offers on an unbuffered channel | draw, check, `Get` | an id in use is never given out; somebody waiting always gets one |
| upload handler | `server/server.go` `uploadFile`, `buildThumbResponse` | per request: temporary file, id, thumbnails | POST `/file`, `/url`, `/base64`, `/user/...` | 200 means everything is saved; every request is answered |
| thumbnail handler | `server/server.go` `thumbnailHandler` | per request | GET `/thumbnail` | renders an image under its own id only; thumbnails never outlive a missing original |
| OCR handler | `server/server.go` `ocrHandler` | per request | GET `/ocr` | as for renders, nothing saved |
| image processors | `imageprocessor/`, `uploadedfile/` | path of the image, paths of the thumbnails, temporary files | the chain (orient, compress, strip, scale), concurrent thumbnails and OCR, `SetPath`, `Clean` | the path names a file that exists; nothing is left behind on success |
| command runner | `imageprocessor/processorcommand/runner.go` | a program, a timer, a goroutine and a channel | `runProcessorCommand` | no program outlives the call; nil only after status zero; the call returns |
| command lines | `imageprocessor/processorcommand/*.go` | input and output files | one function per tool | as for the processors |
| image scaler | `imageprocessor/imagescaler.go` | size of the file | quality 90, 70, then the resize loop | ends; success means the size fits |
| thumbnail geometry | `uploadedfile/thumbfile.go` | none | widths, heights, crops | a crop has the ratio asked for |
| authentication | `server/authenticator.go`, `authenticatedEndpoint` | the key | `GetUser` | an upload is attributed only to the user a valid grant names |
| store factory, names | `imagestore/factory.go`, `namepathmapper.go` | configuration | at start-up | distinct keys get distinct paths |
| statistics | `server/stats.go` | counters, in Datadog | one per event | agree with what clients saw |
| configuration, start-up, packaging, vendored code | `config/`, `main.go`, `docker/`, `vendor/` | | | not modelled |

How they interact: a handler goroutine calls the processors, which call the command
runner; then it receives an id from the one generator goroutine, which asks the
stores through `MultiImageStore.Exists`; then it calls `MultiImageStore.Save` for the
original and for each thumbnail.  `Exists`, `Save`, `Get`, `asyncProcessType` and
`MultiOCRCommand` all start one goroutine per member, and all but `Get` return at the
first error while the others go on.  Nothing is locked but the map of the memory
store; nothing is transactional; what survives a crash is what is in the local
directory and the buckets.  Around all that each handler opens readers and files it must
release, decides who the request is from, counts in the statistics, and has a dozen early
returns.

The hard behaviours, each at its line, are the `hazards` of `PROJECT.json`.

## Modules

| module | models | state | actions |
|---|---|---|---|
| `ImageStore` | the stores' `Exists`, `Save`, `Get` as operators | `stored[s][key]`: the requests whose bytes are under a key | `CreateFile`, `PutObject`, `FailPut`, `LoseMemory`, `ExistsAnswers` |
| `HashGenerator` (extends `ImageStore`) | the generator goroutine and `MultiImageStore.Exists` | `gen`, `cand`, `probe[s]` | `Draw`, `Probe`, `TakeTrue`, `TakeErr`, `TakeFalse`, `Offer` |
| `UploadServer` (extends `HashGenerator`) | `uploadFile`, `buildThumbResponse`, `thumbnailHandler`, `MultiImageStore.Save`, crashes | per request `st`, `hash`, `part`, `thumbs`, `links`, `source`, and `saver[r][s]` for the goroutines of its `Save` | one per step of the handler that other goroutines can come between, see the map in `PROJECT.json` |
| `ImageArchive` | the promise: ids change hands once, when an upload is answered | `outcome`, `owner` | `Publish`, `Refuse` |
| `MultiGet` | one call of `MultiImageStore.Get` | per store `pc`, `reader`; the channels `errs`, `results`, `done` | `Open`, `Claim`, `TooLate`, `SendReader`, `ReceiveReader`, `ReceiveErr`, `GiveUp`, ... |
| `Command` | the contract of `runProcessorCommand` | `run`, `proc` | `Begin`, `Exit`, `Return` |
| `CommandRunner` | its code | `call`, `proc`, `heirs`, `waiter`, `cmdDone`, `result` | `Start`, `Receive`, `Expire`, `Reap`, `Waited`, `SendDone`, `Fork`, `Exit`, `HeirsEnd` |
| `Processing` (over `Command`) | the processors and temporary files of one request | `request`, `step`, `image`, `thumbPath`, `disk`, `work`, `ocr` | `RunStep`, `StepDone`, `StartWorkers`, `TakeError`, `ThumbDone`, `OcrDone`, `Answer`/`Clean`, ... |
| `ImageScaler` | the chain of `EverythingStrategy` seen from the size of the file: the decision to scale, the processors before, `scaleJpeg` and its loop | `size`, `percent`, `at`, `mime`, `scale`, and what `SavedFits` needs to know of the past | one per command: `Orient`, `Compress`, `Strip`, `ToJpeg`, `Quality90`, `Quality70`, `Resize` |
| `ThumbGeometry` | `ThumbFile.Process`: from the numbers of a request to the geometry of the command | none: operators | |
| `Handlers` (extends `ThumbGeometry`) | one request on any of the nine routes, from the middleware to the last deferred call: authentication, extraction, parsing, the temporary file, answers, statistics, panics | `at`, the readers, the temporary file, `upload`, the stack `defers`, `stored`, `resp`, `status`, `stats` | one per step that can return early: `Accept`, `Extract`, `Parse`, `Get`, `Copy`, `Open`, `Process`, `Save`, `SaveThumb`, `Metadata`, their failures, and `Deferred`, `Returned`, `Out` |
| `MCUploadServer`, `MCProcessing`, `MCHandlers` | instances for TLC | | |
| `UploadServer_proofs`, `ArchiveRefinement_proofs`, `Responses_proofs`, `MultiGet_proofs`, `CommandRunner_proofs`, `Processing_proofs`, `ImageScaler_proofs`, `Handlers_proofs` | theorems | | |

Composition.  `UploadServer` is one state machine made of the stores, the generator
and the requests.  `Processing` is what happens inside its state `"processing"`, and
its `"storing"` is what `UploadServer` details; `Processing` uses a command only
through `Command`, and `CommandRunner` is shown to implement `Command`.  `ImageScaler` looks
at the chain of `Processing` for the sizes of the files, `Handlers` at a request as a whole:
its `Process` is a run of `Processing` and its `Save` and `SaveThumb` are saves of
`UploadServer`, each of which may fail.

Operators named `Bug_...` are not part of a model: each is a mutated form of the
definition after it, used to see that a property can fail.

### Abstractions

- The bytes of an object are the set of requests whose bytes it contains.  `{}` is a
  file that is created and still empty, two members are a mixture of writers, `Junk`
  is what a failed copy leaves in a local file, `Old` an image of an earlier run.  So a
  property can say "exactly the bytes of u".
- A key is an id and a part (original or thumbnail name).  The code's thumbnail ids
  are `<id>/<name>`, which no generated id equals.  `NamePathMapper` is a regular
  expression from the configuration; it is assumed to map distinct keys to distinct
  paths, as the default one does.
- S3 and GCS are one kind of store: both answer `Exists` for a missing object with an
  error, both replace an object as a whole, and a failed request may have been
  executed.
- A local `Save` is create (truncate) then copy; the copy is one step, its failure
  leaves `Junk`.
- `Exists` with one configured store is a direct call; the model with one store and
  one goroutine has the same behaviours.
- Goroutines of an `Exists` call that has returned do nothing visible and are dropped.
- An answered request's stray copies keep running (`saver` stays busy), since they
  write to the stores.  They may still be opening the temporary file when `Clean`
  removes it: `OpenSrc` is possible only before the answer, `OpenFails` at any time.
- In `Processing` a file is named by the steps that made it, as the code does by
  suffixes.  A thumbnail's name is assumed not to be one of the suffixes the code uses
  itself (`ort`, `opti`, `meme.jpg`, ...).
- A text of `Processing` is the command that read it, and `Words` how many words it has;
  which words count is left to the speller.
- Sizes in `ImageScaler` are in units, `FiveMB` of which are 5 MB; every command may produce
  any of the sizes, but a processor before the scaler may enlarge a file only if it is in
  `Enlarges` (re-encoding by gm may; jpegtran, optipng and exiftool are taken not to).
  `FileSize` may fail at any time; where the code looks at the error that is `Fail`, where it
  does not it is a size of 0, remembered in `unread`.
- In `ThumbGeometry` the numbers of a ratio are what `ParseFloat` may return: a fraction of
  either sign, an infinity or no number (the last two have the denominator 0).  Floating
  point is modelled by its error: the quotient of two whole numbers that is whole, and its
  product with a side, are exact up to `Precision` (2^50, which is short of 2^53 to leave room
  for several roundings); any other product may be off by one part in `Precision`, so that
  `math.Ceil` may return any whole number within that distance.  `2.7:0.3` so makes
  9 or 10 of a side of 1.  `int` of a number beyond `MaxInt`, of an infinity or of no number is any
  member of `Garbage`, since Go leaves it to the platform; a quotient too large for a
  `float64` is taken to be possible beyond `MaxInt` already.
- `ComputeWidth` and `ComputeHeight` read the dimensions from the file at each call.  Each
  reading may fail and then counts as 0, as in the code, on its own: the geometry of one
  command may be made of readings that disagree.
- What `http.ServeFile` answers for a thumbnail (`server.go:477`) is its own decision: a range
  (206), nothing new (304), or an error (403, 404, 412, 416, 500) after the thumbnail has been
  saved and counted.  `FileStatus` has them all, and none passes `s.Error` or a counter.
- A command of the chain that exits with status zero is taken to have written its output.
  `SetPath` (`uploadedfile.go:83`) does not look: it removes the file before and takes the
  new name.  `ImageOnDisk` is therefore a statement about the order of steps, not about the
  programs; see the guard of `Succeed` in `Processing`.
- In `Handlers` a grant has the fields the code looks at and a flag for its code: hmac and
  JSON are taken to be right.  Routes, methods and the user of a path are what the router
  makes of them; since it never gives an empty user, the 400 of `authenticatedEndpoint`
  cannot occur and is left out.  `status` is what the client gets: a panic makes net/http
  close the connection without sending what is buffered, so it is then 0.
- The processors in `Handlers` succeed or fail as a whole, and the geometry of each
  thumbnail is chosen when they succeed.
- `Processing` starts after `NewUploadedFile` has accepted the type.  The processors of
  the chain differ for the model only in whether they write a new file; those that do
  nothing for a MIME type are left out of the chain.

## Assumptions

`Reliable` (module `UploadServer`) is what the safety of acknowledged images needs, and
what the code does not enforce:

1. `FaultyExists = {}`: an `Exists` call fails only because the object is absent.  The
   generator drops the error of `Exists`, so a bucket that does not answer makes an id
   in use look free and its image is overwritten.  With `FaultyExists` non-empty TLC
   finds `AckedDurable` violated; the constant is there to see it.
2. `~RepeatDraws`: a random generator does not draw an id while copies for the same id
   are under way.  Ids have `HashLength` characters of 62, so this is a matter of
   probability, not of code: nothing reserves an id between the check and the save.  The
   window between the two is thus assumed away, not shown to be harmless: `AckedDurable`,
   `IdsKept` and `ArchiveSpec` say nothing of two uploads in flight that draw the same id.
   `SettledIdsAreNotGiven` is what holds without this assumption.
3. `Persistent # {}`: some store outlives the process.

Every configuration that checks these properties has these values, and the theorems
have `Reliable` as an assumption.

## Runs

All bounds are in the `.cfg` files.

| run | question | instance | result |
|---|---|---|---|
| `uploads` | do acknowledged images stay whole, are responses complete, do old images survive, does the server implement `ImageArchive`, does the proofs' invariant hold | 2 uploads, 1 thumbnail, local + bucket, 2 ids, 1 crash | 207 000 states |
| `renders` | can a thumbnail be without original | 1 upload, 1 render, local + bucket, 1 crash | 788 000 states |
| `single` | can a render see another upload's bytes under a published id | 2 uploads, 1 render, one local store | 356 000 states |
| `memory` | can a memory store's "false" win, does its amnesia matter, is every request answered | 2 uploads without thumbnails, memory + bucket, 1 crash, no symmetry | 95 000 states |
| `unused` | are ids handed out unused, as `hash.go:8` says | 2 uploads, local + bucket, no crash | violated |
| `get` | does `Get` leak readers, give up too early or block | 4 stores | 4 000 states |
| `runner` | does `runProcessorCommand` return and keep its contract | 2 callers, any number of calls | 3 000 states |
| `files` | are paths right, files removed, results complete | chain of 4, a thumbnail, a circle, 2 OCR commands | 1 170 000 states |
| `scaling` | do saved images fit, are small ones accepted, does the loop end and ask for sensible percentages | 6 sizes, limit 2, 3 types, the orienter may enlarge | 2 060 states |
| `answers` | is every request answered, once and truthfully, and everything released, counted, and only for its user; do crops have the ratio asked for | 9 routes, 2 users, 3 kinds of valid and 5 of invalid grants and more, thumbnails around every limit with 18 ratios, 2 images | 716 000 states |
| `other_user` | does a refused user get a 401 | the same | violated |
| `request_ends` | does everything end | the same without the circle | 38 000 states |

Why the bounds are enough to be interesting: with two uploads and two ids the second
can be given the id of the first when the first failed, and must not when it
succeeded; one of the two ids can be an old image's.  Two stores are needed for a save
to fail half way and for answers of `Exists` to disagree; one local and one bucket
store have all the ways a copy fails, and the memory store has its run because it is
the only one that answers "false".  One crash can hit at any point of both uploads.  In
`files` a circle and an OCR command have a second step that can fail after a
first that succeeded, while a plain thumbnail is finished at any time before, between
or after.

In `scaling` the limit of 2 leaves sizes below, at and above it, one unit being 5 MB, so that
each first percentage is chosen; 0 is a size too.  In `answers` the greatest side is 4 and
requests have sides of -1, 0, 1, 4 and 5, and no ratio, an invalid one, or one of whole numbers,
of fractions, of decimals with a whole quotient, of negative and of zero numbers, of infinities
and of no numbers, and one that overflows; the precision is 100 and the greatest int 110, so that
the products of small sides lie on either side of both.  The dimensions are of two images, and
each reading may fail; a pair of thumbnails makes a save fail between two.  Times 0 (the zero time) and 1 and durations of -2 and 0 reach every branch of `GetUser`.

`MaxCrashes` is the only bound on behaviours; everything else is finite by itself, but for
`commands` in `ImageScaler`, which stops at `CountUpTo`, above the bound that is proved.
Symmetry (uploads, ids, thumbnail names among themselves) is used in the safety runs
only.  Deadlock is checked everywhere except for `MultiGet`, a single call that ends;
`UploadServer` and `Processing` have a step `Quiet` for the state in which every request
is answered and every goroutine is over, and `ImageScaler` and `Handlers` one at their ends,
so any other stop is an error.

### Findings

`hash.go:8` says the generator's ids are "unique (does not exist in the store)".  Run
`unused` shows an upload that gets an id under which a store holds an original: an
upload saved its original to one store, failed on the other and answered 500; the
generator then drew the same id, the store without the object answered first (with an
error, which counts as "does not exist"), and the next upload received it.  The id was
never acknowledged, which is why `AckedDurable` and `ArchiveSpec` hold all the same; but
for a while two stores disagree about the image under the id.  What is left of the promise
is proved in `Responses_proofs`: with several stores at least one has no original under the id
(`ReceivedIdsAreMissing`), and with a single store the promise holds as it stands
(`SingleStoreIdsAreUnused`), even for thumbnails (`FreshIdsAreEmpty`).

`server.go:285` says that the endpoints of users answer with "4xxs unless authentication is
passed", and `server.go:299` and `README.md:246` name the case of somebody else's account.  Run
`other_user` shows a request with a valid grant of another user that gets no answer: the
condition at `server.go:300` holds because the users differ, while the error is nil, and
`err.Error()` at `server.go:302` panics after `WriteHeader(401)` has only been noted.  Nothing is
saved for such a request (`OwnUpload`), but its connection is closed and its time not
counted.  (The example in the README itself has a number as its user, which is no string and
fails in `json.Unmarshal`; it does get its 401.)

Two more things are exceptions named in properties that hold.  `EveryRequestAnswered`: an
upload whose type is not supported is not answered either, since the deferred `Clean` of a nil
upload panics (`server.go:118`).  `NothingHeld`: a half-written temporary file stays
(`server.go:632`), and so do the bodies of refused downloads (`server.go:557`).  And `SavedFits`
has two: an error of `FileSize` the scaler does not look at (`imagescaler.go:49`), and an image
that the orienter enlarged after it was decided not to scale (`imageprocessor.go:108`).

## Fairness

- `UploadServer`: weak fairness for the generator's checks, each handler and each copy:
  goroutines are scheduled, commands are killed after 60 s, calls to stores are
  assumed to return.  Strong fairness for handing an id to a waiting upload, since
  receivers on a Go channel queue in order, and for drawing each id, since the
  generator is random.  `RequestsAnswered` further assumes that free ids keep turning
  up; if none does, the code has no answer to give.  Arrivals and crashes are not fair.
- `MultiGet`: weak fairness for the caller and each goroutine.
- `CommandRunner`: weak fairness for the caller (which includes the timer), the goroutine
  and for the end of descendants that hold the pipes.  None for the program: it may
  hang.  Without the assumption on descendants the call may hang after the timeout,
  since it waits for `Wait` without limit (`runner.go:29`).
- `ImageScaler`: weak fairness for its one goroutine.
- `Processing`: weak fairness for the handler, the workers, and the end of each command,
  which is what `EveryCallReturns` provides.

## Proofs

Assumptions of all theorems are the `ASSUME`s of the modules, and `Reliable` where it is
stated; it is never more than that, but for the theorems about a single store, which say so.
Every invariant of a passing run is a theorem, and so are the safety action properties and
both refinements.  Numbers of requests, stores, ids, thumbnails, callers and crashes are
arbitrary (the stores of `MultiGet` are finitely many).

- `UploadServer_proofs`: `TypeCorrect`; `IdsKeptAlways`; `AckedDurability`.  `AckedDurable`
  is not inductive: it says nothing of an upload that is still saving, nor of why the
  generator would not give a kept id away.  `IdsKept` adds: copies under an id are those
  of one upload and the id belongs to nobody (`OneWriter`); the id the generator checks
  has no copies under way, a kept id is found in every persistent store and is never
  offered (`CheckWorks`); what the persistent stores hold while an upload saves
  (`Progress`); renders write thumbnails only (`WritersKnown`); old images are whole
  (`OldWhole`).  The proof goes action by action; the interesting ones are `TakeErr` and
  `TakeFalse`, where a store's error or the last "false" turns a candidate into an offer
  and the invariant must exclude a kept id, and `CopyDone` of a goroutine whose handler
  has long answered.
- `ArchiveRefinement_proofs`: `OldImagesSafe`; `ImplementsArchive`, with the same
  invariant: `Finish` of an upload is `Publish`, every failure and the crash are `Refuse`,
  every other step stutters.  A consequence for clients follows: an owner of an id never
  changes (`OwnersStay`).
- `Responses_proofs` has six more results about the same server, each with an invariant of its own.
  - `ThumbsHaveOriginals`, without `Reliable`: where all stores persist, neither wrong answers
    of `Exists` nor repeated ids can part a thumbnail from its original.  `ThumbHasOriginal`
    says nothing of who may still write; `ThumbInv` adds that for every request which saves a
    thumbnail, also by a goroutine whose handler has answered, some store has an original of
    its id, and that an upload has its original wherever a copy of it has succeeded
    (`BasedRequest`).  It rests on `ObjectsStay`: objects are replaced and truncated but never
    removed.
  - `ResponsesAreComplete`: `ResponseInv` says what an upload that saves has in every store so
    far, its original where its goroutines have ended, then the thumbnails listed.  Of
    stores that persist, `IdsKept` knows the original; for memory it must be shown that nobody
    else writes it (`OnlyOwnWrites`, from `OneWriter`).
  - `ReceivedIdsAreMissing`, `SingleStoreIdsAreUnused`, `FreshIdsAreEmpty` from `DrawnMissing`: a
    store that answered "false" or with an error has no original of the candidate, and nobody
    writes one before the id is handed over, since no copies for it are under way.  The last
    one takes `ThumbHasOriginal` with it: where no original is, no thumbnail is.
  - `SettledIdsAreNotGiven`, where some store persists and `Exists` fails only for missing
    objects, but without `~RepeatDraws`: once every persistent store has an original under an id
    and the generator is not just checking or offering it, the id is never given out again,
    whatever other uploads, copies and renders do and however often the server restarts.
    `Settled` adds that a later check of the id hears "yes" of every persistent store and "no"
    of the memory stores at most, so that it cannot end in an offer.  What this leaves open is
    the id the generator is at when the last copy is completed: its check began before.
  - `RendersReadOwnImages`: with a single store, whatever is under the id of an upload that has
    not failed yet is that upload's (`OwnBytes`), also half copied, and so is what a render has
    read there (`OwnRead`).  With two stores neither is inductive, as one of them may hold what
    a refused upload left under the id.
  - `NobodyWaitsInVain`, without `Reliable`: a handler that waits for its `Save`, and the
    generator that waits for `Exists`, have a result to receive or a goroutine that has still
    to send one.
- `MultiGet_proofs`: `GetTypeCorrect`, `NoReaderIsLost`, `MissingMeansNowhere` from `GetInv`:
  at most one store has claimed the channel, a reader that is open belongs to a store
  that has not asked yet or has won, and the number of messages received is the number
  of stores heard of, so that a caller that has counted to the end has heard of all.
  `GetNeverBlocks`: a goroutine that sends finds room in its channel, as many as there are
  stores, and the caller that waits has a message or a goroutine at work; it needs that `done`
  is set only by a winner.
- `CommandRunner_proofs`: `NothingOutlivesACall`, and `KeepsContract`, the refinement of
  `Command`, from `RunnerInv`: while a call is on, either its goroutine waits or its one
  message is in the channel, never both.  `RunnerNeverBlocks`: the one place of that channel is
  enough, also after a timeout, and whoever waits has a message or a goroutine that sends it.
- `Processing_proofs`: all its invariants, for every chain, every set of thumbnails and OCR
  commands.  The invariant behind them (`FilesInv`) has, besides the types, where the
  goroutines are (`Places`: nothing is concurrent with the chain, a worker's place fits its
  command, a taken thumbnail has its path), what must be on disk (`Needed`), and for every
  file on disk whom it is of (`Owned`: the request's own goroutine, a thumbnail's or an OCR
  command's, and why it is still there).  `ImageOnDisk` alone is not inductive: the step that
  replaces the image needs that the command which succeeded left its output, and that
  no worker runs yet.  `NobodyIsStuck`: while the handler or the OCR runner waits, the command or
  goroutine it waits for is under way, and no worker is left between two commands.
- `ImageScaler_proofs`: all invariants, for every limit and every set of sizes.  The
  invariant relates `percent` to `commands` (each turn of the loop runs one command and takes
  ten off) and the size to what was tested last.  `ChainDescends`: `Rank`, at most 107, falls at
  every command and is 0 at the outcomes only.
- `Handlers_proofs`: all safety properties of its passing run.  `OnlyOwnUploads` needs that nothing is
  stored or copied before `Accept`; `NothingIsHeld` and `RequestsAreAnswered` rest on `EndInv`,
  which says for every place which calls are deferred (`DefersKnown`) and that whatever is open
  has its call among them; `AnswersTellStored` on `StoredInv`, how many objects there are at
  each place, and on `RenderSays`: whatever `ServeFile` answers, a render that has
  been counted has been saved, and one that has not says so; `StatsAgree` on that and
  `CountInv`.  `CropsKeepRatio` is arithmetic, for every ratio, precision and size of int: the
  crop is one of the numbers `Ceil` allows, each of which is a whole number within the slack
  of the exact product (`RoundedWithin`: a quotient rounded up, times the divisor, is at least
  the product and exceeds it by less than the divisor), and the other side is kept exactly
  since sides are far below `Precision`.  What `int` makes of a number that is no int is
  excluded by what `CropKeepsRatio` says, not by the requests.  `NobodyAnswersTwice`: a status
  that is written is not written again by a later step; only a panic takes it back.

Only model-checked: the five liveness properties `RequestsAnswered`, `CallEnds`,
`EveryCallReturns`, `EverythingEnds` and `ChainEnds`, since fairness and `ENABLED` are out of the
prover's reach.  The safety each of them rests on is proved: `NobodyWaitsInVain`,
`GetNeverBlocks`, `RunnerNeverBlocks`, `NobodyIsStuck` and `ChainDescends` say that whoever waits
does so for somebody who is under way, so that only the fairness of goroutines, commands and
the generator's luck is left to assume.  The two runs that expect a violation have nothing to
prove.

## Not modelled

- The contents of the response (`ImageResponse`) and links: every store's `Save` sets the link
  of the one object it shares with the others (`localstore.go:51`, `s3store.go:55`,
  `gcsstore.go:61`), so the answer has that of the
  store that was last; whichever it is, the object is there.
- The bytes of an id (`hash.go:27`): ids are model values, so there are no lengths, and a random
  source that fails does not occur.  With all ids used up the generator has nothing to
  offer; `RequestsAnswered` assumes that this does not last.
- Descriptors of files that are never closed (`uploadedfile.go:30`, `111`, `135`): they are
  released by finalizers, whose time the code does not determine.
- Names of thumbnails that equal suffixes of other temporary files: `Processing` takes the
  files to be different, which the code does not ensure.
- The output format of a thumbnail (`thumbType`), quality, and which words the speller knows:
  data that no other state depends on.
- Expiry of grants: the comparison is in `GetUser`, but the server's clock for it stands at
  the zero time (`authenticator.go:77`), so there is no behaviour to state a property of.
- Configuration and start-up (read once; its values are constants), packaging, vendored
  libraries (third-party code, modelled by what the stores do with their answers).
- A crash leaves temporary files behind, which nothing in the code collects; `Processing` and
  `Handlers` are about a process that lives.

## Plan

Done: the stores, the generator, uploads and renders with their archive; `MultiGet`; the
command runner and the processing of one request; scaling, thumbnail geometry,
authentication, answers and statistics; theorems about each.

Proved: every safety property of the passing runs.

Left, in this order: links, as the last writer among the stores; thumbnail names as a
parameter of `Processing`, so that two of its files may be one; what of `ThumbHasOriginal` and
`ResponseComplete` survives a restart when a store is only in memory.
