---------------------------- MODULE UploadServer ----------------------------
(***************************************************************************)
(* The requests of the server that write to the image stores, from the     *)
(* moment their image is on disk: uploads (POST /file, /url, /base64 and   *)
(* the /user/ endpoints) that take a fresh id from the hash generator and  *)
(* save their original and then their thumbnails, and renders              *)
(* (GET /thumbnail) that read an original and save one thumbnail of it.    *)
(*                                                                         *)
(* Saving goes through MultiImageStore.Save: one goroutine per store       *)
(* copies the file, each sends one result on a buffered channel, and the   *)
(* handler receives the results and gives up at the first error, leaving   *)
(* the other goroutines running.                                           *)
(***************************************************************************)
EXTENDS HashGenerator, Naturals

CONSTANTS
  Uploads, Renders,  (* the two kinds of requests                          *)
  RepeatDraws,       (* may the random generator draw the id of a request  *)
                     (* whose copies are not finished?                     *)
  MaxCrashes         (* bound: how often the process dies                  *)

ASSUME RequestAssumption ==
  /\ Requests = Uploads \cup Renders
  /\ Uploads \cap Renders = {}
  /\ RepeatDraws \in BOOLEAN
  /\ MaxCrashes \in Nat

VARIABLES
  st,       (* st[r]: where the handler of request r is                    *)
  hash,     (* hash[r]: the id of its image                                *)
  part,     (* part[r]: the part of the image it is saving                 *)
  thumbs,   (* thumbs[r]: the thumbnails it asks for                       *)
  links,    (* links[r]: those in the response built so far                *)
  saver,    (* saver[r][s]: the goroutine of the current Save on store s   *)
  source,   (* source[r]: the bytes of the original a render read          *)
  crashes   (* how often the process died so far                           *)

reqVars == <<st, hash, part, thumbs, links, saver, source>>
vars    == <<stored, genVars, reqVars, crashes>>

Answered    == {"ok", "failed", "lost"}
States      == {"idle", "processing", "hashing", "saving"} \cup Answered
Busy        == {"open", "create", "copy"}           \* before its result is sent
SaverStates == Busy \cup {"off", "sentOk", "sentErr", "taken"}

key(r)       == <<hash[r], part[r]>>
Active(r)    == \E s \in Stores : saver[r][s] \in Busy
AllOff       == [s \in Stores |-> "off"]
AllOpen      == [s \in Stores |-> "open"]
SavesFor(u)  == st[u] = "saving" \/ Active(u)
InFlight(id) == \E u \in Uploads : hash[u] = id /\ SavesFor(u)

TypeOK ==
  /\ StoredType
  /\ GenType
  /\ st \in [Requests -> States]
  /\ hash \in [Requests -> Ids \cup {NoHash}]
  /\ part \in [Requests -> Parts]
  /\ thumbs \in [Requests -> SUBSET Thumbs]
  /\ links \in [Requests -> SUBSET Thumbs]
  /\ saver \in [Requests -> [Stores -> SaverStates]]
  /\ source \in [Requests -> Contents]
  /\ crashes \in 0..MaxCrashes

Init ==
  /\ StoreInit
  /\ GenInit
  /\ st = [r \in Requests |-> "idle"]
  /\ hash = [r \in Requests |-> NoHash]
  /\ part = [r \in Requests |-> Original]
  /\ thumbs = [r \in Requests |-> {}]
  /\ links = [r \in Requests |-> {}]
  /\ saver = [r \in Requests |-> AllOff]
  /\ source = [r \in Requests |-> {}]
  /\ crashes = 0

(* The handler returns an error: what it was about to answer is dropped.   *)
(* Goroutines of its Save that still run keep their file's key.            *)
Refuse(r) ==
  /\ st' = [st EXCEPT ![r] = "failed"]
  /\ thumbs' = [thumbs EXCEPT ![r] = {}]
  /\ links' = [links EXCEPT ![r] = {}]
  /\ source' = [source EXCEPT ![r] = {}]

-----------------------------------------------------------------------------
(* Uploads.                                                                *)

(* The request arrives with the thumbnails it asks for; the extraction,    *)
(* saveToTmp and the processors run, which write no store.                 *)
Arrive(u, T) ==
  /\ st[u] = "idle"
  /\ st' = [st EXCEPT ![u] = "processing"]
  /\ thumbs' = [thumbs EXCEPT ![u] = T]
  /\ UNCHANGED <<stored, genVars, hash, part, links, saver, source, crashes>>

(* processor.Run returned; the handler blocks on hashGenerator.Get.        *)
Processed(u) ==
  /\ st[u] = "processing"
  /\ st' = [st EXCEPT ![u] = "hashing"]
  /\ UNCHANGED <<stored, genVars, hash, part, thumbs, links, saver, source, crashes>>

(* The generator hands its id over, and Save of the original starts.       *)
GetHash(u, id) ==
  /\ st[u] = "hashing"
  /\ Offer(id)
  /\ hash' = [hash EXCEPT ![u] = id]
  /\ part' = [part EXCEPT ![u] = Original]
  /\ saver' = [saver EXCEPT ![u] = AllOpen]
  /\ st' = [st EXCEPT ![u] = "saving"]
  /\ UNCHANGED <<stored, thumbs, links, source, crashes>>

(* Mutant: the handler goes on after the first result.                     *)
Bug_FirstResultDecides(r) == st[r] = "saving" /\ \E s \in Stores : saver[r][s] = "taken"

(* The loop of Save has received a result from every store.                *)
AllTaken(r) == st[r] = "saving" /\ \A s \in Stores : saver[r][s] = "taken"

(* The thumbnails in the response once the current part is in every store. *)
linked(r) == links[r] \cup ({part[r]} \ {Original})

(* Every store has the current part: buildThumbResponse saves the next     *)
(* thumbnail (the order is that of a map, so any) ...                      *)
NextThumb(u, t) ==
  /\ AllTaken(u)
  /\ t \in thumbs[u] \ linked(u)
  /\ links' = [links EXCEPT ![u] = linked(u)]
  /\ part' = [part EXCEPT ![u] = t]
  /\ saver' = [saver EXCEPT ![u] = AllOpen]
  /\ UNCHANGED <<stored, genVars, st, hash, thumbs, source, crashes>>

(* ... and after the last one the handler answers 200, or 500 when the     *)
(* size or the dimensions of the file cannot be read.                      *)
AllSaved(r) == AllTaken(r) /\ thumbs[r] \subseteq linked(r)

Finish(r) ==
  /\ AllSaved(r)
  /\ st' = [st EXCEPT ![r] = "ok"]
  /\ links' = [links EXCEPT ![r] = linked(r)]
  /\ saver' = [saver EXCEPT ![r] = AllOff]
  /\ UNCHANGED <<stored, genVars, hash, part, thumbs, source, crashes>>

MetadataFails(u) ==
  /\ AllSaved(u)
  /\ Refuse(u)
  /\ saver' = [saver EXCEPT ![u] = AllOff]
  /\ UNCHANGED <<stored, genVars, hash, part, crashes>>

-----------------------------------------------------------------------------
(* Renders.                                                                *)

(* Mutant: the error of Get is ignored.                                    *)
Bug_FetchMissing(v, id, t, s) ==
  /\ st[v] = "idle"
  /\ st' = [st EXCEPT ![v] = "processing"]
  /\ hash' = [hash EXCEPT ![v] = id]
  /\ part' = [part EXCEPT ![v] = t]
  /\ thumbs' = [thumbs EXCEPT ![v] = {t}]
  /\ UNCHANGED <<stored, genVars, links, saver, source, crashes>>

(* The handler finds the original in some store and copies it to disk.     *)
Fetch(v, id, t, s) ==
  /\ st[v] = "idle"
  /\ Holds(s, <<id, Original>>)
  /\ st' = [st EXCEPT ![v] = "processing"]
  /\ hash' = [hash EXCEPT ![v] = id]
  /\ part' = [part EXCEPT ![v] = t]
  /\ thumbs' = [thumbs EXCEPT ![v] = {t}]
  /\ source' = [source EXCEPT ![v] = stored[s][<<id, Original>>]]
  /\ UNCHANGED <<stored, genVars, links, saver, crashes>>

(* No store could be read: 404.                                            *)
FetchFails(v) ==
  /\ st[v] = "idle"
  /\ Refuse(v)
  /\ UNCHANGED <<stored, genVars, hash, part, saver, crashes>>

(* The thumbnail is made: it is saved under <id>/<name> ...                *)
Rendered(v) ==
  /\ st[v] = "processing"
  /\ st' = [st EXCEPT ![v] = "saving"]
  /\ saver' = [saver EXCEPT ![v] = AllOpen]
  /\ UNCHANGED <<stored, genVars, hash, part, thumbs, links, source, crashes>>

(* ... or, with "nostore", only served.                                    *)
Served(v) ==
  /\ st[v] = "processing"
  /\ st' = [st EXCEPT ![v] = "ok"]
  /\ UNCHANGED <<stored, genVars, hash, part, thumbs, links, saver, source, crashes>>

(* A processor fails: 500.                                                 *)
ProcessFails(r) ==
  /\ st[r] = "processing"
  /\ Refuse(r)
  /\ UNCHANGED <<stored, genVars, hash, part, saver, crashes>>

-----------------------------------------------------------------------------
(* MultiImageStore.Save and the Save methods of the stores.                *)

SetSaver(r, s, x) == saver' = [saver EXCEPT ![r][s] = x]

saveRest == <<genVars, st, hash, part, thumbs, links, source, crashes>>

(* os.Open(src) finds the file: it is there until the handler answers.     *)
OpenSrc(r, s) ==
  /\ saver[r][s] = "open"
  /\ st[r] = "saving"
  /\ SetSaver(r, s, IF s \in LocalStores THEN "create" ELSE "copy")
  /\ UNCHANGED <<stored, saveRest>>

(* LocalImageStore.Save: os.Create.                                        *)
CreateDst(r, s) ==
  /\ saver[r][s] = "create"
  /\ CreateFile(s, key(r))
  /\ SetSaver(r, s, "copy")
  /\ UNCHANGED saveRest

(* One of the two fails, os.Open for one because the file is gone.         *)
OpenFails(r, s) ==
  /\ saver[r][s] \in {"open", "create"}
  /\ SetSaver(r, s, "sentErr")
  /\ UNCHANGED <<stored, saveRest>>

CopyDone(r, s) ==
  /\ saver[r][s] = "copy"
  /\ PutObject(s, key(r), r)
  /\ SetSaver(r, s, "sentOk")
  /\ UNCHANGED saveRest

CopyFails(r, s) ==
  /\ saver[r][s] = "copy"
  /\ FailPut(s, key(r), r)
  /\ SetSaver(r, s, "sentErr")
  /\ UNCHANGED saveRest

(* The handler receives a nil error and waits for the next result ...      *)
TakeOk(r, s) ==
  /\ st[r] = "saving"
  /\ saver[r][s] = "sentOk"
  /\ SetSaver(r, s, "taken")
  /\ UNCHANGED <<stored, saveRest>>

(* Mutant: the error of a store is lost.                                   *)
Bug_ErrorIgnored(r, s) ==
  /\ st[r] = "saving"
  /\ saver[r][s] = "sentErr"
  /\ SetSaver(r, s, "taken")
  /\ UNCHANGED <<stored, saveRest>>

(* ... or an error, and answers 500 at once.                               *)
TakeFailure(r, s) ==
  /\ st[r] = "saving"
  /\ saver[r][s] = "sentErr"
  /\ Refuse(r)
  /\ UNCHANGED <<stored, genVars, hash, part, saver, crashes>>

SaveStep(r, s) ==
  \/ OpenSrc(r, s)
  \/ CreateDst(r, s)
  \/ OpenFails(r, s)
  \/ CopyDone(r, s)
  \/ CopyFails(r, s)
  \/ TakeOk(r, s)
  \/ TakeFailure(r, s)

-----------------------------------------------------------------------------
(* The process dies and is started again: requests being served are lost,  *)
(* their copies stop where they are, the generator starts over.            *)
Crash ==
  /\ crashes < MaxCrashes
  /\ crashes' = crashes + 1
  /\ LoseMemory
  /\ RestartGenerator
  /\ st' = [r \in Requests |->
              IF st[r] \in Answered \cup {"idle"} THEN st[r] ELSE "lost"]
  /\ hash' = [r \in Requests |-> IF st[r] = "ok" THEN hash[r] ELSE NoHash]
  /\ part' = [r \in Requests |-> Original]
  /\ thumbs' = [r \in Requests |-> IF st[r] = "ok" THEN thumbs[r] ELSE {}]
  /\ links' = [r \in Requests |-> IF st[r] = "ok" THEN links[r] ELSE {}]
  /\ source' = [r \in Requests |-> IF st[r] = "ok" THEN source[r] ELSE {}]
  /\ saver' = [r \in Requests |-> AllOff]

DrawId(id) ==
  /\ RepeatDraws \/ ~InFlight(id)
  /\ Draw(id)
  /\ UNCHANGED <<stored, reqVars, crashes>>

Generate == CheckStep /\ UNCHANGED <<stored, reqVars, crashes>>

(* Every request is answered and every goroutine but the generator done.   *)
Quiet ==
  /\ \A r \in Requests : st[r] \in Answered /\ ~Active(r)
  /\ gen = "offer"
  /\ UNCHANGED vars

Next ==
  \/ \E id \in Ids : DrawId(id)
  \/ Generate
  \/ \E u \in Uploads :
       \/ \E T \in SUBSET Thumbs : Arrive(u, T)
       \/ Processed(u)
       \/ \E id \in Ids : GetHash(u, id)
       \/ \E t \in Thumbs : NextThumb(u, t)
       \/ MetadataFails(u)
  \/ \E v \in Renders :
       \/ \E id \in Ids, t \in Thumbs, s \in Stores : Fetch(v, id, t, s)
       \/ FetchFails(v)
       \/ Rendered(v)
       \/ Served(v)
  \/ \E r \in Requests :
       \/ ProcessFails(r)
       \/ Finish(r)
       \/ \E s \in Stores : SaveStep(r, s)
  \/ Crash
  \/ Quiet

Spec == Init /\ [][Next]_vars

(* Fairness.  A handler that can go on does, and so do the goroutines of   *)
(* Save and Exists: processors are killed after a timeout, and the calls   *)
(* to the stores are assumed to return.  Receivers on the channel of the   *)
(* generator queue, so an upload is not overtaken for ever; and a random   *)
(* generator that draws for ever draws every id for ever.                  *)
HandlerStep(r) ==
  \/ Processed(r) \/ Rendered(r) \/ ProcessFails(r)
  \/ \E t \in Thumbs : NextThumb(r, t)
  \/ Finish(r)
  \/ \E s \in Stores : TakeOk(r, s) \/ TakeFailure(r, s)

SaverStep(r, s) ==
  OpenSrc(r, s) \/ CreateDst(r, s) \/ OpenFails(r, s) \/ CopyDone(r, s) \/ CopyFails(r, s)

Fairness ==
  /\ WF_vars(Generate)
  /\ \A r \in Requests :
       /\ WF_vars(HandlerStep(r))
       /\ \A s \in Stores : WF_vars(SaverStep(r, s))
  /\ \A u \in Uploads : SF_vars(\E id \in Ids : GetHash(u, id))
  /\ \A id \in Ids : SF_vars(DrawId(id))

FairSpec == Spec /\ Fairness

-----------------------------------------------------------------------------
(* Safety.                                                                 *)

(* Every store that outlives the process holds c as the original of id.    *)
Everywhere(id, c) == \A s \in Persistent : stored[s][<<id, Original>>] = c

(* Exists calls fail for no reason but the object's absence, the generator *)
(* never draws an id whose copies are under way, and some store outlives   *)
(* the process.                                                            *)
Reliable == FaultyExists = {} /\ ~RepeatDraws /\ Persistent # {}

(* An upload answered 200 keeps its original: every store that outlives    *)
(* the process holds exactly its bytes under its id, whatever later        *)
(* uploads, failed or abandoned copies and restarts do, when Reliable.     *)
AckedDurable ==
  \A u \in Uploads : st[u] = "ok" => Everywhere(hash[u], {u})

(* An upload answers 200 only when every store has its original and every  *)
(* thumbnail it asked for, and the response lists exactly these: no result *)
(* of a goroutine was missed and no error swallowed.                       *)
ResponseComplete ==
  [][\A u \in Uploads : st[u] # "ok" /\ st'[u] = "ok" =>
       /\ links'[u] = thumbs[u]
       /\ \A s \in Stores :
            /\ stored'[s][<<hash[u], Original>>] = {u}
            /\ \A t \in thumbs[u] : stored'[s][<<hash[u], t>>] # Absent]_vars

(* No thumbnail without its image: a thumbnail is in a store only if an    *)
(* original of the same id is in some store, also when saving fails half   *)
(* way, for the server saves originals first and never deletes.  (A memory *)
(* store forgets originals when the process dies: none is configured.)     *)
ThumbHasOriginal ==
  Persistent = Stores =>
    \A id \in Ids, t \in Thumbs :
      (\E s \in Stores : Holds(s, <<id, t>>)) =>
        \E s \in Stores : Holds(s, <<id, Original>>)

(* With a single store, a render in progress has read bytes of the image   *)
(* that is published under its id, or none yet: never what another upload  *)
(* left there.  (With several stores the id of a failed upload can be      *)
(* given out again while a render of its remains is under way.)            *)
RenderReadsOwnImage ==
  (\A s, q \in Stores : s = q) =>
    \A u \in Uploads, v \in Renders :
      st[u] = "ok" /\ st[v] \in {"processing", "saving"} /\ hash[v] = hash[u] =>
        source[v] \subseteq {u}

(* Uploads never touch an image a former run of the server has saved.      *)
OldImagesKept ==
  [][\A s \in Persistent, id \in Ids :
       stored[s][<<id, Original>>] = {Old} =>
         stored'[s][<<id, Original>>] = {Old}]_vars

(* hash.go promises ids that do "not exist in the store": no store has an  *)
(* original under the id at the moment an upload receives it.              *)
ReceivedIdIsUnused ==
  [][\A u \in Uploads : st[u] = "hashing" /\ st'[u] = "saving" =>
       \A s \in Stores : ~Holds(s, <<hash'[u], Original>>)]_vars

-----------------------------------------------------------------------------
(* Liveness.                                                               *)

(* An id the generator can find: no store has an original under it.        *)
SpareId == \E id \in Ids : \A s \in Stores : ~Holds(s, <<id, Original>>)

(* As long as free ids keep turning up every request that arrived is       *)
(* answered or dies with the process: the generator finds a free id, the   *)
(* handlers waiting for it on one channel all get theirs, and no handler   *)
(* waits for a result nobody sends.                                        *)
RequestsAnswered ==
  []<>SpareId => \A r \in Requests : st[r] # "idle" ~> st[r] \in Answered

-----------------------------------------------------------------------------
(* What the server promises: ImageArchive.                                 *)

outcome ==
  [u \in Uploads |-> CASE st[u] = "ok" -> "published"
                       [] st[u] \in {"failed", "lost"} -> "refused"
                       [] OTHER -> "pending"]

OwnedBy(id, u) == st[u] = "ok" /\ hash[u] = id /\ Everywhere(id, {u})

owner ==
  [id \in Ids |->
     IF \E u \in Uploads : OwnedBy(id, u)
       THEN CHOOSE u \in Uploads : OwnedBy(id, u)
       ELSE IF Everywhere(id, {Old}) THEN Old ELSE Nothing]

Archive == INSTANCE ImageArchive WITH Images <- Uploads, NoOne <- Nothing

(* The uploads behave as an archive: at the moment of the answer 200 the   *)
(* image is in every store that outlives the process, under an id that     *)
(* was nobody's, and no step of any request, abandoned goroutine or        *)
(* restart takes an id from its owner, when Reliable.                      *)
ArchiveSpec == Archive!Spec

-----------------------------------------------------------------------------
(* The invariant behind AckedDurable, OldImagesKept and ArchiveSpec.       *)

(* The id is a former run's, or that of an upload that was acknowledged.   *)
IsOld(id)     == \E s \in Persistent : stored[s][<<id, Original>>] = {Old}
IsAcked(id)   == \E u \in Uploads : st[u] = "ok" /\ hash[u] = id
IsKept(id)    == IsOld(id) \/ IsAcked(id)

(* Copies under an id are those of one upload, and the id is not kept.     *)
OneWriter ==
  \A u \in Uploads :
    /\ SavesFor(u) \/ st[u] = "ok" => hash[u] \in Ids
    /\ SavesFor(u) =>
         /\ ~IsKept(hash[u])
         /\ \A w \in Uploads \ {u} : SavesFor(w) => hash[w] # hash[u]

(* The generator never looks at an id with copies under way, finds a kept  *)
(* id in every store that outlives the process, and does not offer it.     *)
CheckWorks ==
  /\ gen \in {"check", "offer"} => cand \in Ids /\ ~InFlight(cand)
  /\ gen = "check" =>
       /\ \A s \in MemoryStores : probe[s] # "err"
       /\ IsKept(cand) => \A s \in Persistent : probe[s] \in {"asked", "true"}
  /\ gen = "offer" => ~IsKept(cand)

(* What the stores hold of an original while its upload saves.             *)
Progress ==
  \A u \in Uploads : st[u] = "saving" =>
    \A s \in Persistent :
      LET c == stored[s][<<hash[u], Original>>]
      IN  IF part[u] = Original
            THEN /\ saver[u][s] \in {"sentOk", "taken"} => c = {u}
                 /\ saver[u][s] = "copy" /\ s \in LocalStores => c = {}
            ELSE c = {u}

(* Renders write thumbnails only, and an answered upload nothing.          *)
WritersKnown ==
  /\ \A v \in Renders :
       st[v] \in {"processing", "saving"} \/ Active(v) => part[v] \in Thumbs
  /\ \A u \in Uploads :
       st[u] \notin {"saving", "failed"} => ~Active(u)

OldWhole == \A id \in Ids : IsOld(id) => Everywhere(id, {Old})

IdsKept ==
  /\ TypeOK
  /\ AckedDurable
  /\ OneWriter
  /\ CheckWorks
  /\ Progress
  /\ WritersKnown
  /\ OldWhole
=============================================================================
