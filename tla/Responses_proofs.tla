-------------------------- MODULE Responses_proofs --------------------------
(***************************************************************************)
(* What clients are told and what renders read: no object vanishes, no id  *)
(* that is settled is given out again, no thumbnail is without its image,  *)
(* an answer 200 tells of everything the upload asked for, a single store  *)
(* never shows a render the bytes of another upload, and nobody waits for  *)
(* a message that no one sends.                                            *)
(***************************************************************************)
EXTENDS ArchiveRefinement_proofs

-----------------------------------------------------------------------------
(* Steps, seen from one request.                                           *)

(* Nothing of request r changes.                                           *)
Same(r) ==
  /\ st'[r] = st[r] /\ hash'[r] = hash[r] /\ part'[r] = part[r]
  /\ thumbs'[r] = thumbs[r] /\ links'[r] = links[r]
  /\ saver'[r] = saver[r] /\ source'[r] = source[r]

UploadStep(u) ==
  \/ \E T \in SUBSET Thumbs : Arrive(u, T)
  \/ Processed(u)
  \/ \E id \in Ids : GetHash(u, id)
  \/ \E t \in Thumbs : NextThumb(u, t)
  \/ MetadataFails(u)

RenderStep(v) ==
  \/ \E id \in Ids, t \in Thumbs, s \in Stores : Fetch(v, id, t, s)
  \/ FetchFails(v) \/ Rendered(v) \/ Served(v)

(* A request changes by a step of its own or by a crash.                   *)
LEMMA OwnStep ==
  ASSUME TypeOK, [Next]_vars, NEW r \in Requests
  PROVE  \/ Same(r)
         \/ r \in Uploads /\ UploadStep(r)
         \/ r \in Renders /\ RenderStep(r)
         \/ ProcessFails(r) \/ Finish(r)
         \/ \E s \in Stores : SaveStep(r, s)
         \/ Crash
<1> DEFINE Goal == \/ Same(r)
                   \/ r \in Uploads /\ UploadStep(r)
                   \/ r \in Renders /\ RenderStep(r)
                   \/ ProcessFails(r) \/ Finish(r)
                   \/ \E s \in Stores : SaveStep(r, s)
                   \/ Crash
<1> USE DEF TypeOK, Same
<1>1. ASSUME NEW u \in Uploads, UploadStep(u) PROVE Goal
  <2>1. CASE u = r
    BY <1>1, <2>1
  <2>2. CASE u # r
    BY <1>1, <2>2 DEF UploadStep, Arrive, Processed, GetHash, NextThumb, MetadataFails, Refuse
  <2> QED BY <2>1, <2>2
<1>2. ASSUME NEW v \in Renders, RenderStep(v) PROVE Goal
  <2>1. CASE v = r
    BY <1>2, <2>1
  <2>2. CASE v # r
    BY <1>2, <2>2 DEF RenderStep, Fetch, FetchFails, Rendered, Served, Refuse
  <2> QED BY <2>1, <2>2
<1>3. ASSUME NEW q \in Requests, ProcessFails(q) \/ Finish(q) PROVE Goal
  <2>1. CASE q = r
    BY <1>3, <2>1
  <2>2. CASE q # r
    BY <1>3, <2>2 DEF ProcessFails, Finish, Refuse
  <2> QED BY <2>1, <2>2
<1>4. ASSUME NEW q \in Requests, NEW s \in Stores, SaveStep(q, s) PROVE Goal
  <2>1. CASE q = r
    BY <1>4, <2>1
  <2>2. CASE q # r
    BY <1>4, <2>2 DEF SaveStep, OpenSrc, CreateDst, OpenFails, CopyDone, CopyFails, TakeOk,
                      TakeFailure, SetSaver, saveRest, Refuse
  <2> QED BY <2>1, <2>2
<1>5. CASE \/ \E id \in Ids : DrawId(id)
           \/ Generate \/ Quiet \/ UNCHANGED vars
  BY <1>5 DEF DrawId, Generate, Quiet, vars, reqVars
<1>6. CASE Crash
  BY <1>6
<1> QED
  BY <1>1, <1>2, <1>3, <1>4, <1>5, <1>6 DEF Next, UploadStep, RenderStep

-----------------------------------------------------------------------------
(* Objects do not vanish.                                                  *)

(* Every write leaves an object: one that is empty, or has bytes of the    *)
(* writer or junk.                                                         *)
LEMMA WritesAreObjects ==
  ASSUME NEW r \in Requests, NEW s \in Stores, NEW k
  PROVE  /\ {} # Absent
         /\ Written(s, k, r) # Absent /\ r \in Written(s, k, r)
         /\ \A c \in FailedCopies(s, k, r) : c = stored[s][k] \/ c # Absent
<1>1. r # Nothing /\ Junk # Nothing
  BY StoreAssumption
<1>2. r \in Written(s, k, r) /\ Junk \in Written(s, k, Junk)
  BY DEF Written
<1> QED BY <1>1, <1>2 DEF FailedCopies, Absent

(* What is in a store after a step: what was there, what a goroutine of a  *)
(* Save wrote, or after a crash nothing, if the store was a memory.        *)
LEMMA WhatIsStored ==
  ASSUME TypeOK, [Next]_vars, NEW s \in Stores, NEW k \in Keys
  PROVE  \/ stored'[s][k] = stored[s][k]
         \/ Crash /\ s \notin Persistent
         \/ \E r \in Requests :
              /\ k = key(r) /\ saver[r][s] \in {"create", "copy"} /\ stored'[s][k] # Absent
              /\ CreateDst(r, s) \/ CopyDone(r, s) \/ CopyFails(r, s)
<1>1. CASE \E r \in Requests, q \in Stores : CreateDst(r, q) \/ CopyDone(r, q) \/ CopyFails(r, q)
  <2>1. PICK r \in Requests, q \in Stores : CreateDst(r, q) \/ CopyDone(r, q) \/ CopyFails(r, q)
    BY <1>1
  <2>2. PICK c : SetObject(q, key(r), c) /\ (c = stored[q][key(r)] \/ c # Absent)
    BY <2>1, WritesAreObjects DEF CreateDst, CreateFile, CopyDone, PutObject, CopyFails, FailPut
  <2>3. stored'[s][k] = IF s = q /\ k = key(r) THEN c ELSE stored[s][k]
    BY <2>2 DEF SetObject, TypeOK, StoredType
  <2>4. saver[r][q] \in {"create", "copy"}
    BY <2>1 DEF CreateDst, CopyDone, CopyFails
  <2> QED BY <2>1, <2>2, <2>3, <2>4
<1>2. CASE Crash
  BY <1>2 DEF Crash, LoseMemory
<1>3. CASE ~Crash /\ ~\E r \in Requests, q \in Stores :
                        CreateDst(r, q) \/ CopyDone(r, q) \/ CopyFails(r, q)
  <2>1. UNCHANGED stored
    BY <1>3 DEF Next, vars, DrawId, Generate, Arrive, Processed, GetHash, NextThumb,
       MetadataFails, Fetch, FetchFails, Rendered, Served, ProcessFails, Finish, Quiet,
       SaveStep, OpenSrc, OpenFails, TakeOk, TakeFailure
  <2> QED BY <2>1
<1> QED BY <1>1, <1>2, <1>3

LEMMA HeldStays ==
  ASSUME TypeOK, [Next]_vars, NEW s \in Stores, NEW k \in Keys, Holds(s, k),
         ~Crash \/ s \in Persistent
  PROVE  Holds(s, k)'
BY WhatIsStored DEF Holds

(* No step of any request, goroutine or restart makes an object of a store *)
(* that outlives the process vanish: a local file may be truncated, but    *)
(* stays.                                                                  *)
THEOREM ObjectsStay ==
  Spec => [][\A s \in Persistent, k \in Keys : Holds(s, k) => Holds(s, k)']_vars
<1> DEFINE Stay == \A s \in Persistent, k \in Keys : Holds(s, k) => Holds(s, k)'
<1>1. TypeOK /\ [Next]_vars => [Stay]_vars
  BY HeldStays DEF Persistent, Stores
<1> QED BY TypeCorrect, <1>1, PTL DEF Spec

-----------------------------------------------------------------------------
(* Ids are not given out again, also when the same id may be drawn while   *)
(* copies are under way.                                                   *)

HeldByAll(id) == \A s \in Persistent : Holds(s, <<id, Original>>)

(* An id every store that outlives the process holds, which the generator  *)
(* is not about to offer: if it asks for it, it will hear so.              *)
Settled(id) ==
  /\ HeldByAll(id)
  /\ gen = "check" /\ cand = id =>
       /\ \A s \in Persistent : probe[s] \in {"asked", "true"}
       /\ \A s \in MemoryStores : probe[s] # "err"
  /\ ~(gen = "offer" /\ cand = id)

(* A check of a settled id is never answered by absence.                   *)
LEMMA GenerateSettled ==
  ASSUME TypeOK, FaultyExists = {}, Persistent # {}, NEW id \in Ids, Settled(id), Generate
  PROVE  Settled(id)'
<1>0. stored' = stored /\ probe \in [Stores -> ProbeStates]
  BY DEF Generate, TypeOK, GenType
<1>1. HeldByAll(id)'
  BY <1>0 DEF Settled, HeldByAll, Holds
<1>2. PICK s \in Stores : Probe(s) \/ TakeTrue(s) \/ TakeErr(s) \/ TakeFalse(s)
  BY DEF Generate, CheckStep
<1>3. gen = "check"
  BY <1>2 DEF Probe, TakeTrue, TakeErr, TakeFalse
<1>4. s \in Persistent \/ s \in MemoryStores
  BY DEF Stores, Persistent
<1>5. CASE cand # id
  BY <1>1, <1>2, <1>5 DEF Settled, Probe, TakeTrue, TakeErr, TakeFalse, EndCheck
<1>6. CASE cand = id
  <2>1. /\ \A q \in Persistent : probe[q] \in {"asked", "true"}
        /\ \A q \in MemoryStores : probe[q] # "err"
    BY <1>3, <1>6 DEF Settled
  <2>2. CASE Probe(s)
    <3>1. PICK a \in ExistsAnswers(s, <<id, Original>>) : probe' = [probe EXCEPT ![s] = a]
      BY <1>6, <2>2 DEF Probe
    <3>2. gen' = "check"
      BY <1>3, <2>2 DEF Probe
    <3>3. s \in Persistent => a = "true"
      BY <3>1 DEF ExistsAnswers, Settled, HeldByAll
    <3>4. s \in MemoryStores => a # "err"
      <4>1. s \in MemoryStores => s \notin LocalStores
        BY StoreAssumption DEF Persistent
      <4> QED BY <3>1, <4>1 DEF ExistsAnswers
    <3>5. \A q \in Stores : probe'[q] = IF q = s THEN a ELSE probe[q]
      BY <1>0, <3>1
    <3> QED BY <1>1, <2>1, <3>2, <3>3, <3>4, <3>5 DEF Settled, Stores, Persistent
  <2>3. CASE TakeTrue(s)
    BY <1>1, <2>3 DEF TakeTrue, EndCheck, Settled
  <2>4. CASE TakeErr(s)
    BY <1>4, <2>1, <2>4 DEF TakeErr
  <2>5. CASE TakeFalse(s)
    <3>1. PICK q \in Persistent : probe[q] \in {"asked", "true"}
      BY <2>1
    <3>2. q # s /\ q \in Stores
      BY <2>5, <3>1 DEF TakeFalse, Stores, Persistent
    <3>3. UNCHANGED <<gen, cand>> /\ probe' = [probe EXCEPT ![s] = "taken"]
      BY <2>5, <3>1, <3>2 DEF TakeFalse
    <3>4. s \notin Persistent
      BY <2>1, <2>5 DEF TakeFalse
    <3>5. \A r \in Stores : probe'[r] = IF r = s THEN "taken" ELSE probe[r]
      BY <1>0, <3>3
    <3> QED BY <1>1, <1>3, <2>1, <3>3, <3>4, <3>5 DEF Settled, Stores, Persistent
  <2> QED BY <1>2, <2>2, <2>3, <2>4, <2>5
<1> QED BY <1>5, <1>6

(* A settled id stays so.                                                  *)
LEMMA StepSettled ==
  ASSUME TypeOK, FaultyExists = {}, Persistent # {}, NEW id \in Ids, Settled(id), [Next]_vars
  PROVE  Settled(id)'
<1>1. HeldByAll(id)'
  <2>1. <<id, Original>> \in Keys
    BY DEF Keys, Parts
  <2>2. \A s \in Persistent : s \in Stores
    BY DEF Persistent, Stores
  <2> QED BY <2>1, <2>2, HeldStays DEF Settled, HeldByAll
<1>2. CASE Generate
  BY <1>2, GenerateSettled
<1>3. CASE \E i \in Ids : DrawId(i)
  <2>1. gen' = "check" /\ probe' = [s \in Stores |-> "asked"]
    BY <1>3 DEF DrawId, Draw
  <2> QED BY <1>1, <2>1 DEF Settled, Stores, Persistent
<1>4. CASE Crash \/ \E u \in Uploads, i \in Ids : GetHash(u, i)
  <2>1. gen' = "draw"
    BY <1>4 DEF Crash, RestartGenerator, GetHash, Offer
  <2> QED BY <1>1, <2>1 DEF Settled
<1>5. CASE UNCHANGED genVars
  BY <1>1, <1>5 DEF genVars, Settled
<1> QED
  BY <1>2, <1>3, <1>4, <1>5 DEF Next, vars, Arrive, Processed, NextThumb, MetadataFails,
     Fetch, FetchFails, Rendered, Served, ProcessFails, Finish, Quiet, SaveStep, OpenSrc,
     CreateDst, OpenFails, CopyDone, CopyFails, TakeOk, TakeFailure, saveRest

(* Once every store that outlives the process has an original under an id  *)
(* that the generator is not just checking or offering, the id is never    *)
(* given out again: however many uploads are under way, whatever ids are   *)
(* drawn (RepeatDraws or not) and however often the server is restarted.   *)
(* What it leaves to chance is the id the generator is just at, whose      *)
(* check began before the last copy was complete.                          *)
THEOREM SettledIdsAreNotGiven ==
  ASSUME FaultyExists = {}, Persistent # {}, NEW id \in Ids
  PROVE  Spec => [](HeldByAll(id) /\ ~(gen \in {"check", "offer"} /\ cand = id)
                      => [][\A u \in Uploads : ~GetHash(u, id)]_vars)
<1> DEFINE Quietly == HeldByAll(id) /\ ~(gen \in {"check", "offer"} /\ cand = id)
           NotGiven == \A u \in Uploads : ~GetHash(u, id)
<1>1. Quietly => Settled(id)
  BY DEF Settled
<1>2. TypeOK /\ Settled(id) /\ [Next]_vars => Settled(id)'
  BY StepSettled
<1>3. Settled(id) /\ [Next]_vars => [NotGiven]_vars
  BY DEF Settled, GetHash, Offer
<1> HIDE DEF Quietly
<1>4. Spec => [](Quietly => [][NotGiven]_vars)
  BY TypeCorrect, <1>1, <1>2, <1>3, PTL DEF Spec
<1> QED BY <1>4 DEF Quietly

-----------------------------------------------------------------------------
(* Thumbnails have originals.                                              *)

Based(id) == \E s \in Stores : Holds(s, <<id, Original>>)

(* Does request r save, or hold the original of a thumbnail it renders?    *)
AtWork(r) ==
  st[r] = "saving" \/ Active(r) \/ (st[r] = "processing" /\ part[r] \in Thumbs)

(* What is known of a request that may still write a thumbnail, through    *)
(* its handler or a goroutine that outlives it: the original of its id is  *)
(* in some store.                                                          *)
BasedRequest(r) ==
  /\ AtWork(r) => hash[r] \in Ids /\ (part[r] \in Thumbs => Based(hash[r]))
  /\ st[r] = "saving" /\ part[r] = Original =>
       \A s \in Stores :
         saver[r][s] \in {"sentOk", "taken"} => Holds(s, <<hash[r], Original>>)
  /\ st[r] = "idle" => part[r] = Original
  /\ r \in Renders /\ st[r] \in {"processing", "saving"} => part[r] \in Thumbs

BasedThumbs ==
  \A id \in Ids, t \in Thumbs : (\E s \in Stores : Holds(s, <<id, t>>)) => Based(id)

ThumbInv == BasedThumbs /\ \A r \in Requests : BasedRequest(r)

LEMMA InitThumbs ==
  ASSUME Init
  PROVE  ThumbInv
<1>1. PICK old \in SUBSET Ids :
        stored = [s \in Stores |-> [k \in Keys |->
                    IF s \in Persistent /\ k[1] \in old /\ k[2] = Original
                      THEN {Old} ELSE Absent]]
  BY DEF Init, StoreInit
<1>2. \A id \in Ids, t \in Thumbs, s \in Stores : ~Holds(s, <<id, t>>)
  BY <1>1, StoreAssumption DEF Holds, Keys, Parts
<1>3. \A r \in Requests : ~AtWork(r) /\ st[r] = "idle" /\ part[r] = Original
  BY DEF Init, AtWork, Active, AllOff, Busy
<1> QED BY <1>2, <1>3 DEF ThumbInv, BasedThumbs, BasedRequest

(* The invariant is kept, as far as it is about request r.                 *)
LEMMA StepBased ==
  ASSUME Persistent = Stores, TypeOK, TypeOK', ThumbInv, [Next]_vars, NEW r \in Requests
  PROVE  BasedRequest(r)'
<1>a. \A s \in Stores, id \in Ids : Holds(s, <<id, Original>>) => Holds(s, <<id, Original>>)'
  BY HeldStays DEF Keys, Parts
<1>b. \A id \in Ids : Based(id) => Based(id)'
  BY <1>a DEF Based
<1>c. Original \notin Thumbs /\ Stores # {}
  BY StoreAssumption
<1>d. BasedRequest(r)
  BY DEF ThumbInv
<1>e. ASSUME hash'[r] = hash[r], part'[r] = part[r], AtWork(r)' => AtWork(r),
             st'[r] = "idle" => st[r] = "idle",
             r \in Renders /\ st'[r] \in {"processing", "saving"} =>
               st[r] \in {"processing", "saving"},
             st'[r] = "saving" /\ part[r] = Original =>
               /\ st[r] = "saving"
               /\ \A s \in Stores : saver'[r][s] \in {"sentOk", "taken"} =>
                    saver[r][s] \in {"sentOk", "taken"}
      PROVE  BasedRequest(r)'
  <2>1. AtWork(r)' /\ part'[r] \in Thumbs => Based(hash[r])'
    BY <1>b, <1>d, <1>e DEF BasedRequest
  <2>2. st[r] = "saving" => AtWork(r)
    BY DEF AtWork
  <2> QED BY <1>a, <1>d, <1>e, <2>1, <2>2 DEF BasedRequest
<1>1. CASE Same(r)
  BY <1>1, <1>e DEF Same, AtWork, Active
<1>2. CASE r \in Uploads /\ UploadStep(r)
  <2>1. ASSUME NEW T \in SUBSET Thumbs, Arrive(r, T) PROVE BasedRequest(r)'
    BY <1>2, <1>c, <1>d, <1>e, <2>1, RequestAssumption DEF Arrive, TypeOK, BasedRequest, AtWork, Active
  <2>2. CASE Processed(r)
    BY <2>2, <1>e DEF Processed, TypeOK, AtWork, Active
  <2>3. ASSUME NEW id \in Ids, GetHash(r, id) PROVE BasedRequest(r)'
    BY <1>2, <1>c, <2>3, RequestAssumption DEF GetHash, TypeOK, BasedRequest, AllOpen
  <2>4. ASSUME NEW t \in Thumbs, NextThumb(r, t) PROVE BasedRequest(r)'
    <3>1. /\ st'[r] = "saving" /\ hash'[r] = hash[r] /\ part'[r] = t
          /\ AllTaken(r) /\ UNCHANGED stored
      BY <2>4 DEF NextThumb, AllTaken, TypeOK
    <3>2. hash[r] \in Ids /\ Based(hash[r])
      BY <3>1, <1>c, <1>d DEF AllTaken, BasedRequest, AtWork, Based, TypeOK, Parts
    <3>3. Based(hash[r])'
      BY <3>1, <3>2 DEF Based, Holds
    <3> QED BY <3>1, <3>2, <3>3, <1>c DEF BasedRequest
  <2>5. CASE MetadataFails(r)
    BY <2>5, <1>e DEF MetadataFails, Refuse, TypeOK, AtWork, Active, AllOff, Busy
  <2> QED BY <1>2, <2>1, <2>2, <2>3, <2>4, <2>5 DEF UploadStep
<1>3. CASE r \in Renders /\ RenderStep(r)
  <2>1. ASSUME NEW id \in Ids, NEW t \in Thumbs, NEW s \in Stores, Fetch(r, id, t, s)
        PROVE  BasedRequest(r)'
    <3>1. /\ st'[r] = "processing" /\ hash'[r] = id /\ part'[r] = t
          /\ Holds(s, <<id, Original>>) /\ UNCHANGED stored
      BY <2>1 DEF Fetch, TypeOK
    <3>2. Based(hash[r])'
      BY <3>1 DEF Based, Holds
    <3> QED BY <3>1, <3>2 DEF BasedRequest
  <2>2. CASE FetchFails(r)
    BY <2>2, <1>e DEF FetchFails, Refuse, TypeOK, AtWork, Active
  <2>3. CASE Rendered(r)
    <3>1. /\ st[r] = "processing" /\ st'[r] = "saving" /\ saver'[r] = AllOpen
          /\ UNCHANGED <<hash, part, stored>>
      BY <2>3 DEF Rendered, TypeOK
    <3>2. part[r] \in Thumbs /\ part'[r] = part[r] /\ hash'[r] = hash[r] /\ AtWork(r)
      BY <3>1, <1>3, <1>d DEF BasedRequest, AtWork
    <3>3. hash[r] \in Ids /\ Based(hash[r])'
      BY <3>1, <3>2, <1>b, <1>d DEF BasedRequest
    <3> QED BY <3>1, <3>2, <3>3, <1>c DEF BasedRequest
  <2>4. CASE Served(r)
    BY <2>4, <1>e DEF Served, TypeOK, AtWork, Active
  <2> QED BY <1>3, <2>1, <2>2, <2>3, <2>4 DEF RenderStep
<1>4. CASE ProcessFails(r)
  BY <1>4, <1>e DEF ProcessFails, Refuse, TypeOK, AtWork, Active
<1>5. CASE Finish(r)
  BY <1>5, <1>e DEF Finish, TypeOK, AtWork, Active, AllOff, Busy
<1>6. ASSUME NEW s \in Stores, SaveStep(r, s) PROVE BasedRequest(r)'
  <2>1. UNCHANGED <<hash, part>> /\ st'[r] \in {st[r], "failed"}
    BY <1>6 DEF SaveStep, OpenSrc, CreateDst, OpenFails, CopyDone, CopyFails, TakeOk,
                TakeFailure, saveRest, Refuse, TypeOK
  <2>2. AtWork(r)' => AtWork(r)
    BY <1>6, <2>1 DEF SaveStep, OpenSrc, CreateDst, OpenFails, CopyDone, CopyFails, TakeOk,
                      TakeFailure, SetSaver, AtWork, Active, Busy, TypeOK
  <2>3. CASE CopyDone(r, s)
    <3>1. ASSUME st'[r] = "saving", part[r] = Original PROVE Holds(s, <<hash[r], Original>>)'
      <4>1. hash[r] \in Ids /\ key(r) = <<hash[r], Original>> /\ key(r) \in Keys
        BY <2>1, <3>1, <1>d DEF BasedRequest, AtWork, key, Keys, Parts
      <4>2. stored'[s][key(r)] = Written(s, key(r), r)
        BY <2>3, <4>1 DEF CopyDone, PutObject, SetObject, TypeOK, StoredType
      <4> QED BY <2>1, <4>1, <4>2, WritesAreObjects DEF Holds
    <3>2. \A q \in Stores \ {s} : saver'[r][q] = saver[r][q]
      BY <2>3 DEF CopyDone, SetSaver, TypeOK
    <3>3. AtWork(r)' /\ part[r] \in Thumbs => Based(hash[r])'
      BY <1>b, <1>d, <2>1, <2>2 DEF BasedRequest
    <3>4. st'[r] = "saving" => AtWork(r)
      BY <2>1 DEF AtWork
    <3> QED BY <1>a, <1>d, <2>1, <2>2, <3>1, <3>2, <3>3, <3>4 DEF BasedRequest
  <2>4. CASE ~CopyDone(r, s)
    <3>1. \A q \in Stores : saver'[r][q] \in {"sentOk", "taken"} =>
                             saver[r][q] \in {"sentOk", "taken"}
      BY <1>6, <2>4 DEF SaveStep, OpenSrc, CreateDst, OpenFails, CopyFails, TakeOk,
                        TakeFailure, SetSaver, TypeOK
    <3> QED BY <1>e, <2>1, <2>2, <3>1
  <2> QED BY <2>3, <2>4
<1>7. CASE Crash
  BY <1>7 DEF Crash, BasedRequest, AtWork, Active, AllOff, Busy, Answered, TypeOK
<1> QED BY <1>1, <1>2, <1>3, <1>4, <1>5, <1>6, <1>7, OwnStep

(* A thumbnail that is written has its original in some store.             *)
LEMMA StepThumbs ==
  ASSUME Persistent = Stores, TypeOK, ThumbInv, [Next]_vars
  PROVE  BasedThumbs'
<1> SUFFICES ASSUME NEW id \in Ids, NEW t \in Thumbs, NEW s \in Stores, Holds(s, <<id, t>>)'
             PROVE  Based(id)'
  BY DEF BasedThumbs
<1>1. Based(id) => Based(id)'
  BY HeldStays DEF Based, Keys, Parts
<1>2. CASE Holds(s, <<id, t>>)
  BY <1>1, <1>2 DEF ThumbInv, BasedThumbs
<1>3. CASE ~Holds(s, <<id, t>>)
  <2>1. PICK r \in Requests : <<id, t>> = key(r) /\ saver[r][s] \in {"create", "copy"}
    BY <1>3, WhatIsStored DEF Holds, Keys, Parts
  <2>2. hash[r] = id /\ part[r] = t /\ AtWork(r)
    BY <2>1 DEF key, AtWork, Active, Busy
  <2> QED BY <1>1, <2>2 DEF ThumbInv, BasedRequest
<1> QED BY <1>2, <1>3

(* Whatever fails half way, and however long a goroutine of a Save         *)
(* outlives its handler: when a thumbnail is in a store, an original of    *)
(* its id is in some store too.  (The stores all outlive the process.)     *)
THEOREM ThumbsHaveOriginals == Spec => []ThumbHasOriginal
<1>1. CASE Persistent = Stores
  <2>1. TypeOK /\ TypeOK' /\ ThumbInv /\ [Next]_vars => ThumbInv'
    BY <1>1, StepBased, StepThumbs DEF ThumbInv
  <2>2. ThumbInv => ThumbHasOriginal
    BY DEF ThumbInv, BasedThumbs, Based, ThumbHasOriginal
  <2> QED BY InitThumbs, <2>1, <2>2, TypeCorrect, PTL DEF Spec
<1>2. CASE Persistent # Stores
  <2>1. ThumbHasOriginal
    BY <1>2 DEF ThumbHasOriginal
  <2> QED BY <2>1, PTL
<1> QED BY <1>1, <1>2

-----------------------------------------------------------------------------
(* Answers 200.                                                            *)

(* What an upload that saves has in the stores, memory included, and in    *)
(* the response so far.                                                    *)
OriginalSaved(u) ==
  part[u] = Original =>
    \A s \in Stores : saver[u][s] \in {"sentOk", "taken"} =>
      stored[s][<<hash[u], Original>>] = {u}

ThumbsSaved(u) ==
  /\ links[u] \subseteq thumbs[u]
  /\ IF part[u] = Original THEN links[u] = {} ELSE part[u] \in thumbs[u]
  /\ part[u] # Original => \A s \in Stores : stored[s][<<hash[u], Original>>] = {u}
  /\ \A s \in Stores, t \in links[u] : Holds(s, <<hash[u], t>>)
  /\ \A s \in Stores : saver[u][s] \in {"sentOk", "taken"} => Holds(s, key(u))

Response(u) ==
  /\ st[u] \in {"idle", "processing", "hashing"} => links[u] = {}
  /\ st[u] = "saving" => OriginalSaved(u) /\ ThumbsSaved(u)

ResponseInv == \A u \in Uploads : Response(u)

(* While an upload saves, nobody else writes its original.                 *)
LEMMA OnlyOwnWrites ==
  ASSUME IdsKept, [Next]_vars, NEW u \in Uploads, st[u] = "saving", NEW s \in Stores, ~Crash,
         stored'[s][<<hash[u], Original>>] # stored[s][<<hash[u], Original>>]
  PROVE  /\ part[u] = Original /\ saver[u][s] \in {"create", "copy"}
         /\ CreateDst(u, s) \/ CopyDone(u, s) \/ CopyFails(u, s)
<1>1. hash[u] \in Ids /\ SavesFor(u)
  BY DEF IdsKept, OneWriter, SavesFor
<1>2. PICK r \in Requests :
        /\ <<hash[u], Original>> = key(r) /\ saver[r][s] \in {"create", "copy"}
        /\ CreateDst(r, s) \/ CopyDone(r, s) \/ CopyFails(r, s)
  BY <1>1, WhatIsStored DEF Keys, Parts, IdsKept
<1>3. hash[r] = hash[u] /\ part[r] = Original /\ Active(r)
  BY <1>2 DEF key, Active, Busy
<1>4. r \in Uploads /\ SavesFor(r)
  BY <1>3, StoreAssumption, RequestAssumption DEF IdsKept, WritersKnown, SavesFor
<1>5. r = u
  BY <1>1, <1>3, <1>4 DEF IdsKept, OneWriter
<1> QED BY <1>2, <1>3, <1>5

(* The original: of persistent stores it is what IdsKept says, and a copy  *)
(* to memory replaces what a refused upload may have left under the id.    *)
LEMMA StepOriginalSaved ==
  ASSUME IdsKept, IdsKept', ResponseInv, [Next]_vars, NEW u \in Uploads, st'[u] = "saving"
  PROVE  /\ OriginalSaved(u)'
         /\ part'[u] # Original => \A s \in Stores : stored'[s][<<hash'[u], Original>>] = {u}
<1> DEFINE Goal(s) ==
      part'[u] # Original \/ saver'[u][s] \in {"sentOk", "taken"} =>
        stored'[s][<<hash'[u], Original>>] = {u}
<1> SUFFICES ASSUME NEW s \in Stores PROVE Goal(s)
  BY DEF OriginalSaved
<1>a. ~Crash /\ u \in Requests
  BY RequestAssumption DEF Crash, Answered, IdsKept, TypeOK
<1>1. CASE s \in Persistent
  BY <1>1 DEF IdsKept, Progress
<1>2. CASE s \in MemoryStores
  <2> DEFINE Same0 == /\ st[u] = "saving" /\ hash'[u] = hash[u] /\ part'[u] = part[u]
                      /\ saver'[u][s] \in {"sentOk", "taken"} =>
                           saver[u][s] \in {"sentOk", "taken"}
  <2>1. ASSUME Same0, ~CopyDone(u, s) PROVE Goal(s)
    <3>1. CASE stored'[s][<<hash[u], Original>>] = stored[s][<<hash[u], Original>>]
      BY <2>1, <3>1 DEF ResponseInv, Response, OriginalSaved, ThumbsSaved
    <3>2. CASE stored'[s][<<hash[u], Original>>] # stored[s][<<hash[u], Original>>]
      BY <1>a, <2>1, <3>2, OnlyOwnWrites
    <3> QED BY <3>1, <3>2
  <2>2. CASE Same(u)
    <3>1. ~CopyDone(u, s)
      BY <1>a, <2>2 DEF Same, CopyDone, SetSaver, IdsKept, TypeOK
    <3> QED BY <2>1, <2>2, <3>1 DEF Same
  <2>3. CASE UploadStep(u)
    <3>1. ASSUME NEW t \in Thumbs, NextThumb(u, t) PROVE Goal(s)
      <4>1. AllTaken(u) /\ UNCHANGED <<stored, hash>>
        BY <3>1 DEF NextThumb
      <4> QED BY <4>1 DEF AllTaken, ResponseInv, Response, OriginalSaved, ThumbsSaved
    <3>2. ASSUME NEW id \in Ids, GetHash(u, id) PROVE Goal(s)
      BY <1>a, <3>2 DEF GetHash, AllOpen, IdsKept, TypeOK
    <3>3. ASSUME NEW T \in SUBSET Thumbs, Arrive(u, T) \/ Processed(u) \/ MetadataFails(u)
          PROVE  FALSE
      BY <1>a, <3>3 DEF Arrive, Processed, MetadataFails, Refuse, IdsKept, TypeOK
    <3> QED BY <2>3, <3>1, <3>2, <3>3 DEF UploadStep
  <2>4. CASE ProcessFails(u) \/ Finish(u)
    BY <1>a, <2>4 DEF ProcessFails, Finish, Refuse, IdsKept, TypeOK
  <2>5. ASSUME NEW q \in Stores, SaveStep(u, q) PROVE Goal(s)
    <3>1. UNCHANGED <<hash, part>> /\ st[u] = "saving"
      BY <1>a, <2>5 DEF SaveStep, OpenSrc, CreateDst, OpenFails, CopyDone, CopyFails, TakeOk,
                        TakeFailure, saveRest, Refuse, IdsKept, TypeOK
    <3>2. CASE CopyDone(u, s)
      <4>1. CASE part[u] = Original
        <5>1. key(u) = <<hash[u], Original>> /\ key(u) \in Keys
          BY <3>1, <4>1 DEF key, Keys, Parts, IdsKept, OneWriter, SavesFor
        <5>2. stored'[s][key(u)] = Written(s, key(u), u)
          BY <3>2, <5>1 DEF CopyDone, PutObject, SetObject, IdsKept, TypeOK, StoredType
        <5>3. s \notin LocalStores
          BY <1>2, StoreAssumption DEF Persistent
        <5> QED BY <3>1, <5>1, <5>2, <5>3 DEF Written
      <4>2. CASE part[u] # Original
        <5>1. stored'[s][<<hash[u], Original>>] = stored[s][<<hash[u], Original>>]
          BY <1>a, <3>1, <4>2, OnlyOwnWrites
        <5> QED BY <3>1, <4>2, <5>1 DEF ResponseInv, Response, ThumbsSaved
      <4> QED BY <4>1, <4>2
    <3>3. CASE ~CopyDone(u, s)
      <4>1. saver'[u][s] \in {"sentOk", "taken"} => saver[u][s] \in {"sentOk", "taken"}
        BY <1>a, <2>5, <3>3 DEF SaveStep, OpenSrc, CreateDst, OpenFails, CopyDone, CopyFails,
             TakeOk, TakeFailure, SetSaver, Refuse, IdsKept, TypeOK
      <4> QED BY <2>1, <3>1, <3>3, <4>1
    <3> QED BY <3>2, <3>3
  <2>6. u \notin Renders
    BY RequestAssumption
  <2> QED BY <1>a, <2>2, <2>3, <2>4, <2>5, <2>6, OwnStep DEF IdsKept
<1> QED BY <1>1, <1>2 DEF Stores, Persistent

(* The thumbnails: each one linked is in every store, and stays.           *)
LEMMA StepThumbsSaved ==
  ASSUME IdsKept, IdsKept', ResponseInv, [Next]_vars, NEW u \in Uploads, st'[u] = "saving"
  PROVE  ThumbsSaved(u)'
<1>a. ~Crash /\ u \in Requests /\ u \notin Renders
  BY RequestAssumption DEF Crash, Answered, IdsKept, TypeOK
<1>b. part'[u] # Original => \A s \in Stores : stored'[s][<<hash'[u], Original>>] = {u}
  BY StepOriginalSaved
<1>c. TypeOK /\ Response(u)
  BY DEF IdsKept, ResponseInv
<1>d. \A s \in Stores, k \in Keys : Holds(s, k) => Holds(s, k)'
  BY <1>a, <1>c, HeldStays
<1>e. st[u] = "saving" => hash[u] \in Ids /\ key(u) \in Keys
  BY <1>a, <1>c DEF IdsKept, OneWriter, SavesFor, key, Keys, TypeOK
<1>f. \A t \in links[u] : t \in Parts
  BY <1>a, <1>c DEF TypeOK, Parts
<1>1. ASSUME st[u] = "saving", hash'[u] = hash[u], part'[u] = part[u], links'[u] = links[u],
             thumbs'[u] = thumbs[u],
             \A s \in Stores : saver'[u][s] \in {"sentOk", "taken"} =>
               saver[u][s] \in {"sentOk", "taken"} \/ Holds(s, key(u))'
      PROVE  ThumbsSaved(u)'
  <2>1. \A s \in Stores, t \in links[u] : Holds(s, <<hash[u], t>>)'
    BY <1>1, <1>c, <1>d, <1>e, <1>f DEF Response, ThumbsSaved, Keys
  <2>2. \A s \in Stores : saver'[u][s] \in {"sentOk", "taken"} => Holds(s, key(u))'
    BY <1>1, <1>c, <1>d, <1>e DEF Response, ThumbsSaved, key
  <2> QED BY <1>1, <1>b, <1>c, <2>1, <2>2 DEF Response, ThumbsSaved
<1>2. CASE Same(u)
  BY <1>1, <1>2 DEF Same
<1>3. CASE UploadStep(u)
  <2>1. ASSUME NEW t \in Thumbs, NextThumb(u, t) PROVE ThumbsSaved(u)'
    <3>1. /\ AllTaken(u) /\ UNCHANGED <<stored, hash, thumbs>> /\ part'[u] = t
          /\ t \in thumbs[u] /\ links'[u] = linked(u) /\ saver'[u] = AllOpen
      BY <1>a, <1>c, <2>1 DEF NextThumb, TypeOK
    <3>2. linked(u) \subseteq thumbs[u]
      BY <1>c, <3>1 DEF linked, AllTaken, Response, ThumbsSaved
    <3>3. \A s \in Stores, q \in linked(u) : Holds(s, <<hash[u], q>>)
      BY <1>c, <3>1 DEF linked, AllTaken, Response, ThumbsSaved, key
    <3>4. t # Original
      BY StoreAssumption
    <3> QED BY <1>b, <3>1, <3>2, <3>3, <3>4 DEF ThumbsSaved, AllOpen, Holds
  <2>2. ASSUME NEW id \in Ids, GetHash(u, id) PROVE ThumbsSaved(u)'
    <3>1. links'[u] = {} /\ part'[u] = Original /\ saver'[u] = AllOpen
      BY <1>a, <1>c, <2>2 DEF GetHash, TypeOK, Response
    <3> QED BY <3>1 DEF ThumbsSaved, AllOpen
  <2>3. ASSUME NEW T \in SUBSET Thumbs, Arrive(u, T) \/ Processed(u) \/ MetadataFails(u)
        PROVE  FALSE
    BY <1>a, <1>c, <2>3 DEF Arrive, Processed, MetadataFails, Refuse, TypeOK
  <2> QED BY <1>3, <2>1, <2>2, <2>3 DEF UploadStep
<1>4. CASE ProcessFails(u) \/ Finish(u)
  BY <1>a, <1>c, <1>4 DEF ProcessFails, Finish, Refuse, TypeOK
<1>5. ASSUME NEW s \in Stores, SaveStep(u, s) PROVE ThumbsSaved(u)'
  <2>1. st[u] = "saving" /\ UNCHANGED <<hash, part, thumbs, links>>
    BY <1>a, <1>c, <1>5 DEF SaveStep, OpenSrc, CreateDst, OpenFails, CopyDone, CopyFails, TakeOk,
                            TakeFailure, saveRest, Refuse, TypeOK
  <2>2. CASE CopyDone(u, s)
    <3>1. stored'[s][key(u)] = Written(s, key(u), u)
      BY <1>c, <1>e, <2>1, <2>2 DEF CopyDone, PutObject, SetObject, TypeOK, StoredType
    <3>2. Holds(s, key(u))'
      BY <1>a, <2>1, <3>1, WritesAreObjects DEF Holds, key
    <3>3. \A q \in Stores \ {s} : saver'[u][q] = saver[u][q]
      BY <1>a, <1>c, <2>2 DEF CopyDone, SetSaver, TypeOK
    <3> QED BY <1>1, <2>1, <3>2, <3>3
  <2>3. CASE ~CopyDone(u, s)
    <3>1. \A q \in Stores : saver'[u][q] \in {"sentOk", "taken"} =>
                             saver[u][q] \in {"sentOk", "taken"}
      BY <1>a, <1>c, <1>5, <2>3 DEF SaveStep, OpenSrc, CreateDst, OpenFails, CopyFails, TakeOk,
                        TakeFailure, SetSaver, TypeOK
    <3> QED BY <1>1, <2>1, <3>1
  <2> QED BY <2>2, <2>3
<1> QED BY <1>a, <1>c, <1>2, <1>3, <1>4, <1>5, OwnStep

(* Before an upload saves, its response is empty.                          *)
LEMMA StepEmpty ==
  ASSUME TypeOK, TypeOK', [Next]_vars, NEW u \in Uploads, Response(u),
         st'[u] \in {"idle", "processing", "hashing"}
  PROVE  links'[u] = {}
<1>a. u \in Requests /\ u \notin Renders
  BY RequestAssumption
<1> USE DEF Response, TypeOK
<1>1. CASE Same(u)
  BY <1>1 DEF Same
<1>2. CASE UploadStep(u)
  BY <1>a, <1>2 DEF UploadStep, Arrive, Processed, GetHash, NextThumb, AllTaken, MetadataFails,
                    AllSaved, Refuse
<1>3. CASE ProcessFails(u) \/ Finish(u)
  BY <1>a, <1>3 DEF ProcessFails, Finish, Refuse
<1>4. ASSUME NEW s \in Stores, SaveStep(u, s) PROVE links'[u] = {}
  BY <1>a, <1>4 DEF SaveStep, OpenSrc, CreateDst, OpenFails, CopyDone, CopyFails, TakeOk,
                    TakeFailure, saveRest, Refuse
<1>5. CASE Crash
  BY <1>a, <1>5 DEF Crash
<1> QED BY <1>a, <1>1, <1>2, <1>3, <1>4, <1>5, OwnStep

(* The moment of the answer.                                               *)
LEMMA AnswerComplete ==
  ASSUME IdsKept, ResponseInv, [Next]_vars, NEW u \in Uploads, st[u] # "ok", st'[u] = "ok"
  PROVE  /\ links'[u] = thumbs[u]
         /\ \A s \in Stores :
              /\ stored'[s][<<hash[u], Original>>] = {u}
              /\ \A t \in thumbs[u] : stored'[s][<<hash[u], t>>] # Absent
<1>1. Finish(u)
  BY AnswersStay
<1>2. /\ AllTaken(u) /\ thumbs[u] \subseteq linked(u) /\ links'[u] = linked(u)
      /\ UNCHANGED stored
  BY <1>1, RequestAssumption DEF Finish, AllSaved, IdsKept, TypeOK
<1>3. OriginalSaved(u) /\ ThumbsSaved(u)
  BY <1>2 DEF AllTaken, ResponseInv, Response
<1>4. linked(u) = thumbs[u]
  BY <1>2, <1>3 DEF linked, ThumbsSaved
<1>5. \A s \in Stores : stored[s][<<hash[u], Original>>] = {u}
  BY <1>2, <1>3 DEF AllTaken, OriginalSaved, ThumbsSaved
<1>6. \A s \in Stores, t \in linked(u) : Holds(s, <<hash[u], t>>)
  BY <1>2, <1>3 DEF AllTaken, ThumbsSaved, linked, key
<1> QED BY <1>2, <1>4, <1>5, <1>6 DEF Holds

(* An upload that answers 200 has its original and every thumbnail it      *)
(* asked for in every store, the memory included, and lists just these: no *)
(* result is missed, no error swallowed, and nobody wrote between.         *)
THEOREM ResponsesAreComplete == ASSUME Reliable PROVE Spec => ResponseComplete
<1> DEFINE Complete ==
      \A u \in Uploads : st[u] # "ok" /\ st'[u] = "ok" =>
        /\ links'[u] = thumbs[u]
        /\ \A s \in Stores :
             /\ stored'[s][<<hash[u], Original>>] = {u}
             /\ \A t \in thumbs[u] : stored'[s][<<hash[u], t>>] # Absent
<1>1. Init => ResponseInv
  BY RequestAssumption DEF Init, ResponseInv, Response
<1>2. IdsKept /\ IdsKept' /\ ResponseInv /\ [Next]_vars => ResponseInv'
  BY StepOriginalSaved, StepThumbsSaved, StepEmpty DEF ResponseInv, Response, IdsKept
<1>3. IdsKept /\ ResponseInv /\ [Next]_vars => [Complete]_vars
  BY AnswerComplete
<1> QED BY IdsKeptAlways, <1>1, <1>2, <1>3, PTL DEF Spec, ResponseComplete

-----------------------------------------------------------------------------
(* Ids that are given out.                                                 *)

(* The generator knows of a store that has no original under the id it     *)
(* offers: one that said so, or that reported an error.                    *)
DrawnMissing ==
  /\ \A s \in Stores : gen = "check" /\ probe[s] \in {"false", "err", "taken"} =>
       ~Holds(s, <<cand, Original>>)
  /\ gen = "offer" => \E s \in Stores : ~Holds(s, <<cand, Original>>)

(* An original is written by an upload that saves under its id.            *)
LEMMA OriginalWriter ==
  ASSUME IdsKept, [Next]_vars, NEW s \in Stores, ~Crash, NEW id \in Ids,
         stored'[s][<<id, Original>>] # stored[s][<<id, Original>>]
  PROVE  \E r \in Uploads :
           /\ hash[r] = id /\ part[r] = Original /\ SavesFor(r)
           /\ CreateDst(r, s) \/ CopyDone(r, s) \/ CopyFails(r, s)
<1>1. PICK r \in Requests :
        /\ <<id, Original>> = key(r) /\ saver[r][s] \in {"create", "copy"}
        /\ CreateDst(r, s) \/ CopyDone(r, s) \/ CopyFails(r, s)
  BY WhatIsStored DEF Keys, Parts, IdsKept
<1>2. hash[r] = id /\ part[r] = Original /\ Active(r)
  BY <1>1 DEF key, Active, Busy
<1>3. r \in Uploads
  BY <1>2, StoreAssumption, RequestAssumption DEF IdsKept, WritersKnown
<1> QED BY <1>1, <1>2, <1>3 DEF SavesFor

(* Nobody writes under the id the generator is busy with, and the answers  *)
(* of a store whose Exists does not fail are right.                        *)
LEMMA StepDrawn ==
  ASSUME Reliable, IdsKept, DrawnMissing, [Next]_vars
  PROVE  DrawnMissing'
<1>a. TypeOK
  BY DEF IdsKept
<1>1. CASE UNCHANGED genVars
  <2> SUFFICES ASSUME NEW s \in Stores, gen \in {"check", "offer"}
               PROVE  stored'[s][<<cand, Original>>] = stored[s][<<cand, Original>>]
    BY <1>1 DEF DrawnMissing, genVars, Holds
  <2>1. cand \in Ids /\ ~InFlight(cand)
    BY DEF IdsKept, CheckWorks
  <2>2. ~Crash
    BY <1>1 DEF Crash, RestartGenerator, genVars
  <2> QED BY <2>1, <2>2, OriginalWriter DEF InFlight
<1>2. CASE gen' = "draw"
  BY <1>2 DEF DrawnMissing
<1>3. ASSUME NEW id \in Ids, DrawId(id) PROVE DrawnMissing'
  BY <1>3 DEF DrawId, Draw, DrawnMissing
<1>4. CASE Generate
  <2>1. PICK s \in Stores : Probe(s) \/ TakeTrue(s) \/ TakeErr(s) \/ TakeFalse(s)
    BY <1>4 DEF Generate, CheckStep
  <2>2. UNCHANGED stored
    BY <1>4 DEF Generate
  <2>3. CASE Probe(s)
    <3>1. PICK a \in ExistsAnswers(s, <<cand, Original>>) :
            probe' = [probe EXCEPT ![s] = a] /\ UNCHANGED <<gen, cand>>
      BY <2>3 DEF Probe
    <3>2. a \in {"false", "err", "taken"} => ~Holds(s, <<cand, Original>>)
      BY <3>1 DEF ExistsAnswers, Reliable
    <3> QED BY <1>a, <2>2, <2>3, <3>1, <3>2 DEF Probe, DrawnMissing, Holds, TypeOK, GenType
  <2>4. CASE TakeTrue(s)
    BY <2>4, <1>2 DEF TakeTrue, EndCheck
  <2>5. CASE TakeErr(s)
    BY <2>2, <2>5 DEF TakeErr, EndCheck, DrawnMissing, Holds
  <2>6. CASE TakeFalse(s)
    BY <1>a, <2>2, <2>6 DEF TakeFalse, EndCheck, DrawnMissing, Holds, TypeOK, GenType
  <2> QED BY <2>1, <2>3, <2>4, <2>5, <2>6
<1>5. CASE ~Generate /\ ~\E id \in Ids : DrawId(id)
  <2>1. UNCHANGED genVars \/ gen' = "draw"
    BY <1>5 DEF Next, vars, Arrive, Processed, GetHash, Offer, NextThumb, MetadataFails,
       Fetch, FetchFails, Rendered, Served, ProcessFails, Finish, Quiet, SaveStep, OpenSrc,
       CreateDst, OpenFails, CopyDone, CopyFails, TakeOk, TakeFailure, saveRest, Crash,
       RestartGenerator
  <2> QED BY <2>1, <1>1, <1>2
<1> QED BY <1>3, <1>4, <1>5

LEMMA DrawnAlways == ASSUME Reliable PROVE Spec => []DrawnMissing
<1>1. Init => DrawnMissing
  BY DEF Init, GenInit, DrawnMissing
<1>2. IdsKept /\ DrawnMissing /\ [Next]_vars => DrawnMissing'
  BY StepDrawn
<1> QED BY <1>1, <1>2, IdsKeptAlways, PTL DEF Spec

(* An upload begins to save when it receives the id that is offered.       *)
LEMMA ReceivesOffer ==
  ASSUME TypeOK, [Next]_vars, NEW u \in Uploads, st[u] = "hashing", st'[u] = "saving"
  PROVE  gen = "offer" /\ hash'[u] = cand
<1>a. u \in Requests /\ u \notin Renders
  BY RequestAssumption
<1> USE DEF TypeOK
<1>1. CASE \E id \in Ids : GetHash(u, id)
  BY <1>a, <1>1 DEF GetHash, Offer
<1>2. CASE Same(u)
  BY <1>2 DEF Same
<1>3. CASE UploadStep(u) /\ ~\E id \in Ids : GetHash(u, id)
  BY <1>a, <1>3 DEF UploadStep, Arrive, Processed, NextThumb, AllTaken, MetadataFails, Refuse
<1>4. CASE ProcessFails(u) \/ Finish(u)
  BY <1>a, <1>4 DEF ProcessFails, Finish, Refuse
<1>5. ASSUME NEW s \in Stores, SaveStep(u, s) PROVE FALSE
  BY <1>a, <1>5 DEF SaveStep, OpenSrc, CreateDst, OpenFails, CopyDone, CopyFails, TakeOk,
                    TakeFailure, saveRest, Refuse
<1>6. CASE Crash
  BY <1>a, <1>6 DEF Crash, Answered
<1> QED BY <1>a, <1>1, <1>2, <1>3, <1>4, <1>5, <1>6, OwnStep

(* What is left of the promise of hash.go, that an id does "not exist in   *)
(* the store", with several stores: the id an upload receives is missing   *)
(* in one store at least (the others may hold what a failed upload left).  *)
THEOREM ReceivedIdsAreMissing ==
  ASSUME Reliable
  PROVE  Spec => [][\A u \in Uploads : st[u] = "hashing" /\ st'[u] = "saving" =>
                      \E s \in Stores : ~Holds(s, <<hash'[u], Original>>)]_vars
<1> DEFINE Missing ==
      \A u \in Uploads : st[u] = "hashing" /\ st'[u] = "saving" =>
        \E s \in Stores : ~Holds(s, <<hash'[u], Original>>)
<1>1. TypeOK /\ DrawnMissing /\ [Next]_vars => [Missing]_vars
  BY ReceivesOffer DEF DrawnMissing
<1> QED BY TypeCorrect, DrawnAlways, <1>1, PTL DEF Spec

-----------------------------------------------------------------------------
(* A single store.                                                         *)

Single == \A s, q \in Stores : s = q

(* With a single store the promise holds: the store has no original under  *)
(* the id an upload receives, not even of an upload that failed.           *)
THEOREM SingleStoreIdsAreUnused == ASSUME Reliable, Single PROVE Spec => ReceivedIdIsUnused
<1> DEFINE Unused ==
      \A u \in Uploads : st[u] = "hashing" /\ st'[u] = "saving" =>
        \A s \in Stores : ~Holds(s, <<hash'[u], Original>>)
<1>1. TypeOK /\ DrawnMissing /\ [Next]_vars => [Unused]_vars
  BY ReceivesOffer DEF DrawnMissing, Single
<1> QED BY TypeCorrect, DrawnAlways, <1>1, PTL DEF Spec, ReceivedIdIsUnused

LEMMA SinglePersists ==
  ASSUME Single, Reliable
  PROVE  Stores = Persistent
BY DEF Single, Reliable, Stores, Persistent

(* Nor has it thumbnails: nothing that an upload or a render left under an *)
(* id is ever taken for a part of the image that is published there next.  *)
THEOREM FreshIdsAreEmpty ==
  ASSUME Reliable, Single
  PROVE  Spec => [][\A u \in Uploads : st[u] = "hashing" /\ st'[u] = "saving" =>
                      \A s \in Stores, p \in Parts : ~Holds(s, <<hash'[u], p>>)]_vars
<1> DEFINE Fresh ==
      \A u \in Uploads : st[u] = "hashing" /\ st'[u] = "saving" =>
        \A s \in Stores, p \in Parts : ~Holds(s, <<hash'[u], p>>)
<1>1. ASSUME IdsKept, DrawnMissing, ThumbHasOriginal, [Next]_vars,
             NEW u \in Uploads, st[u] = "hashing", st'[u] = "saving",
             NEW s \in Stores, NEW p \in Parts
      PROVE  ~Holds(s, <<hash'[u], p>>)
  <2>1. gen = "offer" /\ hash'[u] = cand /\ cand \in Ids
    BY <1>1, ReceivesOffer DEF IdsKept, CheckWorks
  <2>2. \A q \in Stores : ~Holds(q, <<cand, Original>>)
    BY <1>1, <2>1 DEF DrawnMissing, Single
  <2> QED BY <1>1, <2>1, <2>2, SinglePersists DEF ThumbHasOriginal, Parts
<1>2. IdsKept /\ DrawnMissing /\ ThumbHasOriginal /\ [Next]_vars => [Fresh]_vars
  BY <1>1
<1> QED BY IdsKeptAlways, DrawnAlways, ThumbsHaveOriginals, <1>2, PTL DEF Spec

(* May upload u still be answered 200, or was it?                          *)
MaySucceed(u) ==
  \/ st[u] = "ok"
  \/ st[u] = "saving" /\ \A s \in Stores : saver[u][s] # "sentErr"

(* What is under the id of such an upload is its own, if only a part ...   *)
OwnBytes ==
  \A u \in Uploads, s \in Stores :
    MaySucceed(u) /\ Holds(s, <<hash[u], Original>>) =>
      stored[s][<<hash[u], Original>>] \subseteq {u}

(* ... and what a render has read there is too; the id of a render has an  *)
(* object, so that no later upload receives it.                            *)
OwnRead ==
  \A v \in Renders : st[v] \in {"processing", "saving"} =>
    /\ hash[v] \in Ids
    /\ \A s \in Stores : Holds(s, <<hash[v], Original>>)
    /\ \A u \in Uploads : MaySucceed(u) /\ hash[u] = hash[v] => source[v] \subseteq {u}

SingleInv == OwnBytes /\ OwnRead

(* An upload that may succeed could before, or received its id just now.   *)
LEMMA Hopeful ==
  ASSUME IdsKept, [Next]_vars, NEW u \in Uploads, MaySucceed(u)'
  PROVE  \/ MaySucceed(u) /\ hash'[u] = hash[u]
         \/ \E id \in Ids : GetHash(u, id)
<1>a. TypeOK /\ u \in Requests /\ u \notin Renders
  BY RequestAssumption DEF IdsKept
<1> USE DEF TypeOK, MaySucceed
<1>1. CASE Same(u)
  BY <1>1 DEF Same
<1>2. CASE UploadStep(u) /\ ~\E id \in Ids : GetHash(u, id)
  BY <1>a, <1>2 DEF UploadStep, Arrive, Processed, NextThumb, AllTaken, MetadataFails, Refuse
<1>3. CASE ProcessFails(u)
  BY <1>a, <1>3 DEF ProcessFails, Refuse
<1>4. CASE Finish(u)
  BY <1>a, <1>4 DEF Finish, AllSaved, AllTaken
<1>5. ASSUME NEW s \in Stores, SaveStep(u, s) PROVE MaySucceed(u) /\ hash'[u] = hash[u]
  <2>1. hash' = hash /\ st'[u] \in {st[u], "failed"}
    BY <1>a, <1>5 DEF SaveStep, OpenSrc, CreateDst, OpenFails, CopyDone, CopyFails, TakeOk,
                      TakeFailure, saveRest, Refuse
  <2>2. \A q \in Stores : saver[u][q] = "sentErr" => saver'[u][q] = "sentErr"
    BY <1>a, <1>5 DEF SaveStep, OpenSrc, CreateDst, OpenFails, CopyDone, CopyFails, TakeOk,
                      TakeFailure, SetSaver
  <2> QED BY <2>1, <2>2
<1>6. CASE Crash
  BY <1>a, <1>6 DEF Crash, Answered
<1> QED BY <1>a, <1>1, <1>2, <1>3, <1>4, <1>5, <1>6, OwnStep

LEMMA StepOwnBytes ==
  ASSUME Reliable, Single, IdsKept, DrawnMissing, OwnBytes, [Next]_vars
  PROVE  OwnBytes'
<1>a. Stores = Persistent
  BY SinglePersists
<1> SUFFICES ASSUME NEW u \in Uploads, NEW s \in Stores, MaySucceed(u)',
                    Holds(s, <<hash[u], Original>>)'
             PROVE  stored'[s][<<hash'[u], Original>>] \subseteq {u}
  BY DEF OwnBytes
<1>b. u \in Requests /\ TypeOK
  BY RequestAssumption DEF IdsKept
<1>1. ASSUME NEW id \in Ids, GetHash(u, id) PROVE FALSE
  <2>1. gen = "offer" /\ hash'[u] = cand /\ UNCHANGED stored
    BY <1>b, <1>1 DEF GetHash, Offer, TypeOK
  <2> QED BY <2>1 DEF DrawnMissing, Single, Holds
<1>2. CASE MaySucceed(u) /\ hash'[u] = hash[u]
  <2>1. hash[u] \in Ids
    BY <1>2 DEF MaySucceed, IdsKept, OneWriter, SavesFor
  <2>2. CASE stored'[s][<<hash[u], Original>>] = stored[s][<<hash[u], Original>>]
    BY <1>2, <2>2 DEF OwnBytes, Holds
  <2>3. CASE stored'[s][<<hash[u], Original>>] # stored[s][<<hash[u], Original>>]
    <3>1. PICK r \in Uploads :
            /\ hash[r] = hash[u] /\ part[r] = Original /\ SavesFor(r)
            /\ CreateDst(r, s) \/ CopyDone(r, s) \/ CopyFails(r, s)
      BY <1>a, <2>1, <2>3, OriginalWriter DEF Crash, LoseMemory
    <3>2. st[u] # "ok"
      BY <3>1 DEF IdsKept, OneWriter, IsKept, IsAcked
    <3>3. r = u
      BY <1>2, <3>1, <3>2 DEF MaySucceed, IdsKept, OneWriter, SavesFor
    <3>4. key(u) = <<hash[u], Original>> /\ key(u) \in Keys
      BY <2>1, <3>1, <3>3 DEF key, Keys, Parts
    <3>5. CASE CreateDst(u, s)
      BY <1>2, <1>b, <3>4, <3>5 DEF CreateDst, CreateFile, SetObject, TypeOK, StoredType
    <3>6. CASE CopyDone(u, s)
      <4>1. stored'[s][key(u)] = Written(s, key(u), u)
        BY <1>b, <3>4, <3>6 DEF CopyDone, PutObject, SetObject, TypeOK, StoredType
      <4> QED BY <1>2, <3>4, <4>1 DEF Written, OwnBytes
    <3>7. CASE CopyFails(u, s)
      <4>1. saver'[u][s] = "sentErr" /\ st' = st
        BY <1>b, <3>7 DEF CopyFails, SetSaver, saveRest, TypeOK
      <4> QED BY <3>2, <4>1 DEF MaySucceed
    <3> QED BY <3>1, <3>3, <3>5, <3>6, <3>7
  <2> QED BY <1>2, <2>2, <2>3
<1> QED BY <1>1, <1>2, Hopeful

LEMMA StepOwnRead ==
  ASSUME Reliable, Single, IdsKept, DrawnMissing, SingleInv, [Next]_vars
  PROVE  OwnRead'
<1>a. Stores = Persistent /\ Stores # {}
  BY SinglePersists, StoreAssumption
<1> SUFFICES ASSUME NEW v \in Renders, st'[v] \in {"processing", "saving"}
             PROVE  /\ hash'[v] \in Ids
                    /\ \A s \in Stores : Holds(s, <<hash[v], Original>>)'
                    /\ \A u \in Uploads : MaySucceed(u)' /\ hash'[u] = hash'[v] =>
                         source'[v] \subseteq {u}
  BY DEF OwnRead
<1>b. v \in Requests /\ v \notin Uploads /\ TypeOK
  BY RequestAssumption DEF IdsKept
<1>1. ASSUME NEW id \in Ids, NEW t \in Thumbs, NEW s \in Stores, Fetch(v, id, t, s)
      PROVE  /\ hash'[v] \in Ids
             /\ \A q \in Stores : Holds(q, <<hash[v], Original>>)'
             /\ \A u \in Uploads : MaySucceed(u)' /\ hash'[u] = hash'[v] =>
                  source'[v] \subseteq {u}
  <2>1. /\ hash'[v] = id /\ source'[v] = stored[s][<<id, Original>>]
        /\ Holds(s, <<id, Original>>) /\ UNCHANGED <<stored, saver>>
        /\ \A u \in Uploads : st'[u] = st[u] /\ hash'[u] = hash[u]
    BY <1>b, <1>1, RequestAssumption DEF Fetch, TypeOK
  <2>2. \A u \in Uploads : MaySucceed(u)' => MaySucceed(u)
    BY <2>1 DEF MaySucceed
  <2>3. \A q \in Stores : q = s
    BY DEF Single
  <2> QED BY <2>1, <2>2, <2>3 DEF SingleInv, OwnBytes, Holds
<1>2. CASE ~\E id \in Ids, t \in Thumbs, s \in Stores : Fetch(v, id, t, s)
  <2>1. /\ st[v] \in {"processing", "saving"}
        /\ hash'[v] = hash[v] /\ source'[v] = source[v]
    <3>1. CASE Same(v)
      BY <3>1 DEF Same
    <3>2. CASE RenderStep(v)
      BY <1>2, <1>b, <3>2 DEF RenderStep, FetchFails, Rendered, Served, Refuse, TypeOK
    <3>3. CASE ProcessFails(v) \/ Finish(v)
      BY <1>b, <3>3 DEF ProcessFails, Finish, Refuse, TypeOK
    <3>4. ASSUME NEW s \in Stores, SaveStep(v, s)
          PROVE  st'[v] = st[v] /\ hash'[v] = hash[v] /\ source'[v] = source[v]
      BY <1>b, <3>4 DEF SaveStep, OpenSrc, CreateDst, OpenFails, CopyDone, CopyFails, TakeOk,
                        TakeFailure, saveRest, Refuse, TypeOK
    <3>5. CASE Crash
      BY <1>b, <3>5 DEF Crash, Answered, TypeOK
    <3> QED BY <1>b, <3>1, <3>2, <3>3, <3>4, <3>5, OwnStep
  <2>2. hash[v] \in Ids /\ \A s \in Stores : Holds(s, <<hash[v], Original>>)
    BY <2>1 DEF SingleInv, OwnRead
  <2>3. \A s \in Stores : Holds(s, <<hash[v], Original>>)'
    BY <1>a, <1>b, <2>1, <2>2, HeldStays DEF Holds, Keys, Parts
  <2>4. ASSUME NEW u \in Uploads, MaySucceed(u)', hash'[u] = hash[v]
        PROVE  source[v] \subseteq {u}
    <3>1. ASSUME NEW id \in Ids, GetHash(u, id) PROVE FALSE
      <4>1. gen = "offer" /\ hash'[u] = cand
        BY <3>1, RequestAssumption, <1>b DEF GetHash, Offer, TypeOK
      <4> QED BY <2>2, <2>4, <4>1 DEF DrawnMissing
    <3>2. MaySucceed(u) /\ hash[u] = hash[v]
      BY <2>4, <3>1, Hopeful
    <3> QED BY <2>1, <3>2 DEF SingleInv, OwnRead
  <2> QED BY <2>1, <2>2, <2>3, <2>4
<1> QED BY <1>1, <1>2

LEMMA InitSingle ==
  ASSUME Init
  PROVE  SingleInv
BY RequestAssumption DEF Init, SingleInv, OwnBytes, OwnRead, MaySucceed

LEMMA SingleAlways ==
  ASSUME Reliable, Single
  PROVE  Spec => []SingleInv
<1>1. IdsKept /\ DrawnMissing /\ SingleInv /\ [Next]_vars => SingleInv'
  BY StepOwnBytes, StepOwnRead DEF SingleInv
<1> QED BY InitSingle, <1>1, IdsKeptAlways, DrawnAlways, PTL DEF Spec

(* With a single store, what a render in progress has read under the id of *)
(* an upload answered 200 is that upload's: the render may find the file   *)
(* while it is copied, but never what another upload left there.           *)
THEOREM RendersReadOwnImages == ASSUME Reliable PROVE Spec => []RenderReadsOwnImage
<1>1. CASE Single
  <2>1. SingleInv => RenderReadsOwnImage
    BY DEF SingleInv, OwnRead, MaySucceed, RenderReadsOwnImage
  <2> QED BY <1>1, <2>1, SingleAlways, PTL
<1>2. CASE ~Single
  <2>1. RenderReadsOwnImage
    BY <1>2 DEF Single, RenderReadsOwnImage
  <2> QED BY <2>1, PTL
<1> QED BY <1>1, <1>2

-----------------------------------------------------------------------------
(* Nobody waits in vain.                                                   *)

(* A handler that waits for results of its Save has one to receive, or a   *)
(* goroutine that has still to send one; unless it has them all.           *)
ResultsCome ==
  \A r \in Requests : st[r] = "saving" =>
    AllTaken(r) \/ \E s \in Stores : saver[r][s] \in Busy \cup {"sentOk", "sentErr"}

(* The generator that waits for answers of Exists has one to receive, or a *)
(* goroutine that has still to ask.                                        *)
AnswersCome ==
  gen = "check" => \E s \in Stores : probe[s] \in {"asked"} \cup Answers

(* A Save has a goroutine for every store, and a check of the generator    *)
(* ends before it has taken every answer.                                  *)
SaversStarted == \A r \in Requests, s \in Stores : st[r] = "saving" => saver[r][s] # "off"

ProbesStarted ==
  gen = "check" => /\ \A s \in Stores : probe[s] # "idle"
                   /\ \E s \in Stores : probe[s] # "taken"

LEMMA StepSavers ==
  ASSUME TypeOK, TypeOK', SaversStarted, [Next]_vars
  PROVE  SaversStarted'
<1> SUFFICES ASSUME NEW r \in Requests, NEW s \in Stores, st'[r] = "saving"
             PROVE  saver'[r][s] # "off"
  BY DEF SaversStarted
<1>1. CASE Same(r)
  BY <1>1 DEF Same, SaversStarted
<1>2. CASE r \in Uploads /\ UploadStep(r)
  BY <1>2 DEF UploadStep, Arrive, Processed, GetHash, NextThumb, MetadataFails, Refuse,
              TypeOK, AllOpen
<1>3. CASE r \in Renders /\ RenderStep(r)
  BY <1>3 DEF RenderStep, Fetch, FetchFails, Rendered, Served, Refuse, TypeOK, AllOpen
<1>4. CASE ProcessFails(r) \/ Finish(r)
  BY <1>4 DEF ProcessFails, Finish, Refuse, TypeOK
<1>5. ASSUME NEW q \in Stores, SaveStep(r, q) PROVE saver'[r][s] # "off"
  BY <1>5 DEF SaveStep, OpenSrc, CreateDst, OpenFails, CopyDone, CopyFails, TakeOk,
              TakeFailure, SetSaver, saveRest, Refuse, TypeOK, SaversStarted
<1>6. CASE Crash
  BY <1>6 DEF Crash, Answered, TypeOK
<1> QED BY <1>1, <1>2, <1>3, <1>4, <1>5, <1>6, OwnStep

LEMMA StepProbes ==
  ASSUME TypeOK, ProbesStarted, [Next]_vars
  PROVE  ProbesStarted'
<1> USE DEF ProbesStarted
<1>1. Stores # {}
  BY StoreAssumption
<1>2. ASSUME NEW id \in Ids, DrawId(id) PROVE ProbesStarted'
  BY <1>1, <1>2 DEF DrawId, Draw
<1>3. CASE Generate
  <2>1. PICK s \in Stores : Probe(s) \/ TakeTrue(s) \/ TakeErr(s) \/ TakeFalse(s)
    BY <1>3 DEF Generate, CheckStep
  <2>2. CASE Probe(s)
    BY <2>2 DEF Probe, ExistsAnswers, TypeOK, GenType
  <2>3. CASE TakeTrue(s) \/ TakeErr(s)
    BY <2>3 DEF TakeTrue, TakeErr, EndCheck
  <2>4. CASE TakeFalse(s)
    BY <2>4 DEF TakeFalse, EndCheck, TypeOK, GenType
  <2> QED BY <2>1, <2>2, <2>3, <2>4
<1>4. CASE UNCHANGED genVars \/ gen' = "draw"
  BY <1>4 DEF genVars
<1>5. CASE ~Generate /\ ~\E id \in Ids : DrawId(id)
  <2>1. UNCHANGED genVars \/ gen' = "draw"
    BY <1>5 DEF Next, vars, Arrive, Processed, GetHash, Offer, NextThumb, MetadataFails,
       Fetch, FetchFails, Rendered, Served, ProcessFails, Finish, Quiet, SaveStep, OpenSrc,
       CreateDst, OpenFails, CopyDone, CopyFails, TakeOk, TakeFailure, saveRest, Crash,
       RestartGenerator
  <2> QED BY <2>1, <1>4
<1> QED BY <1>2, <1>3, <1>5

(* No handler and no generator waits for a message that nobody will send:  *)
(* the goroutines of Save send one result each, and the loops that receive *)
(* them end in time, whatever fails.  (That the message does come is       *)
(* fairness.)                                                              *)
THEOREM NobodyWaitsInVain == Spec => [](ResultsCome /\ AnswersCome)
<1>1. Init => SaversStarted /\ ProbesStarted
  BY DEF Init, GenInit, SaversStarted, ProbesStarted
<1>2. TypeOK /\ TypeOK' /\ SaversStarted /\ ProbesStarted /\ [Next]_vars =>
        SaversStarted' /\ ProbesStarted'
  BY StepSavers, StepProbes
<1>3. TypeOK /\ SaversStarted => ResultsCome
  BY DEF TypeOK, SaversStarted, ResultsCome, AllTaken, SaverStates
<1>4. TypeOK /\ ProbesStarted => AnswersCome
  BY DEF TypeOK, GenType, ProbeStates, ProbesStarted, AnswersCome
<1> QED BY <1>1, <1>2, <1>3, <1>4, TypeCorrect, PTL DEF Spec
=============================================================================
