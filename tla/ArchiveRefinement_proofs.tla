---------------------- MODULE ArchiveRefinement_proofs ----------------------
(***************************************************************************)
(* Proofs that UploadServer implements ImageArchive: every step is one of  *)
(* the archive or a stutter, for any stores, ids, thumbnails and requests. *)
(***************************************************************************)
EXTENDS UploadServer_proofs

(* No step changes the original of a kept id in a persistent store, and    *)
(* none writes an image of a former run.                                   *)
LEMMA KeptUntouched ==
  ASSUME IdsKept, [Next]_vars, NEW id \in Ids, NEW p \in Persistent
  PROVE  /\ IsKept(id) => stored'[p][<<id, Original>>] = stored[p][<<id, Original>>]
         /\ stored'[p][<<id, Original>>] = {Old} => stored[p][<<id, Original>>] = {Old}
<1> DEFINE k == <<id, Original>>
<1> DEFINE Goal == /\ IsKept(id) => stored'[p][k] = stored[p][k]
                   /\ stored'[p][k] = {Old} => stored[p][k] = {Old}
<1>1. p \in Stores
  BY DEF Persistent, Stores
<1>2. ASSUME NEW r \in Requests, NEW s \in Stores, saver[r][s] \in {"create", "copy"},
             NEW c, SetObject(s, key(r), c),
             c # {Old} \/ c = stored[s][key(r)]
      PROVE  Goal
  <2>1. CASE stored'[p][k] = stored[p][k]
    BY <2>1
  <2>2. CASE stored'[p][k] # stored[p][k]
    <3>1. p = s /\ key(r) = k /\ ~IsKept(id) /\ stored'[p][k] = c
      BY <1>1, <1>2, <2>2, OriginalWrite DEF key
    <3> QED BY <1>2, <2>2, <3>1
  <2> QED BY <2>1, <2>2
<1>3. ASSUME NEW r \in Requests, NEW s \in Stores, SaveStep(r, s) PROVE Goal
  <2>1. CASE CreateDst(r, s)
    <3>1. {} # {Old}
      OBVIOUS
    <3> QED BY <1>2, <2>1, <3>1 DEF CreateDst, CreateFile
  <2>2. CASE CopyDone(r, s)
    <3>1. r \in Written(s, key(r), r) /\ r # Old
      BY StoreAssumption DEF Written
    <3>2. Written(s, key(r), r) # {Old}
      BY <3>1
    <3> QED BY <1>2, <2>2, <3>2 DEF CopyDone, PutObject
  <2>3. CASE CopyFails(r, s)
    <3>1. PICK c \in FailedCopies(s, key(r), r) : SetObject(s, key(r), c)
      BY <2>3 DEF CopyFails, FailPut
    <3>2. c = stored[s][key(r)] \/ Junk \in c \/ r \in c
      BY <3>1 DEF FailedCopies, Written
    <3>3. c = stored[s][key(r)] \/ c # {Old}
      BY <3>2, StoreAssumption
    <3> QED BY <1>2, <2>3, <3>1, <3>3 DEF CopyFails
  <2>4. CASE UNCHANGED stored
    BY <2>4
  <2> QED BY <1>3, <2>1, <2>2, <2>3, <2>4
      DEF SaveStep, OpenSrc, OpenFails, TakeOk, TakeFailure
<1>4. CASE Crash
  BY <1>4, <1>1 DEF Crash, LoseMemory
<1>5. CASE UNCHANGED stored
  BY <1>5
<1>6. CASE \E r \in Requests, s \in Stores : SaveStep(r, s)
  BY <1>6, <1>3
<1>7. CASE ~(\E r \in Requests, s \in Stores : SaveStep(r, s)) /\ ~Crash
  <2>1. UNCHANGED stored
    BY <1>7 DEF Next, vars, DrawId, Generate, Arrive, Processed, GetHash, NextThumb,
       MetadataFails, Fetch, FetchFails, Rendered, Served, ProcessFails, Finish, Quiet
  <2> QED BY <2>1, <1>5
<1>8. Goal
  BY <1>4, <1>6, <1>7
<1> QED BY <1>8 DEF Goal

(* The images of a former run of the server are never touched.             *)
THEOREM OldImagesSafe == ASSUME Reliable PROVE Spec => OldImagesKept
<1> DEFINE Kept == \A s \in Persistent, id \in Ids :
                     stored[s][<<id, Original>>] = {Old} =>
                       stored'[s][<<id, Original>>] = {Old}
<1>1. IdsKept /\ [Next]_vars => [Kept]_vars
  BY KeptUntouched DEF IsKept, IsOld
<1> QED BY IdsKeptAlways, <1>1, PTL DEF Spec, OldImagesKept

-----------------------------------------------------------------------------
(* The archive.                                                            *)

(* An answer is never taken back, and only Finish answers 200.             *)
LEMMA AnswersStay ==
  ASSUME IdsKept, [Next]_vars, NEW u \in Uploads
  PROVE  /\ st[u] \in Answered => st'[u] = st[u]
         /\ st[u] = "ok" => hash'[u] = hash[u]
         /\ st[u] # "ok" /\ st'[u] = "ok" => Finish(u)
<1> USE RequestAssumption DEF IdsKept, TypeOK, Answered
<1> DEFINE Goal == /\ st[u] \in Answered => st'[u] = st[u]
                   /\ st[u] = "ok" => hash'[u] = hash[u]
                   /\ st[u] # "ok" /\ st'[u] = "ok" => Finish(u)
<1>2. ASSUME NEW r \in Uploads, NEW T \in SUBSET Thumbs, Arrive(r, T) PROVE Goal
  BY <1>2 DEF Arrive
<1>3. ASSUME NEW r \in Uploads, Processed(r) PROVE Goal
  BY <1>3 DEF Processed
<1>4. ASSUME NEW r \in Uploads, NEW id \in Ids, GetHash(r, id) PROVE Goal
  BY <1>4 DEF GetHash
<1>5. ASSUME NEW r \in Uploads, MetadataFails(r) PROVE Goal
  BY <1>5 DEF MetadataFails, Refuse, AllSaved, AllTaken
<1>6. ASSUME NEW v \in Renders, NEW id \in Ids, NEW t \in Thumbs, NEW s \in Stores,
             Fetch(v, id, t, s)
      PROVE  Goal
  BY <1>6 DEF Fetch
<1>7. ASSUME NEW v \in Renders, FetchFails(v) \/ Rendered(v) \/ Served(v) PROVE Goal
  BY <1>7 DEF FetchFails, Rendered, Served, Refuse
<1>8. ASSUME NEW r \in Requests, ProcessFails(r) PROVE Goal
  BY <1>8 DEF ProcessFails, Refuse
<1>9. ASSUME NEW r \in Requests, Finish(r) PROVE Goal
  <2>1. CASE r = u
    BY <1>9, <2>1 DEF Finish, AllSaved, AllTaken
  <2>2. CASE r # u
    BY <1>9, <2>2 DEF Finish
  <2> QED BY <2>1, <2>2
<1>10. ASSUME NEW r \in Requests, NEW s \in Stores, SaveStep(r, s) PROVE Goal
  <2>1. CASE TakeFailure(r, s)
    BY <2>1 DEF TakeFailure, Refuse
  <2>2. CASE ~TakeFailure(r, s)
    <3>1. UNCHANGED <<st, hash>>
      BY <1>10, <2>2
      DEF SaveStep, OpenSrc, CreateDst, OpenFails, CopyDone, CopyFails, TakeOk, saveRest
    <3> QED BY <3>1
  <2> QED BY <2>1, <2>2
<1>11. CASE Crash
  BY <1>11 DEF Crash
<1>12. CASE \/ \E id \in Ids : DrawId(id)
            \/ Generate \/ Quiet \/ UNCHANGED vars
            \/ \E r \in Uploads, t \in Thumbs : NextThumb(r, t)
  <2>1. UNCHANGED <<st, hash>>
    BY <1>12 DEF DrawId, Generate, Quiet, NextThumb, vars, reqVars
  <2> QED BY <2>1
<1> QED
  BY <1>2, <1>3, <1>4, <1>5, <1>6, <1>7, <1>8, <1>9, <1>10, <1>11, <1>12
  DEF Next

(* Who owns an id, in a state of the invariant.                            *)
LEMMA OwnerIs ==
  ASSUME Reliable, IdsKept, NEW id \in Ids
  PROVE  /\ \A u \in Uploads : st[u] = "ok" /\ hash[u] = id => owner[id] = u
         /\ IsOld(id) => owner[id] = Old
         /\ ~IsKept(id) => owner[id] = Nothing
<1>1. \A u, w : Everywhere(id, {u}) /\ Everywhere(id, {w}) => u = w
  BY DEF Reliable, Everywhere
<1>2. \A u \in Uploads : st[u] = "ok" /\ hash[u] = id => OwnedBy(id, u)
  BY DEF OwnedBy, IdsKept, AckedDurable
<1>3. \A u \in Uploads : OwnedBy(id, u) => Everywhere(id, {u}) /\ IsKept(id)
  BY DEF OwnedBy, IsKept, IsAcked
<1>4. IsOld(id) => Everywhere(id, {Old}) /\ IsKept(id)
  BY DEF IdsKept, OldWhole, IsKept
<1>5. Everywhere(id, {Old}) => IsOld(id)
  BY DEF Reliable, Everywhere, IsOld
<1>6. Old \notin Uploads
  BY StoreAssumption, RequestAssumption
<1>7. ASSUME NEW u \in Uploads, OwnedBy(id, u) PROVE owner[id] = u
  <2>1. \A w \in Uploads : OwnedBy(id, w) => w = u
    BY <1>1, <1>3, <1>7
  <2>2. owner[id] = CHOOSE w \in Uploads : OwnedBy(id, w)
    BY <1>7 DEF owner
  <2> QED BY <1>7, <2>1, <2>2
<1>8. ASSUME \A u \in Uploads : ~OwnedBy(id, u)
      PROVE  owner[id] = IF Everywhere(id, {Old}) THEN Old ELSE Nothing
  BY <1>8 DEF owner
<1> QED BY <1>1, <1>2, <1>3, <1>4, <1>5, <1>6, <1>7, <1>8 DEF IsKept

(* An id changes hands in one way: the upload that finishes gets its id.   *)
LEMMA OwnershipStep ==
  ASSUME Reliable, IdsKept, [Next]_vars, NEW id \in Ids
  PROVE  /\ Everywhere(id, {Old})' = Everywhere(id, {Old})
         /\ \A w \in Uploads :
              OwnedBy(id, w)' = (OwnedBy(id, w) \/ (st[w] # "ok" /\ st'[w] = "ok" /\ hash[w] = id))
<1>1. Everywhere(id, {Old}) => IsKept(id)
  BY DEF Everywhere, IsKept, IsOld, Reliable
<1>2. Everywhere(id, {Old})' = Everywhere(id, {Old})
  BY <1>1, KeptUntouched DEF Everywhere
<1>3. ASSUME NEW w \in Uploads, OwnedBy(id, w) PROVE OwnedBy(id, w)'
  <2>1. IsKept(id) /\ st[w] = "ok" /\ hash[w] = id /\ Everywhere(id, {w})
    BY <1>3 DEF OwnedBy, IsKept, IsAcked
  <2>2. st'[w] = "ok" /\ hash'[w] = id
    BY <2>1, AnswersStay DEF Answered
  <2>3. Everywhere(id, {w})'
    BY <2>1, KeptUntouched DEF Everywhere
  <2> QED BY <2>2, <2>3 DEF OwnedBy
<1>4. ASSUME NEW w \in Uploads, st[w] # "ok", st'[w] = "ok"
      PROVE  UNCHANGED <<stored, hash>> /\ Everywhere(hash[w], {w})
  <2>1. Finish(w)
    BY <1>4, AnswersStay
  <2> QED BY <2>1, AllTakenStored DEF Finish, AllSaved
<1>5. ASSUME NEW w \in Uploads, st[w] # "ok", st'[w] = "ok", hash[w] = id
      PROVE  OwnedBy(id, w)'
  BY <1>4, <1>5 DEF OwnedBy, Everywhere
<1>6. ASSUME NEW w \in Uploads, OwnedBy(id, w)'
      PROVE  OwnedBy(id, w) \/ (st[w] # "ok" /\ st'[w] = "ok" /\ hash[w] = id)
  <2>1. st'[w] = "ok" /\ hash'[w] = id
    BY <1>6 DEF OwnedBy
  <2>2. CASE st[w] = "ok"
    <3>1. hash[w] = id
      BY <2>1, <2>2, AnswersStay
    <3> QED BY <2>2, <3>1 DEF OwnedBy, IdsKept, AckedDurable
  <2>3. CASE st[w] # "ok"
    BY <1>4, <2>1, <2>3
  <2> QED BY <2>2, <2>3
<1> QED BY <1>2, <1>3, <1>5, <1>6 DEF OwnedBy

LEMMA ArchiveInit ==
  ASSUME Reliable, Init
  PROVE  Archive!Init
<1>1. IdsKept
  BY InitKept
<1>2. \A u \in Uploads : st[u] = "idle"
  BY RequestAssumption DEF Init
<1>3. outcome = [u \in Uploads |-> "pending"]
  BY <1>2 DEF outcome
<1>4. ASSUME NEW id \in Ids PROVE owner[id] \in {Old, Nothing}
  BY <1>2, <1>4 DEF owner, OwnedBy
<1>5. owner \in [Ids -> {Old, Nothing}]
  BY <1>4 DEF owner
<1> QED BY <1>3, <1>5 DEF Archive!Init

(* A step of the server is one of the archive, or the archive stutters.    *)
LEMMA ArchiveStep ==
  ASSUME Reliable, IdsKept, [Next]_vars
  PROVE  [Archive!Next]_<<outcome, owner>>
<1>1. ASSUME NEW u \in Uploads
      PROVE  outcome[u] = CASE st[u] = "ok" -> "published"
                            [] st[u] \in {"failed", "lost"} -> "refused"
                            [] OTHER -> "pending"
  BY DEF outcome
<1>2. ASSUME NEW u \in Uploads
      PROVE  outcome'[u] = CASE st'[u] = "ok" -> "published"
                             [] st'[u] \in {"failed", "lost"} -> "refused"
                             [] OTHER -> "pending"
  BY DEF outcome
<1>3. outcome = [u \in Uploads |-> outcome[u]] /\ outcome' = [u \in Uploads |-> outcome'[u]]
  BY DEF outcome
<1>4. CASE \E u \in Uploads : st[u] # "ok" /\ st'[u] = "ok"
  <2>1. PICK u \in Uploads : st[u] # "ok" /\ st'[u] = "ok"
    BY <1>4
  <2>2. Finish(u)
    BY <2>1, AnswersStay
  <2>3. st[u] = "saving" /\ st' = [st EXCEPT ![u] = "ok"]
    BY <2>2 DEF Finish, AllSaved, AllTaken
  <2>4. hash[u] \in Ids /\ ~IsKept(hash[u])
    BY <2>3 DEF IdsKept, OneWriter, SavesFor
  <2>5. outcome[u] = "pending" /\ owner[hash[u]] = Nothing
    BY <1>1, <2>3, <2>4, OwnerIs
  <2>6. \A w \in Uploads \ {u} : st'[w] = st[w]
    BY <2>3, RequestAssumption DEF IdsKept, TypeOK
  <2>7. outcome' = [outcome EXCEPT ![u] = "published"]
    BY <2>1, <2>6 DEF outcome
  <2>8. ASSUME NEW id \in Ids
        PROVE  owner'[id] = IF id = hash[u] THEN u ELSE owner[id]
    <3>1. CASE id = hash[u]
      <4>1. ~\E w \in Uploads : OwnedBy(id, w)
        BY <2>4, <3>1 DEF OwnedBy, IsKept, IsAcked
      <4>2. \A w \in Uploads : OwnedBy(id, w)' = (w = u)
        BY <2>1, <2>6, <3>1, <4>1, OwnershipStep
      <4>3. owner'[id] = CHOOSE w \in Uploads : OwnedBy(id, w)'
        BY <4>2 DEF owner
      <4> QED BY <3>1, <4>2, <4>3
    <3>2. CASE id # hash[u]
      <4>1. \A w \in Uploads : OwnedBy(id, w)' = OwnedBy(id, w)
        BY <2>6, <3>2, OwnershipStep DEF OwnedBy
      <4>2. Everywhere(id, {Old})' = Everywhere(id, {Old})
        BY OwnershipStep
      <4> QED BY <3>2, <4>1, <4>2 DEF owner
    <3> QED BY <3>1, <3>2
  <2>9. owner' = [owner EXCEPT ![hash[u]] = u]
    BY <2>4, <2>8 DEF owner
  <2> QED BY <2>4, <2>5, <2>7, <2>9 DEF Archive!Next, Archive!Publish
<1>5. CASE \A u \in Uploads : st'[u] = "ok" => st[u] = "ok"
  <2>1. ASSUME NEW id \in Ids PROVE owner'[id] = owner[id]
    <3>1. \A w \in Uploads : OwnedBy(id, w)' = OwnedBy(id, w)
      BY <1>5, OwnershipStep DEF OwnedBy
    <3>2. Everywhere(id, {Old})' = Everywhere(id, {Old})
      BY OwnershipStep
    <3> QED BY <3>1, <3>2 DEF owner
  <2>2. UNCHANGED owner
    BY <2>1 DEF owner
  <2> DEFINE U == {u \in Uploads : outcome[u] = "pending" /\ outcome'[u] # "pending"}
  <2>3. ASSUME NEW u \in Uploads
        PROVE  outcome'[u] = IF u \in U THEN "refused" ELSE outcome[u]
    <3>1. st[u] \in Answered => st'[u] = st[u]
      BY AnswersStay
    <3> QED BY <1>1, <1>2, <1>5, <3>1 DEF Answered
  <2>4. outcome' = [u \in Uploads |-> IF u \in U THEN "refused" ELSE outcome[u]]
    BY <1>3, <2>3
  <2>5. U \in SUBSET Uploads /\ \A u \in U : outcome[u] = "pending"
    OBVIOUS
  <2> HIDE DEF U
  <2> QED BY <2>2, <2>4, <2>5 DEF Archive!Next, Archive!Refuse
<1> QED BY <1>4, <1>5

(* The server implements the archive: an upload answered 200 gets an id    *)
(* that was nobody's, and keeps it whatever the other requests, goroutines *)
(* left behind and restarts do.                                            *)
THEOREM ImplementsArchive == ASSUME Reliable PROVE Spec => ArchiveSpec
<1>1. Init => Archive!Init
  BY ArchiveInit
<1>2. IdsKept /\ [Next]_vars => [Archive!Next]_<<outcome, owner>>
  BY ArchiveStep
<1> QED BY IdsKeptAlways, <1>1, <1>2, PTL DEF Spec, ArchiveSpec, Archive!Spec

(* Hence, seen from outside: an id that has an owner, be it an upload or a *)
(* former run of the server, has the same owner for ever.                  *)
THEOREM OwnersStay ==
  ASSUME Reliable
  PROVE  Spec => [][\A id \in Ids : owner[id] # Nothing => owner'[id] = owner[id]]_vars
<1> DEFINE Stay == \A id \in Ids : owner[id] # Nothing => owner'[id] = owner[id]
<1>1. ASSUME IdsKept, [Next]_vars PROVE Stay
  <2>1. owner = [id \in Ids |-> owner[id]]
    BY DEF owner
  <2>2. CASE UNCHANGED <<outcome, owner>>
    BY <2>2
  <2>3. ASSUME NEW u \in Uploads, NEW id \in Ids, Archive!Publish(u, id) PROVE Stay
    BY <2>1, <2>3 DEF Archive!Publish
  <2>4. ASSUME NEW U \in SUBSET Uploads, Archive!Refuse(U) PROVE Stay
    BY <2>4 DEF Archive!Refuse
  <2> QED BY <1>1, <2>2, <2>3, <2>4, ArchiveStep DEF Archive!Next
<1>2. IdsKept /\ [Next]_vars => [Stay]_vars
  BY <1>1
<1> QED BY IdsKeptAlways, <1>2, PTL DEF Spec
=============================================================================
