------------------------- MODULE UploadServer_proofs -------------------------
(***************************************************************************)
(* Proofs about UploadServer for any set of stores, ids, thumbnails and    *)
(* requests: type correctness, then that published images are kept.        *)
(***************************************************************************)
EXTENDS UploadServer, TLAPS

-----------------------------------------------------------------------------
(* Type correctness.                                                       *)

(* A copy writes bytes of requests, or junk, never the mark of absence.    *)
LEMMA WrittenType ==
  ASSUME StoredType, NEW s \in Stores, NEW k \in Keys, NEW w \in Requests \cup {Junk}
  PROVE  Written(s, k, w) \in Contents
<1>1. stored[s][k] \in Contents \cup {Absent}
  BY DEF StoredType
<1>2. CASE s \in LocalStores /\ Holds(s, k)
  <2>1. stored[s][k] \in Contents
    BY <1>1, <1>2 DEF Holds
  <2> QED BY <2>1, <1>2 DEF Written, Contents
<1>3. CASE ~(s \in LocalStores /\ Holds(s, k))
  BY <1>3 DEF Written, Contents
<1> QED BY <1>2, <1>3

(* Replacing the object under one key of one store keeps the type.         *)
LEMMA StoredUpdate ==
  ASSUME StoredType, NEW s \in Stores, NEW k, NEW c,
         k \in Keys => c \in Contents \cup {Absent},
         SetObject(s, k, c)
  PROVE  StoredType'
BY DEF StoredType, SetObject

LEMMA PutType ==
  ASSUME StoredType, NEW s \in Stores, NEW k, NEW w \in Requests, PutObject(s, k, w)
  PROVE  StoredType'
BY WrittenType, StoredUpdate DEF PutObject

LEMMA FailPutType ==
  ASSUME StoredType, NEW s \in Stores, NEW k, NEW w \in Requests, FailPut(s, k, w)
  PROVE  StoredType'
<1>1. PICK c \in FailedCopies(s, k, w) : SetObject(s, k, c)
  BY DEF FailPut
<1>2. ASSUME k \in Keys PROVE c \in Contents \cup {Absent}
  <2>1. stored[s][k] \in Contents \cup {Absent}
    BY <1>2 DEF StoredType
  <2>2. {w} \in Contents
    BY DEF Contents
  <2> QED BY <1>2, <2>1, <2>2, WrittenType DEF FailedCopies
<1> QED BY <1>1, <1>2, StoredUpdate

LEMMA GenTypeKept ==
  ASSUME TypeOK, Generate
  PROVE  GenType'
<1>1. PICK s \in Stores : Probe(s) \/ TakeTrue(s) \/ TakeErr(s) \/ TakeFalse(s)
  BY DEF Generate, CheckStep
<1>2. CASE Probe(s)
  <2>1. PICK a \in ExistsAnswers(s, <<cand, Original>>) : probe' = [probe EXCEPT ![s] = a]
    BY <1>2 DEF Probe
  <2>2. a \in Answers
    BY DEF ExistsAnswers, Answers
  <2> QED BY <1>2, <2>1, <2>2 DEF Probe, TypeOK, GenType, ProbeStates
<1>3. CASE TakeTrue(s) \/ TakeErr(s)
  BY <1>3 DEF TakeTrue, TakeErr, EndCheck, TypeOK, GenType, ProbeStates
<1>4. CASE TakeFalse(s)
  BY <1>4 DEF TakeFalse, EndCheck, TypeOK, GenType, ProbeStates
<1> QED BY <1>1, <1>2, <1>3, <1>4

(* What the saver steps may change.                                        *)
LEMMA SaveStepType ==
  ASSUME TypeOK, NEW r \in Requests, NEW s \in Stores, SaveStep(r, s)
  PROVE  TypeOK'
<1> USE DEF TypeOK, SaverStates, Busy
<1>1. CASE OpenSrc(r, s)
  BY <1>1 DEF OpenSrc, SetSaver, saveRest, genVars, StoredType, GenType
<1>2. CASE CreateDst(r, s)
  <2>1. {} \in Contents
    BY DEF Contents
  <2>2. StoredType'
    BY <1>2, <2>1, StoredUpdate DEF CreateDst, CreateFile
  <2> QED BY <1>2, <2>2 DEF CreateDst, SetSaver, saveRest, genVars, GenType
<1>3. CASE OpenFails(r, s)
  BY <1>3 DEF OpenFails, SetSaver, saveRest, genVars, StoredType, GenType
<1>4. CASE CopyDone(r, s)
  <2>1. StoredType'
    BY <1>4, PutType DEF CopyDone
  <2> QED BY <1>4, <2>1 DEF CopyDone, SetSaver, saveRest, genVars, GenType
<1>5. CASE CopyFails(r, s)
  <2>1. StoredType'
    BY <1>5, FailPutType DEF CopyFails
  <2> QED BY <1>5, <2>1 DEF CopyFails, SetSaver, saveRest, genVars, GenType
<1>6. CASE TakeOk(r, s)
  BY <1>6 DEF TakeOk, SetSaver, saveRest, genVars, StoredType, GenType
<1>7. CASE TakeFailure(r, s)
  BY <1>7 DEF TakeFailure, Refuse, genVars, StoredType, GenType, States, Answered, Contents
<1> QED BY <1>1, <1>2, <1>3, <1>4, <1>5, <1>6, <1>7 DEF SaveStep

LEMMA InitType == Init => TypeOK
<1> SUFFICES ASSUME Init PROVE TypeOK
  OBVIOUS
<1>1. StoredType
  <2>1. {Old} \in Contents
    BY DEF Contents
  <2> QED BY <2>1 DEF Init, StoreInit, StoredType, Absent
<1>2. {} \in Contents
  BY DEF Contents
<1>3. 0 \in 0..MaxCrashes
  BY RequestAssumption
<1> QED
  BY <1>1, <1>2, <1>3
  DEF Init, GenInit, TypeOK, GenType, ProbeStates, States, Answered, Parts, AllOff, SaverStates

(* Every step keeps the types, one case per action.                        *)
LEMMA StepType ==
  ASSUME TypeOK, [Next]_vars
  PROVE  TypeOK'
<1> USE RequestAssumption
<1>a. {} \in Contents
  BY DEF Contents
<1>1. ASSUME NEW id \in Ids, DrawId(id) PROVE TypeOK'
  BY <1>1 DEF DrawId, Draw, reqVars, TypeOK, StoredType, GenType, ProbeStates
<1>2. CASE Generate
  <2>1. GenType'
    BY <1>2, GenTypeKept
  <2> QED BY <1>2, <2>1 DEF Generate, reqVars, TypeOK, StoredType
<1>3. ASSUME NEW u \in Uploads, NEW T \in SUBSET Thumbs, Arrive(u, T) PROVE TypeOK'
  BY <1>3 DEF Arrive, genVars, TypeOK, StoredType, GenType, States
<1>4. ASSUME NEW u \in Uploads, Processed(u) PROVE TypeOK'
  BY <1>4 DEF Processed, genVars, TypeOK, StoredType, GenType, States
<1>5. ASSUME NEW u \in Uploads, NEW id \in Ids, GetHash(u, id) PROVE TypeOK'
  BY <1>5 DEF GetHash, Offer, TypeOK, StoredType, GenType, States, Parts,
              AllOpen, SaverStates, Busy
<1>6. ASSUME NEW u \in Uploads, NEW t \in Thumbs, NextThumb(u, t) PROVE TypeOK'
  <2>1. linked(u) \subseteq Thumbs
    BY DEF linked, TypeOK, Parts
  <2> QED BY <1>6, <2>1 DEF NextThumb, genVars, TypeOK, StoredType, GenType, Parts,
              AllOpen, SaverStates, Busy
<1>7. ASSUME NEW u \in Uploads, MetadataFails(u) PROVE TypeOK'
  BY <1>a, <1>7 DEF MetadataFails, Refuse, genVars, TypeOK, StoredType, GenType, States,
              Answered, AllOff, SaverStates
<1>8. ASSUME NEW v \in Renders, NEW id \in Ids, NEW t \in Thumbs, NEW s \in Stores,
             Fetch(v, id, t, s)
      PROVE  TypeOK'
  <2>1. stored[s][<<id, Original>>] \in Contents
    BY <1>8 DEF Fetch, Holds, TypeOK, StoredType, Keys, Parts
  <2> QED BY <1>8, <2>1 DEF Fetch, genVars, TypeOK, StoredType, GenType, States, Parts
<1>9. ASSUME NEW v \in Renders, FetchFails(v) PROVE TypeOK'
  BY <1>a, <1>9 DEF FetchFails, Refuse, genVars, TypeOK, StoredType, GenType, States, Answered
<1>10. ASSUME NEW v \in Renders, Rendered(v) PROVE TypeOK'
  BY <1>10 DEF Rendered, genVars, TypeOK, StoredType, GenType, States,
               AllOpen, SaverStates, Busy
<1>11. ASSUME NEW v \in Renders, Served(v) PROVE TypeOK'
  BY <1>11 DEF Served, genVars, TypeOK, StoredType, GenType, States, Answered
<1>12. ASSUME NEW r \in Requests, ProcessFails(r) PROVE TypeOK'
  BY <1>a, <1>12 DEF ProcessFails, Refuse, genVars, TypeOK, StoredType, GenType, States, Answered
<1>13. ASSUME NEW r \in Requests, Finish(r) PROVE TypeOK'
  <2>1. linked(r) \subseteq Thumbs
    BY DEF linked, TypeOK, Parts
  <2> QED BY <1>13, <2>1 DEF Finish, genVars, TypeOK, StoredType, GenType, States,
              Answered, AllOff, SaverStates
<1>14. ASSUME NEW r \in Requests, NEW s \in Stores, SaveStep(r, s) PROVE TypeOK'
  BY <1>14, SaveStepType
<1>15. CASE Crash
  <2>1. StoredType'
    BY <1>15 DEF Crash, LoseMemory, TypeOK, StoredType
  <2>2. crashes' \in 0..MaxCrashes
    BY <1>15 DEF Crash, TypeOK
  <2> QED BY <1>a, <1>15, <2>1, <2>2 DEF Crash, RestartGenerator, TypeOK, GenType, ProbeStates,
              States, Answered, Parts, AllOff, SaverStates
<1>16. CASE Quiet \/ UNCHANGED vars
  BY <1>16 DEF Quiet, vars, genVars, reqVars, TypeOK, StoredType, GenType
<1> QED
  BY <1>1, <1>2, <1>3, <1>4, <1>5, <1>6, <1>7, <1>8, <1>9, <1>10, <1>11, <1>12, <1>13,
     <1>14, <1>15, <1>16
  DEF Next

(* Every reachable state is typed.  This is about the code's goroutines:   *)
(* no result is received that was not sent, and no object holds bytes that *)
(* no writer had.                                                          *)
THEOREM TypeCorrect == Spec => []TypeOK
<1>1. TypeOK /\ [Next]_vars => TypeOK'
  BY StepType
<1> QED BY InitType, <1>1, PTL DEF Spec

-----------------------------------------------------------------------------
(* Published images are kept.                                              *)

(* Originals are written by uploads that save, to the store they copy to,  *)
(* under ids that are not kept.                                            *)
LEMMA OriginalWrite ==
  ASSUME IdsKept, NEW r \in Requests, NEW s \in Stores,
         saver[r][s] \in {"create", "copy"},
         NEW c, SetObject(s, key(r), c),
         NEW p \in Stores, NEW id \in Ids,
         stored'[p][<<id, Original>>] # stored[p][<<id, Original>>]
  PROVE  /\ p = s /\ r \in Uploads /\ part[r] = Original
         /\ id = hash[r] /\ SavesFor(r) /\ ~IsKept(id)
         /\ stored'[p][<<id, Original>>] = c
<1>1. <<id, Original>> \in Keys
  BY DEF Keys, Parts
<1>2. p = s /\ key(r) = <<id, Original>> /\ stored'[p][<<id, Original>>] = c
  BY <1>1 DEF IdsKept, TypeOK, StoredType, SetObject
<1>3. Active(r)
  BY DEF Active, Busy
<1>4. part[r] = Original /\ hash[r] = id
  BY <1>2 DEF key
<1>5. r \in Uploads
  BY <1>3, <1>4, StoreAssumption, RequestAssumption DEF IdsKept, WritersKnown
<1> QED BY <1>2, <1>3, <1>4, <1>5 DEF IdsKept, OneWriter, SavesFor

(* The parts of the invariant that do not look at stored originals or at   *)
(* the progress of a copy survive any step of a saver.                     *)
LEMMA SaverFrame ==
  ASSUME IdsKept, NEW r \in Requests, NEW s \in Stores, saver[r][s] # "off",
         NEW x \in SaverStates, saver' = [saver EXCEPT ![r][s] = x],
         saver[r][s] \in Busy \/ x \notin Busy,
         UNCHANGED <<genVars, st, hash, part>>,
         \A id \in Ids : IsOld(id)' => IsOld(id)
  PROVE  OneWriter' /\ CheckWorks' /\ WritersKnown'
<1> USE DEF IdsKept, TypeOK
<1>1. ASSUME NEW q \in Requests PROVE Active(q)' => Active(q)
  BY DEF Active
<1>2. \A u \in Uploads : SavesFor(u)' => SavesFor(u)
  BY <1>1, RequestAssumption DEF SavesFor
<1>3. \A id \in Ids : IsKept(id)' => IsKept(id)
  BY DEF IsKept, IsAcked
<1>4. OneWriter'
  BY <1>2, <1>3 DEF OneWriter
<1>5. CheckWorks'
  BY <1>2, <1>3 DEF CheckWorks, InFlight, genVars
<1>6. WritersKnown'
  BY <1>1, RequestAssumption DEF WritersKnown
<1> QED BY <1>4, <1>5, <1>6

(* A write to a store: what it writes is not a former run's image, and its *)
(* saver is then as far as Progress wants it.                              *)
LEMMA WriteKeeps ==
  ASSUME IdsKept, NEW r \in Requests, NEW s \in Stores,
         saver[r][s] \in {"create", "copy"},
         NEW c, SetObject(s, key(r), c), c # {Old},
         NEW x \in {"copy", "sentOk", "sentErr"}, saver' = [saver EXCEPT ![r][s] = x],
         st[r] = "saving" /\ part[r] = Original /\ s \in Persistent =>
           /\ x = "copy" => c = {}
           /\ x = "sentOk" => c = {r},
         UNCHANGED <<genVars, st, hash, part>>
  PROVE  AckedDurable' /\ OneWriter' /\ CheckWorks' /\ Progress' /\ WritersKnown' /\ OldWhole'
<1> DEFINE O(p, id) == stored[p][<<id, Original>>]
<1>1. ASSUME NEW p \in Stores, NEW id \in Ids, O(p, id)' # O(p, id)
      PROVE  /\ p = s /\ r \in Uploads /\ part[r] = Original
             /\ id = hash[r] /\ SavesFor(r) /\ ~IsKept(id)
             /\ O(p, id)' = c
  <2>1. stored'[p][<<id, Original>>] # stored[p][<<id, Original>>]
    BY <1>1
  <2> HIDE DEF O
  <2>2. /\ p = s /\ r \in Uploads /\ part[r] = Original
        /\ id = hash[r] /\ SavesFor(r) /\ ~IsKept(id)
        /\ stored'[p][<<id, Original>>] = c
    BY <2>1, OriginalWrite
  <2> QED BY <2>2 DEF O
<1> HIDE DEF O
<1>p. Persistent \subseteq Stores
  BY DEF Persistent, Stores
<1>2. ASSUME NEW id \in Ids PROVE IsOld(id)' => IsOld(id)
  BY <1>1, <1>p DEF IsOld, O
<1>3. AckedDurable'
  <2> SUFFICES ASSUME NEW u \in Uploads, st'[u] = "ok", NEW p \in Persistent
               PROVE  O(p, hash[u])' = {u}
    BY DEF AckedDurable, Everywhere, O
  <2>1. st[u] = "ok" /\ hash[u] \in Ids /\ IsKept(hash[u]) /\ O(p, hash[u]) = {u}
    BY DEF IdsKept, AckedDurable, Everywhere, OneWriter, IsKept, IsAcked, O
  <2> QED BY <1>1, <1>p, <2>1
<1>4. OldWhole'
  <2> SUFFICES ASSUME NEW id \in Ids, IsOld(id)', NEW p \in Persistent
               PROVE  O(p, id)' = {Old}
    BY DEF OldWhole, Everywhere, O
  <2>1. IsKept(id) /\ O(p, id) = {Old}
    BY <1>2 DEF IdsKept, OldWhole, Everywhere, IsKept, O
  <2> QED BY <1>1, <1>p, <2>1
<1>5. OneWriter' /\ CheckWorks' /\ WritersKnown'
  BY <1>2, SaverFrame DEF SaverStates, Busy
<1>6. Progress'
  <2> SUFFICES ASSUME NEW u \in Uploads, st'[u] = "saving", NEW p \in Persistent
               PROVE  IF part[u] = Original
                        THEN /\ saver'[u][p] \in {"sentOk", "taken"} => O(p, hash[u])' = {u}
                             /\ saver'[u][p] = "copy" /\ p \in LocalStores => O(p, hash[u])' = {}
                        ELSE O(p, hash[u])' = {u}
    BY DEF Progress, O
  <2>1. st[u] = "saving" /\ SavesFor(u) /\ hash[u] \in Ids
    BY DEF SavesFor, IdsKept, OneWriter
  <2>2. IF part[u] = Original
          THEN /\ saver[u][p] \in {"sentOk", "taken"} => O(p, hash[u]) = {u}
               /\ saver[u][p] = "copy" /\ p \in LocalStores => O(p, hash[u]) = {}
          ELSE O(p, hash[u]) = {u}
    BY <2>1 DEF IdsKept, Progress, O
  <2>3. O(p, hash[u])' # O(p, hash[u]) => u = r /\ p = s /\ part[u] = Original
    BY <1>1, <1>p, <2>1 DEF IdsKept, OneWriter
  <2>4. CASE u = r /\ p = s
    <3>1. saver'[u][p] = x
      BY <2>4 DEF IdsKept, TypeOK
    <3>2. CASE part[u] = Original
      <4>1. <<hash[u], Original>> \in Keys
        BY <2>1 DEF Keys, Parts
      <4>2. O(p, hash[u])' = c
        BY <2>4, <3>2, <4>1 DEF O, key, IdsKept, TypeOK, StoredType, SetObject
      <4> QED BY <2>4, <3>1, <3>2, <4>2, <2>1
    <3>3. CASE part[u] # Original
      BY <2>2, <2>3, <3>3
    <3> QED BY <3>2, <3>3
  <2>5. CASE ~(u = r /\ p = s)
    <3>1. saver'[u][p] = saver[u][p]
      BY <2>5, <1>p, RequestAssumption DEF IdsKept, TypeOK
    <3> QED BY <2>2, <2>3, <2>5, <3>1
  <2> QED BY <2>4, <2>5
<1> QED BY <1>3, <1>4, <1>5, <1>6

(* A step of a saver that writes nothing.                                  *)
LEMMA NoWriteKeeps ==
  ASSUME IdsKept, NEW r \in Requests, NEW s \in Stores, saver[r][s] # "off",
         NEW x \in {"create", "copy", "sentErr", "taken"},
         saver' = [saver EXCEPT ![r][s] = x],
         saver[r][s] \in Busy \/ x \notin Busy,
         x = "copy" => s \notin LocalStores,
         x = "taken" => saver[r][s] = "sentOk",
         UNCHANGED <<stored, genVars, st, hash, part>>
  PROVE  AckedDurable' /\ OneWriter' /\ CheckWorks' /\ Progress' /\ WritersKnown' /\ OldWhole'
<1>1. AckedDurable' /\ OldWhole'
  BY DEF IdsKept, AckedDurable, OldWhole, IsOld, Everywhere
<1>2. OneWriter' /\ CheckWorks' /\ WritersKnown'
  BY SaverFrame DEF SaverStates, Busy, IsOld
<1>3. ASSUME NEW u \in Uploads, NEW p \in Persistent
      PROVE  /\ saver'[u][p] \in {"sentOk", "taken"} => saver[u][p] \in {"sentOk", "taken"}
             /\ saver'[u][p] = "copy" /\ p \in LocalStores => saver[u][p] = "copy"
  BY RequestAssumption DEF IdsKept, TypeOK, Persistent, Stores
<1>4. Progress'
  BY <1>3 DEF IdsKept, Progress
<1> QED BY <1>1, <1>2, <1>4

(* A step of a handler by which no upload starts to save or is answered,   *)
(* and nothing is written.                                                 *)
LEMMA HandlerFrame ==
  ASSUME IdsKept, UNCHANGED <<stored, genVars>>,
         \A u \in Uploads :
           /\ st'[u] \in {"ok", "saving"} => st'[u] = st[u]
           /\ st[u] = "ok" => st'[u] = "ok"
           /\ hash'[u] = hash[u] /\ part'[u] = part[u] /\ saver'[u] = saver[u]
  PROVE  AckedDurable' /\ OneWriter' /\ CheckWorks' /\ Progress' /\ OldWhole'
<1>1. \A u \in Uploads : SavesFor(u)' => SavesFor(u)
  BY DEF SavesFor, Active
<1>2. \A id : IsOld(id)' = IsOld(id)
  BY DEF IsOld
<1>3. \A id : IsKept(id)' => IsKept(id)
  BY <1>2 DEF IsKept, IsAcked
<1>4. \A id, c : Everywhere(id, c)' = Everywhere(id, c)
  BY DEF Everywhere
<1>5. AckedDurable' /\ OldWhole'
  BY <1>2, <1>4 DEF IdsKept, AckedDurable, OldWhole
<1>6. OneWriter'
  BY <1>1, <1>3 DEF IdsKept, OneWriter
<1>7. ~InFlight(cand) => ~InFlight(cand)'
  BY <1>1 DEF InFlight, genVars
<1>8. CheckWorks'
  BY <1>3, <1>7 DEF IdsKept, CheckWorks, genVars
<1>9. Progress'
  BY DEF IdsKept, Progress
<1> QED BY <1>5, <1>6, <1>8, <1>9

LEMMA SaveStepKeeps ==
  ASSUME IdsKept, NEW r \in Requests, NEW s \in Stores, SaveStep(r, s)
  PROVE  IdsKept'
<1> SUFFICES AckedDurable' /\ OneWriter' /\ CheckWorks' /\ Progress' /\ WritersKnown' /\ OldWhole'
  BY SaveStepType DEF IdsKept
<1>1. CASE OpenSrc(r, s)
  <2> DEFINE x == IF s \in LocalStores THEN "create" ELSE "copy"
  <2>1. /\ saver[r][s] = "open" /\ saver' = [saver EXCEPT ![r][s] = x]
        /\ x \in {"create", "copy"} /\ (x = "copy" => s \notin LocalStores)
        /\ UNCHANGED <<stored, genVars, st, hash, part>>
    BY <1>1 DEF OpenSrc, SetSaver, saveRest
  <2> HIDE DEF x
  <2> QED BY <2>1, NoWriteKeeps DEF Busy
<1>2. CASE CreateDst(r, s)
  <2>1. /\ saver[r][s] = "create" /\ saver' = [saver EXCEPT ![r][s] = "copy"]
        /\ SetObject(s, key(r), {}) /\ UNCHANGED <<genVars, st, hash, part>>
    BY <1>2 DEF CreateDst, CreateFile, SetSaver, saveRest
  <2>2. {} # {Old}
    OBVIOUS
  <2> QED BY <2>1, <2>2, WriteKeeps
<1>3. CASE OpenFails(r, s)
  BY <1>3, NoWriteKeeps DEF OpenFails, SetSaver, saveRest, Busy
<1>4. CASE CopyDone(r, s)
  <2> DEFINE c == Written(s, key(r), r)
  <2>1. /\ saver[r][s] = "copy" /\ saver' = [saver EXCEPT ![r][s] = "sentOk"]
        /\ SetObject(s, key(r), c) /\ UNCHANGED <<genVars, st, hash, part>>
    BY <1>4 DEF CopyDone, PutObject, SetSaver, saveRest
  <2>2. c # {Old}
    <3>1. r \in c /\ r # Old
      BY StoreAssumption DEF Written
    <3> QED BY <3>1
  <2>3. ASSUME st[r] = "saving", part[r] = Original, s \in Persistent
        PROVE  c = {r}
    <3>1. r \in Uploads
      BY <2>3, StoreAssumption, RequestAssumption DEF IdsKept, WritersKnown
    <3>2. s \in LocalStores => stored[s][key(r)] = {}
      BY <2>1, <2>3, <3>1 DEF IdsKept, Progress, key
    <3> QED BY <3>2 DEF Written
  <2> HIDE DEF c
  <2> QED BY <2>1, <2>2, <2>3, WriteKeeps
<1>5. CASE CopyFails(r, s)
  <2>1. PICK c \in FailedCopies(s, key(r), r) : SetObject(s, key(r), c)
    BY <1>5 DEF CopyFails, FailPut
  <2>2. /\ saver[r][s] = "copy" /\ saver' = [saver EXCEPT ![r][s] = "sentErr"]
        /\ UNCHANGED <<genVars, st, hash, part>>
    BY <1>5 DEF CopyFails, SetSaver, saveRest
  <2>3. CASE c = stored[s][key(r)]
    <3>1. UNCHANGED stored
      BY <2>1, <2>3 DEF SetObject, IdsKept, TypeOK, StoredType
    <3> QED BY <2>2, <3>1, NoWriteKeeps DEF Busy
  <2>4. CASE c # stored[s][key(r)]
    <3>1. Junk \in c \/ r \in c
      BY <2>4 DEF FailedCopies, Written
    <3>2. c # {Old}
      BY <3>1, StoreAssumption
    <3> QED BY <2>1, <2>2, <3>2, WriteKeeps
  <2> QED BY <2>3, <2>4
<1>6. CASE TakeOk(r, s)
  BY <1>6, NoWriteKeeps DEF TakeOk, SetSaver, saveRest, Busy
<1>7. CASE TakeFailure(r, s)
  <2>1. /\ st[r] = "saving" /\ st' = [st EXCEPT ![r] = "failed"]
        /\ UNCHANGED <<stored, genVars, hash, part, saver>>
    BY <1>7 DEF TakeFailure, Refuse
  <2>2. ASSUME NEW u \in Uploads
        PROVE  /\ st'[u] \in {"ok", "saving"} => st'[u] = st[u]
               /\ st[u] = "ok" => st'[u] = "ok"
               /\ hash'[u] = hash[u] /\ part'[u] = part[u] /\ saver'[u] = saver[u]
    BY <2>1 DEF IdsKept, TypeOK
  <2>3. WritersKnown'
    BY <2>1, RequestAssumption DEF IdsKept, TypeOK, WritersKnown, Active
  <2> QED BY <2>1, <2>2, <2>3, HandlerFrame
<1> QED BY <1>1, <1>2, <1>3, <1>4, <1>5, <1>6, <1>7 DEF SaveStep

(* The generator's steps change nothing but what it knows.                 *)
LEMMA GeneratorFrame ==
  ASSUME IdsKept, UNCHANGED <<stored, reqVars>>, CheckWorks'
  PROVE  AckedDurable' /\ OneWriter' /\ CheckWorks' /\ Progress' /\ WritersKnown' /\ OldWhole'
<1>1. UNCHANGED <<stored, st, hash, part, saver>>
  BY DEF reqVars
<1>2. \A u \in Requests : (Active(u)' = Active(u)) /\ (SavesFor(u)' = SavesFor(u))
  BY <1>1 DEF SavesFor, Active
<1>3. \A id, c : (IsOld(id)' = IsOld(id)) /\ (IsKept(id)' = IsKept(id))
                 /\ (Everywhere(id, c)' = Everywhere(id, c))
  BY <1>1 DEF IsKept, IsOld, IsAcked, Everywhere
<1>4. AckedDurable' /\ OldWhole'
  BY <1>1, <1>3 DEF IdsKept, AckedDurable, OldWhole
<1>5. OneWriter' /\ Progress' /\ WritersKnown'
  BY <1>1, <1>2, <1>3, RequestAssumption DEF IdsKept, OneWriter, Progress, WritersKnown
<1> QED BY <1>4, <1>5

LEMMA DrawKeeps ==
  ASSUME Reliable, IdsKept, NEW id \in Ids, DrawId(id)
  PROVE  IdsKept'
<1>1. UNCHANGED <<stored, reqVars>> /\ gen' = "check" /\ cand' = id /\ ~InFlight(id)
      /\ \A s \in Stores : probe'[s] = "asked"
  BY DEF DrawId, Draw, Reliable
<1>2. ~InFlight(cand)'
  BY <1>1 DEF InFlight, SavesFor, Active, reqVars
<1>3. CheckWorks'
  BY <1>1, <1>2 DEF CheckWorks, Persistent, Stores
<1>4. TypeOK'
  BY StepType DEF IdsKept, Next
<1> QED BY <1>1, <1>3, <1>4, GeneratorFrame DEF IdsKept

(* The check: a kept id is in every persistent store, whose answer is then *)
(* "true", so that no other outcome of the check can come first.           *)
LEMMA GenerateKeeps ==
  ASSUME Reliable, IdsKept, Generate
  PROVE  IdsKept'
<1>1. UNCHANGED <<stored, reqVars, cand>>
  BY DEF Generate, CheckStep, Probe, TakeTrue, TakeErr, TakeFalse, EndCheck
<1>2. (InFlight(cand)' = InFlight(cand)) /\ (IsKept(cand)' = IsKept(cand))
  BY <1>1 DEF InFlight, SavesFor, Active, IsKept, IsOld, IsAcked, reqVars
<1>p. Persistent \subseteq Stores /\ Persistent = LocalStores \cup RemoteStores
      /\ MemoryStores \subseteq Stores
  BY DEF Persistent, Stores
<1>3. PICK s \in Stores : Probe(s) \/ TakeTrue(s) \/ TakeErr(s) \/ TakeFalse(s)
  BY DEF Generate, CheckStep
<1>4. gen = "check" /\ cand \in Ids /\ ~InFlight(cand)
  BY <1>3 DEF Probe, TakeTrue, TakeErr, TakeFalse, IdsKept, CheckWorks
<1>5. /\ \A q \in MemoryStores : probe[q] # "err"
      /\ IsKept(cand) => \A q \in Persistent : probe[q] \in {"asked", "true"}
  BY <1>4 DEF IdsKept, CheckWorks
<1>6. CheckWorks'
  <2>1. CASE Probe(s)
    <3>1. PICK a \in ExistsAnswers(s, <<cand, Original>>) : probe' = [probe EXCEPT ![s] = a]
      BY <2>1 DEF Probe
    <3>2. s \in MemoryStores => a # "err"
      BY StoreAssumption, <1>p DEF ExistsAnswers, Reliable
    <3>3. ASSUME IsKept(cand), s \in Persistent PROVE a = "true"
      <4>1. Holds(s, <<cand, Original>>)
        <5>1. PICK c : c \in {{Old}} \cup {{u} : u \in Uploads} /\ Everywhere(cand, c)
          BY <1>4, <3>3 DEF IdsKept, IsKept, IsAcked, OldWhole, AckedDurable
        <5>2. c # Absent
          BY <5>1, StoreAssumption, RequestAssumption DEF Absent
        <5> QED BY <3>3, <5>1, <5>2 DEF Everywhere, Holds
      <4> QED BY <4>1 DEF ExistsAnswers, Reliable
    <3>4. gen' = "check"
      BY <2>1, <1>4 DEF Probe
    <3>5. \A q \in Stores : probe'[q] = IF q = s THEN a ELSE probe[q]
      BY <3>1 DEF IdsKept, TypeOK, GenType
    <3> QED BY <1>1, <1>2, <1>4, <1>5, <1>p, <3>2, <3>3, <3>4, <3>5 DEF CheckWorks
  <2>2. CASE TakeTrue(s)
    BY <2>2 DEF TakeTrue, EndCheck, CheckWorks
  <2>3. CASE TakeErr(s)
    <3>1. s \in Persistent
      BY <2>3, <1>5, <1>p DEF TakeErr, Stores
    <3>2. ~IsKept(cand)
      BY <2>3, <3>1, <1>5 DEF TakeErr
    <3> QED BY <2>3, <3>2, <1>1, <1>2, <1>4 DEF TakeErr, EndCheck, CheckWorks
  <2>4. CASE TakeFalse(s)
    <3>1. CASE \A q \in Stores \ {s} : probe[q] = "taken"
      <4>1. ~IsKept(cand)
        BY <2>4, <3>1, <1>5, <1>p DEF TakeFalse, Reliable
      <4> QED BY <2>4, <3>1, <4>1, <1>1, <1>2, <1>4 DEF TakeFalse, EndCheck, CheckWorks
    <3>2. CASE ~(\A q \in Stores \ {s} : probe[q] = "taken")
      <4>1. gen' = "check" /\ probe' = [probe EXCEPT ![s] = "taken"] /\ probe[s] = "false"
        BY <2>4, <3>2, <1>4 DEF TakeFalse
      <4>2. \A q \in Stores : probe'[q] = IF q = s THEN "taken" ELSE probe[q]
        BY <4>1 DEF IdsKept, TypeOK, GenType
      <4> QED BY <1>1, <1>2, <1>4, <1>5, <1>p, <4>1, <4>2 DEF CheckWorks
    <3> QED BY <3>1, <3>2
  <2> QED BY <1>3, <2>1, <2>2, <2>3, <2>4
<1>7. TypeOK'
  BY StepType DEF IdsKept, Next
<1> QED BY <1>1, <1>6, <1>7, GeneratorFrame DEF IdsKept

(* An upload that receives an id is its only writer, and the id is free.   *)
LEMMA GetHashKeeps ==
  ASSUME IdsKept, NEW u \in Uploads, NEW id \in Ids, GetHash(u, id)
  PROVE  AckedDurable' /\ OneWriter' /\ CheckWorks' /\ Progress' /\ WritersKnown' /\ OldWhole'
<1>1. /\ gen = "offer" /\ id = cand /\ st[u] = "hashing" /\ gen' = "draw"
      /\ UNCHANGED <<stored, cand>>
  BY DEF GetHash, Offer
<1>2. ASSUME NEW w \in Requests
      PROVE  /\ w # u => /\ st'[w] = st[w] /\ hash'[w] = hash[w] /\ part'[w] = part[w]
                         /\ saver'[w] = saver[w]
             /\ w = u => /\ st'[w] = "saving" /\ hash'[w] = id /\ part'[w] = Original
                         /\ saver'[w] = AllOpen
  BY DEF GetHash, IdsKept, TypeOK
<1>3. Uploads \subseteq Requests /\ Renders \subseteq Requests /\ Uploads \cap Renders = {}
  BY RequestAssumption
<1>4. ~InFlight(id) /\ ~IsKept(id)
  BY <1>1 DEF IdsKept, CheckWorks
<1>5. \A w \in Requests \ {u} : (SavesFor(w)' = SavesFor(w)) /\ (Active(w)' = Active(w))
  BY <1>2 DEF SavesFor, Active
<1>6. \A j, c : (IsOld(j)' = IsOld(j)) /\ (IsKept(j)' => IsKept(j))
                /\ (Everywhere(j, c)' = Everywhere(j, c))
  BY <1>1, <1>2, <1>3 DEF IsKept, IsOld, IsAcked, Everywhere
<1>7. AckedDurable' /\ OldWhole'
  BY <1>2, <1>3, <1>6 DEF IdsKept, AckedDurable, OldWhole
<1>8. OneWriter'
  <2>1. \A w \in Uploads \ {u} : SavesFor(w) => hash[w] # id
    BY <1>4 DEF InFlight
  <2> QED BY <2>1, <1>2, <1>3, <1>4, <1>5, <1>6 DEF IdsKept, OneWriter
<1>9. CheckWorks'
  BY <1>1 DEF CheckWorks
<1>10. Progress'
  BY <1>1, <1>2, <1>3 DEF IdsKept, Progress, AllOpen, Persistent, Stores
<1>11. WritersKnown'
  BY <1>2, <1>3, <1>5 DEF IdsKept, WritersKnown
<1> QED BY <1>7, <1>8, <1>9, <1>10, <1>11

(* When every result was received, every persistent store has the original.*)
LEMMA AllTakenStored ==
  ASSUME IdsKept, NEW u \in Uploads, AllTaken(u)
  PROVE  Everywhere(hash[u], {u}) /\ st[u] = "saving"
BY DEF IdsKept, Progress, AllTaken, Everywhere, Persistent, Stores

LEMMA NextThumbKeeps ==
  ASSUME IdsKept, NEW u \in Uploads, NEW t \in Thumbs, NextThumb(u, t)
  PROVE  AckedDurable' /\ OneWriter' /\ CheckWorks' /\ Progress' /\ WritersKnown' /\ OldWhole'
<1>1. UNCHANGED <<stored, genVars, st, hash>> /\ AllTaken(u)
  BY DEF NextThumb
<1>2. ASSUME NEW w \in Requests
      PROVE  /\ w # u => part'[w] = part[w] /\ saver'[w] = saver[w]
             /\ w = u => part'[w] = t
  BY DEF NextThumb, IdsKept, TypeOK
<1>3. Uploads \subseteq Requests /\ Renders \subseteq Requests /\ Uploads \cap Renders = {}
  BY RequestAssumption
<1>4. Everywhere(hash[u], {u}) /\ st[u] = "saving"
  BY <1>1, AllTakenStored
<1>5. \A w \in Requests \ {u} : Active(w)' = Active(w)
  BY <1>2 DEF Active
<1>6. \A w \in Uploads : SavesFor(w)' => SavesFor(w)
  BY <1>1, <1>3, <1>4, <1>5 DEF SavesFor
<1>7. \A j, c : (IsOld(j)' = IsOld(j)) /\ (IsKept(j)' = IsKept(j))
                /\ (Everywhere(j, c)' = Everywhere(j, c))
  BY <1>1 DEF IsKept, IsOld, IsAcked, Everywhere
<1>8. AckedDurable' /\ OldWhole'
  BY <1>1, <1>7 DEF IdsKept, AckedDurable, OldWhole
<1>9. OneWriter'
  BY <1>1, <1>6, <1>7 DEF IdsKept, OneWriter
<1>10. CheckWorks'
  BY <1>1, <1>6, <1>7 DEF IdsKept, CheckWorks, InFlight, genVars
<1>11. Progress'
  <2>1. t # Original
    BY StoreAssumption
  <2> QED BY <2>1, <1>1, <1>2, <1>3, <1>4 DEF IdsKept, Progress, Everywhere
<1>12. WritersKnown'
  BY <1>1, <1>2, <1>3, <1>4, <1>5 DEF IdsKept, WritersKnown
<1> QED BY <1>8, <1>9, <1>10, <1>11, <1>12

(* The last result of an upload was received: whether the answer is 200 or *)
(* 500, the upload has written its last.                                   *)
LEMMA LastResultKeeps ==
  ASSUME IdsKept, NEW u \in Uploads, AllTaken(u), NEW a \in {"ok", "failed"},
         st' = [st EXCEPT ![u] = a], saver' = [saver EXCEPT ![u] = AllOff],
         UNCHANGED <<stored, genVars, hash, part>>
  PROVE  AckedDurable' /\ OneWriter' /\ CheckWorks' /\ Progress' /\ WritersKnown' /\ OldWhole'
<1>1. ASSUME NEW w \in Requests
      PROVE  /\ w # u => st'[w] = st[w] /\ saver'[w] = saver[w]
             /\ w = u => st'[w] = a /\ saver'[w] = AllOff
  BY DEF IdsKept, TypeOK
<1>2. Uploads \subseteq Requests /\ Renders \subseteq Requests /\ Uploads \cap Renders = {}
  BY RequestAssumption
<1>3. Everywhere(hash[u], {u}) /\ st[u] = "saving" /\ SavesFor(u)
  BY AllTakenStored DEF SavesFor
<1>4. /\ \A w \in Requests \ {u} : Active(w)' = Active(w)
      /\ ~Active(u)'
  BY <1>1, <1>2 DEF Active, AllOff, Busy
<1>5. \A w \in Uploads : SavesFor(w)' => SavesFor(w) /\ w # u
  BY <1>1, <1>2, <1>4 DEF SavesFor
<1>6. \A j, c : (IsOld(j)' = IsOld(j)) /\ (Everywhere(j, c)' = Everywhere(j, c))
  BY DEF IsOld, Everywhere
<1>7. \A j : IsKept(j)' => IsKept(j) \/ j = hash[u]
  BY <1>1, <1>2, <1>6 DEF IsKept, IsAcked
<1>8. AckedDurable' /\ OldWhole'
  BY <1>1, <1>2, <1>3, <1>6 DEF IdsKept, AckedDurable, OldWhole
<1>9. OneWriter'
  <2>1. \A w \in Uploads \ {u} : SavesFor(w) => hash[w] # hash[u]
    BY <1>3 DEF IdsKept, OneWriter
  <2> QED BY <2>1, <1>1, <1>2, <1>3, <1>5, <1>7 DEF IdsKept, OneWriter
<1>10. CheckWorks'
  <2>1. gen \in {"check", "offer"} => cand # hash[u]
    BY <1>3 DEF IdsKept, CheckWorks, InFlight
  <2> QED BY <2>1, <1>5, <1>7 DEF IdsKept, CheckWorks, InFlight, genVars
<1>11. Progress'
  BY <1>1, <1>2 DEF IdsKept, Progress
<1>12. WritersKnown'
  BY <1>1, <1>2, <1>4 DEF IdsKept, WritersKnown
<1> QED BY <1>8, <1>9, <1>10, <1>11, <1>12

LEMMA CrashKeeps ==
  ASSUME IdsKept, Crash
  PROVE  AckedDurable' /\ OneWriter' /\ CheckWorks' /\ Progress' /\ WritersKnown' /\ OldWhole'
<1>1. \A r \in Requests :
        /\ st'[r] \notin {"saving", "processing"}
        /\ (st'[r] = "ok") = (st[r] = "ok")
        /\ st[r] = "ok" => hash'[r] = hash[r]
        /\ saver'[r] = AllOff
  BY DEF Crash, Answered, IdsKept, TypeOK, States
<1>2. \A p \in Persistent : stored'[p] = stored[p]
  BY DEF Crash, LoseMemory, Persistent, Stores
<1>3. gen' = "draw"
  BY DEF Crash, RestartGenerator
<1>4. \A r \in Requests : ~Active(r)' /\ ~SavesFor(r)'
  BY <1>1 DEF Active, SavesFor, AllOff, Busy
<1>5. \A j, c : (IsOld(j)' = IsOld(j)) /\ (Everywhere(j, c)' = Everywhere(j, c))
  BY <1>2 DEF IsOld, Everywhere
<1>6. Uploads \subseteq Requests /\ Renders \subseteq Requests
  BY RequestAssumption
<1>7. AckedDurable' /\ OldWhole'
  BY <1>1, <1>5, <1>6 DEF IdsKept, AckedDurable, OldWhole
<1>8. OneWriter'
  BY <1>1, <1>4, <1>6 DEF IdsKept, OneWriter
<1>9. CheckWorks' /\ Progress' /\ WritersKnown'
  BY <1>1, <1>3, <1>4, <1>6 DEF CheckWorks, Progress, WritersKnown
<1> QED BY <1>7, <1>8, <1>9

LEMMA InitKept == Init => IdsKept
<1> SUFFICES ASSUME Init PROVE IdsKept
  OBVIOUS
<1>1. PICK old \in SUBSET Ids :
        stored = [s \in Stores |-> [k \in Keys |->
                    IF s \in Persistent /\ k[1] \in old /\ k[2] = Original
                      THEN {Old} ELSE Absent]]
  BY DEF Init, StoreInit
<1>2. ASSUME NEW id \in Ids, NEW p \in Persistent
      PROVE  stored[p][<<id, Original>>] = IF id \in old THEN {Old} ELSE Absent
  BY <1>1 DEF Persistent, Stores, Keys, Parts
<1>3. {Old} # Absent
  BY StoreAssumption DEF Absent
<1>4. OldWhole
  BY <1>2, <1>3 DEF OldWhole, IsOld, Everywhere
<1>5. \A r \in Requests : ~Active(r) /\ ~SavesFor(r) /\ st[r] = "idle"
  BY DEF Init, Active, SavesFor, AllOff, Busy
<1>6. AckedDurable /\ OneWriter /\ CheckWorks /\ Progress /\ WritersKnown
  BY <1>5, RequestAssumption
  DEF Init, GenInit, AckedDurable, OneWriter, CheckWorks, Progress, WritersKnown
<1> QED BY <1>4, <1>6, InitType DEF IdsKept

(* A step of an upload that has not reached the stores.                    *)
LEMMA EarlyStepKeeps ==
  ASSUME IdsKept, NEW u \in Uploads, st[u] \in {"idle", "processing"},
         NEW y \in {"processing", "hashing", "failed"}, st' = [st EXCEPT ![u] = y],
         UNCHANGED <<stored, genVars, hash, part, saver>>
  PROVE  AckedDurable' /\ OneWriter' /\ CheckWorks' /\ Progress' /\ WritersKnown' /\ OldWhole'
<1>1. Requests = Uploads \cup Renders /\ Uploads \cap Renders = {}
  BY RequestAssumption
<1>2. \A r \in Requests : st'[r] = IF r = u THEN y ELSE st[r]
  BY DEF IdsKept, TypeOK
<1>3. WritersKnown'
  BY <1>1, <1>2 DEF IdsKept, WritersKnown, Active
<1> QED BY <1>1, <1>2, <1>3, HandlerFrame

(* A step of a render that writes nothing: it keeps to thumbnails.         *)
LEMMA RenderStepKeeps ==
  ASSUME IdsKept, NEW v \in Renders, UNCHANGED <<stored, genVars>>,
         \A r \in Requests \ {v} :
           st'[r] = st[r] /\ hash'[r] = hash[r] /\ part'[r] = part[r] /\ saver'[r] = saver[r],
         st'[v] \in {"processing", "saving"} \/ Active(v)' => part'[v] \in Thumbs
  PROVE  AckedDurable' /\ OneWriter' /\ CheckWorks' /\ Progress' /\ WritersKnown' /\ OldWhole'
<1>1. Requests = Uploads \cup Renders /\ Uploads \cap Renders = {}
  BY RequestAssumption
<1>2. \A r \in Requests \ {v} : Active(r)' = Active(r)
  BY DEF Active
<1>3. WritersKnown'
  BY <1>1, <1>2 DEF IdsKept, WritersKnown
<1> QED BY <1>1, <1>3, HandlerFrame

(* The invariant is inductive, one case per action.                        *)
LEMMA StepKeeps ==
  ASSUME Reliable, IdsKept, [Next]_vars
  PROVE  IdsKept'
<1> DEFINE Rest == /\ AckedDurable' /\ OneWriter' /\ CheckWorks' /\ Progress'
                   /\ WritersKnown' /\ OldWhole'
<1>t. TypeOK /\ TypeOK'
  BY StepType DEF IdsKept
<1>r. Uploads \subseteq Requests /\ Renders \subseteq Requests
  BY RequestAssumption
<1>s. SUFFICES Rest
  BY <1>t DEF IdsKept
<1>1. ASSUME NEW id \in Ids, DrawId(id) PROVE Rest
  BY <1>1, DrawKeeps DEF IdsKept
<1>2. CASE Generate
  BY <1>2, GenerateKeeps DEF IdsKept
<1>3. ASSUME NEW u \in Uploads, NEW T \in SUBSET Thumbs, Arrive(u, T) PROVE Rest
  BY <1>3, EarlyStepKeeps DEF Arrive
<1>4. ASSUME NEW u \in Uploads, Processed(u) PROVE Rest
  BY <1>4, EarlyStepKeeps DEF Processed
<1>5. ASSUME NEW u \in Uploads, NEW id \in Ids, GetHash(u, id) PROVE Rest
  BY <1>5, GetHashKeeps
<1>6. ASSUME NEW u \in Uploads, NEW t \in Thumbs, NextThumb(u, t) PROVE Rest
  BY <1>6, NextThumbKeeps
<1>7. ASSUME NEW u \in Uploads, MetadataFails(u) PROVE Rest
  BY <1>7, LastResultKeeps DEF MetadataFails, AllSaved, Refuse
<1>8. ASSUME NEW v \in Renders, NEW id \in Ids, NEW t \in Thumbs, NEW s \in Stores,
             Fetch(v, id, t, s)
      PROVE  Rest
  <2>1. part'[v] \in Thumbs
    BY <1>8, <1>r, <1>t DEF Fetch, TypeOK
  <2>2. \A r \in Requests \ {v} :
          st'[r] = st[r] /\ hash'[r] = hash[r] /\ part'[r] = part[r] /\ saver'[r] = saver[r]
    BY <1>8, <1>t DEF Fetch, TypeOK
  <2> QED BY <1>8, <2>1, <2>2, RenderStepKeeps DEF Fetch
<1>9. ASSUME NEW v \in Renders, FetchFails(v) PROVE Rest
  <2>1. /\ st'[v] = "failed" /\ UNCHANGED <<hash, part, saver>>
        /\ \A r \in Requests \ {v} : st'[r] = st[r]
    BY <1>9, <1>r, <1>t DEF FetchFails, Refuse, TypeOK
  <2>2. Active(v)' => part'[v] \in Thumbs
    BY <2>1 DEF Active, IdsKept, WritersKnown
  <2> QED BY <1>9, <2>1, <2>2, RenderStepKeeps DEF FetchFails
<1>10. ASSUME NEW v \in Renders, Rendered(v) PROVE Rest
  <2>1. \A r \in Requests \ {v} :
          st'[r] = st[r] /\ hash'[r] = hash[r] /\ part'[r] = part[r] /\ saver'[r] = saver[r]
    BY <1>10, <1>t DEF Rendered, TypeOK
  <2>2. UNCHANGED part /\ part[v] \in Thumbs
    BY <1>10 DEF Rendered, IdsKept, WritersKnown
  <2> QED BY <1>10, <2>1, <2>2, RenderStepKeeps DEF Rendered
<1>11. ASSUME NEW v \in Renders, Served(v) PROVE Rest
  <2>1. \A r \in Requests \ {v} :
          st'[r] = st[r] /\ hash'[r] = hash[r] /\ part'[r] = part[r] /\ saver'[r] = saver[r]
    BY <1>11, <1>t DEF Served, TypeOK
  <2>2. UNCHANGED part /\ part[v] \in Thumbs
    BY <1>11 DEF Served, IdsKept, WritersKnown
  <2> QED BY <1>11, <2>1, <2>2, RenderStepKeeps DEF Served
<1>12. ASSUME NEW v \in Renders, ProcessFails(v) PROVE Rest
  <2>1. \A r \in Requests \ {v} :
          st'[r] = st[r] /\ hash'[r] = hash[r] /\ part'[r] = part[r] /\ saver'[r] = saver[r]
    BY <1>12, <1>t DEF ProcessFails, Refuse, TypeOK
  <2>2. UNCHANGED part /\ part[v] \in Thumbs
    BY <1>12 DEF ProcessFails, Refuse, IdsKept, WritersKnown
  <2> QED BY <1>12, <2>1, <2>2, RenderStepKeeps DEF ProcessFails, Refuse
<1>13. ASSUME NEW v \in Renders, Finish(v) PROVE Rest
  <2>1. \A r \in Requests \ {v} :
          st'[r] = st[r] /\ hash'[r] = hash[r] /\ part'[r] = part[r] /\ saver'[r] = saver[r]
    BY <1>13, <1>t DEF Finish, TypeOK
  <2>2. UNCHANGED part /\ part[v] \in Thumbs
    BY <1>13 DEF Finish, AllSaved, AllTaken, IdsKept, WritersKnown
  <2> QED BY <1>13, <2>1, <2>2, RenderStepKeeps DEF Finish
<1>14. ASSUME NEW u \in Uploads, ProcessFails(u) PROVE Rest
  BY <1>14, EarlyStepKeeps DEF ProcessFails, Refuse
<1>15. ASSUME NEW u \in Uploads, Finish(u) PROVE Rest
  BY <1>15, LastResultKeeps DEF Finish, AllSaved
<1>16. ASSUME NEW r \in Requests, NEW s \in Stores, SaveStep(r, s) PROVE Rest
  BY <1>16, SaveStepKeeps DEF IdsKept
<1>17. CASE Crash
  BY <1>17, CrashKeeps
<1>18. CASE Quiet \/ UNCHANGED vars
  <2>1. UNCHANGED <<stored, genVars, st, hash, part, saver>>
    BY <1>18 DEF Quiet, vars, reqVars
  <2>2. WritersKnown'
    BY <2>1 DEF IdsKept, WritersKnown, Active
  <2> QED BY <2>1, <2>2, HandlerFrame
<1>19. CASE \E r \in Requests : ProcessFails(r) \/ Finish(r)
  BY <1>19, <1>12, <1>13, <1>14, <1>15, RequestAssumption
<1> HIDE DEF Rest
<1> QED
  BY <1>1, <1>2, <1>3, <1>4, <1>5, <1>6, <1>7, <1>8, <1>9, <1>10, <1>11, <1>16, <1>17, <1>18,
     <1>19
  DEF Next

(* The invariant of published images holds in every reachable state.       *)
THEOREM IdsKeptAlways == ASSUME Reliable PROVE Spec => []IdsKept
<1>1. IdsKept /\ [Next]_vars => IdsKept'
  BY StepKeeps
<1> QED BY InitKept, <1>1, PTL DEF Spec

(* An upload answered 200 keeps its original in every persistent store:    *)
(* no concurrent upload, no goroutine left behind by a failed Save and no  *)
(* restart of the server can overwrite or lose it.                         *)
THEOREM AckedDurability == ASSUME Reliable PROVE Spec => []AckedDurable
<1>1. IdsKept => AckedDurable
  BY DEF IdsKept
<1> QED BY IdsKeptAlways, <1>1, PTL
=============================================================================
