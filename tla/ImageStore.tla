----------------------------- MODULE ImageStore -----------------------------
(***************************************************************************)
(* The storage backends of package imagestore: the in-memory map, the      *)
(* local directory and the remote buckets (S3 and GCS behave alike at this *)
(* level), each holding objects under a key.  A key is an image id with    *)
(* the part of the image it names: the original, or one thumbnail.         *)
(*                                                                         *)
(* The bytes of an object are abstracted to the set of the requests whose  *)
(* bytes they contain: {r} is the complete file of request r, {} a file    *)
(* that was created and not written yet, two members a mixture of writers  *)
(* of the same path, Junk bytes of a write that failed half way and Old    *)
(* an image saved before this model starts.                                *)
(***************************************************************************)
EXTENDS FiniteSets

CONSTANTS
  MemoryStores,   (* configured stores of Type "memory"                    *)
  LocalStores,    (* ... of Type "local"                                   *)
  RemoteStores,   (* ... of Type "s3" and "gcs"                            *)
  FaultyExists,   (* stores whose Exists call may fail for another reason  *)
                  (* than the object's absence (network, permissions)      *)
  Ids,            (* the ids (the "hashes") images are stored under        *)
  Original,       (* the part of an upload's own file ...                  *)
  Thumbs,         (* ... and the names of its thumbnails                   *)
  Requests,       (* HTTP requests that write to the stores                *)
  Old, Junk,      (* the other origins of bytes                            *)
  Nothing         (* marks that there is no object under a key             *)

Stores     == MemoryStores \cup LocalStores \cup RemoteStores
Persistent == LocalStores \cup RemoteStores   \* what outlives the process
Parts      == Thumbs \cup {Original}
Keys       == Ids \X Parts
Contents   == SUBSET (Requests \cup {Old, Junk})
Absent     == {Nothing}

ASSUME StoreAssumption ==
  /\ Stores # {}
  /\ MemoryStores \cap Persistent = {}
  /\ LocalStores \cap RemoteStores = {}
  /\ FaultyExists \subseteq Stores
  /\ Original \notin Thumbs
  /\ Old \notin Requests /\ Junk \notin Requests /\ Old # Junk
  /\ Nothing \notin Requests \cup {Old, Junk}

VARIABLE stored   \* stored[s][k]: what store s holds under key k

StoredType == stored \in [Stores -> [Keys -> Contents \cup {Absent}]]

Holds(s, k) == stored[s][k] # Absent

(* The images an earlier run of the server left: complete in every store   *)
(* that outlives a process, nowhere else.                                  *)
StoreInit ==
  \E old \in SUBSET Ids :
    stored = [s \in Stores |-> [k \in Keys |->
                IF s \in Persistent /\ k[1] \in old /\ k[2] = Original
                  THEN {Old} ELSE Absent]]

(* What Exists may answer: the boolean, or an error.  The memory store     *)
(* never fails.  The local store reports absence as an error and any other *)
(* failure of Stat as existence.  A bucket answers a missing object and a  *)
(* failed request alike, with an error.                                    *)
ExistsAnswers(s, k) ==
  IF Holds(s, k)
    THEN {"true"} \cup
         (IF s \in FaultyExists \cap RemoteStores THEN {"err"} ELSE {})
    ELSE CASE s \in MemoryStores -> {"false"}
           [] s \in LocalStores  ->
                {"err"} \cup (IF s \in FaultyExists THEN {"true"} ELSE {})
           [] OTHER -> {"err"}

SetObject(s, k, c) == stored' = [stored EXCEPT ![s][k] = c]

(* Save creates the local file first: an existing one is truncated, and    *)
(* readers see the empty file.                                             *)
CreateFile(s, k) == SetObject(s, k, {})

(* Mutant: a copy always appends to what is there.                         *)
Bug_WrittenAppends(s, k, w) == stored[s][k] \cup {w}

(* The end of a successful copy by w.  A local file also keeps what others *)
(* wrote since it was last truncated; the map and the buckets replace the  *)
(* object as a whole.                                                      *)
Written(s, k, w) ==
  IF s \in LocalStores /\ Holds(s, k) THEN stored[s][k] \cup {w} ELSE {w}

PutObject(s, k, w) == SetObject(s, k, Written(s, k, w))

(* What a failed copy leaves: bytes of no use in a local file; nothing in  *)
(* a map; in a bucket nothing, or the whole object when only the answer    *)
(* was lost.                                                               *)
FailedCopies(s, k, w) ==
  CASE s \in LocalStores -> {Written(s, k, Junk)}
    [] s \in RemoteStores -> {stored[s][k], {w}}
    [] OTHER -> {stored[s][k]}

FailPut(s, k, w) == \E c \in FailedCopies(s, k, w) : SetObject(s, k, c)

(* The process dies: only the persistent stores keep their objects.        *)
LoseMemory ==
  stored' = [s \in Stores |->
               IF s \in Persistent THEN stored[s] ELSE [k \in Keys |-> Absent]]
=============================================================================
