---------------------------- MODULE ImageArchive ----------------------------
(***************************************************************************)
(* What the server promises of uploads, without its handlers, stores and   *)
(* goroutines: an archive in which every id has at most one owner, for     *)
(* ever.  An upload is answered once.  When the answer is a success, one   *)
(* id nobody owned becomes the upload's in the same step; when it is a     *)
(* failure, or the process dies first, no id changes hands.                *)
(***************************************************************************)
CONSTANTS
  Images,   (* uploads, each with an image                                 *)
  Ids,      (* ids an image may be published under                         *)
  Old,      (* the owner of the ids a former run of the server published   *)
  NoOne     (* the owner of the others                                     *)

VARIABLES
  outcome,  (* outcome[u]: "pending", "published" or "refused"             *)
  owner     (* owner[id]: the image published under id                     *)

Init ==
  /\ outcome = [u \in Images |-> "pending"]
  /\ owner \in [Ids -> {Old, NoOne}]

Publish(u, id) ==
  /\ outcome[u] = "pending"
  /\ owner[id] = NoOne
  /\ outcome' = [outcome EXCEPT ![u] = "published"]
  /\ owner' = [owner EXCEPT ![id] = u]

(* One upload fails, or the process dies and takes several with it.        *)
Refuse(U) ==
  /\ \A u \in U : outcome[u] = "pending"
  /\ outcome' = [u \in Images |-> IF u \in U THEN "refused" ELSE outcome[u]]
  /\ UNCHANGED owner

Next ==
  \/ \E u \in Images, id \in Ids : Publish(u, id)
  \/ \E U \in SUBSET Images : Refuse(U)

Spec == Init /\ [][Next]_<<outcome, owner>>
=============================================================================
