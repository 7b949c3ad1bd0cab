------------------------------ MODULE MultiGet ------------------------------
(***************************************************************************)
(* One call of MultiImageStore.Get: a goroutine per store opens the object *)
(* there, the first to get a reader claims a one-place channel and hands   *)
(* its reader over, the others close theirs; errors go to a channel with a *)
(* place per store.  The caller takes readers and errors as they come, at  *)
(* most one message per store, and closes the reader it was given.         *)
(***************************************************************************)
EXTENDS Integers, FiniteSets

CONSTANT Stores

ASSUME GetAssumption == IsFiniteSet(Stores) /\ Stores # {}

VARIABLES
  pc,       (* pc[s]: where the goroutine of store s is                    *)
  reader,   (* reader[s]: its reader: "none", "open" or "closed"           *)
  errs,     (* the errors in their channel, named by their stores          *)
  results,  (* the readers in theirs, a channel with one place             *)
  done,     (* has done <- true succeeded?  The channel has one place      *)
  count,    (* messages the caller has received                            *)
  result,   (* what the call returned                                      *)
  given     (* the store whose reader it returned                          *)

vars == <<pc, reader, errs, results, done, count, result, given>>

Pending == "pending"   \* the call has not returned
Failure == "failure"   \* it returned nil and an error
Found   == "found"     \* it returned a reader

TypeOK ==
  /\ pc \in [Stores -> {"opening", "failed", "opened", "claimed", "ended"}]
  /\ reader \in [Stores -> {"none", "open", "closed"}]
  /\ errs \subseteq Stores
  /\ results \subseteq Stores
  /\ done \in BOOLEAN
  /\ count \in 0..Cardinality(Stores)
  /\ result \in {Pending, Failure, Found}
  /\ given \subseteq Stores
  /\ result = Found <=> given # {}

Init ==
  /\ pc = [s \in Stores |-> "opening"]
  /\ reader = [s \in Stores |-> "none"]
  /\ errs = {}
  /\ results = {}
  /\ done = FALSE
  /\ count = 0
  /\ result = Pending
  /\ given = {}

-----------------------------------------------------------------------------
(* The goroutine of store s.                                               *)

(* s.Get(obj) returns a reader ...                                         *)
Open(s) ==
  /\ pc[s] = "opening"
  /\ pc' = [pc EXCEPT ![s] = "opened"]
  /\ reader' = [reader EXCEPT ![s] = "open"]
  /\ UNCHANGED <<errs, results, done, count, result, given>>

(* ... or an error.                                                        *)
OpenFails(s) ==
  /\ pc[s] = "opening"
  /\ pc' = [pc EXCEPT ![s] = "failed"]
  /\ UNCHANGED <<reader, errs, results, done, count, result, given>>

(* Mutant: the error is logged and not sent.                               *)
Bug_ErrDropped(s) ==
  /\ pc[s] = "failed"
  /\ pc' = [pc EXCEPT ![s] = "ended"]
  /\ UNCHANGED <<reader, errs, results, done, count, result, given>>

SendErr(s) ==
  /\ pc[s] = "failed"
  /\ Cardinality(errs) < Cardinality(Stores)
  /\ errs' = errs \cup {s}
  /\ pc' = [pc EXCEPT ![s] = "ended"]
  /\ UNCHANGED <<reader, results, done, count, result, given>>

(* Mutant: every goroutine with a reader sends it.                         *)
Bug_ClaimAlways(s) ==
  /\ pc[s] = "opened"
  /\ pc' = [pc EXCEPT ![s] = "claimed"]
  /\ UNCHANGED <<reader, errs, results, done, count, result, given>>

(* select: done <- true is ready as long as nobody sent ...                *)
Claim(s) ==
  /\ pc[s] = "opened"
  /\ ~done
  /\ done' = TRUE
  /\ pc' = [pc EXCEPT ![s] = "claimed"]
  /\ UNCHANGED <<reader, errs, results, count, result, given>>

(* Mutant: a goroutine that is not the first forgets its reader.           *)
Bug_LateNotClosed(s) ==
  /\ pc[s] = "opened"
  /\ done
  /\ pc' = [pc EXCEPT ![s] = "ended"]
  /\ UNCHANGED <<reader, errs, results, done, count, result, given>>

(* ... and the default closes the reader.                                  *)
TooLate(s) ==
  /\ pc[s] = "opened"
  /\ done
  /\ reader' = [reader EXCEPT ![s] = "closed"]
  /\ pc' = [pc EXCEPT ![s] = "ended"]
  /\ UNCHANGED <<errs, results, done, count, result, given>>

SendReader(s) ==
  /\ pc[s] = "claimed"
  /\ results = {}
  /\ results' = {s}
  /\ pc' = [pc EXCEPT ![s] = "ended"]
  /\ UNCHANGED <<reader, errs, done, count, result, given>>

Goroutine(s) ==
  \/ Open(s)
  \/ OpenFails(s)
  \/ SendErr(s)
  \/ Claim(s)
  \/ TooLate(s)
  \/ SendReader(s)

-----------------------------------------------------------------------------
(* The caller.                                                             *)

Running == result = Pending /\ count < Cardinality(Stores)

(* Mutant: "r, err := ..." in the loop hides the result that is returned.   *)
Bug_ShadowedReader(s) ==
  /\ Running
  /\ s \in results
  /\ results' = results \ {s}
  /\ result' = Found
  /\ UNCHANGED <<pc, reader, errs, done, count, given>>

ReceiveReader(s) ==
  /\ Running
  /\ s \in results
  /\ results' = results \ {s}
  /\ result' = Found
  /\ given' = {s}
  /\ UNCHANGED <<pc, reader, errs, done, count>>

(* Mutant: the first error ends the call, as in Exists and Save.           *)
Bug_FirstErrEnds(s) ==
  /\ Running
  /\ s \in errs
  /\ errs' = errs \ {s}
  /\ count' = count + 1
  /\ result' = Failure
  /\ UNCHANGED <<pc, reader, results, done, given>>

ReceiveErr(s) ==
  /\ Running
  /\ s \in errs
  /\ errs' = errs \ {s}
  /\ count' = count + 1
  /\ UNCHANGED <<pc, reader, results, done, result, given>>

(* The loop is over: return nil and the last error.                        *)
GiveUp ==
  /\ result = Pending
  /\ count = Cardinality(Stores)
  /\ result' = Failure
  /\ UNCHANGED <<pc, reader, errs, results, done, count, given>>

(* The handler's deferred Close of the reader it was given.                *)
CloseReader(s) ==
  /\ s \in given
  /\ reader[s] = "open"
  /\ reader' = [reader EXCEPT ![s] = "closed"]
  /\ UNCHANGED <<pc, errs, results, done, count, result, given>>

Caller == GiveUp \/ \E s \in Stores : ReceiveReader(s) \/ ReceiveErr(s) \/ CloseReader(s)

Next == Caller \/ \E s \in Stores : Goroutine(s)

Spec == Init /\ [][Next]_vars

(* The calls to the stores are assumed to return; the rest is scheduling.  *)
FairSpec == Spec /\ WF_vars(Caller) /\ \A s \in Stores : WF_vars(Goroutine(s))

-----------------------------------------------------------------------------
(* A reader that is open is on its way to the caller or will be closed: no *)
(* interleaving of winners, losers and a caller that has returned leaks    *)
(* one.                                                                    *)
NoReaderLost ==
  \A s \in Stores : reader[s] = "open" =>
    \/ pc[s] = "opened"
    \/ result = Pending /\ (pc[s] = "claimed" \/ s \in results)
    \/ s \in given

(* Get reports the image missing only when every store failed to open it,  *)
(* however late the last one answers (in Exists the first error wins).     *)
MissingNowhere ==
  result = Failure => \A s \in Stores : pc[s] = "ended" /\ reader[s] = "none"

(* The call returns, and no goroutine blocks on a channel for ever.        *)
CallEnds == <>(result # Pending /\ \A s \in Stores : pc[s] = "ended" /\ reader[s] # "open")

-----------------------------------------------------------------------------
(* The invariant behind NoReaderLost and MissingNowhere.                   *)

(* The stores whose error the caller has received.                         *)
Received == {s \in Stores : pc[s] = "ended" /\ reader[s] = "none" /\ s \notin errs}

(* Has s claimed the channel of readers?                                   *)
Won(s) == pc[s] = "claimed" \/ s \in results \/ s \in given

(* Where the goroutine of a store is says what became of its reader.       *)
ReaderAt ==
  \A s \in Stores :
    /\ pc[s] \in {"opening", "failed"} => reader[s] = "none"
    /\ pc[s] \in {"opened", "claimed"} => reader[s] = "open"
    /\ s \in errs => pc[s] = "ended" /\ reader[s] = "none"
    /\ s \in results => pc[s] = "ended" /\ reader[s] = "open"
    /\ s \in given => pc[s] = "ended" /\ reader[s] # "none" /\ s \notin results

(* One store at most has claimed it, and none before done <- true.         *)
OneWinner ==
  /\ \A s \in Stores : Won(s) => done
  /\ \A s, q \in Stores : Won(s) /\ Won(q) => s = q

(* Nobody is forgotten: an open reader belongs to a store that has not yet *)
(* asked for the channel or that has won it.                               *)
OpenIsAccounted ==
  \A s \in Stores : reader[s] = "open" => pc[s] = "opened" \/ Won(s)

GetInv ==
  /\ TypeOK
  /\ ReaderAt
  /\ OneWinner
  /\ OpenIsAccounted
  /\ count = Cardinality(Received)
  /\ result = Failure => count = Cardinality(Stores)
=============================================================================
