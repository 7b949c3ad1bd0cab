------------------------ MODULE CommandRunner_proofs ------------------------
(***************************************************************************)
(* runProcessorCommand keeps its contract, and nothing of a call outlives  *)
(* it, for any number of concurrent callers.                               *)
(***************************************************************************)
EXTENDS CommandRunner, TLAPS

LEMMA InitRunnerInv == Init => RunnerInv
<1> QED
  BY DEF Init, RunnerInv, TypeOK, NothingOutlivesCall

(* The start of a call finds its goroutine and the channel of the last one *)
(* gone; from then on the message is either to come or in the channel.     *)
LEMMA StepKeepsRunnerInv ==
  ASSUME RunnerInv, [Next]_vars
  PROVE  RunnerInv'
<1> USE DEF RunnerInv, TypeOK, NothingOutlivesCall
<1>1. CASE UNCHANGED vars
  BY <1>1 DEF vars
<1>2. ASSUME NEW c \in Callers, Start(c) PROVE RunnerInv'
  BY <1>2 DEF Start
<1>3. ASSUME NEW c \in Callers, Receive(c) PROVE RunnerInv'
  BY <1>3 DEF Receive, CallReturns
<1>4. ASSUME NEW c \in Callers, Expire(c) PROVE RunnerInv'
  BY <1>4 DEF Expire
<1>5. ASSUME NEW c \in Callers, Reap(c) PROVE RunnerInv'
  BY <1>5 DEF Reap, CallReturns
<1>6. ASSUME NEW c \in Callers, Waited(c) PROVE RunnerInv'
  BY <1>6 DEF Waited
<1>7. ASSUME NEW c \in Callers, SendDone(c) PROVE RunnerInv'
  BY <1>7 DEF SendDone
<1>8. ASSUME NEW c \in Callers, Fork(c) PROVE RunnerInv'
  BY <1>8 DEF Fork
<1>9. ASSUME NEW c \in Callers, Exit(c) PROVE RunnerInv'
  BY <1>9 DEF Exit
<1>10. ASSUME NEW c \in Callers, HeirsEnd(c) PROVE RunnerInv'
  BY <1>10 DEF HeirsEnd
<1> QED
  BY <1>1, <1>2, <1>3, <1>4, <1>5, <1>6, <1>7, <1>8, <1>9, <1>10 DEF Next, Caller, Waiter

(* The invariant of the runner holds throughout, for any set of callers:   *)
(* timer, channel and program are always in step.                          *)
THEOREM RunnerInvAlways == Spec => []RunnerInv
<1> QED
  BY InitRunnerInv, StepKeepsRunnerInv, PTL DEF Spec

(* A call that has returned leaves no live program, no holder of its pipes *)
(* and no goroutine, however the program, the timer and the goroutine that *)
(* waits interleave.                                                       *)
THEOREM NothingOutlivesACall == Spec => []NothingOutlivesCall
<1>1. RunnerInv => NothingOutlivesCall
  BY DEF RunnerInv
<1> QED
  BY <1>1, RunnerInvAlways, PTL

-----------------------------------------------------------------------------
(* The refinement.  phase is the value of Command's variable run.          *)

phase == [c \in Callers |-> CASE call[c] = "idle" -> "idle"
                              [] call[c] \in {"select", "reap"} -> "running"
                              [] OTHER -> result[c]]

(* A step of c that leaves call and result alone leaves every phase alone. *)
LEMMA PhaseStays ==
  ASSUME UNCHANGED <<call, result>>
  PROVE  UNCHANGED phase
<1> QED
  BY DEF phase

LEMMA PhaseReturns ==
  ASSUME RunnerInv, NEW c \in Callers, NEW verdict \in {"ok", "failed"},
         call[c] \in {"select", "reap"}, CallReturns(c, verdict)
  PROVE  /\ phase[c] = "running"
         /\ phase' = [phase EXCEPT ![c] = verdict]
<1> QED
  BY DEF RunnerInv, TypeOK, CallReturns, phase

LEMMA StepRefines ==
  ASSUME RunnerInv, [Next]_vars
  PROVE  [Contract!Next]_<<phase, proc>>
<1> USE DEF RunnerInv, TypeOK, NothingOutlivesCall
<1>1. CASE UNCHANGED vars
  BY <1>1, PhaseStays DEF vars
<1>2. ASSUME NEW c \in Callers, Start(c) PROVE Contract!Begin(c)
  <2>1. phase[c] # "running" /\ phase' = [phase EXCEPT ![c] = "running"]
    BY <1>2 DEF Start, phase
  <2> QED
    BY <1>2, <2>1 DEF Start, Contract!Begin, phase
<1>3. ASSUME NEW c \in Callers, Receive(c)
      PROVE  \E verdict \in {"ok", "failed"} : Contract!Return(c, verdict)
  <2>1. PICK verdict \in cmdDone[c] : CallReturns(c, verdict)
    BY <1>3 DEF Receive
  <2>2. verdict \in {"ok", "failed"} /\ proc[c] # "alive" /\ (verdict = "ok" => proc[c] = "zero")
    BY <1>3, <2>1
  <2>3. phase[c] = "running" /\ phase' = [phase EXCEPT ![c] = verdict]
    BY <1>3, <2>1, <2>2, PhaseReturns DEF Receive
  <2> QED
    BY <2>1, <2>2, <2>3 DEF CallReturns, Contract!Return, phase
<1>4. ASSUME NEW c \in Callers, Expire(c)
      PROVE  Contract!Exit(c, "bad") \/ UNCHANGED <<phase, proc>>
  <2>1. UNCHANGED phase
    BY <1>4 DEF Expire, phase
  <2> QED
    BY <1>4, <2>1 DEF Expire, Contract!Exit, phase
<1>5. ASSUME NEW c \in Callers, Reap(c) PROVE Contract!Return(c, "failed")
  <2>1. phase[c] = "running" /\ phase' = [phase EXCEPT ![c] = "failed"]
    BY <1>5, PhaseReturns DEF Reap
  <2> QED
    BY <1>5, <2>1 DEF Reap, CallReturns, Contract!Return, phase
<1>6. ASSUME NEW c \in Callers, Waiter(c) PROVE UNCHANGED <<phase, proc>>
  BY <1>6, PhaseStays DEF Waiter, Waited, SendDone
<1>7. ASSUME NEW c \in Callers, Fork(c) \/ HeirsEnd(c) PROVE UNCHANGED <<phase, proc>>
  BY <1>7, PhaseStays DEF Fork, HeirsEnd
<1>8. ASSUME NEW c \in Callers, Exit(c)
      PROVE  \E status \in {"zero", "bad"} : Contract!Exit(c, status)
  BY <1>8, PhaseStays DEF Exit, Contract!Exit, phase
<1> QED
  BY <1>1, <1>2, <1>3, <1>4, <1>5, <1>6, <1>7, <1>8 DEF Next, Caller, Contract!Next

(* runProcessorCommand implements the contract: it is running while its    *)
(* program may live, and returns nil only after an exit with status zero.  *)
THEOREM KeepsContract == Spec => ContractSpec
<1>1. Init => Contract!Init
  BY DEF Init, Contract!Init
<1>2. RunnerInv /\ [Next]_vars => [Contract!Next]_<<phase, proc>>
  BY StepRefines
<1> QED
  BY <1>1, <1>2, RunnerInvAlways, PTL DEF Spec, ContractSpec, Contract!Spec, phase

-----------------------------------------------------------------------------
(* Nobody blocks.                                                          *)

(* The goroutine finds the place of cmdDone empty when it sends, so it     *)
(* never waits for a caller that timed out (SendDone needs no guard).      *)
DoneHasRoom == \A c \in Callers : waiter[c] = "pipes" => cmdDone[c] = {}

(* A caller that waits has its message, or the goroutine that sends it;    *)
(* and after the timeout the goroutine waits for no program any more, only *)
(* for those who hold its pipes.                                           *)
DoneComes ==
  \A c \in Callers :
    /\ call[c] \in {"select", "reap"} => cmdDone[c] # {} \/ waiter[c] # "off"
    /\ call[c] = "reap" /\ waiter[c] = "wait" => proc[c] # "alive"

(* Neither the goroutine nor its caller waits in vain for the other, for   *)
(* any number of concurrent calls and whoever wins at the timeout.         *)
THEOREM RunnerNeverBlocks == Spec => [](DoneHasRoom /\ DoneComes)
<1>1. RunnerInv => DoneHasRoom /\ DoneComes
  BY DEF RunnerInv, TypeOK, NothingOutlivesCall, DoneHasRoom, DoneComes
<1> QED
  BY <1>1, RunnerInvAlways, PTL
=============================================================================
