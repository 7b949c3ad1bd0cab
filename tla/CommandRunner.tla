---------------------------- MODULE CommandRunner ----------------------------
(***************************************************************************)
(* runProcessorCommand: the caller starts a program, a goroutine waits for *)
(* it and sends its error on cmdDone, a channel with one place, and the    *)
(* caller selects between cmdDone and a timer.  When the timer wins it     *)
(* kills the program and waits for cmdDone all the same.                   *)
(*                                                                         *)
(* cmd.Wait first waits for the program and then for the goroutines that   *)
(* copy its output, which end when nobody has the pipes open: a descendant *)
(* that inherited them and outlives the program holds it up.               *)
(***************************************************************************)
CONSTANT Callers

VARIABLES
  call,      (* call[c]: "idle", "select", "reap" or "returned"            *)
  proc,      (* proc[c]: the program: "none", "alive", "zero" or "bad"     *)
  heirs,     (* the callers with descendants that hold the pipes           *)
  waiter,    (* waiter[c]: the goroutine: "off", "wait" or "pipes"         *)
  cmdDone,   (* cmdDone[c]: the errors in the channel, "ok" for nil        *)
  result     (* result[c]: what the last call returned                     *)

vars == <<call, proc, heirs, waiter, cmdDone, result>>

TypeOK ==
  /\ call \in [Callers -> {"idle", "select", "reap", "returned"}]
  /\ proc \in [Callers -> {"none", "alive", "zero", "bad"}]
  /\ heirs \subseteq Callers
  /\ waiter \in [Callers -> {"off", "wait", "pipes"}]
  /\ cmdDone \in [Callers -> {{}, {"ok"}, {"failed"}}]
  /\ result \in [Callers -> {"ok", "failed"}]

Init ==
  /\ call = [c \in Callers |-> "idle"]
  /\ proc = [c \in Callers |-> "none"]
  /\ heirs = {}
  /\ waiter = [c \in Callers |-> "off"]
  /\ cmdDone = [c \in Callers |-> {}]
  /\ result = [c \in Callers |-> "failed"]

-----------------------------------------------------------------------------
(* The caller.                                                             *)

(* cmd.Start, whose error is ignored: without a program, Wait fails too.   *)
Start(c) ==
  /\ call[c] \in {"idle", "returned"}
  /\ call' = [call EXCEPT ![c] = "select"]
  /\ \E p \in {"alive", "none"} : proc' = [proc EXCEPT ![c] = p]
  /\ waiter' = [waiter EXCEPT ![c] = "wait"]
  /\ cmdDone' = [cmdDone EXCEPT ![c] = {}]
  /\ UNCHANGED <<heirs, result>>

CallReturns(c, verdict) ==
  /\ call' = [call EXCEPT ![c] = "returned"]
  /\ result' = [result EXCEPT ![c] = verdict]
  /\ cmdDone' = [cmdDone EXCEPT ![c] = {}]
  /\ UNCHANGED <<proc, heirs, waiter>>

(* Mutant: the error is logged and nil returned.                           *)
Bug_ErrorLogged(c) ==
  /\ call[c] = "select"
  /\ cmdDone[c] # {}
  /\ CallReturns(c, "ok")

(* case err := <-cmdDone                                                   *)
Receive(c) ==
  /\ call[c] = "select"
  /\ \E verdict \in cmdDone[c] : CallReturns(c, verdict)

(* Mutant: the timer goes off and nobody kills the program.                *)
Bug_NoKill(c) ==
  /\ call[c] = "select"
  /\ proc[c] # "none"
  /\ call' = [call EXCEPT ![c] = "reap"]
  /\ UNCHANGED <<proc, heirs, waiter, cmdDone, result>>

(* case <-time.After: killCmd; killing a program that has ended fails and  *)
(* changes nothing.  If no program was started, Wait has sent its error    *)
(* long before the 60 seconds are over.                                    *)
Expire(c) ==
  /\ call[c] = "select"
  /\ proc[c] # "none"
  /\ call' = [call EXCEPT ![c] = "reap"]
  /\ proc' = [proc EXCEPT ![c] = IF @ = "alive" THEN "bad" ELSE @]
  /\ UNCHANGED <<heirs, waiter, cmdDone, result>>

(* Mutant: the call returns without <-cmdDone.                             *)
Bug_NoReap(c) ==
  /\ call[c] = "reap"
  /\ CallReturns(c, "failed")

(* <-cmdDone, then "Command timed out".                                    *)
Reap(c) ==
  /\ call[c] = "reap"
  /\ cmdDone[c] # {}
  /\ CallReturns(c, "failed")

Caller(c) == Receive(c) \/ Expire(c) \/ Reap(c)

-----------------------------------------------------------------------------
(* The goroutine: cmdDone <- cmd.Wait().                                   *)

(* The program has ended; "exec: not started" needs no pipe either.        *)
Waited(c) ==
  /\ waiter[c] = "wait"
  /\ proc[c] # "alive"
  /\ waiter' = [waiter EXCEPT ![c] = "pipes"]
  /\ UNCHANGED <<call, proc, heirs, cmdDone, result>>

SendDone(c) ==
  /\ waiter[c] = "pipes"
  /\ c \notin heirs
  /\ cmdDone' = [cmdDone EXCEPT ![c] = {IF proc[c] = "zero" THEN "ok" ELSE "failed"}]
  /\ waiter' = [waiter EXCEPT ![c] = "off"]
  /\ UNCHANGED <<call, proc, heirs, result>>

Waiter(c) == Waited(c) \/ SendDone(c)

-----------------------------------------------------------------------------
(* The program: it may fork, exit with any status, or hang.                *)

Fork(c) ==
  /\ proc[c] = "alive"
  /\ heirs' = heirs \cup {c}
  /\ UNCHANGED <<call, proc, waiter, cmdDone, result>>

Exit(c) ==
  /\ proc[c] = "alive"
  /\ \E status \in {"zero", "bad"} : proc' = [proc EXCEPT ![c] = status]
  /\ UNCHANGED <<call, heirs, waiter, cmdDone, result>>

HeirsEnd(c) ==
  /\ c \in heirs
  /\ heirs' = heirs \ {c}
  /\ UNCHANGED <<call, proc, waiter, cmdDone, result>>

Next ==
  \E c \in Callers :
    \/ Start(c)
    \/ Caller(c)
    \/ Waiter(c)
    \/ Fork(c) \/ Exit(c) \/ HeirsEnd(c)

Spec == Init /\ [][Next]_vars

(* The timer goes off and goroutines run; a program may hang for ever, but *)
(* descendants it leaves behind are assumed to end.                        *)
FairSpec ==
  Spec /\ \A c \in Callers : WF_vars(Caller(c)) /\ WF_vars(Waiter(c)) /\ WF_vars(HeirsEnd(c))

-----------------------------------------------------------------------------
(* A call that has returned leaves nothing behind: its program is dead,    *)
(* nobody holds its pipes and the goroutine is over, also after a timeout. *)
NothingOutlivesCall ==
  \A c \in Callers : call[c] \in {"idle", "returned"} =>
    proc[c] # "alive" /\ c \notin heirs /\ waiter[c] = "off"

(* A hung program holds a processor up until the timeout, not for ever.    *)
EveryCallReturns == \A c \in Callers : call[c] = "select" ~> call[c] = "returned"

(* The contract the processors rely on.                                    *)
Contract == INSTANCE Command WITH
  run <- [c \in Callers |-> CASE call[c] = "idle" -> "idle"
                              [] call[c] \in {"select", "reap"} -> "running"
                              [] OTHER -> result[c]]

(* A call is "running" while its program may be alive, and answers ok only *)
(* when the program exited by itself with status zero: no race of program, *)
(* timer and goroutine makes the caller read the output of a live or       *)
(* failed command.                                                         *)
ContractSpec == Contract!Spec

-----------------------------------------------------------------------------
(* The invariant behind the two: while a call is on, either its goroutine  *)
(* waits or its one message is in the channel.                             *)
RunnerInv ==
  /\ TypeOK
  /\ NothingOutlivesCall
  /\ \A c \in Callers :
       /\ call[c] \in {"idle", "returned"} => cmdDone[c] = {}
       /\ call[c] \in {"select", "reap"} => (waiter[c] = "off" <=> cmdDone[c] # {})
       /\ waiter[c] = "pipes" \/ cmdDone[c] # {} => proc[c] # "alive"
       /\ cmdDone[c] # {} => c \notin heirs
       /\ cmdDone[c] = {"ok"} => proc[c] = "zero"
       /\ call[c] = "reap" => proc[c] # "alive"
=============================================================================
