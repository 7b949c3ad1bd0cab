------------------------------- MODULE Command -------------------------------
(***************************************************************************)
(* What runProcessorCommand promises the processors that call it: the call *)
(* runs one external program, returns when the program is no longer alive, *)
(* and returns nil only if the program ended by itself with status zero.   *)
(***************************************************************************)
CONSTANT Callers   \* goroutines that run commands, one at a time each

VARIABLES
  run,    (* run[c]: "idle", "running", or how the last call ended         *)
  proc    (* proc[c]: the program of that call; "none" if it never started *)

TypeOK ==
  /\ run \in [Callers -> {"idle", "running", "ok", "failed"}]
  /\ proc \in [Callers -> {"none", "alive", "zero", "bad"}]

Init ==
  /\ run = [c \in Callers |-> "idle"]
  /\ proc = [c \in Callers |-> "none"]

Begin(c) ==
  /\ run[c] # "running"
  /\ run' = [run EXCEPT ![c] = "running"]
  /\ \E p \in {"alive", "none"} : proc' = [proc EXCEPT ![c] = p]

Exit(c, status) ==
  /\ proc[c] = "alive"
  /\ proc' = [proc EXCEPT ![c] = status]
  /\ UNCHANGED run

Return(c, verdict) ==
  /\ run[c] = "running"
  /\ proc[c] # "alive"
  /\ verdict = "ok" => proc[c] = "zero"
  /\ run' = [run EXCEPT ![c] = verdict]
  /\ UNCHANGED proc

Next ==
  \E c \in Callers :
    \/ Begin(c)
    \/ \E status \in {"zero", "bad"} : Exit(c, status)
    \/ \E verdict \in {"ok", "failed"} : Return(c, verdict)

Spec == Init /\ [][Next]_<<run, proc>>
=============================================================================
