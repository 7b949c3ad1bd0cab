---------------------------- MODULE HashGenerator ---------------------------
(***************************************************************************)
(* The goroutine of imagestore.HashGenerator: it draws a random id, asks   *)
(* the configured stores whether an original of that id exists, and offers *)
(* the id on an unbuffered channel when the answer is no.                  *)
(*                                                                         *)
(* With several stores the question is MultiImageStore.Exists: a goroutine *)
(* per store asks it, and the generator takes the answers in any order     *)
(* (a select over two buffered channels) until one decides.  With a single *)
(* store the call is direct; the model is the same with one goroutine.     *)
(***************************************************************************)
EXTENDS ImageStore

CONSTANT NoHash    (* no id drawn yet *)

ASSUME NoHashAssumption == NoHash \notin Ids

VARIABLES
  gen,     (* what the goroutine does: "draw", "check" or "offer"          *)
  cand,    (* the id it drew last                                          *)
  probe    (* probe[s]: the question to store s in the current call        *)

genVars == <<gen, cand, probe>>

Answers     == {"true", "false", "err"}
ProbeStates == Answers \cup {"idle", "asked", "taken"}

GenType ==
  /\ gen \in {"draw", "check", "offer"}
  /\ cand \in Ids \cup {NoHash}
  /\ probe \in [Stores -> ProbeStates]

GenInit ==
  /\ gen = "draw"
  /\ cand = NoHash
  /\ probe = [s \in Stores |-> "idle"]

(* Mutant: the id is offered without a check.                              *)
Bug_DrawUnchecked(id) ==
  /\ gen = "draw"
  /\ gen' = "offer"
  /\ cand' = id
  /\ UNCHANGED probe

(* A random id, then one question per store.                               *)
Draw(id) ==
  /\ gen = "draw"
  /\ gen' = "check"
  /\ cand' = id
  /\ probe' = [s \in Stores |-> "asked"]

(* The goroutine of one store gets its answer and puts it in a channel;    *)
(* the channels hold one message per store, so it never blocks.            *)
Probe(s) ==
  /\ gen = "check"
  /\ probe[s] = "asked"
  /\ \E a \in ExistsAnswers(s, <<cand, Original>>) :
       probe' = [probe EXCEPT ![s] = a]
  /\ UNCHANGED <<gen, cand>>

(* The call returns: answers still on their way are never read.            *)
EndCheck(next) ==
  /\ gen' = next
  /\ probe' = [s \in Stores |-> "idle"]
  /\ UNCHANGED cand

(* Mutant: the generator's test of the answer is inverted.                 *)
Bug_TakeTrueOffers(s) ==
  /\ gen = "check"
  /\ probe[s] = "true"
  /\ EndCheck("offer")

(* The first "it exists" decides: the loop draws again.                    *)
TakeTrue(s) ==
  /\ gen = "check"
  /\ probe[s] = "true"
  /\ EndCheck("draw")

(* Mutant: an error counts as "it exists".                                 *)
Bug_TakeErrRedraws(s) ==
  /\ gen = "check"
  /\ probe[s] = "err"
  /\ EndCheck("draw")

(* The first error decides too: Exists returns (false, err), and the       *)
(* generator drops err and offers the id.                                  *)
TakeErr(s) ==
  /\ gen = "check"
  /\ probe[s] = "err"
  /\ EndCheck("offer")

(* Mutant: the first "it does not exist" decides.                          *)
Bug_TakeFalseDecides(s) ==
  /\ gen = "check"
  /\ probe[s] = "false"
  /\ EndCheck("offer")

(* "It does not exist" decides when it is the last answer.                 *)
TakeFalse(s) ==
  /\ gen = "check"
  /\ probe[s] = "false"
  /\ IF \A q \in Stores \ {s} : probe[q] = "taken"
       THEN EndCheck("offer")
       ELSE probe' = [probe EXCEPT ![s] = "taken"] /\ UNCHANGED <<gen, cand>>

CheckStep == \E s \in Stores : Probe(s) \/ TakeTrue(s) \/ TakeErr(s) \/ TakeFalse(s)

(* Get: a receiver takes the offered id, and the loop draws the next one.  *)
Offer(id) ==
  /\ gen = "offer"
  /\ id = cand
  /\ gen' = "draw"
  /\ UNCHANGED <<cand, probe>>

RestartGenerator ==
  /\ gen' = "draw"
  /\ cand' = NoHash
  /\ probe' = [s \in Stores |-> "idle"]
=============================================================================
