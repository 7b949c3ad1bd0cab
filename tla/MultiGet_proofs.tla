-------------------------- MODULE MultiGet_proofs --------------------------
(***************************************************************************)
(* MultiImageStore.Get over any finite number of stores leaks no reader    *)
(* and reports an image as missing only when no store could open it.       *)
(***************************************************************************)
EXTENDS MultiGet, FiniteSetTheorems, TLAPS

(* Nothing is received before the call starts.                             *)
LEMMA InitHolds ==
  ASSUME Init PROVE GetInv
<1>1. Received = {}
  BY DEF Init, Received
<1>2. Cardinality(Received) = 0 /\ Cardinality(Stores) \in Nat
  BY <1>1, FS_EmptySet, FS_CardinalityType, GetAssumption
<1>3. TypeOK
  <2>1. count \in 0..Cardinality(Stores)
    BY <1>2 DEF Init
  <2> QED
    BY <2>1 DEF Init, TypeOK, Pending, Failure, Found
<1> QED
  BY <1>2, <1>3 DEF Init, GetInv, ReaderAt, OneWinner, OpenIsAccounted, Won,
                    Pending, Failure

(* An error received is one store more among those heard of; no other step *)
(* changes that set.                                                       *)
LEMMA CountReceived ==
  ASSUME GetInv, NEW s \in Stores, ReceiveErr(s)
  PROVE  count' = Cardinality(Received')
<1>1. Received' = Received \cup {s} /\ s \notin Received
  BY DEF GetInv, ReaderAt, ReceiveErr, Received
<1>2. IsFiniteSet(Received)
  BY FS_Subset, GetAssumption DEF Received
<1>3. Cardinality(Received') = Cardinality(Received) + 1
  BY <1>1, <1>2, FS_AddElement
<1> QED
  BY <1>3 DEF GetInv, ReceiveErr

LEMMA OthersKeepCount ==
  ASSUME GetInv,
         \/ GiveUp
         \/ \E s \in Stores : Goroutine(s) \/ ReceiveReader(s) \/ CloseReader(s)
  PROVE  count' = Cardinality(Received')
<1>1. Received' = Received /\ count' = count
  <2> USE DEF GetInv, TypeOK, ReaderAt, Received
  <2>1. CASE GiveUp
    BY <2>1 DEF GiveUp
  <2>2. ASSUME NEW s \in Stores, Goroutine(s) PROVE Received' = Received /\ count' = count
    <3>1. CASE Open(s)
      BY <3>1 DEF Open
    <3>2. CASE OpenFails(s)
      BY <3>2 DEF OpenFails
    <3>3. CASE SendErr(s)
      BY <3>3 DEF SendErr
    <3>4. CASE Claim(s)
      BY <3>4 DEF Claim
    <3>5. CASE TooLate(s)
      BY <3>5 DEF TooLate
    <3>6. CASE SendReader(s)
      BY <3>6 DEF SendReader
    <3> QED
      BY <2>2, <3>1, <3>2, <3>3, <3>4, <3>5, <3>6 DEF Goroutine
  <2>3. ASSUME NEW s \in Stores, ReceiveReader(s) PROVE Received' = Received /\ count' = count
    BY <2>3 DEF ReceiveReader
  <2>4. ASSUME NEW s \in Stores, CloseReader(s) PROVE Received' = Received /\ count' = count
    BY <2>4 DEF CloseReader
  <2> QED
    BY <2>1, <2>2, <2>3, <2>4
<1> QED
  BY <1>1 DEF GetInv

(* Every store has been heard of when the caller gives up.                 *)
LEMMA AllReceived ==
  ASSUME GetInv, result = Failure
  PROVE  Received = Stores
<1>1. Received \subseteq Stores /\ Cardinality(Received) = Cardinality(Stores)
  BY DEF GetInv, Received
<1> QED
  BY <1>1, FS_Subset, GetAssumption

(* The parts that follow a reader on its way.                              *)
ReaderInv == ReaderAt /\ OneWinner /\ OpenIsAccounted

LEMMA StepKeepsReaders ==
  ASSUME GetInv, [Next]_vars
  PROVE  TypeOK' /\ ReaderInv'
<1> USE DEF GetInv, TypeOK, ReaderInv, ReaderAt, OneWinner, OpenIsAccounted, Won,
            Pending, Failure, Found
<1>1. Cardinality(Stores) \in Nat
  BY FS_CardinalityType, GetAssumption
<1>2. CASE UNCHANGED vars
  BY <1>2 DEF vars
<1>3. CASE GiveUp
  BY <1>3 DEF GiveUp
<1>4. ASSUME NEW s \in Stores, Goroutine(s) PROVE TypeOK' /\ ReaderInv'
  <2>1. CASE Open(s)
    BY <2>1 DEF Open
  <2>2. CASE OpenFails(s)
    BY <2>2 DEF OpenFails
  <2>3. CASE SendErr(s)
    BY <2>3 DEF SendErr
  <2>4. CASE Claim(s)
    BY <2>4 DEF Claim
  <2>5. CASE TooLate(s)
    BY <2>5 DEF TooLate
  <2>6. CASE SendReader(s)
    BY <2>6 DEF SendReader
  <2> QED
    BY <1>4, <2>1, <2>2, <2>3, <2>4, <2>5, <2>6 DEF Goroutine
<1>5. ASSUME NEW s \in Stores, ReceiveReader(s) PROVE TypeOK' /\ ReaderInv'
  BY <1>5 DEF ReceiveReader, Running
<1>6. ASSUME NEW s \in Stores, ReceiveErr(s) PROVE TypeOK' /\ ReaderInv'
  <2>1. count' \in 0..Cardinality(Stores)
    BY <1>1, <1>6 DEF ReceiveErr, Running
  <2> QED
    BY <1>6, <2>1 DEF ReceiveErr, Running
<1>7. ASSUME NEW s \in Stores, CloseReader(s) PROVE TypeOK' /\ ReaderInv'
  BY <1>7 DEF CloseReader
<1> QED
  BY <1>2, <1>3, <1>4, <1>5, <1>6, <1>7 DEF Next, Caller

LEMMA StepKeepsGetInv ==
  ASSUME GetInv, [Next]_vars
  PROVE  GetInv'
<1>1. TypeOK' /\ ReaderInv'
  BY StepKeepsReaders
<1>2. count' = Cardinality(Received')
  <2>1. CASE UNCHANGED vars
    BY <2>1 DEF GetInv, Received, vars
  <2> QED
    BY <2>1, CountReceived, OthersKeepCount DEF Next, Caller
<1>3. result' = Failure => count' = Cardinality(Stores)
  BY DEF GetInv, Next, vars, Caller, Goroutine, GiveUp, ReceiveReader, ReceiveErr,
         Running, CloseReader, Open, OpenFails, SendErr, Claim, TooLate, SendReader,
         Pending, Failure, Found
<1> QED
  BY <1>1, <1>2, <1>3 DEF GetInv, ReaderInv

(* The invariant of a Get holds throughout, for any finite set of stores: *)
(* no step of a goroutine or of the caller puts a reader out of place.     *)
THEOREM GetInvAlways == Spec => []GetInv
<1> QED
  BY InitHolds, StepKeepsGetInv, PTL DEF Spec

(* The states of a call are well typed: the channels of errors and readers *)
(* are never asked to hold more than their capacity.                       *)
THEOREM GetTypeCorrect == Spec => []TypeOK
<1>1. GetInv => TypeOK
  BY DEF GetInv
<1> QED
  BY <1>1, GetInvAlways, PTL

(* Whatever the number of stores and the order of their answers, an open   *)
(* reader is the caller's, on its way to a caller that waits for it, or    *)
(* about to be closed.                                                     *)
THEOREM NoReaderIsLost == Spec => []NoReaderLost
<1>1. ASSUME GetInv PROVE NoReaderLost
  <2>1. ASSUME NEW s \in Stores, reader[s] = "open", pc[s] # "opened", s \notin given
        PROVE  result = Pending /\ (pc[s] = "claimed" \/ s \in results)
    <3>1. pc[s] = "claimed" \/ s \in results
      BY <1>1, <2>1 DEF GetInv, OpenIsAccounted, Won
    <3>2. result # Failure
      BY <1>1, <2>1, AllReceived DEF Received
    <3>3. result # Found
      BY <1>1, <2>1, <3>1 DEF GetInv, TypeOK, OneWinner, Won
    <3> QED
      BY <1>1, <3>1, <3>2, <3>3 DEF GetInv, TypeOK
  <2> QED
    BY <2>1 DEF NoReaderLost
<1> QED
  BY <1>1, GetInvAlways, PTL

(* The caller gives up only when every store has answered with an error:   *)
(* the count of messages is the number of stores heard of.                 *)
THEOREM MissingMeansNowhere == Spec => []MissingNowhere
<1>1. GetInv => MissingNowhere
  BY AllReceived DEF MissingNowhere, Received
<1> QED
  BY <1>1, GetInvAlways, PTL

-----------------------------------------------------------------------------
(* Nobody blocks.                                                          *)

(* A goroutine that sends finds a place in its channel.                    *)
SendsFit ==
  \A s \in Stores :
    /\ pc[s] = "failed" => Cardinality(errs) < Cardinality(Stores)
    /\ pc[s] = "claimed" => results = {}

(* A caller that receives has a message, or a goroutine is at work.        *)
MessageComes ==
  Running => errs # {} \/ results # {} \/ \E s \in Stores : pc[s] # "ended"

(* The channel of done has been filled by a store that won, and a reader   *)
(* is closed only after that.                                              *)
WinnerKnown ==
  /\ done => \E s \in Stores : Won(s)
  /\ \A s \in Stores : reader[s] = "closed" => done

LEMMA StepWinner ==
  ASSUME GetInv, WinnerKnown, [Next]_vars
  PROVE  WinnerKnown'
<1> USE DEF GetInv, TypeOK, OneWinner, WinnerKnown, Won
<1>1. CASE UNCHANGED vars \/ GiveUp
  BY <1>1 DEF vars, GiveUp
<1>2. ASSUME NEW s \in Stores, Goroutine(s) PROVE WinnerKnown'
  <2>1. CASE Open(s) \/ OpenFails(s) \/ SendErr(s)
    BY <2>1 DEF Open, OpenFails, SendErr
  <2>2. CASE Claim(s)
    BY <2>2 DEF Claim
  <2>3. CASE TooLate(s)
    BY <2>3 DEF TooLate
  <2>4. CASE SendReader(s)
    BY <2>4 DEF SendReader
  <2> QED BY <1>2, <2>1, <2>2, <2>3, <2>4 DEF Goroutine
<1>3. ASSUME NEW s \in Stores, ReceiveReader(s) PROVE WinnerKnown'
  BY <1>3 DEF ReceiveReader
<1>4. ASSUME NEW s \in Stores, ReceiveErr(s) PROVE WinnerKnown'
  BY <1>4 DEF ReceiveErr
<1>5. ASSUME NEW s \in Stores, CloseReader(s) PROVE WinnerKnown'
  BY <1>5 DEF CloseReader
<1> QED BY <1>1, <1>2, <1>3, <1>4, <1>5 DEF Next, Caller

LEMMA RoomForErrors ==
  ASSUME GetInv, NEW s \in Stores, pc[s] = "failed"
  PROVE  Cardinality(errs) < Cardinality(Stores)
<1>1. errs \subseteq Stores \ {s}
  BY DEF GetInv, TypeOK, ReaderAt
<1>2. IsFiniteSet(Stores \ {s}) /\ Cardinality(Stores \ {s}) = Cardinality(Stores) - 1
  BY FS_RemoveElement, GetAssumption
<1>3. Cardinality(errs) <= Cardinality(Stores \ {s})
  BY <1>1, <1>2, FS_Subset
<1>4. Cardinality(Stores) \in Nat /\ Cardinality(errs) \in Nat
  BY <1>1, <1>2, FS_Subset, FS_CardinalityType, GetAssumption
<1> QED BY <1>2, <1>3, <1>4

(* When all goroutines are over and all channels empty, every store has    *)
(* been heard of: the loop of the caller is over too.                      *)
LEMMA AllHeard ==
  ASSUME GetInv, WinnerKnown, result = Pending, errs = {}, results = {},
         \A s \in Stores : pc[s] = "ended"
  PROVE  count = Cardinality(Stores)
<1>1. given = {}
  BY DEF GetInv, TypeOK, Pending, Found
<1>2. \A s \in Stores : ~Won(s)
  BY <1>1 DEF Won
<1>3. \A s \in Stores : reader[s] = "none"
  BY <1>2 DEF WinnerKnown, GetInv, TypeOK, OpenIsAccounted
<1>4. Received = Stores
  BY <1>3 DEF Received
<1> QED BY <1>4 DEF GetInv

(* No goroutine of a Get ever waits for a place in its channel, and the    *)
(* caller never for a message that nobody sends, whatever the number of    *)
(* stores and whenever the caller returns.                                 *)
THEOREM GetNeverBlocks == Spec => [](SendsFit /\ MessageComes)
<1>1. Init => WinnerKnown
  BY DEF Init, WinnerKnown
<1>2. GetInv /\ WinnerKnown /\ [Next]_vars => WinnerKnown'
  BY StepWinner
<1>3. GetInv => SendsFit
  <2>1. ASSUME GetInv, NEW s \in Stores, pc[s] = "claimed" PROVE results = {}
    BY <2>1 DEF GetInv, TypeOK, ReaderAt, OneWinner, Won
  <2> QED BY <2>1, RoomForErrors DEF SendsFit
<1>4. GetInv /\ WinnerKnown => MessageComes
  <2>1. Cardinality(Stores) \in Nat
    BY FS_CardinalityType, GetAssumption
  <2> QED BY <2>1, AllHeard DEF MessageComes, Running
<1> QED BY <1>1, <1>2, <1>3, <1>4, GetInvAlways, PTL DEF Spec
=============================================================================
