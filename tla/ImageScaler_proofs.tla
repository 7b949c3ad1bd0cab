-------------------------- MODULE ImageScaler_proofs --------------------------
(***************************************************************************)
(* Proofs about the sizes of an image on its way through the processors,   *)
(* for every limit, set of sizes and unit.                                 *)
(***************************************************************************)
EXTENDS ImageScaler, TLAPS

Scaling == {"scale", "q90", "q70", "resize"}   \* the places of the scaler

(* What the chain knows of the image at each place.                        *)
SizesKnown ==
  /\ at = "decide" => size = arrived /\ ~grew
  /\ at \in {"orient", "compress", "strip"} /\ ~scale /\ ~grew => size <= MaxFileSize
  /\ at \in Scaling \cup {"refused"} => scale
  /\ scale => arrived > MaxFileSize

(* How many commands have been run at most when a place is reached; every  *)
(* further one in the loop costs ten percent.                              *)
CommandsKnown ==
  /\ at \in {"decide", "orient"} => commands = 0
  /\ at = "compress" => commands <= 1
  /\ at \in {"strip", "scale"} => commands <= 2
  /\ at = "q90" => commands <= 3
  /\ at = "q70" => commands <= 4
  /\ at = "resize" => 10 * commands + percent <= 140
  /\ commands <= 15

(* The two parts of TypeOK.                                                *)
FlagsOK == scale \in BOOLEAN /\ grew \in BOOLEAN /\ unread \in BOOLEAN

NumbersOK ==
  /\ at \in {"decide", "orient", "compress", "strip", "scale", "q90", "q70",
             "resize"} \cup Outcomes
  /\ mime \in {"jpeg", "png", "gif"}
  /\ size \in Sizes
  /\ arrived \in Sizes
  /\ percent \in Int
  /\ commands \in 0..CountUpTo

ScalerInv ==
  /\ FlagsOK
  /\ NumbersOK
  /\ SizesKnown
  /\ CommandsKnown
  /\ PercentSane
  /\ SavedFits

(* The percentages come down from one of four in tens.                     *)
LEMMA FirstPercentSane ==
  ASSUME NEW s \in Int
  PROVE  FirstPercent(s) \in {30, 40, 60, 90}
BY DEF FirstPercent

(* The first size of the image says whether it is to be scaled.            *)
LEMMA InitScaler == ASSUME Init PROVE ScalerInv
<1>1. NumbersOK
  BY DEF Init, NumbersOK, Outcomes, CountUpTo
<1>5. FlagsOK
  BY DEF Init, FlagsOK
<1>2. SizesKnown
  BY DEF Init, SizesKnown, Scaling
<1>3. CommandsKnown
  BY DEF Init, CommandsKnown
<1>4. PercentSane /\ SavedFits
  BY DEF Init, PercentSane, SavedFits
<1> QED BY <1>1, <1>2, <1>3, <1>4, <1>5 DEF ScalerInv

(* A file that is replaced is one more command, whatever its size.         *)
LEMMA ReplaceCounts ==
  ASSUME NumbersOK, CommandsKnown, NEW s \in Sizes, Replace(s)
  PROVE  size' = s /\ commands' = commands + 1
BY DEF NumbersOK, CommandsKnown, Replace, CountUpTo

(* The flags are only set from conditions.                                 *)
LEMMA FlagsKept == ASSUME FlagsOK, [Next]_vars PROVE FlagsOK'
<1>1. CASE Decide
  BY <1>1 DEF Decide, FlagsOK, TooBig
<1>2. CASE Orient \/ Compress \/ Strip
  BY <1>2 DEF Orient, Compress, Strip, Rewrite, FlagsOK
<1>3. CASE Quality90 \/ Quality70
  BY <1>3 DEF Quality90, Quality70, TryQuality, FlagsOK
<1>4. CASE ToJpeg \/ Resize \/ Fail \/ UNCHANGED vars
  BY <1>4 DEF ToJpeg, Resize, Fail, vars, FlagsOK
<1> QED BY <1>1, <1>2, <1>3, <1>4 DEF Next, Step

(* Every step keeps what is known.                                         *)
LEMMA NextScaler ==
  ASSUME ScalerInv, [Next]_vars
  PROVE  ScalerInv'
<1>0. SUFFICES NumbersOK' /\ SizesKnown' /\ CommandsKnown' /\ PercentSane' /\ SavedFits'
  BY FlagsKept DEF ScalerInv
<1> USE ScalerAssumption DEF ScalerInv, FlagsOK, ScalerAssumption
<1>1. CASE Decide
  <2>1. scale' <=> size > MaxFileSize
    BY <1>1 DEF Decide, TooBig
  <2>2. /\ at = "decide" /\ at' = "orient"
        /\ UNCHANGED <<mime, size, arrived, percent, grew, unread, commands>>
    BY <1>1 DEF Decide
  <2> QED
    BY <2>1, <2>2 DEF NumbersOK, SizesKnown, CommandsKnown, PercentSane,
           SavedFits, Outcomes, CountUpTo, Scaling
<1>2. CASE Orient
  <2>1. PICK s \in Sizes : size' = s /\ commands' = commands + 1 /\ (grew' <=> grew \/ s > size)
    BY <1>2, ReplaceCounts DEF Orient, Rewrite
  <2>2. /\ at = "orient" /\ at' = "compress"
        /\ UNCHANGED <<mime, arrived, scale, percent, unread>>
    BY <1>2 DEF Orient
  <2> QED
    BY <2>1, <2>2 DEF NumbersOK, SizesKnown, CommandsKnown, PercentSane,
           SavedFits, Outcomes, CountUpTo, Scaling
<1>3. CASE Compress
  <2>1. \/ UNCHANGED <<size, commands, grew>>
        \/ \E s \in Sizes : size' = s /\ commands' = commands + 1 /\ (grew' <=> grew \/ s > size)
    BY <1>3, ReplaceCounts DEF Compress, Rewrite
  <2>2. /\ at = "compress" /\ at' = "strip"
        /\ UNCHANGED <<mime, arrived, scale, percent, unread>>
    BY <1>3 DEF Compress
  <2> QED
    BY <2>1, <2>2 DEF NumbersOK, SizesKnown, CommandsKnown, PercentSane,
           SavedFits, Outcomes, CountUpTo, Scaling
<1>4. CASE Strip
  <2>1. \/ mime # "jpeg" /\ UNCHANGED <<size, commands, grew>>
        \/ /\ mime = "jpeg"
           /\ \E s \in Sizes :
                size' = s /\ commands' = commands + 1 /\ (grew' <=> grew \/ s > size)
    BY <1>4, ReplaceCounts DEF Strip, Rewrite
  <2>2. at = "strip" /\ UNCHANGED <<mime, arrived, scale, percent, unread>>
    BY <1>4 DEF Strip
  <2>3. \/ ~scale /\ at' = "ok"
        \/ scale /\ mime = "jpeg" /\ at' = "q90"
        \/ scale /\ mime = "png" /\ at' = "scale"
        \/ scale /\ mime = "gif" /\ at' = "refused"
    BY <1>4 DEF Strip, Last, NumbersOK
  <2>4. NumbersOK' /\ PercentSane'
    <3>1. at' \in {"ok", "q90", "scale", "refused"}
      BY <2>3
    <3>2. commands <= 2 /\ commands' \in 0..CountUpTo /\ size' \in Sizes
      BY <2>1, <2>2 DEF NumbersOK, CommandsKnown, CountUpTo
    <3> QED
      BY <2>2, <3>1, <3>2 DEF NumbersOK, PercentSane, Outcomes
  <2>5. CommandsKnown'
    BY <2>1, <2>2, <2>3 DEF NumbersOK, CommandsKnown, CountUpTo
  <2>6. SizesKnown'
    BY <2>2, <2>3 DEF SizesKnown, Scaling
  <2>7. SavedFits'
    <3>1. CASE scale
      BY <2>2, <2>3, <3>1 DEF SavedFits
    <3>2. CASE ~scale
      BY <2>1, <2>2, <3>2 DEF NumbersOK, SizesKnown, SavedFits
    <3> QED BY <3>1, <3>2
  <2> QED BY <2>4, <2>5, <2>6, <2>7
<1>5. CASE ToJpeg
  <2>1. PICK s \in Sizes : size' = s /\ commands' = commands + 1
    BY <1>5, ReplaceCounts DEF ToJpeg
  <2>2. /\ at = "scale" /\ at' = "q90" /\ mime' = "jpeg"
        /\ UNCHANGED <<arrived, scale, percent, grew, unread>>
    BY <1>5 DEF ToJpeg
  <2> QED
    BY <2>1, <2>2 DEF NumbersOK, SizesKnown, CommandsKnown, PercentSane,
           SavedFits, Outcomes, CountUpTo, Scaling
<1>6. CASE Quality90
  <2>1. PICK s \in Sizes : \E t \in Told(s) :
          /\ Replace(s)
          /\ unread' <=> unread \/ t # s
          /\ at' = IF Fits(t) THEN "ok" ELSE "q70"
          /\ percent' = percent
    BY <1>6 DEF Quality90, TryQuality
  <2>2. size' = s /\ commands' = commands + 1
    BY <2>1, ReplaceCounts
  <2>3. PICK told \in Told(s) :
          /\ unread' <=> unread \/ told # s
          /\ at' = IF Fits(told) THEN "ok" ELSE "q70"
          /\ percent' = percent
    BY <2>1
  <2> QED
    BY <1>6, <2>2, <2>3 DEF Quality90, TryQuality, Fits, NumbersOK, SizesKnown, CommandsKnown,
                      PercentSane, SavedFits, Outcomes, CountUpTo, Scaling
<1>7. CASE Quality70
  <2>1. PICK s \in Sizes : \E t \in Told(s) :
          /\ Replace(s)
          /\ unread' <=> unread \/ t # s
          /\ at' = IF Fits(t) THEN "ok" ELSE "resize"
          /\ percent' = FirstPercent(t)
    BY <1>7 DEF Quality70, TryQuality
  <2>2. size' = s /\ commands' = commands + 1
    BY <2>1, ReplaceCounts
  <2>3. PICK told \in Told(s) :
          /\ unread' <=> unread \/ told # s
          /\ at' = IF Fits(told) THEN "ok" ELSE "resize"
          /\ percent' = FirstPercent(told)
    BY <2>1
  <2>4. told \in Int
    BY DEF Told
  <2>5. percent' \in {30, 40, 60, 90}
    BY <2>3, <2>4, FirstPercentSane
  <2>6. percent' \in {p * 10 : p \in 0..9}
    BY <2>5
  <2> QED
    BY <1>7, <2>2, <2>3, <2>5, <2>6 DEF Quality70, TryQuality, Fits, NumbersOK, SizesKnown,
           CommandsKnown, PercentSane, SavedFits, Outcomes, CountUpTo, Scaling
<1>8. CASE Resize
  <2>1. PICK s \in Sizes : /\ size' = s /\ commands' = commands + 1
                           /\ at' = Judge(s)
    BY <1>8, ReplaceCounts DEF Resize
  <2>2. PICK p \in 0..9 : percent = p * 10
    BY <1>8 DEF Resize, PercentSane
  <2>3. CASE at' = "resize"
    <3>1. p >= 1 /\ percent' = (p - 1) * 10
      BY <1>8, <2>1, <2>2, <2>3 DEF Resize, Judge, NextPercent
    <3>2. percent' \in {q * 10 : q \in 0..9}
      BY <3>1, p - 1 \in 0..9
    <3> QED
      BY <1>8, <2>1, <2>2, <2>3, <3>1, <3>2 DEF Resize, NumbersOK, SizesKnown,
             CommandsKnown, PercentSane, SavedFits, Outcomes, CountUpTo, Scaling
  <2>4. CASE at' # "resize"
    <3>1. at' \in {"ok", "refused"} /\ (at' = "ok" => s < MaxFileSize)
      BY <2>1, <2>4 DEF Judge, Fits
    <3> QED
      BY <1>8, <2>1, <2>2, <2>4, <3>1 DEF Resize, NumbersOK, SizesKnown,
             CommandsKnown, PercentSane, SavedFits, Outcomes, CountUpTo, Scaling
  <2> QED BY <2>3, <2>4
<1>9. CASE Fail
  BY <1>9 DEF Fail, NumbersOK, SizesKnown, CommandsKnown, PercentSane, SavedFits,
              Outcomes, CountUpTo, Scaling
<1>10. CASE UNCHANGED vars
  BY <1>10 DEF vars, NumbersOK, SizesKnown, CommandsKnown, PercentSane, SavedFits
<1> QED
  BY <1>1, <1>2, <1>3, <1>4, <1>5, <1>6, <1>7, <1>8, <1>9, <1>10 DEF Next, Step

(* What is known is known all along.                                       *)
LEMMA ScalerAlways == Spec => []ScalerInv
BY InitScaler, NextScaler, PTL DEF Spec

(* An image that is saved after the scaler has looked at every size it was *)
(* told is below the limit, and one that was small all along within it.    *)
THEOREM SavedImagesFit == Spec => []SavedFits
<1>1. ScalerInv => SavedFits
  BY DEF ScalerInv
<1> QED BY <1>1, ScalerAlways, PTL

(* gm is never asked for a negative percentage.                            *)
THEOREM PercentagesAreSane == Spec => []PercentSane
<1>1. ScalerInv => PercentSane
  BY DEF ScalerInv
<1> QED BY <1>1, ScalerAlways, PTL

(* Images within the limit are not refused.                                *)
THEOREM SmallImagesAccepted == Spec => []SmallIsAccepted
<1>1. ScalerInv => SmallIsAccepted
  BY DEF ScalerInv, SizesKnown, SmallIsAccepted
<1> QED BY <1>1, ScalerAlways, PTL

(* No image, whatever sizes its versions have, takes more than 15 commands. *)
THEOREM CommandsAreBounded == Spec => []CommandsBounded
<1>1. ScalerInv => CommandsBounded
  BY DEF ScalerInv, CommandsKnown, CommandsBounded
<1> QED BY <1>1, ScalerAlways, PTL

(* The state of the chain is well typed.                                   *)
THEOREM ScalerTypeCorrect == Spec => []TypeOK
<1>1. ScalerInv => TypeOK
  BY DEF ScalerInv, FlagsOK, NumbersOK, TypeOK
<1> QED BY <1>1, ScalerAlways, PTL

-----------------------------------------------------------------------------
(* The chain comes down.                                                   *)

(* How far the chain is from its end: the places that are left, and in the *)
(* loop the percentage.                                                    *)
Rank ==
  CASE at = "decide"   -> 107
    [] at = "orient"   -> 106
    [] at = "compress" -> 105
    [] at = "strip"    -> 104
    [] at = "scale"    -> 103
    [] at = "q90"      -> 102
    [] at = "q70"      -> 101
    [] at = "resize"   -> percent + 1
    [] OTHER           -> 0

LEMMA RankIsNat ==
  ASSUME ScalerInv
  PROVE  Rank \in 0..107 /\ (Rank = 0 <=> at \in Outcomes)
<1>1. at = "resize" => percent \in 0..90
  BY DEF ScalerInv, PercentSane
<1> QED BY <1>1 DEF Rank, ScalerInv, NumbersOK, Outcomes

LEMMA StepDescends ==
  ASSUME ScalerInv, ScalerInv', Step
  PROVE  Rank' < Rank
<1>1. /\ at = "resize" => percent \in 0..90
      /\ at' = "resize" => percent' \in 0..90
  BY DEF ScalerInv, PercentSane
<1> USE DEF Rank, Outcomes
<1>2. CASE Decide \/ Orient \/ Compress \/ ToJpeg
  BY <1>2 DEF Decide, Orient, Compress, ToJpeg
<1>3. CASE Strip
  BY <1>3 DEF Strip, Last, ScalerInv, NumbersOK
<1>4. CASE Quality90 \/ Quality70
  BY <1>1, <1>4 DEF Quality90, Quality70, TryQuality
<1>5. CASE Resize
  BY <1>1, <1>5 DEF Resize, Judge, NextPercent
<1>6. CASE Fail
  BY <1>1, <1>6 DEF Fail, ScalerInv, NumbersOK
<1> QED BY <1>2, <1>3, <1>4, <1>5, <1>6 DEF Step

(* Whatever sizes the commands write and FileSize tells: every step of the *)
(* chain and of the scaler's loop brings the end closer, and only at the   *)
(* end is nothing left to do.                                              *)
THEOREM ChainDescends ==
  Spec => /\ [](Rank \in 0..107 /\ (Rank = 0 <=> at \in Outcomes))
          /\ [][Rank' < Rank]_vars
<1>1. ScalerInv => Rank \in 0..107 /\ (Rank = 0 <=> at \in Outcomes)
  BY RankIsNat
<1>2. ScalerInv /\ ScalerInv' /\ [Next]_vars => [Rank' < Rank]_vars
  BY StepDescends DEF Next
<1> QED BY <1>1, <1>2, ScalerAlways, PTL DEF Spec
=============================================================================
