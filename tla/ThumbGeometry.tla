---------------------------- MODULE ThumbGeometry ----------------------------
(***************************************************************************)
(* What ThumbFile makes of the numbers in a request for a thumbnail: the   *)
(* geometry of the gm command, or a refusal.                               *)
(*                                                                         *)
(* The ratio of a thumbnail is the sequence of the numbers in crop_ratio:  *)
(* <<>> if there is none, <<w, h>> for "w:h"; any other is invalid.        *)
(***************************************************************************)
EXTENDS Integers, Sequences

CONSTANTS
  MaxSide,    (* maxImageSideSize                                          *)
  MaxInt,     (* the greatest int, 2^63 - 1                                *)
  Precision,  (* whole numbers up to it are floating point numbers, and    *)
              (* what ComputeCrop computes is off by at most one part in   *)
              (* Precision: 2^50 leaves room for its roundings             *)
  Garbage     (* what int() may make of a number that is no int, according *)
              (* to the platform                                           *)

ASSUME GeometryAssumption ==
  /\ MaxSide \in Nat \ {0} /\ MaxInt \in Nat /\ Precision \in Nat \ {0}
  /\ Precision + 2 <= MaxInt
  /\ Garbage \subseteq Int

Ints == (-MaxInt - 1)..MaxInt

(* A number ParseFloat may return: a fraction n/d, or with d = 0 an        *)
(* infinity or no number at all.                                           *)
Numbers == (Int \X (Nat \ {0})) \cup {<<1, 0>>, <<-1, 0>>, <<0, 0>>}

Thumb == [shape : {"circle", "thumb", "square", "custom", "full"},
          width : Ints, maxWidth : Ints, height : Ints, maxHeight : Ints,
          gravity : BOOLEAN, cropWidth : Ints, cropHeight : Ints,
          ratio : Seq(Numbers), nostore : BOOLEAN]

Least(a, b) == IF a <= b THEN a ELSE b

(* The widths ComputeWidth may return: it reads the dimensions from the    *)
(* file each time, and 0 is what it makes of an error.  A maximum          *)
(* overrides the width of the request.                                     *)
ComputeWidth(t, dims) ==
  {0, IF t.maxWidth > 0 THEN Least(dims[1], t.maxWidth) ELSE t.width}

ComputeHeight(t, dims) ==
  {0, IF t.maxHeight > 0 THEN Least(dims[2], t.maxHeight) ELSE t.height}

-----------------------------------------------------------------------------
(* Floating point.                                                         *)

One == <<1, 1>>

Magnitude(n) == IF n < 0 THEN -n ELSE n

(* a >= b, which is false if one of them is no number.                     *)
AtLeast(a, b) ==
  /\ a # <<0, 0>> /\ b # <<0, 0>>
  /\ a[1] * b[2] >= b[1] * a[2]
  /\ a[2] = 0 /\ b[2] = 0 => a[1] >= b[1]

(* a / b, with a denominator that is not negative; it is 0 for an infinity *)
(* or no number.                                                           *)
Quotient(a, b) ==
  LET n == a[1] * b[2]
      d == a[2] * b[1]
  IN IF d < 0 THEN <<-n, -d>> ELSE <<n, d>>

RoundedUp(n, d) == -((-n) \div d)

(* int(), of one of some whole floating point numbers.                    *)
ToInt(numbers) ==
  (numbers \cap Ints) \cup (IF numbers \subseteq Ints THEN {} ELSE Garbage)

(* How far a computed n/d may be off, in parts of d * Precision.           *)
Slack(n, d) == Magnitude(n) + d

(* Mutant: the quotient is truncated.                                      *)
Bug_Ceil(side, a, b) ==
  LET q == Quotient(a, b)
  IN IF q[2] = 0 THEN Garbage ELSE ToInt({(side * q[1]) \div q[2]})

(* int(math.Ceil(float64(side) * (a / b))).  Whole quotients of whole      *)
(* numbers are taken to be exact; any other may be off by the slack, which *)
(* may take it over a whole number either way, and a large one is no int.  *)
Ceil(side, a, b) ==
  LET q == Quotient(a, b)
      n == side * q[1]
      d == q[2]
  IN CASE d = 0 -> Garbage
       [] d # 0 /\ n = 0 ->
            (* no number, if the quotient overflows                        *)
            {0} \cup (IF Magnitude(q[1]) > MaxInt * d THEN Garbage ELSE {})
       [] d # 0 /\ n # 0 ->
            IF a[2] = 1 /\ b[2] = 1 /\ q[1] % d = 0 /\ Magnitude(n) <= Precision * d
              THEN {n \div d}
              ELSE ToInt(RoundedUp(n * Precision - Slack(n, d), d * Precision)
                           ..RoundedUp(n * Precision + Slack(n, d), d * Precision))

-----------------------------------------------------------------------------
(* The side of the crop that follows by the ratio a/b from a side of the   *)
(* thumbnail, and the side that is kept.                                   *)
Scaled(sides, a, b) == UNION {Ceil(s, a, b) : s \in sides}

Kept(sides) == Scaled(sides, One, One)

(* The crops ComputeCrop may compute.  It asks for a side twice, and each  *)
(* time the file is read again.                                            *)
ComputeCrop(t, dims) ==
  LET w == t.ratio[1]
      h == t.ratio[2]
  IN IF AtLeast(w, h)
       THEN Scaled(ComputeHeight(t, dims), w, h) \X Kept(ComputeHeight(t, dims))
       ELSE Kept(ComputeWidth(t, dims)) \X Scaled(ComputeWidth(t, dims), h, w)

(* The crops of a custom thumbnail; none if the ratio is invalid.          *)
Crops(t, dims) ==
  CASE t.ratio = <<>>     -> {<<t.cropWidth, t.cropHeight>>}
    [] Len(t.ratio) = 2   -> ComputeCrop(t, dims)
    [] OTHER              -> {}

(* The geometry of a command: "fill" is gm's WxH^, "shrink" WxH>.          *)
Geometry(width, height, how, crop) ==
  [width |-> width, height |-> height, how |-> how, crop |-> crop]

(* processSquare, processCircle.                                           *)
SquareCommands(t) ==
  IF t.width = 0 \/ t.width > MaxSide THEN {}
  ELSE {Geometry(t.width, t.width, "fill", <<t.width, t.width>>)}

(* processThumb.                                                           *)
ThumbCommands(t) ==
  IF t.width = 0 \/ t.width > MaxSide \/ t.height = 0 \/ t.height > MaxSide THEN {}
  ELSE {Geometry(t.width, t.height, "shrink", <<>>)}

(* processCustom refuses a thumbnail neither of whose sides is valid.      *)
Refused(width, height) == width \notin 1..MaxSide /\ height \notin 1..MaxSide

CustomCommands(t, dims) ==
  {Geometry(s[1], s[2], "fill", IF t.gravity THEN c ELSE <<>>) :
     s \in {r \in ComputeWidth(t, dims) \X ComputeHeight(t, dims) : ~Refused(r[1], r[2])},
     c \in Crops(t, dims)}

(* ThumbFile.Process: the commands it may run, none if it refuses.         *)
Commands(t, dims) ==
  CASE t.shape \in {"square", "circle"} -> SquareCommands(t)
    [] t.shape = "thumb"                -> ThumbCommands(t)
    [] t.shape = "custom"               -> CustomCommands(t, dims)
    [] OTHER                            -> {Geometry(0, 0, "keep", <<>>)}

-----------------------------------------------------------------------------
(* The reference: one side of a crop is n/d times the other, rounded up,   *)
(* but for the error of the arithmetic.                                    *)
HasRatio(computed, side, n, d) ==
  Precision * (computed * d - side * n)
    \in (-Slack(side * n, d))..(Precision * d + Slack(side * n, d) - 1)
=============================================================================
