------------------------------ MODULE MCHandlers ------------------------------
(* Requests chosen so that every limit and every kind of ratio is met.      *)
EXTENDS Handlers, TLC

MCDurations == {-2, 0}
MCSymmetry == Permutations(Users)
MCGarbage == {-(MaxInt + 1), 0}
MCDimensions == {<<1, 4>>, <<5, 3>>}

Plain(shape, width, height, nostore) ==
  [shape |-> shape, width |-> width, maxWidth |-> 0,
   height |-> height, maxHeight |-> 0, gravity |-> FALSE,
   cropWidth |-> 0, cropHeight |-> 0, ratio |-> <<>>, nostore |-> nostore]

Custom(width, maxWidth, height, maxHeight, ratio) ==
  [Plain("custom", width, height, TRUE) EXCEPT
     !.maxWidth = maxWidth, !.maxHeight = maxHeight, !.gravity = TRUE,
     !.cropWidth = 9, !.ratio = ratio]

Sides == {-1, 0, 1, MaxSide, MaxSide + 1}

(* The numbers n and -n, n/10, and those that are none.                     *)
Whole(n) == <<n, 1>>
Tenths(n) == <<n, 10>>
Infinite == <<1, 0>>
NaN == <<0, 0>>

(* None, an invalid one; whole quotients and others, either side the        *)
(* greater; decimals that make one; both negative, one negative; no         *)
(* quotient; infinite ones; one that overflows and one that underflows.     *)
Ratios ==
  {<<>>, <<Whole(7)>>,
   <<Whole(2), Whole(1)>>, <<Whole(3), Whole(2)>>, <<Whole(4), Whole(9)>>,
   <<Tenths(27), Tenths(3)>>, <<Whole(1), Tenths(25)>>,
   <<Whole(-1), Whole(-2)>>, <<Whole(3), Whole(-2)>>, <<Whole(-3), Whole(2)>>,
   <<Whole(1), Whole(0)>>, <<Whole(0), Whole(1)>>, <<Whole(0), Whole(0)>>,
   <<Infinite, Whole(2)>>, <<Whole(2), Infinite>>, <<NaN, Whole(1)>>,
   <<Whole(200), Whole(1)>>, <<Whole(-300), Whole(1)>>}

Singles ==
  {Plain(s, w, 0, FALSE) : s \in {"square", "circle"}, w \in Sides}
  \cup {Plain("thumb", w, h, FALSE) : w \in {0, 1, MaxSide + 1}, h \in {0, 2, MaxSide + 1}}
  \cup {Plain("full", 0, 0, b) : b \in BOOLEAN}
  \cup {Custom(w, 0, h, 0, <<>>) : w \in Sides, h \in {0, 3, MaxSide + 1}}
  \cup {Custom(w, 0, h, 0, r) : w \in {-1, 0, 3}, h \in {3, MaxSide + 1}, r \in Ratios}
  \cup {Custom(w, 3, h, 2, <<Whole(4), Whole(9)>>) : w \in {0, MaxSide + 1}, h \in {0, 1}}

Pairs == {<<Plain("square", 1, 0, FALSE), Custom(2, 0, 2, 0, <<Whole(3), Whole(2)>>)>>}

MCRequested == {<<>>} \cup {<<t>> : t \in Singles} \cup Pairs
=============================================================================
