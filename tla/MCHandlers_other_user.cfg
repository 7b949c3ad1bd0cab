CONSTANTS
  MaxSide = 4
  MaxInt = 110
  Precision = 100
  Garbage <- MCGarbage
  Users = {ann, bob}
  NoUser = nouser
  Times = {0, 1}
  Durations <- MCDurations
  Now = 0
  Requested <- MCRequested
  Dimensions <- MCDimensions
SYMMETRY MCSymmetry
SPECIFICATION Spec
INVARIANT RefusedIsTold
