SPECIFICATION Spec
CONSTANTS
  Circle = 3
  ForceNow = 7
  MaxSkips = 6
INVARIANTS TypeOK  BoundedGap
PROPERTY ForcedRunHonoured
