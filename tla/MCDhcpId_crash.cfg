SPECIFICATION Spec
CONSTANTS
  Macs = {m1, m2, m3}
  Teams = {t1}
  Times = {s1}
  MaxId = 4
SYMMETRY MacSymmetry
INVARIANTS LiveIdsUnique FileIdsReserved CleanMeansSaved
