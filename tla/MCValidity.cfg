\* Temporal accessors: every pair of validity fields over four seconds
\* (before, equal and after each other, or corrupt) and every clock reading.
CONSTANTS
  None = None
  CorruptTime = CorruptTime
  MaxTime = 3
SPECIFICATION Spec
INVARIANTS TypeOK ValidityPartition ExpiredStaysExpired
