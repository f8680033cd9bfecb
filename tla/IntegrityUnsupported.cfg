\* Two items of evidence, one assessment of a claim of each kind.
SPECIFICATION IntegritySpec
CONSTANTS
  Keys = {key}
  NoKey = NoKey
  Sources = {s1, s2}
  Claims <- Stated
  MaxEvidence = 2
  MaxAssessments = 1
INVARIANTS UnsupportedIsTold
CHECK_DEADLOCK FALSE
