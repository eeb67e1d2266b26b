\* An enrolment overlaps a verification.
CONSTANTS
  c1 = c1  c2 = c2  c3 = c3
  Calls = {c1, c2}
  Limit = 1
  MaxSecrets = 2
SYMMETRY Symmetry
SPECIFICATION Spec
INVARIANT EnabledIsConfirmed
