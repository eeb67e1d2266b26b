\* Three requests at a time, up to four tokens.
CONSTANTS
  c1 = c1  c2 = c2  c3 = c3
  Calls = {c1, c2, c3}
  MaxTokens = 4
SYMMETRY Symmetry
SPECIFICATION Spec
INVARIANTS TypeOK RotationIsAtomic OnlyRivalsForkAToken
