\* Two rotations of one refresh token.
CONSTANTS
  c1 = c1  c2 = c2  c3 = c3
  Calls = {c1, c2}
  MaxTokens = 3
SYMMETRY Symmetry
SPECIFICATION Spec
INVARIANT RefreshTokensAreSingleUse
