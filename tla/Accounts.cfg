\* Three requests at a time to all handlers of one account.
CONSTANTS
  c1 = c1  c2 = c2  c3 = c3
  Calls = {c1, c2, c3}
  Limit = 2
  MaxSecrets = 2
SYMMETRY Symmetry
SPECIFICATION Spec
INVARIANTS
  TypeOK GuessesAreLimited OnlyALostExpireStopsTheClock
  OnlyAnOverlapEnablesUnconfirmed
