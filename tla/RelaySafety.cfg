\* Three calls over two tokens of one instance: every way of pairing.
CONSTANTS
  s1 = s1  s2 = s2  s3 = s3  t1 = t1  t2 = t2  i1 = i1  i2 = i2
  None = None
  Streams <- ThreeStreams
  Instances = {i1}
  Tokens = {t1, t2}
  MaxFrames = 2
  Window = 1
SYMMETRY Symmetry
CHECK_DEADLOCK FALSE
SPECIFICATION Spec
INVARIANTS
  TypeOK PairsAreExclusive EveryWaiterIsReachable MapNamesOnlyWaiters
  OnlyTheFrameInHandIsLost GaugeCoversLivePairs
PROPERTY ImplementsLink
