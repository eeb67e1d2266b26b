\* Three calls with one token under the Go scheduler's fairness.
CONSTANTS
  s1 = s1  s2 = s2  s3 = s3  t1 = t1  t2 = t2  i1 = i1  i2 = i2
  None = None
  Streams <- ThreeStreams
  Instances = {i1}
  Tokens = {t1}
  MaxFrames = 1
  Window = 1
CHECK_DEADLOCK FALSE
SPECIFICATION FairSpec
PROPERTIES
  TwoCallersMeet AllFramesArrive LossIsReported GoneIsReleased
