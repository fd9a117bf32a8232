SPECIFICATION Spec
CONSTANTS
  NumBuckets = 2
  SplitParallelism = 2
  BucketLimit = 5
  String <- MCString
  Length <- MCLength
  Inputs <- MCInputs
  Main = Main
  MapBlockSize = 2
  TargetGroupSize = 4
  BucketOf <- MCBucketOf
  SectionLists <- MCSectionLists
INVARIANTS
  ReferencesReachTheirString
