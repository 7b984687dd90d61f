SPECIFICATION FairSpec
CONSTANTS
  u1 = u1
  u2 = u2
  u3 = u3
  Uploads = {u1, u2, u3}
  Anchors = {u2}
INVARIANT TypeOK
INVARIANT UploadingIsTrue
INVARIANT ShownIsTrue
INVARIANT BarTellsOutcome
PROPERTY UploadEnds
