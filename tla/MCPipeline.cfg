SPECIFICATION Spec
CONSTANTS
  Tasks = {1, 2, 3}
  TargetRate = 2
  TargetLength = 3
  Side = 1
  Batches <- MCBatches
  Scores <- MCScores
  Scenes <- MCScenes
INVARIANTS
  TypeOK BatchingIsTransparent BatchBreaksByShapesOnly ResamplingKeepsOrder
  OverlapIsOfAreas KeptApart LostToBetter
