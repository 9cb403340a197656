SPECIFICATION AlgorithmsSpec
CONSTANTS
  Words <- Names
  MaxWords = 4
  Dimensions <- SmallDimensions
  Sizes <- RightOrLarger
  MaxImages = 2
  cols = 6
  rows = 4
  window_width = 2
  window_height = 4
  CONTOUR_POINT_SPACING = 2
  Contours <- SmallContours
  MaxFrames = 2
  Data <- FewData
  Target <- FewTargets
  Tube = 1
  K <- SmallKernel
  Cp = 1
  Cn = 2
  eps = 1
  size = 0
  MaxStep = 1
  max_iter = 18
  TrainSets <- ThreeLabels
  FoldSets <- TwoLabels
  MaxFold = 4
  Vectors <- SparseVectors
  farthest = 255
  step_width = 100
  delta = 500
  start_sv = 100
  start_focus = 100
  Sharpness <- Sharpnesses
  MaxLooks = 8
  Characters <- FewCharacters
  MaxText = 4
  Frames <- SmallFrames
  Emitted = {1, 2}
  OUTPUT_BUF_SIZE = 2
  MaxJpegs = 2
  Lengths = {1, 2}
  MaxSegments = 4
  MaxTableOffset = 2
INVARIANTS
  TextUnderstood
  ShownAsTaken
  BookkeepingTrue
  SolutionOptimal
  PredictUsesTraining
  FoldsHoldOut
  FocusIsBest
CHECK_DEADLOCK FALSE
