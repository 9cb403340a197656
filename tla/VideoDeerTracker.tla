-------------------------- MODULE VideoDeerTracker --------------------------
(***************************************************************************)
(* VideoDeerTracker: points on the contours of what moved in a frame, and  *)
(* what the classifier makes of the pixels around each (window mode) or of *)
(* the SIFT descriptors of key points there (keypoint mode).  A program    *)
(* uses one mode; the debug view of a mode draws its results.              *)
(*                                                                         *)
(* Background subtraction and findContours give any contours of the set    *)
(* Contours.  A result is written as what the classifier was shown for it: *)
(* which number and class it answers, and what thresh makes of them, is    *)
(* left out.                                                               *)
(***************************************************************************)
EXTENDS Integers, Sequences, SequencesExt

CONSTANTS
  cols, rows,                     \* size of a frame
  window_width, window_height,
  CONTOUR_POINT_SPACING,
  Contours,                       \* the lists of contours a frame may have
  MaxFrames                       \* bound: frames processed

ASSUME VideoDeerTrackerAssumption ==
  /\ {cols, rows, window_width, window_height, MaxFrames} \subseteq Nat
  /\ CONTOUR_POINT_SPACING \in Nat \ {0}

VARIABLES
  mode,
  centerPoints,
  kPoints,         \* [pt, size]
  rawResults,      \* thresholdedResults has an entry whenever this one has
  frames           \* frames processed so far

videoVars == <<mode, centerPoints, kPoints, rawResults, frames>>

-----------------------------------------------------------------------------
(* getMotionPoints                                                         *)

(* Mutant: the lower border is compared with the width.                    *)
FarFromBorderNot(pt) ==
  /\ pt.x >= window_width \div 2 /\ pt.x <= cols - window_width \div 2
  /\ pt.y >= window_height \div 2 /\ pt.y <= cols - window_height \div 2

FarFromBorder(pt) ==
  /\ pt.x >= window_width \div 2 /\ pt.x <= cols - window_width \div 2
  /\ pt.y >= window_height \div 2 /\ pt.y <= rows - window_height \div 2

(* Every so many points of a contour, its last ones excepted.              *)
PointsOf(contour) ==
  LET n == Len(contour) \div CONTOUR_POINT_SPACING - 1
      taken == [k \in 1 .. n |-> contour[(k - 1) * CONTOUR_POINT_SPACING + 1]]
  IN  IF Len(contour) > CONTOUR_POINT_SPACING THEN SelectSeq(taken, FarFromBorder) ELSE <<>>

getMotionPoints(contours) ==
  FlattenSeq([k \in DOMAIN contours |-> PointsOf(contours[k])])

-----------------------------------------------------------------------------
(* runAIWindow: data has a node for each pixel of a window and a last one;  *)
(* what is not assigned is whatever the stack holds.                       *)

hHalf == window_height \div 2
wHalf == window_width \div 2

PixelsAround(pt) ==
  FlattenSeq([r \in 1 .. 2 * hHalf |->
    [k \in 1 .. 2 * wHalf |-> [x |-> pt.x - wHalf + k - 1, y |-> pt.y - hHalf + r - 1]]])

(* The nodes the classifier reads: those before index -1.                  *)
dataOf(pt) ==
  LET pixels == PixelsAround(pt)
  IN  [k \in 1 .. window_width * window_height |->
         IF k <= Len(pixels) THEN [index |-> k - 1, value |-> pixels[k]]
         ELSE [index |-> "unassigned", value |-> "unassigned"]]

runAIWindow(centers) == [k \in DOMAIN centers |-> dataOf(centers[k])]

(* runAIKeypoint: two key points for each center; SIFT gives descriptors    *)
(* for those it keeps, and makes the list of key points those.             *)
KeyPointsOf(centers) ==
  FlattenSeq([k \in DOMAIN centers |-> [j \in 1 .. 2 |-> [pt |-> centers[k], size |-> 2 ^ (j + 2)]]])

SIFT(keys) ==
  {[k \in 1 .. Len(keys) |-> IF k \in kept THEN <<keys[k]>> ELSE <<>>] : kept \in SUBSET DOMAIN keys}

-----------------------------------------------------------------------------

VideoInit ==
  /\ mode \in {"window", "keypoint"}
  /\ centerPoints = <<>> /\ kPoints = <<>> /\ rawResults = <<>> /\ frames = 0

processImageWindow(contours) ==
  /\ mode = "window"
  /\ centerPoints' = getMotionPoints(contours)
  /\ rawResults' = runAIWindow(centerPoints')
  /\ UNCHANGED kPoints

processImageKeypoint(contours) ==
  /\ mode = "keypoint"
  /\ centerPoints' = getMotionPoints(contours)
  /\ \E kept \in SIFT(KeyPointsOf(centerPoints')) :
       /\ kPoints' = FlattenSeq(kept)
       /\ rawResults' = [k \in DOMAIN kPoints' |-> <<"descriptor", kPoints'[k]>>]

VideoNext ==
  \E contours \in Contours :
    /\ frames < MaxFrames /\ frames' = frames + 1
    /\ processImageWindow(contours) \/ processImageKeypoint(contours)
    /\ UNCHANGED mode

(* What the two views draw: <<point, its result>>, none where the list of *)
(* results ends earlier.                                                   *)
Drawn(points) ==
  [k \in DOMAIN points |-> <<points[k], IF k \in DOMAIN rawResults THEN rawResults[k] ELSE <<>> >>]

debugViewWindow == Drawn(centerPoints)
debugViewKeyPoint == Drawn(kPoints)

-----------------------------------------------------------------------------

Inside(pt) == pt.x \in 0 .. cols - 1 /\ pt.y \in 0 .. rows - 1

(* The classifier is shown pixels of the frame only, of each window all of  *)
(* them once (windows of even size), and a result is drawn at the point it  *)
(* was computed for, of the latest frame, by the view of the same mode.    *)
WindowsClassified ==
  /\ mode = "window" =>
       /\ \A k \in DOMAIN rawResults : \A n \in DOMAIN rawResults[k] : Inside(rawResults[k][n].value)
       /\ \A k \in DOMAIN rawResults :
            {<<v.value.x, v.value.y>> : v \in ToSet(rawResults[k])} =
            {<<centerPoints[k].x + a, centerPoints[k].y + b>> :
               a \in -wHalf .. wHalf - 1, b \in -hHalf .. hHalf - 1}
       /\ debugViewWindow = [k \in DOMAIN rawResults |-> <<centerPoints[k], rawResults[k]>>]
  /\ mode = "keypoint" =>
       /\ \A k \in DOMAIN kPoints : kPoints[k].pt \in ToSet(centerPoints)
       /\ debugViewKeyPoint = [k \in DOMAIN kPoints |-> <<kPoints[k], <<"descriptor", kPoints[k]>>>>]

(* The autonomous daemon uses keypoint mode and the view of window mode.   *)
(* "Draw AI hits as well": every center that is drawn has a result.        *)
CentersHaveResults == \A k \in DOMAIN debugViewWindow : debugViewWindow[k][2] # <<>>
=============================================================================
