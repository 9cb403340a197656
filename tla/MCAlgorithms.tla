---------------------------- MODULE MCAlgorithms ----------------------------
(* The sequential algorithms, each by itself on its own small inputs: one   *)
(* of them is chosen in the initial state and runs, the others stay as     *)
(* they began.                                                             *)
EXTENDS MCCommand, ImageDeerTracker, VideoDeerTracker, Solver, Svm, Autofocus, Encodings, Conversions

VARIABLE algorithm

algorithmVars == <<algorithm, line, trackerVars, videoVars, solverVars, svmVars, focusVars, text, conversionVars>>

-----------------------------------------------------------------------------
(* Inputs.                                                                 *)

(* Windows of up to four by three pixels, with and without a remainder.    *)
SmallDimensions ==
  {d \in [iw : 1 .. 5, ih : 1 .. 4, ww : 1 .. 4, wh : 1 .. 3, step : 1 .. 2] :
     d.ww <= d.iw /\ d.wh <= d.ih}

(* Images of the right size, or larger in one direction or both.           *)
RightOrLarger == {<<0, 0>>, <<1, 0>>, <<0, 1>>, <<1, 1>>}

(* Contours on a frame of 6 x 4 of which every second point is taken, the   *)
(* first of them anywhere; one that is too short; two in one frame.        *)
Pt(a, b) == [x |-> a, y |-> b]
LongContours ==
  {<<Pt(a, b), Pt(0, 0), q, Pt(1, 1), Pt(3, 2), Pt(3, 1)>> :
     a \in 0 .. 5, b \in 0 .. 3, q \in {Pt(2, 2), Pt(1, 3)}}
ShortContour == <<Pt(2, 2), Pt(2, 2), Pt(3, 3)>>
Pairs ==
  {<<Pt(a, 2), Pt(0, 0), Pt(3, 2), Pt(1, 1)>> : a \in {2, 4}}
SmallContours ==
  {<<c>> : c \in LongContours} \cup {<<ShortContour, c>> : c \in LongContours} \cup Pairs \X Pairs

(* A kernel on which shrinking goes wrong, so that the solver has to come   *)
(* back to what it had put aside.                                          *)
Products ==
  << << 5,  0, -4, -2, -2>>,
     << 0,  5, -3, -4,  6>>,
     <<-4, -3,  5,  4, -2>>,
     <<-2, -4,  4,  4, -4>>,
     <<-2,  6, -2, -4,  8>> >>
SmallKernel == [a \in 0 .. 4 |-> [b \in 0 .. 4 |-> Products[a + 1][b + 1]]]

FewData == [c_svc |-> 5, nu_svc |-> 5, one_class |-> 5, epsilon_svr |-> 3, nu_svr |-> 3]
FewTargets == [a \in 0 .. 4 |-> <<3, -2, 1, 0, 2>>[a + 1]]

ThreeLabels == UNION {[1 .. n -> {-1, 1, 2}] : n \in 1 .. 4}
TwoLabels == {q \in UNION {[1 .. n -> {1, 2}] : n \in 1 .. 5} : q[1] = 1}

(* Any part of the indices 1 .. 3, with values of either sign.             *)
SparseVectors ==
  {[k \in 1 .. Cardinality(I) |->
      LET n == SetToSortSeq(I, <)[k] IN [index |-> n, value |-> v[n]]] :
     I \in SUBSET (1 .. 3), v \in [1 .. 3 -> {-2, 1, 3}]}

(* What getFrameSharpnessValue makes of a picture, or cannot.               *)
Sharpnesses == {-1, 400, 1000}

(* A control character, the one that begins an escape, one above 127.    *)
FewCharacters == {1, 37, 172}

(* Two pixels of any of some levels; four by two pixels, all different, with *)
(* and without a gap between the lines.                                     *)
Yuyv(width, height, stride, bytes) == [width |-> width, height |-> height, stride |-> stride, data |-> bytes]
Levels == {0, 16, 128, 200, 255}
Black == Yuyv(2, 1, 4, [n \in 0 .. 3 |-> 0])
SmallFrames ==
  {Yuyv(2, 1, 4, bytes) : bytes \in [0 .. 3 -> Levels]}
    \cup {Yuyv(4, 2, stride, [n \in 0 .. 2 * stride - 1 |-> 10 * n]) : stride \in {8, 10}}

-----------------------------------------------------------------------------

(* What is not chosen is idle at one of its initial states.                *)
TrackerIdle == D = [iw |-> 1, ih |-> 1, ww |-> 1, wh |-> 1, step |-> 1]
VideoIdle == mode = "window"
SolverIdle == problem = "c_svc" /\ label = [k \in Index |-> 1]
SvmIdle == stage = "train" /\ kind = "classes" /\ y = <<1>>

ConversionsIdle == frame = Black /\ compress = "copy"

AlgorithmsInit ==
  /\ algorithm \in {"parse", "boxes", "motion", "solve", "classify", "focus", "decode", "convert"}
  /\ IF algorithm = "boxes" THEN TRUE ELSE TrackerIdle
  /\ IF algorithm = "motion" THEN TRUE ELSE VideoIdle
  /\ IF algorithm = "solve" THEN TRUE ELSE SolverIdle
  /\ IF algorithm = "classify" THEN TRUE ELSE SvmIdle
  /\ IF algorithm = "convert" THEN TRUE ELSE ConversionsIdle
  /\ Init /\ TrackerInit /\ VideoInit /\ SolverInit /\ SvmInit /\ AutofocusInit /\ EncodingsInit /\ ConversionsInit
  /\ label[0] = 1
  /\ compress = "copy" => frame = Black

(* All that the algorithms other than algorithm a change.                   *)
Others(a) ==
  /\ a # "parse" => UNCHANGED line
  /\ a # "boxes" => UNCHANGED trackerVars
  /\ a # "motion" => UNCHANGED videoVars
  /\ a # "solve" => UNCHANGED solverVars
  /\ a # "classify" => UNCHANGED svmVars
  /\ a # "focus" => UNCHANGED focusVars
  /\ a # "decode" => UNCHANGED text
  /\ a # "convert" => UNCHANGED conversionVars

AlgorithmsNext ==
  /\ UNCHANGED algorithm
  /\ Others(algorithm)
  /\ \/ algorithm = "parse" /\ Next
     \/ algorithm = "boxes" /\ TrackerNext
     \/ algorithm = "motion" /\ VideoNext
     \/ algorithm = "solve" /\ SolverNext
     \/ algorithm = "classify" /\ SvmNext
     \/ algorithm = "focus" /\ AutofocusNext
     \/ algorithm = "decode" /\ EncodingsNext
     \/ algorithm = "convert" /\ ConversionsNext

AlgorithmsSpec == AlgorithmsInit /\ [][AlgorithmsNext]_algorithmVars

-----------------------------------------------------------------------------

(* Every line in the protocol's form is a documented command with its        *)
(* value, and one listener answers it; and output_http reads what browsers  *)
(* have encoded.                                                           *)
TextUnderstood == LineIsDocumented /\ LineAnsweredByOne /\ DecodedAsEncoded

(* What is made of a camera's picture - the images and JPEGs it is converted  *)
(* to, the windows the trackers show the classifier - is what the picture   *)
(* has at that place, of this picture and not of one before.                *)
ShownAsTaken == PicturesConverted /\ BoxesFilled /\ WindowsClassified
=============================================================================
