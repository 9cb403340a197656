-------------------------- MODULE ImageDeerTracker --------------------------
(***************************************************************************)
(* ImageDeerTracker::processImage and ArrayStack: every pixel of an image  *)
(* is pushed on the stack of each window ("box") that it lies in, a window *)
(* being iw x ih of the image at every multiple of step.  The boxes a      *)
(* pixel lies in are computed from the pixel; the stacks are made once and *)
(* filled again for each image.                                            *)
(*                                                                         *)
(* A pixel is <<image, row, column>>; the classifier's answer on the nodes *)
(* of a box is left out.                                                   *)
(***************************************************************************)
EXTENDS Integers, Sequences, SequencesExt

CONSTANTS
  Dimensions,      \* records [iw, ih, ww, wh, step] a tracker is made with
  Sizes,           \* by how much an image is larger, <<rows, columns>>
  MaxImages        \* bound: images processed

ASSUME ImageDeerTrackerAssumption ==
  /\ \A d \in Dimensions : d \in [iw : Nat, ih : Nat, ww : Nat, wh : Nat, step : Nat \ {0}]
  /\ Sizes \subseteq Int \X Int
  /\ MaxImages \in Nat

VARIABLES
  D,               \* the dimensions of the tracker
  imgChunks,       \* box -> [stack, cursor]
  images           \* images processed so far

trackerVars == <<D, imgChunks, images>>

numHoriz == (D.iw - D.ww) \div D.step + 1
numVert == (D.ih - D.wh) \div D.step + 1
numWin == numHoriz * numVert
hBoxesPerDiv == D.ww \div D.step
vBoxesPerDiv == D.wh \div D.step

capacity == D.ww * D.wh + 1

-----------------------------------------------------------------------------
(* ArrayStack: cursor entries are on the stack, what lies behind them is    *)
(* what was written there before.                                          *)

push(A, data) ==
  [stack |-> IF A.cursor < Len(A.stack) THEN [A.stack EXCEPT ![A.cursor + 1] = data]
             ELSE Append(A.stack, data),
   cursor |-> A.cursor + 1]

reset(A) == [A EXCEPT !.cursor = 0]

Pushed(A, value) == push(A, [index |-> A.cursor + 1, value |-> value])

(* What svm_predict reads: the nodes up to the first with index -1.        *)
Read(A) ==
  LET n == SelectInSeq(A.stack, LAMBDA node : node.index = -1)
  IN  SubSeq(A.stack, 1, n - 1)

-----------------------------------------------------------------------------

AtLeast0(n) == IF n < 0 THEN 0 ELSE n

(* Mutant: the windows that would begin left of the image are counted.     *)
SpanAll(cell, num, perDiv) ==
  LET exclude == AtLeast0(cell - num + 1)
  IN  [start |-> cell - exclude, count |-> perDiv - exclude]

(* Along one axis, for a pixel in the given cell of length step: the last   *)
(* window it lies in and in how many it does, that one and those before.   *)
Span(cell, num, perDiv) ==
  LET exclude == AtLeast0(cell - num + 1)
      lowExclude == AtLeast0(perDiv - cell - 1)
  IN  [start |-> cell - exclude, count |-> perDiv - exclude - lowExclude]

(* The boxes of a pixel, by number, in the order in which they get it.     *)
Boxes(row, col) ==
  LET h == Span(col \div D.step, numHoriz, hBoxesPerDiv)
      v == Span(row \div D.step, numVert, vBoxesPerDiv)
      startingBoxNo == h.start + v.start * numHoriz
      InRow(n) == [k \in 1 .. AtLeast0(h.count) |-> startingBoxNo - n * numHoriz - (k - 1)]
  IN  FlattenSeq([k \in 1 .. AtLeast0(v.count) |-> InRow(v.count - k)])

(* Img.at of an image with so many rows and columns, unchecked.            *)
PixelAt(rows, cols, row, col) ==
  LET n == row * cols + col
  IN  IF n < rows * cols THEN <<n \div cols, n % cols>> ELSE <<"outside">>

Marshalled(chunks, image, rows, cols) ==
  LET Pixel(c, q) ==
        LET row == (q - 1) \div D.iw
            col == (q - 1) % D.iw
        IN  FoldLeft(LAMBDA e, b : [e EXCEPT ![b] = Pushed(@, <<image>> \o PixelAt(rows, cols, row, col))],
                     c, Boxes(row, col))
  IN  FoldLeft(Pixel, chunks, [q \in 1 .. D.iw * D.ih |-> q])

footer == [index |-> -1, value |-> "none"]

TrackerInit ==
  /\ D \in Dimensions
  /\ imgChunks = [b \in 0 .. numWin - 1 |-> [stack |-> <<>>, cursor |-> 0]]
  /\ images = 0

(* An image is refused when both of its dimensions are wrong.              *)
processImage(rows, cols) ==
  /\ rows = D.ih \/ cols = D.iw
  /\ images < MaxImages /\ images' = images + 1
  /\ LET empty == [b \in DOMAIN imgChunks |-> reset(imgChunks[b])]
         full == Marshalled(empty, images', rows, cols)
     IN  imgChunks' = [b \in DOMAIN full |-> push(full[b], footer)]
  /\ UNCHANGED D

TrackerNext == \E z \in Sizes : processImage(D.ih + z[1], D.iw + z[2])

-----------------------------------------------------------------------------

(* The row-major pixels of the window that box b stands for.               *)
Window(b) ==
  LET left == (b % numHoriz) * D.step
      top == (b \div numHoriz) * D.step
  IN  [k \in 1 .. D.ww * D.wh |->
         [index |-> k, value |-> <<images, top + (k - 1) \div D.ww, left + ((k - 1) % D.ww)>>]]

(* No pixel goes to a box that is not there and, where the windows are      *)
(* whole cells, the classifier is shown of every window of the latest image *)
(* each pixel once, in order, and nothing of an earlier image; no stack     *)
(* outgrows its memory.  Images that are not a whole number of steps wide   *)
(* or high are included.                                                   *)
BoxesFilled ==
  /\ \A row \in 0 .. D.ih - 1, col \in 0 .. D.iw - 1 :
       ToSet(Boxes(row, col)) \subseteq DOMAIN imgChunks
  /\ \A b \in DOMAIN imgChunks : imgChunks[b].cursor <= capacity
  /\ images > 0 /\ D.ww % D.step = 0 /\ D.wh % D.step = 0 =>
       \A b \in DOMAIN imgChunks : Read(imgChunks[b]) = Window(b)
=============================================================================
