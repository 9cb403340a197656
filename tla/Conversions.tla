---------------------------- MODULE Conversions ----------------------------
(***************************************************************************)
(* What becomes of the bytes of a camera's picture: OCVCapture makes gray,  *)
(* yuv and rgb images of a YUYV picture, input_uvc makes a JPEG of one, or  *)
(* takes the camera's own JPEG and adds the Huffman table that cameras      *)
(* leave out.                                                               *)
(*                                                                         *)
(* In YUYV four bytes are two pixels: Y of the first, Cb, Y of the second,  *)
(* Cr.  libjpeg is external: it takes line after line and hands out bytes,  *)
(* which here are numbered.                                                 *)
(***************************************************************************)
EXTENDS Integers, Sequences, SequencesExt

CONSTANTS
  Frames,            \* YUYV pictures
  Emitted,           \* how many bytes libjpeg may hand out in one call
  OUTPUT_BUF_SIZE,
  MaxJpegs,          \* bound: pictures compressed one after the other
  Lengths,           \* of the segments of a camera's JPEG
  MaxSegments,       \* bound: segments of one
  MaxTableOffset     \* how far is_huffman looks (2048)

ASSUME ConversionsAssumption ==
  /\ \A f \in Frames :
       /\ f.width % 2 = 0 /\ f.stride >= 2 * f.width
       /\ f.data \in [0 .. f.stride * f.height - 1 -> 0 .. 255]
  /\ Emitted \subseteq Nat /\ OUTPUT_BUF_SIZE \in Nat \ {0}
  /\ Lengths \subseteq Nat \ {0} /\ {MaxJpegs, MaxSegments, MaxTableOffset} \subseteq Nat

VARIABLES
  frame,             \* the picture that is compressed
  compress,          \* where compress_yuyv_to_jpeg stands, or "copy": a JPEG is taken
  next_scanline, z, yuyv,
  scanlines,         \* the lines libjpeg was given
  emitted,           \* the bytes it has handed out for this picture
  buffer, outbuffer, written, jpegs,
  segments           \* of the camera's JPEG: the kind and the length of each

pixelVars == <<next_scanline, z, yuyv, scanlines>>
destination == <<emitted, buffer, outbuffer, written>>
conversionVars == <<frame, compress, pixelVars, destination, jpegs, segments>>

ConversionsInit ==
  /\ frame \in Frames /\ compress \in {"start", "copy"}
  /\ next_scanline = 0 /\ z = 0 /\ yuyv = 0 /\ scanlines = <<>>
  /\ emitted = 0 /\ buffer = <<>> /\ outbuffer = <<>> /\ written = 0 /\ jpegs = 0
  /\ segments = <<>>

-----------------------------------------------------------------------------
(* OCVCapture: row after row, two pixels at a time.                         *)

clamp(v) == IF v < 0 THEN 0 ELSE IF v > 255 THEN 255 ELSE v

(* The pairs of pixels of a row, four bytes each.                           *)
PixelPairs(f, row) ==
  [k \in 1 .. f.width \div 2 |-> [n \in 1 .. 4 |-> f.data[row * f.stride + 4 * (k - 1) + n - 1]]]

gray(f, row) == [col \in 1 .. f.width |-> f.data[row * f.stride + 2 * (col - 1)]]

yuv(f, row) ==
  FlattenSeq([k \in 1 .. f.width \div 2 |->
    LET p == PixelPairs(f, row)[k] IN <<p[1], p[2], p[4], p[3], p[2], p[4]>>])

(* Blue, green, red.  Fixed() counts 255 to one, the luminance 256.         *)
prepare(comp) == clamp((comp + 128) \div 256)
Bgr(y, cb, cr) ==
  <<prepare(256 * y + 451 * (cb - 128)), prepare(256 * y - 87 * (cb - 128) - 181 * (cr - 128)),
    prepare(256 * y + 358 * (cr - 128))>>
rgb(f, row) ==
  FlattenSeq([k \in 1 .. f.width \div 2 |->
    LET p == PixelPairs(f, row)[k] IN Bgr(p[1], p[2], p[4]) \o Bgr(p[3], p[2], p[4])])

-----------------------------------------------------------------------------
(* compress_yuyv_to_jpeg.  It takes the picture's lines to follow each       *)
(* other without a gap.                                                     *)

Rgb(y, cb, cr) ==
  LET u == cb - 128
      v == cr - 128
  IN  <<clamp((256 * y + 359 * v) \div 256), clamp((256 * y - 88 * u - 183 * v) \div 256),
        clamp((256 * y + 454 * u) \div 256)>>

(* One pixel: the place in the picture and the half of the four bytes carry  *)
(* over from one to the next, and from line to line.                        *)
NextPixel(p, x) ==
  LET At(n) == frame.data[p.yuyv + n]
  IN  [line |-> p.line \o Rgb(IF p.z = 0 THEN At(0) ELSE At(2), At(1), At(3)),
       z |-> 1 - p.z, yuyv |-> p.yuyv + 4 * p.z]

(* libjpeg hands n bytes to the destination manager, whose buffer it empties *)
(* when it is full.                                                         *)
Handed(n) ==
  FoldLeft(LAMBDA d, b :
             LET full == Append(d.buffer, b)
             IN  IF Len(full) = OUTPUT_BUF_SIZE
                 THEN [buffer |-> <<>>, out |-> d.out \o full, written |-> d.written + OUTPUT_BUF_SIZE]
                 ELSE [d EXCEPT !.buffer = full],
           [buffer |-> buffer, out |-> outbuffer, written |-> written],
           [k \in 1 .. n |-> emitted + k])

Hand(n) ==
  LET d == Handed(n)
  IN  buffer' = d.buffer /\ outbuffer' = d.out /\ written' = d.written /\ emitted' = emitted + n

(* Mutant: written, which is static, keeps the last picture's.              *)
init_destination_keeps ==
  /\ compress = "start" /\ compress' = "header"
  /\ buffer' = <<>> /\ outbuffer' = <<>> /\ emitted' = 0
  /\ next_scanline' = 0 /\ z' = 0 /\ yuyv' = 0 /\ scanlines' = <<>>
  /\ UNCHANGED <<frame, written, jpegs, segments>>

(* dest_buffer, and init_destination, which jpeg_start_compress calls.      *)
init_destination ==
  /\ compress = "start" /\ compress' = "header"
  /\ buffer' = <<>> /\ outbuffer' = <<>> /\ written' = 0 /\ emitted' = 0
  /\ next_scanline' = 0 /\ z' = 0 /\ yuyv' = 0 /\ scanlines' = <<>>
  /\ UNCHANGED <<frame, jpegs, segments>>

Header ==
  /\ compress = "header" /\ compress' = "lines"
  /\ \E n \in Emitted : Hand(n)
  /\ UNCHANGED <<frame, pixelVars, jpegs, segments>>

Scanline ==
  /\ compress = "lines" /\ next_scanline < frame.height
  /\ next_scanline' = next_scanline + 1
  /\ LET p == FoldLeft(NextPixel, [line |-> <<>>, z |-> z, yuyv |-> yuyv], [x \in 1 .. frame.width |-> x])
     IN  scanlines' = Append(scanlines, p.line) /\ z' = p.z /\ yuyv' = p.yuyv
  /\ \E n \in Emitted : Hand(n)
  /\ UNCHANGED <<frame, compress, jpegs, segments>>

(* jpeg_finish_compress calls term_destination; written is the result.      *)
term_destination ==
  /\ compress = "lines" /\ next_scanline = frame.height /\ compress' = "done"
  /\ outbuffer' = outbuffer \o buffer /\ written' = written + Len(buffer)
  /\ jpegs' = jpegs + 1
  /\ UNCHANGED <<frame, pixelVars, emitted, buffer, segments>>

(* The camera's next picture.                                              *)
Another ==
  /\ compress = "done" /\ jpegs < MaxJpegs /\ compress' = "start"
  /\ UNCHANGED <<frame, pixelVars, destination, jpegs, segments>>

-----------------------------------------------------------------------------
(* is_huffman, memcpy_picture.  A camera's JPEG is a sequence of segments:   *)
(* DHT (the table), SOF0 (the picture's format), SOS (its data), others.    *)

Kinds == {"DHT", "SOF0", "SOS", "other"}

AddSegment ==
  /\ compress = "copy" /\ Len(segments) < MaxSegments
  /\ \E k \in Kinds, n \in Lengths : segments' = Append(segments, [kind |-> k, length |-> n])
  /\ UNCHANGED <<frame, compress, pixelVars, destination, jpegs>>

FirstOf(s, k) == SelectInSeq(s, LAMBDA g : g.kind = k)
Offset(s, n) == FoldLeft(LAMBDA sum, g : sum + g.length, 0, SubSeq(s, 1, n - 1))

is_huffman(s) ==
  LET table == FirstOf(s, "DHT")
  IN  /\ table # 0 /\ Offset(s, table) <= MaxTableOffset
      /\ FirstOf(s, "SOS") = 0 \/ table < FirstOf(s, "SOS")

dht_data == [kind |-> "DHT", length |-> 420]

(* Mutant: the table is put where the data begin, whatever comes before.    *)
WithTableLast(s) == IF is_huffman(s) THEN s ELSE Append(s, dht_data)

(* A picture with neither is dropped: its size is 0.                        *)
WithTable(s) ==
  LET format == FirstOf(s, "SOF0")
  IN  IF is_huffman(s) THEN s
      ELSE IF format = 0 THEN <<>>
      ELSE SubSeq(s, 1, format - 1) \o <<dht_data>> \o SubSeq(s, format, Len(s))

ConversionsNext ==
  init_destination \/ Header \/ Scanline \/ term_destination \/ Another \/ AddSegment

-----------------------------------------------------------------------------

(* What a pixel's three bytes are, and its colours by the JFIF standard, in   *)
(* thousandths.                                                             *)
Luma(f, row, col) == f.data[row * f.stride + 2 * col]
Cb(f, row, col) == f.data[row * f.stride + 4 * (col \div 2) + 1]
Cr(f, row, col) == f.data[row * f.stride + 4 * (col \div 2) + 3]

Red(y, cb, cr) == 1000 * y + 1402 * (cr - 128)
Green(y, cb, cr) == 1000 * y - 344 * (cb - 128) - 714 * (cr - 128)
Blue(y, cb, cr) == 1000 * y + 1772 * (cb - 128)

(* Within two levels of the standard's colour.                              *)
Near(level, colour) ==
  LET c == IF colour < 0 THEN 0 ELSE IF colour > 255000 THEN 255000 ELSE colour
  IN  1000 * level - c \in -2000 .. 2000

(* The three images have at each place the pixel the picture has there.     *)
ImagesTrue(f) ==
  \A row \in 0 .. f.height - 1 :
    LET colours == rgb(f, row)
        bytes == yuv(f, row)
    IN  \A col \in 0 .. f.width - 1 :
          LET y == Luma(f, row, col)
              u == Cb(f, row, col)
              v == Cr(f, row, col)
          IN  /\ gray(f, row)[col + 1] = y
              /\ SubSeq(bytes, 3 * col + 1, 3 * col + 3) = <<y, u, v>>
              /\ Near(colours[3 * col + 1], Blue(y, u, v))
              /\ Near(colours[3 * col + 2], Green(y, u, v))
              /\ Near(colours[3 * col + 3], Red(y, u, v))

(* So have the lines libjpeg is given, if the driver leaves no gaps.        *)
ScanlinesTrue ==
  frame.stride = 2 * frame.width =>
    \A row \in DOMAIN scanlines : \A col \in 0 .. frame.width - 1 :
      LET y == Luma(frame, row - 1, col)
          u == Cb(frame, row - 1, col)
          v == Cr(frame, row - 1, col)
      IN  /\ Near(scanlines[row][3 * col + 1], Red(y, u, v))
          /\ Near(scanlines[row][3 * col + 2], Green(y, u, v))
          /\ Near(scanlines[row][3 * col + 3], Blue(y, u, v))

(* A JPEG is all that libjpeg handed out for this picture, in that order, and *)
(* its size says so.                                                        *)
JpegWhole ==
  compress = "done" => /\ outbuffer = [k \in 1 .. emitted |-> k] /\ written = emitted
                       /\ Len(scanlines) = frame.height

(* A camera's JPEG keeps all it has and, if its format comes before its data, *)
(* has a table before its data.                                             *)
TableAdded ==
  LET s == WithTable(segments)
      format == FirstOf(segments, "SOF0")
      data == FirstOf(segments, "SOS")
  IN  format # 0 /\ format < data =>
        /\ FirstOf(s, "DHT") # 0 /\ FirstOf(s, "DHT") < FirstOf(s, "SOS")
        /\ s = segments \/ \E n \in DOMAIN s : s[n] = dht_data /\ RemoveAt(s, n) = segments

(* Pictures reach whoever looks at them as the camera took them.            *)
PicturesConverted ==
  /\ compress = "start" => ImagesTrue(frame)
  /\ ScanlinesTrue /\ JpegWhole
  /\ compress = "copy" => TableAdded
=============================================================================
