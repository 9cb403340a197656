----------------------------- MODULE GspcaInput -----------------------------
(***************************************************************************)
(* input_gspcav1: a webcam by Video4Linux 1.  Before there is a thread the  *)
(* program asks the camera which palettes and sizes it has, and chooses    *)
(* among them when it has not what was asked for.  Then cam_thread takes   *)
(* the camera's buffers in turn: it waits for one (VIDIOCSYNC), converts    *)
(* it into the next of its own frames, hands the buffer back                *)
(* (VIDIOCMCAPTURE), and publishes the frame.                              *)
(***************************************************************************)
EXTENDS Picture, FiniteSetsExt, SequencesExt

CONSTANTS
  Webcams(_),      \* the cameras there may be when the program is given these arguments
  buffers,         \* videombuf.frames: the camera's buffers
  MaxCaptures      \* bound: pictures the camera takes

ASSUME GspcaAssumption == buffers \in Nat \ {0} /\ MaxCaptures \in Nat

VARIABLES
  webcam,          \* [sizes, palettes, maxwidth, minwidth, depth, strict]
  captured,        \* captured[b]: the picture in buffer b, or NULL
  queue,           \* the buffers the camera may write into, in their order
  taken,           \* pictures taken so far
  vmmap,           \* vmmap.frame: the buffer to wait for
  ptframe,         \* the program's own frames
  frame_cour       \* the one to fill next

gspcaVars == <<webcam, captured, queue, taken, vmmap, ptframe, frame_cour>>

OUTFRMNUMB == 4

-----------------------------------------------------------------------------
(* What is asked of the camera.  The sizes and the palettes are numbered as *)
(* the bits of the masks are, in the order in which they are preferred; a   *)
(* mask is a set of numbers.                                               *)

Sizes == << <<640, 480>>, <<384, 288>>, <<352, 288>>, <<320, 240>>, <<192, 144>>, <<176, 144>>, <<160, 120>> >>
Palettes == <<"jpg", "yuv", "r24", "r16", "r32">>

GetDepth(palette) ==
  CASE palette = "jpg" -> 8 [] palette = "yuv" -> 12 [] palette = "r16" -> 16
    [] palette = "r24" -> 24 [] palette = "r32" -> 32

(* The camera is told each palette, and asked which it has then.            *)
probePalette(cam) == {k \in DOMAIN Palettes : Palettes[k] \in cam.palettes}

(* Sizes wider than the camera's maximum are passed over, and the first      *)
(* that is narrower than its minimum is the last.                          *)
probeSize(cam) ==
  {k \in DOMAIN Sizes :
     /\ Sizes[k] \in cam.sizes
     /\ cam.minwidth <= Sizes[k][1] /\ Sizes[k][1] <= cam.maxwidth}

(* 0: none of them.                                                        *)
convertsize(wanted) == IF wanted \in ToSet(Sizes) THEN CHOOSE k \in DOMAIN Sizes : Sizes[k] = wanted ELSE 0
convertpalette(palette) == CHOOSE k \in DOMAIN Palettes : Palettes[k] = palette

Below(need, available) == {k \in available : k < need}
Above(need, available) == {k \in available : k > need}

(* Mutant: the search goes on from the other end.                           *)
AnotherFarthest(need, available) ==
  IF need \in available THEN need
  ELSE IF Below(need, available) \ {1} # {} THEN Min(Below(need, available))
  ELSE IF Below(need, available) = {1} THEN need
  ELSE IF Above(need, available) # {} THEN Min(Above(need, available)) ELSE 0

(* The nearest before it, or else the nearest after it; but with nothing     *)
(* before it except the first, what was needed stays ("maybe == 1").        *)
Another(need, available) ==
  IF need \in available THEN need
  ELSE IF Below(need, available) \ {1} # {} THEN Max(Below(need, available))
  ELSE IF Below(need, available) = {1} THEN need
  ELSE IF Above(need, available) # {} THEN Min(Above(need, available)) ELSE 0

(* VIDIOCMCAPTURE, the one call that takes a size and a palette; "some       *)
(* drivers may fail here".                                                 *)
MCAPTURE(cam, wanted, palette) ==
  ~cam.strict /\ convertsize(wanted) \in probeSize(cam) /\ palette \in cam.palettes

(* The palette it leaves in formatIn.                                       *)
checkpalette(cam, wanted, palette) ==
  LET need == Another(convertpalette(palette), probePalette(cam))
  IN  IF need # 0 /\ MCAPTURE(cam, wanted, Palettes[need]) THEN Palettes[need] ELSE palette

(* The size and the palette it leaves; that it failed is not looked at.     *)
check_palettesize(cam, wanted, palette) ==
  LET need == IF convertsize(wanted) = 0 THEN 0 ELSE Another(convertsize(wanted), probeSize(cam))
  IN  IF need = 0 THEN [size |-> wanted, palette |-> palette]
      ELSE [size |-> Sizes[need], palette |-> checkpalette(cam, Sizes[need], palette)]

(* SetVideoPict and GetVideoPict: the palette and its depth are reported as  *)
(* they were set.  A camera's depth is 0 if it is what it is told to be.    *)
Accepts(cam, palette) == palette \in cam.palettes /\ cam.depth \in {0, GetDepth(palette)}

(* The program ends unless it is so.                                        *)
init_v4l(cam, wanted, palette) ==
  LET got == check_palettesize(cam, wanted, palette)
  IN  [size |-> got.size, palette |-> got.palette, ok |-> Accepts(cam, got.palette)]

init_videoIn(cam, wanted, palette) ==
  IF 0 \in {wanted[1], wanted[2]}
  THEN [size |-> wanted, palette |-> palette, ok |-> FALSE] ELSE init_v4l(cam, wanted, palette)

(* init_v4l has queued all buffers, and checkpalette the first before.      *)
GspcaInputInit(arguments) ==
  /\ webcam \in Webcams(arguments)
  /\ captured = [b \in 1 .. buffers |-> NULL] /\ queue = [b \in 1 .. buffers |-> b]
  /\ taken = 0 /\ vmmap = 1 /\ ptframe = [k \in 1 .. OUTFRMNUMB |-> NULL] /\ frame_cour = 1

GspcaBuffers == [n \in Ids |-> IF n = id THEN Allocated(NULL) ELSE NULL]

-----------------------------------------------------------------------------
(* The camera: it takes pictures while it has a buffer for them.  One of a   *)
(* JPEG camera may be without its end mark.                                *)

TakePicture ==
  /\ queue # <<>> /\ taken < MaxCaptures /\ taken' = taken + 1
  /\ \/ captured' = [captured EXCEPT ![Head(queue)] = [NULL EXCEPT !.content = taken', !.whole = TRUE]] /\ UNCHANGED faults
     \/ captured' = [captured EXCEPT ![Head(queue)] = [NULL EXCEPT !.content = taken']] /\ Fault
  /\ queue' = Tail(queue)
  /\ SameProcess /\ SamePicture /\ UNCHANGED <<at, webcam, vmmap, ptframe, frame_cour>>

-----------------------------------------------------------------------------
(* cam_thread; none of its calls is a point of cancellation.               *)

WebcamCheck ==
  /\ Goto(input, "check", IF stop THEN "cleanup" ELSE "sync")
  /\ SameProcess /\ SamePicture /\ UNCHANGED <<gspcaVars, faults>>

Sync ==
  /\ captured[vmmap] # NULL /\ Goto(input, "sync", "convert")
  /\ SameProcess /\ SamePicture /\ UNCHANGED <<gspcaVars, faults>>

(* VIDIOCSYNC or VIDIOCMCAPTURE fails: cam_thread ends the process.         *)
WebcamFails ==
  /\ at[input] \in {"sync", "capture"} /\ Fault /\ process' = "exited"
  /\ UNCHANGED <<stop, clock, asleep, cancelled, at>> /\ SamePicture /\ UNCHANGED gspcaVars

(* convertframe; a buffer the camera may write into is not whole.           *)
Convert ==
  /\ Goto(input, "convert", "capture")
  /\ ptframe' = [ptframe EXCEPT ![frame_cour] =
                   [captured[vmmap] EXCEPT !.whole = @ /\ vmmap \notin ToSet(queue)]]
  /\ SameProcess /\ SamePicture /\ UNCHANGED <<webcam, captured, queue, taken, vmmap, frame_cour, faults>>

(* Mutant: it waits for the same buffer again.                              *)
CaptureSame ==
  /\ Goto(input, "capture", "publish")
  /\ queue' = Append(queue, vmmap) /\ captured' = [captured EXCEPT ![vmmap] = NULL]
  /\ frame_cour' = (frame_cour % OUTFRMNUMB) + 1
  /\ SameProcess /\ SamePicture /\ UNCHANGED <<webcam, taken, vmmap, ptframe, faults>>

Capture ==
  /\ Goto(input, "capture", "publish")
  /\ queue' = Append(queue, vmmap) /\ captured' = [captured EXCEPT ![vmmap] = NULL]
  /\ vmmap' = (vmmap % buffers) + 1 /\ frame_cour' = (frame_cour % OUTFRMNUMB) + 1
  /\ SameProcess /\ SamePicture /\ UNCHANGED <<webcam, taken, ptframe, faults>>

iframe == ((frame_cour + OUTFRMNUMB - 2) % OUTFRMNUMB) + 1

(* There is an end mark; else the size is -1, and a copy of so many bytes is *)
(* the end.                                                                *)
get_jpegsize(picture) == picture.whole

PublishFrame ==
  /\ db[id] = free
  /\ IF get_jpegsize(ptframe[iframe])
     THEN Publish(id, ptframe[iframe], "publish", "check") /\ UNCHANGED <<process, frame>>
     ELSE process' = "crashed" /\ SamePicture /\ UNCHANGED at
  /\ at[input] = "publish"
  /\ UNCHANGED <<stop, clock, asleep, cancelled, faults, gspcaVars>>

close_v4l == queue' = <<>> /\ ptframe' = [k \in 1 .. OUTFRMNUMB |-> NULL]

(* cam_cleanup, with no lock.                                              *)
CloseWebcam ==
  /\ Goto(input, "cleanup", "ended")
  /\ in' = [in EXCEPT ![id] = Freed(@)] /\ close_v4l
  /\ SameProcess /\ UNCHANGED <<serial, db, frame, faults, webcam, captured, taken, vmmap, frame_cour>>

GspcaInputStep ==
  WebcamCheck \/ Sync \/ WebcamFails \/ Convert \/ Capture \/ PublishFrame \/ CloseWebcam

-----------------------------------------------------------------------------

(* A camera that has the size and the palette asked for gets them.  Whatever *)
(* it has, it is never made to use a palette it lacks, and a size it lacks   *)
(* only when it has none or was asked for one that is not in the list, or   *)
(* when of the larger ones it has but the first.  Otherwise the size is the *)
(* next larger one it has, or the next smaller one.                        *)
Negotiates(cam, wanted, palette) ==
  LET got == init_videoIn(cam, wanted, palette)
      need == convertsize(wanted)
      has == probeSize(cam)
      Between(k) == (need < k /\ k < convertsize(got.size)) \/ (convertsize(got.size) < k /\ k < need)
  IN  /\ need \in has /\ palette \in cam.palettes /\ cam.depth = 0
           => got = [size |-> wanted, palette |-> palette, ok |-> TRUE]
      /\ got.ok => got.palette \in cam.palettes
      /\ convertsize(got.size) \notin has => got.size = wanted /\ (need = 0 \/ has = {} \/ Below(need, has) = {1})
      /\ convertsize(got.size) \in has =>
           /\ ~\E k \in has : Between(k)
           /\ convertsize(got.size) > need => Below(need, has) = {}
=============================================================================
