------------------------------ MODULE Controls ------------------------------
(***************************************************************************)
(* The controls of input_uvc: which ones the camera has is asked when the  *)
(* plugin is opened, and kept with their values in in_parameters, which is *)
(* what browsers are shown; a command of a browser sets one of them, in    *)
(* the camera and in the list, in the thread that serves the browser and   *)
(* without a lock.                                                         *)
(***************************************************************************)
EXTENDS Integers, Sequences, FiniteSets, SequencesExt, Picture

CONSTANTS
  HttpClients,           \* the threads of output_http that serve browsers
  V4L2_CID_BASE,         \* the first identifier of a user control,
  V4L2_CID_LASTP1,       \* the one after the last,
  V4L2_CID_PRIVATE_BASE  \* and the first of the camera's own

ASSUME ControlsAssumption ==
  /\ 1 < V4L2_CID_BASE /\ V4L2_CID_BASE < V4L2_CID_LASTP1
  /\ V4L2_CID_LASTP1 <= V4L2_CID_PRIVATE_BASE

VARIABLES
  device,          \* device[i]: the value control i has in the camera
  in_parameters,   \* the list: identifier, class, group, range, value
  quality,         \* jpegcomp.quality
  resolution,      \* currentResolution
  resolutionCount,
  setting,         \* setting[t]: what thread t has set and not yet entered, or 0
  overlapped       \* controls that two threads were setting at a time

controlsVars == <<device, in_parameters, quality, resolution, resolutionCount, setting, overlapped>>

IN_CMD_GENERIC == 0
IN_CMD_V4L2 == 1
IN_CMD_RESOLUTION == 2
IN_CMD_JPEG_QUALITY == 3

-----------------------------------------------------------------------------
(* enumerateControls.  A camera has its controls by identifier, each with a *)
(* range, a value and whether that can be asked for; it may name them one   *)
(* after the other (V4L2_CTRL_FLAG_NEXT_CTRL); it has some resolutions, and *)
(* a quality of its JPEG compression, or 0.                                *)

NoCamera == [controls |-> <<>>, next |-> FALSE, resolutions |-> 1, quality |-> 0, memory |-> "extended"]

(* control_readed.  The identifier says which class a control has.          *)
class_id(i) == IF i \in V4L2_CID_BASE .. V4L2_CID_LASTP1 - 1 THEN "user" ELSE "extended"

control_readed(camera, i) ==
  LET c == camera.controls[i]
  IN  [id |-> i, class |-> class_id(i), group |-> IN_CMD_V4L2,
       minimum |-> c.minimum, maximum |-> c.maximum, value |-> IF c.readable THEN c.value ELSE 0]

Ascending(S) == SetToSortSeq(S, LAMBDA i, j : i < j)

(* The camera's own controls are asked for until one is not there.          *)
Custom(has) ==
  {i \in has : i >= V4L2_CID_PRIVATE_BASE /\ V4L2_CID_PRIVATE_BASE .. i \subseteq has}

Enumerated(camera) ==
  LET has == DOMAIN camera.controls
  IN  Ascending(IF camera.next THEN has
                ELSE (has \cap V4L2_CID_BASE .. V4L2_CID_LASTP1 - 1) \cup Custom(has))

(* Last comes the quality of the JPEG compression: the ioctl that asks for   *)
(* it is compared with EINVAL, which it never returns.  Its class is what   *)
(* the memory held before.                                                 *)
JpegQuality(camera) ==
  [id |-> 1, class |-> camera.memory, group |-> IN_CMD_JPEG_QUALITY, minimum |-> 0, maximum |-> 100, value |-> camera.quality]

enumerateControls(camera) ==
  Append([k \in DOMAIN Enumerated(camera) |-> control_readed(camera, Enumerated(camera)[k])],
         JpegQuality(camera))

ControlsInit(camera) ==
  /\ device = [i \in DOMAIN camera.controls |-> camera.controls[i].value]
  /\ in_parameters = enumerateControls(camera)
  /\ quality = camera.quality /\ resolution = 0 /\ resolutionCount = camera.resolutions
  /\ setting = [t \in HttpClients |-> 0] /\ overlapped = {}

-----------------------------------------------------------------------------
(* input_cmd, for the thread t.  done(r): it has returned r.                 *)

Position(i) == SelectInSeq(in_parameters, LAMBDA p : p.id = i)
InRange(k, value) == value \in in_parameters[k].minimum .. in_parameters[k].maximum

(* After any v4l2SetControl that returned 0, whatever it did, the value is   *)
(* entered for the first control of the list: the index is not the one that *)
(* was found.                                                              *)
EnterFirst(parameters, value) == [parameters EXCEPT ![1].value = value]

(* The ioctl of v4l2SetControl.                                            *)
Ioctl(t, i, value) ==
  /\ i \in DOMAIN device /\ device' = [device EXCEPT ![i] = value]
  /\ overlapped' = overlapped \cup {j \in {i} : \E u \in HttpClients \ {t} : setting[u] = j}

SameCamera == UNCHANGED <<device, quality, resolution, overlapped>>
SameControls == UNCHANGED <<in_parameters, resolutionCount, setting>>

(* A user control: the value must be in range, is set, and then entered.     *)
SetUser(t, k, value) ==
  /\ k # 0 /\ in_parameters[k].class = "user" /\ InRange(k, value) /\ setting[t] = 0
  /\ Ioctl(t, in_parameters[k].id, value)
  /\ setting' = [setting EXCEPT ![t] = in_parameters[k].id]
  /\ UNCHANGED <<in_parameters, quality, resolution, resolutionCount>>

(* Mutant: the value is entered only for the first control.                 *)
EnterOnlyFirst(t, k, value) ==
  /\ k # 0 /\ setting[t] = in_parameters[k].id
  /\ in_parameters' = EnterFirst(in_parameters, value)
  /\ setting' = [setting EXCEPT ![t] = 0] /\ SameCamera /\ UNCHANGED resolutionCount

Enter(t, k, value) ==
  /\ k # 0 /\ setting[t] = in_parameters[k].id
  /\ in_parameters' = EnterFirst([in_parameters EXCEPT ![k].value = value], value)
  /\ setting' = [setting EXCEPT ![t] = 0] /\ SameCamera /\ UNCHANGED resolutionCount

(* What is out of range is not set, and nothing is said of it.              *)
OutOfRange(t, k, value) ==
  /\ k # 0 /\ in_parameters[k].class = "user" /\ ~InRange(k, value)
  /\ in_parameters' = EnterFirst(in_parameters, value)
  /\ SameCamera /\ UNCHANGED <<resolutionCount, setting>>

(* Another control: the camera looks at the range, and the value is not     *)
(* entered.                                                                *)
SetExtended(t, k, value) ==
  /\ k # 0 /\ in_parameters[k].class = "extended" /\ InRange(k, value)
  /\ Ioctl(t, in_parameters[k].id, value)
  /\ in_parameters' = EnterFirst(in_parameters, value)
  /\ UNCHANGED <<quality, resolution, resolutionCount, setting>>

(* No such control, or an ioctl that fails.                                 *)
NotSet(t, k, value) ==
  /\ setting[t] = 0
  /\ \/ k = 0 /\ UNCHANGED faults
     \/ k # 0 /\ in_parameters[k].id \notin DOMAIN device /\ UNCHANGED faults
     \/ k # 0 /\ in_parameters[k].class = "extended" /\ ~InRange(k, value) /\ UNCHANGED faults
     \/ k # 0 /\ (in_parameters[k].class = "user" => InRange(k, value)) /\ Fault
  /\ SameCamera /\ SameControls

SetQuality(t, value) ==
  /\ value \in 0 .. 100 /\ quality' = value
  /\ UNCHANGED <<device, resolution, overlapped>> /\ SameControls

SetResolution(t, value) ==
  /\ value < resolutionCount /\ resolution' = value
  /\ UNCHANGED <<device, quality, overlapped>> /\ SameControls

Refused(t, group, value) ==
  /\ \/ group = IN_CMD_JPEG_QUALITY /\ value \notin 0 .. 100 /\ UNCHANGED faults
     \/ group = IN_CMD_RESOLUTION /\ value >= resolutionCount /\ UNCHANGED faults
     \/ group = IN_CMD_RESOLUTION /\ value < resolutionCount /\ Fault
     \/ group = IN_CMD_GENERIC /\ UNCHANGED faults
     \/ group \notin IN_CMD_GENERIC .. IN_CMD_JPEG_QUALITY /\ UNCHANGED faults
  /\ SameCamera /\ SameControls

(* result is what input_cmd returns, or that it has not yet.                *)
Unfinished == 1

input_cmd(t, i, group, value, result) ==
  \/ group = IN_CMD_V4L2 /\ SetUser(t, Position(i), value) /\ result = Unfinished /\ UNCHANGED faults
  \/ /\ \/ group = IN_CMD_V4L2 /\ (\/ Enter(t, Position(i), value)
                                   \/ OutOfRange(t, Position(i), value)
                                   \/ SetExtended(t, Position(i), value))
        \/ group = IN_CMD_JPEG_QUALITY /\ SetQuality(t, value)
        \/ group = IN_CMD_RESOLUTION /\ SetResolution(t, value)
     /\ result = 0 /\ UNCHANGED faults
  \/ result = -1 /\ (\/ group = IN_CMD_V4L2 /\ NotSet(t, Position(i), value)
                     \/ Refused(t, group, value))

-----------------------------------------------------------------------------

(* What the list says of a user control is what the camera has, when it     *)
(* could be asked for at first and nobody is about to enter a value: unless  *)
(* it is the first of the list, or two threads were setting it at a time.  *)
Reported ==
  \A k \in 2 .. Len(in_parameters) :
    LET p == in_parameters[k]
    IN  (p.class = "user" /\ p.id \in DOMAIN device /\ p.id \notin overlapped /\ \A t \in HttpClients : setting[t] # p.id)
          => p.value = device[p.id]
=============================================================================
