------------------------------ MODULE UvcInput ------------------------------
(***************************************************************************)
(* The input of mjpg_streamer: the camera thread of input_uvc on the video *)
(* driver.  It takes filled buffers, copies each to tmpbuffer, gives it    *)
(* back and publishes the copy under the mutex db as the picture all       *)
(* outputs read.  Any other thread may change the resolution meanwhile     *)
(* (input_cmd): it switches the stream off and opens the device again,     *)
(* with no lock, while the camera thread may be inside uvcGrab.            *)
(*                                                                         *)
(* A frame is the number the driver gave it; an empty frame (bytesused at  *)
(* most HEADERFRAME1) has one too.  The driver is outside the program.     *)
(***************************************************************************)
EXTENDS Integers, Sequences, FiniteSets

CONSTANTS
  camera,          \* the camera thread
  Clients,         \* the threads that serve HTTP clients
  Threads,         \* these and all others of the process
  free,            \* nobody holds db
  NB_BUFFER,
  DropSmall,       \* minimum_size is set so that empty frames are dropped
  MaxFrames,       \* bound: frames the driver fills
  MaxEmpty,        \* bound: empty frames among them
  MaxChanges,      \* bound: changes of the resolution
  MaxFaults        \* bound: calls to the driver that fail

ASSUME UvcAssumption ==
  /\ Clients \cup {camera} \subseteq Threads
  /\ camera \notin Clients /\ free \notin Threads
  /\ NB_BUFFER \in Nat \ {0} /\ DropSmall \in BOOLEAN
  /\ {MaxFrames, MaxEmpty, MaxChanges, MaxFaults} \subseteq Nat

VARIABLES
  process,         \* "up", "exited" or "crashed"
  stop,            \* pglobal->stop
  at,              \* at[t]: what thread t does next
  streamingState,
  driver,          \* "off", "on", or "closed": no descriptor, nothing mapped
  queued,          \* buffers the driver is to fill
  filled,          \* frames in the buffers it has filled, oldest first
  sensor, empties, \* frames filled so far, the empty ones of them
  buf,             \* vd->buf: the buffer dequeued last
  tmpbuffer,       \* the frame copied last
  lost,            \* buffers taken and never given back since the device was opened
  picture,         \* buf, size and timestamp of pglobal->in[0]
  db,              \* the thread that holds the mutex
  changes, faults

driverVars == <<driver, queued, filled, sensor, empties>>
videoVars == <<streamingState, buf, tmpbuffer, lost, changes, faults>>
relayVars == <<picture, db>>
uvcVars == <<process, stop, at, driverVars, videoVars, relayVars>>

Nothing == 0           \* zeroed memory, and no frame's number
Freed == -1            \* memory given back by free()
NoPicture == [content |-> Nothing, size |-> "none", timestamp |-> Nothing]
Blank == [frame |-> Nothing, bytesused |-> "none"]

UvcInit ==
  /\ process = "up" /\ stop = FALSE
  /\ at = [t \in Threads |-> "none"]
  /\ streamingState = "off" /\ driver = "off"
  /\ queued = NB_BUFFER /\ filled = <<>> /\ sensor = 0 /\ empties = {}
  /\ buf = Blank /\ tmpbuffer = Nothing /\ lost = 0
  /\ picture = NoPicture /\ db = free /\ changes = 0 /\ faults = 0

Goto(t, from, to) == at[t] = from /\ at' = [at EXCEPT ![t] = to]

Fault == faults < MaxFaults /\ faults' = faults + 1

(* A call to the driver fails under a condition, or for its own reasons.   *)
FailsIf(condition) == \/ condition /\ UNCHANGED faults
                      \/ Fault

Exit == process' = "exited"

(***************************************************************************)
(* The driver fills the next buffer.                                       *)
(***************************************************************************)
Fill ==
  /\ driver = "on" /\ queued > 0 /\ sensor < MaxFrames
  /\ sensor' = sensor + 1 /\ queued' = queued - 1
  /\ filled' = Append(filled, sensor + 1)
  /\ \/ empties' = empties
     \/ Cardinality(empties) < MaxEmpty /\ empties' = empties \cup {sensor + 1}
  /\ UNCHANGED <<process, stop, at, driver, videoVars, relayVars>>

(***************************************************************************)
(* cam_thread and uvcGrab.  The loop ends when stop is set; while the      *)
(* stream is paused it goes round without looking at stop.                 *)
(***************************************************************************)
Loop ==
  /\ \/ stop /\ Goto(camera, "loop", "cleanup")
     \/ ~stop /\ Goto(camera, "loop", IF streamingState = "paused" THEN "paused" ELSE "grab")
  /\ UNCHANGED <<process, stop, driverVars, videoVars, relayVars>>

NotPaused ==
  /\ streamingState # "paused" /\ Goto(camera, "paused", "grab")
  /\ UNCHANGED <<process, stop, driverVars, videoVars, relayVars>>

video_enable == driver = "off" /\ driver' = "on" /\ streamingState' = "on"

Enable ==
  /\ at[camera] = "grab" /\ streamingState = "off"
  /\ \/ video_enable /\ UNCHANGED <<process, faults>>
     \/ FailsIf(driver = "closed") /\ Exit /\ UNCHANGED <<driver, streamingState>>
  /\ UNCHANGED <<stop, at, queued, filled, sensor, empties, buf, tmpbuffer, lost, changes, relayVars>>

Small == buf'.bytesused # "full"

Dequeue ==
  /\ driver = "on" /\ streamingState # "off" /\ filled # <<>>
  /\ filled' = Tail(filled)
  /\ buf' = [frame |-> Head(filled),
             bytesused |-> IF Head(filled) \in empties THEN "header" ELSE "full"]
  /\ lost' = IF Small THEN lost + 1 ELSE lost
  /\ Goto(camera, "grab", IF Small THEN "grabbed" ELSE "copy")
  /\ UNCHANGED <<process, stop, driver, queued, sensor, empties, streamingState, tmpbuffer,
                 changes, faults, relayVars>>

(* VIDIOC_DQBUF fails on a stream that is off, also when it is switched   *)
(* off while the thread waits in it.  uvcGrab's -1 ends the process.      *)
DequeueFails ==
  /\ at[camera] = "grab" /\ streamingState # "off" /\ Exit
  /\ FailsIf(driver # "on")
  /\ UNCHANGED <<stop, at, driverVars, streamingState, buf, tmpbuffer, lost, changes, relayVars>>

(* The memory of a buffer is unmapped with the device; opening it again    *)
(* also overwrites vd->buf, and a copy of no bytes copies nothing.         *)
Copy ==
  /\ Goto(camera, "copy", "requeue")
  /\ IF driver = "closed"
     THEN process' = "crashed" /\ UNCHANGED tmpbuffer
     ELSE /\ tmpbuffer' = IF buf = Blank THEN tmpbuffer ELSE buf.frame
          /\ UNCHANGED process
  /\ UNCHANGED <<stop, driverVars, streamingState, buf, lost, changes, faults, relayVars>>

(* Mutant: a buffer is not given back. *)
RequeueNot ==
  /\ Goto(camera, "requeue", "grabbed")
  /\ UNCHANGED <<process, stop, driverVars, videoVars, relayVars>>

Requeue ==
  /\ driver # "closed" /\ buf # Blank
  /\ queued' = queued + 1
  /\ Goto(camera, "requeue", "grabbed")
  /\ UNCHANGED <<process, stop, driver, filled, sensor, empties, videoVars, relayVars>>

RequeueFails ==
  /\ at[camera] = "requeue" /\ Exit
  /\ FailsIf(driver = "closed" \/ buf = Blank)
  /\ UNCHANGED <<stop, at, driverVars, streamingState, buf, tmpbuffer, lost, changes, relayVars>>

Dropped == DropSmall /\ buf.bytesused # "full"

DropFrame ==
  /\ Dropped /\ Goto(camera, "grabbed", "loop")
  /\ UNCHANGED <<process, stop, driverVars, videoVars, relayVars>>

(***************************************************************************)
(* The camera thread publishes tmpbuffer, of which as many bytes count as  *)
(* vd->buf says, with the timestamp of vd->buf, and wakes who waits.       *)
(***************************************************************************)
Lock(t, from, to) == db = free /\ db' = t /\ Goto(t, from, to)

(* Mutant: a picture is published without the mutex. *)
LockPictureNot ==
  /\ ~Dropped /\ db' = db /\ Goto(camera, "grabbed", "fill")
  /\ UNCHANGED <<process, stop, driverVars, videoVars, picture>>

LockPicture ==
  /\ ~Dropped /\ Lock(camera, "grabbed", "fill")
  /\ UNCHANGED <<process, stop, driverVars, videoVars, picture>>

memcpy_picture ==
  IF tmpbuffer = Nothing \/ buf = Blank
  THEN [picture EXCEPT !.size = "none"]
  ELSE [picture EXCEPT !.content = tmpbuffer, !.size = buf.bytesused]

FillPicture ==
  /\ Goto(camera, "fill", "stamp") /\ picture' = memcpy_picture
  /\ UNCHANGED <<process, stop, driverVars, videoVars, db>>

Waiting == {t \in Clients : at[t] = "wait"}

StampPicture ==
  /\ at[camera] = "stamp"
  /\ picture' = [picture EXCEPT !.timestamp = buf.frame]
  /\ at' = [t \in Threads |-> IF t = camera THEN "loop"
                                ELSE IF t \in Waiting THEN "woken" ELSE at[t]]
  /\ db' = free
  /\ UNCHANGED <<process, stop, driverVars, videoVars>>

(* cam_cleanup: takes no lock.                                             *)
Cleanup ==
  /\ Goto(camera, "cleanup", "ended")
  /\ IF streamingState = "on"
     THEN streamingState' = "off" /\ driver' = "off" /\ queued' = 0 /\ filled' = <<>>
     ELSE UNCHANGED <<streamingState, driver, queued, filled>>
  /\ picture' = [picture EXCEPT !.content = Freed] /\ tmpbuffer' = Freed
  /\ UNCHANGED <<process, stop, sensor, empties, buf, lost, changes, faults, db>>

CameraStep ==
  \/ Loop \/ NotPaused \/ Enable \/ Dequeue \/ DequeueFails \/ Copy \/ Requeue
  \/ RequeueFails \/ DropFrame \/ LockPicture \/ FillPicture \/ StampPicture \/ Cleanup

(***************************************************************************)
(* setResolution, called by a thread that serves a client.  Two changes at *)
(* a time are left out.                                                    *)
(***************************************************************************)
Changing == \E t \in Clients : at[t] \in {"stream off", "close device", "open device", "stream on"}

Pause(t) ==
  /\ ~Changing /\ changes < MaxChanges
  /\ Goto(t, "resolution", "stream off")
  /\ streamingState' = "paused" /\ changes' = changes + 1
  /\ UNCHANGED <<process, stop, driverVars, buf, tmpbuffer, lost, faults, relayVars>>

StreamOff(t) ==
  /\ driver # "closed" /\ driver' = "off" /\ queued' = 0 /\ filled' = <<>>
  /\ streamingState' = "paused"
  /\ Goto(t, "stream off", "close device")
  /\ UNCHANGED <<process, stop, sensor, empties, buf, tmpbuffer, lost, changes, faults, relayVars>>

CloseDevice(t) ==
  /\ Goto(t, "close device", "open device") /\ driver' = "closed"
  /\ UNCHANGED <<process, stop, queued, filled, sensor, empties, videoVars, relayVars>>

init_v4l2(t) ==
  /\ Goto(t, "open device", "stream on")
  /\ driver' = "off" /\ queued' = NB_BUFFER /\ lost' = 0 /\ buf' = Blank
  /\ UNCHANGED <<process, stop, filled, sensor, empties, streamingState, tmpbuffer, changes,
                 faults, relayVars>>

EnableAgain(t) ==
  /\ Goto(t, "stream on", "respond") /\ video_enable
  /\ UNCHANGED <<process, stop, queued, filled, sensor, empties, buf, tmpbuffer, lost, changes,
                 faults, relayVars>>

(* A call that fails leaves the stream paused, for good.                   *)
ChangeFails(t) ==
  /\ \/ Goto(t, "stream off", "respond") /\ FailsIf(driver = "closed")
     \/ Goto(t, "open device", "respond") /\ Fault
     \/ Goto(t, "stream on", "respond") /\ Fault
  /\ UNCHANGED <<process, stop, driverVars, streamingState, buf, tmpbuffer, lost, changes, relayVars>>

ResolutionStep(t) ==
  \/ Pause(t) \/ StreamOff(t) \/ CloseDevice(t) \/ init_v4l2(t) \/ EnableAgain(t)
  \/ ChangeFails(t)
=============================================================================
