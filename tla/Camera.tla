------------------------------- MODULE Camera -------------------------------
(***************************************************************************)
(* The camera: AICameraWrapper on OCVCapture on the video driver.  The     *)
(* driver fills the buffers it has been given in turn; grab() takes the    *)
(* oldest filled one, copies it and gives the buffer back; gray() makes an *)
(* image of the copy.  The wrapper's own thread and the main thread both   *)
(* read, under a mutex; main also constructs the wrapper and deletes it.   *)
(*                                                                         *)
(* A frame is the number the driver captured it under, an image the frames *)
(* its upper and its lower half come from.  The driver (Filled, and how    *)
(* the ioctls fail) is outside the program.                                *)
(***************************************************************************)
EXTENDS Integers, Sequences, FiniteSets, Functions

CONSTANTS
  main, camera,    \* the two threads
  desiredBuffers,
  Drop,            \* frames grabbed and dropped by the constructor
  Failures,        \* what may fail: "open", "setup", "select", ...
  MaxFaults,       \* bound: failures met by one wrapper
  MaxReads,        \* bound: reads begun on one wrapper
  MaxFrames        \* bound: frames captured for one wrapper

ASSUME CameraAssumption ==
  /\ main # camera /\ "free" \notin {main, camera}
  /\ desiredBuffers \in Nat \ {0} /\ Drop \in Nat
  /\ MaxFaults \in Nat /\ MaxReads \in Nat
  /\ MaxFrames \in Nat /\ MaxFrames >= Drop + MaxReads

VARIABLES
  mapped,      \* number of mapped buffers
  queue,       \* buffers the driver is to fill, oldest first
  done,        \* buffers it has filled, oldest first
  content,     \* content[b]: the frame in buffer b
  shot,        \* frames captured since open
  m_first_grab,
  data,        \* m_yuv_image_data: the frame copied last
  hand,        \* the buffer dequeued last
  at,          \* at[t]: what thread t does next
  mutex,       \* thread_mutex
  image,       \* image[t]: the Mat that t reads into
  keepRunning, activated,
  published,   \* latestImage shares the pixels of image[camera]
  drop,        \* frames still to be dropped
  freed,       \* how often VC has been deleted
  reads, faults

driverVars == <<queue, done, content, shot>>
captureVars == <<mapped, driverVars, m_first_grab, data, hand>>
wrapperVars == <<mutex, image, keepRunning, activated, published, drop, freed>>
cameraVars == <<captureVars, wrapperVars, at, reads, faults>>

Threads == {main, camera}
Buffers(n) == 0 .. n - 1

NULL == -1            \* no image data: the device is closed
Uninitialised == 0    \* allocated, nothing copied yet
NoImage == <<Uninitialised, Uninitialised>>

Init ==
  /\ mapped = 0 /\ queue = <<>> /\ done = <<>>
  /\ content = [b \in Buffers(desiredBuffers) |-> Uninitialised] /\ shot = 0
  /\ m_first_grab = TRUE /\ data = NULL /\ hand = 0
  /\ at = [t \in Threads |-> "none"]
  /\ mutex = "free" /\ image = [t \in Threads |-> NoImage]
  /\ keepRunning = FALSE /\ activated = FALSE /\ published = FALSE
  /\ drop = 0 /\ freed = 0 /\ reads = 0 /\ faults = 0

Goto(t, from, to) == at[t] = from /\ at' = [at EXCEPT ![t] = to]

(* The environment makes one call fail. *)
Fault(kind) == kind \in Failures /\ faults < MaxFaults /\ faults' = faults + 1

-----------------------------------------------------------------------------
(* The driver captures a frame.  Without a buffer to fill it drops it. *)
Filled ==
  /\ queue # <<>> /\ ~m_first_grab /\ shot < MaxFrames
  /\ shot' = shot + 1
  /\ content' = [content EXCEPT ![Head(queue)] = shot + 1]
  /\ done' = Append(done, Head(queue))
  /\ queue' = Tail(queue)
  /\ UNCHANGED <<mapped, m_first_grab, data, hand, wrapperVars, at, reads, faults>>

-----------------------------------------------------------------------------
(* OCVCapture *)

(* The driver grants some of the buffers asked for; the image data is
   allocated and not cleared. *)
Opened(n) ==
  /\ mapped' = n
  /\ queue' = <<>> /\ done' = <<>> /\ shot' = 0
  /\ content' = [b \in DOMAIN content |-> Uninitialised]
  /\ m_first_grab' = TRUE
  /\ data' = Uninitialised
  /\ hand' = 0

(* close(): the driver forgets the buffers. *)
Closed ==
  /\ mapped' = 0
  /\ queue' = <<>> /\ done' = <<>>
  /\ data' = NULL
  /\ UNCHANGED <<content, shot, m_first_grab, hand>>

(* After grab(), whatever it returned: the constructor drops the frame,
   read() converts it. *)
Grabbed(t, from) == Goto(t, from, IF activated THEN "gray" ELSE "drop")

AllQueued(n) == [i \in 1 .. n |-> i - 1]

(* firstGrabSetup() *)
Setup(t) ==
  /\ Goto(t, "setup", "select")
  /\ m_first_grab => queue = <<>>
  /\ m_first_grab' = FALSE
  /\ queue' = IF m_first_grab THEN AllQueued(mapped) ELSE queue
  /\ UNCHANGED <<mapped, done, content, shot, data, hand, wrapperVars, reads, faults>>

(* Mutant: one buffer too many is given to the driver. *)
SetupFailsOver(t) ==
  /\ Grabbed(t, "setup")
  /\ m_first_grab
  /\ queue = <<>> /\ Fault("setup") /\ queue' = AllQueued(mapped + 1)
  /\ UNCHANGED <<mapped, done, content, shot, m_first_grab, data, hand, wrapperVars, reads>>

(* A buffer cannot be given to the driver, or the stream cannot be started:
   what has been queued stays queued, and the next grab fails when it queues
   the first buffer again. *)
SetupFails(t) ==
  /\ Grabbed(t, "setup")
  /\ m_first_grab
  /\ \/ queue # <<>> /\ UNCHANGED <<queue, faults>>
     \/ /\ queue = <<>> /\ Fault("setup")
        /\ \E n \in 0 .. mapped : queue' = AllQueued(n)
  /\ UNCHANGED <<mapped, done, content, shot, m_first_grab, data, hand, wrapperVars, reads>>

Select(t) ==
  /\ Goto(t, "select", "dequeue")
  /\ done # <<>>
  /\ UNCHANGED <<captureVars, wrapperVars, reads, faults>>

(* select() fails or nothing is captured for two seconds. *)
SelectFails(t) ==
  /\ Grabbed(t, "select")
  /\ \/ Fault("select")
     \/ queue = <<>> /\ done = <<>> /\ UNCHANGED faults
  /\ UNCHANGED <<captureVars, wrapperVars, reads>>

(* Mutant: the buffer is given back before it is copied. *)
DequeueEarly(t) ==
  /\ Goto(t, "dequeue", "copy")
  /\ done # <<>>
  /\ hand' = Head(done)
  /\ done' = Tail(done)
  /\ queue' = Append(queue, Head(done))
  /\ UNCHANGED <<mapped, content, shot, m_first_grab, data, wrapperVars, reads, faults>>

Dequeue(t) ==
  /\ Goto(t, "dequeue", "copy")
  /\ done # <<>>
  /\ hand' = Head(done)
  /\ done' = Tail(done)
  /\ UNCHANGED <<mapped, queue, content, shot, m_first_grab, data, wrapperVars, reads, faults>>

(* EAGAIN: grab() goes back to select().  Otherwise it fails, and a buffer
   with an index it does not know is not given back. *)
DequeueFails(t) ==
  /\ \/ Goto(t, "dequeue", "select") /\ Fault("again") /\ UNCHANGED done
     \/ Grabbed(t, "dequeue") /\ Fault("dequeue") /\ UNCHANGED done
     \/ Grabbed(t, "dequeue") /\ Fault("index") /\ done # <<>> /\ done' = Tail(done)
  /\ UNCHANGED <<mapped, queue, content, shot, m_first_grab, data, hand, wrapperVars, reads>>

(* Mutant: always the first buffer. *)
CopyFirst(t) ==
  /\ Goto(t, "copy", "requeue")
  /\ data' = content[0]
  /\ UNCHANGED <<mapped, driverVars, m_first_grab, hand, wrapperVars, reads, faults>>

Copy(t) ==
  /\ Goto(t, "copy", "requeue")
  /\ data' = content[hand]
  /\ UNCHANGED <<mapped, driverVars, m_first_grab, hand, wrapperVars, reads, faults>>

(* Mutant: the buffer is not given back. *)
RequeueNot(t) ==
  /\ Grabbed(t, "requeue")
  /\ UNCHANGED <<captureVars, wrapperVars, reads, faults>>

(* Mutant: the mutex is unlocked before the image is made. *)
RequeueUnlocked(t) ==
  /\ Grabbed(t, "requeue")
  /\ queue' = Append(queue, hand)
  /\ mutex' = "free"
  /\ UNCHANGED <<mapped, done, content, shot, m_first_grab, data, hand,
                 image, keepRunning, activated, published, drop, freed, reads, faults>>

(* The buffer is lost when the driver does not take it. *)
Requeue(t) ==
  /\ Grabbed(t, "requeue")
  /\ \/ queue' = Append(queue, hand) /\ UNCHANGED faults
     \/ Fault("requeue") /\ UNCHANGED queue
  /\ UNCHANGED <<mapped, done, content, shot, m_first_grab, data, hand, wrapperVars, reads>>

(* gray(): row after row, into the pixels the Mat already has. *)
Gray(t) ==
  /\ \/ Goto(t, "gray", "grayRest") /\ image' = [image EXCEPT ![t][1] = data]
     \/ Goto(t, "grayRest", "unlock") /\ image' = [image EXCEPT ![t][2] = data]
  /\ UNCHANGED <<captureVars, mutex, keepRunning, activated, published, drop, freed,
                 reads, faults>>

Grab(t) ==
  \/ Setup(t) \/ SetupFails(t)
  \/ Select(t) \/ SelectFails(t)
  \/ Dequeue(t) \/ DequeueFails(t)
  \/ Copy(t) \/ Requeue(t)

-----------------------------------------------------------------------------
(* AICameraWrapper *)

(* The constructor cannot open the device: OCVCapture is deleted. *)
ConstructFails ==
  /\ Goto(main, "none", "idle")
  /\ Fault("open")
  /\ keepRunning' = FALSE /\ activated' = FALSE /\ published' = FALSE
  /\ freed' = 1
  /\ UNCHANGED <<captureVars, mutex, image, drop, reads>>

Construct ==
  /\ Goto(main, "none", "drop")
  /\ \E n \in 1 .. desiredBuffers : Opened(n)
  /\ image' = [t \in Threads |-> NoImage]
  /\ keepRunning' = FALSE /\ activated' = FALSE /\ published' = FALSE
  /\ drop' = Drop /\ freed' = 0
  /\ reads' = 0 /\ faults' = 0
  /\ UNCHANGED mutex

DropFrame ==
  /\ Goto(main, "drop", "setup")
  /\ drop > 0 /\ drop' = drop - 1
  /\ UNCHANGED <<captureVars, mutex, image, keepRunning, activated, published, freed,
                 reads, faults>>

StartThread ==
  /\ at[main] = "drop" /\ drop = 0
  /\ at' = [at EXCEPT ![main] = "idle", ![camera] = "loop"]
  /\ keepRunning' = TRUE /\ activated' = TRUE /\ mutex' = "free"
  /\ UNCHANGED <<captureVars, image, published, drop, freed, reads, faults>>

(* read(): the thread comes to the mutex. *)
BeginRead(t) ==
  /\ \/ t = main /\ activated /\ Goto(t, "idle", "wait")
     \/ t = camera /\ keepRunning /\ Goto(t, "loop", "wait")
  /\ reads < MaxReads /\ reads' = reads + 1
  /\ UNCHANGED <<captureVars, wrapperVars, faults>>

Lock(t) ==
  /\ Goto(t, "wait", "setup")
  /\ mutex = "free" /\ mutex' = t
  /\ UNCHANGED <<captureVars, image, keepRunning, activated, published, drop, freed,
                 reads, faults>>

Unlock(t) ==
  /\ Goto(t, "unlock", IF t = main THEN "idle" ELSE "publish")
  /\ mutex' = "free"
  /\ UNCHANGED <<captureVars, image, keepRunning, activated, published, drop, freed,
                 reads, faults>>

(* Mutant: the mutex is not unlocked. *)
PublishLocked ==
  /\ Goto(camera, "publish", "loop")
  /\ mutex = "free" /\ mutex' = camera
  /\ published' = TRUE
  /\ UNCHANGED <<captureVars, image, keepRunning, activated, drop, freed, reads, faults>>

(* setImage(): latestImage and the thread's Mat share their pixels. *)
Publish ==
  /\ Goto(camera, "publish", "loop")
  /\ mutex = "free"
  /\ published' = TRUE
  /\ UNCHANGED <<captureVars, mutex, image, keepRunning, activated, drop, freed, reads, faults>>

ThreadExits ==
  /\ Goto(camera, "loop", "exited")
  /\ ~keepRunning
  /\ UNCHANGED <<captureVars, wrapperVars, reads, faults>>

(* The destructor: kill() ... *)
Delete ==
  /\ Goto(main, "idle", "join")
  /\ keepRunning' = FALSE
  /\ UNCHANGED <<captureVars, mutex, image, activated, published, drop, freed, reads, faults>>

(* Mutant: the thread is not waited for. *)
JoinNot ==
  /\ Goto(main, "join", "none")
  /\ Closed /\ freed' = freed + 1
  /\ UNCHANGED <<mutex, image, keepRunning, activated, published, drop, reads, faults>>

(* ... join, and delete of OCVCapture, which closes the device. *)
Join ==
  /\ at[main] = "join" /\ at[camera] = "exited"
  /\ at' = [t \in Threads |-> "none"]
  /\ Closed /\ freed' = freed + 1
  /\ UNCHANGED <<mutex, image, keepRunning, activated, published, drop, reads, faults>>

(* The constructor has failed: what is joined is no thread.  Where the call
   returns, OCVCapture is deleted once more, and the program ends. *)
JoinNothing ==
  /\ at[camera] = "none"
  /\ Goto(main, "join", "ended")
  /\ freed' = freed + 1
  /\ UNCHANGED <<captureVars, mutex, image, keepRunning, activated, published, drop, reads, faults>>

-----------------------------------------------------------------------------

Step(t) == Lock(t) \/ Grab(t) \/ Gray(t) \/ Unlock(t)

MainStep == DropFrame \/ StartThread \/ Step(main) \/ Join

CameraStep == BeginRead(camera) \/ Step(camera) \/ Publish \/ ThreadExits

Next ==
  \/ Filled
  \/ Construct \/ ConstructFails \/ BeginRead(main) \/ Delete \/ JoinNothing
  \/ MainStep \/ CameraStep

(* A thread goes on, the driver delivers.  Nothing makes main call. *)
Fairness ==
  /\ WF_cameraVars(Filled)
  /\ WF_cameraVars(MainStep)
  /\ WF_cameraVars(CameraStep)

Spec == Init /\ [][Next]_cameraVars /\ Fairness

-----------------------------------------------------------------------------

Using == {"setup", "select", "dequeue", "copy", "requeue", "gray", "grayRest"}

TypeOK ==
  /\ mapped \in 0 .. desiredBuffers
  /\ queue \in Seq(Buffers(mapped)) /\ done \in Seq(Buffers(mapped))
  /\ content \in [Buffers(desiredBuffers) -> 0 .. MaxFrames]
  /\ shot \in 0 .. MaxFrames
  /\ m_first_grab \in BOOLEAN
  /\ data \in NULL .. MaxFrames
  /\ hand \in Buffers(desiredBuffers)
  /\ at \in [Threads -> Using \cup {"none", "idle", "drop", "loop", "wait",
                                    "unlock", "publish", "exited", "join", "ended"}]
  /\ mutex \in Threads \cup {"free"}
  /\ image \in [Threads -> (0 .. MaxFrames) \X (0 .. MaxFrames)]
  /\ keepRunning \in BOOLEAN /\ activated \in BOOLEAN /\ published \in BOOLEAN
  /\ drop \in 0 .. Drop /\ freed \in 0 .. 2
  /\ reads \in 0 .. MaxReads /\ faults \in 0 .. MaxFaults

(* The device is used by one thread at a time, the constructor's and the
   destructor's unlocked calls included, and only while it is open. *)
Exclusive ==
  \A t \in Threads : at[t] \in Using =>
    /\ data # NULL
    /\ \A u \in Threads \ {t} : at[u] \notin Using

(* No buffer is with the driver twice or while it is copied, and none is
   lost unless a call has failed; so the frame that grab() copies is at most
   as many frames old as there are other buffers. *)
Held == IF \E t \in Threads : at[t] \in {"copy", "requeue"} THEN <<hand>> ELSE <<>>

BuffersAccounted ==
  LET known == queue \o done \o Held IN
  /\ IsInjective(known)
  /\ ~m_first_grab /\ data # NULL => Len(known) + faults >= mapped
  /\ \A t \in Threads : at[t] = "requeue" => shot - data < mapped

(* No reader is given an older frame than any reader was given before, and,
   as long as nothing fails, none that was given before. *)
Fresh ==
  [][\A t \in Threads : at[t] = "grayRest" /\ at'[t] = "unlock" =>
       \A u \in Threads : /\ image[u][2] <= image'[t][2]
                          /\ faults = 0 => image[u][2] < image'[t][2]]_cameraVars

(* The destructor returns, whatever the camera does. *)
StopEnds == at[main] = "join" /\ activated ~> at[main] = "none"

-----------------------------------------------------------------------------
(* What one would expect of a camera that may fail, and does not hold.      *)

(* The wrapper's OCVCapture is deleted once. *)
DeletedOnce == freed <= 1

(* A first grab that failed leaves nothing behind that makes the next fail. *)
SetupStartsOver ==
  m_first_grab /\ (\A t \in Threads : at[t] \notin Using) => queue = <<>>

(* Whatever fails, a read that reports an image gives a new one. *)
AlwaysFresh ==
  [][\A t \in Threads : at[t] = "grayRest" /\ at'[t] = "unlock" =>
       \A u \in Threads : image[u][2] < image'[t][2]]_cameraVars

(* What getLatest() returns, without the mutex, is of one frame. *)
LatestWhole == published => image[camera][1] = image[camera][2]

=============================================================================
