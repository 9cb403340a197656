---------------------------- MODULE CameraProofs ----------------------------
(* For any number of buffers, failures and reads: the capture is used by one *)
(* thread at a time and only while it is open, its buffers are accounted for *)
(* and no read gives a frame older than one before it.                       *)
EXTENDS Camera, TLAPS, FiniteSetTheorems, SequenceTheorems

Locked == Using \cup {"unlock"}

(* The camera thread lives between the end of the constructor and the join
   in the destructor, and all that time the device is open. *)
ThreadAlive ==
  at[camera] # "none" =>
    /\ activated /\ data # NULL /\ freed = 0
    /\ at[main] \notin {"none", "drop", "ended"}

(* The main thread calls nothing that needs the device before it is open or
   after it is closed. *)
MainOpen ==
  /\ at[main] \in Locked \cup {"drop", "wait"} => data # NULL /\ freed = 0
  /\ at[main] = "idle" /\ activated => data # NULL /\ freed = 0

Places ==
  /\ at[camera] \notin {"drop", "idle", "join", "ended"}
  /\ at[main] \notin {"loop", "publish", "exited"}
  /\ at[main] = "drop" => ~activated
  /\ at[main] \in {"wait", "gray", "grayRest", "unlock"} => activated
  /\ at[main] # "ended" => freed <= 1

(* Who uses the capture holds the mutex, the constructor excepted. *)
MutexHeld ==
  \A t \in Threads : at[t] \in Locked /\ activated => mutex = t

HandMapped ==
  \A t \in Threads : at[t] \in {"copy", "requeue"} => hand \in Buffers(mapped)

(* The parts of TypeOK, for the steps that disturb some of them only. *)
DriverTypes ==
  /\ mapped \in 0 .. desiredBuffers
  /\ queue \in Seq(Buffers(mapped)) /\ done \in Seq(Buffers(mapped))
  /\ content \in [Buffers(desiredBuffers) -> 0 .. MaxFrames]
  /\ shot \in 0 .. MaxFrames

DataTypes ==
  /\ m_first_grab \in BOOLEAN
  /\ data \in NULL .. MaxFrames
  /\ hand \in Buffers(desiredBuffers)

ImageTypes == image \in [Threads -> (0 .. MaxFrames) \X (0 .. MaxFrames)]

ThreadTypes ==
  /\ at \in [Threads -> Using \cup {"none", "idle", "drop", "loop", "wait",
                                    "unlock", "publish", "exited", "join", "ended"}]
  /\ mutex \in Threads \cup {"free"}
  /\ keepRunning \in BOOLEAN /\ activated \in BOOLEAN /\ published \in BOOLEAN
  /\ drop \in 0 .. Drop /\ freed \in 0 .. 2
  /\ reads \in 0 .. MaxReads /\ faults \in 0 .. MaxFaults

CameraInv ==
  /\ DriverTypes /\ DataTypes /\ ImageTypes /\ ThreadTypes
  /\ ThreadAlive /\ MainOpen /\ Places /\ MutexHeld /\ HandMapped

-----------------------------------------------------------------------------

(* The buffers queued first are buffers. *)
LEMMA AllQueuedType ==
  ASSUME NEW n \in Nat, NEW k \in 0 .. n
  PROVE  AllQueued(k) \in Seq(Buffers(n))
  BY DEF AllQueued, Buffers

(* Every buffer of some is one of more. *)
LEMMA BuffersSubset ==
  ASSUME NEW n \in Nat, NEW k \in 0 .. n, NEW b \in Buffers(k)
  PROVE  b \in Buffers(n)
  BY DEF Buffers

(* TypeOK is its parts. *)
LEMMA TypeParts == TypeOK <=> DriverTypes /\ DataTypes /\ ImageTypes /\ ThreadTypes
  BY DEF TypeOK, DriverTypes, DataTypes, ImageTypes, ThreadTypes

(* The constructor has not run yet. *)
LEMMA CameraInit == Init => CameraInv
<1> SUFFICES ASSUME Init PROVE CameraInv
  OBVIOUS
<1>1. TypeOK
  <2>1. content \in [Buffers(desiredBuffers) -> 0 .. MaxFrames]
    BY CameraAssumption DEF Init, Uninitialised
  <2>2. image \in [Threads -> (0 .. MaxFrames) \X (0 .. MaxFrames)]
    BY CameraAssumption DEF Init, NoImage, Uninitialised
  <2>3. hand \in Buffers(desiredBuffers) /\ data \in NULL .. MaxFrames
    BY CameraAssumption DEF Init, Buffers, NULL
  <2>4. queue \in Seq(Buffers(mapped)) /\ done \in Seq(Buffers(mapped))
    BY DEF Init
  <2> QED
    BY <2>1, <2>2, <2>3, <2>4, CameraAssumption DEF Init, TypeOK
<1>2. ThreadAlive /\ MainOpen /\ Places /\ MutexHeld /\ HandMapped
  BY DEF Init, ThreadAlive, MainOpen, Places, MutexHeld, HandMapped, Threads,
         Locked, Using
<1> QED
  BY <1>1, <1>2, TypeParts DEF CameraInv

(* A step of either thread inside read() or grab() keeps the invariant. *)
LEMMA StepKeeps ==
  ASSUME CameraInv, NEW t \in Threads, Step(t)
  PROVE  CameraInv'
<1>0. DriverTypes /\ DataTypes /\ ImageTypes /\ ThreadTypes
     /\ ThreadAlive /\ MainOpen /\ Places /\ MutexHeld /\ HandMapped
  BY DEF CameraInv
<1> USE CameraAssumption, <1>0
        DEF captureVars, driverVars, wrapperVars, Goto, Threads
<1>1. CASE Lock(t)
  <2>1. (DriverTypes /\ DataTypes /\ ImageTypes /\ ThreadTypes)'
    BY <1>1 DEF Lock, DriverTypes, DataTypes, ImageTypes, ThreadTypes, Using
  <2>2. (ThreadAlive /\ MainOpen /\ Places /\ MutexHeld /\ HandMapped)'
    BY <1>1
    DEF Lock, ThreadAlive, MainOpen, Places, MutexHeld, HandMapped,
        ThreadTypes, DriverTypes, Using, Locked, NULL
  <2> QED
    BY <2>1, <2>2 DEF CameraInv
<1>2. CASE Setup(t)
  <2>1. DriverTypes'
    <3>1. AllQueued(mapped) \in Seq(Buffers(mapped))
      BY AllQueuedType DEF DriverTypes
    <3> QED
      BY <3>1, <1>2 DEF Setup, DriverTypes
  <2>2. (DataTypes /\ ImageTypes /\ ThreadTypes)'
    BY <1>2 DEF Setup, DataTypes, ImageTypes, ThreadTypes, Using
  <2>3. (ThreadAlive /\ MainOpen /\ Places /\ MutexHeld /\ HandMapped)'
    BY <1>2
    DEF Setup, ThreadAlive, MainOpen, Places, MutexHeld, HandMapped,
        ThreadTypes, DriverTypes, Using, Locked, NULL
  <2> QED
    BY <2>1, <2>2, <2>3 DEF CameraInv
<1>3. CASE SetupFails(t)
  <2>1. DriverTypes'
    <3>1. \A n \in 0 .. mapped : AllQueued(n) \in Seq(Buffers(mapped))
      BY AllQueuedType DEF DriverTypes
    <3> QED
      BY <3>1, <1>3 DEF SetupFails, DriverTypes
  <2>2. (DataTypes /\ ImageTypes /\ ThreadTypes)'
    BY <1>3
    DEF SetupFails, Grabbed, Fault, DataTypes, ImageTypes, ThreadTypes, Using
  <2>3. (ThreadAlive /\ MainOpen /\ Places /\ MutexHeld /\ HandMapped)'
    BY <1>3
    DEF SetupFails, Grabbed, Fault, ThreadAlive, MainOpen, Places, MutexHeld,
        HandMapped, ThreadTypes, DriverTypes, Using, Locked, NULL
  <2> QED
    BY <2>1, <2>2, <2>3 DEF CameraInv
<1>4. CASE Select(t)
  <2>1. (DriverTypes /\ DataTypes /\ ImageTypes /\ ThreadTypes)'
    BY <1>4 DEF Select, DriverTypes, DataTypes, ImageTypes, ThreadTypes, Using
  <2>2. (ThreadAlive /\ MainOpen /\ Places /\ MutexHeld /\ HandMapped)'
    BY <1>4
    DEF Select, ThreadAlive, MainOpen, Places, MutexHeld, HandMapped,
        ThreadTypes, DriverTypes, Using, Locked, NULL
  <2> QED
    BY <2>1, <2>2 DEF CameraInv
<1>5. CASE SelectFails(t)
  <2>1. (DriverTypes /\ DataTypes /\ ImageTypes /\ ThreadTypes)'
    BY <1>5, SMTT(30)
    DEF SelectFails, Grabbed, Fault, DriverTypes, DataTypes, ImageTypes,
        ThreadTypes, Using
  <2>2. (ThreadAlive /\ MainOpen /\ Places /\ MutexHeld /\ HandMapped)'
    BY <1>5
    DEF SelectFails, Grabbed, Fault, ThreadAlive, MainOpen, Places, MutexHeld,
        HandMapped, ThreadTypes, DriverTypes, Using, Locked, NULL
  <2> QED
    BY <2>1, <2>2 DEF CameraInv
<1>6. CASE Dequeue(t)
  <2>1. DriverTypes'
    BY <1>6 DEF Dequeue, DriverTypes
  <2>2. DataTypes'
    <3>1. Head(done) \in Buffers(mapped)
      BY <1>6 DEF Dequeue, DriverTypes
    <3> QED
      BY <3>1, <1>6, BuffersSubset DEF Dequeue, DriverTypes, DataTypes
  <2>3. (ImageTypes /\ ThreadTypes)'
    BY <1>6 DEF Dequeue, ImageTypes, ThreadTypes, Using
  <2>4. (ThreadAlive /\ MainOpen /\ Places /\ MutexHeld /\ HandMapped)'
    <3>1. Head(done) \in Buffers(mapped)
      BY <1>6 DEF Dequeue, DriverTypes
    <3> QED
      BY <3>1, <1>6
      DEF Dequeue, ThreadAlive, MainOpen, Places, MutexHeld, HandMapped,
          ThreadTypes, Using, Locked
  <2> QED
    BY <2>1, <2>2, <2>3, <2>4 DEF CameraInv
<1>7. CASE DequeueFails(t)
  <2>1. DriverTypes'
    <3>1. CASE done' = done
      BY <3>1, <1>7 DEF DequeueFails, DriverTypes
    <3>2. CASE done # <<>> /\ done' = Tail(done)
      BY <3>2, <1>7 DEF DequeueFails, DriverTypes
    <3> QED
      BY <3>1, <3>2, <1>7 DEF DequeueFails
  <2>2. (DataTypes /\ ImageTypes /\ ThreadTypes)'
    BY <1>7
    DEF DequeueFails, Grabbed, Fault, DataTypes, ImageTypes, ThreadTypes,
        Using
  <2>3. (ThreadAlive /\ MainOpen /\ Places /\ MutexHeld /\ HandMapped)'
    BY <1>7
    DEF DequeueFails, Grabbed, Fault, ThreadAlive, MainOpen, Places,
        MutexHeld, HandMapped, ThreadTypes, DriverTypes, Using, Locked, NULL
  <2> QED
    BY <2>1, <2>2, <2>3 DEF CameraInv
<1>8. CASE Copy(t)
  <2>1. DataTypes'
    <3>1. content[hand] \in 0 .. MaxFrames
      BY DEF DriverTypes, DataTypes
    <3> QED
      BY <3>1, <1>8 DEF Copy, DataTypes, NULL
  <2>2. (DriverTypes /\ ImageTypes /\ ThreadTypes)'
    BY <1>8 DEF Copy, DriverTypes, ImageTypes, ThreadTypes, Using
  <2>3. (ThreadAlive /\ MainOpen /\ Places /\ MutexHeld /\ HandMapped)'
    <3>1. content[hand] \in 0 .. MaxFrames
      BY DEF DriverTypes, DataTypes
    <3>2. data' # NULL
      BY <3>1, <1>8 DEF Copy, NULL
    <3> QED
      BY <3>2, <1>8
      DEF Copy, ThreadAlive, MainOpen, Places, MutexHeld, HandMapped,
          ThreadTypes, Using, Locked
  <2> QED
    BY <2>1, <2>2, <2>3 DEF CameraInv
<1>9. CASE Requeue(t)
  <2>1. DriverTypes'
    <3>1. hand \in Buffers(mapped)
      BY <1>9 DEF Requeue, Grabbed, HandMapped
    <3> QED
      BY <3>1, <1>9 DEF Requeue, Fault, DriverTypes
  <2>2. (DataTypes /\ ImageTypes /\ ThreadTypes)'
    BY <1>9
    DEF Requeue, Grabbed, Fault, DataTypes, ImageTypes, ThreadTypes, Using
  <2>3. (ThreadAlive /\ MainOpen /\ Places /\ MutexHeld /\ HandMapped)'
    BY <1>9
    DEF Requeue, Grabbed, Fault, ThreadAlive, MainOpen, Places, MutexHeld,
        HandMapped, ThreadTypes, DriverTypes, Using, Locked, NULL
  <2> QED
    BY <2>1, <2>2, <2>3 DEF CameraInv
<1>10. CASE Gray(t)
  <2>1. ImageTypes'
    <3>1. data \in 0 .. MaxFrames
      BY <1>10
      DEF Gray, DataTypes, MainOpen, ThreadAlive, Places, ThreadTypes, Locked,
          Using, NULL
    <3>2. image[t] \in (0 .. MaxFrames) \X (0 .. MaxFrames)
      BY DEF ImageTypes
    <3>3. /\ [image[t] EXCEPT ![1] = data] \in (0 .. MaxFrames) \X (0 .. MaxFrames)
          /\ [image[t] EXCEPT ![2] = data] \in (0 .. MaxFrames) \X (0 .. MaxFrames)
      BY <3>1, <3>2
    <3> QED
      BY <3>3, <1>10 DEF Gray, ImageTypes
  <2>2. (DriverTypes /\ DataTypes /\ ThreadTypes)'
    BY <1>10 DEF Gray, DriverTypes, DataTypes, ThreadTypes, Using
  <2>3. (ThreadAlive /\ MainOpen /\ Places /\ MutexHeld /\ HandMapped)'
    BY <1>10
    DEF Gray, ThreadAlive, MainOpen, Places, MutexHeld, HandMapped,
        ThreadTypes, DriverTypes, Using, Locked, NULL
  <2> QED
    BY <2>1, <2>2, <2>3 DEF CameraInv
<1>11. CASE Unlock(t)
  <2>1. (DriverTypes /\ DataTypes /\ ImageTypes /\ ThreadTypes)'
    BY <1>11
    DEF Unlock, DriverTypes, DataTypes, ImageTypes, ThreadTypes, Using
  <2>2. (ThreadAlive /\ MainOpen /\ Places /\ MutexHeld /\ HandMapped)'
    BY <1>11
    DEF Unlock, ThreadAlive, MainOpen, Places, MutexHeld, HandMapped,
        ThreadTypes, DriverTypes, Using, Locked, NULL
  <2> QED
    BY <2>1, <2>2 DEF CameraInv
<1> QED
  BY <1>1, <1>2, <1>3, <1>4, <1>5, <1>6, <1>7, <1>8, <1>9, <1>10, <1>11
  DEF Step, Grab

(* The whole of what the two threads and the driver do keeps it. *)
LEMMA NextKeeps ==
  ASSUME CameraInv, [Next]_cameraVars
  PROVE  CameraInv'
<1>0. DriverTypes /\ DataTypes /\ ImageTypes /\ ThreadTypes
     /\ ThreadAlive /\ MainOpen /\ Places /\ MutexHeld /\ HandMapped
  BY DEF CameraInv
<1> USE CameraAssumption, <1>0
        DEF captureVars, driverVars, wrapperVars, Goto, Threads
<1>1. CASE Filled
  <2>1. DriverTypes'
    <3>1. Head(queue) \in Buffers(mapped) /\ Tail(queue) \in Seq(Buffers(mapped))
      BY <1>1 DEF Filled, DriverTypes
    <3>2. Append(done, Head(queue)) \in Seq(Buffers(mapped))
      BY <3>1 DEF DriverTypes
    <3>3. shot + 1 \in 0 .. MaxFrames
      BY <1>1 DEF Filled, DriverTypes
    <3> QED
      BY <3>1, <3>2, <3>3, <1>1 DEF Filled, DriverTypes
  <2>2. (DataTypes /\ ImageTypes /\ ThreadTypes)'
    BY <1>1 DEF Filled, DataTypes, ImageTypes, ThreadTypes, Using
  <2>3. (ThreadAlive /\ MainOpen /\ Places /\ MutexHeld /\ HandMapped)'
    BY <1>1
    DEF Filled, ThreadAlive, MainOpen, Places, MutexHeld, HandMapped,
        ThreadTypes, DriverTypes, Using, Locked, NULL
  <2> QED
    BY <2>1, <2>2, <2>3 DEF CameraInv
<1>2. CASE ConstructFails
  <2>1. ThreadTypes'
    <3>1. freed' \in 0 .. 2 /\ faults' \in 0 .. MaxFaults
      BY <1>2 DEF ConstructFails, Fault, ThreadTypes
    <3> QED
      BY <3>1, <1>2 DEF ConstructFails, ThreadTypes
  <2>2. (DriverTypes /\ DataTypes /\ ImageTypes)'
    BY <1>2 DEF ConstructFails, Fault, DriverTypes, DataTypes, ImageTypes
  <2>3. (ThreadAlive /\ MainOpen /\ Places /\ MutexHeld /\ HandMapped)'
    BY <1>2
    DEF ConstructFails, Fault, ThreadAlive, MainOpen, Places, MutexHeld,
        HandMapped, ThreadTypes, DriverTypes, Using, Locked, NULL
  <2> QED
    BY <2>1, <2>2, <2>3 DEF CameraInv
<1>3. CASE Construct
  <2>1. DataTypes'
    BY <1>3 DEF Construct, Opened, DataTypes, Uninitialised, Buffers, NULL
  <2>2. ImageTypes'
    <3>1. NoImage \in (0 .. MaxFrames) \X (0 .. MaxFrames)
      BY DEF NoImage, Uninitialised
    <3> QED
      BY <3>1, <1>3 DEF Construct, ImageTypes
  <2>3. ThreadTypes'
    <3>1. drop' \in 0 .. Drop /\ freed' \in 0 .. 2 /\ reads' \in 0 .. MaxReads
          /\ faults' \in 0 .. MaxFaults
      BY <1>3 DEF Construct
    <3> QED
      BY <3>1, <1>3 DEF Construct, ThreadTypes
  <2>4. DriverTypes'
    BY <1>3 DEF Construct, Opened, Uninitialised, DriverTypes
  <2>5. (ThreadAlive /\ MainOpen /\ Places /\ MutexHeld /\ HandMapped)'
    BY <1>3
    DEF Construct, Opened, Uninitialised, ThreadAlive, MainOpen, Places,
        MutexHeld, HandMapped, ThreadTypes, DriverTypes, Using, Locked, NULL
  <2> QED
    BY <2>1, <2>2, <2>3, <2>4, <2>5 DEF CameraInv
<1>4. CASE DropFrame
  <2>1. (DriverTypes /\ DataTypes /\ ImageTypes /\ ThreadTypes)'
    BY <1>4
    DEF DropFrame, DriverTypes, DataTypes, ImageTypes, ThreadTypes, Using
  <2>2. (ThreadAlive /\ MainOpen /\ Places /\ MutexHeld /\ HandMapped)'
    BY <1>4
    DEF DropFrame, ThreadAlive, MainOpen, Places, MutexHeld, HandMapped,
        ThreadTypes, DriverTypes, Using, Locked, NULL
  <2> QED
    BY <2>1, <2>2 DEF CameraInv
<1>5. CASE StartThread
  <2>1. (DriverTypes /\ DataTypes /\ ImageTypes /\ ThreadTypes)'
    BY <1>5
    DEF StartThread, DriverTypes, DataTypes, ImageTypes, ThreadTypes, Using
  <2>2. (ThreadAlive /\ MainOpen /\ Places /\ MutexHeld /\ HandMapped)'
    BY <1>5
    DEF StartThread, ThreadAlive, MainOpen, Places, MutexHeld, HandMapped,
        ThreadTypes, DriverTypes, Using, Locked, NULL
  <2> QED
    BY <2>1, <2>2 DEF CameraInv
<1>6. CASE BeginRead(main)
  <2>1. (DriverTypes /\ DataTypes /\ ImageTypes /\ ThreadTypes)'
    BY <1>6
    DEF BeginRead, DriverTypes, DataTypes, ImageTypes, ThreadTypes, Using
  <2>2. (ThreadAlive /\ MainOpen /\ Places /\ MutexHeld /\ HandMapped)'
    BY <1>6
    DEF BeginRead, ThreadAlive, MainOpen, Places, MutexHeld, HandMapped,
        ThreadTypes, DriverTypes, Using, Locked, NULL
  <2> QED
    BY <2>1, <2>2 DEF CameraInv
<1>7. CASE BeginRead(camera)
  <2>1. (DriverTypes /\ DataTypes /\ ImageTypes /\ ThreadTypes)'
    BY <1>7
    DEF BeginRead, DriverTypes, DataTypes, ImageTypes, ThreadTypes, Using
  <2>2. (ThreadAlive /\ MainOpen /\ Places /\ MutexHeld /\ HandMapped)'
    BY <1>7
    DEF BeginRead, ThreadAlive, MainOpen, Places, MutexHeld, HandMapped,
        ThreadTypes, DriverTypes, Using, Locked, NULL
  <2> QED
    BY <2>1, <2>2 DEF CameraInv
<1>8. CASE Publish
  <2>1. (DriverTypes /\ DataTypes /\ ImageTypes /\ ThreadTypes)'
    BY <1>8
    DEF Publish, DriverTypes, DataTypes, ImageTypes, ThreadTypes, Using
  <2>2. (ThreadAlive /\ MainOpen /\ Places /\ MutexHeld /\ HandMapped)'
    BY <1>8
    DEF Publish, ThreadAlive, MainOpen, Places, MutexHeld, HandMapped,
        ThreadTypes, DriverTypes, Using, Locked, NULL
  <2> QED
    BY <2>1, <2>2 DEF CameraInv
<1>9. CASE ThreadExits
  <2>1. (DriverTypes /\ DataTypes /\ ImageTypes /\ ThreadTypes)'
    BY <1>9
    DEF ThreadExits, DriverTypes, DataTypes, ImageTypes, ThreadTypes, Using
  <2>2. (ThreadAlive /\ MainOpen /\ Places /\ MutexHeld /\ HandMapped)'
    BY <1>9
    DEF ThreadExits, ThreadAlive, MainOpen, Places, MutexHeld, HandMapped,
        ThreadTypes, DriverTypes, Using, Locked, NULL
  <2> QED
    BY <2>1, <2>2 DEF CameraInv
<1>10. CASE Delete
  <2>1. (DriverTypes /\ DataTypes /\ ImageTypes /\ ThreadTypes)'
    BY <1>10
    DEF Delete, DriverTypes, DataTypes, ImageTypes, ThreadTypes, Using
  <2>2. (ThreadAlive /\ MainOpen /\ Places /\ MutexHeld /\ HandMapped)'
    BY <1>10
    DEF Delete, ThreadAlive, MainOpen, Places, MutexHeld, HandMapped,
        ThreadTypes, DriverTypes, Using, Locked, NULL
  <2> QED
    BY <2>1, <2>2 DEF CameraInv
<1>11. CASE Join
  <2>1. DataTypes'
    BY <1>11 DEF Join, Closed, DataTypes, NULL
  <2>2. ThreadTypes'
    <3>1. freed' = 1 /\ at' = [t \in Threads |-> "none"]
      BY <1>11 DEF Join, ThreadAlive
    <3> QED
      BY <3>1, <1>11 DEF Join, ThreadTypes
  <2>3. (DriverTypes /\ ImageTypes)'
    BY <1>11 DEF Join, Closed, DriverTypes, ImageTypes
  <2>4. (ThreadAlive /\ MainOpen /\ Places /\ MutexHeld /\ HandMapped)'
    BY <1>11
    DEF Join, Closed, ThreadAlive, MainOpen, Places, MutexHeld, HandMapped,
        ThreadTypes, DriverTypes, Using, Locked, NULL
  <2> QED
    BY <2>1, <2>2, <2>3, <2>4 DEF CameraInv
<1>12. CASE JoinNothing
  <2>1. ThreadTypes'
    <3>1. freed' \in 0 .. 2
      BY <1>12 DEF JoinNothing, ThreadTypes, Places
    <3> QED
      BY <3>1, <1>12 DEF JoinNothing, ThreadTypes
  <2>2. (DriverTypes /\ DataTypes /\ ImageTypes)'
    BY <1>12 DEF JoinNothing, DriverTypes, DataTypes, ImageTypes
  <2>3. (ThreadAlive /\ MainOpen /\ Places /\ MutexHeld /\ HandMapped)'
    BY <1>12
    DEF JoinNothing, ThreadAlive, MainOpen, Places, MutexHeld, HandMapped,
        ThreadTypes, DriverTypes, Using, Locked, NULL
  <2> QED
    BY <2>1, <2>2, <2>3 DEF CameraInv
<1>13. CASE \E t \in Threads : Step(t)
  BY <1>13, StepKeeps
<1>14. CASE UNCHANGED cameraVars
  BY <1>14
  DEF cameraVars, captureVars, driverVars, wrapperVars, CameraInv,
      DriverTypes, DataTypes, ImageTypes, ThreadTypes, ThreadAlive, MainOpen,
      Places, MutexHeld, HandMapped
<1> QED
  BY <1>1, <1>2, <1>3, <1>4, <1>5, <1>6, <1>7, <1>8, <1>9, <1>10, <1>11,
     <1>12, <1>13, <1>14
  DEF Next, MainStep, CameraStep, Threads

-----------------------------------------------------------------------------

(* The camera thread exists, and the mutex is held, as its steps need it. *)
THEOREM CameraInvariant == Spec => []CameraInv
  BY CameraInit, NextKeeps, PTL DEF Spec

(* Type correctness of the camera, with any number of buffers. *)
THEOREM CameraTypes == Spec => []TypeOK
<1>1. CameraInv => TypeOK
  BY TypeParts DEF CameraInv
<1> QED
  BY <1>1, CameraInvariant, PTL

(* The calls of OCVCapture never overlap and never meet a closed device: the
   mutex of read() and the join of the destructor are enough, although the
   constructor and the destructor take no lock. *)
THEOREM ExclusiveUse == Spec => []Exclusive
<1>1. CameraInv => Exclusive
  <2> SUFFICES ASSUME CameraInv, NEW t \in Threads, at[t] \in Using
               PROVE  data # NULL /\ \A u \in Threads \ {t} : at[u] \notin Using
    BY DEF Exclusive
  <2> USE DEF CameraInv, Threads, Using, Locked
  <2>1. data # NULL
    BY DEF ThreadAlive, MainOpen
  <2>2. ASSUME NEW u \in Threads \ {t}, at[u] \in Using PROVE FALSE
    <3>1. activated
      BY <2>2 DEF ThreadAlive
    <3>2. mutex = t /\ mutex = u
      BY <2>2, <3>1 DEF MutexHeld
    <3> QED
      BY <2>2, <3>2
  <2> QED
    BY <2>1, <2>2
<1> QED
  BY <1>1, CameraInvariant, PTL

-----------------------------------------------------------------------------
(* Where the buffers are and which frames they hold. *)

InHand == \E t \in Threads : at[t] \in {"copy", "requeue"}

(* No buffer is in two places. *)
BuffersApart ==
  /\ \A i, j \in DOMAIN queue : queue[i] = queue[j] => i = j
  /\ \A i, j \in DOMAIN done : done[i] = done[j] => i = j
  /\ \A i \in DOMAIN queue, j \in DOMAIN done : queue[i] # done[j]
  /\ InHand => /\ \A i \in DOMAIN queue : queue[i] # hand
               /\ \A i \in DOMAIN done : done[i] # hand

(* Once the stream is on, each failure has lost at most one. *)
NoneLost ==
  ~m_first_grab =>
    Len(queue) + Len(done) + (IF InHand THEN 1 ELSE 0) + faults >= mapped

FirstGrab ==
  /\ m_first_grab => done = <<>>
  /\ m_first_grab /\ faults = 0 => queue = <<>>
  /\ \A t \in Threads :
         at[t] \in {"select", "dequeue", "copy", "requeue"} => ~m_first_grab
  /\ data # NULL => mapped >= 1

(* The filled buffers hold the frames captured last, one after the other. *)
Numbered == \A i \in DOMAIN done : content[done[i]] = shot - Len(done) + i

(* The frame copied last is older than they are, the one in hand is the one
   before them. *)
Newest ==
  /\ data <= shot - Len(done)
  /\ \A t \in Threads :
         at[t] = "copy" => content[hand] = shot - Len(done) /\ data < content[hand]
  /\ \A t \in Threads : at[t] = "requeue" => data = shot - Len(done)

(* No image has a newer frame than the one copied last; and where nothing
   failed, it is a new one for the thread that is to convert it. *)
Unseen == faults = 0 /\ \E t \in Threads : at[t] \in {"requeue", "gray", "grayRest"}

ImagesOlder ==
  data # NULL =>
    \A u \in Threads : image[u][2] <= data /\ (Unseen => image[u][2] < data)

FramesInv ==
  BuffersApart /\ NoneLost /\ FirstGrab /\ Numbered /\ Newest /\ ImagesOlder

(* firstGrabSetup() queues every buffer once. *)
LEMMA AllQueuedApart ==
  ASSUME NEW n \in Nat
  PROVE  /\ Len(AllQueued(n)) = n
         /\ \A i, j \in DOMAIN AllQueued(n) : AllQueued(n)[i] = AllQueued(n)[j] => i = j
  BY DEF AllQueued

(* No buffer is anywhere before the device is opened. *)
LEMMA FramesInit == Init => FramesInv
  BY CameraAssumption
  DEF Init, FramesInv, BuffersApart, NoneLost, FirstGrab, Numbered, Newest,
      ImagesOlder, InHand,
      Unseen, Threads, NULL, Uninitialised, NoImage

(* While one thread uses the capture the other does not. *)
LEMMA OneInside ==
  ASSUME CameraInv, NEW t \in Threads, at[t] \in Using, NEW u \in Threads, u # t
  PROVE  at[u] \notin Locked
  BY CameraAssumption
  DEF CameraInv, MutexHeld, ThreadAlive, Threads, Locked, Using, Places

(* What is left when the oldest is taken. *)
LEMMA TailFacts ==
  ASSUME NEW S, NEW q \in Seq(S), q # <<>>
  PROVE  /\ Len(Tail(q)) = Len(q) - 1 /\ Len(q) \in Nat \ {0}
         /\ 1 \in DOMAIN q /\ Head(q) = q[1]
         /\ DOMAIN Tail(q) = 1 .. Len(q) - 1
         /\ \A i \in DOMAIN Tail(q) : i + 1 \in DOMAIN q /\ Tail(q)[i] = q[i + 1]
  OBVIOUS

(* The rest of a queue without repetition does not hold what was taken. *)
LEMMA TailApart ==
  ASSUME NEW S, NEW q \in Seq(S), q # <<>>, \A i, j \in DOMAIN q : q[i] = q[j] => i = j
  PROVE  /\ \A i, j \in DOMAIN Tail(q) : Tail(q)[i] = Tail(q)[j] => i = j
         /\ \A i \in DOMAIN Tail(q) :
                Tail(q)[i] # Head(q) /\ i + 1 \in DOMAIN q /\ Tail(q)[i] = q[i + 1]
         /\ 1 \in DOMAIN q /\ Head(q) = q[1]
  BY TailFacts

(* A queue stays without repetition when a new buffer joins it. *)
LEMMA AppendApart ==
  ASSUME NEW S, NEW q \in Seq(S), NEW e \in S,
         \A i, j \in DOMAIN q : q[i] = q[j] => i = j,
         \A i \in DOMAIN q : q[i] # e
  PROVE  /\ \A i, j \in DOMAIN Append(q, e) : Append(q, e)[i] = Append(q, e)[j] => i = j
         /\ \A i \in DOMAIN Append(q, e) :
              (i \in DOMAIN q /\ Append(q, e)[i] = q[i]) \/ Append(q, e)[i] = e
  OBVIOUS

(* grab(), step by step. *)
LEMMA GrabFrames ==
  ASSUME CameraInv, CameraInv', FramesInv, NEW t \in Threads, Grab(t)
  PROVE  FramesInv'
<1> USE CameraAssumption DEF captureVars, driverVars, wrapperVars, Goto
<1>0. DriverTypes /\ DataTypes /\ ImageTypes /\ ThreadTypes
     /\ ThreadAlive /\ MainOpen /\ Places /\ MutexHeld /\ HandMapped
  BY DEF CameraInv
<1>1. BuffersApart /\ NoneLost /\ FirstGrab /\ Numbered /\ Newest /\ ImagesOlder
  BY DEF FramesInv
<1>2. at[t] \in Using /\ \A u \in Threads : u # t => at[u] \notin Locked
  BY OneInside
  DEF Grab, Setup, SetupFails, Select, SelectFails, Dequeue, DequeueFails, Copy,
      Requeue, Grabbed, Using
<1>3. CASE Setup(t)
  <2>1. BuffersApart'
    BY <1>0, <1>1, <1>2, <1>3, AllQueuedApart
    DEF Setup, BuffersApart, FirstGrab, InHand, DriverTypes, ThreadTypes, Locked,
        Using
  <2>2. NoneLost'
    <3>1. ~InHand /\ ~InHand'
      BY <1>0, <1>2, <1>3 DEF Setup, InHand, ThreadTypes, Locked, Using
    <3>2. CASE m_first_grab
      BY <1>0, <1>1, <1>3, <3>1, <3>2, AllQueuedApart
      DEF Setup, NoneLost, FirstGrab, DriverTypes, ThreadTypes
    <3>3. CASE ~m_first_grab
      BY <1>1, <1>3, <3>1, <3>3 DEF Setup, NoneLost
    <3> QED
      BY <3>2, <3>3
  <2>3. (FirstGrab /\ Numbered)'
    BY <1>0, <1>1, <1>2, <1>3 DEF Setup, FirstGrab, Numbered
  <2>4. (Newest /\ ImagesOlder)'
    BY <1>0, <1>1, <1>2, <1>3
    DEF Setup, Newest, ImagesOlder, Unseen, ThreadTypes, Locked, Using
  <2> QED
    BY <2>1, <2>2, <2>3, <2>4 DEF FramesInv
<1>4. CASE SetupFails(t)
  <2>1. (BuffersApart /\ NoneLost)'
    BY <1>0, <1>1, <1>2, <1>4, AllQueuedApart
    DEF SetupFails, Grabbed, Fault, BuffersApart, NoneLost, FirstGrab, InHand,
        DriverTypes, ThreadTypes, Locked, Using
  <2>3. (FirstGrab /\ Numbered /\ Newest /\ ImagesOlder)'
    BY <1>0, <1>1, <1>2, <1>4
    DEF SetupFails, Grabbed, Fault, FirstGrab, Numbered, Newest, ImagesOlder, Unseen,
        DriverTypes, ThreadTypes, Locked, Using
  <2> QED
    BY <2>1, <2>3 DEF FramesInv
<1>5. CASE Select(t)
    BY <1>0, <1>1, <1>2, <1>5
    DEF Select, FramesInv, BuffersApart, NoneLost, FirstGrab, Numbered, Newest,
        ImagesOlder, Unseen, InHand, DriverTypes, ThreadTypes, Locked, Using
<1>6. CASE SelectFails(t)
  <2>1. (BuffersApart /\ NoneLost)'
    BY <1>0, <1>1, <1>2, <1>6
    DEF SelectFails, Grabbed, Fault, BuffersApart, NoneLost, FirstGrab, InHand,
        DriverTypes, ThreadTypes, Locked, Using
  <2>3. (FirstGrab /\ Numbered /\ Newest)'
    BY <1>0, <1>1, <1>2, <1>6
    DEF SelectFails, Grabbed, Fault, FirstGrab, Numbered, Newest, DriverTypes,
        ThreadTypes, Locked, Using
  <2>4. ImagesOlder'
    <3>1. data # NULL
      BY <1>0, <1>2 DEF ThreadAlive, MainOpen, Threads, Locked, Using
    <3>2. ~(faults' = 0)
      BY <1>0, <1>1, <1>2, <1>6, <3>1
      DEF SelectFails, Grabbed, Fault, NoneLost, FirstGrab, InHand, DriverTypes,
          ThreadTypes, Locked, Using
    <3> QED
      BY <1>1, <1>6, <3>2 DEF SelectFails, ImagesOlder, Unseen
  <2> QED
    BY <2>1, <2>3, <2>4 DEF FramesInv
<1>7. CASE Dequeue(t)
  <2>1. BuffersApart'
    BY <1>0, <1>1, <1>7, TailApart, SMTT(30) DEF Dequeue, BuffersApart, DriverTypes
  <2>2. (NoneLost /\ FirstGrab)'
    BY <1>0, <1>1, <1>2, <1>7
    DEF Dequeue, NoneLost, FirstGrab, InHand, DriverTypes, ThreadTypes, Locked,
        Using
  <2>3. (Numbered /\ Newest)'
    <3>1. /\ Len(done') = Len(done) - 1 /\ Len(done) \in Nat \ {0}
          /\ DOMAIN done' = 1 .. Len(done')
          /\ \A i \in DOMAIN done' : i + 1 \in DOMAIN done /\ done'[i] = done[i + 1]
          /\ hand' = done[1] /\ 1 \in DOMAIN done
      BY <1>0, <1>7 DEF Dequeue, DriverTypes
    <3>2. Numbered'
      BY <3>1, <1>0, <1>1, <1>7 DEF Dequeue, Numbered, DriverTypes
    <3>3. content'[hand'] = shot' - Len(done') /\ data' < content'[hand']
      BY <3>1, <1>0, <1>1, <1>7, SMTT(30)
      DEF Dequeue, Numbered, Newest, DriverTypes, DataTypes, NULL
    <3>4. \A u \in Threads : at'[u] # "requeue"
      BY <1>0, <1>2, <1>7 DEF Dequeue, ThreadTypes, Locked, Using
    <3> QED
      BY <3>1, <3>2, <3>3, <3>4, <1>0, <1>7
      DEF Dequeue, Newest, DriverTypes, DataTypes, NULL
  <2>4. ImagesOlder'
    BY <1>0, <1>1, <1>2, <1>7
    DEF Dequeue, ImagesOlder, Unseen, ThreadTypes, Locked, Using
  <2> QED
    BY <2>1, <2>2, <2>3, <2>4 DEF FramesInv
<1>8. CASE DequeueFails(t)
  <2>1. BuffersApart'
    <3>1. ~InHand'
      BY <1>0, <1>2, <1>8
      DEF DequeueFails, Grabbed, InHand, ThreadTypes, Locked, Using
    <3>2. queue' = queue /\ (done' = done \/ (done # <<>> /\ done' = Tail(done)))
      BY <1>8 DEF DequeueFails
    <3>3. CASE done' = done
      BY <1>1, <3>1, <3>2, <3>3 DEF BuffersApart
    <3>4. CASE done # <<>> /\ done' = Tail(done)
      BY <1>0, <1>1, <3>1, <3>2, <3>4, TailApart DEF BuffersApart, DriverTypes
    <3> QED
      BY <3>2, <3>3, <3>4
  <2>2. (NoneLost /\ FirstGrab)'
    BY <1>0, <1>1, <1>2, <1>8
    DEF DequeueFails, Grabbed, Fault, NoneLost, FirstGrab, InHand, DriverTypes,
        ThreadTypes, Locked, Using
  <2>3. (Numbered /\ Newest)'
    <3>1. \A u \in Threads : at'[u] \notin {"copy", "requeue"}
      BY <1>0, <1>2, <1>8 DEF DequeueFails, Grabbed, ThreadTypes, Locked, Using
    <3>2. CASE done' = done
      BY <3>1, <3>2, <1>1, <1>8 DEF DequeueFails, Numbered, Newest
    <3>3. CASE done # <<>> /\ done' = Tail(done)
      <4>1. /\ Len(done') = Len(done) - 1 /\ Len(done) \in Nat \ {0}
            /\ DOMAIN done' = 1 .. Len(done')
            /\ \A i \in DOMAIN done' : i + 1 \in DOMAIN done /\ done'[i] = done[i + 1]
        BY <1>0, <3>3 DEF DriverTypes
      <4> QED
        BY <3>1, <4>1, <1>0, <1>1, <1>8, SMTT(30)
        DEF DequeueFails, Numbered, Newest, DriverTypes, DataTypes, NULL
    <3> QED
      BY <3>2, <3>3, <1>8 DEF DequeueFails
  <2>4. ImagesOlder'
    BY <1>0, <1>1, <1>2, <1>8
    DEF DequeueFails, Grabbed, Fault, ImagesOlder, Unseen, ThreadTypes, Locked,
        Using
  <2> QED
    BY <2>1, <2>2, <2>3, <2>4 DEF FramesInv
<1>9. CASE Copy(t)
  <2>0. InHand' /\ InHand
    BY <1>0, <1>9 DEF Copy, InHand, ThreadTypes
  <2>1. (BuffersApart /\ NoneLost /\ FirstGrab)'
    <3>1. data # NULL
      BY <1>0, <1>2 DEF ThreadAlive, MainOpen, Threads, Locked, Using
    <3>2. (BuffersApart /\ NoneLost)'
      BY <1>1, <1>9, <2>0 DEF Copy, BuffersApart, NoneLost
    <3> QED
      BY <1>0, <1>1, <1>9, <3>1, <3>2 DEF Copy, FirstGrab, ThreadTypes
  <2>2. (Numbered /\ Newest)'
    BY <1>0, <1>1, <1>2, <1>9
    DEF Copy, Numbered, Newest, DriverTypes, DataTypes, ThreadTypes, Locked, Using
  <2>3. ImagesOlder'
    <3>1. data # NULL
      BY <1>0, <1>2 DEF ThreadAlive, MainOpen, Threads, Locked, Using
    <3> QED
    BY <1>0, <1>1, <1>2, <1>9, <3>1
    DEF Copy, ImagesOlder, Newest, ImageTypes, DataTypes, DriverTypes
  <2> QED
    BY <2>1, <2>2, <2>3 DEF FramesInv
<1>10. CASE Requeue(t)
  <2>1. BuffersApart'
    <3>1. InHand /\ ~InHand' /\ hand \in Buffers(mapped)
      BY <1>0, <1>2, <1>10
      DEF Requeue, Grabbed, InHand, ThreadTypes, Locked, Using, HandMapped
    <3>2. done' = done /\ (queue' = queue \/ queue' = Append(queue, hand))
      BY <1>10 DEF Requeue
    <3>3. CASE queue' = Append(queue, hand)
      <4>1. \A i \in DOMAIN queue : queue[i] # hand
        BY <1>1, <3>1 DEF BuffersApart
      <4> QED
        BY <1>0, <1>1, <3>1, <3>2, <3>3, <4>1, AppendApart
        DEF BuffersApart, DriverTypes
    <3> QED
      BY <1>1, <3>1, <3>2, <3>3 DEF BuffersApart
  <2>2. (NoneLost /\ FirstGrab)'
    BY <1>0, <1>1, <1>2, <1>10
    DEF Requeue, Grabbed, Fault, NoneLost, FirstGrab, InHand, DriverTypes,
        ThreadTypes, Locked, Using
  <2>3. (Numbered /\ Newest /\ ImagesOlder)'
    BY <1>0, <1>1, <1>2, <1>10
    DEF Requeue, Grabbed, Fault, Numbered, Newest, ImagesOlder, Unseen, DriverTypes,
        DataTypes, ThreadTypes, Locked, Using
  <2> QED
    BY <2>1, <2>2, <2>3 DEF FramesInv
<1> QED
  BY <1>3, <1>4, <1>5, <1>6, <1>7, <1>8, <1>9, <1>10 DEF Grab

(* The driver fills a buffer. *)
LEMMA FilledFrames ==
  ASSUME CameraInv, FramesInv, Filled
  PROVE  FramesInv'
<1> USE CameraAssumption, BuffersSubset DEF Filled, wrapperVars
<1>0. DriverTypes /\ DataTypes /\ ThreadTypes /\ HandMapped
  BY DEF CameraInv
<1>1. BuffersApart /\ NoneLost /\ FirstGrab /\ Numbered /\ Newest /\ ImagesOlder
  BY DEF FramesInv
<1> DEFINE b == Head(queue)
<1>2. /\ b \in Buffers(mapped) /\ b \in Buffers(desiredBuffers)
      /\ b = queue[1] /\ 1 \in DOMAIN queue
      /\ \A i \in DOMAIN done : done[i] # b /\ done[i] \in Buffers(desiredBuffers)
      /\ InHand => hand # b
  <2>1. queue \in Seq(Buffers(mapped)) /\ queue # <<>> /\ done \in Seq(Buffers(mapped))
    BY <1>0 DEF DriverTypes
  <2>2. b = queue[1] /\ 1 \in DOMAIN queue /\ b \in Buffers(mapped)
    BY <2>1
  <2>3. Buffers(mapped) \subseteq Buffers(desiredBuffers)
    BY <1>0 DEF DriverTypes
  <2>4. \A i \in DOMAIN done : done[i] \in Buffers(mapped)
    BY <2>1
  <2>5. \A i \in DOMAIN done : done[i] # b
    BY <1>1, <2>2 DEF BuffersApart
  <2>6. InHand => hand # b
    BY <1>1, <2>2 DEF BuffersApart
  <2> QED
    BY <2>2, <2>3, <2>4, <2>5, <2>6
<1>3. InHand' = InHand /\ Unseen' = Unseen
  BY DEF InHand, Unseen
<1>4. /\ Len(done') = Len(done) + 1
      /\ Len(done) \in Nat /\ DOMAIN done' = 1 .. Len(done) + 1
      /\ \A i \in DOMAIN done : done'[i] = done[i]
      /\ done'[Len(done) + 1] = b
      /\ Len(queue') = Len(queue) - 1 /\ Len(queue) \in Nat
  <2>1. /\ queue \in Seq(Buffers(mapped)) /\ done \in Seq(Buffers(mapped))
        /\ queue # <<>> /\ done' = Append(done, b) /\ queue' = Tail(queue)
    BY <1>0 DEF DriverTypes
  <2> HIDE DEF b, Filled
  <2>2. Len(queue') = Len(queue) - 1 /\ Len(queue) \in Nat
    BY <2>1
  <2>3. Len(done') = Len(done) + 1 /\ Len(done) \in Nat
    BY <2>1, <1>2
  <2>4. /\ DOMAIN done' = 1 .. Len(done) + 1 /\ done'[Len(done) + 1] = b
        /\ \A i \in DOMAIN done : done'[i] = done[i]
    BY <2>1, <1>2
  <2> QED
    BY <2>2, <2>3, <2>4
<1>5. BuffersApart'
  <2>1. /\ \A i, j \in DOMAIN queue' : queue'[i] = queue'[j] => i = j
        /\ \A i \in DOMAIN queue' :
               queue'[i] # b /\ i + 1 \in DOMAIN queue /\ queue'[i] = queue[i + 1]
    BY <1>0, <1>1, TailApart DEF BuffersApart, DriverTypes
  <2>2. /\ \A i, j \in DOMAIN done' : done'[i] = done'[j] => i = j
        /\ \A i \in DOMAIN done' :
              (i \in DOMAIN done /\ done'[i] = done[i]) \/ done'[i] = b
    <3>1. done \in Seq(Buffers(mapped)) /\ \A i, j \in DOMAIN done :
                                               done[i] = done[j] => i = j
      BY <1>0, <1>1 DEF BuffersApart, DriverTypes
    <3>2. /\ done' = Append(done, b) /\ b \in Buffers(mapped)
          /\ \A i \in DOMAIN done : done[i] # b
      BY <1>2
    <3> HIDE DEF b
    <3> QED
      BY <3>1, <3>2, AppendApart
  <2> HIDE DEF b
  <2> QED
    BY <1>1, <1>2, <1>3, <2>1, <2>2 DEF BuffersApart
<1>6. NoneLost' /\ FirstGrab'
  BY <1>0, <1>1, <1>3, <1>4 DEF NoneLost, FirstGrab, DriverTypes, ThreadTypes
<1>7. Numbered'
  <2>1. content'[b] = shot + 1 /\ \A i \in DOMAIN done :
                                      content'[done[i]] = content[done[i]]
    BY <1>0, <1>2 DEF DriverTypes
  <2> HIDE DEF b
  <2> QED
    BY <1>0, <1>1, <1>4, <2>1, SMTT(30) DEF Numbered, DriverTypes
<1>8. Newest'
  <2>1. InHand => content'[hand] = content[hand]
    BY <1>0, <1>2 DEF DriverTypes, DataTypes
  <2>2. shot' - Len(done') = shot - Len(done)
    BY <1>0, <1>4 DEF DriverTypes
  <2> QED
    BY <1>1, <2>1, <2>2 DEF Newest, InHand
<1>9. ImagesOlder'
  BY <1>1, <1>3 DEF ImagesOlder
<1> QED
  BY <1>5, <1>6, <1>7, <1>8, <1>9 DEF FramesInv

(* What neither moves a buffer nor copies a frame. *)
LEMMA OtherFrames ==
  ASSUME CameraInv, FramesInv,
         UNCHANGED <<mapped, queue, done, content, shot, m_first_grab, data, hand>>,
         faults' \in Nat, faults' >= faults,
         \A t \in Threads :
             at'[t] \in {"select", "dequeue", "copy", "requeue"} => at'[t] = at[t],
         InHand' = InHand,
         data # NULL => \A u \in Threads : image'[u][2] = image[u][2],
         Unseen' => Unseen
  PROVE  FramesInv'
<1>0. DriverTypes /\ DataTypes /\ ThreadTypes
  BY DEF CameraInv
<1>1. BuffersApart /\ NoneLost /\ FirstGrab /\ Numbered /\ Newest /\ ImagesOlder
  BY DEF FramesInv
<1>2. BuffersApart' /\ Numbered'
  BY <1>1 DEF BuffersApart, Numbered
<1>3. NoneLost'
  BY <1>0, <1>1, CameraAssumption DEF NoneLost, DriverTypes, ThreadTypes
<1>4. FirstGrab'
  BY <1>0, <1>1, CameraAssumption DEF FirstGrab, ThreadTypes
<1>5. Newest' /\ ImagesOlder'
  BY <1>1 DEF Newest, ImagesOlder
<1> QED
  BY <1>2, <1>3, <1>4, <1>5 DEF FramesInv

(* Every step of the system. *)
LEMMA FramesStep ==
  ASSUME CameraInv, CameraInv', FramesInv, [Next]_cameraVars
  PROVE  FramesInv'
<1> USE CameraAssumption DEF captureVars, driverVars, wrapperVars, Goto, Threads
<1>0. DriverTypes /\ DataTypes /\ ImageTypes /\ ThreadTypes
     /\ ThreadAlive /\ MainOpen /\ Places /\ MutexHeld /\ HandMapped
  BY DEF CameraInv
<1>a. faults \in Nat
  BY <1>0 DEF ThreadTypes
<1>1. CASE Filled
  BY <1>1, FilledFrames
<1>2. CASE ConstructFails
  <2>1. ~InHand' /\ ~InHand /\ ~Unseen'
    BY <1>0, <1>2
    DEF ConstructFails, Fault, InHand, Unseen, ThreadTypes, ThreadAlive
  <2>2. faults' \in Nat /\ faults' >= faults
    BY <1>a, <1>2 DEF ConstructFails, Fault
  <2>3. UNCHANGED <<mapped, queue, done, content, shot, m_first_grab, data, hand,
                    image>>
    BY <1>2 DEF ConstructFails
  <2>4. \A t \in Threads :
            at'[t] \in {"select", "dequeue", "copy", "requeue"} => at'[t] = at[t]
    BY <1>0, <1>2 DEF ConstructFails, ThreadTypes
  <2> QED
    <3>1. InHand' = InHand /\ (Unseen' => Unseen)
      BY <2>1 DEF InHand
    <3>2. data # NULL => \A u \in Threads : image'[u][2] = image[u][2]
      BY <2>3
    <3> QED
      BY <2>2, <2>3, <2>4, <3>1, <3>2, OtherFrames
<1>3. CASE Construct
  <2>1. \A t \in Threads : at'[t] \in {"none", "drop"}
    BY <1>0, <1>3 DEF Construct, ThreadAlive, ThreadTypes
  <2> QED
    BY <1>3, <2>1
    DEF Construct, Opened, FramesInv, BuffersApart, NoneLost, FirstGrab, Numbered,
        Newest,
        ImagesOlder, InHand, Unseen, Uninitialised, NULL, NoImage
<1>4. CASE DropFrame
  <2>1. InHand' = InHand /\ (Unseen' => Unseen)
    BY <1>0, <1>4 DEF DropFrame, InHand, Unseen, ThreadTypes
  <2> QED
    BY <1>0, <1>a, <1>4, <2>1, OtherFrames DEF DropFrame, ThreadTypes
<1>5. CASE StartThread
  <2>1. InHand' = InHand /\ (Unseen' => Unseen)
    BY <1>0, <1>5 DEF StartThread, InHand, Unseen, ThreadTypes, ThreadAlive
  <2> QED
    BY <1>0, <1>a, <1>5, <2>1, OtherFrames DEF StartThread, ThreadTypes
<1>6. ASSUME NEW t \in Threads, BeginRead(t) PROVE FramesInv'
  <2>1. InHand' = InHand /\ (Unseen' => Unseen)
    BY <1>0, <1>6 DEF BeginRead, InHand, Unseen, ThreadTypes
  <2> QED
    BY <1>0, <1>a, <1>6, <2>1, OtherFrames DEF BeginRead, ThreadTypes
<1>7. ASSUME NEW t \in Threads, Lock(t) \/ Unlock(t) PROVE FramesInv'
  <2>1. InHand' = InHand /\ (Unseen' => Unseen)
    BY <1>0, <1>7 DEF Lock, Unlock, InHand, Unseen, ThreadTypes
  <2> QED
    BY <1>0, <1>a, <1>7, <2>1, OtherFrames DEF Lock, Unlock, ThreadTypes
<1>8. ASSUME NEW t \in Threads, Gray(t) PROVE FramesInv'
  <2>1. CASE at[t] = "gray"
    <3>1. InHand' = InHand /\ (Unseen' => Unseen)
      BY <1>0, <1>8, <2>1 DEF Gray, InHand, Unseen, ThreadTypes
    <3>2. \A u \in Threads : image'[u][2] = image[u][2]
      BY <1>0, <1>8, <2>1 DEF Gray, ImageTypes
    <3> QED
      BY <1>0, <1>a, <1>8, <2>1, <3>1, <3>2, OtherFrames DEF Gray, ThreadTypes
  <2>2. CASE at[t] = "grayRest"
    <3>1. InHand' = InHand /\ ~Unseen'
      BY <1>0, <1>8, <2>2, OneInside
      DEF Gray, InHand, Unseen, ThreadTypes, Using, Locked
    <3>2. \A u \in Threads : image'[u][2] = IF u = t THEN data ELSE image[u][2]
      BY <1>0, <1>8, <2>2 DEF Gray, ImageTypes
    <3>3. ImagesOlder'
      BY <1>0, <1>8, <3>1, <3>2 DEF Gray, ImagesOlder, FramesInv, DataTypes, NULL
    <3>4. (BuffersApart /\ NoneLost /\ FirstGrab /\ Numbered /\ Newest)'
      BY <1>0, <1>8, <3>1, <2>2
      DEF Gray, FramesInv, BuffersApart, NoneLost, FirstGrab, Numbered, Newest,
          ThreadTypes
    <3> QED
      BY <3>3, <3>4 DEF FramesInv
  <2> QED
    BY <1>8, <2>1, <2>2 DEF Gray
<1>9. ASSUME NEW t \in Threads, Grab(t) PROVE FramesInv'
  BY <1>9, GrabFrames
<1>10. CASE Publish \/ ThreadExits \/ Delete
  <2>1. InHand' = InHand /\ (Unseen' => Unseen)
    BY <1>0, <1>10 DEF Publish, ThreadExits, Delete, InHand, Unseen, ThreadTypes
  <2> QED
    BY <1>0, <1>a, <1>10, <2>1, OtherFrames
    DEF Publish, ThreadExits, Delete, ThreadTypes
<1>11. CASE Join
  BY <1>0, <1>a, <1>11
  DEF Join, Closed, FramesInv, BuffersApart, NoneLost, FirstGrab, Numbered, Newest,
      ImagesOlder, InHand, NULL, DriverTypes
<1>12. CASE JoinNothing
  <2>1. InHand' = InHand /\ (Unseen' => Unseen)
    BY <1>0, <1>12 DEF JoinNothing, InHand, Unseen, ThreadTypes
  <2> QED
    BY <1>0, <1>a, <1>12, <2>1, OtherFrames DEF JoinNothing, ThreadTypes
<1>13. CASE UNCHANGED cameraVars
  BY <1>13
  DEF cameraVars, FramesInv, BuffersApart, NoneLost, FirstGrab, Numbered, Newest,
      ImagesOlder, InHand, Unseen
<1> QED
  BY <1>1, <1>2, <1>3, <1>4, <1>5, <1>6, <1>7, <1>8, <1>9, <1>10, <1>11, <1>12,
     <1>13
  DEF Next, MainStep, CameraStep, Step

(* The order of the frames and the places of the buffers, at all times. *)
THEOREM FramesInvariant == Spec => []FramesInv
<1>1. CameraInv /\ FramesInv /\ [Next]_cameraVars => FramesInv'
  BY NextKeeps, FramesStep
<1> QED
  BY <1>1, FramesInit, CameraInvariant, PTL DEF Spec

(* Buffers of which one more is apart are fewer than there are. *)
LEMMA FewerThanMapped ==
  ASSUME NEW n \in Nat, NEW q \in Seq(Buffers(n)), NEW b \in Buffers(n),
         \A i, j \in DOMAIN q : q[i] = q[j] => i = j,
         \A i \in DOMAIN q : q[i] # b
  PROVE  Len(q) < n
<1> DEFINE p == Append(q, b)
<1>1. p \in [1 .. Len(q) + 1 -> 0 .. n - 1] /\ Len(q) \in Nat
  <2>1. p \in Seq(0 .. n - 1) /\ Len(p) = Len(q) + 1 /\ Len(q) \in Nat
    BY DEF Buffers
  <2> HIDE DEF p
  <2> QED
    BY <2>1, LenProperties
<1>2. \A i, j \in 1 .. Len(q) + 1 : p[i] = p[j] => i = j
  OBVIOUS
<1> HIDE DEF p
<1>3. /\ IsFiniteSet(1 .. Len(q) + 1) /\ Cardinality(1 .. Len(q) + 1) = Len(q) + 1
      /\ IsFiniteSet(0 .. n - 1) /\ Cardinality(0 .. n - 1) = n
  <2>1. 1 \in Int /\ Len(q) + 1 \in Int /\ 0 \in Int /\ n - 1 \in Int /\ Len(q) \in Nat
    BY <1>1
  <2>2. /\ IsFiniteSet(1 .. Len(q) + 1)
        /\ Cardinality(1 .. Len(q) + 1) =
             (IF 1 > Len(q) + 1 THEN 0 ELSE Len(q) + 1 - 1 + 1)
    BY <2>1, FS_Interval
  <2>3. /\ IsFiniteSet(0 .. n - 1)
        /\ Cardinality(0 .. n - 1) = IF 0 > n - 1 THEN 0 ELSE n - 1 - 0 + 1
    BY <2>1, FS_Interval
  <2> QED
    BY <2>1, <2>2, <2>3
<1>4. CASE Cardinality(0 .. n - 1) < Cardinality(1 .. Len(q) + 1)
  BY <1>1, <1>2, <1>3, <1>4, FS_PigeonHole, SMTT(30)
<1> QED
  BY <1>1, <1>3, <1>4

(* Two queues without repetition that have no buffer in common. *)
LEMMA KnownApart ==
  ASSUME NEW S, NEW p \in Seq(S), NEW q \in Seq(S),
         \A i, j \in DOMAIN p : p[i] = p[j] => i = j,
         \A i, j \in DOMAIN q : q[i] = q[j] => i = j,
         \A i \in DOMAIN p, j \in DOMAIN q : p[i] # q[j]
  PROVE  /\ p \o q \in Seq(S) /\ Len(p \o q) = Len(p) + Len(q)
         /\ \A i, j \in DOMAIN (p \o q) : (p \o q)[i] = (p \o q)[j] => i = j
         /\ \A i \in DOMAIN (p \o q) :
              \/ \E j \in DOMAIN p : (p \o q)[i] = p[j]
              \/ \E j \in DOMAIN q : (p \o q)[i] = q[j]
<1>1. /\ p \o q \in Seq(S) /\ Len(p \o q) = Len(p) + Len(q)
      /\ Len(p) \in Nat /\ Len(q) \in Nat
      /\ DOMAIN p = 1 .. Len(p)
      /\ DOMAIN q = 1 .. Len(q) /\ DOMAIN (p \o q) = 1 .. Len(p) + Len(q)
      /\ \A i \in 1 .. Len(p) + Len(q) :
             (p \o q)[i] = IF i <= Len(p) THEN p[i] ELSE q[i - Len(p)]
  OBVIOUS
<1>2. \A i \in DOMAIN (p \o q) :
        \/ i \in DOMAIN p /\ (p \o q)[i] = p[i]
        \/ i - Len(p) \in DOMAIN q /\ i > Len(p) /\ (p \o q)[i] = q[i - Len(p)]
  <2> TAKE i \in DOMAIN (p \o q)
  <2>1. i \in 1 .. Len(p) + Len(q) /\ i \in Int /\ Len(p) \in Int /\ Len(q) \in Int
    BY <1>1
  <2>2. CASE i <= Len(p)
    <3>1. i \in 1 .. Len(p)
      BY <2>1, <2>2
    <3>2. i \in DOMAIN p
      BY <1>1, <3>1
    <3>3. (p \o q)[i] = p[i]
      BY <2>1, <2>2, ConcatProperties
    <3> QED
      BY <3>2, <3>3
  <2>3. CASE i > Len(p)
    <3>1. i - Len(p) \in 1 .. Len(q)
      BY <2>1, <2>3
    <3> QED
      BY <1>1, <2>1, <2>3, <3>1
  <2> QED
    BY <2>1, <2>2, <2>3
<1>3. \A i \in DOMAIN (p \o q) :
        \/ \E j \in DOMAIN p : (p \o q)[i] = p[j]
        \/ \E j \in DOMAIN q : (p \o q)[i] = q[j]
  BY <1>2
<1>4. ASSUME NEW i \in DOMAIN (p \o q), NEW j \in DOMAIN (p \o q),
             (p \o q)[i] = (p \o q)[j]
      PROVE  i = j
  <2>1. i \in Int /\ j \in Int /\ Len(p) \in Int
    BY <1>1
  <2>2. CASE i \in DOMAIN p /\ (p \o q)[i] = p[i]
    BY <1>2, <1>4, <2>2
  <2>3. CASE i - Len(p) \in DOMAIN q /\ i > Len(p) /\ (p \o q)[i] = q[i - Len(p)]
    <3>1. j - Len(p) \in DOMAIN q /\ (p \o q)[j] = q[j - Len(p)]
      BY <1>2, <1>4, <2>3
    <3>2. i - Len(p) = j - Len(p)
      BY <3>1, <2>3, <1>4
    <3> QED
      BY <2>1, <3>2
  <2> QED
    BY <1>2, <2>2, <2>3
<1> QED
  BY <1>1, <1>3, <1>4

(* No buffer is with the driver twice or while grab() copies it, none is lost
   but by a failed call, and grab() copies a frame that is fewer frames old
   than there are buffers. *)
THEOREM NoBufferLost == Spec => []BuffersAccounted
<1>1. ASSUME CameraInv, FramesInv PROVE BuffersAccounted
  <2>0. DriverTypes /\ DataTypes /\ ThreadTypes /\ HandMapped
    BY <1>1 DEF CameraInv
  <2>1. BuffersApart /\ NoneLost /\ Newest
    BY <1>1 DEF FramesInv
  <2>a. Held = (IF InHand THEN <<hand>> ELSE <<>>)
    BY DEF Held, InHand
  <2>2. Held \in Seq(Buffers(mapped)) /\ Len(Held) = IF InHand THEN 1 ELSE 0
    BY <2>0, <2>a DEF InHand, HandMapped
  <2>b. \A i \in DOMAIN Held : InHand /\ Held[i] = hand /\ i = 1
    BY <2>a
  <2> DEFINE filled == queue \o done
             known == filled \o Held
  <2>3. /\ filled \in Seq(Buffers(mapped)) /\ Len(filled) = Len(queue) + Len(done)
        /\ \A i, j \in DOMAIN filled : filled[i] = filled[j] => i = j
        /\ \A i \in DOMAIN filled : InHand => filled[i] # hand
    BY <2>0, <2>1, KnownApart, SMTT(30) DEF BuffersApart, DriverTypes
  <2> HIDE DEF filled
  <2>4. /\ Len(known) = Len(filled) + Len(Held)
        /\ \A i, j \in DOMAIN known : known[i] = known[j] => i = j
    <3>1. \A i, j \in DOMAIN Held : Held[i] = Held[j] => i = j
      BY <2>b
    <3>2. \A i \in DOMAIN filled, j \in DOMAIN Held : filled[i] # Held[j]
      BY <2>b, <2>3
    <3> QED
      BY <2>2, <2>3, <3>1, <3>2, KnownApart, ZenonT(60)
  <2>5. ASSUME NEW t \in Threads, at[t] = "requeue" PROVE shot - data < mapped
    <3>1. Len(done) < mapped
      BY <2>0, <2>1, <2>5, FewerThanMapped
      DEF BuffersApart, InHand, DriverTypes, HandMapped
    <3> QED
      BY <2>0, <2>1, <2>5, <3>1 DEF Newest, DriverTypes, DataTypes
  <2>6. known = queue \o done \o Held
    BY DEF filled
  <2>7. ~m_first_grab => Len(known) + faults >= mapped
    BY <2>1, <2>2, <2>3, <2>4 DEF NoneLost
  <2> HIDE DEF known
  <2> QED
    BY <2>4, <2>5, <2>6, <2>7 DEF BuffersAccounted, IsInjective
<1> QED
  BY <1>1, CameraInvariant, FramesInvariant, PTL

(* No read gives an older frame than any read before it, and, as long as
   nothing fails, none gives a frame that was given before. *)
THEOREM NoFrameTwice == Spec => Fresh
<1> DEFINE Newer == \A t \in Threads : at[t] = "grayRest" /\ at'[t] = "unlock" =>
                      \A u \in Threads : /\ image[u][2] <= image'[t][2]
                                         /\ faults = 0 => image[u][2] < image'[t][2]
<1>1. ASSUME CameraInv, FramesInv, [Next]_cameraVars PROVE [Newer]_cameraVars
  <2>0. DriverTypes /\ DataTypes /\ ImageTypes /\ ThreadTypes
        /\ ThreadAlive /\ MainOpen /\ Places /\ MutexHeld /\ HandMapped
    BY <1>1 DEF CameraInv
  <2> SUFFICES ASSUME NEW t \in Threads, at[t] = "grayRest", at'[t] = "unlock"
               PROVE  \A u \in Threads : /\ image[u][2] <= image'[t][2]
                                         /\ faults = 0 => image[u][2] < image'[t][2]
    OBVIOUS
  <2>1. Gray(t)
    <3> USE <2>0 DEF ThreadTypes, Goto, Threads
    <3>1. ~UNCHANGED cameraVars
      BY DEF cameraVars
    <3>2. ~(Filled \/ Construct \/ ConstructFails \/ Delete \/ JoinNothing \/ DropFrame
            \/ StartThread \/ Join \/ Publish \/ ThreadExits)
      BY DEF Filled, Construct, ConstructFails, Delete, JoinNothing, DropFrame,
             StartThread,
             Join, Publish, ThreadExits
    <3>3. ASSUME NEW u \in Threads
          PROVE  ~(BeginRead(u) \/ Lock(u) \/ Unlock(u))
      BY DEF BeginRead, Lock, Unlock
    <3>4. ASSUME NEW u \in Threads
          PROVE  ~Grab(u)
      BY DEF Grab, Setup, SetupFails, Select, SelectFails, Dequeue, DequeueFails,
             Copy, Requeue,
             Grabbed
    <3>5. ASSUME NEW u \in Threads, Gray(u)
          PROVE  u = t
      BY <3>5 DEF Gray
    <3>6. main \in Threads /\ camera \in Threads
      OBVIOUS
    <3>7. PICK u \in Threads : BeginRead(u) \/ Step(u)
      BY <1>1, <3>1, <3>2, <3>6 DEF Next, MainStep, CameraStep
    <3> QED
      BY <3>3, <3>4, <3>5, <3>7 DEF Step
  <2>2. image'[t][2] = data /\ data # NULL
    BY <2>0, <2>1
    DEF Gray, Goto, ImageTypes, ThreadAlive, MainOpen, Threads, Locked, Using
  <2> QED
    BY <1>1, <2>2 DEF FramesInv, ImagesOlder, Unseen
<1>2. Spec => [][Newer]_cameraVars
  BY <1>1, CameraInvariant, FramesInvariant, PTL DEF Spec
<1> QED
  BY <1>2 DEF Fresh

=============================================================================
