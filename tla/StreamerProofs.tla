--------------------------- MODULE StreamerProofs ---------------------------
(***************************************************************************)
(* Theorems about Streamer, for any number of clients and buffers and any  *)
(* bounds: what a client is sent is of one picture, newer than its wait,   *)
(* and the driver keeps its buffers (PictureInv); with one listening       *)
(* socket a connection has one thread (Served).                            *)
(***************************************************************************)
EXTENDS Streamer, TLAPS, FiniteSetTheorems, SequenceTheorems

CameraPlaces == {"none", "loop", "paused", "grab", "copy", "requeue", "grabbed",
                 "fill", "stamp", "cleanup", "ended"}
ServerPlaces == {"none", "allocate", "select", "accept", "ended"}
ChangePlaces == {"stream off", "close device", "open device", "stream on"}
ClientPlaces ==
  ChangePlaces \cup
    {"none", "start", "request", "resolution", "listen", "wait", "woken", "header",
     "bytes", "respond", "check", "close", "done"}

Sizes == {"none", "header", "full"}
Pictures == [content : Int, size : Sizes, timestamp : Nat]

(* Where the threads are. *)
ThreadTypes ==
  /\ DOMAIN at = Threads /\ stop \in BOOLEAN
  /\ at[camera] \in CameraPlaces /\ at[server] \in ServerPlaces
  /\ \A t \in Clients : at[t] \in ClientPlaces

CounterTypes ==
  /\ driver \in {"off", "on", "closed"} /\ streamingState \in {"off", "on", "paused"}
  /\ queued \in Nat /\ lost \in Nat /\ changes \in Nat /\ faults \in Nat
  /\ tmpbuffer \in Int

FrameTypes ==
  /\ filled \in Seq(Nat) /\ sensor \in Nat
  /\ empties \subseteq 1 .. sensor /\ IsFiniteSet(empties)
  /\ buf \in [frame : 0 .. sensor, bytesused : Sizes]

DriverTypes == CounterTypes /\ FrameTypes

PictureTypes ==
  /\ picture \in Pictures
  /\ got \in [Clients -> Pictures] /\ since \in [Clients -> Nat]

(* No thread runs before main starts it, and the camera thread ends, and
   frees its memory, only once the program is to stop. *)
Stopping ==
  /\ at[main] \in {"none", "input open", "output open"} => at[camera] = "none"
  /\ at[main] \in {"none", "input open", "output open", "input runs"} =>
       at[server] = "none"
  /\ at[signal] # "none" => stop
  /\ cancelled # {} => stop
  /\ at[camera] \in {"cleanup", "ended"} => stop
  /\ tmpbuffer = Freed => at[camera] = "ended"
  /\ picture.content = Freed => at[camera] = "ended"

(* Who reads or writes the picture has the mutex. *)
MutexHeld ==
  /\ at[camera] \in {"fill", "stamp"} => db = camera
  /\ \A t \in Clients : at[t] \in {"header", "bytes"} => db = t

(* The device as opening it leaves it. *)
Refilled ==
  driver = "off" /\ queued = NB_BUFFER /\ filled = <<>> /\ lost = 0 /\ buf = Blank

(* Where a change of the resolution is, which the camera thread may overtake:
   one at a time, with the stream paused, and the device new at its end. *)
ChangeInv ==
  /\ changes = 0 => driver # "closed"
  /\ \A t \in Clients : at[t] \in ChangePlaces =>
       /\ changes > 0 /\ streamingState = "paused"
       /\ \A u \in Clients : at[u] \in ChangePlaces => u = t
       /\ at[t] # "stream off" => filled = <<>> /\ driver # "on"
       /\ at[t] = "stream on" => Refilled
  /\ streamingState = "off" /\ at[camera] # "ended" =>
       Refilled /\ at[camera] \notin {"copy", "requeue"}

(* The buffer the camera thread has taken and not given back. *)
InHand == IF at[camera] \in {"copy", "requeue"} /\ buf # Blank THEN 1 ELSE 0

(* Every buffer is somewhere, and lost ones came with an empty frame that has
   been taken. *)
Account ==
  /\ driver = "on" => queued + Len(filled) + lost + InHand = NB_BUFFER
  /\ lost <= Cardinality({e \in empties : e <= buf.frame})

(* Filled buffers carry frames newer than the one taken last, oldest first. *)
FramesInOrder ==
  /\ \A i \in DOMAIN filled : filled[i] \in 1 .. sensor /\ filled[i] > buf.frame
  /\ \A i, j \in DOMAIN filled : i < j => filled[i] < filled[j]

(* Until a change of the resolution the picture is older than the frame at
   hand, and tmpbuffer and the picture have the bytes of their frames. *)
Taken ==
  changes = 0 =>
    /\ picture.timestamp <= buf.frame
    /\ at[camera] \in {"copy", "requeue", "grabbed", "fill", "stamp"} =>
         picture.timestamp < buf.frame
    /\ at[camera] \in {"requeue", "grabbed", "fill", "stamp"} /\ buf.bytesused = "full" =>
         tmpbuffer = buf.frame
    /\ picture.size = "full" =>
         IF at[camera] = "stamp" THEN picture.content = buf.frame
         ELSE picture.content \in {picture.timestamp, Freed}

(* What thread t copied is the picture as it was under one hold of the mutex. *)
CopyOf(t) ==
  /\ at[t] \notin {"bytes", "respond"} => got[t] = NoPicture
  /\ at[t] = "bytes" =>
       got[t].size = picture.size /\ got[t].timestamp = picture.timestamp
  /\ at[t] = "respond" /\ got[t].timestamp # Nothing =>
       /\ got[t].content = Freed => stop
       /\ changes = 0 /\ got[t].size = "full" =>
            got[t].content \in {got[t].timestamp, Freed}

(* A thread that has been woken finds a picture newer than when it lay down. *)
Newer(t) ==
  changes = 0 =>
    /\ at[t] = "wait" => since[t] <= picture.timestamp
    /\ at[t] \in {"woken", "header", "bytes"} => since[t] < picture.timestamp
    /\ at[t] = "respond" /\ got[t].timestamp # Nothing => since[t] < got[t].timestamp

Copied == \A t \in Clients : CopyOf(t) /\ Newer(t)

(* The inductive invariant. *)
PictureInv ==
  /\ ThreadTypes /\ DriverTypes /\ PictureTypes /\ Stopping /\ MutexHeld
  /\ ChangeInv /\ Account /\ FramesInOrder /\ Taken /\ Copied

(* No thread has two parts. *)
LEMMA ThreadsApart ==
  /\ Clients \subseteq Threads /\ {camera, server, main, signal} \subseteq Threads
  /\ {camera, server, main, signal} \cap Clients = {} /\ free \notin Threads
  /\ camera # server /\ camera # main /\ camera # signal
  /\ server # main /\ server # signal /\ main # signal
  BY UvcAssumption, HttpAssumption, StreamerAssumption

(* The program starts so. *)
LEMMA InitPicture == Init => PictureInv
<1> SUFFICES ASSUME Init PROVE PictureInv
  OBVIOUS
<1> USE DEF Init, UvcInit, HttpInit
<1>d. ThreadTypes
  <2>1. DOMAIN at = Threads /\ stop \in BOOLEAN
    OBVIOUS
  <2>2. \A t \in Threads : at[t] = "none"
    OBVIOUS
  <2>3. camera \in Threads /\ server \in Threads /\ Clients \subseteq Threads
    BY ThreadsApart
  <2> QED
    BY <2>1, <2>2, <2>3 DEF ThreadTypes, CameraPlaces, ServerPlaces, ClientPlaces
<1>1. Stopping /\ MutexHeld
  BY ThreadsApart DEF Stopping, MutexHeld, NoPicture, Nothing, Freed
<1>a. PictureTypes
  BY DEF PictureTypes, Pictures, Sizes, NoPicture, Nothing
<1>2. IsFiniteSet({}) /\ {e \in {} : e <= 0} = {} /\ Cardinality({}) = 0
  BY FS_EmptySet
<1>3. DriverTypes /\ FramesInOrder
  BY UvcAssumption, <1>2
  DEF DriverTypes, CounterTypes, FrameTypes, FramesInOrder, Sizes, Blank, Nothing
<1>b. ChangeInv
  BY ThreadsApart DEF ChangeInv, Refilled, ChangePlaces
<1>c. Account
  <2>1. {e \in empties : e <= buf.frame} = {}
    OBVIOUS
  <2> QED
    BY <2>1, <1>2 DEF Account
<1>4. Taken /\ Copied
  BY ThreadsApart DEF Taken, Copied, CopyOf, Newer, NoPicture, Nothing, Blank
<1> QED
  BY <1>1, <1>3, <1>4, <1>a, <1>b, <1>c, <1>d DEF PictureInv

(* What a thread may do without touching driver, picture or copies. *)
Plain == {"none", "start", "request", "resolution", "listen", "check", "close", "done"}

(* A step that touches neither driver nor picture nor copies. *)
LEMMA OtherSteps ==
  ASSUME PictureInv, ThreadTypes', Stopping', faults' \in Nat,
         UNCHANGED <<driverVars, streamingState, buf, tmpbuffer, lost, changes,
                     relayVars, got, since>>,
         stop => stop',
         \/ at'[camera] = at[camera]
         \/ /\ at[camera] \in {"none", "loop", "paused", "grabbed"}
            /\ at'[camera] \in {"loop", "paused", "grab", "cleanup"},
         \A t \in Clients :
           \/ at'[t] = at[t]
           \/ at[t] \in Plain \cup ChangePlaces /\ at'[t] \in Plain \cup {"respond"}
  PROVE  PictureInv'
<1> USE DEF driverVars, relayVars
<1>0. /\ ThreadTypes /\ DriverTypes /\ PictureTypes /\ Stopping /\ MutexHeld
      /\ ChangeInv /\ Account /\ FramesInOrder /\ Taken /\ Copied
  BY DEF PictureInv
<1>1. (DriverTypes /\ PictureTypes /\ FramesInOrder)'
  BY <1>0 DEF DriverTypes, CounterTypes, FrameTypes, PictureTypes, FramesInOrder
<1>2. MutexHeld'
  BY <1>0 DEF MutexHeld, Plain
<1>3. ChangeInv'
  BY <1>0 DEF ChangeInv, Refilled, Plain, ChangePlaces
<1>4. Account'
  BY <1>0 DEF Account, InHand
<1>5. Taken'
  BY <1>0 DEF Taken
<1>6. Copied'
  <2> SUFFICES ASSUME NEW t \in Clients
               PROVE  CopyOf(t)' /\ Newer(t)'
    BY DEF Copied
  <2>1. CopyOf(t) /\ Newer(t)
    BY <1>0 DEF Copied
  <2>2. CASE at'[t] = at[t]
    BY <2>1, <2>2 DEF CopyOf, Newer
  <2>3. CASE at[t] \in Plain \cup ChangePlaces /\ at'[t] \in Plain \cup {"respond"}
    <3>1. got[t] = NoPicture /\ at'[t] \notin {"bytes", "wait", "woken", "header"}
      BY <2>1, <2>3 DEF CopyOf, Plain, ChangePlaces
    <3>2. got'[t] = NoPicture /\ NoPicture.timestamp = Nothing
      BY <3>1 DEF NoPicture
    <3> QED
      BY <3>1, <3>2 DEF CopyOf, Newer
  <2> QED
    BY <2>2, <2>3
<1> QED
  BY <1>1, <1>2, <1>3, <1>4, <1>5, <1>6 DEF PictureInv
(* A frame is captured, and what the camera thread does with it. *)
LEMMA CameraKeeps ==
  ASSUME PictureInv, Fill \/ CameraStep, UNCHANGED <<got, since, cancelled>>
  PROVE  PictureInv'
<1> USE ThreadsApart DEF driverVars, videoVars, relayVars, Goto
<1>0. /\ ThreadTypes /\ DriverTypes /\ PictureTypes /\ Stopping /\ MutexHeld
      /\ ChangeInv /\ Account /\ FramesInOrder /\ Taken /\ Copied
  BY DEF PictureInv
<1>1. CASE Loop \/ NotPaused \/ DropFrame \/ DequeueFails \/ RequeueFails
  <2>1. ThreadTypes' /\ Stopping'
    BY <1>0, <1>1
    DEF Loop, NotPaused, DropFrame, DequeueFails, RequeueFails, ThreadTypes, Stopping,
        CameraPlaces
  <2>2. faults' \in Nat
    BY <1>0, <1>1
    DEF Loop, NotPaused, DropFrame, DequeueFails, RequeueFails, FailsIf, Fault,
        DriverTypes, CounterTypes, FrameTypes
  <2>3. /\ UNCHANGED <<driverVars, streamingState, buf, tmpbuffer, lost, changes,
                       relayVars>>
        /\ stop' = stop
        /\ \A t \in Clients : at'[t] = at[t]
        /\ \/ at'[camera] = at[camera]
           \/ /\ at[camera] \in {"none", "loop", "paused", "grabbed"}
              /\ at'[camera] \in {"loop", "paused", "grab", "cleanup"}
    BY <1>0, <1>1
    DEF Loop, NotPaused, DropFrame, DequeueFails, RequeueFails, ThreadTypes
  <2> QED
    BY <2>1, <2>2, <2>3, OtherSteps
<1>2. CASE Fill
  <2>1. (ThreadTypes /\ Stopping /\ MutexHeld)'
    BY <1>0, <1>2
    DEF Fill, ThreadTypes, Stopping, MutexHeld, CameraPlaces, ServerPlaces,
        ClientPlaces, ChangePlaces, PictureTypes, Pictures, DriverTypes,
        CounterTypes, FrameTypes, Freed, Nothing
  <2>2. (DriverTypes /\ PictureTypes)'
    <3>1. filled' \in Seq(Nat) /\ sensor' \in Nat /\ queued' \in Nat
      BY <1>0, <1>2 DEF Fill, DriverTypes, CounterTypes, FrameTypes
    <3>2. empties' \subseteq 1 .. sensor' /\ IsFiniteSet(empties')
      <4>1. /\ empties \subseteq 1 .. sensor /\ IsFiniteSet(empties)
            /\ sensor \in Nat /\ sensor' = sensor + 1
        BY <1>0, <1>2 DEF Fill, DriverTypes, CounterTypes, FrameTypes
      <4>2. CASE empties' = empties
        BY <4>1, <4>2
      <4>3. CASE empties' = empties \cup {sensor + 1}
        BY <4>1, <4>3, FS_AddElement
      <4> QED
        BY <1>2, <4>2, <4>3 DEF Fill
    <3>3. buf' \in [frame : 0 .. sensor', bytesused : Sizes]
      BY <1>0, <1>2 DEF Fill, DriverTypes, CounterTypes, FrameTypes
    <3> QED
      BY <1>0, <1>2, <3>1, <3>2, <3>3
      DEF Fill, DriverTypes, CounterTypes, FrameTypes, PictureTypes
  <2>3. (ChangeInv)'
    BY <1>0, <1>2
    DEF Fill, ChangeInv, Refilled, ChangePlaces, ThreadTypes, CameraPlaces,
        ClientPlaces, DriverTypes, CounterTypes, FrameTypes, video_enable
  <2>4. (Account)'
    <3>1. /\ Len(filled') = Len(filled) + 1 /\ Len(filled) \in Nat
          /\ InHand' = InHand /\ InHand \in {0, 1}
      BY <1>0, <1>2 DEF Fill, DriverTypes, CounterTypes, FrameTypes, InHand
    <3>2. {e \in empties' : e <= buf'.frame} = {e \in empties : e <= buf.frame}
      BY <1>0, <1>2 DEF Fill, DriverTypes, CounterTypes, FrameTypes
    <3>3. lost' <= Cardinality({e \in empties' : e <= buf'.frame})
      BY <1>0, <1>2, <3>2 DEF Fill, Account
    <3> QED
      BY <1>0, <1>2, <3>1, <3>3
      DEF Fill, Account, DriverTypes, CounterTypes, FrameTypes
  <2>5. (FramesInOrder)'
    BY <1>0, <1>2, SMTT(30) DEF Fill, FramesInOrder, DriverTypes, CounterTypes, FrameTypes
  <2>6. (Taken)'
    BY <1>0, <1>2
    DEF Fill, Taken, ThreadTypes, DriverTypes, CounterTypes, FrameTypes,
        PictureTypes, Pictures, ChangeInv, Freed, Nothing
  <2>7. (Copied)'
    BY <1>0, <1>2 DEF Fill, Copied, CopyOf, Newer, ThreadTypes, ClientPlaces
  <2> QED
    BY <2>1, <2>2, <2>3, <2>4, <2>5, <2>6, <2>7 DEF PictureInv
<1>3. CASE Enable
  <2>1. (ThreadTypes /\ Stopping /\ MutexHeld)'
    BY <1>0, <1>3
    DEF Enable, ThreadTypes, Stopping, MutexHeld, CameraPlaces, ServerPlaces,
        ClientPlaces, ChangePlaces, PictureTypes, Pictures, DriverTypes,
        CounterTypes, FrameTypes, Freed, Nothing
  <2>2. (DriverTypes /\ PictureTypes)'
    BY <1>0, <1>3
    DEF Enable, DriverTypes, CounterTypes, FrameTypes, PictureTypes, Pictures, Sizes,
        Freed, Nothing, Fault, FailsIf, video_enable, Blank
  <2>3. (ChangeInv)'
    BY <1>0, <1>3
    DEF Enable, ChangeInv, Refilled, ChangePlaces, ThreadTypes, CameraPlaces,
        ClientPlaces, DriverTypes, CounterTypes, FrameTypes, video_enable
  <2>4. (Account)'
    BY <1>0, <1>3
    DEF Enable, Account, InHand, ThreadTypes, DriverTypes, CounterTypes, FrameTypes,
        ChangeInv, Refilled, video_enable
  <2>5. (FramesInOrder)'
    BY <1>0, <1>3 DEF Enable, FramesInOrder, DriverTypes, CounterTypes, FrameTypes
  <2>6. (Taken)'
    BY <1>0, <1>3
    DEF Enable, Taken, ThreadTypes, DriverTypes, CounterTypes, FrameTypes,
        PictureTypes, Pictures, ChangeInv, Freed, Nothing
  <2>7. (Copied)'
    BY <1>0, <1>3 DEF Enable, Copied, CopyOf, Newer, ThreadTypes, ClientPlaces
  <2> QED
    BY <2>1, <2>2, <2>3, <2>4, <2>5, <2>6, <2>7 DEF PictureInv
<1>4. CASE Dequeue
  <2>1. (ThreadTypes /\ Stopping /\ MutexHeld)'
    BY <1>0, <1>4
    DEF Dequeue, ThreadTypes, Stopping, MutexHeld, CameraPlaces, ServerPlaces,
        ClientPlaces, ChangePlaces, PictureTypes, Pictures, DriverTypes,
        CounterTypes, FrameTypes, Freed, Nothing
  <2>2. (DriverTypes /\ PictureTypes)'
    <3>1. filled' \in Seq(Nat) /\ Head(filled) \in 1 .. sensor
      BY <1>0, <1>4
      DEF Dequeue, DriverTypes, CounterTypes, FrameTypes, FramesInOrder
    <3>2. buf' \in [frame : 0 .. sensor', bytesused : Sizes] /\ lost' \in Nat
      BY <1>0, <1>4, <3>1 DEF Dequeue, DriverTypes, CounterTypes, FrameTypes, Sizes
    <3> QED
      BY <1>0, <1>4, <3>1, <3>2
      DEF Dequeue, DriverTypes, CounterTypes, FrameTypes, PictureTypes
  <2>3. (ChangeInv)'
    BY <1>0, <1>4
    DEF Dequeue, ChangeInv, Refilled, ChangePlaces, ThreadTypes, CameraPlaces,
        ClientPlaces, DriverTypes, CounterTypes, FrameTypes, video_enable
  <2>4. (Account)'
    <3> DEFINE old == {e \in empties : e <= buf.frame}
               new == {e \in empties : e <= buf'.frame}
    <3>1. /\ Len(filled') = Len(filled) - 1 /\ Len(filled) \in Nat
          /\ buf'.frame = Head(filled) /\ Head(filled) > buf.frame
          /\ Head(filled) \in Nat
          /\ buf.frame \in Nat /\ InHand = 0
      BY <1>0, <1>4
      DEF Dequeue, DriverTypes, CounterTypes, FrameTypes, FramesInOrder, InHand
    <3>2. InHand' = IF Small THEN 0 ELSE 1
      BY <1>0, <1>4 DEF Dequeue, ThreadTypes, InHand, Small, Blank
    <3>3. /\ IsFiniteSet(new) /\ old \subseteq new /\ IsFiniteSet(old)
          /\ Cardinality(old) <= Cardinality(new) /\ Cardinality(old) \in Nat
          /\ Cardinality(new) \in Nat
      <4>1. /\ IsFiniteSet(empties) /\ new \subseteq empties
            /\ \A e \in empties :
                 e \in Nat
        BY <1>0 DEF DriverTypes, CounterTypes, FrameTypes
      <4>2. old \subseteq new
        BY <3>1, <4>1
      <4> HIDE DEF old, new
      <4> QED
        BY <4>1, <4>2, FS_Subset, FS_CardinalityType
    <3>4. CASE Small
      <4>1. Head(filled) \in new /\ Head(filled) \notin old
        BY <1>4, <3>1, <3>4 DEF Dequeue, Small
      <4>2. old \cup {Head(filled)} \subseteq new
        BY <3>3, <4>1
      <4> HIDE DEF old, new
      <4>3. Cardinality(old \cup {Head(filled)}) = Cardinality(old) + 1
        BY <3>3, <4>1, FS_AddElement
      <4>4. Cardinality(old) + 1 <= Cardinality(new)
        BY <3>3, <4>2, <4>3, FS_Subset
      <4>5. lost' = lost + 1 /\ lost <= Cardinality(old) /\ lost \in Nat
        BY <1>0, <1>4, <3>4
        DEF Dequeue, Account, DriverTypes, CounterTypes, FrameTypes, old
      <4>6. lost' <= Cardinality(new)
        BY <3>3, <4>4, <4>5
      <4> QED
        BY <1>0, <1>4, <3>1, <3>2, <3>4, <4>5, <4>6
        DEF Dequeue, Account, DriverTypes, CounterTypes, FrameTypes, new
    <3>5. CASE ~Small
      <4>1. lost' = lost /\ lost <= Cardinality(old) /\ lost \in Nat
        BY <1>0, <1>4, <3>5
        DEF Dequeue, Account, DriverTypes, CounterTypes, FrameTypes
      <4> HIDE DEF old
      <4>2. lost' <= Cardinality(new)
        BY <3>3, <4>1
      <4> QED
        BY <1>0, <1>4, <3>1, <3>2, <3>5, <4>1, <4>2
        DEF Dequeue, Account, DriverTypes, CounterTypes, FrameTypes
    <3> QED
      BY <3>4, <3>5
  <2>5. (FramesInOrder)'
    <3>1. /\ \A i \in DOMAIN filled' :
               i \in Nat /\ i + 1 \in DOMAIN filled /\ filled'[i] = filled[i + 1]
          /\ 1 \in DOMAIN filled /\ Head(filled) = filled[1]
      BY <1>0, <1>4 DEF Dequeue, DriverTypes, CounterTypes, FrameTypes
    <3>2. \A i \in DOMAIN filled' : i + 1 > 1 /\ filled'[i] > filled[1]
      <4> TAKE i \in DOMAIN filled'
      <4>1. i + 1 > 1
        BY <1>0, <1>4 DEF Dequeue, DriverTypes, CounterTypes, FrameTypes
      <4> QED
        BY <1>0, <3>1, <4>1 DEF FramesInOrder
    <3> QED
      BY <1>0, <1>4, <3>1, <3>2, SMTT(30)
      DEF Dequeue, FramesInOrder, DriverTypes, CounterTypes, FrameTypes
  <2>6. (Taken)'
    <3>1. at'[camera] \in {"grabbed", "copy"} /\ at[camera] = "grab"
          /\ (buf'.bytesused = "full" => at'[camera] = "copy")
      BY <1>0, <1>4 DEF Dequeue, ThreadTypes, Small
    <3>2. /\ buf'.frame = Head(filled) /\ Head(filled) > buf.frame
          /\ Head(filled) \in Nat /\ buf.frame \in Nat
      BY <1>0, <1>4
      DEF Dequeue, DriverTypes, CounterTypes, FrameTypes, FramesInOrder
    <3>3. UNCHANGED <<changes, picture, tmpbuffer>>
      BY <1>4 DEF Dequeue
    <3> QED
      BY <1>0, <3>1, <3>2, <3>3 DEF Taken, PictureTypes, Pictures
  <2>7. (Copied)'
    BY <1>0, <1>4 DEF Dequeue, Copied, CopyOf, Newer, ThreadTypes, ClientPlaces
  <2> QED
    BY <2>1, <2>2, <2>3, <2>4, <2>5, <2>6, <2>7 DEF PictureInv
<1>5. CASE Copy
  <2>1. (ThreadTypes /\ Stopping /\ MutexHeld)'
    <3>1. ThreadTypes'
      BY <1>0, <1>5 DEF Copy, ThreadTypes, CameraPlaces
    <3>2. Stopping'
      <4>1. tmpbuffer' = tmpbuffer \/ tmpbuffer' # Freed
        BY <1>0, <1>5 DEF Copy, DriverTypes, CounterTypes, FrameTypes, Freed
      <4> QED
        BY <1>0, <1>5, <4>1 DEF Copy, ThreadTypes, Stopping
    <3>3. MutexHeld'
      BY <1>0, <1>5 DEF Copy, ThreadTypes, MutexHeld
    <3> QED
      BY <3>1, <3>2, <3>3
  <2>2. (DriverTypes /\ PictureTypes)'
    BY <1>0, <1>5
    DEF Copy, DriverTypes, CounterTypes, FrameTypes, PictureTypes, Pictures, Sizes,
        Freed, Nothing, Fault, FailsIf, video_enable, Blank
  <2>3. (ChangeInv)'
    BY <1>0, <1>5
    DEF Copy, ChangeInv, Refilled, ChangePlaces, ThreadTypes, CameraPlaces,
        ClientPlaces, DriverTypes, CounterTypes, FrameTypes, video_enable
  <2>4. (Account)'
    BY <1>0, <1>5
    DEF Copy, Account, InHand, ThreadTypes, DriverTypes, CounterTypes, FrameTypes,
        ChangeInv, Refilled, video_enable
  <2>5. (FramesInOrder)'
    BY <1>0, <1>5 DEF Copy, FramesInOrder, DriverTypes, CounterTypes, FrameTypes
  <2>6. (Taken)'
    <3>1. /\ at'[camera] = "requeue" /\ at[camera] = "copy"
          /\ UNCHANGED <<changes, picture, buf>>
      BY <1>0, <1>5 DEF Copy, ThreadTypes
    <3>2. changes = 0 /\ buf.bytesused = "full" => tmpbuffer' = buf.frame
      BY <1>0, <1>5 DEF Copy, ChangeInv, Blank
    <3> QED
      BY <1>0, <3>1, <3>2 DEF Taken
  <2>7. (Copied)'
    BY <1>0, <1>5 DEF Copy, Copied, CopyOf, Newer, ThreadTypes, ClientPlaces
  <2> QED
    BY <2>1, <2>2, <2>3, <2>4, <2>5, <2>6, <2>7 DEF PictureInv
<1>6. CASE Requeue
  <2>1. (ThreadTypes /\ Stopping /\ MutexHeld)'
    BY <1>0, <1>6
    DEF Requeue, ThreadTypes, Stopping, MutexHeld, CameraPlaces, ServerPlaces,
        ClientPlaces, ChangePlaces, PictureTypes, Pictures, DriverTypes,
        CounterTypes, FrameTypes, Freed, Nothing
  <2>2. (DriverTypes /\ PictureTypes)'
    BY <1>0, <1>6
    DEF Requeue, DriverTypes, CounterTypes, FrameTypes, PictureTypes, Pictures,
        Sizes, Freed, Nothing, Fault, FailsIf, video_enable, Blank
  <2>3. (ChangeInv)'
    BY <1>0, <1>6
    DEF Requeue, ChangeInv, Refilled, ChangePlaces, ThreadTypes, CameraPlaces,
        ClientPlaces, DriverTypes, CounterTypes, FrameTypes, video_enable
  <2>4. (Account)'
    <3>1. InHand' = 0 /\ InHand = 1
      BY <1>0, <1>6 DEF Requeue, ThreadTypes, InHand
    <3> QED
      BY <1>0, <1>6, <3>1
      DEF Requeue, Account, DriverTypes, CounterTypes, FrameTypes
  <2>5. (FramesInOrder)'
    BY <1>0, <1>6 DEF Requeue, FramesInOrder, DriverTypes, CounterTypes, FrameTypes
  <2>6. (Taken)'
    BY <1>0, <1>6
    DEF Requeue, Taken, ThreadTypes, DriverTypes, CounterTypes, FrameTypes,
        PictureTypes, Pictures, ChangeInv, Freed, Nothing
  <2>7. (Copied)'
    BY <1>0, <1>6 DEF Requeue, Copied, CopyOf, Newer, ThreadTypes, ClientPlaces
  <2> QED
    BY <2>1, <2>2, <2>3, <2>4, <2>5, <2>6, <2>7 DEF PictureInv
<1>7. CASE LockPicture
  <2>1. (ThreadTypes /\ Stopping /\ MutexHeld)'
    <3>1. ThreadTypes'
      BY <1>0, <1>7 DEF LockPicture, Lock, ThreadTypes, CameraPlaces
    <3>2. Stopping'
      BY <1>0, <1>7 DEF LockPicture, Lock, ThreadTypes, Stopping
    <3>3. MutexHeld'
      BY <1>0, <1>7 DEF LockPicture, Lock, ThreadTypes, MutexHeld
    <3> QED
      BY <3>1, <3>2, <3>3
  <2>2. (DriverTypes /\ PictureTypes)'
    BY <1>0, <1>7
    DEF LockPicture, Lock, Dropped, DriverTypes, CounterTypes, FrameTypes,
        PictureTypes, Pictures, Sizes, Freed, Nothing, Fault, FailsIf, video_enable,
        Blank
  <2>3. (ChangeInv)'
    BY <1>0, <1>7
    DEF LockPicture, Lock, Dropped, ChangeInv, Refilled, ChangePlaces, ThreadTypes,
        CameraPlaces, ClientPlaces, DriverTypes, CounterTypes, FrameTypes,
        video_enable
  <2>4. (Account)'
    BY <1>0, <1>7
    DEF LockPicture, Lock, Dropped, Account, InHand, ThreadTypes, DriverTypes,
        CounterTypes, FrameTypes, ChangeInv, Refilled, video_enable
  <2>5. (FramesInOrder)'
    BY <1>0, <1>7
    DEF LockPicture, Lock, Dropped, FramesInOrder, DriverTypes, CounterTypes,
        FrameTypes
  <2>6. (Taken)'
    BY <1>0, <1>7
    DEF LockPicture, Lock, Dropped, Taken, ThreadTypes, DriverTypes, CounterTypes,
        FrameTypes, PictureTypes, Pictures, ChangeInv, Freed, Nothing
  <2>7. (Copied)'
    BY <1>0, <1>7
    DEF LockPicture, Lock, Dropped, Copied, CopyOf, Newer, ThreadTypes, ClientPlaces
  <2> QED
    BY <2>1, <2>2, <2>3, <2>4, <2>5, <2>6, <2>7 DEF PictureInv
<1>8. CASE FillPicture
  <2>1. (ThreadTypes /\ Stopping /\ MutexHeld)'
    <3>1. ThreadTypes'
      BY <1>0, <1>8 DEF FillPicture, ThreadTypes, CameraPlaces
    <3>2. Stopping'
      BY <1>0, <1>8
      DEF FillPicture, memcpy_picture, ThreadTypes, Stopping, PictureTypes, Pictures
    <3>3. MutexHeld'
      BY <1>0, <1>8 DEF FillPicture, ThreadTypes, MutexHeld
    <3> QED
      BY <3>1, <3>2, <3>3
  <2>2. (DriverTypes /\ PictureTypes)'
    <3>1. picture' \in Pictures /\ picture'.timestamp = picture.timestamp
      BY <1>0, <1>8
      DEF FillPicture, memcpy_picture, DriverTypes, CounterTypes, FrameTypes,
          PictureTypes, Pictures, Sizes
    <3> QED
      BY <1>0, <1>8, <3>1
      DEF FillPicture, DriverTypes, CounterTypes, FrameTypes, PictureTypes
  <2>3. (ChangeInv)'
    BY <1>0, <1>8
    DEF FillPicture, ChangeInv, Refilled, ChangePlaces, ThreadTypes, CameraPlaces,
        ClientPlaces, DriverTypes, CounterTypes, FrameTypes, video_enable
  <2>4. (Account)'
    BY <1>0, <1>8
    DEF FillPicture, Account, InHand, ThreadTypes, DriverTypes, CounterTypes,
        FrameTypes, ChangeInv, Refilled, video_enable
  <2>5. (FramesInOrder)'
    BY <1>0, <1>8
    DEF FillPicture, FramesInOrder, DriverTypes, CounterTypes, FrameTypes
  <2>6. (Taken)'
    <3>1. /\ at'[camera] = "stamp" /\ at[camera] = "fill"
          /\ UNCHANGED <<changes, buf, tmpbuffer>>
      BY <1>0, <1>8 DEF FillPicture, ThreadTypes
    <3>2. /\ picture'.timestamp = picture.timestamp
          /\ picture'.size = "full" =>
               picture'.content = tmpbuffer /\ buf.bytesused = "full"
      BY <1>0, <1>8
      DEF FillPicture, memcpy_picture, DriverTypes, CounterTypes, FrameTypes,
          PictureTypes, Pictures
    <3> QED
      BY <1>0, <3>1, <3>2 DEF Taken
  <2>7. (Copied)'
    <3>1. /\ \A t \in Clients : at'[t] = at[t] /\ at[t] \notin {"header", "bytes"}
          /\ UNCHANGED <<changes, stop>>
      BY <1>0, <1>8 DEF FillPicture, ThreadTypes, MutexHeld
    <3>2. picture'.timestamp = picture.timestamp
      BY <1>0, <1>8
      DEF FillPicture, memcpy_picture, DriverTypes, CounterTypes, FrameTypes,
          PictureTypes, Pictures
    <3> QED
      BY <1>0, <3>1, <3>2 DEF Copied, CopyOf, Newer
  <2> QED
    BY <2>1, <2>2, <2>3, <2>4, <2>5, <2>6, <2>7 DEF PictureInv
<1>9. CASE StampPicture
  <2>a. /\ at[camera] = "stamp" /\ at'[camera] = "loop" /\ DOMAIN at' = Threads
        /\ \A t \in Threads \ (Clients \cup {camera}) : at'[t] = at[t]
        /\ \A t \in Clients : /\ at[t] \notin {"header", "bytes"}
                            /\ at'[t] = IF at[t] = "wait" THEN "woken" ELSE at[t]
    BY <1>0, <1>9 DEF StampPicture, ThreadTypes, MutexHeld, Waiting
  <2>b. /\ picture' \in Pictures /\ picture'.timestamp = buf.frame
        /\ picture'.content = picture.content /\ picture'.size = picture.size
    <3>1. /\ picture \in Pictures
          /\ picture' = [picture EXCEPT !.timestamp = buf.frame]
          /\ buf.frame \in Nat
      BY <1>0, <1>9
      DEF StampPicture, PictureTypes, DriverTypes, CounterTypes, FrameTypes
    <3> QED
      BY <3>1 DEF Pictures
  <2>1. (ThreadTypes /\ Stopping /\ MutexHeld)'
    <3>1. ThreadTypes'
      BY <1>0, <1>9, <2>a DEF StampPicture, ThreadTypes, CameraPlaces, ClientPlaces
    <3>2. Stopping'
      BY <1>0, <1>9, <2>a, <2>b DEF StampPicture, Stopping
    <3>3. MutexHeld'
      BY <1>0, <1>9, <2>a DEF StampPicture, MutexHeld
    <3> QED
      BY <3>1, <3>2, <3>3
  <2>2. (DriverTypes /\ PictureTypes)'
    BY <1>0, <1>9, <2>b
    DEF StampPicture, DriverTypes, CounterTypes, FrameTypes, PictureTypes
  <2>3. (ChangeInv)'
    BY <1>0, <2>a, <2>b, <1>9
    DEF StampPicture, ChangeInv, Refilled, ChangePlaces, ThreadTypes, CameraPlaces,
        ClientPlaces, DriverTypes, CounterTypes, FrameTypes, video_enable
  <2>4. (Account)'
    BY <1>0, <2>a, <2>b, <1>9
    DEF StampPicture, Account, InHand, ThreadTypes, DriverTypes, CounterTypes,
        FrameTypes, ChangeInv, Refilled, video_enable
  <2>5. (FramesInOrder)'
    BY <1>0, <2>a, <2>b, <1>9
    DEF StampPicture, FramesInOrder, DriverTypes, CounterTypes, FrameTypes
  <2>6. (Taken)'
    BY <1>0, <2>a, <2>b, <1>9
    DEF StampPicture, Taken, ThreadTypes, DriverTypes, CounterTypes, FrameTypes,
        PictureTypes, Pictures, ChangeInv, Freed, Nothing
  <2>7. (Copied)'
    <3> SUFFICES ASSUME NEW t \in Clients
                 PROVE  CopyOf(t)' /\ Newer(t)'
      BY DEF Copied
    <3>1. CopyOf(t) /\ Newer(t) /\ UNCHANGED <<changes, stop>>
      BY <1>0, <1>9 DEF Copied, StampPicture
    <3>2. CopyOf(t)'
      BY <2>a, <3>1 DEF CopyOf
    <3>3. changes = 0 => picture.timestamp < buf.frame
      BY <1>0, <2>a DEF Taken
    <3>4. buf.frame \in Nat /\ picture.timestamp \in Nat /\ since[t] \in Nat
      BY <1>0 DEF DriverTypes, CounterTypes, FrameTypes, PictureTypes, Pictures
    <3>5. Newer(t)'
      BY <2>a, <2>b, <3>1, <3>3, <3>4 DEF Newer
    <3> QED
      BY <3>2, <3>5
  <2> QED
    BY <2>1, <2>2, <2>3, <2>4, <2>5, <2>6, <2>7 DEF PictureInv
<1>10. CASE Cleanup
  <2>1. (ThreadTypes /\ Stopping /\ MutexHeld)'
    BY <1>0, <1>10
    DEF Cleanup, ThreadTypes, Stopping, MutexHeld, CameraPlaces, ServerPlaces,
        ClientPlaces, ChangePlaces, PictureTypes, Pictures, DriverTypes,
        CounterTypes, FrameTypes, Freed, Nothing
  <2>2. (DriverTypes /\ PictureTypes)'
    <3>0. Freed \in Int
      BY DEF Freed
    <3>1. picture' \in Pictures
      <4>1. picture \in Pictures /\ picture' = [picture EXCEPT !.content = Freed]
        BY <1>0, <1>10 DEF Cleanup, PictureTypes
      <4> QED
        BY <3>0, <4>1 DEF Pictures
    <3>2. filled' \in Seq(Nat) /\ queued' \in Nat /\ tmpbuffer' \in Int
      <4>1. filled' = filled \/ filled' = <<>>
        BY <1>10 DEF Cleanup
      <4>2. filled' \in Seq(Nat)
        <5>1. filled \in Seq(Nat) /\ <<>> \in Seq(Nat)
          BY <1>0 DEF DriverTypes, CounterTypes, FrameTypes
        <5> QED
          BY <4>1, <5>1
      <4>3. queued' \in Nat
        BY <1>0, <1>10 DEF Cleanup, DriverTypes, CounterTypes, FrameTypes
      <4>4. tmpbuffer' \in Int
        BY <1>10, <3>0 DEF Cleanup
      <4> QED
        BY <4>2, <4>3, <4>4
    <3> QED
      BY <1>0, <1>10, <3>1, <3>2
      DEF Cleanup, DriverTypes, CounterTypes, FrameTypes, PictureTypes
  <2>3. (ChangeInv)'
    BY <1>0, <1>10
    DEF Cleanup, ChangeInv, Refilled, ChangePlaces, ThreadTypes, CameraPlaces,
        ClientPlaces, DriverTypes, CounterTypes, FrameTypes, video_enable
  <2>4. (Account)'
    BY <1>0, <1>10
    DEF Cleanup, Account, InHand, ThreadTypes, DriverTypes, CounterTypes, FrameTypes,
        ChangeInv, Refilled, video_enable
  <2>5. (FramesInOrder)'
    BY <1>0, <1>10 DEF Cleanup, FramesInOrder, DriverTypes, CounterTypes, FrameTypes
  <2>6. (Taken)'
    BY <1>0, <1>10
    DEF Cleanup, Taken, ThreadTypes, DriverTypes, CounterTypes, FrameTypes,
        PictureTypes, Pictures, ChangeInv, Freed, Nothing
  <2>7. (Copied)'
    BY <1>0, <1>10 DEF Cleanup, Copied, CopyOf, Newer, ThreadTypes, ClientPlaces
  <2> QED
    BY <2>1, <2>2, <2>3, <2>4, <2>5, <2>6, <2>7 DEF PictureInv
<1> QED
  BY <1>1, <1>2, <1>3, <1>4, <1>5, <1>6, <1>7, <1>8, <1>9, <1>10 DEF CameraStep

(* What one client's thread does to its own copy leaves those of the others. *)
LEMMA CopiesKept ==
  ASSUME ThreadTypes, Copied, NEW t \in Clients,
         picture' = picture, changes' = changes \/ changes' # 0, stop' = stop,
         \A u \in Clients : u # t =>
           at'[u] = at[u] /\ got'[u] = got[u] /\ since'[u] = since[u],
         CopyOf(t)', Newer(t)'
  PROVE  Copied'
  BY DEF Copied, CopyOf, Newer

(* A thread that is not copying has nothing. *)
LEMMA NothingCopied ==
  ASSUME Copied, NEW t \in Clients, got'[t] = got[t],
         at[t] \in Plain \cup ChangePlaces,
         at'[t] \in Plain \cup ChangePlaces \cup {"respond"}
  PROVE  CopyOf(t)' /\ Newer(t)'
<1>1. got[t] = NoPicture /\ NoPicture.timestamp = Nothing
  BY DEF Copied, CopyOf, Plain, ChangePlaces, NoPicture
<1> QED
  BY <1>1 DEF CopyOf, Newer, Plain, ChangePlaces

(* What a thread that serves a client does. *)
LEMMA ClientKeeps ==
  ASSUME PictureInv, NEW t \in Clients, UNCHANGED cancelled,
         ClientStep(t) \/ Request(t) \/ NoRequest(t) \/ Respond(t)
  PROVE  PictureInv'
<1> USE DEF driverVars, videoVars, relayVars, Goto, httpVars, serverVars, clientVars,
        LeaveUvc
<1>0. /\ ThreadTypes /\ DriverTypes /\ PictureTypes /\ Stopping /\ MutexHeld
      /\ ChangeInv /\ Account /\ FramesInOrder /\ Taken /\ Copied
  BY DEF PictureInv
<1>a. /\ t \in Threads /\ at[t] \in ClientPlaces
      /\ t # camera /\ t # server /\ t # main /\ t # signal
  BY <1>0, ThreadsApart DEF ThreadTypes
<1>b. CopyOf(t) /\ Newer(t)
  BY <1>0 DEF Copied
<1>d. camera \in Threads /\ server \in Threads /\ main \in Threads /\ signal \in Threads
      /\ Clients \subseteq Threads
  BY ThreadsApart
<1>e. CounterTypes /\ FrameTypes /\ changes \in Nat
  BY <1>0 DEF DriverTypes, CounterTypes
<1>c. ASSUME NEW p \in ClientPlaces, at' = [at EXCEPT ![t] = p], stop' = stop
      PROVE  /\ ThreadTypes' /\ at'[t] = p
             /\ \A u \in Threads : u # t => at'[u] = at[u]
  BY <1>0, <1>a, <1>c, <1>d DEF ThreadTypes
<1>1. CASE TakeArg(t) \/ Request(t) \/ NoRequest(t) \/ Check(t) \/ Close(t)
  <2>1. /\ UNCHANGED <<process, stop, driverVars, videoVars, relayVars, got, since>>
        /\ at[t] \in Plain
    BY <1>1 DEF TakeArg, Request, NoRequest, Check, Close, Plain
  <2>2. PICK p \in (Plain \cup {"respond"}) \cap ClientPlaces : at' = [at EXCEPT ![t] = p]
    <3>1. CASE Request(t)
      <4>1. PICK r \in Requests : Goto(t, "request", FirstStep[r])
        BY <3>1 DEF Request
      <4>2. FirstStep[r] \in {"listen", "respond", "resolution"}
        BY <4>1, HttpAssumption DEF FirstStep
      <4> QED
        BY <4>1, <4>2 DEF Plain, ClientPlaces
    <3> QED
      BY <1>1, <3>1 DEF TakeArg, NoRequest, Check, Close, Plain, ClientPlaces
  <2> QED
    BY <1>0, <1>a, <1>d, <1>c, <2>1, <2>2, OtherSteps
    DEF Stopping, DriverTypes, CounterTypes, FrameTypes
<1>2. CASE ChangeFails(t) /\ UNCHANGED httpVars
  <2>1. at[t] \in ChangePlaces /\ at' = [at EXCEPT ![t] = "respond"]
    BY <1>2 DEF ChangeFails, ChangePlaces
  <2>2. faults' \in Nat
    <3>1. faults' = faults \/ faults' = faults + 1
      BY <1>2 DEF ChangeFails, Fault, FailsIf
    <3> QED
      BY <1>0, <3>1 DEF DriverTypes, CounterTypes, FrameTypes
  <2>3. UNCHANGED <<stop, driverVars, streamingState, buf, tmpbuffer, lost, changes,
                    relayVars, got, since>>
    BY <1>2 DEF ChangeFails
  <2>4. "respond" \in ClientPlaces
    BY DEF ClientPlaces
  <2> QED
    BY <1>0, <1>a, <1>d, <1>c, <2>1, <2>2, <2>3, <2>4, OtherSteps DEF Stopping
<1>3. CASE Wait(t)
  <2>a. /\ at[t] = "listen" /\ at'[t] = "wait" /\ ThreadTypes'
        /\ \A u \in Threads : u # t => at'[u] = at[u]
    BY <1>a, <1>d, <1>c, <1>3 DEF Wait, ClientPlaces, ChangePlaces
  <2>1. Stopping'
    BY <1>0, <1>a, <1>d, <1>3, <2>a DEF Wait, Stopping
  <2>2. MutexHeld'
    BY <1>0, <1>a, <1>d, <1>3, <2>a DEF Wait, MutexHeld
  <2>3. (DriverTypes /\ PictureTypes)'
    BY <1>0, <1>a, <1>d, <1>3, <2>a
    DEF Wait, DriverTypes, CounterTypes, FrameTypes, PictureTypes, Pictures, Sizes,
        Blank, Nothing, NoPicture
  <2>4. ChangeInv'
    BY <1>0, <1>a, <1>d, <1>3, <2>a
    DEF Wait, ChangeInv, ChangePlaces, Refilled, DriverTypes, CounterTypes,
        FrameTypes
  <2>5. Account'
    BY <1>0, <1>a, <1>d, <1>3, <2>a
    DEF Wait, Account, InHand, DriverTypes, CounterTypes, FrameTypes, ChangeInv,
        ChangePlaces, Refilled, Blank
  <2>6. FramesInOrder'
    BY <1>0, <1>a, <1>d, <1>3, <2>a
    DEF Wait, FramesInOrder, DriverTypes, CounterTypes, FrameTypes, Blank, Nothing
  <2>7. Taken'
    BY <1>0, <1>a, <1>d, <1>3, <2>a
    DEF Wait, Taken, DriverTypes, CounterTypes, FrameTypes, PictureTypes, Pictures,
        ChangeInv, ChangePlaces
  <2>b. CopyOf(t)' /\ Newer(t)'
    <3>1. got'[t] = NoPicture /\ since'[t] = picture.timestamp /\ picture' = picture
      BY <1>0, <1>b, <1>3, <2>a DEF Wait, CopyOf, PictureTypes
    <3>2. picture.timestamp \in Nat
      BY <1>0 DEF PictureTypes, Pictures
    <3> QED
      BY <2>a, <3>1, <3>2 DEF CopyOf, Newer
  <2>8. Copied'
    BY <1>0, <1>a, <1>d, <1>3, <2>a, <2>b, CopiesKept
    DEF Wait, PictureTypes, DriverTypes, CounterTypes, FrameTypes
  <2> QED
    BY <2>a, <2>1, <2>2, <2>3, <2>4, <2>5, <2>6, <2>7, <2>8 DEF PictureInv
<1>4. CASE Relock(t)
  <2>a. /\ at[t] = "woken" /\ at'[t] = "header" /\ ThreadTypes'
        /\ \A u \in Threads : u # t => at'[u] = at[u]
    BY <1>a, <1>d, <1>c, <1>4 DEF Relock, ClientPlaces, ChangePlaces, Lock
  <2>1. Stopping'
    BY <1>0, <1>a, <1>d, <1>4, <2>a DEF Relock, Stopping, Lock
  <2>2. MutexHeld'
    BY <1>0, <1>a, <1>d, <1>4, <2>a, UvcAssumption DEF Relock, MutexHeld, Lock
  <2>3. (DriverTypes /\ PictureTypes)'
    BY <1>0, <1>a, <1>d, <1>4, <2>a
    DEF Relock, DriverTypes, CounterTypes, FrameTypes, PictureTypes, Pictures, Sizes,
        Blank, Nothing, NoPicture, Lock
  <2>4. ChangeInv'
    BY <1>0, <1>a, <1>d, <1>4, <2>a
    DEF Relock, ChangeInv, ChangePlaces, Refilled, DriverTypes, CounterTypes,
        FrameTypes, Lock
  <2>5. Account'
    BY <1>0, <1>a, <1>d, <1>4, <2>a
    DEF Relock, Account, InHand, DriverTypes, CounterTypes, FrameTypes, ChangeInv,
        ChangePlaces, Refilled, Blank, Lock
  <2>6. FramesInOrder'
    BY <1>0, <1>a, <1>d, <1>4, <2>a
    DEF Relock, FramesInOrder, DriverTypes, CounterTypes, FrameTypes, Blank, Nothing,
        Lock
  <2>7. Taken'
    BY <1>0, <1>a, <1>d, <1>4, <2>a
    DEF Relock, Taken, DriverTypes, CounterTypes, FrameTypes, PictureTypes, Pictures,
        ChangeInv, ChangePlaces, Lock
  <2>b. CopyOf(t)' /\ Newer(t)'
    BY <1>0, <1>a, <1>d, <1>b, <1>4, <2>a
    DEF Relock, CopyOf, Newer, PictureTypes, Pictures, MutexHeld, Taken, Stopping,
        Lock
  <2>8. Copied'
    BY <1>0, <1>a, <1>d, <1>4, <2>a, <2>b, CopiesKept
    DEF Relock, PictureTypes, DriverTypes, CounterTypes, FrameTypes, Lock
  <2> QED
    BY <2>a, <2>1, <2>2, <2>3, <2>4, <2>5, <2>6, <2>7, <2>8 DEF PictureInv
<1>5. CASE CopyHeader(t)
  <2>a. /\ at[t] = "header" /\ at'[t] = "bytes" /\ ThreadTypes'
        /\ \A u \in Threads : u # t => at'[u] = at[u]
    BY <1>a, <1>d, <1>c, <1>5 DEF CopyHeader, ClientPlaces, ChangePlaces
  <2>1. Stopping'
    BY <1>0, <1>a, <1>d, <1>5, <2>a DEF CopyHeader, Stopping
  <2>2. MutexHeld'
    BY <1>0, <1>a, <1>d, <1>5, <2>a DEF CopyHeader, MutexHeld
  <2>3. (DriverTypes /\ PictureTypes)'
    BY <1>0, <1>a, <1>d, <1>5, <2>a
    DEF CopyHeader, DriverTypes, CounterTypes, FrameTypes, PictureTypes, Pictures,
        Sizes, Blank, Nothing, NoPicture
  <2>4. ChangeInv'
    BY <1>0, <1>a, <1>d, <1>5, <2>a
    DEF CopyHeader, ChangeInv, ChangePlaces, Refilled, DriverTypes, CounterTypes,
        FrameTypes
  <2>5. Account'
    BY <1>0, <1>a, <1>d, <1>5, <2>a
    DEF CopyHeader, Account, InHand, DriverTypes, CounterTypes, FrameTypes,
        ChangeInv, ChangePlaces, Refilled, Blank
  <2>6. FramesInOrder'
    BY <1>0, <1>a, <1>d, <1>5, <2>a
    DEF CopyHeader, FramesInOrder, DriverTypes, CounterTypes, FrameTypes, Blank,
        Nothing
  <2>7. Taken'
    BY <1>0, <1>a, <1>d, <1>5, <2>a
    DEF CopyHeader, Taken, DriverTypes, CounterTypes, FrameTypes, PictureTypes,
        Pictures, ChangeInv, ChangePlaces
  <2>b. CopyOf(t)' /\ Newer(t)'
    BY <1>0, <1>a, <1>d, <1>b, <1>5, <2>a
    DEF CopyHeader, CopyOf, Newer, PictureTypes, Pictures, MutexHeld, Taken,
        Stopping
  <2>8. Copied'
    BY <1>0, <1>a, <1>d, <1>5, <2>a, <2>b, CopiesKept
    DEF CopyHeader, PictureTypes, DriverTypes, CounterTypes, FrameTypes
  <2> QED
    BY <2>a, <2>1, <2>2, <2>3, <2>4, <2>5, <2>6, <2>7, <2>8 DEF PictureInv
<1>6. CASE CopyBytes(t)
  <2>a. /\ at[t] = "bytes" /\ at'[t] = "respond" /\ ThreadTypes'
        /\ \A u \in Threads : u # t => at'[u] = at[u]
    BY <1>a, <1>d, <1>c, <1>6 DEF CopyBytes, ClientPlaces, ChangePlaces
  <2>1. Stopping'
    BY <1>0, <1>a, <1>d, <1>6, <2>a DEF CopyBytes, Stopping
  <2>2. MutexHeld'
    BY <1>0, <1>a, <1>d, <1>6, <2>a DEF CopyBytes, MutexHeld
  <2>3. (DriverTypes /\ PictureTypes)'
    BY <1>0, <1>a, <1>d, <1>6, <2>a
    DEF CopyBytes, DriverTypes, CounterTypes, FrameTypes, PictureTypes, Pictures,
        Sizes, Blank, Nothing, NoPicture
  <2>4. ChangeInv'
    BY <1>0, <1>a, <1>d, <1>6, <2>a
    DEF CopyBytes, ChangeInv, ChangePlaces, Refilled, DriverTypes, CounterTypes,
        FrameTypes
  <2>5. Account'
    BY <1>0, <1>a, <1>d, <1>6, <2>a
    DEF CopyBytes, Account, InHand, DriverTypes, CounterTypes, FrameTypes, ChangeInv,
        ChangePlaces, Refilled, Blank
  <2>6. FramesInOrder'
    BY <1>0, <1>a, <1>d, <1>6, <2>a
    DEF CopyBytes, FramesInOrder, DriverTypes, CounterTypes, FrameTypes, Blank,
        Nothing
  <2>7. Taken'
    BY <1>0, <1>a, <1>d, <1>6, <2>a
    DEF CopyBytes, Taken, DriverTypes, CounterTypes, FrameTypes, PictureTypes,
        Pictures, ChangeInv, ChangePlaces
  <2>b. CopyOf(t)' /\ Newer(t)'
    BY <1>0, <1>a, <1>d, <1>b, <1>6, <2>a
    DEF CopyBytes, CopyOf, Newer, PictureTypes, Pictures, MutexHeld, Taken, Stopping
  <2>8. Copied'
    BY <1>0, <1>a, <1>d, <1>6, <2>a, <2>b, CopiesKept
    DEF CopyBytes, PictureTypes, DriverTypes, CounterTypes, FrameTypes
  <2> QED
    BY <2>a, <2>1, <2>2, <2>3, <2>4, <2>5, <2>6, <2>7, <2>8 DEF PictureInv
<1>7. CASE Respond(t)
  <2>a. /\ at[t] = "respond" /\ at'[t] \in {"check", "close"} /\ ThreadTypes'
        /\ \A u \in Threads : u # t => at'[u] = at[u]
    BY <1>a, <1>d, <1>c, <1>7 DEF Respond, ClientPlaces, ChangePlaces
  <2>1. Stopping'
    BY <1>0, <1>a, <1>d, <1>7, <2>a DEF Respond, Stopping
  <2>2. MutexHeld'
    BY <1>0, <1>a, <1>d, <1>7, <2>a DEF Respond, MutexHeld
  <2>3. (DriverTypes /\ PictureTypes)'
    BY <1>0, <1>a, <1>d, <1>7, <2>a
    DEF Respond, DriverTypes, CounterTypes, FrameTypes, PictureTypes, Pictures,
        Sizes, Blank, Nothing, NoPicture
  <2>4. ChangeInv'
    BY <1>0, <1>a, <1>d, <1>7, <2>a, ZenonT(60)
    DEF Respond, ChangeInv, ChangePlaces, Refilled, DriverTypes, CounterTypes,
        FrameTypes
  <2>5. Account'
    BY <1>0, <1>a, <1>d, <1>7, <2>a
    DEF Respond, Account, InHand, DriverTypes, CounterTypes, FrameTypes, ChangeInv,
        ChangePlaces, Refilled, Blank
  <2>6. FramesInOrder'
    BY <1>0, <1>a, <1>d, <1>7, <2>a
    DEF Respond, FramesInOrder, DriverTypes, CounterTypes, FrameTypes, Blank,
        Nothing
  <2>7. Taken'
    BY <1>0, <1>a, <1>d, <1>7, <2>a
    DEF Respond, Taken, DriverTypes, CounterTypes, FrameTypes, PictureTypes,
        Pictures, ChangeInv, ChangePlaces
  <2>b. CopyOf(t)' /\ Newer(t)'
    BY <1>0, <1>a, <1>d, <1>b, <1>7, <2>a
    DEF Respond, CopyOf, Newer, PictureTypes, Pictures, MutexHeld, Taken, Stopping
  <2>8. Copied'
    BY <1>0, <1>a, <1>d, <1>7, <2>a, <2>b, CopiesKept
    DEF Respond, PictureTypes, DriverTypes, CounterTypes, FrameTypes
  <2> QED
    BY <2>a, <2>1, <2>2, <2>3, <2>4, <2>5, <2>6, <2>7, <2>8 DEF PictureInv
<1>8. CASE Pause(t) /\ UNCHANGED httpVars
  <2>a. /\ at[t] = "resolution" /\ at'[t] = "stream off" /\ ThreadTypes'
        /\ \A u \in Threads : u # t => at'[u] = at[u]
    BY <1>a, <1>d, <1>c, <1>8 DEF Pause, ClientPlaces, ChangePlaces
  <2>c. /\ streamingState' = "paused" /\ changes' = changes + 1
        /\ UNCHANGED <<stop, driver, queued, filled, sensor, empties, buf, tmpbuffer, lost, faults,
                       picture, db, got, since>>
    BY <1>8 DEF Pause
  <2>1. Stopping'
    BY <1>0, <1>a, <1>d, <1>8, <2>a DEF Pause, Stopping
  <2>2. MutexHeld'
    BY <1>0, <1>a, <1>d, <1>8, <2>a DEF Pause, MutexHeld
  <2>3. (DriverTypes /\ PictureTypes)'
    <3>1. CounterTypes'
      BY <1>e, <2>c DEF CounterTypes
    <3>2. FrameTypes'
      BY <1>e, <1>8 DEF Pause, FrameTypes
    <3> QED
      BY <1>0, <1>8, <3>1, <3>2 DEF Pause, PictureTypes, DriverTypes
  <2>4. ChangeInv'
    <3>1. \A u \in Clients : at'[u] \in ChangePlaces => u = t
      BY <1>d, <1>8, <2>a DEF Pause, Changing, ChangePlaces
    <3>2. changes' > 0 /\ changes' # 0 /\ streamingState' = "paused"
      BY <1>e, <2>c
    <3> QED
      BY <2>a, <3>1, <3>2 DEF ChangeInv
  <2>5. Account'
    BY <1>0, <1>a, <1>d, <1>8, <2>a
    DEF Pause, Account, InHand, DriverTypes, CounterTypes, FrameTypes, ChangeInv,
        ChangePlaces, Refilled, Blank
  <2>6. FramesInOrder'
    BY <1>0, <1>a, <1>d, <1>8, <2>a
    DEF Pause, FramesInOrder, DriverTypes, CounterTypes, FrameTypes, Blank, Nothing
  <2>7. Taken'
    <3>1. changes' # 0
      BY <1>e, <2>c
    <3> QED
      BY <3>1 DEF Taken
  <2>b. CopyOf(t)' /\ Newer(t)'
    BY <1>0, <1>8, <2>a, NothingCopied DEF Plain, ChangePlaces
  <2>8. Copied'
    <3>1. changes' # 0 /\ UNCHANGED <<picture, stop, got, since>>
      BY <1>e, <2>c
    <3> QED
      BY <1>0, <1>d, <2>a, <2>b, <3>1, CopiesKept
  <2> QED
    BY <2>a, <2>1, <2>2, <2>3, <2>4, <2>5, <2>6, <2>7, <2>8 DEF PictureInv
<1>9. CASE StreamOff(t) /\ UNCHANGED httpVars
  <2>a. /\ at[t] = "stream off" /\ at'[t] = "close device" /\ ThreadTypes'
        /\ \A u \in Threads : u # t => at'[u] = at[u]
    BY <1>a, <1>d, <1>c, <1>9 DEF StreamOff, ClientPlaces, ChangePlaces
  <2>c. streamingState' = "paused" /\ changes' = changes
    BY <1>9 DEF StreamOff
  <2>1. Stopping'
    BY <1>0, <1>a, <1>d, <1>9, <2>a DEF StreamOff, Stopping
  <2>2. MutexHeld'
    BY <1>0, <1>a, <1>d, <1>9, <2>a DEF StreamOff, MutexHeld
  <2>3. (DriverTypes /\ PictureTypes)'
    <3>1. CounterTypes'
      BY <1>e, <1>9 DEF StreamOff, CounterTypes
    <3>2. FrameTypes'
      <4>1. filled' = <<>>
        BY <1>9 DEF StreamOff
      <4>2. filled' \in Seq(Nat)
        BY <4>1
      <4> QED
        BY <1>e, <1>9, <4>2 DEF StreamOff, FrameTypes
    <3> QED
      BY <1>0, <1>9, <3>1, <3>2 DEF StreamOff, PictureTypes, DriverTypes
  <2>4. ChangeInv'
    <3>0. changes > 0 /\ streamingState = "paused"
      BY <1>0, <2>a DEF ChangeInv, ChangePlaces
    <3>1. \A u \in Clients : at'[u] \in ChangePlaces => u = t
      BY <1>0, <1>d, <2>a DEF ChangeInv, ChangePlaces
    <3>2. changes' > 0 /\ changes' # 0 /\ streamingState' = "paused"
      BY <1>e, <2>c, <3>0
    <3>3. filled' = <<>> /\ driver' # "on"
      BY <1>0, <1>9, <2>a DEF StreamOff, ChangeInv
    <3> QED
      BY <2>a, <3>1, <3>2, <3>3 DEF ChangeInv
  <2>5. Account'
    BY <1>0, <1>a, <1>d, <1>9, <2>a
    DEF StreamOff, Account, InHand, DriverTypes, CounterTypes, FrameTypes, ChangeInv,
        ChangePlaces, Refilled, Blank
  <2>6. FramesInOrder'
    <3>1. filled' = <<>>
      BY <1>9 DEF StreamOff
    <3>2. DOMAIN filled' = {}
      BY <3>1
    <3> QED
      BY <3>2 DEF FramesInOrder
  <2>7. Taken'
    BY <1>0, <1>a, <1>d, <1>9, <2>a
    DEF StreamOff, Taken, DriverTypes, CounterTypes, FrameTypes, PictureTypes,
        Pictures, ChangeInv, ChangePlaces
  <2>b. CopyOf(t)' /\ Newer(t)'
    BY <1>0, <1>9, <2>a, NothingCopied DEF Plain, ChangePlaces
  <2>8. Copied'
    BY <1>0, <1>a, <1>d, <1>9, <2>a, <2>b, CopiesKept
    DEF StreamOff, PictureTypes, DriverTypes, CounterTypes, FrameTypes
  <2> QED
    BY <2>a, <2>1, <2>2, <2>3, <2>4, <2>5, <2>6, <2>7, <2>8 DEF PictureInv
<1>10. CASE CloseDevice(t) /\ UNCHANGED httpVars
  <2>a. /\ at[t] = "close device" /\ at'[t] = "open device" /\ ThreadTypes'
        /\ \A u \in Threads : u # t => at'[u] = at[u]
    BY <1>a, <1>d, <1>c, <1>10 DEF CloseDevice, ClientPlaces, ChangePlaces
  <2>c. streamingState' = streamingState /\ changes' = changes
    BY <1>10 DEF CloseDevice
  <2>1. Stopping'
    BY <1>0, <1>a, <1>d, <1>10, <2>a DEF CloseDevice, Stopping
  <2>2. MutexHeld'
    BY <1>0, <1>a, <1>d, <1>10, <2>a DEF CloseDevice, MutexHeld
  <2>3. (DriverTypes /\ PictureTypes)'
    BY <1>0, <1>a, <1>d, <1>10, <2>a
    DEF CloseDevice, DriverTypes, CounterTypes, FrameTypes, PictureTypes, Pictures,
        Sizes, Blank, Nothing, NoPicture
  <2>4. ChangeInv'
    <3>0. changes > 0 /\ streamingState = "paused"
      BY <1>0, <2>a DEF ChangeInv, ChangePlaces
    <3>1. \A u \in Clients : at'[u] \in ChangePlaces => u = t
      BY <1>0, <1>d, <2>a DEF ChangeInv, ChangePlaces
    <3>2. changes' > 0 /\ changes' # 0 /\ streamingState' = "paused"
      BY <1>e, <2>c, <3>0
    <3>3. filled' = <<>> /\ driver' # "on"
      BY <1>0, <1>10, <2>a DEF CloseDevice, ChangeInv, ChangePlaces
    <3> QED
      BY <2>a, <3>1, <3>2, <3>3 DEF ChangeInv
  <2>5. Account'
    BY <1>0, <1>a, <1>d, <1>10, <2>a
    DEF CloseDevice, Account, InHand, DriverTypes, CounterTypes, FrameTypes,
        ChangeInv, ChangePlaces, Refilled, Blank
  <2>6. FramesInOrder'
    BY <1>0, <1>a, <1>d, <1>10, <2>a
    DEF CloseDevice, FramesInOrder, DriverTypes, CounterTypes, FrameTypes, Blank,
        Nothing
  <2>7. Taken'
    BY <1>0, <1>a, <1>d, <1>10, <2>a
    DEF CloseDevice, Taken, DriverTypes, CounterTypes, FrameTypes, PictureTypes,
        Pictures, ChangeInv, ChangePlaces
  <2>b. CopyOf(t)' /\ Newer(t)'
    BY <1>0, <1>10, <2>a, NothingCopied DEF Plain, ChangePlaces
  <2>8. Copied'
    BY <1>0, <1>a, <1>d, <1>10, <2>a, <2>b, CopiesKept
    DEF CloseDevice, PictureTypes, DriverTypes, CounterTypes, FrameTypes
  <2> QED
    BY <2>a, <2>1, <2>2, <2>3, <2>4, <2>5, <2>6, <2>7, <2>8 DEF PictureInv
<1>11. CASE init_v4l2(t) /\ UNCHANGED httpVars
  <2>a. /\ at[t] = "open device" /\ at'[t] = "stream on" /\ ThreadTypes'
        /\ \A u \in Threads : u # t => at'[u] = at[u]
    BY <1>a, <1>d, <1>c, <1>11 DEF init_v4l2, ClientPlaces, ChangePlaces
  <2>c. streamingState' = streamingState /\ changes' = changes
    BY <1>11 DEF init_v4l2
  <2>1. Stopping'
    BY <1>0, <1>a, <1>d, <1>11, <2>a DEF init_v4l2, Stopping
  <2>2. MutexHeld'
    BY <1>0, <1>a, <1>d, <1>11, <2>a DEF init_v4l2, MutexHeld
  <2>3. (DriverTypes /\ PictureTypes)'
    <3>1. Blank \in [frame : 0 .. sensor, bytesused : Sizes]
      BY <1>0 DEF DriverTypes, CounterTypes, FrameTypes, Blank, Sizes, Nothing
    <3>2. DriverTypes'
      BY <1>0, <1>11, <3>1, UvcAssumption
      DEF init_v4l2, DriverTypes, CounterTypes, FrameTypes
    <3> QED
      BY <1>0, <1>11, <3>2 DEF init_v4l2, PictureTypes
  <2>4. ChangeInv'
    <3>0. changes > 0 /\ streamingState = "paused"
      BY <1>0, <2>a DEF ChangeInv, ChangePlaces
    <3>1. \A u \in Clients : at'[u] \in ChangePlaces => u = t
      BY <1>0, <1>d, <2>a DEF ChangeInv, ChangePlaces
    <3>2. changes' > 0 /\ changes' # 0 /\ streamingState' = "paused"
      BY <1>e, <2>c, <3>0
    <3>3. filled' = <<>> /\ driver' # "on" /\ Refilled'
      BY <1>0, <1>11, <2>a DEF init_v4l2, ChangeInv, ChangePlaces, Refilled
    <3> QED
      BY <2>a, <3>1, <3>2, <3>3 DEF ChangeInv
  <2>5. Account'
    <3>1. driver' # "on" /\ lost' = 0
      BY <1>11 DEF init_v4l2
    <3>2. IsFiniteSet({e \in empties' : e <= buf'.frame})
      <4>1. IsFiniteSet(empties) /\ empties' = empties
        BY <1>0, <1>11 DEF init_v4l2, DriverTypes, CounterTypes, FrameTypes
      <4> QED
        BY <4>1, FS_Subset
    <3>3. Cardinality({e \in empties' : e <= buf'.frame}) \in Nat
      BY <3>2, FS_CardinalityType
    <3> QED
      BY <3>1, <3>3 DEF Account
  <2>6. FramesInOrder'
    <3>1. filled' = filled /\ filled = <<>>
      BY <1>0, <1>11, <2>a DEF init_v4l2, ChangeInv, ChangePlaces
    <3>2. DOMAIN filled' = {}
      BY <3>1
    <3> QED
      BY <3>2 DEF FramesInOrder
  <2>7. Taken'
    <3>0. changes > 0
      BY <1>0, <2>a DEF ChangeInv, ChangePlaces
    <3>1. changes' # 0
      BY <1>e, <2>c, <3>0
    <3> QED
      BY <3>1 DEF Taken
  <2>b. CopyOf(t)' /\ Newer(t)'
    BY <1>0, <1>11, <2>a, NothingCopied DEF Plain, ChangePlaces
  <2>8. Copied'
    BY <1>0, <1>a, <1>d, <1>11, <2>a, <2>b, CopiesKept
    DEF init_v4l2, PictureTypes, DriverTypes, CounterTypes, FrameTypes
  <2> QED
    BY <2>a, <2>1, <2>2, <2>3, <2>4, <2>5, <2>6, <2>7, <2>8 DEF PictureInv
<1>12. CASE EnableAgain(t) /\ UNCHANGED httpVars
  <2>a. /\ at[t] = "stream on" /\ at'[t] = "respond" /\ ThreadTypes'
        /\ \A u \in Threads : u # t => at'[u] = at[u]
    BY <1>a, <1>d, <1>c, <1>12
    DEF EnableAgain, ClientPlaces, ChangePlaces, video_enable
  <2>1. Stopping'
    BY <1>0, <1>a, <1>d, <1>12, <2>a DEF EnableAgain, Stopping, video_enable
  <2>2. MutexHeld'
    BY <1>0, <1>a, <1>d, <1>12, <2>a DEF EnableAgain, MutexHeld, video_enable
  <2>3. (DriverTypes /\ PictureTypes)'
    BY <1>0, <1>a, <1>d, <1>12, <2>a
    DEF EnableAgain, DriverTypes, CounterTypes, FrameTypes, PictureTypes, Pictures,
        Sizes, Blank, Nothing, NoPicture, video_enable
  <2>4. ChangeInv'
    BY <1>0, <1>a, <1>d, <1>12, <2>a
    DEF EnableAgain, ChangeInv, ChangePlaces, Refilled, DriverTypes, CounterTypes,
        FrameTypes, video_enable
  <2>5. Account'
    <3>1. /\ Refilled /\ lost <= Cardinality({e \in empties : e <= buf.frame})
          /\ UNCHANGED <<queued, filled, lost, buf, empties>>
      BY <1>0, <1>12, <2>a DEF EnableAgain, ChangeInv, ChangePlaces, Account
    <3>2. InHand' = 0 /\ Len(filled') = 0 /\ queued' = NB_BUFFER /\ lost' = 0
      BY <3>1 DEF Refilled, InHand
    <3>3. {e \in empties' : e <= buf'.frame} = {e \in empties : e <= buf.frame}
      BY <3>1
    <3> QED
      BY <3>1, <3>2, <3>3, UvcAssumption DEF Account
  <2>6. FramesInOrder'
    BY <1>0, <1>a, <1>d, <1>12, <2>a
    DEF EnableAgain, FramesInOrder, DriverTypes, CounterTypes, FrameTypes, Blank,
        Nothing, video_enable
  <2>7. Taken'
    BY <1>0, <1>a, <1>d, <1>12, <2>a
    DEF EnableAgain, Taken, DriverTypes, CounterTypes, FrameTypes, PictureTypes,
        Pictures, ChangeInv, ChangePlaces, video_enable
  <2>b. CopyOf(t)' /\ Newer(t)'
    BY <1>0, <1>12, <2>a, NothingCopied DEF Plain, ChangePlaces
  <2>8. Copied'
    BY <1>0, <1>a, <1>d, <1>12, <2>a, <2>b, CopiesKept
    DEF EnableAgain, PictureTypes, DriverTypes, CounterTypes, FrameTypes,
        video_enable
  <2> QED
    BY <2>a, <2>1, <2>2, <2>3, <2>4, <2>5, <2>6, <2>7, <2>8 DEF PictureInv
<1> QED
  BY <1>1, <1>2, <1>3, <1>4, <1>5, <1>6, <1>7, <1>8, <1>9, <1>10, <1>11, <1>12
  DEF ClientStep, ResolutionStep

(* The main thread, the handler of the signal, the server and the network
   touch neither the picture nor what a client has copied. *)
LEMMA OthersKeep ==
  ASSUME PictureInv,
         \/ MainStep \/ Sigint \/ SignalStep \/ Cancelled
         \/ ((\E s \in Sockets : Connect(s)) \/ ServerStep) /\ UNCHANGED cancelled
  PROVE  PictureInv'
<1> USE DEF driverVars, videoVars, relayVars, Goto, httpVars, serverVars, clientVars,
            LeaveUvc, Rest
<1>0. ThreadTypes /\ Stopping /\ faults \in Nat
  BY DEF PictureInv, DriverTypes, CounterTypes
<1>a. /\ {camera, server, main, signal} \subseteq Threads /\ Clients \subseteq Threads
      /\ \A t \in Clients : t # camera /\ t # server /\ t # main /\ t # signal
      /\ camera # server /\ camera # main /\ camera # signal
      /\ server # main /\ server # signal /\ main # signal
  BY ThreadsApart
<1>1. CASE MainStep
  <2>1. /\ UNCHANGED <<stop, driverVars, videoVars, relayVars, got, since, cancelled>>
        /\ \A t \in Threads \ {main, camera, server} : at'[t] = at[t]
        /\ DOMAIN at' = Threads
    BY <1>0, <1>1
    DEF MainStep, OpenInput, OpenOutput, RunInput, RunOutput, ThreadTypes
  <2>2. \/ at[main] = "none" /\ at' = [at EXCEPT ![main] = "input open"]
        \/ at[main] = "input open" /\ at' = [at EXCEPT ![main] = "output open"]
        \/ /\ at[main] = "output open"
           /\ at' = [at EXCEPT ![main] = "input runs", ![camera] = "loop"]
        \/ /\ at[main] = "input runs"
           /\ at' = [at EXCEPT ![main] = "pause", ![server] = "allocate"]
    BY <1>1 DEF MainStep, OpenInput, OpenOutput, RunInput, RunOutput
  <2>3. ThreadTypes' /\ Stopping'
    BY <1>0, <1>a, <2>1, <2>2 DEF ThreadTypes, Stopping, CameraPlaces, ServerPlaces
  <2>4. \/ at'[camera] = at[camera]
        \/ at[camera] = "none" /\ at'[camera] = "loop"
    BY <1>0, <1>a, <2>1, <2>2 DEF Stopping, ThreadTypes
  <2> QED
    BY <1>0, <1>a, <2>1, <2>3, <2>4, OtherSteps
<1>2. CASE Sigint \/ SignalStep
  <2>1. /\ UNCHANGED <<driverVars, videoVars, relayVars, got, since>>
        /\ stop => stop'
    <3>1. CASE Sigint
      BY <3>1 DEF Sigint
    <3>2. CASE SignalStep
      <4>1. UNCHANGED <<stop, driverVars, videoVars, relayVars, got, since>>
        BY <3>2
        DEF SignalStep, StopInputs, StopOutputs, Cancel, Destroy, ExitZero, Exit
      <4> QED
        BY <1>0, <4>1 DEF ThreadTypes
    <3> QED
      BY <1>2, <3>1, <3>2
  <2>2. \/ at' = at
        \/ \E p \in {"stop inputs", "stop outputs", "destroy", "exit"} :
             at' = [at EXCEPT ![signal] = p]
    BY <1>2
    DEF Sigint, SignalStep, StopInputs, StopOutputs, Cancel, Destroy, ExitZero
  <2>3. ThreadTypes'
    BY <1>0, <1>a, <1>2, <2>2
    DEF ThreadTypes, Sigint, SignalStep, StopInputs, StopOutputs, Cancel, Destroy, ExitZero
  <2>4. stop'
    BY <1>0, <1>2
    DEF Stopping, Sigint, SignalStep, StopInputs, StopOutputs, Cancel, Destroy, ExitZero
  <2>5. Stopping'
    BY <1>0, <1>a, <2>1, <2>2, <2>4 DEF ThreadTypes, Stopping
  <2> QED
    BY <1>0, <1>a, <2>1, <2>2, <2>3, <2>5, OtherSteps DEF ThreadTypes
<1>3. CASE Cancelled
  <2>1. UNCHANGED <<stop, driverVars, videoVars, relayVars, got, since, cancelled>>
    BY <1>3 DEF Cancelled
  <2>2. \/ camera \in cancelled /\ at[camera] = "paused" /\ at' = [at EXCEPT ![camera] = "cleanup"]
        \/ server \in cancelled /\ at[server] # "none" /\ at' = [at EXCEPT ![server] = "ended"]
    BY <1>3 DEF Cancelled
  <2>3. ThreadTypes' /\ Stopping'
    BY <1>0, <1>a, <2>1, <2>2 DEF ThreadTypes, Stopping, CameraPlaces, ServerPlaces
  <2> QED
    BY <1>0, <1>a, <2>1, <2>2, <2>3, OtherSteps DEF ThreadTypes
<1>4. CASE ((\E s \in Sockets : Connect(s)) \/ ServerStep) /\ UNCHANGED cancelled
  <2>1. UNCHANGED <<stop, driverVars, streamingState, buf, tmpbuffer, lost, changes,
                    relayVars, got, since>>
    BY <1>4
    DEF Connect, ServerStep, Allocate, Select, Serve, CannotServe, ServerStops
  <2>2. faults' \in Nat
    BY <1>0, <1>4
    DEF Connect, ServerStep, Allocate, Select, Serve, CannotServe, ServerStops, Fault
  <2>3. \/ at' = at
        \/ \E p \in ServerPlaces \ {"none"} :
             /\ at[server] # "none"
             /\ \/ at' = [at EXCEPT ![server] = p]
                \/ \E t \in Clients :
                     at[t] = "none" /\ at' = [at EXCEPT ![server] = p, ![t] = "start"]
    <3>1. CASE \E s \in Sockets : Connect(s)
      BY <3>1 DEF Connect
    <3>2. CASE Allocate \/ Select \/ ServerStops
      BY <3>2 DEF Allocate, Select, ServerStops, ServerPlaces
    <3>3. AfterAccept \in ServerPlaces \ {"none"}
      BY DEF AfterAccept, ServerPlaces
    <3>4. CASE CannotServe
      BY <3>3, <3>4 DEF CannotServe, accept
    <3>5. ASSUME NEW t \in Clients, Serve(t)
          PROVE  /\ at[server] # "none" /\ at[t] = "none"
                 /\ at' = [at EXCEPT ![server] = AfterAccept, ![t] = "start"]
      BY <3>5 DEF Serve, accept
    <3> QED
      BY <1>4, <3>1, <3>2, <3>3, <3>4, <3>5 DEF ServerStep
  <2>4. ThreadTypes'
    BY <1>0, <1>a, <2>1, <2>3 DEF ThreadTypes, ServerPlaces, ClientPlaces
  <2>5. /\ \A t \in {camera, main, signal} : at'[t] = at[t]
        /\ at[server] = "none" => at'[server] = "none"
        /\ \A t \in Clients : at'[t] = at[t] \/ (at[t] = "none" /\ at'[t] = "start")
    <3>1. ASSUME at' = at
          PROVE  \A t \in Threads : at'[t] = at[t]
      BY <3>1
    <3>2. ASSUME NEW p \in ServerPlaces \ {"none"}, at[server] # "none",
                 at' = [at EXCEPT ![server] = p]
          PROVE  /\ \A t \in Threads : t # server => at'[t] = at[t]
      BY <1>0, <3>2 DEF ThreadTypes
    <3>3. ASSUME NEW p \in ServerPlaces \ {"none"}, at[server] # "none",
                 NEW t \in Clients, at[t] = "none",
                 at' = [at EXCEPT ![server] = p, ![t] = "start"]
          PROVE  /\ \A u \in Threads : u \notin {server, t} => at'[u] = at[u]
                 /\ at'[t] = "start"
      BY <1>0, <1>a, <3>3 DEF ThreadTypes
    <3>4. \E t \in Clients \cup {server} :
            /\ \A u \in Threads : u \notin {server, t} => at'[u] = at[u]
            /\ t = server \/ (at[t] = "none" /\ at'[t] = "start")
      BY <2>3, <3>1, <3>2, <3>3
    <3>5. at[server] = "none" => at'[server] = "none"
      BY <1>a, <2>3, <3>1
    <3> QED
      BY <1>a, <3>4, <3>5
  <2>6. Stopping'
    BY <1>0, <1>4, <2>1, <2>5 DEF Stopping
  <2> QED
    BY <1>0, <2>1, <2>2, <2>4, <2>5, <2>6, OtherSteps DEF Plain
<1> QED
  BY <1>1, <1>2, <1>3, <1>4

(* Every step keeps the invariant. *)
LEMMA PictureStep ==
  ASSUME PictureInv, [Next]_vars
  PROVE  PictureInv'
<1>1. CASE UNCHANGED vars
  <2>1. ThreadTypes' /\ Stopping' /\ faults' \in Nat
    BY <1>1
    DEF vars, uvcVars, httpVars, driverVars, videoVars, relayVars, PictureInv, DriverTypes,
        CounterTypes, ThreadTypes, Stopping
  <2> QED
    BY <1>1, <2>1, OtherSteps
    DEF vars, uvcVars, httpVars, clientVars, driverVars, videoVars, relayVars
<1>2. CASE (Fill \/ CameraStep) /\ UNCHANGED <<httpVars, cancelled>>
  BY <1>2, CameraKeeps DEF httpVars, clientVars
<1> QED
  BY <1>1, <1>2, ClientKeeps, OthersKeep DEF Next, HttpNext

(* In every state of Streamer its inductive invariant holds. *)
THEOREM PictureInvariant == Spec => []PictureInv
  BY InitPicture, PictureStep, PTL DEF Spec

(* What send_snapshot and send_stream copied under the mutex is one whole
   publication of cam_thread, as long as nobody changes the resolution; memory
   cam_cleanup freed is sent only while the program stops. *)
THEOREM WholePictures == Spec => []PictureWhole
<1>1. PictureInv => PictureWhole
  BY DEF PictureInv, Copied, CopyOf, PictureWhole
<1> QED
  BY <1>1, PictureInvariant, PTL

(* "wait for a fresh frame": the picture a client is sent is newer than the one
   there was when its thread went to wait, as long as nobody changes the
   resolution. *)
THEOREM FreshPictures == Spec => []FreshFrame
<1>1. PictureInv => FreshFrame
  BY DEF PictureInv, Copied, Newer, FreshFrame, PictureTypes, Pictures
<1> QED
  BY <1>1, PictureInvariant, PTL

(* uvcGrab: while the stream is on the driver and the camera thread have every
   buffer between them but one for each empty frame taken. *)
THEOREM BuffersLost == Spec => []OnlyEmptiesLost
<1>1. ASSUME PictureInv PROVE OnlyEmptiesLost
  <2>1. /\ lost <= Cardinality({e \in empties : e <= buf.frame}) /\ lost \in Nat
        /\ IsFiniteSet(empties)
    BY <1>1 DEF PictureInv, Account, DriverTypes, CounterTypes, FrameTypes
  <2>2. Cardinality({e \in empties : e <= buf.frame}) <= Cardinality(empties)
    BY <2>1, FS_Subset
  <2>3. /\ Cardinality(empties) \in Nat
        /\ Cardinality({e \in empties : e <= buf.frame}) \in Nat
    BY <2>1, FS_Subset, FS_CardinalityType
  <2>4. lost <= Cardinality(empties)
    BY <2>1, <2>2, <2>3
  <2> QED
    BY <1>1, <2>4 DEF PictureInv, Account, InHand, OnlyEmptiesLost
<1> QED
  BY <1>1, PictureInvariant, PTL

-----------------------------------------------------------------------------
(* With one socket: how many connections have been accepted, the last of
   them through the last cell but for the one the server waits with. *)
accepted(s) == made - Len(backlog[s])

(* The types of what server_thread keeps. *)
ServerTypes(s) ==
  /\ backlog \in [Sockets -> Seq(Nat)] /\ made \in Nat
  /\ Len(backlog[s]) <= made /\ made <= MaxConnections
  /\ pcfd \in [Cells -> Nat] /\ frees \in [Cells -> {0, 1}]
  /\ closes \in [Connections -> {0, 1}]
  /\ fd \in [Clients -> Nat] /\ arg \in [Clients -> Nat]

(* Connections wait in the order they were made, and the server has a cell of
   its own for the next. *)
InBacklog(s) ==
  /\ \A i \in DOMAIN backlog[s] : backlog[s][i] = accepted(s) + i
  /\ cell \in {accepted(s), accepted(s) + 1}
  /\ at[server] \in {"select", "accept"} => cell = accepted(s) + 1
  /\ at[server] \in {"none", "allocate"} => cell = accepted(s)
  /\ at[server] = "accept" => ready = {s} /\ backlog[s] # <<>>

(* Connection k is handed on in cell k; cells and descriptors not in use yet
   have been neither freed nor closed. *)
CellsUsed(s) ==
  /\ \A k \in 1 .. accepted(s) : pcfd[k] = k
  /\ \A k \in Cells : k > accepted(s) => frees[k] = 0
  /\ \A c \in Connections : c > accepted(s) => closes[c] = 0

(* Client threads have cells of their own, read before they are freed, and
   close a descriptor once. *)
ServedAlone(s) ==
  \A t \in Clients :
    /\ at[t] \in {"none", "start"} => fd[t] = NoConnection
    /\ at[t] # "none" =>
         /\ arg[t] \in 1 .. accepted(s)
         /\ \A u \in Clients : u # t /\ at[u] # "none" => arg[u] # arg[t]
    /\ at[t] = "start" => frees[arg[t]] = 0
    /\ at[t] \notin {"none", "start"} => fd[t] = arg[t]
    /\ at[t] \notin {"none", "done"} => closes[arg[t]] = 0

(* The inductive invariant with one socket s. *)
Served(s) == ServerTypes(s) /\ InBacklog(s) /\ CellsUsed(s) /\ ServedAlone(s)

(* Where a client thread has its descriptor and has not closed it. *)
Answering == ClientPlaces \ {"none", "start", "done"}

(* The program starts so. *)
LEMMA InitServed ==
  ASSUME NEW s \in Nat, Sockets = {s}, Init
  PROVE  Served(s)
<1>1. /\ \A t \in Threads : at[t] = "none"
      /\ server \in Threads /\ Clients \subseteq Threads
  BY ThreadsApart DEF Init, UvcInit
<1>2. /\ made = 0 /\ backlog = [r \in Sockets |-> <<>>] /\ cell = 0
      /\ pcfd = [k \in Cells |-> NoConnection] /\ frees = [k \in Cells |-> 0]
      /\ fd = [t \in Clients |-> NoConnection] /\ arg = [t \in Clients |-> 0]
      /\ closes = [c \in Connections |-> 0]
  BY DEF Init, HttpInit
<1>3. <<>> \in Seq(Nat) /\ Len(<<>>) = 0
  OBVIOUS
<1>4. backlog[s] = <<>> /\ backlog \in [Sockets -> Seq(Nat)]
  BY <1>2, <1>3
<1>5. accepted(s) = 0 /\ Len(backlog[s]) = 0 /\ \A i \in DOMAIN backlog[s] : FALSE
  <2>1. Len(backlog[s]) = 0 /\ \A i \in DOMAIN backlog[s] : FALSE
    BY <1>3, <1>4
  <2>2. made = 0 /\ accepted(s) = made - Len(backlog[s])
    BY <1>2 DEF accepted
  <2> QED
    BY <2>1, <2>2
<1>6. ServerTypes(s)
  BY <1>2, <1>4, <1>5, HttpAssumption DEF ServerTypes, NoConnection
<1>7. InBacklog(s)
  BY <1>1, <1>2, <1>5 DEF InBacklog
<1>8. CellsUsed(s)
  BY <1>2, <1>5 DEF CellsUsed
<1>9. ServedAlone(s)
  BY <1>1, <1>2 DEF ServedAlone
<1> QED
  BY <1>6, <1>7, <1>8, <1>9 DEF Served

(* Steps that leave cells and descriptors alone. *)
LEMMA ServedOther ==
  ASSUME NEW s \in Nat, Sockets = {s}, Served(s),
         UNCHANGED <<made, backlog, ready, cell, pcfd, frees, arg, fd, closes>>,
         \/ at'[server] = at[server]
         \/ at[server] = "none" /\ at'[server] = "allocate"
         \/ at'[server] = "ended",
         \A t \in Clients :
             at'[t] = at[t] \/ (at[t] \in Answering /\ at'[t] \in Answering)
  PROVE  Served(s)'
<1>1. accepted(s)' = accepted(s)
  BY DEF accepted
<1>2. ServerTypes(s)'
  BY DEF Served, ServerTypes
<1>3. InBacklog(s)'
  BY <1>1 DEF Served, InBacklog
<1>4. CellsUsed(s)'
  BY <1>1 DEF Served, CellsUsed
<1>5. ServedAlone(s)'
  <2>1. ServedAlone(s)
    BY DEF Served
  <2>2. \A t \in Clients :
         /\ at'[t] \in {"none", "start"} <=> at[t] \in {"none", "start"}
         /\ at'[t] # "none" <=> at[t] # "none"
         /\ at'[t] = "start" <=> at[t] = "start"
         /\ at'[t] \in {"none", "done"} <=> at[t] \in {"none", "done"}
    BY DEF Answering
  <2> QED
    BY <1>1, <2>1, <2>2 DEF ServedAlone
<1> QED
  BY <1>2, <1>3, <1>4, <1>5 DEF Served

(* A connection is accepted: one more is served, through the last cell. *)
LEMMA AcceptServed ==
  ASSUME NEW s \in Nat, Sockets = {s}, Served(s), accept,
         at'[server] = AfterAccept, UNCHANGED <<made, cell>>
  PROVE  /\ accepted(s)' = accepted(s) + 1 /\ accepted(s) \in Nat
         /\ cell = accepted(s) + 1
         /\ cell \in Cells /\ cell \in Connections
         /\ backlog' \in [Sockets -> Seq(Nat)] /\ Len(backlog'[s]) <= made
         /\ pcfd' = [pcfd EXCEPT ![cell] = cell] /\ pcfd' \in [Cells -> Nat]
         /\ at'[server] = "allocate"
         /\ \A i \in DOMAIN backlog'[s] : backlog'[s][i] = accepted(s)' + i
<1> USE DEF Served, ServerTypes, InBacklog
<1>1. ready = {s} /\ NextReady = s /\ backlog[s] # <<>> /\ backlog[s] \in Seq(Nat)
  BY DEF accept, NextReady
<1>2. backlog' = [backlog EXCEPT ![s] = Tail(@)] /\ backlog'[s] = Tail(backlog[s])
  BY <1>1 DEF accept
<1>3. /\ Len(backlog'[s]) = Len(backlog[s]) - 1 /\ Len(backlog[s]) \in Nat \ {0}
      /\ Tail(backlog[s]) \in Seq(Nat) /\ Head(backlog[s]) = backlog[s][1]
      /\ 1 \in DOMAIN backlog[s]
      /\ \A i \in DOMAIN backlog'[s] :
           i \in Nat /\ i + 1 \in DOMAIN backlog[s] /\ backlog'[s][i] = backlog[s][i + 1]
  BY <1>1, <1>2
<1>4. /\ accepted(s)' = accepted(s) + 1 /\ accepted(s) \in Nat /\ cell = accepted(s) + 1
      /\ accepted(s) + 1 <= MaxConnections
  <2>1. accepted(s)' = made - Len(backlog'[s]) /\ accepted(s) = made - Len(backlog[s])
    BY DEF accepted
  <2>2. /\ Len(backlog[s]) <= made /\ made <= MaxConnections /\ made \in Nat
        /\ MaxConnections \in Nat
    BY HttpAssumption
  <2>3. /\ accepted(s)' = accepted(s) + 1 /\ accepted(s) \in Nat
        /\ accepted(s) + 1 <= MaxConnections
    BY <1>3, <2>1, <2>2
  <2>4. cell = accepted(s) + 1
    BY DEF accept
  <2> QED
    BY <2>3, <2>4
<1>5. cell \in Cells /\ cell \in Connections
  BY <1>4, HttpAssumption DEF Cells, Connections
<1>6. Head(backlog[NextReady]) = cell
  BY <1>1, <1>3, <1>4
<1>7. backlog' \in [Sockets -> Seq(Nat)]
  BY <1>1, <1>2, <1>3
<1>8. AfterAccept = "allocate"
  BY <1>1 DEF AfterAccept
<1>9. \A i \in DOMAIN backlog'[s] : backlog'[s][i] = accepted(s)' + i
  BY <1>3, <1>4
<1>10. Len(backlog'[s]) <= made
  BY <1>3
<1>11. pcfd' = [pcfd EXCEPT ![cell] = cell]
  BY <1>6 DEF accept
<1>12. cell \in Nat /\ pcfd \in [Cells -> Nat]
  BY <1>4
<1>13. pcfd' \in [Cells -> Nat]
  BY <1>5, <1>11, <1>12
<1> QED
  BY <1>4, <1>5, <1>7, <1>8, <1>9, <1>10, <1>11, <1>13

(* A client connects. *)
LEMMA ConnectServed ==
  ASSUME NEW s \in Nat, Sockets = {s}, Served(s), Connect(s)
  PROVE  Served(s)'
<1>1. /\ backlog[s] \in Seq(Nat) /\ made \in Nat /\ backlog \in [Sockets -> Seq(Nat)]
      /\ Len(backlog[s]) <= made /\ made' = made + 1 /\ made < MaxConnections
  BY DEF Served, ServerTypes, Connect
<1>2. backlog'[s] = Append(backlog[s], made + 1) /\ backlog' \in [Sockets -> Seq(Nat)]
  BY <1>1 DEF Connect
<1>3. /\ Len(backlog'[s]) = Len(backlog[s]) + 1 /\ Len(backlog[s]) \in Nat
      /\ backlog'[s] # <<>>
      /\ \A i \in DOMAIN backlog'[s] :
           \/ i \in DOMAIN backlog[s] /\ backlog'[s][i] = backlog[s][i]
           \/ i = Len(backlog[s]) + 1 /\ backlog'[s][i] = made + 1
  BY <1>1, <1>2
<1>4. accepted(s)' = accepted(s) /\ accepted(s) + Len(backlog[s]) + 1 = made + 1
  <2>1. accepted(s)' = made' - Len(backlog'[s]) /\ accepted(s) = made - Len(backlog[s])
    BY DEF accepted
  <2> QED
    BY <1>1, <1>3, <2>1
<1>5. UNCHANGED <<at, ready, cell, pcfd, frees, arg, fd, closes>>
  BY DEF Connect, clientVars
<1>6. made' <= MaxConnections
  BY <1>1, HttpAssumption
<1>7. ServerTypes(s)'
  BY <1>1, <1>2, <1>3, <1>5, <1>6 DEF Served, ServerTypes
<1>8. InBacklog(s)'
  <2>1. /\ \A i \in DOMAIN backlog[s] : backlog[s][i] = accepted(s) + i
        /\ accepted(s) + (Len(backlog[s]) + 1) = made + 1
    BY <1>1, <1>3, <1>4 DEF Served, InBacklog, accepted
  <2>2. \A i \in DOMAIN backlog'[s] : backlog'[s][i] = accepted(s) + i
    BY <1>3, <2>1
  <2> QED
    BY <2>2, <1>3, <1>4, <1>5 DEF Served, InBacklog
<1>9. CellsUsed(s)' /\ ServedAlone(s)'
  BY <1>4, <1>5 DEF Served, CellsUsed, ServedAlone
<1> QED
  BY <1>7, <1>8, <1>9 DEF Served

(* The server allocates a cell, or finds the socket ready. *)
LEMMA SelectServed ==
  ASSUME NEW s \in Nat, Sockets = {s}, Served(s), ThreadTypes, Allocate \/ Select
  PROVE  Served(s)'
<1>1. /\ UNCHANGED <<made, backlog, pcfd, frees, arg, fd, closes>>
      /\ \A t \in Clients : at'[t] = at[t]
  BY ThreadsApart DEF Allocate, Select, Goto, clientVars, ThreadTypes
<1>2. accepted(s)' = accepted(s) /\ accepted(s) \in Int
  BY <1>1 DEF accepted, Served, ServerTypes
<1>3. (ServerTypes(s) /\ CellsUsed(s) /\ ServedAlone(s))'
  BY <1>1, <1>2 DEF Served, ServerTypes, CellsUsed, ServedAlone
<1>4. CASE Allocate
  <2>1. at[server] = "allocate" /\ at'[server] = "select" /\ cell' = cell + 1
    BY <1>4, ThreadsApart DEF Allocate, Goto, ThreadTypes
  <2> QED
    BY <1>1, <1>2, <1>3, <2>1 DEF Served, InBacklog
<1>5. CASE Select
  <2>1. at[server] = "select" /\ at'[server] = "accept" /\ cell' = cell
    BY <1>5, ThreadsApart DEF Select, Goto, ThreadTypes
  <2>2. ready' = {s} /\ backlog[s] # <<>>
    BY <1>5 DEF Select
  <2> QED
    BY <1>1, <1>2, <1>3, <2>1, <2>2 DEF Served, InBacklog
<1> QED
  BY <1>4, <1>5

(* A thread is made for the connection. *)
LEMMA ServeServed ==
  ASSUME NEW s \in Nat, Sockets = {s}, Served(s), ThreadTypes, NEW t \in Clients,
         Serve(t)
  PROVE  Served(s)'
<1>1. /\ accept /\ at[t] = "none"
      /\ at' = [at EXCEPT ![server] = AfterAccept, ![t] = "start"]
      /\ arg' = [arg EXCEPT ![t] = cell]
      /\ UNCHANGED <<cell, frees, made, fd, closes>>
  BY DEF Serve, clientVars
<1>2. /\ at'[server] = AfterAccept /\ at'[t] = "start"
      /\ \A u \in Clients \ {t} :
           at'[u] = at[u]
  BY <1>1, ThreadsApart DEF ThreadTypes
<1>3. /\ accepted(s)' = accepted(s) + 1 /\ accepted(s) \in Nat /\ cell = accepted(s) + 1
      /\ cell \in Cells /\ cell \in Connections
      /\ backlog' \in [Sockets -> Seq(Nat)] /\ Len(backlog'[s]) <= made
      /\ pcfd' = [pcfd EXCEPT ![cell] = cell] /\ pcfd' \in [Cells -> Nat]
      /\ at'[server] = "allocate"
      /\ \A i \in DOMAIN backlog'[s] : backlog'[s][i] = accepted(s)' + i
  BY <1>1, <1>2, AcceptServed
<1>4. ServerTypes(s) /\ CellsUsed(s) /\ ServedAlone(s) /\ arg \in [Clients -> Nat]
  BY DEF Served, ServerTypes
<1>5. ServerTypes(s)'
  <2>1. cell \in Nat
    BY <1>3
  <2>2. arg' \in [Clients -> Nat]
    BY <1>1, <1>4, <2>1
  <2> QED
    BY <1>1, <1>3, <1>4, <2>2 DEF ServerTypes
<1>6. InBacklog(s)'
  BY <1>1, <1>3 DEF InBacklog
<1>7. CellsUsed(s)'
  <2>1. \A k \in 1 .. accepted(s) + 1 : pcfd'[k] = k
    <3> TAKE k \in 1 .. accepted(s) + 1
    <3>1. k = cell \/ k \in 1 .. accepted(s)
      BY <1>3
    <3> QED
      BY <1>3, <1>4, <3>1 DEF CellsUsed, ServerTypes
  <2>2. \A k \in Cells \cup Connections : k \in Nat
    BY HttpAssumption DEF Cells, Connections
  <2>3. \A k \in Nat : k > accepted(s)' => k > accepted(s)
    BY <1>3
  <2> QED
    BY <1>1, <1>3, <1>4, <2>1, <2>2, <2>3 DEF CellsUsed
<1>8. ServedAlone(s)'
  <2>1. arg'[t] = cell /\ \A u \in Clients \ {t} : arg'[u] = arg[u]
    BY <1>1, <1>4
  <2>2. frees[cell] = 0 /\ closes[cell] = 0 /\ cell \in 1 .. accepted(s)'
    BY <1>3, <1>4 DEF CellsUsed
  <2>3. fd[t] = NoConnection
    BY <1>1, <1>4 DEF ServedAlone
  <2>4. \A u \in Clients \ {t} :
            at[u] # "none" => arg[u] # cell /\ arg[u] \in 1 .. accepted(s)'
    BY <1>3, <1>4 DEF ServedAlone
  <2> SUFFICES ASSUME NEW u \in Clients
               PROVE  /\ at'[u] \in {"none", "start"} => fd'[u] = NoConnection
                      /\ at'[u] # "none" =>
                           /\ arg'[u] \in 1 .. accepted(s)'
                           /\ \A v \in Clients :
                                  v # u /\ at'[v] # "none" => arg'[v] # arg'[u]
                      /\ at'[u] = "start" => frees'[arg'[u]] = 0
                      /\ at'[u] \notin {"none", "start"} => fd'[u] = arg'[u]
                      /\ at'[u] \notin {"none", "done"} => closes'[arg'[u]] = 0
    BY DEF ServedAlone
  <2>5. CASE u = t
    BY <1>1, <1>2, <2>1, <2>2, <2>3, <2>4, <2>5
  <2>6. CASE u # t
    BY <1>1, <1>2, <1>4, <2>1, <2>4, <2>6, ZenonT(60) DEF ServedAlone
  <2> QED
    BY <2>5, <2>6
<1> QED
  BY <1>5, <1>6, <1>7, <1>8 DEF Served

(* It could not be made. *)
LEMMA CannotServed ==
  ASSUME NEW s \in Nat, Sockets = {s}, Served(s), ThreadTypes, CannotServe
  PROVE  Served(s)'
<1>1. /\ accept /\ at' = [at EXCEPT ![server] = AfterAccept]
      /\ closes' = [closes EXCEPT ![pcfd'[cell]] = @ + 1]
      /\ frees' = [frees EXCEPT ![cell] = @ + 1]
      /\ UNCHANGED <<cell, arg, made, fd>>
  BY DEF CannotServe
<1>2. /\ at'[server] = AfterAccept /\ \A u \in Clients : at'[u] = at[u]
  BY <1>1, ThreadsApart DEF ThreadTypes
<1>3. /\ accepted(s)' = accepted(s) + 1 /\ accepted(s) \in Nat /\ cell = accepted(s) + 1
      /\ cell \in Cells /\ cell \in Connections
      /\ backlog' \in [Sockets -> Seq(Nat)] /\ Len(backlog'[s]) <= made
      /\ pcfd' = [pcfd EXCEPT ![cell] = cell] /\ pcfd' \in [Cells -> Nat]
      /\ at'[server] = "allocate"
      /\ \A i \in DOMAIN backlog'[s] : backlog'[s][i] = accepted(s)' + i
  BY <1>1, <1>2, AcceptServed
<1>4. ServerTypes(s) /\ CellsUsed(s) /\ ServedAlone(s)
  BY DEF Served
<1>5. /\ frees[cell] = 0 /\ closes[cell] = 0 /\ frees \in [Cells -> {0, 1}]
      /\ closes \in [Connections -> {0, 1}] /\ pcfd \in [Cells -> Nat]
  BY <1>3, <1>4 DEF CellsUsed, ServerTypes
<1>6. /\ frees' = [frees EXCEPT ![cell] = 1] /\ closes' = [closes EXCEPT ![cell] = 1]
      /\ frees' \in [Cells -> {0, 1}] /\ closes' \in [Connections -> {0, 1}]
  <2>1. pcfd'[cell] = cell
    BY <1>3, <1>5
  <2>2. frees' = [frees EXCEPT ![cell] = 1]
    BY <1>1, <1>5
  <2>a. closes' = [closes EXCEPT ![cell] = closes[cell] + 1]
    BY <1>1, <2>1
  <2>3. closes' = [closes EXCEPT ![cell] = 1]
    BY <1>5, <2>a
  <2> QED
    BY <1>3, <1>5, <2>2, <2>3
<1>7. ServerTypes(s)'
  BY <1>1, <1>3, <1>4, <1>6 DEF ServerTypes
<1>8. InBacklog(s)'
  BY <1>1, <1>3 DEF InBacklog
<1>9. CellsUsed(s)'
  <2>1. \A k \in 1 .. accepted(s) + 1 : pcfd'[k] = k
    <3> TAKE k \in 1 .. accepted(s) + 1
    <3>1. k = cell \/ k \in 1 .. accepted(s)
      BY <1>3
    <3> QED
      BY <1>3, <1>4, <3>1 DEF CellsUsed, ServerTypes
  <2>2. \A k \in Cells \cup Connections : k \in Nat
    BY HttpAssumption DEF Cells, Connections
  <2>3. \A k \in Nat : k > accepted(s)' => k > accepted(s) /\ k # cell
    BY <1>3
  <2>4. \A k \in Cells : k > accepted(s)' => frees'[k] = 0
    BY <1>4, <1>5, <1>6, <2>2, <2>3 DEF CellsUsed
  <2>5. \A c \in Connections : c > accepted(s)' => closes'[c] = 0
    BY <1>4, <1>5, <1>6, <2>2, <2>3 DEF CellsUsed
  <2> QED
    BY <1>3, <2>1, <2>4, <2>5 DEF CellsUsed
<1>10. ServedAlone(s)'
  <2>1. \A u \in Clients :
            at[u] # "none" => arg[u] # cell /\ arg[u] \in 1 .. accepted(s)'
    BY <1>3, <1>4 DEF ServedAlone
  <2>2. \A u \in Clients : at[u] # "none" =>
          arg[u] \in Cells /\ arg[u] \in Connections
    <3>1. /\ accepted(s)' <= MaxConnections /\ accepted(s)' \in Int
          /\ MaxConnections \in Nat
      BY <1>3, HttpAssumption DEF Connections
    <3> QED
      BY <2>1, <3>1 DEF Cells, Connections
  <2>3. \A u \in Clients :
          at[u] # "none" =>
            frees'[arg[u]] = frees[arg[u]] /\ closes'[arg[u]] = closes[arg[u]]
    BY <1>5, <1>6, <2>1, <2>2
  <2> QED
    BY <1>1, <1>2, <1>4, <2>1, <2>3 DEF ServedAlone
<1> QED
  BY <1>7, <1>8, <1>9, <1>10 DEF Served

(* The thread copies its cell and frees it. *)
LEMMA TakeServed ==
  ASSUME NEW s \in Nat, Sockets = {s}, Served(s), ThreadTypes, NEW t \in Clients,
         TakeArg(t)
  PROVE  Served(s)'
<1>1. /\ at[t] = "start" /\ at' = [at EXCEPT ![t] = "request"]
      /\ fd' = [fd EXCEPT ![t] = pcfd[arg[t]]]
      /\ frees' = [frees EXCEPT ![arg[t]] = @ + 1]
      /\ UNCHANGED <<backlog, cell, pcfd, arg, made, ready, closes>>
  BY DEF TakeArg, Goto
<1>2. /\ at'[server] = at[server] /\ at'[t] = "request"
      /\ \A u \in Clients \ {t} :
           at'[u] = at[u]
  BY <1>1, ThreadsApart DEF ThreadTypes
<1>3. ServerTypes(s) /\ CellsUsed(s) /\ ServedAlone(s)
  BY DEF Served
<1>4. accepted(s)' = accepted(s) /\ accepted(s) \in Int /\ accepted(s) <= MaxConnections
  <2>1. /\ accepted(s)' = accepted(s) /\ accepted(s) = made - Len(backlog[s])
        /\ backlog[s] \in Seq(Nat) /\ made \in Nat /\ made <= MaxConnections
    BY <1>1, <1>3 DEF ServerTypes, accepted
  <2> QED
    BY <2>1, HttpAssumption
<1>5. /\ arg[t] \in 1 .. accepted(s) /\ arg[t] \in Cells /\ arg[t] \in Nat
      /\ pcfd[arg[t]] = arg[t] /\ frees[arg[t]] = 0
  BY <1>1, <1>3, <1>4, HttpAssumption DEF ServedAlone, CellsUsed, Cells
<1>6. /\ fd' = [fd EXCEPT ![t] = arg[t]] /\ fd' \in [Clients -> Nat]
      /\ frees' = [frees EXCEPT ![arg[t]] = 1] /\ frees' \in [Cells -> {0, 1}]
  <2>1. fd \in [Clients -> Nat] /\ frees \in [Cells -> {0, 1}]
    BY <1>3 DEF ServerTypes
  <2>2. fd' = [fd EXCEPT ![t] = arg[t]] /\ frees' = [frees EXCEPT ![arg[t]] = 1]
    BY <1>1, <1>5
  <2> QED
    BY <1>5, <2>1, <2>2
<1>7. ServerTypes(s)'
  BY <1>1, <1>3, <1>6 DEF ServerTypes
<1>8. InBacklog(s)'
  BY <1>1, <1>2, <1>4 DEF Served, InBacklog
<1>9. CellsUsed(s)'
  <2>1. \A k \in Cells : k > accepted(s) => k # arg[t]
    BY <1>4, <1>5
  <2> QED
    BY <1>1, <1>3, <1>4, <1>6, <2>1 DEF CellsUsed, ServerTypes
<1>10. ServedAlone(s)'
  <2>1. \A u \in Clients \ {t} : at[u] # "none" => arg[u] # arg[t]
    BY <1>1, <1>3 DEF ServedAlone
  <2>2. \A u \in Clients \ {t} : at[u] # "none" => frees'[arg[u]] = frees[arg[u]]
    BY <1>6, <2>1, <1>3 DEF ServerTypes, ServedAlone
  <2>3. \A u \in Clients \ {t} : fd'[u] = fd[u]
    BY <1>6, <1>3 DEF ServerTypes
  <2>4. fd'[t] = arg[t] /\ closes[arg[t]] = 0
    BY <1>1, <1>3, <1>6 DEF ServerTypes, ServedAlone
  <2> QED
    BY <1>1, <1>2, <1>3, <1>4, <2>2, <2>3, <2>4 DEF ServedAlone
<1> QED
  BY <1>7, <1>8, <1>9, <1>10 DEF Served

(* It closes its descriptor. *)
LEMMA CloseServed ==
  ASSUME NEW s \in Nat, Sockets = {s}, Served(s), ThreadTypes, NEW t \in Clients,
         Close(t)
  PROVE  Served(s)'
<1>1. /\ at[t] = "close" /\ at' = [at EXCEPT ![t] = "done"]
      /\ closes' = [closes EXCEPT ![fd[t]] = @ + 1]
      /\ UNCHANGED <<backlog, cell, pcfd, arg, made, ready, frees, fd>>
  BY DEF Close, Goto, serverVars
<1>2. /\ at'[server] = at[server] /\ at'[t] = "done"
      /\ \A u \in Clients \ {t} :
           at'[u] = at[u]
  BY <1>1, ThreadsApart DEF ThreadTypes
<1>3. ServerTypes(s) /\ CellsUsed(s) /\ ServedAlone(s)
  BY DEF Served
<1>4. accepted(s)' = accepted(s) /\ accepted(s) \in Int /\ accepted(s) <= MaxConnections
  <2>1. /\ accepted(s)' = accepted(s) /\ accepted(s) = made - Len(backlog[s])
        /\ backlog[s] \in Seq(Nat) /\ made \in Nat /\ made <= MaxConnections
    BY <1>1, <1>3 DEF ServerTypes, accepted
  <2> QED
    BY <2>1, HttpAssumption
<1>5. /\ fd[t] = arg[t] /\ arg[t] \in 1 .. accepted(s) /\ arg[t] \in Connections
      /\ closes[arg[t]] = 0
  BY <1>1, <1>3, <1>4, HttpAssumption DEF ServedAlone, Connections
<1>6. closes' = [closes EXCEPT ![arg[t]] = 1] /\ closes' \in [Connections -> {0, 1}]
  <2>1. closes \in [Connections -> {0, 1}]
    BY <1>3 DEF ServerTypes
  <2>2. closes' = [closes EXCEPT ![arg[t]] = 1]
    BY <1>1, <1>5
  <2> QED
    BY <1>5, <2>1, <2>2
<1>7. ServerTypes(s)'
  BY <1>1, <1>3, <1>6 DEF ServerTypes
<1>8. InBacklog(s)'
  BY <1>1, <1>2, <1>4 DEF Served, InBacklog
<1>9. CellsUsed(s)'
  <2>1. \A c \in Connections : c > accepted(s) => c # arg[t]
    BY <1>4, <1>5
  <2> QED
    BY <1>1, <1>3, <1>4, <1>6, <2>1 DEF CellsUsed, ServerTypes
<1>10. ServedAlone(s)'
  <2>1. \A u \in Clients \ {t} : at[u] # "none" => arg[u] # arg[t]
    BY <1>1, <1>3 DEF ServedAlone
  <2>2. \A u \in Clients \ {t} : at[u] # "none" => closes'[arg[u]] = closes[arg[u]]
    BY <1>6, <2>1, <1>3 DEF ServerTypes
  <2>3. \A u \in Clients \ {t} : at[t] \notin {"none", "start"}
    BY <1>1
  <2> QED
    BY <1>1, <1>2, <1>3, <1>4, <1>5, <2>1, <2>2 DEF ServedAlone
<1> QED
  BY <1>7, <1>8, <1>9, <1>10 DEF Served

(* The camera thread moves client threads only to wake them. *)
LEMMA CameraMoves ==
  ASSUME ThreadTypes, Fill \/ CameraStep
  PROVE  /\ at'[server] = at[server]
         /\ \A t \in Clients :
                at'[t] = at[t] \/ (at[t] \in Answering /\ at'[t] \in Answering)
<1> USE ThreadsApart DEF Goto, ThreadTypes
<1>1. CASE StampPicture
  <2>1. \A t \in Clients : at'[t] = IF at[t] = "wait" THEN "woken" ELSE at[t]
    BY <1>1 DEF StampPicture, Waiting
  <2>2. at'[server] = at[server]
    BY <1>1 DEF StampPicture, Waiting
  <2>3. {"wait", "woken"} \subseteq Answering
    BY DEF Answering, ClientPlaces
  <2> QED
    BY <2>1, <2>2, <2>3
<1>2. CASE ~StampPicture
  <2>1. at' = at \/ \E p : at' = [at EXCEPT ![camera] = p]
    BY <1>2
    DEF Fill, CameraStep, Loop, NotPaused, Enable, Dequeue, DequeueFails, Copy,
        Requeue,
                RequeueFails, DropFrame, LockPicture, Lock, FillPicture, Cleanup
  <2> QED
    BY <2>1
<1> QED
  BY <1>1, <1>2

(* What a client thread does between the two. *)
LEMMA ClientMoves ==
  ASSUME ThreadTypes, NEW t \in Clients,
         \/ Check(t) \/ Wait(t) \/ Relock(t) \/ CopyHeader(t) \/ CopyBytes(t)
         \/ ResolutionStep(t) /\ UNCHANGED httpVars
         \/ Request(t) \/ NoRequest(t) \/ Respond(t)
  PROVE  /\ UNCHANGED <<made, backlog, ready, cell, pcfd, frees, arg, fd, closes>>
         /\ at'[server] = at[server]
         /\ \A u \in Clients :
                at'[u] = at[u] \/ (at[u] \in Answering /\ at'[u] \in Answering)
<1>1. UNCHANGED <<made, backlog, ready, cell, pcfd, frees, arg, fd, closes>>
  BY DEF Check, Wait, Relock, CopyHeader, CopyBytes, Request, NoRequest, Respond,
         httpVars,
         serverVars, clientVars
<1>2. /\ at[t] \in Answering
      /\ \E p \in Answering : at' = [at EXCEPT ![t] = p]
  <2>1. CASE Request(t)
    <3>1. PICK r \in Requests : Goto(t, "request", FirstStep[r])
      BY <2>1 DEF Request
    <3>2. FirstStep[r] \in {"listen", "respond", "resolution"}
      BY HttpAssumption DEF FirstStep
    <3> QED
      BY <3>1, <3>2 DEF Goto, Answering, ClientPlaces
  <2>2. CASE ResolutionStep(t)
    BY <2>2
    DEF ResolutionStep, Pause, StreamOff, CloseDevice, init_v4l2, EnableAgain,
        ChangeFails,
                Goto, Answering, ClientPlaces, ChangePlaces
  <2>3. CASE \/ Check(t) \/ Wait(t) \/ Relock(t) \/ CopyHeader(t) \/ CopyBytes(t)
             \/ NoRequest(t) \/ Respond(t)
    BY <2>3
    DEF Check, Wait, Relock, Lock, CopyHeader, CopyBytes, NoRequest, Respond,
                Goto, Answering, ClientPlaces
  <2> QED
    BY <2>1, <2>2, <2>3
<1>3. at'[server] = at[server] /\ \A u \in Clients \ {t} : at'[u] = at[u]
  BY <1>2, ThreadsApart DEF ThreadTypes
<1>4. at'[t] \in Answering
  BY <1>2, ThreadsApart DEF ThreadTypes
<1> QED
  BY <1>1, <1>2, <1>3, <1>4

(* Every step keeps the invariant. *)
LEMMA ServedStep ==
  ASSUME NEW s \in Nat, Sockets = {s}, PictureInv, Served(s), [Next]_vars
  PROVE  Served(s)'
<1> DEFINE Unserved == UNCHANGED <<made, backlog, ready, cell, pcfd, frees, arg, fd,
                                   closes>>
<1>0. /\ ThreadTypes /\ Stopping
      /\ Clients \subseteq Threads
      /\ \A t \in Clients :
           t \notin {camera, server, main, signal}
      /\ camera \in Threads /\ server \in Threads /\ main \in Threads
      /\ signal \in Threads
      /\ camera # server /\ server # main /\ server # signal
  BY ThreadsApart DEF PictureInv
<1>1. CASE UNCHANGED vars
  BY <1>1, ServedOther DEF vars, uvcVars, httpVars, serverVars, clientVars
<1>2. CASE (MainStep \/ Sigint \/ SignalStep \/ Cancelled)
  <2>1. Unserved
    BY <1>2
    DEF MainStep, Sigint, SignalStep, StopInputs, StopOutputs, Cancel, Destroy,
        ExitZero,
                Cancelled, Rest, httpVars, serverVars, clientVars
  <2>2. /\ \/ at'[server] = at[server]
           \/ at[server] = "none" /\ at'[server] = "allocate"
           \/ at'[server] = "ended"
        /\ \A t \in Clients : at'[t] = at[t]
    <3>1. CASE MainStep
      <4>1. CASE RunInput
        BY <1>0, <4>1 DEF RunInput, ThreadTypes
      <4>2. CASE RunOutput
        BY <1>0, <4>2 DEF RunOutput, ThreadTypes, Stopping
      <4>3. CASE OpenInput \/ OpenOutput
        BY <1>0, <4>3 DEF OpenInput, OpenOutput, Goto, ThreadTypes
      <4> QED
        BY <3>1, <4>1, <4>2, <4>3 DEF MainStep
    <3>2. CASE Sigint \/ SignalStep
      <4>1. at' = at \/ \E p : at' = [at EXCEPT ![signal] = p]
        BY <3>2
        DEF Sigint, SignalStep, StopInputs, StopOutputs, Cancel, Destroy, ExitZero,
            Goto
      <4> QED
        BY <1>0, <4>1 DEF ThreadTypes
    <3>3. CASE Cancelled
      <4>1. \/ at' = [at EXCEPT ![camera] = "cleanup"]
            \/ at' = [at EXCEPT ![server] = "ended"]
        BY <3>3 DEF Cancelled, Goto
      <4> QED
        BY <1>0, <4>1 DEF ThreadTypes
    <3> QED
      BY <1>2, <3>1, <3>2, <3>3
  <2> QED
    BY <2>1, <2>2, ServedOther
<1>3. CASE (Fill \/ CameraStep) /\ UNCHANGED <<httpVars, cancelled>>
  <2>1. Unserved
    BY <1>3 DEF httpVars, serverVars, clientVars
  <2>2. /\ at'[server] = at[server]
        /\ \A t \in Clients :
             at'[t] = at[t] \/ (at[t] \in Answering /\ at'[t] \in Answering)
    BY <1>0, <1>3, CameraMoves
  <2> QED
    BY <2>1, <2>2, ServedOther
<1>4. ASSUME NEW r \in Sockets, Connect(r)
      PROVE  Served(s)'
  BY <1>4, ConnectServed
<1>5. CASE ServerStep
  <2>1. CASE ServerStops
    <3>1. at'[server] = "ended" /\ \A t \in Clients : at'[t] = at[t]
      BY <1>0, <2>1 DEF ServerStops, Goto, ThreadTypes
    <3>2. Unserved
      BY <2>1 DEF ServerStops, httpVars, serverVars, clientVars
    <3> QED
      BY <3>1, <3>2, ServedOther
  <2> QED
    BY <1>0, <1>5, <2>1, SelectServed, ServeServed, CannotServed DEF ServerStep
<1>6. ASSUME NEW t \in Clients,
             ClientStep(t) \/ Request(t) \/ NoRequest(t) \/ Respond(t)
      PROVE  Served(s)'
  <2>1. CASE TakeArg(t) \/ Close(t)
    BY <1>0, <2>1, TakeServed, CloseServed
  <2>2. CASE \/ Check(t) \/ Wait(t) \/ Relock(t) \/ CopyHeader(t) \/ CopyBytes(t)
             \/ ResolutionStep(t) /\ UNCHANGED httpVars
             \/ Request(t) \/ NoRequest(t) \/ Respond(t)
    BY <1>0, <2>2, ClientMoves, ServedOther
  <2> QED
    BY <1>6, <2>1, <2>2 DEF ClientStep
<1> QED
  BY <1>1, <1>2, <1>3, <1>4, <1>5, <1>6 DEF Next, HttpNext

(* server_thread, "create a child for every client that connects": with one
   listening socket no two threads have one descriptor, and each descriptor is
   closed and each cell freed at most once. *)
THEOREM OneThreadPerClient ==
  ASSUME NEW s \in Nat, Sockets = {s}
  PROVE  Spec => []ServedByOne
<1>1. ASSUME Served(s) PROVE ServedByOne
  <2>1. ServerTypes(s) /\ ServedAlone(s)
    BY <1>1 DEF Served
  <2>2. ASSUME NEW t \in Clients, NEW u \in Clients, t # u, fd[t] # NoConnection
        PROVE  fd[t] # fd[u]
    <3>1. at[t] \notin {"none", "start"} /\ fd[t] = arg[t]
      BY <2>1, <2>2 DEF ServedAlone
    <3>2. at[u] # "none" => arg[u] # arg[t]
      BY <2>1, <2>2, <3>1 DEF ServedAlone
    <3> QED
      BY <2>1, <2>2, <3>1, <3>2 DEF ServedAlone
  <2>3. \A c \in Connections : closes[c] \in {0, 1}
    BY <2>1 DEF ServerTypes
  <2>4. \A k \in Cells : frees[k] \in {0, 1}
    BY <2>1 DEF ServerTypes
  <2> QED
    BY <2>2, <2>3, <2>4 DEF ServedByOne
<1>2. Init => Served(s)
  BY InitServed
<1>3. PictureInv /\ Served(s) /\ [Next]_vars => Served(s)'
  BY ServedStep
<1> QED
  BY <1>1, <1>2, <1>3, PictureInvariant, PTL DEF Spec
=============================================================================
