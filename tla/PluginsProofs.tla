--------------------------- MODULE PluginsProofs ---------------------------
(***************************************************************************)
(* Theorems about the plugins of mjpg_streamer that run beside each other  *)
(* in one process (Plugins), for any number of files, buffers, pictures,   *)
(* clients and failures.  Three arguments carry them: a name is reported   *)
(* once, so that the file is there until its worker has handled it         *)
(* (StillThere); the webcam's buffers go round, the Ahead oldest of them   *)
(* taken and the others in its queue (Round); and what an output saves was *)
(* published after the message that asks for it came in (Saving).          *)
(***************************************************************************)
EXTENDS Plugins, TLAPS

-----------------------------------------------------------------------------
(* The inductive invariant.                                                *)

IsPicture(b) == DOMAIN b = {"content", "whole", "serial"}

Types ==
  /\ DOMAIN at = Threads /\ DOMAIN in = Ids
  /\ \A n \in Ids : IsPicture(in[n])
  /\ serial \in Nat /\ faults \in Nat
  /\ cancelled # {} => stop
  /\ ~FromFiles => ~reuse

(* When a worker of an input is done, and when the process is.              *)
Told == stop \/ faults > 0
NameUsedAgain == FromFiles /\ rm /\ reuse

Ends ==
  /\ (id = 0 /\ process # "up") => Told
  /\ at[input] \in {"cleanup", "ended"} => Told \/ NameUsedAgain

(* input_file: unless a name is removed and used again, a file that was     *)
(* reported is there until the worker has handled it.                      *)
Handling == at[input] \in {"open", "stat", "lock", "read file", "unlink"}

FileTypes ==
  /\ DOMAIN folder = Names /\ DOMAIN made = Names /\ events \in Seq(Names)
  /\ \E S : inode \in Seq(S)
  /\ writing # NotWriting => DOMAIN writing = {1, 2} /\ writing[1] \in Names
  /\ Handling => ev \in Names

OncePerName ==
  ~reuse =>
    /\ \A k \in DOMAIN events : made[events[k]] # 0
    /\ writing # NotWriting =>
         /\ made[writing[1]] # 0
         /\ \A k \in DOMAIN events : events[k] # writing[1]
    /\ Handling =>
         /\ made[ev] # 0
         /\ \A k \in DOMAIN events : events[k] # ev
         /\ writing # NotWriting => writing[1] # ev

StillThere ==
  ~(rm /\ reuse) =>
    /\ \A k \in DOMAIN events : folder[events[k]] # NoFile
    /\ writing # NotWriting => folder[writing[1]] # NoFile
    /\ at[input] = "open" => folder[ev] # NoFile

(* Files that are moved in only are whole, and do not change.               *)
WholeFiles ==
  ~InPlace =>
    /\ writing = NotWriting
    /\ \A k \in DOMAIN inode : inode[k].whole
    /\ \A n \in Names : folder[n] \in {NoFile} \cup DOMAIN inode
    /\ at[input] \in {"stat", "lock", "read file"} => file \in DOMAIN inode
    /\ at[input] \in {"lock", "read file"} => filesize = inode[file].content

Files == FromFiles => FileTypes /\ OncePerName /\ StillThere /\ WholeFiles

(* input_testpicture: the buffer it publishes in was allocated.             *)
Allocation ==
  (~FromFiles /\ ~FromWebcam) => sequence \in Nat /\ (id = 0 => in[0].content # 0)

(* input_gspcav1: the webcam's buffers go round.                            *)
Ahead == buffers - Len(queue)
Done == taken - Ahead
Wrap(b) == IF b > buffers THEN b - buffers ELSE b
Frames == [content : Nat, whole : BOOLEAN, serial : {0}]

RingTypes ==
  /\ captured \in [1 .. buffers -> Frames] /\ queue \in Seq(1 .. buffers) /\ taken \in Nat
  /\ vmmap \in 1 .. buffers /\ ptframe \in [1 .. OUTFRMNUMB -> Frames] /\ frame_cour \in 1 .. OUTFRMNUMB

Round ==
  at[input] # "ended" =>
    /\ Ahead \in 0 .. buffers /\ Done \in Nat
    /\ \A j \in 0 .. Ahead - 1 :
         /\ captured[Wrap(vmmap + j)].content = Done + 1 + j
         /\ captured[Wrap(vmmap + j)].whole \/ faults > 0
    /\ \A i \in DOMAIN queue :
         /\ queue[i] = Wrap(vmmap + Ahead + i - 1)
         /\ captured[queue[i]] = NULL

Converted ==
  /\ at[input] \in {"convert", "capture"} => Ahead > 0
  /\ at[input] = "capture" =>
       /\ ptframe[frame_cour].content = Done + 1
       /\ ptframe[frame_cour].whole \/ faults > 0
  /\ at[input] = "publish" =>
       /\ ptframe[iframe].content = Done
       /\ ptframe[iframe].whole \/ faults > 0

Published ==
  runs = 1 =>
    /\ at[input] \notin {"ended"} => Done = IF at[input] = "publish" THEN serial + 1 ELSE serial
    /\ in[id].content \in Int
    /\ in[id].content > 0 => in[id].content = in[id].serial /\ in[id].whole

Webcam == FromWebcam => RingTypes /\ Round /\ Converted /\ Published

(* output_udp and output_rtsp: what is saved was published after the        *)
(* message came in, and is what it was when it was published.              *)
Excused == Told \/ InPlace \/ (rm /\ reuse)
Late(picture) == picture.serial > since /\ (picture.whole \/ Excused)

Saving ==
  /\ DOMAIN files = FileNames /\ since \in 0 .. serial
  /\ \A m \in socket : m.text \in FileNames \cup {noName}
  /\ udpbuffer \in FileNames \cup {noName}
  /\ at[output] = "woken" => Late(in[input_number])
  /\ at[output] \in {"save", "write", "answer"} => Late(frame)
  /\ (at[output] = "answer" /\ udpbuffer # noName) => files[udpbuffer] = frame
  /\ AnswerMeansSaved

Udp == IF ToFiles THEN answers = {} ELSE Saving

Idle ==
  process = "up" /\ at[input] = "check" /\ in = BuffersAtStart /\ answers = {}

PluginsInv ==
  /\ runs \in Nat \ {0}
  /\ IF Simulated THEN Types /\ Ends /\ Files /\ Allocation /\ Webcam /\ Udp ELSE Idle

-----------------------------------------------------------------------------
(* What a step of an output leaves as it is.                               *)

Goes(t) == DOMAIN at' = DOMAIN at /\ \A u \in Threads \ {t} : at'[u] = at[u]

(* output_file changes nothing the inputs see. *)
LEMMA FileOutputEffect ==
  ASSUME Types, FileOutputStep
  PROVE  /\ Goes(output) /\ UNCHANGED <<process, stop, cancelled, in, serial>>
         /\ faults' \in {faults, faults + 1}
<1> USE PictureAssumption DEF Types, Threads
<1>1. CASE FileCheck
  BY <1>1 DEF FileCheck, Goto, KeepPicture, SameProcess, SamePicture, Goes
<1>2. CASE Grab("name")
  BY <1>2
  DEF Grab, Listen, Copy, CopyFails, Fault, Goto, SameProcess, SamePicture, Goes
<1>3. CASE MakeName
  BY <1>3 DEF MakeName, Fault, Goto, KeepPicture, SameProcess, SamePicture, Goes
<1>4. CASE OpenPicture \/ WritePicture \/ SaveFails
  BY <1>4
  DEF OpenPicture, WritePicture, SaveFails, Fault, Call, Goto, KeepPicture,
      SameProcess,
              SamePicture, Goes
<1>5. CASE Maintain
  BY <1>5 DEF Maintain, Goto, KeepPicture, SameProcess, SamePicture, Goes
<1>6. CASE DeleteNext
  BY <1>6 DEF DeleteNext, Fault, Goto, KeepPicture, SameProcess, SamePicture, Goes
<1>7. CASE FileCleanup
  BY <1>7 DEF FileCleanup, Goto, SameProcess, Goes
<1>8. CASE Cancelled(output, {"wait", "woken", "open", "write", "command"})
  BY <1>8 DEF Cancelled, SameProcess, Goes
<1> QED
  BY <1>1, <1>2, <1>3, <1>4, <1>5, <1>6, <1>7, <1>8, FileOutputStep
  DEF FileOutputStep

(* output_udp and output_rtsp change nothing the inputs see. *)
LEMMA RtspOutputEffect ==
  ASSUME Types, RtspOutputStep \/ UdpOutputStep
  PROVE  /\ Goes(output) /\ UNCHANGED <<process, stop, cancelled, in, serial>>
         /\ faults' \in {faults, faults + 1}
<1> USE PictureAssumption DEF Types, Threads
<1>1. CASE Bind \/ UdpCheck \/ Command
  BY <1>1 DEF Bind, UdpCheck, Command, Goto, Keep, SameProcess, SamePicture, Goes
<1>2. CASE Receive \/ ReceiveFails
  BY <1>2
  DEF Receive, ReceiveFails, Call, Fault, Goto, Keep, SameProcess, SamePicture, Goes
<1>3. CASE Grab("save")
  BY <1>3
  DEF Grab, Listen, Copy, CopyFails, Fault, Goto, SameProcess, SamePicture, Goes
<1>4. CASE OpenNamed \/ WriteNamed
  BY <1>4
  DEF OpenNamed, WriteNamed, Call, Goto, Keep, SameProcess, SamePicture, Goes
<1>5. CASE SaveNamedFails
  BY <1>5
  DEF SaveNamedFails, Call, Fault, Goto, Keep, SameProcess, SamePicture, Goes
<1>6. CASE Answer
  BY <1>6 DEF Answer, Call, Goto, Keep, SameProcess, SamePicture, Goes
<1>7. CASE UdpCleanup
  BY <1>7 DEF UdpCleanup, Goto, SameProcess, Goes
<1>8. ASSUME NEW calls, Cancelled(output, calls) PROVE Goes(output) /\ UNCHANGED <<process, stop, cancelled, in, serial, faults>>
  BY <1>8 DEF Cancelled, SameProcess, Goes
<1> QED
  BY <1>1, <1>2, <1>3, <1>4, <1>5, <1>6, <1>7, <1>8, RtspOutputStep \/ UdpOutputStep
  DEF UdpOutputStep, RtspOutputStep

-----------------------------------------------------------------------------
(* What a step of an input does to what an output sees.                     *)

Unpublished ==
  /\ serial' = serial /\ at'[output] = at[output]
  /\ \A n \in Ids : in'[n].serial = in[n].serial /\ (in'[n].whole = in[n].whole \/ Excused')

Publication ==
  \E n \in Ids :
    /\ serial' = serial + 1 /\ in'[n].serial = serial' /\ (in'[n].whole \/ InPlace)
    /\ at'[output] = IF at[output] = "wait" /\ input_number = n THEN "woken" ELSE at[output]
    /\ \A m \in Ids \ {n} : in'[m] = in[m]

InputEffect ==
  /\ UNCHANGED <<stop, cancelled, frame>> /\ faults' \in {faults, faults + 1}
  /\ DOMAIN at' = Threads /\ DOMAIN in' = Ids /\ \A n \in Ids : IsPicture(in'[n])
  /\ Unpublished \/ Publication

(* Publishing counts the picture and says under the mutex who it is for:
   what the buffer holds afterwards is that picture, with the next serial
   number. *)
LEMMA Published1 ==
  ASSUME Types, NEW n \in Ids, NEW picture, IsPicture(picture), picture.whole \/ InPlace,
         NEW from, NEW to, Publish(n, picture, from, to)
  PROVE  /\ DOMAIN at' = Threads /\ DOMAIN in' = Ids /\ \A m \in Ids : IsPicture(in'[m])
         /\ Publication
         /\ at'[input] = to
         /\ in' = [in EXCEPT ![n] = [picture EXCEPT !.serial = serial']]
<1>1. /\ in' = [in EXCEPT ![n] = [picture EXCEPT !.serial = serial']]
      /\ at' = [at EXCEPT ![input] = to,
                          ![output] = IF @ = "wait" /\ input_number = n THEN "woken" ELSE @]
      /\ serial' = serial + 1
  BY DEF Publish
<1>2. /\ DOMAIN at' = Threads /\ at'[input] = to
      /\ at'[output] = IF at[output] = "wait" /\ input_number = n THEN "woken" ELSE at[output]
  BY <1>1, PictureAssumption DEF Types, Threads
<1>3. /\ DOMAIN in' = Ids /\ \A m \in Ids \ {n} : in'[m] = in[m]
      /\ in'[n] = [picture EXCEPT !.serial = serial']
  BY <1>1 DEF Types
<1>4. in'[n].serial = serial' /\ IsPicture(in'[n]) /\ in'[n].whole = picture.whole
  BY <1>3 DEF IsPicture
<1> QED
  BY <1>1, <1>2, <1>3, <1>4 DEF Publication, Types

(* A step of input_file publishes a picture that is as whole as the files
   are, or leaves the buffers to the output; it frees one only when it
   ends. *)
LEMMA FileInputEffect ==
  ASSUME Types, Ends, FromFiles, WholeFiles, FileInputStep
  PROVE  InputEffect
<1> USE PictureAssumption DEF Types
<1>a. Threads = {input, output} /\ Ids = {0, 1} /\ id \in Ids
  BY DEF Threads, Ids
<1>1. CASE Check \/ ReadEvents \/ Ignore \/ Open \/ Stat
  BY <1>1, <1>a
  DEF Check, ReadEvents, Ignore, Open, Stat, Call, Goto, SameProcess, SamePicture,
      InputEffect, Unpublished
<1>2. CASE ReadEventsFails \/ OpenFails \/ StatFails
  BY <1>2, <1>a
  DEF ReadEventsFails, OpenFails, StatFails, Fault, Call, Goto, SameProcess,
      SamePicture, InputEffect, Unpublished
<1>3. CASE LockPicture \/ Unlink
  BY <1>3, <1>a
  DEF LockPicture, Lock, Unlink, Goto, SameProcess, SamePicture, InputEffect,
      Unpublished
<1>4. CASE MallocFails \/ ReadFileFails
  <2>1. /\ in' = [in EXCEPT ![id] = Emptied(@)] /\ faults' = faults + 1
        /\ \E from : Goto(input, from, "cleanup")
        /\ UNCHANGED <<stop, cancelled, frame, serial>>
    BY <1>4 DEF MallocFails, ReadFileFails, Call, Fault, SameProcess
  <2>2. DOMAIN at' = Threads /\ at'[output] = at[output]
    BY <2>1, <1>a DEF Goto
  <2>3. IsPicture(in'[id]) /\ in'[id].serial = in[id].serial
    BY <2>1, <1>a DEF IsPicture, Emptied
  <2>4. Excused'
    BY <2>1 DEF Excused, Told
  <2> QED
    BY <2>1, <2>2, <2>3, <2>4, <1>a DEF InputEffect, Unpublished
<1>5. CASE ReadFile
  <2>1. PICK fits \in BOOLEAN :
          Publish(id, [content |-> inode[file].content, serial |-> 0,
                       whole |-> /\ inode[file].whole
                                 /\ filesize = inode[file].content \/ (filesize # NoFile /\ fits)],
                  "read file", "unlink")
    BY <1>5 DEF ReadFile
  <2> DEFINE picture == [content |-> inode[file].content, serial |-> 0,
                         whole |-> /\ inode[file].whole
                                   /\ filesize = inode[file].content \/ (filesize # NoFile /\ fits)]
  <2>2. IsPicture(picture)
    BY DEF IsPicture
  <2>3. picture.whole \/ InPlace
    <3>1. at[input] = "read file"
      BY <2>1 DEF Publish
    <3> QED
      BY <3>1 DEF WholeFiles
  <2> HIDE DEF picture
  <2>4. Publish(id, picture, "read file", "unlink")
    BY <2>1 DEF picture
  <2> QED
    BY <2>2, <2>3, <2>4, <1>a, <1>5, Published1
    DEF ReadFile, SameProcess, InputEffect
<1>6. CASE FreePicture
  <2>1. /\ in' = [in EXCEPT ![id] = Freed(@)] /\ Goto(input, "cleanup", "ended")
        /\ UNCHANGED <<stop, cancelled, frame, serial, faults, rm, reuse>>
    BY <1>6 DEF FreePicture, SameProcess, fileInputVars, optionVars
  <2>2. DOMAIN at' = Threads /\ at'[output] = at[output]
    BY <2>1, <1>a DEF Goto
  <2>3. IsPicture(in'[id]) /\ in'[id].serial = in[id].serial
    BY <2>1, <1>a DEF IsPicture, Freed
  <2>4. Excused'
    BY <2>1 DEF Excused, Told, Ends, Goto, NameUsedAgain
  <2> QED
    BY <2>1, <2>2, <2>3, <2>4, <1>a DEF InputEffect, Unpublished
<1>7. CASE Cancelled(input, {"read", "open", "read file", "unlink"})
  BY <1>7, <1>a DEF Cancelled, SameProcess, InputEffect, Unpublished
<1> QED
  BY <1>1, <1>2, <1>3, <1>4, <1>5, <1>6, <1>7, FileInputStep DEF FileInputStep

(* So does a step of input_testpicture. *)
LEMMA TestInputEffect ==
  ASSUME Types, Ends, ~FromFiles, TestInputStep
  PROVE  InputEffect
<1> USE PictureAssumption DEF Types
<1>a. Threads = {input, output} /\ Ids = {0, 1} /\ plugin_number \in Ids
  BY DEF Threads, Ids, plugin_number
<1>1. CASE CheckStop
  BY <1>1, <1>a
  DEF CheckStop, Goto, SameProcess, SamePicture, InputEffect, Unpublished
<1>2. CASE NextPicture
  <2>1. CASE in[plugin_number].content = 0
    BY <1>2, <2>1, <1>a DEF NextPicture, SamePicture, InputEffect, Unpublished
  <2>2. CASE in[plugin_number].content # 0
    <3> DEFINE picture == [content |-> sequence' + 1, whole |-> TRUE, serial |-> 0]
    <3>1. IsPicture(picture) /\ picture.whole
      BY DEF IsPicture
    <3>2. Publish(plugin_number, picture, "lock", "check")
      BY <1>2, <2>2 DEF NextPicture
    <3> HIDE DEF picture
    <3> QED
      BY <1>2, <2>2, <3>1, <3>2, <1>a, Published1 DEF NextPicture, InputEffect
  <2> QED
    BY <2>1, <2>2
<1>3. CASE FreeBuffer
  <2>1. /\ in' = [in EXCEPT ![plugin_number] = Freed(@)] /\ Goto(input, "cleanup", "ended")
        /\ UNCHANGED <<stop, cancelled, frame, serial, faults>>
    BY <1>3 DEF FreeBuffer, SameProcess
  <2>2. DOMAIN at' = Threads /\ at'[output] = at[output]
    BY <2>1, <1>a DEF Goto
  <2>3. IsPicture(in'[plugin_number]) /\ in'[plugin_number].serial = in[plugin_number].serial
    BY <2>1, <1>a DEF IsPicture, Freed
  <2>4. Excused'
    BY <2>1 DEF Excused, Told, Ends, Goto, NameUsedAgain
  <2> QED
    BY <2>1, <2>2, <2>3, <2>4, <1>a DEF InputEffect, Unpublished
<1>4. CASE Cancelled(input, {"check"})
  BY <1>4, <1>a DEF Cancelled, SameProcess, InputEffect, Unpublished
<1> QED
  BY <1>1, <1>2, <1>3, <1>4, TestInputStep DEF TestInputStep

(* And a step of input_gspcav1. *)
LEMMA GspcaInputEffect ==
  ASSUME Types, Ends, FromWebcam, RingTypes, GspcaInputStep
  PROVE  InputEffect
<1> USE PictureAssumption DEF Types
<1>a. Threads = {input, output} /\ Ids = {0, 1} /\ id \in Ids
  BY DEF Threads, Ids
<1>1. CASE WebcamCheck \/ Sync \/ Convert \/ Capture
  BY <1>1, <1>a
  DEF WebcamCheck, Sync, Convert, Capture, Goto, SameProcess, SamePicture,
      InputEffect, Unpublished
<1>2. CASE WebcamFails
  BY <1>2, <1>a DEF WebcamFails, Fault, SamePicture, InputEffect, Unpublished
<1>3. CASE PublishFrame
  <2>1. CASE get_jpegsize(ptframe[iframe])
    <3> DEFINE picture == ptframe[iframe]
    <3>1. IsPicture(picture) /\ picture.whole
      <4>1. iframe \in 1 .. OUTFRMNUMB
        BY DEF iframe, OUTFRMNUMB, RingTypes
      <4> QED
        BY <4>1, <2>1 DEF IsPicture, RingTypes, Frames, get_jpegsize
    <3>2. Publish(id, picture, "publish", "check")
      BY <1>3, <2>1 DEF PublishFrame
    <3> HIDE DEF picture
    <3> QED
      BY <1>3, <2>1, <3>1, <3>2, <1>a, Published1 DEF PublishFrame, InputEffect
  <2>2. CASE ~get_jpegsize(ptframe[iframe])
    BY <1>3, <2>2, <1>a DEF PublishFrame, SamePicture, InputEffect, Unpublished
  <2> QED
    BY <2>1, <2>2
<1>4. CASE CloseWebcam
  <2>1. /\ in' = [in EXCEPT ![id] = Freed(@)] /\ Goto(input, "cleanup", "ended")
        /\ UNCHANGED <<stop, cancelled, frame, serial, faults>>
    BY <1>4 DEF CloseWebcam, SameProcess
  <2>2. DOMAIN at' = Threads /\ at'[output] = at[output]
    BY <2>1, <1>a DEF Goto
  <2>3. IsPicture(in'[id]) /\ in'[id].serial = in[id].serial
    BY <2>1, <1>a DEF IsPicture, Freed
  <2>4. Excused'
    BY <2>1 DEF Excused, Told, Ends, Goto, NameUsedAgain, FromFiles, FromWebcam
  <2> QED
    BY <2>1, <2>2, <2>3, <2>4, <1>a DEF InputEffect, Unpublished
<1> QED
  BY <1>1, <1>2, <1>3, <1>4, GspcaInputStep DEF GspcaInputStep

-----------------------------------------------------------------------------
(* input_file.                                                             *)

(* input_file ends only if it was told to, a call of its fails, or the
   name it handles was used again: what it opens is there otherwise. *)
LEMMA FileInputEnds ==
  ASSUME Types, Ends, FromFiles, FileTypes, StillThere, FileInputStep
  PROVE  /\ process' = process
         /\ at'[input] \in {"cleanup", "ended"} => Told' \/ (rm /\ reuse)
<1> USE PictureAssumption DEF Types
<1>a. input \in Threads
  BY DEF Threads
<1>1. CASE Check \/ ReadEvents \/ Ignore \/ Open \/ Stat
  BY <1>1, <1>a
  DEF Check, ReadEvents, Ignore, Open, Stat, Call, Goto, SameProcess, Told
<1>2. CASE ReadEventsFails \/ StatFails \/ MallocFails \/ ReadFileFails
  <2>1. faults' = faults + 1 /\ process' = process
    BY <1>2
    DEF ReadEventsFails, StatFails, MallocFails, ReadFileFails, Fault, SameProcess
  <2> QED
    BY <2>1 DEF Told
<1>3. CASE OpenFails
  BY <1>3, <1>a DEF OpenFails, Fault, Call, Goto, SameProcess, Told, StillThere
<1>4. CASE LockPicture \/ Unlink
  BY <1>4, <1>a DEF LockPicture, Lock, Unlink, Goto, SameProcess
<1>5. CASE ReadFile
  BY <1>5, <1>a DEF ReadFile, Publish, SameProcess
<1>6. CASE FreePicture
  BY <1>6, <1>a DEF FreePicture, Goto, SameProcess, Told, Ends, NameUsedAgain
<1>7. CASE Cancelled(input, {"read", "open", "read file", "unlink"})
  BY <1>7, <1>a DEF Cancelled, SameProcess, Told
<1> QED
  BY <1>1, <1>2, <1>3, <1>4, <1>5, <1>6, <1>7, FileInputStep DEF FileInputStep

(* The steps of the worker, as far as the files matter.                     *)

(* A step of input_file keeps what is known of the files: it takes the
   oldest event, and the name it handles is in no other event. *)
LEMMA FileInputFiles ==
  ASSUME Types, FromFiles, FileTypes, OncePerName, StillThere, WholeFiles, FileInputStep
  PROVE  FileTypes' /\ OncePerName' /\ StillThere' /\ WholeFiles'
<1> USE PictureAssumption DEF Types
<1>a. input \in Threads
  BY DEF Threads
<1>1. CASE Check \/ ReadEventsFails \/ OpenFails \/ StatFails \/ MallocFails \/ ReadFileFails \/ Ignore \/ FreePicture
  <2>1. UNCHANGED fileInputVars /\ at'[input] \in {"cleanup", "read", "check", "ended"}
    BY <1>1, <1>a
    DEF Check, ReadEventsFails, OpenFails, StatFails, MallocFails, ReadFileFails,
        Ignore, FreePicture, Call, Goto
  <2> QED
    BY <2>1
    DEF fileInputVars, optionVars, folderVars, FileTypes, OncePerName, StillThere,
        WholeFiles, Handling
<1>2. CASE ReadEvents
  <2>1. /\ events # <<>> /\ ev' = Head(events) /\ events' = <<>> /\ at'[input] = "open"
        /\ UNCHANGED <<rm, reuse, folder, inode, writing, made, file, filesize>>
    BY <1>2, <1>a DEF ReadEvents, Call, Goto, KeepFiles, optionVars, folderVars
  <2>2. ev' = events[1] /\ 1 \in DOMAIN events /\ events[1] \in Names
    BY <2>1 DEF FileTypes
  <2>3. DOMAIN events' = {} /\ events' \in Seq(Names)
    BY <2>1
  <2> QED
    BY <2>1, <2>2, <2>3 DEF FileTypes, OncePerName, StillThere, WholeFiles, Handling
<1>3. CASE Open
  <2>1. /\ at[input] = "open" /\ at'[input] = "stat" /\ folder[ev] # NoFile /\ file' = folder[ev]
        /\ UNCHANGED <<rm, reuse, folder, inode, writing, made, events, ev, filesize>>
    BY <1>3, <1>a DEF Open, Call, Goto, KeepFiles, optionVars, folderVars
  <2> QED
    BY <2>1 DEF FileTypes, OncePerName, StillThere, WholeFiles, Handling
<1>4. CASE Stat
  <2>1. /\ at[input] = "stat" /\ at'[input] = "lock"
        /\ filesize' = IF inode[file].whole THEN inode[file].content ELSE NoFile
        /\ UNCHANGED <<rm, reuse, folder, inode, writing, made, events, ev, file>>
    BY <1>4, <1>a DEF Stat, Goto, KeepFiles, optionVars, folderVars
  <2> QED
    BY <2>1 DEF FileTypes, OncePerName, StillThere, WholeFiles, Handling
<1>5. CASE LockPicture \/ ReadFile
  <2>1. /\ at[input] \in {"lock", "read file"} /\ at'[input] \in {"read file", "unlink"}
        /\ UNCHANGED fileInputVars
    BY <1>5, <1>a DEF LockPicture, Lock, ReadFile, Publish, Goto
  <2> QED
    BY <2>1
    DEF fileInputVars, optionVars, folderVars, FileTypes, OncePerName, StillThere,
        WholeFiles, Handling
<1>6. CASE Unlink
  <2>1. /\ at[input] = "unlink" /\ at'[input] = "check"
        /\ folder' = IF rm THEN [folder EXCEPT ![ev] = NoFile] ELSE folder
        /\ UNCHANGED <<rm, reuse, inode, writing, made, events, ev, file, filesize>>
    BY <1>6, <1>a DEF Unlink, Goto, optionVars
  <2>2. FileTypes' /\ OncePerName' /\ WholeFiles'
    BY <2>1 DEF FileTypes, OncePerName, WholeFiles, Handling
  <2>3. StillThere'
    BY <2>1 DEF FileTypes, OncePerName, StillThere, Handling
  <2> QED
    BY <2>2, <2>3
<1>7. CASE Cancelled(input, {"read", "open", "read file", "unlink"}) /\ UNCHANGED fileInputVars
  <2>1. UNCHANGED fileInputVars /\ at'[input] = "cleanup"
    BY <1>7, <1>a DEF Cancelled
  <2> QED
    BY <2>1
    DEF fileInputVars, optionVars, folderVars, FileTypes, OncePerName, StillThere,
        WholeFiles, Handling
<1> QED
  BY <1>1, <1>2, <1>3, <1>4, <1>5, <1>6, <1>7, FileInputStep DEF FileInputStep

(* What other programs do with the files.                                  *)

(* What Append makes of a sequence. *)
LEMMA Extended ==
  ASSUME NEW S, NEW s \in Seq(S), NEW e
  PROVE  /\ Append(s, e) \in Seq(S \cup {e}) /\ Len(Append(s, e)) = Len(s) + 1
         /\ \A k \in DOMAIN s : Append(s, e)[k] = s[k]
         /\ Append(s, e)[Len(s) + 1] = e
<1>1. s \in Seq(S \cup {e}) /\ e \in S \cup {e}
  OBVIOUS
<1> QED
  BY <1>1

(* Replacing an element of a sequence, or none. *)
LEMMA Replaced ==
  ASSUME NEW S, NEW s \in Seq(S), NEW k, NEW e
  PROVE  [s EXCEPT ![k] = e] \in Seq(S \cup {e})
<1>1. s \in [1 .. Len(s) -> S] /\ Len(s) \in Nat
  OBVIOUS
<1>2. [s EXCEPT ![k] = e] \in [1 .. Len(s) -> S \cup {e}]
  BY <1>1
<1> QED
  BY <1>1, <1>2

(* A file that is reported adds one event. *)
LEMMA EventsGrown ==
  ASSUME FileTypes, NEW n \in Names, events' = Append(events, n)
  PROVE  /\ events' \in Seq(Names)
         /\ \A k \in DOMAIN events' : events'[k] = n \/ (k \in DOMAIN events /\ events'[k] = events[k])
<1>1. events \in Seq(Names) /\ DOMAIN events = 1 .. Len(events) /\ Len(events) \in Nat
  BY DEF FileTypes
<1>2. events' \in Seq(Names) /\ Len(events') = Len(events) + 1 /\ DOMAIN events' = 1 .. Len(events) + 1
  BY <1>1
<1>3. ASSUME NEW k \in DOMAIN events' PROVE events'[k] = n \/ (k \in DOMAIN events /\ events'[k] = events[k])
  BY <1>1, <1>2
<1> QED
  BY <1>2, <1>3

(* What other programs write, move in or write over keeps what is known
   of the files: a name is used once unless names are used again. *)
LEMMA OtherProgramsFiles ==
  ASSUME Types, FileTypes, OncePerName, StillThere, WholeFiles, OtherPrograms
  PROVE  FileTypes' /\ OncePerName' /\ StillThere' /\ WholeFiles'
<1>1. PICK S : inode \in Seq(S)
  BY DEF FileTypes
<1>2. Len(inode) \in Nat /\ DOMAIN inode = 1 .. Len(inode)
  BY <1>1
<1>3. ASSUME NEW n \in Names, MoveIn(n)
      PROVE  FileTypes' /\ OncePerName' /\ StillThere' /\ WholeFiles'
  <2> DEFINE picture == [content |-> Made + 1, whole |-> TRUE]
  <2>1. /\ inode' = Append(inode, picture) /\ folder' = [folder EXCEPT ![n] = Len(inode')]
        /\ events' = Append(events, n) /\ made' = [made EXCEPT ![n] = @ + 1] /\ (reuse \/ made[n] = 0)
        /\ UNCHANGED <<writing, rm, reuse, ev, file, filesize, at>>
    BY <1>3 DEF MoveIn, New, optionVars, pictureVars
  <2>2. picture.whole
    OBVIOUS
  <2> HIDE DEF picture
  <2>3. /\ inode' \in Seq(S \cup {picture}) /\ Len(inode') = Len(inode) + 1
        /\ \A k \in DOMAIN inode : inode'[k] = inode[k]
        /\ inode'[Len(inode) + 1] = picture
    BY <1>1, <2>1, Extended
  <2>4. /\ events' \in Seq(Names)
        /\ \A k \in DOMAIN events' : events'[k] = n \/ (k \in DOMAIN events /\ events'[k] = events[k])
    BY <2>1, EventsGrown
  <2>5. folder'[n] # NoFile /\ folder'[n] = Len(inode) + 1 /\ \A m \in Names \ {n} : folder'[m] = folder[m]
    BY <1>2, <2>1, <2>3 DEF FileTypes, NoFile
  <2>6. FileTypes'
    BY <2>1, <2>3, <2>4 DEF FileTypes, Handling
  <2>7. ~reuse => made'[n] # 0 /\ made[n] = 0 /\ \A m \in Names \ {n} : made'[m] = made[m]
    BY <2>1 DEF FileTypes
  <2>8. OncePerName'
    <3>1. SUFFICES ASSUME ~reuse PROVE OncePerName'
      BY <2>1 DEF OncePerName
    <3>2. \A k \in DOMAIN events : events[k] \in Names /\ events[k] # n /\ made'[events[k]] # 0
      BY <2>7, <3>1 DEF OncePerName, FileTypes
    <3>3. writing # NotWriting => writing[1] # n /\ made'[writing[1]] # 0
      BY <2>7, <3>1 DEF OncePerName, FileTypes
    <3>4. Handling => ev # n /\ made'[ev] # 0
      BY <2>7, <3>1 DEF OncePerName, FileTypes
    <3> QED
      BY <2>1, <2>4, <2>7, <3>1, <3>2, <3>3, <3>4 DEF OncePerName, Handling
  <2>9. StillThere'
    BY <2>1, <2>4, <2>5 DEF StillThere, FileTypes
  <2>10. WholeFiles'
    <3>1. DOMAIN inode' = DOMAIN inode \cup {Len(inode) + 1} /\ DOMAIN inode \subseteq DOMAIN inode'
      BY <1>2, <2>3
    <3> QED
      BY <2>1, <2>2, <2>3, <2>5, <3>1 DEF WholeFiles
  <2> QED
    BY <2>6, <2>8, <2>9, <2>10
<1>4. ASSUME NEW n \in Names, OpenForWriting(n)
      PROVE  FileTypes' /\ OncePerName' /\ StillThere' /\ WholeFiles'
  <2> DEFINE k == IF folder[n] = NoFile THEN Len(inode) + 1 ELSE folder[n]
             begun == [content |-> Made + 1, whole |-> FALSE]
  <2>1. /\ InPlace /\ writing = NotWriting
        /\ inode' = (IF k > Len(inode) THEN Append(inode, begun) ELSE [inode EXCEPT ![k] = begun])
        /\ folder' = [folder EXCEPT ![n] = k] /\ writing' = <<n, k>>
        /\ made' = [made EXCEPT ![n] = @ + 1] /\ (reuse \/ made[n] = 0)
        /\ UNCHANGED <<rm, reuse, events, ev, file, filesize, at>>
    BY <1>4 DEF OpenForWriting, New, optionVars, pictureVars
  <2>2. k # NoFile
    BY <1>2 DEF NoFile
  <2> HIDE DEF k, begun
  <2>3. inode' \in Seq(S \cup {begun})
    BY <1>1, <2>1, Extended, Replaced
  <2>4. /\ writing' # NotWriting /\ DOMAIN writing' = {1, 2} /\ writing'[1] = n
        /\ folder'[n] # NoFile /\ \A m \in Names \ {n} : folder'[m] = folder[m]
    BY <2>1, <2>2 DEF NotWriting, FileTypes
  <2>5. FileTypes'
    BY <2>1, <2>3, <2>4 DEF FileTypes, Handling
  <2>6. ~reuse => made'[n] # 0 /\ made[n] = 0 /\ \A m \in Names \ {n} : made'[m] = made[m]
    BY <2>1 DEF FileTypes
  <2>7. OncePerName'
    <3>1. SUFFICES ASSUME ~reuse PROVE OncePerName'
      BY <2>1 DEF OncePerName
    <3>2. \A j \in DOMAIN events : events[j] # n /\ made'[events[j]] # 0
      BY <2>6, <3>1 DEF OncePerName, FileTypes
    <3>3. Handling => ev # n /\ made'[ev] # 0
      BY <2>6, <3>1 DEF OncePerName, FileTypes
    <3> QED
      BY <2>1, <2>4, <2>6, <3>1, <3>2, <3>3 DEF OncePerName, Handling
  <2>8. StillThere'
    BY <2>1, <2>4 DEF StillThere, FileTypes
  <2> QED
    BY <2>1, <2>5, <2>7, <2>8 DEF WholeFiles
<1>5. CASE CloseWritten
  <2> DEFINE whole == [inode[writing[2]] EXCEPT !.whole = TRUE]
  <2>1. /\ writing # NotWriting /\ writing' = NotWriting
        /\ inode' = [inode EXCEPT ![writing[2]] = whole] /\ events' = Append(events, writing[1])
        /\ UNCHANGED <<folder, made, rm, reuse, ev, file, filesize, at>>
    BY <1>5 DEF CloseWritten, optionVars, pictureVars
  <2> HIDE DEF whole
  <2>2. writing[1] \in Names
    BY <2>1 DEF FileTypes
  <2>3. /\ events' \in Seq(Names)
        /\ \A k \in DOMAIN events' : events'[k] = writing[1] \/ (k \in DOMAIN events /\ events'[k] = events[k])
    BY <2>1, <2>2, EventsGrown
  <2>4. inode' \in Seq(S \cup {whole})
    BY <1>1, <2>1, Replaced
  <2>5. FileTypes'
    BY <2>1, <2>3, <2>4 DEF FileTypes, Handling
  <2>6. OncePerName'
    BY <2>1, <2>3 DEF OncePerName, Handling, FileTypes
  <2>7. StillThere'
    BY <2>1, <2>3 DEF StillThere, FileTypes
  <2>8. WholeFiles'
    BY <2>1 DEF WholeFiles
  <2> QED
    BY <2>5, <2>6, <2>7, <2>8
<1> QED
  BY <1>3, <1>4, <1>5, OtherPrograms DEF OtherPrograms

-----------------------------------------------------------------------------
(* input_testpicture: NULL is published in only if id is not 0.             *)

(* The successor of a number is not 0. *)
LEMMA Positive ==
  ASSUME NEW n \in Nat
  PROVE  n + 1 # 0 /\ n + 1 > 0
  OBVIOUS

(* input_testpicture publishes in the buffer it has allocated, so that
   the process does not end of itself, and its worker ends only when told
   to. *)
LEMMA TestInputAllocation ==
  ASSUME Types, Ends, ~FromFiles, ~FromWebcam, Allocation, TestInputStep
  PROVE  /\ sequence' \in Nat /\ (id = 0 => in'[0].content # 0)
         /\ id = 0 => process' = process
         /\ at'[input] \in {"cleanup", "ended"} => Told'
<1> USE PictureAssumption DEF Types
<1>a. input \in Threads /\ 0 \in Ids
  BY DEF Threads, Ids
<1>1. CASE CheckStop
  BY <1>1, <1>a DEF CheckStop, Goto, SameProcess, SamePicture, Told, Allocation
<1>2. CASE NextPicture
  <2>1. sequence' \in Nat
    BY <1>2 DEF NextPicture, Allocation
  <2>2. CASE in[plugin_number].content = 0
    BY <1>2, <2>1, <2>2 DEF NextPicture, SamePicture, plugin_number, Allocation
  <2>3. CASE in[plugin_number].content # 0
    <3> DEFINE picture == [content |-> sequence' + 1, whole |-> TRUE, serial |-> 0]
    <3>1. IsPicture(picture) /\ picture.whole /\ picture.content # 0
      <4>1. sequence' + 1 # 0
        BY <2>1, Positive
      <4>2. picture.content = sequence' + 1 /\ IsPicture(picture) /\ picture.whole
        BY DEF IsPicture
      <4> QED
        BY <4>1, <4>2
    <3>2. Publish(0, picture, "lock", "check") /\ process' = process
      BY <1>2, <2>3 DEF NextPicture, plugin_number
    <3> HIDE DEF picture
    <3>3. at'[input] = "check" /\ in' = [in EXCEPT ![0] = [picture EXCEPT !.serial = serial']]
      BY <3>1, <3>2, <1>a, Published1
    <3>4. in'[0].content = picture.content
      BY <3>1, <3>3, <1>a DEF IsPicture
    <3> QED
      BY <2>1, <3>1, <3>2, <3>3, <3>4
  <2> QED
    BY <2>2, <2>3
<1>3. CASE FreeBuffer
  <2>1. /\ in' = [in EXCEPT ![0] = Freed(@)] /\ Goto(input, "cleanup", "ended")
        /\ UNCHANGED <<process, stop, faults, sequence>>
    BY <1>3 DEF FreeBuffer, SameProcess, plugin_number
  <2>2. in[0].content # 0 => in'[0].content # 0
    BY <2>1, <1>a DEF IsPicture, Freed
  <2> QED
    BY <2>1, <2>2 DEF Goto, Ends, Told, NameUsedAgain, Allocation
<1>4. CASE Cancelled(input, {"check"}) /\ UNCHANGED sequence
  BY <1>4, <1>a DEF Cancelled, SameProcess, Told, Allocation
<1> QED
  BY <1>1, <1>2, <1>3, <1>4, TestInputStep DEF TestInputStep

-----------------------------------------------------------------------------
(* input_gspcav1.                                                          *)

(* vmmap goes round without a remainder. *)
LEMMA NextBuffer ==
  ASSUME NEW b \in 1 .. buffers
  PROVE  (b % buffers) + 1 = IF b = buffers THEN 1 ELSE b + 1
  BY GspcaAssumption

(* iframe, two behind the next frame_cour, is the frame just converted. *)
LEMMA NextFrame ==
  ASSUME NEW f \in 1 .. 4
  PROVE  (f % 4) + 1 \in 1 .. 4 /\ ((((f % 4) + 1) + 4 - 2) % 4) + 1 = f
<1>1. f = 1 \/ f = 2 \/ f = 3 \/ f = 4
  OBVIOUS
<1> QED
  BY <1>1

(* input_gspcav1 ends only if it was told to or a call of its fails. *)
LEMMA WebcamEnds ==
  ASSUME Types, Ends, FromWebcam, RingTypes, Converted, GspcaInputStep
  PROVE  /\ process' # process => Told'
         /\ at'[input] \in {"cleanup", "ended"} => Told'
<1> USE PictureAssumption DEF Types
<1>a. input \in Threads /\ id \in Ids
  BY DEF Threads, Ids
<1>1. CASE WebcamCheck \/ Sync \/ Convert \/ Capture
  BY <1>1, <1>a DEF WebcamCheck, Sync, Convert, Capture, Goto, SameProcess, Told
<1>2. CASE WebcamFails
  BY <1>2 DEF WebcamFails, Fault, Told
<1>3. CASE PublishFrame
  <2>1. CASE get_jpegsize(ptframe[iframe])
    BY <1>3, <2>1, <1>a DEF PublishFrame, Publish
  <2>2. CASE ~get_jpegsize(ptframe[iframe])
    BY <1>3, <2>2 DEF PublishFrame, Converted, get_jpegsize, Told
  <2> QED
    BY <2>1, <2>2
<1>4. CASE CloseWebcam
  BY <1>4
  DEF CloseWebcam, Goto, SameProcess, Ends, Told, NameUsedAgain, FromFiles,
      FromWebcam
<1> QED
  BY <1>1, <1>2, <1>3, <1>4, GspcaInputStep DEF GspcaInputStep

(* The webcam's and the program's steps keep the types of the ring. *)
LEMMA RingTypesStep ==
  ASSUME RingTypes, GspcaInputStep \/ TakePicture
  PROVE  RingTypes'
<1> USE GspcaAssumption DEF RingTypes
<1>1. CASE WebcamCheck \/ Sync \/ WebcamFails \/ PublishFrame
  BY <1>1 DEF WebcamCheck, Sync, WebcamFails, PublishFrame, gspcaVars
<1>2. CASE Convert
  <2>1. [captured[vmmap] EXCEPT !.whole = @ /\ vmmap \notin ToSet(queue)] \in Frames
    BY DEF Frames
  <2> QED
    BY <1>2, <2>1 DEF Convert
<1>3. CASE Capture
  <2>1. NULL \in Frames
    BY DEF NULL, Frames
  <2>2. vmmap' \in 1 .. buffers
    BY <1>3, NextBuffer DEF Capture
  <2>3. frame_cour' \in 1 .. OUTFRMNUMB
    BY <1>3 DEF Capture, OUTFRMNUMB
  <2> QED
    BY <1>3, <2>1, <2>2, <2>3 DEF Capture
<1>4. CASE CloseWebcam
  <2>1. NULL \in Frames
    BY DEF NULL, Frames
  <2> QED
    BY <1>4, <2>1 DEF CloseWebcam, close_v4l
<1>5. CASE TakePicture
  <2>1. taken' \in Nat /\ UNCHANGED <<vmmap, ptframe, frame_cour>> /\ queue' = Tail(queue) /\ queue # <<>>
    BY <1>5 DEF TakePicture
  <2>2. [NULL EXCEPT !.content = taken', !.whole = TRUE] \in Frames /\ [NULL EXCEPT !.content = taken'] \in Frames
    BY <2>1 DEF NULL, Frames
  <2>3. captured' \in [1 .. buffers -> Frames]
    BY <1>5, <2>2 DEF TakePicture
  <2> QED
    BY <2>1, <2>3
<1> QED
  BY <1>1, <1>2, <1>3, <1>4, <1>5, GspcaInputStep \/ TakePicture DEF GspcaInputStep

(* The buffers go round: what the webcam fills next, and what the program   *)
(* hands back, is where it should be.                                      *)

(* A buffer that is queued behind the first one was queued before. *)
LEMMA Within ==
  ASSUME NEW n \in Nat, NEW m \in Nat, NEW k \in Nat, n = m - k, NEW i \in 1 .. n - 1
  PROVE  i + 1 \in 1 .. n /\ i \in 1 .. m
  OBVIOUS

(* No buffer that is queued is the one the program copies next. *)
LEMMA Elsewhere ==
  ASSUME NEW v \in 1 .. buffers, NEW k \in 1 .. buffers, NEW i \in 1 .. buffers - k
  PROVE  Wrap(v + k + i - 1) # v
  BY GspcaAssumption DEF Wrap

(* The webcam fills the first buffer of its queue: the one after those
   that wait to be copied. *)
LEMMA TakeRound ==
  ASSUME Types, RingTypes, Round, at[input] # "ended", TakePicture
  PROVE  /\ Round' /\ Ahead' = Ahead + 1 /\ Done' = Done /\ vmmap' = vmmap
<1> USE GspcaAssumption DEF RingTypes
<1>1. /\ queue # <<>> /\ taken' = taken + 1 /\ queue' = Tail(queue)
      /\ UNCHANGED <<at, vmmap, ptframe, frame_cour>>
  BY DEF TakePicture
<1>2. PICK picture : /\ captured' = [captured EXCEPT ![Head(queue)] = picture]
                     /\ picture.content = taken + 1
                     /\ picture.whole \/ faults' > 0
                     /\ faults' \in {faults, faults + 1}
  <2>1. CASE captured' = [captured EXCEPT ![Head(queue)] = [NULL EXCEPT !.content = taken', !.whole = TRUE]]
             /\ UNCHANGED faults
    <3>1. [NULL EXCEPT !.content = taken', !.whole = TRUE].content = taken + 1
      BY <1>1 DEF NULL
    <3>2. [NULL EXCEPT !.content = taken', !.whole = TRUE].whole
      BY DEF NULL
    <3> QED
      BY <2>1, <3>1, <3>2
  <2>2. CASE captured' = [captured EXCEPT ![Head(queue)] = [NULL EXCEPT !.content = taken']] /\ Fault
    <3>1. [NULL EXCEPT !.content = taken'].content = taken + 1
      BY <1>1 DEF NULL
    <3>2. faults' = faults + 1 /\ faults' > 0
      BY <2>2, Positive DEF Fault, Types
    <3> QED
      BY <2>2, <3>1, <3>2
  <2> QED
    BY <2>1, <2>2 DEF TakePicture
<1>3. /\ Len(queue) \in Nat /\ Len(queue) > 0 /\ DOMAIN queue = 1 .. Len(queue)
      /\ Head(queue) = queue[1] /\ Len(queue') = Len(queue) - 1 /\ DOMAIN queue' = 1 .. Len(queue) - 1
      /\ \A i \in DOMAIN queue' : queue'[i] = queue[i + 1]
  BY <1>1
<1>4. /\ Ahead' = Ahead + 1 /\ Done' = Done /\ Ahead \in 0 .. buffers - 1 /\ Done \in Nat
      /\ taken = Done + Ahead /\ Len(queue) = buffers - Ahead
  BY <1>1, <1>3 DEF Ahead, Done, Round
<1>5. Head(queue) = Wrap(vmmap + Ahead)
  <2>1. 1 \in DOMAIN queue
    BY <1>3
  <2>2. queue[1] = Wrap(vmmap + Ahead + 1 - 1)
    BY <2>1 DEF Round
  <2>3. vmmap + Ahead + 1 - 1 = vmmap + Ahead
    BY <1>4
  <2> QED
    BY <1>3, <2>2, <2>3
<1>6. ASSUME NEW j \in 0 .. Ahead' - 1
      PROVE  /\ captured'[Wrap(vmmap + j)].content = Done + 1 + j
             /\ captured'[Wrap(vmmap + j)].whole \/ faults' > 0
  <2>1. Wrap(vmmap + j) \in 1 .. buffers
    BY <1>4 DEF Wrap
  <2>2. CASE j = Ahead
    BY <1>2, <1>4, <1>5, <2>1, <2>2
  <2>3. CASE j # Ahead
    <3>1. Wrap(vmmap + j) # Wrap(vmmap + Ahead)
      BY <1>4, <2>3 DEF Wrap
    <3>2. captured'[Wrap(vmmap + j)] = captured[Wrap(vmmap + j)]
      BY <1>2, <1>5, <2>1, <3>1
    <3>3. j \in 0 .. Ahead - 1
      BY <1>4, <2>3
    <3>4. /\ captured[Wrap(vmmap + j)].content = Done + 1 + j
          /\ captured[Wrap(vmmap + j)].whole \/ faults > 0
      BY <3>3 DEF Round
    <3>5. faults > 0 => faults' > 0
      BY <1>2 DEF Types
    <3> QED
      BY <3>2, <3>4, <3>5
  <2> QED
    BY <2>2, <2>3
<1>7. ASSUME NEW i \in DOMAIN queue'
      PROVE  queue'[i] = Wrap(vmmap + Ahead' + i - 1) /\ captured'[queue'[i]] = NULL
  <2>1. i + 1 \in DOMAIN queue /\ queue'[i] = queue[i + 1] /\ i \in 1 .. buffers
    <3>1. i \in 1 .. Len(queue) - 1
      BY <1>3
    <3>2. Len(queue) \in Nat /\ buffers \in Nat /\ Ahead \in Nat /\ Len(queue) = buffers - Ahead
      BY <1>3, <1>4
    <3>3. i + 1 \in 1 .. Len(queue) /\ i \in 1 .. buffers
      BY <3>1, <3>2, Within
    <3> QED
      BY <1>3, <3>3
  <2>2. queue[i + 1] = Wrap(vmmap + Ahead + (i + 1) - 1) /\ captured[queue[i + 1]] = NULL
    BY <2>1 DEF Round
  <2>3. vmmap + Ahead + (i + 1) - 1 = vmmap + Ahead' + i - 1
    BY <1>4, <2>1
  <2>4. Wrap(vmmap + Ahead + i) # Wrap(vmmap + Ahead)
    BY <1>3, <1>4, <2>1, SMTT(30) DEF Wrap, Ahead
  <2>5. queue'[i] # Head(queue)
    BY <1>4, <1>5, <2>1, <2>2, <2>4
  <2> QED
    BY <1>2, <2>1, <2>2, <2>3, <2>5
<1> QED
  BY <1>1, <1>4, <1>6, <1>7 DEF Round

(* The program hands back the buffer it has copied, and goes on to the
   next: it becomes the last of the queue. *)
LEMMA CaptureRound ==
  ASSUME Types, RingTypes, Round, Ahead > 0, at[input] = "capture", Capture
  PROVE  /\ Round' /\ Done' = Done + 1
<1> USE GspcaAssumption DEF RingTypes
<1>1. /\ queue' = Append(queue, vmmap) /\ captured' = [captured EXCEPT ![vmmap] = NULL]
      /\ vmmap' = (IF vmmap = buffers THEN 1 ELSE vmmap + 1)
      /\ UNCHANGED <<taken, faults>>
  BY NextBuffer DEF Capture
<1>2. /\ Len(queue) \in Nat /\ DOMAIN queue = 1 .. Len(queue)
      /\ Len(queue') = Len(queue) + 1 /\ DOMAIN queue' = 1 .. Len(queue) + 1
      /\ queue'[Len(queue) + 1] = vmmap /\ \A i \in DOMAIN queue : queue'[i] = queue[i]
  BY <1>1
<1>3. Ahead' = Ahead - 1 /\ Done' = Done + 1 /\ Ahead \in 1 .. buffers /\ Done \in Nat
  BY <1>1, <1>2 DEF Ahead, Done, Round
<1>4. vmmap = Wrap(vmmap) /\ \A j \in 0 .. buffers - 1 : Wrap(vmmap' + j) = Wrap(vmmap + (j + 1))
  BY <1>1 DEF Wrap
<1>5. ASSUME NEW j \in 0 .. Ahead' - 1
      PROVE  /\ captured'[Wrap(vmmap' + j)].content = Done' + 1 + j
             /\ captured'[Wrap(vmmap' + j)].whole \/ faults' > 0
  <2>1. Wrap(vmmap' + j) = Wrap(vmmap + (j + 1)) /\ j + 1 \in 0 .. Ahead - 1
    BY <1>3, <1>4
  <2>2. Wrap(vmmap + (j + 1)) # vmmap /\ Wrap(vmmap + (j + 1)) \in 1 .. buffers
    BY <1>3, <2>1 DEF Wrap
  <2>3. captured'[Wrap(vmmap' + j)] = captured[Wrap(vmmap + (j + 1))]
    BY <1>1, <2>1, <2>2
  <2>4. /\ captured[Wrap(vmmap + (j + 1))].content = Done + 1 + (j + 1)
        /\ captured[Wrap(vmmap + (j + 1))].whole \/ faults > 0
    BY <2>1 DEF Round
  <2> QED
    BY <1>1, <1>3, <2>3, <2>4
<1>6. ASSUME NEW i \in DOMAIN queue'
      PROVE  queue'[i] = Wrap(vmmap' + Ahead' + i - 1) /\ captured'[queue'[i]] = NULL
  <2>1. CASE i = Len(queue) + 1
    <3>1. vmmap' + Ahead' + i - 1 = vmmap' + (buffers - 1)
      BY <1>1, <1>2, <1>3, <2>1 DEF Ahead
    <3>2. Wrap(vmmap' + (buffers - 1)) = vmmap
      BY <1>1 DEF Wrap
    <3> QED
      BY <1>1, <1>2, <2>1, <3>1, <3>2
  <2>2. CASE i # Len(queue) + 1
    <3>1. i \in DOMAIN queue /\ queue'[i] = queue[i] /\ i \in 1 .. buffers - 1
      BY <1>2, <1>3, <2>2 DEF Ahead
    <3>2. queue[i] = Wrap(vmmap + Ahead + i - 1) /\ captured[queue[i]] = NULL
      BY <3>1 DEF Round
    <3>3. Wrap(vmmap + Ahead + i - 1) = Wrap(vmmap' + Ahead' + i - 1)
      <4>1. Ahead' + i - 1 \in 0 .. buffers - 1
        BY <1>2, <1>3, <3>1 DEF Ahead
      <4>2. Wrap(vmmap' + (Ahead' + i - 1)) = Wrap(vmmap + ((Ahead' + i - 1) + 1))
        BY <1>4, <4>1
      <4>3. vmmap + ((Ahead' + i - 1) + 1) = vmmap + Ahead + i - 1 /\ vmmap' + (Ahead' + i - 1) = vmmap' + Ahead' + i - 1
        BY <1>1, <1>3, <3>1, SMTT(30)
      <4> QED
        BY <4>2, <4>3
    <3> QED
      BY <1>1, <3>1, <3>2, <3>3
  <2> QED
    BY <2>1, <2>2
<1> QED
  BY <1>3, <1>5, <1>6 DEF Round

(* A picture the webcam takes goes into none of the buffers the program
   uses. *)
LEMMA TakeConverted ==
  ASSUME Types, RingTypes, Round, Converted, Published, TakePicture, runs' = runs
  PROVE  Round' /\ Converted' /\ Published'
<1>1. UNCHANGED <<at, ptframe, frame_cour, serial, in>> /\ queue # <<>> /\ queue' = Tail(queue) /\ taken' = taken + 1
  BY DEF TakePicture, SamePicture
<1>2. faults > 0 => faults' > 0
  BY DEF TakePicture, Fault, Types
<1>3. Ahead' = Ahead + 1 /\ Done' = Done
  <2>1. Len(queue') = Len(queue) - 1 /\ Len(queue) \in Nat
    BY <1>1 DEF RingTypes
  <2> QED
    BY <1>1, <2>1, GspcaAssumption DEF Ahead, Done, RingTypes
<1>4. Round'
  BY <1>1, TakeRound DEF Round
<1>5. Ahead > 0 => Ahead' > 0
  <2>1. Len(queue) \in Nat
    BY DEF RingTypes
  <2> QED
    BY <1>3, <2>1, GspcaAssumption DEF Ahead
<1>6. Converted'
  BY <1>1, <1>2, <1>3, <1>5 DEF Converted, iframe
<1>7. Published'
  BY <1>1, <1>3 DEF Published
<1> QED
  BY <1>4, <1>6, <1>7

(* A step of input_gspcav1 keeps the buffers going round: what it
   publishes is what it copied, what it copies is the oldest picture. *)
LEMMA WebcamStep ==
  ASSUME Types, RingTypes, Round, Converted, Published, GspcaInputStep, runs' = runs
  PROVE  Round' /\ Converted' /\ Published'
<1> USE PictureAssumption DEF Types
<1>a. input \in Threads /\ id \in Ids
  BY DEF Threads, Ids
<1>1. CASE WebcamCheck
  <2>1. /\ UNCHANGED <<gspcaVars, in, serial, faults>>
        /\ at[input] = "check" /\ at'[input] \in {"cleanup", "sync"}
    BY <1>1, <1>a DEF WebcamCheck, Goto, SamePicture
  <2> QED
    BY <2>1 DEF gspcaVars, Round, Converted, Published, Ahead, Done, iframe
<1>2. CASE Sync
  <2>1. /\ UNCHANGED <<gspcaVars, in, serial, faults>>
        /\ at[input] = "sync" /\ at'[input] = "convert" /\ captured[vmmap] # NULL
    BY <1>2, <1>a DEF Sync, Goto, SamePicture
  <2>2. Ahead > 0
    <3>1. SUFFICES ASSUME Ahead = 0 PROVE FALSE
      BY <2>1, GspcaAssumption DEF Round
    <3>2. Len(queue) = buffers /\ 1 \in DOMAIN queue
      BY <3>1, GspcaAssumption DEF Ahead, RingTypes
    <3>3. queue[1] = Wrap(vmmap + Ahead + 1 - 1) /\ captured[queue[1]] = NULL
      BY <2>1, <3>2 DEF Round
    <3>4. Wrap(vmmap + Ahead + 1 - 1) = vmmap
      BY <3>1, GspcaAssumption DEF Wrap, RingTypes
    <3> QED
      BY <2>1, <3>3, <3>4
  <2> QED
    BY <2>1, <2>2 DEF gspcaVars, Round, Converted, Published, Ahead, Done, iframe
<1>3. CASE WebcamFails
  <2>1. UNCHANGED <<gspcaVars, in, serial, at>> /\ faults' = faults + 1
    BY <1>3 DEF WebcamFails, Fault, SamePicture
  <2>2. faults' > 0
    BY <2>1, Positive
  <2> QED
    BY <2>1, <2>2 DEF gspcaVars, Round, Converted, Published, Ahead, Done, iframe
<1>4. CASE Convert
  <2>1. /\ UNCHANGED <<captured, queue, taken, vmmap, frame_cour, faults, in, serial>>
        /\ at[input] = "convert" /\ at'[input] = "capture"
        /\ ptframe' = [ptframe EXCEPT ![frame_cour] =
                         [captured[vmmap] EXCEPT !.whole = @ /\ vmmap \notin ToSet(queue)]]
    BY <1>4, <1>a DEF Convert, Goto, SamePicture
  <2>2. Ahead > 0 /\ Ahead \in 0 .. buffers
    BY <2>1 DEF Converted, Round
  <2>3. captured[vmmap].content = Done + 1 /\ (captured[vmmap].whole \/ faults > 0)
    <3>1. 0 \in 0 .. Ahead - 1
      BY <2>2, GspcaAssumption
    <3>2. Wrap(vmmap + 0) = vmmap /\ Done + 1 + 0 = Done + 1
      BY <2>1, GspcaAssumption DEF Wrap, RingTypes, Round
    <3> QED
      BY <2>1, <3>1, <3>2 DEF Round
  <2>4. vmmap \notin ToSet(queue)
    <3>1. SUFFICES ASSUME NEW i \in DOMAIN queue, queue[i] = vmmap PROVE FALSE
      BY DEF ToSet
    <3>2. i \in 1 .. Len(queue) /\ Len(queue) \in Nat /\ Len(queue) = buffers - Ahead
      BY <2>2, GspcaAssumption DEF RingTypes, Ahead
    <3>3. vmmap = Wrap(vmmap + Ahead + i - 1)
      BY <2>1, <3>1 DEF Round
    <3>4. vmmap \in 1 .. buffers /\ Ahead \in 1 .. buffers
      BY <2>2 DEF RingTypes
    <3>5. i \in 1 .. buffers - Ahead
      BY <3>2
    <3> QED
      BY <3>3, <3>4, <3>5, Elsewhere
  <2>5. ptframe'[frame_cour] = [captured[vmmap] EXCEPT !.whole = @ /\ vmmap \notin ToSet(queue)]
    BY <2>1 DEF RingTypes
  <2>6. captured[vmmap] \in Frames
    BY DEF RingTypes
  <2>7. ptframe'[frame_cour].content = Done + 1 /\ (ptframe'[frame_cour].whole \/ faults > 0)
    BY <2>3, <2>4, <2>5, <2>6 DEF Frames
  <2>8. Ahead' = Ahead /\ Done' = Done
    BY <2>1 DEF Ahead, Done
  <2>9. Round'
    BY <2>1, <2>8 DEF Round
  <2>10. Converted'
    BY <2>1, <2>2, <2>7, <2>8 DEF Converted
  <2>11. Published'
    BY <2>1, <2>8 DEF Published
  <2> QED
    BY <2>9, <2>10, <2>11
<1>5. CASE Capture
  <2>1. /\ at[input] = "capture" /\ at'[input] = "publish" /\ UNCHANGED <<ptframe, faults, in, serial>>
        /\ frame_cour' = (frame_cour % OUTFRMNUMB) + 1
    BY <1>5, <1>a DEF Capture, Goto, SamePicture
  <2>2. Ahead > 0
    BY <2>1 DEF Converted
  <2>3. Round' /\ Done' = Done + 1
    BY <1>5, <2>1, <2>2, CaptureRound
  <2>4. frame_cour' \in 1 .. OUTFRMNUMB /\ iframe' = frame_cour
    BY <2>1, NextFrame DEF iframe, OUTFRMNUMB, RingTypes
  <2>5. Converted'
    BY <2>1, <2>3, <2>4 DEF Converted
  <2>6. Published'
    BY <2>1, <2>3 DEF Published
  <2> QED
    BY <2>3, <2>5, <2>6
<1>6. CASE PublishFrame
  <2>1. at[input] = "publish" /\ UNCHANGED <<gspcaVars, faults>>
    BY <1>6 DEF PublishFrame
  <2>2. Ahead' = Ahead /\ Done' = Done /\ iframe' = iframe
    BY <2>1 DEF gspcaVars, Ahead, Done, iframe
  <2>3. CASE ~get_jpegsize(ptframe[iframe])
    <3>1. UNCHANGED <<at, in, serial>>
      BY <1>6, <2>3 DEF PublishFrame, SamePicture
    <3> QED
      BY <2>1, <2>2, <3>1 DEF gspcaVars, Round, Converted, Published
  <2>4. CASE get_jpegsize(ptframe[iframe])
    <3> DEFINE picture == ptframe[iframe]
    <3>1. picture \in Frames /\ picture.whole /\ IsPicture(picture) /\ picture.content = Done
      <4>1. iframe \in 1 .. OUTFRMNUMB
        BY DEF iframe, OUTFRMNUMB, RingTypes
      <4> QED
        BY <2>1, <4>1, <2>4
        DEF IsPicture, RingTypes, Frames, get_jpegsize, Converted
    <3>2. Publish(id, picture, "publish", "check")
      BY <1>6, <2>4 DEF PublishFrame
    <3>3. serial' = serial + 1
      BY <3>2 DEF Publish
    <3> HIDE DEF picture
    <3>4. at'[input] = "check" /\ in' = [in EXCEPT ![id] = [picture EXCEPT !.serial = serial']]
      BY <3>1, <3>2, <1>a, Published1
    <3>5. in'[id].content = Done /\ in'[id].serial = serial' /\ in'[id].whole
      BY <3>1, <3>4, <1>a DEF IsPicture
    <3>6. Round' /\ Converted'
      BY <2>1, <2>2, <3>4 DEF gspcaVars, Round, Converted
    <3>7. Published'
      BY <2>1, <2>2, <3>3, <3>4, <3>5 DEF Published, Round
    <3> QED
      BY <3>6, <3>7
  <2> QED
    BY <2>3, <2>4
<1>7. CASE CloseWebcam
  <2>1. at'[input] = "ended" /\ in' = [in EXCEPT ![id] = Freed(@)]
    BY <1>7, <1>a DEF CloseWebcam, Goto
  <2>2. runs = 1 => in'[id].content \in Int /\ ~(in'[id].content > 0)
    BY <2>1, <1>a DEF IsPicture, Freed, Published
  <2> QED
    BY <2>1, <2>2 DEF Round, Converted, Published
<1> QED
  BY <1>1, <1>2, <1>3, <1>4, <1>5, <1>6, <1>7, GspcaInputStep DEF GspcaInputStep

-----------------------------------------------------------------------------
(* output_udp and output_rtsp.                                             *)

(* A picture saved late enough stays so. *)
LEMMA StillLate ==
  ASSUME NEW picture, Late(picture), since' = since, Excused => Excused'
  PROVE  Late(picture)'
  BY DEF Late

(* An answer that was right stays so. *)
LEMMA StillAnswered ==
  ASSUME AnswerMeansSaved, answers' = answers, Excused => Excused'
  PROVE  AnswerMeansSaved'
  BY DEF AnswerMeansSaved, Excused, Told

(* What a step of the input means for the output.                           *)

(* A step of an input keeps what is known of a picture being saved: it
   publishes newer ones only, and whole ones unless one of the exceptions
   holds. *)
LEMMA InputSaving ==
  ASSUME Types, Saving, InputEffect, UNCHANGED outputVars, rm' = rm, reuse' = reuse
  PROVE  Saving'
<1> USE PictureAssumption
<1>a. input_number \in Ids /\ serial \in Nat /\ since \in 0 .. serial
  BY DEF Ids, Types, Saving
<1>1. UNCHANGED <<socket, udpbuffer, since, files, answers, frame, stop>>
  BY DEF outputVars, udpVars, InputEffect
<1>2. Excused => Excused'
  BY <1>1 DEF Excused, Told, InputEffect, Types
<1>3. AnswerMeansSaved'
  BY <1>1, <1>2, StillAnswered DEF Saving
<1>4. CASE Unpublished
  <2>1. serial' = serial /\ at'[output] = at[output]
    BY <1>4 DEF Unpublished
  <2>2. Late(in[input_number]) => Late(in[input_number])'
    BY <1>a, <1>1, <1>2, <1>4 DEF Unpublished, Late
  <2> QED
    BY <1>1, <1>2, <1>3, <2>1, <2>2 DEF Saving, Late
<1>5. CASE Publication
  <2>1. PICK n \in Ids :
          /\ serial' = serial + 1 /\ in'[n].serial = serial' /\ (in'[n].whole \/ InPlace)
          /\ at'[output] = IF at[output] = "wait" /\ input_number = n THEN "woken" ELSE at[output]
          /\ \A m \in Ids \ {n} : in'[m] = in[m]
    BY <1>5 DEF Publication
  <2>2. since' \in 0 .. serial'
    BY <1>a, <1>1, <2>1
  <2>3. Late(in[n])'
    BY <1>a, <1>1, <2>1 DEF Late, Excused
  <2>4. at'[output] = "woken" => Late(in[input_number])'
    <3>1. CASE input_number = n
      BY <2>3, <3>1
    <3>2. CASE input_number # n
      <4>1. at'[output] = at[output] /\ in'[input_number] = in[input_number]
        BY <1>a, <2>1, <3>2
      <4> QED
        BY <4>1, <1>1, <1>2 DEF Saving, Late
    <3> QED
      BY <3>1, <3>2
  <2>5. at'[output] # "woken" => at'[output] = at[output]
    BY <2>1
  <2> QED
    BY <1>1, <1>2, <1>3, <2>2, <2>4, <2>5 DEF Saving, Late
<1> QED
  BY <1>4, <1>5 DEF InputEffect

(* A step of output_udp or output_rtsp: it looks at the buffer after the
   message came in, copies it, saves the copy and answers. *)
LEMMA OutputSaving ==
  ASSUME Types, Saving, RtspOutputStep \/ UdpOutputStep, rm' = rm, reuse' = reuse
  PROVE  Saving'
<1> USE PictureAssumption
<1>a. output \in Threads /\ DOMAIN at = Threads /\ serial \in Nat
  BY DEF Threads, Types
<1>b. UNCHANGED <<in, serial, stop>> /\ faults' \in {faults, faults + 1}
  BY RtspOutputEffect
<1>c. Excused => Excused'
  BY <1>b DEF Excused, Told, Types
<1>1. CASE Bind \/ UdpCheck \/ Command
  <2>1. UNCHANGED <<socket, udpbuffer, since, files, answers, frame>> /\ at'[output] \in {"ended", "check", "cleanup", "receive"}
    BY <1>1, <1>a DEF Bind, UdpCheck, Command, Goto, Keep, SamePicture, udpVars
  <2>2. AnswerMeansSaved'
    BY <1>c, <2>1, StillAnswered DEF Saving
  <2> QED
    BY <1>b, <2>1, <2>2 DEF Saving
<1>2. CASE Receive \/ ReceiveFails
  <2>1. /\ at'[output] = "listen" /\ since' = serial /\ socket' \subseteq socket
        /\ udpbuffer' \in FileNames \cup {noName} /\ UNCHANGED <<files, answers>>
    BY <1>2, <1>a DEF Receive, ReceiveFails, Call, Goto, Saving
  <2>2. AnswerMeansSaved'
    BY <1>c, <2>1, StillAnswered DEF Saving
  <2> QED
    BY <1>a, <1>b, <2>1, <2>2 DEF Saving
<1>3. CASE Grab("save") /\ UNCHANGED udpVars
  <2>1. UNCHANGED <<socket, udpbuffer, since, files, answers>>
    BY <1>3 DEF udpVars
  <2>2. AnswerMeansSaved'
    BY <1>c, <2>1, StillAnswered DEF Saving
  <2>3. CASE Listen \/ CopyFails
    <3>1. at'[output] \in {"wait", "ended"}
      BY <2>3, <1>a DEF Listen, CopyFails, Goto
    <3> QED
      BY <1>b, <2>1, <2>2, <3>1 DEF Saving
  <2>4. CASE Copy("save")
    <3>1. at[output] = "woken" /\ at'[output] = "save" /\ frame' = in[input_number]
      BY <2>4, <1>a DEF Copy, Goto
    <3>2. Late(frame)'
      BY <1>c, <2>1, <3>1 DEF Saving, Late
    <3> QED
      BY <1>b, <2>1, <2>2, <3>1, <3>2 DEF Saving
  <2> QED
    BY <1>3, <2>3, <2>4 DEF Grab
<1>4. CASE OpenNamed
  <2>1. /\ at[output] = "save" /\ UNCHANGED <<socket, udpbuffer, since, answers, frame>>
        /\ DOMAIN files' = DOMAIN files
        /\ \/ at'[output] = "answer" /\ udpbuffer = noName
           \/ at'[output] = "write"
    BY <1>4, <1>a DEF OpenNamed, Call, Goto, Keep, SamePicture
  <2>2. AnswerMeansSaved'
    BY <1>c, <2>1, StillAnswered DEF Saving
  <2> QED
    BY <1>b, <1>c, <2>1, <2>2 DEF Saving, Late
<1>5. CASE WriteNamed
  <2>1. /\ at[output] = "write" /\ at'[output] = "answer" /\ UNCHANGED <<socket, udpbuffer, since, answers, frame>>
        /\ files' = [files EXCEPT ![udpbuffer] = frame]
    BY <1>5, <1>a DEF WriteNamed, Call, Goto, Keep, SamePicture
  <2>2. AnswerMeansSaved'
    BY <1>c, <2>1, StillAnswered DEF Saving
  <2>3. udpbuffer # noName => files'[udpbuffer] = frame
    BY <2>1 DEF Saving
  <2> QED
    BY <1>b, <1>c, <2>1, <2>2, <2>3 DEF Saving, Late
<1>6. CASE SaveNamedFails
  <2>1. UNCHANGED <<socket, udpbuffer, since, files, answers, frame>> /\ at'[output] = "ended"
    BY <1>6, <1>a DEF SaveNamedFails, Call, Goto, Keep, SamePicture, udpVars
  <2>2. AnswerMeansSaved'
    BY <1>c, <2>1, StillAnswered DEF Saving
  <2> QED
    BY <1>b, <2>1, <2>2 DEF Saving
<1>7. CASE Answer
  <2> DEFINE answer_ == [client |-> addr, text |-> udpbuffer, since |-> since,
                         saved |-> IF udpbuffer = noName THEN NULL ELSE files[udpbuffer]]
  <2>1. /\ at[output] = "answer" /\ at'[output] = "command" /\ UNCHANGED <<socket, udpbuffer, since, files, frame>>
        /\ answers' = (IF addr = noClient THEN answers ELSE answers \cup {answer_})
    BY <1>7, <1>a DEF Answer, Call, Goto, Keep, SamePicture
  <2>2. answer_.text = udpbuffer /\ answer_.since = since /\ (udpbuffer # noName => answer_.saved = files[udpbuffer])
    OBVIOUS
  <2> HIDE DEF answer_
  <2>3. answer_.text # noName => answer_.saved.serial > answer_.since /\ (answer_.saved.whole \/ Excused)
    BY <2>1, <2>2 DEF Saving, Late
  <2>4. AnswerMeansSaved'
    BY <1>c, <2>1, <2>3 DEF Saving, AnswerMeansSaved, Excused, Told
  <2> QED
    BY <1>b, <2>1, <2>4 DEF Saving
<1>8. CASE UdpCleanup
  <2>1. UNCHANGED <<socket, udpbuffer, since, files, answers>> /\ at'[output] = "ended"
    BY <1>8, <1>a DEF UdpCleanup, Goto, udpVars
  <2>2. AnswerMeansSaved'
    BY <1>c, <2>1, StillAnswered DEF Saving
  <2> QED
    BY <1>b, <2>1, <2>2 DEF Saving
<1>9. ASSUME NEW calls, Cancelled(output, calls), UNCHANGED udpVars
      PROVE  Saving'
  <2>1. UNCHANGED <<socket, udpbuffer, since, files, answers, frame>> /\ at'[output] = "cleanup"
    BY <1>9, <1>a DEF Cancelled, udpVars
  <2>2. AnswerMeansSaved'
    BY <1>c, <2>1, StillAnswered DEF Saving
  <2> QED
    BY <1>b, <2>1, <2>2 DEF Saving
<1> QED
  BY <1>1, <1>2, <1>3, <1>4, <1>5, <1>6, <1>7, <1>8, <1>9,
     RtspOutputStep \/ UdpOutputStep
  DEF RtspOutputStep, UdpOutputStep

-----------------------------------------------------------------------------
(* The steps of the program.                                               *)

(* Which plugins were chosen, and with which options, does not change
   once they run. *)
LEMMA SameProgram ==
  ASSUME UNCHANGED <<mainVars, webcam>>
  PROVE  /\ (FromFiles' <=> FromFiles) /\ (FromWebcam' <=> FromWebcam) /\ (ToFiles' <=> ToFiles)
         /\ (Simulated' <=> Simulated) /\ BuffersAtStart' = BuffersAtStart
<1>1. UNCHANGED <<theInput, theOutput, inConfig, webcam>>
  BY DEF mainVars
<1>2. (FromFiles' <=> FromFiles) /\ (FromWebcam' <=> FromWebcam) /\ (ToFiles' <=> ToFiles)
  BY <1>1 DEF FromFiles, FromWebcam, ToFiles
<1>3. (Simulated' <=> Simulated)
  BY <1>1, <1>2 DEF Simulated
<1> QED
  BY <1>2, <1>3 DEF BuffersAtStart

(* input_file leaves its options alone. *)
LEMMA FileInputOptionsKept ==
  ASSUME FileInputStep
  PROVE  UNCHANGED optionVars
<1>1. CASE Check \/ ReadEvents \/ ReadEventsFails \/ Ignore
  BY <1>1 DEF Check, ReadEvents, ReadEventsFails, Ignore, fileInputVars, KeepFiles
<1>2. CASE Open \/ OpenFails \/ Stat \/ StatFails
  BY <1>2 DEF Open, OpenFails, Stat, StatFails, fileInputVars, KeepFiles
<1>3. CASE LockPicture \/ MallocFails \/ ReadFile \/ ReadFileFails \/ Unlink \/ FreePicture
  BY <1>3
  DEF LockPicture, MallocFails, ReadFile, ReadFileFails, Unlink, FreePicture,
      fileInputVars,
              optionVars
<1> QED
  BY <1>1, <1>2, <1>3, FileInputStep DEF FileInputStep, fileInputVars

(* What a step of any input keeps, for the outputs. *)
LEMMA InputCommon ==
  ASSUME Types, Udp, InputEffect, UNCHANGED <<outputVars, rm, reuse>>,
         (FromFiles' <=> FromFiles), (ToFiles' <=> ToFiles)
  PROVE  Types' /\ Udp'
<1>1. serial' \in Nat
  <2>1. CASE Unpublished
    BY <2>1 DEF Unpublished, Types
  <2>2. CASE Publication
    BY <2>2 DEF Publication, Types
  <2> QED
    BY <2>1, <2>2 DEF InputEffect
<1>2. Types'
  BY <1>1 DEF Types, InputEffect
<1>3. CASE ToFiles
  <2>1. answers' = answers
    BY DEF outputVars, udpVars
  <2> QED
    BY <1>2, <1>3, <2>1 DEF Udp
<1>4. CASE ~ToFiles
  <2>1. Saving
    BY <1>4 DEF Udp
  <2>2. UNCHANGED outputVars /\ rm' = rm /\ reuse' = reuse
    OBVIOUS
  <2>3. Saving'
    BY <2>1, <2>2, InputSaving
  <2> QED
    BY <1>2, <1>4, <2>3 DEF Udp
<1> QED
  BY <1>2, <1>3, <1>4

(* A step of the input keeps every part of the invariant. *)
LEMMA InputStepInv ==
  ASSUME Types, Ends, Files, Allocation, Webcam, Udp, Input, UNCHANGED <<mainVars, runs>>
  PROVE  /\ Types' /\ Ends' /\ Files' /\ Allocation' /\ Webcam' /\ Udp'
         /\ webcam' = webcam
<1>b. UNCHANGED outputVars
  BY DEF Input
<1>c. ~(FromFiles /\ FromWebcam)
  BY DEF FromFiles, FromWebcam
<1>1. ASSUME FromFiles, FileInputStep, UNCHANGED <<sequence, gspcaVars>>
      PROVE  /\ Types' /\ Ends' /\ Files' /\ Allocation' /\ Webcam' /\ Udp'
             /\ webcam' = webcam
  <2>0. webcam' = webcam
    BY <1>1 DEF gspcaVars
  <2>a. (FromFiles' <=> FromFiles) /\ (FromWebcam' <=> FromWebcam) /\ (ToFiles' <=> ToFiles)
    BY <2>0, SameProgram
  <2>1. InputEffect
    BY <1>1, FileInputEffect DEF Files
  <2>2. UNCHANGED <<rm, reuse>>
    BY <1>1, FileInputOptionsKept DEF optionVars
  <2>3. Types' /\ Udp'
    BY <1>b, <2>a, <2>1, <2>2, InputCommon
  <2>4. /\ process' = process
        /\ at'[input] \in {"cleanup", "ended"} => Told' \/ (rm /\ reuse)
    BY <1>1, FileInputEnds DEF Files
  <2>5. Told => Told'
    BY <2>1 DEF InputEffect, Told, Types
  <2>6. Ends'
    BY <1>1, <2>a, <2>2, <2>4, <2>5 DEF Ends, NameUsedAgain
  <2>7. Files'
    BY <1>1, <2>a, FileInputFiles DEF Files
  <2>8. Allocation' /\ Webcam'
    BY <1>1, <1>c, <2>a DEF Allocation, Webcam
  <2> QED
    BY <2>0, <2>3, <2>6, <2>7, <2>8
<1>2. ASSUME FromWebcam, GspcaInputStep, UNCHANGED <<fileInputVars, sequence>>
      PROVE  /\ Types' /\ Ends' /\ Files' /\ Allocation' /\ Webcam' /\ Udp'
             /\ webcam' = webcam
  <2>0. webcam' = webcam
    BY <1>2
    DEF GspcaInputStep, WebcamCheck, Sync, WebcamFails, Convert, Capture,
        PublishFrame, CloseWebcam, gspcaVars
  <2>a. (FromFiles' <=> FromFiles) /\ (FromWebcam' <=> FromWebcam) /\ (ToFiles' <=> ToFiles)
    BY <2>0, SameProgram
  <2>1. InputEffect
    BY <1>2, GspcaInputEffect DEF Webcam
  <2>2. UNCHANGED <<rm, reuse>>
    BY <1>2 DEF fileInputVars, optionVars
  <2>3. Types' /\ Udp'
    BY <1>b, <2>a, <2>1, <2>2, InputCommon
  <2>4. /\ process' # process => Told'
        /\ at'[input] \in {"cleanup", "ended"} => Told'
    BY <1>2, WebcamEnds DEF Webcam
  <2>5. Told => Told'
    BY <2>1 DEF InputEffect, Told, Types
  <2>6. Ends'
    BY <2>4, <2>5 DEF Ends
  <2>7. Webcam'
    BY <1>2, <2>a, RingTypesStep, WebcamStep DEF Webcam
  <2>8. Allocation' /\ Files'
    BY <1>2, <1>c, <2>a DEF Allocation, Files
  <2> QED
    BY <2>0, <2>3, <2>6, <2>7, <2>8
<1>3. ASSUME ~FromFiles, ~FromWebcam, TestInputStep, UNCHANGED <<fileInputVars, gspcaVars>>
      PROVE  /\ Types' /\ Ends' /\ Files' /\ Allocation' /\ Webcam' /\ Udp'
             /\ webcam' = webcam
  <2>0. webcam' = webcam
    BY <1>3 DEF gspcaVars
  <2>a. (FromFiles' <=> FromFiles) /\ (FromWebcam' <=> FromWebcam) /\ (ToFiles' <=> ToFiles)
    BY <2>0, SameProgram
  <2>1. InputEffect
    BY <1>3, TestInputEffect
  <2>2. UNCHANGED <<rm, reuse>>
    BY <1>3 DEF fileInputVars, optionVars
  <2>3. Types' /\ Udp'
    BY <1>b, <2>a, <2>1, <2>2, InputCommon
  <2>4. /\ sequence' \in Nat /\ (id = 0 => in'[0].content # 0)
        /\ id = 0 => process' = process
        /\ at'[input] \in {"cleanup", "ended"} => Told'
    BY <1>3, TestInputAllocation
  <2>5. Told => Told'
    BY <2>1 DEF InputEffect, Told, Types
  <2>6. Ends'
    BY <2>4, <2>5 DEF Ends
  <2>7. Allocation' /\ Files' /\ Webcam'
    BY <1>3, <2>a, <2>4 DEF Allocation, Files, Webcam
  <2> QED
    BY <2>0, <2>3, <2>6, <2>7
<1> QED
  BY <1>1, <1>2, <1>3, Input DEF Input

(* The other steps leave the input as it is.                                *)

(* A step that leaves the input alone keeps what is known of it. *)
LEMMA InputKept ==
  ASSUME Types, Ends, Files, Allocation, Webcam, UNCHANGED <<mainVars, runs, inputVars, in, serial>>,
         at'[input] = at[input], faults' \in {faults, faults + 1}, stop => stop'
  PROVE  /\ Files' /\ Allocation' /\ Webcam'
         /\ Told => Told'
         /\ at'[input] \in {"cleanup", "ended"} => Told' \/ NameUsedAgain'
<1>1. UNCHANGED <<fileInputVars, optionVars, folderVars, sequence, gspcaVars, webcam, rm, reuse>>
  BY DEF inputVars, fileInputVars, optionVars, gspcaVars
<1>a. (FromFiles' <=> FromFiles) /\ (FromWebcam' <=> FromWebcam)
  BY <1>1, SameProgram
<1>2. Files'
  <2>1. UNCHANGED <<folder, inode, writing, made, events, ev, file, filesize>>
    BY <1>1 DEF fileInputVars, folderVars
  <2>2. FileTypes => FileTypes'
    BY <2>1 DEF FileTypes, Handling
  <2>3. OncePerName => OncePerName'
    BY <1>1, <2>1 DEF OncePerName, Handling
  <2>4. StillThere => StillThere'
    BY <1>1, <2>1 DEF StillThere
  <2>5. WholeFiles => WholeFiles'
    BY <2>1 DEF WholeFiles
  <2> QED
    BY <1>a, <2>2, <2>3, <2>4, <2>5 DEF Files
<1>3. Allocation'
  BY <1>1, <1>a DEF Allocation
<1>4. faults > 0 => faults' > 0
  BY DEF Types
<1>5. Webcam'
  BY <1>1, <1>4, <1>a
  DEF Webcam, RingTypes, Round, Converted, Published, Ahead, Done, iframe, gspcaVars
<1>6. Told => Told'
  BY <1>4 DEF Told
<1> QED
  BY <1>1, <1>2, <1>3, <1>5, <1>6, <1>a DEF Ends, NameUsedAgain

(* A step of the output keeps every part of the invariant. *)
LEMMA OutputStepInv ==
  ASSUME Types, Ends, Files, Allocation, Webcam, Udp, Output, UNCHANGED <<mainVars, runs>>
  PROVE  Types' /\ Ends' /\ Files' /\ Allocation' /\ Webcam' /\ Udp'
<1>1. UNCHANGED inputVars
  BY DEF Output
<1>2. /\ Goes(output) /\ UNCHANGED <<process, stop, cancelled, in, serial>>
      /\ faults' \in {faults, faults + 1}
  BY FileOutputEffect, RtspOutputEffect DEF Output
<1>3. at'[input] = at[input] /\ DOMAIN at' = Threads
  BY <1>2, PictureAssumption DEF Goes, Threads, Types
<1>4. UNCHANGED <<rm, reuse, webcam>>
  BY <1>1 DEF inputVars, fileInputVars, optionVars, gspcaVars
<1>a. (FromFiles' <=> FromFiles) /\ (ToFiles' <=> ToFiles)
  BY <1>4, SameProgram
<1>5. Types'
  BY <1>2, <1>3, <1>4, <1>a DEF Types
<1>6. /\ Files' /\ Allocation' /\ Webcam' /\ (Told => Told')
      /\ at'[input] \in {"cleanup", "ended"} => Told' \/ NameUsedAgain'
  BY <1>1, <1>2, <1>3, InputKept
<1>7. Ends'
  BY <1>2, <1>6 DEF Ends
<1>8. Udp'
  <2>1. CASE ToFiles /\ FileOutputStep /\ UNCHANGED udpVars
    BY <2>1, <1>a DEF Udp, udpVars
  <2>2. CASE ~ToFiles /\ (RtspOutputStep \/ UdpOutputStep)
    BY <2>2, <1>4, <1>a, OutputSaving DEF Udp
  <2> QED
    BY <2>1, <2>2, Output DEF Output, ToFiles
<1> QED
  BY <1>5, <1>6, <1>7, <1>8

(* So does a step of other programs, the webcam, the clients, or a
   signal. *)
LEMMA SurroundingsInv ==
  ASSUME Types, Ends, Files, Allocation, Webcam, Udp, Surroundings, UNCHANGED <<mainVars, runs>>
  PROVE  /\ Types' /\ Ends' /\ Files' /\ Allocation' /\ Webcam' /\ Udp'
         /\ webcam' = webcam
<1>c. ~(FromFiles /\ FromWebcam)
  BY DEF FromFiles, FromWebcam
<1>1. CASE FromFiles /\ OtherPrograms /\ UNCHANGED <<sequence, gspcaVars, outputVars>>
  <2>1. UNCHANGED <<pictureVars, optionVars>>
    BY <1>1 DEF OtherPrograms, CloseWritten, MoveIn, OpenForWriting
  <2>2. UNCHANGED <<process, stop, cancelled, at, in, serial, frame, faults, rm, reuse, webcam>>
    BY <1>1, <2>1 DEF pictureVars, optionVars, gspcaVars
  <2>a. (FromFiles' <=> FromFiles) /\ (FromWebcam' <=> FromWebcam) /\ (ToFiles' <=> ToFiles)
    BY <2>2, SameProgram
  <2>3. Types' /\ Ends'
    BY <2>2, <2>a DEF Types, Ends, Told, NameUsedAgain
  <2>4. Files'
    BY <1>1, <2>a, OtherProgramsFiles DEF Files
  <2>5. Allocation' /\ Webcam'
    BY <1>1, <1>c, <2>a DEF Allocation, Webcam
  <2>6. UNCHANGED <<socket, udpbuffer, since, files, answers>>
    BY <1>1 DEF outputVars, udpVars
  <2>7. Excused' = Excused
    BY <2>2 DEF Excused, Told
  <2>8. AnswerMeansSaved => AnswerMeansSaved'
    BY <2>2, <2>6 DEF AnswerMeansSaved
  <2>9. Udp'
    BY <2>2, <2>a, <2>6, <2>7, <2>8 DEF Udp, Saving, Late
  <2> QED
    BY <2>2, <2>3, <2>4, <2>5, <2>9
<1>2. CASE FromWebcam /\ TakePicture /\ UNCHANGED <<fileInputVars, sequence, outputVars>>
  <2>1. /\ UNCHANGED <<process, stop, cancelled, at, in, serial, frame, rm, reuse, webcam>>
        /\ faults' \in {faults, faults + 1}
    BY <1>2
    DEF TakePicture, Fault, SameProcess, SamePicture, fileInputVars, optionVars
  <2>a. (FromFiles' <=> FromFiles) /\ (FromWebcam' <=> FromWebcam) /\ (ToFiles' <=> ToFiles)
    BY <2>1, SameProgram
  <2>2. Types' /\ (Told => Told')
    BY <2>1, <2>a DEF Types, Told
  <2>3. Ends'
    BY <2>1, <2>2, <2>a DEF Ends, NameUsedAgain
  <2>4. Webcam'
    BY <1>2, <2>a, RingTypesStep, TakeConverted DEF Webcam
  <2>5. Allocation' /\ Files'
    BY <1>2, <1>c, <2>a DEF Allocation, Files
  <2>6. UNCHANGED <<socket, udpbuffer, since, files, answers>>
    BY <1>2 DEF outputVars, udpVars
  <2>7. Excused => Excused'
    BY <2>1, <2>2 DEF Excused
  <2>8. AnswerMeansSaved => AnswerMeansSaved'
    BY <2>6, <2>7, StillAnswered
  <2>9. Udp'
    BY <2>1, <2>a, <2>6, <2>7, <2>8 DEF Udp, Saving, Late
  <2> QED
    BY <2>1, <2>2, <2>3, <2>4, <2>5, <2>9
<1>3. CASE ~ToFiles /\ Network /\ UNCHANGED <<inputVars, fileOutputVars>>
  <2>1. PICK c \in Clients, n \in FileNames \cup {noName} : Send(c, n)
    BY <1>3 DEF Network
  <2>2. /\ UNCHANGED <<process, stop, cancelled, at, in, serial, frame, faults, udpbuffer, since, files, answers>>
        /\ socket' = socket \cup {[client |-> c, text |-> n, number |-> sent']}
    BY <2>1 DEF Send, pictureVars
  <2>3. UNCHANGED <<rm, reuse, webcam>>
    BY <1>3 DEF inputVars, fileInputVars, optionVars, gspcaVars
  <2>a. (FromFiles' <=> FromFiles) /\ (ToFiles' <=> ToFiles)
    BY <2>3, SameProgram
  <2>4. Types' /\ Ends' /\ Excused' = Excused
    BY <2>2, <2>3, <2>a DEF Types, Ends, Told, NameUsedAgain, Excused
  <2>5. Files' /\ Allocation' /\ Webcam'
    BY <1>3, <2>2, InputKept
  <2>6. AnswerMeansSaved => AnswerMeansSaved'
    BY <2>2, <2>3 DEF AnswerMeansSaved
  <2>7. Udp'
    BY <1>3, <2>2, <2>4, <2>6, <2>a DEF Udp, Saving, Late
  <2> QED
    BY <2>3, <2>4, <2>5, <2>7
<1>4. CASE (Tick \/ SignalStep) /\ UNCHANGED <<inputVars, outputVars>>
  <2>0. /\ UNCHANGED <<at, in, serial, frame, faults>>
        /\ \/ UNCHANGED <<process, stop, cancelled>>
           \/ stop' = TRUE /\ UNCHANGED <<process, cancelled>>
           \/ stop /\ stop' = stop
           \/ cancelled # {} /\ stop' = stop
    <3>1. CASE Tick \/ Sigint \/ StopInput
      BY <3>1 DEF Tick, Sigint, StopInput, SameThreads
    <3>2. CASE StopOutput \/ Exit
      BY <3>2 DEF StopOutput, Exit, SameThreads, Threads
    <3> QED
      BY <1>4, <3>1, <3>2 DEF SignalStep
  <2>1. /\ UNCHANGED <<at, in, serial, frame, faults>>
        /\ (stop => stop') /\ (cancelled' # {} => stop') /\ (process' # process => stop')
    BY <2>0 DEF Types
  <2>2. UNCHANGED <<rm, reuse, webcam, socket, udpbuffer, since, files, answers>>
    BY <1>4 DEF inputVars, fileInputVars, optionVars, gspcaVars, outputVars, udpVars
  <2>a. (FromFiles' <=> FromFiles) /\ (ToFiles' <=> ToFiles)
    BY <2>2, SameProgram
  <2>3. Types'
    BY <2>1, <2>2, <2>a DEF Types
  <2>4. /\ Files' /\ Allocation' /\ Webcam' /\ (Told => Told')
        /\ at'[input] \in {"cleanup", "ended"} => Told' \/ NameUsedAgain'
    BY <1>4, <2>1, InputKept
  <2>5. Ends'
    BY <2>1, <2>4 DEF Ends, Told
  <2>6. Excused => Excused'
    BY <2>2, <2>4 DEF Excused
  <2>7. AnswerMeansSaved => AnswerMeansSaved'
    BY <2>2, <2>6, StillAnswered
  <2>8. Udp'
    BY <2>1, <2>2, <2>6, <2>7, <2>a DEF Udp, Saving, Late
  <2> QED
    BY <2>2, <2>3, <2>4, <2>5, <2>8
<1> QED
  BY <1>1, <1>2, <1>3, <1>4, Surroundings DEF Surroundings

RingAtStart ==
  /\ captured = [b \in 1 .. buffers |-> NULL] /\ queue = [b \in 1 .. buffers |-> b] /\ taken = 0
  /\ vmmap = 1 /\ ptframe = [k \in 1 .. OUTFRMNUMB |-> NULL] /\ frame_cour = 1
  /\ at[input] = "check"

(* The buffers go round when the program starts: all are queued, the
   first one first. *)
LEMMA StartsRound == RingAtStart => RingTypes /\ Round /\ Converted /\ Done = 0
<1> SUFFICES ASSUME RingAtStart PROVE RingTypes /\ Round /\ Converted /\ Done = 0
  OBVIOUS
<1>1. NULL \in Frames
  BY DEF NULL, Frames
<1>2. queue \in Seq(1 .. buffers) /\ Len(queue) = buffers /\ DOMAIN queue = 1 .. buffers
  BY GspcaAssumption DEF RingAtStart
<1>3. taken = 0 /\ vmmap = 1 /\ at[input] = "check"
  BY DEF RingAtStart
<1>4. RingTypes
  BY <1>1, <1>2, GspcaAssumption DEF RingTypes, RingAtStart, OUTFRMNUMB
<1>5. Ahead = 0
  BY <1>2, GspcaAssumption DEF Ahead
<1>6. Done = 0
  BY <1>3, <1>5 DEF Done
<1>7. \A i \in DOMAIN queue : queue[i] = Wrap(vmmap + Ahead + i - 1) /\ captured[queue[i]] = NULL
  BY <1>2, <1>3, <1>5, GspcaAssumption DEF Wrap, RingAtStart
<1>8. Round
  BY <1>5, <1>6, <1>7, GspcaAssumption DEF Round
<1> QED
  BY <1>3, <1>4, <1>6, <1>8 DEF Converted

(* The invariant is about the variables of the specification only. *)
LEMMA StutterInv ==
  ASSUME PluginsInv, UNCHANGED pluginsVars
  PROVE  PluginsInv'
<1>1. UNCHANGED <<mainVars, runs, process, stop, cancelled, at, in, serial, frame, faults, inputVars, outputVars>>
  BY DEF pluginsVars, pictureVars, inputVars, outputVars
<1>2. UNCHANGED <<rm, reuse, webcam, socket, udpbuffer, since, files, answers>>
  BY <1>1 DEF inputVars, fileInputVars, optionVars, gspcaVars, outputVars, udpVars
<1>a. (FromFiles' <=> FromFiles) /\ (ToFiles' <=> ToFiles) /\ (Simulated' <=> Simulated) /\ BuffersAtStart' = BuffersAtStart
  BY <1>1, <1>2, SameProgram
<1>3. CASE Simulated
  <2>1. Types /\ Ends /\ Files /\ Allocation /\ Webcam /\ Udp
    BY <1>3 DEF PluginsInv
  <2>2. Types' /\ Ends'
    BY <1>1, <1>2, <1>a, <2>1 DEF Types, Ends, Told, NameUsedAgain
  <2>3. Files' /\ Allocation' /\ Webcam'
    BY <1>1, <2>1, InputKept DEF Types
  <2>4. (Excused' <=> Excused) /\ (AnswerMeansSaved => AnswerMeansSaved')
    BY <1>1, <1>2 DEF Excused, Told, AnswerMeansSaved
  <2>5. Udp'
    BY <1>1, <1>2, <1>a, <2>1, <2>4 DEF Udp, Saving, Late
  <2> QED
    BY <1>1, <1>3, <1>a, <2>2, <2>3, <2>5 DEF PluginsInv
<1>4. CASE ~Simulated
  BY <1>1, <1>2, <1>4, <1>a DEF PluginsInv, Idle
<1> QED
  BY <1>3, <1>4

(* A restart of the program begins again with fresh buffers; files,
   events that other programs made and the messages that are under way
   stay. *)
LEMMA RestartInv ==
  ASSUME Types, Ends, Files, Allocation, Webcam, Udp, Restart, runs \in Nat \ {0}
  PROVE  /\ Types' /\ Ends' /\ Files' /\ Allocation' /\ Webcam' /\ Udp'
         /\ UNCHANGED <<mainVars, webcam>>
<1> USE PictureAssumption
<1>1. /\ ToFiles /\ process' = "up" /\ stop' = FALSE /\ cancelled' = {} /\ at' = AtStart
      /\ in' = [n \in Ids |-> [BuffersAtStart[n] EXCEPT !.serial = serial]]
      /\ runs' = runs + 1 /\ events' = <<>> /\ sequence' = 0
      /\ captured' = [b \in 1 .. buffers |-> NULL] /\ queue' = [b \in 1 .. buffers |-> b] /\ taken' = 0
      /\ vmmap' = 1 /\ ptframe' = [k \in 1 .. OUTFRMNUMB |-> NULL] /\ frame_cour' = 1
      /\ UNCHANGED <<mainVars, webcam, serial, faults, rm, reuse, folder, inode, writing, made, answers>>
  BY DEF Restart, optionVars, folderVars
<1>a. (FromFiles' <=> FromFiles) /\ (FromWebcam' <=> FromWebcam) /\ (ToFiles' <=> ToFiles)
  BY <1>1, SameProgram
<1>2. DOMAIN at' = Threads /\ at'[input] = "check"
  BY <1>1 DEF AtStart, Threads
<1>3. \A n \in Ids : IsPicture(BuffersAtStart[n])
  BY DEF BuffersAtStart, GspcaBuffers, TestBuffers, Allocated, NULL, IsPicture
<1>4. DOMAIN in' = Ids /\ \A n \in Ids : IsPicture(in'[n]) /\ in'[n].content = BuffersAtStart[n].content
  BY <1>1, <1>3 DEF IsPicture
<1>5. Types'
  BY <1>1, <1>2, <1>4, <1>a DEF Types
<1>6. Ends'
  BY <1>1, <1>2 DEF Ends
<1>7. Files'
  <2>1. SUFFICES ASSUME FromFiles PROVE FileTypes' /\ OncePerName' /\ StillThere' /\ WholeFiles'
    BY <1>a DEF Files
  <2>2. FileTypes /\ OncePerName /\ StillThere /\ WholeFiles
    BY <2>1 DEF Files
  <2>3. events' \in Seq(Names) /\ DOMAIN events' = {}
    BY <1>1
  <2>4. FileTypes'
    BY <1>1, <1>2, <2>2, <2>3 DEF FileTypes, Handling
  <2>5. OncePerName' /\ StillThere'
    BY <1>1, <1>2, <2>2, <2>3 DEF OncePerName, StillThere, Handling
  <2>6. WholeFiles'
    BY <1>1, <1>2, <2>2 DEF WholeFiles
  <2> QED
    BY <2>4, <2>5, <2>6
<1>8. Allocation'
  <2>1. (~FromFiles /\ ~FromWebcam /\ id = 0) => BuffersAtStart[0].content = -2
    BY DEF BuffersAtStart, TestBuffers, Allocated, NULL, Ids
  <2>2. (~FromFiles /\ ~FromWebcam /\ id = 0) => in'[0].content # 0
    BY <1>4, <2>1 DEF Ids
  <2> QED
    BY <1>1, <1>a, <2>2 DEF Allocation
<1>9. Webcam'
  <2>1. RingTypes' /\ Round' /\ Converted'
    <3>1. RingAtStart'
      BY <1>1, <1>2 DEF RingAtStart
    <3>2. RingAtStart' => RingTypes' /\ Round' /\ Converted'
      BY StartsRound, PTL
    <3> QED
      BY <3>1, <3>2
  <2>2. Published'
    BY <1>1 DEF Published
  <2> QED
    BY <2>1, <2>2 DEF Webcam
<1>10. Udp'
  BY <1>1, <1>a DEF Udp
<1> QED
  BY <1>1, <1>5, <1>6, <1>7, <1>8, <1>9, <1>10

(* The invariant holds when the program has read its command line and
   started its plugins. *)
LEMMA InitInv == PluginsInit => PluginsInv
<1> SUFFICES ASSUME PluginsInit PROVE PluginsInv
  OBVIOUS
<1> USE PictureAssumption
<1>1. /\ runs = 1 /\ process = "up" /\ stop = FALSE /\ cancelled = {} /\ serial = 0 /\ faults = 0
      /\ at = AtStart /\ in = BuffersAtStart /\ frame = NULL
      /\ (~FromFiles => ~reuse)
  BY DEF PluginsInit, PictureInit
<1>2. /\ folder = [n \in Names |-> NoFile] /\ inode = <<>> /\ writing = NotWriting
      /\ made = [n \in Names |-> 0] /\ events = <<>>
  BY DEF PluginsInit, FileInputInit
<1>3. /\ sequence = 0
      /\ captured = [b \in 1 .. buffers |-> NULL] /\ queue = [b \in 1 .. buffers |-> b] /\ taken = 0
      /\ vmmap = 1 /\ ptframe = [k \in 1 .. OUTFRMNUMB |-> NULL] /\ frame_cour = 1
  BY DEF PluginsInit, TestInputInit, GspcaInputInit
<1>4. /\ socket = {} /\ udpbuffer = noName /\ since = 0 /\ files = [n \in FileNames |-> NULL] /\ answers = {}
  BY DEF PluginsInit, UdpOutputInit
<1>5. DOMAIN at = Threads /\ at[input] = "check" /\ at[output] \in {"check", "bind"}
  BY <1>1 DEF AtStart, Threads
<1>6. DOMAIN in = Ids /\ \A n \in Ids : IsPicture(in[n])
  BY <1>1 DEF BuffersAtStart, GspcaBuffers, TestBuffers, Allocated, NULL, IsPicture
<1>7. Types /\ Ends
  BY <1>1, <1>5, <1>6 DEF Types, Ends
<1>8. Files
  <2>1. events \in Seq(Names) /\ DOMAIN events = {} /\ inode \in Seq({}) /\ DOMAIN inode = {}
    BY <1>2
  <2> QED
    BY <1>2, <1>5, <2>1
    DEF Files, FileTypes, OncePerName, StillThere, WholeFiles, Handling
<1>9. Allocation
  BY <1>1, <1>3 DEF Allocation, BuffersAtStart, TestBuffers, Allocated, NULL, Ids
<1>10. Webcam
  <2>1. RingTypes /\ Round /\ Converted /\ Done = 0
    BY <1>3, <1>5, StartsRound DEF RingAtStart
  <2>2. FromWebcam => in[id].content = -2
    BY <1>1
    DEF FromWebcam, FromFiles, BuffersAtStart, GspcaBuffers, Allocated, NULL, Ids
  <2>3. FromWebcam => Published
    BY <1>1, <1>5, <2>1, <2>2 DEF Published
  <2> QED
    BY <2>1, <2>3 DEF Webcam
<1>11. Udp
  <2>1. AnswerMeansSaved
    BY <1>4 DEF AnswerMeansSaved
  <2> QED
    BY <1>1, <1>4, <1>5, <2>1 DEF Udp, Saving
<1> QED
  BY <1>1, <1>4, <1>5, <1>7, <1>8, <1>9, <1>10, <1>11 DEF PluginsInv, Idle

(* The inductive invariant of the plugins, for any files, buffers,
   failures, clients and command lines: see its parts above. *)
THEOREM PluginsInvariant == PluginsSpec => []PluginsInv
<1>1. PluginsInv /\ [PluginsNext]_pluginsVars => PluginsInv'
  <2> SUFFICES ASSUME PluginsInv, [PluginsNext]_pluginsVars PROVE PluginsInv'
    OBVIOUS
  <2>1. CASE process = "up" /\ Simulated /\ (Input \/ Output \/ Surroundings)
             /\ UNCHANGED <<mainVars, runs, requestVars>>
    <3>1. Types /\ Ends /\ Files /\ Allocation /\ Webcam /\ Udp
      BY <2>1 DEF PluginsInv
    <3>2. UNCHANGED <<mainVars, runs>>
      BY <2>1
    <3>3. Types' /\ Ends' /\ Files' /\ Allocation' /\ Webcam' /\ Udp'
      BY <2>1, <3>1, <3>2, InputStepInv, OutputStepInv, SurroundingsInv
    <3>4. webcam' = webcam
      BY <2>1, <3>1, <3>2, InputStepInv, SurroundingsInv
      DEF Output, inputVars, gspcaVars
    <3> QED
      BY <2>1, <3>2, <3>3, <3>4, SameProgram DEF PluginsInv
  <2>2. CASE Serving /\ Serve
    <3>1. /\ UNCHANGED <<mainVars, runs, process, at, in, webcam, answers>>
      BY <2>2 DEF Serve, inputVars, outputVars, gspcaVars, udpVars
    <3>2. ~Simulated
      BY <2>2 DEF Serving, Simulated
    <3> QED
      BY <3>1, <3>2, SameProgram DEF PluginsInv, Idle
  <2>3. CASE Restart
    <3>1. Simulated
      BY <2>3 DEF Restart, PluginsInv, Idle
    <3>2. Types' /\ Ends' /\ Files' /\ Allocation' /\ Webcam' /\ Udp' /\ UNCHANGED <<mainVars, webcam>>
      BY <2>3, <3>1, RestartInv DEF PluginsInv
    <3>3. runs' \in Nat \ {0}
      BY <2>3 DEF Restart, PluginsInv
    <3> QED
      BY <3>1, <3>2, <3>3, SameProgram DEF PluginsInv
  <2>4. CASE UNCHANGED pluginsVars
    BY <2>4, StutterInv
  <2> QED
    BY <2>1, <2>2, <2>3, <2>4 DEF PluginsNext
<1> QED
  BY <1>1, InitInv, PTL DEF PluginsSpec

(* EndsOnlyWhenTold: the process, and in it the worker of input_file,
   ends only when told to or when a call fails (or over a name used
   again).  The first input has the number 0 (mjpg_streamer.c), and the
   model's process starts one. *)
THEOREM WorkersEnd ==
  ASSUME id = 0
  PROVE  PluginsSpec => []EndsOnlyWhenTold
<1>1. PluginsInv => EndsOnlyWhenTold
  BY DEF PluginsInv, Idle, Ends, Told, NameUsedAgain, EndsOnlyWhenTold
<1> QED
  BY <1>1, PluginsInvariant, PTL

(* FramesInOrder: for any number of buffers, the n-th picture
   input_gspcav1 publishes is the n-th the webcam took, copied before the
   webcam got the buffer back. *)
THEOREM FramesOrdered == PluginsSpec => []FramesInOrder
<1>1. ASSUME PluginsInv PROVE FramesInOrder
  <2>1. CASE Simulated
    BY <1>1, <2>1 DEF PluginsInv, Webcam, Published, FramesInOrder
  <2>2. CASE ~Simulated
    <3>1. FromWebcam => in[id].content = -2
      BY <1>1, <2>2, PictureAssumption
      DEF PluginsInv, Idle, FromWebcam, FromFiles, BuffersAtStart, GspcaBuffers,
          Allocated, NULL, Ids
    <3> QED
      BY <3>1 DEF FramesInOrder
  <2> QED
    BY <2>1, <2>2
<1> QED
  BY <1>1, PluginsInvariant, PTL

(* AnswerMeansSaved: whoever output_udp or output_rtsp tells that a
   picture was saved was told so after one was saved there that was
   published after the message came in. *)
THEOREM AnswersMeanSaved == PluginsSpec => []AnswerMeansSaved
<1>1. PluginsInv => AnswerMeansSaved
  BY DEF PluginsInv, Idle, Udp, Saving, AnswerMeansSaved
<1> QED
  BY <1>1, PluginsInvariant, PTL

-----------------------------------------------------------------------------
(* input_gspcav1 and the webcam negotiate.                                 *)

(* Of numbers up to 7, if there are any, there are a largest and a smallest. *)
LEMMA Extremes ==
  ASSUME NEW S \in SUBSET (1 .. 7), S # {}
  PROVE  /\ Max(S) \in S /\ \A k \in S : k <= Max(S)
         /\ Min(S) \in S /\ \A k \in S : Min(S) <= k
<1>0. PICK s \in S : TRUE
  OBVIOUS
<1>1. \E x \in S : \A y \in S : x >= y
  <2>1. ASSUME NEW n \in 1 .. 7, S \subseteq 1 .. n, n \in S PROVE \E x \in S : \A y \in S : x >= y
    BY <2>1
  <2>2. \A n \in 1 .. 7 : S \subseteq 1 .. n => n \in S \/ S \subseteq 1 .. n - 1
    OBVIOUS
  <2>3. ~(S \subseteq 1 .. 0)
    BY s \notin 1 .. 0
  <2> QED
    BY <2>1, <2>2, <2>3
<1>2. \E x \in S : \A y \in S : x =< y
  <2>1. ASSUME NEW n \in 1 .. 7, S \subseteq n .. 7, n \in S PROVE \E x \in S : \A y \in S : x =< y
    BY <2>1
  <2>2. \A n \in 1 .. 7 : S \subseteq n .. 7 => n \in S \/ S \subseteq n + 1 .. 7
    OBVIOUS
  <2>3. ~(S \subseteq 8 .. 7)
    BY s \notin 8 .. 7
  <2> QED
    BY <2>1, <2>2, <2>3
<1>3. Max(S) \in S /\ \A y \in S : Max(S) >= y
  BY <1>1 DEF Max
<1>4. Min(S) \in S /\ \A y \in S : Min(S) =< y
  BY <1>2 DEF Min
<1> QED
  BY <1>3, <1>4

(* The list of the sizes has no entry twice. *)
LEMMA SizeNumbers ==
  /\ DOMAIN Sizes = 1 .. 7
  /\ \A k, l \in DOMAIN Sizes : Sizes[k] = Sizes[l] => k = l
<1>1. DOMAIN Sizes = 1 .. 7
  BY DEF Sizes
<1>2. ASSUME NEW k \in 1 .. 7, NEW l \in 1 .. 7, Sizes[k] = Sizes[l] PROVE k = l
  <2>1. Sizes[k][1] = Sizes[l][1]
    BY <1>2
  <2>2. /\ Sizes[1][1] = 640 /\ Sizes[2][1] = 384 /\ Sizes[3][1] = 352 /\ Sizes[4][1] = 320
        /\ Sizes[5][1] = 192 /\ Sizes[6][1] = 176 /\ Sizes[7][1] = 160
    BY DEF Sizes
  <2> HIDE DEF Sizes
  <2>3. k \in {1, 2, 3, 4, 5, 6, 7} /\ l \in {1, 2, 3, 4, 5, 6, 7}
    OBVIOUS
  <2> QED
    BY <2>1, <2>2, <2>3
<1> QED
  BY <1>1, <1>2

(* Nor has that of the palettes. *)
LEMMA PaletteNumbers ==
  /\ DOMAIN Palettes = 1 .. 5
  /\ \A k, l \in DOMAIN Palettes : Palettes[k] = Palettes[l] => k = l
<1>1. DOMAIN Palettes = 1 .. 5
  BY DEF Palettes
<1>2. /\ Palettes[1] = "jpg" /\ Palettes[2] = "yuv" /\ Palettes[3] = "r24" /\ Palettes[4] = "r16"
      /\ Palettes[5] = "r32"
  BY DEF Palettes
<1>3. ASSUME NEW k \in 1 .. 5, NEW l \in 1 .. 5, Palettes[k] = Palettes[l] PROVE k = l
  <2>1. k \in {1, 2, 3, 4, 5} /\ l \in {1, 2, 3, 4, 5}
    OBVIOUS
  <2> QED
    BY <2>1, <1>2, <1>3
<1> QED
  BY <1>1, <1>3

(* convertsize gives the place of a size in the list, or 0. *)
LEMMA SizeNumber ==
  /\ \A k \in DOMAIN Sizes : convertsize(Sizes[k]) = k
  /\ \A wanted : \/ convertsize(wanted) = 0
                 \/ convertsize(wanted) \in DOMAIN Sizes /\ Sizes[convertsize(wanted)] = wanted
<1>1. \A w : w \in ToSet(Sizes) <=> \E k \in DOMAIN Sizes : Sizes[k] = w
  BY DEF ToSet
<1> QED
  BY <1>1, SizeNumbers DEF convertsize

(* convertpalette gives the place in the list of each palette there is. *)
LEMMA PaletteNumber ==
  ASSUME NEW palette \in ToSet(Palettes)
  PROVE  convertpalette(palette) \in DOMAIN Palettes /\ Palettes[convertpalette(palette)] = palette
<1>1. \E k \in DOMAIN Palettes : Palettes[k] = palette
  BY DEF ToSet
<1> QED
  BY <1>1 DEF convertpalette

(* The search finds what is needed if it is available, else the nearest one
   before it or, with none before, after it. *)
LEMMA Nearest ==
  ASSUME NEW need \in 1 .. 7, NEW available \in SUBSET (1 .. 7)
  PROVE  LET found == Another(need, available)
         IN  /\ need \in available => found = need
             /\ found \in available \cup {0, need}
             /\ found = 0 => available = {}
             /\ found \notin available /\ found = need => Below(need, available) = {1}
             /\ found \in available =>
                  /\ ~\E k \in available : (need < k /\ k < found) \/ (found < k /\ k < need)
                  /\ found > need => Below(need, available) = {}
<1> DEFINE below == Below(need, available)
           above == Above(need, available)
<1>1. /\ below = {k \in available : k < need} /\ above = {k \in available : k > need}
      /\ below \in SUBSET (1 .. 7) /\ above \in SUBSET (1 .. 7)
  BY DEF Below, Above
<1>2. below # {} => Max(below) \in below /\ \A k \in below : k <= Max(below)
  BY <1>1, Extremes
<1>3. above # {} => Min(above) \in above /\ \A k \in above : Min(above) <= k
  BY <1>1, Extremes
<1>4. CASE need \in available
  BY <1>4 DEF Another
<1>5. CASE need \notin available /\ below \ {1} # {}
  <2>1. Another(need, available) = Max(below)
    BY <1>5 DEF Another
  <2> HIDE DEF below
  <2>2. Max(below) \in available /\ Max(below) < need /\ \A k \in available : k < need => k <= Max(below)
    BY <1>1, <1>2, <1>5
  <2> QED
    BY <2>1, <2>2, <1>1, <1>5
<1>6. CASE need \notin available /\ below = {1}
  BY <1>6 DEF Another
<1>7. CASE need \notin available /\ below = {} /\ above # {}
  <2>1. Another(need, available) = Min(above)
    BY <1>7 DEF Another
  <2> HIDE DEF above
  <2>2. Min(above) \in available /\ Min(above) > need /\ \A k \in available : k > need => Min(above) <= k
    BY <1>1, <1>3, <1>7
  <2> QED
    BY <2>1, <2>2, <1>1, <1>7
<1>8. CASE need \notin available /\ below = {} /\ above = {}
  <2>1. Another(need, available) = 0 /\ available = {}
    BY <1>1, <1>8 DEF Another
  <2> QED
    BY <2>1
<1> QED
  BY <1>4, <1>5, <1>6, <1>7, <1>8

(* Whatever sizes, palettes and limits a webcam has, and whatever size it is
   asked for: input_gspcav1 and it agree as Negotiates says. *)
THEOREM AlwaysNegotiates ==
  ASSUME NEW cam, NEW wanted, NEW palette \in ToSet(Palettes)
  PROVE  Negotiates(cam, wanted, palette)
<1> DEFINE got == init_videoIn(cam, wanted, palette)
           need == convertsize(wanted)
           has == probeSize(cam)
           found == Another(need, has)
           kept == [size |-> wanted, palette |-> palette]
           other == [size |-> Sizes[found], palette |-> checkpalette(cam, Sizes[found], palette)]
<1>1. has \in SUBSET (1 .. 7) /\ DOMAIN Sizes = 1 .. 7
  BY SizeNumbers DEF probeSize
<1>2. need \in 0 .. 7 /\ (need # 0 => Sizes[need] = wanted)
  BY SizeNumber, SizeNumbers
<1>3. check_palettesize(cam, wanted, palette) = IF need = 0 \/ found = 0 THEN kept ELSE other
  BY DEF check_palettesize
<1>4. CASE 0 \in {wanted[1], wanted[2]}
  <2>1. got = [size |-> wanted, palette |-> palette, ok |-> FALSE]
    BY <1>4 DEF init_videoIn
  <2>2. need = 0
    <3>1. /\ Sizes[1] = <<640, 480>> /\ Sizes[2] = <<384, 288>> /\ Sizes[3] = <<352, 288>>
          /\ Sizes[4] = <<320, 240>> /\ Sizes[5] = <<192, 144>> /\ Sizes[6] = <<176, 144>>
          /\ Sizes[7] = <<160, 120>>
      BY DEF Sizes
    <3>2. \A k \in {1, 2, 3, 4, 5, 6, 7} : Sizes[k][1] # 0 /\ Sizes[k][2] # 0
      BY <3>1
    <3> QED
      BY <3>2, <1>2, <1>4
  <2> QED
    BY <2>1, <2>2, <1>1 DEF Negotiates
<1>5. CASE 0 \notin {wanted[1], wanted[2]}
  <2> DEFINE chosen == check_palettesize(cam, wanted, palette)
  <2>1. got = [size |-> chosen.size, palette |-> chosen.palette, ok |-> Accepts(cam, chosen.palette)]
    BY <1>5 DEF init_videoIn, init_v4l
  <2>2. got.ok => got.palette \in cam.palettes
    <3> HIDE DEF got, chosen
    <3> QED
      BY <2>1 DEF Accepts
  <2>3. CASE need = 0 \/ found = 0
    <3>1. got.size = wanted /\ need \notin has /\ (need = 0 \/ has = {})
      BY <2>1, <2>3, <1>1, <1>2, <1>3, Nearest
    <3> QED
      BY <3>1, <2>2, <1>1, <1>2 DEF Negotiates
  <2>4. CASE need # 0 /\ found # 0
    <3>1. need \in 1 .. 7
      BY <2>4, <1>2
    <3>2. /\ need \in has => found = need
          /\ found \in has \cup {0, need}
          /\ found \notin has /\ found = need => Below(need, has) = {1}
          /\ found \in has =>
               /\ ~\E k \in has : (need < k /\ k < found) \/ (found < k /\ k < need)
               /\ found > need => Below(need, has) = {}
      BY <3>1, <1>1, Nearest
    <3>3. found \in 1 .. 7 /\ chosen = other
      BY <3>1, <3>2, <2>4, <1>1, <1>3
    <3>4. got.size = Sizes[found] /\ got.palette = checkpalette(cam, Sizes[found], palette)
      BY <3>3, <2>1
    <3>5. convertsize(got.size) = found
      BY <3>3, <3>4, <1>1, SizeNumber
    <3>6. found = need => got.size = wanted
      BY <3>4, <2>4, <1>2
    <3>7. ASSUME need \in has, palette \in cam.palettes, cam.depth = 0
          PROVE  got = [size |-> wanted, palette |-> palette, ok |-> TRUE]
      <4>1. checkpalette(cam, Sizes[found], palette) = palette
        <5> DEFINE q == Another(convertpalette(palette), probePalette(cam))
        <5>1. convertpalette(palette) \in probePalette(cam)
          BY <3>7, PaletteNumber DEF probePalette
        <5>2. q = convertpalette(palette)
          BY <5>1 DEF Another
        <5> QED
          BY <5>2, PaletteNumber DEF checkpalette
      <4>2. Accepts(cam, palette) = TRUE
        BY <3>7 DEF Accepts
      <4>3. other = [size |-> wanted, palette |-> palette]
        BY <4>1, <3>2, <3>7, <2>4, <1>2
      <4> HIDE DEF got, found, chosen, other
      <4> QED
        BY <4>2, <4>3, <3>3, <2>1
    <3> HIDE DEF got, need, has, found
    <3>8. convertsize(got.size) \notin has => got.size = wanted /\ Below(need, has) = {1}
      BY <3>2, <3>5, <3>6, <2>4
    <3>9. convertsize(got.size) \in has =>
            /\ ~\E k \in has : (need < k /\ k < convertsize(got.size)) \/ (convertsize(got.size) < k /\ k < need)
            /\ convertsize(got.size) > need => Below(need, has) = {}
      BY <3>2, <3>5
    <3> QED
      BY <3>7, <3>8, <3>9, <2>2 DEF Negotiates, got, need, has
  <2> QED
    BY <2>3, <2>4
<1> QED
  BY <1>4, <1>5

(* Negotiated: with any of the palettes that the option -f can set, for every
   webcam. *)
THEOREM WebcamsAgree ==
  PluginsSpec => []((FromWebcam => inConfig.palette \in ToSet(Palettes)) => Negotiated)
<1>1. (FromWebcam => inConfig.palette \in ToSet(Palettes)) => Negotiated
  BY AlwaysNegotiates DEF Negotiated
<1> QED
  BY <1>1, PTL
=============================================================================
