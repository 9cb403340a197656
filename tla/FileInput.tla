----------------------------- MODULE FileInput -----------------------------
(***************************************************************************)
(* input_file: the worker waits for the kernel (inotify) to report a file   *)
(* that was closed after writing or moved into the folder, reads it, and    *)
(* publishes it; with -r it removes the file, with -n it looks at one name. *)
(*                                                                         *)
(* The files are other programs': they move a file into the folder, or     *)
(* write one in place, which truncates it first.  A file is an inode; a    *)
(* name may be given to another one while the worker has the first open.   *)
(***************************************************************************)
EXTENDS Picture, Functions

CONSTANTS
  Names,           \* names of files
  anyName,         \* no -n was given
  InPlace,         \* whether files are written in place, or only moved in
  MaxFiles         \* bound: pictures put into the folder

ASSUME FileInputAssumption ==
  /\ anyName \notin Names /\ InPlace \in BOOLEAN /\ MaxFiles \in Nat

VARIABLES
  filename, rm,    \* the options
  reuse,           \* whether a name is given to a second picture
  folder,          \* folder[n]: inode of that name, or 0
  inode,           \* inode[k]: the picture in it, and whether it is all there
  writing,         \* what another program has open for writing: <<name, inode>>
  made,            \* made[n]: pictures given the name n so far
  events,          \* what inotify has queued: names
  ev,              \* the event read
  file, filesize   \* the inode opened, and the picture in it at fstat()

optionVars == <<filename, rm, reuse>>
folderVars == <<folder, inode, writing, made>>
fileInputVars == <<optionVars, folderVars, events, ev, file, filesize>>

NotWriting == <<>>
NoFile == 0

FileInputInit ==
  /\ filename \in Names \cup {anyName} /\ rm \in BOOLEAN /\ reuse \in BOOLEAN
  /\ folder = [n \in Names |-> NoFile] /\ inode = <<>> /\ writing = NotWriting
  /\ made = [n \in Names |-> 0] /\ events = <<>> /\ ev = anyName /\ file = NoFile /\ filesize = NoFile

-----------------------------------------------------------------------------
(* Other programs.                                                         *)

Made == SumFunction(made)

New(n) ==
  /\ Made < MaxFiles /\ (reuse \/ made[n] = 0)
  /\ made' = [made EXCEPT ![n] = @ + 1]

MoveIn(n) ==
  /\ New(n)
  /\ inode' = Append(inode, [content |-> Made + 1, whole |-> TRUE])
  /\ folder' = [folder EXCEPT ![n] = Len(inode')]
  /\ events' = Append(events, n)
  /\ UNCHANGED <<writing, optionVars, ev, file, filesize, pictureVars>>

OpenForWriting(n) ==
  /\ InPlace /\ writing = NotWriting /\ New(n)
  /\ LET k == IF folder[n] = NoFile THEN Len(inode) + 1 ELSE folder[n]
         begun == [content |-> Made + 1, whole |-> FALSE]
     IN  /\ inode' = IF k > Len(inode) THEN Append(inode, begun) ELSE [inode EXCEPT ![k] = begun]
         /\ folder' = [folder EXCEPT ![n] = k] /\ writing' = <<n, k>>
  /\ UNCHANGED <<optionVars, events, ev, file, filesize, pictureVars>>

(* Reported also when the name has been removed meanwhile.                 *)
CloseWritten ==
  /\ writing # NotWriting /\ writing' = NotWriting
  /\ inode' = [inode EXCEPT ![writing[2]].whole = TRUE]
  /\ events' = Append(events, writing[1])
  /\ UNCHANGED <<folder, made, optionVars, ev, file, filesize, pictureVars>>

OtherPrograms == CloseWritten \/ \E n \in Names : MoveIn(n) \/ OpenForWriting(n)

-----------------------------------------------------------------------------
(* worker_thread                                                           *)

KeepFiles == UNCHANGED <<optionVars, folderVars>>

Check ==
  /\ Goto(input, "check", IF stop THEN "cleanup" ELSE "read")
  /\ SameProcess /\ SamePicture /\ UNCHANGED <<fileInputVars, faults>>

(* Mutant: the last event is taken to be the picture's.                     *)
ReadEventsLast ==
  /\ events # <<>> /\ ev' = events[Len(events)] /\ events' = Tail(events)
  /\ Call(input, "read", "open")
  /\ KeepFiles /\ SameProcess /\ SamePicture /\ UNCHANGED <<file, filesize, faults>>

(* read() returns all that is queued; what is not the first is forgotten.   *)
ReadEvents ==
  /\ events # <<>> /\ ev' = Head(events) /\ events' = <<>>
  /\ Call(input, "read", "open")
  /\ KeepFiles /\ SameProcess /\ SamePicture /\ UNCHANGED <<file, filesize, faults>>

(* read() fails, or the event is that the queue was full or the folder gone. *)
ReadEventsFails ==
  /\ Call(input, "read", "cleanup") /\ Fault
  /\ SameProcess /\ SamePicture /\ UNCHANGED fileInputVars

Ignored == filename # anyName /\ ev # filename

Ignore ==
  /\ Ignored /\ Goto(input, "open", "check")
  /\ SameProcess /\ SamePicture /\ UNCHANGED <<fileInputVars, faults>>

Open ==
  /\ Call(input, "open", "stat")
  /\ ~Ignored /\ folder[ev] # NoFile /\ file' = folder[ev]
  /\ KeepFiles /\ SameProcess /\ SamePicture /\ UNCHANGED <<events, ev, filesize, faults>>

(* No such file: the worker ends.                                          *)
OpenFails ==
  /\ Call(input, "open", "cleanup") /\ ~Ignored
  /\ (folder[ev] = NoFile /\ UNCHANGED faults) \/ Fault
  /\ SameProcess /\ SamePicture /\ UNCHANGED fileInputVars

Stat ==
  /\ Goto(input, "stat", "lock")
  /\ filesize' = IF inode[file].whole THEN inode[file].content ELSE NoFile
  /\ KeepFiles /\ SameProcess /\ SamePicture /\ UNCHANGED <<events, ev, file, faults>>

StatFails ==
  /\ Goto(input, "stat", "cleanup") /\ Fault
  /\ SameProcess /\ SamePicture /\ UNCHANGED fileInputVars

LockPicture ==
  /\ Lock(input, id, "lock", "read file")
  /\ SameProcess /\ UNCHANGED <<in, serial, frame, fileInputVars, faults>>

(* malloc fails: the loop is left with the mutex locked.                   *)
MallocFails ==
  /\ Goto(input, "read file", "cleanup") /\ Fault
  /\ in' = [in EXCEPT ![id] = Emptied(@)]
  /\ SameProcess /\ UNCHANGED <<serial, db, frame, fileInputVars>>

(* No more than filesize bytes are read: another picture that was written   *)
(* into the file since may be longer than that.                            *)
ReadFile ==
  /\ input \notin cancelled
  /\ \E fits \in BOOLEAN :
       Publish(id, [content |-> inode[file].content, serial |-> 0,
                    whole |-> /\ inode[file].whole
                              /\ filesize = inode[file].content \/ (filesize # NoFile /\ fits)],
               "read file", "unlink")
  /\ SameProcess /\ UNCHANGED <<frame, fileInputVars, faults>>

ReadFileFails ==
  /\ Call(input, "read file", "cleanup") /\ Fault
  /\ in' = [in EXCEPT ![id] = Emptied(@)] /\ db' = [db EXCEPT ![id] = free]
  /\ SameProcess /\ UNCHANGED <<serial, frame, fileInputVars>>

(* The name is removed, whatever file has it now, and the thread may sleep.  *)
Unlink ==
  /\ Goto(input, "unlink", "check")
  /\ folder' = IF rm THEN [folder EXCEPT ![ev] = NoFile] ELSE folder
  /\ SameProcess /\ SamePicture
  /\ UNCHANGED <<optionVars, inode, writing, made, events, ev, file, filesize, faults>>

(* worker_cleanup, with no lock.                                           *)
FreePicture ==
  /\ Goto(input, "cleanup", "ended")
  /\ in' = [in EXCEPT ![id] = Freed(@)]
  /\ SameProcess /\ UNCHANGED <<serial, db, frame, fileInputVars, faults>>

FileInputStep ==
  \/ Check \/ ReadEvents \/ ReadEventsFails \/ Ignore \/ Open \/ OpenFails \/ Stat \/ StatFails
  \/ LockPicture \/ MallocFails \/ ReadFile \/ ReadFileFails \/ Unlink \/ FreePicture
  \/ (Cancelled(input, {"read", "open", "read file", "unlink"}) /\ UNCHANGED fileInputVars)
=============================================================================
