----------------------------- MODULE FileOutput -----------------------------
(***************************************************************************)
(* output_file: the worker saves each picture it is woken for under a name *)
(* made of the time and a counter, runs a command, and keeps the folder to  *)
(* a number of pictures by removing the first in the order of their names. *)
(***************************************************************************)
EXTENDS Picture, SequencesExt

VARIABLES
  ringbuffer_size, ringbuffer_exceed,  \* the options; -1: no ring buffer
  counter,         \* pictures named by this process
  name,            \* the name of the picture being saved: <<second, counter>>
  saved,           \* the folder: name |-> picture
  namelist,        \* what maintain_ringbuffer found, what is next first
  latestGone       \* the latest picture that was removed

ringVars == <<ringbuffer_size, ringbuffer_exceed>>
fileOutputVars == <<ringVars, counter, name, saved, namelist, latestGone>>

FileOutputInit ==
  /\ ringbuffer_size \in {-1} \cup Nat /\ ringbuffer_exceed \in Nat
  /\ counter = 0 /\ name = <<0, 0>> /\ saved = [n \in {} |-> NULL]
  /\ namelist = <<>> /\ latestGone = 0

(* alphasort: the numbers are written with as many digits, the time first. *)
Earlier(a, b) == a[1] < b[1] \/ (a[1] = b[1] /\ a[2] < b[2])

Save(n, picture) == saved' = [m \in DOMAIN saved \cup {n} |-> IF m = n THEN picture ELSE saved[m]]

KeepPicture == SameProcess /\ SamePicture

-----------------------------------------------------------------------------
(* worker_thread, after the picture was copied.                            *)

FileCheck ==
  /\ Goto(output, "check", IF stop THEN "cleanup" ELSE "listen")
  /\ KeepPicture /\ UNCHANGED <<faults, fileOutputVars>>

(* The time of now, or without one the thread returns.                     *)
MakeName ==
  /\ \/ Goto(output, "name", "open") /\ name' = <<clock, counter>> /\ counter' = counter + 1
        /\ UNCHANGED faults
     \/ Goto(output, "name", "ended") /\ Fault /\ UNCHANGED <<name, counter>>
  /\ KeepPicture /\ UNCHANGED <<ringVars, saved, namelist, latestGone>>

OpenPicture ==
  /\ Call(output, "open", "write") /\ Save(name, [frame EXCEPT !.whole = FALSE])
  /\ KeepPicture /\ UNCHANGED <<faults, ringVars, counter, name, namelist, latestGone>>

(* A write of fewer bytes counts as one of all.                            *)
WritePicture ==
  /\ Call(output, "write", "command")
  /\ \/ Save(name, frame) /\ UNCHANGED faults
     \/ Fault /\ UNCHANGED saved
  /\ KeepPicture /\ UNCHANGED <<ringVars, counter, name, namelist, latestGone>>

SaveFails ==
  /\ Call(output, "open", "ended") \/ Call(output, "write", "ended")
  /\ Fault
  /\ KeepPicture /\ UNCHANGED fileOutputVars

(* Mutant: the first picture of a process does not count.                   *)
DueLater == ringbuffer_exceed <= 0 \/ counter % (ringbuffer_exceed + 1) = 0

Due == ringbuffer_exceed <= 0 \/ counter = 1 \/ counter % (ringbuffer_exceed + 1) = 0

(* scandir, when the ring buffer is looked after this time.                 *)
Found ==
  LET all == SetToSortSeq(DOMAIN saved, Earlier)
  IN  IF Due /\ ringbuffer_size >= 0 THEN SubSeq(all, 1, Len(all) - ringbuffer_size) ELSE <<>>

Maintain ==
  /\ Goto(output, "command", IF Found = <<>> THEN "check" ELSE "delete")
  /\ namelist' = Found
  /\ KeepPicture /\ UNCHANGED <<faults, ringVars, counter, name, saved, latestGone>>

(* unlink fails: that picture stays.                                       *)
DeleteNext ==
  /\ Goto(output, "delete", IF Len(namelist) = 1 THEN "check" ELSE "delete")
  /\ namelist' = Tail(namelist)
  /\ \/ /\ saved' = [m \in DOMAIN saved \ {Head(namelist)} |-> saved[m]]
        /\ latestGone' = Max({latestGone, saved[Head(namelist)].serial})
        /\ UNCHANGED faults
     \/ Fault /\ UNCHANGED <<saved, latestGone>>
  /\ KeepPicture /\ UNCHANGED <<ringVars, counter, name>>

(* worker_cleanup frees the copy.                                          *)
FileCleanup ==
  /\ Goto(output, "cleanup", "ended") /\ frame' = NULL
  /\ SameProcess /\ UNCHANGED <<in, serial, db, faults, fileOutputVars>>

FileOutputStep ==
  \/ FileCheck
  \/ Grab("name") /\ UNCHANGED fileOutputVars
  \/ MakeName \/ OpenPicture \/ WritePicture \/ SaveFails
  \/ Maintain \/ DeleteNext \/ FileCleanup
  \/ Cancelled(output, {"wait", "woken", "open", "write", "command"}) /\ UNCHANGED fileOutputVars

-----------------------------------------------------------------------------

(* The most recent pictures, as many as the ring buffer is to hold, are     *)
(* never removed ("delete oldest files, just keep size most recent files"), *)
(* and once a process has saved a picture no more are kept than the plugin  *)
(* says ("ringbuffer size: s to s + e"), over orderly restarts.             *)
RingBuffer ==
  /\ latestGone > 0 => Cardinality({n \in DOMAIN saved : saved[n].serial > latestGone}) >= ringbuffer_size
  /\ (ringbuffer_size > 0 /\ counter > 0 /\ at[output] = "check" /\ faults = 0) =>
       Cardinality(DOMAIN saved) <= ringbuffer_size + ringbuffer_exceed
=============================================================================
