----------------------------- MODULE TestInput -----------------------------
(***************************************************************************)
(* input_testpicture: two pictures that are in the program, in turns.      *)
(* plugin_number is never assigned, so the worker publishes as input 0     *)
(* whatever number the plugin has; the buffer it allocates is that number's. *)
(***************************************************************************)
EXTENDS Picture

CONSTANT MaxPictures  \* bound: pictures published

VARIABLE sequence  \* i: which of the two pictures is next but one

plugin_number == 0

TestInputInit == sequence = 0

(* input_run allocates before it makes the thread.                          *)
TestBuffers == [n \in Ids |-> IF n = id THEN Allocated(NULL) ELSE NULL]

(* After it has slept, which is when it is cancelled.                       *)
CheckStop ==
  /\ Goto(input, "check", IF stop THEN "cleanup" ELSE "lock")
  /\ SameProcess /\ SamePicture /\ UNCHANGED <<sequence, faults>>

NextPicture ==
  /\ serial < MaxPictures
  /\ db[plugin_number] = free /\ sequence' = (sequence + 1) % 2
  /\ IF in[plugin_number].content = 0
     THEN process' = "crashed" /\ SamePicture /\ UNCHANGED at
     ELSE Publish(plugin_number, [content |-> sequence' + 1, whole |-> TRUE, serial |-> 0],
                  "lock", "check") /\ UNCHANGED <<process, frame>>
  /\ at[input] = "lock"
  /\ UNCHANGED <<stop, clock, asleep, cancelled, faults>>

FreeBuffer ==
  /\ Goto(input, "cleanup", "ended")
  /\ in' = [in EXCEPT ![plugin_number] = Freed(@)]
  /\ SameProcess /\ UNCHANGED <<serial, db, frame, sequence, faults>>

TestInputStep ==
  \/ CheckStop \/ NextPicture \/ FreeBuffer
  \/ Cancelled(input, {"check"}) /\ UNCHANGED sequence
=============================================================================
