------------------------------ MODULE Picture ------------------------------
(***************************************************************************)
(* What mjpg_streamer's plugins share: the flag stop, and for each input a *)
(* picture with a mutex db and a condition db_update.  An input publishes  *)
(* under the mutex and wakes everybody; an output waits to be woken and    *)
(* copies under the mutex.  Here: one input, one output, the threads the   *)
(* plugins make for them, and what pthread_cancel does to a thread.        *)
(***************************************************************************)
EXTENDS Integers, Sequences, FiniteSets

CONSTANTS
  input, output,   \* the worker threads of the two plugins
  free,            \* nobody holds a mutex
  id,              \* the number of the input, counted from 0
  input_number,    \* the number the output was told
  MaxFaults,       \* bound: calls that fail
  MaxClock         \* bound: seconds that are counted

ASSUME PictureAssumption ==
  /\ input # output /\ free \notin {input, output}
  /\ {id, input_number} \subseteq {0, 1} /\ {MaxFaults, MaxClock} \subseteq Nat

VARIABLES
  process,         \* "up", "exited" or "crashed"
  stop,            \* pglobal->stop
  clock, asleep,   \* the time in seconds, and since when signal_handler sleeps
  cancelled,       \* threads with a cancellation pending
  at,              \* at[t]: what thread t does next
  in,              \* in[n]: buf with its size
  serial,          \* pictures published so far
  db,              \* db[n]: who holds the mutex of in[n]
  frame,           \* the output's own copy
  faults

pictureVars == <<process, stop, clock, asleep, cancelled, at, in, serial, db, frame, faults>>

Threads == {input, output}
Ids == {0, 1}

(* What a buffer holds: a picture, a number, and whether all of its bytes   *)
(* are there; serial says when it was published.                           *)
NULL == [content |-> 0, whole |-> FALSE, serial |-> 0]

Allocated(b) == [b EXCEPT !.content = -2, !.whole = FALSE]
Freed(b) == [b EXCEPT !.content = IF b.content = 0 THEN 0 ELSE -1, !.whole = FALSE]
Emptied(b) == [b EXCEPT !.content = 0, !.whole = FALSE]

PictureInit(begin, buffers) ==
  /\ process = "up" /\ stop = FALSE /\ clock = 0 /\ asleep = 0 /\ cancelled = {}
  /\ at = begin /\ in = buffers /\ serial = 0
  /\ db = [n \in Ids |-> free] /\ frame = NULL /\ faults = 0

Goto(t, from, to) == at[t] = from /\ at' = [at EXCEPT ![t] = to]

(* A call at which a thread can be cancelled is not made once that is asked. *)
Call(t, from, to) == t \notin cancelled /\ Goto(t, from, to)

Fault == faults < MaxFaults /\ faults' = faults + 1

SamePicture == UNCHANGED <<in, serial, db, frame>>
SameProcess == UNCHANGED <<process, stop, clock, asleep, cancelled>>

-----------------------------------------------------------------------------
(* An input, inside its critical section.                                  *)

Lock(t, n, from, to) ==
  /\ db[n] = free /\ db' = [db EXCEPT ![n] = t] /\ Goto(t, from, to)

(* pthread_cond_broadcast wakes the output if it waits on this input.      *)
Publish(n, picture, from, to) ==
  /\ at[input] = from
  /\ at' = [at EXCEPT ![input] = to,
                      ![output] = IF @ = "wait" /\ input_number = n THEN "woken" ELSE @]
  /\ serial' = serial + 1
  /\ in' = [in EXCEPT ![n] = [picture EXCEPT !.serial = serial']]
  /\ db' = [db EXCEPT ![n] = free]

-----------------------------------------------------------------------------
(* An output.                                                              *)

(* Mutant: it copies what is there.                                        *)
ListenNot ==
  /\ db[input_number] = free /\ Goto(output, "listen", "woken")
  /\ SameProcess /\ SamePicture /\ UNCHANGED faults

(* pthread_mutex_lock, and pthread_cond_wait gives it up again.            *)
Listen ==
  /\ db[input_number] = free /\ Goto(output, "listen", "wait")
  /\ SameProcess /\ SamePicture /\ UNCHANGED faults

(* Woken, it has the mutex again while it copies, and the copy is made as   *)
(* large as the picture.                                                   *)
Copy(to) ==
  /\ db[input_number] = free /\ Goto(output, "woken", to)
  /\ frame' = in[input_number]
  /\ SameProcess /\ UNCHANGED <<in, serial, db, faults>>

(* realloc fails: the thread returns.                                      *)
CopyFails ==
  /\ db[input_number] = free /\ Goto(output, "woken", "ended") /\ Fault
  /\ SameProcess /\ SamePicture

Grab(to) == Listen \/ Copy(to) \/ CopyFails

-----------------------------------------------------------------------------
(* signal_handler: stop, sleep for a second, cancel the input and then the  *)
(* output, sleep for another one, exit.                                    *)
SameThreads == UNCHANGED <<at, in, serial, db, frame, faults>>

Slept == clock > asleep

Sigint ==
  /\ ~stop /\ stop' = TRUE /\ asleep' = clock
  /\ UNCHANGED <<process, clock, cancelled>> /\ SameThreads

StopInput ==
  /\ stop /\ cancelled = {} /\ Slept /\ cancelled' = {input}
  /\ UNCHANGED <<process, stop, clock, asleep>> /\ SameThreads

StopOutput ==
  /\ cancelled = {input} /\ cancelled' = Threads /\ asleep' = clock
  /\ UNCHANGED <<process, stop, clock>> /\ SameThreads

(* Mutant: nobody waits for the threads to end.                             *)
ExitAtOnce ==
  /\ cancelled = Threads /\ process' = "exited"
  /\ UNCHANGED <<stop, clock, asleep, cancelled>> /\ SameThreads

Exit ==
  /\ cancelled = Threads /\ Slept /\ process' = "exited"
  /\ UNCHANGED <<stop, clock, asleep, cancelled>> /\ SameThreads

Tick ==
  /\ clock < MaxClock /\ clock' = clock + 1
  /\ UNCHANGED <<process, stop, asleep, cancelled>> /\ SameThreads

(* A thread is cancelled at such a call, and goes to its cleanup            *)
(* handler.  pthread_cond_wait first takes the mutex back, and nobody       *)
(* unlocks it then.                                                        *)
Cancelled(t, calls) ==
  /\ t \in cancelled /\ at[t] \in calls
  /\ at' = [at EXCEPT ![t] = "cleanup"]
  /\ IF at[t] \in {"wait", "woken"}
     THEN db[input_number] = free /\ db' = [db EXCEPT ![input_number] = t]
     ELSE UNCHANGED db
  /\ SameProcess /\ UNCHANGED <<in, serial, frame, faults>>

SignalStep == Sigint \/ StopInput \/ StopOutput \/ Exit
=============================================================================
