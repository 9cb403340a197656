---------------------------- MODULE Accelerator ----------------------------
(***************************************************************************)
(* toyAccel: the trigger of the turret, GPIO 44 driven through a stdio     *)
(* stream.  fire(ms) is a loop of fprintf / fseek / usleep calls with no   *)
(* lock around it, and the object is shared by every thread that holds a   *)
(* pointer to it: the server thread (command "fire") and the main thread   *)
(* (AutonomyDaemon::fireAccelerator).  stdio locks the stream for one call *)
(* only, so each call is one step and two firings interleave between them. *)
(*                                                                         *)
(* fprintf only fills the stream's buffer; fseek hands the whole buffer to *)
(* the driver in one write.  The driver reads it as one number and drives  *)
(* the pin high when that number is not zero.                              *)
(***************************************************************************)
EXTENDS Naturals, Sequences

CONSTANTS
  Threads,        \* the threads that may call fire()
  Cancellable,    \* those that KillServer() may pthread_cancel()
  Durations,      \* the values of ms that callers pass
  FIRE_DUTY_TIME  \* half a pulse, in ms

ASSUME AcceleratorAssumption ==
  /\ Cancellable \subseteq Threads
  /\ Durations \subseteq Nat
  /\ FIRE_DUTY_TIME \in Nat \ {0}

VARIABLES
  fireFP,  \* digits printed to the stream and not yet flushed
  pin,     \* level of GPIO 44
  phase,   \* where each thread stands in fire()
  left     \* pulses its loop has still to make: fireIter - i

accelVars == <<fireFP, pin, phase, left>>

Phase == {"idle", "loop", "flushHigh", "high", "flushLow", "cancelled"}

fireIter(ms) == ms \div (2 * FIRE_DUTY_TIME)

(* The constructor exports the pin and writes 0 to it before it opens the
   stream. *)
Init ==
  /\ fireFP = <<>>
  /\ pin = 0
  /\ phase = [t \in Threads |-> "idle"]
  /\ left = [t \in Threads |-> 0]

Move(t, from, to) ==
  /\ phase[t] = from
  /\ phase' = [phase EXCEPT ![t] = to]

(* Entering fire(ms).  Nothing asks whether a firing is under way. *)
Fire(t, ms) ==
  /\ Move(t, "idle", "loop")
  /\ left' = [left EXCEPT ![t] = fireIter(ms)]
  /\ UNCHANGED <<fireFP, pin>>

(* Mutant: i <= fireIter. *)
PrintHighOnceMore(t) ==
  /\ Move(t, "loop", "flushHigh")
  /\ fireFP' = Append(fireFP, 1)
  /\ UNCHANGED <<pin, left>>

PrintHigh(t) ==
  /\ left[t] > 0
  /\ Move(t, "loop", "flushHigh")
  /\ fireFP' = Append(fireFP, 1)
  /\ UNCHANGED <<pin, left>>

(* What the driver makes of one write: an empty flush writes nothing, and
   digits run together by two threads ("01", "10") are one number. *)
Level(digits) ==
  IF digits = <<>> THEN pin
  ELSE IF \E i \in DOMAIN digits : digits[i] = 1 THEN 1 ELSE 0

Flush ==
  /\ pin' = Level(fireFP)
  /\ fireFP' = <<>>

FlushHigh(t) ==
  /\ Move(t, "flushHigh", "high")
  /\ Flush
  /\ UNCHANGED left

(* The first usleep of the pulse is over. *)
PrintLow(t) ==
  /\ Move(t, "high", "flushLow")
  /\ fireFP' = Append(fireFP, 0)
  /\ UNCHANGED <<pin, left>>

(* Mutants: no second fseek; no i++. *)
FlushLowNoSeek(t) ==
  /\ Move(t, "flushLow", "loop")
  /\ left' = [left EXCEPT ![t] = @ - 1]
  /\ UNCHANGED <<fireFP, pin>>

FlushLowNoCount(t) ==
  /\ Move(t, "flushLow", "loop")
  /\ Flush
  /\ UNCHANGED left

(* The second fseek, the usleep after it and the loop's i++. *)
FlushLow(t) ==
  /\ Move(t, "flushLow", "loop")
  /\ Flush
  /\ left' = [left EXCEPT ![t] = @ - 1]

Return(t) ==
  /\ left[t] = 0
  /\ Move(t, "loop", "idle")
  /\ UNCHANGED <<fireFP, pin, left>>

(* KillServer() cancels the server thread.  Cancellation is deferred, and
   every phase boundary is in a call that is a cancellation point: recv when
   idle, the write inside fseek, usleep. *)
Cancel(t) ==
  /\ t \in Cancellable
  /\ phase[t] # "cancelled"
  /\ phase' = [phase EXCEPT ![t] = "cancelled"]
  /\ UNCHANGED <<fireFP, pin, left>>

Step(t) ==
  \/ PrintHigh(t)
  \/ FlushHigh(t)
  \/ PrintLow(t)
  \/ FlushLow(t)
  \/ Return(t)

Next ==
  \E t \in Threads :
    \/ \E ms \in Durations : Fire(t, ms)
    \/ Step(t)
    \/ Cancel(t)

(* Inside fire() a thread only waits for usleep, which returns: its steps are
   fair.  Nobody has to call fire() or to cancel. *)
Fairness == \A t \in Threads : WF_accelVars(Step(t))

Spec == Init /\ [][Next]_accelVars /\ Fairness

-----------------------------------------------------------------------------

TypeOK ==
  /\ fireFP \in Seq({0, 1})
  /\ pin \in {0, 1}
  /\ phase \in [Threads -> Phase]
  /\ left \in [Threads -> Nat]

Firing(t) == phase[t] \notin {"idle", "cancelled"}

Cancelled(t) == phase[t] = "cancelled"

(* Why: digits wait in the stream only while a thread stands between its
   fprintf and its fseek, ... *)
BufferOwned ==
  fireFP # <<>> =>
    \E t \in Threads : phase[t] \in {"flushHigh", "flushLow", "cancelled"}

(* ... a 1 among them is that of a thread that has still to flush it, ... *)
HighDigitOwned ==
  (\E i \in DOMAIN fireFP : fireFP[i] = 1) =>
    \E t \in Threads : phase[t] \in {"flushHigh", "cancelled"}

(* ... and a high pin is held by a thread in the first half of a pulse, or
   what will drive it low is in the stream. *)
PinOwned ==
  pin = 1 =>
    \/ fireFP # <<>>
    \/ \E t \in Threads : phase[t] \in {"flushHigh", "high", "cancelled"}

(* A thread inside a pulse has that pulse still to count. *)
PulseCounted ==
  \A t \in Threads :
    phase[t] \in {"flushHigh", "high", "flushLow"} => left[t] > 0

(* The inductive invariant behind SafeWhenIdle: what keeps the trigger safe
   although the calls of several threads to stdio interleave. *)
PulseInv ==
  TypeOK /\ PulseCounted /\ BufferOwned /\ HighDigitOwned /\ PinOwned

(* However the loops of several threads interleave, the trigger is released
   once every call of fire() has returned, and no digit is left in the stream
   to be flushed by a later call.  A thread cancelled inside fire() is the
   only way out of this. *)
SafeWhenIdle ==
  (\A t \in Threads : phase[t] = "idle") => pin = 0 /\ fireFP = <<>>

(* The trigger never stays pulled once nobody starts a firing any more: the
   loops under way run out and the last flush leaves the pin low, unless a
   thread was cancelled on the way.  (Nothing stronger holds: two threads that
   keep firing can keep the pin high, each one's 0 merged with the other's 1.) *)
TriggerReleased ==
  <>[][\A t \in Threads : Firing(t)' => Firing(t)]_accelVars
    => <>[](pin = 0 \/ \E t \in Threads : Cancelled(t))

(* Admin/Protocol.txt on "fire": a device that is not ready answers WAIT and
   nothing is fired.  So no firing starts while another one is under way. *)
FireOnlyWhenReady ==
  [][\A t \in Threads :
       (~Firing(t) /\ Firing(t)') => \A u \in Threads : ~Firing(u)]_accelVars

(* controllerTest.cpp announces "Safely terminating." once KillServer() has
   cancelled and joined the server thread and nothing else uses the
   accelerator: the trigger is released at that point. *)
ReleasedAtExit ==
  (\A t \in Threads : ~Firing(t)) => pin = 0

=============================================================================
