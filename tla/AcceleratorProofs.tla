------------------------ MODULE AcceleratorProofs ------------------------
(* Theorems about Accelerator for any set of threads, any durations and any
   number of firings. *)
EXTENDS Accelerator, TLAPS

(* What one write makes of the digits in the stream: low, high or no change. *)
LEMMA LevelType ==
  ASSUME pin \in {0, 1}, NEW digits
  PROVE  /\ Level(digits) \in {0, 1}
         /\ digits = <<>> => Level(digits) = pin
         /\ (digits # <<>> /\ Level(digits) = 1)
              => \E i \in DOMAIN digits : digits[i] = 1
BY DEF Level

(* A thread's number of pulses is a natural number. *)
LEMMA FireIterType ==
  ASSUME NEW ms \in Durations
  PROVE  fireIter(ms) \in Nat
<1>1. /\ ms \in Nat
      /\ 2 * FIRE_DUTY_TIME \in Nat \ {0}
  BY AcceleratorAssumption
<1> DEFINE d == 2 * FIRE_DUTY_TIME
<1>2. d \in Nat \ {0}
  BY <1>1
<1> HIDE DEF d
<1>3. ms \div d \in Nat
  BY <1>1, <1>2
<1> QED
  BY <1>3 DEF fireIter, d

(* The constructor leaves the trigger released and nobody firing. *)
LEMMA PulseInvInit == Init => PulseInv
BY DEF Init, PulseInv, TypeOK, PulseCounted, BufferOwned, HighDigitOwned,
       PinOwned, Phase

(* Every call of fprintf, fseek and usleep by any thread, every entry to
   fire(), every return and every cancellation keeps the invariant. *)
LEMMA PulseInvStep ==
  ASSUME PulseInv, [Next]_accelVars
  PROVE  PulseInv'
<1>type. TypeOK
  BY DEF PulseInv
<1> USE DEF TypeOK, PulseCounted, BufferOwned, HighDigitOwned, PinOwned, Phase,
            Move
<1>1. ASSUME NEW t \in Threads, NEW ms \in Durations, Fire(t, ms)
      PROVE  PulseInv'
  BY <1>1, FireIterType DEF Fire, PulseInv
<1>2. ASSUME NEW t \in Threads, PrintHigh(t)
      PROVE  PulseInv'
  <2>1. TypeOK' /\ PulseCounted'
    BY <1>2 DEF PrintHigh, PulseInv
  <2>2. t \in Threads /\ phase'[t] = "flushHigh"
    BY <1>2, <1>type DEF PrintHigh
  <2> QED
    BY <2>1, <2>2 DEF PulseInv
<1>3. ASSUME NEW t \in Threads, FlushHigh(t)
      PROVE  PulseInv'
  <2>1. TypeOK' /\ PulseCounted'
    BY <1>3, LevelType DEF FlushHigh, Flush, PulseInv
  <2>2. fireFP' = <<>> /\ phase'[t] = "high"
    BY <1>3, <1>type DEF FlushHigh, Flush
  <2> QED
    BY <2>1, <2>2 DEF PulseInv
<1>4. ASSUME NEW t \in Threads, PrintLow(t)
      PROVE  PulseInv'
  <2>1. TypeOK' /\ PulseCounted'
    BY <1>4 DEF PrintLow, PulseInv
  <2>2. /\ phase'[t] = "flushLow"
        /\ fireFP' = Append(fireFP, 0)
        /\ \A u \in Threads \ {t} : phase'[u] = phase[u]
        /\ phase[t] = "high"
    BY <1>4, <1>type DEF PrintLow
  <2>3. BufferOwned' /\ PinOwned'
    BY <2>2, <1>type
  <2>4. HighDigitOwned'
    <3>1. (\E i \in DOMAIN fireFP' : fireFP'[i] = 1)
             => \E i \in DOMAIN fireFP : fireFP[i] = 1
      BY <2>2, <1>type
    <3> QED
      BY <3>1, <2>2 DEF PulseInv
  <2> QED
    BY <2>1, <2>3, <2>4 DEF PulseInv
<1>5. ASSUME NEW t \in Threads, FlushLow(t)
      PROVE  PulseInv'
  <2>1. TypeOK' /\ PulseCounted'
    BY <1>5, LevelType DEF FlushLow, Flush, PulseInv
  <2>2. /\ fireFP' = <<>>
        /\ pin' = Level(fireFP)
        /\ phase[t] = "flushLow"
        /\ \A u \in Threads \ {t} : phase'[u] = phase[u]
    BY <1>5, <1>type DEF FlushLow, Flush
  <2>3. BufferOwned' /\ HighDigitOwned'
    BY <2>2
  <2>4. PinOwned'
    <3>1. CASE fireFP = <<>>
      <4>1. pin' = pin
        BY <3>1, <2>2, <1>type, LevelType
      <4> QED
        BY <4>1, <3>1, <2>2 DEF PulseInv
    <3>2. CASE fireFP # <<>>
      <4>1. pin' = 1 =>
              \E u \in Threads : phase[u] \in {"flushHigh", "cancelled"}
        BY <3>2, <2>2, <1>type, LevelType DEF PulseInv
      <4> QED
        BY <4>1, <2>2
    <3> QED
      BY <3>1, <3>2
  <2> QED
    BY <2>1, <2>3, <2>4 DEF PulseInv
<1>6. ASSUME NEW t \in Threads, Return(t)
      PROVE  PulseInv'
  <2>1. TypeOK' /\ PulseCounted'
    BY <1>6 DEF Return, PulseInv
  <2>2. /\ UNCHANGED <<fireFP, pin>>
        /\ phase[t] = "loop"
        /\ \A u \in Threads \ {t} : phase'[u] = phase[u]
    BY <1>6, <1>type DEF Return
  <2> QED
    BY <2>1, <2>2 DEF PulseInv
<1>7. ASSUME NEW t \in Threads, Cancel(t)
      PROVE  PulseInv'
  <2>1. TypeOK' /\ PulseCounted'
    BY <1>7 DEF Cancel, PulseInv
  <2>2. /\ UNCHANGED <<fireFP, pin>>
        /\ phase'[t] = "cancelled"
        /\ \A u \in Threads \ {t} : phase'[u] = phase[u]
    BY <1>7, <1>type DEF Cancel
  <2> QED
    BY <2>1, <2>2 DEF PulseInv
<1>8. CASE UNCHANGED accelVars
  BY <1>8 DEF accelVars, PulseInv
<1> QED
  BY <1>1, <1>2, <1>3, <1>4, <1>5, <1>6, <1>7, <1>8 DEF Next, Step

(* The argument for the trigger's safety holds in every reachable state. *)
THEOREM PulseInvariant == Spec => []PulseInv
<1> QED
  BY PulseInvInit, PulseInvStep, PTL DEF Spec

(* Every variable keeps its type: in particular no thread ever counts its
   pulses below zero, so every call of fire() ends its loop at zero. *)
THEOREM TypeCorrect == Spec => []TypeOK
<1>1. PulseInv => TypeOK
  BY DEF PulseInv
<1> QED
  BY <1>1, PulseInvariant, PTL

(* Whatever the interleaving of the threads' stdio calls, the trigger is
   released and the stream empty when no call of fire() is under way and no
   thread was cancelled in one. *)
THEOREM TriggerSafe == Spec => []SafeWhenIdle
<1>1. PulseInv => SafeWhenIdle
  BY DEF PulseInv, SafeWhenIdle, TypeOK, BufferOwned, PinOwned
<1> QED
  BY <1>1, PulseInvariant, PTL

=============================================================================
