---------------------------- MODULE GimbleProofs ----------------------------
(***************************************************************************)
(* Theorems about Gimble for any threads, axes, spans and arguments: as    *)
(* long as no argument is NaN the servos stay in their range; and threads  *)
(* that take turns (GimbleTurns), with numbers as arguments, find the      *)
(* gimble to be the mount of PanTilt.                                      *)
(***************************************************************************)
EXTENDS GimbleTurns, TLAPS

NoNaN == NaN \notin SetArgs \cup StepArgs

(* A degree of the range has a duty of the range. *)
LEMMA DutyOfInRange ==
  ASSUME NEW a \in Axes, NEW deg \in Int, ~Outside(deg, 0, Span[a])
  PROVE  DutyOf(a, deg) \in Lowest(a) .. Highest(a)
<1>1. /\ DutyMin \in Nat
      /\ DutyRange \in Nat
      /\ Span[a] \in Nat
      /\ deg # NaN
  BY GimbleAssumption
<1>2. deg \in Nat /\ deg <= Span[a]
  BY <1>1 DEF Outside
<1>3. deg * DutyRange <= Span[a] * DutyRange
  BY <1>1, <1>2
<1>4. deg * DutyRange \in Nat /\ Lowest(a) \in Nat
  BY <1>1, <1>2 DEF Lowest
<1>5. Highest(a) = Lowest(a) + Span[a] * DutyRange
  BY <1>1 DEF Lowest, Highest
<1>6. DutyOf(a, deg) = deg * DutyRange + Lowest(a)
  <2>1. NaN \notin {deg * DutyRange, Lowest(a)}
    BY <1>4, GimbleAssumption
  <2> QED
    BY <1>1, <2>1 DEF DutyOf, DutyIncr, Plus
<1> HIDE DEF Lowest, Highest
<1>7. Span[a] * DutyRange \in Nat
  BY <1>1
<1> QED
  BY <1>3, <1>4, <1>5, <1>6, <1>7

(* What is printed for a duty of the range is a duty the servo stands. *)
LEMMA RoundedInRange ==
  ASSUME NEW a \in Axes, NEW d \in Lowest(a) .. Highest(a),
         NEW n \in Rounded(a, d)
  PROVE  n \in DutyMin .. DutyMin + DutyRange
<1> DEFINE k == Span[a]
           hi == DutyMin + DutyRange
<1>1. k \in Nat \ {0} /\ DutyMin \in Nat /\ hi \in Nat
  BY GimbleAssumption
<1>2. d \in Int /\ DutyMin * k <= d /\ d <= hi * k
  BY <1>1 DEF Lowest, Highest
<1>3. n = d \div k
  BY <1>2, GimbleAssumption DEF Rounded
<1> HIDE DEF k, hi
<1>4. n \in Int /\ k * n <= d /\ d < k * n + k
  BY <1>1, <1>2, <1>3
<1>5. n >= DutyMin
  <2> SUFFICES ASSUME n + 1 <= DutyMin PROVE FALSE
    BY <1>1, <1>4
  <2>1. k * (n + 1) <= k * DutyMin
    BY <1>1, <1>4
  <2> QED
    BY <2>1, <1>1, <1>2, <1>4
<1>6. n <= hi
  <2> SUFFICES ASSUME n >= hi + 1 PROVE FALSE
    BY <1>1, <1>4
  <2>1. k * n >= k * (hi + 1)
    BY <1>1, <1>4
  <2> QED
    BY <2>1, <1>1, <1>2, <1>4
<1> QED
  BY <1>1, <1>4, <1>5, <1>6 DEF hi

(* The constructor leaves both servos in their ranges. *)
LEMMA GimbleInvInit == Init => GimbleInv
<1> SUFFICES ASSUME Init PROVE GimbleInv
  OBVIOUS
<1>1. ASSUME NEW a \in Axes
      PROVE  /\ DutyOf(a, StartDeg[a]) \in Lowest(a) .. Highest(a)
             /\ DutyOf(a, StartDeg[a]) \div Span[a]
                  \in DutyMin .. DutyMin + DutyRange
  <2>1. StartDeg[a] \in Int /\ ~Outside(StartDeg[a], 0, Span[a])
    BY GimbleAssumption DEF Outside
  <2>2. DutyOf(a, StartDeg[a]) \in Lowest(a) .. Highest(a)
    BY <2>1, DutyOfInRange
  <2>3. DutyOf(a, StartDeg[a]) # NaN
    BY <2>2, GimbleAssumption
  <2>4. DutyOf(a, StartDeg[a]) \div Span[a] \in Rounded(a, DutyOf(a, StartDeg[a]))
    BY <2>3 DEF Rounded
  <2> QED
    BY <2>2, <2>4, RoundedInRange
<1>2. ASSUME NEW a \in Axes
      PROVE  Lowest(a) \in Int /\ Highest(a) \in Int
  BY GimbleAssumption DEF Lowest, Highest
<1>3. InRange
  BY <1>1 DEF Init, InRange
<1>4. Idle \in [stage : {"idle"}, kind : {"none"}, axis : Axes, arg : {0}, new : {0}]
  BY GimbleAssumption DEF Idle
<1>5. TypeOK
  BY <1>1, <1>2, <1>4, GimbleAssumption
  DEF Init, TypeOK, Ops, Stages, Answer, Answers
<1>6. AcceptedInRange
  BY <1>4 DEF Init, AcceptedInRange
<1>7. PrintedInRange /\ StreamOwned
  BY DEF Init, PrintedInRange, StreamOwned
<1> QED
  BY <1>3, <1>5, <1>6, <1>7 DEF GimbleInv

(* What the check of a call accepts is in the range of its axis. *)
LEMMA AcceptedBound ==
  ASSUME NoNaN, TypeOK, InRange, NEW t \in Threads,
         CheckSet(t) \/ CheckStep(t),
         op'[t].stage = "print"
  PROVE  /\ op'[t].new \in Lowest(op[t].axis) .. Highest(op[t].axis)
         /\ op'[t].new \in Int
<1> DEFINE a == op[t].axis
           deg == strtod(op[t].arg)
<1>1. /\ a \in Axes
      /\ duty[a] \in Lowest(a) .. Highest(a)
      /\ op[t] \in Ops
      /\ DOMAIN op = Threads
  BY DEF TypeOK, InRange, Ops
<1>2. deg \in Int /\ deg # NaN
  BY <1>1, GimbleAssumption DEF strtod, NoNaN, Number, Ops
<1>3. Lowest(a) \in Int /\ Highest(a) \in Int
  BY <1>1, GimbleAssumption DEF Lowest, Highest
<1>4. CASE CheckSet(t)
  <2>1. ~Outside(deg, 0, Span[a]) /\ op'[t].new = DutyOf(a, deg)
    BY <1>1, <1>4 DEF CheckSet, At, Finish, Accept, Ops
  <2> QED
    BY <1>1, <1>2, <1>3, <2>1, DutyOfInRange
<1>5. CASE CheckStep(t)
  <2> DEFINE newDuty == Plus(DutyIncr(deg), duty[a])
  <2>1. ~Outside(newDuty, Lowest(a), Highest(a)) /\ op'[t].new = newDuty
    BY <1>1, <1>5 DEF CheckStep, At, Finish, Accept, Ops
  <2>2. deg * DutyRange \in Int
    BY <1>2, GimbleAssumption
  <2>3. newDuty = deg * DutyRange + duty[a]
    BY <1>1, <1>2, <1>3, <2>2, GimbleAssumption DEF Plus, DutyIncr
  <2>4. newDuty \in Int /\ newDuty # NaN
    BY <1>1, <1>3, <2>2, <2>3, GimbleAssumption
  <2> HIDE DEF newDuty
  <2> QED
    BY <1>3, <2>1, <2>4 DEF Outside
<1> QED
  BY <1>4, <1>5

(* A call that moves on to its next stage is still a call. *)
LEMMA StageType ==
  ASSUME op \in [Threads -> Ops], NEW t \in Threads, NEW s \in Stages,
         op' = [op EXCEPT ![t].stage = s]
  PROVE  op' \in [Threads -> Ops]
<1>1. [op[t] EXCEPT !.stage = s] \in Ops
  BY DEF Ops
<1> QED
  BY <1>1

(* Every step of every thread keeps the invariant. *)
LEMMA GimbleInvStep ==
  ASSUME NoNaN, GimbleInv, [Next]_gimbleVars
  PROVE  GimbleInv'
<1>inv. TypeOK /\ InRange /\ AcceptedInRange /\ PrintedInRange /\ StreamOwned
  BY DEF GimbleInv
<1>int. /\ \A a \in Axes : Lowest(a) \in Int /\ Highest(a) \in Int
        /\ DutyMin \in Int /\ DutyMin + DutyRange \in Int
  BY GimbleAssumption DEF Lowest, Highest
<1>1. ASSUME NEW t \in Threads, NEW a \in Axes, NEW arg, NEW kind,
             \/ kind = "set" /\ arg \in SetArgs
             \/ kind = "step" /\ arg \in StepArgs
             \/ kind = "get" /\ arg = 0,
             Call(t, kind, a, arg)
      PROVE  GimbleInv'
  <2>1. TypeOK'
    BY <1>inv, <1>1 DEF Call, TypeOK, Ops, Stages, Answer, Answers
  <2>2. InRange' /\ PrintedInRange'
    BY <1>inv, <1>1 DEF Call, InRange, PrintedInRange
  <2>3. AcceptedInRange'
    BY <1>inv, <1>1 DEF Call, TypeOK, AcceptedInRange
  <2>4. StreamOwned'
    BY <1>inv, <1>1 DEF Call, TypeOK, StreamOwned
  <2> QED
    BY <2>1, <2>2, <2>3, <2>4 DEF GimbleInv
<1>2. ASSUME NEW t \in Threads, CheckSet(t) \/ CheckStep(t)
      PROVE  GimbleInv'
  <2>1. \/ /\ op' = [op EXCEPT ![t].stage = "idle"]
           /\ reply' = [reply EXCEPT ![t] = Answer("OOR", 0)]
        \/ /\ \E d : op' = [op EXCEPT ![t].stage = "print", ![t].new = d]
           /\ UNCHANGED reply
    BY <1>2 DEF CheckSet, CheckStep, Finish, Accept
  <2>2. UNCHANGED <<stream, device, duty>> /\ op[t].stage = "check"
    BY <1>2 DEF CheckSet, CheckStep, At
  <2>3. op'[t].stage = "print" =>
          /\ op'[t].new \in Lowest(op[t].axis) .. Highest(op[t].axis)
          /\ op'[t].new \in Int
    BY <1>inv, <1>2, AcceptedBound
  <2>4. \A u \in Threads \ {t} : op'[u] = op[u]
    BY <1>inv, <2>1 DEF TypeOK
  <2>5. DOMAIN op' = Threads /\ op'[t] \in Ops
    <3>1. op[t] \in Ops
      BY <1>inv DEF TypeOK
    <3>2. CASE op' = [op EXCEPT ![t].stage = "idle"]
      BY <1>inv, <3>2, StageType DEF TypeOK, Stages
    <3>3. CASE \E d : op' = [op EXCEPT ![t].stage = "print", ![t].new = d]
      <4>1. PICK d : op' = [op EXCEPT ![t].stage = "print", ![t].new = d]
        BY <3>3
      <4>2. op'[t] = [op[t] EXCEPT !.stage = "print", !.new = d]
        BY <1>inv, <4>1 DEF TypeOK
      <4>3. d \in Int
        BY <2>3, <3>1, <4>2
      <4> QED
        BY <1>inv, <3>1, <4>1, <4>2, <4>3 DEF TypeOK, Ops, Stages
    <3> QED
      BY <2>1, <3>2, <3>3
  <2>6. op'[t].stage \in {"idle", "print"} /\ op'[t].axis = op[t].axis
    BY <1>inv, <2>1 DEF TypeOK, Ops
  <2>7. Answer("OOR", 0) \in Answers
    BY DEF Answer, Answers
  <2>8. reply' \in [Threads -> Answers]
    BY <1>inv, <2>1, <2>7 DEF TypeOK
  <2>9. op' \in [Threads -> Ops]
    <3>1. \A u \in Threads :
            op'[u] \in Ops
      BY <1>inv, <2>4, <2>5 DEF TypeOK
    <3>2. op' = [u \in Threads |-> op'[u]]
      BY <1>inv, <2>1, <2>5 DEF TypeOK
    <3> QED
      BY <3>1, <3>2
  <2>10. TypeOK'
    BY <1>inv, <2>2, <2>8, <2>9 DEF TypeOK
  <2>11. InRange' /\ PrintedInRange'
    BY <1>inv, <2>2 DEF InRange, PrintedInRange
  <2>12. AcceptedInRange'
    BY <1>inv, <2>2, <2>3, <2>4, <2>5, <2>6 DEF AcceptedInRange, Ops, Stages
  <2>13. StreamOwned'
    BY <1>inv, <2>2, <2>4 DEF StreamOwned
  <2> QED
    BY <2>10, <2>11, <2>12, <2>13 DEF GimbleInv
<1>3. ASSUME NEW t \in Threads, GetDeg(t)
      PROVE  GimbleInv'
  <2> USE <1>3 DEF GetDeg, Finish, At
  <2>1. DegOf(op[t].axis, duty[op[t].axis]) \in Int \cup {NaN}
    <3> DEFINE d == duty[op[t].axis]
    <3>1. d \in Int \cup {NaN} /\ Lowest(op[t].axis) \in Int
      BY <1>inv, <1>int DEF TypeOK, Ops
    <3>2. DutyRange \in Nat \ {0}
      BY GimbleAssumption
    <3> HIDE DEF d
    <3>3. ASSUME d # NaN
          PROVE  (d - Lowest(op[t].axis)) \div DutyRange \in Int
      BY <3>1, <3>2, <3>3
    <3> QED
      BY <3>3 DEF DegOf, d
  <2>2. op' \in [Threads -> Ops]
    BY <1>inv, StageType DEF TypeOK, Stages
  <2>3. reply' \in [Threads -> Answers]
    <3>1. Answer("Pos", DegOf(op[t].axis, duty[op[t].axis])) \in Answers
      BY <2>1 DEF Answer, Answers
    <3> QED
      BY <1>inv, <3>1 DEF TypeOK
  <2>4. TypeOK'
    BY <1>inv, <2>2, <2>3 DEF TypeOK
  <2>5. InRange' /\ PrintedInRange'
    BY <1>inv DEF InRange, PrintedInRange
  <2>6. AcceptedInRange'
    BY <1>inv DEF TypeOK, AcceptedInRange
  <2>7. StreamOwned'
    BY <1>inv DEF TypeOK, StreamOwned
  <2> QED
    BY <2>4, <2>5, <2>6, <2>7 DEF GimbleInv
<1>4. ASSUME NEW t \in Threads, PrintDuty(t)
      PROVE  GimbleInv'
  <2> DEFINE a == op[t].axis
  <2>1. PICK n \in Rounded(a, op[t].new) :
          stream' = [stream EXCEPT ![a] = Append(@, n)]
    BY <1>4 DEF PrintDuty
  <2>2. /\ op[t].stage = "print"
        /\ op' = [op EXCEPT ![t].stage = "flush"]
        /\ UNCHANGED <<device, duty, reply>>
        /\ a \in Axes
    BY <1>inv, <1>4 DEF PrintDuty, TypeOK, Ops
  <2>3. n \in DutyMin .. DutyMin + DutyRange /\ n \in Int
    BY <1>inv, <1>int, <2>1, <2>2, RoundedInRange DEF AcceptedInRange
  <2>4. TypeOK'
    <3>1. stream' \in [Axes -> Seq(Int)]
      BY <1>inv, <2>1, <2>2, <2>3 DEF TypeOK
    <3>2. op' \in [Threads -> Ops]
      BY <1>inv, <2>2, StageType DEF TypeOK, Stages
    <3> QED
      BY <1>inv, <2>2, <3>1, <3>2 DEF TypeOK
  <2>5. InRange' /\ AcceptedInRange'
    <3>1. InRange'
      BY <1>inv, <2>2 DEF InRange
    <3>2. AcceptedInRange'
      BY <1>inv, <2>2 DEF TypeOK, AcceptedInRange
    <3> QED
      BY <3>1, <3>2
  <2>6. PrintedInRange'
    <3> SUFFICES ASSUME NEW b \in Axes, NEW i \in DOMAIN stream'[b]
                 PROVE  stream'[b][i] \in DutyMin .. DutyMin + DutyRange
      BY DEF PrintedInRange
    <3>1. stream[b] \in Seq(Int)
      BY <1>inv DEF TypeOK
    <3>2. CASE b # a
      BY <1>inv, <2>1, <2>2, <3>2 DEF TypeOK, PrintedInRange
    <3>3. CASE b = a
      <4>1. stream'[b] = Append(stream[b], n)
        BY <1>inv, <2>1, <2>2, <3>3 DEF TypeOK
      <4> QED
        BY <1>inv, <2>3, <3>1, <4>1 DEF PrintedInRange
    <3> QED
      BY <3>2, <3>3
  <2>7. StreamOwned'
    BY <1>inv, <2>1, <2>2 DEF TypeOK, StreamOwned
  <2> QED
    BY <2>4, <2>5, <2>6, <2>7 DEF GimbleInv
<1>5. ASSUME NEW t \in Threads, Flush(t)
      PROVE  GimbleInv'
  <2> DEFINE a == op[t].axis
  <2>1. /\ op[t].stage = "flush"
        /\ device' = [device EXCEPT ![a] =
                        IF Accepted(stream[a]) THEN stream[a][1] ELSE @]
        /\ stream' = [stream EXCEPT ![a] = <<>>]
        /\ op' = [op EXCEPT ![t].stage = "record"]
        /\ UNCHANGED <<duty, reply>>
        /\ a \in Axes
    BY <1>inv, <1>5 DEF Flush, TypeOK, Ops
  <2>2. Accepted(stream[a]) =>
          stream[a][1] \in DutyMin .. DutyMin + DutyRange
    BY <1>inv, <2>1 DEF Accepted, PrintedInRange, TypeOK
  <2>3. InRange'
    BY <1>inv, <2>1, <2>2 DEF TypeOK, InRange
  <2>4. TypeOK'
    <3>1. device' \in [Axes -> Int]
      BY <1>inv, <1>int, <2>1, <2>2 DEF TypeOK
    <3>2. stream' \in [Axes -> Seq(Int)]
      BY <1>inv, <2>1 DEF TypeOK
    <3>3. op' \in [Threads -> Ops]
      BY <1>inv, <2>1, StageType DEF TypeOK, Stages
    <3> QED
      BY <1>inv, <2>1, <3>1, <3>2, <3>3 DEF TypeOK
  <2>5. AcceptedInRange'
    <3>1. \A u \in Threads :
            op'[u].stage \in {"print", "flush", "record"} =>
              /\ op[u].stage \in {"print", "flush", "record"}
              /\ op'[u].new = op[u].new /\ op'[u].axis = op[u].axis
      BY <1>inv, <2>1 DEF TypeOK, Ops
    <3> QED
      BY <1>inv, <3>1 DEF AcceptedInRange
  <2>6. PrintedInRange'
    BY <1>inv, <2>1 DEF TypeOK, PrintedInRange
  <2>7. StreamOwned'
    BY <1>inv, <2>1 DEF TypeOK, StreamOwned
  <2> QED
    BY <2>3, <2>4, <2>5, <2>6, <2>7 DEF GimbleInv
<1>6. ASSUME NEW t \in Threads, Record(t)
      PROVE  GimbleInv'
  <2> DEFINE a == op[t].axis
  <2>1. /\ op[t].stage = "record"
        /\ duty' = [duty EXCEPT ![a] = op[t].new]
        /\ op' = [op EXCEPT ![t].stage = "idle"]
        /\ reply' = [reply EXCEPT ![t] = Answer("OK", 0)]
        /\ UNCHANGED <<stream, device>>
        /\ a \in Axes
    BY <1>inv, <1>6 DEF Record, Finish, TypeOK, Ops
  <2>2. op[t].new \in Lowest(a) .. Highest(a)
    BY <1>inv, <2>1 DEF AcceptedInRange
  <2>3. InRange'
    BY <1>inv, <2>1, <2>2 DEF TypeOK, InRange
  <2>4. TypeOK'
    <3>1. Answer("OK", 0) \in Answers
      BY DEF Answer, Answers
    <3>2. reply' \in [Threads -> Answers]
      BY <1>inv, <2>1, <3>1 DEF TypeOK
    <3>3. duty' \in [Axes -> Int \cup {NaN}]
      BY <1>inv, <2>1 DEF TypeOK, Ops
    <3>4. op' \in [Threads -> Ops]
      BY <1>inv, <2>1, StageType DEF TypeOK, Stages
    <3> QED
      BY <1>inv, <2>1, <3>2, <3>3, <3>4 DEF TypeOK
  <2>5. AcceptedInRange'
    BY <1>inv, <2>1 DEF TypeOK, AcceptedInRange
  <2>6. PrintedInRange'
    BY <1>inv, <2>1 DEF PrintedInRange
  <2>7. StreamOwned'
    BY <1>inv, <2>1 DEF TypeOK, StreamOwned
  <2> QED
    BY <2>3, <2>4, <2>5, <2>6, <2>7 DEF GimbleInv
<1>7. CASE UNCHANGED gimbleVars
  BY <1>inv, <1>7 DEF gimbleVars, GimbleInv, TypeOK, InRange, AcceptedInRange,
                      PrintedInRange, StreamOwned
<1> QED
  BY <1>1, <1>2, <1>3, <1>4, <1>5, <1>6, <1>7 DEF Next, Step

(* The argument for the servos' safety holds in every reachable state. *)
THEOREM GimbleInvariant == NoNaN /\ Spec => []GimbleInv
<1> SUFFICES ASSUME NoNaN PROVE Spec => []GimbleInv
  OBVIOUS
<1>1. GimbleInv /\ [Next]_gimbleVars => GimbleInv'
  BY GimbleInvStep
<1> QED
  BY <1>1, GimbleInvInit, PTL DEF Spec

(* Whatever is commanded and however the calls of any number of threads
   interleave, no servo is driven out of its range. *)
THEOREM ServosInRange == NoNaN /\ Spec => []InRange
<1>1. GimbleInv => InRange
  BY DEF GimbleInv
<1> QED
  BY <1>1, GimbleInvariant, PTL

(* Once every call has returned no duty is left in a stream. *)
THEOREM StreamsAreFlushed == NoNaN /\ Spec => []StreamsFlushed
<1>1. GimbleInv => StreamsFlushed
  BY DEF GimbleInv, TypeOK, StreamOwned, StreamsFlushed, AllIdle
<1> QED
  BY <1>1, GimbleInvariant, PTL

(* Types, and with them: every answer is a word of the protocol. *)
THEOREM GimbleTypes == NoNaN /\ Spec => []TypeOK
<1>1. GimbleInv => TypeOK
  BY DEF GimbleInv
<1> QED
  BY <1>1, GimbleInvariant, PTL

-----------------------------------------------------------------------------
(* Threads that take turns. *)

NoGarbage == Garbage \notin SetArgs \cup StepArgs

-----------------------------------------------------------------------------
(* The inductive invariant. *)

Wait == Answer("pending", 0)

(* A call awaits its answer as long as it is under way; only a call that moves
   comes past its check. *)
Pairing ==
  \A t \in Threads :
    /\ op[t].stage = "idle" <=> reply[t] # Wait
    /\ op[t].stage # "idle" => op[t].kind \in {"set", "step", "get"}
    /\ op[t].stage \in {"print", "flush", "record"} => op[t].kind \in {"set", "step"}

(* What waits in a stream is the duty of the call that is about to flush it. *)
Waiting ==
  \A t \in Threads :
    op[t].stage = "flush" =>
      stream[op[t].axis] = <<op[t].new \div Span[op[t].axis]>>

(* What the driver applies is the duty that is about to be recorded. *)
Applied ==
  \A t \in Threads :
    op[t].stage = "record" =>
      device[op[t].axis] = op[t].new \div Span[op[t].axis]

Settled ==
  \A a \in Axes :
    \/ device[a] = duty[a] \div Span[a]
    \/ \E t \in Threads : op[t].stage = "record" /\ op[t].axis = a

(* An axis stands at a whole degree of its range. *)
Pos(a) == DegOf(a, duty[a])

Whole ==
  \A a \in Axes : Pos(a) \in 0 .. Span[a] /\ duty[a] = DutyOf(a, Pos(a))

(* A call that was accepted is on its way to the degree it was asked for. *)
Goal(t) ==
  IF op[t].kind = "step" THEN Pos(op[t].axis) + op[t].arg ELSE op[t].arg

Heading ==
  \A t \in Threads :
    op[t].stage \in {"print", "flush", "record"} =>
      /\ Goal(t) \in 0 .. Span[op[t].axis]
      /\ op[t].new = DutyOf(op[t].axis, Goal(t))

TakingTurns == Alone /\ Waiting /\ Applied /\ Settled /\ Whole /\ Heading

TurnsInv == GimbleInv /\ Pairing /\ (~overlapped => TakingTurns)

-----------------------------------------------------------------------------
(* Degrees and duties. *)

LEMMA DivExact ==
  ASSUME NEW x \in Int, NEW r \in Nat \ {0}
  PROVE  (x * r) \div r = x
<1> DEFINE q == (x * r) \div r
<1>1. x * r \in Int
  OBVIOUS
<1>2. q \in Int /\ r * q <= x * r /\ x * r < r * q + r
  BY <1>1
<1> HIDE DEF q
<1>3. q <= x
  <2> SUFFICES ASSUME q >= x + 1 PROVE FALSE
    BY <1>2
  <2>1. r * q >= r * (x + 1)
    BY <1>2
  <2> QED
    BY <2>1, <1>2
<1>4. q >= x
  <2> SUFFICES ASSUME q + 1 <= x PROVE FALSE
    BY <1>2
  <2>1. r * (q + 1) <= r * x
    BY <1>2
  <2> QED
    BY <2>1, <1>2
<1> QED
  BY <1>2, <1>3, <1>4 DEF q

(* The duty of a whole degree gives the degree back. *)
LEMMA DegOfDutyOf ==
  ASSUME NEW a \in Axes, NEW x \in Int
  PROVE  /\ DutyOf(a, x) \in Int
         /\ DutyOf(a, x) = x * DutyRange + Lowest(a)
         /\ DegOf(a, DutyOf(a, x)) = x
<1>1. DutyRange \in Nat \ {0} /\ Lowest(a) \in Int /\ x # NaN
  BY GimbleAssumption DEF Lowest
<1> DEFINE i == x * DutyRange
<1>2. i \in Int
  BY <1>1
<1>3. DutyIncr(x) = i
  BY <1>1 DEF DutyIncr
<1> HIDE DEF i
<1>4. NaN \notin {i, Lowest(a)}
  BY <1>1, <1>2, GimbleAssumption
<1>5. DutyOf(a, x) = i + Lowest(a)
  BY <1>3, <1>4 DEF DutyOf, Plus
<1>6. i + Lowest(a) \in Int /\ i + Lowest(a) # NaN
  BY <1>1, <1>2, GimbleAssumption
<1>7. i + Lowest(a) - Lowest(a) = i
  BY <1>1, <1>2
<1>8. DegOf(a, i + Lowest(a)) = i \div DutyRange
  <2> DEFINE d == i + Lowest(a)
  <2>1. d # NaN /\ d - Lowest(a) = i
    BY <1>1, <1>2, <1>6, <1>7
  <2> HIDE DEF d
  <2>2. DegOf(a, d) = i \div DutyRange
    BY <2>1 DEF DegOf
  <2> QED
    BY <2>2 DEF d
<1> QED
  BY <1>1, <1>5, <1>6, <1>8, DivExact DEF i

(* A step of y degrees from the duty of degree x ends at that of x + y. *)
LEMMA StepDuty ==
  ASSUME NEW a \in Axes, NEW x \in Int, NEW y \in Int
  PROVE  Plus(DutyIncr(y), DutyOf(a, x)) = DutyOf(a, x + y)
<1>1. DutyRange \in Nat /\ Lowest(a) \in Int
  BY GimbleAssumption DEF Lowest
<1>2. /\ DutyOf(a, x) = x * DutyRange + Lowest(a)
      /\ DutyOf(a, x + y) = (x + y) * DutyRange + Lowest(a)
  BY DegOfDutyOf
<1>3. DutyIncr(y) = y * DutyRange
  BY GimbleAssumption DEF DutyIncr
<1>4. y * DutyRange \in Int /\ x * DutyRange + Lowest(a) \in Int
  BY <1>1
<1>5. Plus(y * DutyRange, x * DutyRange + Lowest(a))
        = y * DutyRange + (x * DutyRange + Lowest(a))
  BY <1>4, GimbleAssumption DEF Plus
<1>6. (x + y) * DutyRange = x * DutyRange + y * DutyRange
  BY <1>1
<1>7. ASSUME NEW u \in Int, NEW v \in Int, NEW w \in Int
      PROVE  v + (u + w) = u + v + w
  OBVIOUS
<1>8. y * DutyRange + (x * DutyRange + Lowest(a))
        = x * DutyRange + y * DutyRange + Lowest(a)
  <2>1. x * DutyRange \in Int /\ y * DutyRange \in Int
    BY <1>1
  <2> QED
    BY <1>1, <2>1, <1>7
<1> QED
  BY <1>2, <1>3, <1>5, <1>6, <1>8

(* Duties are in range exactly when their degrees are. *)
LEMMA DutyOutside ==
  ASSUME NEW a \in Axes, NEW x \in Int
  PROVE  /\ Outside(DutyOf(a, x), Lowest(a), Highest(a)) <=> x \notin 0 .. Span[a]
         /\ Outside(x, 0, Span[a]) <=> x \notin 0 .. Span[a]
<1>1. /\ DutyRange \in Nat \ {0}
      /\ Span[a] \in Nat
      /\ DutyMin \in Nat
      /\ Lowest(a) \in Int
      /\ x # NaN
  BY GimbleAssumption DEF Lowest
<1>2. Outside(x, 0, Span[a]) <=> x \notin 0 .. Span[a]
  BY <1>1 DEF Outside
<1> DEFINE i == x * DutyRange
           s == Span[a] * DutyRange
<1>3. i \in Int /\ s \in Int
  BY <1>1
<1>4. Highest(a) = Lowest(a) + s
  BY <1>1 DEF Lowest, Highest
<1>5. DutyOf(a, x) = i + Lowest(a) /\ DutyOf(a, x) # NaN
  BY DegOfDutyOf, GimbleAssumption
<1>6. i < 0 <=> x < 0
  BY <1>1
<1>7. i > s <=> x > Span[a]
  <2>1. ASSUME x > Span[a] PROVE i > s
    <3>1. x >= Span[a] + 1
      BY <1>1, <2>1
    <3>2. i >= (Span[a] + 1) * DutyRange
      BY <1>1, <3>1
    <3>3. (Span[a] + 1) * DutyRange = s + DutyRange
      BY <1>1
    <3> HIDE DEF i, s
    <3> QED
      BY <1>1, <1>3, <3>2, <3>3
  <2>2. ASSUME x <= Span[a] PROVE i <= s
    BY <1>1, <2>2
  <2> HIDE DEF i, s
  <2> QED
    BY <1>1, <1>3, <2>1, <2>2
<1> HIDE DEF i, s
<1>8. Outside(i + Lowest(a), Lowest(a), Lowest(a) + s) <=> i < 0 \/ i > s
  BY <1>1, <1>3, <1>5 DEF Outside
<1> QED
  BY <1>1, <1>2, <1>4, <1>5, <1>6, <1>7, <1>8

-----------------------------------------------------------------------------
(* The mount of PanTilt, seen in the state of Gimble. *)

Asked == [t \in Threads |-> [kind |-> op[t].kind, axis |-> op[t].axis,
                             arg |-> op[t].arg]]

Where == [a \in Axes |-> Pos(a)]

(* A step of thread t in which the others do nothing. *)
OthersRest(t) ==
  /\ \A u \in Threads \ {t} : op[u].stage = "idle" /\ op'[u] = op[u]
  /\ \A u \in Threads \ {t} : reply'[u] = reply[u]
  /\ op' \in [Threads -> Ops] /\ reply' \in [Threads -> Answers]

(* A thread under way is the only one, as long as they take turns. *)
LEMMA OthersIdle ==
  ASSUME Alone, NEW t \in Threads, op[t].stage # "idle"
  PROVE  \A u \in Threads \ {t} : op[u].stage = "idle"
BY DEF Alone, UnderWay

(* Nothing that callers can see changes while a call is only on its way. *)
LEMMA OnItsWay ==
  ASSUME NEW t \in Threads, OthersRest(t), TypeOK,
         op'[t].kind = op[t].kind, op'[t].axis = op[t].axis,
         op'[t].arg = op[t].arg, reply' = reply, duty' = duty
  PROVE  UNCHANGED Mount!panTiltVars
<1>1. \A u \in Threads : /\ op'[u].kind = op[u].kind
                         /\ op'[u].axis = op[u].axis
                         /\ op'[u].arg = op[u].arg
  BY DEF OthersRest
<1>2. Asked' = Asked
  BY <1>1 DEF Asked
<1>3. Where' = Where
  BY DEF Where, Pos
<1> QED
  BY <1>2, <1>3 DEF Asked, Where, Pos, Mount!panTiltVars

(* Arguments are numbers. *)
LEMMA ArgIsInt ==
  ASSUME NoNaN, NoGarbage, TypeOK, NEW t \in Threads
  PROVE  op[t].arg \in Int /\ strtod(op[t].arg) = op[t].arg
<1>1. op[t].arg \in SetArgs \cup StepArgs \cup {0}
  BY DEF TypeOK, Ops
<1>2. op[t].arg \in Int
  BY <1>1, GimbleAssumption DEF NoNaN, NoGarbage, Number
<1> QED
  BY <1>2, GimbleAssumption DEF strtod

-----------------------------------------------------------------------------
(* One lemma per action, for threads that take turns. *)

LEMMA StillAlone ==
  ASSUME NEW t \in Threads, OthersRest(t)
  PROVE  Alone'
BY DEF OthersRest, Alone, UnderWay

(* What PrintDuty, Flush and Record say of the threads. *)
LEMMA StageStep ==
  ASSUME GimbleInv, Alone, NEW t \in Threads, NEW s \in Stages,
         op[t].stage # "idle",
         op' = [op EXCEPT ![t].stage = s],
         reply' \in [Threads -> Answers],
         \A u \in Threads \ {t} : reply'[u] = reply[u]
  PROVE  /\ OthersRest(t)
         /\ op'[t].stage = s
         /\ op'[t].kind = op[t].kind /\ op'[t].axis = op[t].axis
         /\ op'[t].arg = op[t].arg /\ op'[t].new = op[t].new
         /\ op[t].axis \in Axes
         /\ DOMAIN op = Threads
<1>1. op \in [Threads -> Ops]
  BY DEF GimbleInv, TypeOK
<1>2. op' \in [Threads -> Ops]
  BY <1>1, StageType
<1>3. \A u \in Threads \ {t} : op[u].stage = "idle" /\ op'[u] = op[u]
  BY <1>1, OthersIdle
<1>4. OthersRest(t)
  BY <1>2, <1>3 DEF OthersRest
<1> QED
  BY <1>1, <1>4 DEF Ops

LEMMA PrintTurn ==
  ASSUME NoNaN, GimbleInv, TakingTurns, NEW t \in Threads, PrintDuty(t)
  PROVE  TakingTurns' /\ UNCHANGED Mount!panTiltVars
<1> DEFINE a == op[t].axis
<1> USE DEF TakingTurns
<1>1. /\ op[t].stage = "print"
      /\ op' = [op EXCEPT ![t].stage = "flush"]
      /\ UNCHANGED <<device, duty, reply>>
  BY DEF PrintDuty
<1>2. TypeOK
  BY DEF GimbleInv
<1>3. /\ OthersRest(t)
      /\ op'[t].stage = "flush"
      /\ op'[t].kind = op[t].kind /\ op'[t].axis = a
      /\ op'[t].arg = op[t].arg /\ op'[t].new = op[t].new
      /\ a \in Axes
  BY <1>1, <1>2, StageStep DEF TypeOK, Stages
<1>4. stream[a] = <<>>
  <2>1. ~\E u \in Threads : op[u].stage = "flush" /\ op[u].axis = a
    BY <1>1, <1>3 DEF OthersRest
  <2> QED
    BY <1>3, <2>1 DEF GimbleInv, StreamOwned
<1>5. Rounded(a, op[t].new) = {op[t].new \div Span[a]}
  <2>1. op[t].new \in Lowest(a) .. Highest(a)
    BY <1>1 DEF GimbleInv, AcceptedInRange
  <2>2. op[t].new # NaN
    BY <2>1, GimbleAssumption
  <2> QED
    BY <2>2 DEF Rounded
<1>6. stream'[a] = <<op[t].new \div Span[a]>>
  <2>1. stream' = [stream EXCEPT ![a] = Append(@, op[t].new \div Span[a])]
    BY <1>5 DEF PrintDuty
  <2> QED
    BY <1>2, <1>3, <1>4, <2>1 DEF TypeOK
<1>7. Waiting'
  BY <1>3, <1>6 DEF Waiting, OthersRest
<1>8. Applied' /\ Settled'
  BY <1>1, <1>3 DEF Applied, Settled, OthersRest
<1>9. Whole'
  BY <1>1 DEF Whole, Pos
<1>10. Heading'
  BY <1>1, <1>3 DEF Heading, Goal, Pos, OthersRest
<1> QED
  BY <1>1, <1>2, <1>3, <1>7, <1>8, <1>9, <1>10, StillAlone, OnItsWay

LEMMA FlushTurn ==
  ASSUME NoNaN, GimbleInv, TakingTurns, NEW t \in Threads, Flush(t)
  PROVE  TakingTurns' /\ UNCHANGED Mount!panTiltVars
<1> DEFINE a == op[t].axis
           n == op[t].new \div Span[a]
<1> USE DEF TakingTurns
<1>1. /\ op[t].stage = "flush"
      /\ op' = [op EXCEPT ![t].stage = "record"]
      /\ device' = [device EXCEPT ![a] =
                      IF Accepted(stream[a]) THEN stream[a][1] ELSE @]
      /\ stream' = [stream EXCEPT ![a] = <<>>]
      /\ UNCHANGED <<duty, reply>>
  BY DEF Flush
<1>2. TypeOK
  BY DEF GimbleInv
<1>3. /\ OthersRest(t)
      /\ op'[t].stage = "record"
      /\ op'[t].kind = op[t].kind /\ op'[t].axis = a
      /\ op'[t].arg = op[t].arg /\ op'[t].new = op[t].new
      /\ a \in Axes
  BY <1>1, <1>2, StageStep DEF TypeOK, Stages
<1>4. stream[a] = <<n>>
  BY <1>1 DEF Waiting
<1>5. n \in DutyMin .. DutyMin + DutyRange
  <2>1. 1 \in DOMAIN stream[a] /\ stream[a][1] = n
    BY <1>4
  <2> QED
    BY <1>3, <2>1 DEF GimbleInv, PrintedInRange
<1>6. n >= 0
  BY <1>5, GimbleAssumption
<1> HIDE DEF n
<1>7. device' = [device EXCEPT ![a] = n]
  BY <1>1, <1>4, <1>6 DEF Accepted
<1>8. device'[a] = n /\ \A b \in Axes \ {a} : device'[b] = device[b]
  BY <1>2, <1>3, <1>7 DEF TypeOK
<1>9. Waiting'
  BY <1>3 DEF Waiting, OthersRest
<1>10. Applied'
  BY <1>3, <1>8 DEF Applied, OthersRest, n
<1>11. Settled'
  <2> SUFFICES ASSUME NEW b \in Axes, b # a
               PROVE  device'[b] = duty'[b] \div Span[b]
    BY <1>3 DEF Settled
  <2>1. ~\E u \in Threads : op[u].stage = "record" /\ op[u].axis = b
    BY <1>1, <1>3 DEF OthersRest
  <2> QED
    BY <1>1, <1>8, <2>1 DEF Settled
<1>12. Whole'
  BY <1>1 DEF Whole, Pos
<1>13. Heading'
  BY <1>1, <1>3 DEF Heading, Goal, Pos, OthersRest
<1> QED
  BY <1>1, <1>2, <1>3, <1>9, <1>10, <1>11, <1>12, <1>13, StillAlone, OnItsWay

(* A call is recorded: the axis moves to the degree it was asked for. *)
LEMMA RecordTurn ==
  ASSUME NoNaN, NoGarbage, GimbleInv, Pairing, TakingTurns,
         NEW t \in Threads, Record(t)
  PROVE  TakingTurns' /\ Mount!Move(t)
<1> DEFINE a == op[t].axis
<1> USE DEF TakingTurns
<1>1. /\ op[t].stage = "record"
      /\ op' = [op EXCEPT ![t].stage = "idle"]
      /\ duty' = [duty EXCEPT ![a] = op[t].new]
      /\ reply' = [reply EXCEPT ![t] = Answer("OK", 0)]
      /\ UNCHANGED <<stream, device>>
  BY DEF Record, Finish
<1>2. TypeOK
  BY DEF GimbleInv
<1>3. /\ reply' \in [Threads -> Answers]
      /\ \A u \in Threads \ {t} : reply'[u] = reply[u]
  BY <1>1, <1>2 DEF TypeOK, Answer, Answers
<1>4. /\ OthersRest(t)
      /\ op'[t].stage = "idle"
      /\ op'[t].kind = op[t].kind /\ op'[t].axis = a
      /\ op'[t].arg = op[t].arg
      /\ a \in Axes
  BY <1>1, <1>3, StageStep DEF Stages
<1>5. duty'[a] = op[t].new /\ \A b \in Axes \ {a} : duty'[b] = duty[b]
  BY <1>1, <1>2, <1>4 DEF TypeOK
<1>6. Goal(t) \in 0 .. Span[a] /\ op[t].new = DutyOf(a, Goal(t))
  BY <1>1 DEF Heading
<1>7. DegOf(a, duty'[a]) = Goal(t)
  <2>1. Goal(t) \in Int
    BY <1>4, <1>6, GimbleAssumption
  <2> QED
    BY <1>4, <1>5, <1>6, <2>1, DegOfDutyOf
<1>8. \A b \in Axes \ {a} : DegOf(b, duty'[b]) = Pos(b)
  BY <1>5 DEF Pos
<1>9. Waiting' /\ Applied' /\ Heading'
  BY <1>4 DEF Waiting, Applied, Heading, OthersRest
<1>10. Settled'
  <2> SUFFICES ASSUME NEW b \in Axes PROVE device'[b] = duty'[b] \div Span[b]
    BY DEF Settled
  <2>1. CASE b = a
    BY <1>1, <1>5, <2>1 DEF Applied
  <2>2. CASE b # a
    <3>1. ~\E u \in Threads : op[u].stage = "record" /\ op[u].axis = b
      BY <2>2, <1>4 DEF OthersRest
    <3> QED
      BY <1>1, <1>5, <2>2, <3>1 DEF Settled
  <2> QED
    BY <2>1, <2>2
<1>11. Whole'
  <2> SUFFICES ASSUME NEW b \in Axes
               PROVE  /\ DegOf(b, duty'[b]) \in 0 .. Span[b]
                      /\ duty'[b] = DutyOf(b, DegOf(b, duty'[b]))
    BY DEF Whole, Pos
  <2>1. CASE b = a
    BY <1>5, <1>6, <1>7, <2>1
  <2>2. CASE b # a
    BY <1>5, <1>8, <2>2 DEF Whole
  <2> QED
    BY <2>1, <2>2
<1>12. Mount!Move(t)
  <2>1. reply[t] = Wait /\ op[t].kind \in {"set", "step"}
    BY <1>1, <1>2 DEF Pairing, TypeOK
  <2>2. Asked[t] = [kind |-> op[t].kind, axis |-> a, arg |-> op[t].arg]
    BY DEF Asked
  <2>3. Where[a] = Pos(a)
    BY <1>4 DEF Where
  <2>4. Where' = [Where EXCEPT ![a] = Goal(t)]
    BY <1>4, <1>7, <1>8 DEF Where, Pos
  <2>5. Asked' = Asked
    <3>1. \A u \in Threads : /\ op'[u].kind = op[u].kind
                             /\ op'[u].axis = op[u].axis
                             /\ op'[u].arg = op[u].arg
      BY <1>4 DEF OthersRest
    <3> QED
      BY <3>1 DEF Asked
  <2>6. /\ Asked[t].axis = a /\ Asked[t].kind \in {"set", "step"}
        /\ Goal(t) = IF Asked[t].kind = "step" THEN Where[Asked[t].axis] + Asked[t].arg
                     ELSE Asked[t].arg
    BY <2>1, <2>2, <2>3 DEF Goal
  <2> HIDE DEF a
  <2>7. /\ reply[t] = Mount!Pending
        /\ reply' = [reply EXCEPT ![t] = Mount!Answer("OK", 0)]
    BY <1>1, <2>1 DEF Wait, Answer, Mount!Pending, Mount!Answer
  <2> QED
    BY <1>6, <2>4, <2>5, <2>6, <2>7 DEF Mount!Move, Mount!Goal, Asked, Where, Pos
<1> QED
  BY <1>4, <1>9, <1>10, <1>11, <1>12, StillAlone

(* The check of a call that moves accepts exactly the degrees of the range. *)
LEMMA CheckDecides ==
  ASSUME NoNaN, NoGarbage, TypeOK, Whole, NEW t \in Threads,
         CheckSet(t) \/ CheckStep(t)
  PROVE  /\ Goal(t) \in Int
         /\ op[t].kind \in {"set", "step"} /\ op[t].stage = "check"
         /\ UNCHANGED <<stream, device, duty>>
         /\ \/ /\ Goal(t) \notin 0 .. Span[op[t].axis]
               /\ Finish(t, Answer("OOR", 0))
            \/ /\ Goal(t) \in 0 .. Span[op[t].axis]
               /\ Accept(t, DutyOf(op[t].axis, Goal(t)))
<1> DEFINE a == op[t].axis
           x == op[t].arg
<1>1. x \in Int /\ strtod(x) = x /\ a \in Axes
  BY ArgIsInt DEF TypeOK, Ops
<1>2. CASE CheckSet(t)
  <2>1. Goal(t) = x /\ op[t].kind = "set" /\ op[t].stage = "check"
    BY <1>2 DEF CheckSet, At, Goal
  <2>2. \/ Outside(x, 0, Span[a]) /\ Finish(t, Answer("OOR", 0))
        \/ ~Outside(x, 0, Span[a]) /\ Accept(t, DutyOf(a, x))
    BY <1>1, <1>2 DEF CheckSet
  <2>3. UNCHANGED <<stream, device, duty>>
    BY <1>2 DEF CheckSet
  <2> HIDE DEF a, x
  <2>4. Outside(x, 0, Span[a]) <=> x \notin 0 .. Span[a]
    BY <1>1, DutyOutside
  <2> QED
    BY <1>1, <2>1, <2>2, <2>3, <2>4 DEF a
<1>3. CASE CheckStep(t)
  <2> DEFINE y == Pos(a) + x
  <2>1. /\ Goal(t) = y
        /\ op[t].kind = "step" /\ op[t].stage = "check"
        /\ UNCHANGED <<stream, device, duty>>
    BY <1>3 DEF CheckStep, At, Goal
  <2>2. Pos(a) \in Int /\ duty[a] = DutyOf(a, Pos(a))
    BY <1>1, GimbleAssumption DEF Whole
  <2>3. Plus(DutyIncr(x), duty[a]) = DutyOf(a, y)
    BY <1>1, <2>2, StepDuty
  <2>4. \/ Outside(DutyOf(a, y), Lowest(a), Highest(a)) /\ Finish(t, Answer("OOR", 0))
        \/ ~Outside(DutyOf(a, y), Lowest(a), Highest(a)) /\ Accept(t, DutyOf(a, y))
    BY <1>1, <1>3, <2>3 DEF CheckStep
  <2>5. y \in Int
    BY <1>1, <2>2
  <2> HIDE DEF a, x, y
  <2>6. Outside(DutyOf(a, y), Lowest(a), Highest(a)) <=> y \notin 0 .. Span[a]
    BY <1>1, <2>5, DutyOutside
  <2> QED
    BY <2>1, <2>4, <2>5, <2>6 DEF a
<1> QED
  BY <1>2, <1>3

(* A call is accepted, on its way, or refused. *)
LEMMA CheckTurn ==
  ASSUME NoNaN, NoGarbage, GimbleInv, Pairing, TakingTurns,
         NEW t \in Threads, CheckSet(t) \/ CheckStep(t)
  PROVE  /\ TakingTurns'
         /\ Mount!Refuse(t) \/ UNCHANGED Mount!panTiltVars
<1> DEFINE a == op[t].axis
           g == Goal(t)
<1> USE DEF TakingTurns
<1>1. TypeOK
  BY DEF GimbleInv
<1>2. /\ g \in Int
      /\ op[t].kind \in {"set", "step"} /\ op[t].stage = "check"
      /\ UNCHANGED <<stream, device, duty>>
      /\ \/ g \notin 0 .. Span[a] /\ Finish(t, Answer("OOR", 0))
         \/ g \in 0 .. Span[a] /\ Accept(t, DutyOf(a, g))
  BY <1>1, CheckDecides
<1>3. op[t] \in Ops /\ a \in Axes /\ DOMAIN op = Threads
  BY <1>1 DEF TypeOK, Ops
<1>4. Whole'
  BY <1>2 DEF Whole, Pos
<1>5. CASE g \notin 0 .. Span[a] /\ Finish(t, Answer("OOR", 0))
  <2>1. /\ op' = [op EXCEPT ![t].stage = "idle"]
        /\ reply' = [reply EXCEPT ![t] = Answer("OOR", 0)]
    BY <1>5 DEF Finish
  <2>2. /\ reply' \in [Threads -> Answers]
        /\ \A u \in Threads \ {t} : reply'[u] = reply[u]
    BY <1>1, <2>1 DEF TypeOK, Answer, Answers
  <2>3. /\ OthersRest(t)
        /\ op'[t].stage = "idle"
        /\ op'[t].kind = op[t].kind /\ op'[t].axis = a
        /\ op'[t].arg = op[t].arg
    BY <1>2, <2>1, <2>2, StageStep DEF Stages
  <2>4. Waiting' /\ Applied' /\ Heading'
    BY <2>3 DEF Waiting, Applied, Heading, OthersRest
  <2>5. Settled'
    BY <1>2, <2>3 DEF Settled, OthersRest
  <2>6. Asked' = Asked
    <3>1. \A u \in Threads : /\ op'[u].kind = op[u].kind
                             /\ op'[u].axis = op[u].axis
                             /\ op'[u].arg = op[u].arg
      BY <2>3 DEF OthersRest
    <3> QED
      BY <3>1 DEF Asked
  <2>7. Where' = Where
    BY <1>2 DEF Where, Pos
  <2>8. reply[t] = Wait
    BY <1>2 DEF Pairing
  <2>9. /\ Asked[t].axis = a /\ Asked[t].kind \in {"set", "step"}
        /\ g = IF Asked[t].kind = "step" THEN Where[Asked[t].axis] + Asked[t].arg
               ELSE Asked[t].arg
    BY <1>2, <1>3 DEF Asked, Where, Goal
  <2>10. /\ reply[t] = Mount!Pending
         /\ reply' = [reply EXCEPT ![t] = Mount!Answer("OOR", 0)]
    BY <2>1, <2>8 DEF Wait, Answer, Mount!Pending, Mount!Answer
  <2> HIDE DEF a, g
  <2>11. Mount!Refuse(t)
    BY <1>5, <2>6, <2>7, <2>9, <2>10 DEF Mount!Refuse, Mount!Goal, Asked, Where, Pos
  <2> QED
    BY <1>4, <2>3, <2>4, <2>5, <2>11, StillAlone
<1>6. CASE g \in 0 .. Span[a] /\ Accept(t, DutyOf(a, g))
  <2>1. op' = [op EXCEPT ![t].stage = "print", ![t].new = DutyOf(a, g)] /\ reply' = reply
    BY <1>6 DEF Accept
  <2>2. DutyOf(a, g) \in Int
    BY <1>2, <1>3, DegOfDutyOf
  <2>3. /\ op'[t] \in Ops
        /\ op'[t].stage = "print" /\ op'[t].new = DutyOf(a, g)
        /\ op'[t].kind = op[t].kind /\ op'[t].axis = a /\ op'[t].arg = op[t].arg
        /\ \A u \in Threads \ {t} : op'[u] = op[u]
        /\ DOMAIN op' = Threads
    <3> HIDE DEF a, g
    <3>1. op'[t] = [op[t] EXCEPT !.stage = "print", !.new = DutyOf(a, g)]
      BY <1>3, <2>1
    <3>2. \A u \in Threads \ {t} : op'[u] = op[u]
      BY <1>3, <2>1
    <3>3. DOMAIN op' = Threads
      BY <1>3, <2>1
    <3> QED
      BY <1>3, <2>2, <3>1, <3>2, <3>3 DEF Ops, Stages, a
  <2>4. OthersRest(t)
    <3>1. \A u \in Threads \ {t} : op[u].stage = "idle"
      BY <1>2, OthersIdle
    <3>2. op' \in [Threads -> Ops]
      <4>1. \A u \in Threads : op'[u] \in Ops
        BY <1>1, <2>3 DEF TypeOK
      <4>2. op' = [u \in Threads |-> op'[u]]
        BY <1>3, <2>1
      <4> QED
        BY <4>1, <4>2
    <3> QED
      BY <1>1, <2>1, <2>3, <3>1, <3>2 DEF OthersRest, TypeOK
  <2>5. Waiting' /\ Applied'
    BY <2>3, <2>4 DEF Waiting, Applied, OthersRest
  <2>6. Settled'
    BY <1>2, <2>3, <2>4 DEF Settled, OthersRest
  <2>7. Goal(t)' = g
    BY <1>2, <2>3 DEF Goal, Pos
  <2>8. Heading'
    BY <1>6, <2>3, <2>4, <2>7 DEF Heading, OthersRest
  <2> QED
    BY <1>1, <1>2, <1>4, <2>1, <2>3, <2>4, <2>5, <2>6, <2>8, StillAlone, OnItsWay
<1> QED
  BY <1>2, <1>5, <1>6

(* getPan and getTilt tell the degree at which the axis stands. *)
LEMMA GetTurn ==
  ASSUME NoNaN, GimbleInv, Pairing, TakingTurns, NEW t \in Threads, GetDeg(t)
  PROVE  TakingTurns' /\ Mount!Tell(t)
<1> DEFINE a == op[t].axis
<1> USE DEF TakingTurns
<1>1. /\ op[t].stage = "check" /\ op[t].kind = "get"
      /\ op' = [op EXCEPT ![t].stage = "idle"]
      /\ reply' = [reply EXCEPT ![t] = Answer("Pos", Pos(a))]
      /\ UNCHANGED <<stream, device, duty>>
  BY DEF GetDeg, At, Finish, Pos
<1>2. TypeOK /\ op[t] \in Ops /\ a \in Axes
  BY DEF GimbleInv, TypeOK, Ops
<1>3. /\ reply' \in [Threads -> Answers]
      /\ \A u \in Threads \ {t} : reply'[u] = reply[u]
  <2>1. Answer("Pos", Pos(a)) \in Answers
    BY <1>2, GimbleAssumption DEF Answer, Answers, Whole
  <2> QED
    BY <1>1, <1>2, <2>1 DEF TypeOK
<1>4. /\ OthersRest(t)
      /\ op'[t].stage = "idle"
      /\ op'[t].kind = op[t].kind /\ op'[t].axis = a
      /\ op'[t].arg = op[t].arg
  BY <1>1, <1>3, StageStep DEF Stages
<1>5. Waiting' /\ Applied' /\ Heading'
  BY <1>4 DEF Waiting, Applied, Heading, OthersRest
<1>6. Settled'
  BY <1>1, <1>4 DEF Settled, OthersRest
<1>7. Whole'
  BY <1>1 DEF Whole, Pos
<1>8. Asked' = Asked
  <2>1. \A u \in Threads : /\ op'[u].kind = op[u].kind
                           /\ op'[u].axis = op[u].axis
                           /\ op'[u].arg = op[u].arg
    BY <1>4 DEF OthersRest
  <2> QED
    BY <2>1 DEF Asked
<1>9. Where' = Where
  BY <1>1 DEF Where, Pos
<1>10. /\ Asked[t].kind = "get" /\ Asked[t].axis = a
       /\ Where[a] = Pos(a)
  BY <1>1, <1>2 DEF Asked, Where
<1>11. reply[t] = Wait
  BY <1>1 DEF Pairing
<1>12. /\ reply[t] = Mount!Pending
       /\ reply' = [reply EXCEPT ![t] = Mount!Answer("Pos", Pos(a))]
  BY <1>1, <1>11 DEF Wait, Answer, Mount!Pending, Mount!Answer
<1> HIDE DEF a
<1>13. Mount!Tell(t)
  BY <1>8, <1>9, <1>10, <1>12 DEF Mount!Tell, Asked, Where, Pos
<1> QED
  BY <1>4, <1>5, <1>6, <1>7, <1>13, StillAlone

(* A call begins while no other is under way. *)
LEMMA CallTurn ==
  ASSUME NoNaN, GimbleInv, Pairing, TakingTurns, Alone',
         NEW t \in Threads, NEW a \in Axes, NEW kind, NEW arg,
         \/ kind = "set" /\ arg \in SetArgs
         \/ kind = "step" /\ arg \in StepArgs
         \/ kind = "get" /\ arg = 0,
         Call(t, kind, a, arg)
  PROVE  TakingTurns' /\ \E request \in Mount!Requests : Mount!Ask(t, request)
<1> DEFINE new == [stage |-> "check", kind |-> kind, axis |-> a, arg |-> arg, new |-> 0]
<1> USE DEF TakingTurns
<1>1. /\ op[t].stage = "idle"
      /\ op' = [op EXCEPT ![t] = new]
      /\ reply' = [reply EXCEPT ![t] = Wait]
      /\ UNCHANGED <<stream, device, duty>>
  BY DEF Call, Wait
<1>2. TypeOK
  BY DEF GimbleInv
<1>3. op'[t] = new /\ \A u \in Threads \ {t} : op'[u] = op[u]
  BY <1>1, <1>2 DEF TypeOK
<1>4. op'[t].stage = "check"
  BY <1>3
<1>5. \A u \in Threads \ {t} : op[u].stage = "idle"
  BY <1>3, <1>4 DEF Alone, UnderWay
<1>6. Waiting' /\ Applied' /\ Heading'
  BY <1>3, <1>4, <1>5 DEF Waiting, Applied, Heading
<1>7. Settled'
  BY <1>1, <1>3, <1>5 DEF Settled
<1>8. Whole'
  BY <1>1 DEF Whole, Pos
<1> DEFINE request == [kind |-> kind, axis |-> a, arg |-> arg]
<1>9. request \in Mount!Requests
  BY DEF Mount!Requests
<1>10. Asked' = [Asked EXCEPT ![t] = request]
  <2>1. Asked'[t] = request
    BY <1>3 DEF Asked
  <2>2. \A u \in Threads \ {t} : Asked'[u] = Asked[u]
    BY <1>3 DEF Asked
  <2> HIDE DEF request
  <2>3. Asked' = [u \in Threads |-> Asked'[u]]
    BY DEF Asked
  <2>4. Asked = [u \in Threads |-> Asked[u]]
    BY DEF Asked
  <2> QED
    BY <2>1, <2>2, <2>3, <2>4
<1>11. Where' = Where
  BY <1>1 DEF Where, Pos
<1>12. reply[t] # Wait
  BY <1>1 DEF Pairing
<1>13. reply[t] # Mount!Pending /\ reply' = [reply EXCEPT ![t] = Mount!Pending]
  BY <1>1, <1>12 DEF Wait, Answer, Mount!Pending, Mount!Answer
<1> HIDE DEF request
<1>14. Mount!Ask(t, request)
  BY <1>10, <1>11, <1>13 DEF Mount!Ask, Asked, Where, Pos
<1> QED
  BY <1>6, <1>7, <1>8, <1>9, <1>14

(* Whether or not threads take turns, calls and answers are paired. *)
LEMMA PairingStep ==
  ASSUME TypeOK, Pairing, [Next]_gimbleVars
  PROVE  Pairing'
<1> USE DEF Pairing
<1>1. op \in [Threads -> Ops] /\ reply \in [Threads -> Answers]
  BY DEF TypeOK
<1>2. ASSUME NEW t \in Threads, NEW a \in Axes, NEW arg,
             NEW kind \in {"set", "step", "get"},
             Call(t, kind, a, arg)
      PROVE  Pairing'
  BY <1>1, <1>2 DEF Call, Wait
<1>3. ASSUME NEW t \in Threads, NEW m \in {"OK", "OOR", "Pos"}, NEW d,
             op[t].stage # "idle", Finish(t, Answer(m, d))
      PROVE  Pairing'
  <2>1. Answer(m, d) # Wait
    BY DEF Answer, Wait
  <2>2. /\ op'[t].stage = "idle"
        /\ \A u \in Threads \ {t} : op'[u] = op[u] /\ reply'[u] = reply[u]
        /\ reply'[t] # Wait
    BY <1>1, <1>3, <2>1 DEF Finish
  <2> QED
    BY <2>2
<1>4. ASSUME NEW t \in Threads, NEW s \in {"print", "flush", "record"}, NEW d,
             op[t].stage # "idle", op[t].kind \in {"set", "step"},
             reply' = reply,
             \/ op' = [op EXCEPT ![t].stage = s]
             \/ op' = [op EXCEPT ![t].stage = s, ![t].new = d]
      PROVE  Pairing'
  <2>1. /\ op'[t].stage = s /\ op'[t].kind = op[t].kind
        /\ \A u \in Threads \ {t} : op'[u] = op[u]
    BY <1>1, <1>4 DEF Ops
  <2> QED
    BY <1>4, <2>1
<1>5. ASSUME NEW t \in Threads, CheckSet(t) \/ CheckStep(t)
      PROVE  Pairing'
  BY <1>3, <1>4, <1>5 DEF CheckSet, CheckStep, At, Accept
<1>6. ASSUME NEW t \in Threads, GetDeg(t) \/ Record(t)
      PROVE  Pairing'
  BY <1>3, <1>6 DEF GetDeg, Record, At
<1>7. ASSUME NEW t \in Threads, PrintDuty(t) \/ Flush(t)
      PROVE  Pairing'
  BY <1>4, <1>7 DEF PrintDuty, Flush
<1>8. CASE UNCHANGED gimbleVars
  BY <1>8 DEF gimbleVars
<1> QED
  BY <1>2, <1>5, <1>6, <1>7, <1>8 DEF Next, Step

-----------------------------------------------------------------------------
(* The theorems. *)

LEMMA TurnsInvInit ==
  ASSUME TurnsInit
  PROVE  TurnsInv /\ Mount!Init
<1> USE DEF TurnsInit, Init
<1>1. GimbleInv
  BY GimbleInvInit
<1>2. \A t \in Threads : op[t] = Idle /\ Idle.stage = "idle"
  BY DEF Idle
<1>3. Pairing
  BY <1>2 DEF Pairing, Answer, Wait
<1>4. Alone /\ Waiting /\ Applied /\ Heading
  BY <1>2 DEF Alone, UnderWay, Waiting, Applied, Heading
<1>5. Settled
  BY DEF Settled
<1>6. \A a \in Axes : /\ StartDeg[a] \in 0 .. Span[a]
                      /\ Pos(a) = StartDeg[a]
  <2> TAKE a \in Axes
  <2>1. StartDeg[a] \in Int /\ StartDeg[a] \in 0 .. Span[a]
    BY GimbleAssumption
  <2>2. DegOf(a, DutyOf(a, StartDeg[a])) = StartDeg[a]
    BY <2>1, DegOfDutyOf
  <2> QED
    BY <2>1, <2>2 DEF Pos
<1>7. Whole
  BY <1>6 DEF Whole
<1>8. Mount!Init
  <2>1. Where = StartDeg
    BY <1>6, GimbleAssumption DEF Where
  <2>2. Asked = [t \in Threads |-> [kind |-> "none", axis |-> CHOOSE a \in Axes : TRUE, arg |-> 0]]
    BY DEF Asked, Idle
  <2>3. reply = [t \in Threads |-> [msg |-> "none", deg |-> 0]]
    BY DEF Answer
  <2> QED
    BY <2>1, <2>2, <2>3
    DEF Mount!Init, Mount!Request, Mount!Answer, Asked, Where, Pos
<1> QED
  BY <1>1, <1>3, <1>4, <1>5, <1>7, <1>8 DEF TurnsInv, TakingTurns

(* Every step keeps the invariant, and is a step of the mount or leaves it as
   it is if threads still take turns. *)
LEMMA TurnsInvStep ==
  ASSUME NoNaN, NoGarbage, TurnsInv, [TurnsNext]_<<gimbleVars, overlapped>>
  PROVE  TurnsInv' /\ [~overlapped' => Mount!Next]_(Mount!panTiltVars)
<1>1. [Next]_gimbleVars
  BY DEF TurnsNext
<1>2. GimbleInv' /\ Pairing'
  BY <1>1, GimbleInvStep, PairingStep DEF TurnsInv, GimbleInv
<1>3. ASSUME ~overlapped'
      PROVE  TakingTurns' /\ [Mount!Next]_(Mount!panTiltVars)
  <2>1. CASE TurnsNext
    <3>1. ~overlapped /\ Alone'
      BY <1>3, <2>1 DEF TurnsNext
    <3>2. GimbleInv /\ Pairing /\ TakingTurns
      BY <3>1 DEF TurnsInv
    <3>3. ASSUME NEW t \in Threads, NEW a \in Axes, NEW arg, NEW kind,
                 \/ kind = "set" /\ arg \in SetArgs
                 \/ kind = "step" /\ arg \in StepArgs
                 \/ kind = "get" /\ arg = 0,
                 Call(t, kind, a, arg)
          PROVE  TakingTurns' /\ Mount!Next
      <4>1. TakingTurns' /\ \E request \in Mount!Requests : Mount!Ask(t, request)
        BY <3>1, <3>2, <3>3, CallTurn
      <4> QED
        BY <4>1 DEF Mount!Next
    <3>4. ASSUME NEW t \in Threads, CheckSet(t) \/ CheckStep(t)
          PROVE  TakingTurns' /\ [Mount!Next]_(Mount!panTiltVars)
      <4>1. TakingTurns' /\ (Mount!Refuse(t) \/ UNCHANGED Mount!panTiltVars)
        BY <3>2, <3>4, CheckTurn
      <4> QED
        BY <4>1 DEF Mount!Next
    <3>5. ASSUME NEW t \in Threads, GetDeg(t)
          PROVE  TakingTurns' /\ Mount!Next
      <4>1. TakingTurns' /\ Mount!Tell(t)
        BY <3>2, <3>5, GetTurn
      <4> QED
        BY <4>1 DEF Mount!Next
    <3>6. ASSUME NEW t \in Threads, PrintDuty(t) \/ Flush(t)
          PROVE  TakingTurns' /\ UNCHANGED Mount!panTiltVars
      BY <3>2, <3>6, PrintTurn, FlushTurn
    <3>7. ASSUME NEW t \in Threads, Record(t)
          PROVE  TakingTurns' /\ Mount!Next
      <4>1. TakingTurns' /\ Mount!Move(t)
        BY <3>2, <3>7, RecordTurn
      <4> QED
        BY <4>1 DEF Mount!Next
    <3> QED
      BY <2>1, <3>3, <3>4, <3>5, <3>6, <3>7 DEF TurnsNext, Next, Step
  <2>2. CASE UNCHANGED <<gimbleVars, overlapped>>
    <3>1. TakingTurns
      BY <1>3, <2>2 DEF TurnsInv
    <3>2. TakingTurns'
      BY <2>2, <3>1 DEF gimbleVars, TakingTurns, Alone, UnderWay, Waiting,
                        Applied, Settled, Whole, Heading, Goal, Pos
    <3>3. UNCHANGED Mount!panTiltVars
      BY <2>2 DEF gimbleVars, Mount!panTiltVars
    <3> QED
      BY <3>2, <3>3
  <2> QED
    BY <2>1, <2>2
<1> QED
  BY <1>2, <1>3 DEF TurnsInv

(* Protocol.txt: getDeg answers the current position of the device.  As long as
   threads take turns the field it answers from and the driver hold the same
   duty whenever no call is under way. *)
THEOREM FieldFollowsDevice == NoNaN /\ NoGarbage /\ TurnsSpec => []FieldIsDevice
<1> SUFFICES ASSUME NoNaN, NoGarbage PROVE TurnsSpec => []FieldIsDevice
  OBVIOUS
<1>1. TurnsInv => FieldIsDevice
  <2> SUFFICES ASSUME TurnsInv, ~overlapped, AllIdle, NEW a \in Axes
               PROVE  duty[a] # NaN /\ device[a] = duty[a] \div Span[a]
    BY DEF FieldIsDevice
  <2>1. duty[a] # NaN
    BY GimbleAssumption DEF TurnsInv, GimbleInv, InRange, Lowest, Highest
  <2>2. device[a] = duty[a] \div Span[a]
    BY DEF TurnsInv, TakingTurns, Settled, AllIdle
  <2> QED
    BY <2>1, <2>2
<1>2. TurnsInv /\ [TurnsNext]_<<gimbleVars, overlapped>> => TurnsInv'
  BY TurnsInvStep
<1>3. TurnsInit => TurnsInv
  BY TurnsInvInit
<1> QED
  BY <1>1, <1>2, <1>3, PTL DEF TurnsSpec

(* Protocol.txt, setDeg, stepDeg and getDeg: as long as threads take turns each
   command takes effect at one instant, is refused exactly when it would leave
   the range, and is answered by what was done: the gimble implements PanTilt. *)
THEOREM GimbleIsMount == NoNaN /\ NoGarbage /\ TurnsSpec => MountSpec
<1> SUFFICES ASSUME NoNaN, NoGarbage PROVE TurnsSpec => MountSpec
  OBVIOUS
<1>1. TurnsInv /\ [TurnsNext]_<<gimbleVars, overlapped>> =>
        TurnsInv' /\ [~overlapped' => Mount!Next]_(Mount!panTiltVars)
  BY TurnsInvStep
<1>2. TurnsInit => TurnsInv /\ Mount!Init
  BY TurnsInvInit
<1> QED
  BY <1>1, <1>2, PTL DEF TurnsSpec, MountSpec

=============================================================================
