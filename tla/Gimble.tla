------------------------------- MODULE Gimble -------------------------------
(***************************************************************************)
(* BBBGimble: two servos, each one a sysfs file of the PWM driver held     *)
(* open as a stdio stream, and the field (panDuty, tiltDuty) in which the  *)
(* program remembers the duty it last asked for.  A command that moves is  *)
(* a range check, fprintf, fseek (which writes the stream's buffer to the  *)
(* driver) and an assignment to the field.  No lock covers the four, and   *)
(* two threads own pointers to the gimble: the server's (processCmd) and   *)
(* main's (AutonomyDaemon).  Each of the four is a step of its own here.   *)
(*                                                                         *)
(* A duty is an exact rational in the model: duty[a] is Span[a] times it,  *)
(* an integer whenever the degrees are.                                    *)
(***************************************************************************)
EXTENDS Integers, Sequences

CONSTANTS
  Threads,    \* the threads that command the gimble
  Axes,
  Span,       \* Span[a]: the range of the axis is 0 .. Span[a] degrees
  StartDeg,   \* STARTUP_PAN, STARTUP_TILT
  DutyMin,    \* the duty of 0 degrees, in ns
  DutyRange,  \* the duty of Span[a] degrees, less DutyMin
  SetArgs,    \* arguments of setDeg
  StepArgs,   \* arguments of stepDeg
  NaN,        \* what strtod makes of "nan"
  Garbage     \* an argument that is no number

Number == (SetArgs \cup StepArgs) \ {NaN, Garbage}

ASSUME GimbleAssumption ==
  /\ Axes # {}
  /\ Span \in [Axes -> Nat \ {0}]
  /\ StartDeg \in [Axes -> Nat]
  /\ \A a \in Axes : StartDeg[a] <= Span[a]
  /\ DutyMin \in Nat
  /\ DutyRange \in Nat \ {0}
  /\ Number \subseteq Int
  /\ NaN \notin Int
  /\ Garbage \notin Int

VARIABLES
  stream,  \* stream[a]: numbers printed to the servo's stream, not flushed
  device,  \* device[a]: the duty the PWM driver applies
  duty,    \* panDuty, tiltDuty
  op,      \* the call each thread is in, or was last in
  reply    \* what processCmd answered to it

gimbleVars == <<stream, device, duty, op, reply>>

-----------------------------------------------------------------------------
(* Arithmetic on doubles that may be NaN: every comparison with NaN is
   false, so a guard "d < lo || d > hi" lets it pass. *)

Plus(d, e) == IF NaN \in {d, e} THEN NaN ELSE d + e

Outside(d, lo, hi) == d # NaN /\ (d < lo \/ d > hi)

strtod(arg) == IF arg = Garbage THEN 0 ELSE arg

Lowest(a) == DutyMin * Span[a]
Highest(a) == (DutyMin + DutyRange) * Span[a]

DutyIncr(deg) == IF deg = NaN THEN NaN ELSE deg * DutyRange

DutyOf(a, deg) == Plus(DutyIncr(deg), Lowest(a))

DegOf(a, d) == IF d = NaN THEN NaN ELSE (d - Lowest(a)) \div DutyRange

(* (int)duty.  Of NaN it is undefined: ARM's conversion gives 0, x86's the
   smallest int. *)
Rounded(a, d) == IF d = NaN THEN {0, -2147483647 - 1} ELSE {d \div Span[a]}

-----------------------------------------------------------------------------

Answer(msg, deg) == [msg |-> msg, deg |-> deg]

Idle == [stage |-> "idle", kind |-> "none", axis |-> CHOOSE a \in Axes : TRUE,
         arg |-> 0, new |-> 0]

(* What the constructor leaves. *)
Init ==
  /\ stream = [a \in Axes |-> <<>>]
  /\ duty = [a \in Axes |-> DutyOf(a, StartDeg[a])]
  /\ device = [a \in Axes |-> DutyOf(a, StartDeg[a]) \div Span[a]]
  /\ op = [t \in Threads |-> Idle]
  /\ reply = [t \in Threads |-> Answer("none", 0)]

Call(t, kind, a, arg) ==
  /\ op[t].stage = "idle"
  /\ op' = [op EXCEPT ![t] = [stage |-> "check", kind |-> kind, axis |-> a,
                              arg |-> arg, new |-> 0]]
  /\ reply' = [reply EXCEPT ![t] = Answer("pending", 0)]
  /\ UNCHANGED <<stream, device, duty>>

At(t, stage, kind) == op[t].stage = stage /\ op[t].kind = kind

Finish(t, answer) ==
  /\ op' = [op EXCEPT ![t].stage = "idle"]
  /\ reply' = [reply EXCEPT ![t] = answer]

(* The duty to print is settled; it waits in a local variable. *)
Accept(t, d) ==
  /\ op' = [op EXCEPT ![t].stage = "print", ![t].new = d]
  /\ UNCHANGED reply

(* Mutant: the last degree of the range is refused. *)
CheckSetExclusive(t) ==
  LET a == op[t].axis
      deg == strtod(op[t].arg)
  IN  /\ At(t, "check", "set")
      /\ \/ Outside(deg, 0, Span[a] - 1) /\ Finish(t, Answer("OOR", 0))
         \/ ~Outside(deg, 0, Span[a] - 1) /\ Accept(t, DutyOf(a, deg))
      /\ UNCHANGED <<stream, device, duty>>

(* setPan and setTilt check the degrees. *)
CheckSet(t) ==
  LET a == op[t].axis
      deg == strtod(op[t].arg)
  IN  /\ At(t, "check", "set")
      /\ \/ Outside(deg, 0, Span[a]) /\ Finish(t, Answer("OOR", 0))
         \/ ~Outside(deg, 0, Span[a]) /\ Accept(t, DutyOf(a, deg))
      /\ UNCHANGED <<stream, device, duty>>

(* Mutant: a step is not checked at the upper end. *)
CheckStepLower(t) ==
  LET newDuty == Plus(DutyIncr(strtod(op[t].arg)), duty[op[t].axis])
      low == newDuty # NaN /\ newDuty < Lowest(op[t].axis)
  IN  /\ At(t, "check", "step")
      /\ \/ low /\ Finish(t, Answer("OOR", 0))
         \/ ~low /\ Accept(t, newDuty)
      /\ UNCHANGED <<stream, device, duty>>

(* stepPan and stepTilt add to the field as it is now and check the duty. *)
CheckStep(t) ==
  LET a == op[t].axis
      newDuty == Plus(DutyIncr(strtod(op[t].arg)), duty[a])
  IN  /\ At(t, "check", "step")
      /\ \/ Outside(newDuty, Lowest(a), Highest(a)) /\ Finish(t, Answer("OOR", 0))
         \/ ~Outside(newDuty, Lowest(a), Highest(a)) /\ Accept(t, newDuty)
      /\ UNCHANGED <<stream, device, duty>>

(* getPan and getTilt answer from the field. *)
GetDeg(t) ==
  LET a == op[t].axis
  IN  /\ At(t, "check", "get")
      /\ Finish(t, Answer("Pos", DegOf(a, duty[a])))
      /\ UNCHANGED <<stream, device, duty>>

(* Mutant: no fseek after fprintf. *)
PrintNoSeek(t) ==
  LET a == op[t].axis
  IN  /\ op[t].stage = "print"
      /\ \E n \in Rounded(a, op[t].new) :
           stream' = [stream EXCEPT ![a] = Append(@, n)]
      /\ op' = [op EXCEPT ![t].stage = "record"]
      /\ UNCHANGED <<device, duty, reply>>

PrintDuty(t) ==
  LET a == op[t].axis
  IN  /\ op[t].stage = "print"
      /\ \E n \in Rounded(a, op[t].new) :
           stream' = [stream EXCEPT ![a] = Append(@, n)]
      /\ op' = [op EXCEPT ![t].stage = "flush"]
      /\ UNCHANGED <<device, duty, reply>>

(* The driver takes one number per write.  It refuses a negative one, and
   the digits of two duties in a row are a number far beyond the period. *)
Accepted(numbers) == Len(numbers) = 1 /\ numbers[1] >= 0

Flush(t) ==
  LET a == op[t].axis
  IN  /\ op[t].stage = "flush"
      /\ device' = [device EXCEPT ![a] =
                      IF Accepted(stream[a]) THEN stream[a][1] ELSE @]
      /\ stream' = [stream EXCEPT ![a] = <<>>]
      /\ op' = [op EXCEPT ![t].stage = "record"]
      /\ UNCHANGED <<duty, reply>>

(* Mutants: a step leaves the field as it was; the answer is the one of fire. *)
RecordSetOnly(t) ==
  /\ op[t].stage = "record"
  /\ duty' = [duty EXCEPT ![op[t].axis] =
                IF op[t].kind = "set" THEN op[t].new ELSE @]
  /\ Finish(t, Answer("OK", 0))
  /\ UNCHANGED <<stream, device>>

RecordDone(t) ==
  /\ op[t].stage = "record"
  /\ duty' = [duty EXCEPT ![op[t].axis] = op[t].new]
  /\ Finish(t, Answer("DONE", 0))
  /\ UNCHANGED <<stream, device>>

(* Neither fprintf nor fseek is asked whether it failed. *)
Record(t) ==
  /\ op[t].stage = "record"
  /\ duty' = [duty EXCEPT ![op[t].axis] = op[t].new]
  /\ Finish(t, Answer("OK", 0))
  /\ UNCHANGED <<stream, device>>

Step(t) ==
  \/ CheckSet(t)
  \/ CheckStep(t)
  \/ GetDeg(t)
  \/ PrintDuty(t)
  \/ Flush(t)
  \/ Record(t)

Next ==
  \E t \in Threads :
    \/ \E a \in Axes :
         \/ \E arg \in SetArgs : Call(t, "set", a, arg)
         \/ \E arg \in StepArgs : Call(t, "step", a, arg)
         \/ Call(t, "get", a, 0)
    \/ Step(t)

Spec == Init /\ [][Next]_gimbleVars

-----------------------------------------------------------------------------

Stages == {"idle", "check", "print", "flush", "record"}

Ops == [stage : Stages, kind : {"none", "set", "step", "get"}, axis : Axes,
        arg : SetArgs \cup StepArgs \cup {0}, new : Int \cup {NaN}]

Answers == [msg : {"none", "pending", "OK", "OOR", "Pos"},
            deg : Int \cup {NaN}]

TypeOK ==
  /\ stream \in [Axes -> Seq(Int)]
  /\ device \in [Axes -> Int]
  /\ duty \in [Axes -> Int \cup {NaN}]
  /\ op \in [Threads -> Ops]
  /\ reply \in [Threads -> Answers]

AllIdle == \A t \in Threads : op[t].stage = "idle"

(* The servos are never driven beyond the duties of the two ends of their
   range, whatever callers ask for and however the calls of two threads
   interleave, in the driver and in the field that the next step starts from. *)
InRange ==
  \A a \in Axes :
    /\ device[a] \in DutyMin .. DutyMin + DutyRange
    /\ duty[a] \in Lowest(a) .. Highest(a)

(* Why: what was accepted is in the range, and so is all that was printed. *)
AcceptedInRange ==
  \A t \in Threads :
    op[t].stage \in {"print", "flush", "record"} =>
      op[t].new \in Lowest(op[t].axis) .. Highest(op[t].axis)

PrintedInRange ==
  \A a \in Axes : \A i \in DOMAIN stream[a] :
    stream[a][i] \in DutyMin .. DutyMin + DutyRange

(* What waits in a stream is there because a thread is about to flush it. *)
StreamOwned ==
  \A a \in Axes :
    stream[a] # <<>> =>
      \E t \in Threads : op[t].stage = "flush" /\ op[t].axis = a

(* The inductive invariant behind InRange and StreamsFlushed. *)
GimbleInv ==
  TypeOK /\ InRange /\ AcceptedInRange /\ PrintedInRange /\ StreamOwned

(* No duty stays in a stream, to be run together with that of a later call. *)
StreamsFlushed == AllIdle => \A a \in Axes : stream[a] = <<>>

(* Protocol.txt: getDeg answers the current position of the device.  So when
   no call is under way the field and the driver hold the same duty. *)
FieldKnown ==
  AllIdle => \A a \in Axes : duty[a] # NaN /\ device[a] = duty[a] \div Span[a]

(* Protocol.txt: stepDeg adds its argument to the current position.  So the
   position that a step records is the one it finds plus its argument. *)
StepAdds ==
  [][\A t \in Threads :
       LET a == op[t].axis
       IN  At(t, "record", "step") /\ op'[t].stage = "idle" =>
             duty'[a] = Plus(duty[a], DutyIncr(strtod(op[t].arg)))]_gimbleVars

(* Protocol.txt, BADARG: for an argument that was not recognized there is no
   change of state, so no such call reaches the servo. *)
BadArgMovesNothing ==
  \A t \in Threads : op[t].arg = Garbage => op[t].stage \in {"idle", "check"}

(* Protocol.txt: setDeg takes 0 to 180 degrees on either axis.  So no such
   degree is answered with OOR. *)
DocumentedRange ==
  \A t \in Threads :
    (reply[t].msg = "OOR" /\ op[t].kind = "set") => op[t].arg \notin 0 .. 180

(* The promise that the program makes good to threads that take turns: positions in
   degrees, each command one step, answered by what was asked and done. *)
Mount == INSTANCE PanTilt WITH
  pos <- [a \in Axes |-> DegOf(a, duty[a])],
  asked <- [t \in Threads |-> [kind |-> op[t].kind, axis |-> op[t].axis,
                               arg |-> op[t].arg]]

=============================================================================
