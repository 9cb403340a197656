------------------------------ MODULE PanTilt ------------------------------
(***************************************************************************)
(* What the pan/tilt mount promises to those who command it: each axis has *)
(* a position, a command takes effect at one instant, a command that would *)
(* leave the range is refused and moves nothing, and the answer tells      *)
(* which of the two happened.  Gimble is the program behind the promise.   *)
(***************************************************************************)
EXTENDS Integers

CONSTANTS
  Threads,   \* the threads that command the mount
  Axes,
  Span,      \* Span[a]: the last degree of axis a; the first one is 0
  StartDeg,  \* StartDeg[a]: where the axis stands once it is attached
  SetArgs,   \* degrees that callers ask for
  StepArgs   \* degrees that callers ask to add

VARIABLES
  pos,    \* pos[a]: the degree at which the axis stands
  asked,  \* the last command of each thread
  reply   \* what it was answered

panTiltVars == <<pos, asked, reply>>

Request(kind, a, arg) == [kind |-> kind, axis |-> a, arg |-> arg]

Answer(msg, deg) == [msg |-> msg, deg |-> deg]

Pending == Answer("pending", 0)

Init ==
  /\ pos = StartDeg
  /\ asked = [t \in Threads |-> Request("none", CHOOSE a \in Axes : TRUE, 0)]
  /\ reply = [t \in Threads |-> Answer("none", 0)]

Ask(t, request) ==
  /\ reply[t] # Pending
  /\ asked' = [asked EXCEPT ![t] = request]
  /\ reply' = [reply EXCEPT ![t] = Pending]
  /\ UNCHANGED pos

(* The degree that a command asks for, "step" counting from where the axis
   stands now. *)
Goal(request) ==
  IF request.kind = "step" THEN pos[request.axis] + request.arg ELSE request.arg

Move(t) ==
  LET a == asked[t].axis
      x == Goal(asked[t])
  IN  /\ reply[t] = Pending
      /\ asked[t].kind \in {"set", "step"}
      /\ x \in 0 .. Span[a]
      /\ pos' = [pos EXCEPT ![a] = x]
      /\ reply' = [reply EXCEPT ![t] = Answer("OK", 0)]
      /\ UNCHANGED asked

Refuse(t) ==
  /\ reply[t] = Pending
  /\ asked[t].kind \in {"set", "step"}
  /\ Goal(asked[t]) \notin 0 .. Span[asked[t].axis]
  /\ reply' = [reply EXCEPT ![t] = Answer("OOR", 0)]
  /\ UNCHANGED <<pos, asked>>

Tell(t) ==
  /\ reply[t] = Pending
  /\ asked[t].kind = "get"
  /\ reply' = [reply EXCEPT ![t] = Answer("Pos", pos[asked[t].axis])]
  /\ UNCHANGED <<pos, asked>>

Requests ==
  [kind : {"set"}, axis : Axes, arg : SetArgs]
    \cup [kind : {"step"}, axis : Axes, arg : StepArgs]
    \cup [kind : {"get"}, axis : Axes, arg : {0}]

Next ==
  \E t \in Threads :
    \/ \E request \in Requests : Ask(t, request)
    \/ Move(t)
    \/ Refuse(t)
    \/ Tell(t)

Spec == Init /\ [][Next]_panTiltVars

=============================================================================
