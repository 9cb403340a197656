--------------------------- MODULE AutonomyDaemon ---------------------------
(***************************************************************************)
(* AutonomyDaemon: the main thread looks at one camera frame after the     *)
(* other and, once enough frames in a row show something in about the same *)
(* place, turns the gimble to it, fires, and turns back.  The gimble and   *)
(* the accelerator are those of Gimble and Accelerator, called by the      *)
(* thread main one call after the other.                                   *)
(*                                                                         *)
(* Of a frame only the motion points matter: whether there are more than   *)
(* NUM_POINTS_MIN, their mean and their standard deviations.  Means and    *)
(* deviations are in Unit-ths of a pixel, angles in the unit of Gimble.    *)
(***************************************************************************)
EXTENDS Integers, Sequences, SequencesExt

CONSTANTS
  Threads, Cancellable, Durations, FIRE_DUTY_TIME,            \* Accelerator
  Axes, Span, DutyMin, DutyRange, SetArgs, StepArgs, NaN, Garbage,  \* Gimble
  main,             \* the thread that runs the daemon
  Unit,             \* fractions of a pixel told apart
  Sightings,        \* [x, y, devX, devY] of frames with enough motion points
  Width, Height,    \* xImgSize, yImgSize
  HORIZ_FOV, VERT_FOV,
  DefaultDeg,       \* DEFAULT_PAN, DEFAULT_TILT
  NUM_FRAMES_MIN

FireTime == 1000

ASSUME AutonomyDaemonAssumption ==
  /\ main \in Threads
  /\ Axes = {"pan", "tilt"}
  /\ FireTime \in Durations
  /\ Unit \in Nat \ {0} /\ Width \in Nat \ {0} /\ Height \in Nat \ {0}
  /\ NUM_FRAMES_MIN \in Nat \ {0}
  /\ \A s \in Sightings : s.x \in Nat /\ s.y \in Nat /\ s.devX \in Nat /\ s.devY \in Nat

(* The gimble and the accelerator as they are (Gimble, Accelerator). *)
ASSUME DevicesAssumption ==
  /\ Cancellable \subseteq Threads /\ Durations \subseteq Nat
  /\ FIRE_DUTY_TIME \in Nat \ {0}
  /\ Span \in [Axes -> Nat \ {0}] /\ DefaultDeg \in [Axes -> Nat]
  /\ DutyMin \in Nat /\ DutyRange \in Nat \ {0}
  /\ (SetArgs \cup StepArgs) \ {NaN, Garbage} \subseteq Int
  /\ NaN \notin Int /\ Garbage \notin Int

(* Points lie within the image, and what the image shows from the default
   position lies within the range of the gimble: 90 degrees of 180, give or
   take 20, and 23 of 90, give or take 10. *)
ASSUME ViewAssumption ==
  /\ \A s \in Sightings : s.x <= Unit * Width /\ s.y <= Unit * Height
  /\ HORIZ_FOV \in Nat /\ VERT_FOV \in Nat
  /\ HORIZ_FOV <= 2 * DefaultDeg["pan"] /\ HORIZ_FOV <= 2 * (Span["pan"] - DefaultDeg["pan"])
  /\ VERT_FOV <= 2 * DefaultDeg["tilt"] /\ VERT_FOV <= 2 * (Span["tilt"] - DefaultDeg["tilt"])

VARIABLES
  fireFP, pin, phase, left,           \* Accelerator
  stream, device, duty, op, reply,    \* Gimble
  centers,  \* centers of the frames seen so far, in whole pixels
  stage,    \* what the main thread does next
  target,   \* argument of fireAccelerator
  frames    \* history: the frames read since the last shot, newest first

A == INSTANCE Accelerator

(* The daemon's constructor has turned the gimble to its default position. *)
G == INSTANCE Gimble WITH StartDeg <- DefaultDeg

accelVars == <<fireFP, pin, phase, left>>
gimbleVars == <<stream, device, duty, op, reply>>
daemonVars == <<centers, stage, target, frames>>
autonomyVars == <<accelVars, gimbleVars, daemonVars>>

Point(x, y) == [x |-> x, y |-> y]

Nothing == [x |-> 0, y |-> 0, devX |-> -1, devY |-> -1]

Init ==
  /\ A!Init
  /\ G!Init
  /\ centers = <<>>
  /\ stage = "iterate"
  /\ target = Point(0, 0)
  /\ frames = <<>>

-----------------------------------------------------------------------------
(* runIter() *)

Distance(a, b) == IF a < b THEN b - a ELSE a - b

(* The previous center, in pixels, against the mean, in fractions of one:
   within 1.5 standard deviations? *)
Near(center, s) ==
  /\ 2 * Distance(Unit * center.x, s.x) <= 3 * s.devX
  /\ 2 * Distance(Unit * center.y, s.y) <= 3 * s.devY

(* push_back(Point(cX, cY)): the mean loses its fraction. *)
Center(s) == Point(s.x \div Unit, s.y \div Unit)

Remember(f) ==
  frames' = SubSeq(<<f>> \o frames, 1, IF Len(frames) < NUM_FRAMES_MIN
                                       THEN Len(frames) + 1 ELSE NUM_FRAMES_MIN)

(* The camera gave no frame: what was seen before is kept. *)
ReadFails ==
  /\ stage = "iterate"
  /\ UNCHANGED autonomyVars

(* Mutant: the hits are kept when a frame shows nothing. *)
SeeNothingKept ==
  /\ stage = "iterate"
  /\ Remember(Nothing)
  /\ UNCHANGED <<accelVars, gimbleVars, centers, stage, target>>

(* At most NUM_POINTS_MIN motion points. *)
SeeNothing ==
  /\ stage = "iterate"
  /\ centers' = <<>>
  /\ Remember(Nothing)
  /\ UNCHANGED <<accelVars, gimbleVars, stage, target>>

(* Mutant: a target that jumps is only not counted. *)
SeeTeleportKept(s) ==
  /\ stage = "iterate"
  /\ centers # <<>> /\ ~Near(Last(centers), s)
  /\ Remember(s)
  /\ UNCHANGED <<accelVars, gimbleVars, centers, stage, target>>

(* The center is too far from the previous one: both are forgotten. *)
SeeTeleport(s) ==
  /\ stage = "iterate"
  /\ centers # <<>> /\ ~Near(Last(centers), s)
  /\ centers' = <<>>
  /\ Remember(s)
  /\ UNCHANGED <<accelVars, gimbleVars, stage, target>>

(* The center joins the others; with enough of them the daemon fires at it. *)
SeeTarget(s) ==
  /\ stage = "iterate"
  /\ centers # <<>> => Near(Last(centers), s)
  /\ centers' = Append(centers, Center(s))
  /\ Remember(s)
  /\ IF Len(centers') >= NUM_FRAMES_MIN
     THEN stage' = "stepPan" /\ target' = Center(s)
     ELSE UNCHANGED <<stage, target>>
  /\ UNCHANGED <<accelVars, gimbleVars>>

-----------------------------------------------------------------------------
(* fireAccelerator(), goToDefaultPosition() and clearHits().  A call is made
   when the one before has returned; what it returned is not looked at. *)

dYaw(point) == ((2 * point.x - Width) * HORIZ_FOV) \div (2 * Width)
dPitch(point) == ((2 * point.y - Height) * VERT_FOV) \div (2 * Height)

Returned == op[main].stage = "idle" /\ phase[main] = "idle"

Calls(from, to, kind, axis, arg) ==
  /\ stage = from /\ Returned
  /\ stage' = to
  /\ G!Call(main, kind, axis, arg)
  /\ UNCHANGED <<accelVars, centers, target, frames>>

StepPan == Calls("stepPan", "stepTilt", "step", "pan", dYaw(target))

(* Mutant: the tilt is not adjusted. *)
StepTiltNot == Calls("stepTilt", "fire", "get", "tilt", 0)

StepTilt == Calls("stepTilt", "fire", "step", "tilt", dPitch(target))

Fire ==
  /\ stage = "fire" /\ Returned
  /\ stage' = "setPan"
  /\ A!Fire(main, FireTime)
  /\ UNCHANGED <<gimbleVars, centers, target, frames>>

(* Mutant: the pan axis stays at the target. *)
SetPanNot == Calls("setPan", "setTilt", "get", "pan", 0)

SetPan == Calls("setPan", "setTilt", "set", "pan", DefaultDeg["pan"])

SetTilt == Calls("setTilt", "clear", "set", "tilt", DefaultDeg["tilt"])

Clear ==
  /\ stage = "clear" /\ Returned
  /\ stage' = "iterate"
  /\ centers' = <<>>
  /\ frames' = <<>>
  /\ UNCHANGED <<accelVars, gimbleVars, target>>

(* A call goes on in the gimble or in the accelerator. *)
GimbleStep(t) == G!Step(t) /\ UNCHANGED <<accelVars, daemonVars>>
AccelStep(t) == A!Step(t) /\ UNCHANGED <<gimbleVars, daemonVars>>

See ==
  \/ ReadFails
  \/ SeeNothing
  \/ \E s \in Sightings : SeeTeleport(s) \/ SeeTarget(s)

Shoot == StepPan \/ StepTilt \/ Fire \/ SetPan \/ SetTilt \/ Clear

MainStep == Shoot \/ GimbleStep(main) \/ AccelStep(main)

Next == See \/ MainStep

(* A shot once begun goes on: nothing in it waits for anything but usleep. *)
Fairness == WF_autonomyVars(MainStep)

Spec == Init /\ [][Next]_autonomyVars /\ Fairness

-----------------------------------------------------------------------------

Stages == {"iterate", "stepPan", "stepTilt", "fire", "setPan", "setTilt",
           "clear"}

Pixels == [x : 0 .. Width, y : 0 .. Height]

TypeOK ==
  /\ centers \in Seq(Pixels)
  /\ stage \in Stages
  /\ target \in Pixels
  /\ frames \in Seq(Sightings \cup {Nothing})

(* The list of centers does not grow without bound, and a shot is begun as
   soon as it is long enough. *)
CentersBounded ==
  /\ Len(centers) <= NUM_FRAMES_MIN
  /\ Len(centers) = NUM_FRAMES_MIN <=> stage # "iterate"

(* The daemon shoots only at what each of the last NUM_FRAMES_MIN frames it
   read has shown, in about the place where the frame before showed it, and
   no frame counts for two shots. *)
ShotJustified ==
  stage # "iterate" =>
    /\ Len(frames) = NUM_FRAMES_MIN
    /\ \A i \in DOMAIN frames : frames[i] # Nothing
    /\ \A i \in 1 .. NUM_FRAMES_MIN - 1 : Near(Center(frames[i + 1]), frames[i])
    /\ target = Center(frames[1])

(* The trigger is pulled only while the gimble points at the target. *)
Aimed(a, offset) ==
  device[a] = G!DutyOf(a, DefaultDeg[a] + offset) \div Span[a]

OnTarget ==
  pin = 1 => Aimed("pan", dYaw(target)) /\ Aimed("tilt", dPitch(target))

(* A shot comes to its end, and the gimble looks where it looked before. *)
AtDefault == \A a \in Axes : Aimed(a, 0)

ReturnsToDefault == stage # "iterate" ~> (stage = "iterate" /\ AtDefault)

=============================================================================
