---------------------------- MODULE TurretProofs ----------------------------
(***************************************************************************)
(* Theorems about the daemon that aims and shoots by itself                *)
(* (AutonomyDaemon), for any sightings, number of frames, ranges and duty  *)
(* cycles: it shoots only at what it followed long enough (Tracking), with *)
(* or without a user at the same devices (Turret), and, alone, with the    *)
(* gun pointing at it (Aim).  Daemon and user together keep the servos in  *)
(* their ranges (Servos) and release the trigger (Accelerator's PulseInv). *)
(***************************************************************************)
EXTENDS Turret, TLAPS, SequenceTheorems

-----------------------------------------------------------------------------
(* What the daemon has seen, and where. *)

Centers == {Center(s) : s \in Sightings}
Seen == Sightings \cup {Nothing}

(* The centers are those of the newest frames, one after the other, and each
   is near the one before it. *)
Remembered ==
  /\ centers \in Seq(Centers) /\ frames \in Seq(Seen)
  /\ Len(centers) <= Len(frames) /\ Len(frames) <= NUM_FRAMES_MIN
  /\ \A i \in 1 .. Len(centers) : frames[i] \in Sightings
  /\ \A i \in 1 .. Len(centers) - 1 : Near(Center(frames[i + 1]), frames[i])
  /\ centers # <<>> => Last(centers) = Center(frames[1])

(* Once the daemon shoots it has enough of them, and aims at the newest. *)
Tracking ==
  /\ Remembered
  /\ stage = "iterate" => Len(centers) < NUM_FRAMES_MIN
  /\ stage # "iterate" => Len(centers) = NUM_FRAMES_MIN /\ target = Center(frames[1])

(* A frame that shows nothing is no sighting. *)
LEMMA NothingSeen == Nothing \notin Sightings
<1>1. \A s \in Sightings : s.devX \in Nat
  BY AutonomyDaemonAssumption
<1>2. Nothing.devX = -1
  BY DEF Nothing
<1> QED
  BY <1>1, <1>2

(* The newest frame comes first, and the others move on. *)
LEMMA RememberFacts ==
  ASSUME frames \in Seq(Seen), NEW f \in Seen, Len(frames) <= NUM_FRAMES_MIN,
         Remember(f)
  PROVE  /\ frames' \in Seq(Seen) /\ Len(frames') \in Nat
         /\ Len(frames') = IF Len(frames) < NUM_FRAMES_MIN THEN Len(frames) + 1
                           ELSE NUM_FRAMES_MIN
         /\ frames'[1] = f
         /\ \A i \in 1 .. Len(frames') - 1 : frames'[i + 1] = frames[i]
<1> DEFINE all == <<f>> \o frames
           n == IF Len(frames) < NUM_FRAMES_MIN THEN Len(frames) + 1 ELSE NUM_FRAMES_MIN
<1>1. /\ Len(frames) \in Nat /\ NUM_FRAMES_MIN \in Nat \ {0}
      /\ n \in 1 .. Len(frames) + 1
  BY AutonomyDaemonAssumption
<1>2. /\ all \in Seq(Seen) /\ Len(all) = Len(frames) + 1
      /\ all[1] = f /\ \A i \in 1 .. Len(frames) : all[i + 1] = frames[i]
  OBVIOUS
<1>3. frames' = SubSeq(all, 1, n)
  BY DEF Remember
<1> HIDE DEF all, n
<1>4. /\ SubSeq(all, 1, n) \in Seq(Seen) /\ Len(SubSeq(all, 1, n)) = n
      /\ \A i \in 1 .. n : SubSeq(all, 1, n)[i] = all[i]
  <2>1. 1 \in 1 .. Len(all) + 1 /\ n \in 1 - 1 .. Len(all)
    BY <1>1, <1>2
  <2>2. \A i \in 1 .. n - 1 + 1 : SubSeq(all, 1, n)[i] = all[1 + i - 1]
    BY <1>1, <1>2, <2>1, SubSeqProperties
  <2> QED
    BY <1>1, <1>2, <2>1, <2>2, SubSeqProperties
<1>5. \A i \in 1 .. n - 1 : i + 1 \in 1 .. n /\ i \in 1 .. Len(frames) /\ i \in Nat
  BY <1>1
<1> QED
  BY <1>1, <1>2, <1>3, <1>4, <1>5 DEF n

(* The daemon has seen nothing at first. *)
LEMMA TrackingInit == Init => Tracking
<1> SUFFICES ASSUME Init PROVE Tracking
  OBVIOUS
<1>1. centers = <<>> /\ frames = <<>> /\ stage = "iterate"
  BY DEF Init
<1>2. <<>> \in Seq(Centers) /\ <<>> \in Seq(Seen) /\ Len(<<>>) = 0
  OBVIOUS
<1> QED
  BY <1>1, <1>2, AutonomyDaemonAssumption DEF Tracking, Remembered

(* A frame that is read: nothing, a target that jumped, or a target. *)
LEMMA SeeTracks ==
  ASSUME Tracking, See
  PROVE  Tracking'
<1> USE DEF Tracking, Remembered
<1>0. NUM_FRAMES_MIN \in Nat \ {0}
  BY AutonomyDaemonAssumption
<1>1. CASE ReadFails
  BY <1>1 DEF ReadFails, autonomyVars, daemonVars
<1>a. /\ <<>> \in Seq(Centers) /\ Len(<<>>) = 0
  OBVIOUS
<1>2. ASSUME NEW f \in Seen, Remember(f), centers' = <<>>, stage' = "iterate"
      PROVE  Tracking'
  BY <1>0, <1>a, <1>2, RememberFacts
<1>3. CASE SeeNothing
  BY <1>2, <1>3 DEF SeeNothing, Seen
<1>4. ASSUME NEW s \in Sightings, SeeTeleport(s)
      PROVE  Tracking'
  BY <1>2, <1>4 DEF SeeTeleport, Seen
<1>5. ASSUME NEW s \in Sightings, SeeTarget(s)
      PROVE  Tracking'
  <2>1. /\ stage = "iterate" /\ centers' = Append(centers, Center(s)) /\ Remember(s)
        /\ centers # <<>> => Near(Last(centers), s)
        /\ IF Len(centers') >= NUM_FRAMES_MIN
           THEN stage' = "stepPan" /\ target' = Center(s)
           ELSE UNCHANGED <<stage, target>>
    BY <1>5 DEF SeeTarget
  <2>2. s \in Seen /\ Center(s) \in Centers
    BY DEF Seen, Centers
  <2>3. /\ frames' \in Seq(Seen) /\ Len(frames') \in Nat
        /\ Len(frames') = IF Len(frames) < NUM_FRAMES_MIN THEN Len(frames) + 1
                          ELSE NUM_FRAMES_MIN
        /\ frames'[1] = s
        /\ \A i \in 1 .. Len(frames') - 1 : frames'[i + 1] = frames[i]
    BY <2>1, <2>2, RememberFacts
  <2>4. /\ centers' \in Seq(Centers) /\ Len(centers') = Len(centers) + 1
        /\ Len(centers) \in Nat /\ Len(frames) \in Nat /\ centers' # <<>>
        /\ centers'[Len(centers')] = Center(s)
    BY <2>1, <2>2
  <2>5. Len(centers') <= Len(frames') /\ Len(frames') <= NUM_FRAMES_MIN
    BY <1>0, <2>1, <2>3, <2>4
  <2>6. \A i \in 1 .. Len(centers') : frames'[i] \in Sightings
    <3> TAKE i \in 1 .. Len(centers')
    <3>1. CASE i = 1
      BY <2>3, <3>1
    <3>2. CASE i # 1
      <4>1. /\ i - 1 \in 1 .. Len(centers) /\ i - 1 \in 1 .. Len(frames') - 1
            /\ i = (i - 1) + 1
        BY <2>3, <2>4, <2>5, <3>2
      <4>2. frames'[i] = frames[i - 1]
        BY <2>3, <4>1
      <4> QED
        BY <4>1, <4>2
    <3> QED
      BY <3>1, <3>2
  <2>7. \A i \in 1 .. Len(centers') - 1 : Near(Center(frames'[i + 1]), frames'[i])
    <3> TAKE i \in 1 .. Len(centers') - 1
    <3>0. frames'[i + 1] = frames[i]
      BY <2>3, <2>4, <2>5
    <3>1. CASE i = 1
      <4>1. centers # <<>>
        BY <2>4, <3>1, <1>a
      <4>2. Near(Center(frames[1]), s)
        BY <2>1, <4>1
      <4> QED
        BY <2>3, <3>0, <3>1, <4>2
    <3>2. CASE i # 1
      <4>1. /\ i - 1 \in 1 .. Len(centers) - 1 /\ i - 1 \in 1 .. Len(frames') - 1
            /\ i = (i - 1) + 1
        BY <2>3, <2>4, <2>5, <3>2
      <4>2. frames'[i] = frames[i - 1]
        BY <2>3, <4>1
      <4>3. Near(Center(frames[i]), frames[i - 1])
        BY <4>1
      <4> QED
        BY <3>0, <4>2, <4>3
    <3> QED
      BY <3>1, <3>2
  <2>8. Last(centers') = Center(frames'[1])
    BY <2>3, <2>4 DEF Last
  <2>9. /\ stage' = "iterate" => Len(centers') < NUM_FRAMES_MIN
        /\ stage' # "iterate" =>
             Len(centers') = NUM_FRAMES_MIN /\ target' = Center(frames'[1])
    BY <1>0, <2>1, <2>3, <2>4, <2>5
  <2> QED
    BY <2>3, <2>4, <2>5, <2>6, <2>7, <2>8, <2>9
<1> QED
  BY <1>1, <1>3, <1>4, <1>5 DEF See

(* The daemon turns, fires and turns back, and forgets what it saw. *)
LEMMA ShootTracks ==
  ASSUME Tracking, Shoot
  PROVE  Tracking'
<1> USE DEF Tracking, Remembered
<1>1. CASE Clear
  <2>1. centers' = <<>> /\ frames' = <<>> /\ stage' = "iterate"
    BY <1>1 DEF Clear
  <2>2. <<>> \in Seq(Centers) /\ <<>> \in Seq(Seen) /\ Len(<<>>) = 0
    OBVIOUS
  <2> QED
    BY <2>1, <2>2, AutonomyDaemonAssumption
<1>2. CASE StepPan \/ StepTilt \/ Fire \/ SetPan \/ SetTilt
  <2>1. /\ UNCHANGED <<centers, target, frames>>
        /\ stage # "iterate" /\ stage' # "iterate"
    BY <1>2 DEF StepPan, StepTilt, Fire, SetPan, SetTilt, Calls
  <2> QED
    BY <2>1
<1> QED
  BY <1>1, <1>2 DEF Shoot

(* What the two theorems about the daemon's shots rest on, with and without a user. *)
LEMMA TrackingStep ==
  ASSUME Tracking, See \/ Shoot \/ UNCHANGED daemonVars
  PROVE  Tracking'
<1>1. CASE UNCHANGED daemonVars
  BY <1>1 DEF daemonVars, Tracking, Remembered
<1> QED
  BY <1>1, SeeTracks, ShootTracks

(* Who has enough centers has as many frames, each with a target. *)
LEMMA TrackingJustifies == Tracking => ShotJustified
<1> SUFFICES ASSUME Tracking, stage # "iterate"
             PROVE  /\ Len(frames) = NUM_FRAMES_MIN
                    /\ \A i \in DOMAIN frames : frames[i] # Nothing
                    /\ \A i \in 1 .. NUM_FRAMES_MIN - 1 :
                         Near(Center(frames[i + 1]), frames[i])
                    /\ target = Center(frames[1])
  BY DEF ShotJustified
<1>1. /\ Len(centers) = NUM_FRAMES_MIN /\ Len(centers) <= Len(frames)
      /\ Len(frames) <= NUM_FRAMES_MIN /\ NUM_FRAMES_MIN \in Nat
      /\ frames \in Seq(Seen)
  BY AutonomyDaemonAssumption DEF Tracking, Remembered
<1>2. Len(frames) = NUM_FRAMES_MIN /\ DOMAIN frames = 1 .. Len(centers)
  BY <1>1
<1> QED
  BY <1>2, NothingSeen DEF Tracking, Remembered

(* The daemon starts to turn only when each of its last NUM_FRAMES_MIN frames
   showed the target near where the one before did, and it turns to the place
   of the newest (AutonomyDaemon_Iterate), whatever the devices do. *)
THEOREM ShotsJustified == Spec => []ShotJustified
<1>1. Tracking /\ [Next]_autonomyVars => Tracking'
  BY TrackingStep DEF Next, MainStep, GimbleStep, AccelStep, autonomyVars
<1> QED
  BY <1>1, TrackingInit, TrackingJustifies, PTL DEF Spec

(* The same with users at the gimble and the accelerator through the server. *)
THEOREM ShotsJustifiedWithUser == TSpec => []ShotJustified
<1>1. Tracking /\ [TNext]_turretVars => Tracking'
  BY TrackingStep
  DEF TNext, MainLoop, MainRuns, MainStep, UserConnects, UserLeaves, UserMoves,
      UserShoots, ServerRuns, GimbleStep, AccelStep, turretVars, autonomyVars
<1> QED
  BY <1>1, TrackingInit, TrackingJustifies, PTL DEF TSpec, TInit

(* The daemon never counts past the number of frames it shoots after, and has
   that many exactly while it shoots. *)
THEOREM CentersCounted == Spec => []CentersBounded
<1>1. Tracking /\ [Next]_autonomyVars => Tracking'
  BY TrackingStep DEF Next, MainStep, GimbleStep, AccelStep, autonomyVars
<1>2. Tracking => CentersBounded
  BY AutonomyDaemonAssumption DEF Tracking, Remembered, CentersBounded
<1> QED
  BY <1>1, <1>2, TrackingInit, PTL DEF Spec

-----------------------------------------------------------------------------
(* Where the gimble points. *)

(* The degrees an axis is turned by to point at the target. *)
Offset(a) == IF a = "pan" THEN dYaw(target) ELSE dPitch(target)

(* The stages at which an axis is, or goes, where the target is. *)
Turned(a) == IF a = "pan" THEN {"stepTilt", "fire", "setPan"}
                          ELSE {"fire", "setPan", "setTilt"}

(* The degree an axis is at, or is turning to. *)
Place(a) == DefaultDeg[a] + (IF stage \in Turned(a) THEN Offset(a) ELSE 0)

(* An axis that stands where it should: the recorded duty and the device agree. *)
Settled(a) ==
  /\ duty[a] = G!DutyOf(a, Place(a))
  /\ device[a] = G!DutyOf(a, Place(a)) \div Span[a]
  /\ stream[a] = <<>>

(* The axis that the call under way turns. *)
Turning == IF stage \in {"stepTilt", "setTilt"} THEN "pan" ELSE "tilt"

call == op[main]

(* A call under way: what is recorded, printed and to be recorded fits its place. *)
OneCall ==
  /\ stage \in {"stepTilt", "fire", "setTilt", "clear"}
  /\ call.axis = Turning
  /\ IF stage \in {"stepTilt", "fire"}
     THEN call.kind = "step" /\ call.arg = Offset(Turning)
          /\ (call.stage = "check" =>
               duty[Turning] = G!DutyOf(Turning, DefaultDeg[Turning]))
     ELSE call.kind = "set" /\ call.arg = DefaultDeg[Turning]
  /\ call.stage \in {"print", "flush", "record"} =>
       call.new = G!DutyOf(Turning, Place(Turning))
  /\ stream[Turning] = IF call.stage = "flush"
                       THEN << G!DutyOf(Turning, Place(Turning)) \div Span[Turning] >>
                       ELSE <<>>
  /\ call.stage = "record" =>
       device[Turning] = G!DutyOf(Turning, Place(Turning)) \div Span[Turning]

(* The trigger is pulled only between the calls that turn. *)
Pulling ==
  /\ phase[main] \in {"idle", "loop", "flushHigh", "high", "flushLow"}
  /\ phase[main] # "idle" => stage = "setPan" /\ call.stage = "idle"
  /\ fireFP = IF phase[main] = "flushHigh" THEN <<1>>
              ELSE IF phase[main] = "flushLow" THEN <<0>> ELSE <<>>
  /\ pin \in {0, 1}
  /\ pin = 1 => phase[main] \in {"high", "flushLow"}

(* The types of what the devices keep. *)
MachineTypes ==
  /\ DOMAIN op = Threads /\ DOMAIN phase = Threads
  /\ call \in [stage : G!Stages, kind : {"none", "set", "step"},
               axis : Axes, arg : Int, new : Int]
  /\ DOMAIN duty = Axes /\ DOMAIN device = Axes /\ DOMAIN stream = Axes
  /\ stage \in Stages

(* Each axis stands where the stage of the daemon says, or the one call under
   way brings it there. *)
Aim ==
  /\ MachineTypes /\ Pulling
  /\ IF call.stage = "idle" THEN \A a \in Axes : Settled(a)
     ELSE OneCall /\ \A a \in Axes : a # Turning => Settled(a)

(* A mean of points in an image lies in it. *)
LEMMA DivBound ==
  ASSUME NEW x \in Nat, NEW u \in Nat \ {0}, NEW W \in Nat, x <= u * W
  PROVE  x \div u \in Nat /\ x \div u <= W
<1> DEFINE q == x \div u
<1>1. q \in Nat /\ u * q <= x
  OBVIOUS
<1> HIDE DEF q
<1>2. q <= W
  <2> SUFFICES ASSUME q >= W + 1 PROVE FALSE
    BY <1>1
  <2>1. u * q >= u * (W + 1)
    BY <1>1
  <2> QED
    BY <1>1, <2>1
<1> QED
  BY <1>1, <1>2 DEF q

(* A fraction of the field of view is a fraction of it. *)
LEMMA FractionOfView ==
  ASSUME NEW x \in Nat, NEW W \in Nat \ {0}, x <= W, NEW F \in Nat,
         NEW d \in Nat, NEW k \in Nat, F <= 2 * d, F <= 2 * (k - d)
  PROVE  /\ ((2 * x - W) * F) \div (2 * W) \in Int
         /\ d + ((2 * x - W) * F) \div (2 * W) \in 0 .. k
<1> DEFINE m == 2 * W
           n == (2 * x - W) * F
           q == n \div m
           w == W * F
           u == W * d
           v == W * (k - d)
<1>1. /\ m \in Nat \ {0} /\ n \in Int /\ w \in Nat /\ u \in Nat /\ v \in Int
  OBVIOUS
<1>2. -w <= n /\ n <= w
  <2>1. 2 * x - W \in Int /\ -W <= 2 * x - W /\ 2 * x - W <= W
    OBVIOUS
  <2> DEFINE y == 2 * x - W
  <2>2. y \in Int /\ 0 <= (y + W) * F /\ 0 <= (W - y) * F
    <3>1. y \in Int /\ y + W \in Nat /\ W - y \in Nat
      BY <2>1
    <3> HIDE DEF y
    <3>2. \A i \in Nat : 0 <= i * F
      OBVIOUS
    <3>3. 0 <= (y + W) * F
      BY <3>1, <3>2
    <3>4. 0 <= (W - y) * F
      BY <3>1, <3>2
    <3> QED
      BY <3>1, <3>3, <3>4
  <2> HIDE DEF y
  <2>3. (y + W) * F = y * F + W * F /\ (W - y) * F = W * F - y * F
    BY <2>2
  <2> QED
    BY <2>2, <2>3 DEF y
<1>3. w <= W * (2 * d) /\ w <= W * (2 * (k - d))
  OBVIOUS
<1>4. W * (2 * d) = 2 * u /\ W * (2 * (k - d)) = 2 * v
  OBVIOUS
<1>5. q \in Int /\ m * q <= n /\ n < m * q + m
  <2> HIDE DEF m, n
  <2> QED
    BY <1>1
<1>6. m * q = 2 * (W * q)
  <2> HIDE DEF q
  <2> QED
    BY <1>5
<1>7. W * q + W > -u
  BY <1>1, <1>2, <1>3, <1>4, <1>5, <1>6
<1>8. W * q <= v
  BY <1>1, <1>2, <1>3, <1>4, <1>5, <1>6
<1> HIDE DEF q
<1>9. W * (q + 1 + d) > 0
  BY <1>5, <1>7
<1>10. W * (q - (k - d)) <= 0
  BY <1>5, <1>8
<1>11. q + 1 + d > 0
  <2> SUFFICES ASSUME -(q + 1 + d) >= 0 PROVE FALSE
    BY <1>5
  <2>1. W * (-(q + 1 + d)) >= 0
    BY <1>5
  <2> QED
    BY <1>5, <1>9, <2>1
<1>12. q - (k - d) <= 0
  <2> SUFFICES ASSUME q - (k - d) >= 1 PROVE FALSE
    BY <1>5
  <2>1. W * (q - (k - d)) >= W * 1
    BY <1>5
  <2> QED
    BY <1>5, <1>10, <2>1
<1> QED
  BY <1>5, <1>11, <1>12 DEF q

(* What the daemon turns an axis to is in its range. *)
LEMMA PlaceInRange ==
  ASSUME Tracking, NEW a \in Axes
  PROVE  /\ Place(a) \in 0 .. Span[a] /\ DefaultDeg[a] \in 0 .. Span[a]
         /\ stage # "iterate" =>
              Offset(a) \in Int /\ DefaultDeg[a] + Offset(a) \in 0 .. Span[a]
<1>1. /\ a \in {"pan", "tilt"} /\ Axes = {"pan", "tilt"}
      /\ DefaultDeg["pan"] \in Nat /\ DefaultDeg["tilt"] \in Nat
      /\ Span["pan"] \in Nat /\ Span["tilt"] \in Nat
  BY AutonomyDaemonAssumption, DevicesAssumption
<1>2. DefaultDeg[a] \in 0 .. Span[a]
  BY <1>1, ViewAssumption
<1>3. ASSUME stage # "iterate"
      PROVE  Offset(a) \in Int /\ DefaultDeg[a] + Offset(a) \in 0 .. Span[a]
  <2>1. PICK s \in Sightings : target = Center(s)
    <3>1. /\ Len(centers) = NUM_FRAMES_MIN /\ target = Center(frames[1])
          /\ NUM_FRAMES_MIN \in Nat \ {0}
      BY <1>3, AutonomyDaemonAssumption DEF Tracking
    <3>2. frames[1] \in Sightings
      BY <3>1 DEF Tracking, Remembered
    <3> QED
      BY <3>1, <3>2
  <2>2. /\ s.x \in Nat /\ s.y \in Nat /\ s.x <= Unit * Width /\ s.y <= Unit * Height
        /\ Unit \in Nat \ {0} /\ Width \in Nat \ {0} /\ Height \in Nat \ {0}
    BY AutonomyDaemonAssumption, ViewAssumption
  <2>3. target.x = s.x \div Unit /\ target.y = s.y \div Unit
    BY <2>1 DEF Center, Point
  <2>4. target.x \in Nat /\ target.x <= Width
    BY <2>2, <2>3, DivBound
  <2>5. target.y \in Nat /\ target.y <= Height
    BY <2>2, <2>3, DivBound
  <2>6. /\ dYaw(target) \in Int /\ DefaultDeg["pan"] + dYaw(target) \in 0 .. Span["pan"]
    BY <1>1, <2>2, <2>4, FractionOfView, ViewAssumption DEF dYaw
  <2>7. /\ dPitch(target) \in Int
        /\ DefaultDeg["tilt"] + dPitch(target) \in 0 .. Span["tilt"]
    BY <1>1, <2>2, <2>5, FractionOfView, ViewAssumption DEF dPitch
  <2> QED
    BY <1>1, <2>6, <2>7 DEF Offset
<1>4. Place(a) \in 0 .. Span[a]
  <2>1. CASE stage \in Turned(a)
    BY <1>3, <2>1 DEF Place, Turned
  <2>2. CASE stage \notin Turned(a)
    BY <1>1, <1>2, <2>2 DEF Place
  <2> QED
    BY <2>1, <2>2
<1> QED
  BY <1>2, <1>3, <1>4

(* The duty of a degree of the range, and what is printed for it. *)
LEMMA Duties ==
  ASSUME NEW a \in Axes, NEW deg \in 0 .. Span[a]
  PROVE  /\ G!DutyOf(a, deg) \in Int /\ G!DutyOf(a, deg) # NaN
         /\ G!DutyOf(a, deg) = deg * DutyRange + G!Lowest(a)
         /\ G!DutyOf(a, deg) \in G!Lowest(a) .. G!Highest(a)
         /\ G!DutyOf(a, deg) \div Span[a] \in Nat
         /\ G!Rounded(a, G!DutyOf(a, deg)) = {G!DutyOf(a, deg) \div Span[a]}
<1>1. /\ DutyMin \in Nat /\ DutyRange \in Nat /\ Span[a] \in Nat \ {0} /\ deg \in Nat
      /\ NaN \notin Int
  BY DevicesAssumption
<1>2. deg * DutyRange \in Nat /\ DutyMin * Span[a] \in Nat
  BY <1>1
<1>3. G!Lowest(a) = DutyMin * Span[a] /\ G!Highest(a) = (DutyMin + DutyRange) * Span[a]
  BY DEF G!Lowest, G!Highest
<1>4. deg # NaN /\ NaN \notin {deg * DutyRange, DutyMin * Span[a]}
  BY <1>1, <1>2
<1>5. G!DutyOf(a, deg) = deg * DutyRange + DutyMin * Span[a]
  BY <1>3, <1>4 DEF G!DutyOf, G!DutyIncr, G!Plus
<1>6. deg * DutyRange <= Span[a] * DutyRange
  BY <1>1
<1>7. (DutyMin + DutyRange) * Span[a] = DutyMin * Span[a] + Span[a] * DutyRange
  BY <1>1
<1>8. Span[a] * DutyRange \in Nat
  BY <1>1
<1>9. /\ G!DutyOf(a, deg) \in Nat
      /\ DutyMin * Span[a] <= G!DutyOf(a, deg)
      /\ G!DutyOf(a, deg) <= (DutyMin + DutyRange) * Span[a]
  BY <1>2, <1>5, <1>6, <1>7, <1>8
<1> DEFINE d == G!DutyOf(a, deg)
<1>10. d \in Nat /\ d # NaN
  BY <1>1, <1>9
<1> HIDE DEF d
<1>11. d \div Span[a] \in Nat
  BY <1>1, <1>10
<1>12. G!Rounded(a, d) = {d \div Span[a]}
  BY <1>10 DEF G!Rounded
<1> QED
  BY <1>2, <1>3, <1>5, <1>7, <1>8, <1>9, <1>10, <1>11, <1>12 DEF d

(* A step from the default position ends where the target is. *)
LEMMA StepDuties ==
  ASSUME NEW a \in Axes, NEW e \in Int, DefaultDeg[a] \in 0 .. Span[a],
         DefaultDeg[a] + e \in 0 .. Span[a]
  PROVE  G!Plus(G!DutyIncr(e), G!DutyOf(a, DefaultDeg[a]))
           = G!DutyOf(a, DefaultDeg[a] + e)
<1> DEFINE s == DefaultDeg[a]
<1>1. /\ s \in Nat /\ DutyRange \in Nat /\ NaN \notin Int
  BY DevicesAssumption
<1>2. /\ G!DutyOf(a, s) \in Int /\ G!DutyOf(a, s) = s * DutyRange + G!Lowest(a)
      /\ G!DutyOf(a, s + e) = (s + e) * DutyRange + G!Lowest(a)
  BY Duties
<1>3. G!Lowest(a) \in Int
  BY DevicesAssumption DEF G!Lowest
<1> HIDE DEF s
<1>4. /\ e * DutyRange \in Int /\ s * DutyRange \in Int
      /\ (s + e) * DutyRange = s * DutyRange + e * DutyRange
  BY <1>1
<1>5. G!DutyIncr(e) = e * DutyRange
  BY <1>1 DEF G!DutyIncr
<1>6. NaN \notin {e * DutyRange, G!DutyOf(a, s)}
  BY <1>1, <1>2, <1>4
<1>7. G!Plus(e * DutyRange, G!DutyOf(a, s)) = e * DutyRange + G!DutyOf(a, s)
  BY <1>6 DEF G!Plus
<1> QED
  BY <1>2, <1>3, <1>4, <1>5, <1>7 DEF s

(* Both axes are built at their default positions. *)
LEMMA AimInit ==
  ASSUME Init
  PROVE  Aim
<1>1. /\ stage = "iterate" /\ main \in Threads /\ fireFP = <<>> /\ pin = 0
      /\ phase = [t \in Threads |-> "idle"] /\ op = [t \in Threads |-> G!Idle]
  BY AutonomyDaemonAssumption DEF Init, A!Init, G!Init
<1>2. /\ stream = [a \in Axes |-> <<>>]
      /\ duty = [a \in Axes |-> G!DutyOf(a, DefaultDeg[a])]
      /\ device = [a \in Axes |-> G!DutyOf(a, DefaultDeg[a]) \div Span[a]]
  BY DEF Init, G!Init
<1>3. (CHOOSE a \in Axes : TRUE) \in Axes
  BY AutonomyDaemonAssumption
<1>4. MachineTypes /\ call.stage = "idle"
  BY <1>1, <1>2, <1>3 DEF MachineTypes, G!Idle, G!Stages, Stages, call
<1>5. Pulling
  BY <1>1 DEF Pulling
<1>6. \A a \in Axes : Settled(a)
  <2> TAKE a \in Axes
  <2>1. DefaultDeg[a] + 0 = DefaultDeg[a]
    BY DevicesAssumption
  <2>2. Place(a) = DefaultDeg[a]
    BY <1>1, <2>1 DEF Place, Turned
  <2> QED
    BY <1>2, <2>2 DEF Settled
<1> QED
  BY <1>4, <1>5, <1>6 DEF Aim

(* Settled depends on nothing but these. *)
LEMMA SettledSame ==
  ASSUME NEW a \in Axes, Settled(a), Place(a)' = Place(a),
         duty'[a] = duty[a], device'[a] = device[a], stream'[a] = stream[a]
  PROVE  Settled(a)'
  BY DEF Settled

(* Nothing of the devices moves, and no axis is turned. *)
LEMMA StandStill ==
  ASSUME Aim, call.stage = "idle", phase[main] = "idle",
         UNCHANGED <<accelVars, gimbleVars>>,
         \A a \in Axes : Place(a)' = Place(a), stage' \in Stages
  PROVE  Aim'
<1>1. UNCHANGED <<fireFP, pin, phase, stream, device, duty, op>>
  BY DEF accelVars, gimbleVars
<1>2. MachineTypes' /\ call' = call
  BY <1>1 DEF Aim, MachineTypes, call
<1>3. Pulling'
  BY <1>1, <1>2 DEF Aim, Pulling
<1>4. \A a \in Axes : Settled(a)'
  BY <1>1 DEF Aim, Settled
<1> QED
  BY <1>2, <1>3, <1>4 DEF Aim

(* No axis turns while the daemon looks. *)
LEMMA SeeAims ==
  ASSUME Aim, See
  PROVE  Aim'
<1>1. /\ stage = "iterate" /\ UNCHANGED <<accelVars, gimbleVars>>
      /\ stage' \in {"iterate", "stepPan"}
  BY DEF See, ReadFails, SeeNothing, SeeTeleport, SeeTarget, autonomyVars,
         daemonVars
<1>2. call.stage = "idle" /\ phase[main] = "idle"
  BY <1>1 DEF Aim, OneCall, Pulling
<1>3. \A a \in Axes : Place(a)' = Place(a)
  BY <1>1 DEF Place, Turned
<1> QED
  BY <1>1, <1>2, <1>3, StandStill DEF Stages

(* Both axes are back when the daemon clears its frames. *)
LEMMA ClearAims ==
  ASSUME Aim, Clear
  PROVE  Aim'
<1>1. /\ stage = "clear" /\ UNCHANGED <<accelVars, gimbleVars>> /\ stage' = "iterate"
      /\ call.stage = "idle" /\ phase[main] = "idle"
  BY DEF Clear, Returned, call
<1>2. \A a \in Axes : Place(a)' = Place(a)
  BY <1>1 DEF Place, Turned
<1> QED
  BY <1>1, <1>2, StandStill DEF Stages

(* A call is made: axis b is to be turned. *)
LEMMA CallAims ==
  ASSUME Aim, call.stage = "idle", phase[main] = "idle",
         NEW b \in Axes, Turning' = b, NEW kind \in {"step", "set"}, NEW arg \in Int,
         G!Call(main, kind, b, arg), UNCHANGED <<accelVars, target>>,
         stage' \in {"stepTilt", "fire", "setTilt", "clear"},
         \A a \in Axes : a # b => Place(a)' = Place(a),
         IF stage' \in {"stepTilt", "fire"}
         THEN kind = "step" /\ arg = Offset(b) /\ Place(b) = DefaultDeg[b]
         ELSE kind = "set" /\ arg = DefaultDeg[b]
  PROVE  Aim'
<1>1. /\ UNCHANGED <<fireFP, pin, phase, stream, device, duty, target>>
      /\ main \in Threads
      /\ op' = [op EXCEPT ![main] = [stage |-> "check", kind |-> kind, axis |-> b,
                                     arg |-> arg, new |-> 0]]
  BY AutonomyDaemonAssumption DEF accelVars, G!Call
<1>2. DOMAIN op = Threads
  BY DEF Aim, MachineTypes
<1>3. call' = [stage |-> "check", kind |-> kind, axis |-> b, arg |-> arg, new |-> 0]
  BY <1>1, <1>2 DEF call
<1>5. MachineTypes'
  BY <1>1, <1>3 DEF Aim, MachineTypes, Stages, G!Stages
<1>6. Pulling'
  BY <1>1 DEF Aim, Pulling
<1>7. \A a \in Axes : a # b => Settled(a)'
  BY <1>1 DEF Aim, Settled
<1>8. Offset(b)' = Offset(b)
  BY <1>1 DEF Offset
<1>9. OneCall'
  <2>1. Settled(b)
    BY DEF Aim
  <2>2. /\ stream'[b] = <<>>
        /\ kind = "step" => duty'[b] = G!DutyOf(b, DefaultDeg[b])
    BY <1>1, <2>1 DEF Settled
  <2>3. /\ call'.axis = b /\ call'.kind = kind /\ call'.arg = arg
        /\ call'.stage = "check"
    BY <1>3
  <2> QED
    BY <1>8, <2>2, <2>3 DEF OneCall
<1> QED
  BY <1>3, <1>5, <1>6, <1>7, <1>9 DEF Aim

(* The five steps of a shot: each is a call of a device, but the last. *)
LEMMA ShootAims ==
  ASSUME Aim, Tracking, Shoot
  PROVE  Aim'
<1>1. Axes = {"pan", "tilt"} /\ DefaultDeg["pan"] \in Int /\ DefaultDeg["tilt"] \in Int
  BY AutonomyDaemonAssumption, DevicesAssumption
<1>2. stage # "iterate" => Offset("pan") \in Int /\ Offset("tilt") \in Int
  BY <1>1, PlaceInRange
<1>3. \A a \in Axes : DefaultDeg[a] + 0 = DefaultDeg[a]
  BY <1>1
<1> USE DEF call
<1>4. CASE StepPan
  <2>1. /\ stage = "stepPan" /\ stage' = "stepTilt" /\ op[main].stage = "idle"
        /\ phase[main] = "idle"
        /\ G!Call(main, "step", "pan", Offset("pan")) /\ UNCHANGED <<accelVars, target>>
    BY <1>4 DEF StepPan, Calls, Returned, Offset
  <2>2. /\ Place("pan") = DefaultDeg["pan"] /\ Place("tilt")' = Place("tilt")
        /\ Turning' = "pan"
    BY <1>1, <1>3, <2>1 DEF Place, Turned, Turning
  <2> QED
    BY <1>1, <1>2, <2>1, <2>2, CallAims
<1>5. CASE StepTilt
  <2>1. /\ stage = "stepTilt" /\ stage' = "fire" /\ op[main].stage = "idle"
        /\ phase[main] = "idle"
        /\ G!Call(main, "step", "tilt", Offset("tilt"))
        /\ UNCHANGED <<accelVars, target>>
    BY <1>5 DEF StepTilt, Calls, Returned, Offset
  <2>2. /\ Place("tilt") = DefaultDeg["tilt"] /\ Place("pan")' = Place("pan")
        /\ Turning' = "tilt"
    BY <1>1, <1>3, <2>1 DEF Place, Turned, Turning, Offset
  <2> QED
    BY <1>1, <1>2, <2>1, <2>2, CallAims
<1>6. CASE SetPan
  <2>1. /\ stage = "setPan" /\ stage' = "setTilt" /\ op[main].stage = "idle"
        /\ phase[main] = "idle"
        /\ G!Call(main, "set", "pan", DefaultDeg["pan"])
        /\ UNCHANGED <<accelVars, target>>
    BY <1>6 DEF SetPan, Calls, Returned
  <2>2. Place("tilt")' = Place("tilt") /\ Turning' = "pan"
    BY <1>1, <2>1 DEF Place, Turned, Turning, Offset
  <2> QED
    BY <1>1, <2>1, <2>2, CallAims
<1>7. CASE SetTilt
  <2>1. /\ stage = "setTilt" /\ stage' = "clear" /\ op[main].stage = "idle"
        /\ phase[main] = "idle"
        /\ G!Call(main, "set", "tilt", DefaultDeg["tilt"])
        /\ UNCHANGED <<accelVars, target>>
    BY <1>7 DEF SetTilt, Calls, Returned
  <2>2. Place("pan")' = Place("pan") /\ Turning' = "tilt"
    BY <1>1, <2>1 DEF Place, Turned, Turning, Offset
  <2> QED
    BY <1>1, <2>1, <2>2, CallAims
<1>8. CASE Fire
  <2>1. /\ stage = "fire" /\ stage' = "setPan" /\ op[main].stage = "idle"
        /\ phase[main] = "idle"
        /\ phase' = [phase EXCEPT ![main] = "loop"] /\ UNCHANGED <<fireFP, pin, target>>
        /\ UNCHANGED gimbleVars
    BY <1>8 DEF Fire, Returned, A!Fire, A!Move
  <2>2. UNCHANGED <<stream, device, duty, op>> /\ main \in Threads
    BY <2>1, AutonomyDaemonAssumption DEF gimbleVars
  <2>3. MachineTypes'
    BY <2>1, <2>2 DEF Aim, MachineTypes, Stages
  <2>4. phase'[main] = "loop"
    BY <2>1, <2>2 DEF Aim, MachineTypes
  <2>5. Pulling'
    BY <2>1, <2>2, <2>4 DEF Aim, Pulling
  <2>6. \A a \in Axes : Place(a)' = Place(a)
    BY <1>1, <2>1 DEF Place, Turned, Offset
  <2>7. \A a \in Axes : Settled(a)'
    BY <2>1, <2>2, <2>6 DEF Aim, Settled
  <2> QED
    BY <2>1, <2>2, <2>3, <2>5, <2>7 DEF Aim
<1> QED
  BY <1>4, <1>5, <1>6, <1>7, <1>8, ClearAims DEF Shoot

(* A step of the call under way. *)
LEMMA GimbleAims ==
  ASSUME Aim, Tracking, GimbleStep(main)
  PROVE  Aim'
<1> DEFINE b == Turning
           d == G!DutyOf(b, Place(b))
<1>1. /\ UNCHANGED <<fireFP, pin, phase, stage, target>> /\ main \in Threads
      /\ b \in Axes
      /\ G!Step(main)
  BY AutonomyDaemonAssumption DEF GimbleStep, accelVars, daemonVars, Turning
<1>2. /\ MachineTypes /\ Pulling /\ DOMAIN op = Threads
      /\ call \in [stage : G!Stages, kind : {"none", "set", "step"},
                   axis : Axes, arg : Int, new : Int]
  BY DEF Aim, MachineTypes
<1>3. call.stage # "idle"
  BY <1>1
  DEF G!Step, G!CheckSet, G!CheckStep, G!GetDeg, G!PrintDuty, G!Flush, G!Record,
      G!At, call
<1>4. OneCall /\ \A a \in Axes : a # b => Settled(a)
  BY <1>3 DEF Aim
<1>5. /\ stage # "iterate" /\ call.axis = b
      /\ Place(b) \in 0 .. Span[b] /\ DefaultDeg[b] \in 0 .. Span[b]
      /\ Offset(b) \in Int /\ DefaultDeg[b] + Offset(b) \in 0 .. Span[b]
  BY <1>1, <1>4, PlaceInRange DEF OneCall
<1>6. /\ d \in Int /\ d # NaN /\ d \in G!Lowest(b) .. G!Highest(b)
      /\ d \div Span[b] \in Nat /\ G!Rounded(b, d) = {d \div Span[b]}
  BY <1>1, <1>5, Duties
<1>7. Turning' = b /\ \A a \in Axes : Place(a)' = Place(a) /\ Offset(a)' = Offset(a)
  BY <1>1 DEF Turning, Place, Offset
<1>8. /\ NaN \notin Int /\ Garbage \notin Int /\ G!Lowest(b) \in Int
      /\ G!Highest(b) \in Int
  BY <1>1, DevicesAssumption DEF G!Lowest, G!Highest
<1>9. phase[main] = "idle"
  BY <1>2, <1>3 DEF Pulling
<1> HIDE DEF b, d
<1>10. ASSUME call'.stage \in G!Stages \ {"idle"},
              call' = [call EXCEPT !.stage = call'.stage, !.new = call'.new],
              call'.new \in Int, DOMAIN op' = Threads,
              UNCHANGED duty, DOMAIN device' = Axes, DOMAIN stream' = Axes,
              \A a \in Axes : a # b => device'[a] = device[a] /\ stream'[a] = stream[a],
              call'.stage # "check",
              call'.new = d,
              stream'[b] = IF call'.stage = "flush" THEN <<d \div Span[b]>> ELSE <<>>,
              call'.stage = "record" => device'[b] = d \div Span[b]
       PROVE  Aim'
  <2>1. /\ call'.kind = call.kind /\ call'.axis = call.axis /\ call'.arg = call.arg
        /\ call' \in [stage : G!Stages, kind : {"none", "set", "step"},
                      axis : Axes, arg : Int, new : Int]
    BY <1>2, <1>10
  <2>2. MachineTypes'
    BY <1>1, <1>2, <1>10, <2>1 DEF MachineTypes
  <2>3. Pulling'
    BY <1>1, <1>2, <1>9, <1>10 DEF Pulling
  <2>4. \A a \in Axes : a # b => Settled(a)'
    BY <1>4, <1>7, <1>10 DEF Settled
  <2>5. OneCall'
    BY <1>1, <1>4, <1>5, <1>7, <1>10, <2>1 DEF OneCall, b, d
  <2> QED
    BY <1>7, <1>10, <2>2, <2>3, <2>4, <2>5 DEF Aim
<1>11. CASE G!CheckSet(main)
  <2>1. call.stage = "check" /\ call.kind = "set"
    BY <1>11 DEF G!CheckSet, G!At, call
  <2>2. call.arg = DefaultDeg[b] /\ Place(b) = DefaultDeg[b] /\ stream[b] = <<>>
    BY <1>4, <1>5, <2>1 DEF OneCall, b, Place, Turned, Turning
  <2>3. G!strtod(op[main].arg) = DefaultDeg[b] /\ op[main].axis = b
    BY <1>5, <1>8, <2>2 DEF G!strtod, call
  <2>4. ~G!Outside(DefaultDeg[b], 0, Span[b])
    BY <1>1, <1>5, DevicesAssumption DEF G!Outside
  <2>5. /\ op' = [op EXCEPT ![main].stage = "print", ![main].new = d]
        /\ UNCHANGED <<stream, device, duty>>
    BY <1>11, <2>2, <2>3, <2>4 DEF G!CheckSet, G!Accept, d
  <2>6. call' = [call EXCEPT !.stage = "print", !.new = d] /\ DOMAIN op' = Threads
    BY <1>1, <1>2, <2>5 DEF call
  <2>7. /\ call'.stage = "print" /\ call'.new = d
    BY <1>2, <2>6
  <2> QED
    BY <1>2, <1>6, <1>10, <2>2, <2>5, <2>6, <2>7 DEF MachineTypes, G!Stages
<1>12. CASE G!CheckStep(main)
  <2>1. call.stage = "check" /\ call.kind = "step"
    BY <1>12 DEF G!CheckStep, G!At, call
  <2>2. /\ call.arg = Offset(b) /\ Place(b) = DefaultDeg[b] + Offset(b)
        /\ stream[b] = <<>>
        /\ duty[b] = G!DutyOf(b, DefaultDeg[b])
    BY <1>4, <1>5, <2>1 DEF OneCall, b, Place, Turned, Turning
  <2>3. G!strtod(op[main].arg) = Offset(b) /\ op[main].axis = b
    BY <1>5, <1>8, <2>2 DEF G!strtod, call
  <2>4. G!Plus(G!DutyIncr(Offset(b)), duty[b]) = d
    BY <1>1, <1>5, <2>2, StepDuties DEF d
  <2>a. ~G!Outside(d, G!Lowest(b), G!Highest(b))
    BY <1>6, <1>8 DEF G!Outside
  <2>5. /\ op' = [op EXCEPT ![main].stage = "print", ![main].new = d]
        /\ UNCHANGED <<stream, device, duty>>
    BY <1>12, <2>3, <2>4, <2>a DEF G!CheckStep, G!Accept
  <2>6. call' = [call EXCEPT !.stage = "print", !.new = d] /\ DOMAIN op' = Threads
    BY <1>1, <1>2, <2>5 DEF call
  <2>7. /\ call'.stage = "print" /\ call'.new = d
    BY <1>2, <2>6
  <2> QED
    BY <1>2, <1>6, <1>10, <2>2, <2>5, <2>6, <2>7 DEF MachineTypes, G!Stages
<1>13. CASE G!GetDeg(main)
  BY <1>4, <1>13 DEF G!GetDeg, G!At, OneCall, call
<1>14. CASE G!PrintDuty(main)
  <2>1. call.stage = "print" /\ call.new = d /\ stream[b] = <<>> /\ op[main].axis = b
    BY <1>4, <1>5, <1>14 DEF G!PrintDuty, OneCall, call, b, d
  <2>2. /\ stream' = [stream EXCEPT ![b] = Append(stream[b], d \div Span[b])]
        /\ op' = [op EXCEPT ![main].stage = "flush"]
        /\ UNCHANGED <<device, duty>>
    BY <1>6, <1>14, <2>1 DEF G!PrintDuty, call
  <2>3. stream' = [stream EXCEPT ![b] = <<d \div Span[b]>>]
    BY <2>1, <2>2
  <2>6. call' = [call EXCEPT !.stage = "flush"] /\ DOMAIN op' = Threads
    BY <1>1, <1>2, <2>2 DEF call
  <2>7. /\ call'.stage = "flush" /\ call'.new = d
        /\ call' = [call EXCEPT !.stage = call'.stage, !.new = call'.new]
    BY <1>2, <2>1, <2>6
  <2>8. /\ stream'[b] = <<d \div Span[b]>> /\ DOMAIN stream' = Axes
        /\ \A a \in Axes : a # b => stream'[a] = stream[a]
    BY <1>1, <1>2, <2>3 DEF MachineTypes, b
  <2> QED
    BY <1>2, <1>6, <1>10, <2>2, <2>6, <2>7, <2>8 DEF MachineTypes, G!Stages
<1>15. CASE G!Flush(main)
  <2>1. /\ call.stage = "flush" /\ call.new = d /\ stream[b] = <<d \div Span[b]>>
        /\ op[main].axis = b
    BY <1>4, <1>5, <1>15 DEF G!Flush, OneCall, call, b, d
  <2>2. G!Accepted(stream[b]) /\ stream[b][1] = d \div Span[b]
    BY <1>6, <2>1 DEF G!Accepted
  <2>3. /\ device' = [device EXCEPT ![b] = d \div Span[b]]
        /\ stream' = [stream EXCEPT ![b] = <<>>]
        /\ op' = [op EXCEPT ![main].stage = "record"]
        /\ UNCHANGED duty
    BY <1>15, <2>1, <2>2 DEF G!Flush
  <2>6. call' = [call EXCEPT !.stage = "record"] /\ DOMAIN op' = Threads
    BY <1>1, <1>2, <2>3 DEF call
  <2>7. /\ call'.stage = "record" /\ call'.new = d
        /\ call' = [call EXCEPT !.stage = call'.stage, !.new = call'.new]
    BY <1>2, <2>1, <2>6
  <2>8. /\ stream'[b] = <<>> /\ DOMAIN stream' = Axes /\ device'[b] = d \div Span[b]
        /\ DOMAIN device' = Axes
        /\ \A a \in Axes : a # b => stream'[a] = stream[a] /\ device'[a] = device[a]
    BY <1>1, <1>2, <2>3 DEF MachineTypes, b
  <2> QED
    BY <1>2, <1>6, <1>10, <2>3, <2>6, <2>7, <2>8 DEF MachineTypes, G!Stages
<1>16. CASE G!Record(main)
  <2>1. /\ call.stage = "record" /\ call.new = d /\ stream[b] = <<>>
        /\ device[b] = d \div Span[b]
        /\ op[main].axis = b
    BY <1>4, <1>5, <1>16 DEF G!Record, OneCall, call, b, d
  <2>2. /\ duty' = [duty EXCEPT ![b] = d] /\ op' = [op EXCEPT ![main].stage = "idle"]
        /\ UNCHANGED <<stream, device>>
    BY <1>16, <2>1 DEF G!Record, G!Finish, call
  <2>3. call' = [call EXCEPT !.stage = "idle"] /\ DOMAIN op' = Threads
    BY <1>1, <1>2, <2>2 DEF call
  <2>4. /\ call'.stage = "idle"
        /\ call' \in [stage : G!Stages, kind : {"none", "set", "step"},
                      axis : Axes, arg : Int, new : Int]
    BY <1>2, <2>3 DEF G!Stages
  <2>5. MachineTypes'
    BY <1>1, <1>2, <2>2, <2>3, <2>4 DEF MachineTypes
  <2>6. Pulling'
    BY <1>1, <1>2, <1>9 DEF Pulling
  <2>7. duty'[b] = d /\ \A a \in Axes : a # b => duty'[a] = duty[a]
    BY <1>1, <1>2, <2>2 DEF MachineTypes, b
  <2>8. \A a \in Axes : a # b => Settled(a)'
    BY <1>4, <1>7, <2>2, <2>7 DEF Settled
  <2>9. b \in Axes /\ Place(b)' = Place(b)
    BY <1>1, <1>7 DEF b
  <2>10. \A a \in Axes : a = b => Settled(a)'
    <3> SUFFICES ASSUME NEW a \in Axes, a = b PROVE Settled(a)'
      OBVIOUS
    <3>1. d = G!DutyOf(a, Place(a)) /\ Place(a)' = Place(a)
      BY <1>7 DEF d
    <3>2. device'[a] = d \div Span[a] /\ duty'[a] = d /\ stream'[a] = <<>>
      BY <2>1, <2>2, <2>7
    <3> HIDE DEF b, d
    <3> QED
      BY <3>1, <3>2 DEF Settled
  <2>11. \A a \in Axes : Settled(a)'
    BY <2>8, <2>10
  <2> QED
    BY <2>4, <2>5, <2>6, <2>11 DEF Aim
<1> QED
  BY <1>1, <1>11, <1>12, <1>13, <1>14, <1>15, <1>16 DEF G!Step

(* A step of the pulse. *)
LEMMA AccelAims ==
  ASSUME Aim, AccelStep(main)
  PROVE  Aim'
<1>1. /\ UNCHANGED <<stream, device, duty, op, stage, target>> /\ main \in Threads
      /\ A!Step(main)
  BY AutonomyDaemonAssumption DEF AccelStep, gimbleVars, daemonVars
<1>2. MachineTypes /\ Pulling /\ DOMAIN phase = Threads
  BY DEF Aim, MachineTypes
<1>3. phase[main] # "idle"
  BY <1>1
  DEF A!Step, A!PrintHigh, A!FlushHigh, A!PrintLow, A!FlushLow, A!Return, A!Move
<1>4. stage = "setPan" /\ call.stage = "idle" /\ call' = call
  BY <1>1, <1>2, <1>3 DEF Pulling, call
<1>5. \A a \in Axes : Settled(a)'
  BY <1>1, <1>4 DEF Aim, Settled, Place, Offset
<1>6. \E p : phase' = [phase EXCEPT ![main] = p]
  BY <1>1
  DEF A!Step, A!PrintHigh, A!FlushHigh, A!PrintLow, A!FlushLow, A!Return, A!Move
<1>7. MachineTypes'
  BY <1>1, <1>2, <1>4, <1>6 DEF MachineTypes
<1>8. Pulling'
  <2> USE DEF A!Move
  <2>1. CASE A!PrintHigh(main)
    BY <1>1, <1>2, <1>4, <2>1 DEF Pulling, A!PrintHigh
  <2>2. CASE A!FlushHigh(main)
    BY <1>1, <1>2, <1>4, <2>2 DEF Pulling, A!FlushHigh, A!Flush, A!Level
  <2>3. CASE A!PrintLow(main)
    BY <1>1, <1>2, <1>4, <2>3 DEF Pulling, A!PrintLow
  <2>4. CASE A!FlushLow(main)
    BY <1>1, <1>2, <1>4, <2>4 DEF Pulling, A!FlushLow, A!Flush, A!Level
  <2>5. CASE A!Return(main)
    BY <1>1, <1>2, <1>4, <2>5 DEF Pulling, A!Return
  <2> QED
    BY <1>1, <2>1, <2>2, <2>3, <2>4, <2>5 DEF A!Step
<1> QED
  BY <1>4, <1>5, <1>7, <1>8 DEF Aim

(* Every step of the daemon alone. *)
LEMMA AimStep ==
  ASSUME Aim, Tracking, [Next]_autonomyVars
  PROVE  Aim'
<1>1. CASE UNCHANGED autonomyVars
  <2>1. UNCHANGED <<accelVars, gimbleVars, daemonVars>>
    BY <1>1 DEF autonomyVars
  <2> QED
    BY <2>1
    DEF accelVars, gimbleVars, daemonVars, Aim, MachineTypes, Pulling, OneCall,
        Settled, Place, Offset, Turning, call
<1> QED
  BY <1>1, SeeAims, ShootAims, GimbleAims, AccelAims DEF Next, MainStep

(* The pin is high only while both axes point at the target: their recorded
   duties, and what the device files hold, are those of the default position
   and the target's offset (AutonomyDaemon_Iterate, AutonomyDaemon_Fire). *)
THEOREM ShotsOnTarget == Spec => []OnTarget
<1>1. Tracking /\ Aim /\ [Next]_autonomyVars => Tracking' /\ Aim'
  BY TrackingStep, AimStep DEF Next, MainStep, GimbleStep, AccelStep, autonomyVars
<1>2. Tracking /\ Aim => OnTarget
  <2> SUFFICES ASSUME Tracking, Aim, pin = 1
               PROVE  Aimed("pan", dYaw(target)) /\ Aimed("tilt", dPitch(target))
    BY DEF OnTarget
  <2>1. stage = "setPan" /\ call.stage = "idle"
    BY DEF Aim, Pulling
  <2>2. Settled("pan") /\ Settled("tilt")
    BY <2>1, AutonomyDaemonAssumption DEF Aim
  <2> QED
    BY <2>1, <2>2 DEF Settled, Place, Turned, Offset, Aimed
<1> QED
  BY <1>1, <1>2, TrackingInit, AimInit, PTL DEF Spec

(* The daemon looks only from the default position: while it reads frames both
   axes are back where they were built (AutonomyDaemon_Iterate turns them back
   after each shot), so the offset it computes is from there. *)
THEOREM LooksFromDefault == Spec => [](stage = "iterate" => AtDefault)
<1>1. Tracking /\ Aim /\ [Next]_autonomyVars => Tracking' /\ Aim'
  BY TrackingStep, AimStep DEF Next, MainStep, GimbleStep, AccelStep, autonomyVars
<1>2. Aim => (stage = "iterate" => AtDefault)
  <2> SUFFICES ASSUME Aim, stage = "iterate", NEW a \in Axes
               PROVE  Aimed(a, 0)
    BY DEF AtDefault
  <2>1. Settled(a)
    BY DEF Aim, OneCall
  <2>2. DefaultDeg[a] \in Int
    BY DevicesAssumption
  <2>3. Place(a) = DefaultDeg[a] + 0
    BY <2>2 DEF Place, Turned
  <2> QED
    BY <2>1, <2>3 DEF Settled, Aimed
<1> QED
  BY <1>1, <1>2, TrackingInit, AimInit, PTL DEF Spec

-----------------------------------------------------------------------------
(* What daemon and user do to the hardware together. *)

(* No argument of the user's is NaN, which passes every range check. *)
NoNaN == NaN \notin UserSets

(* The calls of either thread: the daemon and the user turn, neither asks. *)
Ops == [stage : G!Stages, kind : {"none", "set", "step"}, axis : Axes,
        arg : Int \cup {Garbage}, new : Int]

(* With arguments that are numbers, or none at all, every duty is a number. *)
ServoTypes ==
  /\ stream \in [Axes -> Seq(Int)]
  /\ device \in [Axes -> Int] /\ duty \in [Axes -> Int]
  /\ op \in [Threads -> Ops]

(* What was accepted is in the range, and so is all that was printed. *)
Servos == ServoTypes /\ G!InRange /\ G!AcceptedInRange /\ G!PrintedInRange

(* The ranges of the duties are numbers. *)
LEMMA RangeTypes ==
  /\ DutyMin \in Nat /\ DutyRange \in Nat /\ NaN \notin Int /\ Garbage \notin Int
  /\ \A a \in Axes :
       Span[a] \in Nat \ {0} /\ G!Lowest(a) \in Int /\ G!Highest(a) \in Int
BY DevicesAssumption DEF G!Lowest, G!Highest

(* What is printed for a duty of the range is one the servo stands. *)
LEMMA RoundedStands ==
  ASSUME NEW a \in Axes, NEW d \in G!Lowest(a) .. G!Highest(a),
         NEW n \in G!Rounded(a, d)
  PROVE  n \in DutyMin .. DutyMin + DutyRange
<1> DEFINE k == Span[a]
           hi == DutyMin + DutyRange
<1>1. k \in Nat \ {0} /\ DutyMin \in Nat /\ hi \in Nat
  BY RangeTypes
<1>2. d \in Int /\ DutyMin * k <= d /\ d <= hi * k
  BY <1>1 DEF G!Lowest, G!Highest
<1>3. n = d \div k
  BY <1>2, RangeTypes DEF G!Rounded
<1> HIDE DEF k, hi
<1>4. n \in Int /\ k * n <= d /\ d < k * n + k
  BY <1>1, <1>2, <1>3
<1>5. n >= DutyMin
  <2> SUFFICES ASSUME n + 1 <= DutyMin PROVE FALSE
    BY <1>1, <1>4
  <2>1. k * (n + 1) <= k * DutyMin
    BY <1>1, <1>4
  <2> QED
    BY <2>1, <1>1, <1>2, <1>4
<1>6. n <= hi
  <2> SUFFICES ASSUME n >= hi + 1 PROVE FALSE
    BY <1>1, <1>4
  <2>1. k * n >= k * (hi + 1)
    BY <1>1, <1>4
  <2> QED
    BY <2>1, <1>1, <1>2, <1>4
<1> QED
  BY <1>1, <1>4, <1>5, <1>6 DEF hi

(* Both axes start where they were built. *)
LEMMA ServosInit ==
  ASSUME Init
  PROVE  Servos
<1>1. ASSUME NEW a \in Axes
      PROVE  /\ G!DutyOf(a, DefaultDeg[a]) \in G!Lowest(a) .. G!Highest(a)
             /\ G!DutyOf(a, DefaultDeg[a]) \in Int
             /\ G!DutyOf(a, DefaultDeg[a]) \div Span[a]
                  \in DutyMin .. DutyMin + DutyRange
  <2>1. DefaultDeg[a] \in 0 .. Span[a]
    BY TrackingInit, PlaceInRange
  <2>2. /\ G!DutyOf(a, DefaultDeg[a]) \in G!Lowest(a) .. G!Highest(a)
        /\ G!DutyOf(a, DefaultDeg[a]) \in Int
        /\ G!DutyOf(a, DefaultDeg[a]) \div Span[a]
             \in G!Rounded(a, G!DutyOf(a, DefaultDeg[a]))
    BY <2>1, Duties
  <2> QED
    BY <2>2, RoundedStands
<1>2. /\ stream = [a \in Axes |-> <<>>]
      /\ duty = [a \in Axes |-> G!DutyOf(a, DefaultDeg[a])]
      /\ device = [a \in Axes |-> G!DutyOf(a, DefaultDeg[a]) \div Span[a]]
      /\ op = [t \in Threads |-> G!Idle]
  BY DEF Init, G!Init
<1>3. G!Idle \in Ops /\ G!Idle.stage = "idle"
  BY AutonomyDaemonAssumption DEF G!Idle, Ops, G!Stages
<1>4. ServoTypes
  BY <1>1, <1>2, <1>3, RangeTypes DEF ServoTypes
<1> QED
  BY <1>1, <1>2, <1>3, <1>4
  DEF Servos, G!InRange, G!AcceptedInRange, G!PrintedInRange

(* Nothing that leaves the gimble alone disturbs this. *)
LEMMA ServosSame ==
  ASSUME Servos, UNCHANGED gimbleVars
  PROVE  Servos'
BY DEF gimbleVars, Servos, ServoTypes, G!InRange, G!AcceptedInRange,
       G!PrintedInRange

(* A thread asks the gimble to turn. *)
LEMMA ServosCall ==
  ASSUME Servos, NEW t \in Threads, NEW kind \in {"set", "step"}, NEW a \in Axes,
         NEW arg \in Int \cup {Garbage}, G!Call(t, kind, a, arg)
  PROVE  Servos'
<1> DEFINE o == [stage |-> "check", kind |-> kind, axis |-> a, arg |-> arg, new |-> 0]
<1>1. op' = [op EXCEPT ![t] = o] /\ UNCHANGED <<stream, device, duty>>
  BY DEF G!Call
<1>2. o \in Ops /\ o.stage = "check"
  BY DEF Ops, G!Stages
<1> HIDE DEF o
<1> QED
  BY <1>1, <1>2
  DEF Servos, ServoTypes, G!InRange, G!AcceptedInRange, G!PrintedInRange

(* A call that moves on to its next stage is still a call. *)
LEMMA NextStage ==
  ASSUME op \in [Threads -> Ops], NEW t \in Threads, NEW s \in G!Stages,
         op' = [op EXCEPT ![t].stage = s]
  PROVE  /\ op' \in [Threads -> Ops]
         /\ \A u \in Threads : /\ op'[u].new = op[u].new /\ op'[u].axis = op[u].axis
                              /\ op'[u].stage = IF u = t THEN s ELSE op[u].stage
<1>1. [op[t] EXCEPT !.stage = s] \in Ops
  BY DEF Ops
<1> QED
  BY <1>1 DEF Ops

(* The check of a call refuses what would leave the range. *)
LEMMA ServosCheck ==
  ASSUME Servos, NEW t \in Threads, G!CheckSet(t) \/ G!CheckStep(t)
  PROVE  Servos'
<1> DEFINE a == op[t].axis
           deg == G!strtod(op[t].arg)
<1>1. /\ op \in [Threads -> Ops] /\ op[t] \in Ops /\ a \in Axes
      /\ duty[a] \in G!Lowest(a) .. G!Highest(a)
      /\ UNCHANGED <<stream, device, duty>>
      /\ G!Lowest(a) \in Int /\ G!Highest(a) \in Int /\ Span[a] \in Nat
  BY RangeTypes DEF Servos, ServoTypes, G!InRange, Ops, G!CheckSet, G!CheckStep
<1>2. deg \in Int /\ deg # NaN
  BY <1>1, RangeTypes DEF G!strtod, Ops
<1>3. \/ op' = [op EXCEPT ![t].stage = "idle"]
      \/ \E d \in G!Lowest(a) .. G!Highest(a) :
           op' = [op EXCEPT ![t].stage = "print", ![t].new = d]
  <2>1. CASE G!CheckSet(t)
    <3>1. CASE G!Outside(deg, 0, Span[a])
      BY <2>1, <3>1 DEF G!CheckSet, G!Finish
    <3>2. CASE ~G!Outside(deg, 0, Span[a])
      <4>1. deg \in 0 .. Span[a]
        BY <1>1, <1>2, <3>2 DEF G!Outside
      <4>2. G!DutyOf(a, deg) \in G!Lowest(a) .. G!Highest(a)
        BY <1>1, <4>1, Duties
      <4> QED
        BY <2>1, <3>2, <4>2 DEF G!CheckSet, G!Accept
    <3> QED
      BY <3>1, <3>2
  <2>2. CASE G!CheckStep(t)
    <3> DEFINE newDuty == G!Plus(G!DutyIncr(deg), duty[a])
    <3>1. deg * DutyRange \in Int /\ duty[a] \in Int
      BY <1>1, <1>2, RangeTypes
    <3>2. newDuty = deg * DutyRange + duty[a]
      BY <1>2, <3>1, RangeTypes DEF G!Plus, G!DutyIncr
    <3>3. newDuty \in Int /\ newDuty # NaN
      BY <3>1, <3>2, RangeTypes
    <3> HIDE DEF newDuty
    <3>4. CASE G!Outside(newDuty, G!Lowest(a), G!Highest(a))
      BY <2>2, <3>4 DEF G!CheckStep, G!Finish, newDuty
    <3>5. CASE ~G!Outside(newDuty, G!Lowest(a), G!Highest(a))
      <4>1. newDuty \in G!Lowest(a) .. G!Highest(a)
        BY <1>1, <3>3, <3>5 DEF G!Outside
      <4> QED
        BY <2>2, <3>5, <4>1 DEF G!CheckStep, G!Accept, newDuty
    <3> QED
      BY <3>4, <3>5
  <2> QED
    BY <2>1, <2>2
<1> HIDE DEF a, deg
<1>4. /\ op' \in [Threads -> Ops]
      /\ G!AcceptedInRange'
  <2>1. CASE op' = [op EXCEPT ![t].stage = "idle"]
    <3>1. op' \in [Threads -> Ops]
      BY <1>1, <2>1, NextStage DEF G!Stages
    <3>2. \A u \in Threads : /\ op'[u].new = op[u].new /\ op'[u].axis = op[u].axis
                            /\ op'[u].stage = IF u = t THEN "idle" ELSE op[u].stage
      BY <1>1, <2>1, NextStage DEF G!Stages
    <3> QED
      BY <3>1, <3>2 DEF Servos, G!AcceptedInRange
  <2>2. CASE \E d \in G!Lowest(a) .. G!Highest(a) :
               op' = [op EXCEPT ![t].stage = "print", ![t].new = d]
    <3>1. PICK d \in G!Lowest(a) .. G!Highest(a) :
            op' = [op EXCEPT ![t].stage = "print", ![t].new = d]
      BY <2>2
    <3> DEFINE o == [op[t] EXCEPT !.stage = "print", !.new = d]
    <3>2. op' = [op EXCEPT ![t] = o]
      BY <1>1, <3>1
    <3>3. d \in Int
      BY <1>1
    <3>4. o \in Ops /\ o.new = d /\ o.axis = a
      BY <1>1, <3>3 DEF Ops, G!Stages, a
    <3> HIDE DEF o
    <3> QED
      BY <1>1, <3>2, <3>4 DEF Servos, G!AcceptedInRange
  <2> QED
    BY <1>3, <2>1, <2>2
<1> QED
  BY <1>1, <1>4 DEF Servos, ServoTypes, G!InRange, G!PrintedInRange

(* What is printed is what was accepted. *)
LEMMA ServosPrint ==
  ASSUME Servos, NEW t \in Threads, G!PrintDuty(t)
  PROVE  Servos'
<1> DEFINE a == op[t].axis
<1>1. /\ op \in [Threads -> Ops] /\ a \in Axes /\ stream \in [Axes -> Seq(Int)]
      /\ op[t].stage = "print" /\ op' = [op EXCEPT ![t].stage = "flush"]
      /\ UNCHANGED <<device, duty>>
  BY DEF Servos, ServoTypes, Ops, G!PrintDuty
<1>2. PICK n \in G!Rounded(a, op[t].new) : stream' = [stream EXCEPT ![a] = Append(@, n)]
  BY DEF G!PrintDuty
<1>3. n \in DutyMin .. DutyMin + DutyRange /\ n \in Int
  <2>1. op[t].new \in G!Lowest(a) .. G!Highest(a)
    BY <1>1 DEF Servos, G!AcceptedInRange
  <2> QED
    BY <1>1, <2>1, RoundedStands, RangeTypes
<1> HIDE DEF a
<1>4. stream' \in [Axes -> Seq(Int)]
  BY <1>1, <1>2, <1>3
<1>5. /\ op' \in [Threads -> Ops]
      /\ \A u \in Threads : /\ op'[u].new = op[u].new /\ op'[u].axis = op[u].axis
                           /\ op'[u].stage = IF u = t THEN "flush" ELSE op[u].stage
  BY <1>1, NextStage DEF G!Stages
<1>6. G!PrintedInRange'
  <2> SUFFICES ASSUME NEW b \in Axes, NEW i \in DOMAIN stream'[b]
               PROVE  stream'[b][i] \in DutyMin .. DutyMin + DutyRange
    BY DEF G!PrintedInRange
  <2>1. CASE b # a
    BY <1>1, <1>2, <2>1 DEF Servos, G!PrintedInRange
  <2>2. CASE b = a
    <3>1. stream'[b] = Append(stream[b], n) /\ stream[b] \in Seq(Int)
      BY <1>1, <1>2, <2>2
    <3>2. \A j \in DOMAIN stream[b] : stream[b][j] \in DutyMin .. DutyMin + DutyRange
      BY DEF Servos, G!PrintedInRange
    <3> QED
      BY <1>3, <3>1, <3>2
  <2> QED
    BY <2>1, <2>2
<1>7. G!AcceptedInRange'
  BY <1>1, <1>5 DEF Servos, G!AcceptedInRange
<1> QED
  BY <1>1, <1>4, <1>5, <1>6, <1>7 DEF Servos, ServoTypes, G!InRange

(* What the driver takes was printed. *)
LEMMA ServosFlush ==
  ASSUME Servos, NEW t \in Threads, G!Flush(t)
  PROVE  Servos'
<1> DEFINE a == op[t].axis
<1>1. /\ op \in [Threads -> Ops] /\ a \in Axes /\ stream \in [Axes -> Seq(Int)]
      /\ device \in [Axes -> Int]
      /\ op[t].stage = "flush" /\ op' = [op EXCEPT ![t].stage = "record"]
      /\ device' = [device EXCEPT ![a] =
                      IF G!Accepted(stream[a]) THEN stream[a][1] ELSE @]
      /\ stream' = [stream EXCEPT ![a] = <<>>] /\ UNCHANGED duty
  BY DEF Servos, ServoTypes, Ops, G!Flush
<1> HIDE DEF a
<1>2. G!Accepted(stream[a]) => stream[a][1] \in DutyMin .. DutyMin + DutyRange
  BY <1>1 DEF G!Accepted, Servos, G!PrintedInRange
<1>3. device' \in [Axes -> Int]
  BY <1>1, <1>2, RangeTypes
<1>4. G!InRange'
  BY <1>1, <1>2 DEF Servos, G!InRange
<1>5. stream' \in [Axes -> Seq(Int)] /\ G!PrintedInRange'
  BY <1>1 DEF Servos, G!PrintedInRange
<1>6. /\ op' \in [Threads -> Ops]
      /\ \A u \in Threads : /\ op'[u].new = op[u].new /\ op'[u].axis = op[u].axis
                           /\ op'[u].stage = IF u = t THEN "record" ELSE op[u].stage
  BY <1>1, NextStage DEF G!Stages
<1>7. G!AcceptedInRange'
  BY <1>1, <1>6 DEF Servos, G!AcceptedInRange
<1> QED
  BY <1>1, <1>3, <1>4, <1>5, <1>6, <1>7 DEF Servos, ServoTypes

(* What is recorded is what was accepted. *)
LEMMA ServosRecord ==
  ASSUME Servos, NEW t \in Threads, G!Record(t)
  PROVE  Servos'
<1> DEFINE a == op[t].axis
<1>1. /\ op \in [Threads -> Ops] /\ op[t] \in Ops /\ a \in Axes
      /\ duty \in [Axes -> Int]
      /\ op[t].stage = "record" /\ op' = [op EXCEPT ![t].stage = "idle"]
      /\ duty' = [duty EXCEPT ![a] = op[t].new]
      /\ UNCHANGED <<stream, device>>
  BY DEF Servos, ServoTypes, Ops, G!Record, G!Finish
<1>2. op[t].new \in G!Lowest(a) .. G!Highest(a) /\ op[t].new \in Int
  BY <1>1 DEF Servos, G!AcceptedInRange, Ops
<1> HIDE DEF a
<1>3. duty' \in [Axes -> Int] /\ G!InRange'
  BY <1>1, <1>2 DEF Servos, G!InRange
<1>4. /\ op' \in [Threads -> Ops]
      /\ \A u \in Threads : /\ op'[u].new = op[u].new /\ op'[u].axis = op[u].axis
                           /\ op'[u].stage = IF u = t THEN "idle" ELSE op[u].stage
  BY <1>1, NextStage DEF G!Stages
<1>5. G!AcceptedInRange'
  BY <1>1, <1>4 DEF Servos, G!AcceptedInRange
<1> QED
  BY <1>1, <1>3, <1>4, <1>5 DEF Servos, ServoTypes, G!PrintedInRange

(* A step of a call, whichever thread makes it. *)
LEMMA ServosStep ==
  ASSUME Servos, NEW t \in Threads, G!Step(t)
  PROVE  Servos'
<1>1. ~G!GetDeg(t)
  BY DEF Servos, ServoTypes, Ops, G!GetDeg, G!At
<1> QED
  BY <1>1, ServosCheck, ServosPrint, ServosFlush, ServosRecord DEF G!Step

(* A thread pulls the trigger. *)
LEMMA TriggerFire ==
  ASSUME A!PulseInv, NEW t \in Threads, A!Fire(t, FireTime)
  PROVE  A!PulseInv'
<1>1. A!fireIter(FireTime) \in Nat
  <2> DEFINE d == 2 * FIRE_DUTY_TIME
  <2>1. FireTime \in Nat /\ d \in Nat \ {0}
    BY AutonomyDaemonAssumption, DevicesAssumption
  <2> HIDE DEF d
  <2>2. FireTime \div d \in Nat
    BY <2>1
  <2> QED
    BY <2>2 DEF A!fireIter, d
<1> QED
  BY <1>1
  DEF A!Fire, A!Move, A!PulseInv, A!TypeOK, A!PulseCounted, A!BufferOwned,
      A!HighDigitOwned, A!PinOwned, A!Phase

(* Every call of fprintf and fseek, and every return, keeps the account of who
   has still to release the trigger. *)
LEMMA TriggerStep ==
  ASSUME A!PulseInv, NEW t \in Threads, A!Step(t)
  PROVE  A!PulseInv'
<1>1. /\ fireFP \in Seq({0, 1}) /\ pin \in {0, 1} /\ phase \in [Threads -> A!Phase]
      /\ left \in [Threads -> Nat]
  BY DEF A!PulseInv, A!TypeOK
<1>2. /\ A!Level(fireFP) \in {0, 1}
      /\ fireFP = <<>> => A!Level(fireFP) = pin
      /\ fireFP # <<>> /\ A!Level(fireFP) = 1 => \E i \in DOMAIN fireFP : fireFP[i] = 1
  BY <1>1 DEF A!Level
<1> USE DEF A!TypeOK, A!PulseCounted, A!BufferOwned, A!HighDigitOwned, A!PinOwned,
            A!Phase, A!Move
<1>3. CASE A!PrintHigh(t)
  <2>1. A!TypeOK' /\ A!PulseCounted'
    BY <1>3 DEF A!PrintHigh, A!PulseInv
  <2>2. phase'[t] = "flushHigh"
    BY <1>1, <1>3 DEF A!PrintHigh
  <2> QED
    BY <2>1, <2>2 DEF A!PulseInv
<1>4. CASE A!FlushHigh(t)
  <2>1. A!TypeOK' /\ A!PulseCounted'
    BY <1>2, <1>4 DEF A!FlushHigh, A!Flush, A!PulseInv
  <2>2. fireFP' = <<>> /\ phase'[t] = "high"
    BY <1>1, <1>4 DEF A!FlushHigh, A!Flush
  <2> QED
    BY <2>1, <2>2 DEF A!PulseInv
<1>5. CASE A!PrintLow(t)
  <2>1. A!TypeOK' /\ A!PulseCounted'
    BY <1>5 DEF A!PrintLow, A!PulseInv
  <2>2. /\ phase'[t] = "flushLow" /\ phase[t] = "high"
        /\ fireFP' = Append(fireFP, 0)
        /\ \A u \in Threads \ {t} : phase'[u] = phase[u]
    BY <1>1, <1>5 DEF A!PrintLow
  <2>3. A!BufferOwned' /\ A!PinOwned'
    BY <1>1, <2>2
  <2>4. (\E i \in DOMAIN fireFP' : fireFP'[i] = 1) =>
          \E i \in DOMAIN fireFP : fireFP[i] = 1
    BY <1>1, <2>2
  <2>5. A!HighDigitOwned'
    BY <2>2, <2>4 DEF A!PulseInv
  <2> QED
    BY <2>1, <2>3, <2>5 DEF A!PulseInv
<1>6. CASE A!FlushLow(t)
  <2>1. A!TypeOK' /\ A!PulseCounted'
    BY <1>2, <1>6 DEF A!FlushLow, A!Flush, A!PulseInv
  <2>2. /\ fireFP' = <<>> /\ pin' = A!Level(fireFP) /\ phase[t] = "flushLow"
        /\ \A u \in Threads \ {t} : phase'[u] = phase[u]
    BY <1>1, <1>6 DEF A!FlushLow, A!Flush
  <2>3. A!BufferOwned' /\ A!HighDigitOwned'
    BY <2>2
  <2>4. A!PinOwned'
    <3>1. CASE fireFP = <<>>
      BY <1>2, <2>2, <3>1 DEF A!PulseInv
    <3>2. CASE fireFP # <<>>
      <4>1. pin' = 1 => \E u \in Threads : phase[u] \in {"flushHigh", "cancelled"}
        BY <1>2, <2>2, <3>2 DEF A!PulseInv
      <4> QED
        BY <2>2, <4>1
    <3> QED
      BY <3>1, <3>2
  <2> QED
    BY <2>1, <2>3, <2>4 DEF A!PulseInv
<1>7. CASE A!Return(t)
  <2>1. A!TypeOK' /\ A!PulseCounted'
    BY <1>7 DEF A!Return, A!PulseInv
  <2>2. /\ UNCHANGED <<fireFP, pin>> /\ phase[t] = "loop"
        /\ \A u \in Threads \ {t} : phase'[u] = phase[u]
    BY <1>1, <1>7 DEF A!Return
  <2> QED
    BY <2>1, <2>2 DEF A!PulseInv
<1> QED
  BY <1>3, <1>4, <1>5, <1>6, <1>7 DEF A!Step

(* Nothing that leaves the accelerator alone disturbs it. *)
LEMMA TriggerSame ==
  ASSUME A!PulseInv, UNCHANGED accelVars
  PROVE  A!PulseInv'
BY DEF accelVars, A!PulseInv, A!TypeOK, A!PulseCounted, A!BufferOwned,
       A!HighDigitOwned, A!PinOwned

(* The daemon's calls have numbers as arguments. *)
LEMMA ShootCalls ==
  ASSUME Tracking, Shoot
  PROVE  \/ UNCHANGED <<gimbleVars, accelVars>>
         \/ UNCHANGED gimbleVars /\ A!Fire(main, FireTime)
         \/ /\ UNCHANGED accelVars
            /\ \E kind \in {"set", "step"}, a \in Axes, arg \in Int :
                 G!Call(main, kind, a, arg)
<1>1. "pan" \in Axes /\ "tilt" \in Axes
  BY AutonomyDaemonAssumption
<1>2. /\ DefaultDeg["pan"] \in Int /\ DefaultDeg["tilt"] \in Int
      /\ stage # "iterate" => dYaw(target) \in Int /\ dPitch(target) \in Int
  <2>1. /\ DefaultDeg["pan"] \in 0 .. Span["pan"]
        /\ DefaultDeg["tilt"] \in 0 .. Span["tilt"]
        /\ stage # "iterate" => Offset("pan") \in Int /\ Offset("tilt") \in Int
    BY <1>1, PlaceInRange
  <2> QED
    BY <2>1 DEF Offset
<1>3. CASE StepPan
  BY <1>1, <1>2, <1>3 DEF StepPan, Calls
<1>4. CASE StepTilt
  BY <1>1, <1>2, <1>4 DEF StepTilt, Calls
<1>5. CASE SetPan
  BY <1>1, <1>2, <1>5 DEF SetPan, Calls
<1>6. CASE SetTilt
  BY <1>1, <1>2, <1>6 DEF SetTilt, Calls
<1>7. CASE Fire
  BY <1>7 DEF Fire
<1>8. CASE Clear
  BY <1>8 DEF Clear
<1> QED
  BY <1>3, <1>4, <1>5, <1>6, <1>7, <1>8 DEF Shoot

(* Every step of either thread. *)
LEMMA SafeStep ==
  ASSUME NoNaN, Tracking, Servos, A!PulseInv, [TNext]_turretVars
  PROVE  Servos' /\ A!PulseInv'
<1>1. main \in Threads /\ server \in Threads
  BY AutonomyDaemonAssumption, TurretAssumption
<1>2. CASE UNCHANGED <<gimbleVars, accelVars>>
  BY <1>2, ServosSame, TriggerSame
<1>3. ASSUME NEW t \in Threads, GimbleStep(t) \/ AccelStep(t)
      PROVE  Servos' /\ A!PulseInv'
  BY <1>3, ServosStep, ServosSame, TriggerStep, TriggerSame
  DEF GimbleStep, AccelStep
<1>4. CASE Shoot
  <2>1. CASE UNCHANGED gimbleVars /\ A!Fire(main, FireTime)
    BY <1>1, <2>1, ServosSame, TriggerFire
  <2>2. CASE /\ UNCHANGED accelVars
             /\ \E kind \in {"set", "step"}, a \in Axes, arg \in Int :
                  G!Call(main, kind, a, arg)
    BY <1>1, <2>2, ServosCall, TriggerSame
  <2> QED
    BY <1>2, <1>4, <2>1, <2>2, ShootCalls
<1>5. CASE UserMoves
  <2>1. PICK deg \in UserSets : G!Call(server, "set", "pan", deg)
    BY <1>5 DEF UserMoves
  <2>2. deg \in Int \cup {Garbage} /\ "pan" \in Axes
    BY AutonomyDaemonAssumption, DevicesAssumption, TurretAssumption DEF NoNaN
  <2>3. Servos'
    BY <1>1, <2>1, <2>2, ServosCall
  <2> QED
    BY <1>5, <2>3, TriggerSame DEF UserMoves
<1>6. CASE UserShoots
  BY <1>1, <1>6, ServosSame, TriggerFire DEF UserShoots
<1>7. CASE MainLoop \/ UserConnects \/ UserLeaves \/ UNCHANGED turretVars
  <2>1. UNCHANGED <<gimbleVars, accelVars>>
    BY <1>7
    DEF MainLoop, See, ReadFails, SeeNothing, SeeTeleport, SeeTarget, UserConnects,
        UserLeaves, turretVars, autonomyVars
  <2> QED
    BY <1>2, <2>1
<1> QED
  BY <1>1, <1>3, <1>4, <1>5, <1>6, <1>7 DEF TNext, MainRuns, MainStep, ServerRuns

(* Daemon.cpp lets the main thread and the server thread use one gimble and one
   accelerator without a lock.  However their calls interleave, the servos stay
   in their ranges, and the trigger is released and nothing left in its stream
   whenever neither thread fires. *)
THEOREM HardwareIsSafe == NoNaN /\ TSpec => []HardwareSafe
<1> SUFFICES ASSUME NoNaN PROVE TSpec => []HardwareSafe
  OBVIOUS
<1> DEFINE Inv == Tracking /\ Servos /\ A!PulseInv
<1>1. TInit => Inv
  <2>1. Init => A!PulseInv
    BY DEF Init, A!Init, A!PulseInv, A!TypeOK, A!PulseCounted, A!BufferOwned,
           A!HighDigitOwned, A!PinOwned, A!Phase
  <2> QED
    BY <2>1, TrackingInit, ServosInit DEF TInit
<1>2. Inv /\ [TNext]_turretVars => Inv'
  <2>1. Tracking /\ [TNext]_turretVars => Tracking'
    BY TrackingStep
    DEF TNext, MainLoop, MainRuns, MainStep, UserConnects, UserLeaves, UserMoves,
        UserShoots, ServerRuns, GimbleStep, AccelStep, turretVars, autonomyVars
  <2> QED
    BY <2>1, SafeStep
<1>3. Inv => HardwareSafe
  BY DEF Servos, HardwareSafe, A!PulseInv, A!SafeWhenIdle, A!TypeOK, A!BufferOwned,
         A!PinOwned
<1> QED
  BY <1>1, <1>2, <1>3, PTL DEF TSpec

=============================================================================
