----------------------------- MODULE MCAutonomy -----------------------------
(* Instances of AutonomyDaemon for TLC.  Angles are in eighths of a degree,
   duties in microseconds: pan spans 180 degrees and starts at 90, tilt spans
   90 and starts at 23; 320 pixels are 40 degrees, 240 are 20. *)
EXTENDS AutonomyDaemon

OnlyMain == {main}
NoThreads == {}
OneFiring == {1000}

MCAxes == {"pan", "tilt"}
MCSpan == [a \in Axes |-> IF a = "pan" THEN 1440 ELSE 720]
MCDefault == [a \in Axes |-> IF a = "pan" THEN 720 ELSE 184]

(* Half pixels.  Two sightings near each other, one of them half a pixel off
   so that its center loses a fraction, and one far away. *)
MCSightings ==
  {[x |-> 160, y |-> 120, devX |-> 8, devY |-> 8],
   [x |-> 169, y |-> 126, devX |-> 6, devY |-> 6],
   [x |-> 480, y |-> 360, devX |-> 8, devY |-> 8]}

(* One sighting, for the runs with a user. *)
MCOneSighting == {[x |-> 160, y |-> 120, devX |-> 8, devY |-> 8]}

(* What the daemon and the user ask for, and a degree out of range. *)
MCSetArgs == {720, 184, 0, 1441}
MCStepArgs ==
  {dYaw(Center(s)) : s \in Sightings} \cup {dPitch(Center(s)) : s \in Sightings}

=============================================================================
