------------------------------ MODULE MCGimble ------------------------------
(* Instances of Gimble for TLC, with the numbers of BBB_Gimble.cpp: pan spans
   180 degrees and starts at 90, tilt spans 90 and starts at 25. *)
EXTENDS GimbleTurns

CONSTANTS main, server

BothThreads == {main, server}
OneThread == {server}

BothAxes == {"pan", "tilt"}
PanOnly == {"pan"}

MCSpan == [a \in Axes |-> IF a = "pan" THEN 180 ELSE 90]
MCStartDeg == [a \in Axes |-> IF a = "pan" THEN 90 ELSE 25]

(* Both ends of both ranges and the degrees next to them; the steps lead from
   one end to the other and beyond. *)
Degrees == {-1, 0, 90, 91, 180, 181}
Steps == {-90, 90, 180}

FewDegrees == {0, 180}
FewSteps == {-90, 90}

WithNaN == Degrees \cup {NaN}
WithGarbage == Degrees \cup {Garbage}

=============================================================================
