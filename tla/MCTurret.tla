------------------------------ MODULE MCTurret ------------------------------
(* Instances of Turret for TLC: the daemon of MCAutonomy and a user who turns
   the pan axis to its end or asks for a degree out of range, and who fires. *)
EXTENDS Turret, MCAutonomy

Both == {main, server}

MCUserSets == {0, 1441}

=============================================================================
