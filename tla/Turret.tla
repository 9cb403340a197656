------------------------------- MODULE Turret -------------------------------
(***************************************************************************)
(* The turret as Daemon.cpp runs it: the main thread's autonomy daemon and *)
(* the server thread, which carries out the commands of a connected user,  *)
(* share one gimble and one accelerator.                                   *)
(*                                                                         *)
(* main() asks before each iteration whether t->isConnected() == -1 and    *)
(* would then stop the daemon and stream video; isConnected() returns the  *)
(* flag iscsock, 0 or 1, so handle_connection() is dead code and no action *)
(* stands for it.                                                          *)
(***************************************************************************)
EXTENDS AutonomyDaemon

CONSTANTS
  server,    \* the thread that executes the user's commands
  UserSets,  \* degrees the user asks the pan axis for
  UserFires  \* whether the user fires

ASSUME TurretAssumption ==
  /\ server \in Threads \ {main}
  /\ UserSets \subseteq SetArgs
  /\ UserFires \in BOOLEAN

VARIABLES iscsock  \* 1 while a user is connected

turretVars == <<autonomyVars, iscsock>>

TInit == Init /\ iscsock = 0

isConnected == iscsock

(* One iteration of main()'s loop. *)
MainLoop == isConnected # -1 /\ See /\ UNCHANGED iscsock

UserIdle == op[server].stage = "idle" /\ phase[server] = "idle"

UserConnects ==
  /\ iscsock = 0
  /\ iscsock' = 1
  /\ UNCHANGED autonomyVars

UserLeaves ==
  /\ iscsock = 1 /\ UserIdle
  /\ iscsock' = 0
  /\ UNCHANGED autonomyVars

UserMoves ==
  /\ iscsock = 1 /\ UserIdle
  /\ \E deg \in UserSets : G!Call(server, "set", "pan", deg)
  /\ UNCHANGED <<accelVars, daemonVars, iscsock>>

UserShoots ==
  /\ UserFires
  /\ iscsock = 1 /\ UserIdle
  /\ A!Fire(server, FireTime)
  /\ UNCHANGED <<gimbleVars, daemonVars, iscsock>>

MainRuns == MainStep /\ UNCHANGED iscsock
ServerRuns == (GimbleStep(server) \/ AccelStep(server)) /\ UNCHANGED iscsock

TNext ==
  \/ MainLoop
  \/ MainRuns
  \/ UserConnects
  \/ UserLeaves
  \/ UserMoves
  \/ UserShoots
  \/ ServerRuns

TFairness == WF_turretVars(MainRuns) /\ WF_turretVars(ServerRuns)

TSpec == TInit /\ [][TNext]_turretVars /\ TFairness

-----------------------------------------------------------------------------

(* With a user at the controls the servos still never leave their ranges, and
   the trigger is released when neither the daemon nor the user fires. *)
HardwareSafe == G!InRange /\ A!SafeWhenIdle

(* Whatever the user does, a shot of the daemon comes to its end. *)
ShotEnds == stage # "iterate" ~> stage = "iterate"

(* Daemon.cpp, handle_connection(): "Killing Autonomy Daemon" and "Block here
   while the user is still connected".  So no shot of the daemon begins while
   a user is connected. *)
UserTakesOver ==
  [][stage = "iterate" /\ stage' # "iterate" => iscsock = 0]_turretVars

=============================================================================
