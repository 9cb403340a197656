---------------------------- MODULE VideoStreamer ----------------------------
(***************************************************************************)
(* VideoStreamer: the program that drives it forks a child, which has a    *)
(* shell run start.sh and so mjpg_streamer; three seconds later it looks   *)
(* through the lines of ps for processes to kill with the child when the   *)
(* stream is to stop.  handle_connection and controllerTest start a stream *)
(* and stop it, each time with a new VideoStreamer.                        *)
(*                                                                         *)
(* A process is <<kind, n>>.  All but the bystanders, which have the       *)
(* process numbers Bystanders, are in one process group: the daemon's.     *)
(***************************************************************************)
EXTENDS Integers, Sequences

CONSTANTS
  Bystanders,      \* numbers of processes that have nothing to do with it
  CPU,             \* what ps may show as the CPU share of mjpg_streamer
  MaxStarts        \* bound: streams started

VARIABLES
  alive,           \* processes
  at,              \* what the daemon does next
  starts,          \* streams started so far
  PID,             \* of the child, by number of the stream, or -1
  ran,             \* streams whose child has run start.sh
  killVals,
  isStream

vars == <<alive, at, starts, PID, ran, killVals, isStream>>

daemon == <<"daemon", 0>>
child(n) == <<"child", n>>
streamer(n) == <<"mjpg_streamer", n>>
bystander(pid) == <<"bystander", pid>>

Streams == 1 .. MaxStarts
Streamers == {p \in alive : p[1] = "mjpg_streamer"}
Group == {p \in alive : p[1] # "bystander"}

Init ==
  /\ alive = {daemon} \cup {bystander(pid) : pid \in Bystanders}
  /\ at = "start" /\ starts = 0 /\ PID = 0 /\ ran = {} /\ killVals = <<>> /\ isStream = FALSE

(* fork(); where it fails the daemon goes on as the parent, too.           *)
Fork ==
  /\ at = "start" /\ starts < MaxStarts
  /\ starts' = starts + 1 /\ at' = "find"
  /\ \/ PID' = starts' /\ alive' = alive \cup {child(starts')}
     \/ PID' = -1 /\ UNCHANGED alive
  /\ UNCHANGED <<ran, killVals, isStream>>

(* The shell and mjpg_streamer outlive the child.  A second mjpg_streamer  *)
(* finds the camera busy and ends.                                         *)
RunScript(n) ==
  /\ child(n) \in alive /\ n \notin ran /\ ran' = ran \cup {n}
  /\ alive' = IF Streamers = {} THEN alive \cup {streamer(n)} ELSE alive
  /\ UNCHANGED <<at, starts, PID, killVals, isStream>>

StreamerEnds ==
  /\ Streamers # {} /\ alive' = alive \ Streamers
  /\ UNCHANGED <<at, starts, PID, ran, killVals, isStream>>

(* Three seconds after the fork start.sh has run.  The third word of a line  *)
(* of "ps aux" is the share of the CPU.                                    *)
FindPIDs ==
  /\ PID \in ran \cup {-1}
  /\ at = "find" /\ at' = "stream" /\ isStream' = TRUE
  /\ \/ Streamers = {} /\ killVals' = <<>>
     \/ Streamers # {} /\ \E share \in CPU : killVals' = <<share>>
  /\ UNCHANGED <<alive, starts, PID, ran>>

StopStream ==
  /\ at = "stream" /\ at' = "kill"
  /\ alive' = IF PID = -1 THEN {} ELSE alive \ {child(PID)}
  /\ UNCHANGED <<starts, PID, ran, killVals, isStream>>

(* What "kill -9 n" ends: 0 is the group of the caller.                    *)
Victims(n) == IF n = 0 THEN Group ELSE alive \cap {bystander(n)}

KillNext ==
  /\ at = "kill" /\ killVals # <<>>
  /\ alive' = alive \ Victims(Head(killVals)) /\ killVals' = Tail(killVals)
  /\ UNCHANGED <<at, starts, PID, ran, isStream>>

Stopped ==
  /\ at = "kill" /\ killVals = <<>> /\ isStream' = FALSE /\ at' = "start"
  /\ UNCHANGED <<alive, starts, PID, ran, killVals>>

Next ==
  \/ daemon \in alive /\ (Fork \/ FindPIDs \/ StopStream \/ KillNext \/ Stopped)
  \/ StreamerEnds
  \/ \E n \in Streams : RunScript(n)

Spec == Init /\ [][Next]_vars

(* StopStream: "Should be dead...".  So when it is through no stream is     *)
(* left that could hold the camera.                                        *)
StopKillsStream == at = "start" => Streamers = {}

(* Stopping the stream ends nothing else, least of all the daemon.         *)
OnlyStreamDies == {daemon} \cup {bystander(pid) : pid \in Bystanders} \subseteq alive
=============================================================================
