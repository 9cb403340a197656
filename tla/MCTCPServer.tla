---------------------------- MODULE MCTCPServer ----------------------------
(* Instances of TCPServer for TLC. *)
EXTENDS TCPServer

CONSTANTS c1, c2

TwoClients == {c1, c2}
OneClient == {c1}

(* The first command is for the gimble, the second for the accelerator, the
   third is none. *)
MCModule ==
  [k \in 1 .. MaxCommands |->
     IF k = 1 THEN "gimble" ELSE IF k = 2 THEN "accelerator" ELSE "invalid"]

-----------------------------------------------------------------------------

(* controllerTest with clients that do as they like, ...                    *)
Killed == [first |-> TRUE, kill |-> TRUE, pipelined |-> TRUE, split |-> TRUE,
           leave |-> TRUE, commands |-> 2]

(* ... and one that never kills the server, with clients that wait for each *)
(* answer and whose commands arrive whole.                                  *)
Lockstep == [first |-> TRUE, kill |-> FALSE, pipelined |-> FALSE, split |-> FALSE,
             leave |-> TRUE, commands |-> 3]

Both == {Killed, Lockstep}

(* One thing at a time, for the properties that fail.                       *)
Stays == [Lockstep EXCEPT !.leave = FALSE, !.commands = 2]
OnlyKilled == {[Stays EXCEPT !.kill = TRUE]}
OnlyKilledOrLeft == {[Lockstep EXCEPT !.kill = TRUE, !.commands = 2]}
OnlyLate == {[Stays EXCEPT !.first = FALSE]}
OnlyLateOrLeft == {[Lockstep EXCEPT !.first = FALSE, !.commands = 2]}
OnlyPipelined == {[Stays EXCEPT !.pipelined = TRUE]}
OnlySplit == {[Stays EXCEPT !.split = TRUE]}

=============================================================================
