------------------------------ MODULE Streamer ------------------------------
(***************************************************************************)
(* mjpg_streamer as the daemon starts it: one input (UvcInput) and one     *)
(* output (HttpOutput), the main thread that opens and runs both, and the  *)
(* handler of SIGINT, which interrupts the main thread, asks the threads   *)
(* to stop, cancels them and ends the process.                             *)
(***************************************************************************)
EXTENDS HttpOutput

CONSTANTS
  main, signal,    \* the main thread, and signal_handler on it
  DestroyBlocks    \* pthread_cond_destroy waits for the waiting threads

ASSUME StreamerAssumption ==
  /\ main \in Threads /\ signal \in Threads /\ main # signal
  /\ {main, signal} \cap (Clients \cup {camera, server}) = {}
  /\ DestroyBlocks \in BOOLEAN

VARIABLE cancelled \* threads that pthread_cancel was called for

vars == <<uvcVars, httpVars, cancelled>>

Init == UvcInit /\ HttpInit /\ cancelled = {}

Rest == UNCHANGED <<httpVars, stop, driverVars, videoVars, relayVars, cancelled>>

(***************************************************************************)
(* main: open the input, open the output, run the input, run the output,   *)
(* wait for a signal.                                                      *)
(***************************************************************************)
Interrupted == at[signal] # "none"

OpenInput == Goto(main, "none", "input open")
OpenOutput == Goto(main, "input open", "output open")

RunInput ==
  /\ at[main] = "output open"
  /\ at' = [at EXCEPT ![main] = "input runs", ![camera] = "loop"]

RunOutput ==
  /\ at[main] = "input runs"
  /\ at' = [at EXCEPT ![main] = "pause", ![server] = "allocate"]

MainStep ==
  /\ ~Interrupted
  /\ OpenInput \/ OpenOutput \/ RunInput \/ RunOutput
  /\ UNCHANGED process /\ Rest

(***************************************************************************)
(* signal_handler.  It calls the stop functions of plugins that main may   *)
(* not have opened yet, and they cancel threads it may not have made.      *)
(***************************************************************************)
Sigint ==
  /\ Goto(signal, "none", "stop inputs") /\ stop' = TRUE
  /\ UNCHANGED <<process, httpVars, driverVars, videoVars, relayVars, cancelled>>

Cancel(t, running, next) ==
  /\ IF running
     THEN at' = [at EXCEPT ![signal] = next] /\ cancelled' = cancelled \cup {t}
          /\ UNCHANGED process
     ELSE process' = "crashed" /\ UNCHANGED <<at, cancelled>>
  /\ UNCHANGED <<httpVars, stop, driverVars, videoVars, relayVars>>

StopInputs ==
  /\ at[signal] = "stop inputs"
  /\ Cancel(camera, at[main] \in {"input runs", "pause"}, "stop outputs")

StopOutputs ==
  /\ at[signal] = "stop outputs"
  /\ Cancel(server, at[main] = "pause", "destroy")

(* Mutant: pthread_cond_destroy waits for those that wait. *)
DestroyWaits ==
  /\ Waiting = {}
  /\ Goto(signal, "destroy", "exit") /\ UNCHANGED process /\ Rest

Destroy ==
  /\ DestroyBlocks => Waiting = {}
  /\ Goto(signal, "destroy", "exit") /\ UNCHANGED process /\ Rest

ExitZero == at[signal] = "exit" /\ Exit /\ UNCHANGED at /\ Rest

SignalStep == StopInputs \/ StopOutputs \/ Destroy \/ ExitZero

(***************************************************************************)
(* A thread is cancelled where it waits: the camera thread in usleep, the  *)
(* server thread in select or accept.                                      *)
(***************************************************************************)
Cancelled ==
  /\ \/ camera \in cancelled /\ streamingState = "paused" /\ Goto(camera, "paused", "cleanup")
     \/ server \in cancelled /\ Goto(server, "select", "ended")
     \/ server \in cancelled /\ Goto(server, "accept", "ended")
  /\ UNCHANGED process /\ Rest

Next ==
  /\ process = "up"
  /\ \/ MainStep \/ Sigint \/ SignalStep \/ Cancelled
     \/ (Fill \/ CameraStep) /\ UNCHANGED <<httpVars, cancelled>>
     \/ HttpNext /\ UNCHANGED cancelled

(***************************************************************************)
(* The driver need not fill a buffer, clients need not connect, ask or     *)
(* read, nobody need press <CTRL>+C.  Threads that can go on do.           *)
(***************************************************************************)
Fairness ==
  /\ WF_vars(process = "up" /\ MainStep)
  /\ WF_vars(process = "up" /\ SignalStep)
  /\ WF_vars(process = "up" /\ CameraStep /\ UNCHANGED <<httpVars, cancelled>>)
  /\ WF_vars(process = "up" /\ ServerStep /\ UNCHANGED cancelled)
  /\ \A t \in Clients : WF_vars(process = "up" /\ ClientStep(t) /\ UNCHANGED cancelled)

Spec == Init /\ [][Next]_vars /\ Fairness
-----------------------------------------------------------------------------
(* A client is served by one thread, and its descriptor is closed once and *)
(* only after that thread has answered; the memory that carried it to the  *)
(* thread is freed once (server_thread: "create a child for every client   *)
(* that connects").                                                        *)
ServedByOne ==
  /\ \A t \in Clients, u \in Clients : t # u /\ fd[t] # NoConnection => fd[t] # fd[u]
  /\ \A c \in Connections : closes[c] <= 1
  /\ \A k \in Cells : frees[k] <= 1

(* Until somebody changes the resolution, what a thread copied is one      *)
(* whole publication: the bytes of the frame whose timestamp it has,       *)
(* unless that frame was empty.  Memory already freed is read only when    *)
(* the program stops.                                                      *)
PictureWhole ==
  \A t \in Clients : at[t] = "respond" /\ got[t].timestamp # Nothing =>
    /\ got[t].content = Freed => stop
    /\ got[t].size = "full" /\ changes = 0 => got[t].content \in {got[t].timestamp, Freed}

(* Until somebody changes the resolution, a client gets a frame published  *)
(* after its thread began to wait ("wait for a fresh frame").              *)
FreshFrame ==
  \A t \in Clients : at[t] = "respond" /\ got[t].timestamp # Nothing /\ changes = 0 =>
    got[t].timestamp > since[t]

(* While the stream is on, the driver has every buffer but the one the     *)
(* camera thread holds and those that empty frames came in.                *)
OnlyEmptiesLost ==
  driver = "on" =>
    /\ queued + Len(filled) + lost
       + (IF at[camera] \in {"copy", "requeue"} /\ buf # Blank THEN 1 ELSE 0) = NB_BUFFER
    /\ lost <= Cardinality(empties)

(* The mutex always passes on: a client that does not read what is written *)
(* to it never keeps the camera or another client from the picture.        *)
MutexPasses ==
  \A t \in Clients \cup {camera} :
    at[t] \in {"grabbed", "woken", "listen"} ~>
      at[t] \notin {"grabbed", "woken", "listen"} \/ process # "up"

(* Once <CTRL>+C is pressed the process ends.                              *)
StopExits == stop ~> process # "up"
=============================================================================
