----------------------------- MODULE HttpOutput -----------------------------
(***************************************************************************)
(* The output of mjpg_streamer: output_http's server thread, which accepts *)
(* connections and makes a thread for each, and those threads, which       *)
(* answer with a snapshot, a stream of pictures, a change of the camera's  *)
(* resolution or something that needs neither picture nor camera (a file,  *)
(* JSON, an error).  They share the picture, db and db_update of UvcInput  *)
(* with the camera thread.                                                 *)
(*                                                                         *)
(* The server hands a thread its connection in memory it allocates once    *)
(* per select(), a cell, which the thread copies and frees.                *)
(***************************************************************************)
EXTENDS UvcInput

CONSTANTS
  server,          \* the server thread
  MaxConnections,  \* bound: connections made
  Sockets,         \* the listening sockets, one per address family, by number
  Requests         \* what clients may ask for

ASSUME HttpAssumption ==
  /\ server \in Threads \ (Clients \cup {camera})
  /\ Sockets \subseteq Nat /\ MaxConnections \in Nat
  /\ Requests \subseteq {"snapshot", "stream", "resolution", "other"}

VARIABLES
  made,            \* connections made so far
  backlog,         \* backlog[s]: connections that wait in socket s
  ready,           \* selectfds: sockets select() found ready, not yet served
  cell,            \* the cell the server uses, numbered by allocation
  pcfd,            \* pcfd[k]: the descriptor in cell k
  frees,           \* frees[k]: how often cell k was freed
  arg, fd,         \* per client thread: its cell, its copy of the descriptor
  request,         \* request[t]: what thread t answers
  got,             \* got[t]: size, timestamp and bytes thread t copied
  since,           \* since[t]: timestamp of the picture when t began to wait
  closes           \* closes[c]: how often descriptor c was closed

serverVars == <<backlog, ready, cell, pcfd, frees, arg>>
clientVars == <<fd, request, got, since, closes>>
httpVars == <<made, serverVars, clientVars>>

Connections == 1 .. MaxConnections
NoConnection == 0
Cells == 0 .. MaxConnections + 1

HttpInit ==
  /\ made = 0 /\ backlog = [s \in Sockets |-> <<>>] /\ ready = {}
  /\ cell = 0 /\ pcfd = [k \in Cells |-> NoConnection] /\ frees = [k \in Cells |-> 0]
  /\ arg = [t \in Clients |-> 0] /\ fd = [t \in Clients |-> NoConnection]
  /\ request = [t \in Clients |-> "none"]
  /\ got = [t \in Clients |-> NoPicture] /\ since = [t \in Clients |-> Nothing]
  /\ closes = [c \in Connections |-> 0]

LeaveUvc == UNCHANGED <<process, stop, driverVars, videoVars, relayVars>>

(***************************************************************************)
(* The network.                                                            *)
(***************************************************************************)
Connect(s) ==
  /\ made < MaxConnections /\ made' = made + 1
  /\ backlog' = [backlog EXCEPT ![s] = Append(@, made')]
  /\ UNCHANGED <<at, ready, cell, pcfd, frees, arg, clientVars>> /\ LeaveUvc

(***************************************************************************)
(* server_thread.                                                          *)
(***************************************************************************)
(* Mutant: the memory of the first connection is used for all. *)
AllocateOnce ==
  /\ ~stop /\ Goto(server, "allocate", "select")
  /\ cell' = 1
  /\ UNCHANGED <<backlog, ready, pcfd, frees, arg, made, clientVars>> /\ LeaveUvc

Allocate ==
  /\ ~stop /\ Goto(server, "allocate", "select")
  /\ cell' = cell + 1
  /\ UNCHANGED <<backlog, ready, pcfd, frees, arg, made, clientVars>> /\ LeaveUvc

Select ==
  /\ ready' = {s \in Sockets : backlog[s] # <<>>} /\ ready' # {}
  /\ Goto(server, "select", "accept")
  /\ UNCHANGED <<backlog, cell, pcfd, frees, arg, made, clientVars>> /\ LeaveUvc

NextReady == CHOOSE s \in ready : \A r \in ready : s <= r

AfterAccept == IF ready = {NextReady} THEN "allocate" ELSE "accept"

accept ==
  /\ at[server] = "accept"
  /\ ready' = ready \ {NextReady}
  /\ backlog' = [backlog EXCEPT ![NextReady] = Tail(@)]
  /\ pcfd' = [pcfd EXCEPT ![cell] = Head(backlog[NextReady])]

Serve(t) ==
  /\ accept /\ t = CHOOSE u \in Clients : at[u] = "none"
  /\ at[t] = "none"
  /\ at' = [at EXCEPT ![server] = AfterAccept, ![t] = "start"]
  /\ arg' = [arg EXCEPT ![t] = cell]
  /\ UNCHANGED <<cell, frees, made, clientVars>> /\ LeaveUvc

(* pthread_create fails.                                                  *)
CannotServe ==
  /\ accept /\ Fault
  /\ at' = [at EXCEPT ![server] = AfterAccept]
  /\ closes' = [closes EXCEPT ![pcfd'[cell]] = @ + 1]
  /\ frees' = [frees EXCEPT ![cell] = @ + 1]
  /\ UNCHANGED <<cell, arg, made, fd, request, got, since, process, stop, driverVars,
                 streamingState, buf, tmpbuffer, lost, changes, relayVars>>

ServerStops ==
  /\ stop /\ Goto(server, "allocate", "ended")
  /\ UNCHANGED httpVars /\ LeaveUvc

ServerStep == Allocate \/ Select \/ (\E t \in Clients : Serve(t)) \/ CannotServe \/ ServerStops

(***************************************************************************)
(* client_thread.                                                          *)
(***************************************************************************)
TakeArg(t) ==
  /\ Goto(t, "start", "request")
  /\ fd' = [fd EXCEPT ![t] = pcfd[arg[t]]]
  /\ frees' = [frees EXCEPT ![arg[t]] = @ + 1]
  /\ UNCHANGED <<backlog, ready, cell, pcfd, arg, made, request, got, since, closes>> /\ LeaveUvc

FirstStep == [snapshot |-> "listen", stream |-> "respond", resolution |-> "resolution",
              other |-> "respond"]

Request(t) ==
  /\ \E r \in Requests : /\ request' = [request EXCEPT ![t] = r]
                         /\ Goto(t, "request", FirstStep[r])
  /\ UNCHANGED <<made, serverVars, fd, got, since, closes>> /\ LeaveUvc

(* No request within five seconds.                                        *)
NoRequest(t) ==
  /\ Goto(t, "request", "close")
  /\ UNCHANGED httpVars /\ LeaveUvc

(* send_stream's loop.                                                    *)
Check(t) ==
  /\ \/ stop /\ Goto(t, "check", "close")
     \/ ~stop /\ Goto(t, "check", "listen")
  /\ UNCHANGED httpVars /\ LeaveUvc

(* Mutant: does not wait for the next picture. *)
WaitNot(t) ==
  /\ db = free /\ Goto(t, "listen", "woken")
  /\ since' = [since EXCEPT ![t] = picture.timestamp]
  /\ UNCHANGED <<made, serverVars, fd, request, got, closes>> /\ LeaveUvc

(* pthread_mutex_lock and pthread_cond_wait, which gives the mutex up.     *)
(* Wake-ups without a broadcast, which POSIX allows, are left out.         *)
Wait(t) ==
  /\ db = free /\ Goto(t, "listen", "wait")
  /\ since' = [since EXCEPT ![t] = picture.timestamp]
  /\ UNCHANGED <<made, serverVars, fd, request, got, closes>> /\ LeaveUvc

Relock(t) ==
  /\ Lock(t, "woken", "header")
  /\ UNCHANGED <<httpVars, process, stop, driverVars, videoVars, picture>>

CopyHeader(t) ==
  /\ Goto(t, "header", "bytes")
  /\ got' = [got EXCEPT ![t].size = picture.size, ![t].timestamp = picture.timestamp]
  /\ UNCHANGED <<made, serverVars, fd, request, since, closes>> /\ LeaveUvc

(* Mutant: the mutex is not given back. *)
CopyBytesLocked(t) ==
  /\ Goto(t, "bytes", "respond")
  /\ got' = [got EXCEPT ![t].content = picture.content]
  /\ UNCHANGED <<made, serverVars, fd, request, since, closes, process, stop, driverVars,
                 videoVars, relayVars>>

CopyBytes(t) ==
  /\ Goto(t, "bytes", "respond")
  /\ got' = [got EXCEPT ![t].content = picture.content]
  /\ db' = free
  /\ UNCHANGED <<made, serverVars, fd, request, since, closes, process, stop, driverVars,
                 videoVars, picture>>

(* A write blocks until the client reads, and fails when it has left.  What *)
(* was copied is not looked at again.                                     *)
Respond(t) ==
  /\ \/ request[t] = "stream" /\ Goto(t, "respond", "check")
     \/ Goto(t, "respond", "close")
  /\ got' = [got EXCEPT ![t] = NoPicture] /\ since' = [since EXCEPT ![t] = Nothing]
  /\ UNCHANGED <<made, serverVars, fd, request, closes>> /\ LeaveUvc

Close(t) ==
  /\ Goto(t, "close", "done")
  /\ closes' = [closes EXCEPT ![fd[t]] = @ + 1]
  /\ UNCHANGED <<made, serverVars, fd, request, got, since>> /\ LeaveUvc

(* What a thread does without waiting for its client.                     *)
ClientStep(t) ==
  \/ TakeArg(t) \/ Check(t) \/ Wait(t) \/ Relock(t) \/ CopyHeader(t) \/ CopyBytes(t)
  \/ Close(t)
  \/ ResolutionStep(t) /\ UNCHANGED httpVars

HttpNext ==
  \/ \E s \in Sockets : Connect(s)
  \/ ServerStep
  \/ \E t \in Clients : ClientStep(t) \/ Request(t) \/ NoRequest(t) \/ Respond(t)
=============================================================================
