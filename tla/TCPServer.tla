----------------------------- MODULE TCPServer -----------------------------
(***************************************************************************)
(* TCP_Server: the thread that accepts a client, receives its commands and *)
(* sends the answers, the program's main thread that starts the server,    *)
(* attaches the listeners and may kill it, the clients, and the network    *)
(* between them.  The two threads share the fields of the TCP_Server       *)
(* object without a lock (serverMutex is held only while killAll is set),  *)
(* so a step is at most one access to a shared field.                      *)
(*                                                                         *)
(* A client's k-th command is the token k of its byte stream, the '\n'     *)
(* that ends it the token NL.  TCP keeps the order of the bytes and not    *)
(* the borders between them: one recv may return half a command or two.    *)
(***************************************************************************)
EXTENDS Integers, Sequences, FiniteSets, SequencesExt

CONSTANTS
  Clients,
  NoClient,
  MaxCommands,     \* bound: commands each client sends
  Module,          \* Module[k]: what command k addresses, or "invalid"
  Modes            \* the programs and the clients considered, see Mode

(* first: addListener before Start (controllerTest) or after it (Daemon);   *)
(* kill: main calls KillServer (controllerTest) or never does; pipelined:   *)
(* clients send a command before the last one is answered; split: the       *)
(* network may deliver part of what was sent; leave: clients may disconnect.*)
Mode == [first : BOOLEAN, kill : BOOLEAN, pipelined : BOOLEAN, split : BOOLEAN,
         leave : BOOLEAN, commands : 1 .. MaxCommands]

ASSUME TCPServerAssumption ==
  /\ NoClient \notin Clients
  /\ MaxCommands \in Nat \ {0}
  /\ Module \in [1 .. MaxCommands -> {"gimble", "accelerator", "invalid"}]
  /\ Modes \subseteq Mode

(* The listeners in the order both programs attach them in. *)
Listeners == <<"gimble", "accelerator">>

NL == 0

(* The reply to a command that cannot be parsed. *)
ERR == 0

VARIABLES
  (* fields of the TCP_Server object *)
  islsock, iscsock, csocket, killAll, listeners,
  (* the server thread: where it stands, where close_connection() returns to,
     the string received, the answers to send, the listeners called so far *)
  thread, back, str, answers, called,
  (* the main thread; whether it has asked to cancel the server thread *)
  main, cancel,
  (* kernel: listen queue, open connections, how often each was closed *)
  backlog, open, closes,
  (* clients: commands sent, bytes in flight, bytes that arrived, replies, gone *)
  sent, net, rcv, got, left,
  (* commands carried out, in order *)
  executed,
  (* which of Modes this behaviour is in *)
  mode

ListenersFirst == mode.first
MayKill == mode.kill
Pipelined == mode.pipelined
Split == mode.split
MayLeave == mode.leave

fields == <<islsock, iscsock, csocket, killAll, listeners>>
threadVars == <<thread, back, str, answers, called>>
mainVars == <<main, cancel>>
kernel == <<backlog, open, closes>>
clientVars == <<sent, net, rcv, got, left>>
serverVars == <<fields, threadVars, mainVars, kernel, clientVars, executed, mode>>

Init ==
  /\ islsock = FALSE /\ iscsock = FALSE /\ csocket = NoClient
  /\ killAll = FALSE /\ listeners = 0
  /\ thread = "none" /\ back = "none" /\ str = <<>> /\ answers = <<>>
  /\ called = 0
  /\ main = "setup" /\ cancel = FALSE
  /\ backlog = <<>> /\ open = {} /\ closes = [c \in Clients |-> 0]
  /\ sent = [c \in Clients |-> 0]
  /\ net = [c \in Clients |-> <<>>] /\ rcv = [c \in Clients |-> <<>>]
  /\ got = [c \in Clients |-> <<>>]
  /\ left = {}
  /\ executed = <<>>
  /\ mode \in Modes

-----------------------------------------------------------------------------
(* The main thread. *)

AddListener ==
  /\ main = "setup"
  /\ listeners < Len(Listeners)
  /\ ListenersFirst = (thread = "none")
  /\ listeners' = listeners + 1
  /\ UNCHANGED <<islsock, iscsock, csocket, killAll, threadVars, mainVars,
                 kernel, clientVars, executed>>

(* Start(): socket, listen, pthread_create. *)
Start ==
  /\ main = "setup"
  /\ thread = "none"
  /\ ListenersFirst => listeners = Len(Listeners)
  /\ islsock' = TRUE
  /\ thread' = "accept"
  /\ UNCHANGED <<iscsock, csocket, killAll, listeners, back, str, answers,
                 called, mainVars, kernel, clientVars, executed>>

(* create_listen_socket() failed: Start() returns -1 before there is a
   thread, and main() gives up. *)
StartFails ==
  /\ main = "setup"
  /\ thread = "none"
  /\ ListenersFirst => listeners = Len(Listeners)
  /\ main' = "failed"
  /\ UNCHANGED <<fields, threadVars, cancel, kernel, clientVars, executed>>

Close(c) ==
  /\ open' = open \ {c}
  /\ closes' = [closes EXCEPT ![c] = @ + 1]
  /\ UNCHANGED backlog

(* The user presses q.  KillServer(), one shared access after the other. *)
KillClose ==
  /\ MayKill
  /\ main = "setup" /\ thread # "none" /\ listeners = Len(Listeners)
  /\ main' = "killClear"
  /\ IF iscsock THEN Close(csocket) ELSE UNCHANGED kernel
  /\ UNCHANGED <<fields, threadVars, cancel, clientVars, executed>>

KillClear ==
  /\ main = "killClear"
  /\ main' = "killListen"
  /\ iscsock' = FALSE
  /\ UNCHANGED <<islsock, csocket, killAll, listeners, threadVars, cancel,
                 kernel, clientVars, executed>>

KillListen ==
  /\ main = "killListen"
  /\ main' = "killAll"
  /\ islsock' = FALSE
  /\ backlog' = <<>>
  /\ UNCHANGED <<iscsock, csocket, killAll, listeners, threadVars, cancel,
                 open, closes, clientVars, executed>>

(* Mutant: killAll is set, the thread is not cancelled. *)
KillNoCancel ==
  /\ main = "killAll"
  /\ main' = "join"
  /\ killAll' = TRUE
  /\ UNCHANGED <<islsock, iscsock, csocket, listeners, threadVars, cancel,
                 kernel, clientVars, executed>>

KillCancel ==
  /\ main = "killAll"
  /\ main' = "join"
  /\ killAll' = TRUE
  /\ cancel' = TRUE
  /\ UNCHANGED <<islsock, iscsock, csocket, listeners, threadVars, kernel,
                 clientVars, executed>>

KillJoin ==
  /\ main = "join"
  /\ thread \in {"exited", "cancelled"}
  /\ main' = "down"
  /\ UNCHANGED <<fields, threadVars, cancel, kernel, clientVars, executed>>

Main ==
  \/ AddListener
  \/ Start
  \/ StartFails
  \/ KillClear
  \/ KillListen
  \/ KillCancel
  \/ KillJoin

-----------------------------------------------------------------------------
(* The server thread. *)

Goto(from, to) == thread = from /\ thread' = to

(* wait_for_connection(): accept blocks until a client is in the queue. *)
Accept ==
  /\ Goto("accept", "accepted")
  /\ islsock
  /\ backlog # <<>>
  /\ csocket' = Head(backlog)
  /\ open' = open \cup {Head(backlog)}
  /\ backlog' = Tail(backlog)
  /\ UNCHANGED <<islsock, iscsock, killAll, listeners, back, str, answers,
                 called, mainVars, closes, clientVars, executed>>

(* The listen socket was closed before accept was called. *)
AcceptFails ==
  /\ Goto("accept", "loop")
  /\ ~islsock
  /\ UNCHANGED <<fields, back, str, answers, called, mainVars, kernel,
                 clientVars, executed>>

Register ==
  /\ Goto("accepted", "loop")
  /\ iscsock' = (~killAll \/ iscsock)
  /\ UNCHANGED <<islsock, csocket, killAll, listeners, back, str, answers,
                 called, mainVars, kernel, clientVars, executed>>

(* while (server->isAlive()) *)
isAlive == ~killAll /\ iscsock

Loop ==
  /\ Goto("loop", IF isAlive THEN "recv" ELSE "exited")
  /\ UNCHANGED <<fields, back, str, answers, called, mainVars, kernel,
                 clientVars, executed>>

(* Receive() tests the flag before it calls recv. *)
ReceiveCall ==
  /\ Goto("recv", IF iscsock THEN "wait" ELSE "parse")
  /\ str' = <<>>
  /\ UNCHANGED <<fields, back, answers, called, mainVars, kernel, clientVars,
                 executed>>

(* Mutant: the bytes stay in the socket. *)
ReceivePeek ==
  /\ Goto("wait", "parse")
  /\ rcv[csocket] # <<>>
  /\ str' = IF Last(rcv[csocket]) = NL THEN Front(rcv[csocket]) ELSE <<>>
  /\ UNCHANGED <<fields, back, answers, called, mainVars, kernel, clientVars,
                 executed>>

(* recv returns bytes: without the '\n' at their end they are thrown away,
   with it the rest is the string.  A recv that waits holds its socket, so it
   returns bytes even after KillServer() has closed the descriptor. *)
Receive ==
  /\ Goto("wait", "parse")
  /\ rcv[csocket] # <<>>
  /\ str' = IF Last(rcv[csocket]) = NL THEN Front(rcv[csocket]) ELSE <<>>
  /\ rcv' = [rcv EXCEPT ![csocket] = <<>>]
  /\ UNCHANGED <<fields, back, answers, called, mainVars, kernel, sent, net,
                 got, left, executed>>

(* recv returns 0 or -1: the client has gone, or KillServer() had closed the
   descriptor. *)
ReceiveEnd ==
  /\ Goto("wait", "close")
  /\ csocket \in left \/ csocket \notin open
  /\ back' = "parse"
  /\ UNCHANGED <<fields, str, answers, called, mainVars, kernel, clientVars,
                 executed>>

(* close_connection(): test and close, then clear the flag. *)
CloseSocket ==
  /\ Goto("close", "clear")
  /\ IF iscsock THEN Close(csocket) ELSE UNCHANGED kernel
  /\ UNCHANGED <<fields, back, str, answers, called, mainVars, clientVars,
                 executed>>

(* Mutant: the flag stays set. *)
ClearFlagNot ==
  /\ Goto("clear", back)
  /\ UNCHANGED <<fields, back, str, answers, called, mainVars, kernel,
                 clientVars, executed>>

ClearFlag ==
  /\ Goto("clear", back)
  /\ iscsock' = FALSE
  /\ UNCHANGED <<islsock, csocket, killAll, listeners, back, str, answers,
                 called, mainVars, kernel, clientVars, executed>>

(* Parse() looks for the first separators of the string, so what follows the
   first command is not seen; a string that does not begin with a command is
   invalid. *)
Parses(s) == s # <<>> /\ s[1] # NL /\ Module[s[1]] # "invalid"

(* Mutant: raiseEvent() starts with the second listener. *)
ParseSkipFirst ==
  /\ IF Parses(str)
     THEN Goto("parse", "raise") /\ answers' = <<>>
     ELSE Goto("parse", "send") /\ answers' = <<ERR>>
  /\ called' = 1
  /\ UNCHANGED <<fields, back, str, mainVars, kernel, clientVars, executed>>

Parse ==
  /\ IF Parses(str)
     THEN Goto("parse", "raise") /\ answers' = <<>>
     ELSE Goto("parse", "send") /\ answers' = <<ERR>>
  /\ called' = 0
  /\ UNCHANGED <<fields, back, str, mainVars, kernel, clientVars, executed>>

(* raiseEvent(): each listener attached so far is called; the one that the
   command addresses carries it out and answers, the other returns "". *)
Raise ==
  /\ thread = "raise"
  /\ called < listeners
  /\ called' = called + 1
  /\ IF Listeners[called'] = Module[str[1]]
     THEN /\ executed' = Append(executed, <<csocket, str[1]>>)
          /\ answers' = Append(answers, str[1])
     ELSE UNCHANGED <<executed, answers>>
  /\ UNCHANGED <<fields, thread, back, str, mainVars, kernel, clientVars>>

RaiseEnd ==
  /\ Goto("raise", "send")
  /\ called >= listeners
  /\ UNCHANGED <<fields, back, str, answers, called, mainVars, kernel,
                 clientVars, executed>>

(* Mutant: the loop over the answers stays at the first one. *)
SendFirst ==
  /\ thread = "send"
  /\ answers # <<>>
  /\ got' = IF iscsock /\ csocket \in open \ left
            THEN [got EXCEPT ![csocket] = Append(@, Head(answers))] ELSE got
  /\ UNCHANGED <<fields, threadVars, mainVars, kernel, sent, net, rcv, left,
                 executed>>

(* Send(), once for every answer; its result is not looked at.  send succeeds
   as long as the socket is open, whether or not the client still reads. *)
Send ==
  /\ thread = "send"
  /\ answers # <<>>
  /\ answers' = Tail(answers)
  /\ got' = IF iscsock /\ csocket \in open \ left
            THEN [got EXCEPT ![csocket] = Append(@, Head(answers))] ELSE got
  /\ UNCHANGED <<fields, thread, back, str, called, mainVars, kernel, sent,
                 net, rcv, left, executed>>

(* Send() when send fails. *)
SendFails ==
  /\ Goto("send", "close")
  /\ answers # <<>>
  /\ iscsock
  /\ csocket \in left \/ csocket \notin open
  /\ answers' = Tail(answers)
  /\ back' = "send"
  /\ UNCHANGED <<fields, str, called, mainVars, kernel, clientVars, executed>>

SendEnd ==
  /\ Goto("send", "loop")
  /\ answers = <<>>
  /\ UNCHANGED <<fields, back, str, answers, called, mainVars, kernel,
                 clientVars, executed>>

(* Deferred cancellation, taken in a call that blocks. *)
Cancelled ==
  /\ cancel
  /\ thread \in {"accept", "wait", "raise", "send"}
  /\ thread' = "cancelled"
  /\ UNCHANGED <<fields, back, str, answers, called, mainVars, kernel,
                 clientVars, executed>>

Thread ==
  \/ Accept
  \/ AcceptFails
  \/ Register
  \/ Loop
  \/ ReceiveCall
  \/ Receive
  \/ ReceiveEnd
  \/ CloseSocket
  \/ ClearFlag
  \/ Parse
  \/ Raise
  \/ RaiseEnd
  \/ Send
  \/ SendFails
  \/ SendEnd
  \/ Cancelled

-----------------------------------------------------------------------------
(* Clients and network (external). *)

(* listen(lsocket, 1): the kernel completes the handshake of one waiting
   client, with or without an accept. *)
Backlog == 1

Waiting(c) == \E i \in DOMAIN backlog : backlog[i] = c

Connect(c) ==
  /\ islsock
  /\ Len(backlog) < Backlog
  /\ c \notin open \cup left
  /\ closes[c] = 0
  /\ ~Waiting(c)
  /\ backlog' = Append(backlog, c)
  /\ UNCHANGED <<fields, threadVars, mainVars, open, closes, clientVars,
                 executed>>

ClientSend(c) ==
  /\ c \in open \/ Waiting(c)
  /\ c \notin left
  /\ sent[c] < mode.commands
  /\ Pipelined \/ Len(got[c]) = sent[c]
  /\ sent' = [sent EXCEPT ![c] = @ + 1]
  /\ net' = [net EXCEPT ![c] = @ \o <<sent'[c], NL>>]
  /\ UNCHANGED <<fields, threadVars, mainVars, kernel, rcv, got, left, executed>>

(* A segment arrives. *)
Deliver(c) ==
  \E n \in 1 .. Len(net[c]) :
    /\ ~Split => net[c][n] = NL
    /\ rcv' = [rcv EXCEPT ![c] = @ \o SubSeq(net[c], 1, n)]
    /\ net' = [net EXCEPT ![c] = SubSeq(@, n + 1, Len(@))]
    /\ UNCHANGED <<fields, threadVars, mainVars, kernel, sent, got, left,
                   executed>>

Leave(c) ==
  /\ MayLeave
  /\ c \in open
  /\ c \notin left
  /\ left' = left \cup {c}
  /\ UNCHANGED <<fields, threadVars, mainVars, kernel, sent, net, rcv, got,
                 executed>>

Next ==
  /\ UNCHANGED mode
  /\ \/ Main
     \/ KillClose
     \/ Thread
     \/ \E c \in Clients : Connect(c) \/ ClientSend(c) \/ Deliver(c) \/ Leave(c)

(* Both threads run on, the network delivers; nothing makes a client connect,
   send or leave. *)
Fairness ==
  /\ WF_serverVars(Main /\ UNCHANGED mode)
  /\ WF_serverVars(Thread /\ UNCHANGED mode)
  /\ \A c \in Clients : WF_serverVars(Deliver(c) /\ UNCHANGED mode)

Spec == Init /\ [][Next]_serverVars /\ Fairness

-----------------------------------------------------------------------------

ThreadPlaces == {"none", "accept", "accepted", "loop", "recv", "wait", "close",
                 "clear", "parse", "raise", "send", "exited", "cancelled"}

MainPlaces == {"setup", "failed", "killClear", "killListen", "killAll", "join",
               "down"}

Tokens == 0 .. MaxCommands

TypeOK ==
  /\ islsock \in BOOLEAN /\ iscsock \in BOOLEAN /\ killAll \in BOOLEAN
  /\ cancel \in BOOLEAN
  /\ csocket \in Clients \cup {NoClient}
  /\ listeners \in 0 .. Len(Listeners) /\ called \in 0 .. Len(Listeners)
  /\ thread \in ThreadPlaces /\ back \in {"none", "parse", "send"}
  /\ str \in Seq(Tokens) /\ answers \in Seq(Tokens)
  /\ main \in MainPlaces
  /\ backlog \in Seq(Clients) /\ open \subseteq Clients
  /\ closes \in [Clients -> Nat] /\ sent \in [Clients -> 0 .. MaxCommands]
  /\ net \in [Clients -> Seq(Tokens)] /\ rcv \in [Clients -> Seq(Tokens)]
  /\ got \in [Clients -> Seq(Tokens)] /\ left \subseteq Clients
  /\ executed \in Seq(Clients \X (1 .. MaxCommands))
  /\ mode \in Modes

(* The turret carries out commands of one client only, each at most once and
   in the order the client sent them, whatever borders TCP gives to the
   segments and whenever the client leaves or the server is killed. *)
ExecutedInOrder ==
  /\ \A i \in DOMAIN executed : executed[i][2] <= sent[executed[i][1]]
  /\ \A i, j \in DOMAIN executed :
       i < j => /\ executed[i][1] = executed[j][1]
                /\ executed[i][2] < executed[j][2]

(* The answers a client has read up to the i-th, errors aside. *)
Answered(c, i) == {j \in 1 .. i : got[c][j] # ERR}

(* What the client is told was done is what was done, in that order: its n-th
   answer, errors aside, is that of the n-th command that was carried out. *)
AnswersInOrder ==
  \A c \in Clients : \A i \in DOMAIN got[c] :
    LET n == Cardinality(Answered(c, i))
    IN  got[c][i] # ERR => n \in DOMAIN executed /\ executed[n] = <<c, got[c][i]>>

(* Commands are carried out, and answered, in the order they were sent. *)
InOrder == ExecutedInOrder /\ AnswersInOrder

(* A descriptor is closed once: a second close may hit a descriptor that
   another part of the program has opened meanwhile.  Where main never kills
   the server it is so, however clients leave and sends fail. *)
ClosedOnceAlways == \A c \in Clients : closes[c] <= 1
ClosedOnce == ~MayKill => ClosedOnceAlways

(* Every command of a client that stays is answered, if it waits for each
   answer, its commands arrive whole and the listeners were attached before. *)
EveryCommandAnswered ==
  \A c \in Clients :
    (/\ ~MayKill /\ ListenersFirst /\ ~Pipelined /\ ~Split
     /\ c \in open /\ Len(got[c]) < sent[c])
      ~> (Len(got[c]) = sent[c] \/ c \in left)
EveryCommandAnsweredAlways ==
  \A c \in Clients : \A k \in 1 .. MaxCommands :
    (c \in open /\ sent[c] >= k) ~> (Len(got[c]) >= k \/ c \in left)

(* Every well-formed command of a client that stays is carried out. *)
EveryCommandRuns ==
  \A c \in Clients : \A k \in 1 .. MaxCommands :
    (c \in open /\ sent[c] >= k /\ Module[k] # "invalid")
      ~> (<<c, k>> \in ToSet(executed) \/ c \in left)

(* KillServer() returns: the thread it joins is cancelled wherever it waits. *)
KillCompletes == (main = "killClear") ~> (main = "down")

(* Daemon.cpp: "Keep handling incoming connections, one at a time".  A client
   that waits in the listen queue is served in the end. *)
EveryClientServed == \A c \in Clients : Waiting(c) ~> c \in open

(* controllerTest.cpp reports "Server down." after KillServer(): no connection
   is open any more. *)
DownIsClosed == main = "down" => open = {}

=============================================================================
