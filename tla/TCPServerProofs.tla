-------------------------- MODULE TCPServerProofs --------------------------
(***************************************************************************)
(* Theorems about TCPServer, for any clients, commands and modes: the      *)
(* server serves one client, closes its connection once unless main kills  *)
(* it, carries out its commands in the order they were sent and answers in *)
(* the order it carried them out.                                          *)
(***************************************************************************)
EXTENDS TCPServer, TLAPS, FiniteSetTheorems, SequenceTheorems

(* The j-th token of what a client sends. *)
TokenAt(j) == IF j % 2 = 1 THEN (j + 1) \div 2 ELSE NL

(* How many tokens of a client the server has received. *)
Consumed(c) == 2 * sent[c] - Len(rcv[c]) - Len(net[c])

(* What has arrived and what is on its way are the last tokens sent. *)
StreamInv ==
  \A c \in Clients :
    /\ Consumed(c) \in Nat
    /\ \A i \in DOMAIN rcv[c] : rcv[c][i] = TokenAt(Consumed(c) + i)
    /\ \A i \in DOMAIN net[c] : net[c][i] = TokenAt(2 * sent[c] - Len(net[c]) + i)

(* Where the thread has a client. *)
Serving == {"accepted", "recv", "wait", "close", "clear", "parse", "raise", "send"}

(* The server serves the first client it accepts and no other. *)
OneClientInv ==
  /\ thread \in {"none", "accept"} => csocket = NoClient
  /\ thread \in Serving => csocket \in Clients
  /\ open \subseteq {csocket}
  /\ csocket = NoClient => open = {} /\ executed = <<>> /\ answers = <<>>
  /\ csocket = NoClient \/ thread = "accepted" => ~iscsock /\ executed = <<>>
  /\ \A c \in Clients :
         c # csocket \/ thread = "accepted" => got[c] = <<>> /\ closes[c] = 0

(* A closed connection is not closed again: its flag is about to be cleared, or
   is. *)
CloseInv ==
  ~MayKill =>
    /\ main \in {"setup", "failed"}
    /\ \A c \in Clients : closes[c] <= 1
    /\ \A c \in Clients : closes[c] = 1 /\ iscsock => thread = "clear"

(* The command at the front of the string is newer than all carried out. *)
Newer(k) == \A i \in DOMAIN executed : executed[i][2] < k

(* The listener that the command addresses has been called. *)
Called == \E i \in 1 .. called : Listeners[i] = Module[str[1]]

(* Commands carried out were received, in order, and the next one is newer. *)
CommandInv ==
  /\ \A i \in DOMAIN executed :
       executed[i][1] = csocket /\ 2 * executed[i][2] <= Consumed(csocket)
  /\ \A i, j \in DOMAIN executed : i < j => executed[i][2] < executed[j][2]
  /\ thread \in {"close", "clear"} => back \in {"parse", "send"}
  /\ thread = "wait" \/ (thread \in {"close", "clear"} /\ back = "parse") => str = <<>>
  /\ thread = "parse" /\ str # <<>> /\ str[1] # NL =>
       2 * str[1] <= Consumed(csocket) /\ Newer(str[1])
  /\ thread = "raise" =>
       /\ Parses(str) /\ 2 * str[1] <= Consumed(csocket)
       /\ answers = IF Called THEN <<str[1]>> ELSE <<>>
       /\ ~Called => Newer(str[1])

(* An answer to a command carried out that is yet to be sent. *)
Pending == IF answers # <<>> /\ answers[1] # ERR THEN 1 ELSE 0

(* Where the thread has answers to send. *)
Answering ==
  \/ thread \in {"raise", "send"}
  \/ thread \in {"close", "clear"} /\ back = "send"

(* What is sent to the client arrives. *)
Reachable == iscsock /\ csocket \in open \ left

(* While the client can be reached, each command carried out has been answered,
   or its answer is pending. *)
AnswerInv ==
  /\ thread = "cancelled" \/ Answering \/ answers = <<>>
  /\ answers # <<>> =>
       /\ Len(answers) = 1
       /\ answers[1] # ERR =>
            executed # <<>> /\ executed[Len(executed)] = <<csocket, answers[1]>>
  /\ AnswersInOrder
  /\ Reachable =>
       Cardinality(Answered(csocket, Len(got[csocket]))) + Pending = Len(executed)

-----------------------------------------------------------------------------
(* The types. *)

(* TypeOK in four parts: the threads and the fields they share, ... *)
FieldTypes ==
  /\ islsock \in BOOLEAN /\ iscsock \in BOOLEAN /\ killAll \in BOOLEAN
  /\ cancel \in BOOLEAN
  /\ csocket \in Clients \cup {NoClient}
  /\ listeners \in 0 .. 2 /\ called \in 0 .. 2
  /\ thread \in ThreadPlaces /\ back \in {"none", "parse", "send"}
  /\ main \in MainPlaces /\ mode \in Modes

(* ... the kernel's connections, ... *)
KernelTypes ==
  /\ backlog \in Seq(Clients) /\ open \subseteq Clients /\ left \subseteq Clients
  /\ closes \in [Clients -> Nat]

(* ... commands and answers, ... *)
CommandTypes ==
  /\ str \in Seq(Tokens) /\ answers \in Seq(Tokens)
  /\ got \in [Clients -> Seq(Tokens)]
  /\ executed \in Seq(Clients \X (1 .. MaxCommands))

(* ... and bytes. *)
StreamTypes ==
  /\ sent \in [Clients -> 0 .. MaxCommands]
  /\ net \in [Clients -> Seq(Tokens)] /\ rcv \in [Clients -> Seq(Tokens)]

(* The four are TypeOK. *)
LEMMA TypeParts == TypeOK <=> FieldTypes /\ KernelTypes /\ CommandTypes /\ StreamTypes
<1>1. Len(Listeners) = 2
  BY DEF Listeners
<1> QED
  BY <1>1 DEF TypeOK, FieldTypes, KernelTypes, CommandTypes, StreamTypes

(* Initially. *)
LEMMA TypesInit == Init => FieldTypes /\ KernelTypes /\ CommandTypes /\ StreamTypes
<1> SUFFICES ASSUME Init PROVE FieldTypes /\ KernelTypes /\ CommandTypes /\ StreamTypes
  OBVIOUS
<1> USE DEF Init
<1>0. MaxCommands \in Nat \ {0}
  BY TCPServerAssumption
<1>1. FieldTypes
  <2>1. thread \in ThreadPlaces /\ main \in MainPlaces
    BY DEF ThreadPlaces, MainPlaces
  <2>2. /\ csocket \in Clients \cup {NoClient} /\ mode \in Modes
        /\ back \in {"none", "parse", "send"}
    OBVIOUS
  <2>3. listeners \in 0 .. 2 /\ called \in 0 .. 2
    OBVIOUS
  <2> QED
    BY <2>1, <2>2, <2>3 DEF FieldTypes
<1>2. KernelTypes
  BY <1>0 DEF KernelTypes
<1>3. CommandTypes
  BY <1>0 DEF CommandTypes
<1>4. StreamTypes
  BY <1>0 DEF StreamTypes
<1> QED
  BY <1>1, <1>2, <1>3, <1>4

(* Every step keeps the types of the fields. *)
LEMMA FieldsStep ==
  ASSUME FieldTypes, KernelTypes, [Next]_serverVars
  PROVE  FieldTypes'
<1> USE DEF FieldTypes
<1>0. Len(Listeners) = 2
  BY DEF Listeners
<1>1. CASE UNCHANGED serverVars
  BY <1>1 DEF serverVars, fields, threadVars, mainVars
<1>2. ASSUME mode' = mode, Main \/ KillClose
      PROVE  FieldTypes'
  <2> USE DEF fields, threadVars, mainVars, MainPlaces, ThreadPlaces
  <2>1. CASE AddListener
    BY <1>0, <1>2, <2>1 DEF AddListener
  <2>2. CASE Start \/ StartFails \/ KillClose
    BY <1>2, <2>2 DEF Start, StartFails, KillClose
  <2>3. CASE KillClear \/ KillListen \/ KillCancel \/ KillJoin
    BY <1>2, <2>3, ZenonT(60) DEF KillClear, KillListen, KillCancel, KillJoin
  <2> QED
    BY <1>2, <2>1, <2>2, <2>3 DEF Main
<1>3. ASSUME mode' = mode, Accept
      PROVE  FieldTypes'
  BY <1>3 DEF Accept, Goto, KernelTypes, mainVars, ThreadPlaces
<1>4. ASSUME mode' = mode, Thread, ~Accept
      PROVE  FieldTypes'
  <2> USE DEF Goto, ThreadPlaces, fields, threadVars, mainVars
  <2>1. CASE AcceptFails \/ Register \/ Loop \/ ReceiveCall \/ Receive \/ ReceiveEnd
    BY <1>4, <2>1
    DEF AcceptFails, Register, Loop, isAlive, ReceiveCall, Receive, ReceiveEnd
  <2>2. CASE CloseSocket \/ ClearFlag
    BY <1>4, <2>2 DEF CloseSocket, ClearFlag
  <2>5. CASE Parse
    BY <1>4, <2>5 DEF Parse
  <2>6. CASE RaiseEnd
    BY <1>4, <2>6 DEF RaiseEnd
  <2>3. CASE Raise
    BY <1>4, <2>3 DEF Raise
  <2>4. CASE Send \/ SendFails \/ SendEnd \/ Cancelled
    BY <1>4, <2>4 DEF Send, SendFails, SendEnd, Cancelled
  <2> QED
    BY <1>4, <2>1, <2>2, <2>3, <2>4, <2>5, <2>6 DEF Thread
<1>5. ASSUME mode' = mode, NEW c \in Clients,
             Connect(c) \/ ClientSend(c) \/ Deliver(c) \/ Leave(c)
      PROVE  FieldTypes'
  BY <1>5 DEF Connect, ClientSend, Deliver, Leave, fields, threadVars, mainVars
<1> QED
  BY <1>1, <1>2, <1>3, <1>4, <1>5 DEF Next

(* The steps that leave the queue and the connections alone ... *)
Inside ==
  \/ AddListener \/ Start \/ StartFails \/ KillClear \/ KillCancel \/ KillJoin
  \/ AcceptFails \/ Register \/ Loop \/ ReceiveCall \/ Receive \/ ReceiveEnd
  \/ ClearFlag \/ Parse \/ Raise \/ RaiseEnd \/ Send \/ SendFails \/ SendEnd
  \/ Cancelled
  \/ \E c \in Clients : ClientSend(c) \/ Deliver(c)

(* They keep both. *)
LEMMA InsideKeeps == Inside => UNCHANGED <<kernel, left>>
BY DEF Inside, AddListener, Start, StartFails, KillClear, KillCancel, KillJoin,
       AcceptFails, Register, Loop, ReceiveCall, Receive, ReceiveEnd, ClearFlag, Parse,
       Raise, RaiseEnd, Send, SendFails, SendEnd, Cancelled, ClientSend, Deliver,
       kernel, clientVars

(* ... and the others. *)
LEMMA NextInside ==
  Next <=> /\ mode' = mode
           /\ \/ Inside \/ KillClose \/ KillListen \/ Accept \/ CloseSocket
              \/ \E c \in Clients : Connect(c) \/ Leave(c)
BY DEF Next, Main, Thread, Inside

(* Every step keeps the types of the connections. *)
LEMMA KernelStep ==
  ASSUME FieldTypes, KernelTypes, OneClientInv, [Next]_serverVars
  PROVE  KernelTypes'
<1> USE DEF KernelTypes
<1>1. CASE UNCHANGED serverVars \/ Inside
  <2>1. UNCHANGED <<kernel, left>>
    BY <1>1, InsideKeeps DEF serverVars, clientVars
  <2> QED
    BY <2>1 DEF kernel
<1>2. CASE KillClose \/ CloseSocket
  BY <1>2 DEF KillClose, CloseSocket, Close, kernel, clientVars
<1>3. CASE KillListen
  BY <1>3 DEF KillListen, clientVars
<1>4. CASE Accept
  <2>1. backlog \in Seq(Clients) /\ backlog # <<>>
    BY <1>4 DEF Accept
  <2>2. Head(backlog) \in Clients /\ Tail(backlog) \in Seq(Clients)
    BY <2>1
  <2>3. /\ open' = open \cup {Head(backlog)} /\ backlog' = Tail(backlog)
        /\ left' = left /\ closes' = closes
    BY <1>4 DEF Accept, clientVars
  <2> QED
    BY <2>2, <2>3
<1>5. ASSUME NEW c \in Clients, Connect(c) \/ Leave(c)
      PROVE  KernelTypes'
  BY <1>5, SMTT(30) DEF Connect, Leave, kernel, clientVars
<1> QED
  BY <1>1, <1>2, <1>3, <1>4, <1>5, NextInside

-----------------------------------------------------------------------------
(* The bytes of a client. *)

(* All steps but three leave the bytes alone. *)
Still ==
  \/ Main \/ KillClose \/ (Thread /\ ~Receive)
  \/ \E c \in Clients : Connect(c) \/ Leave(c)

(* They keep the bytes. *)
LEMMA StillKeeps == Still => UNCHANGED <<sent, net, rcv>>
<1>1. ASSUME Main \/ KillClose
      PROVE  UNCHANGED <<sent, net, rcv>>
  BY <1>1
  DEF Main, AddListener, Start, StartFails, KillClose, KillClear, KillListen,
              KillCancel, KillJoin, clientVars
<1>2. ASSUME Thread, ~Receive
      PROVE  UNCHANGED <<sent, net, rcv>>
  BY <1>2 DEF Thread, Accept, AcceptFails, Register, Loop, ReceiveCall, ReceiveEnd,
              CloseSocket, ClearFlag, Parse, Raise, RaiseEnd, Send, SendFails, SendEnd,
              Cancelled, clientVars
<1>3. ASSUME NEW c \in Clients, Connect(c) \/ Leave(c)
      PROVE  UNCHANGED <<sent, net, rcv>>
  BY <1>3 DEF Connect, Leave, clientVars
<1> QED
  BY <1>1, <1>2, <1>3 DEF Still

(* No byte was sent. *)
LEMMA StreamInit == Init => StreamTypes /\ StreamInv
<1> SUFFICES ASSUME Init PROVE StreamTypes /\ StreamInv
  OBVIOUS
<1>1. MaxCommands \in Nat \ {0}
  BY TCPServerAssumption
<1>2. \A c \in Clients : sent[c] = 0 /\ net[c] = <<>> /\ rcv[c] = <<>>
  BY DEF Init
<1> QED
  BY <1>1, <1>2, TypesInit DEF StreamTypes, StreamInv, Consumed

(* recv takes all that has arrived. *)
LEMMA ReceiveStream ==
  ASSUME FieldTypes, StreamTypes, StreamInv, csocket \in Clients, Receive
  PROVE  /\ StreamTypes' /\ StreamInv'
         /\ Consumed(csocket)' = Consumed(csocket) + Len(rcv[csocket])
<1>1. /\ UNCHANGED <<sent, net>> /\ rcv' = [rcv EXCEPT ![csocket] = <<>>]
      /\ csocket' = csocket
  BY DEF Receive, fields
<1>2. StreamTypes'
  BY <1>1 DEF StreamTypes
<1>3. ASSUME NEW c \in Clients
      PROVE  /\ rcv[c] \in Seq(Tokens) /\ net[c] \in Seq(Tokens) /\ sent[c] \in Nat
             /\ Len(rcv[c]) \in Nat /\ Len(net[c]) \in Nat
             /\ rcv'[c] = IF c = csocket THEN <<>> ELSE rcv[c]
             /\ Consumed(c)' = IF c = csocket THEN Consumed(c) + Len(rcv[c])
                               ELSE Consumed(c)
  BY <1>1, TCPServerAssumption DEF StreamTypes, Consumed
<1>4. StreamInv'
  BY <1>1, <1>3 DEF StreamInv
<1> QED
  BY <1>1, <1>2, <1>3, <1>4

(* A command and its '\n' are the next two tokens. *)
LEMMA SendStream ==
  ASSUME StreamTypes, StreamInv, mode \in Modes, NEW c \in Clients, ClientSend(c)
  PROVE  /\ StreamTypes' /\ StreamInv'
         /\ \A d \in Clients : Consumed(d)' = Consumed(d)
<1> DEFINE k == sent[c] + 1
<1>1. /\ k \in 1 .. MaxCommands /\ sent[c] \in Nat /\ MaxCommands \in Nat
      /\ Len(net[c]) \in Nat /\ net[c] \in Seq(Tokens) /\ <<k, NL>> \in Seq(Tokens)
  BY TCPServerAssumption DEF ClientSend, StreamTypes, Mode, NL, Tokens
<1>2. /\ sent' = [sent EXCEPT ![c] = k] /\ rcv' = rcv
      /\ net' = [net EXCEPT ![c] = net[c] \o <<k, NL>>]
  BY DEF ClientSend, StreamTypes
<1> HIDE DEF k
<1>3. /\ sent'[c] = k /\ net'[c] = net[c] \o <<k, NL>> /\ net'[c] \in Seq(Tokens)
      /\ Len(net'[c]) = Len(net[c]) + 2
      /\ \A d \in Clients : d # c => sent'[d] = sent[d] /\ net'[d] = net[d]
  BY <1>1, <1>2 DEF StreamTypes
<1>4. StreamTypes'
  BY <1>1, <1>2, <1>3 DEF StreamTypes
<1>5. \A d \in Clients : Consumed(d)' = Consumed(d)
  BY <1>1, <1>2, <1>3, SMTT(30) DEF Consumed, StreamTypes, k
<1>6. \A i \in DOMAIN net'[c] : net'[c][i] = TokenAt(2 * sent'[c] - Len(net'[c]) + i)
  <2> TAKE i \in DOMAIN net'[c]
  <2>1. i \in 1 .. Len(net[c]) + 2
    BY <1>1, <1>3
  <2>2. 2 * sent'[c] - Len(net'[c]) + i = 2 * sent[c] - Len(net[c]) + i
    BY <1>1, <1>3, <2>1 DEF k
  <2>3. CASE i <= Len(net[c])
    <3>1. net'[c][i] = net[c][i] /\ i \in DOMAIN net[c]
      BY <1>1, <1>3, <2>1, <2>3
    <3> QED
      BY <2>2, <3>1 DEF StreamInv
  <2>4. CASE i = Len(net[c]) + 1
    <3> DEFINE m == Len(net[c])
    <3>a. (net[c] \o <<k, NL>>)[m + 1] = <<k, NL>>[1]
      BY <1>1
    <3>b. m \in Int /\ sent[c] \in Int
      BY <1>1
    <3>c. net'[c][i] = k
      BY <1>3, <2>4, <3>a
    <3> HIDE DEF m
    <3>d. 2 * sent[c] - m + (m + 1) = 2 * sent[c] + 1
      BY <3>b
    <3>1. net'[c][i] = k /\ 2 * sent[c] - Len(net[c]) + i = 2 * sent[c] + 1
      BY <2>4, <3>c, <3>d DEF m
    <3>2. (2 * sent[c] + 1) % 2 = 1 /\ ((2 * sent[c] + 1) + 1) \div 2 = k
      BY <1>1 DEF k
    <3> QED
      BY <2>2, <3>1, <3>2 DEF TokenAt
  <2>5. CASE i = Len(net[c]) + 2
    <3> DEFINE m == Len(net[c])
    <3>a. (net[c] \o <<k, NL>>)[m + 2] = <<k, NL>>[2]
      BY <1>1
    <3>b. m \in Int /\ sent[c] \in Int
      BY <1>1
    <3>c. net'[c][i] = NL
      BY <1>3, <2>5, <3>a
    <3> HIDE DEF m
    <3>d. 2 * sent[c] - m + (m + 2) = 2 * sent[c] + 2
      BY <3>b
    <3>1. net'[c][i] = NL /\ 2 * sent[c] - Len(net[c]) + i = 2 * sent[c] + 2
      BY <2>5, <3>c, <3>d DEF m
    <3>2. (2 * sent[c] + 2) % 2 = 0
      BY <1>1
    <3> QED
      BY <2>2, <3>1, <3>2 DEF TokenAt
  <2> QED
    BY <1>1, <2>1, <2>3, <2>4, <2>5
<1>7. StreamInv'
  <2> SUFFICES ASSUME NEW d \in Clients
               PROVE  /\ Consumed(d)' \in Nat
                      /\ \A i \in DOMAIN rcv'[d] :
                           rcv'[d][i] = TokenAt(Consumed(d)' + i)
                      /\ \A i \in DOMAIN net'[d] :
                           net'[d][i] = TokenAt(2 * sent'[d] - Len(net'[d]) + i)
    BY DEF StreamInv
  <2>1. /\ Consumed(d)' = Consumed(d) /\ rcv'[d] = rcv[d]
        /\ d # c => sent'[d] = sent[d] /\ net'[d] = net[d]
    BY <1>2, <1>3, <1>5
  <2>2. /\ Consumed(d) \in Nat
        /\ \A i \in DOMAIN rcv[d] : rcv[d][i] = TokenAt(Consumed(d) + i)
        /\ \A i \in DOMAIN net[d] : net[d][i] = TokenAt(2 * sent[d] - Len(net[d]) + i)
    BY DEF StreamInv
  <2> QED
    BY <1>6, <2>1, <2>2
<1> QED
  BY <1>4, <1>5, <1>7

(* A segment keeps its place in the stream when it arrives. *)
LEMMA DeliverStream ==
  ASSUME StreamTypes, StreamInv, NEW c \in Clients, Deliver(c)
  PROVE  /\ StreamTypes' /\ StreamInv'
         /\ \A d \in Clients : Consumed(d)' = Consumed(d)
<1>1. PICK n \in 1 .. Len(net[c]) :
        /\ rcv' = [rcv EXCEPT ![c] = rcv[c] \o SubSeq(net[c], 1, n)]
        /\ net' = [net EXCEPT ![c] = SubSeq(net[c], n + 1, Len(net[c]))]
        /\ sent' = sent
  BY DEF Deliver, StreamTypes
<1> DEFINE head == SubSeq(net[c], 1, n)
           rest == SubSeq(net[c], n + 1, Len(net[c]))
<1>2. /\ net[c] \in Seq(Tokens) /\ rcv[c] \in Seq(Tokens) /\ n \in Nat
      /\ sent[c] \in Nat
      /\ Len(net[c]) \in Nat /\ Len(rcv[c]) \in Nat /\ n <= Len(net[c]) /\ n >= 1
  BY <1>1, TCPServerAssumption DEF StreamTypes
<1>3. /\ head \in Seq(Tokens) /\ Len(head) = n
      /\ \A i \in 1 .. n : head[i] = net[c][i]
  BY <1>2
<1>4. /\ rest \in Seq(Tokens) /\ Len(rest) = Len(net[c]) - n
      /\ \A i \in 1 .. Len(rest) : rest[i] = net[c][n + i]
  BY <1>2, SMTT(30)
<1> HIDE DEF head, rest
<1>5. /\ rcv'[c] = rcv[c] \o head /\ net'[c] = rest
      /\ rcv'[c] \in Seq(Tokens) /\ Len(rcv'[c]) = Len(rcv[c]) + n
      /\ \A d \in Clients : d # c => rcv'[d] = rcv[d] /\ net'[d] = net[d]
  BY <1>1, <1>2, <1>3 DEF StreamTypes, head, rest
<1>6. StreamTypes'
  BY <1>1, <1>3, <1>4, <1>5 DEF StreamTypes, head, rest
<1>7. \A d \in Clients : Consumed(d)' = Consumed(d)
  <2> SUFFICES ASSUME NEW d \in Clients
               PROVE  2 * sent[d] - Len(rcv'[d]) - Len(net'[d])
                        = 2 * sent[d] - Len(rcv[d]) - Len(net[d])
    BY <1>1 DEF Consumed
  <2>1. CASE d # c
    BY <1>5, <2>1
  <2>2. CASE d = c
    <3> DEFINE s == sent[c]
               m == Len(net[c])
               r == Len(rcv[c])
    <3>1. s \in Int /\ m \in Int /\ r \in Int /\ n \in Int
      BY <1>2
    <3>2. Len(rcv'[c]) = r + n /\ Len(net'[c]) = m - n
      BY <1>4, <1>5
    <3> HIDE DEF s, m, r
    <3>3. 2 * s - (r + n) - (m - n) = 2 * s - r - m
      BY <3>1
    <3> QED
      BY <2>2, <3>2, <3>3 DEF s, m, r
  <2> QED
    BY <2>1, <2>2
<1>8. Consumed(c) = 2 * sent[c] - Len(rcv[c]) - Len(net[c]) /\ Consumed(c) \in Nat
  BY DEF Consumed, StreamInv
<1>9. \A i \in DOMAIN rcv'[c] : rcv'[c][i] = TokenAt(Consumed(c) + i)
  <2> TAKE i \in DOMAIN rcv'[c]
  <2>1. i \in 1 .. Len(rcv[c]) + n
    BY <1>5
  <2>2. CASE i <= Len(rcv[c])
    BY <1>2, <1>3, <1>5, <2>1, <2>2 DEF StreamInv
  <2>3. CASE i > Len(rcv[c])
    <3>1. rcv'[c][i] = net[c][i - Len(rcv[c])] /\ i - Len(rcv[c]) \in 1 .. Len(net[c])
      BY <1>2, <1>3, <1>5, <2>1, <2>3, SMTT(30)
    <3>a. i \in Int /\ sent[c] \in Int /\ Len(net[c]) \in Int /\ Len(rcv[c]) \in Int
      BY <1>2, <2>1
    <3>2. 2 * sent[c] - Len(net[c]) + (i - Len(rcv[c])) = Consumed(c) + i
      <4> DEFINE s == sent[c]
                 m == Len(net[c])
                 r == Len(rcv[c])
                 x == Consumed(c)
      <4>1. x = 2 * s - r - m /\ x \in Int /\ s \in Int /\ m \in Int /\ r \in Int
        BY <1>8, <3>a
      <4> HIDE DEF s, m, r, x
      <4>2. 2 * s - m + (i - r) = x + i
        BY <3>a, <4>1
      <4> QED
        BY <4>2 DEF s, m, r, x
    <3>3. i - Len(rcv[c]) \in DOMAIN net[c]
      BY <1>2, <3>1
    <3> QED
      BY <3>1, <3>2, <3>3 DEF StreamInv
  <2> QED
    BY <1>2, <2>1, <2>2, <2>3
<1>10. \A i \in DOMAIN net'[c] : net'[c][i] = TokenAt(2 * sent[c] - Len(net'[c]) + i)
  <2> TAKE i \in DOMAIN net'[c]
  <2>0. i \in 1 .. Len(rest) /\ n + i \in 1 .. Len(net[c])
    BY <1>2, <1>4, <1>5, SMTT(30)
  <2>1. i \in Nat /\ net'[c][i] = net[c][n + i] /\ n + i \in DOMAIN net[c]
    BY <1>2, <1>4, <1>5, <2>0, SMTT(30)
  <2>a. Len(net'[c]) = Len(net[c]) - n
    BY <1>4, <1>5
  <2>2. 2 * sent[c] - Len(net'[c]) + i = 2 * sent[c] - Len(net[c]) + (n + i)
    BY <1>2, <2>1, <2>a
  <2> QED
    BY <2>1, <2>2 DEF StreamInv
<1>11. StreamInv'
  BY <1>1, <1>5, <1>7, <1>9, <1>10, SMTT(30) DEF StreamInv
<1> QED
  BY <1>6, <1>7, <1>11

(* Every step keeps the stream in order. *)
LEMMA StreamStep ==
  ASSUME FieldTypes, StreamTypes, StreamInv, OneClientInv, [Next]_serverVars
  PROVE  /\ StreamTypes' /\ StreamInv'
         /\ ~Receive => \A d \in Clients : Consumed(d)' = Consumed(d)
<1>1. CASE UNCHANGED <<sent, net, rcv>>
  BY <1>1 DEF StreamTypes, StreamInv, Consumed
<1>2. CASE Receive
  <2>1. csocket \in Clients
    BY <1>2 DEF OneClientInv, Receive, Goto, Serving
  <2> QED
    BY <1>2, <2>1, ReceiveStream
<1>3. CASE UNCHANGED serverVars
  BY <1>1, <1>3 DEF serverVars, clientVars
<1> QED
  BY <1>1, <1>2, <1>3, StillKeeps, SendStream, DeliverStream
  DEF Next, Still, FieldTypes

-----------------------------------------------------------------------------
(* One client, whose connection is closed once. *)

(* Initially there is no client. *)
LEMMA OneClientInit == Init => OneClientInv /\ CloseInv
BY DEF Init, OneClientInv, CloseInv, Serving

(* Every step keeps to one client, and closes its connection once. *)
LEMMA OneClientStep ==
  ASSUME FieldTypes, KernelTypes, CommandTypes, OneClientInv, CloseInv, CommandInv,
         [Next]_serverVars
  PROVE  OneClientInv' /\ CloseInv'
<1> USE DEF OneClientInv, CloseInv, MayKill
<1>1. CASE UNCHANGED serverVars
  BY <1>1 DEF serverVars, fields, threadVars, mainVars, kernel, clientVars
<1>2. ASSUME mode' = mode,
             AddListener \/ Start \/ StartFails \/ KillClear \/ KillCancel \/ KillJoin
      PROVE  OneClientInv' /\ CloseInv'
  BY <1>2
  DEF AddListener, Start, StartFails, KillClear, KillCancel, KillJoin, fields,
      threadVars, mainVars, kernel, clientVars, FieldTypes, Serving
<1>3. ASSUME mode' = mode, KillListen
      PROVE  OneClientInv' /\ CloseInv'
  BY <1>3 DEF KillListen, threadVars, clientVars
<1>4. ASSUME mode' = mode, KillClose
      PROVE  OneClientInv' /\ CloseInv'
  BY <1>4
  DEF KillClose, Close, fields, threadVars, kernel, clientVars, KernelTypes, MayKill
<1>5. ASSUME mode' = mode, Accept
      PROVE  OneClientInv' /\ CloseInv'
  <2>1. csocket' \in Clients /\ csocket = NoClient /\ csocket' = Head(backlog)
    BY <1>5 DEF Accept, Goto, KernelTypes
  <2> QED
    BY <1>5, <2>1, TCPServerAssumption
    DEF Accept, Goto, mainVars, clientVars, Serving
<1>6. ASSUME mode' = mode, CloseSocket
      PROVE  OneClientInv' /\ CloseInv'
  <2>1. csocket \in Clients /\ thread = "close" /\ thread' = "clear"
    BY <1>6 DEF CloseSocket, Goto, Serving
  <2>2. UNCHANGED <<mode, csocket, iscsock, executed, answers, main, got>>
    BY <1>6 DEF CloseSocket, fields, mainVars, clientVars
  <2>3. CASE iscsock
    <3>1. open' = open \ {csocket} /\ closes' = [closes EXCEPT ![csocket] = @ + 1]
      BY <1>6, <2>3 DEF CloseSocket, Close
    <3>2. /\ \A c \in Clients : c # csocket => closes'[c] = closes[c]
          /\ ~mode.kill => closes'[csocket] = 1
      BY <2>1, <2>3, <3>1 DEF KernelTypes
    <3> QED
      BY <2>1, <2>2, <2>3, <3>1, <3>2, TCPServerAssumption DEF Serving
  <2>4. CASE ~iscsock
    BY <1>6, <2>1, <2>2, <2>4 DEF CloseSocket, kernel, Serving
  <2> QED
    BY <2>3, <2>4
<1>7. ASSUME mode' = mode, AcceptFails \/ Register \/ Loop \/ ReceiveCall
      PROVE  OneClientInv' /\ CloseInv'
  <2>1. NoClient \notin Clients /\ csocket \in Clients \cup {NoClient}
    BY TCPServerAssumption DEF FieldTypes
  <2>2. UNCHANGED <<csocket, kernel, main, executed, answers, got>>
    BY <1>7
    DEF AcceptFails, Register, Loop, ReceiveCall, fields, mainVars, clientVars
  <2>3. CASE AcceptFails
    BY <1>7, <2>1, <2>2, <2>3 DEF AcceptFails, Goto, Serving, fields, kernel
  <2>4. CASE Register
    BY <1>7, <2>1, <2>2, <2>4 DEF Register, Goto, Serving, kernel
  <2>5. CASE Loop \/ ReceiveCall
    BY <1>7, <2>1, <2>2, <2>5
    DEF Loop, isAlive, ReceiveCall, Goto, Serving, fields, kernel
  <2> QED
    BY <1>7, <2>3, <2>4, <2>5
<1>8. ASSUME mode' = mode, Receive \/ ReceiveEnd \/ ClearFlag
      PROVE  OneClientInv' /\ CloseInv'
  BY <1>8
  DEF Receive, ReceiveEnd, ClearFlag, CommandInv, Goto, Serving, fields, mainVars,
      kernel, clientVars
<1>9. ASSUME mode' = mode, Parse \/ Raise \/ RaiseEnd
      PROVE  OneClientInv' /\ CloseInv'
  BY <1>9, TCPServerAssumption
  DEF Parse, Raise, RaiseEnd, Goto, Serving, fields, mainVars, kernel, clientVars
<1>10. ASSUME mode' = mode, Send \/ SendFails \/ SendEnd \/ Cancelled
      PROVE  OneClientInv' /\ CloseInv'
  BY <1>10, TCPServerAssumption, SMTT(30)
  DEF Send, SendFails, SendEnd, Cancelled, Goto, Serving, fields, threadVars, mainVars,
      kernel, clientVars, CommandTypes
<1>11. ASSUME mode' = mode, NEW c \in Clients,
              Connect(c) \/ ClientSend(c) \/ Deliver(c) \/ Leave(c)
      PROVE  OneClientInv' /\ CloseInv'
  BY <1>11
  DEF Connect, ClientSend, Deliver, Leave, fields, threadVars, mainVars, kernel,
      clientVars
<1> QED
  BY <1>1, <1>2, <1>3, <1>4, <1>5, <1>6, <1>7, <1>8, <1>9, <1>10, <1>11
  DEF Next, Main, Thread

-----------------------------------------------------------------------------
(* Commands are carried out in the order they were sent. *)

(* The string received and what the listeners did of it. *)
work == <<str, answers, called, executed>>

(* Neither main nor clients have a part in it. *)
Others ==
  \/ AddListener \/ StartFails \/ KillClose \/ KillClear \/ KillListen \/ KillCancel
  \/ KillJoin
  \/ \E c \in Clients : Connect(c) \/ ClientSend(c) \/ Deliver(c) \/ Leave(c)

(* They keep what the thread works at. *)
LEMMA OthersKeep == Others => UNCHANGED <<thread, back, work, csocket, got>>
<1>1. ASSUME \/ AddListener \/ StartFails \/ KillClose \/ KillClear \/ KillListen
             \/ KillCancel \/ KillJoin
      PROVE  UNCHANGED <<thread, back, work, csocket, got>>
  BY <1>1 DEF AddListener, StartFails, KillClose, KillClear, KillListen, KillCancel,
              KillJoin, work, fields, threadVars, clientVars
<1>2. ASSUME NEW c \in Clients, Connect(c) \/ ClientSend(c) \/ Deliver(c) \/ Leave(c)
      PROVE  UNCHANGED <<thread, back, work, csocket, got>>
  BY <1>2
  DEF Connect, ClientSend, Deliver, Leave, work, fields, threadVars, clientVars
<1> QED
  BY <1>1, <1>2 DEF Others

(* A step of the server thread that only goes on. *)
Onward ==
  \/ AcceptFails \/ Register \/ Loop \/ ReceiveEnd \/ CloseSocket \/ ClearFlag
  \/ RaiseEnd \/ SendEnd \/ Cancelled

(* It keeps what the thread works at. *)
LEMMA OnwardKeeps == Onward => UNCHANGED <<work, csocket, got>>
BY DEF Onward, AcceptFails, Register, Loop, ReceiveEnd, CloseSocket, ClearFlag,
       RaiseEnd,
       SendEnd, Cancelled, work, fields, clientVars

(* All steps, by what they do to the commands. *)
LEMMA NextWork ==
  Next <=> /\ mode' = mode
           /\ \/ Others \/ Start \/ Onward \/ Accept \/ ReceiveCall \/ Receive
              \/ Parse \/ Raise \/ Send \/ SendFails
BY DEF Next, Main, Thread, Others, Onward

(* Nothing was carried out. *)
LEMMA CommandInit == Init => CommandInv
BY DEF Init, CommandInv

(* A string that is received begins with a command newer than those before. *)
LEMMA ReceiveInOrder ==
  ASSUME FieldTypes, CommandTypes, StreamTypes, StreamInv, OneClientInv,
         CommandInv, Receive
  PROVE  CommandInv'
<1> DEFINE c == csocket
           r == rcv[csocket]
<1>1. /\ c \in Clients /\ csocket' = c /\ r # <<>> /\ thread' = "parse"
      /\ str' = IF Last(r) = NL THEN Front(r) ELSE <<>>
      /\ UNCHANGED <<executed, answers, called, back>>
  BY DEF Receive, Goto, OneClientInv, Serving, fields
<1>2. Consumed(csocket)' = Consumed(c) + Len(r) /\ Consumed(c) \in Nat
  BY <1>1, ReceiveStream DEF StreamInv
<1>3. r \in Seq(Tokens) /\ Len(r) \in Nat \ {0}
  BY <1>1 DEF StreamTypes
<1>4. \A i \in DOMAIN executed : executed[i][2] \in Nat
  BY TCPServerAssumption DEF CommandTypes
<1>5. ASSUME str' # <<>>, str'[1] # NL
      PROVE  2 * str'[1] = Consumed(c) + 2 /\ Len(r) >= 2 /\ str'[1] \in Nat
  <2>1. Last(r) = NL /\ str' = Front(r) /\ Last(r) = r[Len(r)]
    BY <1>1, <1>5 DEF Last
  <2>2. Len(r) >= 2 /\ str'[1] = r[1]
    BY <1>3, <1>5, <2>1 DEF Front
  <2>3. r[1] = TokenAt(Consumed(c) + 1)
    BY <1>1, <1>3 DEF StreamInv
  <2>4. (Consumed(c) + 1) % 2 = 1 /\ r[1] = ((Consumed(c) + 1) + 1) \div 2
    BY <1>5, <2>2, <2>3 DEF TokenAt
  <2>5. \A x \in Nat : (x + 1) % 2 = 1 => /\ 2 * (((x + 1) + 1) \div 2) = x + 2
                                          /\ ((x + 1) + 1) \div 2 \in Nat
    OBVIOUS
  <2> HIDE DEF c, r
  <2> QED
    BY <1>2, <2>2, <2>4, <2>5
<1> HIDE DEF c, r
<1>6. \A i \in DOMAIN executed : executed[i][1] = c /\ 2 * executed[i][2] <= Consumed(c)
  BY DEF CommandInv, c
<1>7. str' # <<>> /\ str'[1] # NL => 2 * str'[1] <= Consumed(csocket)' /\ Newer(str'[1])
  BY <1>2, <1>3, <1>4, <1>5, <1>6 DEF Newer
<1>8. \A i \in DOMAIN executed' :
        executed'[i][1] = csocket' /\ 2 * executed'[i][2] <= Consumed(csocket)'
  BY <1>1, <1>2, <1>3, <1>4, <1>6
<1>9. \A i, j \in DOMAIN executed' : i < j => executed'[i][2] < executed'[j][2]
  BY <1>1 DEF CommandInv
<1> QED
  BY <1>1, <1>7, <1>8, <1>9 DEF CommandInv, Newer

(* A listener that carries out a command makes it the last one. *)
LEMMA RaiseInOrder ==
  ASSUME FieldTypes, CommandTypes, OneClientInv, CommandInv, Raise,
         Consumed(csocket)' = Consumed(csocket)
  PROVE  CommandInv'
<1> DEFINE k == str[1]
           n == Len(executed)
<1>1. /\ thread = "raise" /\ thread' = "raise" /\ called' = called + 1
      /\ called \in 0 .. 1
      /\ UNCHANGED <<str, back, csocket>>
  BY DEF Raise, FieldTypes, fields
<1>2. /\ Parses(str) /\ 2 * k <= Consumed(csocket) /\ (~Called => Newer(k))
      /\ answers = IF Called THEN <<k>> ELSE <<>>
  BY <1>1 DEF CommandInv
<1>3. n \in Nat /\ DOMAIN executed = 1 .. n
  BY DEF CommandTypes
<1>4. Called' <=> Called \/ Listeners[called'] = Module[k]
  <2>1. 1 .. called' = 1 .. called \cup {called'}
    BY <1>1
  <2> QED
    BY <1>1, <2>1 DEF Called
<1>5. CASE Listeners[called'] = Module[k]
  <2>1. executed' = Append(executed, <<csocket, k>>) /\ answers' = Append(answers, k)
    BY <1>5 DEF Raise
  <2>2. ~Called
    <3>1. \A i \in 1 .. called : Listeners[i] # Listeners[called']
      BY <1>1 DEF Listeners
    <3> QED
      BY <1>5, <3>1 DEF Called
  <2>3. answers' = <<k>> /\ Called'
    BY <1>2, <1>4, <1>5, <2>1, <2>2
  <2>4. /\ DOMAIN executed' = 1 .. n + 1
        /\ \A i \in 1 .. n : executed'[i] = executed[i]
        /\ executed'[n + 1] = <<csocket, k>>
    BY <1>3, <2>1 DEF CommandTypes
  <2>5. \A i \in 1 .. n : executed[i][2] < k
    BY <1>2, <1>3, <2>2 DEF Newer
  <2>6. \A i \in DOMAIN executed' :
          executed'[i][1] = csocket' /\ 2 * executed'[i][2] <= Consumed(csocket)'
    <3> TAKE i \in DOMAIN executed'
    <3>1. CASE i \in 1 .. n
      BY <1>1, <1>3, <2>4, <3>1 DEF CommandInv
    <3>2. CASE i = n + 1
      BY <1>1, <1>2, <2>4, <3>2
    <3> QED
      BY <1>3, <2>4, <3>1, <3>2
  <2>7. \A i, j \in DOMAIN executed' : i < j => executed'[i][2] < executed'[j][2]
    <3> SUFFICES ASSUME NEW i \in 1 .. n + 1, NEW j \in 1 .. n + 1, i < j
                 PROVE  executed'[i][2] < executed'[j][2]
      BY <2>4
    <3>1. CASE j \in 1 .. n
      BY <1>3, <2>4, <3>1 DEF CommandInv
    <3>2. CASE j = n + 1
      BY <1>3, <2>4, <2>5, <3>2
    <3> QED
      BY <1>3, <3>1, <3>2
  <2>8. Parses(str)' /\ 2 * str'[1] <= Consumed(csocket)' /\ answers' = <<str'[1]>>
    BY <1>1, <1>2, <2>3 DEF Parses
  <2> QED
    BY <1>1, <2>3, <2>6, <2>7, <2>8 DEF CommandInv
<1>6. CASE Listeners[called'] # Module[k]
  <2>1. UNCHANGED <<executed, answers>> /\ (Called' <=> Called)
    BY <1>4, <1>6 DEF Raise
  <2>2. /\ Parses(str)' /\ 2 * str'[1] <= Consumed(csocket)'
        /\ ~Called' => Newer(str[1])'
    BY <1>1, <1>2, <2>1 DEF Parses, Newer
  <2>3. answers' = IF Called' THEN <<str'[1]>> ELSE <<>>
    BY <1>1, <1>2, <2>1
  <2> QED
    BY <1>1, <2>1, <2>2, <2>3 DEF CommandInv
<1> QED
  BY <1>5, <1>6

(* Every step keeps the commands in order. *)
LEMMA CommandStep ==
  ASSUME FieldTypes, KernelTypes, CommandTypes, StreamTypes, StreamInv, OneClientInv,
         CommandInv, AnswerInv, [Next]_serverVars
  PROVE  CommandInv'
<1> USE DEF CommandInv, Newer, Called, Parses
<1>1. csocket = NoClient => executed = <<>> /\ thread \notin Serving
  BY TCPServerAssumption DEF OneClientInv
<1>2. csocket \in Clients \cup {NoClient}
  BY DEF FieldTypes
<1>3. ASSUME ~Receive, csocket' = csocket, csocket \in Clients
      PROVE  Consumed(csocket)' = Consumed(csocket)
  BY <1>3, StreamStep
<1>4. ASSUME ~Receive, UNCHANGED <<thread, back, work, csocket>>
      PROVE  CommandInv'
  <2>1. CASE csocket \in Clients
    BY <1>3, <1>4, <2>1 DEF work
  <2>2. CASE csocket = NoClient
    BY <1>1, <1>4, <2>2 DEF work, Serving
  <2> QED
    BY <1>2, <2>1, <2>2
<1>5. ASSUME ~Receive, UNCHANGED <<csocket, executed>>,
             thread' \notin {"wait", "parse", "raise", "close", "clear"}
      PROVE  CommandInv'
  <2>1. CASE csocket \in Clients
    BY <1>3, <1>5, <2>1
  <2>2. CASE csocket = NoClient
    BY <1>1, <1>5, <2>2
  <2> QED
    BY <1>2, <2>1, <2>2
<1>6. ASSUME ~Receive, UNCHANGED <<csocket, executed>>, str' = <<>>, thread' # "raise",
             thread' \in {"close", "clear"} => back' \in {"parse", "send"}
      PROVE  CommandInv'
  <2>1. CASE csocket \in Clients
    BY <1>3, <1>6, <2>1
  <2>2. CASE csocket = NoClient
    BY <1>1, <1>6, <2>2
  <2> QED
    BY <1>2, <2>1, <2>2
<1>7. thread # "wait" => ~Receive
  BY DEF Receive, Goto
<1>8. CASE UNCHANGED serverVars \/ Others
  <2>1. UNCHANGED <<thread, back, work, csocket>>
    BY <1>8, OthersKeep DEF serverVars, threadVars, fields, work
  <2>2. ~Receive
    BY <2>1, <1>7 DEF Receive, Goto
  <2> QED
    BY <1>4, <2>1, <2>2
<1>9. CASE Start \/ AcceptFails \/ Register \/ Loop \/ RaiseEnd \/ SendEnd
  BY <1>5, <1>7, <1>9
  DEF Start, AcceptFails, Register, Loop, RaiseEnd, SendEnd, Goto, fields
<1>10. CASE Cancelled
  <2>1. thread' = "cancelled" /\ UNCHANGED <<csocket, executed>>
    BY <1>10 DEF Cancelled, fields
  <2> QED
    BY <1>5, <2>1 DEF Receive, Goto
<1>11. CASE ReceiveEnd
  <2>1. /\ thread = "wait" /\ thread' = "close" /\ str' = str /\ back' = "parse"
        /\ UNCHANGED <<csocket, executed>>
    BY <1>11 DEF ReceiveEnd, Goto, fields
  <2> QED
    BY <1>6, <2>1 DEF Receive, Goto
<1>12. CASE CloseSocket
  <2>1. /\ thread = "close" /\ thread' = "clear"
        /\ UNCHANGED <<str, back, csocket, executed>>
    BY <1>12 DEF CloseSocket, Goto, fields
  <2> QED
    BY <1>3, <1>1, <1>2, <1>7, <2>1 DEF Serving
<1>13. CASE ClearFlag
  <2>1. thread = "clear" /\ thread' = back /\ UNCHANGED <<str, back, csocket, executed>>
    BY <1>13 DEF ClearFlag, Goto
  <2>2. back = "send" \/ (back = "parse" /\ str = <<>>)
    BY <2>1
  <2> QED
    BY <1>5, <1>6, <1>7, <2>1, <2>2
<1>14. CASE Accept
  BY <1>14, <1>1, TCPServerAssumption DEF Accept, Goto, OneClientInv
<1>15. CASE ReceiveCall
  <2>1. /\ thread = "recv" /\ thread' \in {"wait", "parse"} /\ str' = <<>>
        /\ UNCHANGED <<csocket, executed>>
    BY <1>15 DEF ReceiveCall, Goto, fields
  <2> QED
    BY <1>6, <1>7, <2>1
<1>16. CASE Parse
  <2>1. /\ thread = "parse" /\ csocket \in Clients /\ called' = 0
        /\ UNCHANGED <<str, csocket, executed>>
    BY <1>16 DEF Parse, Goto, OneClientInv, Serving, fields
  <2>2. CASE Parses(str)
    <3>1. thread' = "raise" /\ answers' = <<>> /\ ~Called'
      BY <1>16, <2>1, <2>2 DEF Parse, Goto
    <3> QED
      BY <1>3, <1>7, <2>1, <2>2, <3>1
  <2>3. CASE ~Parses(str)
    BY <1>5, <1>7, <1>16, <2>1, <2>3 DEF Parse, Goto
  <2> QED
    BY <2>2, <2>3
<1>17. CASE Raise
  <2>1. csocket \in Clients /\ thread = "raise" /\ csocket' = csocket
    BY <1>17 DEF Raise, OneClientInv, Serving, fields
  <2> QED
    BY <1>3, <1>7, <1>17, <2>1, RaiseInOrder
<1>18. CASE Send
  BY <1>5, <1>7, <1>18 DEF Send, threadVars, fields
<1>19. CASE SendFails
  <2>1. /\ thread = "send" /\ thread' = "close" /\ back' = "send"
        /\ UNCHANGED <<str, csocket, executed>> /\ csocket \in Clients
    BY <1>19 DEF SendFails, Goto, OneClientInv, Serving, fields
  <2> QED
    BY <1>3, <1>7, <2>1
<1>20. CASE Receive
  BY <1>20, ReceiveInOrder
<1> QED
  BY <1>8, <1>9, <1>10, <1>11, <1>12, <1>13, <1>14, <1>15, <1>16, <1>17, <1>18,
     <1>19,
     <1>20, NextWork DEF Onward

-----------------------------------------------------------------------------
(* What a client is answered. *)

(* Every step keeps the types of commands and answers. *)
LEMMA CommandTypesStep ==
  ASSUME CommandTypes, StreamTypes, OneClientInv, CommandInv, [Next]_serverVars
  PROVE  CommandTypes'
<1> USE DEF CommandTypes
<1>0. MaxCommands \in Nat \ {0} /\ 0 \in Tokens /\ 1 .. MaxCommands \subseteq Tokens
  BY TCPServerAssumption DEF Tokens
<1>1. CASE UNCHANGED <<str, answers, got, executed>>
  BY <1>1
<1>2. CASE UNCHANGED serverVars \/ Others \/ Onward \/ Start \/ Accept
  BY <1>1, <1>2, OthersKeep, OnwardKeeps
  DEF serverVars, threadVars, clientVars, work, Start, Accept
<1>3. CASE ReceiveCall
  BY <1>3 DEF ReceiveCall, clientVars
<1>4. CASE Receive
  <2>1. csocket \in Clients
    BY <1>4 DEF Receive, Goto, OneClientInv, Serving
  <2>2. rcv[csocket] \in Seq(Tokens) /\ rcv[csocket] # <<>>
    BY <1>4, <2>1 DEF Receive, StreamTypes
  <2>3. Front(rcv[csocket]) \in Seq(Tokens) /\ <<>> \in Seq(Tokens)
    BY <2>2 DEF Front
  <2> QED
    BY <1>4, <2>3 DEF Receive
<1>5. CASE Parse
  <2>1. <<>> \in Seq(Tokens) /\ <<ERR>> \in Seq(Tokens)
    BY <1>0 DEF ERR
  <2>2. answers' \in {<<>>, <<ERR>>} /\ UNCHANGED <<str, got, executed>>
    BY <1>5 DEF Parse, clientVars
  <2> QED
    BY <2>1, <2>2
<1>6. CASE Raise
  <2>1. csocket \in Clients /\ Parses(str)
    BY <1>6 DEF Raise, OneClientInv, CommandInv, Serving
  <2>2. str[1] \in 1 .. MaxCommands
    BY <1>0, <2>1 DEF Parses, NL, Tokens
  <2>3. <<csocket, str[1]>> \in Clients \X (1 .. MaxCommands) /\ str[1] \in Tokens
    BY <1>0, <2>1, <2>2
  <2>4. /\ Append(executed, <<csocket, str[1]>>) \in Seq(Clients \X (1 .. MaxCommands))
        /\ Append(answers, str[1]) \in Seq(Tokens)
    BY <2>3, AppendProperties
  <2> QED
    BY <1>6, <2>4 DEF Raise, clientVars
<1>7. CASE Send
  <2>1. Head(answers) \in Tokens /\ Tail(answers) \in Seq(Tokens)
    BY <1>7 DEF Send
  <2>2. answers' = Tail(answers) /\ UNCHANGED <<str, executed>>
    BY <1>7 DEF Send
  <2>3. got' = got \/ got' = [got EXCEPT ![csocket] = Append(@, Head(answers))]
    BY <1>7 DEF Send
  <2>a. csocket \in Clients
    BY <1>7 DEF Send, OneClientInv, Serving
  <2>b. Append(got[csocket], Head(answers)) \in Seq(Tokens)
    BY <2>1, <2>a, AppendProperties
  <2>4. got' \in [Clients -> Seq(Tokens)]
    BY <2>3, <2>a, <2>b
  <2> QED
    BY <2>1, <2>2, <2>4
<1>8. CASE SendFails
  BY <1>8 DEF SendFails, clientVars
<1> QED
  BY <1>2, <1>3, <1>4, <1>5, <1>6, <1>7, <1>8, NextWork

(* Nothing was answered. *)
LEMMA AnswerInit == Init => AnswerInv
BY DEF Init, AnswerInv, Reachable, AnswersInOrder

(* A connection that is lost stays lost. *)
LEMMA ReachableFalls ==
  ASSUME OneClientInv, FieldTypes, [Next]_serverVars, ~Register
  PROVE  Reachable' => Reachable
<1>1. CASE UNCHANGED serverVars
  BY <1>1 DEF serverVars, fields, kernel, clientVars, Reachable
<1>5. CASE Others
  <2>1. ASSUME \/ AddListener \/ StartFails \/ KillClose \/ KillClear \/ KillListen
               \/ KillCancel \/ KillJoin
        PROVE  Reachable' => Reachable
    BY <2>1
    DEF AddListener, StartFails, KillClose, KillClear, KillListen, KillCancel,
                KillJoin, Close, fields, kernel, clientVars, Reachable
  <2>2. ASSUME NEW c \in Clients, Connect(c) \/ ClientSend(c) \/ Deliver(c) \/ Leave(c)
        PROVE  Reachable' => Reachable
    <3>1. UNCHANGED <<iscsock, csocket, open>> /\ left \subseteq left'
      BY <2>2 DEF Connect, ClientSend, Deliver, Leave, fields, kernel, clientVars
    <3> QED
      BY <3>1 DEF Reachable
  <2> QED
    BY <1>5, <2>1, <2>2 DEF Others
<1>2. CASE Accept
  <2>1. ~iscsock'
    BY <1>2 DEF Accept, Goto, OneClientInv
  <2> QED
    BY <2>1 DEF Reachable
<1>3. CASE Start \/ ReceiveCall \/ Receive \/ Parse \/ Raise \/ Send \/ SendFails
  BY <1>3 DEF Start, ReceiveCall, Receive, Parse, Raise, Send, SendFails, Reachable,
              fields, kernel, clientVars
<1>4. CASE Onward
  BY <1>4
  DEF Onward, AcceptFails, Loop, ReceiveEnd, CloseSocket, ClearFlag, RaiseEnd,
              SendEnd, Cancelled, Reachable, Close, fields, kernel, clientVars
<1> QED
  BY <1>1, <1>2, <1>3, <1>4, <1>5, NextWork

(* One more answer. *)
LEMMA OneMoreAnswer ==
  ASSUME CommandTypes, NEW c \in Clients, NEW a \in Tokens, NEW n, n = Len(got[c]),
         got' = [got EXCEPT ![c] = Append(@, a)]
  PROVE  /\ got'[c] = Append(got[c], a) /\ got[c] \in Seq(Tokens)
         /\ \A i \in 1 .. n : Answered(c, i)' = Answered(c, i)
         /\ Len(got'[c]) = n + 1 /\ n \in Nat
         /\ Cardinality(Answered(c, n)) \in Nat
         /\ Cardinality(Answered(c, n + 1)')
              = Cardinality(Answered(c, n)) + IF a # ERR THEN 1 ELSE 0
<1> DEFINE g == got[c]
           old == {j \in 1 .. n : g[j] # ERR}
           new == {j \in 1 .. n + 1 : got'[c][j] # ERR}
<1>1. g \in Seq(Tokens) /\ n \in Nat /\ got'[c] = Append(g, a)
  BY DEF CommandTypes
<1>2. \A j \in 1 .. n : got'[c][j] = g[j]
  BY <1>1
<1>3. got'[c][n + 1] = a /\ Len(got'[c]) = n + 1
  BY <1>1
<1>4. \A i \in 1 .. n : Answered(c, i)' = Answered(c, i)
  <2> TAKE i \in 1 .. n
  <2>1. \A j \in 1 .. i : j \in 1 .. n
    BY <1>1
  <2> QED
    BY <1>2, <2>1 DEF Answered
<1>5. IsFiniteSet(old) /\ n + 1 \notin old
  <2>1. IsFiniteSet(1 .. n)
    BY <1>1, FS_Interval
  <2>2. old \subseteq 1 .. n /\ n + 1 \notin 1 .. n
    BY <1>1
  <2> QED
    BY <2>1, <2>2, FS_Subset
<1>6. new = IF a # ERR THEN old \cup {n + 1} ELSE old
  <2>1. \A j : j \in 1 .. n + 1 <=> j \in 1 .. n \/ j = n + 1
    BY <1>1
  <2> QED
    BY <1>2, <1>3, <2>1
<1>7. Cardinality(old) \in Nat /\ Cardinality(old \cup {n + 1}) = Cardinality(old) + 1
  BY <1>5, FS_CardinalityType, FS_AddElement
<1>8. old = Answered(c, n) /\ new = Answered(c, n + 1)'
  BY DEF Answered
<1> HIDE DEF old, new
<1>9. Cardinality(new) = Cardinality(old) + IF a # ERR THEN 1 ELSE 0
  <2>1. CASE a # ERR
    BY <1>6, <1>7, <2>1
  <2>2. CASE a = ERR
    BY <1>6, <1>7, <2>2
  <2> QED
    BY <2>1, <2>2
<1> QED
  BY <1>1, <1>3, <1>4, <1>7, <1>8, <1>9

(* An answer that is sent is that of the last command carried out. *)
LEMMA SendInOrder ==
  ASSUME FieldTypes, CommandTypes, OneClientInv, AnswerInv, Send
  PROVE  AnswerInv'
<1>1. /\ thread = "send" /\ thread' = "send" /\ csocket \in Clients /\ answers # <<>>
      /\ UNCHANGED <<csocket, executed, iscsock, open, left>>
  BY DEF Send, OneClientInv, Serving, fields, threadVars, kernel
<1>2. /\ Len(answers) = 1 /\ answers[1] \in Tokens /\ answers' = <<>>
      /\ Head(answers) = answers[1]
      /\ answers[1] # ERR =>
           executed # <<>> /\ executed[Len(executed)] = <<csocket, answers[1]>>
  <2>1. Len(answers) = 1 /\ answers \in Seq(Tokens) /\ answers' = Tail(answers)
    BY <1>1 DEF AnswerInv, CommandTypes, Send
  <2>2. answers[1] \in Tokens /\ Head(answers) = answers[1] /\ answers # <<>>
    BY <1>1, <2>1, HeadTailProperties
  <2>3. Tail(answers) \in Seq(Tokens) /\ Len(Tail(answers)) = 0
    BY <1>1, <2>1, HeadTailProperties
  <2>4. Tail(answers) = <<>>
    BY <2>3, EmptySeq
  <2> QED
    BY <1>1, <2>1, <2>2, <2>4 DEF AnswerInv
<1>3. Pending = (IF answers[1] # ERR THEN 1 ELSE 0) /\ Pending' = 0
  BY <1>1, <1>2 DEF Pending
<1>4. CASE ~Reachable
  <2>1. got' = got /\ ~Reachable'
    BY <1>1, <1>4 DEF Send, Reachable
  <2>2. AnswersInOrder'
    BY <1>1, <2>1 DEF AnswerInv, AnswersInOrder, Answered
  <2> QED
    BY <1>1, <1>2, <2>1, <2>2 DEF AnswerInv, Answering
<1>5. CASE Reachable
  <2>0. PICK c \in Clients, a \in Tokens, n \in Nat :
          c = csocket /\ a = answers[1] /\ n = Len(got[csocket])
    BY <1>1, <1>2 DEF CommandTypes
  <2>1. got' = [got EXCEPT ![c] = Append(@, a)] /\ c = csocket'
    BY <1>1, <1>2, <1>5, <2>0 DEF Send, Reachable
  <2>2. /\ got'[c] = Append(got[c], a) /\ got[c] \in Seq(Tokens)
        /\ \A i \in 1 .. n : Answered(c, i)' = Answered(c, i)
        /\ Len(got'[c]) = n + 1
        /\ Cardinality(Answered(c, n)) \in Nat
        /\ Cardinality(Answered(c, n + 1)')
             = Cardinality(Answered(c, n)) + IF a # ERR THEN 1 ELSE 0
    BY <2>0, <2>1, OneMoreAnswer
  <2>3. Cardinality(Answered(c, n)) + Pending = Len(executed)
    BY <1>5, <2>0 DEF AnswerInv
  <2>4. Cardinality(Answered(c, n + 1)') = Len(executed)
    BY <1>2, <1>3, <2>0, <2>2, <2>3
  <2>5. ASSUME NEW d \in Clients, NEW i \in DOMAIN got'[d], got'[d][i] # ERR
        PROVE  /\ Cardinality(Answered(d, i)') \in DOMAIN executed
               /\ executed[Cardinality(Answered(d, i)')] = <<d, got'[d][i]>>
    <3>1. CASE d = c /\ i = n + 1
      <4>1. got'[d][i] = a /\ a # ERR
        BY <2>0, <2>2, <2>5, <3>1
      <4>2. Len(executed) \in DOMAIN executed /\ executed[Len(executed)] = <<c, a>>
        BY <1>2, <2>0, <4>1 DEF CommandTypes
      <4> QED
        BY <2>4, <3>1, <4>1, <4>2
    <3>2. CASE d = c /\ i # n + 1
      <4>1. i \in 1 .. n /\ got'[d][i] = got[d][i] /\ i \in DOMAIN got[d]
        BY <2>0, <2>2, <2>5, <3>2
      <4> QED
        BY <2>2, <2>5, <3>2, <4>1 DEF AnswerInv, AnswersInOrder
    <3>3. CASE d # c
      <4>1. got'[d] = got[d] /\ Answered(d, i)' = Answered(d, i)
        BY <2>1, <3>3 DEF CommandTypes, Answered
      <4> QED
        BY <2>5, <4>1 DEF AnswerInv, AnswersInOrder
    <3> QED
      BY <3>1, <3>2, <3>3
  <2>6. AnswersInOrder'
    BY <1>1, <2>5 DEF AnswersInOrder
  <2>7. Answered(csocket, Len(got[csocket]))' = Answered(c, n + 1)'
    BY <2>1, <2>2 DEF Answered
  <2>8. Cardinality(Answered(csocket, Len(got[csocket])))' + Pending' = Len(executed')
    BY <1>1, <1>3, <2>4, <2>7 DEF CommandTypes
  <2> QED
    BY <1>1, <1>2, <2>6, <2>8 DEF AnswerInv, Answering
<1> QED
  BY <1>4, <1>5

(* Every step keeps the answers in order. *)
LEMMA AnswerStep ==
  ASSUME FieldTypes, CommandTypes, OneClientInv, CommandInv, AnswerInv,
         [Next]_serverVars
  PROVE  AnswerInv'
<1>1. ASSUME UNCHANGED <<answers, executed, got, csocket>>, ~Register,
             thread' = "cancelled" \/ Answering' \/ answers = <<>>
      PROVE  AnswerInv'
  <2>1. AnswersInOrder'
    BY <1>1 DEF AnswerInv, AnswersInOrder, Answered
  <2>2. Reachable' =>
          Cardinality(Answered(csocket, Len(got[csocket])))' + Pending'
            = Len(executed')
    BY <1>1, ReachableFalls DEF AnswerInv, Answered, Pending
  <2> QED
    BY <1>1, <2>1, <2>2 DEF AnswerInv
<1>2. thread \notin {"raise", "send", "close", "clear", "cancelled"} => answers = <<>>
  BY DEF AnswerInv, Answering
<1>3. CASE UNCHANGED serverVars \/ Others
  <2>1. UNCHANGED <<thread, back, work, csocket, got>>
    BY <1>3, OthersKeep DEF serverVars, threadVars, clientVars, fields, work
  <2>2. ~Register
    BY <2>1 DEF Register, Goto
  <2> QED
    BY <1>1, <2>1, <2>2 DEF work, AnswerInv, Answering
<1>4. CASE \/ Start \/ AcceptFails \/ Loop \/ ReceiveCall \/ Receive \/ ReceiveEnd
           \/ SendEnd
  <2>1. UNCHANGED <<answers, executed, got, csocket>> /\ answers = <<>> /\ ~Register
    BY <1>2, <1>4
    DEF Start, AcceptFails, Loop, ReceiveCall, Receive, ReceiveEnd, SendEnd, Goto,
        Register, fields, threadVars, clientVars
  <2> QED
    BY <1>1, <2>1
<1>5. CASE CloseSocket \/ ClearFlag \/ RaiseEnd \/ Cancelled
  <2>1. UNCHANGED <<answers, executed, got, csocket, back>> /\ ~Register
    BY <1>5
    DEF CloseSocket, ClearFlag, RaiseEnd, Cancelled, Goto, Register, fields,
        clientVars
  <2>2. thread' = "cancelled" \/ Answering' \/ answers = <<>>
    BY <1>5, <2>1
    DEF CloseSocket, ClearFlag, RaiseEnd, Cancelled, Goto, AnswerInv, Answering
  <2> QED
    BY <1>1, <2>1, <2>2
<1>6. CASE Register
  <2>1. /\ thread = "accepted" /\ UNCHANGED <<answers, executed, got, csocket>>
        /\ answers = <<>> /\ csocket \in Clients /\ executed = <<>>
        /\ got[csocket] = <<>>
    BY <1>2, <1>6 DEF Register, Goto, OneClientInv, Serving, clientVars
  <2>2. AnswersInOrder'
    BY <2>1 DEF AnswerInv, AnswersInOrder, Answered
  <2>3. Answered(csocket, Len(got[csocket]))' = {}
    BY <2>1 DEF Answered
  <2>4. Cardinality(Answered(csocket, Len(got[csocket])))' + Pending' = Len(executed')
    BY <2>1, <2>3, FS_EmptySet DEF Pending
  <2> QED
    BY <2>1, <2>2, <2>4 DEF AnswerInv
<1>7. CASE Accept
  <2>1. /\ thread = "accept" /\ UNCHANGED <<answers, executed, got, iscsock>>
        /\ answers = <<>> /\ ~iscsock
    BY <1>2, <1>7 DEF Accept, Goto, OneClientInv, clientVars
  <2>2. AnswersInOrder'
    BY <2>1 DEF AnswerInv, AnswersInOrder, Answered
  <2> QED
    BY <2>1, <2>2 DEF AnswerInv, Reachable
<1>8. CASE Parse
  <2>1. /\ thread = "parse" /\ thread' \in {"raise", "send"} /\ answers = <<>>
        /\ answers' \in {<<>>, <<ERR>>} /\ UNCHANGED <<executed, got, csocket>>
        /\ ~Register
    BY <1>2, <1>8 DEF Parse, Goto, Register, fields, clientVars
  <2>2. AnswersInOrder'
    BY <2>1 DEF AnswerInv, AnswersInOrder, Answered
  <2>3. Pending = 0 /\ Pending' = 0 /\ Answering'
    BY <2>1 DEF Pending, Answering
  <2>4. Reachable' =>
          Cardinality(Answered(csocket, Len(got[csocket])))' + Pending'
            = Len(executed')
    BY <2>1, <2>3, ReachableFalls DEF AnswerInv, Answered
  <2>5. answers' # <<>> => Len(answers') = 1 /\ answers'[1] = ERR
    BY <2>1
  <2> QED
    BY <2>2, <2>3, <2>4, <2>5 DEF AnswerInv
<1>9. CASE Raise
  <2>1. /\ thread = "raise" /\ thread' = "raise" /\ UNCHANGED <<got, csocket>>
        /\ ~Register
        /\ called' = called + 1 /\ called \in 0 .. 1
        /\ csocket \in Clients /\ Parses(str)
    BY <1>9
    DEF Raise, Register, Goto, FieldTypes, OneClientInv, CommandInv, Serving, fields,
        clientVars
  <2>2. CASE Listeners[called'] # Module[str[1]]
    BY <1>1, <1>9, <2>1, <2>2 DEF Raise, Answering
  <2>3. CASE Listeners[called'] = Module[str[1]]
    <3>1. PICK k \in Tokens : k = str[1] /\ k # ERR
      BY <2>1 DEF Parses, CommandTypes, NL, ERR
    <3>2. answers = <<>>
      <4>1. \A i \in 1 .. called : Listeners[i] # Listeners[called']
        BY <2>1 DEF Listeners
      <4> QED
        BY <2>1, <2>3, <4>1 DEF CommandInv, Called
    <3>3. executed' = Append(executed, <<csocket, k>>) /\ answers' = <<k>>
      BY <1>9, <2>3, <3>1, <3>2 DEF Raise
    <3>4. /\ Len(executed') = Len(executed) + 1 /\ Len(executed) \in Nat
          /\ executed' # <<>>
          /\ executed'[Len(executed')] = <<csocket, k>>
          /\ \A i \in DOMAIN executed :
                 i \in DOMAIN executed' /\ executed'[i] = executed[i]
      <4>1. executed \in Seq(Clients \X (1 .. MaxCommands)) /\ Len(executed) \in Nat
        BY DEF CommandTypes
      <4>2. /\ Len(executed') = Len(executed) + 1
            /\ executed'[Len(executed) + 1] = <<csocket, k>>
        BY <3>3, <4>1
      <4>3. \A i \in DOMAIN executed :
                i \in DOMAIN executed' /\ executed'[i] = executed[i]
        BY <3>3, <4>1
      <4>4. executed' # <<>>
        BY <4>1, <4>2
      <4> QED
        BY <4>1, <4>2, <4>3, <4>4
    <3>5. AnswersInOrder'
      BY <2>1, <3>4 DEF AnswerInv, AnswersInOrder, Answered
    <3>6. Pending = 0 /\ Pending' = 1 /\ Answering'
      BY <2>1, <3>1, <3>2, <3>3 DEF Pending, Answering
    <3>7. Reachable' =>
            Cardinality(Answered(csocket, Len(got[csocket]))) + 0 = Len(executed)
      BY <2>1, <3>6, ReachableFalls DEF AnswerInv
    <3>8. Reachable' =>
            Cardinality(Answered(csocket, Len(got[csocket])))' + Pending'
              = Len(executed')
      <4>1. Answered(csocket, Len(got[csocket]))' = Answered(csocket, Len(got[csocket]))
        BY <2>1 DEF Answered
      <4>2. SUFFICES ASSUME Reachable' PROVE
              Cardinality(Answered(csocket, Len(got[csocket])))' + Pending'
                = Len(executed')
        OBVIOUS
      <4>3. IsFiniteSet(Answered(csocket, Len(got[csocket])))
        <5>1. IsFiniteSet(1 .. Len(got[csocket]))
          BY <2>1, FS_Interval DEF CommandTypes
        <5> QED
          BY <5>1, FS_Subset DEF Answered
      <4>4. Cardinality(Answered(csocket, Len(got[csocket]))) \in Nat
        BY <4>3, FS_CardinalityType
      <4> QED
        BY <3>4, <3>6, <3>7, <4>1, <4>2, <4>4
    <3> QED
      BY <2>1, <3>3, <3>4, <3>5, <3>6, <3>8 DEF AnswerInv
  <2> QED
    BY <2>2, <2>3
<1>10. CASE SendFails
  <2>1. /\ thread' = "close" /\ back' = "send" /\ answers' = Tail(answers)
        /\ UNCHANGED <<executed, got, csocket>> /\ Len(answers) = 1 /\ ~Reachable'
        /\ ~Register
    BY <1>10
    DEF SendFails, Goto, AnswerInv, Reachable, Register, fields, kernel, clientVars
  <2>2. answers' = <<>>
    BY <2>1, SMTT(30) DEF CommandTypes
  <2>3. AnswersInOrder'
    BY <2>1 DEF AnswerInv, AnswersInOrder, Answered
  <2> QED
    BY <2>1, <2>2, <2>3 DEF AnswerInv
<1>11. CASE Send
  BY <1>11, SendInOrder
<1> QED
  BY <1>3, <1>4, <1>5, <1>6, <1>7, <1>8, <1>9, <1>10, <1>11, NextWork DEF Onward

-----------------------------------------------------------------------------
(* The theorems. *)

(* The inductive invariant. *)
Parts ==
  /\ FieldTypes /\ KernelTypes /\ CommandTypes /\ StreamTypes
  /\ StreamInv /\ OneClientInv /\ CloseInv /\ CommandInv /\ AnswerInv

(* The invariant of the server, its clients and the network behind all below. *)
THEOREM ServerInvariant == Spec => []Parts
<1>1. Init => Parts
  BY TypesInit, StreamInit, OneClientInit, CommandInit, AnswerInit DEF Parts
<1>2. Parts /\ [Next]_serverVars => Parts'
  <2> SUFFICES ASSUME Parts, [Next]_serverVars PROVE Parts'
    OBVIOUS
  <2> USE DEF Parts
  <2>1. FieldTypes' /\ KernelTypes' /\ CommandTypes'
    BY FieldsStep, KernelStep, CommandTypesStep
  <2>2. StreamTypes' /\ StreamInv'
    BY StreamStep
  <2>3. OneClientInv' /\ CloseInv'
    BY OneClientStep
  <2>4. CommandInv' /\ AnswerInv'
    BY CommandStep, AnswerStep
  <2> QED
    BY <2>1, <2>2, <2>3, <2>4
<1> QED
  BY <1>1, <1>2, PTL DEF Spec

(* The variables of the server keep their types. *)
THEOREM ServerTypes == Spec => []TypeOK
<1>1. Parts => TypeOK
  BY TypeParts DEF Parts
<1> QED
  BY <1>1, ServerInvariant, PTL

(* The server never serves another client than the first it accepted: its
   thread leaves run() with that connection, though Daemon.cpp means to keep
   handling connections. *)
THEOREM OneClientServed ==
  Spec => [](\A c \in Clients : c # csocket => got[c] = <<>> /\ c \notin open)
<1>1. Parts => \A c \in Clients : c # csocket => got[c] = <<>> /\ c \notin open
  BY DEF Parts, OneClientInv
<1> QED
  BY <1>1, ServerInvariant, PTL

(* Where main never kills the server a connection is closed once, however the
   client leaves and sends fail: close_connection() tests the flag it clears. *)
THEOREM ConnectionClosedOnce == Spec => []ClosedOnce
<1>1. Parts => ClosedOnce
  BY DEF Parts, CloseInv, ClosedOnce, ClosedOnceAlways
<1> QED
  BY <1>1, ServerInvariant, PTL

(* Commands are carried out at most once, in the order the client sent them,
   and answered in the order they were carried out, whatever borders TCP gives
   to the segments, whenever the client leaves, a send fails or main kills the
   server. *)
THEOREM CommandsInOrder == Spec => []InOrder
<1>1. Parts => ExecutedInOrder
  <2> SUFFICES ASSUME Parts PROVE ExecutedInOrder
    OBVIOUS
  <2>1. ASSUME NEW i \in DOMAIN executed
        PROVE  executed[i][2] <= sent[executed[i][1]]
    <3>1. executed[i][1] = csocket /\ 2 * executed[i][2] <= Consumed(csocket)
      BY <2>1 DEF Parts, CommandInv
    <3>2. csocket \in Clients /\ executed[i][2] \in Nat
      BY <2>1, <3>1, TCPServerAssumption DEF Parts, CommandTypes
    <3>3. /\ sent[csocket] \in Nat /\ Len(rcv[csocket]) \in Nat
          /\ Len(net[csocket]) \in Nat
      BY <3>2, TCPServerAssumption DEF Parts, StreamTypes
    <3> QED
      BY <3>1, <3>2, <3>3, SMTT(30) DEF Consumed
  <2> QED
    BY <2>1 DEF Parts, CommandInv, ExecutedInOrder
<1>2. Parts => InOrder
  BY <1>1 DEF Parts, AnswerInv, InOrder
<1> QED
  BY <1>2, ServerInvariant, PTL

=============================================================================
