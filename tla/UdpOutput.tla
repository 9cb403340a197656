----------------------------- MODULE UdpOutput -----------------------------
(***************************************************************************)
(* output_udp: the worker waits for a message, whose text is the name of a *)
(* file, waits for a picture, saves it under that name, and sends the      *)
(* message back.  output_rtsp is a copy of it that has no options but the   *)
(* port and the input, so that it neither delays nor runs a command.       *)
(***************************************************************************)
EXTENDS Picture

CONSTANTS
  Clients,         \* who sends messages
  FileNames, noName, noClient,
  MaxMessages      \* bound: messages sent

VARIABLES
  port,            \* the option; 0: none
  socket,          \* messages that have arrived, in any order
  sent,            \* messages sent so far
  udpbuffer, addr, \* the message being answered, and who sent it
  since,           \* what had been published when it was received
  files,           \* files[n]: the picture saved under that name
  answers          \* what was sent back

udpVars == <<port, socket, sent, udpbuffer, addr, since, files, answers>>

UdpOutputInit ==
  /\ port \in Nat /\ socket = {} /\ sent = 0 /\ udpbuffer = noName /\ addr = noClient
  /\ since = 0 /\ files = [n \in FileNames |-> NULL] /\ answers = {}

(* Messages may overtake one another; one that is lost is one not sent.     *)
Send(c, n) ==
  /\ sent < MaxMessages /\ sent' = sent + 1
  /\ socket' = socket \cup {[client |-> c, text |-> n, number |-> sent']}
  /\ UNCHANGED <<pictureVars, port, udpbuffer, addr, since, files, answers>>

Network == \E c \in Clients, n \in FileNames \cup {noName} : Send(c, n)

-----------------------------------------------------------------------------
(* worker_thread                                                           *)

Keep == SameProcess /\ SamePicture

(* Without a port the thread returns.                                      *)
Bind ==
  /\ Goto(output, "bind", IF port <= 0 THEN "ended" ELSE "check")
  /\ Keep /\ UNCHANGED <<faults, udpVars>>

UdpCheck ==
  /\ Goto(output, "check", IF stop THEN "cleanup" ELSE "receive")
  /\ Keep /\ UNCHANGED <<faults, udpVars>>

Receive ==
  /\ \E message \in socket :
       /\ socket' = socket \ {message}
       /\ udpbuffer' = message.text /\ addr' = message.client
  /\ Call(output, "receive", "listen") /\ since' = serial
  /\ Keep /\ UNCHANGED <<faults, port, sent, files, answers>>

(* The result is not looked at: the buffer is empty, and sendto, told to    *)
(* send -1 bytes to whoever it was before, sends nothing.                   *)
ReceiveFails ==
  /\ Call(output, "receive", "listen") /\ Fault
  /\ udpbuffer' = noName /\ addr' = noClient /\ since' = serial
  /\ Keep /\ UNCHANGED <<port, socket, sent, files, answers>>

OpenNamed ==
  /\ IF udpbuffer = noName
     THEN Goto(output, "save", "answer") /\ UNCHANGED files
     ELSE Call(output, "save", "write") /\ files' = [files EXCEPT ![udpbuffer] = NULL]
  /\ Keep /\ UNCHANGED <<faults, port, socket, sent, udpbuffer, addr, since, answers>>

WriteNamed ==
  /\ Call(output, "write", "answer")
  /\ files' = [files EXCEPT ![udpbuffer] = frame]
  /\ Keep /\ UNCHANGED <<faults, port, socket, sent, udpbuffer, addr, since, answers>>

SaveNamedFails ==
  /\ (udpbuffer # noName /\ Call(output, "save", "ended")) \/ Call(output, "write", "ended")
  /\ Fault
  /\ Keep /\ UNCHANGED udpVars

(* Sent to nobody when nothing was received.                                *)
Answer ==
  /\ Call(output, "answer", "command")
  /\ answers' = IF addr = noClient THEN answers
                ELSE answers \cup {[client |-> addr, text |-> udpbuffer, since |-> since,
                                    saved |-> IF udpbuffer = noName THEN NULL ELSE files[udpbuffer]]}
  /\ Keep /\ UNCHANGED <<faults, port, socket, sent, udpbuffer, addr, since, files>>

(* system() and usleep(); output_rtsp has neither.                          *)
Command == Goto(output, "command", "check") /\ Keep /\ UNCHANGED <<faults, udpVars>>

UdpCleanup ==
  /\ Goto(output, "cleanup", "ended") /\ frame' = NULL
  /\ SameProcess /\ UNCHANGED <<in, serial, db, faults, udpVars>>

RtspOutputStep ==
  \/ Bind \/ UdpCheck \/ Receive \/ ReceiveFails
  \/ Grab("save") /\ UNCHANGED udpVars
  \/ OpenNamed \/ WriteNamed \/ SaveNamedFails \/ Answer \/ Command \/ UdpCleanup
  \/ Cancelled(output, {"receive", "wait", "woken", "write", "answer"}) /\ UNCHANGED udpVars
  \/ udpbuffer # noName /\ Cancelled(output, {"save"}) /\ UNCHANGED udpVars

UdpOutputStep ==
  \/ RtspOutputStep
  \/ Cancelled(output, {"command"}) /\ UNCHANGED udpVars

=============================================================================
