------------------------------ MODULE Dispatch ------------------------------
(***************************************************************************)
(* raiseEvent() and the two listeners, BBBGimble::processCmd and           *)
(* toyAccel::processCmd: every listener is called with every valid command *)
(* and returns the reply to send, "" for none.  A listener is the set of   *)
(* replies it may give; what the command does to the hardware is in Gimble *)
(* and Accelerator.                                                        *)
(*                                                                         *)
(* The programs give up at startup when a device is not attached, so the   *)
(* listeners' devices are.                                                 *)
(***************************************************************************)
EXTENDS Command

Silent == {""}

(* setPan and the others refuse a degree out of range; strtod throws nothing,
   so no catch clause is ever entered. *)
gimbleCmd(C) ==
  IF ~Is(C.Module, "gimble") \/ ~\E a \in {"pan", "tilt"} : Is(C.Component, a)
  THEN Silent
  ELSE IF Is(C.Property, "isAttached") THEN {"OK"}
  ELSE IF \E p \in {"setDeg", "stepDeg"} : Is(C.Property, p) THEN {"OK", "OOR"}
  ELSE IF Is(C.Property, "getDeg") THEN {"Pos="}
  ELSE {"ERROR"}

(* Mutant: the module is not looked at. *)
accelCmdAny(C) ==
  IF ~Is(C.Component, "fireCtl") THEN {"ERROR"}
  ELSE IF Is(C.Property, "fire") THEN {"DONE"}
  ELSE IF Is(C.Property, "isAttached") THEN {"READY"}
  ELSE {"ERROR"}

accelCmd(C) ==
  IF ~Is(C.Module, "accelerator") THEN Silent
  ELSE IF ~Is(C.Component, "fireCtl") THEN {"ERROR"}
  ELSE IF Is(C.Property, "fire") THEN {"DONE"}
  ELSE IF Is(C.Property, "isAttached") THEN {"READY"}
  ELSE {"ERROR"}

raiseEvent(C) == <<gimbleCmd(C), accelCmd(C)>>

-----------------------------------------------------------------------------

(* What Protocol.txt says a command is answered with. *)
DocumentedReplies(p) ==
  CASE p = "isAttached" -> {"OK", "ERROR"}
    [] p \in {"setDeg", "stepDeg"} -> {"OK", "OOR", "BADARG", "ERROR"}
    [] p = "getDeg" -> {"Pos=", "ERROR"}
    [] p = "fireReady" -> {"READY", "WAIT", "ERROR"}
    [] p = "fire" -> {"DONE", "WAIT", "ERROR"}
    [] OTHER -> {"SET", "RELEASE", "NOCHANGE", "BADARG", "ERROR"}

(* The server sends each reply that is not empty, and the client counts
   replies: what the parser lets through is answered by exactly one listener,
   whatever line it came from, and no listener compares a NULL string. *)
AnsweredByOne(str) ==
  LET C == Parse(str)
      replies == raiseEvent(C)
  IN  C.Valid =>
        /\ NULL \notin {C.Module, C.Component, C.Property}
        /\ \E i \in DOMAIN replies :
             /\ "" \notin replies[i]
             /\ \A j \in DOMAIN replies \ {i} : replies[j] = Silent

(* Protocol.txt lists the replies of each command: no other one is sent. *)
RepliesDocumented(str) ==
  LET C == Parse(str)
      replies == raiseEvent(C)
  IN  C.Valid =>
        \A i \in DOMAIN replies : \A d \in Documented :
          Is(C.Module, d[1]) /\ Is(C.Property, d[3]) =>
            replies[i] \subseteq Silent \cup DocumentedReplies(d[3])

=============================================================================
