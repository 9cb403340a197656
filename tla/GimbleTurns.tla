---------------------------- MODULE GimbleTurns ----------------------------
(***************************************************************************)
(* Gimble with the history of whether two calls were ever under way at the *)
(* same time.  BBBGimble has no lock: what it promises beyond the range of *)
(* its servos it promises to threads that take turns.                      *)
(***************************************************************************)
EXTENDS Gimble

VARIABLE overlapped

UnderWay == {t \in Threads : op[t].stage # "idle"}

Alone == \A t, u \in UnderWay : t = u

TurnsInit == Init /\ overlapped = FALSE

TurnsNext == Next /\ overlapped' = (overlapped \/ ~Alone')

TurnsSpec == TurnsInit /\ [][TurnsNext]_<<gimbleVars, overlapped>>

(* Protocol.txt: getDeg answers the current position of the device.  So as *)
(* long as threads took turns the field and the driver agree whenever no   *)
(* call is under way.                                                      *)
FieldIsDevice ==
  ~overlapped /\ AllIdle =>
    \A a \in Axes : duty[a] # NaN /\ device[a] = duty[a] \div Span[a]

(* As long as threads take turns the gimble is the abstract mount: every   *)
(* step of a call is a step of PanTilt or leaves it alone.                 *)
MountSpec == Mount!Init /\ [][~overlapped' => Mount!Next]_(Mount!panTiltVars)
=============================================================================
