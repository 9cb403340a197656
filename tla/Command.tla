------------------------------ MODULE Command ------------------------------
(***************************************************************************)
(* Command: what a line received from a client is parsed to.  A line is a  *)
(* sequence of words and of the four separators ":", ".", "=(" and ")";    *)
(* which letters make a word does not matter, only whether it is one of    *)
(* the names the program compares it with.                                 *)
(*                                                                         *)
(* Parse() puts a 0 where each separator first occurs and takes the field  *)
(* behind it, up to the next 0: it never asks in which order they come.    *)
(***************************************************************************)
EXTENDS Integers, Sequences, SequencesExt

Separators == {":", ".", "=(", ")"}

(* A field that was never set, a NULL pointer, and one that holds words. *)
NULL == [set |-> FALSE, words |-> <<>>]
Field(words) == [set |-> TRUE, words |-> words]
Is(f, word) == f = Field(<<word>>)

-----------------------------------------------------------------------------
(* setModule, setComponent, setProperty and setValue: C is the Command, each
   returns it as the setter leaves it. *)

Empty == [Module |-> NULL, Component |-> NULL, Property |-> NULL,
          Value |-> NULL, Valid |-> FALSE, errors |-> <<>>]

Error(C, e) == [C EXCEPT !.errors = Append(@, e)]

setModule(C, f) ==
  IF \E m \in {"gimble", "accelerator", "deerTracker"} : Is(f, m)
  THEN [C EXCEPT !.Module = f]
  ELSE Error(C, "BADMOD")

ComponentsOf(module) ==
  IF Is(module, "gimble") THEN {"pan", "tilt"}
  ELSE IF Is(module, "accelerator") THEN {"fireCtl"}
  ELSE {}

(* Mutant: an unknown component is kept with its error. *)
setComponentKept(C, f) ==
  IF C.Module = NULL THEN C
  ELSE IF \E c \in ComponentsOf(C.Module) : Is(f, c)
  THEN [C EXCEPT !.Component = f]
  ELSE [Error(C, "BADCOMP") EXCEPT !.Component = f]

setComponent(C, f) ==
  IF C.Module = NULL THEN C
  ELSE IF \E c \in ComponentsOf(C.Module) : Is(f, c)
  THEN [C EXCEPT !.Component = f]
  ELSE Error(C, "BADCOMP")

(* Properties that make the command valid without regard to the value, and
   those that wait for setValue. *)
ReadyProperties(module) ==
  IF Is(module, "gimble") THEN {"isAttached"}
  ELSE {"isAttached", "fireReady", "fire", "waitFire"}

ValueProperties(module) ==
  IF Is(module, "gimble") THEN {"setDeg", "stepDeg", "getDeg"} ELSE {}

setProperty(C, f) ==
  IF NULL \in {C.Module, C.Component} THEN C
  ELSE IF \E p \in ReadyProperties(C.Module) : Is(f, p)
  THEN [C EXCEPT !.Property = f, !.Valid = TRUE]
  ELSE IF \E p \in ValueProperties(C.Module) : Is(f, p)
  THEN [C EXCEPT !.Property = f]
  ELSE Error(C, "BADPTY")

setValue(C, f) ==
  IF NULL \in {C.Module, C.Component, C.Property} THEN C
  ELSE IF Is(C.Module, "gimble") /\ Is(C.Property, "getDeg")
  THEN [C EXCEPT !.Valid = TRUE]
  ELSE IF \E p \in {"setDeg", "stepDeg"} :
            Is(C.Module, "gimble") /\ Is(C.Property, p)
  THEN [C EXCEPT !.Value = f, !.Valid = TRUE]
  ELSE C

(* Parse(module, component, property, value) *)
ParseFields(m, c, p, v) ==
  setValue(setProperty(setComponent(setModule(Empty, m), c), p), v)

-----------------------------------------------------------------------------
(* Parse(str) *)

First(str, sep) == SelectInSeq(str, LAMBDA w : w = sep)

(* The words from position i to the next position that was made 0. *)
FieldFrom(str, i, zeros) ==
  LET ends == {z \in zeros : z >= i} \cup {Len(str) + 1}
      end == CHOOSE e \in ends : \A f \in ends : e <= f
  IN  Field(SubSeq(str, i, end - 1))

Parse(str) ==
  LET at == [sep \in Separators |-> First(str, sep)]
      zeros == {at[sep] : sep \in Separators}
      After(sep) == FieldFrom(str, at[sep] + 1, zeros)
  IN  IF 0 \in zeros
      THEN Empty
      ELSE ParseFields(FieldFrom(str, 1, zeros), After(":"), After("."),
                       After("=("))

(* What the server thread does with the result: the replies to a command that
   is not valid. *)
ErrorReplies(C) == IF C.errors # <<>> THEN C.errors ELSE <<"INVALIDCMD">>

-----------------------------------------------------------------------------

(* Protocol.txt: the commands of each module and component. *)
Documented ==
  ({"gimble"} \X {"pan", "tilt"} \X {"isAttached", "setDeg", "stepDeg", "getDeg"})
  \cup
  ({"accelerator"} \X {"fireCtl"}
     \X {"isAttached", "fireReady", "fire", "waitFire"})

(* Protocol.txt, base format: Module:component.command=(arg). *)
Line(m, c, p, arg) == <<m, ":", c, ".", p, "=(">> \o arg \o <<")">>

(* A command that is valid names one of the documented operations, however the
   words and separators of the line were thrown together: nothing else ever
   reaches a listener. *)
ValidIsDocumented(str) ==
  Parse(str).Valid =>
    \E d \in Documented :
      /\ Is(Parse(str).Module, d[1])
      /\ Is(Parse(str).Component, d[2])
      /\ Is(Parse(str).Property, d[3])

(* processCmd gives the value of setDeg and stepDeg to strtod unchecked: a
   valid one has a value. *)
ValueIsThere(str) ==
  LET C == Parse(str)
  IN  C.Valid /\ (\E p \in {"setDeg", "stepDeg"} : Is(C.Property, p))
        => C.Value # NULL

(* One line, one reply: a line that is not valid has at most one error, so the
   server sends exactly one message for it. *)
OneErrorReply(str) ==
  LET C == Parse(str)
  IN  IF C.Valid THEN C.errors = <<>> ELSE Len(ErrorReplies(C)) = 1

(* Every line of the documented form is accepted with the documented fields. *)
DocumentedIsValid(arg) ==
  \A d \in Documented :
    LET C == Parse(Line(d[1], d[2], d[3], arg))
    IN  /\ C.Valid
        /\ Is(C.Module, d[1]) /\ Is(C.Component, d[2]) /\ Is(C.Property, d[3])
        /\ C.Property \in {Field(<<"setDeg">>), Field(<<"stepDeg">>)}
             => C.Value = Field(arg)

(* Protocol.txt, base format: only lines that begin like that are commands. *)
InBaseFormat(str) ==
  Parse(str).Valid =>
    \E d \in Documented :
      IsPrefix(<<d[1], ":", d[2], ".", d[3], "=(">>, str)

(* The SAMPLE lines of Protocol.txt. *)
Samples ==
  {Line("gimble", "pan", "isAttached", <<>>),
   Line("gimble", "pan", "setDeg", <<"45">>),
   Line("gimble", "pan", "stepDeg", <<"1">>),
   Line("gimble", "pan", "getDeg", <<>>),
   Line("gimble", "tilt", "isAttached", <<>>),
   <<"gimble", ":", "tilt", ".", "setDeg", "(", "45", ")">>,
   <<"gimble", ":", "tilt", ".", "stepDeg", "(", "1", ")">>,
   Line("gimble", "tilt", "getDeg", <<>>),
   Line("accelerator", "fireCtl", "isAttached", <<>>),
   Line("accelerator", "fireCtl", "fireReady", <<>>),
   Line("accelerator", "fireCtl", "fire", <<>>),
   Line("accelerator", "waitFire", "fire", <<"TRUE">>)}

(* Protocol.txt: each sample is a command. *)
SampleIsValid(str) == str \in Samples => Parse(str).Valid

=============================================================================
