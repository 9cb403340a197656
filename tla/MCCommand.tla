----------------------------- MODULE MCCommand -----------------------------
(* Command and Dispatch on every line that has each separator at most once, in any order,
   and at most one word before, between and behind them. *)
EXTENDS Dispatch

CONSTANTS
  Words,
  MaxWords        \* bound: words in a line

VARIABLE line

Names == {"gimble", "accelerator", "pan", "fireCtl", "setDeg", "fire"}

Init == line = <<>>

InitDocumented ==
  line \in {Line(d[1], d[2], d[3], <<>>) : d \in Documented}

InitSample == line \in Samples

TypeSeparator ==
  \E sep \in Separators \ ToSet(line) : line' = Append(line, sep)

TypeWord ==
  \E w \in Words :
    /\ Len(SelectSeq(line, LAMBDA x : x \in Words)) < MaxWords
    /\ line # <<>> => Last(line) \in Separators
    /\ line' = Append(line, w)

Next == TypeSeparator \/ TypeWord

(* The valid lines are those that have the fields of a documented command,
   and the value it needs; each documented command is one of them.  On the
   line typed so far, and on the documented commands with what follows the
   last separator as their argument. *)
LineIsDocumented ==
  /\ ValidIsDocumented(line) /\ ValueIsThere(line)
  /\ Len(line) <= 4 => DocumentedIsValid(SelectSeq(line, LAMBDA w : w # ")"))

(* One line, one reply: of one listener if it is valid, else the one error. *)
LineAnsweredByOne == AnsweredByOne(line) /\ OneErrorReply(line)

(* The replies to the documented lines. *)
LineReplyDocumented == RepliesDocumented(line)

(* The base format and the samples of Protocol.txt. *)
LineInBaseFormat == InBaseFormat(line)
SampleAccepted == SampleIsValid(line)

=============================================================================
