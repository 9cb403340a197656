----------------------------- MODULE Autofocus -----------------------------
(***************************************************************************)
(* output_autofocus: worker_thread looks at one picture after the other and *)
(* searches for the focus with which they are sharpest: from 255 down in    *)
(* steps of 10, once at the beginning, and again whenever the sharpness    *)
(* moves away from what it was at the end of the search.  How it waits for  *)
(* a picture and copies it is Grab of Picture; the call that would set the  *)
(* focus is a comment in the code.                                         *)
(***************************************************************************)
EXTENDS Integers, Sequences

CONSTANTS
  farthest, step_width,   \* 255 and 10
  delta,                  \* 500
  start_sv, start_focus,  \* max_sv and max_focus at the start: 100 and 100
  Sharpness,              \* what getFrameSharpnessValue may return; -1 when it cannot decode
  MaxLooks                \* bound: pictures looked at

ASSUME AutofocusAssumption ==
  /\ {farthest, step_width, delta} \subseteq Nat \ {0} /\ {start_sv, start_focus, MaxLooks} \subseteq Nat
  /\ Sharpness \subseteq Int /\ \A s \in Sharpness : s >= -1

VARIABLES
  max_sv, focus, max_focus, search_focus,
  tried,           \* the pictures of this search, as <<focus, sharpness>>
  restarted,       \* whether a search has been started after the first
  looks,
  halted           \* stop was seen: worker_cleanup has run

focusVars == <<max_sv, focus, max_focus, search_focus, tried, restarted, looks, halted>>

AutofocusInit ==
  /\ max_sv = start_sv /\ focus = farthest /\ max_focus = start_focus /\ search_focus = TRUE
  /\ tried = <<>> /\ restarted = FALSE /\ looks = 0 /\ halted = FALSE

Abs(n) == IF n < 0 THEN -n ELSE n
Lower(f) == IF f < step_width THEN 0 ELSE f - step_width

(* It is to search again.                                                   *)
Lost(sv) == ~search_focus /\ Abs(sv - max_sv) > delta

(* A picture of a search that goes on.                                      *)
Try(sv, from, best, best_focus, before) ==
  /\ focus' = Lower(from)
  /\ max_sv' = IF sv > best THEN sv ELSE best
  /\ max_focus' = IF sv > best THEN from ELSE best_focus
  /\ tried' = Append(before, <<from, sv>>)

(* Mutant: the sharpness of the last search is still to be beaten.          *)
SearchAgainKept(sv) ==
  /\ Lost(sv) /\ search_focus' = TRUE /\ restarted' = TRUE
  /\ Try(sv, farthest, max_sv, farthest, <<>>)

(* The picture that starts a new search is its first.                       *)
SearchAgain(sv) ==
  /\ Lost(sv) /\ search_focus' = TRUE /\ restarted' = TRUE
  /\ Try(sv, farthest, -1, farthest, <<>>)

SearchOn(sv) ==
  /\ search_focus /\ focus > 0
  /\ Try(sv, focus, max_sv, max_focus, tried) /\ UNCHANGED <<search_focus, restarted>>

(* Whatever the picture at 0 is like.                                       *)
SearchEnds(sv) ==
  /\ search_focus /\ focus <= 0
  /\ focus' = max_focus /\ search_focus' = FALSE /\ UNCHANGED <<max_sv, max_focus, tried, restarted>>

(* It sleeps then.                                                         *)
Stays(sv) ==
  /\ ~search_focus /\ ~Lost(sv)
  /\ UNCHANGED <<max_sv, focus, max_focus, search_focus, tried, restarted>>

Look(sv) ==
  /\ ~halted /\ looks < MaxLooks /\ looks' = looks + 1 /\ UNCHANGED halted
  /\ SearchAgain(sv) \/ SearchOn(sv) \/ SearchEnds(sv) \/ Stays(sv)

Halt == ~halted /\ halted' = TRUE /\ UNCHANGED <<max_sv, focus, max_focus, search_focus, tried, restarted, looks>>

AutofocusNext == Halt \/ \E sv \in Sharpness : Look(sv)

-----------------------------------------------------------------------------

(* The focus a search ends with is the one its sharpest picture was taken   *)
(* with, the first of them, of all from 255 down to 0 exclusive; when       *)
(* no picture was as sharp as the start demands, it is the one to start     *)
(* from.                                                                   *)
FocusIsBest ==
  ~search_focus =>
    LET worth == IF restarted THEN -1 ELSE start_sv
        Best == {k \in DOMAIN tried :
                   /\ tried[k][2] > worth
                   /\ \A h \in DOMAIN tried : tried[h][2] <= tried[k][2]
                   /\ \A h \in 1 .. k - 1 : tried[h][2] < tried[k][2]}
    IN  /\ [k \in DOMAIN tried |-> tried[k][1]]
             = [k \in 1 .. (farthest + step_width - 1) \div step_width |-> farthest - (k - 1) * step_width]
        /\ IF Best = {} THEN focus = IF restarted THEN farthest ELSE start_focus
           ELSE \A k \in Best : focus = tried[k][1]
=============================================================================
