-------------------------- MODULE AutofocusProofs --------------------------
(***************************************************************************)
(* Theorems about the search of output_autofocus, for any range, step,     *)
(* thresholds and pictures: what max_sv and max_focus say of the pictures  *)
(* tried so far (FocusInv), and so that the focus a search ends with is    *)
(* that of its sharpest picture.                                           *)
(***************************************************************************)
EXTENDS Autofocus, TLAPS, SequenceTheorems

(* How many pictures a search looks at before it ends. *)
Steps == (farthest + step_width - 1) \div step_width

(* The focus of the n-th picture after the first. *)
At(n) == farthest - n * step_width

FocusTypes ==
  /\ max_sv \in Int /\ focus \in Nat /\ max_focus \in Nat
  /\ search_focus \in BOOLEAN /\ restarted \in BOOLEAN
  /\ tried \in Seq(Int \X Int)

(* The pictures of a search were taken from the farthest focus downwards,
   and a search ends when the nearest is reached. *)
Downwards ==
  /\ \A k \in DOMAIN tried : tried[k][1] = At(k - 1)
  /\ Len(tried) <= Steps
  /\ IF search_focus THEN focus = IF Len(tried) < Steps THEN At(Len(tried)) ELSE 0
     ELSE Len(tried) = Steps /\ focus = max_focus

(* A picture has to be sharper than this. *)
Demanded == IF restarted THEN -1 ELSE start_sv
Otherwise == IF restarted THEN farthest ELSE start_focus

(* The k-th picture is the first of the sharpest. *)
Sharpest(k) ==
  /\ \A h \in DOMAIN tried : tried[h][2] <= tried[k][2]
  /\ \A h \in 1 .. k - 1 : tried[h][2] < tried[k][2]

(* What is remembered is the first of the sharpest pictures, if any is sharp
   enough. *)
Remembered ==
  \/ /\ max_sv = Demanded /\ max_focus = Otherwise
     /\ \A h \in DOMAIN tried : tried[h][2] <= Demanded
  \/ \E k \in DOMAIN tried :
       /\ Sharpest(k) /\ tried[k][2] > Demanded
       /\ max_sv = tried[k][2] /\ max_focus = tried[k][1]

FocusInv == FocusTypes /\ Downwards /\ Remembered

(* The constants, as numbers. *)
LEMMA Constants ==
  /\ farthest \in Nat \ {0} /\ step_width \in Nat \ {0} /\ start_sv \in Nat /\ start_focus \in Nat
  /\ \A s \in Sharpness : s \in Int /\ s >= -1
  BY AutofocusAssumption

(* The steps are as many as it takes to come down to the nearest focus. *)
LEMMA StepCount ==
  /\ Steps \in Nat \ {0}
  /\ \A n \in Nat : n < Steps <=> n * step_width < farthest
<1> DEFINE w == step_width
           top == farthest + w - 1
<1>1. w \in Nat \ {0} /\ farthest \in Nat \ {0} /\ top \in Nat /\ top >= w
  BY Constants
<1> HIDE DEF w, top
<1> DEFINE q == top \div w
<1>2. q \in Nat /\ w * q <= top /\ top < w * (q + 1)
  BY <1>1
<1> HIDE DEF q
<1>3. q # 0
  BY <1>1, <1>2
<1>4. ASSUME NEW n \in Nat PROVE n < q <=> n * w < farthest
  <2>1. CASE n < q
    <3>1. w * (n + 1) <= w * q
      BY <1>1, <1>2, <2>1
    <3>2. w * (n + 1) = n * w + w
      BY <1>1
    <3> QED
      BY <1>1, <1>2, <2>1, <3>1, <3>2 DEF top
  <2>2. CASE n >= q
    <3>1. w * q <= n * w /\ w * (q + 1) = w * q + w
      BY <1>1, <1>2, <2>2
    <3>2. w * q \in Nat /\ n * w \in Nat
      BY <1>1, <1>2
    <3> QED
      BY <1>1, <1>2, <2>2, <3>1, <3>2 DEF top
  <2> QED
    BY <1>2, <2>1, <2>2
<1> QED
  BY <1>2, <1>3, <1>4 DEF Steps, q, top, w

(* Lower goes on by one step. *)
LEMMA OneLower ==
  ASSUME NEW n \in Nat, n < Steps
  PROVE  /\ At(n) \in Nat \ {0}
         /\ Lower(At(n)) = IF n + 1 < Steps THEN At(n + 1) ELSE 0
         /\ Lower(At(n)) \in Nat
<1> DEFINE w == step_width
           p == n * w
<1>1. w \in Nat \ {0} /\ farthest \in Nat /\ p \in Nat /\ (n + 1) * w = p + w
  BY Constants
<1>2. p < farthest /\ (n + 1 < Steps <=> (n + 1) * w < farthest)
  BY StepCount
<1>3. At(n) = farthest - p /\ At(n + 1) = farthest - (p + w)
  BY <1>1 DEF At
<1> HIDE DEF w, p
<1>4. Lower(At(n)) = IF At(n) < w THEN 0 ELSE At(n) - w
  BY DEF Lower, w
<1> QED
  BY <1>1, <1>2, <1>3, <1>4

(* A picture more: what is remembered is the sharper one of it and the best
   so far. *)
LEMMA TryStep ==
  ASSUME NEW sv \in Int, NEW before \in Seq(Int \X Int), NEW best \in Int, NEW best_focus \in Nat,
         Len(before) < Steps, \A k \in DOMAIN before : before[k][1] = At(k - 1),
         search_focus' = TRUE, restarted' \in BOOLEAN,
         Try(sv, At(Len(before)), best, best_focus, before),
         \/ /\ best = Demanded' /\ best_focus = Otherwise'
            /\ \A h \in DOMAIN before : before[h][2] <= best
         \/ \E k \in DOMAIN before :
              /\ \A h \in DOMAIN before : before[h][2] <= before[k][2]
              /\ \A h \in 1 .. k - 1 : before[h][2] < before[k][2]
              /\ before[k][2] > Demanded'
              /\ best = before[k][2] /\ best_focus = before[k][1]
  PROVE  FocusInv'
<1> DEFINE n == Len(before)
           from == At(n)
           new == <<from, sv>>
<1>1. n \in Nat /\ from \in Nat /\ new \in Int \X Int /\ new[1] = from /\ new[2] = sv
  BY LenProperties, OneLower
<1>2. /\ focus' = Lower(from) /\ tried' = Append(before, new)
      /\ max_sv' = (IF sv > best THEN sv ELSE best)
      /\ max_focus' = (IF sv > best THEN from ELSE best_focus)
  BY DEF Try
<1>3. /\ tried' \in Seq(Int \X Int) /\ Len(tried') = n + 1
      /\ DOMAIN tried' = 1 .. n + 1 /\ DOMAIN before = 1 .. n
      /\ \A k \in 1 .. n : tried'[k] = before[k]
      /\ tried'[n + 1] = new
  BY <1>1, <1>2, AppendProperties, LenProperties
<1>a. \A k \in 1 .. n : before[k][2] \in Int
  BY <1>3, ElementOfSeq
<1>b. \A h \in 1 .. n : before[h][2] <= best
  BY <1>3
<1>4. focus' \in Nat /\ focus' = IF n + 1 < Steps THEN At(n + 1) ELSE 0
  BY <1>1, <1>2, OneLower
<1>5. Demanded' \in Int /\ Otherwise' \in Nat
  BY Constants DEF Demanded, Otherwise
<1> HIDE DEF n, from, new
<1>6. FocusTypes'
  BY <1>1, <1>2, <1>3, <1>4 DEF FocusTypes
<1>7. Downwards'
  <2>1. ASSUME NEW k \in 1 .. n + 1 PROVE tried'[k][1] = At(k - 1)
    <3>1. CASE k = n + 1
      BY <1>1, <1>3, <3>1 DEF from
    <3>2. CASE k \in 1 .. n
      BY <1>1, <1>3, <3>2
    <3> QED
      BY <1>1, <3>1, <3>2
  <2> QED
    BY <2>1, <1>1, <1>3, <1>4, StepCount DEF Downwards, n, At
<1>8. Remembered'
  <2>1. CASE sv > best
    <3>1. \A h \in 1 .. n : tried'[h][2] < sv
      BY <1>a, <1>b, <1>3, <2>1
    <3>2. Sharpest(n + 1)' /\ tried'[n + 1][2] > Demanded'
      <4>1. n \in Nat /\ tried'[n + 1][2] = sv /\ DOMAIN tried' = 1 .. n + 1
        BY <1>1, <1>3
      <4>2. \A h \in 1 .. n + 1 : tried'[h][2] <= sv
        <5>1. \A h \in 1 .. n + 1 : h = n + 1 \/ h \in 1 .. n
          BY <4>1
        <5> QED
          BY <3>1, <4>1, <5>1, <1>a, <1>3
      <4>3. sv > Demanded'
        BY <1>3, <1>5, <2>1
      <4>4. n + 1 - 1 = n
        BY <4>1
      <4> QED
        BY <3>1, <4>1, <4>2, <4>3, <4>4 DEF Sharpest
    <3>3. max_sv' = tried'[n + 1][2] /\ max_focus' = tried'[n + 1][1] /\ n + 1 \in DOMAIN tried'
      BY <1>1, <1>2, <1>3, <2>1
    <3> QED
      BY <3>2, <3>3 DEF Remembered
  <2>2. CASE ~(sv > best)
    <3>1. max_sv' = best /\ max_focus' = best_focus
      BY <1>2, <2>2
    <3>2. CASE /\ best = Demanded' /\ best_focus = Otherwise'
               /\ \A h \in DOMAIN before : before[h][2] <= best
      <4>1. ASSUME NEW h \in 1 .. n + 1 PROVE tried'[h][2] <= Demanded'
        <5>1. CASE h = n + 1
          BY <1>1, <1>3, <1>5, <2>2, <3>2, <5>1
        <5>2. CASE h \in 1 .. n
          BY <1>3, <1>b, <3>2, <5>2
        <5> QED
          BY <1>1, <5>1, <5>2
      <4> QED
        BY <1>3, <3>1, <3>2, <4>1 DEF Remembered
    <3>3. CASE \E k \in DOMAIN before :
                 /\ \A h \in DOMAIN before : before[h][2] <= before[k][2]
                 /\ \A h \in 1 .. k - 1 : before[h][2] < before[k][2]
                 /\ before[k][2] > Demanded'
                 /\ best = before[k][2] /\ best_focus = before[k][1]
      <4>1. PICK k \in 1 .. n :
                 /\ \A h \in 1 .. n : before[h][2] <= before[k][2]
                 /\ \A h \in 1 .. k - 1 : before[h][2] < before[k][2]
                 /\ before[k][2] > Demanded'
                 /\ best = before[k][2] /\ best_focus = before[k][1]
        BY <1>3, <3>3
      <4>2. k \in DOMAIN tried' /\ tried'[k] = before[k]
        BY <1>1, <1>3
      <4>3. Sharpest(k)'
        <5>1. \A h \in 1 .. n + 1 : tried'[h][2] <= tried'[k][2]
          <6>1. tried'[n + 1][2] <= best /\ tried'[k][2] = best
            <7>1. tried'[n + 1][2] = sv /\ tried'[k][2] = best
              BY <1>1, <1>3, <4>1, <4>2
            <7>2. best \in Int /\ sv \in Int /\ sv <= best
              BY <2>2
            <7> QED
              BY <7>1, <7>2
          <6>2. ASSUME NEW h \in 1 .. n + 1 PROVE tried'[h][2] <= tried'[k][2]
            <7>1. CASE h = n + 1
              BY <6>1, <7>1
            <7>2. CASE h \in 1 .. n
              BY <6>1, <1>3, <1>b, <7>2
            <7>3. n \in Nat
              BY <1>1
            <7> QED
              BY <7>1, <7>2, <7>3
          <6> QED
            BY <6>2
        <5>2. \A h \in 1 .. k - 1 : tried'[h][2] < tried'[k][2]
          BY <1>1, <1>3, <4>1, <4>2
        <5> QED
          BY <5>1, <5>2, <1>3 DEF Sharpest
      <4> QED
        BY <3>1, <4>1, <4>2, <4>3 DEF Remembered
    <3> QED
      BY <3>2, <3>3, <1>3
  <2> QED
    BY <2>1, <2>2
<1> QED
  BY <1>6, <1>7, <1>8 DEF FocusInv

(* FocusInv is inductive, one step for each thing worker_thread may do with a
   picture. *)
LEMMA FocusStep ==
  ASSUME FocusInv, [AutofocusNext]_focusVars
  PROVE  FocusInv'
<1>0. FocusTypes /\ Downwards /\ Remembered
  BY DEF FocusInv
<1>1. ASSUME NEW sv \in Sharpness, SearchAgain(sv) PROVE FocusInv'
  <2>1. sv \in Int /\ farthest = At(0) /\ 0 < Steps
    BY Constants, StepCount DEF At
  <2>2. Demanded' = -1 /\ Otherwise' = farthest /\ restarted' = TRUE /\ search_focus' = TRUE
    BY <1>1 DEF SearchAgain, Demanded, Otherwise
  <2> DEFINE none == <<>>
  <2>3. none \in Seq(Int \X Int) /\ Len(none) = 0 /\ DOMAIN none = {}
    BY EmptySeq
  <2>4. Try(sv, At(Len(none)), -1, farthest, none)
    BY <1>1, <2>1, <2>3 DEF SearchAgain
  <2>5. \A k \in DOMAIN none : none[k][1] = At(k - 1) /\ none[k][2] <= -1
    BY <2>3
  <2>6. /\ -1 = Demanded' /\ farthest = Otherwise'
        /\ \A h \in DOMAIN none : none[h][2] <= -1
    BY <2>2, <2>5
  <2>7. -1 \in Int /\ farthest \in Nat /\ Len(none) < Steps /\ restarted' \in BOOLEAN
    BY <2>1, <2>2, <2>3, Constants
  <2> HIDE DEF none
  <2> QED
    BY <2>1, <2>2, <2>3, <2>4, <2>5, <2>6, <2>7, TryStep
<1>2. ASSUME NEW sv \in Sharpness, SearchOn(sv) PROVE FocusInv'
  <2>1. Len(tried) < Steps /\ focus = At(Len(tried))
    BY <1>0, <1>2 DEF SearchOn, Downwards
  <2>2. Demanded' = Demanded /\ Otherwise' = Otherwise /\ restarted' = restarted /\ search_focus' = TRUE
    BY <1>0, <1>2 DEF SearchOn, FocusTypes, Demanded, Otherwise
  <2>3. Try(sv, At(Len(tried)), max_sv, max_focus, tried) /\ sv \in Int
    BY <1>2, <2>1, Constants DEF SearchOn
  <2>4. \/ /\ max_sv = Demanded' /\ max_focus = Otherwise'
           /\ \A h \in DOMAIN tried : tried[h][2] <= max_sv
        \/ \E k \in DOMAIN tried :
             /\ \A h \in DOMAIN tried : tried[h][2] <= tried[k][2]
             /\ \A h \in 1 .. k - 1 : tried[h][2] < tried[k][2]
             /\ tried[k][2] > Demanded'
             /\ max_sv = tried[k][2] /\ max_focus = tried[k][1]
    BY <1>0, <2>2 DEF Remembered, Sharpest
  <2> QED
    BY <1>0, <2>1, <2>2, <2>3, <2>4, TryStep DEF FocusTypes, Downwards
<1>3. ASSUME NEW sv \in Sharpness, SearchEnds(sv) PROVE FocusInv'
  <2>1. ~(Len(tried) < Steps)
    BY <1>0, <1>3, OneLower, LenProperties DEF SearchEnds, Downwards, FocusTypes
  <2>2. Len(tried) = Steps
    BY <2>1, <1>0, StepCount, LenProperties DEF Downwards, FocusTypes
  <2> QED
    BY <1>0, <1>3, <2>2
    DEF SearchEnds, FocusInv, FocusTypes, Downwards, Remembered, Sharpest, Demanded, Otherwise
<1>4. ASSUME UNCHANGED <<max_sv, focus, max_focus, search_focus, tried, restarted>>
      PROVE  FocusInv'
  BY <1>0, <1>4
  DEF FocusInv, FocusTypes, Downwards, Remembered, Sharpest, Demanded, Otherwise
<1> QED
  BY <1>1, <1>2, <1>3, <1>4 DEF AutofocusNext, Look, Stays, Halt, focusVars

(* FocusInv, of the search for the focus, whatever the pictures are. *)
THEOREM FocusInvariant == AutofocusInit /\ [][AutofocusNext]_focusVars => []FocusInv
<1>1. AutofocusInit => FocusInv
  <2> SUFFICES ASSUME AutofocusInit PROVE FocusInv
    OBVIOUS
  <2>1. tried \in Seq(Int \X Int) /\ Len(tried) = 0 /\ DOMAIN tried = {}
    BY EmptySeq DEF AutofocusInit
  <2>2. farthest = At(0) /\ 0 < Steps /\ 0 <= Steps
    BY Constants, StepCount DEF At
  <2>3. \A k \in DOMAIN tried : tried[k][1] = At(k - 1) /\ tried[k][2] <= start_sv
    BY <2>1
  <2>4. /\ max_sv = start_sv /\ focus = farthest /\ max_focus = start_focus
        /\ search_focus = TRUE /\ restarted = FALSE
    BY DEF AutofocusInit
  <2>5. FocusTypes
    <3>1. search_focus \in BOOLEAN /\ restarted \in BOOLEAN
      BY <2>4
    <3>2. max_sv \in Int /\ focus \in Nat /\ max_focus \in Nat
      BY <2>4, Constants
    <3> QED
      BY <2>1, <3>1, <3>2 DEF FocusTypes
  <2>6. Downwards
    BY <2>1, <2>2, <2>3, <2>4 DEF Downwards
  <2>7. Remembered
    BY <2>3, <2>4 DEF Remembered, Demanded, Otherwise
  <2> QED
    BY <2>5, <2>6, <2>7 DEF FocusInv
<1> QED
  BY <1>1, FocusStep, PTL

(* FocusIsBest: the focus that worker_thread settles on is that of the first
   of the sharpest pictures of the search, or the one to start from. *)
THEOREM FocusFound == AutofocusInit /\ [][AutofocusNext]_focusVars => []FocusIsBest
<1>1. FocusInv => FocusIsBest
  <2> SUFFICES ASSUME FocusInv, ~search_focus PROVE FocusIsBest
    BY DEF FocusIsBest
  <2>1. FocusTypes /\ Downwards /\ Remembered /\ Len(tried) = Steps /\ focus = max_focus
    BY DEF FocusInv, Downwards
  <2>2. DOMAIN tried = 1 .. Steps
    BY <2>1, LenProperties DEF FocusTypes
  <2>3. [k \in DOMAIN tried |-> tried[k][1]] = [k \in 1 .. Steps |-> farthest - (k - 1) * step_width]
    BY <2>1, <2>2 DEF Downwards, At
  <2> DEFINE Best == {k \in DOMAIN tried :
                        /\ tried[k][2] > Demanded
                        /\ \A h \in DOMAIN tried : tried[h][2] <= tried[k][2]
                        /\ \A h \in 1 .. k - 1 : tried[h][2] < tried[k][2]}
  <2>4. IF Best = {} THEN focus = Otherwise ELSE \A k \in Best : focus = tried[k][1]
    <3>0. /\ \A h \in DOMAIN tried : tried[h][2] \in Int
          /\ Demanded \in Int
      BY <2>1, <2>2, Constants, ElementOfSeq DEF FocusTypes, Demanded
    <3>1. CASE max_sv = Demanded /\ max_focus = Otherwise /\ \A h \in DOMAIN tried : tried[h][2] <= Demanded
      <4>1. Best = {}
        BY <3>0, <3>1
      <4> QED
        BY <4>1, <3>1, <2>1
    <3>2. CASE \E k \in DOMAIN tried :
                 /\ Sharpest(k) /\ tried[k][2] > Demanded
                 /\ max_sv = tried[k][2] /\ max_focus = tried[k][1]
      <4>1. PICK k \in DOMAIN tried : Sharpest(k) /\ tried[k][2] > Demanded /\ max_focus = tried[k][1]
        BY <3>2
      <4>2. k \in Best
        BY <4>1 DEF Sharpest
      <4>3. ASSUME NEW j \in Best PROVE j = k
        <5>1. j \in 1 .. Steps /\ k \in 1 .. Steps /\ Steps \in Nat
          BY <2>2, StepCount
        <5>2. ~(j < k)
          BY <3>0, <4>1, <4>2, <5>1 DEF Sharpest
        <5>3. ~(k < j)
          BY <3>0, <4>1, <4>2, <5>1 DEF Sharpest
        <5> QED
          BY <5>1, <5>2, <5>3
      <4> QED
        BY <4>1, <4>2, <4>3, <2>1
    <3> QED
      BY <2>1, <3>1, <3>2 DEF Remembered
  <2> QED
    BY <2>3, <2>4 DEF FocusIsBest, Steps, Demanded, Otherwise
<1> QED
  BY <1>1, FocusInvariant, PTL
=============================================================================
