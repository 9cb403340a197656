-------------------------------- MODULE Svm --------------------------------
(***************************************************************************)
(* libsvm around the Solver: how the kernel reads sparse vectors, how      *)
(* svm_train groups the data by class, trains one classifier for each two  *)
(* classes and packs the coefficients into sv_coef, how svm_save_model and *)
(* svm_load_model carry the model over a file, which coefficients          *)
(* svm_predict_values then reads for which support vector, and how         *)
(* svm_cross_validation and svm_binary_svc_probability cut the data.       *)
(*                                                                         *)
(* Data are the numbers 1 .. Len(y), y being their labels.  Which data a   *)
(* classifier gives a coefficient other than zero is left open; the        *)
(* coefficient itself is written as <<classifier, datum, class it counted  *)
(* for>>, zero as <<>>.  Sequences count from 1.                           *)
(***************************************************************************)
EXTENDS Integers, Sequences, FiniteSets, SequencesExt, FiniteSetsExt

CONSTANTS
  TrainSets,       \* sequences of labels that are trained on
  FoldSets,        \* sequences of labels that are cross-validated
  MaxFold,         \* bound: folds asked for
  Vectors          \* sparse vectors: nodes of an index and a value, indices growing

ASSUME SvmAssumption ==
  /\ \A q \in TrainSets \cup FoldSets : q \in Seq(Int) /\ q # <<>>
  /\ MaxFold \in Nat \ {0}

VARIABLES
  stage,           \* "kernel"; "train", "trained", "saved", "loaded"; "validate", "folded"
  kind,            \* "classes", or "one sum": one-class and regression
  x, y,            \* two vectors; the labels
  nz,              \* classifier -> data with a coefficient other than zero
  model,
  file,
  folds            \* [perm, start, stratified]

svmVars == <<stage, kind, x, y, nz, model, file, folds>>

Numbers(n) == [k \in 1 .. n |-> k]
Before(counts, c) == FoldLeft(LAMBDA a, b : a + b, 0, SubSeq(counts, 1, c - 1))

(* The entries of seq behind the first n are overwritten by new.           *)
Write(seq, n, new) ==
  [q \in DOMAIN seq |-> IF q \in n + 1 .. n + Len(new) THEN new[q - n] ELSE seq[q]]

-----------------------------------------------------------------------------
(* Kernel.  x_square is dot(x, x).  RBF is exp(-gamma * distance), POLY     *)
(* powi(gamma * dot + coef0, degree): gamma, coef0 and exp are left out.   *)

SumOfSquares(a) == FoldLeft(LAMBDA sum, node : sum + node.value ^ 2, 0, a)

(* Mutant: what only the shorter vector lacks is forgotten.                *)
distanceShort(a, b) ==
  LET from[m \in 1 .. Len(a) + 1, n \in 1 .. Len(b) + 1] ==
        IF m > Len(a) \/ n > Len(b) THEN 0
        ELSE IF a[m].index = b[n].index THEN (a[m].value - b[n].value) ^ 2 + from[m + 1, n + 1]
        ELSE IF a[m].index > b[n].index THEN b[n].value ^ 2 + from[m, n + 1]
        ELSE a[m].value ^ 2 + from[m + 1, n]
  IN  from[1, 1]

(* k_function, for prediction.                                            *)
distance(a, b) ==
  LET from[m \in 1 .. Len(a) + 1, n \in 1 .. Len(b) + 1] ==
        IF m > Len(a) THEN SumOfSquares(SubSeq(b, n, Len(b)))
        ELSE IF n > Len(b) THEN SumOfSquares(SubSeq(a, m, Len(a)))
        ELSE IF a[m].index = b[n].index THEN (a[m].value - b[n].value) ^ 2 + from[m + 1, n + 1]
        ELSE IF a[m].index > b[n].index THEN b[n].value ^ 2 + from[m, n + 1]
        ELSE a[m].value ^ 2 + from[m + 1, n]
  IN  from[1, 1]

dot(a, b) ==
  LET from[m \in 1 .. Len(a) + 1, n \in 1 .. Len(b) + 1] ==
        IF m > Len(a) \/ n > Len(b) THEN 0
        ELSE IF a[m].index = b[n].index THEN a[m].value * b[n].value + from[m + 1, n + 1]
        ELSE IF a[m].index > b[n].index THEN from[m, n + 1] ELSE from[m + 1, n]
  IN  from[1, 1]

(* kernel_rbf, for training.                                              *)
kernel_rbf(a, b) == dot(a, a) + dot(b, b) - 2 * dot(a, b)

powi(base, times) ==
  LET from[t \in Nat, tmp \in Int] ==
        IF t = 0 THEN 1 ELSE (IF t % 2 = 1 THEN tmp ELSE 1) * from[t \div 2, tmp * tmp]
  IN  from[times, base]

-----------------------------------------------------------------------------
(* svm_group_classes                                                       *)

FirstOccurrence(labels) ==
  FoldLeft(LAMBDA found, n : IF n \in ToSet(found) THEN found ELSE Append(found, n), <<>>, labels)

Grouped(labels, data, order) ==
  LET Members(c) == SelectSeq(data, LAMBDA d : labels[d] = order[c])
  IN  [label |-> order, count |-> [c \in DOMAIN order |-> Len(Members(c))],
       perm |-> FlattenSeq([c \in DOMAIN order |-> Members(c)])]

(* Mutant: the labels change places, the data do not.                      *)
svm_group_classesHalf(labels, data) ==
  LET first == FirstOccurrence([k \in DOMAIN data |-> labels[data[k]]])
  IN  [Grouped(labels, data, first) EXCEPT
         !.label = IF first = <<-1, 1>> THEN <<1, -1>> ELSE first]

(* The classes in the order of their first datum, but 1 before -1.         *)
svm_group_classes(labels, data) ==
  LET first == FirstOccurrence([k \in DOMAIN data |-> labels[data[k]]])
  IN  Grouped(labels, data, IF first = <<-1, 1>> THEN <<1, -1>> ELSE first)

(* The classifiers (i, j), i < j, in the order of training.                *)
Classifiers(nr_class) ==
  FlattenSeq([i \in 1 .. nr_class |->
    SelectSeq([j \in 1 .. nr_class |-> <<i, j>>], LAMBDA p : p[1] < p[2])])

-----------------------------------------------------------------------------
(* svm_train for classification.                                           *)

MembersOf(G, c) == SubSeq(G.perm, Before(G.count, c) + 1, Before(G.count, c) + G.count[c])

(* What each classifier may find.                                          *)
Found(G) ==
  LET P == ToSet(Classifiers(Len(G.label)))
      Belong(p) == ToSet(MembersOf(G, p[1])) \cup ToSet(MembersOf(G, p[2]))
  IN  {f \in [P -> SUBSET ToSet(G.perm)] : \A p \in P : f[p] \subseteq Belong(p)}

svm_train(G, found) ==
  LET P == Classifiers(Len(G.label))
      nonzero == UNION {found[p] : p \in ToSet(P)}
      Support(c) == SelectSeq(MembersOf(G, c), LAMBDA d : d \in nonzero)
      nSV == [c \in DOMAIN G.label |-> Len(Support(c))]
      alpha(p, c) == [k \in 1 .. nSV[c] |-> LET d == Support(c)[k]
                        IN  IF d \in found[p] THEN <<p, d, IF c = p[1] THEN 1 ELSE -1>> ELSE <<>>]
      empty == [q \in 1 .. Cardinality(nonzero) |-> <<"unassigned">>]
      Packed(coef, p) ==
        LET one == [coef EXCEPT ![p[2] - 1] = Write(@, Before(nSV, p[1]), alpha(p, p[1]))]
        IN  [one EXCEPT ![p[1]] = Write(@, Before(nSV, p[2]), alpha(p, p[2]))]
  IN  [nr_class |-> Len(G.label), label |-> G.label, nSV |-> nSV, rho |-> P,
       SV |-> SelectSeq(G.perm, LAMBDA d : d \in nonzero),
       sv_coef |-> FoldLeft(Packed, [r \in 1 .. Len(G.label) - 1 |-> empty], P)]

(* svm_train for one-class and regression: one decision function on all     *)
(* data.  NULL is the empty sequence.                                      *)
svm_train_sum(found) ==
  LET SV == SelectSeq(Numbers(Len(y)), LAMBDA d : d \in found)
  IN  [nr_class |-> 2, label |-> <<>>, nSV |-> <<>>, rho |-> << <<1, 2>> >>,
       SV |-> SV, sv_coef |-> << [k \in DOMAIN SV |-> << <<1, 2>>, SV[k], 1>>] >>]

-----------------------------------------------------------------------------
(* svm_save_model and svm_load_model                                       *)

Saved(m) ==
  [header |-> << <<"nr_class", m.nr_class>>, <<"total_sv", Len(m.SV)>>, <<"rho", m.rho>> >>
              \o (IF m.label = <<>> THEN <<>> ELSE << <<"label", m.label>> >>)
              \o (IF m.nSV = <<>> THEN <<>> ELSE << <<"nr_sv", m.nSV>> >>),
   lines |-> [k \in DOMAIN m.SV |->
               [coef |-> [r \in DOMAIN m.sv_coef |-> m.sv_coef[r][k]], x |-> m.SV[k]]]]

(* Lines of the header may come in any order that has nr_class first.      *)
read_model_header(header) ==
  LET Line(m, h) ==
        CASE h[1] = "nr_class" -> [m EXCEPT !.nr_class = h[2]]
          [] h[1] = "total_sv" -> [m EXCEPT !.l = h[2]]
          [] h[1] = "rho" -> [m EXCEPT !.rho = SubSeq(h[2], 1, (m.nr_class * (m.nr_class - 1)) \div 2)]
          [] h[1] = "label" -> [m EXCEPT !.label = SubSeq(h[2], 1, m.nr_class)]
          [] h[1] = "nr_sv" -> [m EXCEPT !.nSV = SubSeq(h[2], 1, m.nr_class)]
  IN  FoldLeft(Line, [nr_class |-> 0, l |-> 0, rho |-> <<>>, label |-> <<>>, nSV |-> <<>>], header)

svm_load_model(f) ==
  LET h == read_model_header(f.header)
  IN  [nr_class |-> h.nr_class, label |-> h.label, nSV |-> h.nSV, rho |-> h.rho,
       SV |-> [k \in 1 .. h.l |-> f.lines[k].x],
       sv_coef |-> [r \in 1 .. h.nr_class - 1 |-> [k \in 1 .. h.l |-> f.lines[k].coef[r]]]]

-----------------------------------------------------------------------------
(* svm_predict_values, on any x: the coefficients and support vectors whose *)
(* products make up the decision value of a classifier, ...                *)
Summands(m, p) ==
  LET Of(c, coef) == {<<coef[k], m.SV[k]>> : k \in Before(m.nSV, c) + 1 .. Before(m.nSV, c) + m.nSV[c]}
  IN  Of(p[1], m.sv_coef[p[2] - 1]) \cup Of(p[2], m.sv_coef[p[1]])

SummandsOfAll(m) == {<<m.sv_coef[1][k], m.SV[k]>> : k \in DOMAIN m.SV}

(* ... and the label it returns, by the classifiers with a positive value. *)
svm_predict(m, positive) ==
  LET P == ToSet(Classifiers(Len(m.label)))
      vote == [c \in DOMAIN m.label |->
                 Cardinality({p \in P : IF p \in positive THEN p[1] = c ELSE p[2] = c})]
      most == CHOOSE c \in DOMAIN m.label :
                /\ \A d \in DOMAIN m.label : vote[d] <= vote[c]
                /\ \A d \in 1 .. c - 1 : vote[d] < vote[c]
  IN  m.label[most]

(* svm_predict_probability: prob_estimates, an entry for each class.       *)
prob_estimates(m) == [c \in DOMAIN m.label |-> m.label[c]]

-----------------------------------------------------------------------------
(* svm_cross_validation                                                    *)

(* Mutant: every fold takes the same share, rounded.                       *)
ShareRounded(G, c, i, nr_fold) == G.count[c] \div nr_fold

Share(G, c, i, nr_fold) ==
  ((i + 1) * G.count[c]) \div nr_fold - (i * G.count[c]) \div nr_fold

(* rand(): any order of the data within each class.                        *)
Shuffles(G) ==
  {q \in SetToSeqs(ToSet(G.perm)) :
     \A c \in DOMAIN G.label :
       \A k \in Before(G.count, c) + 1 .. Before(G.count, c) + G.count[c] :
         q[k] \in ToSet(MembersOf(G, c))}

Stratified(G, index, nr_fold) ==
  LET Count(i) == FoldLeft(LAMBDA a, c : a + Share(G, c, i, nr_fold), 0, Numbers(Len(G.label)))
      fold_start == [i \in 1 .. nr_fold + 1 |->
                       FoldLeft(LAMBDA a, k : a + Count(k - 1), 0, Numbers(i - 1))]
      Slice(c, i) == SubSeq(index, Before(G.count, c) + (i * G.count[c]) \div nr_fold + 1,
                                   Before(G.count, c) + ((i + 1) * G.count[c]) \div nr_fold)
      Of(i) == FlattenSeq([c \in DOMAIN G.label |-> Slice(c, i)])
  IN  [perm |-> FoldLeft(LAMBDA q, i : Write(q, fold_start[i], Of(i - 1)), G.perm, Numbers(nr_fold)),
       start |-> fold_start, stratified |-> TRUE]

Plain(q, nr_fold) ==
  [perm |-> q, start |-> [i \in 1 .. nr_fold + 1 |-> ((i - 1) * Len(q)) \div nr_fold],
   stratified |-> FALSE]

(* svm_binary_svc_probability on data of two classes, 1 and another: five   *)
(* folds.  A fold whose other data are of one class gets its sign.         *)
DecisionValue(rest) ==
  LET classes == {IF y[d] = 1 THEN 1 ELSE -1 : d \in ToSet(rest)}
  IN  IF classes = {1, -1} THEN "predicted" ELSE IF classes = {} THEN 0 ELSE CHOOSE c \in classes : TRUE

(* The data a fold is predicted for, and those its model is trained on.    *)
Tested(i) == SubSeq(folds.perm, folds.start[i] + 1, folds.start[i + 1])
TrainedOn(i) == SubSeq(folds.perm, 1, folds.start[i]) \o
                SubSeq(folds.perm, folds.start[i + 1] + 1, Len(folds.perm))

-----------------------------------------------------------------------------

SvmInit ==
  /\ \/ stage = "kernel" /\ kind = "classes" /\ x \in Vectors /\ y \in Vectors
     \/ stage = "train" /\ kind \in {"classes", "one sum"} /\ y \in TrainSets /\ x = <<>>
     \/ stage = "validate" /\ kind \in {"classes", "one sum"} /\ y \in FoldSets /\ x = <<>>
  /\ nz = <<>> /\ model = <<>> /\ file = <<>> /\ folds = <<>>

Train ==
  LET G == svm_group_classes(y, Numbers(Len(y)))
  IN  /\ stage = "train" /\ stage' = "trained"
      /\ \/ kind = "classes" /\ nz' \in Found(G) /\ model' = svm_train(G, nz')
         \/ kind = "one sum" /\ \E found \in SUBSET (1 .. Len(y)) :
              nz' = (<<1, 2>> :> found) /\ model' = svm_train_sum(found)
      /\ UNCHANGED <<kind, x, y, file, folds>>

Save ==
  /\ stage = "trained" /\ stage' = "saved"
  /\ file' = Saved(model) /\ model' = <<>>
  /\ UNCHANGED <<kind, x, y, nz, folds>>

Load ==
  /\ stage = "saved" /\ stage' = "loaded"
  /\ model' = svm_load_model(file)
  /\ UNCHANGED <<kind, x, y, nz, file, folds>>

(* At most as many folds as data; where these are as many, or the kind of   *)
(* the problem has no classes, the classes are not looked at.              *)
svm_cross_validation ==
  /\ stage = "validate" /\ stage' = "folded"
  /\ \E asked \in 1 .. MaxFold :
       LET nr_fold == IF asked > Len(y) THEN Len(y) ELSE asked
           G == svm_group_classes(y, Numbers(Len(y)))
       IN  IF kind = "classes" /\ nr_fold < Len(y)
           THEN \E q \in Shuffles(G) : folds' = Stratified(G, q, nr_fold)
           ELSE \E q \in SetToSeqs(1 .. Len(y)) : folds' = Plain(q, nr_fold)
  /\ UNCHANGED <<kind, x, y, nz, model, file>>

svm_binary_svc_probability ==
  /\ stage = "validate" /\ kind = "classes" /\ stage' = "estimated"
  /\ \E q \in SetToSeqs(1 .. Len(y)) : folds' = Plain(q, 5)
  /\ UNCHANGED <<kind, x, y, nz, model, file>>

SvmNext == Train \/ Save \/ Load \/ svm_cross_validation \/ svm_binary_svc_probability

-----------------------------------------------------------------------------

(* The distance that training takes from products is the one prediction     *)
(* adds up, and both are what the vectors written out in full give.        *)
KernelsAgree ==
  stage = "kernel" =>
    LET Entry(v, n) == MapThenSumSet(LAMBDA node : node.value, {node \in ToSet(v) : node.index = n})
        indices == {node.index : node \in ToSet(x) \cup ToSet(y)}
    IN  /\ dot(x, y) = MapThenSumSet(LAMBDA n : Entry(x, n) * Entry(y, n), indices)
        /\ distance(x, y) = MapThenSumSet(LAMBDA n : (Entry(x, n) - Entry(y, n)) ^ 2, indices)
        /\ kernel_rbf(x, y) = distance(x, y)
        /\ \A times \in 0 .. 3 :
             powi(dot(x, y), times) = FoldLeft(LAMBDA product, k : product * dot(x, y), 1, Numbers(times))

(* However the coefficients were packed, grouped and sent through a file, a *)
(* decision value is made of what training gave that very classifier, each  *)
(* with its own datum; its positive side is its first class, 1 if there are *)
(* 1 and -1 only; and the label with the most classifiers on its side wins. *)
CoefficientsKept ==
  stage \in {"trained", "loaded"} =>
    IF kind = "one sum"
    THEN /\ SummandsOfAll(model) = {<< << <<1, 2>>, d, 1>>, d>> : d \in nz[<<1, 2>>]}
         /\ model.rho = << <<1, 2>> >>
    ELSE
    LET P == ToSet(Classifiers(Len(model.label)))
    IN  /\ ToSet(model.label) = ToSet(y) /\ DOMAIN nz = P
        /\ model.rho = Classifiers(Len(model.label))
        /\ \A p \in P :
             LET terms == {t \in Summands(model, p) : t[1] # <<>>}
             IN  /\ {t[2] : t \in terms} = nz[p] /\ Cardinality(terms) = Cardinality(nz[p])
                 /\ \A t \in terms :
                      t[1] = <<p, t[2], IF y[t[2]] = model.label[p[1]] THEN 1 ELSE -1>>
        /\ ToSet(y) = {1, -1} => model.label = <<1, -1>>
        /\ \A positive \in SUBSET P :
             LET Wins(n) == {p \in P : n = model.label[IF p \in positive THEN p[1] ELSE p[2]]}
             IN  \A n \in ToSet(y) :
                   Cardinality(Wins(n)) <= Cardinality(Wins(svm_predict(model, positive)))

(* Prediction computes with the kernel and the coefficients that training    *)
(* computed with.                                                          *)
PredictUsesTraining == KernelsAgree /\ CoefficientsKept

(* Each datum is predicted once, by a model trained on all the data of the  *)
(* other folds and not on its own; where the folds are stratified each has  *)
(* its share of each class, rounded down or up.                            *)
FoldsHoldOut ==
  stage \in {"folded", "estimated"} =>
    LET nr_fold == Len(folds.start) - 1
        data == 1 .. Len(y)
    IN  /\ \A d \in data : Cardinality({<<i, k>> \in (1 .. nr_fold) \X data :
                             k \in DOMAIN Tested(i) /\ Tested(i)[k] = d}) = 1
        /\ \A i \in 1 .. nr_fold : /\ ToSet(TrainedOn(i)) = data \ ToSet(Tested(i))
                                   /\ Len(TrainedOn(i)) = Len(y) - Len(Tested(i))
        /\ folds.stratified =>
             \A i \in 1 .. nr_fold, n \in ToSet(y) :
               LET all == Cardinality({d \in data : y[d] = n})
                   here == Cardinality({d \in ToSet(Tested(i)) : y[d] = n})
               IN  here \in {all \div nr_fold, (all + nr_fold - 1) \div nr_fold}
        /\ stage = "estimated" =>
             \A i \in 1 .. nr_fold :
               LET others == {y[d] : d \in ToSet(TrainedOn(i))}
               IN  CASE Cardinality(others) = 2 -> DecisionValue(TrainedOn(i)) = "predicted"
                     [] others = {1} -> DecisionValue(TrainedOn(i)) = 1
                     [] others = {} -> DecisionValue(TrainedOn(i)) = 0
                     [] OTHER -> DecisionValue(TrainedOn(i)) = -1

(* The tracker hands svm_predict_probability the address of one double.    *)
EstimatesFit == stage = "loaded" => Len(prob_estimates(model)) <= 1
=============================================================================
