------------------------------- MODULE Solver -------------------------------
(***************************************************************************)
(* Solver, Solver_NU and Cache of libsvm, which train a classifier or a    *)
(* regression: alpha is moved two entries at a time, the gradient G kept   *)
(* up to date, entries that seem settled at a bound are moved behind       *)
(* active_size (shrinking), so that every array, and every cached column   *)
(* of Q, is permuted as the solver goes.  Nothing computes any of it a     *)
(* second time.                                                            *)
(*                                                                         *)
(* A regression has two entries for each datum, k and k + data; the cache  *)
(* then keeps the columns of the kernel as they are, and get_Q copies what *)
(* is asked for, in the present order, into one of two buffers in turn.    *)
(*                                                                         *)
(* Numbers are integers.  How far a step goes, a quotient, is left open    *)
(* (1 .. MaxStep), and so is which j of those that help select_working_set *)
(* takes; only its direction and the bounds matter here.                   *)
(***************************************************************************)
EXTENDS Integers, Sequences, FiniteSets, FiniteSetsExt, SequencesExt

CONSTANTS
  Data,            \* Data[q]: the number of data of problem q
  K,               \* the kernel: K[a][b] of data a and b
  Target,          \* what a regression learns, for each datum
  Tube,            \* p of svm_parameter: errors up to it cost nothing
  Cp, Cn,          \* upper bounds of alpha for data of the two classes
  eps,
  size,            \* entries of Q the cache is told to hold
  MaxStep,         \* bound: length of a step before it is clipped
  max_iter

Problems == {"c_svc", "nu_svc", "one_class", "epsilon_svr", "nu_svr"}

ASSUME SolverAssumption ==
  /\ DOMAIN Data \subseteq Problems /\ \A q \in DOMAIN Data : Data[q] \in Nat \ {0}
  /\ {Cp, Cn, MaxStep, eps} \subseteq Nat \ {0}
  /\ Tube \in Nat /\ size \in Int /\ max_iter \in Nat

VARIABLES
  problem,
  label,           \* y of each entry, 1 or -1
  p,               \* the linear term of each entry
  nu,              \* what the entries of a class, or all of them, add up to
  s,               \* the solver's arrays and its cache, see Start
  at, iter,
  i, j,            \* the working set
  result           \* alpha_ and rho of the caller

solverVars == <<problem, label, p, nu, s, at, iter, i, j, result>>

IsRegression == problem \in {"epsilon_svr", "nu_svr"}
IsNu == problem \in {"nu_svc", "nu_svr"}

data == Data[problem]
l == IF IsRegression THEN 2 * data ELSE data
Index == 0 .. l - 1
Datum(entry) == entry % data

INF == 1000000
All == {1, -1}

SumOver(f(_), S) == MapThenSumSet(f, S)
Swap(f, a, b) == [f EXCEPT ![a] = f[b], ![b] = f[a]]
Larger(a, b) == IF a > b THEN a ELSE b
Smaller(a, b) == IF a < b THEN a ELSE b
Ascending(n) == [k \in 1 .. n |-> k - 1]

-----------------------------------------------------------------------------
(* Cache: the columns of Q, cut off after some entries, the least recently *)
(* used first in S.lru.  S.column[h][k + 1] is entry k of column h.        *)

Without(q, h) == SelectSeq(q, LAMBDA e : e # h)

(* As many of the oldest columns as make room.                            *)
Evict(S, more) ==
  LET Room(n) == S.free + SumOver(LAMBDA k : Len(S.column[S.lru[k]]), 1 .. n)
      n == CHOOSE m \in 0 .. Len(S.lru) : Room(m) >= more /\ \A k \in 0 .. m - 1 : Room(k) < more
      gone == {S.lru[k] : k \in 1 .. n}
  IN  [S EXCEPT !.free = Room(n), !.lru = SubSeq(@, n + 1, Len(@)),
                !.column = [h \in Index |-> IF h \in gone THEN <<>> ELSE S.column[h]]]

(* get_data, and what it does not have filled in from the whole column.   *)
get_data(S, h, len, whole) ==
  LET more == len - Len(S.column[h])
      R == Evict([S EXCEPT !.lru = Without(@, h)], more)
  IN  IF more <= 0
      THEN [S EXCEPT !.lru = Append(Without(@, h), h)]
      ELSE [R EXCEPT !.free = @ - more, !.lru = Append(@, h),
              !.column[h] = @ \o SubSeq(whole, Len(@) + 1, len)]

(* SVC_Q and ONE_CLASS_Q.                                                 *)
Kernel(S, h, k) == K[Datum(S.active_set[h])][Datum(S.active_set[k])]
Q(S, h, k) == S.y[h] * S.y[k] * Kernel(S, h, k)

SVC_Q(S, h, len) == get_data(S, h, len, [k \in 1 .. l |-> Q(S, h, k - 1)])

(* sign and index of an entry are its y and its datum.                    *)
SVR_Q(S, h, len) ==
  LET real_i == Datum(S.active_set[h])
      R == get_data(S, real_i, data, [k \in 1 .. data |-> K[real_i][k - 1]])
      Entry(k) == S.y[h] * S.y[k] * R.column[real_i][Datum(S.active_set[k]) + 1]
  IN  [R EXCEPT !.buffer[S.next_buffer] = [k \in 1 .. len |-> Entry(k - 1)],
                !.next_buffer = 1 - @]

get_Q(S, h, len) == IF IsRegression THEN SVR_Q(S, h, len) ELSE SVC_Q(S, h, len)

(* What get_Q(S, h, .) points to, and what is there later.                *)
Pointer(S, h) == IF IsRegression THEN S.next_buffer ELSE h
At(S, pointer) == IF IsRegression THEN S.buffer[pointer] ELSE S.column[pointer]

(* Mutant: a column that ends between the two is kept.                    *)
swap_columnsKept(S, a, b) ==
  LET column == Swap(S.column, a, b)
      Moved(q, h) == IF column[h] # <<>> THEN Append(Without(q, h), h) ELSE Without(q, h)
      Renamed(c) == IF Len(c) > b THEN Swap(c, a + 1, b + 1) ELSE c
  IN  [S EXCEPT !.column = [h \in Index |-> Renamed(column[h])],
                !.lru = Moved(Moved(@, a), b)]

(* Cache::swap_index, a < b: a column that ends between the two is given up. *)
swap_columns(S, a, b) ==
  LET column == Swap(S.column, a, b)
      Moved(q, h) == IF column[h] # <<>> THEN Append(Without(q, h), h) ELSE Without(q, h)
      Between == {h \in Index : Len(column[h]) \in a + 1 .. b}
      Renamed(c) == IF Len(c) > b THEN Swap(c, a + 1, b + 1) ELSE c
  IN  [S EXCEPT !.column = [h \in Index |-> IF h \in Between THEN <<>> ELSE Renamed(column[h])],
                !.lru = SelectSeq(Moved(Moved(@, a), b), LAMBDA h : h \notin Between),
                !.free = @ + SumOver(LAMBDA h : Len(column[h]), Between)]

-----------------------------------------------------------------------------
(* Solver.                                                                 *)

C(S, k) == IF problem = "c_svc" /\ S.y[k] < 0 THEN Cn ELSE Cp

StatusOf(S, k) ==
  IF S.alpha[k] >= C(S, k) THEN "upper" ELSE IF S.alpha[k] <= 0 THEN "lower" ELSE "free"

Active(S) == 0 .. S.active_size - 1

swap_index(S, a, b) ==
  [(IF IsRegression THEN S ELSE swap_columns(S, a, b)) EXCEPT
     !.y = Swap(@, a, b), !.G = Swap(@, a, b), !.status = Swap(@, a, b),
     !.alpha = Swap(@, a, b), !.p = Swap(@, a, b), !.active_set = Swap(@, a, b), !.G_bar = Swap(@, a, b)]

(* reconstruct_gradient reads the cache by rows or by columns, whichever is *)
(* less work.                                                              *)
reconstruct_gradient(S) ==
  LET Free == {k \in Active(S) : S.status[k] = "free"}
      Idle == Index \ Active(S)
      byRow == Cardinality(Free) * l > 2 * S.active_size * (l - S.active_size)
      read == IF byRow THEN Idle ELSE Free
      F == FoldLeft(LAMBDA T, h : get_Q(T, h, IF byRow THEN S.active_size ELSE l), S,
                    SelectSeq(Ascending(l), LAMBDA h : h \in read))
  IN  IF Idle = {} THEN S
      ELSE [F EXCEPT !.G = [k \in Index |->
              IF k \in Idle THEN S.G_bar[k] + S.p[k] + SumOver(LAMBDA h : S.alpha[h] * Q(S, h, k), Free)
              ELSE S.G[k]]]

(* The entries of the classes g whose y * alpha may still grow or shrink.  *)
Up(S, g) == {k \in Active(S) : S.y[k] \in g /\ S.status[k] # (IF S.y[k] = 1 THEN "upper" ELSE "lower")}
Low(S, g) == {k \in Active(S) : S.y[k] \in g /\ S.status[k] # (IF S.y[k] = 1 THEN "lower" ELSE "upper")}

MaxOf(f(_), T) == IF T = {} THEN -INF ELSE Max({f(k) : k \in T})
Gmax(S, g) == MaxOf(LAMBDA k : -S.y[k] * S.G[k], Up(S, g))
Gmax2(S, g) == MaxOf(LAMBDA k : S.y[k] * S.G[k], Low(S, g))

Gmax_idx(S, g) == Max({k \in Up(S, g) : -S.y[k] * S.G[k] = Gmax(S, g)})
Partners(S, g) == {k \in Low(S, g) : Gmax(S, g) + S.y[k] * S.G[k] > 0}

(* By how much optimality is violated: Solver may move any two entries,    *)
(* Solver_NU only two of one class.                                        *)
Violation(S) == Gmax(S, All) + Gmax2(S, All)
NU_Violation(S) == Larger(Gmax(S, {1}) + Gmax2(S, {1}), Gmax(S, {-1}) + Gmax2(S, {-1}))
Gap(S) == IF IsNu THEN NU_Violation(S) ELSE Violation(S)

be_shrunk(S, k, m1, m2) ==
  \/ S.status[k] = "upper" /\ -S.G[k] > (IF S.y[k] = 1 THEN m1 ELSE m2)
  \/ S.status[k] = "lower" /\ S.G[k] > (IF S.y[k] = 1 THEN m2 ELSE m1)

NU_be_shrunk(S, k, m) ==
  \/ S.status[k] = "upper" /\ -S.G[k] > (IF S.y[k] = 1 THEN m[1] ELSE m[4])
  \/ S.status[k] = "lower" /\ S.G[k] > (IF S.y[k] = 1 THEN m[2] ELSE m[3])

Unshrunk(S) ==
  IF ~S.unshrink /\ Gap(S) <= eps * 10
  THEN [reconstruct_gradient(S) EXCEPT !.active_size = l, !.unshrink = TRUE] ELSE S

(* From the first entry on, an entry to be shrunk changes places with the   *)
(* last active one that is not.                                            *)
PutBehind(S, shrunk(_, _)) ==
  LET Staying(R, k) == {h \in k + 1 .. R.active_size - 1 : ~shrunk(R, h)}
      One(R, k) ==
        IF k >= R.active_size \/ ~shrunk(R, k) THEN R
        ELSE IF Staying(R, k) = {} THEN [R EXCEPT !.active_size = k]
        ELSE [swap_index(R, k, Max(Staying(R, k))) EXCEPT !.active_size = Max(Staying(R, k))]
  IN  FoldLeft(One, S, Ascending(l))

(* The limits of both classes, as they are before anything is unshrunk.     *)
Solver_do_shrinking(S) == LET m == <<Gmax(S, All), Gmax2(S, All)>> IN m \o m

NU_do_shrinking(S) == <<Gmax(S, {1}), Gmax2(S, {1}), Gmax(S, {-1}), Gmax2(S, {-1})>>

do_shrinking(S) ==
  LET m == IF IsNu THEN NU_do_shrinking(S) ELSE Solver_do_shrinking(S)
  IN  PutBehind(Unshrunk(S), LAMBDA R, k : IF IsNu THEN NU_be_shrunk(R, k, m) ELSE be_shrunk(R, k, m[1], m[2]))

(* rho is what y * G has in common: the mean of the free entries, or the    *)
(* middle between the bounds.  A mean is its sum and how many it is of.     *)
MeanOrMiddle(S, g) ==
  LET Free == {k \in Active(S) : S.y[k] \in g /\ S.status[k] = "free"}
      lb == MaxOf(LAMBDA k : S.y[k] * S.G[k], Low(S, g) \ Free)
      ub == -MaxOf(LAMBDA k : -S.y[k] * S.G[k], Up(S, g) \ Free)
  IN  IF Free # {} THEN [sum |-> SumOver(LAMBDA k : S.y[k] * S.G[k], Free), of |-> Cardinality(Free)]
      ELSE [sum |-> ub + lb, of |-> 2]

calculate_rho(S) == <<MeanOrMiddle(S, All)>>

(* r1 and -r2, which make up rho, (r1 - r2) / 2, and r, (r1 + r2) / 2.     *)
NU_calculate_rho(S) == <<MeanOrMiddle(S, {1}), MeanOrMiddle(S, {-1})>>

(* alpha[i] and alpha[j] after a step, first for data of two classes, whose *)
(* difference stays, then for data of one class, whose sum stays.          *)
ClipDifferent(a, b, ca, cb) ==
  LET diff == a - b
      low == IF diff > 0 THEN (IF b < 0 THEN <<diff, 0>> ELSE <<a, b>>)
             ELSE (IF a < 0 THEN <<0, -diff>> ELSE <<a, b>>)
  IN  IF diff > ca - cb THEN (IF low[1] > ca THEN <<ca, ca - diff>> ELSE low)
      ELSE (IF low[2] > cb THEN <<cb + diff, cb>> ELSE low)

ClipSame(a, b, ca, cb) ==
  LET sum == a + b
      first == IF sum > ca THEN (IF a > ca THEN <<ca, sum - ca>> ELSE <<a, b>>)
               ELSE (IF b < 0 THEN <<sum, 0>> ELSE <<a, b>>)
  IN  IF sum > cb THEN (IF first[2] > cb THEN <<sum - cb, cb>> ELSE first)
      ELSE (IF first[1] < 0 THEN <<0, sum>> ELSE first)

Moved(S, a, b, step) ==
  IF S.y[a] # S.y[b]
  THEN ClipDifferent(S.alpha[a] + S.y[a] * step, S.alpha[b] + S.y[a] * step, C(S, a), C(S, b))
  ELSE ClipSame(S.alpha[a] + S.y[a] * step, S.alpha[b] - S.y[a] * step, C(S, a), C(S, b))

(* Mutant: what leaves its upper bound stays in G_bar.                    *)
UpdateBarKept(S, old, k) ==
  IF old = StatusOf(S, k) \/ StatusOf(S, k) # "upper" THEN S
  ELSE LET R == get_Q(S, k, l)
       IN  [R EXCEPT !.G_bar = [h \in Index |-> @[h] + C(S, k) * At(R, Pointer(S, k))[h + 1]]]

(* G_bar counts the columns of what is at its upper bound.                *)
UpdateBar(S, old, k) ==
  LET R == get_Q(S, k, l)
      sign == IF old = "upper" THEN -1 ELSE 1
  IN  IF (old = "upper") = (StatusOf(S, k) = "upper") THEN S
      ELSE [R EXCEPT !.G_bar = [h \in Index |-> @[h] + sign * C(S, k) * At(R, Pointer(S, k))[h + 1]]]

-----------------------------------------------------------------------------
(* Solve.  The cache takes room for two columns at least.                  *)

CacheSize == Larger(size, 2 * data)

AddColumn(S, h, pointer) ==
  LET Q_h(k) == At(S, pointer)[k + 1]
  IN  [S EXCEPT !.G = [k \in Index |-> S.G[k] + S.alpha[h] * Q_h(k)],
                !.G_bar = [k \in Index |->
                   S.G_bar[k] + IF S.status[h] = "upper" THEN C(S, h) * Q_h(k) ELSE 0]]

(* The gradient at alpha: the columns of all that is not zero are added up. *)
Start(alpha) ==
  LET A == [y |-> label, alpha |-> alpha, p |-> p, status |-> [k \in Index |-> "lower"],
            active_set |-> [k \in Index |-> k], active_size |-> l, unshrink |-> FALSE,
            counter |-> Smaller(l, 1000) + 1,
            G |-> p, G_bar |-> [k \in Index |-> 0],
            column |-> [h \in Index |-> <<>>], lru |-> <<>>, free |-> CacheSize,
            buffer |-> (0 :> <<>> @@ 1 :> <<>>), next_buffer |-> 0,
            Q_i |-> 0, Q_j |-> 0]
      B == [A EXCEPT !.status = [k \in Index |-> StatusOf(A, k)]]
      Added(S, h) == IF S.status[h] = "lower" THEN S
                     ELSE AddColumn(get_Q(S, h, l), h, Pointer(S, h))
  IN  FoldLeft(Added, B, Ascending(l))

(* As much of sum as the entries in this order can take, each up to Cp.    *)
Filled(sum, order, k) ==
  LET Before(h) == Cardinality({g \in DOMAIN order : g < h})
      rest == sum - Cp * Before(CHOOSE h \in DOMAIN order : order[h] = k)
  IN  Smaller(Cp, Larger(0, rest))

EntriesOf(class) == SelectSeq(Ascending(l), LAMBDA k : label[k] = class)

Zeros == [k \in Index |-> 0]

(* solve_c_svc and its fellows hand over y, the linear term and alpha.     *)
solve_c_svc ==
  /\ problem = "c_svc" /\ label \in [Index -> {1, -1}] /\ nu = 0
  /\ p = [k \in Index |-> -1]
  /\ s = Start(Zeros)

(* nu is what svm_check_parameter lets pass.                              *)
FeasibleNu == nu <= Cp * Smaller(Len(EntriesOf(1)), Len(EntriesOf(-1)))

solve_nu_svc ==
  /\ problem = "nu_svc" /\ label \in [Index -> {1, -1}]
  /\ nu \in 1 .. (Cp * l) \div 2 /\ FeasibleNu
  /\ p = Zeros
  /\ s = Start([k \in Index |-> Filled(nu, EntriesOf(label[k]), k)])

solve_one_class ==
  /\ problem = "one_class" /\ label = [k \in Index |-> 1]
  /\ nu \in 1 .. Cp * l
  /\ p = Zeros
  /\ s = Start([k \in Index |-> Filled(nu, Ascending(l), k)])

Side == [k \in Index |-> IF k < data THEN 1 ELSE -1]

solve_epsilon_svr ==
  /\ problem = "epsilon_svr" /\ label = Side /\ nu = 0
  /\ p = [k \in Index |-> Tube - label[k] * Target[Datum(k)]]
  /\ s = Start(Zeros)

solve_nu_svr ==
  /\ problem = "nu_svr" /\ label = Side /\ nu \in 1 .. (Cp * data) \div 2
  /\ p = [k \in Index |-> -label[k] * Target[Datum(k)]]
  /\ s = Start([k \in Index |-> Filled(nu, Ascending(data), Datum(k))])

SolverInit ==
  /\ problem \in DOMAIN Data
  /\ solve_c_svc \/ solve_nu_svc \/ solve_one_class \/ solve_epsilon_svr \/ solve_nu_svr
  /\ at = "loop" /\ iter = 0 /\ i = 0 /\ j = 0 /\ result = [alpha |-> <<>>, rho |-> <<>>]

Shrinking ==
  /\ at = "loop" /\ iter < max_iter /\ at' = "select"
  /\ s' = IF s.counter = 1
          THEN [do_shrinking(s) EXCEPT !.counter = Smaller(l, 1000)]
          ELSE [s EXCEPT !.counter = @ - 1]
  /\ UNCHANGED <<problem, label, p, nu, iter, i, j, result>>

(* Whether two entries can still be improved, among the active ones.       *)
Chosen(g) == j' \in Partners(s, g) /\ i' = Gmax_idx(s, g)

Solver_select_working_set == Violation(s) >= eps /\ Chosen(All)

NU_select_working_set == NU_Violation(s) >= eps /\ (Chosen({1}) \/ Chosen({-1}))

select_working_set ==
  /\ IF IsNu THEN NU_select_working_set ELSE Solver_select_working_set
  /\ at' = "fetch"

(* select_working_set asks for column i, Solver_NU's for one of each class, *)
(* also when it finds nothing.                                             *)
Ask(S, g) == IF Up(S, g) = {} THEN S ELSE get_Q(S, Gmax_idx(S, g), S.active_size)
Asked == IF IsNu THEN Ask(Ask(s, {1}), {-1}) ELSE Ask(s, All)

Select ==
  /\ at = "select" /\ select_working_set
  /\ s' = Asked
  /\ UNCHANGED <<problem, label, p, nu, iter, result>>

(* Mutant: the gradient is not made whole before the whole is judged.      *)
NothingLeftStale ==
  /\ at = "select" /\ Gap(s) < eps /\ at' = "again"
  /\ s' = [Asked EXCEPT !.active_size = l]
  /\ UNCHANGED <<problem, label, p, nu, iter, i, j, result>>

NothingLeft ==
  /\ at = "select" /\ Gap(s) < eps /\ at' = "again"
  /\ s' = [reconstruct_gradient(Asked) EXCEPT !.active_size = l]
  /\ UNCHANGED <<problem, label, p, nu, iter, i, j, result>>

SelectAgain ==
  /\ at = "again" /\ select_working_set
  /\ s' = [Asked EXCEPT !.counter = 1]
  /\ UNCHANGED <<problem, label, p, nu, iter, result>>

Fetch ==
  /\ at = "fetch" /\ at' = "update"
  /\ LET A == get_Q(s, i, s.active_size)
     IN  s' = [get_Q(A, j, s.active_size) EXCEPT !.Q_i = Pointer(s, i), !.Q_j = Pointer(A, j)]
  /\ UNCHANGED <<problem, label, p, nu, iter, i, j, result>>

Update ==
  /\ at = "update" /\ at' = "loop" /\ iter' = iter + 1
  /\ \E step \in 1 .. MaxStep :
       LET new == Moved(s, i, j, step)
           di == new[1] - s.alpha[i]
           dj == new[2] - s.alpha[j]
           A == [s EXCEPT !.alpha = [@ EXCEPT ![i] = new[1], ![j] = new[2]],
                          !.G = [k \in Index |-> IF k \in Active(s)
                                   THEN @[k] + At(s, s.Q_i)[k + 1] * di + At(s, s.Q_j)[k + 1] * dj
                                   ELSE @[k]]]
           B == UpdateBar(UpdateBar(A, s.status[i], i), s.status[j], j)
       IN  s' = [B EXCEPT !.status = [@ EXCEPT ![i] = StatusOf(A, i), ![j] = StatusOf(A, j)]]
  /\ UNCHANGED <<problem, label, p, nu, i, j, result>>

(* The solution goes back to where each datum came from.                   *)
PutBack(S) == [k \in Index |-> S.alpha[CHOOSE h \in Index : S.active_set[h] = k]]

(* Optimal, or max_iter reached.                                           *)
Finish ==
  /\ \/ at = "again" /\ Gap(s) < eps /\ s' = Asked
     \/ at = "loop" /\ iter = max_iter
        /\ s' = [reconstruct_gradient(s) EXCEPT !.active_size = l]
  /\ at' = "done"
  /\ result' = [alpha |-> PutBack(s'),
                rho |-> IF IsNu THEN NU_calculate_rho(s') ELSE calculate_rho(s')]
  /\ UNCHANGED <<problem, label, p, nu, iter, i, j>>

SolverNext ==
  Shrinking \/ Select \/ NothingLeft \/ SelectAgain \/ Fetch \/ Update \/ Finish

-----------------------------------------------------------------------------
(* What ought to be so, from the kernel and the labels alone.              *)

TrueQ(a, b) == label[a] * label[b] * K[Datum(a)][Datum(b)]
PermutedQ(a, b) == TrueQ(s.active_set[a], s.active_set[b])
TrueG(alpha, k) == p[k] + SumOver(LAMBDA h : alpha[h] * TrueQ(h, k), Index)
Bound(k) == IF problem = "c_svc" /\ label[k] = -1 THEN Cn ELSE Cp
Groups == IF IsNu THEN << {1}, {-1} >> ELSE << All >>

(* Whatever was swapped and thrown away, a cached column is the column of   *)
(* Q under the present order (of a regression, of the kernel), the cache    *)
(* knows its free room, and the two columns of the working set are both     *)
(* there when they are used.                                               *)
CacheTrue ==
  /\ \A h \in Index : \A k \in 1 .. Len(s.column[h]) :
       s.column[h][k] = IF IsRegression THEN K[h][k - 1] ELSE PermutedQ(h, k - 1)
  /\ s.free >= 0 /\ s.free + SumOver(LAMBDA h : Len(s.column[h]), Index) = CacheSize
  /\ ToSet(s.lru) = {h \in Index : s.column[h] # <<>>} /\ IsInjective(s.lru)
  /\ at = "update" =>
       \A c \in {<<i, At(s, s.Q_i)>>, <<j, At(s, s.Q_j)>>} :
         /\ Len(c[2]) >= s.active_size
         /\ \A k \in Active(s) : c[2][k + 1] = PermutedQ(c[1], k)

(* The gradient that is only ever updated is the gradient, of the active    *)
(* entries, and G_bar what is at its bounds contributes to it; what was    *)
(* shrunk is at a bound.                                                   *)
GradientTrue ==
  LET alpha == PutBack(s)
  IN  /\ \A k \in Active(s) : s.G[k] = TrueG(alpha, s.active_set[k])
      /\ \A k \in Index : /\ s.G_bar[k] = SumOver(LAMBDA h : C(s, h) * PermutedQ(h, k),
                                                  {h \in Index : s.status[h] = "upper"})
                          /\ s.status[k] = StatusOf(s, k)
      /\ \A k \in Index \ Active(s) : s.status[k] # "free"

(* What is only ever updated, over shrinking, swaps and bounds that are      *)
(* reached and left, is what it would be if it were computed anew.         *)
BookkeepingTrue == CacheTrue /\ GradientTrue

(* What Solve returns keeps to the bounds and the constraints, and where it *)
(* did not give up no two entries that may move together violate optimality *)
(* by eps, and rho is, by less than eps, between those that may grow and    *)
(* those that may shrink, when there are both.                             *)
SolutionOptimal ==
  at = "done" =>
    LET alpha == result.alpha
        Grows(k) == IF label[k] = 1 THEN alpha[k] < Bound(k) ELSE alpha[k] > 0
        Shrinks(k) == IF label[k] = 1 THEN alpha[k] > 0 ELSE alpha[k] < Bound(k)
        yG(k) == label[k] * TrueG(alpha, k)
        Total(g) == SumOver(LAMBDA k : label[k] * alpha[k], {k \in Index : label[k] \in g})
    IN  /\ \A k \in Index : alpha[k] \in 0 .. Bound(k)
        /\ IF IsNu THEN Total({1}) = nu /\ Total({-1}) = -nu ELSE Total(All) = nu
        /\ iter < max_iter =>
             \A n \in DOMAIN Groups :
               LET up == {k \in Index : label[k] \in Groups[n] /\ Grows(k)}
                   low == {k \in Index : label[k] \in Groups[n] /\ Shrinks(k)}
                   rho == result.rho[n]
               IN  \A a \in up, b \in low :
                     /\ -yG(a) + yG(b) < eps
                     /\ yG(a) * rho.of > rho.sum - eps * rho.of
                     /\ yG(b) * rho.of < rho.sum + eps * rho.of
=============================================================================
