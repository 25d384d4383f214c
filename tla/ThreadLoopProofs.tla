-------------------------- MODULE ThreadLoopProofs ---------------------------
(***************************************************************************)
(* What TLAPS proves about ThreadLoop, for any number of callers, calls    *)
(* and runs: a task is in one place, the tasks of one caller run in order, *)
(* and the thread keeps the promise that TaskDelivery states.              *)
(***************************************************************************)
EXTENDS ThreadLoop, SequenceTheorems, TLAPS

Spots == -1 .. MaxRuns + 2

-----------------------------------------------------------------------------
(* Tasks in lines, and the four ways they move.                            *)

LinesOf(L) == L \in [Spots -> Seq(Tasks)]

At(L, n, i, t) == n \in Spots /\ i \in 1..Len(L[n]) /\ L[n][i] = t

\* No task twice, and none that is out.
Apart(L, out) ==
    /\ \A t \in Tasks, m, n \in Spots, i, j \in Nat :
        At(L, m, i, t) /\ At(L, n, j, t) => m = n /\ i = j
    /\ \A t \in Tasks, n \in Spots, i \in Nat : At(L, n, i, t) => t \notin out

\* Of two tasks of one caller and one class, in lines of live, the one nearer the end of the
\* way was posted first.
Ordered(L, live, class) ==
    \A t, u \in Tasks, m, n \in live, i, j \in Nat :
        /\ At(L, m, i, t) /\ At(L, n, j, u)
        /\ m < n \/ (m = n /\ i < j)
        /\ t[1] = u[1]
        /\ t \in class <=> u \in class
        => t[2] < u[2]

\* t joins line a; the first of line a joins line b; all of line a go to line b, which is
\* empty; line a is emptied.
Joins(L, M, a, t) == M = [L EXCEPT ![a] = Append(@, t)]
Passes(L, M, a, b) == M = [L EXCEPT ![a] = Tail(L[a]), ![b] = Append(L[b], Head(L[a]))]
Pours(L, M, a, b) == M = [L EXCEPT ![a] = <<>>, ![b] = L[a]]
Clears(L, M, a) == M = [L EXCEPT ![a] = <<>>]

LEMMA AfterJoining ==
    ASSUME NEW L, LinesOf(L), NEW M, NEW a \in Spots, NEW t \in Tasks, Joins(L, M, a, t)
    PROVE  /\ LinesOf(M) /\ Len(L[a]) \in Nat
           /\ \A n \in Spots \ {a} : M[n] = L[n]
           /\ Len(M[a]) = Len(L[a]) + 1 /\ M[a][Len(L[a]) + 1] = t
           /\ \A i \in 1..Len(L[a]) : M[a][i] = L[a][i]
<1>1. L[a] \in Seq(Tasks)
  BY DEF LinesOf
<1>2. /\ Append(L[a], t) \in Seq(Tasks) /\ Len(L[a]) \in Nat
      /\ Len(Append(L[a], t)) = Len(L[a]) + 1 /\ Append(L[a], t)[Len(L[a]) + 1] = t
      /\ \A i \in 1..Len(L[a]) : Append(L[a], t)[i] = L[a][i]
  BY <1>1
<1>3. M[a] = Append(L[a], t) /\ M \in [Spots -> Seq(Tasks)] /\ \A n \in Spots \ {a} : M[n] = L[n]
  BY <1>2 DEF LinesOf, Joins
<1>4. QED
  BY <1>2, <1>3 DEF LinesOf

LEMMA AfterPassing ==
    ASSUME NEW L, LinesOf(L), NEW M, NEW a \in Spots, NEW b \in Spots, a # b, L[a] # <<>>,
           Passes(L, M, a, b)
    PROVE  /\ LinesOf(M) /\ Len(L[a]) \in Nat \ {0} /\ Len(L[b]) \in Nat
           /\ \A n \in Spots \ {a, b} : M[n] = L[n]
           /\ Len(M[a]) = Len(L[a]) - 1 /\ \A i \in 1..Len(M[a]) : M[a][i] = L[a][i + 1]
           /\ Len(M[b]) = Len(L[b]) + 1 /\ M[b][Len(L[b]) + 1] = L[a][1]
           /\ \A i \in 1..Len(L[b]) : M[b][i] = L[b][i]
<1>1. L[a] \in Seq(Tasks) /\ L[b] \in Seq(Tasks)
  BY DEF LinesOf
<1>2. /\ Tail(L[a]) \in Seq(Tasks) /\ Len(L[a]) \in Nat \ {0} /\ Head(L[a]) = L[a][1]
      /\ L[a][1] \in Tasks
      /\ Len(Tail(L[a])) = Len(L[a]) - 1
      /\ \A i \in 1..Len(Tail(L[a])) : Tail(L[a])[i] = L[a][i + 1]
  BY <1>1
<1>3. /\ Append(L[b], L[a][1]) \in Seq(Tasks) /\ Len(L[b]) \in Nat
      /\ Len(Append(L[b], L[a][1])) = Len(L[b]) + 1
      /\ Append(L[b], L[a][1])[Len(L[b]) + 1] = L[a][1]
      /\ \A i \in 1..Len(L[b]) : Append(L[b], L[a][1])[i] = L[b][i]
  BY <1>1, <1>2
<1>4. /\ M[a] = Tail(L[a]) /\ M[b] = Append(L[b], L[a][1]) /\ M \in [Spots -> Seq(Tasks)]
      /\ \A n \in Spots \ {a, b} : M[n] = L[n]
  BY <1>2, <1>3 DEF LinesOf, Passes
<1>5. QED
  BY <1>2, <1>3, <1>4 DEF LinesOf

LEMMA JoiningMoves ==
    ASSUME NEW L, LinesOf(L), NEW M, NEW a \in Spots, NEW t \in Tasks, Joins(L, M, a, t)
    PROVE  \A n \in Spots, i \in Nat, u \in Tasks : At(M, n, i, u) =>
            \/ At(L, n, i, u)
            \/ n = a /\ u = t /\ i = Len(L[a]) + 1
<1>1. LinesOf(M) /\ Len(L[a]) \in Nat
  BY AfterJoining
<1>2. \A n \in Spots \ {a} : M[n] = L[n]
  BY DEF LinesOf, Joins
<1>3. Len(M[a]) = Len(L[a]) + 1 /\ M[a][Len(L[a]) + 1] = t
  BY AfterJoining
<1>4. \A i \in 1..Len(L[a]) : M[a][i] = L[a][i]
  BY AfterJoining
<1>5. QED
  BY <1>1, <1>2, <1>3, <1>4 DEF At

LEMMA PassingMoves ==
    ASSUME NEW L, LinesOf(L), NEW M, NEW a \in Spots, NEW b \in Spots, a # b, L[a] # <<>>,
           Passes(L, M, a, b)
    PROVE  \A n \in Spots, i \in Nat, u \in Tasks : At(M, n, i, u) =>
            \/ n # a /\ At(L, n, i, u)
            \/ n = a /\ i # 0 /\ At(L, a, i + 1, u)
            \/ n = b /\ At(L, a, 1, u) /\ i = Len(L[b]) + 1
<1>1. /\ Len(L[a]) \in Nat \ {0} /\ Len(L[b]) \in Nat
      /\ \A n \in Spots \ {a, b} : M[n] = L[n]
      /\ Len(M[a]) = Len(L[a]) - 1 /\ \A i \in 1..Len(M[a]) : M[a][i] = L[a][i + 1]
      /\ Len(M[b]) = Len(L[b]) + 1 /\ M[b][Len(L[b]) + 1] = L[a][1]
      /\ \A i \in 1..Len(L[b]) : M[b][i] = L[b][i]
  BY AfterPassing, SMTT(30)
<1>2. QED
  BY <1>1, SMTT(30) DEF At

LEMMA PouringMoves ==
    ASSUME NEW L, LinesOf(L), NEW M, NEW a \in Spots, NEW b \in Spots, a # b, Pours(L, M, a, b)
    PROVE  /\ LinesOf(M)
           /\ \A n \in Spots, i \in Nat, u \in Tasks : At(M, n, i, u) =>
                n # a /\ IF n = b THEN At(L, a, i, u) ELSE At(L, n, i, u)
<1>0. L[a] \in Seq(Tasks) /\ <<>> \in Seq(Tasks) /\ Len(<<>>) = 0
  BY DEF LinesOf
<1>1. /\ LinesOf(M) /\ M[a] = <<>> /\ M[b] = L[a]
      /\ \A n \in Spots \ {a, b} : M[n] = L[n]
  BY <1>0 DEF LinesOf, Pours
<1>2. QED
  BY <1>0, <1>1 DEF At

LEMMA ClearingMoves ==
    ASSUME NEW L, LinesOf(L), NEW M, NEW a \in Spots, Clears(L, M, a)
    PROVE  /\ LinesOf(M)
           /\ \A n \in Spots, i \in Nat, u \in Tasks : At(M, n, i, u) => n # a /\ At(L, n, i, u)
  BY DEF LinesOf, Clears, At

LEMMA JoiningKeepsApart ==
    ASSUME NEW L, LinesOf(L), NEW M, NEW a \in Spots, NEW t \in Tasks, Joins(L, M, a, t),
           NEW out, Apart(L, out), t \notin out,
           \A n \in Spots, i \in Nat : ~At(L, n, i, t)
    PROVE  Apart(M, out)
<1>1. \A n \in Spots, i \in Nat, u \in Tasks : At(M, n, i, u) =>
        At(L, n, i, u) \/ (n = a /\ u = t /\ i = Len(L[a]) + 1)
  BY JoiningMoves
<1>2. QED
  BY <1>1 DEF Apart

LEMMA PassingKeepsApart ==
    ASSUME NEW L, LinesOf(L), NEW M, NEW a \in Spots, NEW b \in Spots, a # b, L[a] # <<>>,
           Passes(L, M, a, b), NEW out, Apart(L, out)
    PROVE  Apart(M, out)
<1>1. \A n \in Spots, i \in Nat, u \in Tasks : At(M, n, i, u) =>
        \/ n # a /\ At(L, n, i, u)
        \/ n = a /\ i # 0 /\ At(L, a, i + 1, u)
        \/ n = b /\ At(L, a, 1, u) /\ i = Len(L[b]) + 1
  BY PassingMoves
<1>2. QED
  BY <1>1 DEF Apart

LEMMA PouringKeepsApart ==
    ASSUME NEW L, LinesOf(L), NEW M, NEW a \in Spots, NEW b \in Spots, a # b,
           Pours(L, M, a, b), NEW out, Apart(L, out)
    PROVE  Apart(M, out)
  BY PouringMoves DEF Apart

LEMMA ClearingKeepsApart ==
    ASSUME NEW L, LinesOf(L), NEW M, NEW a \in Spots, Clears(L, M, a), NEW out, Apart(L, out)
    PROVE  Apart(M, out \cup ToSet(L[a]))
<1>1. \A t \in ToSet(L[a]) : \E i \in Nat : At(L, a, i, t)
  BY DEF ToSet, LinesOf, At
<1>2. QED
  BY <1>1, ClearingMoves DEF Apart

\* The youngest task of its caller joins a line, behind all of its class.
LEMMA JoiningKeepsOrder ==
    ASSUME NEW L, LinesOf(L), NEW M, NEW a \in Spots, NEW t \in Tasks, Joins(L, M, a, t),
           NEW live \in SUBSET Spots, NEW class, Ordered(L, live, class),
           \A n \in Spots, i \in Nat, u \in Tasks : At(L, n, i, u) /\ u[1] = t[1] => u[2] < t[2],
           \A n \in live, i \in Nat, u \in Tasks :
                At(L, n, i, u) /\ n > a => u \in class /\ t \notin class
    PROVE  Ordered(M, live, class)
<1> SUFFICES ASSUME NEW u \in Tasks, NEW v \in Tasks, NEW m \in live, NEW n \in live,
                    NEW i \in Nat, NEW j \in Nat, At(M, m, i, u), At(M, n, j, v),
                    m < n \/ (m = n /\ i < j), u[1] = v[1], u \in class <=> v \in class
             PROVE  u[2] < v[2]
  BY DEF Ordered
<1>0. m \in Spots /\ n \in Spots /\ m \in Int /\ n \in Int /\ a \in Int
  BY LoopAssumption DEF Spots
<1>1. At(L, m, i, u) \/ (m = a /\ u = t /\ i = Len(L[a]) + 1)
  BY <1>0, JoiningMoves
<1>2. At(L, n, j, v) \/ (n = a /\ v = t /\ j = Len(L[a]) + 1)
  BY <1>0, JoiningMoves
<1>3. Len(L[a]) \in Nat /\ \A w : \A k \in Nat : At(L, a, k, w) => k <= Len(L[a])
  BY DEF LinesOf, At
<1>4. CASE At(L, m, i, u) /\ At(L, n, j, v)
  BY <1>4 DEF Ordered
<1>5. CASE At(L, m, i, u) /\ v = t
  BY <1>0, <1>5
<1>6. CASE m = a /\ u = t /\ i = Len(L[a]) + 1 /\ At(L, n, j, v)
  BY <1>0, <1>3, <1>6
<1>7. QED
  BY <1>0, <1>1, <1>2, <1>3, <1>4, <1>5, <1>6

\* The first of a line goes to the end of one ahead, with nobody live in between.
LEMMA PassingKeepsOrder ==
    ASSUME NEW L, LinesOf(L), NEW M, NEW a \in Spots, NEW b \in Spots, b < a, L[a] # <<>>,
           Passes(L, M, a, b), NEW live \in SUBSET Spots, a \in live, NEW class,
           Ordered(L, live, class),
           \A n \in live, i \in Nat, u \in Tasks : b < n /\ n < a => ~At(L, n, i, u)
    PROVE  Ordered(M, live, class)
<1> SUFFICES ASSUME NEW u \in Tasks, NEW v \in Tasks, NEW m \in live, NEW n \in live,
                    NEW i \in Nat, NEW j \in Nat, At(M, m, i, u), At(M, n, j, v),
                    m < n \/ (m = n /\ i < j), u[1] = v[1], u \in class <=> v \in class
             PROVE  u[2] < v[2]
  BY DEF Ordered
<1>0. m \in Spots /\ n \in Spots /\ m \in Int /\ n \in Int /\ a \in Int /\ b \in Int
  BY LoopAssumption DEF Spots
<1>1. \/ m # a /\ At(L, m, i, u)
      \/ m = a /\ i # 0 /\ At(L, a, i + 1, u)
      \/ m = b /\ At(L, a, 1, u) /\ i = Len(L[b]) + 1
  BY <1>0, PassingMoves
<1>2. \/ n # a /\ At(L, n, j, v)
      \/ n = a /\ j # 0 /\ At(L, a, j + 1, v)
      \/ n = b /\ At(L, a, 1, v) /\ j = Len(L[b]) + 1
  BY <1>0, PassingMoves
<1>3. Len(L[b]) \in Nat /\ \A w : \A k \in Nat : At(L, b, k, w) => k <= Len(L[b])
  BY DEF LinesOf, At
<1>4. ASSUME NEW k \in live, NEW l \in live, NEW x \in Nat, NEW y \in Nat,
             At(L, k, x, u), At(L, l, y, v), k < l \/ (k = l /\ x < y)
      PROVE  u[2] < v[2]
  BY <1>4 DEF Ordered
<1>5. CASE m # a /\ At(L, m, i, u)
  <2>1. CASE n # a /\ At(L, n, j, v)
    BY <1>4, <1>5, <2>1
  <2>2. CASE n = a /\ At(L, a, j + 1, v)
    BY <1>0, <1>4, <1>5, <2>2
  <2>3. CASE n = b /\ At(L, a, 1, v)
    BY <1>0, <1>4, <1>5, <2>3
  <2>4. QED
    BY <1>2, <2>1, <2>2, <2>3
<1>6. CASE m = a /\ i # 0 /\ At(L, a, i + 1, u)
  <2>1. CASE n # a /\ At(L, n, j, v)
    BY <1>0, <1>4, <1>6, <2>1
  <2>2. CASE n = a /\ At(L, a, j + 1, v)
    BY <1>0, <1>4, <1>6, <2>2
  <2>3. QED
    BY <1>0, <1>2, <1>6, <2>1, <2>2
<1>7. CASE m = b /\ At(L, a, 1, u) /\ i = Len(L[b]) + 1
  <2>1. CASE n # a /\ At(L, n, j, v)
    <3>1. n > b
      BY <1>0, <1>3, <1>7, <2>1
    <3>2. n > a
      BY <1>0, <2>1, <3>1
    <3>3. QED
      BY <1>0, <1>4, <1>7, <2>1, <3>2
  <2>2. CASE n = a /\ j # 0 /\ At(L, a, j + 1, v)
    BY <1>0, <1>4, <1>7, <2>2
  <2>3. QED
    BY <1>0, <1>2, <1>7, <2>1, <2>2
<1>8. QED
  BY <1>1, <1>5, <1>6, <1>7

LEMMA PouringKeepsOrder ==
    ASSUME NEW L, LinesOf(L), NEW M, NEW a \in Spots, NEW b \in Spots, b < a,
           Pours(L, M, a, b), NEW live \in SUBSET Spots, a \in live, NEW class,
           Ordered(L, live, class),
           \A n \in live, i \in Nat, u \in Tasks : b < n /\ n < a => ~At(L, n, i, u)
    PROVE  Ordered(M, live, class)
<1> SUFFICES ASSUME NEW u \in Tasks, NEW v \in Tasks, NEW m \in live, NEW n \in live,
                    NEW i \in Nat, NEW j \in Nat, At(M, m, i, u), At(M, n, j, v),
                    m < n \/ (m = n /\ i < j), u[1] = v[1], u \in class <=> v \in class
             PROVE  u[2] < v[2]
  BY DEF Ordered
<1>0. m \in Spots /\ n \in Spots /\ m \in Int /\ n \in Int /\ a \in Int /\ b \in Int
  BY LoopAssumption DEF Spots
<1>1. m # a /\ IF m = b THEN At(L, a, i, u) ELSE At(L, m, i, u)
  BY <1>0, PouringMoves
<1>2. n # a /\ IF n = b THEN At(L, a, j, v) ELSE At(L, n, j, v)
  BY <1>0, PouringMoves
<1>3. QED
  BY <1>0, <1>1, <1>2 DEF Ordered

LEMMA ClearingKeepsOrder ==
    ASSUME NEW L, LinesOf(L), NEW M, NEW a \in Spots, Clears(L, M, a),
           NEW live \in SUBSET Spots, NEW class, Ordered(L, live, class)
    PROVE  Ordered(M, live, class)
  BY ClearingMoves DEF Ordered

-----------------------------------------------------------------------------
(* The inductive invariant.                                                *)

\* Where the body of the thread is tells what there is.
Phases ==
    /\ dispatcher = IF loop \in {"off", "announced", "created"} THEN 0 ELSE run
    /\ loop = "announced" => run < MaxRuns
    /\ loop \notin {"off", "announced"} => run \in Runs
    /\ handing # <<>> => loop = "handing over"
    /\ batch # <<>> => loop = "dispatch"

\* A dispatcher is used by those that fetched it; one that was never installed, or was not
\* closed after it was, is not theirs.
Dispatchers ==
    /\ \A c \in Callers : call[c].target # 0 <=> call[c].at \in {"post", "interrupt"}
    /\ \A g \in Runs : accepting[g] /\ dispatcher # g =>
        queue[g] = <<>> /\ \A c \in Callers : call[c].target # g
    /\ \A g \in Runs : g > run => accepting[g]
    /\ loop = "letting go" => ~accepting[run]

\* A call has a number.
Called == \A c \in Callers : call[c].at # "idle" => calls[c] # 0

Control == TypeOK /\ Phases /\ Dispatchers /\ Called

\* Numbers are given in order; that of a call that is still looking for a place is used nowhere.
Given(t) ==
    /\ t[2] <= calls[t[1]]
    /\ call[t[1]].at \in {"route", "post"} => t[2] < calls[t[1]]

Numbers ==
    /\ \A t \in Tasks, n \in Spots, i \in Nat : At(Lines, n, i, t) => Given(t)
    /\ \A t \in waited \cup refused \cup discarded : Given(t)

\* Only parked tasks are handed over.
LotIsWaited ==
    \A t \in Tasks, n \in {MaxRuns + 1, MaxRuns + 2}, i \in Nat :
        At(Lines, n, i, t) => t \in waited

\* The lines from which tasks can still run, or have run.
Live == Spots \ (1 .. run - 1)

InLines ==
    /\ Apart(Lines, refused \cup discarded)
    /\ refused \cap discarded = {}
    /\ Numbers
    /\ LotIsWaited
    /\ Ordered(Lines, Live, waited)

LoopInv == Control /\ InLines

-----------------------------------------------------------------------------
(* The lines of a state.                                                   *)

\* Every line is where Lines says it is.
LEMMA LinesHold ==
    ASSUME TypeOK
    PROVE  /\ LinesOf(Lines)
           /\ Lines[-1] = ran /\ Lines[0] = batch
           /\ \A g \in Runs : g \in Spots /\ Lines[g] = queue[g]
           /\ Lines[MaxRuns + 1] = handing /\ Lines[MaxRuns + 2] = parked
           /\ {-1, 0, MaxRuns + 1, MaxRuns + 2} \subseteq Spots
           /\ Runs \subseteq Spots
<1>1. MaxRuns \in Nat
  BY LoopAssumption
<1>2. \A n \in Spots : n \in {-1, 0, MaxRuns + 1, MaxRuns + 2} \cup Runs
  BY <1>1 DEF Spots, Runs
<1>3. Lines = [n \in Spots |->
                CASE n = -1 -> ran
                  [] n = 0 -> batch
                  [] n \in Runs -> queue[n]
                  [] n = MaxRuns + 1 -> handing
                  [] n = MaxRuns + 2 -> parked]
  BY DEF Lines, Spots
<1>4. /\ {-1, 0, MaxRuns + 1, MaxRuns + 2} \subseteq Spots /\ Runs \subseteq Spots
      /\ \A g \in Runs : g # -1 /\ g # 0 /\ g # MaxRuns + 1 /\ g # MaxRuns + 2
      /\ MaxRuns + 1 # MaxRuns + 2 /\ MaxRuns + 1 # 0 /\ MaxRuns + 1 # -1
      /\ MaxRuns + 2 # 0 /\ MaxRuns + 2 # -1
      /\ MaxRuns + 1 \notin Runs /\ MaxRuns + 2 \notin Runs /\ 0 \notin Runs /\ -1 \notin Runs
  BY <1>1 DEF Spots, Runs
<1>5. /\ Lines[-1] = ran /\ Lines[0] = batch
      /\ \A g \in Runs : g \in Spots /\ Lines[g] = queue[g]
      /\ Lines[MaxRuns + 1] = handing /\ Lines[MaxRuns + 2] = parked
  BY <1>3, <1>4
<1>6. \A n \in Spots : Lines[n] \in Seq(Tasks)
  BY <1>2, <1>5 DEF TypeOK
<1>7. QED
  BY <1>3, <1>4, <1>5, <1>6 DEF LinesOf

\* Two line-ups are the same if their lines are.
LEMMA SameLines ==
    ASSUME NEW L, NEW M, LinesOf(L), LinesOf(M),
           L[-1] = M[-1], L[0] = M[0], \A g \in Runs : L[g] = M[g],
           L[MaxRuns + 1] = M[MaxRuns + 1], L[MaxRuns + 2] = M[MaxRuns + 2]
    PROVE  L = M
<1>1. \A n \in Spots : n \in {-1, 0, MaxRuns + 1, MaxRuns + 2} \cup Runs
  BY LoopAssumption DEF Spots, Runs
<1>2. \A n \in Spots : L[n] = M[n]
  BY <1>1
<1>3. QED
  BY <1>2 DEF LinesOf

-----------------------------------------------------------------------------
(* What each step does to the lines.                                       *)

\* No task moves; the tasks queued for g are freed, or nothing is.
Still == UNCHANGED <<parked, handing, batch, queue, ran, refused, discarded, waited>>
Frees(g) ==
    \/ UNCHANGED <<queue, discarded>>
    \/ discarded' = discarded \cup ToSet(queue[g]) /\ queue' = [queue EXCEPT ![g] = <<>>]

LEMMA StillSteps ==
    ASSUME \/ Start \/ Launch \/ CheckExit \/ ReportEnd \/ CloseQueue
           \/ \E c \in Callers :
                \/ \E op \in {"post", "invoke"} : Post(c, op)
                \/ Exit(c) \/ Settled(c) \/ FetchDispatcher(c)
    PROVE  Still
<1>1. CASE Start
  BY <1>1 DEF Start, Still, dispatchers, outcome
<1>2. CASE Launch
  BY <1>2 DEF Launch, Still, dispatchers, outcome
<1>3. CASE CheckExit
  BY <1>3 DEF CheckExit, Still, data, dispatchers, outcome
<1>4. CASE ReportEnd
  BY <1>4 DEF ReportEnd, Still, dispatchers, outcome
<1>5. CASE CloseQueue
  BY <1>5 DEF CloseQueue, Still, data, outcome
<1>6. ASSUME NEW c \in Callers, NEW op \in {"post", "invoke"}, Post(c, op)
      PROVE  Still
  BY <1>6 DEF Post, Still, data, body, dispatchers, outcome
<1>7. ASSUME NEW c \in Callers, Exit(c)
      PROVE  Still
  BY <1>7 DEF Exit, Still, body, dispatchers, outcome
<1>8. ASSUME NEW c \in Callers, Settled(c)
      PROVE  Still
  BY <1>8 DEF Settled, Still, data, body, dispatchers, outcome
<1>9. ASSUME NEW c \in Callers, FetchDispatcher(c)
      PROVE  Still
  BY <1>9 DEF FetchDispatcher, Still, data, body, dispatchers, outcome
<1>10. QED
  BY <1>1, <1>2, <1>3, <1>4, <1>5, <1>6, <1>7, <1>8, <1>9

LEMMA InstallMoves ==
    ASSUME Install
    PROVE  /\ UNCHANGED <<batch, queue, ran, refused, discarded, waited>>
           /\ handing' = parked /\ parked' = <<>>
  BY DEF Install, dispatchers, outcome

LEMMA HandOverMoves ==
    ASSUME HandOver
    PROVE  /\ UNCHANGED <<parked, batch, ran, refused, discarded, waited>>
           /\ \/ UNCHANGED <<handing, queue>>
              \/ /\ handing # <<>> /\ handing' = Tail(handing)
                 /\ queue' = [queue EXCEPT ![run] = Append(@, Head(handing))]
  BY DEF HandOver, data, outcome

LEMMA TakingMoves ==
    ASSUME Pass \/ WakeUp
    PROVE  /\ UNCHANGED <<parked, handing, ran, refused, discarded, waited>>
           /\ \/ UNCHANGED <<batch, queue>>
              \/ batch' = queue[run] /\ queue' = [queue EXCEPT ![run] = <<>>]
  BY DEF Pass, WakeUp, TakeOrLeave, data, outcome

LEMMA DispatchMoves ==
    ASSUME Dispatch
    PROVE  /\ UNCHANGED <<parked, handing, queue, refused, discarded, waited>>
           /\ \/ UNCHANGED <<batch, ran>>
              \/ batch # <<>> /\ batch' = Tail(batch) /\ ran' = Append(ran, Head(batch))
  BY DEF Dispatch, data, dispatchers

LEMMA LetGoMoves ==
    ASSUME LetGo
    PROVE  UNCHANGED <<parked, handing, batch, ran, refused, waited>> /\ Frees(run)
  BY DEF LetGo, Frees

LEMMA RouteMoves ==
    ASSUME NEW c \in Callers, Route(c)
    PROVE  /\ UNCHANGED <<handing, batch, queue, ran, discarded>>
           /\ \/ UNCHANGED <<parked, refused, waited>>
              \/ /\ parked' = Append(parked, Task(c)) /\ waited' = waited \cup {Task(c)}
                 /\ UNCHANGED refused
              \/ refused' = refused \cup {Task(c)} /\ UNCHANGED <<parked, waited>>
  BY DEF Route, ToDispatcher, Park, Refuse, body, dispatchers

LEMMA PostToMoves ==
    ASSUME NEW c \in Callers, PostTo(c)
    PROVE  /\ UNCHANGED <<parked, handing, batch, ran, waited>>
           /\ IF accepting[call[c].target]
              THEN /\ queue' = [queue EXCEPT ![call[c].target] = Append(@, Task(c))]
                   /\ UNCHANGED <<refused, discarded>>
              ELSE refused' = refused \cup {Task(c)} /\ Frees(call[c].target)
  BY DEF PostTo, Refuse, DropReference, Frees, data, body

LEMMA InterruptMoves ==
    ASSUME NEW c \in Callers, Interrupt(c)
    PROVE  /\ UNCHANGED <<parked, handing, batch, ran, refused, waited>>
           /\ Frees(call[c].target)
  BY DEF Interrupt, DropReference, Frees, data, body

-----------------------------------------------------------------------------
(* The lines hold tasks.                                                   *)

LinesTyped ==
    /\ parked \in Seq(Tasks) /\ handing \in Seq(Tasks) /\ batch \in Seq(Tasks)
    /\ ran \in Seq(Tasks) /\ queue \in [Runs -> Seq(Tasks)]
    /\ refused \subseteq Tasks /\ discarded \subseteq Tasks /\ waited \subseteq Tasks

LEMMA SequencesOfTasks ==
    /\ <<>> \in Seq(Tasks)
    /\ \A s \in Seq(Tasks) : s # <<>> => Head(s) \in Tasks /\ Tail(s) \in Seq(Tasks)
    /\ \A s \in Seq(Tasks), t \in Tasks : Append(s, t) \in Seq(Tasks)
    /\ \A s \in Seq(Tasks) : ToSet(s) \subseteq Tasks
  BY DEF ToSet

\* A call in progress has brought a task.
LEMMA TaskIsOne ==
    ASSUME Control, NEW c \in Callers, call[c].at # "idle"
    PROVE  Task(c) \in Tasks /\ calls[c] \in Nat \ {0}
<1>1. calls[c] \in 0 .. MaxCalls /\ calls[c] # 0 /\ MaxCalls \in Nat
  BY LoopAssumption DEF Control, TypeOK, Called
<1>2. QED
  BY <1>1 DEF Task, Tasks

LEMMA StillTyped ==
    ASSUME Control, Still
    PROVE  LinesTyped'
  BY DEF Control, TypeOK, LinesTyped, Still

LEMMA FreedTyped ==
    ASSUME Control, NEW g \in Runs, Frees(g)
    PROVE  queue' \in [Runs -> Seq(Tasks)] /\ discarded' \subseteq Tasks
<1>1. queue \in [Runs -> Seq(Tasks)] /\ discarded \subseteq Tasks
  BY DEF Control, TypeOK
<1>2. queue[g] \in Seq(Tasks)
  BY <1>1
<1>3. ToSet(queue[g]) \subseteq Tasks
  BY <1>2, SequencesOfTasks
<1>4. QED
  BY <1>1, <1>3, SequencesOfTasks DEF Frees

LEMMA InstallTyped ==
    ASSUME Control, Install
    PROVE  LinesTyped'
  BY InstallMoves, SequencesOfTasks DEF Control, TypeOK, LinesTyped

LEMMA HandOverTyped ==
    ASSUME Control, HandOver
    PROVE  LinesTyped'
<1>1. LinesTyped /\ run \in Runs
  BY DEF Control, TypeOK, Phases, LinesTyped, HandOver
<1>2. UNCHANGED <<parked, batch, ran, refused, discarded, waited>>
  BY HandOverMoves
<1>3. CASE UNCHANGED <<handing, queue>>
  BY <1>1, <1>2, <1>3 DEF LinesTyped
<1>4. CASE /\ handing # <<>> /\ handing' = Tail(handing)
           /\ queue' = [queue EXCEPT ![run] = Append(@, Head(handing))]
  <2>1. Head(handing) \in Tasks /\ Tail(handing) \in Seq(Tasks) /\ queue[run] \in Seq(Tasks)
    BY <1>1, <1>4, SequencesOfTasks DEF LinesTyped
  <2>2. Append(queue[run], Head(handing)) \in Seq(Tasks)
    BY <2>1, SequencesOfTasks
  <2>3. QED
    BY <1>1, <1>2, <1>4, <2>1, <2>2 DEF LinesTyped
<1>5. QED
  BY <1>3, <1>4, HandOverMoves

LEMMA TakingTyped ==
    ASSUME Control, Pass \/ WakeUp
    PROVE  LinesTyped'
<1>1. LinesTyped /\ run \in Runs
  BY DEF Control, TypeOK, Phases, LinesTyped, Pass, WakeUp
<1>2. QED
  BY <1>1, TakingMoves, SequencesOfTasks DEF LinesTyped

LEMMA DispatchTyped ==
    ASSUME Control, Dispatch
    PROVE  LinesTyped'
<1>1. LinesTyped
  BY DEF Control, TypeOK, LinesTyped
<1>2. batch # <<>> => Head(batch) \in Tasks /\ Tail(batch) \in Seq(Tasks)
  BY <1>1, SequencesOfTasks DEF LinesTyped
<1>3. batch # <<>> => Append(ran, Head(batch)) \in Seq(Tasks)
  BY <1>1, <1>2, SequencesOfTasks DEF LinesTyped
<1>4. QED
  BY <1>1, <1>2, <1>3, DispatchMoves DEF LinesTyped

LEMMA LetGoTyped ==
    ASSUME Control, LetGo
    PROVE  LinesTyped'
<1>1. LinesTyped /\ run \in Runs
  BY DEF Control, TypeOK, Phases, LinesTyped, LetGo
<1>2. QED
  BY <1>1, LetGoMoves, FreedTyped DEF LinesTyped

LEMMA RouteTyped ==
    ASSUME Control, NEW c \in Callers, Route(c)
    PROVE  LinesTyped'
<1>1. LinesTyped
  BY DEF Control, TypeOK, LinesTyped
<1>2. Task(c) \in Tasks
  BY TaskIsOne DEF Route
<1>3. Append(parked, Task(c)) \in Seq(Tasks)
  BY <1>1, <1>2, SequencesOfTasks DEF LinesTyped
<1>4. QED
  BY <1>1, <1>2, <1>3, RouteMoves DEF LinesTyped

LEMMA PostToTyped ==
    ASSUME Control, NEW c \in Callers, PostTo(c)
    PROVE  LinesTyped'
<1>1. LinesTyped
  BY DEF Control, TypeOK, LinesTyped
<1>2. Task(c) \in Tasks
  BY TaskIsOne DEF PostTo
<1>3. call[c].target \in Runs
  BY LoopAssumption DEF Control, TypeOK, PostTo, Runs
<1>4. Append(queue[call[c].target], Task(c)) \in Seq(Tasks)
  BY <1>1, <1>2, <1>3, SequencesOfTasks DEF LinesTyped
<1>5. Frees(call[c].target) => queue' \in [Runs -> Seq(Tasks)] /\ discarded' \subseteq Tasks
  BY <1>3, FreedTyped
<1>6. QED
  BY <1>1, <1>2, <1>3, <1>4, <1>5, PostToMoves DEF LinesTyped

LEMMA InterruptTyped ==
    ASSUME Control, NEW c \in Callers, Interrupt(c)
    PROVE  LinesTyped'
<1>1. LinesTyped
  BY DEF Control, TypeOK, LinesTyped
<1>2. call[c].target \in Runs
  BY LoopAssumption DEF Control, TypeOK, Interrupt, Runs
<1>3. QED
  BY <1>1, <1>2, InterruptMoves, FreedTyped DEF LinesTyped

-----------------------------------------------------------------------------
(* Control.                                                                *)

\* What a caller is doing, in a state.
Calls == [op : Op, at : Step, ready : BOOLEAN, target : 0 .. run]

\* A caller whose event is accepted waits, or is done.
LEMMA AcceptedIsCall ==
    ASSUME NEW c \in Callers, call[c] \in Calls, run \in Nat
    PROVE  /\ Accepted(c) \in Calls /\ Accepted(c).target = 0
           /\ Accepted(c).at \in {"idle", "await"}
<1>1. Idle \in Calls /\ Idle.target = 0 /\ Idle.at = "idle"
  BY DEF Calls, Op, Step, Idle
<1>2. CASE call[c].op = "invoke"
  <2> DEFINE r == [call[c] EXCEPT !.at = "await"]
  <2>1. r \in Calls /\ r.at = "await"
    BY DEF Calls, Step
  <2> HIDE DEF r
  <2>2. [r EXCEPT !.target = 0] \in Calls /\ [r EXCEPT !.target = 0].at = "await"
        /\ [r EXCEPT !.target = 0].target = 0
    BY <2>1 DEF Calls
  <2>3. QED
    BY <1>2, <2>2 DEF Accepted, r
<1>3. QED
  BY <1>1, <1>2 DEF Accepted

\* A step of a caller that goes to r leaves the control as it should be.
LEMMA CallerSteps ==
    ASSUME Control, NEW c \in Callers, NEW r \in Calls,
           call' = [call EXCEPT ![c] = r],
           UNCHANGED <<loop, run, dispatcher, handing, batch, accepting>>,
           r.target # 0 <=> r.at \in {"post", "interrupt"},
           r.target \in {0, dispatcher, call[c].target},
           calls' \in [Callers -> 0 .. MaxCalls],
           r.at # "idle" => calls'[c] # 0,
           \A d \in Callers \ {c} : calls'[d] = calls[d],
           \A g \in Runs : accepting[g] /\ dispatcher # g => queue'[g] = queue[g]
    PROVE  call' \in [Callers -> Calls'] /\ Phases' /\ Dispatchers' /\ Called'
<1>1. call \in [Callers -> Calls] /\ Calls' = Calls
  BY DEF Control, TypeOK, Calls
<1>2. call'[c] = r /\ \A d \in Callers \ {c} : call'[d] = call[d]
  BY <1>1
<1>3. call' \in [Callers -> Calls']
  BY <1>1
<1>4. Phases'
  BY DEF Control, Phases
<1>5. Dispatchers'
  <2>1. \A d \in Callers : call'[d].target # 0 <=> call'[d].at \in {"post", "interrupt"}
    BY <1>2 DEF Control, Dispatchers
  <2>2. ASSUME NEW g \in Runs, accepting'[g], dispatcher' # g
        PROVE  queue'[g] = <<>> /\ \A d \in Callers : call'[d].target # g
    <3>1. queue[g] = <<>> /\ (\A d \in Callers : call[d].target # g)
      BY <2>2 DEF Control, Dispatchers
    <3>2. r.target # g
      BY <2>2, <3>1, LoopAssumption DEF Runs
    <3>3. QED
      BY <1>2, <2>2, <3>1, <3>2
  <2>3. QED
    BY <2>1, <2>2 DEF Control, Dispatchers
<1>6. Called'
  BY <1>2 DEF Control, Called
<1>7. QED
  BY <1>3, <1>4, <1>5, <1>6

LEMMA StartControls ==
    ASSUME Control, Start
    PROVE  Control'
<1>1. loop \in Place /\ loop' \in Place
  BY DEF Control, TypeOK, Place, Start, data, body, dispatchers, outcome
<1>2. /\ MaxRuns \in Nat /\ run \in 0 .. MaxRuns
      /\ dispatcher = 0
  BY LoopAssumption DEF Control, TypeOK, Phases, Start
<1>3. dispatcher' = 0 /\ UNCHANGED <<call, calls>>
  BY <1>2 DEF Start, data, body, dispatchers, outcome
<1>4. Phases'
  BY <1>2, <1>3 DEF Control, Phases, Runs, Start, data, body, dispatchers, outcome
<1>5. UNCHANGED run
  BY DEF Start, data, body, dispatchers, outcome
<1>6. call' \in [Callers -> Calls']
  BY <1>3, <1>5 DEF Control, TypeOK, Calls
<1>7. TypeOK'
  <2>1. LinesTyped'
    BY StillSteps, StillTyped
  <2>2. /\ running' \in BOOLEAN /\ exiting' \in BOOLEAN
        /\ accepting' \in [Runs -> BOOLEAN] /\ interrupt' \in [Runs -> BOOLEAN]
    BY <1>2 DEF Control, TypeOK, Start, data, body, dispatchers, outcome
  <2>3. \A c \in Callers : call[c].at \in {"post", "interrupt"} => call[c].target # 0
    BY DEF Control, TypeOK
  <2>4. calls \in [Callers -> 0 .. MaxCalls]
    BY DEF Control, TypeOK
  <2>5. QED
    BY <1>1, <1>2, <1>3, <1>5, <1>6, <2>1, <2>2, <2>3, <2>4 DEF TypeOK, LinesTyped, Calls
<1>8. Dispatchers'
  <2>1. ASSUME NEW g \in Runs, accepting'[g], dispatcher' # g
        PROVE  queue'[g] = <<>> /\ \A d \in Callers : call[d].target # g
    BY <1>2, <1>3, <2>1 DEF Control, TypeOK, Dispatchers, Start, data, body, dispatchers, outcome
  <2>2. \A g \in Runs : g > run' => accepting'[g]
    BY <1>2, <1>5 DEF Control, TypeOK, Dispatchers, Runs, Start, data, body, dispatchers, outcome
  <2>3. loop' = "letting go" => ~accepting'[run']
    BY <1>2 DEF Control, TypeOK, Dispatchers, Start, data, body, dispatchers, outcome
  <2>4. QED
    BY <1>3, <2>1, <2>2, <2>3 DEF Control, Dispatchers
<1>9. Called'
  BY <1>3 DEF Control, Called
<1>10. QED
  BY <1>4, <1>7, <1>8, <1>9 DEF Control

LEMMA LaunchControls ==
    ASSUME Control, Launch
    PROVE  Control'
<1>1. loop \in Place /\ loop' \in Place
  BY DEF Control, TypeOK, Place, Launch, data, body, dispatchers, outcome
<1>2. /\ MaxRuns \in Nat /\ run \in 0 .. MaxRuns
      /\ dispatcher = 0
  BY LoopAssumption DEF Control, TypeOK, Phases, Launch
<1>3. dispatcher' = 0 /\ UNCHANGED <<call, calls>>
  BY <1>2 DEF Launch, data, body, dispatchers, outcome
<1>4. Phases'
  <2>1. loop' \in {"created", "off"} /\ run' = run + 1 /\ run < MaxRuns
    BY DEF Control, Phases, Launch
  <2>2. UNCHANGED <<handing, batch>> /\ handing = <<>> /\ batch = <<>>
    BY DEF Control, Phases, Launch
  <2>3. QED
    BY <1>2, <1>3, <2>1, <2>2 DEF Phases, Runs
<1>5. run' \in 0 .. MaxRuns /\ run' > run
  BY <1>2 DEF Control, Phases, Launch
<1>6. call' \in [Callers -> Calls']
  BY <1>2, <1>3, <1>5 DEF Control, TypeOK, Calls
<1>7. TypeOK'
  <2>1. LinesTyped'
    BY StillSteps, StillTyped
  <2>2. /\ running' \in BOOLEAN /\ exiting' \in BOOLEAN
        /\ accepting' \in [Runs -> BOOLEAN] /\ interrupt' \in [Runs -> BOOLEAN]
    BY <1>2 DEF Control, TypeOK, Launch, data, body, dispatchers, outcome
  <2>3. \A c \in Callers : call[c].at \in {"post", "interrupt"} => call[c].target # 0
    BY DEF Control, TypeOK
  <2>4. calls \in [Callers -> 0 .. MaxCalls]
    BY DEF Control, TypeOK
  <2>5. QED
    BY <1>1, <1>2, <1>3, <1>5, <1>6, <2>1, <2>2, <2>3, <2>4 DEF TypeOK, LinesTyped, Calls
<1>8. Dispatchers'
  <2>1. ASSUME NEW g \in Runs, accepting'[g], dispatcher' # g
        PROVE  queue'[g] = <<>> /\ \A d \in Callers : call[d].target # g
    BY <1>2, <1>3, <2>1 DEF Control, TypeOK, Dispatchers, Launch, data, body, dispatchers, outcome
  <2>2. \A g \in Runs : g > run' => accepting'[g]
    BY <1>2, <1>5 DEF Control, TypeOK, Dispatchers, Runs, Launch, data, body, dispatchers, outcome
  <2>3. loop' = "letting go" => ~accepting'[run']
    BY <1>2 DEF Control, TypeOK, Dispatchers, Launch, data, body, dispatchers, outcome
  <2>4. QED
    BY <1>3, <2>1, <2>2, <2>3 DEF Control, Dispatchers
<1>9. Called'
  BY <1>3 DEF Control, Called
<1>10. QED
  BY <1>4, <1>7, <1>8, <1>9 DEF Control

LEMMA InstallControls ==
    ASSUME Control, Install
    PROVE  Control'
<1>1. loop \in Place /\ loop' \in Place
  BY DEF Control, TypeOK, Place, Install, data, body, dispatchers, outcome
<1>2. /\ MaxRuns \in Nat /\ run \in 0 .. MaxRuns /\ run \in Runs
      /\ dispatcher = 0
  BY LoopAssumption DEF Control, TypeOK, Phases, Install
<1>3. dispatcher' = run /\ UNCHANGED <<call, calls>>
  BY <1>2 DEF Install, data, body, dispatchers, outcome
<1>4. Phases'
  BY <1>2, <1>3 DEF Control, Phases, Runs, Install, data, body, dispatchers, outcome
<1>5. UNCHANGED run
  BY DEF Install, data, body, dispatchers, outcome
<1>6. call' \in [Callers -> Calls']
  BY <1>3, <1>5 DEF Control, TypeOK, Calls
<1>7. TypeOK'
  <2>1. LinesTyped'
    BY InstallTyped
  <2>2. /\ running' \in BOOLEAN /\ exiting' \in BOOLEAN
        /\ accepting' \in [Runs -> BOOLEAN] /\ interrupt' \in [Runs -> BOOLEAN]
    BY <1>2 DEF Control, TypeOK, Install, data, body, dispatchers, outcome
  <2>3. \A c \in Callers : call[c].at \in {"post", "interrupt"} => call[c].target # 0
    BY DEF Control, TypeOK
  <2>4. calls \in [Callers -> 0 .. MaxCalls]
    BY DEF Control, TypeOK
  <2>5. QED
    BY <1>1, <1>2, <1>3, <1>5, <1>6, <2>1, <2>2, <2>3, <2>4 DEF TypeOK, LinesTyped, Calls
<1>8. Dispatchers'
  <2>1. ASSUME NEW g \in Runs, accepting'[g], dispatcher' # g
        PROVE  queue'[g] = <<>> /\ \A d \in Callers : call[d].target # g
    <3>1. dispatcher # g
      BY <1>2 DEF Runs
    <3>2. UNCHANGED <<accepting, queue>>
      BY DEF Install, dispatchers
    <3>3. QED
      BY <2>1, <3>1, <3>2 DEF Control, Dispatchers
  <2>2. \A g \in Runs : g > run' => accepting'[g]
    BY <1>2, <1>5 DEF Control, TypeOK, Dispatchers, Runs, Install, data, body, dispatchers, outcome
  <2>3. loop' = "letting go" => ~accepting'[run']
    BY <1>2 DEF Control, TypeOK, Dispatchers, Install, data, body, dispatchers, outcome
  <2>4. QED
    BY <1>3, <2>1, <2>2, <2>3 DEF Control, Dispatchers
<1>9. Called'
  BY <1>3 DEF Control, Called
<1>10. QED
  BY <1>4, <1>7, <1>8, <1>9 DEF Control

LEMMA HandOverControls ==
    ASSUME Control, HandOver
    PROVE  Control'
<1>1. loop \in Place /\ loop' \in Place
  BY DEF Control, TypeOK, Place, HandOver, data, body, dispatchers, outcome
<1>2. /\ MaxRuns \in Nat /\ run \in 0 .. MaxRuns /\ run \in Runs
      /\ dispatcher = run
  BY LoopAssumption DEF Control, TypeOK, Phases, HandOver
<1>3. dispatcher' = run /\ UNCHANGED <<call, calls>>
  BY <1>2 DEF HandOver, data, body, dispatchers, outcome
<1>4. Phases'
  BY <1>2, <1>3 DEF Control, Phases, Runs, HandOver, data, body, dispatchers, outcome
<1>5. UNCHANGED run
  BY DEF HandOver, data, body, dispatchers, outcome
<1>6. call' \in [Callers -> Calls']
  BY <1>3, <1>5 DEF Control, TypeOK, Calls
<1>7. TypeOK'
  <2>1. LinesTyped'
    BY HandOverTyped
  <2>2. /\ running' \in BOOLEAN /\ exiting' \in BOOLEAN
        /\ accepting' \in [Runs -> BOOLEAN] /\ interrupt' \in [Runs -> BOOLEAN]
    BY <1>2 DEF Control, TypeOK, HandOver, data, body, dispatchers, outcome
  <2>3. \A c \in Callers : call[c].at \in {"post", "interrupt"} => call[c].target # 0
    BY DEF Control, TypeOK
  <2>4. calls \in [Callers -> 0 .. MaxCalls]
    BY DEF Control, TypeOK
  <2>5. QED
    BY <1>1, <1>2, <1>3, <1>5, <1>6, <2>1, <2>2, <2>3, <2>4 DEF TypeOK, LinesTyped, Calls
<1>8. Dispatchers'
  <2>1. ASSUME NEW g \in Runs, accepting'[g], dispatcher' # g
        PROVE  queue'[g] = <<>> /\ \A d \in Callers : call[d].target # g
    BY <1>2, <1>3, <2>1 DEF Control, TypeOK, Dispatchers, HandOver, data, body, dispatchers, outcome
  <2>2. \A g \in Runs : g > run' => accepting'[g]
    BY <1>2, <1>5 DEF Control, TypeOK, Dispatchers, Runs, HandOver, data, body, dispatchers, outcome
  <2>3. loop' = "letting go" => ~accepting'[run']
    BY <1>2 DEF Control, TypeOK, Dispatchers, HandOver, data, body, dispatchers, outcome
  <2>4. QED
    BY <1>3, <2>1, <2>2, <2>3 DEF Control, Dispatchers
<1>9. Called'
  BY <1>3 DEF Control, Called
<1>10. QED
  BY <1>4, <1>7, <1>8, <1>9 DEF Control

LEMMA CheckExitControls ==
    ASSUME Control, CheckExit
    PROVE  Control'
<1>1. loop \in Place /\ loop' \in Place
  BY DEF Control, TypeOK, Place, CheckExit, data, body, dispatchers, outcome
<1>2. /\ MaxRuns \in Nat /\ run \in 0 .. MaxRuns /\ run \in Runs
      /\ dispatcher = run
  BY LoopAssumption DEF Control, TypeOK, Phases, CheckExit
<1>3. dispatcher' = run /\ UNCHANGED <<call, calls>>
  BY <1>2 DEF CheckExit, data, body, dispatchers, outcome
<1>4. Phases'
  BY <1>2, <1>3 DEF Control, Phases, Runs, CheckExit, data, body, dispatchers, outcome
<1>5. UNCHANGED run
  BY DEF CheckExit, data, body, dispatchers, outcome
<1>6. call' \in [Callers -> Calls']
  BY <1>3, <1>5 DEF Control, TypeOK, Calls
<1>7. TypeOK'
  <2>1. LinesTyped'
    BY StillSteps, StillTyped
  <2>2. /\ running' \in BOOLEAN /\ exiting' \in BOOLEAN
        /\ accepting' \in [Runs -> BOOLEAN] /\ interrupt' \in [Runs -> BOOLEAN]
    BY <1>2 DEF Control, TypeOK, CheckExit, data, body, dispatchers, outcome
  <2>3. \A c \in Callers : call[c].at \in {"post", "interrupt"} => call[c].target # 0
    BY DEF Control, TypeOK
  <2>4. calls \in [Callers -> 0 .. MaxCalls]
    BY DEF Control, TypeOK
  <2>5. QED
    BY <1>1, <1>2, <1>3, <1>5, <1>6, <2>1, <2>2, <2>3, <2>4 DEF TypeOK, LinesTyped, Calls
<1>8. Dispatchers'
  <2>1. ASSUME NEW g \in Runs, accepting'[g], dispatcher' # g
        PROVE  queue'[g] = <<>> /\ \A d \in Callers : call[d].target # g
    BY <1>2, <1>3, <2>1 DEF Control, TypeOK, Dispatchers, CheckExit, data, body, dispatchers, outcome
  <2>2. \A g \in Runs : g > run' => accepting'[g]
    BY <1>2, <1>5 DEF Control, TypeOK, Dispatchers, Runs, CheckExit, data, body, dispatchers, outcome
  <2>3. loop' = "letting go" => ~accepting'[run']
    BY <1>2 DEF Control, TypeOK, Dispatchers, CheckExit, data, body, dispatchers, outcome
  <2>4. QED
    BY <1>3, <2>1, <2>2, <2>3 DEF Control, Dispatchers
<1>9. Called'
  BY <1>3 DEF Control, Called
<1>10. QED
  BY <1>4, <1>7, <1>8, <1>9 DEF Control

LEMMA PassControls ==
    ASSUME Control, Pass
    PROVE  Control'
<1>1. loop \in Place /\ loop' \in Place
  BY DEF Control, TypeOK, Place, Pass, TakeOrLeave, Wakeable, data, body, dispatchers, outcome
<1>2. /\ MaxRuns \in Nat /\ run \in 0 .. MaxRuns /\ run \in Runs
      /\ dispatcher = run
  BY LoopAssumption DEF Control, TypeOK, Phases, Pass
<1>3. dispatcher' = run /\ UNCHANGED <<call, calls>>
  BY <1>2 DEF Pass, TakeOrLeave, Wakeable, data, body, dispatchers, outcome
<1>4. Phases'
  BY <1>2, <1>3 DEF Control, Phases, Runs, Pass, TakeOrLeave, Wakeable, data, body, dispatchers, outcome
<1>5. UNCHANGED run
  BY DEF Pass, TakeOrLeave, Wakeable, data, body, dispatchers, outcome
<1>6. call' \in [Callers -> Calls']
  BY <1>3, <1>5 DEF Control, TypeOK, Calls
<1>7. TypeOK'
  <2>1. LinesTyped'
    BY TakingTyped
  <2>2. /\ running' \in BOOLEAN /\ exiting' \in BOOLEAN
        /\ accepting' \in [Runs -> BOOLEAN] /\ interrupt' \in [Runs -> BOOLEAN]
    BY <1>2 DEF Control, TypeOK, Pass, TakeOrLeave, Wakeable, data, body, dispatchers, outcome
  <2>3. \A c \in Callers : call[c].at \in {"post", "interrupt"} => call[c].target # 0
    BY DEF Control, TypeOK
  <2>4. calls \in [Callers -> 0 .. MaxCalls]
    BY DEF Control, TypeOK
  <2>5. QED
    BY <1>1, <1>2, <1>3, <1>5, <1>6, <2>1, <2>2, <2>3, <2>4 DEF TypeOK, LinesTyped, Calls
<1>8. Dispatchers'
  <2>1. ASSUME NEW g \in Runs, accepting'[g], dispatcher' # g
        PROVE  queue'[g] = <<>> /\ \A d \in Callers : call[d].target # g
    BY <1>2, <1>3, <2>1 DEF Control, TypeOK, Dispatchers, Pass, TakeOrLeave, Wakeable, data, body, dispatchers, outcome
  <2>2. \A g \in Runs : g > run' => accepting'[g]
    BY <1>2, <1>5 DEF Control, TypeOK, Dispatchers, Runs, Pass, TakeOrLeave, Wakeable, data, body, dispatchers, outcome
  <2>3. loop' = "letting go" => ~accepting'[run']
    BY <1>2 DEF Control, TypeOK, Dispatchers, Pass, TakeOrLeave, Wakeable, data, body, dispatchers, outcome
  <2>4. QED
    BY <1>3, <2>1, <2>2, <2>3 DEF Control, Dispatchers
<1>9. Called'
  BY <1>3 DEF Control, Called
<1>10. QED
  BY <1>4, <1>7, <1>8, <1>9 DEF Control

LEMMA WakeUpControls ==
    ASSUME Control, WakeUp
    PROVE  Control'
<1>1. loop \in Place /\ loop' \in Place
  BY DEF Control, TypeOK, Place, WakeUp, TakeOrLeave, Wakeable, data, body, dispatchers, outcome
<1>2. /\ MaxRuns \in Nat /\ run \in 0 .. MaxRuns /\ run \in Runs
      /\ dispatcher = run
  BY LoopAssumption DEF Control, TypeOK, Phases, WakeUp
<1>3. dispatcher' = run /\ UNCHANGED <<call, calls>>
  BY <1>2 DEF WakeUp, TakeOrLeave, Wakeable, data, body, dispatchers, outcome
<1>4. Phases'
  BY <1>2, <1>3 DEF Control, Phases, Runs, WakeUp, TakeOrLeave, Wakeable, data, body, dispatchers, outcome
<1>5. UNCHANGED run
  BY DEF WakeUp, TakeOrLeave, Wakeable, data, body, dispatchers, outcome
<1>6. call' \in [Callers -> Calls']
  BY <1>3, <1>5 DEF Control, TypeOK, Calls
<1>7. TypeOK'
  <2>1. LinesTyped'
    BY TakingTyped
  <2>2. /\ running' \in BOOLEAN /\ exiting' \in BOOLEAN
        /\ accepting' \in [Runs -> BOOLEAN] /\ interrupt' \in [Runs -> BOOLEAN]
    BY <1>2 DEF Control, TypeOK, WakeUp, TakeOrLeave, Wakeable, data, body, dispatchers, outcome
  <2>3. \A c \in Callers : call[c].at \in {"post", "interrupt"} => call[c].target # 0
    BY DEF Control, TypeOK
  <2>4. calls \in [Callers -> 0 .. MaxCalls]
    BY DEF Control, TypeOK
  <2>5. QED
    BY <1>1, <1>2, <1>3, <1>5, <1>6, <2>1, <2>2, <2>3, <2>4 DEF TypeOK, LinesTyped, Calls
<1>8. Dispatchers'
  <2>1. ASSUME NEW g \in Runs, accepting'[g], dispatcher' # g
        PROVE  queue'[g] = <<>> /\ \A d \in Callers : call[d].target # g
    BY <1>2, <1>3, <2>1 DEF Control, TypeOK, Dispatchers, WakeUp, TakeOrLeave, Wakeable, data, body, dispatchers, outcome
  <2>2. \A g \in Runs : g > run' => accepting'[g]
    BY <1>2, <1>5 DEF Control, TypeOK, Dispatchers, Runs, WakeUp, TakeOrLeave, Wakeable, data, body, dispatchers, outcome
  <2>3. loop' = "letting go" => ~accepting'[run']
    BY <1>2 DEF Control, TypeOK, Dispatchers, WakeUp, TakeOrLeave, Wakeable, data, body, dispatchers, outcome
  <2>4. QED
    BY <1>3, <2>1, <2>2, <2>3 DEF Control, Dispatchers
<1>9. Called'
  BY <1>3 DEF Control, Called
<1>10. QED
  BY <1>4, <1>7, <1>8, <1>9 DEF Control

LEMMA DispatchControls ==
    ASSUME Control, Dispatch
    PROVE  Control'
<1>1. loop \in Place /\ loop' \in Place
  BY DEF Control, TypeOK, Place, Dispatch, data, body, dispatchers, outcome
<1>2. /\ MaxRuns \in Nat /\ run \in 0 .. MaxRuns /\ run \in Runs
      /\ dispatcher = run
  BY LoopAssumption DEF Control, TypeOK, Phases, Dispatch
<1>3. dispatcher' = run /\ UNCHANGED <<call, calls>>
  BY <1>2 DEF Dispatch, data, body, dispatchers, outcome
<1>4. Phases'
  BY <1>2, <1>3 DEF Control, Phases, Runs, Dispatch, data, body, dispatchers, outcome
<1>5. UNCHANGED run
  BY DEF Dispatch, data, body, dispatchers, outcome
<1>6. call' \in [Callers -> Calls']
  BY <1>3, <1>5 DEF Control, TypeOK, Calls
<1>7. TypeOK'
  <2>1. LinesTyped'
    BY DispatchTyped
  <2>2. /\ running' \in BOOLEAN /\ exiting' \in BOOLEAN
        /\ accepting' \in [Runs -> BOOLEAN] /\ interrupt' \in [Runs -> BOOLEAN]
    BY <1>2 DEF Control, TypeOK, Dispatch, data, body, dispatchers, outcome
  <2>3. \A c \in Callers : call[c].at \in {"post", "interrupt"} => call[c].target # 0
    BY DEF Control, TypeOK
  <2>4. calls \in [Callers -> 0 .. MaxCalls]
    BY DEF Control, TypeOK
  <2>5. QED
    BY <1>1, <1>2, <1>3, <1>5, <1>6, <2>1, <2>2, <2>3, <2>4 DEF TypeOK, LinesTyped, Calls
<1>8. Dispatchers'
  <2>1. ASSUME NEW g \in Runs, accepting'[g], dispatcher' # g
        PROVE  queue'[g] = <<>> /\ \A d \in Callers : call[d].target # g
    BY <1>2, <1>3, <2>1 DEF Control, TypeOK, Dispatchers, Dispatch, data, body, dispatchers, outcome
  <2>2. \A g \in Runs : g > run' => accepting'[g]
    BY <1>2, <1>5 DEF Control, TypeOK, Dispatchers, Runs, Dispatch, data, body, dispatchers, outcome
  <2>3. loop' = "letting go" => ~accepting'[run']
    BY <1>2 DEF Control, TypeOK, Dispatchers, Dispatch, data, body, dispatchers, outcome
  <2>4. QED
    BY <1>3, <2>1, <2>2, <2>3 DEF Control, Dispatchers
<1>9. Called'
  BY <1>3 DEF Control, Called
<1>10. QED
  BY <1>4, <1>7, <1>8, <1>9 DEF Control

LEMMA ReportEndControls ==
    ASSUME Control, ReportEnd
    PROVE  Control'
<1>1. loop \in Place /\ loop' \in Place
  BY DEF Control, TypeOK, Place, ReportEnd, data, body, dispatchers, outcome
<1>2. /\ MaxRuns \in Nat /\ run \in 0 .. MaxRuns /\ run \in Runs
      /\ dispatcher = run
  BY LoopAssumption DEF Control, TypeOK, Phases, ReportEnd
<1>3. dispatcher' = run /\ UNCHANGED <<call, calls>>
  BY <1>2 DEF ReportEnd, data, body, dispatchers, outcome
<1>4. Phases'
  BY <1>2, <1>3 DEF Control, Phases, Runs, ReportEnd, data, body, dispatchers, outcome
<1>5. UNCHANGED run
  BY DEF ReportEnd, data, body, dispatchers, outcome
<1>6. call' \in [Callers -> Calls']
  BY <1>3, <1>5 DEF Control, TypeOK, Calls
<1>7. TypeOK'
  <2>1. LinesTyped'
    BY StillSteps, StillTyped
  <2>2. /\ running' \in BOOLEAN /\ exiting' \in BOOLEAN
        /\ accepting' \in [Runs -> BOOLEAN] /\ interrupt' \in [Runs -> BOOLEAN]
    BY <1>2 DEF Control, TypeOK, ReportEnd, data, body, dispatchers, outcome
  <2>3. \A c \in Callers : call[c].at \in {"post", "interrupt"} => call[c].target # 0
    BY DEF Control, TypeOK
  <2>4. calls \in [Callers -> 0 .. MaxCalls]
    BY DEF Control, TypeOK
  <2>5. QED
    BY <1>1, <1>2, <1>3, <1>5, <1>6, <2>1, <2>2, <2>3, <2>4 DEF TypeOK, LinesTyped, Calls
<1>8. Dispatchers'
  <2>1. ASSUME NEW g \in Runs, accepting'[g], dispatcher' # g
        PROVE  queue'[g] = <<>> /\ \A d \in Callers : call[d].target # g
    BY <1>2, <1>3, <2>1 DEF Control, TypeOK, Dispatchers, ReportEnd, data, body, dispatchers, outcome
  <2>2. \A g \in Runs : g > run' => accepting'[g]
    BY <1>2, <1>5 DEF Control, TypeOK, Dispatchers, Runs, ReportEnd, data, body, dispatchers, outcome
  <2>3. loop' = "letting go" => ~accepting'[run']
    BY <1>2 DEF Control, TypeOK, Dispatchers, ReportEnd, data, body, dispatchers, outcome
  <2>4. QED
    BY <1>3, <2>1, <2>2, <2>3 DEF Control, Dispatchers
<1>9. Called'
  BY <1>3 DEF Control, Called
<1>10. QED
  BY <1>4, <1>7, <1>8, <1>9 DEF Control

LEMMA CloseQueueControls ==
    ASSUME Control, CloseQueue
    PROVE  Control'
<1>1. loop \in Place /\ loop' \in Place
  BY DEF Control, TypeOK, Place, CloseQueue, data, body, dispatchers, outcome
<1>2. /\ MaxRuns \in Nat /\ run \in 0 .. MaxRuns /\ run \in Runs
      /\ dispatcher = run
  BY LoopAssumption DEF Control, TypeOK, Phases, CloseQueue
<1>3. dispatcher' = run /\ UNCHANGED <<call, calls>>
  BY <1>2 DEF CloseQueue, data, body, dispatchers, outcome
<1>4. Phases'
  BY <1>2, <1>3 DEF Control, Phases, Runs, CloseQueue, data, body, dispatchers, outcome
<1>5. UNCHANGED run
  BY DEF CloseQueue, data, body, dispatchers, outcome
<1>6. call' \in [Callers -> Calls']
  BY <1>3, <1>5 DEF Control, TypeOK, Calls
<1>7. TypeOK'
  <2>1. LinesTyped'
    BY StillSteps, StillTyped
  <2>2. /\ running' \in BOOLEAN /\ exiting' \in BOOLEAN
        /\ accepting' \in [Runs -> BOOLEAN] /\ interrupt' \in [Runs -> BOOLEAN]
    BY <1>2 DEF Control, TypeOK, CloseQueue, data, body, dispatchers, outcome
  <2>3. \A c \in Callers : call[c].at \in {"post", "interrupt"} => call[c].target # 0
    BY DEF Control, TypeOK
  <2>4. calls \in [Callers -> 0 .. MaxCalls]
    BY DEF Control, TypeOK
  <2>5. QED
    BY <1>1, <1>2, <1>3, <1>5, <1>6, <2>1, <2>2, <2>3, <2>4 DEF TypeOK, LinesTyped, Calls
<1>8. Dispatchers'
  <2>1. ASSUME NEW g \in Runs, accepting'[g], dispatcher' # g
        PROVE  queue'[g] = <<>> /\ \A d \in Callers : call[d].target # g
    BY <1>2, <1>3, <2>1 DEF Control, TypeOK, Dispatchers, CloseQueue, data, body, dispatchers, outcome
  <2>2. \A g \in Runs : g > run' => accepting'[g]
    <3>1. \A g \in Runs : g > run => g # run
      BY <1>2 DEF Runs
    <3>2. accepting \in [Runs -> BOOLEAN] /\ \A g \in Runs : g > run => accepting[g]
      BY DEF Control, TypeOK, Dispatchers
    <3>3. QED
      BY <1>5, <3>1, <3>2 DEF CloseQueue
  <2>3. loop' = "letting go" => ~accepting'[run']
    BY <1>2 DEF Control, TypeOK, Dispatchers, CloseQueue, data, body, dispatchers, outcome
  <2>4. QED
    BY <1>3, <2>1, <2>2, <2>3 DEF Control, Dispatchers
<1>9. Called'
  BY <1>3 DEF Control, Called
<1>10. QED
  BY <1>4, <1>7, <1>8, <1>9 DEF Control

LEMMA LetGoControls ==
    ASSUME Control, LetGo
    PROVE  Control'
<1>1. loop \in Place /\ loop' \in Place
  BY DEF Control, TypeOK, Place, LetGo, data, body, dispatchers, outcome
<1>2. /\ MaxRuns \in Nat /\ run \in 0 .. MaxRuns /\ run \in Runs
      /\ dispatcher = run
  BY LoopAssumption DEF Control, TypeOK, Phases, LetGo
<1>3. dispatcher' = 0 /\ UNCHANGED <<call, calls>>
  BY <1>2 DEF LetGo, data, body, dispatchers, outcome
<1>4. Phases'
  BY <1>2, <1>3 DEF Control, Phases, Runs, LetGo, data, body, dispatchers, outcome
<1>5. UNCHANGED run
  BY DEF LetGo, data, body, dispatchers, outcome
<1>6. call' \in [Callers -> Calls']
  BY <1>3, <1>5 DEF Control, TypeOK, Calls
<1>7. TypeOK'
  <2>1. LinesTyped'
    BY LetGoTyped
  <2>2. /\ running' \in BOOLEAN /\ exiting' \in BOOLEAN
        /\ accepting' \in [Runs -> BOOLEAN] /\ interrupt' \in [Runs -> BOOLEAN]
    BY <1>2 DEF Control, TypeOK, LetGo, data, body, dispatchers, outcome
  <2>3. \A c \in Callers : call[c].at \in {"post", "interrupt"} => call[c].target # 0
    BY DEF Control, TypeOK
  <2>4. calls \in [Callers -> 0 .. MaxCalls]
    BY DEF Control, TypeOK
  <2>5. QED
    BY <1>1, <1>2, <1>3, <1>5, <1>6, <2>1, <2>2, <2>3, <2>4 DEF TypeOK, LinesTyped, Calls
<1>8. Dispatchers'
  <2>1. ASSUME NEW g \in Runs, accepting'[g], dispatcher' # g
        PROVE  queue'[g] = <<>> /\ \A d \in Callers : call[d].target # g
    BY <1>2, <1>3, <2>1 DEF Control, TypeOK, Dispatchers, LetGo, data, body, dispatchers, outcome
  <2>2. \A g \in Runs : g > run' => accepting'[g]
    BY <1>2, <1>5 DEF Control, TypeOK, Dispatchers, Runs, LetGo, data, body, dispatchers, outcome
  <2>3. loop' = "letting go" => ~accepting'[run']
    BY <1>2 DEF Control, TypeOK, Dispatchers, LetGo, data, body, dispatchers, outcome
  <2>4. QED
    BY <1>3, <2>1, <2>2, <2>3 DEF Control, Dispatchers
<1>9. Called'
  BY <1>3 DEF Control, Called
<1>10. QED
  BY <1>4, <1>7, <1>8, <1>9 DEF Control

LEMMA PostControls ==
    ASSUME Control, NEW c \in Callers, NEW op \in {"post", "invoke"}, Post(c, op)
    PROVE  Control'
<1>1. UNCHANGED <<loop, run, dispatcher, handing, batch, accepting>>
  BY DEF Post, data, body, dispatchers, outcome
<1>2. /\ call \in [Callers -> Calls] /\ call[c] \in Calls /\ dispatcher \in 0 .. run /\ run \in Nat
      /\ calls \in [Callers -> 0 .. MaxCalls] /\ MaxCalls \in Nat /\ running \in BOOLEAN
      /\ queue \in [Runs -> Seq(Tasks)]
  BY LoopAssumption DEF Control, TypeOK, Calls
<1>3. /\ calls' \in [Callers -> 0 .. MaxCalls] /\ calls'[c] # 0
      /\ \A d \in Callers \ {c} : calls'[d] = calls[d]
  BY <1>2 DEF Post
<1>4. \A g \in Runs : accepting[g] /\ dispatcher # g => queue'[g] = queue[g]
  BY <1>2 DEF Control, Dispatchers, Post, data, body, dispatchers, outcome
<1>5. call' \in [Callers -> Calls'] /\ Phases' /\ Dispatchers' /\ Called'
  <2> DEFINE r == [op |-> op, at |-> "route", ready |-> running, target |-> 0]
  <2>1. r \in Calls /\ r.target \in {0, dispatcher, call[c].target} /\ (r.target # 0 <=> r.at \in {"post", "interrupt"})
    BY <1>2 DEF Calls, Op, Step, Idle, Accepted
  <2>2. call' = [call EXCEPT ![c] = r]
    BY <1>2 DEF Post, data, body, dispatchers, outcome
  <2>3. QED
    BY <1>1, <1>3, <1>4, <2>1, <2>2, CallerSteps
<1>6. call' \in [Callers -> Calls'] /\ Phases' /\ Dispatchers' /\ Called'
  BY <1>5 DEF Post
<1>7. TypeOK'
  <2>1. LinesTyped'
    BY StillSteps, StillTyped
  <2>2. /\ running' \in BOOLEAN /\ exiting' \in BOOLEAN
        /\ accepting' \in [Runs -> BOOLEAN] /\ interrupt' \in [Runs -> BOOLEAN]
    BY <1>1, <1>2 DEF Control, TypeOK, Post, data, body, dispatchers, outcome
  <2>3. run' \in 0 .. MaxRuns /\ dispatcher' \in {0, run'} /\ loop' \in Place
    BY <1>1 DEF Control, TypeOK
  <2>5. QED
    BY <1>3, <1>6, <2>1, <2>2, <2>3 DEF TypeOK, LinesTyped, Calls, Dispatchers
<1>8. QED
  BY <1>6, <1>7 DEF Control

LEMMA ExitControls ==
    ASSUME Control, NEW c \in Callers, Exit(c)
    PROVE  Control'
<1>1. UNCHANGED <<loop, run, dispatcher, handing, batch, accepting>>
  BY DEF Exit, data, body, dispatchers, outcome
<1>2. /\ call \in [Callers -> Calls] /\ call[c] \in Calls /\ dispatcher \in 0 .. run /\ run \in Nat
      /\ calls \in [Callers -> 0 .. MaxCalls] /\ MaxCalls \in Nat /\ running \in BOOLEAN
      /\ queue \in [Runs -> Seq(Tasks)]
  BY LoopAssumption DEF Control, TypeOK, Calls
<1>3. /\ calls' \in [Callers -> 0 .. MaxCalls] /\ calls'[c] # 0
      /\ \A d \in Callers \ {c} : calls'[d] = calls[d]
  BY <1>2 DEF Exit
<1>4. \A g \in Runs : accepting[g] /\ dispatcher # g => queue'[g] = queue[g]
  BY <1>2 DEF Control, Dispatchers, Exit, data, body, dispatchers, outcome
<1>5. call' \in [Callers -> Calls'] /\ Phases' /\ Dispatchers' /\ Called'
  <2> DEFINE r == [Idle EXCEPT !.op = "exit", !.at = "fetch"]
  <2>0. Idle \in Calls /\ Idle.target = 0
    BY <1>2 DEF Calls, Op, Step, Idle
  <2>00. [Idle EXCEPT !.op = "exit"] \in Calls
    BY <2>0 DEF Calls, Op
  <2>1. r \in Calls /\ r.target \in {0, dispatcher, call[c].target} /\ (r.target # 0 <=> r.at \in {"post", "interrupt"})
    BY <2>0, <2>00, <1>2 DEF Calls, Op, Step, Accepted
  <2>2. call' = [call EXCEPT ![c] = r]
    BY <2>0, <2>00, <1>2 DEF Exit, data, body, dispatchers, outcome
  <2>3. QED
    BY <1>1, <1>3, <1>4, <2>1, <2>2, CallerSteps
<1>6. call' \in [Callers -> Calls'] /\ Phases' /\ Dispatchers' /\ Called'
  BY <1>5 DEF Exit
<1>7. TypeOK'
  <2>1. LinesTyped'
    BY StillSteps, StillTyped
  <2>2. /\ running' \in BOOLEAN /\ exiting' \in BOOLEAN
        /\ accepting' \in [Runs -> BOOLEAN] /\ interrupt' \in [Runs -> BOOLEAN]
    BY <1>1, <1>2 DEF Control, TypeOK, Exit, data, body, dispatchers, outcome
  <2>3. run' \in 0 .. MaxRuns /\ dispatcher' \in {0, run'} /\ loop' \in Place
    BY <1>1 DEF Control, TypeOK
  <2>5. QED
    BY <1>3, <1>6, <2>1, <2>2, <2>3 DEF TypeOK, LinesTyped, Calls, Dispatchers
<1>8. QED
  BY <1>6, <1>7 DEF Control

LEMMA RouteControls ==
    ASSUME Control, NEW c \in Callers, Route(c)
    PROVE  Control'
<1>1. UNCHANGED <<loop, run, dispatcher, handing, batch, accepting>>
  BY DEF Route, data, body, dispatchers, outcome
<1>2. /\ call \in [Callers -> Calls] /\ call[c] \in Calls /\ dispatcher \in 0 .. run /\ run \in Nat
      /\ calls \in [Callers -> 0 .. MaxCalls] /\ MaxCalls \in Nat /\ running \in BOOLEAN
      /\ queue \in [Runs -> Seq(Tasks)]
  BY LoopAssumption DEF Control, TypeOK, Calls
<1>3. /\ calls' \in [Callers -> 0 .. MaxCalls] /\ calls'[c] # 0
      /\ \A d \in Callers \ {c} : calls'[d] = calls[d]
  BY <1>2 DEF Control, Called, Route, data, body, dispatchers, outcome
<1>4. \A g \in Runs : accepting[g] /\ dispatcher # g => queue'[g] = queue[g]
  BY <1>2 DEF Control, Dispatchers, Route, ToDispatcher, Park, Refuse, Returns, data, body, dispatchers, outcome
<1>5. ASSUME dispatcher # 0
      PROVE  call' \in [Callers -> Calls'] /\ Phases' /\ Dispatchers' /\ Called'
  <2> DEFINE r == [call[c] EXCEPT !.at = "post", !.target = dispatcher]
  <2>1. r \in Calls /\ r.target \in {0, dispatcher, call[c].target} /\ (r.target # 0 <=> r.at \in {"post", "interrupt"})
    BY <1>5, <1>2 DEF Calls, Op, Step, Idle, Accepted
  <2>2. call' = [call EXCEPT ![c] = r]
    BY <1>5, <1>2 DEF Route, ToDispatcher, data, body, dispatchers, outcome
  <2>3. QED
    BY <1>1, <1>3, <1>4, <2>1, <2>2, CallerSteps
<1>6. ASSUME dispatcher = 0, call[c].ready
      PROVE  call' \in [Callers -> Calls'] /\ Phases' /\ Dispatchers' /\ Called'
  <2> DEFINE r == Accepted(c)
  <2>1. r \in Calls /\ r.target \in {0, dispatcher, call[c].target} /\ (r.target # 0 <=> r.at \in {"post", "interrupt"})
    BY <1>6, <1>2 DEF Calls, Op, Step, Idle, Accepted
  <2>2. call' = [call EXCEPT ![c] = r]
    BY <1>6, <1>2 DEF Route, Park, data, body, dispatchers, outcome
  <2>3. QED
    BY <1>1, <1>3, <1>4, <2>1, <2>2, CallerSteps
<1>7. ASSUME dispatcher = 0, ~call[c].ready
      PROVE  call' \in [Callers -> Calls'] /\ Phases' /\ Dispatchers' /\ Called'
  <2> DEFINE r == Idle
  <2>1. r \in Calls /\ r.target \in {0, dispatcher, call[c].target} /\ (r.target # 0 <=> r.at \in {"post", "interrupt"})
    BY <1>7, <1>2 DEF Calls, Op, Step, Idle, Accepted
  <2>2. call' = [call EXCEPT ![c] = r]
    BY <1>7, <1>2 DEF Route, Refuse, Returns, data, body, dispatchers, outcome
  <2>3. QED
    BY <1>1, <1>3, <1>4, <2>1, <2>2, CallerSteps
<1>8. call' \in [Callers -> Calls'] /\ Phases' /\ Dispatchers' /\ Called'
  BY <1>5, <1>6, <1>7 DEF Route
<1>9. TypeOK'
  <2>1. LinesTyped'
    BY RouteTyped
  <2>2. /\ running' \in BOOLEAN /\ exiting' \in BOOLEAN
        /\ accepting' \in [Runs -> BOOLEAN] /\ interrupt' \in [Runs -> BOOLEAN]
    BY <1>1, <1>2 DEF Control, TypeOK, Route, ToDispatcher, Park, Refuse, Returns, data, body, dispatchers, outcome
  <2>3. run' \in 0 .. MaxRuns /\ dispatcher' \in {0, run'} /\ loop' \in Place
    BY <1>1 DEF Control, TypeOK
  <2>5. QED
    BY <1>3, <1>8, <2>1, <2>2, <2>3 DEF TypeOK, LinesTyped, Calls, Dispatchers
<1>10. QED
  BY <1>8, <1>9 DEF Control

LEMMA PostToControls ==
    ASSUME Control, NEW c \in Callers, PostTo(c)
    PROVE  Control'
<1>1. UNCHANGED <<loop, run, dispatcher, handing, batch, accepting>>
  BY DEF PostTo, data, body, dispatchers, outcome
<1>2. /\ call \in [Callers -> Calls] /\ call[c] \in Calls /\ dispatcher \in 0 .. run /\ run \in Nat
      /\ calls \in [Callers -> 0 .. MaxCalls] /\ MaxCalls \in Nat /\ running \in BOOLEAN
      /\ queue \in [Runs -> Seq(Tasks)]
  BY LoopAssumption DEF Control, TypeOK, Calls
<1>3. /\ calls' \in [Callers -> 0 .. MaxCalls] /\ calls'[c] # 0
      /\ \A d \in Callers \ {c} : calls'[d] = calls[d]
  BY <1>2 DEF Control, Called, PostTo, data, body, dispatchers, outcome
<1>4. \A g \in Runs : accepting[g] /\ dispatcher # g => queue'[g] = queue[g]
  BY <1>2 DEF Control, Dispatchers, PostTo, Refuse, Returns, DropReference, data, body, dispatchers, outcome
<1>5. ASSUME accepting[call[c].target]
      PROVE  call' \in [Callers -> Calls'] /\ Phases' /\ Dispatchers' /\ Called'
  <2> DEFINE r == Accepted(c)
  <2>1. r \in Calls /\ r.target \in {0, dispatcher, call[c].target} /\ (r.target # 0 <=> r.at \in {"post", "interrupt"})
    BY AcceptedIsCall, <1>2
  <2>2. call' = [call EXCEPT ![c] = r]
    BY <1>5, <1>2 DEF PostTo, data, body, dispatchers, outcome
  <2>3. QED
    BY <1>1, <1>3, <1>4, <2>1, <2>2, CallerSteps
<1>6. ASSUME ~accepting[call[c].target]
      PROVE  call' \in [Callers -> Calls'] /\ Phases' /\ Dispatchers' /\ Called'
  <2> DEFINE r == Idle
  <2>1. r \in Calls /\ r.target \in {0, dispatcher, call[c].target} /\ (r.target # 0 <=> r.at \in {"post", "interrupt"})
    BY <1>6, <1>2 DEF Calls, Op, Step, Idle, Accepted
  <2>2. call' = [call EXCEPT ![c] = r]
    BY <1>6, <1>2 DEF PostTo, Refuse, Returns, data, body, dispatchers, outcome
  <2>3. QED
    BY <1>1, <1>3, <1>4, <2>1, <2>2, CallerSteps
<1>7. call' \in [Callers -> Calls'] /\ Phases' /\ Dispatchers' /\ Called'
  BY <1>5, <1>6 DEF PostTo
<1>8. TypeOK'
  <2>1. LinesTyped'
    BY PostToTyped
  <2>2. /\ running' \in BOOLEAN /\ exiting' \in BOOLEAN
        /\ accepting' \in [Runs -> BOOLEAN] /\ interrupt' \in [Runs -> BOOLEAN]
    BY <1>1, <1>2 DEF Control, TypeOK, PostTo, Refuse, Returns, DropReference, data, body, dispatchers, outcome
  <2>3. run' \in 0 .. MaxRuns /\ dispatcher' \in {0, run'} /\ loop' \in Place
    BY <1>1 DEF Control, TypeOK
  <2>5. QED
    BY <1>3, <1>7, <2>1, <2>2, <2>3 DEF TypeOK, LinesTyped, Calls, Dispatchers
<1>9. QED
  BY <1>7, <1>8 DEF Control

LEMMA SettledControls ==
    ASSUME Control, NEW c \in Callers, Settled(c)
    PROVE  Control'
<1>1. UNCHANGED <<loop, run, dispatcher, handing, batch, accepting>>
  BY DEF Settled, data, body, dispatchers, outcome
<1>2. /\ call \in [Callers -> Calls] /\ call[c] \in Calls /\ dispatcher \in 0 .. run /\ run \in Nat
      /\ calls \in [Callers -> 0 .. MaxCalls] /\ MaxCalls \in Nat /\ running \in BOOLEAN
      /\ queue \in [Runs -> Seq(Tasks)]
  BY LoopAssumption DEF Control, TypeOK, Calls
<1>3. /\ calls' \in [Callers -> 0 .. MaxCalls] /\ calls'[c] # 0
      /\ \A d \in Callers \ {c} : calls'[d] = calls[d]
  BY <1>2 DEF Control, Called, Settled, data, body, dispatchers, outcome
<1>4. \A g \in Runs : accepting[g] /\ dispatcher # g => queue'[g] = queue[g]
  BY <1>2 DEF Control, Dispatchers, Settled, Returns, data, body, dispatchers, outcome
<1>5. call' \in [Callers -> Calls'] /\ Phases' /\ Dispatchers' /\ Called'
  <2> DEFINE r == Idle
  <2>1. r \in Calls /\ r.target \in {0, dispatcher, call[c].target} /\ (r.target # 0 <=> r.at \in {"post", "interrupt"})
    BY <1>2 DEF Calls, Op, Step, Idle, Accepted
  <2>2. call' = [call EXCEPT ![c] = r]
    BY <1>2 DEF Settled, Returns, data, body, dispatchers, outcome
  <2>3. QED
    BY <1>1, <1>3, <1>4, <2>1, <2>2, CallerSteps
<1>6. call' \in [Callers -> Calls'] /\ Phases' /\ Dispatchers' /\ Called'
  BY <1>5 DEF Settled
<1>7. TypeOK'
  <2>1. LinesTyped'
    BY StillSteps, StillTyped
  <2>2. /\ running' \in BOOLEAN /\ exiting' \in BOOLEAN
        /\ accepting' \in [Runs -> BOOLEAN] /\ interrupt' \in [Runs -> BOOLEAN]
    BY <1>1, <1>2 DEF Control, TypeOK, Settled, Returns, data, body, dispatchers, outcome
  <2>3. run' \in 0 .. MaxRuns /\ dispatcher' \in {0, run'} /\ loop' \in Place
    BY <1>1 DEF Control, TypeOK
  <2>5. QED
    BY <1>3, <1>6, <2>1, <2>2, <2>3 DEF TypeOK, LinesTyped, Calls, Dispatchers
<1>8. QED
  BY <1>6, <1>7 DEF Control

LEMMA FetchDispatcherControls ==
    ASSUME Control, NEW c \in Callers, FetchDispatcher(c)
    PROVE  Control'
<1>1. UNCHANGED <<loop, run, dispatcher, handing, batch, accepting>>
  BY DEF FetchDispatcher, data, body, dispatchers, outcome
<1>2. /\ call \in [Callers -> Calls] /\ call[c] \in Calls /\ dispatcher \in 0 .. run /\ run \in Nat
      /\ calls \in [Callers -> 0 .. MaxCalls] /\ MaxCalls \in Nat /\ running \in BOOLEAN
      /\ queue \in [Runs -> Seq(Tasks)]
  BY LoopAssumption DEF Control, TypeOK, Calls
<1>3. /\ calls' \in [Callers -> 0 .. MaxCalls] /\ calls'[c] # 0
      /\ \A d \in Callers \ {c} : calls'[d] = calls[d]
  BY <1>2 DEF Control, Called, FetchDispatcher, data, body, dispatchers, outcome
<1>4. \A g \in Runs : accepting[g] /\ dispatcher # g => queue'[g] = queue[g]
  BY <1>2 DEF Control, Dispatchers, FetchDispatcher, Returns, data, body, dispatchers, outcome
<1>5. ASSUME dispatcher # 0
      PROVE  call' \in [Callers -> Calls'] /\ Phases' /\ Dispatchers' /\ Called'
  <2> DEFINE r == [call[c] EXCEPT !.at = "interrupt", !.target = dispatcher]
  <2>1. r \in Calls /\ r.target \in {0, dispatcher, call[c].target} /\ (r.target # 0 <=> r.at \in {"post", "interrupt"})
    BY <1>5, <1>2 DEF Calls, Op, Step, Idle, Accepted
  <2>2. call' = [call EXCEPT ![c] = r]
    BY <1>5, <1>2 DEF FetchDispatcher, data, body, dispatchers, outcome
  <2>3. QED
    BY <1>1, <1>3, <1>4, <2>1, <2>2, CallerSteps
<1>6. ASSUME dispatcher = 0
      PROVE  call' \in [Callers -> Calls'] /\ Phases' /\ Dispatchers' /\ Called'
  <2> DEFINE r == Idle
  <2>1. r \in Calls /\ r.target \in {0, dispatcher, call[c].target} /\ (r.target # 0 <=> r.at \in {"post", "interrupt"})
    BY <1>6, <1>2 DEF Calls, Op, Step, Idle, Accepted
  <2>2. call' = [call EXCEPT ![c] = r]
    BY <1>6, <1>2 DEF FetchDispatcher, Returns, data, body, dispatchers, outcome
  <2>3. QED
    BY <1>1, <1>3, <1>4, <2>1, <2>2, CallerSteps
<1>7. call' \in [Callers -> Calls'] /\ Phases' /\ Dispatchers' /\ Called'
  BY <1>5, <1>6 DEF FetchDispatcher
<1>8. TypeOK'
  <2>1. LinesTyped'
    BY StillSteps, StillTyped
  <2>2. /\ running' \in BOOLEAN /\ exiting' \in BOOLEAN
        /\ accepting' \in [Runs -> BOOLEAN] /\ interrupt' \in [Runs -> BOOLEAN]
    BY <1>1, <1>2 DEF Control, TypeOK, FetchDispatcher, Returns, data, body, dispatchers, outcome
  <2>3. run' \in 0 .. MaxRuns /\ dispatcher' \in {0, run'} /\ loop' \in Place
    BY <1>1 DEF Control, TypeOK
  <2>5. QED
    BY <1>3, <1>7, <2>1, <2>2, <2>3 DEF TypeOK, LinesTyped, Calls, Dispatchers
<1>9. QED
  BY <1>7, <1>8 DEF Control

LEMMA InterruptControls ==
    ASSUME Control, NEW c \in Callers, Interrupt(c)
    PROVE  Control'
<1>1. UNCHANGED <<loop, run, dispatcher, handing, batch, accepting>>
  BY DEF Interrupt, data, body, dispatchers, outcome
<1>2. /\ call \in [Callers -> Calls] /\ call[c] \in Calls /\ dispatcher \in 0 .. run /\ run \in Nat
      /\ calls \in [Callers -> 0 .. MaxCalls] /\ MaxCalls \in Nat /\ running \in BOOLEAN
      /\ queue \in [Runs -> Seq(Tasks)]
  BY LoopAssumption DEF Control, TypeOK, Calls
<1>3. /\ calls' \in [Callers -> 0 .. MaxCalls] /\ calls'[c] # 0
      /\ \A d \in Callers \ {c} : calls'[d] = calls[d]
  BY <1>2 DEF Control, Called, Interrupt, data, body, dispatchers, outcome
<1>4. \A g \in Runs : accepting[g] /\ dispatcher # g => queue'[g] = queue[g]
  BY <1>2 DEF Control, Dispatchers, Interrupt, Returns, DropReference, data, body, dispatchers, outcome
<1>5. call' \in [Callers -> Calls'] /\ Phases' /\ Dispatchers' /\ Called'
  <2> DEFINE r == Idle
  <2>1. r \in Calls /\ r.target \in {0, dispatcher, call[c].target} /\ (r.target # 0 <=> r.at \in {"post", "interrupt"})
    BY <1>2 DEF Calls, Op, Step, Idle, Accepted
  <2>2. call' = [call EXCEPT ![c] = r]
    BY <1>2 DEF Interrupt, Returns, data, body, dispatchers, outcome
  <2>3. QED
    BY <1>1, <1>3, <1>4, <2>1, <2>2, CallerSteps
<1>6. call' \in [Callers -> Calls'] /\ Phases' /\ Dispatchers' /\ Called'
  BY <1>5 DEF Interrupt
<1>7. TypeOK'
  <2>1. LinesTyped'
    BY InterruptTyped
  <2>2. /\ running' \in BOOLEAN /\ exiting' \in BOOLEAN
        /\ accepting' \in [Runs -> BOOLEAN] /\ interrupt' \in [Runs -> BOOLEAN]
    BY <1>1, <1>2 DEF Control, TypeOK, Interrupt, Returns, DropReference, data, body, dispatchers, outcome
  <2>3. run' \in 0 .. MaxRuns /\ dispatcher' \in {0, run'} /\ loop' \in Place
    BY <1>1 DEF Control, TypeOK
  <2>5. QED
    BY <1>3, <1>6, <2>1, <2>2, <2>3 DEF TypeOK, LinesTyped, Calls, Dispatchers
<1>8. QED
  BY <1>6, <1>7 DEF Control

-----------------------------------------------------------------------------
(* How a step moves the lines.                                             *)

\* The lines are where Lines says they are, in this state and in the next.
Lined ==
    /\ LinesOf(Lines)
    /\ Lines[-1] = ran /\ Lines[0] = batch
    /\ \A g \in Runs : Lines[g] = queue[g]
    /\ Lines[MaxRuns + 1] = handing /\ Lines[MaxRuns + 2] = parked

LEMMA AreLined == TypeOK => Lined
  BY LinesHold DEF Lined

LEMMA WillBeLined == TypeOK' => Lined'
  BY AreLined, PTL

\* The places of the lines.
LEMMA SpotsOfLines ==
    /\ -1 \in Spots /\ 0 \in Spots /\ MaxRuns + 1 \in Spots /\ MaxRuns + 2 \in Spots
    /\ Runs \subseteq Spots /\ MaxRuns \in Nat
    /\ \A g \in Runs : g \in Int /\ 0 < g /\ g < MaxRuns + 1
  BY LoopAssumption DEF Spots, Runs

LEMMA StillLines ==
    ASSUME Still
    PROVE  Lines' = Lines
  BY DEF Still, Lines

\* The places are different.
LEMMA SpotsDiffer ==
    /\ MaxRuns + 2 # MaxRuns + 1 /\ MaxRuns + 2 # -1 /\ MaxRuns + 2 # 0
    /\ MaxRuns + 1 # -1 /\ MaxRuns + 1 # 0
    /\ \A g \in Runs : g # MaxRuns + 1 /\ g # MaxRuns + 2 /\ g # 0 /\ g # -1
  BY SpotsOfLines

LEMMA InstallLines ==
    ASSUME Control, Control', Install
    PROVE  Pours(Lines, Lines', MaxRuns + 2, MaxRuns + 1)
<1> DEFINE M == [Lines EXCEPT ![MaxRuns + 2] = <<>>, ![MaxRuns + 1] = Lines[MaxRuns + 2]]
<1>1. Lined /\ Lined'
  BY AreLined, WillBeLined DEF Control
<1>2. MaxRuns + 2 # MaxRuns + 1 /\ MaxRuns + 2 # -1 /\ MaxRuns + 2 # 0 /\ MaxRuns + 1 # -1
      /\ MaxRuns + 1 # 0 /\ \A g \in Runs : g # MaxRuns + 1 /\ g # MaxRuns + 2
  BY SpotsOfLines
<1>3. /\ LinesOf(M) /\ M[MaxRuns + 2] = <<>> /\ M[MaxRuns + 1] = parked
      /\ M[-1] = ran /\ M[0] = batch /\ \A g \in Runs : M[g] = queue[g]
  BY <1>1, <1>2, SpotsOfLines, SequencesOfTasks DEF Lined, LinesOf
<1> HIDE DEF M
<1>4. Lines' = M
  BY <1>1, <1>3, InstallMoves, SameLines DEF Lined
<1>5. QED
  BY <1>4 DEF M, Pours

LEMMA HandOverLines ==
    ASSUME Control, Control', HandOver, ~Still
    PROVE  /\ handing # <<>> /\ run \in Runs
           /\ Passes(Lines, Lines', MaxRuns + 1, run)
<1> DEFINE M == [Lines EXCEPT ![MaxRuns + 1] = Tail(handing),
                              ![run] = Append(queue[run], Head(handing))]
<1>1. Lined /\ Lined' /\ run \in Runs
  BY AreLined, WillBeLined DEF Control, Phases, HandOver
<1>2. /\ UNCHANGED <<parked, batch, ran, refused, discarded, waited>>
      /\ handing # <<>> /\ handing' = Tail(handing)
      /\ queue' = [queue EXCEPT ![run] = Append(@, Head(handing))]
  BY HandOverMoves DEF Still
<1>3. handing \in Seq(Tasks) /\ queue \in [Runs -> Seq(Tasks)]
  BY DEF Control, TypeOK
<1>4. Tail(handing) \in Seq(Tasks) /\ Append(queue[run], Head(handing)) \in Seq(Tasks)
  BY <1>1, <1>2, <1>3, SequencesOfTasks
<1>5. /\ LinesOf(M) /\ M[MaxRuns + 1] = Tail(handing) /\ M[run] = Append(queue[run], Head(handing))
      /\ M[MaxRuns + 2] = parked /\ M[-1] = ran /\ M[0] = batch
      /\ \A g \in Runs \ {run} : M[g] = queue[g]
  <2>1. /\ LinesOf(M) /\ M[MaxRuns + 1] = Tail(handing) /\ M[run] = Append(queue[run], Head(handing))
        /\ \A n \in Spots \ {MaxRuns + 1, run} : M[n] = Lines[n]
    <3>1. /\ Lines \in [Spots -> Seq(Tasks)] /\ MaxRuns + 1 \in Spots /\ run \in Spots
          /\ MaxRuns + 1 # run
      BY <1>1, SpotsOfLines, SpotsDiffer DEF Lined, LinesOf
    <3>2. QED
      BY <1>4, <3>1 DEF LinesOf
  <2> HIDE DEF M
  <2>2. QED
    BY <1>1, <2>1, SpotsOfLines, SpotsDiffer DEF Lined
<1> HIDE DEF M
<1>6. \A g \in Runs : M[g] = queue'[g]
  <2>1. /\ queue'[run] = Append(queue[run], Head(handing))
        /\ \A g \in Runs \ {run} : queue'[g] = queue[g]
    BY <1>1, <1>2, <1>3
  <2>2. QED
    BY <1>5, <2>1
<1>7. Lines' = M
  <2>1. /\ LinesOf(M) /\ LinesOf(Lines') /\ Lines'[-1] = M[-1] /\ Lines'[0] = M[0]
        /\ Lines'[MaxRuns + 1] = M[MaxRuns + 1] /\ Lines'[MaxRuns + 2] = M[MaxRuns + 2]
        /\ \A g \in Runs : Lines'[g] = M[g]
    BY <1>1, <1>2, <1>5, <1>6 DEF Lined
  <2>2. QED
    BY <2>1, SameLines
<1>8. QED
  BY <1>1, <1>2, <1>7 DEF M, Passes, Lined

LEMMA TakingLines ==
    ASSUME Control, Control', Pass \/ WakeUp, ~Still
    PROVE  batch = <<>> /\ run \in Runs /\ Pours(Lines, Lines', run, 0)
<1> DEFINE M == [Lines EXCEPT ![run] = <<>>, ![0] = queue[run]]
<1>1. Lined /\ Lined' /\ run \in Runs /\ batch = <<>>
  BY AreLined, WillBeLined DEF Control, Phases, Pass, WakeUp
<1>2. /\ UNCHANGED <<parked, handing, ran, refused, discarded, waited>>
      /\ batch' = queue[run] /\ queue' = [queue EXCEPT ![run] = <<>>]
  BY TakingMoves DEF Still
<1>3. queue \in [Runs -> Seq(Tasks)]
  BY DEF Control, TypeOK
<1>4. /\ LinesOf(M) /\ M[run] = <<>> /\ M[0] = queue[run]
      /\ M[MaxRuns + 1] = handing /\ M[MaxRuns + 2] = parked /\ M[-1] = ran
      /\ \A g \in Runs \ {run} : M[g] = queue[g]
  <2>1. /\ LinesOf(M) /\ M[run] = <<>> /\ M[0] = queue[run]
        /\ \A n \in Spots \ {run, 0} : M[n] = Lines[n]
    <3>1. queue[run] \in Seq(Tasks)
      BY <1>1, <1>3
    <3>2. /\ Lines \in [Spots -> Seq(Tasks)] /\ 0 \in Spots /\ run \in Spots /\ run # 0
      BY <1>1, SpotsOfLines, SpotsDiffer DEF Lined, LinesOf
    <3>3. QED
      BY <3>1, <3>2, SequencesOfTasks DEF LinesOf
  <2> HIDE DEF M
  <2>2. QED
    BY <1>1, <2>1, SpotsOfLines, SpotsDiffer DEF Lined
<1> HIDE DEF M
<1>5. \A g \in Runs : M[g] = queue'[g]
  BY <1>1, <1>2, <1>3, <1>4
<1>6. Lines' = M
  BY <1>1, <1>2, <1>4, <1>5, SameLines DEF Lined
<1>7. QED
  BY <1>1, <1>6 DEF M, Pours, Lined

LEMMA DispatchLines ==
    ASSUME Control, Control', Dispatch, ~Still
    PROVE  batch # <<>> /\ Passes(Lines, Lines', 0, -1)
<1> DEFINE M == [Lines EXCEPT ![0] = Tail(batch), ![-1] = Append(ran, Head(batch))]
<1>1. Lined /\ Lined'
  BY AreLined, WillBeLined DEF Control
<1>2. /\ UNCHANGED <<parked, handing, queue, refused, discarded, waited>>
      /\ batch # <<>> /\ batch' = Tail(batch) /\ ran' = Append(ran, Head(batch))
  BY DispatchMoves DEF Still
<1>3. batch \in Seq(Tasks) /\ ran \in Seq(Tasks)
  BY DEF Control, TypeOK
<1>4. Tail(batch) \in Seq(Tasks) /\ Append(ran, Head(batch)) \in Seq(Tasks)
  BY <1>2, <1>3, SequencesOfTasks
<1>5. /\ LinesOf(M) /\ M[0] = Tail(batch) /\ M[-1] = Append(ran, Head(batch))
      /\ M[MaxRuns + 1] = handing /\ M[MaxRuns + 2] = parked
      /\ \A g \in Runs : M[g] = queue[g]
  <2>1. /\ LinesOf(M) /\ M[0] = Tail(batch) /\ M[-1] = Append(ran, Head(batch))
        /\ \A n \in Spots \ {0, -1} : M[n] = Lines[n]
    <3>1. Lines \in [Spots -> Seq(Tasks)] /\ 0 \in Spots /\ -1 \in Spots
      BY <1>1, SpotsOfLines DEF Lined, LinesOf
    <3> DEFINE s == Tail(batch)
               t == Append(ran, Head(batch))
    <3>2. M = [Lines EXCEPT ![0] = s, ![-1] = t] /\ s \in Seq(Tasks) /\ t \in Seq(Tasks)
      BY <1>4
    <3> HIDE DEF M, s, t
    <3>3. LinesOf(M) /\ M[0] = s /\ M[-1] = t /\ \A n \in Spots \ {0, -1} : M[n] = Lines[n]
      BY <3>1, <3>2, SMTT(30) DEF LinesOf
    <3>4. QED
      BY <3>3 DEF s, t
  <2> HIDE DEF M
  <2>2. QED
    BY <1>1, <2>1, SpotsOfLines, SpotsDiffer DEF Lined
<1> HIDE DEF M
<1>6. Lines' = M
  BY <1>1, <1>2, <1>5, SameLines, ZenonT(60) DEF Lined
<1>7. QED
  BY <1>1, <1>2, <1>6 DEF M, Passes, Lined

LEMMA ParkLines ==
    ASSUME Control, Control', NEW c \in Callers, Route(c), parked' = Append(parked, Task(c)),
           UNCHANGED <<handing, batch, queue, ran>>
    PROVE  Joins(Lines, Lines', MaxRuns + 2, Task(c))
<1> DEFINE M == [Lines EXCEPT ![MaxRuns + 2] = Append(@, Task(c))]
<1>1. Lined /\ Lined'
  BY AreLined, WillBeLined DEF Control
<1>2. parked \in Seq(Tasks) /\ Task(c) \in Tasks
  BY TaskIsOne DEF Control, TypeOK, Route
<1>3. Append(parked, Task(c)) \in Seq(Tasks)
  BY <1>2, SequencesOfTasks
<1>4. /\ LinesOf(M) /\ M[MaxRuns + 2] = Append(parked, Task(c))
      /\ M[MaxRuns + 1] = handing /\ M[-1] = ran /\ M[0] = batch
      /\ \A g \in Runs : M[g] = queue[g]
  BY <1>1, <1>3, SpotsOfLines DEF Lined, LinesOf
<1> HIDE DEF M
<1>5. Lines' = M
  BY <1>1, <1>4, SameLines DEF Lined
<1>6. QED
  BY <1>5 DEF M, Joins

LEMMA QueueingLines ==
    ASSUME Control, Control', NEW g \in Runs, NEW t \in Tasks,
           UNCHANGED <<parked, handing, batch, ran>>,
           queue' = [queue EXCEPT ![g] = Append(@, t)]
    PROVE  Joins(Lines, Lines', g, t)
<1> DEFINE M == [Lines EXCEPT ![g] = Append(@, t)]
<1>1. Lined /\ Lined' /\ queue \in [Runs -> Seq(Tasks)]
  BY AreLined, WillBeLined DEF Control, TypeOK
<1>2. Append(queue[g], t) \in Seq(Tasks)
  BY <1>1, SequencesOfTasks
<1>3. /\ LinesOf(M) /\ M[g] = Append(queue[g], t)
      /\ M[MaxRuns + 1] = handing /\ M[MaxRuns + 2] = parked /\ M[-1] = ran /\ M[0] = batch
      /\ \A h \in Runs \ {g} : M[h] = queue[h]
  BY <1>1, <1>2, SpotsOfLines DEF Lined, LinesOf
<1>4. \A h \in Runs : M[h] = queue'[h]
  BY <1>1, <1>3
<1> HIDE DEF M
<1>5. Lines' = M
  BY <1>1, <1>3, <1>4, SameLines DEF Lined
<1>6. QED
  BY <1>5 DEF M, Joins

LEMMA FreeingLines ==
    ASSUME Control, Control', NEW g \in Runs, UNCHANGED <<parked, handing, batch, ran>>,
           queue' = [queue EXCEPT ![g] = <<>>]
    PROVE  Clears(Lines, Lines', g)
<1> DEFINE M == [Lines EXCEPT ![g] = <<>>]
<1>1. Lined /\ Lined' /\ queue \in [Runs -> Seq(Tasks)]
  BY AreLined, WillBeLined DEF Control, TypeOK
<1>2. /\ LinesOf(M) /\ M[g] = <<>>
      /\ M[MaxRuns + 1] = handing /\ M[MaxRuns + 2] = parked /\ M[-1] = ran /\ M[0] = batch
      /\ \A h \in Runs \ {g} : M[h] = queue[h]
  BY <1>1, SpotsOfLines, SequencesOfTasks DEF Lined, LinesOf
<1>3. \A h \in Runs : M[h] = queue'[h]
  BY <1>1, <1>2
<1> HIDE DEF M
<1>4. Lines' = M
  BY <1>1, <1>2, <1>3, SameLines DEF Lined
<1>5. QED
  BY <1>4 DEF M, Clears

-----------------------------------------------------------------------------
(* The numbers of the calls.                                               *)

\* Nobody takes a number back, and who gets to look for a place has just taken one.
CallsGrow ==
    \A c \in Callers :
        /\ calls[c] <= calls'[c]
        /\ call'[c].at \in {"route", "post"} =>
            call[c].at \in {"route", "post"} \/ calls[c] < calls'[c]

LEMMA BodyGrows ==
    ASSUME Control, UNCHANGED <<call, calls>>
    PROVE  CallsGrow
<1>1. \A c \in Callers : calls[c] \in Nat
  BY LoopAssumption DEF Control, TypeOK
<1>2. QED
  BY <1>1 DEF CallsGrow

LEMMA CallerGrows ==
    ASSUME Control, NEW c \in Callers, NEW r, call' = [call EXCEPT ![c] = r],
           \/ UNCHANGED calls /\ (r.at \in {"route", "post"} => call[c].at \in {"route", "post"})
           \/ calls' = [calls EXCEPT ![c] = @ + 1]
    PROVE  CallsGrow
<1>1. \A d \in Callers : calls[d] \in Nat
  BY LoopAssumption DEF Control, TypeOK
<1>2. call'[c] = r /\ \A d \in Callers \ {c} : call'[d] = call[d]
  BY DEF Control, TypeOK
<1>3. calls'[c] = calls[c] \/ calls'[c] = calls[c] + 1
  BY DEF Control, TypeOK
<1>4. \A d \in Callers \ {c} : calls'[d] = calls[d]
  BY DEF Control, TypeOK
<1>5. r.at \in {"route", "post"} => call[c].at \in {"route", "post"} \/ calls'[c] = calls[c] + 1
  BY DEF Control, TypeOK
<1>6. QED
  BY <1>1, <1>2, <1>3, <1>4, <1>5 DEF CallsGrow

LEMMA AcceptedAt ==
    ASSUME Control, NEW c \in Callers
    PROVE  Accepted(c).at \in {"idle", "await"}
<1>1. call[c] \in Calls /\ run \in Nat
  BY LoopAssumption DEF Control, TypeOK, Calls
<1>2. QED
  BY <1>1, AcceptedIsCall

LEMMA RouteGrows ==
    ASSUME Control, NEW c \in Callers, Route(c)
    PROVE  /\ CallsGrow /\ UNCHANGED calls
           /\ ~UNCHANGED <<parked, refused>> => call'[c].at \in {"idle", "await"}
<1>1. call[c] \in Calls /\ call \in [Callers -> Calls] /\ call[c].at = "route"
  BY DEF Control, TypeOK, Calls, Route
<1>2. CASE ToDispatcher(c)
  <2> DEFINE r == [call[c] EXCEPT !.at = "post", !.target = dispatcher]
  <2>1. call' = [call EXCEPT ![c] = r] /\ UNCHANGED <<calls, parked, refused>>
    BY <1>1, <1>2 DEF Route, ToDispatcher
  <2> HIDE DEF r
  <2>2. QED
    BY <1>1, <2>1, CallerGrows
<1>3. CASE Park(c) \/ Refuse(c)
  <2>1. PICK r : call' = [call EXCEPT ![c] = r] /\ r.at \in {"idle", "await"}
    BY <1>3, AcceptedAt DEF Park, Refuse, Returns, Idle
  <2>2. UNCHANGED calls
    BY DEF Route
  <2>3. call'[c] = r
    BY <1>1, <2>1
  <2>4. CallsGrow
    BY <2>1, <2>2, CallerGrows
  <2>5. QED
    BY <2>1, <2>2, <2>3, <2>4
<1>4. QED
  BY <1>2, <1>3 DEF Route

LEMMA PostToGrows ==
    ASSUME Control, NEW c \in Callers, PostTo(c)
    PROVE  CallsGrow /\ UNCHANGED calls /\ call'[c].at \in {"idle", "await"}
<1>1. PICK r : call' = [call EXCEPT ![c] = r] /\ r.at \in {"idle", "await"}
  BY AcceptedAt DEF PostTo, Refuse, Returns, Idle
<1>2. UNCHANGED calls
  BY DEF PostTo
<1>3. call'[c] = r
  BY <1>1 DEF Control, TypeOK
<1>4. CallsGrow
  BY <1>1, <1>2, CallerGrows
<1>5. QED
  BY <1>1, <1>2, <1>3, <1>4

LEMMA OthersGrow ==
    ASSUME Control, NEW c \in Callers,
           \/ \E op \in {"post", "invoke"} : Post(c, op)
           \/ Exit(c) \/ Settled(c) \/ FetchDispatcher(c) \/ Interrupt(c)
    PROVE  CallsGrow
<1>1. call \in [Callers -> Calls]
  BY DEF Control, TypeOK, Calls
<1>2. ASSUME NEW op \in {"post", "invoke"}, Post(c, op)
      PROVE  CallsGrow
  BY <1>2, CallerGrows DEF Post
<1>3. CASE Exit(c)
  BY <1>3, CallerGrows DEF Exit
<1>4. CASE Settled(c)
  BY <1>4, CallerGrows DEF Settled, Returns, Idle
<1>5. CASE FetchDispatcher(c)
  <2>1. CASE dispatcher = 0
    BY <1>5, <2>1, CallerGrows DEF FetchDispatcher, Returns, Idle
  <2>2. CASE dispatcher # 0
    <3> DEFINE r == [call[c] EXCEPT !.at = "interrupt", !.target = dispatcher]
    <3>1. call' = [call EXCEPT ![c] = r] /\ UNCHANGED calls /\ r.at = "interrupt"
      BY <1>1, <1>5, <2>2 DEF FetchDispatcher, Calls
    <3> HIDE DEF r
    <3>2. QED
      BY <3>1, CallerGrows
  <2>3. QED
    BY <2>1, <2>2
<1>6. CASE Interrupt(c)
  BY <1>6, CallerGrows DEF Interrupt, Returns, Idle
<1>7. QED
  BY <1>2, <1>3, <1>4, <1>5, <1>6

LEMMA GivenStays ==
    ASSUME Control, Control', CallsGrow, NEW t \in Tasks, Given(t)
    PROVE  Given(t)'
<1>1. t[1] \in Callers /\ t[2] \in Nat
  BY LoopAssumption DEF Tasks
<1>2. calls[t[1]] \in Nat /\ calls'[t[1]] \in Nat
  BY <1>1, LoopAssumption DEF Control, TypeOK
<1>3. QED
  BY <1>1, <1>2 DEF Given, CallsGrow

\* The task of a caller that looks for a place for it is nowhere yet, and its youngest.
LEMMA FreshTask ==
    ASSUME Control, InLines, NEW c \in Callers, call[c].at \in {"route", "post"}
    PROVE  /\ Task(c) \in Tasks /\ Task(c)[1] = c
           /\ Task(c) \notin waited /\ Task(c) \notin refused /\ Task(c) \notin discarded
           /\ \A n \in Spots, i \in Nat : ~At(Lines, n, i, Task(c))
           /\ \A n \in Spots, i \in Nat, t \in Tasks :
                At(Lines, n, i, t) /\ t[1] = Task(c)[1] => t[2] < Task(c)[2]
<1>1. Task(c) \in Tasks /\ Task(c)[1] = c /\ Task(c)[2] = calls[c] /\ calls[c] \in Nat
  BY TaskIsOne DEF Task
<1>2. ~Given(Task(c))
  BY <1>1 DEF Given
<1>3. \A t \in Tasks : Given(t) /\ t[1] = c => t[2] < calls[c]
  BY DEF Given
<1>4. QED
  BY <1>1, <1>2, <1>3 DEF InLines, Numbers

-----------------------------------------------------------------------------
(* The lines stay in order.                                                *)

LEMMA OutGrows ==
    ASSUME NEW L, NEW out, Apart(L, out), NEW t \in Tasks,
           \A n \in Spots, i \in Nat : ~At(L, n, i, t)
    PROVE  Apart(L, out \cup {t})
  BY DEF Apart

LEMMA LiveShrinks ==
    ASSUME Control, Control', run <= run'
    PROVE  Live' \subseteq Live /\ Live \subseteq Spots
<1>1. run \in Nat /\ run' \in Nat
  BY LoopAssumption DEF Control, TypeOK
<1>2. ASSUME NEW a \in Nat, NEW b \in Nat, a <= b
      PROVE  1 .. a - 1 \subseteq 1 .. b - 1
  BY <1>2
<1>3. Spots' = Spots
  BY DEF Spots
<1>4. 1 .. run - 1 \subseteq 1 .. run' - 1
  BY <1>1, <1>2
<1>5. QED
  BY <1>3, <1>4 DEF Live

\* A step that moves no task, but perhaps refuses one that is nowhere.
LEMMA StillKeepsLines ==
    ASSUME Control, Control', InLines, CallsGrow, run <= run', Lines' = Lines,
           UNCHANGED <<refused, discarded, waited>>
    PROVE  InLines'
<1>1. \A t \in Tasks : Given(t) => Given(t)'
  BY GivenStays
<1>2. Live' \subseteq Live
  BY LiveShrinks
<1>3. waited \subseteq Tasks /\ refused \subseteq Tasks /\ discarded \subseteq Tasks
  BY DEF Control, TypeOK
<1>4. Apart(Lines', (refused \cup discarded)') /\ (refused \cap discarded = {})'
  BY DEF InLines
<1>5. Numbers'
  BY <1>1, <1>3 DEF InLines, Numbers, At
<1>6. LotIsWaited'
  BY DEF InLines, LotIsWaited, At
<1>7. Ordered(Lines', Live', waited')
  BY <1>2 DEF InLines, Ordered
<1>8. QED
  BY <1>4, <1>5, <1>6, <1>7 DEF InLines

LEMMA RefusingKeepsLines ==
    ASSUME Control, Control', InLines, CallsGrow, UNCHANGED <<run, calls>>, Lines' = Lines,
           NEW c \in Callers, call[c].at \in {"route", "post"}, call'[c].at \in {"idle", "await"},
           refused' = refused \cup {Task(c)}, UNCHANGED <<discarded, waited>>
    PROVE  InLines'
<1>1. \A t \in Tasks : Given(t) => Given(t)'
  BY GivenStays
<1>2. /\ Task(c) \in Tasks /\ Task(c) \notin discarded
      /\ \A n \in Spots, i \in Nat : ~At(Lines, n, i, Task(c))
  BY FreshTask
<1>3. waited \subseteq Tasks /\ refused \subseteq Tasks /\ discarded \subseteq Tasks
  BY DEF Control, TypeOK
<1>4. Given(Task(c))'
  <2>1. Task(c)[1] = c /\ Task(c)[2] = calls[c] /\ calls[c] \in Nat /\ Task(c)' = Task(c)
    BY TaskIsOne DEF Task
  <2>2. QED
    BY <2>1 DEF Given
<1>5. Apart(Lines', (refused \cup discarded)')
  <2>1. Apart(Lines, (refused \cup discarded) \cup {Task(c)})
    BY <1>2, OutGrows DEF InLines
  <2>2. (refused \cup discarded) \cup {Task(c)} = (refused \cup discarded)'
    OBVIOUS
  <2>3. QED
    BY <2>1, <2>2
<1>6. (refused \cap discarded = {})'
  BY <1>2 DEF InLines
<1>7. Numbers'
  <2>1. \A t \in Tasks, n \in Spots, i \in Nat : At(Lines', n, i, t) => Given(t)'
    BY <1>1 DEF InLines, Numbers
  <2>2. \A t \in waited' \cup refused' \cup discarded' : Given(t)'
    <3>1. Task(c)' = Task(c)
      BY DEF Task
    <3>2. QED
      BY <1>1, <1>3, <1>4, <3>1 DEF InLines, Numbers
  <2>3. QED
    BY <2>1, <2>2 DEF Numbers, At, Spots, Tasks
<1>8. LotIsWaited'
  BY DEF InLines, LotIsWaited, At
<1>9. Ordered(Lines', Live', waited')
  BY DEF InLines, Live
<1>10. QED
  BY <1>5, <1>6, <1>7, <1>8, <1>9 DEF InLines

\* What is queued for g is discarded, when the tasks of extra are refused.
LEMMA FreeingKeepsLines ==
    ASSUME Control, Control', InLines, CallsGrow, UNCHANGED run, NEW g \in Runs,
           Clears(Lines, Lines', g), discarded' = discarded \cup ToSet(queue[g]),
           UNCHANGED waited, NEW extra \in SUBSET Tasks, refused' = refused \cup extra,
           \A t \in extra : /\ Given(t)' /\ t \notin discarded
                             /\ \A n \in Spots, i \in Nat : ~At(Lines, n, i, t)
    PROVE  InLines'
<1>1. \A t \in Tasks : Given(t) => Given(t)'
  BY GivenStays
<1>2. LinesOf(Lines) /\ Lines[g] = queue[g] /\ g \in Spots /\ g < MaxRuns + 1
  BY AreLined, SpotsOfLines DEF Control, Lined
<1>3. \A n \in Spots, i \in Nat, t \in Tasks : At(Lines', n, i, t) => At(Lines, n, i, t)
  BY <1>2, ClearingMoves
<1>4. \A t \in ToSet(queue[g]) : t \in Tasks /\ \E i \in Nat : At(Lines, g, i, t)
  BY <1>2 DEF ToSet, LinesOf, At
<1>5. Apart(Lines', (refused \cup discarded)')
  <2>1. Apart(Lines', (refused \cup discarded) \cup ToSet(Lines[g]))
    BY <1>2, ClearingKeepsApart DEF InLines
  <2>2. (refused \cup discarded)' = ((refused \cup discarded) \cup ToSet(Lines[g])) \cup extra
    BY <1>2
  <2>3. \A t \in extra, n \in Spots, i \in Nat : ~At(Lines', n, i, t)
    BY <1>3
  <2>4. QED
    BY <2>1, <2>2, <2>3 DEF Apart
<1>6. (refused \cap discarded = {})'
  <2>1. refused \cap ToSet(queue[g]) = {}
    BY <1>2, <1>4 DEF InLines, Apart
  <2>2. extra \cap ToSet(queue[g]) = {}
    BY <1>2, <1>4
  <2>3. QED
    BY <2>1, <2>2 DEF InLines
<1>7. Numbers'
  <2>1. waited \subseteq Tasks /\ refused \subseteq Tasks /\ discarded \subseteq Tasks
    BY DEF Control, TypeOK
  <2>2. \A t \in ToSet(queue[g]) : Given(t)
    BY <1>2, <1>4 DEF InLines, Numbers
  <2>3. \A t \in Tasks, n \in Spots, i \in Nat : At(Lines', n, i, t) => Given(t)'
    BY <1>1, <1>3 DEF InLines, Numbers
  <2>4. \A t \in waited' \cup refused' \cup discarded' : Given(t)'
    BY <1>1, <1>4, <2>1, <2>2 DEF InLines, Numbers
  <2>5. QED
    BY <2>3, <2>4 DEF Numbers, At, Spots, Tasks
<1>8. LotIsWaited'
  <2>1. \A t \in Tasks, n \in {MaxRuns + 1, MaxRuns + 2}, i \in Nat :
            At(Lines', n, i, t) => t \in waited
    BY <1>3, SpotsOfLines DEF InLines, LotIsWaited
  <2>2. QED
    BY <2>1 DEF LotIsWaited, At, Spots
<1>9. Ordered(Lines', Live', waited')
  <2>1. Live' = Live /\ Live \subseteq Spots
    BY DEF Live, Spots
  <2>2. Ordered(Lines', Live, waited)
    BY <1>2, <2>1, ClearingKeepsOrder DEF InLines
  <2>3. QED
    BY <2>1, <2>2
<1>10. QED
  BY <1>5, <1>6, <1>7, <1>8, <1>9 DEF InLines

LEMMA PouringKeepsLines ==
    ASSUME Control, Control', InLines, CallsGrow, UNCHANGED <<run, refused, discarded, waited>>,
           NEW a \in Live, NEW b \in Spots, b < a, Pours(Lines, Lines', a, b),
           \A n \in Live, i \in Nat, t \in Tasks : b < n /\ n < a => ~At(Lines, n, i, t),
           b \in {MaxRuns + 1, MaxRuns + 2} => a \in {MaxRuns + 1, MaxRuns + 2}
    PROVE  InLines'
<1>1. \A t \in Tasks : Given(t) => Given(t)'
  BY GivenStays
<1>2. LinesOf(Lines) /\ a \in Spots /\ a # b
  BY AreLined, LoopAssumption DEF Control, Lined, Live, Spots
<1>3. \A n \in Spots, i \in Nat, t \in Tasks : At(Lines', n, i, t) =>
        \E m \in Spots, j \in Nat : At(Lines, m, j, t) /\ (m = n \/ (m = a /\ n = b))
  BY <1>2, PouringMoves
<1>4. Apart(Lines', (refused \cup discarded)') /\ (refused \cap discarded = {})'
  BY <1>2, PouringKeepsApart DEF InLines
<1>5. Numbers'
  <2>1. waited \subseteq Tasks /\ refused \subseteq Tasks /\ discarded \subseteq Tasks
    BY DEF Control, TypeOK
  <2>2. \A t \in Tasks, n \in Spots, i \in Nat : At(Lines', n, i, t) => Given(t)'
    BY <1>1, <1>3 DEF InLines, Numbers
  <2>3. \A t \in waited' \cup refused' \cup discarded' : Given(t)'
    BY <1>1, <2>1 DEF InLines, Numbers
  <2>4. QED
    BY <2>2, <2>3 DEF Numbers, At, Spots, Tasks
<1>6. LotIsWaited'
  <2>1. \A t \in Tasks, n \in {MaxRuns + 1, MaxRuns + 2}, i \in Nat :
            At(Lines', n, i, t) => t \in waited
    BY <1>3, SpotsOfLines DEF InLines, LotIsWaited
  <2>2. QED
    BY <2>1 DEF LotIsWaited, At, Spots
<1>7. Ordered(Lines', Live', waited')
  <2>1. Live' = Live /\ Live \in SUBSET Spots
    BY DEF Live, Spots
  <2>2. Ordered(Lines', Live, waited)
    BY <1>2, <2>1, PouringKeepsOrder DEF InLines
  <2>3. QED
    BY <2>1, <2>2
<1>8. QED
  BY <1>4, <1>5, <1>6, <1>7 DEF InLines

LEMMA PassingKeepsLines ==
    ASSUME Control, Control', InLines, CallsGrow, UNCHANGED <<run, refused, discarded, waited>>,
           NEW a \in Live, NEW b \in Spots, b < a, Lines[a] # <<>>, Passes(Lines, Lines', a, b),
           \A n \in Live, i \in Nat, t \in Tasks : b < n /\ n < a => ~At(Lines, n, i, t),
           b \in {MaxRuns + 1, MaxRuns + 2} => a \in {MaxRuns + 1, MaxRuns + 2}
    PROVE  InLines'
<1>1. \A t \in Tasks : Given(t) => Given(t)'
  BY GivenStays
<1>2. LinesOf(Lines) /\ a \in Spots /\ a # b
  BY AreLined, LoopAssumption DEF Control, Lined, Live, Spots
<1>3. \A n \in Spots, i \in Nat, t \in Tasks : At(Lines', n, i, t) =>
        \E m \in Spots, j \in Nat : At(Lines, m, j, t) /\ (m = n \/ (m = a /\ n = b))
  BY <1>2, PassingMoves
<1>4. Apart(Lines', (refused \cup discarded)') /\ (refused \cap discarded = {})'
  BY <1>2, PassingKeepsApart DEF InLines
<1>5. Numbers'
  <2>1. waited \subseteq Tasks /\ refused \subseteq Tasks /\ discarded \subseteq Tasks
    BY DEF Control, TypeOK
  <2>2. \A t \in Tasks, n \in Spots, i \in Nat : At(Lines', n, i, t) => Given(t)'
    BY <1>1, <1>3 DEF InLines, Numbers
  <2>3. \A t \in waited' \cup refused' \cup discarded' : Given(t)'
    BY <1>1, <2>1 DEF InLines, Numbers
  <2>4. QED
    BY <2>2, <2>3 DEF Numbers, At, Spots, Tasks
<1>6. LotIsWaited'
  <2>1. \A t \in Tasks, n \in {MaxRuns + 1, MaxRuns + 2}, i \in Nat :
            At(Lines', n, i, t) => t \in waited
    BY <1>3, SpotsOfLines DEF InLines, LotIsWaited
  <2>2. QED
    BY <2>1 DEF LotIsWaited, At, Spots
<1>7. Ordered(Lines', Live', waited')
  <2>1. Live' = Live /\ Live \in SUBSET Spots
    BY DEF Live, Spots
  <2>2. Ordered(Lines', Live, waited)
    BY <1>2, <2>1, PassingKeepsOrder DEF InLines
  <2>3. QED
    BY <2>1, <2>2
<1>8. QED
  BY <1>4, <1>5, <1>6, <1>7 DEF InLines

\* The task of a caller joins line a, in the parking lot or in the queue of the run.
LEMMA JoiningKeepsLines ==
    ASSUME Control, Control', InLines, CallsGrow, UNCHANGED <<run, calls, refused, discarded>>,
           NEW c \in Callers, call[c].at \in {"route", "post"}, call'[c].at \in {"idle", "await"},
           NEW a \in Spots, Joins(Lines, Lines', a, Task(c)),
           waited' \in {waited, waited \cup {Task(c)}},
           a \in {MaxRuns + 1, MaxRuns + 2} => Task(c) \in waited',
           Task(c) \in waited' =>
                \A n \in Live, i \in Nat, t \in Tasks : n > a => ~At(Lines, n, i, t),
           \A n \in Live, i \in Nat, t \in Tasks : At(Lines, n, i, t) /\ n > a => t \in waited
    PROVE  InLines'
<1>1. \A t \in Tasks : Given(t) => Given(t)'
  BY GivenStays
<1>2. LinesOf(Lines)
  BY AreLined DEF Control, Lined
<1>3. /\ Task(c) \in Tasks /\ Task(c) \notin waited /\ Task(c) \notin refused \cup discarded
      /\ \A n \in Spots, i \in Nat : ~At(Lines, n, i, Task(c))
      /\ \A n \in Spots, i \in Nat, t \in Tasks :
            At(Lines, n, i, t) /\ t[1] = Task(c)[1] => t[2] < Task(c)[2]
  BY FreshTask
<1>4. \A n \in Spots, i \in Nat, t \in Tasks : At(Lines', n, i, t) =>
        At(Lines, n, i, t) \/ (n = a /\ t = Task(c))
  BY <1>2, <1>3, JoiningMoves
<1>5. Given(Task(c))'
  <2>1. Task(c)[1] = c /\ Task(c)[2] = calls[c] /\ calls[c] \in Nat /\ Task(c)' = Task(c)
    BY TaskIsOne DEF Task
  <2>2. QED
    BY <2>1 DEF Given
<1>6. Apart(Lines', (refused \cup discarded)') /\ (refused \cap discarded = {})'
  <2>1. Apart(Lines', refused \cup discarded)
    BY <1>2, <1>3, JoiningKeepsApart DEF InLines
  <2>2. QED
    BY <2>1 DEF InLines
<1>7. Numbers'
  <2>1. waited \subseteq Tasks /\ refused \subseteq Tasks /\ discarded \subseteq Tasks
    BY DEF Control, TypeOK
  <2>2. Task(c)' = Task(c)
    BY DEF Task
  <2>3. \A t \in Tasks, n \in Spots, i \in Nat : At(Lines', n, i, t) => Given(t)'
    BY <1>1, <1>4, <1>5, <2>2 DEF InLines, Numbers
  <2>4. \A t \in waited' \cup refused' \cup discarded' : Given(t)'
    BY <1>1, <1>5, <2>1, <2>2 DEF InLines, Numbers
  <2>5. QED
    BY <2>3, <2>4 DEF Numbers, At, Spots, Tasks
<1>8. LotIsWaited'
  <2>1. \A t \in Tasks, n \in {MaxRuns + 1, MaxRuns + 2}, i \in Nat :
            At(Lines', n, i, t) => t \in waited'
    BY <1>4, SpotsOfLines DEF InLines, LotIsWaited
  <2>2. QED
    BY <2>1 DEF LotIsWaited, At, Spots
<1>9. Ordered(Lines', Live', waited')
  <2>1. Live' = Live /\ Live \in SUBSET Spots
    BY DEF Live, Spots
  <2>2. Ordered(Lines, Live, waited')
    BY <1>3, <2>1 DEF InLines, Ordered
  <2>3. \A n \in Live, i \in Nat, t \in Tasks :
            At(Lines, n, i, t) /\ n > a => t \in waited' /\ Task(c) \notin waited'
    OBVIOUS
  <2>4. Ordered(Lines', Live, waited')
    BY <1>2, <1>3, <2>1, <2>2, <2>3, JoiningKeepsOrder
  <2>5. QED
    BY <2>1, <2>4
<1>10. QED
  BY <1>6, <1>7, <1>8, <1>9 DEF InLines

-----------------------------------------------------------------------------
(* Every step keeps the invariant.                                         *)

LEMMA ControlHolds ==
    ASSUME Control, Next
    PROVE  Control'
<1>1. ASSUME NEW c \in Callers,
             \/ \E op \in {"post", "invoke"} : Post(c, op)
             \/ Exit(c) \/ Proceed(c)
      PROVE  Control'
  BY <1>1, PostControls, ExitControls, RouteControls, PostToControls, SettledControls,
     FetchDispatcherControls, InterruptControls DEF Proceed
<1>2. QED
  BY <1>1, StartControls, LaunchControls, InstallControls, HandOverControls,
     CheckExitControls, PassControls, WakeUpControls, DispatchControls, ReportEndControls,
     CloseQueueControls, LetGoControls DEF Next, Body

\* The queues of the runs to come are empty.
LEMMA BeyondRun ==
    ASSUME Control
    PROVE  \A n \in Runs, i \in Nat, t \in Tasks : n > run => ~At(Lines, n, i, t)
<1>0. dispatcher \in {0, run} /\ run \in Nat
  BY LoopAssumption DEF Control, TypeOK
<1>1. \A n \in Runs : n > run => n # dispatcher
  BY <1>0 DEF Runs
<1>2. \A n \in Runs : n > run => queue[n] = <<>>
  BY <1>1 DEF Control, Dispatchers
<1>3. \A n \in Runs : n > run => Lines[n] = <<>>
  BY <1>2, AreLined DEF Control, Lined
<1>4. Len(<<>>) = 0
  OBVIOUS
<1>5. QED
  BY <1>3, <1>4 DEF At

\* Which places are live, and what is between them.
LEMMA LivePlaces ==
    ASSUME Control
    PROVE  /\ -1 \in Live /\ 0 \in Live /\ MaxRuns + 1 \in Live /\ MaxRuns + 2 \in Live
           /\ run \in Runs => run \in Live
           /\ Live \subseteq Spots /\ Live \subseteq Int /\ run \in Nat
           /\ \A n \in Live : n <= MaxRuns + 2
           /\ \A n \in Live : n > 0 => n >= run
           /\ \A n \in Live : n > run => n \in Runs \cup {MaxRuns + 1, MaxRuns + 2}
<1>1. run \in 0 .. MaxRuns /\ MaxRuns \in Nat
  BY LoopAssumption DEF Control, TypeOK
<1>2. QED
  BY <1>1 DEF Live, Spots, Runs

LEMMA InstallKeepsLines ==
    ASSUME LoopInv, Control', Install
    PROVE  InLines'
<1>1. /\ CallsGrow /\ UNCHANGED <<run, refused, discarded, waited>>
      /\ Pours(Lines, Lines', MaxRuns + 2, MaxRuns + 1)
  BY BodyGrows, InstallLines DEF LoopInv, Install, outcome
<1>2. /\ MaxRuns + 2 \in Live /\ MaxRuns + 1 \in Spots /\ MaxRuns + 1 < MaxRuns + 2
      /\ \A n \in Live : ~(MaxRuns + 1 < n /\ n < MaxRuns + 2)
  BY LivePlaces, SpotsOfLines DEF LoopInv
<1>3. QED
  BY <1>1, <1>2, PouringKeepsLines DEF LoopInv

LEMMA HandOverKeepsLines ==
    ASSUME LoopInv, Control', HandOver
    PROVE  InLines'
<1>1. CallsGrow /\ UNCHANGED <<run, refused, discarded, waited>> /\ run \in Nat
  BY BodyGrows, LivePlaces DEF LoopInv, HandOver, outcome
<1>2. CASE Still
  BY <1>1, <1>2, StillLines, StillKeepsLines DEF LoopInv
<1>3. CASE ~Still
  <2>1. /\ handing # <<>> /\ run \in Runs
        /\ Passes(Lines, Lines', MaxRuns + 1, run)
    BY <1>3, HandOverLines DEF LoopInv
  <2>2. Lines[MaxRuns + 1] # <<>>
    BY <2>1, AreLined DEF LoopInv, Control, Lined
  <2>3. /\ MaxRuns + 1 \in Live /\ run \in Spots /\ run < MaxRuns + 1
        /\ run \notin {MaxRuns + 1, MaxRuns + 2}
    BY <2>1, LivePlaces, SpotsOfLines DEF LoopInv
  <2>4. \A n \in Live, i \in Nat, t \in Tasks :
            run < n /\ n < MaxRuns + 1 => ~At(Lines, n, i, t)
    BY BeyondRun, LivePlaces, SpotsOfLines DEF LoopInv
  <2>5. QED
    BY <1>1, <2>1, <2>2, <2>3, <2>4, PassingKeepsLines DEF LoopInv
<1>4. QED
  BY <1>2, <1>3

LEMMA TakingKeepsLines ==
    ASSUME LoopInv, Control', Pass \/ WakeUp
    PROVE  InLines'
<1>1. CallsGrow /\ UNCHANGED <<run, refused, discarded, waited>> /\ run \in Nat
  BY BodyGrows, LivePlaces DEF LoopInv, Pass, WakeUp, outcome
<1>2. CASE Still
  BY <1>1, <1>2, StillLines, StillKeepsLines DEF LoopInv
<1>3. CASE ~Still
  <2>1. run \in Runs /\ Pours(Lines, Lines', run, 0)
    BY <1>3, TakingLines DEF LoopInv
  <2>2. /\ run \in Live /\ 0 \in Spots /\ 0 < run /\ 0 \notin {MaxRuns + 1, MaxRuns + 2}
        /\ \A n \in Live : ~(0 < n /\ n < run)
    BY <2>1, LivePlaces, SpotsOfLines DEF LoopInv
  <2>3. QED
    BY <1>1, <2>1, <2>2, PouringKeepsLines DEF LoopInv
<1>4. QED
  BY <1>2, <1>3

LEMMA DispatchKeepsLines ==
    ASSUME LoopInv, Control', Dispatch
    PROVE  InLines'
<1>1. CallsGrow /\ UNCHANGED <<run, refused, discarded, waited>> /\ run \in Nat
  BY BodyGrows, LivePlaces DEF LoopInv, Dispatch
<1>2. CASE Still
  BY <1>1, <1>2, StillLines, StillKeepsLines DEF LoopInv
<1>3. CASE ~Still
  <2>1. batch # <<>> /\ Passes(Lines, Lines', 0, -1)
    BY <1>3, DispatchLines DEF LoopInv
  <2>2. Lines[0] # <<>>
    BY <2>1, AreLined DEF LoopInv, Control, Lined
  <2>3. /\ 0 \in Live /\ -1 \in Spots /\ -1 < 0 /\ -1 \notin {MaxRuns + 1, MaxRuns + 2}
        /\ \A n \in Live : ~(-1 < n /\ n < 0)
    BY LivePlaces, SpotsOfLines DEF LoopInv
  <2>4. QED
    BY <1>1, <2>1, <2>2, <2>3, PassingKeepsLines DEF LoopInv
<1>4. QED
  BY <1>2, <1>3

\* What is queued for g is freed, if anything is.
LEMMA FreesKeepsLines ==
    ASSUME LoopInv, Control', CallsGrow, UNCHANGED run, NEW g \in Runs, Frees(g),
           UNCHANGED <<parked, handing, batch, ran, refused, waited>>
    PROVE  InLines'
<1>1. run \in Nat
  BY LivePlaces DEF LoopInv
<1>2. CASE UNCHANGED <<queue, discarded>>
  BY <1>1, <1>2, StillLines, StillKeepsLines DEF LoopInv, Still
<1>3. CASE discarded' = discarded \cup ToSet(queue[g]) /\ queue' = [queue EXCEPT ![g] = <<>>]
  <2>1. Clears(Lines, Lines', g)
    BY <1>3, FreeingLines DEF LoopInv
  <2>2. refused' = refused \cup {} /\ {} \in SUBSET Tasks
    OBVIOUS
  <2>3. \A t \in {} : /\ Given(t)' /\ t \notin discarded
                      /\ \A n \in Spots, i \in Nat : ~At(Lines, n, i, t)
    OBVIOUS
  <2>4. Control /\ InLines /\ UNCHANGED waited
    BY DEF LoopInv
  <2>5. QED
    BY <1>3, <2>1, <2>2, <2>3, <2>4, FreeingKeepsLines
<1>4. QED
  BY <1>2, <1>3 DEF Frees

LEMMA TargetIsRun ==
    ASSUME Control, NEW c \in Callers, call[c].at \in {"post", "interrupt"}
    PROVE  call[c].target \in Runs
  BY LoopAssumption DEF Control, TypeOK, Runs

LEMMA LetGoKeepsLines ==
    ASSUME LoopInv, Control', LetGo
    PROVE  InLines'
<1>1. CallsGrow /\ UNCHANGED run /\ run \in Runs
  BY BodyGrows DEF LoopInv, Control, Phases, LetGo
<1>2. QED
  BY <1>1, LetGoMoves, FreesKeepsLines

LEMMA InterruptKeepsLines ==
    ASSUME LoopInv, Control', NEW c \in Callers, Interrupt(c)
    PROVE  InLines'
<1>1. CallsGrow
  BY OthersGrow DEF LoopInv
<1>2. UNCHANGED run /\ call[c].target \in Runs
  BY TargetIsRun DEF LoopInv, Interrupt, body
<1>3. QED
  BY <1>1, <1>2, InterruptMoves, FreesKeepsLines

LEMMA RouteKeepsLines ==
    ASSUME LoopInv, Control', NEW c \in Callers, Route(c)
    PROVE  InLines'
<1>1. /\ CallsGrow /\ UNCHANGED <<run, calls>> /\ run \in Nat
      /\ ~UNCHANGED <<parked, refused>> => call'[c].at \in {"idle", "await"}
  BY RouteGrows, LivePlaces DEF LoopInv, Route, body
<1>2. call[c].at \in {"route", "post"} /\ UNCHANGED <<handing, batch, queue, ran, discarded>>
  BY RouteMoves DEF Route
<1>3. CASE UNCHANGED <<parked, refused, waited>>
  BY <1>1, <1>2, <1>3, StillLines, StillKeepsLines DEF LoopInv, Still
<1>4. CASE /\ parked' = Append(parked, Task(c)) /\ waited' = waited \cup {Task(c)}
           /\ UNCHANGED refused
  <2>1. Joins(Lines, Lines', MaxRuns + 2, Task(c))
    BY <1>2, <1>4, ParkLines DEF LoopInv
  <2>2. call'[c].at \in {"idle", "await"}
    <3>1. parked \in Seq(Tasks) /\ Task(c) \in Tasks
      BY <1>2, TaskIsOne DEF LoopInv, Control, TypeOK
    <3>2. Append(parked, Task(c)) # parked
      BY <3>1
    <3>3. QED
      BY <1>1, <1>4, <3>2
  <2>3. MaxRuns + 2 \in Spots /\ \A n \in Live : ~(n > MaxRuns + 2)
    BY LivePlaces, SpotsOfLines DEF LoopInv
  <2>4. QED
    BY <1>1, <1>2, <1>4, <2>1, <2>2, <2>3, JoiningKeepsLines DEF LoopInv
<1>5. CASE refused' = refused \cup {Task(c)} /\ UNCHANGED <<parked, waited>>
  <2>1. call'[c].at \in {"idle", "await"}
    BY <1>1, <1>2, <1>5, FreshTask DEF LoopInv
  <2>2. Lines' = Lines
    BY <1>2, <1>5 DEF Lines
  <2>3. QED
    BY <1>1, <1>2, <1>5, <2>1, <2>2, RefusingKeepsLines DEF LoopInv
<1>6. QED
  BY <1>3, <1>4, <1>5, RouteMoves

LEMMA PostToKeepsLines ==
    ASSUME LoopInv, Control', NEW c \in Callers, PostTo(c)
    PROVE  InLines'
<1> DEFINE g == call[c].target
<1>1. /\ CallsGrow /\ UNCHANGED <<run, calls>> /\ run \in Nat
      /\ call[c].at \in {"route", "post"} /\ call'[c].at \in {"idle", "await"}
      /\ Task(c) \in Tasks
  BY PostToGrows, LivePlaces, TaskIsOne DEF LoopInv, PostTo, body
<1>2. g \in Runs /\ g \in Spots
  <2>1. g \in Runs
    BY TargetIsRun DEF LoopInv, PostTo
  <2>2. QED
    BY <2>1, SpotsOfLines
<1>3. UNCHANGED <<parked, handing, batch, ran, waited>>
  BY PostToMoves
<1>4. CASE accepting[g]
  <2>1. g = run
    <3>1. g = dispatcher
      BY <1>2, <1>4 DEF LoopInv, Control, Dispatchers
    <3>2. g # 0 /\ dispatcher \in {0, run}
      BY <1>2, SpotsOfLines DEF LoopInv, Control, TypeOK
    <3>3. QED
      BY <3>1, <3>2
  <2>2. queue' = [queue EXCEPT ![g] = Append(@, Task(c))] /\ UNCHANGED <<refused, discarded>>
    BY <1>4, PostToMoves
  <2>3. Joins(Lines, Lines', g, Task(c))
    BY <1>1, <1>2, <1>3, <2>2, QueueingLines DEF LoopInv
  <2>4. Task(c) \notin waited
    BY <1>1, FreshTask DEF LoopInv
  <2>5. g \notin {MaxRuns + 1, MaxRuns + 2}
    BY <1>2, SpotsDiffer
  <2>6. \A n \in Live, i \in Nat, t \in Tasks : At(Lines, n, i, t) /\ n > g => t \in waited
    <3>1. \A n \in Live : n > g => n \in Runs \/ n \in {MaxRuns + 1, MaxRuns + 2}
      BY <2>1, LivePlaces DEF LoopInv
    <3>2. \A n \in Runs, i \in Nat, t \in Tasks : n > g => ~At(Lines, n, i, t)
      BY <2>1, BeyondRun DEF LoopInv
    <3>3. QED
      BY <3>1, <3>2 DEF LoopInv, InLines, LotIsWaited
  <2> HIDE DEF g
  <2>7. waited' \in {waited, waited \cup {Task(c)}} /\ Task(c) \notin waited'
    BY <1>3, <2>4
  <2>8. QED
    BY <1>1, <1>2, <1>3, <2>2, <2>3, <2>5, <2>6, <2>7, JoiningKeepsLines DEF LoopInv
<1>5. CASE ~accepting[g]
  <2>1. refused' = refused \cup {Task(c)} /\ Frees(g)
    BY <1>5, PostToMoves
  <2>2. CASE UNCHANGED <<queue, discarded>>
    <3>1. Lines' = Lines
      BY <1>3, <2>2 DEF Lines
    <3>2. QED
      BY <1>1, <1>3, <2>1, <2>2, <3>1, RefusingKeepsLines DEF LoopInv
  <2>3. CASE discarded' = discarded \cup ToSet(queue[g]) /\ queue' = [queue EXCEPT ![g] = <<>>]
    <3>1. Clears(Lines, Lines', g)
      BY <1>2, <1>3, <2>3, FreeingLines DEF LoopInv
    <3>2. Task(c) \notin discarded /\ \A n \in Spots, i \in Nat : ~At(Lines, n, i, Task(c))
      BY <1>1, FreshTask DEF LoopInv
    <3>3. ASSUME NEW t \in {Task(c)}
          PROVE  Given(t)'
      <4>1. t[1] = c /\ t[2] = calls[c] /\ calls[c] \in Nat
        BY <1>1, TaskIsOne DEF Task, LoopInv
      <4>2. QED
        BY <1>1, <4>1 DEF Given
    <3> HIDE DEF g
    <3>4. {Task(c)} \in SUBSET Tasks
      BY <1>1
    <3>5. \A t \in {Task(c)} : /\ Given(t)' /\ t \notin discarded
                               /\ \A n \in Spots, i \in Nat : ~At(Lines, n, i, t)
      BY <3>2, <3>3
    <3>6. QED
      BY <1>1, <1>2, <1>3, <2>1, <2>3, <3>1, <3>4, <3>5, FreeingKeepsLines DEF LoopInv
  <2>4. QED
    BY <2>1, <2>2, <2>3 DEF Frees
<1>6. QED
  BY <1>4, <1>5

LEMMA NextKeeps ==
    ASSUME LoopInv, Next
    PROVE  LoopInv'
<1>1. Control'
  BY ControlHolds DEF LoopInv
<1>2. ASSUME Still, CallsGrow, run <= run'
      PROVE  InLines'
  BY <1>1, <1>2, StillLines, StillKeepsLines DEF LoopInv, Still
<1>3. run \in Nat
  BY LivePlaces DEF LoopInv
<1>4. ASSUME Start \/ CheckExit \/ ReportEnd \/ CloseQueue
      PROVE  InLines'
  <2>1. Still
    BY <1>4, StillSteps
  <2>2. UNCHANGED <<call, calls, run>>
    BY <1>4 DEF Start, CheckExit, ReportEnd, CloseQueue, data
  <2>3. CallsGrow
    BY <2>2, BodyGrows DEF LoopInv
  <2>4. QED
    BY <1>2, <1>3, <2>1, <2>2, <2>3
<1>5. ASSUME Launch
      PROVE  InLines'
  <2>1. Still
    BY <1>5, StillSteps
  <2>2. UNCHANGED <<call, calls>> /\ run' = run + 1
    BY <1>5 DEF Launch
  <2>3. CallsGrow
    BY <2>2, BodyGrows DEF LoopInv
  <2>4. run <= run'
    BY <1>3, <2>2
  <2>5. QED
    BY <1>2, <2>1, <2>3, <2>4
<1>6. ASSUME NEW c \in Callers,
             \/ \E op \in {"post", "invoke"} : Post(c, op)
             \/ Exit(c) \/ Settled(c) \/ FetchDispatcher(c)
      PROVE  InLines'
  <2>1. Still
    BY <1>6, StillSteps
  <2>2. run <= run'
    BY <1>3, <1>6 DEF Post, Exit, Settled, FetchDispatcher, body
  <2>3. CallsGrow
    BY <1>6, OthersGrow DEF LoopInv
  <2>4. QED
    BY <1>2, <2>1, <2>2, <2>3
<1>7. ASSUME Install \/ HandOver \/ Pass \/ WakeUp \/ Dispatch \/ LetGo
      PROVE  InLines'
  BY <1>1, <1>7, InstallKeepsLines, HandOverKeepsLines, TakingKeepsLines, DispatchKeepsLines,
     LetGoKeepsLines
<1>8. ASSUME NEW c \in Callers, Route(c) \/ PostTo(c) \/ Interrupt(c)
      PROVE  InLines'
  BY <1>1, <1>8, RouteKeepsLines, PostToKeepsLines, InterruptKeepsLines
<1>9. InLines'
  BY <1>4, <1>5, <1>6, <1>7, <1>8 DEF Next, Body, Proceed
<1>10. QED
  BY <1>1, <1>9 DEF LoopInv

-----------------------------------------------------------------------------
(* The invariant holds, and what it says.                                  *)

LEMMA InitControls == Init => Control
<1> SUFFICES ASSUME Init PROVE Control
  OBVIOUS
<1>1. MaxRuns \in Nat /\ MaxCalls \in Nat
  BY LoopAssumption
<1>2. /\ queue \in [Runs -> Seq(Tasks)] /\ accepting \in [Runs -> BOOLEAN]
      /\ interrupt \in [Runs -> BOOLEAN] /\ calls \in [Callers -> 0 .. MaxCalls]
      /\ parked \in Seq(Tasks) /\ handing \in Seq(Tasks) /\ batch \in Seq(Tasks)
      /\ ran \in Seq(Tasks)
  BY <1>1, SequencesOfTasks DEF Init
<1>3. /\ run = 0 /\ run \in 0 .. MaxRuns /\ dispatcher = 0 /\ loop = "off" /\ loop \in Place
      /\ running \in BOOLEAN /\ exiting \in BOOLEAN
      /\ refused \subseteq Tasks /\ discarded \subseteq Tasks /\ waited \subseteq Tasks
  <2>1. "off" \in Place
    BY DEF Place
  <2>2. 0 \in 0 .. MaxRuns
    BY <1>1
  <2>3. QED
    BY <2>1, <2>2 DEF Init
<1>4. \A c \in Callers : call[c].at = "idle" /\ call[c].target = 0
  BY DEF Init, Idle
<1>5. call \in [Callers -> [op : Op, at : Step, ready : BOOLEAN, target : 0 .. run]]
  <2>1. Idle \in [op : Op, at : Step, ready : BOOLEAN, target : 0 .. 0]
    BY DEF Idle, Op, Step
  <2>2. QED
    BY <1>3, <2>1 DEF Init
<1>6. TypeOK
  <2>1. \A c \in Callers : call[c].at \in {"post", "interrupt"} => call[c].target # 0
    BY <1>4
  <2>2. QED
    BY <1>2, <1>3, <1>5, <2>1 DEF TypeOK
<1>7. Phases
  BY <1>3 DEF Init, Phases
<1>8. Dispatchers
  <2>1. \A g \in Runs : accepting[g] /\ queue[g] = <<>>
    BY DEF Init
  <2>2. \A g \in Runs, c \in Callers : call[c].target # g
    BY <1>4, SpotsOfLines
  <2>3. QED
    BY <1>3, <1>4, <2>1, <2>2 DEF Dispatchers
<1>9. Called
  BY <1>4 DEF Called
<1>10. QED
  BY <1>6, <1>7, <1>8, <1>9 DEF Control

LEMMA InitInLines == Init => LoopInv
<1> SUFFICES ASSUME Init PROVE LoopInv
  OBVIOUS
<1>1. Control
  BY InitControls
<1>2. /\ ran = <<>> /\ batch = <<>> /\ handing = <<>> /\ parked = <<>>
      /\ \A g \in Runs : queue[g] = <<>>
  BY DEF Init
<1>3. Len(<<>>) = 0
  OBVIOUS
<1>4. \A n \in Spots : Lines[n] = <<>>
  <2>1. Lined
    BY <1>1, AreLined DEF Control
  <2>2. \A n \in Spots : n \in {-1, 0, MaxRuns + 1, MaxRuns + 2} \cup Runs
    BY LoopAssumption DEF Spots, Runs
  <2>3. QED
    BY <1>2, <2>1, <2>2 DEF Lined
<1>5. \A n, i, t : ~At(Lines, n, i, t)
  BY <1>3, <1>4 DEF At
<1>6. refused = {} /\ discarded = {} /\ waited = {}
  BY DEF Init
<1>7. Apart(Lines, refused \cup discarded) /\ Numbers /\ LotIsWaited
  BY <1>5, <1>6 DEF Apart, Numbers, LotIsWaited
<1>8. Ordered(Lines, Live, waited)
  BY <1>5 DEF Ordered
<1>9. QED
  BY <1>1, <1>6, <1>7, <1>8 DEF LoopInv, InLines

LEMMA StutteringControls ==
    ASSUME Control, UNCHANGED vars
    PROVE  Control'
<1>1. TypeOK'
  BY DEF Control, TypeOK, vars, data, body, dispatchers, outcome
<1>2. Phases'
  BY DEF Control, Phases, vars, data, body, Runs
<1>3. Dispatchers'
  BY DEF Control, Dispatchers, vars, data, body, dispatchers, Runs
<1>4. Called'
  BY DEF Control, Called, vars
<1>5. QED
  BY <1>1, <1>2, <1>3, <1>4 DEF Control

LEMMA StutteringKeeps ==
    ASSUME LoopInv, UNCHANGED vars
    PROVE  LoopInv'
<1>1. Control /\ Control' /\ run \in Nat
  BY StutteringControls, LivePlaces DEF LoopInv
<1>2. Still /\ UNCHANGED <<call, calls, run>>
  BY DEF vars, data, body, dispatchers, outcome, Still
<1>3. InLines'
  BY <1>1, <1>2, BodyGrows, StillLines, StillKeepsLines DEF LoopInv, Still
<1>4. QED
  BY <1>1, <1>3 DEF LoopInv

LEMMA LoopInvariant == Spec => []LoopInv
<1>1. LoopInv /\ [Next]_vars => LoopInv'
  BY NextKeeps, StutteringKeeps
<1>2. QED
  BY <1>1, InitInLines, PTL DEF Spec

LEMMA ApartIsInOnePlace == LoopInv => InOnePlace
<1> SUFFICES ASSUME LoopInv PROVE InOnePlace
  OBVIOUS
<1>1. TypeOK /\ Lined
  BY AreLined DEF LoopInv, Control
<1>2. DOMAIN Lines = Spots /\ \A n \in Spots : Lines[n] \in Seq(Tasks)
  BY <1>1 DEF Lined, LinesOf
<1>3. \A n \in Spots : \A i \in DOMAIN Lines[n] :
        i \in Nat /\ Lines[n][i] \in Tasks /\ At(Lines, n, i, Lines[n][i])
  BY <1>2 DEF At
<1>4. \A m, n \in Spots : \A i \in DOMAIN Lines[m], j \in DOMAIN Lines[n] :
        Lines[m][i] = Lines[n][j] => m = n /\ i = j
  BY <1>3 DEF LoopInv, InLines, Apart
<1>5. \A n \in Spots : \A t \in ToSet(Lines[n]) : t \notin refused \cup discarded
  BY <1>3 DEF LoopInv, InLines, Apart, ToSet
<1>6. QED
  BY <1>1, <1>2, <1>4, <1>5 DEF LoopInv, InLines, InOnePlace

\* At any time, a task that was posted is in one place, once: waiting to be delivered,
\* queued, in the batch of a pass, run, refused or discarded.  No interleaving of the
\* callers of postEventTo() with the installing, handing over and letting go of a
\* dispatcher runs a task twice, or runs one that was refused or freed.
THEOREM TasksAreInOnePlace == Spec => []InOnePlace
  BY LoopInvariant, ApartIsInOnePlace, PTL

LEMMA OrderedIsRunInOrder == LoopInv => RunsInPostingOrder
<1> SUFFICES ASSUME LoopInv PROVE RunsInPostingOrder
  OBVIOUS
<1>1. ran \in Seq(Tasks) /\ Lines[-1] = ran /\ -1 \in Spots /\ -1 \in Live
  BY AreLined, SpotsOfLines, LivePlaces DEF LoopInv, Control, TypeOK, Lined
<1>2. \A i \in DOMAIN ran : i \in Nat /\ ran[i] \in Tasks /\ At(Lines, -1, i, ran[i])
  BY <1>1 DEF At
<1> SUFFICES ASSUME NEW i \in DOMAIN ran, NEW j \in DOMAIN ran, i < j, ran[i][1] = ran[j][1],
                    (ran[i] \in waited) = (ran[j] \in waited)
             PROVE  ran[i][2] < ran[j][2]
  BY DEF RunsInPostingOrder
<1>3. ran[i] \in waited <=> ran[j] \in waited
  OBVIOUS
<1>4. QED
  BY <1>1, <1>2, <1>3 DEF LoopInv, InLines, Ordered

\* The tasks of one caller run in the order in which it posted them, among those that were
\* parked and among those that were queued at once, over all the runs of the thread: the
\* parked ones are handed over in order, and before anything a later pass takes.
THEOREM TasksRunInOrder == Spec => []RunsInPostingOrder
  BY LoopInvariant, OrderedIsRunInOrder, PTL

-----------------------------------------------------------------------------
(* The thread keeps the promise of TaskDelivery.                           *)

\* What is queued, all dispatchers together, and all the tasks that wait to be run.
Queued == UNION {ToSet(queue[g]) : g \in Runs}
Pending == ToSet(parked) \cup ToSet(handing) \cup ToSet(batch) \cup Queued

Stopped == \E g \in Runs : ~accepting[g]

\* What is pending, has run, was refused or was discarded is not another of these.
Exclusive ==
    /\ ToSet(ran) \cap Pending = {} /\ ToSet(ran) \cap refused = {}
    /\ ToSet(ran) \cap discarded = {} /\ Pending \cap refused = {}
    /\ Pending \cap discarded = {} /\ refused \cap discarded = {}

LEMMA PlacesAreExclusive == LoopInv => Exclusive
<1> SUFFICES ASSUME LoopInv PROVE Exclusive
  OBVIOUS
<1>1. Lined
  BY AreLined DEF LoopInv, Control
<1>2. \A n \in Spots : \A t \in ToSet(Lines[n]) : t \in Tasks /\ \E i \in Nat : At(Lines, n, i, t)
  BY <1>1 DEF Lined, LinesOf, ToSet, At
<1>3. \A m, n \in Spots : m # n => ToSet(Lines[m]) \cap ToSet(Lines[n]) = {}
  BY <1>2 DEF LoopInv, InLines, Apart
<1>4. \A n \in Spots : ToSet(Lines[n]) \cap (refused \cup discarded) = {}
  BY <1>2 DEF LoopInv, InLines, Apart
<1>5. \A t \in Pending : \E n \in Spots : n # -1 /\ t \in ToSet(Lines[n])
  BY <1>1, SpotsOfLines, SpotsDiffer DEF Pending, Queued, Lined
<1>6. -1 \in Spots /\ Lines[-1] = ran
  BY <1>1, SpotsOfLines DEF Lined
<1>7. ToSet(ran) \cap Pending = {}
  BY <1>3, <1>5, <1>6
<1>8. Pending \cap (refused \cup discarded) = {}
  BY <1>4, <1>5
<1>9. QED
  BY <1>4, <1>6, <1>7, <1>8 DEF LoopInv, InLines, Exclusive

\* The fate of a task is where it is.
Telling ==
    \A t \in Tasks :
        /\ t \in ToSet(ran) => Fate(t) = "ran"
        /\ t \in refused => Fate(t) = "refused"
        /\ t \in discarded => Fate(t) = "discarded"
        /\ t \in Pending => Fate(t) = "accepted"
        /\ t \notin ToSet(ran) \cup refused \cup discarded \cup Pending => Fate(t) = "unposted"

LEMMA FateTells == LoopInv => Telling
<1> SUFFICES ASSUME LoopInv, NEW t \in Tasks
             PROVE  /\ t \in ToSet(ran) => Fate(t) = "ran"
                    /\ t \in refused => Fate(t) = "refused"
                    /\ t \in discarded => Fate(t) = "discarded"
                    /\ t \in Pending => Fate(t) = "accepted"
                    /\ t \notin ToSet(ran) \cup refused \cup discarded \cup Pending
                        => Fate(t) = "unposted"
  BY DEF Telling
<1>1. Exclusive /\ Lined /\ DOMAIN Lines = Spots
  BY PlacesAreExclusive, AreLined DEF LoopInv, Control, Lined, LinesOf
<1>2. \A n \in Spots : n \in {-1, 0, MaxRuns + 1, MaxRuns + 2} \cup Runs
  BY LoopAssumption DEF Spots, Runs
<1>3. (\E n \in DOMAIN Lines \ {-1} : t \in ToSet(Lines[n])) <=> t \in Pending
  <2>1. ASSUME NEW n \in Spots \ {-1}, t \in ToSet(Lines[n])
        PROVE  t \in Pending
    BY <1>1, <1>2, <2>1 DEF Lined, Pending, Queued
  <2>2. ASSUME t \in Pending
        PROVE  \E n \in Spots \ {-1} : t \in ToSet(Lines[n])
    BY <1>1, <2>2, SpotsOfLines, SpotsDiffer DEF Lined, Pending, Queued
  <2>3. QED
    BY <1>1, <2>1, <2>2
<1> DEFINE inLine == \E n \in DOMAIN Lines \ {-1} : t \in ToSet(Lines[n])
<1>4. Fate(t) = CASE t \in ToSet(ran) -> "ran"
                  [] t \in refused -> "refused"
                  [] t \in discarded -> "discarded"
                  [] inLine -> "accepted"
                  [] OTHER -> "unposted"
  BY DEF Fate
<1>5. inLine <=> t \in Pending
  BY <1>3
<1> HIDE DEF inLine
<1>6. QED
  BY <1>1, <1>4, <1>5 DEF Exclusive

LEMMA StillTells == LoopInv' => Exclusive' /\ Telling'
  BY PlacesAreExclusive, FateTells, PTL

\* A step that answers callers or frees what a closed loop holds.
Answering ==
    /\ ToSet(ran)' = ToSet(ran)
    /\ refused \subseteq refused' /\ discarded \subseteq discarded'
    /\ Pending \subseteq Pending' \cup discarded'
    /\ discarded' \subseteq discarded \cup Pending
    /\ discarded' # discarded => Stopped
    /\ Stopped' <=> Stopped

LEMMA AnsweringFates ==
    ASSUME LoopInv, LoopInv', Answering, NEW t \in Tasks, Fate(t)' # Fate(t)
    PROVE  \/ Fate(t) = "unposted" /\ Fate(t)' \in {"accepted", "refused"}
           \/ Fate(t) = "accepted" /\ Fate(t)' = "discarded" /\ Stopped
<1>1. Exclusive /\ Telling /\ Exclusive' /\ Telling'
  BY PlacesAreExclusive, FateTells, StillTells
<1>2. t \in Tasks'
  BY DEF Tasks
<1>3. QED
  BY <1>1, <1>2 DEF Answering, Exclusive, Telling

LEMMA AnsweringIsAllowed ==
    ASSUME LoopInv, LoopInv', Answering
    PROVE  Delivery!Next
<1> DEFINE ts == {t \in Tasks : Fate(t)' # Fate(t)}
<1>1. \A t \in ts : \/ Fate(t) = "unposted" /\ Fate(t)' \in {"accepted", "refused"}
                    \/ Fate(t) = "accepted" /\ Fate(t)' = "discarded" /\ Stopped
  BY AnsweringFates
<1>2. ts \in SUBSET Tasks
  OBVIOUS
<1>3. Delivery!Answer(ts)
  BY <1>1 DEF Delivery!Answer, Delivery!Move, Delivery!Answers, Delivery!Discards, Answering,
     Stopped
<1>4. QED
  BY <1>2, <1>3 DEF Delivery!Next

\* A line that gains or loses its first is a set that gains or loses an element.
LEMMA SetsOfLines ==
    /\ ToSet(<<>>) = {}
    /\ \A s \in Seq(Tasks), t \in Tasks : ToSet(Append(s, t)) = ToSet(s) \cup {t}
    /\ \A s \in Seq(Tasks) : s # <<>> => ToSet(s) = ToSet(Tail(s)) \cup {Head(s)}
<1>1. ToSet(<<>>) = {}
  BY DEF ToSet
<1>2. ASSUME NEW s \in Seq(Tasks), NEW t \in Tasks
      PROVE  ToSet(Append(s, t)) = ToSet(s) \cup {t}
  <2>1. /\ DOMAIN Append(s, t) = 1..Len(s) + 1 /\ Append(s, t)[Len(s) + 1] = t
        /\ \A i \in 1..Len(s) : Append(s, t)[i] = s[i]
        /\ DOMAIN s = 1..Len(s) /\ Len(s) \in Nat
    OBVIOUS
  <2>2. QED
    BY <2>1 DEF ToSet
<1>3. ASSUME NEW s \in Seq(Tasks), s # <<>>
      PROVE  ToSet(s) = ToSet(Tail(s)) \cup {Head(s)}
  <2>1. /\ DOMAIN s = 1..Len(s) /\ Len(s) \in Nat \ {0} /\ Head(s) = s[1]
        /\ DOMAIN Tail(s) = 1..Len(s) - 1
        /\ \A i \in 1..Len(s) - 1 : Tail(s)[i] = s[i + 1]
    BY <1>3
  <2>2. \A i \in 2..Len(s) : i - 1 \in 1..Len(s) - 1 /\ s[i] = Tail(s)[i - 1]
    BY <2>1
  <2>3. \A i \in 1..Len(s) - 1 : i + 1 \in 1..Len(s)
    BY <2>1
  <2>4. \A i \in 1..Len(s) : i = 1 \/ i \in 2..Len(s)
    BY <2>1
  <2>5. ToSet(s) \subseteq ToSet(Tail(s)) \cup {Head(s)}
    <3> SUFFICES ASSUME NEW i \in 1..Len(s)
                 PROVE  s[i] \in ToSet(Tail(s)) \cup {Head(s)}
      BY <2>1 DEF ToSet
    <3>1. CASE i = 1
      BY <2>1, <3>1
    <3>2. CASE i \in 2..Len(s)
      BY <2>1, <2>2, <3>2 DEF ToSet
    <3>3. QED
      BY <2>4, <3>1, <3>2
  <2>6. ToSet(Tail(s)) \cup {Head(s)} \subseteq ToSet(s)
    BY <2>1, <2>3 DEF ToSet
  <2>7. QED
    BY <2>5, <2>6
<1>4. QED
  BY <1>1, <1>2, <1>3

LEMMA StoppedStays == UNCHANGED accepting => (Stopped' <=> Stopped)
  BY DEF Stopped, Runs

LEMMA QueuedChanges ==
    ASSUME queue \in [Runs -> Seq(Tasks)], NEW g \in Runs, NEW s,
           queue' = [queue EXCEPT ![g] = s]
    PROVE  /\ Queued \subseteq Queued' \cup ToSet(queue[g])
           /\ ToSet(s) \subseteq Queued'
           /\ ToSet(queue[g]) \subseteq Queued
           /\ Queued' \subseteq Queued \cup ToSet(s)
<1>1. queue'[g] = s /\ \A h \in Runs \ {g} : queue'[h] = queue[h]
  OBVIOUS
<1>2. Runs' = Runs
  BY DEF Runs
<1>3. QED
  BY <1>1, <1>2 DEF Queued

\* Steps that leave what is pending as it is.
LEMMA StillAnswers ==
    ASSUME Still, UNCHANGED accepting
    PROVE  Answering
<1>1. Pending' = Pending
  BY DEF Still, Pending, Queued, Runs
<1>2. QED
  BY <1>1, StoppedStays DEF Still, Answering

LEMMA InstallAnswers ==
    ASSUME LoopInv, Install
    PROVE  Answering
<1>1. handing = <<>> /\ UNCHANGED accepting
  BY DEF LoopInv, Control, Phases, Install, dispatchers
<1>2. /\ UNCHANGED <<batch, queue, ran, refused, discarded>> /\ handing' = parked
      /\ parked' = <<>>
  BY InstallMoves
<1>3. Pending' = Pending
  BY <1>1, <1>2, SetsOfLines DEF Pending, Queued, Runs
<1>4. QED
  BY <1>1, <1>2, <1>3, StoppedStays DEF Answering

LEMMA HandOverAnswers ==
    ASSUME LoopInv, HandOver
    PROVE  Answering
<1>1. UNCHANGED accepting /\ run \in Runs
  BY DEF LoopInv, Control, Phases, HandOver
<1>2. UNCHANGED <<parked, batch, ran, refused, discarded, waited>>
  BY HandOverMoves
<1>3. CASE UNCHANGED <<handing, queue>>
  BY <1>1, <1>2, <1>3, StillAnswers DEF Still
<1>4. CASE /\ handing # <<>> /\ handing' = Tail(handing)
           /\ queue' = [queue EXCEPT ![run] = Append(@, Head(handing))]
  <2>1. handing \in Seq(Tasks) /\ queue \in [Runs -> Seq(Tasks)]
    BY DEF LoopInv, Control, TypeOK
  <2>2. queue[run] \in Seq(Tasks) /\ Head(handing) \in Tasks
    BY <1>1, <1>4, <2>1, SequencesOfTasks
  <2>3. ToSet(Append(queue[run], Head(handing))) = ToSet(queue[run]) \cup {Head(handing)}
    BY <2>2, SetsOfLines
  <2>4. ToSet(handing) = ToSet(handing') \cup {Head(handing)}
    BY <1>4, <2>1, SetsOfLines
  <2>5. /\ Queued \subseteq Queued' \cup ToSet(queue[run])
        /\ ToSet(queue[run]) \cup {Head(handing)} \subseteq Queued'
        /\ Queued' \subseteq Queued \cup {Head(handing)}
    BY <1>1, <1>4, <2>1, <2>3, QueuedChanges
  <2>6. Queued' = Queued \cup {Head(handing)}
    BY <2>5
  <2>7. Pending' = ToSet(parked)' \cup ToSet(handing)' \cup ToSet(batch)' \cup Queued'
    BY DEF Pending
  <2>8. Pending' = Pending
    BY <1>2, <2>4, <2>6, <2>7 DEF Pending
  <2>9. QED
    BY <1>1, <1>2, <2>8, StoppedStays DEF Answering
<1>5. QED
  BY <1>3, <1>4, HandOverMoves

LEMMA TakingAnswers ==
    ASSUME LoopInv, Pass \/ WakeUp
    PROVE  Answering
<1>1. UNCHANGED accepting /\ run \in Runs /\ batch = <<>>
  BY DEF LoopInv, Control, Phases, Pass, WakeUp
<1>2. UNCHANGED <<parked, handing, ran, refused, discarded, waited>>
  BY TakingMoves
<1>3. CASE UNCHANGED <<batch, queue>>
  BY <1>1, <1>2, <1>3, StillAnswers DEF Still
<1>4. CASE batch' = queue[run] /\ queue' = [queue EXCEPT ![run] = <<>>]
  <2>1. queue \in [Runs -> Seq(Tasks)] /\ ToSet(batch) = {} /\ ToSet(<<>>) = {}
    BY <1>1, SetsOfLines DEF LoopInv, Control, TypeOK
  <2>2. /\ Queued \subseteq Queued' \cup ToSet(queue[run])
        /\ ToSet(queue[run]) \subseteq Queued
        /\ Queued' \subseteq Queued \cup ToSet(<<>>)
    BY <1>1, <1>4, <2>1, QueuedChanges
  <2>3. Queued' \cup ToSet(batch)' = Queued
    BY <1>4, <2>1, <2>2
  <2>4. Pending' = ToSet(parked)' \cup ToSet(handing)' \cup ToSet(batch)' \cup Queued'
    BY DEF Pending
  <2>5. Pending' = Pending
    BY <1>2, <2>1, <2>3, <2>4 DEF Pending
  <2>6. QED
    BY <1>1, <1>2, <2>5, StoppedStays DEF Answering
<1>5. QED
  BY <1>3, <1>4, TakingMoves

\* Freeing what is left in a closed queue.
LEMMA FreeingAnswers ==
    ASSUME LoopInv, NEW g \in Runs, Frees(g), UNCHANGED <<parked, handing, batch, ran, accepting>>,
           refused \subseteq refused', discarded' # discarded => ~accepting[g]
    PROVE  Answering
<1>1. CASE UNCHANGED <<queue, discarded>>
  <2>1. Pending' = Pending
    BY <1>1 DEF Pending, Queued, Runs
  <2>2. QED
    BY <1>1, <2>1, StoppedStays DEF Answering
<1>2. CASE discarded' = discarded \cup ToSet(queue[g]) /\ queue' = [queue EXCEPT ![g] = <<>>]
  <2>1. queue \in [Runs -> Seq(Tasks)] /\ ToSet(<<>>) = {}
    BY SetsOfLines DEF LoopInv, Control, TypeOK
  <2>2. /\ Queued \subseteq Queued' \cup ToSet(queue[g])
        /\ ToSet(queue[g]) \subseteq Queued
    BY <1>2, <2>1, QueuedChanges
  <2>3. Pending' = ToSet(parked)' \cup ToSet(handing)' \cup ToSet(batch)' \cup Queued'
    BY DEF Pending
  <2>4. Pending \subseteq Pending' \cup discarded' /\ discarded' \subseteq discarded \cup Pending
    BY <1>2, <2>2, <2>3 DEF Pending
  <2>5. discarded' # discarded => Stopped
    BY DEF Stopped
  <2>6. QED
    BY <1>2, <2>4, <2>5, StoppedStays DEF Answering
<1>3. QED
  BY <1>1, <1>2 DEF Frees

LEMMA LetGoAnswers ==
    ASSUME LoopInv, LetGo
    PROVE  Answering
<1>1. run \in Runs /\ ~accepting[run] /\ UNCHANGED accepting
  BY DEF LoopInv, Control, Phases, Dispatchers, LetGo
<1>2. QED
  BY <1>1, LetGoMoves, FreeingAnswers

LEMMA InterruptAnswers ==
    ASSUME LoopInv, NEW c \in Callers, Interrupt(c)
    PROVE  Answering
<1>1. call[c].target \in Runs /\ UNCHANGED accepting
  BY TargetIsRun DEF LoopInv, Interrupt
<1>2. discarded' # discarded => dispatcher # call[c].target
  BY DEF Interrupt, DropReference
<1>3. discarded' # discarded => ~accepting[call[c].target]
  BY <1>1, <1>2 DEF LoopInv, Control, Dispatchers
<1>4. QED
  BY <1>1, <1>3, InterruptMoves, FreeingAnswers

LEMMA RouteAnswers ==
    ASSUME LoopInv, NEW c \in Callers, Route(c)
    PROVE  Answering
<1>1. UNCHANGED <<handing, batch, queue, ran, discarded, accepting>>
  BY DEF Route, body, dispatchers
<1>2. CASE UNCHANGED parked
  <2>1. Pending' = Pending
    BY <1>1, <1>2 DEF Pending, Queued, Runs
  <2>2. QED
    BY <1>1, <2>1, RouteMoves, StoppedStays DEF Answering
<1>3. CASE parked' = Append(parked, Task(c)) /\ UNCHANGED refused
  <2>1. parked \in Seq(Tasks) /\ Task(c) \in Tasks
    BY TaskIsOne DEF LoopInv, Control, TypeOK, Route
  <2>2. ToSet(parked)' = ToSet(parked) \cup {Task(c)}
    BY <1>3, <2>1, SetsOfLines
  <2>3. Pending \subseteq Pending'
    BY <1>1, <2>2 DEF Pending, Queued, Runs
  <2>4. QED
    BY <1>1, <1>3, <2>3, StoppedStays DEF Answering
<1>4. QED
  BY <1>2, <1>3, RouteMoves

LEMMA PostToAnswers ==
    ASSUME LoopInv, NEW c \in Callers, PostTo(c)
    PROVE  Answering
<1>1. call[c].target \in Runs /\ UNCHANGED accepting /\ UNCHANGED <<parked, handing, batch, ran>>
  BY TargetIsRun, PostToMoves DEF LoopInv, PostTo
<1>2. CASE ~accepting[call[c].target]
  BY <1>1, <1>2, PostToMoves, FreeingAnswers
<1>3. CASE accepting[call[c].target]
  <2>1. /\ queue' = [queue EXCEPT ![call[c].target] = Append(@, Task(c))]
        /\ UNCHANGED <<refused, discarded>>
    BY <1>3, PostToMoves
  <2>2. queue \in [Runs -> Seq(Tasks)] /\ Task(c) \in Tasks
    BY TaskIsOne DEF LoopInv, Control, TypeOK, PostTo
  <2>3. queue[call[c].target] \in Seq(Tasks)
    BY <1>1, <2>2
  <2>4. ToSet(Append(queue[call[c].target], Task(c)))
            = ToSet(queue[call[c].target]) \cup {Task(c)}
    BY <2>2, <2>3, SetsOfLines
  <2>5. Queued \subseteq Queued'
    BY <1>1, <2>1, <2>2, <2>4, QueuedChanges
  <2>6. Pending' = ToSet(parked)' \cup ToSet(handing)' \cup ToSet(batch)' \cup Queued'
    BY DEF Pending
  <2>7. Pending \subseteq Pending'
    BY <1>1, <2>5, <2>6 DEF Pending
  <2>8. QED
    BY <1>1, <2>1, <2>7, StoppedStays DEF Answering
<1>4. QED
  BY <1>2, <1>3

LEMMA StutteringAnswers == UNCHANGED vars => Answering
<1>1. UNCHANGED vars => Still /\ UNCHANGED accepting
  BY DEF vars, data, body, dispatchers, outcome, Still
<1>2. QED
  BY <1>1, StillAnswers

\* All steps but two answer a caller, or free what a closed loop holds, or nothing.
LEMMA OthersAnswer ==
    ASSUME LoopInv, Next, ~Dispatch, ~CloseQueue
    PROVE  Answering
<1>1. CASE Start \/ Launch \/ CheckExit \/ ReportEnd
  <2>1. UNCHANGED accepting
    BY <1>1 DEF Start, Launch, CheckExit, ReportEnd, dispatchers
  <2>2. QED
    BY <1>1, <2>1, StillSteps, StillAnswers
<1>2. CASE Install \/ HandOver \/ Pass \/ WakeUp \/ LetGo
  BY <1>2, InstallAnswers, HandOverAnswers, TakingAnswers, LetGoAnswers
<1>3. ASSUME NEW c \in Callers,
             \/ \E op \in {"post", "invoke"} : Post(c, op)
             \/ Exit(c) \/ Settled(c) \/ FetchDispatcher(c)
      PROVE  Answering
  <2>1. UNCHANGED accepting
    BY <1>3 DEF Post, Exit, Settled, FetchDispatcher, dispatchers
  <2>2. QED
    BY <1>3, <2>1, StillSteps, StillAnswers
<1>4. ASSUME NEW c \in Callers, Route(c) \/ PostTo(c) \/ Interrupt(c)
      PROVE  Answering
  BY <1>4, RouteAnswers, PostToAnswers, InterruptAnswers
<1>5. QED
  BY <1>1, <1>2, <1>3, <1>4 DEF Next, Body, Proceed

LEMMA CloseQueueStops ==
    ASSUME LoopInv, LoopInv', CloseQueue
    PROVE  Delivery!Next
<1>1. run \in Runs /\ accepting \in [Runs -> BOOLEAN]
      /\ accepting' = [accepting EXCEPT ![run] = FALSE]
  BY DEF LoopInv, Control, TypeOK, Phases, CloseQueue
<1>2. Stopped'
  <2>1. Runs' = Runs
    BY DEF Runs
  <2>2. QED
    BY <1>1, <2>1 DEF Stopped
<1>3. Still
  BY StillSteps
<1>4. Lines' = Lines
  BY <1>3 DEF Still, Lines, Runs
<1>5. \A t \in Tasks : Fate(t)' = Fate(t)
  BY <1>3, <1>4 DEF Fate, Still
<1>6. Tasks' = Tasks
  BY DEF Tasks
<1>7. Delivery!Stop
  BY <1>2, <1>5, <1>6 DEF Delivery!Stop, Stopped
<1>8. QED
  BY <1>7 DEF Delivery!Next

LEMMA DispatchRuns ==
    ASSUME LoopInv, LoopInv', Dispatch, ~Answering
    PROVE  Delivery!Next
<1>1. /\ UNCHANGED <<parked, handing, queue, refused, discarded, accepting>>
      /\ batch \in Seq(Tasks) /\ ran \in Seq(Tasks)
  BY DispatchMoves DEF LoopInv, Control, TypeOK, Dispatch, dispatchers
<1>2. batch # <<>> /\ batch' = Tail(batch) /\ ran' = Append(ran, Head(batch))
  <2>1. SUFFICES ASSUME UNCHANGED <<batch, ran>>
                 PROVE  FALSE
    BY DispatchMoves
  <2>2. Answering
    BY <1>1, <2>1, DispatchMoves, StillAnswers DEF Still
  <2>3. QED
    BY <2>2
<1>3. PICK h \in Tasks : /\ ToSet(batch) = ToSet(batch)' \cup {h}
                         /\ ToSet(ran)' = ToSet(ran) \cup {h}
  BY <1>1, <1>2, SequencesOfTasks, SetsOfLines
<1>4. Queued' = Queued
  BY <1>1 DEF Queued, Runs
<1>5. Pending = Pending' \cup {h}
  BY <1>1, <1>3, <1>4 DEF Pending
<1>6. Telling /\ Telling' /\ Exclusive /\ Exclusive'
  BY PlacesAreExclusive, FateTells, StillTells
<1>7. Tasks' = Tasks
  BY DEF Tasks
<1>8. h \in Pending /\ h \in ToSet(ran)'
  BY <1>3, <1>5
<1>9. Fate(h) = "accepted" /\ Fate(h)' = "ran"
  BY <1>3, <1>6, <1>7, <1>8 DEF Telling
<1>10. ASSUME NEW t \in Tasks, t # h
       PROVE  Fate(t)' = Fate(t)
  BY <1>1, <1>3, <1>5, <1>6, <1>7, <1>10 DEF Telling
<1>11. Stopped' <=> Stopped
  BY <1>1, StoppedStays
<1>12. Delivery!Run(h)
  BY <1>3, <1>9, <1>10, <1>11 DEF Delivery!Run, Delivery!Move, Delivery!Runs, Stopped
<1>13. QED
  BY <1>3, <1>12 DEF Delivery!Next

\* The thread, with whatever calls and runs, does for each task what TaskDelivery
\* promises: it is refused and never runs, or is accepted and runs at most once, or is
\* discarded, which only a loop that has ended does.
THEOREM LoopImplementsTaskDelivery == Spec => ImplementsTaskDelivery
<1>1. Init => Delivery!Init
  <2> SUFFICES ASSUME Init PROVE Delivery!Init
    OBVIOUS
  <2>1. LoopInv
    BY InitInLines
  <2>2. Telling
    BY <2>1, FateTells
  <2>3. ToSet(ran) = {} /\ Pending = {} /\ refused = {} /\ discarded = {}
    BY SetsOfLines DEF Init, Pending, Queued
  <2>4. \A t \in Tasks : Fate(t) = "unposted"
    BY <2>2, <2>3 DEF Telling
  <2>5. ~Stopped
    BY DEF Init, Stopped
  <2>6. QED
    BY <2>4, <2>5 DEF Delivery!Init, Stopped
<1>2. LoopInv /\ LoopInv' /\ [Next]_vars => [Delivery!Next]_(Delivery!vars)
  <2> SUFFICES ASSUME LoopInv, LoopInv', [Next]_vars PROVE Delivery!Next
    OBVIOUS
  <2>1. CASE Answering
    BY <2>1, AnsweringIsAllowed
  <2>2. CASE ~Answering
    BY <2>2, OthersAnswer, StutteringAnswers, CloseQueueStops, DispatchRuns
  <2>3. QED
    BY <2>1, <2>2
<1>3. QED
  BY <1>1, <1>2, LoopInvariant, PTL DEF Spec, ImplementsTaskDelivery, Delivery!Spec

=============================================================================
