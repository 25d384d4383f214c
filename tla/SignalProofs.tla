---------------------------- MODULE SignalProofs ----------------------------
(***************************************************************************)
(* Theorems about Signal, for every value of its constants: however many   *)
(* threads connect, disconnect, emit and destroy, the three lists that     *)
(* know a connection agree, emissions run in order and none runs a slot of *)
(* an object being destroyed.                                              *)
(***************************************************************************)
EXTENDS Signal, SubsequencesProofs, FiniteSetTheorems

-----------------------------------------------------------------------------
(* Stacks.  Below the innermost operation of a thread there are only slots:  *)
(* what the thread is in the middle of is the innermost.                     *)

Doing(t) == IF Busy(t) /\ Top(t).at # "slot" THEN {Top(t)} ELSE {}

Nested ==
    \A t \in Threads : \A k \in Positions(stack[t]) : k < Len(stack[t]) => stack[t][k].at = "slot"

Stacked == stack \in [Threads -> Seq(Operation)] /\ Nested

\* A step of thread t that leaves it with the operation op, or with what it came from.
LeftWith(t, op) ==
    /\ Stacked'
    /\ \A u \in Threads \ {t} : stack'[u] = stack[u] /\ Doing(u)' = Doing(u)
    /\ Doing(t)' = IF op.at = "slot" THEN {} ELSE {op}
    /\ Ops' \subseteq Ops \cup {op}
    /\ stack'[t] # <<>> /\ Last(stack'[t]) = op

LeftAlone(t) ==
    /\ Stacked'
    /\ \A u \in Threads \ {t} : stack'[u] = stack[u] /\ Doing(u)' = Doing(u)
    /\ Doing(t)' = {}
    /\ Ops' \subseteq Ops
    /\ Len(stack'[t]) < Len(stack[t])

LEMMA DoingIsInOps ==
    ASSUME Stacked
    PROVE  /\ \A t \in Threads : \A op \in Doing(t) : op \in Ops /\ Busy(t) /\ op = Top(t) /\ op.at # "slot"
           /\ \A op \in Ops : op.at # "slot" => \E t \in Threads : op \in Doing(t)
           /\ Ops \subseteq Operation
<1>1. ASSUME NEW t \in Threads
      PROVE  /\ \A op \in Doing(t) : op \in Ops /\ Busy(t) /\ op = Top(t) /\ op.at # "slot"
             /\ \A op \in Range(stack[t]) : op \in Operation /\ (op.at # "slot" => op \in Doing(t))
  <2>1. PICK s \in Seq(Operation) : s = stack[t]  BY DEF Stacked
  <2>2. Len(s) \in Nat /\ (s # <<>> => Len(s) \in 1 .. Len(s))  OBVIOUS
  <2>3. Range(s) = {s[k] : k \in 1 .. Len(s)}  BY DEF Range
  <2>4. Busy(t) <=> s # <<>>  BY <2>1 DEF Busy
  <2>5. Top(t) = s[Len(s)]  BY <2>1 DEF Top, Last
  <2>6. \A k \in 1 .. Len(s) : k < Len(s) => s[k].at = "slot"
    BY <2>1 DEF Stacked, Nested, Positions
  <2>7. Busy(t) => Top(t) \in Range(s)  BY <2>2, <2>3, <2>4, <2>5
  <2>8. \A op \in Doing(t) : Busy(t) /\ op = Top(t) /\ op.at # "slot"  BY DEF Doing
  <2>9. \A op \in Range(s) : op \in Operation  BY <2>3
  <2>10. ASSUME NEW op \in Range(s), op.at # "slot" PROVE op \in Doing(t)
    <3>1. PICK k \in 1 .. Len(s) : s[k] = op  BY <2>3, <2>10
    <3>2. k = Len(s)  BY <2>2, <2>6, <2>10, <3>1
    <3>3. s # <<>>  BY <3>1
    <3> QED  BY <2>4, <2>5, <2>10, <3>1, <3>2, <3>3 DEF Doing
  <2> QED  BY <2>1, <2>7, <2>8, <2>9, <2>10 DEF Ops
<1> QED  BY <1>1 DEF Ops

\* The threads that did not move.
LEMMA OthersStay ==
    ASSUME NEW t, \A u \in Threads \ {t} : stack'[u] = stack[u]
    PROVE  \A u \in Threads \ {t} : Doing(u)' = Doing(u)
BY DEF Doing, Busy, Top

LEMMA PushLeaves ==
    ASSUME Stacked, NEW t \in Threads, NEW op \in Operation,
           Busy(t) => Top(t).at = "slot", Push(t, op)
    PROVE  LeftWith(t, op) /\ Doing(t) = {} /\ Len(stack'[t]) = Len(stack[t]) + 1
<1>1. PICK s \in Seq(Operation) : s = stack[t]  BY DEF Stacked
<1>2. PICK z : z = Append(s, op)  OBVIOUS
<1>3. /\ z \in Seq(Operation) /\ Len(z) = Len(s) + 1 /\ Len(s) \in Nat
      /\ \A k \in 1 .. Len(s) : z[k] = s[k]
      /\ z[Len(s) + 1] = op
  BY <1>2, AppendProperties
<1>4. stack' = [stack EXCEPT ![t] = z] /\ stack \in [Threads -> Seq(Operation)]
  BY <1>1, <1>2 DEF Push, Stacked
<1>5. stack'[t] = z /\ \A u \in Threads \ {t} : stack'[u] = stack[u]  BY <1>4
<1>6. stack' \in [Threads -> Seq(Operation)]  BY <1>3, <1>4
<1>7. \A k \in 1 .. Len(s) : s[k].at = "slot"
  <2> TAKE k \in 1 .. Len(s)
  <2>1. CASE k < Len(s)  BY <1>1, <2>1 DEF Stacked, Nested, Positions
  <2>2. CASE k = Len(s)
    <3>1. s # <<>>  BY <1>3, <2>2
    <3>2. Top(t) = s[k] /\ Busy(t)  BY <1>1, <2>2, <3>1 DEF Top, Last, Busy
    <3> QED  BY <3>2
  <2> QED  BY <1>3, <2>1, <2>2
<1>8. Nested'
  <2> SUFFICES ASSUME NEW u \in Threads, NEW k \in 1 .. Len(stack'[u]), k < Len(stack'[u])
               PROVE  stack'[u][k].at = "slot"
    BY DEF Nested, Positions
  <2>1. CASE u = t
    <3>1. k \in 1 .. Len(s)  BY <1>3, <1>5, <2>1
    <3> QED  BY <1>3, <1>5, <1>7, <2>1, <3>1
  <2>2. CASE u # t  BY <1>5, <2>2 DEF Stacked, Nested, Positions
  <2> QED  BY <2>1, <2>2
<1>9. z # <<>> /\ Last(z) = op  BY <1>3 DEF Last
<1>10. Doing(t)' = IF op.at = "slot" THEN {} ELSE {op}  BY <1>5, <1>9 DEF Doing, Busy, Top
<1>11. Doing(t) = {}  BY DEF Doing
<1>12. Ops' \subseteq Ops \cup {op}
  <2>1. Range(z) \subseteq Range(s) \cup {op}
    <3> SUFFICES ASSUME NEW k \in 1 .. Len(z) PROVE z[k] = op \/ \E l \in 1 .. Len(s) : z[k] = s[l]
      BY <1>3 DEF Range
    <3>1. k \in 1 .. Len(s) \/ k = Len(s) + 1  BY <1>3
    <3> QED  BY <1>3, <3>1
  <2>2. \A u \in Threads : Range(stack'[u]) \subseteq Range(stack[u]) \cup {op}  BY <1>1, <1>5, <2>1
  <2> QED  BY <2>2 DEF Ops
<1> QED  BY <1>1, <1>3, <1>5, <1>6, <1>8, <1>9, <1>10, <1>11, <1>12, OthersStay DEF LeftWith, Stacked

\* The stack under the innermost operation.
LEMMA FrontOf ==
    ASSUME NEW S, NEW s \in Seq(S), s # <<>>
    PROVE  /\ Front(s) \in Seq(S) /\ Len(Front(s)) = Len(s) - 1 /\ Len(s) \in Nat
           /\ \A k \in 1 .. Len(s) - 1 : Front(s)[k] = s[k]
<1> DEFINE n == Len(s) - 1
<1>1. n \in Int /\ n >= 0 /\ Len(s) \in Nat /\ n = Len(s) - 1  OBVIOUS
<1>2. \A k \in 1 .. n : k \in 1 .. Len(s)  BY <1>1
<1>3. Front(s) = SubSeq(s, 1, n)  BY DEF Front
<1> HIDE DEF n
<1>4. \A k \in 1 .. n : s[k] \in S  BY <1>2
<1>5. /\ SubSeq(s, 1, n) \in Seq(S)
      /\ Len(SubSeq(s, 1, n)) = IF 1 <= n THEN n - 1 + 1 ELSE 0
      /\ \A k \in 1 .. n - 1 + 1 : SubSeq(s, 1, n)[k] = s[1 + k - 1]
  BY <1>1, <1>4, SubSeqProperties
<1>6. Len(SubSeq(s, 1, n)) = n /\ \A k \in 1 .. n : SubSeq(s, 1, n)[k] = s[k]
  BY <1>1, <1>5
<1> QED  BY <1>1, <1>3, <1>5, <1>6

LEMMA PopLeaves ==
    ASSUME Stacked, NEW t \in Threads, Busy(t), Pop(t)
    PROVE  LeftAlone(t)
<1>1. PICK s \in Seq(Operation) : s = stack[t]  BY DEF Stacked
<1>2. PICK z : z = Front(s)  OBVIOUS
<1>0. s # <<>>  BY <1>1 DEF Busy
<1>3. /\ z \in Seq(Operation) /\ Len(z) = Len(s) - 1 /\ Len(s) \in Nat
      /\ \A k \in 1 .. Len(s) - 1 : z[k] = s[k]
  BY <1>0, <1>2, FrontOf
<1>4. stack' = [stack EXCEPT ![t] = z] /\ stack \in [Threads -> Seq(Operation)]
  BY <1>1, <1>2 DEF Pop, Stacked
<1>5. stack'[t] = z /\ \A u \in Threads \ {t} : stack'[u] = stack[u]  BY <1>4
<1>6. stack' \in [Threads -> Seq(Operation)]  BY <1>3, <1>4
<1>7. \A k \in 1 .. Len(z) : z[k].at = "slot" /\ z[k] = s[k] /\ k \in 1 .. Len(s)
  BY <1>1, <1>3 DEF Stacked, Nested, Positions
<1>8. Nested'
  <2> SUFFICES ASSUME NEW u \in Threads, NEW k \in 1 .. Len(stack'[u]), k < Len(stack'[u])
               PROVE  stack'[u][k].at = "slot"
    BY DEF Nested, Positions
  <2>1. CASE u = t  BY <1>5, <1>7, <2>1
  <2>2. CASE u # t  BY <1>5, <2>2 DEF Stacked, Nested, Positions
  <2> QED  BY <2>1, <2>2
<1>9. Doing(t)' = {}
  <2>1. z # <<>> => Last(z).at = "slot"
    <3>1. z # <<>> => Len(z) \in 1 .. Len(z)  BY <1>3
    <3> QED  BY <1>7, <3>1 DEF Last
  <2> QED  BY <1>5, <2>1 DEF Doing, Busy, Top
<1>10. Ops' \subseteq Ops
  <2>1. Range(z) \subseteq Range(s)  BY <1>3, <1>7 DEF Range
  <2>2. \A u \in Threads : Range(stack'[u]) \subseteq Range(stack[u])  BY <1>1, <1>5, <2>1
  <2> QED  BY <2>2 DEF Ops
<1>11. Len(stack'[t]) < Len(stack[t])  BY <1>1, <1>3, <1>5
<1>12. \A u \in Threads \ {t} : Doing(u)' = Doing(u)  BY <1>5, OthersStay
<1> QED  BY <1>5, <1>6, <1>8, <1>9, <1>10, <1>11, <1>12 DEF LeftAlone, Stacked

LEMMA BecomesLeaves ==
    ASSUME Stacked, NEW t \in Threads, NEW op \in Operation, Busy(t), Becomes(t, op)
    PROVE  LeftWith(t, op) /\ Len(stack'[t]) = Len(stack[t])
<1>1. PICK s \in Seq(Operation) : s = stack[t]  BY DEF Stacked
<1>2. PICK f : f = Front(s)  OBVIOUS
<1>0. s # <<>>  BY <1>1 DEF Busy
<1>3. /\ f \in Seq(Operation) /\ Len(f) = Len(s) - 1 /\ Len(s) \in Nat
      /\ \A k \in 1 .. Len(s) - 1 : f[k] = s[k]
  BY <1>0, <1>2, FrontOf
<1>4. PICK z : z = Append(f, op)  OBVIOUS
<1>5. /\ z \in Seq(Operation) /\ Len(z) = Len(s)
      /\ \A k \in 1 .. Len(s) - 1 : z[k] = s[k]
      /\ z[Len(s)] = op
  BY <1>3, <1>4, AppendProperties
<1>6. stack' = [stack EXCEPT ![t] = z] /\ stack \in [Threads -> Seq(Operation)]
  BY <1>1, <1>2, <1>4 DEF Becomes, Stacked
<1>7. stack'[t] = z /\ \A u \in Threads \ {t} : stack'[u] = stack[u]  BY <1>6
<1>8. stack' \in [Threads -> Seq(Operation)]  BY <1>5, <1>6
<1>9. \A k \in 1 .. Len(s) - 1 : s[k].at = "slot"
  BY <1>1, <1>3 DEF Stacked, Nested, Positions
<1>10. Nested'
  <2> SUFFICES ASSUME NEW u \in Threads, NEW k \in 1 .. Len(stack'[u]), k < Len(stack'[u])
               PROVE  stack'[u][k].at = "slot"
    BY DEF Nested, Positions
  <2>1. CASE u = t
    <3>1. k \in 1 .. Len(s) - 1  BY <1>3, <1>5, <1>7, <2>1
    <3> QED  BY <1>5, <1>7, <1>9, <2>1, <3>1
  <2>2. CASE u # t  BY <1>7, <2>2 DEF Stacked, Nested, Positions
  <2> QED  BY <2>1, <2>2
<1>11. z # <<>> /\ Last(z) = op  BY <1>0, <1>3, <1>5 DEF Last
<1>12. Doing(t)' = IF op.at = "slot" THEN {} ELSE {op}  BY <1>7, <1>11 DEF Doing, Busy, Top
<1>13. Ops' \subseteq Ops \cup {op}
  <2>1. Range(z) \subseteq Range(s) \cup {op}
    <3> SUFFICES ASSUME NEW k \in 1 .. Len(z) PROVE z[k] = op \/ \E l \in 1 .. Len(s) : z[k] = s[l]
      BY <1>5 DEF Range
    <3>1. k \in 1 .. Len(s) - 1 \/ k = Len(s)  BY <1>3, <1>5
    <3> QED  BY <1>3, <1>5, <3>1
  <2>2. \A u \in Threads : Range(stack'[u]) \subseteq Range(stack[u]) \cup {op}  BY <1>1, <1>7, <2>1
  <2> QED  BY <2>2 DEF Ops
<1> QED  BY <1>1, <1>5, <1>7, <1>8, <1>10, <1>11, <1>12, <1>13, OthersStay DEF LeftWith, Stacked

\* The thread's operation goes on to another step.
LEMMA GoesLeaves ==
    ASSUME Stacked, NEW t \in Threads, Busy(t), NEW step \in Step, Goes(t, step)
    PROVE  /\ [Top(t) EXCEPT !.at = step] \in Operation
           /\ LeftWith(t, [Top(t) EXCEPT !.at = step]) /\ Len(stack'[t]) = Len(stack[t])
<1>1. Top(t) \in Operation
  <2>1. PICK s \in Seq(Operation) : s = stack[t]  BY DEF Stacked
  <2>2. s # <<>> /\ Len(s) \in 1 .. Len(s)  BY <2>1 DEF Busy
  <2> QED  BY <2>1, <2>2 DEF Top, Last
<1>2. [Top(t) EXCEPT !.at = step] \in Operation  BY <1>1 DEF Operation
<1> QED  BY <1>2, BecomesLeaves DEF Goes

-----------------------------------------------------------------------------
(* The writers' list.                                                        *)

Listed == Conns \cup {None}

\* IndicesAreRight, for a list w, the linked nodes L and their indices x.
Indexed(w, L, x) ==
    /\ \A k \in Positions(w) : w[k] # None => w[k] \in L /\ x[w[k]] = k
    /\ \A n \in L : x[n] \in Positions(w) /\ w[x[n]] = n

Nulls(w) == {k \in Positions(w) : w[k] = None}

\* The nodes of a list stand in the order they were made.
Rising(w) ==
    \A i, j \in Positions(w) : i < j /\ w[i] # None /\ w[j] # None => w[i] < w[j]

\* How the live entries v are read off the list w.
Lives(v, w, f) ==
    /\ \A i \in Positions(v) : f[i] \in Positions(w) /\ v[i] = w[f[i]] /\ v[i] # None
    /\ \A i, j \in Positions(v) : i < j => f[i] < f[j]
    /\ \A k \in Positions(w) : w[k] # None => \E i \in Positions(v) : f[i] = k

LEMMA NoneIsNoNode == None \notin Conns
BY SignalAssumption DEF Conns

LEMMA LiveLives ==
    ASSUME NEW w \in Seq(Listed)
    PROVE  /\ Live(w) \in Seq(Conns) /\ Len(Live(w)) \in Nat
           /\ \E f : Lives(Live(w), w, f)
<1> DEFINE P == {k \in Positions(w) : w[k] # None}
<1>1. PICK v : v = Picked(w, P)  OBVIOUS
<1>2. v = Live(w)  BY <1>1 DEF Live
<1>3. \A k : k \in P <=> k \in Positions(w) /\ w[k] # None  OBVIOUS
<1> HIDE DEF P
<1>4. v \in Seq(Listed) /\ \E f : Embeds(v, w, P, Len(w), f)  BY <1>1, PickedEmbeds
<1>5. PICK f : Embeds(v, w, P, Len(w), f)  BY <1>4
<1>6. \A i \in Positions(v) : f[i] \in P /\ f[i] \in Positions(w) /\ v[i] = w[f[i]]
  BY <1>5 DEF Embeds, Positions
<1>7. \A i, j \in Positions(v) : i < j => f[i] < f[j]  BY <1>5 DEF Embeds, Positions
<1>8. \A k \in Positions(w) : w[k] # None => \E i \in Positions(v) : f[i] = k
  BY <1>3, <1>5 DEF Embeds, Positions
<1>9. Lives(v, w, f)  BY <1>3, <1>6, <1>7, <1>8 DEF Lives
<1>10. \A i \in 1 .. Len(v) : v[i] \in Conns
  BY <1>3, <1>4, <1>6 DEF Listed, Positions
<1>11. v \in Seq(Conns) /\ Len(v) \in Nat  BY <1>4, <1>10
<1> QED  BY <1>2, <1>9, <1>11

LEMMA LiveOfNothing == Live(<<>>) = <<>>
<1>1. PICK w : w = <<>>  OBVIOUS
<1>2. w \in Seq(Listed) /\ Positions(w) = {}  BY <1>1 DEF Positions
<1>3. PICK v : v = Live(w)  OBVIOUS
<1>4. v \in Seq(Conns) /\ Len(v) \in Nat /\ \E f : Lives(v, w, f)  BY <1>2, <1>3, LiveLives
<1>5. Positions(v) = {}  BY <1>2, <1>4 DEF Lives
<1>6. Len(v) = 0
  <2> SUFFICES ASSUME Len(v) # 0 PROVE FALSE  OBVIOUS
  <2>1. 1 \in Positions(v)  BY <1>4 DEF Positions
  <2> QED  BY <1>5, <2>1
<1>7. v = <<>>  BY <1>4, <1>6
<1> QED  BY <1>1, <1>3, <1>7

\* The live entries of a list whose indices are right: each linked node once, in order.
LEMMA LiveIsLinked ==
    ASSUME NEW w \in Seq(Listed), NEW L, NEW x, Indexed(w, L, x), NEW v, v = Live(w)
    PROVE  /\ \A i \in Positions(v) : v[i] \in L /\ v[i] # None
           /\ \A n \in L : n # None => \E i \in Positions(v) : v[i] = n
           /\ \A i, j \in Positions(v) : v[i] = v[j] => i = j
           /\ Rising(w) => Rising(v)
<1>1. v \in Seq(Conns) /\ \E f : Lives(v, w, f)  BY LiveLives
<1>2. PICK f : Lives(v, w, f)  BY <1>1
<1>3. \A i \in Positions(v) : f[i] \in Positions(w) /\ v[i] = w[f[i]] /\ v[i] # None
  BY <1>2 DEF Lives
<1>4. \A i, j \in Positions(v) : i < j => f[i] < f[j]  BY <1>2 DEF Lives
<1>5. \A i \in Positions(v) : i \in Nat  BY DEF Positions
<1>6. \A k \in Positions(w) : k \in Nat  BY DEF Positions
<1>7. \A i, j \in Positions(v) : v[i] = v[j] => i = j
  <2> SUFFICES ASSUME NEW i \in Positions(v), NEW j \in Positions(v), v[i] = v[j] PROVE i = j
    OBVIOUS
  <2>1. f[i] = f[j]  BY <1>3 DEF Indexed
  <2>2. f[i] \in Nat  BY <1>3, <1>6
  <2>3. i < j \/ j < i \/ i = j  BY <1>5
  <2> QED  BY <1>4, <2>1, <2>2, <2>3
<1>8. \A i \in Positions(v) : v[i] \in L /\ v[i] # None  BY <1>3 DEF Indexed
<1>9. \A n \in L : n # None => \E i \in Positions(v) : v[i] = n
  <2> SUFFICES ASSUME NEW n \in L, n # None PROVE \E i \in Positions(v) : v[i] = n  OBVIOUS
  <2>1. x[n] \in Positions(w) /\ w[x[n]] = n  BY DEF Indexed
  <2>2. PICK i \in Positions(v) : f[i] = x[n]  BY <1>2, <2>1 DEF Lives
  <2> QED  BY <1>3, <2>1, <2>2
<1>10. Rising(w) => Rising(v)  BY <1>3, <1>4 DEF Rising
<1> QED  BY <1>7, <1>8, <1>9, <1>10

LEMMA NullsCount ==
    ASSUME NEW w \in Seq(Listed)
    PROVE  /\ IsFiniteSet(Nulls(w)) /\ Cardinality(Nulls(w)) \in 0 .. Len(w)
<1>1. Len(w) \in Nat /\ Nulls(w) \in SUBSET (1 .. Len(w))  BY DEF Nulls, Positions
<1>2. IsFiniteSet(1 .. Len(w)) /\ Cardinality(1 .. Len(w)) = Len(w)
  <2>1. /\ IsFiniteSet(1 .. Len(w))
        /\ Cardinality(1 .. Len(w)) = IF 1 > Len(w) THEN 0 ELSE Len(w) - 1 + 1
    BY <1>1, FS_Interval
  <2> QED  BY <1>1, <2>1
<1>3. IsFiniteSet(Nulls(w)) /\ Cardinality(Nulls(w)) <= Cardinality(1 .. Len(w))
  BY <1>1, <1>2, FS_Subset
<1>4. Cardinality(Nulls(w)) \in Nat  BY <1>3, FS_CardinalityType
<1> QED  BY <1>1, <1>2, <1>3, <1>4

\* A compaction moves entries and loses none.
LEMMA CompactedKeeps ==
    ASSUME NEW w \in Seq(Listed), NEW L \in SUBSET Conns, index \in [Conns -> Nat],
           Indexed(w, L, index), Rising(w), Compacted(w, Cardinality(Nulls(w)))
    PROVE  /\ working' \in Seq(Listed) /\ tombstones' \in 0 .. Len(working')
           /\ index' \in [Conns -> Nat]
           /\ Indexed(working', L, index') /\ Rising(working')
           /\ tombstones' = Cardinality(Nulls(working'))
<1>1. PICK dead : dead = Cardinality(Nulls(w))  OBVIOUS
<1>2. dead \in 0 .. Len(w) /\ Len(w) \in Nat  BY <1>1, NullsCount
<1>3. CASE dead * 2 <= Len(w)
  <2>1. working' = w /\ tombstones' = dead /\ index' = index  BY <1>1, <1>3 DEF Compacted
  <2> QED  BY <1>1, <1>2, <2>1
<1>4. CASE ~(dead * 2 <= Len(w))
  <2>1. PICK v : v = Live(w)  OBVIOUS
  <2>2. PICK x : x = [n \in Conns |-> IF n \in Range(v) THEN PositionOf(n, v) ELSE index[n]]
    OBVIOUS
  <2>3. working' = v /\ tombstones' = 0 /\ index' = x  BY <1>1, <1>4, <2>1, <2>2 DEF Compacted
  <2>4. v \in Seq(Conns) /\ Len(v) \in Nat  BY <2>1, LiveLives
  <2>5. /\ \A i \in Positions(v) : v[i] \in L /\ v[i] # None
        /\ \A n \in L : n # None => \E i \in Positions(v) : v[i] = n
        /\ \A i, j \in Positions(v) : v[i] = v[j] => i = j
        /\ Rising(v)
    BY <2>1, LiveIsLinked
  <2>6. \A n : n \in Range(v) <=> \E i \in Positions(v) : v[i] = n
    BY <2>4 DEF Range, Positions
  <2>7. \A n \in Range(v) : PositionOf(n, v) \in Positions(v) /\ v[PositionOf(n, v)] = n
    BY <2>6 DEF PositionOf
  <2>8. Positions(v) \subseteq Nat  BY DEF Positions
  <2>9. \A n \in Conns : x[n] \in Nat /\ (n \in Range(v) => x[n] = PositionOf(n, v))
    BY <2>2, <2>7, <2>8
  <2>10. x \in [Conns -> Nat]  BY <2>2, <2>9
  <2>11. Indexed(v, L, x)
    <3>1. \A k \in Positions(v) : v[k] \in L /\ x[v[k]] = k  BY <2>5, <2>6, <2>7, <2>9
    <3>2. \A n \in L : n \in Range(v)  BY <2>5, <2>6, NoneIsNoNode
    <3>3. \A n \in L : x[n] \in Positions(v) /\ v[x[n]] = n  BY <2>7, <2>9, <3>2
    <3> QED  BY <3>1, <3>3 DEF Indexed
  <2>12. v \in Seq(Listed)
    <3>1. Conns \subseteq Listed  BY DEF Listed
    <3> QED  BY <2>4, <3>1, SeqMonotonic
  <2>13. Nulls(v) = {}  BY <2>5 DEF Nulls
  <2>14. Cardinality(Nulls(v)) = 0 /\ 0 \in 0 .. Len(v)  BY <2>4, <2>13, FS_EmptySet
  <2> QED  BY <2>3, <2>5, <2>10, <2>11, <2>12, <2>14
<1> QED  BY <1>3, <1>4

\* A slot is taken out: its entry becomes a null.
Without(w, k) == [w EXCEPT ![k] = None]

LEMMA NulledStands ==
    ASSUME NEW w \in Seq(Listed), NEW k \in Positions(w), NEW z, z = Without(w, k)
    PROVE  /\ z \in Seq(Listed) /\ Positions(z) = Positions(w)
           /\ z[k] = None /\ \A j \in Positions(w) : j # k => z[j] = w[j]
<1>1. None \in Listed  BY DEF Listed
<1>2. k \in 1 .. Len(w)  BY DEF Positions
<1>3. PICK s \in Seq(Listed) : s = w  OBVIOUS
<1>4. k \in 1 .. Len(s)  BY <1>2, <1>3
<1>5. /\ [s EXCEPT ![k] = None] \in Seq(Listed) /\ Len([s EXCEPT ![k] = None]) = Len(s)
      /\ \A j \in 1 .. Len(s) : [s EXCEPT ![k] = None][j] = IF j = k THEN None ELSE s[j]
  BY <1>1, <1>4, ExceptSeq
<1>6. z = [s EXCEPT ![k] = None]  BY <1>3 DEF Without
<1> QED  BY <1>3, <1>4, <1>5, <1>6 DEF Positions

LEMMA NulledCounts ==
    ASSUME NEW w \in Seq(Listed), NEW L \in SUBSET Conns, NEW x, Indexed(w, L, x),
           NEW n \in L, NEW z, z = Without(w, x[n])
    PROVE  Cardinality(Nulls(z)) = Cardinality(Nulls(w)) + 1
<1>1. PICK k : k = x[n]  OBVIOUS
<1>2. k \in Positions(w) /\ w[k] = n /\ n # None  BY <1>1, NoneIsNoNode DEF Indexed
<1>3. /\ Positions(z) = Positions(w) /\ z[k] = None
      /\ \A j \in Positions(w) : j # k => z[j] = w[j]
  BY <1>1, <1>2, NulledStands, SMTT(30)
<1>4. Nulls(z) = Nulls(w) \cup {k} /\ k \notin Nulls(w)  BY <1>2, <1>3 DEF Nulls
<1>5. IsFiniteSet(Nulls(w))  BY NullsCount
<1> QED  BY <1>4, <1>5, FS_AddElement

LEMMA NulledKeeps ==
    ASSUME NEW w \in Seq(Listed), NEW L \in SUBSET Conns, NEW x, Indexed(w, L, x), Rising(w),
           NEW n \in L, NEW z, z = Without(w, x[n])
    PROVE  z \in Seq(Listed) /\ Indexed(z, L \ {n}, x) /\ Rising(z)
<1>1. PICK k : k = x[n]  OBVIOUS
<1>2. k \in Positions(w) /\ w[k] = n /\ n # None  BY <1>1, NoneIsNoNode DEF Indexed
<1>3. z = Without(w, k)  BY <1>1
<1>4. z \in Seq(Listed)  BY <1>2, <1>3, NulledStands
<1>5. /\ Positions(z) = Positions(w) /\ z[k] = None
      /\ \A j \in Positions(w) : j # k => z[j] = w[j]
  <2>1. k \in Positions(w)  BY <1>2
  <2> QED  BY ONLY <2>1, <1>3, NulledStands, w \in Seq(Listed), SMTT(30)
<1>6. Indexed(z, L \ {n}, x)
  <2>1. \A j \in Positions(z) : z[j] # None => z[j] \in L \ {n} /\ x[z[j]] = j
    <3> SUFFICES ASSUME NEW j \in Positions(z), z[j] # None PROVE z[j] \in L \ {n} /\ x[z[j]] = j
      OBVIOUS
    <3>1. j # k /\ z[j] = w[j] /\ j \in Positions(w)  BY <1>5
    <3>2. w[j] \in L /\ x[w[j]] = j  BY <3>1 DEF Indexed
    <3> QED  BY <1>1, <3>1, <3>2
  <2>2. \A m \in L \ {n} : x[m] \in Positions(z) /\ z[x[m]] = m
    <3> SUFFICES ASSUME NEW m \in L \ {n} PROVE x[m] \in Positions(z) /\ z[x[m]] = m  OBVIOUS
    <3>1. x[m] \in Positions(w) /\ w[x[m]] = m  BY DEF Indexed
    <3>2. x[m] # k  BY <1>2, <3>1
    <3> QED  BY <1>5, <3>1, <3>2
  <2> QED  BY <2>1, <2>2 DEF Indexed
<1>7. Rising(z)
  <2> SUFFICES ASSUME NEW i \in Positions(z), NEW j \in Positions(z), i < j, z[i] # None, z[j] # None
               PROVE  z[i] < z[j]
    BY DEF Rising
  <2>1. i # k /\ j # k  BY <1>5
  <2> QED  BY <1>5, <2>1 DEF Rising
<1> QED  BY <1>6, <1>7, <1>4

\* A slot is added, at the end.
With(L, n) == L \cup {n}

Beyond(L, n) == \A m \in L : m < n

Grown(z, y, w, x, n) == z = Append(w, n) /\ y = [x EXCEPT ![n] = Len(w) + 1]

LEMMA AppendedKeeps ==
    ASSUME NEW w \in Seq(Listed), NEW L \in SUBSET Conns, NEW x \in [Conns -> Nat],
           Indexed(w, L, x), Rising(w), NEW n \in Conns, Beyond(L, n),
           NEW z, NEW y, Grown(z, y, w, x, n)
    PROVE  /\ z \in Seq(Listed) /\ y \in [Conns -> Nat]
           /\ Indexed(z, With(L, n), y) /\ Rising(z)
<1>0. z = Append(w, n) /\ y = [x EXCEPT ![n] = Len(w) + 1] /\ \A m \in L : m < n
  BY DEF Grown, Beyond
<1>1. n \in Listed /\ n # None /\ n \in Nat  BY NoneIsNoNode DEF Listed, Conns
<1>2. /\ z \in Seq(Listed) /\ Len(z) = Len(w) + 1 /\ Len(w) \in Nat
      /\ \A j \in 1 .. Len(w) : z[j] = w[j]
      /\ z[Len(w) + 1] = n
  BY <1>0, <1>1, AppendProperties
<1>3. PICK k : k = Len(w) + 1  OBVIOUS
<1>4. k \in Nat /\ k \in Positions(z) /\ z[k] = n /\ y = [x EXCEPT ![n] = k]
  BY <1>0, <1>2, <1>3 DEF Positions
<1>5. \A j \in Positions(z) : j = k \/ (j \in Positions(w) /\ z[j] = w[j] /\ j < k)
  BY <1>2, <1>3 DEF Positions
<1>6. \A j \in Positions(w) : j \in Positions(z) /\ j # k /\ z[j] = w[j]
  BY <1>2, <1>3 DEF Positions
<1>7. y \in [Conns -> Nat] /\ y[n] = k /\ \A m \in Conns : m # n => y[m] = x[m]
  BY <1>4
<1>8. n \notin L  BY <1>0, <1>1
<1>9. Indexed(z, With(L, n), y)
  <2>1. \A j \in Positions(z) : z[j] # None => z[j] \in L \cup {n} /\ y[z[j]] = j
    <3> SUFFICES ASSUME NEW j \in Positions(z), z[j] # None PROVE z[j] \in L \cup {n} /\ y[z[j]] = j
      OBVIOUS
    <3>1. CASE j = k  BY <1>4, <1>7, <3>1
    <3>2. CASE j # k
      <4>1. j \in Positions(w) /\ z[j] = w[j]  BY <1>5, <3>2
      <4>2. w[j] \in L /\ x[w[j]] = j  BY <4>1 DEF Indexed
      <4> QED  BY <1>7, <1>8, <4>1, <4>2
    <3> QED  BY <3>1, <3>2
  <2>2. \A m \in L \cup {n} : y[m] \in Positions(z) /\ z[y[m]] = m
    <3> SUFFICES ASSUME NEW m \in L \cup {n} PROVE y[m] \in Positions(z) /\ z[y[m]] = m  OBVIOUS
    <3>1. CASE m = n  BY <1>4, <1>7, <3>1
    <3>2. CASE m # n
      <4>1. m \in L /\ x[m] \in Positions(w) /\ w[x[m]] = m  BY <3>2 DEF Indexed
      <4> QED  BY <1>6, <1>7, <3>2, <4>1
    <3> QED  BY <3>1, <3>2
  <2> QED  BY <2>1, <2>2 DEF Indexed, With
<1>10. Rising(z)
  <2> SUFFICES ASSUME NEW i \in Positions(z), NEW j \in Positions(z), i < j, z[i] # None, z[j] # None
               PROVE  z[i] < z[j]
    BY DEF Rising
  <2>0. i \in Nat /\ j \in Nat  BY DEF Positions
  <2>a. j <= k /\ k \in Nat  BY <1>4, <1>5, <2>0
  <2>b. i # k  BY <2>0, <2>a
  <2>1. i \in Positions(w) /\ z[i] = w[i]  BY <1>5, <2>b
  <2>2. w[i] \in L  BY <2>1 DEF Indexed
  <2>3. CASE j = k  BY <1>0, <1>4, <2>1, <2>2, <2>3
  <2>4. CASE j # k  BY <1>5, <2>1, <2>4 DEF Rising
  <2> QED  BY <2>3, <2>4
<1> QED  BY <1>2, <1>7, <1>9, <1>10

LEMMA AppendedCounts ==
    ASSUME NEW w \in Seq(Listed), NEW n \in Conns, NEW z, z = Append(w, n)
    PROVE  Cardinality(Nulls(z)) = Cardinality(Nulls(w))
<1>1. n \in Listed /\ n # None  BY NoneIsNoNode DEF Listed
<1>2. /\ z \in Seq(Listed) /\ Len(z) = Len(w) + 1 /\ Len(w) \in Nat
      /\ \A j \in 1 .. Len(w) : z[j] = w[j]
      /\ z[Len(w) + 1] = n
  BY <1>1, AppendProperties
<1>3. \A j \in 1 .. Len(z) : j = Len(w) + 1 \/ j \in 1 .. Len(w)  BY <1>2
<1>4. \A j \in 1 .. Len(w) : j \in 1 .. Len(z)  BY <1>2
<1>5. Nulls(z) = Nulls(w)  BY <1>1, <1>2, <1>3, <1>4 DEF Nulls, Positions
<1> QED  BY <1>5

-----------------------------------------------------------------------------
(* The invariant.  What a thread is in the middle of accounts for every list *)
(* that is not yet what it will be: a node that is linked but not yet listed *)
(* with its receiver is being connected; one that is listed and no longer    *)
(* linked is being ended; what is still linked of a dying receiver is before *)
(* the thread that destroys it.                                              *)

\* The steps an operation has, and what it knows at them.
Fits(op) ==
    \/ op.kind = "connect" /\ op.at \in {"register", "list"}
    \/ op.kind = "disconnect" /\ op.at \in {"remove", "prune", "unlist"}
    \/ op.kind = "disconnectAll" /\ op.at \in {"prune", "unlist"}
    \/ op.kind = "destroy" /\ op.at \in {"take", "sever", "remove", "prune", "unlist", "strip"}
    \/ op.kind = "emit" /\ op.at \in {"next", "slot", "post"}
    \/ op.kind = "deliver" /\ op.at = "slot"

InOrder(op) ==
    /\ \A i, j \in Positions(op.todo) : i < j => op.todo[i] < op.todo[j]
    /\ \A i \in Positions(op.todo) :
        /\ op.todo[i] <= op.before
        /\ op.conn # None => op.conn < op.todo[i]

Sound(op) ==
    /\ op \in Operation
    /\ Fits(op)
    /\ \A i \in Positions(op.todo) : op.todo[i] \in 1 .. made
    /\ op.at \in {"register", "list", "remove", "prune", "unlist", "post", "slot"} => op.conn \in 1 .. made
    /\ op.kind = "emit" => InOrder(op)

OpsAreSound == \A op \in Ops : Sound(op)

\* The connections a destruction has yet to end.
Ahead(op, n) == \E i \in Positions(op.todo) : op.todo[i] = n

Untaken(op, n) ==
    \/ op.at = "take" /\ n \in incoming
    \/ op.at \in {"sever", "remove", "prune", "unlist"} /\ Ahead(op, n)
    \/ op.at = "remove" /\ op.conn = n

\* What the operation thread t is in the middle of has seen to.
Kept(t, op) ==
    /\ op.kind = "connect" =>
        op.recv \in Receivers /\ op.recv = owner[op.conn] /\ life[op.recv] = "alive"
    /\ op.at = "remove" => op.conn \notin connected
    /\ op.at \in {"prune", "unlist"} => op.conn \notin linked
    /\ op.kind = "disconnectAll" => \A n \in linked : ~Ahead(op, n)
    /\ op.kind = "destroy" =>
        /\ op.recv \in Receivers /\ Home[op.recv] = t /\ life[op.recv] = "dying"
        /\ \A n \in linked : owner[n] = op.recv => Untaken(op, n)
        /\ \A i \in Positions(op.todo) : owner[op.todo[i]] = op.recv
        /\ op.at = "remove" => owner[op.conn] = op.recv

Connects(t, n) == \E op \in Doing(t) : op.kind = "connect" /\ op.conn = n

Ends(t, n) ==
    \E op \in Doing(t) :
        \/ op.kind = "disconnect" /\ op.at \in {"prune", "unlist"} /\ op.conn = n
        \/ op.kind = "disconnectAll" /\ (op.conn = n \/ Ahead(op, n))

Destroys(t, r) == \E op \in Doing(t) : op.kind = "destroy" /\ op.recv = r

Core ==
    /\ \A t \in Threads : \A op \in Doing(t) : Kept(t, op)
    /\ \A n \in 1 .. made : life[owner[n]] = "alive" =>
        /\ n \in linked => n \notin done /\ (n \in incoming \/ \E t \in Threads : Connects(t, n))
        /\ n \notin linked => n \in done \/ \E t \in Threads : Ends(t, n)
    /\ \A r \in Receivers : life[r] = "dying" => Destroys(Home[r], r)

\* Nodes are made one by one, and the sets that name them are within one another.
Bounds ==
    /\ connected \subseteq linked
    /\ linked \subseteq 1 .. made
    /\ incoming \subseteq 1 .. made
    /\ done \subseteq 1 .. made
    /\ done \cap incoming = {}
    /\ \A n \in 1 .. made : owner[n] \in Receivers

Posted ==
    \A r \in Receivers : \A k \in Positions(pending[r]) :
        pending[r][k] \in 1 .. made /\ owner[pending[r][k]] = r

Lists ==
    /\ Indexed(working, linked, index)
    /\ Rising(working)
    /\ tombstones = Cardinality(Nulls(working))
    /\ ~dirty => published = Live(working)

Inv ==
    /\ TypeOK /\ Nested /\ OpsAreSound /\ Core /\ Bounds /\ Posted /\ Lists
    /\ NoSlotKeptForTheGone

\* What a step of thread t may do to the rest: nodes are added, ended and listed, and only
\* t ends what is on its own objects.
Ages(t) ==
    /\ made \in Nat /\ made' \in Nat /\ made <= made'
    /\ \A n \in 1 .. made : owner'[n] = owner[n]
    /\ \A n \in linked' : n \in linked \/ n \notin 1 .. made
    /\ \A n \in connected' : n \in connected \/ n \notin 1 .. made
    /\ done \subseteq done'
    /\ \A n \in linked' : n \in incoming =>
        n \in incoming' \/ (life[owner[n]] # "alive" /\ Home[owner[n]] = t)
    /\ \A n \in linked' : n \notin 1 .. made => life[owner'[n]] = "alive"
    /\ \A r \in Receivers : life'[r] = "alive" => life[r] = "alive"
    /\ \A r \in Receivers : life'[r] # life[r] => Home[r] = t

\* What it must see to itself.
Answers(t) ==
    /\ \A op \in Doing(t)' : Kept(t, op)'
    /\ \A n \in 1 .. made : life'[owner[n]] = "alive" =>
        /\ n \in linked' => n \notin done'
        /\ n \in linked' /\ Connects(t, n) => n \in incoming' \/ Connects(t, n)'
        /\ n \notin linked' => n \in done' \/ Ends(t, n)' \/ (n \notin linked /\ ~Ends(t, n))
    /\ \A n \in 1 .. made' : n \notin 1 .. made =>
        n \in linked' /\ n \notin done' /\ Connects(t, n)'
    /\ \A r \in Receivers : life'[r] = "dying" =>
        IF Home[r] = t THEN Destroys(t, r)' ELSE life[r] = "dying"

LEMMA HomeIsAThread == \A r \in Receivers : Home[r] \in Threads
BY SignalAssumption

LEMMA OthersKeep ==
    ASSUME Inv, NEW t \in Threads, Ages(t), NEW u \in Threads \ {t},
           \A op \in Doing(u) : op.kind = "connect" => life'[op.recv] = "alive",
           NEW op \in Doing(u)
    PROVE  Kept(u, op)'
<1>1. Kept(u, op) /\ Sound(op)
  BY DoingIsInOps DEF Inv, TypeOK, Stacked, Core, OpsAreSound
<1>2. op.at \in {"register", "list", "remove", "prune", "unlist"} => op.conn \in 1 .. made
  BY <1>1 DEF Sound
<1>3. \A i \in Positions(op.todo) : op.todo[i] \in 1 .. made  BY <1>1 DEF Sound
<1>4. linked \subseteq 1 .. made  BY DEF Inv, Bounds
<1>5. op.kind = "connect" => op.at \in {"register", "list"}  BY <1>1 DEF Sound, Fits
<1>6. op.kind = "connect" =>
        op.recv \in Receivers /\ op.recv = owner'[op.conn] /\ life'[op.recv] = "alive"
  BY <1>1, <1>2, <1>5 DEF Kept, Ages
<1>7. op.at = "remove" => op.conn \notin connected'
  BY <1>1, <1>2 DEF Kept, Ages
<1>8. op.at \in {"prune", "unlist"} => op.conn \notin linked'
  BY <1>1, <1>2 DEF Kept, Ages
<1>9. op.kind = "disconnectAll" => \A n \in linked' : ~Ahead(op, n)
  BY <1>1, <1>3 DEF Kept, Ages, Ahead
<1>10. ASSUME op.kind = "destroy"
       PROVE  /\ op.recv \in Receivers /\ Home[op.recv] = u /\ life'[op.recv] = "dying"
              /\ \A n \in linked' : owner'[n] = op.recv => Untaken(op, n)'
              /\ \A i \in Positions(op.todo) : owner'[op.todo[i]] = op.recv
              /\ op.at = "remove" => owner'[op.conn] = op.recv
  <2>1. op.recv \in Receivers /\ Home[op.recv] = u /\ life[op.recv] = "dying"
    BY <1>1, <1>10 DEF Kept
  <2>2. life'[op.recv] = "dying"  BY <2>1 DEF Ages
  <2>3. ASSUME NEW n \in linked', owner'[n] = op.recv PROVE Untaken(op, n)'
    <3>1. n \in 1 .. made  BY <2>1, <2>3 DEF Ages
    <3>2. owner[n] = op.recv /\ n \in linked  BY <2>3, <3>1 DEF Ages
    <3>3. Untaken(op, n)  BY <1>1, <1>10, <3>2 DEF Kept
    <3>4. n \in incoming => n \in incoming'  BY <2>1, <2>3, <3>2 DEF Ages
    <3> QED  BY <3>3, <3>4 DEF Untaken
  <2>4. \A i \in Positions(op.todo) : owner'[op.todo[i]] = op.recv
    BY <1>1, <1>3, <1>10 DEF Kept, Ages
  <2>5. op.at = "remove" => owner'[op.conn] = op.recv
    BY <1>1, <1>2, <1>10 DEF Kept, Ages
  <2> QED  BY <2>1, <2>2, <2>3, <2>4, <2>5
<1> QED  BY <1>6, <1>7, <1>8, <1>9, <1>10 DEF Kept

\* The law of every step: it answers for what its thread is in the middle of.
LEMMA StepAnswers ==
    ASSUME Inv, NEW t \in Threads, Ages(t), Answers(t),
           \A u \in Threads \ {t} : Doing(u)' = Doing(u),
           \A u \in Threads \ {t} : \A op \in Doing(u) : op.kind = "connect" => life'[op.recv] = "alive"
    PROVE  Core'
<1>0. \A u \in Threads \ {t} :
        /\ \A n : Connects(u, n)' <=> Connects(u, n)
        /\ \A n : Ends(u, n)' <=> Ends(u, n)
        /\ \A r : Destroys(u, r)' <=> Destroys(u, r)
  BY DEF Connects, Ends, Destroys
<1>1. \A u \in Threads : \A op \in Doing(u)' : Kept(u, op)'
  <2> TAKE u \in Threads
  <2>1. CASE u = t  BY <2>1 DEF Answers
  <2>2. ASSUME u # t, NEW op \in Doing(u)' PROVE Kept(u, op)'
    <3>1. u \in Threads \ {t} /\ op \in Doing(u)  BY <2>2
    <3> QED  BY <3>1, OthersKeep
  <2> QED  BY <2>1, <2>2
<1>2. ASSUME NEW n \in 1 .. made', life'[owner'[n]] = "alive"
      PROVE  /\ n \in linked' => n \notin done' /\ (n \in incoming' \/ \E u \in Threads : Connects(u, n)')
             /\ n \notin linked' => n \in done' \/ \E u \in Threads : Ends(u, n)'
  <2>1. CASE n \notin 1 .. made  BY <2>1 DEF Answers
  <2>2. ASSUME n \in 1 .. made
        PROVE  /\ n \in linked' => n \notin done' /\ (n \in incoming' \/ \E u \in Threads : Connects(u, n)')
               /\ n \notin linked' => n \in done' \/ \E u \in Threads : Ends(u, n)'
    <3>1. owner'[n] = owner[n] /\ life'[owner[n]] = "alive" /\ owner[n] \in Receivers
      BY <1>2, <2>2 DEF Ages, Inv, Bounds
    <3>2. life[owner[n]] = "alive"  BY <3>1 DEF Ages
    <3>3. /\ n \in linked => n \notin done /\ (n \in incoming \/ \E u \in Threads : Connects(u, n))
          /\ n \notin linked => n \in done \/ \E u \in Threads : Ends(u, n)
      BY <2>2, <3>2 DEF Inv, Core
    <3>4. ASSUME n \in linked'
          PROVE  n \notin done' /\ (n \in incoming' \/ \E u \in Threads : Connects(u, n)')
      <4>1. n \in linked  BY <2>2, <3>4 DEF Ages
      <4>2. n \notin done'  BY <2>2, <3>1, <3>4 DEF Answers
      <4>3. n \in incoming => n \in incoming'  BY <3>2, <3>4 DEF Ages
      <4>4. ASSUME NEW u \in Threads, Connects(u, n)
            PROVE  n \in incoming' \/ \E v \in Threads : Connects(v, n)'
        <5>1. CASE u = t
          <6>1. n \in incoming' \/ Connects(t, n)'  BY <2>2, <3>1, <3>4, <4>4, <5>1 DEF Answers
          <6> QED  BY <6>1
        <5>2. CASE u # t
          <6>1. Connects(u, n)'  BY <1>0, <4>4, <5>2
          <6> QED  BY <6>1
        <5> QED  BY <5>1, <5>2
      <4> QED  BY <3>3, <4>1, <4>2, <4>3, <4>4
    <3>5. ASSUME n \notin linked' PROVE n \in done' \/ \E u \in Threads : Ends(u, n)'
      <4>1. n \in done' \/ Ends(t, n)' \/ (n \notin linked /\ ~Ends(t, n))
        BY <2>2, <3>1, <3>5 DEF Answers
      <4>2. CASE Ends(t, n)'  BY <4>2
      <4>3. ASSUME n \notin linked, ~Ends(t, n) PROVE n \in done' \/ \E u \in Threads : Ends(u, n)'
        <5>1. CASE n \in done  BY <5>1 DEF Ages
        <5>2. ASSUME NEW u \in Threads, Ends(u, n) PROVE \E v \in Threads : Ends(v, n)'
          <6>1. u \in Threads \ {t}  BY <4>3, <5>2
          <6>2. Ends(u, n)'  BY <1>0, <5>2, <6>1
          <6> QED  BY <6>2
        <5> QED  BY <3>3, <4>3, <5>1, <5>2
      <4> QED  BY <4>1, <4>2, <4>3
    <3> QED  BY <3>4, <3>5
  <2> QED  BY <2>1, <2>2
<1>3. ASSUME NEW r \in Receivers, life'[r] = "dying" PROVE Destroys(Home[r], r)'
  <2>1. CASE Home[r] = t
    <3>1. Destroys(t, r)'  BY <1>3, <2>1 DEF Answers
    <3> QED  BY <2>1, <3>1
  <2>2. CASE Home[r] # t
    <3>1. life[r] = "dying" /\ Home[r] \in Threads \ {t}  BY <1>3, <2>2, HomeIsAThread DEF Answers
    <3>2. Destroys(Home[r], r)  BY <3>1 DEF Inv, Core
    <3> QED  BY <1>0, <3>1, <3>2
  <2> QED  BY <2>1, <2>2
<1> QED  BY <1>1, <1>2, <1>3 DEF Core

-----------------------------------------------------------------------------
(* Operations stay sound.                                                    *)

LEMMA SoundStays ==
    ASSUME made \in Nat, made' \in Nat, made <= made', NEW op, Sound(op)
    PROVE  Sound(op)'
<1>1. \A n : n \in 1 .. made => n \in 1 .. made'  OBVIOUS
<1> QED  BY <1>1 DEF Sound

LEMMA OpsStaySound ==
    ASSUME OpsAreSound, made \in Nat, made' \in Nat, made <= made', Ops' \subseteq Ops
    PROVE  OpsAreSound'
<1>1. \A op \in Ops' : Sound(op)'  BY SoundStays DEF OpsAreSound
<1> QED  BY <1>1 DEF OpsAreSound

LEMMA OpsJoinedSound ==
    ASSUME OpsAreSound, made \in Nat, made' \in Nat, made <= made',
           NEW z, Sound(z)', Ops' \subseteq Ops \cup {z}
    PROVE  OpsAreSound'
<1> SUFFICES ASSUME NEW op \in Ops' PROVE Sound(op)'  BY DEF OpsAreSound
<1>1. CASE op = z  BY <1>1
<1>2. CASE op \in Ops  BY <1>2, SoundStays DEF OpsAreSound
<1> QED  BY <1>1, <1>2

\* What thread t is in the middle of.
LEMMA TopIsSound ==
    ASSUME Inv, NEW t \in Threads, Busy(t)
    PROVE  /\ Top(t) \in Operation /\ Sound(Top(t))
           /\ Top(t).at # "slot" => Doing(t) = {Top(t)} /\ Kept(t, Top(t))
           /\ Top(t).at = "slot" => Doing(t) = {}
<1>1. Top(t) \in Ops
  <2>1. PICK s \in Seq(Operation) : s = stack[t]  BY DEF Inv, TypeOK
  <2>2. s # <<>> /\ Len(s) \in 1 .. Len(s)  BY <2>1 DEF Busy
  <2>3. Top(t) \in Range(stack[t])  BY <2>1, <2>2 DEF Top, Last, Range
  <2> QED  BY <2>3 DEF Ops
<1>2. Sound(Top(t))  BY <1>1 DEF Inv, OpsAreSound
<1>3. Top(t).at # "slot" => Doing(t) = {Top(t)}  BY DEF Doing
<1>4. Top(t).at = "slot" => Doing(t) = {}  BY DEF Doing
<1> QED  BY <1>2, <1>3, <1>4 DEF Inv, Core, Sound

LEMMA InvTypes ==
    ASSUME Inv
    PROVE  /\ Stacked /\ OpsAreSound /\ Bounds /\ Lists /\ made \in Nat /\ made <= MaxConns
           /\ MaxConns \in Nat
           /\ owner \in [Conns -> Receivers \cup {None}]
           /\ life \in [Receivers -> {"alive", "dying", "gone"}]
           /\ \A n \in 1 .. made : n \in Conns /\ owner[n] \in Receivers
BY SignalAssumption DEF Inv, TypeOK, Stacked, Conns, Bounds

\* A step that changes nothing but the calls in progress, those posted and the snapshot.
Quiet == UNCHANGED <<working, tombstones, index, linked, nodes, life, made>>

LEMMA QuietAges == ASSUME Inv, Quiet, NEW t PROVE Ages(t)
<1>1. /\ made' = made /\ owner' = owner /\ linked' = linked /\ connected' = connected
      /\ done' = done /\ incoming' = incoming /\ life' = life
  BY DEF Quiet, nodes
<1>2. linked \subseteq 1 .. made /\ made \in Nat  BY InvTypes DEF Bounds
<1>3. \A n \in linked' : n \in 1 .. made  BY <1>1, <1>2
<1>4. made <= made' /\ made' \in Nat  BY <1>1, <1>2
<1>5. \A n \in linked' : n \notin 1 .. made => life[owner'[n]] = "alive"  BY <1>3
<1> QED  BY <1>1, <1>2, <1>4, <1>5 DEF Ages

\* What it still has to see to.
Sees(t) ==
    /\ Stacked' /\ OpsAreSound'
    /\ \A u \in Threads \ {t} : Doing(u)' = Doing(u)
    /\ \A op \in Doing(t)' : Kept(t, op)
    /\ \A n \in linked : Connects(t, n) => Connects(t, n)'
    /\ \A n : Ends(t, n) /\ life[owner[n]] = "alive" => Ends(t, n)'
    /\ \A r \in Receivers : life[r] = "dying" /\ Destroys(t, r) => Destroys(t, r)'

LEMMA QuietKeeps ==
    ASSUME Inv, Quiet, NEW t \in Threads, Sees(t),
           published' \in Seq(Conns) \cup {None}, dirty' \in BOOLEAN,
           ~dirty' => published' = Live(working),
           pending' \in [Receivers -> Seq(Conns)], Posted', emits' \in 0 .. MaxEmits
    PROVE  Inv'
<1>1. /\ working' = working /\ tombstones' = tombstones
      /\ index' = index /\ linked' = linked
      /\ connected' = connected /\ owner' = owner /\ incoming' = incoming /\ done' = done
      /\ life' = life /\ made' = made
  BY DEF Quiet, nodes
<1>2. TypeOK'  BY <1>1 DEF Inv, TypeOK, Stacked, Sees
<1>3. Bounds' /\ Lists' /\ NoSlotKeptForTheGone'
  BY <1>1 DEF Inv, Bounds, Lists, NoSlotKeptForTheGone
<1>4. \A op : Kept(t, op)' <=> Kept(t, op)  BY <1>1 DEF Kept, Untaken
<1>5. Answers(t)
  <2>1. \A op \in Doing(t)' : Kept(t, op)'  BY <1>4 DEF Sees
  <2>2. ASSUME NEW n \in 1 .. made, life'[owner[n]] = "alive"
        PROVE  /\ n \in linked' => n \notin done'
               /\ n \in linked' /\ Connects(t, n) => n \in incoming' \/ Connects(t, n)'
               /\ n \notin linked' => n \in done' \/ Ends(t, n)' \/ (n \notin linked /\ ~Ends(t, n))
    BY <1>1, <2>2 DEF Inv, Core, Sees
  <2>3. \A r \in Receivers : life'[r] = "dying" =>
            IF Home[r] = t THEN Destroys(t, r)' ELSE life[r] = "dying"
    BY <1>1 DEF Inv, Core, Sees
  <2> QED  BY <1>1, <2>1, <2>2, <2>3 DEF Answers
<1>6. \A u \in Threads \ {t} : \A op \in Doing(u) : op.kind = "connect" => life'[op.recv] = "alive"
  BY <1>1 DEF Inv, Core, Kept
<1>7. Core'  BY <1>5, <1>6, QuietAges, StepAnswers DEF Sees
<1> QED  BY <1>2, <1>3, <1>7 DEF Inv, Stacked, Sees

\* Of these, one that leaves the signal and its snapshot alone.
LEMMA SilentKeeps ==
    ASSUME Inv, UNCHANGED <<lists, nodes, life, pending, made, emits>>, NEW t \in Threads, Sees(t)
    PROVE  Inv'
<1>1. Quiet /\ published' = published /\ dirty' = dirty /\ pending' = pending /\ emits' = emits
      /\ owner' = owner /\ made' = made
  BY DEF Quiet, lists, nodes
<1>2. /\ published' \in Seq(Conns) \cup {None} /\ dirty' \in BOOLEAN
      /\ pending' \in [Receivers -> Seq(Conns)] /\ emits' \in 0 .. MaxEmits
  BY <1>1 DEF Inv, TypeOK
<1>3. ~dirty' => published' = Live(working)  BY <1>1 DEF Inv, Lists
<1>4. Posted'  BY <1>1 DEF Inv, Posted
<1> QED  BY <1>1, <1>2, <1>3, <1>4, QuietKeeps

\* On to the next connection: what is left of the operation accounts for what was.
LEMMA NextConnectionLeaves ==
    ASSUME Inv, NEW t \in Threads, Busy(t), Top(t).kind \in Enders,
           Top(t).at \in {"remove", "prune", "unlist"}, Top(t).conn \notin linked,
           NextConnection(t), UNCHANGED <<linked, owner, life, made>>
    PROVE  /\ Stacked' /\ OpsAreSound'
           /\ \A u \in Threads \ {t} : Doing(u)' = Doing(u)
           /\ \A op \in Doing(t)' : Kept(t, op)'
           /\ \A n : ~Connects(t, n)
           /\ \A n : Ends(t, n) /\ n # Top(t).conn => Ends(t, n)'
           /\ \A r : Destroys(t, r) => Destroys(t, r)'
<1>1. PICK op : op = Top(t)  OBVIOUS
<1>2. /\ op \in Operation /\ Sound(op) /\ Doing(t) = {op} /\ Kept(t, op)
      /\ op.at \in {"remove", "prune", "unlist"} /\ op.conn \notin linked /\ op.kind \in Enders
  BY <1>1, TopIsSound
<1>3. made' = made /\ made \in Nat /\ Stacked /\ OpsAreSound  BY InvTypes
<1>4. \A n : ~Connects(t, n)  BY <1>2 DEF Connects, Enders
<1>a. ASSUME Pop(t)
      PROVE  Stacked' /\ OpsAreSound' /\ Doing(t)' = {} /\ \A u \in Threads \ {t} : Doing(u)' = Doing(u)
  <2>1. LeftAlone(t)  BY <1>3, <1>a, PopLeaves
  <2>2. Ops' \subseteq Ops /\ made' \in Nat /\ made <= made'  BY <1>3, <2>1 DEF LeftAlone
  <2>3. OpsAreSound'  BY <1>3, <2>2, OpsStaySound
  <2> QED  BY <2>1, <2>3 DEF LeftAlone
<1>b. ASSUME NEW z \in Operation, Becomes(t, z), Sound(z)', z.at # "slot"
      PROVE  Stacked' /\ OpsAreSound' /\ Doing(t)' = {z} /\ \A u \in Threads \ {t} : Doing(u)' = Doing(u)
  <2>1. LeftWith(t, z)  BY <1>3, <1>b, BecomesLeaves
  <2>2. Ops' \subseteq Ops \cup {z} /\ made' \in Nat /\ made <= made'  BY <1>3, <2>1 DEF LeftWith
  <2>3. OpsAreSound'  BY <1>3, <1>b, <2>2, OpsJoinedSound
  <2> QED  BY <1>b, <2>1, <2>3 DEF LeftWith
<1>5. CASE op.kind = "disconnect"
  <2>1. Pop(t)  BY <1>1, <1>5 DEF NextConnection
  <2>2. \A n : Ends(t, n) => n = Top(t).conn  BY <1>1, <1>2, <1>5 DEF Ends
  <2>3. \A r : ~Destroys(t, r)  BY <1>2, <1>5 DEF Destroys
  <2> QED  BY <1>4, <1>a, <2>1, <2>2, <2>3
<1>6. CASE op.kind = "disconnectAll" /\ op.todo = <<>>
  <2>1. Pop(t)  BY <1>1, <1>6 DEF NextConnection
  <2>2. \A n : ~Ahead(op, n)  BY <1>6 DEF Ahead, Positions
  <2>3. \A n : Ends(t, n) => n = Top(t).conn  BY <1>1, <1>2, <1>6, <2>2 DEF Ends
  <2>4. \A r : ~Destroys(t, r)  BY <1>2, <1>6 DEF Destroys
  <2> QED  BY <1>4, <1>a, <2>1, <2>3, <2>4
<1>7. CASE op.kind = "disconnectAll" /\ op.todo # <<>>
  <2>1. PICK s \in Seq(Conns) : s = op.todo /\ s # <<>>  BY <1>2, <1>7 DEF Operation
  <2>2. PICK v : v = Tail(s)  OBVIOUS
  <2>3. PICK h : h = Head(s)  OBVIOUS
  <2>4. /\ v \in Seq(Conns) /\ h \in Conns /\ Len(v) = Len(s) - 1 /\ Len(s) \in Nat /\ h = s[1]
        /\ \A k \in 1 .. Len(v) : v[k] = s[k + 1]
        /\ 1 \in 1 .. Len(s)
    BY <2>1, <2>2, <2>3, HeadTailProperties
  <2>5. \A i \in Positions(s) : i = 1 \/ (i - 1 \in Positions(v) /\ v[i - 1] = s[i])
    <3> SUFFICES ASSUME NEW i \in Positions(s), i # 1 PROVE i - 1 \in Positions(v) /\ v[i - 1] = s[i]
      OBVIOUS
    <3>1. i - 1 \in 1 .. Len(v) /\ (i - 1) + 1 = i  BY <2>4 DEF Positions
    <3> QED  BY <2>4, <3>1 DEF Positions
  <2>6. \A i \in Positions(v) : i + 1 \in Positions(s) /\ v[i] = s[i + 1]  BY <2>4 DEF Positions
  <2>7. PICK z : z = [op EXCEPT !.at = "prune", !.conn = h, !.todo = v]  OBVIOUS
  <2>8. /\ z \in Operation /\ z.at = "prune" /\ z.conn = h /\ z.todo = v /\ z.kind = "disconnectAll"
    BY <1>2, <1>7, <2>4, <2>7 DEF Operation, Step
  <2>9. Becomes(t, z)  BY <1>1, <1>7, <2>1, <2>2, <2>3, <2>7 DEF NextConnection
  <2>10. Sound(z)'
    <3>1. \A i \in Positions(s) : s[i] \in 1 .. made  BY <1>2, <2>1 DEF Sound
    <3>2. h \in 1 .. made  BY <2>4, <3>1 DEF Positions
    <3>3. \A i \in Positions(z.todo) : z.todo[i] \in 1 .. made'  BY <1>3, <2>6, <2>8, <3>1
    <3>4. Fits(z)  BY <2>8 DEF Fits
    <3> QED  BY <1>3, <2>8, <3>2, <3>3, <3>4 DEF Sound
  <2>11. Stacked' /\ OpsAreSound' /\ Doing(t)' = {z} /\ \A u \in Threads \ {t} : Doing(u)' = Doing(u)
    BY <1>b, <2>8, <2>9, <2>10
  <2>12. Kept(t, z)'
    <3>1. \A n \in linked : ~Ahead(op, n)  BY <1>2, <1>7 DEF Kept
    <3>2. \A i \in Positions(s) : s[i] \notin linked  BY <2>1, <3>1 DEF Ahead
    <3>3. h \notin linked  BY <2>4, <3>2 DEF Positions
    <3>4. \A n \in linked : ~Ahead(z, n)  BY <2>6, <2>8, <3>2 DEF Ahead
    <3> QED  BY <2>8, <3>3, <3>4 DEF Kept
  <2>13. ASSUME NEW n, Ends(t, n), n # op.conn PROVE Ends(t, n)'
    <3>1. Ahead(op, n)  BY <1>2, <1>7, <2>13 DEF Ends
    <3>2. PICK i \in Positions(s) : s[i] = n  BY <2>1, <3>1 DEF Ahead
    <3>3. n = h \/ Ahead(z, n)  BY <2>4, <2>5, <2>8, <3>2 DEF Ahead
    <3> QED  BY <2>8, <2>11, <3>3 DEF Ends
  <2>14. \A r : ~Destroys(t, r)  BY <1>2, <1>7 DEF Destroys
  <2> QED  BY <1>1, <1>4, <2>11, <2>12, <2>13, <2>14
<1>8. CASE op.kind = "destroy"
  <2>1. PICK z : z = [op EXCEPT !.at = "sever"]  OBVIOUS
  <2>2. /\ z \in Operation /\ z.at = "sever" /\ z.conn = op.conn /\ z.todo = op.todo
        /\ z.kind = "destroy" /\ z.recv = op.recv
    BY <1>2, <1>8, <2>1 DEF Operation, Step
  <2>3. Becomes(t, z)  BY <1>1, <1>8, <2>1 DEF NextConnection, Goes
  <2>4. Sound(z)'
    <3>1. Fits(z)  BY <2>2 DEF Fits
    <3> QED  BY <1>2, <1>3, <2>2, <3>1 DEF Sound
  <2>5. Stacked' /\ OpsAreSound' /\ Doing(t)' = {z} /\ \A u \in Threads \ {t} : Doing(u)' = Doing(u)
    BY <1>b, <2>2, <2>3, <2>4
  <2>6. Kept(t, z)'
    <3>1. \A n : Untaken(op, n) /\ n \in linked => Ahead(op, n)  BY <1>2 DEF Untaken
    <3>2. \A n : Ahead(z, n) <=> Ahead(op, n)  BY <2>2 DEF Ahead
    <3>3. \A n \in linked : owner[n] = z.recv => Untaken(z, n)'
      BY <1>2, <1>8, <2>2, <3>1, <3>2 DEF Kept, Untaken
    <3> QED  BY <1>2, <1>8, <2>2, <3>3 DEF Kept
  <2>7. \A n : ~Ends(t, n)  BY <1>2, <1>8 DEF Ends
  <2>8. \A r : Destroys(t, r) => Destroys(t, r)'  BY <1>2, <2>2, <2>5 DEF Destroys
  <2> QED  BY <1>1, <1>4, <2>5, <2>6, <2>7, <2>8
<1> QED  BY <1>2, <1>5, <1>6, <1>7, <1>8 DEF Enders

-----------------------------------------------------------------------------
(* What the ways to leave an operation do to the stacks.                     *)

LEMMA Popped ==
    ASSUME Inv, NEW t \in Threads, Busy(t), Pop(t), made' = made
    PROVE  /\ Stacked' /\ OpsAreSound' /\ Doing(t)' = {}
           /\ \A u \in Threads \ {t} : Doing(u)' = Doing(u)
<1>1. Stacked /\ OpsAreSound /\ made \in Nat /\ made' \in Nat /\ made <= made'  BY InvTypes
<1>2. LeftAlone(t)  BY <1>1, PopLeaves
<1>3. Ops' \subseteq Ops  BY <1>2 DEF LeftAlone
<1>4. OpsAreSound'  BY <1>1, <1>3, OpsStaySound
<1> QED  BY <1>2, <1>4 DEF LeftAlone

LEMMA Became ==
    ASSUME Inv, NEW t \in Threads, Busy(t), NEW z \in Operation, Becomes(t, z), made' = made, Sound(z)
    PROVE  /\ Stacked' /\ OpsAreSound' /\ Doing(t)' = IF z.at = "slot" THEN {} ELSE {z}
           /\ \A u \in Threads \ {t} : Doing(u)' = Doing(u)
<1>1. Stacked /\ OpsAreSound /\ made \in Nat /\ made' \in Nat /\ made <= made'  BY InvTypes
<1>2. LeftWith(t, z)  BY <1>1, BecomesLeaves
<1>3. Ops' \subseteq Ops \cup {z} /\ Sound(z)'  BY <1>1, <1>2, SoundStays DEF LeftWith
<1>4. OpsAreSound'  BY <1>1, <1>3, OpsJoinedSound
<1> QED  BY <1>2, <1>4 DEF LeftWith

LEMMA Pushed ==
    ASSUME Inv, NEW t \in Threads, Busy(t) => Top(t).at = "slot", NEW z \in Operation, Push(t, z),
           made' \in Nat, made <= made', Sound(z)'
    PROVE  /\ Stacked' /\ OpsAreSound' /\ Doing(t)' = IF z.at = "slot" THEN {} ELSE {z}
           /\ \A u \in Threads \ {t} : Doing(u)' = Doing(u)
           /\ Doing(t) = {}
<1>1. Stacked /\ OpsAreSound /\ made \in Nat  BY InvTypes
<1>2. LeftWith(t, z) /\ Doing(t) = {}  BY <1>1, PushLeaves
<1>3. Ops' \subseteq Ops \cup {z}  BY <1>2 DEF LeftWith
<1>4. OpsAreSound'  BY <1>1, <1>3, OpsJoinedSound
<1> QED  BY <1>2, <1>4 DEF LeftWith

\* The thread's operation at another step.
LEMMA Stepped ==
    ASSUME Inv, NEW t \in Threads, Busy(t), NEW step \in Step, Goes(t, step), made' = made,
           NEW z, z = [Top(t) EXCEPT !.at = step], Fits(z),
           step \in {"register", "list", "remove", "prune", "unlist", "post", "slot"} => z.conn \in 1 .. made
    PROVE  /\ Stacked' /\ OpsAreSound' /\ Doing(t)' = IF step = "slot" THEN {} ELSE {z}
           /\ \A u \in Threads \ {t} : Doing(u)' = Doing(u)
           /\ z \in Operation /\ z.at = step /\ z.kind = Top(t).kind /\ z.conn = Top(t).conn
           /\ z.recv = Top(t).recv /\ z.todo = Top(t).todo
<1>1. Top(t) \in Operation /\ Sound(Top(t))  BY TopIsSound
<1>2. /\ z \in Operation /\ z.at = step /\ z.kind = Top(t).kind /\ z.conn = Top(t).conn
      /\ z.recv = Top(t).recv /\ z.todo = Top(t).todo /\ z.before = Top(t).before
  BY <1>1 DEF Operation
<1>3. Sound(z)  BY <1>1, <1>2 DEF Sound, InOrder
<1>4. Becomes(t, z)  BY DEF Goes
<1> QED  BY <1>2, <1>3, <1>4, Became

\* A thread that calls is in the middle of nothing.
LEMMA NothingDone ==
    ASSUME NEW t, Doing(t) = {}
    PROVE  /\ \A n : ~Connects(t, n) /\ ~Ends(t, n)
           /\ \A r : ~Destroys(t, r)
BY DEF Connects, Ends, Destroys

-----------------------------------------------------------------------------
(* The steps that leave the lists alone.                                     *)

LEMMA RegisterKeeps ==
    ASSUME Inv, NEW t \in Threads, Register(t)
    PROVE  Inv'
<1>1. PICK op : op = Top(t)  OBVIOUS
<1>2. Busy(t) /\ op.kind = "connect" /\ op.at = "register"  BY <1>1 DEF Register, At
<1>3. op \in Operation /\ Sound(op) /\ Doing(t) = {op} /\ Kept(t, op)
  BY <1>1, <1>2, TopIsSound
<1>4. life[op.recv] = "alive" /\ op.conn \in 1 .. made  BY <1>2, <1>3 DEF Kept, Sound
<1>5. Goes(t, "list") /\ made' = made  BY <1>1, <1>4 DEF Register
<1>6. PICK z : z = [Top(t) EXCEPT !.at = "list"]  OBVIOUS
<1>7. "list" \in Step /\ z.kind = "connect" /\ z.at = "list" /\ z.conn = op.conn /\ z.recv = op.recv
  BY <1>1, <1>2, <1>3, <1>6 DEF Step, Operation
<1>8. Fits(z)  BY <1>7 DEF Fits
<1>9. /\ Stacked' /\ OpsAreSound' /\ Doing(t)' = {z}
      /\ \A u \in Threads \ {t} : Doing(u)' = Doing(u)
  BY <1>2, <1>4, <1>5, <1>6, <1>7, <1>8, Stepped
<1>10. Kept(t, z)  BY <1>2, <1>3, <1>7 DEF Kept
<1>11. \A n : Connects(t, n) => Connects(t, n)'  BY <1>3, <1>7, <1>9 DEF Connects
<1>12. (\A n : ~Ends(t, n)) /\ (\A r : ~Destroys(t, r))  BY <1>2, <1>3 DEF Ends, Destroys
<1>13. Sees(t)  BY <1>9, <1>10, <1>11, <1>12 DEF Sees
<1> QED  BY <1>13, SilentKeeps DEF Register

LEMMA PruneKeeps ==
    ASSUME Inv, NEW t \in Threads, Prune(t)
    PROVE  Inv'
<1>1. PICK op : op = Top(t)  OBVIOUS
<1>2. Busy(t) /\ op.kind \in Enders /\ op.at = "prune"  BY <1>1 DEF Prune, At
<1>3. op \in Operation /\ Sound(op) /\ Doing(t) = {op} /\ Kept(t, op)
  BY <1>1, <1>2, TopIsSound
<1>4. op.conn \in 1 .. made /\ op.conn \notin linked  BY <1>2, <1>3 DEF Kept, Sound
<1>5. UNCHANGED <<linked, owner, life, made>>  BY DEF Prune, lists, nodes
<1>6. CASE life[owner[op.conn]] = "alive"
  <2>1. Goes(t, "unlist")  BY <1>1, <1>6 DEF Prune
  <2>2. PICK z : z = [Top(t) EXCEPT !.at = "unlist"]  OBVIOUS
  <2>3. /\ "unlist" \in Step /\ z.kind = op.kind /\ z.at = "unlist" /\ z.conn = op.conn
        /\ z.recv = op.recv /\ z.todo = op.todo
    BY <1>1, <1>3, <2>2 DEF Step, Operation
  <2>4. Fits(z)  BY <1>2, <2>3 DEF Fits, Enders
  <2>5. /\ Stacked' /\ OpsAreSound' /\ Doing(t)' = {z}
        /\ \A u \in Threads \ {t} : Doing(u)' = Doing(u)
    BY <1>2, <1>4, <1>5, <2>1, <2>2, <2>3, <2>4, Stepped
  <2>6. \A n : Ahead(z, n) <=> Ahead(op, n)  BY <2>3 DEF Ahead
  <2>7. Kept(t, z)  BY <1>2, <1>3, <2>3, <2>6 DEF Kept, Untaken, Enders
  <2>8. \A n : ~Connects(t, n)  BY <1>2, <1>3 DEF Connects, Enders
  <2>9. \A n : Ends(t, n) => Ends(t, n)'  BY <1>2, <1>3, <2>3, <2>5, <2>6 DEF Ends
  <2>10. \A r : Destroys(t, r) => Destroys(t, r)'  BY <1>3, <2>3, <2>5 DEF Destroys
  <2>11. Sees(t)  BY <2>5, <2>7, <2>8, <2>9, <2>10 DEF Sees
  <2> QED  BY <2>11, SilentKeeps DEF Prune
<1>7. CASE life[owner[op.conn]] # "alive"
  <2>1. NextConnection(t)  BY <1>1, <1>7 DEF Prune
  <2>2. /\ Stacked' /\ OpsAreSound'
        /\ \A u \in Threads \ {t} : Doing(u)' = Doing(u)
        /\ \A p \in Doing(t)' : Kept(t, p)'
        /\ \A n : ~Connects(t, n)
        /\ \A n : Ends(t, n) /\ n # Top(t).conn => Ends(t, n)'
        /\ \A r : Destroys(t, r) => Destroys(t, r)'
    BY <1>1, <1>2, <1>4, <1>5, <2>1, NextConnectionLeaves
  <2>3. \A p : Kept(t, p)' <=> Kept(t, p)  BY DEF Kept, Untaken, Prune, lists, nodes
  <2>4. Sees(t)  BY <1>1, <1>7, <2>2, <2>3 DEF Sees
  <2> QED  BY <2>4, SilentKeeps DEF Prune
<1> QED  BY <1>6, <1>7

LEMMA EndSlotKeeps ==
    ASSUME Inv, NEW t \in Threads, EndSlot(t)
    PROVE  Inv'
<1>1. PICK op : op = Top(t)  OBVIOUS
<1>2. Busy(t) /\ op.kind \in {"emit", "deliver"} /\ op.at = "slot" /\ made' = made
  BY <1>1 DEF EndSlot, At
<1>3. op \in Operation /\ Sound(op) /\ Doing(t) = {}  BY <1>1, <1>2, TopIsSound
<1>4. (\A n : ~Connects(t, n) /\ ~Ends(t, n)) /\ (\A r : ~Destroys(t, r))  BY <1>3, NothingDone
<1>5. CASE op.kind = "emit"
  <2>1. Goes(t, "next")  BY <1>1, <1>5 DEF EndSlot
  <2>2. PICK z : z = [Top(t) EXCEPT !.at = "next"]  OBVIOUS
  <2>3. "next" \in Step /\ z.kind = "emit" /\ z.at = "next"
    BY <1>1, <1>3, <1>5, <2>2 DEF Step, Operation
  <2>4. Fits(z)  BY <2>3 DEF Fits
  <2>5. /\ Stacked' /\ OpsAreSound' /\ Doing(t)' = {z}
        /\ \A u \in Threads \ {t} : Doing(u)' = Doing(u)
    BY <1>2, <2>1, <2>2, <2>3, <2>4, Stepped
  <2>6. Kept(t, z)  BY <2>3 DEF Kept
  <2>7. Sees(t)  BY <1>4, <2>5, <2>6 DEF Sees
  <2> QED  BY <2>7, SilentKeeps DEF EndSlot
<1>6. CASE op.kind # "emit"
  <2>1. Pop(t)  BY <1>1, <1>6 DEF EndSlot
  <2>2. Sees(t)  BY <1>2, <1>4, <2>1, Popped DEF Sees
  <2> QED  BY <2>2, SilentKeeps DEF EndSlot
<1> QED  BY <1>5, <1>6

\* An emission's next slot comes after the last.
LEMMA CallNextKeeps ==
    ASSUME Inv, NEW t \in Threads, CallNext(t)
    PROVE  Inv'
<1>1. PICK op : op = Top(t)  OBVIOUS
<1>2. Busy(t) /\ op.kind = "emit" /\ op.at = "next" /\ made' = made  BY <1>1 DEF CallNext, At
<1>3. op \in Operation /\ Sound(op) /\ Doing(t) = {op}  BY <1>1, <1>2, TopIsSound
<1>4. (\A n : ~Connects(t, n) /\ ~Ends(t, n)) /\ (\A r : ~Destroys(t, r))
  BY <1>2, <1>3 DEF Connects, Ends, Destroys
<1>5. CASE op.todo = <<>>
  <2>1. Pop(t)  BY <1>1, <1>5 DEF CallNext
  <2>2. Sees(t)  BY <1>2, <1>4, <2>1, Popped DEF Sees
  <2> QED  BY <2>2, SilentKeeps DEF CallNext
<1>6. CASE op.todo # <<>>
  <2>1. PICK s \in Seq(Conns) : s = op.todo /\ s # <<>>  BY <1>3, <1>6 DEF Operation
  <2>2. PICK v : v = Tail(s)  OBVIOUS
  <2>3. PICK h : h = Head(s)  OBVIOUS
  <2>4. PICK step : step = IF h \notin connected THEN "next"
                           ELSE IF Home[owner[h]] = t THEN "slot" ELSE "post"
    OBVIOUS
  <2>5. /\ v \in Seq(Conns) /\ h \in Conns /\ Len(v) = Len(s) - 1 /\ Len(s) \in Nat /\ h = s[1]
        /\ \A k \in 1 .. Len(v) : v[k] = s[k + 1]
        /\ 1 \in 1 .. Len(s)
    BY <2>1, <2>2, <2>3, HeadTailProperties
  <2>6. \A i \in Positions(v) : i + 1 \in Positions(s) /\ v[i] = s[i + 1] /\ i \in Nat /\ 1 < i + 1
    BY <2>5 DEF Positions
  <2>7. PICK z : z = [op EXCEPT !.conn = h, !.todo = v, !.at = step]  OBVIOUS
  <2>8. /\ step \in {"next", "slot", "post"} /\ z \in Operation
        /\ z.at = step /\ z.conn = h /\ z.todo = v /\ z.kind = "emit" /\ z.before = op.before
    BY <1>2, <1>3, <2>4, <2>5, <2>7 DEF Operation, Step
  <2>9. Becomes(t, z)
    <3>1. Becomes(t, [op EXCEPT !.conn = Head(op.todo), !.todo = Tail(@),
                        !.at = IF Head(op.todo) \notin connected THEN "next"
                               ELSE IF Home[owner[Head(op.todo)]] = t THEN "slot" ELSE "post"])
      BY <1>1, <1>6 DEF CallNext
    <3> QED  BY <2>1, <2>2, <2>3, <2>4, <2>7, <3>1
  <2>10. Sound(z)
    <3>1. \A i \in Positions(s) : s[i] \in 1 .. made  BY <1>3, <2>1 DEF Sound
    <3>2. h \in 1 .. made  BY <2>5, <3>1 DEF Positions
    <3>3. \A i \in Positions(z.todo) : z.todo[i] \in 1 .. made  BY <2>6, <2>8, <3>1
    <3>4. Fits(z)  BY <2>8 DEF Fits
    <3>5. InOrder(z)
      <4>1. /\ \A i, j \in Positions(s) : i < j => s[i] < s[j]
            /\ \A i \in Positions(s) : s[i] <= op.before
        BY <1>2, <1>3, <2>1 DEF Sound, InOrder
      <4>2. \A i, j \in Positions(v) : i < j => i + 1 < j + 1  BY <2>6
      <4>3. \A i, j \in Positions(v) : i < j => v[i] < v[j]  BY <2>6, <4>1, <4>2
      <4>4. 1 \in Positions(s)  BY <2>5 DEF Positions
      <4>5. \A i \in Positions(v) : v[i] <= op.before /\ h < v[i]  BY <2>5, <2>6, <4>1, <4>4
      <4> QED  BY <2>8, <4>3, <4>5 DEF InOrder
    <3> QED  BY <2>8, <3>2, <3>3, <3>4, <3>5 DEF Sound
  <2>11. /\ Stacked' /\ OpsAreSound' /\ Doing(t)' \subseteq {z}
         /\ \A u \in Threads \ {t} : Doing(u)' = Doing(u)
    BY <1>2, <2>8, <2>9, <2>10, Became
  <2>12. Kept(t, z)  BY <2>8 DEF Kept
  <2>13. Sees(t)  BY <1>4, <2>11, <2>12 DEF Sees
  <2> QED  BY <2>13, SilentKeeps DEF CallNext
<1> QED  BY <1>5, <1>6

LEMMA PostKeeps ==
    ASSUME Inv, NEW t \in Threads, Post(t)
    PROVE  Inv'
<1>1. PICK op : op = Top(t)  OBVIOUS
<1>2. /\ Busy(t) /\ op.kind = "emit" /\ op.at = "post" /\ made' = made /\ owner' = owner
      /\ published' = published /\ dirty' = dirty /\ emits' = emits /\ Quiet
      /\ Goes(t, "next")
  BY <1>1 DEF Post, At, Quiet, lists, nodes
<1>3. op \in Operation /\ Sound(op) /\ Doing(t) = {op}  BY <1>1, <1>2, TopIsSound
<1>4. (\A n : ~Connects(t, n) /\ ~Ends(t, n)) /\ (\A r : ~Destroys(t, r))
  BY <1>2, <1>3 DEF Connects, Ends, Destroys
<1>5. PICK z : z = [Top(t) EXCEPT !.at = "next"]  OBVIOUS
<1>6. "next" \in Step /\ z.kind = "emit" /\ z.at = "next"
  BY <1>1, <1>2, <1>3, <1>5 DEF Step, Operation
<1>7. Fits(z)  BY <1>6 DEF Fits
<1>8. /\ Stacked' /\ OpsAreSound' /\ Doing(t)' = {z}
      /\ \A u \in Threads \ {t} : Doing(u)' = Doing(u)
  BY <1>2, <1>5, <1>6, <1>7, Stepped
<1>9. Kept(t, z)  BY <1>6 DEF Kept
<1>10. Sees(t)  BY <1>4, <1>8, <1>9 DEF Sees
<1>11. PICK n : n = op.conn  OBVIOUS
<1>12. PICK r : r = owner[n]  OBVIOUS
<1>13. n \in 1 .. made /\ n \in Conns /\ r \in Receivers
  BY <1>2, <1>3, <1>11, <1>12, InvTypes DEF Sound
<1>14. PICK s \in Seq(Conns) : s = pending[r]  BY <1>13 DEF Inv, TypeOK
<1>15. PICK y : y = Append(s, n)  OBVIOUS
<1>16. /\ y \in Seq(Conns) /\ Len(y) = Len(s) + 1 /\ Len(s) \in Nat
       /\ \A k \in 1 .. Len(s) : y[k] = s[k]
       /\ y[Len(s) + 1] = n
  BY <1>13, <1>15, AppendProperties
<1>17. pending' = [pending EXCEPT ![r] = y] /\ pending \in [Receivers -> Seq(Conns)]
  BY <1>1, <1>11, <1>12, <1>14, <1>15 DEF Post, Inv, TypeOK
<1>18. pending' \in [Receivers -> Seq(Conns)] /\ pending'[r] = y
       /\ \A q \in Receivers : q # r => pending'[q] = pending[q]
  BY <1>13, <1>16, <1>17
<1>19. Posted'
  <2> SUFFICES ASSUME NEW q \in Receivers, NEW k \in Positions(pending'[q])
               PROVE  pending'[q][k] \in 1 .. made /\ owner[pending'[q][k]] = q
    BY <1>2 DEF Posted
  <2>1. CASE q = r
    <3>1. k = Len(s) + 1 \/ k \in 1 .. Len(s)  BY <1>16, <1>18, <2>1 DEF Positions
    <3>2. CASE k = Len(s) + 1  BY <1>12, <1>13, <1>16, <1>18, <2>1, <3>2
    <3>3. CASE k \in 1 .. Len(s)
      <4>1. pending'[q][k] = pending[q][k] /\ k \in Positions(pending[q])
        BY <1>14, <1>16, <1>18, <2>1, <3>3 DEF Positions
      <4> QED  BY <4>1 DEF Inv, Posted
    <3> QED  BY <3>1, <3>2, <3>3
  <2>2. CASE q # r  BY <1>18, <2>2 DEF Inv, Posted
  <2> QED  BY <2>1, <2>2
<1>20. /\ published' \in Seq(Conns) \cup {None} /\ dirty' \in BOOLEAN
       /\ ~dirty' => published' = Live(working)
       /\ emits' \in 0 .. MaxEmits
  BY <1>2 DEF Inv, TypeOK, Lists
<1> QED  BY <1>2, <1>10, <1>18, <1>19, <1>20, QuietKeeps

LEMMA DeliverKeeps ==
    ASSUME Inv, NEW t \in Threads, NEW r \in Receivers, Deliver(t, r)
    PROVE  Inv'
<1>1. /\ ~Busy(t) /\ made' = made /\ owner' = owner /\ pending[r] # <<>>
      /\ published' = published /\ dirty' = dirty /\ emits' = emits /\ Quiet
  BY DEF Deliver, Quiet, lists, nodes
<1>2. PICK s \in Seq(Conns) : s = pending[r] /\ s # <<>>  BY <1>1 DEF Inv, TypeOK
<1>3. PICK h : h = Head(s)  OBVIOUS
<1>4. PICK y : y = Tail(s)  OBVIOUS
<1>5. /\ y \in Seq(Conns) /\ Len(y) = Len(s) - 1 /\ h \in Conns /\ Len(s) \in Nat /\ h = s[1]
      /\ \A k \in 1 .. Len(y) : y[k] = s[k + 1] /\ k + 1 \in 1 .. Len(s)
      /\ 1 \in 1 .. Len(s)
  BY <1>2, <1>3, <1>4, HeadTailProperties
<1>6. pending' = [pending EXCEPT ![r] = y] /\ pending \in [Receivers -> Seq(Conns)]
  BY <1>2, <1>4 DEF Deliver, Inv, TypeOK
<1>7. pending' \in [Receivers -> Seq(Conns)] /\ pending'[r] = y
      /\ \A q \in Receivers : q # r => pending'[q] = pending[q]
  BY <1>5, <1>6
<1>8. \A k \in Positions(s) : s[k] \in 1 .. made /\ owner[s[k]] = r  BY <1>2 DEF Inv, Posted
<1>9. Posted'
  <2> SUFFICES ASSUME NEW q \in Receivers, NEW k \in Positions(pending'[q])
               PROVE  pending'[q][k] \in 1 .. made /\ owner[pending'[q][k]] = q
    BY <1>1 DEF Posted
  <2>1. CASE q = r
    <3>1. y[k] = s[k + 1] /\ k + 1 \in Positions(s)  BY <1>5, <1>7, <2>1 DEF Positions
    <3> QED  BY <1>7, <1>8, <2>1, <3>1
  <2>2. CASE q # r  BY <1>7, <2>2 DEF Inv, Posted
  <2> QED  BY <2>1, <2>2
<1>10. Doing(t) = {}  BY <1>1 DEF Doing
<1>11. (\A n : ~Connects(t, n) /\ ~Ends(t, n)) /\ (\A q : ~Destroys(t, q))  BY <1>10, NothingDone
<1>12. Sees(t)
  <2>1. CASE life[r] = "alive"
    <3>1. PICK z : z = Op("deliver", "slot", h, r, <<>>)  OBVIOUS
    <3>2. Push(t, z)  BY <1>2, <1>3, <2>1, <3>1 DEF Deliver
    <3>3. z.kind = "deliver" /\ z.at = "slot" /\ z.conn = h /\ z.todo = <<>> /\ z.recv = r /\ z.before = made
      BY <3>1 DEF Op
    <3>4. z \in Operation
      <4>1. <<>> \in Seq(Conns) /\ made \in 0 .. MaxConns  BY DEF Inv, TypeOK
      <4> QED  BY <1>5, <3>1, <4>1 DEF Op, Operation, Kind, Step
    <3>5. Sound(z)
      <4>1. h \in 1 .. made  BY <1>5, <1>8 DEF Positions
      <4>2. Positions(z.todo) = {}  BY <3>3 DEF Positions
      <4>3. Fits(z)  BY <3>3 DEF Fits
      <4> QED  BY <3>3, <3>4, <4>1, <4>2, <4>3 DEF Sound
    <3>6. Sound(z)' /\ made' \in Nat /\ made <= made'
      <4>1. made \in Nat /\ made' \in Nat /\ made <= made'  BY <1>1, InvTypes
      <4> QED  BY <3>5, <4>1, SoundStays
    <3>7. /\ Stacked' /\ OpsAreSound' /\ Doing(t)' = {}
          /\ \A u \in Threads \ {t} : Doing(u)' = Doing(u)
      BY <1>1, <3>2, <3>3, <3>4, <3>6, Pushed
    <3> QED  BY <1>11, <3>7 DEF Sees
  <2>2. CASE life[r] # "alive"
    <3>1. stack' = stack  BY <2>2 DEF Deliver
    <3>2. Stacked'  BY <3>1, InvTypes DEF Stacked, Nested
    <3>3. \A u \in Threads : Doing(u)' = Doing(u)  BY <3>1 DEF Doing, Busy, Top
    <3>4. OpsAreSound'
      <4>1. Ops' \subseteq Ops  BY <3>1 DEF Ops
      <4>2. OpsAreSound /\ made \in Nat /\ made' \in Nat /\ made <= made'  BY <1>1, InvTypes
      <4> QED  BY <4>1, <4>2, OpsStaySound
    <3> QED  BY <1>10, <1>11, <3>2, <3>3, <3>4 DEF Sees
  <2> QED  BY <2>1, <2>2
<1>13. /\ published' \in Seq(Conns) \cup {None} /\ dirty' \in BOOLEAN
       /\ ~dirty' => published' = Live(working)
       /\ emits' \in 0 .. MaxEmits
  BY <1>1 DEF Inv, TypeOK, Lists
<1> QED  BY <1>1, <1>7, <1>9, <1>12, <1>13, QuietKeeps

\* A snapshot lists what is connected before the emission, in order.
LEMMA EmitKeeps ==
    ASSUME Inv, NEW t \in Threads, Emit(t)
    PROVE  Inv'
<1>1. /\ MayCall(t) /\ made' = made /\ owner' = owner /\ pending' = pending
      /\ published' = Snapshot /\ dirty' = FALSE /\ emits' = emits + 1 /\ emits < MaxEmits
      /\ life' = life /\ Quiet
  BY DEF Emit, Quiet, nodes
<1>2. Snapshot = Live(working)  BY DEF Snapshot, Inv, TypeOK, Lists
<1>3. PICK v : v = Live(working)  OBVIOUS
<1>4. working \in Seq(Listed) /\ linked \subseteq 1 .. made /\ made \in Nat /\ Lists
  BY InvTypes DEF Inv, TypeOK, Listed, Bounds
<1>5. v \in Seq(Conns) /\ Len(v) \in Nat  BY <1>3, <1>4, LiveLives
<1>6. (\A i \in Positions(v) : v[i] \in linked /\ v[i] # None) /\ Rising(v)
  BY <1>3, <1>4, LiveIsLinked DEF Lists
<1>7. PICK z : z = Op("emit", "next", None, None, v)  OBVIOUS
<1>8. Push(t, z)  BY <1>2, <1>3, <1>7 DEF Emit
<1>9. /\ z.kind = "emit" /\ z.at = "next" /\ z.conn = None /\ z.todo = v /\ z.recv = None /\ z.before = made
  BY <1>7 DEF Op
<1>10. z \in Operation
  <2>1. made \in 0 .. MaxConns  BY DEF Inv, TypeOK
  <2> QED  BY <1>5, <1>7, <2>1 DEF Op, Operation, Kind, Step
<1>11. Sound(z)
  <2>0. \A n \in linked : n \in 1 .. made /\ n <= made  BY <1>4
  <2>1. \A i \in Positions(v) : v[i] \in 1 .. made /\ v[i] <= made  BY <1>6, <2>0
  <2>2. InOrder(z)  BY <1>6, <1>9, <2>1 DEF InOrder, Rising
  <2>3. Fits(z)  BY <1>9 DEF Fits
  <2> QED  BY <1>9, <1>10, <2>1, <2>2, <2>3 DEF Sound
<1>12. made \in Nat /\ made' \in Nat /\ made <= made'  BY <1>1, <1>4
<1>13. Sound(z)'  BY <1>11, <1>12, SoundStays
<1>14. /\ Stacked' /\ OpsAreSound' /\ Doing(t)' = {z} /\ Doing(t) = {}
       /\ \A u \in Threads \ {t} : Doing(u)' = Doing(u)
  BY <1>1, <1>8, <1>9, <1>10, <1>12, <1>13, Pushed DEF MayCall
<1>15. (\A n : ~Connects(t, n) /\ ~Ends(t, n)) /\ (\A q : ~Destroys(t, q))  BY <1>14, NothingDone
<1>16. Kept(t, z)  BY <1>9 DEF Kept
<1>17. Sees(t)  BY <1>14, <1>15, <1>16 DEF Sees
<1>18. published' \in Seq(Conns) \cup {None} /\ dirty' \in BOOLEAN /\ published' = Live(working)
  BY <1>1, <1>2, <1>3, <1>5
<1>19. emits' \in 0 .. MaxEmits
  <2>1. emits \in 0 .. MaxEmits /\ MaxEmits \in Nat  BY SignalAssumption DEF Inv, TypeOK
  <2> QED  BY <1>1, <2>1
<1>20. pending' \in [Receivers -> Seq(Conns)] /\ Posted'  BY <1>1 DEF Inv, TypeOK, Posted
<1> QED  BY <1>1, <1>17, <1>18, <1>19, <1>20, QuietKeeps

-----------------------------------------------------------------------------
(* The steps that change the lists.                                          *)

LEMMA StepKeeps ==
    ASSUME Inv, NEW t \in Threads, Ages(t), Answers(t), Stacked', OpsAreSound',
           \A u \in Threads \ {t} : Doing(u)' = Doing(u),
           \A u \in Threads \ {t} : \A op \in Doing(u) : op.kind = "connect" => life'[op.recv] = "alive",
           TypeOK', Bounds', Posted', Lists', NoSlotKeptForTheGone'
    PROVE  Inv'
<1>1. Core'  BY StepAnswers
<1> QED  BY <1>1 DEF Inv, Stacked

LEMMA ConnectsTheLiving ==
    ASSUME Inv, NEW u \in Threads, NEW op \in Doing(u), op.kind = "connect"
    PROVE  op.recv \in Receivers /\ life[op.recv] = "alive"
BY DEF Inv, Core, Kept

LEMMA DyingAreDestroyed ==
    ASSUME Inv, NEW t, NEW r \in Receivers, Home[r] = t, life[r] = "dying"
    PROVE  Destroys(t, r)
BY DEF Inv, Core

LEMMA PostedStays ==
    ASSUME Inv, NEW t, Ages(t), pending' = pending
    PROVE  Posted'
<1>1. \A n \in 1 .. made : n \in 1 .. made' /\ owner'[n] = owner[n]  BY DEF Ages
<1> QED  BY <1>1 DEF Inv, Posted

LEMMA ListKeeps ==
    ASSUME Inv, NEW t \in Threads, List(t)
    PROVE  Inv'
<1>1. PICK op : op = Top(t)  OBVIOUS
<1>2. PICK n : n = op.conn  OBVIOUS
<1>3. Busy(t) /\ op.kind = "connect" /\ op.at = "list"  BY <1>1 DEF List, At
<1>4. Sound(op) /\ Doing(t) = {op} /\ Kept(t, op) /\ n \in 1 .. made
  BY <1>1, <1>2, <1>3, TopIsSound DEF Sound
<1>5. /\ incoming' = incoming \cup ({n} \ done) /\ Pop(t)
      /\ working' = working /\ tombstones' = tombstones /\ published' = published /\ dirty' = dirty
      /\ index' = index /\ linked' = linked /\ connected' = connected /\ owner' = owner
      /\ done' = done /\ life' = life /\ pending' = pending /\ made' = made /\ emits' = emits
  BY <1>1, <1>2 DEF List, lists
<1>6. /\ Stacked' /\ OpsAreSound' /\ Doing(t)' = {}
      /\ \A u \in Threads \ {t} : Doing(u)' = Doing(u)
  BY <1>3, <1>5, Popped
<1>7. made \in Nat /\ linked \subseteq 1 .. made /\ n \in Conns  BY <1>4, InvTypes DEF Bounds
<1>8. Ages(t)
  <2>1. \A m \in linked' : m \in 1 .. made  BY <1>5, <1>7
  <2>2. \A m \in linked' : m \in incoming => m \in incoming'  BY <1>5
  <2>3. made <= made' /\ made' \in Nat  BY <1>5, <1>7
  <2>4. \A m \in linked' : m \notin 1 .. made => life[owner'[m]] = "alive"  BY <2>1
  <2> QED  BY <1>5, <1>7, <2>2, <2>3, <2>4 DEF Ages
<1>9. \A m : Connects(t, m) => m = n  BY <1>2, <1>4 DEF Connects
<1>10. (\A m : ~Ends(t, m)) /\ (\A r : ~Destroys(t, r))  BY <1>3, <1>4 DEF Ends, Destroys
<1>11. Answers(t)
  <2>1. ASSUME NEW m \in 1 .. made, life'[owner[m]] = "alive"
        PROVE  /\ m \in linked' => m \notin done'
               /\ m \in linked' /\ Connects(t, m) => m \in incoming' \/ Connects(t, m)'
               /\ m \notin linked' => m \in done' \/ Ends(t, m)' \/ (m \notin linked /\ ~Ends(t, m))
    <3>1. m \in linked => m \notin done  BY <1>5, <2>1 DEF Inv, Core
    <3> QED  BY <1>5, <1>9, <1>10, <3>1
  <2>2. \A r \in Receivers : life'[r] = "dying" =>
            IF Home[r] = t THEN Destroys(t, r)' ELSE life[r] = "dying"
    BY <1>5, <1>10, DyingAreDestroyed
  <2> QED  BY <1>5, <1>6, <2>1, <2>2 DEF Answers
<1>12. \A u \in Threads \ {t} : \A p \in Doing(u) : p.kind = "connect" => life'[p.recv] = "alive"
  BY <1>5, ConnectsTheLiving
<1>13. TypeOK'  BY <1>5, <1>6, <1>7 DEF Inv, TypeOK, Stacked
<1>14. Bounds'  BY <1>4, <1>5 DEF Inv, Bounds
<1>15. Posted' /\ Lists' /\ NoSlotKeptForTheGone'
  BY <1>5, <1>8, PostedStays DEF Inv, Lists, NoSlotKeptForTheGone
<1> QED  BY <1>6, <1>8, <1>11, <1>12, <1>13, <1>14, <1>15, StepKeeps

LEMMA DisconnectKeeps ==
    ASSUME Inv, NEW t \in Threads, NEW n \in Conns, Disconnect(t, n)
    PROVE  Inv'
<1>1. /\ MayCall(t) /\ n <= made /\ connected' = connected \ {n}
      /\ working' = working /\ tombstones' = tombstones /\ published' = published /\ dirty' = dirty
      /\ index' = index /\ linked' = linked /\ incoming' = incoming /\ owner' = owner
      /\ done' = done /\ life' = life /\ pending' = pending /\ made' = made /\ emits' = emits
  BY DEF Disconnect, lists
<1>2. made \in Nat /\ linked \subseteq 1 .. made /\ n \in 1 .. made /\ owner[n] \in Receivers
  <2>1. made \in Nat /\ n \in Nat /\ 1 <= n  BY InvTypes DEF Conns
  <2>2. n \in 1 .. made  BY <1>1, <2>1
  <2> QED  BY <2>1, <2>2, InvTypes DEF Bounds
<1>3. PICK z : z = Op("disconnect", "remove", n, owner[n], <<>>)  OBVIOUS
<1>4. Push(t, z)  BY <1>3 DEF Disconnect
<1>5. /\ z.kind = "disconnect" /\ z.at = "remove" /\ z.conn = n /\ z.todo = <<>> /\ z.before = made
  BY <1>3 DEF Op
<1>6. z \in Operation
  <2>1. made \in 0 .. MaxConns /\ <<>> \in Seq(Conns)  BY DEF Inv, TypeOK
  <2> QED  BY <1>2, <1>3, <2>1 DEF Op, Operation, Kind, Step
<1>7. Sound(z)
  <2>1. Positions(z.todo) = {}  BY <1>5 DEF Positions
  <2>2. Fits(z)  BY <1>5 DEF Fits
  <2> QED  BY <1>2, <1>5, <1>6, <2>1, <2>2 DEF Sound
<1>8. made' \in Nat /\ made <= made'  BY <1>1, <1>2
<1>9. Sound(z)'  BY <1>2, <1>7, <1>8, SoundStays
<1>10. /\ Stacked' /\ OpsAreSound' /\ Doing(t)' = {z} /\ Doing(t) = {}
       /\ \A u \in Threads \ {t} : Doing(u)' = Doing(u)
  BY <1>1, <1>4, <1>5, <1>6, <1>8, <1>9, Pushed DEF MayCall
<1>11. (\A m : ~Connects(t, m) /\ ~Ends(t, m)) /\ (\A q : ~Destroys(t, q))  BY <1>10, NothingDone
<1>12. Ages(t)
  <2>1. \A m \in linked' : m \in 1 .. made  BY <1>1, <1>2
  <2>2. \A m \in linked' : m \notin 1 .. made => life[owner'[m]] = "alive"  BY <2>1
  <2>3. \A m \in connected' : m \in connected  BY <1>1
  <2> QED  BY <1>1, <1>2, <1>8, <2>2, <2>3 DEF Ages
<1>13. Kept(t, z)'
  <2>1. n \notin connected'  BY <1>1
  <2> QED  BY <1>5, <2>1 DEF Kept
<1>14. Answers(t)
  <2>1. ASSUME NEW m \in 1 .. made, life'[owner[m]] = "alive"
        PROVE  /\ m \in linked' => m \notin done'
               /\ m \in linked' /\ Connects(t, m) => m \in incoming' \/ Connects(t, m)'
               /\ m \notin linked' => m \in done' \/ Ends(t, m)' \/ (m \notin linked /\ ~Ends(t, m))
    <3>1. m \in linked => m \notin done  BY <1>1, <2>1 DEF Inv, Core
    <3> QED  BY <1>1, <1>11, <3>1
  <2>2. \A r \in Receivers : life'[r] = "dying" =>
            IF Home[r] = t THEN Destroys(t, r)' ELSE life[r] = "dying"
    BY <1>1, <1>11, DyingAreDestroyed
  <2> QED  BY <1>1, <1>10, <1>13, <2>1, <2>2 DEF Answers
<1>15. \A u \in Threads \ {t} : \A p \in Doing(u) : p.kind = "connect" => life'[p.recv] = "alive"
  BY <1>1, ConnectsTheLiving
<1>16. TypeOK'  BY <1>1, <1>10 DEF Inv, TypeOK, Stacked
<1>17. Bounds'  BY <1>1 DEF Inv, Bounds
<1>18. Posted' /\ Lists' /\ NoSlotKeptForTheGone'
  BY <1>1, <1>12, PostedStays DEF Inv, Lists, NoSlotKeptForTheGone
<1> QED  BY <1>10, <1>12, <1>14, <1>15, <1>16, <1>17, <1>18, StepKeeps

\* A node taken out where it stands.
LEMMA RemoveConnectionKeeps ==
    ASSUME Inv, NEW t \in Threads, RemoveConnection(t)
    PROVE  Inv'
<1>1. PICK op : op = Top(t)  OBVIOUS
<1>2. PICK n : n = op.conn  OBVIOUS
<1>3. Busy(t) /\ op.kind \in {"disconnect", "destroy"} /\ op.at = "remove"
  BY <1>1 DEF RemoveConnection, At
<1>4. op \in Operation /\ Sound(op) /\ Doing(t) = {op} /\ Kept(t, op) /\ n \in 1 .. made
  BY <1>1, <1>2, <1>3, TopIsSound DEF Sound
<1>5. /\ connected' = connected /\ owner' = owner /\ incoming' = incoming /\ done' = done
      /\ life' = life /\ pending' = pending /\ made' = made /\ emits' = emits
  BY DEF RemoveConnection, nodes
<1>6. (\A m : ~Connects(t, m)) /\ (\A m : ~Ends(t, m))  BY <1>3, <1>4 DEF Connects, Ends
<1>7. CASE n \notin linked
  <2>1. NextConnection(t) /\ UNCHANGED lists  BY <1>1, <1>2, <1>7 DEF RemoveConnection
  <2>2. linked' = linked /\ op.kind \in Enders  BY <1>3, <2>1 DEF lists, Enders
  <2>3. /\ Stacked' /\ OpsAreSound'
        /\ \A u \in Threads \ {t} : Doing(u)' = Doing(u)
        /\ \A p \in Doing(t)' : Kept(t, p)'
        /\ \A r : Destroys(t, r) => Destroys(t, r)'
    BY <1>1, <1>2, <1>3, <1>5, <1>7, <2>1, <2>2, NextConnectionLeaves
  <2>4. \A p : Kept(t, p)' <=> Kept(t, p)  BY <1>5, <2>2 DEF Kept, Untaken
  <2>5. Sees(t)  BY <1>6, <2>3, <2>4 DEF Sees
  <2>6. UNCHANGED <<lists, nodes, life, pending, made, emits>>  BY <1>5, <2>1 DEF nodes
  <2> QED  BY <2>5, <2>6, SilentKeeps
<1>8. CASE n \in linked
  <2>1. /\ Compacted([working EXCEPT ![index[n]] = None], tombstones + 1)
        /\ linked' = linked \ {n} /\ published' = None /\ dirty' = TRUE
        /\ Goes(t, "prune")
    BY <1>1, <1>2, <1>8 DEF RemoveConnection, DiscardSnapshot
  <2>2. PICK z : z = [Top(t) EXCEPT !.at = "prune"]  OBVIOUS
  <2>3. /\ "prune" \in Step /\ z.kind = op.kind /\ z.at = "prune" /\ z.conn = n
        /\ z.recv = op.recv /\ z.todo = op.todo
    BY <1>1, <1>2, <1>4, <2>2 DEF Step, Operation
  <2>4. Fits(z)  BY <1>3, <2>3 DEF Fits
  <2>5. /\ Stacked' /\ OpsAreSound' /\ Doing(t)' = {z}
        /\ \A u \in Threads \ {t} : Doing(u)' = Doing(u)
    BY <1>3, <1>4, <1>5, <2>1, <2>2, <2>3, <2>4, Stepped
  <2>6. /\ working \in Seq(Listed) /\ index \in [Conns -> Nat] /\ linked \in SUBSET Conns
        /\ Indexed(working, linked, index) /\ Rising(working)
        /\ tombstones = Cardinality(Nulls(working))
    BY DEF Inv, TypeOK, Listed, Lists
  <2>7. PICK w : w = [working EXCEPT ![index[n]] = None]  OBVIOUS
  <2>8. /\ w \in Seq(Listed)
        /\ Indexed(w, linked \ {n}, index) /\ Rising(w)
        /\ Cardinality(Nulls(w)) = Cardinality(Nulls(working)) + 1
    <3>1. PICK s \in Seq(Listed) : s = working  BY <2>6
    <3>2. PICK M \in SUBSET Conns : M = linked  BY <2>6
    <3>3. PICK x : x = index  OBVIOUS
    <3>4. Indexed(s, M, x) /\ Rising(s) /\ n \in M /\ w = Without(s, x[n])
      BY <1>8, <2>6, <2>7, <3>1, <3>2, <3>3 DEF Without
    <3>5. w \in Seq(Listed) /\ Indexed(w, M \ {n}, x) /\ Rising(w)  BY <3>4, NulledKeeps
    <3>6. Cardinality(Nulls(w)) = Cardinality(Nulls(s)) + 1  BY <3>4, NulledCounts
    <3> QED  BY <3>1, <3>2, <3>3, <3>5, <3>6
  <2>9. Compacted(w, Cardinality(Nulls(w)))  BY <2>1, <2>6, <2>7, <2>8
  <2>10. PICK L \in SUBSET Conns : L = linked \ {n}  BY <2>6
  <2>11. /\ working' \in Seq(Listed) /\ tombstones' \in 0 .. Len(working')
         /\ index' \in [Conns -> Nat]
         /\ Indexed(working', L, index') /\ Rising(working')
         /\ tombstones' = Cardinality(Nulls(working'))
    BY <2>6, <2>8, <2>9, <2>10, CompactedKeeps
  <2>12. linked' = L  BY <2>1, <2>10
  <2>13. Lists'  BY <2>1, <2>11, <2>12 DEF Lists
  <2>14. TypeOK'  BY <1>5, <2>1, <2>5, <2>10, <2>11, <2>12 DEF Inv, TypeOK, Stacked, Listed
  <2>15. n \notin connected  BY <1>2, <1>3, <1>4 DEF Kept
  <2>16. Bounds'  BY <1>5, <2>1, <2>15 DEF Inv, Bounds
  <2>17. NoSlotKeptForTheGone'  BY <1>5, <2>1 DEF Inv, NoSlotKeptForTheGone
  <2>18. made \in Nat /\ linked \subseteq 1 .. made  BY InvTypes DEF Bounds
  <2>19. Ages(t)
    <3>1. \A m \in linked' : m \in 1 .. made /\ m \in linked  BY <2>1, <2>18
    <3>2. \A m \in linked' : m \notin 1 .. made => life[owner'[m]] = "alive"  BY <3>1
    <3>3. made <= made' /\ made' \in Nat  BY <1>5, <2>18
    <3> QED  BY <1>5, <2>18, <3>1, <3>2, <3>3 DEF Ages
  <2>20. Posted'  BY <1>5, <2>19, PostedStays
  <2>21. Kept(t, z)'
    <3>1. n \notin linked'  BY <2>1
    <3>2. ASSUME z.kind = "destroy"
          PROVE  /\ z.recv \in Receivers /\ Home[z.recv] = t /\ life'[z.recv] = "dying"
                 /\ \A m \in linked' : owner'[m] = z.recv => Untaken(z, m)'
                 /\ \A i \in Positions(z.todo) : owner'[z.todo[i]] = z.recv
      <4>1. op.kind = "destroy"  BY <2>3, <3>2
      <4>2. \A m \in linked : owner[m] = op.recv => Untaken(op, m)  BY <1>4, <4>1 DEF Kept
      <4>3. \A m \in linked' : Untaken(op, m) => Ahead(op, m)
        BY <1>2, <1>3, <2>1 DEF Untaken
      <4>4. \A m : Ahead(z, m) <=> Ahead(op, m)  BY <2>3 DEF Ahead
      <4>5. \A m \in linked' : owner'[m] = z.recv => Untaken(z, m)'
        BY <1>5, <2>1, <2>3, <4>2, <4>3, <4>4 DEF Untaken
      <4> QED  BY <1>4, <1>5, <2>3, <4>1, <4>5 DEF Kept
    <3> QED  BY <1>3, <2>3, <3>1, <3>2 DEF Kept
  <2>22. ASSUME NEW m \in 1 .. made, life'[owner[m]] = "alive"
         PROVE  /\ m \in linked' => m \notin done'
                /\ m \in linked' /\ Connects(t, m) => m \in incoming' \/ Connects(t, m)'
                /\ m \notin linked' => m \in done' \/ Ends(t, m)' \/ (m \notin linked /\ ~Ends(t, m))
    <3>1. m \in linked => m \notin done  BY <1>5, <2>22 DEF Inv, Core
    <3>2. ASSUME m = n PROVE Ends(t, m)'
      <4>1. op.kind # "destroy"
        BY <1>2, <1>3, <1>4, <1>5, <2>22, <3>2 DEF Kept
      <4>2. z.kind = "disconnect"  BY <1>3, <2>3, <4>1
      <4> QED  BY <2>3, <2>5, <3>2, <4>2 DEF Ends
    <3> QED  BY <1>5, <1>6, <2>1, <3>1, <3>2
  <2>23. Answers(t)
    <3>1. \A r \in Receivers : life'[r] = "dying" =>
            IF Home[r] = t THEN Destroys(t, r)' ELSE life[r] = "dying"
      <4>1. \A r : Destroys(t, r) => Destroys(t, r)'  BY <1>4, <2>3, <2>5 DEF Destroys
      <4> QED  BY <1>5, <4>1, DyingAreDestroyed
    <3> QED  BY <1>5, <2>5, <2>21, <2>22, <3>1 DEF Answers
  <2>24. \A u \in Threads \ {t} : \A p \in Doing(u) : p.kind = "connect" => life'[p.recv] = "alive"
    BY <1>5, ConnectsTheLiving
  <2> QED  BY <2>5, <2>13, <2>14, <2>16, <2>17, <2>19, <2>20, <2>23, <2>24, StepKeeps
<1> QED  BY <1>7, <1>8

LEMMA UnlistKeeps ==
    ASSUME Inv, NEW t \in Threads, Unlist(t)
    PROVE  Inv'
<1>1. PICK op : op = Top(t)  OBVIOUS
<1>2. PICK n : n = op.conn  OBVIOUS
<1>3. Busy(t) /\ op.kind \in Enders /\ op.at = "unlist"  BY <1>1 DEF Unlist, At
<1>4. Sound(op) /\ Doing(t) = {op} /\ Kept(t, op) /\ n \in 1 .. made /\ n \notin linked
  BY <1>1, <1>2, <1>3, TopIsSound DEF Sound, Kept
<1>5. /\ incoming' = incoming \ {n} /\ done' = done \cup {n} /\ NextConnection(t)
      /\ working' = working /\ tombstones' = tombstones /\ published' = published /\ dirty' = dirty
      /\ index' = index /\ linked' = linked /\ connected' = connected /\ owner' = owner
      /\ life' = life /\ pending' = pending /\ made' = made /\ emits' = emits
  BY <1>1, <1>2 DEF Unlist, lists
<1>6. /\ Stacked' /\ OpsAreSound'
      /\ \A u \in Threads \ {t} : Doing(u)' = Doing(u)
      /\ \A p \in Doing(t)' : Kept(t, p)'
      /\ \A m : ~Connects(t, m)
      /\ \A m : Ends(t, m) /\ m # n => Ends(t, m)'
      /\ \A r : Destroys(t, r) => Destroys(t, r)'
  BY <1>1, <1>2, <1>3, <1>4, <1>5, NextConnectionLeaves
<1>7. made \in Nat /\ linked \subseteq 1 .. made /\ n \in Conns  BY <1>4, InvTypes DEF Bounds
<1>8. Ages(t)
  <2>1. \A m \in linked' : m \in 1 .. made  BY <1>5, <1>7
  <2>2. \A m \in linked' : m \in incoming => m \in incoming'  BY <1>4, <1>5
  <2>3. made <= made' /\ made' \in Nat  BY <1>5, <1>7
  <2>4. \A m \in linked' : m \notin 1 .. made => life[owner'[m]] = "alive"  BY <2>1
  <2> QED  BY <1>5, <1>7, <2>2, <2>3, <2>4 DEF Ages
<1>9. Answers(t)
  <2>1. ASSUME NEW m \in 1 .. made, life'[owner[m]] = "alive"
        PROVE  /\ m \in linked' => m \notin done'
               /\ m \in linked' /\ Connects(t, m) => m \in incoming' \/ Connects(t, m)'
               /\ m \notin linked' => m \in done' \/ Ends(t, m)' \/ (m \notin linked /\ ~Ends(t, m))
    <3>1. m \in linked => m \notin done  BY <1>5, <2>1 DEF Inv, Core
    <3> QED  BY <1>4, <1>5, <1>6, <3>1
  <2>2. \A r \in Receivers : life'[r] = "dying" =>
            IF Home[r] = t THEN Destroys(t, r)' ELSE life[r] = "dying"
    BY <1>5, <1>6, DyingAreDestroyed
  <2> QED  BY <1>5, <1>6, <2>1, <2>2 DEF Answers
<1>10. \A u \in Threads \ {t} : \A p \in Doing(u) : p.kind = "connect" => life'[p.recv] = "alive"
  BY <1>5, ConnectsTheLiving
<1>11. TypeOK'  BY <1>5, <1>6, <1>7 DEF Inv, TypeOK, Stacked
<1>12. Bounds'  BY <1>4, <1>5 DEF Inv, Bounds
<1>13. Posted' /\ Lists' /\ NoSlotKeptForTheGone'
  BY <1>5, <1>8, PostedStays DEF Inv, Lists, NoSlotKeptForTheGone
<1> QED  BY <1>6, <1>8, <1>9, <1>10, <1>11, <1>12, <1>13, StepKeeps

\* What a list holds is what is linked; the list is emptied.
LEMMA DisconnectAllKeeps ==
    ASSUME Inv, NEW t \in Threads, DisconnectAll(t)
    PROVE  Inv'
<1>1. PICK v : v = Live(working)  OBVIOUS
<1>2. /\ MayCall(t) /\ connected' = connected \ Range(v) /\ linked' = {} /\ working' = <<>>
      /\ tombstones' = 0 /\ published' = None /\ dirty' = TRUE
      /\ index' = index /\ incoming' = incoming /\ owner' = owner
      /\ done' = done /\ life' = life /\ pending' = pending /\ made' = made /\ emits' = emits
  BY <1>1 DEF DisconnectAll, DiscardSnapshot
<1>3. /\ working \in Seq(Listed) /\ Lists /\ made \in Nat /\ linked \subseteq 1 .. made
      /\ linked \subseteq Conns /\ connected \subseteq linked
  BY InvTypes DEF Inv, TypeOK, Listed, Bounds
<1>4. v \in Seq(Conns) /\ Len(v) \in Nat  BY <1>1, <1>3, LiveLives
<1>5. /\ \A i \in Positions(v) : v[i] \in linked
      /\ \A n \in linked : n # None => \E i \in Positions(v) : v[i] = n
  BY <1>1, <1>3, LiveIsLinked DEF Lists
<1>6. \A n \in linked : \E i \in Positions(v) : v[i] = n  BY <1>3, <1>5, NoneIsNoNode
<1>7. \A n \in linked : n \in Range(v)  BY <1>4, <1>6 DEF Range, Positions
<1>8. connected' = {}  BY <1>2, <1>3, <1>7
<1>9. /\ Stacked' /\ OpsAreSound' /\ Doing(t) = {}
      /\ \A u \in Threads \ {t} : Doing(u)' = Doing(u)
      /\ \A p \in Doing(t)' : Kept(t, p)'
      /\ \A n \in linked : Ends(t, n)'
  <2>1. CASE v = <<>>
    <3>1. stack' = stack  BY <1>1, <2>1 DEF DisconnectAll
    <3>2. Stacked'  BY <3>1, InvTypes DEF Stacked, Nested
    <3>3. \A u \in Threads : Doing(u)' = Doing(u)  BY <3>1 DEF Doing, Busy, Top
    <3>4. OpsAreSound'
      <4>1. Ops' \subseteq Ops  BY <3>1 DEF Ops
      <4>2. OpsAreSound /\ made \in Nat /\ made' \in Nat /\ made <= made'  BY <1>2, InvTypes
      <4> QED  BY <4>1, <4>2, OpsStaySound
    <3>5. Doing(t) = {}  BY <1>2 DEF MayCall, Doing
    <3>6. linked = {}  BY <1>6, <2>1 DEF Positions
    <3> QED  BY <3>2, <3>3, <3>4, <3>5, <3>6
  <2>2. CASE v # <<>>
    <3>1. PICK h : h = Head(v)  OBVIOUS
    <3>2. PICK y : y = Tail(v)  OBVIOUS
    <3>3. /\ y \in Seq(Conns) /\ h \in Conns /\ Len(y) = Len(v) - 1 /\ h = v[1]
          /\ \A k \in 1 .. Len(y) : y[k] = v[k + 1]
          /\ 1 \in 1 .. Len(v)
      BY <1>4, <2>2, <3>1, <3>2, HeadTailProperties
    <3>4. \A i \in Positions(v) : i = 1 \/ (i - 1 \in Positions(y) /\ y[i - 1] = v[i])
      <4> SUFFICES ASSUME NEW i \in Positions(v), i # 1 PROVE i - 1 \in Positions(y) /\ y[i - 1] = v[i]
        OBVIOUS
      <4>1. i - 1 \in 1 .. Len(y) /\ (i - 1) + 1 = i  BY <1>4, <3>3 DEF Positions
      <4> QED  BY <3>3, <4>1 DEF Positions
    <3>5. \A i \in Positions(y) : i + 1 \in Positions(v) /\ y[i] = v[i + 1]
      BY <1>4, <3>3 DEF Positions
    <3>6. PICK z : z = Op("disconnectAll", "prune", h, None, y)  OBVIOUS
    <3>7. Push(t, z)  BY <1>1, <2>2, <3>1, <3>2, <3>6 DEF DisconnectAll
    <3>8. z.kind = "disconnectAll" /\ z.at = "prune" /\ z.conn = h /\ z.todo = y  BY <3>6 DEF Op
    <3>9. z \in Operation
      <4>1. made \in 0 .. MaxConns  BY DEF Inv, TypeOK
      <4> QED  BY <3>3, <3>6, <4>1 DEF Op, Operation, Kind, Step
    <3>10. Sound(z)
      <4>1. \A i \in Positions(v) : v[i] \in 1 .. made  BY <1>3, <1>5
      <4>2. h \in 1 .. made  BY <3>3, <4>1 DEF Positions
      <4>3. \A i \in Positions(y) : y[i] \in 1 .. made  BY <3>5, <4>1
      <4>4. Fits(z)  BY <3>8 DEF Fits
      <4> QED  BY <3>8, <3>9, <4>2, <4>3, <4>4 DEF Sound
    <3>11. made' \in Nat /\ made <= made'  BY <1>2, <1>3
    <3>12. Sound(z)'  BY <1>3, <3>10, <3>11, SoundStays
    <3>13. /\ Stacked' /\ OpsAreSound' /\ Doing(t)' = {z} /\ Doing(t) = {}
           /\ \A u \in Threads \ {t} : Doing(u)' = Doing(u)
      BY <1>2, <3>7, <3>8, <3>9, <3>11, <3>12, Pushed DEF MayCall
    <3>14. Kept(t, z)'  BY <1>2, <3>8 DEF Kept
    <3>15. ASSUME NEW n \in linked PROVE Ends(t, n)'
      <4>1. PICK i \in Positions(v) : v[i] = n  BY <1>6
      <4>2. n = h \/ Ahead(z, n)  BY <3>3, <3>4, <3>8, <4>1 DEF Ahead
      <4> QED  BY <3>8, <3>13, <4>2 DEF Ends
    <3> QED  BY <3>13, <3>14, <3>15
  <2> QED  BY <2>1, <2>2
<1>10. (\A n : ~Connects(t, n) /\ ~Ends(t, n)) /\ (\A r : ~Destroys(t, r))  BY <1>9, NothingDone
<1>11. Ages(t)
  <2>1. made <= made' /\ made' \in Nat  BY <1>2, <1>3
  <2> QED  BY <1>2, <1>3, <1>8, <2>1 DEF Ages
<1>12. Answers(t)
  <2>1. ASSUME NEW n \in 1 .. made
        PROVE  n \in done' \/ Ends(t, n)' \/ (n \notin linked /\ ~Ends(t, n))
    BY <1>9, <1>10
  <2>2. \A r \in Receivers : life'[r] = "dying" =>
            IF Home[r] = t THEN Destroys(t, r)' ELSE life[r] = "dying"
    BY <1>2, <1>10, DyingAreDestroyed
  <2> QED  BY <1>2, <1>9, <2>1, <2>2 DEF Answers
<1>13. \A u \in Threads \ {t} : \A p \in Doing(u) : p.kind = "connect" => life'[p.recv] = "alive"
  BY <1>2, ConnectsTheLiving
<1>14. <<>> \in Seq(Listed) /\ Len(<<>>) = 0 /\ Positions(<<>>) = {}  BY DEF Positions
<1>15. 0 \in 0 .. Len(<<>>)  BY <1>14
<1>16. TypeOK'  BY <1>2, <1>8, <1>9, <1>14, <1>15 DEF Inv, TypeOK, Stacked, Listed
<1>17. Bounds'  BY <1>2, <1>8 DEF Inv, Bounds
<1>18. Lists'
  <2>1. Nulls(<<>>) = {}  BY <1>14 DEF Nulls
  <2>2. Cardinality(Nulls(<<>>)) = 0  BY <2>1, FS_EmptySet
  <2>3. Indexed(<<>>, {}, index) /\ Rising(<<>>)  BY <1>14 DEF Indexed, Rising
  <2> QED  BY <1>2, <2>2, <2>3 DEF Lists
<1>19. Posted' /\ NoSlotKeptForTheGone'
  BY <1>2, <1>11, PostedStays DEF NoSlotKeptForTheGone
<1> QED  BY <1>9, <1>11, <1>12, <1>13, <1>16, <1>17, <1>18, <1>19, StepKeeps

\* The object's thread is in the middle of nothing else, and nobody is connecting to it.
LEMMA DestroyKeeps ==
    ASSUME Inv, NEW t \in Threads, NEW r \in Receivers, Destroy(t, r)
    PROVE  Inv'
<1>1. /\ MayCall(t) /\ Home[r] = t /\ life[r] = "alive"
      /\ \A op \in Ops : op.kind = "connect" => op.recv # r
      /\ life' = [life EXCEPT ![r] = "dying"]
      /\ working' = working /\ tombstones' = tombstones /\ published' = published /\ dirty' = dirty
      /\ index' = index /\ linked' = linked /\ connected' = connected /\ incoming' = incoming
      /\ owner' = owner /\ done' = done /\ pending' = pending /\ made' = made /\ emits' = emits
  BY DEF Destroy, lists, nodes
<1>2. /\ life \in [Receivers -> {"alive", "dying", "gone"}] /\ made \in Nat
      /\ linked \subseteq 1 .. made /\ \A n \in 1 .. made : owner[n] \in Receivers
  BY InvTypes DEF Bounds
<1>3. /\ life' \in [Receivers -> {"alive", "dying", "gone"}] /\ life'[r] = "dying"
      /\ \A q \in Receivers : q # r => life'[q] = life[q]
  BY <1>1, <1>2
<1>4. PICK z : z = Op("destroy", "take", None, r, <<>>)  OBVIOUS
<1>5. Push(t, z)  BY <1>4 DEF Destroy
<1>6. z.kind = "destroy" /\ z.at = "take" /\ z.conn = None /\ z.recv = r /\ z.todo = <<>>  BY <1>4 DEF Op
<1>7. z \in Operation
  <2>1. made \in 0 .. MaxConns /\ <<>> \in Seq(Conns)  BY DEF Inv, TypeOK
  <2> QED  BY <1>4, <2>1 DEF Op, Operation, Kind, Step
<1>8. Positions(z.todo) = {}  BY <1>6 DEF Positions
<1>9. Sound(z)
  <2>1. Fits(z)  BY <1>6 DEF Fits
  <2> QED  BY <1>6, <1>7, <1>8, <2>1 DEF Sound
<1>10. made' \in Nat /\ made <= made'  BY <1>1, <1>2
<1>11. Sound(z)'  BY <1>2, <1>9, <1>10, SoundStays
<1>12. /\ Stacked' /\ OpsAreSound' /\ Doing(t)' = {z} /\ Doing(t) = {}
       /\ \A u \in Threads \ {t} : Doing(u)' = Doing(u)
  BY <1>1, <1>5, <1>6, <1>7, <1>10, <1>11, Pushed DEF MayCall
<1>13. (\A n : ~Connects(t, n) /\ ~Ends(t, n)) /\ (\A q : ~Destroys(t, q))  BY <1>12, NothingDone
<1>14. Ages(t)
  <2>1. \A n \in linked' : n \in 1 .. made  BY <1>1, <1>2
  <2>2. \A n \in linked' : n \notin 1 .. made => life[owner'[n]] = "alive"  BY <2>1
  <2>3. \A q \in Receivers : life'[q] = "alive" => life[q] = "alive"  BY <1>3
  <2>4. \A q \in Receivers : life'[q] # life[q] => Home[q] = t  BY <1>1, <1>3
  <2> QED  BY <1>1, <1>2, <1>10, <2>2, <2>3, <2>4 DEF Ages
<1>15. ASSUME NEW u \in Threads, NEW op \in Doing(u), op.kind = "connect" PROVE life'[op.recv] = "alive"
  <2>1. op \in Ops  BY DoingIsInOps, InvTypes
  <2>2. op.recv # r /\ op.recv \in Receivers /\ life[op.recv] = "alive"
    BY <1>1, <1>15, <2>1, ConnectsTheLiving
  <2> QED  BY <1>3, <2>2
<1>16. ASSUME NEW n \in linked, owner[n] = r PROVE n \in incoming
  <2>1. n \in 1 .. made /\ life[owner[n]] = "alive"  BY <1>1, <1>2, <1>16
  <2>2. n \in incoming \/ \E u \in Threads : Connects(u, n)  BY <2>1 DEF Inv, Core
  <2>3. ASSUME NEW u \in Threads, Connects(u, n) PROVE FALSE
    <3>1. PICK op \in Doing(u) : op.kind = "connect" /\ op.conn = n  BY <2>3 DEF Connects
    <3>2. op.recv = r  BY <1>16, <3>1 DEF Inv, Core, Kept
    <3>3. op \in Ops  BY DoingIsInOps, InvTypes
    <3> QED  BY <1>1, <3>1, <3>2, <3>3
  <2> QED  BY <2>2, <2>3
<1>17. Kept(t, z)'
  <2>1. \A n \in linked' : owner'[n] = z.recv => Untaken(z, n)'
    BY <1>1, <1>6, <1>16 DEF Untaken
  <2> QED  BY <1>1, <1>3, <1>6, <1>8, <2>1 DEF Kept
<1>18. Answers(t)
  <2>1. ASSUME NEW m \in 1 .. made, life'[owner[m]] = "alive"
        PROVE  /\ m \in linked' => m \notin done'
               /\ m \in linked' /\ Connects(t, m) => m \in incoming' \/ Connects(t, m)'
               /\ m \notin linked' => m \in done' \/ Ends(t, m)' \/ (m \notin linked /\ ~Ends(t, m))
    <3>1. life[owner[m]] = "alive"  BY <1>2, <1>3, <2>1
    <3>2. m \in linked => m \notin done  BY <3>1 DEF Inv, Core
    <3> QED  BY <1>1, <1>13, <3>2
  <2>2. \A q \in Receivers : life'[q] = "dying" =>
            IF Home[q] = t THEN Destroys(t, q)' ELSE life[q] = "dying"
    <3> SUFFICES ASSUME NEW q \in Receivers, life'[q] = "dying"
                 PROVE  IF Home[q] = t THEN Destroys(t, q)' ELSE life[q] = "dying"
      OBVIOUS
    <3>1. CASE q = r  BY <1>1, <1>6, <1>12, <3>1 DEF Destroys
    <3>2. CASE q # r  BY <1>3, <1>13, <3>2, DyingAreDestroyed
    <3> QED  BY <3>1, <3>2
  <2> QED  BY <1>1, <1>12, <1>17, <2>1, <2>2 DEF Answers
<1>19. TypeOK'  BY <1>1, <1>3, <1>12 DEF Inv, TypeOK, Stacked
<1>20. Bounds'  BY <1>1 DEF Inv, Bounds
<1>21. NoSlotKeptForTheGone'
  <2>1. \A n \in linked : owner[n] \in Receivers  BY <1>2
  <2> QED  BY <1>1, <1>3, <2>1 DEF Inv, NoSlotKeptForTheGone
<1>22. Posted' /\ Lists'  BY <1>1, <1>14, PostedStays DEF Inv, Lists
<1> QED  BY <1>12, <1>14, <1>15, <1>18, <1>19, <1>20, <1>21, <1>22, StepKeeps

-----------------------------------------------------------------------------
(* ~Object().                                                                *)

\* Each of the nodes, newest first.
LEMMA NewestFirstHasAll ==
    ASSUME NEW S \in SUBSET Conns, NEW v, v = NewestFirst(S)
    PROVE  /\ v \in Seq(Conns)
           /\ \A i \in Positions(v) : v[i] \in S
           /\ \A n \in S : \E i \in Positions(v) : v[i] = n
<1>1. MaxConns \in Nat /\ Conns = 1 .. MaxConns  BY SignalAssumption DEF Conns
<1>2. \A k \in Conns : MaxConns + 1 - k \in Conns  BY <1>1
<1>3. PICK w : w = Newest  OBVIOUS
<1>4. w = [k \in 1 .. MaxConns |-> MaxConns + 1 - k]  BY <1>1, <1>3 DEF Newest
<1>5. \A k \in 1 .. MaxConns : w[k] \in Conns /\ w[k] = MaxConns + 1 - k  BY <1>1, <1>2, <1>4
<1>6. w \in Seq(Conns) /\ Len(w) = MaxConns
  <2>1. w \in [1 .. MaxConns -> Conns]  BY <1>4, <1>5
  <2> QED  BY <1>1, <2>1, SeqDef, LenProperties
<1>7. PICK P : P = {k \in Conns : w[k] \in S}  OBVIOUS
<1>8. v = Picked(w, P)  BY <1>3, <1>7 DEF NewestFirst
<1>9. v \in Seq(Conns) /\ \E f : Embeds(v, w, P, Len(w), f)  BY <1>6, <1>8, PickedEmbeds
<1>10. PICK f : Embeds(v, w, P, Len(w), f)  BY <1>9
<1>11. \A i \in Positions(v) : v[i] \in S  BY <1>7, <1>10 DEF Embeds, Positions
<1>12. ASSUME NEW n \in S PROVE \E i \in Positions(v) : v[i] = n
  <2>1. PICK k : k = MaxConns + 1 - n  OBVIOUS
  <2>2. n \in 1 .. MaxConns  BY <1>1
  <2>3. k \in 1 .. MaxConns /\ MaxConns + 1 - k = n  BY <1>1, <2>1, <2>2
  <2>4. w[k] = n /\ k \in P /\ k \in 1 .. Len(w)  BY <1>1, <1>5, <1>6, <1>7, <2>3
  <2>5. PICK i \in 1 .. Len(v) : f[i] = k  BY <1>10, <2>4 DEF Embeds
  <2>6. v[i] = w[f[i]]  BY <1>10, <2>5 DEF Embeds
  <2> QED  BY <2>4, <2>5, <2>6 DEF Positions
<1> QED  BY <1>9, <1>11, <1>12

LEMMA TakeIncomingKeeps ==
    ASSUME Inv, NEW t \in Threads, TakeIncoming(t)
    PROVE  Inv'
<1>1. PICK op : op = Top(t)  OBVIOUS
<1>2. PICK r : r = op.recv  OBVIOUS
<1>3. PICK mine : mine = Incoming(r)  OBVIOUS
<1>4. Busy(t) /\ op.kind = "destroy" /\ op.at = "take"  BY <1>1 DEF TakeIncoming, At
<1>5. op \in Operation /\ Sound(op) /\ Doing(t) = {op} /\ Kept(t, op)
  BY <1>1, <1>4, TopIsSound
<1>6. r \in Receivers /\ Home[r] = t /\ life[r] = "dying"  BY <1>2, <1>4, <1>5 DEF Kept
<1>7. PICK v : v = NewestFirst(mine)  OBVIOUS
<1>8. PICK z : z = [op EXCEPT !.at = "sever", !.todo = v]  OBVIOUS
<1>9. /\ incoming' = incoming \ mine /\ done' = done \cup mine /\ Becomes(t, z)
      /\ working' = working /\ tombstones' = tombstones /\ published' = published /\ dirty' = dirty
      /\ index' = index /\ linked' = linked /\ connected' = connected /\ owner' = owner
      /\ life' = life /\ pending' = pending /\ made' = made /\ emits' = emits
  BY <1>1, <1>2, <1>3, <1>7, <1>8 DEF TakeIncoming, lists
<1>10. /\ incoming \subseteq 1 .. made /\ linked \subseteq 1 .. made /\ made \in Nat
       /\ \A n \in 1 .. made : n \in Conns
  BY InvTypes DEF Bounds
<1>11. \A n : n \in mine <=> n \in incoming /\ owner[n] = r  BY <1>3 DEF Incoming
<1>12. mine \in SUBSET Conns  BY <1>10, <1>11
<1>13. /\ v \in Seq(Conns)
       /\ \A i \in Positions(v) : v[i] \in mine
       /\ \A n \in mine : \E i \in Positions(v) : v[i] = n
  BY <1>7, <1>12, NewestFirstHasAll
<1>14. /\ z \in Operation /\ z.at = "sever" /\ z.todo = v /\ z.kind = "destroy" /\ z.recv = r
  BY <1>2, <1>4, <1>5, <1>8, <1>13 DEF Operation, Step
<1>15. Sound(z)
  <2>1. \A i \in Positions(v) : v[i] \in 1 .. made  BY <1>10, <1>11, <1>13
  <2>2. Fits(z)  BY <1>14 DEF Fits
  <2> QED  BY <1>14, <2>1, <2>2 DEF Sound
<1>16. /\ Stacked' /\ OpsAreSound' /\ Doing(t)' = {z}
       /\ \A u \in Threads \ {t} : Doing(u)' = Doing(u)
  BY <1>4, <1>9, <1>14, <1>15, Became
<1>17. Ages(t)
  <2>1. \A m \in linked' : m \in 1 .. made  BY <1>9, <1>10
  <2>2. \A m \in linked' : m \in incoming =>
            m \in incoming' \/ (life[owner[m]] # "alive" /\ Home[owner[m]] = t)
    BY <1>6, <1>9, <1>11
  <2>3. made <= made' /\ made' \in Nat  BY <1>9, <1>10
  <2>4. \A m \in linked' : m \notin 1 .. made => life[owner'[m]] = "alive"  BY <2>1
  <2>5. done \subseteq done'  BY <1>9
  <2> QED  BY <1>9, <1>10, <2>2, <2>3, <2>4, <2>5 DEF Ages
<1>18. Kept(t, z)'
  <2>1. ASSUME NEW n \in linked', owner'[n] = r PROVE Untaken(z, n)'
    <3>1. Untaken(op, n)  BY <1>2, <1>4, <1>5, <1>9, <2>1 DEF Kept
    <3>2. n \in mine  BY <1>4, <1>9, <1>11, <2>1, <3>1 DEF Untaken
    <3>3. Ahead(z, n)  BY <1>13, <1>14, <3>2 DEF Ahead
    <3> QED  BY <1>14, <3>3 DEF Untaken
  <2>2. \A i \in Positions(z.todo) : owner'[z.todo[i]] = r  BY <1>9, <1>11, <1>13, <1>14
  <2> QED  BY <1>6, <1>9, <1>14, <2>1, <2>2 DEF Kept
<1>19. (\A n : ~Connects(t, n)) /\ (\A n : ~Ends(t, n))  BY <1>4, <1>5 DEF Connects, Ends
<1>20. Answers(t)
  <2>1. ASSUME NEW m \in 1 .. made, life'[owner[m]] = "alive"
        PROVE  /\ m \in linked' => m \notin done'
               /\ m \in linked' /\ Connects(t, m) => m \in incoming' \/ Connects(t, m)'
               /\ m \notin linked' => m \in done' \/ Ends(t, m)' \/ (m \notin linked /\ ~Ends(t, m))
    <3>1. m \in linked => m \notin done  BY <1>9, <2>1 DEF Inv, Core
    <3>2. m \notin mine  BY <1>6, <1>9, <1>11, <2>1
    <3> QED  BY <1>9, <1>19, <3>1, <3>2
  <2>2. \A q : Destroys(t, q) => Destroys(t, q)'  BY <1>2, <1>5, <1>14, <1>16 DEF Destroys
  <2>3. \A q \in Receivers : life'[q] = "dying" =>
            IF Home[q] = t THEN Destroys(t, q)' ELSE life[q] = "dying"
    BY <1>9, <2>2, DyingAreDestroyed
  <2> QED  BY <1>9, <1>16, <1>18, <2>1, <2>3 DEF Answers
<1>21. \A u \in Threads \ {t} : \A p \in Doing(u) : p.kind = "connect" => life'[p.recv] = "alive"
  BY <1>9, ConnectsTheLiving
<1>22. TypeOK'  BY <1>9, <1>12, <1>16 DEF Inv, TypeOK, Stacked
<1>23. Bounds'
  <2>1. mine \subseteq 1 .. made  BY <1>10, <1>11
  <2> QED  BY <1>9, <2>1 DEF Inv, Bounds
<1>24. Posted' /\ Lists' /\ NoSlotKeptForTheGone'
  BY <1>9, <1>17, PostedStays DEF Inv, Lists, NoSlotKeptForTheGone
<1> QED  BY <1>16, <1>17, <1>20, <1>21, <1>22, <1>23, <1>24, StepKeeps

LEMMA SeverKeeps ==
    ASSUME Inv, NEW t \in Threads, Sever(t)
    PROVE  Inv'
<1>1. PICK op : op = Top(t)  OBVIOUS
<1>2. Busy(t) /\ op.kind = "destroy" /\ op.at = "sever"  BY <1>1 DEF Sever, At
<1>3. op \in Operation /\ Sound(op) /\ Doing(t) = {op} /\ Kept(t, op)
  BY <1>1, <1>2, TopIsSound
<1>4. /\ working' = working /\ tombstones' = tombstones /\ published' = published /\ dirty' = dirty
      /\ index' = index /\ linked' = linked /\ owner' = owner /\ incoming' = incoming /\ done' = done
      /\ life' = life /\ pending' = pending /\ made' = made /\ emits' = emits
  BY DEF Sever, lists
<1>5. (\A n : ~Connects(t, n)) /\ (\A n : ~Ends(t, n))  BY <1>2, <1>3 DEF Connects, Ends
<1>6. \A n \in linked : owner[n] = op.recv => Ahead(op, n)  BY <1>2, <1>3 DEF Kept, Untaken
<1>7. CASE op.todo = <<>>
  <2>1. Goes(t, "strip") /\ connected' = connected  BY <1>1, <1>7 DEF Sever
  <2>2. PICK z : z = [Top(t) EXCEPT !.at = "strip"]  OBVIOUS
  <2>3. /\ "strip" \in Step /\ z.kind = "destroy" /\ z.at = "strip"
        /\ z.recv = op.recv /\ z.todo = op.todo
    BY <1>1, <1>2, <1>3, <2>2 DEF Step, Operation
  <2>4. Fits(z)  BY <2>3 DEF Fits
  <2>5. /\ Stacked' /\ OpsAreSound' /\ Doing(t)' = {z}
        /\ \A u \in Threads \ {t} : Doing(u)' = Doing(u)
    BY <1>2, <1>4, <2>1, <2>2, <2>3, <2>4, Stepped
  <2>6. \A n \in linked : owner[n] # op.recv  BY <1>6, <1>7 DEF Ahead, Positions
  <2>7. Kept(t, z)  BY <1>2, <1>3, <2>3, <2>6 DEF Kept
  <2>8. \A r : Destroys(t, r) => Destroys(t, r)'  BY <1>3, <2>3, <2>5 DEF Destroys
  <2>9. Sees(t)  BY <1>5, <2>5, <2>7, <2>8 DEF Sees
  <2>10. UNCHANGED <<lists, nodes, life, pending, made, emits>>  BY <1>4, <2>1 DEF lists, nodes
  <2> QED  BY <2>9, <2>10, SilentKeeps
<1>8. CASE op.todo # <<>>
  <2>1. PICK s \in Seq(Conns) : s = op.todo /\ s # <<>>  BY <1>3, <1>8 DEF Operation
  <2>2. PICK v : v = Tail(s)  OBVIOUS
  <2>3. PICK h : h = Head(s)  OBVIOUS
  <2>4. /\ v \in Seq(Conns) /\ h \in Conns /\ Len(v) = Len(s) - 1 /\ Len(s) \in Nat /\ h = s[1]
        /\ \A k \in 1 .. Len(v) : v[k] = s[k + 1]
        /\ 1 \in 1 .. Len(s)
    BY <2>1, <2>2, <2>3, HeadTailProperties
  <2>5. \A i \in Positions(s) : i = 1 \/ (i - 1 \in Positions(v) /\ v[i - 1] = s[i])
    <3> SUFFICES ASSUME NEW i \in Positions(s), i # 1 PROVE i - 1 \in Positions(v) /\ v[i - 1] = s[i]
      OBVIOUS
    <3>1. i - 1 \in 1 .. Len(v) /\ (i - 1) + 1 = i  BY <2>4 DEF Positions
    <3> QED  BY <2>4, <3>1 DEF Positions
  <2>6. \A i \in Positions(v) : i + 1 \in Positions(s) /\ v[i] = s[i + 1]  BY <2>4 DEF Positions
  <2>7. PICK z : z = [op EXCEPT !.at = "remove", !.conn = h, !.todo = v]  OBVIOUS
  <2>8. /\ z \in Operation /\ z.at = "remove" /\ z.conn = h /\ z.todo = v /\ z.kind = "destroy"
        /\ z.recv = op.recv
    BY <1>2, <1>3, <2>4, <2>7 DEF Operation, Step
  <2>9. Becomes(t, z) /\ connected' = connected \ {h}
    BY <1>1, <1>8, <2>1, <2>2, <2>3, <2>7 DEF Sever
  <2>10. \A i \in Positions(s) : s[i] \in 1 .. made /\ owner[s[i]] = op.recv
    BY <1>2, <1>3, <2>1 DEF Sound, Kept
  <2>11. h \in 1 .. made /\ owner[h] = op.recv  BY <2>4, <2>10 DEF Positions
  <2>12. Sound(z)
    <3>1. \A i \in Positions(z.todo) : z.todo[i] \in 1 .. made  BY <2>6, <2>8, <2>10
    <3>2. Fits(z)  BY <2>8 DEF Fits
    <3> QED  BY <2>8, <2>11, <3>1, <3>2 DEF Sound
  <2>13. /\ Stacked' /\ OpsAreSound' /\ Doing(t)' = {z}
         /\ \A u \in Threads \ {t} : Doing(u)' = Doing(u)
    BY <1>2, <1>4, <2>8, <2>9, <2>12, Became
  <2>14. made \in Nat /\ linked \subseteq 1 .. made  BY InvTypes DEF Bounds
  <2>15. Ages(t)
    <3>1. \A m \in linked' : m \in 1 .. made  BY <1>4, <2>14
    <3>2. \A m \in linked' : m \notin 1 .. made => life[owner'[m]] = "alive"  BY <3>1
    <3>3. made <= made' /\ made' \in Nat  BY <1>4, <2>14
    <3>4. \A m \in connected' : m \in connected  BY <2>9
    <3> QED  BY <1>4, <2>14, <3>2, <3>3, <3>4 DEF Ages
  <2>16. Kept(t, z)'
    <3>1. h \notin connected'  BY <2>9
    <3>2. ASSUME NEW n \in linked', owner'[n] = z.recv PROVE Untaken(z, n)'
      <4>1. Ahead(op, n)  BY <1>4, <1>6, <2>8, <3>2
      <4>2. PICK i \in Positions(s) : s[i] = n  BY <2>1, <4>1 DEF Ahead
      <4>3. n = h \/ Ahead(z, n)  BY <2>4, <2>5, <2>8, <4>2 DEF Ahead
      <4> QED  BY <2>8, <4>3 DEF Untaken
    <3>3. \A i \in Positions(z.todo) : owner'[z.todo[i]] = z.recv  BY <1>4, <2>6, <2>8, <2>10
    <3>4. z.recv \in Receivers /\ Home[z.recv] = t /\ life'[z.recv] = "dying"
      BY <1>2, <1>3, <1>4, <2>8 DEF Kept
    <3>5. owner'[z.conn] = z.recv  BY <1>4, <2>8, <2>11
    <3> QED  BY <2>8, <3>1, <3>2, <3>3, <3>4, <3>5 DEF Kept
  <2>17. Answers(t)
    <3>1. ASSUME NEW m \in 1 .. made, life'[owner[m]] = "alive"
          PROVE  /\ m \in linked' => m \notin done'
                 /\ m \in linked' /\ Connects(t, m) => m \in incoming' \/ Connects(t, m)'
                 /\ m \notin linked' => m \in done' \/ Ends(t, m)' \/ (m \notin linked /\ ~Ends(t, m))
      <4>1. m \in linked => m \notin done  BY <1>4, <3>1 DEF Inv, Core
      <4> QED  BY <1>4, <1>5, <4>1
    <3>2. \A q : Destroys(t, q) => Destroys(t, q)'  BY <1>3, <2>8, <2>13 DEF Destroys
    <3>3. \A q \in Receivers : life'[q] = "dying" =>
              IF Home[q] = t THEN Destroys(t, q)' ELSE life[q] = "dying"
      BY <1>4, <3>2, DyingAreDestroyed
    <3> QED  BY <1>4, <2>13, <2>16, <3>1, <3>3 DEF Answers
  <2>18. \A u \in Threads \ {t} : \A p \in Doing(u) : p.kind = "connect" => life'[p.recv] = "alive"
    BY <1>4, ConnectsTheLiving
  <2>19. TypeOK'  BY <1>4, <2>9, <2>13 DEF Inv, TypeOK, Stacked
  <2>20. Bounds'  BY <1>4, <2>9 DEF Inv, Bounds
  <2>21. Posted' /\ Lists' /\ NoSlotKeptForTheGone'
    BY <1>4, <2>15, PostedStays DEF Inv, Lists, NoSlotKeptForTheGone
  <2> QED  BY <2>13, <2>15, <2>17, <2>18, <2>19, <2>20, <2>21, StepKeeps
<1> QED  BY <1>7, <1>8

\* By then the signal links nothing of the object.
LEMMA StripAndFreeKeeps ==
    ASSUME Inv, NEW t \in Threads, StripAndFree(t)
    PROVE  Inv'
<1>1. PICK op : op = Top(t)  OBVIOUS
<1>2. PICK r : r = op.recv  OBVIOUS
<1>3. Busy(t) /\ op.kind = "destroy" /\ op.at = "strip"  BY <1>1 DEF StripAndFree, At
<1>4. op \in Operation /\ Sound(op) /\ Doing(t) = {op} /\ Kept(t, op)
  BY <1>1, <1>3, TopIsSound
<1>5. r \in Receivers /\ Home[r] = t /\ life[r] = "dying"  BY <1>2, <1>3, <1>4 DEF Kept
<1>6. /\ pending' = [pending EXCEPT ![r] = <<>>] /\ life' = [life EXCEPT ![r] = "gone"] /\ Pop(t)
      /\ working' = working /\ tombstones' = tombstones /\ published' = published /\ dirty' = dirty
      /\ index' = index /\ linked' = linked /\ connected' = connected /\ owner' = owner
      /\ incoming' = incoming /\ done' = done /\ made' = made /\ emits' = emits
  BY <1>1, <1>2 DEF StripAndFree, lists, nodes
<1>7. \A n \in linked : owner[n] # r  BY <1>2, <1>3, <1>4 DEF Kept, Untaken
<1>8. /\ life \in [Receivers -> {"alive", "dying", "gone"}] /\ made \in Nat
      /\ linked \subseteq 1 .. made /\ \A n \in 1 .. made : owner[n] \in Receivers
  BY InvTypes DEF Bounds
<1>9. /\ life' \in [Receivers -> {"alive", "dying", "gone"}] /\ life'[r] = "gone"
      /\ \A q \in Receivers : q # r => life'[q] = life[q]
  BY <1>5, <1>6, <1>8
<1>10. /\ pending' \in [Receivers -> Seq(Conns)] /\ pending'[r] = <<>>
       /\ \A q \in Receivers : q # r => pending'[q] = pending[q]
  <2>1. pending \in [Receivers -> Seq(Conns)] /\ <<>> \in Seq(Conns)  BY DEF Inv, TypeOK
  <2> QED  BY <1>5, <1>6, <2>1
<1>11. /\ Stacked' /\ OpsAreSound' /\ Doing(t)' = {}
       /\ \A u \in Threads \ {t} : Doing(u)' = Doing(u)
  BY <1>3, <1>6, Popped
<1>12. Ages(t)
  <2>1. \A m \in linked' : m \in 1 .. made  BY <1>6, <1>8
  <2>2. \A m \in linked' : m \notin 1 .. made => life[owner'[m]] = "alive"  BY <2>1
  <2>3. made <= made' /\ made' \in Nat  BY <1>6, <1>8
  <2>4. \A q \in Receivers : life'[q] = "alive" => life[q] = "alive"  BY <1>9
  <2>5. \A q \in Receivers : life'[q] # life[q] => Home[q] = t  BY <1>5, <1>9
  <2> QED  BY <1>6, <1>8, <2>2, <2>3, <2>4, <2>5 DEF Ages
<1>13. (\A n : ~Connects(t, n)) /\ (\A n : ~Ends(t, n)) /\ (\A q : Destroys(t, q) => q = r)
  BY <1>2, <1>3, <1>4 DEF Connects, Ends, Destroys
<1>14. Answers(t)
  <2>1. ASSUME NEW m \in 1 .. made, life'[owner[m]] = "alive"
        PROVE  /\ m \in linked' => m \notin done'
               /\ m \in linked' /\ Connects(t, m) => m \in incoming' \/ Connects(t, m)'
               /\ m \notin linked' => m \in done' \/ Ends(t, m)' \/ (m \notin linked /\ ~Ends(t, m))
    <3>1. life[owner[m]] = "alive"  BY <1>8, <1>9, <2>1
    <3>2. m \in linked => m \notin done  BY <3>1 DEF Inv, Core
    <3> QED  BY <1>6, <1>13, <3>2
  <2>2. \A q \in Receivers : life'[q] = "dying" =>
            IF Home[q] = t THEN Destroys(t, q)' ELSE life[q] = "dying"
    <3> SUFFICES ASSUME NEW q \in Receivers, life'[q] = "dying"
                 PROVE  Home[q] # t /\ life[q] = "dying"
      OBVIOUS
    <3>1. q # r /\ life[q] = "dying"  BY <1>9
    <3> QED  BY <1>13, <3>1, DyingAreDestroyed
  <2> QED  BY <1>6, <1>11, <2>1, <2>2 DEF Answers
<1>15. ASSUME NEW u \in Threads, NEW p \in Doing(u), p.kind = "connect" PROVE life'[p.recv] = "alive"
  <2>1. p.recv \in Receivers /\ life[p.recv] = "alive"  BY <1>15, ConnectsTheLiving
  <2> QED  BY <1>5, <1>9, <2>1
<1>16. TypeOK'  BY <1>6, <1>9, <1>10, <1>11 DEF Inv, TypeOK, Stacked
<1>17. Bounds' /\ Lists'  BY <1>6 DEF Inv, Bounds, Lists
<1>18. Posted'
  <2> SUFFICES ASSUME NEW q \in Receivers, NEW k \in Positions(pending'[q])
               PROVE  pending'[q][k] \in 1 .. made /\ owner[pending'[q][k]] = q
    BY <1>6 DEF Posted
  <2>1. CASE q = r  BY <1>10, <2>1 DEF Positions
  <2>2. CASE q # r  BY <1>10, <2>2 DEF Inv, Posted
  <2> QED  BY <2>1, <2>2
<1>19. NoSlotKeptForTheGone'
  <2>1. \A n \in linked : owner[n] \in Receivers /\ life[owner[n]] # "gone"
    BY <1>8 DEF Inv, NoSlotKeptForTheGone
  <2> QED  BY <1>6, <1>7, <1>9, <2>1 DEF NoSlotKeptForTheGone
<1> QED  BY <1>11, <1>12, <1>14, <1>15, <1>16, <1>17, <1>18, <1>19, StepKeeps

-----------------------------------------------------------------------------
(* connect().                                                                *)

LEMMA ConnectKeeps ==
    ASSUME Inv, NEW t \in Threads, NEW r \in Receivers, Connect(t, r)
    PROVE  Inv'
<1>1. PICK n : n = made + 1  OBVIOUS
<1>2. /\ MayCall(t) /\ life[r] = "alive" /\ made < MaxConns
      /\ working' = Append(working, n) /\ index' = [index EXCEPT ![n] = Len(working) + 1]
      /\ linked' = linked \cup {n} /\ connected' = connected \cup {n}
      /\ owner' = [owner EXCEPT ![n] = r] /\ made' = n /\ dirty' = TRUE
      /\ tombstones' = tombstones /\ published' = published /\ incoming' = incoming
      /\ done' = done /\ life' = life /\ pending' = pending /\ emits' = emits
  BY <1>1 DEF Connect
<1>3. /\ made \in Nat /\ MaxConns \in Nat /\ linked \subseteq 1 .. made
      /\ owner \in [Conns -> Receivers \cup {None}]
      /\ \A m \in 1 .. made : m \in Conns /\ owner[m] \in Receivers
  BY InvTypes DEF Bounds
<1>4. n \in Conns /\ n \in Nat /\ n = made + 1 /\ n \notin 1 .. made /\ n \in 1 .. n
  BY <1>1, <1>2, <1>3 DEF Conns
<1>5. \A m \in 1 .. made : m \in 1 .. n /\ m # n  BY <1>3, <1>4
<1>6. \A m \in 1 .. n : m \in 1 .. made \/ m = n  BY <1>3, <1>4
<1>7. /\ owner' \in [Conns -> Receivers \cup {None}] /\ owner'[n] = r
      /\ \A m \in 1 .. made : owner'[m] = owner[m]
  BY <1>2, <1>3, <1>4, <1>5
<1>8. PICK z : z = [kind |-> "connect", at |-> "register", conn |-> n, recv |-> r,
                    todo |-> <<>>, before |-> made]
  OBVIOUS
<1>9. Push(t, z)  BY <1>1, <1>8 DEF Connect, Op
<1>10. z.kind = "connect" /\ z.at = "register" /\ z.conn = n /\ z.recv = r /\ z.todo = <<>>  BY <1>8
<1>11. z \in Operation
  <2>1. made \in 0 .. MaxConns /\ <<>> \in Seq(Conns)  BY DEF Inv, TypeOK
  <2> QED  BY <1>4, <1>8, <2>1 DEF Operation, Kind, Step
<1>12. Sound(z)'
  <2>1. Positions(z.todo) = {}  BY <1>10 DEF Positions
  <2>2. Fits(z)  BY <1>10 DEF Fits
  <2> QED  BY <1>2, <1>4, <1>10, <1>11, <2>1, <2>2 DEF Sound
<1>13. made' \in Nat /\ made <= made'  BY <1>2, <1>3, <1>4
<1>14. /\ Stacked' /\ OpsAreSound' /\ Doing(t)' = {z} /\ Doing(t) = {}
       /\ \A u \in Threads \ {t} : Doing(u)' = Doing(u)
  BY <1>2, <1>9, <1>10, <1>11, <1>12, <1>13, Pushed DEF MayCall
<1>15. (\A m : ~Connects(t, m) /\ ~Ends(t, m)) /\ (\A q : ~Destroys(t, q))  BY <1>14, NothingDone
<1>16. Ages(t)
  <2>1. \A m \in linked' : m \in linked \/ m = n  BY <1>2
  <2>2. \A m \in connected' : m \in connected \/ m = n  BY <1>2
  <2>3. \A m \in linked' : m \notin 1 .. made => life[owner'[m]] = "alive"
    BY <1>2, <1>3, <1>7, <2>1
  <2> QED  BY <1>2, <1>3, <1>4, <1>7, <1>13, <2>1, <2>2, <2>3 DEF Ages
<1>17. Kept(t, z)'  BY <1>2, <1>7, <1>10 DEF Kept
<1>18. Answers(t)
  <2>1. ASSUME NEW m \in 1 .. made, life'[owner[m]] = "alive"
        PROVE  /\ m \in linked' => m \notin done'
               /\ m \in linked' /\ Connects(t, m) => m \in incoming' \/ Connects(t, m)'
               /\ m \notin linked' => m \in done' \/ Ends(t, m)' \/ (m \notin linked /\ ~Ends(t, m))
    <3>1. m \in linked => m \notin done  BY <1>2, <2>1 DEF Inv, Core
    <3> QED  BY <1>2, <1>5, <1>15, <3>1
  <2>2. n \in linked' /\ n \notin done' /\ Connects(t, n)'
    <3>1. done \subseteq 1 .. made  BY DEF Inv, Bounds
    <3> QED  BY <1>2, <1>4, <1>10, <1>14, <3>1 DEF Connects
  <2>3. \A m \in 1 .. made' : m \notin 1 .. made => m = n  BY <1>2, <1>6
  <2>4. \A q \in Receivers : life'[q] = "dying" =>
            IF Home[q] = t THEN Destroys(t, q)' ELSE life[q] = "dying"
    BY <1>2, <1>15, DyingAreDestroyed
  <2> QED  BY <1>14, <1>17, <2>1, <2>2, <2>3, <2>4 DEF Answers
<1>19. \A u \in Threads \ {t} : \A p \in Doing(u) : p.kind = "connect" => life'[p.recv] = "alive"
  BY <1>2, ConnectsTheLiving
<1>20. /\ working' \in Seq(Listed) /\ Len(working') = Len(working) + 1 /\ index' \in [Conns -> Nat]
       /\ Indexed(working', linked', index') /\ Rising(working')
       /\ Cardinality(Nulls(working')) = Cardinality(Nulls(working))
  <2>1. /\ working \in Seq(Listed) /\ index \in [Conns -> Nat] /\ linked \in SUBSET Conns
        /\ Indexed(working, linked, index) /\ Rising(working)
    BY DEF Inv, TypeOK, Listed, Lists
  <2>2. PICK w \in Seq(Listed) : w = working  BY <2>1
  <2>3. PICK x \in [Conns -> Nat] : x = index  BY <2>1
  <2>4. PICK L \in SUBSET Conns : L = linked  BY <2>1
  <2>5. Indexed(w, L, x) /\ Rising(w)  BY <2>1, <2>2, <2>3, <2>4
  <2>6. Beyond(L, n)  BY <1>3, <1>4, <2>4 DEF Beyond
  <2>7. PICK v, y : Grown(v, y, w, x, n)  BY DEF Grown
  <2>8. v \in Seq(Listed) /\ y \in [Conns -> Nat]  BY <1>4, <2>5, <2>6, <2>7, AppendedKeeps
  <2>9. Indexed(v, With(L, n), y) /\ Rising(v)  BY <1>4, <2>5, <2>6, <2>7, AppendedKeeps
  <2>13. Cardinality(Nulls(v)) = Cardinality(Nulls(w))
    <3>1. v = Append(w, n)  BY <2>7 DEF Grown
    <3> QED  BY <1>4, <3>1, AppendedCounts
  <2>10. working' = v /\ index' = y  BY <1>2, <2>2, <2>3, <2>7 DEF Grown
  <2>11. linked' = With(L, n)  BY <1>2, <2>4 DEF With
  <2>12. Len(v) = Len(w) + 1
    <3>1. n \in Listed /\ v = Append(w, n)  BY <1>4, <2>7 DEF Listed, Grown
    <3> QED  BY <3>1, AppendProperties
  <2> QED  BY <2>2, <2>8, <2>9, <2>10, <2>11, <2>12, <2>13
<1>21. Lists'  BY <1>2, <1>20 DEF Inv, Lists
<1>22. tombstones' \in 0 .. Len(working')
  <2>1. tombstones \in 0 .. Len(working) /\ Len(working) \in Nat  BY DEF Inv, TypeOK
  <2> QED  BY <1>2, <1>20, <2>1
<1>23. TypeOK'
  <2>1. made' \in 0 .. MaxConns  BY <1>2, <1>3, <1>4
  <2>2. linked' \subseteq Conns /\ connected' \subseteq Conns  BY <1>2, <1>4 DEF Inv, TypeOK
  <2> QED  BY <1>2, <1>7, <1>14, <1>20, <1>22, <2>1, <2>2 DEF Inv, TypeOK, Stacked, Listed
<1>24. Bounds'
  <2>1. \A m \in 1 .. n : owner'[m] \in Receivers  BY <1>3, <1>6, <1>7
  <2> QED  BY <1>2, <1>4, <1>5, <2>1 DEF Inv, Bounds
<1>25. NoSlotKeptForTheGone'
  <2>1. \A m \in linked : m \in 1 .. made /\ life[owner[m]] # "gone"
    BY <1>3 DEF Inv, NoSlotKeptForTheGone
  <2> QED  BY <1>2, <1>7, <2>1 DEF NoSlotKeptForTheGone
<1>26. Posted'  BY <1>2, <1>16, PostedStays
<1> QED  BY <1>14, <1>16, <1>18, <1>19, <1>21, <1>23, <1>24, <1>25, <1>26, StepKeeps

-----------------------------------------------------------------------------
(* The invariant holds.                                                      *)

LEMMA InitKeeps == ASSUME Init PROVE Inv
<1>1. /\ working = <<>> /\ tombstones = 0 /\ published = <<>> /\ dirty = FALSE
      /\ index = [n \in Conns |-> 0] /\ linked = {} /\ connected = {}
      /\ owner = [n \in Conns |-> None] /\ incoming = {} /\ done = {}
      /\ life = [r \in Receivers |-> "alive"] /\ pending = [r \in Receivers |-> <<>>]
      /\ stack = [t \in Threads |-> <<>>] /\ made = 0 /\ emits = 0
  BY DEF Init
<1>2. 1 .. 0 = {} /\ Len(<<>>) = 0 /\ Positions(<<>>) = {}  BY DEF Positions
<1>3. MaxConns \in Nat /\ MaxEmits \in Nat  BY SignalAssumption
<1>4. Ops = {}
  <2>1. \A t \in Threads : Range(stack[t]) = {}  BY <1>1 DEF Range
  <2> QED  BY <2>1 DEF Ops
<1>5. \A t \in Threads : Doing(t) = {}  BY <1>1 DEF Doing, Busy
<1>6. stack \in [Threads -> Seq(Operation)]
  <2>1. <<>> \in Seq(Operation)  OBVIOUS
  <2> QED  BY <1>1, <2>1
<1>7. pending \in [Receivers -> Seq(Conns)]
  <2>1. <<>> \in Seq(Conns)  OBVIOUS
  <2> QED  BY <1>1, <2>1
<1>8. working \in Seq(Conns \cup {None}) /\ published \in Seq(Conns) /\ tombstones \in 0 .. Len(working)
  BY <1>1, <1>2
<1>9. made \in 0 .. MaxConns /\ emits \in 0 .. MaxEmits  BY <1>1, <1>3
<1>10. TypeOK  BY <1>1, <1>6, <1>7, <1>8, <1>9 DEF TypeOK
<1>11. Nested  BY <1>1, <1>2 DEF Nested
<1>12. OpsAreSound  BY <1>4 DEF OpsAreSound
<1>13. Core  BY <1>1, <1>2, <1>5 DEF Core
<1>14. Bounds /\ NoSlotKeptForTheGone  BY <1>1, <1>2 DEF Bounds, NoSlotKeptForTheGone
<1>15. Posted  BY <1>1, <1>2 DEF Posted
<1>16. Lists
  <2>1. Nulls(<<>>) = {}  BY <1>2 DEF Nulls
  <2>2. Cardinality(Nulls(<<>>)) = 0  BY <2>1, FS_EmptySet
  <2>3. Indexed(<<>>, {}, index) /\ Rising(<<>>)  BY <1>2 DEF Indexed, Rising
  <2> QED  BY <1>1, <2>2, <2>3, LiveOfNothing DEF Lists
<1> QED  BY <1>10, <1>11, <1>12, <1>13, <1>14, <1>15, <1>16 DEF Inv

LEMMA StutterKeeps == ASSUME Inv, UNCHANGED vars PROVE Inv'
<1>1. /\ working' = working /\ tombstones' = tombstones /\ published' = published /\ dirty' = dirty
      /\ index' = index /\ linked' = linked /\ connected' = connected /\ owner' = owner
      /\ incoming' = incoming /\ done' = done /\ life' = life /\ pending' = pending
      /\ stack' = stack /\ made' = made /\ emits' = emits
  BY DEF vars, lists, nodes
<1>2. TypeOK' /\ Nested'  BY <1>1 DEF Inv, TypeOK, Nested
<1>3. Bounds' /\ Posted' /\ Lists' /\ NoSlotKeptForTheGone'
  BY <1>1 DEF Inv, Bounds, Posted, Lists, NoSlotKeptForTheGone
<1>4. \A t : Doing(t)' = Doing(t)  BY <1>1 DEF Doing, Busy, Top
<1>5. OpsAreSound'  BY <1>1 DEF Inv, OpsAreSound, Ops, Sound
<1>6. Core'  BY <1>1, <1>4 DEF Inv, Core, Kept, Untaken, Connects, Ends, Destroys
<1> QED  BY <1>2, <1>3, <1>5, <1>6 DEF Inv

LEMMA NextKeeps == ASSUME Inv, [Next]_vars PROVE Inv'
<1>1. CASE UNCHANGED vars  BY <1>1, StutterKeeps
<1>2. ASSUME NEW t \in Threads, NEW r \in Receivers, Connect(t, r) \/ Destroy(t, r) \/ Deliver(t, r)
      PROVE  Inv'
  BY <1>2, ConnectKeeps, DestroyKeeps, DeliverKeeps
<1>3. ASSUME NEW t \in Threads, NEW n \in Conns, Disconnect(t, n) PROVE Inv'
  BY <1>3, DisconnectKeeps
<1>4. ASSUME NEW t \in Threads, DisconnectAll(t) \/ Emit(t) \/ Register(t) \/ List(t) PROVE Inv'
  BY <1>4, DisconnectAllKeeps, EmitKeeps, RegisterKeeps, ListKeeps
<1>5. ASSUME NEW t \in Threads, RemoveConnection(t) \/ Prune(t) \/ Unlist(t) PROVE Inv'
  BY <1>5, RemoveConnectionKeeps, PruneKeeps, UnlistKeeps
<1>6. ASSUME NEW t \in Threads, TakeIncoming(t) \/ Sever(t) \/ StripAndFree(t) PROVE Inv'
  BY <1>6, TakeIncomingKeeps, SeverKeeps, StripAndFreeKeeps
<1>7. ASSUME NEW t \in Threads, CallNext(t) \/ Post(t) \/ EndSlot(t) PROVE Inv'
  BY <1>7, CallNextKeeps, PostKeeps, EndSlotKeeps
<1>8. CASE Next  BY <1>2, <1>3, <1>4, <1>5, <1>6, <1>7, <1>8 DEF Next
<1> QED  BY <1>1, <1>8

LEMMA AlwaysInv == Spec => []Inv
<1>1. Init => Inv  BY InitKeeps
<1>2. Inv /\ [Next]_vars => Inv'  BY NextKeeps
<1> QED  BY <1>1, <1>2, PTL DEF Spec

-----------------------------------------------------------------------------
(* Theorems.                                                                 *)

\* The three lists that know a connection agree: each linked node stands where its index
\* says and nowhere else, the nulls are counted, a snapshot that is not dirty is the list;
\* nothing is kept of a destroyed object; and a receiver's incoming list is what is linked
\* to it, whenever nobody is making or ending the connection (Signal.hpp, Object.cpp).
THEOREM SignalListsAgree == Spec => []ListsAgree
<1>1. ASSUME Inv PROVE ListsAgree
  <2>1. IndicesAreRight  BY <1>1 DEF Inv, Lists, Indexed, Nulls, IndicesAreRight
  <2>2. IncomingIsExact
    <3> SUFFICES ASSUME NEW n \in 1 .. made, ~InProgress(n), life[owner[n]] = "alive"
                 PROVE  n \in incoming <=> n \in linked
      BY DEF IncomingIsExact
    <3>1. /\ n \in linked => n \notin done /\ (n \in incoming \/ \E t \in Threads : Connects(t, n))
          /\ n \notin linked => n \in done \/ \E t \in Threads : Ends(t, n)
      BY <1>1 DEF Inv, Core
    <3>2. done \cap incoming = {}  BY <1>1 DEF Inv, Bounds
    <3>3. ASSUME NEW t \in Threads, Connects(t, n) PROVE FALSE
      <4>1. PICK op \in Doing(t) : op.kind = "connect" /\ op.conn = n  BY <3>3 DEF Connects
      <4>2. op \in Ops /\ op.at # "slot"  BY <1>1, DoingIsInOps, InvTypes
      <4> QED  BY <4>1, <4>2 DEF InProgress
    <3>4. ASSUME NEW t \in Threads, Ends(t, n) PROVE FALSE
      <4>1. PICK op \in Doing(t) : /\ op.kind \in {"disconnect", "disconnectAll"}
                                   /\ op.conn = n \/ Ahead(op, n)
        BY <3>4 DEF Ends
      <4>2. op \in Ops /\ op.at # "slot" /\ op \in Operation  BY <1>1, DoingIsInOps, InvTypes
      <4>3. Ahead(op, n) => n \in Range(op.todo)
        BY <4>2 DEF Ahead, Operation, Positions, Range
      <4> QED  BY <4>1, <4>2, <4>3 DEF InProgress
    <3> QED  BY <3>1, <3>2, <3>3, <3>4
  <2> QED  BY <1>1, <2>1, <2>2 DEF Inv, ListsAgree
<1>2. Inv => ListsAgree  BY <1>1
<1> QED  BY <1>2, AlwaysInv, PTL

\* Slots run in connection order, and a connection made during an emission does not run in
\* it, however connects, disconnects and destructions interleave with the emission
\* (Signal.hpp, emit()).
THEOREM EmissionsRunInOrder == Spec => []EmissionInOrder
<1>1. Inv => EmissionInOrder  BY DEF Inv, OpsAreSound, Sound, InOrder, EmissionInOrder
<1> QED  BY <1>1, AlwaysInv, PTL

\* The slot a thread enters.
Enters(t) ==
    /\ stack'[t] # <<>>
    /\ Last(stack'[t]).at = "slot"
    /\ Len(stack'[t]) >= Len(stack[t])
    /\ Busy(t) => Top(t).at # "slot"

LEMMA NobodyEnters ==
    ASSUME Stacked, NEW u \in Threads, \A t \in Threads \ {u} : stack'[t] = stack[t],
           \/ stack'[u] = stack[u]
           \/ Len(stack'[u]) < Len(stack[u]) /\ Len(stack'[u]) \in Nat
           \/ Last(stack'[u]).at # "slot"
    PROVE  \A t \in Threads : ~Enters(t)
<1> SUFFICES ASSUME NEW t \in Threads, Enters(t) PROVE FALSE  OBVIOUS
<1>1. stack'[t] # stack[t]  BY DEF Enters, Busy, Top
<1>2. t = u  BY <1>1
<1>3. Len(stack[u]) \in Nat  BY DEF Stacked
<1> QED  BY <1>1, <1>2, <1>3 DEF Enters

LEMMA PoppingEntersNone ==
    ASSUME Stacked, NEW u \in Threads, Busy(u), Pop(u)
    PROVE  \A t \in Threads : ~Enters(t)
<1>1. LeftAlone(u)  BY PopLeaves
<1>2. /\ \A t \in Threads \ {u} : stack'[t] = stack[t]
      /\ Len(stack'[u]) < Len(stack[u]) /\ Len(stack'[u]) \in Nat
  BY <1>1 DEF LeftAlone, Stacked
<1> QED  BY <1>2, NobodyEnters

LEMMA PushingEnters ==
    ASSUME Stacked, NEW u \in Threads, NEW z, Push(u, z)
    PROVE  /\ \A t \in Threads \ {u} : stack'[t] = stack[t]
           /\ Last(stack'[u]) = z
<1>1. PICK s \in Seq(Operation) : s = stack[u]  BY DEF Stacked
<1>2. stack' = [stack EXCEPT ![u] = Append(s, z)] /\ stack \in [Threads -> Seq(Operation)]
  BY <1>1 DEF Push, Stacked
<1>3. s \in Seq(Operation \cup {z}) /\ z \in Operation \cup {z}
  <2>1. Operation \subseteq Operation \cup {z}  OBVIOUS
  <2> QED  BY <2>1, SeqMonotonic
<1>4. PICK y : y = Append(s, z)  OBVIOUS
<1>5. Len(y) = Len(s) + 1 /\ y[Len(s) + 1] = z  BY <1>3, <1>4, AppendProperties
<1>6. stack'[u] = y /\ \A t \in Threads \ {u} : stack'[t] = stack[t]  BY <1>2, <1>4
<1> QED  BY <1>5, <1>6 DEF Last

LEMMA BecomingEnters ==
    ASSUME Stacked, NEW u \in Threads, Busy(u), NEW z, Becomes(u, z)
    PROVE  /\ \A t \in Threads \ {u} : stack'[t] = stack[t]
           /\ Last(stack'[u]) = z
<1>1. PICK s \in Seq(Operation) : s = stack[u] /\ s # <<>>  BY DEF Stacked, Busy
<1>2. PICK f : f = Front(s)  OBVIOUS
<1>3. f \in Seq(Operation)  BY <1>1, <1>2, FrontOf
<1>4. stack' = [stack EXCEPT ![u] = Append(f, z)] /\ stack \in [Threads -> Seq(Operation)]
  BY <1>1, <1>2 DEF Becomes, Stacked
<1>5. f \in Seq(Operation \cup {z}) /\ z \in Operation \cup {z}
  <2>1. Operation \subseteq Operation \cup {z}  OBVIOUS
  <2> QED  BY <1>3, <2>1, SeqMonotonic
<1>6. PICK y : y = Append(f, z)  OBVIOUS
<1>7. Len(y) = Len(f) + 1 /\ y[Len(f) + 1] = z  BY <1>5, <1>6, AppendProperties
<1>8. stack'[u] = y /\ \A t \in Threads \ {u} : stack'[t] = stack[t]  BY <1>4, <1>6
<1> QED  BY <1>7, <1>8 DEF Last

LEMMA GoingEntersNone ==
    ASSUME Inv, NEW u \in Threads, Busy(u), NEW step, step # "slot", Goes(u, step)
    PROVE  \A t \in Threads : ~Enters(t)
<1>1. Top(u) \in Operation /\ Stacked  BY TopIsSound, InvTypes
<1>2. PICK z : z = [Top(u) EXCEPT !.at = step]  OBVIOUS
<1>3. z.at = step  BY <1>1, <1>2 DEF Operation
<1>4. Becomes(u, z)  BY <1>2 DEF Goes
<1>5. (\A t \in Threads \ {u} : stack'[t] = stack[t]) /\ Last(stack'[u]) = z
  BY <1>1, <1>4, BecomingEnters
<1> QED  BY <1>1, <1>3, <1>5, NobodyEnters

LEMMA NextConnectionEntersNone ==
    ASSUME Inv, NEW u \in Threads, Busy(u), Top(u).kind \in Enders, NextConnection(u)
    PROVE  \A t \in Threads : ~Enters(t)
<1>1. PICK op : op = Top(u)  OBVIOUS
<1>2. op \in Operation /\ Stacked  BY <1>1, TopIsSound, InvTypes
<1>3. CASE op.kind = "disconnect"
  <2>1. Pop(u)  BY <1>1, <1>3 DEF NextConnection
  <2> QED  BY <1>2, <2>1, PoppingEntersNone
<1>4. CASE op.kind = "disconnectAll"
  <2>1. CASE op.todo = <<>>
    <3>1. Pop(u)  BY <1>1, <1>4, <2>1 DEF NextConnection
    <3> QED  BY <1>2, <3>1, PoppingEntersNone
  <2>2. CASE op.todo # <<>>
    <3>1. PICK z : z = [op EXCEPT !.at = "prune", !.conn = Head(op.todo), !.todo = Tail(@)]
      OBVIOUS
    <3>2. z.at = "prune"  BY <1>2, <3>1 DEF Operation
    <3>3. Becomes(u, z)  BY <1>1, <1>4, <2>2, <3>1 DEF NextConnection
    <3>4. (\A t \in Threads \ {u} : stack'[t] = stack[t]) /\ Last(stack'[u]) = z
      BY <1>2, <3>3, BecomingEnters
    <3> QED  BY <1>2, <3>2, <3>4, NobodyEnters
  <2> QED  BY <2>1, <2>2
<1>5. CASE op.kind = "destroy"
  <2>1. Goes(u, "sever")  BY <1>1, <1>5 DEF NextConnection
  <2> QED  BY <2>1, GoingEntersNone
<1> QED  BY <1>1, <1>3, <1>4, <1>5 DEF Enders

\* The calls that begin an operation other than a slot.
LEMMA CallingEntersNone ==
    ASSUME Inv, NEW u \in Threads, NEW z, Push(u, z), z.at # "slot"
    PROVE  \A t \in Threads : ~Enters(t)
<1>1. Stacked  BY InvTypes
<1>2. (\A t \in Threads \ {u} : stack'[t] = stack[t]) /\ Last(stack'[u]) = z
  BY <1>1, PushingEnters
<1> QED  BY <1>1, <1>2, NobodyEnters

LEMMA StayingEntersNone ==
    ASSUME stack' = stack
    PROVE  \A t \in Threads : ~Enters(t)
BY DEF Enters, Busy, Top

\* A slot is entered by CallNext() or Deliver(), whose receiver lives: what is connected is
\* linked, so not gone; and were it dying, this thread would be destroying it, not emitting.
LEMMA CallNextEnters ==
    ASSUME Inv, NEW u \in Threads, CallNext(u), NEW t \in Threads, Enters(t)
    PROVE  life[owner[Last(stack'[t]).conn]] = "alive"
<1>1. PICK op : op = Top(u)  OBVIOUS
<1>2. Busy(u) /\ op.kind = "emit" /\ op.at = "next"  BY <1>1 DEF CallNext, At
<1>3. op \in Operation /\ Stacked /\ Doing(u) = {op}  BY <1>1, <1>2, TopIsSound, InvTypes
<1>4. op.todo # <<>>
  <2> SUFFICES ASSUME op.todo = <<>> PROVE FALSE  OBVIOUS
  <2>1. Pop(u)  BY <1>1 DEF CallNext
  <2> QED  BY <1>2, <1>3, <2>1, PoppingEntersNone
<1>5. PICK n : n = Head(op.todo)  OBVIOUS
<1>6. PICK z : z = [op EXCEPT !.conn = n, !.todo = Tail(@),
                      !.at = IF n \notin connected THEN "next"
                             ELSE IF Home[owner[n]] = u THEN "slot" ELSE "post"]
  OBVIOUS
<1>7. Becomes(u, z)  BY <1>1, <1>4, <1>5, <1>6 DEF CallNext
<1>8. /\ z.conn = n
      /\ z.at = IF n \notin connected THEN "next" ELSE IF Home[owner[n]] = u THEN "slot" ELSE "post"
  BY <1>3, <1>6 DEF Operation
<1>9. (\A v \in Threads \ {u} : stack'[v] = stack[v]) /\ Last(stack'[u]) = z
  BY <1>2, <1>3, <1>7, BecomingEnters
<1>10. z.at = "slot"
  <2> SUFFICES ASSUME z.at # "slot" PROVE FALSE  OBVIOUS
  <2> QED  BY <1>3, <1>9, NobodyEnters
<1>11. t = u  BY <1>9 DEF Enters, Busy, Top
<1>12. n \in connected /\ Home[owner[n]] = u  BY <1>8, <1>10
<1>13. n \in linked /\ owner[n] \in Receivers  BY <1>12 DEF Inv, Bounds
<1>14. life[owner[n]] # "gone"  BY <1>13 DEF Inv, NoSlotKeptForTheGone
<1>15. life[owner[n]] # "dying"
  <2>1. \A r : ~Destroys(u, r)  BY <1>2, <1>3 DEF Destroys
  <2> QED  BY <1>12, <1>13, <2>1, DyingAreDestroyed
<1>16. life[owner[n]] \in {"alive", "dying", "gone"}  BY <1>13, InvTypes
<1>17. life[owner[n]] = "alive"  BY <1>14, <1>15, <1>16
<1> QED  BY <1>8, <1>9, <1>11, <1>17

LEMMA DeliverEnters ==
    ASSUME Inv, NEW u \in Threads, NEW r \in Receivers, Deliver(u, r), NEW t \in Threads, Enters(t)
    PROVE  life[owner[Last(stack'[t]).conn]] = "alive"
<1>1. life[r] = "alive"
  <2> SUFFICES ASSUME life[r] # "alive" PROVE FALSE  OBVIOUS
  <2>1. stack' = stack  BY DEF Deliver
  <2> QED  BY <2>1, StayingEntersNone
<1>2. PICK z : z = Op("deliver", "slot", Head(pending[r]), r, <<>>)  OBVIOUS
<1>3. Push(u, z) /\ pending[r] # <<>>  BY <1>1, <1>2 DEF Deliver
<1>4. z.conn = Head(pending[r])  BY <1>2 DEF Op
<1>5. (\A v \in Threads \ {u} : stack'[v] = stack[v]) /\ Last(stack'[u]) = z
  BY <1>3, InvTypes, PushingEnters
<1>6. t = u  BY <1>5 DEF Enters, Busy, Top
<1>7. owner[Head(pending[r])] = r
  <2>1. PICK s \in Seq(Conns) : s = pending[r] /\ s # <<>>  BY <1>3 DEF Inv, TypeOK
  <2>2. 1 \in Positions(s) /\ Head(s) = s[1]  BY <2>1 DEF Positions
  <2> QED  BY <2>1, <2>2 DEF Inv, Posted
<1> QED  BY <1>1, <1>4, <1>5, <1>6, <1>7

LEMMA OthersEnterNone ==
    ASSUME Inv, NEW u \in Threads,
           \/ \E r \in Receivers : Connect(u, r) \/ Destroy(u, r)
           \/ \E n \in Conns : Disconnect(u, n)
           \/ DisconnectAll(u) \/ Emit(u) \/ Register(u) \/ List(u) \/ RemoveConnection(u)
           \/ Prune(u) \/ Unlist(u) \/ TakeIncoming(u) \/ Sever(u) \/ StripAndFree(u)
           \/ Post(u) \/ EndSlot(u)
    PROVE  \A t \in Threads : ~Enters(t)
<1>0. Stacked  BY InvTypes
<1>1. ASSUME NEW r \in Receivers, Connect(u, r) PROVE \A t \in Threads : ~Enters(t)
  <2>1. PICK z : z = Op("connect", "register", made + 1, r, <<>>)  OBVIOUS
  <2>2. Push(u, z) /\ z.at = "register"  BY <1>1, <2>1 DEF Connect, Op
  <2> QED  BY <2>2, CallingEntersNone
<1>2. ASSUME NEW r \in Receivers, Destroy(u, r) PROVE \A t \in Threads : ~Enters(t)
  <2>1. PICK z : z = Op("destroy", "take", None, r, <<>>)  OBVIOUS
  <2>2. Push(u, z) /\ z.at = "take"  BY <1>2, <2>1 DEF Destroy, Op
  <2> QED  BY <2>2, CallingEntersNone
<1>3. ASSUME NEW n \in Conns, Disconnect(u, n) PROVE \A t \in Threads : ~Enters(t)
  <2>1. PICK z : z = Op("disconnect", "remove", n, owner[n], <<>>)  OBVIOUS
  <2>2. Push(u, z) /\ z.at = "remove"  BY <1>3, <2>1 DEF Disconnect, Op
  <2> QED  BY <2>2, CallingEntersNone
<1>4. ASSUME DisconnectAll(u) PROVE \A t \in Threads : ~Enters(t)
  <2>1. CASE Live(working) = <<>>
    <3>1. stack' = stack  BY <1>4, <2>1 DEF DisconnectAll
    <3> QED  BY <3>1, StayingEntersNone
  <2>2. CASE Live(working) # <<>>
    <3>1. PICK z : z = Op("disconnectAll", "prune", Head(Live(working)), None, Tail(Live(working)))
      OBVIOUS
    <3>2. Push(u, z) /\ z.at = "prune"  BY <1>4, <2>2, <3>1 DEF DisconnectAll, Op
    <3> QED  BY <3>2, CallingEntersNone
  <2> QED  BY <2>1, <2>2
<1>5. ASSUME Emit(u) PROVE \A t \in Threads : ~Enters(t)
  <2>1. PICK z : z = Op("emit", "next", None, None, Snapshot)  OBVIOUS
  <2>2. Push(u, z) /\ z.at = "next"  BY <1>5, <2>1 DEF Emit, Op
  <2> QED  BY <2>2, CallingEntersNone
<1>6. ASSUME Register(u) PROVE \A t \in Threads : ~Enters(t)
  <2>1. Busy(u) /\ (Goes(u, "list") \/ Pop(u))  BY <1>6 DEF Register, At
  <2> QED  BY <1>0, <2>1, GoingEntersNone, PoppingEntersNone
<1>7. ASSUME List(u) \/ StripAndFree(u) PROVE \A t \in Threads : ~Enters(t)
  <2>1. Busy(u) /\ Pop(u)  BY <1>7 DEF List, StripAndFree, At
  <2> QED  BY <1>0, <2>1, PoppingEntersNone
<1>8. ASSUME RemoveConnection(u) PROVE \A t \in Threads : ~Enters(t)
  <2>1. Busy(u) /\ Top(u).kind \in Enders /\ (Goes(u, "prune") \/ NextConnection(u))
    BY <1>8 DEF RemoveConnection, At, Enders
  <2> QED  BY <2>1, GoingEntersNone, NextConnectionEntersNone
<1>9. ASSUME Prune(u) PROVE \A t \in Threads : ~Enters(t)
  <2>1. Busy(u) /\ Top(u).kind \in Enders /\ (Goes(u, "unlist") \/ NextConnection(u))
    BY <1>9 DEF Prune, At
  <2> QED  BY <2>1, GoingEntersNone, NextConnectionEntersNone
<1>10. ASSUME Unlist(u) PROVE \A t \in Threads : ~Enters(t)
  <2>1. Busy(u) /\ Top(u).kind \in Enders /\ NextConnection(u)  BY <1>10 DEF Unlist, At
  <2> QED  BY <2>1, NextConnectionEntersNone
<1>11. ASSUME TakeIncoming(u) PROVE \A t \in Threads : ~Enters(t)
  <2>1. PICK z : z = [Top(u) EXCEPT !.at = "sever", !.todo = NewestFirst(Incoming(Top(u).recv))]
    OBVIOUS
  <2>2. Busy(u) /\ Becomes(u, z)  BY <1>11, <2>1 DEF TakeIncoming, At
  <2>3. z.at = "sever"  BY <2>1, <2>2, TopIsSound DEF Operation
  <2>4. (\A t \in Threads \ {u} : stack'[t] = stack[t]) /\ Last(stack'[u]) = z
    BY <1>0, <2>2, BecomingEnters
  <2> QED  BY <1>0, <2>3, <2>4, NobodyEnters
<1>12. ASSUME Sever(u) PROVE \A t \in Threads : ~Enters(t)
  <2>0. Busy(u)  BY <1>12 DEF Sever, At
  <2>1. CASE Top(u).todo = <<>>
    <3>1. Goes(u, "strip")  BY <1>12, <2>1 DEF Sever
    <3> QED  BY <2>0, <3>1, GoingEntersNone
  <2>2. CASE Top(u).todo # <<>>
    <3>1. PICK z : z = [Top(u) EXCEPT !.at = "remove", !.conn = Head(Top(u).todo), !.todo = Tail(@)]
      OBVIOUS
    <3>2. Becomes(u, z)  BY <1>12, <2>2, <3>1 DEF Sever
    <3>3. z.at = "remove"  BY <2>0, <3>1, TopIsSound DEF Operation
    <3>4. (\A t \in Threads \ {u} : stack'[t] = stack[t]) /\ Last(stack'[u]) = z
      BY <1>0, <2>0, <3>2, BecomingEnters
    <3> QED  BY <1>0, <3>3, <3>4, NobodyEnters
  <2> QED  BY <2>1, <2>2
<1>13. ASSUME Post(u) \/ EndSlot(u) PROVE \A t \in Threads : ~Enters(t)
  <2>1. Busy(u) /\ (Goes(u, "next") \/ Pop(u))  BY <1>13 DEF Post, EndSlot, At
  <2> QED  BY <1>0, <2>1, GoingEntersNone, PoppingEntersNone
<1> QED
  BY <1>1, <1>2, <1>3, <1>4, <1>5, <1>6, <1>7, <1>8, <1>9, <1>10, <1>11, <1>12, <1>13

\* No slot runs for an object being destroyed: not one emitted on the object's own thread,
\* whose destruction would have to be under way there, and not one posted to it, which asks
\* for the life flag (Signal.hpp, emit(); Object.cpp, ~Object()).
THEOREM NoSlotRunsForTheDead == Spec => NoSlotOfTheDead
<1>1. ASSUME Inv, [Next]_vars
      PROVE  \A t \in Threads : Enters(t) => life[owner[Last(stack'[t]).conn]] = "alive"
  <2>1. CASE UNCHANGED vars
    <3>1. stack' = stack  BY <2>1 DEF vars
    <3> QED  BY <3>1, StayingEntersNone
  <2>2. CASE Next
    <3>1. PICK u \in Threads :
            \/ \E r \in Receivers : Deliver(u, r)
            \/ CallNext(u)
            \/ \/ \E r \in Receivers : Connect(u, r) \/ Destroy(u, r)
               \/ \E n \in Conns : Disconnect(u, n)
               \/ DisconnectAll(u) \/ Emit(u) \/ Register(u) \/ List(u) \/ RemoveConnection(u)
               \/ Prune(u) \/ Unlist(u) \/ TakeIncoming(u) \/ Sever(u) \/ StripAndFree(u)
               \/ Post(u) \/ EndSlot(u)
      BY <2>2 DEF Next
    <3>2. CASE \E r \in Receivers : Deliver(u, r)  BY <1>1, <3>2, DeliverEnters
    <3>3. CASE CallNext(u)  BY <1>1, <3>3, CallNextEnters
    <3> QED  BY <1>1, <3>1, <3>2, <3>3, OthersEnterNone
  <2> QED  BY <1>1, <2>1, <2>2
<1>2. Inv /\ [Next]_vars =>
        \A t \in Threads : Enters(t) => life[owner[Last(stack'[t]).conn]] = "alive"
  BY <1>1
<1>3. (\A t \in Threads : Enters(t) => life[owner[Last(stack'[t]).conn]] = "alive") =>
        (\A t \in Threads :
            /\ stack'[t] # <<>>
            /\ Last(stack'[t]).at = "slot"
            /\ Len(stack'[t]) >= Len(stack[t])
            /\ Busy(t) => Top(t).at # "slot"
            => life[owner[Last(stack'[t]).conn]] = "alive")
  BY DEF Enters
<1> QED  BY <1>2, <1>3, AlwaysInv, PTL DEF Spec, NoSlotOfTheDead
=============================================================================
