------------------------- MODULE SubsequencesProofs -------------------------
(* What Subsequences' operators return, for every sequence.                *)
EXTENDS Subsequences, SequencesExt, SequenceTheorems, WellFoundedInduction, TLAPS

\* < on Nat is well founded.
LEMMA LessThanWellFounded ==
    IsWellFoundedOn({p \in Nat \X Nat : p[1] < p[2]}, Nat)
BY NatLessThanWellFounded DEF OpToRel

\* A non-empty set of naturals has a least element.
LEMMA NatLeast ==
    ASSUME NEW T \in SUBSET Nat, T # {}
    PROVE  \E n \in T : \A m \in T : n <= m
<1> DEFINE R == {p \in Nat \X Nat : p[1] < p[2]}
<1>1. PICK x \in T : \A y \in T : <<y, x>> \notin R
  <2> HIDE DEF R
  <2> QED  BY LessThanWellFounded, WFMin DEF R
<1>2. \A y \in T : x <= y
  <2>1. TAKE y \in T
  <2>2. <<y, x>> \in Nat \X Nat  OBVIOUS
  <2>3. ~(<<y, x>>[1] < <<y, x>>[2])  BY <1>1, <2>2
  <2> QED  BY <2>3
<1> QED  BY <1>2

\* The recursion of Picked, its prefix lengths up to n.
Recursion(u, s, P, n) ==
    u = [k \in 0 .. n |-> IF k = 0 THEN <<>>
                          ELSE IF k \in P THEN Append(u[k - 1], s[k])
                          ELSE u[k - 1]]

\* The recursion has a solution, for every length.
LEMMA RecursionExists ==
    ASSUME NEW s, NEW P, NEW n \in Nat
    PROVE  \E u : Recursion(u, s, P, n)
<1> DEFINE Bad == {m \in Nat : ~ \E u : Recursion(u, s, P, m)}
<1>1. SUFFICES ASSUME Bad # {} PROVE FALSE  OBVIOUS
<1>2. PICK m \in Bad : \A k \in Bad : m <= k  BY <1>1, NatLeast
<1>3. CASE m = 0
  <2> DEFINE v == [k \in 0 .. 0 |-> <<>>]
  <2>1. Recursion(v, s, P, 0)  BY DEF Recursion
  <2> QED  BY <2>1, <1>3
<1>4. CASE m # 0
  <2>1. m - 1 \in Nat /\ m - 1 \notin Bad  BY <1>2, <1>4
  <2>2. PICK u : Recursion(u, s, P, m - 1)  BY <2>1
  <2> DEFINE v == [k \in 0 .. m |-> IF k < m THEN u[k]
                                    ELSE IF m \in P THEN Append(u[m - 1], s[m]) ELSE u[m - 1]]
  <2>3. \A k \in 0 .. m - 1 : v[k] = u[k]  OBVIOUS
  <2>4. \A k \in 0 .. m : v[k] = IF k = 0 THEN <<>>
                                 ELSE IF k \in P THEN Append(v[k - 1], s[k])
                                 ELSE v[k - 1]
    <3>1. TAKE k \in 0 .. m
    <3>2. CASE k < m
      <4>1. k \in 0 .. m - 1 /\ v[k] = u[k]  BY <3>2
      <4>2. k # 0 => k - 1 \in 0 .. m - 1  BY <4>1
      <4>3. u[k] = IF k = 0 THEN <<>> ELSE IF k \in P THEN Append(u[k - 1], s[k]) ELSE u[k - 1]
        BY <2>2, <4>1 DEF Recursion
      <4> HIDE DEF v
      <4> QED  BY <4>1, <4>2, <4>3, <2>3
    <3>3. CASE k = m
      <4>1. v[m] = IF m \in P THEN Append(u[m - 1], s[m]) ELSE u[m - 1]  OBVIOUS
      <4>2. v[m - 1] = u[m - 1]  BY <2>1, <2>3
      <4> HIDE DEF v
      <4> QED  BY <3>3, <1>4, <4>1, <4>2
    <3> QED  BY <3>2, <3>3
  <2>5. Recursion(v, s, P, m)
    <3> DEFINE w == [k \in 0 .. m |-> IF k = 0 THEN <<>>
                                 ELSE IF k \in P THEN Append(v[k - 1], s[k])
                                 ELSE v[k - 1]]
    <3>1. v = [k \in 0 .. m |-> v[k]]  OBVIOUS
    <3>2. \A k \in 0 .. m : v[k] = w[k]
      <4> HIDE DEF v
      <4> QED  BY <2>4
    <3>3. v = w
      <4> HIDE DEF v
      <4> QED  BY <3>1, <3>2
    <3> HIDE DEF v
    <3> QED  BY <3>3 DEF Recursion
  <2> QED  BY <2>5
<1> QED  BY <1>3, <1>4

\* How Picked(s, P) is read off s: f gives each entry's position.
Embeds(t, s, P, n, f) ==
    /\ f \in [1 .. Len(t) -> {k \in 1 .. n : k \in P}]
    /\ \A i \in 1 .. Len(t) : t[i] = s[f[i]]
    /\ \A i, j \in 1 .. Len(t) : i < j => f[i] < f[j]
    /\ \A k \in 1 .. n : k \in P => \E i \in 1 .. Len(t) : f[i] = k

LEMMA PickedEmbeds ==
    ASSUME NEW S, NEW s \in Seq(S), NEW P
    PROVE  /\ Picked(s, P) \in Seq(S)
           /\ \E f : Embeds(Picked(s, P), s, P, Len(s), f)
<1> DEFINE u == CHOOSE v : Recursion(v, s, P, Len(s))
           Good(k) == u[k] \in Seq(S) /\ \E f : Embeds(u[k], s, P, k, f)
           Bad == {k \in 0 .. Len(s) : ~Good(k)}
<1>0. Len(s) \in Nat  OBVIOUS
<1>1. Recursion(u, s, P, Len(s))  BY <1>0, RecursionExists
<1>2. Picked(s, P) = u[Len(s)]  BY SMTT(30) DEF Picked, Recursion
<1>3. \A k \in 0 .. Len(s) : u[k] = IF k = 0 THEN <<>>
                                    ELSE IF k \in P THEN Append(u[k - 1], s[k])
                                    ELSE u[k - 1]
  BY <1>1 DEF Recursion
<1> HIDE DEF u
<1>4. Bad = {}
  <2>1. SUFFICES ASSUME Bad # {} PROVE FALSE  OBVIOUS
  <2>2. PICK m \in Bad : \A k \in Bad : m <= k
    <3>1. Bad \in SUBSET Nat  BY <1>0
    <3> HIDE DEF Bad
    <3> QED  BY <3>1, <2>1, NatLeast
  <2>3. m \in 0 .. Len(s) /\ ~Good(m)  OBVIOUS
  <2>4. CASE m = 0
    <3>1. u[0] = <<>>  BY <1>0, <1>3
    <3>2. Embeds(<<>>, s, P, 0, [i \in 1 .. 0 |-> 0])  BY DEF Embeds
    <3> QED  BY <2>3, <2>4, <3>1, <3>2
  <2>5. CASE m # 0
    <3>1. m - 1 \in 0 .. Len(s) /\ m \in 1 .. Len(s)  BY <2>3, <2>5, <1>0
    <3>2. Good(m - 1)  BY <3>1, <2>2
    <3> DEFINE t == u[m - 1]
    <3>3. t \in Seq(S)  BY <3>2
    <3>4. PICK f : Embeds(t, s, P, m - 1, f)  BY <3>2
    <3> HIDE DEF t
    <3>5. CASE m \notin P
      <4>1. u[m] = t  BY <1>3, <3>5, <2>3, <2>5 DEF t
      <4>2. Embeds(t, s, P, m, f)
        <5>1. {k \in 1 .. m - 1 : k \in P} = {k \in 1 .. m : k \in P}  BY <3>1, <3>5, <1>0
        <5>2. \A k \in 1 .. m : k \in P => \E i \in 1 .. Len(t) : f[i] = k
          BY <5>1, <3>4 DEF Embeds
        <5> QED  BY <5>1, <5>2, <3>4 DEF Embeds
      <4> QED  BY <4>1, <4>2, <3>3, <2>3
    <3>6. CASE m \in P
      <4> DEFINE z == Append(t, s[m])
                 g == [i \in 1 .. Len(t) + 1 |-> IF i <= Len(t) THEN f[i] ELSE m]
      <4>1. u[m] = z  BY <1>3, <3>6, <2>3, <2>5 DEF t
      <4>2. s[m] \in S  BY <3>1
      <4>3. /\ z \in Seq(S)
            /\ Len(z) = Len(t) + 1
            /\ \A i \in 1 .. Len(t) : z[i] = t[i]
            /\ z[Len(t) + 1] = s[m]
            /\ Len(t) \in Nat
        BY <4>2, <3>3, AppendProperties
      <4> HIDE DEF z
      <4>4. /\ \A i \in 1 .. Len(t) : g[i] = f[i]
            /\ g[Len(t) + 1] = m
        BY <4>3
      <4>5. \A i \in 1 .. Len(t) : f[i] \in 1 .. m - 1 /\ f[i] \in P  BY <3>4 DEF Embeds
      <4>6. g \in [1 .. Len(z) -> {k \in 1 .. m : k \in P}]  BY <4>3, <4>5, <3>1, <3>6, <1>0
      <4> HIDE DEF g
      <4>7. \A i \in 1 .. Len(z) : z[i] = s[g[i]]
        <5>1. TAKE i \in 1 .. Len(z)
        <5>2. CASE i \in 1 .. Len(t)  BY <5>2, <4>3, <4>4, <3>4 DEF Embeds
        <5>3. CASE i = Len(t) + 1  BY <5>3, <4>3, <4>4
        <5> QED  BY <5>2, <5>3, <4>3
      <4>8. \A i, j \in 1 .. Len(z) : i < j => g[i] < g[j]
        <5>1. TAKE i, j \in 1 .. Len(z)
        <5>2. HAVE i < j
        <5>3. i \in 1 .. Len(t)  BY <5>2, <4>3
        <5>4. CASE j \in 1 .. Len(t)  BY <5>2, <5>3, <5>4, <4>4, <3>4 DEF Embeds
        <5>5. CASE j = Len(t) + 1  BY <5>3, <5>5, <4>4, <4>5, <3>1
        <5> QED  BY <5>4, <5>5, <4>3
      <4>9. \A k \in 1 .. m : k \in P => \E i \in 1 .. Len(z) : g[i] = k
        <5>1. TAKE k \in 1 .. m
        <5>2. HAVE k \in P
        <5>3. CASE k = m  BY <5>3, <4>3, <4>4
        <5>4. CASE k \in 1 .. m - 1
          <6>1. PICK i \in 1 .. Len(t) : f[i] = k  BY <5>2, <5>4, <3>4 DEF Embeds
          <6>2. i \in 1 .. Len(z) /\ g[i] = k  BY <6>1, <4>3, <4>4
          <6> QED  BY <6>2
        <5> QED  BY <5>3, <5>4, <3>1
      <4>10. Embeds(z, s, P, m, g)  BY <4>6, <4>7, <4>8, <4>9 DEF Embeds
      <4> QED  BY <4>1, <4>3, <4>10, <2>3
    <3> QED  BY <3>5, <3>6
  <2> QED  BY <2>4, <2>5
<1>5. Good(Len(s))  BY <1>4, <1>0
<1> QED  BY <1>2, <1>5

\* Every entry of Picked(s, P) is an entry of s, at a position of P.
LEMMA PickedFrom ==
    ASSUME NEW S, NEW s \in Seq(S), NEW P
    PROVE  /\ Picked(s, P) \in Seq(S)
           /\ \A i \in Positions(Picked(s, P)) :
                \E k \in Positions(s) : k \in P /\ Picked(s, P)[i] = s[k]
BY PickedEmbeds DEF Embeds, Positions

\* A subsequence is no longer than the sequence: its i-th entry is not before the i-th position.
LEMMA PickedIsNoLonger ==
    ASSUME NEW S, NEW s \in Seq(S), NEW P
    PROVE  Len(Picked(s, P)) <= Len(s)
<1> DEFINE t == Picked(s, P)
<1>1. PICK f : t \in Seq(S) /\ Embeds(t, s, P, Len(s), f)
  BY PickedEmbeds
<1> HIDE DEF t
<1>2. Len(t) \in Nat /\ Len(s) \in Nat
  BY <1>1
<1>3. /\ \A i \in 1 .. Len(t) : f[i] \in 1 .. Len(s)
      /\ \A i, j \in 1 .. Len(t) : i < j => f[i] < f[j]
  BY <1>1 DEF Embeds
<1> DEFINE Bad == {i \in 1 .. Len(t) : f[i] < i}
<1>4. Bad = {}
  <2>1. SUFFICES ASSUME Bad # {} PROVE FALSE
    OBVIOUS
  <2>2. PICK m \in Bad : \A k \in Bad : m <= k
    <3>1. Bad \in SUBSET Nat
      BY <1>2
    <3> HIDE DEF Bad
    <3> QED
      BY <3>1, <2>1, NatLeast
  <2>3. m \in 1 .. Len(t) /\ f[m] < m /\ f[m] \in 1 .. Len(s)
    BY <1>3
  <2>4. m - 1 \in 1 .. Len(t) /\ m - 1 < m
    BY <1>2, <2>3
  <2>5. f[m - 1] < f[m] /\ f[m - 1] \in 1 .. Len(s) /\ m - 1 \notin Bad
    BY <1>2, <1>3, <2>2, <2>3, <2>4
  <2> QED
    BY <1>2, <2>3, <2>4, <2>5
<1>5. Len(t) # 0 => Len(t) \in 1 .. Len(t) /\ f[Len(t)] \in 1 .. Len(s) /\ ~(f[Len(t)] < Len(t))
  BY <1>2, <1>3, <1>4
<1>6. Len(t) <= Len(s)
  BY <1>2, <1>5
<1> QED
  BY <1>6 DEF t

\* InsertAt shifts what stood at k and after by one.
LEMMA InsertAtShifts ==
    ASSUME NEW S, NEW s \in Seq(S), NEW e \in S, NEW k \in 1 .. Len(s) + 1
    PROVE  /\ InsertAt(s, k, e) \in Seq(S)
           /\ Len(InsertAt(s, k, e)) = Len(s) + 1
           /\ \A i \in 1 .. Len(s) + 1 :
                InsertAt(s, k, e)[i] = IF i < k THEN s[i] ELSE IF i = k THEN e ELSE s[i - 1]
<1> DEFINE a == SubSeq(s, 1, k - 1)
           b == SubSeq(s, k, Len(s))
           ae == a \o <<e>>
<1>0. Len(s) \in Nat /\ k \in Nat  OBVIOUS
<1>1. /\ a \in Seq(S) /\ Len(a) = k - 1
      /\ \A i \in 1 .. k - 1 : a[i] = s[i]
  BY <1>0, SubSeqProperties
<1>2. /\ b \in Seq(S) /\ Len(b) = Len(s) - k + 1
      /\ \A i \in 1 .. Len(s) - k + 1 : b[i] = s[k + i - 1]
  BY <1>0, SubSeqProperties
<1>3. <<e>> \in Seq(S) /\ Len(<<e>>) = 1 /\ <<e>>[1] = e  OBVIOUS
<1> HIDE DEF a, b
<1>4. /\ ae \in Seq(S) /\ Len(ae) = k
      /\ \A i \in 1 .. k - 1 : ae[i] = s[i]
      /\ ae[k] = e
  BY <1>0, <1>1, <1>3, ConcatProperties
<1> HIDE DEF ae
<1>5. /\ ae \o b \in Seq(S) /\ Len(ae \o b) = Len(s) + 1
      /\ \A i \in 1 .. Len(s) + 1 : (ae \o b)[i] = IF i <= k THEN ae[i] ELSE b[i - k]
  <2>1. /\ ae \o b \in Seq(S) /\ Len(ae \o b) = Len(ae) + Len(b)
        /\ \A i \in 1 .. Len(ae) + Len(b) :
             (ae \o b)[i] = IF i <= Len(ae) THEN ae[i] ELSE b[i - Len(ae)]
    BY ONLY <1>2, <1>4, ConcatProperties
  <2>2. Len(ae) = k /\ Len(ae) + Len(b) = Len(s) + 1
    BY ONLY <1>0, <1>2, <1>4
  <2> QED
    BY ONLY <2>1, <2>2
<1>6. InsertAt(s, k, e) = ae \o b  BY DEF InsertAt, ae, a, b
<1>7. \A i \in 1 .. Len(s) + 1 :
        (ae \o b)[i] = IF i < k THEN s[i] ELSE IF i = k THEN e ELSE s[i - 1]
  BY <1>0, <1>2, <1>4, <1>5
<1> QED  BY <1>5, <1>6, <1>7
=============================================================================
