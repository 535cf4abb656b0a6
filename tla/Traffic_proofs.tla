--------------------------- MODULE Traffic_proofs ---------------------------
(***************************************************************************)
(* The rules of the traffic manager, for every network, every zone and     *)
(* any number of restarts and of rules that others delete. The proofs up   *)
(* to the last part take two facts as hypotheses: CardinalityOK, about the *)
(* sizes of finite sets, and LeastOK, that a set of numbers has a least    *)
(* one. The last part proves both, with the library of finite sets.        *)
(***************************************************************************)

EXTENDS Traffic, TLAPS

-----------------------------------------------------------------------------
(* A restore, as the proofs use it.                                        *)

\* q has the n elements of s and then the m of t.
Joins(q, s, t, n, m) ==
  /\ Len(q) = n + m
  /\ \A i \in 1 .. n : q[i] = s[i]
  /\ \A i \in 1 .. m : q[n + i] = t[i]

\* The elements of a concatenation.
LEMMA ConcatFacts ==
  ASSUME NEW X, NEW s \in Seq(X), NEW t \in Seq(X)
  PROVE  s \o t \in Seq(X) /\ Joins(s \o t, s, t, Len(s), Len(t))
  BY DEF Joins

Line == [op : {"-A", "-D"}, r : RuleType]

Pcs == {"off", "teardown", "clear", "build", "sleep", "check"}

TypeInv ==
  /\ conf \in Configs /\ prev \in Configs \cup {Absent}
  /\ chain \in [Chains -> {Absent} \cup Seq(RuleType)]
  /\ \A c \in Chains : chain[c] # Absent => \A i \in DOMAIN chain[c] : chain[c][i].chain = c
  /\ worker \in [{"masq", "forward"} -> [pc : Pcs, i : Nat \ {0}, payload : Seq(Line)]]
  /\ worker["forward"].pc # "teardown"

\* q is what a restore of pl makes of the rules s of chain c: the n rules at the
\* positions f, then those of the m lines at the positions g.
Restores(q, s, pl, c, n, m, f, g) ==
  /\ q \in Seq(RuleType) /\ Len(q) = n + m
  /\ \A i \in 1 .. n : q[i] = s[f[i]] /\ ~Deletes(pl, q[i])
  /\ \A i \in 1 .. m : q[n + i] = pl[g[i]].r /\ pl[g[i]].op = "-A" /\ pl[g[i]].r.chain = c
  /\ \A i, j \in 1 .. n : i < j => f[i] < f[j]
  /\ \A i, j \in 1 .. m : i < j => g[i] < g[j]
  /\ \A k \in DOMAIN pl : pl[k].op = "-A" /\ pl[k].r.chain = c => \E i \in 1 .. m : g[i] = k

\* What a restore does to the chains: it keeps the rules it does not delete and appends
\* the others in their order, and a chain that no line names is not changed.
RestoredOK ==
  /\ \A pl \in Seq(Line), c \in Chains : chain[c] # Absent =>
       \E n, m \in Nat : \E f \in [1 .. n -> DOMAIN chain[c]], g \in [1 .. m -> DOMAIN pl] :
         Restores(Restored(pl)[c], chain[c], pl, c, n, m, f, g)
  /\ \A pl \in Seq(Line), c \in Chains :
       (\A k \in DOMAIN pl : pl[k].r.chain # c) => Restored(pl)[c] = chain[c]

\* f takes different values on S, and takes every value of T on S.
OneToOne(S, f) == \A x, y \in S : f[x] = f[y] => x = y
Covers(S, T, f) == \A z \in T : \E x \in S : f[x] = z

\* What the proofs use of the number of elements of a finite set.
CardinalityOK ==
  /\ \A n \in Nat : IsFiniteSet(1 .. n) /\ Cardinality(1 .. n) = n
  /\ \A S : IsFiniteSet(S) => Cardinality(S) \in Nat
  /\ \A S : IsFiniteSet(S) =>
       \A T \in SUBSET S : IsFiniteSet(T) /\ Cardinality(T) <= Cardinality(S)
  /\ Cardinality({}) = 0 /\ \A S : IsFiniteSet(S) /\ Cardinality(S) = 0 => S = {}
  /\ \A S : IsFiniteSet(S) => \A x \in S :
       IsFiniteSet(S \ {x}) /\ Cardinality(S \ {x}) = Cardinality(S) - 1
  /\ \A S, T : IsFiniteSet(T) /\ Cardinality(S) = Cardinality(T) =>
       \A f \in [S -> T] : OneToOne(S, f) => Covers(S, T, f)

\* q has n elements, those of s at the positions f in S.
Selects(q, s, S, n, f) ==
  /\ Len(q) = n
  /\ \A i \in 1 .. n : q[i] = s[f[i]]
  /\ \A i, j \in 1 .. n : i < j => f[i] < f[j]
  /\ \A x \in S : \E i \in 1 .. n : f[i] = x

\* A restore does what the proofs above use of it.
LEMMA RestoredHolds ==
  ASSUME TypeInv, CardinalityOK
  PROVE  RestoredOK
  <1>Interval. \A n \in Nat : IsFiniteSet(1 .. n) /\ Cardinality(1 .. n) = n
    BY Zenon DEF CardinalityOK
  <1>Cardinal. \A S : IsFiniteSet(S) => Cardinality(S) \in Nat
    BY Zenon DEF CardinalityOK
  <1>Subset. \A S : IsFiniteSet(S) =>
               \A T \in SUBSET S : IsFiniteSet(T) /\ Cardinality(T) <= Cardinality(S)
    BY Zenon DEF CardinalityOK
  <1>Empty. Cardinality({}) = 0 /\ \A S : IsFiniteSet(S) /\ Cardinality(S) = 0 => S = {}
    BY Zenon DEF CardinalityOK
  <1>Remove. \A S : IsFiniteSet(S) => \A x \in S :
               IsFiniteSet(S \ {x}) /\ Cardinality(S \ {x}) = Cardinality(S) - 1
    BY Zenon DEF CardinalityOK

  \* A subsequence lists the chosen positions, each once, in their order.
  <1>SubsequenceShape.
    ASSUME NEW X, NEW s \in Seq(X), NEW S \in SUBSET DOMAIN s
    PROVE  /\ Subsequence(s, S) \in Seq(X)
           /\ \E n \in Nat : \E f \in [1 .. n -> S] : Selects(Subsequence(s, S), s, S, n, f)
    <2> USE <1>SubsequenceShape
    <2> DEFINE n == Cardinality(S)
               Below(k) == {j \in S : j <= k}
               rank == [k \in S |-> Cardinality(Below(k))]
               f == [i \in 1 .. n |-> CHOOSE k \in S : Cardinality(Below(k)) = i]
    <2>1. Len(s) \in Nat /\ DOMAIN s = 1 .. Len(s) /\ S \in SUBSET (1 .. Len(s))
      OBVIOUS
    <2>2. IsFiniteSet(S) /\ n \in Nat
      <3>1. IsFiniteSet(1 .. Len(s))
        BY <2>1, <1>Interval
      <3>2. IsFiniteSet(S)
        BY Zenon, <2>1, <3>1, <1>Subset
      <3> QED BY Zenon, <3>2, <1>Cardinal
    <2>3. ASSUME NEW k \in S
          PROVE  /\ IsFiniteSet(Below(k)) /\ Cardinality(Below(k)) \in 1 .. n
                 /\ Cardinality(Below(k)) \in Nat
      <3>1. Below(k) \in SUBSET S /\ k \in Below(k)
        BY <2>1
      <3> HIDE DEF Below
      <3>2. IsFiniteSet(Below(k)) /\ Cardinality(Below(k)) <= n
        BY Zenon, <2>2, <3>1, <1>Subset
      <3>3. Cardinality(Below(k)) \in Nat /\ Cardinality(Below(k)) # 0
        BY Zenon, <3>1, <3>2, <1>Cardinal, <1>Empty
      <3> QED BY <2>2, <3>2, <3>3
    <2>4. ASSUME NEW k \in S, NEW l \in S, k < l
          PROVE  Cardinality(Below(k)) < Cardinality(Below(l))
      <3>1. Below(k) \in SUBSET (Below(l) \ {l}) /\ l \in Below(l)
        BY <2>1, <2>4
      <3>2. IsFiniteSet(Below(l) \ {l})
            /\ Cardinality(Below(l) \ {l}) = Cardinality(Below(l)) - 1
        <4>1. IsFiniteSet(Below(l))
          BY Zenon, <2>3
        <4> HIDE DEF Below
        <4> QED BY Zenon, <3>1, <4>1, <1>Remove
      <3>3. Cardinality(Below(k)) <= Cardinality(Below(l) \ {l})
        <4> HIDE DEF Below
        <4> QED BY Zenon, <3>1, <3>2, <1>Subset
      <3>4. Cardinality(Below(k)) \in Nat /\ Cardinality(Below(l)) \in Nat
        BY Zenon, <2>3
      <3> HIDE DEF Below
      <3> QED BY <3>2, <3>3, <3>4
    <2> HIDE DEF Below, n
    <2>5. \A i \in 1 .. n : \E k \in S : rank[k] = i
      <3>1. rank \in [S -> 1 .. n]
        BY Zenon, <2>3
      <3>2. ASSUME NEW k \in S, NEW l \in S, rank[k] = rank[l] PROVE k = l
        <4>1. k \in Nat /\ l \in Nat
          BY <2>1
        <4>2. ~(k < l) /\ ~(l < k)
          <5>1. /\ Cardinality(Below(k)) \in Nat /\ Cardinality(Below(l)) \in Nat
                /\ Cardinality(Below(k)) = Cardinality(Below(l))
            BY Zenon, <2>3, <3>2
          <5>2. ~(Cardinality(Below(k)) < Cardinality(Below(l)))
                /\ ~(Cardinality(Below(l)) < Cardinality(Below(k)))
            BY <5>1
          <5> QED BY Zenon, <2>4, <5>2
        <4> QED BY <4>1, <4>2
      <3>3. IsFiniteSet(1 .. n) /\ Cardinality(S) = Cardinality(1 .. n)
        BY Zenon, <2>2, <1>Interval DEF n
      <3> HIDE DEF rank
      <3>4. OneToOne(S, rank)
        BY Zenon, <3>2 DEF OneToOne
      <3>5. Covers(S, 1 .. n, rank)
        BY Zenon, <3>1, <3>3, <3>4 DEF CardinalityOK
      <3> QED BY Zenon, <3>5 DEF Covers
    <2>6. ASSUME NEW i \in 1 .. n PROVE f[i] \in S /\ Cardinality(Below(f[i])) = i
      <3>1. \E k \in S : rank[k] = i
        BY Zenon, <2>5
      <3>2. \E k \in S : Cardinality(Below(k)) = i
        BY Zenon, <3>1
      <3>3. f[i] = CHOOSE k \in S : Cardinality(Below(k)) = i
        BY Zenon
      <3> HIDE DEF f
      <3> QED BY Zenon, <3>2, <3>3
    <2>7. f \in [1 .. n -> S]
      BY Zenon, <2>6
    <2>8. Subsequence(s, S) = [i \in 1 .. n |-> s[f[i]]]
      <3>1. ASSUME NEW i \in 1 .. n
            PROVE  f[i] = CHOOSE k \in S : Cardinality({j \in S : j <= k}) = i
        BY Zenon DEF Below
      <3>2. Subsequence(s, S)
              = [i \in 1 .. n |-> s[CHOOSE k \in S : Cardinality({j \in S : j <= k}) = i]]
        BY Zenon DEF Subsequence, n
      <3> HIDE DEF f
      <3> QED BY Zenon, <3>1, <3>2
    <2>9. ASSUME NEW x \in S PROVE \E i \in 1 .. n : f[i] = x
      <3>1. rank[x] \in 1 .. n
        BY Zenon, <2>3
      <3>2. f[rank[x]] \in S /\ rank[f[rank[x]]] = rank[x]
        BY Zenon, <2>6, <3>1
      <3>3. f[rank[x]] = x
        <4>1. f[rank[x]] \in Nat /\ x \in Nat
          BY <2>1, <3>2
        <4>2. Cardinality(Below(f[rank[x]])) = Cardinality(Below(x)) /\ Cardinality(Below(x)) \in Nat
          BY Zenon, <2>3, <3>2
        <4>3. ~(Cardinality(Below(f[rank[x]])) < Cardinality(Below(x)))
              /\ ~(Cardinality(Below(x)) < Cardinality(Below(f[rank[x]])))
          BY <4>2
        <4>4. ~(f[rank[x]] < x) /\ ~(x < f[rank[x]])
          BY Zenon, <2>4, <3>2, <4>3
        <4> HIDE DEF f, rank
        <4> QED BY <4>1, <4>4
      <3> QED BY Zenon, <3>1, <3>3
    <2>10. ASSUME NEW i \in 1 .. n, NEW j \in 1 .. n, i < j PROVE f[i] < f[j]
      <3>1. f[i] \in S /\ f[j] \in S /\ Cardinality(Below(f[i])) = i /\ Cardinality(Below(f[j])) = j
        BY Zenon, <2>6
      <3> HIDE DEF f
      <3>2. f[i] \in Nat /\ f[j] \in Nat
        BY <2>1, <3>1
      <3>3. f[j] # f[i]
        BY <2>10, <3>1
      <3>4. ~(f[j] < f[i])
        <4>1. ~(j < i)
          BY <2>10
        <4> QED BY Zenon, <2>4, <3>1, <4>1
      <3> QED BY <3>2, <3>3, <3>4
    <2> HIDE DEF f, rank
    <2>11. Subsequence(s, S) \in Seq(X) /\ Len(Subsequence(s, S)) = n
           /\ \A i \in 1 .. n : Subsequence(s, S)[i] = s[f[i]]
      <3>1. ASSUME NEW i \in 1 .. n PROVE s[f[i]] \in X
        BY <2>1, <2>7
      <3> QED BY <2>2, <2>8, <3>1
    <2>12. Selects(Subsequence(s, S), s, S, n, f)
      BY Zenon, <2>9, <2>10, <2>11 DEF Selects
    <2> QED BY Zenon, <2>2, <2>7, <2>11, <2>12

  \* All positions of a sequence make the sequence.
  <1>SubsequenceWhole.
    ASSUME NEW X, NEW s \in Seq(X)
    PROVE  Subsequence(s, DOMAIN s) = s
    <2> USE <1>SubsequenceWhole
    <2> DEFINE n == Len(s)
    <2>1. DOMAIN s = 1 .. n /\ s = [i \in 1 .. n |-> s[i]]
      OBVIOUS
    <2>0. n \in Nat
      OBVIOUS
    <2> HIDE DEF n
    <2>2. Cardinality(1 .. n) = n
      BY <2>0, <1>Interval
    <2>3. ASSUME NEW k \in 1 .. n PROVE Cardinality({j \in 1 .. n : j <= k}) = k
      <3>1. {j \in 1 .. n : j <= k} = 1 .. k
        BY <2>0
      <3>2. Cardinality(1 .. k) = k
        BY <2>0, <1>Interval
      <3> QED BY Zenon, <3>1, <3>2
    <2>4. ASSUME NEW i \in 1 .. n
          PROVE  (CHOOSE k \in 1 .. n : Cardinality({j \in 1 .. n : j <= k}) = i) = i
      BY Zenon, <2>3
    <2>5. Subsequence(s, 1 .. n) = [i \in 1 .. n |-> s[i]]
      <3>1. Subsequence(s, 1 .. n)
              = [i \in 1 .. n |->
                   s[CHOOSE k \in 1 .. n : Cardinality({j \in 1 .. n : j <= k}) = i]]
        BY Zenon, <2>2 DEF Subsequence
      <3> QED BY Zenon, <2>4, <3>1
    <2> QED BY Zenon, <2>1, <2>5

  \* Restored keeps a subsequence of a chain and appends a subsequence of the payload.
  <1>RestoredShape.
    ASSUME NEW pl \in Seq(Line), NEW c \in Chains, chain[c] # Absent
    PROVE  \E n, m \in Nat : \E f \in [1 .. n -> DOMAIN chain[c]], g \in [1 .. m -> DOMAIN pl] :
             Restores(Restored(pl)[c], chain[c], pl, c, n, m, f, g)
    <2> USE <1>RestoredShape
    <2> DEFINE s == chain[c]
               S == {i \in DOMAIN s : ~Deletes(pl, s[i])}
               T == {i \in DOMAIN pl : pl[i].op = "-A" /\ pl[i].r.chain = c}
               k == Subsequence(s, S)
               a == Subsequence(pl, T)
               r == [i \in DOMAIN a |-> a[i].r]
               q == Restored(pl)[c]
    <2>1. s \in Seq(RuleType) /\ DOMAIN chain = Chains
      BY Zenon DEF TypeInv
    <2>2. q = k \o r
      BY Zenon, <2>1 DEF Restored, Kept, Appended
    <2>3. S \in SUBSET DOMAIN s /\ T \in SUBSET DOMAIN pl
      BY Zenon
    <2> HIDE DEF s, k, a, q, r, S, T
    <2>4. /\ k \in Seq(RuleType)
          /\ \E n \in Nat : \E f \in [1 .. n -> S] : Selects(k, s, S, n, f)
      BY Zenon, <2>1, <2>3, <1>SubsequenceShape DEF k
    <2>5. /\ a \in Seq(Line)
          /\ \E m \in Nat : \E g \in [1 .. m -> T] : Selects(a, pl, T, m, g)
      BY Zenon, <2>3, <1>SubsequenceShape DEF a
    <2>6. r \in Seq(RuleType) /\ Len(r) = Len(a) /\ \A i \in 1 .. Len(a) : r[i] = a[i].r
      <3>1. ASSUME NEW i \in 1 .. Len(a) PROVE a[i].r \in RuleType
        <4>1. a[i] \in Line
          BY <2>5
        <4> QED BY Zenon, <4>1 DEF Line
      <3>2. DOMAIN a = 1 .. Len(a) /\ Len(a) \in Nat
        BY <2>5
      <3>3. r = [i \in 1 .. Len(a) |-> a[i].r]
        BY Zenon, <3>2 DEF r
      <3> QED BY <3>1, <3>2, <3>3
    <2>7. q \in Seq(RuleType) /\ Joins(q, k, r, Len(k), Len(a))
      BY Zenon, <2>2, <2>4, <2>6, ConcatFacts
    <2>8. PICK n \in Nat : \E f \in [1 .. n -> S] : Selects(k, s, S, n, f)
      BY Zenon, <2>4
    <2>9. PICK f \in [1 .. n -> S] : Selects(k, s, S, n, f)
      BY Zenon, <2>8
    <2>10. PICK m \in Nat : \E g \in [1 .. m -> T] : Selects(a, pl, T, m, g)
      BY Zenon, <2>5
    <2>11. PICK g \in [1 .. m -> T] : Selects(a, pl, T, m, g)
      BY Zenon, <2>10
    <2>12. /\ q \in Seq(RuleType) /\ Len(q) = n + m
           /\ \A i \in 1 .. n : q[i] = k[i]
           /\ \A i \in 1 .. m : q[n + i] = a[i].r
      <3>1. Len(k) = n /\ Len(a) = m
        BY Zenon, <2>9, <2>11 DEF Selects
      <3> QED BY Zenon, <2>6, <2>7, <3>1 DEF Joins
    <2>13. /\ \A i \in 1 .. n : q[i] = s[f[i]] /\ ~Deletes(pl, q[i])
           /\ \A i \in 1 .. m : q[n + i] = pl[g[i]].r /\ pl[g[i]].op = "-A" /\ pl[g[i]].r.chain = c
           /\ f \in [1 .. n -> DOMAIN s] /\ g \in [1 .. m -> DOMAIN pl]
           /\ \A x \in DOMAIN pl : pl[x].op = "-A" /\ pl[x].r.chain = c => \E i \in 1 .. m : g[i] = x
      <3>1. ASSUME NEW i \in 1 .. n
            PROVE  q[i] = s[f[i]] /\ f[i] \in DOMAIN s /\ ~Deletes(pl, q[i])
        <4>1. f[i] \in S /\ q[i] = s[f[i]]
          BY Zenon, <2>9, <2>12 DEF Selects
        <4> QED BY Zenon, <4>1 DEF S
      <3>2. ASSUME NEW i \in 1 .. m
            PROVE  q[n + i] = pl[g[i]].r /\ g[i] \in DOMAIN pl /\ pl[g[i]].op = "-A" /\ pl[g[i]].r.chain = c
        <4>1. g[i] \in T /\ a[i] = pl[g[i]]
          BY Zenon, <2>11 DEF Selects
        <4>2. q[n + i] = a[i].r
          BY Zenon, <2>12
        <4> QED BY Zenon, <4>1, <4>2 DEF T
      <3>3. ASSUME NEW x \in DOMAIN pl, pl[x].op = "-A", pl[x].r.chain = c
            PROVE  \E i \in 1 .. m : g[i] = x
        BY Zenon, <2>11, <3>3 DEF T, Selects
      <3>4. f \in [1 .. n -> DOMAIN s] /\ g \in [1 .. m -> DOMAIN pl]
        BY Zenon, <2>3, <2>9, <2>11
      <3> QED BY ZenonT(40), <3>1, <3>2, <3>3, <3>4
    <2>14. Restores(q, s, pl, c, n, m, f, g)
      BY Zenon, <2>9, <2>11, <2>12, <2>13 DEF Restores, Selects
    <2> QED BY Zenon, <2>8, <2>10, <2>13, <2>14 DEF s, q

  \* A chain no line names is not changed.
  <1>RestoredUntouched.
    ASSUME NEW pl \in Seq(Line), NEW c \in Chains,
           \A k \in DOMAIN pl : pl[k].r.chain # c
    PROVE  Restored(pl)[c] = chain[c]
    <2> USE <1>RestoredUntouched
    <2> DEFINE s == chain[c]
    <2>1. s \in {Absent} \cup Seq(RuleType) /\ DOMAIN chain = Chains
      BY Zenon DEF TypeInv
    <2>2. CASE s = Absent
      BY Zenon, <2>1, <2>2 DEF Restored
    <2>3. CASE s # Absent
      <3>1. s \in Seq(RuleType)
        BY Zenon, <2>1, <2>3
      <3>2. {i \in DOMAIN s : ~Deletes(pl, s[i])} = DOMAIN s
        <4>1. ASSUME NEW i \in DOMAIN s PROVE ~Deletes(pl, s[i])
          <5>1. s[i].chain = c
            BY Zenon, <2>3 DEF TypeInv
          <5>2. \A k \in DOMAIN pl : pl[k] # [op |-> "-D", r |-> s[i]]
            <6>1. [op |-> "-D", r |-> s[i]].r = s[i]
              BY Zenon
            <6> QED BY Zenon, <5>1, <6>1
          <5> QED BY Zenon, <5>2 DEF Deletes
        <4> QED BY Zenon, <4>1
      <3>3. Kept(c, pl) = s
        BY Zenon, <3>1, <3>2, <1>SubsequenceWhole DEF Kept
      <3>4. {i \in DOMAIN pl : pl[i].op = "-A" /\ pl[i].r.chain = c} = {}
        BY Zenon
      <3>5. Appended(c, pl) = <<>>
        <4>1. Cardinality({}) = 0 /\ 1 .. 0 = {}
          BY <1>Empty
        <4>2. Appended(c, pl) = Subsequence(pl, {})
          BY Zenon, <3>4 DEF Appended
        <4> QED BY <4>1, <4>2 DEF Subsequence
      <3>6. [i \in DOMAIN Appended(c, pl) |-> Appended(c, pl)[i].r] = <<>>
        BY <3>5
      <3>7. Restored(pl)[c] = Kept(c, pl) \o [i \in DOMAIN Appended(c, pl) |-> Appended(c, pl)[i].r]
        BY Zenon, <2>1, <2>3 DEF Restored
      <3>8. Restored(pl)[c] = s \o <<>>
        BY Zenon, <3>3, <3>6, <3>7
      <3> QED BY <3>1, <3>8
    <2> QED BY Zenon, <2>2, <2>3

  <1> QED BY Zenon, <1>RestoredShape, <1>RestoredUntouched DEF RestoredOK

\* r was in chain c and is not deleted by pl, or it is appended.
Remains(c, r, pl) ==
  \/ (\E k \in DOMAIN chain[c] : chain[c][k] = r) /\ ~Deletes(pl, r)
  \/ r.chain = c /\ \E k \in DOMAIN pl : pl[k].op = "-A" /\ pl[k].r = r

\* The rules of a restored chain.
LEMMA RestoredMembers ==
  ASSUME TypeInv, RestoredOK, NEW pl \in Seq(Line), NEW c \in Chains, chain[c] # Absent
  PROVE  /\ Restored(pl)[c] \in Seq(RuleType)
         /\ \A i \in DOMAIN Restored(pl)[c] : Remains(c, Restored(pl)[c][i], pl)
  <1> DEFINE q == Restored(pl)[c]
  <1>1. PICK n \in Nat, m \in Nat : \E f \in [1 .. n -> DOMAIN chain[c]], g \in [1 .. m -> DOMAIN pl] :
           Restores(q, chain[c], pl, c, n, m, f, g)
    BY Zenon DEF RestoredOK
  <1>2. PICK f \in [1 .. n -> DOMAIN chain[c]], g \in [1 .. m -> DOMAIN pl] :
           Restores(q, chain[c], pl, c, n, m, f, g)
    BY Zenon, <1>1
  <1> HIDE DEF q
  <1>3. ASSUME NEW i \in DOMAIN q
        PROVE  Remains(c, q[i], pl)
    <2>1. i \in 1 .. n \/ (i - n \in 1 .. m /\ i = n + (i - n))
      BY <1>2 DEF Restores
    <2>2. CASE i \in 1 .. n
      <3>1. f[i] \in DOMAIN chain[c] /\ q[i] = chain[c][f[i]] /\ ~Deletes(pl, q[i])
        BY Zenon, <1>2, <2>2 DEF Restores
      <3> QED BY Zenon, <3>1 DEF Remains
    <2>3. CASE i - n \in 1 .. m /\ i = n + (i - n)
      <3> DEFINE x == i - n
      <3>1. g[x] \in DOMAIN pl /\ q[n + x] = pl[g[x]].r /\ pl[g[x]].op = "-A" /\ pl[g[x]].r.chain = c
        BY Zenon, <1>2, <2>3 DEF Restores
      <3> HIDE DEF x
      <3>2. i = n + x
        BY Zenon, <2>3 DEF x
      <3> QED BY Zenon, <3>1, <3>2 DEF Remains
    <2> QED BY Zenon, <2>1, <2>2, <2>3
  <1>4. q \in Seq(RuleType)
    BY Zenon, <1>2 DEF Restores
  <1> QED BY Zenon, <1>3, <1>4 DEF q

-----------------------------------------------------------------------------
(* The inductive invariant.                                                *)

Wanted(w) == IF w = "masq" THEN masqRules(conf) ELSE forwardRules(conf)

Jump == Rule(Post, FALSE, Zones, Zones, Postrtg)

\* The lines of a payload after the first n rules of a list R: each rule is appended
\* once, in the order of the list, and no other rule is named.
Follows(pl, R, n) ==
  /\ \A k \in DOMAIN pl : \E j \in 1 .. n : pl[k].r = R[j]
  /\ \A j \in 1 .. n : \E k \in DOMAIN pl : pl[k].op = "-A" /\ pl[k].r = R[j]
  /\ \A k, l \in DOMAIN pl : k < l /\ pl[k].op = "-A" /\ pl[l].op = "-A" =>
       \E a, b \in 1 .. n : a < b /\ pl[k].r = R[a] /\ pl[l].r = R[b]

\* Exists, of any value of the chains.
Has(ch, r) == ch[r.chain] # Absent /\ \E i \in DOMAIN ch[r.chain] : ch[r.chain][i] = r

\* A restore under construction deletes every rule it has looked up so far and appends
\* again, unless the rule is in no chain; nobody but this worker puts it into one.
Built(ch, s, R) ==
  s.pc = "build" =>
    /\ s.i <= Len(R) + 1
    /\ Follows(s.payload, R, s.i - 1)
    /\ \A j \in 1 .. s.i - 1 : Deletes(s.payload, R[j]) \/ ~Has(ch, R[j])

BuildInv(w) == Built(chain, worker[w], Wanted(w))

\* A teardown only deletes, and deletes the jump to flannel's chain.
Torn(ch, s) ==
  s.pc = "teardown" =>
    /\ \A k \in DOMAIN s.payload : s.payload[k].op = "-D"
    /\ s.i > 1 => Deletes(s.payload, Jump) \/ ~Has(ch, Jump) \/ ch[Postrtg] = Absent

TeardownInv == Torn(chain, worker["masq"])

Building == {"build", "sleep", "check"}

OfRun(r, c) == r = hostSNATRule(c) \/ \E j \in 1 .. 7 : r = masqRules(c)[j]

\* POSTROUTING holds the jump only; once this run has cleared flannel's chain, that one
\* holds rules of this run only.
Contents(ch, pc, c) ==
  /\ ch[Post] # Absent => \A i \in DOMAIN ch[Post] : ch[Post][i] = Jump
  /\ pc \in Building /\ ch[Postrtg] # Absent =>
       \A i \in DOMAIN ch[Postrtg] : OfRun(ch[Postrtg][i], c)

ContentInv == Contents(chain, worker["masq"].pc, conf)

Tables == nft = [postrtg |-> nft.postrtg, forward |-> nft.forward]

NftInv ==
  /\ nft # Absent => Tables
  /\ enableNFT /\ main = "setup" => Tables
  /\ enableNFT /\ main = "forward" => Tables /\ nft.postrtg = addMasqRules(conf)
  /\ main = "masq" => ~enableNFT

RulesInv ==
  /\ TypeInv /\ NoDuplicates
  /\ BuildInv("masq") /\ BuildInv("forward") /\ TeardownInv /\ ContentInv

Distinct(s) == \A i, j \in DOMAIN s : s[i] = s[j] => i = j

-----------------------------------------------------------------------------
(* The rule lists.                                                         *)

\* The sets of zones the rules name are different.
LEMMA ZoneFacts ==
  ASSUME NEW c \in Configs
  PROVE  /\ c.sub \in SUBSET Zones /\ c.net \in SUBSET Zones /\ c.sub \subseteq c.net
         /\ "out" \in Zones /\ "out" \notin c.net /\ "mcast" \notin c.net
         /\ c.sub # c.net /\ Zones \ c.net # c.sub /\ Zones \ c.net # c.net /\ Zones # c.net
  BY Zenon, TrafficAssumption

\* The rules of a list, one by one.
LEMMA MasqRules ==
  ASSUME NEW c
  PROVE  /\ Len(masqRules(c)) = 7 /\ DOMAIN masqRules(c) = 1 .. 7
         /\ masqRules(c)[1] = Jump
         /\ masqRules(c)[2] = Rule(Postrtg, TRUE, Zones, Zones, "RETURN")
         /\ masqRules(c)[3] = Rule(Postrtg, FALSE, c.sub, c.net, "RETURN")
         /\ masqRules(c)[4] = Rule(Postrtg, FALSE, c.net, c.sub, "RETURN")
         /\ masqRules(c)[5] = Rule(Postrtg, FALSE, Zones \ c.net, c.sub, "RETURN")
         /\ masqRules(c)[6] = Rule(Postrtg, FALSE, c.net, Zones \ {"mcast"}, "MASQUERADE")
         /\ masqRules(c)[7] = Rule(Postrtg, FALSE, Zones \ c.net, c.net, "MASQUERADE")
  BY DEF masqRules, Jump

\* The jump from POSTROUTING into FLANNEL-POSTRTG.
LEMMA JumpFacts ==
  /\ Jump \in RuleType /\ Jump.chain = Post /\ Jump.target = Postrtg /\ Jump.mark = FALSE
  /\ Jump.src = Zones /\ Jump.dst = Zones
  BY DEF Jump, Rule, RuleType, Chains

\* The rules of a masquerade list are rules.
LEMMA MasqTyped ==
  ASSUME NEW c, c.sub \in SUBSET Zones, c.net \in SUBSET Zones
  PROVE  \A i \in 1 .. 7 : masqRules(c)[i] \in RuleType
  <1> DEFINE R == masqRules(c)
  <1>0. /\ R[1] = Jump
        /\ R[2] = Rule(Postrtg, TRUE, Zones, Zones, "RETURN")
        /\ R[3] = Rule(Postrtg, FALSE, c.sub, c.net, "RETURN")
        /\ R[4] = Rule(Postrtg, FALSE, c.net, c.sub, "RETURN")
        /\ R[5] = Rule(Postrtg, FALSE, Zones \ c.net, c.sub, "RETURN")
        /\ R[6] = Rule(Postrtg, FALSE, c.net, Zones \ {"mcast"}, "MASQUERADE")
        /\ R[7] = Rule(Postrtg, FALSE, Zones \ c.net, c.net, "MASQUERADE")
    BY Zenon, MasqRules
  <1>1. /\ Zones \ c.net \in SUBSET Zones /\ Zones \ {"mcast"} \in SUBSET Zones
        /\ Zones \in SUBSET Zones /\ {Post, Postrtg} \subseteq Chains
        /\ TRUE \in BOOLEAN /\ FALSE \in BOOLEAN
    BY Zenon DEF Chains
  <1> HIDE DEF R
  <1>2. /\ R[1] \in RuleType /\ R[2] \in RuleType /\ R[3] \in RuleType /\ R[4] \in RuleType
        /\ R[5] \in RuleType /\ R[6] \in RuleType /\ R[7] \in RuleType
    BY <1>0, <1>1 DEF Rule, RuleType, Jump
  <1> QED BY <1>2 DEF R

\* No rule of a masquerade list is listed twice, or is the SNAT rule of the mesh.
LEMMA MasqDistinct ==
  ASSUME NEW c \in Configs
  PROVE  /\ \A i, j \in 1 .. 7 : masqRules(c)[i] = masqRules(c)[j] => i = j
         /\ \A i \in 1 .. 7 : /\ masqRules(c)[i] # hostSNATRule(c)
                              /\ masqRules(c)[i].chain \in {Post, Postrtg}
                              /\ masqRules(c)[i].chain = Post => i = 1
                              /\ masqRules(c)[i] \in RuleType
  <1> DEFINE R == masqRules(c)
  <1>0. /\ R[1] = Jump
        /\ R[2] = Rule(Postrtg, TRUE, Zones, Zones, "RETURN")
        /\ R[3] = Rule(Postrtg, FALSE, c.sub, c.net, "RETURN")
        /\ R[4] = Rule(Postrtg, FALSE, c.net, c.sub, "RETURN")
        /\ R[5] = Rule(Postrtg, FALSE, Zones \ c.net, c.sub, "RETURN")
        /\ R[6] = Rule(Postrtg, FALSE, c.net, Zones \ {"mcast"}, "MASQUERADE")
        /\ R[7] = Rule(Postrtg, FALSE, Zones \ c.net, c.net, "MASQUERADE")
    BY Zenon, MasqRules
  <1>1. /\ R[1].chain = Post
        /\ R[2].chain = Postrtg /\ R[2].mark = TRUE /\ R[2].target = "RETURN"
        /\ R[3].chain = Postrtg /\ R[3].mark = FALSE /\ R[3].target = "RETURN" /\ R[3].src = c.sub
        /\ R[4].chain = Postrtg /\ R[4].mark = FALSE /\ R[4].target = "RETURN" /\ R[4].src = c.net
        /\ R[5].chain = Postrtg /\ R[5].mark = FALSE /\ R[5].target = "RETURN"
        /\ R[5].src = Zones \ c.net
        /\ R[6].chain = Postrtg /\ R[6].target = "MASQUERADE" /\ R[6].src = c.net
        /\ R[7].chain = Postrtg /\ R[7].target = "MASQUERADE" /\ R[7].src = Zones \ c.net
        /\ hostSNATRule(c).chain = Postrtg /\ hostSNATRule(c).target = "SNAT"
    <2> HIDE DEF R
    <2> QED BY <1>0 DEF Rule, Jump, hostSNATRule
  <1>2. c.sub # c.net /\ Zones \ c.net # c.sub /\ Zones \ c.net # c.net
    BY Zenon, ZoneFacts
  <1>3. \A i \in 1 .. 7 : R[i] \in RuleType
    <2>1. c.sub \in SUBSET Zones /\ c.net \in SUBSET Zones
      BY Zenon, ZoneFacts
    <2> QED BY Zenon, <2>1, MasqTyped
  <1> HIDE DEF R
  <1>4. \A i, j \in 1 .. 7 : R[i] = R[j] => i = j
    BY <1>1, <1>2 DEF Post, Postrtg
  <1>5. \A i \in 1 .. 7 : R[i] # hostSNATRule(c) /\ R[i].chain \in {Post, Postrtg}
                          /\ (R[i].chain = Post => i = 1)
    BY <1>1 DEF Post, Postrtg
  <1> QED BY Zenon, <1>3, <1>4, <1>5 DEF R

-----------------------------------------------------------------------------
(* What a worker wants, and a restore without duplicates.                  *)

ChainsOf(w) == IF w = "masq" THEN {Post, Postrtg} ELSE {Forward, Fwd}

\* What the proofs use of the rules a worker looks after.
LEMMA WantedFacts ==
  ASSUME TypeInv, NEW w \in {"masq", "forward"}
  PROVE  /\ Len(Wanted(w)) \in {3, 7} /\ DOMAIN Wanted(w) = 1 .. Len(Wanted(w))
         /\ \A i, j \in 1 .. Len(Wanted(w)) : Wanted(w)[i] = Wanted(w)[j] => i = j
         /\ \A i \in 1 .. Len(Wanted(w)) :
              /\ Wanted(w)[i] \in RuleType /\ Wanted(w)[i].chain \in ChainsOf(w)
              /\ Wanted(w)[i] # hostSNATRule(conf) /\ OwnChain(Wanted(w)[i]) = ChainOf(w)
  \* The three rules of forwardRules.
  <1>ForwardRules.
    ASSUME NEW c
    PROVE  /\ Len(forwardRules(c)) = 3 /\ DOMAIN forwardRules(c) = 1 .. 3
           /\ forwardRules(c)[1] = Rule(Forward, FALSE, Zones, Zones, Fwd)
           /\ forwardRules(c)[2] = Rule(Fwd, FALSE, c.net, Zones, "ACCEPT")
           /\ forwardRules(c)[3] = Rule(Fwd, FALSE, Zones, c.net, "ACCEPT")
    BY <1>ForwardRules DEF forwardRules

  \* Every rule the code writes has the type of a rule.
  <1>RuleTyped.
    ASSUME NEW c \in Chains, NEW k \in BOOLEAN, NEW s \in SUBSET Zones, NEW d \in SUBSET Zones,
           NEW t \in {"RETURN", "MASQUERADE", "SNAT", "ACCEPT", Postrtg, Fwd}
    PROVE  Rule(c, k, s, d, t) \in RuleType
    BY Zenon, <1>RuleTyped DEF Rule, RuleType

  \* The same for the forward rules.
  <1>ForwardDistinct.
    ASSUME NEW c \in Configs
    PROVE  /\ \A i, j \in 1 .. 3 : forwardRules(c)[i] = forwardRules(c)[j] => i = j
           /\ \A i \in 1 .. 3 : /\ forwardRules(c)[i].chain \in {Forward, Fwd}
                                /\ forwardRules(c)[i] \in RuleType
    <2> USE <1>ForwardDistinct
    <2> DEFINE R == forwardRules(c)
    <2>0. /\ R[1] = Rule(Forward, FALSE, Zones, Zones, Fwd)
          /\ R[2] = Rule(Fwd, FALSE, c.net, Zones, "ACCEPT")
          /\ R[3] = Rule(Fwd, FALSE, Zones, c.net, "ACCEPT")
      BY Zenon, <1>ForwardRules
    <2>1. /\ R[1].chain = Forward
          /\ R[2].chain = Fwd /\ R[2].src = c.net
          /\ R[3].chain = Fwd /\ R[3].src = Zones
      <3> HIDE DEF R
      <3> QED BY <2>0 DEF Rule
    <2>2. /\ c.net \in SUBSET Zones /\ Zones \in SUBSET Zones /\ {Forward, Fwd} \subseteq Chains
          /\ FALSE \in BOOLEAN /\ c.net # Zones
      BY Zenon, ZoneFacts DEF Chains
    <2>3. R[1] \in RuleType /\ R[2] \in RuleType /\ R[3] \in RuleType
      <3>1. R[1] \in RuleType
        BY ZenonT(40), <2>0, <2>2, <1>RuleTyped
      <3>2. R[2] \in RuleType
        BY ZenonT(40), <2>0, <2>2, <1>RuleTyped
      <3>3. R[3] \in RuleType
        BY ZenonT(40), <2>0, <2>2, <1>RuleTyped
      <3> QED BY Zenon, <3>1, <3>2, <3>3
    <2> HIDE DEF R
    <2> QED BY <2>1, <2>2, <2>3 DEF Forward, Fwd, R

  <1>0. conf \in Configs
    BY Zenon DEF TypeInv
  <1>1. CASE w = "masq"
    <2> DEFINE R == masqRules(conf)
    <2>1. Wanted(w) = R /\ ChainsOf(w) = {Post, Postrtg} /\ ChainOf(w) = Postrtg
      BY Zenon, <1>1 DEF Wanted, ChainsOf, ChainOf
    <2>2. Len(R) = 7 /\ DOMAIN R = 1 .. 7 /\ R[1] = Jump
      BY Zenon, MasqRules
    <2>3. /\ \A i, j \in 1 .. 7 : R[i] = R[j] => i = j
          /\ \A i \in 1 .. 7 : R[i] # hostSNATRule(conf) /\ R[i].chain \in {Post, Postrtg}
                               /\ R[i] \in RuleType /\ (R[i].chain = Post => i = 1)
      BY Zenon, <1>0, MasqDistinct
    <2>4. Jump.target = Postrtg /\ Jump.chain = Post /\ Post \notin Own /\ Postrtg \in Own
      BY DEF Jump, Rule, Own, Post, Postrtg, Fwd
    <2> HIDE DEF R
    <2>5. ASSUME NEW i \in 1 .. 7 PROVE OwnChain(R[i]) = Postrtg
      BY Zenon, <2>2, <2>3, <2>4 DEF OwnChain
    <2> QED BY Zenon, <2>1, <2>2, <2>3, <2>5
  <1>2. CASE w = "forward"
    <2> DEFINE R == forwardRules(conf)
    <2>0. w # "masq"
      BY <1>2
    <2>1. Wanted(w) = R /\ ChainsOf(w) = {Forward, Fwd} /\ ChainOf(w) = Fwd
      BY Zenon, <2>0 DEF Wanted, ChainsOf, ChainOf
    <2>2. /\ Len(R) = 3 /\ DOMAIN R = 1 .. 3
          /\ R[1] = Rule(Forward, FALSE, Zones, Zones, Fwd)
          /\ R[2] = Rule(Fwd, FALSE, conf.net, Zones, "ACCEPT")
          /\ R[3] = Rule(Fwd, FALSE, Zones, conf.net, "ACCEPT")
      BY Zenon, <1>ForwardRules
    <2>3. /\ \A i, j \in 1 .. 3 : R[i] = R[j] => i = j
          /\ \A i \in 1 .. 3 : R[i].chain \in {Forward, Fwd} /\ R[i] \in RuleType
      BY Zenon, <1>0, <1>ForwardDistinct
    <2> HIDE DEF R
    <2>4. /\ R[1].chain = Forward /\ R[1].target = Fwd /\ R[2].chain = Fwd /\ R[3].chain = Fwd
          /\ hostSNATRule(conf).chain = Postrtg
      BY <2>2 DEF Rule, hostSNATRule
    <2>5. Forward \notin Own /\ Fwd \in Own /\ Postrtg \notin {Forward, Fwd}
      BY DEF Own, Forward, Postrtg, Fwd
    <2>6. OwnChain(R[1]) = Fwd /\ OwnChain(R[2]) = Fwd /\ OwnChain(R[3]) = Fwd
      BY Zenon, <2>4, <2>5 DEF OwnChain
    <2>7. \A i \in 1 .. 3 : OwnChain(R[i]) = Fwd
      BY <2>6
    <2>8. \A i \in 1 .. 3 : R[i] # hostSNATRule(conf)
      BY Zenon, <2>3, <2>4, <2>5
    <2> QED BY Zenon, <2>1, <2>2, <2>3, <2>7, <2>8
  <1> QED BY Zenon, <1>1, <1>2

Increasing(f, n) == \A i, j \in 1 .. n : i < j => f[i] < f[j]

\* If a payload appends each rule once, and deletes it first where it is, a restore puts
\* no rule into a chain twice.
LEMMA RestoredDistinct ==
  ASSUME TypeInv, RestoredOK, NEW pl \in Seq(Line), NEW c \in Chains, chain[c] # Absent,
         Distinct(chain[c]),
         \A k, l \in DOMAIN pl : pl[k].op = "-A" /\ pl[l].op = "-A" /\ pl[k].r = pl[l].r => k = l,
         \A k \in DOMAIN pl : pl[k].op = "-A" => Deletes(pl, pl[k].r) \/ ~Has(chain, pl[k].r)
  PROVE  Distinct(Restored(pl)[c])
  \* An increasing function on an interval takes no value twice.
  <1>IncreasingInjective.
    ASSUME NEW n \in Nat, NEW S, S \in SUBSET Nat, NEW f \in [1 .. n -> S], Increasing(f, n)
    PROVE  \A i, j \in 1 .. n : f[i] = f[j] => i = j
    <2> USE <1>IncreasingInjective
    <2> SUFFICES ASSUME NEW i \in 1 .. n, NEW j \in 1 .. n, f[i] = f[j] PROVE i = j
      BY Zenon
    <2>1. f[i] \in Nat /\ f[j] \in Nat
      BY Zenon
    <2>2. ~(f[i] < f[j]) /\ ~(f[j] < f[i])
      BY <2>1
    <2>3. ~(i < j) /\ ~(j < i)
      BY Zenon, <2>2 DEF Increasing
    <2> QED BY <2>3

  \* A position of a concatenation is one of the first part or of the second.
  <1>Halves.
    ASSUME NEW n \in Nat, NEW m \in Nat, NEW i \in 1 .. n + m
    PROVE  i \in Nat /\ (i \in 1 .. n \/ (i - n \in 1 .. m /\ n + (i - n) = i))
    BY <1>Halves

  <1> DEFINE q == Restored(pl)[c]
  <1>1. PICK n \in Nat, m \in Nat : \E f \in [1 .. n -> DOMAIN chain[c]], g \in [1 .. m -> DOMAIN pl] :
           Restores(q, chain[c], pl, c, n, m, f, g)
    BY Zenon DEF RestoredOK
  <1>2. PICK f \in [1 .. n -> DOMAIN chain[c]], g \in [1 .. m -> DOMAIN pl] :
           Restores(q, chain[c], pl, c, n, m, f, g)
    BY Zenon, <1>1
  <1> HIDE DEF q
  <1>3. /\ \A i \in 1 .. n : f[i] \in DOMAIN chain[c] /\ q[i] = chain[c][f[i]]
                             /\ ~Deletes(pl, q[i])
        /\ \A i \in 1 .. m : g[i] \in DOMAIN pl /\ q[n + i] = pl[g[i]].r
                             /\ pl[g[i]].op = "-A" /\ pl[g[i]].r.chain = c
    BY Zenon, <1>2 DEF Restores
  <1>4. /\ \A i, j \in 1 .. n : f[i] = f[j] => i = j
        /\ \A i, j \in 1 .. m : g[i] = g[j] => i = j
    <2>1. DOMAIN chain[c] \in SUBSET Nat /\ DOMAIN pl \in SUBSET Nat
      <3>1. chain[c] \in Seq(RuleType)
        BY Zenon DEF TypeInv
      <3> QED BY <3>1
    <2>2. /\ \A i, j \in 1 .. n : i < j => f[i] < f[j]
          /\ \A i, j \in 1 .. m : i < j => g[i] < g[j]
      BY Zenon, <1>2 DEF Restores
    <2>3. Increasing(f, n) /\ Increasing(g, m)
      BY Zenon, <2>2 DEF Increasing
    <2> DEFINE S == DOMAIN chain[c]  T == DOMAIN pl
    <2>0. S \in SUBSET Nat /\ T \in SUBSET Nat /\ f \in [1 .. n -> S] /\ g \in [1 .. m -> T]
      BY Zenon, <2>1
    <2> HIDE DEF S, T
    <2>4. \A i, j \in 1 .. n : f[i] = f[j] => i = j
      BY Zenon, <2>0, <2>3, <1>IncreasingInjective
    <2>5. \A i, j \in 1 .. m : g[i] = g[j] => i = j
      BY Zenon, <2>0, <2>3, <1>IncreasingInjective
    <2> QED BY Zenon, <2>4, <2>5
  <1>5. ASSUME NEW i \in 1 .. n, NEW j \in 1 .. n, q[i] = q[j] PROVE i = j
    <2>1. /\ f[i] \in DOMAIN chain[c] /\ f[j] \in DOMAIN chain[c]
          /\ chain[c][f[i]] = chain[c][f[j]]
      BY Zenon, <1>3, <1>5
    <2>2. f[i] = f[j]
      BY Zenon, <2>1 DEF Distinct
    <2> QED BY Zenon, <1>4, <2>2
  <1>6. ASSUME NEW i \in 1 .. m, NEW j \in 1 .. m, q[n + i] = q[n + j] PROVE i = j
    <2>1. /\ g[i] \in DOMAIN pl /\ pl[g[i]].op = "-A" /\ pl[g[i]].r = q[n + i]
          /\ g[j] \in DOMAIN pl /\ pl[g[j]].op = "-A" /\ pl[g[j]].r = q[n + j]
      BY Zenon, <1>3
    <2>2. g[i] = g[j]
      BY Zenon, <1>6, <2>1
    <2> QED BY Zenon, <1>4, <2>2
  <1>7. ASSUME NEW i \in 1 .. n, NEW j \in 1 .. m PROVE q[i] # q[n + j]
    <2>1. SUFFICES ASSUME q[i] = q[n + j] PROVE FALSE
      BY Zenon
    <2>2. /\ pl[g[j]].r = chain[c][f[i]] /\ pl[g[j]].r.chain = c /\ f[i] \in DOMAIN chain[c]
          /\ g[j] \in DOMAIN pl /\ pl[g[j]].op = "-A"
          /\ ~Deletes(pl, pl[g[j]].r)
      BY Zenon, <1>3, <2>1
    <2>3. Has(chain, pl[g[j]].r)
      BY Zenon, <2>2 DEF Has
    <2> QED BY Zenon, <2>2, <2>3 DEF Deletes
  <1>8. q \in Seq(RuleType) /\ Len(q) = n + m
    BY Zenon, <1>2 DEF Restores
  <1>0. DOMAIN q = 1 .. n + m
    BY <1>8
  <1>9. ASSUME NEW i \in DOMAIN q, NEW j \in DOMAIN q, q[i] = q[j] PROVE i = j
    <2>0. i \in 1 .. n + m /\ j \in 1 .. n + m
      BY Zenon, <1>0
    <2>1. /\ i \in 1 .. n \/ (i - n \in 1 .. m /\ n + (i - n) = i)
          /\ j \in 1 .. n \/ (j - n \in 1 .. m /\ n + (j - n) = j)
          /\ i \in Nat /\ j \in Nat
      BY Zenon, <2>0, <1>Halves
    <2>2. CASE i \in 1 .. n /\ j \in 1 .. n
      BY Zenon, <1>5, <1>9, <2>2
    <2>3. CASE i \in 1 .. n /\ j \notin 1 .. n
      BY Zenon, <1>7, <1>9, <2>1, <2>3
    <2>4. CASE i \notin 1 .. n /\ j \in 1 .. n
      BY Zenon, <1>7, <1>9, <2>1, <2>4
    <2>5. CASE i \notin 1 .. n /\ j \notin 1 .. n
      <3>1. i - n = j - n
        BY Zenon, <1>6, <1>9, <2>1, <2>5
      <3> QED BY <2>1, <3>1
    <2> QED BY Zenon, <2>2, <2>3, <2>4, <2>5
  <1> QED BY Zenon, <1>9 DEF Distinct, q

-----------------------------------------------------------------------------
(* The chains and the workers apart.                                       *)

ChainInv ==
  /\ chain \in [Chains -> {Absent} \cup Seq(RuleType)]
  /\ \A c \in Chains : chain[c] # Absent =>
       Distinct(chain[c]) /\ \A i \in DOMAIN chain[c] : chain[c][i].chain = c

WorkerInv ==
  /\ conf \in Configs /\ prev \in Configs \cup {Absent}
  /\ worker \in [{"masq", "forward"} -> [pc : Pcs, i : Nat \ {0}, payload : Seq(Line)]]
  /\ worker["forward"].pc # "teardown"

\* No chain gets a rule that it did not have.
Shrinks ==
  \A c \in Chains : chain'[c] # Absent =>
    \A i \in DOMAIN chain'[c] : chain[c] # Absent /\ \E k \in DOMAIN chain[c] : chain[c][k] = chain'[c][i]

\* The invariant of the chains and that of the workers make up the type invariant.
LEMMA TypeParts ==
  /\ TypeInv /\ NoDuplicates <=> ChainInv /\ WorkerInv
  /\ (TypeInv /\ NoDuplicates)' <=> (ChainInv /\ WorkerInv)'
  <1>1. ASSUME NEW c \in [Chains -> {Absent} \cup Seq(RuleType)]
        PROVE  DOMAIN c = Chains
    BY Zenon
  <1>2. TypeInv /\ NoDuplicates <=> ChainInv /\ WorkerInv
    BY Zenon, <1>1 DEF TypeInv, NoDuplicates, ChainInv, WorkerInv, Distinct
  <1>3. (TypeInv /\ NoDuplicates)' <=> (ChainInv /\ WorkerInv)'
    BY Zenon, <1>1 DEF TypeInv, NoDuplicates, ChainInv, WorkerInv, Distinct
  <1> QED BY Zenon, <1>2, <1>3

-----------------------------------------------------------------------------
(* Steps that put no rule into a chain.                                    *)

\* c has, in the next state, only rules that it has now, and none of them twice.
Sublist(c) ==
  /\ chain'[c] \in Seq(RuleType) /\ Distinct(chain'[c])
  /\ \A i \in DOMAIN chain'[c] :
       chain[c] # Absent /\ \E k \in DOMAIN chain[c] : chain[c][k] = chain'[c][i]

\* A step that leaves in each chain some of its rules.
LEMMA ChainsShrink ==
  ASSUME ChainInv, chain' = [c \in Chains |-> chain'[c]],
         \A c \in Chains : chain'[c] = Absent \/ Sublist(c)
  PROVE  ChainInv' /\ Shrinks
  <1>1. chain' \in [Chains -> {Absent} \cup Seq(RuleType)]
    BY Zenon DEF Sublist
  <1>2. ASSUME NEW c \in Chains, chain'[c] # Absent
        PROVE  Distinct(chain'[c]) /\ \A i \in DOMAIN chain'[c] : chain'[c][i].chain = c
    <2>1. ASSUME NEW i \in DOMAIN chain'[c] PROVE chain'[c][i].chain = c
      <3>1. PICK k \in DOMAIN chain[c] : chain[c] # Absent /\ chain[c][k] = chain'[c][i]
        BY Zenon, <1>2 DEF Sublist
      <3>2. chain[c][k].chain = c
        BY Zenon, <3>1 DEF ChainInv
      <3> QED BY Zenon, <3>1, <3>2
    <2>2. Sublist(c)
      BY Zenon, <1>2
    <2> QED BY Zenon, <2>1, <2>2 DEF Sublist
  <1>3. ChainInv'
    BY Zenon, <1>1, <1>2 DEF ChainInv, Distinct
  <1> QED BY Zenon, <1>3 DEF Shrinks, Sublist

\* A step that empties or deletes some chains.
LEMMA ChainsCut ==
  ASSUME ChainInv, chain' = [c \in Chains |-> chain'[c]],
         \A c \in Chains : chain'[c] \in {Absent, <<>>, chain[c]}
  PROVE  ChainInv' /\ Shrinks
  <1>0. <<>> \in Seq(RuleType) /\ DOMAIN <<>> = {}
    OBVIOUS
  <1>1. ASSUME NEW c \in Chains, chain'[c] # Absent PROVE Sublist(c)
    <2>1. CASE chain'[c] = <<>>
      BY Zenon, <1>0, <2>1 DEF Distinct, Sublist
    <2>2. CASE chain'[c] = chain[c]
      BY Zenon, <1>1, <2>2 DEF ChainInv, Sublist
    <2> QED BY Zenon, <1>1, <2>1, <2>2
  <1> QED BY Zenon, <1>1, ChainsShrink

\* q has some of the elements of s, at the positions f.
Picks(q, s, f) ==
  \A j, k \in DOMAIN q : q[j] = s[f[j]] /\ (f[j] = f[k] => j = k)

\* The rules of a chain without one of them.
LEMMA WithoutAtFacts ==
  ASSUME NEW X, NEW s \in Seq(X), NEW i \in DOMAIN s
  PROVE  /\ WithoutAt(s, i) \in Seq(X)
         /\ \E f \in [DOMAIN WithoutAt(s, i) -> DOMAIN s] : Picks(WithoutAt(s, i), s, f)
  <1> DEFINE q == WithoutAt(s, i)
             f == [j \in 1 .. Len(s) - 1 |-> IF j < i THEN j ELSE j + 1]
             a == SubSeq(s, 1, i - 1)
             b == SubSeq(s, i + 1, Len(s))
  <1>1. /\ Len(s) \in Nat /\ DOMAIN s = 1 .. Len(s) /\ i \in 1 .. Len(s)
    OBVIOUS
  <1>2. /\ a \in Seq(X) /\ Len(a) = i - 1 /\ \A j \in 1 .. i - 1 : a[j] = s[j]
    BY <1>1
  <1>3. /\ b \in Seq(X) /\ Len(b) = Len(s) - i /\ \A j \in 1 .. Len(s) - i : b[j] = s[i + j]
    <2>1. b \in Seq(X) /\ Len(b) = Len(s) - i
      BY <1>1
    <2>2. ASSUME NEW j \in 1 .. Len(s) - i PROVE b[j] = s[i + j]
      BY <1>1, <2>2
    <2> QED BY Zenon, <2>1, <2>2
  <1>4. q = a \o b
    BY Zenon DEF WithoutAt
  <1> HIDE DEF q, a, b
  <1>5. q \in Seq(X) /\ Joins(q, a, b, Len(a), Len(b))
    BY Zenon, <1>2, <1>3, <1>4, ConcatFacts
  <1>6. /\ Len(q) = (i - 1) + (Len(s) - i) /\ \A j \in 1 .. i - 1 : q[j] = s[j]
        /\ \A j \in 1 .. Len(s) - i : q[(i - 1) + j] = s[i + j]
    BY Zenon, <1>2, <1>3, <1>5 DEF Joins
  <1>7. Len(q) = Len(s) - 1 /\ DOMAIN q = 1 .. Len(s) - 1
    BY <1>1, <1>5, <1>6
  <1>8. ASSUME NEW j \in 1 .. Len(s) - 1
        PROVE  q[j] = s[IF j < i THEN j ELSE j + 1]
    <2>1. CASE j < i
      BY <1>1, <1>6, <2>1
    <2>2. CASE ~(j < i)
      <3> DEFINE k == (j - i) + 1
      <3>1. k \in 1 .. Len(s) - i /\ (i - 1) + k = j /\ i + k = j + 1
        BY <1>1, <2>2
      <3> HIDE DEF k
      <3>2. q[(i - 1) + k] = s[i + k]
        BY Zenon, <1>6, <3>1
      <3> QED BY Zenon, <2>2, <3>1, <3>2
    <2> QED BY Zenon, <2>1, <2>2
  <1>9. f \in [1 .. Len(s) - 1 -> 1 .. Len(s)]
        /\ \A j, k \in 1 .. Len(s) - 1 : f[j] = f[k] => j = k
    BY <1>1
  <1>10. \A j \in 1 .. Len(s) - 1 : q[j] = s[f[j]]
    BY Zenon, <1>8
  <1> HIDE DEF f
  <1>11. f \in [DOMAIN q -> DOMAIN s] /\ Picks(q, s, f)
    BY Zenon, <1>1, <1>7, <1>9, <1>10 DEF Picks
  <1> QED BY Zenon, <1>5, <1>11 DEF q

-----------------------------------------------------------------------------
(* What a step that gives a worker nothing new leaves true.                *)

\* No rule the worker looks after appears in a chain.
NoneNew(w) ==
  \A r \in RuleType :
    r.chain \in ChainsOf(w) /\ r # hostSNATRule(conf) /\ Has(chain', r) => Has(chain, r)

\* Where chains only shrink, no rule appears.
LEMMA ShrinksNoneNew ==
  ASSUME Shrinks
  PROVE  /\ \A r \in RuleType : Has(chain', r) => Has(chain, r)
         /\ NoneNew("masq") /\ NoneNew("forward")
  <1>1. ASSUME NEW r \in RuleType, Has(chain', r) PROVE Has(chain, r)
    <2>1. r.chain \in Chains
      BY Zenon DEF RuleType
    <2>2. chain'[r.chain] # Absent /\ \E i \in DOMAIN chain'[r.chain] : chain'[r.chain][i] = r
      BY Zenon, <1>1 DEF Has
    <2>3. PICK i \in DOMAIN chain'[r.chain] : chain'[r.chain][i] = r
      BY Zenon, <2>2
    <2>4. chain[r.chain] # Absent /\ \E k \in DOMAIN chain[r.chain] : chain[r.chain][k] = chain'[r.chain][i]
      BY Zenon, <2>1, <2>2 DEF Shrinks
    <2> QED BY Zenon, <2>3, <2>4 DEF Has
  <1> QED BY Zenon, <1>1 DEF NoneNew

\* What a worker knows of the chains remains true while it does not move and none of its
\* rules appears.
LEMMA BuildFrame ==
  ASSUME TypeInv, NEW w \in {"masq", "forward"}, BuildInv(w), NoneNew(w),
         worker'[w] = worker[w], conf' = conf
  PROVE  BuildInv(w)'
  <1> DEFINE R == Wanted(w)
             s == worker[w]
  <1>1. Wanted(w)' = R /\ worker'[w] = s
    BY Zenon DEF Wanted
  <1>2. SUFFICES Built(chain', s, R)
    BY Zenon, <1>1 DEF BuildInv
  <1>3. s.i \in Nat \ {0} /\ Len(R) \in {3, 7}
    BY Zenon, WantedFacts DEF TypeInv
  <1>4. SUFFICES ASSUME s.pc = "build",
                        s.i <= Len(R) + 1, Follows(s.payload, R, s.i - 1),
                        \A j \in 1 .. s.i - 1 : Deletes(s.payload, R[j]) \/ ~Has(chain, R[j]),
                        NEW j \in 1 .. s.i - 1
                 PROVE  Deletes(s.payload, R[j]) \/ ~Has(chain', R[j])
    BY Zenon DEF BuildInv, Built
  <1>5. j \in 1 .. Len(R)
    <2> HIDE DEF R, s
    <2> QED BY <1>3, <1>4
  <1>6. R[j] \in RuleType /\ R[j].chain \in ChainsOf(w) /\ R[j] # hostSNATRule(conf)
    BY Zenon, <1>5, WantedFacts
  <1> QED BY Zenon, <1>4, <1>6 DEF NoneNew

\* The same for a teardown.
LEMMA TeardownFrame ==
  ASSUME TeardownInv, worker'["masq"] = worker["masq"], Has(chain', Jump) => Has(chain, Jump),
         chain[Postrtg] = Absent => chain'[Postrtg] = Absent
  PROVE  TeardownInv'
  BY Zenon DEF TeardownInv, Torn

\* POSTROUTING and flannel's chain hold what they may while they only shrink.
LEMMA ContentFrame ==
  ASSUME ContentInv, Shrinks, conf' = conf,
         \/ worker'["masq"].pc \in Building => worker["masq"].pc \in Building
         \/ chain'[Postrtg] \in {<<>>, Absent}
  PROVE  ContentInv'
  <1>0. Post \in Chains /\ Postrtg \in Chains
    BY Zenon DEF Chains
  <1>. DOMAIN <<>> = {}
    OBVIOUS
  <1>1. ASSUME chain'[Post] # Absent, NEW i \in DOMAIN chain'[Post] PROVE chain'[Post][i] = Jump
    <2>1. chain[Post] # Absent /\ \E k \in DOMAIN chain[Post] : chain[Post][k] = chain'[Post][i]
      BY Zenon, <1>0, <1>1 DEF Shrinks
    <2> QED BY Zenon, <2>1 DEF ContentInv, Contents
  <1>2. ASSUME worker'["masq"].pc \in Building, chain'[Postrtg] # Absent,
               NEW i \in DOMAIN chain'[Postrtg]
        PROVE  OfRun(chain'[Postrtg][i], conf)
    <2>1. chain[Postrtg] # Absent
          /\ \E k \in DOMAIN chain[Postrtg] : chain[Postrtg][k] = chain'[Postrtg][i]
      BY Zenon, <1>0, <1>2 DEF Shrinks
    <2>2. worker["masq"].pc \in Building
      BY Zenon, <1>0, <1>2
    <2> QED BY Zenon, <2>1, <2>2 DEF ContentInv, Contents
  <1> QED BY Zenon, <1>1, <1>2 DEF ContentInv, Contents

-----------------------------------------------------------------------------
(* Payloads.                                                               *)

\* q has the elements of p and then x, at position l.
Extended(q, p, x, l) ==
  /\ \A k \in DOMAIN q : (k \in DOMAIN p /\ q[k] = p[k]) \/ k = l
  /\ \A k \in DOMAIN p : k \in DOMAIN q /\ q[k] = p[k] /\ k < l /\ ~(l < k)
  /\ l \in DOMAIN q /\ q[l] = x /\ ~(l < l)

\* Follows, with the rules that may be deleted and those that must be appended apart.
Leads(pl, R, N, M) ==
  /\ \A k \in DOMAIN pl : \E j \in M : pl[k].r = R[j]
  /\ \A k \in DOMAIN pl : pl[k].op = "-A" => \E j \in N : pl[k].r = R[j]
  /\ \A j \in N : \E k \in DOMAIN pl : pl[k].op = "-A" /\ pl[k].r = R[j]
  /\ \A k, l \in DOMAIN pl : k < l /\ pl[k].op = "-A" /\ pl[l].op = "-A" =>
       \E a, b \in N : a < b /\ pl[k].r = R[a] /\ pl[l].r = R[b]

-----------------------------------------------------------------------------
(* Steps of a worker.                                                      *)

States == [pc : Pcs, i : Nat \ {0}, payload : Seq(Line)]

\* The rules a worker goes through.
LEMMA RulesOfFacts ==
  ASSUME TypeInv, NEW w \in {"masq", "forward"}
  PROVE  /\ worker[w].pc # "teardown" => RulesOf(w) = Wanted(w)
         /\ worker[w].pc = "teardown" => /\ w = "masq" /\ Len(RulesOf(w)) = 7 /\ RulesOf(w)[1] = Jump
                                         /\ \A i \in 1 .. 7 : RulesOf(w)[i] \in RuleType
  <1>1. ASSUME worker[w].pc # "teardown" PROVE RulesOf(w) = Wanted(w)
    BY Zenon, <1>1 DEF RulesOf, Wanted
  <1>2. ASSUME worker[w].pc = "teardown"
        PROVE  /\ w = "masq" /\ Len(RulesOf(w)) = 7 /\ RulesOf(w)[1] = Jump
               /\ \A i \in 1 .. 7 : RulesOf(w)[i] \in RuleType
    <2>1. w = "masq"
      BY Zenon, <1>2 DEF TypeInv
    <2>2. RulesOf(w) = masqRules(prevConfig)
      BY Zenon, <1>2, <2>1 DEF RulesOf
    <2>3. prevConfig.sub \in SUBSET Zones /\ prevConfig.net \in SUBSET Zones
      <3>1. CASE prev = Absent
        BY <3>1 DEF prevConfig
      <3>2. CASE prev # Absent
        <4>1. prev \in Configs /\ prevConfig = prev
          BY Zenon, <3>2 DEF prevConfig, TypeInv
        <4> QED BY Zenon, <4>1, ZoneFacts
      <3> QED BY Zenon, <3>1, <3>2
    <2> HIDE DEF prevConfig
    <2>4. \A i \in 1 .. 7 : masqRules(prevConfig)[i] \in RuleType
      BY Zenon, <2>3, MasqTyped
    <2>5. Len(masqRules(prevConfig)) = 7 /\ masqRules(prevConfig)[1] = Jump
      BY Zenon, MasqRules
    <2> QED BY Zenon, <2>1, <2>2, <2>4, <2>5
  <1> QED BY Zenon, <1>1, <1>2

\* A step of one worker.
LEMMA Moved ==
  ASSUME WorkerInv, NEW w \in {"masq", "forward"}, NEW s \in States, Move(w, s),
         w = "forward" => s.pc # "teardown", conf' = conf, prev' = prev
  PROVE  /\ WorkerInv' /\ worker'[w] = s
         /\ \A v \in {"masq", "forward"} : v # w => worker'[v] = worker[v]
  <1>1. worker \in [{"masq", "forward"} -> States] /\ worker' = [worker EXCEPT ![w] = s]
    BY Zenon DEF WorkerInv, States, Move
  <1>2. /\ worker'[w] = s /\ worker' \in [{"masq", "forward"} -> States]
        /\ \A v \in {"masq", "forward"} : v # w => worker'[v] = worker[v]
    BY Zenon, <1>1
  <1>3. worker'["forward"].pc # "teardown"
    BY Zenon, <1>2 DEF WorkerInv
  <1> QED BY Zenon, <1>2, <1>3 DEF WorkerInv, States

\* A state of a worker and its fields.
LEMMA AtFacts ==
  ASSUME NEW pc \in Pcs
  PROVE  /\ At(pc, 1, <<>>) \in States /\ At(pc, 1, <<>>).pc = pc
         /\ At(pc, 1, <<>>).i = 1 /\ At(pc, 1, <<>>).payload = <<>>
  BY DEF At, States

\* The parts of the invariant together.
LEMMA RulesParts ==
  /\ RulesInv => ChainInv /\ WorkerInv /\ TypeInv /\ NoDuplicates
  /\ (ChainInv /\ WorkerInv /\ BuildInv("masq") /\ BuildInv("forward") /\ TeardownInv /\ ContentInv)'
       => RulesInv'
  BY Zenon, TypeParts DEF RulesInv

\* A step that leaves the chains alone.
LEMMA ChainsSame ==
  ASSUME ChainInv, chain' = chain
  PROVE  ChainInv' /\ Shrinks
  BY Zenon DEF ChainInv, Shrinks

\* A worker moves, and no chain gets a rule.
LEMMA ShrinkMove ==
  ASSUME RulesInv, ChainInv', Shrinks, NEW w \in {"masq", "forward"}, NEW s \in States,
         Move(w, s), conf' = conf, prev' = prev,
         Built(chain', s, Wanted(w)), w = "masq" => Torn(chain', s),
         w = "forward" => s.pc # "teardown" /\ (chain[Postrtg] = Absent => chain'[Postrtg] = Absent),
         w = "masq" /\ s.pc \in Building =>
           worker[w].pc \in Building \/ chain'[Postrtg] \in {<<>>, Absent}
  PROVE  RulesInv'
  <1>1. ChainInv /\ WorkerInv /\ TypeInv /\ NoDuplicates
    BY Zenon, RulesParts
  <1>2. /\ WorkerInv' /\ worker'[w] = s
        /\ \A v \in {"masq", "forward"} : v # w => worker'[v] = worker[v]
    BY Zenon, <1>1, Moved
  <1>3. /\ NoneNew("masq") /\ NoneNew("forward")
        /\ \A r \in RuleType : Has(chain', r) => Has(chain, r)
    BY Zenon, ShrinksNoneNew
  <1>4. Wanted(w)' = Wanted(w)
    BY Zenon DEF Wanted
  <1>5. BuildInv(w)'
    BY Zenon, <1>2, <1>4 DEF BuildInv
  <1>6. "masq" # "forward"
    OBVIOUS
  <1>7. CASE w = "masq"
    <2>1. BuildInv("forward")'
      BY Zenon, <1>1, <1>2, <1>3, <1>6, <1>7, BuildFrame DEF RulesInv
    <2>2. TeardownInv'
      BY Zenon, <1>2, <1>7 DEF TeardownInv
    <2>3. \/ worker'["masq"].pc \in Building => worker["masq"].pc \in Building
          \/ chain'[Postrtg] \in {<<>>, Absent}
      BY Zenon, <1>2, <1>7
    <2>4. ContentInv'
      BY Zenon, <2>3, ContentFrame DEF RulesInv
    <2>5. BuildInv("masq")'
      BY Zenon, <1>5, <1>7
    <2> QED BY Zenon, <1>2, <2>1, <2>2, <2>4, <2>5, RulesParts
  <1>8. CASE w = "forward"
    <2>0. worker'["masq"] = worker["masq"]
      BY Zenon, <1>2, <1>6, <1>8
    <2>1. BuildInv("masq")'
      BY Zenon, <1>1, <1>3, <2>0, BuildFrame DEF RulesInv
    <2>2. TeardownInv'
      <3>1. Has(chain', Jump) => Has(chain, Jump)
        BY Zenon, <1>3, JumpFacts
      <3> QED BY Zenon, <1>8, <2>0, <3>1, TeardownFrame DEF RulesInv
    <2>3. ContentInv'
      BY Zenon, <2>0, ContentFrame DEF RulesInv
    <2>4. BuildInv("forward")'
      BY Zenon, <1>5, <1>8
    <2> QED BY Zenon, <1>2, <2>1, <2>2, <2>3, <2>4, RulesParts
  <1> QED BY Zenon, <1>7, <1>8

\* A restore that is about to be built.
LEMMA BuiltFresh ==
  ASSUME NEW pc \in Pcs, NEW ch, NEW R, Len(R) \in Nat
  PROVE  Built(ch, At(pc, 1, <<>>), R) /\ Torn(ch, At(pc, 1, <<>>))
  <1> DEFINE s == At(pc, 1, <<>>)
  <1>1. s.pc = pc /\ s.i = 1 /\ s.payload = <<>>
    BY Zenon, AtFacts
  <1> HIDE DEF s
  <1>2. 1 <= Len(R) + 1 /\ 1 - 1 = 0 /\ 1 .. 0 = {} /\ ~(1 > 1) /\ DOMAIN <<>> = {}
    OBVIOUS
  <1>3. Follows(<<>>, R, 0)
    BY Zenon, <1>2 DEF Follows
  <1>4. Built(ch, s, R)
    BY Zenon, <1>1, <1>2, <1>3 DEF Built
  <1>5. Torn(ch, s)
    BY Zenon, <1>1, <1>2 DEF Torn
  <1> QED BY Zenon, <1>4, <1>5 DEF s

\* A step of a worker that starts or ends a round, where no chain gets a rule.
LEMMA ShrinkAt ==
  ASSUME RulesInv, ChainInv', Shrinks, NEW w \in {"masq", "forward"}, NEW pc \in Pcs,
         Move(w, At(pc, 1, <<>>)), conf' = conf, prev' = prev,
         w = "forward" => pc # "teardown" /\ (chain[Postrtg] = Absent => chain'[Postrtg] = Absent),
         w = "masq" /\ pc \in Building =>
           worker[w].pc \in Building \/ chain'[Postrtg] \in {<<>>, Absent}
  PROVE  RulesInv'
  <1>1. /\ At(pc, 1, <<>>) \in States /\ At(pc, 1, <<>>).pc = pc
    BY Zenon, AtFacts
  <1>2. Len(Wanted(w)) \in Nat
    <2>1. Len(Wanted(w)) \in {3, 7}
      BY Zenon, RulesParts, WantedFacts
    <2> QED BY <2>1
  <1>3. Built(chain', At(pc, 1, <<>>), Wanted(w)) /\ Torn(chain', At(pc, 1, <<>>))
    BY Zenon, <1>2, BuiltFresh
  <1> QED BY Zenon, <1>1, <1>3, ShrinkMove

-----------------------------------------------------------------------------
(* The actions of a worker.                                                *)

\* z has the lines p and those for rule i of the list, of which q has the deletion.
Grown(z, p, q, R, i) ==
  /\ z \in Seq(Line) /\ Follows(z, R, i)
  /\ \A y : Deletes(p, y) => Deletes(z, y)
  /\ q # p => Deletes(z, R[i])

\* A rule of chain c after the restore of pl, which follows the list R.
Comes(c, r, pl, R) ==
  \/ (\E k \in DOMAIN chain[c] : chain[c][k] = r) /\ ~Deletes(pl, r)
  \/ \E j \in 1 .. Len(R) : r = R[j]

\* A payload for all rules of a list.
LEMMA BuiltWhole ==
  ASSUME RulesInv, NEW w \in {"masq", "forward"}, worker[w].pc = "build",
         worker[w].i > Len(Wanted(w))
  PROVE  /\ Follows(worker[w].payload, Wanted(w), Len(Wanted(w)))
         /\ \A j \in 1 .. Len(Wanted(w)) :
              Deletes(worker[w].payload, Wanted(w)[j]) \/ ~Has(chain, Wanted(w)[j])
  <1> DEFINE pl == worker[w].payload
             R == Wanted(w)
             n == Len(R)
  <1>1. TypeInv /\ worker[w].i \in Nat \ {0}
    BY Zenon, RulesParts DEF TypeInv
  <1>2. n \in {3, 7}
    BY Zenon, <1>1, WantedFacts
  <1>3. worker[w].i <= n + 1 /\ Follows(pl, R, worker[w].i - 1)
        /\ \A j \in 1 .. worker[w].i - 1 : Deletes(pl, R[j]) \/ ~Has(chain, R[j])
    BY Zenon DEF RulesInv, BuildInv, Built
  <1>4. worker[w].i - 1 = n
    <2> DEFINE i == worker[w].i
    <2>1. i \in Nat /\ n \in Nat /\ i <= n + 1 /\ i > n
      <3>1. n \in {3, 7} /\ i \in Nat \ {0} /\ i <= n + 1 /\ i > n
        BY Zenon, <1>1, <1>2, <1>3
      <3> HIDE DEF n, i
      <3> QED BY <3>1
    <2> HIDE DEF n, i
    <2>2. i - 1 = n
      BY <2>1
    <2> QED BY Zenon, <2>2 DEF i
  <1> QED BY Zenon, <1>3, <1>4

\* The restore of a payload for all rules of a list.
LEMMA RestoreBuilt ==
  ASSUME RulesInv, RestoredOK, NEW w \in {"masq", "forward"}, worker[w].pc = "build",
         worker[w].i > Len(Wanted(w)), chain' = Restored(worker[w].payload)
  PROVE  /\ ChainInv'
         /\ \A c \in Chains : chain[c] = Absent => chain'[c] = Absent
         /\ \A c \in Chains \ ChainsOf(w) : chain'[c] = chain[c]
         /\ \A c \in Chains : chain'[c] # Absent =>
              \A i \in DOMAIN chain'[c] : Comes(c, chain'[c][i], worker[w].payload, Wanted(w))
  <1> DEFINE pl == worker[w].payload
             R == Wanted(w)
             n == Len(R)
  <1>1. TypeInv /\ ChainInv /\ pl \in Seq(Line) /\ worker[w].i \in Nat \ {0} /\ DOMAIN chain = Chains
    BY Zenon, RulesParts DEF TypeInv
  <1>2. /\ n \in {3, 7} /\ \A i, j \in 1 .. n : R[i] = R[j] => i = j
        /\ \A i \in 1 .. n : R[i].chain \in ChainsOf(w)
    BY Zenon, <1>1, WantedFacts
  <1>5. /\ \A k \in DOMAIN pl : \E j \in 1 .. n : pl[k].r = R[j]
        /\ \A k, l \in DOMAIN pl : k < l /\ pl[k].op = "-A" /\ pl[l].op = "-A" =>
             \E a, b \in 1 .. n : a < b /\ pl[k].r = R[a] /\ pl[l].r = R[b]
        /\ \A j \in 1 .. n : Deletes(pl, R[j]) \/ ~Has(chain, R[j])
    <2>1. Follows(pl, R, n) /\ \A j \in 1 .. n : Deletes(pl, R[j]) \/ ~Has(chain, R[j])
      BY Zenon, BuiltWhole
    <2> HIDE DEF pl, R, n
    <2> QED BY Zenon, <2>1 DEF Follows
  <1>6. chain' = Restored(pl)
    BY Zenon
  <1> HIDE DEF pl, R, n
  <1>7. ASSUME NEW k \in DOMAIN pl, NEW l \in DOMAIN pl, pl[k].op = "-A", pl[l].op = "-A",
               pl[k].r = pl[l].r
        PROVE  k = l
    <2>1. ASSUME NEW a \in 1 .. n, NEW b \in 1 .. n, a < b PROVE a # b
      BY <1>2, <2>1
    <2>2. ~(k < l)
      <3>1. SUFFICES ASSUME k < l PROVE FALSE
        BY Zenon
      <3>2. PICK a \in 1 .. n, b \in 1 .. n : a < b /\ pl[k].r = R[a] /\ pl[l].r = R[b]
        BY Zenon, <1>5, <1>7, <3>1
      <3> QED BY Zenon, <1>2, <1>7, <2>1, <3>2
    <2>3. ~(l < k)
      <3>1. SUFFICES ASSUME l < k PROVE FALSE
        BY Zenon
      <3>2. PICK a \in 1 .. n, b \in 1 .. n : a < b /\ pl[l].r = R[a] /\ pl[k].r = R[b]
        BY Zenon, <1>5, <1>7, <3>1
      <3> QED BY Zenon, <1>2, <1>7, <2>1, <3>2
    <2>4. k \in Nat /\ l \in Nat
      BY <1>1
    <2> QED BY <2>2, <2>3, <2>4
  <1>8. ASSUME NEW k \in DOMAIN pl PROVE Deletes(pl, pl[k].r) \/ ~Has(chain, pl[k].r)
    <2>1. PICK j \in 1 .. n : pl[k].r = R[j]
      BY Zenon, <1>5
    <2> QED BY Zenon, <1>5, <2>1
  <1>9. ASSUME NEW c \in Chains, chain[c] = Absent PROVE chain'[c] = Absent
    BY Zenon, <1>1, <1>6, <1>9 DEF Restored
  <1>10. ASSUME NEW c \in Chains \ ChainsOf(w) PROVE chain'[c] = chain[c]
    <2>1. ASSUME NEW k \in DOMAIN pl PROVE pl[k].r.chain # c
      <3>1. PICK j \in 1 .. n : pl[k].r = R[j]
        BY Zenon, <1>5
      <3> QED BY ZenonT(40), <1>2, <3>1
    <2> QED BY Zenon, <1>1, <1>6, <2>1 DEF RestoredOK
  <1>11. ASSUME NEW c \in Chains, chain[c] # Absent
         PROVE  /\ chain'[c] \in Seq(RuleType) /\ Distinct(chain'[c])
                /\ \A i \in DOMAIN chain'[c] : chain'[c][i].chain = c /\ Comes(c, chain'[c][i], pl, R)
    <2>1. Distinct(chain[c]) /\ \A k \in DOMAIN chain[c] : chain[c][k].chain = c
      BY Zenon, <1>1, <1>11 DEF ChainInv
    <2>2. Distinct(Restored(pl)[c])
      BY Zenon, <1>1, <1>7, <1>8, <1>11, <2>1, RestoredDistinct
    <2>3. /\ chain'[c] \in Seq(RuleType)
          /\ \A i \in DOMAIN chain'[c] : Remains(c, chain'[c][i], pl)
      BY Zenon, <1>1, <1>6, <1>11, RestoredMembers
    <2>4. ASSUME NEW i \in DOMAIN chain'[c]
          PROVE  chain'[c][i].chain = c /\ Comes(c, chain'[c][i], pl, R)
      <3> DEFINE r == chain'[c][i]
      <3>1. CASE (\E k \in DOMAIN chain[c] : chain[c][k] = r) /\ ~Deletes(pl, r)
        BY Zenon, <2>1, <3>1 DEF Comes
      <3>2. CASE r.chain = c /\ \E k \in DOMAIN pl : pl[k].op = "-A" /\ pl[k].r = r
        <4>1. PICK k \in DOMAIN pl : pl[k].r = r
          BY Zenon, <3>2
        <4>2. PICK j \in 1 .. n : pl[k].r = R[j]
          BY Zenon, <1>5
        <4> HIDE DEF r
        <4> QED BY Zenon, <3>2, <4>1, <4>2 DEF Comes, n, r
      <3> QED BY Zenon, <2>3, <3>1, <3>2 DEF Remains
    <2> QED BY Zenon, <1>6, <2>2, <2>3, <2>4
  <1>12. ChainInv'
    <2>1. chain' = [c \in Chains |-> chain'[c]]
      BY Zenon, <1>1, <1>6 DEF Restored
    <2>2. chain' \in [Chains -> {Absent} \cup Seq(RuleType)]
      BY Zenon, <1>9, <1>11, <2>1
    <2>3. ASSUME NEW c \in Chains, chain'[c] # Absent
          PROVE  Distinct(chain'[c]) /\ \A i \in DOMAIN chain'[c] : chain'[c][i].chain = c
      BY Zenon, <1>9, <1>11, <2>3
    <2> QED BY Zenon, <2>2, <2>3 DEF ChainInv, Distinct
  <1>13. ASSUME NEW c \in Chains, chain'[c] # Absent, NEW i \in DOMAIN chain'[c]
         PROVE  Comes(c, chain'[c][i], pl, R)
    BY Zenon, <1>9, <1>11, <1>13
  <1> QED BY Zenon, <1>9, <1>10, <1>12, <1>13 DEF pl, R

\* The two workers have no chain in common.
LEMMA ChainsOfFacts ==
  /\ ChainsOf("masq") = {Post, Postrtg} /\ ChainsOf("forward") = {Forward, Fwd}
  /\ Post \in Chains /\ Postrtg \in Chains /\ Forward \in Chains /\ Fwd \in Chains
  /\ Post \notin {Forward, Fwd} /\ Postrtg \notin {Forward, Fwd} /\ Post # Postrtg
  /\ \A c \in Chains : ~(c \in ChainsOf("masq") /\ c \in ChainsOf("forward"))
  BY DEF ChainsOf, Chains, Post, Postrtg, Forward, Fwd

-----------------------------------------------------------------------------
(* The actions of main and of others.                                      *)

\* A step of another program, or of main, that moves no worker and puts no rule into a chain.
LEMMA ShrinkStill ==
  ASSUME RulesInv, ChainInv', Shrinks, worker' = worker, conf' = conf,
         prev' \in Configs \cup {Absent},
         chain[Postrtg] = Absent => chain'[Postrtg] = Absent
  PROVE  RulesInv'
  <1>1. ChainInv /\ WorkerInv /\ TypeInv
    BY Zenon, RulesParts
  <1>2. WorkerInv'
    BY Zenon, <1>1 DEF WorkerInv
  <1>3. /\ NoneNew("masq") /\ NoneNew("forward")
        /\ \A r \in RuleType : Has(chain', r) => Has(chain, r)
    BY Zenon, ShrinksNoneNew
  <1>4. BuildInv("masq")' /\ BuildInv("forward")'
    BY Zenon, <1>1, <1>3, BuildFrame DEF RulesInv
  <1>5. TeardownInv'
    <2>1. Has(chain', Jump) => Has(chain, Jump)
      BY Zenon, <1>3, JumpFacts
    <2> QED BY Zenon, <2>1, TeardownFrame DEF RulesInv
  <1>6. ContentInv'
    BY Zenon, ContentFrame DEF RulesInv
  <1> QED BY Zenon, <1>2, <1>4, <1>5, <1>6, RulesParts

\* CleanUp empties flannel's chain or deletes it.
LEMMA CleanUpKeeps ==
  ASSUME RulesInv, CleanUp
  PROVE  /\ RulesInv' /\ chain'[Post] = chain[Post]
         /\ chain'[Postrtg] \in {Absent, <<>>, chain[Postrtg]}
  <1>1. /\ worker' = worker /\ conf' = conf /\ prev' = prev
        /\ chain' = chain \/ chain' = ClearAndDelete(Postrtg, Post)
    BY Zenon DEF CleanUp
  <1>2. ChainInv /\ DOMAIN chain = Chains /\ prev \in Configs \cup {Absent} /\ Postrtg \in Chains
    BY Zenon, RulesParts DEF ChainInv, WorkerInv, Chains
  <1>3. CASE chain' = chain
    <2>1. ChainInv' /\ Shrinks
      BY Zenon, <1>2, <1>3, ChainsSame
    <2> QED BY Zenon, <1>1, <1>2, <1>3, <2>1, ShrinkStill
  <1>4. CASE /\ chain[Postrtg] # Absent
             /\ chain' = [chain EXCEPT ![Postrtg] = <<>>] \/ chain' = [chain EXCEPT ![Postrtg] = Absent]
    <2>1. /\ chain' = [c \in Chains |-> chain'[c]] /\ chain'[Postrtg] \in {<<>>, Absent}
          /\ \A c \in Chains : c # Postrtg => chain'[c] = chain[c]
      BY Zenon, <1>2, <1>4
    <2>2. \A c \in Chains : chain'[c] \in {Absent, <<>>, chain[c]}
      BY Zenon, <2>1
    <2>3. ChainInv' /\ Shrinks
      BY Zenon, <1>2, <2>1, <2>2, ChainsCut
    <2> QED BY Zenon, <1>1, <1>2, <1>4, <2>1, <2>3, ShrinkStill, ChainsOfFacts
  <1>5. chain' = ClearAndDelete(Postrtg, Post) => chain' = chain
          \/ /\ chain[Postrtg] # Absent
             /\ chain' = [chain EXCEPT ![Postrtg] = <<>>] \/ chain' = [chain EXCEPT ![Postrtg] = Absent]
    BY Zenon DEF ClearAndDelete
  <1> QED BY Zenon, <1>1, <1>3, <1>4, <1>5

\* q is s with h as its second element.
Second(q, s, h) ==
  /\ Len(q) = Len(s) + 1 /\ q[1] = s[1] /\ q[2] = h
  /\ \A k \in 2 .. Len(s) : q[k + 1] = s[k]

Among(q, s, h) == \A i \in DOMAIN q : q[i] = h \/ \E k \in DOMAIN s : s[k] = q[i]

-----------------------------------------------------------------------------
(* All steps.                                                              *)

\* The steps of the two goroutines keep the invariant, and building the payload only
\* clears the own chain.
LEMMA WorkersKeep ==
  ASSUME RulesInv, RestoredOK
  PROVE  \A w \in {"masq", "forward"} :
           /\ Worker(w) \/ Resync(w) => RulesInv'
           /\ ipTablesCleanAndBuild(w) => \A c \in Chains : chain'[c] \in {chain[c], <<>>}
  \* A restore that only deletes.
  <1>RestoreDeletes.
    ASSUME TypeInv, RestoredOK, NoDuplicates, NEW pl \in Seq(Line), \A k \in DOMAIN pl : pl[k].op = "-D",
           chain' = Restored(pl)
    PROVE  ChainInv' /\ Shrinks
    <2> USE <1>RestoreDeletes
    <2>0. ChainInv
      BY Zenon, TypeParts
    <2>1. /\ chain \in [Chains -> {Absent} \cup Seq(RuleType)]
          /\ \A c \in Chains : chain[c] # Absent =>
               Distinct(chain[c]) /\ \A i \in DOMAIN chain[c] : chain[c][i].chain = c
      BY Zenon, <2>0 DEF ChainInv
    <2>2. DOMAIN chain = Chains
      BY Zenon, <2>1
    <2>3. ASSUME NEW c \in Chains, chain[c] = Absent PROVE chain'[c] = Absent
      BY Zenon, <2>2, <2>3 DEF Restored
    <2>4. "-A" # "-D"
      OBVIOUS
    <2>5. \A k \in DOMAIN pl : pl[k].op # "-A"
      BY Zenon, <2>4
    <2>6. ASSUME NEW c \in Chains, chain[c] # Absent
          PROVE  /\ chain'[c] \in Seq(RuleType) /\ Distinct(chain'[c])
                 /\ \A i \in DOMAIN chain'[c] : \E k \in DOMAIN chain[c] : chain[c][k] = chain'[c][i]
      <3>1. Distinct(chain[c])
        BY Zenon, <2>1, <2>6
      <3>2. Distinct(Restored(pl)[c])
        BY Zenon, <2>5, <2>6, <3>1, RestoredDistinct
      <3>3. /\ Restored(pl)[c] \in Seq(RuleType)
            /\ \A i \in DOMAIN Restored(pl)[c] : Remains(c, Restored(pl)[c][i], pl)
        BY Zenon, <2>6, RestoredMembers
      <3> QED BY Zenon, <2>5, <3>2, <3>3 DEF Remains
    <2>7. chain' = [c \in Chains |-> chain'[c]]
      BY Zenon, <2>2 DEF Restored
    <2>8. \A c \in Chains : chain'[c] = Absent \/ Sublist(c)
      BY Zenon, <2>3, <2>6 DEF Sublist
    <2> QED BY Zenon, <2>0, <2>7, <2>8, ChainsShrink

  \* A payload and one line more.
  <1>AppendFacts.
    ASSUME NEW p \in Seq(Line), NEW x \in Line
    PROVE  /\ Append(p, x) \in Seq(Line) /\ p \o <<x>> = Append(p, x)
           /\ Extended(Append(p, x), p, x, Len(p) + 1)
    BY <1>AppendFacts DEF Extended

  \* What the extended payload deletes.
  <1>AppendDeletes.
    ASSUME NEW p \in Seq(Line), NEW x \in Line, NEW r
    PROVE  Deletes(Append(p, x), r) <=> Deletes(p, r) \/ x = [op |-> "-D", r |-> r]
    <2> USE <1>AppendDeletes
    <2> DEFINE q == Append(p, x)
               l == Len(p) + 1
               y == [op |-> "-D", r |-> r]
    <2>1. Extended(q, p, x, l)
      BY Zenon, <1>AppendFacts
    <2> HIDE DEF q, l, y
    <2>2. ASSUME NEW k \in DOMAIN q, q[k] = y PROVE (\E j \in DOMAIN p : p[j] = y) \/ x = y
      BY Zenon, <2>1, <2>2 DEF Extended
    <2>3. ASSUME NEW k \in DOMAIN p, p[k] = y PROVE \E j \in DOMAIN q : q[j] = y
      BY Zenon, <2>1, <2>3 DEF Extended
    <2>4. ASSUME x = y PROVE \E j \in DOMAIN q : q[j] = y
      BY Zenon, <2>1, <2>4 DEF Extended
    <2> QED BY Zenon, <2>2, <2>3, <2>4 DEF Deletes, q, y

  \* A -D line of a rule leaves the payload's -A lines in the order of the rules.
  <1>LeadsDelete.
    ASSUME NEW p, NEW q, NEW x, NEW l, Extended(q, p, x, l), x.op # "-A",
           NEW R, NEW N, NEW M, NEW i \in M, x.r = R[i], N \subseteq M, Leads(p, R, N, N)
    PROVE  Leads(q, R, N, M)
    <2> USE <1>LeadsDelete
    <2>0. /\ \A k \in DOMAIN q : (k \in DOMAIN p /\ q[k] = p[k]) \/ k = l
          /\ q[l] = x
          /\ \A k \in DOMAIN p : \E j \in N : p[k].r = R[j]
      BY Zenon DEF Extended, Leads
    <2>1. ASSUME NEW k \in DOMAIN q PROVE \E j \in M : q[k].r = R[j]
      <3>1. CASE k \in DOMAIN p /\ q[k] = p[k]
        BY Zenon, <2>0, <3>1
      <3>2. CASE k = l
        BY Zenon, <2>0, <3>2
      <3> QED BY Zenon, <2>0, <3>1, <3>2
    <2>2. ASSUME NEW k \in DOMAIN q, q[k].op = "-A" PROVE k \in DOMAIN p /\ q[k] = p[k]
      BY Zenon, <2>0, <2>2
    <2>3. ASSUME NEW k \in DOMAIN q, q[k].op = "-A" PROVE \E j \in N : q[k].r = R[j]
      BY Zenon, <2>0, <2>2, <2>3
    <2>4. ASSUME NEW j \in N PROVE \E k \in DOMAIN q : q[k].op = "-A" /\ q[k].r = R[j]
      <3>1. PICK k \in DOMAIN p : p[k].op = "-A" /\ p[k].r = R[j]
        BY Zenon DEF Leads
      <3>2. k \in DOMAIN q /\ q[k] = p[k]
        BY Zenon DEF Extended
      <3> QED BY Zenon, <3>1, <3>2
    <2>5. ASSUME NEW k \in DOMAIN q, NEW m \in DOMAIN q, k < m, q[k].op = "-A", q[m].op = "-A"
          PROVE  \E a, b \in N : a < b /\ q[k].r = R[a] /\ q[m].r = R[b]
      <3>1. k \in DOMAIN p /\ q[k] = p[k] /\ m \in DOMAIN p /\ q[m] = p[m]
        BY Zenon, <2>2, <2>5
      <3>2. p[k].op = "-A" /\ p[m].op = "-A"
        BY Zenon, <2>5, <3>1
      <3>3. \E a, b \in N : a < b /\ p[k].r = R[a] /\ p[m].r = R[b]
        BY Zenon, <2>5, <3>1, <3>2 DEF Leads
      <3> QED BY Zenon, <3>1, <3>3
    <2> QED BY Zenon, <2>1, <2>3, <2>4, <2>5 DEF Leads

  \* So does the -A line of the next rule.
  <1>LeadsAppend.
    ASSUME NEW p, NEW q, NEW x, NEW l, Extended(q, p, x, l), x.op = "-A",
           NEW R, NEW N, NEW M, NEW i, x.r = R[i], M = N \cup {i}, \A j \in N : j < i,
           Leads(p, R, N, M)
    PROVE  Leads(q, R, M, M)
    <2> USE <1>LeadsAppend
    <2>0. /\ \A k \in DOMAIN q : (k \in DOMAIN p /\ q[k] = p[k]) \/ k = l
          /\ q[l] = x
          /\ \A k \in DOMAIN p : \E j \in M : p[k].r = R[j]
      BY Zenon DEF Extended, Leads
    <2>1. ASSUME NEW k \in DOMAIN q PROVE \E j \in M : q[k].r = R[j]
      <3>1. CASE k \in DOMAIN p /\ q[k] = p[k]
        BY Zenon, <2>0, <3>1
      <3>2. CASE k = l
        BY Zenon, <2>0, <3>2
      <3> QED BY Zenon, <2>0, <3>1, <3>2
    <2>4. ASSUME NEW j \in M PROVE \E k \in DOMAIN q : q[k].op = "-A" /\ q[k].r = R[j]
      <3>0. CASE j = i
        BY Zenon, <3>0 DEF Extended
      <3>1. CASE j \in N
        <4>1. PICK k \in DOMAIN p : p[k].op = "-A" /\ p[k].r = R[j]
          BY Zenon, <3>1 DEF Leads
        <4>2. k \in DOMAIN q /\ q[k] = p[k]
          BY Zenon DEF Extended
        <4> QED BY Zenon, <4>1, <4>2
      <3> QED BY Zenon, <3>0, <3>1
    <2>5. ASSUME NEW k \in DOMAIN q, NEW m \in DOMAIN q, k < m, q[k].op = "-A", q[m].op = "-A"
          PROVE  \E a, b \in M : a < b /\ q[k].r = R[a] /\ q[m].r = R[b]
      <3>1. k \in DOMAIN p /\ q[k] = p[k]
        <4>1. ~(l < m)
          BY Zenon DEF Extended
        <4> QED BY Zenon, <2>5, <4>1 DEF Extended
      <3>2. CASE m \in DOMAIN p /\ q[m] = p[m]
        <4>0. p[k].op = "-A" /\ p[m].op = "-A"
          BY Zenon, <2>5, <3>1, <3>2
        <4>1. PICK a \in N, b \in N : a < b /\ p[k].r = R[a] /\ p[m].r = R[b]
          BY Zenon, <2>5, <3>1, <3>2, <4>0 DEF Leads
        <4>2. a \in M /\ b \in M
          BY Zenon
        <4> QED BY Zenon, <3>1, <3>2, <4>1, <4>2
      <3>3. CASE m = l
        <4>0. p[k].op = "-A"
          BY Zenon, <2>5, <3>1
        <4>1. PICK a \in N : p[k].r = R[a]
          BY Zenon, <3>1, <4>0 DEF Leads
        <4>2. a \in M /\ i \in M /\ a < i
          BY Zenon
        <4>3. q[m].r = R[i]
          BY Zenon, <3>3 DEF Extended
        <4> QED BY Zenon, <3>1, <4>1, <4>2, <4>3
      <3> QED BY Zenon, <3>2, <3>3 DEF Extended
    <2> QED BY Zenon, <2>1, <2>4, <2>5 DEF Leads

  \* The two ways to say that the payload follows the first n rules.
  <1>FollowsLeads.
    ASSUME NEW p, NEW R, NEW n
    PROVE  Follows(p, R, n) <=> Leads(p, R, 1 .. n, 1 .. n)
    BY Zenon, <1>FollowsLeads DEF Follows, Leads

  \* A worker that goes to its next rule.
  <1>NextState.
    ASSUME NEW s \in States, NEW p \in Seq(Line)
    PROVE  LET t == [s EXCEPT !.i = @ + 1, !.payload = p]
           IN  t \in States /\ t.pc = s.pc /\ t.i = s.i + 1 /\ t.payload = p
    <2> USE <1>NextState
    <2> DEFINE u == [s EXCEPT !.i = @ + 1]
               t == [s EXCEPT !.i = @ + 1, !.payload = p]
    <2>1. u \in States
      BY DEF States
    <2>2. t = [u EXCEPT !.payload = p]
      BY Zenon
    <2>3. t \in States
      <3> HIDE DEF u, t
      <3> QED BY <2>1, <2>2 DEF States
    <2>4. t.pc = s.pc /\ t.i = s.i + 1 /\ t.payload = p
      BY DEF States
    <2> QED BY Zenon, <2>3, <2>4

  \* ensureIPTables, the timer and the failure of a teardown leave the chains alone.
  <1>ResyncKeeps.
    ASSUME NEW w \in {"masq", "forward"}, Resync(w)
    PROVE  RulesInv'
    <2> USE <1>ResyncKeeps
    <2>1. /\ Move(w, At("check", 1, <<>>)) /\ chain' = chain /\ conf' = conf /\ prev' = prev
          /\ worker[w].pc = "sleep"
      BY Zenon DEF Resync, Frame
    <2>2. ChainInv' /\ Shrinks
      BY Zenon, <2>1, RulesParts, ChainsSame
    <2>3. "check" \in Pcs /\ "check" # "teardown" /\ "sleep" \in Building
      BY DEF Pcs, Building
    <2> QED BY Zenon, <2>1, <2>2, <2>3, ShrinkAt

  \* ensureIPTables only looks at the chains.
  <1>EnsureKeeps.
    ASSUME NEW w \in {"masq", "forward"}, ensureIPTables(w)
    PROVE  RulesInv'
    <2> USE <1>EnsureKeeps
    <2> DEFINE s == worker[w]
               t == [s EXCEPT !.i = @ + 1]
    <2>1. /\ Move(w, At("sleep", 1, <<>>)) \/ Move(w, t) \/ Move(w, At("build", 1, <<>>))
          /\ chain' = chain /\ conf' = conf /\ prev' = prev /\ s.pc = "check"
      BY Zenon DEF ensureIPTables, Frame
    <2>2. ChainInv' /\ Shrinks
      BY Zenon, <2>1, RulesParts, ChainsSame
    <2>3. /\ "sleep" \in Pcs /\ "sleep" # "teardown" /\ "build" \in Pcs /\ "build" # "teardown"
          /\ "check" \in Building /\ "check" # "teardown" /\ "check" # "build"
      BY DEF Pcs, Building
    <2>4. CASE Move(w, At("sleep", 1, <<>>))
      BY Zenon, <2>1, <2>2, <2>3, <2>4, ShrinkAt
    <2>5. CASE Move(w, At("build", 1, <<>>))
      BY Zenon, <2>1, <2>2, <2>3, <2>5, ShrinkAt
    <2>6. CASE Move(w, t)
      <3>1. s \in States
        BY Zenon, RulesParts DEF TypeInv, States
      <3>2. t \in States /\ t.pc = s.pc
        <4> HIDE DEF s
        <4> QED BY <3>1 DEF States
      <3> HIDE DEF t
      <3>3. Built(chain', t, Wanted(w)) /\ Torn(chain', t)
        BY Zenon, <2>1, <2>3, <3>2 DEF Built, Torn
      <3> QED BY Zenon, <2>1, <2>2, <2>3, <2>6, <3>2, <3>3, ShrinkMove
    <2> QED BY Zenon, <2>1, <2>4, <2>5, <2>6

  \* CreateIP4Chain empties or makes the worker's chain.
  <1>CreateKeeps.
    ASSUME NEW w \in {"masq", "forward"}, CreateIP4Chain(w)
    PROVE  RulesInv' /\ Shrinks /\ chain'[ChainOf(w)] = <<>>
    <2> USE <1>CreateKeeps
    <2>1. /\ Move(w, At("build", 1, <<>>)) /\ conf' = conf /\ prev' = prev
          /\ chain' = [chain EXCEPT ![ChainOf(w)] = <<>>] /\ worker[w].pc = "clear"
      BY Zenon DEF CreateIP4Chain, Frame
    <2>2. ChainInv /\ DOMAIN chain = Chains
      BY Zenon, RulesParts DEF ChainInv
    <2>3. /\ ChainOf(w) \in Chains /\ (w = "masq" => ChainOf(w) = Postrtg)
          /\ (w = "forward" => ChainOf(w) # Postrtg)
      BY DEF ChainOf, Chains, Postrtg, Fwd
    <2>4. /\ chain' = [c \in Chains |-> chain'[c]] /\ chain'[ChainOf(w)] = <<>>
          /\ \A c \in Chains : c # ChainOf(w) => chain'[c] = chain[c]
      BY Zenon, <2>1, <2>2, <2>3
    <2>5. ChainInv' /\ Shrinks
      BY Zenon, <2>2, <2>4, ChainsCut
    <2>6. "build" \in Pcs /\ "build" # "teardown" /\ Postrtg \in Chains
      BY DEF Pcs, Chains
    <2>7. /\ w = "forward" => chain'[Postrtg] = chain[Postrtg]
          /\ w = "masq" => chain'[Postrtg] = <<>>
      BY Zenon, <2>3, <2>4, <2>6
    <2> QED BY Zenon, <2>1, <2>4, <2>5, <2>6, <2>7, ShrinkAt

  \* teardownIPTables looks a rule of the previous configuration up.
  <1>TeardownRuleKeeps.
    ASSUME NEW w \in {"masq", "forward"}, TeardownRule(w)
    PROVE  RulesInv'
    <2> USE <1>TeardownRuleKeeps
    <2> DEFINE s == worker[w]
               r == RulesOf(w)[s.i]
               x == [op |-> "-D", r |-> r]
               p == IF chain[OwnChain(r)] # Absent /\ Exists(r) THEN Append(s.payload, x) ELSE s.payload
               t == [s EXCEPT !.i = @ + 1, !.payload = p]
    <2>1. /\ Move(w, t) /\ chain' = chain /\ conf' = conf /\ prev' = prev
          /\ s.pc = "teardown" /\ s.i <= Len(RulesOf(w))
      BY Zenon DEF TeardownRule, Frame
    <2>2. TypeInv /\ s \in States
      BY Zenon, RulesParts DEF TypeInv, States
    <2>3. /\ w = "masq" /\ Len(RulesOf(w)) = 7 /\ RulesOf(w)[1] = Jump
          /\ \A i \in 1 .. 7 : RulesOf(w)[i] \in RuleType
      BY Zenon, <2>1, <2>2, RulesOfFacts
    <2>4. s.i \in 1 .. 7 /\ s.i \in Nat /\ s.payload \in Seq(Line) /\ "teardown" # "build"
          /\ (s.i + 1 > 1 => s.i = 1 \/ s.i > 1)
      <3>1. s.i \in Nat \ {0} /\ s.payload \in Seq(Line) /\ s.i <= 7
        BY Zenon, <2>1, <2>2, <2>3 DEF States
      <3> HIDE DEF s
      <3> QED BY <3>1
    <2>5. x \in Line /\ x.op = "-D" /\ x.r = r
      <3>1. r \in RuleType
        BY Zenon, <2>3, <2>4
      <3> HIDE DEF r
      <3> QED BY <3>1 DEF Line
    <2> HIDE DEF x, s
    <2>6. ChainInv' /\ Shrinks
      BY Zenon, <2>1, RulesParts, ChainsSame
    <2>7. p \in Seq(Line)
      BY Zenon, <2>4, <2>5, <1>AppendFacts
    <2> HIDE DEF p
    <2>8. t \in States /\ t.pc = s.pc /\ t.i = s.i + 1 /\ t.payload = p
      BY Zenon, <2>2, <2>7, <1>NextState
    <2> HIDE DEF t
    <2>9. Built(chain', t, Wanted(w))
      BY Zenon, <2>1, <2>4, <2>8 DEF Built
    <2>10. Torn(chain, s)
      BY Zenon, <2>3 DEF RulesInv, TeardownInv, s
    <2>11. \A k \in DOMAIN p : p[k].op = "-D"
      <3>0. \A k \in DOMAIN s.payload : s.payload[k].op = "-D"
        BY Zenon, <2>1, <2>10 DEF Torn
      <3>1. CASE p = s.payload
        BY Zenon, <3>0, <3>1
      <3>2. CASE p = Append(s.payload, x)
        <4>1. Extended(p, s.payload, x, Len(s.payload) + 1)
          BY Zenon, <2>4, <2>5, <3>2, <1>AppendFacts
        <4> QED BY Zenon, <2>5, <3>0, <4>1 DEF Extended
      <3> QED BY Zenon, <3>1, <3>2 DEF p
    <2>12. ASSUME t.i > 1 PROVE Deletes(p, Jump) \/ ~Has(chain, Jump) \/ chain[Postrtg] = Absent
      <3>1. CASE s.i = 1
        <4>1. r = Jump /\ OwnChain(r) = Postrtg
          <5>1. r = Jump
            BY Zenon, <2>3, <3>1
          <5>2. Post \notin Own
            BY DEF Post, Own, Postrtg, Fwd
          <5> QED BY Zenon, <5>1, <5>2, JumpFacts DEF OwnChain
        <4>2. CASE chain[OwnChain(r)] # Absent /\ Exists(r)
          <5>1. p = Append(s.payload, x)
            BY Zenon, <4>2 DEF p
          <5>2. x = [op |-> "-D", r |-> r]
            BY Zenon DEF x
          <5>3. Deletes(Append(s.payload, x), r)
            <6>1. s.payload \in Seq(Line) /\ x \in Line
              BY Zenon, <2>4, <2>5
            <6> HIDE DEF r
            <6> QED BY Zenon, <5>2, <6>1, <1>AppendDeletes
          <5> QED BY Zenon, <4>1, <5>1, <5>3
        <4>3. CASE ~(chain[OwnChain(r)] # Absent /\ Exists(r))
          BY Zenon, <4>1, <4>3 DEF Exists, Has
        <4> QED BY Zenon, <4>2, <4>3
      <3>2. CASE s.i > 1
        <4>1. Deletes(s.payload, Jump) \/ ~Has(chain, Jump) \/ chain[Postrtg] = Absent
          BY Zenon, <2>1, <2>10, <3>2 DEF Torn
        <4>2. Deletes(s.payload, Jump) => Deletes(p, Jump)
          BY Zenon, <2>4, <2>5, <1>AppendDeletes DEF p
        <4> QED BY Zenon, <4>1, <4>2
      <3> QED BY Zenon, <2>4, <2>8, <2>12, <3>1, <3>2
    <2>13. Torn(chain', t)
      BY Zenon, <2>1, <2>8, <2>11, <2>12 DEF Torn
    <2>14. "teardown" \notin Building /\ "masq" # "forward"
      BY DEF Building
    <2> QED BY Zenon, <2>1, <2>3, <2>6, <2>8, <2>9, <2>13, <2>14, ShrinkMove

  \* The payload stays in the order of the rules when the lines of the next are added.
  <1>PayloadGrows.
    ASSUME NEW p \in Seq(Line), NEW R, NEW i \in Nat \ {0}, Follows(p, R, i - 1),
           NEW r \in RuleType, r = R[i], NEW q, q = p \/ q = Append(p, [op |-> "-D", r |-> r])
    PROVE  Grown(q \o <<[op |-> "-A", r |-> r]>>, p, q, R, i)
    <2> USE <1>PayloadGrows
    <2> DEFINE d == [op |-> "-D", r |-> r]
               x == [op |-> "-A", r |-> r]
               z == q \o <<x>>
               N == 1 .. i - 1
               M == 1 .. i
    <2>1. d \in Line /\ x \in Line /\ d.op # "-A" /\ x.op = "-A" /\ d.r = R[i] /\ x.r = R[i]
      BY DEF Line
    <2>2. i \in M /\ N \subseteq M /\ M = N \cup {i} /\ \A j \in N : j < i
      OBVIOUS
    <2>3. Leads(p, R, N, N)
      BY Zenon, <1>FollowsLeads
    <2> HIDE DEF d, x, N, M
    <2>4. q \in Seq(Line) /\ Leads(q, R, N, M) /\ \A y : Deletes(p, y) => Deletes(q, y)
      <3>1. CASE q = p
        <4>1. ASSUME NEW k \in DOMAIN p PROVE \E j \in M : p[k].r = R[j]
          <5>1. PICK j \in N : p[k].r = R[j]
            BY Zenon, <2>3 DEF Leads
          <5> QED BY Zenon, <2>2, <5>1
        <4>2. Leads(p, R, N, M)
          BY Zenon, <2>3, <4>1 DEF Leads
        <4> QED BY Zenon, <3>1, <4>2
      <3>2. CASE q = Append(p, d)
        <4>1. q \in Seq(Line) /\ Extended(q, p, d, Len(p) + 1)
          BY Zenon, <2>1, <3>2, <1>AppendFacts
        <4>2. Leads(q, R, N, M)
          BY Zenon, <2>1, <2>2, <2>3, <4>1, <1>LeadsDelete
        <4>3. \A y : Deletes(p, y) => Deletes(q, y)
          BY Zenon, <2>1, <3>2, <1>AppendDeletes
        <4> QED BY Zenon, <4>1, <4>2, <4>3
      <3> QED BY Zenon, <3>1, <3>2 DEF d
    <2>5. z \in Seq(Line) /\ Extended(z, q, x, Len(q) + 1) /\ z = Append(q, x)
      BY Zenon, <2>1, <2>4, <1>AppendFacts
    <2> HIDE DEF z
    <2>6. Leads(z, R, M, M)
      BY ZenonT(40), <2>1, <2>2, <2>4, <2>5, <1>LeadsAppend
    <2>7. Follows(z, R, i)
      BY Zenon, <2>6, <1>FollowsLeads DEF M
    <2>8. \A y : Deletes(q, y) => Deletes(z, y)
      BY Zenon, <2>1, <2>4, <2>5, <1>AppendDeletes
    <2>9. q # p => Deletes(q, r)
      <3>1. d = [op |-> "-D", r |-> r] /\ d \in Line
        BY Zenon, <2>1 DEF d
      <3>2. Deletes(Append(p, d), r)
        BY Zenon, <3>1, <1>AppendDeletes
      <3> QED BY Zenon, <3>1, <3>2
    <2>10. Grown(z, p, q, R, i)
      BY Zenon, <2>4, <2>5, <2>7, <2>8, <2>9 DEF Grown
    <2> QED BY Zenon, <2>10 DEF z, x

  \* ipTablesCleanAndBuild adds the lines for a rule.
  <1>BuildKeeps.
    ASSUME NEW w \in {"masq", "forward"}, ipTablesCleanAndBuild(w)
    PROVE  RulesInv' /\ Shrinks /\ \A c \in Chains : chain'[c] \in {chain[c], <<>>}
    <2> USE <1>BuildKeeps
    <2> DEFINE s == worker[w]
               R == Wanted(w)
               r == R[s.i]
               q == IF Exists(r) THEN Append(s.payload, [op |-> "-D", r |-> r]) ELSE s.payload
               p == q \o <<[op |-> "-A", r |-> r]>>
               t == [s EXCEPT !.i = @ + 1, !.payload = p]
    <2>1. TypeInv /\ s \in States /\ ChainInv /\ DOMAIN chain = Chains
          /\ chain = [c \in Chains |-> chain[c]]
      BY Zenon, RulesParts DEF TypeInv, States
    <2>2. s.pc = "build" /\ "build" # "teardown" /\ RulesOf(w) = R
      <3>1. s.pc = "build" /\ "build" # "teardown"
        BY DEF ipTablesCleanAndBuild
      <3> QED BY Zenon, <2>1, <3>1, RulesOfFacts
    <2>3. /\ Move(w, t) /\ conf' = conf /\ prev' = prev /\ s.i <= Len(R)
          /\ chain' = IF chain[OwnChain(r)] = Absent THEN [chain EXCEPT ![OwnChain(r)] = <<>>] ELSE chain
      BY Zenon, <2>2 DEF ipTablesCleanAndBuild, Frame
    <2>4. s.i \in Nat \ {0} /\ s.payload \in Seq(Line) /\ Len(R) \in {3, 7}
      BY Zenon, <2>1, WantedFacts DEF States
    <2>5. s.i \in 1 .. Len(R) /\ s.i + 1 <= Len(R) + 1 /\ (s.i + 1) - 1 = s.i
          /\ \A j \in 1 .. s.i : j \in 1 .. s.i - 1 \/ j = s.i
      <3> HIDE DEF s, R
      <3> QED BY <2>3, <2>4
    <2>6. r \in RuleType /\ OwnChain(r) = ChainOf(w) /\ \A j \in 1 .. Len(R) : R[j] \in RuleType
      BY Zenon, <2>1, <2>5, WantedFacts
    <2>7. /\ Follows(s.payload, R, s.i - 1)
          /\ \A j \in 1 .. s.i - 1 : Deletes(s.payload, R[j]) \/ ~Has(chain, R[j])
      BY Zenon, <2>2 DEF RulesInv, BuildInv, Built
    <2>8. ChainOf(w) \in Chains /\ (w = "forward" => ChainOf(w) # Postrtg) /\ "masq" # "forward"
          /\ "build" \in Building /\ Postrtg \in Chains
      BY DEF ChainOf, Chains, Fwd, Postrtg, Building
    <2>9. /\ chain' = [c \in Chains |-> chain'[c]]
          /\ \A c \in Chains : chain'[c] \in {chain[c], <<>>}
          /\ \A c \in Chains \ {ChainOf(w)} : chain'[c] = chain[c]
      <3>1. CASE chain[ChainOf(w)] = Absent
        <4>1. chain' = [chain EXCEPT ![ChainOf(w)] = <<>>]
          BY Zenon, <2>3, <2>6, <3>1
        <4>2. /\ chain' = [c \in Chains |-> chain'[c]] /\ chain'[ChainOf(w)] = <<>>
              /\ \A c \in Chains : c # ChainOf(w) => chain'[c] = chain[c]
          BY Zenon, <2>1, <2>8, <4>1
        <4> QED BY Zenon, <4>2
      <3>2. CASE chain[ChainOf(w)] # Absent
        <4>1. chain' = chain
          BY Zenon, <2>3, <2>6, <3>2
        <4> QED BY Zenon, <2>1, <4>1
      <3> QED BY Zenon, <3>1, <3>2
    <2>10. ChainInv' /\ Shrinks
      BY Zenon, <2>1, <2>9, ChainsCut
    <2>11. q = s.payload \/ q = Append(s.payload, [op |-> "-D", r |-> r])
      BY Zenon
    <2>12. Exists(r) <=> Has(chain, r)
      BY Zenon DEF Exists, Has
    <2>13. q = s.payload => ~Has(chain, r)
      <3>1. ASSUME Exists(r), q = s.payload PROVE FALSE
        <4>1. Len(Append(s.payload, [op |-> "-D", r |-> r])) = Len(s.payload) + 1 /\ Len(s.payload) \in Nat
          <5>1. [op |-> "-D", r |-> r] \in Line
            <6> HIDE DEF r
            <6> QED BY <2>6 DEF Line
          <5> HIDE DEF s, r
          <5> QED BY <2>4, <5>1
        <4>2. Append(s.payload, [op |-> "-D", r |-> r]) = s.payload
          BY Zenon, <3>1
        <4>3. Len(s.payload) = Len(s.payload) + 1
          BY Zenon, <4>1, <4>2
        <4> HIDE DEF s
        <4> QED BY <4>1, <4>3
      <3> QED BY Zenon, <2>12, <3>1
    <2> HIDE DEF q, r, s, R
    <2>14. /\ p \in Seq(Line) /\ Follows(p, R, s.i) /\ \A y : Deletes(s.payload, y) => Deletes(p, y)
           /\ q # s.payload => Deletes(p, r)
      <3>1. r = R[s.i] /\ r \in RuleType /\ Follows(s.payload, R, s.i - 1)
        BY Zenon, <2>6, <2>7 DEF r
      <3>2. s.i \in Nat \ {0} /\ s.payload \in Seq(Line)
        BY Zenon, <2>4
      <3>3. Grown(p, s.payload, q, R, s.i)
        BY Zenon, <2>11, <3>1, <3>2, <1>PayloadGrows
      <3> HIDE DEF p
      <3> QED BY Zenon, <3>1, <3>3 DEF Grown
    <2> HIDE DEF p
    <2>15. t \in States /\ t.pc = s.pc /\ t.i = s.i + 1 /\ t.payload = p
      BY Zenon, <2>1, <2>14, <1>NextState
    <2> HIDE DEF t
    <2>16. \A y \in RuleType : Has(chain', y) => Has(chain, y)
      BY Zenon, <2>10, ShrinksNoneNew
    <2>17. ASSUME NEW j \in 1 .. s.i PROVE Deletes(p, R[j]) \/ ~Has(chain', R[j])
      <3>1. CASE j = s.i
        <4>1. R[j] = r
          BY Zenon, <3>1 DEF r
        <4> QED BY Zenon, <2>6, <2>13, <2>14, <2>16, <4>1
      <3>2. CASE j \in 1 .. s.i - 1
        <4>1. R[j] \in RuleType
          <5>1. j \in 1 .. Len(R)
            BY <2>4, <2>5, <3>2
          <5> QED BY Zenon, <2>6, <5>1
        <4> QED BY Zenon, <2>7, <2>14, <2>16, <3>2, <4>1
      <3> QED BY Zenon, <2>5, <3>1, <3>2
    <2>18. Built(chain', t, R)
      BY Zenon, <2>5, <2>14, <2>15, <2>17 DEF Built
    <2>19. Torn(chain', t)
      BY Zenon, <2>2, <2>15 DEF Torn
    <2>20. w = "forward" => t.pc # "teardown" /\ (chain[Postrtg] = Absent => chain'[Postrtg] = Absent)
      BY Zenon, <2>2, <2>8, <2>9, <2>15
    <2>21. RulesInv'
      <3>1. worker[w].pc \in Building
        BY Zenon, <2>2, <2>8 DEF s
      <3> QED BY Zenon, <2>3, <2>10, <2>15, <2>18, <2>19, <2>20, <3>1, ShrinkMove DEF R
    <2> QED BY Zenon, <2>9, <2>10, <2>21

  \* The deletions of a teardown, or none of them.
  <1>TeardownApplyKeeps.
    ASSUME NEW w \in {"masq", "forward"}, TeardownApply(w)
    PROVE  RulesInv' /\ Shrinks
    <2> USE <1>TeardownApplyKeeps
    <2> DEFINE pl == worker[w].payload
    <2>1. TypeInv /\ NoDuplicates /\ ChainInv /\ pl \in Seq(Line)
      BY Zenon, RulesParts DEF TypeInv
    <2>2. worker[w].pc = "teardown" /\ conf' = conf /\ prev' = prev
      BY Zenon DEF TeardownApply, Frame
    <2>3. w = "masq"
      BY Zenon, <2>1, <2>2, RulesOfFacts
    <2>4. "clear" \in Pcs /\ "clear" \notin Building /\ "off" \in Pcs /\ "off" \notin Building
          /\ "masq" # "forward"
      BY DEF Pcs, Building
    <2>5. CASE Restorable(pl)
      <3>1. Move(w, At("clear", 1, <<>>)) /\ chain' = Restored(pl)
        BY Zenon, <2>5 DEF TeardownApply
      <3>2. \A k \in DOMAIN pl : pl[k].op = "-D"
        BY Zenon, <2>2, <2>3 DEF RulesInv, TeardownInv, Torn
      <3> HIDE DEF pl
      <3>3. ChainInv' /\ Shrinks
        BY Zenon, <2>1, <3>1, <3>2, <1>RestoreDeletes
      <3> QED BY Zenon, <2>2, <2>3, <2>4, <3>1, <3>3, ShrinkAt
    <2>6. CASE ~Restorable(pl)
      <3>1. Move(w, At("off", 1, <<>>)) /\ chain' = chain
        BY Zenon, <2>6 DEF TeardownApply, Off
      <3>2. ChainInv' /\ Shrinks
        BY Zenon, <2>1, <3>1, ChainsSame
      <3> QED BY Zenon, <2>2, <2>3, <2>4, <3>1, <3>2, ShrinkAt
    <2> QED BY Zenon, <2>5, <2>6

  \* ipTablesBootstrap restores, or fails and leaves the chains alone.
  <1>BootstrapKeeps.
    ASSUME NEW w \in {"masq", "forward"}, ipTablesBootstrap(w)
    PROVE  RulesInv'
    <2> USE <1>BootstrapKeeps
    <2> DEFINE pl == worker[w].payload
               s == At("sleep", 1, <<>>)
    <2>1. TypeInv /\ ChainInv /\ WorkerInv
      BY Zenon, RulesParts
    <2>2. /\ worker[w].pc = "build" /\ conf' = conf /\ prev' = prev /\ Move(w, s)
          /\ chain' = IF Restorable(pl) THEN Restored(pl) ELSE chain
          /\ worker[w].i > Len(RulesOf(w))
      BY Zenon DEF ipTablesBootstrap, Frame
    <2>3. "sleep" \in Pcs /\ "sleep" # "teardown" /\ "build" \in Building /\ "build" # "teardown"
          /\ "sleep" \in Building /\ "masq" # "forward"
      BY DEF Pcs, Building
    <2>4. worker[w].i > Len(Wanted(w))
      BY Zenon, <2>1, <2>2, <2>3, RulesOfFacts
    <2>5. CASE chain' = chain
      <3>1. ChainInv' /\ Shrinks
        BY Zenon, <2>1, <2>5, ChainsSame
      <3> QED BY Zenon, <2>2, <2>3, <2>5, <3>1, ShrinkAt
    <2>6. CASE chain' = Restored(pl)
      <3>1. /\ ChainInv'
            /\ \A c \in Chains : chain[c] = Absent => chain'[c] = Absent
            /\ \A c \in Chains \ ChainsOf(w) : chain'[c] = chain[c]
            /\ \A c \in Chains : chain'[c] # Absent =>
                 \A i \in DOMAIN chain'[c] : Comes(c, chain'[c][i], pl, Wanted(w))
        BY Zenon, <2>2, <2>4, <2>6, RestoreBuilt
      <3> HIDE DEF pl
      <3>2. s \in States /\ s.pc = "sleep"
        BY Zenon, <2>3, AtFacts
      <3>3. Len(Wanted(w)) \in Nat /\ Wanted(w)' = Wanted(w)
        <4>1. Len(Wanted(w)) \in {3, 7}
          BY Zenon, <2>1, WantedFacts
        <4>2. Len(Wanted(w)) \in Nat
          BY <4>1
        <4> QED BY Zenon, <2>2, <4>2 DEF Wanted
      <3>4. Built(chain', s, Wanted(w)) /\ Torn(chain', s)
        BY Zenon, <2>3, <3>3, BuiltFresh
      <3> HIDE DEF s
      <3>5. /\ WorkerInv' /\ worker'[w] = s
            /\ \A v \in {"masq", "forward"} : v # w => worker'[v] = worker[v]
        BY Zenon, <2>1, <2>2, <2>3, <3>2, Moved
      <3>6. BuildInv(w)'
        BY Zenon, <3>3, <3>4, <3>5 DEF BuildInv
      <3>7. ASSUME NEW v \in {"masq", "forward"}, v # w PROVE BuildInv(v)'
        <4>1. ASSUME NEW r \in RuleType, r.chain \in ChainsOf(v), Has(chain', r) PROVE Has(chain, r)
          <5>1. r.chain \in Chains \ ChainsOf(w)
            <6>1. r.chain \in Chains
              BY Zenon DEF RuleType
            <6>2. \/ v = "masq" /\ w = "forward"
                  \/ v = "forward" /\ w = "masq"
              BY Zenon, <3>7
            <6> QED BY Zenon, <4>1, <6>1, <6>2, ChainsOfFacts
          <5>2. chain'[r.chain] = chain[r.chain]
            BY Zenon, <3>1, <5>1
          <5> QED BY Zenon, <4>1, <5>2 DEF Has
        <4>2. NoneNew(v)
          BY Zenon, <4>1 DEF NoneNew
        <4>3. BuildInv(v) /\ worker'[v] = worker[v]
          BY Zenon, <3>5, <3>7 DEF RulesInv
        <4> QED BY Zenon, <2>1, <2>2, <4>2, <4>3, BuildFrame
      <3>8. CASE w = "masq"
        <4>1. TeardownInv'
          BY Zenon, <3>4, <3>5, <3>8 DEF TeardownInv
        <4>2. Wanted(w) = masqRules(conf) /\ Len(masqRules(conf)) = 7 /\ masqRules(conf)[1] = Jump
          BY Zenon, <3>8, MasqRules DEF Wanted
        <4>3. ASSUME chain'[Post] # Absent, NEW i \in DOMAIN chain'[Post] PROVE chain'[Post][i] = Jump
          <5>1. Comes(Post, chain'[Post][i], pl, masqRules(conf)) /\ chain[Post] # Absent
            BY Zenon, <3>1, <4>2, <4>3, ChainsOfFacts
          <5>2. CASE \E k \in DOMAIN chain[Post] : chain[Post][k] = chain'[Post][i]
            BY Zenon, <5>1, <5>2 DEF RulesInv, ContentInv, Contents
          <5>3. CASE \E j \in 1 .. 7 : chain'[Post][i] = masqRules(conf)[j]
            <6>1. PICK j \in 1 .. 7 : chain'[Post][i] = masqRules(conf)[j]
              BY Zenon, <5>3
            <6>2. chain'[Post][i].chain = Post
              BY Zenon, <3>1, <4>3, ChainsOfFacts DEF ChainInv
            <6>3. conf \in Configs
              BY Zenon, <2>1 DEF TypeInv
            <6>4. masqRules(conf)[j].chain = Post => j = 1
              BY Zenon, <6>3, MasqDistinct
            <6> QED BY Zenon, <4>2, <6>1, <6>2, <6>4
          <5> QED BY Zenon, <4>2, <5>1, <5>2, <5>3 DEF Comes
        <4>4. ASSUME chain'[Postrtg] # Absent, NEW i \in DOMAIN chain'[Postrtg]
              PROVE  OfRun(chain'[Postrtg][i], conf)
          <5>1. Comes(Postrtg, chain'[Postrtg][i], pl, masqRules(conf)) /\ chain[Postrtg] # Absent
            BY ZenonT(40), <3>1, <4>2, <4>4, ChainsOfFacts
          <5>2. CASE \E k \in DOMAIN chain[Postrtg] : chain[Postrtg][k] = chain'[Postrtg][i]
            BY Zenon, <2>2, <2>3, <3>8, <5>1, <5>2 DEF RulesInv, ContentInv, Contents
          <5>3. CASE \E j \in 1 .. 7 : chain'[Postrtg][i] = masqRules(conf)[j]
            BY Zenon, <5>3 DEF OfRun
          <5> QED BY Zenon, <4>2, <5>1, <5>2, <5>3 DEF Comes
        <4>5. ContentInv'
          BY Zenon, <2>2, <4>3, <4>4 DEF ContentInv, Contents
        <4>6. BuildInv("masq")' /\ BuildInv("forward")'
          BY ZenonT(40), <2>3, <3>6, <3>7, <3>8
        <4> QED BY Zenon, <3>1, <3>5, <4>1, <4>5, <4>6, RulesParts
      <3>9. CASE w = "forward"
        <4>1. chain'[Post] = chain[Post] /\ chain'[Postrtg] = chain[Postrtg]
              /\ worker'["masq"] = worker["masq"]
          BY Zenon, <2>3, <3>1, <3>5, <3>9, ChainsOfFacts
        <4>2. TeardownInv'
          BY Zenon, <4>1, JumpFacts DEF RulesInv, TeardownInv, Torn, Has
        <4>3. ContentInv'
          BY Zenon, <2>2, <4>1 DEF RulesInv, ContentInv, Contents
        <4>4. BuildInv("masq")' /\ BuildInv("forward")'
          BY Zenon, <2>3, <3>6, <3>7, <3>9
        <4> QED BY Zenon, <3>1, <3>5, <4>2, <4>3, <4>4, RulesParts
      <3> QED BY Zenon, <3>8, <3>9
    <2> QED BY Zenon, <2>2, <2>5, <2>6

  \* A step of a goroutine keeps the invariant.
  <1>WorkerKeeps.
    ASSUME NEW w \in {"masq", "forward"}, Worker(w) \/ Resync(w)
    PROVE  RulesInv'
    <2> USE <1>WorkerKeeps
    <2>1. CASE TeardownRule(w)
      BY Zenon, <2>1, <1>TeardownRuleKeeps
    <2>2. CASE TeardownApply(w)
      BY Zenon, <2>2, <1>TeardownApplyKeeps
    <2>3. CASE CreateIP4Chain(w)
      BY Zenon, <2>3, <1>CreateKeeps
    <2>4. CASE ipTablesCleanAndBuild(w)
      BY Zenon, <2>4, <1>BuildKeeps
    <2>5. CASE ipTablesBootstrap(w)
      BY Zenon, <2>5, <1>BootstrapKeeps
    <2>6. CASE ensureIPTables(w)
      BY Zenon, <2>6, <1>EnsureKeeps
    <2>7. CASE Resync(w)
      BY Zenon, <2>7, <1>ResyncKeeps
    <2> QED BY Zenon, <2>1, <2>2, <2>3, <2>4, <2>5, <2>6, <2>7 DEF Worker

  <1> QED BY Zenon, <1>WorkerKeeps, <1>BuildKeeps

\* Every step keeps the invariant.
LEMMA StepKeeps ==
  ASSUME RulesInv, RestoredOK, [Next]_vars
  PROVE  RulesInv'
  \* A step that deletes a rule.
  <1>RuleDeleted.
    ASSUME ChainInv, NEW c \in Chains, chain[c] # Absent, NEW i \in DOMAIN chain[c],
           chain' = [chain EXCEPT ![c] = WithoutAt(@, i)]
    PROVE  ChainInv' /\ Shrinks
    <2> USE <1>RuleDeleted
    <2> DEFINE s == chain[c]
               q == WithoutAt(s, i)
    <2>1. s \in Seq(RuleType) /\ DOMAIN chain = Chains
      BY Zenon DEF ChainInv
    <2>2. chain'[c] = q /\ \A d \in Chains \ {c} : chain'[d] = chain[d]
      BY Zenon, <2>1
    <2>3. q \in Seq(RuleType) /\ \E f \in [DOMAIN q -> DOMAIN s] : Picks(q, s, f)
      BY Zenon, <2>1, WithoutAtFacts
    <2> HIDE DEF q
    <2>4. PICK f \in [DOMAIN q -> DOMAIN s] : Picks(q, s, f)
      BY Zenon, <2>3
    <2>5. Distinct(s) /\ \A k \in DOMAIN s : s[k].chain = c
      BY Zenon DEF ChainInv
    <2> HIDE DEF s
    <2>6. \A j \in DOMAIN q : f[j] \in DOMAIN s /\ s[f[j]] = q[j]
      BY Zenon, <2>4 DEF Picks
    <2>7. ASSUME NEW j \in DOMAIN q, NEW k \in DOMAIN q, q[j] = q[k] PROVE j = k
      <3>0. /\ f[j] \in DOMAIN s /\ f[k] \in DOMAIN s
            /\ s[f[j]] = s[f[k]]
        BY Zenon, <2>6, <2>7
      <3>1. f[j] = f[k]
        BY Zenon, <2>5, <3>0 DEF Distinct
      <3> QED BY Zenon, <2>4, <3>1 DEF Picks
    <2>8. Sublist(c)
      <3>1. Distinct(q)
        BY Zenon, <2>7 DEF Distinct
      <3>2. \A j \in DOMAIN q : chain[c] # Absent /\ \E k \in DOMAIN chain[c] : chain[c][k] = q[j]
        BY Zenon, <2>6 DEF s
      <3> QED BY Zenon, <2>2, <2>3, <3>1, <3>2 DEF Sublist
    <2>9. ASSUME NEW d \in Chains \ {c}, chain'[d] # Absent PROVE Sublist(d)
      BY Zenon, <2>2, <2>9 DEF Sublist, ChainInv
    <2>10. chain' = [d \in Chains |-> chain'[d]]
      BY Zenon, <2>1
    <2> QED BY Zenon, <2>8, <2>9, <2>10, ChainsShrink

  \* The other steps of main leave the chains alone.
  <1>MainKeeps.
    ASSUME MainStep
    PROVE  RulesInv'
    <2> USE <1>MainKeeps
    <2>1. ChainInv /\ conf \in Configs /\ prev \in Configs \cup {Absent}
      BY Zenon, RulesParts DEF ChainInv, WorkerInv
    <2>2. CASE CleanUp
      BY Zenon, <2>2, CleanUpKeeps
    <2>3. CASE InitManager \/ NftMasq \/ NftForward \/ WriteFile
      <3>1. chain' = chain /\ worker' = worker /\ conf' = conf /\ prev' \in {prev, conf}
        BY Zenon, <2>3 DEF InitManager, NftMasq, NftForward, WriteFile
      <3>2. ChainInv' /\ Shrinks
        BY Zenon, <2>1, <3>1, ChainsSame
      <3> QED BY Zenon, <2>1, <3>1, <3>2, ShrinkStill
    <2>4. CASE IptMasq
      <3>1. /\ chain' = chain /\ conf' = conf /\ prev' = prev
            /\ Move("masq", At("teardown", 1, <<>>)) \/ Move("masq", At("clear", 1, <<>>))
        BY Zenon, <2>4 DEF IptMasq, Frame
      <3>2. ChainInv' /\ Shrinks
        BY Zenon, <2>1, <3>1, ChainsSame
      <3>3. /\ "teardown" \in Pcs /\ "clear" \in Pcs /\ "masq" # "forward"
            /\ "teardown" \notin Building /\ "clear" \notin Building
        BY DEF Pcs, Building
      <3>4. CASE Move("masq", At("teardown", 1, <<>>))
        BY Zenon, <3>1, <3>2, <3>3, <3>4, ShrinkAt
      <3>5. CASE Move("masq", At("clear", 1, <<>>))
        BY Zenon, <3>1, <3>2, <3>3, <3>5, ShrinkAt
      <3> QED BY Zenon, <3>1, <3>4, <3>5
    <2>5. CASE IptForward
      <3>1. /\ chain' = chain /\ conf' = conf /\ prev' = prev
            /\ Move("forward", At("clear", 1, <<>>))
        BY Zenon, <2>5 DEF IptForward, Frame
      <3>2. ChainInv' /\ Shrinks
        BY Zenon, <2>1, <3>1, ChainsSame
      <3>3. "clear" \in Pcs /\ "clear" # "teardown" /\ "masq" # "forward"
        BY DEF Pcs
      <3> QED BY Zenon, <3>1, <3>2, <3>3, ShrinkAt
    <2> QED BY Zenon, <2>2, <2>3, <2>4, <2>5 DEF MainStep

  \* A new flanneld knows nothing of the chains.
  <1>StartKeeps.
    ASSUME NEW c \in Configs, NEW e, Start(c, e)
    PROVE  RulesInv'
    <2> USE <1>StartKeeps
    <2>1. /\ chain' = chain /\ prev' = prev /\ conf' = c
          /\ worker' = [w \in {"masq", "forward"} |-> Off]
      BY Zenon DEF Start
    <2>2. ChainInv /\ prev \in Configs \cup {Absent}
      BY Zenon, RulesParts DEF WorkerInv
    <2>3. "off" \in Pcs /\ "off" # "teardown" /\ "off" \notin Building /\ "off" # "build"
      BY DEF Pcs, Building
    <2>4. Off \in States /\ Off.pc = "off"
      BY Zenon, <2>3, AtFacts DEF Off
    <2>5. worker'["masq"] = Off /\ worker'["forward"] = Off
      BY Zenon, <2>1
    <2>6. ChainInv'
      BY Zenon, <2>1, <2>2, ChainsSame
    <2>7. WorkerInv'
      BY Zenon, <2>1, <2>2, <2>3, <2>4, <2>5 DEF WorkerInv, States
    <2>8. BuildInv("masq")' /\ BuildInv("forward")' /\ TeardownInv'
      BY Zenon, <2>3, <2>4, <2>5 DEF BuildInv, Built, TeardownInv, Torn
    <2>9. ContentInv'
      BY Zenon, <2>1, <2>3, <2>4, <2>5 DEF RulesInv, ContentInv, Contents
    <2> QED BY Zenon, <2>6, <2>7, <2>8, <2>9, RulesParts

  \* Other programs delete rules and chains.
  <1>DeleteKeeps.
    ASSUME NEW c \in DOMAIN chain, NEW i, DeleteRule(c, i)
    PROVE  RulesInv'
    <2> USE <1>DeleteKeeps
    <2>1. ChainInv /\ DOMAIN chain = Chains /\ prev \in Configs \cup {Absent} /\ Postrtg \in Chains
      BY Zenon, RulesParts DEF ChainInv, WorkerInv, Chains
    <2>2. /\ worker' = worker /\ conf' = conf /\ prev' = prev
          /\ chain[c] # Absent /\ i \in DOMAIN chain[c] /\ chain' = [chain EXCEPT ![c] = WithoutAt(@, i)]
      BY Zenon DEF DeleteRule
    <2>3. ChainInv' /\ Shrinks
      BY Zenon, <2>1, <2>2, <1>RuleDeleted
    <2>4. chain[Postrtg] = Absent => chain'[Postrtg] = Absent
      BY Zenon, <2>1, <2>2
    <2> QED BY Zenon, <2>1, <2>2, <2>3, <2>4, ShrinkStill

  \* Somebody flushes a table: what is left are rules that were there.
  <1>FlushKeeps.
    ASSUME NEW t, FlushTable(t)
    PROVE  RulesInv'
    <2> USE <1>FlushKeeps
    <2>1. ChainInv /\ DOMAIN chain = Chains /\ prev \in Configs \cup {Absent} /\ Postrtg \in Chains
          /\ Postrtg \in Own
      BY Zenon, RulesParts DEF ChainInv, WorkerInv, Chains, Own
    <2>2. /\ worker' = worker /\ conf' = conf /\ prev' = prev
          /\ chain' = [c \in DOMAIN chain |-> IF TableOf(c) # t THEN chain[c]
                                              ELSE IF c \in Own THEN Absent ELSE <<>>]
      BY Zenon DEF FlushTable
    <2>3. /\ chain' = [c \in Chains |-> chain'[c]]
          /\ \A c \in Chains : chain'[c] \in {Absent, <<>>, chain[c]}
          /\ chain'[Postrtg] \in {chain[Postrtg], Absent}
      BY Zenon, <2>1, <2>2
    <2>4. ChainInv' /\ Shrinks
      BY Zenon, <2>1, <2>3, ChainsCut
    <2> QED BY Zenon, <2>1, <2>2, <2>3, <2>4, ShrinkStill

  \* A rule inserted second.
  <1>InsertFacts.
    ASSUME NEW X, NEW s \in Seq(X), s # <<>>, NEW h \in X
    PROVE  /\ <<Head(s), h>> \o Tail(s) \in Seq(X)
           /\ Second(<<Head(s), h>> \o Tail(s), s, h)
    <2> USE <1>InsertFacts
    <2> DEFINE a == <<Head(s), h>>
               b == Tail(s)
               q == a \o b
    <2>1. Len(s) \in Nat \ {0} /\ Head(s) = s[1] /\ s[1] \in X
      OBVIOUS
    <2>2. a \in Seq(X) /\ Len(a) = 2 /\ a[1] = s[1] /\ a[2] = h
      BY <2>1
    <2>3. b \in Seq(X) /\ Len(b) = Len(s) - 1 /\ \A i \in 1 .. Len(s) - 1 : b[i] = s[i + 1]
      OBVIOUS
    <2> HIDE DEF a, b
    <2>4. q \in Seq(X) /\ Joins(q, a, b, Len(a), Len(b))
      BY Zenon, <2>2, <2>3, ConcatFacts
    <2> HIDE DEF q
    <2>5. /\ Len(q) = 2 + (Len(s) - 1) /\ \A i \in 1 .. 2 : q[i] = a[i]
          /\ \A i \in 1 .. Len(s) - 1 : q[2 + i] = b[i]
      BY Zenon, <2>2, <2>3, <2>4 DEF Joins
    <2>6. ASSUME NEW k \in 2 .. Len(s) PROVE q[k + 1] = s[k]
      <3>1. k - 1 \in 1 .. Len(s) - 1 /\ 2 + (k - 1) = k + 1 /\ (k - 1) + 1 = k
        BY <2>1
      <3>2. q[2 + (k - 1)] = s[(k - 1) + 1]
        BY Zenon, <2>3, <2>5, <3>1
      <3> QED BY Zenon, <3>1, <3>2
    <2>7. Len(q) = Len(s) + 1 /\ q[1] = s[1] /\ q[2] = h
      BY <2>1, <2>2, <2>5
    <2>8. Second(q, s, h)
      BY Zenon, <2>6, <2>7 DEF Second
    <2> QED BY Zenon, <2>4, <2>8 DEF q, a, b

  \* Its elements: h once, and those of s as often as there.
  <1>SecondMembers.
    ASSUME NEW X, NEW s \in Seq(X), s # <<>>, NEW h, NEW q \in Seq(X), Second(q, s, h),
           Distinct(s), \A k \in DOMAIN s : s[k] # h
    PROVE  Distinct(q) /\ Among(q, s, h)
    <2> USE <1>SecondMembers
    <2> DEFINE at == [i \in 1 .. Len(q) |-> IF i = 1 THEN 1 ELSE i - 1]
    <2>1. /\ Len(s) \in Nat \ {0} /\ DOMAIN s = 1 .. Len(s) /\ DOMAIN q = 1 .. Len(q)
          /\ Len(q) = Len(s) + 1
      BY DEF Second
    <2>2. ASSUME NEW i \in DOMAIN q, i # 2 PROVE at[i] \in DOMAIN s /\ q[i] = s[at[i]]
      <3>1. CASE i = 1
        BY <2>1, <3>1 DEF Second
      <3>2. CASE i # 1
        <4>1. i - 1 \in 2 .. Len(s) /\ (i - 1) + 1 = i /\ at[i] = i - 1 /\ i - 1 \in DOMAIN s
          BY <2>1, <2>2, <3>2
        <4>2. q[(i - 1) + 1] = s[i - 1]
          BY Zenon, <4>1 DEF Second
        <4> QED BY Zenon, <4>1, <4>2
      <3> QED BY Zenon, <3>1, <3>2
    <2>3. ASSUME NEW i \in DOMAIN q, NEW j \in DOMAIN q, i # 2, j # 2, at[i] = at[j] PROVE i = j
      BY <2>1, <2>3
    <2> HIDE DEF at
    <2>4. q[2] = h
      BY Zenon DEF Second
    <2>5. ASSUME NEW i \in DOMAIN q, NEW j \in DOMAIN q, q[i] = q[j] PROVE i = j
      <3>1. CASE i = 2 \/ j = 2
        BY ZenonT(40), <2>2, <2>4, <2>5, <3>1
      <3>2. CASE i # 2 /\ j # 2
        <4>1. at[i] \in DOMAIN s /\ at[j] \in DOMAIN s /\ s[at[i]] = s[at[j]]
          BY Zenon, <2>2, <2>5, <3>2
        <4>2. at[i] = at[j]
          BY Zenon, <4>1 DEF Distinct
        <4> QED BY Zenon, <2>3, <3>2, <4>2
      <3> QED BY Zenon, <3>1, <3>2
    <2> QED BY Zenon, <2>2, <2>4, <2>5 DEF Distinct, Among

  \* The mesh backend inserts its rule, which no worker looks after.
  <1>MeshKeeps.
    ASSUME MeshSNAT
    PROVE  RulesInv'
    <2> USE <1>MeshKeeps
    <2> DEFINE h == hostSNATRule(conf)
               s == chain[Postrtg]
               q == <<Head(s), h>> \o Tail(s)
    <2>1. ChainInv /\ WorkerInv /\ TypeInv /\ DOMAIN chain = Chains /\ conf \in Configs
      BY Zenon, RulesParts DEF ChainInv, WorkerInv
    <2>2. /\ worker' = worker /\ conf' = conf /\ prev' = prev /\ ~Exists(h) /\ s # Absent /\ s # <<>>
          /\ chain' = [chain EXCEPT ![Postrtg] = q]
      BY Zenon DEF MeshSNAT
    <2>3. h \in RuleType /\ h.chain = Postrtg
      <3>1. conf.net \ conf.sub \in SUBSET Zones /\ {"out"} \in SUBSET Zones
        BY Zenon, <2>1, ZoneFacts
      <3>2. Postrtg \in Chains /\ FALSE \in BOOLEAN
            /\ "SNAT" \in {"RETURN", "MASQUERADE", "SNAT", "ACCEPT", Postrtg, Fwd}
        BY Zenon DEF Chains
      <3> QED BY <3>1, <3>2 DEF hostSNATRule, Rule, RuleType
    <2>4. s \in Seq(RuleType) /\ Distinct(s) /\ \A k \in DOMAIN s : s[k] # h /\ s[k].chain = Postrtg
      BY Zenon, <2>1, <2>2, <2>3, ChainsOfFacts DEF ChainInv, Exists
    <2> HIDE DEF h, s
    <2>5. q \in Seq(RuleType) /\ Second(q, s, h)
      <3>1. s \in Seq(RuleType) /\ s # <<>> /\ h \in RuleType
        BY Zenon, <2>2, <2>3, <2>4
      <3> QED BY Zenon, <3>1, <1>InsertFacts
    <2> HIDE DEF q
    <2>6. Distinct(q) /\ \A i \in DOMAIN q : q[i] = h \/ \E k \in DOMAIN s : s[k] = q[i]
      <3>1. s \in Seq(RuleType) /\ s # <<>> /\ Distinct(s) /\ \A k \in DOMAIN s : s[k] # h
        BY Zenon, <2>2, <2>4
      <3>2. Distinct(q) /\ Among(q, s, h)
        BY Zenon, <2>5, <3>1, <1>SecondMembers
      <3> QED BY Zenon, <3>2 DEF Among
    <2>7. chain'[Postrtg] = q /\ \A c \in Chains : c # Postrtg => chain'[c] = chain[c]
      BY Zenon, <2>1, <2>2, ChainsOfFacts
    <2>8. ChainInv'
      <3>1. chain' \in [Chains -> {Absent} \cup Seq(RuleType)]
        BY Zenon, <2>1, <2>2, <2>5, ChainsOfFacts DEF ChainInv
      <3>2. ASSUME NEW c \in Chains, chain'[c] # Absent
            PROVE  Distinct(chain'[c]) /\ \A i \in DOMAIN chain'[c] : chain'[c][i].chain = c
        <4>1. CASE c = Postrtg
          <5>1. \A i \in DOMAIN q : q[i].chain = Postrtg
            BY Zenon, <2>3, <2>4, <2>6
          <5> QED BY Zenon, <2>6, <2>7, <4>1, <5>1
        <4>2. CASE c # Postrtg
          BY Zenon, <2>1, <2>7, <3>2, <4>2 DEF ChainInv
        <4> QED BY Zenon, <4>1, <4>2
      <3> QED BY Zenon, <3>1, <3>2 DEF ChainInv, Distinct
    <2>9. ASSUME NEW r \in RuleType, r # h, Has(chain', r) PROVE Has(chain, r)
      <3>1. r.chain \in Chains
        BY Zenon DEF RuleType
      <3>2. CASE r.chain = Postrtg
        <4>1. PICK i \in DOMAIN q : q[i] = r
          BY Zenon, <2>7, <2>9, <3>2 DEF Has
        <4>2. PICK k \in DOMAIN s : s[k] = r
          BY Zenon, <2>6, <2>9, <4>1
        <4> QED BY Zenon, <2>2, <3>2, <4>2 DEF Has, s
      <3>3. CASE r.chain # Postrtg
        BY Zenon, <2>7, <2>9, <3>1, <3>3 DEF Has
      <3> QED BY Zenon, <3>2, <3>3
    <2>10. NoneNew("masq") /\ NoneNew("forward")
      BY Zenon, <2>9 DEF NoneNew, h
    <2>11. BuildInv("masq")' /\ BuildInv("forward")'
      BY Zenon, <2>1, <2>2, <2>10, BuildFrame DEF RulesInv
    <2>12. TeardownInv'
      <3>1. Has(chain', Jump) => Has(chain, Jump)
        BY Zenon, <2>7, JumpFacts, ChainsOfFacts DEF Has
      <3>2. worker'["masq"] = worker["masq"] /\ chain[Postrtg] # Absent
        BY Zenon, <2>2 DEF s
      <3> QED BY Zenon, <3>1, <3>2, TeardownFrame DEF RulesInv
    <2>13. ContentInv'
      <3>1. chain'[Post] = chain[Post]
        BY Zenon, <2>7, ChainsOfFacts
      <3>2. ASSUME worker["masq"].pc \in Building, NEW i \in DOMAIN q PROVE OfRun(q[i], conf)
        <4>1. CASE q[i] = h
          BY Zenon, <4>1 DEF OfRun, h
        <4>2. CASE \E k \in DOMAIN s : s[k] = q[i]
          <5>1. PICK k \in DOMAIN s : s[k] = q[i]
            BY Zenon, <4>2
          <5>2. OfRun(s[k], conf)
            BY Zenon, <2>2, <3>2 DEF RulesInv, ContentInv, Contents, s
          <5> QED BY Zenon, <5>1, <5>2
        <4> QED BY Zenon, <2>6, <4>1, <4>2
      <3> QED BY Zenon, <2>2, <2>7, <3>1, <3>2 DEF RulesInv, ContentInv, Contents
    <2>14. WorkerInv'
      BY Zenon, <2>1, <2>2 DEF WorkerInv
    <2> QED BY Zenon, <2>8, <2>11, <2>12, <2>13, <2>14, RulesParts

  <1>1. CASE MainStep
    BY Zenon, <1>1, <1>MainKeeps
  <1>2. CASE Workers
    <2>1. PICK w \in {"masq", "forward"} : Worker(w) \/ Resync(w)
      BY Zenon, <1>2 DEF Workers
    <2> QED BY Zenon, <2>1, WorkersKeep
  <1>3. CASE Restart
    <2>1. PICK c \in Configs, e \in NFTables : Start(c, e)
      BY Zenon, <1>3 DEF Restart
    <2> QED BY Zenon, <2>1, <1>StartKeeps
  <1>4. CASE \E c \in DOMAIN chain : \E i \in 1 .. 8 : DeleteRule(c, i)
    <2>1. PICK c \in DOMAIN chain, i \in 1 .. 8 : DeleteRule(c, i)
      BY Zenon, <1>4
    <2> QED BY Zenon, <2>1, <1>DeleteKeeps
  <1>5. CASE \E t \in {"nat", "filter"} : FlushTable(t)
    <2>1. PICK t \in {"nat", "filter"} : FlushTable(t)
      BY Zenon, <1>5
    <2> QED BY Zenon, <2>1, <1>FlushKeeps
  <1>6. CASE MeshSNAT
    BY Zenon, <1>6, <1>MeshKeeps
  <1>7. CASE UNCHANGED vars
    <2>1. chain' = chain /\ worker' = worker /\ conf' = conf /\ prev' = prev
      BY Zenon, <1>7 DEF vars
    <2>2. ChainInv' /\ Shrinks /\ prev \in Configs \cup {Absent}
      BY Zenon, <2>1, RulesParts, ChainsSame DEF WorkerInv
    <2> QED BY Zenon, <2>1, <2>2, ShrinkStill
  <1> QED BY Zenon, <1>1, <1>2, <1>3, <1>4, <1>5, <1>6, <1>7 DEF Next, Flannel, Others

\* The first start.
LEMMA InitRules ==
  ASSUME Init
  PROVE  RulesInv
  <1>1. /\ chain = [c \in Chains |-> IF c \in Own THEN Absent ELSE <<>>] /\ prev = Absent
        /\ conf \in Configs /\ worker = [w \in {"masq", "forward"} |-> Off]
    BY Zenon DEF Init, Chains
  <1>2. <<>> \in Seq(RuleType) /\ DOMAIN <<>> = {}
    OBVIOUS
  <1>3. "off" \in Pcs /\ "off" # "teardown" /\ "off" \notin Building /\ "off" # "build"
    BY DEF Pcs, Building
  <1>4. Off \in States /\ Off.pc = "off"
    BY Zenon, <1>3, AtFacts DEF Off
  <1>5. worker["masq"] = Off /\ worker["forward"] = Off
    BY Zenon, <1>1
  <1>6. \A c \in Chains : chain[c] \in {Absent, <<>>}
    BY Zenon, <1>1
  <1>7. ChainInv
    <2>1. chain \in [Chains -> {Absent} \cup Seq(RuleType)]
      BY Zenon, <1>1, <1>2
    <2> QED BY Zenon, <1>2, <1>6, <2>1 DEF ChainInv, Distinct
  <1>8. WorkerInv
    BY Zenon, <1>1, <1>3, <1>4, <1>5 DEF WorkerInv, States
  <1>9. BuildInv("masq") /\ BuildInv("forward") /\ TeardownInv
    BY Zenon, <1>3, <1>4, <1>5 DEF BuildInv, Built, TeardownInv, Torn
  <1>10. ContentInv
    BY Zenon, <1>2, <1>3, <1>4, <1>5, <1>6, ChainsOfFacts DEF ContentInv, Contents
  <1> QED BY Zenon, <1>7, <1>8, <1>9, <1>10, TypeParts DEF RulesInv

-----------------------------------------------------------------------------
(* The way of a packet.                                                    *)

\* The natural numbers are well founded.
LeastOK == \A S \in SUBSET Nat : S # {} => \E i \in S : \A j \in S : i <= j

Changing == {"MASQUERADE", "SNAT"}

Matches(r, p) == (r.mark => p.mark) /\ p.src \in r.src /\ p.dst \in r.dst

\* Rule i is the first of a list that matches.
First(s, p, i) == i \in DOMAIN s /\ Matches(s[i], p) /\ \A j \in DOMAIN s : Matches(s[j], p) => i <= j

-----------------------------------------------------------------------------
(* The two places where a packet may be changed.                           *)

IptNat(ch, p) ==
  FirstMatch(ch[Post], p) = Postrtg /\ ch[Postrtg] # Absent /\ FirstMatch(ch[Postrtg], p) \in Changing

NftNat(n, p) == n # Absent /\ n.postrtg # Absent /\ FirstMatch(n.postrtg, p) \in Changing

-----------------------------------------------------------------------------
(* flannel's table.                                                        *)

\* A step that leaves the tables alone keeps what is known of them.
LEMMA NftKeeps ==
  ASSUME NftInv, [Next]_vars
  PROVE  NftInv'
  <1>0. /\ "cleanup" \notin {"setup", "forward", "masq"} /\ "init" \notin {"setup", "forward", "masq"}
        /\ "exit" \notin {"setup", "forward", "masq"} /\ "file" \notin {"setup", "forward", "masq"}
        /\ "run" \notin {"setup", "forward", "masq"} /\ "setup" \notin {"forward", "masq"}
        /\ "masq" \notin {"setup", "forward"} /\ "forward" \notin {"setup", "masq"}
    OBVIOUS
  <1>1. CASE CleanUp
    <2>1. main' = "init" /\ (nft' = nft \/ nft' = Absent)
      BY Zenon, <1>1 DEF CleanUp
    <2> QED BY Zenon, <1>0, <2>1 DEF NftInv, Tables
  <1>2. CASE InitManager
    <2>1. /\ main' = "setup" /\ enableNFT' = enableNFT
          /\ nft' = nft \/ nft' = [postrtg |-> Absent, forward |-> Absent]
          /\ enableNFT => nft' # nft \/ nft # Absent \/ nft' = [postrtg |-> Absent, forward |-> Absent]
      BY Zenon, <1>2 DEF InitManager
    <2>2. ASSUME nft' = [postrtg |-> Absent, forward |-> Absent] PROVE Tables'
      BY <2>2 DEF Tables
    <2>3. ASSUME nft' = nft, nft # Absent PROVE Tables'
      BY Zenon, <2>3 DEF NftInv, Tables
    <2> QED BY Zenon, <1>0, <2>1, <2>2, <2>3 DEF NftInv
  <1>3. CASE NftMasq
    <2>1. main = "setup" /\ main' = "forward" /\ enableNFT /\ enableNFT' = enableNFT
          /\ conf' = conf /\ nft' = [nft EXCEPT !.postrtg = addMasqRules(conf)]
      BY Zenon, <1>3 DEF NftMasq
    <2>2. Tables
      BY Zenon, <2>1 DEF NftInv
    <2>3. Tables' /\ nft'.postrtg = addMasqRules(conf)
      BY <2>1, <2>2 DEF Tables
    <2>4. addMasqRules(conf)' = addMasqRules(conf)
      BY Zenon, <2>1 DEF addMasqRules
    <2> QED BY Zenon, <1>0, <2>1, <2>3, <2>4 DEF NftInv
  <1>4. CASE NftForward
    <2>1. main = "forward" /\ main' = "file" /\ enableNFT
          /\ nft' = [nft EXCEPT !.forward = Tail(forwardRules(conf))]
      BY Zenon, <1>4 DEF NftForward
    <2>2. Tables
      BY Zenon, <2>1 DEF NftInv
    <2>3. Tables'
      BY Zenon, <2>1, <2>2 DEF Tables
    <2> QED BY Zenon, <1>0, <2>1, <2>3 DEF NftInv
  <1>5. CASE /\ nft' = nft /\ conf' = conf /\ enableNFT' = enableNFT
             /\ main' \in {main, "exit", "file", "run"} \/ (~enableNFT /\ main' \in {"masq", "forward"})
    BY Zenon, <1>0, <1>5 DEF NftInv, Tables, addMasqRules
  <1>6. CASE Restart
    <2>1. nft' = nft /\ main' = "cleanup"
      BY Zenon, <1>6 DEF Restart, Start
    <2> QED BY Zenon, <1>0, <2>1 DEF NftInv, Tables
  <1>7. ASSUME IptMasq \/ IptForward \/ WriteFile
        PROVE  /\ nft' = nft /\ conf' = conf /\ enableNFT' = enableNFT
               /\ main' \in {main, "run"} \/ (~enableNFT /\ main' = "masq")
    <2>1. CASE IptMasq
      BY Zenon, <2>1 DEF IptMasq, Frame
    <2>2. CASE IptForward
      BY Zenon, <2>2 DEF IptForward, Frame
    <2>3. CASE WriteFile
      BY Zenon, <2>3 DEF WriteFile
    <2> QED BY Zenon, <1>7, <2>1, <2>2, <2>3
  <1>8. ASSUME NEW w \in {"masq", "forward"}, Worker(w) \/ Resync(w)
        PROVE  /\ nft' = nft /\ conf' = conf /\ enableNFT' = enableNFT
               /\ main' \in {main, "exit", "file"} \/ (main = "masq" /\ main' = "forward")
    <2>1. CASE TeardownRule(w)
      BY Zenon, <2>1 DEF TeardownRule, Frame
    <2>2. CASE TeardownApply(w)
      BY Zenon, <2>2 DEF TeardownApply, Frame
    <2>3. CASE CreateIP4Chain(w)
      BY Zenon, <2>3 DEF CreateIP4Chain, Frame
    <2>4. CASE ipTablesCleanAndBuild(w)
      BY Zenon, <2>4 DEF ipTablesCleanAndBuild, Frame
    <2>5. CASE ipTablesBootstrap(w)
      <3>1. main' = IF main = w THEN (IF w = "masq" THEN "forward" ELSE "file") ELSE main
        BY Zenon, <2>5 DEF ipTablesBootstrap
      <3>2. main' \in {main, "exit", "file"} \/ (main = "masq" /\ main' = "forward")
        BY <3>1
      <3> QED BY Zenon, <2>5, <3>2 DEF ipTablesBootstrap, Frame
    <2>6. CASE ensureIPTables(w)
      BY Zenon, <2>6 DEF ensureIPTables, Frame
    <2>7. CASE Resync(w)
      BY Zenon, <2>7 DEF Resync, Frame
    <2> QED BY Zenon, <1>8, <2>1, <2>2, <2>3, <2>4, <2>5, <2>6, <2>7 DEF Worker
  <1>9. ASSUME Others \/ UNCHANGED vars
        PROVE  nft' = nft /\ conf' = conf /\ enableNFT' = enableNFT /\ main' = main
    <2>1. CASE \E c \in DOMAIN chain : \E i \in 1 .. 8 : DeleteRule(c, i)
      BY Zenon, <2>1 DEF DeleteRule
    <2>2. CASE \E t \in {"nat", "filter"} : FlushTable(t)
      BY Zenon, <2>2 DEF FlushTable
    <2>3. CASE MeshSNAT
      BY Zenon, <2>3 DEF MeshSNAT
    <2>4. CASE UNCHANGED vars
      BY Zenon, <2>4 DEF vars
    <2> QED BY Zenon, <1>9, <2>1, <2>2, <2>3, <2>4 DEF Others
  <1>10. main = "masq" => ~enableNFT
    BY Zenon DEF NftInv
  <1>11. CASE Workers
    <2>1. PICK w \in {"masq", "forward"} : Worker(w) \/ Resync(w)
      BY Zenon, <1>11 DEF Workers
    <2>2. /\ nft' = nft /\ conf' = conf /\ enableNFT' = enableNFT
          /\ main' \in {main, "exit", "file"} \/ (main = "masq" /\ main' = "forward")
      BY Zenon, <1>8, <2>1
    <2> QED BY Zenon, <1>5, <1>10, <2>2
  <1>12. CASE IptMasq \/ IptForward \/ WriteFile
    BY Zenon, <1>5, <1>7, <1>12
  <1>13. CASE Others \/ UNCHANGED vars
    BY Zenon, <1>5, <1>9, <1>13
  <1> QED BY Zenon, <1>1, <1>2, <1>3, <1>4, <1>6, <1>11, <1>12, <1>13 DEF Next, Flannel, MainStep

PostInv == chain[Post] # Absent

\* Nobody deletes POSTROUTING.
LEMMA PostKeeps ==
  ASSUME RulesInv, RestoredOK, PostInv, [Next]_vars
  PROVE  PostInv'
  <1>1. /\ TypeInv /\ ChainInv /\ DOMAIN chain = Chains
        /\ chain[Post] \in Seq(RuleType)
    BY Zenon, RulesParts, ChainsOfFacts DEF ChainInv, PostInv
  <1>2. <<>> \in Seq(RuleType)
    OBVIOUS
  <1>3. SUFFICES chain'[Post] \in Seq(RuleType)
    BY Zenon, AbsentAssumption DEF PostInv
  <1>4. CASE MainStep
    <2>1. CASE CleanUp
      BY Zenon, <1>1, <2>1, CleanUpKeeps
    <2>2. CASE InitManager \/ NftMasq \/ NftForward \/ WriteFile
      BY Zenon, <1>1, <2>2 DEF InitManager, NftMasq, NftForward, WriteFile
    <2>3. CASE IptMasq \/ IptForward
      BY Zenon, <1>1, <2>3 DEF IptMasq, IptForward
    <2> QED BY Zenon, <1>4, <2>1, <2>2, <2>3 DEF MainStep
  <1>5. ASSUME NEW w \in {"masq", "forward"}, Worker(w) \/ Resync(w)
        PROVE  chain'[Post] \in Seq(RuleType)
    <2>0. worker[w].payload \in Seq(Line)
      BY Zenon, <1>1 DEF TypeInv
    <2>1. CASE chain' = chain
      BY Zenon, <1>1, <2>1
    <2>2. CASE chain' = Restored(worker[w].payload)
      BY Zenon, <1>1, <2>0, <2>2, RestoredMembers, ChainsOfFacts DEF PostInv
    <2>3. CASE CreateIP4Chain(w)
      <3>1. ChainOf(w) \in {Postrtg, Fwd} /\ chain' = [chain EXCEPT ![ChainOf(w)] = <<>>]
        BY Zenon, <2>3 DEF CreateIP4Chain, ChainOf
      <3>2. ChainOf(w) # Post
        BY <3>1 DEF Post, Postrtg, Fwd
      <3> QED BY Zenon, <1>1, <3>1, <3>2, ChainsOfFacts
    <2>4. CASE ipTablesCleanAndBuild(w)
      BY Zenon, <1>1, <1>2, <2>4, WorkersKeep, ChainsOfFacts
    <2>5. TeardownRule(w) \/ ensureIPTables(w) \/ Resync(w) => chain' = chain
      BY Zenon DEF TeardownRule, ensureIPTables, Resync
    <2>6. TeardownApply(w) \/ ipTablesBootstrap(w) =>
            chain' = chain \/ chain' = Restored(worker[w].payload)
      BY Zenon DEF TeardownApply, ipTablesBootstrap
    <2> QED BY Zenon, <1>5, <2>1, <2>2, <2>3, <2>4, <2>5, <2>6 DEF Worker
  <1>6. CASE Restart
    BY Zenon, <1>1, <1>6 DEF Restart, Start
  <1>7. ASSUME NEW c \in DOMAIN chain, NEW i, DeleteRule(c, i)
        PROVE  chain'[Post] \in Seq(RuleType)
    <2>1. i \in DOMAIN chain[c] /\ chain' = [chain EXCEPT ![c] = WithoutAt(@, i)]
      BY Zenon, <1>7 DEF DeleteRule
    <2>2. CASE c = Post
      <3>1. WithoutAt(chain[Post], i) \in Seq(RuleType)
        BY Zenon, <1>1, <2>1, <2>2, WithoutAtFacts
      <3> QED BY Zenon, <1>1, <2>1, <2>2, <3>1, ChainsOfFacts
    <2>3. CASE c # Post
      BY Zenon, <1>1, <2>1, <2>3, ChainsOfFacts
    <2> QED BY Zenon, <2>2, <2>3
  <1>8. ASSUME NEW t, FlushTable(t) PROVE chain'[Post] \in Seq(RuleType)
    <2>1. Post \notin Own
      BY DEF Own, Post, Postrtg, Fwd
    <2>2. chain'[Post] \in {chain[Post], <<>>}
      BY Zenon, <1>1, <1>8, <2>1, ChainsOfFacts DEF FlushTable
    <2> QED BY Zenon, <1>1, <1>2, <2>2
  <1>9. CASE MeshSNAT
    <2>1. chain' = [chain EXCEPT ![Postrtg] = <<Head(@), hostSNATRule(conf)>> \o Tail(@)]
      BY Zenon, <1>9 DEF MeshSNAT
    <2> QED BY Zenon, <1>1, <2>1, ChainsOfFacts
  <1>10. CASE UNCHANGED vars
    BY Zenon, <1>1, <1>10 DEF vars
  <1>11. CASE Workers
    BY Zenon, <1>5, <1>11 DEF Workers
  <1>12. CASE Others
    BY Zenon, <1>7, <1>8, <1>9, <1>12 DEF Others
  <1> QED BY Zenon, <1>4, <1>6, <1>10, <1>11, <1>12 DEF Next, Flannel

\* No step of flannel changes the way of a packet of the overlay.
LEMMA FlannelNat ==
  ASSUME LeastOK, RulesInv, RestoredOK, PostInv, NftInv, Flannel
  PROVE  \A p \in Overlay : Natted(p)' => Natted(p)
  \* The verdict of a list is the target of the first rule that matches.
  <1>FirstMatchFacts.
    ASSUME NEW X, NEW s \in Seq(X), NEW p
    PROVE  \/ FirstMatch(s, p) = "none"
           \/ \E i \in DOMAIN s : First(s, p, i) /\ FirstMatch(s, p) = s[i].target
    <2> USE <1>FirstMatchFacts
    <2> DEFINE m == {i \in DOMAIN s : /\ s[i].mark => p.mark
                                      /\ p.src \in s[i].src /\ p.dst \in s[i].dst}
               a == CHOOSE i \in m : \A j \in m : i <= j
    <2>1. FirstMatch(s, p) = IF m = {} THEN "none" ELSE s[a].target
      BY Zenon DEF FirstMatch
    <2>2. \A i : i \in m <=> i \in DOMAIN s /\ Matches(s[i], p)
      BY Zenon DEF Matches
    <2>3. m \in SUBSET Nat
      <3>1. DOMAIN s \subseteq Nat
        OBVIOUS
      <3> QED BY Zenon, <3>1
    <2> HIDE DEF m
    <2>4. CASE m # {}
      <3>1. \E i \in m : \A j \in m : i <= j
        BY Zenon, <2>3, <2>4 DEF LeastOK
      <3>2. a \in m /\ \A j \in m : a <= j
        BY Zenon, <3>1
      <3> HIDE DEF a
      <3>3. First(s, p, a) /\ a \in DOMAIN s
        BY Zenon, <2>2, <3>2 DEF First
      <3>4. FirstMatch(s, p) = s[a].target
        BY Zenon, <2>1, <2>4
      <3> QED BY Zenon, <3>3, <3>4
    <2> QED BY Zenon, <2>1, <2>4

  \* An empty chain has no verdict.
  <1>EmptyMatch.
    ASSUME NEW s, DOMAIN s = {}, NEW p
    PROVE  FirstMatch(s, p) = "none"
    BY Zenon, <1>EmptyMatch DEF FirstMatch

  \* A packet is NATted by the iptables chains or by the nftables ones.
  <1>NattedParts.
    ASSUME NEW p
    PROVE  /\ Natted(p) <=> IptNat(chain, p) \/ NftNat(nft, p)
           /\ Natted(p)' <=> IptNat(chain', p) \/ NftNat(nft', p)
    <2> USE <1>NattedParts
    <2>1. "none" \notin Changing
      BY DEF Changing
    <2>2. Natted(p) <=> IptNat(chain, p) \/ NftNat(nft, p)
      BY Zenon, <2>1 DEF Natted, Verdict, IptNat, NftNat, Changing
    <2>3. Natted(p)' <=> IptNat(chain', p) \/ NftNat(nft', p)
      BY Zenon, <2>1 DEF Natted, Verdict, IptNat, NftNat, Changing
    <2> QED BY Zenon, <2>2, <2>3

  \* What a packet of the overlay network is.
  <1>OverlayFacts.
    ASSUME conf \in Configs, NEW p \in Overlay
    PROVE  /\ p.src \in conf.net /\ p.dst \in conf.net /\ p.src \in Zones /\ p.dst \in Zones
           /\ p.src \in conf.sub \/ p.dst \in conf.sub
           /\ p.src # "out" /\ p.mark \in BOOLEAN
    <2> USE <1>OverlayFacts
    <2>1. p \in Packets /\ p.src \in conf.net /\ p.dst \in conf.net /\ (p.src \in conf.sub \/ p.dst \in conf.sub)
      BY Zenon DEF Overlay
    <2>2. p.src \in Zones /\ p.dst \in Zones /\ p.mark \in BOOLEAN
      BY Zenon, <2>1 DEF Packets
    <2>3. "out" \notin conf.net
      BY Zenon, ZoneFacts
    <2> QED BY Zenon, <2>1, <2>2, <2>3

  \* Where flannel's chains are emptied or deleted, no packet comes to be changed.
  <1>CutNat.
    ASSUME chain'[Post] \in {chain[Post], <<>>}, chain'[Postrtg] \in {Absent, <<>>, chain[Postrtg]},
           NEW p, IptNat(chain', p)
    PROVE  IptNat(chain, p)
    <2> USE <1>CutNat
    <2>1. DOMAIN <<>> = {} /\ "none" # Postrtg /\ "none" \notin Changing
      BY DEF Postrtg, Changing
    <2>2. FirstMatch(<<>>, p) = "none"
      BY Zenon, <2>1, <1>EmptyMatch
    <2> QED BY Zenon, <2>1, <2>2 DEF IptNat

  \* What a rule of a list matches.
  <1>MasqMatches.
    ASSUME conf \in Configs, NEW p \in Overlay
    PROVE  LET R == masqRules(conf)
           IN  /\ \A j \in 1 .. 7 : R[j].target \in Changing /\ Matches(R[j], p) => j = 6
               /\ Matches(R[3], p) \/ Matches(R[4], p)
               /\ ~Matches(hostSNATRule(conf), p)
               /\ R[3].chain = Postrtg /\ R[4].chain = Postrtg
    <2> USE <1>MasqMatches
    <2> DEFINE R == masqRules(conf)
    <2>0. /\ R[1] = Jump
          /\ R[2] = Rule(Postrtg, TRUE, Zones, Zones, "RETURN")
          /\ R[3] = Rule(Postrtg, FALSE, conf.sub, conf.net, "RETURN")
          /\ R[4] = Rule(Postrtg, FALSE, conf.net, conf.sub, "RETURN")
          /\ R[5] = Rule(Postrtg, FALSE, Zones \ conf.net, conf.sub, "RETURN")
          /\ R[7] = Rule(Postrtg, FALSE, Zones \ conf.net, conf.net, "MASQUERADE")
      BY Zenon, MasqRules
    <2>1. /\ R[1].target = Postrtg /\ R[2].target = "RETURN" /\ R[3].target = "RETURN"
          /\ R[4].target = "RETURN" /\ R[5].target = "RETURN" /\ R[7].src = Zones \ conf.net
          /\ R[3].mark = FALSE /\ R[3].src = conf.sub /\ R[3].dst = conf.net /\ R[3].chain = Postrtg
          /\ R[4].mark = FALSE /\ R[4].src = conf.net /\ R[4].dst = conf.sub /\ R[4].chain = Postrtg
          /\ hostSNATRule(conf).src = {"out"}
      <3> HIDE DEF R
      <3> QED BY <2>0, JumpFacts DEF Rule, hostSNATRule
    <2>2. /\ p.src \in conf.net /\ p.dst \in conf.net /\ p.src # "out"
          /\ p.src \in conf.sub \/ p.dst \in conf.sub
      BY Zenon, <1>OverlayFacts
    <2> HIDE DEF R
    <2>3. /\ R[1].target \notin Changing /\ R[2].target \notin Changing /\ R[3].target \notin Changing
          /\ R[4].target \notin Changing /\ R[5].target \notin Changing /\ ~Matches(R[7], p)
          /\ Matches(R[3], p) \/ Matches(R[4], p)
          /\ ~Matches(hostSNATRule(conf), p)
      <3>1. ~Matches(R[7], p) /\ ~Matches(hostSNATRule(conf), p)
        BY Zenon, <2>1, <2>2 DEF Matches
      <3>2. Matches(R[3], p) \/ Matches(R[4], p)
        BY Zenon, <2>1, <2>2 DEF Matches
      <3>3. "RETURN" \notin Changing /\ Postrtg \notin Changing
        BY DEF Changing, Postrtg
      <3> QED BY Zenon, <2>1, <3>1, <3>2, <3>3
    <2>4. ASSUME NEW j \in 1 .. 7 PROVE j \in {1, 2, 3, 4, 5, 6, 7}
      OBVIOUS
    <2>5. \A j \in 1 .. 7 : R[j].target \in Changing /\ Matches(R[j], p) => j = 6
      BY Zenon, <2>3, <2>4
    <2> QED BY Zenon, <2>1, <2>3, <2>5 DEF R

  \* A restore that names the rules in their order puts the returns for the overlay network
  \* before the masquerade.
  <1>BootstrapNat.
    ASSUME worker["masq"].pc = "build",
           worker["masq"].i > Len(Wanted("masq")),
           chain[Postrtg] # Absent, chain' = Restored(worker["masq"].payload),
           NEW p \in Overlay
    PROVE  FirstMatch(chain'[Postrtg], p) \notin Changing
    <2> USE <1>BootstrapNat
    <2> DEFINE pl == worker["masq"].payload
               R == masqRules(conf)
               s == chain[Postrtg]
               q == chain'[Postrtg]
    <2>1. /\ TypeInv /\ ChainInv /\ pl \in Seq(Line) /\ DOMAIN chain = Chains /\ conf \in Configs
          /\ s \in Seq(RuleType) /\ \A k \in DOMAIN s : s[k].chain = Postrtg
      BY Zenon, RulesParts, ChainsOfFacts DEF TypeInv
    <2>2. Wanted("masq") = R /\ Len(R) = 7
      BY Zenon, MasqRules DEF Wanted
    <2>3. Follows(pl, R, 7) /\ \A j \in 1 .. 7 : Deletes(pl, R[j]) \/ ~Has(chain, R[j])
      BY Zenon, <2>2, BuiltWhole
    <2>4. \A k \in DOMAIN s : OfRun(s[k], conf)
      <3>1. "build" \in Building
        BY DEF Building
      <3> QED BY Zenon, <3>1 DEF RulesInv, ContentInv, Contents
    <2>5. /\ \A i, j \in 1 .. 7 : R[i] = R[j] => i = j
          /\ \A j \in 1 .. 7 : R[j].target \in Changing /\ Matches(R[j], p) => j = 6
          /\ Matches(R[3], p) \/ Matches(R[4], p)
          /\ ~Matches(hostSNATRule(conf), p)
          /\ R[3].chain = Postrtg /\ R[4].chain = Postrtg
      BY Zenon, <2>1, <1>MasqMatches, MasqDistinct
    <2>6. PICK n \in Nat, m \in Nat : \E f \in [1 .. n -> DOMAIN s], g \in [1 .. m -> DOMAIN pl] :
             Restores(q, s, pl, Postrtg, n, m, f, g)
      BY Zenon, <2>1, ChainsOfFacts DEF RestoredOK
    <2>7. PICK f \in [1 .. n -> DOMAIN s], g \in [1 .. m -> DOMAIN pl] :
             Restores(q, s, pl, Postrtg, n, m, f, g)
      BY Zenon, <2>6
    <2> HIDE DEF q, R, pl
    <2>8. q \in Seq(RuleType) /\ DOMAIN q = 1 .. n + m
      BY <2>7 DEF Restores
    <2>9. ASSUME NEW i \in 1 .. n PROVE ~Matches(q[i], p)
      <3>1. f[i] \in DOMAIN s /\ q[i] = s[f[i]] /\ ~Deletes(pl, q[i])
        BY Zenon, <2>7 DEF Restores
      <3>2. ASSUME NEW j \in 1 .. 7, q[i] = R[j] PROVE FALSE
        <4>1. Has(chain, R[j])
          BY Zenon, <2>1, <3>1, <3>2 DEF Has
        <4> QED BY Zenon, <2>3, <3>1, <3>2, <4>1
      <3>3. q[i] = hostSNATRule(conf)
        BY Zenon, <2>4, <3>1, <3>2 DEF OfRun, R
      <3> QED BY Zenon, <2>5, <3>3
    <2>10. SUFFICES ASSUME NEW x \in DOMAIN q, First(q, p, x), q[x].target \in Changing
                    PROVE  FALSE
      <3>1. "none" \notin Changing
        BY DEF Changing
      <3> QED BY Zenon, <2>8, <3>1, <1>FirstMatchFacts DEF q
    <2>11. Matches(q[x], p) /\ \A j \in DOMAIN q : Matches(q[j], p) => x <= j
      BY Zenon, <2>10 DEF First
    <2>12. PICK i \in 1 .. m : x = n + i
      <3>1. x \notin 1 .. n
        BY Zenon, <2>9, <2>11
      <3>2. x - n \in 1 .. m /\ x = n + (x - n)
        BY <2>8, <3>1
      <3> QED BY Zenon, <3>2
    <2>13. /\ g[i] \in DOMAIN pl /\ q[x] = pl[g[i]].r /\ pl[g[i]].op = "-A"
      BY Zenon, <2>7, <2>12 DEF Restores
    <2>14. q[x] = R[6]
      <3>1. \A k \in DOMAIN pl : \E j \in 1 .. 7 : pl[k].r = R[j]
        BY Zenon, <2>3 DEF Follows
      <3>2. PICK j \in 1 .. 7 : pl[g[i]].r = R[j]
        BY Zenon, <2>13, <3>1
      <3> QED BY Zenon, <2>5, <2>10, <2>11, <2>13, <3>2
    <2>15. PICK a \in {3, 4} : Matches(R[a], p) /\ R[a].chain = Postrtg
      BY Zenon, <2>5
    <2>16. a \in 1 .. 7 /\ 6 \in 1 .. 7 /\ a # 6 /\ ~(6 < a)
      OBVIOUS
    <2>17. PICK k \in DOMAIN pl : pl[k].op = "-A" /\ pl[k].r = R[a]
      BY Zenon, <2>3, <2>16 DEF Follows
    <2>18. PICK l \in 1 .. m : g[l] = k
      BY Zenon, <2>7, <2>15, <2>17 DEF Restores
    <2>19. ~(g[i] < g[l])
      <3>1. SUFFICES ASSUME g[i] < g[l] PROVE FALSE
        BY Zenon
      <3>2. PICK b \in 1 .. 7, c \in 1 .. 7 : b < c /\ pl[g[i]].r = R[b] /\ pl[k].r = R[c]
        BY Zenon, <2>3, <2>13, <2>17, <2>18, <3>1 DEF Follows
      <3>3. b = 6 /\ c = a
        BY ZenonT(40), <2>5, <2>13, <2>14, <2>16, <2>17, <3>2
      <3> QED BY Zenon, <2>16, <3>2, <3>3
    <2>20. l # i
      <3>1. SUFFICES ASSUME l = i PROVE FALSE
        BY Zenon
      <3>2. pl[g[i]].r = R[a] /\ pl[g[i]].r = R[6]
        BY Zenon, <2>13, <2>14, <2>17, <2>18, <3>1
      <3> QED BY Zenon, <2>5, <2>16, <3>2
    <2>21. ~(i < l)
      <3>1. \A b, c \in 1 .. m : b < c => g[b] < g[c]
        BY Zenon, <2>7 DEF Restores
      <3> QED BY Zenon, <2>19, <3>1
    <2>22. l < i
      BY <2>20, <2>21
    <2>23. n + l \in DOMAIN q /\ q[n + l] = R[a]
      <3>1. n + l \in DOMAIN q
        BY <2>8
      <3> QED BY Zenon, <2>7, <2>17, <2>18, <3>1 DEF Restores
    <2>24. x <= n + l
      BY Zenon, <2>11, <2>15, <2>23
    <2> QED BY <2>12, <2>22, <2>24

  \* After a teardown nothing jumps to flannel's chain, or there is none.
  <1>TeardownNat.
    ASSUME chain[Post] # Absent, worker["masq"].pc = "teardown",
           worker["masq"].i > Len(RulesOf("masq")), chain' = Restored(worker["masq"].payload), NEW p
    PROVE  ~IptNat(chain', p)
    <2> USE <1>TeardownNat
    <2> DEFINE pl == worker["masq"].payload
    <2>1. TypeInv /\ pl \in Seq(Line) /\ DOMAIN chain = Chains /\ worker["masq"].i \in Nat \ {0}
      BY Zenon, RulesParts DEF TypeInv
    <2>2. worker["masq"].i > 1
      <3>1. Len(RulesOf("masq")) = 7
        BY Zenon, <2>1, RulesOfFacts
      <3> DEFINE i == worker["masq"].i
      <3>2. i \in Nat /\ i > 7
        BY Zenon, <2>1, <3>1
      <3> HIDE DEF i
      <3>3. i > 1
        BY <3>2
      <3> QED BY Zenon, <3>3 DEF i
    <2>3. /\ \A k \in DOMAIN pl : pl[k].op = "-D"
          /\ Deletes(pl, Jump) \/ ~Has(chain, Jump) \/ chain[Postrtg] = Absent
      BY Zenon, <2>2 DEF RulesInv, TeardownInv, Torn
    <2>4. CASE chain[Postrtg] = Absent
      <3>1. chain'[Postrtg] = Absent
        BY Zenon, <2>1, <2>4, ChainsOfFacts DEF Restored
      <3> QED BY Zenon, <3>1 DEF IptNat
    <2>5. CASE Deletes(pl, Jump) \/ ~Has(chain, Jump)
      <3>1. \A i \in DOMAIN chain'[Post] : Remains(Post, chain'[Post][i], pl)
        BY Zenon, <2>1, RestoredMembers, ChainsOfFacts
      <3>2. \A k \in DOMAIN chain[Post] : chain[Post][k] = Jump
        BY Zenon DEF RulesInv, ContentInv, Contents
      <3>3. "-A" # "-D"
        OBVIOUS
      <3>4. ASSUME NEW i \in DOMAIN chain'[Post] PROVE FALSE
        <4>1. \E k \in DOMAIN chain[Post] : chain[Post][k] = chain'[Post][i]
          BY Zenon, <2>3, <3>1, <3>3 DEF Remains
        <4>2. chain'[Post][i] = Jump /\ ~Deletes(pl, Jump)
          BY Zenon, <2>3, <3>1, <3>2, <3>3, <4>1 DEF Remains
        <4>3. Has(chain, Jump)
          BY Zenon, <4>1, <4>2, JumpFacts DEF Has
        <4> QED BY Zenon, <2>5, <4>2, <4>3
      <3>5. FirstMatch(chain'[Post], p) = "none"
        BY Zenon, <3>4, <1>EmptyMatch
      <3>6. "none" # Postrtg
        BY DEF Postrtg
      <3> QED BY Zenon, <3>5, <3>6 DEF IptNat
    <2> QED BY Zenon, <2>3, <2>4, <2>5

  \* The rules of nftables return the packets of the overlay network.
  <1>NftReturns.
    ASSUME conf \in Configs, NEW p \in Overlay
    PROVE  FirstMatch(addMasqRules(conf), p) \notin Changing
    <2> USE <1>NftReturns
    <2> DEFINE R == addMasqRules(conf)
    <2>1. /\ Len(R) = 6 /\ DOMAIN R = 1 .. 6 /\ R \in Seq({R[1], R[2], R[3], R[4], R[5], R[6]})
          /\ R[1].target = "RETURN" /\ R[2].target = "RETURN" /\ R[3].target = "RETURN"
          /\ R[4].target = "RETURN"
          /\ R[2].mark = FALSE /\ R[2].src = conf.sub /\ R[2].dst = conf.net
          /\ R[3].mark = FALSE /\ R[3].src = conf.net /\ R[3].dst = conf.sub
      BY DEF addMasqRules, Rule
    <2>2. /\ p.src \in conf.net /\ p.dst \in conf.net
          /\ p.src \in conf.sub \/ p.dst \in conf.sub
      BY Zenon, <1>OverlayFacts
    <2> HIDE DEF R
    <2>3. PICK a \in {2, 3} : Matches(R[a], p)
      BY Zenon, <2>1, <2>2 DEF Matches
    <2>4. "RETURN" \notin Changing /\ "none" \notin Changing
      BY DEF Changing
    <2>5. ASSUME NEW i \in DOMAIN R, First(R, p, i) PROVE R[i].target \notin Changing
      <3>1. a \in DOMAIN R
        BY <2>1
      <3>2. i <= a
        BY Zenon, <2>3, <2>5, <3>1 DEF First
      <3>3. i \in {1, 2, 3}
        BY <2>1, <3>2
      <3> QED BY Zenon, <2>1, <2>4, <3>3
    <2> QED BY ZenonT(40), <2>1, <2>4, <2>5, <1>FirstMatchFacts DEF R

  \* No step of a goroutine makes a packet of the overlay network change.
  <1>WorkerNat.
    ASSUME NEW w \in {"masq", "forward"},
           Worker(w) \/ Resync(w), NEW p \in Overlay, IptNat(chain', p)
    PROVE  IptNat(chain, p)
    <2> USE <1>WorkerNat
    <2>1. TypeInv /\ ChainInv /\ DOMAIN chain = Chains /\ "masq" # "forward"
      BY Zenon, RulesParts DEF ChainInv
    <2>2. CASE chain' = chain
      BY Zenon, <2>2
    <2>3. CASE TeardownApply(w)
      <3>1. worker[w].pc = "teardown" /\ worker[w].i > Len(RulesOf(w))
            /\ (chain' = chain \/ chain' = Restored(worker[w].payload))
        BY Zenon, <2>3 DEF TeardownApply
      <3>2. w = "masq"
        BY Zenon, <2>1, <3>1 DEF TypeInv
      <3> QED BY Zenon, <2>2, <3>1, <3>2, <1>TeardownNat DEF PostInv
    <2>4. CASE CreateIP4Chain(w)
      <3>1. chain' = [chain EXCEPT ![ChainOf(w)] = <<>>] /\ ChainOf(w) \in {Postrtg, Fwd}
        BY Zenon, <2>4 DEF CreateIP4Chain, ChainOf
      <3>2. ChainOf(w) # Post
        BY <3>1 DEF Post, Postrtg, Fwd
      <3>3. chain'[Post] = chain[Post] /\ chain'[Postrtg] \in {<<>>, chain[Postrtg]}
        BY Zenon, <2>1, <3>1, <3>2, ChainsOfFacts
      <3> QED BY Zenon, <3>3, <1>CutNat
    <2>5. CASE ipTablesCleanAndBuild(w)
      <3>1. chain'[Post] \in {chain[Post], <<>>} /\ chain'[Postrtg] \in {chain[Postrtg], <<>>}
        BY Zenon, <2>5, WorkersKeep, ChainsOfFacts
      <3> QED BY Zenon, <3>1, <1>CutNat
    <2>6. CASE ipTablesBootstrap(w) /\ chain' # chain
      <3>1. worker[w].pc = "build" /\ worker[w].i > Len(RulesOf(w)) /\ chain' = Restored(worker[w].payload)
        BY Zenon, <2>6 DEF ipTablesBootstrap
      <3>2. "build" # "teardown"
        OBVIOUS
      <3>3. worker[w].i > Len(Wanted(w))
        BY Zenon, <2>1, <3>1, <3>2, RulesOfFacts
      <3>4. CASE w = "masq"
        <4>1. CASE chain[Postrtg] = Absent
          <5>1. chain'[Postrtg] = Absent
            BY Zenon, <2>1, <3>1, <4>1, ChainsOfFacts DEF Restored
          <5> QED BY Zenon, <5>1 DEF IptNat
        <4>2. CASE chain[Postrtg] # Absent
          <5>1. FirstMatch(chain'[Postrtg], p) \notin Changing
            BY Zenon, <3>1, <3>3, <3>4, <4>2, <1>BootstrapNat
          <5> QED BY Zenon, <5>1 DEF IptNat
        <4> QED BY Zenon, <4>1, <4>2
      <3>5. CASE w = "forward"
        <4>1. chain'[Post] = chain[Post] /\ chain'[Postrtg] = chain[Postrtg]
          <5>1. \A c \in Chains \ ChainsOf(w) : chain'[c] = chain[c]
            BY Zenon, <3>1, <3>3, RestoreBuilt
          <5> QED BY Zenon, <3>5, <5>1, ChainsOfFacts
        <4> QED BY Zenon, <4>1, <1>CutNat
      <3> QED BY Zenon, <3>4, <3>5
    <2>7. TeardownRule(w) \/ ensureIPTables(w) \/ Resync(w) => chain' = chain
      BY Zenon DEF TeardownRule, ensureIPTables, Resync
    <2> QED BY Zenon, <2>2, <2>3, <2>4, <2>5, <2>6, <2>7 DEF Worker

  \* No step of flannel does.
  <1>PacketKept.
    ASSUME NEW p \in Overlay, Natted(p)'
    PROVE  Natted(p)
    <2> USE <1>PacketKept
    <2>0. conf \in Configs
      BY Zenon, RulesParts DEF WorkerInv
    <2>1. CASE CleanUp
      <3>1. IptNat(chain', p) => IptNat(chain, p)
        BY Zenon, <2>1, CleanUpKeeps, <1>CutNat
      <3>2. nft' = nft \/ nft' = Absent
        BY Zenon, <2>1 DEF CleanUp
      <3>3. NftNat(nft', p) => NftNat(nft, p)
        BY Zenon, <3>2 DEF NftNat
      <3> QED BY Zenon, <3>1, <3>3, <1>NattedParts
    <2>2. CASE InitManager
      <3>1. chain' = chain /\ (nft' = nft \/ nft' = [postrtg |-> Absent, forward |-> Absent])
        BY Zenon, <2>2 DEF InitManager
      <3>2. ASSUME nft' = [postrtg |-> Absent, forward |-> Absent] PROVE ~NftNat(nft', p)
        <4>1. nft'.postrtg = Absent
          BY <3>2
        <4> QED BY Zenon, <4>1 DEF NftNat
      <3> QED BY Zenon, <3>1, <3>2, <1>NattedParts
    <2>3. CASE NftMasq
      <3>1. main = "setup" /\ enableNFT /\ chain' = chain
            /\ nft' = [nft EXCEPT !.postrtg = addMasqRules(conf)]
        BY Zenon, <2>3 DEF NftMasq
      <3>2. nft'.postrtg = addMasqRules(conf)
        <4>1. Tables
          BY Zenon, <3>1 DEF NftInv
        <4> QED BY <3>1, <4>1 DEF Tables
      <3>3. ~NftNat(nft', p)
        BY Zenon, <2>0, <3>2, <1>NftReturns DEF NftNat
      <3> QED BY Zenon, <3>1, <3>3, <1>NattedParts
    <2>4. CASE NftForward
      <3>1. main = "forward" /\ enableNFT /\ chain' = chain
            /\ nft' = [nft EXCEPT !.forward = Tail(forwardRules(conf))]
        BY Zenon, <2>4 DEF NftForward
      <3>2. nft'.postrtg = addMasqRules(conf)
        <4>1. Tables /\ nft.postrtg = addMasqRules(conf)
          BY Zenon, <3>1 DEF NftInv
        <4>2. nft'.postrtg = nft.postrtg
          BY <3>1, <4>1 DEF Tables
        <4> QED BY Zenon, <4>1, <4>2
      <3>3. ~NftNat(nft', p)
        BY Zenon, <2>0, <3>2, <1>NftReturns DEF NftNat
      <3> QED BY Zenon, <3>1, <3>3, <1>NattedParts
    <2>5. CASE IptMasq \/ IptForward \/ WriteFile
      <3>1. chain' = chain /\ nft' = nft
        BY Zenon, <2>5 DEF IptMasq, IptForward, WriteFile, Frame
      <3> QED BY Zenon, <3>1, <1>NattedParts
    <2>6. CASE Workers
      <3>1. PICK w \in {"masq", "forward"} : Worker(w) \/ Resync(w)
        BY Zenon, <2>6 DEF Workers
      <3>2. nft' = nft
        BY Zenon, <3>1 DEF Worker, Resync, TeardownRule, TeardownApply, CreateIP4Chain,
             ipTablesCleanAndBuild, ipTablesBootstrap, ensureIPTables, Frame
      <3>3. IptNat(chain', p) => IptNat(chain, p)
        BY Zenon, <3>1, <1>WorkerNat
      <3> QED BY Zenon, <3>2, <3>3, <1>NattedParts
    <2> QED BY Zenon, <2>1, <2>2, <2>3, <2>4, <2>5, <2>6 DEF Flannel, MainStep

  <1> QED BY Zenon, <1>PacketKept

\* The first start.
LEMMA InitNat ==
  ASSUME Init
  PROVE  PostInv /\ NftInv
  <1>1. /\ chain = [c \in Chains |-> IF c \in Own THEN Absent ELSE <<>>]
        /\ nft = Absent /\ main = "cleanup"
    BY Zenon DEF Init
  <1>2. Post \notin Own /\ "cleanup" \notin {"setup", "forward", "masq"} /\ <<>> \in Seq(RuleType)
    BY DEF Own, Post, Postrtg, Fwd
  <1>3. chain[Post] = <<>>
    BY Zenon, <1>1, <1>2, ChainsOfFacts
  <1> QED BY Zenon, <1>1, <1>2, <1>3, AbsentAssumption DEF PostInv, NftInv

-----------------------------------------------------------------------------
(* The hypotheses. From here on the library of finite sets is in use.      *)

INSTANCE FiniteSetTheorems

\* The facts about finite sets are theorems of the library.
LEMMA CardinalityHolds == CardinalityOK
  <1>1. ASSUME NEW n \in Nat PROVE IsFiniteSet(1 .. n) /\ Cardinality(1 .. n) = n
    BY FS_Interval
  <1>2. ASSUME NEW S, IsFiniteSet(S) PROVE Cardinality(S) \in Nat
    BY Zenon, <1>2, FS_CardinalityType
  <1>3. ASSUME NEW S, IsFiniteSet(S), NEW T \in SUBSET S
        PROVE  IsFiniteSet(T) /\ Cardinality(T) <= Cardinality(S)
    BY Zenon, <1>3, FS_Subset
  <1>4. Cardinality({}) = 0 /\ \A S : IsFiniteSet(S) /\ Cardinality(S) = 0 => S = {}
    BY Zenon, FS_EmptySet
  <1>5. ASSUME NEW S, IsFiniteSet(S), NEW x \in S
        PROVE  IsFiniteSet(S \ {x}) /\ Cardinality(S \ {x}) = Cardinality(S) - 1
    BY ZenonT(40), <1>5, FS_RemoveElement
  <1>6. ASSUME NEW S, NEW T, IsFiniteSet(T), Cardinality(S) = Cardinality(T), NEW f \in [S -> T],
               OneToOne(S, f)
        PROVE  Covers(S, T, f)
    <2>1. f \in Injection(S, T)
      BY Zenon, <1>6 DEF Injection, IsInjective, OneToOne
    <2>2. f \in Surjection(S, T)
      BY ZenonT(40), <1>6, <2>1, FS_Injection
    <2> QED BY Zenon, <2>2 DEF Surjection, Covers
  <1>7. \A S : IsFiniteSet(S) => Cardinality(S) \in Nat
    BY Zenon, <1>2
  <1>8. \A S : IsFiniteSet(S) =>
          \A T \in SUBSET S : IsFiniteSet(T) /\ Cardinality(T) <= Cardinality(S)
    BY Zenon, <1>3
  <1>9. \A S : IsFiniteSet(S) => \A x \in S :
          IsFiniteSet(S \ {x}) /\ Cardinality(S \ {x}) = Cardinality(S) - 1
    BY Zenon, <1>5
  <1>10. \A S, T : IsFiniteSet(T) /\ Cardinality(S) = Cardinality(T) =>
           \A f \in [S -> T] : OneToOne(S, f) => Covers(S, T, f)
    BY Zenon, <1>6
  <1> QED BY ZenonT(40), <1>1, <1>4, <1>7, <1>8, <1>9, <1>10 DEF CardinalityOK

\* A set of numbers that is not empty has a least one.
LEMMA LeastHolds == LeastOK
  <1> SUFFICES ASSUME NEW S \in SUBSET Nat, S # {} PROVE \E i \in S : \A j \in S : i <= j
    BY Zenon DEF LeastOK
  <1> DEFINE R == OpToRel(<, Nat)
  <1>1. R = {p \in Nat \X Nat : p[1] < p[2]}
    BY DEF OpToRel
  <1>2. IsWellFoundedOn(R, Nat)
    BY Zenon, NatLessThanWellFounded
  <1> HIDE DEF R
  <1>3. PICK x \in S : \A y \in S : ~ (<<y, x>> \in R)
    BY Zenon, <1>2, WFMin
  <1>4. ASSUME NEW y \in S PROVE x <= y
    <2>1. x \in Nat /\ y \in Nat /\ <<y, x>> \notin R
      BY <1>3
    <2>2. <<y, x>> \in Nat \X Nat /\ <<y, x>>[1] = y /\ <<y, x>>[2] = x
      BY <2>1
    <2>3. ~(y < x)
      BY ZenonT(40), <1>1, <2>1, <2>2
    <2> QED BY SMTT(30), <2>1, <2>3
  <1> QED BY <1>4

-----------------------------------------------------------------------------

TrafficInv == RulesInv /\ PostInv /\ NftInv

\* The invariant holds at the first start and is kept by every step, of main, of the two
\* goroutines, of a new flanneld and of other programs.
THEOREM TrafficInvariant == Spec => []TrafficInv
  <1>1. Init => TrafficInv
    BY Zenon, InitRules, InitNat DEF TrafficInv
  <1>2. TrafficInv /\ [Next]_vars => TrafficInv'
    <2> SUFFICES ASSUME RulesInv, PostInv, NftInv, [Next]_vars PROVE TrafficInv'
      BY Zenon DEF TrafficInv
    <2>1. RestoredOK
      BY Zenon, RulesParts, RestoredHolds, CardinalityHolds
    <2> QED BY ZenonT(40), <2>1, StepKeeps, PostKeeps, NftKeeps DEF TrafficInv
  <1> QED BY <1>1, <1>2, PTL DEF Spec

\* No rule is ever in a chain twice: whatever the goroutines' view of the chains when
\* ipTablesCleanAndBuild looked the rules up, a restore deletes each rule it appends or
\* the rule is in no chain, because only the goroutine of a list puts its rules back.
THEOREM RulesOnce == Spec => []NoDuplicates
  <1>1. TrafficInv => NoDuplicates
    BY Zenon DEF TrafficInv, RulesInv
  <1> QED BY <1>1, TrafficInvariant, PTL

\* No step of flannel makes traffic within the overlay network change its address: a
\* restore has the RETURN rules before the MASQUERADE, a teardown takes the jump away
\* with the rules, and a chain is cleared before it is filled.
THEOREM OverlayUntouched == Spec => OverlayNotNatted
  <1>1. TrafficInv /\ [Next]_vars => [Flannel => \A p \in Overlay : Natted(p)' => Natted(p)]_vars
    <2> SUFFICES ASSUME TrafficInv, Flannel, NEW p \in Overlay, Natted(p)' PROVE Natted(p)
      BY Zenon
    <2>1. RulesInv /\ PostInv /\ NftInv
      BY Zenon DEF TrafficInv
    <2>2. RestoredOK
      BY Zenon, <2>1, RulesParts, RestoredHolds, CardinalityHolds
    <2> QED BY ZenonT(40), <2>1, <2>2, LeastHolds, FlannelNat
  <1> QED BY <1>1, TrafficInvariant, PTL DEF Spec, OverlayNotNatted

=============================================================================
