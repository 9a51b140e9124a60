----------------------------- MODULE Calls_proofs -----------------------------
(***************************************************************************)
(* Lemmas about the pure functions of SfuCalls and NodeCalls, for any      *)
(* arguments, up to CallAnswered and NodeCallAnswered: every call of those *)
(* modules returns what its property says.  PureFunctions_proofs has the   *)
(* theorems.                                                               *)
(***************************************************************************)
EXTENDS SfuCalls, NodeCalls, FiniteSetTheorems, SequenceTheorems, WellFoundedInduction, TLAPS

(* What a filter keeps.  Induction is the absence of a least exception.     *)

\* A nonempty set of naturals has a least element.
LEMMA LeastOne ==
    ASSUME NEW N \in SUBSET Nat, N # {}
    PROVE  \E n \in N : \A m \in N : n <= m
  <1>1. PICK n \in N : \A m \in N : <<m, n>> \notin OpToRel(<, Nat)
    BY NatLessThanWellFounded, WFMin
  <1>2. ASSUME NEW m \in N PROVE n <= m
    <2>1. ~(m < n)
      BY <1>1 DEF OpToRel
    <2> QED
      BY <2>1
  <1> QED
    BY <1>2

\* The greatest of finitely many naturals.
LEMMA GreatestIs ==
    ASSUME NEW m \in Nat, NEW N \in SUBSET (0 .. m), N # {}
    PROVE  Max(N) \in N /\ \A n \in N : n <= Max(N)
  <1> DEFINE D == {k \in Nat : \E n \in N : k = m - n}
  <1>1. D \in SUBSET Nat
    OBVIOUS
  <1>2. D # {}
    <2>1. PICK n \in N : TRUE
      OBVIOUS
    <2>2. m - n \in D
      OBVIOUS
    <2> QED
      BY <2>2
  <1>3. PICK k \in D : \A l \in D : k <= l
    <2> HIDE DEF D
    <2> QED
      BY <1>1, <1>2, LeastOne
  <1>4. PICK x \in N : k = m - x
    BY <1>3
  <1>5. ASSUME NEW n \in N PROVE x >= n /\ n <= x
    <2>1. m - n \in D
      OBVIOUS
    <2>2. k <= m - n
      BY <1>3, <2>1
    <2>3. x \in 0 .. m /\ n \in 0 .. m
      OBVIOUS
    <2> QED
      BY <1>4, <2>2, <2>3
  <1>6. Max(N) \in N /\ \A y \in N : Max(N) >= y
    BY <1>5 DEF Max
  <1>7. \A y \in N : y \in Int
    OBVIOUS
  <1> QED
    BY <1>6, <1>7

\* A function on X for each of 1 .. m, and what they lead to from a, one after
\* the other.
AreSteps(step, X, m) == step \in [1 .. m -> [X -> X]]
Leads(f, X, a, m, step) ==
    f \in [0 .. m -> X] /\ f[0] = a /\ \A n \in 1 .. m : f[n] = step[n][f[n - 1]]

LEMMA StepsLead ==
    ASSUME NEW X, NEW a \in X, NEW m \in Nat, NEW step, AreSteps(step, X, m)
    PROVE  \E f : Leads(f, X, a, m, step)
  <1> USE DEF AreSteps
  <1> DEFINE Steps(f, k) == f[0] = a /\ \A n \in 1 .. k : f[n] = step[n][f[n - 1]]
             Bad == {k \in Nat : k <= m /\ ~\E f \in [0 .. k -> X] : Steps(f, k)}
  <1>1. ASSUME NEW least \in Bad PROVE FALSE
    <2>1. PICK k \in Bad : \A l \in Bad : k <= l
      <3>1. Bad \in SUBSET Nat /\ Bad # {}
        BY <1>1
      <3> HIDE DEF Bad
      <3> QED
        BY <3>1, LeastOne
    <2>2. CASE k = 0
      <3> DEFINE f == [n \in 0 .. 0 |-> a]
      <3>1. f \in [0 .. 0 -> X] /\ Steps(f, 0)
        OBVIOUS
      <3> QED
        BY <2>1, <2>2, <3>1
    <2>3. CASE k # 0
      <3>1. k \in 1 .. m /\ k - 1 \in Nat /\ k - 1 <= m
        <4>1. k \in Nat /\ k <= m
          BY <2>1
        <4> QED
          BY <2>3, <4>1
      <3>9. k - 1 \notin Bad
        <4>1. ~(k <= k - 1)
          BY <3>1
        <4> HIDE DEF Bad
        <4> QED
          BY <2>1, <4>1
      <3>2. PICK f \in [0 .. k - 1 -> X] : Steps(f, k - 1)
        BY <3>1, <3>9
      <3> DEFINE h == [n \in 0 .. k |-> IF n = k THEN step[k][f[k - 1]] ELSE f[n]]
      <3>3. f[k - 1] \in X
        BY <3>1, <3>2
      <3>4. h \in [0 .. k -> X]
        <4>1. step[k][f[k - 1]] \in X
          BY <3>1, <3>3
        <4>2. \A n \in 0 .. k : n # k => f[n] \in X
          BY <3>1, <3>2
        <4> QED
          BY <4>1, <4>2
      <3>5. h[0] = a
        BY <2>3, <3>1, <3>2
      <3>6. ASSUME NEW n \in 1 .. k PROVE h[n] = step[n][h[n - 1]]
        <4>1. n - 1 \in 0 .. k /\ n - 1 # k /\ n \in 0 .. k
          BY <3>1
        <4>2. h[n - 1] = f[n - 1]
          BY <4>1
        <4>3. CASE n = k
          BY <4>1, <4>2, <4>3
        <4>4. CASE n # k
          <5>1. n \in 1 .. k - 1
            BY <3>1, <4>4
          <5>2. f[n] = step[n][f[n - 1]]
            BY <3>2, <5>1
          <5> QED
            BY <4>1, <4>2, <4>4, <5>2
        <4> QED
          BY <4>3, <4>4
      <3> HIDE DEF h
      <3> QED
        BY <2>1, <3>4, <3>5, <3>6
    <2> QED
      BY <2>2, <2>3
  <1>2. m \notin Bad
    BY <1>1
  <1> QED
    BY <1>2 DEF Leads

\* What is kept of the first n elements, for each n.
KeptUpTo(s, S) ==
    LET upTo[n \in 0 .. Len(s)] ==
          IF n = 0 THEN <<>>
          ELSE IF s[n] \in S THEN Append(upTo[n - 1], s[n]) ELSE upTo[n - 1]
    IN  upTo

\* g says so for the first m elements.
Keeps(g, s, S, m) ==
    g = [n \in 0 .. m |->
            IF n = 0 THEN <<>>
            ELSE IF s[n] \in S THEN Append(g[n - 1], s[n]) ELSE g[n - 1]]

LEMMA KeptSteps ==
    ASSUME NEW s, NEW S, Len(s) \in Nat
    PROVE  /\ KeptUpTo(s, S)[0] = <<>>
           /\ \A n \in 1 .. Len(s) :
                KeptUpTo(s, S)[n] = IF s[n] \in S THEN Append(KeptUpTo(s, S)[n - 1], s[n])
                                    ELSE KeptUpTo(s, S)[n - 1]
           /\ Within(s, S) = KeptUpTo(s, S)[Len(s)]
  <1> DEFINE None == {m \in Nat : ~\E g : Keeps(g, s, S, m)}
  <1>1. ASSUME NEW k \in None PROVE FALSE
    <2>1. PICK m \in None : \A l \in None : m <= l
      <3>1. None \in SUBSET Nat /\ None # {}
        BY <1>1
      <3> HIDE DEF None
      <3> QED
        BY <3>1, LeastOne
    <2>2. m # 0
      <3>1. Keeps([n \in 0 .. 0 |-> <<>>], s, S, 0)
        BY DEF Keeps
      <3> QED
        BY <3>1
    <2>3. m \in Nat /\ m - 1 \in Nat /\ m - 1 \notin None
      BY <2>1, <2>2
    <2>4. PICK g : Keeps(g, s, S, m - 1)
      BY <2>3
    <2> DEFINE h == [n \in 0 .. m |->
                       IF n = 0 THEN <<>>
                       ELSE IF s[n] \in S THEN Append(g[n - 1], s[n]) ELSE g[n - 1]]
    <2>5. ASSUME NEW n \in 0 .. m - 1 PROVE h[n] = g[n]
      <3>1. g[n] = IF n = 0 THEN <<>>
                   ELSE IF s[n] \in S THEN Append(g[n - 1], s[n]) ELSE g[n - 1]
        BY <2>4 DEF Keeps
      <3>2. n \in 0 .. m
        BY <2>3
      <3> QED
        BY <3>1, <3>2
    <2>6. Keeps(h, s, S, m)
      <3>1. ASSUME NEW n \in 0 .. m, n # 0 PROVE h[n - 1] = g[n - 1]
        <4>1. n - 1 \in 0 .. m - 1
          BY <2>3, <3>1
        <4> HIDE DEF h
        <4> QED
          BY <2>5, <4>1
      <3>2. h = [n \in 0 .. m |->
                    IF n = 0 THEN <<>>
                    ELSE IF s[n] \in S THEN Append(h[n - 1], s[n]) ELSE h[n - 1]]
        BY <3>1
      <3> QED
        BY <3>2 DEF Keeps
    <2> QED
      BY <2>1, <2>6
  <1>2. \E g : Keeps(g, s, S, Len(s))
    BY <1>1
  <1>3. KeptUpTo(s, S) = CHOOSE g : Keeps(g, s, S, Len(s))
    BY DEF KeptUpTo, Keeps
  <1>4. Keeps(KeptUpTo(s, S), s, S, Len(s))
    BY <1>2, <1>3
  <1>5. \A n \in 0 .. Len(s) :
          KeptUpTo(s, S)[n] = IF n = 0 THEN <<>>
                              ELSE IF s[n] \in S THEN Append(KeptUpTo(s, S)[n - 1], s[n])
                              ELSE KeptUpTo(s, S)[n - 1]
    BY <1>4 DEF Keeps
  <1>6. Within(s, S) = KeptUpTo(s, S)[Len(s)]
    BY DEF Within, KeptUpTo
  <1> QED
    BY <1>5, <1>6

\* Where the elements of S are among the first n of s.
Hits(s, S, n) == {j \in 1 .. n : s[j] \in S}

LEMMA HitsFinite ==
    ASSUME NEW s, NEW S, NEW n \in Nat
    PROVE  /\ IsFiniteSet(Hits(s, S, n)) /\ Cardinality(Hits(s, S, n)) \in Nat
           /\ \A m \in 0 .. n : Cardinality(Hits(s, S, m)) <= Cardinality(Hits(s, S, n))
  <1>1. IsFiniteSet(1 .. n)
    BY FS_Interval
  <1>2. IsFiniteSet(Hits(s, S, n))
    BY <1>1, FS_Subset DEF Hits
  <1>3. ASSUME NEW m \in 0 .. n
        PROVE  Cardinality(Hits(s, S, m)) <= Cardinality(Hits(s, S, n))
    <2>1. Hits(s, S, m) \subseteq Hits(s, S, n)
      BY DEF Hits
    <2> QED
      BY <1>2, <2>1, FS_Subset
  <1> QED
    BY <1>2, <1>3, FS_CardinalityType

LEMMA OneMoreHit ==
    ASSUME NEW s, NEW S, NEW n \in Nat \ {0}
    PROVE  IF s[n] \in S
           THEN Cardinality(Hits(s, S, n)) = Cardinality(Hits(s, S, n - 1)) + 1
           ELSE Hits(s, S, n) = Hits(s, S, n - 1)
  <1>1. n \notin Hits(s, S, n - 1) /\ n - 1 \in Nat
    BY DEF Hits
  <1>2. CASE s[n] \in S
    <2>1. Hits(s, S, n) = Hits(s, S, n - 1) \cup {n}
      BY <1>2 DEF Hits
    <2> QED
      BY <1>1, <1>2, <2>1, HitsFinite, FS_AddElement
  <1>3. CASE s[n] \notin S
    BY <1>3 DEF Hits
  <1> QED
    BY <1>2, <1>3

\* w is what is kept of the first n elements of s.
IsKept(w, s, S, T, n) ==
    /\ w \in Seq(T) /\ Len(w) = Cardinality(Hits(s, S, n))
    /\ \A i \in Hits(s, S, n) : w[Cardinality(Hits(s, S, i))] = s[i]
    /\ \A k \in 1 .. Len(w) :
          \E i \in Hits(s, S, n) : Cardinality(Hits(s, S, i)) = k /\ w[k] = s[i]

LEMMA KeptIsKept ==
    ASSUME NEW T, NEW s \in Seq(T), NEW S, NEW n \in 0 .. Len(s)
    PROVE  IsKept(KeptUpTo(s, S)[n], s, S, T, n)
  <1> DEFINE w(m) == KeptUpTo(s, S)[m]
             Bad == {m \in Nat : m <= Len(s) /\ ~IsKept(w(m), s, S, T, m)}
  <1>1. Len(s) \in Nat
    OBVIOUS
  <1>2. ASSUME NEW least \in Bad PROVE FALSE
    <2>1. PICK m \in Bad : \A l \in Bad : m <= l
      <3>1. Bad \in SUBSET Nat /\ Bad # {}
        BY <1>2
      <3> HIDE DEF Bad
      <3> QED
        BY <3>1, LeastOne
    <2>2. CASE m = 0
      <3>1. w(0) = <<>>
        BY <1>1, KeptSteps
      <3>2. Hits(s, S, 0) = {}
        BY DEF Hits
      <3>3. Cardinality(Hits(s, S, 0)) = 0
        BY <3>2, FS_EmptySet
      <3>4. IsKept(<<>>, s, S, T, 0)
        BY <3>2, <3>3 DEF IsKept
      <3> QED
        BY <2>1, <2>2, <3>1, <3>4
    <2>3. CASE m # 0
      <3>1. m \in 1 .. Len(s) /\ m - 1 \in Nat /\ m - 1 \notin Bad /\ m - 1 <= Len(s)
        BY <1>1, <2>1, <2>3
      <3> DEFINE u == w(m - 1)
      <3>2. IsKept(u, s, S, T, m - 1)
        BY <3>1
      <3>3. w(m) = IF s[m] \in S THEN Append(u, s[m]) ELSE u
        BY <1>1, <3>1, KeptSteps
      <3> HIDE DEF u
      <3>4. CASE s[m] \notin S
        <4>1. Hits(s, S, m) = Hits(s, S, m - 1)
          BY <3>1, <3>4, OneMoreHit
        <4>2. IsKept(u, s, S, T, m)
          BY <3>2, <4>1 DEF IsKept
        <4> QED
          BY <2>1, <3>3, <3>4, <4>2
      <3>5. CASE s[m] \in S
        <4>1. /\ Cardinality(Hits(s, S, m)) = Cardinality(Hits(s, S, m - 1)) + 1
              /\ Cardinality(Hits(s, S, m - 1)) \in Nat
          BY <3>1, <3>5, OneMoreHit, HitsFinite
        <4>2. Hits(s, S, m) = Hits(s, S, m - 1) \cup {m}
          BY <3>1, <3>5 DEF Hits
        <4>3. s[m] \in T
          BY <3>1
        <4> DEFINE v == Append(u, s[m])
        <4>4. /\ v \in Seq(T) /\ Len(v) = Len(u) + 1 /\ v[Len(u) + 1] = s[m]
              /\ \A k \in 1 .. Len(u) : v[k] = u[k]
          BY <3>2, <4>3 DEF IsKept
        <4>5. Len(u) \in Nat /\ Len(u) = Cardinality(Hits(s, S, m - 1))
          BY <3>2, <4>1 DEF IsKept
        <4> HIDE DEF v
        <4>6. ASSUME NEW i \in Hits(s, S, m) PROVE v[Cardinality(Hits(s, S, i))] = s[i]
          <5>1. CASE i = m
            BY <4>1, <4>4, <4>5, <5>1
          <5>2. CASE i \in Hits(s, S, m - 1)
            <6>1. i \in 1 .. m - 1 /\ s[i] \in S /\ i \in Nat \ {0} /\ i - 1 \in Nat
              BY <3>1, <5>2 DEF Hits
            <6>2. /\ Cardinality(Hits(s, S, i)) = Cardinality(Hits(s, S, i - 1)) + 1
                  /\ Cardinality(Hits(s, S, i - 1)) \in Nat
              BY <6>1, OneMoreHit, HitsFinite
            <6>3. i \in 0 .. m - 1
              BY <3>1, <6>1
            <6>4. Cardinality(Hits(s, S, i)) <= Cardinality(Hits(s, S, m - 1))
              BY <3>1, <6>3, HitsFinite
            <6>5. Cardinality(Hits(s, S, i)) \in 1 .. Len(u)
              BY <4>5, <6>2, <6>4
            <6>6. u[Cardinality(Hits(s, S, i))] = s[i]
              BY <3>2, <5>2 DEF IsKept
            <6> QED
              BY <4>4, <6>5, <6>6
          <5> QED
            BY <4>2, <5>1, <5>2
        <4>7. ASSUME NEW k \in 1 .. Len(v)
              PROVE  \E i \in Hits(s, S, m) : Cardinality(Hits(s, S, i)) = k /\ v[k] = s[i]
          <5>1. CASE k = Len(u) + 1
            BY <4>1, <4>2, <4>4, <4>5, <5>1
          <5>2. CASE k # Len(u) + 1
            <6>1. k \in 1 .. Len(u)
              BY <4>4, <4>5, <5>2
            <6>2. PICK i \in Hits(s, S, m - 1) : Cardinality(Hits(s, S, i)) = k /\ u[k] = s[i]
              BY <3>2, <6>1 DEF IsKept
            <6> QED
              BY <4>2, <4>4, <6>1, <6>2
          <5> QED
            BY <5>1, <5>2
        <4>8. Len(v) = Cardinality(Hits(s, S, m))
          BY <4>1, <4>4, <4>5
        <4>9. IsKept(v, s, S, T, m)
          BY <4>4, <4>6, <4>7, <4>8 DEF IsKept
        <4>10. w(m) = v
          BY <3>3, <3>5 DEF v
        <4> QED
          BY <2>1, <4>9, <4>10
      <3> QED
        BY <3>4, <3>5
    <2> QED
      BY <2>2, <2>3
  <1> QED
    BY <1>1, <1>2

\* A filter keeps exactly the elements of the set, each once, in their order.
LEMMA KeepsWithin ==
    ASSUME NEW T, NEW s \in Seq(T), NEW S
    PROVE  IsKept(Within(s, S), s, S, T, Len(s))
  <1>1. Len(s) \in Nat /\ Len(s) \in 0 .. Len(s)
    OBVIOUS
  <1> QED
    BY <1>1, KeptSteps, KeptIsKept

LEMMA KeepsWithout ==
    ASSUME NEW T, NEW s \in Seq(T), NEW S
    PROVE  IsKept(Without(s, S), s, T \ S, T, Len(s))
  <1> DEFINE R == {s[i] : i \in DOMAIN s} \ S
  <1>1. \A n \in 0 .. Len(s) : Hits(s, R, n) = Hits(s, T \ S, n)
    BY DEF Hits
  <1>2. IsKept(Within(s, R), s, R, T, Len(s))
    BY KeepsWithin
  <1>3. Without(s, S) = Within(s, R)
    BY DEF Without
  <1>4. /\ Hits(s, R, Len(s)) = Hits(s, T \ S, Len(s))
        /\ \A i \in Hits(s, T \ S, Len(s)) : Hits(s, R, i) = Hits(s, T \ S, i)
    BY <1>1 DEF Hits
  <1> QED
    BY <1>2, <1>3, <1>4 DEF IsKept

\* A filter that everything passes changes nothing.
LEMMA KeptWhole ==
    ASSUME NEW T, NEW s \in Seq(T), NEW S, \A i \in DOMAIN s : s[i] \in S
    PROVE  Within(s, S) = s
  <1> DEFINE w == Within(s, S)
             n == Len(s)
  <1>1. IsKept(w, s, S, T, n)
    BY KeepsWithin
  <1> HIDE DEF w
  <1>2. n \in Nat /\ DOMAIN s = 1 .. n
    OBVIOUS
  <1>3. ASSUME NEW i \in 0 .. n PROVE Hits(s, S, i) = 1 .. i /\ Cardinality(Hits(s, S, i)) = i
    <2>1. Hits(s, S, i) = 1 .. i
      BY <1>2 DEF Hits
    <2> QED
      BY <1>2, <2>1, FS_Interval
  <1>4. w \in Seq(T) /\ Len(w) = n
    BY <1>1, <1>2, <1>3 DEF IsKept
  <1>5. ASSUME NEW i \in 1 .. n PROVE w[i] = s[i]
    <2>1. i \in Hits(s, S, n) /\ i \in 0 .. n
      BY <1>2, <1>3
    <2> QED
      BY <1>1, <1>3, <2>1 DEF IsKept
  <1>6. w = s
    BY <1>2, <1>4, <1>5
  <1> QED
    BY <1>6 DEF w

------------------------------------------------------------------------------
(* Requests of the SFU.                                                     *)

\* The elements that are not e, how many of them are among the first n, and where
\* the n-th is.
Others(s, e) == {j \in DOMAIN s : s[j] # e}
OthersUpTo(s, e, n) == Cardinality({j \in 1 .. n : s[j] # e})
OtherAt(s, e, n) == CHOOSE i \in DOMAIN s : s[i] # e /\ OthersUpTo(s, e, i) = n

LEMMA OthersKept ==
    ASSUME NEW T, NEW path \in Seq(T), NEW e
    PROVE  /\ Without(path, {e}) \in Seq(T)
           /\ Len(Without(path, {e})) = Cardinality(Others(path, e))
           /\ \A n \in 1 .. Len(Without(path, {e})) :
                Without(path, {e})[n] = path[OtherAt(path, e, n)]
  <1> DEFINE S == T \ {e}
             w == Without(path, {e})
  <1>0. Len(path) \in Nat
    OBVIOUS
  <1>1. IsKept(w, path, S, T, Len(path))
    BY KeepsWithout
  <1>2. /\ Len(path) \in Nat /\ DOMAIN path = 1 .. Len(path)
        /\ \A i \in 1 .. Len(path) : path[i] \in T
    OBVIOUS
  <1>3. ASSUME NEW n \in 0 .. Len(path)
        PROVE  Hits(path, S, n) = {j \in 1 .. n : path[j] # e}
    <2>1. \A j \in 1 .. n : j \in 1 .. Len(path)
      BY <1>2
    <2>2. \A j \in 1 .. n : path[j] \in S <=> path[j] # e
      BY <1>2, <2>1
    <2> HIDE DEF S
    <2> QED
      BY <2>2 DEF Hits
  <1>4. Len(w) = Cardinality(Others(path, e))
    <2>1. Hits(path, S, Len(path)) = Others(path, e)
      <3>1. Len(path) \in 0 .. Len(path)
        BY <1>0
      <3>2. DOMAIN path = 1 .. Len(path)
        BY <1>2
      <3> QED
        BY <1>3, <3>1, <3>2 DEF Others
    <2> QED
      BY <1>1, <2>1 DEF IsKept
  <1> HIDE DEF w
  <1>5. ASSUME NEW n \in 1 .. Len(w) PROVE w[n] = path[OtherAt(path, e, n)]
    <2>1. PICK k \in Hits(path, S, Len(path)) : Cardinality(Hits(path, S, k)) = n
      BY <1>1 DEF IsKept
    <2>2. k \in DOMAIN path /\ path[k] # e /\ OthersUpTo(path, e, k) = n
      <3>1. k \in 1 .. Len(path) /\ path[k] \in S
        BY <2>1 DEF Hits
      <3>2. k \in 0 .. Len(path)
        BY <1>0, <3>1
      <3> QED
        BY <1>2, <1>3, <2>1, <3>1, <3>2 DEF OthersUpTo
    <2> DEFINE i == OtherAt(path, e, n)
    <2>3. i \in DOMAIN path /\ path[i] # e /\ OthersUpTo(path, e, i) = n
      BY <2>2 DEF OtherAt
    <2> HIDE DEF i
    <2>4. i \in Hits(path, S, Len(path)) /\ Cardinality(Hits(path, S, i)) = n
      <3>0. i \in 1 .. Len(path)
        BY <1>2, <2>3
      <3>1. i \in 1 .. Len(path) /\ path[i] \in S /\ i \in 0 .. Len(path)
        <4>1. i \in 0 .. Len(path)
          BY <1>0, <3>0
        <4>2. path[i] \in T \ {e}
          BY <1>2, <2>3, <3>0
        <4> QED
          BY <3>0, <4>1, <4>2
      <3>2. i \in Hits(path, S, Len(path))
        BY <3>1 DEF Hits
      <3>3. Hits(path, S, i) = {j \in 1 .. i : path[j] # e}
        BY <1>3, <3>1
      <3> QED
        BY <2>3, <3>2, <3>3 DEF OthersUpTo
    <2>5. w[n] = path[i]
      BY <1>1, <2>4 DEF IsKept
    <2> QED
      BY <2>5 DEF i
  <1> QED
    BY <1>1, <1>4, <1>5 DEF IsKept, w

\* The n-th word of a path that is not empty.
WordAt(path, n) == path[OtherAt(path, "", n)]

LEMMA PathHasWords ==
    ASSUME NEW T, NEW path \in Seq(T)
    PROVE  /\ PathWords(path) \in Seq(T)
           /\ Len(PathWords(path)) = Cardinality(Others(path, ""))
           /\ \A n \in 1 .. Len(PathWords(path)) : PathWords(path)[n] = WordAt(path, n)
  <1> DEFINE e == ""
  <1>1. PathWords(path) = Without(path, {e})
    BY DEF PathWords
  <1>2. \A n : WordAt(path, n) = path[OtherAt(path, e, n)]
    BY DEF WordAt
  <1> HIDE DEF e
  <1> QED
    <2>1. /\ Without(path, {e}) \in Seq(T)
          /\ Len(Without(path, {e})) = Cardinality(Others(path, e))
      BY OthersKept
    <2>2. \A n \in 1 .. Len(Without(path, {e})) :
            Without(path, {e})[n] = path[OtherAt(path, e, n)]
      BY OthersKept
    <2>3. PathWords(path) \in Seq(T)
      BY <1>1, <2>1
    <2>4. Len(PathWords(path)) = Cardinality(Others(path, ""))
      BY <1>1, <2>1 DEF e
    <2>5. \A n \in 1 .. Len(PathWords(path)) : PathWords(path)[n] = WordAt(path, n)
      BY <1>1, <1>2, <2>2
    <2> QED
      BY <2>3, <2>4, <2>5

\* Indices of a sequence of three or more.
LEMMA LenType == ASSUME NEW T, NEW w \in Seq(T) PROVE Len(w) \in Nat
  OBVIOUS

LEMMA FirstThree ==
    ASSUME NEW w, Len(w) \in Nat, Len(w) >= 3
    PROVE  1 \in 1 .. Len(w) /\ 2 \in 1 .. Len(w) /\ 3 \in 1 .. Len(w)
  OBVIOUS

\* Where a request goes depends on its first three words only.
Asks(path, action) ==
    /\ Cardinality(Others(path, "")) >= 3
    /\ WordAt(path, 1) = "room" /\ WordAt(path, 3) = action

LEMMA DispatchedAsAsked ==
    ASSUME NEW T, NEW path \in Seq(T), NEW method, path # <<"", "healthz">>
    PROVE  \/ /\ Asks(path, PathWords(path)[3]) /\ <<method, PathWords(path)[3]>> \in Handlers
              /\ Dispatch(method, path) = [handler |-> PathWords(path)[3],
                                           room |-> WordAt(path, 2)]
           \/ /\ \A action : Asks(path, action) => <<method, action>> \notin Handlers
              /\ Dispatch(method, path) = Refused(404)
  <1> DEFINE w == PathWords(path)
  <1>0. Len(w) \in Nat
    <2>1. w \in Seq(T)
      BY PathHasWords
    <2> HIDE DEF w
    <2> QED
      BY <2>1, LenType
  <1>1. /\ Len(w) = Cardinality(Others(path, ""))
        /\ \A n \in 1 .. Len(w) : w[n] = WordAt(path, n)
    BY PathHasWords
  <1> HIDE DEF w
  <1>2. Dispatch(method, path) =
          IF Len(w) >= 3 /\ w[1] = "room" /\ <<method, w[3]>> \in Handlers
          THEN [handler |-> w[3], room |-> w[2]] ELSE Refused(404)
    BY DEF Dispatch, w
  <1>3. CASE Len(w) >= 3 /\ w[1] = "room" /\ <<method, w[3]>> \in Handlers
    <2>1. 1 \in 1 .. Len(w) /\ 2 \in 1 .. Len(w) /\ 3 \in 1 .. Len(w)
      BY <1>0, <1>3, FirstThree
    <2>2. w[1] = WordAt(path, 1) /\ w[2] = WordAt(path, 2)
          /\ w[3] = WordAt(path, 3)
      BY <1>1, <2>1
    <2>3. Asks(path, w[3])
      BY <1>1, <1>3, <2>2 DEF Asks
    <2> QED
      BY <1>2, <1>3, <2>2, <2>3 DEF w
  <1>4. CASE ~(Len(w) >= 3 /\ w[1] = "room" /\ <<method, w[3]>> \in Handlers)
    <2>1. ASSUME NEW action, Asks(path, action) PROVE <<method, action>> \notin Handlers
      <3>1. Len(w) >= 3
        BY <1>1, <2>1 DEF Asks
      <3>2. 1 \in 1 .. Len(w) /\ 3 \in 1 .. Len(w)
        BY <1>0, <3>1, FirstThree
      <3>3. w[1] = "room" /\ w[3] = action
        BY <1>1, <2>1, <3>2 DEF Asks
      <3> QED
        BY <1>4, <3>1, <3>3
    <2>2. Dispatch(method, path) = Refused(404)
      BY <1>2, <1>4
    <2> QED
      BY <2>1, <2>2
  <1> QED
    BY <1>3, <1>4

LEMMA Destination ==
    ASSUME NEW r, NEW handler, NEW room, r = [handler |-> handler, room |-> room]
    PROVE  DOMAIN r = {"handler", "room"} /\ r.handler = handler /\ r.room = room
  OBVIOUS

LEMMA ProperHandlers ==
    ASSUME NEW method, NEW action, <<method, action>> \in Handlers
    PROVE  /\ action \in {"tracks", "ice", "hwaccel", "publish", "subscribe", "unsubscribe",
                          "forward", "leave", "nack", "fec", "recover", "benchmark"}
           /\ action = "ice" => method = "GET"
  BY DEF Handlers

LEMMA TwoNumbers == IsFiniteSet(1 .. 2) /\ Cardinality(1 .. 2) = 2
  <1>1. 1 \in Int /\ 2 \in Int /\ ~(1 > 2) /\ 2 - 1 + 1 = 2
    OBVIOUS
  <1>2. IsFiniteSet(1 .. 2) /\ Cardinality(1 .. 2) = IF 1 > 2 THEN 0 ELSE 2 - 1 + 1
    BY <1>1, FS_Interval, Zenon
  <1> QED
    BY <1>1, <1>2

LEMMA TwoAreNotThree ==
    ASSUME NEW path, NEW e, DOMAIN path = 1 .. 2 PROVE ~(Cardinality(Others(path, e)) >= 3)
  <1> DEFINE n == Cardinality(Others(path, e))
  <1>1. Others(path, e) \subseteq 1 .. 2
    BY DEF Others
  <1>2. IsFiniteSet(1 .. 2) /\ Cardinality(1 .. 2) = 2
    BY TwoNumbers
  <1>3. IsFiniteSet(Others(path, e)) /\ n <= 2
    BY <1>1, <1>2, FS_Subset
  <1>4. n \in Nat
    BY <1>3, FS_CardinalityType
  <1> QED
    BY <1>3, <1>4

LEMMA TwoLong == ASSUME NEW a, NEW b PROVE DOMAIN <<a, b>> = 1 .. 2
  OBVIOUS

LEMMA HealthzAsksNothing ==
    ASSUME NEW path, path = <<"", "healthz">> PROVE ~Asks(path, "ice") /\ ~Asks(path, "nack")
  BY TwoLong, TwoAreNotThree DEF Asks

\* What the answer to a request is to be.
Routed(c, r) ==
    /\ "room" \in DOMAIN r =>
         \/ c.path = <<"", "healthz">> /\ r.handler = "healthz"
         \/ Asks(c.path, r.handler) /\ r.room = WordAt(c.path, 2)
    /\ "ice" \in DOMAIN r <=> (Asks(c.path, "ice") /\ c.method = "GET")
    /\ Asks(c.path, "nack") /\ c.method = "POST" => r = [status |-> 400]

\* A request without a body, for any path over any words.
LEMMA RequestRouted ==
    ASSUME NEW T, NEW request, request.path \in Seq(T), request.body = {}, NEW ice, NEW platform,
           NEW r, r = Route(request, ice, platform)
    PROVE  Routed(request, r)
  <1> DEFINE path == request.path
             method == request.method
             to == Dispatch(method, path)
  <1>1. CASE path = <<"", "healthz">>
    <2>1. to = IF method = "GET" THEN [handler |-> "healthz", room |-> ""] ELSE [status |-> 405]
      BY <1>1 DEF Dispatch, Refused
    <2>2. r = to
      <3>1. CASE method = "GET"
        <4>1. DOMAIN to # {"status"} /\ to.handler = "healthz"
          <5>1. to = [handler |-> "healthz", room |-> ""]
            BY <2>1, <3>1
          <5> HIDE DEF to
          <5>2. DOMAIN to = {"handler", "room"}
            BY <5>1
          <5> QED
            BY <5>1, <5>2
        <4> QED
          BY <2>1, <3>1, <4>1 DEF Route
      <3>2. CASE method # "GET"
        BY <2>1, <3>2 DEF Route
      <3> QED
        BY <3>1, <3>2
    <2>3. ~Asks(path, "ice") /\ ~Asks(path, "nack")
      BY <1>1, HealthzAsksNothing
    <2>4. r = [handler |-> "healthz", room |-> ""] \/ r = [status |-> 405]
      <3> HIDE DEF to
      <3>1. CASE method = "GET"
        BY <2>1, <2>2, <3>1
      <3>2. CASE method # "GET"
        BY <2>1, <2>2, <3>2
      <3> QED
        BY <3>1, <3>2
    <2>5. "ice" \notin DOMAIN r /\ ("room" \in DOMAIN r => r.handler = "healthz")
      <3>1. CASE r = [handler |-> "healthz", room |-> ""]
        <4>1. DOMAIN r = {"handler", "room"} /\ r.handler = "healthz"
          BY <3>1, Destination
        <4> QED
          BY <4>1
      <3>2. CASE r = [status |-> 405]
        <4>1. DOMAIN r = {"status"}
          BY <3>2
        <4> QED
          BY <4>1
      <3> QED
        BY <2>4, <3>1, <3>2
    <2> QED
      BY <1>1, <2>3, <2>5 DEF Routed
  <1>2. CASE path # <<"", "healthz">>
    <2>1. CASE /\ \A action : Asks(path, action) => <<method, action>> \notin Handlers
               /\ to = Refused(404)
      <3>1. r = [status |-> 404]
        BY <2>1 DEF Route, Refused
      <3>2. ~(Asks(path, "ice") /\ method = "GET") /\ ~(Asks(path, "nack") /\ method = "POST")
        BY <2>1 DEF Handlers
      <3> QED
        BY <3>1, <3>2 DEF Routed
    <2>2. ASSUME NEW action, Asks(path, action), <<method, action>> \in Handlers,
                 to = [handler |-> action, room |-> WordAt(path, 2)]
          PROVE  /\ "room" \in DOMAIN r => Asks(path, r.handler) /\ r.room = WordAt(path, 2)
                 /\ "ice" \in DOMAIN r <=> (Asks(path, "ice") /\ method = "GET")
                 /\ Asks(path, "nack") /\ method = "POST" => r = [status |-> 400]
      <3>1. \A other : Asks(path, other) => other = action
        BY <2>2 DEF Asks
      <3>2. DOMAIN to # {"status"} /\ to.handler = action
        BY <2>2
      <3> HIDE DEF to
      <3>3. r = CASE action \in {"nack", "fec", "recover", "benchmark"} -> Refused(400)
                  [] action = "ice" -> [status |-> 200, ice |-> IceInfo(ice)]
                  [] action = "hwaccel" -> [status |-> 200, hwaccel |-> HwAccelInfo(platform)]
                  [] OTHER -> to
        BY <3>2 DEF Route, to
      <3>4. CASE action \in {"nack", "fec", "recover", "benchmark"}
        <4>1. r = [status |-> 400]
          BY <3>3, <3>4 DEF Refused
        <4>2. action # "ice"
          BY <3>4
        <4> QED
          BY <3>1, <4>1, <4>2
      <3>5. CASE action = "ice"
        <4>1. r = [status |-> 200, ice |-> IceInfo(ice)]
          BY <3>3, <3>5
        <4>2. method = "GET"
          BY <2>2, <3>5, ProperHandlers
        <4> QED
          BY <2>2, <3>1, <3>5, <4>1, <4>2
      <3>6. CASE action = "hwaccel"
        <4>1. r = [status |-> 200, hwaccel |-> HwAccelInfo(platform)]
          BY <3>3, <3>6
        <4> QED
          BY <3>1, <3>6, <4>1
      <3>7. CASE action \notin {"nack", "fec", "recover", "benchmark", "ice", "hwaccel"}
        <4>1. r = [handler |-> action, room |-> WordAt(path, 2)]
          BY <2>2, <3>3, <3>7
        <4> QED
          BY <2>2, <3>1, <3>7, <4>1
      <3> QED
        BY <3>4, <3>5, <3>6, <3>7
    <2>3. \/ \E action : /\ Asks(path, action) /\ <<method, action>> \in Handlers
                          /\ to = [handler |-> action, room |-> WordAt(path, 2)]
          \/ /\ \A action : Asks(path, action) => <<method, action>> \notin Handlers
             /\ to = Refused(404)
      BY <1>2, DispatchedAsAsked, ZenonT(60)
    <2> HIDE DEF to
    <2> QED
      BY <2>1, <2>2, <2>3, ZenonT(60) DEF Routed
  <1> QED
    BY <1>1, <1>2

LEMMA PathOfWords ==
    ASSUME NEW W, NEW e, NEW n \in Nat, NEW tail \in [1 .. n -> W]
    PROVE  <<e>> \o tail \in Seq(W \cup {e})
  <1>1. tail \in Seq(W \cup {e}) /\ <<e>> \in Seq(W \cup {e})
    OBVIOUS
  <1> QED
    BY <1>1

LEMMA AnswerRouted ==
    ASSUME NEW c \in RequestCalls PROVE Routed(c, Answer(c))
  <1> DEFINE e == ""
             T == Word \cup {e}
  <1>1. PICK n \in 0 .. 4 : \E t \in [1 .. n -> Word] : c.path = <<e>> \o t
    BY DEF RequestCalls
  <1>2. c.path \in Seq(T)
    <2> HIDE DEF e
    <2>1. PICK t \in [1 .. n -> Word] : c.path = <<e>> \o t
      BY <1>1
    <2>2. n \in Nat
      OBVIOUS
    <2> QED
      BY <2>1, <2>2, PathOfWords
  <1> HIDE DEF T
  <1>3. c.body = {}
    BY DEF RequestCalls
  <1> DEFINE r == Answer(c)
  <1>4. r = Route(c, DefaultIce([v4 |-> 1]), "linux")
    BY DEF Answer
  <1> HIDE DEF r
  <1>5. Routed(c, r)
    BY <1>2, <1>3, <1>4, RequestRouted
  <1> QED
    BY <1>5 DEF r

------------------------------------------------------------------------------
(* The choice of an encoder.                                                *)

\* What comes first of what is kept, and what it means that nothing is.
LEMMA FirstKept ==
    ASSUME NEW T, NEW s \in Seq(T), NEW S, NEW w, IsKept(w, s, S, T, Len(s))
    PROVE  /\ w # <<>> => \E i \in 1 .. Len(s) : /\ s[i] \in S /\ Head(w) = s[i]
                                                  /\ \A j \in 1 .. i - 1 : s[j] \notin S
           /\ w = <<>> => \A i \in 1 .. Len(s) : s[i] \notin S
  <1>1. Len(s) \in Nat /\ w \in Seq(T) /\ Len(w) \in Nat
    BY DEF IsKept
  <1>2. ASSUME w # <<>>
        PROVE  \E i \in 1 .. Len(s) : /\ s[i] \in S /\ Head(w) = s[i]
                                      /\ \A j \in 1 .. i - 1 : s[j] \notin S
    <2>1. 1 \in 1 .. Len(w) /\ Head(w) = w[1]
      BY <1>1, <1>2
    <2>2. PICK i \in Hits(s, S, Len(s)) : Cardinality(Hits(s, S, i)) = 1 /\ w[1] = s[i]
      BY <2>1 DEF IsKept
    <2>3. i \in 1 .. Len(s) /\ s[i] \in S /\ i \in Nat \ {0} /\ i - 1 \in Nat
      BY <1>1, <2>2 DEF Hits
    <2>4. /\ Cardinality(Hits(s, S, i)) = Cardinality(Hits(s, S, i - 1)) + 1
          /\ Cardinality(Hits(s, S, i - 1)) \in Nat /\ IsFiniteSet(Hits(s, S, i - 1))
      BY <2>3, OneMoreHit, HitsFinite
    <2>5. Cardinality(Hits(s, S, i - 1)) = 0
      BY <2>2, <2>4
    <2>6. Hits(s, S, i - 1) = {}
      BY <2>4, <2>5, FS_EmptySet
    <2> QED
      BY <2>1, <2>2, <2>3, <2>6 DEF Hits
  <1>3. ASSUME w = <<>> PROVE \A i \in 1 .. Len(s) : s[i] \notin S
    <2>1. Len(w) = 0
      BY <1>3
    <2>2. Cardinality(Hits(s, S, Len(s))) = 0 /\ IsFiniteSet(Hits(s, S, Len(s)))
      BY <1>1, <2>1, HitsFinite DEF IsKept
    <2>3. Hits(s, S, Len(s)) = {}
      BY <2>2, FS_EmptySet
    <2> QED
      BY <2>3 DEF Hits
  <1> QED
    BY <1>2, <1>3

\* The order of preference: none twice, and e is the last.
EndsWith(order, e) ==
    /\ Len(order) \in Nat \ {0} /\ order[Len(order)] = e
    /\ \A i, j \in 1 .. Len(order) : order[i] = order[j] => i = j

\* Without its last element.
LEMMA WithoutLast ==
    ASSUME NEW T, NEW order \in Seq(T), NEW e, EndsWith(order, e)
    PROVE  /\ Without(order, {e}) \in Seq(T) /\ Len(Without(order, {e})) = Len(order) - 1
           /\ \A i \in 1 .. Len(order) - 1 :
                 Without(order, {e})[i] = order[i] /\ order[i] # e
  <1> DEFINE S == T \ {e}
             w == Without(order, {e})
             n == Len(order)
  <1>1. IsKept(w, order, S, T, n)
    BY KeepsWithout
  <1>2. n \in Nat \ {0} /\ n - 1 \in Nat /\ order[n] = e /\ \A i \in 1 .. n : order[i] \in T
    BY DEF EndsWith
  <1> HIDE DEF w
  <1>3. \A i \in 1 .. n - 1 : order[i] # e
    BY <1>2 DEF EndsWith
  <1>4. ASSUME NEW i \in 0 .. n - 1
        PROVE  Hits(order, S, i) = 1 .. i /\ Cardinality(Hits(order, S, i)) = i
    <2>1. Hits(order, S, i) = 1 .. i
      <3>1. \A j \in 1 .. i : j \in 1 .. n - 1 /\ j \in 1 .. n
        BY <1>2
      <3>2. \A j \in 1 .. i : order[j] \in S
        BY <1>2, <1>3, <3>1
      <3> QED
        BY <3>2 DEF Hits
    <2>2. Cardinality(1 .. i) = i
      <3>1. i \in Int /\ 1 \in Int /\ (1 > i => i = 0) /\ i - 1 + 1 = i
        BY <1>2
      <3>2. Cardinality(1 .. i) = IF 1 > i THEN 0 ELSE i - 1 + 1
        BY <3>1, FS_Interval, Zenon
      <3> QED
        BY <3>1, <3>2
    <2> QED
      BY <2>1, <2>2
  <1>5. Hits(order, S, n) = Hits(order, S, n - 1)
    <2>1. order[n] \notin S
      BY <1>2
    <2> QED
      BY <1>2, <2>1, OneMoreHit
  <1>6. Len(w) = n - 1
    <2>1. n - 1 \in 0 .. n - 1
      BY <1>2
    <2> QED
      BY <1>1, <1>4, <1>5, <2>1 DEF IsKept
  <1>7. ASSUME NEW i \in 1 .. n - 1 PROVE w[i] = order[i]
    <2>1. i \in 0 .. n - 1 /\ n - 1 \in 0 .. n - 1
      BY <1>2
    <2>2. i \in Hits(order, S, n) /\ Cardinality(Hits(order, S, i)) = i
      BY <1>4, <1>5, <2>1
    <2> QED
      BY <1>1, <2>2 DEF IsKept
  <1> QED
    BY <1>1, <1>3, <1>6, <1>7 DEF IsKept, w

\* For any order of preference of which e is the last.
LEMMA FirstUsable ==
    ASSUME NEW T, NEW order \in Seq(T), NEW e, EndsWith(order, e), NEW first,
           NEW usable, usable = Within(Without(order, {e}), first)
    PROVE  /\ usable # <<>> =>
                \E i \in 1 .. Len(order) - 1 :
                   /\ Head(usable) = order[i] /\ order[i] \in first /\ order[i] # e
                   /\ \A j \in 1 .. i - 1 : order[j] \notin first
           /\ usable = <<>> => \A i \in 1 .. Len(order) - 1 : order[i] \notin first
           /\ Range(Without(order, {e})) = Range(order) \ {e}
  <1> DEFINE hw == Without(order, {e})
             n == Len(order)
  <1>1. /\ hw \in Seq(T) /\ Len(hw) = n - 1
        /\ \A i \in 1 .. n - 1 : hw[i] = order[i] /\ order[i] # e
    BY WithoutLast
  <1>2. n \in Nat \ {0} /\ order[n] = e
    BY DEF EndsWith
  <1> HIDE DEF hw
  <1>3. IsKept(usable, hw, first, T, Len(hw))
    BY <1>1, KeepsWithin DEF hw
  <1>4. ASSUME usable # <<>>
        PROVE  \E i \in 1 .. n - 1 :
                  /\ Head(usable) = order[i] /\ order[i] \in first /\ order[i] # e
                  /\ \A j \in 1 .. i - 1 : order[j] \notin first
    <2>1. PICK i \in 1 .. Len(hw) : /\ hw[i] \in first /\ Head(usable) = hw[i]
                                    /\ \A j \in 1 .. i - 1 : hw[j] \notin first
      BY <1>1, <1>3, <1>4, FirstKept
    <2>2. i \in 1 .. n - 1
      BY <1>1, <2>1
    <2>3. \A j \in 1 .. i - 1 : j \in 1 .. n - 1
      BY <1>2, <2>2
    <2> QED
      BY <1>1, <2>1, <2>2, <2>3
  <1>5. ASSUME usable = <<>> PROVE \A i \in 1 .. n - 1 : order[i] \notin first
    BY <1>1, <1>3, <1>5, FirstKept
  <1>6. Range(hw) = Range(order) \ {e}
    <2>1. DOMAIN hw = 1 .. n - 1 /\ DOMAIN order = 1 .. n
      BY <1>1, <1>2
    <2>2. \A i \in 1 .. n : i \in 1 .. n - 1 \/ i = n
      BY <1>2
    <2>3. \A i \in 1 .. n - 1 : i \in 1 .. n
      BY <1>2
    <2> QED
      BY <1>1, <1>2, <2>1, <2>2, <2>3 DEF Range
  <1> QED
    BY <1>4, <1>5, <1>6 DEF hw

\* The orders of the platforms.
LEMMA OneLong == ASSUME NEW e PROVE EndsWith(<<e>>, e) /\ <<e>> \in Seq({e})
  BY DEF EndsWith

LEMMA TwoInOrder ==
    ASSUME NEW a, NEW e, a # e PROVE EndsWith(<<a, e>>, e) /\ <<a, e>> \in Seq({a, e})
  BY DEF EndsWith

LEMMA FourInOrder ==
    ASSUME NEW a, NEW b, NEW c, NEW e, a # e, b # e, c # e, a # b, a # c, b # c
    PROVE  EndsWith(<<a, b, c, e>>, e) /\ <<a, b, c, e>> \in Seq({a, b, c, e})
  BY DEF EndsWith

LEMMA CpuIsLast ==
    ASSUME NEW platform \in Platforms
    PROVE  EndsWith(Candidates(platform), "cpu") /\ \E T : Candidates(platform) \in Seq(T)
  <1>1. CASE platform = "windows"
    BY <1>1, FourInOrder DEF Candidates
  <1>2. CASE platform = "linux"
    BY <1>2, TwoInOrder DEF Candidates
  <1>3. CASE platform = "macos"
    BY <1>3, TwoInOrder DEF Candidates
  <1>4. CASE platform = "unknown"
    BY <1>4, OneLong DEF Candidates
  <1> QED
    BY <1>1, <1>2, <1>3, <1>4 DEF Platforms

\* Where b is in the order.
PlaceOf(order, b) == CHOOSE i \in DOMAIN order : order[i] = b

LEMMA PlaceFound ==
    ASSUME NEW T, NEW order \in Seq(T), NEW e, EndsWith(order, e), NEW i \in 1 .. Len(order)
    PROVE  PlaceOf(order, order[i]) = i
  <1>1. DOMAIN order = 1 .. Len(order)
    OBVIOUS
  <1> QED
    BY <1>1 DEF PlaceOf, EndsWith

\* CodecPathUsable's words about one choice.
Usable(order, first, second, r) ==
    /\ r.backend \in Range(order) \cap (first \cup {"cpu"})
    /\ r.hardware_accelerated = (r.backend # "cpu")
    /\ \A i \in 1 .. PlaceOf(order, r.backend) - 1 : order[i] \notin first
    /\ (r.backend = "cpu" /\ second = first) => r.because = Range(order) \ {"cpu"}

LEMMA PathUsable ==
    ASSUME NEW platform \in Platforms, NEW first, NEW second
    PROVE  Usable(Candidates(platform), first, second, SelectPath(platform, first, second))
  <1> DEFINE e == "cpu"
             order == Candidates(platform)
             hw == Without(order, {e})
             usable == Within(hw, first)
             r == SelectPath(platform, first, second)
             n == Len(order)
  <1>1. PICK T : order \in Seq(T)
    BY CpuIsLast
  <1>2. EndsWith(order, e)
    BY CpuIsLast
  <1>3. r = IF usable # <<>> THEN HardwarePath(Head(usable)) ELSE SoftwarePath(Range(hw) \ second)
    BY DEF SelectPath, Hardware
  <1> HIDE DEF e, order, r
  <1>4. /\ usable # <<>> =>
             \E i \in 1 .. n - 1 :
                /\ Head(usable) = order[i] /\ order[i] \in first /\ order[i] # e
                /\ \A j \in 1 .. i - 1 : order[j] \notin first
        /\ usable = <<>> => \A i \in 1 .. n - 1 : order[i] \notin first
        /\ Range(hw) = Range(order) \ {e}
    BY <1>1, <1>2, FirstUsable
  <1> HIDE DEF hw, usable
  <1>5. n \in Nat \ {0} /\ order[n] = e /\ DOMAIN order = 1 .. n
    BY <1>1, <1>2 DEF EndsWith
  <1>6. ASSUME usable # <<>> PROVE Usable(order, first, second, r)
    <2>1. PICK i \in 1 .. n - 1 :
            /\ Head(usable) = order[i] /\ order[i] \in first /\ order[i] # e
            /\ \A j \in 1 .. i - 1 : order[j] \notin first
      BY <1>4, <1>6
    <2>2. r.backend = order[i] /\ r.hardware_accelerated = TRUE
      BY <1>3, <1>6, <2>1 DEF HardwarePath
    <2>3. i \in 1 .. n
      BY <1>5, <2>1
    <2>4. PlaceOf(order, order[i]) = i /\ order[i] \in Range(order)
      BY <1>1, <1>2, <1>5, <2>3, PlaceFound DEF Range
    <2>5. (r.backend # e) = TRUE
      BY <2>1, <2>2
    <2> QED
      BY <2>1, <2>2, <2>4, <2>5 DEF Usable, e
  <1>7. ASSUME usable = <<>> PROVE Usable(order, first, second, r)
    <2>1. r.backend = e /\ r.hardware_accelerated = FALSE /\ r.because = Range(hw) \ second
      BY <1>3, <1>7 DEF SoftwarePath, e
    <2>2. n \in 1 .. n
      BY <1>5
    <2>3. PlaceOf(order, e) = n /\ e \in Range(order)
      BY <1>1, <1>2, <1>5, <2>2, PlaceFound DEF Range
    <2>4. \A i \in 1 .. n - 1 : order[i] \notin first
      BY <1>4, <1>7
    <2>5. ASSUME second = first PROVE Range(hw) \ second = Range(order) \ {e}
      <3>1. ASSUME NEW b \in Range(order) \ {e} PROVE b \notin first
        <4>1. PICK i \in 1 .. n : order[i] = b
          BY <1>5, <3>1 DEF Range
        <4>2. i \in 1 .. n - 1
          BY <1>5, <3>1, <4>1
        <4> QED
          BY <2>4, <4>1, <4>2
      <3> QED
        BY <1>4, <2>5, <3>1
    <2> QED
      BY <2>1, <2>3, <2>4, <2>5 DEF Usable, e
  <1> QED
    BY <1>6, <1>7 DEF order, r

------------------------------------------------------------------------------
(* The servers a peer is given.                                             *)

\* GivenServersReach's words about one answer.
Served(c, r) ==
    /\ r.valid => \A i \in DOMAIN r.given :
          DOMAIN r.given[i].host = {"v4"} /\ InCidr(c.network, r.given[i].host)
    /\ r.info.turn_used => Range(TurnServers(c.config)) \subseteq Range(r.given)
    /\ r.info.stun_succeeded \/ r.info.turn_used
    /\ r.info.selected = Len(r.given)

LEMMA KeptRange ==
    ASSUME NEW T, NEW s \in Seq(T), NEW S PROVE Range(Within(s, S)) \subseteq Range(s)
  <1> DEFINE w == Within(s, S)
  <1>1. IsKept(w, s, S, T, Len(s))
    BY KeepsWithin
  <1> HIDE DEF w
  <1>2. DOMAIN w = 1 .. Len(w) /\ DOMAIN s = 1 .. Len(s)
    BY <1>1 DEF IsKept
  <1>3. ASSUME NEW k \in 1 .. Len(w) PROVE \E i \in 1 .. Len(s) : w[k] = s[i]
    BY <1>1 DEF IsKept, Hits
  <1>4. Range(w) \subseteq Range(s)
    BY <1>2, <1>3 DEF Range
  <1> QED
    BY <1>4 DEF w

LEMMA ServersServed ==
    ASSUME NEW T, NEW c, c.config.servers \in Seq(T), NEW r,
           r = [valid |-> IceValid(c.config, {c.network}), given |-> SelectServers(c.config),
                info |-> IceInfo(c.config)]
    PROVE  Served(c, r)
  <1> DEFINE nat == c.config.nat_type
             given == SelectServers(c.config)
             chosen == Len(SelectServers([c.config EXCEPT !.nat_type = nat]))
             info == IceInfo(c.config)
  <1>1. info = [[nat_type |-> nat, stun_succeeded |-> nat # "symmetric",
                 turn_used |-> nat = "symmetric", selected |-> chosen]
                  EXCEPT !.selected = Len(given)]
    BY DEF IceInfo, SimulateNat
  <1> HIDE DEF given, chosen, info
  <1>2. /\ info.stun_succeeded = (nat # "symmetric") /\ info.turn_used = (nat = "symmetric")
        /\ info.selected = Len(given)
    BY <1>1
  <1>3. given = IF nat = "none" THEN <<>> ELSE c.config.servers
    BY DEF given, SelectServers
  <1>4. r.valid = IceValid(c.config, {c.network}) /\ r.given = given /\ r.info = info
    BY DEF given, info
  <1>5. nat = "symmetric" => Range(TurnServers(c.config)) \subseteq Range(given)
    BY <1>3, KeptRange DEF TurnServers, OfKind
  <1>6. ASSUME IceValid(c.config, {c.network}), NEW i \in DOMAIN given
        PROVE  DOMAIN given[i].host = {"v4"} /\ InCidr(c.network, given[i].host)
    <2>1. given = c.config.servers
      <3>1. given # <<>>
        BY <1>6
      <3> QED
        BY <1>3, <3>1
    <2>2. InCidr(c.network, given[i].host)
      BY <1>6, <2>1 DEF IceValid
    <2> QED
      BY <2>2 DEF InCidr
  <1> QED
    BY <1>2, <1>4, <1>5, <1>6 DEF Served

------------------------------------------------------------------------------
(* What gives out first, for any loads.                                     *)

Config == [streams : Nat, fps : Nat, bitrate : Nat, subs : Nat, recovery : BOOLEAN]

\* b is no more load than c, at the same frame rate.
NoMoreLoad(b, c) ==
    /\ b.streams <= c.streams /\ b.bitrate <= c.bitrate /\ b.subs <= c.subs /\ b.fps = c.fps
    /\ b.recovery => c.recovery

LEMMA ProductGrows ==
    ASSUME NEW a \in Nat, NEW b \in Nat, NEW c \in Nat, NEW d \in Nat, a <= b, c <= d
    PROVE  a * c \in Nat /\ b * d \in Nat /\ a * c <= b * d
  <1>1. PICK x \in Nat : b = a + x
    <2>1. b - a \in Nat /\ b = a + (b - a)
      OBVIOUS
    <2> QED
      BY <2>1
  <1>2. PICK y \in Nat : d = c + y
    <2>1. d - c \in Nat /\ d = c + (d - c)
      OBVIOUS
    <2> QED
      BY <2>1
  <1>3. b * d = a * c + (a * y + x * c + x * y)
    BY <1>1, <1>2
  <1>4. a * c \in Nat /\ a * y \in Nat /\ x * c \in Nat /\ x * y \in Nat
    OBVIOUS
  <1> QED
    BY <1>3, <1>4

LEMMA WholeDivision == ASSUME NEW n \in Nat, NEW m \in Nat \ {0}, n < m PROVE n % m = n
  OBVIOUS

LEMMA DivMod ==
    ASSUME NEW a \in Nat, NEW d \in Nat \ {0}
    PROVE  a \div d \in Nat /\ a % d \in 0 .. d - 1 /\ a = d * (a \div d) + (a % d)
  <1>1. a \div d \in Nat
    OBVIOUS
  <1>2. a % d \in 0 .. d - 1
    OBVIOUS
  <1>3. (a % d) + d * (a \div d) = a
    OBVIOUS
  <1> DEFINE u == d * (a \div d)
             v == a % d
  <1>4. u \in Nat
    BY <1>1
  <1>5. v + u = a /\ v \in Nat
    BY <1>2, <1>3
  <1> HIDE DEF u, v
  <1>6. a = u + v
    BY <1>4, <1>5
  <1> QED
    BY <1>1, <1>2, <1>6 DEF u, v

\* The quotient of a multiple with less than the divisor on top.
LEMMA QuotientIs ==
    ASSUME NEW d \in Nat \ {0}, NEW p \in Nat, NEW e \in 0 .. d - 1
    PROVE  (d * p + e) \div d = p
  <1> DEFINE x == d * p + e
             y == x \div d
             z == x % d
  <1>1. x \in Nat
    OBVIOUS
  <1> HIDE DEF x
  <1>2. y \in Nat /\ z \in 0 .. d - 1 /\ x = d * y + z
    BY <1>1, DivMod
  <1> HIDE DEF y, z
  <1>3. d * p + e = d * y + z
    BY <1>2 DEF x
  <1>4. y <= p
    <2>1. ASSUME y > p PROVE FALSE
      <3>1. PICK t \in Nat : y = p + 1 + t
        <4>1. y - p - 1 \in Nat /\ y = p + 1 + (y - p - 1)
          BY <1>2, <2>1
        <4> QED
          BY <4>1
      <3>2. d * y = d * p + d + d * t /\ d * t \in Nat
        BY <3>1
      <3>3. d * p \in Nat /\ d * y \in Nat
        BY <1>2
      <3> QED
        BY <1>2, <1>3, <3>2, <3>3
    <2> QED
      BY <1>2, <2>1
  <1>5. p <= y
    <2>1. ASSUME p > y PROVE FALSE
      <3>1. PICK t \in Nat : p = y + 1 + t
        <4>1. p - y - 1 \in Nat /\ p = y + 1 + (p - y - 1)
          BY <1>2, <2>1
        <4> QED
          BY <4>1
      <3>2. d * p = d * y + d + d * t /\ d * t \in Nat
        BY <1>2, <3>1
      <3>3. d * p \in Nat /\ d * y \in Nat
        BY <1>2
      <3> QED
        BY <1>2, <1>3, <3>2, <3>3
    <2> QED
      BY <1>2, <2>1
  <1>6. y = p
    BY <1>2, <1>4, <1>5
  <1> QED
    BY <1>6 DEF x, y

LEMMA CpuGrows ==
    ASSUME NEW b \in Config, NEW c \in Config, NoMoreLoad(b, c), CpuBound(b) PROVE CpuBound(c)
  <1> DEFINE each(d) == CpuPerPacket + (IF d.recovery THEN CpuPerRecovery ELSE 0)
  <1>1. {CpuPerPacket, CpuPerRecovery, CpuLimit} \subseteq Nat
    BY CapacityAssumption
  <1>2. each(b) \in Nat /\ each(c) \in Nat /\ each(b) <= each(c)
    BY <1>1 DEF NoMoreLoad, Config
  <1>3. /\ b.streams \in Nat /\ c.streams \in Nat /\ c.fps \in Nat /\ b.fps = c.fps
        /\ b.streams <= c.streams
    BY DEF NoMoreLoad, Config
  <1> DEFINE p == b.streams * b.fps
             q == c.streams * c.fps
  <1>4. p \in Nat /\ q \in Nat /\ p <= q
    BY <1>3, ProductGrows
  <1> HIDE DEF each, p, q
  <1>5. p * each(b) \in Nat /\ q * each(c) \in Nat /\ p * each(b) <= q * each(c)
    BY <1>2, <1>4, ProductGrows
  <1>6. p * each(b) > CpuLimit
    BY DEF CpuBound, PacketsPerSecond, p, each
  <1>7. q * each(c) > CpuLimit
    BY <1>1, <1>5, <1>6
  <1> QED
    BY <1>7 DEF CpuBound, PacketsPerSecond, q, each

LEMMA ThroughputGrows ==
    ASSUME NEW b \in Config, NEW c \in Config, NoMoreLoad(b, c),
           c.streams * c.bitrate * c.subs < BpsSpace
    PROVE  Throughput(b) \in Nat /\ Throughput(c) \in Nat /\ Throughput(b) <= Throughput(c)
  <1>1. BpsSpace \in Nat \ {0}
    BY CapacityAssumption
  <1>2. ASSUME NEW d \in Config, d.streams * d.bitrate * d.subs < BpsSpace
        PROVE  Throughput(d) = d.streams * d.bitrate * d.subs
    <2> DEFINE p == d.streams * d.bitrate
    <2>1. d.streams \in Nat /\ d.bitrate \in Nat /\ d.subs \in Nat
      BY DEF Config
    <2>2. p \in Nat
      BY <2>1, ProductGrows
    <2> HIDE DEF p
    <2>3. Throughput(d) = ((p % BpsSpace) * d.subs) % BpsSpace
      BY DEF Throughput, p
    <2>4. p * d.subs < BpsSpace /\ p * d.subs \in Nat
      <3>1. p * d.subs \in Nat
        BY <2>1, <2>2, ProductGrows
      <3> QED
        BY <1>2, <3>1 DEF p
    <2>5. CASE d.subs = 0
      <3>1. p % BpsSpace \in Nat
        BY <1>1, <2>2
      <3>2. (p % BpsSpace) * d.subs = 0 /\ p * d.subs = 0
        BY <2>2, <2>5, <3>1
      <3>3. 0 % BpsSpace = 0
        BY <1>1, WholeDivision
      <3> QED
        BY <2>3, <3>2, <3>3 DEF p
    <2>6. CASE d.subs # 0
      <3>1. 1 <= d.subs /\ p <= p /\ p * 1 = p
        BY <2>1, <2>2, <2>6
      <3>2. p * 1 <= p * d.subs
        BY <2>1, <2>2, <3>1, ProductGrows
      <3>3. p < BpsSpace
        BY <1>1, <2>2, <2>4, <3>1, <3>2
      <3>4. p % BpsSpace = p
        BY <1>1, <2>2, <3>3, WholeDivision
      <3>5. (p * d.subs) % BpsSpace = p * d.subs
        BY <1>1, <2>4, WholeDivision
      <3> QED
        BY <2>3, <3>4, <3>5 DEF p
    <2> QED
      BY <2>5, <2>6
  <1>3. /\ b.streams \in Nat /\ c.streams \in Nat /\ b.streams <= c.streams
        /\ b.bitrate \in Nat /\ c.bitrate \in Nat /\ b.bitrate <= c.bitrate
        /\ b.subs \in Nat /\ c.subs \in Nat /\ b.subs <= c.subs
    BY DEF NoMoreLoad, Config
  <1> DEFINE p == b.streams * b.bitrate
             q == c.streams * c.bitrate
  <1>4. p \in Nat /\ q \in Nat /\ p <= q
    BY <1>3, ProductGrows
  <1> HIDE DEF p, q
  <1>5. p * b.subs \in Nat /\ q * c.subs \in Nat /\ p * b.subs <= q * c.subs
    BY <1>3, <1>4, ProductGrows
  <1>6. q * c.subs < BpsSpace
    BY DEF q
  <1>7. p * b.subs < BpsSpace
    BY <1>1, <1>5, <1>6
  <1>8. Throughput(b) = p * b.subs /\ Throughput(c) = q * c.subs
    BY <1>2, <1>6, <1>7 DEF p, q
  <1> QED
    BY <1>5, <1>8

LEMMA MemoryGrows ==
    ASSUME NEW b \in Config, NEW c \in Config, NoMoreLoad(b, c), c.fps > 0, MemoryBound(b)
    PROVE  MemoryBound(c)
  <1> DEFINE k == BitsPerKb * c.fps
             x == b.bitrate * Window
             y == c.bitrate * Window
             m == KbPerStream * k
  <1>1. /\ KbPerStream \in Nat /\ MemoryLimit \in Nat /\ Window \in Nat
        /\ BitsPerKb \in Nat /\ BitsPerKb > 0
    BY CapacityAssumption
  <1>2. /\ b.streams \in Nat /\ c.streams \in Nat /\ b.streams <= c.streams
        /\ b.bitrate \in Nat /\ c.bitrate \in Nat /\ b.bitrate <= c.bitrate
        /\ c.fps \in Nat /\ b.fps = c.fps /\ (b.recovery => c.recovery)
        /\ b.recovery \in BOOLEAN /\ c.recovery \in BOOLEAN
    BY DEF NoMoreLoad, Config
  <1>3. k \in Nat /\ k >= 1
    <2>1. 1 <= BitsPerKb /\ 1 <= c.fps /\ 1 * 1 = 1
      BY <1>1, <1>2
    <2> QED
      BY <1>1, <1>2, <2>1, ProductGrows
  <1>4. x \in Nat /\ y \in Nat /\ x <= y
    <2>1. Window <= Window
      BY <1>1
    <2> QED
      BY <1>1, <1>2, <2>1, ProductGrows
  <1>5. m = KbPerStream * BitsPerKb * c.fps /\ MemoryLimit * k = MemoryLimit * BitsPerKb * c.fps
    BY <1>1, <1>2
  <1>6. /\ MemoryBound(c) <=> IF c.recovery THEN c.streams * (y + m) > MemoryLimit * k
                              ELSE c.streams * KbPerStream > MemoryLimit
        /\ MemoryBound(b) <=> IF b.recovery THEN b.streams * (x + m) > MemoryLimit * k
                              ELSE b.streams * KbPerStream > MemoryLimit
    BY <1>2, <1>5 DEF MemoryBound
  <1> HIDE DEF k, x, y
  <1>7. m \in Nat
    BY <1>1, <1>3, ProductGrows
  <1> HIDE DEF m
  <1>8. CASE b.recovery
    <2>1. b.streams * (x + m) \in Nat /\ b.streams * (x + m) <= c.streams * (y + m)
          /\ c.streams * (y + m) \in Nat
      <3>1. x + m \in Nat /\ y + m \in Nat /\ x + m <= y + m
        BY <1>4, <1>7
      <3> QED
        BY <1>2, <3>1, ProductGrows
    <2>2. MemoryLimit * k \in Nat
      BY <1>1, <1>3
    <2> QED
      BY <1>2, <1>6, <1>8, <2>1, <2>2
  <1>9. CASE ~b.recovery
    <2> DEFINE p == b.streams * KbPerStream
               q == c.streams * KbPerStream
    <2>1. p \in Nat /\ q \in Nat /\ p <= q
      <3>1. KbPerStream <= KbPerStream
        BY <1>1
      <3> QED
        BY <1>1, <1>2, <3>1, ProductGrows
    <2>2. p > MemoryLimit
      BY <1>6, <1>9
    <2>3. CASE ~c.recovery
      BY <1>1, <1>6, <2>1, <2>2, <2>3
    <2>4. CASE c.recovery
      <3>1. c.streams * m <= c.streams * (y + m) /\ c.streams * (y + m) \in Nat
        <4>1. m \in Nat /\ y + m \in Nat /\ m <= y + m /\ c.streams <= c.streams
          BY <1>2, <1>4, <1>7
        <4> QED
          BY <1>2, <4>1, ProductGrows
      <3>2. c.streams * m = q * k
        BY <1>1, <1>2, <1>3 DEF m
      <3> HIDE DEF p, q
      <3>3. (MemoryLimit + 1) * k <= q * k /\ q * k \in Nat
        <4>1. MemoryLimit + 1 \in Nat /\ MemoryLimit + 1 <= q /\ k <= k
          BY <1>1, <1>3, <2>1, <2>2
        <4> QED
          BY <1>3, <2>1, <4>1, ProductGrows
      <3>4. (MemoryLimit + 1) * k = MemoryLimit * k + k /\ MemoryLimit * k \in Nat
        BY <1>1, <1>3
      <3>5. c.streams * (y + m) > MemoryLimit * k
        BY <1>3, <3>1, <3>2, <3>3, <3>4
      <3> QED
        BY <1>6, <2>4, <3>5
    <2> QED
      BY <2>3, <2>4
  <1> QED
    BY <1>8, <1>9

LEMMA BottleneckNames ==
    ASSUME NEW c PROVE Bottleneck(c) # "none" <=>
                          CpuBound(c) \/ MemoryBound(c) \/ Throughput(c) > NetworkLimit
  <1>1. CASE CpuBound(c)
    BY <1>1 DEF Bottleneck
  <1>2. CASE ~CpuBound(c) /\ MemoryBound(c)
    BY <1>2 DEF Bottleneck
  <1>3. CASE ~CpuBound(c) /\ ~MemoryBound(c) /\ Throughput(c) > NetworkLimit
    BY <1>3 DEF Bottleneck
  <1>4. CASE ~CpuBound(c) /\ ~MemoryBound(c) /\ ~(Throughput(c) > NetworkLimit)
    BY <1>4 DEF Bottleneck
  <1> QED
    BY <1>1, <1>2, <1>3, <1>4

\* More load, at the same frame rate, never loses a bottleneck or a target.
LEMMA LoadOnlyAdds ==
    ASSUME NEW b \in Config, NEW c \in Config, NoMoreLoad(b, c), c.fps > 0,
           c.streams * c.bitrate * c.subs < BpsSpace
    PROVE  /\ SimulateCapacity(b, {}).bottleneck # "none" =>
                SimulateCapacity(c, {}).bottleneck # "none"
           /\ SimulateCapacity(b, {}).meets_target => SimulateCapacity(c, {}).meets_target
  <1>1. Bottleneck(b) # "none" => Bottleneck(c) # "none"
    <2>1. Throughput(b) > NetworkLimit => Throughput(c) > NetworkLimit
      <3>1. NetworkLimit \in Nat
        BY CapacityAssumption
      <3> QED
        BY <3>1, ThroughputGrows
    <2> QED
      BY <2>1, CpuGrows, MemoryGrows, BottleneckNames
  <1>2. b.streams >= TargetStreams => c.streams >= TargetStreams
    <2>1. TargetStreams \in Nat
      BY CapacityAssumption
    <2> QED
      BY <2>1 DEF NoMoreLoad, Config
  <1>3. Latency(c) <= MaxLatency
    BY DEF Latency, MaxLatency
  <1> QED
    BY <1>1, <1>2, <1>3 DEF SimulateCapacity

LEMMA SmallerIsNoMore ==
    ASSUME NEW c \in Config, NEW b \in Smaller(c)
    PROVE  b \in Config /\ NoMoreLoad(b, c)
  <1>1. CASE b \in {[c EXCEPT !.streams = n] : n \in {c.streams - 1} \cap Nat}
    BY <1>1 DEF Config, NoMoreLoad
  <1>2. CASE b \in {[c EXCEPT !.subs = n] : n \in {c.subs - 1} \cap Nat}
    BY <1>2 DEF Config, NoMoreLoad
  <1>3. CASE b \in {[c EXCEPT !.bitrate = n] : n \in {c.bitrate - 1} \cap Nat}
    BY <1>3 DEF Config, NoMoreLoad
  <1>4. CASE b \in {[c EXCEPT !.recovery = FALSE]}
    <2>1. /\ b = [c EXCEPT !.recovery = FALSE]
          /\ c.streams \in Nat /\ c.fps \in Nat /\ c.bitrate \in Nat /\ c.subs \in Nat
      BY <1>4 DEF Config
    <2>2. /\ b.streams = c.streams /\ b.fps = c.fps /\ b.bitrate = c.bitrate /\ b.subs = c.subs
          /\ b.recovery = FALSE
      BY <2>1 DEF Config
    <2>3. b \in Config
      BY <2>1 DEF Config
    <2> QED
      BY <2>1, <2>2, <2>3 DEF NoMoreLoad
  <1> QED
    BY <1>1, <1>2, <1>3, <1>4 DEF Smaller

LEMMA PathOfFour ==
    ASSUME NEW e, NEW a, NEW b, NEW c, a # e, b # e, c # e
    PROVE  LET w == Without(<<e, a, b, c>>, {e})
           IN  Len(w) = 3 /\ w[1] = a /\ w[2] = b /\ w[3] = c
  <1> DEFINE s == <<e, a, b, c>>
             S == {s[i] : i \in DOMAIN s} \ {e}
             u == KeptUpTo(s, S)
  <1>1. Len(s) = 4 /\ DOMAIN s = 1 .. 4 /\ s[1] = e /\ s[2] = a /\ s[3] = b /\ s[4] = c
    OBVIOUS
  <1>2. 1 \in 1 .. 4 /\ 2 \in 1 .. 4 /\ 3 \in 1 .. 4 /\ 4 \in 1 .. 4 /\ 4 \in Nat
    OBVIOUS
  <1>3. s[1] \notin S /\ s[2] \in S /\ s[3] \in S /\ s[4] \in S
    <2>1. \A i \in 1 .. 4 : s[i] # e => s[i] \in S
      BY <1>1
    <2> QED
      BY <1>1, <1>2, <2>1
  <1> HIDE DEF s, S
  <1>4. /\ u[0] = <<>>
        /\ \A n \in 1 .. 4 : u[n] = IF s[n] \in S THEN Append(u[n - 1], s[n]) ELSE u[n - 1]
        /\ Within(s, S) = u[4]
    <2>1. Len(s) \in Nat
      BY <1>1, <1>2
    <2>2. /\ KeptUpTo(s, S)[0] = <<>>
          /\ \A n \in 1 .. Len(s) :
                KeptUpTo(s, S)[n] = IF s[n] \in S THEN Append(KeptUpTo(s, S)[n - 1], s[n])
                                    ELSE KeptUpTo(s, S)[n - 1]
          /\ Within(s, S) = KeptUpTo(s, S)[Len(s)]
      BY <2>1, KeptSteps
    <2> QED
      BY <1>1, <2>2
  <1> HIDE DEF u
  <1>5. u[1] = u[0] /\ u[2] = Append(u[1], a) /\ u[3] = Append(u[2], b) /\ u[4] = Append(u[3], c)
    <2>1. 1 - 1 = 0 /\ 2 - 1 = 1 /\ 3 - 1 = 2 /\ 4 - 1 = 3
      OBVIOUS
    <2> QED
      BY <1>1, <1>2, <1>3, <1>4, <2>1
  <1>6. /\ \A t \in Seq({a, b, c}), x \in {a, b, c} :
              /\ Append(t, x) \in Seq({a, b, c}) /\ Len(Append(t, x)) = Len(t) + 1
              /\ Append(t, x)[Len(t) + 1] = x
              /\ \A i \in 1 .. Len(t) : Append(t, x)[i] = t[i]
        /\ <<>> \in Seq({a, b, c}) /\ Len(<<>>) = 0
    OBVIOUS
  <1>7. Len(Within(s, S)) = 3 /\ Within(s, S)[1] = a /\ Within(s, S)[2] = b /\ Within(s, S)[3] = c
    <2>1. u[1] \in Seq({a, b, c}) /\ Len(u[1]) = 0
      BY <1>4, <1>5, <1>6
    <2>2. u[2] \in Seq({a, b, c}) /\ Len(u[2]) = 1 /\ u[2][1] = a
      BY <1>5, <1>6, <2>1
    <2>3. u[3] \in Seq({a, b, c}) /\ Len(u[3]) = 2 /\ u[3][1] = a /\ u[3][2] = b
      BY <1>5, <1>6, <2>2
    <2>4. Len(u[4]) = 3 /\ u[4][1] = a /\ u[4][2] = b /\ u[4][3] = c
      BY <1>5, <1>6, <2>3
    <2> QED
      BY <1>4, <2>4
  <1>8. Without(s, {e}) = Within(s, S)
    BY DEF Without, S
  <1> QED
    BY <1>7, <1>8 DEF s

LEMMA FourAreNotTwo ==
    ASSUME NEW a, NEW b, NEW c, NEW d, NEW x, NEW y PROVE <<a, b, c, d>> # <<x, y>>
  <1>1. Len(<<a, b, c, d>>) = 4 /\ Len(<<x, y>>) = 2 /\ 4 # 2
    OBVIOUS
  <1> QED
    BY <1>1

\* The handlers whose calls have a body.
Asked == {"nack", "recover", "benchmark"}

LEMMA ActionIsAsked ==
    ASSUME NEW action \in Asked
    PROVE  Dispatch("POST", <<"", "room", "r", action>>) = [handler |-> action, room |-> "r"]
  <1> DEFINE path == <<"", "room", "r", action>>
             words == PathWords(path)
  <1> DEFINE e == ""
             a == "room"
             b == "r"
  <1>0. a # e /\ b # e /\ action # e
    BY DEF Asked
  <1>1. words = Without(<<e, a, b, action>>, {e})
    BY DEF PathWords
  <1>2. Len(words) >= 3 /\ words[1] = a /\ words[2] = b /\ words[3] = action
    <2> HIDE DEF e, a, b, words
    <2> DEFINE u == Without(<<e, a, b, action>>, {e})
    <2>1. Len(u) = 3 /\ u[1] = a /\ u[2] = b /\ u[3] = action
      BY <1>0, PathOfFour
    <2>2. words = u
      BY <1>1
    <2> HIDE DEF u
    <2> QED
      BY <2>1, <2>2
  <1>3. path # <<"", "healthz">>
    BY FourAreNotTwo
  <1> HIDE DEF path, words
  <1>4. <<"POST", action>> \in Handlers
    BY DEF Handlers, Asked
  <1>5. Dispatch("POST", path) = [handler |-> words[3], room |-> words[2]]
    BY <1>2, <1>3, <1>4 DEF Dispatch, words
  <1> QED
    BY <1>2, <1>5 DEF path

LEMMA AskedIsComputed ==
    ASSUME NEW action \in Asked, NEW body
    PROVE  Answer(Request(action, body)) = Computed(action, body)
  <1> DEFINE request == Request(action, body)
             to == Dispatch(request.method, request.path)
             ice == DefaultIce([v4 |-> 1])
  <1> HIDE DEF ice
  <1>1. request.body = {body} /\ to = Dispatch("POST", <<"", "room", "r", action>>)
    BY DEF Request
  <1> HIDE DEF request
  <1>2. to = [handler |-> action, room |-> "r"]
    BY <1>1, ActionIsAsked
  <1>3. DOMAIN to # {"status"} /\ to.handler = action
    <2>1. DOMAIN to = {"handler", "room"} /\ to.handler = action
      <3> HIDE DEF to
      <3> QED
        BY <1>2, Destination
    <2> QED
      BY <2>1
  <1>4. (CHOOSE b \in request.body : TRUE) = body /\ request.body # {}
    BY <1>1
  <1>5. action \in {"nack", "fec", "recover", "benchmark"}
    BY DEF Asked
  <1>6. Route(request, ice, "linux") = Computed(action, body)
    BY <1>3, <1>4, <1>5 DEF Route
  <1> QED
    BY <1>6 DEF Answer, ice, request

\* BottleneckStays's words about one answer.
Stays(c, r) ==
    (c.fps > 0 /\ c.streams * c.bitrate * c.subs < BpsSpace) =>
        \A b \in Smaller(c) :
            /\ SimulateCapacity(b, {}).bottleneck # "none" => r.report.bottleneck # "none"
            /\ SimulateCapacity(b, {}).meets_target => r.report.meets_target

LEMMA BenchmarkAnswered ==
    ASSUME NEW config
    PROVE  Answer(Request("benchmark", [config |-> config, losses |-> {}])).report
             = SimulateCapacity(config, {})
  <1> DEFINE body == [config |-> config, losses |-> {}]
  <1>1. body.config = config /\ body.losses = {}
    OBVIOUS
  <1> HIDE DEF body
  <1>2. Answer(Request("benchmark", body)) = Computed("benchmark", body)
    BY AskedIsComputed DEF Asked
  <1>3. Computed("benchmark", body) = BenchmarkRoute(body)
    BY DEF Computed
  <1>4. BenchmarkRoute(body).report = SimulateCapacity(config, {})
    BY <1>1 DEF BenchmarkRoute
  <1> QED
    BY <1>2, <1>3, <1>4 DEF body

LEMMA BenchmarkStays ==
    ASSUME NEW c \in Config, NEW r, r.report = SimulateCapacity(c, {}) PROVE Stays(c, r)
  <1> SUFFICES ASSUME c.fps > 0, c.streams * c.bitrate * c.subs < BpsSpace, NEW b \in Smaller(c)
               PROVE  /\ SimulateCapacity(b, {}).bottleneck # "none" =>
                            SimulateCapacity(c, {}).bottleneck # "none"
                      /\ SimulateCapacity(b, {}).meets_target =>
                            SimulateCapacity(c, {}).meets_target
    BY DEF Stays
  <1>1. b \in Config /\ NoMoreLoad(b, c)
    BY SmallerIsNoMore
  <1> QED
    BY <1>1, LoadOnlyAdds

------------------------------------------------------------------------------
(* Requests for retransmission.                                             *)

\* The caches after the first n packets, for each n.
RecordedUpTo(packets) ==
    LET after[n \in 0 .. Len(packets)] ==
          IF n = 0 THEN <<>> ELSE RecordedIn(after[n - 1], packets[n])
    IN  after

\* g says so for the first m packets.
Records(g, packets, m) ==
    g = [n \in 0 .. m |-> IF n = 0 THEN <<>> ELSE RecordedIn(g[n - 1], packets[n])]

LEMMA RecordedSteps ==
    ASSUME NEW packets, Len(packets) \in Nat
    PROVE  /\ RecordedUpTo(packets)[0] = <<>>
           /\ \A n \in 1 .. Len(packets) :
                RecordedUpTo(packets)[n] = RecordedIn(RecordedUpTo(packets)[n - 1], packets[n])
           /\ Recorded(packets) = RecordedUpTo(packets)[Len(packets)]
  <1> DEFINE None == {m \in Nat : ~\E g : Records(g, packets, m)}
  <1>1. ASSUME NEW k \in None PROVE FALSE
    <2>1. PICK m \in None : \A l \in None : m <= l
      <3>1. None \in SUBSET Nat /\ None # {}
        BY <1>1
      <3> HIDE DEF None
      <3> QED
        BY <3>1, LeastOne
    <2>2. m # 0
      <3>1. Records([n \in 0 .. 0 |-> <<>>], packets, 0)
        BY DEF Records
      <3> QED
        BY <3>1
    <2>3. m \in Nat /\ m - 1 \in Nat /\ m - 1 \notin None
      BY <2>1, <2>2
    <2>4. PICK g : Records(g, packets, m - 1)
      BY <2>3
    <2> DEFINE h == [n \in 0 .. m |->
                       IF n = 0 THEN <<>> ELSE RecordedIn(g[n - 1], packets[n])]
    <2>5. ASSUME NEW n \in 0 .. m - 1 PROVE h[n] = g[n]
      <3>1. g[n] = IF n = 0 THEN <<>> ELSE RecordedIn(g[n - 1], packets[n])
        BY <2>4 DEF Records
      <3>2. n \in 0 .. m
        BY <2>3
      <3> QED
        BY <3>1, <3>2
    <2>6. Records(h, packets, m)
      <3>1. ASSUME NEW n \in 0 .. m, n # 0 PROVE h[n - 1] = g[n - 1]
        <4>1. n - 1 \in 0 .. m - 1
          BY <2>3, <3>1
        <4> HIDE DEF h
        <4> QED
          BY <2>5, <4>1
      <3>2. h = [n \in 0 .. m |-> IF n = 0 THEN <<>> ELSE RecordedIn(h[n - 1], packets[n])]
        BY <3>1
      <3> QED
        BY <3>2 DEF Records
    <2> QED
      BY <2>1, <2>6
  <1>2. \E g : Records(g, packets, Len(packets))
    BY <1>1
  <1>3. RecordedUpTo(packets) = CHOOSE g : Records(g, packets, Len(packets))
    BY DEF RecordedUpTo, Records
  <1>4. Records(RecordedUpTo(packets), packets, Len(packets))
    BY <1>2, <1>3
  <1>5. \A n \in 0 .. Len(packets) :
          RecordedUpTo(packets)[n] =
            IF n = 0 THEN <<>> ELSE RecordedIn(RecordedUpTo(packets)[n - 1], packets[n])
    BY <1>4 DEF Records
  <1>6. Recorded(packets) = RecordedUpTo(packets)[Len(packets)]
    BY DEF Recorded, RecordedUpTo
  <1> QED
    BY <1>5, <1>6

LEMMA DistanceIsRemainder ==
    ASSUME NEW s \in Sequence, NEW x \in Sequence
    PROVE  /\ SeqDistance(s, x) = (x - s) % NumberSpace
           /\ ~Stale(s, x) /\ s # x <=> (x - s) % NumberSpace \in 1 .. Window
  <1>1. NumberSpace \in Nat \ {0} /\ Window \in Nat
    BY SequenceAssumption
  <1>2. s \in 0 .. NumberSpace - 1 /\ x \in 0 .. NumberSpace - 1
    BY DEF Sequence
  <1>3. CASE s <= x
    <2>1. (x - s) % NumberSpace = x - s
      <3>1. x - s \in Nat /\ x - s < NumberSpace
        BY <1>1, <1>2, <1>3
      <3> QED
        BY <1>1, <3>1, WholeDivision
    <2> QED
      BY <1>1, <1>2, <1>3, <2>1 DEF SeqDistance, Stale
  <1>4. CASE ~(s <= x)
    <2>1. (x - s) % NumberSpace = NumberSpace + x - s
      BY <1>1, <1>2, <1>4
    <2> QED
      BY <1>1, <1>2, <1>4, <2>1 DEF SeqDistance, Stale
  <1> QED
    BY <1>3, <1>4

\* The places of the first n packets that are in the cache under the number s.
Current(packets, s, n) ==
    {i \in 1 .. n : /\ packets[i].seq = s
                    /\ \A j \in i + 1 .. n : (packets[j].seq - s) % NumberSpace \in 1 .. Window}

LEMMA CurrentStep ==
    ASSUME NEW packets, NEW n \in Nat \ {0}, NEW s \in Sequence, packets[n].seq \in Sequence
    PROVE  Current(packets, s, n) =
             IF s = packets[n].seq THEN {n}
             ELSE IF Stale(s, packets[n].seq) THEN {} ELSE Current(packets, s, n - 1)
  <1> DEFINE x == packets[n].seq
             In(i, m) == /\ packets[i].seq = s
                         /\ \A j \in i + 1 .. m :
                                (packets[j].seq - s) % NumberSpace \in 1 .. Window
  <1>1. s # x /\ ~Stale(s, x) <=> (x - s) % NumberSpace \in 1 .. Window
    BY DistanceIsRemainder
  <1>2. ASSUME NEW i \in 1 .. n - 1
        PROVE  In(i, n) <=> (In(i, n - 1) /\ (x - s) % NumberSpace \in 1 .. Window)
    <2>1. n \in i + 1 .. n /\ \A j : j \in i + 1 .. n <=> (j \in i + 1 .. n - 1 \/ j = n)
      BY <1>2
    <2> QED
      BY <2>1
  <1>3. In(n, n) <=> x = s
    <2>1. n + 1 .. n = {}
      OBVIOUS
    <2> QED
      BY <2>1
  <1>4. /\ \A i : i \in Current(packets, s, n) <=> (i \in 1 .. n /\ In(i, n))
        /\ \A i : i \in Current(packets, s, n - 1) <=> (i \in 1 .. n - 1 /\ In(i, n - 1))
    BY DEF Current
  <1>5. \A i : i \in 1 .. n <=> (i \in 1 .. n - 1 \/ i = n)
    OBVIOUS
  <1>6. n \notin 1 .. n - 1
    OBVIOUS
  <1> HIDE DEF In, x
  <1>7. CASE s = x
    <2>1. \A i : i \in Current(packets, s, n) <=> i = n
      BY <1>1, <1>2, <1>3, <1>4, <1>5, <1>7
    <2> QED
      BY <1>7, <2>1 DEF x
  <1>8. CASE s # x /\ Stale(s, x)
    <2>1. \A i : i \notin Current(packets, s, n)
      BY <1>1, <1>2, <1>3, <1>4, <1>5, <1>8
    <2> QED
      BY <1>8, <2>1 DEF x
  <1>9. CASE s # x /\ ~Stale(s, x)
    <2>1. \A i : i \in Current(packets, s, n) <=> i \in Current(packets, s, n - 1)
      BY <1>1, <1>2, <1>3, <1>4, <1>5, <1>9
    <2> QED
      BY <1>9, <2>1 DEF x
  <1> QED
    BY <1>7, <1>8, <1>9

\* c holds, under each number, the packet at the place that is current.
HoldsCurrent(c, packets, n) ==
    /\ DOMAIN c \subseteq Sequence
    /\ \A s \in Sequence :
        /\ s \in DOMAIN c <=> Current(packets, s, n) # {}
        /\ \A i \in Current(packets, s, n) : c[s] = packets[i]

LEMMA RecordedHolds ==
    ASSUME NEW packets, Len(packets) \in Nat,
           \A i \in 1 .. Len(packets) : packets[i].seq \in Sequence
    PROVE  HoldsCurrent(Recorded(packets), packets, Len(packets))
  <1> DEFINE c(m) == RecordedUpTo(packets)[m]
             Bad == {m \in Nat : m <= Len(packets) /\ ~HoldsCurrent(c(m), packets, m)}
  <1>1. ASSUME NEW least \in Bad PROVE FALSE
    <2>1. PICK m \in Bad : \A l \in Bad : m <= l
      <3>1. Bad \in SUBSET Nat /\ Bad # {}
        BY <1>1
      <3> HIDE DEF Bad
      <3> QED
        BY <3>1, LeastOne
    <2>2. CASE m = 0
      <3>1. c(0) = <<>> /\ DOMAIN <<>> = {}
        BY RecordedSteps
      <3>2. \A s : Current(packets, s, 0) = {}
        BY DEF Current
      <3>3. HoldsCurrent(<<>>, packets, 0)
        BY <3>1, <3>2 DEF HoldsCurrent
      <3> QED
        BY <2>1, <2>2, <3>1, <3>3
    <2>3. CASE m # 0
      <3>1. m \in 1 .. Len(packets) /\ m \in Nat \ {0} /\ m - 1 \in Nat /\ m - 1 \notin Bad
              /\ m - 1 <= Len(packets)
        BY <2>1, <2>3
      <3> DEFINE x == packets[m].seq
                 b == c(m - 1)
                 d == RecordedIn(b, packets[m])
      <3>2. HoldsCurrent(b, packets, m - 1)
        BY <3>1
      <3>3. c(m) = d
        BY <3>1, RecordedSteps
      <3>4. x \in Sequence
        BY <3>1
      <3> HIDE DEF b
      <3>5. /\ DOMAIN d = {t \in DOMAIN b : ~Stale(t, x)} \cup {x}
            /\ d[x] = packets[m]
            /\ \A s \in DOMAIN b : s # x /\ ~Stale(s, x) => d[s] = b[s]
        BY DEF RecordedIn
      <3> HIDE DEF d, c
      <3>6. ASSUME NEW s \in Sequence
            PROVE  /\ s \in DOMAIN d <=> Current(packets, s, m) # {}
                   /\ \A i \in Current(packets, s, m) : d[s] = packets[i]
        <4>0. Current(packets, s, m) =
                IF s = x THEN {m} ELSE IF Stale(s, x) THEN {} ELSE Current(packets, s, m - 1)
          BY <3>1, <3>4, CurrentStep
        <4> HIDE DEF x
        <4>1. CASE s = x
          BY <3>5, <4>0, <4>1
        <4>2. CASE s # x /\ Stale(s, x)
          BY <3>5, <4>0, <4>2
        <4>3. CASE s # x /\ ~Stale(s, x)
          <5>1. /\ s \in DOMAIN b <=> Current(packets, s, m - 1) # {}
                /\ \A i \in Current(packets, s, m - 1) : b[s] = packets[i]
            BY <3>2 DEF HoldsCurrent
          <5>2. s \in DOMAIN d <=> s \in DOMAIN b
            BY <3>5, <4>3
          <5>3. s \in DOMAIN b => d[s] = b[s]
            BY <3>5, <4>3
          <5> QED
            BY <4>0, <4>3, <5>1, <5>2, <5>3
        <4> QED
          BY <4>1, <4>2, <4>3
      <3>7. DOMAIN d \subseteq Sequence
        BY <3>2, <3>4, <3>5 DEF HoldsCurrent
      <3>8. HoldsCurrent(d, packets, m)
        BY <3>6, <3>7 DEF HoldsCurrent
      <3> QED
        BY <2>1, <3>3, <3>8
    <2> QED
      BY <2>2, <2>3
  <1>2. HoldsCurrent(c(Len(packets)), packets, Len(packets))
    BY <1>1
  <1> QED
    BY <1>2, RecordedSteps

\* Among the hits, those before which there are fewer than limit.
FirstHits(s, S, limit, n) == {i \in Hits(s, S, n) : Cardinality(Hits(s, S, i - 1)) < limit}

LEMMA FirstHitsCounted ==
    ASSUME NEW s, NEW S, NEW limit \in Nat, NEW n \in Nat
    PROVE  Cardinality(FirstHits(s, S, limit, n)) = Min({Cardinality(Hits(s, S, n)), limit})
  <1> DEFINE F(m) == FirstHits(s, S, limit, m)
             H(m) == Cardinality(Hits(s, S, m))
             Least(m) == IF H(m) <= limit THEN H(m) ELSE limit
             Bad == {m \in Nat : Cardinality(F(m)) # Least(m)}
  <1>1. \A m \in Nat : H(m) \in Nat
    BY HitsFinite
  <1>2. ASSUME NEW m \in Nat PROVE IsFiniteSet(F(m))
    <2>1. F(m) \subseteq Hits(s, S, m)
      BY DEF FirstHits
    <2> QED
      BY <2>1, HitsFinite, FS_Subset
  <1>3. ASSUME NEW least \in Bad PROVE FALSE
    <2>1. PICK m \in Bad : \A l \in Bad : m <= l
      <3>1. Bad \in SUBSET Nat /\ Bad # {}
        BY <1>3
      <3> HIDE DEF Bad
      <3> QED
        BY <3>1, LeastOne
    <2>2. CASE m = 0
      <3>1. Hits(s, S, 0) = {}
        BY DEF Hits
      <3>2. F(0) = {}
        BY <3>1 DEF FirstHits
      <3>3. Cardinality(F(0)) = 0 /\ H(0) = 0
        BY <3>1, <3>2, FS_EmptySet
      <3> HIDE DEF F, H
      <3> QED
        BY <2>1, <2>2, <3>3
    <2>3. CASE m # 0
      <3>1. m \in Nat \ {0} /\ m - 1 \in Nat /\ m - 1 \notin Bad
        BY <2>1, <2>3
      <3>2. Cardinality(F(m - 1)) = Least(m - 1)
        BY <3>1
      <3>3. m \notin F(m - 1)
        BY <3>1 DEF FirstHits, Hits
      <3>4. CASE s[m] \notin S
        <4>1. Hits(s, S, m) = Hits(s, S, m - 1)
          BY <3>1, <3>4, OneMoreHit
        <4>2. F(m) = F(m - 1) /\ H(m) = H(m - 1)
          BY <4>1 DEF FirstHits
        <4> HIDE DEF F, H
        <4> QED
          BY <2>1, <3>2, <4>2
      <3>5. CASE s[m] \in S
        <4>1. H(m) = H(m - 1) + 1
          BY <3>1, <3>5, OneMoreHit
        <4>2. Hits(s, S, m) = Hits(s, S, m - 1) \cup {m}
          BY <3>1, <3>5 DEF Hits
        <4>3. F(m) = IF H(m - 1) < limit THEN F(m - 1) \cup {m} ELSE F(m - 1)
          BY <4>2 DEF FirstHits
        <4>4. IsFiniteSet(F(m - 1)) /\ H(m - 1) \in Nat
          BY <1>1, <1>2, <3>1
        <4> HIDE DEF F, H
        <4>5. Cardinality(F(m)) = IF H(m - 1) < limit THEN Cardinality(F(m - 1)) + 1
                                  ELSE Cardinality(F(m - 1))
          BY <3>3, <4>3, <4>4, FS_AddElement
        <4>6. Cardinality(F(m)) = Least(m)
          BY <3>2, <4>1, <4>4, <4>5
        <4> QED
          BY <2>1, <4>6
      <3> QED
        BY <3>4, <3>5
    <2> QED
      BY <2>2, <2>3
  <1>4. Cardinality(F(n)) = Least(n)
    BY <1>3
  <1>5. Min({H(n), limit}) = Least(n)
    <2>1. H(n) \in Nat
      BY <1>1
    <2> HIDE DEF H
    <2>2. \A x \in {H(n), limit} : (\A y \in {H(n), limit} : x <= y) <=> x = Least(n)
      BY <2>1
    <2>3. Least(n) \in {H(n), limit}
      OBVIOUS
    <2> HIDE DEF Least
    <2> QED
      BY <2>2, <2>3 DEF Min
  <1> QED
    BY <1>4, <1>5

\* Of what a filter keeps, as many elements are in A as were before.
LEMMA KeptCounted ==
    ASSUME NEW T, NEW s \in Seq(T), NEW S, NEW A
    PROVE  /\ Within(s, S) \in Seq(T)
           /\ Cardinality({k \in DOMAIN Within(s, S) : Within(s, S)[k] \in A})
                = Cardinality(Hits(s, S \cap A, Len(s)))
           /\ IsFiniteSet({k \in DOMAIN Within(s, S) : Within(s, S)[k] \in A})
  <1> DEFINE w == Within(s, S)
             n == Len(s)
             K == {k \in DOMAIN w : w[k] \in A}
             B == Hits(s, S \cap A, n)
             f == [i \in B |-> Cardinality(Hits(s, S, i))]
  <1>1. n \in Nat
    OBVIOUS
  <1>2. IsKept(w, s, S, T, n)
    BY KeepsWithin
  <1> HIDE DEF w, n
  <1>3. w \in Seq(T) /\ Len(w) = Cardinality(Hits(s, S, n)) /\ DOMAIN w = 1 .. Len(w)
    BY <1>2 DEF IsKept
  <1>4. ASSUME NEW i \in Hits(s, S, n)
        PROVE  /\ i \in 1 .. n /\ s[i] \in S /\ w[Cardinality(Hits(s, S, i))] = s[i]
               /\ Cardinality(Hits(s, S, i)) \in 1 .. Len(w)
               /\ Cardinality(Hits(s, S, i)) = Cardinality(Hits(s, S, i - 1)) + 1
               /\ Cardinality(Hits(s, S, i - 1)) \in Nat
    <2>1. i \in 1 .. n /\ s[i] \in S
      BY DEF Hits
    <2>2. i \in Nat \ {0} /\ i - 1 \in Nat /\ i \in 0 .. n
      BY <1>1, <2>1
    <2>3. /\ Cardinality(Hits(s, S, i)) = Cardinality(Hits(s, S, i - 1)) + 1
          /\ Cardinality(Hits(s, S, i - 1)) \in Nat
      BY <2>1, <2>2, OneMoreHit, HitsFinite
    <2>4. Cardinality(Hits(s, S, i)) <= Cardinality(Hits(s, S, n))
      BY <1>1, <2>2, HitsFinite
    <2>5. Len(w) \in Nat
      BY <1>3
    <2> QED
      BY <1>2, <1>3, <2>1, <2>3, <2>4, <2>5 DEF IsKept
  <1>5. ASSUME NEW i \in Hits(s, S, n), NEW j \in Hits(s, S, n), i < j
        PROVE  Cardinality(Hits(s, S, i)) < Cardinality(Hits(s, S, j))
    <2>1. i \in 0 .. j - 1 /\ j - 1 \in Nat
      BY <1>1, <1>4, <1>5
    <2>2. Cardinality(Hits(s, S, i)) <= Cardinality(Hits(s, S, j - 1))
      BY <2>1, HitsFinite
    <2>3. Cardinality(Hits(s, S, i)) \in 1 .. Len(w) /\ Len(w) \in Nat
      BY <1>3, <1>4
    <2> QED
      BY <1>4, <2>2, <2>3
  <1>6. /\ \A i : i \in B <=> (i \in Hits(s, S, n) /\ s[i] \in A)
        /\ IsFiniteSet(B)
    BY <1>1, HitsFinite DEF Hits
  <1>7. f \in Bijection(B, K)
    <2>1. \A i \in B : f[i] \in K
      BY <1>3, <1>4, <1>6
    <2>2. ASSUME NEW i \in B, NEW j \in B, f[i] = f[j] PROVE i = j
      <3>1. i \in Hits(s, S, n) /\ j \in Hits(s, S, n)
        BY <1>6
      <3>2. i \in 1 .. n /\ j \in 1 .. n
        BY <1>4, <3>1
      <3>3. /\ Cardinality(Hits(s, S, i)) = Cardinality(Hits(s, S, j))
            /\ Cardinality(Hits(s, S, i)) \in 1 .. Len(w)
        BY <1>4, <2>2, <3>1
      <3> HIDE DEF f, B, K
      <3>4. ~(i < j) /\ ~(j < i)
        BY <1>3, <1>5, <3>1, <3>3
      <3> QED
        BY <1>1, <3>2, <3>4
    <2>3. ASSUME NEW k \in K PROVE \E i \in B : f[i] = k
      <3>1. PICK i \in Hits(s, S, n) : Cardinality(Hits(s, S, i)) = k /\ w[k] = s[i]
        BY <1>2, <1>3 DEF IsKept
      <3>2. i \in B
        BY <1>6, <3>1
      <3> QED
        BY <3>1, <3>2
    <2>4. f \in [B -> K]
      BY <2>1
    <2> HIDE DEF f, B, K
    <2> QED
      BY <2>2, <2>3, <2>4 DEF Bijection, Injection, Surjection, IsInjective
  <1>8. ExistsBijection(B, K)
    BY <1>7 DEF ExistsBijection
  <1>9. Cardinality(K) = Cardinality(B) /\ IsFiniteSet(K)
    BY <1>6, <1>8, FS_Bijection
  <1> QED
    BY <1>3, <1>9 DEF w, n

\* AnswersWithinLimit's words about one answer.
AnsweredOften(c, r) ==
    \A s \in Sequence : \A i \in DOMAIN c.cached :
        Cardinality({k \in DOMAIN r.items : r.items[k] = [seq |-> s, place |-> i]})
            = IF i \in {m \in DOMAIN c.cached :
                          /\ c.cached[m] = s
                          /\ \A j \in m + 1 .. Len(c.cached) :
                                (c.cached[j] - s) % NumberSpace \in 1 .. Window}
              THEN Min({Cardinality({m \in DOMAIN c.lost : c.lost[m] = s}), c.limit})
              ELSE 0

LEMMA NumbersListed ==
    ASSUME NEW c \in NackCalls
    PROVE  /\ Len(c.cached) \in Nat /\ DOMAIN c.cached = 1 .. Len(c.cached)
           /\ \A i \in DOMAIN c.cached : c.cached[i] \in Sequence
           /\ Len(c.lost) \in Nat /\ DOMAIN c.lost = 1 .. Len(c.lost)
           /\ c.limit \in Nat /\ c.kind \in Kinds
  <1>1. /\ c.cached \in UNION {[1 .. n -> Sequence] : n \in 0 .. MaxPackets}
        /\ c.lost \in UNION {[1 .. n -> {0, 1, NumberSpace - 1}] : n \in 0 .. MaxPackets}
        /\ c.limit \in 0 .. 2 /\ c.kind = "audio"
    BY DEF NackCalls
  <1>2. PICK n \in 0 .. MaxPackets : c.cached \in [1 .. n -> Sequence]
    BY <1>1
  <1>3. PICK m \in 0 .. MaxPackets : c.lost \in [1 .. m -> {0, 1, NumberSpace - 1}]
    BY <1>1
  <1>4. n \in Nat /\ m \in Nat
    OBVIOUS
  <1>5. Len(c.cached) = n /\ Len(c.lost) = m
    BY <1>2, <1>3, <1>4
  <1>6. c.limit \in Nat /\ c.kind \in Kinds
    BY <1>1 DEF Kinds
  <1> QED
    BY <1>2, <1>3, <1>4, <1>5, <1>6

\* Of the numbers asked for that are in the cache, how many places are answered.
LEMMA PlacesAnswered ==
    ASSUME NEW cache, NEW lost, Len(lost) \in Nat, DOMAIN lost = 1 .. Len(lost),
           NEW limit \in Nat, NEW s \in DOMAIN cache
    PROVE  {i \in Answered(cache, lost, limit) : lost[i] = s}
             = FirstHits(lost, {s}, limit, Len(lost))
  <1>1. ASSUME NEW i \in 1 .. Len(lost), lost[i] = s
        PROVE  Hits(lost, {s}, i - 1) = {j \in 1 .. i - 1 : lost[j] = lost[i]}
    BY <1>1 DEF Hits
  <1>2. ASSUME NEW i
        PROVE  i \in Answered(cache, lost, limit) /\ lost[i] = s
                 <=> i \in FirstHits(lost, {s}, limit, Len(lost))
    BY <1>1 DEF Answered, FirstHits, Hits
  <1>3. Answered(cache, lost, limit) \subseteq DOMAIN lost
    BY DEF Answered
  <1> QED
    BY <1>2, <1>3

LEMMA NackAnswered ==
    ASSUME NEW c \in NackCalls, NEW r, r = Answer(Request("nack", NackBody(c)))
    PROVE  AnsweredOften(c, r)
  <1> DEFINE body == NackBody(c)
             packets == body.cached
             n == Len(packets)
             lost == c.lost
             cache == Recorded(packets)
             A == Answered(cache, lost, c.limit)
             ident == [i \in DOMAIN lost |-> i]
             places == Within(ident, A)
             items == [k \in DOMAIN places |-> cache[lost[places[k]]]]
  <1>1. /\ Len(c.cached) \in Nat /\ DOMAIN c.cached = 1 .. Len(c.cached)
        /\ \A i \in DOMAIN c.cached : c.cached[i] \in Sequence
        /\ Len(lost) \in Nat /\ DOMAIN lost = 1 .. Len(lost)
        /\ c.limit \in Nat /\ c.kind \in Kinds
    BY NumbersListed
  <1>2. /\ body.kind = c.kind /\ body.limit = c.limit /\ body.lost = lost
        /\ packets = [i \in DOMAIN c.cached |-> [seq |-> c.cached[i], place |-> i]]
    BY DEF NackBody
  <1>3. /\ n = Len(c.cached)
        /\ \A i \in 1 .. n : /\ packets[i] = [seq |-> c.cached[i], place |-> i]
                             /\ packets[i].seq = c.cached[i] /\ packets[i].place = i
                             /\ packets[i].seq \in Sequence
    BY <1>1, <1>2
  <1> HIDE DEF body
  <1>4. r = [status |-> 200, items |-> items]
    <2>1. r = Computed("nack", body)
      BY AskedIsComputed DEF Asked, body
    <2>2. Computed("nack", body) = NackRoute(body)
      BY DEF Computed
    <2> QED
      BY <1>1, <1>2, <2>1, <2>2 DEF NackRoute
  <1>5. HoldsCurrent(cache, packets, n)
    BY <1>1, <1>3, RecordedHolds
  <1>6. ident \in Seq(Nat) /\ Len(ident) = Len(lost)
    BY <1>1
  <1>7. places \in Seq(Nat) /\ \A k \in DOMAIN places : places[k] \in A
    <2>1. IsKept(places, ident, A, Nat, Len(ident))
      BY <1>6, KeepsWithin
    <2> HIDE DEF places, A, ident
    <2>2. places \in Seq(Nat) /\ DOMAIN places = 1 .. Len(places)
      BY <2>1 DEF IsKept
    <2>3. \A i \in Hits(ident, A, Len(ident)) : ident[i] \in A
      BY DEF Hits
    <2> QED
      BY <2>1, <2>2, <2>3 DEF IsKept
  <1>8. \A p \in A : p \in DOMAIN lost /\ lost[p] \in DOMAIN cache
    BY DEF Answered
  <1>9. r.items = items
    <2> HIDE DEF items
    <2> QED
      BY <1>4
  <1> SUFFICES ASSUME NEW s \in Sequence, NEW i \in DOMAIN c.cached
               PROVE  Cardinality({k \in DOMAIN r.items : r.items[k] = [seq |-> s, place |-> i]})
                        = IF i \in Current(packets, s, n)
                          THEN Min({Cardinality(Hits(lost, {s}, Len(lost))), c.limit})
                          ELSE 0
    <2>1. ASSUME NEW s \in Sequence
          PROVE  /\ {m \in DOMAIN c.cached :
                        /\ c.cached[m] = s
                        /\ \A j \in m + 1 .. Len(c.cached) :
                              (c.cached[j] - s) % NumberSpace \in 1 .. Window}
                      = Current(packets, s, n)
                 /\ {m \in DOMAIN lost : lost[m] = s} = Hits(lost, {s}, Len(lost))
      <3>1. \A m \in 1 .. n : \A j \in m + 1 .. n : j \in 1 .. n
        BY <1>1, <1>3
      <3>2. \A m \in 1 .. n : packets[m].seq = c.cached[m]
        BY <1>3
      <3>3. DOMAIN c.cached = 1 .. n /\ Len(c.cached) = n
        BY <1>1, <1>3
      <3> HIDE DEF packets, n
      <3>4. {m \in DOMAIN c.cached :
                        /\ c.cached[m] = s
                        /\ \A j \in m + 1 .. Len(c.cached) :
                              (c.cached[j] - s) % NumberSpace \in 1 .. Window}
               = {m \in 1 .. n :
                        /\ packets[m].seq = s
                        /\ \A j \in m + 1 .. n :
                              (packets[j].seq - s) % NumberSpace \in 1 .. Window}
        BY <3>1, <3>2, <3>3
      <3>5. {m \in DOMAIN lost : lost[m] = s} = Hits(lost, {s}, Len(lost))
        BY <1>1 DEF Hits
      <3> QED
        BY <3>4, <3>5 DEF Current
    <2>2. \A s \in Sequence : \A i \in DOMAIN c.cached :
            Cardinality({k \in DOMAIN r.items : r.items[k] = [seq |-> s, place |-> i]})
              = IF i \in {m \in DOMAIN c.cached :
                            /\ c.cached[m] = s
                            /\ \A j \in m + 1 .. Len(c.cached) :
                                  (c.cached[j] - s) % NumberSpace \in 1 .. Window}
                THEN Min({Cardinality({m \in DOMAIN lost : lost[m] = s}), c.limit})
                ELSE 0
      <3> HIDE DEF items, packets, n, lost
      <3> QED
        BY <2>1
    <2> HIDE DEF items, packets, n, cache, places, A, ident
    <2> QED
      BY <2>2 DEF AnsweredOften
  <1> DEFINE K == {k \in DOMAIN r.items : r.items[k] = [seq |-> s, place |-> i]}
  <1> HIDE DEF places, A, cache, packets, ident, n, lost
  <1>10. ASSUME NEW k \in DOMAIN places
         PROVE  items[k] = [seq |-> s, place |-> i]
                  <=> (lost[places[k]] = s /\ i \in Current(packets, s, n))
    <2> DEFINE t == lost[places[k]]
    <2>1. t \in DOMAIN cache /\ t \in Sequence
      BY <1>5, <1>7, <1>8 DEF HoldsCurrent
    <2>2. PICK m \in Current(packets, t, n) : cache[t] = packets[m]
      BY <1>5, <2>1 DEF HoldsCurrent
    <2>3. m \in 1 .. n /\ packets[m].seq = t
      BY <2>2 DEF Current
    <2>4. items[k] = packets[m]
      BY <2>2
    <2>5. i \in 1 .. n
      BY <1>1, <1>3
    <2> HIDE DEF items, t
    <2>6. ASSUME items[k] = [seq |-> s, place |-> i] PROVE t = s /\ i \in Current(packets, s, n)
      <3>1. packets[m].seq = s /\ packets[m].place = i
        BY <2>4, <2>6
      <3>2. m = i /\ t = s
        BY <1>3, <2>3, <3>1
      <3> QED
        BY <2>2, <3>2
    <2>7. ASSUME t = s, i \in Current(packets, s, n) PROVE items[k] = [seq |-> s, place |-> i]
      <3>1. cache[s] = packets[i]
        BY <1>5, <2>7 DEF HoldsCurrent
      <3>2. packets[i].seq = s
        BY <2>7 DEF Current
      <3>3. items[k] = packets[i]
        BY <2>2, <2>4, <2>7, <3>1
      <3> QED
        BY <1>3, <2>5, <3>2, <3>3
    <2> QED
      BY <2>6, <2>7 DEF t
  <1> HIDE DEF items
  <1>11. K = {k \in DOMAIN places : lost[places[k]] = s /\ i \in Current(packets, s, n)}
    <2>1. DOMAIN items = DOMAIN places
      BY DEF items
    <2> QED
      BY <1>9, <1>10, <2>1
  <1>12. CASE i \in Current(packets, s, n)
    <2> DEFINE P == {p \in A : lost[p] = s}
    <2>1. K = {k \in DOMAIN places : places[k] \in P}
      BY <1>7, <1>11, <1>12
    <2>2. s \in DOMAIN cache
      BY <1>5, <1>12 DEF HoldsCurrent
    <2>3. P = FirstHits(lost, {s}, c.limit, Len(lost))
      <3>1. Len(lost) \in Nat /\ DOMAIN lost = 1 .. Len(lost) /\ c.limit \in Nat
        BY <1>1
      <3>2. {p \in Answered(cache, lost, c.limit) : lost[p] = s}
              = FirstHits(lost, {s}, c.limit, Len(lost))
        BY <2>2, <3>1, PlacesAnswered
      <3> QED
        BY <3>2 DEF A
    <2>4. Cardinality(K) = Cardinality(Hits(ident, A \cap P, Len(ident)))
      <3> HIDE DEF P, K
      <3> QED
        BY <1>6, <2>1, KeptCounted DEF places
    <2>5. Hits(ident, A \cap P, Len(ident)) = P
      <3>1. \A p \in A : p \in 1 .. Len(ident)
        BY <1>1, <1>6, <1>8
      <3>2. \A p \in 1 .. Len(ident) : ident[p] = p
        BY <1>1, <1>6 DEF ident
      <3> QED
        BY <3>1, <3>2 DEF Hits
    <2> HIDE DEF P
    <2>6. Cardinality(P) = Min({Cardinality(Hits(lost, {s}, Len(lost))), c.limit})
      <3>1. Len(lost) \in Nat /\ c.limit \in Nat
        BY <1>1
      <3> DEFINE limit == c.limit
                 len == Len(lost)
      <3> HIDE DEF limit, len
      <3>2. limit \in Nat /\ len \in Nat /\ P = FirstHits(lost, {s}, limit, len)
        BY <2>3, <3>1 DEF limit, len
      <3>3. Cardinality(FirstHits(lost, {s}, limit, len))
              = Min({Cardinality(Hits(lost, {s}, len)), limit})
        BY <3>2, FirstHitsCounted
      <3> QED
        BY <3>2, <3>3 DEF limit, len
    <2> QED
      BY <1>12, <2>4, <2>5, <2>6
  <1>13. CASE i \notin Current(packets, s, n)
    <2>1. K = {}
      BY <1>11, <1>13
    <2> QED
      BY <1>13, <2>1, FS_EmptySet
  <1> QED
    BY <1>12, <1>13

------------------------------------------------------------------------------
(* The simulation of losses.                                                *)

\* The numbers with the same quotient.
LEMMA InBlock ==
    ASSUME NEW g \in Nat \ {0}, NEW s \in Nat, NEW i \in Nat
    PROVE  s \div g = i <=> (g * i <= s /\ s < g * i + g)
  <1> DEFINE q == s \div g
             r == s % g
             e == s - g * i
  <1>1. g * i \in Nat
    OBVIOUS
  <1>2. q \in Nat /\ r \in 0 .. g - 1 /\ s = g * q + r
    BY DivMod
  <1> HIDE DEF r
  <1>3. ASSUME q = i PROVE g * i <= s /\ s < g * i + g
    <2> HIDE DEF q
    <2> DEFINE p == g * i
    <2>1. s = p + r
      BY <1>2, <1>3
    <2>2. p \in Nat
      BY <1>1
    <2> HIDE DEF p
    <2>3. p <= s /\ s < p + g
      BY <1>2, <2>1, <2>2
    <2> QED
      BY <2>3 DEF p
  <1>4. ASSUME g * i <= s, s < g * i + g PROVE q = i
    <2> HIDE DEF q
    <2>1. e \in 0 .. g - 1 /\ s = g * i + e
      <3> DEFINE p == g * i
      <3>1. p \in Nat /\ p <= s /\ s < p + g
        BY <1>1, <1>4
      <3> HIDE DEF p
      <3>2. s - p \in 0 .. g - 1 /\ s = p + (s - p)
        BY <3>1
      <3> QED
        BY <3>2 DEF p
    <2> HIDE DEF e
    <2>2. (g * i + e) \div g = i
      BY <2>1, QuotientIs
    <2> QED
      BY <2>1, <2>2 DEF q
  <1> QED
    BY <1>3, <1>4

\* How many groups of g there are in n.
LEMMA GroupsOf ==
    ASSUME NEW g \in Nat \ {0}, NEW n \in Nat, NEW i \in Nat
    PROVE  i \in 0 .. CeilDiv(n, g) - 1 <=> g * i < n
  <1> DEFINE q == CeilDiv(n, g)
             a == n + g - 1
  <1>1. a \in Nat /\ q = a \div g
    BY DEF CeilDiv
  <1> HIDE DEF a, q
  <1>2. q \in Nat /\ g * q \in Nat /\ g * i \in Nat
    BY <1>1
  <1>3. g * q <= a /\ a < g * q + g
    BY <1>1, <1>2, InBlock
  <1>4. ASSUME i < q PROVE g * i < n
    <2>1. i + 1 \in Nat /\ i + 1 <= q /\ g <= g
      BY <1>2, <1>4
    <2>2. g * (i + 1) <= g * q
      BY <1>2, <2>1, ProductGrows
    <2>3. g * (i + 1) = g * i + g
      OBVIOUS
    <2> DEFINE p == g * i
               t == g * q
    <2>4. p \in Nat /\ t \in Nat /\ p + g <= t /\ t <= n + g - 1
      BY <1>2, <1>3, <2>2, <2>3 DEF a
    <2> HIDE DEF p, t
    <2>5. p < n
      BY <2>4
    <2> QED
      BY <2>5 DEF p
  <1>5. ASSUME q <= i PROVE ~(g * i < n)
    <2>1. g * q <= g * i
      BY <1>2, <1>5, ProductGrows
    <2> DEFINE p == g * i
               t == g * q
    <2>2. p \in Nat /\ t \in Nat /\ t <= p /\ n + g - 1 < t + g
      BY <1>2, <1>3, <2>1 DEF a
    <2> HIDE DEF p, t
    <2>3. ~(p < n)
      BY <2>2
    <2> QED
      BY <2>3 DEF p
  <1>6. i \in 0 .. q - 1 <=> i < q
    BY <1>2
  <1>7. i < q \/ q <= i
    BY <1>2
  <1> QED
    BY <1>4, <1>5, <1>6, <1>7 DEF q

LEMMA MinOfTwo ==
    ASSUME NEW a \in Int, NEW b \in Int
    PROVE  Min({a, b}) = IF a <= b THEN a ELSE b
  <1> DEFINE m == IF a <= b THEN a ELSE b
  <1>1. \A x \in {a, b} : (\A y \in {a, b} : x <= y) <=> x = m
    OBVIOUS
  <1>2. m \in {a, b}
    OBVIOUS
  <1> HIDE DEF m
  <1>3. Min({a, b}) = m
    BY <1>1, <1>2 DEF Min
  <1> QED
    BY <1>3 DEF m

LEMMA MaxOfTwo ==
    ASSUME NEW a \in Int, NEW b \in Int
    PROVE  Max({a, b}) = IF a <= b THEN b ELSE a
  <1> DEFINE m == IF a <= b THEN b ELSE a
  <1>1. \A x \in {a, b} : (\A y \in {a, b} : x >= y) <=> x = m
    OBVIOUS
  <1>2. m \in {a, b}
    OBVIOUS
  <1> HIDE DEF m
  <1>3. Max({a, b}) = m
    BY <1>1, <1>2 DEF Max
  <1> QED
    BY <1>3 DEF m

\* The group that a redundant packet of a simulation covers.
Block(n, i) == {s \in 0 .. Simulated(n) - 1 : s \div GroupSize = i}

LEMMA ChunkCovers ==
    ASSUME NEW n \in Nat, NEW i \in 0 .. CeilDiv(Simulated(n), GroupSize) - 1,
           NEW fec, fec = GenerateRedundancy(Chunk(n, i))
    PROVE  /\ Range(fec.sequences) = Block(n, i)
           /\ Len(fec.sequences) = Cardinality({j \in 1 .. Simulated(n) : j - 1 \in Block(n, i)})
           /\ IsFiniteSet({j \in 1 .. Simulated(n) : j - 1 \in Block(n, i)})
  <1> DEFINE N == Simulated(n)
             g == GroupSize
             a == g * i
             m == Min({g, N - a})
             c == Chunk(n, i)
             q == fec.sequences
  <1>0. NumberSpace \in Nat \ {0} /\ g \in Nat \ {0}
    BY SequenceAssumption, GroupAssumption
  <1>1. N \in Nat /\ i \in Nat /\ a \in Nat
    BY <1>0 DEF Simulated
  <1>2. a < N
    BY <1>0, <1>1, GroupsOf
  <1>3. ASSUME NEW s \in Nat PROVE s \div g = i <=> (a <= s /\ s < a + g)
    BY <1>0, <1>1, InBlock
  <1>4. a = i * GroupSize
    BY <1>0, <1>1
  <1>5. c = [k \in 1 .. m |-> [seq |-> a + k - 1, payload |-> <<>>]]
    BY <1>4 DEF Chunk, Stream
  <1>6. q = [k \in DOMAIN c |-> c[k].seq]
    BY DEF GenerateRedundancy
  <1> HIDE DEF a, N, c, q, g
  <1>7. m = IF g <= N - a THEN g ELSE N - a
    BY <1>0, <1>1, MinOfTwo
  <1> HIDE DEF m
  <1>8. m \in Nat /\ m <= g /\ m <= N - a /\ (m = g \/ m = N - a)
    BY <1>0, <1>1, <1>2, <1>7
  <1>9. q = [k \in 1 .. m |-> a + k - 1]
    BY <1>5, <1>6
  <1>10. \A s : s \in Block(n, i) <=> s \in a .. a + m - 1
    BY <1>0, <1>1, <1>3, <1>8 DEF Block, N, g
  <1>11. Range(q) = a .. a + m - 1
    <2>1. \A s \in a .. a + m - 1 : s - a + 1 \in 1 .. m /\ a + (s - a + 1) - 1 = s
      BY <1>1, <1>8
    <2>2. \A k \in 1 .. m : a + k - 1 \in a .. a + m - 1
      BY <1>1, <1>8
    <2>3. \A s \in a .. a + m - 1 : q[s - a + 1] = s
      BY <1>9, <2>1
    <2> QED
      BY <1>9, <2>1, <2>2, <2>3 DEF Range
  <1> DEFINE J == {j \in 1 .. N : j - 1 \in Block(n, i)}
  <1>12. J = a + 1 .. a + m
    BY <1>1, <1>8, <1>10
  <1>13. IsFiniteSet(J) /\ Cardinality(J) = m
    <2>1. a + 1 \in Int /\ a + m \in Int /\ (a + 1 > a + m => m = 0) /\ (a + m) - (a + 1) + 1 = m
      BY <1>1, <1>8
    <2>2. IsFiniteSet(a + 1 .. a + m)
      BY <2>1, FS_Interval
    <2>3. Cardinality(a + 1 .. a + m) = m
      BY <2>1, FS_Interval
    <2> HIDE DEF J
    <2> QED
      BY <1>12, <2>2, <2>3
  <1>14. Len(q) = m
    BY <1>8, <1>9
  <1> QED
    BY <1>10, <1>11, <1>13, <1>14 DEF q, N

\* What a receiver has of a stream.
Surviving(n, losses) ==
    LET stream == Stream(0, Simulated(n))
    IN  Within(stream, {packet \in Range(stream) : packet.seq \notin losses})

\* The places in the stream of a group's packets, and of those that are lost.
PlacesIn(n, i) == {j \in 1 .. Simulated(n) : j - 1 \in Block(n, i)}
LostIn(n, i, losses) == {j \in PlacesIn(n, i) : j - 1 \in losses}

LEMMA GroupCounted ==
    ASSUME NEW n \in Nat, NEW i \in Nat, NEW losses,
           NEW fec, Range(fec.sequences) = Block(n, i)
    PROVE  /\ Len(GroupReceived(fec, Surviving(n, losses)))
                = Cardinality(PlacesIn(n, i) \ LostIn(n, i, losses))
  <1> DEFINE N == Simulated(n)
             stream == Stream(0, N)
             T == Range(stream)
             S == {packet \in T : packet.seq \notin losses}
             got == Within(stream, S)
             A == {packet \in T : packet.seq \in Block(n, i)}
             B == {packet \in Range(got) : packet.seq \in Block(n, i)}
  <1>1. N \in Nat
    BY SequenceAssumption DEF Simulated
  <1>2. /\ DOMAIN stream = 1 .. N
        /\ \A j \in 1 .. N : stream[j].seq = j - 1 /\ stream[j] \in T
    <2>1. /\ DOMAIN stream = 1 .. N
          /\ \A j \in 1 .. N : stream[j] = [seq |-> 0 + j - 1, payload |-> <<>>]
      BY DEF Stream
    <2> HIDE DEF stream, N
    <2>2. \A j \in 1 .. N : 0 + j - 1 = j - 1
      OBVIOUS
    <2>3. \A j \in 1 .. N : stream[j].seq = j - 1
      BY <2>1, <2>2
    <2> QED
      BY <2>1, <2>3 DEF Range
  <1>3. stream \in Seq(T) /\ Len(stream) = N
    <2>1. stream = [j \in 1 .. N |-> stream[j]]
      BY <1>2 DEF Stream
    <2> HIDE DEF stream, N, T
    <2> QED
      BY <1>1, <1>2, <2>1
  <1>4. GroupReceived(fec, Surviving(n, losses)) = Within(got, B)
    BY DEF GroupReceived, Surviving
  <1> HIDE DEF stream, N, T, got
  <1>5. /\ got \in Seq(T)
        /\ Cardinality({k \in DOMAIN got : got[k] \in A})
             = Cardinality(Hits(stream, S \cap A, Len(stream)))
    BY <1>3, KeptCounted DEF got
  <1>6. DOMAIN got = 1 .. Len(got) /\ \A k \in DOMAIN got : got[k] \in T /\ got[k] \in Range(got)
    BY <1>5 DEF Range
  <1>7. Len(Within(got, B)) = Cardinality(Hits(got, B, Len(got)))
    <2> HIDE DEF B
    <2> QED
      BY <1>5, KeepsWithin DEF IsKept
  <1>8. Hits(got, B, Len(got)) = {k \in DOMAIN got : got[k] \in A}
    BY <1>6 DEF Hits
  <1>9. Hits(stream, S \cap A, N) = PlacesIn(n, i) \ LostIn(n, i, losses)
    BY <1>2 DEF Hits, PlacesIn, LostIn, N
  <1> QED
    BY <1>3, <1>4, <1>5, <1>7, <1>8, <1>9

\* A redundant packet makes up for the loss of s exactly when s is the only
\* packet of its group that is lost.
LEMMA RecoversSingle ==
    ASSUME NEW n \in Nat, NEW i \in 0 .. CeilDiv(Simulated(n), GroupSize) - 1,
           NEW losses \in SUBSET (0 .. Simulated(n) - 1), NEW s \in losses
    PROVE  TryFecRecover(GenerateRedundancy(Chunk(n, i)), Surviving(n, losses), s) # {}
             <=> (s \in Block(n, i) /\ \A t \in losses \ {s} : t \notin Block(n, i))
  <1> DEFINE fec == GenerateRedundancy(Chunk(n, i))
             P == PlacesIn(n, i)
             L == LostIn(n, i, losses)
  <1>1. /\ Range(fec.sequences) = Block(n, i)
        /\ Len(fec.sequences) = Cardinality(P) /\ IsFiniteSet(P)
    BY ChunkCovers DEF PlacesIn
  <1> HIDE DEF fec
  <1>2. i \in Nat
    BY SequenceAssumption, GroupAssumption DEF Simulated, CeilDiv
  <1>3. Len(GroupReceived(fec, Surviving(n, losses))) = Cardinality(P \ L)
    BY <1>1, <1>2, GroupCounted
  <1>4. L \subseteq P
    BY DEF LostIn
  <1> HIDE DEF P, L
  <1>5. /\ Cardinality(P \ L) = Cardinality(P) - Cardinality(L)
        /\ IsFiniteSet(L) /\ Cardinality(L) \in Nat /\ Cardinality(P) \in Nat
    <2>1. IsFiniteSet(L) /\ P \cap L = L
      BY <1>1, <1>4, FS_Subset
    <2>2. Cardinality(P \ L) = Cardinality(P) - Cardinality(P \cap L)
      BY <1>1, FS_Difference
    <2> QED
      BY <1>1, <2>1, <2>2, FS_CardinalityType
  <1>6. OneMissing(fec, Surviving(n, losses)) <=> Cardinality(L) = 1
    BY <1>1, <1>3, <1>5 DEF OneMissing
  <1>7. TryFecRecover(fec, Surviving(n, losses), s) # {} <=> s \in Block(n, i) /\ Cardinality(L) = 1
    BY <1>1, <1>6 DEF TryFecRecover
  <1>8. \A j : j \in L <=> (j \in 1 .. Simulated(n) /\ j - 1 \in losses /\ j - 1 \in Block(n, i))
    BY DEF L, LostIn, PlacesIn
  <1>9. \A t \in losses : /\ t \in 0 .. Simulated(n) - 1 /\ t + 1 \in 1 .. Simulated(n)
                          /\ (t + 1) - 1 = t
    BY SequenceAssumption DEF Simulated
  <1>10. \A t \in losses : t + 1 \in L <=> t \in Block(n, i)
    BY <1>8, <1>9
  <1>11. ASSUME s \in Block(n, i), Cardinality(L) = 1, NEW t \in losses \ {s}
         PROVE  t \notin Block(n, i)
    <2>1. PICK e : L = {e}
      BY <1>5, <1>11, FS_Singleton
    <2>2. ASSUME t \in Block(n, i) PROVE FALSE
      <3>1. t + 1 = e /\ s + 1 = e
        BY <1>10, <1>11, <2>1, <2>2
      <3> QED
        BY <1>9, <1>11, <3>1
    <2> QED
      BY <2>2
  <1>12. ASSUME s \in Block(n, i), \A t \in losses \ {s} : t \notin Block(n, i)
         PROVE  Cardinality(L) = 1
    <2>1. s + 1 \in L
      BY <1>10, <1>12
    <2>2. ASSUME NEW j \in L PROVE j = s + 1
      <3>1. j \in 1 .. Simulated(n) /\ j - 1 \in losses /\ j - 1 \in Block(n, i)
        BY <1>8
      <3>2. j - 1 = s
        BY <1>12, <3>1
      <3> QED
        BY <1>9, <3>1, <3>2
    <2>3. L = {s + 1}
      BY <2>1, <2>2
    <2> QED
      BY <2>3, FS_Singleton
  <1> QED
    BY <1>7, <1>11, <1>12 DEF fec

\* What the redundant packets of a simulation recover.
LEMMA RecoveredAre ==
    ASSUME NEW n \in Nat, NEW losses \in SUBSET (0 .. Simulated(n) - 1)
    PROVE  {s \in losses : \E fec \in FecPackets(n) :
                TryFecRecover(fec, Surviving(n, losses), s) # {}} = SingleLosses(losses)
  <1> DEFINE N == Simulated(n)
             g == GroupSize
             I == 0 .. CeilDiv(N, g) - 1
             Recovered(s, i) ==
                TryFecRecover(GenerateRedundancy(Chunk(n, i)), Surviving(n, losses), s) # {}
             Alone(s) == \A t \in losses \ {s} : t \div g # s \div g
  <1>1. g \in Nat \ {0} /\ N \in Nat
    BY SequenceAssumption, GroupAssumption DEF Simulated
  <1>2. \A t \in losses : t \in 0 .. N - 1 /\ t \in Nat
    BY <1>1
  <1>3. ASSUME NEW s \in losses, NEW i \in I PROVE Recovered(s, i) <=> s \div g = i /\ Alone(s)
    <2>1. Recovered(s, i) <=> (s \in Block(n, i) /\ \A t \in losses \ {s} : t \notin Block(n, i))
      BY RecoversSingle
    <2>2. \A t \in losses : t \in Block(n, i) <=> t \div g = i
      BY <1>2 DEF Block
    <2> HIDE DEF Recovered, I
    <2> QED
      BY <2>1, <2>2
  <1>4. ASSUME NEW s \in losses PROVE s \div g \in I
    <2> DEFINE i == s \div g
    <2>1. i \in Nat
      BY <1>1, <1>2, DivMod
    <2>2. g * i <= s
      <3> HIDE DEF g
      <3> QED
        BY <1>1, <1>2, <2>1, InBlock
    <2>3. g * i \in Nat /\ s \in Nat /\ s < N
      BY <1>1, <1>2, <2>1
    <2>4. g * i < N
      <3> DEFINE p == g * i
      <3>1. p \in Nat /\ p <= s
        BY <2>2, <2>3
      <3> HIDE DEF p, N
      <3>2. p < N
        BY <1>1, <2>3, <3>1
      <3> QED
        BY <3>2 DEF p
    <2> HIDE DEF i, g, N
    <2> QED
      BY <1>1, <2>1, <2>4, GroupsOf DEF i
  <1>5. ASSUME NEW s \in losses
        PROVE  (\E fec \in FecPackets(n) : TryFecRecover(fec, Surviving(n, losses), s) # {})
                 <=> s \in SingleLosses(losses)
    <2>1. (\E fec \in FecPackets(n) : TryFecRecover(fec, Surviving(n, losses), s) # {})
            <=> \E i \in I : Recovered(s, i)
      BY DEF FecPackets
    <2>2. s \in SingleLosses(losses) <=> Alone(s)
      BY DEF SingleLosses
    <2> HIDE DEF Recovered, I, Alone
    <2> QED
      BY <1>3, <1>4, <2>1, <2>2
  <1>6. SingleLosses(losses) \subseteq losses
    BY DEF SingleLosses
  <1> QED
    BY <1>5, <1>6

\* How many packets that are asked for again do not arrive.
Unanswered(c) == c - NackSuccess(c)

LEMMA UnansweredGrows ==
    ASSUME NEW b \in Nat, NEW c \in Nat, b <= c
    PROVE  Unanswered(b) \in Nat /\ Unanswered(b) <= Unanswered(c)
  <1>1. ASSUME NEW n \in Nat
        PROVE  \E q \in Nat : /\ 100 * q <= 98 * n /\ 98 * n < 100 * q + 100
                              /\ NackSuccess(n) = IF n = 0 THEN 0 ELSE IF q = 0 THEN 1 ELSE q
    <2> DEFINE q == (n * 98) \div 100
    <2>1. q \in Nat /\ 100 * q <= 98 * n /\ 98 * n < 100 * q + 100
      OBVIOUS
    <2>2. NackSuccess(n) = Max({q, IF n > 0 THEN 1 ELSE 0})
      BY DEF NackSuccess
    <2> HIDE DEF q
    <2>3. Max({q, IF n > 0 THEN 1 ELSE 0})
            = IF q <= (IF n > 0 THEN 1 ELSE 0) THEN (IF n > 0 THEN 1 ELSE 0) ELSE q
      <3>1. (IF n > 0 THEN 1 ELSE 0) \in Int /\ q \in Int
        BY <2>1
      <3> DEFINE one == IF n > 0 THEN 1 ELSE 0
      <3> HIDE DEF one
      <3>2. Max({q, one}) = IF q <= one THEN one ELSE q
        BY <3>1, MaxOfTwo DEF one
      <3> QED
        BY <3>2 DEF one
    <2>4. n = 0 => q = 0
      BY <2>1
    <2> QED
      BY <2>1, <2>2, <2>3, <2>4
  <1>2. PICK p \in Nat : /\ 100 * p <= 98 * b /\ 98 * b < 100 * p + 100
                         /\ NackSuccess(b) = IF b = 0 THEN 0 ELSE IF p = 0 THEN 1 ELSE p
    BY <1>1
  <1>3. PICK q \in Nat : /\ 100 * q <= 98 * c /\ 98 * c < 100 * q + 100
                         /\ NackSuccess(c) = IF c = 0 THEN 0 ELSE IF q = 0 THEN 1 ELSE q
    BY <1>1
  <1>4. Unanswered(b) \in Nat
    BY <1>2 DEF Unanswered
  <1>5. Unanswered(b) <= Unanswered(c)
    BY <1>2, <1>3 DEF Unanswered
  <1> QED
    BY <1>4, <1>5

\* The losses that no redundant packet makes up for.
Together(losses) == losses \ SingleLosses(losses)

LEMMA LossesCounted ==
    ASSUME NEW n \in Nat, NEW losses \in SUBSET (0 .. Simulated(n) - 1)
    PROVE  /\ IsFiniteSet(losses) /\ Cardinality(losses) \in Nat
           /\ IsFiniteSet(Together(losses)) /\ Cardinality(Together(losses)) \in Nat
           /\ Cardinality(Together(losses))
                = Cardinality(losses) - Cardinality(SingleLosses(losses))
  <1>1. IsFiniteSet(losses)
    <2>1. 0 \in Int /\ Simulated(n) - 1 \in Int
      BY SequenceAssumption DEF Simulated
    <2>2. IsFiniteSet(0 .. Simulated(n) - 1)
      BY <2>1, FS_Interval
    <2> QED
      BY <2>2, FS_Subset
  <1>2. losses \cap SingleLosses(losses) = SingleLosses(losses)
    BY DEF SingleLosses
  <1>3. /\ IsFiniteSet(Together(losses))
        /\ Cardinality(Together(losses))
             = Cardinality(losses) - Cardinality(losses \cap SingleLosses(losses))
    BY <1>1, FS_Difference DEF Together
  <1> QED
    BY <1>1, <1>2, <1>3, FS_CardinalityType

\* What an outcome counts.
Counts(n, mode, losses, o) ==
    /\ o.sent = n
    /\ o.fec = IF mode = "nack" THEN 0 ELSE Cardinality(SingleLosses(losses))
    /\ mode = "nack" => o.unrecoverable = Unanswered(Cardinality(losses))
    /\ mode = "nack_fec" => o.unrecoverable = Unanswered(Cardinality(Together(losses)))
    /\ mode = "fec_only" => o.unrecoverable = Cardinality(Together(losses))

LEMMA OutcomeCounts ==
    ASSUME NEW n \in Nat, NEW losses \in SUBSET (0 .. Simulated(n) - 1), NEW mode \in Modes
    PROVE  Counts(n, mode, losses, Outcome(n, mode, losses))
  <1> DEFINE d == Decide(mode, losses, FecPackets(n), Surviving(n, losses))
             R == SingleLosses(losses)
             asked == Cardinality(d.nack)
             all == Cardinality(losses)
             o == Outcome(n, mode, losses)
  <1>1. {s \in losses : \E fec \in FecPackets(n) :
            TryFecRecover(fec, Surviving(n, losses), s) # {}} = R
    BY RecoveredAre
  <1>2. d = [fec |-> IF mode = "nack" THEN {} ELSE R,
             nack |-> CASE mode = "nack" -> losses
                        [] mode = "nack_fec" -> losses \ R
                        [] mode = "fec_only" -> {}]
    <2> HIDE DEF R
    <2> QED
      BY <1>1 DEF Decide
  <1>3. o = [sent |-> n, lost |-> all, fec |-> Cardinality(d.fec), nack |-> NackSuccess(asked),
             unrecoverable |-> all - Cardinality(d.fec) - NackSuccess(asked),
             requests |-> IF asked > 0 THEN 1 ELSE 0,
             redundant |-> Cardinality(FecPackets(n))]
    BY DEF Outcome, Surviving
  <1> SUFFICES Counts(n, mode, losses, o)
    OBVIOUS
  <1> HIDE DEF d, asked, all, o
  <1>4. /\ o.sent = n /\ o.fec = Cardinality(d.fec)
        /\ o.unrecoverable = all - Cardinality(d.fec) - NackSuccess(asked)
    BY <1>3
  <1> HIDE DEF R
  <1>5. d.fec = IF mode = "nack" THEN {} ELSE R
    BY <1>2
  <1>6. d.nack = CASE mode = "nack" -> losses
                   [] mode = "nack_fec" -> losses \ R
                   [] mode = "fec_only" -> {}
    BY <1>2
  <1>7. /\ all \in Nat /\ Cardinality(Together(losses)) \in Nat
        /\ Cardinality(Together(losses)) = all - Cardinality(R)
        /\ Cardinality(R) \in Nat
    <2>1. R \subseteq losses
      BY DEF R, SingleLosses
    <2> QED
      BY <2>1, LossesCounted, FS_Subset, FS_CardinalityType DEF all, R
  <1>8. Cardinality({}) = 0 /\ NackSuccess(0) = 0
    <2>1. (0 * 98) \div 100 = 0 /\ ~(0 > 0)
      OBVIOUS
    <2>2. Max({0, 0}) = 0
      BY MaxOfTwo
    <2> QED
      BY <2>1, <2>2, FS_EmptySet DEF NackSuccess
  <1>9. \A c \in Nat : NackSuccess(c) \in Int
    <2> TAKE c \in Nat
    <2>1. Unanswered(c) \in Nat /\ Unanswered(0) \in Nat
      BY UnansweredGrows
    <2>2. (c * 98) \div 100 \in Int /\ (IF c > 0 THEN 1 ELSE 0) \in Int
      OBVIOUS
    <2> DEFINE a == (c * 98) \div 100
               b == IF c > 0 THEN 1 ELSE 0
    <2> HIDE DEF a, b
    <2>3. Max({a, b}) \in Int
      BY <2>2, MaxOfTwo DEF a, b
    <2> QED
      BY <2>3 DEF NackSuccess, a, b
  <1>10. CASE mode = "nack"
    <2>1. Cardinality(d.fec) = 0 /\ asked = all
      BY <1>5, <1>6, <1>8, <1>10 DEF asked, all
    <2>2. o.unrecoverable = Unanswered(all)
      BY <1>4, <1>7, <1>9, <2>1 DEF Unanswered
    <2> QED
      BY <1>4, <1>10, <2>1, <2>2 DEF all, Counts
  <1>11. CASE mode = "nack_fec"
    <2>1. d.fec = R /\ asked = Cardinality(Together(losses))
      BY <1>5, <1>6, <1>11 DEF asked, Together, R
    <2>2. o.unrecoverable = Unanswered(Cardinality(Together(losses)))
      BY <1>4, <1>7, <1>9, <2>1 DEF Unanswered
    <2> QED
      BY <1>4, <1>11, <2>1, <2>2 DEF R, Counts
  <1>12. CASE mode = "fec_only"
    <2>1. d.fec = R /\ asked = 0
      BY <1>5, <1>6, <1>8, <1>12 DEF asked
    <2>2. o.unrecoverable = Cardinality(Together(losses))
      BY <1>4, <1>7, <1>8, <2>1
    <2> QED
      BY <1>4, <1>12, <2>1, <2>2 DEF R, Counts
  <1> QED
    BY <1>10, <1>11, <1>12 DEF Modes

\* SimulationSound's words about one answer.
Sound(c, r) ==
    /\ r.stats.fec = IF c.mode = "nack" THEN 0 ELSE Cardinality(SingleLosses(c.losses))
    /\ r.stats.unrecoverable >= 0
    /\ \A s \in c.losses :
          Outcome(c.total, c.mode, c.losses \ {s}).unrecoverable <= r.stats.unrecoverable
    /\ r.audio => r.video

LEMMA SimulationAnswered ==
    ASSUME NEW c \in SimulationCalls, c.losses \subseteq 0 .. Simulated(c.total) - 1,
           NEW r, r = Answer(Request("recover", c))
    PROVE  Sound(c, r)
  <1> DEFINE n == c.total
             mode == c.mode
             losses == c.losses
             o == Outcome(n, mode, losses)
             all == Cardinality(losses)
             rest == Cardinality(Together(losses))
  <1>1. n \in Nat /\ mode \in Modes /\ losses \in SUBSET (0 .. Simulated(n) - 1)
    BY DEF SimulationCalls
  <1>2. r.stats = o /\ r.audio = AudioUninterrupted(o) /\ r.video = VideoFluent(o)
    <2>1. r = Computed("recover", c)
      BY AskedIsComputed DEF Asked
    <2>2. Computed("recover", c) = RecoverRoute(c)
      BY DEF Computed
    <2> HIDE DEF o
    <2>3. RecoverRoute(c) =
            [status |-> 200, stats |-> o,
             audio |-> AudioUninterrupted(o), video |-> VideoFluent(o),
             recovery_rate |-> RecoveryRate(o), loss_rate |-> EffectiveLoss(o)]
      BY <1>1 DEF RecoverRoute, o
    <2> QED
      BY <2>1, <2>2, <2>3
  <1> HIDE DEF o, n, mode, losses
  <1>3. /\ o.sent = n
        /\ o.fec = IF mode = "nack" THEN 0 ELSE Cardinality(SingleLosses(losses))
        /\ mode = "nack" => o.unrecoverable = Unanswered(all)
        /\ mode = "nack_fec" => o.unrecoverable = Unanswered(rest)
        /\ mode = "fec_only" => o.unrecoverable = rest
    <2>1. Counts(n, mode, losses, o)
      BY <1>1, OutcomeCounts DEF o
    <2> QED
      BY <2>1 DEF Counts
  <1>4. /\ all \in Nat /\ rest \in Nat
        /\ IsFiniteSet(losses) /\ IsFiniteSet(Together(losses))
    BY <1>1, LossesCounted
  <1>5. o.unrecoverable \in Nat
    <2> HIDE DEF all, rest
    <2>1. Unanswered(all) \in Nat /\ Unanswered(rest) \in Nat
      BY <1>4, UnansweredGrows
    <2> QED
      BY <1>1, <1>3, <1>4, <2>1 DEF Modes
  <1>6. ASSUME NEW s \in losses
        PROVE  Outcome(n, mode, losses \ {s}).unrecoverable <= o.unrecoverable
    <2> DEFINE fewer == losses \ {s}
               less == Cardinality(fewer)
               left == Cardinality(Together(fewer))
               p == Outcome(n, mode, fewer)
    <2>1. fewer \in SUBSET (0 .. Simulated(n) - 1)
      BY <1>1
    <2>2. Together(fewer) \subseteq Together(losses)
      BY DEF Together, SingleLosses
    <2> HIDE DEF fewer
    <2>3. /\ mode = "nack" => p.unrecoverable = Unanswered(less)
          /\ mode = "nack_fec" => p.unrecoverable = Unanswered(left)
          /\ mode = "fec_only" => p.unrecoverable = left
      <3>1. Counts(n, mode, fewer, p)
        BY <1>1, <2>1, OutcomeCounts
      <3> HIDE DEF p
      <3> QED
        BY <3>1 DEF Counts
    <2>4. less \in Nat /\ left \in Nat
      BY <1>1, <2>1, LossesCounted
    <2>5. less <= all /\ left <= rest
      <3>1. fewer \subseteq losses
        BY DEF fewer
      <3> QED
        BY <1>4, <2>2, <3>1, FS_Subset
    <2> HIDE DEF p, less, left, all, rest
    <2>6. Unanswered(less) <= Unanswered(all) /\ Unanswered(left) <= Unanswered(rest)
      BY <1>4, <2>4, <2>5, UnansweredGrows
    <2>7. p.unrecoverable <= o.unrecoverable
      BY <1>1, <1>3, <2>3, <2>5, <2>6 DEF Modes
    <2> QED
      BY <2>7 DEF p, fewer
  <1>7. AudioUninterrupted(o) => VideoFluent(o)
    <2>1. CASE n = 0
      <3>1. EffectiveLoss(o) = <<0, 1>>
        BY <1>3, <2>1 DEF EffectiveLoss
      <3> QED
        BY <3>1 DEF VideoFluent, BelowPercent
    <2>2. CASE n # 0
      <3>1. EffectiveLoss(o) = <<o.unrecoverable, n>>
        BY <1>3, <2>2 DEF EffectiveLoss
      <3> DEFINE u == o.unrecoverable
      <3>2. /\ AudioUninterrupted(o) <=> u * 100 < 1 * n
            /\ VideoFluent(o) <=> u * 100 < 5 * n
        BY <3>1 DEF AudioUninterrupted, VideoFluent, BelowPercent
      <3> HIDE DEF u
      <3>3. u \in Nat
        BY <1>5 DEF u
      <3>4. u * 100 < 1 * n => u * 100 < 5 * n
        BY <1>1, <3>3
      <3> QED
        BY <3>2, <3>4
    <2> QED
      BY <2>1, <2>2
  <1>8. r.stats.unrecoverable >= 0
    BY <1>2, <1>5
  <1> QED
    BY <1>2, <1>3, <1>6, <1>7, <1>8 DEF Sound, n, mode, losses

------------------------------------------------------------------------------
(* Forward error correction.                                                *)

\* The payloads with byte i, and bit b in it.
Having(i, b) == {p \in Payload : i <= Len(p) /\ b \in p[i]}

\* The first n payloads XORed into acc, for each n.
XorUpTo(acc, payloads) ==
    LET after[n \in 0 .. Len(payloads)] ==
          IF n = 0 THEN acc ELSE XorInto(after[n - 1], payloads[n])
    IN  after

LEMMA PayloadBytes ==
    ASSUME NEW p \in Payload
    PROVE  /\ Len(p) \in 0 .. MaxLen /\ Len(p) \in Nat /\ DOMAIN p = 1 .. Len(p)
           /\ \A i \in 1 .. Len(p) : p[i] \in SUBSET Bit
  <1>1. PICK len \in 0 .. MaxLen : p \in [1 .. len -> SUBSET Bit]
    BY DEF Payload
  <1>2. len \in Nat
    BY LengthAssumption
  <1>3. Len(p) = len
    BY <1>1, <1>2
  <1> QED
    BY <1>1, <1>2, <1>3

LEMMA XorType ==
    ASSUME NEW len \in Nat, NEW acc \in [1 .. len -> SUBSET Bit], NEW p \in Payload
    PROVE  XorInto(acc, p) \in [1 .. len -> SUBSET Bit]
  <1>1. ASSUME NEW i \in 1 .. len, i <= Len(p) PROVE SymDiff(acc[i], p[i]) \in SUBSET Bit
    <2>1. i \in 1 .. Len(p)
      BY <1>1, PayloadBytes
    <2>2. p[i] \in SUBSET Bit /\ acc[i] \in SUBSET Bit
      BY <2>1, PayloadBytes
    <2> QED
      BY <2>2 DEF SymDiff
  <1> QED
    BY <1>1 DEF XorInto

LEMMA XorSteps ==
    ASSUME NEW len \in Nat, NEW acc \in [1 .. len -> SUBSET Bit], NEW payloads \in Seq(Payload)
    PROVE  /\ XorUpTo(acc, payloads)[0] = acc
           /\ \A n \in 1 .. Len(payloads) :
                XorUpTo(acc, payloads)[n] = XorInto(XorUpTo(acc, payloads)[n - 1], payloads[n])
           /\ \A n \in 0 .. Len(payloads) : XorUpTo(acc, payloads)[n] \in [1 .. len -> SUBSET Bit]
           /\ XorAll(acc, payloads) = XorUpTo(acc, payloads)[Len(payloads)]
  <1> DEFINE X == [1 .. len -> SUBSET Bit]
             m == Len(payloads)
             step == [n \in 1 .. m |-> [x \in X |-> XorInto(x, payloads[n])]]
             IsXor(f) == f = [n \in 0 .. m |->
                                 IF n = 0 THEN acc ELSE XorInto(f[n - 1], payloads[n])]
             g == XorUpTo(acc, payloads)
  <1>1. m \in Nat /\ \A n \in 1 .. m : payloads[n] \in Payload
    OBVIOUS
  <1>2. \A n \in 1 .. m, x \in X : XorInto(x, payloads[n]) \in X
    BY <1>1, XorType
  <1>3. step \in [1 .. m -> [X -> X]]
    <2> HIDE DEF X, m
    <2> QED
      BY <1>2
  <1>4. PICK f \in [0 .. m -> X] : f[0] = acc /\ \A n \in 1 .. m : f[n] = step[n][f[n - 1]]
    <2>1. acc \in X /\ AreSteps(step, X, m)
      BY <1>3 DEF AreSteps
    <2> HIDE DEF step, m, X
    <2>2. \E f : Leads(f, X, acc, m, step)
      BY <1>1, <2>1, StepsLead
    <2> QED
      BY <2>2 DEF Leads
  <1>5. IsXor(f)
    <2>1. ASSUME NEW n \in 1 .. m PROVE f[n] = XorInto(f[n - 1], payloads[n])
      <3>1. n - 1 \in 0 .. m
        BY <1>1
      <3>2. f[n - 1] \in X
        BY <1>4, <3>1
      <3>3. step[n][f[n - 1]] = XorInto(f[n - 1], payloads[n])
        <4> HIDE DEF X
        <4> QED
          BY <3>2
      <3> QED
        BY <1>4, <3>3
    <2>2. \A n \in 0 .. m : n = 0 \/ n \in 1 .. m
      BY <1>1
    <2>3. \A n \in 0 .. m : f[n] = IF n = 0 THEN acc ELSE XorInto(f[n - 1], payloads[n])
      BY <1>4, <2>1, <2>2
    <2> HIDE DEF X, m
    <2> QED
      BY <2>3
  <1>6. g = CHOOSE h : IsXor(h)
    BY DEF XorUpTo
  <1>7. IsXor(g)
    <2> HIDE DEF IsXor, g
    <2> QED
      BY <1>5, <1>6
  <1> HIDE DEF g
  <1>8. g[0] = acc /\ \A n \in 1 .. m : g[n] = XorInto(g[n - 1], payloads[n])
    <2>1. \A n \in 0 .. m : g[n] = IF n = 0 THEN acc ELSE XorInto(g[n - 1], payloads[n])
      BY <1>7
    <2>2. 0 \in 0 .. m /\ \A n \in 1 .. m : n \in 0 .. m /\ n # 0
      BY <1>1
    <2> HIDE DEF m
    <2> QED
      BY <2>1, <2>2
  <1>9. \A n \in 0 .. m : g[n] \in X
    <2> DEFINE Bad == {n \in Nat : n <= m /\ g[n] \notin X}
    <2>1. ASSUME NEW least \in Bad PROVE FALSE
      <3>1. PICK n \in Bad : \A l \in Bad : n <= l
        <4>1. Bad \in SUBSET Nat /\ Bad # {}
          BY <2>1
        <4> HIDE DEF Bad
        <4> QED
          BY <4>1, LeastOne
      <3>2. n # 0
        BY <1>8, <3>1
      <3>3. n \in 1 .. m /\ n - 1 \in Nat /\ n - 1 <= m /\ n - 1 \notin Bad
        <4>1. n \in Nat /\ n <= m
          BY <3>1
        <4>2. m \in Nat
          BY <1>1
        <4> HIDE DEF Bad, m
        <4>3. n - 1 \in Nat /\ n - 1 < n
          BY <3>2, <4>1
        <4> QED
          BY <3>1, <3>2, <4>1, <4>2, <4>3
      <3>4. g[n - 1] \in X
        BY <3>3
      <3> HIDE DEF X, m
      <3> QED
        BY <1>2, <1>8, <3>1, <3>3, <3>4
    <2>2. \A n \in 0 .. m : n \in Nat /\ n <= m
      BY <1>1
    <2> HIDE DEF X, m
    <2> QED
      BY <2>1, <2>2
  <1>10. XorAll(acc, payloads) = g[m]
    BY DEF XorAll, XorUpTo, g
  <1> QED
    BY <1>8, <1>9, <1>10 DEF g

\* A bit is set after the XOR when it was and the number of payloads that have it
\* is even, or it was not and the number is odd.
LEMMA XorBits ==
    ASSUME NEW len \in Nat, NEW acc \in [1 .. len -> SUBSET Bit], NEW payloads \in Seq(Payload),
           NEW i \in 1 .. len, NEW b
    PROVE  b \in XorAll(acc, payloads)[i]
             <=> ~(b \in acc[i] <=> Cardinality(Hits(payloads, Having(i, b), Len(payloads))) % 2 = 1)
  <1> DEFINE g(n) == XorUpTo(acc, payloads)[n]
             H(n) == Cardinality(Hits(payloads, Having(i, b), n))
             Right(n) == b \in g(n)[i] <=> ~(b \in acc[i] <=> H(n) % 2 = 1)
             Bad == {n \in Nat : n <= Len(payloads) /\ ~Right(n)}
  <1>1. Len(payloads) \in Nat /\ \A n \in 1 .. Len(payloads) : payloads[n] \in Payload
    OBVIOUS
  <1>2. ASSUME NEW least \in Bad PROVE FALSE
    <2>1. PICK n \in Bad : \A l \in Bad : n <= l
      <3>1. Bad \in SUBSET Nat /\ Bad # {}
        BY <1>2
      <3> HIDE DEF Bad
      <3> QED
        BY <3>1, LeastOne
    <2>2. CASE n = 0
      <3>1. g(0) = acc
        BY XorSteps
      <3>2. Hits(payloads, Having(i, b), 0) = {}
        BY DEF Hits
      <3>3. H(0) = 0
        BY <3>2, FS_EmptySet
      <3>4. H(0) % 2 # 1
        <4> HIDE DEF H
        <4> QED
          BY <3>3
      <3> HIDE DEF g, H
      <3> QED
        BY <2>1, <2>2, <3>1, <3>4
    <2>3. CASE n # 0
      <3>1. n \in 1 .. Len(payloads) /\ n \in Nat \ {0} /\ n - 1 \in Nat /\ n - 1 \notin Bad
              /\ n - 1 <= Len(payloads)
        BY <1>1, <2>1, <2>3
      <3>2. Right(n - 1)
        BY <3>1
      <3> DEFINE p == payloads[n]
                 x == g(n - 1)
      <3>3. p \in Payload
        BY <3>1
      <3>4. g(n) = XorInto(x, p) /\ x \in [1 .. len -> SUBSET Bit]
        BY <3>1, XorSteps
      <3>5. p \in Having(i, b) <=> (i <= Len(p) /\ b \in p[i])
        BY <3>3 DEF Having
      <3> HIDE DEF x
      <3>6. b \in g(n)[i] <=> ~(b \in x[i] <=> p \in Having(i, b))
        <4>1. g(n)[i] = IF i <= Len(p) THEN SymDiff(x[i], p[i]) ELSE x[i]
          BY <3>4 DEF XorInto
        <4> HIDE DEF g, p
        <4> QED
          BY <3>5, <4>1 DEF SymDiff
      <3>7. H(n - 1) \in Nat
        BY <3>1, HitsFinite
      <3>8. H(n) = IF p \in Having(i, b) THEN H(n - 1) + 1 ELSE H(n - 1)
        BY <3>1, OneMoreHit
      <3> HIDE DEF H, p
      <3>9. p \in Having(i, b) => (H(n) % 2 = 1 <=> ~(H(n - 1) % 2 = 1))
        <4> DEFINE h == H(n - 1)
        <4>1. h \in Nat
          BY <3>7
        <4> HIDE DEF h
        <4>2. (h + 1) % 2 = 1 <=> ~(h % 2 = 1)
          BY <4>1
        <4> QED
          BY <3>8, <4>2 DEF h
      <3>10. p \notin Having(i, b) => H(n) = H(n - 1)
        BY <3>8
      <3>11. b \in x[i] <=> ~(b \in acc[i] <=> H(n - 1) % 2 = 1)
        BY <3>2 DEF x
      <3> HIDE DEF g
      <3>12. Right(n)
        BY <3>6, <3>9, <3>10, <3>11
      <3> QED
        BY <2>1, <3>12
    <2> QED
      BY <2>2, <2>3
  <1>3. Right(Len(payloads))
    BY <1>1, <1>2
  <1>4. XorAll(acc, payloads) = g(Len(payloads))
    BY XorSteps
  <1> QED
    BY <1>3, <1>4

\* The packets of a group, and those that came.
Sent(payload) == [s \in InGroup |-> [seq |-> s, payload |-> payload[s]]]
Came(payload, arrivals) ==
    [i \in DOMAIN arrivals |-> [seq |-> arrivals[i], payload |-> payload[arrivals[i]]]]

LEMMA GroupSent ==
    ASSUME NEW payload \in [InGroup -> Payload]
    PROVE  LET fec == GenerateRedundancy(Sent(payload)) IN
           /\ Range(fec.sequences) = InGroup /\ Len(fec.sequences) = GroupSize
           /\ Len(fec.data) \in Nat /\ fec.data \in [1 .. Len(fec.data) -> SUBSET Bit]
           /\ \A s \in InGroup : Len(payload[s]) <= Len(fec.data)
           /\ \A i \in 1 .. Len(fec.data) : \A b :
                b \in fec.data[i]
                  <=> Cardinality(Hits(payload, Having(i, b), GroupSize)) % 2 = 1
  <1> DEFINE fec == GenerateRedundancy(Sent(payload))
             L == Longest(payload)
             lengths == {Len(p) : p \in Range(payload)}
  <1>1. GroupSize \in Nat \ {0} /\ InGroup = 1 .. GroupSize
    BY GroupAssumption DEF InGroup
  <1>2. DOMAIN Sent(payload) = InGroup /\ DOMAIN payload = InGroup
    BY DEF Sent
  <1>3. [i \in DOMAIN Sent(payload) |-> Sent(payload)[i].payload] = payload
    BY DEF Sent
  <1>4. fec.sequences = [i \in InGroup |-> i] /\ fec.data = XorAll(Zeros(L), payload)
    <2>1. [i \in DOMAIN Sent(payload) |-> Sent(payload)[i].seq] = [i \in InGroup |-> i]
      BY DEF Sent
    <2> QED
      BY <1>3, <2>1 DEF GenerateRedundancy
  <1> HIDE DEF fec
  <1>5. Range(fec.sequences) = InGroup /\ Len(fec.sequences) = GroupSize
    BY <1>1, <1>4 DEF Range
  <1>6. payload \in Seq(Payload) /\ Len(payload) = GroupSize
    BY <1>1
  <1>7. L \in lengths /\ \A n \in lengths : n <= L
    <2>1. lengths \in SUBSET (0 .. MaxLen)
      BY PayloadBytes DEF Range
    <2>2. Len(payload[1]) \in lengths
      BY <1>1 DEF Range
    <2>3. L = Max(lengths)
      BY DEF Longest
    <2> HIDE DEF lengths, L
    <2> QED
      BY <2>1, <2>2, <2>3, GreatestIs, LengthAssumption
  <1>8. L \in Nat /\ \A s \in InGroup : Len(payload[s]) <= L
    <2>1. \A s \in InGroup : Len(payload[s]) \in lengths
      BY DEF Range
    <2>2. \A n \in lengths : n \in Nat
      BY PayloadBytes DEF Range
    <2> HIDE DEF lengths, L
    <2> QED
      BY <1>7, <2>1, <2>2
  <1> HIDE DEF L
  <1>9. Zeros(L) \in [1 .. L -> SUBSET Bit] /\ \A i \in 1 .. L : Zeros(L)[i] = {}
    BY DEF Zeros
  <1>10. fec.data \in [1 .. L -> SUBSET Bit]
    <2>1. Len(payload) \in 0 .. Len(payload)
      BY <1>1, <1>6
    <2> DEFINE zeros == Zeros(L)
    <2>2. zeros \in [1 .. L -> SUBSET Bit]
      BY <1>9
    <2> HIDE DEF zeros
    <2>3. XorUpTo(zeros, payload)[Len(payload)] \in [1 .. L -> SUBSET Bit]
      BY <1>6, <1>8, <2>1, <2>2, XorSteps
    <2>4. XorAll(zeros, payload) = XorUpTo(zeros, payload)[Len(payload)]
      BY <1>6, <1>8, <2>2, XorSteps
    <2> QED
      BY <1>4, <2>3, <2>4 DEF zeros
  <1>11. Len(fec.data) = L
    BY <1>8, <1>10
  <1>12. ASSUME NEW i \in 1 .. L, NEW b
         PROVE  b \in fec.data[i]
                  <=> Cardinality(Hits(payload, Having(i, b), GroupSize)) % 2 = 1
    <2>1. b \in fec.data[i]
             <=> ~(b \in Zeros(L)[i]
                     <=> Cardinality(Hits(payload, Having(i, b), GroupSize)) % 2 = 1)
      BY <1>4, <1>6, <1>8, <1>9, XorBits
    <2> QED
      BY <1>9, <2>1
  <1> QED
    BY <1>5, <1>8, <1>10, <1>11, <1>12 DEF fec

\* How many of the payloads in H have come.
Arrived(payload, arrivals, H) ==
    Cardinality({j \in DOMAIN arrivals : payload[arrivals[j]] \in H})

\* Of packets none of which comes twice, as many come as are not missing, and so
\* of those with some property.
Once(s) == \A i, j \in DOMAIN s : s[i] = s[j] => i = j

LEMMA ArrivedCounted ==
    ASSUME NEW payload \in [InGroup -> Payload], NEW arrivals \in Seq(InGroup), NEW H,
           Once(arrivals)
    PROVE  Arrived(payload, arrivals, H)
             = Cardinality({s \in Range(arrivals) : payload[s] \in H})
  <1> DEFINE J == {j \in DOMAIN arrivals : payload[arrivals[j]] \in H}
             K == {s \in Range(arrivals) : payload[s] \in H}
             f == [j \in J |-> arrivals[j]]
  <1>1. f \in Bijection(J, K)
    <2>1. f \in [J -> K]
      BY DEF Range
    <2>2. \A i, j \in J : f[i] = f[j] => i = j
      BY DEF Once
    <2>3. \A k \in K : \E j \in J : f[j] = k
      BY DEF Range
    <2> HIDE DEF f, J, K
    <2> QED
      BY <2>1, <2>2, <2>3 DEF Bijection, Injection, Surjection, IsInjective
  <1>2. IsFiniteSet(J)
    <2>1. IsFiniteSet(1 .. Len(arrivals)) /\ DOMAIN arrivals = 1 .. Len(arrivals)
      BY FS_Interval
    <2> QED
      BY <2>1, FS_Subset
  <1> HIDE DEF f, J, K
  <1>3. Cardinality(J) = Cardinality(K)
    BY <1>1, <1>2, FS_Bijection DEF ExistsBijection
  <1> QED
    BY <1>3 DEF Arrived, J, K

\* GroupRecovered's words about one answer.
Restored(c, r) ==
    NoneTwice(c) =>
        /\ \A s \in Missing(c) :
              /\ r.payloads[s] \subseteq {Padded(c.payload[s], r.len)}
              /\ Len(c.payload[s]) <= r.len
        /\ c.mode = "nack_fec" =>
              r.decision.nack = IF Cardinality(Missing(c)) = 1 THEN {} ELSE Lost(c)

\* Of a group, all but the missing have come: how many with some property.
LEMMA MissingCounted ==
    ASSUME NEW payload \in [InGroup -> Payload], NEW arrivals \in Seq(InGroup), NEW H,
           Once(arrivals)
    PROVE  /\ Arrived(payload, arrivals, H) \in Nat
           /\ \A s : InGroup \ Range(arrivals) = {s} =>
                Cardinality(Hits(payload, H, GroupSize))
                  = IF payload[s] \in H THEN Arrived(payload, arrivals, H) + 1
                    ELSE Arrived(payload, arrivals, H)
  <1> DEFINE missing == InGroup \ Range(arrivals)
             K == {s \in Range(arrivals) : payload[s] \in H}
             A == Hits(payload, H, GroupSize)
  <1>1. GroupSize \in Nat \ {0} /\ InGroup = 1 .. GroupSize
    BY GroupAssumption DEF InGroup
  <1>2. IsFiniteSet(A) /\ Cardinality(A) \in Nat
    BY <1>1, HitsFinite
  <1>3. K \subseteq A
    BY <1>1 DEF Range, Hits
  <1>4. IsFiniteSet(K) /\ Cardinality(K) \in Nat
    BY <1>2, <1>3, FS_Subset, FS_CardinalityType
  <1>5. Arrived(payload, arrivals, H) = Cardinality(K)
    BY ArrivedCounted
  <1>6. ASSUME NEW s, missing = {s}
        PROVE  Cardinality(A) = IF payload[s] \in H THEN Cardinality(K) + 1 ELSE Cardinality(K)
    <2>1. A = IF payload[s] \in H THEN K \cup {s} ELSE K
      BY <1>1, <1>6 DEF Range, Hits
    <2>2. s \notin K
      BY <1>6
    <2> HIDE DEF A, K
    <2> QED
      BY <1>4, <2>1, <2>2, FS_AddElement
  <1> QED
    BY <1>4, <1>5, <1>6

\* As many packets have come as are not missing.
LEMMA NotMissing ==
    ASSUME NEW arrivals \in Seq(InGroup),
           Once(arrivals)
    PROVE  LET missing == InGroup \ Range(arrivals) IN
           /\ IsFiniteSet(missing) /\ Cardinality(missing) \in Nat
           /\ Len(arrivals) = GroupSize - Cardinality(missing)
  <1> DEFINE missing == InGroup \ Range(arrivals)
             n == Len(arrivals)
  <1>1. GroupSize \in Nat \ {0} /\ InGroup = 1 .. GroupSize
    BY GroupAssumption DEF InGroup
  <1>2. IsFiniteSet(InGroup) /\ Cardinality(InGroup) = GroupSize
    BY <1>1, FS_Interval
  <1>3. n \in Nat /\ DOMAIN arrivals = 1 .. n
    OBVIOUS
  <1>4. IsFiniteSet(1 .. n) /\ Cardinality(1 .. n) = n
    <2>1. n \in Nat
      BY <1>3
    <2> HIDE DEF n
    <2> QED
      BY <2>1, FS_Interval
  <1>5. arrivals \in Bijection(1 .. n, Range(arrivals))
    <2>1. arrivals \in [1 .. n -> Range(arrivals)]
      BY <1>3 DEF Range
    <2>2. \A k \in Range(arrivals) : \E i \in 1 .. n : arrivals[i] = k
      BY <1>3 DEF Range
    <2> QED
      BY <1>3, <2>1, <2>2 DEF Once, Bijection, Injection, Surjection, IsInjective
  <1>6. Cardinality(Range(arrivals)) = n
    BY <1>4, <1>5, FS_Bijection DEF ExistsBijection
  <1>7. Range(arrivals) \subseteq InGroup
    BY <1>3 DEF Range
  <1> HIDE DEF n
  <1>8. Cardinality(missing) = GroupSize - n /\ IsFiniteSet(missing)
    <2>1. InGroup \cap Range(arrivals) = Range(arrivals)
      BY <1>7
    <2>2. /\ IsFiniteSet(InGroup \ Range(arrivals))
          /\ Cardinality(InGroup \ Range(arrivals))
               = Cardinality(InGroup) - Cardinality(InGroup \cap Range(arrivals))
      BY <1>2, FS_Difference
    <2> QED
      BY <1>2, <1>6, <2>1, <2>2
  <1>9. Cardinality(missing) \in Nat
    BY <1>8, FS_CardinalityType
  <1> QED
    BY <1>1, <1>3, <1>8, <1>9 DEF n

\* What is computed from the rest of a group is what is missing in it.
LEMMA LostRestored ==
    ASSUME NEW payload \in [InGroup -> Payload], NEW arrivals \in Seq(InGroup),
           Once(arrivals), NEW s, InGroup \ Range(arrivals) = {s}
    PROVE  LET data == GenerateRedundancy(Sent(payload)).data IN
           XorAll(data, [j \in DOMAIN arrivals |-> payload[arrivals[j]]])
             = Padded(payload[s], Len(data))
  <1> DEFINE data == GenerateRedundancy(Sent(payload)).data
             L == Len(data)
             came == [j \in DOMAIN arrivals |-> payload[arrivals[j]]]
             x == XorAll(data, came)
             p == payload[s]
  <1>1. /\ L \in Nat /\ data \in [1 .. L -> SUBSET Bit]
        /\ \A i \in 1 .. L : \A b :
              b \in data[i] <=> Cardinality(Hits(payload, Having(i, b), GroupSize)) % 2 = 1
    BY GroupSent
  <1> HIDE DEF data
  <1>2. s \in InGroup /\ p \in Payload
    OBVIOUS
  <1>3. came \in Seq(Payload) /\ Len(came) = Len(arrivals) /\ DOMAIN arrivals = 1 .. Len(arrivals)
    OBVIOUS
  <1>4. x \in [1 .. L -> SUBSET Bit]
    <2>1. Len(came) \in 0 .. Len(came)
      BY <1>3
    <2> HIDE DEF L, came
    <2>2. XorUpTo(data, came)[Len(came)] \in [1 .. L -> SUBSET Bit]
      BY <1>1, <1>3, <2>1, XorSteps
    <2>3. XorAll(data, came) = XorUpTo(data, came)[Len(came)]
      BY <1>1, <1>3, XorSteps
    <2> QED
      BY <2>2, <2>3
  <1>5. ASSUME NEW i \in 1 .. L, NEW b
        PROVE  b \in x[i] <=> (i <= Len(p) /\ b \in p[i])
    <2> DEFINE H == Having(i, b)
               n == Cardinality(Hits(came, H, Len(came)))
               all == Cardinality(Hits(payload, H, GroupSize))
    <2>1. b \in x[i] <=> ~(b \in data[i] <=> n % 2 = 1)
      <3> HIDE DEF L, came
      <3> QED
        BY <1>1, <1>3, XorBits
    <2>2. b \in data[i] <=> all % 2 = 1
      BY <1>1
    <2>3. n = Cardinality({j \in DOMAIN arrivals : payload[arrivals[j]] \in H})
      <3>1. Hits(came, H, Len(came)) = {j \in DOMAIN arrivals : payload[arrivals[j]] \in H}
        <4> HIDE DEF H
        <4> QED
          BY <1>3 DEF Hits
      <3> QED
        BY <3>1
    <2>4. n \in Nat /\ all = IF p \in H THEN n + 1 ELSE n
      <3> HIDE DEF H
      <3>1. /\ Arrived(payload, arrivals, H) \in Nat
            /\ all = IF payload[s] \in H THEN Arrived(payload, arrivals, H) + 1
                     ELSE Arrived(payload, arrivals, H)
        BY MissingCounted
      <3>2. n = Arrived(payload, arrivals, H)
        BY <2>3 DEF Arrived
      <3> HIDE DEF n, all
      <3> QED
        BY <3>1, <3>2
    <2> HIDE DEF n, all
    <2>5. (n + 1) % 2 = 1 <=> ~(n % 2 = 1)
      BY <2>4
    <2>6. p \in H <=> (i <= Len(p) /\ b \in p[i])
      BY <1>2 DEF Having
    <2> HIDE DEF H, x, p
    <2> QED
      BY <2>1, <2>2, <2>4, <2>5, <2>6
  <1>6. ASSUME NEW i \in 1 .. L PROVE x[i] = IF i <= Len(p) THEN p[i] ELSE {}
    <2>1. x[i] \in SUBSET Bit
      BY <1>4
    <2>2. i <= Len(p) => p[i] \in SUBSET Bit
      <3>1. i <= Len(p) => i \in 1 .. Len(p)
        BY <1>2, PayloadBytes
      <3> HIDE DEF p
      <3> QED
        BY <1>2, <3>1, PayloadBytes
    <2> HIDE DEF x, p
    <2> QED
      BY <1>5, <2>1, <2>2
  <1>7. Padded(p, L) = [i \in 1 .. L |-> IF i <= Len(p) THEN p[i] ELSE {}]
    BY DEF Padded
  <1>8. x = Padded(p, L)
    <2> HIDE DEF x, p, L
    <2> QED
      BY <1>4, <1>6, <1>7
  <1> QED
    BY <1>8 DEF data

\* From what came, a payload is computed exactly when one is missing.
LEMMA RecoveryAnswered ==
    ASSUME NEW c \in RecoveryCalls, NEW r, r = Recovery(c) PROVE Restored(c, r)
  <1> DEFINE payload == c.payload
             arrivals == c.arrivals
             fec == Fec(c)
             packets == Packets(c)
             missing == Missing(c)
             came == [j \in DOMAIN arrivals |-> payload[arrivals[j]]]
  <1> SUFFICES ASSUME NoneTwice(c)
               PROVE  /\ \A s \in missing :
                            /\ r.payloads[s] \subseteq {Padded(payload[s], r.len)}
                            /\ Len(payload[s]) <= r.len
                      /\ c.mode = "nack_fec" =>
                            r.decision.nack = IF Cardinality(missing) = 1 THEN {} ELSE Lost(c)
    BY DEF Restored
  <1>1. /\ payload \in [InGroup -> Payload] /\ arrivals \in Arrivals
    BY DEF RecoveryCalls
  <1>2. arrivals \in Seq(InGroup) /\ DOMAIN arrivals = 1 .. Len(arrivals)
    <2>1. PICK n \in 0 .. GroupSize + MaxCopies : arrivals \in [1 .. n -> InGroup]
      BY <1>1 DEF Arrivals
    <2>2. n \in Nat
      BY <2>1
    <2> HIDE DEF arrivals
    <2> QED
      BY <2>1, <2>2
  <1>3. Once(arrivals)
    BY DEF NoneTwice, Once
  <1>4. missing = InGroup \ Range(arrivals) /\ missing \subseteq Lost(c)
    BY <1>2 DEF Missing, Lost, Range
  <1>5. fec = GenerateRedundancy(Sent(payload))
    <2> DEFINE body == [kind |-> "audio",
                        packets |-> [s \in InGroup |-> [seq |-> s, payload |-> payload[s]]]]
    <2>1. body.kind \in Kinds /\ body.packets # <<>> /\ body.packets = Sent(payload)
      <3>1. 1 \in InGroup
        BY GroupAssumption DEF InGroup
      <3>2. body.packets # <<>>
        BY <3>1
      <3> QED
        BY <3>2 DEF Kinds, Sent
    <2>2. fec = FecRoute(body).fec
      BY DEF Fec
    <2> HIDE DEF body, fec, payload
    <2> QED
      BY <2>1, <2>2 DEF FecRoute
  <1>6. packets = Came(payload, arrivals)
    BY DEF Packets, Came
  <1>7. r.len = Len(fec.data)
        /\ r.payloads = [s \in Lost(c) |-> TryFecRecover(fec, packets, s)]
        /\ r.decision = Decide(c.mode, Lost(c), {fec}, packets)
    BY DEF Recovery
  <1> HIDE DEF payload, arrivals, fec, packets, missing
  <1>8. /\ Range(fec.sequences) = InGroup /\ Len(fec.sequences) = GroupSize
        /\ \A s \in InGroup : Len(payload[s]) <= Len(fec.data)
    BY <1>1, <1>5, GroupSent
  <1>9. GroupReceived(fec, packets) = packets
    <2> DEFINE T == [seq : InGroup, payload : Payload]
               S == {packet \in Range(packets) : packet.seq \in Range(fec.sequences)}
    <2>1. packets \in [1 .. Len(arrivals) -> T]
      BY <1>1, <1>2, <1>6 DEF Came
    <2>2. packets \in Seq(T) /\ DOMAIN packets = 1 .. Len(arrivals)
      <3>1. Len(arrivals) \in Nat
        BY <1>2
      <3> HIDE DEF T
      <3> QED
        BY <2>1, <3>1
    <2>3. \A i \in DOMAIN packets : packets[i] \in S
      BY <1>8, <2>1, <2>2 DEF Range
    <2> HIDE DEF S, T
    <2>4. Within(packets, S) = packets
      BY <2>2, <2>3, KeptWhole
    <2> QED
      BY <2>4 DEF GroupReceived, S
  <1>10. Len(packets) = Len(arrivals)
    BY <1>2, <1>6 DEF Came
  <1>11. OneMissing(fec, packets) <=> Cardinality(missing) = 1
    <2>1. Cardinality(missing) \in Nat /\ Len(arrivals) = GroupSize - Cardinality(missing)
      BY <1>2, <1>3, <1>4, NotMissing
    <2>2. GroupSize \in Nat
      BY GroupAssumption
    <2>3. OneMissing(fec, packets) <=> Len(arrivals) = GroupSize - 1
      BY <1>8, <1>9, <1>10 DEF OneMissing
    <2> QED
      BY <2>1, <2>2, <2>3
  <1>12. \A s \in InGroup : TryFecRecover(fec, packets, s)
           = IF OneMissing(fec, packets) THEN {XorAll(fec.data, came)} ELSE {}
    <2>1. [i \in DOMAIN packets |-> packets[i].payload] = came
      BY <1>6 DEF Came
    <2> QED
      BY <1>8, <1>9, <2>1 DEF TryFecRecover
  <1> HIDE DEF came
  <1>13. ASSUME NEW s \in missing
         PROVE  /\ r.payloads[s] \subseteq {Padded(payload[s], r.len)}
                /\ Len(payload[s]) <= r.len
    <2>1. s \in InGroup /\ s \in Lost(c)
      BY <1>4
    <2>2. r.payloads[s] = TryFecRecover(fec, packets, s)
      BY <1>7, <2>1
    <2>3. CASE OneMissing(fec, packets)
      <3>1. IsFiniteSet(missing) /\ Cardinality(missing) = 1
        BY <1>2, <1>3, <1>4, <1>11, <2>3, NotMissing
      <3>2. missing = {s}
        BY <3>1, FS_Singleton
      <3>3. XorAll(fec.data, came) = Padded(payload[s], Len(fec.data))
        BY <1>1, <1>2, <1>3, <1>4, <1>5, <3>2, LostRestored DEF came
      <3> QED
        BY <1>7, <1>8, <1>12, <2>1, <2>2, <2>3, <3>3
    <2>4. CASE ~OneMissing(fec, packets)
      BY <1>7, <1>8, <1>12, <2>1, <2>2, <2>4
    <2> QED
      BY <2>3, <2>4
  <1>14. ASSUME c.mode = "nack_fec"
         PROVE  r.decision.nack = IF Cardinality(missing) = 1 THEN {} ELSE Lost(c)
    <2> DEFINE recoverable ==
                  {s \in Lost(c) : \E f \in {fec} : TryFecRecover(f, packets, s) # {}}
    <2>1. Lost(c) \subseteq InGroup
      BY DEF Lost
    <2>2. recoverable = IF OneMissing(fec, packets) THEN Lost(c) ELSE {}
      BY <1>12, <2>1
    <2>3. r.decision.nack = Lost(c) \ recoverable
      BY <1>7, <1>14 DEF Decide
    <2> QED
      BY <1>11, <2>2, <2>3
  <1> QED
    BY <1>13, <1>14

------------------------------------------------------------------------------
(* The calls of the SFU.                                                    *)

\* What the answer to the call is to be.
AnsweredWell ==
    \A r \in result :
        /\ call.fn = "nack" => AnsweredOften(call, r)
        /\ call.fn = "evaluate_recovery" => Restored(call, r)
        /\ call.fn = "recover" => Sound(call, r)
        /\ call.fn = "route" => Routed(call, r)
        /\ call.fn = "ice" => Served(call, r)
        /\ call.fn = "codec" => Usable(Candidates(call.platform), call.first, call.second, r)
        /\ call.fn = "benchmark" => Stays(call.config, r)

LEMMA CalledAs ==
    ASSUME SfuInit
    PROVE  /\ call.fn = "nack" => call \in NackCalls
           /\ call.fn = "evaluate_recovery" => call \in RecoveryCalls
           /\ call.fn = "recover" =>
                /\ call \in SimulationCalls
                /\ call.losses \subseteq 0 .. Simulated(call.total) - 1
           /\ call.fn = "route" => call \in RequestCalls
           /\ call.fn = "ice" => call \in IceCalls
           /\ call.fn = "codec" => call \in CodecCalls
           /\ call.fn = "benchmark" => call \in CapacityCalls
  <1>1. CASE call \in NackCalls
    <2>1. call.fn = "nack"
      BY <1>1 DEF NackCalls
    <2> QED
      BY <1>1, <2>1
  <1>2. CASE /\ call \in SimulationCalls
             /\ call.losses \subseteq 0 .. Simulated(call.total) - 1
    <2>1. call.fn = "recover"
      BY <1>2 DEF SimulationCalls
    <2> QED
      BY <1>2, <2>1
  <1>3. CASE call \in RequestCalls
    <2>1. call.fn = "route"
      BY <1>3 DEF RequestCalls
    <2> QED
      BY <1>3, <2>1
  <1>4. CASE call \in IceCalls
    <2>1. call.fn = "ice"
      BY <1>4 DEF IceCalls
    <2> QED
      BY <1>4, <2>1
  <1>5. CASE call \in CodecCalls
    <2>1. call.fn = "codec"
      BY <1>5 DEF CodecCalls
    <2> QED
      BY <1>5, <2>1
  <1>6. CASE call \in CapacityCalls
    <2>1. call.fn = "benchmark"
      BY <1>6 DEF CapacityCalls
    <2> QED
      BY <1>6, <2>1
  <1>7. CASE call \in RecoveryCalls
    <2>1. call.fn = "evaluate_recovery"
      BY <1>7 DEF RecoveryCalls
    <2> QED
      BY <1>7, <2>1
  <1> QED
    BY <1>1, <1>2, <1>3, <1>4, <1>5, <1>6, <1>7 DEF SfuInit

LEMMA ServersListed ==
    ASSUME NEW c \in IceCalls PROVE \E T : c.config.servers \in Seq(T)
  <1> DEFINE servers == [kind : {"stun", "turn"},
                         host : [v4 : {1, 2} \cup Loopback]
                                  \cup {[v6 |-> 1], [name |-> "localhost"]}]
  <1>1. PICK n \in 0 .. 2 : c.config.servers \in [1 .. n -> servers]
    BY DEF IceCalls
  <1> HIDE DEF servers
  <1>2. n \in Nat
    OBVIOUS
  <1>3. c.config.servers \in Seq(servers)
    BY <1>1, <1>2
  <1> QED
    BY <1>3

\* The answer to any call of the kinds above.
LEMMA CallAnswered ==
    ASSUME SfuInit, SfuNext, UNCHANGED call PROVE AnsweredWell'
  <1> SUFFICES ASSUME NEW r \in result'
               PROVE  /\ call.fn = "nack" => AnsweredOften(call, r)
                      /\ call.fn = "evaluate_recovery" => Restored(call, r)
                      /\ call.fn = "recover" => Sound(call, r)
                      /\ call.fn = "route" => Routed(call, r)
                      /\ call.fn = "ice" => Served(call, r)
                      /\ call.fn = "codec" =>
                            Usable(Candidates(call.platform), call.first, call.second, r)
                      /\ call.fn = "benchmark" => Stays(call.config, r)
    BY DEF AnsweredWell
  <1>1. CASE call.fn = "route"
    <2>1. r = Answer(call) /\ call \in RequestCalls
      BY <1>1, CalledAs DEF SfuNext
    <2> QED
      BY <1>1, <2>1, AnswerRouted
  <1>2. CASE call.fn = "ice"
    <2>1. r = [valid |-> IceValid(call.config, {call.network}),
               given |-> SelectServers(call.config), info |-> IceInfo(call.config)]
      BY <1>2 DEF SfuNext
    <2>2. \E T : call.config.servers \in Seq(T)
      BY <1>2, CalledAs, ServersListed
    <2>3. Served(call, r)
      BY <2>1, <2>2, ServersServed
    <2> QED
      BY <1>2, <2>3
  <1>3. CASE call.fn = "codec"
    <2>1. r = SelectPath(call.platform, call.first, call.second)
      BY <1>3 DEF SfuNext
    <2>2. call.platform \in Platforms
      BY <1>3, CalledAs DEF CodecCalls
    <2>3. Usable(Candidates(call.platform), call.first, call.second, r)
      BY <2>1, <2>2, PathUsable
    <2> QED
      BY <1>3, <2>3
  <1>4. CASE call.fn = "benchmark"
    <2>1. r = Answer(Request("benchmark", [config |-> call.config, losses |-> {}]))
      BY <1>4 DEF SfuNext
    <2>2. r.report = SimulateCapacity(call.config, {})
      BY <2>1, BenchmarkAnswered
    <2>3. call.config \in Config
      <3>1. call \in CapacityCalls
        BY <1>4, CalledAs
      <3>2. \A n : n \in 0 .. MaxStreams => n \in Nat
        OBVIOUS
      <3> QED
        BY <3>1, <3>2 DEF CapacityCalls, Config
    <2>4. Stays(call.config, r)
      BY <2>2, <2>3, BenchmarkStays
    <2> QED
      BY <1>4, <2>4
  <1>5. CASE call.fn = "nack"
    <2>1. r = Answer(Request("nack", NackBody(call))) /\ call \in NackCalls
      BY <1>5, CalledAs DEF SfuNext
    <2>2. AnsweredOften(call, r)
      BY <2>1, NackAnswered
    <2> QED
      BY <1>5, <2>2
  <1>6. CASE call.fn = "recover"
    <2>1. r = Answer(Request("recover", call))
      BY <1>6 DEF SfuNext
    <2>2. call \in SimulationCalls /\ call.losses \subseteq 0 .. Simulated(call.total) - 1
      BY <1>6, CalledAs
    <2>3. Sound(call, r)
      BY <2>1, <2>2, SimulationAnswered
    <2> QED
      BY <1>6, <2>3
  <1>7. CASE call.fn = "evaluate_recovery"
    <2>1. r = Recovery(call) /\ call \in RecoveryCalls
      BY <1>7, CalledAs DEF SfuNext
    <2>2. Restored(call, r)
      BY <2>1, RecoveryAnswered
    <2> QED
      BY <1>7, <2>2
  <1>8. CASE call.fn \notin {"nack", "evaluate_recovery", "recover", "route", "ice", "codec",
                            "benchmark"}
    BY <1>8
  <1> QED
    BY <1>1, <1>2, <1>3, <1>4, <1>5, <1>6, <1>7, <1>8

------------------------------------------------------------------------------
(* The layers of a configuration.                                           *)

\* A section and the words of a field, and the words of a variable.
IsSetting(s) == \E T : s = <<s[1], s[2]>> /\ s[1] \in T /\ s[2] \in Seq(T)
AreWords(w) == \E T : w \in Seq(T)

LEMMA FieldOfOne == ASSUME NEW a, NEW b PROVE IsSetting(<<a, <<b>>>>)
  <1>1. a \in {a, b} /\ <<b>> \in Seq({a, b})
    OBVIOUS
  <1> QED
    BY <1>1 DEF IsSetting

LEMMA FieldOfTwo == ASSUME NEW a, NEW b, NEW c PROVE IsSetting(<<a, <<b, c>>>>)
  <1>1. a \in {a, b, c} /\ <<b, c>> \in Seq({a, b, c})
    OBVIOUS
  <1> QED
    BY <1>1 DEF IsSetting

LEMMA FieldOfThree == ASSUME NEW a, NEW b, NEW c, NEW d PROVE IsSetting(<<a, <<b, c, d>>>>)
  <1>1. a \in {a, b, c, d} /\ <<b, c, d>> \in Seq({a, b, c, d})
    OBVIOUS
  <1> QED
    BY <1>1 DEF IsSetting

LEMMA SettingsAreSettings == \A s \in KnownSettings : IsSetting(s)
  <1>1. IsSetting(Networks) /\ IsSetting(MediaPort) /\ IsSetting(ClusterPort) /\ IsSetting(LogLevel)
        /\ IsSetting(Server)
    BY FieldOfOne DEF Networks, MediaPort, ClusterPort, LogLevel, Server
  <1>2. /\ IsSetting(Advertised) /\ IsSetting(SignalingPort) /\ IsSetting(HealthPort)
        /\ IsSetting(Heartbeat) /\ IsSetting(Role) /\ IsSetting(NodeId) /\ IsSetting(BindHost)
        /\ IsSetting(ClusterId) /\ IsSetting(UnhealthyMisses)
    BY FieldOfTwo DEF Advertised, SignalingPort, HealthPort, Heartbeat, Role, NodeId, BindHost,
                      ClusterId, UnhealthyMisses
  <1>3. IsSetting(RequestTimeout) /\ IsSetting(FailoverTarget) /\ IsSetting(JoinTarget)
    BY FieldOfThree DEF RequestTimeout, FailoverTarget, JoinTarget
  <1> QED
    BY <1>1, <1>2, <1>3, Zenon DEF KnownSettings

\* A variable names the setting of its words, and no other.
LEMMA SettingOfWords ==
    ASSUME NEW s, IsSetting(s) PROVE Setting(Words(s)) = s /\ AreWords(Words(s))
  <1>1. PICK T : s = <<s[1], s[2]>> /\ s[1] \in T /\ s[2] \in Seq(T)
    BY DEF IsSetting
  <1> DEFINE a == s[1]
             t == s[2]
             w == <<a>> \o t
  <1> HIDE DEF a, t
  <1>2. a \in T /\ t \in Seq(T)
    BY <1>1 DEF a, t
  <1>3. w \in Seq(T) /\ Head(w) = a
    BY <1>2
  <1>4. Tail(w) = t
    <2>1. Tail(w) \in Seq(T) /\ Len(Tail(w)) = Len(t)
      BY <1>2
    <2>2. \A i \in 1 .. Len(t) : Tail(w)[i] = t[i]
      BY <1>2
    <2> HIDE DEF w
    <2> QED
      BY <1>2, <2>1, <2>2
  <1> QED
    BY <1>1, <1>3, <1>4 DEF Setting, Words, AreWords, a, t

LEMMA WordsOfSetting ==
    ASSUME NEW w, AreWords(w), Len(w) > 0 PROVE Words(Setting(w)) = w
  <1>1. PICK T : w \in Seq(T)
    BY DEF AreWords
  <1>2. Words(Setting(w)) = <<Head(w)>> \o Tail(w)
    BY DEF Words, Setting
  <1> DEFINE v == <<Head(w)>> \o Tail(w)
  <1>3. Head(w) \in T /\ Tail(w) \in Seq(T) /\ Len(Tail(w)) = Len(w) - 1 /\ Head(w) = w[1]
        /\ \A i \in 1 .. Len(w) - 1 : Tail(w)[i] = w[i + 1]
    BY <1>1
  <1>4. v \in Seq(T) /\ Len(v) = Len(w)
    BY <1>1, <1>3
  <1>5. \A i \in 1 .. Len(w) : v[i] = w[i]
    BY <1>1, <1>3
  <1> HIDE DEF v
  <1>6. v = w
    BY <1>1, <1>4, <1>5
  <1> QED
    BY <1>2, <1>6 DEF v

LEMMA NamesOneSetting ==
    ASSUME NEW w, AreWords(w), Len(w) > 0, NEW s, IsSetting(s)
    PROVE  w = Words(s) <=> Setting(w) = s
  BY SettingOfWords, WordsOfSetting

\* A nonempty set of places in a list has a last one.
LEMMA LastOne ==
    ASSUME NEW n \in Nat, NEW N \in SUBSET (1 .. n), N # {}
    PROVE  \E i \in N : \A j \in N : j <= i
  <1> DEFINE M == {k \in Nat : n - k \in N}
  <1>1. \A i \in N : n - i \in M
    <2>1. \A i \in 1 .. n : n - i \in Nat /\ n - (n - i) = i
      OBVIOUS
    <2> QED
      BY <2>1
  <1>2. M \in SUBSET Nat /\ M # {}
    BY <1>1
  <1>3. PICK k \in M : \A m \in M : k <= m
    <2> HIDE DEF M
    <2> QED
      BY <1>2, LeastOne
  <1>4. n - k \in N
    BY <1>3
  <1>5. ASSUME NEW j \in N PROVE j <= n - k
    <2>1. k <= n - j /\ k \in Nat /\ j \in 1 .. n
      BY <1>1, <1>3, <1>5
    <2> QED
      BY <2>1
  <1> QED
    BY <1>4, <1>5

\* Variables with a name.
Variables(env) ==
    /\ Len(env) \in Nat /\ DOMAIN env = 1 .. Len(env)
    /\ \A i \in DOMAIN env : AreWords(env[i].words) /\ Len(env[i].words) > 0

\* LastLayerDecides's words about one answer.
Naming(env, s) == {i \in DOMAIN env : env[i].words = Words(s)}

GreatestOf(N) == CHOOSE i \in N : \A j \in N : j <= i

Decided(c, r) ==
    /\ \A i \in DOMAIN c.env : c.env[i].words \notin WordsOf(KnownSettings) => r = {}
    /\ \A config \in r : \A s \in KnownSettings :
          config[s] = IF Naming(c.env, s) # {} THEN c.env[GreatestOf(Naming(c.env, s))].value
                      ELSE IF s \in DOMAIN c.local THEN c.local[s]
                      ELSE IF s \in DOMAIN c.default THEN c.default[s]
                      ELSE Defaults[s]

\* The variables give a setting what the last of them says.
LEMMA LastVariable ==
    ASSUME NEW env, Variables(env), NEW s \in KnownSettings
    PROVE  /\ s \in DOMAIN Overrides(env) <=> Naming(env, s) # {}
           /\ s \in DOMAIN Overrides(env) =>
                Overrides(env)[s] = env[GreatestOf(Naming(env, s))].value
  <1> DEFINE N == Naming(env, s)
             last == CHOOSE i \in DOMAIN env : /\ Setting(env[i].words) = s
                                               /\ \A j \in DOMAIN env :
                                                     Setting(env[j].words) = s => j <= i
  <1>1. \A i \in DOMAIN env : i \in N <=> Setting(env[i].words) = s
    BY SettingsAreSettings, NamesOneSetting DEF Variables, Naming
  <1>2. N \subseteq DOMAIN env /\ N \in SUBSET (1 .. Len(env)) /\ Len(env) \in Nat
    BY DEF Variables, Naming
  <1>3. DOMAIN Overrides(env) = {Setting(env[i].words) : i \in DOMAIN env}
    BY DEF Overrides
  <1>4. s \in DOMAIN Overrides(env) => Overrides(env)[s] = env[last].value
    BY <1>3 DEF Overrides
  <1> HIDE DEF N
  <1>5. s \in DOMAIN Overrides(env) <=> N # {}
    BY <1>1, <1>2, <1>3
  <1>6. ASSUME N # {} PROVE last = GreatestOf(N)
    <2>1. \E i \in N : \A j \in N : j <= i
      BY <1>2, <1>6, LastOne
    <2>2. GreatestOf(N) \in N /\ \A j \in N : j <= GreatestOf(N)
      BY <2>1 DEF GreatestOf
    <2>3. \E i \in DOMAIN env : /\ Setting(env[i].words) = s
                                /\ \A j \in DOMAIN env : Setting(env[j].words) = s => j <= i
      BY <1>1, <1>2, <2>2
    <2>4. /\ last \in DOMAIN env /\ Setting(env[last].words) = s
          /\ \A j \in DOMAIN env : Setting(env[j].words) = s => j <= last
      BY <2>3
    <2> HIDE DEF last
    <2>5. last \in N /\ \A j \in N : j <= last
      BY <1>1, <1>2, <2>4
    <2>6. last <= GreatestOf(N) /\ GreatestOf(N) <= last
      BY <2>2, <2>5
    <2>7. last \in Nat /\ GreatestOf(N) \in Nat
      <3>1. \A i \in 1 .. Len(env) : i \in Nat
        OBVIOUS
      <3> QED
        BY <1>2, <2>2, <2>5, <3>1
    <2> QED
      BY <2>6, <2>7
  <1> QED
    BY <1>4, <1>5, <1>6 DEF N

LEMMA LoadDecides ==
    ASSUME NEW c, Variables(c.env), NEW r, r = Load(Defaults, c.default, c.local, c.env)
    PROVE  Decided(c, r)
  <1> DEFINE env == c.env
             o == Overrides(env)
             under == Over(Over(Defaults, c.default), c.local)
  <1>1. ASSUME NEW i \in DOMAIN env, env[i].words \notin WordsOf(KnownSettings) PROVE r = {}
    <2>1. Setting(env[i].words) \notin KnownSettings
      <3>1. Words(Setting(env[i].words)) = env[i].words
        BY <1>1, WordsOfSetting DEF Variables
      <3> QED
        BY <1>1, <3>1 DEF WordsOf
    <2>2. ~KnownVariables(env)
      BY <1>1, <2>1 DEF KnownVariables
    <2> QED
      BY <2>2 DEF Load
  <1>2. ASSUME NEW config \in r, NEW s \in KnownSettings
        PROVE  config[s] = IF Naming(env, s) # {} THEN env[GreatestOf(Naming(env, s))].value
                           ELSE IF s \in DOMAIN c.local THEN c.local[s]
                           ELSE IF s \in DOMAIN c.default THEN c.default[s]
                           ELSE Defaults[s]
    <2>1. config = Over(under, o)
      BY <1>2 DEF Load
    <2>2. config[s] = IF s \in DOMAIN o THEN o[s] ELSE under[s]
      BY <2>1 DEF Over
    <2>3. under[s] = IF s \in DOMAIN c.local THEN c.local[s]
                     ELSE IF s \in DOMAIN c.default THEN c.default[s] ELSE Defaults[s]
      BY DEF Over
    <2> HIDE DEF o, under
    <2>4. /\ s \in DOMAIN o <=> Naming(env, s) # {}
          /\ s \in DOMAIN o => o[s] = env[GreatestOf(Naming(env, s))].value
      BY LastVariable DEF o
    <2> QED
      BY <2>2, <2>3, <2>4
  <1> QED
    BY <1>1, <1>2 DEF Decided

LEMMA ChangesAreVariables ==
    \A S : S \subseteq KnownSettings =>
        \A w \in WordsOf(S) : AreWords(w) /\ Len(w) > 0
  <1> SUFFICES ASSUME NEW s \in KnownSettings PROVE AreWords(Words(s)) /\ Len(Words(s)) > 0
    BY DEF WordsOf
  <1>1. PICK T : s = <<s[1], s[2]>> /\ s[1] \in T /\ s[2] \in Seq(T)
    BY SettingsAreSettings DEF IsSetting
  <1> DEFINE a == s[1]
             t == s[2]
  <1>2. a \in T /\ t \in Seq(T)
    BY <1>1
  <1> HIDE DEF a, t
  <1>3. <<a>> \o t \in Seq(T) /\ Len(<<a>> \o t) > 0
    BY <1>2
  <1> QED
    BY <1>3 DEF Words, AreWords, a, t

LEMMA ChangeNames ==
    ASSUME NEW change \in Changes PROVE AreWords(change.words) /\ Len(change.words) > 0
  <1> DEFINE Named(S) == \A w \in WordsOf(S) : AreWords(w) /\ Len(w) > 0
  <1>1. /\ Named({MediaPort, SignalingPort, HealthPort}) /\ Named({Heartbeat, RequestTimeout})
        /\ Named({UnhealthyMisses, FailoverTarget, JoinTarget}) /\ Named({ClusterId, LogLevel})
        /\ Named({Role}) /\ Named({NodeId}) /\ Named({Networks}) /\ Named({BindHost})
    BY ChangesAreVariables, Zenon DEF KnownSettings
  <1>2. \A a, b, c : AreWords(<<a, b, c>>) /\ Len(<<a, b, c>>) > 0
    <2> TAKE a, b, c
    <2>1. <<a, b, c>> \in Seq({a, b, c}) /\ Len(<<a, b, c>>) > 0
      OBVIOUS
    <2> QED
      BY <2>1 DEF AreWords
  <1>3. \A a : AreWords(<<a>>) /\ Len(<<a>>) > 0
    <2> TAKE a
    <2>1. <<a>> \in Seq({a}) /\ Len(<<a>>) > 0
      OBVIOUS
    <2> QED
      BY <2>1 DEF AreWords
  <1>4. \/ change.words \in WordsOf({MediaPort, SignalingPort, HealthPort})
        \/ change.words \in WordsOf({Heartbeat, RequestTimeout})
        \/ change.words \in WordsOf({UnhealthyMisses, FailoverTarget, JoinTarget})
        \/ change.words \in WordsOf({ClusterId, LogLevel})
        \/ change.words \in WordsOf({Role}) \/ change.words \in WordsOf({NodeId})
        \/ change.words \in WordsOf({Networks}) \/ change.words \in WordsOf({BindHost})
        \/ change.words = <<"network", "cidrs", "0">> \/ change.words = <<"network">>
    <2> DEFINE Odd == {<<"network", "cidrs", "0">>, <<"network">>}
               ImageOf(S) == \E V : change \in Sets(S, V)
    <2>1. \A S : ImageOf(S) => change.words \in WordsOf(S)
      BY DEF Sets
    <2>2. ASSUME change \in Misnamed PROVE change.words \in Odd
      <3> DEFINE V == [text : {"0.0.0.0"}]
      <3>1. change \in [words : Odd, value : V]
        BY <2>2 DEF Misnamed
      <3> HIDE DEF Odd, V
      <3> QED
        BY <3>1
    <2>3. \A S, V : change \in Sets(S, V) => ImageOf(S)
      OBVIOUS
    <2> HIDE DEF ImageOf
    <2>4. \/ change \in Misnamed \/ ImageOf({MediaPort, SignalingPort, HealthPort})
          \/ ImageOf({Heartbeat, RequestTimeout})
          \/ ImageOf({UnhealthyMisses, FailoverTarget, JoinTarget})
          \/ ImageOf({ClusterId, LogLevel}) \/ ImageOf({Role}) \/ ImageOf({NodeId})
          \/ ImageOf({Networks}) \/ ImageOf({BindHost})
      <3>1. CASE change \in NumberChanges
        BY <2>3, <3>1 DEF NumberChanges
      <3>2. CASE change \in TextChanges
        BY <2>3, <3>2 DEF TextChanges
      <3>3. CASE change \in OtherChanges
        BY <2>3, <3>3 DEF OtherChanges
      <3> QED
        BY <3>1, <3>2, <3>3 DEF Changes
    <2>5. change.words \in Odd =>
             change.words = <<"network", "cidrs", "0">> \/ change.words = <<"network">>
      OBVIOUS
    <2> HIDE DEF Odd
    <2> QED
      BY <2>1, <2>2, <2>4, <2>5, Zenon
  <1> QED
    BY <1>1, <1>2, <1>3, <1>4, Zenon

LEMMA ShortLists ==
    /\ \A x : Len(<<x>>) = 1 /\ DOMAIN <<x>> = 1 .. 1 /\ <<x>>[1] = x
    /\ \A x, y : Len(<<x, y>>) = 2 /\ DOMAIN <<x, y>> = 1 .. 2 /\ <<x, y>>[1] = x /\ <<x, y>>[2] = y
    /\ Len(<<>>) = 0 /\ DOMAIN <<>> = 1 .. 0 /\ 0 \in Nat /\ 1 \in Nat /\ 2 \in Nat
    /\ \A i \in 1 .. 1 : i = 1
    /\ \A i \in 1 .. 2 : i = 1 \/ i = 2
    /\ 1 .. 0 = {}
  OBVIOUS

LEMMA FewVariables ==
    ASSUME NEW C, \A change \in C : AreWords(change.words) /\ Len(change.words) > 0, NEW env,
           \/ env = <<>> \/ \E x \in C : env = <<x>>
           \/ \E x \in C, y \in C : env = <<x, y>>
    PROVE  Variables(env)
  <1> DEFINE Fine(change) == AreWords(change.words) /\ Len(change.words) > 0
  <1>1. \A change \in C : Fine(change)
    OBVIOUS
  <1>2. (Len(env) \in Nat /\ DOMAIN env = 1 .. Len(env) /\ \A i \in DOMAIN env : Fine(env[i]))
          => Variables(env)
    BY DEF Variables
  <1> HIDE DEF Fine
  <1>3. ASSUME env = <<>> PROVE Variables(env)
    <2>1. Len(env) = 0 /\ DOMAIN env = {} /\ 1 .. 0 = {} /\ 0 \in Nat
      BY <1>3, ShortLists
    <2>2. \A i \in DOMAIN env : Fine(env[i])
      BY <2>1
    <2> QED
      BY <1>2, <2>1, <2>2
  <1>4. ASSUME NEW x \in C, env = <<x>> PROVE Variables(env)
    <2>1. Len(env) = 1 /\ DOMAIN env = 1 .. 1 /\ env[1] = x
      BY <1>4, ShortLists
    <2>2. \A i \in 1 .. 1 : Fine(env[i])
      BY <1>1, <2>1, ShortLists
    <2> QED
      BY <1>2, <2>1, <2>2, ShortLists
  <1>5. ASSUME NEW x \in C, NEW y \in C, env = <<x, y>> PROVE Variables(env)
    <2>1. Len(env) = 2 /\ DOMAIN env = 1 .. 2 /\ env[1] = x /\ env[2] = y
      BY <1>5, ShortLists
    <2>2. \A i \in 1 .. 2 : Fine(env[i])
      BY <1>1, <2>1, ShortLists
    <2> QED
      BY <1>2, <2>1, <2>2, ShortLists
  <1> QED
    BY <1>3, <1>4, <1>5, Zenon

LEMMA CallVariables ==
    ASSUME NEW c \in SettingsCalls PROVE Variables(c.env)
  <1> DEFINE Fine(change) == AreWords(change.words) /\ Len(change.words) > 0
             Told == Sets({Advertised}, [text : [host : Hosts, colon : BOOLEAN]])
             One == {<<>>} \cup {<<change>> : change \in Changes}
             Two == Changes \X Changes
             Three == {<<change>> : change \in Told}
             C == Changes \cup Told
  <1>1. \A change \in Changes : Fine(change)
    BY ChangeNames
  <1>2. \A change \in Told : Fine(change)
    <2>1. \A w \in WordsOf({Advertised}) : AreWords(w) /\ Len(w) > 0
      BY ChangesAreVariables, Zenon DEF KnownSettings
    <2>2. \A S, V : \A x \in Sets(S, V) : x.words \in WordsOf(S)
      BY DEF Sets
    <2> QED
      BY <2>1, <2>2, Zenon
  <1>3. c.env \in One \/ c.env \in Two \/ c.env \in Three
    <2> HIDE DEF One, Two, Three, C, Fine
    <2>1. \A D, L, E : \A x \in [fn : {"load_from"}, default : D, local : L, env : E] : x.env \in E
      OBVIOUS
    <2> QED
      BY <2>1, Zenon DEF SettingsCalls, One, Two, Three, Told
  <1> HIDE DEF Told, Fine
  <1>4. \/ c.env = <<>> \/ \E x \in C : c.env = <<x>>
        \/ \E x \in C, y \in C : c.env = <<x, y>>
    BY <1>3
  <1>5. \A change \in C : Fine(change)
    BY <1>1, <1>2
  <1> HIDE DEF C
  <1> QED
    BY <1>4, <1>5, FewVariables DEF Fine

------------------------------------------------------------------------------
(* Addresses, masks and bits.                                               *)

\* g has the powers of two up to the m-th.
Doubles(g, m) == g = [n \in 0 .. m |-> IF n = 0 THEN 1 ELSE 2 * g[n - 1]]

LEMMA DoublesExist == ASSUME NEW k \in Nat PROVE \E g : Doubles(g, k)
  <1> DEFINE None == {m \in Nat : ~\E g : Doubles(g, m)}
  <1>1. ASSUME NEW least \in None PROVE FALSE
    <2>1. PICK m \in None : \A l \in None : m <= l
      <3>1. None \in SUBSET Nat /\ None # {}
        BY <1>1
      <3> HIDE DEF None
      <3> QED
        BY <3>1, LeastOne
    <2>2. m # 0
      <3>1. Doubles([n \in 0 .. 0 |-> 1], 0)
        BY DEF Doubles
      <3> QED
        BY <3>1
    <2>3. m \in Nat /\ m - 1 \in Nat /\ m - 1 \notin None
      BY <2>1, <2>2
    <2>4. PICK g : Doubles(g, m - 1)
      BY <2>3
    <2> DEFINE h == [n \in 0 .. m |-> IF n = 0 THEN 1 ELSE 2 * g[n - 1]]
    <2>5. ASSUME NEW n \in 0 .. m - 1 PROVE h[n] = g[n]
      <3>1. g[n] = IF n = 0 THEN 1 ELSE 2 * g[n - 1]
        BY <2>4 DEF Doubles
      <3>2. n \in 0 .. m
        BY <2>3
      <3> QED
        BY <3>1, <3>2
    <2>6. ASSUME NEW n \in 0 .. m, n # 0 PROVE h[n - 1] = g[n - 1]
      <3>1. n - 1 \in 0 .. m - 1
        BY <2>3, <2>6
      <3> HIDE DEF h
      <3> QED
        BY <2>5, <3>1
    <2>7. h = [n \in 0 .. m |-> IF n = 0 THEN 1 ELSE 2 * h[n - 1]]
      BY <2>6
    <2> QED
      BY <2>1, <2>7 DEF Doubles
  <1> QED
    BY <1>1

LEMMA DoublesAgree ==
    ASSUME NEW k \in Nat, NEW l \in Nat, NEW g, NEW h, Doubles(g, k), Doubles(h, l)
    PROVE  \A n \in Nat : n <= k /\ n <= l => g[n] = h[n] /\ g[n] \in Nat \ {0}
  <1> DEFINE Differ == {n \in Nat : n <= k /\ n <= l /\ ~(g[n] = h[n] /\ g[n] \in Nat \ {0})}
  <1>1. ASSUME NEW one \in Differ PROVE FALSE
    <2>1. PICK m \in Differ : \A n \in Differ : m <= n
      <3>1. Differ \in SUBSET Nat /\ Differ # {}
        BY <1>1
      <3> HIDE DEF Differ
      <3> QED
        BY <3>1, LeastOne
    <2>2. m \in 0 .. k /\ m \in 0 .. l
      BY <2>1
    <2>3. /\ g[m] = IF m = 0 THEN 1 ELSE 2 * g[m - 1]
          /\ h[m] = IF m = 0 THEN 1 ELSE 2 * h[m - 1]
      BY <2>2 DEF Doubles
    <2>4. m # 0
      BY <2>1, <2>3
    <2>5. m - 1 \notin Differ /\ m - 1 \in Nat /\ m - 1 <= k /\ m - 1 <= l
      BY <2>1, <2>4
    <2>6. g[m - 1] = h[m - 1] /\ g[m - 1] \in Nat \ {0}
      BY <2>5
    <2>7. g[m] = h[m] /\ g[m] \in Nat \ {0}
      BY <2>3, <2>4, <2>6
    <2> QED
      BY <2>1, <2>7
  <1> QED
    BY <1>1

\* OneShifted has the powers of two.
LEMMA PowersOfTwo ==
    /\ OneShifted[0] = 1
    /\ \A n \in Nat : OneShifted[n] \in Nat \ {0} /\ OneShifted[n + 1] = 2 * OneShifted[n]
  <1> DEFINE Shifts(f) == f = [n \in Nat |-> IF n = 0 THEN 1 ELSE 2 * f[n - 1]]
             first == [n \in Nat |-> CHOOSE g : Doubles(g, n)]
             f == [n \in Nat |-> first[n][n]]
  <1>1. \A n \in Nat : Doubles(first[n], n)
    BY DoublesExist
  <1> HIDE DEF first
  <1>2. ASSUME NEW n \in Nat, n # 0 PROVE f[n] = 2 * f[n - 1]
    <2>1. n - 1 \in Nat /\ n \in 0 .. n /\ n - 1 <= n /\ n - 1 <= n - 1
      BY <1>2
    <2>2. first[n][n] = 2 * first[n][n - 1]
      BY <1>1, <1>2, <2>1 DEF Doubles
    <2>3. first[n][n - 1] = first[n - 1][n - 1]
      BY <1>1, <2>1, DoublesAgree
    <2> QED
      BY <2>1, <2>2, <2>3
  <1>3. f[0] = 1
    <2>1. first[0][0] = 1
      <3>1. 0 \in Nat /\ 0 \in 0 .. 0
        OBVIOUS
      <3>2. Doubles(first[0], 0)
        BY <1>1, <3>1
      <3> QED
        BY <3>1, <3>2 DEF Doubles
    <2> QED
      BY <2>1
  <1>4. Shifts(f)
    <2>1. f = [n \in Nat |-> f[n]]
      OBVIOUS
    <2>2. \A n \in Nat : f[n] = IF n = 0 THEN 1 ELSE 2 * f[n - 1]
      BY <1>2, <1>3
    <2> HIDE DEF f
    <2> QED
      BY <2>1, <2>2
  <1>5. OneShifted = CHOOSE g : Shifts(g)
    BY DEF OneShifted
  <1> HIDE DEF f
  <1>6. Shifts(OneShifted)
    BY <1>4, <1>5
  <1>7. \A n \in Nat : OneShifted[n] = IF n = 0 THEN 1 ELSE 2 * OneShifted[n - 1]
    BY <1>6
  <1>8. OneShifted[0] = 1 /\ \A n \in Nat : OneShifted[n + 1] = 2 * OneShifted[n]
    <2>1. \A n \in Nat : n + 1 \in Nat /\ n + 1 # 0 /\ (n + 1) - 1 = n
      OBVIOUS
    <2>2. ASSUME NEW n \in Nat PROVE OneShifted[n + 1] = 2 * OneShifted[n]
      <3>1. OneShifted[n + 1] = 2 * OneShifted[(n + 1) - 1]
        BY <1>7, <2>1
      <3> QED
        BY <2>1, <3>1
    <2> QED
      BY <1>7, <2>2
  <1> DEFINE Not == {n \in Nat : OneShifted[n] \notin Nat \ {0}}
  <1>9. ASSUME NEW one \in Not PROVE FALSE
    <2>1. PICK m \in Not : \A n \in Not : m <= n
      <3>1. Not \in SUBSET Nat /\ Not # {}
        BY <1>9
      <3> HIDE DEF Not
      <3> QED
        BY <3>1, LeastOne
    <2>2. m # 0 /\ m - 1 \in Nat /\ m - 1 \notin Not
      BY <1>8, <2>1
    <2>3. OneShifted[m - 1] \in Nat \ {0} /\ OneShifted[m] = 2 * OneShifted[m - 1]
      BY <1>7, <2>2
    <2> QED
      BY <2>1, <2>3
  <1> QED
    BY <1>8, <1>9

\* Half of a quotient is the quotient by the double.
LEMMA HalfQuotient ==
    ASSUME NEW a \in Nat, NEW m \in Nat \ {0}
    PROVE  a \div (2 * m) = (a \div m) \div 2 /\ a \div m \in Nat
  <1> DEFINE q == a \div m
             r == a % m
             p == q \div 2
             s == q % 2
  <1>1. q \in Nat /\ r \in 0 .. m - 1 /\ a = m * q + r
    BY DivMod
  <1> HIDE DEF q, r
  <1>2. p \in Nat /\ s \in 0 .. 1 /\ q = 2 * p + s
    BY <1>1
  <1> HIDE DEF p, s
  <1>3. m * q = (2 * m) * p + m * s
    <2>1. m * q = m * (2 * p + s)
      BY <1>2
    <2> QED
      BY <1>2, <2>1
  <1>4. m * s \in 0 .. m
    <2>1. s = 0 \/ s = 1
      BY <1>2
    <2> QED
      BY <2>1
  <1>5. a = (2 * m) * p + (m * s + r) /\ m * s + r \in 0 .. 2 * m - 1
    <2> DEFINE u == m * s
               v == (2 * m) * p
    <2>1. u \in 0 .. m /\ v \in Nat /\ m * q = v + u
      BY <1>2, <1>3, <1>4
    <2> HIDE DEF u, v
    <2>2. u + r \in 0 .. 2 * m - 1 /\ a = v + (u + r)
      BY <1>1, <2>1
    <2> QED
      BY <2>2 DEF u, v
  <1>6. 2 * m \in Nat \ {0}
    OBVIOUS
  <1>7. a \div (2 * m) = p
    BY <1>2, <1>5, <1>6, QuotientIs
  <1> QED
    BY <1>1, <1>7 DEF p, q

\* Quotients by a power of two that agree go on doing so by the greater ones.
LEMMA QuotientsAgree ==
    ASSUME NEW a \in Nat, NEW b \in Nat, NEW k \in Nat,
           a \div OneShifted[k] = b \div OneShifted[k]
    PROVE  \A i \in Nat : k <= i => a \div OneShifted[i] = b \div OneShifted[i]
  <1> DEFINE Differ == {i \in Nat : k <= i /\ a \div OneShifted[i] # b \div OneShifted[i]}
  <1>1. ASSUME NEW one \in Differ PROVE FALSE
    <2>1. PICK m \in Differ : \A n \in Differ : m <= n
      <3>1. Differ \in SUBSET Nat /\ Differ # {}
        BY <1>1
      <3> HIDE DEF Differ
      <3> QED
        BY <3>1, LeastOne
    <2>2. m # k
      BY <2>1
    <2> DEFINE n == m - 1
    <2>3. n \in Nat /\ k <= n /\ n + 1 = m /\ n \notin Differ
      BY <2>1, <2>2
    <2> HIDE DEF n
    <2>4. a \div OneShifted[n] = b \div OneShifted[n]
      BY <2>3
    <2>5. OneShifted[n] \in Nat \ {0} /\ OneShifted[m] = 2 * OneShifted[n]
      BY <2>3, PowersOfTwo
    <2>6. a \div OneShifted[m] = b \div OneShifted[m]
      <3> DEFINE d == OneShifted[n]
      <3>1. d \in Nat \ {0} /\ OneShifted[m] = 2 * d /\ a \div d = b \div d
        BY <2>4, <2>5
      <3> HIDE DEF d
      <3>2. a \div (2 * d) = (a \div d) \div 2 /\ b \div (2 * d) = (b \div d) \div 2
        BY <3>1, HalfQuotient
      <3> QED
        BY <3>1, <3>2
    <2> QED
      BY <2>1, <2>6
  <1> QED
    BY <1>1

\* Two numbers that a mask leaves the same are in the same block.
LEMMA SameBlock ==
    ASSUME NEW a \in Nat, NEW b \in Nat, NEW d \in Nat \ {0}, a - (a % d) = b - (b % d)
    PROVE  a \div d = b \div d
  <1> DEFINE p == a \div d
             q == b \div d
  <1>1. p \in Nat /\ q \in Nat /\ a - (a % d) = d * p /\ b - (b % d) = d * q
    OBVIOUS
  <1> HIDE DEF p, q
  <1>2. d * p = d * q
    BY <1>1
  <1>3. p = q
    <2>1. ASSUME NEW u \in Nat, NEW v \in Nat, u < v, d * u = d * v PROVE FALSE
      <3>1. v - u \in Nat \ {0} /\ v = u + (v - u)
        BY <2>1
      <3>2. d * v = d * u + d * (v - u)
        BY <3>1
      <3>3. d * (v - u) \in Nat \ {0} /\ d * u \in Nat
        BY <3>1
      <3> QED
        BY <2>1, <3>2, <3>3
    <2> QED
      BY <1>1, <1>2, <2>1
  <1> QED
    BY <1>3 DEF p, q

\* contains says of two addresses that their first bits are the same.
LEMMA MaskedAgree ==
    ASSUME Width \in Nat, NEW a \in Nat, NEW b \in Nat, NEW prefix \in 0 .. Width,
           Masked(a, prefix) = Masked(b, prefix)
    PROVE  SameFirstBits(a, b, prefix)
  <1>1. CASE prefix = 0
    <2>1. \A i \in Width - prefix .. Width - 1 : FALSE
      BY <1>1
    <2> QED
      BY <2>1 DEF SameFirstBits
  <1>2. CASE prefix # 0
    <2> DEFINE k == Width - prefix
    <2>1. k \in Nat
      OBVIOUS
    <2>2. OneShifted[k] \in Nat \ {0}
      BY <2>1, PowersOfTwo
    <2>3. a - (a % OneShifted[k]) = b - (b % OneShifted[k])
      BY <1>2 DEF Masked
    <2> HIDE DEF k
    <2>4. a \div OneShifted[k] = b \div OneShifted[k]
      BY <2>2, <2>3, SameBlock
    <2>5. \A i \in Nat : k <= i => a \div OneShifted[i] = b \div OneShifted[i]
      BY <2>1, <2>4, QuotientsAgree
    <2>6. \A i \in k .. Width - 1 : i \in Nat /\ k <= i
      BY <2>1
    <2>7. \A i \in k .. Width - 1 : (a \div OneShifted[i]) % 2 = (b \div OneShifted[i]) % 2
      BY <2>5, <2>6
    <2> QED
      BY <2>7 DEF SameFirstBits, k
  <1> QED
    BY <1>1, <1>2

\* An address of version 4 has a number.
Numbered(host) == DOMAIN host = {"v4"} => host.v4 \in Nat

\* Addresses and networks among the settings have numbers.
PlainSetting(words, v) ==
    /\ words \in {Words(Server), Words(Advertised)} => Numbered(v.text.host)
    /\ words = Words(Networks) =>
          \A cidr \in v.list : Numbered(cidr.host) /\ cidr.prefix \in Nat

PlainLayer(layer) == \A s \in DOMAIN layer \cap KnownSettings : PlainSetting(Words(s), layer[s])

\* LoadedIsPrivate's words about one configuration.
Private(config, host) ==
    /\ DOMAIN host = {"v4"}
    /\ \/ host.v4 \in Loopback
       \/ \E cidr \in config[Networks].list :
             /\ DOMAIN cidr.host = {"v4"}
             /\ SameFirstBits(host.v4, cidr.host.v4, cidr.prefix)

AllPrivate(r) ==
    \A config \in r : \A host \in {config[Server].text.host, config[Advertised].text.host} :
        Private(config, host)

\* A host that validate takes for private is private.
LEMMA TakenForPrivate ==
    ASSUME NEW config, NEW host, Numbered(host), DOMAIN host = {"v4"},
           \A cidr \in config[Networks].list : Numbered(cidr.host) /\ cidr.prefix \in Nat,
           IsPrivate(host, UNION {ParseCidr(text) : text \in config[Networks].list})
    PROVE  Private(config, host)
  <1>1. CASE host.v4 \in Loopback
    BY <1>1 DEF Private
  <1>2. CASE host.v4 \notin Loopback
    <2>1. PICK cidr \in config[Networks].list : cidr \in ParseCidr(cidr) /\ InCidr(cidr, host)
      BY <1>2 DEF IsPrivate, ParseCidr
    <2>2. cidr.prefix \in Nat /\ cidr.prefix <= Width
      BY <2>1 DEF ParseCidr
    <2>3. cidr.prefix \in 0 .. Width /\ Width \in Nat
      BY <2>2, SettingsAssumption
    <2>4. /\ DOMAIN cidr.host = {"v4"} /\ cidr.host.v4 \in Nat /\ host.v4 \in Nat
          /\ Masked(host.v4, cidr.prefix) = Masked(cidr.host.v4, cidr.prefix)
      BY <2>1 DEF InCidr, Numbered
    <2>5. SameFirstBits(host.v4, cidr.host.v4, cidr.prefix)
      BY <2>3, <2>4, MaskedAgree
    <2> QED
      BY <2>1, <2>4, <2>5 DEF Private
  <1> QED
    BY <1>1, <1>2

LEMMA KnownOnes == {Server, Advertised, Networks} \subseteq KnownSettings
  BY DEF KnownSettings

\* Whatever the layers are, as long as their addresses have numbers, what loads is
\* private.
LEMMA LoadIsPrivate ==
    ASSUME NEW c, Variables(c.env), NEW r, r = Load(Defaults, c.default, c.local, c.env),
           PlainLayer(Defaults), PlainLayer(c.default), PlainLayer(c.local),
           KnownSettings \subseteq DOMAIN Defaults,
           \A i \in DOMAIN c.env : PlainSetting(c.env[i].words, c.env[i].value),
           NEW config \in r
    PROVE  \A host \in {config[Server].text.host, config[Advertised].text.host} :
              Private(config, host)
  <1>1. Decided(c, r)
    BY LoadDecides
  <1>2. ASSUME NEW s \in KnownSettings PROVE PlainSetting(Words(s), config[s])
    <2> DEFINE N == Naming(c.env, s)
    <2>1. config[s] = IF N # {} THEN c.env[GreatestOf(N)].value
                      ELSE IF s \in DOMAIN c.local THEN c.local[s]
                      ELSE IF s \in DOMAIN c.default THEN c.default[s]
                      ELSE Defaults[s]
      BY <1>1 DEF Decided
    <2>2. ASSUME N # {} PROVE PlainSetting(Words(s), c.env[GreatestOf(N)].value)
      <3>1. N \subseteq DOMAIN c.env /\ N \in SUBSET (1 .. Len(c.env)) /\ Len(c.env) \in Nat
        BY DEF Variables, Naming
      <3>2. \E i \in N : \A j \in N : j <= i
        <4> HIDE DEF N
        <4> QED
          BY <2>2, <3>1, LastOne
      <3>3. GreatestOf(N) \in N
        <4> HIDE DEF N
        <4> QED
          BY <3>2 DEF GreatestOf
      <3>4. c.env[GreatestOf(N)].words = Words(s) /\ GreatestOf(N) \in DOMAIN c.env
        BY <3>3 DEF Naming
      <3> QED
        BY <3>4
    <2> HIDE DEF N
    <2> QED
      BY <2>1, <2>2 DEF PlainLayer
  <1>3. /\ Numbered(config[Server].text.host) /\ Numbered(config[Advertised].text.host)
        /\ \A cidr \in config[Networks].list : Numbered(cidr.host) /\ cidr.prefix \in Nat
    BY <1>2, KnownOnes DEF PlainSetting
  <1>4. ClusterValid(config, UNION {ParseCidr(text) : text \in config[Networks].list})
    BY DEF Load, Valid
  <1>5. \A host \in {config[Server].text.host, config[Advertised].text.host} :
           /\ DOMAIN host = {"v4"}
           /\ IsPrivate(host, UNION {ParseCidr(text) : text \in config[Networks].list})
    BY <1>4 DEF ClusterValid
  <1> QED
    BY <1>3, <1>5, TakenForPrivate

\* The settings that say nothing of addresses.
OtherSettings == KnownSettings \ {Server, Advertised, Networks}

LEMMA TheOthers ==
    OtherSettings = {MediaPort, SignalingPort, ClusterPort, HealthPort, Heartbeat, RequestTimeout,
                     Role, NodeId, BindHost, ClusterId, UnhealthyMisses, FailoverTarget,
                     JoinTarget, LogLevel}
  <1> DEFINE Field(s) == s[2]
  <1>1. \A s \in {Server, Advertised, Networks},
           t \in {MediaPort, SignalingPort, ClusterPort, HealthPort, Heartbeat, RequestTimeout,
                  Role, NodeId, BindHost, ClusterId, UnhealthyMisses, FailoverTarget,
                  JoinTarget, LogLevel} : s # t
    BY DEF Server, Advertised, Networks, MediaPort, SignalingPort, ClusterPort, HealthPort,
           Heartbeat, RequestTimeout, Role, NodeId, BindHost, ClusterId, UnhealthyMisses,
           FailoverTarget, JoinTarget, LogLevel
  <1> QED
    BY <1>1, Zenon DEF OtherSettings, KnownSettings

\* Two settings with one name are one.
LEMMA OneName ==
    ASSUME NEW s \in KnownSettings, NEW t \in KnownSettings, Words(s) = Words(t) PROVE s = t
  <1>1. Setting(Words(s)) = s /\ Setting(Words(t)) = t
    BY SettingsAreSettings, SettingOfWords
  <1> QED
    BY <1>1

LEMMA OthersPlain == ASSUME NEW s \in OtherSettings, NEW v PROVE PlainSetting(Words(s), v)
  <1>1. \A t \in {Server, Advertised, Networks} : Words(s) # Words(t)
    BY OneName, KnownOnes DEF OtherSettings
  <1> QED
    BY <1>1 DEF PlainSetting

\* Names that no setting has are not those of addresses.
LEMMA OddPlain ==
    ASSUME NEW w \in {<<"network", "cidrs", "0">>, <<"network">>}, NEW v PROVE PlainSetting(w, v)
  <1>1. Len(w) # 2 /\ Len(w) > 0 /\ Head(w) = "network" /\ Len(Tail(w)) = Len(w) - 1 /\ Len(w) \in Nat
    OBVIOUS
  <1>2. ASSUME NEW s \in KnownSettings, w = Words(s) PROVE s = <<Head(w), Tail(w)>>
    BY <1>2, SettingsAreSettings, SettingOfWords DEF Setting
  <1>3. w # Words(Server) /\ w # Words(Advertised)
    <2>1. \A v1, v2, v3, v4 : <<v1, v2>> = <<v3, v4>> => v1 = v3
      OBVIOUS
    <2>2. "network" # "cluster"
      OBVIOUS
    <2> QED
      BY <1>1, <1>2, <2>1, <2>2, KnownOnes DEF Server, Advertised
  <1>4. w # Words(Networks)
    <2>1. \A v1, v2, v3, v4 : <<v1, v2>> = <<v3, v4>> => v2 = v4
      OBVIOUS
    <2>2. w = Words(Networks) => Tail(w) = <<"cidrs">>
      BY <1>2, <2>1, KnownOnes DEF Networks
    <2>3. Len(<<"cidrs">>) = 1
      OBVIOUS
    <2>4. w = Words(Networks) => Len(Tail(w)) = 1
      BY <2>2, <2>3, Zenon
    <2> QED
      BY <1>1, <2>4
  <1> QED
    BY <1>3, <1>4 DEF PlainSetting

\* The defaults' addresses have numbers.
LEMMA DefaultsPlain == PlainLayer(Defaults) /\ DOMAIN Defaults = KnownSettings
  <1> DEFINE D == ClusterDefaults
  <1>1. DOMAIN Defaults = KnownSettings
    BY DEF Defaults, Over
  <1>2. Server # MediaPort /\ Server # SignalingPort /\ Server # Networks /\ Server # BindHost
        /\ Server # LogLevel
    BY DEF Server, MediaPort, SignalingPort, Networks, BindHost, LogLevel
  <1>3. Advertised # MediaPort /\ Advertised # SignalingPort /\ Advertised # Networks
        /\ Advertised # BindHost /\ Advertised # LogLevel /\ Advertised # Server
    BY DEF Server, Advertised, MediaPort, SignalingPort, Networks, BindHost, LogLevel
  <1>4. Networks # MediaPort /\ Networks # SignalingPort
    BY DEF Networks, MediaPort, SignalingPort
  <1>5. \A s \in {Server, Advertised} : Defaults[s] = ClusterDefaults[s]
    BY <1>2, <1>3, KnownOnes DEF Defaults, Over, MediaDefaults, NetworkDefaults, LoggingDefaults
  <1>6. Defaults[Networks] = NetworkDefaults[Networks]
    BY <1>4, KnownOnes DEF Defaults, Over, MediaDefaults, NetworkDefaults
  <1>14. ASSUME NEW s \in {Server, Advertised}
        PROVE  s \notin {ClusterPort, HealthPort, ClusterId, NodeId, Role, Heartbeat,
                         UnhealthyMisses, FailoverTarget, JoinTarget, RequestTimeout}
    BY TheOthers DEF OtherSettings
  <1> DEFINE first == CHOOSE a \in Loopback : TRUE
  <1>7. ClusterDefaults[Server] = [text |-> [host |-> [v4 |-> first]]]
    <2> HIDE DEF first
    <2>1. Server \in {Server, Advertised}
      OBVIOUS
    <2> QED
      BY <1>3, <1>14 DEF ClusterDefaults, first
  <1>8. ClusterDefaults[Advertised] = [text |-> [host |-> [v4 |-> 1], colon |-> TRUE]]
    BY <1>3, <1>14 DEF ClusterDefaults
  <1>9. NetworkDefaults[Networks] = [list |-> {[host |-> [v4 |-> 0], prefix |-> Width - 1]}]
    BY DEF NetworkDefaults
  <1>10. Numbered(Defaults[Server].text.host)
    <2>1. first \in Nat
      BY SettingsAssumption
    <2> HIDE DEF first
    <2>2. Defaults[Server].text.host.v4 \in Nat
      BY <1>5, <1>7, <2>1
    <2> QED
      BY <2>2 DEF Numbered
  <1>11. Numbered(Defaults[Advertised].text.host)
    BY <1>5, <1>8 DEF Numbered
  <1>12. \A cidr \in Defaults[Networks].list : Numbered(cidr.host) /\ cidr.prefix \in Nat
    BY <1>6, <1>9, SettingsAssumption DEF Numbered
  <1>13. ASSUME NEW s \in KnownSettings PROVE PlainSetting(Words(s), Defaults[s])
    <2>1. CASE s \in OtherSettings
      BY <2>1, OthersPlain
    <2>2. CASE s \notin OtherSettings
      <3>1. s \in {Server, Advertised, Networks}
        BY <2>2 DEF OtherSettings
      <3>2. \A t \in {Server, Advertised, Networks} : Words(s) = Words(t) => s = t
        BY OneName, KnownOnes
      <3> QED
        BY <1>10, <1>11, <1>12, <3>1, <3>2 DEF PlainSetting
    <2> QED
      BY <2>1, <2>2
  <1> QED
    BY <1>1, <1>13 DEF PlainLayer

\* A file that sets one thing.
LEMMA FilePlain ==
    ASSUME NEW change, AreWords(change.words), Len(change.words) > 0,
           PlainSetting(change.words, change.value)
    PROVE  PlainLayer(File(change))
  <1> DEFINE s == Setting(change.words)
  <1>1. File(change) = [x \in {s} |-> change.value]
    BY DEF File, Setting
  <1>2. Words(s) = change.words
    BY WordsOfSetting
  <1> HIDE DEF s
  <1>3. DOMAIN File(change) = {s} /\ File(change)[s] = change.value
    BY <1>1
  <1> QED
    BY <1>2, <1>3 DEF PlainLayer

LEMMA HostsNumbered == \A h \in Hosts : Numbered(h)
  <1> DEFINE V4 == [v4 : 0 .. OneShifted[Width] - 1]
  <1>1. OneShifted[Width] \in Nat
    BY PowersOfTwo, SettingsAssumption
  <1>2. \A h \in V4 : h.v4 \in Nat
    BY <1>1
  <1>3. \A h \in {[v6 |-> 1], [name |-> "localhost"]} : DOMAIN h # {"v4"}
    OBVIOUS
  <1> QED
    BY <1>2, <1>3 DEF Hosts, Numbered

LEMMA OneOfSets ==
    ASSUME NEW S, NEW V, NEW change \in Sets(S, V)
    PROVE  /\ \E s \in S : change.words = Words(s)
           /\ change.value \in V
  BY DEF Sets, WordsOf

\* The changes that are tried have addresses with numbers.
LEMMA ChangesPlain == \A change \in Changes : PlainSetting(change.words, change.value)
  <1> DEFINE Plain(C) == \A change \in C : PlainSetting(change.words, change.value)
  <1>1. ASSUME NEW S, NEW V, S \subseteq OtherSettings PROVE Plain(Sets(S, V))
    BY <1>1, OneOfSets, OthersPlain
  <1>2. /\ {MediaPort, SignalingPort, HealthPort} \subseteq OtherSettings
        /\ {Heartbeat, RequestTimeout} \subseteq OtherSettings
        /\ {UnhealthyMisses, FailoverTarget, JoinTarget} \subseteq OtherSettings
        /\ {ClusterId, LogLevel} \subseteq OtherSettings /\ {Role} \subseteq OtherSettings
        /\ {NodeId} \subseteq OtherSettings /\ {BindHost} \subseteq OtherSettings
    BY TheOthers, Zenon
  <1>3. Plain(Sets({Networks}, [list : {{}}]))
    <2> SUFFICES ASSUME NEW change \in Sets({Networks}, [list : {{}}])
                 PROVE  PlainSetting(change.words, change.value)
      OBVIOUS
    <2>1. change.words = Words(Networks) /\ change.value.list = {}
      <3> DEFINE V == [list : {{}}]
      <3>1. \A v \in V : v.list = {}
        OBVIOUS
      <3> HIDE DEF V
      <3>2. change \in Sets({Networks}, V)
        BY DEF V
      <3>3. (\E s \in {Networks} : change.words = Words(s)) /\ change.value \in V
        BY <3>2, OneOfSets
      <3> QED
        BY <3>1, <3>3
    <2>2. Words(Networks) # Words(Server) /\ Words(Networks) # Words(Advertised)
      <3>1. Networks # Server /\ Networks # Advertised
        BY DEF Networks, Server, Advertised
      <3> QED
        BY <3>1, OneName, KnownOnes
    <2> QED
      BY <2>1, <2>2 DEF PlainSetting
  <1>4. Plain(Misnamed)
    <2> DEFINE Odd == {<<"network", "cidrs", "0">>, <<"network">>}
               V == [text : {"0.0.0.0"}]
    <2>1. \A w \in Odd : \A v : PlainSetting(w, v)
      BY OddPlain
    <2>2. Misnamed = [words : Odd, value : V]
      BY DEF Misnamed
    <2> HIDE DEF Odd, V
    <2> QED
      BY <2>1, <2>2
  <1> HIDE DEF Plain
  <1>5. Plain(NumberChanges)
    <2>1. \A A, B, C : Plain(A) /\ Plain(B) /\ Plain(C) => Plain(A \cup B \cup C)
      BY DEF Plain
    <2> DEFINE A == Sets({MediaPort, SignalingPort, HealthPort}, [number : {0, 8080, 8090}])
               B == Sets({Heartbeat, RequestTimeout}, [number : {0, 4}])
               C == Sets({UnhealthyMisses, FailoverTarget, JoinTarget}, [number : {0}])
    <2>2. Plain(A) /\ Plain(B) /\ Plain(C)
      BY <1>1, <1>2
    <2>3. NumberChanges = A \cup B \cup C
      BY DEF NumberChanges
    <2> HIDE DEF A, B, C
    <2> QED
      BY <2>1, <2>2, <2>3, Zenon
  <1>6. Plain(TextChanges)
    <2>1. \A A, B, C : Plain(A) /\ Plain(B) /\ Plain(C) => Plain(A \cup B \cup C)
      BY DEF Plain
    <2> QED
      BY <1>1, <1>2, <2>1, Zenon DEF TextChanges
  <1>7. Plain(OtherChanges)
    <2>1. \A A, B : Plain(A) /\ Plain(B) => Plain(A \cup B)
      BY DEF Plain
    <2> QED
      BY <1>1, <1>2, <1>3, <2>1, Zenon DEF OtherChanges
  <1> QED
    BY <1>4, <1>5, <1>6, <1>7 DEF Changes, Plain

LEMMA ToldPlain ==
    \A change \in Sets({Advertised}, [text : [host : Hosts, colon : BOOLEAN]]) :
        PlainSetting(change.words, change.value)
  <1> DEFINE V == [text : [host : Hosts, colon : BOOLEAN]]
  <1>1. ASSUME NEW v \in V PROVE Numbered(v.text.host)
    <2>1. v.text \in [host : Hosts, colon : BOOLEAN]
      OBVIOUS
    <2>2. v.text.host \in Hosts
      BY <2>1
    <2> QED
      BY <2>2, HostsNumbered
  <1> HIDE DEF V
  <1> SUFFICES ASSUME NEW change \in Sets({Advertised}, V)
               PROVE  PlainSetting(change.words, change.value)
    BY DEF V
  <1>2. change.words = Words(Advertised) /\ change.value \in V
    <2>1. (\E s \in {Advertised} : change.words = Words(s)) /\ change.value \in V
      BY OneOfSets
    <2> QED
      BY <2>1
  <1>3. Words(Networks) # Words(Advertised)
    <2>1. Networks # Advertised
      BY DEF Networks, Advertised
    <2> QED
      BY <2>1, OneName, KnownOnes
  <1> QED
    BY <1>1, <1>2, <1>3 DEF PlainSetting

\* The files that are tried are plain.
LEMMA FilesPlain == \A file \in Files : PlainLayer(file)
  <1>1. PlainLayer(<<>>)
    BY DEF PlainLayer
  <1>2. \A change \in Changes : PlainLayer(File(change))
    BY ChangesPlain, ChangeNames, FilePlain
  <1> QED
    BY <1>1, <1>2 DEF Files

LEMMA NetworkFilesPlain ==
    \A cidr \in Cidrs : PlainLayer(File([words |-> Words(Networks), value |-> [list |-> {cidr}]]))
  <1> SUFFICES ASSUME NEW cidr \in Cidrs
               PROVE  PlainLayer(File([words |-> Words(Networks), value |-> [list |-> {cidr}]]))
    OBVIOUS
  <1> DEFINE change == [words |-> Words(Networks), value |-> [list |-> {cidr}]]
  <1>1. Numbered(cidr.host) /\ cidr.prefix \in Nat
    <2>1. cidr.host \in Hosts /\ cidr.prefix \in 0 .. Width + 1
      BY DEF Cidrs
    <2> QED
      BY <2>1, HostsNumbered, SettingsAssumption
  <1>2. change.words = Words(Networks) /\ change.value.list = {cidr}
    OBVIOUS
  <1>3. AreWords(Words(Networks)) /\ Len(Words(Networks)) > 0
    BY ChangesAreVariables, KnownOnes DEF WordsOf
  <1> HIDE DEF change
  <1>4. Words(Networks) # Words(Server) /\ Words(Networks) # Words(Advertised)
    <2>1. Networks # Server /\ Networks # Advertised
      BY DEF Networks, Server, Advertised
    <2> QED
      BY <2>1, OneName, KnownOnes
  <1>5. PlainSetting(change.words, change.value)
    BY <1>1, <1>2, <1>4 DEF PlainSetting
  <1>6. PlainLayer(File(change))
    BY <1>2, <1>3, <1>5, FilePlain
  <1> QED
    BY <1>6 DEF change

LEMMA ServerFilesPlain ==
    \A h \in Hosts : PlainLayer(File([words |-> Words(Server), value |-> [text |-> [host |-> h]]]))
  <1> SUFFICES ASSUME NEW h \in Hosts
               PROVE  PlainLayer(File([words |-> Words(Server), value |-> [text |-> [host |-> h]]]))
    OBVIOUS
  <1> DEFINE change == [words |-> Words(Server), value |-> [text |-> [host |-> h]]]
  <1>1. change.words = Words(Server) /\ change.value.text.host = h
    OBVIOUS
  <1>2. AreWords(Words(Server)) /\ Len(Words(Server)) > 0
    BY ChangesAreVariables, KnownOnes DEF WordsOf
  <1> HIDE DEF change
  <1>3. Words(Networks) # Words(Server)
    <2>1. Networks # Server
      BY DEF Networks, Server
    <2> QED
      BY <2>1, OneName, KnownOnes
  <1>4. PlainSetting(change.words, change.value)
    BY <1>1, <1>3, HostsNumbered DEF PlainSetting
  <1>5. PlainLayer(File(change))
    BY <1>1, <1>2, <1>4, FilePlain
  <1> QED
    BY <1>5 DEF change

LEMMA CallLayersPlain ==
    ASSUME NEW c \in SettingsCalls
    PROVE  /\ PlainLayer(c.default) /\ PlainLayer(c.local)
           /\ \A i \in DOMAIN c.env : PlainSetting(c.env[i].words, c.env[i].value)
  <1> DEFINE Told == Sets({Advertised}, [text : [host : Hosts, colon : BOOLEAN]])
             Plain(C) == \A change \in C : PlainSetting(change.words, change.value)
             NetworkFiles == {File([words |-> Words(Networks), value |-> [list |-> {cidr}]]) :
                                 cidr \in Cidrs}
             ServerFiles == {File([words |-> Words(Server), value |-> [text |-> [host |-> h]]]) :
                                h \in Hosts}
             One == {<<>>} \cup {<<change>> : change \in Changes}
             Two == Changes \X Changes
             Three == {<<change>> : change \in Told}
             C == Changes \cup Told
  <1>1. \A D, L, E : \A x \in [fn : {"load_from"}, default : D, local : L, env : E] :
           x.default \in D /\ x.local \in L /\ x.env \in E
    OBVIOUS
  <1>2. /\ c.default \in Files \cup {<<>>} \cup NetworkFiles
        /\ c.local \in Files \cup {<<>>} \cup ServerFiles
        /\ c.env \in One \cup Two \cup Three
    <2> DEFINE A == [fn : {"load_from"}, default : Files, local : Files, env : One]
               B == [fn : {"load_from"}, default : {<<>>}, local : {<<>>}, env : Two]
               G == [fn : {"load_from"}, default : NetworkFiles, local : ServerFiles, env : Three]
    <2>1. c \in A \/ c \in B \/ c \in G
      BY Zenon DEF SettingsCalls
    <2> HIDE DEF One, Two, Three, NetworkFiles, ServerFiles
    <2>2. c \in A => c.default \in Files /\ c.local \in Files /\ c.env \in One
      BY <1>1, Zenon
    <2>3. c \in B => c.default \in {<<>>} /\ c.local \in {<<>>} /\ c.env \in Two
      BY <1>1, Zenon
    <2>4. c \in G => c.default \in NetworkFiles /\ c.local \in ServerFiles /\ c.env \in Three
      BY <1>1, Zenon
    <2> HIDE DEF A, B, G
    <2> QED
      BY <2>1, <2>2, <2>3, <2>4
  <1>3. Plain(C)
    BY ChangesPlain, ToldPlain
  <1>4. \A f \in Files \cup {<<>>} \cup NetworkFiles \cup ServerFiles : PlainLayer(f)
    <2>1. PlainLayer(<<>>)
      BY DEF PlainLayer
    <2> QED
      BY <2>1, FilesPlain, NetworkFilesPlain, ServerFilesPlain
  <1> HIDE DEF NetworkFiles, ServerFiles, Told, Plain
  <1>5. \/ c.env = <<>> \/ \E x \in C : c.env = <<x>>
        \/ \E x \in C, y \in C : c.env = <<x, y>>
    BY <1>2
  <1> HIDE DEF C
  <1>6. ASSUME NEW i \in DOMAIN c.env PROVE c.env[i] \in C
    <2>1. CASE c.env = <<>>
      BY <1>6, <2>1
    <2>2. CASE \E x \in C : c.env = <<x>>
      BY <1>6, <2>2, ShortLists
    <2>3. CASE \E x \in C, y \in C : c.env = <<x, y>>
      BY <1>6, <2>3, ShortLists
    <2> QED
      BY <1>5, <2>1, <2>2, <2>3
  <1>7. \A i \in DOMAIN c.env : PlainSetting(c.env[i].words, c.env[i].value)
    BY <1>3, <1>6 DEF Plain
  <1> QED
    BY <1>2, <1>4, <1>7

------------------------------------------------------------------------------
(* Whom a message reaches.                                                  *)

\* Covers, for any token in the place of the star.
CoversWith(star, pattern, subject) ==
    /\ Len(pattern) = Len(subject)
    /\ \A i \in DOMAIN pattern : pattern[i] \in {star, subject[i]}

LEMMA StarCovers == \A p, s : Covers(p, s) <=> CoversWith("*", p, s)
  BY DEF Covers, CoversWith

LEMMA JoinedCovers ==
    ASSUME NEW T, NEW a \in Seq(T), NEW b \in Seq(T), NEW c \in Seq(T), NEW d \in Seq(T),
           NEW star, Len(a) = Len(c) \/ Len(b) = Len(d)
    PROVE  CoversWith(star, a \o b, c \o d) <=> CoversWith(star, a, c) /\ CoversWith(star, b, d)
  <1>1. /\ Len(a) \in Nat /\ Len(b) \in Nat /\ Len(c) \in Nat /\ Len(d) \in Nat
        /\ Len(a \o b) = Len(a) + Len(b) /\ Len(c \o d) = Len(c) + Len(d)
    OBVIOUS
  <1>2. Len(a \o b) = Len(c \o d) <=> Len(a) = Len(c) /\ Len(b) = Len(d)
    BY <1>1
  <1>3. /\ DOMAIN a = 1 .. Len(a) /\ DOMAIN b = 1 .. Len(b)
        /\ DOMAIN (a \o b) = 1 .. Len(a) + Len(b)
    BY <1>1
  <1>4. /\ \A i \in 1 .. Len(a) : (a \o b)[i] = a[i]
        /\ \A i \in 1 .. Len(c) : (c \o d)[i] = c[i]
        /\ \A i \in 1 .. Len(b) : (a \o b)[i + Len(a)] = b[i]
        /\ \A i \in 1 .. Len(d) : (c \o d)[i + Len(c)] = d[i]
    <2>1. \A i \in 1 .. Len(a) : (a \o b)[i] = a[i]
      BY <1>1
    <2>2. \A i \in 1 .. Len(c) : (c \o d)[i] = c[i]
      BY <1>1
    <2>3. \A i \in 1 .. Len(b) : (a \o b)[i + Len(a)] = b[i]
      BY <1>1
    <2>4. \A i \in 1 .. Len(d) : (c \o d)[i + Len(c)] = d[i]
      BY <1>1
    <2> QED
      BY <2>1, <2>2, <2>3, <2>4
  <1>5. \A i \in 1 .. Len(a) + Len(b) : i \in 1 .. Len(a) \/ i - Len(a) \in 1 .. Len(b)
    BY <1>1
  <1>6. ASSUME CoversWith(star, a \o b, c \o d)
        PROVE  CoversWith(star, a, c) /\ CoversWith(star, b, d)
    <2>1. Len(a) = Len(c) /\ Len(b) = Len(d)
      BY <1>2, <1>6 DEF CoversWith
    <2>2. \A i \in 1 .. Len(a) : a[i] \in {star, c[i]}
      <3>1. \A i \in 1 .. Len(a) : i \in 1 .. Len(a) + Len(b)
        BY <1>1
      <3> QED
        BY <1>3, <1>4, <1>6, <2>1, <3>1 DEF CoversWith
    <2>3. \A i \in 1 .. Len(b) : b[i] \in {star, d[i]}
      <3>1. \A i \in 1 .. Len(b) : i + Len(a) \in 1 .. Len(a) + Len(b)
        BY <1>1
      <3> QED
        BY <1>3, <1>4, <1>6, <2>1, <3>1 DEF CoversWith
    <2> QED
      BY <1>3, <2>1, <2>2, <2>3 DEF CoversWith
  <1>7. ASSUME CoversWith(star, a, c), CoversWith(star, b, d)
        PROVE  CoversWith(star, a \o b, c \o d)
    <2>1. Len(a) = Len(c) /\ Len(b) = Len(d) /\ Len(a \o b) = Len(c \o d)
      BY <1>2, <1>7 DEF CoversWith
    <2>2. ASSUME NEW i \in 1 .. Len(a) + Len(b) PROVE (a \o b)[i] \in {star, (c \o d)[i]}
      <3>1. CASE i \in 1 .. Len(a)
        BY <1>3, <1>4, <1>7, <2>1, <3>1 DEF CoversWith
      <3>2. CASE i - Len(a) \in 1 .. Len(b)
        <4> DEFINE j == i - Len(a)
        <4>1. j \in 1 .. Len(b) /\ j + Len(a) = i
          BY <1>1, <3>2
        <4> HIDE DEF j
        <4>2. (a \o b)[i] = b[j] /\ (c \o d)[i] = d[j]
          BY <1>4, <2>1, <4>1
        <4> QED
          BY <1>3, <1>7, <4>1, <4>2 DEF CoversWith
      <3> QED
        BY <1>5, <3>1, <3>2
    <2> QED
      BY <1>3, <2>1, <2>2 DEF CoversWith
  <1> QED
    BY <1>6, <1>7

LEMMA PlainCovers ==
    ASSUME NEW T, NEW p \in Seq(T), NEW q \in Seq(T), NEW star, \A i \in DOMAIN p : p[i] # star
    PROVE  CoversWith(star, p, q) <=> p = q
  <1>1. CoversWith(star, p, q) => p = q
    <2> SUFFICES ASSUME CoversWith(star, p, q) PROVE p = q
      OBVIOUS
    <2>1. Len(p) = Len(q) /\ \A i \in 1 .. Len(p) : p[i] = q[i]
      BY DEF CoversWith
    <2> QED
      BY <2>1
  <1>2. p = q => CoversWith(star, p, q)
    BY DEF CoversWith
  <1> QED
    BY <1>1, <1>2

\* Ids over T, and the tokens of the cluster's subjects, are no stars.
IsName(s, T) == s \in Seq(T) /\ \A i \in DOMAIN s : s[i] # "*"

Tokens == {"qm", "hb", "room", "snapshot", "route", "new", "migrate", "req", "*"}

LEMMA OneToken ==
    \A T, e : \A x \in T : x # e => <<x>> \in Seq(T) /\ \A i \in DOMAIN <<x>> : <<x>>[i] # e
  <1> SUFFICES ASSUME NEW T, NEW e, NEW x \in T, x # e
               PROVE  <<x>> \in Seq(T) /\ \A i \in DOMAIN <<x>> : <<x>>[i] # e
    OBVIOUS
  <1>1. <<x>> \in Seq(T)
    OBVIOUS
  <1> QED
    BY <1>1, ShortLists

LEMMA TwoTokens ==
    \A T, e : \A x, y \in T : x # e /\ y # e =>
        <<x, y>> \in Seq(T) /\ \A i \in DOMAIN <<x, y>> : <<x, y>>[i] # e
  <1> SUFFICES ASSUME NEW T, NEW e, NEW x \in T, NEW y \in T, x # e, y # e
               PROVE  <<x, y>> \in Seq(T) /\ \A i \in DOMAIN <<x, y>> : <<x, y>>[i] # e
    OBVIOUS
  <1>1. <<x, y>> \in Seq(T)
    OBVIOUS
  <1> QED
    BY <1>1, ShortLists

LEMMA OurTokens ==
    ASSUME NEW T, Tokens \subseteq T
    PROVE  /\ IsName(<<"qm">>, T) /\ IsName(<<"hb">>, T) /\ IsName(<<"room">>, T)
           /\ IsName(<<"snapshot">>, T) /\ IsName(<<"route", "new">>, T)
           /\ IsName(<<"migrate", "req">>, T) /\ Star \in Seq(T)
  <1>1. \A x : x \in T /\ x # "*" => IsName(<<x>>, T)
    BY OneToken, Zenon DEF IsName
  <1>2. \A x, y : x \in T /\ y \in T /\ x # "*" /\ y # "*" => IsName(<<x, y>>, T)
    BY TwoTokens, Zenon DEF IsName
  <1>3. "qm" \in T /\ "qm" # "*" /\ "hb" \in T /\ "hb" # "*"
    BY DEF Tokens
  <1>4. "room" \in T /\ "room" # "*" /\ "snapshot" \in T /\ "snapshot" # "*"
    BY DEF Tokens
  <1>5. "route" \in T /\ "route" # "*" /\ "new" \in T /\ "new" # "*"
    BY DEF Tokens
  <1>6. "migrate" \in T /\ "migrate" # "*" /\ "req" \in T /\ "req" # "*"
    BY DEF Tokens
  <1>7. IsName(<<"qm">>, T) /\ IsName(<<"hb">>, T)
    BY <1>1, <1>3, Zenon
  <1>8. IsName(<<"room">>, T) /\ IsName(<<"snapshot">>, T)
    BY <1>1, <1>4, Zenon
  <1>9. IsName(<<"route", "new">>, T) /\ IsName(<<"migrate", "req">>, T)
    BY <1>2, <1>5, <1>6, Zenon
  <1>10. Star \in Seq(T)
    <2>1. \A x \in T : <<x>> \in Seq(T)
      OBVIOUS
    <2>2. "*" \in T
      BY DEF Tokens
    <2> QED
      BY <2>1, <2>2, Zenon DEF Star
  <1> QED
    BY <1>7, <1>8, <1>9, <1>10

\* A subscription of a cluster covers only the subjects of the cluster.
LEMMA SubjectCovers ==
    ASSUME NEW T, Tokens \subseteq T, NEW c, IsName(c, T), NEW d, IsName(d, T),
           NEW tag, IsName(tag, T)
    PROVE  /\ Covers(SubjectPrefix(c) \o tag, SubjectPrefix(d) \o tag) <=> c = d
           /\ \A x, y \in Seq(T) : Len(x) = Len(y) =>
                (Covers(SubjectPrefix(c) \o tag \o x, SubjectPrefix(d) \o tag \o y)
                    <=> c = d /\ Covers(x, y))
  <1> DEFINE e == "*"
             qm == <<"qm">>
             Named(s) == s \in Seq(T) /\ \A i \in DOMAIN s : s[i] # e
  <1>1. Named(qm) /\ Named(c) /\ Named(d) /\ Named(tag)
    BY OurTokens DEF IsName
  <1>2. \A p, s : Covers(p, s) <=> CoversWith(e, p, s)
    BY StarCovers
  <1>3. SubjectPrefix(c) = qm \o c /\ SubjectPrefix(d) = qm \o d
    BY DEF SubjectPrefix
  <1> HIDE DEF e, qm
  <1>4. \A s : Named(s) => CoversWith(e, s, s)
    BY PlainCovers
  <1>5. CoversWith(e, qm \o c, qm \o d) <=> c = d
    <2>1. CoversWith(e, qm \o c, qm \o d) <=> CoversWith(e, qm, qm) /\ CoversWith(e, c, d)
      BY <1>1, JoinedCovers
    <2> QED
      BY <1>1, <1>4, <2>1, PlainCovers
  <1>6. qm \o c \in Seq(T) /\ qm \o d \in Seq(T)
    BY <1>1
  <1>7. CoversWith(e, qm \o c \o tag, qm \o d \o tag) <=> c = d
    <2>1. CoversWith(e, qm \o c \o tag, qm \o d \o tag)
            <=> CoversWith(e, qm \o c, qm \o d) /\ CoversWith(e, tag, tag)
      BY <1>1, <1>6, JoinedCovers, ZenonT(60)
    <2> QED
      BY <1>1, <1>4, <1>5, <2>1
  <1>8. ASSUME NEW x \in Seq(T), NEW y \in Seq(T), Len(x) = Len(y)
        PROVE  CoversWith(e, qm \o c \o tag \o x, qm \o d \o tag \o y)
                 <=> c = d /\ CoversWith(e, x, y)
    <2>1. qm \o c \o tag \in Seq(T) /\ qm \o d \o tag \in Seq(T)
      BY <1>1, <1>6
    <2> DEFINE p == qm \o c \o tag
               s == qm \o d \o tag
    <2> HIDE DEF p, s
    <2>2. p \in Seq(T) /\ s \in Seq(T)
      BY <2>1 DEF p, s
    <2>3. CoversWith(e, p \o x, s \o y) <=> CoversWith(e, p, s) /\ CoversWith(e, x, y)
      BY <1>8, <2>2, JoinedCovers
    <2> QED
      BY <1>7, <2>3 DEF p, s
  <1> QED
    BY <1>2, <1>3, <1>7, <1>8

\* The task that a message is for, and whether it is for a node.
TaskOf(kind) ==
    CASE kind = "heartbeat" -> "heartbeat_recv_loop"
      [] kind = "route" -> "route_loop"
      [] kind = "migrate" -> "migrate_loop"
      [] kind = "snapshot" -> "snapshot_loop"
      [] kind = "room" -> "room_state_loop"

IsFor(n, kind, sender, about) ==
    n.cluster = sender.cluster /\ (kind = "migrate" => n.id = about)

Messages == {"heartbeat", "route", "migrate", "snapshot", "room"}

LEMMA TasksByKind ==
    ASSUME NEW kind \in Messages
    PROVE  /\ TaskOf(kind) \in Loops /\ Understood(TaskOf(kind)) = kind
           /\ \A loop \in Loops : Understood(loop) = kind => loop = TaskOf(kind)
           /\ TaskOf(kind) \in Queued <=> kind \in {"route", "migrate"}
  <1>1. CASE kind = "heartbeat"
    BY <1>1 DEF TaskOf, Loops, Understood, Queued
  <1>2. CASE kind = "route"
    BY <1>2 DEF TaskOf, Loops, Understood, Queued
  <1>3. CASE kind = "migrate"
    BY <1>3 DEF TaskOf, Loops, Understood, Queued
  <1>4. CASE kind = "snapshot"
    BY <1>4 DEF TaskOf, Loops, Understood, Queued
  <1>5. CASE kind = "room"
    BY <1>5 DEF TaskOf, Loops, Understood, Queued
  <1> QED
    BY <1>1, <1>2, <1>3, <1>4, <1>5 DEF Messages

\* A node whose id is a single token, and so is what the message is about.
IsNode(n, T) ==
    /\ n = [cluster |-> n.cluster, id |-> n.id]
    /\ IsName(n.cluster, T) /\ IsName(n.id, T) /\ Len(n.id) = 1

LEMMA StarIsOneToken ==
    ASSUME NEW T, NEW x \in Seq(T), Len(x) = 1 PROVE Covers(Star, x) /\ Len(Star) = 1
  <1>1. Len(Star) = 1 /\ DOMAIN Star = 1 .. 1 /\ Star[1] = "*"
    BY ShortLists, Zenon DEF Star
  <1> QED
    BY <1>1, ShortLists DEF Covers

LEMMA CoveredIfFor ==
    ASSUME NEW T, Tokens \subseteq T, NEW kind \in Messages, NEW n, IsNode(n, T),
           NEW sender, IsName(sender.cluster, T), IsName(sender.id, T), Len(sender.id) = 1,
           NEW about \in Seq(T), Len(about) = 1
    PROVE  Covers(Subscription(TaskOf(kind), n), Subject(kind, sender, about))
             <=> IsFor(n, kind, sender, about)
  <1> DEFINE c == n.cluster
             d == sender.cluster
  <1>1. /\ IsName(c, T) /\ IsName(d, T) /\ IsName(n.id, T) /\ Len(n.id) = 1
        /\ sender.id \in Seq(T) /\ n.id \in Seq(T)
    BY DEF IsNode, IsName
  <1>2. ASSUME NEW tag, IsName(tag, T)
        PROVE  /\ Covers(SubjectPrefix(c) \o tag, SubjectPrefix(d) \o tag) <=> c = d
               /\ \A x, y \in Seq(T) : Len(x) = Len(y) =>
                    (Covers(SubjectPrefix(c) \o tag \o x, SubjectPrefix(d) \o tag \o y)
                        <=> c = d /\ Covers(x, y))
    BY <1>1, <1>2, SubjectCovers
  <1>3. Star \in Seq(T) /\ Len(Star) = 1 /\ Covers(Star, sender.id) /\ Covers(Star, about)
    BY <1>1, OurTokens, StarIsOneToken
  <1> HIDE DEF c, d
  <1>4. CASE kind = "heartbeat"
    <2>1. /\ Subscription(TaskOf(kind), n) = SubjectPrefix(c) \o <<"hb">> \o Star
          /\ Subject(kind, sender, about) = SubjectPrefix(d) \o <<"hb">> \o sender.id
      BY <1>4 DEF Subscription, TaskOf, Subject, HeartbeatSubject, c, d
    <2>2. IsFor(n, kind, sender, about) <=> c = d
      BY <1>4 DEF IsFor, c, d
    <2>3. IsName(<<"hb">>, T)
      BY OurTokens
    <2>4. Len(Star) = Len(sender.id) /\ sender.id \in Seq(T)
      BY <1>1, <1>3
    <2>5. Covers(SubjectPrefix(c) \o <<"hb">> \o Star, SubjectPrefix(d) \o <<"hb">> \o sender.id)
            <=> c = d /\ Covers(Star, sender.id)
      BY <1>2, <1>3, <2>3, <2>4
    <2> QED
      BY <1>3, <2>1, <2>2, <2>5
  <1>5. CASE kind = "room"
    <2>1. /\ Subscription(TaskOf(kind), n) = SubjectPrefix(c) \o <<"room">> \o Star
          /\ Subject(kind, sender, about) = SubjectPrefix(d) \o <<"room">> \o about
      BY <1>5 DEF Subscription, TaskOf, Subject, RoomSubject, c, d
    <2>2. IsFor(n, kind, sender, about) <=> c = d
      BY <1>5 DEF IsFor, c, d
    <2>3. IsName(<<"room">>, T)
      BY OurTokens
    <2>4. Len(Star) = Len(about) /\ about \in Seq(T)
      BY <1>1, <1>3
    <2>5. Covers(SubjectPrefix(c) \o <<"room">> \o Star, SubjectPrefix(d) \o <<"room">> \o about)
            <=> c = d /\ Covers(Star, about)
      BY <1>2, <1>3, <2>3, <2>4
    <2> QED
      BY <1>3, <2>1, <2>2, <2>5
  <1>6. CASE kind = "snapshot"
    <2>1. /\ Subscription(TaskOf(kind), n) = SubjectPrefix(c) \o <<"room">> \o <<"snapshot">>
          /\ Subject(kind, sender, about) = SubjectPrefix(d) \o <<"room">> \o <<"snapshot">>
      BY <1>6 DEF Subscription, TaskOf, Subject, SnapshotSubject, RoomSubject, c, d
    <2>2. IsFor(n, kind, sender, about) <=> c = d
      BY <1>6 DEF IsFor, c, d
    <2>3. IsName(<<"room">>, T) /\ <<"snapshot">> \in Seq(T)
      BY OurTokens DEF IsName
    <2>4. \A s : Covers(s, s)
      BY DEF Covers
    <2> QED
      BY <1>2, <2>1, <2>2, <2>3, <2>4, Zenon
  <1>7. CASE kind = "route"
    <2>1. /\ Subscription(TaskOf(kind), n) = SubjectPrefix(c) \o <<"route", "new">>
          /\ Subject(kind, sender, about) = SubjectPrefix(d) \o <<"route", "new">>
      BY <1>7 DEF Subscription, TaskOf, Subject, RouteSubject, c, d
    <2>2. IsFor(n, kind, sender, about) <=> c = d
      BY <1>7 DEF IsFor, c, d
    <2>3. IsName(<<"route", "new">>, T)
      BY OurTokens
    <2>4. Covers(SubjectPrefix(c) \o <<"route", "new">>, SubjectPrefix(d) \o <<"route", "new">>)
            <=> c = d
      BY <1>2, <2>3
    <2> QED
      BY <2>1, <2>2, <2>4
  <1>8. CASE kind = "migrate"
    <2>1. /\ Subscription(TaskOf(kind), n) = SubjectPrefix(c) \o <<"migrate", "req">> \o n.id
          /\ Subject(kind, sender, about) = SubjectPrefix(d) \o <<"migrate", "req">> \o about
      BY <1>8 DEF Subscription, TaskOf, Subject, MigrateSubject, c, d
    <2>2. IsFor(n, kind, sender, about) <=> c = d /\ n.id = about
      BY <1>8 DEF IsFor, c, d
    <2>3. IsName(<<"migrate", "req">>, T)
      BY OurTokens
    <2>4. Covers(n.id, about) <=> n.id = about
      BY <1>1, StarCovers, PlainCovers DEF IsName
    <2>5. Covers(SubjectPrefix(c) \o <<"migrate", "req">> \o n.id,
                 SubjectPrefix(d) \o <<"migrate", "req">> \o about)
            <=> c = d /\ Covers(n.id, about)
      BY <1>1, <1>2, <2>3
    <2> QED
      BY <2>1, <2>2, <2>4, <2>5
  <1> QED
    BY <1>4, <1>5, <1>6, <1>7, <1>8 DEF Messages

\* MessagesReachTheirTask's words about one outcome.
Receivers(handled) == {s[1] : s \in handled}

Reached(nodes, c, handled) ==
    LET cluster == {n \in nodes : n.cluster = c.sender.cluster}
    IN  /\ \A s \in handled : Understood(s[2]) = c.kind
        /\ Cardinality(Receivers(handled)) = Cardinality(handled)
        /\ CASE c.kind = "route" ->
                  Receivers(handled) \subseteq cluster /\ Cardinality(Receivers(handled)) = 1
             [] c.kind = "migrate" -> Receivers(handled) = {n \in cluster : n.id = c.about}
             [] OTHER -> Receivers(handled) = cluster

\* Pairs of which the second is always loop are as many as there are first ones.
AllAt(P, loop) == \A s \in P : s = <<s[1], loop>>

LEMMA OneTaskEach ==
    ASSUME NEW P, IsFiniteSet(P), NEW loop, AllAt(P, loop)
    PROVE  Cardinality(Receivers(P)) = Cardinality(P) /\ P = {<<n, loop>> : n \in Receivers(P)}
  <1>0. \A s \in P : s = <<s[1], loop>>
    BY DEF AllAt
  <1>1. P = {<<n, loop>> : n \in Receivers(P)}
    BY <1>0 DEF Receivers
  <1> DEFINE f == [s \in P |-> s[1]]
  <1>2. f \in Bijection(P, Receivers(P))
    <2>1. f \in [P -> Receivers(P)]
      BY DEF Receivers
    <2>2. \A s, t \in P : f[s] = f[t] => s = t
      BY <1>0
    <2>3. \A n \in Receivers(P) : \E s \in P : f[s] = n
      BY DEF Receivers
    <2> QED
      BY <2>1, <2>2, <2>3 DEF Bijection, Injection, Surjection, IsInjective
  <1>3. ExistsBijection(P, Receivers(P))
    BY <1>2 DEF ExistsBijection
  <1>4. Cardinality(P) = Cardinality(Receivers(P))
    BY <1>3, FS_Bijection
  <1> QED
    BY <1>1, <1>4

LEMMA MessageReaches ==
    ASSUME NEW T, Tokens \subseteq T, NEW nodes, IsFiniteSet(nodes), \A n \in nodes : IsNode(n, T),
           NEW c, c.kind \in Messages, IsName(c.sender.cluster, T), IsName(c.sender.id, T),
           Len(c.sender.id) = 1, c.about \in Seq(T), Len(c.about) = 1,
           \E n \in nodes : n.cluster = c.sender.cluster,
           NEW handled \in Handled(nodes, c.kind, c.sender, c.about)
    PROVE  Reached(nodes, c, handled)
  <1> DEFINE loop == TaskOf(c.kind)
             subject == Subject(c.kind, c.sender, c.about)
             covered == {s \in nodes \X Loops : Covers(Subscription(s[2], s[1]), subject)}
             plain == {s \in covered : s[2] \notin Queued}
             members(l) == {s \in covered : s[2] = l}
             For(n) == IsFor(n, c.kind, c.sender, c.about)
             cluster == {n \in nodes : n.cluster = c.sender.cluster}
  <1>1. PICK got \in SUBSET covered :
          /\ handled = {s \in got : Handles(s[2], s[1], c.kind, c.about)}
          /\ plain \subseteq got
          /\ \A l \in Queued :
                Cardinality(got \cap members(l)) = IF members(l) = {} THEN 0 ELSE 1
    BY DEF Handled, Deliveries
  <1>2. /\ loop \in Loops /\ Understood(loop) = c.kind
        /\ \A l \in Loops : Understood(l) = c.kind => l = loop
        /\ loop \in Queued <=> c.kind \in {"route", "migrate"}
    BY TasksByKind
  <1>3. \A n \in nodes : <<n, loop>> \in members(loop) <=> For(n)
    <2>1. \A n \in nodes : Covers(Subscription(loop, n), subject) <=> For(n)
      BY CoveredIfFor
    <2> HIDE DEF loop, subject, For
    <2> QED
      BY <1>2, <2>1
  <1>4. \A s \in covered : s = <<s[1], s[2]>> /\ s[1] \in nodes /\ s[2] \in Loops
    OBVIOUS
  <1>5. members(loop) = {<<n, loop>> : n \in {m \in nodes : For(m)}}
    <2> HIDE DEF loop, subject, For
    <2>1. \A s \in members(loop) : s \in covered /\ s[2] = loop
      OBVIOUS
    <2>2. \A s \in members(loop) : s = <<s[1], loop>> /\ s[1] \in nodes
      BY <1>4, <2>1
    <2> HIDE DEF covered, members
    <2> QED
      BY <1>3, <2>2
  <1>6. \A n : For(n) <=> n.cluster = c.sender.cluster /\ (c.kind = "migrate" => n.id = c.about)
    BY DEF IsFor
  <1> HIDE DEF loop, subject, For
  <1>7. handled = got \cap members(loop)
    <2>1. ASSUME NEW s \in got, Handles(s[2], s[1], c.kind, c.about) PROVE s \in members(loop)
      BY <1>2, <1>4, <2>1 DEF Handles
    <2>2. ASSUME NEW s \in got \cap members(loop) PROVE Handles(s[2], s[1], c.kind, c.about)
      <3>1. s[2] = loop /\ s[1] \in nodes /\ s = <<s[1], s[2]>>
        BY <1>4, <2>2
      <3>2. For(s[1])
        BY <1>3, <2>2, <3>1
      <3> QED
        BY <1>2, <1>6, <3>1, <3>2 DEF Handles
    <2> HIDE DEF members
    <2> QED
      BY <1>1, <2>1, <2>2
  <1>8. \A s \in members(loop) : s = <<s[1], loop>>
    BY <1>5
  <1> HIDE DEF covered, members
  <1>9. IsFiniteSet(members(loop)) /\ IsFiniteSet(handled)
    <2>1. IsFiniteSet({m \in nodes : For(m)})
      BY FS_Subset
    <2> DEFINE S == {m \in nodes : For(m)}
               f == [n \in S |-> <<n, loop>>]
    <2>2. f \in Surjection(S, members(loop))
      BY <1>5 DEF Surjection
    <2>3. IsFiniteSet(members(loop))
      BY <2>1, <2>2, FS_Surjection
    <2> QED
      BY <1>7, <2>3, FS_Subset
  <1>10. /\ Cardinality(Receivers(handled)) = Cardinality(handled)
         /\ handled = {<<n, loop>> : n \in Receivers(handled)}
    <2>1. AllAt(handled, loop)
      BY <1>7, <1>8 DEF AllAt
    <2> QED
      BY <1>9, <2>1, OneTaskEach
  <1>11. Receivers(handled) \subseteq {n \in nodes : For(n)}
    BY <1>5, <1>7 DEF Receivers
  <1>12. handled = members(loop) => Receivers(handled) = {n \in nodes : For(n)}
    <2>1. ASSUME NEW N PROVE Receivers({<<n, loop>> : n \in N}) = N
      <3> DEFINE P == {<<n, loop>> : n \in N}
      <3>1. \A s \in P : s[1] \in N
        OBVIOUS
      <3>2. \A n \in N : <<n, loop>> \in P /\ <<n, loop>>[1] = n
        OBVIOUS
      <3> HIDE DEF P
      <3>3. Receivers(P) = N
        BY <3>1, <3>2 DEF Receivers
      <3> QED
        BY <3>3 DEF P
    <2> QED
      BY <1>5, <2>1
  <1>13. \A s \in handled : Understood(s[2]) = c.kind
    BY <1>2, <1>7, <1>8
  <1>14. CASE c.kind = "route"
    <2>1. members(loop) # {}
      BY <1>5, <1>6, <1>14
    <2>2. Cardinality(handled) = 1
      BY <1>1, <1>2, <1>7, <1>14, <2>1
    <2> QED
      BY <1>6, <1>10, <1>11, <1>13, <1>14, <2>2 DEF Reached
  <1>15. CASE c.kind = "migrate"
    <2>1. Cardinality(handled) = IF members(loop) = {} THEN 0 ELSE 1
      BY <1>1, <1>2, <1>7, <1>15
    <2>2. handled = members(loop)
      <3>1. CASE members(loop) = {}
        BY <1>7, <3>1
      <3>2. CASE members(loop) # {}
        <4>1. handled # {}
          <5>1. Cardinality(handled) = 1 /\ Cardinality({}) = 0 /\ 0 # 1
            BY <2>1, <3>2, FS_EmptySet
          <5> HIDE DEF members
          <5> QED
            BY <5>1
        <4>2. \A s, t \in members(loop) : s = t
          <5>1. \A n, m \in nodes : For(n) /\ For(m) => n = m
            <6> SUFFICES ASSUME NEW n \in nodes, NEW m \in nodes, For(n), For(m) PROVE n = m
              OBVIOUS
            <6>1. n.cluster = m.cluster /\ n.id = m.id
              BY <1>6, <1>15
            <6> QED
              BY <6>1 DEF IsNode
          <5> QED
            BY <1>5, <5>1
        <4> QED
          BY <1>7, <4>1, <4>2
      <3> QED
        BY <3>1, <3>2
    <2>3. Receivers(handled) = {n \in cluster : n.id = c.about}
      BY <1>6, <1>12, <1>15, <2>2
    <2> QED
      BY <1>10, <1>13, <1>15, <2>3 DEF Reached
  <1>16. CASE c.kind \notin {"route", "migrate"}
    <2>1. members(loop) \subseteq got
      BY <1>1, <1>2, <1>16 DEF members
    <2>2. Receivers(handled) = cluster
      BY <1>6, <1>7, <1>12, <1>16, <2>1
    <2> QED
      BY <1>10, <1>13, <1>16, <2>2 DEF Reached
  <1> QED
    BY <1>14, <1>15, <1>16

------------------------------------------------------------------------------
(* The calls of a node.                                                     *)

\* The tokens of the messages that are tried out.
Tried == Tokens \cup {"a", "n", "r"}

LEMMA TriedNames ==
    /\ \A x \in Tried \ {"*"} : IsName(<<x>>, Tried) /\ Len(<<x>>) = 1
    /\ \A x, y \in Tried \ {"*"} : IsName(<<x, y>>, Tried)
  <1>1. \A x \in Tried : x # "*" => IsName(<<x>>, Tried)
    BY OneToken, Zenon DEF IsName
  <1>2. \A x, y \in Tried : x # "*" /\ y # "*" => IsName(<<x, y>>, Tried)
    BY TwoTokens, Zenon DEF IsName
  <1>3. \A x : Len(<<x>>) = 1
    OBVIOUS
  <1> QED
    BY <1>1, <1>2, <1>3, Zenon

Clusters == {<<"a">>, <<"a", "room">>, <<"room">>}
Ids == {<<"n">>, <<"room">>}

LEMMA TriedIds ==
    /\ \A s \in Clusters : IsName(s, Tried)
    /\ \A s \in Ids : IsName(s, Tried) /\ Len(s) = 1
    /\ IsName(<<"n", "a">>, Tried)
    /\ \A s \in {<<"n">>, <<"room">>, <<"snapshot">>, <<"new">>, <<"r", "n">>} : IsName(s, Tried)
  <1> DEFINE P == Tried \ {"*"}
  <1>1. "a" \in P /\ "n" \in P /\ "r" \in P
    BY DEF Tried, Tokens
  <1>2. "room" \in P /\ "snapshot" \in P /\ "new" \in P
    BY DEF Tried, Tokens
  <1> HIDE DEF P
  <1>3. \A x \in P : IsName(<<x>>, Tried) /\ Len(<<x>>) = 1
    BY TriedNames DEF P
  <1>4. \A x, y \in P : IsName(<<x, y>>, Tried)
    BY TriedNames DEF P
  <1>5. /\ IsName(<<"a">>, Tried) /\ IsName(<<"a", "room">>, Tried) /\ IsName(<<"room">>, Tried)
        /\ IsName(<<"n">>, Tried) /\ Len(<<"n">>) = 1 /\ Len(<<"room">>) = 1
    BY <1>1, <1>2, <1>3, <1>4, Zenon
  <1>6. /\ IsName(<<"n", "a">>, Tried) /\ IsName(<<"snapshot">>, Tried)
        /\ IsName(<<"new">>, Tried) /\ IsName(<<"r", "n">>, Tried)
    BY <1>1, <1>2, <1>3, <1>4, Zenon
  <1>7. \A s \in Clusters : IsName(s, Tried)
    BY <1>5, Zenon DEF Clusters
  <1>8. \A s \in Ids : IsName(s, Tried) /\ Len(s) = 1
    BY <1>5, Zenon DEF Ids
  <1> QED
    BY <1>5, <1>6, <1>7, <1>8, Zenon

LEMMA NodesAreNodes ==
    IsFiniteSet(Nodes) /\ \A n \in Nodes : IsNode(n, Tried)
  <1>1. Nodes = [cluster : Clusters, id : Ids]
    BY DEF Nodes, Clusters, Ids
  <1>2. \A n \in Nodes : /\ n = [cluster |-> n.cluster, id |-> n.id]
                         /\ n.cluster \in Clusters /\ n.id \in Ids
    BY <1>1
  <1>3. IsFiniteSet(Clusters) /\ IsFiniteSet(Ids)
    <2>1. \A S, x : IsFiniteSet(S) => IsFiniteSet(S \cup {x})
      BY FS_AddElement
    <2>2. ASSUME NEW a, NEW b PROVE IsFiniteSet({a, b})
      <3> DEFINE S == {a, b}
                 R == {a}
      <3>1. S = R \cup {b} /\ IsFiniteSet(R)
        BY FS_Singleton
      <3> HIDE DEF S, R
      <3>2. IsFiniteSet(S)
        BY <2>1, <3>1
      <3> QED
        BY <3>2 DEF S
    <2>3. ASSUME NEW a, NEW b, NEW c PROVE IsFiniteSet({a, b, c})
      <3> DEFINE S == {a, b, c}
                 R == {a, b}
      <3>1. S = R \cup {c} /\ IsFiniteSet(R)
        BY <2>2
      <3> HIDE DEF S, R
      <3>2. IsFiniteSet(S)
        BY <2>1, <3>1
      <3> QED
        BY <3>2 DEF S
    <2> QED
      BY <2>2, <2>3, Zenon DEF Clusters, Ids
  <1>4. IsFiniteSet(Nodes)
    <2> DEFINE f == [p \in Clusters \X Ids |-> [cluster |-> p[1], id |-> p[2]]]
    <2>1. IsFiniteSet(Clusters \X Ids)
      BY <1>3, FS_Product
    <2>2. f \in Surjection(Clusters \X Ids, Nodes)
      <3>1. f \in [Clusters \X Ids -> Nodes]
        BY <1>1
      <3>2. \A n \in Nodes : \E p \in Clusters \X Ids : f[p] = n
        <4> TAKE n \in Nodes
        <4>1. <<n.cluster, n.id>> \in Clusters \X Ids
          BY <1>2
        <4>2. f[<<n.cluster, n.id>>] = n
          BY <1>2, <4>1
        <4> QED
          BY <4>1, <4>2
      <3> HIDE DEF f
      <3> QED
        BY <3>1, <3>2 DEF Surjection
    <2> QED
      BY <2>1, <2>2, FS_Surjection
  <1>5. \A n \in Nodes : IsNode(n, Tried)
    BY <1>2, TriedIds, Zenon DEF IsNode
  <1> QED
    BY <1>4, <1>5

\* What the answer to a call is to be.
NodeAnsweredWell ==
    \A r \in result :
        /\ call.fn = "load_from" => Decided(call, r) /\ AllPrivate(r)
        /\ (call.fn = "publish" /\ Len(call.sender.id) = 1 /\ Len(call.about) = 1) =>
              \A handled \in r : Reached(Nodes, call, handled)

LEMMA BusCallReaches ==
    ASSUME NEW c \in BusCalls, Len(c.sender.id) = 1, Len(c.about) = 1,
           NEW handled \in Handled(Nodes, c.kind, c.sender, c.about)
    PROVE  Reached(Nodes, c, handled)
  <1>1. c.kind \in Messages
    BY DEF BusCalls, Messages
  <1>2. /\ c.sender \in Nodes \/ c.sender = [cluster |-> <<"a">>, id |-> <<"n", "a">>]
        /\ c.about \in {<<"n">>, <<"room">>, <<"snapshot">>, <<"new">>, <<"r", "n">>}
    BY DEF BusCalls
  <1>3. IsName(c.about, Tried)
    BY <1>2, TriedIds, Zenon
  <1>4. /\ IsName(c.sender.cluster, Tried) /\ IsName(c.sender.id, Tried)
        /\ \E n \in Nodes : n.cluster = c.sender.cluster
    <2>1. CASE c.sender \in Nodes
      <3>1. IsNode(c.sender, Tried)
        BY <2>1, NodesAreNodes
      <3> QED
        BY <2>1, <3>1, Zenon DEF IsNode
    <2>2. CASE c.sender = [cluster |-> <<"a">>, id |-> <<"n", "a">>]
      <3> DEFINE a == <<"a">>
                 i == <<"n", "a">>
                 j == <<"n">>
      <3>1. a \in Clusters /\ IsName(i, Tried) /\ j \in Ids
        BY TriedIds, Zenon DEF Clusters, Ids
      <3>2. Nodes = [cluster : Clusters, id : Ids]
        BY DEF Nodes, Clusters, Ids
      <3> HIDE DEF a, i, j
      <3>3. c.sender.cluster = a /\ c.sender.id = i
        BY <2>2 DEF a, i
      <3>4. [cluster |-> a, id |-> j] \in Nodes /\ [cluster |-> a, id |-> j].cluster = a
        BY <3>1, <3>2
      <3>5. IsName(a, Tried)
        BY <3>1, TriedIds
      <3> QED
        BY <3>1, <3>3, <3>4, <3>5
    <2> QED
      BY <1>2, <2>1, <2>2
  <1>5. Tokens \subseteq Tried
    BY DEF Tried
  <1>6. c.about \in Seq(Tried)
    BY <1>3 DEF IsName
  <1> QED
    BY <1>1, <1>4, <1>5, <1>6, NodesAreNodes, MessageReaches

LEMMA NodeCalledAs ==
    ASSUME NodeInit
    PROVE  /\ call.fn = "load_from" => call \in SettingsCalls
           /\ call.fn = "publish" => call \in BusCalls
  <1>1. CASE call \in SettingsCalls
    <2>1. call.fn = "load_from"
      <3>1. \A D, L, E : \A x \in [fn : {"load_from"}, default : D, local : L, env : E] :
               x.fn = "load_from"
        OBVIOUS
      <3> QED
        BY <1>1, <3>1, Zenon DEF SettingsCalls
    <2> QED
      BY <1>1, <2>1
  <1>2. CASE call \in BusCalls
    <2>1. call.fn = "publish"
      BY <1>2 DEF BusCalls
    <2> QED
      BY <1>2, <2>1
  <1> QED
    BY <1>1, <1>2 DEF NodeInit

LEMMA NodeCallAnswered ==
    ASSUME NodeInit, NodeNext, UNCHANGED call PROVE NodeAnsweredWell'
  <1> SUFFICES ASSUME NEW r \in result'
               PROVE  /\ call.fn = "load_from" => Decided(call, r) /\ AllPrivate(r)
                      /\ (call.fn = "publish" /\ Len(call.sender.id) = 1 /\ Len(call.about) = 1) =>
                            \A handled \in r : Reached(Nodes, call, handled)
    BY DEF NodeAnsweredWell
  <1>1. CASE call.fn = "load_from"
    <2>1. r = Load(Defaults, call.default, call.local, call.env)
      BY <1>1 DEF NodeNext
    <2>2. Variables(call.env)
      BY <1>1, NodeCalledAs, CallVariables
    <2>3. Decided(call, r)
      BY <2>1, <2>2, LoadDecides
    <2>4. /\ PlainLayer(call.default) /\ PlainLayer(call.local)
          /\ \A i \in DOMAIN call.env : PlainSetting(call.env[i].words, call.env[i].value)
      BY <1>1, NodeCalledAs, CallLayersPlain
    <2>5. AllPrivate(r)
      BY <2>1, <2>2, <2>4, DefaultsPlain, LoadIsPrivate DEF AllPrivate
    <2> QED
      BY <1>1, <2>3, <2>5
  <1>2. CASE call.fn = "publish"
    <2>1. r = Handled(Nodes, call.kind, call.sender, call.about) /\ call \in BusCalls
      BY <1>2, NodeCalledAs DEF NodeNext
    <2> QED
      BY <1>2, <2>1, BusCallReaches
  <1> QED
    BY <1>1, <1>2
==============================================================================
