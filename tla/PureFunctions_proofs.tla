------------------------- MODULE PureFunctions_proofs -------------------------
(***************************************************************************)
(* What every call of a pure function returns, for every value of the      *)
(* constants: the lemmas about the media path, and, with those of          *)
(* Calls_proofs, a theorem for each property of PureFunctions.             *)
(***************************************************************************)
EXTENDS Calls_proofs, PureFunctions

------------------------------------------------------------------------------
(* Recursive functions over 0 .. m, and what holds all along them.         *)

\* What holds of 0, and of each number up to m after the one before it.
LEMMA UpTo ==
    ASSUME NEW m \in Nat, NEW G, 0 \in G, \A n \in 1 .. m : n - 1 \in G => n \in G
    PROVE  \A n \in 0 .. m : n \in G
  <1> DEFINE Bad == {n \in Nat : n <= m /\ n \notin G}
  <1>1. ASSUME NEW one \in Bad PROVE FALSE
    <2>1. PICK n \in Bad : \A l \in Bad : n <= l
      <3>1. Bad \in SUBSET Nat /\ Bad # {}
        BY <1>1
      <3> HIDE DEF Bad
      <3> QED
        BY <3>1, LeastOne
    <2>2. n \in Nat /\ n <= m /\ n \notin G
      BY <2>1
    <2>3. n # 0
      BY <2>2
    <2>4. n \in 1 .. m /\ n - 1 \in Nat /\ n - 1 <= m /\ n - 1 < n
      BY <2>2, <2>3
    <2>5. n - 1 \notin G
      BY <2>2, <2>4
    <2>6. n - 1 \in Bad
      BY <2>4, <2>5
    <2>7. n <= n - 1
      BY <2>1, <2>6
    <2> QED
      BY <2>2, <2>7
  <1> QED
    BY <1>1

\* g is the function that starts with a and takes the steps: what the definition of
\* a recursive function chooses.
Follows(g, a, m, step) ==
    g = [n \in 0 .. m |-> IF n = 0 THEN a ELSE step[n][g[n - 1]]]

LEMMA FollowsExists ==
    ASSUME NEW X, NEW a \in X, NEW m \in Nat, NEW step, AreSteps(step, X, m)
    PROVE  \E g : Follows(g, a, m, step)
  <1>1. PICK f : Leads(f, X, a, m, step)
    BY StepsLead
  <1>2. f = [n \in 0 .. m |-> f[n]] /\ f[0] = a /\ \A n \in 1 .. m : f[n] = step[n][f[n - 1]]
    BY <1>1 DEF Leads
  <1>3. ASSUME NEW n \in 0 .. m PROVE f[n] = IF n = 0 THEN a ELSE step[n][f[n - 1]]
    <2>1. n = 0 \/ n \in 1 .. m
      OBVIOUS
    <2> QED
      BY <1>2, <2>1
  <1>4. Follows(f, a, m, step)
    BY <1>2, <1>3 DEF Follows
  <1> QED
    BY <1>4

LEMMA FollowsLeads ==
    ASSUME NEW X, NEW a \in X, NEW m \in Nat, NEW step, AreSteps(step, X, m),
           NEW g, Follows(g, a, m, step)
    PROVE  Leads(g, X, a, m, step)
  <1>1. \A n \in 0 .. m : g[n] = IF n = 0 THEN a ELSE step[n][g[n - 1]]
    BY DEF Follows
  <1>2. g[0] = a /\ \A n \in 1 .. m : g[n] = step[n][g[n - 1]]
    <2>1. 0 \in 0 .. m /\ \A n \in 1 .. m : n \in 0 .. m /\ n # 0
      OBVIOUS
    <2> QED
      BY <1>1, <2>1
  <1> DEFINE G == {n \in 0 .. m : g[n] \in X}
  <1>3. 0 \in G
    BY <1>2
  <1>4. ASSUME NEW n \in 1 .. m, n - 1 \in G PROVE n \in G
    <2>1. step[n] \in [X -> X] /\ g[n - 1] \in X
      BY <1>4 DEF AreSteps
    <2>2. g[n] \in X
      BY <1>2, <2>1
    <2> QED
      BY <2>2
  <1>5. \A n \in 0 .. m : n \in G
    <2> HIDE DEF G
    <2> QED
      BY <1>3, <1>4, UpTo
  <1>6. g \in [0 .. m -> X]
    BY <1>5 DEF Follows
  <1> QED
    BY <1>2, <1>6 DEF Leads

\* Two functions that take the same steps from the same start are the same.
LEMMA LeadsOnce ==
    ASSUME NEW X, NEW a \in X, NEW m \in Nat, NEW step, NEW f, NEW g,
           Leads(f, X, a, m, step), Leads(g, X, a, m, step)
    PROVE  \A n \in 0 .. m : f[n] = g[n]
  <1> DEFINE G == {n \in 0 .. m : f[n] = g[n]}
  <1>1. 0 \in G
    BY DEF Leads
  <1>2. ASSUME NEW n \in 1 .. m, n - 1 \in G PROVE n \in G
    BY <1>2 DEF Leads
  <1>3. \A n \in 0 .. m : n \in G
    <2> HIDE DEF G
    <2> QED
      BY <1>1, <1>2, UpTo
  <1> QED
    BY <1>3

------------------------------------------------------------------------------
(* Exclusive or: no two numbers of so many bits have all bits the same.    *)

LEMMA BitType == ASSUME NEW a \in Nat, NEW i \in Nat PROVE BitOf(a, i) \in 0 .. 1
  <1>1. a \div OneShifted[i] \in Nat
    BY PowersOfTwo, DivMod
  <1> QED
    BY <1>1 DEF BitOf

\* Numbers that have the same bits are the same.
LEMMA BitsDecide ==
    ASSUME NEW bits \in Nat, NEW a \in 0 .. OneShifted[bits] - 1,
           NEW c \in 0 .. OneShifted[bits] - 1,
           \A i \in 0 .. bits - 1 : BitOf(a, i) = BitOf(c, i)
    PROVE  a = c
  <1>0. OneShifted[bits] \in Nat \ {0}
    BY PowersOfTwo
  <1>1. a \in Nat /\ c \in Nat
    BY <1>0
  <1> DEFINE G == {k \in 0 .. bits : a \div OneShifted[bits - k] = c \div OneShifted[bits - k]}
  <1>2. 0 \in G
    <2> DEFINE d == OneShifted[bits]
    <2>1. d \in Nat \ {0} /\ a \in 0 .. d - 1 /\ c \in 0 .. d - 1
      BY <1>0
    <2> HIDE DEF d
    <2>2. a = d * 0 + a /\ c = d * 0 + c
      BY <2>1
    <2>3. a \div d = 0 /\ c \div d = 0
      BY <2>1, <2>2, QuotientIs
    <2>4. a \div OneShifted[bits - 0] = c \div OneShifted[bits - 0]
      BY <2>3 DEF d
    <2> QED
      BY <2>4
  <1>3. ASSUME NEW k \in 1 .. bits, k - 1 \in G PROVE k \in G
    <2> DEFINE i == bits - k
               d == OneShifted[i]
    <2>1. i \in Nat /\ i \in 0 .. bits - 1 /\ bits - (k - 1) = i + 1
      OBVIOUS
    <2>2. a \div OneShifted[i + 1] = c \div OneShifted[i + 1]
      BY <1>3, <2>1
    <2> HIDE DEF i
    <2>3. d \in Nat \ {0} /\ OneShifted[i + 1] = 2 * d
      BY <2>1, PowersOfTwo
    <2>4. BitOf(a, i) = BitOf(c, i)
      BY <2>1
    <2>5. (a \div d) % 2 = (c \div d) % 2 /\ a \div (2 * d) = c \div (2 * d)
      BY <2>2, <2>3, <2>4 DEF BitOf
    <2> HIDE DEF d
    <2>6. /\ a \div (2 * d) = (a \div d) \div 2 /\ a \div d \in Nat
          /\ c \div (2 * d) = (c \div d) \div 2 /\ c \div d \in Nat
      BY <1>1, <2>3, HalfQuotient
    <2> DEFINE p == a \div d
               q == c \div d
    <2>7. p \in Nat /\ q \in Nat /\ p % 2 = q % 2 /\ p \div 2 = q \div 2
      BY <2>5, <2>6
    <2> HIDE DEF p, q
    <2>8. p = q
      BY <2>7
    <2>9. a \div OneShifted[bits - k] = c \div OneShifted[bits - k]
      BY <2>8 DEF p, q, d, i
    <2> QED
      BY <2>9
  <1>4. \A n \in 0 .. bits : n \in G
    <2> HIDE DEF G
    <2> QED
      BY <1>2, <1>3, UpTo
  <1>5. a \div OneShifted[bits - bits] = c \div OneShifted[bits - bits]
    BY <1>4
  <1>6. OneShifted[bits - bits] = 1
    BY PowersOfTwo
  <1> QED
    BY <1>1, <1>5, <1>6

\* The lowest n bits of the exclusive or, for each n.
LowBits(low, bits, a, b) ==
    /\ low[0] = 0
    /\ \A n \in 1 .. bits :
          low[n] = low[n - 1] + OneShifted[n - 1] * ((BitOf(a, n - 1) + BitOf(b, n - 1)) % 2)
    /\ \A n \in 0 .. bits : low[n] \in 0 .. OneShifted[n] - 1

LEMMA XorLow ==
    ASSUME NEW bits \in Nat, NEW a \in Nat, NEW b \in Nat
    PROVE  \E low : LowBits(low, bits, a, b) /\ Xor(bits, a, b) = low[bits]
  <1> DEFINE more(n) == OneShifted[n - 1] * ((BitOf(a, n - 1) + BitOf(b, n - 1)) % 2)
             step == [n \in 1 .. bits |-> [x \in Nat |-> x + more(n)]]
             IsLow(g) == g = [n \in 0 .. bits |-> IF n = 0 THEN 0 ELSE g[n - 1] + more(n)]
             low == CHOOSE g : IsLow(g)
  <1>1. ASSUME NEW n \in 1 .. bits
        PROVE  more(n) \in {0, OneShifted[n - 1]} /\ more(n) \in Nat
    <2> DEFINE d == OneShifted[n - 1]
               e == (BitOf(a, n - 1) + BitOf(b, n - 1)) % 2
    <2>1. n - 1 \in Nat
      OBVIOUS
    <2>2. BitOf(a, n - 1) \in 0 .. 1 /\ BitOf(b, n - 1) \in 0 .. 1
      BY <2>1, BitType
    <2>3. d \in Nat \ {0} /\ e \in {0, 1}
      BY <2>1, <2>2, PowersOfTwo
    <2> HIDE DEF d, e
    <2>4. d * e \in {0, d} /\ d * e \in Nat
      BY <2>3
    <2> QED
      BY <2>4 DEF d, e
  <1> HIDE DEF more
  <1>2. AreSteps(step, Nat, bits)
    BY <1>1 DEF AreSteps
  <1>3. ASSUME NEW g, IsLow(g) \/ Follows(g, 0, bits, step) PROVE IsLow(g) /\ Leads(g, Nat, 0, bits, step)
    <2>1. CASE Follows(g, 0, bits, step)
      <3>1. Leads(g, Nat, 0, bits, step)
        <4> HIDE DEF step
        <4> QED
          BY <1>2, <2>1, FollowsLeads
      <3>2. ASSUME NEW n \in 1 .. bits PROVE step[n][g[n - 1]] = g[n - 1] + more(n)
        <4>1. g[n - 1] \in Nat
          BY <3>1 DEF Leads
        <4> QED
          BY <4>1
      <3>3. \A n \in 0 .. bits : n = 0 \/ n \in 1 .. bits
        OBVIOUS
      <3>4. g = [n \in 0 .. bits |-> g[n]] /\ \A n \in 0 .. bits :
              g[n] = IF n = 0 THEN 0 ELSE g[n - 1] + more(n)
        <4> HIDE DEF step
        <4> QED
          BY <3>1, <3>2, <3>3 DEF Leads
      <3>5. IsLow(g)
        BY <3>4
      <3> QED
        BY <3>1, <3>5
    <2>2. CASE IsLow(g)
      <3>1. \A n \in 0 .. bits : g[n] = IF n = 0 THEN 0 ELSE g[n - 1] + more(n)
        BY <2>2
      <3> DEFINE G == {n \in 0 .. bits : g[n] \in Nat}
      <3>2. 0 \in G
        BY <3>1
      <3>3. ASSUME NEW n \in 1 .. bits, n - 1 \in G PROVE n \in G
        <4>1. g[n] = g[n - 1] + more(n)
          BY <3>1
        <4> QED
          BY <1>1, <3>3, <4>1
      <3>4. \A n \in 0 .. bits : n \in G
        <4> HIDE DEF G
        <4> QED
          BY <3>2, <3>3, UpTo
      <3>5. g \in [0 .. bits -> Nat] /\ g[0] = 0 /\ \A n \in 1 .. bits : g[n] = g[n - 1] + more(n)
        BY <2>2, <3>1, <3>4
      <3>6. ASSUME NEW n \in 1 .. bits PROVE g[n] = step[n][g[n - 1]]
        BY <3>5
      <3> QED
        BY <2>2, <3>5, <3>6 DEF Leads
    <2> QED
      BY <1>3, <2>1, <2>2
  <1>4. IsLow(low)
    <2>1. \E g : Follows(g, 0, bits, step)
      <3> HIDE DEF step
      <3> QED
        BY <1>2, FollowsExists
    <2>2. \E g : IsLow(g)
      BY <1>3, <2>1
    <2> HIDE DEF IsLow
    <2> QED
      BY <2>2
  <1>5. Leads(low, Nat, 0, bits, step)
    <2> HIDE DEF low, IsLow
    <2> QED
      BY <1>3, <1>4
  <1>6. Xor(bits, a, b) = low[bits]
    BY DEF Xor, more
  <1> HIDE DEF low
  <1>7. low[0] = 0 /\ \A n \in 1 .. bits : low[n - 1] \in Nat /\ low[n] = low[n - 1] + more(n)
    <2>1. ASSUME NEW n \in 1 .. bits PROVE low[n - 1] \in Nat /\ step[n][low[n - 1]] = low[n - 1] + more(n)
      <3>1. low[n - 1] \in Nat
        BY <1>5 DEF Leads
      <3> QED
        BY <3>1
    <2> QED
      BY <1>5, <2>1 DEF Leads
  <1> DEFINE H == {n \in 0 .. bits : low[n] \in 0 .. OneShifted[n] - 1}
  <1>8. 0 \in H
    BY <1>7, PowersOfTwo
  <1>9. ASSUME NEW n \in 1 .. bits, n - 1 \in H PROVE n \in H
    <2> DEFINE d == OneShifted[n - 1]
    <2>1. n - 1 \in Nat /\ n = (n - 1) + 1
      OBVIOUS
    <2>2. d \in Nat \ {0} /\ OneShifted[n] = 2 * d
      BY <2>1, PowersOfTwo
    <2>3. low[n - 1] \in 0 .. d - 1 /\ low[n] = low[n - 1] + more(n) /\ more(n) \in {0, d}
      BY <1>1, <1>7, <1>9
    <2> HIDE DEF d
    <2>4. low[n] \in 0 .. 2 * d - 1
      BY <2>2, <2>3
    <2> QED
      BY <2>2, <2>4
  <1>10. \A n \in 0 .. bits : n \in H
    <2> HIDE DEF H
    <2> QED
      BY <1>8, <1>9, UpTo
  <1>11. LowBits(low, bits, a, b)
    BY <1>7, <1>10 DEF LowBits, more
  <1> QED
    BY <1>6, <1>11

LEMMA XorBounded ==
    ASSUME NEW bits \in Nat, NEW a \in Nat, NEW b \in Nat
    PROVE  Xor(bits, a, b) \in 0 .. OneShifted[bits] - 1
  <1>1. PICK low : LowBits(low, bits, a, b) /\ Xor(bits, a, b) = low[bits]
    BY XorLow
  <1> QED
    BY <1>1 DEF LowBits

\* Pairs of numbers with the same exclusive or differ in an even number of each bit.
LEMMA XorAgree ==
    ASSUME NEW bits \in Nat, NEW a \in Nat, NEW b \in Nat, NEW c \in Nat, NEW e \in Nat,
           Xor(bits, a, b) = Xor(bits, c, e)
    PROVE  \A i \in 0 .. bits - 1 : (BitOf(a, i) + BitOf(b, i)) % 2 = (BitOf(c, i) + BitOf(e, i)) % 2
  <1>1. PICK low : LowBits(low, bits, a, b) /\ Xor(bits, a, b) = low[bits]
    BY XorLow
  <1>2. PICK lov : LowBits(lov, bits, c, e) /\ Xor(bits, c, e) = lov[bits]
    BY XorLow
  <1> DEFINE Even(i) == (BitOf(a, i) + BitOf(b, i)) % 2 = (BitOf(c, i) + BitOf(e, i)) % 2
             G == {k \in 0 .. bits : low[bits - k] = lov[bits - k]}
  <1>3. ASSUME NEW n \in 1 .. bits, low[n] = lov[n] PROVE low[n - 1] = lov[n - 1] /\ Even(n - 1)
    <2> DEFINE d == OneShifted[n - 1]
               p == (BitOf(a, n - 1) + BitOf(b, n - 1)) % 2
               q == (BitOf(c, n - 1) + BitOf(e, n - 1)) % 2
               x == low[n - 1]
               y == lov[n - 1]
    <2>1. n - 1 \in Nat /\ n - 1 \in 0 .. bits
      OBVIOUS
    <2>2. d \in Nat \ {0}
      BY <2>1, PowersOfTwo
    <2>3. /\ BitOf(a, n - 1) \in 0 .. 1 /\ BitOf(b, n - 1) \in 0 .. 1
          /\ BitOf(c, n - 1) \in 0 .. 1 /\ BitOf(e, n - 1) \in 0 .. 1
      BY <2>1, BitType
    <2>4. p \in {0, 1} /\ q \in {0, 1}
      BY <2>3
    <2>5. x \in 0 .. d - 1 /\ y \in 0 .. d - 1
      BY <1>1, <1>2, <2>1 DEF LowBits
    <2>6. low[n] = x + d * p /\ lov[n] = y + d * q
      BY <1>1, <1>2 DEF LowBits
    <2> HIDE DEF d, p, q, x, y
    <2>7. x + d * p = y + d * q
      BY <1>3, <2>6
    <2>8. d * p \in {0, d} /\ d * q \in {0, d} /\ (d * p = d <=> p = 1) /\ (d * q = d <=> q = 1)
      BY <2>2, <2>4
    <2> DEFINE u == d * p
               v == d * q
    <2>9. x + u = y + v /\ u \in {0, d} /\ v \in {0, d} /\ (u = d <=> p = 1) /\ (v = d <=> q = 1)
      BY <2>7, <2>8
    <2> HIDE DEF u, v
    <2>10. x = y /\ u = v
      BY <2>2, <2>5, <2>9
    <2>11. p = q
      BY <2>4, <2>9, <2>10
    <2> QED
      BY <2>10, <2>11 DEF x, y, p, q
  <1>4. 0 \in G
    <2>1. bits - 0 = bits /\ 0 \in 0 .. bits
      OBVIOUS
    <2>2. low[bits] = lov[bits]
      BY <1>1, <1>2
    <2> QED
      BY <2>1, <2>2
  <1>5. ASSUME NEW k \in 1 .. bits, k - 1 \in G PROVE k \in G
    <2> DEFINE n == bits - (k - 1)
    <2>1. n \in 1 .. bits /\ bits - k = n - 1 /\ low[n] = lov[n]
      BY <1>5
    <2> HIDE DEF n
    <2>2. low[n - 1] = lov[n - 1]
      BY <1>3, <2>1
    <2> QED
      BY <2>1, <2>2
  <1>6. \A k \in 0 .. bits : k \in G
    <2> HIDE DEF G
    <2> QED
      BY <1>4, <1>5, UpTo
  <1>7. ASSUME NEW i \in 0 .. bits - 1 PROVE Even(i)
    <2> DEFINE n == i + 1
    <2>1. n \in 1 .. bits /\ n - 1 = i /\ bits - n \in 0 .. bits /\ bits - (bits - n) = n
      OBVIOUS
    <2> HIDE DEF n, Even
    <2>2. low[n] = lov[n]
      BY <1>6, <2>1
    <2> QED
      BY <1>3, <2>1, <2>2
  <1> QED
    BY <1>7

\* With one number the same, numbers of so many bits that have the same exclusive or
\* are the same.
LEMMA XorOneToOne ==
    ASSUME NEW bits \in Nat, NEW a \in 0 .. OneShifted[bits] - 1,
           NEW c \in 0 .. OneShifted[bits] - 1, NEW b \in Nat,
           Xor(bits, a, b) = Xor(bits, c, b) \/ Xor(bits, b, a) = Xor(bits, b, c)
    PROVE  a = c
  <1>1. a \in Nat /\ c \in Nat
    BY PowersOfTwo
  <1>2. ASSUME NEW i \in 0 .. bits - 1 PROVE BitOf(a, i) = BitOf(c, i)
    <2>1. i \in Nat
      OBVIOUS
    <2>2. BitOf(a, i) \in 0 .. 1 /\ BitOf(b, i) \in 0 .. 1 /\ BitOf(c, i) \in 0 .. 1
      BY <1>1, <2>1, BitType
    <2>3. \/ (BitOf(a, i) + BitOf(b, i)) % 2 = (BitOf(c, i) + BitOf(b, i)) % 2
          \/ (BitOf(b, i) + BitOf(a, i)) % 2 = (BitOf(b, i) + BitOf(c, i)) % 2
      <3>1. CASE Xor(bits, a, b) = Xor(bits, c, b)
        BY <1>1, <3>1, XorAgree
      <3>2. CASE Xor(bits, b, a) = Xor(bits, b, c)
        BY <1>1, <3>2, XorAgree
      <3> QED
        BY <3>1, <3>2
    <2> QED
      BY <2>2, <2>3
  <1> QED
    BY <1>2, BitsDecide

\* What an odd number multiplies to a multiple of a power of two is one itself.
LEMMA OddDivides ==
    ASSUME NEW p \in Nat, p % 2 = 1, NEW k \in Nat, NEW e \in Nat, NEW q \in Nat,
           e * p = OneShifted[k] * q
    PROVE  \E s \in Nat : e = OneShifted[k] * s
  <1> DEFINE G == {n \in 0 .. k : \A x \in Nat : \A y \in Nat :
                      x * p = OneShifted[n] * y => \E s \in Nat : x = OneShifted[n] * s}
  <1>1. 0 \in G
    <2>1. ASSUME NEW x \in Nat PROVE x = OneShifted[0] * x
      BY PowersOfTwo
    <2> QED
      BY <2>1
  <1>2. ASSUME NEW n \in 1 .. k, n - 1 \in G PROVE n \in G
    <2> DEFINE d == OneShifted[n - 1]
    <2>1. n - 1 \in Nat /\ n = (n - 1) + 1
      OBVIOUS
    <2>2. d \in Nat \ {0} /\ OneShifted[n] = 2 * d
      BY <2>1, PowersOfTwo
    <2>3. ASSUME NEW x \in Nat, NEW y \in Nat, x * p = OneShifted[n] * y
          PROVE  \E s \in Nat : x = OneShifted[n] * s
      <3> HIDE DEF d
      <3>1. x * p = 2 * (d * y) /\ d * y \in Nat
        BY <2>2, <2>3
      <3> DEFINE r == p \div 2
                 z == x \div 2
                 b == x % 2
      <3>2. r \in Nat /\ p = 2 * r + 1
        OBVIOUS
      <3>3. z \in Nat /\ b \in {0, 1} /\ x = 2 * z + b
        OBVIOUS
      <3> HIDE DEF r, z, b
      <3>4. x * p = 2 * (x * r) + x /\ x * r \in Nat
        BY <3>2
      <3>5. b = 0
        <4> DEFINE u == x * r
                   v == d * y
        <4>1. u \in Nat /\ v \in Nat /\ 2 * v = 2 * u + x
          BY <3>1, <3>4
        <4> HIDE DEF u, v
        <4> QED
          BY <3>3, <4>1
      <3>6. x * p = 2 * (z * p)
        BY <3>3, <3>5
      <3>7. z * p = d * y
        <4>1. z * p \in Nat
          BY <3>3
        <4> DEFINE u == z * p
                   v == d * y
        <4>2. u \in Nat /\ v \in Nat /\ 2 * u = 2 * v
          BY <3>1, <3>6, <4>1
        <4> HIDE DEF u, v
        <4>3. u = v
          BY <4>2
        <4> QED
          BY <4>3 DEF u, v
      <3>8. PICK s \in Nat : z = d * s
        BY <1>2, <3>3, <3>7 DEF d
      <3>9. x = 2 * (d * s)
        BY <3>3, <3>5, <3>8
      <3>10. 2 * (d * s) = (2 * d) * s
        BY <2>2
      <3>11. x = OneShifted[n] * s
        BY <2>2, <3>9, <3>10
      <3> QED
        BY <3>11
    <2> QED
      BY <2>3
  <1>3. \A n \in 0 .. k : n \in G
    <2> HIDE DEF G
    <2> QED
      BY <1>1, <1>2, UpTo
  <1> QED
    BY <1>3

\* Modulo a power of two, multiplying with an odd number is one to one.
LEMMA OddTimes ==
    ASSUME NEW p \in Nat, p % 2 = 1, NEW k \in Nat, NEW x \in 0 .. OneShifted[k] - 1,
           NEW y \in 0 .. OneShifted[k] - 1,
           (x * p) % OneShifted[k] = (y * p) % OneShifted[k]
    PROVE  x = y
  <1> DEFINE m == OneShifted[k]
  <1>1. m \in Nat \ {0}
    BY PowersOfTwo
  <1>2. ASSUME NEW u \in 0 .. m - 1, NEW v \in 0 .. m - 1, v < u, (u * p) % m = (v * p) % m
        PROVE  FALSE
    <2> HIDE DEF m
    <2> DEFINE a == (u * p) \div m
               b == (v * p) \div m
               r == (u * p) % m
               e == u - v
    <2>1. u \in Nat /\ v \in Nat /\ u * p \in Nat /\ v * p \in Nat /\ e \in Nat \ {0} /\ e < m
      BY <1>1, <1>2
    <2>2. a \in Nat /\ r \in 0 .. m - 1 /\ u * p = m * a + r
      BY <1>1, <2>1, DivMod
    <2>3. b \in Nat /\ v * p = m * b + r
      <3>1. b \in Nat /\ v * p = m * b + ((v * p) % m)
        BY <1>1, <2>1, DivMod
      <3> QED
        BY <1>2, <3>1
    <2>4. e * p = u * p - v * p
      BY <2>1
    <2> HIDE DEF a, b, r, e
    <2>5. e * p = m * a - m * b
      <3> DEFINE f == m * a
                 g == m * b
                 h == u * p
                 i == v * p
      <3>1. f \in Nat /\ g \in Nat /\ h = f + r /\ i = g + r /\ e * p = h - i /\ r \in Nat
        BY <1>1, <2>2, <2>3, <2>4
      <3> HIDE DEF f, g, h, i
      <3>2. e * p = f - g
        BY <3>1
      <3> QED
        BY <3>2 DEF f, g
    <2>6. m * a - m * b = m * (a - b) /\ a - b \in Int
      BY <1>1, <2>2, <2>3
    <2>7. a - b \in Nat
      <3>1. e * p \in Nat
        BY <2>1
      <3>2. m * (a - b) \in Nat
        BY <2>5, <2>6, <3>1
      <3> DEFINE w == a - b
      <3>3. w \in Int /\ m * w \in Nat
        BY <2>6, <3>2
      <3> HIDE DEF w
      <3>4. w \in Nat
        BY <1>1, <3>3
      <3> QED
        BY <3>4 DEF w
    <2>8. PICK s \in Nat : e = m * s
      <3> DEFINE w == a - b
      <3>1. e * p = OneShifted[k] * w /\ w \in Nat /\ e \in Nat
        BY <2>1, <2>5, <2>6, <2>7 DEF m
      <3> HIDE DEF w
      <3>2. \A f \in Nat, q \in Nat :
              f * p = OneShifted[k] * q => \E s \in Nat : f = OneShifted[k] * s
        BY OddDivides
      <3>3. \E s \in Nat : e = OneShifted[k] * s
        BY <3>1, <3>2
      <3> QED
        BY <3>3 DEF m
    <2>9. s # 0
      BY <1>1, <2>1, <2>8
    <2>10. m * s >= m
      BY <1>1, <2>9
    <2> QED
      BY <1>1, <2>1, <2>8, <2>10
  <1>3. x \in 0 .. m - 1 /\ y \in 0 .. m - 1 /\ (x * p) % m = (y * p) % m /\ x \in Int /\ y \in Int
    BY <1>1
  <1> HIDE DEF m
  <1>4. ~(x < y) /\ ~(y < x)
    BY <1>2, <1>3
  <1> QED
    BY <1>3, <1>4

------------------------------------------------------------------------------
(* The check sum notices a single altered byte.                            *)

Hashes == 0 .. HashSpace - 1

LEMMA HashSpaceEven == \E half \in Nat \ {0} : HashSpace = 2 * half
  <1> DEFINE k == HashBits - 1
  <1>1. k \in Nat /\ HashBits = k + 1
    BY HashAssumption
  <1> HIDE DEF k
  <1>2. OneShifted[k] \in Nat \ {0} /\ OneShifted[k + 1] = 2 * OneShifted[k]
    BY <1>1, PowersOfTwo
  <1>3. HashSpace = 2 * OneShifted[k]
    BY <1>1, <1>2 DEF HashSpace
  <1> QED
    BY <1>2, <1>3

LEMMA HashSpaceType == HashSpace \in Nat \ {0} /\ HashSpace >= 2 /\ HashBasis \in Hashes /\ Hashes \subseteq Nat
  <1>1. HashSpace \in Nat \ {0} /\ HashSpace >= 2
    BY HashSpaceEven
  <1> QED
    BY <1>1, HashAssumption DEF Hashes

Bytes == 0 .. ByteSpace - 1

LEMMA BytesType ==
    /\ ByteSpace \in Nat \ {0} /\ ByteSpace >= 2
    /\ Bytes \in SUBSET Hashes /\ Bytes \in SUBSET Nat /\ {0, 1} \in SUBSET Bytes
  <1>1. HashSpace \in Nat /\ ByteSpace \in 2 .. HashSpace
    BY HashSpaceType, HashAssumption
  <1>2. ByteSpace \in Nat /\ ByteSpace >= 2 /\ ByteSpace <= HashSpace
    BY <1>1
  <1>3. \A b \in Bytes : b \in Hashes /\ b \in Nat
    BY <1>1, <1>2 DEF Bytes, Hashes
  <1>4. 0 \in Bytes /\ 1 \in Bytes
    BY <1>2 DEF Bytes
  <1> QED
    BY <1>2, <1>3, <1>4

LEMMA HashedType ==
    ASSUME NEW byte \in Nat
    PROVE  /\ Hashed(byte) \in [Hashes -> Hashes]
           /\ \A h \in Hashes : Hashed(byte)[h] = (Xor(HashBits, h, byte) * HashPrime) % HashSpace
  <1>1. ASSUME NEW h \in Hashes PROVE (Xor(HashBits, h, byte) * HashPrime) % HashSpace \in Hashes
    <2> DEFINE x == Xor(HashBits, h, byte) * HashPrime
    <2>1. h \in Nat /\ HashBits \in Nat
      BY HashSpaceType, HashAssumption
    <2>2. Xor(HashBits, h, byte) \in 0 .. OneShifted[HashBits] - 1
      BY <2>1, XorBounded
    <2>3. Xor(HashBits, h, byte) \in Nat
      BY <2>1, <2>2, PowersOfTwo
    <2>4. x \in Nat
      BY <2>3, HashAssumption
    <2> HIDE DEF x
    <2>5. x % HashSpace \in 0 .. HashSpace - 1
      BY <2>4, HashSpaceType, DivMod
    <2> QED
      BY <2>5 DEF Hashes, x
  <1> QED
    BY <1>1 DEF Hashed, Hashes

\* Neither two hashes nor two bytes become the same hash.
LEMMA HashedOneToOne ==
    ASSUME NEW h \in Hashes, NEW g \in Hashes, NEW e \in Nat, NEW f \in Nat,
           Hashed(e)[h] = Hashed(f)[g]
    PROVE  /\ e = f => h = g
           /\ h = g /\ e \in Hashes /\ f \in Hashes => e = f
  <1> DEFINE x == Xor(HashBits, h, e)
             y == Xor(HashBits, g, f)
  <1>1. h \in Nat /\ g \in Nat /\ HashBits \in Nat
    BY HashSpaceType, HashAssumption
  <1>2. x \in 0 .. OneShifted[HashBits] - 1 /\ y \in 0 .. OneShifted[HashBits] - 1
    BY <1>1, XorBounded
  <1>3. (x * HashPrime) % OneShifted[HashBits] = (y * HashPrime) % OneShifted[HashBits]
    BY HashedType DEF HashSpace
  <1>4. x = y
    <2> HIDE DEF x, y
    <2> QED
      BY <1>1, <1>2, <1>3, HashAssumption, OddTimes
  <1>5. h \in 0 .. OneShifted[HashBits] - 1 /\ g \in 0 .. OneShifted[HashBits] - 1
    BY DEF Hashes, HashSpace
  <1>6. ASSUME e = f PROVE h = g
    <2>1. Xor(HashBits, h, e) = Xor(HashBits, g, e)
      BY <1>4, <1>6
    <2> HIDE DEF x, y
    <2> QED
      BY <1>1, <1>5, <2>1, XorOneToOne
  <1>7. ASSUME h = g, e \in Hashes, f \in Hashes PROVE e = f
    <2>1. Xor(HashBits, h, e) = Xor(HashBits, h, f)
      BY <1>4, <1>7
    <2>2. e \in 0 .. OneShifted[HashBits] - 1 /\ f \in 0 .. OneShifted[HashBits] - 1
      BY <1>7 DEF Hashes, HashSpace
    <2> HIDE DEF x, y
    <2> QED
      BY <1>1, <2>1, <2>2, XorOneToOne
  <1> QED
    BY <1>6, <1>7

\* h is the hash after each of the first n bytes.
HashesOf(h, bytes, n) ==
    /\ h \in [0 .. n -> Hashes] /\ h[0] = HashBasis
    /\ \A k \in 1 .. n : h[k] = Hashed(bytes[k])[h[k - 1]]

LEMMA HashSteps ==
    ASSUME NEW n \in Nat, NEW bytes, \A k \in 1 .. n : bytes[k] \in Nat
    PROVE  \E h : HashesOf(h, bytes, n) /\ HashOfFirst(bytes, n) = h[n]
  <1> DEFINE step == [k \in 1 .. n |-> Hashed(bytes[k])]
             IsHash(h) == h = [k \in 0 .. n |->
                                 IF k = 0 THEN HashBasis ELSE Hashed(bytes[k])[h[k - 1]]]
             after == CHOOSE h : IsHash(h)
  <1>1. AreSteps(step, Hashes, n)
    BY HashedType DEF AreSteps
  <1>2. ASSUME NEW h PROVE IsHash(h) <=> Follows(h, HashBasis, n, step)
    <2>1. \A k \in 0 .. n : k # 0 => step[k] = Hashed(bytes[k])
      OBVIOUS
    <2>2. [k \in 0 .. n |-> IF k = 0 THEN HashBasis ELSE Hashed(bytes[k])[h[k - 1]]] =
          [k \in 0 .. n |-> IF k = 0 THEN HashBasis ELSE step[k][h[k - 1]]]
      <3> HIDE DEF step
      <3> QED
        BY <2>1
    <2> QED
      BY <2>2 DEF Follows
  <1>3. \E h : IsHash(h)
    <2>1. \E h : Follows(h, HashBasis, n, step)
      <3> HIDE DEF step
      <3> QED
        BY <1>1, HashSpaceType, FollowsExists
    <2> QED
      BY <1>2, <2>1
  <1>4. IsHash(after)
    <2> HIDE DEF IsHash
    <2> QED
      BY <1>3
  <1>5. Leads(after, Hashes, HashBasis, n, step)
    <2>1. Follows(after, HashBasis, n, step)
      BY <1>2, <1>4
    <2> HIDE DEF step, after
    <2> QED
      BY <1>1, <2>1, HashSpaceType, FollowsLeads
  <1>6. HashOfFirst(bytes, n) = after[n]
    BY DEF HashOfFirst
  <1> HIDE DEF after
  <1>7. HashesOf(after, bytes, n)
    BY <1>5 DEF Leads, HashesOf
  <1> QED
    BY <1>6, <1>7

LEMMA ChecksumType ==
    ASSUME NEW bytes \in Seq(Nat) PROVE Checksum(bytes) \in Hashes /\ Checksum(bytes) \in Nat
  <1> DEFINE n == Len(bytes)
  <1>1. n \in Nat /\ \A k \in 1 .. n : bytes[k] \in Nat
    OBVIOUS
  <1> HIDE DEF n
  <1>2. PICK h : HashesOf(h, bytes, n) /\ HashOfFirst(bytes, n) = h[n]
    BY <1>1, HashSteps
  <1>3. h[n] \in Hashes
    BY <1>1, <1>2 DEF HashesOf
  <1> QED
    BY <1>2, <1>3, HashSpaceType DEF Checksum, n

\* Fields that differ in one place have different check sums.
LEMMA ChecksumNotices ==
    ASSUME NEW e \in Seq(Nat), NEW f \in Seq(Nat), Len(e) = Len(f),
           NEW at \in 1 .. Len(e), e[at] # f[at], e[at] \in Hashes, f[at] \in Hashes,
           \A k \in 1 .. Len(e) : k # at => e[k] = f[k]
    PROVE  Checksum(e) # Checksum(f)
  <1> DEFINE n == Len(e)
  <1>1. n \in Nat /\ n = Len(f) /\ \A k \in 1 .. n : e[k] \in Nat /\ f[k] \in Nat
    OBVIOUS
  <1>2. at \in 1 .. n /\ at \in Nat /\ \A k \in 1 .. n : k # at => e[k] = f[k]
    OBVIOUS
  <1>3. Checksum(e) = HashOfFirst(e, n) /\ Checksum(f) = HashOfFirst(f, n)
    BY DEF Checksum
  <1> HIDE DEF n
  <1>4. PICK h : HashesOf(h, e, n) /\ HashOfFirst(e, n) = h[n]
    BY <1>1, HashSteps
  <1>5. PICK g : HashesOf(g, f, n) /\ HashOfFirst(f, n) = g[n]
    BY <1>1, HashSteps
  <1> DEFINE G == {k \in 0 .. n : h[k] = g[k] <=> k < at}
  <1>6. 0 \in G
    BY <1>1, <1>2, <1>4, <1>5 DEF HashesOf
  <1>7. ASSUME NEW k \in 1 .. n, k - 1 \in G PROVE k \in G
    <2>1. /\ h[k - 1] \in Hashes /\ g[k - 1] \in Hashes
          /\ h[k] = Hashed(e[k])[h[k - 1]] /\ g[k] = Hashed(f[k])[g[k - 1]]
      <3>1. k - 1 \in 0 .. n
        BY <1>1
      <3>2. h[k - 1] \in Hashes /\ h[k] = Hashed(e[k])[h[k - 1]]
        BY <1>4, <3>1 DEF HashesOf
      <3>3. g[k - 1] \in Hashes /\ g[k] = Hashed(f[k])[g[k - 1]]
        BY <1>5, <3>1 DEF HashesOf
      <3> QED
        BY <3>2, <3>3
    <2>2. e[k] \in Nat /\ f[k] \in Nat
      BY <1>1
    <2>3. h[k - 1] = g[k - 1] <=> k - 1 < at
      BY <1>7
    <2>4. CASE k < at
      <3>0. k - 1 < at /\ k # at
        BY <1>2, <2>4
      <3>1. h[k - 1] = g[k - 1] /\ e[k] = f[k]
        BY <1>2, <2>3, <3>0
      <3> QED
        BY <2>1, <2>4, <3>1
    <2>5. CASE k = at
      <3>1. h[k - 1] = g[k - 1] /\ e[k] # f[k] /\ e[k] \in Hashes /\ f[k] \in Hashes
        BY <1>2, <2>3, <2>5
      <3>2. h[k] # g[k]
        <4> DEFINE x == h[k - 1]
                   c == e[k]
                   d == f[k]
        <4>1. x \in Hashes /\ c \in Nat /\ d \in Nat /\ c \in Hashes /\ d \in Hashes /\ c # d
          BY <2>1, <2>2, <3>1
        <4>2. h[k] = Hashed(c)[x] /\ g[k] = Hashed(d)[x]
          BY <2>1, <3>1
        <4> HIDE DEF x, c, d
        <4>3. Hashed(c)[x] = Hashed(d)[x] => c = d
          BY <4>1, HashedOneToOne
        <4> QED
          BY <4>1, <4>2, <4>3
      <3> QED
        BY <2>5, <3>2
    <2>6. CASE k > at
      <3>1. h[k - 1] # g[k - 1] /\ e[k] = f[k]
        BY <1>2, <2>3, <2>6
      <3>2. h[k] # g[k]
        <4> DEFINE x == h[k - 1]
                   y == g[k - 1]
                   c == e[k]
        <4>1. x \in Hashes /\ y \in Hashes /\ c \in Nat /\ x # y
          BY <2>1, <2>2, <3>1
        <4>2. h[k] = Hashed(c)[x] /\ g[k] = Hashed(c)[y]
          BY <2>1, <3>1
        <4> HIDE DEF x, y, c
        <4>3. Hashed(c)[x] = Hashed(c)[y] => x = y
          BY <4>1, HashedOneToOne
        <4> QED
          BY <4>1, <4>2, <4>3
      <3> QED
        BY <1>2, <2>6, <3>2
    <2> QED
      BY <1>2, <2>4, <2>5, <2>6
  <1>8. \A k \in 0 .. n : k \in G
    <2> HIDE DEF G
    <2> QED
      BY <1>1, <1>6, <1>7, UpTo
  <1>9. h[n] # g[n]
    BY <1>1, <1>2, <1>8
  <1> QED
    BY <1>3, <1>4, <1>5, <1>9

------------------------------------------------------------------------------
(* A sequence of sequences as one.                                         *)

\* f is the first n of the sequences s as one, for each n.
Flattens(f, s, S) ==
    /\ f \in [0 .. Len(s) -> Seq(S)] /\ f[0] = <<>>
    /\ \A n \in 1 .. Len(s) : f[n] = f[n - 1] \o s[n]

LEMMA FlatIs ==
    ASSUME NEW S, NEW s \in Seq(Seq(S)), NEW f, Flattens(f, s, S)
    PROVE  FlattenSeq(s) = f[Len(s)]
  <1> DEFINE m == Len(s)
             IsFlat(g) == g = [i \in 1 .. m |-> IF i = 1 THEN s[i] ELSE g[i - 1] \o s[i]]
             flatten == CHOOSE g : IsFlat(g)
  <1>1. m \in Nat /\ \A n \in 1 .. m : s[n] \in Seq(S)
    OBVIOUS
  <1>2. CASE m = 0
    <2>1. s = <<>> /\ FlattenSeq(s) = s
      BY <1>2 DEF FlattenSeq
    <2> QED
      BY <1>2, <2>1 DEF Flattens
  <1>3. CASE m # 0
    <2>1. FlattenSeq(s) = flatten[m]
      BY <1>3 DEF FlattenSeq
    <2> DEFINE h == [i \in 1 .. m |-> f[i]]
    <2>2. IsFlat(h)
      <3>1. ASSUME NEW i \in 1 .. m
            PROVE  h[i] = IF i = 1 THEN s[i] ELSE h[i - 1] \o s[i]
        <4>1. f[i] = f[i - 1] \o s[i]
          BY DEF Flattens
        <4>2. CASE i = 1
          <5>1. f[0] = <<>> /\ s[1] \in Seq(S)
            BY <1>1, <4>2 DEF Flattens
          <5>2. <<>> \o s[1] = s[1]
            BY <5>1, ConcatEmptySeq
          <5>3. f[i] = f[0] \o s[1]
            BY <4>1, <4>2
          <5>4. h[i] = f[i] /\ f[i] = s[i]
            BY <4>2, <5>1, <5>2, <5>3
          <5> HIDE DEF h
          <5> QED
            BY <4>2, <5>4
        <4>3. CASE i # 1
          <5>1. i - 1 \in 1 .. m
            BY <1>1, <4>3
          <5> HIDE DEF m
          <5> QED
            BY <4>1, <4>3, <5>1
        <4> QED
          BY <4>2, <4>3
      <3> DEFINE body(i) == IF i = 1 THEN s[i] ELSE h[i - 1] \o s[i]
      <3>2. \A i \in 1 .. m : f[i] = body(i)
        BY <3>1
      <3>3. h = [i \in 1 .. m |-> body(i)]
        <4> HIDE DEF body, m
        <4> QED
          BY <3>2
      <3> QED
        BY <3>3
    <2>3. IsFlat(flatten)
      <3> HIDE DEF IsFlat, h, m
      <3> QED
        BY <2>2
    <2>4. \A i \in 1 .. m : flatten[i] = IF i = 1 THEN s[i] ELSE flatten[i - 1] \o s[i]
      <3> HIDE DEF flatten, m
      <3> QED
        BY <2>3
    <2> HIDE DEF flatten, IsFlat
    <2> DEFINE G == {n \in 0 .. m : n = 0 \/ flatten[n] = h[n]}
    <2>5. 0 \in G
      BY <1>1
    <2>6. ASSUME NEW n \in 1 .. m, n - 1 \in G PROVE n \in G
      <3>1. h[n] = IF n = 1 THEN s[n] ELSE h[n - 1] \o s[n]
        <4> HIDE DEF h, m
        <4> QED
          BY <2>2 DEF IsFlat
      <3>2. flatten[n] = IF n = 1 THEN s[n] ELSE flatten[n - 1] \o s[n]
        BY <2>4
      <3>3. n - 1 = 0 \/ flatten[n - 1] = h[n - 1]
        <4> HIDE DEF h, m
        <4> QED
          BY <2>6
      <3>4. n - 1 = 0 <=> n = 1
        OBVIOUS
      <3>5. flatten[n] = h[n]
        <4> HIDE DEF h, m
        <4> QED
          BY <3>1, <3>2, <3>3, <3>4
      <3>6. n \in 0 .. m
        OBVIOUS
      <3> HIDE DEF h
      <3> QED
        BY <3>5, <3>6
    <2>7. \A n \in 0 .. m : n \in G
      <3> HIDE DEF G, m
      <3> QED
        BY <1>1, <2>5, <2>6, UpTo
    <2>8. m \in 0 .. m /\ m \in 1 .. m
      BY <1>1, <1>3
    <2>9. flatten[m] = f[m]
      <3>1. flatten[m] = h[m]
        <4> HIDE DEF h
        <4> QED
          BY <1>3, <2>7, <2>8
      <3> QED
        BY <2>8, <3>1
    <2> QED
      BY <2>1, <2>9
  <1> QED
    BY <1>2, <1>3

LEMMA FlatSteps ==
    ASSUME NEW S, NEW s \in Seq(Seq(S))
    PROVE  \E f : Flattens(f, s, S) /\ FlattenSeq(s) = f[Len(s)]
  <1> DEFINE m == Len(s)
             X == Seq(S)
             step == [n \in 1 .. m |-> [x \in X |-> x \o s[n]]]
  <1>1. m \in Nat /\ \A n \in 1 .. m : s[n] \in X
    OBVIOUS
  <1>2. \A n \in 1 .. m, x \in X : x \o s[n] \in X
    BY <1>1, ConcatProperties
  <1>3. AreSteps(step, X, m) /\ <<>> \in X
    <2>1. <<>> \in X
      BY EmptySeq
    <2> HIDE DEF X, m
    <2> QED
      BY <1>2, <2>1 DEF AreSteps
  <1>4. PICK f : Leads(f, X, <<>>, m, step)
    <2> HIDE DEF X, m, step
    <2> QED
      BY <1>1, <1>3, StepsLead
  <1>5. f \in [0 .. m -> X] /\ f[0] = <<>> /\ \A n \in 1 .. m : f[n] = step[n][f[n - 1]]
    BY <1>4 DEF Leads
  <1>6. ASSUME NEW n \in 1 .. m PROVE f[n] = f[n - 1] \o s[n]
    <2>1. n - 1 \in 0 .. m
      BY <1>1
    <2>2. f[n - 1] \in X
      BY <1>5, <2>1
    <2> HIDE DEF X, m
    <2> QED
      BY <1>5, <2>2
  <1>7. Flattens(f, s, S)
    BY <1>5, <1>6 DEF Flattens
  <1> QED
    BY <1>7, FlatIs

LEMMA FlatType == ASSUME NEW S, NEW s \in Seq(Seq(S)) PROVE FlattenSeq(s) \in Seq(S)
  <1>1. PICK f : Flattens(f, s, S) /\ FlattenSeq(s) = f[Len(s)]
    BY FlatSteps
  <1>2. Len(s) \in 0 .. Len(s)
    OBVIOUS
  <1> QED
    BY <1>1, <1>2 DEF Flattens

LEMMA FlatAppend ==
    ASSUME NEW S, NEW s \in Seq(Seq(S)), NEW e \in Seq(S)
    PROVE  FlattenSeq(Append(s, e)) = FlattenSeq(s) \o e
  <1>1. PICK f : Flattens(f, s, S) /\ FlattenSeq(s) = f[Len(s)]
    BY FlatSteps
  <1> DEFINE m == Len(s)
             t == Append(s, e)
             g == [n \in 0 .. m + 1 |-> IF n = m + 1 THEN f[m] \o e ELSE f[n]]
  <1>2. /\ m \in Nat /\ t \in Seq(Seq(S)) /\ Len(t) = m + 1 /\ t[m + 1] = e
        /\ \A n \in 1 .. m : t[n] = s[n]
    BY AppendProperties
  <1>3. f \in [0 .. m -> Seq(S)] /\ f[0] = <<>> /\ \A n \in 1 .. m : f[n] = f[n - 1] \o s[n]
    BY <1>1 DEF Flattens
  <1> HIDE DEF m, t
  <1>4. f[m] \in Seq(S) /\ f[m] \o e \in Seq(S)
    <2>1. f[m] \in Seq(S)
      BY <1>2, <1>3
    <2> QED
      BY <2>1, ConcatProperties
  <1>5. \A n \in 0 .. m : n # m + 1 /\ n \in 0 .. m + 1
    BY <1>2
  <1>6. \A n \in 0 .. m + 1 : n = m + 1 \/ n \in 0 .. m
    BY <1>2
  <1>7. g \in [0 .. m + 1 -> Seq(S)] /\ \A n \in 0 .. m : g[n] = f[n]
    BY <1>3, <1>4, <1>5, <1>6
  <1>8. g[m + 1] = f[m] \o e
    BY <1>2
  <1> HIDE DEF g
  <1>9. ASSUME NEW n \in 1 .. m + 1 PROVE g[n] = g[n - 1] \o t[n]
    <2>1. n - 1 \in 0 .. m
      BY <1>2
    <2>2. CASE n = m + 1
      <3>1. g[n - 1] = f[m]
        BY <1>2, <1>7, <2>1, <2>2
      <3> QED
        BY <1>2, <1>8, <2>2, <3>1
    <2>3. CASE n # m + 1
      <3>1. n \in 1 .. m /\ n \in 0 .. m
        BY <1>2, <2>3
      <3> QED
        BY <1>2, <1>3, <1>7, <2>1, <3>1
    <2> QED
      BY <2>2, <2>3
  <1>10. Flattens(g, t, S)
    <2>1. g[0] = <<>>
      BY <1>2, <1>3, <1>7
    <2> QED
      BY <1>2, <1>7, <1>9, <2>1 DEF Flattens
  <1>11. FlattenSeq(t) = g[m + 1]
    <2>1. FlattenSeq(t) = g[Len(t)]
      BY <1>2, <1>10, FlatIs
    <2> QED
      BY <1>2, <2>1
  <1> QED
    BY <1>1, <1>8, <1>11 DEF m, t

LEMMA FlatEmpty == FlattenSeq(<<>>) = <<>>
  BY DEF FlattenSeq

LEMMA FlatOne == ASSUME NEW S, NEW e \in Seq(S) PROVE FlattenSeq(<<e>>) = e
  <1>1. <<>> \in Seq(Seq(S)) /\ <<>> \in Seq(S) /\ Append(<<>>, e) = <<e>>
    BY EmptySeq
  <1>2. FlattenSeq(<<e>>) = <<>> \o e
    BY <1>1, FlatAppend, FlatEmpty
  <1> QED
    BY <1>2, ConcatEmptySeq

------------------------------------------------------------------------------
(* What is at a position of a sequence, and numbers of four bytes.         *)

\* What four bytes can count up to.
CountSpace == ByteSpace * ByteSpace * ByteSpace * ByteSpace

LEMMA QuotientBelow ==
    ASSUME NEW n \in Nat, NEW d \in Nat \ {0}, NEW x \in Nat, n < d * x
    PROVE  n \div d \in Nat /\ n \div d < x /\ n % d \in 0 .. d - 1 /\ n = (n % d) + d * (n \div d)
  <1> DEFINE q == n \div d
             r == n % d
  <1>1. q \in Nat /\ r \in 0 .. d - 1 /\ n = d * q + r
    BY DivMod
  <1> HIDE DEF q, r
  <1>2. q < x
    <2>1. SUFFICES ASSUME ~(q < x) PROVE FALSE
      OBVIOUS
    <2>2. PICK k \in Nat : q = x + k
      <3>1. q - x \in Nat /\ q = x + (q - x)
        BY <1>1, <2>1
      <3> QED
        BY <3>1
    <2>3. d * q = d * x + d * k /\ d * x \in Nat /\ d * k \in Nat
      BY <2>2
    <2> DEFINE a == d * q
               b == d * x
               c == d * k
    <2>4. a = b + c /\ b \in Nat /\ c \in Nat /\ n = a + r /\ n < b
      BY <1>1, <2>3
    <2> HIDE DEF a, b, c
    <2> QED
      BY <1>1, <2>4
  <1>3. n = r + d * q
    BY <1>1
  <1> QED
    BY <1>1, <1>2, <1>3 DEF q, r

LEMMA NumberType == ASSUME NEW n \in Nat PROVE Number(n) \in Seq(Bytes) /\ Len(Number(n)) = 4
  <1> DEFINE second == n \div ByteSpace
             third == second \div ByteSpace
             fourth == third \div ByteSpace
  <1>1. \A m \in Nat : m \div ByteSpace \in Nat /\ m % ByteSpace \in Bytes
    BY BytesType, DivMod DEF Bytes
  <1>2. second \in Nat /\ third \in Nat /\ fourth \in Nat
    <2>1. second \in Nat
      BY <1>1
    <2> HIDE DEF second
    <2>2. third \in Nat
      BY <1>1, <2>1
    <2> HIDE DEF third
    <2> QED
      BY <1>1, <2>1, <2>2
  <1>3. Number(n) = <<n % ByteSpace, second % ByteSpace, third % ByteSpace, fourth % ByteSpace>>
    BY DEF Number
  <1> HIDE DEF second, third, fourth
  <1>4. /\ n % ByteSpace \in Bytes /\ second % ByteSpace \in Bytes
        /\ third % ByteSpace \in Bytes /\ fourth % ByteSpace \in Bytes
    BY <1>1, <1>2
  <1> DEFINE a == n % ByteSpace
             b == second % ByteSpace
             c == third % ByteSpace
             d == fourth % ByteSpace
  <1> HIDE DEF a, b, c, d
  <1>5. <<a, b, c, d>> \in Seq(Bytes) /\ Len(<<a, b, c, d>>) = 4
    BY <1>4 DEF a, b, c, d
  <1> QED
    BY <1>3, <1>5 DEF a, b, c, d

\* The four bytes of a number make up the number.
LEMMA NumberIs ==
    ASSUME NEW n \in Nat, n < CountSpace
    PROVE  LET s == Number(n)
           IN  s[1] + ByteSpace * (s[2] + ByteSpace * (s[3] + ByteSpace * s[4])) = n
  <1> DEFINE B == ByteSpace
             second == n \div B
             third == second \div B
             fourth == third \div B
  <1>1. B \in Nat \ {0}
    BY BytesType
  <1>2. B * B \in Nat /\ B * (B * B) \in Nat /\ CountSpace = B * (B * (B * B))
    <2> HIDE DEF B
    <2>1. B * B \in Nat /\ B * (B * B) \in Nat /\ B * B * B * B = B * (B * (B * B))
      BY <1>1
    <2> QED
      BY <2>1 DEF CountSpace, B
  <1>3. Number(n) = <<n % B, second % B, third % B, fourth % B>>
    BY DEF Number
  <1> HIDE DEF B
  <1>4. second \in Nat /\ second < B * (B * B) /\ n = (n % B) + B * second
    BY <1>1, <1>2, QuotientBelow
  <1> HIDE DEF second
  <1>5. third \in Nat /\ third < B * B /\ second = (second % B) + B * third
    BY <1>1, <1>2, <1>4, QuotientBelow
  <1> HIDE DEF third
  <1>6. fourth \in Nat /\ fourth < B /\ third = (third % B) + B * fourth
    BY <1>1, <1>5, QuotientBelow
  <1> HIDE DEF fourth
  <1>7. fourth % B = fourth
    BY <1>1, <1>6
  <1> DEFINE s == Number(n)
  <1>8. s[1] = n % B /\ s[2] = second % B /\ s[3] = third % B /\ s[4] = fourth % B
    BY <1>3
  <1> HIDE DEF s
  <1>9. s[3] + B * s[4] = third
    BY <1>6, <1>7, <1>8
  <1>10. s[2] + B * (s[3] + B * s[4]) = second
    BY <1>5, <1>8, <1>9
  <1>11. s[1] + B * (s[2] + B * (s[3] + B * s[4])) = n
    BY <1>4, <1>8, <1>10
  <1> QED
    BY <1>11 DEF B, s

\* From position p on, the items are those of e.
HoldsAt(bytes, p, e) ==
    /\ p \in Nat \ {0} /\ p + Len(e) <= Len(bytes) + 1
    /\ \A j \in 1 .. Len(e) : bytes[p + j - 1] = e[j]

LEMMA HoldsItself == ASSUME NEW S, NEW e \in Seq(S) PROVE HoldsAt(e, 1, e)
  <1>1. Len(e) \in Nat /\ \A j \in 1 .. Len(e) : 1 + j - 1 = j
    OBVIOUS
  <1> QED
    BY <1>1 DEF HoldsAt

\* What is held by what is held.
LEMMA HoldsThrough ==
    ASSUME NEW s, Len(s) \in Nat, NEW t, Len(t) \in Nat, NEW e, Len(e) \in Nat, NEW p, NEW q,
           HoldsAt(s, p, t), HoldsAt(t, q, e)
    PROVE  HoldsAt(s, p + q - 1, e)
  <1> DEFINE l == Len(e)
             m == Len(t)
             n == Len(s)
  <1>1. p \in Nat \ {0} /\ p + m <= n + 1 /\ \A j \in 1 .. m : s[p + j - 1] = t[j]
    BY DEF HoldsAt
  <1>2. q \in Nat \ {0} /\ q + l <= m + 1 /\ \A j \in 1 .. l : t[q + j - 1] = e[j]
    BY DEF HoldsAt
  <1>3. l \in Nat /\ m \in Nat /\ n \in Nat
    OBVIOUS
  <1> HIDE DEF l, m, n
  <1>4. ASSUME NEW j \in 1 .. l PROVE s[(p + q - 1) + j - 1] = e[j]
    <2> DEFINE k == q + j - 1
    <2>1. k \in 1 .. m /\ p + k - 1 = (p + q - 1) + j - 1
      BY <1>1, <1>2, <1>3
    <2>2. t[k] = e[j]
      BY <1>2
    <2> HIDE DEF k
    <2>3. s[p + k - 1] = t[k]
      BY <1>1, <2>1
    <2> QED
      BY <2>1, <2>2, <2>3
  <1>5. p + q - 1 \in Nat \ {0} /\ (p + q - 1) + l <= n + 1
    BY <1>1, <1>2, <1>3
  <1> QED
    BY <1>4, <1>5 DEF HoldsAt, l, n

LEMMA HoldsBefore ==
    ASSUME NEW S, NEW s \in Seq(S), NEW t \in Seq(S), NEW e \in Seq(S), NEW p, HoldsAt(s, p, e)
    PROVE  HoldsAt(s \o t, p, e)
  <1> DEFINE w == s \o t
             m == Len(s)
             l == Len(e)
  <1>1. m \in Nat /\ l \in Nat /\ Len(t) \in Nat
    OBVIOUS
  <1>2. Len(w) = m + Len(t) /\ \A i \in 1 .. m : w[i] = s[i]
    OBVIOUS
  <1>3. p \in Nat \ {0} /\ p + l <= m + 1 /\ \A j \in 1 .. l : s[p + j - 1] = e[j]
    BY DEF HoldsAt
  <1> HIDE DEF w, m, l
  <1>4. \A j \in 1 .. l : p + j - 1 \in 1 .. m
    BY <1>1, <1>3
  <1>5. \A j \in 1 .. l : w[p + j - 1] = e[j]
    BY <1>2, <1>3, <1>4
  <1>6. p + l <= Len(w) + 1
    BY <1>1, <1>2, <1>3
  <1> QED
    BY <1>3, <1>5, <1>6 DEF HoldsAt, w, l

LEMMA HoldsAfter ==
    ASSUME NEW S, NEW s \in Seq(S), NEW e \in Seq(S)
    PROVE  HoldsAt(s \o e, Len(s) + 1, e)
  <1> DEFINE w == s \o e
             m == Len(s)
             l == Len(e)
  <1>1. m \in Nat /\ l \in Nat /\ m + 1 \in Nat \ {0}
    OBVIOUS
  <1>2. Len(w) = m + l /\ \A i \in 1 .. m + l : w[i] = IF i <= m THEN s[i] ELSE e[i - m]
    BY ConcatProperties
  <1> HIDE DEF w, m, l
  <1>3. ASSUME NEW j \in 1 .. l PROVE w[(m + 1) + j - 1] = e[j]
    <2> DEFINE i == (m + 1) + j - 1
    <2>1. i \in 1 .. m + l /\ ~(i <= m) /\ i - m = j
      BY <1>1
    <2> HIDE DEF i
    <2>2. w[i] = e[i - m]
      BY <1>2, <2>1
    <2> QED
      BY <2>1, <2>2 DEF i
  <1>4. (m + 1) + l <= Len(w) + 1
    BY <1>1, <1>2
  <1> QED
    BY <1>1, <1>3, <1>4 DEF HoldsAt, w, m, l


\* The two parts of what is held.
LEMMA HoldsParts ==
    ASSUME NEW S, NEW s, Len(s) \in Nat, NEW a \in Seq(S), NEW b \in Seq(S), NEW p,
           HoldsAt(s, p, a \o b)
    PROVE  HoldsAt(s, p, a) /\ HoldsAt(s, p + Len(a), b)
  <1> DEFINE w == a \o b
  <1>1. w \in Seq(S) /\ Len(w) \in Nat /\ Len(a) \in Nat /\ Len(b) \in Nat
    BY ConcatProperties, LenProperties
  <1>2. HoldsAt(w, 1, a)
    <2>1. HoldsAt(a, 1, a)
      BY HoldsItself
    <2> QED
      BY <2>1, HoldsBefore
  <1>3. HoldsAt(w, Len(a) + 1, b)
    BY HoldsAfter
  <1>4. HoldsAt(s, p, w)
    OBVIOUS
  <1> HIDE DEF w
  <1>5. p \in Nat
    BY <1>4 DEF HoldsAt
  <1>6. p + 1 - 1 = p /\ p + (Len(a) + 1) - 1 = p + Len(a)
    BY <1>1, <1>5
  <1>7. HoldsAt(s, p + 1 - 1, a)
    BY <1>1, <1>2, <1>4, HoldsThrough
  <1>8. HoldsAt(s, p + (Len(a) + 1) - 1, b)
    BY <1>1, <1>3, <1>4, HoldsThrough
  <1> QED
    BY <1>6, <1>7, <1>8

LEMMA NumberHeld ==
    ASSUME NEW s, NEW p, NEW n \in Nat, n < CountSpace, HoldsAt(s, p, Number(n))
    PROVE  NumberAt(s, p) = n
  <1> DEFINE e == Number(n)
  <1>1. e[1] + ByteSpace * (e[2] + ByteSpace * (e[3] + ByteSpace * e[4])) = n /\ Len(e) = 4
    BY NumberIs, NumberType
  <1>2. p \in Nat /\ \A j \in 1 .. Len(e) : s[p + j - 1] = e[j]
    BY DEF HoldsAt
  <1> HIDE DEF e
  <1>3. \A j \in 1 .. 4 : s[p + j - 1] = e[j]
    BY <1>1, <1>2
  <1>4. /\ s[p + 1 - 1] = e[1] /\ s[p + 2 - 1] = e[2]
        /\ s[p + 3 - 1] = e[3] /\ s[p + 4 - 1] = e[4]
    <2>1. 1 \in 1 .. 4 /\ 2 \in 1 .. 4 /\ 3 \in 1 .. 4 /\ 4 \in 1 .. 4
      OBVIOUS
    <2> QED
      BY <1>3, <2>1, Zenon
  <1>5. p + 1 - 1 = p /\ p + 2 - 1 = p + 1 /\ p + 3 - 1 = p + 2 /\ p + 4 - 1 = p + 3
    BY <1>2
  <1>6. s[p] = e[1] /\ s[p + 1] = e[2] /\ s[p + 2] = e[3] /\ s[p + 3] = e[4]
    BY <1>4, <1>5
  <1> QED
    BY <1>1, <1>6 DEF NumberAt

\* A sequence of fives as one.
LEMMA FlatFives ==
    ASSUME NEW S, NEW s \in Seq(Seq(S)), NEW m, m = Len(s), \A i \in 1 .. m : Len(s[i]) = 5
    PROVE  /\ FlattenSeq(s) \in Seq(S) /\ Len(FlattenSeq(s)) = 5 * m
           /\ \A i \in 1 .. m : HoldsAt(FlattenSeq(s), 5 * (i - 1) + 1, s[i])
  <1>1. m \in Nat /\ \A i \in 1 .. m : s[i] \in Seq(S)
    OBVIOUS
  <1>2. PICK f : Flattens(f, s, S) /\ FlattenSeq(s) = f[m]
    BY FlatSteps
  <1>3. /\ f \in [0 .. m -> Seq(S)] /\ f[0] = <<>>
        /\ \A n \in 1 .. m : f[n] = f[n - 1] \o s[n]
    BY <1>2 DEF Flattens
  <1> DEFINE Fives(w, n) == /\ Len(w) = 5 * n
                            /\ \A i \in 1 .. n : HoldsAt(w, 5 * (i - 1) + 1, s[i])
             G == {n \in 0 .. m : Fives(f[n], n)}
  <1>4. 0 \in G
    BY <1>1, <1>3
  <1>5. ASSUME NEW n \in 1 .. m, n - 1 \in G PROVE n \in G
    <2> DEFINE u == f[n - 1]
               v == s[n]
               w == f[n]
    <2>1. n \in Nat /\ n - 1 \in 0 .. m /\ n \in 0 .. m
      BY <1>1
    <2>2. u \in Seq(S) /\ v \in Seq(S) /\ w = u \o v /\ Len(v) = 5
      BY <1>1, <1>3, <2>1
    <2>3. Len(u) = 5 * (n - 1) /\ \A i \in 1 .. n - 1 : HoldsAt(u, 5 * (i - 1) + 1, s[i])
      BY <1>5
    <2> HIDE DEF u, w
    <2>4. Len(w) = 5 * n
      <3>1. Len(w) = Len(u) + 5
        <4> HIDE DEF v
        <4>1. Len(u \o v) = Len(u) + Len(v)
          BY <2>2, ConcatProperties
        <4> QED
          BY <2>2, <4>1
      <3> QED
        BY <2>1, <2>3, <3>1
    <2>5. ASSUME NEW i \in 1 .. n PROVE HoldsAt(w, 5 * (i - 1) + 1, s[i])
      <3>1. CASE i = n
        <4>1. HoldsAt(u \o v, Len(u) + 1, v)
          BY <2>2, HoldsAfter
        <4> QED
          BY <2>2, <2>3, <3>1, <4>1
      <3>2. CASE i # n
        <4>1. i \in 1 .. n - 1 /\ i \in 1 .. m
          BY <2>1, <3>2
        <4>2. HoldsAt(u, 5 * (i - 1) + 1, s[i]) /\ s[i] \in Seq(S)
          BY <1>1, <2>3, <4>1
        <4>3. HoldsAt(u \o v, 5 * (i - 1) + 1, s[i])
          BY <2>2, <4>2, HoldsBefore
        <4> QED
          BY <2>2, <4>3
      <3> QED
        BY <3>1, <3>2
    <2> QED
      BY <2>1, <2>4, <2>5 DEF w
  <1>6. \A n \in 0 .. m : n \in G
    <2> HIDE DEF G
    <2> QED
      BY <1>1, <1>4, <1>5, UpTo
  <1>7. m \in 0 .. m
    BY <1>1
  <1>8. Fives(f[m], m)
    BY <1>6, <1>7
  <1> QED
    BY <1>2, <1>3, <1>7, <1>8

------------------------------------------------------------------------------
(* The run lengths of a plane, and the plane they stand for.               *)

Copies(n, b) == [k \in 1 .. n |-> b]
Unrolled(runs) == [i \in 1 .. Len(runs) |-> Copies(runs[i][1], runs[i][2])]

LEMMA CopiesType ==
    ASSUME NEW B, NEW b \in B, NEW n \in Nat
    PROVE  /\ Copies(n, b) \in Seq(B)
           /\ Copies(1, b) = <<b>>
           /\ Copies(n + 1, b) = Copies(n, b) \o <<b>>
  <1>1. Copies(n, b) \in Seq(B) /\ Len(Copies(n, b)) = n
    BY DEF Copies
  <1>2. Copies(n + 1, b) \in Seq(B) /\ Len(Copies(n + 1, b)) = n + 1
    BY DEF Copies
  <1>3. Copies(1, b) = <<b>>
    BY DEF Copies
  <1> DEFINE w == Copies(n, b) \o <<b>>
             c == Copies(n + 1, b)
             d == Copies(n, b)
  <1>4. <<b>> \in Seq(B) /\ Len(<<b>>) = 1 /\ <<b>>[1] = b
    OBVIOUS
  <1>5. /\ w \in Seq(B) /\ Len(w) = n + 1
        /\ \A i \in 1 .. n + 1 : w[i] = IF i <= n THEN d[i] ELSE <<b>>[i - n]
    BY <1>1, <1>4, ConcatProperties
  <1>6. \A i \in 1 .. n : d[i] = b
    BY DEF Copies
  <1>7. \A i \in 1 .. n + 1 : c[i] = b
    BY DEF Copies
  <1> HIDE DEF w, c, d
  <1>8. ASSUME NEW i \in 1 .. n + 1 PROVE w[i] = c[i]
    <2>1. CASE i <= n
      BY <1>5, <1>6, <1>7, <2>1
    <2>2. CASE ~(i <= n)
      <3>1. i - n = 1
        BY <2>2
      <3> QED
        BY <1>4, <1>5, <1>7, <2>2, <3>1
    <2> QED
      BY <2>1, <2>2
  <1>9. w = c
    BY <1>2, <1>5, <1>8, SeqEqual DEF c
  <1> QED
    BY <1>1, <1>3, <1>9 DEF w, c

LEMMA UnrolledType ==
    ASSUME NEW B, NEW r, r \in Seq(Nat \X B)
    PROVE  Unrolled(r) \in Seq(Seq(B)) /\ Len(Unrolled(r)) = Len(r)
  <1>1. Len(r) \in Nat
    OBVIOUS
  <1>2. ASSUME NEW i \in 1 .. Len(r) PROVE Copies(r[i][1], r[i][2]) \in Seq(B)
    <2>1. r[i] \in Nat \X B
      OBVIOUS
    <2>2. r[i][1] \in Nat /\ r[i][2] \in B
      BY <2>1
    <2> QED
      BY <2>2, CopiesType
  <1> QED
    BY <1>1, <1>2 DEF Unrolled

LEMMA UnrolledAppend ==
    ASSUME NEW B
    PROVE  \A r \in Seq(Nat \X B), n \in Nat, b \in B :
              Unrolled(Append(r, <<n, b>>)) = Append(Unrolled(r), Copies(n, b))
  <1> TAKE r \in Seq(Nat \X B), n \in Nat, b \in B
  <1> DEFINE e == <<n, b>>
             s == Append(r, e)
             m == Len(r)
             u == Append(Unrolled(r), Copies(n, b))
  <1>1. e \in Nat \X B /\ e[1] = n /\ e[2] = b
    OBVIOUS
  <1>2. /\ s \in Seq(Nat \X B) /\ Len(s) = m + 1 /\ s[m + 1] = e /\ m \in Nat
        /\ \A i \in 1 .. m : s[i] = r[i]
    <2> HIDE DEF e
    <2> QED
      BY <1>1, AppendProperties
  <1>3. Unrolled(r) \in Seq(Seq(B)) /\ Len(Unrolled(r)) = m /\ Copies(n, b) \in Seq(B)
    BY UnrolledType, CopiesType
  <1>4. /\ u \in Seq(Seq(B)) /\ Len(u) = m + 1 /\ u[m + 1] = Copies(n, b)
        /\ \A i \in 1 .. m : u[i] = Unrolled(r)[i]
    BY <1>3, AppendProperties
  <1>5. \A i \in 1 .. m : Unrolled(r)[i] = Copies(r[i][1], r[i][2])
    BY DEF Unrolled
  <1>6. Unrolled(s) = [i \in 1 .. m + 1 |-> Copies(s[i][1], s[i][2])]
    BY <1>2 DEF Unrolled
  <1> HIDE DEF e, s, u, m
  <1>7. ASSUME NEW i \in 1 .. m + 1 PROVE u[i] = Copies(s[i][1], s[i][2])
    <2>1. i = m + 1 \/ i \in 1 .. m
      BY <1>2
    <2> QED
      BY <1>1, <1>2, <1>4, <1>5, <2>1
  <1>8. Unrolled(s) \in Seq(Seq(B)) /\ Len(Unrolled(s)) = m + 1
    BY <1>2, UnrolledType
  <1>9. u = Unrolled(s)
    BY <1>4, <1>6, <1>7, <1>8, SeqEqual
  <1> QED
    BY <1>9 DEF u, s, e

\* r are the runs of the first n bytes.
IsRuns(r, plane, B, n) ==
    /\ r \in Seq((1 .. n) \X B) /\ Len(r) <= n
    /\ FlattenSeq(Unrolled(r)) = SubSeq(plane, 1, n)

LEMMA RunsAreRuns ==
    ASSUME NEW B, NEW n \in Nat, NEW m \in Nat, n <= m, NEW r, r \in Seq((1 .. n) \X B)
    PROVE  r \in Seq((1 .. m) \X B) /\ r \in Seq(Nat \X B)
  <1>1. (1 .. n) \X B \subseteq (1 .. m) \X B /\ (1 .. n) \X B \subseteq Nat \X B
    OBVIOUS
  <1> QED
    BY <1>1, SeqMonotonic

\* A nonempty sequence is its front and its last element.
LEMMA FrontAndLast ==
    ASSUME NEW S, NEW s \in Seq(S), s # <<>>
    PROVE  /\ Front(s) \in Seq(S) /\ Last(s) \in S /\ s = Append(Front(s), Last(s))
           /\ Len(Front(s)) = Len(s) - 1
  <1>1. PICK q \in Seq(S), e \in S : s = Append(q, e)
    BY SequenceEmptyOrAppend
  <1>2. Len(s) = Len(q) + 1 /\ s[Len(s)] = e /\ (\A i \in 1 .. Len(q) : s[i] = q[i]) /\ Len(q) \in Nat
    BY <1>1, AppendProperties
  <1>3. Front(s) = SubSeq(s, 1, Len(q))
    BY <1>2 DEF Front
  <1>4. SubSeq(s, 1, Len(q)) \in Seq(S) /\ Len(SubSeq(s, 1, Len(q))) = Len(q)
        /\ \A i \in 1 .. Len(q) : SubSeq(s, 1, Len(q))[i] = s[i]
    BY <1>2
  <1>5. Front(s) = q
    BY <1>2, <1>3, <1>4, SeqEqual
  <1> QED
    BY <1>1, <1>2, <1>5 DEF Last

LEMMA ExtendedType ==
    ASSUME NEW B, NEW r, r \in Seq(Nat \X B), NEW b \in B
    PROVE  Extended(r, b) \in Seq(Nat \X B)
  <1>1. <<1, b>> \in Nat \X B
    OBVIOUS
  <1>2. CASE r # <<>> /\ Last(r)[2] = b
    <2>1. Front(r) \in Seq(Nat \X B) /\ Last(r) \in Nat \X B
      BY <1>2, FrontAndLast
    <2>2. <<Last(r)[1] + 1, b>> \in Nat \X B
      BY <2>1
    <2>3. Append(Front(r), <<Last(r)[1] + 1, b>>) \in Seq(Nat \X B)
      BY <2>1, <2>2, AppendProperties
    <2> QED
      BY <1>2, <2>3 DEF Extended
  <1>3. CASE ~(r # <<>> /\ Last(r)[2] = b)
    <2>1. Append(r, <<1, b>>) \in Seq(Nat \X B)
      BY <1>1, AppendProperties
    <2> QED
      BY <1>3, <2>1 DEF Extended
  <1> QED
    BY <1>2, <1>3

LEMMA ExtendedRuns ==
    ASSUME NEW B, NEW plane \in Seq(B), NEW n \in 1 .. Len(plane), NEW r,
           IsRuns(r, plane, B, n - 1)
    PROVE  IsRuns(Extended(r, plane[n]), plane, B, n)
  <1> DEFINE b == plane[n]
             R == (1 .. n) \X B
  <1>0. \A s \in Seq(Nat \X B), x \in Nat, y \in B :
          Unrolled(Append(s, <<x, y>>)) = Append(Unrolled(s), Copies(x, y))
    BY UnrolledAppend, Zenon
  <1>1. b \in B /\ n \in Nat /\ n - 1 \in Nat /\ n >= 1 /\ n - 1 <= n
    OBVIOUS
  <1>2. r \in Seq((1 .. n - 1) \X B) /\ Len(r) <= n - 1
        /\ FlattenSeq(Unrolled(r)) = SubSeq(plane, 1, n - 1)
    BY DEF IsRuns
  <1>3. r \in Seq(R) /\ r \in Seq(Nat \X B)
    BY <1>1, <1>2, RunsAreRuns
  <1>4. SubSeq(plane, 1, n) = SubSeq(plane, 1, n - 1) \o <<b>>
    <2>1. 1 \in 1 .. Len(plane) /\ n \in 1 .. Len(plane)
      OBVIOUS
    <2> QED
      BY <2>1, SubSeqRecursiveSecond
  <1> HIDE DEF b
  <1>5. CASE r # <<>> /\ Last(r)[2] = b
    <2> DEFINE q == Front(r)
               e == Last(r)
               c == e[1]
               F == FlattenSeq(Unrolled(q))
    <2>1. /\ q \in Seq((1 .. n - 1) \X B) /\ e \in (1 .. n - 1) \X B /\ r = Append(q, e)
          /\ Len(q) = Len(r) - 1
      BY <1>2, <1>5, FrontAndLast
    <2>2. q \in Seq(R) /\ q \in Seq(Nat \X B)
      BY <1>1, <2>1, RunsAreRuns
    <2>3. c \in 1 .. n - 1 /\ e = <<c, b>>
      BY <1>5, <2>1
    <2>4. Extended(r, b) = Append(q, <<c + 1, b>>)
      BY <1>5 DEF Extended
    <2> HIDE DEF q, e, c
    <2>5. c \in Nat /\ c + 1 \in Nat /\ c + 1 \in 1 .. n
      BY <1>1, <2>3
    <2>6. Unrolled(q) \in Seq(Seq(B)) /\ Copies(c, b) \in Seq(B) /\ Copies(c + 1, b) \in Seq(B)
      BY <1>1, <2>2, <2>5, UnrolledType, CopiesType
    <2>7. Unrolled(r) = Append(Unrolled(q), Copies(c, b))
      BY <1>0, <1>1, <2>1, <2>2, <2>3, <2>5
    <2>8. Unrolled(Extended(r, b)) = Append(Unrolled(q), Copies(c + 1, b))
      BY <1>0, <1>1, <2>2, <2>4, <2>5
    <2>9. FlattenSeq(Unrolled(r)) = F \o Copies(c, b)
      BY <2>6, <2>7, FlatAppend
    <2>10. FlattenSeq(Unrolled(Extended(r, b))) = F \o Copies(c + 1, b)
      BY <2>6, <2>8, FlatAppend
    <2>11. F \o Copies(c + 1, b) = (F \o Copies(c, b)) \o <<b>>
      <3>1. F \in Seq(B)
        BY <2>6, FlatType
      <3>2. <<b>> \in Seq(B)
        BY <1>1
      <3>3. Copies(c + 1, b) = Copies(c, b) \o <<b>>
        BY <1>1, <2>5, CopiesType
      <3> DEFINE one == <<b>>
                 d == Copies(c, b)
      <3>4. one \in Seq(B) /\ d \in Seq(B)
        BY <2>6, <3>2
      <3> HIDE DEF F, one, d
      <3>5. (F \o d) \o one = F \o (d \o one)
        BY <3>1, <3>4
      <3> QED
        BY <3>3, <3>5 DEF one, d
    <2>12. FlattenSeq(Unrolled(Extended(r, b))) = SubSeq(plane, 1, n)
      BY <1>2, <1>4, <2>9, <2>10, <2>11
    <2>13. Extended(r, b) \in Seq(R) /\ Len(Extended(r, b)) <= n
      <3>1. <<c + 1, b>> \in R
        BY <1>1, <2>5
      <3>2. Append(q, <<c + 1, b>>) \in Seq(R) /\ Len(Append(q, <<c + 1, b>>)) = Len(q) + 1
        <4> HIDE DEF R
        <4> QED
          BY <2>2, <3>1, AppendProperties
      <3>3. Len(r) \in Nat
        BY <1>2, LenProperties
      <3> QED
        BY <1>1, <1>2, <2>1, <2>4, <3>2, <3>3
    <2> QED
      BY <2>12, <2>13 DEF IsRuns, b
  <1>6. CASE ~(r # <<>> /\ Last(r)[2] = b)
    <2>1. Extended(r, b) = Append(r, <<1, b>>)
      BY <1>6 DEF Extended
    <2>2. Unrolled(Extended(r, b)) = Append(Unrolled(r), Copies(1, b))
      BY <1>0, <1>1, <1>3, <2>1
    <2>3. Unrolled(r) \in Seq(Seq(B)) /\ Copies(1, b) \in Seq(B) /\ Copies(1, b) = <<b>>
      <3>1. Unrolled(r) \in Seq(Seq(B))
        BY <1>3, UnrolledType
      <3>2. 1 \in Nat
        OBVIOUS
      <3> QED
        BY <1>1, <3>1, <3>2, CopiesType
    <2>4. FlattenSeq(Unrolled(Extended(r, b))) = FlattenSeq(Unrolled(r)) \o <<b>>
      BY <2>2, <2>3, FlatAppend
    <2>5. FlattenSeq(Unrolled(Extended(r, b))) = SubSeq(plane, 1, n)
      BY <1>2, <1>4, <2>4
    <2>6. Extended(r, b) \in Seq(R) /\ Len(Extended(r, b)) <= n
      <3>1. <<1, b>> \in R
        BY <1>1
      <3>2. Append(r, <<1, b>>) \in Seq(R) /\ Len(Append(r, <<1, b>>)) = Len(r) + 1
        <4> HIDE DEF R
        <4> QED
          BY <1>3, <3>1, AppendProperties
      <3>3. Len(r) \in Nat
        BY <1>2, LenProperties
      <3> QED
        BY <1>1, <1>2, <2>1, <3>2, <3>3
    <2> QED
      BY <2>5, <2>6 DEF IsRuns, b
  <1> QED
    BY <1>5, <1>6

LEMMA RunsOfPlane ==
    ASSUME NEW B, NEW plane \in Seq(B)
    PROVE  /\ IsRuns(Runs(plane), plane, B, Len(plane))
           /\ FlattenSeq(Unrolled(Runs(plane))) = plane
  <1> DEFINE m == Len(plane)
             X == Seq(Nat \X B)
             step == [n \in 1 .. m |-> [x \in X |-> Extended(x, plane[n])]]
             IsUpTo(g) == g = [n \in 0 .. m |->
                                 IF n = 0 THEN <<>> ELSE Extended(g[n - 1], plane[n])]
             upTo == CHOOSE g : IsUpTo(g)
  <1>1. m \in Nat /\ \A n \in 1 .. m : plane[n] \in B
    OBVIOUS
  <1>2. AreSteps(step, X, m) /\ <<>> \in X
    <2>1. ASSUME NEW n \in 1 .. m PROVE \A x \in X : Extended(x, plane[n]) \in X
      BY <1>1, ExtendedType
    <2>2. <<>> \in X
      OBVIOUS
    <2> HIDE DEF X, m
    <2> QED
      BY <2>1, <2>2 DEF AreSteps
  <1>3. PICK f : Leads(f, X, <<>>, m, step)
    <2> HIDE DEF X, m, step
    <2> QED
      BY <1>1, <1>2, StepsLead
  <1>4. IsUpTo(f)
    <2>1. ASSUME NEW n \in 1 .. m PROVE f[n] = Extended(f[n - 1], plane[n])
      <3>1. n - 1 \in 0 .. m
        BY <1>1
      <3>2. f[n - 1] \in X /\ f[n] = step[n][f[n - 1]]
        BY <1>3, <3>1 DEF Leads
      <3> HIDE DEF X, m
      <3> QED
        BY <3>2
    <2>2. f \in [0 .. m -> X] /\ f[0] = <<>>
      BY <1>3 DEF Leads
    <2>3. \A n \in 0 .. m : n = 0 \/ n \in 1 .. m
      BY <1>1
    <2> HIDE DEF X, m
    <2>4. \A n \in 0 .. m : f[n] = IF n = 0 THEN <<>> ELSE Extended(f[n - 1], plane[n])
      BY <2>1, <2>2, <2>3
    <2> QED
      BY <2>2, <2>4
  <1>5. IsUpTo(upTo)
    <2> HIDE DEF IsUpTo
    <2> QED
      BY <1>4
  <1>6. \A n \in 0 .. m : upTo[n] = IF n = 0 THEN <<>> ELSE Extended(upTo[n - 1], plane[n])
    <2> HIDE DEF m, upTo
    <2> QED
      BY <1>5
  <1>7. Runs(plane) = upTo[m]
    BY DEF Runs
  <1> HIDE DEF upTo, IsUpTo
  <1> DEFINE G == {n \in 0 .. m : IsRuns(upTo[n], plane, B, n)}
  <1>8. 0 \in G
    <2>1. upTo[0] = <<>>
      BY <1>1, <1>6
    <2>2. Unrolled(<<>>) = <<>>
      BY DEF Unrolled
    <2>3. SubSeq(plane, 1, 0) = <<>>
      BY SubSeqEmpty
    <2>4. IsRuns(<<>>, plane, B, 0)
      <3>1. <<>> \in Seq((1 .. 0) \X B) /\ Len(<<>>) = 0
        BY EmptySeq
      <3>2. FlattenSeq(Unrolled(<<>>)) = SubSeq(plane, 1, 0)
        BY <2>2, <2>3, FlatEmpty
      <3> QED
        BY <3>1, <3>2 DEF IsRuns
    <2> QED
      BY <1>1, <2>1, <2>4
  <1>9. ASSUME NEW n \in 1 .. m, n - 1 \in G PROVE n \in G
    <2>1. upTo[n] = Extended(upTo[n - 1], plane[n])
      <3>1. n \in 0 .. m /\ n # 0
        BY <1>1
      <3> QED
        BY <1>6, <3>1
    <2>2. IsRuns(upTo[n - 1], plane, B, n - 1)
      BY <1>9
    <2>3. IsRuns(upTo[n], plane, B, n)
      BY <2>1, <2>2, ExtendedRuns
    <2>4. n \in 0 .. m
      BY <1>1
    <2> QED
      BY <2>3, <2>4
  <1>10. \A n \in 0 .. m : n \in G
    <2> HIDE DEF G, m
    <2> QED
      BY <1>1, <1>8, <1>9, UpTo
  <1>11. IsRuns(upTo[m], plane, B, m)
    <2>1. m \in G
      <3> HIDE DEF G
      <3> QED
        BY <1>1, <1>10
    <2> QED
      BY <2>1
  <1>12. SubSeq(plane, 1, m) = plane
    BY SubSeqFull
  <1> QED
    BY <1>7, <1>11, <1>12 DEF IsRuns

------------------------------------------------------------------------------
(* What is read back from the body of a payload.                           *)

WrittenRuns(runs) == [i \in 1 .. Len(runs) |-> Written(runs[i])]

LEMMA WrittenType ==
    ASSUME NEW B, Bytes \in SUBSET B, NEW r \in Seq(Nat \X B)
    PROVE  /\ WrittenRuns(r) \in Seq(Seq(B)) /\ Len(WrittenRuns(r)) = Len(r) /\ Len(r) \in Nat
           /\ \A i \in 1 .. Len(r) : /\ WrittenRuns(r)[i] = Number(r[i][1]) \o <<r[i][2]>>
                                     /\ Number(r[i][1]) \in Seq(B) /\ Len(Number(r[i][1])) = 4
                                     /\ <<r[i][2]>> \in Seq(B) /\ Len(WrittenRuns(r)[i]) = 5
  <1> DEFINE m == Len(r)
             s == WrittenRuns(r)
  <1>1. m \in Nat /\ s = [i \in 1 .. m |-> Written(r[i])]
    BY DEF WrittenRuns
  <1>2. ASSUME NEW i \in 1 .. m
        PROVE  /\ Written(r[i]) = Number(r[i][1]) \o <<r[i][2]>>
               /\ Number(r[i][1]) \in Seq(B) /\ Len(Number(r[i][1])) = 4
               /\ <<r[i][2]>> \in Seq(B) /\ Written(r[i]) \in Seq(B) /\ Len(Written(r[i])) = 5
    <2> DEFINE c == r[i][1]
               v == r[i][2]
    <2>1. c \in Nat /\ v \in B
      <3>1. r[i] \in Nat \X B
        OBVIOUS
      <3> QED
        BY <3>1
    <2>2. Written(r[i]) = Number(c) \o <<v>>
      BY DEF Written
    <2> HIDE DEF c, v
    <2>3. Number(c) \in Seq(B) /\ Len(Number(c)) = 4
      BY <2>1, NumberType, SeqMonotonic
    <2>4. <<v>> \in Seq(B) /\ Len(<<v>>) = 1
      BY <2>1
    <2>5. Number(c) \o <<v>> \in Seq(B) /\ Len(Number(c) \o <<v>>) = 5
      <3> DEFINE x == Number(c)
                 y == <<v>>
      <3>1. x \in Seq(B) /\ y \in Seq(B) /\ Len(x) = 4 /\ Len(y) = 1
        BY <2>3, <2>4
      <3> HIDE DEF x, y
      <3>2. x \o y \in Seq(B) /\ Len(x \o y) = Len(x) + Len(y)
        BY <3>1, ConcatProperties
      <3>3. Len(x \o y) = 5
        BY <3>1, <3>2
      <3> QED
        BY <3>2, <3>3 DEF x, y
    <2> QED
      BY <2>2, <2>3, <2>4, <2>5 DEF c, v
  <1> HIDE DEF m, s
  <1>3. s \in Seq(Seq(B)) /\ Len(s) = m
    <2>1. \A i \in 1 .. m : Written(r[i]) \in Seq(B)
      BY <1>2
    <2> QED
      BY <1>1, <2>1
  <1>4. \A i \in 1 .. m : s[i] = Written(r[i])
    BY <1>1
  <1> QED
    BY <1>1, <1>2, <1>3, <1>4 DEF m, s

\* The run lengths of a plane are written as bytes.
LEMMA RleType ==
    ASSUME NEW B, Bytes \in SUBSET B, NEW plane \in Seq(B), NEW r, r = Runs(plane)
    PROVE  /\ RleEncode(plane) = Number(Len(r)) \o FlattenSeq(WrittenRuns(r))
           /\ RleEncode(plane) \in Seq(B) /\ Len(RleEncode(plane)) = 4 + 5 * Len(r)
           /\ r \in Seq(Nat \X B) /\ Len(r) \in Nat /\ Len(r) <= Len(plane)
           /\ \A i \in 1 .. Len(r) : r[i][1] \in 1 .. Len(plane)
           /\ Number(Len(r)) \in Seq(B) /\ Len(Number(Len(r))) = 4
           /\ FlattenSeq(WrittenRuns(r)) \in Seq(B)
  <1>1. r \in Seq((1 .. Len(plane)) \X B) /\ Len(r) <= Len(plane) /\ Len(plane) \in Nat
    BY RunsOfPlane, LenProperties DEF IsRuns
  <1>2. r \in Seq(Nat \X B) /\ Len(r) \in Nat
    BY <1>1, RunsAreRuns, LenProperties
  <1>3. \A i \in 1 .. Len(r) : r[i][1] \in 1 .. Len(plane)
    <2>1. \A i \in 1 .. Len(r) : r[i] \in (1 .. Len(plane)) \X B
      BY <1>1
    <2> QED
      BY <2>1
  <1> DEFINE x == Number(Len(r))
             y == FlattenSeq(WrittenRuns(r))
  <1>4. x \in Seq(B) /\ Len(x) = 4
    BY <1>2, NumberType, SeqMonotonic
  <1>5. y \in Seq(B) /\ Len(y) = 5 * Len(r)
    <2>1. /\ WrittenRuns(r) \in Seq(Seq(B)) /\ Len(WrittenRuns(r)) = Len(r)
          /\ \A i \in 1 .. Len(r) : Len(WrittenRuns(r)[i]) = 5
      <3>1. /\ WrittenRuns(r) \in Seq(Seq(B)) /\ Len(WrittenRuns(r)) = Len(r) /\ Len(r) \in Nat
            /\ \A i \in 1 .. Len(r) :
                  /\ WrittenRuns(r)[i] = Number(r[i][1]) \o <<r[i][2]>>
                  /\ Number(r[i][1]) \in Seq(B) /\ Len(Number(r[i][1])) = 4
                  /\ <<r[i][2]>> \in Seq(B) /\ Len(WrittenRuns(r)[i]) = 5
        BY <1>2, WrittenType
      <3> QED
        BY <3>1, Zenon
    <2> QED
      BY <2>1, FlatFives
  <1>6. RleEncode(plane) = x \o y
    BY DEF RleEncode, WrittenRuns
  <1> HIDE DEF x, y
  <1>7. x \o y \in Seq(B) /\ Len(x \o y) = 4 + 5 * Len(r)
    <2>1. x \o y \in Seq(B) /\ Len(x \o y) = Len(x) + Len(y)
      BY <1>4, <1>5, ConcatProperties
    <2> QED
      BY <1>4, <1>5, <2>1
  <1> QED
    BY <1>1, <1>2, <1>3, <1>4, <1>5, <1>6, <1>7 DEF x, y

\* The runs r of a plane of l values are read at position p.
RunsAt(body, p, r, l) ==
    /\ p \in Nat \ {0} /\ Len(r) \in Nat /\ NumberAt(body, p) = Len(r)
    /\ \A i \in 1 .. Len(r) :
         /\ NumberAt(body, p + 4 + 5 * (i - 1)) = r[i][1] /\ r[i][1] \in 1 .. l
         /\ body[p + 4 + 5 * (i - 1) + 4] = r[i][2]

LEMMA EncodedPlane ==
    ASSUME NEW plane \in Seq(Nat), Len(plane) < CountSpace, NEW body, Len(body) \in Nat, NEW p,
           HoldsAt(body, p, RleEncode(plane))
    PROVE  RunsAt(body, p, Runs(plane), Len(plane))
  <1> DEFINE r == Runs(plane)
             m == Len(r)
             l == Len(plane)
             x == Number(m)
             t == WrittenRuns(r)
             y == FlattenSeq(t)
  <1>1. /\ RleEncode(plane) = x \o y /\ x \in Seq(Nat) /\ Len(x) = 4 /\ y \in Seq(Nat)
        /\ r \in Seq(Nat \X Nat) /\ m \in Nat /\ m <= l
        /\ \A i \in 1 .. m : r[i][1] \in 1 .. l
    BY BytesType, RleType
  <1>2. /\ t \in Seq(Seq(Nat)) /\ Len(t) = m
        /\ \A i \in 1 .. m : /\ t[i] = Number(r[i][1]) \o <<r[i][2]>>
                             /\ Number(r[i][1]) \in Seq(Nat) /\ Len(Number(r[i][1])) = 4
                             /\ <<r[i][2]>> \in Seq(Nat) /\ Len(t[i]) = 5
    <2> HIDE DEF r
    <2> QED
      BY <1>1, BytesType, WrittenType
  <1>3. l \in Nat /\ CountSpace \in Nat /\ l < CountSpace
    BY BytesType DEF CountSpace
  <1>4. HoldsAt(body, p, x \o y)
    BY <1>1
  <1> HIDE DEF r, m, l, x, t
  <1>5. Len(y) \in Nat /\ \A i \in 1 .. m : HoldsAt(y, 5 * (i - 1) + 1, t[i])
    <2>1. /\ FlattenSeq(t) \in Seq(Nat)
          /\ \A i \in 1 .. m : HoldsAt(FlattenSeq(t), 5 * (i - 1) + 1, t[i])
      BY <1>2, FlatFives
    <2> QED
      BY <2>1, LenProperties
  <1> HIDE DEF y
  <1>6. HoldsAt(body, p, x) /\ HoldsAt(body, p + 4, y) /\ p \in Nat \ {0}
    <2>1. HoldsAt(body, p, x) /\ HoldsAt(body, p + Len(x), y)
      BY <1>1, <1>4, HoldsParts
    <2> QED
      BY <1>1, <2>1 DEF HoldsAt
  <1>7. NumberAt(body, p) = m
    <2>1. m < CountSpace
      BY <1>1, <1>3
    <2> QED
      BY <1>1, <1>6, <2>1, NumberHeld DEF x
  <1>8. ASSUME NEW i \in 1 .. m
        PROVE  /\ NumberAt(body, p + 4 + 5 * (i - 1)) = r[i][1] /\ r[i][1] \in 1 .. l
               /\ body[p + 4 + 5 * (i - 1) + 4] = r[i][2]
    <2> DEFINE k == p + 4 + 5 * (i - 1)
               c == r[i][1]
               v == r[i][2]
               a == Number(c)
    <2>1. k \in Nat /\ (p + 4) + (5 * (i - 1) + 1) - 1 = k
      BY <1>1, <1>6
    <2>2. /\ t[i] = a \o <<v>> /\ a \in Seq(Nat) /\ Len(a) = 4 /\ <<v>> \in Seq(Nat)
          /\ Len(t[i]) = 5
      BY <1>2
    <2>3. c \in 1 .. l
      BY <1>1
    <2>4. c \in Nat /\ c < CountSpace
      <3> HIDE DEF c
      <3> QED
        BY <1>3, <2>3
    <2> HIDE DEF k, c, v, a
    <2>5. HoldsAt(body, k, t[i])
      <3> DEFINE e == t[i]
                 j == 5 * (i - 1) + 1
                 o == p + 4
      <3>1. HoldsAt(y, j, e) /\ HoldsAt(body, o, y)
        BY <1>5, <1>6, Zenon
      <3>3. Len(e) \in Nat /\ Len(y) \in Nat /\ Len(body) \in Nat
        BY <1>5, <2>2
      <3> HIDE DEF e, j, o
      <3>4. HoldsAt(body, o + j - 1, e)
        BY <3>1, <3>3, HoldsThrough
      <3>2. HoldsAt(body, (p + 4) + (5 * (i - 1) + 1) - 1, t[i])
        BY <3>4 DEF e, j, o
      <3> QED
        BY <2>1, <3>2
    <2>6. HoldsAt(body, k, a) /\ HoldsAt(body, k + 4, <<v>>)
      <3>1. HoldsAt(body, k, a \o <<v>>)
        BY <2>2, <2>5
      <3>2. HoldsAt(body, k, a) /\ HoldsAt(body, k + Len(a), <<v>>)
        BY <2>2, <3>1, HoldsParts
      <3> QED
        BY <2>2, <3>2
    <2>7. NumberAt(body, k) = c
      BY <2>4, <2>6, NumberHeld DEF a
    <2>8. body[k + 4] = v
      <3>1. \A j \in 1 .. Len(<<v>>) : body[(k + 4) + j - 1] = <<v>>[j]
        BY <2>6 DEF HoldsAt
      <3>2. Len(<<v>>) = 1 /\ <<v>>[1] = v /\ (k + 4) + 1 - 1 = k + 4
        BY <2>1
      <3>3. body[(k + 4) + 1 - 1] = <<v>>[1]
        BY <3>1, <3>2
      <3> QED
        BY <3>2, <3>3
    <2> QED
      BY <2>3, <2>7, <2>8 DEF k, c, v
  <1>9. RunsAt(body, p, r, l)
    BY <1>1, <1>6, <1>7, <1>8 DEF RunsAt, m
  <1> QED
    BY <1>9 DEF r, l

LEMMA PlaneRead ==
    ASSUME NEW plane \in Seq(Nat), Len(plane) < CountSpace, NEW body, Len(body) \in Nat, NEW p,
           HoldsAt(body, p, RleEncode(plane))
    PROVE  ReadPlane(body, p, Len(plane)) =
              {[plane |-> plane, next |-> p + Len(RleEncode(plane))]}
  <1> DEFINE r == Runs(plane)
             m == Len(r)
             l == Len(plane)
             e == RleEncode(plane)
             run(i) == p + 4 + 5 * (i - 1)
             next == p + 4 + 5 * m
  <1>1. /\ p \in Nat \ {0} /\ m \in Nat /\ NumberAt(body, p) = m
        /\ \A i \in 1 .. m : /\ NumberAt(body, run(i)) = r[i][1] /\ r[i][1] \in 1 .. l
                             /\ body[run(i) + 4] = r[i][2]
    BY EncodedPlane DEF RunsAt
  <1>2. Len(e) = 4 + 5 * m
    BY BytesType, RleType
  <1>3. p + Len(e) <= Len(body) + 1
    BY DEF HoldsAt
  <1>4. FlattenSeq(Unrolled(r)) = plane
    BY RunsOfPlane
  <1>5. Unrolled(r) = [i \in 1 .. m |-> Copies(r[i][1], r[i][2])]
    BY DEF Unrolled
  <1>6. RleDecode(body, p + 4, m) =
          FlattenSeq([i \in 1 .. m |-> Copies(NumberAt(body, run(i)), body[run(i) + 4])])
    BY DEF RleDecode, Copies
  <1>7. l \in Nat
    OBVIOUS
  <1> HIDE DEF e, r, m, l, run
  <1>8. RleDecode(body, p + 4, m) = plane
    <2>1. [i \in 1 .. m |-> Copies(NumberAt(body, run(i)), body[run(i) + 4])] =
          [i \in 1 .. m |-> Copies(r[i][1], r[i][2])]
      BY <1>1
    <2> QED
      BY <1>4, <1>5, <1>6, <2>1
  <1>9. next = p + Len(e) /\ next <= Len(body) + 1 /\ ~(p + 4 > Len(body) + 1)
    BY <1>1, <1>2, <1>3
  <1>10. \A i \in 1 .. m : NumberAt(body, run(i)) # 0
    <2>1. ASSUME NEW i \in 1 .. m, NumberAt(body, run(i)) = 0 PROVE FALSE
      <3>1. 0 \in 1 .. l
        BY <1>1, <2>1
      <3> QED
        BY <1>7, <3>1
    <2> QED
      BY <2>1
  <1>11. ReadPlane(body, p, Len(plane)) =
           {[plane |-> RleDecode(body, p + 4, m), next |-> next]}
    <2>1. ReadPlane(body, p, Len(plane)) =
            IF p + 4 > Len(body) + 1 THEN {}
            ELSE IF /\ p + 4 + 5 * m <= Len(body) + 1
                    /\ \A i \in 1 .. m : NumberAt(body, run(i)) # 0
                    /\ Len(RleDecode(body, p + 4, m)) = Len(plane)
                 THEN {[plane |-> RleDecode(body, p + 4, m), next |-> p + 4 + 5 * m]} ELSE {}
      BY <1>1 DEF ReadPlane, run
    <2> QED
      BY <1>8, <1>9, <1>10, <2>1
  <1> QED
    BY <1>8, <1>9, <1>11 DEF e

------------------------------------------------------------------------------
(* A frame that is encoded and decoded.                                    *)

LEMMA ConcatGroups ==
    ASSUME NEW a \in Seq(Nat), NEW b \in Seq(Nat), NEW c \in Seq(Nat)
    PROVE  (a \o b) \o c = a \o (b \o c)
  <1> DEFINE x == (a \o b) \o c
             y == a \o (b \o c)
  <1>1. x \in Seq(Nat) /\ y \in Seq(Nat) /\ Len(x) = Len(y)
    OBVIOUS
  <1>2. \A i \in 1 .. Len(x) : x[i] = y[i]
    OBVIOUS
  <1> HIDE DEF x, y
  <1>3. x = y
    BY <1>1, <1>2, SeqEqual
  <1> QED
    BY <1>3 DEF x, y

\* What follows a header.
LEMMA AfterHeader ==
    ASSUME NEW h \in Seq(Nat), NEW b \in Seq(Nat), NEW n, n = Len(h)
    PROVE  /\ h \o b \in Seq(Nat) /\ Len(h \o b) = n + Len(b)
           /\ SubSeq(h \o b, n + 1, Len(h \o b)) = b
           /\ \A i \in 1 .. n : (h \o b)[i] = h[i]
           /\ \A i \in 1 .. Len(b) : (h \o b)[n + i] = b[i]
  <1> DEFINE w == h \o b
             m == Len(b)
             s == SubSeq(w, n + 1, n + m)
  <1>1. n \in Nat /\ m \in Nat
    OBVIOUS
  <1>2. /\ w \in Seq(Nat) /\ Len(w) = n + m
        /\ \A i \in 1 .. n + m : w[i] = IF i <= n THEN h[i] ELSE b[i - n]
    BY ConcatProperties
  <1> HIDE DEF w
  <1>3. ASSUME NEW i \in 1 .. m PROVE w[n + i] = b[i]
    <2> DEFINE j == n + i
    <2>1. j \in 1 .. n + m /\ ~(j <= n) /\ j - n = i
      BY <1>1
    <2> HIDE DEF j, m
    <2>2. w[j] = b[j - n]
      BY <1>2, <2>1
    <2> QED
      BY <2>1, <2>2 DEF j
  <1>4. \A i \in 1 .. n : w[i] = h[i]
    BY <1>1, <1>2
  <1>5. \A i \in n + 1 .. n + m : w[i] \in Nat
    <2>1. \A i \in 1 .. n + m : w[i] \in Nat
      BY <1>2
    <2>2. \A i \in n + 1 .. n + m : i \in 1 .. n + m
      BY <1>1
    <2> QED
      BY <2>1, <2>2
  <1>6. /\ s \in Seq(Nat)
        /\ Len(s) = IF n + 1 <= n + m THEN (n + m) - (n + 1) + 1 ELSE 0
        /\ \A i \in 1 .. (n + m) - (n + 1) + 1 : s[i] = w[(n + 1) + i - 1]
    <2> DEFINE c == n + 1
               d == n + m
    <2>1. c \in Int /\ d \in Int
      BY <1>1
    <2>2. \A i \in c .. d : w[i] \in Nat
      BY <1>5
    <2> HIDE DEF m, c, d
    <2>3. /\ SubSeq(w, c, d) \in Seq(Nat)
          /\ Len(SubSeq(w, c, d)) = IF c <= d THEN d - c + 1 ELSE 0
          /\ \A i \in 1 .. d - c + 1 : SubSeq(w, c, d)[i] = w[c + i - 1]
      BY <2>1, <2>2, SubSeqProperties
    <2> QED
      BY <2>3 DEF c, d
  <1> HIDE DEF m, s
  <1>7. Len(s) = m
    BY <1>1, <1>6
  <1>8. ASSUME NEW i \in 1 .. m PROVE s[i] = b[i]
    <2>1. i \in 1 .. (n + m) - (n + 1) + 1 /\ (n + 1) + i - 1 = n + i
      BY <1>1
    <2>2. s[i] = w[(n + 1) + i - 1]
      BY <1>6, <2>1
    <2>3. s[i] = w[n + i]
      BY <2>1, <2>2
    <2> QED
      BY <1>3, <2>3
  <1>9. s = b
    BY <1>6, <1>7, <1>8, SeqEqual DEF m
  <1> QED
    BY <1>2, <1>3, <1>4, <1>9 DEF w, m, s

\* A part of a sequence.
LEMMA PartOf ==
    ASSUME NEW S, NEW s \in Seq(S), NEW m \in Nat, NEW n \in Nat, m <= n, n <= Len(s)
    PROVE  SubSeq(s, m + 1, n) \in Seq(S) /\ Len(SubSeq(s, m + 1, n)) = n - m
  <1>1. \A i \in m + 1 .. n : s[i] \in S
    OBVIOUS
  <1>2. m + 1 \in Int /\ n \in Int
    OBVIOUS
  <1>3. /\ SubSeq(s, m + 1, n) \in Seq(S)
        /\ Len(SubSeq(s, m + 1, n)) = IF m + 1 <= n THEN n - (m + 1) + 1 ELSE 0
    BY <1>1, <1>2, SubSeqProperties
  <1> QED
    BY <1>3

\* The body of a payload, from its planes.
BodyOf(luma, y, u, v) == Number(luma) \o RleEncode(y) \o RleEncode(u) \o RleEncode(v)

\* A body of three planes, followed by other bytes, and where its chroma planes are.
InParts(body, luma, y, u, v, rest, p, q) ==
    /\ luma \in Nat /\ luma < CountSpace /\ {y, u, v, rest} \subseteq Seq(Nat)
    /\ Len(y) = luma /\ Len(u) = ChromaSize(luma) /\ Len(v) = ChromaSize(luma)
    /\ body = BodyOf(luma, y, u, v) \o rest
    /\ p = 5 + Len(RleEncode(y)) /\ q = p + Len(RleEncode(u))

LEMMA BodyHolds ==
    ASSUME NEW body, NEW luma, NEW y, NEW u, NEW v, NEW rest, NEW p, NEW q,
           InParts(body, luma, y, u, v, rest, p, q)
    PROVE  /\ BodyOf(luma, y, u, v) \in Seq(Nat) /\ body \in Seq(Nat) /\ NumberAt(body, 1) = luma
           /\ HoldsAt(body, 5, RleEncode(y)) /\ HoldsAt(body, p, RleEncode(u))
           /\ HoldsAt(body, q, RleEncode(v))
           /\ Len(body) + 1 = q + Len(RleEncode(v)) + Len(rest)
           /\ Len(BodyOf(luma, y, u, v)) \in Nat /\ Len(BodyOf(luma, y, u, v)) > 4
  <1> DEFINE ey == RleEncode(y)
             eu == RleEncode(u)
             ev == RleEncode(v)
             a == Number(luma)
             b == a \o ey
             c == b \o eu
             d == c \o ev
  <1>1. luma \in Nat /\ luma < CountSpace /\ rest \in Seq(Nat)
    BY DEF InParts
  <1>2. BodyOf(luma, y, u, v) = d /\ body = d \o rest /\ p = 5 + Len(ey) /\ q = p + Len(eu)
    BY DEF BodyOf, InParts
  <1>3. a \in Seq(Nat) /\ Len(a) = 4
    BY <1>1, BytesType, NumberType, SeqMonotonic
  <1>4. ey \in Seq(Nat) /\ eu \in Seq(Nat) /\ ev \in Seq(Nat) /\ Len(ev) >= 4
    <2>1. y \in Seq(Nat) /\ u \in Seq(Nat) /\ v \in Seq(Nat)
      BY DEF InParts
    <2>2. Len(ev) = 4 + 5 * Len(Runs(v)) /\ Len(Runs(v)) \in Nat
      BY <2>1, BytesType, RleType
    <2>3. Len(ev) >= 4
      <3> HIDE DEF ev
      <3> QED
        BY <2>2
    <2> QED
      BY <2>1, <2>3, BytesType, RleType
  <1>5. a = Number(luma)
    OBVIOUS
  <1> HIDE DEF ey, eu, ev, a
  <1>6. Len(ey) \in Nat /\ Len(eu) \in Nat /\ Len(ev) \in Nat /\ Len(rest) \in Nat
    BY <1>1, <1>4, LenProperties
  <1>7. b \in Seq(Nat) /\ Len(b) = 4 + Len(ey)
    BY <1>3, <1>4, ConcatProperties
  <1> HIDE DEF b
  <1>8. c \in Seq(Nat) /\ Len(c) = Len(b) + Len(eu)
    BY <1>4, <1>7, ConcatProperties
  <1> HIDE DEF c
  <1>9. d \in Seq(Nat) /\ Len(d) = Len(c) + Len(ev)
    BY <1>4, <1>8, ConcatProperties
  <1> HIDE DEF d
  <1>10. body \in Seq(Nat) /\ Len(body) = Len(d) + Len(rest) /\ Len(body) \in Nat
    <2>1. d \o rest \in Seq(Nat) /\ Len(d \o rest) = Len(d) + Len(rest)
      BY <1>1, <1>9, ConcatProperties
    <2> QED
      BY <1>2, <2>1, LenProperties
  <1>11. /\ Len(b) = 4 + Len(ey) /\ Len(b) + 1 = p /\ Len(c) + 1 = q
         /\ Len(d) + 1 = q + Len(ev) /\ Len(d) \in Nat /\ Len(d) > 4
    BY <1>2, <1>4, <1>6, <1>7, <1>8, <1>9
  <1>12. HoldsAt(body, 1, d)
    <2>1. HoldsAt(d \o rest, 1, d)
      BY <1>1, <1>9, HoldsItself, HoldsBefore
    <2> QED
      BY <1>2, <2>1
  <1>13. HoldsAt(body, 1, c) /\ HoldsAt(body, q, ev)
    <2>1. HoldsAt(body, 1, c \o ev)
      BY <1>12 DEF d
    <2>2. HoldsAt(body, 1, c) /\ HoldsAt(body, 1 + Len(c), ev)
      BY <1>4, <1>8, <1>10, <2>1, HoldsParts
    <2>3. 1 + Len(c) = q
      BY <1>8, <1>11, LenProperties
    <2> QED
      BY <2>2, <2>3
  <1>14. HoldsAt(body, 1, b) /\ HoldsAt(body, p, eu)
    <2>1. HoldsAt(body, 1, b \o eu)
      BY <1>13 DEF c
    <2>2. HoldsAt(body, 1, b) /\ HoldsAt(body, 1 + Len(b), eu)
      BY <1>4, <1>7, <1>10, <2>1, HoldsParts
    <2>3. 1 + Len(b) = p
      BY <1>7, <1>11, LenProperties
    <2> QED
      BY <2>2, <2>3
  <1>15. HoldsAt(body, 1, a) /\ HoldsAt(body, 5, ey)
    <2>1. HoldsAt(body, 1, a \o ey)
      BY <1>14 DEF b
    <2>2. HoldsAt(body, 1, a) /\ HoldsAt(body, 1 + Len(a), ey)
      BY <1>3, <1>4, <1>10, <2>1, HoldsParts
    <2> QED
      BY <1>3, <2>2
  <1>16. NumberAt(body, 1) = luma
    BY <1>1, <1>5, <1>15, NumberHeld
  <1>17. Len(body) + 1 = q + Len(ev) + Len(rest)
    BY <1>6, <1>10, <1>11
  <1> QED
    BY <1>2, <1>9, <1>10, <1>11, <1>13, <1>14, <1>15, <1>16, <1>17 DEF ey, eu, ev

\* Decode, once it is known what follows the header.
DecodeBody(payload, body) ==
    LET size == NumberAt(body, 1)
        luma == ReadPlane(body, 5, size)
        first == UNION {ReadPlane(body, y.next, ChromaSize(size)) : y \in luma}
        second == {v \in UNION {ReadPlane(body, u.next, ChromaSize(size)) : u \in first} :
                      v.next = Len(body) + 1}
    IN  IF \/ Len(payload) <= HeaderLen \/ payload[1] # Magic \/ payload[2] # PayloadVersion
           \/ payload[6] # Checksum(body) \/ Len(body) < 4
        THEN {}
        ELSE {[width |-> payload[4], height |-> payload[5], keyframe |-> payload[3],
               data |-> y.plane \o u.plane \o v.plane] :
                 y \in luma, u \in first, v \in second}

LEMMA DecodeByBody == \A payload : Decode(payload) = DecodeBody(payload, SubSeq(payload, HeaderLen + 1, Len(payload)))
  BY DEF Decode, DecodeBody

\* A payload with this body.
Carries(payload, body) ==
    /\ payload \in Seq(Nat) /\ Len(payload) > HeaderLen
    /\ payload[1] = Magic /\ payload[2] = PayloadVersion
    /\ SubSeq(payload, HeaderLen + 1, Len(payload)) = body

\* What is decoded from a payload whose body parses, up to the rest, into the planes of data.
Verdict(payload, body, rest, data) ==
    IF payload[6] # Checksum(body) \/ rest # <<>> THEN {}
    ELSE {[width |-> payload[4], height |-> payload[5], keyframe |-> payload[3], data |-> data]}

LEMMA DecodedAre ==
    ASSUME NEW body, NEW luma, NEW y, NEW u, NEW v, NEW rest, NEW p, NEW q,
           InParts(body, luma, y, u, v, rest, p, q),
           NEW payload, Carries(payload, body)
    PROVE  Decode(payload) = Verdict(payload, body, rest, y \o u \o v)
  <1> DEFINE ly == Len(RleEncode(y))
             lu == Len(RleEncode(u))
             lv == Len(RleEncode(v))
             next == q + lv
             N == Len(body)
             L == Len(rest)
  <1>0. /\ y \in Seq(Nat) /\ u \in Seq(Nat) /\ v \in Seq(Nat) /\ rest \in Seq(Nat)
        /\ luma \in Nat /\ luma < CountSpace /\ p = 5 + ly /\ q = p + lu
        /\ Len(y) = luma /\ Len(u) = ChromaSize(luma) /\ Len(v) = ChromaSize(luma)
    BY DEF InParts
  <1>1. /\ body \in Seq(Nat) /\ NumberAt(body, 1) = luma
        /\ HoldsAt(body, 5, RleEncode(y)) /\ HoldsAt(body, p, RleEncode(u))
        /\ HoldsAt(body, q, RleEncode(v))
        /\ N + 1 = next + L
    BY BodyHolds
  <1>2. /\ Decode(payload) = DecodeBody(payload, body) /\ payload[1] = Magic
        /\ payload[2] = PayloadVersion /\ Len(payload) > HeaderLen
    BY DecodeByBody DEF Carries
  <1>3. ~(Len(payload) <= HeaderLen)
    <2>1. Len(payload) \in Nat
      BY DEF Carries
    <2> QED
      BY <1>2, <2>1 DEF HeaderLen
  <1>4. ly \in Nat /\ lu \in Nat /\ lv \in Nat /\ L \in Nat /\ N \in Nat
    BY <1>0, <1>1, BytesType, RleType, LenProperties
  <1>17. ChromaSize(luma) < CountSpace /\ ~(N < 4)
    <2>1. ChromaSize(luma) \in Nat /\ ChromaSize(luma) <= luma
      BY <1>0 DEF ChromaSize
    <2>2. CountSpace \in Nat
      BY BytesType DEF CountSpace
    <2>3. ~(N < 4)
      <3>1. N + 1 = next + L /\ next = 5 + ly + lu + lv
        BY <1>0, <1>1
      <3> HIDE DEF N, L, next, ly, lu, lv
      <3> QED
        BY <1>4, <3>1
    <2> QED
      BY <1>0, <2>1, <2>2, <2>3
  <1>5. ReadPlane(body, 5, luma) = {[plane |-> y, next |-> p]}
    BY <1>0, <1>1, <1>4, PlaneRead
  <1> HIDE DEF ly, lu, lv
  <1>6. ReadPlane(body, p, ChromaSize(luma)) = {[plane |-> u, next |-> q]}
    <2>1. /\ u \in Seq(Nat) /\ Len(body) \in Nat /\ HoldsAt(body, p, RleEncode(u))
          /\ Len(u) < CountSpace
      BY <1>0, <1>1, <1>4, <1>17
    <2>2. ReadPlane(body, p, Len(u)) = {[plane |-> u, next |-> p + lu]}
      BY <2>1, PlaneRead DEF lu
    <2> QED
      BY <1>0, <2>2
  <1>7. ReadPlane(body, q, ChromaSize(luma)) = {[plane |-> v, next |-> next]}
    <2>1. /\ v \in Seq(Nat) /\ Len(body) \in Nat /\ HoldsAt(body, q, RleEncode(v))
          /\ Len(v) < CountSpace
      BY <1>0, <1>1, <1>4, <1>17
    <2>2. ReadPlane(body, q, Len(v)) = {[plane |-> v, next |-> q + lv]}
      BY <2>1, PlaneRead DEF lv
    <2> QED
      BY <1>0, <2>2
  <1>8. next \in Nat
    BY <1>0, <1>4
  <1> HIDE DEF next, N, L
  <1>9. next = N + 1 <=> rest = <<>>
    <2>1. L = 0 <=> rest = <<>>
      BY <1>0 DEF L
    <2> QED
      BY <1>1, <1>4, <1>8, <2>1
  <1> DEFINE chroma == ChromaSize(NumberAt(body, 1))
             a == [plane |-> y, next |-> p]
             b == [plane |-> u, next |-> q]
             c == [plane |-> v, next |-> next]
             ys == ReadPlane(body, 5, NumberAt(body, 1))
             us == UNION {ReadPlane(body, x.next, chroma) : x \in ys}
             vs == UNION {ReadPlane(body, x.next, chroma) : x \in us}
             ends == {x \in vs : x.next = Len(body) + 1}
             frame(d, e, f) == [width |-> payload[4], height |-> payload[5],
                                keyframe |-> payload[3],
                                data |-> d.plane \o e.plane \o f.plane]
             frames == {frame(d, e, f) : d \in ys, e \in us, f \in ends}
  <1>10. /\ a.plane = y /\ b.plane = u /\ c.plane = v
         /\ a.next = p /\ b.next = q /\ c.next = next
    OBVIOUS
  <1>11. DecodeBody(payload, body) =
           IF \/ Len(payload) <= HeaderLen \/ payload[1] # Magic
              \/ payload[2] # PayloadVersion \/ payload[6] # Checksum(body) \/ N < 4
           THEN {} ELSE frames
    BY DEF DecodeBody, N
  <1>12. chroma = ChromaSize(luma) /\ ys = {a}
    BY <1>1, <1>5
  <1> HIDE DEF chroma, ys, a, b, c
  <1>13. us = {b}
    <2>1. us = UNION {ReadPlane(body, a.next, chroma)}
      BY <1>12
    <2> QED
      BY <1>6, <1>10, <1>12, <2>1 DEF b
  <1> HIDE DEF us
  <1>14. vs = {c}
    <2>1. vs = UNION {ReadPlane(body, b.next, chroma)}
      BY <1>13
    <2> QED
      BY <1>7, <1>10, <1>12, <2>1 DEF c
  <1> HIDE DEF vs
  <1>15. CASE rest = <<>>
    <2>1. ends = {c}
      BY <1>9, <1>10, <1>14, <1>15 DEF N
    <2> HIDE DEF ends, frame
    <2>2. frames = {frame(a, b, c)}
      BY <1>12, <1>13, <2>1
    <2>3. frame(a, b, c) = [width |-> payload[4], height |-> payload[5],
                            keyframe |-> payload[3], data |-> y \o u \o v]
      BY <1>10 DEF frame
    <2> HIDE DEF frames
    <2> QED
      BY <1>2, <1>3, <1>11, <1>15, <1>17, <2>2, <2>3 DEF Verdict
  <1>16. CASE rest # <<>>
    <2>1. ends = {}
      BY <1>9, <1>10, <1>14, <1>16 DEF N
    <2> HIDE DEF ends, frame
    <2>2. frames = {}
      BY <2>1
    <2> HIDE DEF frames
    <2> QED
      BY <1>2, <1>3, <1>11, <1>16, <1>17, <2>2 DEF Verdict
  <1> QED
    BY <1>15, <1>16

\* A frame whose data are exactly what the codecs take of it.
Picture(frame, B) ==
    /\ frame \in [width : Nat, height : Nat, keyframe : Nat, data : Seq(B)]
    /\ LET luma == LumaSize(frame.width, frame.height)
       IN  luma < CountSpace /\ Len(frame.data) = luma + 2 * ChromaSize(luma)

LumaOf(frame) == SubSeq(frame.data, 1, LumaSize(frame.width, frame.height))
FirstChroma(frame) ==
    LET luma == LumaSize(frame.width, frame.height)
    IN  SubSeq(frame.data, luma + 1, luma + ChromaSize(luma))
SecondChroma(frame) ==
    LET luma == LumaSize(frame.width, frame.height)
    IN  SubSeq(frame.data, luma + ChromaSize(luma) + 1, luma + 2 * ChromaSize(luma))

Header(frame) ==
    <<Magic, PayloadVersion, frame.keyframe, frame.width, frame.height,
      Checksum(FrameBody(frame))>>

\* A frame with enough data.
HasPlanes(frame, B, luma) ==
    /\ frame \in [width : Nat, height : Nat, keyframe : Nat, data : Seq(B)]
    /\ luma = LumaSize(frame.width, frame.height) /\ luma < CountSpace
    /\ Len(frame.data) >= luma + 2 * ChromaSize(luma)

LEMMA PlanesOf ==
    ASSUME NEW B, NEW frame, NEW luma, HasPlanes(frame, B, luma)
    PROVE  /\ luma \in Nat /\ ChromaSize(luma) \in Nat
           /\ LumaOf(frame) \in Seq(B) /\ Len(LumaOf(frame)) = luma
           /\ FirstChroma(frame) \in Seq(B) /\ Len(FirstChroma(frame)) = ChromaSize(luma)
           /\ SecondChroma(frame) \in Seq(B) /\ Len(SecondChroma(frame)) = ChromaSize(luma)
           /\ FrameBody(frame) =
                BodyOf(luma, LumaOf(frame), FirstChroma(frame), SecondChroma(frame))
           /\ Encode(frame) = {Header(frame) \o FrameBody(frame)}
  <1> DEFINE c == ChromaSize(luma)
             d == frame.data
             n == Len(frame.data)
  <1>1. luma \in Nat
    BY DEF LumaSize, HasPlanes
  <1>2. c \in Nat
    BY <1>1 DEF ChromaSize
  <1>3. d \in Seq(B) /\ n \in Nat
    BY DEF HasPlanes
  <1>4. FrameBody(frame) =
          BodyOf(luma, LumaOf(frame), FirstChroma(frame), SecondChroma(frame))
    BY DEF FrameBody, BodyOf, LumaOf, FirstChroma, SecondChroma, HasPlanes
  <1>5. /\ LumaOf(frame) = SubSeq(d, 0 + 1, luma)
        /\ FirstChroma(frame) = SubSeq(d, luma + 1, luma + c)
        /\ SecondChroma(frame) = SubSeq(d, (luma + c) + 1, luma + 2 * c)
    BY DEF LumaOf, FirstChroma, SecondChroma, HasPlanes
  <1>6. n >= luma + 2 * c
    BY DEF HasPlanes
  <1>7. Encode(frame) = IF n < luma + 2 * c THEN {} ELSE {Header(frame) \o FrameBody(frame)}
    BY DEF Encode, Header, HasPlanes
  <1> HIDE DEF c, d, n
  <1>8. ~(n < luma + 2 * c)
    BY <1>1, <1>2, <1>3, <1>6
  <1>9. LumaOf(frame) \in Seq(B) /\ Len(LumaOf(frame)) = luma
    <2>1. 0 \in Nat /\ 0 <= luma /\ luma <= Len(d) /\ luma - 0 = luma
      BY <1>1, <1>2, <1>3, <1>6 DEF d, n
    <2> QED
      BY <1>1, <1>3, <1>5, <2>1, PartOf
  <1>10. FirstChroma(frame) \in Seq(B) /\ Len(FirstChroma(frame)) = c
    <2> DEFINE k == luma + c
    <2>1. k \in Nat /\ luma <= k /\ k <= n /\ k - luma = c
      BY <1>1, <1>2, <1>3, <1>6
    <2>2. FirstChroma(frame) = SubSeq(d, luma + 1, k) /\ n = Len(d)
      BY <1>5 DEF n, d
    <2> HIDE DEF k
    <2>4. luma \in Nat /\ k \in Nat /\ luma <= k /\ k <= Len(d) /\ d \in Seq(B)
      BY <1>1, <1>3, <2>1, <2>2
    <2>5. SubSeq(d, luma + 1, k) \in Seq(B) /\ Len(SubSeq(d, luma + 1, k)) = k - luma
      BY <2>4, PartOf
    <2> QED
      BY <2>1, <2>2, <2>5
  <1>11. SecondChroma(frame) \in Seq(B) /\ Len(SecondChroma(frame)) = c
    <2> DEFINE k == luma + c
               l == luma + 2 * c
    <2>1. k \in Nat /\ l \in Nat /\ k <= l /\ l - k = c
      <3>1. 2 * c = c + c
        BY <1>2
      <3> QED
        BY <1>1, <1>2, <3>1
    <2>3. k <= n /\ l <= n
      BY <1>1, <1>2, <1>3, <1>6
    <2>2. SecondChroma(frame) = SubSeq(d, k + 1, l) /\ n = Len(d)
      BY <1>5 DEF n, d
    <2> HIDE DEF k, l
    <2>4. k \in Nat /\ l \in Nat /\ k <= l /\ l <= Len(d) /\ d \in Seq(B)
      BY <1>3, <2>1, <2>2, <2>3
    <2>5. SubSeq(d, k + 1, l) \in Seq(B) /\ Len(SubSeq(d, k + 1, l)) = l - k
      BY <2>4, PartOf
    <2> QED
      BY <2>1, <2>2, <2>5
  <1> QED
    BY <1>1, <1>2, <1>4, <1>7, <1>8, <1>9, <1>10, <1>11 DEF c

LEMMA BodyParts ==
    ASSUME NEW B \in SUBSET Nat, NEW frame, NEW luma, HasPlanes(frame, B, luma), NEW rest \in Seq(Nat)
    PROVE  \E p, q : InParts(FrameBody(frame) \o rest, luma, LumaOf(frame), FirstChroma(frame),
                             SecondChroma(frame), rest, p, q)
  <1>1. /\ luma \in Nat /\ Len(LumaOf(frame)) = luma
        /\ Len(FirstChroma(frame)) = ChromaSize(luma)
        /\ Len(SecondChroma(frame)) = ChromaSize(luma)
        /\ LumaOf(frame) \in Seq(B) /\ FirstChroma(frame) \in Seq(B) /\ SecondChroma(frame) \in Seq(B)
        /\ FrameBody(frame) =
             BodyOf(luma, LumaOf(frame), FirstChroma(frame), SecondChroma(frame))
    BY PlanesOf
  <1>2. /\ LumaOf(frame) \in Seq(Nat) /\ FirstChroma(frame) \in Seq(Nat)
        /\ SecondChroma(frame) \in Seq(Nat)
    BY <1>1, SeqMonotonic
  <1>4. luma < CountSpace
    BY DEF HasPlanes
  <1> DEFINE p == 5 + Len(RleEncode(LumaOf(frame)))
             q == p + Len(RleEncode(FirstChroma(frame)))
  <1>3. InParts(FrameBody(frame) \o rest, luma, LumaOf(frame), FirstChroma(frame),
                SecondChroma(frame), rest, p, q)
    BY <1>1, <1>2, <1>4 DEF InParts
  <1> QED
    BY <1>3

LEMMA BodyType ==
    ASSUME NEW B \in SUBSET Nat, NEW frame, NEW luma, HasPlanes(frame, B, luma)
    PROVE  FrameBody(frame) \in Seq(Nat) /\ Len(FrameBody(frame)) \in Nat \ {0}
  <1>1. <<>> \in Seq(Nat)
    BY EmptySeq
  <1>2. PICK p, q : InParts(FrameBody(frame) \o <<>>, luma, LumaOf(frame), FirstChroma(frame),
                            SecondChroma(frame), <<>>, p, q)
    BY <1>1, BodyParts
  <1>3. FrameBody(frame) = BodyOf(luma, LumaOf(frame), FirstChroma(frame), SecondChroma(frame))
    BY PlanesOf
  <1>4. /\ FrameBody(frame) \in Seq(Nat)
        /\ Len(FrameBody(frame)) \in Nat /\ Len(FrameBody(frame)) > 4
    BY <1>2, <1>3, BodyHolds
  <1> QED
    BY <1>4

LEMMA HeaderType ==
    ASSUME NEW B \in SUBSET Nat, NEW frame, NEW luma, HasPlanes(frame, B, luma), NEW h, h = Header(frame)
    PROVE  /\ h \in Seq(Nat) /\ Len(h) = HeaderLen /\ h[1] = Magic /\ h[2] = PayloadVersion
           /\ h[3] = frame.keyframe /\ h[4] = frame.width /\ h[5] = frame.height
           /\ h[6] = Checksum(FrameBody(frame))
  <1> DEFINE s == Checksum(FrameBody(frame))
             k == frame.keyframe
             x == frame.width
             y == frame.height
  <1>1. s \in Nat
    BY BodyType, ChecksumType
  <1>2. k \in Nat /\ x \in Nat /\ y \in Nat /\ Magic \in Nat
    BY HashAssumption DEF HasPlanes
  <1>3. h = <<Magic, 1, k, x, y, s>>
    BY DEF Header, PayloadVersion
  <1> HIDE DEF s, k, x, y
  <1>4. /\ h \in Seq(Nat) /\ Len(h) = 6 /\ h[1] = Magic /\ h[2] = 1
        /\ h[3] = k /\ h[4] = x /\ h[5] = y /\ h[6] = s
    BY <1>1, <1>2, <1>3
  <1> QED
    BY <1>4 DEF HeaderLen, PayloadVersion, s, k, x, y

\* A payload with the header of a frame carries what follows the header.
LEMMA PayloadCarries ==
    ASSUME NEW B \in SUBSET Nat, NEW frame, NEW luma, HasPlanes(frame, B, luma),
           NEW body \in Seq(Nat), body # <<>>
    PROVE  LET w == Header(frame) \o body
           IN  /\ Carries(w, body) /\ Len(w) = HeaderLen + Len(body)
               /\ w[3] = frame.keyframe /\ w[4] = frame.width
               /\ w[5] = frame.height /\ w[6] = Checksum(FrameBody(frame))
  <1> DEFINE h == Header(frame)
             w == h \o body
  <1>1. /\ h \in Seq(Nat) /\ Len(h) = HeaderLen /\ h[1] = Magic /\ h[2] = PayloadVersion
        /\ h[3] = frame.keyframe /\ h[4] = frame.width /\ h[5] = frame.height
        /\ h[6] = Checksum(FrameBody(frame))
    BY HeaderType
  <1> HIDE DEF h
  <1>2. /\ w \in Seq(Nat) /\ Len(w) = HeaderLen + Len(body)
        /\ SubSeq(w, HeaderLen + 1, Len(w)) = body
        /\ \A i \in 1 .. HeaderLen : w[i] = h[i]
    <2> DEFINE n == HeaderLen
    <2>1. h \in Seq(Nat) /\ body \in Seq(Nat) /\ n = Len(h)
      BY <1>1
    <2> HIDE DEF n
    <2>2. /\ w \in Seq(Nat) /\ Len(w) = n + Len(body)
          /\ SubSeq(w, n + 1, Len(w)) = body
          /\ \A i \in 1 .. n : w[i] = h[i]
      BY <2>1, AfterHeader
    <2> QED
      BY <2>2 DEF n
  <1> HIDE DEF w
  <1>3. /\ w[1] = h[1] /\ w[2] = h[2] /\ w[3] = h[3]
        /\ w[4] = h[4] /\ w[5] = h[5] /\ w[6] = h[6]
    BY <1>2 DEF HeaderLen
  <1>4. Len(body) \in Nat \ {0}
    BY EmptySeq
  <1>5. Len(w) > HeaderLen
    BY <1>2, <1>4 DEF HeaderLen
  <1> QED
    BY <1>1, <1>2, <1>3, <1>5 DEF Carries, h, w

\* A picture comes back from its payload, and from nothing longer.
LEMMA PictureBack ==
    ASSUME NEW B \in SUBSET Nat, NEW frame, Picture(frame, B)
    PROVE  /\ Decode(Header(frame) \o FrameBody(frame)) = {frame}
           /\ \A rest \in Seq(Nat) :
                 rest # <<>> => Decode((Header(frame) \o FrameBody(frame)) \o rest) = {}
  <1> DEFINE luma == LumaSize(frame.width, frame.height)
             c == ChromaSize(luma)
             y == LumaOf(frame)
             u == FirstChroma(frame)
             v == SecondChroma(frame)
             b == FrameBody(frame)
             h == Header(frame)
  <1>0. /\ frame \in [width : Nat, height : Nat, keyframe : Nat, data : Seq(B)]
        /\ luma < CountSpace /\ Len(frame.data) = luma + 2 * c
    BY DEF Picture
  <1>1. HasPlanes(frame, B, luma)
    <2>1. Len(frame.data) \in Nat
      BY <1>0
    <2> DEFINE n == Len(frame.data)
               m == luma + 2 * c
    <2>2. n \in Nat /\ n = m
      BY <1>0, <2>1
    <2> HIDE DEF n, m
    <2>3. n >= m
      BY <2>2
    <2> QED
      BY <1>0, <2>3 DEF HasPlanes, n, m
  <1> HIDE DEF luma
  <1>2. /\ luma \in Nat /\ c \in Nat /\ y \in Seq(B) /\ Len(y) = luma /\ u \in Seq(B) /\ Len(u) = c
        /\ v \in Seq(B) /\ Len(v) = c
    BY <1>1, PlanesOf
  <1>3. b \in Seq(Nat) /\ b # <<>>
    <2>1. b \in Seq(Nat) /\ Len(b) # 0
      BY <1>1, BodyType
    <2> QED
      BY <2>1, EmptySeq
  <1>4. y \o u \o v = frame.data
    <2> DEFINE d == frame.data
               k == luma + c
               l == luma + 2 * c
    <2>1. d \in Seq(B) /\ Len(d) = l
      BY <1>0
    <2>2. y = SubSeq(d, 1, luma) /\ u = SubSeq(d, luma + 1, k) /\ v = SubSeq(d, k + 1, l)
      BY DEF LumaOf, FirstChroma, SecondChroma, luma
    <2> HIDE DEF d, y, u, v
    <2>3. k \in Nat /\ l \in Nat /\ luma <= k /\ k <= l
      <3>1. 2 * c = c + c
        BY <1>2
      <3> QED
        BY <1>2, <3>1
    <2> HIDE DEF k, l, c
    <2>4. SubSeq(d, 1, luma) \o SubSeq(d, luma + 1, k) = SubSeq(d, 1, k)
      <3>1. 1 \in 1 .. Len(d) + 1 /\ luma \in 1 - 1 .. Len(d) /\ k \in luma .. Len(d)
        BY <1>2, <2>1, <2>3
      <3> QED
        BY <2>1, <3>1, ConcatAdjacentSubSeq
    <2>5. SubSeq(d, 1, k) \o SubSeq(d, k + 1, l) = SubSeq(d, 1, l)
      <3>1. 1 \in 1 .. Len(d) + 1 /\ k \in 1 - 1 .. Len(d) /\ l \in k .. Len(d)
        BY <2>1, <2>3
      <3> QED
        BY <2>1, <3>1, ConcatAdjacentSubSeq
    <2>6. SubSeq(d, 1, l) = d
      BY <2>1, SubSeqFull
    <2> QED
      BY <2>2, <2>4, <2>5, <2>6 DEF d
  <1>5. ASSUME NEW rest \in Seq(Nat)
        PROVE  Decode(h \o (b \o rest)) =
                 IF rest # <<>> \/ Checksum(b) # Checksum(b \o rest) THEN {} ELSE {frame}
    <2> DEFINE body == b \o rest
               w == h \o body
    <2>1. PICK p, q : InParts(body, luma, y, u, v, rest, p, q)
      BY <1>1, BodyParts
    <2>2. body \in Seq(Nat) /\ body # <<>>
      <3> HIDE DEF b
      <3>1. body \in Seq(Nat) /\ (body = <<>> <=> b = <<>> /\ rest = <<>>)
        BY <1>3, ConcatProperties, ConcatEqualIffEmpty
      <3> QED
        BY <1>3, <3>1
    <2> HIDE DEF body
    <2>3. /\ Carries(w, body)
          /\ w[3] = frame.keyframe /\ w[4] = frame.width
          /\ w[5] = frame.height /\ w[6] = Checksum(b)
      BY <1>1, <2>2, PayloadCarries
    <2> HIDE DEF w
    <2>4. Decode(w) = Verdict(w, body, rest, y \o u \o v)
      <3> HIDE DEF y, u, v
      <3> QED
        <4>1. InParts(body, luma, y, u, v, rest, p, q)
          BY <2>1
        <4>2. Carries(w, body)
          BY <2>3
        <4> QED
          BY <4>1, <4>2, DecodedAre
    <2>5. [width |-> w[4], height |-> w[5], keyframe |-> w[3], data |-> y \o u \o v] = frame
      BY <1>0, <1>4, <2>3
    <2> HIDE DEF b, h, y, u, v
    <2> QED
      BY <2>3, <2>4, <2>5 DEF w, body, Verdict
  <1>6. h \in Seq(Nat)
    BY <1>1, HeaderType
  <1> HIDE DEF b, h
  <1>7. Decode(h \o b) = {frame}
    <2>1. <<>> \in Seq(Nat) /\ b \o <<>> = b
      BY <1>3, EmptySeq, ConcatEmptySeq
    <2> QED
      BY <1>5, <2>1
  <1>8. ASSUME NEW rest \in Seq(Nat), rest # <<>> PROVE Decode((h \o b) \o rest) = {}
    <2>1. (h \o b) \o rest = h \o (b \o rest)
      BY <1>3, <1>6, <1>8, ConcatGroups
    <2> QED
      BY <1>5, <1>8, <2>1
  <1> QED
    BY <1>7, <1>8 DEF b, h

------------------------------------------------------------------------------
(* A payload of which one byte is altered.                                 *)

Replaced(s, i, e) == [s EXCEPT ![i] = e]

LEMMA AlteredAfter ==
    ASSUME NEW h \in Seq(Nat), NEW b \in Seq(Nat), NEW k \in 1 .. Len(b), NEW to \in Nat
    PROVE  Replaced(h \o b, Len(h) + k, to) = h \o Replaced(b, k, to)
  <1> DEFINE n == Len(h)
             w == h \o b
             c == [b EXCEPT ![k] = to]
             x == [w EXCEPT ![n + k] = to]
             y == h \o c
             m == Len(b)
  <1>1. n \in Nat /\ m \in Nat
    OBVIOUS
  <1>2. /\ w \in Seq(Nat) /\ Len(w) = n + m
        /\ \A i \in 1 .. n + m : w[i] = IF i <= n THEN h[i] ELSE b[i - n]
    BY ConcatProperties
  <1>3. /\ c \in Seq(Nat) /\ Len(c) = m
        /\ \A j \in 1 .. m : c[j] = IF j = k THEN to ELSE b[j]
    BY ExceptSeq
  <1>4. /\ y \in Seq(Nat) /\ Len(y) = n + m
        /\ \A i \in 1 .. n + m : y[i] = IF i <= n THEN h[i] ELSE c[i - n]
    BY <1>3, ConcatProperties
  <1>5. n + k \in 1 .. n + m
    BY <1>1
  <1>6. /\ x \in Seq(Nat) /\ Len(x) = n + m
        /\ \A i \in 1 .. n + m : x[i] = IF i = n + k THEN to ELSE w[i]
    <2> DEFINE a == n + k
    <2>1. a \in 1 .. Len(w) /\ w \in Seq(Nat)
      BY <1>2, <1>5
    <2> HIDE DEF a, w, m
    <2>2. /\ [w EXCEPT ![a] = to] \in Seq(Nat) /\ Len([w EXCEPT ![a] = to]) = Len(w)
          /\ \A i \in 1 .. Len(w) : [w EXCEPT ![a] = to][i] = IF i = a THEN to ELSE w[i]
      BY <2>1, ExceptSeq
    <2>3. /\ x \in Seq(Nat) /\ Len(x) = Len(w)
          /\ \A i \in 1 .. Len(w) : x[i] = IF i = n + k THEN to ELSE w[i]
      BY <2>2 DEF a
    <2> HIDE DEF x
    <2> QED
      BY <1>2, <2>3
  <1> HIDE DEF n, w, c, x, y, m
  <1>7. ASSUME NEW i \in 1 .. n + m PROVE x[i] = y[i]
    <2>1. CASE i <= n
      <3>1. i # n + k
        BY <1>1, <2>1
      <3> QED
        BY <1>2, <1>4, <1>6, <2>1, <3>1
    <2>2. CASE ~(i <= n)
      <3>1. i - n \in 1 .. m /\ (i = n + k <=> i - n = k)
        BY <1>1, <2>2 DEF m
      <3>2. y[i] = c[i - n] /\ w[i] = b[i - n]
        BY <1>2, <1>4, <2>2
      <3>3. c[i - n] = IF i - n = k THEN to ELSE b[i - n]
        BY <1>3, <3>1
      <3> QED
        BY <1>6, <3>1, <3>2, <3>3
    <2> QED
      BY <2>1, <2>2
  <1>8. x = y
    BY <1>4, <1>6, <1>7, SeqEqual
  <1> QED
    BY <1>8 DEF x, y, w, c, n, Replaced

\* A sequence whose check sum is another's, of which it differs in one place.
LEMMA AlterationNoticed ==
    ASSUME NEW body \in Seq(Nat), NEW k \in 1 .. Len(body), NEW to \in Hashes,
           body[k] \in Hashes, body[k] # to
    PROVE  Checksum([body EXCEPT ![k] = to]) # Checksum(body)
  <1> DEFINE f == [body EXCEPT ![k] = to]
  <1>1. to \in Nat
    BY HashSpaceType
  <1>2. /\ f \in Seq(Nat) /\ Len(f) = Len(body)
        /\ \A j \in 1 .. Len(body) : f[j] = IF j = k THEN to ELSE body[j]
    BY <1>1, ExceptSeq
  <1> HIDE DEF f
  <1>3. f[k] = to /\ \A j \in 1 .. Len(body) : j # k => body[j] = f[j]
    BY <1>2
  <1>4. Checksum(body) # Checksum(f)
    BY <1>2, <1>3, ChecksumNotices
  <1> QED
    BY <1>4 DEF f

LEMMA OtherSum ==
    ASSUME NEW payload, NEW body, payload[6] # Checksum(body) PROVE DecodeBody(payload, body) = {}
  BY DEF DecodeBody

\* A byte of the body below its header h may become another one.
MayBecome(h, body, k, to) ==
    /\ Len(h) = HeaderLen /\ h[6] = Checksum(body)
    /\ {h, body} \subseteq Seq(Nat) /\ k \in 1 .. Len(body)
    /\ to \in Hashes /\ body[k] \in Hashes /\ body[k] # to

\* No frame is taken with a header for another body.
LEMMA AlteredRefused ==
    ASSUME NEW h, NEW body, NEW k, NEW to, MayBecome(h, body, k, to)
    PROVE  Decode([h \o body EXCEPT ![HeaderLen + k] = to]) = {}
  <1> DEFINE f == [body EXCEPT ![k] = to]
             n == HeaderLen
             w == h \o f
  <1>0. /\ h \in Seq(Nat) /\ body \in Seq(Nat) /\ k \in 1 .. Len(body)
        /\ to \in Hashes /\ body[k] \in Hashes /\ body[k] # to
    BY DEF MayBecome
  <1>1. to \in Nat /\ n = Len(h) /\ h[6] = Checksum(body)
    BY <1>0, HashSpaceType DEF MayBecome
  <1>2. f \in Seq(Nat)
    BY <1>0, <1>1, ExceptSeq
  <1> HIDE DEF f, n
  <1>3. [h \o body EXCEPT ![n + k] = to] = w
    <2>0. h \in Seq(Nat) /\ body \in Seq(Nat) /\ n = Len(h) /\ k \in 1 .. Len(body) /\ to \in Nat
      BY <1>0, <1>1
    <2>1. Replaced(h \o body, n + k, to) = h \o Replaced(body, k, to)
      <3>1. Replaced(h \o body, Len(h) + k, to) = h \o Replaced(body, k, to)
        BY <2>0, AlteredAfter
      <3> QED
        BY <2>0, <3>1
    <2> QED
      BY <2>1 DEF f, Replaced
  <1>4. SubSeq(w, n + 1, Len(w)) = f /\ \A i \in 1 .. n : w[i] = h[i]
    <2>1. /\ h \o f \in Seq(Nat) /\ Len(h \o f) = n + Len(f)
          /\ SubSeq(h \o f, n + 1, Len(h \o f)) = f
          /\ \A i \in 1 .. n : (h \o f)[i] = h[i]
          /\ \A i \in 1 .. Len(f) : (h \o f)[n + i] = f[i]
      <3>1. h \in Seq(Nat) /\ f \in Seq(Nat) /\ n = Len(h)
        BY <1>0, <1>1, <1>2
      <3> QED
        BY <3>1, AfterHeader
    <2> QED
      BY <2>1
  <1> HIDE DEF w
  <1>5. w[6] = Checksum(body)
    BY <1>1, <1>4 DEF n, HeaderLen
  <1>6. Checksum(f) # Checksum(body)
    BY <1>0, AlterationNoticed DEF f
  <1>7. Decode(w) = DecodeBody(w, f)
    BY <1>4, DecodeByBody DEF n
  <1>8. DecodeBody(w, f) = {}
    BY <1>5, <1>6, OtherSum
  <1> QED
    BY <1>3, <1>7, <1>8 DEF n

------------------------------------------------------------------------------
LEMMA BodyBytes ==
    ASSUME NEW frame, NEW luma, HasPlanes(frame, Bytes, luma)
    PROVE  FrameBody(frame) \in Seq(Bytes)
  <1> DEFINE a == Number(luma)
             ey == RleEncode(LumaOf(frame))
             eu == RleEncode(FirstChroma(frame))
             ev == RleEncode(SecondChroma(frame))
  <1>1. a \in Seq(Bytes) /\ ey \in Seq(Bytes) /\ eu \in Seq(Bytes) /\ ev \in Seq(Bytes)
    BY PlanesOf, NumberType, RleType
  <1>2. FrameBody(frame) = ((a \o ey) \o eu) \o ev
    BY PlanesOf DEF BodyOf
  <1> HIDE DEF a, ey, eu, ev
  <1>3. ((a \o ey) \o eu) \o ev \in Seq(Bytes)
    BY <1>1
  <1> QED
    BY <1>2, <1>3

------------------------------------------------------------------------------
(* The frames that the calls encode, decode and alter.                     *)

LEMMA HalfRoundedUp == ASSUME NEW n \in Nat, n % 2 = 0 PROVE n \div 2 \in Nat /\ n = 2 * (n \div 2) /\ CeilDiv(n, 2) = n \div 2
  <1>1. n \div 2 \in Nat /\ n = 2 * (n \div 2)
    OBVIOUS
  <1>2. (n + 2 - 1) \div 2 = n \div 2
    OBVIOUS
  <1> QED
    BY <1>1, <1>2 DEF CeilDiv

\* A quarter of a product of even numbers.
LEMMA QuarterOf ==
    ASSUME NEW a \in Nat, NEW b \in Nat
    PROVE  /\ LumaSize(2 * a, 2 * b) \in Nat
           /\ LumaSize(2 * a, 2 * b) + 2 * ChromaSize(LumaSize(2 * a, 2 * b)) =
                (2 * a) * (2 * b) + 2 * a * b
  <1> DEFINE n == (2 * a) * (2 * b)
             m == a * b
  <1>1. m \in Nat /\ n = 4 * m /\ 2 * a * b = 2 * m
    OBVIOUS
  <1> HIDE DEF n, m
  <1>2. n \in Nat /\ n \div 4 = m
    <2>1. n = 4 * m + 0 /\ 0 \in 0 .. 4 - 1 /\ 4 \in Nat \ {0}
      BY <1>1
    <2>2. (4 * m + 0) \div 4 = m
      BY <1>1, <2>1, QuotientIs
    <2> QED
      BY <1>1, <2>1, <2>2
  <1>3. LumaSize(2 * a, 2 * b) = n
    BY DEF LumaSize, n
  <1> QED
    BY <1>1, <1>2, <1>3 DEF ChromaSize, n

LEMMA FrameType ==
    ASSUME NEW w \in Nat, NEW h \in Nat, NEW frame \in Frames(w, h)
    PROVE  /\ frame \in [width : Nat, height : Nat, keyframe : Nat, data : Seq({0, 1})]
           /\ frame.width = w /\ frame.height = h
           /\ Len(frame.data) = w * h + 2 * CeilDiv(w, 2) * CeilDiv(h, 2)
  <1> DEFINE n == w * h + 2 * CeilDiv(w, 2) * CeilDiv(h, 2)
             d == frame.data
  <1>1. /\ frame = [width |-> frame.width, height |-> frame.height,
                    keyframe |-> frame.keyframe, data |-> d]
        /\ frame.width = w /\ frame.height = h /\ frame.keyframe \in {0, 1}
        /\ d \in [1 .. n -> {0, 1}]
    BY DEF Frames
  <1>2. n \in Nat
    <2>1. CeilDiv(w, 2) \in Nat /\ CeilDiv(h, 2) \in Nat
      <3>1. ASSUME NEW x \in Nat PROVE (x + 2 - 1) \div 2 \in Nat
        OBVIOUS
      <3> QED
        BY <3>1 DEF CeilDiv
    <2> QED
      BY <2>1
  <1> HIDE DEF n, d
  <1>3. d \in Seq({0, 1}) /\ Len(d) = n
    BY <1>1, <1>2
  <1>4. frame.keyframe \in Nat
    BY <1>1
  <1>5. frame \in [width : Nat, height : Nat, keyframe : Nat, data : Seq({0, 1})]
    BY <1>1, <1>3, <1>4
  <1> QED
    BY <1>1, <1>3, <1>5 DEF n, d

LEMMA EvenPicture ==
    ASSUME NEW w \in Nat, NEW h \in Nat, w % 2 = 0, h % 2 = 0, NEW frame \in Frames(w, h),
           w * h < CountSpace
    PROVE  Picture(frame, {0, 1})
  <1> DEFINE a == w \div 2
             b == h \div 2
  <1>1. a \in Nat /\ b \in Nat /\ w = 2 * a /\ h = 2 * b /\ CeilDiv(w, 2) = a /\ CeilDiv(h, 2) = b
    BY HalfRoundedUp
  <1> HIDE DEF a, b
  <1>2. /\ frame \in [width : Nat, height : Nat, keyframe : Nat, data : Seq({0, 1})]
        /\ frame.width = w /\ frame.height = h
        /\ Len(frame.data) = w * h + 2 * a * b
    <2>1. Len(frame.data) = w * h + 2 * CeilDiv(w, 2) * CeilDiv(h, 2)
      BY FrameType
    <2> QED
      BY <1>1, <2>1, FrameType
  <1>3. Len(frame.data) = LumaSize(w, h) + 2 * ChromaSize(LumaSize(w, h))
    BY <1>1, <1>2, QuarterOf
  <1> QED
    BY <1>2, <1>3 DEF Picture, LumaSize

LEMMA PictureHasPlanes ==
    ASSUME NEW B, NEW frame, Picture(frame, B)
    PROVE  HasPlanes(frame, B, LumaSize(frame.width, frame.height))
  <1> DEFINE luma == LumaSize(frame.width, frame.height)
  <1>1. /\ frame \in [width : Nat, height : Nat, keyframe : Nat, data : Seq(B)]
        /\ luma < CountSpace /\ Len(frame.data) = luma + 2 * ChromaSize(luma)
    BY DEF Picture
  <1> DEFINE n == Len(frame.data)
             m == luma + 2 * ChromaSize(luma)
  <1>2. n \in Nat /\ n = m
    BY <1>1
  <1> HIDE DEF n, m
  <1>3. n >= m
    BY <1>2
  <1> QED
    BY <1>1, <1>3 DEF HasPlanes, n, m

\* A frame comes back as it was.
LEMMA FrameBack ==
    ASSUME NEW B \in SUBSET Nat, NEW frame, Picture(frame, B)
    PROVE  UNION {Decode(payload) : payload \in Encode(frame)} = {frame}
  <1> DEFINE luma == LumaSize(frame.width, frame.height)
  <1>1. HasPlanes(frame, B, luma)
    BY PictureHasPlanes
  <1>2. Encode(frame) = {Header(frame) \o FrameBody(frame)}
    BY <1>1, PlanesOf
  <1>3. Decode(Header(frame) \o FrameBody(frame)) = {frame}
    BY PictureBack
  <1> QED
    BY <1>2, <1>3

LEMMA JoinedAt ==
    ASSUME NEW h \in Seq(Nat), NEW b \in Seq(Nat)
    PROVE  Len(h \o b) = Len(h) + Len(b) /\ \A i \in 1 .. Len(b) : (h \o b)[Len(h) + i] = b[i]
  <1>1. Len(h \o b) = Len(h) + Len(b)
    OBVIOUS
  <1>2. ASSUME NEW i \in 1 .. Len(b) PROVE (h \o b)[Len(h) + i] = b[i]
    OBVIOUS
  <1> QED
    BY <1>1, <1>2

LEMMA BytesIn == \A b \in Seq(Bytes) : \A k \in 1 .. Len(b) : b[k] \in Bytes
  OBVIOUS

LEMMA HashesIn == \A b \in Seq(Hashes) : \A k \in 1 .. Len(b) : b[k] \in Hashes
  OBVIOUS

\* What is put into a body that was encoded is noticed.
LEMMA FrameAltered ==
    ASSUME NEW frame, NEW luma, HasPlanes(frame, Bytes, luma),
           NEW k \in Nat \ {0}, NEW to \in Bytes,
           HeaderLen + k <= Len(Header(frame) \o FrameBody(frame)),
           (Header(frame) \o FrameBody(frame))[HeaderLen + k] # to
    PROVE  /\ k <= Len(FrameBody(frame))
           /\ Decode([Header(frame) \o FrameBody(frame) EXCEPT ![HeaderLen + k] = to]) = {}
  <1> DEFINE h == Header(frame)
             b == FrameBody(frame)
             n == HeaderLen
  <1>0. Bytes \in SUBSET Nat /\ Bytes \in SUBSET Hashes
    BY BytesType
  <1>1. h \in Seq(Nat) /\ Len(h) = HeaderLen /\ h[6] = Checksum(b)
    BY <1>0, HeaderType
  <1>2. b \in Seq(Bytes)
    BY BodyBytes
  <1>3. b \in Seq(Nat)
    BY <1>0, <1>2, SeqMonotonic
  <1>4. Len(h \o b) = n + Len(b) /\ \A i \in 1 .. Len(b) : (h \o b)[n + i] = b[i]
    <2> HIDE DEF h, b
    <2>1. Len(h \o b) = Len(h) + Len(b) /\ \A i \in 1 .. Len(b) : (h \o b)[Len(h) + i] = b[i]
      BY <1>1, <1>3, JoinedAt
    <2> QED
      BY <1>1, <2>1
  <1>5. n + k <= Len(h \o b) /\ (h \o b)[n + k] # to
    OBVIOUS
  <1> HIDE DEF h, b
  <1>6. k \in 1 .. Len(b)
    <2>1. Len(b) \in Nat
      BY <1>3, LenProperties
    <2>2. n \in Nat /\ n + k <= n + Len(b)
      BY <1>4, <1>5 DEF HeaderLen
    <2> HIDE DEF n
    <2> QED
      BY <2>1, <2>2
  <1>7. b[k] # to /\ b[k] \in Hashes
    <2>1. (h \o b)[n + k] = b[k]
      BY <1>4, <1>6
    <2>2. b[k] \in Bytes
      BY <1>2, <1>6, BytesIn
    <2> QED
      BY <1>0, <1>5, <2>1, <2>2
  <1>8. MayBecome(h, b, k, to)
    BY <1>0, <1>1, <1>3, <1>6, <1>7 DEF MayBecome
  <1>9. Decode([h \o b EXCEPT ![HeaderLen + k] = to]) = {}
    BY <1>8, AlteredRefused
  <1>10. k <= Len(b)
    BY <1>6
  <1> QED
    BY <1>9, <1>10 DEF h, b

------------------------------------------------------------------------------
(* The calls that encode and decode a frame.                               *)

LEMMA OneOf == \A x : (CHOOSE e \in {x} : TRUE) = x
  OBVIOUS

LEMMA FramesBack ==
    ASSUME NEW c \in RoundTripCalls, c.frame.width % 2 = 0, c.frame.height % 2 = 0
    PROVE  Decoded(c) = {c.frame}
  <1>1. c.fn = "round_trip" /\ \E w, h \in 1 .. MaxSide : c.frame \in Frames(w, h)
    BY DEF RoundTripCalls
  <1>2. PICK w \in 1 .. MaxSide, h \in 1 .. MaxSide : c.frame \in Frames(w, h)
    BY <1>1
  <1>3. MaxSide \in Nat /\ MaxSide * MaxSide < CountSpace
    BY ParameterAssumption DEF CountSpace
  <1>4. w \in Nat /\ h \in Nat /\ w * h < CountSpace
    <2>1. w \in Nat /\ h \in Nat /\ w <= MaxSide /\ h <= MaxSide
      BY <1>3
    <2>2. w * h \in Nat /\ w * h <= MaxSide * MaxSide /\ MaxSide * MaxSide \in Nat
      BY <1>3, <2>1, ProductGrows
    <2>3. CountSpace \in Nat
      BY BytesType DEF CountSpace
    <2> DEFINE x == w * h
               y == MaxSide * MaxSide
    <2>4. x \in Nat /\ y \in Nat /\ x <= y /\ y < CountSpace
      BY <1>3, <2>2
    <2> HIDE DEF x, y
    <2>5. x < CountSpace
      BY <2>3, <2>4
    <2> QED
      BY <2>1, <2>5 DEF x
  <1>5. c.frame.width = w /\ c.frame.height = h
    BY <1>2, <1>4, FrameType
  <1>6. Picture(c.frame, {0, 1})
    BY <1>2, <1>4, <1>5, EvenPicture
  <1>7. UNION {Decode(payload) : payload \in Encode(c.frame)} = {c.frame}
    BY <1>6, FrameBack
  <1> QED
    BY <1>1, <1>7 DEF Decoded

LEMMA AlteredFrame ==
    ASSUME NEW c \in AlteredCalls, MayAlter(c)
    PROVE  Decoded(c) = {}
  <1> DEFINE f == c.frame
             luma == MaxSide * MaxSide
             s == Header(f) \o FrameBody(f)
  <1>1. /\ c.fn = "altered" /\ f \in Frames(MaxSide, MaxSide) /\ c.to \in Bytes
        /\ c.at \in 1 .. 16 + 8 * MaxSide * MaxSide
    BY DEF AlteredCalls, Bytes
  <1>2. MaxSide \in Nat /\ luma \in Nat /\ luma < CountSpace
    BY ParameterAssumption DEF CountSpace
  <1>3. c.at \in Nat \ {0}
    <2>1. 16 + 8 * MaxSide * MaxSide \in Nat
      BY <1>2
    <2> QED
      BY <1>1, <2>1
  <1>4. /\ f \in [width : Nat, height : Nat, keyframe : Nat, data : Seq({0, 1})]
        /\ f.width = MaxSide /\ f.height = MaxSide
    BY <1>1, <1>2, FrameType
  <1>5. f \in [width : Nat, height : Nat, keyframe : Nat, data : Seq(Bytes)]
    <2>1. \A s1 \in Seq({0, 1}) : s1 \in Seq(Bytes)
      BY BytesType, SeqMonotonic
    <2>2. f = [width |-> f.width, height |-> f.height, keyframe |-> f.keyframe, data |-> f.data]
      BY <1>4
    <2>3. f.width \in Nat /\ f.height \in Nat /\ f.keyframe \in Nat /\ f.data \in Seq(Bytes)
      BY <1>4, <2>1
    <2> QED
      BY <2>2, <2>3
  <1>6. luma = LumaSize(f.width, f.height)
    BY <1>4 DEF LumaSize
  <1>7. CASE Len(f.data) < luma + 2 * ChromaSize(luma)
    <2>1. Encode(f) = {}
      BY <1>6, <1>7 DEF Encode
    <2> QED
      BY <2>1 DEF Decoded
  <1>8. CASE ~(Len(f.data) < luma + 2 * ChromaSize(luma))
    <2>0. Len(f.data) >= luma + 2 * ChromaSize(luma)
      <3>1. Len(f.data) \in Nat
        BY <1>5, LenProperties
      <3>2. luma \in Nat /\ ChromaSize(luma) \in Nat
        <4>1. luma \in Nat
          BY <1>2
        <4> HIDE DEF luma
        <4> QED
          BY <4>1 DEF ChromaSize
      <3> HIDE DEF luma
      <3> QED
        BY <1>8, <3>1, <3>2
    <2>1. HasPlanes(f, Bytes, luma)
      BY <1>2, <1>5, <1>6, <2>0 DEF HasPlanes
    <2> HIDE DEF luma
    <2>2. Encode(f) = {s}
      BY <2>1, PlanesOf
    <2>3. HeaderLen + c.at <= Len(s) /\ s[HeaderLen + c.at] # c.to
      <3>1. Encoded(f) = s
        BY <2>2, OneOf DEF Encoded
      <3> HIDE DEF s
      <3> QED
        BY <3>1 DEF MayAlter
    <2>4. Decode([s EXCEPT ![HeaderLen + c.at] = c.to]) = {}
      BY <1>1, <1>2, <1>3, <2>1, <2>3, FrameAltered
    <2> HIDE DEF s
    <2>5. Decoded(c) = UNION {Decode([payload EXCEPT ![HeaderLen + c.at] = c.to]) : payload \in {s}}
      BY <1>1, <2>2 DEF Decoded
    <2> QED
      BY <2>4, <2>5
  <1> QED
    BY <1>7, <1>8

------------------------------------------------------------------------------
(* The calls that encode and decode a sound.                               *)

LEMMA RemainderIs ==
    ASSUME NEW d \in Nat \ {0}, NEW p \in Nat, NEW e \in 0 .. d - 1
    PROVE  (d * p + e) \div d = p /\ (d * p + e) % d = e
  <1> DEFINE x == d * p + e
  <1>1. x \in Nat
    OBVIOUS
  <1>2. x \div d = p
    BY QuotientIs
  <1>3. x \div d \in Nat /\ x % d \in 0 .. d - 1 /\ x = d * (x \div d) + (x % d)
    <2> HIDE DEF x
    <2> QED
      BY <1>1, DivMod
  <1>4. d * p + e = d * p + (x % d)
    BY <1>2, <1>3
  <1> DEFINE r == x % d
             y == d * p
  <1>5. y \in Nat /\ r \in 0 .. d - 1 /\ y + e = y + r
    BY <1>3, <1>4
  <1> HIDE DEF x, y, r
  <1>6. e = r
    BY <1>5
  <1> QED
    BY <1>2, <1>6 DEF x, r

\* Whole samples, in whole frames.
LEMMA WholeFrames ==
    ASSUME NEW n \in Nat, NEW a \in Nat \ {0}, NEW f \in Nat \ {0}
    PROVE  (n % (f * a) = 0) <=> (n % a = 0 /\ (n \div a) % f = 0)
  <1>1. f * a \in Nat \ {0} /\ 0 \in 0 .. f * a - 1 /\ 0 \in 0 .. a - 1 /\ 0 \in 0 .. f - 1
    <2>1. f * a \in Nat \ {0}
      OBVIOUS
    <2> QED
      BY <2>1
  <1>2. ASSUME n % (f * a) = 0 PROVE n % a = 0 /\ (n \div a) % f = 0
    <2> DEFINE q == n \div (f * a)
    <2>1. q \in Nat /\ n = (f * a) * q + 0
      BY <1>1, <1>2, DivMod
    <2> HIDE DEF q
    <2>2. f * q \in Nat /\ n = a * (f * q) + 0
      BY <2>1
    <2>3. n \div a = f * q + 0 /\ n % a = 0
      <3> DEFINE m == f * q
      <3>1. m \in Nat /\ n = a * m + 0
        BY <2>2
      <3> HIDE DEF m
      <3>2. (a * m + 0) \div a = m /\ (a * m + 0) % a = 0
        BY <1>1, <3>1, RemainderIs
      <3>3. n \div a = m /\ n % a = 0 /\ m = m + 0
        BY <3>1, <3>2
      <3> QED
        BY <3>3 DEF m
    <2>4. (f * q + 0) % f = 0
      BY <1>1, <2>1, RemainderIs
    <2> QED
      BY <2>3, <2>4
  <1>3. ASSUME n % a = 0, (n \div a) % f = 0 PROVE n % (f * a) = 0
    <2> DEFINE m == n \div a
               q == m \div f
    <2>1. m \in Nat /\ n = a * m + 0
      BY <1>3, DivMod
    <2>2. q \in Nat /\ m = f * q + 0
      <3>1. m % f = 0
        BY <1>3
      <3> HIDE DEF m
      <3> QED
        BY <2>1, <3>1, DivMod
    <2> HIDE DEF m, q
    <2>3. n = (f * a) * q + 0
      BY <2>1, <2>2
    <2> QED
      BY <1>1, <2>2, <2>3, RemainderIs
  <1> QED
    BY <1>2, <1>3

LEMMA Joined ==
    ASSUME NEW h \in Seq(Nat), NEW b \in Seq(Nat)
    PROVE  /\ Len(h \o b) = Len(h) + Len(b) /\ SubSeq(h \o b, Len(h) + 1, Len(h \o b)) = b
           /\ \A i \in 1 .. Len(h) : (h \o b)[i] = h[i]
  <1> DEFINE n == Len(h)
  <1>1. n = Len(h)
    OBVIOUS
  <1> HIDE DEF n
  <1>2. /\ h \o b \in Seq(Nat) /\ Len(h \o b) = n + Len(b)
        /\ SubSeq(h \o b, n + 1, Len(h \o b)) = b
        /\ \A i \in 1 .. n : (h \o b)[i] = h[i]
        /\ \A i \in 1 .. Len(b) : (h \o b)[n + i] = b[i]
    BY <1>1, AfterHeader
  <1> QED
    BY <1>1, <1>2

\* What is decoded from a header and a sound below it.
LEMMA SoundDecoded ==
    ASSUME NEW h \in Seq(Nat), Len(h) = AudioHeaderLen, NEW b \in Seq(Nat), b # <<>>
    PROVE  DecodeAudio(h \o b) =
              IF /\ h[1] = Magic /\ Len(b) = h[5] /\ Checksum(b) = h[6]
                 /\ 0 \notin {h[2], h[3], h[4]} /\ Len(b) = h[4] * SampleBytes(h[3])
              THEN {[rate |-> h[2], channels |-> h[3], data |-> b]} ELSE {}
  <1> DEFINE w == h \o b
             n == AudioHeaderLen
  <1>1. Len(w) = n + Len(b) /\ SubSeq(w, n + 1, Len(w)) = b /\ \A i \in 1 .. n : w[i] = h[i]
    <2>1. n = Len(h)
      OBVIOUS
    <2>2. Len(w) = Len(h) + Len(b) /\ SubSeq(w, Len(h) + 1, Len(w)) = b
          /\ \A i \in 1 .. Len(h) : w[i] = h[i]
      BY Joined
    <2> HIDE DEF n, w
    <2> QED
      BY <2>1, <2>2
  <1>2. Len(w) > n
    <2>1. Len(b) \in Nat \ {0}
      BY EmptySeq, LenProperties
    <2> HIDE DEF w
    <2> QED
      BY <1>1, <2>1 DEF AudioHeaderLen
  <1>3. w[1] = h[1] /\ w[2] = h[2] /\ w[3] = h[3] /\ w[4] = h[4] /\ w[5] = h[5] /\ w[6] = h[6]
    BY <1>1 DEF AudioHeaderLen
  <1> HIDE DEF w
  <1>4. DecodeAudio(w) =
          IF /\ w[1] = Magic /\ Len(b) = w[5] /\ Checksum(b) = w[6]
             /\ 0 \notin {w[2], w[3], w[4]} /\ Len(b) = w[4] * SampleBytes(w[3])
          THEN {[rate |-> w[2], channels |-> w[3], data |-> b]} ELSE {}
    BY <1>1, <1>2 DEF DecodeAudio
  <1> QED
    BY <1>3, <1>4 DEF w

ChannelsOf(sound) == OrElse(sound.channels, 1)
SamplesOf(sound) == Len(sound.data) \div SampleBytes(ChannelsOf(sound))

AudioHeader(sound) ==
    <<Magic, sound.rate, ChannelsOf(sound), SamplesOf(sound), Len(sound.data),
      Checksum(sound.data)>>

\* A sound that has whole frames, and at least one.
WholeSound(sound) ==
    /\ sound.data # <<>> /\ SamplesOf(sound) \in Nat \ {0}
    /\ Len(sound.data) = SamplesOf(sound) * SampleBytes(ChannelsOf(sound))

\* A sound of bytes.
IsSound(sound) == sound.data \in Seq(Bytes) /\ sound.rate \in Nat /\ sound.channels \in 0 .. 2

LEMMA SoundsAre == ASSUME NEW s \in Sounds PROVE IsSound(s)
  <1>1. s.rate \in {0, 3} /\ s.channels \in 0 .. 2
        /\ \E n \in 0 .. 4 * FrameSamples : s.data \in [1 .. n -> {0, 1}]
    BY DEF Sounds
  <1>2. s.data \in Seq({0, 1})
    <2>1. FrameSamples \in Nat
      BY SoundAssumption
    <2>2. PICK n \in 0 .. 4 * FrameSamples : s.data \in [1 .. n -> {0, 1}]
      BY <1>1
    <2>3. n \in Nat
      BY <2>1
    <2> QED
      BY <2>2, <2>3
  <1>3. s.data \in Seq(Bytes)
    BY <1>2, BytesType, SeqMonotonic
  <1> QED
    BY <1>1, <1>3 DEF IsSound

LEMMA SoundType ==
    ASSUME NEW s, IsSound(s)
    PROVE  /\ s.data \in Seq(Nat) /\ s.data \in Seq(Hashes)
           /\ ChannelsOf(s) = (IF s.channels = 2 THEN 2 ELSE 1)
           /\ s.rate \in Nat /\ s.channels \in 0 .. 2
  <1>1. s.rate \in Nat /\ s.channels \in 0 .. 2 /\ s.data \in Seq(Bytes)
    BY DEF IsSound
  <1>2. s.data \in Seq(Nat) /\ s.data \in Seq(Hashes)
    BY <1>1, BytesType, SeqMonotonic
  <1>3. ChannelsOf(s) = (IF s.channels = 2 THEN 2 ELSE 1)
    BY <1>1 DEF ChannelsOf, OrElse
  <1> QED
    BY <1>1, <1>2, <1>3

LEMMA SoundEncoded ==
    ASSUME NEW s, IsSound(s)
    PROVE  /\ AudioHeader(s) \in Seq(Nat) /\ Len(AudioHeader(s)) = AudioHeaderLen
           /\ EncodeAudio(s) = IF Taken(s) = {} THEN {} ELSE {AudioHeader(s) \o s.data}
           /\ Taken(s) # {} => /\ WholeSound(s) /\ s.rate # 0
                               /\ Taken(s) = {[rate |-> s.rate, channels |-> ChannelsOf(s),
                                               data |-> s.data]}
  <1> DEFINE n == Len(s.data)
             a == SampleBytes(ChannelsOf(s))
             m == n \div a
             F == FrameSamples
  <1>1. /\ s.data \in Seq(Nat) /\ s.rate \in Nat
        /\ ChannelsOf(s) = (IF s.channels = 2 THEN 2 ELSE 1)
    BY SoundType
  <1>2. n \in Nat /\ a = (IF s.channels = 2 THEN 4 ELSE 2) /\ a \in Nat \ {0} /\ F \in Nat \ {0}
        /\ (s.data = <<>> <=> n = 0)
    BY <1>1, SoundAssumption DEF SampleBytes
  <1>3. m \in Nat /\ n = a * m + (n % a) /\ m = SamplesOf(s)
    <2>1. m = SamplesOf(s)
      BY DEF SamplesOf
    <2> HIDE DEF n, a
    <2> QED
      BY <1>2, <2>1, DivMod
  <1>4. Checksum(s.data) \in Nat
    BY <1>1, ChecksumType
  <1>5. AudioHeader(s) \in Seq(Nat) /\ Len(AudioHeader(s)) = AudioHeaderLen
    <2>1. Magic \in Nat /\ ChannelsOf(s) \in Nat
      BY <1>1, HashAssumption
    <2>2. AudioHeader(s) = <<Magic, s.rate, ChannelsOf(s), m, n, Checksum(s.data)>>
      BY <1>3 DEF AudioHeader
    <2> HIDE DEF m, n
    <2> QED
      BY <1>1, <1>2, <1>3, <1>4, <2>1, <2>2 DEF AudioHeaderLen
  <1>6. Taken(s) = IF s.rate = 0 \/ n = 0 \/ n % (F * a) # 0 THEN {}
                   ELSE {[rate |-> s.rate, channels |-> ChannelsOf(s), data |-> s.data]}
    BY <1>1, <1>2 DEF Taken
  <1>7. EncodeAudio(s) = IF s.rate = 0 \/ n = 0 \/ n % a # 0 \/ m % F # 0 THEN {}
                         ELSE {AudioHeader(s) \o s.data}
    BY DEF EncodeAudio, AudioHeader, ChannelsOf, SamplesOf
  <1> HIDE DEF n, a, m
  <1>8. n % (F * a) = 0 <=> (n % a = 0 /\ m % F = 0)
    BY <1>2, WholeFrames DEF m
  <1>9. Taken(s) # {} => s.rate # 0 /\ n # 0 /\ n % (F * a) = 0
    BY <1>6
  <1>10. Taken(s) = {} <=> (s.rate = 0 \/ n = 0 \/ n % (F * a) # 0)
    BY <1>6
  <1>11. ASSUME n # 0, n % (F * a) = 0 PROVE WholeSound(s)
    <2>1. n % a = 0
      BY <1>8, <1>11
    <2>2. n = a * m
      BY <1>2, <1>3, <2>1
    <2>3. m \in Nat \ {0} /\ n = m * a
      <3>1. a * m = m * a /\ (m = 0 => a * m = 0)
        BY <1>2, <1>3
      <3> QED
        BY <1>3, <1>11, <2>2, <3>1
    <2> QED
      BY <1>2, <1>3, <1>11, <2>3 DEF WholeSound, n, a
  <1>12. EncodeAudio(s) = IF Taken(s) = {} THEN {} ELSE {AudioHeader(s) \o s.data}
    BY <1>7, <1>8, <1>10
  <1> QED
    BY <1>5, <1>6, <1>9, <1>11, <1>12

LEMMA SoundDecodes ==
    ASSUME NEW s, IsSound(s), Taken(s) # {}
    PROVE  DecodeAudio(AudioHeader(s) \o s.data) = Taken(s)
  <1> DEFINE h == AudioHeader(s)
             b == s.data
  <1>2. h \in Seq(Nat) /\ Len(h) = AudioHeaderLen /\ b \in Seq(Nat)
        /\ s.rate \in Nat \ {0} /\ ChannelsOf(s) \in Nat \ {0}
    BY SoundType, SoundEncoded
  <1>3. /\ WholeSound(s)
        /\ Taken(s) = {[rate |-> s.rate, channels |-> ChannelsOf(s), data |-> b]}
    BY SoundEncoded
  <1>4. /\ h[1] = Magic /\ h[2] = s.rate /\ h[3] = ChannelsOf(s) /\ h[4] = SamplesOf(s)
        /\ h[5] = Len(b) /\ h[6] = Checksum(b)
    BY DEF AudioHeader
  <1>5. /\ SamplesOf(s) \in Nat \ {0} /\ b # <<>>
        /\ Len(b) = SamplesOf(s) * SampleBytes(ChannelsOf(s))
    BY <1>3 DEF WholeSound
  <1> HIDE DEF h, b
  <1>6. DecodeAudio(h \o b) =
            IF /\ h[1] = Magic /\ Len(b) = h[5] /\ Checksum(b) = h[6]
               /\ 0 \notin {h[2], h[3], h[4]} /\ Len(b) = h[4] * SampleBytes(h[3])
            THEN {[rate |-> h[2], channels |-> h[3], data |-> b]} ELSE {}
    BY <1>2, <1>5, SoundDecoded
  <1>7. 0 \notin {h[2], h[3], h[4]}
    BY <1>2, <1>4, <1>5
  <1>8. DecodeAudio(h \o b) = Taken(s)
    BY <1>3, <1>4, <1>5, <1>6, <1>7
  <1> QED
    BY <1>8 DEF h, b

LEMMA SoundBack ==
    ASSUME NEW c \in SoundCalls PROVE Heard(c) = Taken(c.sound)
  <1> DEFINE s == c.sound
             w == AudioHeader(s) \o s.data
  <1>1. c.fn = "sound" /\ IsSound(s)
    BY SoundsAre DEF SoundCalls
  <1> HIDE DEF s
  <1>2. EncodeAudio(s) = IF Taken(s) = {} THEN {} ELSE {w}
    BY <1>1, SoundEncoded
  <1>3. Taken(s) # {} => DecodeAudio(w) = Taken(s)
    BY <1>1, SoundDecodes
  <1> HIDE DEF w
  <1>4. Heard(c) = UNION {DecodeAudio(payload) : payload \in EncodeAudio(s)}
    BY <1>1 DEF Heard, s
  <1>5. Heard(c) = Taken(s)
    BY <1>2, <1>3, <1>4
  <1> QED
    BY <1>5 DEF s

LEMMA AlteredBefore ==
    ASSUME NEW h \in Seq(Nat), NEW b \in Seq(Nat), NEW k \in 1 .. Len(h), NEW to \in Nat
    PROVE  Replaced(h \o b, k, to) = Replaced(h, k, to) \o b
  <1> DEFINE n == Len(h)
             w == h \o b
             c == [h EXCEPT ![k] = to]
             x == [w EXCEPT ![k] = to]
             y == c \o b
             m == Len(b)
  <1>1. n \in Nat /\ m \in Nat
    OBVIOUS
  <1>2. /\ w \in Seq(Nat) /\ Len(w) = n + m
        /\ \A i \in 1 .. n + m : w[i] = IF i <= n THEN h[i] ELSE b[i - n]
    BY ConcatProperties
  <1>3. /\ c \in Seq(Nat) /\ Len(c) = n
        /\ \A j \in 1 .. n : c[j] = IF j = k THEN to ELSE h[j]
    BY ExceptSeq
  <1>4. /\ y \in Seq(Nat) /\ Len(y) = n + m
        /\ \A i \in 1 .. n + m : y[i] = IF i <= n THEN c[i] ELSE b[i - n]
    BY <1>3, ConcatProperties
  <1>5. k \in 1 .. n + m
    BY <1>1
  <1>6. /\ x \in Seq(Nat) /\ Len(x) = n + m
        /\ \A i \in 1 .. n + m : x[i] = IF i = k THEN to ELSE w[i]
    <2>1. k \in 1 .. Len(w) /\ w \in Seq(Nat)
      BY <1>2, <1>5
    <2> HIDE DEF w, m, n
    <2>2. /\ [w EXCEPT ![k] = to] \in Seq(Nat) /\ Len([w EXCEPT ![k] = to]) = Len(w)
          /\ \A i \in 1 .. Len(w) : [w EXCEPT ![k] = to][i] = IF i = k THEN to ELSE w[i]
      BY <2>1, ExceptSeq
    <2> HIDE DEF x
    <2> QED
      BY <1>2, <2>2 DEF x
  <1>9. k <= n
    OBVIOUS
  <1> HIDE DEF n, w, c, x, y, m
  <1>7. ASSUME NEW i \in 1 .. n + m PROVE x[i] = y[i]
    <2>1. CASE i <= n
      <3>1. i \in 1 .. n
        BY <1>1, <2>1
      <3> QED
        BY <1>2, <1>3, <1>4, <1>6, <2>1, <3>1
    <2>2. CASE ~(i <= n)
      <3>1. i # k
        BY <1>1, <1>9, <2>2
      <3> QED
        BY <1>2, <1>4, <1>6, <2>2, <3>1
    <2> QED
      BY <2>1, <2>2
  <1>8. x = y
    BY <1>4, <1>6, <1>7, SeqEqual
  <1> QED
    BY <1>8 DEF x, y, w, c, Replaced

LEMMA TimesOneToOne ==
    ASSUME NEW k \in Nat \ {0}, NEW x \in Nat, NEW y \in Nat, k * x = k * y
    PROVE  x = y
  <1>1. ASSUME NEW d \in Nat, NEW e \in Nat, d < e PROVE k * d < k * e
    <2> DEFINE f == e - d
    <2>1. f \in Nat \ {0} /\ e = d + f
      BY <1>1
    <2> HIDE DEF f
    <2>2. k * e = k * d + k * f /\ k * f \in Nat \ {0} /\ k * d \in Nat
      BY <2>1
    <2> QED
      BY <2>2
  <1>2. ~(x < y) /\ ~(y < x)
    <2>1. k * x \in Nat /\ k * y \in Nat
      OBVIOUS
    <2> QED
      BY <1>1, <2>1
  <1> QED
    BY <1>2

LEMMA ReplacedType ==
    ASSUME NEW s \in Seq(Nat), NEW k \in 1 .. Len(s), NEW to \in Nat
    PROVE  /\ Replaced(s, k, to) \in Seq(Nat) /\ Len(Replaced(s, k, to)) = Len(s)
           /\ \A j \in 1 .. Len(s) : Replaced(s, k, to)[j] = IF j = k THEN to ELSE s[j]
  BY ExceptSeq DEF Replaced

\* One field is no longer what the header of the sound says, except for the rate.
LEMMA OtherSound ==
    ASSUME NEW s, WholeSound(s), s.data \in Seq(Nat), ChannelsOf(s) \in Nat \ {0},
           NEW g \in Seq(Nat), Len(g) = AudioHeaderLen, NEW at \in (1 .. 6) \ {2}, NEW to \in Nat,
           AudioHeader(s)[at] # to,
           \A j \in 1 .. 6 : g[j] = IF j = at THEN to ELSE AudioHeader(s)[j]
    PROVE  DecodeAudio(g \o s.data) = {}
  <1> DEFINE h == AudioHeader(s)
             b == s.data
             n == Len(b)
             m == SamplesOf(s)
             a == ChannelsOf(s)
  <1>1. /\ h[1] = Magic /\ h[2] = s.rate /\ h[3] = a /\ h[4] = m /\ h[5] = n
        /\ h[6] = Checksum(b)
    BY DEF AudioHeader
  <1>2. b # <<>> /\ m \in Nat \ {0} /\ n = m * SampleBytes(a) /\ n \in Nat /\ b \in Seq(Nat)
    <2>1. b # <<>> /\ m \in Nat \ {0} /\ n = m * SampleBytes(a)
      BY DEF WholeSound
    <2>2. b \in Seq(Nat)
      OBVIOUS
    <2> HIDE DEF b
    <2>3. Len(b) \in Nat
      BY <2>2, LenProperties
    <2> QED
      BY <2>1, <2>2, <2>3
  <1> DEFINE Taking == /\ g[1] = Magic /\ n = g[5] /\ Checksum(b) = g[6]
                       /\ 0 \notin {g[2], g[3], g[4]} /\ n = g[4] * SampleBytes(g[3])
  <1>3. DecodeAudio(g \o b) =
          IF Taking THEN {[rate |-> g[2], channels |-> g[3], data |-> b]} ELSE {}
    BY <1>2, SoundDecoded
  <1>4. h[at] # to /\ \A j \in 1 .. 6 : g[j] = IF j = at THEN to ELSE h[j]
    OBVIOUS
  <1>5. a \in Nat \ {0} /\ to \in Nat /\ at \in {1, 3, 4, 5, 6}
    OBVIOUS
  <1>10. g[3] \in {to, h[3]} /\ g[4] \in {to, h[4]} /\ \A j \in {1, 3, 4, 5, 6} : j \in 1 .. 6
    <2> HIDE DEF h
    <2>1. 3 \in 1 .. 6 /\ 4 \in 1 .. 6
      OBVIOUS
    <2>2. g[3] = (IF 3 = at THEN to ELSE h[3]) /\ g[4] = (IF 4 = at THEN to ELSE h[4])
      BY <1>4, <2>1
    <2>3. \A j \in {1, 3, 4, 5, 6} : j \in 1 .. 6
      OBVIOUS
    <2> QED
      BY <2>2, <2>3
  <1> HIDE DEF h, b, n, m, a
  <1>6. g[3] # a /\ g[4] = m => n # g[4] * SampleBytes(g[3])
    <2>1. ASSUME g[3] # a, g[4] = m, n = g[4] * SampleBytes(g[3]) PROVE FALSE
      <3>1. g[3] \in Nat
        BY <1>1, <1>5, <1>10, <2>1
      <3> DEFINE e == g[3]
      <3>2. m * (e * 2) = m * (a * 2)
        BY <1>2, <2>1 DEF SampleBytes
      <3>3. e \in Nat /\ e # a
        BY <2>1, <3>1
      <3> HIDE DEF e
      <3>4. e * 2 \in Nat /\ a * 2 \in Nat /\ e * 2 # a * 2
        BY <1>5, <3>3
      <3> DEFINE e2 == e * 2
                 a2 == a * 2
      <3> HIDE DEF e2, a2
      <3>5. m * e2 = m * a2 /\ e2 \in Nat /\ a2 \in Nat /\ e2 # a2
        BY <3>2, <3>4 DEF e2, a2
      <3> QED
        BY <1>2, <3>5, TimesOneToOne
    <2> QED
      BY <2>1
  <1>7. g[4] # m /\ g[3] = a => n # g[4] * SampleBytes(g[3])
    <2>1. ASSUME g[4] # m, g[3] = a, n = g[4] * SampleBytes(g[3]) PROVE FALSE
      <3>1. g[4] \in Nat
        BY <1>1, <1>2, <1>5, <1>10
      <3> DEFINE e == g[4]
                 k == a * 2
      <3>2. e * k = m * k
        BY <1>2, <2>1 DEF SampleBytes
      <3>3. e \in Nat /\ e # m /\ k \in Nat \ {0}
        BY <1>5, <2>1, <3>1
      <3> HIDE DEF e, k
      <3>4. k * e = k * m
        BY <1>2, <3>2, <3>3
      <3> QED
        BY <1>2, <3>3, <3>4, TimesOneToOne
    <2> QED
      BY <2>1
  <1>8. ~Taking
    <2>1. /\ g[1] = IF 1 = at THEN to ELSE h[1]
          /\ g[3] = IF 3 = at THEN to ELSE h[3]
          /\ g[4] = IF 4 = at THEN to ELSE h[4]
          /\ g[5] = IF 5 = at THEN to ELSE h[5]
          /\ g[6] = IF 6 = at THEN to ELSE h[6]
      BY <1>4
    <2>2. CASE at = 1
      BY <1>1, <1>4, <2>1, <2>2
    <2>3. CASE at = 3
      BY <1>1, <1>4, <1>6, <2>1, <2>3
    <2>4. CASE at = 4
      BY <1>1, <1>4, <1>7, <2>1, <2>4
    <2>5. CASE at = 5
      BY <1>1, <1>4, <2>1, <2>5
    <2>6. CASE at = 6
      BY <1>1, <1>4, <2>1, <2>6
    <2> QED
      BY <1>5, <2>2, <2>3, <2>4, <2>5, <2>6
  <1> HIDE DEF Taking
  <1> QED
    BY <1>3, <1>8 DEF b

LEMMA SoundAltered ==
    ASSUME NEW s, IsSound(s), Taken(s) # {}, NEW at \in Nat \ {0, 2}, NEW to \in Hashes,
           at <= Len(AudioHeader(s) \o s.data), (AudioHeader(s) \o s.data)[at] # to
    PROVE  DecodeAudio(Replaced(AudioHeader(s) \o s.data, at, to)) = {}
  <1> DEFINE h == AudioHeader(s)
             b == s.data
             w == h \o b
  <1>1. to \in Hashes
    OBVIOUS
  <1>2. /\ h \in Seq(Nat) /\ Len(h) = AudioHeaderLen /\ b \in Seq(Nat) /\ b \in Seq(Hashes)
        /\ ChannelsOf(s) \in Nat \ {0} /\ WholeSound(s)
    <2>1. b \in Seq(Nat) /\ b \in Seq(Hashes) /\ ChannelsOf(s) = (IF s.channels = 2 THEN 2 ELSE 1)
      BY SoundType
    <2>2. h \in Seq(Nat) /\ Len(h) = AudioHeaderLen /\ WholeSound(s)
      BY SoundEncoded
    <2> QED
      BY <2>1, <2>2
  <1>3. at \in Nat \ {0} /\ to \in Nat /\ at # 2
    BY HashSpaceType
  <1>4. at <= Len(w) /\ w[at] # to
    OBVIOUS
  <1>6. b # <<>> /\ h[6] = Checksum(b)
    BY <1>2 DEF WholeSound, AudioHeader
  <1>7. Len(w) = Len(h) + Len(b) /\ (\A i \in 1 .. Len(h) : w[i] = h[i])
        /\ \A i \in 1 .. Len(b) : w[Len(h) + i] = b[i]
    <2> HIDE DEF h, b
    <2> QED
      BY <1>2, Joined, JoinedAt
  <1>8. CASE at \in 1 .. 6
    <2>1. at \in 1 .. Len(h)
      BY <1>2, <1>8 DEF AudioHeaderLen
    <2> DEFINE g == Replaced(h, at, to)
    <2>2. /\ g \in Seq(Nat) /\ Len(g) = AudioHeaderLen
          /\ \A j \in 1 .. 6 : g[j] = IF j = at THEN to ELSE h[j]
      <3>1. 1 .. Len(h) = 1 .. 6
        BY <1>2 DEF AudioHeaderLen
      <3> HIDE DEF h
      <3>2. g \in Seq(Nat) /\ Len(g) = Len(h)
            /\ \A j \in 1 .. Len(h) : g[j] = IF j = at THEN to ELSE h[j]
        BY <1>2, <1>3, <2>1, ReplacedType
      <3> HIDE DEF g
      <3> QED
        BY <1>2, <3>1, <3>2
    <2>3. Replaced(w, at, to) = g \o b
      <3> HIDE DEF h, b
      <3> QED
        BY <1>2, <1>3, <2>1, AlteredBefore
    <2>4. h[at] # to
      BY <1>4, <1>7, <2>1
    <2> HIDE DEF g
    <2>5. DecodeAudio(g \o b) = {}
      <3>1. /\ WholeSound(s) /\ b \in Seq(Nat) /\ ChannelsOf(s) \in Nat \ {0} /\ g \in Seq(Nat)
            /\ Len(g) = AudioHeaderLen /\ at \in (1 .. 6) \ {2} /\ to \in Nat /\ h[at] # to
            /\ \A j \in 1 .. 6 : g[j] = IF j = at THEN to ELSE h[j]
        BY <1>2, <1>3, <1>8, <2>2, <2>4
      <3> QED
        BY <3>1, OtherSound
    <2> QED
      BY <2>3, <2>5
  <1>9. CASE at \notin 1 .. 6
    <2> DEFINE k == at - 6
               f == Replaced(b, k, to)
    <2>0. Len(h) = 6
      BY <1>2 DEF AudioHeaderLen
    <2> HIDE DEF h, b, w
    <2>1. k \in 1 .. Len(b) /\ at = Len(h) + k
      BY <1>2, <1>3, <1>4, <1>7, <1>9, <2>0
    <2> HIDE DEF k
    <2>2. b[k] # to /\ b[k] \in Hashes
      <3>1. w[Len(h) + k] = b[k]
        BY <1>7, <2>1
      <3> QED
        BY <1>2, <1>4, <2>1, <3>1, HashesIn
    <2>3. Replaced(h \o b, Len(h) + k, to) = h \o f
      <3> HIDE DEF f
      <3>1. Replaced(h \o b, Len(h) + k, to) = h \o Replaced(b, k, to)
        <4>1. h \in Seq(Nat) /\ b \in Seq(Nat) /\ k \in 1 .. Len(b) /\ to \in Nat
          BY <1>2, <1>3, <2>1
        <4> QED
          BY <4>1, AlteredAfter
      <3> QED
        BY <3>1 DEF f
    <2>4. f \in Seq(Nat) /\ Len(f) = Len(b)
      BY <1>2, <1>3, <2>1, ReplacedType
    <2>5. Checksum(f) # h[6]
      <3>1. Checksum([b EXCEPT ![k] = to]) # Checksum(b)
        BY <1>1, <1>2, <2>1, <2>2, AlterationNoticed
      <3> QED
        BY <1>6, <3>1 DEF Replaced
    <2> HIDE DEF f
    <2>6. f # <<>>
      <3>1. Len(b) # 0
        BY <1>2, <1>6
      <3> QED
        BY <2>4, <3>1
    <2>7. DecodeAudio(h \o f) = {}
      <3>1. DecodeAudio(h \o f) =
              IF /\ h[1] = Magic /\ Len(f) = h[5] /\ Checksum(f) = h[6]
                 /\ 0 \notin {h[2], h[3], h[4]} /\ Len(f) = h[4] * SampleBytes(h[3])
              THEN {[rate |-> h[2], channels |-> h[3], data |-> f]} ELSE {}
        BY <1>2, <2>4, <2>6, SoundDecoded
      <3> QED
        BY <2>5, <3>1
    <2> QED
      BY <2>1, <2>3, <2>7 DEF h, b
  <1> QED
    BY <1>8, <1>9

LEMMA AlteredSound ==
    ASSUME NEW c \in AlteredSoundCalls, MayAlterSound(c), c.at # 2
    PROVE  Heard(c) = {}
  <1> DEFINE s == c.sound
             at == c.at
             to == c.to
             w == AudioHeader(s) \o s.data
  <1>1. /\ c.fn = "altered_sound" /\ IsSound(s) /\ EncodeAudio(s) # {}
        /\ at \in 1 .. AudioHeaderLen + 2 * FrameSamples /\ to \in Hashes
    BY SoundsAre DEF AlteredSoundCalls, Hashes
  <1>2. EncodeAudio(s) = {w} /\ Taken(s) # {}
    <2>1. EncodeAudio(s) = IF Taken(s) = {} THEN {} ELSE {w}
      BY <1>1, SoundEncoded
    <2> HIDE DEF w
    <2> QED
      BY <1>1, <2>1
  <1>3. at \in Nat \ {0, 2}
    <2>1. AudioHeaderLen + 2 * FrameSamples \in Nat
      BY SoundAssumption DEF AudioHeaderLen
    <2>2. at \in Nat \ {0} /\ at # 2
      BY <1>1, <2>1
    <2> QED
      BY <2>2
  <1>4. at <= Len(w) /\ w[at] # to
    <2>1. EncodedSound(c) = w
      BY <1>2, OneOf DEF EncodedSound
    <2> HIDE DEF w
    <2> QED
      BY <2>1 DEF MayAlterSound
  <1>5. Heard(c) = DecodeAudio(Replaced(w, at, to))
    <2> HIDE DEF w
    <2>1. Heard(c) = UNION {DecodeAudio([payload EXCEPT ![at] = to]) : payload \in {w}}
      BY <1>1, <1>2 DEF Heard
    <2> QED
      BY <2>1 DEF Replaced
  <1> HIDE DEF at, to, s
  <1>6. DecodeAudio(Replaced(w, at, to)) = {}
    BY <1>1, <1>2, <1>3, <1>4, SoundAltered
  <1> QED
    BY <1>5, <1>6

------------------------------------------------------------------------------
(* The wire format.                                                        *)

RtpPackets == [version : {Version}, marker : BOOLEAN, payload_type : Nat, sequence_number : Nat,
               timestamp : Nat, ssrc : Nat, payload : Seq(Nat)]

WireHead(packet) ==
    <<(packet.version * 64) % 256,
      (IF packet.marker THEN 128 ELSE 0) + packet.payload_type,
      packet.sequence_number, packet.timestamp, packet.ssrc>>

Wire(packet) == WireHead(packet) \o packet.payload

LEMMA PacketBack ==
    ASSUME NEW packet \in RtpPackets, packet.payload_type < 128, packet.ssrc # 0
    PROVE  Marshal(packet) = {Wire(packet)} /\ Unmarshal(Wire(packet)) = {packet}
  <1> DEFINE h == WireHead(packet)
             b == packet.payload
             w == h \o b
             m == packet.marker
             pt == packet.payload_type
  <1>1. /\ packet = [version |-> Version, marker |-> m, payload_type |-> pt,
                     sequence_number |-> packet.sequence_number,
                     timestamp |-> packet.timestamp, ssrc |-> packet.ssrc, payload |-> b]
        /\ m \in BOOLEAN /\ pt \in Nat /\ pt < 128 /\ packet.sequence_number \in Nat
        /\ packet.timestamp \in Nat /\ packet.ssrc \in Nat /\ b \in Seq(Nat)
        /\ packet.version = 2
    BY DEF RtpPackets, Version
  <1> DEFINE first == (packet.version * 64) % 256
             second == (IF m THEN 128 ELSE 0) + pt
  <1>2. first = 128 /\ first \div 64 = Version
    <2>1. (2 * 64) % 256 = 128 /\ 128 \div 64 = 2
      OBVIOUS
    <2> QED
      BY <1>1, <2>1 DEF Version
  <1>3. second \in Nat /\ (second >= 128 <=> m) /\ second % 128 = pt
    <2>1. ASSUME NEW x \in Nat, x < 128
          PROVE  /\ 128 + x \in Nat /\ 128 + x >= 128 /\ (128 + x) % 128 = x
                 /\ 0 + x = x /\ ~(0 + x >= 128) /\ (0 + x) % 128 = x
      BY <2>1
    <2>2. pt \in Nat /\ pt < 128
      BY <1>1
    <2> HIDE DEF m, pt
    <2>3. CASE m
      <3>1. second = 128 + pt
        BY <2>3
      <3> HIDE DEF second
      <3>2. second \in Nat /\ second >= 128 /\ second % 128 = pt
        BY <2>1, <2>2, <3>1
      <3> QED
        BY <2>3, <3>2
    <2>4. CASE ~m
      <3>1. second = 0 + pt
        BY <2>4
      <3> HIDE DEF second
      <3>2. second \in Nat /\ ~(second >= 128) /\ second % 128 = pt
        BY <2>1, <2>2, <3>1
      <3> QED
        BY <2>4, <3>2
    <2> QED
      BY <2>3, <2>4
  <1>4. h = <<first, second, packet.sequence_number, packet.timestamp, packet.ssrc>>
    BY DEF WireHead
  <1>5. Marshal(packet) = {w}
    <2>1. ~(packet.payload_type > 127 \/ packet.ssrc = 0)
      BY <1>1
    <2> QED
      BY <2>1 DEF Marshal, WireHead
  <1> HIDE DEF first, second
  <1>6. h \in Seq(Nat) /\ Len(h) = 5
    BY <1>1, <1>2, <1>3, <1>4
  <1>7. h[1] = first /\ h[2] = second /\ h[3] = packet.sequence_number /\ h[4] = packet.timestamp
        /\ h[5] = packet.ssrc
    BY <1>4
  <1> HIDE DEF h, b, m, pt
  <1>8. /\ Len(w) = Len(h) + Len(b) /\ SubSeq(w, Len(h) + 1, Len(w)) = b
        /\ \A i \in 1 .. Len(h) : w[i] = h[i]
    BY <1>1, <1>6, Joined
  <1>9. ~(Len(w) < HeaderItems) /\ SubSeq(w, HeaderItems + 1, Len(w)) = b
        /\ w[1] = h[1] /\ w[2] = h[2] /\ w[3] = h[3] /\ w[4] = h[4] /\ w[5] = h[5]
    <2>1. Len(b) \in Nat
      BY <1>1, LenProperties
    <2> HIDE DEF w
    <2> QED
      BY <1>6, <1>8, <2>1 DEF HeaderItems
  <1> HIDE DEF w
  <1>10. Unmarshal(w) =
           {[version |-> w[1] \div 64, marker |-> w[2] >= 128, payload_type |-> w[2] % 128,
             sequence_number |-> w[3], timestamp |-> w[4], ssrc |-> w[5], payload |-> b]}
    <2>1. ~(w[1] \div 64 # Version)
      BY <1>2, <1>7, <1>9
    <2> QED
      BY <1>9, <2>1 DEF Unmarshal
  <1>11. (w[2] >= 128) = m
    BY <1>1, <1>3, <1>7, <1>9
  <1>12. Unmarshal(w) = {packet}
    <2>1. w[1] \div 64 = Version /\ w[2] % 128 = pt /\ (w[2] >= 128) = m
      BY <1>2, <1>3, <1>7, <1>9, <1>11
    <2>2. w[3] = packet.sequence_number /\ w[4] = packet.timestamp /\ w[5] = packet.ssrc
      BY <1>7, <1>9
    <2> QED
      BY <1>1, <1>10, <2>1, <2>2
  <1> QED
    BY <1>5, <1>12 DEF w, h, b, Wire

LEMMA WireBack ==
    ASSUME NEW c \in WireCalls
    PROVE  UNION {Unmarshal(w) : w \in Marshal(c.packet)} =
              {p \in {c.packet} : p.payload_type < 128 /\ p.ssrc # 0}
  <1> DEFINE p == c.packet
  <1>1. p \in RtpPackets
    <2>1. /\ p = [version |-> p.version, marker |-> p.marker, payload_type |-> p.payload_type,
                  sequence_number |-> p.sequence_number, timestamp |-> p.timestamp,
                  ssrc |-> p.ssrc, payload |-> p.payload]
          /\ p.version = Version /\ p.marker \in BOOLEAN
          /\ p.payload_type \in {0, 63, 64, 127, 128, 255}
          /\ p.sequence_number \in {0, SeqSpace - 1} /\ p.timestamp \in {0, TsSpace - 1}
          /\ p.ssrc \in 0 .. 1 /\ p.payload \in {<<>>, <<1, 2>>}
      BY DEF WireCalls
    <2>2. SeqSpace - 1 \in Nat /\ TsSpace - 1 \in Nat
      BY RtpAssumption
    <2>3. <<>> \in Seq(Nat) /\ <<1, 2>> \in Seq(Nat)
      OBVIOUS
    <2>4. ASSUME NEW m \in BOOLEAN, NEW t \in Nat, NEW n \in Nat, NEW u \in Nat, NEW r \in Nat,
                 NEW b \in Seq(Nat)
          PROVE  [version |-> Version, marker |-> m, payload_type |-> t, sequence_number |-> n,
                  timestamp |-> u, ssrc |-> r, payload |-> b] \in RtpPackets
      BY DEF RtpPackets
    <2>5. /\ p.payload_type \in Nat /\ p.sequence_number \in Nat /\ p.timestamp \in Nat
          /\ p.ssrc \in Nat /\ p.payload \in Seq(Nat)
      <3>1. p.payload \in Seq(Nat)
        BY <2>1, <2>3
      <3>2. p.payload_type \in Nat /\ p.ssrc \in Nat
        BY <2>1
      <3>3. p.sequence_number \in Nat /\ p.timestamp \in Nat
        BY <2>1, <2>2
      <3> QED
        BY <3>1, <3>2, <3>3
    <2>6. [version |-> Version, marker |-> p.marker, payload_type |-> p.payload_type,
           sequence_number |-> p.sequence_number, timestamp |-> p.timestamp,
           ssrc |-> p.ssrc, payload |-> p.payload] \in RtpPackets
      BY <2>1, <2>4, <2>5
    <2> QED
      BY <2>1, <2>6
  <1>2. p.payload_type \in Nat
    BY <1>1 DEF RtpPackets
  <1> HIDE DEF p
  <1>3. CASE p.payload_type < 128 /\ p.ssrc # 0
    <2>1. Marshal(p) = {Wire(p)} /\ Unmarshal(Wire(p)) = {p}
      BY <1>1, <1>3, PacketBack
    <2> QED
      BY <1>3, <2>1 DEF p
  <1>4. CASE ~(p.payload_type < 128 /\ p.ssrc # 0)
    <2>1. Marshal(p) = {}
      BY <1>2, <1>4 DEF Marshal
    <2> QED
      BY <1>4, <2>1 DEF p
  <1> QED
    BY <1>3, <1>4

------------------------------------------------------------------------------
(* What sorting does.                                                      *)

\* A finite set, of any two elements of which one is before the other.
IsOrder(S, before) ==
    /\ IsFiniteSet(S)
    /\ \A e \in S : <<e, e>> \notin before
    /\ \A c, d, e \in S : <<c, d>> \in before /\ <<d, e>> \in before => <<c, e>> \in before
    /\ \A d, e \in S : d # e => <<d, e>> \in before \/ <<e, d>> \in before

Below(S, before, e) == {d \in S : <<d, e>> \in before}
Rank(S, before, e) == Cardinality(Below(S, before, e))

LEMMA RankType ==
    ASSUME NEW S, NEW before, IsOrder(S, before), NEW e \in S
    PROVE  /\ Cardinality(S) \in Nat \ {0} /\ IsFiniteSet(Below(S, before, e))
           /\ Rank(S, before, e) \in 0 .. Cardinality(S) - 1
  <1> DEFINE B == Below(S, before, e)
             n == Cardinality(S)
             m == Cardinality(B)
  <1>1. IsFiniteSet(S) /\ B \in SUBSET S /\ e \notin B
    BY DEF IsOrder, Below
  <1>2. IsFiniteSet(B) /\ m <= n /\ (n = m => S = B)
    <2> HIDE DEF B
    <2> QED
      BY <1>1, FS_Subset
  <1>3. n \in Nat /\ m \in Nat
    <2> HIDE DEF B
    <2> QED
      BY <1>1, <1>2, FS_CardinalityType
  <1>4. n # m
    BY <1>1, <1>2
  <1> HIDE DEF n, m
  <1>5. m \in 0 .. n - 1 /\ n \in Nat \ {0}
    BY <1>2, <1>3, <1>4
  <1> QED
    BY <1>2, <1>5 DEF n, m, Rank

LEMMA RankGrows ==
    ASSUME NEW S, NEW before, IsOrder(S, before), NEW d \in S, NEW e \in S, <<d, e>> \in before
    PROVE  Rank(S, before, d) < Rank(S, before, e)
  <1> DEFINE B == Below(S, before, d)
             C == Below(S, before, e)
  <1>1. B \subseteq C /\ d \in C /\ d \notin B
    <2>1. ASSUME NEW x \in B PROVE x \in C
      <3>1. x \in S /\ <<x, d>> \in before
        BY DEF Below
      <3>2. <<x, e>> \in before
        BY <3>1 DEF IsOrder
      <3> QED
        BY <3>1, <3>2 DEF Below
    <2>2. d \in C
      BY DEF Below
    <2>3. d \notin B
      BY DEF Below, IsOrder
    <2> QED
      BY <2>1, <2>2, <2>3
  <1>2. IsFiniteSet(C) /\ IsFiniteSet(B)
    BY RankType
  <1> HIDE DEF B, C
  <1>3. Cardinality(B) <= Cardinality(C) /\ (Cardinality(C) = Cardinality(B) => C = B)
    BY <1>1, <1>2, FS_Subset
  <1>4. Cardinality(B) \in Nat /\ Cardinality(C) \in Nat
    BY <1>2, FS_CardinalityType
  <1>5. Cardinality(C) # Cardinality(B)
    BY <1>1, <1>3
  <1>6. Cardinality(B) < Cardinality(C)
    BY <1>3, <1>4, <1>5
  <1> QED
    BY <1>6 DEF Rank, B, C

LEMMA RankOnce ==
    ASSUME NEW S, NEW before, IsOrder(S, before), NEW d \in S, NEW e \in S,
           Rank(S, before, d) = Rank(S, before, e)
    PROVE  d = e
  <1>1. Rank(S, before, d) \in Nat
    <2>1. Cardinality(S) \in Nat /\ Rank(S, before, d) \in 0 .. Cardinality(S) - 1
      BY RankType
    <2> QED
      BY <2>1
  <1>2. ASSUME <<d, e>> \in before PROVE FALSE
    <2>1. Rank(S, before, d) < Rank(S, before, e)
      BY <1>2, RankGrows
    <2> QED
      BY <1>1, <2>1
  <1>3. ASSUME <<e, d>> \in before PROVE FALSE
    <2>1. Rank(S, before, e) < Rank(S, before, d)
      BY <1>3, RankGrows
    <2> QED
      BY <1>1, <2>1
  <1> QED
    BY <1>2, <1>3 DEF IsOrder

LEMMA RankTaken ==
    ASSUME NEW S, NEW before, IsOrder(S, before), NEW k \in 1 .. Cardinality(S)
    PROVE  \E e \in S : Rank(S, before, e) = k - 1
  <1> DEFINE n == Cardinality(S)
             T == 0 .. n - 1
             f == [e \in S |-> Rank(S, before, e)]
  <1>1. IsFiniteSet(S) /\ n \in Nat
    BY FS_CardinalityType DEF IsOrder
  <1>2. IsFiniteSet(T) /\ Cardinality(T) = n
    <2>0. IsFiniteSet(0 .. n - 1) /\ Cardinality(0 .. n - 1) = IF 0 > n - 1 THEN 0 ELSE (n - 1) - 0 + 1
      <3> HIDE DEF n
      <3> QED
        BY <1>1, FS_Interval
    <2> HIDE DEF n
    <2> QED
      BY <1>1, <2>0
  <1>3. f \in [S -> T] /\ \A d, e \in S : f[d] = f[e] => d = e
    <2>1. \A e \in S : f[e] = Rank(S, before, e) /\ f[e] \in T
      BY RankType
    <2> QED
      BY <2>1, RankOnce
  <1> HIDE DEF T, n
  <1>4. f \in Injection(S, T)
    <2> HIDE DEF f
    <2> QED
      BY <1>3 DEF Injection, IsInjective
  <1>5. f \in Surjection(S, T)
    <2>1. Cardinality(S) = Cardinality(T)
      BY <1>2 DEF n
    <2> HIDE DEF f
    <2> QED
      BY <1>2, <1>4, <2>1, FS_Injection
  <1>6. k - 1 \in T
    BY <1>1 DEF T, n
  <1>7. PICK e \in S : f[e] = k - 1
    <2> HIDE DEF f
    <2> QED
      BY <1>5, <1>6 DEF Surjection
  <1> QED
    BY <1>7

\* In k-th place is the one that has rank k - 1.
LEMMA InOrderAt ==
    ASSUME NEW S, NEW before, IsOrder(S, before), NEW k \in 1 .. Cardinality(S)
    PROVE  /\ InOrder(S, before)[k] \in S
           /\ Rank(S, before, InOrder(S, before)[k]) = k - 1
  <1> DEFINE e == CHOOSE x \in S : Rank(S, before, x) = k - 1
  <1>1. InOrder(S, before)[k] = e
    BY DEF InOrder, Rank, Below
  <1>2. e \in S /\ Rank(S, before, e) = k - 1
    BY RankTaken
  <1> QED
    BY <1>1, <1>2

LEMMA InOrderOf ==
    ASSUME NEW S, NEW before, IsOrder(S, before), NEW e \in S
    PROVE  /\ Rank(S, before, e) + 1 \in 1 .. Cardinality(S)
           /\ InOrder(S, before)[Rank(S, before, e) + 1] = e
  <1> DEFINE r == Rank(S, before, e)
             n == Cardinality(S)
             k == r + 1
  <1>1. n \in Nat /\ r \in 0 .. n - 1
    BY RankType
  <1> HIDE DEF r, n
  <1>2. k \in 1 .. n /\ k - 1 = r
    BY <1>1
  <1> HIDE DEF k
  <1>3. InOrder(S, before)[k] \in S /\ Rank(S, before, InOrder(S, before)[k]) = r
    BY <1>2, InOrderAt DEF n
  <1>4. InOrder(S, before)[k] = e
    BY <1>3, RankOnce DEF r
  <1> QED
    BY <1>2, <1>4 DEF k, r, n

LEMMA InOrderDomain ==
    ASSUME NEW S, NEW before, IsOrder(S, before)
    PROVE  DOMAIN InOrder(S, before) = 1 .. Cardinality(S) /\ Cardinality(S) \in Nat
  BY FS_CardinalityType DEF InOrder, IsOrder

\* f takes one order to another.
Transfers(f, S, before, T, after) ==
    /\ IsOrder(S, before) /\ IsOrder(T, after) /\ f \in Bijection(S, T)
    /\ \A d, e \in S : <<d, e>> \in before <=> <<f[d], f[e]>> \in after

LEMMA RankKept ==
    ASSUME NEW f, NEW S, NEW before, NEW T, NEW after, Transfers(f, S, before, T, after), NEW e \in S
    PROVE  f[e] \in T /\ Rank(T, after, f[e]) = Rank(S, before, e)
  <1> DEFINE B == Below(S, before, e)
             C == Below(T, after, f[e])
             g == [d \in B |-> f[d]]
  <1>1. /\ f \in [S -> T] /\ \A d, x \in S : f[d] = f[x] => d = x
        /\ \A t \in T : \E d \in S : f[d] = t
    BY DEF Transfers, Bijection, Injection, Surjection, IsInjective
  <1>2. B \subseteq S /\ \A d \in B : g[d] = f[d]
    BY DEF Below
  <1>3. g \in [B -> C]
    <2>1. ASSUME NEW d \in B PROVE f[d] \in C
      <3>1. d \in S /\ <<d, e>> \in before
        BY DEF Below
      <3>2. f[d] \in T /\ <<f[d], f[e]>> \in after
        BY <1>1, <3>1 DEF Transfers
      <3> QED
        BY <3>2 DEF Below
    <2> HIDE DEF B, C
    <2> QED
      BY <2>1
  <1>4. \A c \in C : \E d \in B : g[d] = c
    <2>1. ASSUME NEW c \in C PROVE \E d \in B : g[d] = c
      <3>1. c \in T /\ <<c, f[e]>> \in after
        BY DEF Below
      <3>2. PICK d \in S : f[d] = c
        BY <1>1, <3>1
      <3>3. <<d, e>> \in before
        BY <3>1, <3>2 DEF Transfers
      <3>4. d \in B
        BY <3>2, <3>3 DEF Below
      <3> QED
        BY <1>2, <3>2, <3>4
    <2> QED
      BY <2>1
  <1>5. \A d, x \in B : g[d] = g[x] => d = x
    BY <1>1, <1>2
  <1> HIDE DEF B, C, g
  <1>6. g \in Bijection(B, C)
    BY <1>3, <1>4, <1>5 DEF Bijection, Injection, Surjection, IsInjective
  <1>7. IsFiniteSet(B)
    BY RankType DEF Transfers, B
  <1>8. Cardinality(C) = Cardinality(B)
    BY <1>6, <1>7, FS_Bijection DEF ExistsBijection
  <1>9. f[e] \in T
    BY <1>1
  <1> QED
    BY <1>8, <1>9 DEF Rank, B, C

LEMMA OrderMapped ==
    ASSUME NEW f, NEW S, NEW before, NEW T, NEW after, Transfers(f, S, before, T, after)
    PROVE  /\ Cardinality(T) = Cardinality(S) /\ Cardinality(S) \in Nat
           /\ \A k \in 1 .. Cardinality(S) : InOrder(T, after)[k] = f[InOrder(S, before)[k]]
  <1>1. IsFiniteSet(S) /\ IsOrder(S, before) /\ IsOrder(T, after)
    BY DEF Transfers, IsOrder
  <1>2. Cardinality(T) = Cardinality(S)
    BY <1>1, FS_Bijection DEF Transfers, ExistsBijection
  <1>3. ASSUME NEW k \in 1 .. Cardinality(S)
        PROVE  InOrder(T, after)[k] = f[InOrder(S, before)[k]]
    <2> DEFINE e == InOrder(S, before)[k]
               t == InOrder(T, after)[k]
    <2>1. e \in S /\ Rank(S, before, e) = k - 1
      BY <1>1, InOrderAt
    <2>2. t \in T /\ Rank(T, after, t) = k - 1
      BY <1>1, <1>2, InOrderAt
    <2> HIDE DEF e, t
    <2>3. f[e] \in T /\ Rank(T, after, f[e]) = k - 1
      BY <2>1, RankKept
    <2>4. t = f[e]
      BY <1>1, <2>2, <2>3, RankOnce
    <2> QED
      BY <2>4 DEF e, t
  <1> QED
    BY <1>1, <1>2, <1>3, FS_CardinalityType

------------------------------------------------------------------------------
(* What unpack does.                                                       *)

KeysOf(packets) == {GroupKey(packets[i]) : i \in DOMAIN packets}
KeyOrder(keys) == {p \in keys \X keys : GroupBefore(p[1], p[2])}
GroupOf(packets, key) == {i \in DOMAIN packets : GroupKey(packets[i]) = key}
FragmentOrder(packets, group) == {p \in group \X group : FragmentBefore(packets, p[1], p[2])}

\* Packets with numbers in those fields that unpack looks at.
Unpackable(packets, n) ==
    /\ n \in Nat /\ DOMAIN packets = 1 .. n
    /\ \A i \in 1 .. n : /\ {packets[i].ssrc, packets[i].timestamp,
                             packets[i].sequence_number} \subseteq Nat
                         /\ packets[i].payload \in Seq(Nat)

LEMMA KeysOrdered ==
    ASSUME NEW keys \in SUBSET (Nat \X Nat), IsFiniteSet(keys)
    PROVE  IsOrder(keys, KeyOrder(keys))
  <1> DEFINE before == KeyOrder(keys)
  <1>1. \A a, b \in keys : <<a, b>> \in before <=> GroupBefore(a, b)
    BY DEF KeyOrder
  <1>2. \A a \in keys : a[1] \in Nat /\ a[2] \in Nat /\ a = <<a[1], a[2]>>
    OBVIOUS
  <1> HIDE DEF before
  <1>3. \A e \in keys : <<e, e>> \notin before
    BY <1>1, <1>2 DEF GroupBefore
  <1>4. ASSUME NEW c \in keys, NEW d \in keys, NEW e \in keys,
               <<c, d>> \in before, <<d, e>> \in before
        PROVE  <<c, e>> \in before
    <2>1. GroupBefore(c, d) /\ GroupBefore(d, e)
      BY <1>1, <1>4
    <2>2. GroupBefore(c, e)
      BY <1>2, <2>1 DEF GroupBefore
    <2> QED
      BY <1>1, <2>2
  <1>5. ASSUME NEW d \in keys, NEW e \in keys, d # e
        PROVE  <<d, e>> \in before \/ <<e, d>> \in before
    <2>1. d[1] # e[1] \/ d[2] # e[2]
      BY <1>2, <1>5
    <2>2. GroupBefore(d, e) \/ GroupBefore(e, d)
      BY <1>2, <2>1 DEF GroupBefore
    <2> QED
      BY <1>1, <2>2
  <1>6. IsOrder(keys, before)
    BY <1>3, <1>4, <1>5 DEF IsOrder
  <1> QED
    BY <1>6 DEF before

LEMMA KeysType ==
    ASSUME NEW packets, NEW n, Unpackable(packets, n)
    PROVE  /\ KeysOf(packets) \in SUBSET (Nat \X Nat) /\ IsFiniteSet(KeysOf(packets))
           /\ IsOrder(KeysOf(packets), KeyOrder(KeysOf(packets)))
  <1> DEFINE K == KeysOf(packets)
             D == 1 .. n
             f == [i \in D |-> GroupKey(packets[i])]
  <1>1. n \in Nat /\ DOMAIN packets = D
    BY DEF Unpackable
  <1>2. \A i \in D : packets[i].ssrc \in Nat /\ packets[i].timestamp \in Nat
    BY DEF Unpackable
  <1>3. K \in SUBSET (Nat \X Nat)
    BY <1>1, <1>2 DEF KeysOf, GroupKey
  <1>4. IsFiniteSet(D)
    BY <1>1, FS_Interval
  <1>5. f \in Surjection(D, K)
    <2>1. f \in [D -> K] /\ \A k \in K : \E i \in D : f[i] = k
      BY <1>1 DEF KeysOf
    <2> HIDE DEF f, D, K
    <2> QED
      BY <2>1 DEF Surjection
  <1>6. IsFiniteSet(K)
    <2> HIDE DEF f, D, K
    <2> QED
      BY <1>4, <1>5, FS_Surjection
  <1> HIDE DEF K
  <1>7. IsOrder(K, KeyOrder(K))
    BY <1>3, <1>6, KeysOrdered
  <1> QED
    BY <1>3, <1>6, <1>7 DEF K

LEMMA GroupOrdered ==
    ASSUME NEW packets, NEW n, Unpackable(packets, n), NEW G \in SUBSET (1 .. n)
    PROVE  IsFiniteSet(G) /\ IsOrder(G, FragmentOrder(packets, G))
  <1> DEFINE before == FragmentOrder(packets, G)
             N(i) == packets[i].sequence_number
  <1>1. \A a, b \in G : <<a, b>> \in before <=> FragmentBefore(packets, a, b)
    BY DEF FragmentOrder
  <1>2. n \in Nat /\ \A a \in G : a \in Nat /\ N(a) \in Nat
    BY DEF Unpackable
  <1>3. \A a, b \in G : <<a, b>> \in before <=> (N(a) < N(b) \/ (N(a) = N(b) /\ a < b))
    BY <1>1 DEF FragmentBefore
  <1> HIDE DEF before, N
  <1>4. \A e \in G : <<e, e>> \notin before
    BY <1>2, <1>3
  <1>5. \A c, d, e \in G : <<c, d>> \in before /\ <<d, e>> \in before => <<c, e>> \in before
    BY <1>2, <1>3
  <1>6. \A d, e \in G : d # e => <<d, e>> \in before \/ <<e, d>> \in before
    BY <1>2, <1>3
  <1>7. IsFiniteSet(G)
    <2>1. IsFiniteSet(1 .. n)
      BY <1>2, FS_Interval
    <2> QED
      BY <2>1, FS_Subset
  <1>8. IsOrder(G, before)
    BY <1>4, <1>5, <1>6, <1>7 DEF IsOrder
  <1> QED
    BY <1>7, <1>8 DEF before

\* How many packets unpack gives, and which.
LEMMA Unpacked ==
    ASSUME NEW packets, NEW n, Unpackable(packets, n)
    PROVE  LET K == KeysOf(packets)
           IN  /\ Cardinality(K) \in Nat
               /\ Unpack(packets) = [k \in 1 .. Cardinality(K) |->
                                        Merged(packets, InOrder(K, KeyOrder(K))[k])]
               /\ DOMAIN Unpack(packets) = 1 .. Cardinality(K)
               /\ Len(Unpack(packets)) = Cardinality(K)
  <1> DEFINE K == KeysOf(packets)
             o == InOrder(K, KeyOrder(K))
             u == Unpack(packets)
             m == Cardinality(K)
  <1>1. IsOrder(K, KeyOrder(K))
    BY KeysType
  <1>2. DOMAIN o = 1 .. m /\ m \in Nat
    <2> HIDE DEF K
    <2> QED
      BY <1>1, InOrderDomain
  <1>3. u = [k \in DOMAIN o |-> Merged(packets, o[k])]
    BY DEF Unpack, KeysOf, KeyOrder
  <1> HIDE DEF o, m, u
  <1>4. u = [k \in 1 .. m |-> Merged(packets, o[k])]
    BY <1>2, <1>3
  <1>5. DOMAIN u = 1 .. m /\ Len(u) = m
    BY <1>2, <1>4
  <1> QED
    BY <1>2, <1>4, <1>5 DEF o, m, u

\* When the keys are in the order of a set T.
LEMMA UnpackedAt ==
    ASSUME NEW packets, NEW n, Unpackable(packets, n), NEW f, NEW T, NEW lt,
           Transfers(f, T, lt, KeysOf(packets), KeyOrder(KeysOf(packets)))
    PROVE  /\ Len(Unpack(packets)) = Cardinality(T) /\ Cardinality(T) \in Nat
           /\ DOMAIN Unpack(packets) = 1 .. Cardinality(T)
           /\ \A t \in T : /\ Rank(T, lt, t) + 1 \in 1 .. Cardinality(T)
                           /\ Unpack(packets)[Rank(T, lt, t) + 1] = Merged(packets, f[t])
  <1> DEFINE K == KeysOf(packets)
             o == InOrder(K, KeyOrder(K))
             m == Cardinality(T)
  <1>1. /\ Cardinality(K) \in Nat /\ DOMAIN Unpack(packets) = 1 .. Cardinality(K)
        /\ Unpack(packets) = [k \in 1 .. Cardinality(K) |-> Merged(packets, o[k])]
        /\ Len(Unpack(packets)) = Cardinality(K)
    BY Unpacked
  <1>2. Cardinality(K) = m /\ \A k \in 1 .. m : o[k] = f[InOrder(T, lt)[k]]
    BY OrderMapped
  <1>3. ASSUME NEW t \in T
        PROVE  /\ Rank(T, lt, t) + 1 \in 1 .. m
               /\ Unpack(packets)[Rank(T, lt, t) + 1] = Merged(packets, f[t])
    <2> DEFINE k == Rank(T, lt, t) + 1
    <2>1. k \in 1 .. m /\ InOrder(T, lt)[k] = t
      BY InOrderOf DEF Transfers
    <2> HIDE DEF k, o, m
    <2>2. o[k] = f[t]
      BY <1>2, <2>1
    <2>3. Unpack(packets)[k] = Merged(packets, o[k])
      BY <1>1, <1>2, <2>1
    <2> QED
      BY <2>1, <2>2, <2>3 DEF k
  <1> QED
    BY <1>1, <1>2, <1>3

PayloadsOf(packets, key) ==
    LET G == GroupOf(packets, key)
        o == InOrder(G, FragmentOrder(packets, G))
    IN  [k \in 1 .. Cardinality(G) |-> packets[o[k]].payload]

LEMMA GroupType ==
    ASSUME NEW packets, NEW n, Unpackable(packets, n), NEW key
    PROVE  GroupOf(packets, key) \in SUBSET (1 .. n)
  BY DEF GroupOf, Unpackable

LEMMA MergedData ==
    ASSUME NEW packets, NEW n, Unpackable(packets, n), NEW key
    PROVE  LET G == GroupOf(packets, key)
               t == PayloadsOf(packets, key)
           IN  /\ Merged(packets, key).data = FlattenSeq(t)
               /\ t \in Seq(Seq(Nat)) /\ Len(t) = Cardinality(G) /\ Cardinality(G) \in Nat
               /\ \A k \in 1 .. Cardinality(G) : \E i \in G : t[k] = packets[i].payload
  <1> DEFINE G == GroupOf(packets, key)
             o == InOrder(G, FragmentOrder(packets, G))
             m == Cardinality(G)
             t == PayloadsOf(packets, key)
  <1>1. G \in SUBSET (1 .. n) /\ IsOrder(G, FragmentOrder(packets, G))
    BY GroupType, GroupOrdered
  <1>2. DOMAIN o = 1 .. m /\ m \in Nat
    <2> HIDE DEF G
    <2> QED
      BY <1>1, InOrderDomain
  <1>3. \A k \in 1 .. m : o[k] \in G
    <2> HIDE DEF G
    <2> QED
      BY <1>1, InOrderAt
  <1>4. \A i \in G : packets[i].payload \in Seq(Nat)
    BY <1>1 DEF Unpackable
  <1>5. t = [k \in 1 .. m |-> packets[o[k]].payload]
    BY DEF PayloadsOf
  <1>6. Merged(packets, key).data = FlattenSeq([k \in DOMAIN o |-> packets[o[k]].payload])
    BY DEF Merged, GroupOf, FragmentOrder
  <1> HIDE DEF o, m, G, t
  <1>7. Merged(packets, key).data = FlattenSeq(t)
    BY <1>2, <1>5, <1>6
  <1>8. \A k \in 1 .. m : t[k] = packets[o[k]].payload
    BY <1>5
  <1>9. \A k \in 1 .. m : t[k] \in Seq(Nat)
    BY <1>3, <1>4, <1>8
  <1>10. t \in Seq(Seq(Nat)) /\ Len(t) = m
    BY <1>2, <1>5, <1>9
  <1>11. \A k \in 1 .. m : \E i \in G : t[k] = packets[i].payload
    BY <1>3, <1>8
  <1> QED
    BY <1>2, <1>7, <1>10, <1>11 DEF G, m, t

\* A frame that came in one packet.
OnlyOne(packets, key, i) == GroupOf(packets, key) = {i}

LEMMA MergedOne ==
    ASSUME NEW packets, NEW n, Unpackable(packets, n), NEW key, NEW i,
           OnlyOne(packets, key, i)
    PROVE  Merged(packets, key).data = packets[i].payload
  <1>1. /\ Merged(packets, key).data = FlattenSeq(PayloadsOf(packets, key))
        /\ PayloadsOf(packets, key) \in Seq(Seq(Nat))
        /\ Len(PayloadsOf(packets, key)) = Cardinality(GroupOf(packets, key))
        /\ \A k \in 1 .. Cardinality(GroupOf(packets, key)) :
              \E x \in GroupOf(packets, key) : PayloadsOf(packets, key)[k] = packets[x].payload
    BY MergedData
  <1>2. Cardinality(GroupOf(packets, key)) = 1
    BY FS_Singleton DEF OnlyOne
  <1>3. i \in 1 .. n
    BY GroupType DEF OnlyOne
  <1> DEFINE t == PayloadsOf(packets, key)
             p == packets[i].payload
  <1>4. p \in Seq(Nat)
    BY <1>3 DEF Unpackable
  <1>5. t[1] = p
    <2>1. 1 \in 1 .. Cardinality(GroupOf(packets, key))
      BY <1>2
    <2>2. PICK x \in GroupOf(packets, key) : PayloadsOf(packets, key)[1] = packets[x].payload
      BY <1>1, <2>1
    <2>3. x = i
      BY DEF OnlyOne
    <2> QED
      BY <2>2, <2>3
  <1> HIDE DEF t, p
  <1>6. t = <<p>>
    <2>1. t \in Seq(Seq(Nat)) /\ Len(t) = 1
      BY <1>1, <1>2 DEF t
    <2> QED
      BY <1>5, <2>1
  <1>7. FlattenSeq(t) = p
    BY <1>4, <1>6, FlatOne
  <1> QED
    BY <1>1, <1>7 DEF p, t

LEMMA Weighted ==
    ASSUME NEW x \in Nat, NEW y \in Nat, NEW z \in Nat PROVE x + y * z \in Nat
  OBVIOUS

LEMMA CopiesFlat ==
    ASSUME NEW p \in Seq(Nat), p # <<>>, NEW s \in Seq(Seq(Nat)), Len(s) >= 2,
           \A k \in 1 .. Len(s) : s[k] = p
    PROVE  \E rest \in Seq(Nat) : rest # <<>> /\ FlattenSeq(s) = p \o rest
  <1> DEFINE m == Len(s)
  <1>1. m \in Nat
    OBVIOUS
  <1>2. PICK f : Flattens(f, s, Nat) /\ FlattenSeq(s) = f[Len(s)]
    BY FlatSteps
  <1>3. f[0] = <<>> /\ \A n \in 1 .. m : f[n] = f[n - 1] \o p
    BY <1>2 DEF Flattens
  <1> DEFINE G == {n \in 0 .. m : n >= 2 => \E rest \in Seq(Nat) : rest # <<>> /\ f[n] = p \o rest}
  <1>4. m >= 2
    OBVIOUS
  <1>5. FlattenSeq(s) = f[m]
    BY <1>2
  <1> HIDE DEF m
  <1>0. \A n \in 0 .. m : n \in G <=>
           (n >= 2 => \E rest \in Seq(Nat) : rest # <<>> /\ f[n] = p \o rest)
    OBVIOUS
  <1>10. \A n \in 1 .. m : n \in 0 .. m /\ n - 1 \in 0 .. m /\ (n = 1 \/ n = 2 \/ n > 2)
                           /\ (n > 2 => n >= 2 /\ n - 1 >= 2) /\ ~(1 >= 2)
    BY <1>1
  <1>11. p # <<>> /\ p \in Seq(Nat)
    OBVIOUS
  <1> HIDE DEF G
  <1>6. 0 \in G
    <2>1. 0 \in 0 .. m /\ ~(0 >= 2)
      BY <1>1
    <2> QED
      BY <1>0, <2>1
  <1>7. ASSUME NEW n \in 1 .. m, n - 1 \in G PROVE n \in G
    <2>1. CASE n = 1
      BY <1>0, <1>10, <2>1
    <2>2. CASE n = 2
      <3>1. f[1] = <<>> \o p
        <4>1. f[1] = f[1 - 1] \o p
          BY <1>3, <1>4, <1>1
        <4>2. 1 - 1 = 0
          OBVIOUS
        <4> QED
          BY <1>3, <4>1, <4>2
      <3>2. f[2] = p \o p
        <4>1. f[2] = f[2 - 1] \o p
          <5>1. 2 \in 1 .. m
            BY <1>1, <1>4
          <5> QED
            BY <1>3, <1>4, <5>1
        <4>2. 2 - 1 = 1
          OBVIOUS
        <4>3. <<>> \o p = p
          BY ConcatEmptySeq
        <4> QED
          BY <3>1, <4>1, <4>2, <4>3
      <3> QED
        BY <1>0, <1>10, <1>11, <2>2, <3>2
    <2>3. CASE n > 2
      <3>1. n - 1 >= 2
        BY <1>10, <2>3
      <3>2. PICK rest \in Seq(Nat) : rest # <<>> /\ f[n - 1] = p \o rest
        BY <1>0, <1>7, <1>10, <3>1
      <3>3. f[n] = (p \o rest) \o p
        BY <1>3, <3>2
      <3>4. (p \o rest) \o p = p \o (rest \o p) /\ rest \o p \in Seq(Nat) /\ rest \o p # <<>>
        <4>1. (p \o rest) \o p = p \o (rest \o p)
          BY <3>2, ConcatGroups
        <4>2. rest \o p \in Seq(Nat) /\ rest \o p # <<>>
          BY <3>2, ConcatProperties, EmptySeq
        <4> QED
          BY <4>1, <4>2
      <3> QED
        BY <1>0, <1>10, <3>3, <3>4
    <2> QED
      BY <1>10, <2>1, <2>2, <2>3
  <1>8. m \in 0 .. m
    BY <1>1
  <1>9. m \in G
    BY <1>1, <1>6, <1>7, <1>8, UpTo
  <1> QED
    BY <1>0, <1>4, <1>5, <1>8, <1>9

\* The data are p and something more.
GoesOn(data, p) == \E rest \in Seq(Nat) : rest # <<>> /\ data = p \o rest

\* A frame that came more than once.
LEMMA MergedCopies ==
    ASSUME NEW packets, NEW n, Unpackable(packets, n), NEW key, NEW p \in Seq(Nat), p # <<>>,
           \A i \in GroupOf(packets, key) : packets[i].payload = p,
           GroupOf(packets, key) # {}, Cardinality(GroupOf(packets, key)) # 1
    PROVE  GoesOn(Merged(packets, key).data, p)
  <1> DEFINE G == GroupOf(packets, key)
             t == PayloadsOf(packets, key)
             m == Cardinality(G)
  <1>1. /\ Merged(packets, key).data = FlattenSeq(t)
        /\ t \in Seq(Seq(Nat)) /\ Len(t) = m /\ m \in Nat
        /\ \A k \in 1 .. m : \E x \in G : t[k] = packets[x].payload
    BY MergedData
  <1>2. m # 0
    <2>1. IsFiniteSet(G) /\ G # {}
      BY GroupType, GroupOrdered
    <2> HIDE DEF G
    <2> QED
      BY <2>1, FS_EmptySet
  <1>3. \A k \in 1 .. m : t[k] = p
    BY <1>1
  <1>4. m # 1
    OBVIOUS
  <1> HIDE DEF t, m, G
  <1>5. Len(t) >= 2 /\ \A k \in 1 .. Len(t) : t[k] = p
    BY <1>1, <1>2, <1>3, <1>4
  <1>6. \E rest \in Seq(Nat) : rest # <<>> /\ FlattenSeq(t) = p \o rest
    BY <1>1, <1>5, CopiesFlat
  <1> QED
    BY <1>1, <1>6 DEF GoesOn

------------------------------------------------------------------------------
(* What unpack gives depends on which packets there are, and not on their  *)
(* order.                                                                  *)

ByNumber(F) == {p \in F \X F : p[1].sequence_number < p[2].sequence_number}

MergedOf(F) ==
    LET o == InOrder(F, ByNumber(F))
    IN  [data |-> FlattenSeq([k \in 1 .. Cardinality(F) |-> o[k].payload]),
         marker |-> \E f \in F : f.marker, samples |-> Cardinality(F)]

UnpackOf(R) ==
    LET K == {GroupKey(f) : f \in R}
        o == InOrder(K, KeyOrder(K))
    IN  [k \in DOMAIN o |-> MergedOf({f \in R : GroupKey(f) = o[k]})]

\* The first numbers of a call.
Firsts == {0, SeqSpace - 4}

Fragment(first, s, t, n) ==
    [ssrc |-> s, timestamp |-> t, sequence_number |-> FragmentNumber(first, t, n),
     marker |-> n = 2, payload |-> <<s, t, n>>]

\* Each fragment comes once.
EachOnce(first, packets, n) ==
    /\ first \in Firsts /\ n \in Nat /\ packets \in [1 .. n -> Fragments(first)]
    /\ \A i, j \in 1 .. n : packets[i] = packets[j] => i = j

\* A number as it is counted, and in its 16 bits: it wraps around once at the most.
Counted(first, t, n) == first + 3 * t + n

LEMMA NumberOfFragment ==
    ASSUME NEW first \in Firsts, NEW t \in 0 .. 1, NEW n \in 0 .. 2
    PROVE  /\ first \in Nat /\ Counted(first, t, n) \in Nat /\ SeqSpace \in Nat
           /\ FragmentNumber(first, t, n) =
                 IF Counted(first, t, n) < SeqSpace THEN Counted(first, t, n)
                                                    ELSE Counted(first, t, n) - SeqSpace
           /\ FragmentNumber(first, t, n) \in Nat
  <1> DEFINE v == first + 3 * t + n
  <1>1. SeqSpace \in Nat \ {0} /\ SeqSpace > 5
    BY RtpAssumption, ParameterAssumption
  <1>2. first \in Nat /\ v \in Nat /\ v < 2 * SeqSpace
    BY <1>1 DEF Firsts
  <1>3. FragmentNumber(first, t, n) = v % SeqSpace
    BY DEF FragmentNumber
  <1> HIDE DEF v
  <1>4. CASE v < SeqSpace
    <2>1. v \in 0 .. SeqSpace - 1 /\ 0 \in Nat
      BY <1>1, <1>2, <1>4
    <2>2. (SeqSpace * 0 + v) % SeqSpace = v
      BY <1>1, <2>1, RemainderIs
    <2>3. SeqSpace * 0 + v = v
      BY <1>1, <1>2
    <2>4. v % SeqSpace = v
      BY <2>2, <2>3
    <2> QED
      BY <1>1, <1>2, <1>3, <1>4, <2>4 DEF v, Counted
  <1>5. CASE ~(v < SeqSpace)
    <2> DEFINE e == v - SeqSpace
    <2>1. e \in 0 .. SeqSpace - 1 /\ 1 \in Nat
      BY <1>1, <1>2, <1>5
    <2>2. SeqSpace * 1 + e = v
      BY <1>1, <1>2
    <2> HIDE DEF e
    <2>3. (SeqSpace * 1 + e) % SeqSpace = e
      BY <1>1, <2>1, RemainderIs
    <2>4. v % SeqSpace = e /\ e \in Nat
      BY <2>1, <2>2, <2>3
    <2> QED
      BY <1>1, <1>2, <1>3, <1>5, <2>4 DEF e, v, Counted
  <1> QED
    BY <1>4, <1>5

LEMMA NumbersDiffer ==
    ASSUME NEW first \in Firsts, NEW t \in 0 .. 1, NEW m \in 0 .. 2, NEW n \in 0 .. 2,
           FragmentNumber(first, t, m) = FragmentNumber(first, t, n)
    PROVE  m = n
  <1> DEFINE v == Counted(first, t, m)
             w == Counted(first, t, n)
  <1>1. SeqSpace \in Nat /\ SeqSpace > 5
    BY RtpAssumption, ParameterAssumption
  <1>2. first \in Nat /\ FragmentNumber(first, t, m) = (IF v < SeqSpace THEN v ELSE v - SeqSpace)
    BY NumberOfFragment
  <1>3. FragmentNumber(first, t, n) = (IF w < SeqSpace THEN w ELSE w - SeqSpace)
    BY NumberOfFragment
  <1>4. v \in Nat /\ w \in Nat /\ v - w = m - n
    BY <1>2 DEF Counted
  <1>6. FragmentNumber(first, t, m) = FragmentNumber(first, t, n)
    OBVIOUS
  <1> HIDE DEF v, w
  <1>5. v = w \/ v = w + SeqSpace \/ w = v + SeqSpace
    <2> DEFINE a == FragmentNumber(first, t, m)
               b == FragmentNumber(first, t, n)
    <2>1. a = (IF v < SeqSpace THEN v ELSE v - SeqSpace) /\ a = b
      BY <1>2, <1>6
    <2>2. b = (IF w < SeqSpace THEN w ELSE w - SeqSpace)
      BY <1>3
    <2> HIDE DEF a, b
    <2>3. a = v \/ a = v - SeqSpace
      BY <2>1
    <2>4. a = w \/ a = w - SeqSpace
      BY <2>1, <2>2
    <2> QED
      BY <1>1, <1>4, <2>3, <2>4
  <1> QED
    BY <1>1, <1>4, <1>5

LEMMA FragmentIs ==
    ASSUME NEW first, NEW f \in Fragments(first)
    PROVE  \E s \in 1 .. 2, t \in 0 .. 1, n \in 0 .. 2 : f = Fragment(first, s, t, n)
  BY DEF Fragments, Fragment

LEMMA FragmentIn ==
    ASSUME NEW first, NEW s \in 1 .. 2, NEW t \in 0 .. 1, NEW n \in 0 .. 2
    PROVE  Fragment(first, s, t, n) \in Fragments(first)
  BY DEF Fragments, Fragment

LEMMA FragmentFields ==
    ASSUME NEW first, NEW s \in 1 .. 2, NEW t \in 0 .. 1, NEW n \in 0 .. 2
    PROVE  LET f == Fragment(first, s, t, n)
           IN  /\ f.ssrc = s /\ f.timestamp = t /\ f.payload = <<s, t, n>>
               /\ f.sequence_number = FragmentNumber(first, t, n)
               /\ f.payload \in Seq(Nat) /\ GroupKey(f) = <<s, t>>
  <1>1. <<s, t, n>> \in Seq(Nat)
    <2>1. s \in Nat /\ t \in Nat /\ n \in Nat
      OBVIOUS
    <2> QED
      BY <2>1
  <1> QED
    BY <1>1 DEF Fragment, GroupKey

LEMMA FragmentType ==
    ASSUME NEW first \in Firsts
    PROVE  /\ \A f \in Fragments(first) : /\ {f.ssrc, f.timestamp, f.sequence_number} \subseteq Nat
                                          /\ f.payload \in Seq(Nat)
           /\ \A f, g \in Fragments(first) :
                 GroupKey(f) = GroupKey(g) /\ f.sequence_number = g.sequence_number => f = g
  <1>1. ASSUME NEW f \in Fragments(first)
        PROVE  /\ {f.ssrc, f.timestamp, f.sequence_number} \subseteq Nat
               /\ f.payload \in Seq(Nat)
    <2>1. PICK s \in 1 .. 2, t \in 0 .. 1, n \in 0 .. 2 : f = Fragment(first, s, t, n)
      BY FragmentIs
    <2>2. FragmentNumber(first, t, n) \in Nat
      BY NumberOfFragment
    <2>3. /\ f.ssrc = s /\ f.timestamp = t /\ f.payload \in Seq(Nat)
          /\ f.sequence_number = FragmentNumber(first, t, n)
      BY <2>1, FragmentFields
    <2> QED
      BY <2>2, <2>3
  <1>2. ASSUME NEW f \in Fragments(first), NEW g \in Fragments(first), GroupKey(f) = GroupKey(g),
               f.sequence_number = g.sequence_number
        PROVE  f = g
    <2>1. PICK s \in 1 .. 2, t \in 0 .. 1, n \in 0 .. 2 : f = Fragment(first, s, t, n)
      BY FragmentIs
    <2>2. PICK u \in 1 .. 2, v \in 0 .. 1, m \in 0 .. 2 : g = Fragment(first, u, v, m)
      BY FragmentIs
    <2>3. GroupKey(f) = <<s, t>> /\ f.sequence_number = FragmentNumber(first, t, n)
      BY <2>1, FragmentFields
    <2>4. GroupKey(g) = <<u, v>> /\ g.sequence_number = FragmentNumber(first, v, m)
      BY <2>2, FragmentFields
    <2>5. s = u /\ t = v
      <3>1. <<s, t>> = <<u, v>>
        BY <1>2, <2>3, <2>4
      <3> QED
        BY <3>1
    <2>6. n = m
      BY <1>2, <2>3, <2>4, <2>5, NumbersDiffer
    <2> QED
      BY <2>1, <2>2, <2>5, <2>6
  <1> QED
    BY <1>1, <1>2

LEMMA OnceUnpackable ==
    ASSUME NEW first, NEW packets, NEW n, EachOnce(first, packets, n) PROVE Unpackable(packets, n)
  <1>1. first \in Firsts /\ n \in Nat /\ packets \in [1 .. n -> Fragments(first)]
    BY DEF EachOnce
  <1>2. ASSUME NEW i \in 1 .. n
        PROVE  /\ {packets[i].ssrc, packets[i].timestamp, packets[i].sequence_number} \subseteq Nat
               /\ packets[i].payload \in Seq(Nat)
    <2>1. packets[i] \in Fragments(first)
      BY <1>1
    <2> QED
      BY <1>1, <2>1, FragmentType
  <1> QED
    BY <1>1, <1>2 DEF Unpackable

LEMMA NumbersOrder ==
    ASSUME NEW first \in Firsts, NEW F \in SUBSET Fragments(first), IsFiniteSet(F),
           NEW key, \A f \in F : GroupKey(f) = key
    PROVE  IsOrder(F, ByNumber(F))
  <1> DEFINE before == ByNumber(F)
  <1>1. \A f, g \in F : <<f, g>> \in before <=> f.sequence_number < g.sequence_number
    BY DEF ByNumber
  <1>2. \A f \in F : f.sequence_number \in Nat
    BY FragmentType
  <1>3. \A f, g \in F : f.sequence_number = g.sequence_number => f = g
    BY FragmentType
  <1> HIDE DEF before
  <1>4. \A e \in F : <<e, e>> \notin before
    BY <1>1, <1>2
  <1>5. \A c, d, e \in F : <<c, d>> \in before /\ <<d, e>> \in before => <<c, e>> \in before
    BY <1>1, <1>2
  <1>6. \A d, e \in F : d # e => <<d, e>> \in before \/ <<e, d>> \in before
    BY <1>1, <1>2, <1>3
  <1>7. IsOrder(F, before)
    BY <1>4, <1>5, <1>6 DEF IsOrder
  <1> QED
    BY <1>7 DEF before

LEMMA MergedIs ==
    ASSUME NEW first, NEW packets, NEW n, EachOnce(first, packets, n), NEW key
    PROVE  Merged(packets, key) = MergedOf({f \in Range(packets) : GroupKey(f) = key})
  <1> DEFINE G == GroupOf(packets, key)
             F == {f \in Range(packets) : GroupKey(f) = key}
             before == FragmentOrder(packets, G)
             o == InOrder(G, before)
             q == InOrder(F, ByNumber(F))
             m == Cardinality(G)
             g == [i \in G |-> packets[i]]
  <1>1. DOMAIN packets = 1 .. n /\ n \in Nat /\ Unpackable(packets, n)
    BY OnceUnpackable DEF EachOnce
  <1>2. G \in SUBSET (1 .. n) /\ IsOrder(G, before) /\ IsFiniteSet(G)
    BY <1>1, GroupType, GroupOrdered
  <1>3. first \in Firsts /\ F \in SUBSET Fragments(first) /\ \A f \in F : GroupKey(f) = key
    BY DEF Range, EachOnce
  <1>4. g \in [G -> F] /\ \A f \in F : \E i \in G : g[i] = f
    BY DEF GroupOf, Range
  <1>5. \A i, j \in G : g[i] = g[j] => i = j
    BY <1>2 DEF EachOnce
  <1>6. \A i \in G : g[i] = packets[i] /\ g[i] \in F /\ i \in Nat
    BY <1>2, <1>4
  <1>7. g \in Bijection(G, F)
    <2> HIDE DEF g, G, F
    <2> QED
      BY <1>4, <1>5 DEF Bijection, Injection, Surjection, IsInjective
  <1>8. IsFiniteSet(F)
    <2> HIDE DEF g, G, F
    <2> QED
      BY <1>2, <1>7, FS_Bijection DEF ExistsBijection
  <1>9. IsOrder(F, ByNumber(F))
    BY <1>3, <1>8, NumbersOrder
  <1>10. \A i, j \in G : <<i, j>> \in before <=> FragmentBefore(packets, i, j)
    BY DEF FragmentOrder
  <1>11. \A f, h \in F : <<f, h>> \in ByNumber(F) <=> f.sequence_number < h.sequence_number
    BY DEF ByNumber
  <1>12. F \subseteq Fragments(first) /\ \A f, h \in F : f.sequence_number = h.sequence_number => f = h
    BY <1>3, FragmentType
  <1>13. \A f \in F : f.sequence_number \in Nat
    BY <1>3, FragmentType
  <1>17. Merged(packets, key) =
           [data |-> FlattenSeq([k \in DOMAIN o |-> packets[o[k]].payload]),
            marker |-> \E i \in G : packets[i].marker, samples |-> m]
    BY DEF Merged, GroupOf, FragmentOrder
  <1> HIDE DEF G, F, before, g
  <1>14. ASSUME NEW i \in G, NEW j \in G
         PROVE  <<i, j>> \in before <=> <<g[i], g[j]>> \in ByNumber(F)
    <2> DEFINE a == packets[i].sequence_number
               b == packets[j].sequence_number
    <2>1. FragmentBefore(packets, i, j) <=> (a < b \/ (a = b /\ i < j))
      BY DEF FragmentBefore
    <2>2. g[i].sequence_number = a /\ g[j].sequence_number = b
      BY <1>6
    <2>3. <<g[i], g[j]>> \in ByNumber(F) <=> a < b
      BY <1>6, <1>11, <2>2
    <2>4. a = b => i = j
      BY <1>5, <1>6, <1>12, <2>2
    <2> HIDE DEF a, b
    <2>5. i \in Nat /\ j \in Nat
      BY <1>6
    <2>6. (a < b \/ (a = b /\ i < j)) <=> a < b
      BY <2>4, <2>5
    <2>7. <<i, j>> \in before <=> FragmentBefore(packets, i, j)
      BY <1>10
    <2>8. FragmentBefore(packets, i, j) <=> a < b
      BY <2>1, <2>6
    <2> HIDE DEF FragmentBefore
    <2> QED
      BY <2>3, <2>7, <2>8, Zenon
  <1>15. Transfers(g, G, before, F, ByNumber(F))
    BY <1>2, <1>7, <1>9, <1>14 DEF Transfers
  <1>16. /\ Cardinality(F) = m /\ m \in Nat
         /\ \A k \in 1 .. m : q[k] = g[o[k]]
    BY <1>15, OrderMapped
  <1>18. DOMAIN o = 1 .. m /\ \A k \in 1 .. m : o[k] \in G
    BY <1>2, InOrderDomain, InOrderAt
  <1> HIDE DEF o, q, m
  <1>19. [k \in DOMAIN o |-> packets[o[k]].payload] = [k \in 1 .. Cardinality(F) |-> q[k].payload]
    BY <1>6, <1>16, <1>18
  <1>20. (\E i \in G : packets[i].marker) <=> \E f \in F : f.marker
    BY <1>4, <1>6
  <1>21. MergedOf(F) = [data |-> FlattenSeq([k \in 1 .. Cardinality(F) |-> q[k].payload]),
                        marker |-> \E f \in F : f.marker, samples |-> Cardinality(F)]
    BY DEF MergedOf, q
  <1>22. Merged(packets, key) = MergedOf(F)
    BY <1>16, <1>17, <1>19, <1>20, <1>21
  <1> QED
    BY <1>22 DEF F

LEMMA UnpackIs ==
    ASSUME NEW first, NEW packets, NEW n, EachOnce(first, packets, n)
    PROVE  Unpack(packets) = UnpackOf(Range(packets))
  <1> DEFINE R == Range(packets)
             K == {GroupKey(f) : f \in R}
             o == InOrder(K, KeyOrder(K))
  <1>1. K = {GroupKey(packets[i]) : i \in DOMAIN packets}
    BY DEF Range
  <1>2. Unpack(packets) = [k \in DOMAIN o |-> Merged(packets, o[k])]
    <2>1. Unpack(packets) =
            LET keys == {GroupKey(packets[i]) : i \in DOMAIN packets}
                inOrder == InOrder(keys, KeyOrder(keys))
            IN  [k \in DOMAIN inOrder |-> Merged(packets, inOrder[k])]
      BY DEF Unpack, KeyOrder
    <2> HIDE DEF K
    <2> QED
      BY <1>1, <2>1
  <1>3. UnpackOf(R) = [k \in DOMAIN o |-> MergedOf({f \in R : GroupKey(f) = o[k]})]
    BY DEF UnpackOf
  <1> HIDE DEF o, K
  <1>4. \A k \in DOMAIN o : Merged(packets, o[k]) = MergedOf({f \in R : GroupKey(f) = o[k]})
    BY MergedIs
  <1> QED
    BY <1>2, <1>3, <1>4

\* The packets of a call that unpacks.
LEMMA CallOnce ==
    ASSUME NEW c \in UnpackCalls, IsInjective(c.packets)
    PROVE  \E n \in Nat : EachOnce(c.first, c.packets, n)
  <1>1. PICK first \in Firsts :
          c \in [fn : {"unpack"}, first : {first},
                 packets : UNION {[1 .. n -> Fragments(first)] : n \in 0 .. MaxFrames}]
    BY DEF UnpackCalls, Firsts
  <1>2. c.first = first /\ \E n \in 0 .. MaxFrames : c.packets \in [1 .. n -> Fragments(first)]
    BY <1>1
  <1>3. PICK n \in 0 .. MaxFrames : c.packets \in [1 .. n -> Fragments(first)]
    BY <1>2
  <1>4. n \in Nat
    BY ParameterAssumption
  <1>5. \A i, j \in 1 .. n : c.packets[i] = c.packets[j] => i = j
    BY <1>3 DEF IsInjective
  <1> QED
    BY <1>2, <1>3, <1>4, <1>5 DEF EachOnce

LEMMA AnyArrivalOrder ==
    ASSUME NEW c \in UnpackCalls, IsInjective(c.packets), NEW other \in SetToSeqs(Range(c.packets))
    PROVE  Unpack(c.packets) = Unpack(other)
  <1> DEFINE p == c.packets
             R == Range(p)
             m == Cardinality(R)
             first == c.first
  <1>3. PICK n \in Nat : EachOnce(first, p, n)
    BY CallOnce
  <1>1. first \in Firsts /\ p \in [1 .. n -> Fragments(first)]
    BY <1>3 DEF EachOnce
  <1>2. n \in Nat
    OBVIOUS
  <1>4. other \in [1 .. m -> R] /\ \A i, j \in 1 .. m : other[i] = other[j] => i = j
    BY DEF SetToSeqs
  <1>5. R \subseteq Fragments(first)
    BY <1>1 DEF Range
  <1> HIDE DEF p, first
  <1>6. p \in Surjection(1 .. n, R)
    BY <1>1 DEF Range, Surjection
  <1>7. IsFiniteSet(1 .. n)
    BY <1>2, FS_Interval
  <1>8. IsFiniteSet(R)
    <2> HIDE DEF R
    <2> QED
      BY <1>6, <1>7, FS_Surjection
  <1>9. m \in Nat
    <2> HIDE DEF R
    <2> QED
      BY <1>8, FS_CardinalityType
  <1>10. EachOnce(first, other, m)
    <2>1. other \in [1 .. m -> Fragments(first)]
      BY <1>4, <1>5
    <2> HIDE DEF m, R
    <2> QED
      BY <1>1, <1>4, <1>9, <2>1 DEF EachOnce
  <1>11. Range(other) = R
    <2>1. IsFiniteSet(1 .. m) /\ Cardinality(1 .. m) = m
      <3>1. IsFiniteSet(1 .. m) /\ Cardinality(1 .. m) = IF 1 > m THEN 0 ELSE m - 1 + 1
        <4> HIDE DEF m
        <4> QED
          BY <1>9, FS_Interval
      <3> HIDE DEF m
      <3> QED
        BY <1>9, <3>1
    <2>2. other \in Injection(1 .. m, R)
      <3> HIDE DEF m, R
      <3> QED
        BY <1>4 DEF Injection, IsInjective
    <2>3. other \in Surjection(1 .. m, R)
      <3>1. Cardinality(1 .. m) = Cardinality(R)
        BY <2>1
      <3> HIDE DEF m, R
      <3> QED
        BY <1>8, <2>2, <3>1, FS_Injection
    <2>4. DOMAIN other = 1 .. m /\ \A i \in 1 .. m : other[i] \in R
      BY <1>4
    <2>5. \A r \in R : \E i \in 1 .. m : other[i] = r
      BY <2>3 DEF Surjection
    <2> HIDE DEF m, R
    <2> QED
      BY <2>4, <2>5 DEF Range
  <1>12. Unpack(p) = UnpackOf(R) /\ Unpack(other) = UnpackOf(R)
    <2>1. Unpack(p) = UnpackOf(Range(p))
      BY <1>3, UnpackIs
    <2>2. Unpack(other) = UnpackOf(Range(other))
      <3> HIDE DEF m
      <3> QED
        BY <1>10, UnpackIs
    <2> QED
      BY <1>11, <2>1, <2>2
  <1> QED
    BY <1>12 DEF p

------------------------------------------------------------------------------
(* The fragments of a frame, in the order of their numbers.                *)

PartsOf(F) == FlattenSeq([k \in 1 .. Cardinality(F) |-> InOrder(F, ByNumber(F))[k].payload])

LEMMA NoParts == PartsOf({}) = <<>>
  <1>1. Cardinality({}) = 0
    BY FS_EmptySet
  <1>2. 1 .. 0 = {}
    OBVIOUS
  <1>3. [k \in 1 .. Cardinality({}) |-> InOrder({}, ByNumber({}))[k].payload] = <<>>
    BY <1>1, <1>2
  <1> QED
    BY <1>3, FlatEmpty DEF PartsOf

\* Fragments of one frame.
OfFrame(first, F, key) ==
    /\ first \in Firsts /\ F \in SUBSET Fragments(first) /\ IsFiniteSet(F)
    /\ \A e \in F : GroupKey(e) = key

LEMMA PartsType ==
    ASSUME NEW first, NEW F, NEW key, OfFrame(first, F, key)
    PROVE  /\ IsOrder(F, ByNumber(F)) /\ Cardinality(F) \in Nat
           /\ [k \in 1 .. Cardinality(F) |-> InOrder(F, ByNumber(F))[k].payload] \in Seq(Seq(Nat))
           /\ PartsOf(F) \in Seq(Nat)
  <1> DEFINE o == InOrder(F, ByNumber(F))
             m == Cardinality(F)
             s == [k \in 1 .. m |-> o[k].payload]
  <1>1. IsOrder(F, ByNumber(F))
    BY NumbersOrder DEF OfFrame
  <1>2. m \in Nat
    BY FS_CardinalityType DEF OfFrame
  <1>3. ASSUME NEW k \in 1 .. m PROVE o[k].payload \in Seq(Nat)
    <2>1. o[k] \in F
      BY <1>1, InOrderAt
    <2> HIDE DEF o
    <2> QED
      BY <2>1, FragmentType DEF OfFrame
  <1> HIDE DEF m, o
  <1>4. s \in Seq(Seq(Nat))
    BY <1>2, <1>3
  <1> HIDE DEF s
  <1>5. FlattenSeq(s) \in Seq(Nat)
    BY <1>4, FlatType
  <1> QED
    BY <1>1, <1>2, <1>4, <1>5 DEF PartsOf, s, m, o

LEMMA LastPart ==
    ASSUME NEW first, NEW F, NEW key, OfFrame(first, F, key),
           NEW f \in Fragments(first), GroupKey(f) = key,
           \A e \in F : e.sequence_number < f.sequence_number
    PROVE  /\ OfFrame(first, F \cup {f}, key)
           /\ PartsOf(F \cup {f}) = PartsOf(F) \o f.payload
  <1> DEFINE G == F \cup {f}
             o == InOrder(F, ByNumber(F))
             q == InOrder(G, ByNumber(G))
             m == Cardinality(F)
  <1>1. /\ first \in Firsts /\ F \in SUBSET Fragments(first) /\ IsFiniteSet(F)
        /\ \A e \in F : GroupKey(e) = key
    BY DEF OfFrame
  <1>2. \A e \in Fragments(first) : e.sequence_number \in Nat /\ e.payload \in Seq(Nat)
    BY <1>1, FragmentType
  <1>3. f \notin F
    BY <1>2
  <1>4. IsFiniteSet(G) /\ Cardinality(G) = m + 1
    BY <1>1, <1>3, FS_AddElement
  <1>5. OfFrame(first, G, key)
    BY <1>1, <1>4 DEF OfFrame
  <1>6. IsOrder(F, ByNumber(F)) /\ m \in Nat /\ PartsOf(F) \in Seq(Nat)
        /\ [k \in 1 .. m |-> o[k].payload] \in Seq(Seq(Nat))
    BY PartsType
  <1>7. IsOrder(G, ByNumber(G))
    <2> HIDE DEF G
    <2> QED
      BY <1>5, PartsType
  <1>8. \A d, e \in F : <<d, e>> \in ByNumber(G) <=> <<d, e>> \in ByNumber(F)
    BY DEF ByNumber
  <1>9. \A e \in F : <<e, f>> \in ByNumber(G) /\ <<f, e>> \notin ByNumber(G)
    BY <1>1, <1>2 DEF ByNumber
  <1>10. <<f, f>> \notin ByNumber(G)
    BY <1>2 DEF ByNumber
  <1> DEFINE a == ByNumber(F)
             b == ByNumber(G)
  <1>11. f \in G /\ \A e \in G : e \in F \/ e = f
    OBVIOUS
  <1>12. F \subseteq G
    OBVIOUS
  <1> HIDE DEF a, b, G
  <1>13. Rank(G, b, f) = m
    <2>1. Below(G, b, f) = F
      BY <1>9, <1>10, <1>11, <1>12 DEF Below, b
    <2> QED
      BY <2>1 DEF Rank
  <1>14. ASSUME NEW e \in F PROVE Rank(G, b, e) = Rank(F, a, e)
    <2>1. Below(G, b, e) = Below(F, a, e)
      BY <1>8, <1>9, <1>11, <1>12 DEF Below, a, b
    <2> QED
      BY <2>1 DEF Rank
  <1>15. q[m + 1] = f
    <2>1. InOrder(G, b)[Rank(G, b, f) + 1] = f
      BY <1>7, <1>11, InOrderOf DEF b
    <2> QED
      BY <1>13, <2>1 DEF b
  <1>16. ASSUME NEW k \in 1 .. m PROVE q[k] = o[k]
    <2> DEFINE e == InOrder(F, a)[k]
    <2>1. e \in F /\ Rank(F, a, e) = k - 1
      BY <1>6, InOrderAt DEF a
    <2> HIDE DEF e
    <2>2. Rank(G, b, e) = k - 1 /\ e \in G
      BY <1>12, <1>14, <2>1
    <2>3. InOrder(G, b)[Rank(G, b, e) + 1] = e
      BY <1>7, <2>2, InOrderOf DEF b
    <2>4. k - 1 + 1 = k
      BY <1>6
    <2> QED
      BY <2>2, <2>3, <2>4 DEF e, a, b
  <1> DEFINE s == [k \in 1 .. m |-> o[k].payload]
             u == [k \in 1 .. m + 1 |-> q[k].payload]
  <1>17. u = Append(s, f.payload)
    <2> HIDE DEF o, q, m
    <2>1. Len(s) = m /\ m \in Nat
      BY <1>6
    <2>2. \A k \in 1 .. m + 1 : u[k] = IF k = m + 1 THEN f.payload ELSE s[k]
      BY <1>6, <1>15, <1>16
    <2>3. u = [k \in 1 .. m + 1 |-> IF k = m + 1 THEN f.payload ELSE s[k]]
      BY <2>2
    <2>4. Append(s, f.payload) =
            [k \in 1 .. Len(s) + 1 |-> IF k = Len(s) + 1 THEN f.payload ELSE s[k]]
      <3>1. s \in Seq(Seq(Nat)) /\ f.payload \in Seq(Nat)
        BY <1>2, <1>6 DEF m, o
      <3> HIDE DEF s
      <3> QED
        BY <3>1
    <2> HIDE DEF s, u
    <2> QED
      BY <2>1, <2>3, <2>4
  <1>18. FlattenSeq(Append(s, f.payload)) = FlattenSeq(s) \o f.payload
    <2>1. s \in Seq(Seq(Nat)) /\ f.payload \in Seq(Nat)
      BY <1>2, <1>6
    <2> HIDE DEF s
    <2> QED
      BY <2>1, FlatAppend
  <1>19. PartsOf(F) = FlattenSeq(s)
    BY DEF PartsOf
  <1>20. PartsOf(G) = FlattenSeq(u)
    BY <1>4 DEF PartsOf
  <1> HIDE DEF s, u
  <1>21. PartsOf(G) = PartsOf(F) \o f.payload
    BY <1>17, <1>18, <1>19, <1>20
  <1> QED
    BY <1>5, <1>21 DEF G

\* A frame's part, when it is there.
PartIn(F, f) == IF f \in F THEN f.payload ELSE <<>>

\* E are fragments of the frame F, and f is another of the frame, above them.
MayFollow(first, F, key, E, f) ==
    /\ OfFrame(first, F, key) /\ E \in SUBSET F
    /\ f \in Fragments(first) /\ GroupKey(f) = key
    /\ \A e \in E : e.sequence_number < f.sequence_number

LEMMA NextPart ==
    ASSUME NEW first, NEW F, NEW key, NEW E, NEW f, MayFollow(first, F, key, E, f)
    PROVE  PartsOf(E \cup (F \cap {f})) = PartsOf(E) \o PartIn(F, f)
  <1>0. /\ E \in SUBSET F /\ f \in Fragments(first) /\ GroupKey(f) = key
        /\ \A e \in E : e.sequence_number < f.sequence_number
    BY DEF MayFollow
  <1>1. OfFrame(first, E, key)
    BY FS_Subset DEF OfFrame, MayFollow
  <1>2. CASE f \in F
    <2>1. E \cup (F \cap {f}) = E \cup {f}
      BY <1>2
    <2>2. PartsOf(E \cup {f}) = PartsOf(E) \o f.payload
      BY <1>0, <1>1, LastPart
    <2> QED
      BY <1>2, <2>1, <2>2 DEF PartIn
  <1>3. CASE f \notin F
    <2>1. E \cup (F \cap {f}) = E
      BY <1>3
    <2>2. PartsOf(E) \in Seq(Nat)
      BY <1>1, PartsType
    <2>3. PartsOf(E) = PartsOf(E) \o <<>>
      BY <2>2
    <2> QED
      BY <1>1, <1>3, <2>1, <2>3 DEF PartIn
  <1> QED
    BY <1>2, <1>3

LEMMA PartsTogether ==
    ASSUME NEW first, NEW F, NEW s \in 1 .. 2, NEW t \in 0 .. 1, OfFrame(first, F, <<s, t>>),
           FragmentNumber(first, t, 0) + 2 < SeqSpace
    PROVE  PartsOf(F) = PartIn(F, Fragment(first, s, t, 0)) \o PartIn(F, Fragment(first, s, t, 1))
                          \o PartIn(F, Fragment(first, s, t, 2))
  <1> DEFINE N(n) == FragmentNumber(first, t, n)
             f(n) == Fragment(first, s, t, n)
             key == <<s, t>>
             A == {} \cup (F \cap {f(0)})
             B == A \cup (F \cap {f(1)})
             C == B \cup (F \cap {f(2)})
  <1>0. first \in Firsts /\ F \in SUBSET Fragments(first) /\ \A e \in F : GroupKey(e) = key
    BY DEF OfFrame
  <1>1. N(0) < N(1) /\ N(1) < N(2) /\ N(0) < N(2)
    <2> DEFINE v(n) == Counted(first, t, n)
    <2>1. \A n \in 0 .. 2 : /\ first \in Nat /\ v(n) \in Nat /\ SeqSpace \in Nat
                            /\ N(n) = IF v(n) < SeqSpace THEN v(n) ELSE v(n) - SeqSpace
      BY <1>0, NumberOfFragment
    <2>2. 0 \in 0 .. 2 /\ 1 \in 0 .. 2 /\ 2 \in 0 .. 2
      OBVIOUS
    <2>3. N(0) + 2 < SeqSpace
      OBVIOUS
    <2>4. first \in Nat
      BY <2>1, <2>2
    <2>5. v(1) = v(0) + 1 /\ v(2) = v(0) + 2
      BY <2>4 DEF Counted
    <2> HIDE DEF N, v
    <2> QED
      BY <2>1, <2>2, <2>3, <2>5
  <1>2. \A n \in 0 .. 2 : /\ f(n) \in Fragments(first) /\ GroupKey(f(n)) = key
                          /\ f(n).sequence_number = N(n)
    <2>1. \A n \in 0 .. 2 : f(n) \in Fragments(first)
      BY FragmentIn
    <2> QED
      BY <2>1, FragmentFields
  <1>3. f(0) \in Fragments(first) /\ GroupKey(f(0)) = key /\ f(0).sequence_number = N(0)
    BY <1>2
  <1>4. f(1) \in Fragments(first) /\ GroupKey(f(1)) = key /\ f(1).sequence_number = N(1)
    BY <1>2
  <1>5. f(2) \in Fragments(first) /\ GroupKey(f(2)) = key /\ f(2).sequence_number = N(2)
    BY <1>2
  <1>6. \A e \in F : e = f(0) \/ e = f(1) \/ e = f(2)
    <2>1. ASSUME NEW e \in F PROVE \E n \in 0 .. 2 : e = f(n)
      <3>1. PICK u \in 1 .. 2, v \in 0 .. 1, n \in 0 .. 2 : e = Fragment(first, u, v, n)
        BY <1>0, FragmentIs
      <3>2. <<u, v>> = key
        BY <1>0, <3>1, FragmentFields
      <3>3. u = s /\ v = t
        BY <3>2
      <3> QED
        BY <3>1, <3>3
    <2>2. \A n \in 0 .. 2 : n = 0 \/ n = 1 \/ n = 2
      OBVIOUS
    <2> HIDE DEF f
    <2> QED
      BY <2>1, <2>2
  <1>7. OfFrame(first, F, key)
    OBVIOUS
  <1> DEFINE f0 == f(0)
             f1 == f(1)
             f2 == f(2)
  <1>8. A \in SUBSET F /\ B \in SUBSET F /\ C = F /\ {} \in SUBSET F
    <2> HIDE DEF f
    <2> QED
      BY <1>6
  <1>9. /\ \A e \in A : e = f0
        /\ \A e \in B : e = f0 \/ e = f1
    <2> HIDE DEF f
    <2> QED
      OBVIOUS
  <1> DEFINE n0 == N(0)
             n1 == N(1)
             n2 == N(2)
  <1>20. /\ f0 \in Fragments(first) /\ GroupKey(f0) = key /\ f0.sequence_number = n0
         /\ f1 \in Fragments(first) /\ GroupKey(f1) = key /\ f1.sequence_number = n1
         /\ f2 \in Fragments(first) /\ GroupKey(f2) = key /\ f2.sequence_number = n2
         /\ n0 < n1 /\ n1 < n2 /\ n0 < n2
    <2> HIDE DEF f, N, key
    <2> QED
      BY <1>1, <1>3, <1>4, <1>5
  <1>21. B = A \cup (F \cap {f1}) /\ C = B \cup (F \cap {f2}) /\ A = {} \cup (F \cap {f0})
    <2> HIDE DEF f
    <2> QED
      OBVIOUS
  <1> HIDE DEF f, N, key, f0, f1, f2, n0, n1, n2, A, B, C
  <1>10. PartsOf(A) = PartsOf({}) \o PartIn(F, f0)
    <2>1. \A e \in {} : e.sequence_number < f0.sequence_number
      OBVIOUS
    <2>2. MayFollow(first, F, key, {}, f0)
      BY <1>7, <1>20, <2>1 DEF MayFollow
    <2> QED
      BY <1>21, <2>2, NextPart
  <1>11. PartsOf(B) = PartsOf(A) \o PartIn(F, f1)
    <2>1. \A e \in A : e.sequence_number < f1.sequence_number
      BY <1>9, <1>20
    <2>2. MayFollow(first, F, key, A, f1)
      BY <1>7, <1>8, <1>20, <2>1 DEF MayFollow
    <2>3. PartsOf(A \cup (F \cap {f1})) = PartsOf(A) \o PartIn(F, f1)
      BY <2>2, NextPart
    <2>4. PartsOf(B) = PartsOf(A \cup (F \cap {f1}))
      BY <1>21, Zenon
    <2> QED
      BY <2>3, <2>4, Zenon
  <1>12. PartsOf(C) = PartsOf(B) \o PartIn(F, f2)
    <2>1. \A e \in B : e.sequence_number < f2.sequence_number
      BY <1>9, <1>20
    <2>2. MayFollow(first, F, key, B, f2)
      BY <1>7, <1>8, <1>20, <2>1 DEF MayFollow
    <2>3. PartsOf(B \cup (F \cap {f2})) = PartsOf(B) \o PartIn(F, f2)
      BY <2>2, NextPart
    <2>4. PartsOf(C) = PartsOf(B \cup (F \cap {f2}))
      BY <1>21, Zenon
    <2> QED
      BY <2>3, <2>4, Zenon
  <1>13. PartIn(F, f0) \in Seq(Nat)
    <2>1. f0.payload \in Seq(Nat)
      BY <1>0, <1>20, FragmentType
    <2> QED
      BY <2>1 DEF PartIn
  <1>14. PartsOf({}) \o PartIn(F, f0) = PartIn(F, f0)
    <2> HIDE DEF f0
    <2>1. <<>> \o PartIn(F, f0) = PartIn(F, f0)
      BY <1>13
    <2> QED
      BY <2>1, NoParts
  <1>15. PartsOf(F) = PartIn(F, f0) \o PartIn(F, f1) \o PartIn(F, f2)
    <2> HIDE DEF A, B, C, f0, f1, f2
    <2> QED
      BY <1>8, <1>10, <1>11, <1>12, <1>14
  <1> QED
    BY <1>15 DEF f0, f1, f2, f

\* What FragmentsInOrder says of a call.
PartsAsSent(c, r) ==
    LET came == Range(c.packets)
        frames == {<<f.ssrc, f.timestamp>> : f \in came}
        place(s, t) == Cardinality({x \in frames : x[1] < s \/ (x[1] = s /\ x[2] <= t)})
        part(s, t, n) ==
            IF \E f \in came : f.payload = <<s, t, n>> THEN <<s, t, n>> ELSE <<>>
    IN  /\ Len(r) = Cardinality(frames)
        /\ \A s \in 1 .. 2, t \in 0 .. 1 :
              (<<s, t>> \in frames /\ FragmentNumber(c.first, t, 0) + 2 < SeqSpace) =>
                  r[place(s, t)].data = part(s, t, 0) \o part(s, t, 1) \o part(s, t, 2)

LEMMA PartCame ==
    ASSUME NEW first \in Firsts, NEW R \in SUBSET Fragments(first), NEW F,
           NEW s \in 1 .. 2, NEW t \in 0 .. 1, NEW n \in 0 .. 2,
           F = {f \in R : GroupKey(f) = <<s, t>>}
    PROVE  PartIn(F, Fragment(first, s, t, n)) =
              IF \E f \in R : f.payload = <<s, t, n>> THEN <<s, t, n>> ELSE <<>>
  <1> DEFINE p == Fragment(first, s, t, n)
  <1>1. p.payload = <<s, t, n>> /\ GroupKey(p) = <<s, t>>
    BY FragmentFields
  <1>2. p \in F <=> p \in R
    BY <1>1
  <1>3. ASSUME NEW f \in R, f.payload = <<s, t, n>> PROVE f = p
    <2>1. PICK u \in 1 .. 2, v \in 0 .. 1, m \in 0 .. 2 : f = Fragment(first, u, v, m)
      BY FragmentIs
    <2>2. <<u, v, m>> = <<s, t, n>>
      BY <1>3, <2>1, FragmentFields
    <2>3. u = s /\ v = t /\ m = n
      BY <2>2
    <2> QED
      BY <2>1, <2>3
  <1> HIDE DEF p
  <1>4. p \in F <=> \E f \in R : f.payload = <<s, t, n>>
    BY <1>1, <1>2, <1>3
  <1> QED
    BY <1>1, <1>4 DEF PartIn, p

\* In which place a frame is.
LEMMA PlaceOfKey ==
    ASSUME NEW K \in SUBSET (Nat \X Nat), IsFiniteSet(K), NEW s \in Nat, NEW t \in Nat, <<s, t>> \in K
    PROVE  /\ Cardinality({x \in K : x[1] < s \/ (x[1] = s /\ x[2] <= t)}) \in 1 .. Cardinality(K)
           /\ InOrder(K, KeyOrder(K))[Cardinality({x \in K : x[1] < s \/ (x[1] = s /\ x[2] <= t)})]
                = <<s, t>>
  <1> DEFINE key == <<s, t>>
             P == {x \in K : x[1] < s \/ (x[1] = s /\ x[2] <= t)}
             B == Below(K, KeyOrder(K), key)
  <1>1. IsOrder(K, KeyOrder(K))
    BY KeysOrdered
  <1>2. P = B \cup {key}
    <2>1. \A x \in K : x[1] \in Nat /\ x[2] \in Nat /\ x = <<x[1], x[2]>>
      OBVIOUS
    <2>2. \A x \in K : x \in B <=> GroupBefore(x, key)
      BY DEF Below, KeyOrder
    <2>3. \A x \in K : GroupBefore(x, key) <=> (x[1] < s \/ (x[1] = s /\ x[2] < t))
      BY DEF GroupBefore
    <2>4. \A x \in K : x \in P <=> (x[1] < s \/ (x[1] = s /\ x[2] <= t))
      OBVIOUS
    <2>5. ASSUME NEW x \in K PROVE x \in P <=> (x \in B \/ x = key)
      <3> HIDE DEF P, B
      <3>1. x = key <=> x[1] = s /\ x[2] = t
        BY <2>1
      <3>2. x \in B <=> (x[1] < s \/ (x[1] = s /\ x[2] < t))
        BY <2>2, <2>3
      <3>3. x[2] <= t <=> x[2] < t \/ x[2] = t
        BY <2>1
      <3> HIDE DEF key
      <3>4. x[1] = s => ~(x[1] < s)
        BY <2>1
      <3> QED
        BY <2>4, <3>1, <3>2, <3>3, <3>4
    <2>6. P \subseteq K /\ B \subseteq K /\ key \in K
      BY DEF Below
    <2> HIDE DEF P, B, key
    <2> QED
      BY <2>5, <2>6
  <1>3. key \notin B /\ IsFiniteSet(B)
    <2>1. key \notin B
      BY <1>1 DEF Below, IsOrder
    <2>2. key \in K
      OBVIOUS
    <2> HIDE DEF key
    <2> QED
      BY <1>1, <2>1, <2>2, RankType
  <1>4. Cardinality(P) = Rank(K, KeyOrder(K), key) + 1
    <2>1. Cardinality(B \cup {key}) = Cardinality(B) + 1
      <3> HIDE DEF B, key
      <3> QED
        BY <1>3, FS_AddElement
    <2> QED
      BY <1>2, <2>1 DEF Rank
  <1>5. /\ Rank(K, KeyOrder(K), key) + 1 \in 1 .. Cardinality(K)
        /\ InOrder(K, KeyOrder(K))[Rank(K, KeyOrder(K), key) + 1] = key
    <2>1. key \in K
      OBVIOUS
    <2> HIDE DEF key
    <2> QED
      BY <1>1, <2>1, InOrderOf
  <1> QED
    BY <1>4, <1>5

LEMMA FragmentsRestored ==
    ASSUME NEW c \in UnpackCalls, IsInjective(c.packets)
    PROVE  PartsAsSent(c, Unpack(c.packets))
  <1> DEFINE R == Range(c.packets)
             K == {GroupKey(f) : f \in R}
             o == InOrder(K, KeyOrder(K))
             r == Unpack(c.packets)
             first == c.first
  <1>1. PICK n \in Nat : EachOnce(first, c.packets, n)
    BY CallOnce
  <1>2. /\ first \in Firsts /\ c.packets \in [1 .. n -> Fragments(first)]
        /\ Unpackable(c.packets, n)
    BY <1>1, OnceUnpackable DEF EachOnce
  <1>3. R \in SUBSET Fragments(first) /\ IsFiniteSet(R)
    <2> DEFINE p == c.packets
    <2>1. p \in Surjection(1 .. n, R)
      BY <1>2 DEF Range, Surjection
    <2>2. IsFiniteSet(1 .. n)
      BY FS_Interval
    <2>3. R \in SUBSET Fragments(first)
      BY <1>2 DEF Range
    <2> HIDE DEF p, R
    <2> QED
      BY <2>1, <2>2, <2>3, FS_Surjection
  <1>4. K = KeysOf(c.packets)
    BY DEF KeysOf, Range
  <1>5. K \in SUBSET (Nat \X Nat) /\ IsFiniteSet(K)
    <2> HIDE DEF K
    <2> QED
      BY <1>2, <1>4, KeysType
  <1>6. r = UnpackOf(R)
    BY <1>1, UnpackIs
  <1>7. Len(r) = Cardinality(K) /\ DOMAIN o = 1 .. Cardinality(K)
    <2> HIDE DEF K
    <2>1. Len(r) = Cardinality(K)
      BY <1>2, <1>4, Unpacked
    <2> QED
      BY <1>5, <2>1, KeysOrdered, InOrderDomain DEF o
  <1>8. K = {<<f.ssrc, f.timestamp>> : f \in R}
    BY DEF GroupKey
  <1>9. \A k \in DOMAIN o : r[k] = MergedOf({f \in R : GroupKey(f) = o[k]})
    BY <1>6 DEF UnpackOf
  <1>10. ASSUME NEW s \in 1 .. 2, NEW t \in 0 .. 1, <<s, t>> \in K,
                FragmentNumber(first, t, 0) + 2 < SeqSpace
         PROVE  LET place == Cardinality({x \in K : x[1] < s \/ (x[1] = s /\ x[2] <= t)})
                    part(m) == IF \E f \in R : f.payload = <<s, t, m>> THEN <<s, t, m>> ELSE <<>>
                IN  r[place].data = part(0) \o part(1) \o part(2)
    <2> DEFINE place == Cardinality({x \in K : x[1] < s \/ (x[1] = s /\ x[2] <= t)})
               F == {f \in R : GroupKey(f) = <<s, t>>}
               f(m) == Fragment(first, s, t, m)
    <2>1. place \in 1 .. Cardinality(K) /\ o[place] = <<s, t>>
      <3>1. s \in Nat /\ t \in Nat
        OBVIOUS
      <3> HIDE DEF K
      <3> QED
        BY <1>5, <1>10, <3>1, PlaceOfKey
    <2> HIDE DEF place, o, K, r
    <2>2. r[place] = MergedOf(F)
      BY <1>7, <1>9, <2>1
    <2>3. MergedOf(F).data = PartsOf(F)
      BY DEF MergedOf, PartsOf
    <2>4. OfFrame(first, F, <<s, t>>)
      <3>1. F \subseteq R /\ \A e \in F : GroupKey(e) = <<s, t>>
        OBVIOUS
      <3> HIDE DEF F, R
      <3> QED
        BY <1>2, <1>3, <3>1, FS_Subset DEF OfFrame
    <2>5. PartsOf(F) = PartIn(F, f(0)) \o PartIn(F, f(1)) \o PartIn(F, f(2))
      <3> HIDE DEF F, first
      <3> QED
        BY <1>10, <2>4, PartsTogether DEF first
    <2>6. \A m \in 0 .. 2 :
            PartIn(F, f(m)) =
              IF \E e \in R : e.payload = <<s, t, m>> THEN <<s, t, m>> ELSE <<>>
      <3> HIDE DEF R, first
      <3> QED
        BY <1>2, <1>3, PartCame
    <2>7. 0 \in 0 .. 2 /\ 1 \in 0 .. 2 /\ 2 \in 0 .. 2
      OBVIOUS
    <2> HIDE DEF F, f, R
    <2>8. r[place].data = PartIn(F, f(0)) \o PartIn(F, f(1)) \o PartIn(F, f(2))
      BY <2>2, <2>3, <2>5
    <2> QED
      BY <2>6, <2>7, <2>8 DEF place
  <1> HIDE DEF K, o, r
  <1> QED
    BY <1>7, <1>8, <1>10 DEF PartsAsSent, r

------------------------------------------------------------------------------
(* The packets that are sent.                                              *)

LEMMA WrapAround ==
    ASSUME NEW a \in Nat, NEW b \in Nat, NEW T \in Nat \ {0}
    PROVE  ((a % T) + b) % T = (a + b) % T
  <1> DEFINE q == a \div T
             r == a % T
             x == r + b
             p == x \div T
             e == x % T
  <1>1. q \in Nat /\ r \in 0 .. T - 1 /\ a = T * q + r
    BY DivMod
  <1>2. x \in Nat
    BY <1>1
  <1>3. p \in Nat /\ e \in 0 .. T - 1 /\ x = T * p + e
    <2> HIDE DEF x
    <2> QED
      BY <1>2, DivMod
  <1>4. a + b = T * q + x
    <2> DEFINE u == T * q
    <2>1. u \in Nat /\ a = u + r
      BY <1>1
    <2> HIDE DEF u, r
    <2>2. r \in Nat
      BY <1>1
    <2>3. a + b = u + (r + b)
      BY <2>1, <2>2
    <2> QED
      BY <2>3 DEF u
  <1> HIDE DEF x, p, e, q, r
  <1>5. a + b = T * (q + p) + e /\ q + p \in Nat
    BY <1>1, <1>3, <1>4
  <1>6. (T * (q + p) + e) % T = e
    <2> DEFINE k == q + p
    <2>1. k \in Nat
      BY <1>5
    <2> HIDE DEF k
    <2>2. (T * k + e) % T = e
      BY <1>3, <2>1, RemainderIs
    <2> QED
      BY <2>2 DEF k
  <1>7. (a + b) % T = e
    BY <1>5, <1>6
  <1> QED
    BY <1>7 DEF e, x, r

Streams == [ssrc : Nat, payload_type : Nat, next_seq : Nat, next_ts : 0 .. TsSpace - 1]

\* Packets for n times the same number of samples.
ToSend(stream, packets, n, samples) ==
    /\ stream \in Streams /\ n \in Nat /\ samples \in Nat \ {0}
    /\ DOMAIN packets = 1 .. n /\ Len(packets) = n
    /\ \A k \in 1 .. n : packets[k].samples = samples

LEMMA PacketizeType ==
    ASSUME NEW stream \in Streams, NEW packet, packet.samples \in Nat \ {0}
    PROVE  LET next == Packetize(stream, packet).stream
           IN  /\ next \in Streams /\ next.ssrc = stream.ssrc
               /\ next.payload_type = stream.payload_type
               /\ next.next_ts = (stream.next_ts + packet.samples) % TsSpace
  <1> DEFINE s == packet.samples
             n == NextSeq(stream.next_seq)
             t == (stream.next_ts + s) % TsSpace
  <1>1. /\ stream = [ssrc |-> stream.ssrc, payload_type |-> stream.payload_type,
                     next_seq |-> stream.next_seq, next_ts |-> stream.next_ts]
        /\ stream.ssrc \in Nat /\ stream.payload_type \in Nat /\ stream.next_seq \in Nat
        /\ stream.next_ts \in 0 .. TsSpace - 1
    BY DEF Streams
  <1>2. SeqSpace \in Nat \ {0} /\ TsSpace \in Nat \ {0} /\ s \in Nat \ {0}
    BY RtpAssumption
  <1>3. n \in Nat
    <2>1. (stream.next_seq + 1) % SeqSpace \in 0 .. SeqSpace - 1
      BY <1>1, <1>2
    <2> QED
      BY <1>2, <2>1 DEF NextSeq
  <1>4. t \in 0 .. TsSpace - 1
    BY <1>1, <1>2
  <1>5. NextTs(stream.next_ts, packet.samples) = t
    <2>1. s # 0
      BY <1>2
    <2> QED
      BY <2>1 DEF NextTs
  <1>6. Packetize(stream, packet).stream =
          [stream EXCEPT !.next_seq = NextSeq(@), !.next_ts = NextTs(@, packet.samples)]
    BY DEF Packetize
  <1> HIDE DEF n, t, s
  <1>7. Packetize(stream, packet).stream =
          [ssrc |-> stream.ssrc, payload_type |-> stream.payload_type, next_seq |-> n, next_ts |-> t]
    BY <1>1, <1>5, <1>6 DEF n
  <1>8. Packetize(stream, packet).stream \in Streams
    BY <1>1, <1>3, <1>4, <1>7 DEF Streams
  <1> QED
    BY <1>7, <1>8 DEF t, s

SentAs(stream, packet, number, time) ==
    [version |-> Version, payload_type |-> stream.payload_type, ssrc |-> stream.ssrc,
     sequence_number |-> number, timestamp |-> time, marker |-> packet.marker,
     payload |-> packet.data]

\* What is sent has numbers, and the time at which it comes.
IsSent(stream, packets, n, samples) ==
    \E number \in [1 .. n -> Nat] :
       SendAll(stream, packets) =
          [i \in 1 .. n |-> SentAs(stream, packets[i], number[i],
                                   (stream.next_ts + samples * (i - 1)) % TsSpace)]

LEMMA SentAre ==
    ASSUME NEW stream, NEW packets, NEW n, NEW samples, ToSend(stream, packets, n, samples)
    PROVE  IsSent(stream, packets, n, samples)
  <1> DEFINE X == Streams
             step == [k \in 1 .. n |-> [x \in X |-> Packetize(x, packets[k]).stream]]
             IsAfter(g) == g = [k \in 0 .. n |->
                                 IF k = 0 THEN stream ELSE Packetize(g[k - 1], packets[k]).stream]
             after == CHOOSE g : IsAfter(g)
             time(k) == (stream.next_ts + samples * k) % TsSpace
  <1>0. /\ stream \in X /\ n \in Nat /\ samples \in Nat \ {0}
        /\ DOMAIN packets = 1 .. n /\ Len(packets) = n
        /\ \A k \in 1 .. n : packets[k].samples = samples
    BY DEF ToSend
  <1>1. AreSteps(step, X, n)
    <2>1. ASSUME NEW k \in 1 .. n, NEW x \in X PROVE Packetize(x, packets[k]).stream \in X
      <3>1. packets[k].samples \in Nat \ {0}
        BY <1>0
      <3> QED
        BY <3>1, PacketizeType
    <2> QED
      BY <2>1 DEF AreSteps
  <1>2. \E f : Leads(f, X, stream, n, step)
    <2> HIDE DEF step, X
    <2> QED
      BY <1>0, <1>1, StepsLead
  <1>3. PICK f : Leads(f, X, stream, n, step)
    BY <1>2
  <1>4. /\ f \in [0 .. n -> X] /\ f[0] = stream
        /\ \A k \in 1 .. n : f[k - 1] \in X /\ f[k] = Packetize(f[k - 1], packets[k]).stream
    <2>1. f \in [0 .. n -> X] /\ f[0] = stream /\ \A k \in 1 .. n : f[k] = step[k][f[k - 1]]
      BY <1>3 DEF Leads
    <2>2. \A k \in 1 .. n : k - 1 \in 0 .. n
      BY <1>0
    <2>3. \A k \in 1 .. n : f[k - 1] \in X
      <3> HIDE DEF step, X
      <3> QED
        BY <2>1, <2>2
    <2>4. \A k \in 1 .. n : \A x \in X : step[k][x] = Packetize(x, packets[k]).stream
      OBVIOUS
    <2> HIDE DEF step, X
    <2> QED
      BY <2>1, <2>3, <2>4
  <1> HIDE DEF step
  <1>5. IsAfter(f)
    <2>1. ASSUME NEW k \in 0 .. n
          PROVE  f[k] = IF k = 0 THEN stream ELSE Packetize(f[k - 1], packets[k]).stream
      <3>1. k = 0 \/ k \in 1 .. n
        BY <1>0
      <3> QED
        BY <1>4, <3>1
    <2>2. f = [k \in 0 .. n |-> f[k]]
      BY <1>4
    <2> QED
      BY <2>1, <2>2
  <1>6. ASSUME NEW g, IsAfter(g) PROVE \A k \in 0 .. n : g[k] = f[k]
    <2> DEFINE G == {k \in 0 .. n : g[k] = f[k]}
    <2>1. g[0] = stream /\ \A k \in 1 .. n : g[k] = Packetize(g[k - 1], packets[k]).stream
      <3>0. 0 \in 0 .. n /\ \A k \in 1 .. n : k \in 0 .. n /\ k # 0
        BY <1>0
      <3>1. \A k \in 0 .. n : g[k] = IF k = 0 THEN stream ELSE Packetize(g[k - 1], packets[k]).stream
        BY <1>6
      <3> QED
        BY <3>0, <3>1
    <2>2. 0 \in G
      BY <1>0, <1>4, <2>1
    <2>3. ASSUME NEW k \in 1 .. n, k - 1 \in G PROVE k \in G
      <3>1. k \in 0 .. n /\ g[k - 1] = f[k - 1]
        BY <1>0, <2>3
      <3> QED
        BY <1>4, <2>1, <3>1
    <2>4. \A k \in 0 .. n : k \in G
      <3> HIDE DEF G
      <3> QED
        BY <1>0, <2>2, <2>3, UpTo
    <2> QED
      BY <2>4
  <1>7. \A k \in 0 .. n : after[k] = f[k]
    <2>1. IsAfter(after)
      <3> HIDE DEF IsAfter
      <3> QED
        BY <1>5
    <2> HIDE DEF IsAfter, after
    <2> QED
      BY <1>6, <2>1
  <1>8. SendAll(stream, packets) = [i \in DOMAIN packets |-> Packetize(after[i - 1], packets[i]).sent]
    BY <1>0 DEF SendAll
  <1> DEFINE G == {k \in 0 .. n : /\ f[k].ssrc = stream.ssrc
                                  /\ f[k].payload_type = stream.payload_type
                                  /\ f[k].next_ts = time(k)}
  <1>9. stream.next_ts \in 0 .. TsSpace - 1 /\ TsSpace \in Nat \ {0} /\ stream.next_ts \in Nat
    <2>1. stream.next_ts \in 0 .. TsSpace - 1 /\ TsSpace \in Nat \ {0}
      BY <1>0, RtpAssumption DEF Streams
    <2> QED
      BY <2>1
  <1>10. 0 \in G
    <2>1. samples * 0 = 0 /\ 0 \in 0 .. n
      BY <1>0
    <2>2. time(0) = stream.next_ts
      BY <1>9, <2>1
    <2> QED
      BY <1>4, <2>1, <2>2
  <1>11. ASSUME NEW k \in 1 .. n, k - 1 \in G PROVE k \in G
    <2>1. /\ f[k - 1].ssrc = stream.ssrc /\ f[k - 1].payload_type = stream.payload_type
          /\ f[k - 1].next_ts = time(k - 1) /\ k \in 0 .. n
      BY <1>0, <1>11
    <2>2. f[k - 1] \in Streams /\ packets[k].samples = samples
          /\ f[k] = Packetize(f[k - 1], packets[k]).stream
      BY <1>0, <1>4
    <2>3. /\ f[k].ssrc = f[k - 1].ssrc /\ f[k].payload_type = f[k - 1].payload_type
          /\ f[k].next_ts = (f[k - 1].next_ts + samples) % TsSpace
      <3>1. packets[k].samples \in Nat \ {0}
        BY <1>0, <2>2
      <3> HIDE DEF G, time
      <3> QED
        BY <2>2, <3>1, PacketizeType
    <2>4. (time(k - 1) + samples) % TsSpace = time(k)
      <3> DEFINE a == stream.next_ts + samples * (k - 1)
      <3>1. a \in Nat /\ a + samples = stream.next_ts + samples * k
        <4>1. k - 1 \in Nat /\ k = (k - 1) + 1
          BY <1>0
        <4> DEFINE j == k - 1
        <4>2. j \in Nat /\ k = j + 1
          BY <4>1
        <4> HIDE DEF j
        <4>3. samples * k = samples * j + samples /\ samples * j \in Nat
          BY <1>0, <4>2
        <4>4. /\ stream.next_ts + samples * j \in Nat
              /\ (stream.next_ts + samples * j) + samples = stream.next_ts + samples * k
          BY <1>0, <1>9, <4>3
        <4> QED
          BY <4>4 DEF j
      <3> HIDE DEF a
      <3>2. ((a % TsSpace) + samples) % TsSpace = (a + samples) % TsSpace
        BY <1>0, <1>9, <3>1, WrapAround
      <3> QED
        BY <3>1, <3>2 DEF a
    <2> HIDE DEF time
    <2> QED
      BY <2>1, <2>3, <2>4
  <1>12. \A k \in 0 .. n : k \in G
    <2> HIDE DEF G
    <2> QED
      BY <1>0, <1>10, <1>11, UpTo
  <1> DEFINE number == [i \in 1 .. n |-> f[i - 1].next_seq]
  <1>13. \A i \in 1 .. n : i - 1 \in 0 .. n
    BY <1>0
  <1>14. number \in [1 .. n -> Nat]
    <2>1. \A k \in 0 .. n : f[k].next_seq \in Nat
      BY <1>4 DEF Streams
    <2> QED
      BY <1>13, <2>1
  <1>15. ASSUME NEW i \in 1 .. n
         PROVE  Packetize(after[i - 1], packets[i]).sent =
                   SentAs(stream, packets[i], number[i], time(i - 1))
    <2>1. after[i - 1] = f[i - 1]
      BY <1>7, <1>13
    <2>2. /\ f[i - 1].ssrc = stream.ssrc /\ f[i - 1].payload_type = stream.payload_type
          /\ f[i - 1].next_ts = time(i - 1)
      BY <1>12, <1>13
    <2>3. number[i] = f[i - 1].next_seq
      OBVIOUS
    <2> HIDE DEF after, number, time, G
    <2> QED
      BY <2>1, <2>2, <2>3 DEF Packetize, SentAs
  <1>16. SendAll(stream, packets) = [i \in 1 .. n |-> SentAs(stream, packets[i], number[i], time(i - 1))]
    <2> HIDE DEF after, number, time, G
    <2> QED
      BY <1>0, <1>8, <1>15
  <1> QED
    BY <1>14, <1>16 DEF IsSent

------------------------------------------------------------------------------
(* What is unpacked of the packets of one stream.                          *)

ByPlace(S) == {p \in S \X S : p[1] < p[2]}

LEMMA PlacesOrder ==
    ASSUME NEW n \in Nat, NEW S \in SUBSET (1 .. n)
    PROVE  /\ IsOrder(S, ByPlace(S))
           /\ \A i \in S : Rank(S, ByPlace(S), i) + 1 = Cardinality({j \in S : j <= i})
  <1> DEFINE before == ByPlace(S)
  <1>1. \A i, j \in S : <<i, j>> \in before <=> i < j
    BY DEF ByPlace
  <1>2. IsFiniteSet(S)
    <2>1. IsFiniteSet(1 .. n)
      BY FS_Interval
    <2> QED
      BY <2>1, FS_Subset
  <1>3. \A i \in S : i \in Nat
    OBVIOUS
  <1> HIDE DEF before
  <1>4. \A e \in S : <<e, e>> \notin before
    BY <1>1, <1>3
  <1>5. \A c, d, e \in S : <<c, d>> \in before /\ <<d, e>> \in before => <<c, e>> \in before
    BY <1>1, <1>3
  <1>6. \A d, e \in S : d # e => <<d, e>> \in before \/ <<e, d>> \in before
    BY <1>1, <1>3
  <1>7. IsOrder(S, before)
    BY <1>2, <1>4, <1>5, <1>6 DEF IsOrder
  <1>8. ASSUME NEW i \in S PROVE Rank(S, before, i) + 1 = Cardinality({j \in S : j <= i})
    <2> DEFINE B == Below(S, before, i)
               C == {j \in S : j <= i}
    <2>1. B = {j \in S : j < i}
      BY <1>1 DEF Below
    <2>2. C = B \cup {i} /\ i \notin B
      <3>1. \A j \in S : (j <= i <=> j < i \/ j = i) /\ ~(i < i)
        BY <1>3
      <3> HIDE DEF B
      <3> QED
        BY <2>1, <3>1
    <2>3. IsFiniteSet(B)
      BY <1>7, RankType
    <2> HIDE DEF B, C
    <2>4. Cardinality(C) = Cardinality(B) + 1
      BY <2>2, <2>3, FS_AddElement
    <2> QED
      BY <2>4 DEF Rank, B, C
  <1> QED
    BY <1>7, <1>8 DEF before

\* A stream of n packets in the order of their time stamps.
InTime(sent, n) ==
    /\ n \in Nat
    /\ \A i \in 1 .. n : sent[i] \in RtpPackets
    /\ \A i, j \in 1 .. n : sent[i].ssrc = sent[j].ssrc
    /\ \A i, j \in 1 .. n : i < j => sent[i].timestamp < sent[j].timestamp

\* Some of them arrive.
Arrive(packets, m, sent, n, arrivals) ==
    /\ m \in Nat /\ arrivals \in [1 .. m -> 1 .. n]
    /\ packets = [k \in 1 .. m |-> sent[arrivals[k]]]

\* What unpack makes of those that came.
ArrivedAs(packets, m, sent, n, arrivals) ==
    LET came == {arrivals[k] : k \in 1 .. m}
        key == [i \in came |-> GroupKey(sent[i])]
    IN  /\ came \in SUBSET (1 .. n) /\ Unpackable(packets, m)
        /\ Transfers(key, came, ByPlace(came), KeysOf(packets), KeyOrder(KeysOf(packets)))
        /\ \A i \in came : GroupOf(packets, key[i]) = {k \in 1 .. m : arrivals[k] = i}

LEMMA ArrivedInTime ==
    ASSUME NEW packets, NEW m, NEW sent, NEW n, NEW arrivals,
           InTime(sent, n), Arrive(packets, m, sent, n, arrivals)
    PROVE  ArrivedAs(packets, m, sent, n, arrivals)
  <1> DEFINE came == {arrivals[k] : k \in 1 .. m}
             key == [i \in came |-> GroupKey(sent[i])]
             K == KeysOf(packets)
  <1>1. /\ m \in Nat /\ n \in Nat /\ DOMAIN packets = 1 .. m
        /\ \A k \in 1 .. m : packets[k] = sent[arrivals[k]] /\ arrivals[k] \in 1 .. n
    BY DEF Arrive, InTime
  <1>2. came \in SUBSET (1 .. n)
    BY <1>1
  <1>3. \A i \in 1 .. n : /\ {sent[i].ssrc, sent[i].timestamp,
                              sent[i].sequence_number} \subseteq Nat
                          /\ sent[i].payload \in Seq(Nat)
    BY DEF InTime, RtpPackets
  <1>4. Unpackable(packets, m)
    BY <1>1, <1>3 DEF Unpackable
  <1>5. K = {GroupKey(sent[i]) : i \in came}
    BY <1>1 DEF KeysOf
  <1>6. \A i, j \in 1 .. n : /\ sent[i].ssrc = sent[j].ssrc
                             /\ i < j => sent[i].timestamp < sent[j].timestamp
    BY DEF InTime
  <1>7. ASSUME NEW i \in 1 .. n, NEW j \in 1 .. n
        PROVE  /\ GroupKey(sent[i]) = GroupKey(sent[j]) => i = j
               /\ GroupBefore(GroupKey(sent[i]), GroupKey(sent[j])) <=> i < j
    <2> DEFINE a == sent[i].timestamp
               b == sent[j].timestamp
               s == sent[i].ssrc
    <2>1. GroupKey(sent[i]) = <<s, a>> /\ GroupKey(sent[j]) = <<s, b>>
      BY <1>6 DEF GroupKey
    <2>2. a \in Nat /\ b \in Nat /\ s \in Nat /\ (i < j => a < b) /\ (j < i => b < a)
      BY <1>3, <1>6
    <2>3. i \in Nat /\ j \in Nat
      BY <1>1
    <2>8. i = j => a = b
      OBVIOUS
    <2> HIDE DEF a, b, s
    <2>4. (a = b => i = j) /\ (a < b <=> i < j)
      BY <2>2, <2>3, <2>8
    <2>5. GroupBefore(<<s, a>>, <<s, b>>) <=> a < b
      BY <2>2 DEF GroupBefore
    <2>6. GroupKey(sent[i]) = GroupKey(sent[j]) => a = b
      BY <2>1
    <2>7. GroupBefore(GroupKey(sent[i]), GroupKey(sent[j])) <=> a < b
      BY <2>1, <2>5
    <2> QED
      BY <2>4, <2>6, <2>7
  <1>8. IsOrder(K, KeyOrder(K)) /\ IsOrder(came, ByPlace(came))
    <2>1. IsOrder(came, ByPlace(came))
      <3> HIDE DEF came
      <3> QED
        BY <1>1, <1>2, PlacesOrder
    <2> QED
      BY <1>4, <2>1, KeysType
  <1>12. \A i \in came : key[i] = GroupKey(sent[i])
    OBVIOUS
  <1>13. DOMAIN key = came /\ key = [i \in came |-> key[i]]
    OBVIOUS
  <1>14. \A i \in came : GroupOf(packets, key[i]) = {k \in 1 .. m : GroupKey(sent[arrivals[k]]) = key[i]}
    BY <1>1 DEF GroupOf
  <1> HIDE DEF came, key, K
  <1>9. key \in Bijection(came, K)
    <2>1. \A i \in came : key[i] \in K
      BY <1>5, <1>12
    <2>2. key \in [came -> K]
      BY <1>13, <2>1
    <2>3. \A t \in K : \E i \in came : key[i] = t
      BY <1>5, <1>12
    <2>4. \A i, j \in came : key[i] = key[j] => i = j
      BY <1>2, <1>7, <1>12
    <2> QED
      BY <2>2, <2>3, <2>4 DEF Bijection, Injection, Surjection, IsInjective
  <1>10. ASSUME NEW i \in came, NEW j \in came
         PROVE  <<i, j>> \in ByPlace(came) <=> <<key[i], key[j]>> \in KeyOrder(K)
    <2>1. key[i] \in K /\ key[j] \in K
      BY <1>5, <1>12
    <2>2. <<i, j>> \in ByPlace(came) <=> i < j
      BY DEF ByPlace
    <2>3. <<key[i], key[j]>> \in KeyOrder(K) <=> GroupBefore(key[i], key[j])
      BY <2>1 DEF KeyOrder
    <2>4. GroupBefore(key[i], key[j]) <=> i < j
      BY <1>2, <1>7, <1>12
    <2> QED
      BY <2>2, <2>3, <2>4
  <1>11. Transfers(key, came, ByPlace(came), K, KeyOrder(K))
    BY <1>8, <1>9, <1>10 DEF Transfers
  <1>15. \A i \in came : GroupOf(packets, key[i]) = {k \in 1 .. m : arrivals[k] = i}
    <2>1. ASSUME NEW i \in came, NEW k \in 1 .. m
          PROVE  GroupKey(sent[arrivals[k]]) = key[i] <=> arrivals[k] = i
      BY <1>1, <1>2, <1>7, <1>12
    <2> QED
      BY <1>14, <2>1
  <1> QED
    BY <1>2, <1>4, <1>11, <1>15 DEF came, key, K, ArrivedAs

------------------------------------------------------------------------------
(* Frames that are sent in a stream, and received.                         *)

LEMMA EncodedPicture ==
    ASSUME NEW B \in SUBSET Nat, NEW frame, Picture(frame, B)
    PROVE  /\ Encode(frame) = {Encoded(frame)}
           /\ Encoded(frame) = Header(frame) \o FrameBody(frame)
           /\ Encoded(frame) \in Seq(Nat) /\ Encoded(frame) # <<>>
           /\ Decode(Encoded(frame)) = {frame}
           /\ \A rest \in Seq(Nat) : rest # <<>> => Decode(Encoded(frame) \o rest) = {}
  <1> DEFINE luma == LumaSize(frame.width, frame.height)
             h == Header(frame)
             b == FrameBody(frame)
  <1>1. HasPlanes(frame, B, luma)
    BY PictureHasPlanes
  <1>2. Encode(frame) = {h \o b}
    BY <1>1, PlanesOf
  <1>3. Encoded(frame) = h \o b
    BY <1>2, OneOf DEF Encoded
  <1>4. h \in Seq(Nat) /\ Len(h) = HeaderLen /\ b \in Seq(Nat)
    BY <1>1, HeaderType, BodyType
  <1>5. h \o b \in Seq(Nat) /\ h \o b # <<>>
    <2> HIDE DEF h, b
    <2>1. h \o b \in Seq(Nat) /\ Len(h \o b) = Len(h) + Len(b) /\ Len(b) \in Nat
      <3>1. h \in Seq(Nat) /\ b \in Seq(Nat)
        BY <1>4
      <3>2. Len(h \o b) = Len(h) + Len(b) /\ h \o b \in Seq(Nat)
        BY <3>1, ConcatProperties
      <3> QED
        BY <3>1, <3>2, LenProperties
    <2>2. Len(h \o b) # 0
      BY <1>4, <2>1 DEF HeaderLen
    <2> QED
      BY <2>1, <2>2
  <1>6. Decode(h \o b) = {frame} /\ \A rest \in Seq(Nat) : rest # <<>> => Decode((h \o b) \o rest) = {}
    BY PictureBack
  <1> HIDE DEF h, b
  <1> QED
    BY <1>2, <1>3, <1>5, <1>6 DEF h, b

LEMMA FourCounted == 4 < CountSpace
  <1> DEFINE b == ByteSpace
             c == b * b
             d == c * b
             e == d * b
  <1>1. b \in Nat /\ 2 <= b
    BY BytesType
  <1>2. CountSpace = e
    BY DEF CountSpace
  <1> HIDE DEF b
  <1>3. c \in Nat /\ 2 * 2 <= c
    BY <1>1, ProductGrows
  <1> HIDE DEF c
  <1>4. d \in Nat /\ 4 * 2 <= d
    BY <1>1, <1>3, ProductGrows
  <1> HIDE DEF d
  <1>5. e \in Nat /\ 8 * 2 <= e
    BY <1>1, <1>4, ProductGrows
  <1> HIDE DEF e
  <1>6. 4 < e
    BY <1>5
  <1> QED
    BY <1>2, <1>6

LEMMA SmallPicture == \A b \in {0, 1} : Picture(FrameOf(b), {0, 1})
  <1>1. ASSUME NEW b \in {0, 1} PROVE Picture(FrameOf(b), {0, 1})
    <2> DEFINE f == FrameOf(b)
               d == <<0, b, b, 0, 1, b>>
    <2>1. f = [width |-> 2, height |-> 2, keyframe |-> b, data |-> d]
      BY DEF FrameOf
    <2>2. d \in Seq({0, 1}) /\ Len(d) = 6
      OBVIOUS
    <2>3. LumaSize(2, 2) = 4 /\ ChromaSize(4) = 1
      BY DEF LumaSize, ChromaSize
    <2> HIDE DEF f, d
    <2>4. f \in [width : Nat, height : Nat, keyframe : Nat, data : Seq({0, 1})]
      BY <2>1, <2>2
    <2>5. f.width = 2 /\ f.height = 2 /\ Len(f.data) = 6
      BY <2>1, <2>2
    <2>6. Len(f.data) = LumaSize(f.width, f.height) + 2 * ChromaSize(LumaSize(f.width, f.height))
      BY <2>3, <2>5
    <2> QED
      BY <2>3, <2>4, <2>5, <2>6, FourCounted DEF Picture, f
  <1> QED
    BY <1>1

\* The payload of a frame in a stream.
PayloadOf(c, i) == Encoded(FrameOf(c.frames[i]))

LEMMA PayloadIs ==
    ASSUME NEW c \in StreamCalls, NEW i \in DOMAIN c.frames
    PROVE  /\ PayloadOf(c, i) \in Seq(Nat) /\ PayloadOf(c, i) # <<>>
           /\ Decode(PayloadOf(c, i)) = {FrameOf(c.frames[i])}
           /\ \A rest \in Seq(Nat) : rest # <<>> => Decode(PayloadOf(c, i) \o rest) = {}
  <1>1. c.frames[i] \in {0, 1}
    BY DEF StreamCalls
  <1>2. Picture(FrameOf(c.frames[i]), {0, 1})
    BY <1>1, SmallPicture
  <1> QED
    <2>1. {0, 1} \in SUBSET Nat
      OBVIOUS
    <2> QED
      BY <1>2, <2>1, EncodedPicture DEF PayloadOf

LEMMA SmallHeaders == 96 \in Nat /\ 96 < 128 /\ 1 \in Nat /\ 1 # 0
  OBVIOUS

LEMMA StreamType ==
    ASSUME NEW c \in StreamCalls
    PROVE  \E n \in Nat \ {0} :
              /\ DOMAIN c.frames = 1 .. n /\ Len(c.frames) = n
              /\ c.samples \in Nat \ {0} /\ c.seq \in Nat /\ c.ts \in 0 .. TsSpace - 1
              /\ \E m \in Nat : DOMAIN c.arrivals = 1 .. m /\ Len(c.arrivals) = m
  <1>1. /\ \E n \in 1 .. MaxFrames : c.frames \in [1 .. n -> {0, 1}]
        /\ \E m \in 0 .. MaxFrames : c.arrivals \in [1 .. m -> 1 .. MaxFrames]
        /\ c.samples \in {1, TsStep} /\ c.seq \in {0, SeqSpace - 1} /\ c.ts \in {0, TsSpace - 1}
    BY DEF StreamCalls
  <1>2. MaxFrames \in Nat /\ SeqSpace \in Nat \ {0} /\ TsSpace \in Nat \ {0} /\ TsStep \in Nat \ {0}
    BY ParameterAssumption, RtpAssumption
  <1>3. c.samples \in Nat \ {0} /\ c.seq \in Nat /\ c.ts \in 0 .. TsSpace - 1
    BY <1>1, <1>2
  <1>4. PICK n \in 1 .. MaxFrames : c.frames \in [1 .. n -> {0, 1}]
    BY <1>1
  <1>5. n \in Nat \ {0}
    BY <1>2
  <1>6. DOMAIN c.frames = 1 .. n /\ Len(c.frames) = n
    BY <1>4, <1>5
  <1>7. PICK m \in 0 .. MaxFrames : c.arrivals \in [1 .. m -> 1 .. MaxFrames]
    BY <1>1
  <1>8. m \in Nat /\ DOMAIN c.arrivals = 1 .. m /\ Len(c.arrivals) = m
    BY <1>2, <1>7
  <1> QED
    BY <1>3, <1>5, <1>6, <1>8

LEMMA SentStream ==
    ASSUME NEW c \in StreamCalls, NEW n \in Nat, DOMAIN c.frames = 1 .. n
    PROVE  /\ SentPackets(c) \in [1 .. n -> RtpPackets]
           /\ \A i \in 1 .. n : /\ SentPackets(c)[i].payload_type = 96 /\ SentPackets(c)[i].ssrc = 1
                                /\ SentPackets(c)[i].payload = PayloadOf(c, i)
                                /\ SentPackets(c)[i].timestamp = (c.ts + c.samples * (i - 1)) % TsSpace
  <1> DEFINE stream == [ssrc |-> 1, payload_type |-> 96, next_seq |-> c.seq, next_ts |-> c.ts]
             packets == [i \in 1 .. n |-> [data |-> PayloadOf(c, i), marker |-> TRUE,
                                           samples |-> c.samples]]
             sent == SentPackets(c)
             time(i) == (c.ts + c.samples * (i - 1)) % TsSpace
  <1>1. c.samples \in Nat \ {0} /\ c.seq \in Nat /\ c.ts \in 0 .. TsSpace - 1
    BY StreamType
  <1>2. sent = SendAll(stream, packets)
    BY DEF SentPackets, PayloadOf
  <1>3. \A i \in 1 .. n : packets[i].samples = c.samples /\ packets[i].data = PayloadOf(c, i)
                          /\ packets[i].marker = TRUE
    OBVIOUS
  <1>4. ToSend(stream, packets, n, c.samples)
    <2>1. stream \in Streams
      BY <1>1 DEF Streams
    <2>2. DOMAIN packets = 1 .. n /\ Len(packets) = n
      OBVIOUS
    <2> HIDE DEF stream, packets
    <2> QED
      BY <1>1, <1>3, <2>1, <2>2 DEF ToSend
  <1>5. stream.next_ts = c.ts /\ stream.ssrc = 1 /\ stream.payload_type = 96
    OBVIOUS
  <1> HIDE DEF stream, packets, sent
  <1>6. PICK number \in [1 .. n -> Nat] :
           SendAll(stream, packets) =
              [i \in 1 .. n |-> SentAs(stream, packets[i], number[i],
                                       (stream.next_ts + c.samples * (i - 1)) % TsSpace)]
    <2>1. \E number \in [1 .. n -> Nat] :
             SendAll(stream, packets) =
                [i \in 1 .. n |-> SentAs(stream, packets[i], number[i],
                                         (stream.next_ts + c.samples * (i - 1)) % TsSpace)]
      <3>1. IsSent(stream, packets, n, c.samples)
        BY <1>4, SentAre
      <3> QED
        BY <3>1 DEF IsSent
    <2> QED
      BY <2>1
  <1>7. sent = [i \in 1 .. n |-> SentAs(stream, packets[i], number[i], time(i))]
    BY <1>2, <1>5, <1>6
  <1>8. ASSUME NEW i \in 1 .. n
        PROVE  /\ sent[i] \in RtpPackets /\ sent[i].payload_type = 96 /\ sent[i].ssrc = 1
               /\ sent[i].payload = PayloadOf(c, i) /\ sent[i].timestamp = time(i)
    <2>1. time(i) \in Nat
      <3>1. c.ts \in Nat /\ TsSpace \in Nat \ {0} /\ i - 1 \in Nat
        BY <1>1, RtpAssumption
      <3>2. c.ts + c.samples * (i - 1) \in Nat
        <4>1. c.samples \in Nat
          BY <1>1
        <4> QED
          BY <3>1, <4>1, Weighted
      <3> QED
        BY <3>1, <3>2, DivMod
    <2> HIDE DEF time
    <2>2. sent[i] = [version |-> Version, payload_type |-> 96, ssrc |-> 1,
                     sequence_number |-> number[i], timestamp |-> time(i), marker |-> TRUE,
                     payload |-> PayloadOf(c, i)]
      <3>1. sent[i] = SentAs(stream, packets[i], number[i], time(i))
        BY <1>7
      <3> QED
        BY <1>3, <1>5, <3>1 DEF SentAs
    <2>3. PayloadOf(c, i) \in Seq(Nat) /\ number[i] \in Nat
      BY <1>6, PayloadIs
    <2>4. sent[i] \in RtpPackets
      BY <2>1, <2>2, <2>3 DEF RtpPackets
    <2> QED
      BY <2>2, <2>4
  <1>9. sent \in [1 .. n -> RtpPackets]
    BY <1>7, <1>8
  <1> QED
    BY <1>8, <1>9 DEF sent

LEMMA MoreTimes ==
    ASSUME NEW s \in Nat \ {0}, NEW i \in Nat, NEW j \in Nat
    PROVE  s * i \in Nat /\ s * j \in Nat /\ (i < j => s * i < s * j) /\ (i <= j => s * i <= s * j)
  <1>1. s * i \in Nat /\ s * j \in Nat
    OBVIOUS
  <1>2. ASSUME i < j PROVE s * i < s * j
    <2> DEFINE d == j - i
    <2>1. d \in Nat \ {0} /\ j = i + d
      BY <1>2
    <2> HIDE DEF d
    <2>2. s * j = s * i + s * d /\ s * d \in Nat \ {0}
      BY <2>1
    <2> QED
      BY <1>1, <2>2
  <1>3. ASSUME i <= j PROVE s * i <= s * j
    <2>1. i < j \/ i = j
      BY <1>3
    <2> QED
      BY <1>1, <1>2, <2>1
  <1> QED
    BY <1>1, <1>2, <1>3

LEMMA StreamInTime ==
    ASSUME NEW c \in StreamCalls, NEW n \in Nat \ {0}, DOMAIN c.frames = 1 .. n,
           c.ts + c.samples * (n - 1) < TsSpace
    PROVE  InTime(SentPackets(c), n)
  <1> DEFINE sent == SentPackets(c)
             s == c.samples
             t == c.ts
             T == TsSpace
  <1>1. s \in Nat \ {0} /\ t \in Nat /\ T \in Nat \ {0}
    BY StreamType, RtpAssumption
  <1>2. \A i \in 1 .. n : /\ sent[i] \in RtpPackets /\ sent[i].ssrc = 1
                          /\ sent[i].timestamp = (t + s * (i - 1)) % T
    BY SentStream
  <1>3. t + s * (n - 1) < T
    OBVIOUS
  <1> HIDE DEF sent, s, t, T
  <1>4. ASSUME NEW i \in 1 .. n PROVE sent[i].timestamp = t + s * (i - 1) /\ s * (i - 1) \in Nat
    <2> DEFINE x == s * (i - 1)
               y == s * (n - 1)
    <2>1. i - 1 \in Nat /\ n - 1 \in Nat /\ i - 1 <= n - 1
      OBVIOUS
    <2>2. x \in Nat /\ y \in Nat /\ x <= y
      BY <1>1, <2>1, MoreTimes
    <2>3. t + y < T
      BY <1>3
    <2>4. sent[i].timestamp = (t + x) % T
      BY <1>2
    <2> HIDE DEF x, y
    <2>5. t + x \in Nat /\ t + x < T
      BY <1>1, <2>2, <2>3
    <2>6. (t + x) % T = t + x
      BY <1>1, <2>5, WholeDivision
    <2> QED
      BY <2>2, <2>4, <2>6 DEF x
  <1>5. ASSUME NEW i \in 1 .. n, NEW j \in 1 .. n, i < j
        PROVE  sent[i].timestamp < sent[j].timestamp
    <2> DEFINE x == s * (i - 1)
               y == s * (j - 1)
    <2>1. i - 1 \in Nat /\ j - 1 \in Nat /\ i - 1 < j - 1
      BY <1>5
    <2>2. x \in Nat /\ y \in Nat /\ x < y
      BY <1>1, <2>1, MoreTimes
    <2>3. sent[i].timestamp = t + x /\ sent[j].timestamp = t + y
      BY <1>4
    <2> HIDE DEF x, y
    <2> QED
      BY <1>1, <2>2, <2>3
  <1>6. InTime(sent, n)
    BY <1>2, <1>5 DEF InTime
  <1> QED
    BY <1>6 DEF sent

LEMMA ReceivedIs ==
    ASSUME NEW c \in StreamCalls, Range(c.arrivals) \subseteq DOMAIN c.frames,
           NEW packets, packets = [k \in DOMAIN c.arrivals |-> SentPackets(c)[c.arrivals[k]]]
    PROVE  Received(c) = [k \in DOMAIN Unpack(packets) |-> Decode(Unpack(packets)[k].data)]
  <1> DEFINE D == DOMAIN c.arrivals
             sent == SentPackets(c)
             a == c.arrivals
             wire(packet) == CHOOSE w \in Marshal(packet) : TRUE
             arrived == [k \in D |-> wire(sent[a[k]])]
             back == [k \in DOMAIN arrived |-> CHOOSE packet \in Unmarshal(arrived[k]) : TRUE]
  <1>1. Received(c) = [k \in DOMAIN Unpack(back) |-> Decode(Unpack(back)[k].data)]
    BY DEF Received
  <1>2. PICK n \in Nat \ {0} : DOMAIN c.frames = 1 .. n
    BY StreamType
  <1>3. \A i \in 1 .. n : sent[i] \in RtpPackets /\ sent[i].payload_type = 96 /\ sent[i].ssrc = 1
    BY <1>2, SentStream
  <1>4. \A k \in D : a[k] \in 1 .. n
    BY <1>2 DEF Range
  <1>8. packets = [k \in D |-> sent[a[k]]]
    OBVIOUS
  <1> HIDE DEF sent, a
  <1>5. ASSUME NEW k \in D PROVE (CHOOSE packet \in Unmarshal(arrived[k]) : TRUE) = sent[a[k]]
    <2> DEFINE p == sent[a[k]]
    <2>1. p \in RtpPackets /\ p.payload_type < 128 /\ p.ssrc # 0
      <3>1. p.payload_type = 96 /\ p.ssrc = 1 /\ p \in RtpPackets
        BY <1>3, <1>4
      <3> QED
        BY <3>1, SmallHeaders
    <2>2. arrived[k] = wire(p)
      OBVIOUS
    <2> HIDE DEF p, arrived
    <2>3. Marshal(p) = {Wire(p)} /\ Unmarshal(Wire(p)) = {p}
      BY <2>1, PacketBack
    <2>4. wire(p) = Wire(p)
      BY <2>3, OneOf
    <2> HIDE DEF wire
    <2>5. Unmarshal(arrived[k]) = {p}
      BY <2>2, <2>3, <2>4
    <2>6. (CHOOSE packet \in {p} : TRUE) = p
      BY OneOf
    <2> QED
      BY <2>5, <2>6 DEF p
  <1>6. DOMAIN arrived = D
    OBVIOUS
  <1>7. back = packets
    <2> HIDE DEF arrived
    <2> QED
      BY <1>5, <1>6, <1>8
  <1> HIDE DEF back
  <1> QED
    BY <1>1, <1>7

\* The frames that came, in the order in which they were sent.
LEMMA StreamInOrder ==
    ASSUME NEW c \in StreamCalls, Range(c.arrivals) \subseteq DOMAIN c.frames,
           c.ts + c.samples * (Len(c.frames) - 1) < TsSpace
    PROVE  LET came == Range(c.arrivals)
               r == Received(c)
           IN  /\ Len(r) = Cardinality(came)
               /\ \A i \in came :
                     r[Cardinality({j \in came : j <= i})] =
                        IF Cardinality({k \in DOMAIN c.arrivals : c.arrivals[k] = i}) = 1
                        THEN {FrameOf(c.frames[i])} ELSE {}
  <1> DEFINE a == c.arrivals
             r == Received(c)
             came == Range(a)
             sent == SentPackets(c)
             packets == [k \in DOMAIN a |-> sent[a[k]]]
             u == Unpack(packets)
             key == [i \in came |-> GroupKey(sent[i])]
  <1>1. PICK n \in Nat \ {0} : /\ DOMAIN c.frames = 1 .. n /\ Len(c.frames) = n
                               /\ \E m \in Nat : DOMAIN a = 1 .. m /\ Len(a) = m
    BY StreamType
  <1>2. PICK m \in Nat : DOMAIN a = 1 .. m
    BY <1>1
  <1>3. InTime(sent, n)
    BY <1>1, StreamInTime
  <1>4. r = [k \in DOMAIN u |-> Decode(u[k].data)]
    BY ReceivedIs
  <1>5. came = {a[k] : k \in 1 .. m}
    BY <1>2 DEF Range
  <1>6. Arrive(packets, m, sent, n, a)
    <2>1. a \in [1 .. m -> 1 .. n]
      <3>1. \A k \in 1 .. m : a[k] \in 1 .. n
        BY <1>1, <1>2 DEF Range
      <3>2. a = [k \in 1 .. m |-> a[k]]
        <4>1. \E l \in 0 .. MaxFrames : a \in [1 .. l -> 1 .. MaxFrames]
          BY DEF StreamCalls
        <4> HIDE DEF a
        <4> QED
          BY <1>2, <4>1
      <3> HIDE DEF a
      <3> QED
        BY <3>1, <3>2
    <2> HIDE DEF a, sent
    <2> QED
      BY <1>2, <2>1 DEF Arrive
  <1>7. \A i \in 1 .. n : sent[i].payload = PayloadOf(c, i)
    BY <1>1, SentStream
  <1>8. \A i \in 1 .. n : /\ PayloadOf(c, i) \in Seq(Nat) /\ PayloadOf(c, i) # <<>>
                          /\ Decode(PayloadOf(c, i)) = {FrameOf(c.frames[i])}
                          /\ \A rest \in Seq(Nat) :
                                rest # <<>> => Decode(PayloadOf(c, i) \o rest) = {}
    BY <1>1, PayloadIs
  <1>15. \A k \in 1 .. m : packets[k] = sent[a[k]]
    BY <1>2
  <1> HIDE DEF a, sent, packets, r, u, came
  <1>9. /\ came \in SUBSET (1 .. n) /\ Unpackable(packets, m)
        /\ Transfers(key, came, ByPlace(came), KeysOf(packets), KeyOrder(KeysOf(packets)))
        /\ \A i \in came : GroupOf(packets, key[i]) = {k \in 1 .. m : a[k] = i}
    <2>1. ArrivedAs(packets, m, sent, n, a)
      BY <1>3, <1>6, ArrivedInTime
    <2> QED
      BY <1>5, <2>1 DEF ArrivedAs
  <1> HIDE DEF key
  <1>10. /\ Len(u) = Cardinality(came) /\ Cardinality(came) \in Nat
         /\ DOMAIN u = 1 .. Cardinality(came)
         /\ \A i \in came : /\ Rank(came, ByPlace(came), i) + 1 \in 1 .. Cardinality(came)
                            /\ u[Rank(came, ByPlace(came), i) + 1] = Merged(packets, key[i])
    BY <1>9, UnpackedAt DEF u
  <1>11. Len(r) = Cardinality(came)
    BY <1>4, <1>10
  <1>12. ASSUME NEW i \in came
         PROVE  r[Cardinality({j \in came : j <= i})] =
                   IF Cardinality({k \in DOMAIN a : a[k] = i}) = 1
                   THEN {FrameOf(c.frames[i])} ELSE {}
    <2> DEFINE k == Cardinality({j \in came : j <= i})
               G == {l \in 1 .. m : a[l] = i}
    <2>1. Rank(came, ByPlace(came), i) + 1 = k
      BY <1>9, PlacesOrder
    <2>2. k \in 1 .. Cardinality(came) /\ u[k] = Merged(packets, key[i])
      BY <1>10, <2>1
    <2> HIDE DEF k
    <2>3. r[k] = Decode(Merged(packets, key[i]).data)
      BY <1>4, <1>10, <2>2
    <2>4. GroupOf(packets, key[i]) = G /\ i \in 1 .. n
      BY <1>9
    <2>5. \A l \in G : packets[l].payload = PayloadOf(c, i)
      BY <1>7, <1>15, <2>4
    <2>6. G # {}
      BY <1>5
    <2>7. IsFiniteSet(G)
      <3>1. IsFiniteSet(1 .. m) /\ G \in SUBSET (1 .. m)
        BY FS_Interval
      <3> HIDE DEF G
      <3> QED
        BY <3>1, FS_Subset
    <2>8. {l \in DOMAIN a : a[l] = i} = G
      BY <1>2
    <2> HIDE DEF G
    <2>9. CASE Cardinality(G) = 1
      <3>1. PICK l : G = {l}
        BY <2>7, <2>9, FS_Singleton
      <3>2. OnlyOne(packets, key[i], l)
        BY <2>4, <3>1 DEF OnlyOne
      <3>3. Merged(packets, key[i]).data = packets[l].payload
        BY <1>9, <3>2, MergedOne
      <3>4. packets[l].payload = PayloadOf(c, i)
        BY <2>5, <3>1
      <3>5. r[k] = {FrameOf(c.frames[i])}
        BY <1>8, <2>3, <2>4, <3>3, <3>4
      <3> QED
        BY <2>8, <2>9, <3>5 DEF k
    <2>10. CASE Cardinality(G) # 1
      <3>1. \E rest \in Seq(Nat) : rest # <<>>
               /\ Merged(packets, key[i]).data = PayloadOf(c, i) \o rest
        <4> DEFINE p == PayloadOf(c, i)
                   x == key[i]
        <4>1. /\ p \in Seq(Nat) /\ p # <<>> /\ GroupOf(packets, x) # {}
              /\ Cardinality(GroupOf(packets, x)) # 1
              /\ \A l \in GroupOf(packets, x) : packets[l].payload = p
          <5>1. p \in Seq(Nat) /\ p # <<>>
            BY <1>8, <2>4
          <5>2. GroupOf(packets, x) # {} /\ Cardinality(GroupOf(packets, x)) # 1
            BY <2>4, <2>6, <2>10
          <5>3. \A l \in GroupOf(packets, x) : packets[l].payload = p
            BY <2>4, <2>5
          <5> QED
            BY <5>1, <5>2, <5>3
        <4> HIDE DEF p, x
        <4>2. GoesOn(Merged(packets, x).data, p)
          <5>1. Unpackable(packets, m)
            BY <1>9
          <5> QED
            BY <4>1, <5>1, MergedCopies, Zenon
        <4> QED
          BY <4>2 DEF p, x, GoesOn
      <3>2. r[k] = {}
        BY <1>8, <2>3, <2>4, <3>1
      <3> QED
        BY <2>8, <2>10, <3>2 DEF k
    <2> QED
      BY <2>9, <2>10
  <1> QED
    BY <1>11, <1>12 DEF a, r, came

------------------------------------------------------------------------------
(* The program's own check.                                                *)

\* The time that a frame takes.
UnitOf(codec) == IF IsVideo(codec) THEN 1 ELSE FrameSamples

\* The frame with this index.
FrameFor(codec, index) == IF IsVideo(codec) THEN SyntheticVideo(index) ELSE SyntheticAudio

\* A payload that is decoded to the frame, and refused with any other byte after its header.
GuardedPayload(codec, data, frame) ==
    /\ data \in Seq(Nat) /\ Len(data) > PayloadHeaderLen(codec)
    /\ DecodeBy(codec, data) = {frame}
    /\ \A k \in Nat \ {0} : PayloadHeaderLen(codec) + k <= Len(data) =>
          /\ data[PayloadHeaderLen(codec) + k] \in Bytes
          /\ \A to \in Bytes : to # data[PayloadHeaderLen(codec) + k] =>
                DecodeBy(codec, [data EXCEPT ![PayloadHeaderLen(codec) + k] = to]) = {}

LEMMA VideoPicture ==
    ASSUME NEW i \in Nat
    PROVE  Picture(SyntheticVideo(i), Bytes) /\ HasPlanes(SyntheticVideo(i), Bytes, 4)
  <1> DEFINE f == SyntheticVideo(i)
             d == [k \in 1 .. 6 |-> (k + i) % ByteSpace]
             key == IF i = 0 THEN 1 ELSE 0
  <1>1. f = [width |-> 2, height |-> 2, keyframe |-> key, data |-> d]
    BY DEF SyntheticVideo
  <1>2. d \in Seq(Bytes) /\ Len(d) = 6
    <2>1. \A k \in 1 .. 6 : (k + i) % ByteSpace \in 0 .. ByteSpace - 1
      BY BytesType
    <2> QED
      BY <2>1 DEF Bytes
  <1>3. LumaSize(2, 2) = 4 /\ ChromaSize(4) = 1 /\ key \in Nat
    BY DEF LumaSize, ChromaSize
  <1> HIDE DEF f, d, key
  <1>4. f \in [width : Nat, height : Nat, keyframe : Nat, data : Seq(Bytes)]
    BY <1>1, <1>2, <1>3
  <1>5. f.width = 2 /\ f.height = 2 /\ Len(f.data) = 6
    BY <1>1, <1>2
  <1>6. LumaSize(f.width, f.height) = 4
    BY <1>3, <1>5
  <1>7. Picture(f, Bytes)
    BY <1>3, <1>4, <1>5, <1>6, FourCounted DEF Picture
  <1>8. HasPlanes(f, Bytes, 4)
    BY <1>6, <1>7, PictureHasPlanes
  <1> QED
    BY <1>7, <1>8 DEF f

LEMMA VideoGuarded ==
    ASSUME NEW codec, IsVideo(codec), NEW i \in Nat
    PROVE  \E data : /\ GuardedPayload(codec, data, SyntheticVideo(i))
                     /\ EncodeBy(codec, SyntheticVideo(i)) =
                          {[data |-> data, marker |-> TRUE, samples |-> 1]}
  <1> DEFINE f == SyntheticVideo(i)
             h == Header(f)
             b == FrameBody(f)
             d == h \o b
             n == HeaderLen
  <1>1. Picture(f, Bytes) /\ HasPlanes(f, Bytes, 4) /\ Bytes \in SUBSET Nat
    BY VideoPicture, BytesType
  <1>2. Encode(f) = {d} /\ d \in Seq(Nat) /\ Decode(d) = {f}
    <2> HIDE DEF f
    <2>1. Encode(f) = {Encoded(f)} /\ Encoded(f) = d /\ Encoded(f) \in Seq(Nat)
          /\ Decode(Encoded(f)) = {f}
      BY <1>1, EncodedPicture
    <2> QED
      BY <2>1
  <1>3. h \in Seq(Nat) /\ Len(h) = n /\ b \in Seq(Bytes) /\ b \in Seq(Nat) /\ Len(b) \in Nat \ {0}
    <2> HIDE DEF f
    <2>1. h \in Seq(Nat) /\ Len(h) = n
      BY <1>1, HeaderType
    <2>2. b \in Seq(Bytes)
      BY <1>1, BodyBytes
    <2>3. b \in Seq(Nat) /\ Len(b) \in Nat \ {0}
      BY <1>1, BodyType
    <2> QED
      BY <2>1, <2>2, <2>3
  <1>4. Len(d) = n + Len(b) /\ \A k \in 1 .. Len(b) : d[n + k] = b[k]
    <2> HIDE DEF h, b, n
    <2>1. Len(h \o b) = Len(h) + Len(b) /\ \A k \in 1 .. Len(b) : (h \o b)[Len(h) + k] = b[k]
      BY <1>3, JoinedAt
    <2> QED
      BY <1>3, <2>1
  <1>5. PayloadHeaderLen(codec) = n /\ n \in Nat
    BY DEF PayloadHeaderLen, HeaderLen
  <1>6. EncodeBy(codec, f) = {[data |-> d, marker |-> TRUE, samples |-> 1]}
    <2>1. EncodeBy(codec, f) = {[data |-> x, marker |-> TRUE, samples |-> 1] : x \in Encode(f)}
      BY DEF EncodeBy
    <2> HIDE DEF f, d
    <2> QED
      BY <1>2, <2>1
  <1>7. \A x : DecodeBy(codec, x) = Decode(x)
    BY DEF DecodeBy
  <1>8. ASSUME NEW k \in Nat \ {0}, n + k <= Len(d)
        PROVE  /\ d[n + k] \in Bytes
               /\ \A to \in Bytes : to # d[n + k] => Decode([d EXCEPT ![n + k] = to]) = {}
    <2>1. k \in 1 .. Len(b)
      <3> HIDE DEF n, b, d
      <3> QED
        BY <1>3, <1>4, <1>5, <1>8
    <2>2. d[n + k] \in Bytes
      <3> HIDE DEF n, b, d
      <3> QED
        BY <1>3, <1>4, <2>1, BytesIn
    <2>3. ASSUME NEW to \in Bytes, to # d[n + k] PROVE Decode([d EXCEPT ![n + k] = to]) = {}
      <3>1. /\ HeaderLen + k <= Len(Header(f) \o FrameBody(f))
            /\ (Header(f) \o FrameBody(f))[HeaderLen + k] # to
        BY <1>8, <2>3
      <3> HIDE DEF f
      <3> QED
        BY <1>1, <3>1, FrameAltered
    <2> QED
      BY <2>2, <2>3
  <1> HIDE DEF f, d, n, b, h
  <1>9. Len(d) > n
    BY <1>3, <1>4, <1>5
  <1>10. GuardedPayload(codec, d, f)
    BY <1>2, <1>5, <1>7, <1>8, <1>9 DEF GuardedPayload
  <1> QED
    BY <1>6, <1>10 DEF f

LEMMA AudioSound ==
    /\ IsSound(SyntheticAudio) /\ Taken(SyntheticAudio) = {SyntheticAudio}
    /\ SamplesOf(SyntheticAudio) = FrameSamples
  <1> DEFINE f == SyntheticAudio
             m == 2 * FrameSamples
             d == [k \in 1 .. m |-> k % ByteSpace]
  <1>1. f = [rate |-> DefaultRate, channels |-> 1, data |-> d]
    BY DEF SyntheticAudio
  <1>2. FrameSamples \in Nat \ {0} /\ DefaultRate \in Nat \ {0} /\ m \in Nat \ {0}
    BY SoundAssumption
  <1>3. d \in Seq(Bytes) /\ Len(d) = m
    <2>1. \A k \in 1 .. m : k % ByteSpace \in 0 .. ByteSpace - 1
      BY BytesType, <1>2
    <2> HIDE DEF m
    <2> QED
      BY <1>2, <2>1 DEF Bytes
  <1>4. m % (FrameSamples * 2) = 0 /\ m \div 2 = FrameSamples
    <2>1. (2 * FrameSamples + 0) \div 2 = FrameSamples
      BY <1>2, RemainderIs
    <2> DEFINE e == FrameSamples * 2
    <2>2. e \in Nat \ {0} /\ m = e * 1 + 0 /\ 0 \in 0 .. e - 1 /\ m = m + 0
      BY <1>2
    <2> HIDE DEF e
    <2>3. (e * 1 + 0) % e = 0
      BY <2>2, RemainderIs
    <2> QED
      BY <2>1, <2>2, <2>3 DEF e
  <1>5. d # <<>>
    <2> HIDE DEF d, m
    <2> QED
      BY <1>2, <1>3
  <1> HIDE DEF f, d, m
  <1>6. f.rate = DefaultRate /\ f.channels = 1 /\ f.data = d
    BY <1>1
  <1>7. IsSound(f)
    BY <1>2, <1>3, <1>6 DEF IsSound
  <1>8. Taken(f) = {f}
    <2>1. ~(f.data = <<>> \/ Len(f.data) % (FrameSamples * 2) # 0)
      BY <1>3, <1>4, <1>5, <1>6
    <2>2. f.channels # 2 /\ f.rate # 0
      BY <1>2, <1>6
    <2>3. Taken(f) = {[rate |-> f.rate, channels |-> 1, data |-> f.data]}
      BY <2>1, <2>2 DEF Taken
    <2> QED
      BY <1>1, <1>6, <2>3
  <1>9. SamplesOf(f) = FrameSamples
    BY <1>3, <1>4, <1>6 DEF SamplesOf, ChannelsOf, OrElse, SampleBytes
  <1> QED
    BY <1>7, <1>8, <1>9 DEF f

LEMMA AudioGuarded ==
    ASSUME NEW codec, ~IsVideo(codec)
    PROVE  \E data : /\ GuardedPayload(codec, data, SyntheticAudio)
                     /\ EncodeBy(codec, SyntheticAudio) =
                          {[data |-> data, marker |-> TRUE, samples |-> FrameSamples]}
  <1> DEFINE f == SyntheticAudio
             h == AudioHeader(f)
             b == f.data
             d == h \o b
             n == AudioHeaderLen
  <1>1. IsSound(f) /\ Taken(f) = {f} /\ SamplesOf(f) = FrameSamples
    BY AudioSound
  <1>2. /\ h \in Seq(Nat) /\ Len(h) = n /\ b \in Seq(Nat) /\ b \in Seq(Bytes)
        /\ EncodeAudio(f) = {d} /\ WholeSound(f) /\ DecodeAudio(d) = {f}
    <2> HIDE DEF f
    <2>1. b \in Seq(Nat) /\ b \in Seq(Bytes)
      BY <1>1, SoundType DEF IsSound
    <2>2. /\ h \in Seq(Nat) /\ Len(h) = n /\ WholeSound(f)
          /\ EncodeAudio(f) = IF Taken(f) = {} THEN {} ELSE {d}
      BY <1>1, SoundEncoded
    <2>3. DecodeAudio(d) = {f}
      BY <1>1, SoundDecodes
    <2> QED
      BY <1>1, <2>1, <2>2, <2>3
  <1>3. b # <<>> /\ h[4] = FrameSamples /\ Len(b) \in Nat \ {0}
    <2>1. b # <<>>
      BY <1>2 DEF WholeSound
    <2>2. h[4] = FrameSamples
      BY <1>1 DEF AudioHeader
    <2> HIDE DEF h, b
    <2> QED
      BY <1>2, <2>1, <2>2
  <1>4. /\ Len(d) = n + Len(b) /\ (\A k \in 1 .. n : d[k] = h[k])
        /\ \A k \in 1 .. Len(b) : d[n + k] = b[k]
    <2> HIDE DEF h, b, n
    <2>1. /\ Len(h \o b) = Len(h) + Len(b) /\ (\A k \in 1 .. Len(h) : (h \o b)[k] = h[k])
          /\ \A k \in 1 .. Len(b) : (h \o b)[Len(h) + k] = b[k]
      BY <1>2, Joined, JoinedAt
    <2> QED
      BY <1>2, <2>1
  <1>5. PayloadHeaderLen(codec) = n /\ n = 6
    BY DEF PayloadHeaderLen, AudioHeaderLen
  <1>6. EncodeBy(codec, f) = {[data |-> d, marker |-> TRUE, samples |-> FrameSamples]}
    <2>1. EncodeBy(codec, f) = {[data |-> x, marker |-> TRUE, samples |-> x[4]] : x \in EncodeAudio(f)}
      BY DEF EncodeBy
    <2>2. d[4] = FrameSamples
      BY <1>3, <1>4, <1>5
    <2> HIDE DEF f, d
    <2> QED
      BY <1>2, <2>1, <2>2
  <1>7. \A x : DecodeBy(codec, x) = DecodeAudio(x)
    BY DEF DecodeBy
  <1>8. ASSUME NEW k \in Nat \ {0}, n + k <= Len(d)
        PROVE  /\ d[n + k] \in Bytes
               /\ \A to \in Bytes : to # d[n + k] => DecodeAudio([d EXCEPT ![n + k] = to]) = {}
    <2>1. k \in 1 .. Len(b)
      <3> HIDE DEF n, b, d
      <3> QED
        BY <1>3, <1>4, <1>5, <1>8
    <2>2. d[n + k] \in Bytes
      <3> HIDE DEF n, b, d
      <3> QED
        BY <1>2, <1>4, <2>1, BytesIn
    <2>3. ASSUME NEW to \in Bytes, to # d[n + k] PROVE DecodeAudio([d EXCEPT ![n + k] = to]) = {}
      <3> DEFINE at == n + k
      <3>1. at \in Nat \ {0, 2} /\ at <= Len(d) /\ d[at] # to
        BY <1>5, <1>8, <2>3
      <3>3. to \in Hashes
        BY BytesType
      <3> HIDE DEF f, at
      <3>2. DecodeAudio(Replaced(d, at, to)) = {}
        BY <1>1, <3>1, <3>3, SoundAltered
      <3> QED
        BY <3>2 DEF Replaced, at
    <2> QED
      BY <2>2, <2>3
  <1>10. Len(d) > n /\ d \in Seq(Nat)
    <2> HIDE DEF h, b, n
    <2>1. d \in Seq(Nat)
      BY <1>2
    <2> HIDE DEF d
    <2> QED
      BY <1>3, <1>4, <1>5, <2>1
  <1> HIDE DEF f, d, n, b, h
  <1>9. GuardedPayload(codec, d, f)
    BY <1>2, <1>5, <1>7, <1>8, <1>10 DEF GuardedPayload
  <1> QED
    BY <1>6, <1>9 DEF f

\* Every frame is encoded, to a payload that comes back.
LEMMA FrameGuarded ==
    ASSUME NEW codec, NEW i \in Nat
    PROVE  \E data : /\ GuardedPayload(codec, data, FrameFor(codec, i))
                     /\ EncodeBy(codec, FrameFor(codec, i)) =
                          {[data |-> data, marker |-> TRUE, samples |-> UnitOf(codec)]}
  <1>1. CASE IsVideo(codec)
    BY <1>1, VideoGuarded DEF FrameFor, UnitOf
  <1>2. CASE ~IsVideo(codec)
    BY <1>2, AudioGuarded DEF FrameFor, UnitOf
  <1> QED
    BY <1>1, <1>2

\* What is sent of n frames.
CapturedAs(codec, n, sent) ==
    /\ n \in Nat /\ sent \in [1 .. n -> RtpPackets]
    /\ \A i \in 1 .. n :
          /\ sent[i].payload_type < 128 /\ sent[i].ssrc = 1 + PayloadType(codec)
          /\ sent[i].timestamp = (UnitOf(codec) * (i - 1)) % TsSpace
          /\ GuardedPayload(codec, sent[i].payload, FrameFor(codec, i - 1))
    /\ Capture(codec, n) =
          {[source |-> [i \in 1 .. n |-> FrameFor(codec, i - 1)], rtp |-> sent,
            wire |-> [i \in 1 .. n |-> Wire(sent[i])]]}

LEMMA UnitType == \A codec : UnitOf(codec) \in Nat \ {0}
  BY SoundAssumption DEF UnitOf

LEMMA PayloadTypes ==
    \A codec \in Codecs : PayloadType(codec) \in Nat /\ PayloadType(codec) < 128
  <1>1. PayloadType("vp8") = 96 /\ PayloadType("h264") = 100 /\ PayloadType("opus") = 111
    BY DEF PayloadType
  <1> QED
    BY <1>1 DEF Codecs

LEMMA SourceIs ==
    ASSUME NEW codec, NEW n \in Nat
    PROVE  SourceFrames(codec, n) = [i \in 1 .. n |-> FrameFor(codec, i - 1)]
  BY DEF SourceFrames, FrameFor

LEMMA Captured ==
    ASSUME NEW codec \in Codecs, NEW n \in Nat
    PROVE  \E sent : CapturedAs(codec, n, sent)
  <1> DEFINE source == [i \in 1 .. n |-> FrameFor(codec, i - 1)]
             E(i) == EncodeBy(codec, FrameFor(codec, i - 1))
             packets == [i \in 1 .. n |-> The(E(i))]
             stream == NewStream(codec, 1 + PayloadType(codec))
             unit == UnitOf(codec)
             time(i) == (unit * (i - 1)) % TsSpace
  <1>1. ASSUME NEW i \in 1 .. n
        PROVE  /\ E(i) # {} /\ packets[i].samples = unit /\ packets[i].marker = TRUE
               /\ GuardedPayload(codec, packets[i].data, FrameFor(codec, i - 1))
    <2> DEFINE f == FrameFor(codec, i - 1)
    <2>1. i - 1 \in Nat
      OBVIOUS
    <2>2. PICK data : /\ GuardedPayload(codec, data, f)
                      /\ E(i) = {[data |-> data, marker |-> TRUE, samples |-> unit]}
      BY <2>1, FrameGuarded
    <2> DEFINE p == [data |-> data, marker |-> TRUE, samples |-> unit]
    <2>3. packets[i] = The(E(i))
      OBVIOUS
    <2> HIDE DEF f, E, packets, unit
    <2>4. The(E(i)) = p
      <3> HIDE DEF p
      <3> QED
        BY <2>2, OneOf DEF The, p
    <2>5. p.data = data /\ p.marker = TRUE /\ p.samples = unit
      OBVIOUS
    <2> QED
      BY <2>2, <2>3, <2>4, <2>5 DEF f
  <1>2. PayloadType(codec) \in Nat /\ PayloadType(codec) < 128 /\ unit \in Nat \ {0}
    BY PayloadTypes, UnitType
  <1>3. /\ stream = [ssrc |-> 1 + PayloadType(codec), payload_type |-> PayloadType(codec),
                     next_seq |-> 0, next_ts |-> 0]
    BY DEF NewStream
  <1>4. stream.ssrc = 1 + PayloadType(codec) /\ stream.payload_type = PayloadType(codec)
        /\ stream.next_ts = 0 /\ stream.ssrc \in Nat /\ stream.payload_type \in Nat
    BY <1>2, <1>3
  <1>5. stream \in Streams
    <2>1. 0 \in 0 .. TsSpace - 1
      BY RtpAssumption
    <2> QED
      BY <1>2, <1>3, <2>1 DEF Streams
  <1>6. ToSend(stream, packets, n, unit)
    <2>1. DOMAIN packets = 1 .. n /\ Len(packets) = n
      OBVIOUS
    <2> HIDE DEF packets, stream, unit
    <2> QED
      BY <1>1, <1>2, <1>5, <2>1 DEF ToSend
  <1> DEFINE sent == SendAll(stream, packets)
  <1>7. PICK number \in [1 .. n -> Nat] :
           sent = [i \in 1 .. n |-> SentAs(stream, packets[i], number[i],
                                           (stream.next_ts + unit * (i - 1)) % TsSpace)]
    <2> HIDE DEF packets, stream, unit, sent, E, time, source
    <2>1. \E number \in [1 .. n -> Nat] :
             SendAll(stream, packets) =
                [i \in 1 .. n |-> SentAs(stream, packets[i], number[i],
                                         (stream.next_ts + unit * (i - 1)) % TsSpace)]
      <3>1. IsSent(stream, packets, n, unit)
        BY <1>6, SentAre
      <3> QED
        BY <3>1 DEF IsSent
    <2> QED
      BY <2>1 DEF sent
  <1>8. ASSUME NEW i \in 1 .. n
        PROVE  sent[i] = SentAs(stream, packets[i], number[i], time(i)) /\ time(i) \in Nat
    <2> DEFINE j == i - 1
    <2>1. j \in Nat
      OBVIOUS
    <2> HIDE DEF j, unit
    <2>2. unit * j \in Nat /\ 0 + unit * j = unit * j
      BY <1>2, <2>1
    <2> DEFINE x == unit * j
    <2>3. x \in Nat /\ TsSpace \in Nat \ {0}
      BY <2>2, RtpAssumption
    <2> HIDE DEF x
    <2>4. x % TsSpace \in 0 .. TsSpace - 1
      BY <2>3
    <2>5. x % TsSpace \in Nat
      BY <2>4, <2>3
    <2>6. sent[i] = SentAs(stream, packets[i], number[i], (stream.next_ts + unit * (i - 1)) % TsSpace)
      <3> HIDE DEF sent
      <3> QED
        BY <1>7
    <2> HIDE DEF sent, stream, packets
    <2>7. (stream.next_ts + unit * (i - 1)) = x
      BY <1>4, <2>2 DEF x, j
    <2> QED
      BY <2>5, <2>6, <2>7 DEF x, j
  <1>9. ASSUME NEW i \in 1 .. n
        PROVE  /\ sent[i] \in RtpPackets /\ sent[i].payload_type < 128
               /\ sent[i].ssrc = 1 + PayloadType(codec) /\ sent[i].timestamp = time(i)
               /\ GuardedPayload(codec, sent[i].payload, FrameFor(codec, i - 1))
    <2> DEFINE t == time(i)
               k == number[i]
               p == packets[i]
    <2>1. sent[i] = SentAs(stream, p, k, t) /\ t \in Nat /\ k \in Nat
      BY <1>8
    <2>2. p.marker = TRUE /\ GuardedPayload(codec, p.data, FrameFor(codec, i - 1))
      BY <1>1
    <2>3. p.data \in Seq(Nat)
      BY <2>2 DEF GuardedPayload
    <2> HIDE DEF t, k, p, sent, stream
    <2>4. SentAs(stream, p, k, t) =
            [version |-> Version, payload_type |-> PayloadType(codec), ssrc |-> 1 + PayloadType(codec),
             sequence_number |-> k, timestamp |-> t, marker |-> TRUE, payload |-> p.data]
      BY <1>4, <2>2 DEF SentAs
    <2>5. SentAs(stream, p, k, t) \in RtpPackets
      BY <1>2, <2>1, <2>3, <2>4 DEF RtpPackets
    <2> QED
      BY <1>2, <2>1, <2>2, <2>4, <2>5 DEF t
  <1>10. sent \in [1 .. n -> RtpPackets]
    <2>1. DOMAIN sent = 1 .. n /\ sent = [i \in 1 .. n |-> sent[i]]
      <3> HIDE DEF sent
      <3> QED
        BY <1>7
    <2> HIDE DEF sent
    <2> QED
      BY <1>9, <2>1
  <1>11. ASSUME NEW i \in 1 .. n PROVE Marshal(sent[i]) = {Wire(sent[i])}
    <2>1. sent[i].ssrc # 0
      BY <1>2, <1>9
    <2> HIDE DEF sent
    <2> QED
      BY <1>9, <2>1, PacketBack
  <1>12. Capture(codec, n) = {[source |-> source, rtp |-> sent, wire |-> [i \in 1 .. n |-> Wire(sent[i])]]}
    <2> DEFINE wire == [i \in 1 .. n |-> Marshal(sent[i])]
               encoded == [i \in 1 .. n |-> EncodeBy(codec, source[i])]
    <2>1. Capture(codec, n) =
            IF \E i \in 1 .. n : encoded[i] = {} \/ wire[i] = {} THEN {}
            ELSE {[source |-> source, rtp |-> sent, wire |-> [i \in 1 .. n |-> The(wire[i])]]}
      <3>1. SourceFrames(codec, n) = source
        BY SourceIs
      <3> DEFINE rtp == SendAll(stream, [i \in 1 .. n |-> The(encoded[i])])
      <3>2. DOMAIN source = 1 .. n
        OBVIOUS
      <3>3. \A i \in 1 .. n : encoded[i] = E(i)
        OBVIOUS
      <3>4. [i \in 1 .. n |-> The(encoded[i])] = packets
        <4> HIDE DEF encoded, E
        <4> QED
          BY <3>3
      <3> DEFINE w == [i \in 1 .. n |-> Marshal(rtp[i])]
      <3>5. Capture(codec, n) =
            IF \E i \in 1 .. n : encoded[i] = {} \/ w[i] = {} THEN {}
            ELSE {[source |-> source, rtp |-> rtp, wire |-> [i \in 1 .. n |-> The(w[i])]]}
        <4>1. DOMAIN w = 1 .. n
          OBVIOUS
        <4> HIDE DEF source
        <4> QED
          BY <3>1, <3>2 DEF Capture
      <3>6. rtp = sent
        BY <3>4
      <3>7. w = wire
        <4> HIDE DEF rtp, sent
        <4> QED
          BY <3>6
      <3> HIDE DEF rtp, sent, w, wire, encoded, source
      <3> QED
        BY <3>5, <3>6, <3>7
    <2>2. \A i \in 1 .. n : encoded[i] # {} /\ wire[i] = {Wire(sent[i])}
      <3>1. \A i \in 1 .. n : encoded[i] = E(i) /\ wire[i] = Marshal(sent[i])
        OBVIOUS
      <3> HIDE DEF encoded, wire, E, sent
      <3> QED
        BY <1>1, <1>11, <3>1
    <2>3. [i \in 1 .. n |-> The(wire[i])] = [i \in 1 .. n |-> Wire(sent[i])]
      <3>1. \A i \in 1 .. n : The(wire[i]) = Wire(sent[i])
        <4> HIDE DEF wire, sent
        <4> QED
          BY <2>2, OneOf DEF The
      <3> HIDE DEF wire, sent
      <3> QED
        BY <3>1
    <2> HIDE DEF encoded, wire, sent, source
    <2> QED
      BY <2>1, <2>2, <2>3
  <1> HIDE DEF sent
  <1>13. CapturedAs(codec, n, sent)
    BY <1>9, <1>10, <1>12 DEF CapturedAs
  <1> QED
    BY <1>13

\* No two packets belong to one frame.
Distinct(packets, n) ==
    \A i, j \in 1 .. n : GroupKey(packets[i]) = GroupKey(packets[j]) => i = j

LEMMA HowManyKeys ==
    ASSUME NEW packets, NEW n, Unpackable(packets, n)
    PROVE  /\ Cardinality(KeysOf(packets)) \in Nat
           /\ Cardinality(KeysOf(packets)) = n <=> Distinct(packets, n)
  <1> DEFINE D == 1 .. n
             K == KeysOf(packets)
             f == [i \in D |-> GroupKey(packets[i])]
  <1>1. n \in Nat /\ DOMAIN packets = D
    BY DEF Unpackable
  <1>2. f \in Surjection(D, K)
    <2>1. K = {GroupKey(packets[i]) : i \in D}
      BY <1>1 DEF KeysOf
    <2>2. \A i \in D : f[i] = GroupKey(packets[i])
      OBVIOUS
    <2>3. f \in [D -> K]
      BY <2>1
    <2> HIDE DEF D, K, f
    <2> QED
      BY <2>1, <2>2, <2>3 DEF Surjection
  <1>3. IsFiniteSet(D) /\ Cardinality(D) = n
    <2>1. 1 \in Int /\ n \in Int /\ (IF 1 > n THEN 0 ELSE n - 1 + 1) = n
      BY <1>1
    <2> QED
      BY <2>1, FS_Interval
  <1>4. f \in Injection(D, K) <=> Distinct(packets, n)
    <2>1. \A i \in D : f[i] = GroupKey(packets[i])
      OBVIOUS
    <2>2. f \in [D -> K]
      BY <1>2 DEF Surjection
    <2>3. Distinct(packets, n) <=> \A i, j \in D : f[i] = f[j] => i = j
      BY <2>1 DEF Distinct
    <2> HIDE DEF D, K, f
    <2> QED
      BY <2>2, <2>3 DEF Injection, IsInjective
  <1> HIDE DEF D, K, f
  <1>5. IsFiniteSet(K) /\ (Cardinality(K) = Cardinality(D) <=> f \in Injection(D, K))
    BY <1>2, <1>3, FS_Surjection
  <1>6. Cardinality(K) \in Nat
    BY <1>5, FS_CardinalityType
  <1> QED
    BY <1>3, <1>4, <1>5, <1>6 DEF K

\* Then each of them gives a packet of its own.
LEMMA UnpackedPayload ==
    ASSUME NEW packets, NEW n, Unpackable(packets, n), Distinct(packets, n)
    PROVE  /\ DOMAIN Unpack(packets) = 1 .. n /\ Len(Unpack(packets)) = n
           /\ \A k \in 1 .. n : \E i \in 1 .. n : Unpack(packets)[k].data = packets[i].payload
  <1> DEFINE K == KeysOf(packets)
             o == InOrder(K, KeyOrder(K))
             u == Unpack(packets)
  <1>1. n \in Nat /\ DOMAIN packets = 1 .. n /\ Cardinality(K) = n
    BY HowManyKeys DEF Unpackable
  <1>2. /\ u = [k \in 1 .. Cardinality(K) |-> Merged(packets, o[k])]
        /\ DOMAIN u = 1 .. Cardinality(K) /\ Len(u) = Cardinality(K)
    BY Unpacked
  <1>3. ASSUME NEW k \in 1 .. n PROVE \E i \in 1 .. n : u[k].data = packets[i].payload
    <2>1. IsOrder(K, KeyOrder(K))
      BY KeysType
    <2>2. o[k] \in K
      <3> HIDE DEF K
      <3> QED
        BY <1>1, <2>1, InOrderAt
    <2> DEFINE e == o[k]
    <2>3. PICK i \in 1 .. n : e = GroupKey(packets[i])
      BY <1>1, <2>2 DEF KeysOf
    <2>4. u[k] = Merged(packets, e)
      <3> HIDE DEF K, o, u
      <3> QED
        BY <1>1, <1>2
    <2> HIDE DEF e, K, o, u
    <2>5. GroupOf(packets, e) = {i}
      BY <1>1, <2>3 DEF GroupOf, Distinct
    <2>6. OnlyOne(packets, e, i)
      BY <2>5 DEF OnlyOne
    <2>7. Merged(packets, e).data = packets[i].payload
      BY <2>6, MergedOne
    <2> QED
      BY <2>4, <2>7
  <1> HIDE DEF K, o, u
  <1>4. DOMAIN u = 1 .. n /\ Len(u) = n
    BY <1>1, <1>2
  <1> QED
    BY <1>3, <1>4 DEF u

LEMMA PacketUnpackable ==
    ASSUME NEW packet \in RtpPackets
    PROVE  Unpackable(<<packet>>, 1) /\ Distinct(<<packet>>, 1)
  <1>1. {packet.ssrc, packet.timestamp, packet.sequence_number} \subseteq Nat
        /\ packet.payload \in Seq(Nat)
    BY DEF RtpPackets
  <1> DEFINE s == <<packet>>
  <1>2. DOMAIN s = 1 .. 1 /\ s[1] = packet
    OBVIOUS
  <1>3. \A i \in 1 .. 1 : i = 1
    OBVIOUS
  <1> HIDE DEF s
  <1>4. Unpackable(s, 1)
    BY <1>1, <1>2, <1>3 DEF Unpackable
  <1>5. Distinct(s, 1)
    BY <1>3 DEF Distinct
  <1> QED
    BY <1>4, <1>5 DEF s

\* A packet of one frame gives its payload.
LEMMA OneUnpacked ==
    ASSUME NEW packet \in RtpPackets
    PROVE  /\ DOMAIN Unpack(<<packet>>) = 1 .. 1
           /\ \A k \in 1 .. 1 : Unpack(<<packet>>)[k].data = packet.payload
  <1> DEFINE s == <<packet>>
  <1>1. Unpackable(s, 1) /\ Distinct(s, 1)
    BY PacketUnpackable
  <1>2. \A i \in 1 .. 1 : s[i] = packet
    OBVIOUS
  <1> HIDE DEF s
  <1>3. /\ DOMAIN Unpack(s) = 1 .. 1
        /\ \A k \in 1 .. 1 : \E i \in 1 .. 1 : Unpack(s)[k].data = s[i].payload
    BY <1>1, UnpackedPayload, Zenon
  <1>4. /\ DOMAIN Unpack(s) = 1 .. 1
        /\ \A k \in 1 .. 1 : Unpack(s)[k].data = packet.payload
    BY <1>2, <1>3
  <1> QED
    BY <1>4 DEF s

LEMMA WireHeadType ==
    ASSUME NEW packet \in RtpPackets
    PROVE  WireHead(packet) \in Seq(Nat) /\ Len(WireHead(packet)) = 5
  <1> DEFINE first == (packet.version * 64) % 256
             second == (IF packet.marker THEN 128 ELSE 0) + packet.payload_type
  <1>1. /\ packet.sequence_number \in Nat /\ packet.timestamp \in Nat /\ packet.ssrc \in Nat
        /\ packet.payload_type \in Nat /\ packet.version = 2
    BY DEF RtpPackets, Version
  <1>2. first \in Nat
    <2>1. (2 * 64) % 256 = 128
      OBVIOUS
    <2> QED
      BY <1>1, <2>1
  <1>3. second \in Nat
    <2>1. (IF packet.marker THEN 128 ELSE 0) \in Nat
      OBVIOUS
    <2> QED
      BY <1>1, <2>1
  <1>4. WireHead(packet) = <<first, second, packet.sequence_number, packet.timestamp, packet.ssrc>>
    BY DEF WireHead
  <1> HIDE DEF first, second
  <1> QED
    BY <1>1, <1>2, <1>3, <1>4

LEMMA Inverted ==
    ASSUME NEW x \in Bytes
    PROVE  ByteSpace - 1 - x \in Bytes /\ ByteSpace - 1 - x # x
  <1>1. ByteSpace \in Nat /\ ByteSpace % 2 = 0
    BY BytesType, HashAssumption
  <1>2. x \in 0 .. ByteSpace - 1
    BY DEF Bytes
  <1>3. ByteSpace - 1 - x \in 0 .. ByteSpace - 1 /\ ByteSpace - 1 - x # x
    BY <1>1, <1>2
  <1> QED
    BY <1>3 DEF Bytes

\* The packet with another payload.
WithPayload(packet, payload) ==
    [version |-> packet.version, marker |-> packet.marker, payload_type |-> packet.payload_type,
     sequence_number |-> packet.sequence_number, timestamp |-> packet.timestamp,
     ssrc |-> packet.ssrc, payload |-> payload]

LEMMA OtherPayload ==
    ASSUME NEW packet \in RtpPackets, NEW payload \in Seq(Nat)
    PROVE  /\ WithPayload(packet, payload) \in RtpPackets
           /\ WithPayload(packet, payload).payload = payload
           /\ WithPayload(packet, payload).payload_type = packet.payload_type
           /\ WithPayload(packet, payload).ssrc = packet.ssrc
           /\ Wire(WithPayload(packet, payload)) = WireHead(packet) \o payload
  <1> DEFINE p == WithPayload(packet, payload)
  <1>1. p \in RtpPackets
    BY DEF RtpPackets, WithPayload
  <1>2. /\ p.payload = payload /\ p.payload_type = packet.payload_type /\ p.ssrc = packet.ssrc
        /\ p.version = packet.version /\ p.marker = packet.marker
        /\ p.sequence_number = packet.sequence_number /\ p.timestamp = packet.timestamp
    BY DEF WithPayload
  <1> HIDE DEF p
  <1>3. WireHead(p) = WireHead(packet)
    BY <1>2 DEF WireHead
  <1>4. Wire(p) = WireHead(packet) \o payload
    BY <1>2, <1>3 DEF Wire
  <1> QED
    BY <1>1, <1>2, <1>4 DEF p

\* Where the packet is damaged: behind both headers.
LEMMA Middle ==
    ASSUME NEW a \in Nat, NEW n \in Nat, NEW m \in Nat, m > a
    PROVE  LET k == (5 + m - (5 + a)) \div 2 + 1
           IN  k \in Nat \ {0} /\ a + k <= m /\ a + k \in 1 .. m /\ (5 + a) + k = 5 + (a + k)
  <1> DEFINE l == m - a
             k == l \div 2 + 1
  <1>1. l \in Nat \ {0} /\ m = a + l /\ 5 + m - (5 + a) = l
    OBVIOUS
  <1> HIDE DEF l
  <1>2. l \div 2 \in Nat /\ l \div 2 + 1 <= l
    BY <1>1
  <1>3. k \in Nat \ {0} /\ k <= l
    BY <1>2
  <1>4. (5 + m - (5 + a)) \div 2 + 1 = k
    BY <1>1
  <1> HIDE DEF k
  <1>5. a + k <= m /\ a + k \in 1 .. m /\ (5 + a) + k = 5 + (a + k)
    BY <1>1, <1>3
  <1> QED
    BY <1>3, <1>4, <1>5

LEMMA Guarded ==
    ASSUME NEW codec, NEW packet \in RtpPackets, packet.payload_type < 128, packet.ssrc # 0,
           NEW frame, GuardedPayload(codec, packet.payload, frame),
           NEW wire, wire # <<>>, wire[1] = Wire(packet)
    PROVE  IntegrityGuarded(codec, wire)
  <1> DEFINE w == wire[1]
             a == PayloadHeaderLen(codec)
             d == packet.payload
             header == HeaderItems + a
             k == (Len(w) - header) \div 2 + 1
             x == w[header + k]
             to == ByteSpace - 1 - x
             e == Replaced(d, a + k, to)
             p == WithPayload(packet, e)
  <1>1. a \in Nat
    BY DEF PayloadHeaderLen, HeaderLen, AudioHeaderLen
  <1>0. header \in Nat
    <2> HIDE DEF a
    <2> QED
      BY <1>1 DEF HeaderItems
  <1>2. /\ d \in Seq(Nat) /\ Len(d) > a /\ Len(d) \in Nat
        /\ \A j \in Nat \ {0} : a + j <= Len(d) =>
              /\ d[a + j] \in Bytes
              /\ \A t \in Bytes : t # d[a + j] => DecodeBy(codec, [d EXCEPT ![a + j] = t]) = {}
    <2>1. Len(d) \in Nat
      BY LenProperties DEF GuardedPayload
    <2> QED
      BY <2>1 DEF GuardedPayload
  <1> DEFINE h == WireHead(packet)
  <1>3. h \in Seq(Nat) /\ Len(h) = 5 /\ w = h \o d
    BY WireHeadType DEF Wire
  <1>4. Len(w) = 5 + Len(d) /\ \A i \in 1 .. Len(d) : w[5 + i] = d[i]
    <2> HIDE DEF h, d, w
    <2>1. Len(h \o d) = Len(h) + Len(d) /\ \A i \in 1 .. Len(d) : (h \o d)[Len(h) + i] = d[i]
      BY <1>2, <1>3, JoinedAt
    <2> QED
      BY <1>3, <2>1
  <1>5. /\ k \in Nat \ {0} /\ a + k <= Len(d) /\ a + k \in 1 .. Len(d)
        /\ header + k = 5 + (a + k)
    <2> DEFINE m == Len(d)
    <2>1. m \in Nat /\ m > a /\ Len(w) = 5 + m /\ header = 5 + a
      BY <1>2, <1>4 DEF HeaderItems
    <2> HIDE DEF a, d, m, w, header
    <2>2. LET l == (5 + m - (5 + a)) \div 2 + 1
          IN  l \in Nat \ {0} /\ a + l <= m /\ a + l \in 1 .. m /\ (5 + a) + l = 5 + (a + l)
      BY <1>1, <2>1, Middle
    <2> DEFINE l == (5 + m - (5 + a)) \div 2 + 1
    <2>3. l \in Nat \ {0} /\ a + l <= m /\ a + l \in 1 .. m /\ (5 + a) + l = 5 + (a + l)
      BY <2>2
    <2>4. k = l
      BY <2>1
    <2> HIDE DEF k, l
    <2> QED
      BY <2>1, <2>3, <2>4 DEF m
  <1> DEFINE at == a + k
  <1>6. x = d[at]
    <2> HIDE DEF a, d, w, header, k
    <2> QED
      BY <1>4, <1>5
  <1>7. x \in Bytes
    <2> HIDE DEF d, a, w, k, x
    <2> QED
      BY <1>2, <1>5, <1>6
  <1>8. to \in Bytes /\ to # x /\ to \in Nat
    <2> HIDE DEF x
    <2> QED
      BY <1>7, Inverted, BytesType
  <1>9. e \in Seq(Nat)
    <2> HIDE DEF d, a, k, to
    <2> QED
      BY <1>2, <1>5, <1>8, ReplacedType
  <1>10. DecodeBy(codec, e) = {}
    <2> HIDE DEF d, a, k, to, x
    <2>1. to # d[at]
      BY <1>6, <1>8
    <2>2. DecodeBy(codec, [d EXCEPT ![a + k] = to]) = {}
      BY <1>2, <1>5, <1>8, <2>1
    <2> QED
      BY <2>2 DEF Replaced
  <1>11. Replaced(w, header + k, to) = h \o e
    <2> HIDE DEF d, a, k, to, x, h, w, header
    <2>1. Replaced(h \o d, Len(h) + (a + k), to) = h \o Replaced(d, a + k, to)
      <3>1. h \in Seq(Nat) /\ d \in Seq(Nat) /\ at \in 1 .. Len(d) /\ to \in Nat
        BY <1>2, <1>3, <1>5, <1>8
      <3> HIDE DEF at
      <3>2. Replaced(h \o d, Len(h) + at, to) = h \o Replaced(d, at, to)
        BY <3>1, AlteredAfter
      <3> QED
        BY <3>2 DEF at
    <2> QED
      BY <1>3, <1>5, <2>1
  <1> HIDE DEF e
  <1>12. /\ p \in RtpPackets /\ p.payload = e /\ p.payload_type < 128 /\ p.ssrc # 0
         /\ Wire(p) = h \o e
    <2>1. /\ p \in RtpPackets /\ p.payload = e /\ p.payload_type = packet.payload_type
          /\ p.ssrc = packet.ssrc /\ Wire(p) = h \o e
      BY <1>9, OtherPayload
    <2> HIDE DEF p
    <2> QED
      BY <2>1
  <1> HIDE DEF p
  <1>13. Unmarshal(Replaced(w, header + k, to)) = {p}
    <2>1. Unmarshal(Wire(p)) = {p}
      BY <1>12, PacketBack
    <2> HIDE DEF w, h, header, k, to
    <2> QED
      BY <1>11, <1>12, <2>1
  <1>14. The({p}) = p
    BY OneOf DEF The
  <1>15. \A i \in DOMAIN Unpack(<<p>>) : DecodeBy(codec, Unpack(<<p>>)[i].data) = {}
    <2>1. /\ DOMAIN Unpack(<<p>>) = 1 .. 1
          /\ \A i \in 1 .. 1 : Unpack(<<p>>)[i].data = p.payload
      BY <1>12, OneUnpacked
    <2> QED
      BY <1>10, <1>12, <2>1
  <1> DEFINE place == header + (Len(w) - header) \div 2 + 1
             damaged == [wire[1] EXCEPT ![place] = ByteSpace - 1 - @]
             arrived == Unmarshal(damaged)
  <1>16. damaged = Replaced(w, header + k, to)
    <2>1. place = header + k
      <3> DEFINE half == (Len(w) - header) \div 2
      <3>1. header \in Nat /\ half + 1 \in Nat \ {0} /\ half \in Int
        <4>1. header \in Nat /\ k \in Nat \ {0} /\ Len(w) \in Nat
          <5>1. k \in Nat \ {0}
            BY <1>5, Zenon
          <5>2. Len(w) \in Nat
            <6> HIDE DEF w, d
            <6> QED
              BY <1>2, <1>4
          <5> QED
            BY <1>0, <5>1, <5>2
        <4> HIDE DEF header, w
        <4> QED
          BY <4>1
      <3> HIDE DEF header, half, w
      <3> QED
        BY <3>1 DEF half
    <2> HIDE DEF place
    <2> QED
      BY <2>1 DEF Replaced
  <1>17. arrived = {p}
    <2> HIDE DEF damaged
    <2> QED
      BY <1>13, <1>16
  <1>18. ASSUME arrived # {},
                \A i \in DOMAIN Unpack(<<The(arrived)>>) :
                   DecodeBy(codec, Unpack(<<The(arrived)>>)[i].data) = {}
         PROVE  IntegrityGuarded(codec, wire)
    BY <1>18 DEF IntegrityGuarded
  <1> HIDE DEF arrived
  <1> QED
    BY <1>14, <1>15, <1>17, <1>18

WireOf(sent, n) == [i \in 1 .. n |-> Wire(sent[i])]
SourceOf(codec, n) == [i \in 1 .. n |-> FrameFor(codec, i - 1)]
ReceivedBy(codec, sent) ==
    [k \in DOMAIN Unpack(sent) |-> DecodeBy(codec, Unpack(sent)[k].data)]
ReportOf(codec, sent, n) ==
    [frames_sent |-> n, frames_received |-> Len(ReceivedBy(codec, sent)),
     rtp_headers_checked |-> n,
     lossless |-> SourceOf(codec, n) = [i \in DOMAIN ReceivedBy(codec, sent) |->
                                           The(ReceivedBy(codec, sent)[i])],
     integrity_guarded |-> IntegrityGuarded(codec, WireOf(sent, n))]

\* What verify makes of one capture.
Judged(codec, n, c) ==
    LET back == [i \in DOMAIN c.wire |-> Unmarshal(c.wire[i])]
        payloads == Unpack([i \in DOMAIN back |-> The(back[i])])
        received == [i \in DOMAIN payloads |-> DecodeBy(codec, payloads[i].data)]
    IN  IF \/ \E i \in DOMAIN back : back[i] = {}
           \/ \E i \in DOMAIN received : received[i] = {} THEN {}
        ELSE {[frames_sent |-> n, frames_received |-> Len(received),
               rtp_headers_checked |-> Cardinality({i \in DOMAIN back : back[i] = {c.rtp[i]}}),
               lossless |-> c.source = [i \in DOMAIN received |-> The(received[i])],
               integrity_guarded |-> IntegrityGuarded(codec, c.wire)]}

LEMMA SentBack ==
    ASSUME NEW codec \in Codecs, NEW n, NEW sent, CapturedAs(codec, n, sent)
    PROVE  /\ n \in Nat /\ sent \in [1 .. n -> RtpPackets] /\ Unpackable(sent, n)
           /\ \A i \in 1 .. n : sent[i].ssrc # 0 /\ Unmarshal(Wire(sent[i])) = {sent[i]}
  <1>1. n \in Nat /\ sent \in [1 .. n -> RtpPackets]
    BY DEF CapturedAs
  <1>2. ASSUME NEW i \in 1 .. n
        PROVE  sent[i].ssrc # 0 /\ Unmarshal(Wire(sent[i])) = {sent[i]}
    <2>1. /\ sent[i] \in RtpPackets /\ sent[i].payload_type < 128
          /\ sent[i].ssrc = 1 + PayloadType(codec)
      BY <1>1 DEF CapturedAs
    <2>2. sent[i].ssrc # 0
      BY <2>1, PayloadTypes
    <2> QED
      BY <2>1, <2>2, PacketBack
  <1>3. Unpackable(sent, n)
    <2>1. ASSUME NEW i \in 1 .. n
          PROVE  {sent[i].ssrc, sent[i].timestamp, sent[i].sequence_number} \subseteq Nat
                 /\ sent[i].payload \in Seq(Nat)
      <3>1. sent[i] \in RtpPackets
        BY <1>1
      <3> QED
        BY <3>1 DEF RtpPackets
    <2>2. DOMAIN sent = 1 .. n
      BY <1>1
    <2> QED
      BY <1>1, <2>1, <2>2 DEF Unpackable
  <1> QED
    BY <1>1, <1>2, <1>3

LEMMA VerifyIs ==
    ASSUME NEW codec \in Codecs, NEW n, NEW sent, CapturedAs(codec, n, sent)
    PROVE  Verify(codec, n) =
              IF \E i \in DOMAIN Unpack(sent) : ReceivedBy(codec, sent)[i] = {} THEN {}
              ELSE {ReportOf(codec, sent, n)}
  <1> DEFINE c == [source |-> SourceOf(codec, n), rtp |-> sent, wire |-> WireOf(sent, n)]
  <1>1. Capture(codec, n) = {c}
    BY DEF CapturedAs, SourceOf, WireOf
  <1>2. Verify(codec, n) = UNION {Judged(codec, n, x) : x \in Capture(codec, n)}
    BY DEF Verify, Judged
  <1>3. /\ n \in Nat /\ sent \in [1 .. n -> RtpPackets]
        /\ \A i \in 1 .. n : Unmarshal(Wire(sent[i])) = {sent[i]}
    <2> HIDE DEF c
    <2> QED
      BY SentBack
  <1>4. c.source = SourceOf(codec, n) /\ c.rtp = sent /\ c.wire = WireOf(sent, n)
    OBVIOUS
  <1> HIDE DEF c
  <1>5. Verify(codec, n) = Judged(codec, n, c)
    BY <1>1, <1>2
  <1> DEFINE w == c.wire
             back == [i \in DOMAIN w |-> Unmarshal(w[i])]
             arrived == [i \in DOMAIN back |-> The(back[i])]
             checked == {i \in DOMAIN back : back[i] = {c.rtp[i]}}
  <1>6. DOMAIN w = 1 .. n /\ DOMAIN back = 1 .. n /\ \A i \in 1 .. n : back[i] = {sent[i]}
    BY <1>3, <1>4 DEF WireOf
  <1> HIDE DEF back
  <1>7. arrived = sent
    <2>1. \A i \in 1 .. n : The(back[i]) = sent[i]
      BY <1>6, OneOf DEF The
    <2>2. sent = [i \in 1 .. n |-> sent[i]]
      BY <1>3
    <2> QED
      BY <1>6, <2>1, <2>2
  <1>8. checked = 1 .. n
    BY <1>4, <1>6
  <1>9. Cardinality(1 .. n) = n
    <2>1. 1 \in Int /\ n \in Int /\ (IF 1 > n THEN 0 ELSE n - 1 + 1) = n
      BY <1>3
    <2> QED
      BY <2>1, FS_Interval
  <1>10. ~ \E i \in DOMAIN back : back[i] = {}
    BY <1>6
  <1> HIDE DEF arrived, checked, w
  <1> DEFINE payloads == Unpack(arrived)
             received == [i \in DOMAIN payloads |-> DecodeBy(codec, payloads[i].data)]
             report == [frames_sent |-> n, frames_received |-> Len(received),
                        rtp_headers_checked |-> Cardinality(checked),
                        lossless |-> c.source = [i \in DOMAIN received |-> The(received[i])],
                        integrity_guarded |-> IntegrityGuarded(codec, c.wire)]
  <1>11. Judged(codec, n, c) =
            IF \/ \E i \in DOMAIN back : back[i] = {}
               \/ \E i \in DOMAIN received : received[i] = {} THEN {} ELSE {report}
    BY DEF Judged, back, arrived, checked, w
  <1>12. received = ReceivedBy(codec, sent)
    BY <1>7 DEF ReceivedBy
  <1>13. DOMAIN received = DOMAIN Unpack(sent)
    BY <1>7
  <1> HIDE DEF received
  <1>14. report = ReportOf(codec, sent, n)
    BY <1>4, <1>8, <1>9, <1>12 DEF ReportOf
  <1> HIDE DEF report
  <1> QED
    BY <1>5, <1>10, <1>11, <1>12, <1>13, <1>14

\* No two of n frames have the same time stamp.
TimesDiffer(codec, n) ==
    \A i, j \in 0 .. n - 1 :
        (i * UnitOf(codec)) % TsSpace = (j * UnitOf(codec)) % TsSpace => i = j

LEMMA SentDistinct ==
    ASSUME NEW codec \in Codecs, NEW n, NEW sent, CapturedAs(codec, n, sent)
    PROVE  Distinct(sent, n) <=> TimesDiffer(codec, n)
  <1> DEFINE unit == UnitOf(codec)
             time(k) == (k * unit) % TsSpace
  <1>1. n \in Nat /\ unit \in Nat
    BY UnitType DEF CapturedAs
  <1>2. ASSUME NEW i \in 1 .. n
        PROVE  GroupKey(sent[i]) = <<1 + PayloadType(codec), time(i - 1)>>
    <2>1. sent[i].ssrc = 1 + PayloadType(codec) /\ sent[i].timestamp = (unit * (i - 1)) % TsSpace
      BY DEF CapturedAs
    <2> DEFINE k == i - 1
    <2>2. k \in Nat
      BY <1>1
    <2> HIDE DEF k, unit
    <2>3. unit * k = k * unit
      BY <1>1, <2>2
    <2> HIDE DEF time
    <2>4. sent[i].timestamp = time(k)
      BY <2>1, <2>3 DEF time, k
    <2> QED
      BY <2>1, <2>4 DEF GroupKey, k
  <1> HIDE DEF time
  <1>3. ASSUME NEW i \in 1 .. n, NEW j \in 1 .. n
        PROVE  GroupKey(sent[i]) = GroupKey(sent[j]) <=> time(i - 1) = time(j - 1)
    BY <1>2
  <1>4. ASSUME Distinct(sent, n) PROVE TimesDiffer(codec, n)
    <2>1. ASSUME NEW i \in 0 .. n - 1, NEW j \in 0 .. n - 1, time(i) = time(j) PROVE i = j
      <3>1. i + 1 \in 1 .. n /\ j + 1 \in 1 .. n /\ (i + 1) - 1 = i /\ (j + 1) - 1 = j
        BY <1>1
      <3>2. GroupKey(sent[i + 1]) = GroupKey(sent[j + 1])
        BY <1>3, <2>1, <3>1
      <3>3. i + 1 = j + 1
        BY <1>4, <3>1, <3>2 DEF Distinct
      <3> QED
        BY <1>1, <3>3
    <2> QED
      BY <2>1 DEF TimesDiffer, time
  <1>5. ASSUME TimesDiffer(codec, n) PROVE Distinct(sent, n)
    <2>1. \A i, j \in 0 .. n - 1 : time(i) = time(j) => i = j
      BY <1>5 DEF TimesDiffer, time
    <2>2. ASSUME NEW i \in 1 .. n, NEW j \in 1 .. n, GroupKey(sent[i]) = GroupKey(sent[j])
          PROVE  i = j
      <3>1. i - 1 \in 0 .. n - 1 /\ j - 1 \in 0 .. n - 1
        BY <1>1
      <3>2. time(i - 1) = time(j - 1)
        BY <1>3, <2>2
      <3>3. i - 1 = j - 1
        BY <2>1, <3>1, <3>2
      <3> QED
        BY <1>1, <3>3
    <2> QED
      BY <2>2 DEF Distinct
  <1> QED
    BY <1>4, <1>5

\* So many pictures have different time stamps only when no time stamp wraps around.
LEMMA PicturesInTime ==
    ASSUME NEW codec \in Codecs, IsVideo(codec), NEW n, NEW sent, CapturedAs(codec, n, sent),
           TimesDiffer(codec, n)
    PROVE  InTime(sent, n)
  <1>1. n \in Nat /\ sent \in [1 .. n -> RtpPackets] /\ TsSpace \in Nat \ {0}
    BY RtpAssumption DEF CapturedAs
  <1>2. UnitOf(codec) = 1
    BY DEF UnitOf
  <1>3. \A i, j \in 0 .. n - 1 : (i * 1) % TsSpace = (j * 1) % TsSpace => i = j
    BY <1>2 DEF TimesDiffer
  <1>4. n <= TsSpace
    <2> SUFFICES ASSUME n > TsSpace PROVE FALSE
      BY <1>1
    <2>1. 0 \in 0 .. n - 1 /\ TsSpace \in 0 .. n - 1
      BY <1>1
    <2>2. (0 * 1) % TsSpace = 0
      BY <1>1
    <2>3. (TsSpace * 1) % TsSpace = 0
      <3>1. 0 \in 0 .. TsSpace - 1 /\ 1 \in Nat
        BY <1>1
      <3>2. (TsSpace * 1 + 0) % TsSpace = 0
        BY <1>1, <3>1, RemainderIs
      <3>3. TsSpace * 1 + 0 = TsSpace * 1
        BY <1>1
      <3> QED
        BY <3>2, <3>3
    <2>4. 0 = TsSpace
      BY <1>3, <2>1, <2>2, <2>3
    <2> QED
      BY <1>1, <2>4
  <1>5. ASSUME NEW i \in 1 .. n
        PROVE  sent[i].timestamp = i - 1 /\ sent[i].ssrc = 1 + PayloadType(codec)
    <2>1. sent[i].timestamp = (1 * (i - 1)) % TsSpace /\ sent[i].ssrc = 1 + PayloadType(codec)
      BY <1>2 DEF CapturedAs
    <2> DEFINE k == i - 1
    <2>2. k \in Nat /\ k < TsSpace /\ 1 * k = k
      BY <1>1, <1>4
    <2> HIDE DEF k
    <2>3. k % TsSpace = k
      BY <1>1, <2>2, WholeDivision
    <2> QED
      BY <2>1, <2>2, <2>3 DEF k
  <1>6. \A i \in 1 .. n : sent[i] \in RtpPackets
    BY <1>1
  <1>7. \A i, j \in 1 .. n : i < j => sent[i].timestamp < sent[j].timestamp
    <2>1. ASSUME NEW i \in 1 .. n, NEW j \in 1 .. n, i < j
          PROVE  sent[i].timestamp < sent[j].timestamp
      <3>1. i - 1 < j - 1
        BY <1>1, <2>1
      <3>2. sent[i].timestamp = i - 1 /\ sent[j].timestamp = j - 1
        BY <1>5
      <3> QED
        BY <3>1, <3>2
    <2> QED
      BY <2>1
  <1>8. \A i, j \in 1 .. n : sent[i].ssrc = sent[j].ssrc
    BY <1>5
  <1> QED
    BY <1>1, <1>6, <1>7, <1>8 DEF InTime

\* The n frames come out one by one.
AllBack(codec, n, sent) ==
    /\ DOMAIN Unpack(sent) = 1 .. n
    /\ \A k \in 1 .. n : DecodeBy(codec, Unpack(sent)[k].data) = {FrameFor(codec, k - 1)}

LEMMA SoundsReceived ==
    ASSUME NEW codec \in Codecs, ~IsVideo(codec), NEW n, NEW sent, CapturedAs(codec, n, sent),
           Distinct(sent, n)
    PROVE  AllBack(codec, n, sent)
  <1>1. Unpackable(sent, n)
    BY SentBack
  <1>2. /\ DOMAIN Unpack(sent) = 1 .. n
        /\ \A k \in 1 .. n : \E i \in 1 .. n : Unpack(sent)[k].data = sent[i].payload
    BY <1>1, UnpackedPayload
  <1>3. ASSUME NEW i \in 1 .. n PROVE DecodeBy(codec, sent[i].payload) = {SyntheticAudio}
    <2>1. GuardedPayload(codec, sent[i].payload, FrameFor(codec, i - 1))
      BY DEF CapturedAs
    <2>2. DecodeBy(codec, sent[i].payload) = {FrameFor(codec, i - 1)}
      BY <2>1 DEF GuardedPayload
    <2> QED
      BY <2>2 DEF FrameFor
  <1>4. \A k \in 1 .. n : DecodeBy(codec, Unpack(sent)[k].data) = {SyntheticAudio}
    BY <1>2, <1>3
  <1>5. \A k \in 1 .. n : FrameFor(codec, k - 1) = SyntheticAudio
    BY DEF FrameFor
  <1> QED
    BY <1>2, <1>4, <1>5 DEF AllBack

LEMMA PicturesReceived ==
    ASSUME NEW codec \in Codecs, NEW n, NEW sent, CapturedAs(codec, n, sent), InTime(sent, n)
    PROVE  AllBack(codec, n, sent)
  <1> DEFINE same == [k \in 1 .. n |-> k]
             came == {same[k] : k \in 1 .. n}
             key == [i \in came |-> GroupKey(sent[i])]
             u == Unpack(sent)
  <1>1. n \in Nat /\ sent \in [1 .. n -> RtpPackets] /\ Unpackable(sent, n)
    BY SentBack
  <1>2. Arrive(sent, n, sent, n, same)
    <2>1. \A k \in 1 .. n : same[k] = k
      OBVIOUS
    <2>2. same \in [1 .. n -> 1 .. n]
      OBVIOUS
    <2>3. sent = [k \in 1 .. n |-> sent[k]]
      BY <1>1
    <2> HIDE DEF same
    <2>4. sent = [k \in 1 .. n |-> sent[same[k]]]
      BY <2>1, <2>3
    <2> QED
      BY <1>1, <2>2, <2>4 DEF Arrive
  <1>3. came = 1 .. n /\ \A k \in 1 .. n : same[k] = k
    OBVIOUS
  <1>4. /\ Transfers(key, came, ByPlace(came), KeysOf(sent), KeyOrder(KeysOf(sent)))
        /\ \A i \in came : GroupOf(sent, key[i]) = {k \in 1 .. n : same[k] = i}
    <2> HIDE DEF same
    <2>1. ArrivedAs(sent, n, sent, n, same)
      BY <1>2, ArrivedInTime
    <2> QED
      BY <2>1 DEF ArrivedAs
  <1> HIDE DEF same, key, came, u
  <1>5. Cardinality(came) = n
    <2>1. 1 \in Int /\ n \in Int /\ (IF 1 > n THEN 0 ELSE n - 1 + 1) = n
      BY <1>1
    <2> QED
      BY <1>3, <2>1, FS_Interval
  <1>6. /\ DOMAIN u = 1 .. n
        /\ \A i \in came : u[Rank(came, ByPlace(came), i) + 1] = Merged(sent, key[i])
    BY <1>1, <1>4, <1>5, UnpackedAt DEF u
  <1>7. ASSUME NEW k \in 1 .. n PROVE DecodeBy(codec, u[k].data) = {FrameFor(codec, k - 1)}
    <2>1. Rank(came, ByPlace(came), k) + 1 = Cardinality({j \in came : j <= k})
      <3>1. came \in SUBSET (1 .. n) /\ k \in came
        BY <1>3
      <3> QED
        BY <1>1, <3>1, PlacesOrder
    <2>2. {j \in came : j <= k} = 1 .. k
      BY <1>1, <1>3
    <2>3. Cardinality(1 .. k) = k
      <3>1. 1 \in Int /\ k \in Int /\ (IF 1 > k THEN 0 ELSE k - 1 + 1) = k
        BY <1>1
      <3> QED
        BY <3>1, FS_Interval
    <2>4. u[k] = Merged(sent, key[k])
      <3>1. Rank(came, ByPlace(came), k) + 1 = k
        BY <2>1, <2>2, <2>3
      <3>2. u[Rank(came, ByPlace(came), k) + 1] = Merged(sent, key[k])
        BY <1>3, <1>6
      <3> QED
        BY <3>1, <3>2
    <2>5. GroupOf(sent, key[k]) = {k}
      BY <1>3, <1>4
    <2>6. OnlyOne(sent, key[k], k)
      BY <2>5 DEF OnlyOne
    <2>7. Merged(sent, key[k]).data = sent[k].payload
      BY <1>1, <2>6, MergedOne
    <2>8. GuardedPayload(codec, sent[k].payload, FrameFor(codec, k - 1))
      BY DEF CapturedAs
    <2>9. DecodeBy(codec, sent[k].payload) = {FrameFor(codec, k - 1)}
      BY <2>8 DEF GuardedPayload
    <2> QED
      BY <2>4, <2>7, <2>9
  <1> QED
    BY <1>6, <1>7 DEF AllBack, u

LEMMA ReportPasses ==
    ASSUME NEW codec \in Codecs, NEW n, n # 0, NEW sent, CapturedAs(codec, n, sent),
           AllBack(codec, n, sent)
    PROVE  \E report \in Verify(codec, n) : Ok(report)
  <1> DEFINE r == ReceivedBy(codec, sent)
             f == [i \in 1 .. n |-> FrameFor(codec, i - 1)]
             w == WireOf(sent, n)
             report == ReportOf(codec, sent, n)
  <1>1. n \in Nat \ {0} /\ sent \in [1 .. n -> RtpPackets]
    BY SentBack
  <1>2. DOMAIN r = 1 .. n /\ \A k \in 1 .. n : r[k] = {f[k]} /\ r[k] # {}
    BY DEF AllBack, ReceivedBy
  <1>3. r = [k \in 1 .. n |-> r[k]]
    BY DEF AllBack, ReceivedBy
  <1>4. Len(r) = n
    <2> HIDE DEF r
    <2> QED
      BY <1>1, <1>3
  <1>5. SourceOf(codec, n) = [i \in DOMAIN r |-> The(r[i])]
    <2>1. SourceOf(codec, n) = f
      BY DEF SourceOf
    <2>2. f = [i \in 1 .. n |-> f[i]]
      OBVIOUS
    <2> HIDE DEF f, r
    <2>3. \A k \in 1 .. n : The(r[k]) = f[k]
      BY <1>2, OneOf DEF The
    <2> QED
      BY <1>2, <2>1, <2>2, <2>3
  <1>6. IntegrityGuarded(codec, w)
    <2>1. 1 \in 1 .. n
      BY <1>1
    <2>2. w # <<>> /\ w[1] = Wire(sent[1])
      BY <2>1 DEF WireOf
    <2>3. /\ sent[1] \in RtpPackets /\ sent[1].payload_type < 128
          /\ GuardedPayload(codec, sent[1].payload, FrameFor(codec, 1 - 1))
      BY <1>1, <2>1 DEF CapturedAs
    <2>4. sent[1].ssrc # 0
      BY <2>1, SentBack
    <2> DEFINE frame == FrameFor(codec, 1 - 1)
    <2> HIDE DEF w, frame
    <2> QED
      BY <2>2, <2>3, <2>4, Guarded DEF frame
  <1>7. Verify(codec, n) = {report}
    <2>1. ~ \E i \in DOMAIN Unpack(sent) : r[i] = {}
      <3>1. DOMAIN Unpack(sent) = 1 .. n
        BY DEF AllBack
      <3> HIDE DEF r
      <3> QED
        BY <1>2, <3>1
    <2> QED
      BY <2>1, VerifyIs
  <1>8. /\ report.frames_sent = n /\ report.frames_received = Len(r)
        /\ report.rtp_headers_checked = n
        /\ report.lossless = (SourceOf(codec, n) = [i \in DOMAIN r |-> The(r[i])])
        /\ report.integrity_guarded = IntegrityGuarded(codec, w)
    BY DEF ReportOf
  <1> HIDE DEF report, r, w
  <1>9. Ok(report)
    BY <1>4, <1>5, <1>6, <1>8 DEF Ok
  <1> QED
    BY <1>7, <1>9

LEMMA ReportFails ==
    ASSUME NEW codec \in Codecs, NEW n, NEW sent, CapturedAs(codec, n, sent),
           NEW report \in Verify(codec, n), Ok(report)
    PROVE  n # 0 /\ Distinct(sent, n)
  <1> DEFINE r == ReceivedBy(codec, sent)
             w == WireOf(sent, n)
  <1>1. report = ReportOf(codec, sent, n)
    BY VerifyIs
  <1>2. n \in Nat /\ Unpackable(sent, n)
    BY SentBack
  <1>3. /\ report.frames_sent = n /\ report.frames_received = Len(r)
        /\ report.integrity_guarded = IntegrityGuarded(codec, w)
    BY <1>1 DEF ReportOf
  <1>4. Len(r) = n /\ IntegrityGuarded(codec, w)
    <2> HIDE DEF r, w
    <2> QED
      BY <1>3 DEF Ok
  <1>5. n # 0
    <2>1. w # <<>>
      <3> HIDE DEF w
      <3> QED
        BY <1>4 DEF IntegrityGuarded
    <2>2. n = 0 => w = <<>>
      BY DEF WireOf
    <2> QED
      BY <2>1, <2>2
  <1>6. Cardinality(KeysOf(sent)) = n
    <2> DEFINE m == Cardinality(KeysOf(sent))
    <2>1. DOMAIN Unpack(sent) = 1 .. m /\ m \in Nat
      BY <1>2, Unpacked
    <2> HIDE DEF m
    <2>2. r = [k \in 1 .. m |-> DecodeBy(codec, Unpack(sent)[k].data)]
      BY <2>1 DEF ReceivedBy
    <2>3. Len(r) = m
      <3> HIDE DEF r
      <3> QED
        BY <2>1, <2>2
    <2> QED
      BY <1>4, <2>3 DEF m
  <1> QED
    BY <1>2, <1>5, <1>6, HowManyKeys

\* verify passes while no two frames have the same time stamp.
LEMMA VerifyPasses ==
    ASSUME NEW codec \in Codecs, NEW n \in Nat
    PROVE  (\E report \in Verify(codec, n) : Ok(report)) <=> n # 0 /\ TimesDiffer(codec, n)
  <1>1. PICK sent : CapturedAs(codec, n, sent)
    BY Captured
  <1>2. Distinct(sent, n) <=> TimesDiffer(codec, n)
    BY <1>1, SentDistinct
  <1>3. ASSUME n # 0, TimesDiffer(codec, n)
        PROVE  \E report \in Verify(codec, n) : Ok(report)
    <2>1. CASE IsVideo(codec)
      <3>1. InTime(sent, n)
        BY <1>1, <1>3, <2>1, PicturesInTime
      <3>2. AllBack(codec, n, sent)
        BY <1>1, <3>1, PicturesReceived
      <3> QED
        BY <1>1, <1>3, <3>2, ReportPasses
    <2>2. CASE ~IsVideo(codec)
      <3>1. AllBack(codec, n, sent)
        BY <1>1, <1>2, <1>3, <2>2, SoundsReceived
      <3> QED
        BY <1>1, <1>3, <3>1, ReportPasses
    <2> QED
      BY <2>1, <2>2
  <1>4. ASSUME NEW report \in Verify(codec, n), Ok(report) PROVE n # 0 /\ TimesDiffer(codec, n)
    <2>1. n # 0 /\ Distinct(sent, n)
      BY <1>1, <1>4, ReportFails
    <2> QED
      BY <1>2, <2>1
  <1> QED
    BY <1>3, <1>4

LEMMA CheckPassed ==
    ASSUME NEW c \in VerifyCalls
    PROVE  LET step == IF IsVideo(c.codec) THEN 1 ELSE FrameSamples
               sent == 0 .. c.frames - 1
           IN  (\E report \in Verify(c.codec, c.frames) : Ok(report)) <=>
                   (c.frames # 0 /\ \A i, j \in sent :
                       (i * step) % TsSpace = (j * step) % TsSpace => i = j)
  <1>1. c.codec \in Codecs /\ c.frames \in 0 .. TsSpace + 1
    BY DEF VerifyCalls
  <1>2. c.frames \in Nat
    BY <1>1, RtpAssumption
  <1>3. (\E report \in Verify(c.codec, c.frames) : Ok(report)) <=>
            c.frames # 0 /\ TimesDiffer(c.codec, c.frames)
    BY <1>1, <1>2, VerifyPasses
  <1> QED
    BY <1>3 DEF TimesDiffer, UnitOf

------------------------------------------------------------------------------
(* The calls of the media path.                                            *)

\* Passed, while no two frames have the same time stamp.
Passed(c, r) ==
    LET step == IF IsVideo(c.codec) THEN 1 ELSE FrameSamples
        sent == 0 .. c.frames - 1
    IN  (\E report \in r : Ok(report)) <=>
            (c.frames # 0 /\ \A i, j \in sent :
                (i * step) % TsSpace = (j * step) % TsSpace => i = j)

\* In the order in which they were sent.
AsSent(c, r) ==
    LET came == Range(c.arrivals)
        place(i) == Cardinality({j \in came : j <= i})
        Times(i) == Cardinality({k \in DOMAIN c.arrivals : c.arrivals[k] = i})
    IN  /\ Len(r) = Cardinality(came)
        /\ \A i \in came :
              r[place(i)] = IF Times(i) = 1 THEN {FrameOf(c.frames[i])} ELSE {}

\* What the answer to the call is to be.
MediaWell(c, r) ==
    /\ c.fn = "round_trip" /\ c.frame.width % 2 = 0 /\ c.frame.height % 2 = 0 => r = {c.frame}
    /\ c.fn = "sound" => r = Taken(c.sound)
    /\ c.fn = "wire" => r = {p \in {c.packet} : p.payload_type < 128 /\ p.ssrc # 0}
    /\ c.fn = "altered" => r = {}
    /\ c.fn = "altered_sound" /\ c.at # 2 => r = {}
    /\ c.fn = "verify" => Passed(c, r)
    /\ c.fn = "receive" /\ c.ts + c.samples * (Len(c.frames) - 1) < TsSpace => AsSent(c, r)
    /\ c.fn = "unpack" => PartsAsSent(c, r)
    /\ c.fn = "unpack" => \A other \in SetToSeqs(Range(c.packets)) : r = Unpack(other)

MediaAnsweredWell == \A r \in result : MediaWell(call, r)

LEMMA MediaNames ==
    /\ \A c \in RoundTripCalls : c.fn = "round_trip"
    /\ \A c \in AlteredCalls : c.fn = "altered"
    /\ \A c \in StreamCalls : c.fn = "receive"
    /\ \A c \in UnpackCalls : c.fn = "unpack"
    /\ \A c \in WireCalls : c.fn = "wire"
    /\ \A c \in SoundCalls : c.fn = "sound"
    /\ \A c \in AlteredSoundCalls : c.fn = "altered_sound"
    /\ \A c \in VerifyCalls : c.fn = "verify"
  <1>1. \A c \in RoundTripCalls : c.fn = "round_trip"
    BY DEF RoundTripCalls
  <1>2. \A c \in AlteredCalls : c.fn = "altered"
    BY DEF AlteredCalls
  <1>3. \A c \in StreamCalls : c.fn = "receive"
    BY DEF StreamCalls
  <1>4. \A c \in UnpackCalls : c.fn = "unpack"
    BY DEF UnpackCalls
  <1>5. \A c \in WireCalls : c.fn = "wire"
    BY DEF WireCalls
  <1>6. \A c \in SoundCalls : c.fn = "sound"
    BY DEF SoundCalls
  <1>7. \A c \in AlteredSoundCalls : c.fn = "altered_sound"
    BY DEF AlteredSoundCalls
  <1>8. \A c \in VerifyCalls : c.fn = "verify"
    BY DEF VerifyCalls
  <1> QED
    BY <1>1, <1>2, <1>3, <1>4, <1>5, <1>6, <1>7, <1>8

MediaFunctions ==
    {"round_trip", "altered", "receive", "unpack", "wire", "sound", "altered_sound", "verify"}

LEMMA MediaCalledAs ==
    ASSUME MediaInit
    PROVE  /\ call.fn \in MediaFunctions
           /\ call.fn = "round_trip" => call \in RoundTripCalls
           /\ call.fn = "altered" => call \in AlteredCalls /\ MayAlter(call)
           /\ call.fn = "receive" =>
                 call \in StreamCalls /\ Range(call.arrivals) \subseteq DOMAIN call.frames
           /\ call.fn = "unpack" => call \in UnpackCalls /\ IsInjective(call.packets)
           /\ call.fn = "wire" => call \in WireCalls
           /\ call.fn = "sound" => call \in SoundCalls
           /\ call.fn = "altered_sound" => call \in AlteredSoundCalls /\ MayAlterSound(call)
           /\ call.fn = "verify" => call \in VerifyCalls
  BY MediaNames DEF MediaInit, MediaFunctions

LEMMA MediaCallAnswered ==
    ASSUME MediaInit, MediaNext, UNCHANGED call PROVE MediaAnsweredWell'
  <1> SUFFICES ASSUME NEW r \in result' PROVE MediaWell(call, r)
    BY DEF MediaAnsweredWell
  <1>1. CASE call.fn = "round_trip"
    <2>1. r = Decoded(call) /\ call \in RoundTripCalls
      BY <1>1, MediaCalledAs DEF MediaNext
    <2> QED
      BY <1>1, <2>1, FramesBack DEF MediaWell
  <1>2. CASE call.fn = "altered"
    <2>1. r = Decoded(call) /\ call \in AlteredCalls /\ MayAlter(call)
      BY <1>2, MediaCalledAs DEF MediaNext
    <2> QED
      BY <1>2, <2>1, AlteredFrame DEF MediaWell
  <1>3. CASE call.fn = "receive"
    <2>1. /\ r = Received(call) /\ call \in StreamCalls
          /\ Range(call.arrivals) \subseteq DOMAIN call.frames
      BY <1>3, MediaCalledAs DEF MediaNext
    <2>2. ASSUME call.ts + call.samples * (Len(call.frames) - 1) < TsSpace PROVE AsSent(call, r)
      BY <2>1, <2>2, StreamInOrder DEF AsSent
    <2> QED
      BY <1>3, <2>2 DEF MediaWell
  <1>4. CASE call.fn = "unpack"
    <2>1. r = Unpack(call.packets) /\ call \in UnpackCalls /\ IsInjective(call.packets)
      BY <1>4, MediaCalledAs DEF MediaNext
    <2>2. \A other \in SetToSeqs(Range(call.packets)) : r = Unpack(other)
      BY <2>1, AnyArrivalOrder
    <2>3. PartsAsSent(call, r)
      BY <2>1, FragmentsRestored
    <2> QED
      BY <1>4, <2>2, <2>3 DEF MediaWell
  <1>5. CASE call.fn = "wire"
    <2>1. r = UNION {Unmarshal(w) : w \in Marshal(call.packet)} /\ call \in WireCalls
      BY <1>5, MediaCalledAs DEF MediaNext
    <2>2. r = {p \in {call.packet} : p.payload_type < 128 /\ p.ssrc # 0}
      BY <2>1, WireBack
    <2> QED
      BY <1>5, <2>2 DEF MediaWell
  <1>6. CASE call.fn = "sound"
    <2>1. r = Heard(call) /\ call \in SoundCalls
      BY <1>6, MediaCalledAs DEF MediaNext
    <2> QED
      BY <1>6, <2>1, SoundBack DEF MediaWell
  <1>7. CASE call.fn = "altered_sound"
    <2>1. r = Heard(call) /\ call \in AlteredSoundCalls /\ MayAlterSound(call)
      BY <1>7, MediaCalledAs DEF MediaNext
    <2> QED
      BY <1>7, <2>1, AlteredSound DEF MediaWell
  <1>8. CASE call.fn = "verify"
    <2>1. r = Verify(call.codec, call.frames) /\ call \in VerifyCalls
      BY <1>8, MediaCalledAs DEF MediaNext
    <2>2. Passed(call, r)
      BY <2>1, CheckPassed DEF Passed
    <2> QED
      BY <1>8, <2>2 DEF MediaWell
  <1> QED
    BY <1>1, <1>2, <1>3, <1>4, <1>5, <1>6, <1>7, <1>8, MediaCalledAs DEF MediaFunctions

------------------------------------------------------------------------------
(* Every call.                                                              *)

SfuFunctions ==
    {"nack", "evaluate_recovery", "recover", "route", "ice", "codec", "benchmark"}

NodeFunctions == {"load_from", "publish"}

LEMMA SfuNames == SfuInit => call.fn \in SfuFunctions
  BY DEF SfuInit, SfuFunctions, NackCalls, RecoveryCalls, SimulationCalls, RequestCalls,
         IceCalls, CodecCalls, CapacityCalls

LEMMA NodeNames == NodeInit => call.fn \in NodeFunctions
  <1>1. CASE call \in SettingsCalls
    <2>1. \A D, L, E : \A x \in [fn : {"load_from"}, default : D, local : L, env : E] :
             x.fn = "load_from"
      OBVIOUS
    <2>2. call.fn = "load_from"
      BY <1>1, <2>1, Zenon DEF SettingsCalls
    <2> QED
      BY <2>2 DEF NodeFunctions
  <1>2. CASE call \in BusCalls
    BY <1>2 DEF BusCalls, NodeFunctions
  <1> QED
    BY <1>1, <1>2 DEF NodeInit

\* A call of one family takes a step of that family.
LEMMA OwnStep ==
    /\ SfuNext => call.fn \in SfuFunctions
    /\ NodeNext => call.fn \in NodeFunctions
    /\ MediaNext => call.fn \in MediaFunctions
  BY DEF SfuNext, NodeNext, MediaNext, SfuFunctions, NodeFunctions, MediaFunctions

LEMMA FamiliesApart ==
    ASSUME NEW fn
    PROVE  /\ fn \in SfuFunctions => fn \notin NodeFunctions /\ fn \notin MediaFunctions
           /\ fn \in NodeFunctions => fn \notin SfuFunctions /\ fn \notin MediaFunctions
           /\ fn \in MediaFunctions => fn \notin SfuFunctions /\ fn \notin NodeFunctions
  BY DEF SfuFunctions, NodeFunctions, MediaFunctions

\* The call is one of those listed, and its answer, once there, is as it is to be.
EachAnswered ==
    /\ SfuInit \/ NodeInit \/ MediaInit
    /\ AnsweredWell /\ NodeAnsweredWell /\ MediaAnsweredWell

LEMMA AnsweredAtFirst == Init => EachAnswered
  BY DEF Init, EachAnswered, AnsweredWell, NodeAnsweredWell, MediaAnsweredWell

LEMMA AnsweredNext ==
    ASSUME EachAnswered, SfuNext \/ NodeNext \/ MediaNext, UNCHANGED call PROVE EachAnswered'
  <1>1. SfuInit' \/ NodeInit' \/ MediaInit'
    <2>1. SfuInit => SfuInit'
      BY DEF SfuInit
    <2>2. NodeInit => NodeInit'
      BY DEF NodeInit
    <2>3. MediaInit => MediaInit'
      BY DEF MediaInit, MayAlter, MayAlterSound, EncodedSound
    <2> QED
      BY <2>1, <2>2, <2>3 DEF EachAnswered
  <1>2. /\ call.fn \notin SfuFunctions => AnsweredWell'
        /\ call.fn \notin NodeFunctions => NodeAnsweredWell'
        /\ call.fn \notin MediaFunctions => MediaAnsweredWell'
    <2>1. /\ call.fn \notin SfuFunctions => AnsweredWell'
          /\ call'.fn \notin NodeFunctions => NodeAnsweredWell'
          /\ call'.fn \notin MediaFunctions => MediaAnsweredWell'
      <3>1. call.fn \notin SfuFunctions => AnsweredWell'
        BY DEF SfuFunctions, AnsweredWell
      <3>2. call'.fn \notin NodeFunctions => NodeAnsweredWell'
        BY DEF NodeFunctions, NodeAnsweredWell
      <3>3. call'.fn \notin MediaFunctions => MediaAnsweredWell'
        BY DEF MediaFunctions, MediaAnsweredWell, MediaWell
      <3> QED
        BY <3>1, <3>2, <3>3
    <2> QED
      BY <2>1
  <1>3. CASE SfuInit
    <2>1. call.fn \in SfuFunctions
      BY <1>3, SfuNames
    <2>2. SfuNext
      BY <2>1, FamiliesApart, OwnStep
    <2>3. AnsweredWell'
      BY <1>3, <2>2, CallAnswered
    <2> QED
      BY <1>1, <1>2, <2>1, <2>3, FamiliesApart DEF EachAnswered
  <1>4. CASE NodeInit
    <2>1. call.fn \in NodeFunctions
      BY <1>4, NodeNames
    <2>2. NodeNext
      BY <2>1, FamiliesApart, OwnStep
    <2>3. NodeAnsweredWell'
      BY <1>4, <2>2, NodeCallAnswered
    <2> QED
      BY <1>1, <1>2, <2>1, <2>3, FamiliesApart DEF EachAnswered
  <1>5. CASE MediaInit
    <2>1. call.fn \in MediaFunctions
      BY <1>5, MediaCalledAs
    <2>2. MediaNext
      BY <2>1, FamiliesApart, OwnStep
    <2>3. MediaAnsweredWell'
      BY <1>5, <2>2, MediaCallAnswered
    <2> QED
      BY <1>1, <1>2, <2>1, <2>3, FamiliesApart DEF EachAnswered
  <1> QED
    BY <1>3, <1>4, <1>5 DEF EachAnswered

\* Whatever is called, and with whatever of the arguments that are listed, returns
\* what it is to return.
THEOREM CallsAnswered == Spec => []EachAnswered
  <1>1. Init => EachAnswered
    BY AnsweredAtFirst
  <1>2. ASSUME EachAnswered, [Next]_vars PROVE EachAnswered'
    <2>1. CASE Next
      BY <1>2, <2>1, AnsweredNext DEF Next
    <2>2. CASE UNCHANGED vars
      <3>1. (SfuInit \/ NodeInit \/ MediaInit)'
        BY <1>2, <2>2 DEF vars, EachAnswered, SfuInit, NodeInit, MediaInit, MayAlter, MayAlterSound,
                          EncodedSound
      <3>2. AnsweredWell' /\ NodeAnsweredWell'
        BY <1>2, <2>2 DEF vars, EachAnswered, AnsweredWell, NodeAnsweredWell
      <3>3. MediaAnsweredWell'
        BY <1>2, <2>2 DEF vars, EachAnswered, MediaAnsweredWell
      <3> QED
        BY <3>1, <3>2, <3>3 DEF EachAnswered
    <2> QED
      BY <1>2, <2>1, <2>2
  <1> QED
    BY <1>1, <1>2, PTL DEF Spec

\* A packet is sent again as often as it is asked for, up to the limit, when it is
\* the last under its number and none that was recorded after it throws it out.
THEOREM NacksWithinLimit == Spec => []AnswersWithinLimit
  <1>1. EachAnswered => AnswersWithinLimit
    BY DEF EachAnswered, AnsweredWell, AnswersWithinLimit, AnsweredOften
  <1> QED
    BY <1>1, CallsAnswered, PTL

\* What is computed for a missing packet is what was sent with it, and who uses
\* both means asks for nothing again when one packet is missing, and otherwise for
\* all that were reported lost, unless packets have come twice.
THEOREM GroupsRecovered == Spec => []GroupRecovered
  <1>1. EachAnswered => GroupRecovered
    BY DEF EachAnswered, AnsweredWell, Restored, GroupRecovered, RecoveredIsTrue, SingleLossRecovered
  <1> QED
    BY <1>1, CallsAnswered, PTL

\* Redundant packets recover exactly the losses that are alone in their groups, the
\* counts of a simulation are not below zero, and a loss less is not worse.
THEOREM SimulationsSound == Spec => []SimulationSound
  <1>1. EachAnswered => SimulationSound
    BY DEF EachAnswered, AnsweredWell, SimulationSound, Sound
  <1> QED
    BY <1>1, CallsAnswered, PTL

\* Every request with a path goes where its first three words say: RoutedAsAsked
\* of every run with any words.
THEOREM RequestsRouted == Spec => []RoutedAsAsked
  <1>1. EachAnswered => RoutedAsAsked
    BY DEF EachAnswered, AnsweredWell, RoutedAsAsked, Routed, Asks, WordAt, OtherAt, OthersUpTo, Others
  <1> QED
    BY <1>1, CallsAnswered, PTL

\* A peer is given only servers inside the networks that it was checked against,
\* and every relay when it will be relayed.
THEOREM ServersReach == Spec => []GivenServersReach
  <1>1. EachAnswered => GivenServersReach
    BY DEF EachAnswered, AnsweredWell, GivenServersReach, Served
  <1> QED
    BY <1>1, CallsAnswered, PTL

\* The encoder that is chosen exists, was found, and is the first that was.
THEOREM EncoderUsable == Spec => []CodecPathUsable
  <1>1. EachAnswered => CodecPathUsable
    BY DEF EachAnswered, AnsweredWell, CodecPathUsable, Usable, PlaceOf
  <1> QED
    BY <1>1, CallsAnswered, PTL

\* More load never hides a bottleneck and never misses a target that was met,
\* whatever the limits are.
THEOREM LoadNeverHelps == Spec => []BottleneckStays
  <1>1. EachAnswered => BottleneckStays
    BY DEF EachAnswered, AnsweredWell, BottleneckStays, Stays
  <1> QED
    BY <1>1, CallsAnswered, PTL

\* Every setting has the value that the last layer to name it gave it, for any
\* settings, files and variables that are tried.
THEOREM LayersDecide == Spec => []LastLayerDecides
  <1>1. EachAnswered => LastLayerDecides
    BY DEF EachAnswered, NodeAnsweredWell, LastLayerDecides, Decided, Naming, GreatestOf
  <1> QED
    BY <1>1, CallsAnswered, PTL

\* A message reaches whom it is for and nobody else.
THEOREM MessagesReach == Spec => []MessagesReachTheirTask
  <1>1. EachAnswered => MessagesReachTheirTask
    BY DEF EachAnswered, NodeAnsweredWell, MessagesReachTheirTask, Reached, Receivers
  <1> QED
    BY <1>1, CallsAnswered, PTL

\* What a node connects to and what it tells the others to connect to, after
\* load_from, is on the machine itself or has the first bits of a declared
\* network: for addresses of any width, and any settings that are tried.
THEOREM OnlyPrivateLoads == Spec => []LoadedIsPrivate
  <1>1. EachAnswered => LoadedIsPrivate
    BY DEF EachAnswered, NodeAnsweredWell, LoadedIsPrivate, AllPrivate, Private
  <1> QED
    BY <1>1, CallsAnswered, PTL

\* A frame, a sound or a packet comes back as it was, byte for byte, or not at all
\* when one byte after its header was altered, whatever its size and contents; and the
\* program's own check passes exactly while no two frames share a time stamp.
THEOREM FramesIntact == Spec => []IntactOrRefused
  <1>1. EachAnswered => Lossless
    BY DEF EachAnswered, MediaAnsweredWell, MediaWell, Lossless
  <1>2. EachAnswered => AlterationDetected
    BY DEF EachAnswered, MediaAnsweredWell, MediaWell, AlterationDetected
  <1>3. EachAnswered => CheckPasses
    BY DEF EachAnswered, MediaAnsweredWell, MediaWell, CheckPasses, Passed
  <1>4. EachAnswered => IntactOrRefused
    BY <1>1, <1>2, <1>3 DEF IntactOrRefused
  <1> QED
    BY <1>4, CallsAnswered, PTL

\* Frames come out in the order in which they were sent, whatever the network did,
\* and the fragments of each in the order in which they were sent, while their numbers
\* do not wrap around.
THEOREM OrderRestored == Spec => []SentOrderRestored
  <1>1. EachAnswered => FramesInOrder
    BY DEF EachAnswered, MediaAnsweredWell, MediaWell, FramesInOrder, AsSent
  <1>2. EachAnswered => ArrivalOrderIrrelevant
    BY DEF EachAnswered, MediaAnsweredWell, MediaWell, ArrivalOrderIrrelevant
  <1>3. EachAnswered => FragmentsInOrder
    BY DEF EachAnswered, MediaAnsweredWell, MediaWell, FragmentsInOrder, PartsAsSent
  <1>4. EachAnswered => SentOrderRestored
    BY <1>1, <1>2, <1>3 DEF SentOrderRestored
  <1> QED
    BY <1>4, CallsAnswered, PTL
==============================================================================
