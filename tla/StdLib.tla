------------------------------- MODULE StdLib -------------------------------
(***************************************************************************)
(* What the code takes from the standard library of its language: filters, *)
(* sorting by a key, shifts and exclusive or.  A condition or an order is  *)
(* a set.  Unlike their counterparts in the community modules these        *)
(* operators are recursive functions, or say what the result is, which     *)
(* proofs can use.                                                         *)
(***************************************************************************)
EXTENDS Integers, Sequences, FiniteSets

(* iter().filter(..).collect() *)

\* The elements of s that are in S, in their order.
Within(s, S) ==
    LET upTo[n \in 0 .. Len(s)] ==
          IF n = 0 THEN <<>>
          ELSE IF s[n] \in S THEN Append(upTo[n - 1], s[n]) ELSE upTo[n - 1]
    IN  upTo[Len(s)]

\* Those that are not in S.
Without(s, S) == Within(s, {s[i] : i \in DOMAIN s} \ S)

------------------------------------------------------------------------------
(* sort_by_key(..) *)

\* The elements of the finite set S, of which before orders any two: in k-th place
\* is the one that has k - 1 others before it.
InOrder(S, before) ==
    [k \in 1 .. Cardinality(S) |->
        CHOOSE e \in S : Cardinality({d \in S : <<d, e>> \in before}) = k - 1]

------------------------------------------------------------------------------
(* << and ^ *)

\* A one that is shifted to the left.
OneShifted[n \in Nat] == IF n = 0 THEN 1 ELSE 2 * OneShifted[n - 1]

\* Bit i of a number, the lowest being bit 0.
BitOf(a, i) == (a \div OneShifted[i]) % 2

\* The exclusive or of two numbers of so many bits, put together from the lowest
\* bit on.
Xor(bits, a, b) ==
    LET low[n \in 0 .. bits] ==
          IF n = 0 THEN 0
          ELSE low[n - 1] + OneShifted[n - 1] * ((BitOf(a, n - 1) + BitOf(b, n - 1)) % 2)
    IN  low[bits]
==============================================================================
