--------------------------- MODULE NackCache_proofs ---------------------------
(***************************************************************************)
(* Proofs about NackCache, for any modulus of the sequence numbers, any    *)
(* window below it and any number of retries: what the cache holds, what   *)
(* it throws out, and how often a packet is sent again.                    *)
(***************************************************************************)
EXTENDS NackCache, TLAPS

------------------------------------------------------------------------------
(* Sequence numbers. *)

\* Division with remainder.
LEMMA DivMod ==
    ASSUME NEW m \in Nat, m > 0, NEW p \in Nat
    PROVE  /\ p % m \in 0 .. m - 1
           /\ p \div m \in Nat
           /\ p = m * (p \div m) + (p % m)
  BY Z3

\* A multiple of m that is not 0 is at least m.
LEMMA Multiple == ASSUME NEW m \in Nat, NEW d \in Int, d >= 1 PROVE m * d >= m
  BY Z3

\* The remainder of the successor.
LEMMA SuccMod ==
    ASSUME NEW m \in Nat, m > 0, NEW p \in Nat
    PROVE  (p + 1) % m = IF p % m = m - 1 THEN 0 ELSE (p % m) + 1
  <1> DEFINE q == p \div m
             r == p % m
             k == (p + 1) \div m
             s == (p + 1) % m
  <1>1. /\ r \in 0 .. m - 1 /\ q \in Nat /\ p = m * q + r
        /\ s \in 0 .. m - 1 /\ k \in Nat /\ p + 1 = m * k + s
    BY DivMod, Z3
  <1> HIDE DEF q, r, k, s
  <1>2. m * (k - q) = r + 1 - s
    <2>1. m * k \in Int /\ m * q \in Int /\ m * (k - q) = m * k - m * q
      BY <1>1, Z3
    <2> QED
      BY <1>1, <2>1
  <1>3. k - q \in {0, 1}
    <2>1. CASE k - q >= 2
      <3>1. m * (k - q - 1) >= m
        BY <1>1, <2>1, Multiple
      <3>2. m * (k - q) = m * (k - q - 1) + m
        BY <1>1, Z3
      <3> QED
        BY <1>1, <1>2, <3>1, <3>2
    <2>2. CASE k - q <= -1
      <3>1. m * (q - k) >= m
        BY <1>1, <2>2, Multiple
      <3>2. m * (k - q) = -(m * (q - k))
        BY <1>1, Z3
      <3> QED
        BY <1>1, <1>2, <3>1, <3>2
    <2> QED
      BY <1>1, <2>1, <2>2
  <1>4. CASE k = q
    BY <1>1, <1>2, <1>4
  <1>5. CASE k = q + 1
    BY <1>1, <1>2, <1>5
  <1>6. s = IF r = m - 1 THEN 0 ELSE r + 1
    BY <1>1, <1>3, <1>4, <1>5
  <1> QED
    BY <1>6 DEF r, s

\* Distances are below the modulus, and a number is determined by how far it
\* is from another.
LEMMA Distances ==
    /\ \A a, b \in Sequence : SeqDistance(a, b) \in 0 .. NumberSpace - 1
    /\ \A a, b, c \in Sequence : SeqDistance(a, c) = SeqDistance(b, c) => a = b
    /\ \A a \in Sequence : SeqDistance(a, a) = 0
    /\ NumberSpace > 0
  BY ParameterAssumption DEF Sequence, SeqDistance

\* With every packet each number gets one further from the newest, except the
\* one that is used next.
LEMMA NextDistance ==
    ASSUME NEW p \in Nat, NEW s \in Sequence
    PROVE  /\ Seq(p) \in Sequence /\ Seq(p + 1) \in Sequence
           /\ s = Seq(p + 1) => SeqDistance(s, Seq(p)) = NumberSpace - 1
           /\ s # Seq(p + 1) =>
                SeqDistance(s, Seq(p + 1)) = SeqDistance(s, Seq(p)) + 1
  <1>1. NumberSpace \in Nat /\ NumberSpace > 0
    BY Distances, ParameterAssumption
  <1>2. Seq(p) \in Sequence
    BY <1>1, DivMod DEF Seq, Sequence
  <1>3. Seq(p + 1) = IF Seq(p) = NumberSpace - 1 THEN 0 ELSE Seq(p) + 1
    BY <1>1, SuccMod DEF Seq
  <1> QED
    BY <1>1, <1>2, <1>3 DEF Sequence, SeqDistance

\* Packet 0 has sequence number 0.
LEMMA FirstSeq == Seq(0) = 0 /\ Seq(0) \in Sequence
  <1>1. NumberSpace \in Nat /\ NumberSpace > 0
    BY Distances, ParameterAssumption
  <1>2. 0 = NumberSpace * (0 \div NumberSpace) + (0 % NumberSpace)
        /\ 0 % NumberSpace \in 0 .. NumberSpace - 1 /\ 0 \div NumberSpace \in Nat
    BY <1>1, DivMod
  <1>3. NumberSpace * (0 \div NumberSpace) \in Nat
    BY <1>1, <1>2, Z3
  <1> QED
    BY <1>1, <1>2, <1>3 DEF Seq, Sequence

------------------------------------------------------------------------------
(* The inductive invariant: the two counts of a packet's repetitions agree, *)
(* and what has not been sent has not been repeated.                        *)

CountsAgree ==
    /\ \A s \in Sequence : cache[s] # None => resent[s] = answers[cache[s]]
    /\ \A p \in Packet : p >= sent => answers[p] = 0

IInv == TypeOK /\ CacheIsRecent /\ CountsAgree /\ RetriesBounded

\* It holds at the start.
LEMMA InitInv == Init => IInv
  BY ParameterAssumption
  DEF Init, IInv, TypeOK, CacheIsRecent, CountsAgree, RetriesBounded, Packet,
      Sequence, None

\* What sending does to the cache.
LEMMA Sent ==
    ASSUME IInv, Send, NEW s \in Sequence
    PROVE  /\ sent \in Packet /\ sent' = sent + 1 /\ Seq(sent) \in Sequence
           /\ s = Seq(sent) => cache'[s] = sent /\ resent'[s] = 0
           /\ s # Seq(sent) =>
                \/ cache'[s] = cache[s] /\ resent'[s] = resent[s]
                     /\ SeqDistance(s, Seq(sent)) <= Window
                \/ cache'[s] = None /\ resent'[s] = 0
                     /\ SeqDistance(s, Seq(sent)) > Window
  <1>1. sent \in Nat /\ sent < MaxSent /\ sent' = sent + 1
    BY ParameterAssumption DEF IInv, TypeOK, Send
  <1>2. Seq(sent) \in Sequence
    BY <1>1, NextDistance
  <1>3. SeqDistance(s, Seq(sent)) \in Nat
    BY <1>2, Distances, ParameterAssumption
  <1> QED
    BY <1>1, <1>2, <1>3, ParameterAssumption DEF Send, Record, Stale, Packet

\* A packet that is in the cache is there under one number only.
LEMMA OncePerPacket ==
    ASSUME IInv, NEW s \in Sequence, NEW u \in Sequence,
           cache[s] # None, cache[u] = cache[s]
    PROVE  u = s
  <1>1. sent \in Nat /\ sent > 0
    BY ParameterAssumption DEF IInv, TypeOK, CacheIsRecent
  <1>2. Seq(sent - 1) \in Sequence
    BY <1>1, NextDistance
  <1>3. /\ SeqDistance(s, Seq(sent - 1)) \in Nat
        /\ SeqDistance(u, Seq(sent - 1)) \in Nat
    BY <1>2, Distances, ParameterAssumption
  <1>4. /\ cache[s] = sent - 1 - SeqDistance(s, Seq(sent - 1))
        /\ cache[u] = sent - 1 - SeqDistance(u, Seq(sent - 1))
    BY DEF IInv, CacheIsRecent
  <1>5. SeqDistance(s, Seq(sent - 1)) = SeqDistance(u, Seq(sent - 1))
    BY <1>1, <1>3, <1>4
  <1> QED
    BY <1>2, <1>5, Distances

\* Sending shifts the window by one packet.
LEMMA SendCache == ASSUME IInv, Send PROVE CacheIsRecent'
  <1> SUFFICES ASSUME NEW s \in Sequence
               PROVE  LET p == sent' - 1 - SeqDistance(s, Seq(sent' - 1)) IN
                      cache'[s] = IF sent' > 0 /\ p >= 0 /\ sent' - 1 - p <= Window
                                  THEN p ELSE None
    BY DEF CacheIsRecent
  <1> DEFINE new == SeqDistance(s, Seq(sent))
             old == SeqDistance(s, Seq(sent - 1))
  <1>1. sent \in Nat /\ sent' = sent + 1 /\ sent' - 1 = sent /\ Window \in Nat
        /\ Seq(sent) \in Sequence /\ new \in Nat
    <2>1. sent \in Nat /\ Seq(sent) \in Sequence /\ sent' = sent + 1
      BY Sent DEF Packet
    <2> QED
      BY <2>1, Distances, ParameterAssumption
  <1>2. SUFFICES cache'[s] = IF sent - new >= 0 /\ new <= Window
                             THEN sent - new ELSE None
    <2> HIDE DEF new
    <2>1. sent - (sent - new) = new
      BY <1>1
    <2> QED
      BY <1>1, <2>1 DEF new
  <1>3. CASE s = Seq(sent)
    <2>1. new = 0 /\ cache'[s] = sent
      BY <1>3, Sent, Distances
    <2> HIDE DEF new
    <2> QED
      BY <1>1, <2>1
  <1>4. CASE s # Seq(sent) /\ sent = 0
    <2>1. cache[s] = None
      BY <1>4 DEF IInv, CacheIsRecent
    <2>2. cache'[s] = None
      BY <1>4, <2>1, Sent
    <2>3. new > 0
      BY <1>1, <1>4, FirstSeq, Distances DEF Sequence, SeqDistance
    <2> HIDE DEF new
    <2> QED
      BY <1>1, <1>4, <2>2, <2>3
  <1>5. CASE s # Seq(sent) /\ sent > 0
    <2>1. new = old + 1 /\ old \in Nat
      <3>1. sent - 1 \in Nat /\ sent = (sent - 1) + 1
        BY <1>1, <1>5
      <3>2. Seq(sent - 1) \in Sequence /\ new = old + 1
        BY <1>5, <3>1, NextDistance
      <3> QED
        BY <3>2, Distances, ParameterAssumption
    <2>2. cache[s] = IF sent - 1 - old >= 0 /\ old <= Window THEN sent - 1 - old
                     ELSE None
      <3>1. cache[s] = IF sent > 0 /\ sent - 1 - old >= 0
                          /\ sent - 1 - (sent - 1 - old) <= Window
                       THEN sent - 1 - old ELSE None
        BY DEF IInv, CacheIsRecent
      <3>2. sent - 1 - (sent - 1 - old) = old
        <4> HIDE DEF old
        <4> QED
          BY <1>1, <2>1
      <3> QED
        BY <1>5, <3>1, <3>2
    <2>3. \/ cache'[s] = cache[s] /\ new <= Window
          \/ cache'[s] = None /\ new > Window
      BY <1>5, Sent
    <2> HIDE DEF new, old
    <2> QED
      BY <1>1, <2>1, <2>2, <2>3
  <1> QED
    BY <1>1, <1>3, <1>4, <1>5

\* Every step keeps the types.
LEMMA StepType == IInv /\ [Next]_vars => TypeOK'
  <1> SUFFICES ASSUME IInv, [Next]_vars PROVE TypeOK'
    OBVIOUS
  <1>1. /\ sent \in 0 .. MaxSent /\ cache \in [Sequence -> Packet \cup {None}]
        /\ received \subseteq Packet
        /\ nacks \subseteq SUBSET Sequence /\ resent \in [Sequence -> Nat]
        /\ answers \in [Packet -> Nat] /\ MaxSent \in Nat
    BY ParameterAssumption DEF IInv, TypeOK
  <1>2. ASSUME Send PROVE TypeOK'
    <2>1. \A s \in Sequence : /\ sent \in Packet /\ sent' = sent + 1
                              /\ cache'[s] \in Packet \cup {None}
                              /\ resent'[s] \in Nat
      BY <1>1, <1>2, Sent
    <2>2. sent' \in 0 .. MaxSent /\ sent \in Packet
      BY <1>1, <1>2 DEF Send, Packet
    <2>3. cache' \in [Sequence -> Packet \cup {None}] /\ resent' \in [Sequence -> Nat]
      BY <1>2, <2>1 DEF Send, Record
    <2>4. received' \subseteq Packet
      BY <1>1, <1>2, <2>2 DEF Send
    <2> QED
      BY <1>1, <1>2, <2>2, <2>3, <2>4 DEF Send, TypeOK
  <1>3. ASSUME RequestMissing PROVE TypeOK'
    <2>1. nacks' \subseteq SUBSET Sequence
      BY <1>1, <1>3 DEF RequestMissing, DetectLoss
    <2> QED
      BY <1>1, <1>3, <2>1 DEF RequestMissing, TypeOK
  <1>4. ASSUME NEW lost \in nacks, HandleNack(lost) PROVE TypeOK'
    <2> DEFINE again == {s \in lost : MayResend(s)}
    <2>1. \A s \in again : s \in Sequence /\ cache[s] \in Packet
      BY <1>1 DEF MayResend
    <2>2. received' \subseteq Packet
      BY <1>1, <1>4, <2>1 DEF HandleNack
    <2>3. resent' \in [Sequence -> Nat]
      BY <1>1, <1>4 DEF HandleNack
    <2>4. answers' \in [Packet -> Nat]
      BY <1>1, <1>4 DEF HandleNack
    <2>5. nacks' \subseteq SUBSET Sequence
      BY <1>1, <1>4 DEF HandleNack
    <2> QED
      BY <1>1, <1>4, <2>2, <2>3, <2>4, <2>5 DEF HandleNack, TypeOK
  <1>5. ASSUME NEW lost \in nacks, LoseNack(lost) PROVE TypeOK'
    BY <1>1, <1>5 DEF LoseNack, TypeOK
  <1>6. CASE UNCHANGED vars
    BY <1>1, <1>6 DEF vars, TypeOK
  <1> QED
    BY <1>2, <1>3, <1>4, <1>5, <1>6 DEF Next

\* Steps that touch neither the cache nor the counts keep the rest of IInv.
LEMMA CacheKept ==
    ASSUME IInv, UNCHANGED <<sent, cache, resent, answers>>
    PROVE  CacheIsRecent' /\ CountsAgree' /\ RetriesBounded'
  BY DEF IInv, CacheIsRecent, CountsAgree, RetriesBounded

\* Every step keeps IInv.
LEMMA StepInv == IInv /\ [Next]_vars => IInv'
  <1> SUFFICES ASSUME IInv, [Next]_vars
               PROVE  CacheIsRecent' /\ CountsAgree' /\ RetriesBounded'
    BY StepType DEF IInv
  <1>1. /\ sent \in Nat /\ cache \in [Sequence -> Packet \cup {None}]
        /\ resent \in [Sequence -> Nat] /\ answers \in [Packet -> Nat]
        /\ nacks \subseteq SUBSET Sequence /\ MaxRetries \in Nat
    BY ParameterAssumption DEF IInv, TypeOK
  <1>2. /\ CountsAgree /\ RetriesBounded
    BY DEF IInv
  <1>3. ASSUME Send PROVE CacheIsRecent' /\ CountsAgree' /\ RetriesBounded'
    <2>1. answers' = answers /\ sent' = sent + 1
      BY <1>3 DEF Send
    <2>2. \A s \in Sequence :
            \/ cache'[s] = sent /\ sent \in Packet /\ resent'[s] = 0
            \/ cache'[s] = cache[s] /\ resent'[s] = resent[s]
            \/ cache'[s] = None
      BY <1>3, Sent
    <2>3. \A p \in Packet : p >= sent => answers[p] = 0
      BY <1>2 DEF CountsAgree
    <2>4. CountsAgree'
      <3>1. ASSUME NEW s \in Sequence, cache'[s] # None
            PROVE  resent'[s] = answers'[cache'[s]]
        <4>1. CASE cache'[s] = sent /\ sent \in Packet /\ resent'[s] = 0
          BY <1>1, <2>1, <2>3, <4>1
        <4>2. CASE cache'[s] = cache[s] /\ resent'[s] = resent[s]
          BY <1>2, <2>1, <3>1, <4>2 DEF CountsAgree
        <4> QED
          BY <2>2, <3>1, <4>1, <4>2
      <3>2. \A p \in Packet : p >= sent' => answers'[p] = 0
        BY <1>1, <2>1, <2>3 DEF Packet
      <3> QED
        BY <3>1, <3>2 DEF CountsAgree
    <2> QED
      BY <1>2, <1>3, <2>1, <2>4, SendCache DEF RetriesBounded
  <1>4. ASSUME NEW lost \in nacks, HandleNack(lost)
        PROVE  CacheIsRecent' /\ CountsAgree' /\ RetriesBounded'
    <2> DEFINE again == {s \in lost : MayResend(s)}
    <2>1. /\ UNCHANGED <<sent, cache>>
          /\ \A s \in Sequence :
               resent'[s] = IF s \in again THEN resent[s] + 1 ELSE resent[s]
          /\ \A p \in Packet : answers'[p] = IF p \in {cache[s] : s \in again}
                                             THEN answers[p] + 1 ELSE answers[p]
      BY <1>4 DEF HandleNack
    <2>2. \A s \in again : /\ s \in Sequence /\ cache[s] \in Packet /\ cache[s] # None
                           /\ resent[s] < MaxRetries /\ cache[s] < sent
      <3> SUFFICES ASSUME NEW s \in again
                   PROVE  /\ s \in Sequence /\ cache[s] \in Packet /\ cache[s] # None
                          /\ resent[s] < MaxRetries /\ cache[s] < sent
        OBVIOUS
      <3>1. s \in Sequence /\ cache[s] # None /\ resent[s] < MaxRetries
            /\ cache[s] \in Packet
        BY <1>1 DEF MayResend
      <3>2. sent > 0 /\ cache[s] = sent - 1 - SeqDistance(s, Seq(sent - 1))
        BY <3>1 DEF IInv, CacheIsRecent
      <3>3. SeqDistance(s, Seq(sent - 1)) \in Nat
        BY <1>1, <3>1, <3>2, NextDistance, Distances, ParameterAssumption
      <3> QED
        BY <1>1, <3>1, <3>2, <3>3
    <2>3. CacheIsRecent'
      BY <2>1 DEF IInv, CacheIsRecent
    <2>4. CountsAgree'
      <3>1. ASSUME NEW s \in Sequence, cache'[s] # None
            PROVE  resent'[s] = answers'[cache'[s]]
        <4>1. cache[s] \in Packet /\ resent[s] = answers[cache[s]] /\ cache'[s] = cache[s]
          BY <1>1, <1>2, <2>1, <3>1 DEF CountsAgree
        <4>2. cache[s] \in {cache[u] : u \in again} <=> s \in again
          BY <2>1, <2>2, <3>1, OncePerPacket
        <4> QED
          BY <2>1, <4>1, <4>2
      <3>2. ASSUME NEW p \in Packet, p >= sent PROVE answers'[p] = 0
        <4>1. p \notin {cache[s] : s \in again}
          BY <1>1, <2>2, <3>2 DEF Packet
        <4> QED
          BY <1>2, <2>1, <3>2, <4>1 DEF CountsAgree
      <3> QED
        BY <2>1, <3>1, <3>2 DEF CountsAgree
    <2>5. RetriesBounded'
      <3> SUFFICES ASSUME NEW p \in Packet PROVE answers'[p] <= MaxRetries
        BY DEF RetriesBounded
      <3>1. CASE p \in {cache[s] : s \in again}
        <4>1. PICK s \in again : p = cache[s]
          BY <3>1
        <4>2. answers[p] < MaxRetries /\ answers[p] \in Nat
          BY <1>1, <1>2, <2>2, <4>1 DEF CountsAgree
        <4> QED
          BY <1>1, <2>1, <3>1, <4>2
      <3>2. CASE p \notin {cache[s] : s \in again}
        BY <1>2, <2>1, <3>2 DEF RetriesBounded
      <3> QED
        BY <3>1, <3>2
    <2> QED
      BY <2>3, <2>4, <2>5
  <1>5. ASSUME RequestMissing PROVE CacheIsRecent' /\ CountsAgree' /\ RetriesBounded'
    BY <1>5, CacheKept DEF RequestMissing
  <1>6. ASSUME NEW lost \in nacks, LoseNack(lost)
        PROVE  CacheIsRecent' /\ CountsAgree' /\ RetriesBounded'
    BY <1>6, CacheKept DEF LoseNack
  <1>7. CASE UNCHANGED vars
    BY <1>7, CacheKept DEF vars
  <1> QED
    BY <1>3, <1>4, <1>5, <1>6, <1>7 DEF Next

\* IInv is an invariant of the specification.
THEOREM Inductive == Spec => []IInv
  BY InitInv, StepInv, PTL DEF Spec

\* The state of sender and receiver keeps its types.
THEOREM TypeCorrect == Spec => []TypeOK
  BY Inductive, PTL DEF IInv

\* The cache holds exactly the last Window + 1 packets.
THEOREM CacheRecent == Spec => []CacheIsRecent
  BY Inductive, PTL DEF IInv

\* No packet is sent again more than MaxRetries times.
THEOREM RetriesLimited == Spec => []RetriesBounded
  BY Inductive, PTL DEF IInv

\* What a step throws out of the cache is older than the window.
LEMMA StepEvicts ==
    ASSUME IInv, [Next]_vars, NEW s \in Sequence,
           cache[s] # None, cache'[s] # cache[s]
    PROVE  sent' - 1 - cache[s] > Window
  <1>1. CASE Send
    <2> DEFINE new == SeqDistance(s, Seq(sent))
               old == SeqDistance(s, Seq(sent - 1))
    <2>1. sent > 0 /\ cache[s] = sent - 1 - old
      BY DEF IInv, CacheIsRecent
    <2>2. sent \in Nat /\ sent' = sent + 1 /\ sent - 1 \in Nat
          /\ sent = (sent - 1) + 1
      BY <1>1, <2>1, ParameterAssumption DEF IInv, TypeOK, Send
    <2>3. old \in Nat /\ Window \in Nat /\ NumberSpace \in Nat /\ Window < NumberSpace
      <3>1. Seq(sent - 1) \in Sequence
        BY <2>2, NextDistance
      <3> QED
        BY <3>1, Distances, ParameterAssumption
    <2>4. old = NumberSpace - 1 \/ old + 1 > Window
      <3>1. CASE s = Seq(sent)
        BY <2>2, <3>1, NextDistance
      <3>2. CASE s # Seq(sent)
        <4>1. new = old + 1
          BY <2>2, <3>2, NextDistance
        <4>2. new > Window
          BY <1>1, <3>2, Sent
        <4> QED
          BY <4>1, <4>2
      <3> QED
        BY <3>1, <3>2
    <2> HIDE DEF old
    <2> QED
      BY <2>1, <2>2, <2>3, <2>4
  <1>2. CASE ~Send
    BY <1>2 DEF Next, vars, RequestMissing, HandleNack, LoseNack
  <1> QED
    BY <1>1, <1>2

\* A packet leaves the cache only when it is more than Window packets old.
THEOREM OnlyOldEvicted == Spec => EvictsOnlyOld
  <1>1. IInv /\ [Next]_vars =>
          [\A s \in Sequence :
              cache[s] # None /\ cache'[s] # cache[s]
                => sent' - 1 - cache[s] > Window]_vars
    BY StepEvicts
  <1> QED
    BY <1>1, Inductive, PTL DEF Spec, EvictsOnlyOld

------------------------------------------------------------------------------
(* What the receiver asks for. *)

\* Nothing is received, or sent again, that was not sent before.
ReceivedIsSent == \A p \in received : p \in Packet /\ p < sent

\* Every step keeps that.
LEMMA StepReceived == IInv /\ ReceivedIsSent /\ [Next]_vars => ReceivedIsSent'
  <1> SUFFICES ASSUME IInv, ReceivedIsSent, [Next]_vars PROVE ReceivedIsSent'
    OBVIOUS
  <1>1. CASE Send
    <2>1. sent \in Packet /\ sent' = sent + 1 /\ received' \subseteq received \cup {sent}
      BY <1>1, ParameterAssumption DEF IInv, TypeOK, Send, Packet
    <2> QED
      BY <2>1 DEF ReceivedIsSent, Packet
  <1>2. ASSUME NEW lost \in nacks, HandleNack(lost) PROVE ReceivedIsSent'
    <2>1. ASSUME NEW s \in lost, MayResend(s)
          PROVE  cache[s] \in Packet /\ cache[s] < sent
      <3>1. /\ s \in Sequence /\ cache[s] # None /\ cache[s] \in Packet
            /\ sent \in Nat
        BY <2>1, ParameterAssumption DEF IInv, TypeOK, MayResend
      <3>2. sent > 0 /\ cache[s] = sent - 1 - SeqDistance(s, Seq(sent - 1))
        BY <3>1 DEF IInv, CacheIsRecent
      <3>3. SeqDistance(s, Seq(sent - 1)) \in Nat
        BY <3>1, <3>2, NextDistance, Distances, ParameterAssumption
      <3> QED
        BY <3>1, <3>2, <3>3
    <2>2. /\ sent' = sent
          /\ \A p \in received' :
               p \in received \/ \E s \in lost : MayResend(s) /\ p = cache[s]
      BY <1>2 DEF HandleNack
    <2> QED
      BY <2>1, <2>2 DEF ReceivedIsSent
  <1>3. CASE UNCHANGED <<sent, received>>
    BY <1>3 DEF ReceivedIsSent
  <1> QED
    BY <1>1, <1>2, <1>3 DEF Next, vars, RequestMissing, LoseNack

\* Before the numbers wrap around, a packet is its own sequence number.
LEMMA NoWrap ==
    ASSUME NEW p \in Nat, p < NumberSpace
    PROVE  Seq(p) = p /\ p \in Sequence
  <1>1. NumberSpace \in Nat /\ NumberSpace > 0
    BY Distances, ParameterAssumption
  <1>2. /\ p % NumberSpace \in 0 .. NumberSpace - 1 /\ p \div NumberSpace \in Nat
        /\ p = NumberSpace * (p \div NumberSpace) + (p % NumberSpace)
    BY <1>1, DivMod
  <1>3. p \div NumberSpace = 0
    <2>1. p \div NumberSpace >= 1 => NumberSpace * (p \div NumberSpace) >= NumberSpace
      BY <1>1, <1>2, Multiple
    <2>2. NumberSpace * (p \div NumberSpace) \in Int
      BY <1>1, <1>2
    <2> QED
      BY <1>1, <1>2, <2>1, <2>2
  <1>4. NumberSpace * 0 = 0
    BY <1>1
  <1> QED
    BY <1>1, <1>2, <1>3, <1>4 DEF Seq, Sequence

\* What lies between two recent packets has come only if it is recent itself.
LEMMA Between ==
    ASSUME ReceivedIsSent, NEW a \in Recent, NEW q \in received, a < q
    PROVE  q \in Recent
  <1>1. \A r \in received : r \in Nat
    BY DEF ReceivedIsSent, Packet
  <1>2. a \in received /\ \A r \in received : r - a < Track
    BY DEF Recent
  <1>3. \A r \in received : r - q < Track
    BY <1>1, <1>2, ParameterAssumption
  <1> QED
    BY <1>3 DEF Recent

\* So a request names exactly the packets that are missing.
LEMMA StepAsks ==
    ASSUME IInv, ReceivedIsSent, [Next]_vars, sent <= NumberSpace,
           NEW lost \in nacks' \ nacks
    PROVE  lost = Missing
  <1>1. RequestMissing
    BY DEF Next, vars, Send, HandleNack, LoseNack
  <1>2. lost = DetectLoss({Seq(p) : p \in Recent})
    BY <1>1 DEF RequestMissing
  <1>3. sent \in Nat /\ NumberSpace \in Nat
    BY ParameterAssumption DEF IInv, TypeOK
  <1>4. \A q \in 0 .. sent - 1 : Seq(q) = q /\ q \in Sequence
    BY <1>3, NoWrap
  <1>5. Recent \subseteq received /\ received \subseteq 0 .. sent - 1
    BY <1>3 DEF Recent, ReceivedIsSent, Packet
  <1>6. {Seq(p) : p \in Recent} = Recent
    BY <1>4, <1>5
  <1>7. ASSUME NEW s PROVE s \in lost <=> s \in Missing
    <2>1. s \in lost <=> /\ s \in Sequence \ Recent
                         /\ \E a, b \in Recent : a < s /\ s < b
      BY <1>2, <1>6 DEF DetectLoss
    <2>2. s \in Missing <=> /\ s \in 0 .. sent - 1 /\ s \notin received
                            /\ \E a, b \in Recent : a < s /\ s < b
      BY <1>4 DEF Missing
    <2>3. ASSUME s \in Sequence \ Recent, NEW a \in Recent, NEW b \in Recent, a < s, s < b
          PROVE  s \in 0 .. sent - 1 /\ s \notin received
      <3>1. s \in 0 .. sent - 1
        BY <1>3, <1>5, <2>3 DEF Sequence
      <3> QED
        BY <2>3, <3>1, Between
    <2> QED
      BY <1>4, <1>5, <2>1, <2>2, <2>3
  <1> QED
    BY <1>7

\* Until the sequence numbers wrap around, the receiver asks for exactly the
\* packets that it lacks between those it has, however many it looks back.
THEOREM AsksForMissing == Spec => AsksBeforeWrap
  <1>1. Init => ReceivedIsSent
    BY DEF Init, ReceivedIsSent
  <1>2. IInv /\ ReceivedIsSent /\ [Next]_vars =>
          [sent <= NumberSpace => \A lost \in nacks' \ nacks : lost = Missing]_vars
    BY StepAsks
  <1> QED
    BY <1>1, <1>2, StepReceived, Inductive, PTL DEF Spec, AsksBeforeWrap
==============================================================================
