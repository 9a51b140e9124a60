------------------------------ MODULE NackCache ------------------------------
(***************************************************************************)
(* Retransmission of lost packets (crates/qm-sfu/src/recovery.rs): the     *)
(* sender's NackCache, and the loss detection of the receiver.  Sequence   *)
(* numbers wrap around, packets are lost and overtake each other, and a    *)
(* request for retransmission may arrive any time later.                   *)
(*                                                                         *)
(* The packets of a stream are numbered 0, 1, 2, ..., of which the code    *)
(* sees only the sequence number Seq(p); the number stands for a packet's  *)
(* contents (time stamp, source, size).  What sends packets and requests,  *)
(* and keeps the receiver's record of what came, is outside the repository.*)
(***************************************************************************)
EXTENDS SequenceNumbers, FiniteSets

CONSTANTS
    MaxRetries, \* max_retries of the requests
    Track,      \* how many packets back the receiver looks for gaps
    MaxSent,    \* bound on the packets sent
    MaxNacks    \* bound on the requests under way

VARIABLES
    sent,     \* number of packets sent: the newest is sent - 1
    cache,    \* cache[s]: the packet that is cached for sequence number s
    received, \* packets the receiver has
    nacks,    \* requests for retransmission under way: sets of numbers
    resent,   \* resent[s]: how often cache[s] was sent again, as it is counted
    answers   \* answers[p]: how often p was sent again (history)

vars == <<sent, cache, received, nacks, resent, answers>>

Packet == 0 .. MaxSent - 1
None == -1

ASSUME ParameterAssumption ==
    /\ NumberSpace \in Nat /\ Window \in Nat /\ Window < NumberSpace
    /\ MaxRetries \in Nat /\ Track \in Nat /\ MaxSent \in Nat /\ MaxNacks \in Nat

Seq(p) == p % NumberSpace

Init ==
    /\ sent = 0
    /\ cache = [s \in Sequence |-> None]
    /\ received = {}
    /\ nacks = {}
    /\ resent = [s \in Sequence |-> 0]
    /\ answers = [p \in Packet |-> 0]

\* NackCache::record - a packet recorded anew has not been sent again yet.
Record(p) ==
    LET kept(s) == ~Stale(s, Seq(p)) IN
    /\ cache' = [s \in Sequence |->
          IF s = Seq(p) THEN p ELSE IF kept(s) THEN cache[s] ELSE None]
    /\ resent' = [s \in Sequence |->
          IF s # Seq(p) /\ kept(s) THEN resent[s] ELSE 0]

\* The sender sends the next packet, records it, and it arrives or not.
Send ==
    /\ sent < MaxSent
    /\ sent' = sent + 1
    /\ Record(sent)
    /\ received' \in {received, received \cup {sent}}
    /\ UNCHANGED <<nacks, answers>>

\* The newest packets that the receiver has.
Recent == {p \in received : \A q \in received : q - p < Track}

\* The receiver asks for what it finds missing.
RequestMissing ==
    LET lost == DetectLoss({Seq(p) : p \in Recent}) IN
    /\ lost # {} /\ Cardinality(nacks) < MaxNacks
    /\ nacks' = nacks \cup {lost}
    /\ UNCHANGED <<sent, cache, received, resent, answers>>

\* Mutated forms of MayResend: the packet need not be cached; one more.
MayResendAny(s) == resent[s] < MaxRetries
MayResendOnce(s) == cache[s] # None /\ resent[s] <= MaxRetries

MayResend(s) == cache[s] # None /\ resent[s] < MaxRetries

\* NackCache::handle_nack; of what is sent again some arrives.
HandleNack(lost) ==
    LET again == {s \in lost : MayResend(s)} IN
    /\ nacks' = nacks \ {lost}
    /\ resent' = [s \in Sequence |-> IF s \in again THEN resent[s] + 1 ELSE resent[s]]
    /\ answers' = [p \in Packet |-> IF p \in {cache[s] : s \in again}
                                   THEN answers[p] + 1 ELSE answers[p]]
    /\ \E arriving \in SUBSET again :
          received' = received \cup {cache[s] : s \in arriving}
    /\ UNCHANGED <<sent, cache>>

\* A request is lost.
LoseNack(lost) ==
    /\ nacks' = nacks \ {lost}
    /\ UNCHANGED <<sent, cache, received, resent, answers>>

Next ==
    \/ Send
    \/ RequestMissing
    \/ \E lost \in nacks : HandleNack(lost)
    \/ \E lost \in nacks : LoseNack(lost)

Spec == Init /\ [][Next]_vars

------------------------------------------------------------------------------
(* Properties. *)

TypeOK ==
    /\ sent \in 0 .. MaxSent
    /\ cache \in [Sequence -> Packet \cup {None}]
    /\ received \subseteq Packet
    /\ nacks \subseteq SUBSET Sequence
    /\ resent \in [Sequence -> Nat]
    /\ answers \in [Packet -> Nat]

\* The cache holds the last Window + 1 packets, each under its own sequence
\* number, however often the numbers have wrapped around.
CacheIsRecent ==
    \A s \in Sequence :
        LET p == sent - 1 - SeqDistance(s, Seq(sent - 1)) IN
        cache[s] = IF sent > 0 /\ p >= 0 /\ sent - 1 - p <= Window THEN p ELSE None

\* No packet is sent again more than MaxRetries times, whatever comes of the
\* requests, and whatever is recorded under its number before and after it.
RetriesBounded == \A p \in Packet : answers[p] <= MaxRetries

\* A packet leaves the cache only when it is more than Window packets old.
EvictsOnlyOld ==
    [][\A s \in Sequence :
          cache[s] # None /\ cache'[s] # cache[s] => sent' - 1 - cache[s] > Window]_vars

\* What a receiver must ask for: the packets between those it has.
Missing == {Seq(p) : p \in {q \in 0 .. sent - 1 \ received :
                              \E a, b \in Recent : a < q /\ q < b}}

\* Until the sequence numbers wrap around for the first time, the receiver asks
\* for exactly what is missing.  After that it does not: detect_loss sorts the
\* numbers as integers.
AsksBeforeWrap ==
    [][sent <= NumberSpace => \A lost \in nacks' \ nacks : lost = Missing]_vars
==============================================================================
