-------------------------------- MODULE Tracks --------------------------------
(***************************************************************************)
(* The tracks of the SFU (crates/qm-sfu: track.rs, forwarding.rs and the   *)
(* handlers of router.rs that change them).  A peer publishes tracks in a  *)
(* room, others subscribe to them, and whoever leaves takes its tracks and *)
(* subscriptions with it.                                                  *)
(*                                                                         *)
(* A handler holds the registry's mutex from its first to its last access  *)
(* and is one action.  Only `forward` releases it in between: it decides   *)
(* and counts in two steps.  Requests that are answered with an error      *)
(* change nothing and are left out.                                        *)
(***************************************************************************)
EXTENDS Naturals, FiniteSets, FiniteSetsExt

CONSTANTS
    Room, Peer,
    TrackId,     \* the ids that uuid::new_v4 will draw
    Worker,      \* threads that can be inside `forward`
    None,        \* no room, no peer, no batch
    MaxPackets,  \* bound on the packets per track of one forward request
    MaxSent      \* bound on all the packets forwarded

VARIABLES
    rooms,   \* the rooms that the registry has an entry for
    tracks,  \* tracks[t]: the track with id t
    batch,   \* batch[w]: what worker w decided and has not counted yet
    sent,    \* sent[t]: packets of t that were forwarded (history)
    left     \* <<r, p>>: p left r and did nothing there since (history)

vars == <<rooms, tracks, batch, sent, left>>

ASSUME NoneAssumption == None \notin Room \cup Peer
ASSUME BoundAssumption == MaxPackets \in Nat /\ MaxSent \in Nat
ASSUME FiniteAssumption == IsFiniteSet(TrackId) /\ IsFiniteSet(Worker)

Track == [room : Room \cup {None}, publisher : Peer \cup {None},
          state : {"unused", "live", "ended", "gone"},
          subscribers : SUBSET Peer, forwarded : Nat]
Batch == [room : Room, decided : SUBSET TrackId, credit : Nat]

NoTrack(state) == [room |-> None, publisher |-> None, state |-> state,
                   subscribers |-> {}, forwarded |-> 0]

ASSUME IdleAssumption == None \notin Batch

Present(track) == track.state \in {"live", "ended"}
RoomTracks(r) == {t \in TrackId : Present(tracks[t]) /\ tracks[t].room = r}

------------------------------------------------------------------------------
Init ==
    /\ rooms = {}
    /\ tracks = [t \in TrackId |-> NoTrack("unused")]
    /\ batch = [w \in Worker |-> None]
    /\ sent = [t \in TrackId |-> 0]
    /\ left = {}

NewTrack(r, p) == [room |-> r, publisher |-> p, state |-> "live",
                   subscribers |-> {}, forwarded |-> 0]

Publish(r, p, t) ==
    /\ tracks[t].state = "unused"
    /\ rooms' = rooms \cup {r}
    /\ tracks' = [tracks EXCEPT ![t] = NewTrack(r, p)]
    /\ left' = left \ {<<r, p>>}
    /\ UNCHANGED <<batch, sent>>

\* Mutated form of MaySubscribe: a publisher may listen to itself.
MaySubscribeAny(track, p) == Present(track) /\ p \notin track.subscribers

\* TrackRegistry::subscribe - whether the track is live or has ended.
MaySubscribe(track, p) ==
    Present(track) /\ track.publisher # p /\ p \notin track.subscribers

Subscribe(p, t) ==
    /\ MaySubscribe(tracks[t], p)
    /\ tracks' = [tracks EXCEPT ![t].subscribers = @ \cup {p}]
    /\ left' = left \ {<<tracks[t].room, p>>}
    /\ UNCHANGED <<rooms, batch, sent>>

MayUnsubscribe(track, p) == p \in track.subscribers

Unsubscribe(p, t) ==
    /\ MayUnsubscribe(tracks[t], p)
    /\ tracks' = [tracks EXCEPT ![t].subscribers = @ \ {p}]
    /\ UNCHANGED <<rooms, batch, sent, left>>

\* Mutated forms of Left: a peer ends its own tracks and stays subscribed; every
\* track of the room ends.
LeftOwn(track, p) ==
    IF track.publisher = p THEN [track EXCEPT !.state = "ended"] ELSE track
LeftAll(track, p) == [track EXCEPT !.subscribers = @ \ {p}, !.state = "ended"]

\* What p's leaving does to a track of the room.
Left(track, p) ==
    [track EXCEPT !.subscribers = @ \ {p},
                  !.state = IF track.publisher = p THEN "ended" ELSE @]

Swept(track) ==
    IF track.state = "ended" /\ track.subscribers = {} THEN NoTrack("gone")
    ELSE track

\* Mutated form of WithoutEmpty: the entry of an empty room is kept.
WithEmpty(r, remaining) == rooms

WithoutEmpty(r, remaining) == IF remaining = {} THEN rooms \ {r} ELSE rooms

\* peer_leave, with TrackRegistry::peer_left.
PeerLeft(r, p) ==
    LET after == [t \in RoomTracks(r) |-> Swept(Left(tracks[t], p))] IN
    /\ r \in rooms
    /\ tracks' = [t \in TrackId |->
                    IF t \in RoomTracks(r) THEN after[t] ELSE tracks[t]]
    /\ rooms' = WithoutEmpty(r, {t \in RoomTracks(r) : Present(after[t])})
    /\ left' = left \cup {<<r, p>>}
    /\ UNCHANGED <<batch, sent>>

\* forwarding::decide - tracks that have ended or have no subscriber are
\* skipped.
WillDeliver(track) == track.state = "live" /\ track.subscribers # {}

\* Mutated form of Credit: each track is credited with all packets.
CreditAll(total, decisions) == total

\* What each decided track is credited with, delivered or skipped.
Credit(total, decisions) == total \div decisions

\* SfuRouter::forward, first section, with simulate_forward_batch.
ForwardDecide(w, r, packets) ==
    LET decided == RoomTracks(r)
        delivered == {t \in decided : WillDeliver(tracks[t])}
        total == packets * Cardinality(delivered)
    IN
    /\ batch[w] = None /\ decided # {}
    /\ SumFunction(sent) + total <= MaxSent
    /\ batch' = [batch EXCEPT ![w] =
          [room |-> r, decided |-> decided,
           credit |-> Credit(total, Cardinality(decided))]]
    /\ sent' = [t \in TrackId |-> IF t \in delivered THEN sent[t] + packets ELSE sent[t]]
    /\ UNCHANGED <<rooms, tracks, left>>

\* Second section: the registry may have changed in between.
ForwardCount(w) ==
    LET b == batch[w] IN
    /\ b # None
    /\ tracks' = [t \in TrackId |->
          IF t \in b.decided \cap RoomTracks(b.room)
          THEN [tracks[t] EXCEPT !.forwarded = @ + b.credit] ELSE tracks[t]]
    /\ batch' = [batch EXCEPT ![w] = None]
    /\ UNCHANGED <<rooms, sent, left>>

Next ==
    \/ \E r \in Room, p \in Peer, t \in TrackId : Publish(r, p, t)
    \/ \E p \in Peer, t \in TrackId : Subscribe(p, t)
    \/ \E p \in Peer, t \in TrackId : Unsubscribe(p, t)
    \/ \E r \in Room, p \in Peer : PeerLeft(r, p)
    \/ \E w \in Worker, r \in Room, n \in 1..MaxPackets : ForwardDecide(w, r, n)
    \/ \E w \in Worker : ForwardCount(w)

Spec == Init /\ [][Next]_vars

------------------------------------------------------------------------------
(* Properties. *)

WellFormed(track) ==
    /\ IF Present(track) THEN track.room \in Room ELSE track = NoTrack(track.state)
    /\ track.publisher \notin track.subscribers

\* Records are well formed; nobody is sent its own media back.
TypeOK ==
    /\ rooms \subseteq Room
    /\ tracks \in [TrackId -> Track]
    /\ \A t \in TrackId : WellFormed(tracks[t])
    /\ batch \in [Worker -> Batch \cup {None}]
    /\ sent \in [TrackId -> Nat]
    /\ left \subseteq Room \X Peer

\* The registry has an entry for exactly the rooms that have a track, so that
\* rooms nobody uses do not pile up.
NoEmptyRoom == \A r \in Room : r \in rooms <=> RoomTracks(r) # {}

\* A peer that left a room receives nothing from it, and of its own tracks only
\* ended ones remain, for those who still subscribe to them.
LeftNothingBehind ==
    \A t \in TrackId, p \in Peer :
        (Present(tracks[t]) /\ <<tracks[t].room, p>> \in left) =>
            /\ p \notin tracks[t].subscribers
            /\ tracks[t].publisher = p => tracks[t].state = "ended"

\* Nothing is left of who has gone: no entry for a room without tracks, and
\* nothing that is still sent to a peer, or live, after it left.
NothingLeftOver == NoEmptyRoom /\ LeftNothingBehind

\* One peer's request costs another peer nothing but what the first published:
\* whatever else loses a subscription in the step loses that of this peer, and
\* stays live when it was.
OthersUntouched ==
    [][\E p \in Peer \cup {None} : \A t \in TrackId :
          tracks[t].publisher # p =>
              /\ tracks[t].subscribers \ tracks'[t].subscribers \subseteq {p}
              /\ tracks[t].state = "live" => tracks'[t].state = "live"]_vars

\* What worker w will still add to the counters, at most.
Uncounted(w) ==
    IF batch[w] = None THEN 0 ELSE batch[w].credit * Cardinality(batch[w].decided)

\* The counters of all tracks together never exceed what was forwarded,
\* whatever joins, leaves or is forwarded between decision and counting.
NeverOvercounted ==
    SumFunction([t \in TrackId |-> tracks[t].forwarded])
      + SumFunction([w \in Worker |-> Uncounted(w)])
    <= SumFunction(sent)
==============================================================================
