----------------------------- MODULE Tracks_proofs -----------------------------
(***************************************************************************)
(* Proofs about Tracks: the registry stays well formed, who leaves a room  *)
(* leaves nothing behind, and nobody's request costs another peer a        *)
(* subscription - for any rooms, peers, tracks and forwarding threads.     *)
(***************************************************************************)
EXTENDS Tracks, FiniteSetTheorems, WellFoundedInduction, TLAPS

------------------------------------------------------------------------------
(* Type correctness. *)

\* What leaving makes of a track in the room is a track again.
LEMMA LeftTypes ==
    ASSUME NEW track \in Track, NEW p \in Peer
    PROVE  /\ Left(track, p) \in Track
           /\ Swept(Left(track, p)) \in Track
           /\ NoTrack("unused") \in Track /\ NoTrack("gone") \in Track
  <1>1. Left(track, p) \in Track
    BY DEF Left, Track
  <1>2. NoTrack("unused") \in Track /\ NoTrack("gone") \in Track
    BY DEF NoTrack, Track
  <1> QED
    BY <1>1, <1>2 DEF Swept

\* What leaving does to a track, field by field: the track loses p, ends if it
\* is p's, and goes if it has then ended and nobody is left.
LEMMA LeftEffect ==
    ASSUME NEW track \in Track, NEW p \in Peer
    PROVE  LET after == Swept(Left(track, p)) IN
           \/ /\ after = NoTrack("gone") /\ track.subscribers \subseteq {p}
              /\ track.publisher = p \/ track.state = "ended"
           \/ /\ after.subscribers = track.subscribers \ {p}
              /\ after.publisher = track.publisher /\ after.room = track.room
              /\ after.state = IF track.publisher = p THEN "ended" ELSE track.state
  <1> DEFINE l == Left(track, p)
  <1>1. /\ l.subscribers = track.subscribers \ {p}
        /\ l.publisher = track.publisher /\ l.room = track.room
        /\ l.state = IF track.publisher = p THEN "ended" ELSE track.state
    BY DEF Left, Track
  <1>2. CASE l.state = "ended" /\ l.subscribers = {}
    <2>1. Swept(l) = NoTrack("gone")
      BY <1>2 DEF Swept
    <2>2. /\ track.subscribers \subseteq {p}
          /\ track.publisher = p \/ track.state = "ended"
      BY <1>1, <1>2
    <2> QED
      BY <2>1, <2>2
  <1>3. CASE ~(l.state = "ended" /\ l.subscribers = {})
    <2>1. Swept(l) = l
      BY <1>3 DEF Swept
    <2> QED
      BY <1>1, <2>1
  <1> QED
    BY <1>2, <1>3

\* Every step keeps the types.
LEMMA StepType == TypeOK /\ [Next]_vars => TypeOK'
  <1> SUFFICES ASSUME TypeOK, [Next]_vars PROVE TypeOK'
    OBVIOUS
  <1>1. /\ rooms \subseteq Room /\ tracks \in [TrackId -> Track]
        /\ batch \in [Worker -> Batch \cup {None}] /\ sent \in [TrackId -> Nat]
        /\ left \subseteq Room \X Peer
        /\ \A t \in TrackId : WellFormed(tracks[t])
    BY DEF TypeOK
  <1>2. ASSUME NEW r \in Room, NEW p \in Peer, NEW t \in TrackId, Publish(r, p, t)
        PROVE  TypeOK'
    <2>1. [room |-> r, publisher |-> p, state |-> "live", subscribers |-> {},
           forwarded |-> 0] \in Track
      BY DEF Track
    <2>2. tracks' \in [TrackId -> Track]
      BY <1>1, <1>2, <2>1 DEF Publish, NewTrack
    <2> QED
      BY <1>1, <1>2, <2>2 DEF Publish, NewTrack, TypeOK, WellFormed, Present
  <1>3. ASSUME NEW p \in Peer, NEW t \in TrackId, Subscribe(p, t) PROVE TypeOK'
    <2>1. tracks' \in [TrackId -> Track]
      BY <1>1, <1>3 DEF Subscribe, Track
    <2>2. ASSUME NEW u \in TrackId
          PROVE  WellFormed(tracks'[u])
      BY <1>1, <1>3 DEF Subscribe, MaySubscribe, WellFormed, Present, Track
    <2> QED
      BY <1>1, <1>3, <2>1, <2>2 DEF Subscribe, TypeOK
  <1>4. ASSUME NEW p \in Peer, NEW t \in TrackId, Unsubscribe(p, t) PROVE TypeOK'
    <2>1. tracks' \in [TrackId -> Track]
      BY <1>1, <1>4 DEF Unsubscribe, MayUnsubscribe, Track
    <2>2. ASSUME NEW u \in TrackId
          PROVE  WellFormed(tracks'[u])
      <3>1. CASE u = t
        <4>1. Present(tracks[t])
          BY <1>1, <1>4 DEF Unsubscribe, MayUnsubscribe, WellFormed, NoTrack
        <4> QED
          BY <1>1, <1>4, <3>1, <4>1 DEF Unsubscribe, MayUnsubscribe, WellFormed, Present, Track
      <3>2. CASE u # t
        BY <1>1, <1>4, <3>2 DEF Unsubscribe, MayUnsubscribe
      <3> QED
        BY <3>1, <3>2
    <2> QED
      BY <1>1, <1>4, <2>1, <2>2 DEF Unsubscribe, MayUnsubscribe, TypeOK
  <1>5. ASSUME NEW r \in Room, NEW p \in Peer, PeerLeft(r, p) PROVE TypeOK'
    <2>1. ASSUME NEW t \in TrackId
          PROVE  tracks'[t] = IF t \in RoomTracks(r)
                              THEN Swept(Left(tracks[t], p)) ELSE tracks[t]
      BY <1>5 DEF PeerLeft
    <2>2. ASSUME NEW t \in TrackId PROVE tracks'[t] \in Track
      BY <1>1, <2>1, LeftTypes
    <2>3. ASSUME NEW t \in TrackId
          PROVE  WellFormed(tracks'[t])
      <3>1. CASE t \in RoomTracks(r)
        <4>1. Present(tracks[t]) /\ WellFormed(tracks[t])
          BY <1>1, <3>1 DEF RoomTracks
        <4>2. CASE tracks'[t] = NoTrack("gone")
          BY <4>2 DEF WellFormed, NoTrack, Present
        <4>3. CASE tracks'[t] # NoTrack("gone")
          BY <1>1, <2>1, <3>1, <4>1, <4>3, LeftEffect DEF WellFormed, Present
        <4> QED
          BY <4>2, <4>3
      <3>2. CASE t \notin RoomTracks(r)
        BY <1>1, <2>1, <3>2
      <3> QED
        BY <3>1, <3>2
    <2>4. tracks' \in [TrackId -> Track]
      BY <1>5, <2>2 DEF PeerLeft
    <2>5. rooms' \subseteq Room /\ left' \subseteq Room \X Peer
      <3>1. left' = left \cup {<<r, p>>}
        BY <1>5 DEF PeerLeft
      <3>2. rooms' \subseteq rooms
        BY <1>5 DEF PeerLeft, WithoutEmpty
      <3> QED
        BY <1>1, <3>1, <3>2
    <2> QED
      BY <1>1, <1>5, <2>3, <2>4, <2>5 DEF PeerLeft, TypeOK
  <1>6. ASSUME NEW w \in Worker, NEW r \in Room, NEW n \in 1..MaxPackets,
               ForwardDecide(w, r, n)
        PROVE  TypeOK'
    <2> DEFINE decided == RoomTracks(r)
               delivered == {t \in decided : WillDeliver(tracks[t])}
    <2>1. decided \subseteq TrackId /\ decided # {}
      BY <1>6 DEF ForwardDecide, RoomTracks
    <2>2. IsFiniteSet(decided) /\ IsFiniteSet(delivered)
      BY <2>1, FiniteAssumption, FS_Subset
    <2>3. Cardinality(decided) \in Nat /\ Cardinality(delivered) \in Nat
      BY <2>2, FS_CardinalityType
    <2>4. Cardinality(decided) # 0
      BY <2>1, <2>2, FS_EmptySet
    <2>5. Credit(n * Cardinality(delivered), Cardinality(decided)) \in Nat
      <3>1. n * Cardinality(delivered) \in Nat
        BY <2>3, BoundAssumption
      <3> QED
        BY <2>3, <2>4, <3>1 DEF Credit
    <2>6. batch' \in [Worker -> Batch \cup {None}]
      BY <1>1, <1>6, <2>1, <2>5 DEF ForwardDecide, Batch
    <2>7. sent' \in [TrackId -> Nat]
      BY <1>1, <1>6, BoundAssumption DEF ForwardDecide
    <2> QED
      BY <1>1, <1>6, <2>6, <2>7 DEF ForwardDecide, TypeOK
  <1>7. ASSUME NEW w \in Worker, ForwardCount(w) PROVE TypeOK'
    <2>1. batch[w] \in Batch
      BY <1>1, <1>7 DEF ForwardCount
    <2>2. batch[w].credit \in Nat
      BY <2>1 DEF Batch
    <2>3. tracks' \in [TrackId -> Track]
      BY <1>1, <1>7, <2>2, SMTT(30) DEF ForwardCount, Track
    <2>4. ASSUME NEW t \in TrackId PROVE WellFormed(tracks'[t])
      <3>1. CASE t \in RoomTracks(batch[w].room)
        <4>1. Present(tracks[t])
          BY <3>1 DEF RoomTracks
        <4>2. /\ tracks'[t].room = tracks[t].room
              /\ tracks'[t].publisher = tracks[t].publisher
              /\ tracks'[t].state = tracks[t].state
              /\ tracks'[t].subscribers = tracks[t].subscribers
          BY <1>1, <1>7 DEF ForwardCount, Track
        <4> QED
          BY <1>1, <4>1, <4>2 DEF WellFormed, Present
      <3>2. CASE t \notin RoomTracks(batch[w].room)
        BY <1>1, <1>7, <3>2 DEF ForwardCount
      <3> QED
        BY <3>1, <3>2
    <2>5. batch' \in [Worker -> Batch \cup {None}]
      BY <1>1, <1>7 DEF ForwardCount
    <2> QED
      BY <1>1, <1>7, <2>3, <2>4, <2>5 DEF ForwardCount, TypeOK
  <1>8. CASE UNCHANGED vars
    BY <1>1, <1>8 DEF vars, TypeOK
  <1> QED
    BY <1>2, <1>3, <1>4, <1>5, <1>6, <1>7, <1>8 DEF Next

\* The initial state is type correct.
LEMMA InitType == Init => TypeOK
  <1> SUFFICES ASSUME Init PROVE TypeOK
    OBVIOUS
  <1>1. NoTrack("unused") \in Track
    BY DEF NoTrack, Track
  <1> QED
    BY <1>1 DEF Init, TypeOK, WellFormed, Present, NoTrack

\* The registry stays well formed, and nobody subscribes to its own track.
THEOREM TypeCorrect == Spec => []TypeOK
  BY InitType, StepType, PTL DEF Spec

------------------------------------------------------------------------------
(* Who leaves, and the rooms that remain. *)

IInv == TypeOK /\ NoEmptyRoom /\ LeftNothingBehind

\* A step that changes no more than counters of tracks keeps both invariants.
LEMMA CountersOnly ==
    ASSUME NoEmptyRoom, LeftNothingBehind, UNCHANGED <<rooms, left>>,
           \A t \in TrackId : /\ tracks'[t].room = tracks[t].room
                              /\ tracks'[t].publisher = tracks[t].publisher
                              /\ tracks'[t].state = tracks[t].state
                              /\ tracks'[t].subscribers = tracks[t].subscribers
    PROVE  NoEmptyRoom' /\ LeftNothingBehind'
  BY DEF NoEmptyRoom, RoomTracks, LeftNothingBehind, Present

\* After p's leaving a track is what it was, or p is out of it.
LEMMA PeerLeftEffect ==
    ASSUME TypeOK, NEW r \in Room, NEW p \in Peer, PeerLeft(r, p), NEW t \in TrackId
    PROVE  /\ t \notin RoomTracks(r) => tracks'[t] = tracks[t]
           /\ t \in RoomTracks(r) =>
                \/ /\ tracks'[t] = NoTrack("gone") /\ tracks[t].subscribers \subseteq {p}
                   /\ tracks[t].publisher = p \/ tracks[t].state = "ended"
                \/ /\ tracks'[t].subscribers = tracks[t].subscribers \ {p}
                   /\ tracks'[t].publisher = tracks[t].publisher
                   /\ tracks'[t].room = tracks[t].room
                   /\ tracks'[t].state = IF tracks[t].publisher = p THEN "ended"
                                         ELSE tracks[t].state
  <1>1. tracks'[t] = IF t \in RoomTracks(r)
                     THEN Swept(Left(tracks[t], p)) ELSE tracks[t]
    BY DEF PeerLeft
  <1>2. tracks[t] \in Track
    BY DEF TypeOK
  <1> QED
    BY <1>1, <1>2, LeftEffect

\* Every step keeps IInv.
LEMMA StepInv == IInv /\ [Next]_vars => IInv'
  <1> SUFFICES ASSUME IInv, [Next]_vars PROVE NoEmptyRoom' /\ LeftNothingBehind'
    BY StepType DEF IInv
  <1>1. /\ tracks \in [TrackId -> Track] /\ TypeOK /\ NoEmptyRoom /\ LeftNothingBehind
    BY DEF IInv, TypeOK
  <1>2. ASSUME NEW r \in Room, NEW p \in Peer, NEW t \in TrackId, Publish(r, p, t)
        PROVE  NoEmptyRoom' /\ LeftNothingBehind'
    <2>1. /\ tracks'[t] = [room |-> r, publisher |-> p, state |-> "live",
                           subscribers |-> {}, forwarded |-> 0]
          /\ \A u \in TrackId \ {t} : tracks'[u] = tracks[u]
          /\ rooms' = rooms \cup {r} /\ left' = left \ {<<r, p>>}
          /\ ~Present(tracks[t])
      BY <1>1, <1>2 DEF Publish, NewTrack, Present
    <2>2. NoEmptyRoom'
      <3>1. RoomTracks(r)' = RoomTracks(r) \cup {t}
        BY <2>1 DEF RoomTracks, Present
      <3>2. \A s \in Room \ {r} : RoomTracks(s)' = RoomTracks(s)
        BY <2>1 DEF RoomTracks, Present
      <3> QED
        BY <1>1, <2>1, <3>1, <3>2 DEF NoEmptyRoom
    <2>3. LeftNothingBehind'
      <3> SUFFICES ASSUME NEW u \in TrackId, NEW q \in Peer, Present(tracks'[u]),
                          <<tracks'[u].room, q>> \in left'
                   PROVE  /\ q \notin tracks'[u].subscribers
                          /\ tracks'[u].publisher = q => tracks'[u].state = "ended"
        BY DEF LeftNothingBehind, Present
      <3>1. CASE u = t
        BY <2>1, <3>1
      <3>2. CASE u # t
        BY <1>1, <2>1, <3>2 DEF LeftNothingBehind
      <3> QED
        BY <3>1, <3>2
    <2> QED
      BY <2>2, <2>3
  <1>3. ASSUME NEW p \in Peer, NEW t \in TrackId, Subscribe(p, t)
        PROVE  NoEmptyRoom' /\ LeftNothingBehind'
    <2>1. \A u \in TrackId :
            /\ tracks'[u].room = tracks[u].room
            /\ tracks'[u].publisher = tracks[u].publisher
            /\ tracks'[u].state = tracks[u].state
            /\ tracks'[u].subscribers = IF u = t THEN tracks[u].subscribers \cup {p}
                                        ELSE tracks[u].subscribers
      BY <1>1, <1>3 DEF Subscribe, Track
    <2>2. rooms' = rooms /\ left' = left \ {<<tracks[t].room, p>>}
      BY <1>3 DEF Subscribe
    <2>3. NoEmptyRoom'
      <3>1. \A r \in Room : RoomTracks(r)' = RoomTracks(r)
        BY <2>1 DEF RoomTracks, Present
      <3> QED
        BY <1>1, <2>2, <3>1 DEF NoEmptyRoom
    <2>4. LeftNothingBehind'
      BY <1>1, <2>1, <2>2, ZenonT(60) DEF LeftNothingBehind, Present
    <2> QED
      BY <2>3, <2>4
  <1>4. ASSUME NEW p \in Peer, NEW t \in TrackId, Unsubscribe(p, t)
        PROVE  NoEmptyRoom' /\ LeftNothingBehind'
    <2>1. \A u \in TrackId :
            /\ tracks'[u].room = tracks[u].room
            /\ tracks'[u].publisher = tracks[u].publisher
            /\ tracks'[u].state = tracks[u].state
            /\ tracks'[u].subscribers \subseteq tracks[u].subscribers
      BY <1>1, <1>4 DEF Unsubscribe, MayUnsubscribe, Track
    <2> QED
      BY <1>1, <1>4, <2>1 DEF Unsubscribe, MayUnsubscribe, NoEmptyRoom, RoomTracks, LeftNothingBehind, Present
  <1>5. ASSUME NEW r \in Room, NEW p \in Peer, PeerLeft(r, p)
        PROVE  NoEmptyRoom' /\ LeftNothingBehind'
    <2>1. LeftNothingBehind'
      <3> SUFFICES ASSUME NEW t \in TrackId, NEW q \in Peer, Present(tracks'[t]),
                          <<tracks'[t].room, q>> \in left'
                   PROVE  /\ q \notin tracks'[t].subscribers
                          /\ tracks'[t].publisher = q => tracks'[t].state = "ended"
        BY DEF LeftNothingBehind, Present
      <3>1. left' = left \cup {<<r, p>>}
        BY <1>5 DEF PeerLeft
      <3>2. CASE t \in RoomTracks(r)
        <4>1. tracks[t].room = r /\ Present(tracks[t])
          BY <3>2 DEF RoomTracks
        <4>2. /\ tracks'[t].subscribers = tracks[t].subscribers \ {p}
              /\ tracks'[t].publisher = tracks[t].publisher
              /\ tracks'[t].room = r
              /\ tracks'[t].state = IF tracks[t].publisher = p THEN "ended"
                                    ELSE tracks[t].state
          BY <1>1, <1>5, <3>2, <4>1, PeerLeftEffect DEF NoTrack, Present
        <4>3. CASE q = p
          BY <4>2, <4>3
        <4>4. CASE q # p
          BY <1>1, <3>1, <4>1, <4>2, <4>4 DEF LeftNothingBehind
        <4> QED
          BY <4>3, <4>4
      <3>3. CASE t \notin RoomTracks(r)
        <4>1. tracks'[t] = tracks[t]
          BY <1>1, <1>5, <3>3, PeerLeftEffect
        <4>2. Present(tracks[t]) /\ tracks[t].room # r
          BY <3>3, <4>1 DEF RoomTracks
        <4> QED
          BY <1>1, <3>1, <4>1, <4>2 DEF LeftNothingBehind
      <3> QED
        BY <3>2, <3>3
    <2>2. NoEmptyRoom'
      <3> DEFINE remaining == {t \in RoomTracks(r) : Present(tracks'[t])}
      <3>1. rooms' = WithoutEmpty(r, remaining)
        <4>1. \A t \in RoomTracks(r) : tracks'[t] = Swept(Left(tracks[t], p))
          BY <1>5 DEF PeerLeft, RoomTracks
        <4>2. remaining = {t \in RoomTracks(r) :
                             Present([u \in RoomTracks(r) |->
                                        Swept(Left(tracks[u], p))][t])}
          BY <4>1 DEF Present
        <4> QED
          BY <1>5, <4>2 DEF PeerLeft
      <3>2. r \in rooms
        BY <1>5 DEF PeerLeft
      <3>3. ASSUME NEW t \in TrackId
            PROVE  /\ Present(tracks'[t]) /\ tracks'[t].room = r <=> t \in remaining
                   /\ \A s \in Room \ {r} :
                        Present(tracks'[t]) /\ tracks'[t].room = s <=>
                          Present(tracks[t]) /\ tracks[t].room = s
        <4>1. CASE t \in RoomTracks(r)
          BY <1>1, <1>5, <4>1, PeerLeftEffect DEF RoomTracks, NoTrack, Present
        <4>2. CASE t \notin RoomTracks(r)
          BY <1>1, <1>5, <4>2, PeerLeftEffect DEF RoomTracks, Present
        <4> QED
          BY <4>1, <4>2
      <3>4. RoomTracks(r)' = remaining
        BY <3>3 DEF RoomTracks
      <3>5. \A s \in Room \ {r} : RoomTracks(s)' = RoomTracks(s)
        BY <3>3 DEF RoomTracks
      <3> HIDE DEF remaining
      <3> QED
        BY <1>1, <3>1, <3>2, <3>4, <3>5 DEF WithoutEmpty, NoEmptyRoom
    <2> QED
      BY <2>1, <2>2
  <1>6. ASSUME NEW w \in Worker, NEW r \in Room, NEW n \in 1..MaxPackets,
               ForwardDecide(w, r, n)
        PROVE  NoEmptyRoom' /\ LeftNothingBehind'
    BY <1>1, <1>6, CountersOnly DEF ForwardDecide
  <1>7. ASSUME NEW w \in Worker, ForwardCount(w)
        PROVE  NoEmptyRoom' /\ LeftNothingBehind'
    <2>1. \A t \in TrackId : /\ tracks'[t].room = tracks[t].room
                             /\ tracks'[t].publisher = tracks[t].publisher
                             /\ tracks'[t].state = tracks[t].state
                             /\ tracks'[t].subscribers = tracks[t].subscribers
      BY <1>1, <1>7 DEF ForwardCount, Track
    <2> QED
      BY <1>1, <1>7, <2>1, CountersOnly DEF ForwardCount
  <1>8. CASE UNCHANGED vars
    BY <1>1, <1>8, CountersOnly DEF vars
  <1> QED
    BY <1>2, <1>3, <1>4, <1>5, <1>6, <1>7, <1>8 DEF Next

\* IInv is an invariant.
THEOREM Inductive == Spec => []IInv
  <1>1. Init => IInv
    <2> SUFFICES ASSUME Init PROVE NoEmptyRoom /\ LeftNothingBehind
      BY InitType DEF IInv
    <2>1. \A t \in TrackId : ~Present(tracks[t])
      BY DEF Init, Present, NoTrack
    <2> QED
      BY <2>1 DEF Init, NoEmptyRoom, RoomTracks, LeftNothingBehind
  <1> QED
    BY <1>1, StepInv, PTL DEF Spec

\* The registry holds no entry for a room without tracks; a peer that left is
\* subscribed to nothing and publishes nothing any more.
THEOREM LeaversLeave == Spec => []NothingLeftOver
  BY Inductive, PTL DEF IInv, NothingLeftOver

------------------------------------------------------------------------------
(* What a request costs the other peers. *)

\* The requests of p cost the others nothing on a track that it did not publish.
Spared(p, t) ==
    tracks[t].publisher # p =>
        /\ tracks[t].subscribers \ tracks'[t].subscribers \subseteq {p}
        /\ tracks[t].state = "live" => tracks'[t].state = "live"

\* Every step has a peer whose request it is, or none.
LEMMA StepIsolated ==
    ASSUME TypeOK, [Next]_vars
    PROVE  \E p \in Peer \cup {None} : \A t \in TrackId : Spared(p, t)
  <1>1. tracks \in [TrackId -> Track]
    BY DEF TypeOK
  <1>2. ASSUME NEW r \in Room, NEW p \in Peer, NEW t \in TrackId, Publish(r, p, t)
        PROVE  \A u \in TrackId : Spared(p, u)
    BY <1>1, <1>2 DEF Publish, NewTrack, TypeOK, WellFormed, NoTrack, Present, Track, Spared
  <1>3. ASSUME NEW p \in Peer, NEW t \in TrackId, Subscribe(p, t)
        PROVE  \A u \in TrackId : Spared(p, u)
    BY <1>1, <1>3 DEF Subscribe, Track, Spared
  <1>4. ASSUME NEW p \in Peer, NEW t \in TrackId, Unsubscribe(p, t)
        PROVE  \A u \in TrackId : Spared(p, u)
    BY <1>1, <1>4 DEF Unsubscribe, Track, Spared
  <1>5. ASSUME NEW r \in Room, NEW p \in Peer, PeerLeft(r, p)
        PROVE  \A u \in TrackId : Spared(p, u)
    <2> SUFFICES ASSUME NEW u \in TrackId, tracks[u].publisher # p PROVE Spared(p, u)
      BY DEF Spared
    <2>1. CASE u \notin RoomTracks(r)
      BY <1>5, <2>1, PeerLeftEffect DEF Spared
    <2>2. CASE u \in RoomTracks(r)
      BY <1>5, <2>2, PeerLeftEffect DEF Spared
    <2> QED
      BY <2>1, <2>2
  <1>6. ASSUME NEW w \in Worker, ForwardCount(w)
        PROVE  \A u \in TrackId : Spared(None, u)
    BY <1>1, <1>6 DEF ForwardCount, Track, Spared
  <1>7. ASSUME UNCHANGED tracks PROVE \A u \in TrackId : Spared(None, u)
    BY <1>7 DEF Spared
  <1>8. CASE UNCHANGED vars
    BY <1>7, <1>8 DEF vars
  <1>9. ASSUME NEW w \in Worker, NEW r \in Room, NEW n \in 1..MaxPackets,
               ForwardDecide(w, r, n)
        PROVE  \A u \in TrackId : Spared(None, u)
    BY <1>7, <1>9 DEF ForwardDecide
  <1> QED
    BY <1>2, <1>3, <1>4, <1>5, <1>6, <1>8, <1>9 DEF Next

\* A request costs another peer only what the one who makes it published: all the
\* other subscriptions that the step ends are its own, and no other track ends.
THEOREM PeersIsolated == Spec => OthersUntouched
  <1>1. TypeOK /\ [Next]_vars =>
          [\E p \in Peer \cup {None} : \A t \in TrackId :
              tracks[t].publisher # p =>
                  /\ tracks[t].subscribers \ tracks'[t].subscribers \subseteq {p}
                  /\ tracks[t].state = "live" => tracks'[t].state = "live"]_vars
    BY StepIsolated DEF Spared
  <1> QED
    BY <1>1, TypeCorrect, PTL DEF Spec, OthersUntouched

------------------------------------------------------------------------------
(* Sums.  SumFunction(f) folds f over the subsets of its domain; the prover *)
(* does not instantiate the library's induction theorems, so the induction  *)
(* is on sets: a set of subsets that every step extends has all of them.    *)

\* A nonempty set of naturals has a least element.
LEMMA LeastOne ==
    ASSUME NEW N \in SUBSET Nat, N # {}
    PROVE  \E n \in N : \A m \in N : n <= m
  <1>1. PICK n \in N : \A m \in N : <<m, n>> \notin OpToRel(<, Nat)
    BY NatLessThanWellFounded, WFMin
  <1>2. ASSUME NEW m \in N PROVE n <= m
    <2>1. ~(m < n)
      BY <1>1 DEF OpToRel
    <2> QED
      BY <2>1
  <1> QED
    BY <1>2

\* The element that a fold takes from a set next.
Pick(s) == CHOOSE x \in s : TRUE

\* A set of subsets of S that holds the empty one, and every one whose rest
\* after a pick it holds, holds all.
LEMMA Subsets ==
    ASSUME NEW S, IsFiniteSet(S), NEW Good, {} \in Good,
           \A s \in SUBSET S : s # {} /\ s \ {Pick(s)} \in Good => s \in Good
    PROVE  \A s \in SUBSET S : s \in Good
  <1> SUFFICES ASSUME NEW b \in SUBSET S, b \notin Good PROVE FALSE
    OBVIOUS
  <1> DEFINE Sizes == {Cardinality(s) : s \in (SUBSET S) \ Good}
  <1>1. \A s \in SUBSET S : IsFiniteSet(s) /\ Cardinality(s) \in Nat
    BY FS_Subset, FS_CardinalityType
  <1>2. Sizes \in SUBSET Nat /\ Sizes # {}
    BY <1>1
  <1>3. PICK n \in Sizes : \A m \in Sizes : n <= m
    BY <1>2, LeastOne
  <1>4. PICK s \in (SUBSET S) \ Good : n = Cardinality(s)
    OBVIOUS
  <1>5. s # {} /\ Pick(s) \in s
    BY <1>4 DEF Pick
  <1>6. Cardinality(s \ {Pick(s)}) = n - 1 /\ n \in Nat
    BY <1>1, <1>4, <1>5, FS_RemoveElement
  <1>7. s \ {Pick(s)} \notin Good /\ s \ {Pick(s)} \in SUBSET S
    BY <1>4, <1>5
  <1>8. n - 1 \in Sizes
    BY <1>6, <1>7
  <1> QED
    BY <1>3, <1>6, <1>8

\* The sums of f over the subsets of its domain, as the fold computes them.
Sums(f) ==
    LET iter[s \in SUBSET DOMAIN f] ==
          IF s = {} THEN 0 ELSE LET x == CHOOSE y \in s : TRUE IN f[x] + iter[s \ {x}]
    IN  iter

LEMMA SumOfAll ==
    ASSUME NEW f PROVE SumFunction(f) = Sums(f)[DOMAIN f]
  BY DEF SumFunction, SumFunctionOnSet, FoldFunctionOnSet, MapThenFoldSet, Sums

\* g holds the sums of f over the sets in D.
Adds(g, f, D) ==
    g = [s \in D |-> IF s = {} THEN 0 ELSE f[Pick(s)] + g[s \ {Pick(s)}]]

\* The recursion has a solution: one for the sets of at most n elements gives
\* one for those of n + 1.
LEMMA Solution ==
    ASSUME NEW f, IsFiniteSet(DOMAIN f)
    PROVE  \E g : Adds(g, f, SUBSET DOMAIN f)
  <1> DEFINE S == DOMAIN f
             D(n) == {s \in SUBSET S : Cardinality(s) <= n}
             Without == {n \in Nat : ~\E g : Adds(g, f, D(n))}
  <1>1. \A s \in SUBSET S : /\ IsFiniteSet(s) /\ Cardinality(s) \in Nat
                            /\ Cardinality(s) <= Cardinality(S)
    BY FS_Subset, FS_CardinalityType
  <1>2. ASSUME NEW n \in Without PROVE FALSE
    <2> HIDE DEF Without
    <2>1. Without \in SUBSET Nat /\ Without # {}
      BY <1>2 DEF Without
    <2>2. PICK m \in Without : \A k \in Without : m <= k
      BY <2>1, LeastOne
    <2>3. m # 0
      <3>1. ASSUME NEW s \in D(0) PROVE s = {}
        BY <1>1, FS_EmptySet
      <3>2. Adds([s \in D(0) |-> 0], f, D(0))
        BY <3>1 DEF Adds
      <3> QED
        BY <3>2 DEF Without
    <2>4. m - 1 \in Nat /\ m - 1 \notin Without /\ m \in Nat
      BY <2>1, <2>2, <2>3
    <2>5. PICK g : Adds(g, f, D(m - 1))
      BY <2>4 DEF Without
    <2> DEFINE h == [s \in D(m) |-> IF s = {} THEN 0 ELSE f[Pick(s)] + g[s \ {Pick(s)}]]
    <2>6. ASSUME NEW s \in D(m), s # {}
          PROVE  s \ {Pick(s)} \in D(m - 1) /\ s \ {Pick(s)} \in D(m)
      <3>1. Pick(s) \in s
        BY <2>6 DEF Pick
      <3>2. Cardinality(s \ {Pick(s)}) = Cardinality(s) - 1
        BY <1>1, <3>1, FS_RemoveElement
      <3> QED
        BY <1>1, <2>4, <3>2
    <2>7. ASSUME NEW s \in D(m - 1) PROVE h[s] = g[s]
      <3>1. s \in D(m)
        BY <1>1, <2>4
      <3>2. g[s] = IF s = {} THEN 0 ELSE f[Pick(s)] + g[s \ {Pick(s)}]
        BY <2>5 DEF Adds
      <3> QED
        BY <3>1, <3>2
    <2>8. Adds(h, f, D(m))
      <3> HIDE DEF D
      <3> SUFFICES h = [s \in D(m) |-> IF s = {} THEN 0 ELSE f[Pick(s)] + h[s \ {Pick(s)}]]
        BY DEF Adds
      <3>1. \A s \in D(m) : s # {} => h[s \ {Pick(s)}] = g[s \ {Pick(s)}]
        BY <2>6, <2>7
      <3> QED
        BY <3>1
    <2> QED
      BY <2>2, <2>8 DEF Without
  <1>3. Cardinality(S) \in Nat /\ D(Cardinality(S)) = SUBSET S
    BY <1>1, FS_CardinalityType
  <1>4. Cardinality(S) \notin Without
    BY <1>2
  <1>5. \E g : Adds(g, f, D(Cardinality(S)))
    BY <1>3, <1>4
  <1> QED
    BY <1>3, <1>5

\* So the sums obey it.
LEMMA SumSteps ==
    ASSUME NEW f, IsFiniteSet(DOMAIN f)
    PROVE  /\ Sums(f)[{}] = 0
           /\ \A s \in SUBSET DOMAIN f :
                s # {} => /\ Pick(s) \in s
                          /\ Sums(f)[s] = f[Pick(s)] + Sums(f)[s \ {Pick(s)}]
  <1>1. Sums(f) = CHOOSE g : Adds(g, f, SUBSET DOMAIN f)
    BY DEF Sums, Adds, Pick
  <1>2. Adds(Sums(f), f, SUBSET DOMAIN f)
    BY <1>1, Solution
  <1>3. \A s \in SUBSET DOMAIN f :
          Sums(f)[s] = IF s = {} THEN 0 ELSE f[Pick(s)] + Sums(f)[s \ {Pick(s)}]
    BY <1>2 DEF Adds
  <1>4. \A s \in SUBSET DOMAIN f : s # {} => Pick(s) \in s
    BY DEF Pick
  <1> QED
    BY <1>3, <1>4

\* A sum grows with its terms.
LEMMA SumGrows ==
    ASSUME NEW S, IsFiniteSet(S), NEW f \in [S -> Nat], NEW g \in [S -> Nat],
           \A x \in S : f[x] <= g[x]
    PROVE  /\ SumFunction(f) \in Nat /\ SumFunction(g) \in Nat
           /\ SumFunction(f) <= SumFunction(g)
  <1> DEFINE Good == {s \in SUBSET S : /\ Sums(f)[s] \in Nat /\ Sums(g)[s] \in Nat
                                       /\ Sums(f)[s] <= Sums(g)[s]}
  <1>1. {} \in Good
    BY SumSteps
  <1>2. ASSUME NEW s \in SUBSET S, s # {}, s \ {Pick(s)} \in Good PROVE s \in Good
    <2>1. /\ Pick(s) \in S
          /\ Sums(f)[s] = f[Pick(s)] + Sums(f)[s \ {Pick(s)}]
          /\ Sums(g)[s] = g[Pick(s)] + Sums(g)[s \ {Pick(s)}]
      BY <1>2, SumSteps
    <2>2. /\ f[Pick(s)] \in Nat /\ g[Pick(s)] \in Nat /\ f[Pick(s)] <= g[Pick(s)]
      BY <2>1
    <2> QED
      BY <1>2, <2>1, <2>2
  <1>3. S \in Good
    <2> HIDE DEF Good
    <2> QED
      BY <1>1, <1>2, Subsets
  <1> QED
    BY <1>3, SumOfAll

\* A factor counts the terms of a product.
LEMMA Product == ASSUME NEW k \in Nat, NEW c \in Int PROVE k * c = k * (c - 1) + k
  OBVIOUS

\* A sum of naturals is a natural.
LEMMA SumType ==
    ASSUME NEW S, IsFiniteSet(S), NEW f \in [S -> Nat]
    PROVE  SumFunction(f) \in Nat
  <1>1. \A x \in S : f[x] <= f[x]
    OBVIOUS
  <1> QED
    BY <1>1, SumGrows

\* A product of naturals is a natural and grows with a factor.
LEMMA Products ==
    ASSUME NEW k \in Nat, NEW c \in Nat, NEW d \in Nat, c <= d
    PROVE  k * c \in Nat /\ k * d \in Nat /\ k * c <= k * d
  OBVIOUS

\* If k is added to the terms in D, k times the size of D is added to the sum.
LEMMA SumAdded ==
    ASSUME NEW S, IsFiniteSet(S), NEW f \in [S -> Nat], NEW g \in [S -> Nat],
           NEW D \in SUBSET S, NEW k \in Nat,
           \A x \in S : g[x] = IF x \in D THEN f[x] + k ELSE f[x]
    PROVE  /\ SumFunction(g) = SumFunction(f) + k * Cardinality(D)
           /\ Cardinality(D) \in Nat
  <1> DEFINE Good == {s \in SUBSET S : /\ Sums(f)[s] \in Nat
                                       /\ Sums(g)[s] = Sums(f)[s] + k * Cardinality(s \cap D)}
  <1>1. \A s \in SUBSET S : IsFiniteSet(s \cap D) /\ Cardinality(s \cap D) \in Nat
    BY FS_Subset, FS_CardinalityType
  <1>2. {} \in Good
    <2>1. Cardinality({} \cap D) = 0
      BY FS_EmptySet
    <2> QED
      BY <2>1, SumSteps
  <1>3. ASSUME NEW s \in SUBSET S, s # {}, s \ {Pick(s)} \in Good PROVE s \in Good
    <2> DEFINE x == Pick(s)
               rest == s \ {x}
    <2>1. /\ x \in s
          /\ Sums(f)[s] = f[x] + Sums(f)[rest]
          /\ Sums(g)[s] = g[x] + Sums(g)[rest]
      BY <1>3, SumSteps
    <2>2. f[x] \in Nat /\ g[x] = IF x \in D THEN f[x] + k ELSE f[x]
      BY <2>1
    <2>3. /\ Sums(f)[rest] \in Nat
          /\ Sums(g)[rest] = Sums(f)[rest] + k * Cardinality(rest \cap D)
      BY <1>3
    <2>4. IsFiniteSet(s \cap D) /\ Cardinality(s \cap D) \in Nat
      BY <1>1
    <2>5. CASE x \in D
      <3>1. rest \cap D = (s \cap D) \ {x} /\ x \in s \cap D
        BY <2>1, <2>5
      <3>2. Cardinality(rest \cap D) = Cardinality(s \cap D) - 1
        <4> HIDE DEF x, rest
        <4>1. Cardinality((s \cap D) \ {x}) = Cardinality(s \cap D) - 1
          BY <2>4, <3>1, FS_RemoveElement
        <4> QED
          BY <3>1, <4>1
      <3>3. k * Cardinality(s \cap D) = k * Cardinality(rest \cap D) + k
        BY <2>4, <3>2, Product
      <3>4. k * Cardinality(rest \cap D) \in Int
        BY <2>4, <3>2
      <3>5. Sums(f)[s] \in Nat
        BY <2>1, <2>2, <2>3
      <3>6. Sums(g)[s] = Sums(f)[s] + k * Cardinality(s \cap D)
        <4> HIDE DEF x, rest
        <4> QED
          BY <2>1, <2>2, <2>3, <2>5, <3>3, <3>4
      <3> QED
        BY <1>3, <3>5, <3>6
    <2>6. CASE x \notin D
      <3>1. rest \cap D = s \cap D
        BY <2>1, <2>6
      <3>2. k * Cardinality(rest \cap D) = k * Cardinality(s \cap D)
        BY <3>1
      <3>3. k * Cardinality(rest \cap D) \in Int
        <4>1. k * Cardinality(s \cap D) \in Int
          BY <2>4
        <4> QED
          BY <3>2, <4>1
      <3>4. /\ Sums(f)[s] \in Nat
            /\ Sums(g)[s] = Sums(f)[s] + k * Cardinality(s \cap D)
        <4> HIDE DEF x, rest
        <4>1. Sums(f)[s] \in Nat
          BY <2>1, <2>2, <2>3
        <4>2. Sums(g)[s] = Sums(f)[s] + k * Cardinality(rest \cap D)
          BY <2>1, <2>2, <2>3, <2>6, <3>3
        <4> QED
          BY <3>2, <4>1, <4>2
      <3> QED
        BY <1>3, <3>4
    <2> QED
      BY <2>5, <2>6
  <1>4. S \in Good
    <2> HIDE DEF Good
    <2> QED
      BY <1>2, <1>3, Subsets
  <1>5. S \cap D = D
    OBVIOUS
  <1> QED
    BY <1>1, <1>4, <1>5, SumOfAll

\* A sum of zeros is zero.
LEMMA SumOfZeros ==
    ASSUME NEW S, IsFiniteSet(S)
    PROVE  SumFunction([x \in S |-> 0]) = 0
  <1> DEFINE f == [x \in S |-> 0]
             Good == {s \in SUBSET S : Sums(f)[s] = 0}
  <1>1. DOMAIN f = S /\ \A x \in S : f[x] = 0
    OBVIOUS
  <1> HIDE DEF f
  <1>2. {} \in Good
    BY <1>1, SumSteps
  <1>3. ASSUME NEW s \in SUBSET S, s # {}, s \ {Pick(s)} \in Good PROVE s \in Good
    <2>1. Pick(s) \in S /\ Sums(f)[s] = f[Pick(s)] + Sums(f)[s \ {Pick(s)}]
      BY <1>1, <1>3, SumSteps
    <2> QED
      BY <1>1, <1>3, <2>1
  <1>4. S \in Good
    <2> HIDE DEF Good
    <2> QED
      BY <1>2, <1>3, Subsets
  <1>5. SumFunction(f) = 0
    BY <1>1, <1>4, SumOfAll
  <1> QED
    BY <1>5 DEF f

\* If k is added to one term.
LEMMA SumOneMore ==
    ASSUME NEW S, IsFiniteSet(S), NEW f \in [S -> Nat], NEW g \in [S -> Nat],
           NEW x \in S, NEW k \in Nat, g[x] = f[x] + k,
           \A y \in S \ {x} : g[y] = f[y]
    PROVE  SumFunction(g) = SumFunction(f) + k
  <1>1. \A y \in S : g[y] = IF y \in {x} THEN f[y] + k ELSE f[y]
    OBVIOUS
  <1>2. SumFunction(g) = SumFunction(f) + k * Cardinality({x})
    BY <1>1, SumAdded
  <1>3. Cardinality({x}) = 1
    BY FS_Singleton
  <1>4. SumFunction(f) \in Nat
    BY SumType
  <1> QED
    BY <1>2, <1>3, <1>4

------------------------------------------------------------------------------
(* The counters never run ahead of what was forwarded. *)

\* What the tracks were credited with, and what the workers will still credit.
Forwarded == [t \in TrackId |-> tracks[t].forwarded]
Outstanding == [w \in Worker |-> Uncounted(w)]

\* All terms are naturals.
LEMMA TermTypes ==
    ASSUME TypeOK
    PROVE  /\ Forwarded \in [TrackId -> Nat] /\ sent \in [TrackId -> Nat]
           /\ Outstanding \in [Worker -> Nat]
           /\ \A w \in Worker : batch[w] # None =>
                /\ batch[w].credit \in Nat /\ batch[w].decided \in SUBSET TrackId
                /\ IsFiniteSet(batch[w].decided) /\ Cardinality(batch[w].decided) \in Nat
  <1>1. ASSUME NEW w \in Worker, batch[w] # None
        PROVE  /\ batch[w].credit \in Nat /\ batch[w].decided \in SUBSET TrackId
               /\ IsFiniteSet(batch[w].decided) /\ Cardinality(batch[w].decided) \in Nat
    <2>1. batch[w] \in Batch
      BY <1>1 DEF TypeOK
    <2>2. batch[w].credit \in Nat /\ batch[w].decided \in SUBSET TrackId
      BY <2>1 DEF Batch
    <2> QED
      BY <2>2, FiniteAssumption, FS_Subset, FS_CardinalityType
  <1>2. \A w \in Worker : Uncounted(w) \in Nat
    BY <1>1 DEF Uncounted
  <1>3. Forwarded \in [TrackId -> Nat] /\ sent \in [TrackId -> Nat]
    BY DEF TypeOK, Track, Forwarded
  <1> QED
    BY <1>1, <1>2, <1>3 DEF Outstanding

\* A step that credits no track more, and forwards and batches nothing.
LEMMA NoMore ==
    ASSUME TypeOK, TypeOK', NeverOvercounted, UNCHANGED <<batch, sent>>,
           \A t \in TrackId : tracks'[t].forwarded <= tracks[t].forwarded
    PROVE  NeverOvercounted'
  <1>1. Outstanding' = Outstanding
    BY DEF Outstanding, Uncounted
  <1>2. Forwarded \in [TrackId -> Nat] /\ Outstanding \in [Worker -> Nat]
        /\ sent \in [TrackId -> Nat]
    BY TermTypes
  <1>3. Forwarded' \in [TrackId -> Nat]
    BY DEF TypeOK, Track, Forwarded
  <1>4. \A t \in TrackId : Forwarded'[t] <= Forwarded[t]
    BY DEF Forwarded
  <1>5. /\ SumFunction(Forwarded') <= SumFunction(Forwarded)
        /\ SumFunction(Forwarded) \in Nat /\ SumFunction(Forwarded') \in Nat
    BY <1>2, <1>3, <1>4, SumGrows, FiniteAssumption
  <1>6. SumFunction(Outstanding) \in Nat /\ SumFunction(sent) \in Nat
    BY <1>2, SumType, FiniteAssumption
  <1>7. SumFunction(Forwarded) + SumFunction(Outstanding) <= SumFunction(sent)
    BY DEF NeverOvercounted, Forwarded, Outstanding
  <1>8. SumFunction(Forwarded') + SumFunction(Outstanding') <= SumFunction(sent')
    BY <1>1, <1>5, <1>6, <1>7
  <1> QED
    BY <1>8 DEF NeverOvercounted, Forwarded, Outstanding

\* Some worker decides on a batch: what it will credit is no more than what it
\* forwards, for the share is rounded down.
LEMMA DecideCounts ==
    ASSUME TypeOK, TypeOK', NeverOvercounted, NEW w \in Worker, NEW r \in Room,
           NEW n \in 1..MaxPackets, ForwardDecide(w, r, n)
    PROVE  NeverOvercounted'
  <1> DEFINE decided == RoomTracks(r)
             delivered == {t \in decided : WillDeliver(tracks[t])}
             total == n * Cardinality(delivered)
             share == Credit(total, Cardinality(decided))
  <1>1. /\ decided \in SUBSET TrackId /\ decided # {} /\ delivered \in SUBSET TrackId
        /\ n \in Nat /\ batch[w] = None
        /\ batch' = [batch EXCEPT ![w] = [room |-> r, decided |-> decided, credit |-> share]]
        /\ sent' = [t \in TrackId |-> IF t \in delivered THEN sent[t] + n ELSE sent[t]]
        /\ tracks' = tracks
    BY BoundAssumption DEF ForwardDecide, RoomTracks
  <1> HIDE DEF delivered
  <1>2. IsFiniteSet(decided) /\ Cardinality(decided) \in Nat /\ Cardinality(decided) # 0
        /\ Cardinality(delivered) \in Nat
    BY <1>1, FiniteAssumption, FS_Subset, FS_CardinalityType, FS_EmptySet
  <1> HIDE DEF decided
  <1>3. total \in Nat
    BY <1>1, <1>2
  <1> HIDE DEF total
  <1>4. share \in Nat /\ share * Cardinality(decided) <= total
    BY <1>2, <1>3 DEF Credit
  <1> HIDE DEF share
  <1>5. /\ Forwarded \in [TrackId -> Nat] /\ sent \in [TrackId -> Nat]
        /\ Outstanding \in [Worker -> Nat]
    BY TermTypes
  <1>6. /\ Forwarded' = Forwarded /\ sent' \in [TrackId -> Nat]
    BY <1>1, <1>5 DEF Forwarded
  <1>7. SumFunction(sent') = SumFunction(sent) + total
    <2>1. \A t \in TrackId : sent'[t] = IF t \in delivered THEN sent[t] + n ELSE sent[t]
      BY <1>1
    <2>2. SumFunction(sent') = SumFunction(sent) + n * Cardinality(delivered)
      <3>1. /\ IsFiniteSet(TrackId) /\ sent \in [TrackId -> Nat] /\ sent' \in [TrackId -> Nat]
            /\ delivered \in SUBSET TrackId /\ n \in Nat
        BY <1>1, <1>5, <1>6, FiniteAssumption
      <3> DEFINE before == sent
                 after == sent'
      <3>2. /\ before \in [TrackId -> Nat] /\ after \in [TrackId -> Nat]
            /\ \A t \in TrackId : after[t] = IF t \in delivered THEN before[t] + n ELSE before[t]
        BY <2>1, <3>1
      <3> HIDE DEF before, after
      <3>3. SumFunction(after) = SumFunction(before) + n * Cardinality(delivered)
        BY <3>1, <3>2, SumAdded, SMTT(60)
      <3> QED
        BY <3>3 DEF before, after
    <2> QED
      BY <2>2 DEF total
  <1> DEFINE more == share * Cardinality(decided)
  <1>8. SumFunction(Outstanding') = SumFunction(Outstanding) + more
    <2>1. more \in Nat
      BY <1>2, <1>4
    <2>2. batch \in [Worker -> Batch \cup {None}]
      BY DEF TypeOK
    <2>3. batch'[w] # None
      <3>1. batch'[w] = [room |-> r, decided |-> decided, credit |-> share]
        BY <1>1, <2>2
      <3>2. batch'[w] \in Batch
        BY <1>1, <1>4, <3>1 DEF Batch
      <3> QED
        BY <3>2, IdleAssumption
    <2>4. Outstanding[w] = 0 /\ Outstanding'[w] = more
      <3>1. Uncounted(w) = 0
        BY <1>1 DEF Uncounted
      <3>2. Uncounted(w)' = more
        BY <1>1, <2>2, <2>3 DEF Uncounted
      <3> QED
        BY <3>1, <3>2 DEF Outstanding
    <2>5. \A v \in Worker \ {w} : Outstanding'[v] = Outstanding[v]
      BY <1>1, <2>2 DEF Outstanding, Uncounted
    <2> HIDE DEF more
    <2>6. Outstanding' \in [Worker -> Nat]
      <3>1. \A v \in Worker : Outstanding'[v] \in Nat
        BY <1>5, <2>1, <2>4, <2>5
      <3> QED
        BY <3>1 DEF Outstanding
    <2> QED
      BY <1>5, <2>1, <2>4, <2>5, <2>6, SumOneMore, FiniteAssumption
  <1>9. /\ SumFunction(Forwarded) \in Nat /\ SumFunction(sent) \in Nat
        /\ SumFunction(Outstanding) \in Nat
    BY <1>5, SumType, FiniteAssumption
  <1>10. SumFunction(Forwarded) + SumFunction(Outstanding) <= SumFunction(sent)
    BY DEF NeverOvercounted, Forwarded, Outstanding
  <1>11. more \in Nat /\ more <= total
    BY <1>2, <1>4
  <1> HIDE DEF more
  <1>12. SumFunction(Forwarded') + SumFunction(Outstanding') <= SumFunction(sent')
    BY <1>3, <1>6, <1>7, <1>8, <1>9, <1>10, <1>11
  <1> QED
    BY <1>12 DEF NeverOvercounted, Forwarded, Outstanding

\* A worker counts its batch: it credits its share to the decided tracks that
\* are still there, and they are no more than were decided.
LEMMA CountCounts ==
    ASSUME TypeOK, TypeOK', NeverOvercounted, NEW w \in Worker, ForwardCount(w)
    PROVE  NeverOvercounted'
  <1> DEFINE decided == batch[w].decided
             there == decided \cap RoomTracks(batch[w].room)
             share == batch[w].credit
             more == share * Cardinality(decided)
  <1>1. /\ batch[w] # None /\ sent' = sent /\ batch' = [batch EXCEPT ![w] = None]
        /\ tracks' = [t \in TrackId |->
              IF t \in there THEN [tracks[t] EXCEPT !.forwarded = @ + share]
              ELSE tracks[t]]
    BY DEF ForwardCount
  <1>2. /\ Forwarded \in [TrackId -> Nat] /\ sent \in [TrackId -> Nat]
        /\ Outstanding \in [Worker -> Nat]
        /\ share \in Nat /\ decided \in SUBSET TrackId
        /\ IsFiniteSet(decided) /\ Cardinality(decided) \in Nat
    BY <1>1, TermTypes
  <1>3. /\ there \in SUBSET TrackId
        /\ Cardinality(there) \in Nat /\ Cardinality(there) <= Cardinality(decided)
    <2>1. there \in SUBSET decided
      OBVIOUS
    <2> QED
      BY <1>2, <2>1, FS_Subset, FS_CardinalityType
  <1>4. Outstanding[w] = more
    BY <1>1 DEF Outstanding, Uncounted
  <1> HIDE DEF there, share, decided
  <1>5. Forwarded' \in [TrackId -> Nat]
    BY DEF TypeOK, Track, Forwarded
  <1>6. SumFunction(Forwarded') = SumFunction(Forwarded) + share * Cardinality(there)
    <2>1. ASSUME NEW t \in TrackId
          PROVE  Forwarded'[t] = IF t \in there THEN Forwarded[t] + share ELSE Forwarded[t]
      <3>1. tracks[t] \in Track
        BY DEF TypeOK
      <3> QED
        BY <1>1, <3>1 DEF Track, Forwarded
    <2>2. \A t \in TrackId :
            Forwarded'[t] = IF t \in there THEN Forwarded[t] + share ELSE Forwarded[t]
      BY <2>1
    <2>3. /\ Forwarded \in [TrackId -> Nat] /\ share \in Nat
          /\ there \in SUBSET TrackId /\ IsFiniteSet(TrackId)
      BY <1>2, <1>3, FiniteAssumption
    <2> QED
      BY <1>5, <2>2, <2>3, SumAdded
  <1>7. /\ more \in Nat /\ share * Cardinality(there) \in Nat
        /\ share * Cardinality(there) <= more
    BY <1>2, <1>3, Products
  <1> HIDE DEF more
  <1>8. /\ SumFunction(Outstanding) = SumFunction(Outstanding') + more
        /\ SumFunction(Outstanding') \in Nat
    <2>1. batch \in [Worker -> Batch \cup {None}]
      BY DEF TypeOK
    <2>2. Outstanding'[w] = 0
      BY <1>1, <2>1 DEF Outstanding, Uncounted
    <2>3. \A v \in Worker \ {w} : Outstanding[v] = Outstanding'[v]
      BY <1>1, <2>1 DEF Outstanding, Uncounted
    <2>4. Outstanding' \in [Worker -> Nat]
      <3>1. \A v \in Worker : Outstanding'[v] \in Nat
        BY <1>2, <2>2, <2>3
      <3> QED
        BY <3>1 DEF Outstanding
    <2> QED
      BY <1>2, <1>4, <1>7, <2>2, <2>3, <2>4, SumOneMore, SumType, FiniteAssumption
  <1>9. SumFunction(Forwarded) \in Nat /\ SumFunction(sent) \in Nat
    BY <1>2, SumType, FiniteAssumption
  <1>10. SumFunction(Forwarded) + SumFunction(Outstanding) <= SumFunction(sent)
    BY DEF NeverOvercounted, Forwarded, Outstanding
  <1>11. SumFunction(Forwarded') + SumFunction(Outstanding') <= SumFunction(sent')
    BY <1>1, <1>6, <1>7, <1>8, <1>9, <1>10
  <1> QED
    BY <1>11 DEF NeverOvercounted, Forwarded, Outstanding

\* No step makes the counters overtake what was forwarded.
LEMMA StepCounts == TypeOK /\ TypeOK' /\ NeverOvercounted /\ [Next]_vars => NeverOvercounted'
  <1> SUFFICES ASSUME TypeOK, TypeOK', NeverOvercounted, [Next]_vars
               PROVE  NeverOvercounted'
    OBVIOUS
  <1>1. \A t \in TrackId : /\ tracks[t] \in Track /\ WellFormed(tracks[t])
                           /\ tracks[t].forwarded \in Nat
    BY DEF TypeOK, Track
  <1>2. ASSUME NEW r \in Room, NEW p \in Peer, NEW t \in TrackId, Publish(r, p, t)
        PROVE  NeverOvercounted'
    <2>1. tracks[t].forwarded = 0
      <3>1. tracks[t] = NoTrack("unused")
        BY <1>1, <1>2 DEF Publish, WellFormed, Present
      <3> QED
        BY <3>1 DEF NoTrack
    <2>2. ASSUME NEW u \in TrackId
          PROVE  tracks'[u].forwarded <= tracks[u].forwarded
      <3>1. tracks' = [tracks EXCEPT ![t] = NewTrack(r, p)] /\ tracks \in [TrackId -> Track]
        BY <1>2 DEF Publish, TypeOK
      <3>2. CASE u = t
        BY <2>1, <3>1, <3>2 DEF NewTrack
      <3>3. CASE u # t
        BY <1>1, <3>1, <3>3
      <3> QED
        BY <3>2, <3>3
    <2> QED
      BY <1>2, <2>2, NoMore DEF Publish
  <1>3. ASSUME NEW p \in Peer, NEW t \in TrackId, Subscribe(p, t) PROVE NeverOvercounted'
    <2>1. \A u \in TrackId : tracks'[u].forwarded <= tracks[u].forwarded
      BY <1>1, <1>3 DEF Subscribe, TypeOK, Track
    <2> QED
      BY <1>3, <2>1, NoMore DEF Subscribe
  <1>4. ASSUME NEW p \in Peer, NEW t \in TrackId, Unsubscribe(p, t) PROVE NeverOvercounted'
    <2>1. \A u \in TrackId : tracks'[u].forwarded <= tracks[u].forwarded
      BY <1>1, <1>4 DEF Unsubscribe, TypeOK, Track
    <2> QED
      BY <1>4, <2>1, NoMore DEF Unsubscribe
  <1>5. ASSUME NEW r \in Room, NEW p \in Peer, PeerLeft(r, p) PROVE NeverOvercounted'
    <2>1. ASSUME NEW t \in TrackId
          PROVE  tracks'[t].forwarded <= tracks[t].forwarded
      <3>1. tracks'[t] = IF t \in RoomTracks(r) THEN Swept(Left(tracks[t], p)) ELSE tracks[t]
        BY <1>5 DEF PeerLeft
      <3>2. Left(tracks[t], p).forwarded = tracks[t].forwarded
        BY <1>1 DEF Left, Track
      <3>3. Swept(Left(tracks[t], p)).forwarded \in {0, tracks[t].forwarded}
        BY <3>2 DEF Swept, NoTrack
      <3> QED
        BY <1>1, <3>1, <3>3
    <2> QED
      BY <1>5, <2>1, NoMore DEF PeerLeft
  <1>6. ASSUME NEW w \in Worker, NEW r \in Room, NEW n \in 1..MaxPackets,
               ForwardDecide(w, r, n)
        PROVE  NeverOvercounted'
    BY <1>6, DecideCounts
  <1>7. ASSUME NEW w \in Worker, ForwardCount(w) PROVE NeverOvercounted'
    BY <1>7, CountCounts
  <1>8. CASE UNCHANGED vars
    BY <1>1, <1>8, NoMore DEF vars
  <1> QED
    BY <1>2, <1>3, <1>4, <1>5, <1>6, <1>7, <1>8 DEF Next

\* At the start every term is 0.
LEMMA InitCounts == Init => NeverOvercounted
  <1> SUFFICES ASSUME Init PROVE NeverOvercounted
    OBVIOUS
  <1>1. TypeOK
    BY InitType
  <1>2. Forwarded = [t \in TrackId |-> 0] /\ sent = [t \in TrackId |-> 0]
    BY DEF Init, NoTrack, Forwarded
  <1>3. Outstanding = [w \in Worker |-> 0]
    BY DEF Init, Outstanding, Uncounted
  <1>4. SumFunction([w \in Worker |-> 0]) = 0
    BY SumOfZeros, FiniteAssumption
  <1>5. SumFunction(Forwarded) \in Nat /\ SumFunction(sent) = SumFunction(Forwarded)
    BY <1>1, <1>2, TermTypes, SumType, FiniteAssumption
  <1>6. SumFunction(Forwarded) + SumFunction(Outstanding) <= SumFunction(sent)
    BY <1>3, <1>4, <1>5
  <1> QED
    BY <1>6 DEF NeverOvercounted, Forwarded, Outstanding

\* The counters of all tracks together, with what the workers have decided and
\* not counted yet, never exceed the packets that were forwarded.
THEOREM CountersBounded == Spec => []NeverOvercounted
  <1>1. TypeOK /\ NeverOvercounted /\ [Next]_vars => (TypeOK /\ NeverOvercounted)'
    BY StepType, StepCounts
  <1>2. Init => TypeOK /\ NeverOvercounted
    BY InitType, InitCounts
  <1> QED
    BY <1>1, <1>2, PTL DEF Spec
==============================================================================
