------------------------------ MODULE Signaling ------------------------------
(***************************************************************************)
(* The signaling server (crates/qm-signaling/src/lib.rs): rooms, and the   *)
(* peers that joined them.  Each request is handled under one lock and is  *)
(* one action.                                                             *)
(*                                                                         *)
(* The clients are not part of the repository.  One asks, waits for the    *)
(* answer, and may give up waiting; its request may come late, or the      *)
(* answer may be lost.  A client that gives no name gets a fresh one with  *)
(* every request, and is not told.                                         *)
(*                                                                         *)
(* The list of peers is a set: nothing depends on its order.  Requests     *)
(* that cannot be parsed change nothing and are left out.                  *)
(***************************************************************************)
EXTENDS Naturals, FiniteSets

CONSTANTS
    Room, Client,
    Name,     \* names that clients give themselves
    Uuid,     \* names that uuid::new_v4 will draw
    NameOf,   \* the name of each client, or None
    Address,
    AddressesOf, \* the addresses that each client sends from
    Cidrs,    \* the networks that are allowed, each a set of addresses
    None,
    MaxWire,  \* bound on the requests on their way
    MaxCount  \* bound on the descriptions and candidates exchanged

VARIABLES
    rooms,     \* the rooms that the server has an entry for
    peers,     \* peers[r]: the peers in r
    exchanged, \* descriptions and candidates that were acknowledged, counted together
    drawn,     \* names that were drawn for peers
    wire,      \* requests on their way
    pending,   \* pending[c]: the request that c waits for the answer to
    joined,    \* joined[c]: the rooms that c, which has a name, was told it is in
    hasty      \* clients with a name that gave up waiting for an answer (history)

server == <<rooms, peers, exchanged, drawn>>
clients == <<wire, pending, joined, hasty>>
serverVars == <<rooms, peers, exchanged, drawn, wire, pending, joined, hasty>>

Id == Name \cup Uuid
Named == {c \in Client : NameOf[c] # None}
Peer == [id : Id, address : Address]
Request ==
    {req \in [kind : {"join", "leave"}, client : Client, room : Room, address : Address] :
        req.address \in AddressesOf[req.client]}

ASSUME NameAssumption ==
    NameOf \in [Client -> Name \cup {None}] /\ None \notin Id /\ Name \cap Uuid = {}
ASSUME AddressAssumption == AddressesOf \in [Client -> SUBSET Address]
ASSUME NoneAssumption == None \notin Request
ASSUME BoundAssumption == MaxWire \in Nat /\ MaxCount \in Nat

------------------------------------------------------------------------------
ServerInit ==
    /\ rooms = {}
    /\ peers = [r \in Room |-> {}]
    /\ exchanged = 0
    /\ drawn = {}
    /\ wire = {}
    /\ pending = [c \in Client |-> None]
    /\ joined = [c \in Named |-> {}]
    /\ hasty = {}

\* A client sends a request, if it does not wait for an answer.
Ask(c, req) ==
    /\ req.client = c /\ pending[c] = None
    /\ req \notin wire /\ Cardinality(wire) < MaxWire
    /\ wire' = wire \cup {req}
    /\ pending' = [pending EXCEPT ![c] = req]
    /\ UNCHANGED <<joined, hasty, server>>

\* It gives up waiting: the request is lost, late, or was handled.
GiveUp(c) ==
    /\ pending[c] # None
    /\ pending' = [pending EXCEPT ![c] = None]
    /\ hasty' = hasty \cup ({c} \cap Named)
    /\ UNCHANGED <<wire, joined, server>>

Lose(req) ==
    /\ req \in wire
    /\ wire' = wire \ {req}
    /\ UNCHANGED <<pending, joined, hasty, server>>

\* The answer reaches the client, if it still waits for it, or is lost.
Answer(req, accepted) ==
    /\ wire' = wire \ {req}
    /\ UNCHANGED hasty
    /\ \/ UNCHANGED <<pending, joined>>
       \/ /\ pending[req.client] = req
          /\ pending' = [pending EXCEPT ![req.client] = None]
          /\ joined' = [c \in Named |->
                IF c # req.client \/ ~accepted THEN joined[c]
                ELSE IF req.kind = "join" THEN joined[c] \cup {req.room}
                ELSE joined[c] \ {req.room}]

------------------------------------------------------------------------------
\* Mutated form of CheckPeer: any address will do.
CheckPeerNot(address) == TRUE

CheckPeer(address) == \E net \in Cidrs : address \in net

\* The name that a peer gets: the client's own, or one drawn for it.
Naming(c, id) ==
    IF NameOf[c] # None THEN id = NameOf[c] /\ UNCHANGED drawn
    ELSE id \in Uuid \ drawn /\ drawn' = drawn \cup {id}

\* Mutated form of With: the peer is added again.
WithAgain(present, peer) == present \cup {peer}

With(present, peer) ==
    IF \E p \in present : p.id = peer.id THEN present ELSE present \cup {peer}

Join(req, id) ==
    /\ req \in wire /\ req.kind = "join" /\ CheckPeer(req.address)
    /\ Naming(req.client, id)
    /\ rooms' = rooms \cup {req.room}
    /\ peers' = [peers EXCEPT ![req.room] = With(@, [id |-> id, address |-> req.address])]
    /\ UNCHANGED exchanged
    /\ Answer(req, TRUE)

\* Mutated forms of Without and Recycled: nobody leaves; whoever has the same
\* address leaves too; the entry of an empty room stays.
WithoutNone(present, id) == present
WithoutAddress(present, id) ==
    {p \in present : \A q \in present : q.id = id => q.address # p.address}
RecycledNot(r, remaining) == rooms

Without(present, id) == {p \in present : p.id # id}

Recycled(r, remaining) == IF remaining = {} THEN rooms \ {r} ELSE rooms

\* A client without a name leaves under a fresh one, which nobody has; None
\* stands for it.
Leave(req) ==
    LET remaining == Without(peers[req.room], NameOf[req.client]) IN
    /\ req \in wire /\ req.kind = "leave" /\ CheckPeer(req.address)
    /\ peers' = [peers EXCEPT ![req.room] = remaining]
    /\ rooms' = Recycled(req.room, remaining)
    /\ UNCHANGED <<exchanged, drawn>>
    /\ Answer(req, TRUE)

\* offer and candidate: acknowledged and counted, whether the room exists and
\* the peer is in it or not, and given to nobody.  No client depends on the
\* answer, so that these requests need not be on the wire.
Exchange(address) ==
    /\ CheckPeer(address) /\ exchanged < MaxCount
    /\ exchanged' = exchanged + 1
    /\ UNCHANGED <<rooms, peers, drawn, clients>>

\* Every handler refuses an address outside the networks.
Refuse(req) ==
    /\ req \in wire /\ ~CheckPeer(req.address)
    /\ UNCHANGED server
    /\ Answer(req, FALSE)

ServerNext ==
    \/ \E c \in Client, req \in Request : Ask(c, req)
    \/ \E c \in Client : GiveUp(c)
    \/ \E address \in Address : Exchange(address)
    \/ \E req \in wire, id \in Id : Join(req, id)
    \/ \E req \in wire : Leave(req) \/ Refuse(req) \/ Lose(req)

ServerSpec == ServerInit /\ [][ServerNext]_serverVars

------------------------------------------------------------------------------
(* Properties. *)

\* The server's and the clients' state keep their types, and nobody outside the
\* allowed networks is ever on a list.
ServerTypeOK ==
    /\ rooms \subseteq Room
    /\ peers \in [Room -> SUBSET Peer]
    /\ exchanged \in Nat
    /\ drawn \subseteq Uuid
    /\ wire \subseteq Request
    /\ pending \in [Client -> Request \cup {None}]
    /\ joined \in [Named -> SUBSET Room]
    /\ hasty \subseteq Named
    /\ \A r \in Room : \A p \in peers[r] : p.address \in UNION Cidrs

\* The server has an entry for exactly the rooms with somebody in them, so that
\* rooms do not pile up as clients come and go.
NoEmptyRoom == \A r \in Room : r \in rooms <=> peers[r] # {}

\* Nobody is listed twice in a room, with two addresses, however often a join
\* is sent.
OnceEach == \A r \in Room : \A p, q \in peers[r] : p.id = q.id => p = q

\* The lists neither grow without end nor hold anybody twice.
CleanLists == NoEmptyRoom /\ OnceEach

\* What a client with a name of its own was told is true as long as it always
\* waits for its answers, whatever the other clients do and lose: it is on the
\* list of the rooms it joined and has not left, and on no other.
TellsTheTruth ==
    \A c \in Named \ hasty :
        (pending[c] = None /\ \A d \in Named \ {c} : NameOf[d] # NameOf[c]) =>
            joined[c] = {r \in Room : \E p \in peers[r] : p.id = NameOf[c]}

\* In one step one peer appears on one list or disappears from one: the server
\* implements the rosters.
Members == [r \in Room |-> {p.id : p \in peers[r]}]
Rosters == INSTANCE Roster WITH roster <- Members
ImplementsRosters == Rosters!Spec
==============================================================================
