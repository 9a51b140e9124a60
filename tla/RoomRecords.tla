----------------------------- MODULE RoomRecords -----------------------------
(***************************************************************************)
(* One room's record (RoomState of crates/qm-cluster/src/state.rs) and the *)
(* operations on it: who owns the room, at which address its media is      *)
(* reached, how many listen, and the revision by which two records of the  *)
(* room are told apart.  The stream count, which no handler changes, and   *)
(* the role carried next to the media address are left out.                *)
(***************************************************************************)
EXTENDS Integers

CONSTANT NoNode   \* no owner, or no media address

\* Revision 0 stands for "no entry": RoomState::new starts at 1.
NoRoom == [owner |-> NoNode, addr |-> NoNode, listeners |-> 0, revision |-> 0]
Known(room) == room.revision > 0

\* RoomState::new, then the owner and the counts variants.
NewRoom(listeners) ==
    [owner |-> NoNode, addr |-> NoNode, listeners |-> listeners, revision |-> 1]

\* Mutated form of WithOwner: the media address of the last owner stays.
WithOwnerOnly(room, n) ==
    [owner |-> n, addr |-> room.addr, listeners |-> room.listeners,
     revision |-> room.revision + 1]

WithOwner(room, n) ==
    [owner |-> n, addr |-> n, listeners |-> room.listeners,
     revision |-> room.revision + 1]

WithListeners(room, count) ==
    [owner |-> room.owner, addr |-> room.addr, listeners |-> count,
     revision |-> room.revision + 1]

\* Mutated forms of Apply: no revision check; refuse an equal revision too.
ApplyAlways(current, incoming) == incoming
ApplyStrict(current, incoming) ==
    IF incoming.revision <= current.revision THEN current ELSE incoming

\* Registry::apply_room - refuse an older revision, otherwise overwrite.
Apply(current, incoming) ==
    IF incoming.revision < current.revision THEN current ELSE incoming

\* Mutated form of OneFewer: the subtraction is not saturating.
OneFewerUnchecked(count) == count - 1

OneFewer(count) == IF count = 0 THEN 0 ELSE count - 1

\* The ownerless last state of a room that is closed.
Tombstone(room) == [NoRoom EXCEPT !.revision = room.revision + 1]
==============================================================================
