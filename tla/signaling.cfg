SPECIFICATION ServerSpec
CONSTANTS
    None = None
    named = named
    nameless = nameless
    alice = alice
    inside = inside
    moved = moved
    outside = outside
    Room = {r1, r2}
    Client <- Clients
    Name = {alice}
    Uuid = {u1, u2}
    NameOf <- Names
    Address <- Addresses
    AddressesOf <- Sources
    Cidrs <- Networks
    MaxWire = 2
    MaxCount = 1
SYMMETRY Symmetry
INVARIANTS
    CleanLists
    TellsTheTruth
PROPERTIES
    ImplementsRosters
