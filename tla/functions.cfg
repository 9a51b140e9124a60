SPECIFICATION Spec
CONSTANTS
    NumberSpace = 8
    GroupSize = 3
    Bit = {b}
    MaxLen = 1
    MaxCopies = 1
    MaxTotal = 9
    Window = 2
    MaxPackets = 3
    MaxStreams = 8
    Word = {"", "room", "nack", "ice", "publish", "healthz"}
    CpuPerPacket = 2
    CpuPerRecovery = 1
    CpuLimit = 40
    KbPerStream = 1
    BitsPerKb = 1
    MemoryLimit = 6
    NetworkLimit = 10
    BpsSpace = 64
    PacketSpace = 16
    TargetStreams = 5
    ByteSpace = 4
    HashBits = 6
    HashBasis = 9
    HashPrime = 5
    Magic = 7
    SeqSpace = 8
    TsSpace = 16
    TsStep = 3
    MaxSide = 2
    MaxFrames = 3
    DefaultRate = 2
    FrameSamples = 1
    Width = 3
    Loopback = {7}
INVARIANTS
    GroupRecovered
    AnswersWithinLimit
    SimulationSound
    RoutedAsAsked
    GivenServersReach
    CodecPathUsable
    BottleneckStays
    IntactOrRefused
    SentOrderRestored
    LoadedIsPrivate
    LastLayerDecides
    MessagesReachTheirTask
CHECK_DEADLOCK FALSE
