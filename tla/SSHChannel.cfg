SPECIFICATION Spec
CONSTANTS
    MaxChannels = 2
    Window = 3
    PacketSize = 2
    MinAdjust = 2
    TypeCode = 1
    Modulus = 16
    MaxQueue = 1
    Uses <- MCUses
    Sizes = {1, 3}
    MaxSent = 2
    MaxWritten = 4
    MaxWire = 2
INVARIANTS
    ChannelsAreFound
    CreditBalances
    SendWindowAgrees
    BytesInOrder
    EofIsEnd
PROPERTIES
    RequestsReturn
CHECK_DEADLOCK FALSE
