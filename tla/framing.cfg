SPECIFICATION FairFramingSpec
CONSTANTS
    MaxSize = 5
    BufferSize = 3
    Capacity = 6
    Size <- MCSize
    MaxMessages = 3
CHECK_DEADLOCK FALSE
INVARIANTS
    InOrderAndWhole
    ShortMessagesPass
    EndIsTruthful
PROPERTIES
    ReceiverToldOfEnd
    ImplementsChannel
