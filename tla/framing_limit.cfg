SPECIFICATION FramingSpec
CONSTANTS
    MaxSize = 5
    BufferSize = 3
    Capacity = 6
    Size <- MCSize
    MaxMessages = 3
CHECK_DEADLOCK FALSE
INVARIANT OnlyLargeRefused
