SPECIFICATION Spec
CONSTANTS
    Bytes = {0, 1, 2, 3, 4}
    kCheapPrepend = 1
    OutputSize = 2
    InputSize = 1
    ExtraSize = 1
    HighWaterMark = 2
    Sizes = {1, 3}
    MaxOut = 4
    MaxIn = 3
    MaxRoom = 2
    MaxQueue = 1
INVARIANTS
    TypeOK
    StreamsInOrder
    WritingIffOutput
PROPERTY
    OutputFlushed
