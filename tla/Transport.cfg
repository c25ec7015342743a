SPECIFICATION TransportSpec
CONSTANTS
    Base = 8
    kMaxMessageSize = 24
    KeyLen = 4
    Sizes <- MCSizes
    LastBytes <- MCLastBytes
    MaxWrites = 2
    Losses <- MCLosses
    NoCodec = NoCodec
INVARIANTS FramesInOrder WrittenIsReadable
