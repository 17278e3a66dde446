SPECIFICATION FairFrameSpec
CONSTANTS
    ByteValues = 8
    MAGIC_0 = 6
    MAGIC_1 = 7
    Hello = 3
    MAX_PAYLOAD = 3
    Frames <- PixelFrames
    CrcValues <- LengthLikeCrc
    MaxFaults = 2
INVARIANTS FrameTypeOK NoForgedFrame
PROPERTY Resyncs
