SPECIFICATION Spec
CONSTANTS
    kClocksPerBeat = 4
    SlowestBeat = 5
    Values = {0, 1}
    Sayable <- MCSayable
    BeatNote = 1
    MaxPause = 1
    MaxLost = 1
INVARIANT TypeOK FramesWhatIsSaid BeatsInStep TempoOfMusic
