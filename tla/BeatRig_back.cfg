SPECIFICATION Spec
CONSTANTS
    MinPeriod = 14
    MaxPeriod = 136
    kExternalTimeout = 137
    kSettleBeats = 1
    kRelockBeats = 2
    kBeatsPerBar = 2
    SongPeriod = 32
    Frame = 8
    Late = 8
    Rack <- MCRack
    Tempos = {24, 48}
    Latencies <- MCLatencies
    MaxTime = 96
    MaxOther = 1
PROPERTY NeverBackwards
