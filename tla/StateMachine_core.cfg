SPECIFICATION FairSpec
CONSTANTS
    a = a
    b = b
    c = c
    None = None
    States <- MCStates
    Liberties <- NoLiberty
    Renders = TRUE
    MaxTransition = 3
    MaxDelta = 2
INVARIANTS TypeOK RunningStatus OthersOff LastCueWins BlendSourcesDrawn
PROPERTIES FadesFromWhatShows FadesEnd
