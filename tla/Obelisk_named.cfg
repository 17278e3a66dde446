SPECIFICATION Spec
CONSTANTS
    blobs = blobs
    seasons = seasons
    arm = arm
    None = None
    AmbientLooks <- Ambient
    ScannerLooks <- Scanner
    Commands <- Cues
    MaxTransition = 2
    MaxDelta = 1
PROPERTY LookNamedIsTaken
