SPECIFICATION FairSpec
CONSTANTS
    AmbientLooks = {blobs, prism, rain}
    ScannerLooks = {scan}
    blobs = blobs
    None = None
    MaxCable = 2
    MaxAnswers = 1
INVARIANT TypeOK
PROPERTY BlendKept Converges

