CONSTANTS
    Users = {u1, u2}
    Objects = {x1, x2}
    Default = Default
    Foreign = Foreign
    Slots = {w1, w2, w3}
    Failing = {w2, w3}
    Idle = Idle
SPECIFICATION FairLifecycleSpec
INVARIANTS LifecycleTypeOK DefaultOnDisk
PROPERTIES UploadsKeepAvatars OrphansOnlyByOverlap StopsEnd
