SPECIFICATION MCSpec
CONSTANTS
    MaxPosted = 3
    MaxResets = 2
    MaxNotes = 2
    Paths = {"root", "home"}
    Quint32 = 8
    StepCounts = {1, 3}
    MaxMessages = 1
INVARIANT NoMenuWhileLocked
INVARIANT OneLogo
 
INVARIANT LockConsistent
INVARIANT MceAgrees
PROPERTY EmptyWindowPasses
PROPERTY ShutdownGoesDark
PROPERTY BarGoesAway
PROPERTY CloseTakesEffect
CHECK_DEADLOCK FALSE
