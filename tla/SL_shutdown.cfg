SPECIFICATION Spec
CONSTANT MaxPosted = 1
INVARIANT NoLockScreenDuringShutdown
