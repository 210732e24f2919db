----------------------------- MODULE MCLiveness -----------------------------
(***************************************************************************)
(* The parts with something that must eventually happen, checked in one    *)
(* run.  As in MCSystem a behaviour follows one of them, the subject, and  *)
(* is fair to it.                                                          *)
(***************************************************************************)
EXTENDS ScreenLock, StatusIndicatorMenu, Shutdown, Volume

VARIABLE subject

Subjects == {"lock", "menu", "shutdown", "disk", "volume"}

MCInit ==
    /\ subject \in Subjects
    /\ Init
    /\ subject # "lock" => ~deviceLocked
    /\ MenuInit
    /\ subject # "menu" => ~locks.device
    /\ ShutdownInit
    /\ DiskInit
    /\ VolumeInit
    /\ subject # "volume" => volumeLogic.dbus_conn = "none" /\ ~pulse.runs

LockMoves ==
    /\ subject = "lock"
    /\ Next
    /\ UNCHANGED <<menuVars, shutdownVars, diskVars, volumeVars>>
MenuMoves ==
    /\ subject = "menu"
    /\ MenuNext
    /\ UNCHANGED <<vars, shutdownVars, diskVars, volumeVars>>
ShutdownMoves ==
    /\ subject = "shutdown"
    /\ ShutdownActs
    /\ UNCHANGED <<vars, menuVars, volumeVars>>
DiskMoves ==
    /\ subject = "disk"
    /\ DiskActs
    /\ UNCHANGED <<vars, menuVars, volumeVars>>
VolumeMoves ==
    /\ subject = "volume"
    /\ VolumeNext
    /\ UNCHANGED <<vars, menuVars, shutdownVars, diskVars>>

MCNext ==
    /\ \/ LockMoves
       \/ MenuMoves
       \/ ShutdownMoves
       \/ DiskMoves
       \/ VolumeMoves
    /\ UNCHANGED subject

MCFairness ==
    /\ subject = "lock" => WF_vars(CallPosted)
    /\ subject = "menu" => MenuFairness
    /\ subject = "shutdown" => ShutdownFairness
    /\ subject = "volume" => VolumeFairness

MCSpec ==
    MCInit /\ [][MCNext]_<<subject, vars, menuVars, shutdownVars, diskVars, volumeVars>> /\ MCFairness

=============================================================================
