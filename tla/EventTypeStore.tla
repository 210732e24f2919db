---------------------------- MODULE EventTypeStore ----------------------------
(***************************************************************************)
(* The store of event types (systemui/notifications/eventtypestore.cpp):   *)
(* the settings files of a directory, loaded when they are asked for, kept *)
(* in memory for those used most recently, and watched.                    *)
(*                                                                         *)
(* The watcher is QFileSystemWatcher: its signals are delivered some time  *)
(* after a change, one for several of a kind; a file that is gone is not   *)
(* watched any longer.                                                     *)
(***************************************************************************)
EXTENDS Integers, Sequences, FiniteSets, Functions, SequencesExt

CONSTANTS
    EventTypes,
    Versions,               \* what a usable file may say
    MaxStoredEventTypes     \* MAX_EVENT_TYPE_CONF_FILES

ASSUME EventTypesAssumption ==
    /\ MaxStoredEventTypes \in Nat \ {0}
    /\ {"absent", "unusable"} \cap Versions = {}

VARIABLES
    files,      \* the directory: event type -> "absent", "unusable" or a version
    watcher,    \* what is watched, and what has still to be signalled
    store,      \* the members of EventTypeStore
    hasty,      \* history: types that changed before the directory was looked at
    unasked     \* history: loaded since they changed and not asked for since

eventTypeVars == <<files, watcher, store, hasty, unasked>>

Usable(t) == files[t] \in Versions
Installed == {t \in EventTypes : files[t] # "absent"}

-----------------------------------------------------------------------------
(* What the methods are made of.                                           *)

LoadSettingsOnce(s, t) ==
    IF Usable(t) /\ t \notin DOMAIN s.eventTypesMap
    THEN [s EXCEPT !.eventTypesMap = [k \in DOMAIN @ \cup {t} |-> IF k = t THEN files[t] ELSE @[k]]]
    ELSE s

(* A file that is empty, too big or malformed leaves what was loaded.      *)
LoadSettings(s, t) ==
    IF Usable(t)
    THEN [s EXCEPT !.eventTypesMap = [k \in DOMAIN @ \cup {t} |-> IF k = t THEN files[t] ELSE @[k]]]
    ELSE s

(* A type is in the list of usage once.                                    *)
EventTypeAccessed(s, t) ==
    LET used == <<t>> \o RemoveFirst(s.eventTypeUsage, t)
        kept == SubSeq(used, 1,
            IF Len(used) > MaxStoredEventTypes THEN MaxStoredEventTypes ELSE Len(used))
    IN  [s EXCEPT !.eventTypeUsage = kept,
                  !.eventTypesMap = Restrict(@, DOMAIN @ \ (Range(used) \ Range(kept)))]

EventTypeExists(s, t) ==
    LET loaded == IF t \in DOMAIN s.eventTypesMap THEN s ELSE LoadSettings(s, t)
    IN  IF t \in DOMAIN loaded.eventTypesMap THEN EventTypeAccessed(loaded, t) ELSE loaded

-----------------------------------------------------------------------------
(* allKeys, contains and value, which all ask whether the type exists.     *)
Ask(t) ==
    /\ store' = EventTypeExists(store, t)
    /\ unasked' = unasked \ {t}
    /\ UNCHANGED <<files, watcher, hasty>>

UpdateEventTypeFileList ==
    /\ watcher.directoryChanged
    /\ LET removed == store.eventTypeFiles \ Installed
       IN  /\ store' = [store EXCEPT
                  !.eventTypeFiles = Installed,
                  !.eventTypesMap = Restrict(@, DOMAIN @ \ removed)]
           /\ watcher' = [watcher EXCEPT
                  !.directoryChanged = FALSE,
                  !.watched = (@ \ removed) \cup Installed]
           /\ unasked' = unasked \ removed
    /\ UNCHANGED <<files, hasty>>

UpdateEventTypeFile(t) ==
    /\ t \in watcher.fileChanged
    /\ watcher' = [watcher EXCEPT !.fileChanged = @ \ {t}]
    /\ store' = IF t \in Installed THEN LoadSettings(store, t) ELSE store
    /\ unasked' = IF Usable(t) THEN unasked \cup {t} ELSE unasked
    /\ UNCHANGED <<files, hasty>>

(* A file is written, replaced or removed.                                 *)
ChangeFile(t, contents) ==
    /\ contents # files[t]
    /\ files' = [files EXCEPT ![t] = contents]
    /\ watcher' = [watcher EXCEPT
           !.directoryChanged = @ \/ "absent" \in {contents, files[t]},
           !.fileChanged = IF t \in watcher.watched THEN @ \cup {t} ELSE @,
           !.watched = IF contents = "absent" THEN @ \ {t} ELSE @]
    /\ hasty' = IF watcher.directoryChanged THEN hasty \cup {t} ELSE hasty
    /\ UNCHANGED <<store, unasked>>

EventTypesInit ==
    /\ files \in [EventTypes -> {"absent", "unusable"} \cup Versions]
    /\ watcher = [directoryChanged |-> FALSE, fileChanged |-> {}, watched |-> Installed]
    /\ store = [eventTypesMap |-> <<>>, eventTypeUsage |-> <<>>, eventTypeFiles |-> Installed]
    /\ hasty = {}
    /\ unasked = {}

EventTypesNext ==
    \/ \E t \in EventTypes :
           \/ Ask(t)
           \/ UpdateEventTypeFile(t)
           \/ \E contents \in {"absent", "unusable"} \cup Versions : ChangeFile(t, contents)
    \/ UpdateEventTypeFileList

EventTypesSpec == EventTypesInit /\ [][EventTypesNext]_eventTypeVars

-----------------------------------------------------------------------------
\* Once all changes are signalled a type is answered for with what its file says,
\* or said before it became unusable, and not at all when it was uninstalled;
\* except that a file which came, changed or went before the directory was looked
\* at again may be answered for as it was (eventtypestore.cpp:42-97).
AnswersFollowFiles ==
    watcher.fileChanged = {} /\ ~watcher.directoryChanged =>
        \A t \in DOMAIN store.eventTypesMap \ hasty :
            files[t] \in {store.eventTypesMap[t], "unusable"}

\* No more types are in memory than the store is told to keep, apart from those
\* that were loaded because their file changed and were not asked for since; and
\* a type that was just asked for is never among those that are forgotten
\* (eventtypestore.cpp:137-147).
MemoryBounded ==
    /\ Len(store.eventTypeUsage) <= MaxStoredEventTypes
    /\ IsInjective(store.eventTypeUsage)
    /\ DOMAIN store.eventTypesMap \subseteq Range(store.eventTypeUsage) \cup unasked

\* What the store answers with comes from the files, and it keeps no more of them
\* than it may (eventtypestore.cpp:42-147).
StoreFollowsFiles == AnswersFollowFiles /\ MemoryBounded

=============================================================================
