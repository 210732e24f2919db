------------------------- MODULE NotificationQueue -------------------------
(***************************************************************************)
(* What the wait queue of the notification manager promises                *)
(* (systemui/notifications/notificationmanager.cpp), without the           *)
(* container, the signals, the timer and the calls that are under way.     *)
(*                                                                         *)
(* Entries have an identifier and a class.  Each arrives at the place its  *)
(* class gives it, may be changed while it waits, and leaves for good;     *)
(* those who stay keep their order.                                        *)
(***************************************************************************)
EXTENDS Naturals, Sequences

CONSTANT Capacity

VARIABLE queue

System(i) == queue[i].class = "system"

Init == queue = <<>>

(* Where the i-th entry is while there is another at place p.              *)
Beside(p, i) == IF i < p THEN i ELSE i + 1

(* One entry comes at place p: behind the system entries in front if it is *)
(* one itself, behind everybody if it is not.                              *)
Arrive(p) ==
    /\ Len(queue) < Capacity
    /\ Len(queue') = Len(queue) + 1
    /\ \A i \in DOMAIN queue : queue'[Beside(p, i)] = queue[i]
    /\ IF queue'[p].class = "system"
       THEN /\ \A i \in DOMAIN queue : i < p => System(i)
            /\ p \in DOMAIN queue => ~System(p)
       ELSE p = Len(queue) + 1

(* The entry at place p goes, to be relayed or because it is removed.      *)
Leave(p) ==
    /\ Len(queue) = Len(queue') + 1
    /\ \A i \in DOMAIN queue' : queue'[i] = queue[Beside(p, i)]

(* Entries are updated where they are.                                     *)
Change ==
    /\ Len(queue') = Len(queue)
    /\ \A i \in DOMAIN queue : queue'[i].id = queue[i].id

(* The process ends.                                                       *)
Lose == queue' = <<>>

Next ==
    \/ \E p \in 1 .. Len(queue) + 1 : Arrive(p)
    \/ \E p \in 1 .. Len(queue) : Leave(p)
    \/ Change
    \/ Lose

Spec == Init /\ [][Next]_queue

=============================================================================
