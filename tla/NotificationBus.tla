-------------------------- MODULE NotificationBus --------------------------
(***************************************************************************)
(* What notifications look like on the bus.  Applications call the source  *)
(* (dbusinterfacenotificationsource.cpp); the manager keeps parameters     *)
(* (libnotificationsystem); replies are structures made of them            *)
(* (mnotificationproxy.cpp), written to the bus field by field and read    *)
(* back by position; registered sinks in other processes are sent the      *)
(* notifications themselves (dbusinterfacenotificationsink.cpp).  The      *)
(* parameters are versioned values: version 0 of a text is the empty one.  *)
(* Queues, event types and the disk are NotificationManager's; here each   *)
(* change is signalled at once.                                            *)
(***************************************************************************)
EXTENDS Integers, Sequences, FiniteSets, Functions

CONSTANTS
    BusIds,             \* 1..n: notifications and groups have such ids
    BusVersions,           \* of the values of parameters
    SinkAddresses,      \* <<service, path>> pairs of remote sinks
    MaxBusCalls         \* bound on the calls that change something

ASSUME BusAssumption ==
    /\ IsFiniteSet(BusIds) /\ BusIds = 1..Cardinality(BusIds)
    /\ 0 \in BusVersions
    /\ MaxBusCalls \in Nat

VARIABLES
    stored,         \* the manager's notifications and groups
    proxies,        \* the sinks registered
    remote,         \* what each sink was told, as it read it
    reply,          \* the last list sent to an application, as it read it
    said,           \* what applications last said of each text
    busCalls

busVars == <<stored, proxies, remote, reply, said, busCalls>>

-----------------------------------------------------------------------------
TextKeys == {"eventType", "summary", "body", "imageId", "action", "identifier"}
WidgetKeys == {"summary", "body", "imageId", "action"}
OwnKeys == {"unseen", "count", "timestamp"}

Value(key, version) == <<key, version>>
Empty(key) == Value(key, 0)

(* An absent value reads as an empty text and as the count 0.              *)
ValueOf(parameters, key) ==
    IF key \in DOMAIN parameters THEN parameters[key] ELSE Empty(key)

(* Bug: what an update does not mention is forgotten.                      *)
UpdateReplaces(parameters, news) == news

(* NotificationParameters::update: what is not mentioned stays.            *)
Update(parameters, news) ==
    [key \in DOMAIN parameters \cup DOMAIN news |->
        IF key \in DOMAIN news THEN news[key] ELSE parameters[key]]

(* The keys a call of each form mentions; an empty identifier is none.     *)
Forms == {"event", "texts", "identified"}
Mentions(form, version) ==
    {"eventType"}
      \cup (IF form = "event" THEN {} ELSE WidgetKeys)
      \cup (IF form = "identified" /\ version # 0 THEN {"identifier"} ELSE {})

NotificationParametersOf(form, version) ==
    [key \in Mentions(form, version) \cup OwnKeys |-> Value(key, version)]

-----------------------------------------------------------------------------
(* The structures on the bus.  A structure is the sequence of its values.  *)
ProxyTexts == <<"eventType", "summary", "body", "imageId", "action", "count">>

ProxyFields == <<"notificationId", "groupId">> \o ProxyTexts
WithIdentifierFields == ProxyFields \o <<"identifier">>
GroupProxyFields == <<"groupId">> \o ProxyTexts
GroupWithIdentifierFields == GroupProxyFields \o <<"identifier">>
WithParametersFields == <<"notificationId", "groupId", "parameters">>
GroupWithParametersFields == <<"groupId", "parameters">>
NotificationFields == <<"notificationId", "type", "groupId", "userId", "timeout", "parameters">>
(* Both directions name the same fields in the same order.                 *)
ReadOrder(fields) == fields

Write(fields, x) == [i \in DOMAIN fields |-> x[fields[i]]]
Read(fields, argument) ==
    LET order == ReadOrder(fields)
    IN  [f \in Range(order) |-> argument[CHOOSE i \in DOMAIN order : order[i] = f]]
OverTheBus(fields, x) == Read(fields, Write(fields, x))

(* The constructors of the proxies.                                        *)
ProxyOf(fields, x) ==
    [f \in Range(fields) |-> IF f \in DOMAIN x THEN x[f] ELSE ValueOf(x.parameters, f)]

NewNotification(id, group, user, type, parameters) ==
    [notificationId |-> id, groupId |-> group, userId |-> user, type |-> type,
     timeout |-> 0, parameters |-> parameters]
NewGroup(id, user, parameters) == [groupId |-> id, userId |-> user, parameters |-> parameters]

-----------------------------------------------------------------------------
(* The sinks.  Nothing is sent to those that are not registered.           *)
NoEntries == [x \in {} |-> 0]
Put(f, key, value) == [k \in DOMAIN f \cup {key} |-> IF k = key THEN value ELSE f[k]]
Drop(f, keys) == Restrict(f, DOMAIN f \ keys)

TellSinks(Change(_)) ==
    remote' = [a \in SinkAddresses |-> IF a \in proxies THEN Change(remote[a]) ELSE remote[a]]

IsApplication(n) == n.type = "application"
SentNotification(n) == OverTheBus(NotificationFields, n)

TellNotification(n) ==
    IF IsApplication(n)
    THEN TellSinks(LAMBDA r : [r EXCEPT !.notifications = Put(@, n.notificationId, SentNotification(n))])
    ELSE UNCHANGED remote
TellRemoval(ids) == TellSinks(LAMBDA r : [r EXCEPT !.notifications = Drop(@, ids)])
TellGroup(g) == TellSinks(LAMBDA r : [r EXCEPT !.groups = Put(@, g.groupId, g.parameters)])
TellGroupRemoval(id, members) ==
    TellSinks(LAMBDA r : [r EXCEPT !.groups = Drop(@, {id}), !.notifications = Drop(@, members)])

Current ==
    [notifications |->
        [id \in {i \in DOMAIN stored.notifications : IsApplication(stored.notifications[i])} |->
            SentNotification(stored.notifications[id])],
     groups |-> [id \in DOMAIN stored.groups |-> stored.groups[id].parameters]]

(* registerSink: a proxy, and everything there is at the moment.           *)
RegisterSink(address) ==
    /\ proxies' = proxies \cup {address}
    /\ remote' = [remote EXCEPT ![address] =
                    [notifications |-> Update(@.notifications, Current.notifications),
                     groups |-> Update(@.groups, Current.groups)]]
    /\ UNCHANGED <<stored, reply, said, busCalls>>

(* A sink that goes away forgets what it knew.                             *)
UnregisterSink(address) ==
    /\ address \in proxies
    /\ proxies' = proxies \ {address}
    /\ remote' = [remote EXCEPT ![address] = [notifications |-> NoEntries, groups |-> NoEntries]]
    /\ UNCHANGED <<stored, reply, said, busCalls>>

-----------------------------------------------------------------------------
(* Calls of applications.                                                  *)
LowestFreeId(used) == CHOOSE id \in BusIds \ used : \A i \in BusIds \ used : id <= i
NoReply == [fields |-> <<>>, entries |-> {}]

Called ==
    /\ busCalls < MaxBusCalls
    /\ busCalls' = busCalls + 1
    /\ reply' = NoReply
    /\ UNCHANGED proxies

(* What applications said of the texts, which replies are compared with.   *)
SaidOf(kind, id, form, version) ==
    [said EXCEPT ![kind] = Put(@, id, [key \in TextKeys |->
        IF key \in Mentions(form, version) THEN Value(key, version)
        ELSE IF id \in DOMAIN said[kind] THEN said[kind][id][key] ELSE Empty(key)])]
Unsaid(kind, ids) == [said EXCEPT ![kind] = Drop(@, ids)]

SourceAddsNotification(user, group, form, version) ==
    /\ Called
    /\ DOMAIN stored.notifications # BusIds
    /\ group = 0 \/ group \in DOMAIN stored.groups
    /\ \E type \in {"application", "system"} :
       LET id == LowestFreeId(DOMAIN stored.notifications)
           n == NewNotification(id, group, user, type, NotificationParametersOf(form, version))
       IN  /\ stored' = [stored EXCEPT !.notifications = Put(@, id, n)]
           /\ TellNotification(n)
           /\ said' = SaidOf("notifications", id, form, version)

SourceUpdatesNotification(id, form, version) ==
    LET n == [stored.notifications[id] EXCEPT
                !.parameters = Update(@, NotificationParametersOf(form, version))]
    IN  /\ Called
        /\ id \in DOMAIN stored.notifications
        /\ stored' = [stored EXCEPT !.notifications = Put(@, id, n)]
        /\ TellNotification(n)
        /\ said' = SaidOf("notifications", id, form, version)

SourceRemovesNotification(id) ==
    /\ Called
    /\ id \in DOMAIN stored.notifications
    /\ stored' = [stored EXCEPT !.notifications = Drop(@, {id})]
    /\ TellRemoval({id})
    /\ said' = Unsaid("notifications", {id})

SourceAddsGroup(user, form, version) ==
    LET id == LowestFreeId(DOMAIN stored.groups)
        g == NewGroup(id, user, NotificationParametersOf(form, version))
    IN  /\ Called
        /\ DOMAIN stored.groups # BusIds
        /\ stored' = [stored EXCEPT !.groups = Put(@, id, g)]
        /\ TellGroup(g)
        /\ said' = SaidOf("groups", id, form, version)

SourceUpdatesGroup(id, form, version) ==
    LET g == [stored.groups[id] EXCEPT
                !.parameters = Update(@, NotificationParametersOf(form, version))]
    IN  /\ Called
        /\ id \in DOMAIN stored.groups
        /\ stored' = [stored EXCEPT !.groups = Put(@, id, g)]
        /\ TellGroup(g)
        /\ said' = SaidOf("groups", id, form, version)

SourceRemovesGroup(id) ==
    LET members == {i \in DOMAIN stored.notifications : stored.notifications[i].groupId = id}
    IN  /\ Called
        /\ id \in DOMAIN stored.groups
        /\ stored' = [notifications |-> Drop(stored.notifications, members),
                      groups |-> Drop(stored.groups, {id})]
        /\ TellGroupRemoval(id, members)
        /\ said' = [notifications |-> Drop(said.notifications, members),
                    groups |-> Drop(said.groups, {id})]

(* The lists: of one user, each entry written to the bus and read back.    *)
Replies(fields, things, user) ==
    /\ reply' = [fields |-> fields,
                 entries |-> {OverTheBus(fields, ProxyOf(fields, t)) :
                                t \in {u \in Range(things) : u.userId = user}}]
    /\ UNCHANGED <<stored, proxies, remote, said, busCalls>>

NotificationLists(user) ==
    \/ Replies(ProxyFields, stored.notifications, user)
    \/ Replies(WithIdentifierFields, stored.notifications, user)
    \/ Replies(WithParametersFields, stored.notifications, user)
GroupLists(user) ==
    \/ Replies(GroupProxyFields, stored.groups, user)
    \/ Replies(GroupWithIdentifierFields, stored.groups, user)
    \/ Replies(GroupWithParametersFields, stored.groups, user)

-----------------------------------------------------------------------------
BusUsers == {1, 2}

BusInit ==
    /\ stored = [notifications |-> NoEntries, groups |-> NoEntries]
    /\ proxies = {}
    /\ remote = [a \in SinkAddresses |-> [notifications |-> NoEntries, groups |-> NoEntries]]
    /\ reply = NoReply
    /\ said = [notifications |-> NoEntries, groups |-> NoEntries]
    /\ busCalls = 0

SourceCalls(form, version) ==
    \/ \E user \in BusUsers, group \in BusIds \cup {0} :
            SourceAddsNotification(user, group, form, version)
    \/ \E id \in BusIds : SourceUpdatesNotification(id, form, version)
    \/ \E user \in BusUsers : SourceAddsGroup(user, form, version)
    \/ \E id \in BusIds : SourceUpdatesGroup(id, form, version)

BusNext ==
    \/ \E form \in Forms, version \in BusVersions : SourceCalls(form, version)
    \/ \E id \in BusIds : SourceRemovesNotification(id) \/ SourceRemovesGroup(id)
    \/ \E user \in BusUsers : NotificationLists(user) \/ GroupLists(user)
    \/ \E address \in SinkAddresses : RegisterSink(address) \/ UnregisterSink(address)

BusSpec == BusInit /\ [][BusNext]_busVars

-----------------------------------------------------------------------------
(* Whatever calls of whatever form made a notification or a group, a list  *)
(* tells, in the field meant for it, what was last said of each text       *)
(* (dbusinterfacenotificationsource.cpp:140-192, mnotificationproxy.cpp,   *)
(* notificationparameters.cpp:42-47).                                      *)
ListsTellWhatWasSaid ==
    LET isNotification == "notificationId" \in Range(reply.fields)
        Said(e) == IF isNotification THEN said.notifications[e.notificationId]
                   ELSE said.groups[e.groupId]
        Told(e, key) == IF "parameters" \in DOMAIN e THEN ValueOf(e.parameters, key) ELSE e[key]
    IN  \A e \in reply.entries :
            \A key \in TextKeys :
                key \in DOMAIN e \/ "parameters" \in DOMAIN e => Told(e, key) = Said(e)[key]

(* A registered sink knows every application notification and every group, *)
(* as they are now, and no other (dbusinterfacenotificationsink.cpp).      *)
SinksKnowWhatThereIs == \A address \in proxies : remote[address] = Current

\* Whoever asks, or has registered to be told, gets what was said and what there is.
BusTellsWhatThereIs == ListsTellWhatWasSaid /\ SinksKnowWhatThereIs

=============================================================================
