----------------------- MODULE MCNotificationManager -----------------------
(***************************************************************************)
(* Values for the constants of NotificationManager, shared by the runs.    *)
(***************************************************************************)
EXTENDS NotificationManager

P(class, persistent, et) ==
    [class |-> class, persistent |-> persistent, eventType |-> et]

CONSTANT et1
Typed == P(Unset, Unset, et1)
Setting(class, persistent) == [class |-> class, persistent |-> persistent]

NoParams == P(Unset, Unset, NoEventType)
System == P("system", Unset, NoEventType)
Application == P("application", Unset, NoEventType)
Transient == P("application", "false", NoEventType)

BothClasses == {System, Application}
OnlyApplication == {Application}
KeepAsIs == {NoParams}
Nothing == {}
PlainOrTyped == {Application, Typed}
OneEventType == {et1}
AnySettings ==
    {Setting("application", "false"), Setting("system", "true")}

=============================================================================
