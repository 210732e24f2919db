------------------------- MODULE StatusIndicators -------------------------
(***************************************************************************)
(* The indicators of the status area (statusindicator.cpp): the context    *)
(* properties they follow while they are on display                        *)
(* (contextframeworkcontext.cpp), the style and the value they choose, and *)
(* the views that show and animate them (statusindicator*view.cpp).        *)
(*                                                                         *)
(* A style name is the sequence of the words after the class name; a value *)
(* is a fraction <<n, d>> of a list of images, or a sequence of texts.     *)
(* The context framework is modelled from the use made of it: a property   *)
(* keeps the last value that anybody in the process subscribed to, and     *)
(* tells of changes only those who are subscribed.                         *)
(***************************************************************************)
EXTENDS Integers, Sequences

CONSTANT IndicatorGroups    \* the groups of connected indicators to look at

VARIABLES
    group,          \* the group that is looked at
    known,          \* the values of the context properties in the process
    indicators      \* the indicators of the group

statusVars == <<group, known, indicators>>

-----------------------------------------------------------------------------
(* What can be known of the context.                                       *)

Unnamed == [home |-> "", rest |-> "", closed |-> FALSE]
NetworkNames == {Unnamed} \cup [home : {"", "Home"}, rest : {"", "Visited", "Home"}, closed : BOOLEAN]

ContextValues ==
    [SignalBars |-> {0, 5}, OfflineMode |-> BOOLEAN,
     RegistrationStatus |-> {"", "home", "no-sim", "offline"},
     DataTechnology |-> {"", "umts"}, NetworkType |-> {"", "GPRS", "WLAN"},
     NetworkState |-> {"", "disconnected", "connecting", "connected"},
     Adhoc |-> BOOLEAN, PacketData |-> BOOLEAN, WlanEnabled |-> BOOLEAN,
     ChargeBars |-> {<<>>, <<0, 2>>, <<1, 2>>, <<2, 2>>, <<3, 2>>},
     IsCharging |-> BOOLEAN, PowerSaveMode |-> BOOLEAN,
     AlarmPresent |-> BOOLEAN,
     BluetoothEnabled |-> BOOLEAN, BluetoothConnected |-> BOOLEAN, NfcActive |-> BOOLEAN,
     PresenceState |-> {"", "busy", "connecting", "offline"},
     NetworkName |-> NetworkNames,
     ServiceStatus |-> {"", "limited-service", "no-coverage"},
     DisplayLimited |-> BOOLEAN,
     PhoneCall |-> {"", "alerting", "knocking", "active"}, PhoneMuted |-> BOOLEAN,
     Tethering |-> BOOLEAN, ProfileName |-> {"", "silent", "meeting"},
     SatPositioning |-> {"", "on", "search"}, CallForward |-> BOOLEAN,
     Dlna |-> BOOLEAN]

(* The context items of each kind of indicator. *)
Keys ==
    [PhoneNetworkSignalStrength |-> {"SignalBars", "OfflineMode", "RegistrationStatus"},
     PhoneNetworkType |-> {"DataTechnology", "NetworkType", "NetworkState", "Adhoc",
                           "PacketData", "WlanEnabled"},
     Battery |-> {"ChargeBars", "IsCharging", "PowerSaveMode"},
     Alarm |-> {"AlarmPresent"},
     ShortDistanceNetwork |-> {"BluetoothEnabled", "BluetoothConnected", "NfcActive"},
     Presence |-> {"PresenceState"},
     PhoneNetwork |-> {"NetworkName", "ServiceStatus", "RegistrationStatus"},
     InputMethod |-> {}, Notification |-> {}, Transfer |-> {},
     Call |-> {"PhoneCall", "PhoneMuted"}, Tethering |-> {"Tethering"},
     Profile |-> {"ProfileName"}, GPS |-> {"SatPositioning"},
     CallForwarding |-> {"CallForward"}, DLNA |-> {"Dlna"}]

Kinds == DOMAIN Keys

(* The signal strength tells the network type whether there is a network;  *)
(* the other indicators know nothing of each other.                        *)
RelatedKinds ==
    {{"PhoneNetworkSignalStrength", "PhoneNetworkType"}}
        \cup {{k} : k \in Kinds \ {"PhoneNetworkSignalStrength", "PhoneNetworkType"}}

ASSUME GroupsAssumption == IndicatorGroups \subseteq RelatedKinds

(* The limited service setting is a configuration item and always heard. *)
KeysOf(g) == (UNION {Keys[k] : k \in g})
                \cup (IF "PhoneNetwork" \in g THEN {"DisplayLimited"} ELSE {})

Texts == {"RegistrationStatus", "DataTechnology", "NetworkType", "NetworkState", "PresenceState",
          "ServiceStatus", "PhoneCall", "ProfileName", "SatPositioning"}
Null == [SignalBars |-> 0, ChargeBars |-> <<>>, NetworkName |-> Unnamed, DisplayLimited |-> TRUE]
NullOf(key) ==
    IF key \in DOMAIN Null THEN Null[key] ELSE IF key \in Texts THEN "" ELSE FALSE

-----------------------------------------------------------------------------
(* The model of an indicator and its view.                                 *)

Zero == <<0, 1>>

(* The kinds whose plain style has no images. *)
HiddenWhenPlain == Kinds \ {"PhoneNetworkSignalStrength", "Battery"}
ShowsText == {"PhoneNetwork"}
ShowsIcons == {"InputMethod", "Notification"}    \* the value names the images

(* A style of the animation view brings its own list of images. *)
SetupImageList(k, i) ==
    IF k \in ShowsText \cup ShowsIcons THEN i
    ELSE [i EXCEPT !.images = i.style # <<>> \/ k \notin HiddenWhenPlain]

SetStyleNameAndUpdate(k, i, words) == SetupImageList(k, [i EXCEPT !.style = words])

ModelValue(k, i) ==
    [i EXCEPT !.shown = i.value,
              !.images = IF k \in ShowsIcons THEN i.value # <<"">> ELSE @]

SetValue(k, i, v) ==
    LET kept == [i EXCEPT !.value = v]
    IN  IF i.enabled THEN ModelValue(k, kept) ELSE kept

(* The view starts the animation if there are images to animate. *)
StartOrStopAnimation(i) == [i EXCEPT !.running = i.animate /\ i.images]

(* The view hears of the model only when the model changes. *)
UpdateAnimationStatus(i) ==
    LET animate == i.enabled /\ i.animateIfPossible
    IN  IF animate = i.animate THEN i ELSE StartOrStopAnimation([i EXCEPT !.animate = animate])

Animated(i, possible) == [i EXCEPT !.animateIfPossible = possible]

SetModelUpdatesEnabled(k, i, enabled) ==
    LET set == [i EXCEPT !.enabled = enabled]
    IN  UpdateAnimationStatus(IF enabled THEN ModelValue(k, set) ELSE set)

-----------------------------------------------------------------------------
(* What each kind of indicator makes of the context.                       *)

SignalStrengthChanged(i, c) == SetValue("PhoneNetworkSignalStrength", i, <<c.SignalBars, 5>>)

SetNetworkStatus(i, c) ==
    LET problem == IF c.OfflineMode THEN <<"Offline">>
                   ELSE IF c.RegistrationStatus = "no-sim" THEN <<"NoSIM">>
                   ELSE IF c.RegistrationStatus \in {"", "offline"} THEN <<"NoNetwork">>
                   ELSE <<>>
        valued == IF problem = <<>> THEN SignalStrengthChanged(i, c)
                  ELSE SetValue("PhoneNetworkSignalStrength", i, Zero)
    IN  SetStyleNameAndUpdate("PhoneNetworkSignalStrength",
                              [valued EXCEPT !.available = (problem = <<>>)], problem)

SetNetworkType(i, c) ==
    LET k == "PhoneNetworkType"
        zero == SetValue(k, i, Zero)
        wlanOn == c.NetworkType = "WLAN" /\ c.NetworkState # "disconnected" /\ c.WlanEnabled
        wlan == IF ~wlanOn THEN <<>> ELSE IF c.Adhoc THEN <<"WLANAdhoc">> ELSE <<"WLAN">>
        technology == IF c.DataTechnology = "umts" THEN <<"3G">> ELSE <<>>
        both == wlan \o technology
        either == IF wlan = <<>> THEN technology ELSE wlan
        connecting == c.NetworkState = "connecting"
        dataConnects == connecting /\ c.NetworkType = "GPRS" /\ both # <<>>
        words == IF c.PacketData
                 THEN IF both = <<>> THEN <<>>
                      ELSE Append(both, IF dataConnects THEN "Connecting" ELSE "Active")
                 ELSE IF connecting /\ either # <<>> THEN Append(either, "Connecting")
                 ELSE either
        moves == IF c.PacketData THEN wlanOn \/ dataConnects ELSE connecting /\ either # <<>>
    IN  IF c.NetworkState = "disconnected" /\ ~c.PacketData
        THEN SetStyleNameAndUpdate(k, zero, <<>>)
        ELSE UpdateAnimationStatus(SetStyleNameAndUpdate(k, Animated(zero, moves), words))

SetNetworkAvailability(i, c, available) ==
    IF ~available /\ c.NetworkState = "disconnected"
    THEN SetStyleNameAndUpdate("PhoneNetworkType", i, <<>>)
    ELSE SetNetworkType(i, c)

BatteryLevelChanged(i, c) ==
    IF Len(c.ChargeBars) # 2 THEN i
    ELSE LET bars == c.ChargeBars[1]
             full == c.ChargeBars[2]
             remaining == IF c.IsCharging /\ bars = full THEN full - 1 ELSE bars
             image == IF c.IsCharging \/ remaining # 0 THEN remaining + 1 ELSE 0
         IN  SetValue("Battery", i,
                      IF full > 0 /\ bars >= 0 /\ full >= bars THEN <<image, full + 2>> ELSE Zero)

BatteryChargingChanged(i, c) ==
    LET mode == (IF c.PowerSaveMode THEN <<"PowerSave">> ELSE IF c.IsCharging THEN <<>> ELSE <<"Level">>)
                    \o (IF c.IsCharging THEN <<"Charging">> ELSE <<>>)
        styled == SetStyleNameAndUpdate("Battery", i, mode)
    IN  BatteryLevelChanged(UpdateAnimationStatus(Animated(styled, c.IsCharging)), c)

AlarmChanged(i, c) ==
    SetStyleNameAndUpdate("Alarm", i, IF c.AlarmPresent THEN <<"Set">> ELSE <<>>)

ShortDistanceActivityChanged(i, c) ==
    SetStyleNameAndUpdate("ShortDistanceNetwork", i,
        IF c.NfcActive THEN <<"NfcActive">>
        ELSE IF ~c.BluetoothEnabled THEN <<>>
        ELSE IF c.BluetoothConnected THEN <<"BluetoothActive">> ELSE <<"BluetoothOn">>)

PresenceChanged(i, c) ==
    LET words == [busy |-> <<"Busy">>, connecting |-> <<"Connecting">>]
        style == IF c.PresenceState \in DOMAIN words THEN words[c.PresenceState] ELSE <<>>
    IN  UpdateAnimationStatus(
            Animated(SetStyleNameAndUpdate("Presence", i, style), c.PresenceState = "connecting"))

HomeNetwork(c) == c.NetworkName.home
VisitorNetwork(c) == IF c.NetworkName.closed THEN c.NetworkName.rest ELSE ""

LimitedTexts == {<<"emergency calls only">>, <<"no coverage">>}

(* Bug: the timer that shows the visited network is not stopped. *)
PhoneNetworkChangedKeepsTimer(i, c) ==
    LET k == "PhoneNetwork"
        limited == c.DisplayLimited /\ c.ServiceStatus = "limited-service"
        home == IF limited THEN "emergency calls only" ELSE HomeNetwork(c)
        visitor == IF limited THEN "" ELSE VisitorNetwork(c)
        named == SetValue(k, [i EXCEPT !.postfix = limited, !.followsService = c.DisplayLimited],
                          <<home>>)
    IN  [SetStyleNameAndUpdate(k, named,
                               IF home = "" /\ visitor = "" THEN <<"Disabled">> ELSE <<>>)
            EXCEPT !.visitorTimer = @ \/ (visitor # "" /\ home # "" /\ home # visitor)]

PhoneNetworkChanged(i, c) ==
    LET k == "PhoneNetwork"
        limited == c.DisplayLimited /\ c.ServiceStatus = "limited-service"
        noCoverage == c.DisplayLimited /\ c.ServiceStatus = "no-coverage"
                        /\ c.RegistrationStatus # "offline"
        home == IF limited THEN "emergency calls only"
                ELSE IF noCoverage THEN "no coverage" ELSE HomeNetwork(c)
        visitor == IF limited \/ noCoverage THEN "" ELSE VisitorNetwork(c)
        named == SetValue(k, [i EXCEPT !.postfix = limited \/ noCoverage,
                                       !.followsService = c.DisplayLimited], <<home>>)
    IN  [SetStyleNameAndUpdate(k, named,
                               IF home = "" /\ visitor = "" THEN <<"Disabled">> ELSE <<>>)
            EXCEPT !.visitorTimer = visitor # "" /\ home # "" /\ home # visitor]

ShowVisitorNetworkName(i, c) ==
    SetValue("PhoneNetwork", [i EXCEPT !.visitorTimer = FALSE], <<VisitorNetwork(c)>>)

CallOrMutedChanged(i, c) ==
    LET rings == c.PhoneCall \in {"alerting", "knocking"}
        active == c.PhoneCall = "active"
        styled == SetStyleNameAndUpdate("Call", i,
                      IF rings THEN <<"Ringing">> ELSE IF active THEN <<"Ongoing">> ELSE <<>>)
        valued == SetValue("Call", styled, IF active /\ c.PhoneMuted THEN <<1, 1>> ELSE Zero)
    IN  UpdateAnimationStatus(Animated(valued, rings))

TetheringChanged(i, c) ==
    SetStyleNameAndUpdate("Tethering", i, IF c.Tethering THEN <<"Set">> ELSE <<>>)

ProfileChanged(i, c) ==
    SetStyleNameAndUpdate("Profile", i,
        IF c.ProfileName = "silent" THEN <<"Silent">>
        ELSE IF c.ProfileName = "meeting" THEN <<"Beep">> ELSE <<>>)

GpsStateChanged(i, c) ==
    LET styled == SetStyleNameAndUpdate("GPS", i,
                      IF c.SatPositioning = "on" THEN <<"On">>
                      ELSE IF c.SatPositioning = "search" THEN <<"Search">> ELSE <<>>)
    IN  UpdateAnimationStatus(Animated(styled, c.SatPositioning = "search"))

CallForwardingChanged(i, c) ==
    SetStyleNameAndUpdate("CallForwarding", i, IF c.CallForward THEN <<"Set">> ELSE <<>>)

DlnaEnabledChanged(i, c) ==
    SetStyleNameAndUpdate("DLNA", i, IF c.Dlna THEN <<"Set">> ELSE <<>>)

(* Two indicators are told what to show. *)
SetIconID(k, i, icon) ==
    SetStyleNameAndUpdate(k, SetValue(k, i, <<icon>>), IF icon = "" THEN <<"Disabled">> ELSE <<>>)

TransferStateChanged(i, state) ==
    UpdateAnimationStatus(SetStyleNameAndUpdate("Transfer", i,
        IF state \in {"Live", "Fail", "Pending"} THEN <<state>> ELSE <<>>))

-----------------------------------------------------------------------------
(* Changes of the context, and the display.                                *)

(* Every context item of the indicator says that its contents changed. *)
Refresh(k, i, c) ==
    CASE k = "PhoneNetworkSignalStrength" -> SetNetworkStatus(SignalStrengthChanged(i, c), c)
      [] k = "PhoneNetworkType" -> SetNetworkType(i, c)
      [] k = "Battery" -> BatteryChargingChanged(BatteryLevelChanged(i, c), c)
      [] k = "Alarm" -> AlarmChanged(i, c)
      [] k = "ShortDistanceNetwork" -> ShortDistanceActivityChanged(i, c)
      [] k = "Presence" -> PresenceChanged(i, c)
      [] k = "PhoneNetwork" -> PhoneNetworkChanged(i, c)
      [] k = "Call" -> CallOrMutedChanged(i, c)
      [] k = "Tethering" -> TetheringChanged(i, c)
      [] k = "Profile" -> ProfileChanged(i, c)
      [] k = "GPS" -> GpsStateChanged(i, c)
      [] k = "CallForwarding" -> CallForwardingChanged(i, c)
      [] k = "DLNA" -> DlnaEnabledChanged(i, c)
      [] OTHER -> i

(* One context item says that its contents changed. *)
ContentsChanged(k, i, c, key) ==
    CASE key = "SignalBars" -> SignalStrengthChanged(i, c)
      [] key = "ChargeBars" -> BatteryLevelChanged(i, c)
      [] k = "PhoneNetworkSignalStrength" /\ key # "SignalBars" -> SetNetworkStatus(i, c)
      [] k = "Battery" /\ key # "ChargeBars" -> BatteryChargingChanged(i, c)
      [] k = "PhoneNetwork" /\ key \in {"ServiceStatus", "RegistrationStatus"} /\ ~i.followsService -> i
      [] OTHER -> Refresh(k, i, c)

(* The indicators after one of them changed: the network type is told when *)
(* the signal strength finds that the availability of the network changed. *)
WithIndicator(all, k, i, c) ==
    LET changed == [all EXCEPT ![k] = i]
    IN  IF k = "PhoneNetworkSignalStrength" /\ i.available # all[k].available
        THEN [changed EXCEPT !["PhoneNetworkType"] = SetNetworkAvailability(@, c, i.available)]
        ELSE changed

(* Bug: the indicator waits for the next change. *)
EnterDisplayEventWaits(all, k, c) ==
    [all EXCEPT ![k] = SetModelUpdatesEnabled(k, @, TRUE)]

(* Every item is subscribed to, then the indicator looks at all of them. *)
EnterDisplayEvent(all, k, c) ==
    WithIndicator(all, k, Refresh(k, SetModelUpdatesEnabled(k, all[k], TRUE), c), c)

ExitDisplayEvent(all, k) == [all EXCEPT ![k] = SetModelUpdatesEnabled(k, @, FALSE)]

OnDisplay == \A k \in group : indicators[k].enabled

(* The renderer tells all the items of its scene, in any order. *)
EnterDisplay ==
    /\ ~OnDisplay
    /\ \E first \in group :
            LET once == EnterDisplayEvent(indicators, first, known)
                others == group \ {first}
            IN  indicators' = IF others = {} THEN once
                              ELSE EnterDisplayEvent(once, CHOOSE k \in others : TRUE, known)
    /\ UNCHANGED <<group, known>>

ExitDisplay ==
    /\ OnDisplay
    /\ indicators' = [k \in group |-> ExitDisplayEvent(indicators, k)[k]]
    /\ UNCHANGED <<group, known>>

(* A property changes.  Off display nobody is subscribed, and the value is *)
(* still shared with others in the process who may be.                     *)
ContextChanges ==
    \E key \in KeysOf(group) \ {"DisplayLimited"} : \E value \in ContextValues[key] \ {known[key]} :
        /\ known' = [known EXCEPT ![key] = value]
        /\ indicators' = IF ~OnDisplay THEN indicators
                         ELSE LET k == CHOOSE kind \in group : key \in Keys[kind]
                              IN  WithIndicator(indicators, k,
                                                ContentsChanged(k, indicators[k], known', key), known')
        /\ UNCHANGED group

ConfigurationChanges ==
    /\ "PhoneNetwork" \in group
    /\ known' = [known EXCEPT !.DisplayLimited = ~@]
    /\ indicators' = [indicators EXCEPT !.PhoneNetwork = PhoneNetworkChanged(@, known')]
    /\ UNCHANGED group

VisitorTimeout ==
    /\ "PhoneNetwork" \in group
    /\ indicators["PhoneNetwork"].visitorTimer
    /\ indicators' = [indicators EXCEPT !.PhoneNetwork = ShowVisitorNetworkName(@, known)]
    /\ UNCHANGED <<group, known>>

(* The icons that the sinks and the input method set, and the transfers. *)
IconSet ==
    \E k \in group \cap ShowsIcons : \E icon \in {"", "icon"} :
        /\ indicators' = [indicators EXCEPT ![k] = SetIconID(k, @, icon)]
        /\ UNCHANGED <<group, known>>

TransferUiTells ==
    /\ "Transfer" \in group
    /\ \E state \in {"Idle", "Live", "Fail", "Pending"} :
            indicators' = [indicators EXCEPT !.Transfer = TransferStateChanged(@, state)]
    /\ UNCHANGED <<group, known>>

-----------------------------------------------------------------------------
Plain == [style |-> <<>>, postfix |-> FALSE, value |-> <<>>, shown |-> <<>>,
          enabled |-> FALSE, animateIfPossible |-> FALSE, animate |-> FALSE,
          images |-> FALSE, running |-> FALSE,
          available |-> FALSE, followsService |-> FALSE, visitorTimer |-> FALSE]

(* Some kinds look at the context when they are made, the others wait for  *)
(* the display.                                                            *)
WaitForDisplay == {"ShortDistanceNetwork", "Call", "Profile", "GPS", "Transfer"}

NewIndicator(k, c) ==
    IF k \in WaitForDisplay THEN Plain
    ELSE IF k \in ShowsIcons THEN SetIconID(k, Plain, "")
    ELSE IF k = "Battery"
    THEN BatteryLevelChanged(
             SetStyleNameAndUpdate(k, Plain, IF c.PowerSaveMode THEN <<"PowerSave">> ELSE <<"Level">>), c)
    ELSE Refresh(k, Plain, c)

StatusInit ==
    /\ group \in IndicatorGroups
    /\ known = [key \in KeysOf(group) |-> NullOf(key)]
    /\ indicators = [k \in group |-> NewIndicator(k, known)]

StatusNext ==
    \/ EnterDisplay
    \/ ExitDisplay
    \/ ContextChanges
    \/ ConfigurationChanges
    \/ VisitorTimeout
    \/ IconSet
    \/ TransferUiTells

StatusSpec == StatusInit /\ [][StatusNext]_statusVars

-----------------------------------------------------------------------------
(* What the kind would show if it had only just come on display. *)
AsNew(k) == Refresh(k, SetModelUpdatesEnabled(k, NewIndicator(k, known), TRUE), known)

(* An indicator on display depends on the context as it is, whatever it    *)
(* went through, on display or off it: style, value and animation are      *)
(* those of an indicator that has only just appeared (enterDisplayEvent    *)
(* subscribes and then looks at everything, statusindicator.cpp:89-96).    *)
(* Left out are: a battery that tells no bars, which keeps the last ones;  *)
(* the bars while there is no network; the visited network, which comes    *)
(* after the home one; and a network type that was hidden when the network *)
(* was lost.                                                               *)
IndicatorsTellTheContext ==
    \A k \in group \ (ShowsIcons \cup {"Transfer"}) : OnDisplay =>
        LET i == indicators[k]
            new == AsNew(k)
        IN  /\ i.shown = i.value
            /\ \/ i.style = new.style
               \/ k = "PhoneNetworkType" /\ i.style = <<>>
            /\ k # "PhoneNetworkType" => i.animate = new.animate
            /\ \/ i.shown = new.shown
               \/ k = "Battery" /\ Len(known.ChargeBars) # 2
               \/ k = "PhoneNetworkSignalStrength" /\ ~i.available
               \/ k = "PhoneNetwork" /\ i.shown = <<VisitorNetwork(known)>>

(* While emergency calls only, or no coverage, is what the phone network   *)
(* indicator has to say, no timer brings back the name of a network that   *)
(* was visited before (phoneNetworkChanged, statusindicator.cpp:529-583).  *)
LimitedServiceStays ==
    "PhoneNetwork" \in group =>
        LET i == indicators.PhoneNetwork
        IN  i.postfix => i.value \in LimitedTexts /\ ~i.visitorTimer

=============================================================================
