------------------------------ MODULE Monitor ------------------------------
(* One monitor task from its start to its end (run_device and               *)
(* handle_key_event, monitor.rs), key by key, with what it works between:   *)
(* the device, the request channel of the MQTT session, and the coordinator *)
(* that records the keys and announces them as triggers (hass.rs).          *)
(*                                                                          *)
(* Coordinator and Hotplug see a monitor from outside, as a task that       *)
(* reports keys or its end; this module is about what it does with a key:   *)
(* the payload it publishes on the action topic has to be the one that the  *)
(* discovery announces, and these two are made in different places.         *)
EXTENDS Texts

CONSTANTS
    Codes,      \* key codes
    DebugName,  \* evdev's Debug text of a KeyCode
    MaxOutbox,  \* capacity of the request channel (100 in the code)
    MaxEvents   \* bound on the events the device makes

VARIABLES
    stage,     \* "starting", "reading", "publishing", "reporting", "ended"
    now,       \* the key event being handled
    told,      \* the shutdown oneshot has been sent, or its sender dropped
    aborted,   \* JoinHandle::abort
    plugged,   \* the device is there
    pending,   \* events the monitor can read from it
    rx,        \* CoordinatorMsg channel
    known,     \* the registry has a record of the device
    keys,      \* its observed_keys
    refused,   \* the event loop has ended: every publish fails
    outbox,    \* publishes requested and not transmitted
    triggers,  \* the triggers of the retained discovery
    heard,     \* history: what subscribers got on the action topic
    typed,     \* history: the presses and releases the device made
    events     \* what has been used of MaxEvents

taskVars    == <<stage, now, told, aborted>>
deviceVars  == <<plugged, pending, typed, events>>
recordVars  == <<known, keys>>
brokerVars  == <<refused, triggers, heard>>
monitorVars == <<taskVars, deviceVars, rx, recordVars, outbox, brokerVars>>

ASSUME MaxOutboxAssumption == MaxOutbox \in Nat

-----------------------------------------------------------------------------
(* Key names and payloads.                                                  *)

HasName(code) == Lists!IsPrefix(<<"KEY", "_">>, DebugName[code])
                 \/ Lists!IsPrefix(<<"BTN", "_">>, DebugName[code])

(* hass.rs gives a code without a name one of its own; monitor.rs takes the *)
(* Debug text as it is.                                                     *)
key_name(code) ==
    IF HasName(code) THEN DebugName[code] ELSE <<"KEY", "_", ToString(code)>>

Payload(name, action) == key_slug(name) \o <<"_", action>>

(* The payload of a key as handle_key_event publishes it, and as            *)
(* discovery_payload announces it.                                          *)
Actions   == {"press", "release"}
Spoken    == [code \in Codes |-> [action \in Actions |-> Payload(DebugName[code], action)]]
Announced == [code \in Codes |-> [action \in Actions |-> Payload(key_name(code), action)]]

(* Mutant: an autorepeat is one more press.                                 *)
repeat_is_press(value) == IF value = 0 THEN "release" ELSE "press"

evdev_value_to_action(value) ==
    CASE value = 1 -> "press"
      [] value = 0 -> "release"
      [] OTHER     -> "none"

Published(event) == Spoken[event.code][evdev_value_to_action(event.value)]

(* The components discovery_payload makes of the observed keys.             *)
TriggersOf(codes) == {Announced[code][action] : code \in codes, action \in Actions}

-----------------------------------------------------------------------------
Key(code, value) == [code |-> code, value |-> value]

(* Any event that is not of a key.                                          *)
NonKey == [code |-> -1, value |-> 0]

Event == {Key(code, value) : code \in Codes, value \in 0..2} \cup {NonKey}

(* A press or a release; the others are autorepeat.                         *)
IsKeystroke(event) == event # NonKey /\ event.value \in {0, 1}

Action(text)     == [topic |-> "action", body |-> text]
Info             == [topic |-> "info", body |-> {}]
Enabled          == [topic |-> "enabled", body |-> {}]
Discovery(codes) == [topic |-> "discovery", body |-> TriggersOf(codes)]

KeyObserved(code)  == [kind |-> "key", code |-> code]
DeviceDisconnected == [kind |-> "disconnected", code |-> -1]

(* A handler's publishes wait for room, or all fail.                        *)
Publish(msgs) ==
    IF refused THEN UNCHANGED outbox
    ELSE /\ Len(outbox) + Len(msgs) <= MaxOutbox
         /\ outbox' = outbox \o msgs

(* The device was switched on and sighted; its record may have keys of      *)
(* earlier days, which the daemon announced when it started.                *)
MonitorInit ==
    /\ stage = "starting"
    /\ now = NonKey
    /\ told = FALSE /\ aborted = FALSE
    /\ plugged = TRUE
    /\ pending = <<>>
    /\ rx = <<>>
    /\ known = TRUE
    /\ keys \in SUBSET Codes
    /\ refused = FALSE
    /\ outbox = <<>>
    /\ triggers = TriggersOf(keys)
    /\ heard = <<>> /\ typed = <<>>
    /\ events = 0

-----------------------------------------------------------------------------
(* run_device.                                                              *)

Ends(msgs) ==
    /\ stage' = "ended"
    /\ pending' = <<>>
    /\ rx' = rx \o msgs
    /\ UNCHANGED <<now, told, aborted, plugged, typed, events, recordVars, outbox, brokerVars>>

(* Open, grab -- if someone else has it grabbed, go on without -- and read. *)
Opens ==
    /\ stage = "starting"
    /\ plugged
    /\ stage' = "reading"
    /\ UNCHANGED <<now, told, aborted, deviceVars, rx, recordVars, outbox, brokerVars>>

OpenFails == stage = "starting" /\ Ends(<<DeviceDisconnected>>)

(* ENODEV, another error, or the end of the stream.                         *)
StreamFails == stage = "reading" /\ Ends(<<DeviceDisconnected>>)

(* The shutdown branch of the select; it is as likely as the other one.     *)
Stops == stage = "reading" /\ told /\ Ends(<<>>)

(* abort works where the task waits: before it ran, for an event, or for    *)
(* room in the request channel.                                             *)
IsAborted ==
    /\ aborted
    /\ stage \in {"starting", "reading", "publishing"}
    /\ stage = "publishing" => Len(outbox) = MaxOutbox
    /\ Ends(<<>>)

ReadEvent ==
    /\ stage = "reading"
    /\ pending # <<>>
    /\ pending' = Tail(pending)
    /\ LET event == Head(pending) IN
       IF event # NonKey /\ evdev_value_to_action(event.value) # "none"
       THEN stage' = "publishing" /\ now' = event
       ELSE UNCHANGED <<stage, now>>
    /\ UNCHANGED <<told, aborted, plugged, typed, events, rx, recordVars, outbox, brokerVars>>

(* Mutant: the payload does not wait for room.                              *)
PublishesAnyway ==
    /\ stage = "publishing"
    /\ outbox' = IF refused THEN outbox ELSE Append(outbox, Action(Published(now)))
    /\ stage' = "reporting"
    /\ UNCHANGED <<now, told, aborted, deviceVars, rx, recordVars, brokerVars>>

PublishesAction ==
    /\ stage = "publishing"
    /\ Publish(<<Action(Published(now))>>)
    /\ stage' = "reporting"
    /\ UNCHANGED <<now, told, aborted, deviceVars, rx, recordVars, brokerVars>>

(* "Tell the coordinator regardless of publish success" (monitor.rs).       *)
ReportsKey ==
    /\ stage = "reporting"
    /\ rx' = Append(rx, KeyObserved(now.code))
    /\ stage' = "reading"
    /\ now' = NonKey
    /\ UNCHANGED <<told, aborted, deviceVars, recordVars, outbox, brokerVars>>

-----------------------------------------------------------------------------
(* The coordinator (coordinator.rs), as far as this device goes.            *)

(* Mutant: discovery goes out before the key is in the record.              *)
AnnouncesTooEarly ==
    /\ rx # <<>> /\ Head(rx).kind = "key"
    /\ known
    /\ Head(rx).code \notin keys
    /\ keys' = keys \cup {Head(rx).code}
    /\ Publish(<<Info, Discovery(keys)>>)
    /\ rx' = Tail(rx)
    /\ UNCHANGED <<taskVars, deviceVars, known, brokerVars>>

OnKey ==
    /\ rx # <<>> /\ Head(rx).kind = "key"
    /\ known
    /\ Head(rx).code \notin keys
    /\ keys' = keys \cup {Head(rx).code}
    /\ Publish(<<Info, Discovery(keys')>>)
    /\ rx' = Tail(rx)
    /\ UNCHANGED <<taskVars, deviceVars, known, brokerVars>>

OnKeyIgnored ==
    /\ rx # <<>> /\ Head(rx).kind = "key"
    /\ ~known \/ Head(rx).code \in keys
    /\ rx' = Tail(rx)
    /\ UNCHANGED <<taskVars, deviceVars, recordVars, outbox, brokerVars>>

OnDisconnected ==
    /\ rx # <<>> /\ Head(rx).kind = "disconnected"
    /\ rx' = Tail(rx)
    /\ told' = TRUE
    /\ UNCHANGED <<stage, now, aborted, deviceVars, recordVars, outbox, brokerVars>>

(* The device is switched off and its switch mirrored, or it is removed and *)
(* its three topics are cleared.                                            *)
OnOff ==
    /\ known
    /\ ~aborted
    /\ Publish(<<Enabled>>)
    /\ told' = TRUE /\ aborted' = TRUE
    /\ UNCHANGED <<stage, now, deviceVars, rx, recordVars, brokerVars>>

OnRemove ==
    /\ known
    /\ known' = FALSE
    /\ keys' = {}
    /\ told' = TRUE /\ aborted' = TRUE
    /\ Publish(<<Info, Enabled, Discovery({})>>)
    /\ UNCHANGED <<stage, now, deviceVars, rx, brokerVars>>

-----------------------------------------------------------------------------
(* The device and the broker.                                               *)

Emit(event) ==
    /\ plugged
    /\ stage \in {"reading", "publishing", "reporting"}
    /\ events < MaxEvents
    /\ events' = events + 1
    /\ pending' = Append(pending, event)
    /\ typed' = IF IsKeystroke(event) THEN Append(typed, event) ELSE typed
    /\ UNCHANGED <<taskVars, plugged, rx, recordVars, outbox, brokerVars>>

Unplug ==
    /\ plugged
    /\ plugged' = FALSE
    /\ UNCHANGED <<taskVars, pending, typed, events, rx, recordVars, outbox, brokerVars>>

Transmit ==
    /\ outbox # <<>>
    /\ outbox' = Tail(outbox)
    /\ LET msg == Head(outbox) IN
       /\ heard' = IF msg.topic = "action" THEN Append(heard, msg.body) ELSE heard
       /\ triggers' = IF msg.topic = "discovery" THEN msg.body ELSE triggers
    /\ UNCHANGED <<taskVars, deviceVars, rx, recordVars, refused>>

(* The event loop ends with a permanent failure. *)
EventLoopEnds ==
    /\ ~refused
    /\ refused' = TRUE
    /\ outbox' = <<>>
    /\ UNCHANGED <<taskVars, deviceVars, rx, recordVars, triggers, heard>>

-----------------------------------------------------------------------------
MonitorNext ==
    \/ Opens \/ OpenFails \/ StreamFails \/ Stops \/ IsAborted
    \/ ReadEvent \/ PublishesAction \/ ReportsKey
    \/ OnKey \/ OnKeyIgnored \/ OnDisconnected \/ OnOff \/ OnRemove
    \/ \E event \in Event : Emit(event)
    \/ Unplug \/ Transmit \/ EventLoopEnds

(* The tasks are scheduled, senders wait in line for room, the broker takes *)
(* what it is sent.                                                         *)
MonitorFairness ==
    /\ WF_monitorVars(ReadEvent)
    /\ SF_monitorVars(PublishesAction)
    /\ WF_monitorVars(ReportsKey)
    /\ SF_monitorVars(OnKey)
    /\ WF_monitorVars(OnKeyIgnored)
    /\ WF_monitorVars(OnDisconnected)
    /\ WF_monitorVars(Transmit)

MonitorSpec == MonitorInit /\ [][MonitorNext]_monitorVars /\ MonitorFairness

-----------------------------------------------------------------------------
MonitorTypeOK ==
    /\ stage \in {"starting", "reading", "publishing", "reporting", "ended"}
    /\ now \in Event
    /\ stage \in {"publishing", "reporting"} => now # NonKey
    /\ Len(outbox) <= MaxOutbox
    /\ keys \subseteq Codes

(* What a list says, item by item, where `says` gives an item something to  *)
(* say.                                                                     *)
Say(out, item, says) ==
    IF item \in DOMAIN says THEN Append(out, says[item]) ELSE out

Said(list, says) ==
    LET out[n \in 0..Len(list)] ==
            IF n = 0 THEN <<>> ELSE Say(out[n - 1], list[n], says)
    IN  out[Len(list)]

(* The payload of each keystroke, and of each message on the action topic.  *)
OfKeystrokes ==
    [event \in {e \in Event : IsKeystroke(e)} |->
        Spoken[event.code][IF event.value = 1 THEN "press" ELSE "release"]]

OfMessages ==
    [msg \in {Action(Spoken[code][action]) : code \in Codes, action \in Actions} |-> msg.body]

PayloadsOf(list) == Said(list, OfKeystrokes)
OnTheWay         == Said(outbox, OfMessages)
InTheHand        == IF stage = "publishing" THEN <<now>> ELSE <<>>

(* No keystroke is lost, made up, doubled or overtaken on its way: what     *)
(* subscribers have heard, what is on its way to them, what is being        *)
(* handled and what is still to be read are together what was typed,        *)
(* autorepeat and other events apart, as long as the session and the        *)
(* monitor live; when the monitor ends, what it had not published is lost,  *)
(* and nothing before that.                                                 *)
KeystrokesAreConserved ==
    ~refused =>
        IF stage = "ended"
        THEN Lists!IsPrefix(heard \o OnTheWay, PayloadsOf(typed))
        ELSE heard \o OnTheWay \o PayloadsOf(InTheHand \o pending) = PayloadsOf(typed)

(* What is heard is announced in the end: once a key has been heard, the    *)
(* payload becomes one of the triggers of the discovery (README: a pair of  *)
(* triggers "for every key the daemon has ever observed on that device"),   *)
(* although the monitor may be stopped and the device unplugged meanwhile.  *)
(* Not if the device is removed or the session ends, and only for keys that *)
(* evdev has a name for.                                                    *)
HeardIsAnnounced ==
    \A code \in {c \in Codes : HasName(c)}, action \in Actions :
        LET text == Spoken[code][action] IN
        text \in {heard[i] : i \in DOMAIN heard}
        ~> text \in triggers \/ ~known \/ refused
=============================================================================
