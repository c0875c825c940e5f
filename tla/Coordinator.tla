---------------------------- MODULE Coordinator ----------------------------
(* The coordinator task (coordinator.rs): the one owner of the registry, of *)
(* the map of connected devices and of the map of monitor tasks.  It takes  *)
(* one message at a time from two channels -- `rx`, filled by the watcher   *)
(* and the monitors, and `incoming`, filled by the MQTT event loop -- and   *)
(* runs one handler to its end before the next.                             *)
(*                                                                          *)
(* The environment is open: any device may be sighted at any path, a        *)
(* monitor task may report a key or end at any time, any payload may        *)
(* arrive on any topic, the process may die between any two steps.          *)
(*                                                                          *)
(* `loaded` (DeviceDb) is TRUE while the process runs.  `outbox` is the     *)
(* request channel of the MQTT client; it lives in the process's memory, so *)
(* a crash loses what has not been transmitted, which is how a crash in the *)
(* middle of a handler, after its save, shows.                              *)
EXTENDS DeviceDb

CONSTANTS
    Paths,        \* /dev/input/eventN
    Tasks,        \* bound: monitor tasks alive, or held in a slot, at a time
    HassEnabled,  \* HassConfig::enabled
    MaxRx,        \* bound on `rx`; the code's channel has none
    MaxIncoming,  \* bound on `incoming`; the code's channel has none
    MaxOutbox     \* capacity of the request channel (100 in the code)

VARIABLES
    todo,       \* records republish_known has still to announce
    connected,  \* Coordinator::connected, slug to path
    monitored,  \* Coordinator::monitored, slug to task
    tasks,      \* the monitor tasks that run, held in a slot or not
    rx,         \* CoordinatorMsg channel
    incoming,   \* IncomingPublish channel
    outbox      \* publishes requested and not transmitted

slotVars    == <<connected, monitored, tasks>>
channelVars == <<rx, incoming, outbox>>
vars        == <<devices, file, loaded, todo, connected, monitored, tasks,
                 rx, incoming, outbox>>

ASSUME HassEnabledAssumption == HassEnabled \in BOOLEAN
ASSUME BoundsAssumption == MaxRx \in Nat /\ MaxIncoming \in Nat /\ MaxOutbox \in Nat
ASSUME SlotAssumption == None \notin Paths \cup Tasks

-----------------------------------------------------------------------------
(* Messages.                                                                *)

DeviceConnected(id, path) == [kind |-> "connected", id |-> id, path |-> path]
DeviceDisconnected(slug)  == [kind |-> "disconnected", slug |-> slug]
KeyObserved(slug, code)   == [kind |-> "key", slug |-> slug, code |-> code]

CoordinatorMsg ==
    {DeviceConnected(id, p) : id \in Identities, p \in Paths}
    \cup {DeviceDisconnected(s) : s \in Slugs}
    \cup {KeyObserved(s, c) : s \in Slugs, c \in Codes}

(* A publish the broker delivers.  A topic that parse_enabled_topic rejects *)
(* has no slug.  None is a payload that is empty once trimmed, or that is   *)
(* not UTF-8, which the code reads as empty; "junk" is any other but on and *)
(* off.                                                                     *)
Bodies          == {"on", "off", "junk", None}
IncomingPublish == [slug : Optional(Slugs), body : Bodies]

(* A retained publish of the daemon, reduced to what its payload depends    *)
(* on.  None is the empty payload that clears the topic.                    *)
Switch(rec)  == IF rec.enabled THEN "on" ELSE "off"
Info(rec)    == [topic |-> "info", slug |-> rec.slug,
                 body |-> [tag |-> rec.tag, serial |-> rec.serial]]
(* Mutant: the mirror of a new device, sent for any.                        *)
MirrorOff(rec) == [topic |-> "enabled", slug |-> rec.slug, body |-> "off"]

Mirror(rec)  == [topic |-> "enabled", slug |-> rec.slug, body |-> Switch(rec)]
Trigger(rec) == [topic |-> "discovery", slug |-> rec.slug,
                 body |-> [tag |-> rec.tag, keys |-> rec.keys]]
Clear(topic, slug) == [topic |-> topic, slug |-> slug, body |-> None]

(* publish_discovery does nothing when Home Assistant support is off. *)
Discovery(rec) == IF HassEnabled THEN <<Trigger(rec)>> ELSE <<>>

(* Mutant: the mirror is left to the user's own publish.                    *)
AnnounceNoMirror(rec) == <<Info(rec)>> \o Discovery(rec)

Announce(rec) == <<Info(rec), Mirror(rec)>> \o Discovery(rec)

(* Mutants: discovery is left behind; the enabled topic is left as the user *)
(* who removes the device has cleared it.                                   *)
ClearsNoDiscovery(slug) == <<Clear("info", slug), Clear("enabled", slug)>>

ClearsUnlessCleared(slug) == <<Clear("info", slug), Clear("discovery", slug)>>

Clears(slug) ==
    <<Clear("info", slug), Clear("enabled", slug), Clear("discovery", slug)>>

Publish(msgs) ==
    /\ Len(outbox) + Len(msgs) <= MaxOutbox
    /\ outbox' = outbox \o msgs

-----------------------------------------------------------------------------
(* Monitor slots.                                                           *)

Task == [slug : Slugs, path : Paths, told : BOOLEAN]

IsFresh(t) == tasks[t] = None /\ \A s \in Slugs : monitored[s] # t

(* The tasks after the handle in a slot is dropped or signalled: either way *)
(* the task's shutdown future resolves.                                     *)
Released(slug) ==
    [t \in Tasks |-> IF t = monitored[slug] /\ tasks[t] # None
                     THEN [tasks[t] EXCEPT !.told = TRUE]
                     ELSE tasks[t]]

(* spawn_monitor, with the identity of the connected device. *)
SpawnMonitor(slug, path) ==
    \E t \in Tasks :
        /\ IsFresh(t)
        /\ monitored' = [monitored EXCEPT ![slug] = t]
        /\ tasks' = [Released(slug) EXCEPT
                        ![t] = [slug |-> slug, path |-> path, told |-> FALSE]]

(* Mutant: the slot is emptied and the task runs on.                        *)
StopMonitorUntold(slug) ==
    /\ monitored' = [monitored EXCEPT ![slug] = None]
    /\ UNCHANGED tasks

StopMonitor(slug) ==
    /\ monitored' = [monitored EXCEPT ![slug] = None]
    /\ tasks' = Released(slug)

-----------------------------------------------------------------------------
(* The life of the process.                                                 *)

Init ==
    /\ DbInit
    /\ todo = 0
    /\ connected = [s \in Slugs |-> None]
    /\ monitored = [s \in Slugs |-> None]
    /\ tasks = [t \in Tasks |-> None]
    /\ rx = <<>> /\ incoming = <<>> /\ outbox = <<>>

(* The daemon loads the registry, subscribes to the enabled topics, waits   *)
(* for the broker to replay what it retains there, and spawns the           *)
(* coordinator, which owes every record an announcement before it takes a   *)
(* message.                                                                 *)
Start(replay) ==
    /\ Load
    /\ todo' = Len(file)
    /\ incoming' = replay
    /\ UNCHANGED <<slotVars, rx, outbox>>

(* What the open environment may replay.                                    *)
Replays == UNION {[1..n -> IncomingPublish] : n \in 0..MaxIncoming}

(* The process ends between two steps: killed, or shut down.                *)
Die ==
    /\ Crash
    /\ todo' = 0
    /\ connected' = [s \in Slugs |-> None]
    /\ monitored' = [s \in Slugs |-> None]
    /\ tasks' = [t \in Tasks |-> None]
    /\ rx' = <<>> /\ incoming' = <<>> /\ outbox' = <<>>

(* republish_known, one record after the other.                             *)
Republish ==
    /\ loaded
    /\ todo > 0
    /\ Publish(Announce(devices[Len(devices) + 1 - todo]))
    /\ todo' = todo - 1
    /\ UNCHANGED <<dbVars, slotVars, rx, incoming>>

-----------------------------------------------------------------------------
(* The handlers of `rx`.                                                    *)

(* Mutant: messages are taken before every record is announced.             *)
CanHandleEarly == loaded

CanHandle == loaded /\ todo = 0

Take(kind) ==
    /\ CanHandle
    /\ rx # <<>>
    /\ Head(rx).kind = kind
    /\ rx' = Tail(rx)

(* Mutant: any connected device is monitored.                               *)
AttachAny(slug, path) ==
    IF connected[slug] # None
    THEN UNCHANGED slotVars
    ELSE /\ connected' = [connected EXCEPT ![slug] = path]
         /\ SpawnMonitor(slug, path)

(* The end of on_connected: a sighting of a connected slug is a duplicate;  *)
(* otherwise remember the path and monitor the device if it is enabled.     *)
Attach(slug, path) ==
    IF connected[slug] # None
    THEN UNCHANGED slotVars
    ELSE /\ connected' = [connected EXCEPT ![slug] = path]
         /\ IF EnabledIn(devices', slug)
            THEN SpawnMonitor(slug, path)
            ELSE UNCHANGED <<monitored, tasks>>

OnConnectedKnown ==
    /\ Take("connected")
    /\ \E i \in DOMAIN devices :
          /\ MatchKnown(Head(rx).id, i)
          /\ Attach(devices[i].slug, Head(rx).path)
    /\ UNCHANGED <<todo, incoming, outbox>>

OnConnectedNew ==
    /\ Take("connected")
    /\ \E slug \in Slugs :
          /\ InsertNew(Head(rx).id, slug)
          /\ Publish(Announce(NewRecord(Head(rx).id, slug)))
          /\ Attach(slug, Head(rx).path)
    /\ UNCHANGED <<todo, incoming>>

(* Both slots are emptied, whichever task the message comes from.           *)
OnDisconnected ==
    /\ Take("disconnected")
    /\ connected' = [connected EXCEPT ![Head(rx).slug] = None]
    /\ StopMonitor(Head(rx).slug)
    /\ UNCHANGED <<dbVars, todo, incoming, outbox>>

OnKeyNew ==
    /\ Take("key")
    /\ \E i \in DOMAIN devices :
          LET rec == ObserveKey(devices[i], Head(rx).code) IN
          /\ RecordKey(Head(rx).slug, Head(rx).code, i)
          /\ Publish(<<Info(rec)>> \o Discovery(rec))
    /\ UNCHANGED <<todo, slotVars, incoming>>

(* The slug is unknown by now, or the key is known already.                 *)
OnKeyIgnored ==
    /\ Take("key")
    /\ \A i \in DOMAIN devices :
          IsAt(devices, Head(rx).slug, i) => Head(rx).code \in devices[i].keys
    /\ UNCHANGED <<dbVars, todo, slotVars, incoming, outbox>>

-----------------------------------------------------------------------------
(* handle_mqtt.                                                             *)

TakeIncoming ==
    /\ CanHandle
    /\ incoming # <<>>
    /\ incoming' = Tail(incoming)

Command == Head(incoming)

OnEnable ==
    /\ TakeIncoming
    /\ Command.slug # None
    /\ Command.body \in {"on", "off"}
    /\ LET on == Command.body = "on" IN
       \E i \in DOMAIN devices :
          /\ SetEnabled(Command.slug, on, i)
          /\ Publish(<<Mirror([devices[i] EXCEPT !.enabled = on])>>)
          /\ CASE ~on ->
                    StopMonitor(Command.slug)
               [] on /\ connected[Command.slug] # None
                     /\ monitored[Command.slug] = None ->
                    SpawnMonitor(Command.slug, connected[Command.slug])
               [] OTHER ->
                    UNCHANGED <<monitored, tasks>>
    /\ UNCHANGED <<todo, connected, rx>>

OnRemove ==
    /\ TakeIncoming
    /\ Command.slug # None
    /\ Command.body = None
    /\ \E i \in DOMAIN devices : Remove(Command.slug, i)
    /\ StopMonitor(Command.slug)
    /\ connected' = [connected EXCEPT ![Command.slug] = None]
    /\ Publish(Clears(Command.slug))
    /\ UNCHANGED <<todo, rx>>

(* Not an enabled topic, not a known slug, not a payload of the protocol,   *)
(* or a state the record has already (the echo of the mirror).              *)
OnIgnored ==
    /\ TakeIncoming
    /\ \/ Command.slug = None
       \/ Command.slug \notin SlugsOf(devices)
       \/ Command.body = "junk"
       \/ Command.body = "on" /\ EnabledIn(devices, Command.slug)
       \/ Command.body = "off" /\ ~EnabledIn(devices, Command.slug)
    /\ UNCHANGED <<dbVars, todo, slotVars, rx, outbox>>

-----------------------------------------------------------------------------
(* The environment.                                                         *)

(* The watcher opened a node and forwards the identity it read.             *)
Sight(id, path) ==
    /\ loaded
    /\ Len(rx) < MaxRx
    /\ rx' = Append(rx, DeviceConnected(id, path))
    /\ UNCHANGED <<dbVars, todo, slotVars, incoming, outbox>>

(* A monitor read a press or a release.  One that was told to stop may have *)
(* been in the middle of it.                                                *)
TaskKey(t, code) ==
    /\ tasks[t] # None
    /\ Len(rx) < MaxRx
    /\ rx' = Append(rx, KeyObserved(tasks[t].slug, code))
    /\ UNCHANGED <<dbVars, todo, slotVars, incoming, outbox>>

(* Mutant: a monitor that fails ends without a word.                        *)
TaskFailsSilently(t) ==
    /\ tasks[t] # None
    /\ tasks' = [tasks EXCEPT ![t] = None]
    /\ UNCHANGED <<dbVars, todo, connected, monitored, channelVars>>

(* A monitor cannot open its path, or its stream fails or ends.             *)
TaskFails(t) ==
    /\ tasks[t] # None
    /\ Len(rx) < MaxRx
    /\ rx' = Append(rx, DeviceDisconnected(tasks[t].slug))
    /\ tasks' = [tasks EXCEPT ![t] = None]
    /\ UNCHANGED <<dbVars, todo, connected, monitored, incoming, outbox>>

(* A monitor that was told to stop, or aborted, ends without a word.        *)
TaskStops(t) ==
    /\ tasks[t] # None
    /\ tasks[t].told
    /\ tasks' = [tasks EXCEPT ![t] = None]
    /\ UNCHANGED <<dbVars, todo, connected, monitored, channelVars>>

Receive(msg) ==
    /\ loaded
    /\ Len(incoming) < MaxIncoming
    /\ incoming' = Append(incoming, msg)
    /\ UNCHANGED <<dbVars, todo, slotVars, rx, outbox>>

(* The event loop hands the oldest request to the network.                  *)
Transmit ==
    /\ outbox # <<>>
    /\ outbox' = Tail(outbox)
    /\ UNCHANGED <<dbVars, todo, slotVars, rx, incoming>>

-----------------------------------------------------------------------------
Handle ==
    \/ Republish
    \/ OnConnectedKnown \/ OnConnectedNew \/ OnDisconnected
    \/ OnKeyNew \/ OnKeyIgnored
    \/ OnEnable \/ OnRemove \/ OnIgnored

Next ==
    \/ \E replay \in Replays : Start(replay)
    \/ Die
    \/ Handle
    \/ \E id \in Identities, path \in Paths : Sight(id, path)
    \/ \E t \in Tasks, code \in Codes : TaskKey(t, code)
    \/ \E t \in Tasks : TaskFails(t) \/ TaskStops(t)
    \/ \E msg \in IncomingPublish : Receive(msg)
    \/ Transmit

Spec == Init /\ [][Next]_vars

-----------------------------------------------------------------------------
InfoBody      == [tag : Optional(Tags), serial : Optional(Serials)]
DiscoveryBody == [tag : Optional(Tags), keys : SUBSET Codes]

ASSUME AbsenceAssumption ==
    None \notin Task \cup {"on", "off", "junk"} \cup InfoBody \cup DiscoveryBody

IsPublication(msg) ==
    /\ msg.slug \in Slugs
    /\ \/ msg.topic = "info"      /\ msg.body \in Optional(InfoBody)
       \/ msg.topic = "enabled"   /\ msg.body \in {"on", "off", None}
       \/ msg.topic = "discovery" /\ msg.body \in Optional(DiscoveryBody)

TypeOK ==
    /\ DbTypeOK
    /\ todo \in 0..Len(devices)
    /\ connected \in [Slugs -> Optional(Paths)]
    /\ monitored \in [Slugs -> Optional(Tasks)]
    /\ tasks \in [Tasks -> Optional(Task)]
    /\ rx \in Seq(CoordinatorMsg)
    /\ incoming \in Seq(IncomingPublish)
    /\ \A k \in DOMAIN outbox : IsPublication(outbox[k])

(* The slots agree with the registry: only known devices are connected, and *)
(* a slug has a monitor exactly when its device is connected and its switch *)
(* is on.  Four handlers share the upkeep of this: a sighting may spawn, a  *)
(* command may spawn or stop, a disconnect and a removal empty both slots.  *)
MonitorsFollowSwitches ==
    \A s \in Slugs :
        /\ connected[s] # None => s \in SlugsOf(devices)
        /\ monitored[s] # None <=> connected[s] # None /\ EnabledIn(devices, s)

(* A device has one monitor: a task that has not been told to stop is the   *)
(* one its slot holds and reads the path the slug is connected at; a task   *)
(* no slot holds any more has been told.  A task that fell through would    *)
(* keep its grab on a device whose switch is off.                           *)
NoStrayMonitor ==
    /\ \A t \in Tasks :
          tasks[t] # None /\ ~tasks[t].told =>
             /\ monitored[tasks[t].slug] = t
             /\ connected[tasks[t].slug] = tasks[t].path
    /\ \A s \in Slugs, t \in Tasks :
          monitored[s] = t /\ tasks[t] # None =>
             tasks[t].slug = s /\ ~tasks[t].told

(* A slot whose task has ended is emptied in the end: the disconnect of its *)
(* device is still in the queue.  Without it a device whose monitor failed  *)
(* would count as monitored for ever, and neither a new sighting nor the    *)
(* switch would start another.                                              *)
DeadMonitorIsReported ==
    \A s \in Slugs :
        monitored[s] # None /\ tasks[monitored[s]] = None =>
            \E k \in DOMAIN rx : rx[k] = DeviceDisconnected(s)

(* What the registry has to say of a record on each of its topics.  (The tag *)
(* and the serial of the info are left out: a backfill changes them and     *)
(* publishes nothing.)                                                      *)
Says(rec, topic, body) ==
    CASE topic = "info"      -> body # None
      [] topic = "enabled"   -> body = Switch(rec)
      [] topic = "discovery" -> IF HassEnabled
                                THEN body # None /\ body.keys = rec.keys
                                ELSE body = None

IsCurrent(db, msg) ==
    IF msg.slug \in SlugsOf(db)
    THEN \E i \in DOMAIN db : /\ db[i].slug = msg.slug
                              /\ Says(db[i], msg.topic, msg.body)
    ELSE msg.body = None

IsLastWord(queue, k) ==
    \A l \in DOMAIN queue :
        l > k => \/ queue[l].topic # queue[k].topic
                 \/ queue[l].slug # queue[k].slug

(* The last publish queued on a retained topic says what the registry holds *)
(* when it is queued and ever after: handlers never leave an older word for *)
(* last, nor a word about a removed device.                                 *)
LastWordIsCurrent ==
    \A k \in DOMAIN outbox :
        IsLastWord(outbox, k) => IsCurrent(devices, outbox[k])

-----------------------------------------------------------------------------
(* The coordinator keeps the promise of DeviceLifecycle: whatever the       *)
(* handlers do with records, slots and queues, seen from outside each of    *)
(* them registers, attaches, detaches, switches or forgets one device, or   *)
(* changes nothing.                                                         *)
EnabledSlugs(db) == {s \in Slugs : EnabledIn(db, s)}

Lifecycle ==
    INSTANCE DeviceLifecycle WITH
        running <- loaded,
        known   <- SlugsOf(devices),
        on      <- EnabledSlugs(devices),
        present <- {s \in Slugs : connected[s] # None},
        watched <- {s \in Slugs : monitored[s] # None},
        kept    <- [known |-> SlugsOf(file), on |-> EnabledSlugs(file)]

KeepsThePromise == Lifecycle!Spec
=============================================================================
