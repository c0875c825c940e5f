------------------------------ MODULE Hotplug ------------------------------
(* The coordinator with what is below it: the device nodes of the kernel,   *)
(* the watcher that finds them (watcher.rs) and the monitor tasks that open,*)
(* grab and read them (monitor.rs).                                         *)
(*                                                                          *)
(* A plugged device is an instance: the identity it shows and a number that *)
(* no other plugging has.  A path names whatever is plugged there now; an   *)
(* open file stays on the instance it was opened on.  Unplugging makes no   *)
(* inotify event the watcher asked for: only the monitor that reads the     *)
(* device notices.                                                          *)
EXTENDS Coordinator

CONSTANTS
    KeyDevices,   \* identities with has_keys
    Stories,      \* what the environment may do, one of
                  \* [present : identities that may be plugged in at first,
                  \*  plugged : identities that may be plugged in later,
                  \*  codes : the keys that are pressed,
                  \*  slow : access to a node may come after the retries end,
                  \*  deaf : the watcher may fail,
                  \*  faulty : a device may fail while it stays plugged in,
                  \*  commands, deaths : bounds on the commands over MQTT
                  \*  and the deaths of the daemon]
    MaxPlugs      \* bound on the pluggings

VARIABLES
    story,
    node,      \* the instance at each path, None if there is no node
    allowed,   \* paths the daemon may open: udev and the cgroup are through
    watching,  \* the watcher: "off", "added" (inotify watch), "swept", "ended"
    retries,   \* open_with_retry tasks under way, by path
    seen,      \* history: instances this process has sighted
    fd,        \* what each monitor has open: the instance, and its grab
    used       \* what has been used of the three bounds

kernelVars  == <<node, allowed>>
watcherVars == <<watching, retries, seen>>
hotplugVars == <<vars, node, allowed, watching, retries, seen, fd, used>>

ASSUME KeyDevicesAssumption == KeyDevices \subseteq Identities
ASSUME PlugsAssumption == MaxPlugs \in Nat
ASSUME StoriesAssumption ==
    \A s \in Stories :
        s \in [present : SUBSET Identities, plugged : SUBSET Identities,
              codes : SUBSET Codes, slow : BOOLEAN, deaf : BOOLEAN,
              faulty : BOOLEAN, commands : Nat, deaths : Nat]

Instance == [id : Identities, number : 0..MaxPlugs]

Plugged(d) == \E p \in Paths : node[p] = d

CanOpen(p) == node[p] # None /\ p \in allowed

-----------------------------------------------------------------------------
HotplugInit ==
    /\ Init
    /\ story \in Stories
    /\ node \in [Paths -> Optional([id : story.present, number : {0}])]
    /\ \A p, q \in Paths : p # q /\ node[p] # None => node[q] # node[p]
    /\ allowed = {p \in Paths : node[p] # None}
    /\ watching = "off"
    /\ retries = [p \in Paths |-> 0]
    /\ seen = {}
    /\ fd = [t \in Tasks |-> None]
    /\ used = [plugs |-> 0, commands |-> 0, deaths |-> 0]

HotplugStart ==
    /\ Start(<<>>)
    /\ UNCHANGED <<kernelVars, watcherVars, fd, used>>

(* The process ends; the kernel closes its files.                           *)
HotplugDie ==
    /\ used.deaths < story.deaths
    /\ Die
    /\ watching' = "off"
    /\ retries' = [p \in Paths |-> 0]
    /\ seen' = {}
    /\ fd' = [t \in Tasks |-> None]
    /\ used' = [used EXCEPT !.deaths = @ + 1]
    /\ UNCHANGED kernelVars

HotplugHandle ==
    /\ Handle
    /\ UNCHANGED <<kernelVars, watcherVars, fd, used>>

HotplugTransmit ==
    /\ Transmit
    /\ UNCHANGED <<kernelVars, watcherVars, fd, used>>

UserCommands(slug, body) ==
    /\ used.commands < story.commands
    /\ Receive([slug |-> slug, body |-> body])
    /\ used' = [used EXCEPT !.commands = @ + 1]
    /\ UNCHANGED <<kernelVars, watcherVars, fd>>

-----------------------------------------------------------------------------
(* The kernel.  A new node makes a CREATE event, a chown an ATTRIB event;   *)
(* each event the watcher gets starts one more retry task.                  *)

Notified(p) ==
    IF watching \in {"off", "ended"} THEN retries ELSE [retries EXCEPT ![p] = @ + 1]

Plug(id, p) ==
    /\ used.plugs < MaxPlugs
    /\ node[p] = None
    /\ \A q \in Paths : node[q] # None => node[q].id # id
    /\ node' = [node EXCEPT ![p] = [id |-> id, number |-> used.plugs + 1]]
    /\ allowed' \in {allowed, allowed \cup {p}}
    /\ retries' = Notified(p)
    /\ used' = [used EXCEPT !.plugs = @ + 1]
    /\ UNCHANGED <<vars, watching, seen, fd>>

Unplug(p) ==
    /\ node[p] # None
    /\ node' = [node EXCEPT ![p] = None]
    /\ allowed' = allowed \ {p}
    /\ UNCHANGED <<vars, watcherVars, fd, used>>

(* udev changes the owner, or the cgroup lets the daemon in silently.       *)
Allow(p) ==
    /\ node[p] # None
    /\ p \notin allowed
    /\ allowed' = allowed \cup {p}
    /\ retries' \in {retries, Notified(p)}
    /\ UNCHANGED <<vars, node, watching, seen, fd, used>>

-----------------------------------------------------------------------------
(* The watcher.  The watch is added first, so a node that appears during    *)
(* the sweep is found by one or the other, or by both.                      *)

AddWatch ==
    /\ loaded
    /\ watching = "off"
    /\ watching' = "added"
    /\ UNCHANGED <<vars, kernelVars, retries, seen, fd, used>>

(* Mutant: the sweep skips the nodes that cannot be opened yet.             *)
SweepOpenable ==
    /\ watching = "added"
    /\ watching' = "swept"
    /\ retries' = [p \in Paths |-> IF CanOpen(p) THEN retries[p] + 1
                                               ELSE retries[p]]
    /\ UNCHANGED <<vars, kernelVars, seen, fd, used>>

(* A directory that cannot be read is swept as an empty one.                *)
Sweep ==
    /\ watching = "added"
    /\ watching' = "swept"
    /\ \/ retries' = [p \in Paths |-> IF node[p] = None THEN retries[p]
                                                        ELSE retries[p] + 1]
       \/ story.deaf /\ retries' = retries
    /\ UNCHANGED <<vars, kernelVars, seen, fd, used>>

(* inotify cannot be set up, or its stream ends: the watcher returns, its   *)
(* retries are aborted, and the daemon goes on without it.                  *)
WatcherEnds ==
    /\ story.deaf
    /\ loaded
    /\ watching # "ended"
    /\ watching' = "ended"
    /\ retries' = [p \in Paths |-> 0]
    /\ UNCHANGED <<vars, kernelVars, seen, fd, used>>

(* Mutant: a node is opened once more than it was reported.                 *)
OpenUnasked(p) ==
    /\ CanOpen(p)
    /\ retries' = [retries EXCEPT ![p] = @ - 1]
    /\ IF node[p].id \in KeyDevices
       THEN Sight(node[p].id, p) /\ seen' = seen \cup {node[p]}
       ELSE UNCHANGED <<vars, seen>>
    /\ UNCHANGED <<kernelVars, watching, fd, used>>

(* A retry opens the node, reads who is there and forwards it; a device     *)
(* without keys is dropped.                                                 *)
OpenSucceeds(p) ==
    /\ retries[p] > 0
    /\ CanOpen(p)
    /\ retries' = [retries EXCEPT ![p] = @ - 1]
    /\ IF node[p].id \in KeyDevices
       THEN Sight(node[p].id, p) /\ seen' = seen \cup {node[p]}
       ELSE UNCHANGED <<vars, seen>>
    /\ UNCHANGED <<kernelVars, watching, fd, used>>

(* Mutant: the first failure is the last.                                   *)
GiveUpAtOnce(p) ==
    /\ retries[p] > 0
    /\ ~CanOpen(p)
    /\ retries' = [retries EXCEPT ![p] = @ - 1]
    /\ UNCHANGED <<vars, kernelVars, watching, seen, fd, used>>

(* Thirty seconds have passed without success.                              *)
GiveUp(p) ==
    /\ retries[p] > 0
    /\ ~CanOpen(p)
    /\ story.slow \/ node[p] = None
    /\ retries' = [retries EXCEPT ![p] = @ - 1]
    /\ UNCHANGED <<vars, kernelVars, watching, seen, fd, used>>

-----------------------------------------------------------------------------
(* The monitors.                                                            *)

IsGrabbed(d) == \E u \in Tasks : fd[u] # None /\ fd[u].dev = d /\ fd[u].grabbed

(* Open the path and grab the device; if someone else has grabbed it, warn  *)
(* and go on without.                                                       *)
MonitorOpens(t) ==
    /\ tasks[t] # None
    /\ fd[t] = None
    /\ CanOpen(tasks[t].path)
    /\ LET d == node[tasks[t].path] IN
       fd' = [fd EXCEPT ![t] = [dev |-> d, grabbed |-> ~IsGrabbed(d)]]
    /\ UNCHANGED <<vars, kernelVars, watcherVars, used>>

(* The path cannot be opened, or the open device is gone (ENODEV).          *)
MonitorFails(t) ==
    /\ tasks[t] # None
    /\ \/ fd[t] = None /\ ~CanOpen(tasks[t].path)
       \/ fd[t] # None /\ ~Plugged(fd[t].dev)
    /\ TaskFails(t)
    /\ fd' = [fd EXCEPT ![t] = None]
    /\ UNCHANGED <<kernelVars, watcherVars, used>>

(* The device is there and fails all the same: it cannot be opened or made  *)
(* a stream, or the stream fails or ends.  Nothing sights it again.         *)
MonitorErrs(t) ==
    /\ story.faulty
    /\ TaskFails(t)
    /\ fd' = [fd EXCEPT ![t] = None]
    /\ UNCHANGED <<kernelVars, watcherVars, used>>

(* Told to stop, or aborted before it ran: the file, if any, is closed.     *)
MonitorStops(t) ==
    /\ TaskStops(t)
    /\ fd' = [fd EXCEPT ![t] = None]
    /\ UNCHANGED <<kernelVars, watcherVars, used>>

MonitorReads(t, code) ==
    /\ fd[t] # None
    /\ Plugged(fd[t].dev)
    /\ TaskKey(t, code)
    /\ UNCHANGED <<kernelVars, watcherVars, fd, used>>

-----------------------------------------------------------------------------
Kernel ==
    \/ \E id \in story.plugged, p \in Paths : Plug(id, p)
    \/ \E p \in Paths : Unplug(p) \/ Allow(p)

Watcher ==
    \/ AddWatch
    \/ Sweep
    \/ WatcherEnds
    \/ \E p \in Paths : OpenSucceeds(p) \/ GiveUp(p)

Monitor(t) ==
    \/ MonitorOpens(t) \/ MonitorFails(t) \/ MonitorErrs(t) \/ MonitorStops(t)
    \/ \E code \in story.codes : MonitorReads(t, code)

HotplugStep ==
    \/ HotplugStart
    \/ HotplugDie
    \/ HotplugHandle
    \/ HotplugTransmit
    \/ \E slug \in Slugs, body \in {"on", "off", None} : UserCommands(slug, body)
    \/ Kernel
    \/ Watcher
    \/ \E t \in Tasks : Monitor(t)

HotplugNext == HotplugStep /\ UNCHANGED story

(* Every task of the daemon is scheduled, the broker takes what it is sent, *)
(* and access to a node that stays comes in the end.  Nobody has to plug,   *)
(* unplug, press a key, command, or kill the daemon, and nothing has to     *)
(* break.                                                                   *)
HotplugFairness ==
    /\ WF_hotplugVars(HotplugHandle)
    /\ WF_hotplugVars(HotplugTransmit)
    /\ WF_hotplugVars(AddWatch)
    /\ WF_hotplugVars(Sweep)
    /\ \A p \in Paths : WF_hotplugVars(OpenSucceeds(p)) /\ WF_hotplugVars(Allow(p))
    /\ \A t \in Tasks :
          /\ WF_hotplugVars(MonitorOpens(t))
          /\ WF_hotplugVars(MonitorFails(t))
          /\ WF_hotplugVars(MonitorStops(t))

HotplugSpec == HotplugInit /\ [][HotplugNext]_<<hotplugVars, story>> /\ HotplugFairness

-----------------------------------------------------------------------------
HotplugTypeOK ==
    /\ TypeOK
    /\ node \in [Paths -> Optional(Instance)]
    /\ allowed \subseteq Paths
    /\ watching \in {"off", "added", "swept", "ended"}
    /\ retries \in [Paths -> Nat]
    /\ seen \subseteq Instance
    /\ fd \in [Tasks -> Optional([dev : Instance, grabbed : BOOLEAN])]

(* No device is missed: once the sweep is over, every device with keys that *)
(* is plugged in has been sighted or is being opened, whether it came       *)
(* before the watch, between the watch and the sweep, or after, and         *)
(* whenever access to its node comes, unless it comes too late or the       *)
(* directory could not be read.                                             *)
NoDeviceIsMissed ==
    watching = "swept" /\ ~story.slow /\ ~story.deaf =>
        \A p \in Paths :
            node[p] # None /\ node[p].id \in KeyDevices
            => retries[p] > 0 \/ node[p] \in seen

(* The switch of the record a device belongs to.                            *)
IsOn(id) ==
    \E i \in DOMAIN devices : IsFirstMatch(devices, id, i) /\ devices[i].enabled

Reads(t, d) == fd[t] # None /\ fd[t].dev = d

(* A device that stays plugged in and switched on is read in the end, and   *)
(* from then on.                                                            *)
EnabledIsRead ==
    \A d \in Instance :
        <>[](loaded /\ Plugged(d) /\ IsOn(d.id)) => <>[](\E t \in Tasks : Reads(t, d))

(* A device that stays plugged in and switched on, with nothing of the host *)
(* in its way: access to its node comes in time, it does not fail, and no   *)
(* other device was in its place before.                                    *)
IsWanted(d) ==
    /\ loaded /\ Plugged(d) /\ IsOn(d.id)
    /\ ~story.slow /\ ~story.faulty /\ story.present = {}

(* A monitor that was told to stop has let the device go before its switch  *)
(* is on again.                                                             *)
LetGoInTime(d) ==
    \A t \in Tasks :
        Reads(t, d) /\ tasks[t].told => ~EnabledIn(devices, tasks[t].slug)

(* It is read in the end, however quickly it was switched off and on, and   *)
(* grabbed, so that its keys reach nobody else, provided that each monitor  *)
(* stopped before has let go in time.  Otherwise it stays ungrabbed, unlike *)
(* "when enabled the daemon calls EVIOCGRAB" (README.md) has it: a monitor  *)
(* tries to grab once and does not wait for the one before it.              *)
EnabledIsGrabbed ==
    \A d \in Instance :
        /\ <>[]IsWanted(d) => <>[](\E t \in Tasks : Reads(t, d))
        /\ []LetGoInTime(d) /\ <>[]IsWanted(d)
           => <>[](\E t \in Tasks : Reads(t, d) /\ fd[t].grabbed)

(* A device whose switch stays off is let go: in the end no monitor task of *)
(* its slug is left, told or not.                                           *)
OffIsReleased ==
    \A s \in Slugs :
        <>[](~EnabledIn(devices, s))
        => <>[](\A t \in Tasks : tasks[t] # None => tasks[t].slug # s)

(* An enabled device that is unplugged for good is noticed, so that a later *)
(* plugging can attach it again.                                            *)
UnpluggedIsNoticed ==
    \A s \in Slugs :
        <>[](EnabledIn(devices, s) /\ \A p \in Paths : node[p] = None)
        => <>[](connected[s] = None /\ monitored[s] = None)

(* Only devices whose switch is on are grabbed, until their monitor has     *)
(* been told to stop.                                                       *)
OnlyEnabledAreGrabbed ==
    \A t \in Tasks :
        fd[t] # None /\ fd[t].grabbed /\ ~tasks[t].told => IsOn(fd[t].dev.id)
=============================================================================
