---------------------------- MODULE HotplugProofs ----------------------------
(* What TLAPS proves about the host, for any devices, paths, stories and    *)
(* bounds: it is well typed, the coordinator in it behaves as Coordinator   *)
(* says, so that all its theorems hold here, and no device is missed.       *)
EXTENDS Hotplug, CoordinatorProofs

-----------------------------------------------------------------------------
(* Types.                                                                   *)

KernelTypes ==
    /\ node \in [Paths -> Optional(Instance)]
    /\ allowed \subseteq Paths

WatcherTypes ==
    /\ watching \in {"off", "added", "swept", "ended"}
    /\ retries \in [Paths -> Nat]
    /\ seen \subseteq Instance

FileTypes == fd \in [Tasks -> Optional([dev : Instance, grabbed : BOOLEAN])]

(* The number of a plugging stays within its bound, and stories are stories *)
(* of known devices and keys: what the watcher forwards and a monitor reads *)
(* is what the coordinator expects.                                         *)
HotplugTypes ==
    /\ TypeInv
    /\ KernelTypes /\ WatcherTypes /\ FileTypes
    /\ used \in [plugs : 0..MaxPlugs, commands : Nat, deaths : Nat]
    /\ story \in Stories

(* A story is about devices and keys there are.                             *)
LEMMA StoryTypes ==
    ASSUME story \in Stories
    PROVE  /\ story.present \subseteq Identities
           /\ story.plugged \subseteq Identities
           /\ story.codes \subseteq Codes
  BY StoriesAssumption

(* What is plugged in at first is well typed.                               *)
LEMMA HotplugTypesInitially == HotplugInit => HotplugTypes
<1> SUFFICES ASSUME HotplugInit PROVE HotplugTypes
  OBVIOUS
<1>1. TypeInv
  BY TypeInitially DEF HotplugInit
<1>2. KernelTypes
  <2>1. story.present \subseteq Identities
    BY StoryTypes DEF HotplugInit
  <2>2. Optional([id : story.present, number : {0}]) \subseteq Optional(Instance)
    BY <2>1, PlugsAssumption DEF Optional, Instance
  <2>3. node \in [Paths -> Optional([id : story.present, number : {0}])]
    BY DEF HotplugInit
  <2>4. node \in [Paths -> Optional(Instance)]
    BY <2>2, <2>3
  <2> QED
    BY <2>4 DEF HotplugInit, KernelTypes
<1>3. WatcherTypes /\ FileTypes
  BY DEF HotplugInit, WatcherTypes, FileTypes, Optional
<1>4. used \in [plugs : 0..MaxPlugs, commands : Nat, deaths : Nat]
  BY PlugsAssumption DEF HotplugInit
<1> QED
  BY <1>1, <1>2, <1>3, <1>4 DEF HotplugInit, HotplugTypes

(* Whatever the host does is a step of the coordinator with its open        *)
(* environment, or none of it.                                              *)
LEMMA HotplugSimulation ==
    HotplugTypes /\ [HotplugNext]_<<hotplugVars, story>> => [Next]_vars
<1> SUFFICES ASSUME HotplugTypes, [HotplugNext]_<<hotplugVars, story>>
             PROVE  [Next]_vars
  OBVIOUS
<1>1. CASE HotplugStart
  <2>1. <<>> \in [1..0 -> IncomingPublish]
    OBVIOUS
  <2>2. <<>> \in Replays
    BY <2>1, BoundsAssumption DEF Replays
  <2> QED
    BY <1>1, <2>2 DEF HotplugStart, Next
<1>2. CASE HotplugDie \/ HotplugHandle \/ HotplugTransmit
  BY <1>2 DEF HotplugDie, HotplugHandle, HotplugTransmit, Next
<1>3. ASSUME NEW slug \in Slugs, NEW body \in {"on", "off", None},
             UserCommands(slug, body)
      PROVE  Next
  <2>1. [slug |-> slug, body |-> body] \in IncomingPublish
    BY DEF IncomingPublish, Optional, Bodies
  <2> QED
    BY <1>3, <2>1 DEF UserCommands, Next
<1>4. CASE Kernel
  BY <1>4 DEF Kernel, Plug, Unplug, Allow
<1>5. ASSUME NEW p \in Paths, OpenSucceeds(p) PROVE [Next]_vars
  <2>1. CASE node[p].id \in KeyDevices
    <3>1. node[p].id \in Identities
      BY <2>1, KeyDevicesAssumption
    <3> QED
      BY <1>5, <2>1, <3>1 DEF OpenSucceeds, Next
  <2>2. CASE node[p].id \notin KeyDevices
    BY <1>5, <2>2 DEF OpenSucceeds
  <2> QED
    BY <2>1, <2>2
<1>6. CASE Watcher
  BY <1>5, <1>6 DEF Watcher, AddWatch, Sweep, WatcherEnds, GiveUp
<1>7. ASSUME NEW t \in Tasks, Monitor(t) PROVE [Next]_vars
  <2>1. ASSUME NEW code \in story.codes, MonitorReads(t, code) PROVE Next
    <3>1. code \in Codes
      BY <2>1, StoryTypes DEF HotplugTypes
    <3> QED
      BY <2>1, <3>1 DEF MonitorReads, Next
  <2>2. CASE MonitorOpens(t)
    BY <2>2 DEF MonitorOpens
  <2>3. CASE MonitorFails(t) \/ MonitorErrs(t) \/ MonitorStops(t)
    BY <2>3 DEF MonitorFails, MonitorErrs, MonitorStops, Next
  <2> QED
    BY <1>7, <2>1, <2>2, <2>3 DEF Monitor
<1>8. CASE UNCHANGED <<hotplugVars, story>>
  BY <1>8 DEF hotplugVars
<1> QED
  BY <1>1, <1>2, <1>3, <1>4, <1>6, <1>7, <1>8 DEF HotplugNext, HotplugStep

(* Every step of the host keeps the types.                                  *)
LEMMA HotplugTypesStep ==
    HotplugTypes /\ [HotplugNext]_<<hotplugVars, story>> => HotplugTypes'
<1> SUFFICES ASSUME HotplugTypes, [HotplugNext]_<<hotplugVars, story>>
             PROVE  HotplugTypes'
  OBVIOUS
<1>0. /\ TypeInv /\ KernelTypes /\ WatcherTypes /\ FileTypes
      /\ used \in [plugs : 0..MaxPlugs, commands : Nat, deaths : Nat]
      /\ story \in Stories
  BY DEF HotplugTypes
<1>a. TypeInv' /\ story' \in Stories
  <2>1. TypeInv'
    BY <1>0, HotplugSimulation, TypeStep
  <2> QED
    BY <1>0, <2>1 DEF HotplugNext
<1>b. ASSUME UNCHANGED kernelVars PROVE KernelTypes'
  BY <1>0, <1>b DEF KernelTypes, kernelVars
<1>c. ASSUME UNCHANGED watcherVars PROVE WatcherTypes'
  BY <1>0, <1>c DEF WatcherTypes, watcherVars
<1>d. ASSUME UNCHANGED fd PROVE FileTypes'
  BY <1>0, <1>d DEF FileTypes
<1>e. ASSUME NEW t \in Tasks, fd' = [fd EXCEPT ![t] = None] PROVE FileTypes'
  BY <1>0, <1>e DEF FileTypes, Optional
<1>1. CASE HotplugStart \/ HotplugHandle \/ HotplugTransmit
  BY <1>0, <1>a, <1>b, <1>c, <1>d, <1>1
     DEF HotplugStart, HotplugHandle, HotplugTransmit, HotplugTypes
<1>2. CASE HotplugDie
  <2>1. WatcherTypes' /\ FileTypes'
    BY <1>2 DEF HotplugDie, WatcherTypes, FileTypes, Optional
  <2>2. used' \in [plugs : 0..MaxPlugs, commands : Nat, deaths : Nat]
    BY <1>0, <1>2 DEF HotplugDie
  <2> QED
    BY <1>a, <1>b, <1>2, <2>1, <2>2 DEF HotplugDie, HotplugTypes
<1>3. ASSUME NEW slug \in Slugs, NEW body \in {"on", "off", None},
             UserCommands(slug, body)
      PROVE  HotplugTypes'
  <2>1. used' \in [plugs : 0..MaxPlugs, commands : Nat, deaths : Nat]
    BY <1>0, <1>3 DEF UserCommands
  <2> QED
    BY <1>a, <1>b, <1>c, <1>d, <1>3, <2>1 DEF UserCommands, HotplugTypes
<1>4. ASSUME NEW id \in story.plugged, NEW p \in Paths, Plug(id, p)
      PROVE  HotplugTypes'
  <2>1. id \in Identities
    BY <1>0, <1>4, StoryTypes
  <2>2. /\ used.plugs + 1 \in 0..MaxPlugs
        /\ used' \in [plugs : 0..MaxPlugs, commands : Nat, deaths : Nat]
    BY <1>0, <1>4, PlugsAssumption DEF Plug
  <2>3. [id |-> id, number |-> used.plugs + 1] \in Optional(Instance)
    BY <2>1, <2>2 DEF Instance, Optional
  <2>4. KernelTypes'
    BY <1>0, <1>4, <2>3 DEF Plug, KernelTypes
  <2>5. WatcherTypes'
    BY <1>0, <1>4 DEF Plug, WatcherTypes, Notified
  <2> QED
    BY <1>a, <1>d, <1>4, <2>2, <2>4, <2>5 DEF Plug, HotplugTypes
<1>5. ASSUME NEW p \in Paths, Unplug(p) \/ Allow(p) PROVE HotplugTypes'
  <2>1. KernelTypes'
    BY <1>0, <1>5 DEF Unplug, Allow, KernelTypes, Optional
  <2>2. WatcherTypes'
    BY <1>0, <1>5 DEF Unplug, Allow, WatcherTypes, watcherVars, Notified
  <2> QED
    BY <1>0, <1>a, <1>d, <1>5, <2>1, <2>2 DEF Unplug, Allow, HotplugTypes
<1>6. CASE AddWatch \/ Sweep \/ WatcherEnds
  <2>1. WatcherTypes'
    BY <1>0, <1>6 DEF AddWatch, Sweep, WatcherEnds, WatcherTypes
  <2> QED
    BY <1>0, <1>a, <1>b, <1>d, <1>6, <2>1
       DEF AddWatch, Sweep, WatcherEnds, HotplugTypes
<1>7. ASSUME NEW p \in Paths, OpenSucceeds(p) \/ GiveUp(p) PROVE HotplugTypes'
  <2>1. retries' \in [Paths -> Nat] /\ UNCHANGED watching
    BY <1>0, <1>7 DEF OpenSucceeds, GiveUp, WatcherTypes
  <2>2. seen' \subseteq Instance
    <3>1. CanOpen(p) => node[p] \in Instance
      BY <1>0 DEF CanOpen, KernelTypes, Optional
    <3> QED
      BY <1>0, <1>7, <3>1 DEF OpenSucceeds, GiveUp, WatcherTypes
  <2>3. WatcherTypes'
    BY <1>0, <2>1, <2>2 DEF WatcherTypes
  <2> QED
    BY <1>0, <1>a, <1>b, <1>d, <1>7, <2>3 DEF OpenSucceeds, GiveUp, HotplugTypes
<1>8. ASSUME NEW t \in Tasks, Monitor(t) PROVE HotplugTypes'
  <2>1. CASE MonitorOpens(t)
    <3>1. node[tasks[t].path] \in Instance
      BY <1>0, <2>1 DEF MonitorOpens, CanOpen, TypeInv, SlotTypes, Task,
                        KernelTypes, Optional
    <3>2. PICK d \in Instance : fd' = [fd EXCEPT ![t] = [dev |-> d, grabbed |-> ~IsGrabbed(d)]]
      BY <2>1, <3>1 DEF MonitorOpens
    <3>3. [dev |-> d, grabbed |-> ~IsGrabbed(d)] \in [dev : Instance, grabbed : BOOLEAN]
      OBVIOUS
    <3>4. FileTypes'
      BY <1>0, <3>2, <3>3 DEF FileTypes, Optional
    <3> QED
      BY <1>0, <1>a, <1>b, <1>c, <2>1, <3>4 DEF MonitorOpens, HotplugTypes
  <2>2. CASE MonitorFails(t) \/ MonitorErrs(t) \/ MonitorStops(t)
    BY <1>0, <1>a, <1>b, <1>c, <1>e, <2>2
       DEF MonitorFails, MonitorErrs, MonitorStops, HotplugTypes
  <2>3. ASSUME NEW code \in story.codes, MonitorReads(t, code) PROVE HotplugTypes'
    BY <1>0, <1>a, <1>b, <1>c, <1>d, <2>3 DEF MonitorReads, HotplugTypes
  <2> QED
    BY <1>8, <2>1, <2>2, <2>3 DEF Monitor
<1>9. CASE UNCHANGED <<hotplugVars, story>>
  BY <1>0, <1>a, <1>b, <1>c, <1>d, <1>9
     DEF hotplugVars, kernelVars, watcherVars, HotplugTypes
<1> QED
  BY <1>1, <1>2, <1>3, <1>4, <1>5, <1>6, <1>7, <1>8, <1>9
     DEF HotplugNext, HotplugStep, Kernel, Watcher

(* Every node, every retry and every open file is well typed.               *)
THEOREM HotplugTypeCorrect == HotplugSpec => []HotplugTypeOK
<1>1. HotplugTypes => HotplugTypeOK
  <2> SUFFICES ASSUME HotplugTypes PROVE HotplugTypeOK
    OBVIOUS
  <2>1. TypeOK
    BY TypeInvImpliesTypeOK DEF HotplugTypes
  <2> QED
    BY <2>1 DEF HotplugTypes, KernelTypes, WatcherTypes, FileTypes, HotplugTypeOK
<1> QED
  BY <1>1, HotplugTypesInitially, HotplugTypesStep, PTL DEF HotplugSpec

-----------------------------------------------------------------------------
(* The coordinator of a host is the coordinator of Coordinator, whose open  *)
(* environment may do all that the kernel, the watcher, the monitors and    *)
(* the broker of a host do.                                                 *)
THEOREM HotplugImplementsCoordinator == HotplugSpec => Spec
<1>1. HotplugInit => Init
  BY DEF HotplugInit
<1>2. HotplugTypes /\ [HotplugNext]_<<hotplugVars, story>> => [Next]_vars
  BY HotplugSimulation
<1> QED
  BY <1>1, <1>2, HotplugTypesInitially, HotplugTypesStep, PTL DEF HotplugSpec, Spec

(* So on a host, too, monitors follow switches, none strays, a dead one is  *)
(* reported, and the last word queued on a topic is current.                *)
THEOREM HotplugKeepsTheSlots ==
    HotplugSpec => [](/\ MonitorsFollowSwitches /\ NoStrayMonitor
                      /\ DeadMonitorIsReported /\ LastWordIsCurrent)
  BY HotplugImplementsCoordinator, SlotsFollowSwitches, MonitorsNeverStray,
     DeadMonitorsAreReported, LastWordsAreCurrent, PTL

-----------------------------------------------------------------------------
(* No device is missed: the property is inductive with the types, because a *)
(* retry is given up only when the node is gone, or the story is slow, and  *)
(* the sweep comes back empty only in a deaf story.                         *)
LEMMA MissStep ==
    HotplugTypes /\ NoDeviceIsMissed /\ [HotplugNext]_<<hotplugVars, story>>
    => NoDeviceIsMissed'
<1> SUFFICES ASSUME HotplugTypes, NoDeviceIsMissed,
                    [HotplugNext]_<<hotplugVars, story>>,
                    watching' = "swept", ~story.slow, ~story.deaf, NEW q \in Paths,
                    node'[q] # None, node'[q].id \in KeyDevices
             PROVE  retries'[q] > 0 \/ node'[q] \in seen'
  BY DEF NoDeviceIsMissed, HotplugNext
<1>0. /\ retries \in [Paths -> Nat] /\ node \in [Paths -> Optional(Instance)]
  BY DEF HotplugTypes, WatcherTypes, KernelTypes
<1>a. watching = "swept" /\ node[q] = node'[q] => retries[q] > 0 \/ node[q] \in seen
  BY DEF NoDeviceIsMissed
<1>1. CASE HotplugStart \/ HotplugHandle \/ HotplugTransmit
  BY <1>a, <1>1 DEF HotplugStart, HotplugHandle, HotplugTransmit, kernelVars,
                    watcherVars
<1>2. CASE HotplugDie \/ AddWatch \/ WatcherEnds
  BY <1>2 DEF HotplugDie, AddWatch, WatcherEnds
<1>3. ASSUME NEW slug \in Slugs, NEW body \in {"on", "off", None},
             UserCommands(slug, body)
      PROVE  retries'[q] > 0 \/ node'[q] \in seen'
  BY <1>a, <1>3 DEF UserCommands, kernelVars, watcherVars
<1>4. ASSUME NEW id \in story.plugged, NEW p \in Paths, Plug(id, p)
      PROVE  retries'[q] > 0 \/ node'[q] \in seen'
  <2>1. /\ watching = "swept" /\ retries' = [retries EXCEPT ![p] = @ + 1]
        /\ seen' = seen
        /\ p # q => node'[q] = node[q]
    BY <1>0, <1>4 DEF Plug, Notified
  <2> QED
    BY <1>0, <1>a, <2>1
<1>5. ASSUME NEW p \in Paths, Unplug(p) PROVE retries'[q] > 0 \/ node'[q] \in seen'
  <2>1. /\ watching = "swept" /\ retries' = retries /\ seen' = seen
        /\ p # q /\ node'[q] = node[q]
    BY <1>0, <1>5 DEF Unplug, watcherVars
  <2> QED
    BY <1>a, <2>1
<1>6. ASSUME NEW p \in Paths, Allow(p) PROVE retries'[q] > 0 \/ node'[q] \in seen'
  <2>1. /\ watching = "swept" /\ node' = node /\ seen' = seen
        /\ retries' \in {retries, [retries EXCEPT ![p] = @ + 1]}
    BY <1>6 DEF Allow, Notified
  <2> QED
    BY <1>0, <1>a, <2>1
<1>7. CASE Sweep
  BY <1>0, <1>7 DEF Sweep, kernelVars
<1>8. ASSUME NEW p \in Paths, OpenSucceeds(p)
      PROVE  retries'[q] > 0 \/ node'[q] \in seen'
  <2>1. /\ watching = "swept" /\ node' = node
        /\ retries' = [retries EXCEPT ![p] = @ - 1]
        /\ seen \subseteq seen'
        /\ q = p => node[q] \in seen'
    BY <1>8 DEF OpenSucceeds, kernelVars
  <2> QED
    BY <1>0, <1>a, <2>1
<1>9. ASSUME NEW p \in Paths, GiveUp(p) PROVE retries'[q] > 0 \/ node'[q] \in seen'
  <2>1. /\ watching = "swept" /\ node' = node /\ seen' = seen /\ p # q
        /\ retries' = [retries EXCEPT ![p] = @ - 1]
    BY <1>9 DEF GiveUp, kernelVars
  <2> QED
    BY <1>0, <1>a, <2>1
<1>10. ASSUME NEW t \in Tasks, Monitor(t) PROVE retries'[q] > 0 \/ node'[q] \in seen'
  <2>1. UNCHANGED <<node, watching, retries, seen>>
    BY <1>10 DEF Monitor, MonitorOpens, MonitorFails, MonitorErrs, MonitorStops,
                 MonitorReads, kernelVars, watcherVars
  <2> QED
    BY <1>a, <2>1
<1>11. CASE UNCHANGED <<hotplugVars, story>>
  BY <1>a, <1>11 DEF hotplugVars
<1> QED
  BY <1>1, <1>2, <1>3, <1>4, <1>5, <1>6, <1>7, <1>8, <1>9, <1>10, <1>11
     DEF HotplugNext, HotplugStep, Kernel, Watcher

(* Once the sweep is over every device with keys that is plugged in has     *)
(* been sighted or is being opened, in whatever order it came, the watch    *)
(* was added, the sweep was made and access to its node was given, unless   *)
(* access came too late or the directory could not be read.                 *)
THEOREM NoDeviceIsEverMissed == HotplugSpec => []NoDeviceIsMissed
<1>1. HotplugInit => NoDeviceIsMissed
  BY DEF HotplugInit, NoDeviceIsMissed
<1> QED
  BY <1>1, HotplugTypesInitially, HotplugTypesStep, MissStep, PTL DEF HotplugSpec
=============================================================================
