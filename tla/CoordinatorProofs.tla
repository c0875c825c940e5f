------------------------- MODULE CoordinatorProofs -------------------------
(* What TLAPS proves about the coordinator, for any devices, paths, tasks,  *)
(* queue bounds, files and environment: it is well typed, it implements the *)
(* registry of DeviceDb, its slots follow the switches, no monitor task     *)
(* strays, it keeps the promise of DeviceLifecycle, a monitor that ended is *)
(* reported by a message still in `rx`, and the last publish queued in      *)
(* `outbox` on a retained topic says what the registry holds.               *)
EXTENDS Coordinator, DeviceDbProofs

-----------------------------------------------------------------------------
(* Types.                                                                   *)

(* The publications as one set: IsPublication as a type of sequences.       *)
Publication ==
    [topic : {"info"}, slug : Slugs, body : Optional(InfoBody)]
    \cup [topic : {"enabled"}, slug : Slugs, body : {"on", "off", None}]
    \cup [topic : {"discovery"}, slug : Slugs, body : Optional(DiscoveryBody)]

SlotTypes ==
    /\ connected \in [Slugs -> Optional(Paths)]
    /\ monitored \in [Slugs -> Optional(Tasks)]
    /\ tasks \in [Tasks -> Optional(Task)]

ChannelTypes ==
    /\ rx \in Seq(CoordinatorMsg)
    /\ incoming \in Seq(IncomingPublish)
    /\ outbox \in Seq(Publication)

(* The type invariant, with the registry's own invariant.                   *)
TypeInv ==
    /\ DbInv
    /\ todo \in 0..Len(devices)
    /\ SlotTypes
    /\ ChannelTypes

(* The invariant of the proofs gives the one the runs check.                *)
LEMMA TypeInvImpliesTypeOK == TypeInv => TypeOK
<1> SUFFICES ASSUME TypeInv PROVE TypeOK
  OBVIOUS
<1>1. \A k \in DOMAIN outbox : outbox[k] \in Publication
  BY ElementOfSeq DEF TypeInv, ChannelTypes
<1>2. \A msg \in Publication : IsPublication(msg)
  BY DEF Publication, IsPublication
<1> QED
  BY <1>1, <1>2 DEF TypeInv, SlotTypes, ChannelTypes, DbInv, TypeOK

(* The message the coordinator takes, and what it leaves.                   *)
LEMMA TakeLemma ==
    ASSUME ChannelTypes, NEW kind, Take(kind)
    PROVE  /\ Head(rx) \in CoordinatorMsg
           /\ rx' \in Seq(CoordinatorMsg)
           /\ Head(rx).kind = kind
           /\ loaded /\ todo = 0
  BY HeadTailProperties DEF ChannelTypes, Take, CanHandle

(* What a message of each kind carries.                                     *)
LEMMA MessageLemma ==
    ASSUME NEW m \in CoordinatorMsg
    PROVE  /\ m.kind = "connected" => m.id \in Identities /\ m.path \in Paths
           /\ m.kind = "disconnected" => m.slug \in Slugs
           /\ m.kind = "key" => m.slug \in Slugs /\ m.code \in Codes
  BY DEF CoordinatorMsg, DeviceConnected, DeviceDisconnected, KeyObserved

(* What a step that takes a message of the broker finds and leaves.         *)
LEMMA TakeIncomingLemma ==
    ASSUME ChannelTypes, TakeIncoming
    PROVE  /\ Command.slug \in Optional(Slugs)
           /\ incoming' \in Seq(IncomingPublish)
           /\ loaded /\ todo = 0
<1>1. Head(incoming) \in IncomingPublish /\ Tail(incoming) \in Seq(IncomingPublish)
  BY HeadTailProperties DEF ChannelTypes, TakeIncoming
<1> QED
  BY <1>1 DEF TakeIncoming, CanHandle, Command, IncomingPublish

(* What the handlers publish.                                               *)
LEMMA PublicationLemma ==
    ASSUME NEW rec \in Record
    PROVE  /\ Info(rec) \in Publication
           /\ Mirror(rec) \in Publication
           /\ Trigger(rec) \in Publication
           /\ <<Mirror(rec)>> \in Seq(Publication)
           /\ Discovery(rec) \in Seq(Publication)
           /\ <<Info(rec)>> \o Discovery(rec) \in Seq(Publication)
           /\ Announce(rec) \in Seq(Publication)
<1>1. Info(rec) \in Publication
  BY DEF Info, Publication, Record, InfoBody, Optional
<1>2. Mirror(rec) \in Publication
  BY DEF Mirror, Switch, Publication, Record
<1>3. Trigger(rec) \in Publication
  BY DEF Trigger, Publication, Record, DiscoveryBody, Optional
<1>4. Discovery(rec) \in Seq(Publication)
  BY <1>3 DEF Discovery
<1>5. /\ <<Mirror(rec)>> \in Seq(Publication)
      /\ <<Info(rec)>> \in Seq(Publication)
      /\ <<Info(rec), Mirror(rec)>> \in Seq(Publication)
  BY <1>1, <1>2
<1> QED
  BY <1>1, <1>2, <1>3, <1>4, <1>5, ConcatProperties DEF Announce

(* A removal publishes well-typed words.                                    *)
LEMMA ClearsLemma ==
    ASSUME NEW slug \in Slugs
    PROVE  Clears(slug) \in Seq(Publication)
  BY DEF Clears, Clear, Publication, Optional

(* A queue of well-typed words stays one when some are added.               *)
LEMMA PublishLemma ==
    ASSUME ChannelTypes, NEW msgs \in Seq(Publication), Publish(msgs)
    PROVE  outbox' \in Seq(Publication)
  BY ConcatProperties DEF ChannelTypes, Publish

(* The tasks after a release.                                               *)
LEMMA ReleasedLemma ==
    ASSUME SlotTypes, NEW slug
    PROVE  Released(slug) \in [Tasks -> Optional(Task)]
  BY SlotAssumption DEF SlotTypes, Released, Task, Optional

(* A spawned monitor keeps the types of the slots.                          *)
LEMMA SpawnTypes ==
    ASSUME SlotTypes, NEW slug \in Slugs, NEW path \in Paths,
           SpawnMonitor(slug, path)
    PROVE  /\ monitored' \in [Slugs -> Optional(Tasks)]
           /\ tasks' \in [Tasks -> Optional(Task)]
  BY ReleasedLemma DEF SlotTypes, SpawnMonitor, Task, Optional

(* The same of a stop ...                                                   *)
LEMMA StopTypes ==
    ASSUME SlotTypes, NEW slug \in Slugs, StopMonitor(slug)
    PROVE  /\ monitored' \in [Slugs -> Optional(Tasks)]
           /\ tasks' \in [Tasks -> Optional(Task)]
  BY ReleasedLemma DEF SlotTypes, StopMonitor, Optional

(* ... and of a sighting.                                                   *)
LEMMA AttachTypes ==
    ASSUME SlotTypes, NEW slug \in Slugs, NEW path \in Paths, Attach(slug, path)
    PROVE  SlotTypes'
<1>1. CASE connected[slug] # None
  BY <1>1 DEF Attach, slotVars, SlotTypes
<1>2. CASE connected[slug] = None /\ EnabledIn(devices', slug)
  <2>1. SpawnMonitor(slug, path) /\ connected' = [connected EXCEPT ![slug] = path]
    BY <1>2 DEF Attach
  <2> QED
    BY <2>1, SpawnTypes DEF SlotTypes, Optional
<1>3. CASE connected[slug] = None /\ ~EnabledIn(devices', slug)
  BY <1>3 DEF Attach, SlotTypes, Optional
<1> QED
  BY <1>1, <1>2, <1>3

-----------------------------------------------------------------------------
(* Every step is a step of the registry, or leaves the registry alone.      *)

(* Every step of the coordinator is one of the registry, or none.           *)
LEMMA StepOfDb == TypeInv /\ [Next]_vars => [DbNext]_dbVars
<1> SUFFICES ASSUME TypeInv, [Next]_vars PROVE [DbNext]_dbVars
  OBVIOUS
<1>0. ChannelTypes /\ devices \in Seq(Record)
  BY DEF TypeInv, DbInv, DbTypeOK
<1>1. CASE UNCHANGED vars
  BY <1>1 DEF vars, dbVars
<1>2. ASSUME NEW replay \in Replays, Start(replay) PROVE DbNext
  BY <1>2 DEF Start, DbNext
<1>3. CASE Die
  BY <1>3 DEF Die, DbNext
<1>4. CASE OnConnectedKnown
  <2>1. Head(rx).id \in Identities
    BY <1>0, <1>4, TakeLemma, MessageLemma DEF OnConnectedKnown
  <2> QED
    BY <1>4, <2>1 DEF OnConnectedKnown, DbNext
<1>5. CASE OnConnectedNew
  <2>1. Head(rx).id \in Identities
    BY <1>0, <1>5, TakeLemma, MessageLemma DEF OnConnectedNew
  <2> QED
    BY <1>5, <2>1 DEF OnConnectedNew, DbNext
<1>6. CASE OnKeyNew
  <2>1. Head(rx).slug \in Slugs /\ Head(rx).code \in Codes
    BY <1>0, <1>6, TakeLemma, MessageLemma DEF OnKeyNew
  <2> QED
    BY <1>6, <2>1 DEF OnKeyNew, DbNext
<1>7. CASE OnEnable
  <2>1. Command.slug \in Slugs
    BY <1>0, <1>7, TakeIncomingLemma DEF OnEnable, Optional
  <2>2. (Command.body = "on") \in BOOLEAN
    OBVIOUS
  <2>3. PICK i \in DOMAIN devices : SetEnabled(Command.slug, Command.body = "on", i)
    BY <1>7 DEF OnEnable
  <2> QED
    BY <2>1, <2>2, <2>3 DEF DbNext
<1>8. CASE OnRemove
  <2>1. Command.slug \in Slugs
    BY <1>0, <1>8, TakeIncomingLemma DEF OnRemove, Optional
  <2> QED
    BY <1>8, <2>1 DEF OnRemove, DbNext
<1>9. CASE Republish \/ OnDisconnected \/ OnKeyIgnored \/ OnIgnored \/ Transmit
  BY <1>9 DEF Republish, OnDisconnected, OnKeyIgnored, OnIgnored, Transmit
<1>10. ASSUME NEW id \in Identities, NEW path \in Paths, Sight(id, path)
       PROVE  UNCHANGED dbVars
  BY <1>10 DEF Sight
<1>11. ASSUME NEW t \in Tasks, NEW code \in Codes, TaskKey(t, code)
       PROVE  UNCHANGED dbVars
  BY <1>11 DEF TaskKey
<1>12. ASSUME NEW t \in Tasks, TaskFails(t) \/ TaskStops(t)
       PROVE  UNCHANGED dbVars
  BY <1>12 DEF TaskFails, TaskStops
<1>13. ASSUME NEW msg \in IncomingPublish, Receive(msg)
       PROVE  UNCHANGED dbVars
  BY <1>13 DEF Receive
<1> QED
  BY <1>1, <1>2, <1>3, <1>4, <1>5, <1>6, <1>7, <1>8, <1>9, <1>10, <1>11,
     <1>12, <1>13 DEF Next, Handle

-----------------------------------------------------------------------------
(* The type invariant is inductive.                                         *)

(* The initial state is well typed.                                         *)
LEMMA TypeInitially == Init => TypeInv
<1> SUFFICES ASSUME Init PROVE TypeInv
  OBVIOUS
<1>1. DbInv
  BY DbInitially DEF Init
<1>2. todo \in 0..Len(devices)
  BY DEF Init, DbInit
<1>3. SlotTypes /\ ChannelTypes
  BY DEF Init, SlotTypes, ChannelTypes, Optional
<1> QED
  BY <1>1, <1>2, <1>3 DEF TypeInv

(* A handler that takes its message with nothing left to announce leaves    *)
(* nothing to announce.                                                     *)
LEMMA NothingToAnnounce ==
    ASSUME todo = 0, todo' = todo, devices' \in Seq(Record)
    PROVE  todo' \in 0..Len(devices')
  BY LenProperties

(* Every step keeps the types.                                              *)
LEMMA TypeStep == TypeInv /\ [Next]_vars => TypeInv'
<1> SUFFICES ASSUME TypeInv, [Next]_vars PROVE TypeInv'
  OBVIOUS
<1>0. /\ ChannelTypes /\ SlotTypes /\ todo \in 0..Len(devices)
      /\ devices \in Seq(Record) /\ file \in Seq(Record)
  BY DEF TypeInv, DbInv, DbTypeOK
<1>1. DbInv'
  BY StepOfDb, DbStep DEF TypeInv
<1>2. devices' \in Seq(Record)
  BY <1>1 DEF DbInv, DbTypeOK
<1> SUFFICES (todo \in 0..Len(devices))' /\ SlotTypes' /\ ChannelTypes'
  BY <1>1 DEF TypeInv
<1>3. CASE UNCHANGED vars
  BY <1>0, <1>3 DEF vars, SlotTypes, ChannelTypes
<1>4. ASSUME NEW replay \in Replays, Start(replay)
      PROVE  (todo \in 0..Len(devices))' /\ SlotTypes' /\ ChannelTypes'
  <2>1. replay \in Seq(IncomingPublish)
    BY DEF Replays
  <2>2. todo' = Len(devices')
    BY <1>4 DEF Start, Load
  <2> QED
    BY <1>0, <1>2, <1>4, <2>1, <2>2, LenProperties
       DEF Start, SlotTypes, ChannelTypes, slotVars
<1>5. CASE Die
  BY <1>2, <1>5, LenProperties
     DEF Die, SlotTypes, ChannelTypes, Optional
<1>6. CASE Republish
  <2> DEFINE i == Len(devices) + 1 - todo
  <2>1. i \in DOMAIN devices /\ todo' = todo - 1
    BY <1>0, <1>6 DEF Republish
  <2>2. Announce(devices[i]) \in Seq(Publication)
    BY <1>0, <2>1, ElementOfSeq, PublicationLemma
  <2>3. outbox' \in Seq(Publication)
    BY <1>0, <1>6, <2>2, PublishLemma DEF Republish
  <2> QED
    BY <1>0, <1>6, <2>1, <2>3
       DEF Republish, dbVars, slotVars, SlotTypes, ChannelTypes
<1>7. CASE OnConnectedKnown
  <2>1. PICK i \in DOMAIN devices :
           MatchKnown(Head(rx).id, i) /\ Attach(devices[i].slug, Head(rx).path)
    BY <1>7 DEF OnConnectedKnown
  <2>2. /\ rx' \in Seq(CoordinatorMsg) /\ Head(rx).path \in Paths
        /\ todo = 0
    BY <1>0, <1>7, TakeLemma, MessageLemma DEF OnConnectedKnown
  <2>3. devices[i].slug \in Slugs
    <3>1. devices[i] \in Record
      BY <1>0, ElementOfSeq
    <3> QED
      BY <3>1 DEF Record
  <2>4. SlotTypes'
    BY <1>0, <2>1, <2>2, <2>3, AttachTypes
  <2> QED
    BY <1>0, <1>2, <1>7, <2>2, <2>4, NothingToAnnounce
       DEF OnConnectedKnown, ChannelTypes
<1>8. CASE OnConnectedNew
  <2>1. PICK slug \in Slugs :
           /\ Publish(Announce(NewRecord(Head(rx).id, slug)))
           /\ Attach(slug, Head(rx).path)
    BY <1>8 DEF OnConnectedNew
  <2>2. /\ rx' \in Seq(CoordinatorMsg)
        /\ Head(rx).path \in Paths /\ Head(rx).id \in Identities
        /\ todo = 0
    BY <1>0, <1>8, TakeLemma, MessageLemma DEF OnConnectedNew
  <2>3. NewRecord(Head(rx).id, slug) \in Record
    BY <2>2, IdentitiesAssumption, NewRecordLemma
  <2>4. outbox' \in Seq(Publication)
    BY <1>0, <2>1, <2>3, PublicationLemma, PublishLemma
  <2>5. SlotTypes'
    BY <1>0, <2>1, <2>2, AttachTypes
  <2> QED
    BY <1>0, <1>2, <1>8, <2>2, <2>4, <2>5, NothingToAnnounce
       DEF OnConnectedNew, ChannelTypes
<1>9. CASE OnDisconnected
  <2>1. /\ rx' \in Seq(CoordinatorMsg) /\ Head(rx).slug \in Slugs
        /\ todo = 0
    BY <1>0, <1>9, TakeLemma, MessageLemma DEF OnDisconnected
  <2>2. SlotTypes'
    BY <1>0, <1>9, <2>1, StopTypes DEF OnDisconnected, SlotTypes, Optional
  <2> QED
    BY <1>0, <1>2, <1>9, <2>1, <2>2, NothingToAnnounce
       DEF OnDisconnected, ChannelTypes
<1>10. CASE OnKeyNew
  <2>1. PICK i \in DOMAIN devices :
           LET rec == ObserveKey(devices[i], Head(rx).code) IN
           Publish(<<Info(rec)>> \o Discovery(rec))
    BY <1>10 DEF OnKeyNew
  <2> DEFINE rec == ObserveKey(devices[i], Head(rx).code)
  <2>2. /\ rx' \in Seq(CoordinatorMsg) /\ Head(rx).code \in Codes
        /\ todo = 0
    BY <1>0, <1>10, TakeLemma, MessageLemma DEF OnKeyNew
  <2>3. rec \in Record
    <3>1. devices[i] \in Record
      BY <1>0, ElementOfSeq
    <3> QED
      BY <2>2, <3>1 DEF ObserveKey, Record
  <2>4. outbox' \in Seq(Publication)
    BY <1>0, <2>1, <2>3, PublicationLemma, PublishLemma
  <2> QED
    BY <1>0, <1>2, <1>10, <2>2, <2>4, NothingToAnnounce
       DEF OnKeyNew, SlotTypes, ChannelTypes, slotVars
<1>11. CASE OnKeyIgnored
  <2>1. rx' \in Seq(CoordinatorMsg) /\ todo = 0
    BY <1>0, <1>11, TakeLemma DEF OnKeyIgnored
  <2> QED
    BY <1>0, <1>2, <1>11, <2>1, NothingToAnnounce
       DEF OnKeyIgnored, SlotTypes, ChannelTypes, slotVars
<1>12. CASE OnEnable
  <2> DEFINE on == Command.body = "on"
  <2>1. PICK i \in DOMAIN devices :
           /\ Publish(<<Mirror([devices[i] EXCEPT !.enabled = on])>>)
           /\ \/ StopMonitor(Command.slug)
              \/ /\ connected[Command.slug] # None
                 /\ SpawnMonitor(Command.slug, connected[Command.slug])
              \/ UNCHANGED <<monitored, tasks>>
    BY <1>12 DEF OnEnable
  <2>2. /\ incoming' \in Seq(IncomingPublish) /\ Command.slug \in Slugs
        /\ todo = 0
    BY <1>0, <1>12, TakeIncomingLemma DEF OnEnable, Optional
  <2>3. [devices[i] EXCEPT !.enabled = on] \in Record
    <3>1. devices[i] \in Record
      BY <1>0, ElementOfSeq
    <3> QED
      BY <3>1 DEF Record
  <2>4. outbox' \in Seq(Publication)
    BY <1>0, <2>1, <2>3, PublicationLemma, PublishLemma
  <2>5. connected' = connected
    BY <1>12 DEF OnEnable
  <2>6. /\ monitored' \in [Slugs -> Optional(Tasks)]
        /\ tasks' \in [Tasks -> Optional(Task)]
    <3>1. CASE StopMonitor(Command.slug)
      BY <1>0, <2>2, <3>1, StopTypes
    <3>2. CASE /\ connected[Command.slug] # None
               /\ SpawnMonitor(Command.slug, connected[Command.slug])
      <4>1. connected[Command.slug] \in Paths
        BY <1>0, <2>2, <3>2 DEF SlotTypes, Optional
      <4> QED
        BY <1>0, <2>2, <3>2, <4>1, SpawnTypes
    <3>3. CASE UNCHANGED <<monitored, tasks>>
      BY <1>0, <3>3 DEF SlotTypes
    <3> QED
      BY <2>1, <3>1, <3>2, <3>3
  <2> QED
    BY <1>0, <1>2, <1>12, <2>2, <2>4, <2>5, <2>6, NothingToAnnounce
       DEF OnEnable, SlotTypes, ChannelTypes
<1>13. CASE OnRemove
  <2>1. /\ incoming' \in Seq(IncomingPublish) /\ Command.slug \in Slugs
        /\ todo = 0
    BY <1>0, <1>13, TakeIncomingLemma DEF OnRemove, Optional
  <2>2. outbox' \in Seq(Publication)
    BY <1>0, <1>13, <2>1, ClearsLemma, PublishLemma DEF OnRemove
  <2>3. SlotTypes'
    BY <1>0, <1>13, <2>1, StopTypes DEF OnRemove, SlotTypes, Optional
  <2> QED
    BY <1>0, <1>2, <1>13, <2>1, <2>2, <2>3, NothingToAnnounce
       DEF OnRemove, ChannelTypes
<1>14. CASE OnIgnored
  <2>1. incoming' \in Seq(IncomingPublish) /\ todo = 0
    BY <1>0, <1>14, TakeIncomingLemma DEF OnIgnored
  <2> QED
    BY <1>0, <1>2, <1>14, <2>1, NothingToAnnounce
       DEF OnIgnored, SlotTypes, ChannelTypes, slotVars
<1>15. ASSUME NEW id \in Identities, NEW path \in Paths, Sight(id, path)
       PROVE  (todo \in 0..Len(devices))' /\ SlotTypes' /\ ChannelTypes'
  <2>1. DeviceConnected(id, path) \in CoordinatorMsg
    BY DEF CoordinatorMsg
  <2> QED
    BY <1>0, <1>15, <2>1, AppendProperties
       DEF Sight, dbVars, slotVars, SlotTypes, ChannelTypes
<1>16. ASSUME NEW t \in Tasks, NEW code \in Codes, TaskKey(t, code)
       PROVE  (todo \in 0..Len(devices))' /\ SlotTypes' /\ ChannelTypes'
  <2>1. tasks[t].slug \in Slugs
    BY <1>0, <1>16 DEF TaskKey, SlotTypes, Task, Optional
  <2>2. KeyObserved(tasks[t].slug, code) \in CoordinatorMsg
    BY <2>1 DEF CoordinatorMsg
  <2> QED
    BY <1>0, <1>16, <2>2, AppendProperties
       DEF TaskKey, dbVars, slotVars, SlotTypes, ChannelTypes
<1>17. ASSUME NEW t \in Tasks, TaskFails(t)
       PROVE  (todo \in 0..Len(devices))' /\ SlotTypes' /\ ChannelTypes'
  <2>1. tasks[t].slug \in Slugs
    BY <1>0, <1>17 DEF TaskFails, SlotTypes, Task, Optional
  <2>2. DeviceDisconnected(tasks[t].slug) \in CoordinatorMsg
    BY <2>1 DEF CoordinatorMsg
  <2>3. tasks' \in [Tasks -> Optional(Task)]
    BY <1>0, <1>17 DEF TaskFails, SlotTypes, Optional
  <2> QED
    BY <1>0, <1>17, <2>2, <2>3, AppendProperties
       DEF TaskFails, dbVars, SlotTypes, ChannelTypes
<1>18. ASSUME NEW t \in Tasks, TaskStops(t)
       PROVE  (todo \in 0..Len(devices))' /\ SlotTypes' /\ ChannelTypes'
  <2>1. tasks' \in [Tasks -> Optional(Task)]
    BY <1>0, <1>18 DEF TaskStops, SlotTypes, Optional
  <2> QED
    BY <1>0, <1>18, <2>1
       DEF TaskStops, dbVars, channelVars, SlotTypes, ChannelTypes
<1>19. ASSUME NEW msg \in IncomingPublish, Receive(msg)
       PROVE  (todo \in 0..Len(devices))' /\ SlotTypes' /\ ChannelTypes'
  BY <1>0, <1>19, AppendProperties
     DEF Receive, dbVars, slotVars, SlotTypes, ChannelTypes
<1>20. CASE Transmit
  BY <1>0, <1>20, HeadTailProperties
     DEF Transmit, dbVars, slotVars, SlotTypes, ChannelTypes
<1> QED
  BY <1>3, <1>4, <1>5, <1>6, <1>7, <1>8, <1>9, <1>10, <1>11, <1>12, <1>13,
     <1>14, <1>15, <1>16, <1>17, <1>18, <1>19, <1>20 DEF Next, Handle

(* The coordinator is well typed whatever the environment sends it.         *)
THEOREM TypeCorrect == Spec => []TypeOK
<1>1. Spec => []TypeInv
  BY TypeInitially, TypeStep, PTL DEF Spec
<1> QED
  BY <1>1, TypeInvImpliesTypeOK, PTL

(* The coordinator implements the registry: it loads, changes, saves and    *)
(* loses the records only as DeviceDb does, so what is proved of the        *)
(* registry holds of the coordinator's.                                     *)
THEOREM ImplementsDb == Spec => DbSpec
<1>1. Init => DbInit
  BY DEF Init
<1>2. Spec => []TypeInv
  BY TypeInitially, TypeStep, PTL DEF Spec
<1> QED
  BY <1>1, <1>2, StepOfDb, PTL DEF Spec, DbSpec

-----------------------------------------------------------------------------
(* The slots follow the switches.                                           *)

(* A process that does not run holds no record, no device and no monitor.   *)
IdleIsEmpty ==
    ~loaded => /\ devices = <<>>
               /\ \A s \in Slugs : connected[s] = None /\ monitored[s] = None

(* MonitorsFollowSwitches is inductive once an idle process is known to     *)
(* hold nothing: a start changes the registry under the slots.              *)
SlotInv == TypeInv /\ IdleIsEmpty /\ MonitorsFollowSwitches

(* What a spawn and a stop do to the slots.                                 *)
LEMMA SpawnSlots ==
    ASSUME SlotTypes, NEW slug \in Slugs, NEW path, SpawnMonitor(slug, path)
    PROVE  /\ monitored'[slug] # None
           /\ \A s \in Slugs : s # slug => monitored'[s] = monitored[s]
  BY SlotAssumption DEF SlotTypes, SpawnMonitor

(* A stop empties the slot of one slug and leaves the others.               *)
LEMMA StopSlots ==
    ASSUME SlotTypes, NEW slug \in Slugs, StopMonitor(slug)
    PROVE  /\ monitored'[slug] = None
           /\ \A s \in Slugs : s # slug => monitored'[s] = monitored[s]
  BY DEF SlotTypes, StopMonitor

(* The end of on_connected: the path is remembered, and the monitor is      *)
(* there exactly if the switch is on.                                       *)
LEMMA AttachSlots ==
    ASSUME SlotTypes, NEW slug \in Slugs, NEW path \in Paths,
           Attach(slug, path),
           connected[slug] = None => monitored[slug] = None
    PROVE  /\ connected'[slug] # None
           /\ connected[slug] # None => monitored'[slug] = monitored[slug]
           /\ connected[slug] = None
              => (monitored'[slug] # None <=> EnabledIn(devices', slug))
           /\ \A s \in Slugs : s # slug => /\ connected'[s] = connected[s]
                                           /\ monitored'[s] = monitored[s]
<1>1. CASE connected[slug] # None
  BY <1>1 DEF Attach, slotVars
<1>2. CASE connected[slug] = None /\ EnabledIn(devices', slug)
  <2>1. SpawnMonitor(slug, path) /\ connected' = [connected EXCEPT ![slug] = path]
    BY <1>2 DEF Attach
  <2> QED
    BY <1>2, <2>1, SpawnSlots, SlotAssumption DEF SlotTypes
<1>3. CASE connected[slug] = None /\ ~EnabledIn(devices', slug)
  BY <1>3, SlotAssumption DEF Attach, SlotTypes
<1> QED
  BY <1>1, <1>2, <1>3

(* Seen through the slots and the switches, a step is one of these.         *)
SameSlots == UNCHANGED <<connected, monitored>>

(* A step that changes neither the slots nor the switches.                  *)
LEMMA QuietStep ==
    ASSUME MonitorsFollowSwitches, SameSwitches(devices, devices'), SameSlots
    PROVE  MonitorsFollowSwitches'
  BY DEF MonitorsFollowSwitches, SameSwitches, SameSlots

(* Every step lets the slots follow the switches.                           *)
LEMMA SlotStep == SlotInv /\ [Next]_vars => SlotInv'
<1> SUFFICES ASSUME SlotInv, [Next]_vars
             PROVE  IdleIsEmpty' /\ MonitorsFollowSwitches'
  BY TypeStep DEF SlotInv
<1>0. /\ TypeInv /\ DbInv /\ ChannelTypes /\ SlotTypes
      /\ devices \in Seq(Record)
      /\ MonitorsFollowSwitches /\ IdleIsEmpty
  BY DEF SlotInv, TypeInv, DbInv, DbTypeOK
<1>1. ASSUME UNCHANGED <<devices, loaded, connected, monitored>>
      PROVE  IdleIsEmpty' /\ MonitorsFollowSwitches'
  BY <1>0, <1>1, Zenon DEF IdleIsEmpty, MonitorsFollowSwitches
<1>2. ASSUME NEW replay \in Replays, Start(replay)
      PROVE  IdleIsEmpty' /\ MonitorsFollowSwitches'
  BY <1>0, <1>2 DEF Start, Load, slotVars, IdleIsEmpty, MonitorsFollowSwitches
<1>3. CASE Die
  BY <1>0, <1>3 DEF Die, Crash, IdleIsEmpty, MonitorsFollowSwitches
<1>4. CASE OnConnectedKnown
  <2>1. PICK i \in DOMAIN devices :
           MatchKnown(Head(rx).id, i) /\ Attach(devices[i].slug, Head(rx).path)
    BY <1>4 DEF OnConnectedKnown
  <2> DEFINE slug == devices[i].slug
  <2>2. Head(rx).id \in Identities /\ Head(rx).path \in Paths
    BY <1>0, <1>4, TakeLemma, MessageLemma DEF OnConnectedKnown
  <2>3. slug \in Slugs /\ slug \in SlugsOf(devices)
    <3>1. devices[i] \in Record
      BY <1>0, ElementOfSeq
    <3> QED
      BY <3>1 DEF Record, SlugsOf
  <2>4. SameSwitches(devices, devices')
    BY <1>0, <2>1, <2>2, MatchKnownSwitches
  <2>5. connected[slug] = None => monitored[slug] = None
    BY <1>0, <2>3 DEF MonitorsFollowSwitches
  <2> HIDE DEF slug
  <2>6. /\ connected'[slug] # None
        /\ connected[slug] # None => monitored'[slug] = monitored[slug]
        /\ connected[slug] = None
           => (monitored'[slug] # None <=> EnabledIn(devices', slug))
        /\ \A s \in Slugs : s # slug => /\ connected'[s] = connected[s]
                                        /\ monitored'[s] = monitored[s]
    <3>1. Attach(slug, Head(rx).path)
      BY <2>1 DEF slug
    <3> QED
      BY <1>0, <2>2, <2>3, <2>5, <3>1, AttachSlots
  <2>7. MonitorsFollowSwitches'
    BY <1>0, <2>3, <2>4, <2>6 DEF MonitorsFollowSwitches, SameSwitches
  <2> QED
    BY <2>1, <2>7 DEF MatchKnown, IdleIsEmpty
<1>5. CASE OnConnectedNew
  <2>1. PICK slug \in Slugs :
           InsertNew(Head(rx).id, slug) /\ Attach(slug, Head(rx).path)
    BY <1>5 DEF OnConnectedNew
  <2>2. Head(rx).id \in Identities /\ Head(rx).path \in Paths
    BY <1>0, <1>5, TakeLemma, MessageLemma DEF OnConnectedNew
  <2>3. /\ slug \notin SlugsOf(devices)
        /\ SlugsOf(devices') = SlugsOf(devices) \cup {slug}
        /\ \A s : EnabledIn(devices', s) <=> EnabledIn(devices, s)
    BY <1>0, <2>1, <2>2, InsertNewSwitches
  <2>4. connected[slug] = None /\ monitored[slug] = None
    BY <1>0, <2>3 DEF MonitorsFollowSwitches
  <2>5. /\ connected'[slug] # None
        /\ monitored'[slug] # None <=> EnabledIn(devices', slug)
        /\ \A s \in Slugs : s # slug => /\ connected'[s] = connected[s]
                                        /\ monitored'[s] = monitored[s]
    BY <1>0, <2>1, <2>2, <2>4, AttachSlots
  <2>6. MonitorsFollowSwitches'
    BY <1>0, <2>3, <2>5 DEF MonitorsFollowSwitches
  <2> QED
    BY <2>1, <2>6 DEF InsertNew, IdleIsEmpty
<1>6. CASE OnDisconnected
  <2> DEFINE slug == Head(rx).slug
  <2>1. slug \in Slugs /\ loaded
    BY <1>0, <1>6, TakeLemma, MessageLemma DEF OnDisconnected
  <2>2. /\ connected' = [connected EXCEPT ![slug] = None]
        /\ StopMonitor(slug) /\ UNCHANGED dbVars
    BY <1>6 DEF OnDisconnected
  <2> HIDE DEF slug
  <2>3. /\ connected'[slug] = None /\ monitored'[slug] = None
        /\ \A s \in Slugs : s # slug => /\ connected'[s] = connected[s]
                                        /\ monitored'[s] = monitored[s]
    BY <1>0, <2>1, <2>2, StopSlots DEF SlotTypes
  <2> QED
    BY <1>0, <2>1, <2>2, <2>3 DEF dbVars, MonitorsFollowSwitches, IdleIsEmpty
<1>7. CASE OnKeyNew
  <2>1. Head(rx).slug \in Slugs /\ Head(rx).code \in Codes
    BY <1>0, <1>7, TakeLemma, MessageLemma DEF OnKeyNew
  <2>2. PICK i \in DOMAIN devices : RecordKey(Head(rx).slug, Head(rx).code, i)
    BY <1>7 DEF OnKeyNew
  <2>3. SameSwitches(devices, devices')
    BY <1>0, <2>1, <2>2, RecordKeySwitches
  <2>4. SameSlots
    BY <1>7 DEF OnKeyNew, slotVars, SameSlots
  <2> QED
    BY <1>0, <2>2, <2>3, <2>4, QuietStep DEF RecordKey, IdleIsEmpty
<1>8. CASE OnEnable
  <2> DEFINE slug == Command.slug
             on   == Command.body = "on"
  <2>1. slug \in Slugs /\ on \in BOOLEAN
    BY <1>0, <1>8, TakeIncomingLemma DEF OnEnable, Optional
  <2>2. PICK i \in DOMAIN devices :
           /\ SetEnabled(slug, on, i)
           /\ CASE ~on ->
                     StopMonitor(slug)
                [] on /\ connected[slug] # None /\ monitored[slug] = None ->
                     SpawnMonitor(slug, connected[slug])
                [] OTHER ->
                     UNCHANGED <<monitored, tasks>>
    BY <1>8 DEF OnEnable
  <2>3. connected' = connected
    BY <1>8 DEF OnEnable
  <2> HIDE DEF slug, on
  <2>4. /\ SlugsOf(devices') = SlugsOf(devices)
        /\ EnabledIn(devices, slug) <=> ~on
        /\ EnabledIn(devices', slug) <=> on
        /\ \A s : s # slug => (EnabledIn(devices', s) <=> EnabledIn(devices, s))
    BY <1>0, <2>1, <2>2, SetEnabledSwitches
  <2> SUFFICES MonitorsFollowSwitches'
    BY <2>2 DEF SetEnabled, IdleIsEmpty
  <2>5. /\ SlugsOf(devices') = SlugsOf(devices)
        /\ \A s : s # slug => (EnabledIn(devices', s) <=> EnabledIn(devices, s))
    BY <2>4
  <2>6. CASE ~on
    <3>1. StopMonitor(slug)
      BY <2>2, <2>6
    <3>2. /\ monitored'[slug] = None
          /\ \A s \in Slugs : s # slug => monitored'[s] = monitored[s]
      BY <1>0, <2>1, <3>1, StopSlots
    <3>3. ~EnabledIn(devices', slug)
      BY <2>4, <2>6
    <3> QED
      BY <1>0, <2>3, <2>5, <3>2, <3>3 DEF MonitorsFollowSwitches
  <2>7. CASE on /\ connected[slug] # None
    <3>1. monitored[slug] = None
      BY <1>0, <2>1, <2>4, <2>7 DEF MonitorsFollowSwitches
    <3>2. SpawnMonitor(slug, connected[slug])
      BY <2>2, <2>7, <3>1
    <3>3. /\ monitored'[slug] # None
          /\ \A s \in Slugs : s # slug => monitored'[s] = monitored[s]
      BY <1>0, <2>1, <3>2, SpawnSlots
    <3>4. EnabledIn(devices', slug)
      BY <2>4, <2>7
    <3>5. slug \in SlugsOf(devices)
      BY <1>0, <2>1, <2>7 DEF MonitorsFollowSwitches
    <3> QED
      BY <1>0, <2>3, <2>5, <2>7, <3>3, <3>4, <3>5 DEF MonitorsFollowSwitches
  <2>8. CASE on /\ connected[slug] = None
    <3>1. UNCHANGED <<monitored, tasks>>
      BY <2>2, <2>8
    <3>2. monitored[slug] = None
      BY <1>0, <2>1, <2>8 DEF MonitorsFollowSwitches
    <3> QED
      BY <1>0, <2>3, <2>5, <2>8, <3>1, <3>2 DEF MonitorsFollowSwitches
  <2> QED
    BY <2>6, <2>7, <2>8
<1>9. CASE OnRemove
  <2> DEFINE slug == Command.slug
  <2>1. slug \in Slugs
    BY <1>0, <1>9, TakeIncomingLemma DEF OnRemove, Optional
  <2>2. PICK i \in DOMAIN devices : Remove(slug, i)
    BY <1>9 DEF OnRemove
  <2>3. StopMonitor(slug) /\ connected' = [connected EXCEPT ![slug] = None]
    BY <1>9 DEF OnRemove
  <2> HIDE DEF slug
  <2>4. /\ SlugsOf(devices') = SlugsOf(devices) \ {slug}
        /\ ~EnabledIn(devices', slug)
        /\ \A s : s # slug => (EnabledIn(devices', s) <=> EnabledIn(devices, s))
    BY <1>0, <2>1, <2>2, RemoveSwitches
  <2>5. /\ connected'[slug] = None /\ monitored'[slug] = None
        /\ \A s \in Slugs : s # slug => /\ connected'[s] = connected[s]
                                        /\ monitored'[s] = monitored[s]
    BY <1>0, <2>1, <2>3, StopSlots DEF SlotTypes
  <2>6. MonitorsFollowSwitches'
    BY <1>0, <2>1, <2>4, <2>5 DEF MonitorsFollowSwitches
  <2>7. loaded'
    BY <2>2 DEF Remove
  <2> QED
    BY <2>6, <2>7 DEF IdleIsEmpty
<1>10. CASE UNCHANGED vars
  BY <1>1, <1>10 DEF vars
<1>11. CASE Republish \/ OnKeyIgnored \/ OnIgnored \/ Transmit
  BY <1>1, <1>11
     DEF Republish, OnKeyIgnored, OnIgnored, Transmit, dbVars, slotVars
<1>12. ASSUME NEW id \in Identities, NEW path \in Paths, Sight(id, path)
       PROVE  IdleIsEmpty' /\ MonitorsFollowSwitches'
  BY <1>1, <1>12 DEF Sight, dbVars, slotVars
<1>13. ASSUME NEW t \in Tasks, NEW code \in Codes, TaskKey(t, code)
       PROVE  IdleIsEmpty' /\ MonitorsFollowSwitches'
  BY <1>1, <1>13 DEF TaskKey, dbVars, slotVars
<1>14. ASSUME NEW t \in Tasks, TaskFails(t) \/ TaskStops(t)
       PROVE  IdleIsEmpty' /\ MonitorsFollowSwitches'
  BY <1>1, <1>14 DEF TaskFails, TaskStops, dbVars
<1>15. ASSUME NEW msg \in IncomingPublish, Receive(msg)
       PROVE  IdleIsEmpty' /\ MonitorsFollowSwitches'
  BY <1>1, <1>15 DEF Receive, dbVars, slotVars
<1> QED
  BY <1>2, <1>3, <1>4, <1>5, <1>6, <1>7, <1>8, <1>9, <1>10, <1>11, <1>12,
     <1>13, <1>14, <1>15 DEF Next, Handle

(* At first there are no slots and no switches.                             *)
LEMMA SlotInitially == Init => SlotInv
<1> SUFFICES ASSUME Init PROVE SlotInv
  OBVIOUS
<1>1. IdleIsEmpty /\ MonitorsFollowSwitches
  BY DEF Init, DbInit, IdleIsEmpty, MonitorsFollowSwitches
<1> QED
  BY <1>1, TypeInitially DEF SlotInv

(* A slug has a monitor exactly when its device is connected and its switch *)
(* is on, whatever order sightings, disconnects, commands and removals come *)
(* in.                                                                      *)
THEOREM SlotsFollowSwitches == Spec => []MonitorsFollowSwitches
<1>1. SlotInv => MonitorsFollowSwitches
  BY DEF SlotInv
<1> QED
  BY <1>1, SlotInitially, SlotStep, PTL DEF Spec

-----------------------------------------------------------------------------
(* No monitor strays.                                                       *)

(* NoStrayMonitor is inductive by itself, given the types: a fresh task is  *)
(* in no slot, and a slot that is emptied or overwritten tells its task.    *)
LEMMA SpawnStraysNone ==
    ASSUME SlotTypes, NoStrayMonitor,
           NEW slug \in Slugs, NEW path \in Paths, SpawnMonitor(slug, path),
           connected' = [connected EXCEPT ![slug] = path]
    PROVE  NoStrayMonitor'
<1>1. PICK t \in Tasks :
         /\ IsFresh(t)
         /\ monitored' = [monitored EXCEPT ![slug] = t]
         /\ tasks' = [Released(slug) EXCEPT
                         ![t] = [slug |-> slug, path |-> path, told |-> FALSE]]
  BY DEF SpawnMonitor
<1>2. /\ tasks[t] = None
      /\ \A s \in Slugs : monitored[s] # t
  BY <1>1 DEF IsFresh
<1>3. /\ monitored'[slug] = t
      /\ \A s \in Slugs : s # slug => monitored'[s] = monitored[s]
      /\ connected'[slug] = path
      /\ \A s \in Slugs : s # slug => connected'[s] = connected[s]
  BY <1>1 DEF SlotTypes
<1>4. /\ tasks'[t].slug = slug /\ tasks'[t].path = path /\ ~tasks'[t].told
      /\ \A u \in Tasks :
            u # t => tasks'[u] = IF u = monitored[slug] /\ tasks[u] # None
                                 THEN [tasks[u] EXCEPT !.told = TRUE]
                                 ELSE tasks[u]
  BY <1>1 DEF Released
<1>5. ASSUME NEW u \in Tasks, u # t, tasks'[u] # None
      PROVE  /\ tasks[u] # None /\ tasks[u] \in Task
             /\ tasks'[u].slug = tasks[u].slug
             /\ tasks'[u].path = tasks[u].path
             /\ u = monitored[slug] => tasks'[u].told
             /\ u # monitored[slug] => tasks'[u].told = tasks[u].told
  <2>1. tasks[u] # None
    BY <1>4, <1>5
  <2>2. tasks[u] \in Task
    BY <2>1 DEF SlotTypes, Optional
  <2> QED
    BY <1>4, <1>5, <2>1, <2>2 DEF Task
<1>6. ASSUME NEW u \in Tasks, tasks'[u] # None, ~tasks'[u].told
      PROVE  /\ monitored'[tasks'[u].slug] = u
             /\ connected'[tasks'[u].slug] = tasks'[u].path
  <2>1. CASE u = t
    BY <1>3, <1>4, <2>1
  <2>2. CASE u # t
    <3>1. /\ tasks[u] # None /\ ~tasks[u].told /\ u # monitored[slug]
          /\ tasks'[u].slug = tasks[u].slug /\ tasks'[u].path = tasks[u].path
          /\ tasks[u].slug \in Slugs
      BY <1>5, <1>6, <2>2 DEF Task
    <3>2. monitored[tasks[u].slug] = u /\ connected[tasks[u].slug] = tasks[u].path
      BY <3>1 DEF NoStrayMonitor
    <3> QED
      BY <1>3, <3>1, <3>2
  <2> QED
    BY <2>1, <2>2
<1>7. ASSUME NEW s \in Slugs, NEW u \in Tasks, monitored'[s] = u, tasks'[u] # None
      PROVE  tasks'[u].slug = s /\ ~tasks'[u].told
  <2>1. CASE u = t
    BY <1>2, <1>3, <1>4, <1>7, <2>1
  <2>2. CASE u # t
    <3>1. s # slug /\ monitored[s] = u
      BY <1>3, <1>7, <2>2
    <3>2. tasks[u] # None /\ tasks'[u].slug = tasks[u].slug
      BY <1>5, <1>7, <2>2
    <3>3. tasks[u].slug = s /\ ~tasks[u].told
      BY <3>1, <3>2 DEF NoStrayMonitor
    <3>4. monitored[slug] # u
      BY <3>1, <3>2, <3>3 DEF NoStrayMonitor
    <3> QED
      BY <1>5, <1>7, <2>2, <3>2, <3>3, <3>4
  <2> QED
    BY <2>1, <2>2
<1> QED
  BY <1>6, <1>7 DEF NoStrayMonitor

(* A stopped monitor has been told.                                         *)
LEMMA StopStraysNone ==
    ASSUME SlotTypes, NoStrayMonitor, NEW slug \in Slugs, StopMonitor(slug),
           \A s \in Slugs : s # slug => connected'[s] = connected[s]
    PROVE  NoStrayMonitor'
<1>1. /\ monitored'[slug] = None
      /\ \A s \in Slugs : s # slug => monitored'[s] = monitored[s]
  BY StopSlots
<1>2. \A u \in Tasks :
         tasks'[u] = IF u = monitored[slug] /\ tasks[u] # None
                     THEN [tasks[u] EXCEPT !.told = TRUE]
                     ELSE tasks[u]
  BY DEF StopMonitor, Released
<1>3. ASSUME NEW u \in Tasks, tasks'[u] # None
      PROVE  /\ tasks[u] # None /\ tasks[u] \in Task
             /\ tasks'[u].slug = tasks[u].slug
             /\ tasks'[u].path = tasks[u].path
             /\ u = monitored[slug] => tasks'[u].told
             /\ u # monitored[slug] => tasks'[u].told = tasks[u].told
  <2>1. tasks[u] # None
    BY <1>2, <1>3
  <2>2. tasks[u] \in Task
    BY <2>1 DEF SlotTypes, Optional
  <2> QED
    BY <1>2, <1>3, <2>1, <2>2 DEF Task
<1>4. ASSUME NEW u \in Tasks, tasks'[u] # None, ~tasks'[u].told
      PROVE  /\ monitored'[tasks'[u].slug] = u
             /\ connected'[tasks'[u].slug] = tasks'[u].path
  <2>1. /\ tasks[u] # None /\ ~tasks[u].told /\ u # monitored[slug]
        /\ tasks'[u].slug = tasks[u].slug /\ tasks'[u].path = tasks[u].path
        /\ tasks[u].slug \in Slugs
    BY <1>3, <1>4 DEF Task
  <2>2. monitored[tasks[u].slug] = u /\ connected[tasks[u].slug] = tasks[u].path
    BY <2>1 DEF NoStrayMonitor
  <2> QED
    BY <1>1, <2>1, <2>2
<1>5. ASSUME NEW s \in Slugs, NEW u \in Tasks, monitored'[s] = u, tasks'[u] # None
      PROVE  tasks'[u].slug = s /\ ~tasks'[u].told
  <2>1. s # slug /\ monitored[s] = u
    BY <1>1, <1>5, SlotAssumption
  <2>2. tasks[u] # None /\ tasks'[u].slug = tasks[u].slug
    BY <1>3, <1>5
  <2>3. tasks[u].slug = s /\ ~tasks[u].told
    BY <2>1, <2>2 DEF NoStrayMonitor
  <2>4. monitored[slug] # u
    BY <2>1, <2>2, <2>3 DEF NoStrayMonitor
  <2> QED
    BY <1>3, <1>5, <2>2, <2>3, <2>4
<1> QED
  BY <1>4, <1>5 DEF NoStrayMonitor

(* A sighting spawns a monitor in an empty slot, or none.                   *)
LEMMA AttachStraysNone ==
    ASSUME SlotTypes, NoStrayMonitor,
           NEW slug \in Slugs, NEW path \in Paths, Attach(slug, path),
           connected[slug] = None => monitored[slug] = None
    PROVE  NoStrayMonitor'
<1>1. CASE connected[slug] # None
  <2>1. UNCHANGED <<connected, monitored, tasks>>
    BY <1>1 DEF Attach, slotVars
  <2> QED
    BY <2>1, Zenon DEF NoStrayMonitor
<1>2. CASE connected[slug] = None /\ EnabledIn(devices', slug)
  BY <1>2, SpawnStraysNone DEF Attach
<1>3. CASE connected[slug] = None /\ ~EnabledIn(devices', slug)
  <2>1. /\ monitored' = monitored /\ tasks' = tasks
        /\ monitored[slug] = None
        /\ \A s \in Slugs : s # slug => connected'[s] = connected[s]
    BY <1>3 DEF Attach, SlotTypes
  <2>2. ASSUME NEW t \in Tasks, tasks[t] # None, ~tasks[t].told
        PROVE  /\ monitored[tasks[t].slug] = t
               /\ connected'[tasks[t].slug] = tasks[t].path
    <3>1. tasks[t].slug \in Slugs
      BY <2>2 DEF SlotTypes, Optional, Task
    <3>2. monitored[tasks[t].slug] = t /\ connected[tasks[t].slug] = tasks[t].path
      BY <2>2 DEF NoStrayMonitor
    <3> QED
      BY <2>1, <3>1, <3>2, SlotAssumption
  <2> QED
    BY <2>1, <2>2 DEF NoStrayMonitor
<1> QED
  BY <1>1, <1>2, <1>3

(* A monitor that ends leaves nothing behind but its slot.                  *)
LEMMA EndStraysNone ==
    ASSUME SlotTypes, NoStrayMonitor, NEW t \in Tasks,
           tasks' = [tasks EXCEPT ![t] = None],
           UNCHANGED <<connected, monitored>>
    PROVE  NoStrayMonitor'
  BY DEF SlotTypes, NoStrayMonitor

(* The invariant of the slots and of the tasks.                             *)
TaskInv == SlotInv /\ NoStrayMonitor

(* Every step keeps tasks and slots together.                               *)
LEMMA TaskStep == TaskInv /\ [Next]_vars => TaskInv'
<1> SUFFICES ASSUME TaskInv, [Next]_vars PROVE NoStrayMonitor'
  BY SlotStep DEF TaskInv
<1>0. /\ ChannelTypes /\ SlotTypes /\ devices \in Seq(Record)
      /\ MonitorsFollowSwitches /\ NoStrayMonitor
  BY DEF TaskInv, SlotInv, TypeInv, DbInv, DbTypeOK
<1>1. ASSUME UNCHANGED slotVars PROVE NoStrayMonitor'
  BY <1>0, <1>1, Zenon DEF slotVars, NoStrayMonitor
<1>2. ASSUME NEW replay \in Replays, Start(replay) PROVE NoStrayMonitor'
  BY <1>1, <1>2 DEF Start
<1>3. CASE Die
  BY <1>3, SlotAssumption DEF Die, NoStrayMonitor
<1>4. CASE OnConnectedKnown
  <2>1. PICK i \in DOMAIN devices : Attach(devices[i].slug, Head(rx).path)
    BY <1>4 DEF OnConnectedKnown
  <2>2. Head(rx).path \in Paths
    BY <1>0, <1>4, TakeLemma, MessageLemma DEF OnConnectedKnown
  <2>3. devices[i].slug \in Slugs
    <3>1. devices[i] \in Record
      BY <1>0, ElementOfSeq
    <3> QED
      BY <3>1 DEF Record
  <2>4. connected[devices[i].slug] = None => monitored[devices[i].slug] = None
    BY <1>0, <2>3 DEF MonitorsFollowSwitches
  <2> QED
    BY <1>0, <2>1, <2>2, <2>3, <2>4, AttachStraysNone
<1>5. CASE OnConnectedNew
  <2>1. PICK slug \in Slugs : Attach(slug, Head(rx).path)
    BY <1>5 DEF OnConnectedNew
  <2>2. Head(rx).path \in Paths
    BY <1>0, <1>5, TakeLemma, MessageLemma DEF OnConnectedNew
  <2>3. connected[slug] = None => monitored[slug] = None
    BY <1>0 DEF MonitorsFollowSwitches
  <2> QED
    BY <1>0, <2>1, <2>2, <2>3, AttachStraysNone
<1>6. CASE OnDisconnected
  <2>1. Head(rx).slug \in Slugs
    BY <1>0, <1>6, TakeLemma, MessageLemma DEF OnDisconnected
  <2>2. \A s \in Slugs : s # Head(rx).slug => connected'[s] = connected[s]
    BY <1>0, <1>6 DEF OnDisconnected, SlotTypes
  <2> QED
    BY <1>0, <1>6, <2>1, <2>2, StopStraysNone DEF OnDisconnected
<1>7. CASE OnEnable
  <2> DEFINE slug == Command.slug
  <2>1. slug \in Slugs
    BY <1>0, <1>7, TakeIncomingLemma DEF OnEnable, Optional
  <2>2. /\ connected' = connected
        /\ \/ StopMonitor(slug)
           \/ /\ connected[slug] # None
              /\ SpawnMonitor(slug, connected[slug])
           \/ UNCHANGED <<monitored, tasks>>
    BY <1>7 DEF OnEnable
  <2> HIDE DEF slug
  <2>3. CASE StopMonitor(slug)
    BY <1>0, <2>1, <2>2, <2>3, StopStraysNone
  <2>4. CASE connected[slug] # None /\ SpawnMonitor(slug, connected[slug])
    <3>1. connected[slug] \in Paths
      BY <1>0, <2>1, <2>4 DEF SlotTypes, Optional
    <3>2. connected' = [connected EXCEPT ![slug] = connected[slug]]
      BY <1>0, <2>1, <2>2 DEF SlotTypes
    <3> QED
      BY <1>0, <2>1, <2>4, <3>1, <3>2, SpawnStraysNone
  <2>5. CASE UNCHANGED <<monitored, tasks>>
    BY <1>1, <2>2, <2>5 DEF slotVars
  <2> QED
    BY <2>2, <2>3, <2>4, <2>5
<1>8. CASE OnRemove
  <2>1. Command.slug \in Slugs
    BY <1>0, <1>8, TakeIncomingLemma DEF OnRemove, Optional
  <2>2. \A s \in Slugs : s # Command.slug => connected'[s] = connected[s]
    BY <1>0, <1>8 DEF OnRemove, SlotTypes
  <2> QED
    BY <1>0, <1>8, <2>1, <2>2, StopStraysNone DEF OnRemove
<1>9. ASSUME NEW t \in Tasks, TaskFails(t) \/ TaskStops(t)
      PROVE  NoStrayMonitor'
  <2>1. tasks' = [tasks EXCEPT ![t] = None] /\ UNCHANGED <<connected, monitored>>
    BY <1>9 DEF TaskFails, TaskStops
  <2> QED
    BY <1>0, <2>1, EndStraysNone
<1>10. CASE UNCHANGED vars
  BY <1>1, <1>10 DEF vars, slotVars
<1>11. CASE Republish \/ OnKeyNew \/ OnKeyIgnored \/ OnIgnored \/ Transmit
  BY <1>1, <1>11 DEF Republish, OnKeyNew, OnKeyIgnored, OnIgnored, Transmit
<1>12. ASSUME NEW id \in Identities, NEW path \in Paths, Sight(id, path)
       PROVE  NoStrayMonitor'
  BY <1>1, <1>12 DEF Sight
<1>13. ASSUME NEW t \in Tasks, NEW code \in Codes, TaskKey(t, code)
       PROVE  NoStrayMonitor'
  BY <1>1, <1>13 DEF TaskKey
<1>14. ASSUME NEW msg \in IncomingPublish, Receive(msg)
       PROVE  NoStrayMonitor'
  BY <1>1, <1>14 DEF Receive
<1> QED
  BY <1>2, <1>3, <1>4, <1>5, <1>6, <1>7, <1>8, <1>9, <1>10, <1>11, <1>12,
     <1>13, <1>14 DEF Next, Handle

(* At first there are no tasks.                                             *)
LEMMA TaskInitially == Init => TaskInv
<1>1. Init => NoStrayMonitor
  BY SlotAssumption DEF Init, NoStrayMonitor
<1> QED
  BY <1>1, SlotInitially DEF TaskInv

(* A device has at most one monitor that has not been told to stop, and its *)
(* slot holds it: no handler forgets a task that still grabs a device.      *)
THEOREM MonitorsNeverStray == Spec => []NoStrayMonitor
<1>1. TaskInv => NoStrayMonitor
  BY DEF TaskInv
<1> QED
  BY <1>1, TaskInitially, TaskStep, PTL DEF Spec

-----------------------------------------------------------------------------
(* The coordinator keeps the promise of DeviceLifecycle.                    *)

Present == {s \in Slugs : connected[s] # None}
Watched == {s \in Slugs : monitored[s] # None}

(* Initial states map to initial states.                                    *)
LEMMA PromiseInitially == Init => Lifecycle!Init
<1> SUFFICES ASSUME Init PROVE Lifecycle!Init
  OBVIOUS
<1>1. file \in Seq(Record)
  BY TypeInitially DEF TypeInv, DbInv, DbTypeOK
<1>2. SlugsOf(file) \subseteq Slugs
  <2>1. \A i \in DOMAIN file : file[i] \in Record
    BY <1>1, ElementOfSeq
  <2> QED
    BY <2>1 DEF SlugsOf, Record
<1>3. EnabledSlugs(file) \subseteq SlugsOf(file) /\ EnabledSlugs(file) \subseteq Slugs
  BY DEF EnabledSlugs, EnabledIn, SlugsOf
<1>4. SlugsOf(devices) = {} /\ EnabledSlugs(devices) = {}
  BY DEF Init, DbInit, SlugsOf, EnabledSlugs, EnabledIn
<1>5. Present = {} /\ Watched = {} /\ loaded = FALSE
  BY DEF Init, DbInit, Present, Watched
<1> QED
  BY <1>2, <1>3, <1>4, <1>5 DEF Lifecycle!Init, Present, Watched

(* A change that keeps slugs and switches is seen as a stutter, or as a     *)
(* save of what an earlier, failed save has left out.                       *)
LEMMA PromiseOfSameSwitches ==
    ASSUME SameSwitches(devices, devices'), loaded, loaded',
           file' = devices' \/ file' = file,
           UNCHANGED <<connected, monitored>>
    PROVE  \/ Lifecycle!Resave
           \/ UNCHANGED Lifecycle!lifecycleVars
<1>1. SlugsOf(devices') = SlugsOf(devices) /\ EnabledSlugs(devices') = EnabledSlugs(devices)
  BY DEF SameSwitches, EnabledSlugs
<1>2. UNCHANGED <<Present, Watched>>
  BY DEF Present, Watched
<1>3. CASE file' = file
  BY <1>1, <1>2, <1>3 DEF Lifecycle!lifecycleVars, Present, Watched
<1>4. CASE file' = devices'
  BY <1>1, <1>2, <1>4 DEF Lifecycle!Resave, Lifecycle!Now, Present, Watched
<1> QED
  BY <1>3, <1>4

(* Every step maps to a step of DeviceLifecycle or to none.                 *)
LEMMA PromiseStep ==
    SlotInv /\ [Next]_vars => [Lifecycle!Next]_(Lifecycle!lifecycleVars)
<1> SUFFICES ASSUME SlotInv, [Next]_vars
             PROVE  Lifecycle!Next \/ UNCHANGED Lifecycle!lifecycleVars
  OBVIOUS
<1>0. /\ DbInv /\ ChannelTypes /\ SlotTypes /\ devices \in Seq(Record)
      /\ MonitorsFollowSwitches /\ IdleIsEmpty
  BY DEF SlotInv, TypeInv, DbInv, DbTypeOK
<1>1. ASSUME UNCHANGED <<devices, file, loaded, connected, monitored>>
      PROVE  UNCHANGED Lifecycle!lifecycleVars
  BY <1>1 DEF Lifecycle!lifecycleVars
<1>2. ASSUME NEW replay \in Replays, Start(replay) PROVE Lifecycle!Begin
  BY <1>2 DEF Start, Load, slotVars, Lifecycle!Begin
<1>3. CASE Die
  <2>1. SlugsOf(devices') = {} /\ EnabledSlugs(devices') = {}
    BY <1>3 DEF Die, Crash, SlugsOf, EnabledSlugs, EnabledIn
  <2>2. Present' = {} /\ Watched' = {}
    BY <1>3 DEF Die, Present, Watched
  <2>3. loaded = TRUE /\ loaded' = FALSE /\ file' = file
    BY <1>3 DEF Die, Crash, DbInv, DbTypeOK
  <2> QED
    BY <2>1, <2>2, <2>3
       DEF Present, Watched, Lifecycle!End, Lifecycle!Next
<1>4. CASE OnConnectedKnown
  <2>1. PICK i \in DOMAIN devices :
           MatchKnown(Head(rx).id, i) /\ Attach(devices[i].slug, Head(rx).path)
    BY <1>4 DEF OnConnectedKnown
  <2>2. Head(rx).id \in Identities /\ Head(rx).path \in Paths
    BY <1>0, <1>4, TakeLemma, MessageLemma DEF OnConnectedKnown
  <2>3. PICK slug \in Slugs : slug = devices[i].slug /\ slug \in SlugsOf(devices)
    <3>1. devices[i] \in Record
      BY <1>0, ElementOfSeq
    <3> QED
      BY <3>1 DEF Record, SlugsOf
  <2>4. Attach(slug, Head(rx).path)
    BY <2>1, <2>3
  <2>5. SameSwitches(devices, devices')
    BY <1>0, <2>1, <2>2, MatchKnownSwitches
  <2>6. loaded /\ loaded' = loaded /\ (file' = devices' \/ file' = file)
    BY <2>1 DEF MatchKnown, SaveAtomic
  <2>7. CASE connected[slug] # None
    <3>1. UNCHANGED <<connected, monitored>>
      BY <2>4, <2>7 DEF Attach, slotVars
    <3> QED
      BY <2>5, <2>6, <3>1, PromiseOfSameSwitches DEF Lifecycle!Next
  <2>8. CASE connected[slug] = None
    <3>1. /\ connected'[slug] # None
          /\ monitored'[slug] # None <=> EnabledIn(devices', slug)
          /\ \A s \in Slugs : s # slug => /\ connected'[s] = connected[s]
                                          /\ monitored'[s] = monitored[s]
          /\ monitored[slug] = None
      <4>1. monitored[slug] = None
        BY <1>0, <2>3, <2>8 DEF MonitorsFollowSwitches
      <4> QED
        BY <1>0, <2>2, <2>3, <2>4, <2>8, <4>1, AttachSlots
    <3>2. /\ SlugsOf(devices') = SlugsOf(devices)
          /\ EnabledSlugs(devices') = EnabledSlugs(devices)
          /\ EnabledIn(devices', slug) <=> EnabledIn(devices, slug)
      BY <2>5 DEF SameSwitches, EnabledSlugs
    <3>3. slug \notin Present /\ Present' = Present \cup {slug}
      BY <2>3, <2>8, <3>1 DEF Present
    <3>4. Watched' = Watched \cup ({slug} \cap EnabledSlugs(devices))
      BY <2>3, <3>1, <3>2 DEF Watched, EnabledSlugs
    <3>5. Lifecycle!Arrive(slug)
      BY <2>3, <2>6, <3>2, <3>3, <3>4
         DEF Present, Watched, Lifecycle!Arrive, Lifecycle!Keep, Lifecycle!Now
    <3> QED
      BY <3>5 DEF Lifecycle!Next
  <2> QED
    BY <2>7, <2>8
<1>5. CASE OnConnectedNew
  <2>1. PICK slug \in Slugs :
           InsertNew(Head(rx).id, slug) /\ Attach(slug, Head(rx).path)
    BY <1>5 DEF OnConnectedNew
  <2>2. Head(rx).id \in Identities /\ Head(rx).path \in Paths
    BY <1>0, <1>5, TakeLemma, MessageLemma DEF OnConnectedNew
  <2>3. /\ slug \notin SlugsOf(devices)
        /\ SlugsOf(devices') = SlugsOf(devices) \cup {slug}
        /\ \A s : EnabledIn(devices', s) <=> EnabledIn(devices, s)
    BY <1>0, <2>1, <2>2, InsertNewSwitches
  <2>4. ~EnabledIn(devices', slug) /\ EnabledSlugs(devices') = EnabledSlugs(devices)
    BY <2>3 DEF EnabledSlugs, EnabledIn, SlugsOf
  <2>5. connected[slug] = None /\ monitored[slug] = None
    BY <1>0, <2>3 DEF MonitorsFollowSwitches
  <2>6. /\ connected'[slug] # None
        /\ monitored'[slug] = None
        /\ \A s \in Slugs : s # slug => /\ connected'[s] = connected[s]
                                        /\ monitored'[s] = monitored[s]
    BY <1>0, <2>1, <2>2, <2>4, <2>5, AttachSlots
  <2>7. Present' = Present \cup {slug}
    BY <2>6 DEF Present
  <2>8. Watched' = Watched
    BY <2>5, <2>6 DEF Watched
  <2>9. loaded /\ loaded' = loaded /\ (file' = devices' \/ file' = file)
    BY <2>1 DEF InsertNew, SaveAtomic
  <2>10. Lifecycle!Register(slug)
    BY <2>3, <2>4, <2>7, <2>8, <2>9
       DEF Present, Watched, Lifecycle!Register, Lifecycle!Keep, Lifecycle!Now
  <2> QED
    BY <2>10 DEF Lifecycle!Next
<1>6. CASE OnDisconnected
  <2>1. PICK slug \in Slugs : slug = Head(rx).slug /\ loaded
    BY <1>0, <1>6, TakeLemma, MessageLemma DEF OnDisconnected
  <2>2. /\ connected' = [connected EXCEPT ![slug] = None]
        /\ StopMonitor(slug) /\ UNCHANGED dbVars
    BY <1>6, <2>1 DEF OnDisconnected
  <2>3. /\ connected'[slug] = None /\ monitored'[slug] = None
        /\ \A s \in Slugs : s # slug => /\ connected'[s] = connected[s]
                                        /\ monitored'[s] = monitored[s]
    BY <1>0, <2>1, <2>2, StopSlots DEF SlotTypes
  <2>4. Present' = Present \ {slug} /\ Watched' = Watched \ {slug}
    BY <2>1, <2>3 DEF Present, Watched
  <2>5. UNCHANGED <<devices, file, loaded>>
    BY <2>2 DEF dbVars
  <2>6. CASE slug \in Present
    <3>1. Lifecycle!Leave(slug)
      BY <2>1, <2>4, <2>5, <2>6 DEF Present, Watched, Lifecycle!Leave
    <3> QED
      BY <3>1 DEF Lifecycle!Next
  <2>7. CASE slug \notin Present
    <3>1. slug \notin Watched
      BY <1>0, <2>1, <2>7 DEF Present, Watched, MonitorsFollowSwitches
    <3>2. Present' = Present /\ Watched' = Watched
      BY <2>4, <2>7, <3>1
    <3> QED
      BY <2>5, <3>2 DEF Present, Watched, Lifecycle!lifecycleVars
  <2> QED
    BY <2>6, <2>7
<1>7. CASE OnKeyNew
  <2>1. Head(rx).slug \in Slugs /\ Head(rx).code \in Codes
    BY <1>0, <1>7, TakeLemma, MessageLemma DEF OnKeyNew
  <2>2. PICK i \in DOMAIN devices : RecordKey(Head(rx).slug, Head(rx).code, i)
    BY <1>7 DEF OnKeyNew
  <2>3. SameSwitches(devices, devices')
    BY <1>0, <2>1, <2>2, RecordKeySwitches
  <2>4. UNCHANGED <<connected, monitored>>
    BY <1>7 DEF OnKeyNew, slotVars
  <2>5. loaded /\ loaded' /\ (file' = devices' \/ file' = file)
    BY <2>2 DEF RecordKey, SaveAtomic
  <2> QED
    BY <2>3, <2>4, <2>5, PromiseOfSameSwitches DEF Lifecycle!Next
<1>8. CASE OnEnable
  <2> DEFINE on == Command.body = "on"
  <2>1. PICK slug \in Slugs : slug = Command.slug
    BY <1>0, <1>8, TakeIncomingLemma DEF OnEnable, Optional
  <2>2. PICK i \in DOMAIN devices : SetEnabled(slug, on, i)
    BY <1>8, <2>1 DEF OnEnable
  <2>3. connected' = connected
    BY <1>8 DEF OnEnable
  <2>12. on \in BOOLEAN
    OBVIOUS
  <2> HIDE DEF on
  <2>4. /\ slug \in SlugsOf(devices)
        /\ SlugsOf(devices') = SlugsOf(devices)
        /\ EnabledIn(devices, slug) <=> ~on
        /\ EnabledIn(devices', slug) <=> on
        /\ \A s : s # slug => (EnabledIn(devices', s) <=> EnabledIn(devices, s))
    BY <1>0, <2>2, <2>12, SetEnabledSwitches
  <2>5. /\ slug \in SlugsOf(devices)
        /\ SlugsOf(devices') = SlugsOf(devices)
        /\ \A s : s # slug => (EnabledIn(devices', s) <=> EnabledIn(devices, s))
    BY <2>4
  <2>6. loaded /\ loaded' = loaded /\ (file' = devices' \/ file' = file)
    BY <2>2 DEF SetEnabled, SaveAtomic
  <2>7. Present' = Present
    BY <2>3 DEF Present
  <2>8. MonitorsFollowSwitches'
    BY SlotStep DEF SlotInv
  <2>9. CASE ~on
    <3>1. EnabledIn(devices, slug) /\ ~EnabledIn(devices', slug)
      BY <2>4, <2>9
    <3>2. /\ slug \in EnabledSlugs(devices)
          /\ EnabledSlugs(devices') = EnabledSlugs(devices) \ {slug}
      BY <2>1, <2>5, <3>1 DEF EnabledSlugs
    <3>3. Watched' = Watched \ {slug}
      BY <1>0, <2>3, <2>5, <2>8, <3>1 DEF Watched, MonitorsFollowSwitches
    <3>4. Lifecycle!SwitchOff(slug)
      BY <2>5, <2>6, <2>7, <3>2, <3>3
         DEF Present, Watched, Lifecycle!SwitchOff, Lifecycle!Keep, Lifecycle!Now
    <3> QED
      BY <3>4 DEF Lifecycle!Next
  <2>10. CASE on
    <3>1. ~EnabledIn(devices, slug) /\ EnabledIn(devices', slug)
      BY <2>4, <2>10
    <3>2. /\ slug \notin EnabledSlugs(devices)
          /\ EnabledSlugs(devices') = EnabledSlugs(devices) \cup {slug}
      BY <2>1, <2>5, <3>1 DEF EnabledSlugs
    <3>3. Watched' = Watched \cup ({slug} \cap Present)
      BY <1>0, <2>1, <2>3, <2>5, <2>8, <3>1
         DEF Watched, Present, MonitorsFollowSwitches
    <3>4. Lifecycle!SwitchOn(slug)
      BY <2>5, <2>6, <2>7, <3>2, <3>3
         DEF Present, Watched, Lifecycle!SwitchOn, Lifecycle!Keep, Lifecycle!Now
    <3> QED
      BY <3>4 DEF Lifecycle!Next
  <2> QED
    BY <2>9, <2>10
<1>9. CASE OnRemove
  <2>1. PICK slug \in Slugs : slug = Command.slug
    BY <1>0, <1>9, TakeIncomingLemma DEF OnRemove, Optional
  <2>2. PICK i \in DOMAIN devices : Remove(slug, i)
    BY <1>9, <2>1 DEF OnRemove
  <2>3. StopMonitor(slug) /\ connected' = [connected EXCEPT ![slug] = None]
    BY <1>9, <2>1 DEF OnRemove
  <2>4. /\ slug \in SlugsOf(devices)
        /\ SlugsOf(devices') = SlugsOf(devices) \ {slug}
        /\ ~EnabledIn(devices', slug)
        /\ \A s : s # slug => (EnabledIn(devices', s) <=> EnabledIn(devices, s))
    BY <1>0, <2>1, <2>2, RemoveSwitches
  <2>5. /\ connected'[slug] = None /\ monitored'[slug] = None
        /\ \A s \in Slugs : s # slug => /\ connected'[s] = connected[s]
                                        /\ monitored'[s] = monitored[s]
    BY <1>0, <2>1, <2>3, StopSlots DEF SlotTypes
  <2>6. Present' = Present \ {slug} /\ Watched' = Watched \ {slug}
    BY <2>1, <2>5 DEF Present, Watched
  <2>7. EnabledSlugs(devices') = EnabledSlugs(devices) \ {slug}
    BY <2>1, <2>4 DEF EnabledSlugs
  <2>8. loaded /\ loaded' = loaded /\ (file' = devices' \/ file' = file)
    BY <2>2 DEF Remove, SaveAtomic
  <2>9. Lifecycle!Forget(slug)
    BY <2>4, <2>6, <2>7, <2>8
       DEF Present, Watched, Lifecycle!Forget, Lifecycle!Keep, Lifecycle!Now
  <2> QED
    BY <2>9 DEF Lifecycle!Next
<1>10. CASE UNCHANGED vars
  BY <1>1, <1>10 DEF vars
<1>11. CASE Republish \/ OnKeyIgnored \/ OnIgnored \/ Transmit
  BY <1>1, <1>11
     DEF Republish, OnKeyIgnored, OnIgnored, Transmit, dbVars, slotVars
<1>12. ASSUME NEW id \in Identities, NEW path \in Paths, Sight(id, path)
       PROVE  UNCHANGED Lifecycle!lifecycleVars
  BY <1>1, <1>12 DEF Sight, dbVars, slotVars
<1>13. ASSUME NEW t \in Tasks, NEW code \in Codes, TaskKey(t, code)
       PROVE  UNCHANGED Lifecycle!lifecycleVars
  BY <1>1, <1>13 DEF TaskKey, dbVars, slotVars
<1>14. ASSUME NEW t \in Tasks, TaskFails(t) \/ TaskStops(t)
       PROVE  UNCHANGED Lifecycle!lifecycleVars
  BY <1>1, <1>14 DEF TaskFails, TaskStops, dbVars
<1>15. ASSUME NEW msg \in IncomingPublish, Receive(msg)
       PROVE  UNCHANGED Lifecycle!lifecycleVars
  BY <1>1, <1>15 DEF Receive, dbVars, slotVars
<1>16. ASSUME NEW replay \in Replays, Start(replay) PROVE Lifecycle!Next
  BY <1>2, <1>16 DEF Lifecycle!Next
<1> QED
  BY <1>3, <1>4, <1>5, <1>6, <1>7, <1>8, <1>9, <1>10, <1>11, <1>12,
     <1>13, <1>14, <1>15, <1>16 DEF Next, Handle

(* Seen from outside, the coordinator registers, attaches, detaches,        *)
(* switches and forgets devices exactly as DeviceLifecycle allows.          *)
THEOREM ImplementsLifecycle == Spec => KeepsThePromise
  BY PromiseInitially, PromiseStep, SlotInitially, SlotStep, PTL
     DEF Spec, KeepsThePromise, Lifecycle!Spec

(* What does not run knows nothing.                                         *)
AtRest ==
    ~loaded => /\ SlugsOf(devices) = {} /\ EnabledSlugs(devices) = {}
               /\ Present = {} /\ Watched = {}

(* What the promise is worth: whatever keeps it watches a device exactly    *)
(* while it is plugged in and its switch is on.                             *)
THEOREM LifecycleWatchesWhatIsOn == Lifecycle!Spec => []Lifecycle!WatchesWhatIsOn
<1> DEFINE WatchInv == Lifecycle!WatchesWhatIsOn /\ AtRest
<1>1. Lifecycle!Init => WatchInv
  BY DEF Lifecycle!Init, Lifecycle!WatchesWhatIsOn, AtRest, Present, Watched
<1>2. WatchInv /\ [Lifecycle!Next]_(Lifecycle!lifecycleVars) => WatchInv'
  <2> SUFFICES ASSUME WatchInv, [Lifecycle!Next]_(Lifecycle!lifecycleVars)
               PROVE  WatchInv'
    OBVIOUS
  <2> USE DEF Lifecycle!WatchesWhatIsOn, AtRest, Present, Watched
  <2>1. CASE UNCHANGED Lifecycle!lifecycleVars
    BY <2>1 DEF Lifecycle!lifecycleVars
  <2>2. CASE Lifecycle!Begin
    BY <2>2 DEF Lifecycle!Begin
  <2>3. CASE Lifecycle!End
    BY <2>3 DEF Lifecycle!End
  <2>4. ASSUME NEW s \in Slugs, Lifecycle!Register(s) PROVE WatchInv'
    BY <2>4 DEF Lifecycle!Register, Lifecycle!Keep, Lifecycle!Now
  <2>5. ASSUME NEW s \in Slugs, Lifecycle!Arrive(s) PROVE WatchInv'
    BY <2>5 DEF Lifecycle!Arrive, Lifecycle!Keep, Lifecycle!Now
  <2>6. ASSUME NEW s \in Slugs, Lifecycle!Leave(s) PROVE WatchInv'
    BY <2>6 DEF Lifecycle!Leave
  <2>7. ASSUME NEW s \in Slugs, Lifecycle!SwitchOn(s) PROVE WatchInv'
    BY <2>7 DEF Lifecycle!SwitchOn, Lifecycle!Keep, Lifecycle!Now
  <2>8. ASSUME NEW s \in Slugs, Lifecycle!SwitchOff(s) PROVE WatchInv'
    BY <2>8 DEF Lifecycle!SwitchOff, Lifecycle!Keep, Lifecycle!Now
  <2>9. ASSUME NEW s \in Slugs, Lifecycle!Forget(s) PROVE WatchInv'
    BY <2>9 DEF Lifecycle!Forget, Lifecycle!Keep, Lifecycle!Now
  <2>10. CASE Lifecycle!Resave
    BY <2>10 DEF Lifecycle!Resave, Lifecycle!Now
  <2> QED
    BY <2>1, <2>2, <2>3, <2>4, <2>5, <2>6, <2>7, <2>8, <2>9, <2>10 DEF Lifecycle!Next
<1>3. WatchInv => Lifecycle!WatchesWhatIsOn
  OBVIOUS
<1> QED
  BY <1>1, <1>2, <1>3, PTL DEF Lifecycle!Spec

-----------------------------------------------------------------------------
(* A dead monitor is reported.                                              *)

Dead(s)     == monitored[s] # None /\ tasks[monitored[s]] = None
Reported(s) == \E k \in DOMAIN rx : rx[k] = DeviceDisconnected(s)

(* Inductive with TaskInv: it is the task in a slot that knows the slug of  *)
(* its slot, and the task in a slot that has not been told to stop.         *)
ReportInv == TaskInv /\ DeadMonitorIsReported

(* A message survives when another is added ...                             *)
LEMMA AppendKeepsReports ==
    ASSUME ChannelTypes, NEW msg \in CoordinatorMsg, rx' = Append(rx, msg)
    PROVE  /\ \A s : Reported(s) => Reported(s)'
           /\ \A s : msg = DeviceDisconnected(s) => Reported(s)'
<1>1. /\ rx \in Seq(CoordinatorMsg)
      /\ DOMAIN rx = 1..Len(rx) /\ Len(rx) \in Nat
  BY DEF ChannelTypes
<1>2. /\ DOMAIN rx' = 1..(Len(rx) + 1)
      /\ \A k \in DOMAIN rx : rx'[k] = rx[k]
      /\ rx'[Len(rx) + 1] = msg
  BY <1>1, AppendProperties
<1> QED
  BY <1>1, <1>2 DEF Reported

(* ... and when another is taken.                                           *)
LEMMA TakeKeepsReports ==
    ASSUME ChannelTypes, NEW kind, Take(kind), NEW s,
           kind = "disconnected" => Head(rx) # DeviceDisconnected(s),
           Reported(s)
    PROVE  Reported(s)'
<1>1. /\ rx \in Seq(CoordinatorMsg) /\ rx # <<>>
      /\ rx' = Tail(rx) /\ Head(rx).kind = kind
  BY DEF ChannelTypes, Take
<1>2. PICK k \in DOMAIN rx : rx[k] = DeviceDisconnected(s)
  BY DEF Reported
<1>3. Head(rx) # DeviceDisconnected(s)
  BY <1>1 DEF DeviceDisconnected
<1>4. k \in 2..Len(rx)
  BY <1>1, <1>2, <1>3
<1>5. (k - 1) \in DOMAIN Tail(rx) /\ Tail(rx)[k - 1] = rx[k]
  BY <1>1, <1>4
<1> QED
  BY <1>1, <1>2, <1>5 DEF Reported

(* A step that lets every dead monitor be one that was dead before, and     *)
(* loses none of the reports.                                               *)
LEMMA ReportsRemain ==
    ASSUME DeadMonitorIsReported,
           \A s \in Slugs : Dead(s)' => Dead(s),
           \A s \in Slugs : Dead(s)' /\ Reported(s) => Reported(s)'
    PROVE  DeadMonitorIsReported'
  BY DEF DeadMonitorIsReported, Dead, Reported

(* A spawned monitor lives; a stopped one has left its slot.                *)
LEMMA SpawnLeavesNoneDead ==
    ASSUME SlotTypes, NoStrayMonitor, NEW slug \in Slugs, NEW path \in Paths,
           SpawnMonitor(slug, path)
    PROVE  \A s \in Slugs : Dead(s)' => Dead(s)
<1>1. PICK t \in Tasks :
         /\ IsFresh(t)
         /\ monitored' = [monitored EXCEPT ![slug] = t]
         /\ tasks' = [Released(slug) EXCEPT
                         ![t] = [slug |-> slug, path |-> path, told |-> FALSE]]
  BY DEF SpawnMonitor
<1>2. tasks'[t] # None
  <2>1. tasks'[t] = [slug |-> slug, path |-> path, told |-> FALSE]
    BY <1>1 DEF Released, SlotTypes
  <2>2. tasks'[t] \in Task
    BY <2>1 DEF Task
  <2> QED
    BY <2>2, AbsenceAssumption
<1>3. \A u \in Tasks : u # t /\ tasks[u] # None => tasks'[u] # None
  <2>1. SUFFICES ASSUME NEW u \in Tasks, u # t, tasks[u] # None
                 PROVE  tasks'[u] # None
    OBVIOUS
  <2>2. tasks[u] \in Task
    BY <2>1 DEF SlotTypes, Optional
  <2>3. [tasks[u] EXCEPT !.told = TRUE] \in Task
    BY <2>2 DEF Task
  <2>4. tasks'[u] \in Task
    BY <1>1, <2>1, <2>2, <2>3 DEF Released
  <2> QED
    BY <2>4, AbsenceAssumption
<1>4. SUFFICES ASSUME NEW s \in Slugs, Dead(s)' PROVE Dead(s)
  OBVIOUS
<1>5. s # slug /\ monitored'[s] = monitored[s]
  BY <1>1, <1>2, <1>4 DEF Dead, SlotTypes
<1>6. monitored[s] \in Tasks /\ monitored[s] # t
  BY <1>1, <1>4, <1>5 DEF Dead, SlotTypes, Optional, IsFresh
<1> QED
  BY <1>3, <1>4, <1>5, <1>6 DEF Dead

(* A monitor that is stopped leaves its slot with it.                       *)
LEMMA StopLeavesNoneDead ==
    ASSUME SlotTypes, NEW slug \in Slugs, StopMonitor(slug)
    PROVE  \A s \in Slugs : Dead(s)' => s # slug /\ Dead(s)
<1>1. SUFFICES ASSUME NEW s \in Slugs, Dead(s)' PROVE s # slug /\ Dead(s)
  OBVIOUS
<1>2. s # slug /\ monitored'[s] = monitored[s]
  BY <1>1 DEF StopMonitor, SlotTypes, Dead
<1>3. monitored[s] \in Tasks
  BY <1>1, <1>2 DEF Dead, SlotTypes, Optional
<1>4. CASE tasks[monitored[s]] # None
  <2>1. tasks[monitored[s]] \in Task
    BY <1>3, <1>4 DEF SlotTypes, Optional
  <2>2. [tasks[monitored[s]] EXCEPT !.told = TRUE] \in Task
    BY <2>1 DEF Task
  <2>3. tasks'[monitored[s]] \in Task
    BY <1>3, <2>1, <2>2 DEF StopMonitor, Released
  <2> QED
    BY <1>1, <1>2, <2>3, AbsenceAssumption DEF Dead
<1> QED
  BY <1>1, <1>2, <1>4 DEF Dead

(* So no sighting makes a dead monitor either.                              *)
LEMMA AttachLeavesNoneDead ==
    ASSUME SlotTypes, NoStrayMonitor, NEW slug \in Slugs, NEW path \in Paths,
           Attach(slug, path)
    PROVE  \A s \in Slugs : Dead(s)' => Dead(s)
<1>1. CASE SpawnMonitor(slug, path)
  BY <1>1, SpawnLeavesNoneDead
<1>2. CASE UNCHANGED <<monitored, tasks>>
  BY <1>2 DEF Dead
<1> QED
  BY <1>1, <1>2 DEF Attach, slotVars

(* Every step keeps the reports: a monitor that fails sends its own, and    *)
(* the only handler that takes one empties the slot it is about.            *)
LEMMA ReportStep == ReportInv /\ [Next]_vars => ReportInv'
<1> SUFFICES ASSUME ReportInv, [Next]_vars PROVE DeadMonitorIsReported'
  BY TaskStep DEF ReportInv
<1>0. /\ ChannelTypes /\ SlotTypes /\ devices \in Seq(Record)
      /\ NoStrayMonitor /\ DeadMonitorIsReported
  BY DEF ReportInv, TaskInv, SlotInv, TypeInv, DbInv, DbTypeOK
<1>1. ASSUME UNCHANGED <<monitored, tasks, rx>> PROVE DeadMonitorIsReported'
  BY <1>0, <1>1, Zenon DEF DeadMonitorIsReported
<1>2. ASSUME NEW kind, Take(kind), kind # "disconnected",
             \A s \in Slugs : Dead(s)' => Dead(s)
      PROVE  DeadMonitorIsReported'
  <2>1. \A s \in Slugs : Reported(s) => Reported(s)'
    BY <1>0, <1>2, TakeKeepsReports
  <2> QED
    BY <1>0, <1>2, <2>1, ReportsRemain
<1>3. CASE OnConnectedKnown
  <2>1. PICK i \in DOMAIN devices : Attach(devices[i].slug, Head(rx).path)
    BY <1>3 DEF OnConnectedKnown
  <2>2. Head(rx).path \in Paths
    BY <1>0, <1>3, TakeLemma, MessageLemma DEF OnConnectedKnown
  <2>3. devices[i].slug \in Slugs
    <3>1. devices[i] \in Record
      BY <1>0, ElementOfSeq
    <3> QED
      BY <3>1 DEF Record
  <2> QED
    BY <1>0, <1>2, <1>3, <2>1, <2>2, <2>3, AttachLeavesNoneDead
       DEF OnConnectedKnown
<1>4. CASE OnConnectedNew
  <2>1. PICK slug \in Slugs : Attach(slug, Head(rx).path)
    BY <1>4 DEF OnConnectedNew
  <2>2. Head(rx).path \in Paths
    BY <1>0, <1>4, TakeLemma, MessageLemma DEF OnConnectedNew
  <2> QED
    BY <1>0, <1>2, <1>4, <2>1, <2>2, AttachLeavesNoneDead DEF OnConnectedNew
<1>5. CASE OnDisconnected
  <2>1. Take("disconnected") /\ StopMonitor(Head(rx).slug)
    BY <1>5 DEF OnDisconnected
  <2>2. Head(rx).slug \in Slugs
    BY <1>0, <2>1, TakeLemma, MessageLemma
  <2>3. \A s \in Slugs : Dead(s)' => s # Head(rx).slug /\ Dead(s)
    BY <1>0, <2>1, <2>2, StopLeavesNoneDead
  <2>4. \A s \in Slugs : s # Head(rx).slug => Head(rx) # DeviceDisconnected(s)
    BY DEF DeviceDisconnected
  <2>5. \A s \in Slugs : Dead(s)' /\ Reported(s) => Reported(s)'
    BY <1>0, <2>1, <2>3, <2>4, TakeKeepsReports
  <2> QED
    BY <1>0, <2>3, <2>5, ReportsRemain
<1>6. CASE OnKeyNew \/ OnKeyIgnored
  <2>1. Take("key") /\ UNCHANGED <<monitored, tasks>>
    BY <1>6 DEF OnKeyNew, OnKeyIgnored, slotVars
  <2> QED
    BY <1>2, <2>1 DEF Dead
<1>7. CASE OnEnable
  <2> DEFINE slug == Command.slug
  <2>1. slug \in Slugs
    BY <1>0, <1>7, TakeIncomingLemma DEF OnEnable, Optional
  <2>2. /\ rx' = rx
        /\ \/ StopMonitor(slug)
           \/ /\ connected[slug] # None
              /\ SpawnMonitor(slug, connected[slug])
           \/ UNCHANGED <<monitored, tasks>>
    BY <1>7 DEF OnEnable
  <2> HIDE DEF slug
  <2>3. connected[slug] # None => connected[slug] \in Paths
    BY <1>0, <2>1 DEF SlotTypes, Optional
  <2>4. \A s \in Slugs : Dead(s)' => Dead(s)
    <3>1. CASE StopMonitor(slug)
      BY <1>0, <2>1, <3>1, StopLeavesNoneDead
    <3>2. CASE connected[slug] # None /\ SpawnMonitor(slug, connected[slug])
      BY <1>0, <2>1, <2>3, <3>2, SpawnLeavesNoneDead
    <3>3. CASE UNCHANGED <<monitored, tasks>>
      BY <3>3 DEF Dead
    <3> QED
      BY <2>2, <3>1, <3>2, <3>3
  <2> QED
    BY <1>0, <2>2, <2>4, ReportsRemain DEF Reported
<1>8. CASE OnRemove
  <2>1. Command.slug \in Slugs
    BY <1>0, <1>8, TakeIncomingLemma DEF OnRemove, Optional
  <2>2. StopMonitor(Command.slug) /\ rx' = rx
    BY <1>8 DEF OnRemove
  <2>3. \A s \in Slugs : Dead(s)' => Dead(s)
    BY <1>0, <2>1, <2>2, StopLeavesNoneDead
  <2> QED
    BY <1>0, <2>2, <2>3, ReportsRemain DEF Reported
<1>9. ASSUME NEW t \in Tasks, TaskFails(t) PROVE DeadMonitorIsReported'
  <2>1. /\ tasks[t] \in Task /\ UNCHANGED monitored
        /\ rx' = Append(rx, DeviceDisconnected(tasks[t].slug))
        /\ tasks' = [tasks EXCEPT ![t] = None]
    BY <1>0, <1>9 DEF TaskFails, SlotTypes, Optional
  <2>2. DeviceDisconnected(tasks[t].slug) \in CoordinatorMsg
    BY <2>1 DEF Task, CoordinatorMsg
  <2>3. PICK slug \in Slugs : slug = tasks[t].slug
    BY <2>1 DEF Task
  <2>4. (\A s : Reported(s) => Reported(s)') /\ Reported(slug)'
    BY <1>0, <2>1, <2>2, <2>3, AppendKeepsReports
  <2>5. ASSUME NEW s \in Slugs, Dead(s)' PROVE Dead(s) \/ s = slug
    BY <1>0, <1>9, <2>1, <2>3, <2>5
       DEF Dead, NoStrayMonitor, SlotTypes, Optional, TaskFails
  <2>6. \A s \in Slugs : Dead(s) => Reported(s)
    BY <1>0 DEF DeadMonitorIsReported, Dead, Reported
  <2>7. \A s \in Slugs : Dead(s)' => Reported(s)'
    BY <2>4, <2>5, <2>6
  <2> QED
    BY <2>7 DEF DeadMonitorIsReported, Dead, Reported
<1>10. ASSUME NEW t \in Tasks, TaskStops(t) PROVE DeadMonitorIsReported'
  <2>1. /\ tasks[t] # None /\ tasks[t].told /\ UNCHANGED <<monitored, rx>>
        /\ tasks' = [tasks EXCEPT ![t] = None]
    BY <1>10 DEF TaskStops, channelVars
  <2>2. \A s \in Slugs : monitored[s] # t
    BY <1>0, <2>1 DEF NoStrayMonitor
  <2>3. \A s \in Slugs : Dead(s)' => Dead(s)
    BY <1>0, <2>1, <2>2 DEF Dead, SlotTypes, Optional
  <2> QED
    BY <1>0, <2>1, <2>3, ReportsRemain DEF Reported
<1>11. ASSUME NEW msg \in CoordinatorMsg, rx' = Append(rx, msg),
              UNCHANGED <<monitored, tasks>>
       PROVE  DeadMonitorIsReported'
  <2>1. \A s : Reported(s) => Reported(s)'
    BY <1>0, <1>11, AppendKeepsReports
  <2> QED
    BY <1>0, <1>11, <2>1, ReportsRemain DEF Dead
<1>12. ASSUME NEW id \in Identities, NEW path \in Paths, Sight(id, path)
       PROVE  DeadMonitorIsReported'
  BY <1>11, <1>12 DEF Sight, slotVars, CoordinatorMsg
<1>13. ASSUME NEW t \in Tasks, NEW code \in Codes, TaskKey(t, code)
       PROVE  DeadMonitorIsReported'
  <2>1. tasks[t] \in Task
    BY <1>0, <1>13 DEF TaskKey, SlotTypes, Optional
  <2>2. KeyObserved(tasks[t].slug, code) \in CoordinatorMsg
    BY <2>1 DEF Task, CoordinatorMsg
  <2> QED
    BY <1>11, <1>13, <2>2 DEF TaskKey, slotVars
<1>14. CASE Die
  BY <1>14 DEF Die, DeadMonitorIsReported
<1>15. ASSUME NEW replay \in Replays, Start(replay) PROVE DeadMonitorIsReported'
  BY <1>1, <1>15 DEF Start, slotVars
<1>16. CASE Republish \/ OnIgnored \/ Transmit \/ UNCHANGED vars
  BY <1>1, <1>16 DEF Republish, OnIgnored, Transmit, slotVars, vars
<1>17. ASSUME NEW msg \in IncomingPublish, Receive(msg)
       PROVE  DeadMonitorIsReported'
  BY <1>1, <1>17 DEF Receive, slotVars
<1> QED
  BY <1>3, <1>4, <1>5, <1>6, <1>7, <1>8, <1>9, <1>10, <1>12, <1>13, <1>14,
     <1>15, <1>16, <1>17 DEF Next, Handle

(* At first no slot is taken.                                               *)
LEMMA ReportInitially == Init => ReportInv
<1>1. Init => DeadMonitorIsReported
  BY DEF Init, DeadMonitorIsReported
<1> QED
  BY <1>1, TaskInitially DEF ReportInv

(* A slot whose monitor ended by itself is emptied in the end: the report   *)
(* of the failure is still in the queue, whatever sightings, switches and   *)
(* removals came between.                                                   *)
THEOREM DeadMonitorsAreReported == Spec => []DeadMonitorIsReported
<1>1. ReportInv => DeadMonitorIsReported
  BY DEF ReportInv
<1> QED
  BY <1>1, ReportInitially, ReportStep, PTL DEF Spec

-----------------------------------------------------------------------------
(* The records of a slug: none or one.                                      *)

RecordsOf(db, slug) == {db[i] : i \in {j \in DOMAIN db : db[j].slug = slug}}

(* One record is changed in place, and not its slug.                        *)
IsUpdate(db, new, i) ==
    /\ DOMAIN new = DOMAIN db
    /\ new[i].slug = db[i].slug
    /\ \A j \in DOMAIN db : j # i => new[j] = db[j]

(* What the changes of the registry do to them.                             *)
LEMMA UpdateRecords ==
    ASSUME NEW db, NEW new, NEW i \in DOMAIN db, UniqueSlugs(db),
           IsUpdate(db, new, i)
    PROVE  /\ RecordsOf(db, db[i].slug) = {db[i]}
           /\ RecordsOf(new, db[i].slug) = {new[i]}
           /\ \A s : s # db[i].slug => RecordsOf(new, s) = RecordsOf(db, s)
<1>1. \A j \in DOMAIN db : db[j].slug = db[i].slug => j = i
  BY DEF UniqueSlugs
<1>2. RecordsOf(db, db[i].slug) = {db[i]}
  BY <1>1 DEF RecordsOf
<1>3. RecordsOf(new, db[i].slug) = {new[i]}
  BY <1>1 DEF RecordsOf, IsUpdate
<1>4. ASSUME NEW s, s # db[i].slug PROVE RecordsOf(new, s) = RecordsOf(db, s)
  BY <1>4 DEF RecordsOf, IsUpdate
<1> QED
  BY <1>2, <1>3, <1>4

(* An insertion adds the one record of its slug.                            *)
LEMMA InsertRecords ==
    ASSUME NEW db \in Seq(Record), NEW id \in Identity, NEW slug \in Slugs,
           slug \notin SlugsOf(db)
    PROVE  /\ RecordsOf(db, slug) = {}
           /\ RecordsOf(Insert(db, id, slug), slug) = {NewRecord(id, slug)}
           /\ \A s : s # slug =>
                 RecordsOf(Insert(db, id, slug), s) = RecordsOf(db, s)
<1> DEFINE new == Insert(db, id, slug)
           n   == Len(db) + 1
<1>1. /\ DOMAIN new = DOMAIN db \cup {n}
      /\ n \notin DOMAIN db
      /\ \A j \in DOMAIN db : new[j] = db[j]
      /\ new[n] = NewRecord(id, slug)
  <2>1. /\ DOMAIN new = 1..(Len(db) + 1)
        /\ \A j \in DOMAIN db : new[j] = db[j]
        /\ new[n] = NewRecord(id, slug)
    BY InsertLemma
  <2>2. DOMAIN db = 1..Len(db) /\ Len(db) \in Nat
    OBVIOUS
  <2> QED
    BY <2>1, <2>2
<1>2. NewRecord(id, slug).slug = slug
  BY NewRecordLemma
<1>3. \A j \in DOMAIN db : db[j].slug # slug
  BY DEF SlugsOf
<1> HIDE DEF new, n
<1>4. RecordsOf(db, slug) = {}
  BY <1>3 DEF RecordsOf
<1>5. RecordsOf(new, slug) = {NewRecord(id, slug)}
  BY <1>1, <1>2, <1>3 DEF RecordsOf
<1>6. ASSUME NEW s, s # slug PROVE RecordsOf(new, s) = RecordsOf(db, s)
  BY <1>1, <1>2, <1>6 DEF RecordsOf
<1> QED
  BY <1>4, <1>5, <1>6 DEF new

(* A removal takes the one record of its slug.                              *)
LEMMA RemoveRecords ==
    ASSUME NEW db \in Seq(Record), UniqueSlugs(db), NEW i \in DOMAIN db
    PROVE  /\ RecordsOf(WithoutIndex(db, i), db[i].slug) = {}
           /\ \A s : s # db[i].slug =>
                 RecordsOf(WithoutIndex(db, i), s) = RecordsOf(db, s)
<1> DEFINE new == WithoutIndex(db, i)
<1>1. /\ DOMAIN new = 1..(Len(db) - 1)
      /\ \A k \in DOMAIN new : /\ Survivor(i, k) \in DOMAIN db
                               /\ Survivor(i, k) # i
                               /\ new[k] = db[Survivor(i, k)]
  BY SurvivorLemma
<1>2. \A j \in DOMAIN db : db[j].slug = db[i].slug => j = i
  BY DEF UniqueSlugs
<1>3. \A j \in DOMAIN db : j # i => \E k \in DOMAIN new : new[k] = db[j]
  <2>1. SUFFICES ASSUME NEW j \in DOMAIN db, j # i
                 PROVE  \E k \in DOMAIN new : Survivor(i, k) = j
    BY <1>1
  <2> DEFINE k == IF j < i THEN j ELSE j - 1
  <2>2. DOMAIN db = 1..Len(db) /\ Len(db) \in Nat
    OBVIOUS
  <2>3. k \in DOMAIN new /\ Survivor(i, k) = j
    BY <1>1, <2>1, <2>2 DEF Survivor
  <2> QED
    BY <2>3
<1> HIDE DEF new
<1>4. RecordsOf(new, db[i].slug) = {}
  BY <1>1, <1>2 DEF RecordsOf
<1>5. ASSUME NEW s, s # db[i].slug PROVE RecordsOf(new, s) = RecordsOf(db, s)
  <2>1. \A rec \in RecordsOf(new, s) : rec \in RecordsOf(db, s)
    BY <1>1 DEF RecordsOf
  <2>2. \A rec \in RecordsOf(db, s) : rec \in RecordsOf(new, s)
    BY <1>3, <1>5 DEF RecordsOf
  <2> QED
    BY <2>1, <2>2
<1> QED
  BY <1>4, <1>5 DEF new

(* What the registry has to say depends on the records of the slug alone.   *)
LEMMA CurrentLemma ==
    ASSUME NEW db, NEW msg
    PROVE  IsCurrent(db, msg) <=>
              \/ RecordsOf(db, msg.slug) = {} /\ msg.body = None
              \/ \E rec \in RecordsOf(db, msg.slug) : Says(rec, msg.topic, msg.body)
<1>1. msg.slug \in SlugsOf(db) <=> RecordsOf(db, msg.slug) # {}
  BY DEF SlugsOf, RecordsOf
<1>2. (\E rec \in RecordsOf(db, msg.slug) : Says(rec, msg.topic, msg.body))
      <=> \E i \in DOMAIN db : /\ db[i].slug = msg.slug
                              /\ Says(db[i], msg.topic, msg.body)
  BY DEF RecordsOf
<1> QED
  BY <1>1, <1>2 DEF IsCurrent

-----------------------------------------------------------------------------
(* The words of the publishes.                                              *)

Words(msgs) == {msgs[k] : k \in DOMAIN msgs}

(* A word is covered when a later one is about the same topic and slug.     *)
Covers(words, w) == \E v \in words : v.topic = w.topic /\ v.slug = w.slug

(* LastWordIsCurrent, of any queue and any list of records.                 *)
LastWords(queue, db) ==
    \A k \in DOMAIN queue : IsLastWord(queue, k) => IsCurrent(db, queue[k])

(* Words that follow a change of the registry: they are current after it,   *)
(* and cover what is current no more.                                       *)
Follow(words, old, new) ==
    /\ \A w \in words : IsCurrent(new, w)
    /\ \A w \in Publication :
          IsCurrent(old, w) => IsCurrent(new, w) \/ Covers(words, w)

(* Publishing words that follow a change.                                   *)
LEMMA PublishedWords ==
    ASSUME NEW queue \in Seq(Publication), NEW msgs \in Seq(Publication),
           NEW old, NEW new, LastWords(queue, old),
           Follow(Words(msgs), old, new)
    PROVE  LastWords(queue \o msgs, new)
<1> DEFINE both == queue \o msgs
<1>1. /\ DOMAIN queue = 1..Len(queue) /\ DOMAIN msgs = 1..Len(msgs)
      /\ Len(queue) \in Nat /\ Len(msgs) \in Nat
  OBVIOUS
<1>2. /\ DOMAIN both = 1..(Len(queue) + Len(msgs))
      /\ \A k \in DOMAIN queue : both[k] = queue[k] /\ queue[k] \in Publication
      /\ \A m \in DOMAIN msgs : both[Len(queue) + m] = msgs[m]
  BY <1>1, ConcatProperties, ElementOfSeq
<1>3. SUFFICES ASSUME NEW k \in DOMAIN both, IsLastWord(both, k)
               PROVE  IsCurrent(new, both[k])
  BY DEF LastWords
<1> HIDE DEF both
<1>4. CASE k \in DOMAIN queue
  <2>1. IsLastWord(queue, k)
    BY <1>1, <1>2, <1>3, <1>4 DEF IsLastWord
  <2>2. IsCurrent(old, queue[k])
    BY <1>4, <2>1 DEF LastWords
  <2>3. ~Covers(Words(msgs), queue[k])
    <3>1. SUFFICES ASSUME NEW m \in DOMAIN msgs,
                          msgs[m].topic = queue[k].topic,
                          msgs[m].slug = queue[k].slug
                   PROVE  FALSE
      BY DEF Covers, Words
    <3>2. Len(queue) + m \in DOMAIN both /\ Len(queue) + m > k
      BY <1>1, <1>2, <1>4
    <3> QED
      BY <1>2, <1>3, <1>4, <3>1, <3>2 DEF IsLastWord
  <2> QED
    BY <1>2, <1>4, <2>2, <2>3 DEF Follow
<1>5. CASE k \notin DOMAIN queue
  <2>1. PICK m \in DOMAIN msgs : k = Len(queue) + m
    <3>1. (k - Len(queue)) \in DOMAIN msgs /\ k = Len(queue) + (k - Len(queue))
      BY <1>1, <1>2, <1>5
    <3> QED
      BY <3>1
  <2> QED
    BY <1>2, <2>1 DEF Words, Follow
<1> QED
  BY <1>4, <1>5

(* Transmitting: the last words of the rest were last before.               *)
LEMMA TransmittedWords ==
    ASSUME NEW queue \in Seq(Publication), queue # <<>>, NEW db,
           LastWords(queue, db)
    PROVE  LastWords(Tail(queue), db)
<1>1. /\ DOMAIN queue = 1..Len(queue) /\ Len(queue) \in Nat
      /\ DOMAIN Tail(queue) = 1..(Len(queue) - 1)
      /\ \A k \in DOMAIN Tail(queue) : Tail(queue)[k] = queue[k + 1]
  OBVIOUS
<1>2. SUFFICES ASSUME NEW k \in DOMAIN Tail(queue), IsLastWord(Tail(queue), k)
               PROVE  IsCurrent(db, Tail(queue)[k])
  BY DEF LastWords
<1>3. k + 1 \in DOMAIN queue
  BY <1>1
<1>4. IsLastWord(queue, k + 1)
  <2>1. SUFFICES ASSUME NEW l \in DOMAIN queue, l > k + 1
                 PROVE  \/ queue[l].topic # queue[k + 1].topic
                        \/ queue[l].slug # queue[k + 1].slug
    BY DEF IsLastWord
  <2>2. (l - 1) \in DOMAIN Tail(queue) /\ l - 1 > k /\ (l - 1) + 1 = l
    BY <1>1, <2>1
  <2> QED
    BY <1>1, <1>2, <2>2 DEF IsLastWord
<1> QED
  BY <1>1, <1>3, <1>4 DEF LastWords

(* The words the handlers publish.                                          *)
DiscoveryWords(rec) == IF HassEnabled THEN {Trigger(rec)} ELSE {}
KeyWords(rec)       == {Info(rec)} \cup DiscoveryWords(rec)
RecordWords(rec)    == {Info(rec), Mirror(rec)} \cup DiscoveryWords(rec)
ClearWords(slug)    == {Clear(topic, slug) : topic \in {"info", "enabled", "discovery"}}

(* The words of two queues, one behind the other.                           *)
LEMMA ConcatWords ==
    ASSUME NEW p \in Seq(Publication), NEW q \in Seq(Publication)
    PROVE  Words(p \o q) = Words(p) \cup Words(q)
<1> DEFINE both == p \o q
<1>1. /\ DOMAIN p = 1..Len(p) /\ DOMAIN q = 1..Len(q)
      /\ Len(p) \in Nat /\ Len(q) \in Nat
  OBVIOUS
<1>2. /\ DOMAIN both = 1..(Len(p) + Len(q))
      /\ \A k \in DOMAIN p : k \in DOMAIN both /\ both[k] = p[k]
      /\ \A m \in DOMAIN q : Len(p) + m \in DOMAIN both /\ both[Len(p) + m] = q[m]
  BY <1>1, ConcatProperties
<1>3. \A k \in DOMAIN both :
         k \in DOMAIN p \/ \E m \in DOMAIN q : k = Len(p) + m
  <2>1. SUFFICES ASSUME NEW k \in DOMAIN both, k \notin DOMAIN p
                 PROVE  (k - Len(p)) \in DOMAIN q /\ k = Len(p) + (k - Len(p))
    OBVIOUS
  <2> QED
    BY <1>1, <1>2, <2>1
<1> HIDE DEF both
<1>4. \A w \in Words(both) : w \in Words(p) \cup Words(q)
  BY <1>2, <1>3 DEF Words
<1>5. \A w \in Words(p) \cup Words(q) : w \in Words(both)
  BY <1>2 DEF Words
<1> QED
  BY <1>4, <1>5 DEF both

(* The words of what the handlers publish.                                  *)
LEMMA HandlerWords ==
    ASSUME NEW rec \in Record, NEW slug
    PROVE  /\ Words(Announce(rec)) = RecordWords(rec)
           /\ Words(<<Info(rec)>> \o Discovery(rec)) = KeyWords(rec)
           /\ Words(<<Mirror(rec)>>) = {Mirror(rec)}
           /\ Words(Clears(slug)) = ClearWords(slug)
<1>1. /\ <<Info(rec), Mirror(rec)>> \in Seq(Publication)
      /\ <<Info(rec)>> \in Seq(Publication)
      /\ Discovery(rec) \in Seq(Publication)
  BY PublicationLemma
<1>2. Words(Discovery(rec)) = DiscoveryWords(rec)
  BY DEF Words, Discovery, DiscoveryWords
<1>3. Words(Announce(rec)) = RecordWords(rec)
  <2>1. Words(<<Info(rec), Mirror(rec)>>) = {Info(rec), Mirror(rec)}
    BY DEF Words
  <2>2. Words(Announce(rec)) = Words(<<Info(rec), Mirror(rec)>>) \cup Words(Discovery(rec))
    BY <1>1, ConcatWords, Zenon DEF Announce
  <2> QED
    BY <1>2, <2>1, <2>2 DEF RecordWords
<1>4. Words(<<Info(rec)>> \o Discovery(rec)) = KeyWords(rec)
  <2>1. Words(<<Info(rec)>>) = {Info(rec)}
    BY DEF Words
  <2>2. Words(<<Info(rec)>> \o Discovery(rec)) = Words(<<Info(rec)>>) \cup Words(Discovery(rec))
    BY <1>1, ConcatWords, Zenon
  <2> QED
    BY <1>2, <2>1, <2>2 DEF KeyWords
<1>5. Words(<<Mirror(rec)>>) = {Mirror(rec)}
  BY DEF Words
<1>6. Words(Clears(slug)) = ClearWords(slug)
  BY DEF Words, Clears, ClearWords
<1> QED
  BY <1>3, <1>4, <1>5, <1>6

(* Every one of them says what the record holds, and is about its slug; a   *)
(* word about the record on a topic it has nothing to say of is no word.    *)
LEMMA RecordSays ==
    ASSUME NEW rec \in Record
    PROVE  /\ \A w \in RecordWords(rec) :
                 w.slug = rec.slug /\ Says(rec, w.topic, w.body)
           /\ Mirror(rec).slug = rec.slug /\ Mirror(rec).topic = "enabled"
           /\ Info(rec).slug = rec.slug /\ Info(rec).topic = "info"
           /\ Trigger(rec).slug = rec.slug /\ Trigger(rec).topic = "discovery"
           /\ Info(rec).body # None
<1>1. Info(rec).body \in InfoBody /\ Trigger(rec).body \in DiscoveryBody
  BY DEF Info, Trigger, InfoBody, DiscoveryBody, Record, Optional
<1>2. Info(rec).body # None /\ Trigger(rec).body # None
  BY <1>1, AbsenceAssumption
<1>3. Says(rec, "info", Info(rec).body) /\ Says(rec, "enabled", Mirror(rec).body)
  BY <1>2 DEF Says, Mirror
<1>4. HassEnabled => Says(rec, "discovery", Trigger(rec).body)
  BY <1>2 DEF Says, Trigger
<1>5. /\ Mirror(rec).slug = rec.slug /\ Mirror(rec).topic = "enabled"
      /\ Info(rec).slug = rec.slug /\ Info(rec).topic = "info"
      /\ Trigger(rec).slug = rec.slug /\ Trigger(rec).topic = "discovery"
  BY DEF Mirror, Info, Trigger
<1> QED
  BY <1>2, <1>3, <1>4, <1>5 DEF RecordWords, DiscoveryWords

(* Whatever the old record says of its slug, the new one says as well or    *)
(* takes back.                                                              *)
Replaces(old, rec, words) ==
    \A w \in Publication :
        w.slug = rec.slug /\ Says(old, w.topic, w.body)
        => Says(rec, w.topic, w.body) \/ Covers(words, w)

(* A changed record, announced.                                             *)
LEMMA UpdateWords ==
    ASSUME NEW db, UniqueSlugs(db), NEW i \in DOMAIN db,
           NEW rec \in Record, rec.slug = db[i].slug,
           NEW words \in SUBSET RecordWords(rec),
           Replaces(db[i], rec, words)
    PROVE  Follow(words, db, [db EXCEPT ![i] = rec])
<1> DEFINE new == [db EXCEPT ![i] = rec]
<1>0. IsUpdate(db, new, i) /\ new[i] = rec
  BY DEF IsUpdate
<1> HIDE DEF new
<1>1. /\ RecordsOf(db, rec.slug) = {db[i]}
      /\ RecordsOf(new, rec.slug) = {rec}
      /\ \A s : s # rec.slug => RecordsOf(new, s) = RecordsOf(db, s)
  <2>1. /\ RecordsOf(db, db[i].slug) = {db[i]}
        /\ RecordsOf(new, db[i].slug) = {new[i]}
        /\ \A s : s # db[i].slug => RecordsOf(new, s) = RecordsOf(db, s)
    BY <1>0, UpdateRecords
  <2> QED
    BY <1>0, <2>1
<1>2. ASSUME NEW w \in words PROVE IsCurrent(new, w)
  BY <1>1, <1>2, RecordSays, CurrentLemma
<1>3. ASSUME NEW w \in Publication, IsCurrent(db, w)
      PROVE  IsCurrent(new, w) \/ Covers(words, w)
  BY <1>1, <1>3, CurrentLemma DEF Replaces
<1> QED
  BY <1>2, <1>3 DEF Follow, new

(* A new record, announced: it takes back what was said of its slug.        *)
LEMMA InsertWords ==
    ASSUME NEW db \in Seq(Record), NEW id \in Identity, NEW slug \in Slugs,
           slug \notin SlugsOf(db)
    PROVE  Follow(RecordWords(NewRecord(id, slug)), db, Insert(db, id, slug))
<1> DEFINE rec == NewRecord(id, slug)
           new == Insert(db, id, slug)
<1>1. rec \in Record /\ rec.slug = slug
  BY NewRecordLemma
<1>2. /\ RecordsOf(db, slug) = {}
      /\ RecordsOf(new, slug) = {rec}
      /\ \A s : s # slug => RecordsOf(new, s) = RecordsOf(db, s)
  BY InsertRecords
<1> HIDE DEF rec, new
<1>3. ASSUME NEW w \in RecordWords(rec) PROVE IsCurrent(new, w)
  BY <1>1, <1>2, <1>3, RecordSays, CurrentLemma
<1>4. ASSUME NEW w \in Publication, IsCurrent(db, w)
      PROVE  IsCurrent(new, w) \/ Covers(RecordWords(rec), w)
  <2>1. CASE w.slug # slug
    BY <1>2, <1>4, <2>1, CurrentLemma
  <2>2. CASE w.slug = slug /\ (w.topic # "discovery" \/ HassEnabled)
    <3>1. w.topic \in {"info", "enabled", "discovery"}
      BY DEF Publication
    <3> QED
      BY <1>1, <2>2, <3>1, RecordSays DEF Covers, RecordWords, DiscoveryWords
  <2>3. CASE w.slug = slug /\ w.topic = "discovery" /\ ~HassEnabled
    <3>1. w.body = None
      BY <1>2, <1>4, <2>3, CurrentLemma
    <3>2. Says(rec, w.topic, w.body)
      BY <2>3, <3>1 DEF Says
    <3> QED
      BY <1>2, <2>3, <3>2, CurrentLemma
  <2> QED
    BY <2>1, <2>2, <2>3
<1> QED
  BY <1>3, <1>4 DEF Follow, rec, new

(* A removed record, its topics cleared.                                    *)
LEMMA RemoveWords ==
    ASSUME NEW db \in Seq(Record), UniqueSlugs(db), NEW i \in DOMAIN db
    PROVE  Follow(ClearWords(db[i].slug), db, WithoutIndex(db, i))
<1> DEFINE slug == db[i].slug
           new  == WithoutIndex(db, i)
<1>1. /\ RecordsOf(new, slug) = {}
      /\ \A s : s # slug => RecordsOf(new, s) = RecordsOf(db, s)
  BY RemoveRecords
<1> HIDE DEF slug, new
<1>2. ASSUME NEW w \in ClearWords(slug) PROVE IsCurrent(new, w)
  <2>1. w.slug = slug /\ w.body = None
    BY <1>2 DEF ClearWords, Clear
  <2> QED
    BY <1>1, <2>1, CurrentLemma
<1>3. ASSUME NEW w \in Publication, IsCurrent(db, w)
      PROVE  IsCurrent(new, w) \/ Covers(ClearWords(slug), w)
  <2>1. CASE w.slug # slug
    BY <1>1, <1>3, <2>1, CurrentLemma
  <2>2. CASE w.slug = slug
    <3>1. Clear(w.topic, slug) \in ClearWords(slug)
      BY DEF Publication, ClearWords
    <3> QED
      BY <2>2, <3>1 DEF Covers, Clear
  <2> QED
    BY <2>1, <2>2
<1> QED
  BY <1>2, <1>3 DEF Follow, slug, new

(* A record announced again.                                                *)
LEMMA RepeatedWords ==
    ASSUME NEW db \in Seq(Record), NEW i \in DOMAIN db, UniqueSlugs(db)
    PROVE  Follow(RecordWords(db[i]), db, db)
<1>1. db[i] \in Record
  BY ElementOfSeq
<1>2. RecordsOf(db, db[i].slug) = {db[i]}
  BY DEF UniqueSlugs, RecordsOf
<1>3. ASSUME NEW w \in RecordWords(db[i]) PROVE IsCurrent(db, w)
  BY <1>1, <1>2, <1>3, RecordSays, CurrentLemma
<1> QED
  BY <1>3 DEF Follow

(* What is current of a record before a key is seen and not after it is     *)
(* covered by the announcement of its keys.                                 *)
LEMMA ObserveWords ==
    ASSUME NEW old \in Record, NEW code \in Codes
    PROVE  Replaces(old, ObserveKey(old, code), KeyWords(ObserveKey(old, code)))
<1> DEFINE rec == ObserveKey(old, code)
<1>1. rec \in Record /\ rec.slug = old.slug /\ rec.enabled = old.enabled
  BY DEF Record, ObserveKey
<1> HIDE DEF rec
<1>2. SUFFICES ASSUME NEW w \in Publication, w.slug = old.slug,
                      Says(old, w.topic, w.body)
               PROVE  Says(rec, w.topic, w.body) \/ Covers(KeyWords(rec), w)
  BY <1>1 DEF rec, Replaces
<1>3. w.topic \in {"info", "enabled", "discovery"}
  BY DEF Publication
<1>4. CASE w.topic # "discovery" \/ ~HassEnabled
  BY <1>1, <1>2, <1>3, <1>4 DEF Says, Switch
<1>5. CASE w.topic = "discovery" /\ HassEnabled
  BY <1>1, <1>2, <1>5, RecordSays DEF Covers, KeyWords, DiscoveryWords
<1> QED
  BY <1>4, <1>5

(* The same of a switch and its mirror ...                                  *)
LEMMA SwitchWords ==
    ASSUME NEW old \in Record, NEW on \in BOOLEAN
    PROVE  Replaces(old, [old EXCEPT !.enabled = on],
                    {Mirror([old EXCEPT !.enabled = on])})
<1> DEFINE rec == [old EXCEPT !.enabled = on]
<1>1. rec \in Record /\ rec.slug = old.slug /\ rec.keys = old.keys
  BY DEF Record
<1> HIDE DEF rec
<1>2. SUFFICES ASSUME NEW w \in Publication, w.slug = old.slug,
                      Says(old, w.topic, w.body)
               PROVE  Says(rec, w.topic, w.body) \/ Covers({Mirror(rec)}, w)
  BY <1>1 DEF rec, Replaces
<1>3. w.topic \in {"info", "enabled", "discovery"}
  BY DEF Publication
<1>4. CASE w.topic # "enabled"
  BY <1>1, <1>2, <1>3, <1>4 DEF Says
<1>5. CASE w.topic = "enabled"
  BY <1>1, <1>2, <1>5, RecordSays DEF Covers
<1> QED
  BY <1>4, <1>5

(* ... and a backfill leaves nothing to say.                                *)
LEMMA BackfillWords ==
    ASSUME NEW old \in Record, NEW id \in Identity
    PROVE  Replaces(old, Backfill(old, id), {})
<1> DEFINE rec == Backfill(old, id)
<1>1. rec.enabled = old.enabled /\ rec.keys = old.keys
  BY BackfillLemma
<1> HIDE DEF rec
<1>2. SUFFICES ASSUME NEW w \in Publication, Says(old, w.topic, w.body)
               PROVE  Says(rec, w.topic, w.body)
  BY DEF rec, Replaces
<1>3. w.topic \in {"info", "enabled", "discovery"}
  BY DEF Publication
<1> QED
  BY <1>1, <1>2, <1>3 DEF Says, Switch


-----------------------------------------------------------------------------
(* What a step of the coordinator task does to the registry, and what it    *)
(* publishes of that.                                                       *)

Word(topic, s, body) == [topic |-> topic, slug |-> s, body |-> body]

(* The record of the slug is still to be announced.                         *)
Owed(s) == \E i \in DOMAIN devices : i > Len(devices) - todo /\ devices[i].slug = s

(* A new slug, and one that is owed nothing any more, has been announced.   *)
Introduces(words) ==
    \A s \in SlugsOf(devices') :
        /\ Owed(s)' => Owed(s)
        /\ s \notin SlugsOf(devices) \/ (Owed(s) /\ ~Owed(s)') =>
              /\ Covers(words, Word("info", s, None))
              /\ Covers(words, Word("enabled", s, None))
              /\ HassEnabled => Covers(words, Word("discovery", s, None))

(* An unknown slug is not spoken of, but to clear its topics.               *)
Forgets(msgs) ==
    \A s \in Slugs \ SlugsOf(devices') :
        \/ s \notin SlugsOf(devices) /\ \A w \in Words(msgs) : w.slug # s
        \/ msgs = Clears(s)

(* A command that is taken is obeyed, unless its device is unknown.         *)
Answers ==
    \/ incoming' = incoming
    \/ /\ TakeIncoming
       /\ Command.slug # None /\ Command.body # "junk" =>
             \/ IsCurrent(devices', Word("enabled", Command.slug, Command.body))
             \/ Command.body # None /\ Command.slug \notin SlugsOf(devices')

Reaction(msgs) ==
    /\ loaded /\ loaded'
    /\ outbox' = outbox \o msgs
    /\ Follow(Words(msgs), devices, devices')
    /\ Introduces(Words(msgs))
    /\ Forgets(msgs)
    /\ Answers

(* When all is announced no slug is owed an announcement.                   *)
LEMMA NothingOwed ==
    ASSUME NEW db \in Seq(Record), NEW n, n = 0
    PROVE  \A s : ~\E i \in DOMAIN db : i > Len(db) - n /\ db[i].slug = s
<1>1. DOMAIN db = 1..Len(db) /\ Len(db) \in Nat
  OBVIOUS
<1> QED
  BY <1>1

(* A handler that finds nothing to announce and publishes the words of one  *)
(* record, or nothing at all.                                               *)
LEMMA ReactionToKnown ==
    ASSUME TypeInv, NEW msgs, todo = 0, todo' = todo, devices' \in Seq(Record),
           loaded, loaded', outbox' = outbox \o msgs,
           SlugsOf(devices') = SlugsOf(devices),
           Follow(Words(msgs), devices, devices'),
           \A w \in Words(msgs) : w.slug \in SlugsOf(devices),
           Answers
    PROVE  Reaction(msgs)
<1>1. \A s : ~Owed(s) /\ ~Owed(s)'
  BY NothingOwed DEF Owed, TypeInv, DbInv, DbTypeOK
<1>2. Introduces(Words(msgs))
  BY <1>1 DEF Introduces
<1>3. Forgets(msgs)
  BY DEF Forgets
<1> QED
  BY <1>2, <1>3 DEF Reaction

(* A handler that changes nothing and publishes nothing.                    *)
LEMMA SilentReaction ==
    ASSUME TypeInv, todo = 0, todo' = todo, devices' = devices,
           loaded, loaded', outbox' = outbox, Answers
    PROVE  Reaction(<<>>)
<1>1. Words(<<>>) = {}
  BY DEF Words
<1>2. outbox' = outbox \o <<>> /\ devices' \in Seq(Record)
  BY DEF TypeInv, ChannelTypes, DbInv, DbTypeOK
<1>3. Follow(Words(<<>>), devices, devices')
  BY <1>1 DEF Follow
<1> QED
  BY <1>1, <1>2, <1>3, ReactionToKnown

(* The switch a record has is what the registry says on its enabled topic.  *)
LEMMA SwitchIsCurrent ==
    ASSUME NEW db \in Seq(Record), UniqueSlugs(db), NEW i \in DOMAIN db
    PROVE  \A body :
              IsCurrent(db, Word("enabled", db[i].slug, body)) <=> body = Switch(db[i])
<1>1. RecordsOf(db, db[i].slug) = {db[i]}
  BY DEF UniqueSlugs, RecordsOf
<1> QED
  BY <1>1, CurrentLemma DEF Word, Says

(* Every handler reacts: what it queues follows what it does to the         *)
(* registry.                                                                *)
LEMMA HandleReaction ==
    ASSUME TypeInv, Handle
    PROVE  \E msgs \in Seq(Publication) : Reaction(msgs)
<1>0. /\ ChannelTypes /\ SlotTypes /\ DbInv
      /\ devices \in Seq(Record) /\ UniqueSlugs(devices)
      /\ outbox \in Seq(Publication) /\ todo \in 0..Len(devices)
      /\ \A i \in DOMAIN devices : devices[i] \in Record
      /\ \A i \in DOMAIN devices : devices[i].slug \in SlugsOf(devices)
  BY ElementOfSeq
     DEF TypeInv, DbInv, DbTypeOK, KeptApart, ChannelTypes, SlugsOf
<1>1. TypeInv' /\ devices' \in Seq(Record) /\ UniqueSlugs(devices')
  <2>1. TypeInv'
    BY TypeStep DEF Next
  <2> QED
    BY <2>1 DEF TypeInv, DbInv, DbTypeOK, KeptApart, UniqueSlugs
<1>2. <<>> \in Seq(Publication)
  OBVIOUS
<1>3. CASE Republish
  <2> DEFINE i == Len(devices) + 1 - todo
  <2>1. i \in DOMAIN devices
    BY <1>0, <1>3 DEF Republish
  <2>2. /\ loaded /\ loaded' /\ devices' = devices /\ incoming' = incoming
        /\ outbox' = outbox \o Announce(devices[i])
    BY <1>3 DEF Republish, dbVars, Publish
  <2>3. Announce(devices[i]) \in Seq(Publication)
    BY <1>0, <2>1, PublicationLemma
  <2>4. Words(Announce(devices[i])) = RecordWords(devices[i])
    BY <1>0, <2>1, HandlerWords
  <2>5. ASSUME NEW s, Owed(s)' PROVE Owed(s)
    BY <1>0, <1>3, <2>2, <2>5 DEF Owed, Republish
  <2>6. ASSUME NEW s, Owed(s), ~Owed(s)' PROVE s = devices[i].slug
    <3>1. PICK j \in DOMAIN devices : j > Len(devices) - todo /\ devices[j].slug = s
      BY <2>6 DEF Owed
    <3>2. ~(j > Len(devices) - (todo - 1))
      BY <1>3, <2>2, <2>6, <3>1 DEF Owed, Republish
    <3>3. j = i
      BY <1>0, <3>1, <3>2
    <3> QED
      BY <3>1, <3>3
  <2> HIDE DEF i
  <2>7. Follow(Words(Announce(devices[i])), devices, devices')
    BY <1>0, <2>1, <2>2, <2>4, RepeatedWords
  <2>8. Introduces(Words(Announce(devices[i])))
    <3>1. /\ Covers(RecordWords(devices[i]), Word("info", devices[i].slug, None))
          /\ Covers(RecordWords(devices[i]), Word("enabled", devices[i].slug, None))
          /\ HassEnabled => Covers(RecordWords(devices[i]),
                                   Word("discovery", devices[i].slug, None))
      BY <1>0, <2>1, RecordSays DEF Covers, Word, RecordWords, DiscoveryWords
    <3> QED
      BY <2>2, <2>4, <2>5, <2>6, <3>1 DEF Introduces
  <2>9. Forgets(Announce(devices[i]))
    BY <1>0, <2>1, <2>2, <2>4, RecordSays DEF Forgets
  <2> QED
    BY <2>2, <2>3, <2>7, <2>8, <2>9 DEF Reaction, Answers
<1>4. CASE OnConnectedKnown
  <2>1. PICK i \in DOMAIN devices : MatchKnown(Head(rx).id, i)
    BY <1>4 DEF OnConnectedKnown
  <2>2. Head(rx).id \in Identities /\ Head(rx).id \in Identity /\ todo = 0
    BY <1>0, <1>4, TakeLemma, MessageLemma, IdentitiesAssumption
       DEF OnConnectedKnown
  <2> DEFINE rec == Backfill(devices[i], Head(rx).id)
  <2>3. rec \in Record /\ rec.slug = devices[i].slug
    BY <1>0, <2>2, BackfillLemma
  <2>4. Replaces(devices[i], rec, {})
    BY <1>0, <2>2, BackfillWords
  <2>5. /\ devices' = [devices EXCEPT ![i] = rec] /\ loaded /\ loaded'
        /\ outbox' = outbox /\ todo' = todo /\ incoming' = incoming
    BY <1>4, <2>1 DEF OnConnectedKnown, MatchKnown
  <2> HIDE DEF rec
  <2>6. Follow({}, devices, devices') /\ Words(<<>>) = {}
    <3>1. Words(<<>>) = {}
      BY DEF Words
    <3> QED
      BY <1>0, <2>3, <2>4, <2>5, <3>1, UpdateWords
  <2>7. SlugsOf(devices') = SlugsOf(devices)
    BY <1>0, <2>1, <2>2, MatchKnownSwitches DEF SameSwitches
  <2>8. outbox' = outbox \o <<>>
    BY <1>0, <2>5
  <2>9. Reaction(<<>>)
    BY <1>1, <2>2, <2>5, <2>6, <2>7, <2>8, ReactionToKnown DEF Answers
  <2> QED
    BY <1>2, <2>9
<1>5. CASE OnConnectedNew
  <2>1. PICK slug \in Slugs :
           /\ InsertNew(Head(rx).id, slug)
           /\ Publish(Announce(NewRecord(Head(rx).id, slug)))
    BY <1>5 DEF OnConnectedNew
  <2> DEFINE rec == NewRecord(Head(rx).id, slug)
  <2>2. Head(rx).id \in Identities /\ Head(rx).id \in Identity /\ todo = 0
    BY <1>0, <1>5, TakeLemma, MessageLemma, IdentitiesAssumption
       DEF OnConnectedNew
  <2>3. /\ loaded /\ loaded' /\ todo' = todo /\ incoming' = incoming
        /\ devices' = Insert(devices, Head(rx).id, slug)
        /\ outbox' = outbox \o Announce(rec)
    BY <1>5, <2>1 DEF OnConnectedNew, InsertNew, Publish
  <2>4. rec \in Record /\ rec.slug = slug
    BY <2>2, NewRecordLemma
  <2>5. /\ slug \notin SlugsOf(devices)
        /\ SlugsOf(devices') = SlugsOf(devices) \cup {slug}
    BY <1>0, <2>1, <2>2, InsertNewSwitches
  <2> HIDE DEF rec
  <2>6. /\ Announce(rec) \in Seq(Publication)
        /\ Words(Announce(rec)) = RecordWords(rec)
    BY <2>4, PublicationLemma, HandlerWords
  <2>7. Follow(Words(Announce(rec)), devices, devices')
    BY <1>0, <2>2, <2>3, <2>5, <2>6, InsertWords DEF rec
  <2>8. Introduces(Words(Announce(rec)))
    <3>1. \A s : ~Owed(s) /\ ~Owed(s)'
      BY <1>0, <1>1, <2>2, <2>3, NothingOwed DEF Owed
    <3>2. /\ Covers(RecordWords(rec), Word("info", slug, None))
          /\ Covers(RecordWords(rec), Word("enabled", slug, None))
          /\ HassEnabled => Covers(RecordWords(rec), Word("discovery", slug, None))
      BY <2>4, RecordSays DEF Covers, Word, RecordWords, DiscoveryWords
    <3> QED
      BY <2>5, <2>6, <3>1, <3>2 DEF Introduces
  <2>9. Forgets(Announce(rec))
    BY <2>4, <2>5, <2>6, RecordSays DEF Forgets
  <2> QED
    BY <2>3, <2>6, <2>7, <2>8, <2>9 DEF Reaction, Answers
<1>6. CASE OnKeyNew
  <2>1. Head(rx).slug \in Slugs /\ Head(rx).code \in Codes /\ todo = 0
    BY <1>0, <1>6, TakeLemma, MessageLemma DEF OnKeyNew
  <2>2. PICK i \in DOMAIN devices :
           LET rec == ObserveKey(devices[i], Head(rx).code) IN
           /\ RecordKey(Head(rx).slug, Head(rx).code, i)
           /\ Publish(<<Info(rec)>> \o Discovery(rec))
    BY <1>6 DEF OnKeyNew
  <2> DEFINE rec  == ObserveKey(devices[i], Head(rx).code)
             msgs == <<Info(rec)>> \o Discovery(rec)
  <2>3. rec \in Record /\ rec.slug = devices[i].slug
    BY <1>0, <2>1 DEF Record, ObserveKey
  <2>4. /\ outbox' = outbox \o msgs /\ devices' = [devices EXCEPT ![i] = rec]
        /\ loaded /\ loaded' /\ todo' = todo /\ incoming' = incoming
    BY <1>6, <2>2 DEF RecordKey, OnKeyNew, Publish
  <2>5. Replaces(devices[i], rec, KeyWords(rec))
    BY <1>0, <2>1, <2>3, ObserveWords
  <2>6. SlugsOf(devices') = SlugsOf(devices)
    BY <1>0, <2>1, <2>2, RecordKeySwitches DEF SameSwitches
  <2> HIDE DEF rec
  <2>7. Words(msgs) = KeyWords(rec) /\ msgs \in Seq(Publication)
    BY <2>3, HandlerWords, PublicationLemma
  <2> HIDE DEF msgs
  <2>8. KeyWords(rec) \in SUBSET RecordWords(rec)
    BY DEF KeyWords, RecordWords
  <2>9. Follow(Words(msgs), devices, devices')
    BY <1>0, <2>3, <2>4, <2>5, <2>7, <2>8, UpdateWords
  <2>10. \A w \in Words(msgs) : w.slug \in SlugsOf(devices)
    BY <1>0, <2>3, <2>7, <2>8, RecordSays
  <2>11. Reaction(msgs)
    BY <1>1, <2>1, <2>4, <2>6, <2>9, <2>10, ReactionToKnown DEF Answers
  <2> QED
    BY <2>7, <2>11
<1>7. CASE OnEnable
  <2> DEFINE on == Command.body = "on"
  <2>1. PICK slug \in Slugs : slug = Command.slug
    BY <1>0, <1>7, TakeIncomingLemma DEF OnEnable, Optional
  <2>2. PICK i \in DOMAIN devices :
           /\ SetEnabled(slug, on, i)
           /\ Publish(<<Mirror([devices[i] EXCEPT !.enabled = on])>>)
    BY <1>7, <2>1 DEF OnEnable
  <2>3. /\ todo = 0 /\ todo' = todo /\ TakeIncoming
        /\ Command.body \in {"on", "off"}
    BY <1>0, <1>7, TakeIncomingLemma DEF OnEnable
  <2>4. Command.body = IF on THEN "on" ELSE "off"
    BY <2>3
  <2>5. on \in BOOLEAN
    OBVIOUS
  <2> HIDE DEF on
  <2> DEFINE rec == [devices[i] EXCEPT !.enabled = on]
  <2>6. rec \in Record /\ rec.slug = devices[i].slug /\ rec.enabled = on
    BY <1>0, <2>5 DEF Record
  <2>7. /\ outbox' = outbox \o <<Mirror(rec)>>
        /\ devices' = [devices EXCEPT ![i] = rec] /\ loaded /\ loaded'
        /\ devices[i].slug = slug
    BY <2>2 DEF SetEnabled, IsAt, Publish
  <2>8. Replaces(devices[i], rec, {Mirror(rec)})
    BY <1>0, <2>5, <2>6, SwitchWords
  <2>9. SlugsOf(devices') = SlugsOf(devices)
    BY <1>0, <2>2, <2>5, SetEnabledSwitches
  <2> HIDE DEF rec
  <2>10. Words(<<Mirror(rec)>>) = {Mirror(rec)} /\ <<Mirror(rec)>> \in Seq(Publication)
    BY <2>6, HandlerWords, PublicationLemma
  <2>11. Follow({Mirror(rec)}, devices, devices')
    <3>1. {Mirror(rec)} \in SUBSET RecordWords(rec)
      BY DEF RecordWords
    <3> QED
      BY <1>0, <2>6, <2>7, <2>8, <3>1, UpdateWords
  <2>12. \A w \in Words(<<Mirror(rec)>>) : w.slug \in SlugsOf(devices)
    BY <1>0, <2>6, <2>10, RecordSays
  <2>13. IsCurrent(devices', Word("enabled", slug, Command.body))
    <3>1. i \in DOMAIN devices' /\ devices'[i] = rec
      BY <1>0, <2>7
    <3>2. Switch(rec) = Command.body
      BY <2>4, <2>6 DEF Switch
    <3> QED
      BY <1>1, <2>6, <2>7, <3>1, <3>2, SwitchIsCurrent
  <2>14. Answers
    BY <2>1, <2>3, <2>13 DEF Answers
  <2>15. Reaction(<<Mirror(rec)>>)
    BY <1>1, <2>3, <2>7, <2>9, <2>10, <2>11, <2>12, <2>14, ReactionToKnown
  <2> QED
    BY <2>10, <2>15
<1>8. CASE OnRemove
  <2>1. PICK slug \in Slugs : slug = Command.slug
    BY <1>0, <1>8, TakeIncomingLemma DEF OnRemove, Optional
  <2>2. PICK i \in DOMAIN devices : Remove(slug, i)
    BY <1>8, <2>1 DEF OnRemove
  <2>3. /\ devices[i].slug = slug /\ loaded /\ loaded'
        /\ devices' = WithoutIndex(devices, i)
    BY <2>2 DEF Remove, IsAt
  <2>4. /\ outbox' = outbox \o Clears(slug)
        /\ todo = 0 /\ todo' = todo /\ TakeIncoming /\ Command.body = None
    BY <1>0, <1>8, <2>1, TakeIncomingLemma DEF OnRemove, Publish
  <2>5. Clears(slug) \in Seq(Publication)
    BY <2>1, ClearsLemma
  <2>6. Words(Clears(slug)) = ClearWords(slug)
    BY <1>0, <2>2, HandlerWords
  <2>7. Follow(Words(Clears(slug)), devices, devices')
    BY <1>0, <2>3, <2>6, RemoveWords
  <2>8. SlugsOf(devices') = SlugsOf(devices) \ {slug}
    BY <1>0, <2>2, RemoveSwitches
  <2>9. Introduces(Words(Clears(slug)))
    <3>1. \A s : ~Owed(s) /\ ~Owed(s)'
      BY <1>0, <1>1, <2>4, NothingOwed DEF Owed
    <3> QED
      BY <2>8, <3>1 DEF Introduces
  <2>10. Forgets(Clears(slug))
    BY <2>6, <2>8 DEF Forgets, ClearWords, Clear
  <2>11. Answers
    <3>1. IsCurrent(devices', Word("enabled", slug, None))
      BY <2>8 DEF IsCurrent, Word
    <3> QED
      BY <2>1, <2>4, <3>1 DEF Answers
  <2>12. Reaction(Clears(slug))
    BY <2>3, <2>4, <2>7, <2>9, <2>10, <2>11 DEF Reaction
  <2> QED
    BY <2>5, <2>12
<1>9. CASE OnDisconnected \/ OnKeyIgnored
  <2>1. /\ UNCHANGED <<dbVars, todo, incoming, outbox>>
        /\ todo = 0 /\ loaded
    BY <1>0, <1>9, TakeLemma DEF OnDisconnected, OnKeyIgnored
  <2>2. Reaction(<<>>)
    BY <2>1, SilentReaction DEF Answers, dbVars
  <2> QED
    BY <1>2, <2>2
<1>10. CASE OnIgnored
  <2>1. /\ UNCHANGED <<dbVars, todo, outbox>>
        /\ todo = 0 /\ loaded /\ TakeIncoming
        /\ Command \in IncomingPublish
    BY <1>0, <1>10, TakeIncomingLemma, HeadTailProperties
       DEF OnIgnored, TakeIncoming, ChannelTypes, Command
  <2>2. ASSUME Command.slug # None, Command.body # "junk",
               Command.slug \in SlugsOf(devices)
        PROVE  IsCurrent(devices, Word("enabled", Command.slug, Command.body))
    <3>1. PICK i \in DOMAIN devices : devices[i].slug = Command.slug
      BY <2>2 DEF SlugsOf
    <3>2. EnabledIn(devices, Command.slug) <=> devices[i].enabled
      BY <1>0, <3>1 DEF EnabledIn, UniqueSlugs
    <3>3. Command.body = Switch(devices[i])
      BY <1>10, <2>2, <3>2 DEF OnIgnored, Switch
    <3> QED
      BY <1>0, <3>1, <3>3, SwitchIsCurrent
  <2>3. ASSUME Command.slug # None, Command.body = None,
               Command.slug \notin SlugsOf(devices)
        PROVE  IsCurrent(devices, Word("enabled", Command.slug, Command.body))
    BY <2>3 DEF IsCurrent, Word
  <2>4. Answers
    BY <2>1, <2>2, <2>3 DEF Answers, dbVars
  <2>5. Reaction(<<>>)
    BY <2>1, <2>4, SilentReaction DEF dbVars
  <2> QED
    BY <1>2, <2>5
<1> QED
  BY <1>3, <1>4, <1>5, <1>6, <1>7, <1>8, <1>9, <1>10 DEF Handle

-----------------------------------------------------------------------------
(* The last word is current.                                                *)

(* Inductive with the types and an empty queue while no process runs: a     *)
(* start changes the registry under the queue.                              *)
WordInv ==
    /\ TypeInv
    /\ ~loaded => outbox = <<>>
    /\ LastWordIsCurrent

(* The property, before and after a step, in terms of the queue.            *)
LEMMA LastWordsOfOutbox ==
    /\ LastWordIsCurrent <=> LastWords(outbox, devices)
    /\ LastWordIsCurrent' <=> LastWords(outbox', devices')
  BY Zenon DEF LastWordIsCurrent, LastWords, IsLastWord

(* The handlers keep the last words current by their reactions; taking the  *)
(* oldest request from the queue and dying cannot disturb them.             *)
LEMMA WordStep == WordInv /\ [Next]_vars => WordInv'
<1> SUFFICES ASSUME WordInv, [Next]_vars
             PROVE  (~loaded => outbox = <<>>)' /\ LastWordIsCurrent'
  BY TypeStep DEF WordInv
<1>0. /\ TypeInv /\ LastWords(outbox, devices)
      /\ outbox \in Seq(Publication)
      /\ ~loaded => outbox = <<>>
  BY LastWordsOfOutbox DEF WordInv, TypeInv, ChannelTypes
<1>1. ASSUME UNCHANGED <<devices, loaded, outbox>>
      PROVE  (~loaded => outbox = <<>>)' /\ LastWordIsCurrent'
  BY <1>0, <1>1, LastWordsOfOutbox
<1>2. CASE Handle
  <2>1. PICK msgs \in Seq(Publication) : Reaction(msgs)
    BY <1>0, <1>2, HandleReaction
  <2>2. LastWords(outbox \o msgs, devices')
    BY <1>0, <2>1, PublishedWords DEF Reaction
  <2> QED
    BY <2>1, <2>2, LastWordsOfOutbox DEF Reaction
<1>3. CASE Transmit
  <2>1. outbox # <<>> /\ outbox' = Tail(outbox) /\ UNCHANGED <<devices, loaded>>
    BY <1>3 DEF Transmit, dbVars
  <2>2. LastWords(Tail(outbox), devices)
    BY <1>0, <2>1, TransmittedWords
  <2> QED
    BY <1>0, <2>1, <2>2, LastWordsOfOutbox
<1>4. CASE Die
  BY <1>4 DEF Die, LastWordIsCurrent
<1>5. ASSUME NEW replay \in Replays, Start(replay)
      PROVE  (~loaded => outbox = <<>>)' /\ LastWordIsCurrent'
  <2>1. outbox' = <<>>
    BY <1>0, <1>5 DEF Start, Load
  <2> QED
    BY <2>1 DEF LastWordIsCurrent
<1>6. CASE UNCHANGED vars
  BY <1>1, <1>6 DEF vars
<1>7. ASSUME NEW id \in Identities, NEW path \in Paths, Sight(id, path)
      PROVE  (~loaded => outbox = <<>>)' /\ LastWordIsCurrent'
  BY <1>1, <1>7 DEF Sight, dbVars
<1>8. ASSUME NEW t \in Tasks, NEW code \in Codes, TaskKey(t, code)
      PROVE  (~loaded => outbox = <<>>)' /\ LastWordIsCurrent'
  BY <1>1, <1>8 DEF TaskKey, dbVars
<1>9. ASSUME NEW t \in Tasks, TaskFails(t) \/ TaskStops(t)
      PROVE  (~loaded => outbox = <<>>)' /\ LastWordIsCurrent'
  BY <1>1, <1>9 DEF TaskFails, TaskStops, dbVars, channelVars
<1>10. ASSUME NEW msg \in IncomingPublish, Receive(msg)
       PROVE  (~loaded => outbox = <<>>)' /\ LastWordIsCurrent'
  BY <1>1, <1>10 DEF Receive, dbVars
<1> QED
  BY <1>2, <1>3, <1>4, <1>5, <1>6, <1>7, <1>8, <1>9, <1>10 DEF Next

(* What the coordinator queued last on a retained topic is what the         *)
(* registry holds, whichever handlers ran since, and nothing but clears for *)
(* a device that was removed.                                               *)
THEOREM LastWordsAreCurrent == Spec => []LastWordIsCurrent
<1>1. Init => WordInv
  <2>1. Init => LastWordIsCurrent /\ outbox = <<>>
    BY DEF Init, LastWordIsCurrent
  <2> QED
    BY <2>1, TypeInitially DEF WordInv
<1>2. WordInv => LastWordIsCurrent
  BY DEF WordInv
<1> QED
  BY <1>1, <1>2, WordStep, PTL DEF Spec

-----------------------------------------------------------------------------
(* Which switches a handler changes, and which mirrors it publishes.        *)

Mirrors(queue) == {w \in Words(queue) : w.topic = "enabled"}

SameSwitch(s) ==
    /\ s \in SlugsOf(devices') <=> s \in SlugsOf(devices)
    /\ EnabledIn(devices', s) <=> EnabledIn(devices, s)

(* All mirrors that are queued are about slugs of the set.                  *)
MirrorsOnly(slugs) ==
    \A w \in Mirrors(outbox') : w \in Mirrors(outbox) \/ w.slug \in slugs

(* An announcement at the start, a sighting, a disconnect or a key, a       *)
(* message of the broker: only the last changes the switch of a known       *)
(* device, the one it names; a new device is off.                           *)
Announces == todo > 0 /\ todo' \in 0..todo /\ UNCHANGED <<dbVars, rx, incoming>>

Introducing ==
    /\ Take("connected") /\ UNCHANGED <<todo, incoming>>
    /\ SlugsOf(devices) \subseteq SlugsOf(devices')
    /\ \A s : EnabledIn(devices', s) <=> EnabledIn(devices, s)
    /\ MirrorsOnly(SlugsOf(devices') \ SlugsOf(devices))

Observes ==
    /\ Take("disconnected") \/ Take("key")
    /\ UNCHANGED <<todo, incoming>>
    /\ \A s : SameSwitch(s)
    /\ Mirrors(outbox') \subseteq Mirrors(outbox)

Obeys ==
    /\ TakeIncoming /\ UNCHANGED <<todo, rx>>
    /\ \A s : s = Command.slug \/ SameSwitch(s)
    /\ MirrorsOnly({Command.slug})
    /\ \/ IsCurrent(devices, Word("enabled", Command.slug, Command.body))
       \/ Command.slug \notin SlugsOf(devices)
       => UNCHANGED <<dbVars, outbox>>

(* What is current of an enabled topic is the switch.                       *)
LEMMA EnabledIsCurrent ==
    ASSUME NEW db \in Seq(Record), UniqueSlugs(db), NEW s, NEW body
    PROVE  IsCurrent(db, Word("enabled", s, body)) <=>
              IF s \in SlugsOf(db)
              THEN body = IF EnabledIn(db, s) THEN "on" ELSE "off"
              ELSE body = None
<1>1. CASE s \in SlugsOf(db)
  <2>1. PICK i \in DOMAIN db : db[i].slug = s
    BY <1>1 DEF SlugsOf
  <2>2. EnabledIn(db, s) <=> db[i].enabled
    BY <2>1 DEF EnabledIn, UniqueSlugs
  <2>3. IsCurrent(db, Word("enabled", s, body)) <=> body = Switch(db[i])
    BY <2>1, SwitchIsCurrent
  <2> QED
    BY <1>1, <2>2, <2>3 DEF Switch
<1>2. CASE s \notin SlugsOf(db)
  BY <1>2 DEF IsCurrent, Word
<1> QED
  BY <1>1, <1>2

(* What a handler queues about one slug adds mirrors of that slug only.     *)
LEMMA QueuedMirrors ==
    ASSUME outbox \in Seq(Publication), NEW msgs \in Seq(Publication), NEW slug,
           \A w \in Words(msgs) : w.slug = slug, outbox' = outbox \o msgs
    PROVE  MirrorsOnly({slug})
<1>1. Words(outbox') = Words(outbox) \cup Words(msgs)
  BY ConcatWords
<1> QED
  BY <1>1 DEF MirrorsOnly, Mirrors

(* So the announcement of a record, and its mirror.                         *)
LEMMA AnnouncedMirrors ==
    ASSUME outbox \in Seq(Publication), NEW rec \in Record,
           outbox' = outbox \o Announce(rec)
    PROVE  MirrorsOnly({rec.slug})
<1>1. /\ Announce(rec) \in Seq(Publication)
      /\ Words(Announce(rec)) = RecordWords(rec)
  BY PublicationLemma, HandlerWords
<1>2. \A w \in RecordWords(rec) : w.slug = rec.slug
  BY DEF RecordWords, DiscoveryWords, Info, Mirror, Trigger
<1>3. \A w \in Words(Announce(rec)) : w.slug = rec.slug
  BY <1>1, <1>2
<1> QED
  BY <1>1, <1>3, QueuedMirrors

LEMMA SwitchedMirrors ==
    ASSUME outbox \in Seq(Publication), devices \in Seq(Record), OnEnable
    PROVE  MirrorsOnly({Command.slug})
<1> DEFINE on == Command.body = "on"
<1>1. PICK i \in DOMAIN devices :
         /\ SetEnabled(Command.slug, on, i)
         /\ Publish(<<Mirror([devices[i] EXCEPT !.enabled = on])>>)
  BY DEF OnEnable
<1> DEFINE rec == [devices[i] EXCEPT !.enabled = on]
<1>2. devices[i] \in Record /\ devices[i].slug = Command.slug
  BY <1>1, ElementOfSeq DEF SetEnabled, IsAt
<1>3. rec \in Record /\ rec.slug = Command.slug
  BY <1>2 DEF Record
<1>4. outbox' = outbox \o <<Mirror(rec)>>
  BY <1>1 DEF Publish
<1> HIDE DEF rec
<1>5. /\ <<Mirror(rec)>> \in Seq(Publication)
      /\ Words(<<Mirror(rec)>>) = {Mirror(rec)}
  BY <1>3, PublicationLemma DEF Words
<1>6. Mirror(rec).slug = Command.slug
  BY <1>3 DEF Mirror
<1> QED
  BY <1>4, <1>5, <1>6, QueuedMirrors

(* Every handler is one of the four.                                        *)
LEMMA HandleSwitches ==
    ASSUME TypeInv, Handle
    PROVE  Announces \/ Introducing \/ Observes \/ Obeys
<1>0. /\ ChannelTypes /\ SlotTypes /\ DbInv
      /\ devices \in Seq(Record) /\ UniqueSlugs(devices)
      /\ outbox \in Seq(Publication) /\ todo \in 0..Len(devices)
      /\ \A i \in DOMAIN devices : devices[i] \in Record
      /\ \A i \in DOMAIN devices : devices[i].slug \in SlugsOf(devices)
  BY ElementOfSeq
     DEF TypeInv, DbInv, DbTypeOK, KeptApart, ChannelTypes, SlugsOf
<1>1. CASE Republish
  <2>1. todo' \in 0..todo
    BY <1>0, <1>1 DEF Republish
  <2> QED
    BY <1>1, <2>1 DEF Republish, Announces
<1>2. CASE OnConnectedKnown
  <2>1. PICK i \in DOMAIN devices : MatchKnown(Head(rx).id, i)
    BY <1>2 DEF OnConnectedKnown
  <2>2. Head(rx).id \in Identities
    BY <1>0, <1>2, TakeLemma, MessageLemma DEF OnConnectedKnown
  <2>3. SameSwitches(devices, devices')
    BY <1>0, <2>1, <2>2, MatchKnownSwitches
  <2> QED
    BY <1>2, <2>3 DEF OnConnectedKnown, Introducing, SameSwitches, MirrorsOnly
<1>3. CASE OnConnectedNew
  <2>1. PICK slug \in Slugs :
           /\ InsertNew(Head(rx).id, slug)
           /\ Publish(Announce(NewRecord(Head(rx).id, slug)))
    BY <1>3 DEF OnConnectedNew
  <2>2. Head(rx).id \in Identities
    BY <1>0, <1>3, TakeLemma, MessageLemma DEF OnConnectedNew
  <2>3. /\ slug \notin SlugsOf(devices)
        /\ SlugsOf(devices') = SlugsOf(devices) \cup {slug}
        /\ \A s : EnabledIn(devices', s) <=> EnabledIn(devices, s)
    BY <1>0, <2>1, <2>2, InsertNewSwitches
  <2> DEFINE rec == NewRecord(Head(rx).id, slug)
  <2>4. rec \in Record /\ rec.slug = slug
    BY <2>2, IdentitiesAssumption, NewRecordLemma
  <2>5. outbox' = outbox \o Announce(rec)
    BY <2>1 DEF Publish
  <2> HIDE DEF rec
  <2>6. MirrorsOnly({slug})
    BY <1>0, <2>4, <2>5, AnnouncedMirrors
  <2> QED
    BY <1>3, <2>3, <2>6 DEF OnConnectedNew, Introducing, MirrorsOnly
<1>4. CASE OnDisconnected \/ OnKeyIgnored
  BY <1>4 DEF OnDisconnected, OnKeyIgnored, Observes, SameSwitch, dbVars
<1>5. CASE OnKeyNew
  <2>1. Head(rx).slug \in Slugs /\ Head(rx).code \in Codes
    BY <1>0, <1>5, TakeLemma, MessageLemma DEF OnKeyNew
  <2>2. PICK i \in DOMAIN devices :
           LET rec == ObserveKey(devices[i], Head(rx).code) IN
           /\ RecordKey(Head(rx).slug, Head(rx).code, i)
           /\ Publish(<<Info(rec)>> \o Discovery(rec))
    BY <1>5 DEF OnKeyNew
  <2> DEFINE rec  == ObserveKey(devices[i], Head(rx).code)
             msgs == <<Info(rec)>> \o Discovery(rec)
  <2>3. SameSwitches(devices, devices')
    BY <1>0, <2>1, <2>2, RecordKeySwitches
  <2>4. rec \in Record
    BY <1>0, <2>1 DEF Record, ObserveKey
  <2>5. outbox' = outbox \o msgs
    BY <2>2 DEF Publish
  <2> HIDE DEF rec
  <2>6. msgs \in Seq(Publication) /\ Words(msgs) = KeyWords(rec)
    BY <2>4, PublicationLemma, HandlerWords
  <2> HIDE DEF msgs
  <2>7. Words(outbox') = Words(outbox) \cup KeyWords(rec)
    BY <1>0, <2>5, <2>6, ConcatWords
  <2>8. \A w \in KeyWords(rec) : w.topic # "enabled"
    BY DEF KeyWords, DiscoveryWords, Info, Trigger
  <2>9. Mirrors(outbox') \subseteq Mirrors(outbox)
    BY <2>7, <2>8 DEF Mirrors
  <2> QED
    BY <1>5, <2>3, <2>9 DEF OnKeyNew, Observes, SameSwitches, SameSwitch
<1>6. CASE OnEnable
  <2> DEFINE on == Command.body = "on"
  <2>1. PICK slug \in Slugs : slug = Command.slug
    BY <1>0, <1>6, TakeIncomingLemma DEF OnEnable, Optional
  <2>2. PICK i \in DOMAIN devices : SetEnabled(slug, on, i)
    BY <1>6, <2>1 DEF OnEnable
  <2>3. on \in BOOLEAN /\ (Command.body = IF on THEN "on" ELSE "off")
    BY <1>6 DEF OnEnable
  <2> HIDE DEF on
  <2>4. /\ slug \in SlugsOf(devices)
        /\ SlugsOf(devices') = SlugsOf(devices)
        /\ EnabledIn(devices, slug) <=> ~on
        /\ \A s : s # slug => (EnabledIn(devices', s) <=> EnabledIn(devices, s))
    BY <1>0, <2>2, <2>3, SetEnabledSwitches
  <2>5. ~IsCurrent(devices, Word("enabled", slug, Command.body))
    BY <1>0, <2>3, <2>4, EnabledIsCurrent
  <2>6. MirrorsOnly({slug})
    BY <1>0, <1>6, <2>1, SwitchedMirrors
  <2> QED
    BY <1>6, <2>1, <2>4, <2>5, <2>6 DEF OnEnable, Obeys, SameSwitch
<1>7. CASE OnRemove
  <2>1. PICK slug \in Slugs : slug = Command.slug
    BY <1>0, <1>7, TakeIncomingLemma DEF OnRemove, Optional
  <2>2. PICK i \in DOMAIN devices : Remove(slug, i)
    BY <1>7, <2>1 DEF OnRemove
  <2>3. /\ slug \in SlugsOf(devices)
        /\ SlugsOf(devices') = SlugsOf(devices) \ {slug}
        /\ \A s : s # slug => (EnabledIn(devices', s) <=> EnabledIn(devices, s))
    BY <1>0, <2>2, RemoveSwitches
  <2>4. ~IsCurrent(devices, Word("enabled", slug, None))
    BY <1>0, <2>3, EnabledIsCurrent, AbsenceAssumption
  <2>5. MirrorsOnly({slug})
    <3>1. outbox' = outbox \o Clears(slug)
      BY <1>7, <2>1 DEF OnRemove, Publish
    <3>2. /\ Clears(slug) \in Seq(Publication)
          /\ Words(Clears(slug)) = ClearWords(slug)
      BY ClearsLemma DEF Words, Clears, ClearWords
    <3>3. \A w \in Words(Clears(slug)) : w.slug = slug
      BY <3>2 DEF ClearWords, Clear
    <3> QED
      BY <1>0, <3>1, <3>2, <3>3, QueuedMirrors
  <2> QED
    BY <1>7, <2>1, <2>3, <2>4, <2>5 DEF OnRemove, Obeys, SameSwitch
<1>8. CASE OnIgnored
  BY <1>8 DEF OnIgnored, Obeys, SameSwitch, MirrorsOnly, dbVars
<1> QED
  BY <1>1, <1>2, <1>3, <1>4, <1>5, <1>6, <1>7, <1>8 DEF Handle
=============================================================================
