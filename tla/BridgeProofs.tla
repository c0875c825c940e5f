---------------------------- MODULE BridgeProofs ----------------------------
(* What TLAPS proves about the exchange over the broker, for any devices,   *)
(* users, bounds and files: it is well typed, the broker shows the registry *)
(* whenever nothing is under way, nothing is retained of a removed device,  *)
(* and with patient users the last command wins and echoes change nothing.  *)
EXTENDS Bridge, CoordinatorProofs, FiniteSetTheorems

-----------------------------------------------------------------------------
(* Types.                                                                   *)

Payload  == {"on", "off", None} \cup InfoBody \cup DiscoveryBody
Delivery == [slug : Slugs, body : {"on", "off", None}]
Held     == {s \in Slugs : retained["enabled"][s] # None}

(* A process that does not run has no records, no monitors and no messages. *)
IdleIsSilent ==
    ~loaded => /\ devices = <<>>
               /\ \A t \in Tasks : tasks[t] = None
               /\ rx = <<>> /\ incoming = <<>> /\ outbox = <<>>

RetainedTypes ==
    /\ retained \in [Topics -> [Slugs -> Payload]]
    /\ \A topic \in Topics, s \in Slugs :
          Word(topic, s, retained[topic][s]) \in Publication
    /\ IsFiniteSet(Held)

HistoryTypes ==
    /\ incoming \in Seq(Delivery)
    /\ origins \in Seq({"broker", "daemon", "user"})
    /\ Len(origins) = Len(incoming)
    /\ asked \in [Slugs -> {"nothing", "on", "off", None}]
    /\ spent \in [commands : Nat, sightings : Nat, deaths : Nat]

(* The type invariant: the coordinator's own, and that only a finite number *)
(* of switches is retained, so that a replay is a sequence.                 *)
BridgeTypes == TypeInv /\ IdleIsSilent /\ RetainedTypes /\ HistoryTypes

(* What is retained on an enabled topic is a switch or nothing.             *)
LEMMA SwitchTypes ==
    ASSUME RetainedTypes
    PROVE  \A s \in Slugs : retained["enabled"][s] \in {"on", "off", None}
<1>1. \A s \in Slugs : Word("enabled", s, retained["enabled"][s]) \in Publication
  BY DEF RetainedTypes, Topics
<1> QED
  BY <1>1 DEF Word, Publication

(* What the broker delivers is what the coordinator expects.                *)
LEMMA DeliveryIsIncoming == Seq(Delivery) \subseteq Seq(IncomingPublish)
<1>1. Delivery \subseteq IncomingPublish
  BY DEF Delivery, IncomingPublish, Optional, Bodies
<1> QED
  BY <1>1

(* The orders of a finite set are sequences.                                *)
LEMMA ReplayLemma ==
    ASSUME RetainedTypes, NEW replay \in Replayed
    PROVE  /\ replay \in Seq(Delivery)
           /\ \A k \in DOMAIN replay :
                 /\ replay[k].slug \in Held
                 /\ replay[k].body = retained["enabled"][replay[k].slug]
<1>1. PICK order \in Lists!SetToSeqs(Held) :
         replay = [k \in DOMAIN order |->
                     [slug |-> order[k], body |-> retained["enabled"][order[k]]]]
  BY DEF Replayed, Held
<1>2. Lists!Cardinality(Held) = Cardinality(Held)
  BY DEF Lists!Cardinality, Cardinality
<1>3. order \in [1..Cardinality(Held) -> Held]
  BY <1>1, <1>2 DEF Lists!SetToSeqs
<1>4. Cardinality(Held) \in Nat
  BY FS_CardinalityType DEF RetainedTypes
<1>5. \A s \in Held : [slug |-> s, body |-> retained["enabled"][s]] \in Delivery
  BY SwitchTypes DEF Held, Delivery
<1>6. replay \in [1..Cardinality(Held) -> Delivery]
  BY <1>1, <1>3, <1>5
<1>7. replay \in Seq(Delivery)
  BY <1>4, <1>6
<1>8. \A k \in DOMAIN replay :
         /\ replay[k].slug \in Held
         /\ replay[k].body = retained["enabled"][replay[k].slug]
  BY <1>1, <1>3
<1> QED
  BY <1>7, <1>8

(* An empty broker and no process are well typed.                           *)
LEMMA BridgeTypesInitially == BridgeInit => BridgeTypes
<1> SUFFICES ASSUME BridgeInit PROVE BridgeTypes
  OBVIOUS
<1>1. TypeInv
  BY TypeInitially DEF BridgeInit
<1>2. IdleIsSilent
  BY DEF BridgeInit, Init, DbInit, IdleIsSilent
<1>3. RetainedTypes
  <2>1. \A topic \in Topics, s \in Slugs : retained[topic][s] = None
    BY DEF BridgeInit
  <2>2. Held = {}
    BY <2>1 DEF Held, Topics
  <2>3. /\ retained \in [Topics -> [Slugs -> Payload]]
        /\ \A topic \in Topics, s \in Slugs : Word(topic, s, None) \in Publication
    BY DEF BridgeInit, Payload, Word, Publication, Topics, Optional
  <2> QED
    BY <2>1, <2>2, <2>3, FS_EmptySet DEF RetainedTypes
<1>4. HistoryTypes
  BY DEF BridgeInit, Init, HistoryTypes
<1> QED
  BY <1>1, <1>2, <1>3, <1>4 DEF BridgeTypes

(* What a publish changes of what is retained: its own topic and no other.  *)
LEMMA RetainLemma ==
    ASSUME RetainedTypes, NEW msg \in Publication,
           retained' = [retained EXCEPT ![msg.topic][msg.slug] = msg.body]
    PROVE  /\ RetainedTypes'
           /\ retained'[msg.topic][msg.slug] = msg.body
           /\ \A topic \in Topics, s \in Slugs :
                 topic # msg.topic \/ s # msg.slug
                 => retained'[topic][s] = retained[topic][s]
<1>1. /\ msg.topic \in Topics /\ msg.slug \in Slugs /\ msg.body \in Payload
      /\ msg.topic = "enabled" => msg.body \in {"on", "off", None}
  BY DEF Publication, Topics, Payload, Optional
<1>2. /\ retained' \in [Topics -> [Slugs -> Payload]]
      /\ retained'[msg.topic][msg.slug] = msg.body
      /\ \A topic \in Topics, s \in Slugs :
            topic # msg.topic \/ s # msg.slug
            => retained'[topic][s] = retained[topic][s]
  BY <1>1 DEF RetainedTypes
<1>3. \A topic \in Topics, s \in Slugs :
         Word(topic, s, retained'[topic][s]) \in Publication
  <2>1. Word(msg.topic, msg.slug, msg.body) \in Publication
    BY DEF Word, Publication
  <2> QED
    BY <1>2, <2>1 DEF RetainedTypes
<1>4. IsFiniteSet(Held')
  <2>1. Held' \subseteq Held \cup {msg.slug}
    BY <1>1, <1>2 DEF Held, Topics
  <2>2. IsFiniteSet(Held \cup {msg.slug})
    BY FS_AddElement DEF RetainedTypes
  <2> QED
    BY <2>1, <2>2, FS_Subset
<1> QED
  BY <1>2, <1>3, <1>4 DEF RetainedTypes

(* All but three kinds of steps are steps of the coordinator with an open   *)
(* environment; a replay, a publish that comes back and a command may find  *)
(* more in the queues than the bounds of that environment allow.            *)
LEMMA CoordinatorStep ==
    ASSUME \/ BridgeDie \/ BridgeHandle
           \/ \E id \in Identities, path \in Paths : BridgeSight(id, path)
           \/ \E t \in Tasks : BridgeTask(t)
           \/ UNCHANGED bridgeVars
    PROVE  [Next]_vars
<1>1. CASE BridgeDie \/ BridgeHandle \/ UNCHANGED bridgeVars
  BY <1>1 DEF BridgeDie, BridgeHandle, bridgeVars, Next
<1>2. ASSUME NEW id \in Identities, NEW path \in Paths, BridgeSight(id, path)
      PROVE  Next
  BY <1>2 DEF BridgeSight, Next
<1>3. ASSUME NEW t \in Tasks, BridgeTask(t) PROVE Next
  BY <1>3 DEF BridgeTask, Next
<1> QED
  BY <1>1, <1>2, <1>3

(* The queues change under the same registry and slots.                     *)
LEMMA QueueTypes ==
    ASSUME TypeInv, UNCHANGED <<dbVars, todo, slotVars, rx>>,
           incoming' \in Seq(Delivery), outbox' \in Seq(Publication)
    PROVE  TypeInv'
<1>1. DbInv'
  BY DbStep DEF TypeInv
<1>2. SlotTypes'
  BY DEF TypeInv, SlotTypes, slotVars
<1>3. ChannelTypes'
  BY DeliveryIsIncoming DEF TypeInv, ChannelTypes
<1> QED
  BY <1>1, <1>2, <1>3 DEF TypeInv, dbVars

(* A message and its origin are added together.                             *)
LEMMA DeliverTypes ==
    ASSUME HistoryTypes, NEW msg \in Delivery,
           NEW who \in {"broker", "daemon", "user"},
           incoming' = Append(incoming, msg), origins' = Append(origins, who)
    PROVE  /\ incoming' \in Seq(Delivery)
           /\ origins' \in Seq({"broker", "daemon", "user"})
           /\ Len(origins') = Len(incoming')
  BY AppendProperties DEF HistoryTypes

(* Every step keeps the types.                                              *)
LEMMA BridgeTypesStep == BridgeTypes /\ [BridgeNext]_bridgeVars => BridgeTypes'
<1> SUFFICES ASSUME BridgeTypes, [BridgeNext]_bridgeVars PROVE BridgeTypes'
  OBVIOUS
<1>0. /\ TypeInv /\ IdleIsSilent /\ RetainedTypes /\ HistoryTypes
      /\ outbox \in Seq(Publication)
  BY DEF BridgeTypes, TypeInv, ChannelTypes
<1>1. ASSUME UNCHANGED retained PROVE RetainedTypes'
  BY <1>0, <1>1 DEF RetainedTypes, Held
<1>2. ASSUME [Next]_vars PROVE TypeInv'
  BY <1>0, <1>2, TypeStep
<1>3. CASE BridgeStart
  <2>1. PICK replay \in Replayed :
           Start(replay) /\ origins' = [k \in DOMAIN replay |-> "broker"]
    BY <1>3 DEF BridgeStart
  <2>2. replay \in Seq(Delivery)
    BY <1>0, ReplayLemma
  <2>3. /\ incoming' = replay /\ loaded'
        /\ UNCHANGED <<rx, outbox, retained, asked, spent, slotVars>>
    BY <1>3, <2>1 DEF BridgeStart, Start, Load
  <2>4. origins' \in Seq({"broker", "daemon", "user"}) /\ Len(origins') = Len(incoming')
    BY <2>1, <2>2, <2>3
  <2>5. TypeInv'
    <3>1. DbInv'
      BY <1>0, <2>1, DbStep DEF Start, DbNext, TypeInv
    <3>2. (todo \in 0..Len(devices))'
      <4>1. todo' = Len(devices')
        BY <2>1 DEF Start, Load
      <4> QED
        BY <3>1, <4>1, LenProperties DEF DbInv, DbTypeOK
    <3>3. SlotTypes'
      BY <1>0, <2>3 DEF TypeInv, SlotTypes, slotVars
    <3>4. ChannelTypes'
      BY <1>0, <2>2, <2>3, DeliveryIsIncoming DEF TypeInv, ChannelTypes
    <3> QED
      BY <3>1, <3>2, <3>3, <3>4 DEF TypeInv
  <2>6. HistoryTypes'
    BY <1>0, <2>2, <2>3, <2>4 DEF HistoryTypes
  <2> QED
    BY <1>1, <2>3, <2>5, <2>6 DEF BridgeTypes, IdleIsSilent
<1>4. CASE BridgeDie
  <2>1. /\ rx' = <<>> /\ incoming' = <<>> /\ outbox' = <<>> /\ origins' = <<>>
        /\ UNCHANGED <<retained, asked>>
        /\ spent' = [spent EXCEPT !.deaths = @ + 1]
    BY <1>4 DEF BridgeDie, Die
  <2>2. HistoryTypes'
    BY <1>0, <2>1 DEF HistoryTypes
  <2> QED
    BY <1>1, <1>2, <1>4, <2>1, <2>2, CoordinatorStep
       DEF BridgeTypes, IdleIsSilent, BridgeDie, Die, Crash
<1>5. CASE BridgeHandle
  <2>1. /\ Handle /\ UNCHANGED <<retained, spent>>
        /\ origins' = IF incoming' = incoming THEN origins ELSE Tail(origins)
    BY <1>5 DEF BridgeHandle
  <2>2. PICK msgs \in Seq(Publication) : Reaction(msgs)
    BY <1>0, <2>1, HandleReaction
  <2>3. \/ incoming' = incoming /\ origins' = origins
        \/ /\ incoming # <<>> /\ incoming' = Tail(incoming)
           /\ incoming' # incoming /\ origins' = Tail(origins)
    <3>1. incoming # <<>> => Tail(incoming) # incoming
      BY <1>0 DEF HistoryTypes
    <3> QED
      BY <2>1, <2>2, <3>1 DEF Reaction, Answers, TakeIncoming
  <2>4. /\ incoming' \in Seq(Delivery) /\ origins' \in Seq({"broker", "daemon", "user"})
        /\ Len(origins') = Len(incoming')
    <3>1. CASE incoming' = incoming /\ origins' = origins
      BY <1>0, <3>1 DEF HistoryTypes
    <3>2. CASE incoming # <<>> /\ incoming' = Tail(incoming) /\ origins' = Tail(origins)
      <4>1. origins # <<>>
        BY <1>0, <3>2 DEF HistoryTypes
      <4> QED
        BY <1>0, <3>2, <4>1, HeadTailProperties DEF HistoryTypes
    <3> QED
      BY <2>3, <3>1, <3>2
  <2>5. asked' \in [Slugs -> {"nothing", "on", "off", None}]
    BY <1>0, <1>5 DEF BridgeHandle, HistoryTypes
  <2>6. HistoryTypes'
    BY <1>0, <2>1, <2>4, <2>5 DEF HistoryTypes
  <2>7. IdleIsSilent'
    BY <2>2 DEF Reaction, IdleIsSilent
  <2> QED
    BY <1>1, <1>2, <1>5, <2>1, <2>6, <2>7, CoordinatorStep DEF BridgeTypes
<1>6. CASE BridgeTransmit
  <2> DEFINE msg == Head(outbox)
  <2>1. /\ outbox # <<>> /\ outbox' = Tail(outbox)
        /\ retained' = [retained EXCEPT ![msg.topic][msg.slug] = msg.body]
        /\ UNCHANGED <<dbVars, todo, slotVars, rx, asked, spent>>
    BY <1>6 DEF BridgeTransmit
  <2>2. msg \in Publication /\ outbox' \in Seq(Publication)
    BY <1>0, <2>1, HeadTailProperties
  <2>3. /\ incoming' \in Seq(Delivery) /\ origins' \in Seq({"broker", "daemon", "user"})
        /\ Len(origins') = Len(incoming')
    <3>1. CASE msg.topic = "enabled"
      <4>1. [slug |-> msg.slug, body |-> msg.body] \in Delivery
        BY <2>2, <3>1 DEF Publication, Delivery
      <4>2. /\ incoming' = Append(incoming, [slug |-> msg.slug, body |-> msg.body])
            /\ origins' = Append(origins, "daemon")
        BY <1>6, <3>1 DEF BridgeTransmit
      <4> QED
        BY <1>0, <4>1, <4>2, DeliverTypes
    <3>2. CASE msg.topic # "enabled"
      BY <1>0, <1>6, <3>2 DEF BridgeTransmit, HistoryTypes
    <3> QED
      BY <3>1, <3>2
  <2>4. RetainedTypes'
    BY <1>0, <2>1, <2>2, RetainLemma
  <2> HIDE DEF msg
  <2>5. TypeInv'
    BY <1>0, <2>1, <2>2, <2>3, QueueTypes
  <2>6. HistoryTypes'
    BY <1>0, <2>1, <2>3 DEF HistoryTypes
  <2>7. IdleIsSilent'
    BY <1>0, <2>1 DEF IdleIsSilent, dbVars, slotVars
  <2> QED
    BY <2>4, <2>5, <2>6, <2>7 DEF BridgeTypes
<1>7. ASSUME NEW slug \in Slugs, NEW body \in {"on", "off", None},
             UserPublishes(slug, body)
      PROVE  BridgeTypes'
  <2> DEFINE msg == Word("enabled", slug, body)
  <2>1. msg \in Publication /\ [slug |-> slug, body |-> body] \in Delivery
    BY <1>7 DEF Word, Publication, Delivery
  <2>2. retained' = [retained EXCEPT ![msg.topic][msg.slug] = msg.body]
    BY <1>7 DEF UserPublishes, Word
  <2>3. RetainedTypes'
    BY <1>0, <2>1, <2>2, RetainLemma
  <2> HIDE DEF msg
  <2>4. /\ incoming' \in Seq(Delivery) /\ origins' \in Seq({"broker", "daemon", "user"})
        /\ Len(origins') = Len(incoming')
    <3>1. CASE loaded
      BY <1>0, <1>7, <2>1, <3>1, DeliverTypes DEF UserPublishes
    <3>2. CASE ~loaded
      BY <1>0, <1>7, <3>2 DEF UserPublishes, HistoryTypes
    <3> QED
      BY <3>1, <3>2
  <2>5. UNCHANGED <<dbVars, todo, slotVars, rx, outbox>>
    BY <1>7 DEF UserPublishes
  <2>6. TypeInv'
    BY <1>0, <2>4, <2>5, QueueTypes
  <2>7. HistoryTypes'
    <3>1. /\ asked' = [asked EXCEPT ![slug] = body]
          /\ spent' = [spent EXCEPT !.commands = @ + 1]
      BY <1>7 DEF UserPublishes
    <3>2. /\ asked' \in [Slugs -> {"nothing", "on", "off", None}]
          /\ spent' \in [commands : Nat, sightings : Nat, deaths : Nat]
      BY <1>0, <3>1 DEF HistoryTypes
    <3> QED
      BY <2>4, <3>2 DEF HistoryTypes
  <2>8. IdleIsSilent'
    BY <1>0, <1>7, <2>5 DEF IdleIsSilent, UserPublishes, dbVars, slotVars
  <2> QED
    BY <2>3, <2>6, <2>7, <2>8 DEF BridgeTypes
<1>8. ASSUME NEW id \in Identities, NEW path \in Paths, BridgeSight(id, path)
      PROVE  BridgeTypes'
  <2>1. /\ UNCHANGED <<retained, origins, asked, incoming, outbox, loaded>> /\ loaded
        /\ spent' = [spent EXCEPT !.sightings = @ + 1]
    BY <1>8 DEF BridgeSight, Sight, dbVars, slotVars
  <2>2. HistoryTypes'
    BY <1>0, <2>1 DEF HistoryTypes
  <2> QED
    BY <1>1, <1>2, <1>8, <2>1, <2>2, CoordinatorStep DEF BridgeTypes, IdleIsSilent
<1>9. ASSUME NEW t \in Tasks, BridgeTask(t) PROVE BridgeTypes'
  <2>1. /\ UNCHANGED <<retained, origins, asked, spent, incoming, outbox, loaded>>
        /\ tasks[t] # None
    BY <1>9 DEF BridgeTask, TaskKey, TaskFails, TaskStops, dbVars, channelVars
  <2>2. HistoryTypes'
    BY <1>0, <2>1 DEF HistoryTypes
  <2>3. loaded
    BY <1>0, <2>1 DEF IdleIsSilent
  <2> QED
    BY <1>1, <1>2, <1>9, <2>1, <2>2, <2>3, CoordinatorStep
       DEF BridgeTypes, IdleIsSilent
<1>10. CASE UNCHANGED bridgeVars
  BY <1>0, <1>1, <1>2, <1>10, CoordinatorStep
     DEF bridgeVars, vars, slotVars, BridgeTypes, HistoryTypes, IdleIsSilent
<1> QED
  BY <1>3, <1>4, <1>5, <1>6, <1>7, <1>8, <1>9, <1>10 DEF BridgeNext

(* Every queue, every retained payload and every slot is well typed,        *)
(* whatever the users publish and however many messages are under way.      *)
THEOREM BridgeTypeCorrect == BridgeSpec => []BridgeTypeOK
<1>1. BridgeTypes => BridgeTypeOK
  <2> SUFFICES ASSUME BridgeTypes PROVE BridgeTypeOK
    OBVIOUS
  <2>1. TypeOK
    BY TypeInvImpliesTypeOK DEF BridgeTypes
  <2> QED
    BY <2>1 DEF BridgeTypes, RetainedTypes, HistoryTypes, BridgeTypeOK
<1> QED
  BY <1>1, BridgeTypesInitially, BridgeTypesStep, PTL DEF BridgeSpec

-----------------------------------------------------------------------------
(* The coordinator behind a broker.  A command may come back in the step    *)
(* that transmits it, and what is under way has no capacity here, so the    *)
(* exchange does not implement Coordinator; but what it does to the         *)
(* registry, the slots and the request channel, Coordinator does too.       *)

(* Every step is the coordinator's, a start, or one of the queues alone.    *)
LEMMA BridgeCases ==
    ASSUME [BridgeNext]_bridgeVars
    PROVE  \/ [Next]_vars
           \/ \E replay : Start(replay)
           \/ UNCHANGED <<dbVars, todo, slotVars, rx>>
<1>1. CASE BridgeStart
  BY <1>1 DEF BridgeStart
<1>2. CASE BridgeTransmit
  BY <1>2 DEF BridgeTransmit
<1>3. ASSUME NEW slug \in Slugs, NEW body \in {"on", "off", None},
             UserPublishes(slug, body)
      PROVE  UNCHANGED <<dbVars, todo, slotVars, rx>>
  BY <1>3 DEF UserPublishes
<1> QED
  BY <1>1, <1>2, <1>3, CoordinatorStep DEF BridgeNext

(* The slots keep their invariant.                                          *)
SlotsHold == BridgeTypes /\ ReportInv

LEMMA SlotsHoldStep == SlotsHold /\ [BridgeNext]_bridgeVars => SlotsHold'
<1> SUFFICES ASSUME SlotsHold, [BridgeNext]_bridgeVars PROVE ReportInv'
  BY BridgeTypesStep DEF SlotsHold
<1>0. /\ TypeInv' /\ IdleIsSilent' /\ IdleIsSilent
      /\ IdleIsEmpty /\ MonitorsFollowSwitches /\ NoStrayMonitor
      /\ DeadMonitorIsReported
  BY BridgeTypesStep
     DEF SlotsHold, BridgeTypes, ReportInv, TaskInv, SlotInv
<1>1. CASE [Next]_vars
  BY <1>1, ReportStep DEF SlotsHold
<1>2. ASSUME UNCHANGED <<slotVars, rx>>, MonitorsFollowSwitches' PROVE ReportInv'
  <2>1. NoStrayMonitor'
    BY <1>0, <1>2, Zenon DEF slotVars, NoStrayMonitor
  <2>2. DeadMonitorIsReported'
    BY <1>0, <1>2, Zenon DEF slotVars, DeadMonitorIsReported
  <2>3. IdleIsEmpty'
    <3>1. SUFFICES ASSUME ~loaded'
                   PROVE  /\ devices' = <<>>
                          /\ \A s \in Slugs : connected'[s] = None /\ monitored'[s] = None
      BY DEF IdleIsEmpty
    <3>2. devices' = <<>>
      BY <1>0, <3>1 DEF IdleIsSilent
    <3>3. SlugsOf(devices') = {}
      BY <3>2 DEF SlugsOf
    <3> QED
      BY <1>2, <3>2, <3>3 DEF MonitorsFollowSwitches
  <2> QED
    BY <1>0, <1>2, <2>1, <2>2, <2>3 DEF ReportInv, TaskInv, SlotInv
<1>3. ASSUME NEW replay, Start(replay) PROVE ReportInv'
  <2>1. /\ ~loaded /\ UNCHANGED <<slotVars, rx>>
    BY <1>3 DEF Start, Load
  <2>2. \A s \in Slugs : connected'[s] = None /\ monitored'[s] = None
    BY <1>0, <2>1 DEF IdleIsEmpty, slotVars
  <2>3. MonitorsFollowSwitches'
    BY <2>2 DEF MonitorsFollowSwitches
  <2> QED
    BY <1>2, <2>1, <2>3
<1>4. CASE UNCHANGED <<dbVars, todo, slotVars, rx>>
  <2>1. UNCHANGED <<devices, connected, monitored>>
    BY <1>4 DEF dbVars, slotVars
  <2>2. MonitorsFollowSwitches'
    BY <1>0, <2>1, Zenon DEF MonitorsFollowSwitches
  <2> QED
    BY <1>2, <1>4, <2>2
<1> QED
  BY <1>1, <1>3, <1>4, BridgeCases

LEMMA SlotsHoldInitially == BridgeInit => SlotsHold
<1>1. BridgeInit => Init
  BY DEF BridgeInit
<1> QED
  BY <1>1, BridgeTypesInitially, ReportInitially DEF SlotsHold

(* With echoes, replays and contrary commands, too, the slots follow the    *)
(* switches, no monitor strays from its slot, and a dead one is reported.   *)
THEOREM BridgeKeepsTheSlots ==
    BridgeSpec => [](/\ MonitorsFollowSwitches /\ NoStrayMonitor
                     /\ DeadMonitorIsReported)
<1>1. SlotsHold => /\ MonitorsFollowSwitches /\ NoStrayMonitor
                   /\ DeadMonitorIsReported
  BY DEF SlotsHold, ReportInv, TaskInv, SlotInv
<1> QED
  BY <1>1, SlotsHoldInitially, SlotsHoldStep, PTL DEF BridgeSpec

(* The registry changes only as DeviceDb says, so that a slug stays with    *)
(* its device, knowledge only grows, and the file is current (`ImplementsDb`*)
(* with a broker and its users).                                            *)
THEOREM BridgeImplementsDb == BridgeSpec => DbSpec
<1>1. BridgeInit => DbInit
  BY DEF BridgeInit, Init
<1>2. BridgeTypes /\ [BridgeNext]_bridgeVars => [DbNext]_dbVars
  <2> SUFFICES ASSUME BridgeTypes, [BridgeNext]_bridgeVars PROVE [DbNext]_dbVars
    OBVIOUS
  <2>1. CASE [Next]_vars
    BY <2>1, StepOfDb DEF BridgeTypes
  <2>2. ASSUME NEW replay, Start(replay) PROVE DbNext
    BY <2>2 DEF Start, DbNext
  <2> QED
    BY <2>1, <2>2, BridgeCases
<1> QED
  BY <1>1, <1>2, BridgeTypesInitially, BridgeTypesStep, PTL DEF BridgeSpec, DbSpec

(* Seen from outside, the daemon behind a broker keeps the promise of       *)
(* DeviceLifecycle: it registers, attaches, detaches, switches and forgets  *)
(* a device only in the steps that are allowed, whatever comes back to it.  *)
THEOREM BridgeKeepsThePromise == BridgeSpec => KeepsThePromise
<1>1. BridgeInit => Lifecycle!Init
  BY PromiseInitially DEF BridgeInit
<1>2. SlotsHold /\ [BridgeNext]_bridgeVars
      => [Lifecycle!Next]_(Lifecycle!lifecycleVars)
  <2> SUFFICES ASSUME SlotsHold, [BridgeNext]_bridgeVars
               PROVE  Lifecycle!Next \/ UNCHANGED Lifecycle!lifecycleVars
    OBVIOUS
  <2>1. CASE [Next]_vars
    BY <2>1, PromiseStep DEF SlotsHold, ReportInv, TaskInv
  <2>2. ASSUME NEW replay, Start(replay) PROVE Lifecycle!Next
    BY <2>2 DEF Start, Load, slotVars, Lifecycle!Begin, Lifecycle!Next
  <2>3. CASE UNCHANGED <<dbVars, todo, slotVars, rx>>
    BY <2>3 DEF dbVars, slotVars, Lifecycle!lifecycleVars
  <2> QED
    BY <2>1, <2>2, <2>3, BridgeCases
<1> QED
  BY <1>1, <1>2, SlotsHoldInitially, SlotsHoldStep, PTL
     DEF BridgeSpec, KeepsThePromise, Lifecycle!Spec

-----------------------------------------------------------------------------
(* What the broker shows.                                                   *)

(* A publish about the topic is queued; a message about the slug is under   *)
(* way; what the broker retains, as a word.                                 *)
Spoken(topic, s)       == Covers(Words(outbox), Word(topic, s, None))
Heard(s)               == \E k \in DOMAIN incoming : incoming[k].slug = s
RetainedWord(topic, s) == Word(topic, s, retained[topic][s])

(* The last message under way for a slug is what the broker retains: the    *)
(* broker keeps and sends publishes in one order.                           *)
LastMessageIsRetained ==
    \A k \in DOMAIN incoming :
        (\A l \in DOMAIN incoming : l > k => incoming[l].slug # incoming[k].slug)
        => incoming[k].body = retained["enabled"][incoming[k].slug]

(* Without Home Assistant nothing is ever said on a discovery topic.        *)
NoTriggers ==
    ~HassEnabled =>
        /\ \A k \in DOMAIN outbox :
              outbox[k].topic = "discovery" => outbox[k].body = None
        /\ \A s \in Slugs : retained["discovery"][s] = None

(* What is retained of a known device is what the registry holds, but for   *)
(* what is still to be announced, queued, or under way.                     *)
Shown ==
    \A s \in SlugsOf(devices), topic \in Topics :
        /\ ~Owed(s)
        /\ ~Spoken(topic, s)
        /\ topic = "enabled" => ~Heard(s)
        => IsCurrent(devices, RetainedWord(topic, s))

(* Of an unknown slug nothing is retained but what a user said last, or     *)
(* what a queued clear will take away.                                      *)
Left(topic, s) ==
    \/ retained[topic][s] = None
    \/ topic = "enabled" /\ retained[topic][s] = asked[s]

Gone ==
    spent.deaths = 0 =>
        \A s \in Slugs \ SlugsOf(devices), topic \in Topics :
            ~Spoken(topic, s) => Left(topic, s)

(* Inductive: Shown and Gone need the last words to be current when the     *)
(* last of them is transmitted, and Shown needs the last message to be the  *)
(* retained one when it is taken.                                           *)
RegistryInv ==
    /\ BridgeTypes
    /\ LastWordIsCurrent
    /\ LastMessageIsRetained
    /\ NoTriggers
    /\ Shown
    /\ Gone

(* A message of the queue names a slug and a switch, or nothing.            *)
LEMMA DeliveryLemma ==
    ASSUME NEW queue \in Seq(Delivery)
    PROVE  \A k \in DOMAIN queue :
              queue[k].slug \in Slugs /\ queue[k].body \in {"on", "off", None}
<1>1. \A k \in DOMAIN queue : queue[k] \in Delivery
  BY ElementOfSeq
<1>2. \A m \in Delivery : m.slug \in Slugs /\ m.body \in {"on", "off", None}
  BY DEF Delivery
<1> QED
  BY <1>1, <1>2

(* A message added to the queue is the last of its slug.                    *)
LEMMA AddedMessage ==
    ASSUME incoming \in Seq(Delivery), LastMessageIsRetained, NEW msg \in Delivery,
           incoming' = Append(incoming, msg),
           retained'["enabled"][msg.slug] = msg.body,
           \A s \in Slugs :
              s # msg.slug => retained'["enabled"][s] = retained["enabled"][s]
    PROVE  /\ LastMessageIsRetained'
           /\ \A s : Heard(s)' <=> Heard(s) \/ s = msg.slug
<1>1. /\ DOMAIN incoming = 1..Len(incoming) /\ Len(incoming) \in Nat
      /\ \A k \in DOMAIN incoming : incoming[k].slug \in Slugs
  BY DeliveryLemma
<1>2. /\ DOMAIN incoming' = 1..(Len(incoming) + 1)
      /\ \A k \in DOMAIN incoming : incoming'[k] = incoming[k]
      /\ incoming'[Len(incoming) + 1] = msg
  BY AppendProperties
<1>3. LastMessageIsRetained'
  <2>1. SUFFICES ASSUME NEW k \in DOMAIN incoming',
                        \A l \in DOMAIN incoming' :
                           l > k => incoming'[l].slug # incoming'[k].slug
                 PROVE  incoming'[k].body = retained'["enabled"][incoming'[k].slug]
    BY DEF LastMessageIsRetained
  <2>2. CASE k = Len(incoming) + 1
    BY <1>2, <2>2
  <2>3. CASE k # Len(incoming) + 1
    <3>1. k \in DOMAIN incoming /\ incoming'[k] = incoming[k]
      BY <1>1, <1>2, <2>1, <2>3
    <3>2. incoming[k].slug # msg.slug
      <4>1. /\ Len(incoming) + 1 \in DOMAIN incoming'
            /\ Len(incoming) + 1 > k
        BY <1>1, <1>2, <3>1
      <4> QED
        BY <1>2, <2>1, <3>1, <4>1
    <3>3. \A l \in DOMAIN incoming : l > k => incoming[l].slug # incoming[k].slug
      BY <1>1, <1>2, <2>1, <3>1
    <3>4. incoming[k].body = retained["enabled"][incoming[k].slug]
      BY <3>1, <3>3 DEF LastMessageIsRetained
    <3> QED
      BY <1>1, <3>1, <3>2, <3>4
  <2> QED
    BY <2>2, <2>3
<1>4. ASSUME NEW s PROVE Heard(s)' <=> Heard(s) \/ s = msg.slug
  BY <1>1, <1>2 DEF Heard
<1> QED
  BY <1>3, <1>4

(* The message that is taken is the retained one if it is the last.         *)
LEMMA TakenMessage ==
    ASSUME incoming \in Seq(Delivery), LastMessageIsRetained, TakeIncoming,
           UNCHANGED retained
    PROVE  /\ LastMessageIsRetained'
           /\ \A s : Heard(s) /\ ~Heard(s)' =>
                 s = Command.slug /\ Command.body = retained["enabled"][s]
<1>1. /\ incoming # <<>> /\ incoming' = Tail(incoming)
      /\ DOMAIN incoming = 1..Len(incoming) /\ Len(incoming) \in Nat
      /\ Command = incoming[1]
  BY DEF TakeIncoming, Command
<1>2. /\ DOMAIN incoming' = 1..(Len(incoming) - 1)
      /\ \A k \in DOMAIN incoming' : incoming'[k] = incoming[k + 1]
  BY <1>1, HeadTailProperties
<1>3. LastMessageIsRetained'
  <2>1. SUFFICES ASSUME NEW k \in DOMAIN incoming',
                        \A l \in DOMAIN incoming' :
                           l > k => incoming'[l].slug # incoming'[k].slug
                 PROVE  incoming'[k].body = retained'["enabled"][incoming'[k].slug]
    BY DEF LastMessageIsRetained
  <2>2. k + 1 \in DOMAIN incoming
    BY <1>1, <1>2
  <2>3. ASSUME NEW l \in DOMAIN incoming, l > k + 1
        PROVE  incoming[l].slug # incoming[k + 1].slug
    <3>1. (l - 1) \in DOMAIN incoming' /\ l - 1 > k /\ (l - 1) + 1 = l
      BY <1>1, <1>2, <2>3
    <3> QED
      BY <1>2, <2>1, <3>1
  <2> QED
    BY <1>2, <2>2, <2>3 DEF LastMessageIsRetained
<1>4. ASSUME NEW s, Heard(s), ~Heard(s)'
      PROVE  s = Command.slug /\ Command.body = retained["enabled"][s]
  <2>1. \A l \in DOMAIN incoming : l > 1 => incoming[l].slug # s
    <3>1. SUFFICES ASSUME NEW l \in DOMAIN incoming, l > 1, incoming[l].slug = s
                   PROVE  FALSE
      OBVIOUS
    <3>2. (l - 1) \in DOMAIN incoming' /\ (l - 1) + 1 = l
      BY <1>1, <1>2, <3>1
    <3> QED
      BY <1>2, <1>4, <3>1, <3>2 DEF Heard
  <2>2. 1 \in DOMAIN incoming /\ incoming[1].slug = s
    BY <1>1, <1>4, <2>1 DEF Heard
  <2> QED
    BY <1>1, <2>1, <2>2 DEF LastMessageIsRetained
<1> QED
  BY <1>3, <1>4

(* The head of a queue and the rest.                                        *)
LEMMA TailWords ==
    ASSUME NEW queue \in Seq(Publication), queue # <<>>
    PROVE  /\ Words(queue) = {Head(queue)} \cup Words(Tail(queue))
           /\ \A db : /\ LastWords(queue, db)
                      /\ ~Covers(Words(Tail(queue)), Head(queue))
                      => IsCurrent(db, Head(queue))
<1> DEFINE rest == Tail(queue)
<1>1. /\ DOMAIN queue = 1..Len(queue) /\ Len(queue) \in Nat
      /\ DOMAIN rest = 1..(Len(queue) - 1)
      /\ \A k \in DOMAIN rest : rest[k] = queue[k + 1]
      /\ 1 \in DOMAIN queue /\ queue[1] = Head(queue)
  OBVIOUS
<1> HIDE DEF rest
<1>2. \A k \in DOMAIN rest : k + 1 \in DOMAIN queue
  BY <1>1
<1>3. \A k \in DOMAIN queue :
         k = 1 \/ ((k - 1) \in DOMAIN rest /\ (k - 1) + 1 = k)
  BY <1>1
<1>4. Words(queue) = {queue[1]} \cup Words(rest)
  <2>1. ASSUME NEW w \in Words(queue) PROVE w \in {queue[1]} \cup Words(rest)
    <3>1. PICK k \in DOMAIN queue : w = queue[k]
      BY <2>1 DEF Words
    <3>2. CASE k = 1
      BY <3>1, <3>2
    <3>3. CASE (k - 1) \in DOMAIN rest /\ (k - 1) + 1 = k
      BY <1>1, <3>1, <3>3 DEF Words
    <3> QED
      BY <1>3, <3>2, <3>3
  <2>2. \A w \in {queue[1]} \cup Words(rest) : w \in Words(queue)
    BY <1>1, <1>2 DEF Words
  <2> QED
    BY <2>1, <2>2
<1>5. ASSUME NEW db, LastWords(queue, db), ~Covers(Words(rest), queue[1])
      PROVE  IsCurrent(db, queue[1])
  <2>1. IsLastWord(queue, 1)
    <3>1. SUFFICES ASSUME NEW l \in DOMAIN queue, l > 1
                   PROVE  \/ queue[l].topic # queue[1].topic
                          \/ queue[l].slug # queue[1].slug
      BY DEF IsLastWord
    <3>2. queue[l] \in Words(rest)
      BY <1>1, <1>3, <3>1 DEF Words
    <3> QED
      BY <1>5, <3>2 DEF Covers
  <2> QED
    BY <1>1, <1>5, <2>1 DEF LastWords
<1> QED
  BY <1>1, <1>4, <1>5 DEF rest

(* At first the broker and the registry are both empty.                     *)
LEMMA RegistryInitially == BridgeInit => RegistryInv
<1> SUFFICES ASSUME BridgeInit PROVE RegistryInv
  OBVIOUS
<1>1. /\ devices = <<>> /\ incoming = <<>> /\ outbox = <<>>
      /\ \A topic \in Topics, s \in Slugs : retained[topic][s] = None
  BY DEF BridgeInit, Init, DbInit
<1>2. LastWordIsCurrent /\ LastMessageIsRetained
  BY <1>1 DEF LastWordIsCurrent, LastMessageIsRetained
<1>3. NoTriggers
  BY <1>1 DEF NoTriggers, Topics
<1>4. Shown
  BY <1>1 DEF Shown, SlugsOf
<1>5. Gone
  BY <1>1 DEF Gone, Left
<1> QED
  BY <1>2, <1>3, <1>4, <1>5, BridgeTypesInitially DEF RegistryInv

(* What the invariant says of the registry and of the two queues.           *)
LEMMA RegistryFacts ==
    ASSUME RegistryInv
    PROVE  /\ TypeInv /\ IdleIsSilent /\ RetainedTypes /\ HistoryTypes
           /\ devices \in Seq(Record) /\ UniqueSlugs(devices)
           /\ outbox \in Seq(Publication) /\ incoming \in Seq(Delivery)
           /\ SlugsOf(devices) \subseteq Slugs
           /\ LastWords(outbox, devices)
<1>1. /\ TypeInv /\ IdleIsSilent /\ RetainedTypes /\ HistoryTypes
      /\ devices \in Seq(Record) /\ UniqueSlugs(devices)
      /\ outbox \in Seq(Publication) /\ incoming \in Seq(Delivery)
  BY DEF RegistryInv, BridgeTypes, TypeInv, DbInv, DbTypeOK, KeptApart,
         ChannelTypes, HistoryTypes
<1>2. SlugsOf(devices) \subseteq Slugs
  <2>1. \A i \in DOMAIN devices : devices[i] \in Record
    BY <1>1, ElementOfSeq
  <2>2. \A rec \in Record : rec.slug \in Slugs
    BY DEF Record
  <2> QED
    BY <2>1, <2>2 DEF SlugsOf
<1>3. LastWords(outbox, devices)
  BY LastWordsOfOutbox DEF RegistryInv
<1> QED
  BY <1>1, <1>2, <1>3

(* A step that touches neither the registry nor the queues, nor the broker. *)
LEMMA QuietRegistryStep ==
    ASSUME RegistryInv, BridgeTypes',
           UNCHANGED <<devices, todo, outbox, incoming, retained, asked>>,
           spent'.deaths = spent.deaths
    PROVE  RegistryInv'
<1>1. LastWordIsCurrent' /\ LastMessageIsRetained' /\ NoTriggers'
  BY DEF RegistryInv, LastWordIsCurrent, LastMessageIsRetained, NoTriggers
<1>2. Shown'
  BY DEF RegistryInv, Shown, Owed, Spoken, Heard, RetainedWord
<1>3. Gone'
  BY DEF RegistryInv, Gone, Left, Spoken
<1> QED
  BY <1>1, <1>2, <1>3 DEF RegistryInv

(* A new process owes every record an announcement.                         *)
LEMMA RegistryStart ==
    ASSUME RegistryInv, BridgeTypes', BridgeStart
    PROVE  RegistryInv'
<1>1. PICK replay \in Replayed : Start(replay)
  BY DEF BridgeStart
<1>2. /\ ~loaded /\ incoming' = replay /\ devices' = file /\ todo' = Len(file)
      /\ UNCHANGED <<outbox, retained, asked, spent>>
  BY <1>1 DEF BridgeStart, Start, Load
<1>3. outbox = <<>> /\ devices = <<>>
  BY <1>2, RegistryFacts DEF IdleIsSilent
<1>4. LastWordIsCurrent' /\ NoTriggers'
  BY <1>2, <1>3 DEF RegistryInv, LastWordIsCurrent, NoTriggers
<1>5. LastMessageIsRetained'
  BY <1>2, RegistryFacts, ReplayLemma DEF LastMessageIsRetained
<1>6. Shown'
  <2>1. file \in Seq(Record)
    BY RegistryFacts DEF TypeInv, DbInv, DbTypeOK
  <2>2. ASSUME NEW s \in SlugsOf(devices') PROVE Owed(s)'
    BY <1>2, <2>1, <2>2 DEF SlugsOf, Owed
  <2> QED
    BY <2>2 DEF Shown
<1>7. Gone'
  <2>1. SlugsOf(devices) = {}
    BY <1>3 DEF SlugsOf
  <2> QED
    BY <1>2, <2>1 DEF RegistryInv, Gone, Left, Spoken
<1> QED
  BY <1>4, <1>5, <1>6, <1>7 DEF RegistryInv

(* A dead one knows no device.                                              *)
LEMMA RegistryDie ==
    ASSUME RegistryInv, BridgeTypes', BridgeDie
    PROVE  RegistryInv'
<1>1. /\ incoming' = <<>> /\ outbox' = <<>> /\ devices' = <<>>
      /\ UNCHANGED retained
      /\ spent' = [spent EXCEPT !.deaths = @ + 1]
  BY DEF BridgeDie, Die, Crash
<1>2. LastWordIsCurrent' /\ LastMessageIsRetained' /\ NoTriggers'
  BY <1>1 DEF RegistryInv, LastWordIsCurrent, LastMessageIsRetained, NoTriggers
<1>3. Shown'
  BY <1>1 DEF Shown, SlugsOf
<1>4. Gone'
  <2>1. spent.deaths \in Nat /\ spent'.deaths = spent.deaths + 1
    BY <1>1, RegistryFacts DEF HistoryTypes
  <2> QED
    BY <2>1 DEF Gone
<1> QED
  BY <1>2, <1>3, <1>4 DEF RegistryInv

(* A publish reaches the broker: if it is the last word queued on its topic *)
(* it is what the registry holds.                                           *)
LEMMA RegistryTransmit ==
    ASSUME RegistryInv, BridgeTypes', BridgeTransmit
    PROVE  RegistryInv'
<1> DEFINE msg == Head(outbox)
<1>1. /\ outbox # <<>> /\ outbox' = Tail(outbox)
      /\ retained' = [retained EXCEPT ![msg.topic][msg.slug] = msg.body]
      /\ UNCHANGED <<devices, todo, asked, spent>>
      /\ IF msg.topic = "enabled"
         THEN incoming' = Append(incoming, [slug |-> msg.slug, body |-> msg.body])
         ELSE UNCHANGED incoming
  BY DEF BridgeTransmit, dbVars
<1>2. /\ msg \in Publication /\ outbox' \in Seq(Publication)
      /\ msg = outbox[1] /\ 1 \in DOMAIN outbox
      /\ Words(outbox) = {msg} \cup Words(outbox')
      /\ ~Covers(Words(outbox'), msg) => IsCurrent(devices, msg)
  BY <1>1, RegistryFacts, HeadTailProperties, TailWords
<1> HIDE DEF msg
<1>3. /\ retained'[msg.topic][msg.slug] = msg.body
      /\ \A topic \in Topics, s \in Slugs :
            topic # msg.topic \/ s # msg.slug
            => retained'[topic][s] = retained[topic][s]
  BY <1>1, <1>2, RegistryFacts, RetainLemma
<1>4. msg.topic \in Topics /\ msg.slug \in Slugs
  BY <1>2 DEF Publication, Topics
<1>5. LastWordIsCurrent'
  BY <1>1, RegistryFacts, TransmittedWords, LastWordsOfOutbox
<1>6. LastMessageIsRetained' /\ \A s : ~Heard(s)' => ~Heard(s) /\ (msg.topic = "enabled" => s # msg.slug)
  <2>1. CASE msg.topic = "enabled"
    <3>1. [slug |-> msg.slug, body |-> msg.body] \in Delivery
      BY <1>2, <2>1 DEF Publication, Delivery
    <3>2. \A s \in Slugs :
             s # msg.slug => retained'["enabled"][s] = retained["enabled"][s]
      BY <1>3 DEF Topics
    <3> QED
      BY <1>1, <1>3, <2>1, <3>1, <3>2, RegistryFacts, AddedMessage DEF RegistryInv
  <2>2. CASE msg.topic # "enabled"
    <3>1. \A s \in Slugs : retained'["enabled"][s] = retained["enabled"][s]
      BY <1>3, <2>2 DEF Topics
    <3>2. \A k \in DOMAIN incoming : incoming[k].slug \in Slugs
      BY RegistryFacts, DeliveryLemma
    <3> QED
      BY <1>1, <2>2, <3>1, <3>2 DEF RegistryInv, LastMessageIsRetained, Heard
  <2> QED
    BY <2>1, <2>2
<1>7. ASSUME NEW topic \in Topics, NEW s \in Slugs, ~Spoken(topic, s)'
      PROVE  \/ /\ topic = msg.topic /\ s = msg.slug
                /\ RetainedWord(topic, s)' = Word(msg.topic, msg.slug, msg.body)
                /\ IsCurrent(devices, RetainedWord(topic, s)')
             \/ ~Spoken(topic, s) /\ retained'[topic][s] = retained[topic][s]
  <2>1. CASE topic = msg.topic /\ s = msg.slug
    <3>1. ~Covers(Words(outbox'), msg)
      BY <1>7, <2>1 DEF Spoken, Covers, Word
    <3>2. IsCurrent(devices, Word(msg.topic, msg.slug, msg.body))
      BY <1>2, <3>1 DEF IsCurrent, Word
    <3> QED
      BY <1>3, <2>1, <3>2 DEF RetainedWord
  <2>2. CASE ~(topic = msg.topic /\ s = msg.slug)
    BY <1>2, <1>3, <1>7, <2>2 DEF Spoken, Covers, Word
  <2> QED
    BY <2>1, <2>2
<1>8. NoTriggers'
  <2>1. SUFFICES ASSUME ~HassEnabled
                 PROVE  /\ \A k \in DOMAIN outbox' :
                              outbox'[k].topic = "discovery" => outbox'[k].body = None
                        /\ \A s \in Slugs : retained'["discovery"][s] = None
    BY DEF NoTriggers
  <2>2. /\ \A k \in DOMAIN outbox :
              outbox[k].topic = "discovery" => outbox[k].body = None
        /\ \A s \in Slugs : retained["discovery"][s] = None
    BY <2>1 DEF RegistryInv, NoTriggers
  <2>3. \A k \in DOMAIN outbox' :
           k + 1 \in DOMAIN outbox /\ outbox'[k] = outbox[k + 1]
    BY <1>1, RegistryFacts, HeadTailProperties
  <2>4. ASSUME NEW s \in Slugs PROVE retained'["discovery"][s] = None
    BY <1>2, <1>3, <2>2 DEF Topics
  <2> QED
    BY <2>2, <2>3, <2>4
<1>9. Shown'
  <2>1. SUFFICES ASSUME NEW s \in SlugsOf(devices), NEW topic \in Topics, ~Owed(s)',
                        ~Spoken(topic, s)', topic = "enabled" => ~Heard(s)'
                 PROVE  IsCurrent(devices, RetainedWord(topic, s)')
    BY <1>1 DEF Shown
  <2>2. s \in Slugs /\ ~Owed(s)
    BY <1>1, <2>1, RegistryFacts DEF Owed
  <2>3. ASSUME ~Spoken(topic, s), retained'[topic][s] = retained[topic][s]
        PROVE  IsCurrent(devices, RetainedWord(topic, s)')
    <3>1. IsCurrent(devices, RetainedWord(topic, s))
      BY <1>6, <2>1, <2>2, <2>3 DEF RegistryInv, Shown
    <3> QED
      BY <2>3, <3>1 DEF RetainedWord
  <2> QED
    BY <1>7, <2>1, <2>2, <2>3
<1>10. Gone'
  <2>1. SUFFICES ASSUME spent.deaths = 0, NEW s \in Slugs \ SlugsOf(devices),
                        NEW topic \in Topics, ~Spoken(topic, s)'
                 PROVE  Left(topic, s)'
    BY <1>1 DEF Gone
  <2>2. ~Spoken(topic, s) => Left(topic, s)
    BY <2>1 DEF RegistryInv, Gone
  <2>3. CASE ~Spoken(topic, s) /\ retained'[topic][s] = retained[topic][s]
    BY <1>1, <2>2, <2>3 DEF Left
  <2>4. CASE IsCurrent(devices, RetainedWord(topic, s)')
    BY <2>1, <2>4 DEF Left, IsCurrent, RetainedWord, Word
  <2> QED
    BY <1>7, <2>1, <2>3, <2>4
<1> QED
  BY <1>5, <1>6, <1>8, <1>9, <1>10 DEF RegistryInv

(* A user's command is retained, whether its slug is known or not, and      *)
(* under way.                                                               *)
LEMMA RegistryUser ==
    ASSUME RegistryInv, BridgeTypes', NEW slug \in Slugs,
           NEW body \in {"on", "off", None}, UserPublishes(slug, body)
    PROVE  RegistryInv'
<1> DEFINE msg == [slug |-> slug, body |-> body]
<1>1. /\ retained' = [retained EXCEPT !["enabled"][slug] = body]
      /\ asked' = [asked EXCEPT ![slug] = body]
      /\ UNCHANGED <<devices, todo, outbox>>
      /\ spent' = [spent EXCEPT !.commands = @ + 1]
      /\ IF loaded THEN incoming' = Append(incoming, msg) ELSE UNCHANGED incoming
  BY DEF UserPublishes, dbVars
<1>2. /\ retained'["enabled"][slug] = body
      /\ \A topic \in Topics, s \in Slugs :
            topic # "enabled" \/ s # slug
            => retained'[topic][s] = retained[topic][s]
      /\ asked'[slug] = body
      /\ \A s \in Slugs : s # slug => asked'[s] = asked[s]
      /\ spent'.deaths = spent.deaths
  BY <1>1, RegistryFacts DEF RetainedTypes, HistoryTypes, Topics
<1>3. LastWordIsCurrent'
  BY <1>1, RegistryFacts, LastWordsOfOutbox
<1>4. LastMessageIsRetained' /\ \A s : ~Heard(s)' => ~Heard(s) /\ (loaded => s # slug)
  <2>1. CASE loaded
    <3>1. msg \in Delivery
      BY DEF Delivery
    <3>2. \A s \in Slugs :
             s # msg.slug => retained'["enabled"][s] = retained["enabled"][s]
      BY <1>2 DEF Topics
    <3> QED
      BY <1>1, <1>2, <2>1, <3>1, <3>2, RegistryFacts, AddedMessage DEF RegistryInv
  <2>2. CASE ~loaded
    <3>1. incoming' = <<>> /\ incoming = <<>>
      BY <1>1, <2>2, RegistryFacts DEF IdleIsSilent
    <3> QED
      BY <2>2, <3>1 DEF LastMessageIsRetained, Heard
  <2> QED
    BY <2>1, <2>2
<1>5. NoTriggers'
  BY <1>1, <1>2 DEF RegistryInv, NoTriggers, Topics
<1>6. Shown'
  <2>1. SUFFICES ASSUME NEW s \in SlugsOf(devices), NEW topic \in Topics, ~Owed(s)',
                        ~Spoken(topic, s)', topic = "enabled" => ~Heard(s)'
                 PROVE  IsCurrent(devices, RetainedWord(topic, s)')
    BY <1>1 DEF Shown
  <2>2. s \in Slugs /\ ~Owed(s) /\ ~Spoken(topic, s)
    BY <1>1, <2>1, RegistryFacts DEF Owed, Spoken
  <2>3. loaded
    BY <2>1, RegistryFacts DEF IdleIsSilent, SlugsOf
  <2>4. retained'[topic][s] = retained[topic][s]
    BY <1>2, <1>4, <2>1, <2>2, <2>3
  <2>5. IsCurrent(devices, RetainedWord(topic, s))
    BY <1>4, <2>1, <2>2 DEF RegistryInv, Shown
  <2> QED
    BY <2>4, <2>5 DEF RetainedWord
<1>7. Gone'
  <2>1. SUFFICES ASSUME spent.deaths = 0, NEW s \in Slugs \ SlugsOf(devices),
                        NEW topic \in Topics, ~Spoken(topic, s)'
                 PROVE  Left(topic, s)'
    BY <1>1, <1>2 DEF Gone
  <2>2. CASE topic = "enabled" /\ s = slug
    BY <1>2, <2>2 DEF Left
  <2>3. CASE topic # "enabled" \/ s # slug
    <3>1. ~Spoken(topic, s)
      BY <1>1, <2>1 DEF Spoken
    <3>2. Left(topic, s)
      BY <2>1, <3>1 DEF RegistryInv, Gone
    <3> QED
      BY <1>2, <2>1, <2>3, <3>2 DEF Left
  <2> QED
    BY <2>2, <2>3
<1> QED
  BY <1>3, <1>4, <1>5, <1>6, <1>7 DEF RegistryInv

(* A handler's reaction: what it changes it announces, what it introduces   *)
(* it announces too, and the command it takes, it obeys.                    *)
LEMMA RegistryHandle ==
    ASSUME RegistryInv, BridgeTypes', BridgeHandle
    PROVE  RegistryInv'
<1>1. PICK msgs \in Seq(Publication) : Reaction(msgs)
  BY RegistryFacts, HandleReaction DEF BridgeHandle
<1>2. /\ outbox' = outbox \o msgs
      /\ Words(outbox') = Words(outbox) \cup Words(msgs)
      /\ Follow(Words(msgs), devices, devices')
      /\ Introduces(Words(msgs)) /\ Forgets(msgs) /\ Answers
      /\ UNCHANGED <<retained, spent>>
  BY <1>1, RegistryFacts, ConcatWords DEF Reaction, BridgeHandle
<1>3. LastWordIsCurrent'
  BY <1>2, RegistryFacts, PublishedWords, LastWordsOfOutbox
<1>4. /\ LastMessageIsRetained'
      /\ \A s : Heard(s) /\ ~Heard(s)' =>
            /\ TakeIncoming /\ incoming' # incoming
            /\ s = Command.slug /\ Command.body = retained["enabled"][s]
  <2>1. CASE incoming' = incoming
    BY <1>2, <2>1 DEF RegistryInv, LastMessageIsRetained, Heard
  <2>2. CASE incoming' # incoming
    <3>1. TakeIncoming
      BY <1>2, <2>2 DEF Answers
    <3> QED
      BY <1>2, <2>2, <3>1, RegistryFacts, TakenMessage DEF RegistryInv
  <2> QED
    BY <2>1, <2>2
<1>5. ASSUME NEW topic, NEW s, ~Spoken(topic, s)'
      PROVE  ~Spoken(topic, s) /\ ~Covers(Words(msgs), Word(topic, s, None))
  BY <1>2, <1>5 DEF Spoken, Covers
<1>6. NoTriggers'
  <2>1. SUFFICES ASSUME ~HassEnabled, NEW k \in DOMAIN outbox',
                        outbox'[k].topic = "discovery"
                 PROVE  outbox'[k].body = None
    BY <1>2 DEF RegistryInv, NoTriggers
  <2>2. outbox'[k] \in Words(outbox) \cup Words(msgs)
    BY <1>2, <2>1 DEF Words
  <2>3. CASE outbox'[k] \in Words(outbox)
    BY <2>1, <2>3 DEF RegistryInv, NoTriggers, Words
  <2>4. CASE outbox'[k] \in Words(msgs)
    <3>1. IsCurrent(devices', outbox'[k])
      BY <1>2, <2>4 DEF Follow
    <3> QED
      BY <2>1, <3>1 DEF IsCurrent, Says
  <2> QED
    BY <2>2, <2>3, <2>4
<1>7. Shown'
  <2>1. SUFFICES ASSUME NEW s \in SlugsOf(devices'), NEW topic \in Topics, ~Owed(s)',
                        ~Spoken(topic, s)', topic = "enabled" => ~Heard(s)'
                 PROVE  IsCurrent(devices', RetainedWord(topic, s))
    BY <1>2 DEF Shown, RetainedWord
  <2>2. ~Spoken(topic, s) /\ ~Covers(Words(msgs), Word(topic, s, None))
    BY <1>5, <2>1
  <2>3. s \in Slugs
    <3>1. SlugsOf(devices') \subseteq Slugs
      <4>1. devices' \in Seq(Record)
        BY DEF BridgeTypes, TypeInv, DbInv, DbTypeOK
      <4>2. \A i \in DOMAIN devices' : devices'[i] \in Record
        BY <4>1, ElementOfSeq
      <4>3. \A rec \in Record : rec.slug \in Slugs
        BY DEF Record
      <4> QED
        BY <4>2, <4>3 DEF SlugsOf
    <3> QED
      BY <2>1, <3>1
  <2>4. CASE s \notin SlugsOf(devices) \/ Owed(s)
    <3>1. topic = "discovery" /\ ~HassEnabled
      BY <1>2, <2>1, <2>2, <2>4 DEF Introduces, Topics
    <3>2. retained[topic][s] = None
      BY <2>3, <3>1 DEF RegistryInv, NoTriggers
    <3>3. PICK i \in DOMAIN devices' : devices'[i].slug = s
      BY <2>1 DEF SlugsOf
    <3>4. Says(devices'[i], topic, None)
      BY <3>1 DEF Says
    <3> QED
      BY <2>1, <3>2, <3>3, <3>4 DEF IsCurrent, RetainedWord, Word
  <2>5. CASE /\ s \in SlugsOf(devices) /\ ~Owed(s)
             /\ topic = "enabled" /\ Heard(s)
    <3>1. /\ TakeIncoming /\ incoming' # incoming
          /\ s = Command.slug /\ Command.body = retained["enabled"][s]
      BY <1>4, <2>1, <2>5
    <3>2. Command.slug # None /\ Command.body # "junk"
      <4>1. 1 \in DOMAIN incoming /\ Command = incoming[1]
        BY <3>1, RegistryFacts DEF TakeIncoming, Command
      <4>2. Command.slug \in Slugs /\ Command.body \in {"on", "off", None}
        BY <4>1, RegistryFacts, DeliveryLemma
      <4> QED
        BY <4>2, NoneAssumption, AbsenceAssumption
    <3>3. IsCurrent(devices', Word("enabled", Command.slug, Command.body))
      BY <1>2, <2>1, <3>1, <3>2 DEF Answers
    <3> QED
      BY <2>5, <3>1, <3>3 DEF RetainedWord
  <2>6. CASE /\ s \in SlugsOf(devices) /\ ~Owed(s)
             /\ ~(topic = "enabled" /\ Heard(s))
    <3>1. IsCurrent(devices, RetainedWord(topic, s))
      BY <2>1, <2>2, <2>6 DEF RegistryInv, Shown
    <3>2. RetainedWord(topic, s) \in Publication
      BY <2>1, <2>3, RegistryFacts DEF RetainedTypes, RetainedWord
    <3>3. ~Covers(Words(msgs), RetainedWord(topic, s))
      BY <2>2 DEF Covers, RetainedWord, Word
    <3> QED
      BY <1>2, <3>1, <3>2, <3>3 DEF Follow
  <2> QED
    BY <2>4, <2>5, <2>6
<1>8. Gone'
  <2>1. SUFFICES ASSUME spent.deaths = 0, NEW s \in Slugs \ SlugsOf(devices'),
                        NEW topic \in Topics, ~Spoken(topic, s)'
                 PROVE  Left(topic, s)'
    BY <1>2 DEF Gone
  <2>2. CASE s \notin SlugsOf(devices)
    <3>1. Left(topic, s)
      BY <1>5, <2>1, <2>2 DEF RegistryInv, Gone
    <3>2. asked'[s] = asked[s]
      BY <2>1 DEF BridgeHandle
    <3> QED
      BY <1>2, <3>1, <3>2 DEF Left
  <2>3. CASE msgs = Clears(s)
    <3>1. Clear(topic, s) \in ClearWords(s)
      BY <2>1 DEF ClearWords, Topics
    <3>2. Words(Clears(s)) = ClearWords(s)
      BY DEF Words, Clears, ClearWords
    <3>3. Spoken(topic, s)'
      BY <1>2, <2>3, <3>1, <3>2 DEF Spoken, Covers, Clear, Word
    <3> QED
      BY <2>1, <3>3
  <2> QED
    BY <1>2, <2>1, <2>2, <2>3 DEF Forgets
<1> QED
  BY <1>3, <1>4, <1>6, <1>7, <1>8 DEF RegistryInv

(* Every step of the exchange keeps the invariant.                          *)
LEMMA RegistryStep == RegistryInv /\ [BridgeNext]_bridgeVars => RegistryInv'
<1> SUFFICES ASSUME RegistryInv, [BridgeNext]_bridgeVars PROVE RegistryInv'
  OBVIOUS
<1>0. BridgeTypes'
  BY BridgeTypesStep DEF RegistryInv
<1>1. CASE BridgeStart \/ BridgeDie \/ BridgeHandle \/ BridgeTransmit
  BY <1>0, <1>1, RegistryStart, RegistryDie, RegistryHandle, RegistryTransmit
<1>2. ASSUME NEW slug \in Slugs, NEW body \in {"on", "off", None},
             UserPublishes(slug, body)
      PROVE  RegistryInv'
  BY <1>0, <1>2, RegistryUser
<1>3. ASSUME NEW id \in Identities, NEW path \in Paths, BridgeSight(id, path)
      PROVE  RegistryInv'
  <2>1. /\ UNCHANGED <<devices, todo, outbox, incoming, retained, asked>>
        /\ spent' = [spent EXCEPT !.sightings = @ + 1]
    BY <1>3 DEF BridgeSight, Sight, dbVars
  <2>2. spent'.deaths = spent.deaths
    BY <2>1, RegistryFacts DEF HistoryTypes
  <2> QED
    BY <1>0, <2>1, <2>2, QuietRegistryStep
<1>4. ASSUME NEW t \in Tasks, BridgeTask(t) PROVE RegistryInv'
  <2>1. UNCHANGED <<devices, todo, outbox, incoming, retained, asked, spent>>
    BY <1>4 DEF BridgeTask, TaskKey, TaskFails, TaskStops, dbVars, channelVars
  <2> QED
    BY <1>0, <2>1, QuietRegistryStep
<1>5. CASE UNCHANGED bridgeVars
  BY <1>0, <1>5, QuietRegistryStep DEF bridgeVars, vars
<1> QED
  BY <1>1, <1>2, <1>3, <1>4, <1>5 DEF BridgeNext

(* So it holds in every state.                                              *)
LEMMA RegistryInvariance == BridgeSpec => []RegistryInv
  BY RegistryInitially, RegistryStep, PTL DEF BridgeSpec

(* When nothing is under way there is nothing to wait for.                  *)
LEMMA QuietFacts ==
    ASSUME RegistryInv, Quiet
    PROVE  \A s : /\ ~Owed(s) /\ ~Heard(s)
                  /\ \A topic : ~Spoken(topic, s)
<1>1. incoming = <<>> /\ outbox = <<>> /\ todo = 0
  BY DEF Quiet
<1>2. \A s : ~Owed(s)
  BY <1>1, RegistryFacts, NothingOwed DEF Owed
<1> QED
  BY <1>1, <1>2 DEF Heard, Spoken, Covers, Words

(* When nothing is under way the broker shows what the registry holds,      *)
(* however many devices, users and restarts there were.                     *)
THEOREM BrokerAlwaysShowsTheRegistry == BridgeSpec => []BrokerShowsTheRegistry
<1>1. RegistryInv => BrokerShowsTheRegistry
  <2>1. SUFFICES ASSUME RegistryInv, Quiet, NEW i \in DOMAIN devices, NEW topic \in Topics
                 PROVE  Says(devices[i], topic, retained[topic][devices[i].slug])
    BY DEF BrokerShowsTheRegistry
  <2> DEFINE s == devices[i].slug
  <2>2. s \in SlugsOf(devices)
    BY <2>1 DEF SlugsOf
  <2>3. IsCurrent(devices, RetainedWord(topic, s))
    BY <2>1, <2>2, QuietFacts DEF RegistryInv, Shown
  <2>4. \E j \in DOMAIN devices :
           devices[j].slug = s /\ Says(devices[j], topic, retained[topic][s])
    BY <2>2, <2>3 DEF IsCurrent, RetainedWord, Word
  <2> QED
    BY <2>1, <2>4, RegistryFacts DEF UniqueSlugs
<1> QED
  BY <1>1, RegistryInvariance, PTL

(* Without a death of the daemon, nothing the daemon said is retained of a  *)
(* slug it does not know once its clears have gone out, whatever users      *)
(* publish meanwhile: at most their own last word is.                       *)
THEOREM RemovedDevicesAreGone == BridgeSpec => []RemovedIsGone
<1>1. RegistryInv => RemovedIsGone
  <2>1. SUFFICES ASSUME RegistryInv, Quiet, spent.deaths = 0,
                        NEW s \in Slugs \ SlugsOf(devices)
                 PROVE  /\ retained["info"][s] = None
                        /\ retained["discovery"][s] = None
                        /\ retained["enabled"][s] \in {None, asked[s]}
    BY DEF RemovedIsGone
  <2>2. \A topic \in Topics : Left(topic, s)
    BY <2>1, QuietFacts DEF RegistryInv, Gone
  <2>3. Left("info", s) /\ Left("discovery", s) /\ Left("enabled", s)
    BY <2>2 DEF Topics
  <2> QED
    BY <2>3 DEF Left
<1> QED
  BY <1>1, RegistryInvariance, PTL

-----------------------------------------------------------------------------
(* Patient users.                                                           *)

(* A user's command for the slug is under way; a switch, or nothing, is     *)
(* under way on its enabled topic, to the daemon or from it; the registry   *)
(* holds that.                                                              *)
Commanded(s) == \E k \in DOMAIN incoming : origins[k] = "user" /\ incoming[k].slug = s

UnderWay(s, body) ==
    \/ \E k \in DOMAIN incoming : incoming[k].slug = s /\ incoming[k].body = body
    \/ \E w \in Mirrors(outbox) : w.slug = s /\ w.body = body

Holds(s, body) == IsCurrent(devices, Word("enabled", s, body))

(* The last command for the slug, if its device is still known, is obeyed.  *)
Settles(s) ==
    asked[s] # "nothing" /\ (s \in SlugsOf(devices) \/ asked[s] = None)
    => Holds(s, asked[s])

(* What is under way says what the registry holds already ...               *)
IsUpToDate(s) == \A body : UnderWay(s, body) => Holds(s, body)

(* ... or is left of the announcements and clears of a device that had the  *)
(* slug before: the one that has it now, if any, is new and off.            *)
IsNewSince(s) ==
    /\ \A body : UnderWay(s, body) => body \in {"off", None}
    /\ s \in SlugsOf(devices) => Holds(s, "off") /\ asked[s] = "nothing"

Agrees(s) == Settles(s) /\ (IsUpToDate(s) \/ IsNewSince(s))

(* The command of a patient user is for a known device, and nothing else is *)
(* under way on its topic.                                                  *)
CommandIsAlone ==
    \A k \in DOMAIN incoming :
        origins[k] = "user" =>
            /\ todo = 0
            /\ incoming[k].slug \in SlugsOf(devices)
            /\ asked[incoming[k].slug] = incoming[k].body
            /\ \A l \in DOMAIN incoming : l # k => incoming[l].slug # incoming[k].slug
            /\ \A w \in Mirrors(outbox) : w.slug # incoming[k].slug

OthersAgree == \A s \in Slugs : ~Commanded(s) => Agrees(s)

(* Before its first start the daemon has been asked nothing.                *)
NothingAskedYet == ~loaded => \A s \in Slugs : asked[s] = "nothing"

(* Inductive with the registry's invariant: it is Gone that says that a     *)
(* device the broker lists is known, and that nothing is replayed to the    *)
(* first start.                                                             *)
PatientInv ==
    /\ RegistryInv
    /\ Patience => CommandIsAlone /\ OthersAgree /\ NothingAskedYet

(* At first nobody has asked for anything.                                  *)
LEMMA PatientInitially == BridgeInit => PatientInv
<1> SUFFICES ASSUME BridgeInit PROVE PatientInv
  OBVIOUS
<1>1. /\ incoming = <<>> /\ outbox = <<>>
      /\ \A s \in Slugs : asked[s] = "nothing"
  BY DEF BridgeInit, Init
<1>2. \A s, body : ~UnderWay(s, body)
  BY <1>1 DEF UnderWay, Mirrors, Words
<1>3. CommandIsAlone /\ OthersAgree /\ NothingAskedYet
  BY <1>1, <1>2
     DEF CommandIsAlone, OthersAgree, Agrees, Settles, IsUpToDate, NothingAskedYet
<1> QED
  BY <1>3, RegistryInitially DEF PatientInv

(* What the registry holds of a slug is its switch, or nothing.             *)
LEMMA HoldsTheSwitch ==
    ASSUME RegistryInv, NEW s, NEW body
    PROVE  Holds(s, body) <=>
              IF s \in SlugsOf(devices)
              THEN body = IF EnabledIn(devices, s) THEN "on" ELSE "off"
              ELSE body = None
  BY RegistryFacts, EnabledIsCurrent DEF Holds

LEMMA HoldsTheSwitchNext ==
    ASSUME RegistryInv', NEW s, NEW body
    PROVE  Holds(s, body)' <=>
              IF s \in SlugsOf(devices')
              THEN body = IF EnabledIn(devices', s) THEN "on" ELSE "off"
              ELSE body = None
<1>1. devices' \in Seq(Record) /\ UniqueSlugs(devices')
  BY DEF RegistryInv, BridgeTypes, TypeInv, DbInv, DbTypeOK, KeptApart,
         UniqueSlugs
<1> QED
  BY <1>1, EnabledIsCurrent DEF Holds

(* A slug whose switch a step leaves alone, and to whose messages it adds   *)
(* at most what the registry holds, still agrees.                           *)
LEMMA AgreementStays ==
    ASSUME RegistryInv, RegistryInv', NEW s, Agrees(s), SameSwitch(s),
           asked'[s] = asked[s],
           \A body : UnderWay(s, body)' => UnderWay(s, body) \/ Holds(s, body)'
    PROVE  Agrees(s)'
<1>1. \A body : Holds(s, body)' <=> Holds(s, body)
  BY HoldsTheSwitch, HoldsTheSwitchNext DEF SameSwitch
<1>2. Settles(s)'
  BY <1>1 DEF Agrees, Settles, SameSwitch
<1>3. CASE IsUpToDate(s)
  <2>1. IsUpToDate(s)'
    BY <1>1, <1>3 DEF IsUpToDate
  <2> QED
    BY <1>2, <2>1 DEF Agrees
<1>4. CASE IsNewSince(s)
  <2>1. \A body : Holds(s, body) => body \in {"off", None}
    <3>1. CASE s \in SlugsOf(devices)
      <4>1. Holds(s, "off")
        BY <1>4, <3>1 DEF IsNewSince
      <4> QED
        BY <3>1, <4>1, HoldsTheSwitch
    <3>2. CASE s \notin SlugsOf(devices)
      BY <3>2, HoldsTheSwitch
    <3> QED
      BY <3>1, <3>2
  <2>2. IsNewSince(s)'
    BY <1>1, <1>4, <2>1 DEF IsNewSince, SameSwitch
  <2> QED
    BY <1>2, <2>2 DEF Agrees
<1> QED
  BY <1>3, <1>4 DEF Agrees

(* A step that touches neither the registry, nor the queues to the broker   *)
(* and back, nor what was asked.                                            *)
LEMMA QuietPatientStep ==
    ASSUME PatientInv, RegistryInv', Patience' => Patience,
           UNCHANGED <<devices, loaded, todo, incoming, origins, outbox, asked>>
    PROVE  PatientInv'
<1>1. SUFFICES ASSUME Patience
               PROVE  CommandIsAlone' /\ OthersAgree' /\ NothingAskedYet'
  BY DEF PatientInv
<1>2. CommandIsAlone /\ OthersAgree /\ NothingAskedYet
  BY <1>1 DEF PatientInv
<1>3. CommandIsAlone' /\ NothingAskedYet'
  BY <1>2 DEF CommandIsAlone, NothingAskedYet
<1>4. OthersAgree'
  BY <1>2 DEF OthersAgree, Commanded, Agrees, Settles, IsUpToDate, IsNewSince,
              Holds, UnderWay
<1> QED
  BY <1>3, <1>4

(* A new process: the first one has nothing replayed.                       *)
LEMMA PatientStart ==
    ASSUME PatientInv, RegistryInv', BridgeStart
    PROVE  PatientInv'
<1>1. PICK replay \in Replayed :
         Start(replay) /\ origins' = [k \in DOMAIN replay |-> "broker"]
  BY DEF BridgeStart
<1>2. /\ ~loaded /\ loaded' /\ incoming' = replay
      /\ UNCHANGED <<outbox, retained, asked, manner, spent>>
  BY <1>1 DEF BridgeStart, Start, Load
<1>3. RegistryInv
  BY DEF PatientInv
<1>4. /\ outbox = <<>> /\ devices = <<>>
      /\ RetainedTypes
  BY <1>2, <1>3, RegistryFacts DEF IdleIsSilent
<1>5. SUFFICES ASSUME Patience
               PROVE  CommandIsAlone' /\ OthersAgree' /\ NothingAskedYet'
  BY <1>2 DEF PatientInv, Patience
<1>6. \A s \in Slugs : asked[s] = "nothing"
  BY <1>2, <1>5 DEF PatientInv, NothingAskedYet
<1>7. Held = {}
  <2>1. \A s \in Slugs : ~Spoken("enabled", s) /\ s \notin SlugsOf(devices)
    BY <1>4 DEF Spoken, Covers, Words, SlugsOf
  <2>2. spent.deaths = 0
    BY <1>5 DEF Patience
  <2>3. \A s \in Slugs : Left("enabled", s)
    BY <1>3, <2>1, <2>2 DEF RegistryInv, Gone, Topics
  <2>4. \A s \in Slugs : retained["enabled"][s] \in {"on", "off", None}
    <3>1. ASSUME NEW s \in Slugs PROVE retained["enabled"][s] \in {"on", "off", None}
      <4>1. Word("enabled", s, retained["enabled"][s]) \in Publication
        BY <1>4 DEF RetainedTypes, Topics
      <4> QED
        BY <4>1 DEF Publication, Word
    <3> QED
      BY <3>1
  <2> QED
    BY <1>6, <2>3, <2>4, NothingAssumption DEF Left, Held
<1>8. incoming' = <<>>
  <2>1. replay \in Seq(Delivery) /\ \A k \in DOMAIN replay : replay[k].slug \in Held
    BY <1>4, ReplayLemma
  <2>2. replay = <<>>
    <3>1. replay # <<>> => 1 \in DOMAIN replay
      BY <2>1
    <3> QED
      BY <1>7, <2>1, <3>1
  <2> QED
    BY <1>2, <2>2
<1>9. \A s, body : ~UnderWay(s, body)'
  BY <1>2, <1>4, <1>8 DEF UnderWay, Mirrors, Words
<1>10. CommandIsAlone' /\ NothingAskedYet'
  BY <1>2, <1>8 DEF CommandIsAlone, NothingAskedYet
<1>11. OthersAgree'
  BY <1>2, <1>6, <1>9 DEF OthersAgree, Agrees, Settles, IsUpToDate
<1> QED
  BY <1>10, <1>11

(* A mirror reaches the broker and comes back.                              *)
LEMMA PatientTransmit ==
    ASSUME PatientInv, RegistryInv', BridgeTransmit
    PROVE  PatientInv'
<1> DEFINE msg  == Head(outbox)
           back == [slug |-> msg.slug, body |-> msg.body]
<1>1. /\ outbox # <<>> /\ outbox' = Tail(outbox)
      /\ UNCHANGED <<devices, loaded, todo, asked, manner, spent>>
      /\ IF msg.topic = "enabled"
         THEN incoming' = Append(incoming, back) /\ origins' = Append(origins, "daemon")
         ELSE UNCHANGED <<incoming, origins>>
  BY DEF BridgeTransmit, dbVars
<1>2. RegistryInv /\ HistoryTypes
  BY RegistryFacts DEF PatientInv
<1>3. Words(outbox) = {msg} \cup Words(outbox')
  BY <1>1, <1>2, RegistryFacts, TailWords
<1>4. /\ back.slug = msg.slug /\ back.body = msg.body
  OBVIOUS
<1> HIDE DEF msg, back
<1>5. /\ \A w \in Mirrors(outbox') : w \in Mirrors(outbox)
      /\ msg.topic = "enabled" => msg \in Mirrors(outbox)
  BY <1>3 DEF Mirrors
<1>6. SUFFICES ASSUME Patience
               PROVE  CommandIsAlone' /\ OthersAgree' /\ NothingAskedYet'
  BY <1>1 DEF PatientInv, Patience
<1>7. CommandIsAlone /\ OthersAgree /\ NothingAskedYet
  BY <1>6 DEF PatientInv
<1>8. /\ DOMAIN incoming \subseteq DOMAIN incoming'
      /\ \A k \in DOMAIN incoming : incoming'[k] = incoming[k] /\ origins'[k] = origins[k]
      /\ \A k \in DOMAIN incoming' :
            \/ k \in DOMAIN incoming
            \/ /\ incoming'[k] = back /\ origins'[k] = "daemon"
               /\ msg \in Mirrors(outbox)
  <2>1. CASE msg.topic = "enabled"
    <3>1. /\ DOMAIN incoming = 1..Len(incoming) /\ Len(incoming) \in Nat
          /\ DOMAIN incoming' = 1..(Len(incoming) + 1)
          /\ \A k \in DOMAIN incoming : incoming'[k] = incoming[k]
          /\ incoming'[Len(incoming) + 1] = back
      <4>1. incoming \in Seq(Delivery) /\ incoming' = Append(incoming, back)
        BY <1>1, <1>2, <2>1 DEF HistoryTypes
      <4>2. back \in Delivery
        <5>1. msg \in Publication
          BY <1>1, <1>2, RegistryFacts, HeadTailProperties DEF msg
        <5> QED
          BY <2>1, <5>1 DEF back, Publication, Delivery
      <4> QED
        BY <4>1, <4>2, AppendProperties
    <3>2. /\ DOMAIN origins = 1..Len(incoming)
          /\ \A k \in DOMAIN origins : origins'[k] = origins[k]
          /\ origins'[Len(incoming) + 1] = "daemon"
      <4>1. /\ origins \in Seq({"broker", "daemon", "user"})
            /\ Len(origins) = Len(incoming)
            /\ origins' = Append(origins, "daemon")
        BY <1>1, <1>2, <2>1 DEF HistoryTypes
      <4> QED
        BY <4>1, AppendProperties
    <3> QED
      BY <1>5, <2>1, <3>1, <3>2
  <2>2. CASE msg.topic # "enabled"
    BY <1>1, <2>2
  <2> QED
    BY <2>1, <2>2
<1>9. CommandIsAlone'
  <2>1. SUFFICES ASSUME NEW k \in DOMAIN incoming', origins'[k] = "user"
                 PROVE  /\ todo' = 0
                        /\ incoming'[k].slug \in SlugsOf(devices')
                        /\ asked'[incoming'[k].slug] = incoming'[k].body
                        /\ \A l \in DOMAIN incoming' :
                              l # k => incoming'[l].slug # incoming'[k].slug
                        /\ \A w \in Mirrors(outbox') : w.slug # incoming'[k].slug
    BY DEF CommandIsAlone
  <2>2. /\ k \in DOMAIN incoming /\ incoming'[k] = incoming[k]
        /\ origins[k] = "user"
    BY <1>8, <2>1
  <2>3. \A l \in DOMAIN incoming' : l # k => incoming'[l].slug # incoming'[k].slug
    BY <1>4, <1>7, <1>8, <2>2 DEF CommandIsAlone
  <2> QED
    BY <1>1, <1>5, <1>7, <2>2, <2>3 DEF CommandIsAlone
<1>10. OthersAgree'
  <2>1. SUFFICES ASSUME NEW s \in Slugs, ~Commanded(s)' PROVE Agrees(s)'
    BY DEF OthersAgree
  <2>2. Agrees(s)
    BY <1>7, <1>8, <2>1 DEF OthersAgree, Commanded
  <2>3. ASSUME NEW body, UnderWay(s, body)' PROVE UnderWay(s, body)
    BY <1>4, <1>5, <1>8, <2>3 DEF UnderWay
  <2>4. SameSwitch(s)
    BY <1>1 DEF SameSwitch
  <2> QED
    BY <1>1, <1>2, <2>2, <2>3, <2>4, AgreementStays
<1>11. NothingAskedYet'
  BY <1>1, <1>7 DEF NothingAskedYet
<1> QED
  BY <1>9, <1>10, <1>11

(* A patient user acts when nothing is under way, on a device that the      *)
(* broker lists, which is known.                                            *)
LEMMA PatientUser ==
    ASSUME PatientInv, RegistryInv', NEW slug \in Slugs,
           NEW body \in {"on", "off", None}, UserPublishes(slug, body)
    PROVE  PatientInv'
<1> DEFINE msg == [slug |-> slug, body |-> body]
<1>1. /\ UsersAct(slug)
      /\ asked' = [asked EXCEPT ![slug] = body]
      /\ UNCHANGED <<devices, loaded, todo, outbox, manner>>
      /\ spent' = [spent EXCEPT !.commands = @ + 1]
      /\ loaded => /\ incoming' = Append(incoming, msg)
                   /\ origins' = Append(origins, "user")
  BY DEF UserPublishes, dbVars
<1>2. /\ RegistryInv /\ HistoryTypes
  BY RegistryFacts DEF PatientInv
<1>3. SUFFICES ASSUME Patience
               PROVE  CommandIsAlone' /\ OthersAgree' /\ NothingAskedYet'
  <2>1. spent'.deaths = spent.deaths
    BY <1>1, <1>2 DEF HistoryTypes
  <2> QED
    BY <1>1, <2>1 DEF PatientInv, Patience
<1>4. Quiet /\ retained["info"][slug] # None
  BY <1>1, <1>3 DEF UsersAct, Patience
<1>5. slug \in SlugsOf(devices)
  <2>1. SUFFICES ASSUME slug \notin SlugsOf(devices) PROVE FALSE
    OBVIOUS
  <2>2. Left("info", slug)
    BY <1>2, <1>3, <1>4, <2>1, QuietFacts DEF RegistryInv, Gone, Topics, Patience
  <2> QED
    BY <1>4, <2>2 DEF Left
<1>6. /\ loaded /\ todo = 0 /\ incoming = <<>> /\ outbox = <<>> /\ origins = <<>>
  BY <1>2, <1>4 DEF Quiet, HistoryTypes
<1>7. /\ incoming' = <<msg>> /\ origins' = <<"user">>
      /\ asked'[slug] = body
      /\ \A s \in Slugs : s # slug => asked'[s] = asked[s]
  BY <1>1, <1>2, <1>6 DEF HistoryTypes
<1>8. Mirrors(outbox') = {}
  BY <1>1, <1>6 DEF Mirrors, Words
<1>9. DOMAIN incoming' = {1} /\ incoming'[1].slug = slug /\ incoming'[1].body = body
  BY <1>7
<1>10. CommandIsAlone' /\ NothingAskedYet'
  BY <1>1, <1>5, <1>6, <1>7, <1>8, <1>9 DEF CommandIsAlone, NothingAskedYet
<1>11. OthersAgree'
  <2>1. SUFFICES ASSUME NEW s \in Slugs, ~Commanded(s)' PROVE Agrees(s)'
    BY DEF OthersAgree
  <2>2. s # slug
    BY <1>7, <1>9, <2>1 DEF Commanded
  <2>3. Agrees(s)
    BY <1>3, <1>6 DEF PatientInv, OthersAgree, Commanded
  <2>4. \A b : ~UnderWay(s, b)'
    BY <1>8, <1>9, <2>2 DEF UnderWay
  <2>5. SameSwitch(s) /\ asked'[s] = asked[s]
    BY <1>1, <1>7, <2>2 DEF SameSwitch
  <2> QED
    BY <1>2, <2>3, <2>4, <2>5, AgreementStays
<1> QED
  BY <1>10, <1>11

(* What a step of the coordinator adds to what is under way is what the     *)
(* registry holds.                                                          *)
LEMMA HandledUnderWay ==
    ASSUME RegistryInv, NEW msgs \in Seq(Publication), Reaction(msgs)
    PROVE  \A s, body : UnderWay(s, body)' => UnderWay(s, body) \/ Holds(s, body)'
<1>1. SUFFICES ASSUME NEW s, NEW body, UnderWay(s, body)', ~UnderWay(s, body)
               PROVE  Holds(s, body)'
  OBVIOUS
<1>2. \A k \in DOMAIN incoming' : \E l \in DOMAIN incoming : incoming'[k] = incoming[l]
  <2>1. CASE incoming' = incoming
    BY <2>1
  <2>2. CASE TakeIncoming
    <3>1. /\ incoming # <<>> /\ incoming' = Tail(incoming)
          /\ incoming \in Seq(Delivery)
      BY <2>2, RegistryFacts DEF TakeIncoming
    <3>2. \A k \in DOMAIN incoming' : k + 1 \in DOMAIN incoming /\ incoming'[k] = incoming[k + 1]
      BY <3>1, HeadTailProperties
    <3> QED
      BY <3>2
  <2> QED
    BY <2>1, <2>2 DEF Reaction, Answers
<1>3. PICK w \in Mirrors(outbox') : w \notin Mirrors(outbox) /\ w.slug = s /\ w.body = body
  BY <1>1, <1>2 DEF UnderWay
<1>4. w \in Words(msgs) /\ w.topic = "enabled"
  <2>1. Words(outbox') = Words(outbox) \cup Words(msgs)
    BY RegistryFacts, ConcatWords DEF Reaction
  <2> QED
    BY <1>3, <2>1 DEF Mirrors
<1>5. IsCurrent(devices', w)
  BY <1>4 DEF Reaction, Follow
<1> QED
  BY <1>3, <1>4, <1>5 DEF Holds, IsCurrent, Word

(* A handler that only announces, introduces or observes.                   *)
LEMMA PatientAside ==
    ASSUME PatientInv, RegistryInv', Patience, BridgeHandle,
           Announces \/ Introducing \/ Observes
    PROVE  PatientInv'
<1>1. /\ Handle /\ incoming' = incoming /\ origins' = origins
      /\ \A s \in Slugs :
            asked'[s] = IF s \in SlugsOf(devices') \ SlugsOf(devices)
                        THEN "nothing" ELSE asked[s]
  BY DEF BridgeHandle, Announces, Introducing, Observes
<1>2. /\ RegistryInv /\ TypeInv /\ CommandIsAlone /\ OthersAgree
      /\ SlugsOf(devices) \subseteq Slugs
  BY RegistryFacts DEF PatientInv
<1>3. PICK msgs \in Seq(Publication) : Reaction(msgs)
  BY <1>1, <1>2, HandleReaction
<1>4. \A s, body : UnderWay(s, body)' => UnderWay(s, body) \/ Holds(s, body)'
  BY <1>2, <1>3, HandledUnderWay
<1>5. NothingAskedYet'
  BY <1>3 DEF Reaction, NothingAskedYet
<1>6. \A s : \/ SameSwitch(s)
             \/ /\ s \in SlugsOf(devices') \ SlugsOf(devices)
                /\ EnabledIn(devices', s) <=> EnabledIn(devices, s)
  BY DEF Announces, Introducing, Observes, SameSwitch, dbVars
<1>7. CommandIsAlone'
  <2>1. CASE Announces
    <3>1. todo # 0
      BY <1>2, <2>1 DEF Announces, TypeInv
    <3> QED
      BY <1>1, <1>2, <3>1 DEF CommandIsAlone
  <2>2. CASE Introducing \/ Observes
    <3>1. /\ todo' = todo /\ SlugsOf(devices) \subseteq SlugsOf(devices')
          /\ \A w \in Mirrors(outbox') :
                w \in Mirrors(outbox) \/ w.slug \notin SlugsOf(devices)
      BY <2>2 DEF Introducing, Observes, SameSwitch, MirrorsOnly
    <3> QED
      BY <1>1, <1>2, <3>1 DEF CommandIsAlone
  <2> QED
    BY <2>1, <2>2
<1>8. OthersAgree'
  <2>1. SUFFICES ASSUME NEW s \in Slugs, ~Commanded(s)' PROVE Agrees(s)'
    BY DEF OthersAgree
  <2>2. Agrees(s)
    BY <1>1, <1>2, <2>1 DEF OthersAgree, Commanded
  <2>3. CASE SameSwitch(s)
    <3>1. asked'[s] = asked[s]
      BY <1>1, <2>3 DEF SameSwitch
    <3> QED
      BY <1>2, <1>4, <2>2, <2>3, <3>1, AgreementStays
  <2>4. CASE /\ s \in SlugsOf(devices') \ SlugsOf(devices)
             /\ EnabledIn(devices', s) <=> EnabledIn(devices, s)
    <3>1. ~EnabledIn(devices', s)
      BY <2>4 DEF EnabledIn, SlugsOf
    <3>2. \A body : Holds(s, body)' <=> body = "off"
      BY <2>4, <3>1, HoldsTheSwitchNext
    <3>3. \A body : UnderWay(s, body) => body \in {"off", None}
      BY <1>2, <2>2, <2>4, HoldsTheSwitch DEF Agrees, IsUpToDate, IsNewSince
    <3>4. asked'[s] = "nothing"
      BY <1>1, <2>4
    <3>5. IsNewSince(s)'
      BY <1>4, <3>2, <3>3, <3>4 DEF IsNewSince
    <3> QED
      BY <3>4, <3>5 DEF Agrees, Settles
  <2> QED
    BY <1>6, <2>3, <2>4
<1> QED
  BY <1>5, <1>7, <1>8 DEF PatientInv

(* A message that is no user's is either what the registry holds, or names  *)
(* a slug it does not know, or is the echo of the clear of a removal that   *)
(* meets a new device.                                                      *)
LEMMA EchoesAreKnown ==
    ASSUME PatientInv, Patience, TakeIncoming, origins[1] # "user"
    PROVE  /\ ~Commanded(Command.slug) /\ Agrees(Command.slug)
           /\ \/ Holds(Command.slug, Command.body)
              \/ Command.slug \notin SlugsOf(devices)
              \/ /\ Command.body = None /\ asked[Command.slug] = "nothing"
                 /\ IsNewSince(Command.slug)
<1>1. /\ RegistryInv /\ CommandIsAlone /\ OthersAgree
      /\ incoming \in Seq(Delivery) /\ incoming # <<>>
  BY RegistryFacts DEF PatientInv, TakeIncoming
<1>2. 1 \in DOMAIN incoming /\ Command = incoming[1] /\ Command.slug \in Slugs
  BY <1>1, DeliveryLemma DEF Command
<1>3. ~Commanded(Command.slug)
  BY <1>1, <1>2 DEF Commanded, CommandIsAlone
<1>4. Agrees(Command.slug) /\ UnderWay(Command.slug, Command.body)
  BY <1>1, <1>2, <1>3 DEF OthersAgree, UnderWay
<1>5. CASE IsUpToDate(Command.slug)
  BY <1>3, <1>4, <1>5 DEF IsUpToDate
<1>6. CASE IsNewSince(Command.slug)
  BY <1>3, <1>4, <1>6 DEF IsNewSince
<1> QED
  BY <1>4, <1>5, <1>6 DEF Agrees

(* A message of the broker that a patient world handles: a command is       *)
(* obeyed, an echo changes nothing or removes a new device.                 *)
LEMMA PatientObeys ==
    ASSUME PatientInv, RegistryInv', Patience, BridgeHandle, Obeys
    PROVE  PatientInv'
<1>0. PICK c, d : c = Command.slug /\ d = Command.body
  OBVIOUS
<1>1. /\ RegistryInv /\ TypeInv /\ HistoryTypes /\ CommandIsAlone /\ OthersAgree
      /\ SlugsOf(devices) \subseteq Slugs /\ incoming \in Seq(Delivery)
  BY RegistryFacts DEF PatientInv
<1>2. /\ Handle /\ TakeIncoming /\ todo' = todo
      /\ incoming # <<>> /\ incoming' = Tail(incoming)
      /\ \A s : s = c \/ SameSwitch(s)
      /\ \A s \in Slugs :
            asked'[s] = IF s \in SlugsOf(devices') \ SlugsOf(devices)
                        THEN "nothing" ELSE asked[s]
  BY <1>0 DEF Obeys, BridgeHandle, TakeIncoming
<1>3. /\ 1 \in DOMAIN incoming /\ incoming[1].slug = c /\ incoming[1].body = d
      /\ c \in Slugs /\ d \in {"on", "off", None} /\ c # None /\ d # "junk"
  <2>1. 1 \in DOMAIN incoming /\ Command = incoming[1]
    BY <1>1, <1>2 DEF Command
  <2>2. Command.slug \in Slugs /\ Command.body \in {"on", "off", None}
    BY <1>1, <2>1, DeliveryLemma
  <2> QED
    BY <1>0, <2>1, <2>2, NoneAssumption, AbsenceAssumption
<1>4. /\ \A k \in DOMAIN incoming' :
            /\ k + 1 \in DOMAIN incoming /\ k + 1 # 1
            /\ incoming'[k] = incoming[k + 1] /\ origins'[k] = origins[k + 1]
      /\ \A k \in DOMAIN incoming : k # 1 => (k - 1) \in DOMAIN incoming' /\ (k - 1) + 1 = k
  <2>1. incoming' # incoming
    BY <1>1, <1>2
  <2>2. origins' = Tail(origins) /\ origins # <<>>
        /\ origins \in Seq({"broker", "daemon", "user"}) /\ Len(origins) = Len(incoming)
    BY <1>1, <1>2, <2>1 DEF BridgeHandle, HistoryTypes
  <2>3. /\ DOMAIN incoming = 1..Len(incoming) /\ Len(incoming) \in Nat
        /\ DOMAIN incoming' = 1..(Len(incoming) - 1)
        /\ \A k \in DOMAIN incoming' : incoming'[k] = incoming[k + 1]
    BY <1>1, <1>2, HeadTailProperties
  <2>4. /\ DOMAIN origins' = 1..(Len(incoming) - 1)
        /\ \A k \in DOMAIN origins' : origins'[k] = origins[k + 1]
    BY <2>2, HeadTailProperties
  <2> QED
    BY <2>3, <2>4
<1>5. PICK msgs \in Seq(Publication) : Reaction(msgs)
  BY <1>1, <1>2, HandleReaction
<1>6. \A s, body : UnderWay(s, body)' => UnderWay(s, body) \/ Holds(s, body)'
  BY <1>1, <1>5, HandledUnderWay
<1>7. NothingAskedYet'
  BY <1>5 DEF Reaction, NothingAskedYet
<1>8. \A w \in Mirrors(outbox') : w \in Mirrors(outbox) \/ w.slug = c
  BY <1>0 DEF Obeys, MirrorsOnly
<1>9. CommandIsAlone'
  <2>1. SUFFICES ASSUME NEW k \in DOMAIN incoming', origins'[k] = "user"
                 PROVE  /\ todo' = 0
                        /\ incoming'[k].slug \in SlugsOf(devices')
                        /\ asked'[incoming'[k].slug] = incoming'[k].body
                        /\ \A l \in DOMAIN incoming' :
                              l # k => incoming'[l].slug # incoming'[k].slug
                        /\ \A w \in Mirrors(outbox') : w.slug # incoming'[k].slug
    BY DEF CommandIsAlone
  <2> DEFINE u == incoming[k + 1].slug
  <2>2. /\ k + 1 \in DOMAIN incoming /\ k + 1 # 1 /\ origins[k + 1] = "user"
        /\ incoming'[k] = incoming[k + 1]
    BY <1>4, <2>1
  <2>3. /\ todo = 0 /\ u \in SlugsOf(devices) /\ asked[u] = incoming[k + 1].body
        /\ \A l \in DOMAIN incoming : l # k + 1 => incoming[l].slug # u
        /\ \A w \in Mirrors(outbox) : w.slug # u
    BY <1>1, <2>2 DEF CommandIsAlone
  <2>4. u # c
    BY <1>3, <2>2, <2>3
  <2>5. SameSwitch(u) /\ asked'[u] = asked[u] /\ u \in SlugsOf(devices')
    BY <1>1, <1>2, <2>3, <2>4 DEF SameSwitch
  <2>6. ASSUME NEW l \in DOMAIN incoming', l # k PROVE incoming'[l].slug # u
    <3>1. l + 1 \in DOMAIN incoming /\ l + 1 # k + 1 /\ incoming'[l] = incoming[l + 1]
      <4>1. k \in Int /\ l \in Int
        BY <1>1, <1>2
      <4> QED
        BY <1>4, <2>6, <4>1
    <3> QED
      BY <2>3, <3>1
  <2> HIDE DEF u
  <2>7. incoming'[k].slug = u
    BY <2>2 DEF u
  <2> QED
    BY <1>2, <1>8, <2>2, <2>3, <2>4, <2>5, <2>6, <2>7
<1>10. ASSUME NEW s \in Slugs, s # c, ~Commanded(s)' PROVE Agrees(s)'
  <2>1. ~Commanded(s)
    <3>1. SUFFICES ASSUME NEW k \in DOMAIN incoming, origins[k] = "user",
                          incoming[k].slug = s
                   PROVE  Commanded(s)'
      BY <1>10 DEF Commanded
    <3>2. k # 1
      BY <1>3, <1>10, <3>1
    <3>3. /\ (k - 1) \in DOMAIN incoming' /\ incoming'[k - 1] = incoming[k]
          /\ origins'[k - 1] = origins[k]
      BY <1>4, <3>2
    <3> QED
      BY <3>1, <3>3 DEF Commanded
  <2>2. Agrees(s) /\ SameSwitch(s)
    BY <1>1, <1>2, <1>10, <2>1 DEF OthersAgree
  <2>3. asked'[s] = asked[s]
    BY <1>2, <2>2 DEF SameSwitch
  <2> QED
    BY <1>1, <1>6, <2>2, <2>3, AgreementStays
<1>11. ASSUME origins[1] = "user" PROVE Agrees(c)'
  <2>1. /\ asked[c] = d
        /\ \A l \in DOMAIN incoming : l # 1 => incoming[l].slug # c
        /\ \A w \in Mirrors(outbox) : w.slug # c
    BY <1>1, <1>3, <1>11 DEF CommandIsAlone
  <2>2. ASSUME NEW body, UnderWay(c, body)' PROVE Holds(c, body)'
    <3>1. \A k \in DOMAIN incoming' : incoming'[k].slug # c
      BY <1>4, <2>1
    <3>2. PICK w \in Mirrors(outbox') : w.slug = c /\ w.body = body
      BY <2>2, <3>1 DEF UnderWay
    <3>3. w \in Words(msgs) /\ w.topic = "enabled"
      <4>1. Words(outbox') = Words(outbox) \cup Words(msgs)
        BY <1>1, <1>5, RegistryFacts, ConcatWords DEF Reaction
      <4> QED
        BY <2>1, <3>2, <4>1 DEF Mirrors
    <3>4. IsCurrent(devices', w)
      BY <1>5, <3>3 DEF Reaction, Follow
    <3> QED
      BY <3>2, <3>3, <3>4 DEF Holds, IsCurrent, Word
  <2>3. Settles(c)'
    <3>1. \/ Holds(c, d)'
          \/ d # None /\ c \notin SlugsOf(devices')
      <4>1. incoming' # incoming
        BY <1>1, <1>2
      <4> QED
        BY <1>0, <1>3, <1>5, <4>1 DEF Reaction, Answers, Holds
    <3>2. asked'[c] \in {d, "nothing"}
      BY <1>2, <1>3, <2>1
    <3> QED
      BY <3>1, <3>2 DEF Settles
  <2> QED
    BY <2>2, <2>3 DEF Agrees, IsUpToDate
<1>12. ASSUME origins[1] # "user" PROVE Agrees(c)'
  <2>1. /\ Agrees(c)
        /\ \/ Holds(c, d)
           \/ c \notin SlugsOf(devices)
           \/ /\ d = None /\ asked[c] = "nothing"
              /\ IsNewSince(c)
    BY <1>0, <1>2, <1>12, EchoesAreKnown
  <2>2. CASE Holds(c, d) \/ c \notin SlugsOf(devices)
    <3>1. devices' = devices
      BY <1>0, <2>2 DEF Obeys, Holds, dbVars
    <3>2. SameSwitch(c) /\ asked'[c] = asked[c]
      BY <1>2, <1>3, <3>1 DEF SameSwitch
    <3> QED
      BY <1>1, <1>6, <2>1, <3>2, AgreementStays
  <2>3. CASE /\ d = None /\ asked[c] = "nothing"
             /\ IsNewSince(c)
    <3>1. Holds(c, None)'
      <4>1. incoming' # incoming
        BY <1>1, <1>2
      <4> QED
        BY <1>0, <1>3, <1>5, <2>3, <4>1 DEF Reaction, Answers, Holds
    <3>2. c \notin SlugsOf(devices')
      BY <3>1, HoldsTheSwitchNext, AbsenceAssumption
    <3>3. \A body : Holds(c, body)' => body = None
      BY <3>2, HoldsTheSwitchNext
    <3>4. IsNewSince(c)'
      BY <1>6, <2>3, <3>2, <3>3 DEF IsNewSince
    <3>5. asked'[c] = "nothing"
      BY <1>2, <1>3, <2>3
    <3> QED
      BY <3>4, <3>5 DEF Agrees, Settles
  <2> QED
    BY <2>1, <2>2, <2>3
<1>13. OthersAgree'
  BY <1>10, <1>11, <1>12 DEF OthersAgree
<1> QED
  BY <1>7, <1>9, <1>13 DEF PatientInv

(* Every step of the exchange keeps the patient invariant.                  *)
LEMMA PatientStep == PatientInv /\ [BridgeNext]_bridgeVars => PatientInv'
<1> SUFFICES ASSUME PatientInv, [BridgeNext]_bridgeVars PROVE PatientInv'
  OBVIOUS
<1>0. RegistryInv'
  BY RegistryStep DEF PatientInv
<1>1. CASE BridgeStart \/ BridgeTransmit
  BY <1>0, <1>1, PatientStart, PatientTransmit
<1>2. CASE BridgeHandle
  <2>1. CASE Patience
    <3>1. Announces \/ Introducing \/ Observes \/ Obeys
      BY <1>2, HandleSwitches, RegistryFacts DEF BridgeHandle, PatientInv
    <3> QED
      BY <1>0, <1>2, <2>1, <3>1, PatientAside, PatientObeys
  <2>2. CASE ~Patience
    BY <1>0, <1>2, <2>2 DEF BridgeHandle, PatientInv, Patience
  <2> QED
    BY <2>1, <2>2
<1>3. CASE BridgeDie
  <2>1. spent.deaths \in Nat /\ spent'.deaths = spent.deaths + 1
    BY <1>3, RegistryFacts DEF BridgeDie, PatientInv, HistoryTypes
  <2> QED
    BY <1>0, <2>1 DEF PatientInv, Patience
<1>4. ASSUME NEW slug \in Slugs, NEW body \in {"on", "off", None},
             UserPublishes(slug, body)
      PROVE  PatientInv'
  BY <1>0, <1>4, PatientUser
<1>5. ASSUME NEW id \in Identities, NEW path \in Paths, BridgeSight(id, path)
      PROVE  PatientInv'
  <2>1. /\ UNCHANGED <<devices, loaded, todo, incoming, origins, outbox, asked, manner>>
        /\ spent' = [spent EXCEPT !.sightings = @ + 1]
    BY <1>5 DEF BridgeSight, Sight, dbVars
  <2>2. spent'.deaths = spent.deaths
    BY <2>1, RegistryFacts DEF PatientInv, HistoryTypes
  <2> QED
    BY <1>0, <2>1, <2>2, QuietPatientStep DEF Patience
<1>6. ASSUME NEW t \in Tasks, BridgeTask(t) PROVE PatientInv'
  <2>1. UNCHANGED <<devices, loaded, todo, incoming, origins, outbox, asked,
                    manner, spent>>
    BY <1>6 DEF BridgeTask, TaskKey, TaskFails, TaskStops, dbVars, channelVars
  <2> QED
    BY <1>0, <2>1, QuietPatientStep DEF Patience
<1>7. CASE UNCHANGED bridgeVars
  BY <1>0, <1>7, QuietPatientStep DEF bridgeVars, vars, Patience
<1> QED
  BY <1>1, <1>2, <1>3, <1>4, <1>5, <1>6, <1>7 DEF BridgeNext

(* So it holds in every state.                                              *)
LEMMA PatientInvariance == BridgeSpec => []PatientInv
  BY PatientInitially, PatientStep, PTL DEF BridgeSpec

(* When nothing is under way each device is as its patient user last asked, *)
(* and is gone if it was asked to go, whatever was sighted meanwhile.       *)
THEOREM LastCommandAlwaysWins == BridgeSpec => []LastCommandWins
<1>1. PatientInv => LastCommandWins
  <2>1. SUFFICES ASSUME PatientInv, Quiet, Patience, NEW s \in Slugs
                 PROVE  /\ asked[s] \in {"on", "off"} =>
                              \A i \in DOMAIN devices :
                                 devices[i].slug = s => Switch(devices[i]) = asked[s]
                        /\ asked[s] = None => s \notin SlugsOf(devices)
    BY DEF LastCommandWins
  <2>2. RegistryInv /\ devices \in Seq(Record) /\ UniqueSlugs(devices)
    BY <2>1, RegistryFacts DEF PatientInv
  <2>3. ~Commanded(s)
    BY <2>1 DEF Quiet, Commanded
  <2>4. Settles(s)
    BY <2>1, <2>3 DEF PatientInv, OthersAgree, Agrees
  <2>5. asked[s] \in {"on", "off"} =>
           \A i \in DOMAIN devices :
              devices[i].slug = s => Switch(devices[i]) = asked[s]
    BY <2>2, <2>4, SwitchIsCurrent DEF Settles, Holds, SlugsOf
  <2>6. asked[s] = None => s \notin SlugsOf(devices)
    BY <2>2, <2>4, HoldsTheSwitch, NothingAssumption, AbsenceAssumption
       DEF Settles
  <2> QED
    BY <2>5, <2>6
<1> QED
  BY <1>1, PatientInvariance, PTL

(* With patient users, the daemon's own publish come back changes neither   *)
(* the registry nor its file, unless it is the echo of a clear that meets a *)
(* device nobody has commanded yet.                                         *)
THEOREM EchoesUndoNoCommand == BridgeSpec => EchoUndoesNoCommand
<1>1. PatientInv /\ [BridgeNext]_bridgeVars =>
         [ IsEcho /\ loaded' /\ Patience
           /\ (Head(incoming).body = None => asked[Head(incoming).slug] # "nothing")
           => UNCHANGED dbVars ]_bridgeVars
  <2>1. SUFFICES ASSUME PatientInv, BridgeNext, IsEcho, loaded', Patience,
                        Command.body = None => asked[Command.slug] # "nothing"
                 PROVE  UNCHANGED dbVars
    BY DEF bridgeVars, Command
  <2>2. RegistryInv /\ HistoryTypes /\ TypeInv /\ IdleIsSilent
    BY <2>1, RegistryFacts DEF PatientInv
  <2>3. /\ incoming # <<>> /\ incoming' = Tail(incoming) /\ loaded
        /\ Head(origins) = "daemon"
    BY <2>1, <2>2 DEF IsEcho, IdleIsSilent
  <2>4. CASE BridgeHandle
    <3>1. Tail(incoming) # incoming
      BY <2>2, <2>3 DEF HistoryTypes
    <3>2. Handle
      BY <2>4 DEF BridgeHandle
    <3>3. Obeys
      BY <2>2, <2>3, <3>1, <3>2, HandleSwitches
         DEF Announces, Introducing, Observes
    <3>4. TakeIncoming /\ origins[1] # "user"
      BY <2>3, <3>3 DEF Obeys
    <3>5. \/ Holds(Command.slug, Command.body)
          \/ Command.slug \notin SlugsOf(devices)
      BY <2>1, <3>4, EchoesAreKnown
    <3> QED
      BY <3>3, <3>5 DEF Obeys, Holds
  <2>5. ~BridgeStart /\ ~BridgeDie
    BY <2>1, <2>3 DEF BridgeStart, Start, Load, BridgeDie, Die, Crash
  <2>6. BridgeTransmit => UNCHANGED dbVars
    BY DEF BridgeTransmit
  <2>7. \A slug \in Slugs, body \in {"on", "off", None} :
           UserPublishes(slug, body) => UNCHANGED dbVars
    BY DEF UserPublishes
  <2>8. \A id \in Identities, path \in Paths :
           BridgeSight(id, path) => UNCHANGED dbVars
    BY DEF BridgeSight, Sight
  <2>9. \A t \in Tasks : BridgeTask(t) => UNCHANGED dbVars
    BY DEF BridgeTask, TaskKey, TaskFails, TaskStops
  <2> QED
    BY <2>1, <2>4, <2>5, <2>6, <2>7, <2>8, <2>9 DEF BridgeNext
<1> QED
  BY <1>1, PatientInvariance, PTL DEF BridgeSpec, EchoUndoesNoCommand
=============================================================================
