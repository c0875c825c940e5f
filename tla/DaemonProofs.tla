---------------------------- MODULE DaemonProofs ----------------------------
(* What TLAPS proves about the daemon, for any number of starts, breaks,    *)
(* commands and keys: it is well typed, the availability topic never claims *)
(* a daemon when nobody is home, and a daemon that nothing disturbed is     *)
(* reachable.                                                               *)
EXTENDS Daemon, CoordinatorProofs

-----------------------------------------------------------------------------
(* Types.                                                                   *)

Sub == Mqtt!SubscribeTo("enabled")
Bye == Mqtt!Disconnect

Talk    == Publication \cup {KeyAction}
Request == Talk \cup {Online, Offline, Sub, Bye}

Kinds   == {"status", "enabled"}
Session == [open : BOOLEAN, kinds : SUBSET Kinds]

Places  == {"off", "connecting", "announcing", "subscribing", "settling", "running",
            "farewell", "flushing", "disconnecting", "joining"}
Working == {"running", "farewell", "flushing", "disconnecting", "joining"}

(* The registry keeps its invariant, and nothing is plugged in, so that the *)
(* coordinator hears of no device.                                          *)
CoordinatorTypes ==
    /\ DbInv
    /\ todo \in 0..Len(devices)
    /\ rx = <<>>
    /\ loaded <=> pc \in Working

SessionTypes ==
    /\ task \in {"none", "polling", "backoff", "ended"}
    /\ state \in {"Connecting", "Connected", "PermanentFailure"}
    /\ flag \in BOOLEAN
    /\ link \in {"down", "up", "broken"}
    /\ outbox \in Seq(Request) /\ Len(outbox) <= MaxOutbox
    /\ task = "none" <=> pc = "off"

BrokerTypes ==
    /\ net \in {"up", "down", "refusing"}
    /\ sessions \in [Pids -> Session]
    /\ DOMAIN retained = RetainedTopics

PlaceTypes ==
    /\ pc \in Places
    /\ pid \in 0..MaxLaunches
    /\ pc # "off" => pid \in Pids

DaemonTypes == CoordinatorTypes /\ SessionTypes /\ BrokerTypes /\ PlaceTypes

(* The requests are told apart by their topics, and the two announcements   *)
(* by their bodies.                                                         *)
LEMMA RequestLemma ==
    /\ \A msg \in Talk : msg.topic \in {"info", "enabled", "discovery", "action"}
    /\ Online.topic = "status" /\ Offline.topic = "status"
    /\ Online.body = "online" /\ Offline.body = "offline"
    /\ Online.slug = None /\ Offline.slug = None
    /\ Sub.topic = "subscribe" /\ Sub.body = "enabled"
    /\ Bye.topic = "disconnect"
    /\ {Online, Offline, Sub, Bye, KeyAction} \subseteq Request
<1>1. \A msg \in Talk : msg.topic \in {"info", "enabled", "discovery", "action"}
  BY DEF Talk, Publication, KeyAction
<1> QED
  BY <1>1 DEF Online, Offline, Sub, Bye, Mqtt!SubscribeTo, Mqtt!Disconnect,
              Request, Talk

(* What the coordinator does is a step of the registry, and what it         *)
(* publishes is behind all other requests.                                  *)
LEMMA DaemonHandle ==
    ASSUME CoordinatorTypes, Handle
    PROVE  /\ DbNext \/ UNCHANGED dbVars
           /\ loaded' = loaded /\ todo' \in 0..Len(devices') /\ rx' = <<>>
           /\ \E msgs \in Seq(Publication) :
                 \/ outbox' = outbox /\ msgs = <<>>
                 \/ outbox' = outbox \o msgs /\ Len(outbox) + Len(msgs) <= MaxOutbox
<1>0. /\ DbInv /\ devices \in Seq(Record) /\ todo \in 0..Len(devices) /\ rx = <<>>
      /\ \A i \in DOMAIN devices : devices[i] \in Record /\ devices[i].slug \in Slugs
  <2>1. devices \in Seq(Record)
    BY DEF CoordinatorTypes, DbInv, DbTypeOK
  <2>2. \A i \in DOMAIN devices : devices[i] \in Record
    BY <2>1, ElementOfSeq
  <2> QED
    BY <2>1, <2>2 DEF CoordinatorTypes, Record
<1>1. CASE Republish
  <2> DEFINE i == Len(devices) + 1 - todo
  <2>1. i \in DOMAIN devices /\ todo' \in 0..Len(devices) /\ UNCHANGED <<dbVars, rx>>
    BY <1>0, <1>1 DEF Republish
  <2>2. Announce(devices[i]) \in Seq(Publication)
    BY <1>0, <2>1, PublicationLemma
  <2> QED
    BY <1>0, <1>1, <2>1, <2>2 DEF Republish, Publish, dbVars
<1>2. CASE OnConnectedKnown \/ OnConnectedNew \/ OnDisconnected \/ OnKeyNew \/ OnKeyIgnored
  BY <1>0, <1>2 DEF OnConnectedKnown, OnConnectedNew, OnDisconnected, OnKeyNew,
                    OnKeyIgnored, Take
<1>3. CASE OnEnable
  <2> DEFINE on == Command.body = "on"
  <2>1. PICK i \in DOMAIN devices :
           /\ SetEnabled(Command.slug, on, i)
           /\ Publish(<<Mirror([devices[i] EXCEPT !.enabled = on])>>)
    BY <1>3 DEF OnEnable
  <2>2. on \in BOOLEAN /\ todo = 0 /\ todo' = todo /\ rx' = rx
    BY <1>3 DEF OnEnable, TakeIncoming, CanHandle
  <2>3. Command.slug \in Slugs
    BY <1>0, <2>1 DEF SetEnabled, IsAt
  <2> HIDE DEF on
  <2>4. DbNext
    BY <2>1, <2>2, <2>3 DEF DbNext
  <2>5. [devices[i] EXCEPT !.enabled = on] \in Record
    BY <1>0, <2>2 DEF Record
  <2>6. <<Mirror([devices[i] EXCEPT !.enabled = on])>> \in Seq(Publication)
    BY <2>5, PublicationLemma
  <2>7. loaded' = loaded /\ devices' \in Seq(Record)
    BY <1>0, <2>1, <2>5 DEF SetEnabled
  <2>8. todo' \in 0..Len(devices')
    BY <2>2, <2>7
  <2> QED
    BY <1>0, <2>1, <2>2, <2>4, <2>6, <2>7, <2>8 DEF Publish
<1>4. CASE OnRemove
  <2>1. PICK i \in DOMAIN devices : Remove(Command.slug, i)
    BY <1>4 DEF OnRemove
  <2>2. /\ todo = 0 /\ todo' = todo /\ rx' = rx
        /\ Publish(Clears(Command.slug))
    BY <1>4 DEF OnRemove, TakeIncoming, CanHandle
  <2>3. Command.slug \in Slugs
    BY <1>0, <2>1 DEF Remove, IsAt
  <2>4. DbNext
    BY <2>1, <2>3 DEF DbNext
  <2>5. Clears(Command.slug) \in Seq(Publication)
    BY <2>3, ClearsLemma
  <2>6. loaded' = loaded /\ devices' \in Seq(Record)
    BY <1>0, <2>1, SurvivorLemma DEF Remove
  <2>7. todo' \in 0..Len(devices')
    BY <2>2, <2>6
  <2> QED
    BY <1>0, <2>2, <2>4, <2>5, <2>6, <2>7 DEF Publish
<1>5. CASE OnIgnored
  <2>1. <<>> \in Seq(Publication)
    OBVIOUS
  <2> QED
    BY <1>0, <1>5, <2>1 DEF OnIgnored, slotVars, dbVars
<1> QED
  BY <1>1, <1>2, <1>3, <1>4, <1>5 DEF Handle

-----------------------------------------------------------------------------
(* The invariant.                                                           *)

Queued(msg) == \E k \in DOMAIN outbox : outbox[k] = msg

Leaving == {"flushing", "disconnecting", "joining"}
Early   == {"announcing", "subscribing", "settling", "running"}

(* A connection belongs to an open session of a process that polls it; only *)
(* a task that has ended knows of a refusal; and the daemon waits for its   *)
(* first connection before it asks for anything.                            *)
SessionFacts ==
    /\ link = "up" => task = "polling" /\ state = "Connected" /\ sessions[pid].open
    /\ state = "PermanentFailure" => task = "ended"
    /\ pc \notin {"off", "connecting"} => state # "Connecting"
    /\ pc = "off" => state = "Connecting"
    /\ pc \in {"off", "connecting", "announcing"} => outbox = <<>>

(* The requests of the way out come in their order, behind the announcement *)
(* of the way in: every "online" that is still queued has an "offline"      *)
(* behind it, and a DISCONNECT neither.                                     *)
QueueFacts ==
    /\ Queued(Offline) => pc \in Leaving
    /\ Queued(Bye) => pc = "joining"
    /\ task = "ended" => ~Queued(Online) /\ ~Queued(Offline) /\ ~Queued(Bye)
    /\ pc \in Leaving =>
          \A k \in DOMAIN outbox : outbox[k] = Online =>
             \E l \in DOMAIN outbox : l > k /\ outbox[l] = Offline
    /\ \A k, l \in DOMAIN outbox :
          outbox[k] = Bye /\ l > k => outbox[l] \notin {Online, Offline}

(* What the broker shows.  A process that lost its connection is shown as   *)
(* offline once its session has ended, by the will, and one that leaves     *)
(* while it is connected has its farewell queued or is shown as offline.    *)
WillFacts ==
    /\ NobodyHome
    /\ state = "Connected" /\ ~sessions[pid].open => retained[Status] # "online"
    /\ pc \in Leaving /\ link = "up" => Queued(Offline) \/ retained[Status] # "online"

(* While nothing disturbs it, the daemon is connected, and what it asked    *)
(* for is under way or done.                                                *)
ReachFacts ==
    ~disturbed =>
        /\ pc = "connecting" /\ state = "Connected" => link = "up"
        /\ pc \in Early => link = "up"
        /\ pc \in Early \ {"announcing"} => Queued(Online) \/ retained[Status] = "online"
        /\ pc \in {"settling", "running"} => Queued(Sub) \/ "enabled" \in sessions[pid].kinds

DaemonInv == DaemonTypes /\ SessionFacts /\ QueueFacts /\ WillFacts /\ ReachFacts

(* At first there is nobody, and nobody has said anything.                  *)
LEMMA DaemonInitially == DaemonInit => DaemonInv
<1> SUFFICES ASSUME DaemonInit PROVE DaemonInv
  OBVIOUS
<1>1. CoordinatorTypes
  <2>1. DbInv
    BY DbInitially DEF DaemonInit, Init
  <2> QED
    BY <2>1 DEF DaemonInit, Init, DbInit, CoordinatorTypes, Working
<1>2. SessionTypes
  <2>1. <<>> \in Seq(Request) /\ Len(<<>>) <= MaxOutbox
    BY BoundsAssumption
  <2> QED
    BY <2>1 DEF DaemonInit, Mqtt!ConnectionInit, Mqtt!SessionInit, SessionTypes
<1>3. BrokerTypes
  BY DEF DaemonInit, Mqtt!ConnectionInit, Mqtt!Closed, BrokerTypes, Session
<1>4. PlaceTypes
  BY LaunchesAssumption DEF DaemonInit, PlaceTypes, Places
<1>5. outbox = <<>> /\ pc = "off" /\ link = "down" /\ state = "Connecting"
  BY DEF DaemonInit, Init, Mqtt!ConnectionInit, Mqtt!SessionInit
<1>6. SessionFacts /\ QueueFacts /\ ReachFacts
  BY <1>5 DEF SessionFacts, QueueFacts, ReachFacts, Queued, Leaving, Early
<1>7. retained[Status] # "online"
  BY StatusAssumption DEF DaemonInit, RetainedTopics
<1> QED
  BY <1>1, <1>2, <1>3, <1>4, <1>5, <1>6, <1>7
     DEF DaemonInv, DaemonTypes, WillFacts, NobodyHome, Leaving

-----------------------------------------------------------------------------
(* The queue of requests.                                                   *)

(* Requests are only added behind the others.                               *)
Grown ==
    /\ DOMAIN outbox \subseteq DOMAIN outbox'
    /\ \A k \in DOMAIN outbox : outbox'[k] = outbox[k]
    /\ \A k \in DOMAIN outbox, l \in DOMAIN outbox' \ DOMAIN outbox : k < l

LEMMA ConcatGrows ==
    ASSUME outbox \in Seq(Request), NEW msgs \in Seq(Request),
           outbox' = outbox \o msgs
    PROVE  /\ outbox' \in Seq(Request) /\ Len(outbox') = Len(outbox) + Len(msgs)
           /\ Grown
           /\ \A k \in DOMAIN outbox' \ DOMAIN outbox :
                 \E m \in DOMAIN msgs : outbox'[k] = msgs[m]
<1>1. /\ DOMAIN outbox = 1..Len(outbox) /\ DOMAIN msgs = 1..Len(msgs)
      /\ Len(outbox) \in Nat /\ Len(msgs) \in Nat
  OBVIOUS
<1>2. /\ outbox' \in Seq(Request)
      /\ Len(outbox') = Len(outbox) + Len(msgs)
      /\ DOMAIN outbox' = 1..(Len(outbox) + Len(msgs))
      /\ \A k \in DOMAIN outbox' : outbox'[k] =
            IF k <= Len(outbox) THEN outbox[k] ELSE msgs[k - Len(outbox)]
  BY <1>1, ConcatProperties
<1>3. Grown
  BY <1>1, <1>2 DEF Grown
<1>4. ASSUME NEW k \in DOMAIN outbox' \ DOMAIN outbox
      PROVE  (k - Len(outbox)) \in DOMAIN msgs /\ outbox'[k] = msgs[k - Len(outbox)]
  BY <1>1, <1>2
<1> QED
  BY <1>2, <1>3, <1>4

(* A request is queued behind the others, unless the task has ended.        *)
LEMMA RequestGrows ==
    ASSUME SessionTypes, NEW msg \in Request, Mqtt!Request(msg)
    PROVE  /\ outbox' \in Seq(Request) /\ Len(outbox') <= MaxOutbox
           /\ Grown
           /\ \A k \in DOMAIN outbox' \ DOMAIN outbox : outbox'[k] = msg
           /\ task # "ended" => \E k \in DOMAIN outbox' \ DOMAIN outbox : outbox'[k] = msg
           /\ task = "ended" => outbox' = outbox
<1>1. /\ outbox \in Seq(Request) /\ Len(outbox) <= MaxOutbox
      /\ DOMAIN outbox = 1..Len(outbox) /\ Len(outbox) \in Nat
  BY DEF SessionTypes
<1>2. CASE task = "ended"
  BY <1>1, <1>2 DEF Mqtt!Request, Grown
<1>3. CASE task # "ended"
  <2>1. Len(outbox) < MaxOutbox /\ outbox' = Append(outbox, msg)
    BY <1>3 DEF Mqtt!Request
  <2>2. /\ outbox' \in Seq(Request) /\ Len(outbox') = Len(outbox) + 1
        /\ DOMAIN outbox' = 1..(Len(outbox) + 1)
        /\ \A k \in DOMAIN outbox : outbox'[k] = outbox[k]
        /\ outbox'[Len(outbox) + 1] = msg
    BY <1>1, <2>1, AppendProperties
  <2>3. Len(outbox') <= MaxOutbox
    BY <1>1, <2>1, <2>2, BoundsAssumption
  <2> QED
    BY <1>1, <1>3, <2>2, <2>3 DEF Grown
<1> QED
  BY <1>2, <1>3

(* What is queued stays so when requests are added.                         *)
LEMMA GrownQueue ==
    ASSUME Grown
    PROVE  \A msg : Queued(msg) => Queued(msg)'
  BY DEF Grown, Queued

(* The messages of the coordinator and of monitors change nothing about the *)
(* order of the others.                                                     *)
LEMMA TalkStep ==
    ASSUME DaemonTypes, QueueFacts, outbox' \in Seq(Request), Grown,
           \A k \in DOMAIN outbox' \ DOMAIN outbox : outbox'[k] \in Talk,
           pc' = pc, task' = task
    PROVE  /\ QueueFacts'
           /\ \A msg \in {Online, Offline, Sub, Bye} : Queued(msg)' <=> Queued(msg)
<1>1. \A msg \in {Online, Offline, Sub, Bye}, k \in DOMAIN outbox' :
         outbox'[k] = msg => k \in DOMAIN outbox /\ outbox[k] = msg
  BY RequestLemma DEF Grown
<1>2. \A msg \in {Online, Offline, Sub, Bye} : Queued(msg)' <=> Queued(msg)
  BY <1>1, GrownQueue DEF Queued
<1>3. /\ \A k \in DOMAIN outbox : outbox'[k] = outbox[k] /\ k \in DOMAIN outbox'
  BY DEF Grown
<1>4. QueueFacts'
  BY <1>1, <1>2, <1>3 DEF QueueFacts
<1> QED
  BY <1>2, <1>4

(* The oldest request is taken.                                             *)
LEMMA TakenStep ==
    ASSUME DaemonTypes, QueueFacts, outbox # <<>>, outbox' = Tail(outbox),
           pc' = pc, task' = task
    PROVE  /\ QueueFacts'
           /\ outbox' \in Seq(Request) /\ Len(outbox') <= MaxOutbox
           /\ Head(outbox) \in Request /\ Queued(Head(outbox))
           /\ \A msg : Queued(msg)' => Queued(msg)
           /\ \A msg : Queued(msg) => msg = Head(outbox) \/ Queued(msg)'
           /\ Head(outbox) = Bye => ~Queued(Online)' /\ ~Queued(Offline)'
           /\ Head(outbox) = Online /\ pc \in Leaving => Queued(Offline)'
<1>0. outbox \in Seq(Request) /\ Len(outbox) <= MaxOutbox
  BY DEF DaemonTypes, SessionTypes
<1>1. /\ DOMAIN outbox = 1..Len(outbox) /\ Len(outbox) \in Nat \ {0}
      /\ DOMAIN outbox' = 1..(Len(outbox) - 1)
      /\ \A k \in DOMAIN outbox' : outbox'[k] = outbox[k + 1]
      /\ outbox[1] = Head(outbox) /\ Head(outbox) \in Request
      /\ outbox' \in Seq(Request) /\ Len(outbox') = Len(outbox) - 1
  BY <1>0, HeadTailProperties
<1>2. \A k \in DOMAIN outbox' : k + 1 \in DOMAIN outbox
  BY <1>1
<1>3. \A k \in DOMAIN outbox :
         k = 1 \/ ((k - 1) \in DOMAIN outbox' /\ outbox'[k - 1] = outbox[k])
  BY <1>1
<1>4. /\ \A msg : Queued(msg)' => Queued(msg)
      /\ \A msg : Queued(msg) => msg = Head(outbox) \/ Queued(msg)'
      /\ Queued(Head(outbox))
  <2>1. ASSUME NEW msg, Queued(msg)' PROVE Queued(msg)
    BY <1>1, <1>2, <2>1 DEF Queued
  <2>2. ASSUME NEW msg, Queued(msg), msg # Head(outbox) PROVE Queued(msg)'
    <3>1. PICK k \in DOMAIN outbox : outbox[k] = msg
      BY <2>2 DEF Queued
    <3>2. k # 1
      BY <1>1, <2>2, <3>1
    <3> QED
      BY <1>3, <3>1, <3>2 DEF Queued
  <2>3. Queued(Head(outbox))
    <3>1. 1 \in DOMAIN outbox
      BY <1>1
    <3> QED
      BY <1>1, <3>1 DEF Queued
  <2> QED
    BY <2>1, <2>2, <2>3
<1>5. ASSUME Head(outbox) = Bye PROVE ~Queued(Online)' /\ ~Queued(Offline)'
  <2>1. \A l \in DOMAIN outbox : l > 1 => outbox[l] \notin {Online, Offline}
    BY <1>1, <1>5 DEF QueueFacts
  <2>2. \A k \in DOMAIN outbox' : k + 1 > 1
    BY <1>1
  <2> QED
    BY <1>1, <1>2, <2>1, <2>2 DEF Queued
<1>6. ASSUME Head(outbox) = Online, pc \in Leaving PROVE Queued(Offline)'
  <2>1. PICK l \in DOMAIN outbox : l # 1 /\ outbox[l] = Offline
    BY <1>1, <1>6 DEF QueueFacts
  <2> QED
    BY <1>3, <2>1 DEF Queued
<1>7. ASSUME pc \in Leaving, NEW k \in DOMAIN outbox', outbox'[k] = Online
      PROVE  \E l \in DOMAIN outbox' : l > k /\ outbox'[l] = Offline
  <2>1. PICK l \in DOMAIN outbox : l > k + 1 /\ outbox[l] = Offline
    BY <1>1, <1>2, <1>7 DEF QueueFacts
  <2>2. (l - 1) \in DOMAIN outbox' /\ outbox'[l - 1] = Offline /\ l - 1 > k
    BY <1>1, <1>3, <2>1
  <2> QED
    BY <2>2
<1>8. ASSUME NEW k \in DOMAIN outbox', NEW l \in DOMAIN outbox',
             outbox'[k] = Bye, l > k
      PROVE  outbox'[l] \notin {Online, Offline}
  <2>1. l + 1 > k + 1
    BY <1>1, <1>8
  <2> QED
    BY <1>1, <1>2, <1>8, <2>1 DEF QueueFacts
<1>9. QueueFacts'
  BY <1>4, <1>7, <1>8 DEF QueueFacts
<1>10. Len(outbox') <= MaxOutbox
  BY <1>0, <1>1, BoundsAssumption
<1> QED
  BY <1>1, <1>4, <1>5, <1>6, <1>9, <1>10

-----------------------------------------------------------------------------
(* The broker.                                                              *)

(* Only the two announcements and the wills change what is said of the      *)
(* daemon.                                                                  *)
LEMMA RetainStatus ==
    ASSUME BrokerTypes, NEW msg, retained' = Mqtt!Retain(retained, msg)
    PROVE  /\ DOMAIN retained' = RetainedTopics
           /\ retained'[Status] = IF msg.topic = "status" /\ msg.slug = None
                                  THEN msg.body ELSE retained[Status]
<1>1. Status \in DOMAIN retained
  BY DEF BrokerTypes, RetainedTopics
<1>2. Mqtt!TopicOf(msg) = Status <=> msg.topic = "status" /\ msg.slug = None
  BY DEF Mqtt!TopicOf, Status
<1>3. DOMAIN retained' = RetainedTopics
  BY DEF Mqtt!Retain, BrokerTypes
<1>4. CASE Mqtt!TopicOf(msg) = Status
  BY <1>1, <1>2, <1>4 DEF Mqtt!Retain, BrokerTypes
<1>5. CASE Mqtt!TopicOf(msg) # Status
  BY <1>1, <1>2, <1>5 DEF Mqtt!Retain, BrokerTypes
<1> QED
  BY <1>3, <1>4, <1>5

(* A will is published: the daemon is shown as offline.                     *)
LEMMA WillIsOffline ==
    ASSUME BrokerTypes, NEW c \in Pids,
           retained' = Mqtt!Retain(retained, [p \in Pids |-> Offline][c])
    PROVE  DOMAIN retained' = RetainedTopics /\ retained'[Status] # "online"
<1>1. retained' = Mqtt!Retain(retained, Offline)
  OBVIOUS
<1> QED
  BY <1>1, RetainStatus, RequestLemma

-----------------------------------------------------------------------------
(* The steps of run_with_shutdown.                                          *)

(* A step that does not touch the coordinator.                              *)
LEMMA QuietCoordinator ==
    ASSUME CoordinatorTypes, UNCHANGED coordVars, pc' \in Working <=> pc \in Working
    PROVE  CoordinatorTypes'
<1>1. DbInv'
  BY DbStep DEF coordVars, CoordinatorTypes
<1> QED
  BY <1>1 DEF CoordinatorTypes, coordVars, dbVars

LEMMA LaunchStep == DaemonInv /\ Launch => DaemonInv'
<1> SUFFICES ASSUME DaemonInv, Launch PROVE DaemonInv'
  OBVIOUS
<1>0. /\ CoordinatorTypes /\ SessionTypes /\ BrokerTypes /\ PlaceTypes
      /\ WillFacts
  BY DEF DaemonInv, DaemonTypes
<1>1. /\ pid < MaxLaunches /\ pc = "off" /\ pc' = "connecting" /\ pid' = pid + 1
      /\ task' = "polling" /\ state' = "Connecting" /\ flag' = FALSE
      /\ link' = "down" /\ outbox' = <<>>
      /\ UNCHANGED <<coordVars, net, sessions, retained>>
  BY DEF Launch, Goes, Mqtt!Open, Mqtt!Spawn
<1>2. CoordinatorTypes'
  BY <1>0, <1>1, QuietCoordinator DEF Working
<1>3. SessionTypes'
  <2>1. <<>> \in Seq(Request) /\ Len(<<>>) <= MaxOutbox
    BY BoundsAssumption
  <2> QED
    BY <1>1, <2>1 DEF SessionTypes
<1>4. BrokerTypes' /\ PlaceTypes'
  BY <1>0, <1>1, LaunchesAssumption DEF BrokerTypes, PlaceTypes, Places, Pids
<1>5. SessionFacts' /\ QueueFacts' /\ ReachFacts'
  BY <1>1 DEF SessionFacts, QueueFacts, ReachFacts, Queued, Leaving, Early
<1>6. WillFacts'
  BY <1>0, <1>1 DEF WillFacts, NobodyHome, Leaving
<1> QED
  BY <1>2, <1>3, <1>4, <1>5, <1>6 DEF DaemonInv, DaemonTypes

(* A start that fails takes a number and leaves all else as it was.         *)
LEMMA LoadFailsStep == DaemonInv /\ LoadFails => DaemonInv'
<1> SUFFICES ASSUME DaemonInv, LoadFails PROVE DaemonInv'
  OBVIOUS
<1>0. /\ CoordinatorTypes /\ SessionTypes /\ BrokerTypes /\ PlaceTypes
      /\ SessionFacts /\ QueueFacts /\ WillFacts
  BY DEF DaemonInv, DaemonTypes
<1>1. /\ pid < MaxLaunches /\ pc = "off" /\ pid' = pid + 1
      /\ UNCHANGED <<coordVars, outbox, task, state, flag, link, net, sessions, retained, pc>>
  BY DEF LoadFails, vars, coordVars, dbVars, slotVars, linkVars
<1>2. task = "none" /\ state = "Connecting"
  BY <1>0, <1>1 DEF SessionTypes, SessionFacts
<1>3. CoordinatorTypes'
  BY <1>0, <1>1, QuietCoordinator
<1>4. SessionTypes' /\ BrokerTypes' /\ PlaceTypes'
  <2>1. pid' \in 0..MaxLaunches
    BY <1>0, <1>1, LaunchesAssumption DEF PlaceTypes
  <2> QED
    BY <1>0, <1>1, <2>1 DEF SessionTypes, BrokerTypes, PlaceTypes
<1>5. SessionFacts' /\ ReachFacts'
  BY <1>0, <1>1, <1>2 DEF SessionFacts, ReachFacts, Early
<1>6. QueueFacts' /\ WillFacts'
  BY <1>0, <1>1, <1>2 DEF QueueFacts, Queued, Leaving, WillFacts, NobodyHome
<1> QED
  BY <1>3, <1>4, <1>5, <1>6 DEF DaemonInv, DaemonTypes

(* A process that ends leaves its session behind, open or not.              *)
LEMMA ExitStep == DaemonInv /\ Exits => DaemonInv'
<1> SUFFICES ASSUME DaemonInv, Exits PROVE DaemonInv'
  OBVIOUS
<1>0. /\ CoordinatorTypes /\ SessionTypes /\ BrokerTypes /\ PlaceTypes
      /\ WillFacts
  BY DEF DaemonInv, DaemonTypes
<1>1. /\ pc' = "off" /\ task' = "none" /\ state' = "Connecting" /\ flag' = FALSE
      /\ link' = "down" /\ outbox' = <<>>
      /\ UNCHANGED <<net, sessions, retained, pid>>
  BY DEF Exits, Mqtt!Abandoned, Mqtt!Vanish, storyVars
<1>2. CoordinatorTypes'
  <2>1. CASE loaded
    <3>1. Die
      BY <2>1 DEF Exits
    <3>2. DbInv'
      BY <1>0, <3>1, DbStep DEF Die, DbNext, CoordinatorTypes
    <3> QED
      BY <1>1, <3>1, <3>2 DEF Die, Crash, CoordinatorTypes, Working
  <2>2. CASE ~loaded
    <3>1. UNCHANGED coordVars /\ pc \notin Working
      BY <1>0, <2>2 DEF Exits, CoordinatorTypes
    <3> QED
      BY <1>0, <1>1, <3>1, QuietCoordinator DEF Working
  <2> QED
    BY <2>1, <2>2
<1>3. SessionTypes'
  <2>1. <<>> \in Seq(Request) /\ Len(<<>>) <= MaxOutbox
    BY BoundsAssumption
  <2> QED
    BY <1>1, <2>1 DEF SessionTypes
<1>4. BrokerTypes' /\ PlaceTypes'
  BY <1>0, <1>1 DEF BrokerTypes, PlaceTypes, Places
<1>5. SessionFacts' /\ QueueFacts' /\ ReachFacts'
  BY <1>1 DEF SessionFacts, QueueFacts, ReachFacts, Queued, Leaving, Early
<1>6. WillFacts'
  BY <1>0, <1>1 DEF WillFacts, NobodyHome, Leaving
<1> QED
  BY <1>2, <1>3, <1>4, <1>5, <1>6 DEF DaemonInv, DaemonTypes

(* Steps that only move on.                                                 *)
LEMMA WaitStep == DaemonInv /\ (Ready \/ Signalled \/ Refused \/ Flush) => DaemonInv'
<1> SUFFICES ASSUME DaemonInv, Ready \/ Signalled \/ Refused \/ Flush
             PROVE  DaemonInv'
  OBVIOUS
<1>0. /\ CoordinatorTypes /\ SessionTypes /\ BrokerTypes /\ PlaceTypes
      /\ SessionFacts /\ QueueFacts /\ WillFacts /\ ReachFacts
  BY DEF DaemonInv, DaemonTypes
<1>1. /\ \/ pc = "connecting" /\ pc' = "announcing" /\ state = "Connected"
         \/ pc = "running" /\ pc' = "farewell"
         \/ pc = "flushing" /\ pc' = "disconnecting"
      /\ flag' \in BOOLEAN
      /\ UNCHANGED <<coordVars, outbox, task, state, link, net, sessions, retained,
                     pid, disturbed>>
  BY <1>0 DEF Ready, Signalled, Refused, Flush, Goes, Mqtt!RaiseFlag, vars, linkVars,
              storyVars, coordVars, dbVars, slotVars, SessionTypes
<1>2. CoordinatorTypes'
  BY <1>0, <1>1, QuietCoordinator DEF Working
<1>3. SessionTypes' /\ BrokerTypes' /\ PlaceTypes'
  BY <1>0, <1>1 DEF SessionTypes, BrokerTypes, PlaceTypes, Places
<1>4. SessionFacts'
  BY <1>0, <1>1 DEF SessionFacts
<1>5. QueueFacts'
  BY <1>0, <1>1 DEF QueueFacts, Queued, Leaving
<1>6. WillFacts'
  BY <1>0, <1>1 DEF WillFacts, NobodyHome, Leaving, Queued
<1>7. ReachFacts'
  BY <1>0, <1>1 DEF ReachFacts, Early
<1> QED
  BY <1>2, <1>3, <1>4, <1>5, <1>6, <1>7 DEF DaemonInv, DaemonTypes

(* The steps that ask the event task for something.                         *)
LEMMA AskTypes ==
    ASSUME DaemonTypes, NEW msg \in Request, Asks(msg),
           pc \in Places \ {"off"}, pc' \in Places \ {"off"},
           pc' \in Working <=> pc \in Working
    PROVE  /\ DaemonTypes'
           /\ UNCHANGED <<task, state, link, sessions, retained, pid, disturbed>>
           /\ Grown
           /\ \A k \in DOMAIN outbox' \ DOMAIN outbox : outbox'[k] = msg
           /\ task # "ended" => \E k \in DOMAIN outbox' \ DOMAIN outbox : outbox'[k] = msg
           /\ task = "ended" => outbox' = outbox
<1>0. CoordinatorTypes /\ SessionTypes /\ BrokerTypes /\ PlaceTypes
  BY DEF DaemonTypes
<1>1. /\ Mqtt!Request(msg)
      /\ UNCHANGED <<coordVars, task, state, flag, link, net, sessions, retained,
                     pid, disturbed>>
  BY DEF Asks, linkVars, storyVars
<1>2. /\ outbox' \in Seq(Request) /\ Len(outbox') <= MaxOutbox /\ Grown
      /\ \A k \in DOMAIN outbox' \ DOMAIN outbox : outbox'[k] = msg
      /\ task # "ended" => \E k \in DOMAIN outbox' \ DOMAIN outbox : outbox'[k] = msg
      /\ task = "ended" => outbox' = outbox
  BY <1>0, <1>1, RequestGrows
<1>3. CoordinatorTypes'
  BY <1>0, <1>1, QuietCoordinator
<1>4. SessionTypes' /\ BrokerTypes' /\ PlaceTypes'
  BY <1>0, <1>1, <1>2 DEF SessionTypes, BrokerTypes, PlaceTypes
<1> QED
  BY <1>1, <1>2, <1>3, <1>4 DEF DaemonTypes

LEMMA AnnounceStep == DaemonInv /\ AnnounceOnline => DaemonInv'
<1> SUFFICES ASSUME DaemonInv, AnnounceOnline PROVE DaemonInv'
  OBVIOUS
<1>0. DaemonTypes /\ SessionFacts /\ QueueFacts /\ WillFacts /\ ReachFacts
  BY DEF DaemonInv
<1>1. pc = "announcing" /\ pc' = "subscribing" /\ Asks(Online) /\ Online \in Request
  BY RequestLemma DEF AnnounceOnline, Goes
<1>2. /\ DaemonTypes'
      /\ UNCHANGED <<task, state, link, sessions, retained, pid, disturbed>>
      /\ \A k \in DOMAIN outbox' \ DOMAIN outbox : outbox'[k] = Online
      /\ task # "ended" => \E k \in DOMAIN outbox' \ DOMAIN outbox : outbox'[k] = Online
      /\ task = "ended" => outbox' = outbox
  BY <1>0, <1>1, AskTypes DEF Places, Working
<1>3. DOMAIN outbox = {}
  BY <1>0, <1>1 DEF SessionFacts
<1>4. /\ \A k \in DOMAIN outbox' : outbox'[k] = Online
      /\ task # "ended" => Queued(Online)'
      /\ task = "ended" => DOMAIN outbox' = {}
  BY <1>2, <1>3 DEF Queued
<1>5. SessionFacts'
  BY <1>0, <1>1, <1>2 DEF SessionFacts
<1>6. QueueFacts'
  BY <1>1, <1>2, <1>4, RequestLemma DEF QueueFacts, Queued, Leaving
<1>7. WillFacts'
  BY <1>0, <1>1, <1>2 DEF WillFacts, NobodyHome, Leaving
<1>8. ReachFacts'
  BY <1>0, <1>1, <1>2, <1>4 DEF ReachFacts, SessionFacts, Early
<1> QED
  BY <1>2, <1>5, <1>6, <1>7, <1>8 DEF DaemonInv

LEMMA SubscribeStep == DaemonInv /\ SubscribeEnabled => DaemonInv'
<1> SUFFICES ASSUME DaemonInv, SubscribeEnabled PROVE DaemonInv'
  OBVIOUS
<1>0. DaemonTypes /\ SessionFacts /\ QueueFacts /\ WillFacts /\ ReachFacts
  BY DEF DaemonInv
<1>1. pc = "subscribing" /\ pc' = "settling" /\ Asks(Sub) /\ Sub \in Request
  BY RequestLemma DEF SubscribeEnabled, Goes, Sub
<1>2. /\ DaemonTypes'
      /\ UNCHANGED <<task, state, link, sessions, retained, pid, disturbed>>
      /\ Grown
      /\ \A k \in DOMAIN outbox' \ DOMAIN outbox : outbox'[k] = Sub
      /\ task # "ended" => \E k \in DOMAIN outbox' \ DOMAIN outbox : outbox'[k] = Sub
  BY <1>0, <1>1, AskTypes DEF Places, Working
<1>3. \A msg \in {Online, Offline, Bye}, k \in DOMAIN outbox' :
         outbox'[k] = msg => k \in DOMAIN outbox /\ outbox[k] = msg
  BY <1>2, RequestLemma DEF Grown
<1>4. \A k \in DOMAIN outbox : outbox'[k] = outbox[k]
  BY <1>2 DEF Grown
<1>5. task # "ended" => Queued(Sub)'
  BY <1>2 DEF Queued
<1>6. SessionFacts'
  BY <1>0, <1>1, <1>2 DEF SessionFacts
<1>7. QueueFacts'
  BY <1>0, <1>1, <1>2, <1>3, <1>4 DEF QueueFacts, Queued, Leaving
<1>8. WillFacts'
  BY <1>0, <1>1, <1>2 DEF WillFacts, NobodyHome, Leaving
<1>9. Queued(Online) => Queued(Online)'
  BY <1>2, GrownQueue
<1>10. ReachFacts'
  BY <1>0, <1>1, <1>2, <1>5, <1>9 DEF ReachFacts, SessionFacts, Early
<1> QED
  BY <1>2, <1>6, <1>7, <1>8, <1>10 DEF DaemonInv

LEMMA FarewellStep == DaemonInv /\ Farewell => DaemonInv'
<1> SUFFICES ASSUME DaemonInv, Farewell PROVE DaemonInv'
  OBVIOUS
<1>0. DaemonTypes /\ SessionFacts /\ QueueFacts /\ WillFacts /\ ReachFacts
  BY DEF DaemonInv
<1>1. pc = "farewell" /\ pc' = "flushing" /\ Asks(Offline) /\ Offline \in Request
  BY RequestLemma DEF Farewell, Goes
<1>2. /\ DaemonTypes'
      /\ UNCHANGED <<task, state, link, sessions, retained, pid, disturbed>>
      /\ Grown
      /\ \A k \in DOMAIN outbox' \ DOMAIN outbox : outbox'[k] = Offline
      /\ task # "ended" => \E k \in DOMAIN outbox' \ DOMAIN outbox : outbox'[k] = Offline
      /\ task = "ended" => outbox' = outbox
  BY <1>0, <1>1, AskTypes DEF Places, Working
<1>3. \A msg \in {Online, Bye}, k \in DOMAIN outbox' :
         outbox'[k] = msg => k \in DOMAIN outbox /\ outbox[k] = msg
  BY <1>2, StatusAssumption, RequestLemma DEF Grown
<1>4. ~Queued(Bye)'
  BY <1>0, <1>1, <1>3 DEF QueueFacts, Queued
<1>5. ASSUME NEW k \in DOMAIN outbox', outbox'[k] = Online
      PROVE  \E l \in DOMAIN outbox' : l > k /\ outbox'[l] = Offline
  <2>1. k \in DOMAIN outbox /\ outbox[k] = Online
    BY <1>3, <1>5
  <2>2. task # "ended"
    BY <1>0, <2>1 DEF QueueFacts, Queued
  <2> QED
    BY <1>2, <2>1, <2>2 DEF Grown
<1>6. task = "ended" => ~Queued(Online)' /\ ~Queued(Offline)'
  BY <1>0, <1>2 DEF QueueFacts, Queued
<1>7. QueueFacts'
  BY <1>1, <1>2, <1>4, <1>5, <1>6 DEF QueueFacts, Queued, Leaving
<1>8. SessionFacts'
  BY <1>0, <1>1, <1>2 DEF SessionFacts
<1>9. task # "ended" => Queued(Offline)'
  BY <1>2 DEF Queued
<1>10. WillFacts'
  BY <1>0, <1>1, <1>2, <1>9 DEF WillFacts, NobodyHome, SessionFacts
<1>11. ReachFacts'
  BY <1>1 DEF ReachFacts, Early
<1> QED
  BY <1>2, <1>7, <1>8, <1>10, <1>11 DEF DaemonInv

LEMMA DisconnectStep == DaemonInv /\ AskDisconnect => DaemonInv'
<1> SUFFICES ASSUME DaemonInv, AskDisconnect PROVE DaemonInv'
  OBVIOUS
<1>0. DaemonTypes /\ SessionFacts /\ QueueFacts /\ WillFacts /\ ReachFacts
  BY DEF DaemonInv
<1>1. pc = "disconnecting" /\ pc' = "joining" /\ Asks(Bye) /\ Bye \in Request
  BY RequestLemma DEF AskDisconnect, Goes, Bye
<1>2. /\ DaemonTypes'
      /\ UNCHANGED <<task, state, link, sessions, retained, pid, disturbed>>
      /\ Grown
      /\ \A k \in DOMAIN outbox' \ DOMAIN outbox : outbox'[k] = Bye
      /\ task = "ended" => outbox' = outbox
  BY <1>0, <1>1, AskTypes DEF Places, Working
<1>3. \A msg \in {Online, Offline}, k \in DOMAIN outbox' :
         outbox'[k] = msg => k \in DOMAIN outbox /\ outbox[k] = msg
  BY <1>2, RequestLemma DEF Grown
<1>4. \A k \in DOMAIN outbox : outbox[k] # Bye
  BY <1>0, <1>1 DEF QueueFacts, Queued
<1>5. \A k \in DOMAIN outbox : k \in DOMAIN outbox' /\ outbox'[k] = outbox[k]
  BY <1>2 DEF Grown
<1>6. \A k, l \in DOMAIN outbox' :
         outbox'[k] = Bye /\ l > k => outbox'[l] \notin {Online, Offline}
  <2>1. ASSUME NEW k \in DOMAIN outbox', NEW l \in DOMAIN outbox',
               outbox'[k] = Bye, l > k, l \in DOMAIN outbox
        PROVE  FALSE
    <3>1. k \notin DOMAIN outbox
      BY <1>4, <1>5, <2>1
    <3>2. l < k
      BY <1>2, <2>1, <3>1 DEF Grown
    <3>3. outbox' \in Seq(Request)
      BY <1>2 DEF DaemonTypes, SessionTypes
    <3>4. k \in Nat /\ l \in Nat
      BY <2>1, <3>3
    <3> QED
      BY <2>1, <3>2, <3>4
  <2> QED
    BY <1>3, <2>1
<1>7. QueueFacts'
  BY <1>0, <1>1, <1>2, <1>3, <1>5, <1>6 DEF QueueFacts, Queued, Leaving
<1>8. SessionFacts'
  BY <1>0, <1>1, <1>2 DEF SessionFacts
<1>9. Queued(Offline) => Queued(Offline)'
  BY <1>2, GrownQueue
<1>10. WillFacts'
  BY <1>0, <1>1, <1>2, <1>9 DEF WillFacts, NobodyHome, Leaving
<1>11. ReachFacts'
  BY <1>1 DEF ReachFacts, Early
<1> QED
  BY <1>2, <1>7, <1>8, <1>10, <1>11 DEF DaemonInv

(* The coordinator takes over.                                              *)
LEMMA StartStep == DaemonInv /\ StartCoordinator => DaemonInv'
<1> SUFFICES ASSUME DaemonInv, StartCoordinator PROVE DaemonInv'
  OBVIOUS
<1>0. /\ CoordinatorTypes /\ SessionTypes /\ BrokerTypes /\ PlaceTypes
      /\ SessionFacts /\ QueueFacts /\ WillFacts /\ ReachFacts
  BY DEF DaemonInv, DaemonTypes
<1>1. /\ pc = "settling" /\ pc' = "running" /\ Load /\ todo' = Len(file)
      /\ UNCHANGED <<rx, outbox, task, state, flag, link, net, sessions, retained,
                     pid, disturbed>>
  BY DEF StartCoordinator, Goes, Start, linkVars, storyVars
<1>2. CoordinatorTypes'
  <2>1. DbInv'
    BY <1>0, <1>1, DbStep DEF DbNext, CoordinatorTypes
  <2>2. devices' = file /\ loaded' /\ file \in Seq(Record)
    BY <1>0, <1>1 DEF Load, CoordinatorTypes, DbInv, DbTypeOK
  <2>3. todo' \in 0..Len(devices')
    BY <1>1, <2>2
  <2> QED
    BY <1>0, <1>1, <2>1, <2>2, <2>3 DEF CoordinatorTypes, Working
<1>3. SessionTypes' /\ BrokerTypes' /\ PlaceTypes'
  BY <1>0, <1>1 DEF SessionTypes, BrokerTypes, PlaceTypes, Places
<1>4. SessionFacts'
  BY <1>0, <1>1 DEF SessionFacts
<1>5. QueueFacts'
  BY <1>0, <1>1 DEF QueueFacts, Queued, Leaving
<1>6. WillFacts'
  BY <1>0, <1>1 DEF WillFacts, NobodyHome, Leaving
<1>7. ReachFacts'
  BY <1>0, <1>1 DEF ReachFacts, Early, Queued
<1> QED
  BY <1>2, <1>3, <1>4, <1>5, <1>6, <1>7 DEF DaemonInv, DaemonTypes

-----------------------------------------------------------------------------
(* The event task.                                                          *)

(* What every step of it leaves alone.                                      *)
LEMMA EventTaskTypes ==
    ASSUME CoordinatorTypes, PlaceTypes,
           UNCHANGED <<coordVars, pc, storyVars>>
    PROVE  CoordinatorTypes' /\ PlaceTypes'
<1>1. CoordinatorTypes'
  BY QuietCoordinator
<1> QED
  BY <1>1 DEF PlaceTypes, storyVars

(* The broker takes the process in.  If its last session is still open, the *)
(* will of that is published first.                                         *)
LEMMA ConnectStep ==
    ASSUME DaemonInv, pc # "off", Mqtt!Connect(pid),
           UNCHANGED <<coordVars, pc, storyVars>>
    PROVE  DaemonInv'
<1>0. /\ CoordinatorTypes /\ SessionTypes /\ BrokerTypes /\ PlaceTypes
      /\ SessionFacts /\ QueueFacts /\ WillFacts /\ ReachFacts
  BY DEF DaemonInv, DaemonTypes
<1>1. /\ task = "polling" /\ link = "down" /\ link' = "up" /\ state' = "Connected"
      /\ sessions' = [sessions EXCEPT ![pid] = [open |-> TRUE, kinds |-> {}]]
      /\ UNCHANGED <<task, flag, outbox, net, pc, pid, disturbed>>
  BY DEF Mqtt!Connect, Mqtt!ConnAck, Mqtt!Accept, storyVars
<1>2. pid \in Pids /\ sessions'[pid].open /\ sessions' \in [Pids -> Session]
  BY <1>0, <1>1 DEF PlaceTypes, BrokerTypes, Session
<1>3. /\ DOMAIN retained' = RetainedTopics
      /\ sessions[pid].open => retained'[Status] # "online"
      /\ ~sessions[pid].open => retained' = retained
  <2>1. CASE sessions[pid].open
    <3>1. retained' = Mqtt!Retain(retained, [p \in Pids |-> Offline][pid])
      BY <2>1 DEF Mqtt!Connect, Mqtt!Accept
    <3> QED
      BY <1>0, <1>2, <2>1, <3>1, WillIsOffline
  <2>2. CASE ~sessions[pid].open
    BY <1>0, <2>2 DEF Mqtt!Connect, Mqtt!Accept, BrokerTypes
  <2> QED
    BY <2>1, <2>2
<1>4. CoordinatorTypes' /\ PlaceTypes'
  BY <1>0, EventTaskTypes
<1>5. SessionTypes' /\ BrokerTypes'
  BY <1>0, <1>1, <1>2, <1>3 DEF SessionTypes, BrokerTypes
<1>6. SessionFacts' /\ QueueFacts'
  BY <1>0, <1>1, <1>2 DEF SessionFacts, QueueFacts, Queued
<1>7. WillFacts'
  <2>1. NobodyHome'
    BY <1>2, <1>1 DEF NobodyHome
  <2>2. pc \in Leaving => state = "Connected"
    BY <1>0, <1>1 DEF SessionTypes, SessionFacts, Leaving
  <2>3. pc \in Leaving => retained'[Status] # "online"
    BY <1>0, <1>3, <2>2 DEF WillFacts
  <2> QED
    BY <1>1, <1>2, <2>1, <2>3 DEF WillFacts
<1>8. ReachFacts'
  BY <1>0, <1>1 DEF ReachFacts, Early
<1> QED
  BY <1>4, <1>5, <1>6, <1>7, <1>8 DEF DaemonInv, DaemonTypes

(* `poll` fails, or is tried again, or sends into the void: never while the *)
(* connection is up.                                                        *)
LEMMA PollStep ==
    ASSUME DaemonInv, pc # "off",
           Mqtt!ConnectionFails \/ Mqtt!Retries \/ Mqtt!TransmitInVain,
           UNCHANGED <<coordVars, pc, storyVars>>
    PROVE  DaemonInv'
<1>0. /\ CoordinatorTypes /\ SessionTypes /\ BrokerTypes /\ PlaceTypes
      /\ SessionFacts /\ QueueFacts /\ WillFacts /\ ReachFacts
  BY DEF DaemonInv, DaemonTypes
<1>1. UNCHANGED <<flag, net, sessions, retained, pc, pid, disturbed>>
  BY DEF Mqtt!ConnectionFails, Mqtt!PollFails, Mqtt!Retries, Mqtt!Wake,
         Mqtt!TransmitInVain, storyVars
<1>2. CoordinatorTypes' /\ PlaceTypes' /\ BrokerTypes'
  BY <1>0, <1>1, EventTaskTypes DEF BrokerTypes
<1>3. /\ link # "up" /\ link' # "up" /\ link' \in {"down", "broken"}
      /\ task \in {"polling", "backoff"} /\ task' \in {"polling", "backoff", "ended"}
      /\ state' = state \/ (state' = "PermanentFailure" /\ task' = "ended")
      /\ \/ outbox' = outbox /\ task' # "ended"
         \/ outbox' = <<>>
         \/ task' = task /\ outbox # <<>> /\ outbox' = Tail(outbox)
  <2>1. CASE Mqtt!ConnectionFails
    BY <2>1 DEF Mqtt!ConnectionFails, Mqtt!PollFails
  <2>2. CASE Mqtt!Retries
    BY <1>0, <2>2 DEF Mqtt!Retries, Mqtt!Wake, SessionFacts, SessionTypes
  <2>3. CASE Mqtt!TransmitInVain
    BY <2>3 DEF Mqtt!TransmitInVain, Mqtt!Send
  <2> QED
    BY <2>1, <2>2, <2>3
<1>4. QueueFacts' /\ outbox' \in Seq(Request) /\ Len(outbox') <= MaxOutbox
  <2>1. CASE outbox' = outbox /\ task' # "ended"
    BY <1>0, <1>1, <2>1 DEF QueueFacts, Queued, SessionTypes
  <2>2. CASE outbox' = <<>>
    BY <2>2, BoundsAssumption DEF QueueFacts, Queued
  <2>3. CASE task' = task /\ outbox # <<>> /\ outbox' = Tail(outbox)
    BY <1>0, <1>1, <2>3, TakenStep DEF DaemonTypes
  <2> QED
    BY <1>3, <2>1, <2>2, <2>3
<1>5. SessionTypes'
  BY <1>0, <1>1, <1>3, <1>4 DEF SessionTypes
<1>6. SessionFacts'
  <2>1. outbox = <<>> => outbox' = <<>>
    BY <1>3
  <2> QED
    BY <1>0, <1>1, <1>3, <2>1 DEF SessionFacts
<1>7. WillFacts' /\ ReachFacts'
  BY <1>0, <1>1, <1>3 DEF WillFacts, NobodyHome, ReachFacts, Early
<1> QED
  BY <1>2, <1>4, <1>5, <1>6, <1>7 DEF DaemonInv, DaemonTypes

(* What is common to the three kinds of requests that are transmitted.      *)
LEMMA TransmitTypes ==
    ASSUME DaemonInv, pc # "off", Mqtt!Transmit(pid),
           UNCHANGED <<coordVars, pc, storyVars>>
    PROVE  /\ CoordinatorTypes' /\ SessionTypes' /\ PlaceTypes' /\ QueueFacts'
           /\ pid \in Pids /\ sessions[pid].open
           /\ task = "polling" /\ state = "Connected" /\ link = "up"
           /\ outbox # <<>> /\ outbox' = Tail(outbox)
           /\ UNCHANGED <<task, state, flag, net, pc, pid, disturbed>>
<1>0. /\ CoordinatorTypes /\ SessionTypes /\ BrokerTypes /\ PlaceTypes
      /\ SessionFacts /\ QueueFacts
  BY DEF DaemonInv, DaemonTypes
<1>1. /\ task = "polling" /\ link = "up" /\ outbox # <<>> /\ outbox' = Tail(outbox)
      /\ UNCHANGED <<task, state, flag, net, pc, pid, disturbed>>
  BY DEF Mqtt!Transmit, Mqtt!Send, storyVars
<1>2. link' \in {link, "broken"}
  BY DEF Mqtt!Transmit
<1>3. CoordinatorTypes' /\ PlaceTypes'
  BY <1>0, EventTaskTypes
<1>4. QueueFacts' /\ outbox' \in Seq(Request) /\ Len(outbox') <= MaxOutbox
  BY <1>0, <1>1, TakenStep DEF DaemonTypes
<1>5. SessionTypes'
  BY <1>0, <1>1, <1>2, <1>4 DEF SessionTypes
<1> QED
  BY <1>0, <1>1, <1>3, <1>4, <1>5 DEF SessionFacts, PlaceTypes

(* The broker takes a request: a subscription, ...                          *)
LEMMA SubscriptionStep ==
    ASSUME DaemonInv, pc # "off", Mqtt!Transmit(pid),
           UNCHANGED <<coordVars, pc, storyVars>>,
           Head(outbox) = Sub
    PROVE  DaemonInv'
<1>0. BrokerTypes /\ SessionFacts /\ QueueFacts /\ WillFacts /\ ReachFacts /\ DaemonTypes
  BY DEF DaemonInv, DaemonTypes
<1>1. /\ CoordinatorTypes' /\ SessionTypes' /\ PlaceTypes' /\ QueueFacts'
      /\ pid \in Pids /\ sessions[pid].open
      /\ task = "polling" /\ state = "Connected" /\ link = "up"
      /\ outbox # <<>> /\ outbox' = Tail(outbox)
      /\ UNCHANGED <<task, state, flag, net, pc, pid, disturbed>>
  BY TransmitTypes
<1>2. /\ sessions' = [sessions EXCEPT ![pid].kinds = @ \cup {"enabled"}]
      /\ UNCHANGED <<retained, link>>
  BY RequestLemma DEF Mqtt!Transmit, Mqtt!Subscribe
<1>3. /\ sessions' \in [Pids -> Session]
      /\ \A c \in Pids : sessions'[c].open = sessions[c].open
      /\ "enabled" \in sessions'[pid].kinds
  BY <1>0, <1>1, <1>2 DEF BrokerTypes, Session, Kinds
<1>4. \A msg : Queued(msg) => msg = Sub \/ Queued(msg)'
  BY <1>0, <1>1, TakenStep
<1>5. BrokerTypes'
  BY <1>0, <1>1, <1>2, <1>3 DEF BrokerTypes
<1>6. SessionFacts'
  BY <1>0, <1>1, <1>2, <1>3 DEF SessionFacts
<1>7. WillFacts'
  BY <1>0, <1>1, <1>2, <1>3, <1>4, RequestLemma DEF WillFacts, NobodyHome
<1>8. ReachFacts'
  BY <1>0, <1>1, <1>2, <1>3, <1>4, RequestLemma DEF ReachFacts
<1> QED
  BY <1>1, <1>5, <1>6, <1>7, <1>8 DEF DaemonInv, DaemonTypes

(* ... the last one of all, a DISCONNECT, before which the farewell has     *)
(* been taken, ...                                                          *)
LEMMA ByeStep ==
    ASSUME DaemonInv, pc # "off", Mqtt!Transmit(pid),
           UNCHANGED <<coordVars, pc, storyVars>>,
           Head(outbox) = Bye
    PROVE  DaemonInv'
<1>0. BrokerTypes /\ SessionFacts /\ QueueFacts /\ WillFacts /\ ReachFacts /\ DaemonTypes
  BY DEF DaemonInv, DaemonTypes
<1>1. /\ CoordinatorTypes' /\ SessionTypes' /\ PlaceTypes' /\ QueueFacts'
      /\ pid \in Pids /\ sessions[pid].open
      /\ task = "polling" /\ state = "Connected" /\ link = "up"
      /\ outbox # <<>> /\ outbox' = Tail(outbox)
      /\ UNCHANGED <<task, state, flag, net, pc, pid, disturbed>>
  BY TransmitTypes
<1>2. /\ sessions' = [sessions EXCEPT ![pid] = [open |-> FALSE, kinds |-> {}]]
      /\ link' = "broken" /\ retained' = retained
  BY RequestLemma DEF Mqtt!Transmit, Mqtt!Close, Mqtt!Closed
<1>3. sessions' \in [Pids -> Session]
  BY <1>0, <1>1, <1>2 DEF BrokerTypes, Session
<1>4. /\ \A msg : Queued(msg) => msg = Bye \/ Queued(msg)'
      /\ Queued(Bye) /\ ~Queued(Offline)'
  BY <1>0, <1>1, TakenStep
<1>5. pc = "joining" /\ retained[Status] # "online"
  <2>1. pc = "joining"
    BY <1>0, <1>4 DEF QueueFacts
  <2> QED
    BY <1>0, <1>1, <1>4, <2>1, RequestLemma DEF WillFacts, Leaving
<1>6. BrokerTypes'
  BY <1>0, <1>1, <1>2, <1>3 DEF BrokerTypes
<1>7. SessionFacts' /\ WillFacts' /\ ReachFacts'
  BY <1>0, <1>1, <1>2, <1>5 DEF SessionFacts, WillFacts, NobodyHome, ReachFacts, Early
<1> QED
  BY <1>1, <1>6, <1>7 DEF DaemonInv, DaemonTypes

(* ... or a publish.                                                        *)
LEMMA PublishStep ==
    ASSUME DaemonInv, pc # "off", Mqtt!Transmit(pid),
           UNCHANGED <<coordVars, pc, storyVars>>,
           Head(outbox) \in Talk \cup {Online, Offline}
    PROVE  DaemonInv'
<1>0. BrokerTypes /\ SessionFacts /\ QueueFacts /\ WillFacts /\ ReachFacts /\ DaemonTypes
  BY DEF DaemonInv, DaemonTypes
<1>1. /\ CoordinatorTypes' /\ SessionTypes' /\ PlaceTypes' /\ QueueFacts'
      /\ pid \in Pids /\ sessions[pid].open
      /\ task = "polling" /\ state = "Connected" /\ link = "up"
      /\ outbox # <<>> /\ outbox' = Tail(outbox)
      /\ UNCHANGED <<task, state, flag, net, pc, pid, disturbed>>
  BY TransmitTypes
<1>2. Head(outbox).topic \notin {"subscribe", "disconnect"}
  BY RequestLemma
<1>3. /\ retained' = Mqtt!Retain(retained, Head(outbox))
      /\ UNCHANGED <<sessions, link>>
  BY <1>2 DEF Mqtt!Transmit
<1>4. /\ DOMAIN retained' = RetainedTopics
      /\ Head(outbox) = Online => retained'[Status] = "online"
      /\ Head(outbox) = Offline => retained'[Status] # "online"
      /\ Head(outbox) \notin {Online, Offline} => retained'[Status] = retained[Status]
  <2>1. /\ DOMAIN retained' = RetainedTopics
        /\ retained'[Status] = IF Head(outbox).topic = "status" /\ Head(outbox).slug = None
                               THEN Head(outbox).body ELSE retained[Status]
    BY <1>0, <1>3, RetainStatus
  <2> QED
    BY <2>1, RequestLemma
<1>5. /\ \A msg : Queued(msg) => msg = Head(outbox) \/ Queued(msg)'
      /\ Queued(Head(outbox))
      /\ Head(outbox) = Online /\ pc \in Leaving => Queued(Offline)'
  BY <1>0, <1>1, TakenStep
<1>6. BrokerTypes'
  BY <1>0, <1>1, <1>3, <1>4 DEF BrokerTypes
<1>7. SessionFacts'
  BY <1>0, <1>1, <1>3 DEF SessionFacts
<1>8. WillFacts'
  BY <1>0, <1>1, <1>3, <1>4, <1>5, RequestLemma DEF WillFacts, NobodyHome
<1>9. ReachFacts'
  <2>1. pc \in Early => Head(outbox) # Offline
    BY <1>0, <1>5 DEF QueueFacts, Early, Leaving
  <2>2. Head(outbox) # Sub
    BY <1>2, RequestLemma
  <2>3. pc \in Early \ {"announcing"} /\ ~disturbed
           => Queued(Online)' \/ retained'[Status] = "online"
    BY <1>0, <1>4, <1>5, <2>1 DEF ReachFacts
  <2>4. Queued(Sub) => Queued(Sub)'
    BY <1>5, <2>2
  <2> QED
    BY <1>0, <1>1, <1>3, <2>3, <2>4 DEF ReachFacts
<1> QED
  BY <1>1, <1>6, <1>7, <1>8, <1>9 DEF DaemonInv, DaemonTypes

LEMMA EventTaskStep == DaemonInv /\ EventTask => DaemonInv'
<1> SUFFICES ASSUME DaemonInv, EventTask PROVE DaemonInv'
  OBVIOUS
<1>1. pc # "off" /\ UNCHANGED <<coordVars, pc, storyVars>> /\ Mqtt!EventTask(pid)
  BY DEF EventTask
<1>2. CASE Mqtt!Connect(pid)
  BY <1>1, <1>2, ConnectStep
<1>3. CASE Mqtt!ConnectionFails \/ Mqtt!Retries \/ Mqtt!TransmitInVain
  BY <1>1, <1>3, PollStep
<1>4. CASE Mqtt!Transmit(pid)
  <2>1. Head(outbox) \in Request
    <3>1. outbox \in Seq(Request) /\ outbox # <<>>
      BY <1>1, <1>4, TransmitTypes DEF DaemonInv, DaemonTypes, SessionTypes
    <3> QED
      BY <3>1
  <2> QED
    BY <1>1, <1>4, <2>1, SubscriptionStep, ByeStep, PublishStep DEF Request
<1> QED
  BY <1>1, <1>2, <1>3, <1>4 DEF Mqtt!EventTask

-----------------------------------------------------------------------------
(* The coordinator and the monitors.                                        *)

(* Talk disturbs nothing that was said of the other requests.               *)
LEMMA TalkFacts ==
    ASSUME DaemonInv, pc \in Working, outbox' \in Seq(Request), Grown,
           \A k \in DOMAIN outbox' \ DOMAIN outbox : outbox'[k] \in Talk,
           UNCHANGED <<pc, task, state, link, sessions, retained, pid, disturbed>>
    PROVE  SessionFacts' /\ QueueFacts' /\ WillFacts' /\ ReachFacts'
<1>0. DaemonTypes /\ SessionFacts /\ QueueFacts /\ WillFacts /\ ReachFacts
  BY DEF DaemonInv
<1>1. /\ QueueFacts'
      /\ \A msg \in {Online, Offline, Sub, Bye} : Queued(msg)' <=> Queued(msg)
  BY <1>0, TalkStep
<1>2. SessionFacts'
  BY <1>0 DEF SessionFacts, Working
<1>3. WillFacts' /\ ReachFacts'
  BY <1>0, <1>1 DEF WillFacts, NobodyHome, ReachFacts
<1> QED
  BY <1>1, <1>2, <1>3

LEMMA CoordinatorStep == DaemonInv /\ CoordinatorWorks => DaemonInv'
<1> SUFFICES ASSUME DaemonInv, CoordinatorWorks PROVE DaemonInv'
  OBVIOUS
<1>0. CoordinatorTypes /\ SessionTypes /\ BrokerTypes /\ PlaceTypes
  BY DEF DaemonInv, DaemonTypes
<1>1. /\ Handle
      /\ UNCHANGED <<pc, task, state, flag, link, net, sessions, retained, pid, disturbed>>
  BY DEF CoordinatorWorks, linkVars, storyVars
<1>2. /\ DbNext \/ UNCHANGED dbVars
      /\ loaded' = loaded /\ todo' \in 0..Len(devices') /\ rx' = <<>>
      /\ \E msgs \in Seq(Publication) :
            \/ outbox' = outbox /\ msgs = <<>>
            \/ outbox' = outbox \o msgs /\ Len(outbox) + Len(msgs) <= MaxOutbox
  BY <1>0, <1>1, DaemonHandle
<1>3. loaded
  BY <1>1 DEF Handle, Republish, OnConnectedKnown, OnConnectedNew, OnDisconnected,
              OnKeyNew, OnKeyIgnored, OnEnable, OnRemove, OnIgnored, Take,
              TakeIncoming, CanHandle
<1>4. pc \in Working
  BY <1>0, <1>3 DEF CoordinatorTypes
<1>5. CoordinatorTypes'
  <2>1. DbInv'
    BY <1>0, <1>2, DbStep DEF CoordinatorTypes
  <2> QED
    BY <1>0, <1>1, <1>2, <2>1 DEF CoordinatorTypes
<1>6. /\ outbox' \in Seq(Request) /\ Len(outbox') <= MaxOutbox /\ Grown
      /\ \A k \in DOMAIN outbox' \ DOMAIN outbox : outbox'[k] \in Talk
  <2>0. outbox \in Seq(Request) /\ Len(outbox) <= MaxOutbox
    BY <1>0 DEF SessionTypes
  <2>1. PICK msgs \in Seq(Publication) :
           \/ outbox' = outbox /\ msgs = <<>>
           \/ outbox' = outbox \o msgs /\ Len(outbox) + Len(msgs) <= MaxOutbox
    BY <1>2
  <2>2. CASE outbox' = outbox
    BY <2>0, <2>2 DEF Grown
  <2>3. CASE outbox' = outbox \o msgs /\ Len(outbox) + Len(msgs) <= MaxOutbox
    <3>1. \A m \in DOMAIN msgs : msgs[m] \in Publication
      BY ElementOfSeq
    <3>2. Publication \subseteq Talk /\ Publication \subseteq Request
      BY DEF Talk, Request
    <3>3. msgs \in Seq(Request)
      BY <3>2
    <3>4. /\ outbox' \in Seq(Request) /\ Len(outbox') = Len(outbox) + Len(msgs)
          /\ Grown
          /\ \A k \in DOMAIN outbox' \ DOMAIN outbox :
                \E m \in DOMAIN msgs : outbox'[k] = msgs[m]
      BY <2>0, <2>3, <3>3, ConcatGrows
    <3> QED
      BY <2>3, <3>1, <3>2, <3>4
  <2> QED
    BY <2>1, <2>2, <2>3
<1>7. SessionTypes' /\ BrokerTypes' /\ PlaceTypes'
  BY <1>0, <1>1, <1>6 DEF SessionTypes, BrokerTypes, PlaceTypes
<1>8. SessionFacts' /\ QueueFacts' /\ WillFacts' /\ ReachFacts'
  BY <1>1, <1>4, <1>6, TalkFacts
<1> QED
  BY <1>5, <1>7, <1>8 DEF DaemonInv, DaemonTypes

(* Refused publishes were never to reach the broker: the task has ended.    *)
LEMMA RefusedPublishStep == DaemonInv /\ CoordinatorIsRefused => DaemonInv'
<1> SUFFICES ASSUME DaemonInv, CoordinatorIsRefused PROVE DaemonInv'
  OBVIOUS
<1>0. /\ CoordinatorTypes /\ SessionTypes /\ BrokerTypes /\ PlaceTypes
      /\ SessionFacts /\ WillFacts /\ ReachFacts
  BY DEF DaemonInv, DaemonTypes
<1>1. /\ task = "ended" /\ outbox' = <<>>
      /\ UNCHANGED <<coordVars, task, state, flag, link, net, sessions, retained,
                     pc, pid, disturbed>>
  BY DEF CoordinatorIsRefused, linkVars, storyVars
<1>2. CoordinatorTypes'
  BY <1>0, <1>1, QuietCoordinator
<1>3. SessionTypes' /\ BrokerTypes' /\ PlaceTypes'
  <2>1. <<>> \in Seq(Request) /\ Len(<<>>) <= MaxOutbox
    BY BoundsAssumption
  <2> QED
    BY <1>0, <1>1, <2>1 DEF SessionTypes, BrokerTypes, PlaceTypes
<1>4. link # "up"
  BY <1>0, <1>1 DEF SessionFacts
<1>5. SessionFacts' /\ QueueFacts'
  BY <1>0, <1>1 DEF SessionFacts, QueueFacts, Queued
<1>6. WillFacts' /\ ReachFacts'
  BY <1>0, <1>1, <1>4 DEF WillFacts, NobodyHome, ReachFacts, Early
<1> QED
  BY <1>2, <1>3, <1>5, <1>6 DEF DaemonInv, DaemonTypes

LEMMA KeyStep == DaemonInv /\ KeyPressed => DaemonInv'
<1> SUFFICES ASSUME DaemonInv, KeyPressed PROVE DaemonInv'
  OBVIOUS
<1>0. CoordinatorTypes /\ SessionTypes /\ BrokerTypes /\ PlaceTypes
  BY DEF DaemonInv, DaemonTypes
<1>1. /\ loaded /\ Mqtt!Request(KeyAction) /\ KeyAction \in Request
      /\ UNCHANGED <<coordVars, task, state, flag, link, net, sessions, retained,
                     pc, pid, disturbed>>
  BY RequestLemma DEF KeyPressed, linkVars
<1>2. /\ outbox' \in Seq(Request) /\ Len(outbox') <= MaxOutbox /\ Grown
      /\ \A k \in DOMAIN outbox' \ DOMAIN outbox : outbox'[k] = KeyAction
  BY <1>0, <1>1, RequestGrows
<1>3. CoordinatorTypes'
  BY <1>0, <1>1, QuietCoordinator
<1>4. SessionTypes' /\ BrokerTypes' /\ PlaceTypes'
  BY <1>0, <1>1, <1>2 DEF SessionTypes, BrokerTypes, PlaceTypes
<1>5. pc \in Working
  BY <1>0, <1>1 DEF CoordinatorTypes
<1>6. SessionFacts' /\ QueueFacts' /\ WillFacts' /\ ReachFacts'
  BY <1>1, <1>2, <1>5, TalkFacts DEF Talk
<1> QED
  BY <1>3, <1>4, <1>6 DEF DaemonInv, DaemonTypes

-----------------------------------------------------------------------------
(* The environment.                                                         *)

(* Commands do not touch the availability topic.                            *)
LEMMA CommandStep ==
    ASSUME DaemonInv, NEW slug \in Slugs, NEW body \in {"on", "off"},
           UserCommands(slug, body)
    PROVE  DaemonInv'
<1>0. /\ CoordinatorTypes /\ SessionTypes /\ BrokerTypes /\ PlaceTypes
      /\ SessionFacts /\ QueueFacts /\ WillFacts /\ ReachFacts
  BY DEF DaemonInv, DaemonTypes
<1> DEFINE msg == [topic |-> "enabled", slug |-> slug, body |-> body]
<1>1. /\ retained' = Mqtt!Retain(retained, msg)
      /\ UNCHANGED <<coordVars, outbox, task, state, flag, link, net, sessions,
                     pc, pid, disturbed>>
  BY DEF UserCommands, Mqtt!OthersPublish, Mqtt!sessionVars
<1>2. msg.topic # "status"
  OBVIOUS
<1> HIDE DEF msg
<1>3. DOMAIN retained' = RetainedTopics /\ retained'[Status] = retained[Status]
  BY <1>0, <1>1, <1>2, RetainStatus
<1>4. CoordinatorTypes'
  BY <1>0, <1>1, QuietCoordinator
<1>5. SessionTypes' /\ BrokerTypes' /\ PlaceTypes'
  BY <1>0, <1>1, <1>3 DEF SessionTypes, BrokerTypes, PlaceTypes
<1>6. SessionFacts' /\ QueueFacts'
  BY <1>0, <1>1 DEF SessionFacts, QueueFacts, Queued
<1>7. WillFacts' /\ ReachFacts'
  BY <1>0, <1>1, <1>3 DEF WillFacts, NobodyHome, ReachFacts, Queued
<1> QED
  BY <1>4, <1>5, <1>6, <1>7 DEF DaemonInv, DaemonTypes

(* A connection that breaks disturbs the daemon, one that was not up does   *)
(* not.                                                                     *)
LEMMA NetworkStep == DaemonInv /\ (Cut \/ Mend) => DaemonInv'
<1> SUFFICES ASSUME DaemonInv, Cut \/ Mend PROVE DaemonInv'
  OBVIOUS
<1>0. /\ CoordinatorTypes /\ SessionTypes /\ BrokerTypes /\ PlaceTypes
      /\ SessionFacts /\ QueueFacts /\ WillFacts /\ ReachFacts
  BY DEF DaemonInv, DaemonTypes
<1>1. /\ net' \in {"up", "down", "refusing"}
      /\ \/ link = "up" /\ link' = "broken" /\ disturbed'
         \/ link' = link /\ (disturbed => disturbed')
      /\ UNCHANGED <<coordVars, outbox, task, state, flag, sessions, retained, pc, pid>>
  <2>1. CASE Cut /\ link = "up"
    BY <2>1 DEF Cut, Mqtt!Cut, Mqtt!Break
  <2>2. CASE Cut /\ link # "up"
    BY <2>2 DEF Cut, Mqtt!Cut, Mqtt!sessionVars
  <2>3. CASE Mend
    BY <2>3 DEF Mend, Mqtt!Mend, Mqtt!sessionVars, storyVars
  <2> QED
    BY <2>1, <2>2, <2>3
<1>2. CoordinatorTypes'
  BY <1>0, <1>1, QuietCoordinator
<1>3. SessionTypes' /\ BrokerTypes' /\ PlaceTypes'
  BY <1>0, <1>1 DEF SessionTypes, BrokerTypes, PlaceTypes
<1>4. SessionFacts' /\ QueueFacts'
  BY <1>0, <1>1 DEF SessionFacts, QueueFacts, Queued
<1>5. WillFacts'
  BY <1>0, <1>1 DEF WillFacts, NobodyHome, Queued
<1>6. ReachFacts'
  BY <1>0, <1>1 DEF ReachFacts, Queued
<1> QED
  BY <1>2, <1>3, <1>4, <1>5, <1>6 DEF DaemonInv, DaemonTypes

(* A will is published: by then the process that left it is gone or has     *)
(* lost its connection.                                                     *)
LEMMA ExpiryStep ==
    ASSUME DaemonInv, NEW c \in Pids, BrokerExpires(c)
    PROVE  DaemonInv'
<1>0. /\ CoordinatorTypes /\ SessionTypes /\ BrokerTypes /\ PlaceTypes
      /\ SessionFacts /\ QueueFacts
  BY DEF DaemonInv, DaemonTypes
<1>1. /\ c = pid => link # "up"
      /\ sessions' = [sessions EXCEPT ![c] = [open |-> FALSE, kinds |-> {}]]
      /\ retained' = Mqtt!Retain(retained, [p \in Pids |-> Offline][c])
      /\ disturbed'
      /\ UNCHANGED <<coordVars, outbox, task, state, flag, link, net, pc, pid>>
  BY DEF BrokerExpires, Mqtt!Expire, Mqtt!Closed, vars, coordVars, dbVars, slotVars
<1>2. DOMAIN retained' = RetainedTopics /\ retained'[Status] # "online"
  BY <1>0, <1>1, WillIsOffline
<1>3. sessions' \in [Pids -> Session]
  BY <1>0, <1>1 DEF BrokerTypes, Session
<1>4. CoordinatorTypes'
  BY <1>0, <1>1, QuietCoordinator
<1>5. SessionTypes' /\ BrokerTypes' /\ PlaceTypes'
  BY <1>0, <1>1, <1>2, <1>3 DEF SessionTypes, BrokerTypes, PlaceTypes
<1>6. SessionFacts'
  <2>1. link = "up" => pid \in Pids
    BY <1>0 DEF SessionFacts, SessionTypes, PlaceTypes
  <2>2. link = "up" => sessions'[pid] = sessions[pid]
    BY <1>0, <1>1, <2>1 DEF BrokerTypes
  <2> QED
    BY <1>0, <1>1, <2>2 DEF SessionFacts
<1>7. QueueFacts'
  BY <1>0, <1>1 DEF QueueFacts, Queued
<1>8. WillFacts' /\ ReachFacts'
  BY <1>1, <1>2 DEF WillFacts, NobodyHome, ReachFacts
<1> QED
  BY <1>4, <1>5, <1>6, <1>7, <1>8 DEF DaemonInv, DaemonTypes

(* Nothing happens.                                                         *)
LEMMA DaemonStutters == DaemonInv /\ UNCHANGED daemonVars => DaemonInv'
<1> SUFFICES ASSUME DaemonInv, UNCHANGED daemonVars PROVE DaemonInv'
  OBVIOUS
<1>0. /\ CoordinatorTypes /\ SessionTypes /\ BrokerTypes /\ PlaceTypes
      /\ SessionFacts /\ QueueFacts /\ WillFacts /\ ReachFacts
  BY DEF DaemonInv, DaemonTypes
<1>1. UNCHANGED <<coordVars, outbox, task, state, flag, link, net, sessions, retained,
                  pc, pid, disturbed>>
  BY DEF daemonVars, vars, linkVars, storyVars, coordVars, dbVars, slotVars
<1>2. CoordinatorTypes'
  BY <1>0, <1>1, QuietCoordinator
<1>3. SessionTypes' /\ BrokerTypes' /\ PlaceTypes'
  BY <1>0, <1>1 DEF SessionTypes, BrokerTypes, PlaceTypes
<1>4. SessionFacts' /\ QueueFacts' /\ WillFacts' /\ ReachFacts'
  BY <1>0, <1>1 DEF SessionFacts, QueueFacts, WillFacts, NobodyHome, ReachFacts, Queued
<1> QED
  BY <1>2, <1>3, <1>4 DEF DaemonInv, DaemonTypes

-----------------------------------------------------------------------------
(* The theorems.                                                            *)

LEMMA DaemonInvariance == DaemonSpec => []DaemonInv
<1>1. DaemonInv /\ [DaemonNext]_daemonVars => DaemonInv'
  <2> SUFFICES ASSUME DaemonInv, [DaemonNext]_daemonVars PROVE DaemonInv'
    OBVIOUS
  <2>1. CASE UNCHANGED daemonVars
    BY <2>1, DaemonStutters
  <2>2. CASE Launch \/ LoadFails
    BY <2>2, LaunchStep, LoadFailsStep
  <2>3. CASE Ready \/ Signalled \/ Refused \/ Flush
    BY <2>3, WaitStep
  <2>4. CASE StartFails \/ Leave \/ Killed
    BY <2>4, ExitStep DEF StartFails, Leave, Killed
  <2>5. CASE AnnounceOnline
    BY <2>5, AnnounceStep
  <2>6. CASE SubscribeEnabled
    BY <2>6, SubscribeStep
  <2>7. CASE StartCoordinator
    BY <2>7, StartStep
  <2>8. CASE Farewell
    BY <2>8, FarewellStep
  <2>9. CASE AskDisconnect
    BY <2>9, DisconnectStep
  <2>10. CASE EventTask
    BY <2>10, EventTaskStep
  <2>11. CASE CoordinatorWorks \/ CoordinatorIsRefused \/ KeyPressed
    BY <2>11, CoordinatorStep, RefusedPublishStep, KeyStep
  <2>12. CASE \E slug \in Slugs, body \in {"on", "off"} : UserCommands(slug, body)
    BY <2>12, CommandStep
  <2>13. CASE Cut \/ Mend
    BY <2>13, NetworkStep
  <2>14. CASE \E c \in Pids : BrokerExpires(c)
    BY <2>14, ExpiryStep
  <2> QED
    BY <2>1, <2>2, <2>3, <2>4, <2>5, <2>6, <2>7, <2>8, <2>9, <2>10, <2>11, <2>12,
       <2>13, <2>14 DEF DaemonNext
<1> QED
  BY <1>1, DaemonInitially, PTL DEF DaemonSpec

(* The state of the daemon, its session and its broker stay what they can   *)
(* be; the registry is in memory exactly while the coordinator runs, and an *)
(* event task exists exactly while the process does.                        *)
THEOREM DaemonTypeCorrect == DaemonSpec => []DaemonTypeOK
<1>1. DaemonInv => DaemonTypeOK
  <2> SUFFICES ASSUME DaemonInv PROVE DaemonTypeOK
    OBVIOUS
  <2>0. CoordinatorTypes /\ SessionTypes /\ BrokerTypes /\ PlaceTypes
    BY DEF DaemonInv, DaemonTypes
  <2>1. Kinds \subseteq {t[1] : t \in RetainedTopics}
    <3>1. PICK slug \in Slugs : TRUE
      BY SlugsAssumption
    <3>2. Status \in RetainedTopics /\ <<"enabled", slug>> \in RetainedTopics
      BY DEF RetainedTopics
    <3>3. Status[1] = "status" /\ <<"enabled", slug>>[1] = "enabled"
      BY DEF Status
    <3> QED
      BY <3>2, <3>3 DEF Kinds
  <2>2. Mqtt!SessionTypeOK
    BY <2>0 DEF SessionTypes, Mqtt!SessionTypeOK
  <2>3. Mqtt!BrokerTypeOK
    BY <2>0, <2>1 DEF BrokerTypes, Session, Mqtt!BrokerTypeOK
  <2> QED
    BY <2>0, <2>2, <2>3
       DEF DaemonTypeOK, CoordinatorTypes, SessionTypes, PlaceTypes, DbInv, Places, Working
<1> QED
  BY <1>1, DaemonInvariance, PTL

(* The availability topic never says "online" when no session of any        *)
(* daemon is open: whether the process was killed, was cut off, or said     *)
(* good-bye, and whatever requests it lost on the way.                      *)
THEOREM NobodyIsShownAsHome == DaemonSpec => []NobodyHome
<1>1. DaemonInv => NobodyHome
  BY DEF DaemonInv, WillFacts
<1> QED
  BY <1>1, DaemonInvariance, PTL

(* A daemon that runs, is connected and has sent all it had to is shown as  *)
(* online and is subscribed for commands, unless its connection broke or a  *)
(* will was published since it started.                                     *)
THEOREM UndisturbedDaemonsAreReachable == DaemonSpec => []UndisturbedIsReachable
<1>1. DaemonInv => UndisturbedIsReachable
  <2> SUFFICES ASSUME DaemonInv, ~disturbed, pc = "running", outbox = <<>>
               PROVE  retained[Status] = "online" /\ "enabled" \in sessions[pid].kinds
    BY DEF UndisturbedIsReachable, IsReachable
  <2>1. \A msg : ~Queued(msg)
    BY DEF Queued
  <2> QED
    BY <2>1 DEF DaemonInv, ReachFacts, Early
<1> QED
  BY <1>1, DaemonInvariance, PTL
=============================================================================
