------------------------------- MODULE Bridge -------------------------------
(* The coordinator, the MQTT broker and the users of the enabled topics.    *)
(*                                                                          *)
(* `_devices/<slug>/enabled` carries both directions: the daemon publishes  *)
(* the switch there, retained, and it is subscribed there for commands, so  *)
(* the broker gives it back every publish of its own.  Users (the command   *)
(* line client, Home Assistant) publish on, off or the empty payload, also  *)
(* retained.  The broker orders publishes; the connection to the daemon     *)
(* keeps that order, and `incoming` holds what is under way.  The daemon    *)
(* may die and start again; the broker goes on.                             *)
EXTENDS Coordinator

Lists == INSTANCE SequencesExt

CONSTANTS
    Manners,       \* how users act, see UsersAct: "any", "patient", "offline"
    MaxCommands,   \* bound on the commands of the users
    MaxSightings,  \* bound on the sightings
    MaxDeaths      \* bound on the deaths of the daemon

VARIABLES
    retained,  \* what the broker retains, by topic and slug; None for nothing
    origins,   \* history: who published each message of `incoming`
    asked,     \* history: the last command of a user for each slug
    manner,    \* the manner of the users of this behaviour
    spent      \* what has been used of the three bounds

bridgeVars == <<vars, retained, origins, asked, manner, spent>>

ASSUME MannersAssumption == Manners \subseteq {"any", "patient", "offline"}
ASSUME NothingAssumption == None # "nothing"

Topics == {"info", "enabled", "discovery"}

(* Nothing is under way: every message has been handled, every publish has  *)
(* reached the broker.                                                      *)
Quiet ==
    /\ loaded
    /\ todo = 0
    /\ rx = <<>> /\ incoming = <<>> /\ outbox = <<>>

-----------------------------------------------------------------------------
BridgeInit ==
    /\ Init
    /\ retained = [topic \in Topics |-> [s \in Slugs |-> None]]
    /\ origins = <<>>
    /\ asked = [s \in Slugs |-> "nothing"]
    /\ manner \in Manners
    /\ spent = [commands |-> 0, sightings |-> 0, deaths |-> 0]

(* The retained messages of the subscription, which come in any order. *)
Replayed ==
    LET held == {s \in Slugs : retained["enabled"][s] # None} IN
    {[k \in DOMAIN order |->
        [slug |-> order[k], body |-> retained["enabled"][order[k]]]]
        : order \in Lists!SetToSeqs(held)}

BridgeStart ==
    /\ \E replay \in Replayed :
          /\ Start(replay)
          /\ origins' = [k \in DOMAIN replay |-> "broker"]
    /\ UNCHANGED <<retained, asked, manner, spent>>

(* The session is clean: what was under way to the daemon is dropped.       *)
BridgeDie ==
    /\ spent.deaths < MaxDeaths
    /\ Die
    /\ origins' = <<>>
    /\ spent' = [spent EXCEPT !.deaths = @ + 1]
    /\ UNCHANGED <<retained, asked, manner>>

(* The coordinator takes its next step.  A slug that is given to a new      *)
(* device has not been commanded yet.                                       *)
BridgeHandle ==
    /\ Handle
    /\ origins' = IF incoming' = incoming THEN origins ELSE Tail(origins)
    /\ asked' = [s \in Slugs |->
                    IF s \in SlugsOf(devices') \ SlugsOf(devices)
                    THEN "nothing" ELSE asked[s]]
    /\ UNCHANGED <<retained, manner, spent>>

(* A publish of the daemon reaches the broker, which retains it and, on an  *)
(* enabled topic, sends it to the subscriber: the daemon itself.            *)
BridgeTransmit ==
    /\ outbox # <<>>
    /\ outbox' = Tail(outbox)
    /\ LET msg == Head(outbox) IN
       /\ retained' = [retained EXCEPT ![msg.topic][msg.slug] = msg.body]
       /\ IF msg.topic = "enabled"
          THEN /\ incoming' = Append(incoming, [slug |-> msg.slug, body |-> msg.body])
               /\ origins' = Append(origins, "daemon")
          ELSE UNCHANGED <<incoming, origins>>
    /\ UNCHANGED <<dbVars, todo, slotVars, rx, asked, manner, spent>>

(* Who the users of a behaviour are.  "any" ones publish when they like, on *)
(* the topic of any slug: no publisher looks whether the broker lists the   *)
(* device.  The others are the users that the promises below need: "patient"*)
(* ones publish when nothing is under way, for a device that the broker     *)
(* lists, and "offline" ones while the daemon is down.                      *)
UsersAct(slug) ==
    /\ manner = "patient" => Quiet /\ retained["info"][slug] # None
    /\ manner = "offline" => ~loaded

(* A user publishes on an enabled topic, whether the daemon runs or not.    *)
UserPublishes(slug, body) ==
    /\ spent.commands < MaxCommands
    /\ UsersAct(slug)
    /\ retained' = [retained EXCEPT !["enabled"][slug] = body]
    /\ asked' = [asked EXCEPT ![slug] = body]
    /\ IF loaded
       THEN /\ incoming' = Append(incoming, [slug |-> slug, body |-> body])
            /\ origins' = Append(origins, "user")
       ELSE UNCHANGED <<incoming, origins>>
    /\ spent' = [spent EXCEPT !.commands = @ + 1]
    /\ UNCHANGED <<dbVars, todo, slotVars, rx, outbox, manner>>

BridgeSight(id, path) ==
    /\ spent.sightings < MaxSightings
    /\ Sight(id, path)
    /\ spent' = [spent EXCEPT !.sightings = @ + 1]
    /\ UNCHANGED <<retained, origins, asked, manner>>

BridgeTask(t) ==
    /\ \/ \E code \in Codes : TaskKey(t, code)
       \/ TaskFails(t)
       \/ TaskStops(t)
    /\ UNCHANGED <<retained, origins, asked, manner, spent>>

BridgeNext ==
    \/ BridgeStart
    \/ BridgeDie
    \/ BridgeHandle
    \/ BridgeTransmit
    \/ \E slug \in Slugs, body \in {"on", "off", None} : UserPublishes(slug, body)
    \/ \E id \in Identities, path \in Paths : BridgeSight(id, path)
    \/ \E t \in Tasks : BridgeTask(t)

(* The coordinator task takes from both its channels (select! is not        *)
(* biased), the event loop is scheduled, the connection works, and a        *)
(* monitor that was told to stop is polled and ends; nobody has to act,     *)
(* die, start, press a key or unplug.                                       *)
BridgeFairness ==
    /\ WF_bridgeVars(BridgeHandle)
    /\ WF_bridgeVars(TakeIncoming /\ BridgeHandle)
    /\ WF_bridgeVars(BridgeTransmit)
    /\ \A t \in Tasks : WF_bridgeVars(TaskStops(t) /\ BridgeTask(t))

BridgeSpec == BridgeInit /\ [][BridgeNext]_bridgeVars /\ BridgeFairness

-----------------------------------------------------------------------------
BridgeTypeOK ==
    /\ TypeOK
    /\ DOMAIN retained = Topics
    /\ \A topic \in Topics : DOMAIN retained[topic] = Slugs
    /\ Len(origins) = Len(incoming)
    /\ asked \in [Slugs -> {"nothing", "on", "off", None}]

(* When nothing is under way, what the broker shows of a known device is    *)
(* what the registry holds: the switch, the triggers, and that it exists.   *)
(* It holds however commands, echoes, sightings and restarts cross, because *)
(* the last word on a topic has been handled by the coordinator or came     *)
(* from it.                                                                 *)
BrokerShowsTheRegistry ==
    Quiet =>
        \A i \in DOMAIN devices :
            \A topic \in Topics :
                Says(devices[i], topic, retained[topic][devices[i].slug])

(* When nothing is under way, the broker retains nothing that the daemon    *)
(* said of a slug it does not know, however commands, sightings and the     *)
(* clears of a removal crossed.  What it may retain there is the last word  *)
(* of a user on the enabled topic, sent when the clear had gone out already *)
(* (the "stale retained message" of on_enable).  A death between the save   *)
(* and the clears does leave the topics behind, so no death is allowed.     *)
RemovedIsGone ==
    Quiet /\ spent.deaths = 0 =>
        \A slug \in Slugs \ SlugsOf(devices) :
            /\ retained["info"][slug] = None
            /\ retained["discovery"][slug] = None
            /\ retained["enabled"][slug] \in {None, asked[slug]}

(* Patient users of a daemon that has been up ever since: what follows needs*)
(* both, though devices are sighted, and announced, at any time.            *)
Patience == manner = "patient" /\ spent.deaths = 0

(* When nothing is under way, a device is as its user last asked.           *)
LastCommandWins ==
    Quiet /\ Patience =>
        \A slug \in Slugs :
            /\ asked[slug] \in {"on", "off"} =>
                  \A i \in DOMAIN devices :
                     devices[i].slug = slug => Switch(devices[i]) = asked[slug]
            /\ asked[slug] = None => slug \notin SlugsOf(devices)

IsEcho == incoming # <<>> /\ Head(origins) = "daemon" /\ incoming' = Tail(incoming)

(* The daemon's own publish come back changes nothing, "Handlers are        *)
(* idempotent" (ARCHITECTURE.md), between patient users.  The exception is  *)
(* the echo of the clear of a removal: it may find a device that was        *)
(* registered under the slug while the clear was under way, and remove it   *)
(* again.  That one has not been commanded yet: an echo never undoes what a *)
(* user asked.                                                              *)
EchoUndoesNoCommand ==
    [][ IsEcho /\ loaded' /\ Patience
        /\ (Head(incoming).body = None => asked[Head(incoming).slug] # "nothing")
        => UNCHANGED dbVars ]_bridgeVars

(* A device removed by its user while the daemon was down is gone once the  *)
(* daemon is up again ("the next start will see the cleared `enabled` topic *)
(* and remove the entry then", client.rs).                                  *)
RemovalSurvivesDowntime ==
    Quiet => \A slug \in Slugs : asked[slug] = None => slug \notin SlugsOf(devices)

(* No command and no mirror is under way. *)
Settled ==
    /\ loaded
    /\ todo = 0
    /\ incoming = <<>>
    /\ \A k \in DOMAIN outbox : outbox[k].topic # "enabled"

(* The exchange of commands and echoes dies down, whatever keys are pressed *)
(* and whatever is sighted meanwhile: with patience (a command for a slug   *)
(* that is not listed could cross its registration and loop) ...            *)
PatientEchoesDie == loaded /\ Patience ~> Settled \/ ~loaded

=============================================================================
