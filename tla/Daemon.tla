------------------------------- MODULE Daemon -------------------------------
(* The daemon from its start to its end (run_with_shutdown, daemon.rs), over *)
(* an MQTT session that breaks and comes back: the wait for the broker, the *)
(* online announcement, the subscription, the coordinator, a signal or a    *)
(* refusal, and the way out.  The process may be killed at any point and is *)
(* started again, as a new client of the broker.                            *)
(*                                                                          *)
(* The coordinator is the one of Coordinator, with devices it knows from    *)
(* its file and nothing plugged in; its monitors are reduced to publishes   *)
(* that take room in the request channel.                                   *)
EXTENDS Coordinator

CONSTANTS
    MaxLaunches,     \* bound on the starts of the daemon
    MaxCuts,         \* bound on the breaks of the connection
    MaxUserCommands, \* bound on the commands of users
    MaxKeys          \* bound on the publishes of monitors

ASSUME LaunchesAssumption == MaxLaunches \in Nat
ASSUME StatusAssumption == None # "online"
(* Whatever a device is called, `slugify` gives it a slug. *)
ASSUME SlugsAssumption == Slugs # {}

VARIABLES
    task, state, flag, link, net, sessions, retained, cuts,  \* Connection
    pc,         \* where run_with_shutdown is
    pid,        \* the number of this start, and the client id
    disturbed,  \* history: the connection of this process broke, or a will
                \* of an earlier one was published, since it started
    uses        \* what has been used of the last two bounds

linkVars    == <<task, state, flag, link, net, sessions, retained, cuts>>
coordVars   == <<dbVars, todo, slotVars, rx>>
storyVars   == <<pid, disturbed, uses>>
daemonVars  == <<vars, linkVars, pc, storyVars>>

Pids == 1..MaxLaunches

Online    == [topic |-> "status", slug |-> None, body |-> "online"]
Offline   == [topic |-> "status", slug |-> None, body |-> "offline"]
KeyAction == [topic |-> "action", slug |-> None, body |-> None]

Status         == <<"status", None>>
RetainedTopics == {Status} \cup ({"enabled"} \X Slugs)

Mqtt ==
    INSTANCE Connection WITH
        requests <- outbox, inbox <- incoming, MaxRequests <- MaxOutbox,
        Clients <- Pids, Wills <- [c \in Pids |-> Offline],
        Topics <- RetainedTopics, Nobody <- None

-----------------------------------------------------------------------------
DaemonInit ==
    /\ Init
    /\ Mqtt!ConnectionInit
    /\ retained = [t \in RetainedTopics |-> None]
    /\ pc = "off"
    /\ pid = 0
    /\ disturbed = FALSE
    /\ uses = [commands |-> 0, keys |-> 0]

Goes(from, to) == pc = from /\ pc' = to

(* A step of run_with_shutdown that asks the event task for something.      *)
Asks(msg) ==
    /\ Mqtt!Request(msg)
    /\ UNCHANGED <<coordVars, incoming, linkVars, storyVars>>

-----------------------------------------------------------------------------
(* The start.                                                               *)

(* The registry is loaded and the session spawned.  (The coordinator's      *)
(* Start, below, is when the registry is first used.)                       *)
Launch ==
    /\ pid < MaxLaunches
    /\ Goes("off", "connecting")
    /\ pid' = pid + 1
    /\ disturbed' = FALSE
    /\ Mqtt!Open
    /\ UNCHANGED <<coordVars, net, sessions, retained, cuts, uses>>

(* The registry cannot be read: the process is gone before it has asked     *)
(* anything of the broker, and takes a number with it.                      *)
LoadFails ==
    /\ pid < MaxLaunches
    /\ pc = "off"
    /\ pid' = pid + 1
    /\ disturbed' = FALSE
    /\ UNCHANGED <<vars, linkVars, pc, uses>>

Ready ==
    /\ Goes("connecting", "announcing")
    /\ state = "Connected"
    /\ UNCHANGED <<vars, linkVars, storyVars>>

(* Mutant: the coordinator is not aborted.                                  *)
ExitsAlone ==
    /\ pc' = "off"
    /\ Mqtt!Abandoned
    /\ UNCHANGED <<coordVars, net, sessions, retained, cuts, storyVars>>

(* The process is gone; so is all it had in memory.                         *)
Exits ==
    /\ pc' = "off"
    /\ Mqtt!Abandoned
    /\ IF loaded THEN Die ELSE UNCHANGED coordVars
    /\ UNCHANGED <<net, sessions, retained, cuts, storyVars>>

(* Mutant: the wait for the broker has no deadline.                         *)
StartFailsIfRefused == pc = "connecting" /\ state = "PermanentFailure" /\ Exits

(* A permanent failure, or thirty seconds have passed: exit code 1.         *)
StartFails == pc = "connecting" /\ Exits

(* Mutant: the announcement is not retained.                                *)
AnnounceFleeting ==
    Goes("announcing", "subscribing") /\ Asks([Online EXCEPT !.topic = "fleeting"])

AnnounceOnline == Goes("announcing", "subscribing") /\ Asks(Online)

SubscribeEnabled == Goes("subscribing", "settling") /\ Asks(Mqtt!SubscribeTo("enabled"))

(* 300 ms later: the coordinator takes over what has arrived by now.        *)
StartCoordinator ==
    /\ Goes("settling", "running")
    /\ Start(incoming)
    /\ UNCHANGED <<linkVars, storyVars>>

-----------------------------------------------------------------------------
(* The way out.                                                             *)

(* SIGTERM or SIGINT, handled only from here on: until the daemon is ready  *)
(* the signal is not listened for, and kills the process.                   *)
Signalled ==
    /\ Goes("running", "farewell")
    /\ UNCHANGED <<vars, linkVars, storyVars>>

(* wait_for_permanent_failure. *)
Refused ==
    /\ Goes("running", "farewell")
    /\ state = "PermanentFailure"
    /\ UNCHANGED <<vars, linkVars, storyVars>>

(* Mutants: the offline announcement is left to the last will; a refused    *)
(* publish is tried again.                                                  *)
FarewellSilent == Goes("farewell", "flushing") /\ UNCHANGED <<vars, linkVars, storyVars>>

FarewellAgain == Goes("farewell", "flushing") /\ task # "ended" /\ Asks(Offline)

Farewell == Goes("farewell", "flushing") /\ Asks(Offline)

(* 200 ms later. *)
Flush ==
    /\ Goes("flushing", "disconnecting")
    /\ Mqtt!RaiseFlag
    /\ UNCHANGED <<vars, task, state, link, net, sessions, retained, cuts, storyVars>>

AskDisconnect == Goes("disconnecting", "joining") /\ Asks(Mqtt!Disconnect)

(* The event task has ended, or half a second has passed; the coordinator   *)
(* and its monitors are aborted.  Exit code 0, even after a refusal.        *)
Leave == pc = "joining" /\ Exits

(* SIGKILL, a crash, or a signal before the daemon is ready.                *)
Killed == pc # "off" /\ Exits

-----------------------------------------------------------------------------
(* The other tasks of the daemon.                                           *)

EventTask ==
    /\ pc # "off"
    /\ Mqtt!EventTask(pid)
    /\ UNCHANGED <<coordVars, pc, storyVars>>

CoordinatorWorks ==
    /\ Handle
    /\ UNCHANGED <<linkVars, pc, storyVars>>

(* Once the event loop has ended every publish is refused: what a handler   *)
(* queued goes nowhere, and the handler goes on.                            *)
CoordinatorIsRefused ==
    /\ task = "ended"
    /\ outbox # <<>>
    /\ outbox' = <<>>
    /\ UNCHANGED <<coordVars, incoming, linkVars, pc, storyVars>>

KeyPressed ==
    /\ loaded
    /\ uses.keys < MaxKeys
    /\ Mqtt!Request(KeyAction)
    /\ uses' = [uses EXCEPT !.keys = @ + 1]
    /\ UNCHANGED <<coordVars, incoming, linkVars, pc, pid, disturbed>>

-----------------------------------------------------------------------------
(* The environment.                                                         *)

UserCommands(slug, body) ==
    /\ uses.commands < MaxUserCommands
    /\ uses' = [uses EXCEPT !.commands = @ + 1]
    /\ Mqtt!OthersPublish(pid, [topic |-> "enabled", slug |-> slug, body |-> body])
    /\ UNCHANGED <<coordVars, pc, pid, disturbed>>

Cut ==
    /\ Mqtt!Cut
    /\ disturbed' = (disturbed \/ link = "up")
    /\ UNCHANGED <<coordVars, pc, pid, uses>>

Mend ==
    /\ Mqtt!Mend
    /\ UNCHANGED <<coordVars, pc, storyVars>>

(* The broker finds that a client is gone and publishes its will.           *)
BrokerExpires(c) ==
    /\ c = pid => link # "up"
    /\ Mqtt!Expire(c)
    /\ disturbed' = TRUE
    /\ UNCHANGED <<vars, task, state, flag, link, net, cuts, pc, pid, uses>>

-----------------------------------------------------------------------------
DaemonNext ==
    \/ Launch \/ LoadFails \/ Ready \/ StartFails
    \/ AnnounceOnline \/ SubscribeEnabled \/ StartCoordinator
    \/ Signalled \/ Refused
    \/ Farewell \/ Flush \/ AskDisconnect \/ Leave \/ Killed
    \/ EventTask \/ CoordinatorWorks \/ CoordinatorIsRefused \/ KeyPressed
    \/ \E slug \in Slugs, body \in {"on", "off"} : UserCommands(slug, body)
    \/ Cut \/ Mend
    \/ \E c \in Pids : BrokerExpires(c)

(* Every task is scheduled, timers fire, `poll` finds out about a broken    *)
(* connection (keep-alive), and senders wait in line for room in the        *)
(* request channel.  Nobody has to start, stop or kill the daemon, and a    *)
(* connection that is cut need not come back.                               *)
DaemonFairness ==
    /\ WF_daemonVars(Ready)
    /\ WF_daemonVars(StartFails)
    /\ WF_daemonVars(AnnounceOnline)
    /\ WF_daemonVars(SubscribeEnabled)
    /\ WF_daemonVars(StartCoordinator)
    /\ WF_daemonVars(Refused)
    /\ SF_daemonVars(Farewell)
    /\ WF_daemonVars(Flush)
    /\ SF_daemonVars(AskDisconnect)
    /\ WF_daemonVars(Leave)
    /\ WF_daemonVars(EventTask)
    /\ WF_daemonVars(CoordinatorWorks)
    /\ WF_daemonVars(CoordinatorIsRefused)

DaemonSpec == DaemonInit /\ [][DaemonNext]_daemonVars /\ DaemonFairness

-----------------------------------------------------------------------------
DaemonTypeOK ==
    /\ DbTypeOK
    /\ Mqtt!SessionTypeOK
    /\ Mqtt!BrokerTypeOK
    /\ pc \in {"off", "connecting", "announcing", "subscribing", "settling", "running",
               "farewell", "flushing", "disconnecting", "joining"}
    /\ loaded <=> pc \in {"running", "farewell", "flushing", "disconnecting", "joining"}
    /\ task = "none" <=> pc = "off"

(* When no session of the daemon is open, the availability topic does not   *)
(* say that it is: a process that is killed or cut off leaves its will, one *)
(* that says good-bye does so before its DISCONNECT, which discards the     *)
(* will, and no loss of requests in between turns this round.               *)
NobodyHome ==
    (\A c \in Pids : ~sessions[c].open) => retained[Status] # "online"

(* A daemon that is ready, connected and has sent all it had to is shown as *)
(* online and hears the commands.                                           *)
IsReachable ==
    pc = "running" /\ link = "up" /\ todo = 0 /\ outbox = <<>>
    => retained[Status] = "online" /\ "enabled" \in sessions[pid].kinds

(* It is so as long as its connection has not broken and no will of an      *)
(* earlier process came after its own announcement.                         *)
UndisturbedIsReachable == disturbed \/ IsReachable

(* A start comes to an end, whatever the broker does: after the wait for it *)
(* nothing else holds the daemon up.                                        *)
Starting == {"connecting", "announcing", "subscribing", "settling"}

StartSettles == pc \in Starting ~> pc \in {"running", "off"}

(* "a fatal MQTT error after startup exits the process instead of running   *)
(* in a dead-MQTT state forever" (mqtt.rs): a refusal ends the daemon,      *)
(* although every publish of the way out is refused too.                    *)
RefusalEndsTheDaemon == state = "PermanentFailure" ~> pc = "off"

(* A shutdown comes to an end, unless the request channel is full and the   *)
(* broker stays away: then there is never room for the farewell.            *)
Ending == {"farewell", "flushing", "disconnecting", "joining"}

ShutdownEnds ==
    pc \in Ending ~> pc = "off" \/ (net = "down" /\ Len(outbox) = MaxOutbox)
=============================================================================
