-------------------------------- MODULE Cli --------------------------------
(* The command line tool (cli.rs) over the client library (client.rs): it   *)
(* lists the devices the broker retains, or enables, disables and removes   *)
(* devices, each of the three groups over a connection of its own.          *)
EXTENDS Integers, Sequences, FiniteSets

CONSTANTS
    None,
    Slugs,
    MaxOutbox,
    MaxCuts,
    MaxPublishes  \* bound on what others publish meanwhile

ASSUME BoundsAssumption == MaxOutbox \in Nat
(* Some devices, and what a broker retains of them is finite.               *)
ASSUME SlugsAssumption == Slugs # {} /\ IsFiniteSet(Slugs)

VARIABLES
    task, state, flag, link, outbox, net, sessions, retained, incoming, cuts,
    stage,    \* where the tool is in its present connection
    jobs,     \* the connections to make, the present one first
    left,     \* the slugs of the present job that are not published yet
    leaked,   \* event tasks of failed connections, which run on
    rc,       \* exit code
    listing,  \* what list_devices has collected
    smooth,   \* history: no connection broke, no wait for an event task
              \* ran out of time
    asked,    \* history: the commands confirmed to the user
    arrived,  \* history: the commands the broker has got
    others    \* what has been used of MaxPublishes

linkVars  == <<task, state, flag, link, outbox, net, sessions, retained, incoming, cuts>>
storyVars == <<smooth, asked, arrived, others>>
toolVars  == <<stage, jobs, left, leaked, rc, listing>>
cliVars   == <<linkVars, toolVars, storyVars>>

Me == 1  \* `<prefix>-cli-<pid>`: one client id for all connections

RetainedTopics == {"info", "enabled"} \X Slugs

Mqtt ==
    INSTANCE Connection WITH
        requests <- outbox, inbox <- incoming, MaxRequests <- MaxOutbox,
        Clients <- {Me},
        Wills <- [c \in {Me} |-> [topic |-> "cli-lwt", slug |-> None, body |-> "offline"]],
        Topics <- RetainedTopics,
        Nobody <- None

(* A job is a listing or the publishes of one group.                        *)
ListDevices      == [kind |-> "list", slugs |-> <<>>, body |-> None]
Job(body, slugs) == [kind |-> "publish", slugs |-> slugs, body |-> body]

(* Mode::Manage: enable, then disable, then remove; empty groups make no    *)
(* connection.                                                              *)
Manage(enable, disable, remove) ==
    (IF enable = <<>> THEN <<>> ELSE <<Job("on", enable)>>)
    \o (IF disable = <<>> THEN <<>> ELSE <<Job("off", disable)>>)
    \o (IF remove = <<>> THEN <<>> ELSE <<Job(None, remove)>>)

Command(slug, body) == [topic |-> "enabled", slug |-> slug, body |-> body]

Nothing == [infos |-> {}, enabled |-> [s \in Slugs |-> None]]

-----------------------------------------------------------------------------
(* With nothing to do the process ends, as `code` says.                     *)
CliInit(todo, code, held) ==
    /\ Mqtt!ConnectionInit
    /\ retained = held
    /\ stage = IF todo = <<>> THEN "exited" ELSE "next"
    /\ jobs = todo
    /\ left = <<>>
    /\ leaked = 0
    /\ rc = code
    /\ listing = Nothing
    /\ smooth = TRUE
    /\ asked = <<>> /\ arrived = <<>>
    /\ others = 0

Goes(from, to) == stage = from /\ stage' = to

(* Client::connect. *)
ConnectFirst ==
    /\ jobs # <<>>
    /\ Goes("next", "connecting")
    /\ left' = Head(jobs).slugs
    /\ Mqtt!Open
    /\ UNCHANGED <<net, sessions, retained, cuts, jobs, leaked, rc, listing, storyVars>>

Connected ==
    /\ Goes("connecting", IF Head(jobs).kind = "list" THEN "infos" ELSE "publishing")
    /\ state = "Connected"
    /\ UNCHANGED <<linkVars, jobs, left, leaked, rc, listing, storyVars>>

(* The job is given up with an error.  Its runtime is dropped, which        *)
(* detaches the event task and does not end it.                             *)
GivesUp ==
    /\ stage' = "next"
    /\ jobs' = Tail(jobs)
    /\ left' = <<>>
    /\ rc' = 1
    /\ leaked' = IF task = "ended" THEN leaked ELSE leaked + 1
    /\ Mqtt!Abandoned
    /\ UNCHANGED <<net, sessions, retained, cuts, listing, storyVars>>

(* Mutant: the wait has no deadline.                                        *)
ConnectFailsIfRefused ==
    stage = "connecting" /\ state = "PermanentFailure" /\ GivesUp

(* A permanent failure, or five seconds have passed.                        *)
ConnectFails == stage = "connecting" /\ GivesUp

(* A request is refused because the event task has ended.                   *)
RequestFails ==
    /\ stage \in {"infos", "switches", "publishing"}
    /\ stage = "publishing" => left # <<>>
    /\ task = "ended"
    /\ GivesUp

-----------------------------------------------------------------------------
(* list_devices. *)

Asks(msg) ==
    /\ task # "ended"
    /\ Mqtt!Request(msg)
    /\ UNCHANGED <<task, state, flag, link, net, sessions, retained, incoming, cuts>>

SubscribeInfos ==
    /\ Goes("infos", "switches")
    /\ Asks(Mqtt!SubscribeTo("info"))
    /\ UNCHANGED <<jobs, left, leaked, rc, listing, storyVars>>

SubscribeSwitches ==
    /\ Goes("switches", "reading")
    /\ Asks(Mqtt!SubscribeTo("enabled"))
    /\ UNCHANGED <<jobs, left, leaked, rc, listing, storyVars>>

(* Mutant: an empty info changes nothing.                                   *)
CollectKept(seen, msg) ==
    CASE msg.topic = "info" /\ msg.body # None ->
            [seen EXCEPT !.infos = @ \cup {msg.slug}]
      [] msg.topic = "info" /\ msg.body = None ->
            seen
      [] msg.topic = "enabled" ->
            [seen EXCEPT !.enabled[msg.slug] = msg.body]

Collect(seen, msg) ==
    CASE msg.topic = "info" /\ msg.body # None ->
            [seen EXCEPT !.infos = @ \cup {msg.slug}]
      [] msg.topic = "info" /\ msg.body = None ->
            [seen EXCEPT !.infos = @ \ {msg.slug}]
      [] msg.topic = "enabled" ->
            [seen EXCEPT !.enabled[msg.slug] = msg.body]

Reads ==
    /\ stage = "reading"
    /\ incoming # <<>>
    /\ incoming' = Tail(incoming)
    /\ listing' = Collect(listing, Head(incoming))
    /\ UNCHANGED <<task, state, flag, link, outbox, net, sessions, retained, cuts>>
    /\ UNCHANGED <<stage, jobs, left, leaked, rc, storyVars>>

(* Half a second of silence, or five seconds in all.                        *)
StopsReading ==
    /\ Goes("reading", "closing")
    /\ Mqtt!RaiseFlag
    /\ UNCHANGED <<task, state, link, outbox, net, sessions, retained, incoming, cuts>>
    /\ UNCHANGED <<jobs, left, leaked, rc, listing, storyVars>>

-----------------------------------------------------------------------------
(* enable_devices, disable_devices, remove_devices. *)

PublishNext ==
    /\ stage = "publishing"
    /\ left # <<>>
    /\ LET msg == Command(Head(left), Head(jobs).body) IN
       /\ Asks(msg)
       /\ asked' = Append(asked, msg)
    /\ left' = Tail(left)
    /\ UNCHANGED <<stage, jobs, leaked, rc, listing, smooth, arrived, others>>

AllPublished ==
    /\ left = <<>>
    /\ Goes("publishing", "closing")
    /\ Mqtt!RaiseFlag
    /\ UNCHANGED <<task, state, link, outbox, net, sessions, retained, incoming, cuts>>
    /\ UNCHANGED <<jobs, left, leaked, rc, listing, storyVars>>

-----------------------------------------------------------------------------
(* Client::shutdown. *)

AskDisconnect ==
    /\ Goes("closing", "joining")
    /\ Mqtt!Request(Mqtt!Disconnect)
    /\ UNCHANGED <<task, state, flag, link, net, sessions, retained, incoming, cuts>>
    /\ UNCHANGED <<jobs, left, leaked, rc, listing, storyVars>>

(* Mutant: the event task is left to itself.                                *)
ClosesUnaborted ==
    /\ Goes("joining", "next")
    /\ jobs' = Tail(jobs)
    /\ UNCHANGED <<linkVars, left, leaked, rc, listing>>

Closes ==
    /\ Goes("joining", "next")
    /\ jobs' = Tail(jobs)
    /\ Mqtt!Abandoned
    /\ UNCHANGED <<net, sessions, retained, cuts, left, leaked, rc, listing>>

(* Mutant: nobody waits for the event task.                                 *)
JoinsAtOnce ==
    /\ Closes
    /\ UNCHANGED storyVars

Joins ==
    /\ task = "ended"
    /\ Closes
    /\ UNCHANGED storyVars

(* Half a second has passed: the event task is aborted, whatever it has not *)
(* sent yet.  The exit code does not tell.                                  *)
JoinTimesOut ==
    /\ task # "ended"
    /\ Closes
    /\ smooth' = FALSE
    /\ UNCHANGED <<asked, arrived, others>>

Finished ==
    /\ jobs = <<>>
    /\ Goes("next", "exited")
    /\ UNCHANGED <<linkVars, jobs, left, leaked, rc, listing, storyVars>>

-----------------------------------------------------------------------------
(* The event tasks: the present one, and those left behind, which connect   *)
(* under the same client id and so end the present connection.              *)

CliEventTask ==
    /\ stage \notin {"next", "exited"}
    /\ Mqtt!EventTask(Me)
    /\ arrived' = IF link = "up" /\ outbox' # outbox /\ Head(outbox).topic = "enabled"
                  THEN Append(arrived, Head(outbox)) ELSE arrived
    /\ UNCHANGED <<toolVars, smooth, asked, others>>

LeakedConnects ==
    /\ leaked > 0
    /\ net = "up"
    /\ Mqtt!Break
    /\ sessions' = [sessions EXCEPT ![Me] = Mqtt!Closed]
    /\ smooth' = FALSE
    /\ UNCHANGED <<net, retained, incoming, cuts, toolVars, asked, arrived, others>>

-----------------------------------------------------------------------------
(* The environment.                                                         *)

OthersPublish(msg) ==
    /\ others < MaxPublishes
    /\ others' = others + 1
    /\ Mqtt!OthersPublish(Me, msg)
    /\ UNCHANGED <<toolVars, smooth, asked, arrived>>

CliCut ==
    /\ Mqtt!Cut
    /\ smooth' = (smooth /\ link # "up")
    /\ UNCHANGED <<toolVars, asked, arrived, others>>

CliMend ==
    /\ Mqtt!Mend
    /\ UNCHANGED <<toolVars, storyVars>>

CliExpires ==
    /\ link # "up"
    /\ Mqtt!Expire(Me)
    /\ UNCHANGED <<task, state, flag, link, outbox, net, incoming, cuts, toolVars, storyVars>>

OthersWords ==
    [topic : {"info"}, slug : Slugs, body : {"device", None}]
    \cup [topic : {"enabled"}, slug : Slugs, body : {"on", "off", None}]

CliNext ==
    \/ ConnectFirst \/ Connected \/ ConnectFails \/ RequestFails
    \/ SubscribeInfos \/ SubscribeSwitches \/ Reads \/ StopsReading
    \/ PublishNext \/ AllPublished
    \/ AskDisconnect \/ Joins \/ JoinTimesOut \/ Finished
    \/ CliEventTask \/ LeakedConnects
    \/ \E msg \in OthersWords : OthersPublish(msg)
    \/ CliCut \/ CliMend \/ CliExpires

(* The tool and its event task are scheduled, timers fire; the network need *)
(* not come back.                                                           *)
Step ==
    \/ ConnectFirst \/ Connected \/ ConnectFails \/ RequestFails
    \/ SubscribeInfos \/ SubscribeSwitches \/ StopsReading
    \/ PublishNext \/ AllPublished
    \/ AskDisconnect \/ Joins \/ JoinTimesOut \/ Finished

CliFairness == WF_cliVars(Step) /\ WF_cliVars(CliEventTask)

-----------------------------------------------------------------------------
CliTypeOK ==
    /\ Mqtt!SessionTypeOK
    /\ Mqtt!BrokerTypeOK
    /\ stage \in {"next", "connecting", "infos", "switches", "reading", "publishing",
                  "closing", "joining", "exited"}
    /\ rc \in {0, 1, 2}
    /\ listing.infos \subseteq Slugs
    /\ stage \in {"next", "exited"} <=> task = "none"

(* A listing that waited long enough -- nothing it asked for is still on    *)
(* its way, and its connection held -- is what the broker retains at that   *)
(* moment, although the replays come in any order and devices come, go and  *)
(* are switched meanwhile.                                                  *)
ListingIsTrue ==
    [][ StopsReading /\ smooth /\ leaked = 0 /\ outbox = <<>> /\ incoming = <<>> =>
          \A s \in Slugs :
             /\ s \in listing.infos <=> retained[<<"info", s>>] # None
             /\ listing.enabled[s] = retained[<<"enabled", s>>] ]_cliVars

(* The tool always ends, unless the request channel is full and the         *)
(* connection does not come back.                                           *)
ToolEnds ==
    stage = "next" ~> stage = "exited" \/ (link # "up" /\ Len(outbox) = MaxOutbox)
=============================================================================
