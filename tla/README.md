# evmqtt-rs in TLA+

evmqtt-rs is a daemon that reads key events from Linux input devices and
publishes them over MQTT, with a switch per device ("enabled") that Home
Assistant or the command line sets over MQTT as well.  This directory models
all of its parts: the registry of devices, the coordinator that owns it, the
monitor tasks, the watcher that finds devices, the MQTT session, the start and
the shutdown of the daemon, the exchange of switch commands over the broker,
and the command line tool.  All paths below are relative to
`src/crates/evmqtt-rs/src/` unless they begin with `src/`.

TLC checks the models on small instances (`MC*.tla`, `*.cfg`); TLAPS proves the
safety of all of them -- every safety invariant, action property and refinement the
passing runs check -- for every value of the constants (`*Proofs.tla`).
`PROJECT.json` lists the runs, what each definition models, the hazards and the
findings.

## The system

| Component | State | Operations | Talks to |
|---|---|---|---|
| Registry (`db.rs`) | list of device records; a TOML file | `load`, `save_atomic`, `match_or_insert`, `insert`, `remove`, `find_mut`, `record_observed_key` | owned by the coordinator; the file outlives the process |
| Coordinator (`coordinator.rs`) | registry, `connected` (slug to identity), `monitored` (slug to task) | `republish_known`, `on_connected`, `on_disconnected`, `on_key`, `on_enable`, `on_remove` | takes messages from two unbounded channels; publishes into the client's bounded request channel; starts and stops monitors |
| Monitor (`monitor.rs`) | an open, grabbed device; a shutdown future | open, grab, read events, end | publishes actions; sends `KeyObserved`, `DeviceDisconnected` to the coordinator |
| Watcher (`watcher.rs`) | inotify watch, set of retry tasks | sweep, event, retry for 30 s | sends `DeviceConnected` to the coordinator |
| MQTT session (`mqtt.rs`) | connection state, request channel, shutdown flag | connect, retry, forward publishes, disconnect | the broker; `incoming` channel to the coordinator or the client |
| Daemon (`daemon.rs`) | - | start order, shutdown order, availability topic | starts all of the above |
| Client (`client.rs`, `cli.rs`) | what a listing has collected | list, enable, disable, remove | publishes and subscribes at the broker |
| Entry (`config.rs`, `main.rs`) | arguments, exit code | parse, choose a mode | runs the daemon or the client |
| Slugs, topics, payloads (`slug.rs`, `topics.rs`, `hass.rs`) | none | pure functions | - |
| Discovery (`discovery.rs`) | none | identity of an open node, capability fingerprint and tag, list of nodes | the kernel |

What is hard here: the coordinator is the only owner of its state, so there are
no data races; the difficulty is in the order of messages.  Sightings,
disconnects, keys and commands cross each other; the topic on which commands
arrive is the one the state is mirrored on, so every publish comes back as a
command; paths are names that another device may take over; tasks end some time
after they are told to; saves can fail, the connection can break and the process
can die between any two steps; waits end by a timeout that races the answer.
The list of hazards in `PROJECT.json` names the line where each bites.

What makes each component correct: the *registry* never gives two devices one
slug, never describes one device twice, and never moves a device to another
slug; its slugs never collide as *topics*, and its fingerprints tell the
collections of one receiver apart.  The *coordinator* has a monitor for exactly
the devices that are connected and on, tells every task it forgets to stop, and
leaves as last word on every retained topic what the registry holds.  The
*exchange over the broker* comes to rest, with broker and registry in agreement
and the last command in force.  The *watcher* misses no device; a *monitor*
reads and grabs the device its record belongs to, loses no keystroke and lets
go of the device.  The *daemon* comes up or gives up, is shown as online only
while someone is there, hears commands, and ends when told to.  The *tool*
delivers commands in their order, lists what is there, and ends.

## Modules

    DeviceRecords          pure operations on a list of records
      DeviceDb             the registry and its file
        DeviceNaming       + real names, slugs, topics, capabilities
        Coordinator        handlers, slots, channels     -- implements --> DeviceLifecycle
          Bridge           + broker, users, echoes
          Hotplug          + kernel, watcher, monitors' files
          Daemon           + Connection, start and shutdown
        DeviceDbProofs
          DeviceNamingProofs   (and DeviceNaming)
          CoordinatorProofs    (and DeviceLifecycle)
            BridgeProofs       (and Bridge)
            HotplugProofs      (and Hotplug)
            DaemonProofs       (and Daemon)
    Texts                  slugs, topics, parsers          (used by DeviceNaming, Monitor)
    DeviceIdentity         fingerprint, tag, identity      (used by DeviceNaming)
    Monitor                one monitor task, key by key
      MonitorProofs
    MqttSession, Broker    a client's half, the other half
      Connection           the two and the network         (instantiated by Daemon, Cli)
        Cli                the command line tool
          Main             arguments, mode, exit code
            MainProofs
    MC*                    instances for TLC

**DeviceRecords** has the definitions of `db.rs` as operators: `Matches`,
`Backfill`, `IsAllocated` (the loop of `allocate_slug`, stated as the property
of its result), `Insert`, `WithoutIndex`.  The four id numbers are one value,
names and serials are members of small sets, `observed_keys` is a set;
`slugify` is a constant function from the text of a slug to the slug.

**DeviceDb** is `Database` with its client: one action per operation *with the
save that follows it in the coordinator*.  `SaveAtomic` either replaces the
file or, if `SaveMayFail`, leaves it.  A crash inside `save_atomic` is a crash
before or after the rename, so it needs no state of its own.

**Texts**, **DeviceIdentity**, **DeviceNaming**.  Texts are sequences of tokens:
a word, or one character that is neither letter nor digit.  `slugify`,
`parse_enabled_topic` and their kin run over them token by token and cut them.  An identity
is computed from a device node's event types, keys and axes; the fingerprint is
the sequence of numbers the code hashes.  `DeviceNaming` assumes that the
constants of the registry (identities, `Slugify`, `Numbered`) are what these
functions compute, which TLC evaluates, and then speaks of topics and hardware.

**Coordinator** has one action per handler and outcome, each the whole handler:
record, save, publishes, slots.  `rx`, `incoming` and `outbox` are the three
channels.  `tasks` are the monitor tasks that run, whether a slot of
`monitored` holds them or not; `told` says that the shutdown future of a task
has resolved (its handle was dropped, signalled or aborted -- all three end it
without a message).  The environment is open: any device may be sighted at any
path, any payload may arrive, any task may report a key or fail.  `republish_known`
runs record by record, before any message is taken.  A handler is one step, so
its publishes enter the request channel together, when there is room for all of
them; a crash drops the channel, which is how a crash after the save and before
the publishes shows.

**DeviceLifecycle** is the promise without records, queues, tasks and topics: a
device is known, present, on; it is watched while it is present and on; what
is known is kept.  `KeepsThePromise` is the refinement, `Lifecycle` the mapping.

**Bridge** closes the loop through the broker: a transmitted publish is
retained, and one on an enabled topic comes back into `incoming` in order.
Users publish on, off or the empty payload, for any slug, also while the daemon is
down; at start the retained enabled topics are replayed in any order.  `origins`
and `asked` are history.  `manner` is who the users of a behaviour are: any, who
publish when they like (no publisher looks whether the broker lists the device);
"patient" ones, who act when nothing is under way, on devices the broker lists; or
"offline" ones, who act when the daemon is down.  Devices are sighted at any time in
every manner, also between a removal and its echo.

**Hotplug** closes the loop through the kernel: a plugged device is an
instance, a path names whatever is plugged there now, an open file stays on its
instance, and a grab is exclusive.  The watcher adds its watch, then sweeps,
then turns each event into a retry; `retries` counts them per path.  Access to
a node may come at once, later with an event, or later silently.  The watcher
may fail, and the daemon goes on without it; a directory that cannot be read is
swept as an empty one.  A monitor ends when it cannot open its path, when its device
is unplugged, or by another error while the device stays (`MonitorErrs`), after which
nothing sights the device again.  `story` says what the environment
of a behaviour may do, so that one run can ask several questions; `seen` is
history.

**Monitor** opens one monitor task up.  An event is read, its payload waits for
room in the request channel, is published, and is reported; the coordinator
records the key and announces its triggers.  A switch-off waits for room for its
mirror, a removal for its three clears.  `abort` takes effect only where
the code waits.  Two different functions make the payload that is published
and the one that is announced (`Spoken`, `Announced`).

**MqttSession** is what `mqtt.rs` keeps: the request channel, the connection
state, the flag and the event task ("polling", "backoff", "ended").  **Broker**
is external: sessions, takeover of a client id, wills, retained messages.
**Connection** joins them over a network that is up, down or refusing; a
connection may be broken before the event task knows.

**Daemon** is `run_with_shutdown` from load, which may fail, to exit, one action per await, over
`Connection` and `Coordinator`; the registry has one known device and nothing is
plugged in, and the monitors are reduced to publishes that take room.  A process
may be killed anywhere and is started again under a new client id.

**Cli** is one invocation of the tool: a list of jobs, each over a connection of
its own.  A job that fails leaves its event task running (`leaked`).  **Main**
puts the command line before it: conflicts, values that are blank, the mode,
the order of the groups, the exit code.

Operators headed "Mutant:" in the modules are deliberately wrong variants of
the definition that follows them.  No specification uses them; substituted for
that definition, each makes a property fail, which shows the property watches
that piece of code.

## What the runs check

| Run (cfg) | Question | States |
|---|---|---|
| `registry` (`MCDeviceDb`) | Has each sighting one outcome, does a device keep its slug, is nothing overwritten, is the file current? Do topics and identifiers tell devices apart, do they lead back to them, and do the collections of a receiver stay apart? | 7 800 |
| `coordinator` (`MCCoordinator`) | Do slots follow switches under every order of messages, does no task escape its slot, is a dead task reported and the last queued word true, is the promise of DeviceLifecycle kept? | 560 000 |
| `bridge` (`MCBridge`) | Does a quiet broker show the registry, with failing saves and a death, and is nothing the daemon said left of a removed device? With users who wait: does the last command hold, does no echo undo it, do echoes die? | 450 000 |
| `hotplug` (`MCHotplug`) | Is any device missed between watch and sweep or over a restart; is one that stays in and on read and grabbed, also when it was switched off and on, one switched off let go, one unplugged noticed, even if access comes late and the watcher or a monitor fails? | 180 000 |
| `daemon` (`MCDaemon`) | Does the availability topic ever claim a daemon that is gone, is an undisturbed daemon online and listening, do start and shutdown end, does a refusal end the daemon? | 190 000 |
| `tool` (`MCMain`) | Do commands arrive in order and at most once, is a patient listing true, does the tool end with the right code? | 600 000 |
| `monitor` (`MCMonitor`) | Is any keystroke lost, made up or overtaken, does what is heard become a trigger? | 890 000 |

Five more runs find that the code does not do what a document or comment says:

| Run (cfg) | Behaviour TLC finds | Contradicts |
|---|---|---|
| `echo_loop` (`MCBridgeEchoLoop`) | on and off in quick succession: their mirrors come back, each undoes the other, for ever | `src/crates/evmqtt-rs/ARCHITECTURE.md:249-251` |
| `downtime_removal` (`MCBridgeDowntime`) | a removal while the daemon is down is not seen: nothing retained, nothing replayed | `client.rs:165-169` |
| `replug_race` (`MCHotplugRace`) | a replug sighted before the old monitor's disconnect is dropped and never attached | `src/README.md:280-284` |
| `wrong_device` (`MCHotplugWrongDevice`) | the path remembered for a disabled device has become another device's, and that one is grabbed | `src/README.md:235-238` |
| `reconnect` (`MCDaemonReconnect`) | after a break the event task reconnects with a clean session: no subscription, and the will keeps saying offline | `src/README.md:119-121` |

The passing runs tell how far each claim does hold, and their exceptions are cases
in which the code does otherwise.  Three of them -- the restart, the echo of a removal
and the quick off and on -- TLC finds as counterexamples when the property is
stated without its exception.

* `PatientEchoesDie`: echoes die if users wait for quiet, command what is listed, and
  the daemon has been up ever since.  A death matters: one command given while the
  daemon is down, replayed at its start, meets the old state that `republish_known`
  has queued, and the two chase each other as well.  So does the listing: a command
  for a slug that is not listed may cross its registration.
* `EchoUndoesNoCommand`: between such users no echo undoes what was asked.  One may
  change the registry all the same, unlike ARCHITECTURE.md:249-251 has it: if a
  removed device is sighted again before the daemon's own clear of its enabled topic
  comes back, that echo removes the new record.
* `RemovedIsGone`: at quiet nothing the daemon said is left of a slug it does not know,
  unless it died.  A user's command that is sent after the clear of the enabled topic
  stays there: Home Assistant has its switch until the last of the three clears, and the
  command line never looks.
* `EnabledIsGrabbed`: a device is read if access comes in time, its monitor does not
  fail and nothing else was in its place.  It is grabbed, too, if it was never
  switched on again before the monitor of the time before had let it go.
  Otherwise the new monitor finds the device busy, warns (`monitor.rs:70-76`) and reads
  it ungrabbed for as long as it stays plugged in, unlike `src/README.md:235-236` has
  it.
* `UndisturbedIsReachable`: a daemon is online and listening until its connection
  first breaks, or the will of an earlier process arrives late.
* `ShutdownEnds` and `ToolEnds` except one case: the request channel is full and the
  broker stays away, because `graceful_shutdown` waits for room to ask for its
  DISCONNECT.  The coordinator's loop is ended by the abort (`daemon.rs:133`) and
  not, as ARCHITECTURE.md:204-206 and `daemon.rs:113-114` have it, by its channel
  being closed: it holds a sender of that channel itself.

Some things the models show without a property of their own.  In `Monitor`, a
code that evdev has no name for is published as `keycode-<n>_press` but announced as
`<n>_press`, which is why `HeardIsAnnounced` speaks of named codes only.  In
`Cli`, what was confirmed to the user may never be sent, with exit code 0:
`CommandsArriveInOrder` promises delivery only if no connection broke and no
event task ran out of its half second (`smooth`).

### Bounds

Every bound is a constant.

*registry*: five device nodes of one model -- two serials, none, another
collection whose codes overlap, a name that ends in a number, a name that is a
part of the daemon's topics, a node without keys -- and three records exercise
matching, backfill, numbering (including a base whose first number is taken),
parsing and fingerprints; numbers go to 4, one more than records.  `MaxRecords` stops insertions, as
nothing in the code does.  Saves do not fail here: a failing save leaves in the
file an earlier value of the list in memory, so it adds no contents of memory
that a restart could reach and this run does not; failing saves are checked in
`coordinator` and `bridge` and proved for `DbSpec`.

*coordinator*: two tasks allow one that was told to stop and its successor; a
queue of two messages, refilled at any time, crosses any two of a sighting, a
disconnect and a key, each with a command; `MaxOutbox` of 3 is one
announcement, so that handlers also wait for room.  Queue bounds disable the
sender.  Any number of devices, paths and tasks is covered by the proofs.

*bridge*: two commands are enough for a command, its echo and a contrary
command, and with two sightings for a removal between two registrations of one
slug; the broker's queue is never cut short (10).

*hotplug*: two paths and one plugging give a device that is there, comes or
goes, and with a device plugged in at first a replug at the same or the other path; two
commands are an off and an on, three stories keep failures, a late access and these
apart; the keys
of the known keyboard are recorded already, so that a key press queues a message and
changes nothing; `retries` is bounded by the number of events.

*daemon*: two starts give one process and a successor whose predecessor's
session is still open; one break of the connection, one command, one key;
`MaxOutbox` of 2 is small enough to be full during start and farewell.

*tool*: two devices, lists of up to three commands over up to three
connections, one device named in two groups; one break, one publish by another
client.  Command lines that name more are the same steps again.

*monitor*: three events of any kind on two keys, one without a name, with a
request channel of three, which is what a removal needs at once.

Symmetry (paths, tasks) is used in runs without liveness properties only.
Deadlock checking is off in all runs but `registry` and `coordinator`: with the bounds used
up an idle daemon has nothing left to do, and the tool and a monitor end.

### Fairness

`BridgeFairness`: the coordinator task and the event loop are scheduled by the
runtime and the connection works, so both take their next step; `select!` takes
a branch at random, so the commands get their turn, too; a task that was told to
stop is polled and ends.  `HotplugFairness`: the same, and each part of the
watcher and each monitor is scheduled; access to a node that stays comes in the
end (udev has a rule for it).  `DaemonFairness`, `CliFairness`: every task is
scheduled and every timer fires; a keep-alive finds a broken connection.  That
the network comes back is assumed nowhere: the properties that need it say so.
Senders that wait for room in the request channel wait in line (tokio's and
flume's queues are fair), which is the strong fairness of `Farewell`,
`AskDisconnect`, `PublishesAction` and `OnKey`.  Nobody has to plug, unplug,
press a key, command, start or kill anything.

## What is proved

All of it is safety, for every value of the constants.  The theorems about a
component rest on an inductive invariant, named below with what its parts are
needed for.

`DeviceDbProofs`, for any devices, names, numbering, initial file and bound, and
with or without failing saves:

* `DbTypeCorrect`, `DbSlugsAreUnique`, `DbRecordsAreDistinguishable`.  The
  invariant `DbInv` says of *both* lists, memory and file, that slugs are unique
  and records pairwise distinguishable; both lists are needed because a save
  copies one to the other and a start copies it back.  The work is in lemmas
  about the operators: an allocated slug is free (`AllocatedIsFree`), an
  unmatched device is distinguishable from every record
  (`UnmatchedIsDistinguishable`), a backfill never makes two records alike
  (`DistinguishableIsMonotone`), a removal keeps the others apart.
* `DbKnowledgeOnlyGrows`, `DbDeviceKeepsItsSlug`.  The list in memory changes in
  one of three ways (`ListStep`): a record is refined, one is appended, one is
  taken out.  Each way is shown to lose nothing and to keep the first match of a
  settled device.  A refined record matches no device it did not match before
  (`RefinedMatch`), so that a backfill of an earlier record cannot capture it.
* `DbFileIsCurrent`.  The registry saves only when a backfill changed something;
  `NothingToFillIn` shows that what is not saved is not different.
* `SightingsResolve`.  Each sighting has exactly one outcome.  That a slug can be
  allocated is the pigeonhole principle: with fewer records than candidates one is
  free (`OneIsFree`), and of the free ones one is the first (`LeastNumber`).  The
  hypothesis `EnoughNumbers` -- more numbers than records, all different, none of
  them the base -- stands for the loop over `{base}-{n}`, which the code leaves
  unbounded; `MCDeviceDb` evaluates it.

`DeviceNamingProofs`, for any device names, prefixes, slugs and capabilities:

* `RecordsHaveSlugs`, by `NamingInv`: `DbInv`, and every slug in memory and in the
  file is one that `slugify` can make (`IsSlug`: words with single hyphens between
  them).  That `slugify` makes one of every text is an induction over its tokens
  (`SlugifyMakesSlugs`); a number appended to one leaves a slug.
* `DbTopicsTellDevicesApart`, `DbTopicsLeadBack`.  A slug has neither a slash nor an
  underscore.  Hence two topics that agree were made by the same function from the same
  slug, an identifier is no topic, and the availability topic is no device's; and what
  a parser cuts out of a topic is the slug it was made with, or holds a slash.  The
  uniqueness of slugs is `DbInv`'s.
* `DbCollectionsStayApart`.  The sorted codes of a section determine the set, and the
  marks, which are no codes, determine where a section ends: nodes with equal sequences
  have equal capabilities.

`CoordinatorProofs`, with an open environment and any number of paths and tasks:

* `TypeCorrect`.
* `ImplementsDb`: each handler is one step of the registry or none, so the
  theorems above hold of the coordinator's registry.
* `SlotsFollowSwitches`.  `MonitorsFollowSwitches` is inductive only with types
  and with the fact that a process that does not run has no devices and no slots
  (`IdleIsEmpty`).  It uses the uniqueness of slugs: otherwise switching one of
  two records off would not make the slug off.
* `MonitorsNeverStray`, by `TaskInv`.
* `ImplementsLifecycle`: `Spec` refines `DeviceLifecycle!Spec`, step by step:
  each handler is the abstract action its outcome calls for, or a stutter.
  `LifecycleWatchesWhatIsOn` says what that is worth: there, what is watched is
  what is present and on.
* `DeadMonitorsAreReported`, by `ReportInv`, which is `TaskInv` and the property:
  a slot whose task ended by itself has its report still in `rx`.  `TaskInv` is
  needed because the report names the slug the task knows, which must be the one
  of its slot, and because a task that ends without a report was told to, and
  then it is in no slot.
* `LastWordsAreCurrent`, by `WordInv`: types, an empty request channel while no
  process runs (a start changes the registry under the queue), and the property.
  `HandleReaction` shows what the publishes of each handler say of the records it
  changed.

`BridgeProofs`, for any users, failing saves, deaths and files:

* `BridgeTypeCorrect`.
* `BrokerAlwaysShowsTheRegistry`, `RemovedDevicesAreGone`, by `RegistryInv`:
  types; the last word queued on a topic is current (`LastWordIsCurrent`); the
  last message under way for a slug is what the broker retains
  (`LastMessageIsRetained`); without Home Assistant nothing is said on a
  discovery topic (`NoTriggers`); what is retained of a known device is what the
  registry holds, but for what is still to be announced, queued or under way
  (`Shown`); and, while no process died, of an unknown slug nothing is retained
  but a user's own last word or what a queued clear will take away (`Gone`).  `Shown`
  needs the last words when the last of them is transmitted, and the last message when
  it is taken.
* `LastCommandAlwaysWins`, `EchoesUndoNoCommand`, by `PatientInv`: `RegistryInv`
  and, with users who wait for quiet, that nothing else is under way with a command for
  its slug (`CommandIsAlone`), and that every other slug agrees with what is under way
  for it (`OthersAgree`): its last command is obeyed (`Settles`), and each mirror and echo
  says what the registry holds already (`IsUpToDate`) or is left of a device that had
  the slug before, while the present one is new, off and not yet commanded
  (`IsNewSince`).  The second case is what sightings at any time cost: a removed device
  that is registered again meets the clears of the first.  Two contrary commands at
  once would break the agreement: that is the loop of `echo_loop`.  `Gone` is needed
  here, too: it says that a device the broker lists is known, and, with
  `NothingAskedYet`, that nothing is replayed to the first start.
* `BridgeImplementsDb`, `BridgeKeepsTheSlots`, `BridgeKeepsThePromise`.  `Bridge` does
  not implement `Coordinator`: it has no bound on what is under way, and a
  transmission may send the message back in the same step.  But each of its steps is
  one of the coordinator's, a start, or leaves registry, slots and reports alone
  (`BridgeCases`), so the refinements and the slot invariants hold here, too, by
  `SlotsHold`: `BridgeTypes` and `ReportInv`.

`HotplugProofs`, for any devices, paths, stories and pluggings:

* `HotplugTypeCorrect`.
* `HotplugImplementsCoordinator`: the coordinator on a host behaves as
  `Coordinator` with its open environment says, so that its theorems hold here;
  `HotplugKeepsTheSlots` carries four of them over.
* `NoDeviceIsEverMissed`, inductive with types: once the sweep is over, a device
  that was not sighted has a retry under way, and a retry is given up only
  when the node is gone, or in a story in which access comes too late.  Stories in
  which the directory cannot be read are excepted.

`DaemonProofs`, for any number of starts, breaks, commands and keys:

* `DaemonTypeCorrect`, `NobodyIsShownAsHome`, `UndisturbedDaemonsAreReachable`, by
  `DaemonInv`: types; a connection belongs to an open session of a process that
  polls it (`SessionFacts`); every queued "online" of a daemon that leaves has an
  "offline" behind it, and a DISCONNECT has neither behind it (`QueueFacts`); a
  process whose session was lost is shown as offline, by its will, and one
  that leaves while it is connected has its farewell queued or is shown as offline
  (`WillFacts`); what an undisturbed daemon asked for is under way or done
  (`ReachFacts`).  `QueueFacts` is what makes the farewell safe: the DISCONNECT takes
  the will with it, and by then the "offline" has gone before.

`MainProofs`, for any command line, lists, breaks and capacity of the channel:

* `MainTypeCorrect`.
* `CommandsArriveInTheirOrder`, by `MainInv`: types; what the request channel holds
  at each stage, and that a smooth connection is up until the DISCONNECT, the last
  request, is taken (`QueueFacts`); and, for the tool, that the jobs left are the last
  of the command line (`JobFacts`), that the commands which arrived, and after them
  those which wait, have increasing places among all that are wanted, before
  the cursor of the present job (`OrderFacts`), that in a smooth run what was
  asked for has arrived or waits, without a gap (`SmoothFacts`), and that with
  exit code 0 all up to the cursor was asked for (`AskedFacts`).  Order and delivery
  at most once need none of the smoothness; that the confirmed ones arrive does.
* `ListingsAreTrue`, by `ListInv`.  A listing is the only job of its command line
  (`ListsOnly`), and it has heard nothing before its connection is up (`FreshFacts`).
  From then on, for each topic, the last word still to be read on it or, if there is
  none, what has been collected is what the broker retains (`Told`); of a kind it is
  not subscribed for it knows nothing (`HearFacts`).  Each subscription it asked for is
  in force or still queued (`AskFacts`), so with an empty queue both are in force.  The
  step that needs an argument is the replay: it brings a word for every
  retained topic of its kind, because it repeats none and has as many words as there
  are such topics (`ReplaySays`).

`MonitorProofs`, for any keys, names, capacity and number of events:

* `MonitorIsTyped`.
* `MonitorConservesKeystrokes`, by `MonitorInv`, which is the property and the types.
  What was typed is what was heard, then what is queued, in the monitor's hand and
  unread, in this order; each step moves a keystroke across one of these borders.  The
  sequences under way are filtered from channels with other messages in them (`Said`),
  so the lemmas say how a filtered sequence grows and shrinks (`SaidJoined`,
  `SaidOfRest`).

Where a definition runs over a sequence (`slugify`, `Said`), the proof uses lemmas of
induction and recursion over a *set* of numbers and a *function* (`Counting`,
`Recursion`), which follow from the least element of a set of numbers.

Assumptions.  On devices and files: `IdentitiesAssumption` (sighted devices are
well-formed), `SlugAssumption` (slugs are in `Slugs`), `InitialFilesAssumption` (the
file at the beginning is a good one; a file edited by hand to hold one slug twice
is outside), `EnoughNumbers`.  On texts: `WordsAssumption` (no word is a hyphen, an
underscore or a slash), `PrefixesAssumption` and `HardwareAssumption` (prefixes and
names are texts, and a kernel's codes are at most `KEY_MAX`), `NumbersAreWords`,
`FilesHoldSlugs` (the slugs of the first file were made by `slugify`, too), and
`IdentitiesAreRead` and `SlugsAreMade`, which tie the constants of the registry to the
functions.  On values that must not be mistaken for others:
`NoneAssumption`, `SlotAssumption`, `AbsenceAssumption`, `NothingAssumption`,
`StatusAssumption`.  On instances: `SaveMayFailAssumption` and
`HassEnabledAssumption` (flags), `BoundsAssumption`, `MaxOutboxAssumption`,
`PlugsAssumption`, `LaunchesAssumption` (capacities and bounds are numbers), `MannersAssumption`,
`StoriesAssumption`, `KeyDevicesAssumption`, `CommandLinesAssumption` (users, stories
and command lines are of the kinds there are), and the two `SlugsAssumption` (there
is a slug; for the tool, finitely many).  TLC evaluates each of them in the runs of
the modules that state it.

Only model-checked:

* all liveness (`PatientEchoesDie`, `EnabledIsGrabbed`, `OffIsReleased`,
  `UnpluggedIsNoticed`, `StartSettles`, `RefusalEndsTheDaemon`, `ShutdownEnds`, `ToolEnds`,
  `HeardIsAnnounced`): it needs fairness and `ENABLED`, which are beyond the prover.

The modules proved about contain no recursive operator.  Some places of the model
are written the way they are for a proof.  `slugify` and `Said` are recursive
functions over the positions of a sequence, `Ascending` is the sequence that is sorted
and not a sorting.  `Numbered` is applied to pairs, `Spoken` and `Announced` to one
argument after the other.  `into_runtime` had a `CASE` with overlapping guards, whose
value is undefined where both hold, and now tests the error first, as the code does.

## What is not modelled

* Layouts and wording: TOML, JSON, the printed table, log messages, defaults and
  environment variables of the configuration.  No property is about them.
* Collisions of the 64-bit fingerprint.
* The overflow of the inotify queue, which the code ignores; a hazard without a
  property.
* A handler of the coordinator that is blocked in the middle of its publishes is
  one that has not begun.  In `Bridge` the replay is complete when the
  coordinator starts (the code waits 300 ms); in `Coordinator` and `Daemon` it
  may be late.
* The join of the watcher in the shutdown: the watcher always takes its shutdown
  branch, so that the join is a step without effect.
* `Daemon` has one device and no monitors of its own, and `Bridge` no breaking
  connection; their product is out of TLC's reach.  What a lost subscription does
  to commands is seen in `Daemon` alone.
* QoS 1 retransmission by rumqttc within a connection: a request that is sent
  arrives, or is lost with the connection.  That a publish may arrive twice after
  a reconnect does not arise with a clean session.
* Packaging: service files and the add-on's script.

## Plan

Every component the sections above name is modelled and checked, and every safety
invariant, action property and refinement of a passing run is proved.  What could
come next are the parts under "What is not modelled": a product of `Daemon` and
`Bridge`, so that commands and lost connections meet the monitors, and the overflow of
the inotify queue.
