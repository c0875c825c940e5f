-------------------------------- MODULE Main --------------------------------
(* The program's entry (main.rs): it parses its arguments (config.rs), and  *)
(* is then the daemon, the command line tool, or nothing at all.  The       *)
(* daemon is the subject of Daemon; here it only takes its share of the     *)
(* command lines.                                                           *)
EXTENDS Cli

CONSTANT CommandLines  \* the command lines to consider

VARIABLES
    args,  \* the command line
    mode   \* what becomes of it

mainVars == <<cliVars, args, mode>>

(* Args: the flags, and which of the values that must not be blank -- for   *)
(* the port, zero -- are.                                                   *)
Required == {"mqtt_host", "mqtt_port", "mqtt_topic_prefix", "hass_discovery_prefix"}

Args == [daemon : BOOLEAN, list_devices : BOOLEAN, blank : SUBSET Required,
         enable_device : Seq(Slugs), disable_device : Seq(Slugs), remove_device : Seq(Slugs)]

ASSUME CommandLinesAssumption == CommandLines \subseteq Args

Manages(a) == a.enable_device # <<>> \/ a.disable_device # <<>> \/ a.remove_device # <<>>

(* conflicts_with_all: clap itself ends the program.                        *)
Conflict(a) ==
    \/ a.daemon /\ a.list_devices
    \/ (a.daemon \/ a.list_devices) /\ Manages(a)

into_runtime(a) ==
    IF Conflict(a) \/ a.blank # {} THEN "rejected"
    ELSE CASE a.daemon                     -> "daemon"
           [] a.list_devices \/ Manages(a) -> "tool"
           [] OTHER                        -> "rejected"

JobsOf(a) ==
    IF a.list_devices THEN <<ListDevices>>
    ELSE Manage(a.enable_device, a.disable_device, a.remove_device)

-----------------------------------------------------------------------------
(* What the daemon may have left on the broker when the tool starts.        *)
Held ==
    { held \in [RetainedTopics -> {None, "device", "on", "off"}] :
        \A s \in Slugs : /\ held[<<"info", s>>] \in {None, "device"}
                         /\ held[<<"enabled", s>>] \in {None, "on", "off"} }

(* A listing finds the broker as it is.  For the publishes it makes no      *)
(* difference, and the broker starts empty.                                 *)
MainInit ==
    /\ args \in CommandLines
    /\ mode = into_runtime(args)
    /\ \E held \in Held :
        /\ args.list_devices \/ \A t \in RetainedTopics : held[t] = None
        /\ CASE mode = "tool"     -> CliInit(JobsOf(args), 0, held)
             [] mode = "daemon"   -> CliInit(<<>>, 0, held)
             [] mode = "rejected" -> CliInit(<<>>, 2, held)

MainNext == CliNext /\ UNCHANGED <<args, mode>>

MainSpec == MainInit /\ [][MainNext]_mainVars /\ CliFairness

-----------------------------------------------------------------------------
MainTypeOK ==
    /\ CliTypeOK
    /\ args \in CommandLines
    /\ mode = into_runtime(args)
    /\ mode = "rejected" <=> rc = 2

(* The broker gets the commands of the command line in its order -- enable, *)
(* disable, remove -- and each at most once, whatever breaks and is tried   *)
(* again: a later group never overtakes an earlier one, so that the last    *)
(* word on a device is the last one that arrives.  Unless a connection      *)
(* broke or an event task ran out of time, what was confirmed arrives, and  *)
(* exit code 0 says that all did.                                           *)
Commands(slugs, body) == [i \in DOMAIN slugs |-> Command(slugs[i], body)]

Wanted(a) ==
    Commands(a.enable_device, "on") \o Commands(a.disable_device, "off")
    \o Commands(a.remove_device, None)

IsSubsequence(part, whole) ==
    \E places \in [DOMAIN part -> DOMAIN whole] :
        /\ \A i, j \in DOMAIN part : i < j => places[i] < places[j]
        /\ \A i \in DOMAIN part : part[i] = whole[places[i]]

CommandsArriveInOrder ==
    mode = "tool" =>
        /\ IsSubsequence(arrived, Wanted(args))
        /\ stage = "exited" /\ smooth =>
              /\ arrived = asked
              /\ rc = 0 => arrived = Wanted(args)
=============================================================================
