-------------------------- MODULE DeviceLifecycle --------------------------
(* What the daemon promises about a device, with records, queues, tasks and *)
(* topics forgotten: a device the daemon knows has a switch, off at first;  *)
(* it is watched while it is present and its switch is on; what is known    *)
(* outlives the process.                                                    *)
CONSTANT Slugs

VARIABLES
    running,  \* whether the daemon runs
    known,    \* devices the daemon knows
    on,       \* devices whose switch is on
    present,  \* devices that are plugged in, as far as the daemon knows
    watched,  \* devices whose keys the daemon reads
    kept      \* what a restart will find: the known devices and the switches

lifecycleVars == <<running, known, on, present, watched, kept>>

Now == [known |-> known, on |-> on]

Init ==
    /\ running = FALSE
    /\ known = {} /\ on = {} /\ present = {} /\ watched = {}
    /\ kept \in [known : SUBSET Slugs, on : SUBSET Slugs]
    /\ kept.on \subseteq kept.known

Begin ==
    /\ ~running
    /\ running' = TRUE
    /\ known' = kept.known
    /\ on' = kept.on
    /\ UNCHANGED <<present, watched, kept>>

End ==
    /\ running
    /\ running' = FALSE
    /\ known' = {} /\ on' = {} /\ present' = {} /\ watched' = {}
    /\ UNCHANGED kept

(* What is known is kept at once; a disk that is full keeps what it had.    *)
Keep == kept' \in {kept, Now'}

(* A device nobody has seen before: known, present, switched off.           *)
Register(s) ==
    /\ running
    /\ s \notin known
    /\ known' = known \cup {s}
    /\ present' = present \cup {s}
    /\ UNCHANGED <<running, on, watched>>
    /\ Keep

Arrive(s) ==
    /\ running
    /\ s \in known \ present
    /\ present' = present \cup {s}
    /\ watched' = watched \cup ({s} \cap on)
    /\ UNCHANGED <<running, known, on>>
    /\ Keep

Leave(s) ==
    /\ running
    /\ s \in present
    /\ present' = present \ {s}
    /\ watched' = watched \ {s}
    /\ UNCHANGED <<running, known, on, kept>>

SwitchOn(s) ==
    /\ running
    /\ s \in known \ on
    /\ on' = on \cup {s}
    /\ watched' = watched \cup ({s} \cap present)
    /\ UNCHANGED <<running, known, present>>
    /\ Keep

SwitchOff(s) ==
    /\ running
    /\ s \in on
    /\ on' = on \ {s}
    /\ watched' = watched \ {s}
    /\ UNCHANGED <<running, known, present>>
    /\ Keep

Forget(s) ==
    /\ running
    /\ s \in known
    /\ known' = known \ {s}
    /\ on' = on \ {s}
    /\ present' = present \ {s}
    /\ watched' = watched \ {s}
    /\ UNCHANGED running
    /\ Keep

(* A later save succeeds where an earlier one failed.                       *)
Resave ==
    /\ running
    /\ kept' = Now
    /\ UNCHANGED <<running, known, on, present, watched>>

Next ==
    \/ Begin
    \/ End
    \/ \E s \in Slugs : Register(s) \/ Arrive(s) \/ Leave(s)
    \/ \E s \in Slugs : SwitchOn(s) \/ SwitchOff(s) \/ Forget(s)
    \/ Resave

Spec == Init /\ [][Next]_lifecycleVars

-----------------------------------------------------------------------------
(* The daemon reads the keys of exactly the devices that are present and    *)
(* switched on, and only known devices are present or on.                   *)
WatchesWhatIsOn ==
    /\ watched = present \cap on
    /\ present \subseteq known
    /\ on \subseteq known
    /\ kept.on \subseteq kept.known
=============================================================================
