----------------------------- MODULE MCHotplug -----------------------------
(* A small host for TLC: a keyboard and another collection, both known from *)
(* an earlier run, and one or two paths.                                    *)
EXTENDS Hotplug, TLC

MCNames        == {"kbd"}
MCModels       == {"usb"}
MCSerials      == {"s1"}
MCFingerprints == {"keys", "wheel", "lid"}
MCTags         == {"other"}
MCPhysPaths    == {"port1"}

Keys  == [name |-> "kbd", model |-> "usb", serial |-> "s1", caps |-> "keys",
          tag |-> "other", phys |-> "port1"]
Wheel == [name |-> "kbd", model |-> "usb", serial |-> None, caps |-> "wheel",
          tag |-> "other", phys |-> None]
(* A switch device: no key support. *)
Lid   == [name |-> "kbd", model |-> "usb", serial |-> None, caps |-> "lid",
          tag |-> "other", phys |-> None]

OneDevice  == {Keys}
TwoDevices == {Keys, Wheel}
WithLid    == {Keys, Lid}

MCSlugs    == {"kbd", "kbd-2"}
OneSlug    == {"kbd"}
MCSlugify  == <<"kbd">> :> "kbd"
MCNumbered == <<"kbd", 2>> :> "kbd-2"

(* The keyboard's keys have been recorded before.                           *)
KeysRecord(on)  ==
    [NewRecord(Keys, "kbd") EXCEPT !.enabled = on, !.keys = Codes]

WheelRecord == NewRecord(Wheel, "kbd-2")

OnFile      == {<<KeysRecord(TRUE)>>}
OffFile     == {<<KeysRecord(FALSE)>>}
OnOrOffFile == OnFile \cup OffFile
BothOffFile == {<<KeysRecord(FALSE), WheelRecord>>}

Story == [present |-> {}, plugged |-> Identities, codes |-> {}, slow |-> FALSE,
          deaf |-> FALSE, faulty |-> FALSE, commands |-> 1, deaths |-> 0]

(* A keyboard or a switch device comes while the daemon runs, which may be  *)
(* killed.                                                                  *)
Arrival == [Story EXCEPT !.codes = Codes, !.deaths = 1]
(* A keyboard that is there, or comes, and whose node may stay closed; a    *)
(* watcher or a device that may fail.                                       *)
Parting == [Story EXCEPT !.present = {Keys}, !.plugged = {Keys}, !.slow = TRUE,
                          !.deaf = TRUE, !.faulty = TRUE]
(* A keyboard that comes and is switched off and on.                        *)
Toggling == [Story EXCEPT !.plugged = {Keys}, !.commands = 2]

ArrivalPartingToggling == {Arrival, Parting, Toggling}

Replug      == {[Story EXCEPT !.present = Identities, !.commands = 0]}
WrongDevice == {[Story EXCEPT !.present = Identities]}
=============================================================================
