--------------------------- MODULE MCCoordinator ---------------------------
(* A small coordinator for TLC: one device, new or in a legacy file.        *)
EXTENDS Coordinator, TLC

MCNames        == {"kbd"}
MCModels       == {"usb"}
MCSerials      == {"s1"}
MCFingerprints == {"keys", "wheel"}
MCTags         == {"other"}
MCPhysPaths    == {"port1"}

(* A device with a serial.                                                  *)
Keys  == [name |-> "kbd", model |-> "usb", serial |-> "s1", caps |-> "keys",
          tag |-> "other", phys |-> "port1"]

OneDevice == {Keys}

MCSlugs    == {"kbd", "kbd-2"}
MCSlugify  == <<"kbd">> :> "kbd"
MCNumbered == <<"kbd", 2>> :> "kbd-2"

(* A record of a version that knew neither fingerprints nor tags.           *)
LegacyRecord ==
    [slug |-> "kbd", model |-> "usb", serial |-> None, caps |-> None,
     tag |-> None, phys |-> None, enabled |-> TRUE, keys |-> {}]

NoFile         == {<<>>}
LegacyFile     == {<<LegacyRecord>>}
NoOrLegacyFile == NoFile \cup LegacyFile

Symmetry == Permutations(Paths) \cup Permutations(Tasks)
=============================================================================
