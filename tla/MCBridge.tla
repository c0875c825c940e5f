--------------------------- MODULE MCBridge -------------------------------
(* A small bridge for TLC: one device and its slug, no registry file at     *)
(* first.  Users may speak of the slug before it is given and after.        *)
EXTENDS Bridge, TLC

MCNames        == {"kbd"}
MCModels       == {"usb"}
MCSerials      == {"s1"}
MCFingerprints == {"keys", "wheel"}
MCTags         == {"other"}
MCPhysPaths    == {"port1"}

(* A device with a serial.                                                  *)
Keys  == [name |-> "kbd", model |-> "usb", serial |-> "s1", caps |-> "keys",
          tag |-> "other", phys |-> "port1"]

OneDevice == {Keys}

MCSlugs    == {"kbd"}
MCSlugify  == <<"kbd">> :> "kbd"
MCNumbered == <<"kbd", 2>> :> "kbd-2"

NoFile == {<<>>}

Symmetry == Permutations(Paths) \cup Permutations(Tasks)
=============================================================================
