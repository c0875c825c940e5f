------------------------------ MODULE MCDaemon ------------------------------
(* A small daemon for TLC: one device that the registry knows, off.         *)
EXTENDS Daemon, TLC

Keys == [name |-> "kbd", model |-> "usb", serial |-> "s1", caps |-> "keys",
         tag |-> "other", phys |-> None]

MCNames        == {"kbd"}
MCModels       == {"usb"}
MCSerials      == {"s1"}
MCFingerprints == {"keys"}
MCTags         == {"other"}
MCPhysPaths    == {}
MCIdentities   == {Keys}

MCSlugs    == {"kbd"}
MCSlugify  == <<"kbd">> :> "kbd"
MCNumbered == <<>>

MCInitialFiles == {<<NewRecord(Keys, "kbd")>>}
=============================================================================
