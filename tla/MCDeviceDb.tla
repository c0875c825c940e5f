----------------------------- MODULE MCDeviceDb -----------------------------
(* A small registry for TLC: devices of one model (two serials, none, a     *)
(* second collection of the same receiver), names that make trouble in a    *)
(* slug or a topic, and a file an older version wrote.                      *)
EXTENDS DeviceNaming, TLC

MCLower ==
    "Action" :> "action" @@ "action" :> "action" @@ "devices" :> "devices"
    @@ "2" :> "2" @@ "3" :> "3" @@ "4" :> "4"

MCOtherTag        == <<"other">>
MCTopicPrefix     == <<"evmqtt">>
MCDiscoveryPrefix == <<"homeassistant">>

(* The wheels of one collection and the keys of the other have one number   *)
(* in common.                                                               *)
Wheels(name, uniq, phys) ==
    [name |-> name, model |-> "usb", uniq |-> uniq, phys |-> phys,
     types |-> {0, 1, 2}, keys |-> {2}, rels |-> {6, 8}, abss |-> {}]

Media(name, uniq, phys) ==
    [name |-> name, model |-> "usb", uniq |-> uniq, phys |-> phys,
     types |-> {0, 1, 2}, keys |-> {2, 6}, rels |-> {8}, abss |-> {}]

(* Without key support: never an identity. *)
Lid == [name |-> <<"Action">>, model |-> "usb", uniq |-> <<"s1">>, phys |-> None,
        types |-> {0, 5}, keys |-> {}, rels |-> {}, abss |-> {}]

MCHardware ==
    { Wheels(<<"Action">>, <<"s1">>, <<"port1">>),
      Wheels(<<"action", " ", "2">>, <<"s2">>, <<>>),
      Wheels(<<"_", "devices">>, <<>>, None),
      Media(<<"Action">>, None, None),
      Lid }

MCIdentities == {from_open_device(h) : h \in {d \in MCHardware : has_keys(d)}}

MCNames        == {id.name : id \in MCIdentities}
MCModels       == {"usb"}
MCSerials      == {<<"s1">>, <<"s2">>}
MCFingerprints == {id.caps : id \in MCIdentities}
MCTags         == {<<"kbd">>, <<"numpad">>, <<"mouse">>, <<"other">>}
MCPhysPaths    == {<<"port1">>}

MCSlugify ==
    [seed \in {Seed(id) : id \in MCIdentities} |-> slugify(SeedText(seed))]

MCBases == {slugify(SeedText(Seed(id))) : id \in MCIdentities}

MCNumbered == [p \in MCBases \X (2..4) |-> WithNumber(p[1], p[2])]

MCSlugs ==
    MCBases \cup {WithNumber(b, n) : b \in MCBases, n \in 2..4}

(* A record of a version that knew neither fingerprints nor tags. *)
LegacyRecord ==
    [slug |-> <<"action">>, model |-> "usb", serial |-> None, caps |-> None,
     tag |-> None, phys |-> None, enabled |-> TRUE, keys |-> {}]

MCInitialFiles == {<<>>, <<LegacyRecord>>}
=============================================================================
