--------------------------- MODULE DeviceIdentity ---------------------------
(* What the daemon reads from an open device node (discovery.rs): the       *)
(* identity, with a fingerprint and a tag computed from the event types,    *)
(* keys and axes the device supports.                                       *)
(*                                                                          *)
(* The fingerprint is the sequence of numbers that is folded into the hash, *)
(* in the order of the folding; that the 64-bit hash of two different       *)
(* sequences differs is taken for granted.  An attribute set the kernel     *)
(* does not report is the empty one: the code treats both alike.  Texts are *)
(* sequences of tokens, as in Texts.                                        *)
EXTENDS Integers, Sequences, FiniteSets

CONSTANTS
    Nothing  \* Option::None

(* The codes that decide, and the last of them, from the kernel's           *)
(* input-event-codes.                                                       *)
EV_KEY  == 1
KEY_A   == 30
KEY_KP0 == 82
REL_X   == 0
REL_Y   == 1
KEY_MAX == 767

(* The section markers of the fingerprint, 0xE001 to 0xE004.                *)
TYPES == 57345
KEYS  == 57346
RELS  == 57347
ABSS  == 57348

Capabilities(device) ==
    <<device.types, device.keys, device.rels, device.abss>>

(* `sort_unstable`: the codes in their order.                               *)
Ascending(codes) ==
    CHOOSE list \in [1..Cardinality(codes) -> codes] :
        \A i, j \in DOMAIN list : i < j => list[i] < list[j]

(* Mutant: nothing separates the sections.                                  *)
FingerprintUnmarked(device) ==
    Ascending(device.types) \o Ascending(device.keys)
    \o Ascending(device.rels) \o Ascending(device.abss)

capability_fingerprint(device) ==
    <<TYPES>> \o Ascending(device.types) \o <<KEYS>> \o Ascending(device.keys)
    \o <<RELS>> \o Ascending(device.rels) \o <<ABSS>> \o Ascending(device.abss)

(* Letters make a keyboard, whatever else there is; a key pad alone a       *)
(* number pad; both axes a mouse.                                           *)
classify_capabilities(device) ==
    CASE KEY_A \in device.keys -> <<"kbd">>
      [] KEY_A \notin device.keys /\ KEY_KP0 \in device.keys -> <<"numpad">>
      [] device.keys \cap {KEY_A, KEY_KP0} = {} /\ {REL_X, REL_Y} \subseteq device.rels ->
            <<"mouse">>
      [] OTHER -> <<"other">>

NonEmpty(text) == IF text = <<>> THEN Nothing ELSE text

has_keys(device) == EV_KEY \in device.types

(* DeviceIdentity::from_open_device, the path apart.                        *)
from_open_device(device) ==
    [name   |-> IF device.name = Nothing THEN <<"unknown">> ELSE device.name,
     model  |-> device.model,
     serial |-> NonEmpty(device.uniq),
     caps   |-> capability_fingerprint(device),
     tag    |-> classify_capabilities(device),
     phys   |-> NonEmpty(device.phys)]
=============================================================================
