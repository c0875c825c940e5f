--------------------------- MODULE DeviceRecords ---------------------------
(* The device records of the registry and the pure operations on a list of  *)
(* them: matching a live device against a stored record, backfilling a      *)
(* legacy record, allocating a slug, inserting, removing, and recording a   *)
(* key (src/crates/evmqtt-rs/src/db.rs).                                    *)
(*                                                                          *)
(* Data are abstracted to what these operations compare: the four id        *)
(* numbers (bus, vendor, product, version) are one value, `model`, because  *)
(* the code always compares them together; a name, a serial, a fingerprint, *)
(* a tag and a physical path are members of small sets; `observed_keys`,    *)
(* a sorted vector without duplicates, is a set of codes.  The name of a    *)
(* record is left out: nothing modelled reads it after the slug is made.    *)
EXTENDS Integers, Sequences

CONSTANTS
    Slugs,         \* every slug that can occur
    None,          \* Option::None
    OtherTag,      \* the capability tag "other", left out of the slug
    Names,         \* evdev device names
    Models,        \* (bus, vendor, product, version) quadruples
    Serials,       \* serial numbers (unique_id)
    Fingerprints,  \* capability fingerprints
    Tags,          \* capability tags
    PhysPaths,     \* EVIOCGPHYS strings
    Codes,         \* key codes
    Identities,    \* the devices that can be sighted
    Slugify,       \* the slug made of a name, or of a name and a tag
    Numbered,      \* Numbered[<<base, n>>] is the slug "<base>-<n>"
    MaxSuffix      \* bound on n; the code's loop has none

Optional(S) == S \cup {None}

(* What discovery extracts from an opened node, its path apart. *)
Identity ==
    [name : Names, model : Models, serial : Optional(Serials),
     caps : Fingerprints, tag : Tags, phys : Optional(PhysPaths)]

Record ==
    [slug : Slugs, model : Models, serial : Optional(Serials),
     caps : Optional(Fingerprints), tag : Optional(Tags),
     phys : Optional(PhysPaths), enabled : BOOLEAN, keys : SUBSET Codes]

(* The text a slug is made of: the name, with the tag unless it is "other". *)
Seed(id) == IF id.tag = OtherTag THEN <<id.name>> ELSE <<id.name, id.tag>>

Bases == {Slugify[Seed(id)] : id \in Identities}

ASSUME IdentitiesAssumption == Identities \subseteq Identity

ASSUME NoneAssumption ==
    None \notin Slugs \cup Serials \cup Fingerprints \cup Tags \cup PhysPaths

ASSUME SlugAssumption ==
    /\ \A b \in Bases : b \in Slugs
    /\ \A b \in Bases, n \in 2..MaxSuffix : Numbered[<<b, n>>] \in Slugs

-----------------------------------------------------------------------------
(* Mutant: a record without a fingerprint matches nothing.                  *)
MatchesFingerprintOnly(rec, id) ==
    /\ rec.model = id.model
    /\ rec.serial # None /\ id.serial # None => rec.serial = id.serial
    /\ rec.caps = id.caps

(* Does the record describe the device?  The model must be equal; a serial  *)
(* or a fingerprint counts only when both sides have one.                   *)
Matches(rec, id) ==
    /\ rec.model = id.model
    /\ rec.serial # None /\ id.serial # None => rec.serial = id.serial
    /\ rec.caps # None => rec.caps = id.caps

(* The record `position` finds: the first that matches. *)
IsFirstMatch(db, id, i) ==
    /\ i \in DOMAIN db
    /\ Matches(db[i], id)
    /\ \A j \in DOMAIN db : j < i => ~Matches(db[j], id)

IsUnknown(db, id) == \A i \in DOMAIN db : ~Matches(db[i], id)

OrElse(old, new) == IF old = None THEN new ELSE old

(* Mutant: the live values replace the stored ones, absent or not.          *)
BackfillOver(rec, id) ==
    [rec EXCEPT !.caps   = OrElse(@, id.caps),
                !.tag    = OrElse(@, id.tag),
                !.serial = id.serial,
                !.phys   = OrElse(@, id.phys)]

(* Fill the absent fields of a matched record from the live identity. *)
Backfill(rec, id) ==
    [rec EXCEPT !.caps   = OrElse(@, id.caps),
                !.tag    = OrElse(@, id.tag),
                !.serial = OrElse(@, id.serial),
                !.phys   = OrElse(@, id.phys)]

(* The `backfilled` flag, which is what makes the caller save. *)
IsBackfilled(rec, id) ==
    \/ rec.caps = None
    \/ rec.tag = None
    \/ rec.serial = None /\ id.serial # None
    \/ rec.phys = None /\ id.phys # None

SlugsOf(db) == {db[i].slug : i \in DOMAIN db}

(* Mutants: the base, taken or not; any free number instead of the first.   *)
IsAllocatedUnchecked(db, base, slug) == slug = base

IsAllocatedAnyhow(db, base, slug) ==
    IF base \notin SlugsOf(db)
    THEN slug = base
    ELSE \E n \in 2..MaxSuffix :
            slug = Numbered[<<base, n>>] /\ slug \notin SlugsOf(db)

(* The base itself if it is free, or else the first free "<base>-<n>". *)
IsAllocated(db, base, slug) ==
    IF base \notin SlugsOf(db)
    THEN slug = base
    ELSE \E n \in 2..MaxSuffix :
            /\ slug = Numbered[<<base, n>>]
            /\ slug \notin SlugsOf(db)
            /\ \A m \in 2..(n - 1) : Numbered[<<base, m>>] \in SlugsOf(db)

(* Mutant: a new device is switched on.                                     *)
NewRecordOn(id, slug) ==
    [slug |-> slug, model |-> id.model, serial |-> id.serial,
     caps |-> id.caps, tag |-> id.tag, phys |-> id.phys,
     enabled |-> TRUE, keys |-> {}]

(* A new device is switched off, and none of its keys is known.             *)
NewRecord(id, slug) ==
    [slug |-> slug, model |-> id.model, serial |-> id.serial,
     caps |-> id.caps, tag |-> id.tag, phys |-> id.phys,
     enabled |-> FALSE, keys |-> {}]

(* Mutant: the new record goes to the front.                                *)
InsertFirst(db, id, slug) == <<NewRecord(id, slug)>> \o db

(* `insert`: the new record goes to the end, so it never hides another. *)
Insert(db, id, slug) == Append(db, NewRecord(id, slug))

(* `find` and `find_mut`: the record of a slug. *)
IsAt(db, slug, i) ==
    /\ i \in DOMAIN db
    /\ db[i].slug = slug
    /\ \A j \in DOMAIN db : j < i => db[j].slug # slug

(* Mutant: the record is blanked in place.                                  *)
BlankedIndex(db, i) == [db EXCEPT ![i] = None]

(* `retain`: everything but the record at i, in order. *)
WithoutIndex(db, i) ==
    [j \in 1..(Len(db) - 1) |-> IF j < i THEN db[j] ELSE db[j + 1]]

ObserveKey(rec, code) == [rec EXCEPT !.keys = @ \cup {code}]

EnabledIn(db, slug) == \E i \in DOMAIN db : db[i].slug = slug /\ db[i].enabled

-----------------------------------------------------------------------------
(* Facts about a list of records that the properties are built from.        *)

UniqueSlugs(db) ==
    \A i, j \in DOMAIN db : db[i].slug = db[j].slug => i = j

(* Two records no fully identified device can match both of. *)
Distinguishable(r, q) ==
    \/ r.model # q.model
    \/ r.serial # None /\ q.serial # None /\ r.serial # q.serial
    \/ r.caps # None /\ q.caps # None /\ r.caps # q.caps

PairwiseDistinguishable(db) ==
    \A i, j \in DOMAIN db : i # j => Distinguishable(db[i], db[j])

(* The record holds everything the device can tell: sightings of the device *)
(* have nothing left to fill in.                                            *)
IsSettled(rec, id) ==
    /\ rec.caps # None
    /\ id.serial # None => rec.serial # None
=============================================================================
