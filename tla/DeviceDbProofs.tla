--------------------------- MODULE DeviceDbProofs ---------------------------
(* What TLAPS proves about the registry: every list of records it can hold, *)
(* in memory or in the file, is well typed, gives each slug to one record,  *)
(* and holds no two records of the same device; what is known of a device   *)
(* is never overwritten, a settled device keeps its slug, the file is       *)
(* current when no save fails, and each sighting has one outcome -- for any *)
(* devices, slugs and file, and whether saves fail or not.                  *)
EXTENDS DeviceDb, SequenceTheorems, FiniteSetTheorems, WellFoundedInduction, TLAPS

-----------------------------------------------------------------------------
(* The operations on one record.                                            *)

(* A backfilled record is a record; its slug, its model and its switch stay *)
(* as they were, and a field that was present keeps its value.              *)
LEMMA BackfillLemma ==
    ASSUME NEW rec \in Record, NEW id \in Identity
    PROVE  /\ Backfill(rec, id) \in Record
           /\ Backfill(rec, id).slug = rec.slug
           /\ Backfill(rec, id).model = rec.model
           /\ Backfill(rec, id).enabled = rec.enabled
           /\ Backfill(rec, id).keys = rec.keys
           /\ rec.serial # None => Backfill(rec, id).serial = rec.serial
           /\ rec.caps # None => Backfill(rec, id).caps = rec.caps
<1>1. /\ OrElse(rec.caps, id.caps) \in Optional(Fingerprints)
      /\ OrElse(rec.tag, id.tag) \in Optional(Tags)
      /\ OrElse(rec.serial, id.serial) \in Optional(Serials)
      /\ OrElse(rec.phys, id.phys) \in Optional(PhysPaths)
  BY DEF OrElse, Record, Identity, Optional
<1>2. /\ rec.serial # None => OrElse(rec.serial, id.serial) = rec.serial
      /\ rec.caps # None => OrElse(rec.caps, id.caps) = rec.caps
  BY DEF OrElse
<1> QED
  BY <1>1, <1>2 DEF Backfill, Record

(* A record of a new device is a record, and carries the device's fields.   *)
LEMMA NewRecordLemma ==
    ASSUME NEW id \in Identity, NEW slug \in Slugs
    PROVE  /\ NewRecord(id, slug) \in Record
           /\ NewRecord(id, slug).slug = slug
           /\ NewRecord(id, slug).model = id.model
           /\ NewRecord(id, slug).serial = id.serial
           /\ NewRecord(id, slug).caps = id.caps
           /\ NewRecord(id, slug).enabled = FALSE
  BY DEF NewRecord, Record, Identity, Optional

(* A record a device does not match can be told from the record the device  *)
(* would get: what told them apart is stored in both.                       *)
LEMMA UnmatchedIsDistinguishable ==
    ASSUME NEW rec \in Record, NEW id \in Identity, NEW slug \in Slugs,
           ~Matches(rec, id)
    PROVE  /\ Distinguishable(rec, NewRecord(id, slug))
           /\ Distinguishable(NewRecord(id, slug), rec)
<1>1. id.caps # None
  BY NoneAssumption DEF Identity
<1> QED
  BY <1>1, NewRecordLemma DEF Matches, Distinguishable

(* A record that keeps its model and its present fields stays as far from   *)
(* every other record as it was.                                            *)
LEMMA DistinguishableIsMonotone ==
    ASSUME NEW old \in Record, NEW new \in Record, NEW other \in Record,
           new.model = old.model,
           old.serial # None => new.serial = old.serial,
           old.caps # None => new.caps = old.caps
    PROVE  /\ Distinguishable(old, other) => Distinguishable(new, other)
           /\ Distinguishable(other, old) => Distinguishable(other, new)
  BY DEF Distinguishable

-----------------------------------------------------------------------------
(* The operations on a list of records.                                     *)

(* Where the record at j of a list without its i-th record was before.      *)
Survivor(i, j) == IF j < i THEN j ELSE j + 1

(* Where the records behind a removed one come to stand.                    *)
LEMMA SurvivorLemma ==
    ASSUME NEW db \in Seq(Record), NEW i \in DOMAIN db
    PROVE  /\ WithoutIndex(db, i) \in Seq(Record)
           /\ DOMAIN WithoutIndex(db, i) = 1..(Len(db) - 1)
           /\ \A j \in DOMAIN WithoutIndex(db, i) :
                 /\ Survivor(i, j) \in DOMAIN db
                 /\ Survivor(i, j) # i
                 /\ WithoutIndex(db, i)[j] = db[Survivor(i, j)]
           /\ \A j, k \in DOMAIN WithoutIndex(db, i) :
                 Survivor(i, j) = Survivor(i, k) => j = k
<1>1. i \in 1..Len(db) /\ Len(db) \in Nat
  OBVIOUS
<1>2. DOMAIN WithoutIndex(db, i) = 1..(Len(db) - 1)
  BY DEF WithoutIndex
<1>3. \A j \in 1..(Len(db) - 1) :
         /\ Survivor(i, j) \in DOMAIN db
         /\ Survivor(i, j) # i
         /\ WithoutIndex(db, i)[j] = db[Survivor(i, j)]
  BY <1>1 DEF WithoutIndex, Survivor
<1>4. \A j \in 1..(Len(db) - 1) : WithoutIndex(db, i)[j] \in Record
  BY <1>3, ElementOfSeq
<1>5. WithoutIndex(db, i) \in Seq(Record)
  BY <1>1, <1>2, <1>4, IsASeq DEF WithoutIndex
<1>6. \A j, k \in 1..(Len(db) - 1) : Survivor(i, j) = Survivor(i, k) => j = k
  BY <1>1 DEF Survivor
<1> QED
  BY <1>2, <1>3, <1>5, <1>6

(* Removing a record keeps the others apart.                                *)
LEMMA RemovalKeepsApart ==
    ASSUME NEW db \in Seq(Record), NEW i \in DOMAIN db
    PROVE  /\ UniqueSlugs(db) => UniqueSlugs(WithoutIndex(db, i))
           /\ PairwiseDistinguishable(db)
              => PairwiseDistinguishable(WithoutIndex(db, i))
<1> DEFINE new == WithoutIndex(db, i)
<1>1. /\ \A j \in DOMAIN new :
            /\ Survivor(i, j) \in DOMAIN db
            /\ new[j] = db[Survivor(i, j)]
      /\ \A j, k \in DOMAIN new : Survivor(i, j) = Survivor(i, k) => j = k
  BY SurvivorLemma
<1> HIDE DEF new
<1>2. UniqueSlugs(db) => UniqueSlugs(new)
  BY <1>1 DEF UniqueSlugs
<1>3. PairwiseDistinguishable(db) => PairwiseDistinguishable(new)
  BY <1>1 DEF PairwiseDistinguishable
<1> QED
  BY <1>2, <1>3 DEF new

(* What is known of a list to which a record is added at the end.           *)
LEMMA InsertLemma ==
    ASSUME NEW db \in Seq(Record), NEW id \in Identity, NEW slug \in Slugs
    PROVE  /\ Insert(db, id, slug) \in Seq(Record)
           /\ DOMAIN Insert(db, id, slug) = 1..(Len(db) + 1)
           /\ \A j \in DOMAIN db : Insert(db, id, slug)[j] = db[j]
           /\ Insert(db, id, slug)[Len(db) + 1] = NewRecord(id, slug)
<1>1. NewRecord(id, slug) \in Record
  BY NewRecordLemma
<1> QED
  BY <1>1, AppendProperties DEF Insert

(* An allocated slug is not in use.                                         *)
LEMMA AllocatedIsFree ==
    ASSUME NEW db, NEW base, NEW slug, IsAllocated(db, base, slug)
    PROVE  slug \notin SlugsOf(db)
  BY DEF IsAllocated

(* Inserting a record for a device that matches none keeps all apart.       *)
LEMMA InsertionKeepsApart ==
    ASSUME NEW db \in Seq(Record), NEW id \in Identity, NEW slug \in Slugs,
           slug \notin SlugsOf(db), IsUnknown(db, id)
    PROVE  /\ UniqueSlugs(db) => UniqueSlugs(Insert(db, id, slug))
           /\ PairwiseDistinguishable(db)
              => PairwiseDistinguishable(Insert(db, id, slug))
<1> DEFINE new == Insert(db, id, slug)
           n   == Len(db) + 1
<1>1. /\ DOMAIN new = DOMAIN db \cup {n}
      /\ n \notin DOMAIN db
      /\ \A j \in DOMAIN db : new[j] = db[j] /\ db[j] \in Record
      /\ new[n] = NewRecord(id, slug)
  <2>1. /\ DOMAIN new = 1..(Len(db) + 1)
        /\ \A j \in DOMAIN db : new[j] = db[j]
        /\ new[n] = NewRecord(id, slug)
    BY InsertLemma
  <2>2. DOMAIN db = 1..Len(db) /\ Len(db) \in Nat
    OBVIOUS
  <2>3. \A j \in DOMAIN db : db[j] \in Record
    BY ElementOfSeq
  <2> HIDE DEF new
  <2> QED
    BY <2>1, <2>2, <2>3
<1> HIDE DEF new, n
<1>2. \A j \in DOMAIN db : new[j].slug # new[n].slug
  <2>1. new[n].slug = slug
    <3>1. NewRecord(id, slug).slug = slug
      BY NewRecordLemma
    <3> QED
      BY <1>1, <3>1
  <2>2. \A j \in DOMAIN db : db[j].slug # slug
    BY DEF SlugsOf
  <2> QED
    BY <1>1, <2>1, <2>2
<1>3. \A j \in DOMAIN db :
         Distinguishable(new[j], new[n]) /\ Distinguishable(new[n], new[j])
  BY <1>1, UnmatchedIsDistinguishable DEF IsUnknown
<1>4. ASSUME UniqueSlugs(db) PROVE UniqueSlugs(new)
  BY <1>1, <1>2, <1>4 DEF UniqueSlugs
<1>5. ASSUME PairwiseDistinguishable(db) PROVE PairwiseDistinguishable(new)
  BY <1>1, <1>3, <1>5 DEF PairwiseDistinguishable
<1> QED
  BY <1>4, <1>5 DEF new

(* Changing one record, without its slug and its model and without taking   *)
(* a serial or a fingerprint away, keeps all apart.                         *)
LEMMA UpdateKeepsApart ==
    ASSUME NEW db \in Seq(Record), NEW i \in DOMAIN db, NEW rec \in Record,
           rec.slug = db[i].slug,
           rec.model = db[i].model,
           db[i].serial # None => rec.serial = db[i].serial,
           db[i].caps # None => rec.caps = db[i].caps
    PROVE  /\ [db EXCEPT ![i] = rec] \in Seq(Record)
           /\ UniqueSlugs(db) => UniqueSlugs([db EXCEPT ![i] = rec])
           /\ PairwiseDistinguishable(db)
              => PairwiseDistinguishable([db EXCEPT ![i] = rec])
<1> DEFINE new == [db EXCEPT ![i] = rec]
<1>1. new \in Seq(Record)
  BY ExceptSeq
<1>2. /\ DOMAIN new = DOMAIN db
      /\ \A j \in DOMAIN db : new[j] = IF j = i THEN rec ELSE db[j]
      /\ \A j \in DOMAIN db : db[j] \in Record
  BY ElementOfSeq
<1>3. ASSUME UniqueSlugs(db) PROVE UniqueSlugs(new)
  BY <1>2, <1>3 DEF UniqueSlugs
<1>4. ASSUME PairwiseDistinguishable(db) PROVE PairwiseDistinguishable(new)
  <2>1. SUFFICES ASSUME NEW j \in DOMAIN db, NEW k \in DOMAIN db, j # k
                 PROVE  Distinguishable(new[j], new[k])
    BY <1>2 DEF PairwiseDistinguishable
  <2>2. Distinguishable(db[j], db[k])
    BY <1>4, <2>1 DEF PairwiseDistinguishable
  <2>3. CASE j = i
    BY <1>2, <2>1, <2>2, <2>3, DistinguishableIsMonotone
  <2>4. CASE k = i
    BY <1>2, <2>1, <2>2, <2>4, DistinguishableIsMonotone
  <2> QED
    BY <1>2, <2>2, <2>3, <2>4
<1> QED
  BY <1>1, <1>3, <1>4
-----------------------------------------------------------------------------
(* The inductive invariant: both lists are well typed and keep their        *)
(* records apart.                                                           *)
KeptApart(db) == UniqueSlugs(db) /\ PairwiseDistinguishable(db)

DbInv == DbTypeOK /\ KeptApart(devices) /\ KeptApart(file)

(* A change of the list in memory and a save of it, or a save that fails,   *)
(* keep the invariant if the changed list is in order.                      *)
LEMMA SaveLemma ==
    ASSUME DbInv, devices' \in Seq(Record), KeptApart(devices'),
           loaded' = loaded, file' = devices' \/ file' = file
    PROVE  DbInv'
  BY DEF DbInv, DbTypeOK, KeptApart, UniqueSlugs, PairwiseDistinguishable,
         Distinguishable

(* Every step of the registry keeps both lists apart.                       *)
LEMMA DbStep == DbInv /\ [DbNext]_dbVars => DbInv'
<1> SUFFICES ASSUME DbInv, [DbNext]_dbVars PROVE DbInv'
  OBVIOUS
<1> USE DEF DbInv
<1>0. devices \in Seq(Record) /\ file \in Seq(Record)
  BY DEF DbTypeOK
<1>1. CASE UNCHANGED dbVars
  BY <1>1 DEF dbVars, DbTypeOK, KeptApart, UniqueSlugs,
              PairwiseDistinguishable, Distinguishable
<1>2. CASE Load
  BY <1>2 DEF Load, DbTypeOK, KeptApart, UniqueSlugs,
              PairwiseDistinguishable, Distinguishable
<1>3. CASE Crash
  <2>1. devices' \in Seq(Record) /\ KeptApart(devices')
    BY <1>3 DEF Crash, KeptApart, UniqueSlugs, PairwiseDistinguishable
  <2>2. KeptApart(file')
    BY <1>3 DEF Crash
  <2> QED
    BY <1>3, <2>1, <2>2 DEF Crash, DbTypeOK, KeptApart, UniqueSlugs,
                            PairwiseDistinguishable, Distinguishable
<1>4. ASSUME NEW id \in Identities, NEW i \in DOMAIN devices, MatchKnown(id, i)
      PROVE  DbInv'
  <2>1. id \in Identity /\ devices[i] \in Record
    BY <1>0, IdentitiesAssumption, ElementOfSeq
  <2>2. devices' = [devices EXCEPT ![i] = Backfill(devices[i], id)]
    BY <1>4 DEF MatchKnown
  <2>3. devices' \in Seq(Record) /\ KeptApart(devices')
    BY <1>0, <2>1, <2>2, BackfillLemma, UpdateKeepsApart DEF KeptApart
  <2> QED
    BY <1>4, <2>3, SaveLemma DEF MatchKnown, SaveAtomic
<1>5. ASSUME NEW id \in Identities, NEW slug \in Slugs, InsertNew(id, slug)
      PROVE  DbInv'
  <2>1. id \in Identity
    BY IdentitiesAssumption
  <2>2. slug \notin SlugsOf(devices)
    BY <1>5, AllocatedIsFree DEF InsertNew
  <2>3. devices' \in Seq(Record) /\ KeptApart(devices')
    BY <1>0, <1>5, <2>1, <2>2, InsertLemma, InsertionKeepsApart
       DEF InsertNew, KeptApart
  <2> QED
    BY <1>5, <2>3, SaveLemma DEF InsertNew, SaveAtomic
<1>6. ASSUME NEW slug \in Slugs, NEW on \in BOOLEAN, NEW i \in DOMAIN devices,
             SetEnabled(slug, on, i)
      PROVE  DbInv'
  <2> DEFINE rec == [devices[i] EXCEPT !.enabled = on]
  <2>1. devices[i] \in Record
    BY <1>0, ElementOfSeq
  <2>2. /\ rec \in Record
        /\ rec.slug = devices[i].slug /\ rec.model = devices[i].model
        /\ rec.serial = devices[i].serial /\ rec.caps = devices[i].caps
    BY <2>1 DEF Record
  <2>3. devices' = [devices EXCEPT ![i] = rec]
    BY <1>6 DEF SetEnabled
  <2> HIDE DEF rec
  <2>4. devices' \in Seq(Record) /\ KeptApart(devices')
    BY <1>0, <2>2, <2>3, UpdateKeepsApart DEF KeptApart
  <2> QED
    BY <1>6, <2>4, SaveLemma DEF SetEnabled, SaveAtomic
<1>7. ASSUME NEW slug \in Slugs, NEW code \in Codes, NEW i \in DOMAIN devices,
             RecordKey(slug, code, i)
      PROVE  DbInv'
  <2> DEFINE rec == ObserveKey(devices[i], code)
  <2>1. devices[i] \in Record
    BY <1>0, ElementOfSeq
  <2>2. /\ rec \in Record
        /\ rec.slug = devices[i].slug /\ rec.model = devices[i].model
        /\ rec.serial = devices[i].serial /\ rec.caps = devices[i].caps
    BY <2>1 DEF Record, ObserveKey
  <2>3. devices' = [devices EXCEPT ![i] = rec]
    BY <1>7 DEF RecordKey
  <2> HIDE DEF rec
  <2>4. devices' \in Seq(Record) /\ KeptApart(devices')
    BY <1>0, <2>2, <2>3, UpdateKeepsApart DEF KeptApart
  <2> QED
    BY <1>7, <2>4, SaveLemma DEF RecordKey, SaveAtomic
<1>8. ASSUME NEW slug \in Slugs, NEW i \in DOMAIN devices, Remove(slug, i)
      PROVE  DbInv'
  <2>1. devices' \in Seq(Record) /\ KeptApart(devices')
    BY <1>0, <1>8, SurvivorLemma, RemovalKeepsApart DEF Remove, KeptApart
  <2> QED
    BY <1>8, <2>1, SaveLemma DEF Remove, SaveAtomic
<1> QED
  BY <1>1, <1>2, <1>3, <1>4, <1>5, <1>6, <1>7, <1>8 DEF DbNext

(* What the changes do to the set of known slugs and to the switches.       *)

SameSwitches(old, new) ==
    /\ SlugsOf(new) = SlugsOf(old)
    /\ \A s : EnabledIn(new, s) <=> EnabledIn(old, s)

(* A record that keeps its slug and its switch changes no switch.           *)
LEMMA UpdateSwitches ==
    ASSUME NEW db \in Seq(Record), NEW i \in DOMAIN db, NEW rec \in Record,
           rec.slug = db[i].slug, rec.enabled = db[i].enabled
    PROVE  SameSwitches(db, [db EXCEPT ![i] = rec])
<1> DEFINE new == [db EXCEPT ![i] = rec]
<1>1. /\ DOMAIN new = DOMAIN db
      /\ \A j \in DOMAIN db : new[j].slug = db[j].slug
      /\ \A j \in DOMAIN db : new[j].enabled = db[j].enabled
  OBVIOUS
<1> HIDE DEF new
<1>2. SlugsOf(new) = SlugsOf(db)
  BY <1>1 DEF SlugsOf
<1>3. \A s : EnabledIn(new, s) <=> EnabledIn(db, s)
  BY <1>1 DEF EnabledIn
<1> QED
  BY <1>2, <1>3 DEF SameSwitches, new

(* A sighting of a known device changes neither.                            *)
LEMMA MatchKnownSwitches ==
    ASSUME DbInv, NEW id \in Identities, NEW i \in DOMAIN devices,
           MatchKnown(id, i)
    PROVE  SameSwitches(devices, devices')
<1>1. devices[i] \in Record /\ devices \in Seq(Record) /\ id \in Identity
  BY IdentitiesAssumption, ElementOfSeq DEF DbInv, DbTypeOK
<1>2. devices' = [devices EXCEPT ![i] = Backfill(devices[i], id)]
  BY DEF MatchKnown
<1> QED
  BY <1>1, <1>2, BackfillLemma, UpdateSwitches

(* Neither does a key.                                                      *)
LEMMA RecordKeySwitches ==
    ASSUME DbInv, NEW slug \in Slugs, NEW code \in Codes,
           NEW i \in DOMAIN devices, RecordKey(slug, code, i)
    PROVE  SameSwitches(devices, devices')
<1> DEFINE rec == ObserveKey(devices[i], code)
<1>1. devices[i] \in Record /\ devices \in Seq(Record)
  BY ElementOfSeq DEF DbInv, DbTypeOK
<1>2. /\ rec \in Record
      /\ rec.slug = devices[i].slug /\ rec.enabled = devices[i].enabled
  BY <1>1 DEF Record, ObserveKey
<1>3. devices' = [devices EXCEPT ![i] = rec]
  BY DEF RecordKey
<1> QED
  BY <1>1, <1>2, <1>3, UpdateSwitches

(* A new device gets a slug nobody had, and is off.                         *)
LEMMA InsertNewSwitches ==
    ASSUME DbInv, NEW id \in Identities, NEW slug \in Slugs, InsertNew(id, slug)
    PROVE  /\ slug \notin SlugsOf(devices)
           /\ SlugsOf(devices') = SlugsOf(devices) \cup {slug}
           /\ \A s : EnabledIn(devices', s) <=> EnabledIn(devices, s)
<1> DEFINE n == Len(devices) + 1
<1>1. devices \in Seq(Record) /\ id \in Identity
  BY IdentitiesAssumption DEF DbInv, DbTypeOK
<1>2. devices' = Insert(devices, id, slug)
  BY DEF InsertNew
<1>3. /\ DOMAIN devices' = DOMAIN devices \cup {n}
      /\ n \notin DOMAIN devices
      /\ \A j \in DOMAIN devices : devices'[j] = devices[j]
      /\ devices'[n] = NewRecord(id, slug)
  <2>1. /\ DOMAIN devices' = 1..(Len(devices) + 1)
        /\ \A j \in DOMAIN devices : devices'[j] = devices[j]
        /\ devices'[n] = NewRecord(id, slug)
    BY <1>1, <1>2, InsertLemma
  <2>2. DOMAIN devices = 1..Len(devices) /\ Len(devices) \in Nat
    BY <1>1
  <2> QED
    BY <2>1, <2>2
<1>4. devices'[n].slug = slug /\ devices'[n].enabled = FALSE
  <2>1. /\ NewRecord(id, slug).slug = slug
        /\ NewRecord(id, slug).enabled = FALSE
    BY <1>1, NewRecordLemma
  <2> QED
    BY <1>3, <2>1
<1> HIDE DEF n
<1>5. slug \notin SlugsOf(devices)
  BY AllocatedIsFree DEF InsertNew
<1>6. SlugsOf(devices') = SlugsOf(devices) \cup {slug}
  BY <1>3, <1>4 DEF SlugsOf
<1>7. \A s : EnabledIn(devices', s) <=> EnabledIn(devices, s)
  BY <1>3, <1>4 DEF EnabledIn
<1> QED
  BY <1>5, <1>6, <1>7

(* A command sets one switch.                                               *)
LEMMA SetEnabledSwitches ==
    ASSUME DbInv, NEW slug \in Slugs, NEW on \in BOOLEAN,
           NEW i \in DOMAIN devices, SetEnabled(slug, on, i)
    PROVE  /\ slug \in SlugsOf(devices)
           /\ SlugsOf(devices') = SlugsOf(devices)
           /\ EnabledIn(devices, slug) <=> ~on
           /\ EnabledIn(devices', slug) <=> on
           /\ \A s : s # slug => (EnabledIn(devices', s) <=> EnabledIn(devices, s))
<1>1. /\ devices \in Seq(Record) /\ devices[i] \in Record
      /\ devices[i].enabled \in BOOLEAN
  <2>1. devices \in Seq(Record) /\ devices[i] \in Record
    BY ElementOfSeq DEF DbInv, DbTypeOK
  <2> QED
    BY <2>1 DEF Record
<1>2. /\ devices[i].slug = slug
      /\ devices[i].enabled # on
      /\ devices' = [devices EXCEPT ![i].enabled = on]
  BY DEF SetEnabled, IsAt
<1>3. /\ DOMAIN devices' = DOMAIN devices
      /\ \A j \in DOMAIN devices : j # i => devices'[j] = devices[j]
      /\ devices'[i] = [devices[i] EXCEPT !.enabled = on]
  BY <1>2
<1>4. devices'[i].slug = slug /\ devices'[i].enabled = on
  BY <1>1, <1>2, <1>3 DEF Record
<1>5. \A j \in DOMAIN devices : devices[j].slug = slug => j = i
  BY <1>2 DEF DbInv, KeptApart, UniqueSlugs
<1>6. slug \in SlugsOf(devices) /\ SlugsOf(devices') = SlugsOf(devices)
  BY <1>2, <1>3, <1>4 DEF SlugsOf
<1>7. EnabledIn(devices, slug) <=> ~on
  <2>1. EnabledIn(devices, slug) <=> devices[i].enabled
    BY <1>2, <1>5, Zenon DEF EnabledIn
  <2>2. devices[i].enabled <=> ~on
    BY <1>1, <1>2
  <2> QED
    BY <2>1, <2>2
<1>8. EnabledIn(devices', slug) <=> on
  BY <1>3, <1>4, <1>5, Zenon DEF EnabledIn
<1>9. \A s : s # slug => (EnabledIn(devices', s) <=> EnabledIn(devices, s))
  BY <1>2, <1>3, <1>4 DEF EnabledIn
<1> QED
  BY <1>6, <1>7, <1>8, <1>9

(* A removal takes one slug away, and its switch with it.                   *)
LEMMA RemoveSwitches ==
    ASSUME DbInv, NEW slug \in Slugs, NEW i \in DOMAIN devices, Remove(slug, i)
    PROVE  /\ slug \in SlugsOf(devices)
           /\ SlugsOf(devices') = SlugsOf(devices) \ {slug}
           /\ ~EnabledIn(devices', slug)
           /\ \A s : s # slug => (EnabledIn(devices', s) <=> EnabledIn(devices, s))
<1>1. devices \in Seq(Record)
  BY DEF DbInv, DbTypeOK
<1>2. devices' = WithoutIndex(devices, i) /\ devices[i].slug = slug
  BY DEF Remove, IsAt
<1>3. \A k \in DOMAIN devices' :
         /\ Survivor(i, k) \in DOMAIN devices
         /\ Survivor(i, k) # i
         /\ devices'[k] = devices[Survivor(i, k)]
  BY <1>1, <1>2, SurvivorLemma
<1>4. \A j \in DOMAIN devices :
         j # i => \E k \in DOMAIN devices' : devices'[k] = devices[j]
  <2>1. SUFFICES ASSUME NEW j \in DOMAIN devices, j # i
                 PROVE  \E k \in DOMAIN devices' : devices'[k] = devices[j]
    OBVIOUS
  <2> DEFINE k == IF j < i THEN j ELSE j - 1
  <2>2. DOMAIN devices' = 1..(Len(devices) - 1)
    BY <1>1, <1>2, SurvivorLemma
  <2>3. DOMAIN devices = 1..Len(devices) /\ Len(devices) \in Nat
    BY <1>1
  <2>4. k \in DOMAIN devices' /\ Survivor(i, k) = j
    BY <2>1, <2>2, <2>3 DEF Survivor
  <2> QED
    BY <1>3, <2>4
<1>5. \A j \in DOMAIN devices : devices[j].slug = slug => j = i
  BY <1>2 DEF DbInv, KeptApart, UniqueSlugs
<1>6. slug \in SlugsOf(devices)
  BY <1>2 DEF SlugsOf
<1>7. SlugsOf(devices') = SlugsOf(devices) \ {slug}
  <2>1. \A s \in SlugsOf(devices') : s \in SlugsOf(devices) \ {slug}
    BY <1>3, <1>5 DEF SlugsOf
  <2>2. \A s \in SlugsOf(devices) \ {slug} : s \in SlugsOf(devices')
    BY <1>2, <1>4 DEF SlugsOf
  <2> QED
    BY <2>1, <2>2
<1>8. ~EnabledIn(devices', slug)
  BY <1>3, <1>5 DEF EnabledIn
<1>9. \A s : s # slug => (EnabledIn(devices', s) <=> EnabledIn(devices, s))
  BY <1>2, <1>3, <1>4 DEF EnabledIn
<1> QED
  BY <1>6, <1>7, <1>8, <1>9

-----------------------------------------------------------------------------
(* The lists are apart at first.                                            *)
LEMMA DbInitially == DbInit => DbInv
<1> SUFFICES ASSUME DbInit PROVE DbInv
  OBVIOUS
<1>1. file \in Seq(Record) /\ KeptApart(file)
  BY InitialFilesAssumption DEF DbInit, KeptApart
<1>2. devices \in Seq(Record) /\ KeptApart(devices)
  BY DEF DbInit, KeptApart, UniqueSlugs, PairwiseDistinguishable
<1> QED
  BY <1>1, <1>2 DEF DbInit, DbInv, DbTypeOK

(* The invariant holds in every reachable state of the registry.            *)
THEOREM DbInvariance == DbSpec => []DbInv
  BY DbInitially, DbStep, PTL DEF DbSpec

(* The lists are lists of records, whatever was loaded, changed and saved.  *)
THEOREM DbTypeCorrect == DbSpec => []DbTypeOK
<1>1. DbInv => DbTypeOK
  BY DEF DbInv
<1> QED
  BY <1>1, DbInvariance, PTL

(* `allocate_slug` never gives a slug away twice, across removals, failed   *)
(* saves and restarts.                                                      *)
THEOREM DbSlugsAreUnique == DbSpec => []SlugsAreUnique
<1>1. DbInv => SlugsAreUnique
  BY DEF DbInv, KeptApart, SlugsAreUnique
<1> QED
  BY <1>1, DbInvariance, PTL

(* `match_or_insert` never stores a second record of a device it knows.     *)
THEOREM DbRecordsAreDistinguishable == DbSpec => []RecordsAreDistinguishable
<1>1. DbInv => RecordsAreDistinguishable
  BY DEF DbInv, KeptApart, RecordsAreDistinguishable
<1> QED
  BY <1>1, DbInvariance, PTL

-----------------------------------------------------------------------------
(* The steps of the registry.                                              *)

(* The new record is the old one, with more known.                          *)
Refines(old, new) ==
    /\ new.slug = old.slug
    /\ new.model = old.model
    /\ old.serial \in {None, new.serial}
    /\ old.caps \in {None, new.caps}
    /\ old.tag \in {None, new.tag}
    /\ old.phys \in {None, new.phys}
    /\ old.keys \subseteq new.keys

IsRefinement(old, new) ==
    \E i \in DOMAIN old, rec \in Record :
        new = [old EXCEPT ![i] = rec] /\ Refines(old[i], rec)

IsInsertion(old, new) ==
    \E id \in Identities, slug \in Slugs :
        slug \notin SlugsOf(old) /\ new = Insert(old, id, slug)

IsRemoval(old, new) == \E i \in DOMAIN old : new = WithoutIndex(old, i)

(* The list in memory changes in one of three ways.                         *)
LEMMA ListStep ==
    ASSUME DbInv, [DbNext]_dbVars, loaded, loaded'
    PROVE  \/ devices' = devices
           \/ IsRefinement(devices, devices')
           \/ IsInsertion(devices, devices')
           \/ IsRemoval(devices, devices')
<1>0. devices \in Seq(Record)
  BY DEF DbInv, DbTypeOK
<1>1. CASE UNCHANGED dbVars
  BY <1>1 DEF dbVars
<1>2. CASE Load \/ Crash
  BY <1>2 DEF Load, Crash
<1>3. ASSUME NEW id \in Identities, NEW i \in DOMAIN devices, MatchKnown(id, i)
      PROVE  IsRefinement(devices, devices')
  <2>1. devices[i] \in Record /\ id \in Identity
    BY <1>0, IdentitiesAssumption, ElementOfSeq
  <2>2. Backfill(devices[i], id) \in Record
    BY <2>1, BackfillLemma
  <2>3. Refines(devices[i], Backfill(devices[i], id))
    BY <2>1 DEF Refines, Backfill, OrElse, Record, Identity, Optional
  <2> QED
    BY <1>3, <2>2, <2>3 DEF MatchKnown, IsRefinement
<1>4. ASSUME NEW id \in Identities, NEW slug \in Slugs, InsertNew(id, slug)
      PROVE  IsInsertion(devices, devices')
  BY <1>4, AllocatedIsFree DEF InsertNew, IsInsertion
<1>5. ASSUME NEW slug \in Slugs, NEW on \in BOOLEAN, NEW i \in DOMAIN devices,
             SetEnabled(slug, on, i)
      PROVE  IsRefinement(devices, devices')
  <2> DEFINE rec == [devices[i] EXCEPT !.enabled = on]
  <2>1. devices[i] \in Record
    BY <1>0, ElementOfSeq
  <2>2. rec \in Record /\ Refines(devices[i], rec)
    BY <2>1 DEF Record, Refines
  <2>3. devices' = [devices EXCEPT ![i] = rec]
    BY <1>5 DEF SetEnabled
  <2> HIDE DEF rec
  <2> QED
    BY <2>2, <2>3 DEF IsRefinement
<1>6. ASSUME NEW slug \in Slugs, NEW code \in Codes, NEW i \in DOMAIN devices,
             RecordKey(slug, code, i)
      PROVE  IsRefinement(devices, devices')
  <2> DEFINE rec == ObserveKey(devices[i], code)
  <2>1. devices[i] \in Record
    BY <1>0, ElementOfSeq
  <2>2. rec \in Record /\ Refines(devices[i], rec)
    BY <2>1 DEF Record, Refines, ObserveKey
  <2>3. devices' = [devices EXCEPT ![i] = rec]
    BY <1>6 DEF RecordKey
  <2> HIDE DEF rec
  <2> QED
    BY <2>2, <2>3 DEF IsRefinement
<1>7. ASSUME NEW slug \in Slugs, NEW i \in DOMAIN devices, Remove(slug, i)
      PROVE  IsRemoval(devices, devices')
  BY <1>7 DEF Remove, IsRemoval
<1> QED
  BY <1>1, <1>2, <1>3, <1>4, <1>5, <1>6, <1>7 DEF DbNext

-----------------------------------------------------------------------------
(* What is known of a device.                                               *)

Grows(old, new) ==
    \A i \in DOMAIN old, j \in DOMAIN new :
        old[i].slug = new[j].slug => Refines(old[i], new[j])

(* A record that stays as it is is refined.                                 *)
LEMMA RefinesItself == ASSUME NEW rec \in Record PROVE Refines(rec, rec)
  BY DEF Refines

(* None of the three kinds of change loses what a record knows.             *)
LEMMA RefinementGrows ==
    ASSUME NEW old \in Seq(Record), NEW new, UniqueSlugs(old),
           IsRefinement(old, new)
    PROVE  Grows(old, new)
<1>1. PICK k \in DOMAIN old, rec \in Record :
         new = [old EXCEPT ![k] = rec] /\ Refines(old[k], rec)
  BY DEF IsRefinement
<1>2. SUFFICES ASSUME NEW i \in DOMAIN old, NEW j \in DOMAIN new,
                      old[i].slug = new[j].slug
               PROVE  Refines(old[i], new[j])
  BY DEF Grows
<1>3. j \in DOMAIN old /\ new[j] = IF j = k THEN rec ELSE old[j]
  BY <1>1
<1>4. old[j].slug = new[j].slug
  BY <1>1, <1>3 DEF Refines
<1>5. i = j
  BY <1>2, <1>3, <1>4 DEF UniqueSlugs
<1>6. Refines(old[j], old[j])
  BY <1>3, RefinesItself, ElementOfSeq
<1> QED
  BY <1>1, <1>3, <1>5, <1>6

(* The same of an insertion.                                                *)
LEMMA InsertionGrows ==
    ASSUME NEW old \in Seq(Record), NEW new, UniqueSlugs(old),
           IsInsertion(old, new)
    PROVE  Grows(old, new)
<1>1. PICK id \in Identities, slug \in Slugs :
         slug \notin SlugsOf(old) /\ new = Insert(old, id, slug)
  BY DEF IsInsertion
<1>2. id \in Identity
  BY IdentitiesAssumption
<1> DEFINE n == Len(old) + 1
<1>3. /\ DOMAIN new = 1..n
      /\ \A j \in DOMAIN old : new[j] = old[j]
      /\ new[n].slug = slug
  <2>1. NewRecord(id, slug).slug = slug
    BY <1>2, NewRecordLemma
  <2>2. /\ DOMAIN new = 1..(Len(old) + 1)
        /\ \A j \in DOMAIN old : new[j] = old[j]
        /\ new[Len(old) + 1] = NewRecord(id, slug)
    BY <1>1, <1>2, InsertLemma
  <2> QED
    BY <2>1, <2>2
<1>4. DOMAIN old = 1..Len(old) /\ Len(old) \in Nat
  OBVIOUS
<1>5. SUFFICES ASSUME NEW i \in DOMAIN old, NEW j \in DOMAIN new,
                      old[i].slug = new[j].slug
               PROVE  Refines(old[i], new[j])
  BY DEF Grows
<1>6. old[i].slug # slug
  BY <1>1 DEF SlugsOf
<1>7. j \in DOMAIN old
  BY <1>3, <1>4, <1>5, <1>6
<1>8. i = j
  BY <1>3, <1>5, <1>7 DEF UniqueSlugs
<1>9. Refines(old[j], old[j])
  BY <1>7, RefinesItself, ElementOfSeq
<1> QED
  BY <1>3, <1>7, <1>8, <1>9

(* The same of a removal.                                                   *)
LEMMA RemovalGrows ==
    ASSUME NEW old \in Seq(Record), NEW new, UniqueSlugs(old),
           IsRemoval(old, new)
    PROVE  Grows(old, new)
<1>1. PICK k \in DOMAIN old : new = WithoutIndex(old, k)
  BY DEF IsRemoval
<1>2. \A j \in DOMAIN new :
         Survivor(k, j) \in DOMAIN old /\ new[j] = old[Survivor(k, j)]
  BY <1>1, SurvivorLemma
<1>3. \A i, j \in DOMAIN old :
         old[i].slug = old[j].slug => Refines(old[i], old[j])
  BY RefinesItself, ElementOfSeq DEF UniqueSlugs
<1> QED
  BY <1>2, <1>3 DEF Grows

(* And of a step that leaves the list alone.                                *)
LEMMA UnchangedGrows ==
    ASSUME NEW old \in Seq(Record), UniqueSlugs(old)
    PROVE  Grows(old, old)
  BY RefinesItself, ElementOfSeq DEF Grows, UniqueSlugs

(* No step of a running process overwrites or loses what a record knows.    *)
THEOREM DbKnowledgeOnlyGrows == DbSpec => KnowledgeOnlyGrows
<1>1. ASSUME DbInv, [DbNext]_dbVars, loaded, loaded'
      PROVE  Grows(devices, devices')
  <2>1. devices \in Seq(Record) /\ UniqueSlugs(devices)
    BY <1>1 DEF DbInv, DbTypeOK, KeptApart
  <2>2. \/ devices' = devices
        \/ IsRefinement(devices, devices')
        \/ IsInsertion(devices, devices')
        \/ IsRemoval(devices, devices')
    BY <1>1, ListStep
  <2> QED
    BY <2>1, <2>2, RefinementGrows, InsertionGrows, RemovalGrows, UnchangedGrows
<1>2. DbInv /\ [DbNext]_dbVars
      => [ loaded /\ loaded' =>
             \A i \in DOMAIN devices, j \in DOMAIN devices' :
                devices[i].slug = devices'[j].slug =>
                   /\ devices'[j].model = devices[i].model
                   /\ devices[i].serial \in {None, devices'[j].serial}
                   /\ devices[i].caps \in {None, devices'[j].caps}
                   /\ devices[i].tag \in {None, devices'[j].tag}
                   /\ devices[i].phys \in {None, devices'[j].phys}
                   /\ devices[i].keys \subseteq devices'[j].keys ]_dbVars
  BY <1>1 DEF Grows, Refines
<1> QED
  BY <1>2, DbInvariance, PTL DEF DbSpec, KnowledgeOnlyGrows

-----------------------------------------------------------------------------
(* Which record a settled device matches first.                             *)

(* A record with more known matches no device it did not match before, and  *)
(* still matches a device that had nothing left to tell it.                 *)
LEMMA RefinedMatch ==
    ASSUME NEW old, NEW new, NEW id, Refines(old, new)
    PROVE  /\ Matches(new, id) => Matches(old, id)
           /\ Matches(old, id) /\ IsSettled(old, id) => Matches(new, id)
  BY DEF Refines, Matches, IsSettled

(* The device keeps its slug, or its record is gone.                        *)
Keeps(old, new, id, i) ==
    \/ old[i].slug \notin SlugsOf(new)
    \/ \E j \in DOMAIN new :
          IsFirstMatch(new, id, j) /\ new[j].slug = old[i].slug

(* None of the three moves a settled device to another slug.                *)
LEMMA RefinementKeeps ==
    ASSUME NEW old \in Seq(Record), NEW new, NEW id, NEW i \in DOMAIN old,
           IsRefinement(old, new), IsFirstMatch(old, id, i), IsSettled(old[i], id)
    PROVE  Keeps(old, new, id, i)
<1>1. PICK k \in DOMAIN old, rec \in Record :
         new = [old EXCEPT ![k] = rec] /\ Refines(old[k], rec)
  BY DEF IsRefinement
<1>2. DOMAIN new = DOMAIN old
  BY <1>1
<1>3. \A j \in DOMAIN old : Refines(old[j], new[j])
  BY <1>1, RefinesItself, ElementOfSeq
<1>4. IsFirstMatch(new, id, i)
  BY <1>2, <1>3, RefinedMatch DEF IsFirstMatch
<1>5. new[i].slug = old[i].slug
  BY <1>3 DEF Refines
<1> QED
  BY <1>2, <1>4, <1>5 DEF Keeps

(* The same of an insertion.                                                *)
LEMMA InsertionKeeps ==
    ASSUME NEW old \in Seq(Record), NEW new, NEW id, NEW i \in DOMAIN old,
           IsInsertion(old, new), IsFirstMatch(old, id, i)
    PROVE  Keeps(old, new, id, i)
<1>1. PICK other \in Identities, slug \in Slugs : new = Insert(old, other, slug)
  BY DEF IsInsertion
<1>2. other \in Identity
  BY IdentitiesAssumption
<1>3. /\ DOMAIN new = 1..(Len(old) + 1)
      /\ \A j \in DOMAIN old : new[j] = old[j]
  BY <1>1, <1>2, InsertLemma
<1>4. DOMAIN old = 1..Len(old) /\ Len(old) \in Nat
  OBVIOUS
<1>5. \A j \in DOMAIN new : j < i => j \in DOMAIN old
  BY <1>3, <1>4
<1>6. i \in DOMAIN new
  BY <1>3, <1>4
<1>7. IsFirstMatch(new, id, i)
  BY <1>3, <1>5, <1>6 DEF IsFirstMatch
<1> QED
  BY <1>3, <1>6, <1>7 DEF Keeps

(* The same of a removal.                                                   *)
LEMMA RemovalKeeps ==
    ASSUME NEW old \in Seq(Record), NEW new, NEW id, NEW i \in DOMAIN old,
           UniqueSlugs(old), IsRemoval(old, new), IsFirstMatch(old, id, i)
    PROVE  Keeps(old, new, id, i)
<1>1. PICK k \in DOMAIN old : new = WithoutIndex(old, k)
  BY DEF IsRemoval
<1>2. \A j \in DOMAIN new :
         /\ Survivor(k, j) \in DOMAIN old
         /\ Survivor(k, j) # k
         /\ new[j] = old[Survivor(k, j)]
  BY <1>1, SurvivorLemma
<1>3. CASE k = i
  <2>1. \A j \in DOMAIN new : new[j].slug # old[i].slug
    BY <1>2, <1>3 DEF UniqueSlugs
  <2> QED
    BY <2>1 DEF Keeps, SlugsOf
<1>4. CASE k # i
  <2> DEFINE m == IF i < k THEN i ELSE i - 1
  <2>1. DOMAIN new = 1..(Len(old) - 1)
    BY <1>1, SurvivorLemma
  <2>2. DOMAIN old = 1..Len(old) /\ Len(old) \in Nat
    OBVIOUS
  <2>3. m \in DOMAIN new /\ Survivor(k, m) = i
    BY <1>4, <2>1, <2>2 DEF Survivor
  <2>4. \A j \in DOMAIN new : j < m => Survivor(k, j) < i
    BY <1>4, <2>1, <2>2 DEF Survivor
  <2> HIDE DEF m
  <2>5. IsFirstMatch(new, id, m)
    BY <1>2, <2>3, <2>4 DEF IsFirstMatch
  <2> QED
    BY <1>2, <2>3, <2>5 DEF Keeps
<1> QED
  BY <1>3, <1>4

(* "Slugs are permanent": no sighting, command, key or removal of another   *)
(* device moves a settled device to another record.                         *)
THEOREM DbDeviceKeepsItsSlug == DbSpec => DeviceKeepsItsSlug
<1>1. ASSUME DbInv, [DbNext]_dbVars, loaded, loaded',
             NEW id \in Identities, NEW i \in DOMAIN devices,
             IsFirstMatch(devices, id, i), IsSettled(devices[i], id)
      PROVE  Keeps(devices, devices', id, i)
  <2>1. devices \in Seq(Record) /\ UniqueSlugs(devices)
    BY <1>1 DEF DbInv, DbTypeOK, KeptApart
  <2>2. CASE devices' = devices
    BY <1>1, <2>2 DEF Keeps
  <2>3. CASE IsRefinement(devices, devices')
    BY <1>1, <2>1, <2>3, RefinementKeeps
  <2>4. CASE IsInsertion(devices, devices')
    BY <1>1, <2>1, <2>4, InsertionKeeps
  <2>5. CASE IsRemoval(devices, devices')
    BY <1>1, <2>1, <2>5, RemovalKeeps
  <2> QED
    BY <1>1, <2>2, <2>3, <2>4, <2>5, ListStep
<1>2. DbInv /\ [DbNext]_dbVars
      => [ loaded /\ loaded' =>
             \A id \in Identities : \A i \in DOMAIN devices :
                /\ IsFirstMatch(devices, id, i)
                /\ IsSettled(devices[i], id)
                => \/ devices[i].slug \notin SlugsOf(devices')
                   \/ \E j \in DOMAIN devices' :
                         /\ IsFirstMatch(devices', id, j)
                         /\ devices'[j].slug = devices[i].slug ]_dbVars
  BY <1>1 DEF Keeps
<1> QED
  BY <1>2, DbInvariance, PTL DEF DbSpec, DeviceKeepsItsSlug

-----------------------------------------------------------------------------
(* The file.                                                                *)

(* A sighting that fills nothing in changes nothing, so that it is not      *)
(* saved leaves the file current.                                           *)
LEMMA NothingToFillIn ==
    ASSUME NEW rec \in Record, NEW id \in Identity, ~IsBackfilled(rec, id)
    PROVE  Backfill(rec, id) = rec
  BY DEF Backfill, IsBackfilled, OrElse, Record

(* When saves do not fail the file holds what the process has in memory.    *)
THEOREM DbFileIsCurrent == DbSpec => []FileIsCurrent
<1>1. DbInit => FileIsCurrent
  BY DEF DbInit, FileIsCurrent
<1>2. ASSUME DbInv, FileIsCurrent, [DbNext]_dbVars
      PROVE  FileIsCurrent'
  <2>0. SUFFICES ASSUME loaded', ~SaveMayFail PROVE file' = devices'
    BY DEF FileIsCurrent
  <2>1. CASE UNCHANGED dbVars
    BY <1>2, <2>0, <2>1 DEF FileIsCurrent, dbVars
  <2>2. CASE Load \/ Crash
    BY <2>0, <2>2 DEF Load, Crash
  <2>3. ASSUME NEW id \in Identities, NEW i \in DOMAIN devices, MatchKnown(id, i)
        PROVE  file' = devices'
    <3>1. /\ devices \in Seq(Record) /\ devices[i] \in Record
          /\ id \in Identity
      BY <1>2, IdentitiesAssumption, ElementOfSeq DEF DbInv, DbTypeOK
    <3>2. CASE IsBackfilled(devices[i], id)
      BY <2>0, <2>3, <3>2 DEF MatchKnown, SaveAtomic
    <3>3. CASE ~IsBackfilled(devices[i], id)
      <4>1. Backfill(devices[i], id) = devices[i]
        BY <3>1, <3>3, NothingToFillIn
      <4>2. devices' = devices
        BY <2>3, <3>1, <4>1 DEF MatchKnown
      <4> QED
        BY <1>2, <2>0, <2>3, <3>3, <4>2 DEF MatchKnown, FileIsCurrent
    <3> QED
      BY <3>2, <3>3
  <2>4. ASSUME NEW id \in Identities, NEW slug \in Slugs, InsertNew(id, slug)
        PROVE  file' = devices'
    BY <2>0, <2>4 DEF InsertNew, SaveAtomic
  <2>5. ASSUME NEW slug \in Slugs, NEW on \in BOOLEAN, NEW i \in DOMAIN devices,
               SetEnabled(slug, on, i)
        PROVE  file' = devices'
    BY <2>0, <2>5 DEF SetEnabled, SaveAtomic
  <2>6. ASSUME NEW slug \in Slugs, NEW code \in Codes, NEW i \in DOMAIN devices,
               RecordKey(slug, code, i)
        PROVE  file' = devices'
    BY <2>0, <2>6 DEF RecordKey, SaveAtomic
  <2>7. ASSUME NEW slug \in Slugs, NEW i \in DOMAIN devices, Remove(slug, i)
        PROVE  file' = devices'
    BY <2>0, <2>7 DEF Remove, SaveAtomic
  <2> QED
    BY <1>2, <2>1, <2>2, <2>3, <2>4, <2>5, <2>6, <2>7 DEF DbNext
<1> QED
  BY <1>1, <1>2, DbInvariance, PTL DEF DbSpec
-----------------------------------------------------------------------------
(* The outcome of a sighting.                                               *)

(* A set of numbers that is not empty has a least one.                      *)
LEMMA LeastNumber ==
    ASSUME NEW S \in SUBSET Nat, S # {}
    PROVE  \E n \in S : \A m \in S : n <= m
<1> DEFINE R == OpToRel(<, Nat)
<1>1. \A m, n \in Nat : <<m, n>> \in R <=> m < n
  BY DEF OpToRel
<1>2. IsWellFoundedOn(R, Nat)
  BY NatLessThanWellFounded
<1> HIDE DEF R
<1>3. PICK n \in S : \A m \in S : ~(<<m, n>> \in R)
  BY <1>2, WFMin
<1>4. \A m \in S : ~(m < n)
  BY <1>1, <1>3
<1> QED
  BY <1>4

(* A known device has a first match.                                        *)
LEMMA KnownHasFirstMatch ==
    ASSUME NEW db \in Seq(Record), NEW id, ~IsUnknown(db, id)
    PROVE  \E i \in DOMAIN db : IsFirstMatch(db, id, i)
<1> DEFINE Found == {i \in DOMAIN db : Matches(db[i], id)}
<1>1. DOMAIN db \subseteq Nat
  BY LenProperties
<1>2. Found \in SUBSET Nat /\ Found # {}
  BY <1>1 DEF IsUnknown
<1>3. PICK i \in Found : \A j \in Found : i <= j
  BY <1>2, LeastNumber
<1> QED
  BY <1>1, <1>3 DEF IsFirstMatch

(* A list has at most as many slugs as records, so that among more          *)
(* candidates than records one is free.                                     *)
LEMMA OneIsFree ==
    ASSUME EnoughNumbers, NEW db \in Seq(Record), Len(db) <= MaxRecords,
           NEW base \in Bases, base \in SlugsOf(db)
    PROVE  \E n \in 2..MaxSuffix : Numbered[<<base, n>>] \notin SlugsOf(db)
<1> SUFFICES ASSUME \A n \in 2..MaxSuffix : Numbered[<<base, n>>] \in SlugsOf(db)
             PROVE  FALSE
  OBVIOUS
<1>0. /\ MaxSuffix \in Nat /\ Len(db) \in Nat /\ Len(db) < MaxSuffix
      /\ DOMAIN db = 1..Len(db)
  BY LenProperties DEF EnoughNumbers
<1> DEFINE Candidate == [n \in 1..MaxSuffix |-> IF n = 1 THEN base ELSE Numbered[<<base, n>>]]
           Place     == [n \in 1..MaxSuffix |->
                            CHOOSE i \in DOMAIN db : db[i].slug = Candidate[n]]
<1>1. \A n \in 1..MaxSuffix : Candidate[n] \in SlugsOf(db)
  BY <1>0
<1>2. \A m, n \in 1..MaxSuffix : Candidate[m] = Candidate[n] => m = n
  BY <1>0 DEF EnoughNumbers
<1> HIDE DEF Candidate
<1>3. \A n \in 1..MaxSuffix : Place[n] \in DOMAIN db /\ db[Place[n]].slug = Candidate[n]
  BY <1>1 DEF SlugsOf
<1>4. Place \in [1..MaxSuffix -> 1..Len(db)]
  BY <1>0, <1>3
<1>5. \A m, n \in 1..MaxSuffix : m # n => Place[m] # Place[n]
  BY <1>2, <1>3
<1> HIDE DEF Place
<1>6. \A n \in Nat : IsFiniteSet(1..n) /\ Cardinality(1..n) = n
  BY FS_Interval
<1>7. \E m, n \in 1..MaxSuffix : m # n /\ Place[m] = Place[n]
  BY <1>0, <1>4, <1>6, FS_PigeonHole
<1> QED
  BY <1>5, <1>7

(* Exactly one slug is allocated as long as one of the candidates is free.  *)
LEMMA OneIsAllocated ==
    ASSUME EnoughNumbers, NEW db \in Seq(Record), Len(db) <= MaxRecords,
           NEW base \in Bases
    PROVE  \E slug \in Slugs : \A s \in Slugs : IsAllocated(db, base, s) <=> s = slug
<1>1. CASE base \notin SlugsOf(db)
  BY <1>1, SlugAssumption DEF IsAllocated
<1>2. CASE base \in SlugsOf(db)
  <2> DEFINE Free == {n \in 2..MaxSuffix : Numbered[<<base, n>>] \notin SlugsOf(db)}
  <2>0. MaxSuffix \in Nat
    BY DEF EnoughNumbers
  <2>1. Free \in SUBSET Nat /\ Free # {}
    <3>1. \E n \in 2..MaxSuffix : Numbered[<<base, n>>] \notin SlugsOf(db)
      BY <1>2, OneIsFree
    <3>2. 2..MaxSuffix \subseteq Nat
      BY <2>0
    <3> QED
      BY <3>1, <3>2, Zenon
  <2>2. PICK n \in Free : \A m \in Free : n <= m
    BY <2>1, LeastNumber
  <2>3. /\ n \in 2..MaxSuffix /\ Numbered[<<base, n>>] \notin SlugsOf(db)
        /\ \A m \in 2..(n - 1) : Numbered[<<base, m>>] \in SlugsOf(db)
    BY <2>0, <2>2
  <2>4. Numbered[<<base, n>>] \in Slugs
    BY <2>3, SlugAssumption
  <2>5. ASSUME NEW s \in Slugs, IsAllocated(db, base, s)
        PROVE  s = Numbered[<<base, n>>]
    <3>1. PICK k \in 2..MaxSuffix :
             /\ s = Numbered[<<base, k>>]
             /\ s \notin SlugsOf(db)
             /\ \A m \in 2..(k - 1) : Numbered[<<base, m>>] \in SlugsOf(db)
      BY <1>2, <2>5 DEF IsAllocated
    <3>2. k = n
      BY <2>0, <2>3, <3>1
    <3> QED
      BY <3>1, <3>2
  <2>6. IsAllocated(db, base, Numbered[<<base, n>>])
    BY <1>2, <2>3 DEF IsAllocated
  <2> QED
    BY <2>4, <2>5, <2>6
<1> QED
  BY <1>1, <1>2

(* Insertions stop at `MaxRecords`, and the file is a list the memory held. *)
Bounded(db) == Len(db) <= MaxRecords

LEMMA ListsStayBounded ==
    ASSUME EnoughNumbers, DbInv, Bounded(devices), Bounded(file), [DbNext]_dbVars
    PROVE  Bounded(devices)' /\ Bounded(file)'
<1>0. /\ devices \in Seq(Record) /\ Len(devices) \in Nat /\ MaxRecords \in Nat
      /\ Len(devices) <= MaxRecords /\ Len(file) <= MaxRecords
  BY LenProperties DEF DbInv, DbTypeOK, EnoughNumbers, Bounded
<1>1. CASE UNCHANGED dbVars
  BY <1>0, <1>1 DEF dbVars, Bounded
<1>2. CASE Load
  BY <1>0, <1>2 DEF Load, Bounded
<1>3. CASE Crash
  BY <1>0, <1>3 DEF Crash, Bounded
<1>4. ASSUME NEW id \in Identities, NEW slug \in Slugs, InsertNew(id, slug)
      PROVE  Len(devices') <= MaxRecords
  <2>1. Len(devices') = Len(devices) + 1
    BY <1>0, <1>4, IdentitiesAssumption, InsertLemma DEF InsertNew
  <2> QED
    BY <1>0, <1>4, <2>1 DEF InsertNew
<1>5. ASSUME NEW i \in DOMAIN devices, NEW rec, devices' = [devices EXCEPT ![i] = rec]
      PROVE  Len(devices') <= MaxRecords
  BY <1>0, <1>5
<1>6. ASSUME NEW slug \in Slugs, NEW i \in DOMAIN devices, Remove(slug, i)
      PROVE  Len(devices') <= MaxRecords
  <2>1. devices' = WithoutIndex(devices, i) /\ Len(devices) >= 1
    BY <1>0, <1>6, LenProperties DEF Remove
  <2>2. Len(WithoutIndex(devices, i)) = Len(devices) - 1
    BY <1>0, <2>1, SurvivorLemma
  <2> QED
    BY <1>0, <2>1, <2>2
<1>7. CASE Load \/ Crash \/ UNCHANGED dbVars
  BY <1>1, <1>2, <1>3, <1>7
<1>8. CASE Len(devices') <= MaxRecords /\ (file' = devices' \/ file' = file)
  BY <1>0, <1>8 DEF Bounded
<1> QED
  BY <1>4, <1>5, <1>6, <1>7, <1>8
     DEF DbNext, MatchKnown, InsertNew, SetEnabled, RecordKey, Remove, SaveAtomic

(* One record matches first, or there is none and one slug is allocated,    *)
(* so that `match_or_insert` always has exactly one outcome: the loop over  *)
(* the numbers ends, provided the model has more of them than records.      *)
THEOREM SightingsResolve ==
    ASSUME EnoughNumbers
    PROVE  DbSpec => []EverySightingResolves
<1> DEFINE Inv == Bounded(devices) /\ Bounded(file)
<1>1. DbInit => Inv
  BY DEF DbInit, EnoughNumbers, Bounded
<1>2. DbInv /\ Inv /\ [DbNext]_dbVars => Inv'
  BY ListsStayBounded
<1>3. DbInv /\ Inv => EverySightingResolves
  <2> SUFFICES ASSUME DbInv, Inv, NEW id \in Identities
               PROVE  IF IsUnknown(devices, id)
                      THEN \E slug \in Slugs :
                              \A s \in Slugs :
                                 IsAllocated(devices, Slugify[Seed(id)], s) <=> s = slug
                      ELSE \E i \in DOMAIN devices : IsFirstMatch(devices, id, i)
    BY DEF EverySightingResolves
  <2>1. devices \in Seq(Record) /\ Slugify[Seed(id)] \in Bases
    BY DEF DbInv, DbTypeOK, Bases
  <2>2. Len(devices) <= MaxRecords
    BY DEF Bounded
  <2>3. CASE IsUnknown(devices, id)
    BY <2>1, <2>2, <2>3, OneIsAllocated
  <2>4. CASE ~IsUnknown(devices, id)
    BY <2>1, <2>4, KnownHasFirstMatch
  <2> QED
    BY <2>3, <2>4
<1> QED
  BY <1>1, <1>2, <1>3, DbInvariance, PTL DEF DbSpec
=============================================================================
