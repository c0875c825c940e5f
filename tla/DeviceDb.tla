------------------------------ MODULE DeviceDb ------------------------------
(* The registry (`Database`) and the file behind it.  A client -- in the    *)
(* daemon, the coordinator -- loads it, looks devices up, changes records,  *)
(* and saves after each change.  A save either replaces the file by the     *)
(* whole list or, when it fails or the process dies first, leaves the file  *)
(* as it was: `save_atomic` writes a temporary file and renames it.         *)
EXTENDS DeviceRecords

CONSTANTS
    InitialFiles,  \* contents the file may have when the story begins
    SaveMayFail,   \* whether a save can fail (a full or read-only disk)
    MaxRecords     \* bound on the number of records; the code has none

VARIABLES
    devices,  \* Database::devices, the list in memory
    file,     \* the list the file holds
    loaded    \* whether a process holds the list in memory

dbVars == <<devices, file, loaded>>

ASSUME SaveMayFailAssumption == SaveMayFail \in BOOLEAN

ASSUME InitialFilesAssumption ==
    \A f \in InitialFiles :
        /\ f \in Seq(Record)
        /\ UniqueSlugs(f)
        /\ PairwiseDistinguishable(f)

-----------------------------------------------------------------------------
DbInit ==
    /\ devices = <<>>
    /\ file \in InitialFiles
    /\ loaded = FALSE

(* The file is read once, when the process starts.  (`file` is <<>> when    *)
(* there is none.)                                                          *)
Load ==
    /\ ~loaded
    /\ loaded' = TRUE
    /\ devices' = file
    /\ UNCHANGED file

(* The process ends, in whatever way; the memory is gone, the file stays.   *)
Crash ==
    /\ loaded
    /\ loaded' = FALSE
    /\ devices' = <<>>
    /\ UNCHANGED file

(* The client saves; a failed save is logged and changes nothing. *)
SaveAtomic ==
    \/ file' = devices'
    \/ SaveMayFail /\ UNCHANGED file

(* `match_or_insert`, the record at i matches; the client saves only if     *)
(* something was filled in.                                                 *)
MatchKnown(id, i) ==
    /\ loaded
    /\ IsFirstMatch(devices, id, i)
    /\ devices' = [devices EXCEPT ![i] = Backfill(@, id)]
    /\ IF IsBackfilled(devices[i], id) THEN SaveAtomic ELSE UNCHANGED file
    /\ UNCHANGED loaded

(* `match_or_insert`, nothing matches. *)
InsertNew(id, slug) ==
    /\ loaded
    /\ Len(devices) < MaxRecords
    /\ IsUnknown(devices, id)
    /\ IsAllocated(devices, Slugify[Seed(id)], slug)
    /\ devices' = Insert(devices, id, slug)
    /\ SaveAtomic
    /\ UNCHANGED loaded

(* Mutant: the state is set and announced again even if it is the same.     *)
SetEnabledAgain(slug, on, i) ==
    /\ loaded
    /\ IsAt(devices, slug, i)
    /\ devices' = [devices EXCEPT ![i].enabled = on]
    /\ SaveAtomic
    /\ UNCHANGED loaded

SetEnabled(slug, on, i) ==
    /\ loaded
    /\ IsAt(devices, slug, i)
    /\ devices[i].enabled # on
    /\ devices' = [devices EXCEPT ![i].enabled = on]
    /\ SaveAtomic
    /\ UNCHANGED loaded

RecordKey(slug, code, i) ==
    /\ loaded
    /\ IsAt(devices, slug, i)
    /\ code \notin devices[i].keys
    /\ devices' = [devices EXCEPT ![i] = ObserveKey(@, code)]
    /\ SaveAtomic
    /\ UNCHANGED loaded

(* Mutant: the removal is not saved.                                        *)
RemoveUnsaved(slug, i) ==
    /\ loaded
    /\ IsAt(devices, slug, i)
    /\ devices' = WithoutIndex(devices, i)
    /\ UNCHANGED <<file, loaded>>

Remove(slug, i) ==
    /\ loaded
    /\ IsAt(devices, slug, i)
    /\ devices' = WithoutIndex(devices, i)
    /\ SaveAtomic
    /\ UNCHANGED loaded

DbNext ==
    \/ Load
    \/ Crash
    \/ \E id \in Identities, i \in DOMAIN devices : MatchKnown(id, i)
    \/ \E id \in Identities, slug \in Slugs : InsertNew(id, slug)
    \/ \E slug \in Slugs, on \in BOOLEAN, i \in DOMAIN devices :
          SetEnabled(slug, on, i)
    \/ \E slug \in Slugs, code \in Codes, i \in DOMAIN devices :
          RecordKey(slug, code, i)
    \/ \E slug \in Slugs, i \in DOMAIN devices : Remove(slug, i)

DbSpec == DbInit /\ [][DbNext]_dbVars

-----------------------------------------------------------------------------
DbTypeOK ==
    /\ devices \in Seq(Record)
    /\ file \in Seq(Record)
    /\ loaded \in BOOLEAN

(* A slug names one record, in memory and in the file: the MQTT topics and  *)
(* the Home Assistant identifiers of two devices never collide, however     *)
(* insertions, removals, failed saves and restarts interleave               *)
(* (allocate_slug tries the numbers after a base in turn).                  *)
SlugsAreUnique == UniqueSlugs(devices) /\ UniqueSlugs(file)

(* No two records describe the same device: whatever two records hold, some *)
(* field both of them carry tells them apart.  Insertion only follows a     *)
(* failed match, and the backfill closes the window a legacy record leaves. *)
RecordsAreDistinguishable ==
    PairwiseDistinguishable(devices) /\ PairwiseDistinguishable(file)

(* Unless a save fails, every change is in the file when its operation is   *)
(* over -- a sighting that fills nothing in is not saved, and need not be.  *)
FileIsCurrent == loaded /\ ~SaveMayFail => file = devices

(* The numbers suffice: there are more of them than records, they differ    *)
(* from each other, and none is the base itself (`{base}-{n}`).  The code   *)
(* counts as far as it has to.                                              *)
EnoughNumbers ==
    /\ MaxRecords \in Nat /\ MaxSuffix \in Nat /\ MaxRecords < MaxSuffix
    /\ \A f \in InitialFiles : Len(f) <= MaxRecords
    /\ \A b \in Bases, n \in 2..MaxSuffix : Numbered[<<b, n>>] # b
    /\ \A b \in Bases, m, n \in 2..MaxSuffix :
          Numbered[<<b, m>>] = Numbered[<<b, n>>] => m = n

(* Every sighting has exactly one outcome: one record is the first match,   *)
(* or there is none and exactly one slug is allocated.                      *)
EverySightingResolves ==
    \A id \in Identities :
        IF IsUnknown(devices, id)
        THEN \E slug \in Slugs :
                \A s \in Slugs :
                    IsAllocated(devices, Slugify[Seed(id)], s) <=> s = slug
        ELSE \E i \in DOMAIN devices : IsFirstMatch(devices, id, i)

(* A device keeps its slug ("Slugs are permanent"): once a sighting has     *)
(* settled on a record, later steps of the same process -- sightings of     *)
(* look-alikes that fill in fields, removals of other records -- make it    *)
(* match that record first, until that record is removed.                   *)
DeviceKeepsItsSlug ==
    [][ loaded /\ loaded' =>
          \A id \in Identities : \A i \in DOMAIN devices :
             /\ IsFirstMatch(devices, id, i)
             /\ IsSettled(devices[i], id)
             => \/ devices[i].slug \notin SlugsOf(devices')
                \/ \E j \in DOMAIN devices' :
                      /\ IsFirstMatch(devices', id, j)
                      /\ devices'[j].slug = devices[i].slug ]_dbVars

(* What a record knows of its device is never overwritten or lost while the *)
(* process runs: a field changes only from absent to present, and the       *)
(* observed keys only grow.                                                 *)
KnowledgeOnlyGrows ==
    [][ loaded /\ loaded' =>
          \A i \in DOMAIN devices, j \in DOMAIN devices' :
             devices[i].slug = devices'[j].slug =>
                /\ devices'[j].model = devices[i].model
                /\ devices[i].serial \in {None, devices'[j].serial}
                /\ devices[i].caps \in {None, devices'[j].caps}
                /\ devices[i].tag \in {None, devices'[j].tag}
                /\ devices[i].phys \in {None, devices'[j].phys}
                /\ devices[i].keys \subseteq devices'[j].keys ]_dbVars
=============================================================================
