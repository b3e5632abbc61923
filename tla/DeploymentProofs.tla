-------------------------- MODULE DeploymentProofs --------------------------
(***************************************************************************)
(* For every set of datasets and manifests, and however often the process  *)
(* ends, fails to load or meets edited files: no stale full-text index is  *)
(* taken over, a dataset that is kept is current, and what is served is    *)
(* what the manifest describes. No event changes behind an index.          *)
(***************************************************************************)
EXTENDS Deployment, FiniteSetTheorems, TLAPS

(* The stages of Load, and those of them in which the datasets are         *)
(* imported, are all there, and are all that is there.                     *)
Loading == {"signing", "dropping", "dropped", "importing", "reading",
            "deleting", "indexing", "reconciling", "syncing", "configuring",
            "restoring", "resyncing"}

Imported == {"deleting", "indexing", "reconciling", "syncing", "configuring",
             "publishing", "ready"}

Complete == {"indexing", "reconciling", "syncing", "configuring", "publishing",
             "ready"}

(* What Load holds on to from one step to the next.                        *)
LoadState ==
  /\ stage \in Loading => manifest \in Manifests
  /\ stage \in {"down", "signing", "dropping"} => ~dropped
  /\ stage = "dropped" => dropped
  /\ stage \in {"dropping", "dropped", "importing", "reading"} =>
       \A d \in manifest.datasets : signed[d] # 0
  /\ stage \in {"dropping", "dropped"} => todo = manifest.datasets
  /\ stage \in {"importing", "reading"} => todo \subseteq manifest.datasets
  /\ stage = "reading" => reading \in manifest.datasets
  /\ stage # "reading" => reading = Null

Deployed ==
  /\ \A d \in manifest.datasets : Unchanged(d)
  /\ \A d \in Dataset : stored[d] # Null => d \in manifest.datasets

(* The full-text index is gone as long as the derived structures are       *)
(* dropped; if they are not, there is nothing to import or to delete.      *)
IndexSound ==
  /\ fts # "stale"
  /\ FullTextIndexEnabled => fts = "current"
  /\ dropped /\ stage \in {"importing", "reading", "deleting", "indexing",
                           "reconciling", "syncing"} => fts = "absent"
  /\ ~dropped /\ stage \in {"importing", "deleting"} => Deployed
  /\ stage = "reading" => dropped

(* Signatures are never ahead of the files, and what was read of a file    *)
(* that still is as it was signed is that version.                         *)
VersionsSound ==
  /\ \A d \in Dataset :
       /\ signed[d] <= files[d]
       /\ stored[d] # Null =>
            /\ stored[d].signature <= files[d]
            /\ stored[d].signature = files[d] => stored[d].content = {files[d]}
  /\ stage = "reading" /\ signed[reading] = files[reading]
       => seen = {files[reading]}

(* How far a load has come towards what the manifest describes.            *)
DatasetsDone ==
  manifest # Null =>
    /\ stage \in {"importing", "reading"} =>
         \A d \in manifest.datasets : d \notin todo /\ d # reading => Unchanged(d)
    /\ stage \in Imported => \A d \in manifest.datasets : Unchanged(d)
    /\ stage \in Complete =>
         \A d \in Dataset : stored[d] # Null => d \in manifest.datasets
    /\ stage = "ready" => catalog = Existing

IndexesDone ==
  manifest # Null =>
    /\ stage = "reconciling" => Ordinary \in indexes
    /\ stage \in {"syncing", "configuring", "publishing", "ready"} =>
         indexes = {Ordinary} \cup manifest.paths
    /\ stage \in {"dropping", "dropped", "importing", "reading"} \cup Imported
         => fullText.configured = manifest.fullText
    /\ stage \in {"configuring", "publishing", "ready"} =>
         /\ FullTextIndexEnabled <=> manifest.fullText
         /\ fts = "absent" <=> ~manifest.fullText

IInv ==
  /\ TypeOK
  /\ LoadState
  /\ IndexSound
  /\ VersionsSound
  /\ DatasetsDone
  /\ IndexesDone

-----------------------------------------------------------------------------
(* Lemmas                                                                  *)

(* A manifest's parts.                                                     *)
LEMMA ManifestParts ==
  ASSUME NEW m \in Manifests
  PROVE  /\ m.datasets \subseteq Dataset
         /\ m.paths \subseteq Path
         /\ m.fullText \in BOOLEAN
         /\ m # Null
BY DeploymentAssumption DEF Manifest

(* Counting and comparing is enough: when there are as many datasets as    *)
(* configured ones and those are all unchanged, there are no others.       *)
LEMMA NothingChanged ==
  ASSUME manifest \in Manifests, ~StorageChanged
  PROVE  Deployed
<1>1. manifest.datasets \subseteq Existing
  BY ManifestParts DEF StorageChanged, Unchanged, Existing
<1>2. IsFiniteSet(Existing)
  BY FS_Subset, DeploymentAssumption DEF Existing
<1>3. Existing = manifest.datasets
  BY <1>1, <1>2, FS_Subset DEF StorageChanged
<1>4. QED
  BY <1>3 DEF StorageChanged, Deployed, Existing

-----------------------------------------------------------------------------
(* The steps                                                               *)

LEMMA InitIInv == Init => IInv
<1> SUFFICES ASSUME Init PROVE IInv
  OBVIOUS
<1>1. TypeOK
  <2>1. files \in [Dataset -> Version] /\ signed \in [Dataset -> Version \cup {0}]
    BY DeploymentAssumption DEF Init, Version
  <2>2. stored \in [Dataset -> Row \cup {Null}] /\ seen \subseteq Version
    BY DEF Init
  <2>3. QED
    BY <2>1, <2>2 DEF Init, TypeOK, Stage, Unset
<1>2. LoadState /\ VersionsSound
  BY <1>1 DEF Init, LoadState, Loading, VersionsSound
<1>3. IndexSound
  BY DEF Init, IndexSound, FullTextIndexEnabled, Unset
<1>4. DatasetsDone /\ IndexesDone
  BY DEF Init, DatasetsDone, IndexesDone
<1>5. QED
  BY <1>1, <1>2, <1>3, <1>4 DEF IInv

LEMMA EditStep ==
  ASSUME IInv, NEW d \in Dataset, Edit(d)
  PROVE  IInv'
<1>1. TypeOK'
  BY DeploymentAssumption DEF IInv, TypeOK, Version, Edit, disk
<1>2. LoadState'
  BY DEF IInv, LoadState, Edit
<1>3. IndexSound'
  BY DEF IInv, IndexSound, FullTextIndexEnabled, Deployed, Unchanged, Edit,
     disk
<1>4. VersionsSound'
  BY DEF IInv, TypeOK, VersionsSound, Version, Row, Edit, disk
<1>5. DatasetsDone'
  BY DEF IInv, DatasetsDone, Unchanged, Existing, Edit, disk
<1>6. IndexesDone'
  BY DEF IInv, IndexesDone, FullTextIndexEnabled, Edit, disk
<1>7. QED
  BY <1>1, <1>2, <1>3, <1>4, <1>5, <1>6 DEF IInv

LEMMA CrashStep ==
  ASSUME IInv, Crash
  PROVE  IInv'
<1>1. TypeOK'
  BY DEF IInv, TypeOK, Stage, Unset, Crash, disk
<1>2. LoadState'
  BY DEF IInv, LoadState, Loading, Crash
<1>3. IndexSound'
  BY DEF IInv, IndexSound, FullTextIndexEnabled, Crash, Unset, disk
<1>4. VersionsSound'
  BY DEF IInv, TypeOK, VersionsSound, Version, Crash, disk
<1>5. DatasetsDone'
  BY DEF IInv, DatasetsDone, Crash
<1>6. IndexesDone'
  BY DEF IInv, IndexesDone, Crash
<1>7. QED
  BY <1>1, <1>2, <1>3, <1>4, <1>5, <1>6 DEF IInv

LEMMA StartStep ==
  ASSUME IInv, NEW m \in Manifests \cup {Null}, Start(m)
  PROVE  IInv'
<1>1. TypeOK'
  BY DEF IInv, TypeOK, Stage, Start, Existing, import
<1>2. LoadState'
  BY DEF IInv, LoadState, Loading, Start, import
<1>3. IndexSound'
  BY DEF IInv, IndexSound, FullTextIndexEnabled, Start
<1>4. VersionsSound'
  BY DEF IInv, VersionsSound, Start
<1>5. DatasetsDone'
  BY DEF IInv, DatasetsDone, Imported, Complete, Start
<1>6. IndexesDone'
  BY DEF IInv, IndexesDone, Imported, Start
<1>7. QED
  BY <1>1, <1>2, <1>3, <1>4, <1>5, <1>6 DEF IInv

LEMMA SignStep ==
  ASSUME IInv, NEW d \in Dataset, Sign(d)
  PROVE  IInv'
<1>1. TypeOK'
  BY DEF IInv, TypeOK, Sign, disk, import
<1>2. LoadState'
  BY DEF IInv, LoadState, Sign, import
<1>3. IndexSound'
  BY DEF IInv, IndexSound, FullTextIndexEnabled, Sign, disk
<1>4. VersionsSound'
  BY DEF IInv, TypeOK, VersionsSound, Version, Sign, disk
<1>5. DatasetsDone'
  BY DEF IInv, DatasetsDone, Imported, Complete, Sign
<1>6. IndexesDone'
  BY DEF IInv, IndexesDone, Sign
<1>7. QED
  BY <1>1, <1>2, <1>3, <1>4, <1>5, <1>6 DEF IInv

LEMMA ReuseStep ==
  ASSUME IInv, NEW d \in Dataset, Reuse(d)
  PROVE  IInv'
<1>1. TypeOK'
  BY DEF IInv, TypeOK, Reuse, disk
<1>2. LoadState'
  BY DEF IInv, LoadState, Reuse
<1>3. IndexSound'
  BY DEF IInv, IndexSound, FullTextIndexEnabled, Deployed, Unchanged, Reuse,
     disk
<1>4. VersionsSound'
  BY DEF IInv, VersionsSound, Reuse, disk
<1>5. DatasetsDone'
  BY DEF IInv, DatasetsDone, Unchanged, Reuse, disk
<1>6. IndexesDone'
  BY DEF IInv, IndexesDone, Reuse
<1>7. QED
  BY <1>1, <1>2, <1>3, <1>4, <1>5, <1>6 DEF IInv

LEMMA OpenStep ==
  ASSUME IInv, NEW d \in Dataset, Open(d)
  PROVE  IInv'
<1>1. TypeOK'
  BY DEF IInv, TypeOK, Stage, Version, Open, disk
<1>2. LoadState'
  BY DEF IInv, LoadState, Loading, Open
<1>3. IndexSound'
  BY DEF IInv, LoadState, IndexSound, FullTextIndexEnabled, Deployed, Open,
     disk
<1>4. VersionsSound'
  BY DEF IInv, VersionsSound, Open, disk
<1>5. DatasetsDone'
  BY ManifestParts, DeploymentAssumption DEF IInv, TypeOK, LoadState,
     DatasetsDone, Imported, Complete, Unchanged, Open, disk
<1>6. IndexesDone'
  BY DEF IInv, IndexesDone, Open
<1>7. QED
  BY <1>1, <1>2, <1>3, <1>4, <1>5, <1>6 DEF IInv

LEMMA ConfigureEventStorageStep ==
  ASSUME IInv, ConfigureEventStorage
  PROVE  IInv'
<1>1. TypeOK'
  BY ManifestParts DEF IInv, TypeOK, LoadState, Loading, Stage, Unset,
     ConfigureEventStorage, disk
<1>2. LoadState'
  BY DEF IInv, LoadState, Loading, ConfigureEventStorage
<1>3. IndexSound'
  <2>1. manifest \in Manifests
    BY DEF IInv, LoadState, Loading, ConfigureEventStorage
  <2>2. ~StorageChanged => Deployed
    BY <2>1, NothingChanged
  <2>3. QED
    BY <2>2 DEF IInv, LoadState, IndexSound, FullTextIndexEnabled, Deployed,
       Unchanged, ConfigureEventStorage, Unset, disk
<1>4. VersionsSound'
  BY DEF IInv, VersionsSound, ConfigureEventStorage, disk
<1>5. DatasetsDone'
  BY DEF IInv, DatasetsDone, Imported, Complete, ConfigureEventStorage
<1>6. IndexesDone'
  BY DEF IInv, IndexesDone, ConfigureEventStorage
<1>7. QED
  BY <1>1, <1>2, <1>3, <1>4, <1>5, <1>6 DEF IInv

LEMMA DropIndexStep ==
  ASSUME IInv, NEW i \in indexes, DropIndex(i)
  PROVE  IInv'
<1>1. TypeOK'
  BY DEF IInv, TypeOK, DropIndex, import
<1>2. LoadState'
  BY DEF IInv, LoadState, DropIndex, import
<1>3. IndexSound'
  BY DEF IInv, IndexSound, FullTextIndexEnabled, DropIndex
<1>4. VersionsSound'
  BY DEF IInv, VersionsSound, DropIndex
<1>5. DatasetsDone'
  BY DEF IInv, DatasetsDone, Imported, DropIndex
<1>6. IndexesDone'
  BY DEF IInv, IndexesDone, DropIndex
<1>7. QED
  BY <1>1, <1>2, <1>3, <1>4, <1>5, <1>6 DEF IInv

LEMMA DropEventIndexesStep ==
  ASSUME IInv, DropEventIndexes
  PROVE  IInv'
<1>1. TypeOK'
  BY DEF IInv, TypeOK, Stage, DropEventIndexes, Goto, disk, import
<1>2. LoadState'
  BY DEF IInv, LoadState, Loading, DropEventIndexes, Goto, import
<1>3. IndexSound'
  BY DEF IInv, IndexSound, FullTextIndexEnabled, DropEventIndexes, Goto, disk
<1>4. VersionsSound'
  BY DEF IInv, VersionsSound, DropEventIndexes, Goto, disk
<1>5. DatasetsDone'
  BY DEF IInv, DatasetsDone, Imported, Complete, DropEventIndexes, Goto
<1>6. IndexesDone'
  BY DEF IInv, IndexesDone, DropEventIndexes, Goto
<1>7. QED
  BY <1>1, <1>2, <1>3, <1>4, <1>5, <1>6 DEF IInv

LEMMA DropFullTextIndexStep ==
  ASSUME IInv, DropFullTextIndex
  PROVE  IInv'
<1>1. TypeOK'
  BY DEF IInv, TypeOK, Stage, DropFullTextIndex, DropFullTextIndexTo, Goto,
     import
<1>2. LoadState'
  BY DEF IInv, TypeOK, LoadState, Loading, DropFullTextIndex,
     DropFullTextIndexTo, Goto, import
<1>3. IndexSound'
  BY DEF IInv, LoadState, IndexSound, FullTextIndexEnabled, DropFullTextIndex,
     DropFullTextIndexTo
<1>4. VersionsSound'
  BY DEF IInv, VersionsSound, DropFullTextIndex, DropFullTextIndexTo, Goto
<1>5. DatasetsDone'
  BY DEF IInv, LoadState, Loading, DatasetsDone, Imported, Complete, Unchanged,
     Existing, DropFullTextIndex, DropFullTextIndexTo, Goto, import
<1>6. IndexesDone'
  BY DEF IInv, IndexesDone, DropFullTextIndex, DropFullTextIndexTo, Goto
<1>7. QED
  BY <1>1, <1>2, <1>3, <1>4, <1>5, <1>6 DEF IInv

LEMMA ImportStep ==
  ASSUME IInv, Import
  PROVE  IInv'
<1>1. TypeOK'
  BY DEF IInv, TypeOK, LoadState, Stage, Row, Import, ImportSigned, Outdated
<1>2. LoadState'
  BY DEF IInv, LoadState, Loading, Import, ImportSigned
<1>3. IndexSound'
  BY DEF IInv, IndexSound, FullTextIndexEnabled, Import, ImportSigned, Outdated
<1>4. VersionsSound'
  BY DEF IInv, VersionsSound, Import, ImportSigned
<1>5. DatasetsDone'
  <2>1. reading \in Dataset /\ signed[reading] \in Version /\ seen \subseteq Version
    BY ManifestParts DEF IInv, TypeOK, LoadState, Loading, Import, ImportSigned
  <2>2. PICK r \in Dataset : r = reading
    BY <2>1
  <2>3. [signature |-> signed[r], content |-> seen] \in Row
    BY <2>1, <2>2 DEF Row
  <2>4. Unchanged(r)'
    BY <2>2, <2>3, DeploymentAssumption DEF IInv, TypeOK, Import, ImportSigned,
       Unchanged
  <2>5. \A d \in Dataset \ {r} : Unchanged(d) => Unchanged(d)'
    BY <2>2 DEF IInv, Import, ImportSigned, Unchanged
  <2>6. QED
    BY <2>2, <2>4, <2>5, ManifestParts DEF IInv, TypeOK, DatasetsDone,
       Imported, Complete, Import, ImportSigned
<1>6. IndexesDone'
  BY DEF IInv, IndexesDone, Import, ImportSigned
<1>7. QED
  BY <1>1, <1>2, <1>3, <1>4, <1>5, <1>6 DEF IInv

LEMMA EndImportsStep ==
  ASSUME IInv, EndImports
  PROVE  IInv'
<1>1. TypeOK'
  BY DEF IInv, TypeOK, Stage, EndImports, Goto, disk, import
<1>2. LoadState'
  BY DEF IInv, LoadState, Loading, EndImports, Goto, import
<1>3. IndexSound'
  BY DEF IInv, IndexSound, FullTextIndexEnabled, Deployed, Unchanged,
     EndImports, Goto, disk
<1>4. VersionsSound'
  BY DEF IInv, VersionsSound, EndImports, Goto, disk
<1>5. DatasetsDone'
  BY ManifestParts, DeploymentAssumption DEF IInv, TypeOK, LoadState,
     DatasetsDone, Complete, Unchanged, EndImports, Goto, disk
<1>6. IndexesDone'
  BY DEF IInv, IndexesDone, EndImports, Goto
<1>7. QED
  BY <1>1, <1>2, <1>3, <1>4, <1>5, <1>6 DEF IInv

LEMMA DeleteDatasetsExceptStep ==
  ASSUME IInv, DeleteDatasetsExcept
  PROVE  IInv'
<1>1. TypeOK'
  BY DEF IInv, TypeOK, Stage, DeleteDatasetsExcept, Goto, Outdated, import
<1>2. LoadState'
  BY DEF IInv, LoadState, Loading, DeleteDatasetsExcept, Goto, import
<1>3. IndexSound'
  BY DEF IInv, IndexSound, FullTextIndexEnabled, Deployed,
     DeleteDatasetsExcept, Goto, Existing, Outdated
<1>4. VersionsSound'
  BY DEF IInv, VersionsSound, DeleteDatasetsExcept, Goto
<1>5. DatasetsDone'
  BY ManifestParts DEF IInv, TypeOK, DatasetsDone, Imported, Unchanged,
     Existing, DeleteDatasetsExcept, Goto
<1>6. IndexesDone'
  BY DEF IInv, IndexesDone, Imported, DeleteDatasetsExcept, Goto
<1>7. QED
  BY <1>1, <1>2, <1>3, <1>4, <1>5, <1>6 DEF IInv

LEMMA CreateOrdinaryEventIndexesStep ==
  ASSUME IInv, CreateOrdinaryEventIndexes
  PROVE  IInv'
<1>1. TypeOK'
  BY DEF IInv, TypeOK, Stage, CreateOrdinaryEventIndexes, Goto, import
<1>2. LoadState'
  BY DEF IInv, LoadState, Loading, CreateOrdinaryEventIndexes, Goto, import
<1>3. IndexSound'
  BY DEF IInv, IndexSound, FullTextIndexEnabled, CreateOrdinaryEventIndexes,
     Goto
<1>4. VersionsSound'
  BY DEF IInv, VersionsSound, CreateOrdinaryEventIndexes, Goto
<1>5. DatasetsDone'
  BY DEF IInv, DatasetsDone, Imported, Complete, Unchanged,
     CreateOrdinaryEventIndexes, Goto
<1>6. IndexesDone'
  BY DEF IInv, IndexesDone, Imported, CreateOrdinaryEventIndexes, Goto
<1>7. QED
  BY <1>1, <1>2, <1>3, <1>4, <1>5, <1>6 DEF IInv

LEMMA ReconcileExpressionIndexesStep ==
  ASSUME IInv, ReconcileExpressionIndexes
  PROVE  IInv'
<1>1. TypeOK'
  BY ManifestParts DEF IInv, TypeOK, LoadState, Loading, Stage,
     ReconcileExpressionIndexes, ReconcileKeeping, Goto, import
<1>2. LoadState'
  BY DEF IInv, LoadState, Loading, ReconcileExpressionIndexes,
     ReconcileKeeping, Goto, import
<1>3. IndexSound'
  BY DEF IInv, IndexSound, FullTextIndexEnabled, ReconcileExpressionIndexes,
     ReconcileKeeping, Goto
<1>4. VersionsSound'
  BY DEF IInv, VersionsSound, ReconcileExpressionIndexes, ReconcileKeeping,
     Goto
<1>5. DatasetsDone'
  BY DEF IInv, DatasetsDone, Imported, Complete, Unchanged,
     ReconcileExpressionIndexes, ReconcileKeeping, Goto
<1>6. IndexesDone'
  BY DEF IInv, IndexesDone, Imported, ReconcileExpressionIndexes,
     ReconcileKeeping, Goto
<1>7. QED
  BY <1>1, <1>2, <1>3, <1>4, <1>5, <1>6 DEF IInv

LEMMA SyncFullTextIndexStep ==
  ASSUME IInv, SyncFullTextIndex
  PROVE  IInv'
<1>1. TypeOK'
  BY DEF IInv, TypeOK, Stage, SyncFullTextIndex, Sync, Goto, import
<1>2. LoadState'
  BY DEF IInv, LoadState, Loading, SyncFullTextIndex, Sync, Goto, import
<1>3. IndexSound'
  BY DEF IInv, TypeOK, IndexSound, FullTextIndexEnabled, SyncFullTextIndex,
     Sync, Goto
<1>4. VersionsSound'
  BY DEF IInv, VersionsSound, SyncFullTextIndex, Sync, Goto
<1>5. DatasetsDone'
  BY DEF IInv, DatasetsDone, Imported, Complete, Unchanged, SyncFullTextIndex,
     Sync, Goto
<1>6. IndexesDone'
  BY DEF IInv, TypeOK, IndexesDone, Imported, FullTextIndexEnabled,
     SyncFullTextIndex, Sync
<1>7. QED
  BY <1>1, <1>2, <1>3, <1>4, <1>5, <1>6 DEF IInv

LEMMA ConfigureChallengeStep ==
  ASSUME IInv, ConfigureChallenge
  PROVE  IInv'
<1>1. TypeOK'
  BY DEF IInv, TypeOK, Stage, ConfigureChallenge, Goto, disk, import
<1>2. LoadState'
  BY DEF IInv, LoadState, Loading, ConfigureChallenge, Goto, import
<1>3. IndexSound'
  BY DEF IInv, IndexSound, FullTextIndexEnabled, ConfigureChallenge, Goto, disk
<1>4. VersionsSound'
  BY DEF IInv, VersionsSound, ConfigureChallenge, Goto, disk
<1>5. DatasetsDone'
  BY DEF IInv, DatasetsDone, Imported, Complete, Unchanged, ConfigureChallenge,
     Goto, disk
<1>6. IndexesDone'
  BY DEF IInv, IndexesDone, Imported, FullTextIndexEnabled, ConfigureChallenge,
     disk
<1>7. QED
  BY <1>1, <1>2, <1>3, <1>4, <1>5, <1>6 DEF IInv

LEMMA LoadFailsStep ==
  ASSUME IInv, LoadFails
  PROVE  IInv'
<1>1. TypeOK'
  BY DEF IInv, TypeOK, Stage, LoadFails, Fail, disk
<1>2. LoadState'
  BY DEF IInv, LoadState, Loading, LoadFails, Fail
<1>3. IndexSound'
  BY DEF IInv, IndexSound, FullTextIndexEnabled, LoadFails, Fail, disk
<1>4. VersionsSound'
  BY DEF IInv, VersionsSound, LoadFails, Fail, disk
<1>5. DatasetsDone'
  BY DEF IInv, DatasetsDone, Imported, Complete, LoadFails, Fail
<1>6. IndexesDone'
  BY DEF IInv, IndexesDone, Imported, LoadFails, Fail
<1>7. QED
  BY <1>1, <1>2, <1>3, <1>4, <1>5, <1>6 DEF IInv

LEMMA RestoreIndexesStep ==
  ASSUME IInv, RestoreIndexes
  PROVE  IInv'
<1>1. TypeOK'
  BY ManifestParts DEF IInv, TypeOK, LoadState, Loading, Stage, RestoreIndexes,
     Goto, import
<1>2. LoadState'
  BY DEF IInv, LoadState, Loading, RestoreIndexes, Goto, import
<1>3. IndexSound'
  BY DEF IInv, IndexSound, FullTextIndexEnabled, RestoreIndexes, Goto
<1>4. VersionsSound'
  BY DEF IInv, VersionsSound, RestoreIndexes, Goto
<1>5. DatasetsDone'
  BY DEF IInv, DatasetsDone, Imported, Complete, RestoreIndexes, Goto
<1>6. IndexesDone'
  BY DEF IInv, IndexesDone, Imported, RestoreIndexes, Goto
<1>7. QED
  BY <1>1, <1>2, <1>3, <1>4, <1>5, <1>6 DEF IInv

LEMMA RestoreFullTextIndexStep ==
  ASSUME IInv, RestoreFullTextIndex
  PROVE  IInv'
<1>1. TypeOK'
  BY DEF IInv, TypeOK, Stage, RestoreFullTextIndex, Sync, Goto, import
<1>2. LoadState'
  BY DEF IInv, LoadState, Loading, RestoreFullTextIndex, Sync, Goto, import
<1>3. IndexSound'
  BY DEF IInv, TypeOK, IndexSound, FullTextIndexEnabled, RestoreFullTextIndex,
     Sync, Goto
<1>4. VersionsSound'
  BY DEF IInv, VersionsSound, RestoreFullTextIndex, Sync, Goto
<1>5. DatasetsDone'
  BY DEF IInv, DatasetsDone, Imported, Complete, RestoreFullTextIndex, Sync,
     Goto
<1>6. IndexesDone'
  BY DEF IInv, IndexesDone, Imported, RestoreFullTextIndex, Sync, Goto
<1>7. QED
  BY <1>1, <1>2, <1>3, <1>4, <1>5, <1>6 DEF IInv

LEMMA RefreshCatalogStep ==
  ASSUME IInv, RefreshCatalog
  PROVE  IInv'
<1>1. TypeOK'
  BY DEF IInv, TypeOK, Stage, RefreshCatalog, Goto, Existing, disk, import
<1>2. LoadState'
  BY DEF IInv, LoadState, Loading, RefreshCatalog, Goto, import
<1>3. IndexSound'
  BY DEF IInv, IndexSound, FullTextIndexEnabled, RefreshCatalog, Goto, disk
<1>4. VersionsSound'
  BY DEF IInv, VersionsSound, RefreshCatalog, Goto, disk
<1>5. DatasetsDone'
  BY DEF IInv, DatasetsDone, Imported, Complete, Unchanged, Existing,
     RefreshCatalog, disk
<1>6. IndexesDone'
  BY DEF IInv, IndexesDone, Imported, FullTextIndexEnabled, RefreshCatalog,
     disk
<1>7. QED
  BY <1>1, <1>2, <1>3, <1>4, <1>5, <1>6 DEF IInv

LEMMA PublishFailsStep ==
  ASSUME IInv, PublishFails
  PROVE  IInv'
<1>1. TypeOK'
  BY DEF IInv, TypeOK, Stage, PublishFails, Goto, disk, import
<1>2. LoadState'
  BY DEF IInv, LoadState, Loading, PublishFails, Goto, import
<1>3. IndexSound'
  BY DEF IInv, IndexSound, FullTextIndexEnabled, PublishFails, Goto, disk
<1>4. VersionsSound'
  BY DEF IInv, VersionsSound, PublishFails, Goto, disk
<1>5. DatasetsDone'
  BY DEF IInv, DatasetsDone, Imported, Complete, PublishFails, Goto
<1>6. IndexesDone'
  BY DEF IInv, IndexesDone, Imported, PublishFails, Goto
<1>7. QED
  BY <1>1, <1>2, <1>3, <1>4, <1>5, <1>6 DEF IInv

LEMMA NextIInv == IInv /\ [Next]_vars => IInv'
<1> SUFFICES ASSUME IInv, [Next]_vars PROVE IInv'
  OBVIOUS
<1>1. ASSUME NEW d \in Dataset, Edit(d) PROVE IInv'
  BY <1>1, EditStep
<1>2. ASSUME Crash PROVE IInv'
  BY <1>2, CrashStep
<1>3. ASSUME NEW m \in Manifests \cup {Null}, Start(m) PROVE IInv'
  BY <1>3, StartStep
<1>4. ASSUME NEW d \in Dataset, Sign(d) PROVE IInv'
  BY <1>4, SignStep
<1>5. ASSUME NEW d \in Dataset, Reuse(d) PROVE IInv'
  BY <1>5, ReuseStep
<1>6. ASSUME NEW d \in Dataset, Open(d) PROVE IInv'
  BY <1>6, OpenStep
<1>7. ASSUME ConfigureEventStorage PROVE IInv'
  BY <1>7, ConfigureEventStorageStep
<1>8. ASSUME NEW i \in indexes, DropIndex(i) PROVE IInv'
  BY <1>8, DropIndexStep
<1>9. ASSUME DropEventIndexes PROVE IInv'
  BY <1>9, DropEventIndexesStep
<1>10. ASSUME DropFullTextIndex PROVE IInv'
  BY <1>10, DropFullTextIndexStep
<1>11. ASSUME Import PROVE IInv'
  BY <1>11, ImportStep
<1>12. ASSUME EndImports PROVE IInv'
  BY <1>12, EndImportsStep
<1>13. ASSUME DeleteDatasetsExcept PROVE IInv'
  BY <1>13, DeleteDatasetsExceptStep
<1>14. ASSUME CreateOrdinaryEventIndexes PROVE IInv'
  BY <1>14, CreateOrdinaryEventIndexesStep
<1>15. ASSUME ReconcileExpressionIndexes PROVE IInv'
  BY <1>15, ReconcileExpressionIndexesStep
<1>16. ASSUME SyncFullTextIndex PROVE IInv'
  BY <1>16, SyncFullTextIndexStep
<1>17. ASSUME ConfigureChallenge PROVE IInv'
  BY <1>17, ConfigureChallengeStep
<1>18. ASSUME LoadFails PROVE IInv'
  BY <1>18, LoadFailsStep
<1>19. ASSUME RestoreIndexes PROVE IInv'
  BY <1>19, RestoreIndexesStep
<1>20. ASSUME RestoreFullTextIndex PROVE IInv'
  BY <1>20, RestoreFullTextIndexStep
<1>21. ASSUME RefreshCatalog PROVE IInv'
  BY <1>21, RefreshCatalogStep
<1>22. ASSUME PublishFails PROVE IInv'
  BY <1>22, PublishFailsStep
<1>23. CASE UNCHANGED vars
  BY <1>23 DEF vars, disk, import, IInv, TypeOK, LoadState, IndexSound,
     Deployed, FullTextIndexEnabled, VersionsSound, DatasetsDone, IndexesDone,
     Unchanged, Existing
<1>24. QED
  BY <1>1, <1>2, <1>3, <1>4, <1>5, <1>6, <1>7, <1>8, <1>9, <1>10, <1>11, <1>12,
     <1>13, <1>14, <1>15, <1>16, <1>17, <1>18, <1>19, <1>20, <1>21, <1>22,
     <1>23 DEF Next, Load

-----------------------------------------------------------------------------
(* The theorems                                                            *)

(* However the process starts, fails and ends, the invariant holds.        *)
THEOREM DeploymentInductive == Spec => []IInv
BY InitIInv, NextIInv, PTL DEF Spec

(* The variables of the loader keep their types.                           *)
THEOREM TypeCorrect == Spec => []TypeOK
<1>1. IInv => TypeOK
  BY DEF IInv
<1>2. QED
  BY <1>1, DeploymentInductive, PTL

(* events_fts never misses an event: SyncFullTextIndex may take over what  *)
(* an earlier process left.                                                *)
THEOREM IndexNeverStale == Spec => []FullTextCurrent
<1>1. IInv => FullTextCurrent
  BY DEF IInv, IndexSound, FullTextCurrent
<1>2. QED
  BY <1>1, DeploymentInductive, PTL

(* What the next start keeps is what the file holds.                       *)
THEOREM KeptDatasetsCurrent == Spec => []KeptIsCurrent
<1>1. IInv => KeptIsCurrent
  BY DEF IInv, VersionsSound, KeptIsCurrent
<1>2. QED
  BY <1>1, DeploymentInductive, PTL

(* A deployment that is served is the one the manifest describes, whatever *)
(* the processes before it left behind.                                    *)
THEOREM ServedAsConfigured == Spec => []ReadyAsConfigured
<1>1. IInv => ReadyAsConfigured
  <2>1. SUFFICES ASSUME IInv, stage = "ready", manifest # Null
                 PROVE  /\ Existing = manifest.datasets
                        /\ \A d \in manifest.datasets :
                             stored[d].signature = signed[d]
    BY DEF IInv, DatasetsDone, IndexesDone, ReadyAsConfigured
  <2>2. manifest \in Manifests
    BY <2>1 DEF IInv, TypeOK
  <2>3. QED
    BY <2>1, <2>2, ManifestParts DEF IInv, DatasetsDone, Imported, Complete,
       Unchanged, Existing
<1>2. QED
  BY <1>1, DeploymentInductive, PTL

(* Events come and go only while they have no derived structures: the one  *)
(* full-text index there may be is dropped before the first event changes, *)
(* in the same process. That is what lets the next process take over the   *)
(* index that it finds.                                                    *)
EventsChangeUnindexed == stored' = stored \/ (dropped /\ fts = "absent")

THEOREM NoEventBehindTheIndex == Spec => [][EventsChangeUnindexed]_vars
<1>1. IInv /\ [Next]_vars => EventsChangeUnindexed
  <2> SUFFICES ASSUME IInv, [Next]_vars PROVE EventsChangeUnindexed
    OBVIOUS
  <2>1. CASE Import
    BY <2>1 DEF IInv, IndexSound, EventsChangeUnindexed, Import, ImportSigned
  <2>2. CASE DeleteDatasetsExcept
    <3>1. CASE dropped
      BY <2>2, <3>1 DEF IInv, IndexSound, EventsChangeUnindexed,
                        DeleteDatasetsExcept
    <3>2. CASE ~dropped
      <4>1. \A d \in Dataset : stored[d] # Null => d \in manifest.datasets
        BY <2>2, <3>2 DEF IInv, IndexSound, Deployed, DeleteDatasetsExcept
      <4>2. stored' = [d \in Dataset |-> stored[d]]
        BY <2>2, <4>1 DEF DeleteDatasetsExcept, Existing
      <4> QED
        BY <4>2 DEF IInv, TypeOK, EventsChangeUnindexed
    <3> QED
      BY <3>1, <3>2 DEF IInv, TypeOK
  <2>3. CASE ~Import /\ ~DeleteDatasetsExcept
    <3>1. stored' = stored
      BY <2>3 DEF Next, Load, Edit, Crash, Start, Sign, Reuse, Open,
         ConfigureEventStorage, DropIndex, DropEventIndexes,
         DropFullTextIndex, DropFullTextIndexTo, EndImports,
         CreateOrdinaryEventIndexes, ReconcileExpressionIndexes,
         ReconcileKeeping, SyncFullTextIndex, ConfigureChallenge, LoadFails,
         RestoreIndexes, RestoreFullTextIndex, RefreshCatalog, PublishFails,
         disk, vars
    <3> QED
      BY <3>1 DEF EventsChangeUnindexed
  <2> QED
    BY <2>1, <2>2, <2>3
<1> QED
  BY DeploymentInductive, <1>1, PTL DEF Spec

=============================================================================
