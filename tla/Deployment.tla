----------------------------- MODULE Deployment -----------------------------
(***************************************************************************)
(* Starting the server with a deployment: main of cmd/striem/main.go, Load *)
(* of internal/deployment/loader.go and the storage operations of          *)
(* internal/database/database.go that Load calls. The datasets, the        *)
(* indexes of the events and the full-text index survive the process; what *)
(* Load decides on and what the store remembers of the full-text index do  *)
(* not. Until Load is over signals are not caught, so that any way to stop *)
(* the process is a crash, between any two statements.                     *)
(*                                                                         *)
(* A dataset's file is its version. Changing its entry in the manifest     *)
(* changes its signature as editing its file does, and is an edit here.    *)
(* The full-text index is contentless and keyed by rowid: as soon as the   *)
(* events change it is stale.                                              *)
(***************************************************************************)
EXTENDS Integers, FiniteSets

CONSTANTS
  Dataset,    (* dataset names                                              *)
  Path,       (* paths that can be indexed                                  *)
  Ordinary,   (* the indexes of createOrdinaryEventIndexes                  *)
  Manifests,  (* the manifests that may be deployed, see Manifest           *)
  Null,       (* no dataset, no manifest                                    *)
  MaxVersion  (* bound: the versions of a file                              *)

Manifest == [datasets : SUBSET Dataset \ {{}},
             paths    : SUBSET Path,     (* the union of their indexedPaths *)
             fullText : BOOLEAN]         (* fullTextIndex                   *)

Version == 1..MaxVersion

(* A row of datasets: its input_signature and the versions its events were *)
(* read from, more than one if the file was edited meanwhile.              *)
Row == [signature : Version, content : SUBSET Version]

ASSUME DeploymentAssumption ==
  /\ IsFiniteSet(Dataset)
  /\ Ordinary \notin Path
  /\ Null \notin Dataset /\ Null \notin Row
  /\ Manifests \subseteq Manifest /\ Null \notin Manifests
  /\ MaxVersion \in Nat \ {0}

VARIABLES
  files,     (* the version of each dataset's file                          *)
  stored,    (* the row of datasets, with its events, of each name          *)
  indexes,   (* the indexes of the table events                             *)
  fts,       (* events_fts: "absent", "current" or "stale"                  *)
  stage,     (* where the process is                                        *)
  manifest,  (* the manifest it has read                                    *)
  signed,    (* the signatures of prepared, 0 before there is one           *)
  todo,      (* the datasets the import loop has not come to                *)
  reading,   (* the dataset being imported                                  *)
  seen,      (* the versions of its file that were read                     *)
  dropped,   (* derivedDropped                                              *)
  fullText,  (* fullTextIndex, fullTextReady and fullTextDirty              *)
  catalog    (* the datasets of the server's tableCatalog                   *)

disk   == <<stored, indexes, fts>>
import == <<todo, reading, seen>>
vars == <<files, disk, stage, manifest, signed, import, dropped, fullText,
          catalog>>

Stage == {"down",         (* no process                                     *)
          "signing",      (* up to ConfigureEventStorage                    *)
          "dropping",     (* DropEventIndexes                               *)
          "dropped",      (* DropFullTextIndex                              *)
          "importing",    (* the loop over prepared                         *)
          "reading",      (* in Import                                      *)
          "deleting",     (* DeleteDatasetsExcept                           *)
          "indexing",     (* CreateEventIndexes                             *)
          "reconciling",  (* its transaction                                *)
          "syncing",      (* SyncFullTextIndex                              *)
          "configuring",  (* SetChallengeName and ConfigureChallenge        *)
          "restoring",    (* CreateEventIndexes of the deferred function    *)
          "resyncing",    (* SyncFullTextIndex of the deferred function     *)
          "publishing",   (* PRAGMA optimize and RefreshCatalog             *)
          "ready",        (* serving                                        *)
          "failed"}       (* SetStartupError                                *)

Unset == [configured |-> FALSE, ready |-> FALSE, dirty |-> FALSE]

Existing == {d \in Dataset : stored[d] # Null}

Init ==
  /\ files = [d \in Dataset |-> 1]
  /\ stored = [d \in Dataset |-> Null]
  /\ indexes = {}
  /\ fts = "absent"
  /\ stage = "down"
  /\ manifest = Null
  /\ signed = [d \in Dataset |-> 0]
  /\ todo = {} /\ reading = Null /\ seen = {}
  /\ dropped = FALSE
  /\ fullText = Unset
  /\ catalog = {}

-----------------------------------------------------------------------------
(* The world                                                               *)

(* A file is edited, perhaps while it is read: what is read then may mix   *)
(* the versions.                                                           *)
Edit(d) ==
  /\ files[d] < MaxVersion
  /\ files' = [files EXCEPT ![d] = @ + 1]
  /\ seen' \in IF reading = d THEN {seen, seen \cup {files[d] + 1}} ELSE {seen}
  /\ UNCHANGED <<disk, stage, manifest, signed, todo, reading, dropped,
                 fullText, catalog>>

(* The process ends, and with it everything it remembers. SQLite rolls the *)
(* transaction of an import back.                                          *)
Crash ==
  /\ stage # "down"
  /\ stage' = "down"
  /\ manifest' = Null
  /\ signed' = [d \in Dataset |-> 0]
  /\ todo' = {} /\ reading' = Null /\ seen' = {}
  /\ dropped' = FALSE
  /\ fullText' = Unset
  /\ catalog' = {}
  /\ UNCHANGED <<files, disk>>

(* main up to Load: the database is opened, which creates the ordinary     *)
(* indexes, and New builds a first catalog. Without STRIEM_CONFIG there is *)
(* nothing to load.                                                        *)
Start(m) ==
  /\ stage = "down"
  /\ stage' = IF m = Null THEN "publishing" ELSE "signing"
  /\ manifest' = m
  /\ indexes' = indexes \cup {Ordinary}
  /\ catalog' = Existing
  /\ UNCHANGED <<files, stored, fts, signed, import, dropped, fullText>>

-----------------------------------------------------------------------------
(* Load                                                                    *)

(* Load returns an error: main reports it and stays up. The deferred       *)
(* function comes first when the derived structures were dropped.          *)
Fail ==
  /\ stage' = IF dropped THEN "restoring" ELSE "failed"
  /\ todo' = {} /\ reading' = Null /\ seen' = {}

Goto(next) == stage' = next /\ UNCHANGED import

(* The signature of a dataset is made of its entry and the size and the    *)
(* modification time of its file.                                          *)
Sign(d) ==
  /\ stage = "signing"
  /\ d \in manifest.datasets
  /\ signed[d] = 0
  /\ signed' = [signed EXCEPT ![d] = files[d]]
  /\ UNCHANGED <<files, disk, stage, manifest, import, dropped, fullText,
                 catalog>>

Unchanged(d) == stored[d] # Null /\ stored[d].signature = signed[d]

StorageChanged ==
  \/ Cardinality(Existing) # Cardinality(manifest.datasets)
  \/ \E d \in manifest.datasets : ~Unchanged(d)

(* ConfigureEventStorage, ListDatasets and storageChanged.                 *)
ConfigureEventStorage ==
  /\ stage = "signing"
  /\ \A d \in manifest.datasets : signed[d] # 0
  /\ fullText' = [Unset EXCEPT !.configured = manifest.fullText]
  /\ stage' = IF StorageChanged THEN "dropping" ELSE "importing"
  /\ todo' = manifest.datasets
  /\ UNCHANGED <<files, disk, manifest, signed, reading, seen, dropped, catalog>>

(* DropEventIndexes runs its statements one after the other, outside of a  *)
(* transaction.                                                            *)
DropIndex(i) ==
  /\ stage = "dropping"
  /\ indexes' = indexes \ {i}
  /\ UNCHANGED <<files, stored, fts, stage, manifest, signed, import, dropped,
                 fullText, catalog>>

DropEventIndexes ==
  /\ stage = "dropping"
  /\ indexes = {}
  /\ dropped' = TRUE
  /\ Goto("dropped")
  /\ UNCHANGED <<files, disk, manifest, signed, fullText, catalog>>

DropFullTextIndexTo(remaining) ==
  /\ stage = "dropped"
  /\ fts' = remaining
  /\ fullText' = [fullText EXCEPT !.ready = FALSE]
  /\ Goto("importing")
  /\ UNCHANGED <<files, stored, indexes, manifest, signed, dropped, catalog>>

(* Mutant: the full-text index is left to the rebuild after the imports.   *)
KeepFullTextIndex == DropFullTextIndexTo(fts)

DropFullTextIndex == DropFullTextIndexTo("absent")

(* The loop, whose order is that of the manifest and does not matter here. *)
Reuse(d) ==
  /\ stage = "importing"
  /\ d \in todo
  /\ Unchanged(d)
  /\ todo' = todo \ {d}
  /\ UNCHANGED <<files, disk, stage, manifest, signed, reading, seen, dropped,
                 fullText, catalog>>

(* The file is opened and Import called, which marks the index dirty.      *)
Open(d) ==
  /\ stage = "importing"
  /\ d \in todo
  /\ ~Unchanged(d)
  /\ stage' = "reading"
  /\ todo' = todo \ {d}
  /\ reading' = d
  /\ seen' = {files[d]}
  /\ fullText' = IF fullText.configured
                   THEN [fullText EXCEPT !.ready = FALSE, !.dirty = TRUE]
                   ELSE fullText
  /\ UNCHANGED <<files, disk, manifest, signed, dropped, catalog>>

(* What becomes of the full-text index when events come or go.             *)
Outdated == IF fts = "absent" THEN "absent" ELSE "stale"

ImportSigned(signature) ==
  /\ stage = "reading"
  /\ stored' = [stored EXCEPT ![reading] = [signature |-> signature,
                                            content   |-> seen]]
  /\ fts' = Outdated
  /\ stage' = "importing"
  /\ reading' = Null /\ seen' = {}
  /\ UNCHANGED <<files, indexes, manifest, signed, todo, dropped, fullText,
                 catalog>>

(* Mutant: the file is signed when it has been read.                       *)
ImportSignedLate == ImportSigned(files[reading])

(* Mutant: the mapping does not carry the signature.                       *)
ImportUnsigned == ImportSigned(0)

(* The transaction of Import, which replaces the dataset of that name.     *)
Import == ImportSigned(signed[reading])

EndImports ==
  /\ stage = "importing"
  /\ todo = {}
  /\ Goto("deleting")
  /\ UNCHANGED <<files, disk, manifest, signed, dropped, fullText, catalog>>

DeleteDatasetsExcept ==
  LET extra == Existing \ manifest.datasets IN
  /\ stage = "deleting"
  /\ stored' = [d \in Dataset |-> IF d \in extra THEN Null ELSE stored[d]]
  /\ fts' = IF extra = {} THEN fts ELSE Outdated
  /\ Goto("indexing")
  /\ UNCHANGED <<files, indexes, manifest, signed, dropped, fullText, catalog>>

(* CreateEventIndexes: the ordinary indexes one after the other, then a    *)
(* transaction that makes the expression indexes those configured.         *)
CreateOrdinaryEventIndexes ==
  /\ stage = "indexing"
  /\ indexes' = indexes \cup {Ordinary}
  /\ Goto("reconciling")
  /\ UNCHANGED <<files, stored, fts, manifest, signed, dropped, fullText, catalog>>

ReconcileKeeping(kept) ==
  /\ stage = "reconciling"
  /\ indexes' = (indexes \cap kept) \cup manifest.paths
  /\ Goto("syncing")
  /\ UNCHANGED <<files, stored, fts, manifest, signed, dropped, fullText, catalog>>

(* Mutant: indexes are created, none is dropped.                           *)
CreateExpressionIndexes == ReconcileKeeping({Ordinary} \cup Path)

ReconcileExpressionIndexes == ReconcileKeeping({Ordinary})

(* SyncFullTextIndex: dropped unless configured; otherwise the index of an *)
(* earlier process is taken over, or one built in a transaction.           *)
Sync(rebuild) ==
  LET trusted == ~rebuild /\ ~fullText.dirty IN
  \/ /\ ~fullText.configured
     /\ fts' = "absent"
     /\ fullText' = [fullText EXCEPT !.ready = FALSE]
  \/ /\ fullText.configured
     /\ trusted /\ fts # "absent"
     /\ fullText' = [fullText EXCEPT !.ready = TRUE]
     /\ UNCHANGED fts
  \/ /\ fullText.configured
     /\ ~(trusted /\ fts # "absent")
     /\ fts' = "current"
     /\ fullText' = [fullText EXCEPT !.ready = TRUE, !.dirty = FALSE]

SyncFullTextIndex ==
  /\ stage = "syncing"
  /\ Sync(dropped)
  /\ dropped' = FALSE
  /\ Goto("configuring")
  /\ UNCHANGED <<files, stored, indexes, manifest, signed, catalog>>

ConfigureChallenge ==
  /\ stage = "configuring"
  /\ Goto("publishing")
  /\ UNCHANGED <<files, disk, manifest, signed, dropped, fullText, catalog>>

(* Any statement of Load may fail, or a file, or the manifest.             *)
LoadFails ==
  /\ stage \in {"signing", "dropping", "dropped", "importing", "reading",
                "deleting", "indexing", "reconciling", "syncing",
                "configuring"}
  /\ Fail
  /\ UNCHANGED <<files, disk, manifest, signed, dropped, fullText, catalog>>

(* The deferred function: each part is tried, whether or not the one       *)
(* before it fails.                                                        *)
RestoreIndexes ==
  /\ stage = "restoring"
  /\ indexes' \in {indexes,
                   indexes \cup {Ordinary},
                   {Ordinary} \cup manifest.paths}
  /\ Goto("resyncing")
  /\ UNCHANGED <<files, stored, fts, manifest, signed, dropped, fullText, catalog>>

RestoreFullTextIndex ==
  /\ stage = "resyncing"
  /\ Sync(TRUE) \/ UNCHANGED <<fts, fullText>>
  /\ Goto("failed")
  /\ UNCHANGED <<files, stored, indexes, manifest, signed, dropped, catalog>>

-----------------------------------------------------------------------------
(* The end of main                                                         *)

(* RefreshCatalog, after which whenReady lets the requests pass.           *)
RefreshCatalog ==
  /\ stage = "publishing"
  /\ catalog' = Existing
  /\ Goto("ready")
  /\ UNCHANGED <<files, disk, manifest, signed, dropped, fullText>>

PublishFails ==
  /\ stage = "publishing"
  /\ Goto("failed")
  /\ UNCHANGED <<files, disk, manifest, signed, dropped, fullText, catalog>>

-----------------------------------------------------------------------------

Load ==
  \/ \E d \in Dataset : Sign(d) \/ Reuse(d) \/ Open(d)
  \/ ConfigureEventStorage
  \/ \E i \in indexes : DropIndex(i)
  \/ DropEventIndexes
  \/ DropFullTextIndex
  \/ Import
  \/ EndImports
  \/ DeleteDatasetsExcept
  \/ CreateOrdinaryEventIndexes
  \/ ReconcileExpressionIndexes
  \/ SyncFullTextIndex
  \/ ConfigureChallenge
  \/ LoadFails
  \/ RestoreIndexes
  \/ RestoreFullTextIndex

Next ==
  \/ \E d \in Dataset : Edit(d)
  \/ Crash
  \/ \E m \in Manifests \cup {Null} : Start(m)
  \/ Load
  \/ RefreshCatalog
  \/ PublishFails

Spec == Init /\ [][Next]_vars

-----------------------------------------------------------------------------
(* Properties                                                              *)

TypeOK ==
  /\ files \in [Dataset -> Version]
  /\ stored \in [Dataset -> Row \cup {Null}]
  /\ indexes \subseteq Path \cup {Ordinary}
  /\ fts \in {"absent", "current", "stale"}
  /\ stage \in Stage
  /\ manifest \in Manifests \cup {Null}
  /\ signed \in [Dataset -> Version \cup {0}]
  /\ todo \subseteq Dataset
  /\ reading \in Dataset \cup {Null}
  /\ seen \subseteq Version
  /\ dropped \in BOOLEAN
  /\ fullText \in [configured : BOOLEAN, ready : BOOLEAN, dirty : BOOLEAN]
  /\ catalog \subseteq Dataset

FullTextIndexEnabled == fullText.configured /\ fullText.ready

(* SyncFullTextIndex takes over whatever events_fts it finds when nothing  *)
(* has changed. It may: wherever a process ended before, the table is      *)
(* absent or covers the stored events. And the compiler, which asks        *)
(* FullTextIndexEnabled, never looks into one that is absent.              *)
FullTextCurrent ==
  /\ fts # "stale"
  /\ FullTextIndexEnabled => fts = "current"

(* A dataset whose signature still matches its file is kept at the next    *)
(* start. Its events are those of the file as it is then, even if it was   *)
(* edited between being signed and being read, or while it was read.       *)
KeptIsCurrent ==
  \A d \in Dataset :
    stored[d] # Null /\ stored[d].signature = files[d]
      => stored[d].content = {files[d]}

(* Whatever earlier processes left behind, a deployment that is served is  *)
(* the one the manifest describes: its datasets and no others, each with   *)
(* the signature it had when Load looked, the indexes it asks for, and the *)
(* full-text index if it asks for it.                                      *)
ReadyAsConfigured ==
  stage = "ready" /\ manifest # Null =>
    /\ Existing = manifest.datasets
    /\ catalog = manifest.datasets
    /\ \A d \in manifest.datasets : stored[d].signature = signed[d]
    /\ indexes = {Ordinary} \cup manifest.paths
    /\ FullTextIndexEnabled <=> manifest.fullText
    /\ fts = "absent" <=> ~manifest.fullText

=============================================================================
