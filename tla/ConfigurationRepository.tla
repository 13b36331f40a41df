----------------------- MODULE ConfigurationRepository ----------------------
(***************************************************************************)
(* The configuration on disk (crates/config/src/lib.rs): one immutable      *)
(* file per revision, written under a temporary name and renamed, the two   *)
(* newest ones kept, damaged ones set aside at the next launch, documents   *)
(* of schema 0 migrated.  The host (configuration.rs) keeps the accepted    *)
(* snapshot and holds its lock throughout a save.                           *)
(*                                                                          *)
(* The directory is a sequence of its successive contents: the first one is *)
(* on the medium, the last one is what the process sees, and a power loss   *)
(* leaves any one of them, because changes of a directory reach the medium  *)
(* in their order but later.  The contents of a file are there before its   *)
(* name (sync_all).                                                         *)
(***************************************************************************)
EXTENDS Integers, Sequences, FiniteSetsExt

CONSTANTS
  Configs,       \* valid configurations
  Default,       \* ApplicationConfiguration::default()
  Migrated,      \* what the documents of schema 0 migrate to
  NoConfig,
  Launches,      \* the directories a first launch may find
  MaxRevision,   \* bound: revisions
  MaxFaults      \* bound: crashes, failing calls and damaged files

\* What a file may hold besides a configuration: no file at all, bytes that
\* cannot be read, the document of a later schema, one of schema 0, and one of
\* schema 0 whose migration is not valid.
Unusable == {"corrupt", "newer"}
Contents == Configs \cup Unusable \cup {"absent", "legacy", "legacyInvalid"}
Revisions == 1..MaxRevision
Directories == [Revisions -> Contents]

ASSUME ConfigsAssumption ==
  /\ Default \in Configs /\ Migrated \in Configs
  /\ Configs \cap (Unusable \cup {"absent", "legacy", "legacyInvalid", NoConfig}) = {}
ASSUME BoundsAssumption == MaxRevision \in Nat \ {0} /\ MaxFaults \in Nat
ASSUME LaunchesAssumption == Launches \subseteq Directories

VARIABLES
  dirs,      \* the contents of the directory, from the medium's to the process's
  temps,     \* revisions with a temporary file
  pc,        \* where the process is
  task,      \* "load" or "save", whose publish runs
  candidates,\* revisions that load has still to read
  writing,   \* the snapshot that is being published
  snapshot,  \* ConfigurationState.snapshot
  answer,    \* the answer to the latest save
  leftover,  \* temporary files this process could not remove
  damaged,   \* the medium has lost something
  faults

disk == <<dirs, temps>>
process == <<pc, task, candidates, writing, snapshot, answer, leftover>>
vars == <<disk, process, damaged, faults>>

NoSnapshot == [revision |-> 0, config |-> NoConfig]
Directory == dirs[Len(dirs)]
Changed(dir) == dirs' = Append(dirs, dir)
Present(dir) == {r \in Revisions : dir[r] # "absent"}

\* Something the program cannot prevent.
Fault == faults < MaxFaults /\ faults' = faults + 1
Fine == faults' = faults

Init ==
  /\ \E dir \in Launches : dirs = <<dir>>
  /\ temps = {} /\ pc = "down" /\ task = "load" /\ candidates = {}
  /\ writing = NoSnapshot /\ snapshot = NoSnapshot /\ answer = "none"
  /\ leftover = {} /\ damaged = FALSE /\ faults = 0

\* The process is gone, with all it knew.
Gone ==
  /\ pc' = "down" /\ task' = "load" /\ candidates' = {}
  /\ writing' = NoSnapshot /\ snapshot' = NoSnapshot /\ answer' = "none"
  /\ leftover' = {}

-----------------------------------------------------------------------------
(* load                                                                     *)

\* Faulty: temporary files stay where they are.
LaunchAmongTemps ==
  /\ pc = "down"
  /\ pc' = "reading" /\ candidates' = Present(Directory)
  /\ Fine
  /\ UNCHANGED <<disk, task, writing, snapshot, answer, leftover, damaged>>
Launch ==
  /\ pc = "down"
  /\ temps' = {}
  /\ pc' = "reading" /\ candidates' = Present(Directory)
  /\ Fine
  /\ UNCHANGED <<dirs, task, writing, snapshot, answer, leftover, damaged>>

Newest == Max(candidates)

\* The application does not start.
LoadFails == Gone /\ UNCHANGED <<disk, damaged>>

BeginPublish(why, revision, config) ==
  /\ task' = why
  /\ writing' = [revision |-> revision + 1, config |-> config]
  /\ pc' = "creating"

LoadCurrent ==
  /\ pc = "reading" /\ candidates # {}
  /\ Directory[Newest] \in Configs
  /\ snapshot' = [revision |-> Newest, config |-> Directory[Newest]]
  /\ pc' = "ready" /\ candidates' = {}
  /\ Fine
  /\ UNCHANGED <<disk, task, writing, answer, leftover, damaged>>

LoadMigrates ==
  /\ pc = "reading" /\ candidates # {}
  /\ Directory[Newest] = "legacy"
  /\ Newest < MaxRevision
  /\ BeginPublish("load", Newest, Migrated)
  /\ candidates' = {}
  /\ Fine
  /\ UNCHANGED <<disk, snapshot, answer, leftover, damaged>>

\* publish validates what it is given, and load returns its error.
LoadRefusesMigration ==
  /\ pc = "reading" /\ candidates # {}
  /\ Directory[Newest] = "legacyInvalid"
  /\ LoadFails
  /\ Fine

\* A file that cannot be used, or not be read, is renamed out of the way.
Quarantine ==
  /\ pc = "reading" /\ candidates # {}
  /\ \/ Directory[Newest] \in Unusable /\ Fine /\ UNCHANGED damaged
     \/ Directory[Newest] \notin Unusable /\ Fault /\ damaged' = TRUE
  /\ Changed([Directory EXCEPT ![Newest] = "absent"])
  /\ candidates' = candidates \ {Newest}
  /\ UNCHANGED <<temps, pc, task, writing, snapshot, answer, leftover>>

QuarantineFails ==
  /\ pc = "reading" /\ candidates # {}
  /\ Directory[Newest] \in Unusable
  /\ LoadFails
  /\ Fault

LoadDefault ==
  /\ pc = "reading" /\ candidates = {}
  /\ BeginPublish("load", 0, Default)
  /\ Fine
  /\ UNCHANGED <<disk, candidates, snapshot, answer, leftover, damaged>>

-----------------------------------------------------------------------------
(* save and publish                                                         *)

\* A configuration that is not valid is refused without further ado.
Save(c) ==
  /\ pc = "ready"
  /\ snapshot.revision < MaxRevision
  /\ BeginPublish("save", snapshot.revision, c)
  /\ answer' = "none"
  /\ Fine
  /\ UNCHANGED <<disk, candidates, snapshot, leftover, damaged>>

\* publish has failed: load fails with it, save answers its caller.
PublishFails ==
  /\ UNCHANGED dirs
  /\ IF task = "load" THEN Gone
     ELSE /\ pc' = "ready" /\ answer' = "refused" /\ writing' = NoSnapshot
          /\ UNCHANGED <<task, candidates, snapshot>>

CreateTemporary ==
  /\ pc = "creating"
  /\ writing.revision \notin temps
  /\ temps' = temps \cup {writing.revision}
  /\ pc' = "writing"
  /\ Fine
  /\ UNCHANGED <<dirs, task, candidates, writing, snapshot, answer, leftover, damaged>>

\* The temporary file exists already, or cannot be created.
CreateFails ==
  /\ pc = "creating"
  /\ IF writing.revision \in temps THEN Fine ELSE Fault
  /\ PublishFails
  /\ IF task = "save" THEN UNCHANGED leftover ELSE TRUE
  /\ UNCHANGED <<temps, damaged>>

WriteTemporary ==
  /\ pc = "writing"
  /\ pc' = "renaming"
  /\ Fine
  /\ UNCHANGED <<disk, task, candidates, writing, snapshot, answer, leftover, damaged>>

Rename ==
  /\ pc = "renaming"
  /\ Changed([Directory EXCEPT ![writing.revision] = writing.config])
  /\ temps' = temps \ {writing.revision}
  /\ pc' = "syncing"
  /\ Fine
  /\ UNCHANGED <<task, candidates, writing, snapshot, answer, leftover, damaged>>

\* Writing, syncing or renaming fails; the temporary file is removed if it
\* can be.
WriteFails ==
  /\ pc \in {"writing", "renaming"}
  /\ PublishFails
  /\ \/ /\ temps' = temps \ {writing.revision} /\ Fault
        /\ IF task = "save" THEN UNCHANGED leftover ELSE TRUE
     \/ /\ faults + 2 <= MaxFaults /\ faults' = faults + 2 /\ UNCHANGED temps
        /\ IF task = "save" THEN leftover' = leftover \cup {writing.revision} ELSE TRUE
  /\ UNCHANGED damaged

\* The result of syncing the directory is ignored.
\* Faulty: it is an error of the save.
SyncDirectoryOrFail ==
  /\ pc = "syncing"
  /\ \/ /\ dirs' = <<Directory>> /\ pc' = "retaining" /\ Fine
        /\ UNCHANGED <<task, candidates, writing, snapshot, answer, leftover>>
     \/ Fault /\ PublishFails /\ leftover' = {}
  /\ UNCHANGED <<temps, damaged>>
SyncDirectory ==
  /\ pc = "syncing"
  /\ \/ dirs' = <<Directory>> /\ Fine
     \/ dirs' = dirs /\ Fault
  /\ pc' = "retaining"
  /\ UNCHANGED <<temps, task, candidates, writing, snapshot, answer, leftover, damaged>>

\* remove_old_revisions keeps the two newest ones.
Excess(dir) ==
  {r \in Present(dir) : \E a, b \in Present(dir) : r < a /\ a < b}

RemoveOld ==
  /\ pc = "retaining"
  /\ Excess(Directory) # {}
  /\ Changed([Directory EXCEPT ![Max(Excess(Directory))] = "absent"])
  /\ Fine
  /\ UNCHANGED <<temps, process, damaged>>

\* Nothing is left to remove, or removing fails, which is ignored.
PublishDone ==
  /\ pc = "retaining"
  /\ IF Excess(Directory) = {} THEN Fine ELSE Fault
  /\ snapshot' = writing
  /\ writing' = NoSnapshot
  /\ pc' = "ready"
  /\ answer' = IF task = "save" THEN "accepted" ELSE "none"
  /\ UNCHANGED <<disk, task, candidates, leftover, damaged>>

-----------------------------------------------------------------------------
(* The environment                                                          *)

ProcessDies ==
  /\ pc # "down"
  /\ Fault /\ Gone
  /\ UNCHANGED <<disk, damaged>>

\* What is lost is not only the process.
PowerFails ==
  /\ Fault /\ Gone
  /\ \E i \in 1..Len(dirs) :
       /\ dirs' = <<dirs[i]>>
       /\ damaged' = (damaged \/ i < Len(dirs))
  /\ temps' \in SUBSET temps

FileIsDamaged ==
  /\ Fault
  /\ \E r \in Present(Directory) :
       /\ Directory[r] \in Configs
       /\ dirs' = [i \in 1..Len(dirs) |->
                     IF dirs[i][r] = Directory[r] THEN [dirs[i] EXCEPT ![r] = "corrupt"] ELSE dirs[i]]
  /\ damaged' = TRUE
  /\ UNCHANGED <<temps, process>>

-----------------------------------------------------------------------------
LoadStep ==
  \/ LoadCurrent \/ LoadMigrates \/ LoadRefusesMigration
  \/ Quarantine \/ QuarantineFails \/ LoadDefault

PublishStep ==
  \/ CreateTemporary \/ CreateFails \/ WriteTemporary \/ WriteFails
  \/ Rename \/ SyncDirectory \/ RemoveOld \/ PublishDone

Next ==
  \/ Launch \/ LoadStep \/ PublishStep
  \/ \E c \in Configs : Save(c)
  \/ ProcessDies \/ PowerFails \/ FileIsDamaged

Spec == Init /\ [][Next]_vars

\* The user starts the application again and its calls return.
FairSpec == Spec /\ WF_vars(Launch) /\ WF_vars(LoadStep) /\ WF_vars(PublishStep)

-----------------------------------------------------------------------------
(* Properties                                                               *)

Snapshots == [revision : 0..MaxRevision, config : Configs \cup {NoConfig}]

TypeOK ==
  /\ dirs \in Seq(Directories) /\ dirs # <<>>
  /\ temps \subseteq Revisions /\ leftover \subseteq temps
  /\ pc \in {"down", "reading", "creating", "writing", "renaming", "syncing", "retaining", "ready"}
  /\ task \in {"load", "save"}
  /\ candidates \subseteq Revisions
  /\ writing \in Snapshots /\ snapshot \in Snapshots
  /\ answer \in {"none", "accepted", "refused"}
  /\ damaged \in BOOLEAN /\ faults \in 0..MaxFaults

\* What a launch makes of a directory.
Loadable(dir) == {r \in Revisions : dir[r] \in Configs \cup {"legacy"}}
Recovered(dir) ==
  IF Loadable(dir) = {} THEN Default
  ELSE LET found == dir[Max(Loadable(dir))]
       IN IF found = "legacy" THEN Migrated ELSE found

\* The host's snapshot is the newest file, whatever failed on the way to it:
\* it neither believes a save that did not happen nor misses one that did.
MemoryIsOnDisk ==
  pc = "ready" /\ ~damaged =>
    /\ Directory[snapshot.revision] = snapshot.config
    /\ \A r \in Present(Directory) : r <= snapshot.revision

\* "The retained prior revision still recovers": from the second revision on
\* an older intact one is kept beside the newest, on the medium as well.
FallbackIsKept ==
  ~damaged => \A i \in 1..Len(dirs), r \in Revisions \ {1} :
    r \in Loadable(dirs[i]) => Loadable(dirs[i]) # {r}

\* "Immutable revisions": the file of a revision is never overwritten (a power
\* loss may bring back one that was set aside).
RevisionsAreImmutable ==
  [][\A r \in Revisions :
       ~damaged' /\ Directory[r] \in Configs /\ Directory'[r] \in Configs
         => Directory'[r] = Directory[r]]_vars

\* A save is refused only because a call failed, or on account of a temporary
\* file which this same process could not remove: what an earlier process has
\* left behind does no harm.
RefusedForAReason ==
  [][answer # "refused" /\ answer' = "refused" =>
       faults' > faults \/ writing.revision \in leftover]_vars

\* The repository implements ConfigurationStore: saves are atomic and a crash
\* at any of their steps leaves the old or the new configuration.
Store == INSTANCE ConfigurationStore WITH
  stored <- Recovered(Directory),
  asked <- IF task = "save" THEN writing.config ELSE NoConfig,
  committed <- (task = "save" /\ pc \in {"syncing", "retaining"}),
  answer <- answer,
  damaged <- damaged
ImplementsStore == Store!Spec

\* An unusable document is set aside "instead of poisoning later launches":
\* the application starts, or crashes, which it does not do for ever.
EveryLaunchSucceeds == []<>(pc = "ready")

\* It does so unless it finds a document of schema 0 whose migration is not
\* valid, which load refuses again at every launch.
LaunchSucceeds ==
  (\A r \in Revisions : Directory[r] # "legacyInvalid") => EveryLaunchSucceeds
=============================================================================
