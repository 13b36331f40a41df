---------------------------- MODULE ModelProofs -----------------------------
(***************************************************************************)
(* Proofs about the models: as files on disk (ModelStore), then as memory  *)
(* the coordinator accounts for (InferenceResources).                      *)
(***************************************************************************)
EXTENDS ModelStore, InferenceResources, SequenceTheorems, TLAPS

-----------------------------------------------------------------------------
(***************************************************************************)
(* Proofs about ModelStore, for any set of artifacts and any bounds.       *)
(*                                                                         *)
(* That a marker vouches for good files is not inductive: a power loss may *)
(* bring back any file and any marker there has been, a check may be half  *)
(* way through the files another thread replaces.  The strengthening says  *)
(* that a stamp names one content for good (StampsName), that a marker,    *)
(* present or past, names stamps of good files only (MarkersVouch), and    *)
(* what each thread has established of the files it looked at.             *)
(***************************************************************************)

AllFiles(a) == past[a] \cup {target[a], partial[a], Absent}
Markers == pastMarkers \cup {marker, NoMarker}
AllGood == \A a \in Artifacts : Verifies(target[a])
GoodOutside(todo) == \A a \in Artifacts \ todo : Verifies(target[a])
NotBadOutside(todo) == \A a \in Artifacts \ todo : Sized(target[a]) => Verifies(target[a])

CheckStates == [pc : {"idle", "sizes", "marker", "hash", "NotInstalled", "Corrupt", "Ready", "published"},
                todo : SUBSET Artifacts]
InstallStates == [pc : {"idle", "begin", "next", "downloaded", "rename", "failed", "location", "ended"},
                  todo : SUBSET Artifacts]

TypeInv ==
  /\ TypeOK
  /\ past \in [Artifacts -> SUBSET Files]
  /\ pastMarkers \subseteq [Artifacts -> 0..MaxStamp]
  /\ check \in [Checkers -> CheckStates]
  /\ install \in InstallStates
  /\ remove \in {"idle", "removing", "failed"}
  /\ user \in {"none", "locating", "loaded", "requesting"}

\* A stamp given to a file is never given to another.
StampsName ==
  \A a \in Artifacts :
    /\ \A f \in AllFiles(a) : f.stamp < clock
    /\ \A m \in Markers : m[a] < clock
    /\ \A f, g \in AllFiles(a) : f.stamp = g.stamp => f = g

MarkersVouch ==
  \A m \in Markers, a \in Artifacts : \A f \in AllFiles(a) :
    (f.stamp = m[a] /\ Sized(f)) => Verifies(f)

\* What a check has established, whoever replaces or removes files meanwhile.
ChecksKnow ==
  \A c \in Checkers :
    /\ At(c, "sizes") \/ At(c, "marker") => check[c].todo = Artifacts
    /\ At(c, "hash") => NotBadOutside(check[c].todo)

InstallKnows ==
  /\ install.pc = "begin" => install.todo = Artifacts
  /\ install.pc = "next" => NotBadOutside(install.todo)
  /\ install.pc \in {"downloaded", "rename"} =>
       \E a \in Artifacts : install.todo = {a} /\ ~Verifies(target[a])
  /\ install.pc = "rename" => \A a \in install.todo : Verifies(partial[a])

\* Who excludes whom.
Exclusion ==
  /\ ~running => /\ check = [c \in Checkers |-> Idle] /\ install = Idle
                 /\ remove = "idle" /\ user = "none" /\ phase = "NotInstalled"
  /\ ~At("inspection", "idle") => inspecting
  /\ ~At("install", "idle") => install.pc = "location"
  /\ install.pc # "idle" => installing
  /\ remove = "removing" => ~inspecting /\ ~installing /\ user \in {"none", "requesting"}

\* What is known of all files while nobody may remove them.
FilesAreKept ==
  /\ \A c \in Checkers :
       (c = "user" => user = "locating") =>
         /\ At(c, "hash") => GoodOutside(check[c].todo)
         /\ At(c, "Ready") => AllGood
  /\ user = "loaded" => AllGood
  /\ phase = "Ready" /\ remove = "idle" => AllGood

StoreInv ==
  TypeInv /\ StampsName /\ MarkersVouch /\ ChecksKnow /\ InstallKnows /\ Exclusion /\ FilesAreKept

-----------------------------------------------------------------------------
(* The directory: what happens to its files and its marker.                *)

\* No new file and no new marker: nothing is lost of what is known of them.
LEMMA DiskShrinks ==
  ASSUME StampsName, MarkersVouch, clock \in Int, clock' = clock,
         \A a \in Artifacts : AllFiles(a)' \subseteq AllFiles(a),
         Markers' \subseteq Markers
  PROVE  StampsName' /\ MarkersVouch'
  BY DEF StampsName, MarkersVouch

\* A new file has the stamp of the clock, which no marker and no file has.
LEMMA DiskGrows ==
  ASSUME StampsName, MarkersVouch, clock \in Int, clock' = clock + 1,
         NEW g \in Files, g.stamp = clock, TypeInv,
         \A a \in Artifacts : AllFiles(a)' \subseteq AllFiles(a) \cup {g},
         Markers' \subseteq Markers
  PROVE  StampsName' /\ MarkersVouch'
  <1>1. \A a \in Artifacts : AllFiles(a) \subseteq Files
    BY StoreBounds DEF AllFiles, TypeInv, TypeOK, Files, Absent, Contents
  <1>2. \A m \in Markers : m \in [Artifacts -> 0..MaxStamp]
    BY StoreBounds DEF Markers, TypeInv, TypeOK, NoMarker
  <1>3. StampsName'
    BY <1>1, <1>2, StoreBounds DEF StampsName, Files
  <1>4. MarkersVouch'
    BY <1>1, <1>2, StoreBounds DEF StampsName, MarkersVouch, Files
  <1> QED
    BY <1>3, <1>4

\* A marker written over files none of which is bad vouches for good files.
LEMMA MarkerWritten ==
  ASSUME TypeInv, StampsName, MarkersVouch, NotBadOutside({}), WriteMarker,
         UNCHANGED <<target, partial, past, clock>>
  PROVE  StampsName' /\ MarkersVouch'
  <1>1. CASE UNCHANGED <<marker, pastMarkers>>
    <2>1. Markers' = Markers /\ \A a \in Artifacts : AllFiles(a)' = AllFiles(a)
      BY <1>1 DEF Markers, AllFiles
    <2> QED
      BY <2>1, DiskShrinks DEF TypeInv, TypeOK
  <1>2. CASE /\ \A a \in Artifacts : Sized(target[a])
             /\ SetMarker([a \in Artifacts |-> target[a].stamp])
    <2>1. \A a \in Artifacts : marker'[a] = target[a].stamp /\ Verifies(target[a])
      BY <1>2 DEF SetMarker, NotBadOutside
    <2>2. Markers' \subseteq Markers \cup {marker'}
      BY <1>2 DEF Markers, SetMarker
    <2>3. \A a \in Artifacts : AllFiles(a)' = AllFiles(a) /\ target[a] \in AllFiles(a)
      BY DEF AllFiles
    <2>4. StampsName'
      BY <2>1, <2>2, <2>3 DEF StampsName
    <2>5. MarkersVouch'
      BY <2>1, <2>2, <2>3 DEF StampsName, MarkersVouch
    <2> QED
      BY <2>4, <2>5
  <1> QED
    BY <1>1, <1>2 DEF WriteMarker

\* A marker of zeros was always among the markers.
LEMMA MarkerRemoved ==
  ASSUME TypeInv, StampsName, MarkersVouch, SetMarker(NoMarker),
         UNCHANGED <<target, partial, past, clock>>
  PROVE  StampsName' /\ MarkersVouch'
  <1>1. Markers' \subseteq Markers /\ \A a \in Artifacts : AllFiles(a)' = AllFiles(a)
    BY DEF Markers, AllFiles, SetMarker
  <1> QED
    BY <1>1, DiskShrinks DEF TypeInv, TypeOK

LEMMA DiskUntouched ==
  ASSUME TypeInv, StampsName, MarkersVouch, UNCHANGED disk
  PROVE  StampsName' /\ MarkersVouch'
  <1>1. Markers' = Markers /\ \A a \in Artifacts : AllFiles(a)' = AllFiles(a)
    BY DEF Markers, AllFiles, disk
  <1>2. clock' = clock
    BY DEF disk
  <1> QED
    BY <1>1, <1>2, DiskShrinks DEF TypeInv, TypeOK

\* A marker that matches vouches for good files: what a launch relies on.
LEMMA MatchingMarker ==
  ASSUME MarkersVouch, MarkerMatches
  PROVE  AllGood
  BY DEF MarkersVouch, MarkerMatches, AllGood, Markers, AllFiles

-----------------------------------------------------------------------------
(* The steps.  Each preserves the types, what is known of the directory,  *)
(* of the checks, of the installation and of the exclusions, and keeps the *)
(* files that somebody relies on.                                          *)

\* Launch begins the inspection.
LEMMA LaunchStep ==
  ASSUME StoreInv, Launch
  PROVE  StoreInv'
  <1> USE DEF Launch, At, CheckTo, BeginCheck, UpdateModel, Installing, InstallTo, Checked, Result, disk, catalog, threads
  <1>1. TypeInv'
    BY StoreBounds DEF StoreInv, TypeInv, TypeOK, CheckStates, InstallStates, Phases, Checkers
  <1>2. StampsName' /\ MarkersVouch'
    BY DiskUntouched DEF StoreInv, disk
  <1>3. ChecksKnow'
    BY DEF StoreInv, ChecksKnow, NotBadOutside, TypeInv, TypeOK, CheckStates, InstallStates, Phases, Checkers
  <1>4. InstallKnows'
    BY DEF StoreInv, InstallKnows, NotBadOutside, TypeInv, TypeOK, CheckStates, InstallStates, Phases, Checkers
  <1>5. Exclusion'
    BY DEF StoreInv, Exclusion, TypeInv, TypeOK, CheckStates, InstallStates, Phases, Checkers
  <1>6. FilesAreKept'
    BY DEF StoreInv, FilesAreKept, Exclusion, GoodOutside, AllGood, TypeInv, TypeOK, CheckStates, InstallStates, Phases, Checkers
  <1> QED
    BY <1>1, <1>2, <1>3, <1>4, <1>5, <1>6 DEF StoreInv

\* A result of Ready was established while nobody could remove files.
LEMMA PublishInspectionStep ==
  ASSUME StoreInv, PublishInspection
  PROVE  StoreInv'
  <1> USE DEF PublishInspection, At, CheckTo, BeginCheck, UpdateModel, Installing, InstallTo, Checked, Result, disk, catalog, threads
  <1>1. TypeInv'
    <2>1. phase' \in Phases
      BY DEF StoreInv, TypeInv, TypeOK, Phases
    <2>2. check' \in [Checkers -> CheckStates]
      BY DEF StoreInv, TypeInv, CheckStates, Checkers
    <2> QED
      BY <2>1, <2>2, StoreBounds DEF StoreInv, TypeInv, TypeOK, InstallStates
  <1>2. StampsName' /\ MarkersVouch'
    BY DiskUntouched DEF StoreInv, disk
  <1>3. ChecksKnow'
    BY DEF StoreInv, ChecksKnow, NotBadOutside, TypeInv, TypeOK, CheckStates, InstallStates, Phases, Checkers
  <1>4. InstallKnows'
    BY DEF StoreInv, InstallKnows, NotBadOutside, TypeInv, TypeOK, CheckStates, InstallStates, Phases, Checkers
  <1>5. Exclusion'
    BY DEF StoreInv, Exclusion, TypeInv, TypeOK, CheckStates, InstallStates, Phases, Checkers
  <1>6. FilesAreKept'
    BY DEF StoreInv, FilesAreKept, Exclusion, GoodOutside, AllGood, TypeInv, TypeOK, CheckStates, InstallStates, Phases, Checkers
  <1> QED
    BY <1>1, <1>2, <1>3, <1>4, <1>5, <1>6 DEF StoreInv

\* A download starts when nobody removes.
LEMMA InstallModelStep ==
  ASSUME StoreInv, InstallModel
  PROVE  StoreInv'
  <1> USE DEF InstallModel, At, CheckTo, BeginCheck, UpdateModel, Installing, InstallTo, Checked, Result, disk, catalog, threads
  <1>1. TypeInv'
    BY StoreBounds DEF StoreInv, TypeInv, TypeOK, CheckStates, InstallStates, Phases, Checkers
  <1>2. StampsName' /\ MarkersVouch'
    BY DiskUntouched DEF StoreInv, disk
  <1>3. ChecksKnow'
    BY DEF StoreInv, ChecksKnow, NotBadOutside, TypeInv, TypeOK, CheckStates, InstallStates, Phases, Checkers
  <1>4. InstallKnows'
    BY DEF StoreInv, InstallKnows, NotBadOutside, TypeInv, TypeOK, CheckStates, InstallStates, Phases, Checkers
  <1>5. Exclusion'
    BY DEF StoreInv, Exclusion, TypeInv, TypeOK, CheckStates, InstallStates, Phases, Checkers
  <1>6. FilesAreKept'
    BY DEF StoreInv, FilesAreKept, Exclusion, GoodOutside, AllGood, TypeInv, TypeOK, CheckStates, InstallStates, Phases, Checkers
  <1> QED
    BY <1>1, <1>2, <1>3, <1>4, <1>5, <1>6 DEF StoreInv

\* A download that fails leaves the files to the next.
LEMMA InstallFailsStep ==
  ASSUME StoreInv, InstallFails
  PROVE  StoreInv'
  <1> USE DEF InstallFails, At, CheckTo, BeginCheck, UpdateModel, Installing, InstallTo, Checked, Result, disk, catalog, threads
  <1>1. TypeInv'
    BY StoreBounds DEF StoreInv, TypeInv, TypeOK, CheckStates, InstallStates, Phases, Checkers
  <1>2. StampsName' /\ MarkersVouch'
    BY DiskUntouched DEF StoreInv, disk
  <1>3. ChecksKnow'
    BY DEF StoreInv, ChecksKnow, NotBadOutside, TypeInv, TypeOK, CheckStates, InstallStates, Phases, Checkers
  <1>4. InstallKnows'
    BY DEF StoreInv, InstallKnows, NotBadOutside, TypeInv, TypeOK, CheckStates, InstallStates, Phases, Checkers
  <1>5. Exclusion'
    BY DEF StoreInv, Exclusion, TypeInv, TypeOK, CheckStates, InstallStates, Phases, Checkers
  <1>6. FilesAreKept'
    BY DEF StoreInv, FilesAreKept, Exclusion, GoodOutside, AllGood, TypeInv, TypeOK, CheckStates, InstallStates, Phases, Checkers
  <1> QED
    BY <1>1, <1>2, <1>3, <1>4, <1>5, <1>6 DEF StoreInv

\* The final check found what it reports.
LEMMA InstallEndsStep ==
  ASSUME StoreInv, InstallEnds
  PROVE  StoreInv'
  <1> USE DEF InstallEnds, At, CheckTo, BeginCheck, UpdateModel, Installing, InstallTo, Checked, Result, disk, catalog, threads
  <1>1. TypeInv'
    <2>1. phase' \in Phases
      BY DEF StoreInv, TypeInv, TypeOK, Phases
    <2>2. check' \in [Checkers -> CheckStates]
      BY DEF StoreInv, TypeInv, CheckStates, Checkers
    <2> QED
      BY <2>1, <2>2, StoreBounds DEF StoreInv, TypeInv, TypeOK, InstallStates
  <1>2. StampsName' /\ MarkersVouch'
    BY DiskUntouched DEF StoreInv, disk
  <1>3. ChecksKnow'
    BY DEF StoreInv, ChecksKnow, NotBadOutside, TypeInv, TypeOK, CheckStates, InstallStates, Phases, Checkers
  <1>4. InstallKnows'
    BY DEF StoreInv, InstallKnows, NotBadOutside, TypeInv, TypeOK, CheckStates, InstallStates, Phases, Checkers
  <1>5. Exclusion'
    BY DEF StoreInv, Exclusion, TypeInv, TypeOK, CheckStates, InstallStates, Phases, Checkers
  <1>6. FilesAreKept'
    BY DEF StoreInv, FilesAreKept, Exclusion, GoodOutside, AllGood, TypeInv, TypeOK, CheckStates, InstallStates, Phases, Checkers
  <1> QED
    BY <1>1, <1>2, <1>3, <1>4, <1>5, <1>6 DEF StoreInv

\* A removal starts when nobody inspects, installs or uses the model.
LEMMA RemoveModelStep ==
  ASSUME StoreInv, RemoveModel
  PROVE  StoreInv'
  <1> USE DEF RemoveModel, RemoveAllowed, At, CheckTo, BeginCheck, UpdateModel, Installing, InstallTo, Checked, Result, disk, catalog, threads
  <1>1. TypeInv'
    BY StoreBounds DEF StoreInv, TypeInv, TypeOK, CheckStates, InstallStates, Phases, Checkers
  <1>2. StampsName' /\ MarkersVouch'
    BY DiskUntouched DEF StoreInv, disk
  <1>3. ChecksKnow'
    BY DEF StoreInv, ChecksKnow, NotBadOutside, TypeInv, TypeOK, CheckStates, InstallStates, Phases, Checkers
  <1>4. InstallKnows'
    BY DEF StoreInv, InstallKnows, NotBadOutside, TypeInv, TypeOK, CheckStates, InstallStates, Phases, Checkers
  <1>5. Exclusion'
    BY DEF StoreInv, Exclusion, TypeInv, TypeOK, CheckStates, InstallStates, Phases, Checkers
  <1>6. FilesAreKept'
    BY DEF StoreInv, FilesAreKept, Exclusion, GoodOutside, AllGood, TypeInv, TypeOK, CheckStates, InstallStates, Phases, Checkers
  <1> QED
    BY <1>1, <1>2, <1>3, <1>4, <1>5, <1>6 DEF StoreInv

\* A removal ends without a claim.
LEMMA RemoveEndsStep ==
  ASSUME StoreInv, RemoveEnds
  PROVE  StoreInv'
  <1> USE DEF RemoveEnds, At, CheckTo, BeginCheck, UpdateModel, Installing, InstallTo, Checked, Result, disk, catalog, threads
  <1>1. TypeInv'
    BY StoreBounds DEF StoreInv, TypeInv, TypeOK, CheckStates, InstallStates, Phases, Checkers
  <1>2. StampsName' /\ MarkersVouch'
    BY DiskUntouched DEF StoreInv, disk
  <1>3. ChecksKnow'
    BY DEF StoreInv, ChecksKnow, NotBadOutside, TypeInv, TypeOK, CheckStates, InstallStates, Phases, Checkers
  <1>4. InstallKnows'
    BY DEF StoreInv, InstallKnows, NotBadOutside, TypeInv, TypeOK, CheckStates, InstallStates, Phases, Checkers
  <1>5. Exclusion'
    BY DEF StoreInv, Exclusion, TypeInv, TypeOK, CheckStates, InstallStates, Phases, Checkers
  <1>6. FilesAreKept'
    BY DEF StoreInv, FilesAreKept, Exclusion, GoodOutside, AllGood, TypeInv, TypeOK, CheckStates, InstallStates, Phases, Checkers
  <1> QED
    BY <1>1, <1>2, <1>3, <1>4, <1>5, <1>6 DEF StoreInv

\* A session begins with a check.
LEMMA StartSessionStep ==
  ASSUME StoreInv, StartSession
  PROVE  StoreInv'
  <1> USE DEF StartSession, At, CheckTo, BeginCheck, UpdateModel, Installing, InstallTo, Checked, Result, disk, catalog, threads
  <1>1. TypeInv'
    BY StoreBounds DEF StoreInv, TypeInv, TypeOK, CheckStates, InstallStates, Phases, Checkers
  <1>2. StampsName' /\ MarkersVouch'
    BY DiskUntouched DEF StoreInv, disk
  <1>3. ChecksKnow'
    BY DEF StoreInv, ChecksKnow, NotBadOutside, TypeInv, TypeOK, CheckStates, InstallStates, Phases, Checkers
  <1>4. InstallKnows'
    BY DEF StoreInv, InstallKnows, NotBadOutside, TypeInv, TypeOK, CheckStates, InstallStates, Phases, Checkers
  <1>5. Exclusion'
    BY DEF StoreInv, Exclusion, TypeInv, TypeOK, CheckStates, InstallStates, Phases, Checkers
  <1>6. FilesAreKept'
    BY DEF StoreInv, FilesAreKept, Exclusion, GoodOutside, AllGood, TypeInv, TypeOK, CheckStates, InstallStates, Phases, Checkers
  <1> QED
    BY <1>1, <1>2, <1>3, <1>4, <1>5, <1>6 DEF StoreInv

\* A session loads what its check found good.
LEMMA LocateModelStep ==
  ASSUME StoreInv, LocateModel
  PROVE  StoreInv'
  <1> USE DEF LocateModel, At, CheckTo, BeginCheck, UpdateModel, Installing, InstallTo, Checked, Result, disk, catalog, threads
  <1>1. TypeInv'
    BY StoreBounds DEF StoreInv, TypeInv, TypeOK, CheckStates, InstallStates, Phases, Checkers
  <1>2. StampsName' /\ MarkersVouch'
    BY DiskUntouched DEF StoreInv, disk
  <1>3. ChecksKnow'
    BY DEF StoreInv, ChecksKnow, NotBadOutside, TypeInv, TypeOK, CheckStates, InstallStates, Phases, Checkers
  <1>4. InstallKnows'
    BY DEF StoreInv, InstallKnows, NotBadOutside, TypeInv, TypeOK, CheckStates, InstallStates, Phases, Checkers
  <1>5. Exclusion'
    BY DEF StoreInv, Exclusion, TypeInv, TypeOK, CheckStates, InstallStates, Phases, Checkers
  <1>6. FilesAreKept'
    BY DEF StoreInv, FilesAreKept, Exclusion, GoodOutside, AllGood, TypeInv, TypeOK, CheckStates, InstallStates, Phases, Checkers
  <1> QED
    BY <1>1, <1>2, <1>3, <1>4, <1>5, <1>6 DEF StoreInv

\* A session ends.
LEMMA EndSessionStep ==
  ASSUME StoreInv, EndSession
  PROVE  StoreInv'
  <1> USE DEF EndSession, At, CheckTo, BeginCheck, UpdateModel, Installing, InstallTo, Checked, Result, disk, catalog, threads
  <1>1. TypeInv'
    BY StoreBounds DEF StoreInv, TypeInv, TypeOK, CheckStates, InstallStates, Phases, Checkers
  <1>2. StampsName' /\ MarkersVouch'
    BY DiskUntouched DEF StoreInv, disk
  <1>3. ChecksKnow'
    BY DEF StoreInv, ChecksKnow, NotBadOutside, TypeInv, TypeOK, CheckStates, InstallStates, Phases, Checkers
  <1>4. InstallKnows'
    BY DEF StoreInv, InstallKnows, NotBadOutside, TypeInv, TypeOK, CheckStates, InstallStates, Phases, Checkers
  <1>5. Exclusion'
    BY DEF StoreInv, Exclusion, TypeInv, TypeOK, CheckStates, InstallStates, Phases, Checkers
  <1>6. FilesAreKept'
    BY DEF StoreInv, FilesAreKept, Exclusion, GoodOutside, AllGood, TypeInv, TypeOK, CheckStates, InstallStates, Phases, Checkers
  <1> QED
    BY <1>1, <1>2, <1>3, <1>4, <1>5, <1>6 DEF StoreInv

\* A request for the verification makes no claim.
LEMMA RequestVerifiedStep ==
  ASSUME StoreInv, RequestVerified
  PROVE  StoreInv'
  <1> USE DEF RequestVerified, At, CheckTo, BeginCheck, UpdateModel, Installing, InstallTo, Checked, Result, disk, catalog, threads
  <1>1. TypeInv'
    BY StoreBounds DEF StoreInv, TypeInv, TypeOK, CheckStates, InstallStates, Phases, Checkers
  <1>2. StampsName' /\ MarkersVouch'
    BY DiskUntouched DEF StoreInv, disk
  <1>3. ChecksKnow'
    BY DEF StoreInv, ChecksKnow, NotBadOutside, TypeInv, TypeOK, CheckStates, InstallStates, Phases, Checkers
  <1>4. InstallKnows'
    BY DEF StoreInv, InstallKnows, NotBadOutside, TypeInv, TypeOK, CheckStates, InstallStates, Phases, Checkers
  <1>5. Exclusion'
    BY DEF StoreInv, Exclusion, TypeInv, TypeOK, CheckStates, InstallStates, Phases, Checkers
  <1>6. FilesAreKept'
    BY DEF StoreInv, FilesAreKept, Exclusion, GoodOutside, AllGood, TypeInv, TypeOK, CheckStates, InstallStates, Phases, Checkers
  <1> QED
    BY <1>1, <1>2, <1>3, <1>4, <1>5, <1>6 DEF StoreInv

\* A marker that matches spares the hashing.
LEMMA CheckMarkerStep ==
  ASSUME StoreInv, NEW c \in Checkers, CheckMarker(c)
  PROVE  StoreInv'
  <1> USE DEF CheckMarker, At, CheckTo, BeginCheck, UpdateModel, Installing, InstallTo, Checked, Result, disk, catalog, threads
  <1>1. TypeInv'
    BY StoreBounds DEF StoreInv, TypeInv, TypeOK, CheckStates, InstallStates, Phases, Checkers
  <1>2. StampsName' /\ MarkersVouch'
    BY DiskUntouched DEF StoreInv, disk
  <1>3. ChecksKnow'
    BY DEF StoreInv, ChecksKnow, NotBadOutside, TypeInv, TypeOK, CheckStates, InstallStates, Phases, Checkers
  <1>4. InstallKnows'
    BY DEF StoreInv, InstallKnows, NotBadOutside, TypeInv, TypeOK, CheckStates, InstallStates, Phases, Checkers
  <1>5. Exclusion'
    BY DEF StoreInv, Exclusion, TypeInv, TypeOK, CheckStates, InstallStates, Phases, Checkers
  <1>6. FilesAreKept'
    <2>1. target' = target /\ MarkersVouch
      BY DEF StoreInv
    <2>2. CASE MarkerMatches
      <3>1. AllGood /\ AllGood'
        BY <2>1, <2>2, MatchingMarker DEF AllGood
      <3>2. check' = [check EXCEPT ![c].pc = "Ready"]
        BY <2>2
      <3> QED
        BY <2>1, <3>1, <3>2 DEF StoreInv, FilesAreKept, GoodOutside, AllGood, TypeInv, CheckStates, Checkers
    <2>3. CASE ~MarkerMatches
      <3>1. check' = [check EXCEPT ![c].pc = "hash"] /\ check[c].todo = Artifacts
        BY <2>3 DEF StoreInv, ChecksKnow
      <3> QED
        BY <2>1, <3>1 DEF StoreInv, FilesAreKept, GoodOutside, AllGood, TypeInv, CheckStates, Checkers
    <2> QED
      BY <2>2, <2>3
  <1> QED
    BY <1>1, <1>2, <1>3, <1>4, <1>5, <1>6 DEF StoreInv

\* The presence and the sizes of the files.
LEMMA CheckSizesStep ==
  ASSUME StoreInv, NEW c \in Checkers, CheckSizes(c)
  PROVE  StoreInv'
  <1> USE DEF CheckSizes, At, CheckTo, BeginCheck, UpdateModel, Installing, InstallTo, Checked, Result, disk, catalog, threads
  <1>0. /\ marker' \in [Artifacts -> 0..MaxStamp]
        /\ pastMarkers' \subseteq [Artifacts -> 0..MaxStamp]
    BY StoreBounds DEF StoreInv, TypeInv, TypeOK, NoMarker, SetMarker
  <1>1. TypeInv'
    BY <1>0 DEF StoreInv, TypeInv, TypeOK, CheckStates, InstallStates, Phases, Checkers
  <1>2. StampsName' /\ MarkersVouch'
    <2>1. CASE UNCHANGED <<marker, pastMarkers>>
      BY <2>1, DiskUntouched DEF StoreInv
    <2>2. CASE SetMarker(NoMarker)
      BY <2>2, MarkerRemoved DEF StoreInv
    <2> QED
      BY <2>1, <2>2
  <1>3. ChecksKnow'
    BY DEF StoreInv, ChecksKnow, NotBadOutside, TypeInv, TypeOK, CheckStates, InstallStates, Phases, Checkers
  <1>4. InstallKnows'
    BY DEF StoreInv, InstallKnows, NotBadOutside, TypeInv, TypeOK, CheckStates, InstallStates, Phases, Checkers
  <1>5. Exclusion'
    BY DEF StoreInv, Exclusion, TypeInv, TypeOK, CheckStates, InstallStates, Phases, Checkers
  <1>6. FilesAreKept'
    BY DEF StoreInv, FilesAreKept, Exclusion, GoodOutside, AllGood, TypeInv, TypeOK, CheckStates, InstallStates, Phases, Checkers
  <1> QED
    BY <1>1, <1>2, <1>3, <1>4, <1>5, <1>6 DEF StoreInv

\* The types of the markers that are written.
LEMMA MarkerTypes ==
  ASSUME TypeInv, SetMarker(NoMarker) \/ WriteMarker \/ UNCHANGED <<marker, pastMarkers>>
  PROVE  /\ marker' \in [Artifacts -> 0..MaxStamp]
         /\ pastMarkers' \subseteq [Artifacts -> 0..MaxStamp]
  <1>1. NoMarker \in [Artifacts -> 0..MaxStamp]
    BY StoreBounds DEF NoMarker
  <1>2. [a \in Artifacts |-> target[a].stamp] \in [Artifacts -> 0..MaxStamp]
    BY DEF TypeInv, TypeOK, Files
  <1> QED
    BY <1>1, <1>2 DEF TypeInv, TypeOK, SetMarker, WriteMarker

\* A file that is hashed is good; the marker is written when none is bad.
LEMMA CheckDigestStep ==
  ASSUME StoreInv, NEW c \in Checkers, CheckDigest(c)
  PROVE  StoreInv'
  <1> USE DEF CheckDigest, At, CheckTo, BeginCheck, UpdateModel, Installing, InstallTo, Checked, Result, disk, catalog, threads
  <1>0. /\ marker' \in [Artifacts -> 0..MaxStamp]
        /\ pastMarkers' \subseteq [Artifacts -> 0..MaxStamp]
    BY MarkerTypes DEF StoreInv
  <1>1. TypeInv'
    BY <1>0 DEF StoreInv, TypeInv, TypeOK, CheckStates, InstallStates, Phases, Checkers
  <1>2. StampsName' /\ MarkersVouch'
    <2>1. CASE UNCHANGED <<marker, pastMarkers>>
      BY <2>1, DiskUntouched DEF StoreInv
    <2>2. CASE SetMarker(NoMarker)
      BY <2>2, MarkerRemoved DEF StoreInv
    <2>3. CASE check[c].todo = {} /\ WriteMarker
      <3>1. NotBadOutside({})
        BY <2>3 DEF StoreInv, ChecksKnow
      <3> QED
        BY <2>3, <3>1, MarkerWritten DEF StoreInv
    <2> QED
      BY <2>1, <2>2, <2>3
  <1>3. ChecksKnow'
    BY DEF StoreInv, ChecksKnow, NotBadOutside, TypeInv, TypeOK, CheckStates, InstallStates, Phases, Checkers
  <1>4. InstallKnows'
    BY DEF StoreInv, InstallKnows, NotBadOutside, TypeInv, TypeOK, CheckStates, InstallStates, Phases, Checkers
  <1>5. Exclusion'
    BY DEF StoreInv, Exclusion, TypeInv, TypeOK, CheckStates, InstallStates, Phases, Checkers
  <1>6. FilesAreKept'
    BY DEF StoreInv, FilesAreKept, Exclusion, GoodOutside, AllGood, TypeInv, TypeOK, CheckStates, InstallStates, Phases, Checkers
  <1> QED
    BY <1>1, <1>2, <1>3, <1>4, <1>5, <1>6 DEF StoreInv

\* The marker is removed before the first file is touched.
LEMMA InstallBeginsStep ==
  ASSUME StoreInv, InstallBegins
  PROVE  StoreInv'
  <1> USE DEF InstallBegins, At, CheckTo, BeginCheck, UpdateModel, Installing, InstallTo, Checked, Result, disk, catalog, threads
  <1>0. /\ marker' \in [Artifacts -> 0..MaxStamp]
        /\ pastMarkers' \subseteq [Artifacts -> 0..MaxStamp]
    BY MarkerTypes DEF StoreInv
  <1>1. TypeInv'
    BY <1>0 DEF StoreInv, TypeInv, TypeOK, CheckStates, InstallStates, Phases, Checkers
  <1>2. StampsName' /\ MarkersVouch'
    <2>1. CASE UNCHANGED <<marker, pastMarkers>>
      BY <2>1, DiskUntouched DEF StoreInv
    <2>2. CASE SetMarker(NoMarker)
      BY <2>2, MarkerRemoved DEF StoreInv
    <2> QED
      BY <2>1, <2>2
  <1>3. ChecksKnow'
    BY DEF StoreInv, ChecksKnow, NotBadOutside, TypeInv, TypeOK, CheckStates, InstallStates, Phases, Checkers
  <1>4. InstallKnows'
    BY DEF StoreInv, InstallKnows, NotBadOutside, TypeInv, TypeOK, CheckStates, InstallStates, Phases, Checkers
  <1>5. Exclusion'
    BY DEF StoreInv, Exclusion, TypeInv, TypeOK, CheckStates, InstallStates, Phases, Checkers
  <1>6. FilesAreKept'
    BY DEF StoreInv, FilesAreKept, Exclusion, GoodOutside, AllGood, TypeInv, TypeOK, CheckStates, InstallStates, Phases, Checkers
  <1> QED
    BY <1>1, <1>2, <1>3, <1>4, <1>5, <1>6 DEF StoreInv

\* An artifact that verifies is passed over, another is downloaded beside it.
LEMMA InstallNextStep ==
  ASSUME StoreInv, InstallNext
  PROVE  StoreInv'
  <1> USE DEF InstallNext, At, CheckTo, BeginCheck, UpdateModel, Installing, InstallTo, Checked, Result, disk, catalog, threads
  <1>1. TypeInv'
    <2>1. partial' \in [Artifacts -> Files] /\ clock' \in 1..MaxStamp
      BY StoreBounds DEF StoreInv, TypeInv, TypeOK, Files, Contents
    <2>2. install' \in InstallStates /\ check' \in [Checkers -> CheckStates]
      BY DEF StoreInv, TypeInv, InstallStates, CheckStates, Checkers
    <2>3. /\ marker' \in [Artifacts -> 0..MaxStamp]
          /\ pastMarkers' \subseteq [Artifacts -> 0..MaxStamp]
      BY MarkerTypes DEF StoreInv
    <2> QED
      BY <2>1, <2>2, <2>3 DEF StoreInv, TypeInv, TypeOK
  <1>2. StampsName' /\ MarkersVouch'
    <2>1. CASE UNCHANGED <<partial, marker, pastMarkers, clock>>
      BY <2>1, DiskUntouched DEF StoreInv
    <2>2. CASE /\ clock' = clock + 1 /\ clock < MaxStamp
               /\ \E a \in install.todo, content \in {"good", "short", "bad"} :
                    partial' = [partial EXCEPT ![a] = [content |-> content, stamp |-> clock]]
               /\ UNCHANGED <<marker, pastMarkers>>
      <3>1. PICK a \in Artifacts, content \in {"good", "short", "bad"} :
               partial' = [partial EXCEPT ![a] = [content |-> content, stamp |-> clock]]
        BY <2>2 DEF StoreInv, TypeInv, InstallStates
      <3> DEFINE g == [content |-> content, stamp |-> clock]
      <3>2. g \in Files /\ g.stamp = clock /\ clock \in Int
        BY <2>2, StoreBounds DEF StoreInv, TypeInv, TypeOK, Files, Contents
      <3>3. \A b \in Artifacts : AllFiles(b)' \subseteq AllFiles(b) \cup {g}
        BY <3>1 DEF AllFiles, StoreInv, TypeInv, TypeOK
      <3>4. Markers' \subseteq Markers
        BY <2>2 DEF Markers
      <3>5. StampsName /\ MarkersVouch /\ TypeInv /\ clock' = clock + 1
        BY <2>2 DEF StoreInv
      <3> HIDE DEF g
      <3> QED
        BY <3>2, <3>3, <3>4, <3>5, DiskGrows
    <2>3. CASE install.todo = {} /\ WriteMarker /\ UNCHANGED <<partial, clock>>
      <3>1. NotBadOutside({})
        BY <2>3 DEF StoreInv, InstallKnows
      <3> QED
        BY <2>3, <3>1, MarkerWritten DEF StoreInv
    <2> QED
      BY <2>1, <2>2, <2>3
  <1>3. ChecksKnow'
    BY DEF StoreInv, ChecksKnow, NotBadOutside, TypeInv, TypeOK, CheckStates, InstallStates, Phases, Checkers
  <1>4. InstallKnows'
    BY DEF StoreInv, InstallKnows, NotBadOutside, TypeInv, TypeOK, CheckStates, InstallStates, Phases, Checkers
  <1>5. Exclusion'
    BY DEF StoreInv, Exclusion, TypeInv, TypeOK, CheckStates, InstallStates, Phases, Checkers
  <1>6. FilesAreKept'
    BY DEF StoreInv, FilesAreKept, Exclusion, GoodOutside, AllGood, TypeInv, TypeOK, CheckStates, InstallStates, Phases, Checkers
  <1> QED
    BY <1>1, <1>2, <1>3, <1>4, <1>5, <1>6 DEF StoreInv

\* Only a file that nobody relies on gives way to the download.
LEMMA InstallArtifactStep ==
  ASSUME StoreInv, InstallArtifact
  PROVE  StoreInv'
  <1> USE DEF InstallArtifact, SetTarget, At, CheckTo, BeginCheck, UpdateModel, Installing, InstallTo, Checked, Result, disk, catalog, threads
  <1>a. PICK a \in Artifacts : install.todo = {a} /\ ~Verifies(target[a])
    BY DEF StoreInv, InstallKnows
  <1>b. \A b \in Artifacts \ {a} : target'[b] = target[b]
    BY <1>a DEF StoreInv, TypeInv, TypeOK
  <1>c. target'[a] = target[a] \/ target'[a] = Absent \/ Verifies(target'[a])
    BY <1>a DEF StoreInv, TypeInv, TypeOK, InstallKnows
  <1>d. ~Sized(Absent) /\ ~Verifies(Absent)
    BY DEF Sized, Verifies, Absent
  <1>1. TypeInv'
    <2>1. Absent \in Files
      BY StoreBounds DEF Absent, Files, Contents
    <2>2. /\ target' \in [Artifacts -> Files] /\ partial' \in [Artifacts -> Files]
          /\ past' \in [Artifacts -> SUBSET Files]
      BY <2>1 DEF StoreInv, TypeInv, TypeOK
    <2>3. install' \in InstallStates
      BY DEF StoreInv, TypeInv, InstallStates
    <2> QED
      BY <2>2, <2>3 DEF StoreInv, TypeInv, TypeOK
  <1>2. StampsName' /\ MarkersVouch'
    <2>1. \A b \in Artifacts : AllFiles(b)' \subseteq AllFiles(b)
      BY DEF AllFiles, StoreInv, TypeInv, TypeOK
    <2>2. Markers' = Markers /\ clock' = clock
      BY DEF Markers
    <2> QED
      BY <2>1, <2>2, DiskShrinks DEF StoreInv, TypeInv, TypeOK
  <1>3. ChecksKnow'
    <2>1. \A todo : NotBadOutside(todo) => NotBadOutside(todo)'
      BY <1>a, <1>b, <1>c, <1>d DEF NotBadOutside
    <2> QED
      BY <2>1 DEF StoreInv, ChecksKnow, TypeInv, CheckStates, Checkers
  <1>4. InstallKnows'
    <2>1. CASE install'.pc = "next"
      BY <2>1 DEF NotBadOutside, InstallKnows, StoreInv, TypeInv, InstallStates
    <2>2. CASE install'.pc = "rename"
      <3>1. install'.todo = {a} /\ Verifies(partial[a]) /\ partial' = partial
        BY <1>a, <2>2 DEF StoreInv, TypeInv, InstallStates
      <3>2. ~Verifies(target'[a])
        BY <1>a, <1>d, <2>2 DEF StoreInv, TypeInv, TypeOK, InstallStates
      <3> QED
        BY <2>2, <3>1, <3>2 DEF InstallKnows
    <2>3. CASE install'.pc = "failed"
      BY <2>3 DEF InstallKnows
    <2>4. install'.pc \in {"next", "rename", "failed"}
      BY DEF StoreInv, TypeInv, InstallStates
    <2> QED
      BY <2>1, <2>2, <2>3, <2>4
  <1>5. Exclusion'
    BY DEF StoreInv, Exclusion, TypeInv, TypeOK, CheckStates, InstallStates, Phases, Checkers
  <1>6. FilesAreKept'
    <2>1. ~AllGood
      BY <1>a DEF AllGood
    <2>2. \A todo : GoodOutside(todo) => GoodOutside(todo)'
      BY <1>a, <1>b DEF GoodOutside
    <2> QED
      BY <2>1, <2>2 DEF StoreInv, FilesAreKept, TypeInv, CheckStates, Checkers
  <1> QED
    BY <1>1, <1>2, <1>3, <1>4, <1>5, <1>6 DEF StoreInv

\* A removal meets nobody who relies on the files.
LEMMA RemoveFileStep ==
  ASSUME StoreInv, RemoveFile
  PROVE  StoreInv'
  <1> USE DEF RemoveFile, At, CheckTo, BeginCheck, UpdateModel, Installing, InstallTo, Checked, Result, disk, catalog, threads
  <1>0. /\ remove = "removing" /\ install.pc = "idle"
        /\ \A c \in Checkers : c = "user" \/ At(c, "idle")
        /\ user \in {"none", "requesting"}
    BY DEF StoreInv, Exclusion, TypeInv, InstallStates, Checkers
  <1>1. TypeInv'
    <2>1. Absent \in Files
      BY StoreBounds DEF Absent, Files, Contents
    <2>2. /\ target' \in [Artifacts -> Files] /\ partial' \in [Artifacts -> Files]
          /\ past' \in [Artifacts -> SUBSET Files]
      BY <2>1 DEF StoreInv, TypeInv, TypeOK, SetTarget
    <2>3. /\ marker' \in [Artifacts -> 0..MaxStamp]
          /\ pastMarkers' \subseteq [Artifacts -> 0..MaxStamp]
      BY MarkerTypes DEF StoreInv
    <2> QED
      BY <2>2, <2>3 DEF StoreInv, TypeInv, TypeOK
  <1>2. StampsName' /\ MarkersVouch'
    <2>1. \A b \in Artifacts : AllFiles(b)' \subseteq AllFiles(b)
      BY DEF AllFiles, SetTarget, StoreInv, TypeInv, TypeOK
    <2>2. Markers' \subseteq Markers /\ clock' = clock
      BY DEF Markers, SetMarker
    <2> QED
      BY <2>1, <2>2, DiskShrinks DEF StoreInv, TypeInv, TypeOK
  <1>3. ChecksKnow'
    <2>1. \A b \in Artifacts : target'[b] = target[b] \/ target'[b] = Absent
      BY DEF SetTarget, StoreInv, TypeInv, TypeOK
    <2>2. ~Sized(Absent)
      BY DEF Sized, Absent
    <2>3. \A todo : NotBadOutside(todo) => NotBadOutside(todo)'
      BY <2>1, <2>2 DEF NotBadOutside
    <2> QED
      BY <2>3 DEF StoreInv, ChecksKnow
  <1>4. InstallKnows'
    BY <1>0 DEF StoreInv, InstallKnows
  <1>5. Exclusion'
    BY DEF StoreInv, Exclusion, TypeInv, TypeOK, CheckStates, InstallStates, Phases, Checkers
  <1>6. FilesAreKept'
    BY <1>0 DEF FilesAreKept
  <1> QED
    BY <1>1, <1>2, <1>3, <1>4, <1>5, <1>6 DEF StoreInv

\* A crash leaves the directory as it is.
LEMMA CrashStep ==
  ASSUME StoreInv, Crash
  PROVE  StoreInv'
  <1> USE DEF Crash, At, CheckTo, BeginCheck, UpdateModel, Installing, InstallTo, Checked, Result, disk, catalog, threads
  <1>0. /\ \A c \in Checkers : check'[c] = Idle
        /\ install' = Idle /\ remove' = "idle" /\ user' = "none" /\ phase' = "NotInstalled"
    BY DEF Stopped
  <1>1. TypeInv'
    <2>1. Idle \in CheckStates /\ Idle \in InstallStates
      BY DEF Idle, CheckStates, InstallStates
    <2>2. /\ check' \in [Checkers -> CheckStates] /\ install' \in InstallStates
          /\ past' \in [Artifacts -> SUBSET Files] /\ pastMarkers' = {}
          /\ inspecting' \in BOOLEAN /\ installing' \in BOOLEAN /\ running' \in BOOLEAN
      BY <2>1 DEF Stopped
    <2>3. faults' \in 0..MaxFaults /\ phase' \in Phases
      BY <1>0, StoreBounds DEF StoreInv, TypeInv, TypeOK, Phases
    <2> QED
      BY <1>0, <2>2, <2>3 DEF StoreInv, TypeInv, TypeOK
  <1>2. StampsName' /\ MarkersVouch'
    <2>1. \A b \in Artifacts : AllFiles(b)' \subseteq AllFiles(b)
      BY DEF AllFiles, Stopped
    <2>2. Markers' \subseteq Markers /\ clock' = clock
      BY DEF Markers, Stopped
    <2> QED
      BY <2>1, <2>2, DiskShrinks DEF StoreInv, TypeInv, TypeOK
  <1>3. ChecksKnow'
    BY <1>0 DEF ChecksKnow, Idle, At
  <1>4. InstallKnows'
    BY <1>0 DEF InstallKnows, Idle
  <1>5. Exclusion'
    BY <1>0 DEF Exclusion, Stopped, Idle, At, Checkers
  <1>6. FilesAreKept'
    BY <1>0 DEF FilesAreKept, Idle, At
  <1> QED
    BY <1>1, <1>2, <1>3, <1>4, <1>5, <1>6 DEF StoreInv

\* A power loss brings back files and markers there have been.
LEMMA PowerLossStep ==
  ASSUME StoreInv, PowerLoss
  PROVE  StoreInv'
  <1> USE DEF PowerLoss, At, CheckTo, BeginCheck, UpdateModel, Installing, InstallTo, Checked, Result, disk, catalog, threads
  <1>0. /\ \A c \in Checkers : check'[c] = Idle
        /\ install' = Idle /\ remove' = "idle" /\ user' = "none" /\ phase' = "NotInstalled"
    BY DEF Stopped
  <1>1. TypeInv'
    <2>1. Idle \in CheckStates /\ Idle \in InstallStates
      BY DEF Idle, CheckStates, InstallStates
    <2>2. target' \in [Artifacts -> Files]
      BY DEF StoreInv, TypeInv, TypeOK
    <2>3. marker' \in [Artifacts -> 0..MaxStamp]
      BY StoreBounds DEF StoreInv, TypeInv, TypeOK, NoMarker
    <2>4. /\ check' \in [Checkers -> CheckStates] /\ install' \in InstallStates
          /\ past' \in [Artifacts -> SUBSET Files] /\ pastMarkers' = {}
          /\ inspecting' \in BOOLEAN /\ installing' \in BOOLEAN /\ running' \in BOOLEAN
      BY <2>1 DEF Stopped
    <2>5. faults' \in 0..MaxFaults /\ phase' \in Phases
      BY <1>0, StoreBounds DEF StoreInv, TypeInv, TypeOK, Phases
    <2> QED
      BY <1>0, <2>2, <2>3, <2>4, <2>5 DEF StoreInv, TypeInv, TypeOK
  <1>2. StampsName' /\ MarkersVouch'
    <2>1. \A b \in Artifacts : AllFiles(b)' \subseteq AllFiles(b)
      BY DEF AllFiles, Stopped
    <2>2. Markers' \subseteq Markers /\ clock' = clock
      BY DEF Markers, Stopped
    <2> QED
      BY <2>1, <2>2, DiskShrinks DEF StoreInv, TypeInv, TypeOK
  <1>3. ChecksKnow'
    BY <1>0 DEF ChecksKnow, Idle, At
  <1>4. InstallKnows'
    BY <1>0 DEF InstallKnows, Idle
  <1>5. Exclusion'
    BY <1>0 DEF Exclusion, Stopped, Idle, At, Checkers
  <1>6. FilesAreKept'
    BY <1>0 DEF FilesAreKept, Idle, At
  <1> QED
    BY <1>1, <1>2, <1>3, <1>4, <1>5, <1>6 DEF StoreInv

\* A file that is changed gets a stamp of its own.
LEMMA DamageStep ==
  ASSUME StoreInv, Damage
  PROVE  StoreInv'
  <1> USE DEF Damage, At, CheckTo, BeginCheck, UpdateModel, Installing, InstallTo, Checked, Result, disk, catalog, threads
  <1>0. /\ \A c \in Checkers : check[c] = Idle
        /\ install = Idle /\ remove = "idle" /\ user = "none" /\ phase = "NotInstalled"
    BY DEF StoreInv, Exclusion
  <1>a. PICK a \in Artifacts, content \in {"none", "short", "bad"} :
          target' = [target EXCEPT ![a] = IF content = "none" THEN Absent
                                          ELSE [content |-> content, stamp |-> clock]]
    OBVIOUS
  <1> DEFINE g == [content |-> content, stamp |-> clock]
  <1>b. g \in Files /\ g.stamp = clock /\ Absent \in Files /\ clock \in Int
    BY StoreBounds DEF Files, Contents, Absent, StoreInv, TypeInv, TypeOK
  <1>c. target' = [target EXCEPT ![a] = Absent] \/ target' = [target EXCEPT ![a] = g]
    BY <1>a
  <1> HIDE DEF g
  <1>1. TypeInv'
    <2>1. target' \in [Artifacts -> Files]
      BY <1>b, <1>c DEF StoreInv, TypeInv, TypeOK
    <2> QED
      BY <2>1, StoreBounds DEF StoreInv, TypeInv, TypeOK
  <1>2. StampsName' /\ MarkersVouch'
    <2>1. \A b \in Artifacts : AllFiles(b)' \subseteq AllFiles(b) \cup {g}
      BY <1>c DEF AllFiles, StoreInv, TypeInv, TypeOK
    <2>2. Markers' \subseteq Markers /\ clock' = clock + 1
      BY DEF Markers
    <2> QED
      BY <1>b, <2>1, <2>2, DiskGrows DEF StoreInv
  <1>3. ChecksKnow'
    BY <1>0 DEF ChecksKnow, Idle, At
  <1>4. InstallKnows'
    BY <1>0 DEF InstallKnows, Idle
  <1>5. Exclusion'
    BY DEF StoreInv, Exclusion, TypeInv, TypeOK, CheckStates, InstallStates, Phases, Checkers
  <1>6. FilesAreKept'
    BY <1>0 DEF FilesAreKept, Idle, At
  <1> QED
    BY <1>1, <1>2, <1>3, <1>4, <1>5, <1>6 DEF StoreInv

-----------------------------------------------------------------------------
(* The invariant.                                                          *)

\* A directory without files, an application that does not run.
LEMMA StoreInvInit ==
  ASSUME Init
  PROVE  StoreInv
  <1> USE DEF Init
  <1>0. /\ \A a \in Artifacts : AllFiles(a) = {Absent}
        /\ Markers = {NoMarker}
        /\ Absent.stamp = 0 /\ ~Sized(Absent)
        /\ \A a \in Artifacts : NoMarker[a] = 0
    BY DEF AllFiles, Markers, Absent, NoMarker, Sized
  <1>1. TypeInv
    <2>1. Absent \in Files /\ NoMarker \in [Artifacts -> 0..MaxStamp]
      BY StoreBounds DEF Absent, Files, Contents, NoMarker
    <2>2. Idle \in CheckStates /\ Idle \in InstallStates
      BY DEF Idle, CheckStates, InstallStates
    <2>a. /\ target \in [Artifacts -> Files] /\ partial \in [Artifacts -> Files]
          /\ marker \in [Artifacts -> 0..MaxStamp]
      BY <2>1
    <2>b. clock \in 1..MaxStamp /\ faults \in 0..MaxFaults /\ phase \in Phases
      BY StoreBounds DEF Phases
    <2>c. running \in BOOLEAN /\ inspecting \in BOOLEAN /\ installing \in BOOLEAN
      OBVIOUS
    <2>3. TypeOK
      BY <2>a, <2>b, <2>c DEF TypeOK
    <2>4. /\ past \in [Artifacts -> SUBSET Files]
          /\ check \in [Checkers -> CheckStates] /\ install \in InstallStates
      BY <2>2
    <2> QED
      BY <2>3, <2>4 DEF TypeInv
  <1>2. StampsName /\ MarkersVouch
    BY <1>0 DEF StampsName, MarkersVouch
  <1>3. ChecksKnow /\ InstallKnows /\ Exclusion /\ FilesAreKept
    BY DEF ChecksKnow, InstallKnows, Exclusion, FilesAreKept, Idle, At, Checkers
  <1> QED
    BY <1>1, <1>2, <1>3 DEF StoreInv

LEMMA StoreStutter ==
  ASSUME StoreInv, UNCHANGED vars
  PROVE  StoreInv'
  <1> USE DEF vars, disk, catalog, threads
  <1>1. TypeInv'
    BY DEF StoreInv, TypeInv, TypeOK
  <1>2. StampsName' /\ MarkersVouch'
    BY DiskUntouched DEF StoreInv
  <1>3. ChecksKnow' /\ InstallKnows'
    BY DEF StoreInv, ChecksKnow, InstallKnows, NotBadOutside, At
  <1>4. Exclusion' /\ FilesAreKept'
    BY DEF StoreInv, Exclusion, FilesAreKept, GoodOutside, AllGood, At
  <1> QED
    BY <1>1, <1>2, <1>3, <1>4 DEF StoreInv

\* Every step keeps the invariant.
LEMMA StoreInvStep ==
  ASSUME StoreInv, [Next]_vars
  PROVE  StoreInv'
  <1>1. CASE Launch
    BY <1>1, LaunchStep
  <1>2. CASE PublishInspection
    BY <1>2, PublishInspectionStep
  <1>3. CASE InstallModel
    BY <1>3, InstallModelStep
  <1>4. CASE InstallStep
    BY <1>4, InstallBeginsStep, InstallNextStep, InstallArtifactStep, InstallEndsStep DEF InstallStep
  <1>5. CASE InstallFails
    BY <1>5, InstallFailsStep
  <1>6. CASE RemoveModel \/ RemoveFile \/ RemoveEnds
    BY <1>6, RemoveModelStep, RemoveFileStep, RemoveEndsStep
  <1>7. CASE StartSession \/ LocateModel \/ EndSession \/ RequestVerified
    BY <1>7, StartSessionStep, LocateModelStep, EndSessionStep, RequestVerifiedStep
  <1>8. CASE Crash \/ PowerLoss \/ Damage
    BY <1>8, CrashStep, PowerLossStep, DamageStep
  <1>9. CASE \E c \in Checkers : CheckStep(c)
    BY <1>9, CheckSizesStep, CheckMarkerStep, CheckDigestStep DEF CheckStep
  <1>10. CASE UNCHANGED vars
    BY <1>10, StoreStutter
  <1> QED
    BY <1>1, <1>2, <1>3, <1>4, <1>5, <1>6, <1>7, <1>8, <1>9, <1>10 DEF Next

\* The strengthened invariant holds of every behaviour.
THEOREM StoreInvariant == Spec => []StoreInv
  <1>1. Init => StoreInv
    BY StoreInvInit
  <1>2. StoreInv /\ [Next]_vars => StoreInv'
    BY StoreInvStep
  <1> QED
    BY <1>1, <1>2, PTL DEF Spec

\* A marker that matches spares a launch the hashing of files that are good,
\* for every set of artifacts and any number of crashes, power losses, downloads,
\* removals and changes in between.
THEOREM MarkerSpec == Spec => []MarkerVouchesForGoodFiles
  <1>1. StoreInv => MarkerVouchesForGoodFiles
    BY MatchingMarker DEF StoreInv, MarkerVouchesForGoodFiles, AllGood
  <1> QED
    BY <1>1, StoreInvariant, PTL

\* What a session has loaded is good and stays so, although speech models may be
\* installed while it runs and although removals are asked for at any time.
THEOREM SessionSpec == Spec => []SessionsLoadVerifiedFiles
  <1>1. StoreInv => SessionsLoadVerifiedFiles
    BY DEF StoreInv, FilesAreKept, SessionsLoadVerifiedFiles, AllGood
  <1> QED
    BY <1>1, StoreInvariant, PTL

\* The catalogue says Ready only of a model that is there and good.
THEOREM ReadySpec == Spec => []ReadyIsInstalled
  <1>1. StoreInv => ReadyIsInstalled
    BY DEF StoreInv, FilesAreKept, ReadyIsInstalled, AllGood
  <1> QED
    BY <1>1, StoreInvariant, PTL

-----------------------------------------------------------------------------
(***************************************************************************)
(* Proofs about InferenceResources, for any models and any bounds.         *)
(*                                                                         *)
(* That the slot is the running worker's once all reports are handled says *)
(* nothing of the states before.  The strengthening follows each load on   *)
(* its way: as long as its worker is not the WebView's any more, its       *)
(* unload is behind it in the outbox (LoadsAreAccounted), and the last     *)
(* report of a bound worker is of the model it has (NewestIsLoaded).       *)
(***************************************************************************)

Names == Models \cup {None}
Reports == [phase : {"loaded", "unloaded"}, session : Nat, owner : Nat, model : Names]
Commands == [phase : {None, "loaded"}, session : Nat, owner : Nat, model : Names]
Slots == [session : Nat, owner : Nat, model : Names, token : Nat]

ResourcesTypeInv ==
  /\ revision \in Nat /\ view \in Nat /\ view <= revision
  /\ nextToken \in Nat
  /\ slot \in Slots
  /\ report \in [at : {"idle", "checked", "acquiring", "dropping"}, command : Commands, token : Nat]
  /\ owner \in Nat /\ bound \in Nat /\ loaded \in Names
  /\ outbox \in Seq(Reports)

\* A bound worker has loaded, and the WebView sees its session live.
BoundIsLive == bound # 0 => loaded # None /\ Live(view) /\ SessionOf(view) = bound

\* x was loaded by the worker that is bound, or its unload is at a place that
\* is not before first.
UnloadOf(x, i, q) == q[i].phase = "unloaded" /\ q[i].session = x.session /\ q[i].owner = x.owner
AccountedIn(x, first, b, o, q) ==
  x.session # 0 /\ ((x.session = b /\ x.owner = o) \/ \E i \in first..Len(q) : UnloadOf(x, i, q))
Accounted(x, first) == AccountedIn(x, first, bound, owner, outbox)
IsBound(x) == x.session = bound /\ x.owner = owner

InHand == report.at \in {"checked", "acquiring"}

LoadsAreAccounted ==
  /\ \A i \in 1..Len(outbox) : outbox[i].phase = "loaded" => Accounted(outbox[i], i + 1)
  /\ InHand => Accounted(report.command, 1)
  /\ slot # NoSlot => Accounted(slot, 1)

Newest == [phase |-> "loaded", session |-> bound, owner |-> owner, model |-> loaded]
BoundSessionLives == bound # 0 /\ Live(revision) /\ SessionOf(revision) = bound

NewestIsLoaded ==
  /\ bound # 0 /\ outbox # <<>> => outbox[Len(outbox)] = Newest
  /\ BoundSessionLives /\ outbox = <<>> =>
       /\ InHand => report.command = Newest
       /\ ~InHand /\ slot # NoSlot => slot.model = loaded
  /\ report.at = "acquiring" => slot = NoSlot

ResourceInv == ResourcesTypeInv /\ BoundIsLive /\ LoadsAreAccounted /\ NewestIsLoaded

-----------------------------------------------------------------------------
(* Numbers and sequences                                                    *)

LEMMA LiveRevisionIsUnique ==
  ASSUME NEW p \in Nat, NEW q \in Nat, Live(p), Live(q), SessionOf(p) = SessionOf(q)
  PROVE  p = q
  BY DEF Live, SessionOf

LEMMA LiveSessionIsNotZero ==
  ASSUME NEW r \in Nat, Live(r)
  PROVE  SessionOf(r) \in Nat /\ SessionOf(r) # 0
  BY DEF Live, SessionOf

LEMMA HeadAndTail ==
  ASSUME ResourcesTypeInv, outbox # <<>>
  PROVE  /\ Head(outbox) \in Reports /\ Head(outbox) = outbox[1]
         /\ Tail(outbox) \in Seq(Reports)
         /\ Len(outbox) \in Nat \ {0} /\ Len(Tail(outbox)) = Len(outbox) - 1
         /\ \A i \in 1..Len(Tail(outbox)) : Tail(outbox)[i] = outbox[i + 1]
         /\ Tail(outbox) = <<>> => Len(outbox) = 1
  <1>1. outbox \in Seq(Reports)
    BY DEF ResourcesTypeInv
  <1>2. Len(outbox) \in Nat \ {0} /\ Head(outbox) = outbox[1]
    BY <1>1, EmptySeq
  <1>3. /\ Head(outbox) \in Reports /\ Tail(outbox) \in Seq(Reports)
        /\ Len(Tail(outbox)) = Len(outbox) - 1
        /\ \A i \in 1..Len(Tail(outbox)) : Tail(outbox)[i] = outbox[i + 1]
    BY <1>1, HeadTailProperties
  <1>4. Tail(outbox) = <<>> => Len(Tail(outbox)) = 0
    BY EmptySeq
  <1> QED
    BY <1>2, <1>3, <1>4

LEMMA Appended ==
  ASSUME ResourcesTypeInv, NEW e \in Reports
  PROVE  /\ Append(outbox, e) \in Seq(Reports) /\ Append(outbox, e) # <<>>
         /\ Len(outbox) \in Nat /\ Len(Append(outbox, e)) = Len(outbox) + 1
         /\ Append(outbox, e)[Len(outbox) + 1] = e
         /\ \A i \in 1..Len(outbox) : Append(outbox, e)[i] = outbox[i] /\ outbox[i] \in Reports
  BY DEF ResourcesTypeInv

-----------------------------------------------------------------------------
(* What a step leaves alone is accounted for as before.                     *)

\* Nothing of the WebView changes.
LEMMA WebUnchanged ==
  ASSUME ResourceInv, UNCHANGED <<view, owner, loaded, bound, outbox>>,
         ResourcesTypeInv',
         report' = report \/ report'.at \notin {"checked", "acquiring"}
           \/ (report'.at \in {"checked", "acquiring"} /\ InHand /\ report'.command = report.command),
         slot' = slot \/ slot' = NoSlot
           \/ (InHand /\ slot'.session = report.command.session /\ slot'.owner = report.command.owner)
  PROVE  BoundIsLive' /\ LoadsAreAccounted'
  <1>1. BoundIsLive'
    BY DEF ResourceInv, BoundIsLive, Live, SessionOf
  <1>2. \A i \in 1..Len(outbox') : outbox'[i].phase = "loaded" => AccountedIn(outbox'[i], i + 1, bound', owner', outbox')
    BY DEF ResourceInv, LoadsAreAccounted, Accounted, AccountedIn, IsBound, UnloadOf
  <1>3. InHand' => AccountedIn(report'.command, 1, bound', owner', outbox')
    BY DEF ResourceInv, LoadsAreAccounted, Accounted, AccountedIn, IsBound, UnloadOf, InHand
  <1>4. slot' # NoSlot => AccountedIn(slot', 1, bound', owner', outbox')
    BY DEF ResourceInv, LoadsAreAccounted, Accounted, AccountedIn, IsBound, UnloadOf, InHand, NoSlot
  <1> QED
    BY <1>1, <1>2, <1>3, <1>4 DEF LoadsAreAccounted, Accounted

\* The host leaves the slot and the report alone; the supervisor may go on.
LEMMA SupervisorGoesOn ==
  ASSUME ResourceInv, ResourcesTypeInv', revision' \in {revision, revision + 1},
         UNCHANGED <<slot, report, view, owner, loaded, bound, outbox>>
  PROVE  ResourceInv'
  <1>1. BoundIsLive' /\ LoadsAreAccounted'
    BY WebUnchanged
  <1>2. ASSUME BoundSessionLives' PROVE revision' = view
    <2>1. bound # 0 /\ Live(revision') /\ SessionOf(revision') = bound
      BY <1>2 DEF BoundSessionLives, Live, SessionOf
    <2>2. Live(view) /\ SessionOf(view) = bound
      BY <2>1 DEF BoundIsLive, ResourceInv
    <2> QED
      BY <2>1, <2>2, LiveRevisionIsUnique DEF ResourcesTypeInv, ResourceInv
  <1>3. ASSUME BoundSessionLives' PROVE BoundSessionLives
    <2>1. revision' = revision
      BY <1>2, <1>3 DEF ResourceInv, ResourcesTypeInv
    <2> QED
      BY <2>1, <1>3 DEF BoundSessionLives, Live, SessionOf
  <1>4. NewestIsLoaded'
    BY <1>3 DEF NewestIsLoaded, ResourceInv, InHand, Newest
  <1> QED
    BY <1>1, <1>4 DEF ResourceInv

LEMMA SupervisorStep ==
  ASSUME ResourceInv, SessionStarts \/ SessionEnds \/ SessionReleased
  PROVE  ResourceInv'
  <1>1. ResourcesTypeInv'
    BY DEF ResourceInv, ResourcesTypeInv, SessionStarts, SessionEnds, SessionReleased, webVars
  <1> QED
    BY <1>1, SupervisorGoesOn DEF SessionStarts, SessionEnds, SessionReleased, webVars

LEMMA NativeStep ==
  ASSUME ResourceInv, NEW s \in Sessions,
         NativeAcquires(s) \/ NativeConflicts(s) \/ NativeDrops(s)
  PROVE  ResourceInv'
  <1>1. CASE NativeAcquires(s)
    <2>1. ResourcesTypeInv'
      BY <1>1 DEF ResourceInv, ResourcesTypeInv, NativeAcquires, Acquire, NewToken, webVars
    <2> QED
      BY <1>1, <2>1, SupervisorGoesOn DEF NativeAcquires, webVars
  <1>2. CASE NativeConflicts(s)
    <2>1. ResourcesTypeInv'
      BY <1>2 DEF ResourceInv, ResourcesTypeInv, NativeConflicts, webVars
    <2> QED
      BY <1>2, <2>1, SupervisorGoesOn DEF NativeConflicts, webVars
  <1>3. CASE NativeDrops(s)
    <2>1. ResourcesTypeInv'
      BY <1>3 DEF ResourceInv, ResourcesTypeInv, NativeDrops, webVars
    <2> QED
      BY <1>3, <2>1, SupervisorGoesOn DEF NativeDrops, webVars
  <1> QED
    BY <1>1, <1>2, <1>3

LEMMA MonitorStep ==
  ASSUME ResourceInv, NEW s \in Sessions,
         MonitorTakes(s) \/ MonitorDrops(s) \/ MonitorForces(s)
  PROVE  ResourceInv'
  <1>1. CASE MonitorTakes(s)
    <2>1. ResourcesTypeInv'
      BY <1>1 DEF ResourceInv, ResourcesTypeInv, MonitorTakes, webVars, NoSlot, Slots, Names, None
    <2>2. slot' = slot \/ slot' = NoSlot
      BY <1>1 DEF MonitorTakes
    <2>3. UNCHANGED <<revision, report, view, owner, loaded, bound, outbox>>
      BY <1>1 DEF MonitorTakes, webVars
    <2>4. BoundIsLive' /\ LoadsAreAccounted'
      BY <2>1, <2>2, <2>3, WebUnchanged
    <2>5. NewestIsLoaded'
      BY <2>2, <2>3 DEF NewestIsLoaded, ResourceInv, BoundSessionLives, InHand, Newest, Live, SessionOf
    <2> QED
      BY <2>1, <2>4, <2>5 DEF ResourceInv
  <1>2. CASE MonitorDrops(s)
    <2>1. ResourcesTypeInv'
      BY <1>2 DEF ResourceInv, ResourcesTypeInv, MonitorDrops, webVars
    <2> QED
      BY <1>2, <2>1, SupervisorGoesOn DEF MonitorDrops, webVars
  <1>3. CASE MonitorForces(s)
    <2>1. ResourcesTypeInv'
      BY <1>3 DEF ResourceInv, ResourcesTypeInv, MonitorForces, webVars
    <2> QED
      BY <1>3, <2>1, SupervisorGoesOn DEF MonitorForces, webVars
  <1> QED
    BY <1>1, <1>2, <1>3

-----------------------------------------------------------------------------
(* The reports                                                              *)

\* What is behind the head stays behind it, and a load is followed by what
\* followed it.
LEMMA ReportTaken ==
  ASSUME ResourceInv, outbox # <<>>, TakeReport, ResourcesTypeInv',
         UNCHANGED revision,
         NEW x, x.session # 0, Accounted(x, 1), ~UnloadOf(x, 1, outbox)
  PROVE  AccountedIn(x, 1, bound', owner', outbox')
  <1>1. UNCHANGED <<owner, bound>>
    BY DEF TakeReport
  <1>2. CASE IsBound(x)
    BY <1>1, <1>2 DEF Accounted, AccountedIn, IsBound
  <1>3. CASE \E i \in 1..Len(outbox) : UnloadOf(x, i, outbox)
    <2>1. PICK i \in 1..Len(outbox) : UnloadOf(x, i, outbox)
      BY <1>3
    <2>2. i # 1 /\ i - 1 \in 1..Len(outbox') /\ outbox'[i - 1] = outbox[i]
      BY <2>1, HeadAndTail DEF TakeReport, ResourceInv
    <2> QED
      BY <1>1, <2>1, <2>2 DEF Accounted, AccountedIn, UnloadOf
  <1> QED
    BY <1>2, <1>3 DEF Accounted, AccountedIn, IsBound

LEMMA RestIsAccounted ==
  ASSUME ResourceInv, outbox # <<>>, TakeReport
  PROVE  \A i \in 1..Len(outbox') : outbox'[i].phase = "loaded" => AccountedIn(outbox'[i], i + 1, bound', owner', outbox')
  <1> SUFFICES ASSUME NEW i \in 1..Len(outbox'), outbox'[i].phase = "loaded"
               PROVE  AccountedIn(outbox'[i], i + 1, bound', owner', outbox')
    OBVIOUS
  <1>1. outbox'[i] = outbox[i + 1] /\ i + 1 \in 1..Len(outbox) /\ Len(outbox') = Len(outbox) - 1
        /\ Len(outbox) \in Nat /\ i \in Nat
    BY HeadAndTail DEF TakeReport, ResourceInv
  <1>2. Accounted(outbox[i + 1], (i + 1) + 1)
    BY <1>1 DEF ResourceInv, LoadsAreAccounted
  <1>3. UNCHANGED <<owner, bound>>
    BY DEF TakeReport
  <1>4. CASE IsBound(outbox[i + 1])
    BY <1>1, <1>2, <1>3, <1>4 DEF Accounted, AccountedIn, IsBound
  <1>5. CASE \E j \in ((i + 1) + 1)..Len(outbox) : UnloadOf(outbox[i + 1], j, outbox)
    <2>1. PICK j \in ((i + 1) + 1)..Len(outbox) : UnloadOf(outbox[i + 1], j, outbox)
      BY <1>5
    <2>2. j - 1 \in (i + 1)..Len(outbox') /\ j - 1 \in 1..Len(outbox')
          /\ j = (j - 1) + 1
      BY <1>1, <2>1
    <2>3. outbox'[j - 1] = outbox[j]
      BY <2>2, HeadAndTail DEF TakeReport, ResourceInv
    <2> QED
      BY <1>1, <1>2, <1>3, <2>1, <2>2, <2>3 DEF Accounted, AccountedIn, UnloadOf
  <1> QED
    BY <1>2, <1>4, <1>5 DEF Accounted, AccountedIn, IsBound

LEMMA ReportTypes ==
  ASSUME ResourceInv, ReportLoaded \/ ReportUnloaded
  PROVE  ResourcesTypeInv'
  <1>1. Head(outbox) \in Reports /\ Tail(outbox) \in Seq(Reports)
    BY HeadAndTail DEF ReportLoaded, ReportUnloaded, ResourceInv
  <1>2. CASE ReportLoaded
    BY <1>1, <1>2 DEF ReportLoaded, ResourceInv, ResourcesTypeInv, TakeReport, Sent, NoReport, NoCommand,
       Reports, Commands, Names
  <1>3. CASE ReportUnloaded
    <2>1. slot' \in Slots
      BY <1>3 DEF ReportUnloaded, ResourceInv, ResourcesTypeInv, NoSlot, Slots, Names
    <2>2. report' = report \/ report' = [at |-> "dropping", command |-> NoCommand, token |-> slot.token]
      BY <1>3 DEF ReportUnloaded, NoReport
    <2>3. NoCommand \in Commands /\ slot.token \in Nat
      BY DEF NoCommand, Commands, Names, ResourceInv, ResourcesTypeInv, Slots
    <2> QED
      BY <1>1, <1>3, <2>1, <2>2, <2>3 DEF ReportUnloaded, ResourceInv, ResourcesTypeInv, TakeReport
  <1> QED
    BY <1>2, <1>3

LEMMA ReportLoadedStep ==
  ASSUME ResourceInv, ReportLoaded
  PROVE  ResourceInv'
  <1>1. outbox # <<>> /\ TakeReport /\ ResourcesTypeInv' /\ ~InHand
        /\ UNCHANGED <<revision, slot, view, owner, loaded, bound>>
    BY ReportTypes DEF ReportLoaded, TakeReport, NoReport, InHand
  <1>2. Head(outbox) = outbox[1] /\ Head(outbox).phase = "loaded" /\ 1 \in 1..Len(outbox)
        /\ Len(outbox) \in Nat /\ Head(outbox) \in Reports
    BY <1>1, HeadAndTail DEF ReportLoaded, Sent, ResourceInv
  <1>3. \A x : ~UnloadOf(x, 1, outbox)
    BY <1>2 DEF UnloadOf
  <1>4. BoundIsLive'
    BY <1>1 DEF ResourceInv, BoundIsLive, Live, SessionOf
  <1>5. LoadsAreAccounted'
    <2>1. slot' # NoSlot => AccountedIn(slot', 1, bound', owner', outbox')
      <3> SUFFICES ASSUME slot' # NoSlot PROVE AccountedIn(slot', 1, bound', owner', outbox')
        OBVIOUS
      <3>1. Accounted(slot, 1) /\ slot.session # 0
        BY <1>1 DEF ResourceInv, LoadsAreAccounted, Accounted, AccountedIn
      <3>2. AccountedIn(slot', 1, bound', owner', outbox')
        BY <1>1, <1>3, <3>1, ReportTaken DEF Accounted, AccountedIn, IsBound, UnloadOf
      <3> QED
        BY <3>2
    <2>2. InHand' => AccountedIn(report'.command, 1, bound', owner', outbox')
      <3> SUFFICES ASSUME InHand' PROVE AccountedIn(report'.command, 1, bound', owner', outbox')
        OBVIOUS
      <3>1. report'.command = Head(outbox)
        BY <1>1 DEF ReportLoaded, Sent, InHand, NoReport
      <3>2. Accounted(Head(outbox), 2)
        BY <1>2 DEF ResourceInv, LoadsAreAccounted
      <3>3. Accounted(Head(outbox), 1) /\ Head(outbox).session # 0
        BY <1>2, <3>2 DEF Accounted, AccountedIn
      <3> DEFINE c == Head(outbox)
      <3> HIDE DEF c
      <3>4. Accounted(c, 1) /\ c.session # 0 /\ ~UnloadOf(c, 1, outbox) /\ report'.command = c
        BY <1>3, <3>1, <3>3 DEF c
      <3> QED
        BY <1>1, <3>4, ReportTaken DEF Accounted, AccountedIn, IsBound, UnloadOf
    <2> QED
      BY <1>1, <2>1, <2>2, RestIsAccounted DEF LoadsAreAccounted, Accounted
  <1>6. NewestIsLoaded'
    <2>1. bound' # 0 /\ outbox' # <<>> => outbox'[Len(outbox')] = Newest'
      <3> SUFFICES ASSUME bound' # 0, outbox' # <<>> PROVE outbox'[Len(outbox')] = Newest'
        OBVIOUS
      <3>1. outbox[Len(outbox)] = Newest /\ Newest' = Newest
        BY <1>1 DEF ResourceInv, NewestIsLoaded, Newest
      <3>2. Len(outbox') \in 1..Len(outbox') /\ Len(outbox') + 1 = Len(outbox)
        BY <1>1, HeadAndTail, EmptySeq DEF ResourcesTypeInv, ResourceInv, TakeReport
      <3> QED
        BY <1>1, <3>1, <3>2, HeadAndTail DEF ResourceInv, TakeReport
    <2>2. ASSUME BoundSessionLives', outbox' = <<>>
          PROVE  InHand' /\ report'.command = Newest'
      <3>1. Len(outbox) = 1 /\ outbox[1] = Newest /\ Newest' = Newest
        BY <1>1, <2>2, HeadAndTail DEF ResourceInv, NewestIsLoaded, Newest, TakeReport, BoundSessionLives
      <3>2. Head(outbox).session = bound /\ SessionOf(revision) = bound /\ Live(revision)
        BY <1>1, <1>2, <2>2, <3>1 DEF BoundSessionLives, Newest, Live, SessionOf
      <3> QED
        BY <1>1, <1>2, <3>1, <3>2 DEF ReportLoaded, Sent, InHand, NoReport
    <2> QED
      BY <1>1, <2>1, <2>2 DEF NewestIsLoaded, ReportLoaded, NoReport
  <1> QED
    BY <1>1, <1>4, <1>5, <1>6 DEF ResourceInv

\* The unload of the head's worker empties the slot if it is that worker's.
LEMMA ReportUnloadedStep ==
  ASSUME ResourceInv, ReportUnloaded
  PROVE  ResourceInv'
  <1>1. report' = report \/ report'.at = "dropping"
    BY DEF ReportUnloaded, NoReport
  <1>2. report.at = "idle"
    BY DEF ReportUnloaded, NoReport
  <1>3. outbox # <<>> /\ TakeReport /\ ResourcesTypeInv' /\ ~InHand /\ ~InHand'
        /\ UNCHANGED <<revision, view, owner, loaded, bound>>
    BY <1>1, <1>2, ReportTypes DEF ReportUnloaded, TakeReport, InHand
  <1>4. Head(outbox) = outbox[1] /\ Len(outbox) \in Nat \ {0} /\ Head(outbox) \in Reports
        /\ outbox[1].phase = "unloaded"
    BY <1>3, HeadAndTail DEF ReportUnloaded, Sent, ResourceInv
  <1>5. BoundIsLive'
    BY <1>3 DEF ResourceInv, BoundIsLive, Live, SessionOf
  <1>6. slot' # NoSlot => slot' = slot /\ ~UnloadOf(slot, 1, outbox)
    BY <1>4 DEF ReportUnloaded, Sent, SlotIsOurs, UnloadOf
  <1>7. LoadsAreAccounted'
    <2>1. slot' # NoSlot => AccountedIn(slot', 1, bound', owner', outbox')
      <3> SUFFICES ASSUME slot' # NoSlot PROVE AccountedIn(slot', 1, bound', owner', outbox')
        OBVIOUS
      <3>1. slot' = slot /\ Accounted(slot, 1) /\ slot.session # 0
        BY <1>6 DEF ResourceInv, LoadsAreAccounted, Accounted, AccountedIn
      <3> QED
        BY <1>3, <1>6, <3>1, ReportTaken DEF Accounted, AccountedIn, IsBound, UnloadOf
    <2> QED
      BY <1>3, <2>1, RestIsAccounted DEF LoadsAreAccounted, Accounted
  <1>8. NewestIsLoaded'
    <2>1. ASSUME bound # 0
          PROVE  outbox[Len(outbox)] = Newest /\ Newest' = Newest /\ Len(outbox) # 1
      BY <1>3, <1>4, <2>1 DEF ResourceInv, NewestIsLoaded, Newest
    <2>2. ASSUME bound # 0
          PROVE  outbox' # <<>> /\ outbox'[Len(outbox')] = Newest'
      <3>1. Len(outbox') = Len(outbox) - 1 /\ outbox' # <<>> /\ Len(outbox') \in 1..Len(outbox')
        BY <1>3, <1>4, <2>1, <2>2, HeadAndTail, EmptySeq DEF ResourceInv, TakeReport
      <3>2. outbox'[Len(outbox')] = outbox[Len(outbox') + 1] /\ Len(outbox') + 1 = Len(outbox)
        BY <1>3, <1>4, <3>1, HeadAndTail DEF ResourceInv, TakeReport
      <3> QED
        BY <2>1, <2>2, <3>1, <3>2
    <2> QED
      BY <1>3, <2>2 DEF NewestIsLoaded, BoundSessionLives, InHand
  <1> QED
    BY <1>3, <1>5, <1>7, <1>8 DEF ResourceInv

\* A slot of another worker is not refused for ever: its unload is on the way.
LEMMA ReportRefusedStep ==
  ASSUME ResourceInv, ReportRefused
  PROVE  ResourceInv'
  <1>1. report.at = "checked" /\ InHand /\ ~InHand' /\ slot # NoSlot
        /\ UNCHANGED <<revision, slot, view, owner, loaded, bound, outbox>>
    BY DEF ReportRefused, webVars, InHand, NoReport
  <1>2. ResourcesTypeInv'
    BY <1>1 DEF ReportRefused, ResourceInv, ResourcesTypeInv, NoReport, NoCommand, Commands, Names
  <1>3. BoundIsLive' /\ LoadsAreAccounted'
    BY <1>1, <1>2, WebUnchanged DEF InHand
  <1>4. NewestIsLoaded'
    <2>1. ASSUME BoundSessionLives', outbox' = <<>>
          PROVE  slot'.model = loaded'
      <3>1. report.command = Newest /\ Accounted(slot, 1) /\ Len(outbox) = 0
        BY <1>1, <2>1, EmptySeq DEF ResourceInv, NewestIsLoaded, LoadsAreAccounted,
           BoundSessionLives, Live, SessionOf
      <3>2. slot.session = bound /\ slot.owner = owner
        BY <3>1 DEF Accounted, AccountedIn, IsBound
      <3>3. slot.model = report.command.model
        BY <1>1, <3>1, <3>2 DEF ReportRefused, SlotIsOurs, Newest
      <3> QED
        BY <1>1, <3>1, <3>3 DEF Newest
    <2> QED
      BY <1>1, <2>1 DEF NewestIsLoaded, ResourceInv, Newest, ReportRefused, NoReport
  <1> QED
    BY <1>2, <1>3, <1>4 DEF ResourceInv

LEMMA ReportReplacesStep ==
  ASSUME ResourceInv, ReportReplaces
  PROVE  ResourceInv'
  <1>1. InHand /\ InHand' /\ report'.command = report.command /\ slot' = NoSlot
        /\ UNCHANGED <<revision, view, owner, loaded, bound, outbox>>
    BY DEF ReportReplaces, webVars, InHand, ResourceInv, ResourcesTypeInv
  <1>2. ResourcesTypeInv'
    BY <1>1 DEF ReportReplaces, ResourceInv, ResourcesTypeInv, NoSlot, Slots, Names
  <1>3. BoundIsLive' /\ LoadsAreAccounted'
    BY <1>1, <1>2, WebUnchanged DEF InHand
  <1>4. NewestIsLoaded'
    BY <1>1 DEF NewestIsLoaded, ResourceInv, Newest, BoundSessionLives, Live, SessionOf
  <1> QED
    BY <1>2, <1>3, <1>4 DEF ResourceInv

LEMMA ReportAcquiresStep ==
  ASSUME ResourceInv, ReportAcquires
  PROVE  ResourceInv'
  <1>1. InHand /\ ~InHand' /\ report'.at = "idle" /\ slot = NoSlot
        /\ UNCHANGED <<revision, view, owner, loaded, bound, outbox>>
    BY DEF ReportAcquires, webVars, InHand, NoReport, ResourceInv, NewestIsLoaded
  <1>2. \/ slot' = slot
        \/ slot' = [session |-> report.command.session, owner |-> report.command.owner,
                    model |-> report.command.model, token |-> NewToken]
    BY DEF ReportAcquires
  <1>3. ResourcesTypeInv'
    <2>1. slot' \in Slots
      BY <1>2 DEF ResourceInv, ResourcesTypeInv, Slots, Commands, NewToken
    <2>2. nextToken' \in Nat
      BY DEF ReportAcquires, Acquire, NewToken, ResourceInv, ResourcesTypeInv
    <2> QED
      BY <1>1, <2>1, <2>2 DEF ReportAcquires, ResourceInv, ResourcesTypeInv, NoReport, NoCommand, Commands, Names
  <1>4. BoundIsLive' /\ LoadsAreAccounted'
    BY <1>1, <1>2, <1>3, WebUnchanged DEF InHand
  <1>5. NewestIsLoaded'
    <2>1. ASSUME BoundSessionLives', outbox' = <<>>, slot' # NoSlot
          PROVE  slot'.model = loaded'
      <3>1. report.command = Newest
        BY <1>1, <2>1 DEF ResourceInv, NewestIsLoaded, BoundSessionLives, Live, SessionOf
      <3> QED
        BY <1>1, <1>2, <2>1, <3>1 DEF Newest
    <2> QED
      BY <1>1, <2>1 DEF NewestIsLoaded, ResourceInv, Newest
  <1> QED
    BY <1>3, <1>4, <1>5 DEF ResourceInv

LEMMA ReportDropsStep ==
  ASSUME ResourceInv, ReportDrops
  PROVE  ResourceInv'
  <1>1. ~InHand /\ ~InHand' /\ report'.at = "idle"
        /\ UNCHANGED <<revision, slot, view, owner, loaded, bound, outbox>>
    BY DEF ReportDrops, webVars, InHand, NoReport
  <1>2. ResourcesTypeInv'
    BY <1>1 DEF ReportDrops, ResourceInv, ResourcesTypeInv, NoReport, NoCommand, Commands, Names
  <1>3. BoundIsLive' /\ LoadsAreAccounted'
    BY <1>1, <1>2, WebUnchanged DEF InHand
  <1>4. NewestIsLoaded'
    BY <1>1 DEF NewestIsLoaded, ResourceInv, Newest, BoundSessionLives, Live, SessionOf
  <1> QED
    BY <1>2, <1>3, <1>4 DEF ResourceInv

-----------------------------------------------------------------------------
(* The WebView                                                              *)

\* An unload of the bound worker accounts for all that the worker has loaded.
LEMMA UnloadStep ==
  ASSUME ResourceInv, NEW next \in Nat, Unload(next), NEW r \in Nat, r <= revision,
         view' = r, view <= r, UNCHANGED nativeVars
  PROVE  ResourceInv'
  <1>1. UNCHANGED <<revision, slot, report, nextToken>> /\ bound' = 0 /\ owner' = next /\ loaded' = None
        /\ outbox' = IF bound # 0 THEN Append(outbox, Unloaded) ELSE outbox
    BY DEF Unload, nativeVars
  <1>2. Unloaded \in Reports
    BY DEF Unloaded, Reports, Names, ResourceInv, ResourcesTypeInv
  <1>3. /\ bound = 0 => outbox' = outbox
        /\ bound # 0 => /\ Len(outbox') = Len(outbox) + 1
                        /\ outbox'[Len(outbox) + 1] = Unloaded
        /\ Len(outbox) \in Nat /\ Len(outbox') \in Nat /\ Len(outbox') >= Len(outbox)
        /\ outbox' \in Seq(Reports)
        /\ \A i \in 1..Len(outbox) : outbox'[i] = outbox[i]
    BY <1>1, <1>2, Appended DEF ResourceInv, ResourcesTypeInv
  <1>4. ResourcesTypeInv'
    BY <1>1, <1>3 DEF ResourceInv, ResourcesTypeInv, Names
  <1>5. ASSUME NEW x, NEW first \in Nat, 1 <= first, first <= Len(outbox) + 1, Accounted(x, first)
        PROVE  AccountedIn(x, first, bound', owner', outbox')
    <2>1. CASE IsBound(x)
      <3>1. bound # 0 /\ Len(outbox) + 1 \in first..Len(outbox')
        BY <1>3, <1>5, <2>1 DEF Accounted, AccountedIn, IsBound
      <3>2. outbox'[Len(outbox) + 1].phase = "unloaded"
            /\ outbox'[Len(outbox) + 1].session = x.session
            /\ outbox'[Len(outbox) + 1].owner = x.owner
        BY <1>3, <2>1, <3>1 DEF Unloaded, IsBound
      <3> QED
        BY <1>5, <3>1, <3>2 DEF Accounted, AccountedIn, UnloadOf
    <2>2. CASE \E i \in first..Len(outbox) : UnloadOf(x, i, outbox)
      <3>1. PICK i \in first..Len(outbox) : UnloadOf(x, i, outbox)
        BY <2>2
      <3>2. i \in 1..Len(outbox) /\ i \in first..Len(outbox')
        BY <1>3, <1>5, <3>1
      <3> QED
        BY <1>3, <1>5, <3>1, <3>2 DEF Accounted, AccountedIn, UnloadOf
    <2> QED
      BY <1>5, <2>1, <2>2 DEF Accounted, AccountedIn, IsBound
  <1>6. LoadsAreAccounted'
    <2>1. ASSUME NEW i \in 1..Len(outbox'), outbox'[i].phase = "loaded"
          PROVE  AccountedIn(outbox'[i], i + 1, bound', owner', outbox')
      <3>1. i \in 1..Len(outbox) /\ outbox'[i] = outbox[i] /\ i + 1 \in Nat /\ 1 <= i + 1
            /\ i + 1 <= Len(outbox) + 1
        BY <1>3, <2>1 DEF Unloaded
      <3>2. Accounted(outbox[i], i + 1)
        BY <2>1, <3>1 DEF ResourceInv, LoadsAreAccounted
      <3> DEFINE x == outbox[i]
      <3>3. x = outbox'[i]
        BY <3>1
      <3> HIDE DEF x
      <3>4. Accounted(x, i + 1)
        BY <3>2 DEF x
      <3>5. AccountedIn(x, i + 1, bound', owner', outbox')
        BY <1>5, <3>1, <3>4 DEF Accounted, AccountedIn, IsBound, UnloadOf
      <3> QED
        BY <3>3, <3>5 DEF Accounted, AccountedIn, IsBound, UnloadOf
    <2>2. InHand' => AccountedIn(report'.command, 1, bound', owner', outbox')
      BY <1>1, <1>3, <1>5 DEF ResourceInv, LoadsAreAccounted, InHand
    <2>3. slot' # NoSlot => AccountedIn(slot', 1, bound', owner', outbox')
      BY <1>1, <1>3, <1>5 DEF ResourceInv, LoadsAreAccounted, InHand
    <2> QED
      BY <2>1, <2>2, <2>3 DEF LoadsAreAccounted, Accounted
  <1>7. BoundIsLive'
    BY <1>1 DEF BoundIsLive
  <1>8. NewestIsLoaded'
    BY <1>1 DEF NewestIsLoaded, ResourceInv, BoundSessionLives
  <1> QED
    BY <1>4, <1>6, <1>7, <1>8 DEF ResourceInv

LEMMA SeeSnapshotStep ==
  ASSUME ResourceInv, SeeSnapshot
  PROVE  ResourceInv'
  <1>1. PICK r \in (view + 1)..revision :
          /\ view' = r
          /\ IF loaded # None /\ (~Live(r) \/ SessionOf(r) # SessionOf(view))
             THEN Unload(owner + 1)
             ELSE UNCHANGED <<owner, loaded, bound, outbox>>
    BY DEF SeeSnapshot
  <1>2. r \in Nat /\ r <= revision /\ view <= r /\ owner + 1 \in Nat /\ UNCHANGED nativeVars
    BY <1>1 DEF SeeSnapshot, ResourceInv, ResourcesTypeInv
  <1>3. CASE loaded # None /\ (~Live(r) \/ SessionOf(r) # SessionOf(view))
    BY <1>1, <1>2, <1>3, UnloadStep
  <1>4. CASE ~(loaded # None /\ (~Live(r) \/ SessionOf(r) # SessionOf(view)))
    <2>1. UNCHANGED <<revision, slot, report, nextToken, owner, loaded, bound, outbox>>
      BY <1>1, <1>2, <1>4 DEF nativeVars
    <2>2. ResourcesTypeInv'
      BY <1>1, <1>2, <2>1 DEF ResourceInv, ResourcesTypeInv
    <2>3. BoundIsLive'
      BY <1>1, <1>4, <2>1 DEF ResourceInv, BoundIsLive, Live, SessionOf
    <2>4. LoadsAreAccounted' /\ NewestIsLoaded'
      BY <2>1 DEF ResourceInv, LoadsAreAccounted, NewestIsLoaded, Accounted, AccountedIn, IsBound, UnloadOf,
         InHand, Newest, BoundSessionLives, Live, SessionOf
    <2> QED
      BY <2>2, <2>3, <2>4 DEF ResourceInv
  <1> QED
    BY <1>3, <1>4

LEMMA WorkerUnloadsStep ==
  ASSUME ResourceInv, WorkerUnloads
  PROVE  ResourceInv'
  <1>1. PICK next \in {owner, owner + 1} : Unload(next)
    BY DEF WorkerUnloads
  <1>2. next \in Nat /\ view \in Nat /\ view <= revision /\ view <= view /\ view' = view /\ UNCHANGED nativeVars
    BY <1>1 DEF WorkerUnloads, ResourceInv, ResourcesTypeInv
  <1> QED
    BY <1>1, <1>2, UnloadStep

\* A load while the session is live is the newest report; a load before is the
\* business of nobody.
LEMMA WorkerLoadsStep ==
  ASSUME ResourceInv, NEW m \in Models, WorkerLoads(m)
  PROVE  ResourceInv'
  <1>1. UNCHANGED <<revision, slot, report, nextToken, owner, view>> /\ loaded' = m
    BY DEF WorkerLoads, nativeVars
  <1>2. m \in Names /\ m # None
    BY ModelsAssumption DEF Names, None
  <1>3. CASE ~Live(view)
    <2>1. bound = 0 /\ UNCHANGED <<bound, outbox>>
      BY <1>3 DEF WorkerLoads, ResourceInv, BoundIsLive
    <2>2. ResourcesTypeInv'
      BY <1>1, <1>2, <2>1 DEF ResourceInv, ResourcesTypeInv
    <2>3. BoundIsLive' /\ LoadsAreAccounted' /\ NewestIsLoaded'
      BY <1>1, <2>1 DEF ResourceInv, LoadsAreAccounted, NewestIsLoaded, Accounted, AccountedIn, IsBound,
         UnloadOf, InHand, Newest, BoundSessionLives, BoundIsLive
    <2> QED
      BY <2>2, <2>3 DEF ResourceInv
  <1>4. CASE Live(view)
    <2> DEFINE e == [phase |-> "loaded", session |-> SessionOf(view), owner |-> owner, model |-> m]
    <2>1. SessionOf(view) \in Nat /\ SessionOf(view) # 0 /\ (bound # 0 => bound = SessionOf(view))
      BY <1>4, LiveSessionIsNotZero DEF ResourceInv, ResourcesTypeInv, BoundIsLive
    <2>2. e \in Reports
      BY <1>2, <2>1 DEF Reports, ResourceInv, ResourcesTypeInv
    <2>3. bound' = SessionOf(view) /\ outbox' = Append(outbox, e) /\ e = Newest'
      BY <1>1, <1>4 DEF WorkerLoads, Newest
    <2> HIDE DEF e
    <2>4. /\ outbox' \in Seq(Reports) /\ outbox' # <<>>
          /\ Len(outbox) \in Nat /\ Len(outbox') = Len(outbox) + 1
          /\ outbox'[Len(outbox')] = e
          /\ \A i \in 1..Len(outbox) : outbox'[i] = outbox[i]
      BY <2>2, <2>3, Appended DEF ResourceInv
    <2>5. ResourcesTypeInv'
      BY <1>1, <1>2, <2>1, <2>3, <2>4 DEF ResourceInv, ResourcesTypeInv
    <2>6. ASSUME NEW x, NEW first \in Nat, 1 <= first, Accounted(x, first)
          PROVE  AccountedIn(x, first, bound', owner', outbox')
      <3>1. CASE IsBound(x)
        BY <1>1, <2>1, <2>3, <2>6, <3>1 DEF Accounted, AccountedIn, IsBound
      <3>2. CASE \E i \in first..Len(outbox) : UnloadOf(x, i, outbox)
        <4>1. PICK i \in first..Len(outbox) : UnloadOf(x, i, outbox)
          BY <3>2
        <4>2. i \in 1..Len(outbox) /\ i \in first..Len(outbox')
          BY <2>4, <2>6, <4>1
        <4> QED
          BY <2>4, <2>6, <4>1, <4>2 DEF Accounted, AccountedIn, UnloadOf
      <3> QED
        BY <2>6, <3>1, <3>2 DEF Accounted, AccountedIn, IsBound
    <2>7. LoadsAreAccounted'
      <3>1. ASSUME NEW i \in 1..Len(outbox'), outbox'[i].phase = "loaded"
            PROVE  AccountedIn(outbox'[i], i + 1, bound', owner', outbox')
        <4>1. CASE i = Len(outbox')
          BY <1>1, <2>1, <2>3, <2>4, <4>1 DEF Accounted, AccountedIn, IsBound, Newest
        <4>2. CASE i # Len(outbox')
          <5>1. i \in 1..Len(outbox) /\ outbox'[i] = outbox[i] /\ i + 1 \in Nat /\ 1 <= i + 1
            BY <2>4, <3>1, <4>2
          <5> DEFINE x == outbox[i]
          <5>2. Accounted(x, i + 1) /\ x = outbox'[i]
            BY <3>1, <5>1 DEF ResourceInv, LoadsAreAccounted
          <5> HIDE DEF x
          <5>3. AccountedIn(x, i + 1, bound', owner', outbox')
            BY <2>6, <5>1, <5>2 DEF Accounted, AccountedIn, IsBound, UnloadOf
          <5> QED
            BY <5>2, <5>3 DEF Accounted, AccountedIn, IsBound, UnloadOf
        <4> QED
          BY <4>1, <4>2
      <3>2. InHand' => AccountedIn(report'.command, 1, bound', owner', outbox')
        BY <1>1, <2>4, <2>6 DEF ResourceInv, LoadsAreAccounted, InHand
      <3>3. slot' # NoSlot => AccountedIn(slot', 1, bound', owner', outbox')
        BY <1>1, <2>4, <2>6 DEF ResourceInv, LoadsAreAccounted, InHand
      <3> QED
        BY <3>1, <3>2, <3>3 DEF LoadsAreAccounted, Accounted
    <2>8. BoundIsLive'
      BY <1>1, <1>2, <1>4, <2>3 DEF BoundIsLive, Live, SessionOf
    <2>9. NewestIsLoaded'
      BY <1>1, <2>3, <2>4 DEF NewestIsLoaded, ResourceInv
    <2> QED
      BY <2>5, <2>7, <2>8, <2>9 DEF ResourceInv
  <1> QED
    BY <1>3, <1>4

-----------------------------------------------------------------------------
LEMMA ResourceInvInit == ResourcesInit => ResourceInv
  <1> SUFFICES ASSUME ResourcesInit PROVE ResourceInv
    OBVIOUS
  <1>1. ResourcesTypeInv
    BY DEF ResourcesInit, ResourcesTypeInv, NoSlot, Slots, NoReport, NoCommand, Commands, Reports, Names
  <1>2. Len(outbox) = 0 /\ outbox = <<>>
    BY EmptySeq DEF ResourcesInit
  <1> QED
    BY <1>1, <1>2 DEF ResourcesInit, ResourceInv, BoundIsLive, LoadsAreAccounted, NewestIsLoaded, NoReport, InHand,
       BoundSessionLives

LEMMA ResourceInvStep == ResourceInv /\ [ResourcesNext]_resourceVars => ResourceInv'
  <1> SUFFICES ASSUME ResourceInv, [ResourcesNext]_resourceVars PROVE ResourceInv'
    OBVIOUS
  <1>1. CASE SessionStarts \/ SessionEnds \/ SessionReleased
    BY <1>1, SupervisorStep
  <1>2. CASE \E s \in Sessions : NativeAcquires(s) \/ NativeConflicts(s) \/ NativeDrops(s)
    BY <1>2, NativeStep
  <1>3. CASE \E s \in Sessions : MonitorTakes(s) \/ MonitorDrops(s) \/ MonitorForces(s)
    BY <1>3, MonitorStep
  <1>4. CASE ReportLoaded
    BY <1>4, ReportLoadedStep
  <1>5. CASE ReportRefused \/ ReportReplaces
    BY <1>5, ReportRefusedStep, ReportReplacesStep
  <1>6. CASE ReportAcquires \/ ReportDrops
    BY <1>6, ReportAcquiresStep, ReportDropsStep
  <1>7. CASE ReportUnloaded
    BY <1>7, ReportUnloadedStep
  <1>8. CASE SeeSnapshot \/ WorkerUnloads
    BY <1>8, SeeSnapshotStep, WorkerUnloadsStep
  <1>9. CASE \E m \in Models : WorkerLoads(m)
    BY <1>9, WorkerLoadsStep
  <1>10. CASE UNCHANGED resourceVars
    <2>1. UNCHANGED <<revision, nextToken, slot, report, view, owner, loaded, bound, outbox>>
      BY <1>10 DEF resourceVars, nativeVars, webVars
    <2>2. ResourcesTypeInv'
      BY <2>1 DEF ResourceInv, ResourcesTypeInv
    <2> QED
      BY <2>1, <2>2, SupervisorGoesOn
  <1> QED
    BY <1>1, <1>2, <1>3, <1>4, <1>5, <1>6, <1>7, <1>8, <1>9, <1>10 DEF ResourcesNext

\* The strengthened invariant holds of every behaviour.
THEOREM ResourceInvariant == ResourcesSpec => []ResourceInv
  <1>1. ResourcesInit => ResourceInv
    BY ResourceInvInit
  <1>2. ResourceInv /\ [ResourcesNext]_resourceVars => ResourceInv'
    BY ResourceInvStep
  <1> QED
    BY <1>1, <1>2, PTL DEF ResourcesSpec

\* The host's record of the translation runtime is the WebView's, once the reports
\* are handled: for any number of sessions, workers, models and reports on their
\* way, whenever snapshots are seen and leases forced.
THEOREM TranslationRecordIsTrue == ResourcesSpec => []NoGhostTranslation
  <1>1. ResourceInv => NoGhostTranslation
    <2> SUFFICES ASSUME ResourceInv, outbox = <<>>, report = NoReport, slot # NoSlot
                 PROVE  /\ slot.session = bound /\ slot.owner = owner
                        /\ Live(revision) /\ SessionOf(revision) = bound => slot.model = loaded
      BY DEF NoGhostTranslation
    <2>1. Accounted(slot, 1) /\ Len(outbox) = 0
      BY EmptySeq DEF ResourceInv, LoadsAreAccounted
    <2>2. slot.session = bound /\ slot.owner = owner /\ bound # 0
      BY <2>1 DEF Accounted, AccountedIn
    <2>3. ~InHand
      BY DEF InHand, NoReport
    <2> QED
      BY <2>2, <2>3 DEF ResourceInv, NewestIsLoaded, BoundSessionLives
  <1> QED
    BY <1>1, ResourceInvariant, PTL
=============================================================================
