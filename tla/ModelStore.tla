----------------------------- MODULE ModelStore -----------------------------
(***************************************************************************)
(* A downloaded model on disk and in the catalogue: crates/model-manager,  *)
(* and the commands and threads around it that apps/desktop has three      *)
(* times, for speech (models.rs), OCR (visual.rs) and translation          *)
(* (translation.rs).                                                       *)
(*                                                                         *)
(* A file is what state() tells apart: whether it is there, has its size   *)
(* and has its digest, and its modification time, which is the stamp.  The *)
(* verification marker is one stamp per artifact; a marker that is missing *)
(* or cannot be read vouches for nothing, as one of zeros.                 *)
(*                                                                         *)
(* The process may end at any step, and the machine with it: data are      *)
(* synced before they are renamed, the directory and the marker are not,   *)
(* so a power loss may bring back any earlier state of each.  Between two  *)
(* runs files may be changed by others, which gives them a new stamp.      *)
(***************************************************************************)
EXTENDS Integers, Functions

CONSTANTS
  Artifacts,     \* the files of the model's manifest
  MaxStamp,      \* bound on the stamps, which bounds the downloads
  MaxFaults      \* bound on crashes, power losses, damages and failed calls

ASSUME StoreBounds == Artifacts # {} /\ MaxStamp \in Nat \ {0} /\ MaxFaults \in Nat

Checkers == {"inspection", "install", "user"}
Contents == {"none", "short", "bad", "good"}
Files == [content : Contents, stamp : 0..MaxStamp]
Absent == [content |-> "none", stamp |-> 0]
Phases == {"Checking", "NotInstalled", "Downloading", "Ready", "Corrupt", "Failed"}

VARIABLES
  running,      \* the application runs
  target, partial, marker,   \* the model's directory
  past,         \* per artifact, the files its name has had since the launch
  pastMarkers,  \* the markers there have been since the launch
  clock,
  phase, inspecting, installing,   \* the catalogue's entry and the two flags
  check,        \* ModelManager::state, per caller
  install,      \* the download thread
  remove,       \* the remove command
  user,         \* who uses the model
  faults

disk == <<target, partial, marker, past, pastMarkers, clock>>
catalog == <<phase, inspecting, installing>>
threads == <<check, install, remove, user>>
vars == <<running, disk, catalog, threads, faults>>

NoMarker == [a \in Artifacts |-> 0]
Idle == [pc |-> "idle", todo |-> {}]
At(c, pc) == check[c].pc = pc
CheckTo(c, pc) == check' = [check EXCEPT ![c].pc = pc]
BeginCheck(c) == check' = [check EXCEPT ![c] = [pc |-> "sizes", todo |-> Artifacts]]
Installing(pc) == running /\ install.pc = pc
InstallTo(pc) == install' = [install EXCEPT !.pc = pc]

\* update_model: every change of the catalogue's entry is one lock section.
UpdateModel(p) == phase' = p

Init ==
  /\ running = FALSE
  /\ target = [a \in Artifacts |-> Absent] /\ partial = [a \in Artifacts |-> Absent]
  /\ marker = NoMarker
  /\ past = [a \in Artifacts |-> {}] /\ pastMarkers = {}
  /\ clock = 1
  /\ phase = "NotInstalled" /\ inspecting = FALSE /\ installing = FALSE
  /\ check = [c \in Checkers |-> Idle]
  /\ install = Idle /\ remove = "idle" /\ user = "none"
  /\ faults = MaxFaults

-----------------------------------------------------------------------------
(* The directory.                                                          *)

\* artifact_metadata and verify_artifact
Sized(f) == f.content \in {"bad", "good"}
Verifies(f) == f.content = "good"

\* Faulty: the marker is compared by size alone.
MarkerMatchesSizes == \A a \in Artifacts : Sized(target[a]) /\ marker[a] # 0

\* verification_marker_matches
MarkerMatches == \A a \in Artifacts : Sized(target[a]) /\ marker[a] = target[a].stamp

SetTarget(a, f) ==
  /\ target' = [target EXCEPT ![a] = f]
  /\ past' = [past EXCEPT ![a] = @ \cup {target[a]}]
SetMarker(m) == marker' = m /\ pastMarkers' = pastMarkers \cup {marker}

\* write_verification_marker: an artifact that is gone or has another size by
\* now, or a failing call, leaves the marker as it is.
WriteMarker ==
  \/ (\A a \in Artifacts : Sized(target[a])) /\ SetMarker([a \in Artifacts |-> target[a].stamp])
  \/ ((\E a \in Artifacts : ~Sized(target[a])) \/ faults > 0) /\ UNCHANGED <<marker, pastMarkers>>

-----------------------------------------------------------------------------
(* ModelManager::state, called by the inspection at launch, at the end of  *)
(* an installation, by a session that starts and by the WebView's request  *)
(* for the verification of a translation model.                            *)

CheckSizes(c) ==
  /\ running /\ At(c, "sizes")
  /\ \/ /\ \A a \in Artifacts : target[a] = Absent
        /\ CheckTo(c, "NotInstalled")
        /\ UNCHANGED <<marker, pastMarkers>>
     \/ /\ \E a \in Artifacts : target[a] # Absent
        /\ \E a \in Artifacts : ~Sized(target[a])
        /\ CheckTo(c, "Corrupt") /\ SetMarker(NoMarker)
     \/ /\ \A a \in Artifacts : Sized(target[a])
        /\ CheckTo(c, "marker")
        /\ UNCHANGED <<marker, pastMarkers>>
  /\ UNCHANGED <<running, target, partial, past, clock, catalog, install, remove, user, faults>>

CheckMarker(c) ==
  /\ running /\ At(c, "marker")
  /\ CheckTo(c, IF MarkerMatches THEN "Ready" ELSE "hash")
  /\ UNCHANGED <<running, disk, catalog, install, remove, user, faults>>

\* Every artifact is hashed; an issue with one makes the model corrupt.
CheckDigest(c) ==
  /\ running /\ At(c, "hash")
  /\ \/ \E a \in check[c].todo :
          IF Verifies(target[a])
            THEN check' = [check EXCEPT ![c].todo = @ \ {a}] /\ UNCHANGED <<marker, pastMarkers>>
            ELSE CheckTo(c, "Corrupt") /\ SetMarker(NoMarker)
     \/ /\ check[c].todo = {}
        /\ CheckTo(c, "Ready") /\ WriteMarker
  /\ UNCHANGED <<running, target, partial, past, clock, catalog, install, remove, user, faults>>

Result(c) == check[c].pc
Checked(c) == Result(c) \in {"NotInstalled", "Corrupt", "Ready"}

CheckStep(c) == CheckSizes(c) \/ CheckMarker(c) \/ CheckDigest(c)

-----------------------------------------------------------------------------
(* initialize and its inspection thread.                                   *)

Launch ==
  /\ ~running
  /\ running' = TRUE
  /\ UpdateModel("Checking") /\ inspecting' = TRUE
  /\ BeginCheck("inspection")
  /\ UNCHANGED <<disk, installing, install, remove, user, faults>>

\* Faulty: the flag is given back before the result is in the catalogue.
PublishInspectionLate ==
  /\ running
  /\ \/ /\ Checked("inspection") /\ inspecting
        /\ inspecting' = FALSE
        /\ UNCHANGED <<phase, check>>
     \/ /\ Checked("inspection") /\ ~inspecting
        /\ UpdateModel(Result("inspection"))
        /\ CheckTo("inspection", "idle")
        /\ UNCHANGED inspecting
  /\ UNCHANGED <<running, disk, installing, install, remove, user, faults>>

\* The result goes into the catalogue, then the flag is given back.
PublishInspection ==
  /\ running
  /\ \/ /\ Checked("inspection")
        /\ UpdateModel(Result("inspection"))
        /\ CheckTo("inspection", "published")
        /\ UNCHANGED inspecting
     \/ /\ At("inspection", "published")
        /\ inspecting' = FALSE
        /\ CheckTo("inspection", "idle")
        /\ UNCHANGED phase
  /\ UNCHANGED <<running, disk, installing, install, remove, user, faults>>

-----------------------------------------------------------------------------
(* install_speech_model and ModelManager::install.                         *)

\* The command runs on the main thread, as does a removal.  That speech models
\* may be installed while a session runs is the least that is asked of it.
InstallModel ==
  /\ running /\ ~inspecting /\ ~installing /\ remove = "idle" /\ clock < MaxStamp
  /\ installing' = TRUE
  /\ UpdateModel("Downloading")
  /\ install' = [pc |-> "begin", todo |-> Artifacts]
  /\ UNCHANGED <<running, disk, inspecting, check, remove, user, faults>>

\* The marker is removed before any file is touched.
InstallBegins ==
  /\ Installing("begin") /\ InstallTo("next")
  /\ SetMarker(NoMarker) \/ (faults > 0 /\ UNCHANGED <<marker, pastMarkers>>)
  /\ UNCHANGED <<running, target, partial, past, clock, catalog, check, remove, user, faults>>

\* Faulty: a sidecar file that an earlier attempt left blocks the next one.
InstallNextAmongPartials ==
  /\ Installing("next")
  /\ \/ \E a \in install.todo :
          /\ Verifies(target[a])
          /\ install' = [install EXCEPT !.todo = @ \ {a}]
          /\ UNCHANGED <<partial, marker, pastMarkers, clock, check>>
     \/ \E a \in install.todo :
          /\ ~Verifies(target[a]) /\ clock < MaxStamp
          /\ IF partial[a] # Absent
               THEN install' = [install EXCEPT !.pc = "failed"] /\ UNCHANGED <<partial, clock>>
               ELSE /\ partial' = [partial EXCEPT ![a] = [content |-> "good", stamp |-> clock]]
                    /\ clock' = clock + 1
                    /\ install' = [pc |-> "downloaded", todo |-> {a}]
          /\ UNCHANGED <<marker, pastMarkers, check>>
     \/ /\ install.todo = {}
        /\ WriteMarker
        /\ InstallTo("location")
        /\ BeginCheck("install")
        /\ UNCHANGED <<partial, clock>>
  /\ UNCHANGED <<running, target, past, catalog, remove, user, faults>>

\* The next artifact: one that verifies is kept, another is downloaded into its
\* sidecar file.  When all are there the marker is written and the whole model
\* is looked at once more, as by anyone else.
InstallNext ==
  /\ Installing("next")
  /\ \/ \E a \in install.todo :
          /\ Verifies(target[a])
          /\ install' = [install EXCEPT !.todo = @ \ {a}]
          /\ UNCHANGED <<partial, marker, pastMarkers, clock, check>>
     \/ \E a \in install.todo :
          /\ ~Verifies(target[a]) /\ clock < MaxStamp
          /\ \E content \in {"good"} \cup {c \in {"short", "bad"} : faults > 0} :
               partial' = [partial EXCEPT ![a] = [content |-> content, stamp |-> clock]]
          /\ clock' = clock + 1
          /\ install' = [pc |-> "downloaded", todo |-> {a}]
          /\ UNCHANGED <<marker, pastMarkers, check>>
     \/ /\ install.todo = {}
        /\ WriteMarker
        /\ InstallTo("location")
        /\ BeginCheck("install")
        /\ UNCHANGED <<partial, clock>>
  /\ UNCHANGED <<running, target, past, catalog, remove, user, faults>>

\* Faulty: the sidecar file is renamed before it is verified.
InstallArtifactUnverified ==
  /\ Installing("downloaded")
  /\ \E a \in install.todo :
       /\ SetTarget(a, partial[a])
       /\ partial' = [partial EXCEPT ![a] = Absent]
       /\ install' = [pc |-> "next", todo |-> {b \in Artifacts : b # a /\ ~Verifies(target[b])}]
  /\ UNCHANGED <<running, marker, pastMarkers, clock, catalog, check, remove, user, faults>>

\* install_artifact after the download: the sidecar file is verified, removed
\* if it fails, and otherwise takes the place of the target, which is removed
\* first.  The artifacts already there are looked at again, to no effect.
InstallArtifact ==
  \E a \in install.todo :
    /\ \/ /\ Installing("downloaded") /\ ~Verifies(partial[a])
          /\ partial' = [partial EXCEPT ![a] = Absent]
          /\ InstallTo("failed")
          /\ UNCHANGED <<target, past>>
       \/ /\ Installing("downloaded") /\ Verifies(partial[a])
          /\ InstallTo("rename")
          /\ IF target[a] # Absent THEN SetTarget(a, Absent) ELSE UNCHANGED <<target, past>>
          /\ UNCHANGED partial
       \/ /\ Installing("rename")
          /\ SetTarget(a, partial[a])
          /\ partial' = [partial EXCEPT ![a] = Absent]
          /\ install' = [pc |-> "next", todo |-> Artifacts]
    /\ UNCHANGED <<running, marker, pastMarkers, clock, catalog, check, remove, user, faults>>

\* The connection breaks, the download is too long, or a call fails.
InstallFails ==
  /\ running /\ install.pc \in {"begin", "next", "downloaded", "rename"} /\ faults > 0
  /\ InstallTo("failed")
  /\ faults' = faults - 1
  /\ UNCHANGED <<running, disk, catalog, check, remove, user>>

\* The outcome goes into the catalogue, then the flag is given back.
InstallEnds ==
  /\ \/ /\ Installing("failed") /\ UpdateModel("Failed")
        /\ InstallTo("ended")
        /\ UNCHANGED <<installing, check>>
     \/ /\ Installing("location") /\ Checked("install")
        /\ UpdateModel(IF Result("install") = "Ready" THEN "Ready" ELSE "Failed")
        /\ InstallTo("ended")
        /\ CheckTo("install", "idle")
        /\ UNCHANGED installing
     \/ /\ Installing("ended") /\ installing' = FALSE
        /\ InstallTo("idle")
        /\ UNCHANGED <<phase, check>>
  /\ UNCHANGED <<running, disk, inspecting, remove, user, faults>>

-----------------------------------------------------------------------------
(* remove_speech_model: the control lock, which a start takes too, is held *)
(* while the directory is removed file by file.                            *)

RemoveAllowed == user \in {"none", "requesting"} /\ ~inspecting /\ ~installing

RemoveModel ==
  /\ running /\ remove = "idle" /\ RemoveAllowed
  /\ remove' = "removing"
  /\ UNCHANGED <<running, disk, catalog, check, install, user, faults>>

RemoveFile ==
  /\ running /\ remove = "removing"
  /\ \/ \E a \in Artifacts :
          /\ target[a] # Absent
          /\ SetTarget(a, Absent)
          /\ UNCHANGED <<partial, marker, pastMarkers>>
     \/ \E a \in Artifacts :
          /\ partial[a] # Absent
          /\ partial' = [partial EXCEPT ![a] = Absent]
          /\ UNCHANGED <<target, past, marker, pastMarkers>>
     \/ /\ marker # NoMarker
        /\ SetMarker(NoMarker)
        /\ UNCHANGED <<target, past, partial>>
  /\ UNCHANGED <<running, clock, catalog, threads, faults>>

\* A removal that fails half way leaves the catalogue as it was.
RemoveEnds ==
  /\ running /\ remove = "removing"
  /\ \/ /\ \A a \in Artifacts : target[a] = Absent /\ partial[a] = Absent
        /\ marker = NoMarker
        /\ UpdateModel("NotInstalled") /\ remove' = "idle"
        /\ UNCHANGED faults
     \/ /\ faults > 0 /\ faults' = faults - 1
        /\ remove' = "failed"
        /\ UNCHANGED phase
  /\ UNCHANGED <<running, disk, inspecting, installing, check, install, user>>

-----------------------------------------------------------------------------
(* Those who use the model, one at a time: a session, and the WebView,     *)
(* which asks whether a translation model still verifies.                  *)

\* selected_model_id, then location, on a thread of its own.
StartSession ==
  /\ running /\ user = "none" /\ remove # "removing" /\ phase = "Ready"
  /\ user' = "locating"
  /\ BeginCheck("user")
  /\ UNCHANGED <<running, disk, catalog, install, remove, faults>>

LocateModel ==
  /\ running /\ user = "locating" /\ Checked("user")
  /\ user' = IF Result("user") = "Ready" THEN "loaded" ELSE "none"
  /\ CheckTo("user", "idle")
  /\ UNCHANGED <<running, disk, catalog, install, remove, faults>>

EndSession ==
  /\ running /\ user = "loaded"
  /\ user' = "none"
  /\ UNCHANGED <<running, disk, catalog, check, install, remove, faults>>

\* read_protocol_resource for translation/<model>/verified.
RequestVerified ==
  /\ running
  /\ \/ /\ user = "none" /\ phase = "Ready"
        /\ user' = "requesting" /\ BeginCheck("user")
     \/ /\ user = "requesting" /\ Checked("user")
        /\ user' = "none" /\ CheckTo("user", "idle")
  /\ UNCHANGED <<running, disk, catalog, install, remove, faults>>

-----------------------------------------------------------------------------
(* The process ends, with or without a power loss; files change.           *)

Stopped ==
  /\ running' = FALSE
  /\ phase' = "NotInstalled" /\ inspecting' = FALSE /\ installing' = FALSE
  /\ check' = [c \in Checkers |-> Idle]
  /\ install' = Idle /\ remove' = "idle" /\ user' = "none"
  /\ past' = [a \in Artifacts |-> {}] /\ pastMarkers' = {}

Crash ==
  /\ running /\ faults > 0 /\ faults' = faults - 1
  /\ Stopped
  /\ UNCHANGED <<target, partial, marker, clock>>

PowerLoss ==
  /\ running /\ faults > 0 /\ faults' = faults - 1
  /\ Stopped
  /\ target' \in {f \in [Artifacts -> Range(target) \cup UNION Range(past)] :
                   \A a \in Artifacts : f[a] \in past[a] \cup {target[a]}}
  /\ marker' \in pastMarkers \cup {marker, NoMarker}
  /\ UNCHANGED <<partial, clock>>

Damage ==
  /\ ~running /\ faults > 0 /\ faults' = faults - 1 /\ clock < MaxStamp
  /\ \E a \in Artifacts, content \in {"none", "short", "bad"} :
       /\ target[a] # Absent
       /\ target' = [target EXCEPT ![a] = IF content = "none" THEN Absent
                                          ELSE [content |-> content, stamp |-> clock]]
  /\ clock' = clock + 1
  /\ UNCHANGED <<running, partial, marker, past, pastMarkers, catalog, threads>>

-----------------------------------------------------------------------------
InstallStep == InstallBegins \/ InstallNext \/ InstallArtifact \/ InstallEnds

Next ==
  \/ Launch \/ PublishInspection \/ InstallModel \/ InstallStep \/ InstallFails
  \/ RemoveModel \/ RemoveFile \/ RemoveEnds
  \/ StartSession \/ LocateModel \/ EndSession \/ RequestVerified
  \/ Crash \/ PowerLoss \/ Damage
  \/ \E c \in Checkers : CheckStep(c)

Spec == Init /\ [][Next]_vars

\* The threads run, downloads end because their connection has a timeout, and
\* the application is started again.
Fairness ==
  /\ WF_vars(Launch) /\ WF_vars(PublishInspection) /\ WF_vars(InstallStep)
  /\ WF_vars(RemoveFile \/ RemoveEnds)
  /\ \A c \in Checkers : WF_vars(CheckStep(c))

\* The user presses Install whenever the model is not ready.
Retries == WF_vars(InstallModel /\ phase \in {"NotInstalled", "Corrupt", "Failed"})

FairSpec == Spec /\ Fairness /\ Retries

-----------------------------------------------------------------------------
(* Properties.                                                             *)

TypeOK ==
  /\ running \in BOOLEAN /\ inspecting \in BOOLEAN /\ installing \in BOOLEAN
  /\ target \in [Artifacts -> Files] /\ partial \in [Artifacts -> Files]
  /\ marker \in [Artifacts -> 0..MaxStamp]
  /\ phase \in Phases /\ clock \in 1..MaxStamp /\ faults \in 0..MaxFaults

\* A marker that matches the files vouches for files whose digest is right,
\* whatever downloads, removals, crashes, power losses and changes came before:
\* a launch that skips the hashing because of it skips nothing.
MarkerVouchesForGoodFiles ==
  MarkerMatches => \A a \in Artifacts : Verifies(target[a])

\* What a session loads has the digests of the manifest and stays so while the
\* session has it, although models may be downloaded meanwhile.
SessionsLoadVerifiedFiles ==
  user = "loaded" => \A a \in Artifacts : Verifies(target[a])

\* The catalogue says Ready only of a model that is on disk, unless its removal
\* failed half way.
ReadyIsInstalled ==
  (running /\ phase = "Ready" /\ remove = "idle") => \A a \in Artifacts : Verifies(target[a])

\* No crash, broken download or damage leaves a state that a later installation
\* cannot repair: whoever keeps pressing Install gets a model that is ready.
RetriesSucceed == []<>(phase = "Ready" \/ clock = MaxStamp \/ remove # "idle")
=============================================================================
