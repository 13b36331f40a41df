--------------------------- MODULE MCConfiguration ---------------------------
(***************************************************************************)
(* The configuration for TLC: either the repository on its disk, or, on a   *)
(* repository that has been loaded, the windows that share its snapshot.    *)
(***************************************************************************)
EXTENDS ConfigurationRepository, ConfigurationSync, TLC

ASSUME ChangesAssumption == Changes \cap Native = {}
ASSUME SwitchAssumption == MayFail \in BOOLEAN

VARIABLE system    \* "disk" or "windows"

Empty == [r \in Revisions |-> "absent"]
MCConfigs == {"default", "migrated", "changed"}

\* Nothing, a document of schema 0, what a later version has left, and a
\* document of schema 0 that cannot be migrated.
MCLaunches ==
  {Empty, (1 :> "legacy") @@ Empty, (1 :> "changed" @@ 2 :> "newer") @@ Empty,
   (1 :> "changed" @@ 2 :> "legacyInvalid") @@ Empty}

Loaded ==
  /\ dirs = <<(1 :> Default) @@ Empty>>
  /\ temps = {} /\ pc = "ready" /\ task = "load" /\ candidates = {}
  /\ writing = NoSnapshot /\ snapshot = [revision |-> 1, config |-> Default]
  /\ answer = "none" /\ leftover = {} /\ damaged = FALSE /\ faults = 0

MCInit ==
  /\ WindowsInit
  /\ \/ system = "disk" /\ Init
     \/ system = "windows" /\ Loaded

MCNext ==
  \/ system = "disk" /\ Next /\ UNCHANGED <<system, windowVars>>
  \/ system = "windows" /\ WindowsNext /\ UNCHANGED <<system, vars>>

allVars == <<vars, system, windowVars>>

OnDisk(A) == system = "disk" /\ A /\ UNCHANGED <<system, windowVars>>
InWindows(A) == system = "windows" /\ A /\ UNCHANGED <<system, vars>>

MCSpec ==
  /\ MCInit /\ [][MCNext]_allVars
  /\ WF_allVars(OnDisk(Launch)) /\ WF_allVars(OnDisk(LoadStep)) /\ WF_allVars(OnDisk(PublishStep))
  /\ \A w \in WebViews :
       /\ WF_allVars(InWindows(HostServes(w)))
       /\ WF_allVars(InWindows(MessageArrives(w)))
       /\ WF_allVars(InWindows(Pump(w)))
=============================================================================
