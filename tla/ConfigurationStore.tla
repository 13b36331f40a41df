------------------------- MODULE ConfigurationStore -------------------------
(***************************************************************************)
(* What the configuration repository promises: one stored configuration,   *)
(* replaced as a whole by the one that a caller asked to store, at one      *)
(* moment between the question and the answer.  An accepted configuration   *)
(* is stored, a refused one is not, and a crash forgets the question and    *)
(* never what is stored.  Only damage to the medium may lose it.            *)
(***************************************************************************)
CONSTANTS Configs, NoConfig

VARIABLES
  stored,     \* the configuration the next launch finds
  asked,      \* the configuration a caller wants stored, or NoConfig
  committed,  \* it is stored
  answer,     \* the latest answer
  damaged     \* the medium has lost something

vars == <<stored, asked, committed, answer, damaged>>

Init ==
  /\ stored \in Configs
  /\ asked = NoConfig /\ committed = FALSE /\ answer = "none" /\ damaged = FALSE

Ask(c) ==
  /\ asked = NoConfig
  /\ asked' = c
  /\ answer' = "none"
  /\ UNCHANGED <<stored, committed, damaged>>

Commit ==
  /\ asked # NoConfig /\ ~committed
  /\ stored' = asked
  /\ committed' = TRUE
  /\ UNCHANGED <<asked, answer, damaged>>

Accept ==
  /\ committed
  /\ asked' = NoConfig /\ committed' = FALSE /\ answer' = "accepted"
  /\ UNCHANGED <<stored, damaged>>

Refuse ==
  /\ asked # NoConfig /\ ~committed
  /\ asked' = NoConfig /\ answer' = "refused"
  /\ UNCHANGED <<stored, committed, damaged>>

Crash ==
  /\ asked' = NoConfig /\ committed' = FALSE /\ answer' = "none"
  /\ UNCHANGED <<stored, damaged>>

Damage ==
  /\ damaged' = TRUE
  /\ stored' \in Configs
  /\ \/ asked' = NoConfig /\ committed' = FALSE /\ answer' = "none"
     \/ UNCHANGED <<asked, committed, answer>>

Next == (\E c \in Configs : Ask(c)) \/ Commit \/ Accept \/ Refuse \/ Crash \/ Damage

Spec == Init /\ [][Next]_vars
=============================================================================
