---------------------- MODULE MCTranslationScheduler ----------------------
(* TranslationScheduler for TLC: two workloads or two routes, time in small *)
(* units.                                                                  *)
EXTENDS TranslationScheduler

CONSTANTS a, b   \* coalescing keys

MCProfiles == {"captionFinal", "captionLive"}
MCPriority == [p \in MCProfiles |-> IF p = "captionFinal" THEN 2 ELSE 1]
MCBudget == [p \in MCProfiles |-> IF p = "captionFinal" THEN 2 ELSE 1]
MCRoutes == {"ja:en", "es:en"}
MCKeys == {a, b}

\* Workloads of two keys that share a route, in two sessions; two routes in one
\* session, each with its key, one of them prepared ahead.
Workloads ==
  [sessions |-> 2, queued |-> 2, preloads |-> {},
   submissions |-> {<<"ja:en", "captionFinal", a>>, <<"ja:en", "captionLive", a>>,
                    <<"ja:en", "captionFinal", b>>}]
Languages ==
  [sessions |-> 1, queued |-> 1, preloads |-> {"ja:en"},
   submissions |-> {<<"ja:en", "captionFinal", a>>, <<"es:en", "captionLive", b>>}]
MCScenarios == {Workloads, Languages}
=============================================================================
