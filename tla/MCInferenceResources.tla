----------------------- MODULE MCInferenceResources -----------------------
(* InferenceResources for TLC.                                             *)
EXTENDS InferenceResources

OneModel == {"opus"}
=============================================================================
