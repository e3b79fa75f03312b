------------------------- MODULE MCDetectorHistory --------------------------
(* Model-checking instance of DetectorHistory: values are in the cfg. *)
EXTENDS DetectorHistory, TLC

CONSTANT MaxScans  \* bound on the length of the history

MCNext == Next /\ Len(toolCalls') + Len(prompts') <= MaxScans

MCSpec == Init /\ [][MCNext]_vars

\* The detectors compare tools and texts only for equality.
Symmetry == Permutations(Tools) \cup Permutations(Texts)
=============================================================================
