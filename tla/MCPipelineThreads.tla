------------------------- MODULE MCPipelineThreads --------------------------
(* Model-checking instance of PipelineThreads: values are in the cfg. *)
EXTENDS PipelineThreads, TLC

\* Two spans of one trace and one of each of two others: three calls may fill the
\* room for two traces, or leave it and repeat a prompt beside another trace's.
TwoAndOnes ==
  [s \in Spans |-> CASE s = "other" -> "t2" [] s = "third" -> "t3" [] OTHER -> "t1"]

ThreadSymmetry == Permutations(Threads)
=============================================================================
