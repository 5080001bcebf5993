----------------------------- MODULE MCPipeline -----------------------------
(* Instances of Pipeline for TLC: what the stack may hold where prev is. *)
EXTENDS Pipeline

NoDescriptor == {-1}

\* No descriptor, the standard input, and the two that the first pipe gets.
AnyNumber == {-1, 0, 4, 5}
=============================================================================
