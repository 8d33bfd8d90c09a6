------------------------- MODULE MCWorkflowPlugin -------------------------
(* Model-checking harness for WorkflowPlugin; constants come from the cfgs. *)
EXTENDS WorkflowPlugin

=============================================================================
