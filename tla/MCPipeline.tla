----------------------------- MODULE MCPipeline -----------------------------
(* An instance of Pipeline for TLC. *)
EXTENDS Pipeline

MCRoles == PipelineRoles

\* A run from each turn, and two that are resumed.
MCLaunches == {<<"A">>, <<"B", "E">>, <<"C">>, <<"D", "E">>}

=============================================================================
