---------------------------- MODULE MCPipeServer ----------------------------
(* Instances of PipeServer for TLC. *)
EXTENDS PipeServer

\* A client that has stopped reading only holds up the writer, which need not
\* run anyway: it matters to what must happen, and adds nothing to what may.
NoneStalled == \A s \in Sessions : peer[s] # "stalled"
=============================================================================
