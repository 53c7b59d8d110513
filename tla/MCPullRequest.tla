--------------------------- MODULE MCPullRequest ---------------------------
(* SemanticPullRequest on a small instance. *)
EXTENDS SemanticPullRequest
=============================================================================
