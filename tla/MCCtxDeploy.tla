---------------------------- MODULE MCCtxDeploy ----------------------------
(* Small instances of CtxDeploy: two profiles that share one file, of which one owns another. *)
EXTENDS CtxDeploy, TLC

CONSTANTS debug, docs, p1, p2, n1, n2, base_md, mcp_json, user_md

\* debug: CLAUDE.md, .mcp.json and a file outside the project; docs: CLAUDE.md; no profile: nothing
MCOutput == (debug :> {base_md, mcp_json, user_md}) @@ (docs :> {base_md}) @@ (NoProfile :> {})

\* the memory runs leave the files out
NoOutput == [q \in Profiles \cup {NoProfile} |-> {}]
=============================================================================
