---------------------------- MODULE MCRateLimiter ----------------------------
(***************************************************************************)
(* Small instances of RateLimiter for TLC.                                 *)
(***************************************************************************)
EXTENDS RateLimiter

\* The first two segments of the paths that the runs use.
MCArea ==
  [p \in {"/api/v1/topics", "/api/v1/search", "/docs", "/api/v1/health/live"} |->
     IF p = "/docs" THEN "docs" ELSE "api/v1"]
MCPaths == DOMAIN MCArea
MCExempt == {"/api/v1/health/live"}

=============================================================================
