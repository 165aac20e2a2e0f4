----------------------------- MODULE MCPlanTables -----------------------------
(* PlanTables for TLC: tables of 2 to 256 slots, of which twiddle factors for 32 to *)
(* 1024 points and real plans are made, and executed up to 32 points.               *)
EXTENDS PlanTables

MCLogs == 1..8
MCBuilds == {"scalar", "sse", "sse3", "neon"}
==============================================================================
