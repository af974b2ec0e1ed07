----------------------------- MODULE MCProfiler -----------------------------
(* Constants for model checking Profiler.                                  *)
EXTENDS Profiler

DefaultRuns == -1
=============================================================================
