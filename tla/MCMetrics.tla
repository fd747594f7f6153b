------------------------------ MODULE MCMetrics ------------------------------
(***************************************************************************)
(* Two events and a request, counters that wrap at two, and two            *)
(* submissions at once.                                                    *)
(***************************************************************************)
EXTENDS Metrics
=============================================================================
