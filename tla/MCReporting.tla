---------------------------- MODULE MCReporting ----------------------------
(* Small instances of Reporting for TLC. *)
EXTENDS Reporting, TLC

\* A fast response, one that is an error of the server and whose latency is
\* past the last bucket, and a request that failed.
Fast   == [kind |-> "2xx", latency |-> 2, bytes |-> 2]
Slow   == [kind |-> "5xx", latency |-> 7, bytes |-> 1]
Failed == [kind |-> "error", latency |-> 1, bytes |-> 0]
AnyResponse == {Fast, Slow, Failed}

Symmetry == Permutations(Workers)
=============================================================================
