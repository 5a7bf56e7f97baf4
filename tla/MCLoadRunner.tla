---------------------------- MODULE MCLoadRunner ----------------------------
(* Small instances of LoadRunner for TLC. *)
EXTENDS LoadRunner, TLC

TwoWorkers == 1 .. 2

\* A rate that leaves a fraction every tick and asks for more workers than
\* there may be, one below a token in four ticks, and an unthrottled run that
\* leaves the number of workers to the agent.
Fast    == [rps |-> 4, workers |-> 5, unthrottled |-> FALSE]
Slow    == [rps |-> 1, workers |-> 2, unthrottled |-> FALSE]
Flatout == [rps |-> 3, workers |-> 0, unthrottled |-> TRUE]
AnyOrder == {Fast, Slow, Flatout}
=============================================================================
