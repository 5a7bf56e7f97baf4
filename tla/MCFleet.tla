------------------------------- MODULE MCFleet -------------------------------
(* Small instances of Fleet for TLC. *)
EXTENDS Fleet, TLC

Job(agents, delay, duration) ==
    [rps |-> agents, agents |-> agents, workers |-> 1, duration |-> duration,
     delay |-> delay, unthrottled |-> FALSE]

\* Held for two ticks, so that the first report is due in the third.
TwoAgents == {Job(2, 2, 2)}
\* No hold and a run of one tick.
NoHold    == {Job(2, 0, 1)}

Symmetry == Permutations(Agents) \union Permutations(Calls)
=============================================================================
