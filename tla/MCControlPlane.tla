--------------------------- MODULE MCControlPlane ---------------------------
(* Small instances of ControlPlane for TLC. *)
EXTENDS ControlPlane, TLC

\* A request start_job refuses (the shares would not all be positive), one
\* whose RPS does not divide evenly, and one without a rate limit.
Uneven      == [rps |-> 3, agents |-> 2, workers |-> 1, duration |-> 1,
                delay |-> 0, unthrottled |-> FALSE]
Single      == [rps |-> 1, agents |-> 1, workers |-> 1, duration |-> 1,
                delay |-> 0, unthrottled |-> FALSE]
Unthrottled == [Uneven EXCEPT !.rps = 1, !.unthrottled = TRUE]
TooFew      == [Uneven EXCEPT !.rps = 1]

SingleOnly   == {Single}
ShareCases   == {Uneven, Unthrottled, TooFew}

Symmetry == Permutations(Jobs) \union Permutations(Agents)
                \union Permutations(Calls) \union Permutations(Crons)
=============================================================================
