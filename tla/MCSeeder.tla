------------------------------ MODULE MCSeeder ------------------------------
(* Small instances of Seeder for TLC. *)
EXTENDS Seeder

Line(keyspace, size, flags) ==
    [keyspace |-> keyspace, size |-> size, force |-> "force" \in flags,
     repair |-> "repair" \in flags, dryRun |-> "dryRun" \in flags]

Flags == {{}, {"force"}, {"repair"}, {"force", "repair"}, {"dryRun"},
          {"dryRun", "repair"}}

\* Every useful combination of flags for one shape, and plain and repairing
\* runs with more objects, of either size, which take two pages.
EveryFlag == {Line(1, 1, f) : f \in Flags}
                 \union {Line(2, 2, {}), Line(2, 2, {"repair"}),
                         Line(2, 1, {"repair"})}

\* Plain and repairing runs of two sizes.
TwoSizes == {Line(1, s, f) : s \in {1, 2}, f \in {{}, {"repair"}}}

=============================================================================
