---------------------------- MODULE MCEnginePool ----------------------------
\* Instances of EnginePool for TLC.
EXTENDS EnginePool, TLC

CONSTANTS r1, r2, r3, f1, f2

\* A task that only borrows, one that reloads or migrates, and one that migrates.
MCServes == (r1 :> {"Rows", "Sql"}) @@ (r2 :> Refreshing) @@ (r3 :> {"Apply"})

\* Files are interchangeable.
MCSymmetry == Permutations(Files)

\* A reader, a reload and a migration.
MCServesOneEach == (r1 :> Reading \cup {"Sql"})
                     @@ (r2 :> {"Reload", "Preview"}) @@ (r3 :> {"Apply"})
=============================================================================
