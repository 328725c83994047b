---- MODULE MCAccessRunner ----
\* Model values for AccessRunner: a writer and two readers, each in a process
\* of its own, or all in one scope.
EXTENDS AccessRunner, TLC
CONSTANTS w, r1, r2, h1, h2, h3
MCHostOf == (w :> h1) @@ (r1 :> h2) @@ (r2 :> h3)
MCHostOf2 == (w :> h1) @@ (r1 :> h2)
\* The two readers and their processes may be swapped.
ReaderSymmetry == {(r1 :> r2) @@ (r2 :> r1) @@ (h2 :> h3) @@ (h3 :> h2)}
MCRootOf == [o \in Ops |-> "root"]
====
