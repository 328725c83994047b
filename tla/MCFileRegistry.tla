---------------------------- MODULE MCFileRegistry ----------------------------
(* Small instances of FileRegistry for TLC. *)
EXTENDS FileRegistry, TLC

CONSTANTS m1, m2, m3, p1, p2, o1, o2

\* m1 and m3 run in one process, m2 in another.
MCProcOf == m1 :> p1 @@ m2 :> p2 @@ m3 :> p1

MCProcOfTwo == m1 :> p1 @@ m2 :> p2

Req(k, o, s, t) == [kind |-> k, op |-> o, status |-> s, at |-> t]

\* Creates of two ids and an update that purges one of them.
MCRequests ==
    {Req("create", o1, "starting", 1), Req("create", o2, "starting", 2),
     Req("update", o1, "completed", 2)}

\* The lock alone.
MCOneRequest == {Req("create", o1, "starting", 1)}
=============================================================================
