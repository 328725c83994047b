---------------------------- MODULE AtomicRegistry ----------------------------
(***************************************************************************)
(* What the registry promises its callers: every create and update behaves *)
(* as one indivisible read-modify-write of the record map, whichever       *)
(* process issued it ("MUST serialize shared registry mutations across     *)
(* processes").  A call may also fail, and then it changes nothing.        *)
(***************************************************************************)
EXTENDS RegistryRecords

CONSTANT Mutations   \* calls of create and update

VARIABLES
    records,   \* the shared record map
    req,       \* the request each call carries
    outcome    \* what each call's read-modify-write decided, or "pending"

absVars == <<records, req, outcome>>

Outcomes == {"pending", "stored", "undefined"}

AbsInit ==
    /\ records = NoRecords
    /\ req \in [Mutations -> Requests]
    /\ outcome = [m \in Mutations |-> "pending"]

\* The read-modify-write of call m, at once.
Apply(m) ==
    /\ outcome[m] = "pending"
    /\ outcome' = [outcome EXCEPT ![m] = Returned(req[m], records)]
    /\ IF Writes(req[m], records)
       THEN records' \in Effects(req[m], records)
       ELSE records' = records
    /\ UNCHANGED req

AbsNext == \E m \in Mutations : Apply(m)

AbsSpec == AbsInit /\ [][AbsNext]_absVars
=============================================================================
