-------------------------------- MODULE Gate --------------------------------
(***************************************************************************)
(* What Warden promises for every request (the docstring of the class in   *)
(* warden.py), with no check, ping, retry or thread in sight:              *)
(*                                                                         *)
(*  - a query reaches the warehouse at most once, before its record is     *)
(*    written and before its caller is answered;                           *)
(*  - a request is recorded at most once, and its record is true;          *)
(*  - its caller gets something of it only if the record is there, and     *)
(*    nothing otherwise; the record of one who got nothing may follow.     *)
(*                                                                         *)
(* Warden implements this specification over AuditSink.                    *)
(***************************************************************************)
CONSTANT Requests

VARIABLES
    ran,     \* the warehouse has received the query
    record,  \* what the audit log says of that
    given    \* what the caller has got

vars == <<ran, record, given>>

Init ==
    /\ ran = [r \in Requests |-> FALSE]
    /\ record = [r \in Requests |-> "none"]
    /\ given = [r \in Requests |-> "no answer"]

Run(r) ==
    /\ ~ran[r]
    /\ record[r] = "none" /\ given[r] = "no answer"
    /\ ran' = [ran EXCEPT ![r] = TRUE]
    /\ UNCHANGED <<record, given>>

\* A failed query may have run or not.
Write(r) ==
    /\ record[r] = "none"
    /\ \E says \in {"failed", IF ran[r] THEN "ran" ELSE "not run"} :
        record' = [record EXCEPT ![r] = says]
    /\ UNCHANGED <<ran, given>>

Answer(r) ==
    /\ given[r] = "no answer"
    /\ record[r] # "none"
    /\ given' = [given EXCEPT ![r] = "answer"]
    /\ UNCHANGED <<ran, record>>

\* A refusal of the audit log, an exception, or the end of the process.
Withhold(requests) ==
    /\ \A r \in requests : given[r] = "no answer"
    /\ given' = [r \in Requests |-> IF r \in requests THEN "nothing" ELSE given[r]]
    /\ UNCHANGED <<ran, record>>

Next ==
    \/ \E r \in Requests : Run(r) \/ Write(r) \/ Answer(r)
    \/ \E requests \in SUBSET Requests : Withhold(requests)

Spec == Init /\ [][Next]_vars
=============================================================================
