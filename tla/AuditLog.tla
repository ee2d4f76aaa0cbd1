------------------------------ MODULE AuditLog ------------------------------
(***************************************************************************)
(* What an audit sink promises its callers (the AuditSink protocol of      *)
(* audit/sink.py), with no lock, connection or retry in sight:             *)
(*                                                                         *)
(*  - an event is in the log at most once, as it was handed over, for good;*)
(*  - record() returns normally only when its event is in the log;         *)
(*  - record() may raise whether or not the event is, or will be, in the   *)
(*    log: an error only says that the caller does not know.               *)
(*                                                                         *)
(* AuditSink implements this specification; Warden relies on nothing else. *)
(***************************************************************************)
CONSTANTS
    Threads,   \* the callers of one sink
    Ids,       \* event ids, the log's primary key
    Contents,  \* what an event says, apart from its id
    NoRow      \* marks an id with no row

VARIABLES
    log,       \* the row of each id, NoRow if there is none
    asked,     \* the events handed to record() so far
    caller     \* what each thread is doing: "out", "in" a call, or its result

vars == <<log, asked, caller>>

Events == [id : Ids, content : Contents]

Call == [state : {"out"}]
            \cup [state : {"in", "ok", "error"}, op : {"setup", "ping"}]
            \cup [state : {"in", "ok", "error"}, op : {"record"}, event : Events]

Out == [state |-> "out"]

Init ==
    /\ log \in {[i \in Ids |-> NoRow]}
    /\ asked = {}
    /\ caller = [t \in Threads |-> Out]

\* setup() and ping() leave no trace in the log.
Enter(t, op) ==
    /\ caller[t].state = "out"
    /\ caller' = [caller EXCEPT ![t] = [state |-> "in", op |-> op]]
    /\ UNCHANGED <<log, asked>>

\* record(event): every event has an id of its own.
EnterRecord(t, event) ==
    /\ caller[t].state = "out"
    /\ \A e \in asked : e.id # event.id
    /\ asked' = asked \cup {event}
    /\ caller' = [caller EXCEPT ![t] = [state |-> "in", op |-> "record", event |-> event]]
    /\ UNCHANGED log

\* An event reaches the log, perhaps after its caller has been told it failed.
Store(event) ==
    /\ event \in asked
    /\ log[event.id] = NoRow
    /\ log' = [log EXCEPT ![event.id] = event.content]
    /\ UNCHANGED <<asked, caller>>

ReturnOk(t) ==
    /\ caller[t].state = "in"
    /\ caller[t].op = "record" => log[caller[t].event.id] = caller[t].event.content
    /\ caller' = [caller EXCEPT ![t].state = "ok"]
    /\ UNCHANGED <<log, asked>>

ReturnError(t) ==
    /\ caller[t].state = "in"
    /\ caller' = [caller EXCEPT ![t].state = "error"]
    /\ UNCHANGED <<log, asked>>

Leave(t) ==
    /\ caller[t].state \in {"ok", "error"}
    /\ caller' = [caller EXCEPT ![t] = Out]
    /\ UNCHANGED <<log, asked>>

\* The process ends in the middle of its calls: what was asked for may still be stored.
Crash ==
    /\ caller' = [t \in Threads |-> Out]
    /\ UNCHANGED <<log, asked>>

Next ==
    \/ \E t \in Threads :
        \/ \E op \in {"setup", "ping"} : Enter(t, op)
        \/ \E event \in Events : EnterRecord(t, event)
        \/ ReturnOk(t) \/ ReturnError(t) \/ Leave(t)
    \/ \E event \in Events : Store(event)
    \/ Crash

Spec == Init /\ [][Next]_vars
=============================================================================
