----------------------------- MODULE AuditSink -----------------------------
(***************************************************************************)
(* PostgresAuditSink (audit/sink.py): threads of one server share one      *)
(* connection to the audit database behind one lock.  A call takes the     *)
(* lock, opens a connection if there is none, sends one statement in       *)
(* autocommit mode, and waits for the answer; an OperationalError drops    *)
(* the connection and the whole action is tried once more.                 *)
(*                                                                         *)
(* The database commits an INSERT when it serves it, before the client     *)
(* hears of it, and goes on with a statement whose connection broke: that  *)
(* INSERT is an orphan, which may still commit, even after a retry.        *)
(***************************************************************************)
EXTENDS Naturals

CONSTANTS
    Threads,     \* the threads that call the sink
    Ids,         \* event ids (uuid4: never chosen twice)
    Contents,    \* what an event says, apart from its id
    Unstorable,  \* contents the table will not take: a NUL in the query, say
    NoThread,    \* the lock is free
    NoRow,       \* an id has no row
    NoEvent,     \* a call that carries no event
    MaxFaults    \* bound on broken connections and restarts of the database

ASSUME SinkAssumption ==
    /\ Unstorable \subseteq Contents
    /\ NoThread \notin Threads
    /\ NoRow \notin Contents
    /\ NoEvent \notin [id : Ids, content : Contents]
    /\ MaxFaults \in Nat

VARIABLES
    lock,     \* the thread inside self._lock
    conn,     \* self._conn: "none" (or closed), "open", or "broken" unknown to us
    call,     \* the call each thread is making
    table,    \* audit_events exists
    rows,     \* the rows of audit_events, by primary key
    orphans,  \* INSERTs the database is still running for a broken connection
    dbUp,     \* the database accepts connections
    faults,   \* faults so far
    asked,    \* history: the events handed to record()
    disturbed \* history: the threads whose call met a fault while it held the lock

clientVars == <<lock, conn, call, asked, disturbed>>
dbVars == <<table, rows, orphans, dbUp>>
vars == <<lock, conn, call, asked, disturbed, table, rows, orphans, dbUp, faults>>

Events == [id : Ids, content : Contents]
Ops == {"setup", "ping", "record"}
Idle == [pc |-> "idle", op |-> "ping", event |-> NoEvent, attempt |-> 1]

\* The pcs of a thread that holds the lock, and of one that waits on a statement.
Inside == {"connect", "sent", "done", "rejected"}
OnConnection == {"sent", "done", "rejected"}

Init ==
    /\ lock = NoThread
    /\ conn = "none"
    /\ call = [t \in Threads |-> Idle]
    /\ table \in BOOLEAN
    /\ rows = [i \in Ids |-> NoRow]
    /\ orphans = {}
    /\ dbUp \in BOOLEAN
    /\ faults = 0
    /\ asked = {}
    /\ disturbed = {}
-----------------------------------------------------------------------------
(* The client: ensure_schema(), ping(), record(), close().                 *)

Enter(t, op, event) ==
    /\ call[t].pc = "idle"
    /\ call' = [call EXCEPT ![t] = [Idle EXCEPT !.pc = "waiting", !.op = op, !.event = event]]
    /\ UNCHANGED <<lock, conn, disturbed, faults>> /\ UNCHANGED dbVars

EnterSetup(t) == Enter(t, "setup", NoEvent) /\ UNCHANGED asked
EnterPing(t)  == Enter(t, "ping", NoEvent) /\ UNCHANGED asked
EnterRecord(t, event) ==
    /\ \A e \in asked : e.id # event.id
    /\ Enter(t, "record", event)
    /\ asked' = asked \cup {event}

\* Mutant of Acquire: no lock.
AcquireUnlocked(t) ==
    /\ call[t].pc = "waiting"
    /\ lock' = t
    /\ call' = [call EXCEPT ![t].pc = "connect"]
    /\ disturbed' = IF dbUp THEN disturbed ELSE disturbed \cup {t}
    /\ UNCHANGED <<conn, asked, faults>> /\ UNCHANGED dbVars

\* with self._lock: the first of _attempt's two tries starts here.
Acquire(t) ==
    /\ call[t].pc = "waiting"
    /\ lock = NoThread
    /\ lock' = t
    /\ call' = [call EXCEPT ![t].pc = "connect"]
    /\ disturbed' = IF dbUp THEN disturbed ELSE disturbed \cup {t}
    /\ UNCHANGED <<conn, asked, faults>> /\ UNCHANGED dbVars

\* The call is over: the lock is released and the thread has its result.
Leave(t, result) ==
    /\ lock' = NoThread
    /\ call' = [call EXCEPT ![t].pc = result]

\* Mutants of OperationalError: a loop without an end, no second try for an INSERT, and a loop
\* that falls through after its last try instead of raising.
OperationalErrorForever(t) ==
    /\ conn' = "none"
    /\ call' = [call EXCEPT ![t].pc = "connect", ![t].attempt = call[t].attempt + 1]
    /\ UNCHANGED lock

OperationalErrorInsertOnce(t) ==
    /\ conn' = "none"
    /\ \/ /\ call[t].attempt = 1 /\ call[t].op # "record"
          /\ call' = [call EXCEPT ![t].pc = "connect", ![t].attempt = 2]
          /\ UNCHANGED lock
       \/ /\ call[t].attempt = 2 \/ call[t].op = "record"
          /\ Leave(t, "error")

OperationalErrorFallsThrough(t) ==
    /\ conn' = "none"
    /\ \/ /\ call[t].attempt = 1
          /\ call' = [call EXCEPT ![t].pc = "connect", ![t].attempt = 2]
          /\ UNCHANGED lock
       \/ /\ call[t].attempt = 2
          /\ Leave(t, "ok")

\* except psycopg.OperationalError: _drop() the connection; one more try, or AuditError.
OperationalError(t) ==
    /\ conn' = "none"
    /\ \/ /\ call[t].attempt = 1
          /\ call' = [call EXCEPT ![t].pc = "connect", ![t].attempt = 2]
          /\ UNCHANGED lock
       \/ /\ call[t].attempt = 2
          /\ Leave(t, "error")

\* _connection(): the connection in hand, a new one, or no luck.
Reuse(t) ==
    /\ call[t].pc = "connect"
    /\ conn # "none"
    /\ call' = [call EXCEPT ![t].pc = "sent"]
    /\ UNCHANGED <<lock, conn, asked, disturbed, faults>> /\ UNCHANGED dbVars

Connect(t) ==
    /\ call[t].pc = "connect"
    /\ conn = "none" /\ dbUp
    /\ conn' = "open"
    /\ call' = [call EXCEPT ![t].pc = "sent"]
    /\ UNCHANGED <<lock, asked, disturbed, faults>> /\ UNCHANGED dbVars

ConnectFails(t) ==
    /\ call[t].pc = "connect"
    /\ conn = "none" /\ ~dbUp
    /\ OperationalError(t)
    /\ UNCHANGED <<asked, disturbed, faults>> /\ UNCHANGED dbVars

\* The statement or its answer was on the connection when it broke.
ConnectionLost(t) ==
    /\ call[t].pc \in OnConnection
    /\ conn = "broken"
    /\ OperationalError(t)
    /\ UNCHANGED <<asked, disturbed, faults>> /\ UNCHANGED dbVars

\* Mutant of Succeed: the call returns with the lock still held.
SucceedKeepsLock(t) ==
    /\ call[t].pc = "done"
    /\ conn = "open"
    /\ call' = [call EXCEPT ![t].pc = "ok"]
    /\ UNCHANGED <<lock, conn, asked, disturbed, faults>> /\ UNCHANGED dbVars

Succeed(t) ==
    /\ call[t].pc = "done"
    /\ conn = "open"
    /\ Leave(t, "ok")
    /\ UNCHANGED <<conn, asked, disturbed, faults>> /\ UNCHANGED dbVars

\* Mutant of Reject: the error is swallowed.
RejectHidden(t) ==
    /\ call[t].pc = "rejected"
    /\ conn = "open"
    /\ Leave(t, "ok")
    /\ UNCHANGED <<conn, asked, disturbed, faults>> /\ UNCHANGED dbVars

\* except psycopg.Error: an AuditError at once, and the connection is kept.
Reject(t) ==
    /\ call[t].pc = "rejected"
    /\ conn = "open"
    /\ Leave(t, "error")
    /\ UNCHANGED <<conn, asked, disturbed, faults>> /\ UNCHANGED dbVars

\* The caller has its result and is ready to call again.
Return(t) ==
    /\ call[t].pc \in {"ok", "error"}
    /\ call' = [call EXCEPT ![t] = Idle]
    /\ disturbed' = disturbed \ {t}
    /\ UNCHANGED <<lock, conn, asked, faults>> /\ UNCHANGED dbVars

Close ==
    /\ lock = NoThread
    /\ conn' = "none"
    /\ UNCHANGED <<lock, call, asked, disturbed, faults>> /\ UNCHANGED dbVars
-----------------------------------------------------------------------------
(* The database, as schema.sql and psycopg's autocommit mode make it act.  *)

\* An INSERT the table refuses: no table yet, a duplicate id, or a value it cannot hold.
Refused(event) ==
    \/ ~table
    \/ rows[event.id] # NoRow
    \/ event.content \in Unstorable

\* The database has t's statement and the connection still stands.
Served(t, op) ==
    /\ call[t].pc = "sent" /\ call[t].op = op
    /\ conn = "open"
    /\ UNCHANGED <<lock, conn, asked, disturbed, orphans, dbUp, faults>>

Answer(t, pc) == call' = [call EXCEPT ![t].pc = pc]

ServeSetup(t) ==
    /\ Served(t, "setup")
    /\ table' = TRUE
    /\ Answer(t, "done")
    /\ UNCHANGED rows

ServePing(t) ==
    /\ Served(t, "ping")
    /\ Answer(t, "done")
    /\ UNCHANGED <<table, rows>>

ServeInsert(t) ==
    /\ Served(t, "record")
    /\ ~Refused(call[t].event)
    /\ rows' = [rows EXCEPT ![call[t].event.id] = call[t].event.content]
    /\ Answer(t, "done")
    /\ UNCHANGED table

RefuseInsert(t) ==
    /\ Served(t, "record")
    /\ Refused(call[t].event)
    /\ Answer(t, "rejected")
    /\ UNCHANGED <<table, rows>>

\* An orphan ends: it commits unless the table refuses it by now, or it is rolled back.
OrphanCommits(event) ==
    /\ event \in orphans
    /\ ~Refused(event)
    /\ rows' = [rows EXCEPT ![event.id] = event.content]
    /\ orphans' = orphans \ {event}
    /\ UNCHANGED clientVars /\ UNCHANGED <<table, dbUp, faults>>

OrphanDies(event) ==
    /\ event \in orphans
    /\ orphans' = orphans \ {event}
    /\ UNCHANGED clientVars /\ UNCHANGED <<table, rows, dbUp, faults>>
-----------------------------------------------------------------------------
(* Faults.                                                                 *)

Fault == faults < MaxFaults /\ faults' = faults + 1

Disturb == disturbed' = disturbed \cup {t \in Threads : lock = t}

InFlight == {call[t].event : t \in {u \in Threads : call[u].pc = "sent" /\ call[u].op = "record"}}

\* The network drops the connection; an INSERT on it may be with the database already.
ConnectionBreaks ==
    /\ Fault
    /\ conn = "open"
    /\ conn' = "broken"
    /\ Disturb
    /\ \E reached \in SUBSET InFlight : orphans' = orphans \cup reached
    /\ UNCHANGED <<lock, call, asked, table, rows, dbUp>>

\* The server's process ends, and with it its threads, lock and connection.
Crash ==
    /\ Fault
    /\ lock' = NoThread
    /\ conn' = "none"
    /\ call' = [t \in Threads |-> Idle]
    /\ disturbed' = {}
    /\ \E reached \in SUBSET InFlight :
        orphans' = IF conn = "open" THEN orphans \cup reached ELSE orphans
    /\ UNCHANGED <<asked, table, rows, dbUp>>

\* The database goes down, with every connection and everything uncommitted.
DbDown ==
    /\ Fault
    /\ dbUp
    /\ dbUp' = FALSE
    /\ conn' = IF conn = "open" THEN "broken" ELSE conn
    /\ orphans' = {}
    /\ Disturb
    /\ UNCHANGED <<lock, call, asked, table, rows>>

DbUp ==
    /\ ~dbUp
    /\ dbUp' = TRUE
    /\ UNCHANGED clientVars /\ UNCHANGED <<table, rows, orphans, faults>>
-----------------------------------------------------------------------------
\* One thread's way through a call, from the lock to the result.
Attempt(t) ==
    \/ Acquire(t) \/ Reuse(t) \/ Connect(t) \/ ConnectFails(t)
    \/ ConnectionLost(t) \/ Succeed(t) \/ Reject(t)

Serve(t) == ServeSetup(t) \/ ServePing(t) \/ ServeInsert(t) \/ RefuseInsert(t)

Environment ==
    \/ \E event \in orphans : OrphanCommits(event) \/ OrphanDies(event)
    \/ ConnectionBreaks \/ DbDown \/ DbUp

Next ==
    \/ \E t \in Threads :
        \/ EnterSetup(t) \/ EnterPing(t)
        \/ \E event \in Events : EnterRecord(t, event)
        \/ Attempt(t) \/ Serve(t) \/ Return(t)
    \/ Close
    \/ Crash
    \/ Environment

Spec == Init /\ [][Next]_vars
-----------------------------------------------------------------------------
(* Properties.                                                             *)

\* The type of the sink's state: a call is tried at most twice (_attempt's for loop).
TypeOK ==
    /\ lock \in Threads \cup {NoThread}
    /\ conn \in {"none", "open", "broken"}
    /\ call \in [Threads -> [pc : {"idle", "waiting", "ok", "error"} \cup Inside, op : Ops,
                             event : Events \cup {NoEvent}, attempt : {1, 2}]]
    /\ table \in BOOLEAN
    /\ rows \in [Ids -> Contents \cup {NoRow}]
    /\ orphans \subseteq asked
    /\ dbUp \in BOOLEAN
    /\ faults \in 0..MaxFaults
    /\ asked \subseteq Events
    /\ disturbed \subseteq Threads

\* "One connection, reused and shared by threads": two threads never have a statement on it
\* at once, through breaks, retries and close(), so neither reads the other's answer.
OneStatementAtATime ==
    \A t, u \in Threads :
        call[t].pc \in OnConnection /\ call[u].pc \in OnConnection => t = u

\* record() "or raise AuditError": when it returns normally its event is a row of the table
\* as it was handed over, whichever try stored it, and stays so.
AcknowledgedIsStored ==
    \A t \in Threads :
        call[t].pc = "ok" /\ call[t].op = "record" =>
            rows[call[t].event.id] = call[t].event.content

\* "If it breaks, the next record() opens a new one and tries once more before giving up": a
\* call during which nothing goes wrong raises AuditError only if it is a record() whose event
\* the table refuses, never because of what broke before it, nor because of its own first try.
EarlierFaultsAreHidden ==
    [][\A t \in Threads \ disturbed :
        call[t].pc # "error" /\ call'[t].pc = "error" =>
            /\ call[t].op = "record"
            /\ ~table \/ call[t].event.content \in Unstorable]_vars

\* A call as its caller sees it: no lock, connection or retry.
CallerOf(c) ==
    LET state == IF c.pc \in {"ok", "error"} THEN c.pc ELSE "in"
    IN  CASE c.pc = "idle" -> [state |-> "out"]
          [] c.pc # "idle" /\ c.op = "record" ->
                [state |-> state, op |-> c.op, event |-> c.event]
          [] c.pc # "idle" /\ c.op # "record" -> [state |-> state, op |-> c.op]

Log == INSTANCE AuditLog WITH log <- rows, caller <- [t \in Threads |-> CallerOf(call[t])]

\* Every behaviour of the sink is one the AuditSink protocol allows: events are stored once,
\* unchanged and for good, only if asked for, and acknowledged only when stored.
ImplementsAuditLog == Log!Spec
=============================================================================
