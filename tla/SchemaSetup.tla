---------------------------- MODULE SchemaSetup ----------------------------
(***************************************************************************)
(* ensure_schema() of servers that start together (audit/sink.py,          *)
(* audit/schema.sql, open_audit in cli.py).  Each opens a transaction on   *)
(* the audit database, waits for an advisory lock, creates what does not   *)
(* exist yet, and commits, while servers already up insert events.  A      *)
(* server that loses its connection tries once more; the session it leaves *)
(* behind goes on with what it was sent until PostgreSQL notices.          *)
(*                                                                         *)
(* CREATE ... IF NOT EXISTS looks for the name among what is committed.    *)
(* If another transaction is creating it, the statement waits for the end  *)
(* of that transaction, and fails if it commits.                           *)
(***************************************************************************)
EXTENDS Naturals

CONSTANTS
    Servers,   \* the servers that start (a restarted server is another one)
    Nobody,    \* the advisory lock is free
    MaxFaults  \* bound on connections lost or refused and on servers killed

ASSUME SetupAssumption == Nobody \notin Servers \X {1, 2} /\ MaxFaults \in Nat

VARIABLES
    server,     \* what each server has come to, and which of _attempt's tries it makes
    session,    \* the database session of each try
    locker,     \* the session that holds the advisory lock
    committed,  \* the objects of schema.sql in the database
    made,       \* those a session has created and not committed
    writing,    \* the servers whose INSERT into audit_events is running
    faults,
    lost        \* history: the tries of a server that lost, or never had, a connection

vars == <<server, session, locker, committed, made, writing, faults, lost>>

Sessions == Servers \X {1, 2}

\* schema.sql, in order: the table, then what needs a lock on it.
Objects == {"table", "indexes"}

Init ==
    /\ server = [s \in Servers |-> [state |-> "starting", attempt |-> 1]]
    /\ session = [x \in Sessions |-> [pc |-> "none", object |-> "table", attached |-> TRUE]]
    /\ locker = Nobody
    /\ committed \in {{}, {"table"}, Objects}
    /\ made = [x \in Sessions |-> {}]
    /\ writing = {}
    /\ faults = 0
    /\ lost = [s \in Servers |-> 0]
-----------------------------------------------------------------------------
(* The sessions in the database.                                           *)

Goto(x, pc) == session' = [session EXCEPT ![x].pc = pc]

\* Mutant of Lock: without conn.transaction() the lock ends with the statement that takes it.
LockInItsOwnTransaction(x) ==
    /\ session[x].pc = "lock"
    /\ locker = Nobody
    /\ Goto(x, "look")
    /\ UNCHANGED <<server, locker, committed, made, writing, faults, lost>>

\* pg_advisory_xact_lock: held until the transaction ends.
Lock(x) ==
    /\ session[x].pc = "lock"
    /\ locker = Nobody
    /\ locker' = x
    /\ Goto(x, "look")
    /\ UNCHANGED <<server, committed, made, writing, faults, lost>>

\* The session is in line for a lock on the table that keeps INSERTs out, or has it.
OnTable(x) ==
    session[x].object = "indexes" /\ session[x].pc \in {"look", "make", "applied", "committing"}

\* The statement for an object is through: the next one, or the end of schema.sql.
NextObject(x) ==
    session' = IF session[x].object = "table"
               THEN [session EXCEPT ![x].pc = "look", ![x].object = "indexes"]
               ELSE [session EXCEPT ![x].pc = "applied"]

\* IF NOT EXISTS: the object is there (committed, or our own), or is to be created.
Look(x) ==
    /\ session[x].pc = "look"
    /\ OnTable(x) => writing = {}
    /\ IF session[x].object \in committed THEN NextObject(x) ELSE Goto(x, "make")
    /\ UNCHANGED <<server, locker, committed, made, writing, faults, lost>>

\* The end of a transaction: its locks are free, its objects are there for all or for nobody.
End(x, pc) ==
    /\ locker' = IF locker = x THEN Nobody ELSE locker
    /\ made' = [made EXCEPT ![x] = {}]
    /\ Goto(x, pc)

\* The new name enters the database's own tables, once nobody else is about to enter it; if it
\* is there by then, that is a unique violation, and psycopg leaves the block with a ROLLBACK.
Make(x) ==
    /\ session[x].pc = "make"
    /\ \A y \in Sessions \ {x} : session[x].object \notin made[y]
    /\ IF session[x].object \in committed
       THEN End(x, "error")
       ELSE /\ made' = [made EXCEPT ![x] = @ \cup {session[x].object}]
            /\ NextObject(x)
            /\ UNCHANGED locker
    /\ UNCHANGED <<server, committed, writing, faults, lost>>

\* Mutant of Commit: a lock of the session, not of the transaction, outlives it.
CommitKeepsLock(x) ==
    /\ session[x].pc = "committing"
    /\ committed' = committed \cup made[x]
    /\ made' = [made EXCEPT ![x] = {}]
    /\ Goto(x, "committed")
    /\ UNCHANGED <<server, locker, writing, faults, lost>>

Commit(x) ==
    /\ session[x].pc = "committing"
    /\ committed' = committed \cup made[x]
    /\ End(x, "committed")
    /\ UNCHANGED <<server, writing, faults, lost>>

\* PostgreSQL notices that the client is gone.
Abort(x) ==
    /\ ~session[x].attached
    /\ session[x].pc \in {"lock", "look", "make", "applied", "committing"}
    /\ End(x, "over")
    /\ UNCHANGED <<server, committed, writing, faults, lost>>

\* Servers that are up insert their events, unless someone is in line for the table.
BeginInsert(s) ==
    /\ server[s].state = "up" /\ s \notin writing
    /\ \A x \in Sessions : ~OnTable(x)
    /\ writing' = writing \cup {s}
    /\ UNCHANGED <<server, session, locker, committed, made, faults, lost>>

EndInsert(s) ==
    /\ s \in writing
    /\ writing' = writing \ {s}
    /\ UNCHANGED <<server, session, locker, committed, made, faults, lost>>
-----------------------------------------------------------------------------
(* The servers.                                                            *)

\* The session of the try under way.
Current(s) == <<s, server[s].attempt>>

\* _connection(), then BEGIN and the SELECT of the lock.
Connect(s) ==
    /\ server[s].state = "starting"
    /\ session[Current(s)].pc = "none"
    /\ Goto(Current(s), "lock")
    /\ UNCHANGED <<server, locker, committed, made, writing, faults, lost>>

\* The block is left without an exception.
SendCommit(s) ==
    /\ server[s].state = "starting"
    /\ session[Current(s)].pc = "applied"
    /\ Goto(Current(s), "committing")
    /\ UNCHANGED <<server, locker, committed, made, writing, faults, lost>>

Becomes(s, state) == server' = [server EXCEPT ![s].state = state]

\* Mutant of Answered: the transaction is taken for committed once schema.sql is through.
AnsweredBeforeCommit(s) ==
    /\ server[s].state = "starting"
    /\ session[Current(s)].pc \in {"applied", "error"}
    /\ Becomes(s, IF session[Current(s)].pc = "applied" THEN "up" ELSE "failed")
    /\ UNCHANGED <<session, locker, committed, made, writing, faults, lost>>

\* The server starts; or, on any psycopg.Error but an OperationalError, it does not.
Answered(s) ==
    /\ server[s].state = "starting"
    /\ session[Current(s)].pc \in {"committed", "error"}
    /\ Becomes(s, IF session[Current(s)].pc = "committed" THEN "up" ELSE "failed")
    /\ UNCHANGED <<session, locker, committed, made, writing, faults, lost>>

Fault == faults < MaxFaults /\ faults' = faults + 1

\* Mutant of TryAgain: no limit.
TryAgainAlways(s) == server' = [server EXCEPT ![s].attempt = @ + 1]

\* except psycopg.OperationalError: one more try, or AuditError.
TryAgain(s) ==
    \/ server[s].attempt = 1 /\ server' = [server EXCEPT ![s].attempt = 2]
    \/ server[s].attempt = 2 /\ Becomes(s, "failed")

\* The connection of a try is lost, or cannot be made.
Lose(s) ==
    /\ Fault
    /\ server[s].state = "starting"
    /\ session' = [session EXCEPT ![Current(s)].attached = FALSE]
    /\ lost' = [lost EXCEPT ![s] = @ + 1]
    /\ TryAgain(s)
    /\ UNCHANGED <<locker, committed, made, writing>>

\* The process is killed.
Kill(s) ==
    /\ Fault
    /\ server[s].state = "starting"
    /\ session' = [session EXCEPT ![Current(s)].attached = FALSE]
    /\ Becomes(s, "killed")
    /\ UNCHANGED <<locker, committed, made, writing, lost>>

Session(x) == Lock(x) \/ Look(x) \/ Make(x) \/ Commit(x) \/ Abort(x)
Server(s) == Connect(s) \/ SendCommit(s) \/ Answered(s)

Next ==
    \/ \E x \in Sessions : Session(x)
    \/ \E s \in Servers : Server(s) \/ BeginInsert(s) \/ EndInsert(s) \/ Lose(s) \/ Kill(s)

Spec == Init /\ [][Next]_vars

\* Servers run, PostgreSQL goes on with its sessions and ends those of clients that are gone.
FairSpec ==
    /\ Spec
    /\ \A x \in Sessions : WF_vars(Session(x))
    /\ \A s \in Servers : WF_vars(Server(s)) /\ WF_vars(EndInsert(s))
-----------------------------------------------------------------------------
(* Properties.                                                             *)

\* The type of the state: a server has at most two sessions (_attempt's for loop).
TypeOK ==
    /\ server \in [Servers -> [state : {"starting", "up", "failed", "killed"}, attempt : {1, 2}]]
    /\ session \in [Sessions -> [pc : {"none", "lock", "look", "make", "applied", "committing",
                                       "committed", "error", "over"},
                                 object : Objects, attached : BOOLEAN]]
    /\ locker \in Sessions \cup {Nobody}
    /\ committed \subseteq Objects
    /\ made \in [Sessions -> SUBSET Objects]
    /\ writing \subseteq Servers
    /\ faults \in 0..MaxFaults
    /\ lost \in [Servers -> 0..MaxFaults]

\* "sql-warden doesn't start without one": once a server is up its audit log has its table and
\* indexes, whichever server's transaction, finished or abandoned, created them.
UpHasItsTable == \A s \in Servers : server[s].state = "up" => committed = Objects

\* "Safe to call from every server start": servers that start together do not fail each other.
\* One fails only if both its tries lost their connection.
StartsDoNotCollide == \A s \in Servers : server[s].state = "failed" => lost[s] = 2

\* Every start comes to an end: nobody keeps the advisory lock for good, the sessions of dead
\* servers included, and neither waits in a circle with the INSERTs of servers that are up.
EveryStartEnds ==
    \A s \in Servers : server[s].state = "starting" ~> server[s].state # "starting"
=============================================================================
