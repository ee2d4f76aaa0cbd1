------------------------------ MODULE Catalog ------------------------------
(***************************************************************************)
(* The catalog cache (catalog.py) and the two ways it is used: list_tables *)
(* and describe_table look at it once (warden.py), an access check         *)
(* (pipeline/access.py) looks at it once for the schema and then again for *)
(* every table and column, while the warehouse's schema changes.           *)
(*                                                                         *)
(* _current() holds the lock while it reads the warehouse; a snapshot is   *)
(* used until it is max_age_s old, counted from before it was read.  What  *)
(* a read of the warehouse returns is stood for by the version it saw.     *)
(***************************************************************************)
EXTENDS Integers

CONSTANTS
    Threads,      \* the threads that share one Catalog
    MaxAge,       \* max_age_s, in ticks of the clock
    MaxLookups,   \* bound on the lookups of one access check
    MaxTime,      \* bound on the clock
    MaxVersion,   \* bound on the changes of the warehouse's schema
    NoThread,     \* the lock is free
    NoSnapshot    \* nothing is cached

\* Catalog.__init__ refuses a negative age; 0 would read the warehouse on every lookup.
ASSUME CatalogAssumption ==
    /\ MaxAge \in Nat \ {0}
    /\ MaxLookups \in Nat \ {0} /\ MaxTime \in Nat /\ MaxVersion \in Nat
    /\ NoThread \notin Threads
    /\ NoSnapshot \notin [version : Nat, readAt : Nat]

VARIABLES
    lock,      \* the thread inside self._lock
    snapshot,  \* self._snapshot
    call,      \* the call each thread is making
    read,      \* the locals of _read(): the time it took, the version the engine returned
    view,      \* history: what each call's last lookup got, when it looked, and the floor then
    now,       \* self._clock()
    version,   \* the version of the warehouse's schema
    born,      \* history: when each version came about
    floor      \* history: the version when refresh() last took effect

world == <<now, version, born>>
vars == <<lock, snapshot, call, read, view, world, floor>>

Versions == 0..MaxVersion

\* lookups: those of this call answered so far; error: what a read of it raised.
Idle == [pc |-> "idle", op |-> "tables", lookups |-> 0, error |-> "none", result |-> "none"]
NoRead == [readAt |-> 0, seen |-> 0]

Init ==
    /\ lock = NoThread
    /\ snapshot = NoSnapshot
    /\ call = [t \in Threads |-> Idle]
    /\ read = [t \in Threads |-> NoRead]
    /\ view = [t \in Threads |-> [got |-> 0, at |-> 0, asOf |-> 0]]
    /\ now = 0
    /\ version = 0
    /\ born = [v \in Versions |-> 0]
    /\ floor = 0
-----------------------------------------------------------------------------
Enter(t, op) ==
    /\ call[t].pc = "idle"
    /\ call' = [call EXCEPT ![t] = [Idle EXCEPT !.pc = "waiting", !.op = op]]
    /\ view' = [view EXCEPT ![t] = [got |-> 0, at |-> 0, asOf |-> floor]]
    /\ UNCHANGED <<lock, snapshot, read, world, floor>>

\* The snapshot _current() may still use.
Fresh == snapshot # NoSnapshot /\ now - snapshot.readAt < MaxAge

\* _current() returns what it looked up to its caller: this version, at this time.
Found(t, v, time) ==
    /\ call' = [call EXCEPT ![t].pc = "got", ![t].lookups = call[t].lookups + 1]
    /\ view' = [view EXCEPT ![t].got = v, ![t].at = time]

\* The call is over, with this result.
Done(t, result) == call' = [call EXCEPT ![t].pc = "done", ![t].result = result]

\* What the engine raises when it cannot read, the second in its rollback on a lost connection.
Errors == {"EngineError", "OperationalError"}

\* The error leaves _current().  An access check handles an EngineError for the schema, its first
\* lookup; any other, or one from a later lookup, is an unexpected exception to Pipeline.run.
Raised(t, error) ==
    LET c == call[t]
        refusal == IF c.lookups = 0 /\ error = "EngineError" THEN "CATALOG_UNAVAILABLE"
                   ELSE "INTERNAL_ERROR"
    IN  call' = [call EXCEPT ![t] = [c EXCEPT
            !.pc = "done", !.error = error, !.result = IF c.op = "check" THEN refusal ELSE @]]

LooksUp(t) == call[t].pc = "waiting" /\ call[t].op \in {"tables", "check"}

\* _current() with a usable snapshot: no time passes inside the lock.
Hit(t) ==
    /\ LooksUp(t)
    /\ lock = NoThread
    /\ Fresh
    /\ Found(t, snapshot.version, now)
    /\ UNCHANGED <<lock, snapshot, read, world, floor>>

\* Mutant of Miss: a read outside the lock.
MissUnlocked(t) ==
    /\ LooksUp(t)
    /\ ~Fresh
    /\ lock' = t
    /\ call' = [call EXCEPT ![t].pc = "reading"]
    /\ read' = [read EXCEPT ![t].readAt = now]
    /\ UNCHANGED <<snapshot, view, world, floor>>

\* _current() without one: _read() takes the time and turns to the engine, inside the lock.
Miss(t) ==
    /\ LooksUp(t)
    /\ lock = NoThread
    /\ ~Fresh
    /\ lock' = t
    /\ call' = [call EXCEPT ![t].pc = "reading"]
    /\ read' = [read EXCEPT ![t].readAt = now]
    /\ UNCHANGED <<snapshot, view, world, floor>>

EngineReads(t) ==
    /\ call[t].pc = "reading"
    /\ call' = [call EXCEPT ![t].pc = "read"]
    /\ read' = [read EXCEPT ![t].seen = version]
    /\ UNCHANGED <<lock, snapshot, view, world, floor>>

\* Mutants of EngineFails: the failure is cached, as a version there never was, or the lock is
\* kept.
EngineFailsCached(t) ==
    /\ call[t].pc = "reading"
    /\ lock' = NoThread
    /\ \E error \in Errors : Raised(t, error)
    /\ snapshot' = [version |-> -1, readAt |-> read[t].readAt]
    /\ read' = [read EXCEPT ![t] = NoRead]
    /\ UNCHANGED <<view, world, floor>>

EngineFailsKeepsLock(t) ==
    /\ call[t].pc = "reading"
    /\ \E error \in Errors : Raised(t, error)
    /\ read' = [read EXCEPT ![t] = NoRead]
    /\ UNCHANGED <<lock, snapshot, view, world, floor>>

\* "An engine error propagates and is not cached", nor is any other: the old snapshot stays, too
\* old to use.
EngineFails(t) ==
    /\ call[t].pc = "reading"
    /\ lock' = NoThread
    /\ \E error \in Errors : Raised(t, error)
    /\ read' = [read EXCEPT ![t] = NoRead]
    /\ UNCHANGED <<snapshot, view, world, floor>>

\* Mutant of Store: the age of the snapshot counts from the end of the read.
StoreDatedLate(t) ==
    /\ call[t].pc = "read"
    /\ snapshot' = [version |-> read[t].seen, readAt |-> now]
    /\ lock' = NoThread
    /\ Found(t, read[t].seen, now)
    /\ read' = [read EXCEPT ![t] = NoRead]
    /\ UNCHANGED <<world, floor>>

Store(t) ==
    /\ call[t].pc = "read"
    /\ snapshot' = [version |-> read[t].seen, readAt |-> read[t].readAt]
    /\ lock' = NoThread
    /\ Found(t, read[t].seen, read[t].readAt)
    /\ read' = [read EXCEPT ![t] = NoRead]
    /\ UNCHANGED <<world, floor>>

\* Mutant of Refresh: it does not wait.
RefreshUnlocked(t) ==
    /\ call[t].pc = "waiting" /\ call[t].op = "refresh"
    /\ snapshot' = NoSnapshot
    /\ floor' = version
    /\ Done(t, "none")
    /\ UNCHANGED <<lock, read, view, world>>

\* refresh() waits for a read under way, then forgets what it found.
Refresh(t) ==
    /\ call[t].pc = "waiting" /\ call[t].op = "refresh"
    /\ lock = NoThread
    /\ snapshot' = NoSnapshot
    /\ floor' = version
    /\ Done(t, "none")
    /\ UNCHANGED <<lock, read, view, world>>

\* An access check looks up its next table or column, or has all it needs.
LookUpAgain(t) ==
    /\ call[t].pc = "got" /\ call[t].op = "check"
    /\ call[t].lookups < MaxLookups
    /\ call' = [call EXCEPT ![t].pc = "waiting"]
    /\ UNCHANGED <<lock, snapshot, read, view, world, floor>>

Decide(t) ==
    /\ call[t].pc = "got"
    /\ Done(t, "decided")
    /\ UNCHANGED <<lock, snapshot, read, view, world, floor>>

Return(t) ==
    /\ call[t].pc = "done"
    /\ call' = [call EXCEPT ![t] = Idle]
    /\ view' = [view EXCEPT ![t] = [got |-> 0, at |-> 0, asOf |-> 0]]
    /\ UNCHANGED <<lock, snapshot, read, world, floor>>
-----------------------------------------------------------------------------
(* The world: time passes, and somebody creates, alters or drops a table.  *)

Tick ==
    /\ now < MaxTime
    /\ now' = now + 1
    /\ UNCHANGED <<lock, snapshot, call, read, view, version, born, floor>>

SchemaChanges ==
    /\ version < MaxVersion
    /\ version' = version + 1
    /\ born' = [born EXCEPT ![version + 1] = now]
    /\ UNCHANGED <<lock, snapshot, call, read, view, now, floor>>

Current(t) == Hit(t) \/ Miss(t) \/ EngineReads(t) \/ EngineFails(t) \/ Store(t)
Step(t) == Current(t) \/ Refresh(t) \/ LookUpAgain(t) \/ Decide(t) \/ Return(t)

Next ==
    \/ \E t \in Threads :
        \/ \E op \in {"tables", "check", "refresh"} : Enter(t, op)
        \/ Step(t)
    \/ Tick \/ SchemaChanges

Spec == Init /\ [][Next]_vars

\* Threads run, and the engine answers: connect_timeout_s and statement_timeout_ms bound a read.
FairSpec == Spec /\ \A t \in Threads : WF_vars(EngineReads(t) \/ EngineFails(t) \/ Store(t))
-----------------------------------------------------------------------------
(* Properties.                                                             *)

\* The type of the cache's state.
TypeOK ==
    /\ lock \in Threads \cup {NoThread}
    /\ snapshot \in [version : Nat, readAt : Nat] \cup {NoSnapshot}
    /\ call \in [Threads ->
        [pc : {"idle", "waiting", "reading", "read", "got", "done"},
         op : {"tables", "check", "refresh"}, lookups : Nat, error : Errors \cup {"none"},
         result : {"none", "decided", "CATALOG_UNAVAILABLE", "INTERNAL_ERROR"}]]
    /\ read \in [Threads -> [readAt : Nat, seen : Nat]]
    /\ view \in [Threads -> [got : Nat, at : Nat, asOf : Nat]]
    /\ now \in Nat /\ version \in Versions /\ floor \in Nat
    /\ born \in [Versions -> Nat]

\* "One read at a time: concurrent callers wait for it instead of each querying."
OneReadAtATime ==
    \A t, u \in Threads :
        call[t].pc \in {"reading", "read"} /\ call[u].pc \in {"reading", "read"} => t = u

\* "How long a read of the catalog is reused; a new table shows up within this long": a lookup
\* misses a change only if it came less than max_age_s before the lookup, although the cache
\* counts the age of what it holds and the change may come while it is being read.
ChangesShowUpInTime ==
    \A t \in Threads : call[t].pc = "got" =>
        \A v \in Versions :
            v > view[t].got /\ v <= version => view[t].at < born[v] + MaxAge

\* "Forget the last read, so the next use reads the catalog again": no lookup that begins after
\* refresh() sees an older schema than there was then, nor does the cache hold one, even when
\* a read was under way as refresh() was called.
RefreshForgets ==
    /\ snapshot # NoSnapshot => snapshot.version >= floor
    /\ \A t \in Threads : call[t].pc = "got" => view[t].got >= view[t].asOf

\* The lookups of one access check may see different versions, but never an earlier one after
\* a later one.
LookupsNeverGoBack ==
    [][\A t \in Threads :
        call[t].pc # "idle" /\ call'[t].pc = "got" => view'[t].got >= view[t].got]_vars

\* Whatever a read ends in, the lock is free again: those who wait for it get their turn.
LockIsReleased == \A t \in Threads : lock = t ~> lock # t
-----------------------------------------------------------------------------
(* What the documentation says that the code does not do.                  *)

\* models.py on CATALOG_UNAVAILABLE: "The tables and columns could not be read, so access could
\* not be checked."  When the snapshot expires in the middle of an access check and the engine
\* says so with an EngineError, the refusal is INTERNAL_ERROR, "A check crashed", instead.
UnreadableCatalogSaysSo ==
    \A t \in Threads :
        call[t].op = "check" /\ call[t].error = "EngineError" =>
            call[t].result = "CATALOG_UNAVAILABLE"
=============================================================================
