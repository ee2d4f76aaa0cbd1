--------------------------- MODULE CatalogProofs ---------------------------
(***************************************************************************)
(* What the catalog cache guarantees for any number of threads, any        *)
(* max_age_s and any history of changes and failures.                      *)
(***************************************************************************)
EXTENDS Catalog, TLAPS

\* Exactly the thread that reads the warehouse is inside the lock.
LockHeld == \A t \in Threads : call[t].pc \in {"reading", "read"} <=> lock = t

\* Calls look at the clock and at the schema as they are.
InRange ==
    /\ floor <= version
    /\ \A t \in Threads :
        /\ read[t].readAt <= now /\ read[t].seen <= version
        /\ view[t].at <= now /\ view[t].got <= version /\ view[t].asOf <= floor

\* What version v misses came about after the given time.
CoversUpTo(v, time) == \A w \in Versions : v < w /\ w <= version => time <= born[w]

\* The snapshot covers everything up to its read_at, and is no older than the last refresh or
\* than anything anybody was given.
SnapshotCovers ==
    snapshot # NoSnapshot =>
        /\ snapshot.version <= version /\ snapshot.readAt <= now
        /\ CoversUpTo(snapshot.version, snapshot.readAt)
        /\ floor <= snapshot.version
        /\ \A t \in Threads : view[t].got <= snapshot.version

\* So does what a read is about to make a snapshot of.
ReadCovers ==
    \A t \in Threads : call[t].pc = "read" =>
        /\ CoversUpTo(read[t].seen, read[t].readAt)
        /\ floor <= read[t].seen
        /\ \A u \in Threads : view[u].got <= read[t].seen

\* A call gets nothing older than the last refresh before it began.
GotCovers == \A t \in Threads : call[t].pc = "got" => view[t].asOf <= view[t].got

\* The inductive invariant: the properties of the runs and what they rest on.
Invariant ==
    /\ TypeOK /\ LockHeld /\ InRange
    /\ SnapshotCovers /\ ReadCovers /\ GotCovers
    /\ ChangesShowUpInTime
-----------------------------------------------------------------------------
(* What a step does to the thread that takes it, field by field.           *)

Calls == [pc : {"idle", "waiting", "reading", "read", "got", "done"},
          op : {"tables", "check", "refresh"}, lookups : Nat, error : Errors \cup {"none"},
          result : {"none", "decided", "CATALOG_UNAVAILABLE", "INTERNAL_ERROR"}]
Reads == [readAt : Nat, seen : Nat]
Views == [got : Nat, at : Nat, asOf : Nat]

\* Thread t moves on to pc.
Moves(t, pc) ==
    /\ call' \in [Threads -> Calls]
    /\ call'[t].pc = pc
    /\ \A u \in Threads : u # t => call'[u].pc = call[u].pc

\* Thread t's last lookup is now v, at this time, by a call that began at this floor.
Sees(t, v, time, since) ==
    /\ view' \in [Threads -> Views]
    /\ view'[t].got = v /\ view'[t].at = time /\ view'[t].asOf = since
    /\ \A u \in Threads : u # t => view'[u] = view[u]

\* Thread t's read has these locals.
HasRead(t, time, v) ==
    /\ read' \in [Threads -> Reads]
    /\ read'[t].readAt = time /\ read'[t].seen = v
    /\ \A u \in Threads : u # t => read'[u] = read[u]

\* A call that is replaced moves its thread, and no other, to the new pc.
LEMMA CallStep ==
    ASSUME call \in [Threads -> Calls], NEW t \in Threads, NEW c \in Calls,
           call' = [call EXCEPT ![t] = c]
    PROVE  Moves(t, c.pc)
BY DEF Moves

\* A thread that enters waits.
LEMMA EnterMoves ==
    ASSUME call \in [Threads -> Calls], NEW t \in Threads, NEW op \in {"tables", "check", "refresh"},
           Enter(t, op)
    PROVE  Moves(t, "waiting")
<1>1. [Idle EXCEPT !.pc = "waiting", !.op = op] \in Calls
    BY DEF Idle, Calls
<1> QED
    BY <1>1, CallStep DEF Enter, Idle

\* A step that only assigns a pc moves its thread there.
LEMMA PcMoves ==
    ASSUME call \in [Threads -> Calls], NEW t \in Threads,
           NEW pc \in {"idle", "waiting", "reading", "read", "got", "done"},
           call' = [call EXCEPT ![t].pc = pc]
    PROVE  Moves(t, pc)
<1>1. [call[t] EXCEPT !.pc = pc] \in Calls
    BY DEF Calls
<1>2. call' = [call EXCEPT ![t] = [call[t] EXCEPT !.pc = pc]]
    OBVIOUS
<1>3. [call[t] EXCEPT !.pc = pc].pc = pc
    BY DEF Calls
<1> QED
    BY <1>1, <1>2, <1>3, CallStep

\* A thread that finds what it looked up has got it.
LEMMA FoundMoves ==
    ASSUME call \in [Threads -> Calls], NEW t \in Threads, NEW v \in Nat, NEW time \in Nat,
           Found(t, v, time)
    PROVE  Moves(t, "got")
<1> DEFINE c == [call[t] EXCEPT !.pc = "got", !.lookups = call[t].lookups + 1]
<1>1. c \in Calls /\ c.pc = "got"
    <2>1. call[t] \in Calls /\ call[t].lookups + 1 \in Nat
        BY DEF Calls
    <2>2. \A n \in Nat : [call[t] EXCEPT !.pc = "got", !.lookups = n] \in Calls
        BY <2>1 DEF Calls
    <2> QED
        BY <2>1, <2>2 DEF Calls
<1>2. call' = [call EXCEPT ![t] = c]
    BY DEF Found
<1> HIDE DEF c
<1> QED
    BY <1>1, <1>2, CallStep

\* A thread whose call is over is done, whatever the result.
LEMMA DoneMoves ==
    ASSUME call \in [Threads -> Calls], NEW t \in Threads,
           NEW result \in {"none", "decided", "CATALOG_UNAVAILABLE", "INTERNAL_ERROR"},
           Done(t, result)
    PROVE  Moves(t, "done")
<1> DEFINE c == [call[t] EXCEPT !.pc = "done", !.result = result]
<1>1. c \in Calls /\ c.pc = "done"
    BY DEF Calls
<1>2. call' = [call EXCEPT ![t] = c]
    BY DEF Done
<1> HIDE DEF c
<1> QED
    BY <1>1, <1>2, CallStep

\* So is one whose read failed.
LEMMA RaisedMoves ==
    ASSUME call \in [Threads -> Calls], NEW t \in Threads, NEW error \in Errors, Raised(t, error)
    PROVE  Moves(t, "done")
<1>1. ASSUME NEW result \in {"none", "decided", "CATALOG_UNAVAILABLE", "INTERNAL_ERROR"}
      PROVE  LET c == [call[t] EXCEPT !.pc = "done", !.error = error, !.result = result]
             IN  c \in Calls /\ c.pc = "done"
    BY DEF Calls
<1>2. call[t].result \in {"none", "decided", "CATALOG_UNAVAILABLE", "INTERNAL_ERROR"}
    BY DEF Calls
<1>3. PICK result \in {"none", "decided", "CATALOG_UNAVAILABLE", "INTERNAL_ERROR"} :
        call' = [call EXCEPT ![t] =
            [call[t] EXCEPT !.pc = "done", !.error = error, !.result = result]]
    BY <1>2 DEF Raised
<1> QED
    BY <1>1, <1>3, CallStep

\* A thread that finds something sees it, and still counts from the refresh() before its call.
LEMMA FoundSees ==
    ASSUME view \in [Threads -> Views], NEW t \in Threads, NEW v \in Nat, NEW time \in Nat,
           Found(t, v, time)
    PROVE  Sees(t, v, time, view[t].asOf)
BY DEF Found, Views, Sees

\* The numbers of the state.
Numbers ==
    /\ now \in Nat /\ version \in Nat /\ floor \in Nat
    /\ snapshot # NoSnapshot => snapshot.version \in Nat /\ snapshot.readAt \in Nat
    /\ \A t \in Threads :
        /\ read[t].readAt \in Nat /\ read[t].seen \in Nat
        /\ view[t].got \in Nat /\ view[t].at \in Nat /\ view[t].asOf \in Nat

\* The type invariant makes them natural numbers.
LEMMA Numeric == TypeOK => Numbers
<1> USE CatalogAssumption DEF TypeOK
<1>1. TypeOK => now \in Nat /\ version \in Nat /\ floor \in Nat
    BY DEF Versions
<1>2. TypeOK => (snapshot # NoSnapshot => snapshot.version \in Nat /\ snapshot.readAt \in Nat)
    OBVIOUS
<1> QED
    BY <1>1, <1>2 DEF Numbers

\* A thread that returns is idle.
LEMMA ReturnMoves ==
    ASSUME call \in [Threads -> Calls], NEW t \in Threads, call' = [call EXCEPT ![t] = Idle]
    PROVE  Moves(t, "idle")
<1>1. Idle \in Calls /\ Idle.pc = "idle"
    BY DEF Idle, Calls
<1> QED
    BY <1>1, CallStep
-----------------------------------------------------------------------------
(* Each action keeps the invariant.                                        *)

\* A step between lookups: the thread may lose sight of what it saw, and nothing else changes.
LEMMA QuietStep ==
    ASSUME Invariant, NEW t \in Threads, NEW pc \in {"idle", "waiting", "done"},
           call[t].pc \notin {"reading", "read"}, Moves(t, pc),
           UNCHANGED view \/ (\E since \in 0..floor : Sees(t, 0, 0, since)),
           UNCHANGED <<lock, snapshot, read, now, version, born, floor>>
    PROVE  Invariant'
<1>1. /\ TypeOK /\ LockHeld /\ InRange
      /\ SnapshotCovers /\ ReadCovers /\ GotCovers /\ ChangesShowUpInTime
    BY DEF Invariant
<1>2. Numbers
    BY <1>1, Numeric
<1>3. /\ view' \in [Threads -> Views]
      /\ view'[t] = view[t] \/ (view'[t].got = 0 /\ view'[t].at = 0 /\ view'[t].asOf <= floor)
      /\ \A u \in Threads : u # t => view'[u] = view[u]
    BY <1>1, <1>2 DEF Sees, TypeOK, Views, Numbers
<1>4. TypeOK'
    BY <1>1, <1>3 DEF TypeOK, Calls, Views, Moves
<1>5. LockHeld'
    BY <1>1 DEF LockHeld, Moves
<1>6. InRange'
    BY <1>1, <1>2, <1>3 DEF InRange, Numbers
<1>7. SnapshotCovers'
    <2> SUFFICES ASSUME snapshot # NoSnapshot, NEW u \in Threads
                 PROVE  view'[u].got <= snapshot.version
        BY <1>1 DEF SnapshotCovers, CoversUpTo
    <2> QED
        BY <1>1, <1>2, <1>3 DEF SnapshotCovers, Numbers
<1>8. ReadCovers'
    <2> SUFFICES ASSUME NEW u \in Threads, call'[u].pc = "read"
                 PROVE  /\ CoversUpTo(read[u].seen, read[u].readAt)'
                        /\ floor <= read[u].seen
                        /\ \A w \in Threads : view'[w].got <= read[u].seen
        BY DEF ReadCovers
    <2>1. call[u].pc = "read"
        BY DEF Moves
    <2> QED
        BY <1>1, <1>2, <1>3, <2>1 DEF ReadCovers, CoversUpTo, Numbers
<1>9. GotCovers'
    BY <1>1, <1>3 DEF GotCovers, Moves
<1>10. ChangesShowUpInTime'
    BY <1>1, <1>3 DEF ChangesShowUpInTime, Moves
<1> QED
    BY <1>4, <1>5, <1>6, <1>7, <1>8, <1>9, <1>10 DEF Invariant

\* Entering tables(), schema(), table() or refresh() keeps the invariant.
LEMMA EnterStep ==
    ASSUME Invariant, NEW t \in Threads, NEW op \in {"tables", "check", "refresh"}, Enter(t, op)
    PROVE  Invariant'
<1>1. TypeOK /\ Numbers
    BY Numeric DEF Invariant
<1>2. Moves(t, "waiting") /\ call[t].pc = "idle"
    BY <1>1, EnterMoves DEF TypeOK, Calls, Enter
<1>3. Sees(t, 0, 0, floor)
    BY <1>1 DEF Enter, Sees, Views, TypeOK, Numbers
<1>4. floor \in 0..floor
    BY <1>1 DEF Numbers
<1> QED
    BY <1>2, <1>3, <1>4, QuietStep DEF Enter, world

\* So does returning.
LEMMA ReturnStep ==
    ASSUME Invariant, NEW t \in Threads, Return(t)
    PROVE  Invariant'
<1>1. TypeOK /\ Numbers
    BY Numeric DEF Invariant
<1>2. Moves(t, "idle") /\ call[t].pc = "done"
    BY <1>1, ReturnMoves DEF TypeOK, Calls, Return
<1>3. Sees(t, 0, 0, 0)
    BY <1>1 DEF Return, Sees, Views, TypeOK
<1>4. 0 \in 0..floor
    BY <1>1 DEF Numbers
<1> QED
    BY <1>2, <1>3, <1>4, QuietStep DEF Return, world

\* An access check looks up its next table or column, or a call has what it needs.
LEMMA BetweenLookupsStep ==
    ASSUME Invariant, NEW t \in Threads, LookUpAgain(t) \/ Decide(t)
    PROVE  Invariant'
<1>1. call \in [Threads -> Calls]
    BY DEF Invariant, TypeOK, Calls
<1>2. CASE LookUpAgain(t)
    <2>1. Moves(t, "waiting")
        BY <1>1, <1>2, PcMoves DEF LookUpAgain
    <2> QED
        BY <1>2, <2>1, QuietStep DEF LookUpAgain, world
<1>3. CASE Decide(t)
    <2>1. Moves(t, "done")
        BY <1>1, <1>3, DoneMoves DEF Decide
    <2> QED
        BY <1>3, <2>1, QuietStep DEF Decide, world
<1> QED
    BY <1>2, <1>3

\* A lookup of the snapshot.
LEMMA HitStep ==
    ASSUME Invariant, NEW t \in Threads, Hit(t)
    PROVE  Invariant'
<1> USE CatalogAssumption
<1>1. /\ TypeOK /\ LockHeld /\ InRange
      /\ SnapshotCovers /\ ReadCovers /\ GotCovers /\ ChangesShowUpInTime
    BY DEF Invariant
<1>2. call \in [Threads -> Calls] /\ view \in [Threads -> Views] /\ read \in [Threads -> Reads]
    BY <1>1 DEF TypeOK, Calls, Views, Reads
<1>3. Numbers
    BY <1>1, Numeric
<1>4. /\ call[t].pc = "waiting" /\ lock = NoThread
      /\ snapshot \in [version : Nat, readAt : Nat] /\ snapshot # NoSnapshot
      /\ now - snapshot.readAt < MaxAge
      /\ UNCHANGED <<lock, snapshot, read, now, version, born, floor>>
    BY <1>1, <1>3 DEF Hit, LooksUp, Fresh, TypeOK, world
<1>5. Moves(t, "got")
    BY <1>1, <1>2, <1>4, FoundMoves DEF Hit, TypeOK
<1>6. Sees(t, snapshot.version, now, view[t].asOf)
    BY <1>1, <1>2, <1>4, FoundSees DEF Hit, TypeOK
<1>7. TypeOK'
    BY <1>1, <1>3, <1>4, <1>5, <1>6 DEF TypeOK, Calls, Reads, Views, Moves, Sees
<1>8. LockHeld'
    BY <1>1, <1>3, <1>4, <1>5, <1>6 DEF LockHeld, TypeOK, Moves, Sees
<1>9. InRange'
    <2>1. floor' <= version'
        BY <1>1, <1>3, <1>4, <1>5, <1>6 DEF InRange, Numbers
    <2>2. ASSUME NEW u \in Threads
          PROVE  /\ read'[u].readAt <= now' /\ read'[u].seen <= version'
                 /\ view'[u].at <= now' /\ view'[u].got <= version' /\ view'[u].asOf <= floor'
        <3>1. CASE u = t
            BY <1>1, <1>3, <1>4, <1>5, <1>6, <3>1 DEF InRange, Numbers, Moves, Sees, SnapshotCovers
        <3>2. CASE u # t
            BY <1>1, <1>3, <1>4, <1>5, <1>6, <3>2 DEF InRange, Numbers, Moves, Sees
        <3> QED
            BY <3>1, <3>2
    <2> QED
        BY <2>1, <2>2 DEF InRange
<1>10. SnapshotCovers'
    BY <1>1, <1>3, <1>4, <1>5, <1>6 DEF SnapshotCovers, CoversUpTo, InRange, TypeOK, Sees
<1>11. ReadCovers'
    <2> SUFFICES ASSUME NEW u \in Threads, call'[u].pc = "read"
                 PROVE  /\ CoversUpTo(read[u].seen, read[u].readAt)'
                        /\ floor' <= read'[u].seen
                        /\ \A w \in Threads : view'[w].got <= read'[u].seen
        BY DEF ReadCovers
    <2> QED
        BY <1>1, <1>3, <1>4, <1>5, <1>6 DEF ReadCovers, CoversUpTo, LockHeld, InRange, Numbers, Moves, Sees
<1>12. GotCovers'
    BY <1>1, <1>3, <1>4, <1>5, <1>6 DEF GotCovers, TypeOK, InRange, Moves, Sees, SnapshotCovers
<1>13. ChangesShowUpInTime'
    BY <1>1, <1>3, <1>4, <1>5, <1>6 DEF ChangesShowUpInTime, TypeOK, Moves, Sees, SnapshotCovers, CoversUpTo
<1> QED
    BY <1>7, <1>8, <1>9, <1>10, <1>11, <1>12, <1>13 DEF Invariant

\* A read begins, inside the lock.
LEMMA MissStep ==
    ASSUME Invariant, NEW t \in Threads, Miss(t)
    PROVE  Invariant'
<1> USE CatalogAssumption
<1>1. /\ TypeOK /\ LockHeld /\ InRange
      /\ SnapshotCovers /\ ReadCovers /\ GotCovers /\ ChangesShowUpInTime
    BY DEF Invariant
<1>2. call \in [Threads -> Calls] /\ view \in [Threads -> Views] /\ read \in [Threads -> Reads]
    BY <1>1 DEF TypeOK, Calls, Views, Reads
<1>3. Numbers
    BY <1>1, Numeric
<1>4. /\ call[t].pc = "waiting" /\ lock = NoThread /\ lock' = t
      /\ UNCHANGED <<snapshot, view, now, version, born, floor>>
    BY <1>1, <1>3 DEF Miss, LooksUp, world
<1>5. Moves(t, "reading")
    BY <1>2, PcMoves DEF Miss
<1>6. HasRead(t, now, read[t].seen)
    BY <1>1, <1>2 DEF Miss, HasRead, Reads, TypeOK
<1>7. TypeOK'
    BY <1>1, <1>3, <1>4, <1>5, <1>6 DEF TypeOK, Calls, Reads, Views, Moves, HasRead
<1>8. LockHeld'
    BY <1>1, <1>3, <1>4, <1>5, <1>6 DEF LockHeld, TypeOK, Moves, HasRead
<1>9. InRange'
    <2>1. floor' <= version'
        BY <1>1, <1>3, <1>4, <1>5, <1>6 DEF InRange, Numbers
    <2>2. ASSUME NEW u \in Threads
          PROVE  /\ read'[u].readAt <= now' /\ read'[u].seen <= version'
                 /\ view'[u].at <= now' /\ view'[u].got <= version' /\ view'[u].asOf <= floor'
        <3>1. CASE u = t
            BY <1>1, <1>3, <1>4, <1>5, <1>6, <3>1 DEF InRange, Numbers, Moves, HasRead
        <3>2. CASE u # t
            BY <1>1, <1>3, <1>4, <1>5, <1>6, <3>2 DEF InRange, Numbers, Moves, HasRead
        <3> QED
            BY <3>1, <3>2
    <2> QED
        BY <2>1, <2>2 DEF InRange
<1>10. SnapshotCovers'
    BY <1>1, <1>3, <1>4, <1>5, <1>6 DEF SnapshotCovers, CoversUpTo, InRange, TypeOK, HasRead
<1>11. ReadCovers'
    <2> SUFFICES ASSUME NEW u \in Threads, call'[u].pc = "read"
                 PROVE  /\ CoversUpTo(read[u].seen, read[u].readAt)'
                        /\ floor' <= read'[u].seen
                        /\ \A w \in Threads : view'[w].got <= read'[u].seen
        BY DEF ReadCovers
    <2> QED
        BY <1>1, <1>3, <1>4, <1>5, <1>6 DEF ReadCovers, CoversUpTo, LockHeld, InRange, Numbers, Moves, HasRead
<1>12. GotCovers'
    BY <1>1, <1>3, <1>4, <1>5, <1>6 DEF GotCovers, TypeOK, InRange, Moves, HasRead
<1>13. ChangesShowUpInTime'
    BY <1>1, <1>3, <1>4, <1>5, <1>6 DEF ChangesShowUpInTime, TypeOK, Moves, HasRead
<1> QED
    BY <1>7, <1>8, <1>9, <1>10, <1>11, <1>12, <1>13 DEF Invariant

\* The engine answers with the schema as it is.
LEMMA EngineReadsStep ==
    ASSUME Invariant, NEW t \in Threads, EngineReads(t)
    PROVE  Invariant'
<1> USE CatalogAssumption
<1>1. /\ TypeOK /\ LockHeld /\ InRange
      /\ SnapshotCovers /\ ReadCovers /\ GotCovers /\ ChangesShowUpInTime
    BY DEF Invariant
<1>2. call \in [Threads -> Calls] /\ view \in [Threads -> Views] /\ read \in [Threads -> Reads]
    BY <1>1 DEF TypeOK, Calls, Views, Reads
<1>3. Numbers
    BY <1>1, Numeric
<1>4. /\ call[t].pc = "reading"
      /\ UNCHANGED <<lock, snapshot, view, now, version, born, floor>>
    BY <1>1, <1>3 DEF EngineReads, world
<1>5. Moves(t, "read")
    BY <1>2, PcMoves DEF EngineReads
<1>6. HasRead(t, read[t].readAt, version)
    BY <1>2, <1>3 DEF EngineReads, HasRead, Reads, Numbers
<1>7. TypeOK'
    BY <1>1, <1>3, <1>4, <1>5, <1>6 DEF TypeOK, Calls, Reads, Views, Moves, HasRead
<1>8. LockHeld'
    BY <1>1, <1>3, <1>4, <1>5, <1>6 DEF LockHeld, TypeOK, Moves, HasRead
<1>9. InRange'
    <2>1. floor' <= version'
        BY <1>1, <1>3, <1>4, <1>5, <1>6 DEF InRange, Numbers
    <2>2. ASSUME NEW u \in Threads
          PROVE  /\ read'[u].readAt <= now' /\ read'[u].seen <= version'
                 /\ view'[u].at <= now' /\ view'[u].got <= version' /\ view'[u].asOf <= floor'
        <3>1. CASE u = t
            BY <1>1, <1>3, <1>4, <1>5, <1>6, <3>1 DEF InRange, Numbers, Moves, HasRead
        <3>2. CASE u # t
            BY <1>1, <1>3, <1>4, <1>5, <1>6, <3>2 DEF InRange, Numbers, Moves, HasRead
        <3> QED
            BY <3>1, <3>2
    <2> QED
        BY <2>1, <2>2 DEF InRange
<1>10. SnapshotCovers'
    BY <1>1, <1>3, <1>4, <1>5, <1>6 DEF SnapshotCovers, CoversUpTo, InRange, TypeOK, HasRead
<1>11. ReadCovers'
    <2> SUFFICES ASSUME NEW u \in Threads, call'[u].pc = "read"
                 PROVE  /\ CoversUpTo(read[u].seen, read[u].readAt)'
                        /\ floor <= read'[u].seen
                        /\ \A w \in Threads : view[w].got <= read'[u].seen
        BY <1>4 DEF ReadCovers
    <2>1. u = t
        BY <1>1, <1>4, <1>5 DEF LockHeld, Moves
    <2>2. read'[u].seen = version
        BY <1>6, <2>1 DEF HasRead
    <2>3. CoversUpTo(read[u].seen, read[u].readAt)'
        BY <1>3, <1>4, <2>2 DEF CoversUpTo, Numbers, Versions
    <2> QED
        BY <1>1, <2>2, <2>3 DEF InRange
<1>12. GotCovers'
    BY <1>1, <1>3, <1>4, <1>5, <1>6 DEF GotCovers, TypeOK, InRange, Moves, HasRead
<1>13. ChangesShowUpInTime'
    BY <1>1, <1>3, <1>4, <1>5, <1>6 DEF ChangesShowUpInTime, TypeOK, Moves, HasRead
<1> QED
    BY <1>7, <1>8, <1>9, <1>10, <1>11, <1>12, <1>13 DEF Invariant

\* A failed read leaves the snapshot alone.
LEMMA EngineFailsStep ==
    ASSUME Invariant, NEW t \in Threads, EngineFails(t)
    PROVE  Invariant'
<1> USE CatalogAssumption
<1>1. /\ TypeOK /\ LockHeld /\ InRange
      /\ SnapshotCovers /\ ReadCovers /\ GotCovers /\ ChangesShowUpInTime
    BY DEF Invariant
<1>2. call \in [Threads -> Calls] /\ view \in [Threads -> Views] /\ read \in [Threads -> Reads]
    BY <1>1 DEF TypeOK, Calls, Views, Reads
<1>3. Numbers
    BY <1>1, Numeric
<1>4. /\ call[t].pc = "reading" /\ lock' = NoThread
      /\ UNCHANGED <<snapshot, view, now, version, born, floor>>
    BY <1>1, <1>3 DEF EngineFails, world
<1>5. Moves(t, "done")
    BY <1>2, RaisedMoves DEF EngineFails
<1>6. HasRead(t, 0, 0)
    BY <1>1, <1>2 DEF EngineFails, NoRead, HasRead, Reads
<1>7. TypeOK'
    BY <1>1, <1>3, <1>4, <1>5, <1>6 DEF TypeOK, Calls, Reads, Views, Moves, HasRead
<1>8. LockHeld'
    BY <1>1, <1>3, <1>4, <1>5, <1>6 DEF LockHeld, TypeOK, Moves, HasRead
<1>9. InRange'
    <2>1. floor' <= version'
        BY <1>1, <1>3, <1>4, <1>5, <1>6 DEF InRange, Numbers
    <2>2. ASSUME NEW u \in Threads
          PROVE  /\ read'[u].readAt <= now' /\ read'[u].seen <= version'
                 /\ view'[u].at <= now' /\ view'[u].got <= version' /\ view'[u].asOf <= floor'
        <3>1. CASE u = t
            BY <1>1, <1>3, <1>4, <1>5, <1>6, <3>1 DEF InRange, Numbers, Moves, HasRead
        <3>2. CASE u # t
            BY <1>1, <1>3, <1>4, <1>5, <1>6, <3>2 DEF InRange, Numbers, Moves, HasRead
        <3> QED
            BY <3>1, <3>2
    <2> QED
        BY <2>1, <2>2 DEF InRange
<1>10. SnapshotCovers'
    BY <1>1, <1>3, <1>4, <1>5, <1>6 DEF SnapshotCovers, CoversUpTo, InRange, TypeOK, HasRead
<1>11. ReadCovers'
    <2> SUFFICES ASSUME NEW u \in Threads, call'[u].pc = "read"
                 PROVE  /\ CoversUpTo(read[u].seen, read[u].readAt)'
                        /\ floor' <= read'[u].seen
                        /\ \A w \in Threads : view'[w].got <= read'[u].seen
        BY DEF ReadCovers
    <2> QED
        BY <1>1, <1>3, <1>4, <1>5, <1>6 DEF ReadCovers, CoversUpTo, LockHeld, InRange, Numbers, Moves, HasRead
<1>12. GotCovers'
    BY <1>1, <1>3, <1>4, <1>5, <1>6 DEF GotCovers, TypeOK, InRange, Moves, HasRead
<1>13. ChangesShowUpInTime'
    BY <1>1, <1>3, <1>4, <1>5, <1>6 DEF ChangesShowUpInTime, TypeOK, Moves, HasRead
<1> QED
    BY <1>7, <1>8, <1>9, <1>10, <1>11, <1>12, <1>13 DEF Invariant

\* A read becomes the snapshot.
LEMMA StoreStep ==
    ASSUME Invariant, NEW t \in Threads, Store(t)
    PROVE  Invariant'
<1> USE CatalogAssumption
<1>1. /\ TypeOK /\ LockHeld /\ InRange
      /\ SnapshotCovers /\ ReadCovers /\ GotCovers /\ ChangesShowUpInTime
    BY DEF Invariant
<1>2. call \in [Threads -> Calls] /\ view \in [Threads -> Views] /\ read \in [Threads -> Reads]
    BY <1>1 DEF TypeOK, Calls, Views, Reads
<1>3. Numbers
    BY <1>1, Numeric
<1>4. /\ call[t].pc = "read" /\ lock' = NoThread
      /\ read[t].seen \in Nat /\ read[t].readAt \in Nat
      /\ snapshot' = [version |-> read[t].seen, readAt |-> read[t].readAt]
      /\ UNCHANGED <<now, version, born, floor>>
    BY <1>1, <1>3 DEF Store, TypeOK, world
<1>5. Moves(t, "got")
    BY <1>1, <1>2, <1>4, FoundMoves DEF Store
<1>6. Sees(t, read[t].seen, read[t].readAt, view[t].asOf)
    BY <1>1, <1>2, <1>4, FoundSees DEF Store
<1>7. HasRead(t, 0, 0)
    BY <1>1, <1>2 DEF Store, NoRead, HasRead, Reads
<1>8. TypeOK'
    BY <1>1, <1>3, <1>4, <1>5, <1>6, <1>7 DEF TypeOK, Calls, Reads, Views, Moves, Sees, HasRead
<1>9. LockHeld'
    BY <1>1, <1>3, <1>4, <1>5, <1>6, <1>7 DEF LockHeld, TypeOK, Moves, Sees, HasRead
<1>10. InRange'
    <2>1. floor' <= version'
        BY <1>1, <1>3, <1>4, <1>5, <1>6, <1>7 DEF InRange, Numbers
    <2>2. ASSUME NEW u \in Threads
          PROVE  /\ read'[u].readAt <= now' /\ read'[u].seen <= version'
                 /\ view'[u].at <= now' /\ view'[u].got <= version' /\ view'[u].asOf <= floor'
        <3>1. CASE u = t
            BY <1>1, <1>3, <1>4, <1>5, <1>6, <1>7, <3>1 DEF InRange, Numbers, Moves, Sees, HasRead
        <3>2. CASE u # t
            BY <1>1, <1>3, <1>4, <1>5, <1>6, <1>7, <3>2 DEF InRange, Numbers, Moves, Sees, HasRead
        <3> QED
            BY <3>1, <3>2
    <2> QED
        BY <2>1, <2>2 DEF InRange
<1>11. SnapshotCovers'
    BY <1>1, <1>3, <1>4, <1>5, <1>6, <1>7 DEF SnapshotCovers, CoversUpTo, InRange, TypeOK, Sees, HasRead, ReadCovers
<1>12. ReadCovers'
    <2> SUFFICES ASSUME NEW u \in Threads, call'[u].pc = "read"
                 PROVE  /\ CoversUpTo(read[u].seen, read[u].readAt)'
                        /\ floor' <= read'[u].seen
                        /\ \A w \in Threads : view'[w].got <= read'[u].seen
        BY DEF ReadCovers
    <2> QED
        BY <1>1, <1>3, <1>4, <1>5, <1>6, <1>7 DEF ReadCovers, CoversUpTo, LockHeld, InRange, Numbers, Moves, Sees, HasRead
<1>13. GotCovers'
    BY <1>1, <1>3, <1>4, <1>5, <1>6, <1>7 DEF GotCovers, TypeOK, InRange, Moves, Sees, HasRead, ReadCovers
<1>14. ChangesShowUpInTime'
    BY <1>1, <1>3, <1>4, <1>5, <1>6, <1>7 DEF ChangesShowUpInTime, TypeOK, Moves, Sees, HasRead, ReadCovers, CoversUpTo
<1> QED
    BY <1>8, <1>9, <1>10, <1>11, <1>12, <1>13, <1>14 DEF Invariant

\* refresh() takes effect while nobody reads.
LEMMA RefreshStep ==
    ASSUME Invariant, NEW t \in Threads, Refresh(t)
    PROVE  Invariant'
<1> USE CatalogAssumption
<1>1. /\ TypeOK /\ LockHeld /\ InRange
      /\ SnapshotCovers /\ ReadCovers /\ GotCovers /\ ChangesShowUpInTime
    BY DEF Invariant
<1>2. call \in [Threads -> Calls] /\ view \in [Threads -> Views] /\ read \in [Threads -> Reads]
    BY <1>1 DEF TypeOK, Calls, Views, Reads
<1>3. Numbers
    BY <1>1, Numeric
<1>4. /\ call[t].pc = "waiting" /\ lock = NoThread
      /\ snapshot' = NoSnapshot /\ floor' = version /\ floor' \in Nat
      /\ UNCHANGED <<lock, read, view, now, version, born>>
    BY <1>1, <1>3 DEF Refresh, Numbers, world
<1>5. Moves(t, "done")
    BY <1>2, DoneMoves DEF Refresh
<1>6. TypeOK'
    BY <1>1, <1>3, <1>4, <1>5 DEF TypeOK, Calls, Reads, Views, Moves
<1>7. LockHeld'
    BY <1>1, <1>3, <1>4, <1>5 DEF LockHeld, TypeOK, Moves
<1>8. InRange'
    <2>1. floor' <= version'
        BY <1>1, <1>3, <1>4, <1>5 DEF InRange, Numbers
    <2>2. ASSUME NEW u \in Threads
          PROVE  /\ read'[u].readAt <= now' /\ read'[u].seen <= version'
                 /\ view'[u].at <= now' /\ view'[u].got <= version' /\ view'[u].asOf <= floor'
        <3>1. CASE u = t
            BY <1>1, <1>3, <1>4, <1>5, <3>1 DEF InRange, Numbers, Moves
        <3>2. CASE u # t
            BY <1>1, <1>3, <1>4, <1>5, <3>2 DEF InRange, Numbers, Moves
        <3> QED
            BY <3>1, <3>2
    <2> QED
        BY <2>1, <2>2 DEF InRange
<1>9. SnapshotCovers'
    BY <1>1, <1>3, <1>4, <1>5 DEF SnapshotCovers, CoversUpTo, InRange, TypeOK
<1>10. ReadCovers'
    <2> SUFFICES ASSUME NEW u \in Threads, call'[u].pc = "read"
                 PROVE  /\ CoversUpTo(read[u].seen, read[u].readAt)'
                        /\ floor' <= read'[u].seen
                        /\ \A w \in Threads : view'[w].got <= read'[u].seen
        BY DEF ReadCovers
    <2> QED
        BY <1>1, <1>3, <1>4, <1>5 DEF ReadCovers, CoversUpTo, LockHeld, InRange, Numbers, Moves
<1>11. GotCovers'
    BY <1>1, <1>3, <1>4, <1>5 DEF GotCovers, TypeOK, InRange, Moves
<1>12. ChangesShowUpInTime'
    BY <1>1, <1>3, <1>4, <1>5 DEF ChangesShowUpInTime, TypeOK, Moves
<1> QED
    BY <1>6, <1>7, <1>8, <1>9, <1>10, <1>11, <1>12 DEF Invariant

\* Time passes.
LEMMA TickStep ==
    ASSUME Invariant, Tick
    PROVE  Invariant'
<1> USE CatalogAssumption DEF Tick
<1>1. /\ TypeOK /\ LockHeld /\ InRange
      /\ SnapshotCovers /\ ReadCovers /\ GotCovers /\ ChangesShowUpInTime
    BY DEF Invariant
<1>2. now' \in Nat /\ now <= now'
    BY <1>1 DEF TypeOK
<1>3. TypeOK' /\ LockHeld'
    BY <1>1, <1>2 DEF TypeOK, LockHeld
<1>4. InRange'
    BY <1>1, <1>2 DEF InRange, TypeOK
<1>5. SnapshotCovers'
    BY <1>1, <1>2 DEF SnapshotCovers, CoversUpTo, TypeOK
<1>6. ReadCovers' /\ GotCovers' /\ ChangesShowUpInTime'
    BY <1>1 DEF ReadCovers, CoversUpTo, GotCovers, ChangesShowUpInTime
<1> QED
    BY <1>3, <1>4, <1>5, <1>6 DEF Invariant

\* The schema changes: the change is no older than anything seen so far.
LEMMA SchemaStep ==
    ASSUME Invariant, SchemaChanges
    PROVE  Invariant'
<1> USE CatalogAssumption
<1>1. /\ TypeOK /\ LockHeld /\ InRange
      /\ SnapshotCovers /\ ReadCovers /\ GotCovers /\ ChangesShowUpInTime
    BY DEF Invariant
<1>2. /\ version \in Nat /\ version + 1 \in Versions /\ version' = version + 1
      /\ UNCHANGED <<lock, snapshot, call, read, view, now, floor>>
    BY <1>1 DEF SchemaChanges, TypeOK, Versions
<1>3. /\ born' \in [Versions -> Nat] /\ born'[version + 1] = now
      /\ \A v \in Versions : v # version + 1 => born'[v] = born[v]
    BY <1>1, <1>2 DEF SchemaChanges, TypeOK
<1>4. ASSUME NEW v \in Nat, NEW time \in Nat, CoversUpTo(v, time), time <= now
      PROVE  CoversUpTo(v, time)'
    <2> SUFFICES ASSUME NEW w \in Versions, v < w, w <= version + 1
                 PROVE  time <= born'[w]
        BY <1>2 DEF CoversUpTo
    <2>1. w \in Nat
        BY DEF Versions
    <2>2. CASE w = version + 1
        BY <1>3, <1>4, <2>2
    <2>3. CASE w # version + 1
        <3>1. w <= version /\ born'[w] = born[w]
            BY <1>2, <1>3, <2>1, <2>3
        <3> QED
            BY <1>4, <3>1 DEF CoversUpTo
    <2> QED
        BY <2>2, <2>3
<1>5. TypeOK' /\ LockHeld'
    BY <1>1, <1>2, <1>3 DEF TypeOK, LockHeld
<1>6. InRange'
    BY <1>1, <1>2 DEF InRange, TypeOK
<1>7. SnapshotCovers'
    <2> SUFFICES ASSUME snapshot # NoSnapshot
                 PROVE  /\ snapshot.version <= version + 1 /\ snapshot.readAt <= now
                        /\ CoversUpTo(snapshot.version, snapshot.readAt)'
                        /\ floor <= snapshot.version
                        /\ \A t \in Threads : view[t].got <= snapshot.version
        BY <1>2 DEF SnapshotCovers, CoversUpTo
    <2>1. snapshot.version \in Nat /\ snapshot.readAt \in Nat
        BY <1>1 DEF TypeOK
    <2> QED
        BY <1>1, <1>2, <1>4, <2>1 DEF SnapshotCovers
<1>8. ReadCovers'
    <2> SUFFICES ASSUME NEW t \in Threads, call[t].pc = "read"
                 PROVE  /\ CoversUpTo(read[t].seen, read[t].readAt)'
                        /\ floor <= read[t].seen
                        /\ \A u \in Threads : view[u].got <= read[t].seen
        BY <1>2 DEF ReadCovers, CoversUpTo
    <2>1. read[t].seen \in Nat /\ read[t].readAt \in Nat /\ read[t].readAt <= now
        BY <1>1 DEF TypeOK, InRange
    <2>2. /\ CoversUpTo(read[t].seen, read[t].readAt)
          /\ floor <= read[t].seen
          /\ \A u \in Threads : view[u].got <= read[t].seen
        BY <1>1 DEF ReadCovers
    <2>3. CoversUpTo(read[t].seen, read[t].readAt)'
        BY <1>2, <1>4, <2>1, <2>2 DEF CoversUpTo
    <2> QED
        BY <2>2, <2>3
<1>9. GotCovers'
    BY <1>1, <1>2 DEF GotCovers
<1>10. ChangesShowUpInTime'
    <2> SUFFICES ASSUME NEW t \in Threads, call[t].pc = "got", NEW v \in Versions,
                        v > view[t].got, v <= version + 1
                 PROVE  view[t].at < born'[v] + MaxAge
        BY <1>2 DEF ChangesShowUpInTime
    <2>1. view[t].got \in Nat /\ view[t].at \in Nat /\ view[t].at <= now /\ v \in Nat /\ now \in Nat
        BY <1>1 DEF TypeOK, InRange, Versions
    <2>2. CASE v = version + 1
        BY <1>3, <2>1, <2>2
    <2>3. CASE v <= version
        <3>1. born'[v] = born[v] /\ born[v] \in Nat
            BY <1>1, <1>2, <1>3, <2>1, <2>3 DEF TypeOK
        <3> QED
            BY <1>1, <2>1, <2>3, <3>1 DEF ChangesShowUpInTime
    <2> QED
        BY <1>2, <2>1, <2>2, <2>3
<1> QED
    BY <1>5, <1>6, <1>7, <1>8, <1>9, <1>10 DEF Invariant

\* So does a step that changes nothing.
LEMMA StutterStep == Invariant /\ UNCHANGED vars => Invariant'
<1> SUFFICES ASSUME Invariant, UNCHANGED vars PROVE Invariant'
    OBVIOUS
<1> USE DEF vars, world, Invariant
<1>1. TypeOK' /\ LockHeld' /\ InRange'
    BY DEF TypeOK, LockHeld, InRange
<1>2. SnapshotCovers' /\ ReadCovers' /\ GotCovers' /\ ChangesShowUpInTime'
    BY DEF SnapshotCovers, ReadCovers, CoversUpTo, GotCovers, ChangesShowUpInTime
<1> QED
    BY <1>1, <1>2

\* A new Catalog, with nothing cached, meets the invariant.
LEMMA InitInvariant == Init => Invariant
<1> SUFFICES ASSUME Init PROVE Invariant
    OBVIOUS
<1> USE CatalogAssumption DEF Init, Idle, NoRead, Versions
<1>1. TypeOK
    BY DEF TypeOK
<1>2. LockHeld /\ InRange
    BY DEF LockHeld, InRange, TypeOK
<1>3. SnapshotCovers /\ ReadCovers /\ GotCovers /\ ChangesShowUpInTime
    BY DEF SnapshotCovers, ReadCovers, GotCovers, ChangesShowUpInTime
<1> QED
    BY <1>1, <1>2, <1>3 DEF Invariant
-----------------------------------------------------------------------------
(* The results.                                                            *)

\* The inductive invariant of the cache always holds.
THEOREM InvariantHolds == Spec => []Invariant
<1>1. Init => Invariant
    BY InitInvariant
<1>2. Invariant /\ [Next]_vars => Invariant'
    BY EnterStep, HitStep, MissStep, EngineReadsStep, EngineFailsStep, StoreStep, RefreshStep,
       BetweenLookupsStep, ReturnStep, TickStep, SchemaStep, StutterStep
       DEF Next, Step, Current
<1> QED
    BY <1>1, <1>2, PTL DEF Spec

\* The state always has its type.
THEOREM TypeCorrect == Spec => []TypeOK
<1>1. Invariant => TypeOK
    BY DEF Invariant
<1> QED
    BY <1>1, InvariantHolds, PTL

\* Two threads never read the warehouse's catalog at once: _current() reads inside the lock.
THEOREM SingleReader == Spec => []OneReadAtATime
<1>1. Invariant => OneReadAtATime
    BY DEF Invariant, LockHeld, OneReadAtATime
<1> QED
    BY <1>1, InvariantHolds, PTL

\* A change of the schema is seen by every lookup max_age_s or more after it.
THEOREM Freshness == Spec => []ChangesShowUpInTime
<1>1. Invariant => ChangesShowUpInTime
    BY DEF Invariant
<1> QED
    BY <1>1, InvariantHolds, PTL

\* No lookup that begins after a refresh() sees a schema older than the refresh.
THEOREM RefreshWorks == Spec => []RefreshForgets
<1>1. Invariant => RefreshForgets
    BY DEF Invariant, SnapshotCovers, GotCovers, RefreshForgets
<1> QED
    BY <1>1, InvariantHolds, PTL

\* The lookups of one access check see versions in order, through expiry, refresh and failure.
THEOREM LookupsInOrder == Spec => LookupsNeverGoBack
<1> DEFINE InOrder(u) ==
        call[u].pc # "idle" /\ call'[u].pc = "got" => view'[u].got >= view[u].got
<1>1. ASSUME Invariant, [Next]_vars, NEW u \in Threads PROVE InOrder(u)
    <2>1. TypeOK /\ SnapshotCovers /\ ReadCovers /\ Numbers
        BY <1>1, Numeric DEF Invariant
    <2>2. call \in [Threads -> Calls] /\ view \in [Threads -> Views]
        BY <2>1 DEF TypeOK, Calls, Views
    <2>3. view[u].got \in Nat
        BY <2>1 DEF Numbers
    <2>4. ASSUME NEW t \in Threads, NEW op \in {"tables", "check", "refresh"}, Enter(t, op)
          PROVE  InOrder(u)
        <3>1. call[t].pc = "idle" /\ (u # t => view'[u] = view[u])
            BY <2>2, <2>4 DEF Enter
        <3> QED
            BY <2>3, <3>1
    <2>5. ASSUME NEW t \in Threads, Hit(t) PROVE InOrder(u)
        <3>1. snapshot # NoSnapshot
            BY <2>5 DEF Hit, Fresh
        <3>2. snapshot.version \in Nat /\ now \in Nat /\ view[u].got <= snapshot.version
            BY <2>1, <3>1 DEF Numbers, SnapshotCovers
        <3>3. Sees(t, snapshot.version, now, view[t].asOf)
            BY <2>2, <2>5, <3>2, FoundSees DEF Hit
        <3> QED
            BY <2>3, <3>2, <3>3 DEF Sees
    <2>6. ASSUME NEW t \in Threads, Store(t) PROVE InOrder(u)
        <3>1. call[t].pc = "read"
            BY <2>6 DEF Store
        <3>2. read[t].seen \in Nat /\ read[t].readAt \in Nat /\ view[u].got <= read[t].seen
            BY <2>1, <3>1 DEF Numbers, ReadCovers
        <3>3. Sees(t, read[t].seen, read[t].readAt, view[t].asOf)
            BY <2>2, <2>6, <3>2, FoundSees DEF Store
        <3> QED
            BY <2>3, <3>2, <3>3 DEF Sees
    <2>7. ASSUME NEW t \in Threads, Return(t) PROVE InOrder(u)
        <3>1. Moves(t, "idle") /\ (u # t => view'[u] = view[u])
            BY <2>2, <2>7, ReturnMoves DEF Return
        <3> QED
            BY <2>3, <3>1 DEF Moves
    <2>8. CASE UNCHANGED view
        BY <2>3, <2>8
    <2>9. ASSUME NEW t \in Threads,
                 Miss(t) \/ EngineReads(t) \/ EngineFails(t) \/ Refresh(t) \/ LookUpAgain(t) \/ Decide(t)
          PROVE  UNCHANGED view
        BY <2>9 DEF Miss, EngineReads, EngineFails, Refresh, LookUpAgain, Decide
    <2>10. Tick \/ SchemaChanges \/ UNCHANGED vars => UNCHANGED view
        BY DEF Tick, SchemaChanges, vars
    <2> QED
        BY <1>1, <2>4, <2>5, <2>6, <2>7, <2>8, <2>9, <2>10 DEF Next, Step, Current
<1>2. Invariant /\ [Next]_vars =>
        [\A t \in Threads :
            call[t].pc # "idle" /\ call'[t].pc = "got" => view'[t].got >= view[t].got]_vars
    BY <1>1
<1> QED
    BY <1>2, InvariantHolds, PTL DEF Spec, LookupsNeverGoBack
=============================================================================
