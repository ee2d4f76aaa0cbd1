-------------------------- MODULE AuditSinkProofs --------------------------
(***************************************************************************)
(* What the audit sink guarantees for any number of threads, events and    *)
(* faults.                                                                 *)
(***************************************************************************)
EXTENDS AuditSink, TLAPS

\* Exactly the thread inside the lock has a call under way, and its first try begins there.
LockHeld ==
    \A t \in Threads :
        /\ call[t].pc \in Inside <=> lock = t
        /\ call[t].pc \in {"idle", "waiting"} => call[t].attempt = 1

\* A call that records carries an event it was asked to record, and no two calls the same.
OwnEvents ==
    /\ \A t \in Threads : call[t].op = "record" => call[t].event \in asked
    /\ \A t, u \in Threads :
        /\ call[t].op = "record" /\ call[u].op = "record"
        /\ call[t].event.id = call[u].event.id
        => t = u

\* An event id stands for one event, and a row for an event somebody asked to record.
OneEventPerId == \A e, f \in asked : e.id = f.id => e = f
RowsWereAsked == \A i \in Ids : rows[i] # NoRow => [id |-> i, content |-> rows[i]] \in asked

\* A call whose INSERT the database has acknowledged has its row.
Stored ==
    \A t \in Threads :
        call[t].pc \in {"done", "ok"} /\ call[t].op = "record" =>
            rows[call[t].event.id] = call[t].event.content

\* While nothing goes wrong during a call the database is up, the connection of its second try
\* is sound, and its event is neither a row nor an orphan until its own INSERT is served.
Undisturbed ==
    \A t \in Threads \ disturbed :
        /\ call[t].pc \in Inside => dbUp
        /\ call[t].pc \in Inside /\ call[t].attempt = 2 => conn # "broken"
        /\ call[t].pc = "rejected" => call[t].op = "record"
        /\ call[t].op = "record" /\ call[t].pc \in {"waiting", "connect", "sent"} =>
            /\ rows[call[t].event.id] = NoRow
            /\ \A e \in orphans : e.id # call[t].event.id

\* While nothing goes wrong during a call, its event is rejected only for what it says, or for
\* want of a table: never as a duplicate.
RejectedForCause ==
    \A t \in Threads \ disturbed :
        call[t].pc = "rejected" => ~table \/ call[t].event.content \in Unstorable

\* The inductive invariant.
Invariant ==
    /\ TypeOK
    /\ LockHeld
    /\ OwnEvents /\ OneEventPerId /\ RowsWereAsked
    /\ Stored
    /\ Undisturbed /\ RejectedForCause
-----------------------------------------------------------------------------
(* Each part of the invariant is kept by every step.                       *)

\* Types: a call is tried at most twice, and every orphan was asked for.
LEMMA TypeStep ==
    ASSUME TypeOK, OwnEvents, [Next]_vars
    PROVE  TypeOK'
<1> USE SinkAssumption DEF TypeOK, Inside, OnConnection, Ops, dbVars, Events, OwnEvents
<1>1. ASSUME NEW t \in Threads, EnterSetup(t) PROVE TypeOK'
    BY <1>1 DEF EnterSetup, Enter, Idle
<1>2. ASSUME NEW t \in Threads, EnterPing(t) PROVE TypeOK'
    BY <1>2 DEF EnterPing, Enter, Idle
<1>3. ASSUME NEW t \in Threads, NEW event \in Events, EnterRecord(t, event) PROVE TypeOK'
    BY <1>3 DEF EnterRecord, Enter, Idle
<1>4. ASSUME NEW t \in Threads, Acquire(t) PROVE TypeOK'
    BY <1>4 DEF Acquire
<1>5. ASSUME NEW t \in Threads, Reuse(t) PROVE TypeOK'
    BY <1>5 DEF Reuse
<1>6. ASSUME NEW t \in Threads, Connect(t) PROVE TypeOK'
    BY <1>6 DEF Connect
<1>7. ASSUME NEW t \in Threads, ConnectFails(t) PROVE TypeOK'
    BY <1>7 DEF ConnectFails, OperationalError, Leave
<1>8. ASSUME NEW t \in Threads, ConnectionLost(t) PROVE TypeOK'
    BY <1>8 DEF ConnectionLost, OperationalError, Leave
<1>9. ASSUME NEW t \in Threads, Succeed(t) PROVE TypeOK'
    BY <1>9 DEF Succeed, Leave
<1>10. ASSUME NEW t \in Threads, Reject(t) PROVE TypeOK'
    BY <1>10 DEF Reject, Leave
<1>11. ASSUME NEW t \in Threads, ServeSetup(t) PROVE TypeOK'
    BY <1>11 DEF ServeSetup, Served, Answer
<1>12. ASSUME NEW t \in Threads, ServePing(t) PROVE TypeOK'
    BY <1>12 DEF ServePing, Served, Answer
<1>13. ASSUME NEW t \in Threads, ServeInsert(t) PROVE TypeOK'
    BY <1>13 DEF ServeInsert, Served, Answer, Refused
<1>14. ASSUME NEW t \in Threads, RefuseInsert(t) PROVE TypeOK'
    BY <1>14 DEF RefuseInsert, Served, Answer, Refused
<1>15. ASSUME NEW t \in Threads, Return(t) PROVE TypeOK'
    BY <1>15 DEF Return, Idle
<1>16. CASE Close
    BY <1>16 DEF Close
<1>17. CASE Crash
    BY <1>17 DEF Crash, Fault, InFlight, Idle
<1>18. ASSUME NEW event \in orphans, OrphanCommits(event) PROVE TypeOK'
    BY <1>18 DEF OrphanCommits, Refused, clientVars
<1>19. ASSUME NEW event \in orphans, OrphanDies(event) PROVE TypeOK'
    BY <1>19 DEF OrphanDies, clientVars
<1>20. CASE ConnectionBreaks
    BY <1>20 DEF ConnectionBreaks, Fault, Disturb, InFlight
<1>21. CASE DbDown
    <2>1. faults' \in 0..MaxFaults
        BY <1>21 DEF DbDown, Fault
    <2>2. conn' \in {"none", "open", "broken"}
        BY <1>21 DEF DbDown
    <2>3. disturbed' \subseteq Threads
        BY <1>21 DEF DbDown, Disturb
    <2> QED
        BY <1>21, <2>1, <2>2, <2>3 DEF DbDown
<1>22. CASE DbUp
    BY <1>22 DEF DbUp, clientVars
<1>23. CASE UNCHANGED vars
    BY <1>23 DEF vars
<1> QED
    BY <1>1, <1>2, <1>3, <1>4, <1>5, <1>6, <1>7, <1>8, <1>9, <1>10, <1>11, <1>12, <1>13, <1>14, <1>15, <1>16, <1>17, <1>18, <1>19, <1>20, <1>21, <1>22, <1>23
       DEF Next, Attempt, Serve, Environment

\* The lock: taken before the first try, held through the second, released with the result.
LEMMA LockStep ==
    ASSUME TypeOK, LockHeld, [Next]_vars
    PROVE  LockHeld'
<1> USE SinkAssumption DEF TypeOK, Inside, OnConnection, Ops, dbVars, LockHeld
<1>1. ASSUME NEW t \in Threads, EnterSetup(t) PROVE LockHeld'
    BY <1>1 DEF EnterSetup, Enter, Idle
<1>2. ASSUME NEW t \in Threads, EnterPing(t) PROVE LockHeld'
    BY <1>2 DEF EnterPing, Enter, Idle
<1>3. ASSUME NEW t \in Threads, NEW event \in Events, EnterRecord(t, event) PROVE LockHeld'
    BY <1>3 DEF EnterRecord, Enter, Idle
<1>4. ASSUME NEW t \in Threads, Acquire(t) PROVE LockHeld'
    BY <1>4 DEF Acquire
<1>5. ASSUME NEW t \in Threads, Reuse(t) PROVE LockHeld'
    BY <1>5 DEF Reuse
<1>6. ASSUME NEW t \in Threads, Connect(t) PROVE LockHeld'
    BY <1>6 DEF Connect
<1>7. ASSUME NEW t \in Threads, ConnectFails(t) PROVE LockHeld'
    BY <1>7 DEF ConnectFails, OperationalError, Leave
<1>8. ASSUME NEW t \in Threads, ConnectionLost(t) PROVE LockHeld'
    BY <1>8 DEF ConnectionLost, OperationalError, Leave
<1>9. ASSUME NEW t \in Threads, Succeed(t) PROVE LockHeld'
    BY <1>9 DEF Succeed, Leave
<1>10. ASSUME NEW t \in Threads, Reject(t) PROVE LockHeld'
    BY <1>10 DEF Reject, Leave
<1>11. ASSUME NEW t \in Threads, ServeSetup(t) PROVE LockHeld'
    BY <1>11 DEF ServeSetup, Served, Answer
<1>12. ASSUME NEW t \in Threads, ServePing(t) PROVE LockHeld'
    BY <1>12 DEF ServePing, Served, Answer
<1>13. ASSUME NEW t \in Threads, ServeInsert(t) PROVE LockHeld'
    BY <1>13 DEF ServeInsert, Served, Answer, Refused
<1>14. ASSUME NEW t \in Threads, RefuseInsert(t) PROVE LockHeld'
    BY <1>14 DEF RefuseInsert, Served, Answer, Refused
<1>15. ASSUME NEW t \in Threads, Return(t) PROVE LockHeld'
    BY <1>15 DEF Return, Idle
<1>16. CASE Close
    BY <1>16 DEF Close
<1>17. CASE Crash
    BY <1>17 DEF Crash, Fault, InFlight, Idle
<1>18. ASSUME NEW event \in orphans, OrphanCommits(event) PROVE LockHeld'
    BY <1>18 DEF OrphanCommits, Refused, clientVars
<1>19. ASSUME NEW event \in orphans, OrphanDies(event) PROVE LockHeld'
    BY <1>19 DEF OrphanDies, clientVars
<1>20. CASE ConnectionBreaks
    BY <1>20 DEF ConnectionBreaks, Fault, Disturb, InFlight
<1>21. CASE DbDown
    BY <1>21 DEF DbDown, Fault, Disturb
<1>22. CASE DbUp
    BY <1>22 DEF DbUp, clientVars
<1>23. CASE UNCHANGED vars
    BY <1>23 DEF vars
<1> QED
    BY <1>1, <1>2, <1>3, <1>4, <1>5, <1>6, <1>7, <1>8, <1>9, <1>10, <1>11, <1>12, <1>13, <1>14, <1>15, <1>16, <1>17, <1>18, <1>19, <1>20, <1>21, <1>22, <1>23
       DEF Next, Attempt, Serve, Environment

\* Each event is asked for once, and belongs to one call.
LEMMA EventsStep ==
    ASSUME TypeOK, OwnEvents, OneEventPerId, [Next]_vars
    PROVE  OwnEvents' /\ OneEventPerId'
<1> USE SinkAssumption DEF TypeOK, Inside, OnConnection, Ops, dbVars, Events, OwnEvents, OneEventPerId
<1> DEFINE Kept ==
        /\ asked' = asked
        /\ \A u \in Threads : call'[u].op = call[u].op /\ call'[u].event = call[u].event
<1>a. ASSUME Kept PROVE OwnEvents' /\ OneEventPerId'
    BY <1>a
<1>1. ASSUME NEW t \in Threads, EnterSetup(t) PROVE OwnEvents' /\ OneEventPerId'
    BY <1>1 DEF EnterSetup, Enter, Idle
<1>2. ASSUME NEW t \in Threads, EnterPing(t) PROVE OwnEvents' /\ OneEventPerId'
    BY <1>2 DEF EnterPing, Enter, Idle
<1>3. ASSUME NEW t \in Threads, NEW event \in Events, EnterRecord(t, event) PROVE OwnEvents' /\ OneEventPerId'
    BY <1>3 DEF EnterRecord, Enter, Idle
<1>4. ASSUME NEW t \in Threads, Acquire(t) PROVE OwnEvents' /\ OneEventPerId'
    <2>1. Kept
        BY <1>4 DEF Acquire
    <2> QED
        BY <1>a, <2>1
<1>5. ASSUME NEW t \in Threads, Reuse(t) PROVE OwnEvents' /\ OneEventPerId'
    <2>1. Kept
        BY <1>5 DEF Reuse
    <2> QED
        BY <1>a, <2>1
<1>6. ASSUME NEW t \in Threads, Connect(t) PROVE OwnEvents' /\ OneEventPerId'
    <2>1. Kept
        BY <1>6 DEF Connect
    <2> QED
        BY <1>a, <2>1
<1>7. ASSUME NEW t \in Threads, ConnectFails(t) PROVE OwnEvents' /\ OneEventPerId'
    <2>1. Kept
        BY <1>7 DEF ConnectFails, OperationalError, Leave
    <2> QED
        BY <1>a, <2>1
<1>8. ASSUME NEW t \in Threads, ConnectionLost(t) PROVE OwnEvents' /\ OneEventPerId'
    <2>1. Kept
        BY <1>8 DEF ConnectionLost, OperationalError, Leave
    <2> QED
        BY <1>a, <2>1
<1>9. ASSUME NEW t \in Threads, Succeed(t) PROVE OwnEvents' /\ OneEventPerId'
    <2>1. Kept
        BY <1>9 DEF Succeed, Leave
    <2> QED
        BY <1>a, <2>1
<1>10. ASSUME NEW t \in Threads, Reject(t) PROVE OwnEvents' /\ OneEventPerId'
    <2>1. Kept
        BY <1>10 DEF Reject, Leave
    <2> QED
        BY <1>a, <2>1
<1>11. ASSUME NEW t \in Threads, ServeSetup(t) PROVE OwnEvents' /\ OneEventPerId'
    <2>1. Kept
        BY <1>11 DEF ServeSetup, Served, Answer
    <2> QED
        BY <1>a, <2>1
<1>12. ASSUME NEW t \in Threads, ServePing(t) PROVE OwnEvents' /\ OneEventPerId'
    <2>1. Kept
        BY <1>12 DEF ServePing, Served, Answer
    <2> QED
        BY <1>a, <2>1
<1>13. ASSUME NEW t \in Threads, ServeInsert(t) PROVE OwnEvents' /\ OneEventPerId'
    <2>1. Kept
        BY <1>13 DEF ServeInsert, Served, Answer, Refused
    <2> QED
        BY <1>a, <2>1
<1>14. ASSUME NEW t \in Threads, RefuseInsert(t) PROVE OwnEvents' /\ OneEventPerId'
    <2>1. Kept
        BY <1>14 DEF RefuseInsert, Served, Answer, Refused
    <2> QED
        BY <1>a, <2>1
<1>15. ASSUME NEW t \in Threads, Return(t) PROVE OwnEvents' /\ OneEventPerId'
    BY <1>15 DEF Return, Idle
<1>16. CASE Close
    BY <1>16 DEF Close
<1>17. CASE Crash
    BY <1>17 DEF Crash, Fault, InFlight, Idle
<1>18. ASSUME NEW event \in orphans, OrphanCommits(event) PROVE OwnEvents' /\ OneEventPerId'
    BY <1>18 DEF OrphanCommits, Refused, clientVars
<1>19. ASSUME NEW event \in orphans, OrphanDies(event) PROVE OwnEvents' /\ OneEventPerId'
    BY <1>19 DEF OrphanDies, clientVars
<1>20. CASE ConnectionBreaks
    BY <1>20 DEF ConnectionBreaks, Fault, Disturb, InFlight
<1>21. CASE DbDown
    BY <1>21 DEF DbDown, Fault, Disturb
<1>22. CASE DbUp
    BY <1>22 DEF DbUp, clientVars
<1>23. CASE UNCHANGED vars
    BY <1>23 DEF vars
<1> QED
    BY <1>1, <1>2, <1>3, <1>4, <1>5, <1>6, <1>7, <1>8, <1>9, <1>10, <1>11, <1>12, <1>13, <1>14, <1>15, <1>16, <1>17, <1>18, <1>19, <1>20, <1>21, <1>22, <1>23
       DEF Next, Attempt, Serve, Environment

\* Only what was asked for is stored.
LEMMA RowsStep ==
    ASSUME TypeOK, OwnEvents, RowsWereAsked, [Next]_vars
    PROVE  RowsWereAsked'
<1> USE SinkAssumption DEF TypeOK, Inside, OnConnection, Ops, dbVars, Events, OwnEvents, RowsWereAsked
<1>1. ASSUME NEW t \in Threads, EnterSetup(t) PROVE RowsWereAsked'
    BY <1>1 DEF EnterSetup, Enter, Idle
<1>2. ASSUME NEW t \in Threads, EnterPing(t) PROVE RowsWereAsked'
    BY <1>2 DEF EnterPing, Enter, Idle
<1>3. ASSUME NEW t \in Threads, NEW event \in Events, EnterRecord(t, event) PROVE RowsWereAsked'
    BY <1>3 DEF EnterRecord, Enter, Idle
<1>4. ASSUME NEW t \in Threads, Acquire(t) PROVE RowsWereAsked'
    BY <1>4 DEF Acquire
<1>5. ASSUME NEW t \in Threads, Reuse(t) PROVE RowsWereAsked'
    BY <1>5 DEF Reuse
<1>6. ASSUME NEW t \in Threads, Connect(t) PROVE RowsWereAsked'
    BY <1>6 DEF Connect
<1>7. ASSUME NEW t \in Threads, ConnectFails(t) PROVE RowsWereAsked'
    BY <1>7 DEF ConnectFails, OperationalError, Leave
<1>8. ASSUME NEW t \in Threads, ConnectionLost(t) PROVE RowsWereAsked'
    BY <1>8 DEF ConnectionLost, OperationalError, Leave
<1>9. ASSUME NEW t \in Threads, Succeed(t) PROVE RowsWereAsked'
    BY <1>9 DEF Succeed, Leave
<1>10. ASSUME NEW t \in Threads, Reject(t) PROVE RowsWereAsked'
    BY <1>10 DEF Reject, Leave
<1>11. ASSUME NEW t \in Threads, ServeSetup(t) PROVE RowsWereAsked'
    BY <1>11 DEF ServeSetup, Served, Answer
<1>12. ASSUME NEW t \in Threads, ServePing(t) PROVE RowsWereAsked'
    BY <1>12 DEF ServePing, Served, Answer
<1>13. ASSUME NEW t \in Threads, ServeInsert(t) PROVE RowsWereAsked'
    BY <1>13 DEF ServeInsert, Served, Answer, Refused
<1>14. ASSUME NEW t \in Threads, RefuseInsert(t) PROVE RowsWereAsked'
    BY <1>14 DEF RefuseInsert, Served, Answer, Refused
<1>15. ASSUME NEW t \in Threads, Return(t) PROVE RowsWereAsked'
    BY <1>15 DEF Return, Idle
<1>16. CASE Close
    BY <1>16 DEF Close
<1>17. CASE Crash
    BY <1>17 DEF Crash, Fault, InFlight, Idle
<1>18. ASSUME NEW event \in orphans, OrphanCommits(event) PROVE RowsWereAsked'
    BY <1>18 DEF OrphanCommits, Refused, clientVars
<1>19. ASSUME NEW event \in orphans, OrphanDies(event) PROVE RowsWereAsked'
    BY <1>19 DEF OrphanDies, clientVars
<1>20. CASE ConnectionBreaks
    BY <1>20 DEF ConnectionBreaks, Fault, Disturb, InFlight
<1>21. CASE DbDown
    BY <1>21 DEF DbDown, Fault, Disturb
<1>22. CASE DbUp
    BY <1>22 DEF DbUp, clientVars
<1>23. CASE UNCHANGED vars
    BY <1>23 DEF vars
<1> QED
    BY <1>1, <1>2, <1>3, <1>4, <1>5, <1>6, <1>7, <1>8, <1>9, <1>10, <1>11, <1>12, <1>13, <1>14, <1>15, <1>16, <1>17, <1>18, <1>19, <1>20, <1>21, <1>22, <1>23
       DEF Next, Attempt, Serve, Environment

\* Rows are never overwritten, so what was acknowledged stays stored.
LEMMA StoredStep ==
    ASSUME TypeOK, OwnEvents, Stored, [Next]_vars
    PROVE  Stored'
<1> USE SinkAssumption DEF TypeOK, Inside, OnConnection, Ops, dbVars, Events, OwnEvents, Stored
<1>1. ASSUME NEW t \in Threads, EnterSetup(t) PROVE Stored'
    BY <1>1 DEF EnterSetup, Enter, Idle
<1>2. ASSUME NEW t \in Threads, EnterPing(t) PROVE Stored'
    BY <1>2 DEF EnterPing, Enter, Idle
<1>3. ASSUME NEW t \in Threads, NEW event \in Events, EnterRecord(t, event) PROVE Stored'
    BY <1>3 DEF EnterRecord, Enter, Idle
<1>4. ASSUME NEW t \in Threads, Acquire(t) PROVE Stored'
    BY <1>4 DEF Acquire
<1>5. ASSUME NEW t \in Threads, Reuse(t) PROVE Stored'
    BY <1>5 DEF Reuse
<1>6. ASSUME NEW t \in Threads, Connect(t) PROVE Stored'
    BY <1>6 DEF Connect
<1>7. ASSUME NEW t \in Threads, ConnectFails(t) PROVE Stored'
    BY <1>7 DEF ConnectFails, OperationalError, Leave
<1>8. ASSUME NEW t \in Threads, ConnectionLost(t) PROVE Stored'
    BY <1>8 DEF ConnectionLost, OperationalError, Leave
<1>9. ASSUME NEW t \in Threads, Succeed(t) PROVE Stored'
    BY <1>9 DEF Succeed, Leave
<1>10. ASSUME NEW t \in Threads, Reject(t) PROVE Stored'
    BY <1>10 DEF Reject, Leave
<1>11. ASSUME NEW t \in Threads, ServeSetup(t) PROVE Stored'
    BY <1>11 DEF ServeSetup, Served, Answer
<1>12. ASSUME NEW t \in Threads, ServePing(t) PROVE Stored'
    BY <1>12 DEF ServePing, Served, Answer
<1>13. ASSUME NEW t \in Threads, ServeInsert(t) PROVE Stored'
    BY <1>13 DEF ServeInsert, Served, Answer, Refused
<1>14. ASSUME NEW t \in Threads, RefuseInsert(t) PROVE Stored'
    BY <1>14 DEF RefuseInsert, Served, Answer, Refused
<1>15. ASSUME NEW t \in Threads, Return(t) PROVE Stored'
    BY <1>15 DEF Return, Idle
<1>16. CASE Close
    BY <1>16 DEF Close
<1>17. CASE Crash
    BY <1>17 DEF Crash, Fault, InFlight, Idle
<1>18. ASSUME NEW event \in orphans, OrphanCommits(event) PROVE Stored'
    BY <1>18 DEF OrphanCommits, Refused, clientVars
<1>19. ASSUME NEW event \in orphans, OrphanDies(event) PROVE Stored'
    BY <1>19 DEF OrphanDies, clientVars
<1>20. CASE ConnectionBreaks
    BY <1>20 DEF ConnectionBreaks, Fault, Disturb, InFlight
<1>21. CASE DbDown
    BY <1>21 DEF DbDown, Fault, Disturb
<1>22. CASE DbUp
    BY <1>22 DEF DbUp, clientVars
<1>23. CASE UNCHANGED vars
    BY <1>23 DEF vars
<1> QED
    BY <1>1, <1>2, <1>3, <1>4, <1>5, <1>6, <1>7, <1>8, <1>9, <1>10, <1>11, <1>12, <1>13, <1>14, <1>15, <1>16, <1>17, <1>18, <1>19, <1>20, <1>21, <1>22, <1>23
       DEF Next, Attempt, Serve, Environment

\* A fault during a call disturbs it; without one, nobody else touches its connection or event.
LEMMA UndisturbedStep ==
    ASSUME TypeOK, LockHeld, OwnEvents, OneEventPerId, RowsWereAsked, Undisturbed, [Next]_vars
    PROVE  Undisturbed'
<1> USE SinkAssumption DEF TypeOK, Inside, OnConnection, Ops, dbVars, Events, LockHeld, OwnEvents, OneEventPerId, RowsWereAsked, Undisturbed
<1>1. ASSUME NEW t \in Threads, EnterSetup(t) PROVE Undisturbed'
    BY <1>1 DEF EnterSetup, Enter, Idle
<1>2. ASSUME NEW t \in Threads, EnterPing(t) PROVE Undisturbed'
    BY <1>2 DEF EnterPing, Enter, Idle
<1>3. ASSUME NEW t \in Threads, NEW event \in Events, EnterRecord(t, event) PROVE Undisturbed'
    <2>1. rows[event.id] = NoRow
        <3> SUFFICES ASSUME rows[event.id] # NoRow PROVE FALSE
            OBVIOUS
        <3>1. [id |-> event.id, content |-> rows[event.id]] \in asked
            OBVIOUS
        <3> QED
            BY <1>3, <3>1 DEF EnterRecord
    <2>2. \A e \in orphans : e.id # event.id
        BY <1>3 DEF EnterRecord
    <2> QED
        BY <1>3, <2>1, <2>2 DEF EnterRecord, Enter, Idle
<1>4. ASSUME NEW t \in Threads, Acquire(t) PROVE Undisturbed'
    BY <1>4 DEF Acquire
<1>5. ASSUME NEW t \in Threads, Reuse(t) PROVE Undisturbed'
    BY <1>5 DEF Reuse
<1>6. ASSUME NEW t \in Threads, Connect(t) PROVE Undisturbed'
    BY <1>6 DEF Connect
<1>7. ASSUME NEW t \in Threads, ConnectFails(t) PROVE Undisturbed'
    BY <1>7 DEF ConnectFails, OperationalError, Leave
<1>8. ASSUME NEW t \in Threads, ConnectionLost(t) PROVE Undisturbed'
    BY <1>8 DEF ConnectionLost, OperationalError, Leave
<1>9. ASSUME NEW t \in Threads, Succeed(t) PROVE Undisturbed'
    BY <1>9 DEF Succeed, Leave
<1>10. ASSUME NEW t \in Threads, Reject(t) PROVE Undisturbed'
    BY <1>10 DEF Reject, Leave
<1>11. ASSUME NEW t \in Threads, ServeSetup(t) PROVE Undisturbed'
    BY <1>11 DEF ServeSetup, Served, Answer
<1>12. ASSUME NEW t \in Threads, ServePing(t) PROVE Undisturbed'
    BY <1>12 DEF ServePing, Served, Answer
<1>13. ASSUME NEW t \in Threads, ServeInsert(t) PROVE Undisturbed'
    BY <1>13 DEF ServeInsert, Served, Answer, Refused
<1>14. ASSUME NEW t \in Threads, RefuseInsert(t) PROVE Undisturbed'
    BY <1>14 DEF RefuseInsert, Served, Answer, Refused
<1>15. ASSUME NEW t \in Threads, Return(t) PROVE Undisturbed'
    BY <1>15 DEF Return, Idle
<1>16. CASE Close
    BY <1>16 DEF Close
<1>17. CASE Crash
    BY <1>17 DEF Crash, Fault, InFlight, Idle
<1>18. ASSUME NEW event \in orphans, OrphanCommits(event) PROVE Undisturbed'
    BY <1>18 DEF OrphanCommits, Refused, clientVars
<1>19. ASSUME NEW event \in orphans, OrphanDies(event) PROVE Undisturbed'
    BY <1>19 DEF OrphanDies, clientVars
<1>20. CASE ConnectionBreaks
    BY <1>20 DEF ConnectionBreaks, Fault, Disturb, InFlight
<1>21. CASE DbDown
    BY <1>21 DEF DbDown, Fault, Disturb
<1>22. CASE DbUp
    BY <1>22 DEF DbUp, clientVars
<1>23. CASE UNCHANGED vars
    BY <1>23 DEF vars
<1> QED
    BY <1>1, <1>2, <1>3, <1>4, <1>5, <1>6, <1>7, <1>8, <1>9, <1>10, <1>11, <1>12, <1>13, <1>14, <1>15, <1>16, <1>17, <1>18, <1>19, <1>20, <1>21, <1>22, <1>23
       DEF Next, Attempt, Serve, Environment

\* An undisturbed call is rejected for cause, for its id is not in use yet.
LEMMA CauseStep ==
    ASSUME TypeOK, LockHeld, OwnEvents, Undisturbed, RejectedForCause, [Next]_vars
    PROVE  RejectedForCause'
<1> USE SinkAssumption DEF TypeOK, Inside, OnConnection, Ops, dbVars, Events, LockHeld, OwnEvents, Undisturbed, RejectedForCause
<1>1. ASSUME NEW t \in Threads, EnterSetup(t) PROVE RejectedForCause'
    BY <1>1 DEF EnterSetup, Enter, Idle
<1>2. ASSUME NEW t \in Threads, EnterPing(t) PROVE RejectedForCause'
    BY <1>2 DEF EnterPing, Enter, Idle
<1>3. ASSUME NEW t \in Threads, NEW event \in Events, EnterRecord(t, event) PROVE RejectedForCause'
    BY <1>3 DEF EnterRecord, Enter, Idle
<1>4. ASSUME NEW t \in Threads, Acquire(t) PROVE RejectedForCause'
    BY <1>4 DEF Acquire
<1>5. ASSUME NEW t \in Threads, Reuse(t) PROVE RejectedForCause'
    BY <1>5 DEF Reuse
<1>6. ASSUME NEW t \in Threads, Connect(t) PROVE RejectedForCause'
    BY <1>6 DEF Connect
<1>7. ASSUME NEW t \in Threads, ConnectFails(t) PROVE RejectedForCause'
    BY <1>7 DEF ConnectFails, OperationalError, Leave
<1>8. ASSUME NEW t \in Threads, ConnectionLost(t) PROVE RejectedForCause'
    BY <1>8 DEF ConnectionLost, OperationalError, Leave
<1>9. ASSUME NEW t \in Threads, Succeed(t) PROVE RejectedForCause'
    BY <1>9 DEF Succeed, Leave
<1>10. ASSUME NEW t \in Threads, Reject(t) PROVE RejectedForCause'
    BY <1>10 DEF Reject, Leave
<1>11. ASSUME NEW t \in Threads, ServeSetup(t) PROVE RejectedForCause'
    BY <1>11 DEF ServeSetup, Served, Answer
<1>12. ASSUME NEW t \in Threads, ServePing(t) PROVE RejectedForCause'
    BY <1>12 DEF ServePing, Served, Answer
<1>13. ASSUME NEW t \in Threads, ServeInsert(t) PROVE RejectedForCause'
    BY <1>13 DEF ServeInsert, Served, Answer, Refused
<1>14. ASSUME NEW t \in Threads, RefuseInsert(t) PROVE RejectedForCause'
    BY <1>14 DEF RefuseInsert, Served, Answer, Refused
<1>15. ASSUME NEW t \in Threads, Return(t) PROVE RejectedForCause'
    BY <1>15 DEF Return, Idle
<1>16. CASE Close
    BY <1>16 DEF Close
<1>17. CASE Crash
    BY <1>17 DEF Crash, Fault, InFlight, Idle
<1>18. ASSUME NEW event \in orphans, OrphanCommits(event) PROVE RejectedForCause'
    BY <1>18 DEF OrphanCommits, Refused, clientVars
<1>19. ASSUME NEW event \in orphans, OrphanDies(event) PROVE RejectedForCause'
    BY <1>19 DEF OrphanDies, clientVars
<1>20. CASE ConnectionBreaks
    BY <1>20 DEF ConnectionBreaks, Fault, Disturb, InFlight
<1>21. CASE DbDown
    BY <1>21 DEF DbDown, Fault, Disturb
<1>22. CASE DbUp
    BY <1>22 DEF DbUp, clientVars
<1>23. CASE UNCHANGED vars
    BY <1>23 DEF vars
<1> QED
    BY <1>1, <1>2, <1>3, <1>4, <1>5, <1>6, <1>7, <1>8, <1>9, <1>10, <1>11, <1>12, <1>13, <1>14, <1>15, <1>16, <1>17, <1>18, <1>19, <1>20, <1>21, <1>22, <1>23
       DEF Next, Attempt, Serve, Environment
-----------------------------------------------------------------------------
(* The invariant holds in every state.                                     *)

\* A new sink, with no connection, meets the invariant.
LEMMA InitInvariant == Init => Invariant
<1> SUFFICES ASSUME Init PROVE Invariant
    OBVIOUS
<1> USE SinkAssumption DEF Init, Idle
<1>1. TypeOK
    BY DEF TypeOK, Inside, Ops
<1>2. LockHeld
    BY DEF LockHeld, Inside
<1>3. OwnEvents /\ OneEventPerId /\ RowsWereAsked
    BY DEF OwnEvents, OneEventPerId, RowsWereAsked
<1>4. Stored /\ Undisturbed /\ RejectedForCause
    BY DEF Stored, Undisturbed, RejectedForCause, Inside
<1> QED
    BY <1>1, <1>2, <1>3, <1>4 DEF Invariant

\* Every step of the threads, the database and the faults keeps it.
LEMMA NextInvariant == Invariant /\ [Next]_vars => Invariant'
<1> SUFFICES ASSUME Invariant, [Next]_vars PROVE Invariant'
    OBVIOUS
<1> USE DEF Invariant
<1>1. TypeOK'
    BY TypeStep
<1>2. LockHeld'
    BY LockStep
<1>3. OwnEvents' /\ OneEventPerId'
    BY EventsStep
<1>4. RowsWereAsked'
    BY RowsStep
<1>5. Stored'
    BY StoredStep
<1>6. Undisturbed'
    BY UndisturbedStep
<1>7. RejectedForCause'
    BY CauseStep
<1> QED
    BY <1>1, <1>2, <1>3, <1>4, <1>5, <1>6, <1>7

\* The inductive invariant of the sink (PostgresAuditSink's lock, connection and two tries,
\* against a database that loses connections and goes on with orphans) always holds.
THEOREM InvariantHolds == Spec => []Invariant
<1>1. Init => Invariant
    BY InitInvariant
<1>2. Invariant /\ [Next]_vars => Invariant'
    BY NextInvariant
<1> QED
    BY <1>1, <1>2, PTL DEF Spec

\* The state always has its type: no call makes a third try.
THEOREM TypeCorrect == Spec => []TypeOK
<1>1. Invariant => TypeOK
    BY DEF Invariant
<1> QED
    BY <1>1, InvariantHolds, PTL

\* Threads never have two statements on the shared connection: the lock covers both tries.
THEOREM SharedConnection == Spec => []OneStatementAtATime
<1>1. Invariant => OneStatementAtATime
    BY DEF Invariant, LockHeld, OneStatementAtATime, OnConnection, Inside
<1> QED
    BY <1>1, InvariantHolds, PTL

\* When record() returns normally its event is stored, and stays stored.
THEOREM Durability == Spec => []AcknowledgedIsStored
<1>1. Invariant => AcknowledgedIsStored
    BY DEF Invariant, Stored, AcknowledgedIsStored
<1> QED
    BY <1>1, InvariantHolds, PTL

\* A call during which nothing goes wrong raises AuditError only at a refusal of the table:
\* the database is up, and the connection of its second try is a new one and sound.
LEMMA ErrorsHaveCause ==
    ASSUME Invariant, [Next]_vars, NEW t \in Threads \ disturbed,
           call[t].pc # "error", call'[t].pc = "error"
    PROVE  /\ call[t].op = "record"
           /\ ~table \/ call[t].event.content \in Unstorable
<1> USE DEF Invariant, TypeOK, Inside, OnConnection, dbVars
<1>1. ~ConnectFails(t) /\ ~ConnectionLost(t)
    BY DEF ConnectFails, ConnectionLost, OperationalError, Leave, Undisturbed
<1>2. CASE Reject(t)
    BY <1>2 DEF Reject, Undisturbed, RejectedForCause
<1>3. ASSUME NEW u \in Threads, u # t,
             ConnectFails(u) \/ ConnectionLost(u) \/ Reject(u) \/ Succeed(u) \/ Return(u)
      PROVE  FALSE
    BY <1>3 DEF ConnectFails, ConnectionLost, OperationalError, Reject, Succeed, Return, Leave
<1>4. ASSUME NEW u \in Threads, EnterSetup(u) \/ EnterPing(u) \/ \E e \in Events : EnterRecord(u, e)
      PROVE  FALSE
    BY <1>4 DEF EnterSetup, EnterPing, EnterRecord, Enter, Idle
<1>5. ASSUME NEW u \in Threads, Acquire(u) \/ Reuse(u) \/ Connect(u) PROVE FALSE
    BY <1>5 DEF Acquire, Reuse, Connect
<1>6. ASSUME NEW u \in Threads, Serve(u) PROVE FALSE
    BY <1>6 DEF Serve, ServeSetup, ServePing, ServeInsert, RefuseInsert, Served, Answer
<1>7. ~Succeed(t) /\ ~Return(t)
    BY DEF Succeed, Return, Leave, Idle
<1>8. CASE Close \/ Crash \/ Environment \/ UNCHANGED vars
    BY <1>8 DEF Close, Crash, Environment, OrphanCommits, OrphanDies, ConnectionBreaks, DbDown, DbUp,
                clientVars, vars, Idle
<1> QED
    BY <1>1, <1>2, <1>3, <1>4, <1>5, <1>6, <1>7, <1>8 DEF Next, Attempt

\* A break before a call, or at its first try on the old connection, costs the call nothing: if
\* nothing goes wrong while it holds the lock, only the table's refusal of its event fails it.
THEOREM StaleConnectionsAreHidden == Spec => EarlierFaultsAreHidden
<1>1. Invariant /\ [Next]_vars =>
        [\A t \in Threads \ disturbed :
            call[t].pc # "error" /\ call'[t].pc = "error" =>
                /\ call[t].op = "record"
                /\ ~table \/ call[t].event.content \in Unstorable]_vars
    BY ErrorsHaveCause
<1> QED
    BY <1>1, InvariantHolds, PTL DEF Spec, EarlierFaultsAreHidden
-----------------------------------------------------------------------------
(* The sink implements the protocol.                                       *)

caller == [t \in Threads |-> CallerOf(call[t])]

\* A step that leaves rows, asked and what every caller sees is a stutter of the log.
LEMMA Stutter ==
    ASSUME rows' = rows, asked' = asked, \A t \in Threads : CallerOf(call'[t]) = CallerOf(call[t])
    PROVE  UNCHANGED Log!vars
BY DEF Log!vars

\* A thread that leaves the lock with a result returns that result to its caller.
LEMMA ResultRefines ==
    ASSUME TypeOK, NEW t \in Threads, call[t].pc \in Inside, NEW result \in {"ok", "error"},
           call' = [call EXCEPT ![t].pc = result]
    PROVE  caller[t].state = "in" /\ caller' = [caller EXCEPT ![t].state = result]
<1> USE DEF TypeOK, Inside
<1>1. caller[t].state = "in"
    BY DEF caller, CallerOf
<1>2. CallerOf(call'[t]) = [CallerOf(call[t]) EXCEPT !.state = result]
    <2>1. call'[t].pc = result /\ call'[t].op = call[t].op /\ call'[t].event = call[t].event
        OBVIOUS
    <2>2. CASE call[t].op = "record"
        BY <2>1, <2>2 DEF CallerOf
    <2>3. CASE call[t].op # "record"
        BY <2>1, <2>3 DEF CallerOf
    <2> QED
        BY <2>2, <2>3
<1>3. \A u \in Threads : u # t => call'[u] = call[u]
    OBVIOUS
<1> QED
    BY <1>1, <1>2, <1>3 DEF caller

\* A call ends in an error, or in a second try that its caller does not see.
LEMMA ErrorRefines ==
    ASSUME TypeOK, NEW t \in Threads, call[t].pc \in Inside, OperationalError(t),
           rows' = rows, asked' = asked
    PROVE  [Log!Next]_Log!vars
<1> USE DEF TypeOK, CallerOf, Inside
<1>1. CASE call[t].attempt = 1
    BY <1>1, Stutter DEF OperationalError
<1>2. CASE call[t].attempt = 2
    <2>1. call' = [call EXCEPT ![t].pc = "error"]
        BY <1>2 DEF OperationalError, Leave
    <2>2. caller[t].state = "in" /\ caller' = [caller EXCEPT ![t].state = "error"]
        BY <2>1, ResultRefines
    <2>3. Log!ReturnError(t)
        BY <2>2 DEF caller, Log!ReturnError
    <2> QED
        BY <2>3 DEF Log!Next
<1> QED
    BY <1>1, <1>2

\* A new sink is, to its callers, an empty log.
LEMMA InitRefines == Init => Log!Init
BY DEF Init, Idle, CallerOf, Log!Init, Log!Out

\* Every step of the sink is, to its callers, a step of the log or none.
LEMMA NextRefines == Invariant /\ [Next]_vars => [Log!Next]_Log!vars
<1> SUFFICES ASSUME Invariant, [Next]_vars PROVE [Log!Next]_Log!vars
    OBVIOUS
<1> USE DEF Invariant, TypeOK, CallerOf, Inside, OnConnection, dbVars
<1>1. ASSUME NEW t \in Threads, EnterSetup(t) \/ EnterPing(t) PROVE Log!Next
    <2>1. PICK op \in {"setup", "ping"} : Enter(t, op, NoEvent) /\ UNCHANGED asked
        BY <1>1 DEF EnterSetup, EnterPing
    <2>2. Log!Enter(t, op)
        BY <2>1 DEF Enter, Idle, Log!Enter
    <2> QED
        BY <2>2 DEF Log!Next
<1>2. ASSUME NEW t \in Threads, NEW event \in Events, EnterRecord(t, event) PROVE Log!Next
    <2>1. Log!EnterRecord(t, event)
        BY <1>2 DEF EnterRecord, Enter, Idle, Log!EnterRecord
    <2> QED
        BY <2>1 DEF Log!Next, Log!Events, Events
<1>3. ASSUME NEW t \in Threads, Acquire(t) \/ Reuse(t) \/ Connect(t) PROVE UNCHANGED Log!vars
    <2>1. CASE Acquire(t)
        BY <2>1, Stutter DEF Acquire
    <2>2. CASE Reuse(t) \/ Connect(t)
        BY <2>2, Stutter DEF Reuse, Connect
    <2> QED
        BY <1>3, <2>1, <2>2
<1>4. ASSUME NEW t \in Threads, ConnectFails(t) \/ ConnectionLost(t)
      PROVE  [Log!Next]_Log!vars
    BY <1>4, ErrorRefines DEF ConnectFails, ConnectionLost
<1>5. ASSUME NEW t \in Threads, Succeed(t) PROVE Log!Next
    <2>1. Log!ReturnOk(t)
        BY <1>5, ResultRefines DEF Succeed, Leave, Stored, caller, Log!ReturnOk
    <2> QED
        BY <2>1 DEF Log!Next
<1>6. ASSUME NEW t \in Threads, Reject(t) PROVE Log!Next
    <2>1. Log!ReturnError(t)
        BY <1>6, ResultRefines DEF Reject, Leave, caller, Log!ReturnError
    <2> QED
        BY <2>1 DEF Log!Next
<1>7. ASSUME NEW t \in Threads, ServeSetup(t) \/ ServePing(t) \/ RefuseInsert(t)
      PROVE  UNCHANGED Log!vars
    BY <1>7, Stutter DEF ServeSetup, ServePing, RefuseInsert, Served, Answer
<1>8. ASSUME NEW t \in Threads, ServeInsert(t) PROVE Log!Next
    <2>1. call[t].event \in asked /\ call[t].event \in Events
        BY <1>8 DEF ServeInsert, Served, OwnEvents
    <2>2. UNCHANGED caller
        BY <1>8 DEF ServeInsert, Served, Answer, caller
    <2>3. Log!Store(call[t].event)
        BY <1>8, <2>1, <2>2 DEF ServeInsert, Served, Refused, caller, Log!Store
    <2> QED
        BY <2>1, <2>3 DEF Log!Next, Log!Events, Events
<1>9. ASSUME NEW t \in Threads, Return(t) PROVE Log!Next
    <2>1. Log!Leave(t)
        BY <1>9 DEF Return, Idle, Log!Leave, Log!Out
    <2> QED
        BY <2>1 DEF Log!Next
<1>10. CASE Crash
    <2>1. Log!Crash
        BY <1>10 DEF Crash, Idle, Log!Crash, Log!Out
    <2> QED
        BY <2>1 DEF Log!Next
<1>11. ASSUME NEW event \in orphans, OrphanCommits(event) PROVE Log!Next
    <2>1. event \in asked /\ event \in Events
        OBVIOUS
    <2>2. Log!Store(event)
        BY <1>11, <2>1 DEF OrphanCommits, Refused, clientVars, Log!Store
    <2> QED
        BY <2>1, <2>2 DEF Log!Next, Log!Events, Events
<1>12. ASSUME NEW event \in orphans, OrphanDies(event) PROVE UNCHANGED Log!vars
    BY <1>12, Stutter DEF OrphanDies, clientVars
<1>13. CASE Close \/ ConnectionBreaks \/ DbDown \/ DbUp \/ UNCHANGED vars
    BY <1>13, Stutter DEF Close, ConnectionBreaks, DbDown, DbUp, clientVars, vars
<1> QED
    BY <1>1, <1>2, <1>3, <1>4, <1>5, <1>6, <1>7, <1>8, <1>9, <1>10, <1>11, <1>12, <1>13
       DEF Next, Attempt, Serve, Environment

\* Every behaviour of the sink is one that the AuditSink protocol promises: an event is stored
\* at most once, unchanged and for good, only if asked for, and acknowledged only when stored.
THEOREM SinkImplementsLog == Spec => ImplementsAuditLog
<1>1. Init => Log!Init
    BY InitRefines
<1>2. Invariant /\ [Next]_vars => [Log!Next]_Log!vars
    BY NextRefines
<1> QED
    BY <1>1, <1>2, InvariantHolds, PTL DEF Spec, ImplementsAuditLog, Log!Spec
=============================================================================
