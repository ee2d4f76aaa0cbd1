------------------------------- MODULE Warden -------------------------------
(***************************************************************************)
(* The request lifecycle of one server: Warden.run() and Warden.check()    *)
(* (warden.py) on concurrent threads, over the shared audit sink.          *)
(*                                                                         *)
(* Each request runs the checks; an allowed query, unless a dry run, pings *)
(* the audit database, then runs; what came of it is recorded before it is *)
(* answered.  A request that cannot be recorded is answered with an        *)
(* AUDIT_UNAVAILABLE refusal.  An unexpected exception of the engine is    *)
(* recorded and raised again.  A request runs on a thread of its own and   *)
(* its audit event has an id of its own, so Requests stand for both.       *)
(***************************************************************************)
EXTENDS Naturals, Sequences

CONSTANTS
    Requests,   \* run_query and check_query calls, or CLI commands
    Checks,     \* the names of the pipeline's checks, in order
    NoThread, NoRow, NoEvent, MaxFaults

Passed == "none"
Codes == {Passed, "REFUSED", "INTERNAL_ERROR", "AUDIT_UNAVAILABLE"}

\* The columns of audit_events the model tells apart; "storable" is FALSE for a query text
\* that the table cannot hold.
AuditRows == [decision : {"allowed", "refused", "failed"}, dryRun : BOOLEAN,
              executedSql : BOOLEAN, code : Codes, rowsReturned : BOOLEAN, storable : BOOLEAN]
UnstorableRows == {row \in AuditRows : ~row.storable}

ASSUME WardenAssumption ==
    /\ Checks \in Seq(STRING)
    /\ NoThread \notin Requests
    /\ NoRow \notin AuditRows
    /\ NoEvent \notin [id : Requests, content : AuditRows]
    /\ MaxFaults \in Nat

VARIABLES
    server,    \* "up" once open_audit() has succeeded
    phase,     \* where each request is in run() or check()
    query,     \* what each request asks: dry run or not, storable text or not
    trace,     \* its Decision.trace
    outcome,   \* what the engine made of it
    ran,       \* history: the warehouse received its query
    answer,    \* what its caller got
    lock, conn, call, asked, table, rows, orphans, dbUp, faults, disturbed   \* AuditSink's

Sink == INSTANCE AuditSink WITH
    Threads <- Requests, Ids <- Requests, Contents <- AuditRows, Unstorable <- UnstorableRows

requestVars == <<phase, query, trace, outcome, ran, answer>>
wardenVars == <<server, requestVars>>
sinkVars == <<lock, conn, call, asked, disturbed, table, rows, orphans, dbUp, faults>>
vars == <<wardenVars, sinkVars>>

\* What a caller has: an outcome (or an exception, or nothing when the process died), with a
\* Decision's trace, sql and audit_id, and what its refusal claims about the query.
NoAnswer == [kind |-> "none", trace |-> <<>>, sql |-> FALSE, result |-> FALSE, error |-> FALSE,
             auditId |-> FALSE, claim |-> "none"]
Raised == [NoAnswer EXCEPT !.kind = "raised"]
Lost   == [NoAnswer EXCEPT !.kind = "lost"]

\* A server that has just started: open_audit() has set up the table and left a connection.
Init ==
    /\ server = "up"
    /\ phase = [r \in Requests |-> "new"]
    /\ query \in [Requests -> [dryRun : BOOLEAN, storable : BOOLEAN]]
    /\ trace = [r \in Requests |-> <<>>]
    /\ outcome = [r \in Requests |-> "none"]
    /\ ran = [r \in Requests |-> FALSE]
    /\ answer = [r \in Requests |-> NoAnswer]
    /\ lock = NoThread /\ conn = "open" /\ call = [r \in Requests |-> Sink!Idle]
    /\ table = TRUE /\ rows = [r \in Requests |-> NoRow] /\ orphans = {}
    /\ dbUp = TRUE /\ faults = 0 /\ asked = {} /\ disturbed = {}
-----------------------------------------------------------------------------
(* Decisions.                                                              *)

\* Mutant of RefusedBy: the first refusal.
RefusedByFirst(steps) ==
    LET refusals == {i \in DOMAIN steps : steps[i].code # Passed}
    IN  IF refusals = {} THEN Passed
        ELSE steps[CHOOSE i \in refusals : \A j \in refusals : i <= j].code

\* Decision.refused_by: the last entry that refuses, by its code.
RefusedBy(steps) ==
    LET refusals == {i \in DOMAIN steps : steps[i].code # Passed}
    IN  IF refusals = {} THEN Passed
        ELSE steps[CHOOSE i \in refusals : \A j \in refusals : j <= i].code

Allowed(steps) == RefusedBy(steps) = Passed

\* Pipeline.run: the checks in order up to the first that refuses, or raises and so refuses.
AllPassed(n) == [i \in 1..n |-> [check |-> Checks[i], code |-> Passed]]
PipelineTraces ==
    {AllPassed(Len(Checks))} \cup
    {Append(AllPassed(k - 1), [check |-> Checks[k], code |-> code]) :
        k \in 1..Len(Checks), code \in {"REFUSED", "INTERNAL_ERROR"}}

\* _withheld: the decision refused by the audit log, after what the checks said.
Withheld(steps) == Append(steps, [check |-> "audit", code |-> "AUDIT_UNAVAILABLE"])

\* Mutant of Event: a query that failed is recorded as allowed.
EventIgnoresError(r, steps, out) ==
    [id |-> r, content |->
        [decision |-> IF Allowed(steps) THEN "allowed" ELSE "refused",
         dryRun |-> query[r].dryRun,
         executedSql |-> Allowed(steps),
         code |-> RefusedBy(steps),
         rowsReturned |-> out = "rows",
         storable |-> query[r].storable]]

\* _event: the record of a request, from its decision and its outcome.
Event(r, steps, out) ==
    [id |-> r, content |->
        [decision |-> IF ~Allowed(steps) THEN "refused"
                      ELSE IF out \in {"error", "crash"} THEN "failed" ELSE "allowed",
         dryRun |-> query[r].dryRun,
         executedSql |-> Allowed(steps),
         code |-> RefusedBy(steps),
         rowsReturned |-> out = "rows",
         storable |-> query[r].storable]]
-----------------------------------------------------------------------------
(* Warden.run and Warden.check, step by step.                              *)

\* _recorded hands the event to the sink.
Record(r, steps, out) ==
    /\ Sink!EnterRecord(r, Event(r, steps, out))
    /\ phase' = [phase EXCEPT ![r] = "recording"]

Answer(r, a) ==
    /\ phase' = [phase EXCEPT ![r] = "answered"]
    /\ answer' = [answer EXCEPT ![r] = a]

\* Mutant of DecideToRecord: the record is written before the query is run, and instead of it.
DecideToRecordAnyway(r) ==
    /\ server = "up" /\ phase[r] = "new"
    /\ \E steps \in PipelineTraces :
        /\ trace' = [trace EXCEPT ![r] = steps]
        /\ Record(r, steps, "none")
    /\ UNCHANGED <<server, query, outcome, ran, answer>>

\* _decide, then straight to the record if nothing is to run.
DecideToRecord(r) ==
    /\ server = "up" /\ phase[r] = "new"
    /\ \E steps \in PipelineTraces :
        /\ ~Allowed(steps) \/ query[r].dryRun
        /\ trace' = [trace EXCEPT ![r] = steps]
        /\ Record(r, steps, "none")
    /\ UNCHANGED <<server, query, outcome, ran, answer>>

\* _decide, then the ping that must succeed before the query may run.
DecideToPing(r) ==
    /\ server = "up" /\ phase[r] = "new"
    /\ ~query[r].dryRun
    /\ \E steps \in PipelineTraces :
        /\ Allowed(steps)
        /\ trace' = [trace EXCEPT ![r] = steps]
    /\ Sink!EnterPing(r)
    /\ phase' = [phase EXCEPT ![r] = "pinging"]
    /\ UNCHANGED <<server, query, outcome, ran, answer>>

\* The approved tree cannot be written back as SQL: _decide raises, outside every handler.
RegenerateFails(r) ==
    /\ server = "up" /\ phase[r] = "new"
    /\ Answer(r, Raised)
    /\ UNCHANGED <<server, query, trace, outcome, ran>> /\ UNCHANGED sinkVars

PingOk(r) ==
    /\ phase[r] = "pinging" /\ call[r].pc = "ok"
    /\ Sink!Return(r)
    /\ phase' = [phase EXCEPT ![r] = "executing"]
    /\ UNCHANGED <<server, query, trace, outcome, ran, answer>>

PingFails(r) ==
    /\ phase[r] = "pinging" /\ call[r].pc = "error"
    /\ Sink!Return(r)
    /\ Answer(r, [NoAnswer EXCEPT !.kind = "outcome", !.trace = Withheld(trace[r]),
                                  !.claim = "not run"])
    /\ UNCHANGED <<server, query, trace, outcome, ran>>

\* engine.execute: the warehouse receives the query, if it can be reached at all ...
Reach(r) ==
    /\ phase[r] = "executing" /\ ~ran[r]
    /\ ran' = [ran EXCEPT ![r] = TRUE]
    /\ UNCHANGED <<server, phase, query, trace, outcome, answer>> /\ UNCHANGED sinkVars

\* Mutant of ExecuteEnds: an exception nobody expects is raised at once.
ExecuteEndsUnrecorded(r) ==
    /\ phase[r] = "executing"
    /\ \E out \in {"rows", "error", "crash"} :
        /\ out = "rows" => ran[r]
        /\ outcome' = [outcome EXCEPT ![r] = out]
        /\ IF out = "crash" THEN Answer(r, Raised) /\ UNCHANGED sinkVars
           ELSE Record(r, trace[r], out) /\ UNCHANGED answer
    /\ UNCHANGED <<server, query, trace, ran>>

\* ... and it ends with rows, an EngineError, or an exception nobody expects.
ExecuteEnds(r) ==
    /\ phase[r] = "executing"
    /\ \E out \in {"rows", "error", "crash"} :
        /\ out = "rows" => ran[r]
        /\ outcome' = [outcome EXCEPT ![r] = out]
        /\ Record(r, trace[r], out)
    /\ UNCHANGED <<server, query, trace, ran, answer>>

\* _recorded returns the outcome with its audit_id, unless run() is re-raising a crash.
Recorded(r) ==
    /\ phase[r] = "recording" /\ call[r].pc = "ok"
    /\ Sink!Return(r)
    /\ Answer(r, IF outcome[r] = "crash" THEN Raised
                 ELSE [kind |-> "outcome", trace |-> trace[r], sql |-> Allowed(trace[r]),
                       result |-> outcome[r] = "rows",
                       error |-> outcome[r] = "error", auditId |-> TRUE, claim |-> "none"])
    /\ UNCHANGED <<server, query, trace, outcome, ran>>

\* Mutants of NotRecorded: the refusal is appended to the request's own trace, the results are
\* returned all the same, or it always says that nothing ran.
NotRecordedInPlace(r) ==
    /\ phase[r] = "recording" /\ call[r].pc = "error"
    /\ Sink!Return(r)
    /\ trace' = [trace EXCEPT ![r] = Withheld(trace[r])]
    /\ Answer(r, [NoAnswer EXCEPT !.kind = "outcome", !.trace = Withheld(trace[r])])
    /\ UNCHANGED <<server, query, outcome, ran>>

NotRecordedFailsOpen(r) ==
    /\ phase[r] = "recording" /\ call[r].pc = "error"
    /\ Sink!Return(r)
    /\ Answer(r, [NoAnswer EXCEPT !.kind = "outcome", !.trace = trace[r],
                                  !.result = outcome[r] = "rows"])
    /\ UNCHANGED <<server, query, trace, outcome, ran>>

NotRecordedSaysNothingRan(r) ==
    /\ phase[r] = "recording" /\ call[r].pc = "error"
    /\ Sink!Return(r)
    /\ Answer(r, [NoAnswer EXCEPT !.kind = "outcome", !.trace = Withheld(trace[r]),
                                  !.claim = "nothing returned"])
    /\ UNCHANGED <<server, query, trace, outcome, ran>>

\* _recorded returns a refusal instead, and says whether the query ran by its outcome.
NotRecorded(r) ==
    /\ phase[r] = "recording" /\ call[r].pc = "error"
    /\ Sink!Return(r)
    /\ Answer(r, IF outcome[r] = "crash" THEN Raised
                 ELSE [NoAnswer EXCEPT
                        !.kind = "outcome", !.trace = Withheld(trace[r]),
                        !.claim = IF outcome[r] = "none" THEN "nothing returned" ELSE "ran"])
    /\ UNCHANGED <<server, query, trace, outcome, ran>>
-----------------------------------------------------------------------------
(* What callers are shown: an exit status, or the result of a tool.        *)

EXIT_ERROR == 1
EXIT_REFUSED == 2

\* `sql-warden query` and `check`.
ExitCode(a, dryRun) ==
    LET failed  == a.kind = "raised" \/ (~dryRun /\ a.error)
        refused == IF dryRun THEN ~Allowed(a.trace) ELSE ~a.result
    IN  CASE failed             -> EXIT_ERROR
          [] ~failed /\ refused  -> EXIT_REFUSED
          [] ~failed /\ ~refused -> 0

\* describe(): what the response says, of the fields that depend on each other.
Response(a) ==
    [refused |-> ~Allowed(a.trace), code |-> RefusedBy(a.trace), sql |-> a.sql,
     result |-> a.result, error |-> a.error, auditId |-> a.auditId]

\* Mutant of IsError: a tool's result is an error when its response is a refusal.
IsErrorIfRefused(a, dryRun) == a.kind = "raised" \/ ~Allowed(a.trace)

\* run_query and check_query: whether the tool's result is an error (the SDK makes one of an
\* exception).
IsError(a, dryRun) == a.kind = "raised" \/ IF dryRun THEN ~a.auditId ELSE ~a.result
-----------------------------------------------------------------------------
(* The server's process, and the world around it.                          *)

InProgress(r) == phase[r] \notin {"new", "answered"}

\* The process is killed: callers in progress get nothing, the warehouse may have their query.
Kill ==
    /\ server = "up"
    /\ Sink!Crash
    /\ server' = "down"
    /\ phase' = [r \in Requests |-> IF InProgress(r) THEN "answered" ELSE phase[r]]
    /\ answer' = [r \in Requests |-> IF InProgress(r) THEN Lost ELSE answer[r]]
    /\ UNCHANGED <<query, trace, outcome, ran>>

\* open_audit: a server starts only once its audit database has answered; the connection stays.
Start ==
    /\ server = "down" /\ dbUp
    /\ server' = "up"
    /\ conn' = "open"
    /\ UNCHANGED <<lock, call, asked, disturbed, table, rows, orphans, dbUp, faults>>
    /\ UNCHANGED requestVars

Attempt(r) == Sink!Attempt(r) /\ UNCHANGED wardenVars
Serve(r) == Sink!Serve(r) /\ UNCHANGED wardenVars
Environment == Sink!Environment /\ UNCHANGED wardenVars

\* Every request has been answered: nothing more to do in this model.
Finished ==
    /\ \A r \in Requests : phase[r] = "answered"
    /\ UNCHANGED vars

Handle(r) ==
    \/ DecideToRecord(r) \/ DecideToPing(r) \/ RegenerateFails(r)
    \/ PingOk(r) \/ PingFails(r)
    \/ Reach(r) \/ ExecuteEnds(r)
    \/ Recorded(r) \/ NotRecorded(r)

Next ==
    \/ \E r \in Requests : Handle(r) \/ Attempt(r) \/ Serve(r)
    \/ Kill \/ Start
    \/ Environment
    \/ Finished

Spec == Init /\ [][Next]_vars

\* Threads run, execute() ends (statement_timeout and connect_timeout see to it), and a
\* statement sent to the audit database is answered or its connection breaks.  Nothing obliges
\* faults to happen or to be repaired.
Fairness ==
    \A r \in Requests :
        /\ WF_vars(\/ DecideToRecord(r) \/ DecideToPing(r) \/ PingOk(r) \/ PingFails(r)
                   \/ ExecuteEnds(r) \/ Recorded(r) \/ NotRecorded(r) \/ Attempt(r))
        /\ WF_vars(Serve(r))

FairSpec == Spec /\ Fairness
-----------------------------------------------------------------------------
(* Properties.                                                             *)

\* The type of the request state.
TypeOK ==
    /\ Sink!TypeOK
    /\ server \in {"up", "down"}
    /\ phase \in [Requests -> {"new", "pinging", "executing", "recording", "answered"}]
    /\ query \in [Requests -> [dryRun : BOOLEAN, storable : BOOLEAN]]
    /\ \A r \in Requests : trace[r] \in PipelineTraces \cup {<<>>}
    /\ outcome \in [Requests -> {"none", "rows", "error", "crash"}]
    /\ ran \in [Requests -> BOOLEAN]
    /\ \A r \in Requests :
        /\ answer[r].kind \in {"none", "outcome", "raised", "lost"}
        /\ answer[r].claim \in {"none", "not run", "ran", "nothing returned"}
        /\ answer[r].result \in BOOLEAN /\ answer[r].error \in BOOLEAN
        /\ answer[r].auditId \in BOOLEAN /\ answer[r].sql \in BOOLEAN

\* "Every request, allowed or not, is recorded in the audit log before anything is returned":
\* an answer with rows, a database error or an audit_id has a row in the audit database that
\* says the same as the answer does, whatever broke, retried or restarted on the way.
ReturnedIsRecorded ==
    \A r \in Requests : LET a == answer[r] IN
        /\ a.result \/ a.error => a.auditId
        /\ a.auditId =>
            /\ rows[r] # NoRow
            /\ rows[r].code = RefusedBy(a.trace)
            /\ rows[r].rowsReturned = a.result
            /\ (rows[r].decision = "failed") = a.error
            /\ rows[r].dryRun = query[r].dryRun

\* A row of the audit log is true of the warehouse, even one whose caller was told that it
\* could not be written or was never answered: "allowed" means that the query ran to its rows
\* (or was a dry run), "failed" that it was approved and did not, "refused" and dry runs that
\* the warehouse never saw it.
RecordsAreTrue ==
    \A r \in Requests : rows[r] # NoRow =>
        /\ rows[r].decision = "allowed" => rows[r].dryRun # (ran[r] /\ outcome[r] = "rows")
        /\ rows[r].decision = "failed" => outcome[r] \in {"error", "crash"}
        /\ rows[r].decision = "refused" \/ rows[r].dryRun => ~ran[r]

\* "the query was not run": a request answered so never reaches the warehouse, and leaves no
\* record, then or later; nor did one answered "nothing is returned without an audit record".
NotRunIsNotRun ==
    \A r \in Requests :
        /\ answer[r].claim \in {"not run", "nothing returned"} => ~ran[r]
        /\ answer[r].claim = "not run" => rows[r] = NoRow /\ \A e \in orphans : e.id # r

\* "Missing only when it could not be written, and then the response is an AUDIT_UNAVAILABLE
\* refusal": an answer without an audit_id says so, even for a query a check had refused, and
\* carries nothing of what the engine returned.
UnrecordedIsWithheld ==
    \A r \in Requests : LET a == answer[r] IN
        a.kind = "outcome" /\ ~a.auditId =>
            RefusedBy(a.trace) = "AUDIT_UNAVAILABLE" /\ ~a.result /\ ~a.error

\* "A bug, not a database error: still leave a record of the attempt, then let it surface": a
\* request that ends in an exception never reached the warehouse, as when its approved query
\* cannot be written back as SQL, or was handed to the audit log as one that failed.
ExceptionsLeaveARecord ==
    \A r \in Requests :
        answer[r].kind = "raised" /\ ran[r] =>
            \E event \in asked : event.id = r /\ event.content.decision = "failed"

\* One of the checks refused, or crashed and so refused.
RefusedByCheck(steps) == \E i \in DOMAIN steps : steps[i].code \in {"REFUSED", "INTERNAL_ERROR"}

\* "Exits 0 if it ran, 2 if a check refused it, 1 if the database failed", and "The result is an
\* error when the query was refused or the database failed to run it": a script and an agent
\* that ask the same are told the same, whatever went wrong.  A response is a refusal or has
\* what came of the query, and a refusal shows no SQL; the audit log's is an error of a dry run.
\* Which failure the exit status is for when only the audit log refuses is left open here.
InterfacesAgree ==
    \A r \in Requests :
        LET response == Response(answer[r])
            exit == ExitCode(answer[r], query[r].dryRun)
            isError == IsError(answer[r], query[r].dryRun)
        IN  /\ answer[r].kind = "raised" => exit = EXIT_ERROR /\ isError
            /\ answer[r].kind = "outcome" =>
                /\ response.sql = ~response.refused
                /\ RefusedByCheck(answer[r].trace) => exit = EXIT_REFUSED
                /\ response.error => exit = EXIT_ERROR
                /\ (exit = 0) = ~(response.refused \/ response.error)
                /\ IF query[r].dryRun
                   THEN isError = (response.code = "AUDIT_UNAVAILABLE")
                   ELSE isError = (exit # 0) /\ response.refused = ~(response.result \/ response.error)

\* What a row says of the query having run.
Says(row) ==
    CASE row = NoRow                                         -> "none"
      [] row # NoRow /\ (row.dryRun \/ row.decision = "refused") -> "not run"
      [] OTHER -> IF row.decision = "allowed" THEN "ran" ELSE "failed"

\* What a caller has got: an unrecorded refusal gives nothing away.
Given(r) ==
    IF answer[r].auditId \/ answer[r].result \/ answer[r].error THEN "answer"
    ELSE IF phase[r] = "answered" THEN "nothing" ELSE "no answer"

Promise == INSTANCE Gate WITH
    record <- [r \in Requests |-> Says(rows[r])],
    given <- [r \in Requests |-> Given(r)]

\* "every query goes through the checks before the engine, and every request ... is recorded in
\* the audit log before anything is returned.  Fail-closed": with every retry, late INSERT,
\* fault and restart, each step of the server is one that Gate allows.
ImplementsGate == Promise!Spec

\* Every request is answered, one way or another, unless the process is killed first: no
\* thread waits for ever on the lock, on a retry or on the database.
EveryRequestIsAnswered ==
    server = "up" ~> server = "down" \/ \A r \in Requests : phase[r] = "answered"
-----------------------------------------------------------------------------
(* What the documentation says that the code does not do.                  *)

\* models.py on Decision.audit_id: "None only when it could not be written".  It is also None
\* when the INSERT committed and its acknowledgement was lost: the retry is a duplicate.
AuditIdMissingOnlyIfUnwritten ==
    \A r \in Requests :
        answer[r].kind = "outcome" /\ ~answer[r].auditId => rows[r] = NoRow

\* cli.py on EXIT_REFUSED: "A check refused the query. Nothing else exits 2, so scripts can tell
\* a refusal apart."  An allowed query that could not be recorded exits 2 as well.
NothingElseExitsTwo ==
    \A r \in Requests :
        answer[r].kind = "outcome" /\ ExitCode(answer[r], query[r].dryRun) = EXIT_REFUSED =>
            RefusedByCheck(answer[r].trace)
=============================================================================
