---------------------------- MODULE WardenProofs ----------------------------
(***************************************************************************)
(* What Warden guarantees for any number of requests, any list of checks   *)
(* and any faults.                                                         *)
(***************************************************************************)
EXTENDS Warden, SequenceTheorems, TLAPS

\* The sink with its inductive invariant, and what AuditSinkProofs proves of it.
SinkProofs == INSTANCE AuditSinkProofs WITH
    Threads <- Requests, Ids <- Requests, Contents <- AuditRows, Unstorable <- UnstorableRows
-----------------------------------------------------------------------------
(* Decisions.                                                              *)

Steps == [check : STRING \cup {"audit"}, code : Codes]

\* The last refusal of a trace is its verdict, whatever comes before it.
LEMMA LastRefusal ==
    ASSUME NEW steps \in Seq(Steps), NEW i \in DOMAIN steps, steps[i].code # Passed,
           \A j \in DOMAIN steps : steps[j].code # Passed => j <= i
    PROVE  RefusedBy(steps) = steps[i].code
<1> DEFINE refusals == {j \in DOMAIN steps : steps[j].code # Passed}
           last == CHOOSE j \in refusals : \A k \in refusals : k <= j
<1>1. i \in refusals /\ \A j \in refusals : j <= i
    OBVIOUS
<1>2. last \in refusals /\ \A j \in refusals : j <= last
    BY <1>1
<1>3. DOMAIN steps \subseteq Nat
    BY LenProperties
<1>4. last = i
    BY <1>1, <1>2, <1>3
<1> QED
    BY <1>1, <1>4 DEF RefusedBy

\* A trace without a refusal is allowed.
LEMMA NoRefusal ==
    ASSUME NEW steps, \A i \in DOMAIN steps : steps[i].code = Passed
    PROVE  RefusedBy(steps) = Passed
BY DEF RefusedBy

\* The checks that a request has passed are entries that pass.
LEMMA AllPassedType ==
    ASSUME NEW n \in 0..Len(Checks)
    PROVE  /\ AllPassed(n) \in Seq(Steps)
           /\ Len(AllPassed(n)) = n /\ DOMAIN AllPassed(n) = 1..n
           /\ \A i \in 1..n : AllPassed(n)[i].code = Passed
<1>1. \A i \in 1..n : [check |-> Checks[i], code |-> Passed] \in Steps
    BY WardenAssumption, ElementOfSeq DEF Steps, Codes
<1> QED
    BY <1>1, WardenAssumption DEF AllPassed

\* A trace with one more entry, a refusal, is refused by that one.
LEMMA AppendRefuses ==
    ASSUME NEW steps \in Seq(Steps), NEW step \in Steps, step.code # Passed
    PROVE  Append(steps, step) \in Seq(Steps) /\ RefusedBy(Append(steps, step)) = step.code
<1> DEFINE longer == Append(steps, step)
<1>1. longer \in Seq(Steps) /\ Len(longer) = Len(steps) + 1 /\ longer[Len(steps) + 1] = step
    BY AppendProperties
<1>2. DOMAIN longer = 1..(Len(steps) + 1) /\ Len(steps) \in Nat
    BY <1>1, LenProperties
<1> HIDE DEF longer
<1>3. RefusedBy(longer) = longer[Len(steps) + 1].code
    BY <1>1, <1>2, LastRefusal
<1> QED
    BY <1>1, <1>3 DEF longer

\* Pipeline.run leaves a trace that is allowed, or refused by a check or its failure.
LEMMA PipelineVerdict ==
    ASSUME NEW steps \in PipelineTraces
    PROVE  steps \in Seq(Steps) /\ RefusedBy(steps) \in {Passed, "REFUSED", "INTERNAL_ERROR"}
<1>0. Len(Checks) \in Nat
    BY WardenAssumption, LenProperties
<1>1. CASE steps = AllPassed(Len(Checks))
    BY <1>0, <1>1, AllPassedType, NoRefusal
<1>2. ASSUME NEW k \in 1..Len(Checks), NEW code \in {"REFUSED", "INTERNAL_ERROR"},
             steps = Append(AllPassed(k - 1), [check |-> Checks[k], code |-> code])
      PROVE  steps \in Seq(Steps) /\ RefusedBy(steps) = code
    <2>1. k - 1 \in 0..Len(Checks)
        BY <1>0
    <2>2. AllPassed(k - 1) \in Seq(Steps)
        BY <2>1, AllPassedType
    <2>3. [check |-> Checks[k], code |-> code] \in Steps /\ code # Passed
        BY WardenAssumption, ElementOfSeq DEF Steps, Codes, Passed
    <2> QED
        BY <1>2, <2>2, <2>3, AppendRefuses
<1>3. steps = AllPassed(Len(Checks)) \/
      \E k \in 1..Len(Checks), code \in {"REFUSED", "INTERNAL_ERROR"} :
        steps = Append(AllPassed(k - 1), [check |-> Checks[k], code |-> code])
    BY DEF PipelineTraces
<1> QED
    BY <1>1, <1>2, <1>3

\* A trace is refused by a check exactly when the pipeline does not allow it.
LEMMA CheckVerdict ==
    ASSUME NEW steps \in PipelineTraces
    PROVE  RefusedByCheck(steps) <=> ~Allowed(steps)
<1>0. Len(Checks) \in Nat
    BY WardenAssumption, LenProperties
<1>1. ASSUME steps = AllPassed(Len(Checks)) PROVE ~RefusedByCheck(steps) /\ Allowed(steps)
    BY <1>0, <1>1, AllPassedType, NoRefusal DEF RefusedByCheck, Allowed, Passed
<1>2. ASSUME NEW k \in 1..Len(Checks), NEW code \in {"REFUSED", "INTERNAL_ERROR"},
             steps = Append(AllPassed(k - 1), [check |-> Checks[k], code |-> code])
      PROVE  RefusedByCheck(steps) /\ ~Allowed(steps)
    <2>1. k - 1 \in 0..Len(Checks)
        BY <1>0
    <2>2. AllPassed(k - 1) \in Seq(Steps) /\ Len(AllPassed(k - 1)) = k - 1
        BY <2>1, AllPassedType
    <2>3. [check |-> Checks[k], code |-> code] \in Steps /\ code # Passed
        BY WardenAssumption, ElementOfSeq DEF Steps, Codes, Passed
    <2>4. ~Allowed(steps)
        BY <1>2, <2>2, <2>3, AppendRefuses DEF Allowed
    <2>5. k \in DOMAIN steps /\ steps[k].code = code
        BY <1>2, <2>2, <2>3, AppendProperties
    <2> QED
        BY <2>4, <2>5 DEF RefusedByCheck
<1>3. steps = AllPassed(Len(Checks)) \/
      \E k \in 1..Len(Checks), code \in {"REFUSED", "INTERNAL_ERROR"} :
        steps = Append(AllPassed(k - 1), [check |-> Checks[k], code |-> code])
    BY DEF PipelineTraces
<1> QED
    BY <1>1, <1>2, <1>3

\* What the audit log withholds, it refuses as AUDIT_UNAVAILABLE, whatever the checks said.
LEMMA WithheldVerdict ==
    ASSUME NEW steps \in PipelineTraces
    PROVE  RefusedBy(Withheld(steps)) = "AUDIT_UNAVAILABLE"
<1>1. [check |-> "audit", code |-> "AUDIT_UNAVAILABLE"] \in Steps
    BY DEF Steps, Codes, Passed
<1> QED
    BY <1>1, PipelineVerdict, AppendRefuses DEF Withheld, Passed
-----------------------------------------------------------------------------
(* The sink under the server.                                              *)

\* An event of a decision is one that the sink can be asked to record.
LEMMA EventType ==
    ASSUME query \in [Requests -> [dryRun : BOOLEAN, storable : BOOLEAN]],
           NEW r \in Requests, NEW steps \in PipelineTraces, NEW out
    PROVE  Event(r, steps, out) \in Sink!Events
<1> DEFINE content == Event(r, steps, out).content
<1>1. RefusedBy(steps) \in Codes
    BY PipelineVerdict DEF Codes
<1>2. (out = "rows") \in BOOLEAN /\ Allowed(steps) \in BOOLEAN
    BY DEF Allowed
<1>3. content \in AuditRows
    BY <1>1, <1>2 DEF Event, AuditRows
<1> QED
    BY <1>3 DEF Event, Sink!Events

\* The steps of the sink are the same under either name.
LEMMA SameSteps == Sink!Next <=> SinkProofs!Next
BY Zenon DEF Sink!Next, Sink!Attempt, Sink!Serve, Sink!Environment, Sink!EnterSetup,
    Sink!EnterPing, Sink!EnterRecord, Sink!Enter, Sink!Idle, Sink!Acquire, Sink!Leave,
    Sink!OperationalError, Sink!Reuse, Sink!Connect, Sink!ConnectFails, Sink!ConnectionLost,
    Sink!Succeed, Sink!Reject, Sink!Return, Sink!Close, Sink!Refused, Sink!Served, Sink!Answer,
    Sink!ServeSetup, Sink!ServePing, Sink!ServeInsert, Sink!RefuseInsert, Sink!OrphanCommits,
    Sink!OrphanDies, Sink!Fault, Sink!Disturb, Sink!InFlight, Sink!ConnectionBreaks, Sink!Crash,
    Sink!DbDown, Sink!DbUp, Sink!Events, Sink!OnConnection, Sink!clientVars, Sink!dbVars,
    SinkProofs!Next, SinkProofs!Attempt, SinkProofs!Serve, SinkProofs!Environment,
    SinkProofs!EnterSetup, SinkProofs!EnterPing, SinkProofs!EnterRecord, SinkProofs!Enter,
    SinkProofs!Idle, SinkProofs!Acquire, SinkProofs!Leave, SinkProofs!OperationalError,
    SinkProofs!Reuse, SinkProofs!Connect, SinkProofs!ConnectFails, SinkProofs!ConnectionLost,
    SinkProofs!Succeed, SinkProofs!Reject, SinkProofs!Return, SinkProofs!Close,
    SinkProofs!Refused, SinkProofs!Served, SinkProofs!Answer, SinkProofs!ServeSetup,
    SinkProofs!ServePing, SinkProofs!ServeInsert, SinkProofs!RefuseInsert,
    SinkProofs!OrphanCommits, SinkProofs!OrphanDies, SinkProofs!Fault, SinkProofs!Disturb,
    SinkProofs!InFlight, SinkProofs!ConnectionBreaks, SinkProofs!Crash, SinkProofs!DbDown,
    SinkProofs!DbUp, SinkProofs!Events, SinkProofs!OnConnection, SinkProofs!clientVars,
    SinkProofs!dbVars

\* The steps of the sink keep its invariant when Warden takes them, too.
LEMMA SinkInvariantStep == SinkProofs!Invariant /\ [Sink!Next]_sinkVars => SinkProofs!Invariant'
<1>1. NoThread \notin Requests /\ UnstorableRows \subseteq AuditRows
    BY WardenAssumption DEF UnstorableRows
<1>2. SinkProofs!Invariant /\ [SinkProofs!Next]_SinkProofs!vars => SinkProofs!Invariant'
    BY <1>1, WardenAssumption, SinkProofs!NextInvariant
<1> QED
    BY <1>2, SameSteps DEF sinkVars, SinkProofs!vars

\* A server that has just started meets the sink's invariant: it left a connection and a table,
\* and no thread is in a call.
LEMMA SinkStarts ==
    ASSUME Init
    PROVE  SinkProofs!Invariant
<1> USE WardenAssumption DEF Init, Sink!Idle
<1>1. SinkProofs!TypeOK
    BY DEF SinkProofs!TypeOK, SinkProofs!Ops, SinkProofs!Inside, SinkProofs!Events
<1>2. SinkProofs!LockHeld
    BY DEF SinkProofs!LockHeld, SinkProofs!Inside
<1>3. SinkProofs!OwnEvents /\ SinkProofs!OneEventPerId /\ SinkProofs!RowsWereAsked
    BY DEF SinkProofs!OwnEvents, SinkProofs!OneEventPerId, SinkProofs!RowsWereAsked
<1>4. SinkProofs!Stored /\ SinkProofs!Undisturbed /\ SinkProofs!RejectedForCause
    BY DEF SinkProofs!Stored, SinkProofs!Undisturbed, SinkProofs!RejectedForCause,
           SinkProofs!Inside
<1> QED
    BY <1>1, <1>2, <1>3, <1>4 DEF SinkProofs!Invariant

\* What a call has in the sink, apart from how far the sink has got with it.
Calling(c) == [idle |-> c.pc = "idle", op |-> c.op, event |-> c.event]

\* A step of the sink's own, or of the database, starts and ends no call, and stores at most one
\* event, one that was asked for, where there was no row.
LEMMA SinkWorks ==
    ASSUME SinkProofs!Invariant,
           \/ \E t \in Requests : Sink!Attempt(t) \/ Sink!Serve(t)
           \/ Sink!Environment
           \/ UNCHANGED sinkVars
    PROVE  /\ asked' = asked
           /\ \A t \in Requests : Calling(call'[t]) = Calling(call[t])
           /\ \/ rows' = rows
              \/ \E e \in asked : rows[e.id] = NoRow /\ rows' = [rows EXCEPT ![e.id] = e.content]
<1> USE DEF SinkProofs!Invariant, SinkProofs!TypeOK, SinkProofs!Inside, SinkProofs!Ops, Calling
<1>1. ASSUME NEW t \in Requests, Sink!Attempt(t)
      PROVE  /\ asked' = asked /\ rows' = rows
             /\ \A u \in Requests : Calling(call'[u]) = Calling(call[u])
    BY <1>1 DEF Sink!Attempt, Sink!Acquire, Sink!Reuse, Sink!Connect, Sink!ConnectFails,
                Sink!ConnectionLost, Sink!Succeed, Sink!Reject, Sink!OperationalError, Sink!Leave,
                Sink!OnConnection, Sink!dbVars
<1>2. ASSUME NEW t \in Requests, Sink!ServeSetup(t) \/ Sink!ServePing(t) \/ Sink!RefuseInsert(t)
      PROVE  /\ asked' = asked /\ rows' = rows
             /\ \A u \in Requests : Calling(call'[u]) = Calling(call[u])
    BY <1>2 DEF Sink!ServeSetup, Sink!ServePing, Sink!RefuseInsert, Sink!Served, Sink!Answer
<1>3. ASSUME NEW t \in Requests, Sink!ServeInsert(t)
      PROVE  /\ asked' = asked
             /\ \A u \in Requests : Calling(call'[u]) = Calling(call[u])
             /\ \E e \in asked : rows[e.id] = NoRow /\ rows' = [rows EXCEPT ![e.id] = e.content]
    <2>1. call[t].event \in asked
        BY <1>3 DEF Sink!ServeInsert, Sink!Served, SinkProofs!OwnEvents
    <2>2. \A u \in Requests : Calling(call'[u]) = Calling(call[u])
        BY <1>3 DEF Sink!ServeInsert, Sink!Served, Sink!Answer
    <2> QED
        BY <1>3, <2>1, <2>2 DEF Sink!ServeInsert, Sink!Served, Sink!Refused
<1>4. ASSUME NEW e \in orphans, Sink!OrphanCommits(e)
      PROVE  /\ asked' = asked /\ call' = call
             /\ rows[e.id] = NoRow /\ rows' = [rows EXCEPT ![e.id] = e.content]
    BY <1>4 DEF Sink!OrphanCommits, Sink!Refused, Sink!clientVars
<1>5. ASSUME \/ \E e \in orphans : Sink!OrphanDies(e)
             \/ Sink!ConnectionBreaks \/ Sink!DbDown \/ Sink!DbUp \/ UNCHANGED sinkVars
      PROVE  asked' = asked /\ rows' = rows /\ call' = call
    BY <1>5 DEF Sink!OrphanDies, Sink!ConnectionBreaks, Sink!DbDown, Sink!DbUp, Sink!clientVars,
                sinkVars
<1> QED
    BY <1>1, <1>2, <1>3, <1>4, <1>5 DEF Sink!Serve, Sink!Environment
-----------------------------------------------------------------------------
(* The invariant.                                                          *)

\* The types that TypeOK leaves to the shape of the state: traces, and answers as a function.
Answers == [kind : {"none", "outcome", "raised", "lost"},
            trace : {<<>>} \cup PipelineTraces \cup {Withheld(steps) : steps \in PipelineTraces},
            sql : BOOLEAN, result : BOOLEAN, error : BOOLEAN, auditId : BOOLEAN,
            claim : {"none", "not run", "ran", "nothing returned"}]

Types ==
    /\ TypeOK
    /\ trace \in [Requests -> PipelineTraces \cup {<<>>}]
    /\ answer \in [Requests -> Answers]

\* A query that the checks allow and that is to run.
Approved(r) == trace[r] \in PipelineTraces /\ Allowed(trace[r]) /\ ~query[r].dryRun

Unasked(r) == \A e \in asked : e.id # r

\* The call that a request's thread is in, by where the request is.
Stage(r) ==
    /\ phase[r] \in {"new", "executing", "answered"} <=> call[r].pc = "idle"
    /\ phase[r] = "pinging" => call[r].op = "ping"
    /\ phase[r] = "recording" => call[r].op = "record" /\ call[r].event = Event(r, trace[r], outcome[r])

\* What has come of a request before it is recorded.
Beginning(r) ==
    /\ phase[r] = "new" => ~ran[r] /\ outcome[r] = "none"
    /\ phase[r] = "pinging" => Approved(r) /\ ~ran[r] /\ outcome[r] = "none"
    /\ phase[r] = "executing" => Approved(r) /\ outcome[r] = "none"
    /\ phase[r] \in {"new", "pinging", "executing"} => Unasked(r)
    /\ phase[r] # "answered" => answer[r] = NoAnswer

\* Only what was approved reaches the warehouse, and rows come from there.
Outcome(r) ==
    /\ ran[r] \/ outcome[r] # "none" => Approved(r)
    /\ outcome[r] = "rows" => ran[r]

\* An event that the sink was asked to record says what came of its request, for good.
Recording(r) ==
    \A e \in asked : e.id = r =>
        /\ trace[r] \in PipelineTraces
        /\ e = Event(r, trace[r], outcome[r])
        /\ Approved(r) <=> outcome[r] # "none"

\* The two answers that run() and check() return.
RecordedAnswer(r) ==
    [kind |-> "outcome", trace |-> trace[r], sql |-> Allowed(trace[r]),
     result |-> outcome[r] = "rows", error |-> outcome[r] = "error", auditId |-> TRUE,
     claim |-> "none"]
WithheldAnswer(r, claim) ==
    [NoAnswer EXCEPT !.kind = "outcome", !.trace = Withheld(trace[r]), !.claim = claim]

\* The audit log was handed the request as one that failed.
LeftARecord(r) == \E event \in asked : event.id = r /\ event.content.decision = "failed"

\* What a caller has got, and what is true of it.
Answered(r) ==
    \/ answer[r] \in {NoAnswer, Lost}
    \/ answer[r] = Raised /\ (ran[r] => LeftARecord(r))
    \/ /\ answer[r] = RecordedAnswer(r)
       /\ trace[r] \in PipelineTraces /\ outcome[r] # "crash"
       /\ rows[r] = Event(r, trace[r], outcome[r]).content
    \/ \E claim \in {"not run", "ran", "nothing returned"} :
        /\ answer[r] = WithheldAnswer(r, claim)
        /\ trace[r] \in PipelineTraces
        /\ claim = "nothing returned" => ~ran[r]
        /\ claim = "not run" => ~ran[r] /\ Unasked(r)

Told(r) == Stage(r) /\ Beginning(r) /\ Outcome(r) /\ Recording(r) /\ Answered(r)

\* A process that is gone left nothing under way.
NothingUnderWay == server = "down" => \A r \in Requests : phase[r] \in {"new", "answered"}

Invariant ==
    /\ SinkProofs!Invariant
    /\ Types
    /\ NothingUnderWay
    /\ \A r \in Requests : Told(r)
-----------------------------------------------------------------------------
(* Each part of the invariant, step by step.                               *)

\* A step that none of the requests takes: the sink's own, the database's, or none.
Quiet ==
    /\ UNCHANGED wardenVars
    /\ \/ \E t \in Requests : Sink!Attempt(t) \/ Sink!Serve(t)
       \/ Sink!Environment
       \/ UNCHANGED sinkVars

\* The sink's invariant lets a new server open its connection while no call is under way.
LEMMA SinkReopens ==
    ASSUME SinkProofs!Invariant, Start, lock = NoThread, \A t \in Requests : call[t].pc = "idle"
    PROVE  SinkProofs!Invariant'
<1> USE WardenAssumption DEF SinkProofs!Invariant, Start
<1>1. SinkProofs!TypeOK'
    BY DEF SinkProofs!TypeOK
<1>2. SinkProofs!LockHeld'
    BY DEF SinkProofs!LockHeld
<1>3. SinkProofs!OwnEvents' /\ SinkProofs!OneEventPerId' /\ SinkProofs!RowsWereAsked'
    BY DEF SinkProofs!OwnEvents, SinkProofs!OneEventPerId, SinkProofs!RowsWereAsked
<1>4. SinkProofs!Stored'
    BY DEF SinkProofs!Stored
<1>5. SinkProofs!Undisturbed'
    BY DEF SinkProofs!Undisturbed, SinkProofs!Inside
<1>6. SinkProofs!RejectedForCause'
    BY DEF SinkProofs!RejectedForCause
<1> QED
    BY <1>1, <1>2, <1>3, <1>4, <1>5, <1>6

\* The events that Warden asks the sink to record are of the sink's type.
LEMMA RecordIsSinkStep ==
    ASSUME Types, NEW r \in Requests, NEW steps \in PipelineTraces, NEW out, Record(r, steps, out)
    PROVE  Sink!Next
<1>1. Event(r, steps, out) \in Sink!Events
    BY EventType DEF Types, TypeOK
<1> QED
    BY <1>1 DEF Record, Sink!Next

\* Warden uses the sink as the sink means to be used.
LEMMA SinkStep ==
    ASSUME Invariant, [Next]_vars
    PROVE  SinkProofs!Invariant'
<1> USE SinkInvariantStep DEF Invariant, Types
<1>1. ASSUME NEW r \in Requests, DecideToRecord(r) \/ ExecuteEnds(r) PROVE Sink!Next
    BY <1>1, RecordIsSinkStep DEF DecideToRecord, ExecuteEnds, Told, Beginning, Approved
<1>2. ASSUME NEW r \in Requests, DecideToPing(r) PROVE Sink!Next
    BY <1>2 DEF DecideToPing, Sink!Next
<1>3. ASSUME NEW r \in Requests, PingOk(r) \/ PingFails(r) \/ Recorded(r) \/ NotRecorded(r)
      PROVE  Sink!Next
    BY <1>3 DEF PingOk, PingFails, Recorded, NotRecorded, Sink!Next
<1>4. CASE Kill
    BY <1>4 DEF Kill, Sink!Next
<1>5. CASE Start
    <2>1. lock = NoThread /\ \A t \in Requests : call[t].pc = "idle"
        BY <1>5 DEF Start, NothingUnderWay, Told, Stage, SinkProofs!Invariant, SinkProofs!TypeOK,
                    SinkProofs!LockHeld, SinkProofs!Inside
    <2> QED
        BY <1>5, <2>1, SinkReopens
<1>6. ASSUME NEW r \in Requests, RegenerateFails(r) \/ Reach(r) PROVE UNCHANGED sinkVars
    BY <1>6 DEF RegenerateFails, Reach
<1>7. CASE Quiet
    BY <1>7 DEF Quiet, Sink!Next
<1> QED
    BY <1>1, <1>2, <1>3, <1>4, <1>5, <1>6, <1>7
       DEF Next, Handle, Attempt, Serve, Environment, Finished, Quiet, vars, wardenVars

\* What callers are answered is an answer.
LEMMA AnswersType ==
    /\ NoAnswer \in Answers /\ Raised \in Answers /\ Lost \in Answers
    /\ \A steps \in PipelineTraces : \A claim \in {"none", "not run", "ran", "nothing returned"} :
        [NoAnswer EXCEPT !.kind = "outcome", !.trace = Withheld(steps), !.claim = claim] \in Answers
    /\ \A steps \in PipelineTraces : \A result, error \in BOOLEAN :
        [kind |-> "outcome", trace |-> steps, sql |-> Allowed(steps), result |-> result,
         error |-> error, auditId |-> TRUE, claim |-> "none"] \in Answers
<1>1. NoAnswer \in Answers /\ Raised \in Answers /\ Lost \in Answers
    BY DEF Answers, NoAnswer, Raised, Lost
<1>2. ASSUME NEW steps \in PipelineTraces, NEW claim \in {"none", "not run", "ran", "nothing returned"}
      PROVE [NoAnswer EXCEPT !.kind = "outcome", !.trace = Withheld(steps), !.claim = claim] \in Answers
    BY DEF Answers, NoAnswer
<1>3. ASSUME NEW steps \in PipelineTraces, NEW result \in BOOLEAN, NEW error \in BOOLEAN
      PROVE [kind |-> "outcome", trace |-> steps, sql |-> Allowed(steps), result |-> result,
             error |-> error, auditId |-> TRUE, claim |-> "none"] \in Answers
    BY DEF Answers, Allowed
<1> QED
    BY <1>1, <1>2, <1>3

\* A request that is being recorded has its event with the sink.
LEMMA RecordingIsAsked ==
    ASSUME Invariant, NEW r \in Requests, phase[r] = "recording"
    PROVE  /\ Event(r, trace[r], outcome[r]) \in asked
           /\ trace[r] \in PipelineTraces
           /\ Approved(r) <=> outcome[r] # "none"
<1>1. Event(r, trace[r], outcome[r]) \in asked
    <2>1. SinkProofs!OwnEvents
        BY DEF Invariant, SinkProofs!Invariant
    <2>2. call[r].op = "record" /\ call[r].event = Event(r, trace[r], outcome[r])
        BY DEF Invariant, Told, Stage
    <2> QED
        BY <2>1, <2>2 DEF SinkProofs!OwnEvents
<1>2. Event(r, trace[r], outcome[r]).id = r
    BY DEF Event
<1> QED
    BY <1>1, <1>2 DEF Invariant, Told, Recording

\* What the columns of an event are.
LEMMA EventSays ==
    ASSUME NEW r \in Requests, NEW steps, NEW out
    PROVE  LET row == Event(r, steps, out).content IN
        /\ row.decision = IF ~Allowed(steps) THEN "refused"
                          ELSE IF out \in {"error", "crash"} THEN "failed" ELSE "allowed"
        /\ row.dryRun = query[r].dryRun
        /\ row.code = RefusedBy(steps)
        /\ row.rowsReturned = (out = "rows")
BY DEF Event

\* An exception that is being recorded has been handed to the sink as a failure.
LEMMA CrashIsAsked ==
    ASSUME Invariant, NEW r \in Requests, phase[r] = "recording", outcome[r] = "crash"
    PROVE  LeftARecord(r)
<1>1. Event(r, trace[r], outcome[r]) \in asked /\ Allowed(trace[r])
    BY RecordingIsAsked DEF Approved
<1>2. Event(r, trace[r], outcome[r]).content.decision = "failed"
    BY <1>1, EventSays
<1>3. Event(r, trace[r], outcome[r]).id = r
    BY DEF Event
<1> QED
    BY <1>1, <1>2, <1>3 DEF LeftARecord

\* Every step keeps the types.
LEMMA TypesStep ==
    ASSUME Invariant, SinkProofs!Invariant', [Next]_vars
    PROVE  Types'
<1> USE DEF Invariant, Types
<1>0. Sink!TypeOK' /\ Sink!TypeOK
    BY DEF SinkProofs!Invariant, SinkProofs!TypeOK, Sink!TypeOK, Sink!Inside, SinkProofs!Inside,
           Sink!Ops, SinkProofs!Ops, Sink!Events, SinkProofs!Events
<1>1. TypeOK' <=>
    /\ server' \in {"up", "down"}
    /\ phase' \in [Requests -> {"new", "pinging", "executing", "recording", "answered"}]
    /\ query' \in [Requests -> [dryRun : BOOLEAN, storable : BOOLEAN]]
    /\ \A r \in Requests : trace'[r] \in PipelineTraces \cup {<<>>}
    /\ outcome' \in [Requests -> {"none", "rows", "error", "crash"}]
    /\ ran' \in [Requests -> BOOLEAN]
    /\ \A r \in Requests :
        /\ answer'[r].kind \in {"none", "outcome", "raised", "lost"}
        /\ answer'[r].claim \in {"none", "not run", "ran", "nothing returned"}
        /\ answer'[r].result \in BOOLEAN /\ answer'[r].error \in BOOLEAN
        /\ answer'[r].auditId \in BOOLEAN /\ answer'[r].sql \in BOOLEAN
    BY <1>0 DEF TypeOK
<1>2. ASSUME NEW a \in Answers
      PROVE  /\ a.kind \in {"none", "outcome", "raised", "lost"}
             /\ a.claim \in {"none", "not run", "ran", "nothing returned"}
             /\ a.result \in BOOLEAN /\ a.error \in BOOLEAN
             /\ a.auditId \in BOOLEAN /\ a.sql \in BOOLEAN
    BY DEF Answers
<1>3. ASSUME /\ server' \in {"up", "down"}
             /\ phase' \in [Requests -> {"new", "pinging", "executing", "recording", "answered"}]
             /\ query' = query
             /\ trace' \in [Requests -> PipelineTraces \cup {<<>>}]
             /\ outcome' \in [Requests -> {"none", "rows", "error", "crash"}]
             /\ ran' \in [Requests -> BOOLEAN]
             /\ answer' \in [Requests -> Answers]
      PROVE  Types'
    BY <1>1, <1>2, <1>3 DEF TypeOK
<1> USE DEF TypeOK
<1>4. ASSUME NEW r \in Requests, DecideToRecord(r) \/ DecideToPing(r) PROVE Types'
    BY <1>3, <1>4 DEF DecideToRecord, DecideToPing, Record
<1>5. ASSUME NEW r \in Requests, NEW a \in Answers, Answer(r, a),
             UNCHANGED <<server, query, trace, outcome, ran>>
      PROVE  Types'
    BY <1>3, <1>5 DEF Answer
<1>6. ASSUME NEW r \in Requests, RegenerateFails(r) PROVE Types'
    BY <1>5, <1>6, AnswersType DEF RegenerateFails
<1>7. ASSUME NEW r \in Requests, PingOk(r) \/ Reach(r) \/ ExecuteEnds(r) PROVE Types'
    <2>1. CASE PingOk(r) \/ Reach(r)
        BY <1>3, <2>1 DEF PingOk, Reach
    <2>2. CASE ExecuteEnds(r)
        <3>1. PICK out \in {"rows", "error", "crash"} : outcome' = [outcome EXCEPT ![r] = out]
            BY <2>2 DEF ExecuteEnds
        <3> QED
            BY <1>3, <2>2, <3>1 DEF ExecuteEnds, Record
    <2> QED
        BY <1>7, <2>1, <2>2
<1>8. ASSUME NEW r \in Requests, PingFails(r) PROVE Types'
    BY <1>5, <1>8, AnswersType DEF PingFails, Told, Beginning, Approved
<1>9. ASSUME NEW r \in Requests, phase[r] = "recording" PROVE trace[r] \in PipelineTraces
    BY <1>9, RecordingIsAsked
<1>10. ASSUME NEW r \in Requests, Recorded(r) PROVE Types'
    BY <1>5, <1>9, <1>10, AnswersType DEF Recorded
<1>11. ASSUME NEW r \in Requests, NotRecorded(r) PROVE Types'
    BY <1>5, <1>9, <1>11, AnswersType DEF NotRecorded
<1>12. CASE Kill
    BY <1>3, <1>12, AnswersType DEF Kill, InProgress
<1>13. CASE Start
    BY <1>3, <1>13 DEF Start, requestVars
<1>14. CASE Quiet
    BY <1>3, <1>14 DEF Quiet, wardenVars, requestVars
<1> QED
    BY <1>4, <1>6, <1>7, <1>8, <1>10, <1>11, <1>12, <1>13, <1>14
       DEF Next, Handle, Attempt, Serve, Environment, Finished, Quiet, vars, wardenVars

\* A request that a step is not about: nothing of it changes, its row if it has one stays, and
\* what the sink is asked to record is not its event.
Untouched(r) ==
    /\ <<phase[r], query[r], trace[r], outcome[r], ran[r], answer[r]>>'
        = <<phase[r], query[r], trace[r], outcome[r], ran[r], answer[r]>>
    /\ Calling(call[r])' = Calling(call[r])
    /\ asked \subseteq asked' /\ \A e \in asked' : e.id = r => e \in asked
    /\ rows[r] # NoRow => rows'[r] = rows[r]

\* What an event says is a row.
LEMMA EventHasRow ==
    ASSUME Types, NEW r \in Requests, trace[r] \in PipelineTraces
    PROVE  Event(r, trace[r], outcome[r]).content # NoRow
<1>1. Event(r, trace[r], outcome[r]) \in Sink!Events
    BY EventType DEF Types, TypeOK
<1>2. Event(r, trace[r], outcome[r]).content \in AuditRows
    BY <1>1 DEF Sink!Events
<1> QED
    BY <1>2, WardenAssumption

\* What is true of a request stays true over the steps of others.
LEMMA Frame ==
    ASSUME Types, NEW r \in Requests, Told(r), Untouched(r)
    PROVE  Told(r)'
<1>1. /\ phase'[r] = phase[r] /\ query'[r] = query[r] /\ trace'[r] = trace[r]
      /\ outcome'[r] = outcome[r] /\ ran'[r] = ran[r] /\ answer'[r] = answer[r]
      /\ call'[r].pc = "idle" <=> call[r].pc = "idle"
      /\ call'[r].op = call[r].op /\ call'[r].event = call[r].event
      /\ asked \subseteq asked' /\ \A e \in asked' : e.id = r => e \in asked
      /\ rows[r] # NoRow => rows'[r] = rows[r]
    BY DEF Untouched, Calling
<1>2. Approved(r)' <=> Approved(r)
    BY <1>1 DEF Approved
<1>3. Unasked(r) => Unasked(r)'
    BY <1>1 DEF Unasked
<1>4. Event(r, trace[r], outcome[r])' = Event(r, trace[r], outcome[r])
    BY <1>1 DEF Event
<1>5. Stage(r)'
    BY <1>1, <1>4 DEF Told, Stage
<1>6. Beginning(r)'
    BY <1>1, <1>2, <1>3 DEF Told, Beginning
<1>7. Outcome(r)'
    BY <1>1, <1>2 DEF Told, Outcome
<1>8. Recording(r)'
    BY <1>1, <1>2, <1>4 DEF Told, Recording
<1>9. Answered(r)'
    <2>1. RecordedAnswer(r)' = RecordedAnswer(r)
        BY <1>1 DEF RecordedAnswer
    <2>2. ASSUME NEW claim PROVE WithheldAnswer(r, claim)' = WithheldAnswer(r, claim)
        BY <1>1 DEF WithheldAnswer
    <2>3. trace[r] \in PipelineTraces => Event(r, trace[r], outcome[r]).content # NoRow
        BY EventHasRow
    <2>4. LeftARecord(r) => LeftARecord(r)'
        BY <1>1 DEF LeftARecord
    <2> QED
        BY <1>1, <1>3, <1>4, <2>1, <2>2, <2>3, <2>4 DEF Told, Answered
<1> QED
    BY <1>5, <1>6, <1>7, <1>8, <1>9 DEF Told

\* The sink and the database by themselves touch no request.
LEMMA QuietTouchesNone ==
    ASSUME Invariant, Quiet, NEW r \in Requests
    PROVE  Untouched(r)
<1>1. /\ asked' = asked
      /\ \A t \in Requests : Calling(call'[t]) = Calling(call[t])
      /\ \/ rows' = rows
         \/ \E e \in asked : rows[e.id] = NoRow /\ rows' = [rows EXCEPT ![e.id] = e.content]
    BY SinkWorks DEF Invariant, Quiet
<1>2. Calling(call[r])' = Calling(call[r])
    BY <1>1 DEF Calling
<1>3. rows[r] # NoRow => rows'[r] = rows[r]
    BY <1>1 DEF Invariant, SinkProofs!Invariant, SinkProofs!TypeOK
<1> QED
    BY <1>1, <1>2, <1>3 DEF Quiet, wardenVars, requestVars, Untouched

\* A request's step touches no other request.
LEMMA HandleTouchesOne ==
    ASSUME Invariant, NEW r \in Requests, Handle(r), NEW u \in Requests \ {r}
    PROVE  Untouched(u)
<1> USE DEF Invariant, Types, TypeOK
<1>0. call \in [Requests -> [pc : {"idle", "waiting", "ok", "error"} \cup SinkProofs!Inside,
                             op : SinkProofs!Ops,
                             event : SinkProofs!Events \cup {NoEvent}, attempt : {1, 2}]]
    BY DEF SinkProofs!Invariant, SinkProofs!TypeOK
<1>1. ASSUME \E c : call' = [call EXCEPT ![r] = c]
      PROVE  Calling(call[u])' = Calling(call[u])
    BY <1>0, <1>1
<1>2. ASSUME NEW steps, NEW out, Record(r, steps, out)
      PROVE  /\ rows' = rows /\ Calling(call[u])' = Calling(call[u])
             /\ phase'[u] = phase[u]
             /\ asked \subseteq asked' /\ \A e \in asked' : e.id = u => e \in asked
    <2>1. asked' = asked \cup {Event(r, steps, out)} /\ Event(r, steps, out).id = r
        BY <1>2 DEF Record, Sink!EnterRecord, Event
    <2>2. Calling(call[u])' = Calling(call[u])
        BY <1>1, <1>2 DEF Record, Sink!EnterRecord, Sink!Enter
    <2> QED
        BY <1>2, <2>1, <2>2 DEF Record, Sink!EnterRecord, Sink!Enter, Sink!dbVars
<1>3. ASSUME Sink!EnterPing(r) \/ Sink!Return(r)
      PROVE  rows' = rows /\ asked' = asked /\ Calling(call[u])' = Calling(call[u])
    <2>1. \E c : call' = [call EXCEPT ![r] = c]
        BY <1>3 DEF Sink!EnterPing, Sink!Enter, Sink!Return
    <2> QED
        BY <1>1, <1>3, <2>1 DEF Sink!EnterPing, Sink!Enter, Sink!Return, Sink!dbVars
<1>4. ASSUME NEW a, Answer(r, a) PROVE phase'[u] = phase[u] /\ answer'[u] = answer[u]
    BY <1>4 DEF Answer
<1>5. CASE DecideToRecord(r)
    <2>1. PICK steps \in PipelineTraces :
            trace' = [trace EXCEPT ![r] = steps] /\ Record(r, steps, "none")
        BY <1>5 DEF DecideToRecord
    <2> QED
        BY <1>2, <1>5, <2>1 DEF DecideToRecord, Untouched
<1>6. CASE DecideToPing(r)
    BY <1>3, <1>6 DEF DecideToPing, Untouched
<1>7. CASE RegenerateFails(r) \/ Reach(r)
    BY <1>4, <1>7 DEF RegenerateFails, Reach, sinkVars, Untouched
<1>8. CASE PingOk(r)
    BY <1>3, <1>8 DEF PingOk, Untouched
<1>9. CASE PingFails(r) \/ Recorded(r) \/ NotRecorded(r)
    BY <1>3, <1>4, <1>9 DEF PingFails, Recorded, NotRecorded, Untouched
<1>10. CASE ExecuteEnds(r)
    <2>1. PICK out \in {"rows", "error", "crash"} :
            outcome' = [outcome EXCEPT ![r] = out] /\ Record(r, trace[r], out)
        BY <1>10 DEF ExecuteEnds
    <2> QED
        BY <1>2, <1>10, <2>1 DEF ExecuteEnds, Untouched
<1> QED
    BY <1>5, <1>6, <1>7, <1>8, <1>9, <1>10 DEF Handle

\* A query that is decided and has nothing to run is recorded as it is.
LEMMA DecideToRecordTells ==
    ASSUME Invariant, NEW r \in Requests, DecideToRecord(r)
    PROVE  Told(r)'
<1> USE DEF Invariant, Types, TypeOK, DecideToRecord, Record, Sink!EnterRecord, Sink!Enter, Told
<1>1. PICK steps \in PipelineTraces :
        /\ ~Allowed(steps) \/ query[r].dryRun
        /\ trace' = [trace EXCEPT ![r] = steps]
        /\ asked' = asked \cup {Event(r, steps, "none")}
        /\ call' = [call EXCEPT ![r] = [Sink!Idle EXCEPT !.pc = "waiting", !.op = "record",
                                                         !.event = Event(r, steps, "none")]]
    OBVIOUS
<1>2. ~ran[r] /\ outcome[r] = "none" /\ answer[r] = NoAnswer /\ Unasked(r)
    BY DEF Beginning
<1>3. /\ phase'[r] = "recording" /\ trace'[r] = steps /\ outcome'[r] = "none" /\ ~ran'[r]
      /\ answer'[r] = NoAnswer /\ query' = query
    BY <1>1, <1>2
<1>4. Event(r, trace[r], outcome[r])' = Event(r, steps, "none")
    BY <1>3 DEF Event
<1>5. Stage(r)'
    <2>1. call'[r].pc = "waiting" /\ call'[r].op = "record" /\ call'[r].event = Event(r, steps, "none")
        BY <1>1 DEF Sink!Idle, SinkProofs!Invariant, SinkProofs!TypeOK
    <2> QED
        BY <1>3, <1>4, <2>1 DEF Stage
<1>6. Beginning(r)' /\ Outcome(r)' /\ Answered(r)'
    BY <1>3 DEF Beginning, Outcome, Answered
<1>7. Recording(r)'
    <2>1. ~Approved(r)'
        BY <1>1, <1>3 DEF Approved
    <2> QED
        BY <1>1, <1>2, <1>3, <1>4, <2>1 DEF Recording, Unasked
<1> QED
    BY <1>5, <1>6, <1>7

\* A query is approved before the ping, and nothing has come of it by then.
LEMMA DecideToPingTells ==
    ASSUME Invariant, NEW r \in Requests, DecideToPing(r)
    PROVE  Told(r)'
<1> USE DEF Invariant, Types, TypeOK, DecideToPing, Sink!EnterPing, Sink!Enter, Told
<1>1. PICK steps \in PipelineTraces : Allowed(steps) /\ trace' = [trace EXCEPT ![r] = steps]
    OBVIOUS
<1>2. ~ran[r] /\ outcome[r] = "none" /\ answer[r] = NoAnswer /\ Unasked(r)
    BY DEF Beginning
<1>3. /\ phase'[r] = "pinging" /\ trace'[r] = steps /\ outcome'[r] = "none" /\ ~ran'[r]
      /\ answer'[r] = NoAnswer /\ query' = query /\ asked' = asked
    BY <1>1, <1>2
<1>4. Approved(r)' /\ Unasked(r)'
    BY <1>1, <1>2, <1>3 DEF Approved, Unasked
<1>5. Stage(r)'
    <2>1. call'[r].pc = "waiting" /\ call'[r].op = "ping"
        BY DEF Sink!Idle, SinkProofs!Invariant, SinkProofs!TypeOK
    <2> QED
        BY <1>3, <2>1 DEF Stage
<1>6. Beginning(r)' /\ Outcome(r)' /\ Answered(r)'
    BY <1>3, <1>4 DEF Beginning, Outcome, Answered
<1>7. Recording(r)'
    BY <1>4 DEF Recording, Unasked
<1> QED
    BY <1>5, <1>6, <1>7

\* A thread that has its result is in no call, and its step neither asks for nor stores anything.
LEMMA ReturnLeaves ==
    ASSUME Invariant, NEW r \in Requests, Sink!Return(r)
    PROVE  asked' = asked /\ rows' = rows /\ call'[r].pc = "idle"
BY DEF Sink!Return, Sink!Idle, Sink!dbVars, Invariant, SinkProofs!Invariant, SinkProofs!TypeOK

\* The query runs only after the audit database has answered.
LEMMA PingOkTells ==
    ASSUME Invariant, NEW r \in Requests, PingOk(r)
    PROVE  Told(r)'
<1> USE DEF Invariant, Types, TypeOK, PingOk, Told
<1>1. Approved(r) /\ ~ran[r] /\ outcome[r] = "none" /\ answer[r] = NoAnswer /\ Unasked(r)
    BY DEF Beginning
<1>2. /\ phase'[r] = "executing" /\ outcome'[r] = "none" /\ ~ran'[r] /\ answer'[r] = NoAnswer
      /\ asked' = asked /\ call'[r].pc = "idle"
    BY <1>1, ReturnLeaves
<1>3. Approved(r)' /\ Unasked(r)'
    BY <1>1, <1>2 DEF Approved, Unasked
<1>4. Stage(r)' /\ Beginning(r)' /\ Outcome(r)' /\ Answered(r)'
    BY <1>2, <1>3 DEF Stage, Beginning, Outcome, Answered
<1>5. Recording(r)'
    BY <1>3 DEF Recording, Unasked
<1> QED
    BY <1>4, <1>5

\* The warehouse receives only approved queries, and what it makes of one is not known yet.
LEMMA ReachTells ==
    ASSUME Invariant, NEW r \in Requests, Reach(r)
    PROVE  Told(r)'
<1> USE DEF Invariant, Types, TypeOK, Reach, Told, sinkVars
<1>1. Approved(r) /\ outcome[r] = "none" /\ answer[r] = NoAnswer /\ Unasked(r)
    BY DEF Beginning
<1>2. /\ phase'[r] = "executing" /\ outcome'[r] = "none" /\ answer'[r] = NoAnswer
      /\ asked' = asked /\ call' = call
    BY <1>1
<1>3. Approved(r)' /\ Unasked(r)'
    BY <1>1, <1>2 DEF Approved, Unasked
<1>4. Stage(r)' /\ Beginning(r)' /\ Outcome(r)' /\ Answered(r)'
    BY <1>2, <1>3 DEF Stage, Beginning, Outcome, Answered
<1>5. Recording(r)'
    BY <1>3 DEF Recording, Unasked
<1> QED
    BY <1>4, <1>5

\* What came of a query is what its event says.
LEMMA ExecuteEndsTells ==
    ASSUME Invariant, NEW r \in Requests, ExecuteEnds(r)
    PROVE  Told(r)'
<1> USE DEF Invariant, Types, TypeOK, ExecuteEnds, Record, Sink!EnterRecord, Sink!Enter, Told
<1>1. PICK out \in {"rows", "error", "crash"} :
        /\ out = "rows" => ran[r]
        /\ outcome' = [outcome EXCEPT ![r] = out]
        /\ asked' = asked \cup {Event(r, trace[r], out)}
        /\ call' = [call EXCEPT ![r] = [Sink!Idle EXCEPT !.pc = "waiting", !.op = "record",
                                                         !.event = Event(r, trace[r], out)]]
    OBVIOUS
<1>2. Approved(r) /\ answer[r] = NoAnswer /\ Unasked(r)
    BY DEF Beginning
<1>3. /\ phase'[r] = "recording" /\ outcome'[r] = out /\ answer'[r] = NoAnswer
      /\ trace' = trace /\ query' = query /\ ran' = ran
    BY <1>1, <1>2
<1>4. Event(r, trace[r], outcome[r])' = Event(r, trace[r], out)
    BY <1>3 DEF Event
<1>5. Approved(r)'
    BY <1>2, <1>3 DEF Approved
<1>6. Stage(r)'
    <2>1. /\ call'[r].pc = "waiting" /\ call'[r].op = "record"
          /\ call'[r].event = Event(r, trace[r], out)
        BY <1>1 DEF Sink!Idle, SinkProofs!Invariant, SinkProofs!TypeOK
    <2> QED
        BY <1>3, <1>4, <2>1 DEF Stage
<1>7. Beginning(r)' /\ Outcome(r)' /\ Answered(r)'
    BY <1>1, <1>3, <1>5 DEF Beginning, Outcome, Answered
<1>8. Recording(r)'
    BY <1>1, <1>2, <1>3, <1>4, <1>5 DEF Recording, Unasked, Approved
<1> QED
    BY <1>6, <1>7, <1>8

\* An answer ends a request, and leaves what came of it.
LEMMA AnswerEnds ==
    ASSUME Invariant, NEW r \in Requests, NEW a, Answer(r, a), asked' = asked,
           call'[r].pc = "idle", UNCHANGED <<server, query, trace, outcome, ran>>, Answered(r)'
    PROVE  Told(r)'
<1> USE DEF Invariant, Types, TypeOK, Told
<1>1. phase'[r] = "answered"
    BY DEF Answer
<1>2. Approved(r)' <=> Approved(r)
    BY DEF Approved
<1>3. Event(r, trace[r], outcome[r])' = Event(r, trace[r], outcome[r])
    BY DEF Event
<1>4. Stage(r)' /\ Beginning(r)'
    BY <1>1 DEF Stage, Beginning
<1>5. Outcome(r)'
    BY <1>2 DEF Outcome
<1>6. Recording(r)'
    BY <1>2, <1>3 DEF Recording
<1> QED
    BY <1>4, <1>5, <1>6

\* An exception of _decide says nothing, and nothing has reached the warehouse by then.
LEMMA RegenerateFailsTells ==
    ASSUME Invariant, NEW r \in Requests, RegenerateFails(r)
    PROVE  Told(r)'
<1>1. answer'[r] = Raised /\ call'[r].pc = "idle" /\ asked' = asked /\ ~ran'[r]
    BY DEF RegenerateFails, Answer, sinkVars, Invariant, Types, Told, Stage, Beginning
<1>2. Answered(r)'
    BY <1>1 DEF Answered
<1> QED
    BY <1>1, <1>2, AnswerEnds DEF RegenerateFails

\* A query whose ping fails is not run, and its caller is told so.
LEMMA PingFailsTells ==
    ASSUME Invariant, NEW r \in Requests, PingFails(r)
    PROVE  Told(r)'
<1> USE DEF Invariant, Types, TypeOK, Told
<1>1. asked' = asked /\ call'[r].pc = "idle"
    BY ReturnLeaves DEF PingFails
<1>2. ~ran[r] /\ Unasked(r) /\ trace[r] \in PipelineTraces
    BY DEF Beginning, PingFails, Approved
<1>3. Answered(r)'
    <2>1. answer'[r] = WithheldAnswer(r, "not run")
        BY DEF PingFails, Answer, WithheldAnswer
    <2>2. WithheldAnswer(r, "not run")' = WithheldAnswer(r, "not run")
        BY DEF PingFails, WithheldAnswer
    <2>3. Unasked(r)' /\ ~ran'[r] /\ trace'[r] \in PipelineTraces
        BY <1>1, <1>2 DEF PingFails, Unasked
    <2> QED
        BY <2>1, <2>2, <2>3 DEF Answered
<1> QED
    BY <1>1, <1>3, AnswerEnds DEF PingFails

\* When record() returns, the sink has stored the event.
LEMMA RecordedIsStored ==
    ASSUME Invariant, NEW r \in Requests, Recorded(r)
    PROVE  rows[r] = Event(r, trace[r], outcome[r]).content
<1>1. call[r].pc = "ok" /\ call[r].op = "record" /\ call[r].event = Event(r, trace[r], outcome[r])
    BY DEF Recorded, Invariant, Told, Stage
<1>2. Event(r, trace[r], outcome[r]).id = r
    BY DEF Event
<1> QED
    BY <1>1, <1>2 DEF Invariant, SinkProofs!Invariant, SinkProofs!Stored

\* When record() returns, the row is there and says what came of the request.
LEMMA RecordedTells ==
    ASSUME Invariant, NEW r \in Requests, Recorded(r)
    PROVE  Told(r)'
<1> USE DEF Invariant, Types, TypeOK, Told
<1>1. asked' = asked /\ rows' = rows /\ call'[r].pc = "idle"
    BY ReturnLeaves DEF Recorded
<1>2. rows[r] = Event(r, trace[r], outcome[r]).content
    BY RecordedIsStored
<1>3. trace[r] \in PipelineTraces
    BY RecordingIsAsked DEF Recorded
<1>4. Answered(r)'
    <2>1. CASE outcome[r] = "crash"
        <3>1. LeftARecord(r)
            BY <2>1, CrashIsAsked DEF Recorded
        <3>2. LeftARecord(r)' /\ answer'[r] = Raised
            BY <1>1, <2>1, <3>1 DEF Recorded, Answer, LeftARecord
        <3> QED
            BY <3>2 DEF Answered
    <2>2. CASE outcome[r] # "crash"
        <3>1. answer'[r] = RecordedAnswer(r)
            BY <2>2 DEF Recorded, Answer, RecordedAnswer
        <3>2. RecordedAnswer(r)' = RecordedAnswer(r)
            BY DEF Recorded, RecordedAnswer
        <3>3. Event(r, trace[r], outcome[r])' = Event(r, trace[r], outcome[r])
            BY DEF Recorded, Event
        <3>4. /\ rows'[r] = Event(r, trace[r], outcome[r])'.content
              /\ trace'[r] \in PipelineTraces /\ outcome'[r] # "crash"
            BY <1>1, <1>2, <1>3, <2>2, <3>3 DEF Recorded
        <3> QED
            BY <3>1, <3>2, <3>4 DEF Answered
    <2> QED
        BY <2>1, <2>2
<1> QED
    BY <1>1, <1>4, AnswerEnds DEF Recorded

\* When it does not, the caller gets a refusal of the audit log, that says whether the query ran.
LEMMA NotRecordedTells ==
    ASSUME Invariant, NEW r \in Requests, NotRecorded(r)
    PROVE  Told(r)'
<1> USE DEF Invariant, Types, TypeOK, Told
<1>1. asked' = asked /\ call'[r].pc = "idle"
    BY ReturnLeaves DEF NotRecorded
<1>2. trace[r] \in PipelineTraces /\ (outcome[r] = "none" => ~ran[r])
    BY RecordingIsAsked DEF NotRecorded, Outcome
<1>3. Answered(r)'
    <2>1. CASE outcome[r] = "crash"
        <3>1. LeftARecord(r)
            BY <2>1, CrashIsAsked DEF NotRecorded
        <3>2. LeftARecord(r)' /\ answer'[r] = Raised
            BY <1>1, <2>1, <3>1 DEF NotRecorded, Answer, LeftARecord
        <3> QED
            BY <3>2 DEF Answered
    <2>2. CASE outcome[r] # "crash"
        <3>1. PICK claim \in {"nothing returned", "ran"} :
                /\ claim = IF outcome[r] = "none" THEN "nothing returned" ELSE "ran"
                /\ answer'[r] = WithheldAnswer(r, claim)
            BY <2>2 DEF NotRecorded, Answer, WithheldAnswer
        <3>2. WithheldAnswer(r, claim)' = WithheldAnswer(r, claim)
            BY DEF NotRecorded, WithheldAnswer
        <3>3. trace'[r] \in PipelineTraces /\ (claim = "nothing returned" => ~ran'[r])
            BY <1>2, <3>1 DEF NotRecorded
        <3> QED
            BY <3>1, <3>2, <3>3 DEF Answered
    <2> QED
        BY <2>1, <2>2
<1> QED
    BY <1>1, <1>3, AnswerEnds DEF NotRecorded

\* What a request's own step does keeps what is true of it.
LEMMA HandleTells ==
    ASSUME Invariant, NEW r \in Requests, Handle(r)
    PROVE  Told(r)'
BY DecideToRecordTells, DecideToPingTells, RegenerateFailsTells, PingOkTells, PingFailsTells,
   ReachTells, ExecuteEndsTells, RecordedTells, NotRecordedTells DEF Handle

\* A process that is killed leaves its callers with nothing, and its calls are gone.
LEMMA KillTells ==
    ASSUME Invariant, Kill, NEW r \in Requests
    PROVE  Told(r)'
<1> USE DEF Invariant, Types, TypeOK, Told
<1>1. /\ asked' = asked /\ rows' = rows /\ call'[r] = Sink!Idle
      /\ phase'[r] = (IF InProgress(r) THEN "answered" ELSE phase[r])
      /\ answer'[r] = (IF InProgress(r) THEN Lost ELSE answer[r])
      /\ UNCHANGED <<query, trace, outcome, ran>>
    BY DEF Kill, Sink!Crash
<1>2. phase[r] \in {"new", "answered"} <=> ~InProgress(r)
    BY DEF InProgress
<1>3. Approved(r)' <=> Approved(r)
    BY <1>1 DEF Approved
<1>4. Unasked(r)' <=> Unasked(r)
    BY <1>1 DEF Unasked
<1>5. Event(r, trace[r], outcome[r])' = Event(r, trace[r], outcome[r])
    BY <1>1 DEF Event
<1>6. Stage(r)'
    <2>1. call'[r].pc = "idle"
        <3>1. Sink!Idle.pc = "idle"
            BY DEF Sink!Idle
        <3> QED
            BY <1>1, <3>1
    <2>2. phase'[r] \in {"new", "answered"}
        BY <1>1, <1>2
    <2> QED
        BY <2>1, <2>2 DEF Stage
<1>7. Beginning(r)'
    BY <1>1, <1>2, <1>3, <1>4 DEF Beginning
<1>8. Outcome(r)' /\ Recording(r)'
    BY <1>1, <1>3, <1>5 DEF Outcome, Recording
<1>9. Answered(r)'
    <2>1. CASE InProgress(r)
        BY <1>1, <2>1 DEF Answered
    <2>2. CASE ~InProgress(r)
        <3>1. answer'[r] = answer[r]
            BY <1>1, <2>2
        <3>2. RecordedAnswer(r)' = RecordedAnswer(r)
            BY <1>1 DEF RecordedAnswer
        <3>3. ASSUME NEW claim PROVE WithheldAnswer(r, claim)' = WithheldAnswer(r, claim)
            BY <1>1 DEF WithheldAnswer
        <3>4. LeftARecord(r)' <=> LeftARecord(r)
            BY <1>1 DEF LeftARecord
        <3> QED
            BY <1>1, <1>4, <1>5, <3>1, <3>2, <3>3, <3>4 DEF Answered
    <2> QED
        BY <2>1, <2>2
<1> QED
    BY <1>6, <1>7, <1>8, <1>9

\* Every step keeps what is true of every request.
LEMMA ToldStep ==
    ASSUME Invariant, [Next]_vars
    PROVE  \A r \in Requests : Told(r)'
<1> USE DEF Invariant
<1>1. ASSUME NEW r \in Requests, Handle(r), NEW u \in Requests PROVE Told(u)'
    <2>1. CASE u = r
        BY <1>1, <2>1, HandleTells
    <2>2. CASE u # r
        BY <1>1, <2>2, HandleTouchesOne, Frame
    <2> QED
        BY <2>1, <2>2
<1>2. CASE Kill
    BY <1>2, KillTells
<1>3. ASSUME Start, NEW u \in Requests PROVE Told(u)'
    <2>1. Untouched(u)
        BY <1>3 DEF Start, requestVars, Untouched
    <2> QED
        BY <2>1, Frame
<1>4. ASSUME Quiet, NEW u \in Requests PROVE Told(u)'
    BY <1>4, QuietTouchesNone, Frame
<1> QED
    BY <1>1, <1>2, <1>3, <1>4
       DEF Next, Attempt, Serve, Environment, Finished, Quiet, vars, wardenVars

\* A server that is down does nothing until it starts again.
LEMMA NothingUnderWayStep ==
    ASSUME Invariant, [Next]_vars
    PROVE  NothingUnderWay'
<1> USE DEF Invariant, Types, TypeOK, NothingUnderWay
<1>1. ASSUME NEW r \in Requests, Handle(r) PROVE NothingUnderWay'
    <2>1. server = "up" /\ server' = server
        BY <1>1 DEF Handle, DecideToRecord, DecideToPing, RegenerateFails, PingOk, PingFails, Reach,
                    ExecuteEnds, Recorded, NotRecorded
    <2> QED
        BY <2>1
<1>2. CASE Kill
    BY <1>2 DEF Kill, InProgress
<1>3. CASE Start
    BY <1>3 DEF Start
<1>4. CASE Quiet
    BY <1>4 DEF Quiet, wardenVars, requestVars
<1> QED
    BY <1>1, <1>2, <1>3, <1>4
       DEF Next, Attempt, Serve, Environment, Finished, Quiet, vars, wardenVars
-----------------------------------------------------------------------------
(* The invariant holds in every state.                                     *)

\* A server that has just started has told nobody anything.
LEMMA InitInvariant == Init => Invariant
<1> SUFFICES ASSUME Init PROVE Invariant
    OBVIOUS
<1>1. SinkProofs!Invariant
    BY SinkStarts
<1>2. Sink!TypeOK
    BY <1>1 DEF SinkProofs!Invariant, SinkProofs!TypeOK, Sink!TypeOK, Sink!Inside,
                SinkProofs!Inside, Sink!Ops, SinkProofs!Ops, Sink!Events, SinkProofs!Events
<1>3. Types
    <2>1. answer \in [Requests -> Answers]
        BY AnswersType DEF Init
    <2>2. TypeOK
        BY <1>2 DEF Init, TypeOK, NoAnswer
    <2> QED
        BY <2>1, <2>2 DEF Init, Types
<1>4. NothingUnderWay
    BY DEF Init, NothingUnderWay
<1>5. ASSUME NEW r \in Requests PROVE Told(r)
    <2>1. Unasked(r)
        BY DEF Init, Unasked
    <2>2. Stage(r)
        BY DEF Init, Stage, Sink!Idle
    <2>3. Beginning(r) /\ Outcome(r) /\ Answered(r)
        BY <2>1 DEF Init, Beginning, Outcome, Answered
    <2>4. Recording(r)
        BY <2>1 DEF Recording, Unasked
    <2> QED
        BY <2>2, <2>3, <2>4 DEF Told
<1> QED
    BY <1>1, <1>3, <1>4, <1>5 DEF Invariant

\* Every step of the requests, the sink, the database and the faults keeps it.
LEMMA NextInvariant == Invariant /\ [Next]_vars => Invariant'
<1> SUFFICES ASSUME Invariant, [Next]_vars PROVE Invariant'
    OBVIOUS
<1>1. SinkProofs!Invariant'
    BY SinkStep
<1>2. Types'
    BY <1>1, TypesStep
<1>3. NothingUnderWay'
    BY NothingUnderWayStep
<1>4. \A r \in Requests : Told(r)'
    BY ToldStep
<1> QED
    BY <1>1, <1>2, <1>3, <1>4 DEF Invariant

\* The inductive invariant of the server: what its requests, their calls of the sink, the events
\* and the rows of the audit log have to do with each other, over faults and restarts.
THEOREM InvariantHolds == Spec => []Invariant
<1>1. Init => Invariant
    BY InitInvariant
<1>2. Invariant /\ [Next]_vars => Invariant'
    BY NextInvariant
<1> QED
    BY <1>1, <1>2, PTL DEF Spec
-----------------------------------------------------------------------------
(* What the invariant says to callers and readers of the audit log.        *)

\* A row says what came of its request.
LEMMA RowSays ==
    ASSUME Invariant, NEW r \in Requests, rows[r] # NoRow
    PROVE  /\ trace[r] \in PipelineTraces
           /\ rows[r] = Event(r, trace[r], outcome[r]).content
           /\ Approved(r) <=> outcome[r] # "none"
<1>1. [id |-> r, content |-> rows[r]] \in asked
    BY DEF Invariant, SinkProofs!Invariant, SinkProofs!RowsWereAsked
<1> QED
    BY <1>1 DEF Invariant, Told, Recording

\* The state always has its type.
THEOREM TypeCorrect == Spec => []TypeOK
<1>1. Invariant => TypeOK
    BY DEF Invariant, Types
<1> QED
    BY <1>1, InvariantHolds, PTL

\* A row is true of the warehouse, whoever stored it and whatever its caller was told.
THEOREM AuditLogIsTrue == Spec => []RecordsAreTrue
<1>1. Invariant => RecordsAreTrue
    <2> SUFFICES ASSUME Invariant, NEW r \in Requests, rows[r] # NoRow
                 PROVE  /\ rows[r].decision = "allowed" =>
                                rows[r].dryRun # (ran[r] /\ outcome[r] = "rows")
                        /\ rows[r].decision = "failed" => outcome[r] \in {"error", "crash"}
                        /\ rows[r].decision = "refused" \/ rows[r].dryRun => ~ran[r]
        BY DEF RecordsAreTrue
    <2>0. rows[r] = Event(r, trace[r], outcome[r]).content /\ (Approved(r) <=> outcome[r] # "none")
        BY RowSays
    <2>1. /\ rows[r].dryRun = query[r].dryRun
          /\ rows[r].decision = IF ~Allowed(trace[r]) THEN "refused"
                                ELSE IF outcome[r] \in {"error", "crash"} THEN "failed" ELSE "allowed"
        BY <2>0, EventSays
    <2> USE DEF Invariant, Types, TypeOK, Told
    <2>2. Outcome(r)
        OBVIOUS
    <2>3. outcome[r] \in {"none", "rows", "error", "crash"} /\ query[r].dryRun \in BOOLEAN
        OBVIOUS
    <2>4. trace[r] \in PipelineTraces
        BY RowSays
    <2> QED
        BY <2>0, <2>1, <2>2, <2>3, <2>4 DEF Outcome, Approved
<1> QED
    BY <1>1, InvariantHolds, PTL

\* The answers that say nothing, the one that is recorded, and the one that is withheld.
SaysNothing(a) == ~a.result /\ ~a.error /\ ~a.auditId /\ ~a.sql

AnswersRecord(r) == LET a == answer[r] IN
    /\ a.kind = "outcome" /\ a.trace = trace[r] /\ a.auditId /\ a.claim = "none"
    /\ a.result = (outcome[r] = "rows") /\ a.error = (outcome[r] = "error")
    /\ a.sql = Allowed(trace[r])
    /\ trace[r] \in PipelineTraces /\ outcome[r] # "crash"
    /\ rows[r] = Event(r, trace[r], outcome[r]).content

AnswersWithheld(r) == LET a == answer[r] IN
    /\ a.kind = "outcome" /\ a.trace = Withheld(trace[r]) /\ SaysNothing(a)
    /\ trace[r] \in PipelineTraces
    /\ a.claim \in {"not run", "nothing returned"} => ~ran[r]
    /\ a.claim = "not run" => Unasked(r)

\* Every answer is one of them.
LEMMA AnswerCases ==
    ASSUME Invariant, NEW r \in Requests
    PROVE  \/ /\ answer[r].kind \in {"none", "raised", "lost"}
              /\ SaysNothing(answer[r]) /\ answer[r].claim = "none"
           \/ AnswersRecord(r)
           \/ AnswersWithheld(r)
<1>1. CASE answer[r] \in {NoAnswer, Raised, Lost}
    BY <1>1 DEF NoAnswer, Raised, Lost, SaysNothing
<1>2. CASE /\ answer[r] = RecordedAnswer(r)
           /\ trace[r] \in PipelineTraces /\ outcome[r] # "crash"
           /\ rows[r] = Event(r, trace[r], outcome[r]).content
    BY <1>2 DEF RecordedAnswer, AnswersRecord
<1>3. ASSUME NEW claim \in {"not run", "ran", "nothing returned"},
             answer[r] = WithheldAnswer(r, claim),
             trace[r] \in PipelineTraces,
             claim = "nothing returned" => ~ran[r],
             claim = "not run" => ~ran[r] /\ Unasked(r)
      PROVE  AnswersWithheld(r)
    <2>1. /\ answer[r].kind = "outcome" /\ answer[r].trace = Withheld(trace[r])
          /\ answer[r].claim = claim /\ SaysNothing(answer[r])
        BY <1>3 DEF WithheldAnswer, NoAnswer, SaysNothing
    <2> QED
        BY <1>3, <2>1 DEF AnswersWithheld
<1>4. Answered(r)
    BY DEF Invariant, Told
<1>5. CASE answer[r] \notin {NoAnswer, Raised, Lost}
    BY <1>2, <1>3, <1>4, <1>5 DEF Answered
<1> QED
    BY <1>1, <1>5

\* Nothing of a request is returned before its row is there, and the row says the same.
THEOREM RecordedBeforeReturned == Spec => []ReturnedIsRecorded
<1>1. Invariant => ReturnedIsRecorded
    <2> SUFFICES ASSUME Invariant, NEW r \in Requests
                 PROVE  /\ answer[r].result \/ answer[r].error => answer[r].auditId
                        /\ answer[r].auditId =>
                            /\ rows[r] # NoRow
                            /\ rows[r].code = RefusedBy(answer[r].trace)
                            /\ rows[r].rowsReturned = answer[r].result
                            /\ (rows[r].decision = "failed") = answer[r].error
                            /\ rows[r].dryRun = query[r].dryRun
        BY DEF ReturnedIsRecorded
    <2>1. CASE ~answer[r].auditId
        BY <2>1, AnswerCases DEF AnswersRecord, AnswersWithheld, SaysNothing
    <2>2. CASE answer[r].auditId
        <3>1. AnswersRecord(r)
            BY <2>2, AnswerCases DEF AnswersWithheld, SaysNothing
        <3>2. rows[r] # NoRow
            BY <3>1, EventHasRow DEF AnswersRecord, Invariant
        <3>3. outcome[r] = "error" => Allowed(trace[r])
            BY DEF Invariant, Told, Outcome, Approved
        <3>4. /\ rows[r].decision = IF ~Allowed(trace[r]) THEN "refused"
                                ELSE IF outcome[r] \in {"error", "crash"} THEN "failed" ELSE "allowed"
              /\ rows[r].dryRun = query[r].dryRun
              /\ rows[r].code = RefusedBy(trace[r])
              /\ rows[r].rowsReturned = (outcome[r] = "rows")
            BY <3>1, EventSays DEF AnswersRecord
        <3> QED
            BY <2>2, <3>1, <3>2, <3>3, <3>4 DEF AnswersRecord
    <2> QED
        BY <2>1, <2>2
<1> QED
    BY <1>1, InvariantHolds, PTL

\* A caller told that its query was not run is told the truth, then and later.
THEOREM NotRunIsTheTruth == Spec => []NotRunIsNotRun
<1>1. Invariant => NotRunIsNotRun
    <2> SUFFICES ASSUME Invariant, NEW r \in Requests,
                        answer[r].claim \in {"not run", "nothing returned"}
                 PROVE  /\ ~ran[r]
                        /\ answer[r].claim = "not run" => rows[r] = NoRow /\ \A e \in orphans : e.id # r
        BY DEF NotRunIsNotRun
    <2>1. ~ran[r] /\ (answer[r].claim = "not run" => Unasked(r))
        BY AnswerCases DEF AnswersRecord, AnswersWithheld
    <2>2. Unasked(r) => rows[r] = NoRow
        <3> SUFFICES ASSUME rows[r] # NoRow PROVE ~Unasked(r)
            OBVIOUS
        <3>1. [id |-> r, content |-> rows[r]] \in asked
            BY DEF Invariant, SinkProofs!Invariant, SinkProofs!RowsWereAsked
        <3> QED
            BY <3>1 DEF Unasked
    <2>3. Unasked(r) => \A e \in orphans : e.id # r
        BY DEF Unasked, Invariant, SinkProofs!Invariant, SinkProofs!TypeOK
    <2> QED
        BY <2>1, <2>2, <2>3
<1> QED
    BY <1>1, InvariantHolds, PTL

\* An answer without an audit_id is a refusal of the audit log, with nothing of the result.
THEOREM WithheldSaysSo == Spec => []UnrecordedIsWithheld
<1>1. Invariant => UnrecordedIsWithheld
    <2> SUFFICES ASSUME Invariant, NEW r \in Requests,
                        answer[r].kind = "outcome", ~answer[r].auditId
                 PROVE  /\ RefusedBy(answer[r].trace) = "AUDIT_UNAVAILABLE"
                        /\ ~answer[r].result /\ ~answer[r].error
        BY DEF UnrecordedIsWithheld
    <2>1. AnswersWithheld(r)
        BY AnswerCases DEF AnswersRecord
    <2> QED
        BY <2>1, WithheldVerdict DEF AnswersWithheld, SaysNothing
<1> QED
    BY <1>1, InvariantHolds, PTL

\* A request that ends in an exception after the warehouse had its query was handed to the audit
\* log as a failure.
THEOREM CrashesAreRecorded == Spec => []ExceptionsLeaveARecord
<1>1. Invariant => ExceptionsLeaveARecord
    <2> SUFFICES ASSUME Invariant, NEW r \in Requests, answer[r].kind = "raised", ran[r]
                 PROVE  LeftARecord(r)
        BY DEF ExceptionsLeaveARecord, LeftARecord
    <2>1. Answered(r)
        BY DEF Invariant, Told
    <2>2. /\ NoAnswer.kind # "raised" /\ Lost.kind # "raised" /\ RecordedAnswer(r).kind # "raised"
          /\ \A claim : WithheldAnswer(r, claim).kind # "raised"
        BY DEF NoAnswer, Lost, RecordedAnswer, WithheldAnswer
    <2> QED
        BY <2>1, <2>2 DEF Answered
<1> QED
    BY <1>1, InvariantHolds, PTL

\* An exception is an error of both interfaces, and its exit status no refusal's.
LEMMA RaisedIsError ==
    ASSUME NEW a, NEW dryRun, a.kind = "raised"
    PROVE  ExitCode(a, dryRun) = EXIT_ERROR /\ IsError(a, dryRun)
BY DEF ExitCode, IsError

\* The exit statuses are told apart.
LEMMA ExitStatuses == EXIT_ERROR # 0 /\ EXIT_REFUSED # 0 /\ EXIT_ERROR # EXIT_REFUSED
BY DEF EXIT_ERROR, EXIT_REFUSED

\* What the interfaces make of a refusal of the audit log.
LEMMA WithheldIsShown ==
    ASSUME NEW r \in Requests, AnswersWithheld(r), NEW dryRun
    PROVE  /\ RefusedBy(answer[r].trace) = "AUDIT_UNAVAILABLE" /\ ~Allowed(answer[r].trace)
           /\ ExitCode(answer[r], dryRun) = EXIT_REFUSED
           /\ IsError(answer[r], dryRun)
<1>1. RefusedBy(answer[r].trace) = "AUDIT_UNAVAILABLE" /\ ~Allowed(answer[r].trace)
    BY WithheldVerdict DEF AnswersWithheld, Allowed, Passed
<1>2. /\ answer[r].kind = "outcome" /\ ~answer[r].result /\ ~answer[r].error /\ ~answer[r].auditId
    BY DEF AnswersWithheld, SaysNothing
<1>3. IsError(answer[r], dryRun)
    BY <1>2 DEF IsError
<1>4. ExitCode(answer[r], dryRun) = EXIT_REFUSED
    BY <1>1, <1>2 DEF ExitCode
<1> QED
    BY <1>1, <1>3, <1>4

\* What they make of a recorded answer.
LEMMA RecordIsShown ==
    ASSUME Invariant, NEW r \in Requests, AnswersRecord(r)
    PROVE  LET a == answer[r]
               dryRun == query[r].dryRun
           IN  /\ RefusedBy(a.trace) # "AUDIT_UNAVAILABLE" /\ (a.sql <=> Allowed(a.trace))
               /\ ExitCode(a, dryRun) = EXIT_REFUSED <=> ~Allowed(a.trace)
               /\ RefusedByCheck(a.trace) => ExitCode(a, dryRun) = EXIT_REFUSED
               /\ a.error => ExitCode(a, dryRun) = EXIT_ERROR
               /\ ExitCode(a, dryRun) = 0 <=> Allowed(a.trace) /\ ~a.error
               /\ dryRun => ~IsError(a, dryRun)
               /\ ~dryRun => /\ IsError(a, dryRun) <=> ExitCode(a, dryRun) # 0
                             /\ ~Allowed(a.trace) <=> ~(a.result \/ a.error)
<1>1. /\ answer[r].kind = "outcome" /\ answer[r].auditId /\ answer[r].trace = trace[r]
      /\ answer[r].sql <=> Allowed(trace[r])
      /\ answer[r].result <=> outcome[r] = "rows"
      /\ answer[r].error <=> outcome[r] = "error"
    BY DEF AnswersRecord
<1>2. RefusedBy(trace[r]) # "AUDIT_UNAVAILABLE"
    BY PipelineVerdict DEF AnswersRecord, Passed
<1>3. Approved(r) <=> outcome[r] # "none"
    BY RowSays, EventHasRow DEF AnswersRecord, Invariant
<1>4. outcome[r] \in {"none", "rows", "error"}
    BY DEF AnswersRecord, Invariant, Types, TypeOK
<1>5. RefusedByCheck(trace[r]) <=> ~Allowed(trace[r])
    BY CheckVerdict DEF AnswersRecord
<1>6. CASE query[r].dryRun
    <2>1. ExitCode(answer[r], query[r].dryRun) = IF Allowed(trace[r]) THEN 0 ELSE EXIT_REFUSED
        BY <1>1, <1>6 DEF ExitCode
    <2>2. ~IsError(answer[r], query[r].dryRun)
        BY <1>1, <1>6 DEF IsError
    <2>3. ~answer[r].error
        BY <1>1, <1>3, <1>6 DEF Approved
    <2> QED
        BY <1>1, <1>2, <1>5, <1>6, <2>1, <2>2, <2>3, ExitStatuses
<1>7. CASE ~query[r].dryRun
    <2>1. Allowed(trace[r]) <=> outcome[r] # "none"
        BY <1>3, <1>7 DEF Approved, AnswersRecord
    <2>2. ExitCode(answer[r], query[r].dryRun)
            = IF outcome[r] = "error" THEN EXIT_ERROR
              ELSE IF outcome[r] = "none" THEN EXIT_REFUSED ELSE 0
        BY <1>1, <1>4, <1>7 DEF ExitCode
    <2>3. IsError(answer[r], query[r].dryRun) <=> outcome[r] # "rows"
        BY <1>1, <1>7 DEF IsError
    <2> QED
        BY <1>1, <1>2, <1>4, <1>5, <1>7, <2>1, <2>2, <2>3, ExitStatuses
<1> QED
    BY <1>6, <1>7

\* A script and an agent that ask the same are told the same: what a check refused exits with 2,
\* a failure of the database with 1, a refusal shows no SQL, and the tool's result is an error
\* exactly when the exit status is not 0.
THEOREM ScriptsAndAgentsAgree == Spec => []InterfacesAgree
<1>1. Invariant => InterfacesAgree
    <2> SUFFICES ASSUME Invariant, NEW r \in Requests
                 PROVE  LET a == answer[r]
                            dryRun == query[r].dryRun
                            exit == ExitCode(a, dryRun)
                            isError == IsError(a, dryRun)
                        IN  /\ a.kind = "raised" => exit = EXIT_ERROR /\ isError
                            /\ a.kind = "outcome" =>
                                /\ a.sql = ~ (~Allowed(a.trace))
                                /\ RefusedByCheck(a.trace) => exit = EXIT_REFUSED
                                /\ a.error => exit = EXIT_ERROR
                                /\ (exit = 0) = ~((~Allowed(a.trace)) \/ a.error)
                                /\ IF dryRun
                                   THEN isError = (RefusedBy(a.trace) = "AUDIT_UNAVAILABLE")
                                   ELSE /\ isError = (exit # 0)
                                        /\ (~Allowed(a.trace)) = ~(a.result \/ a.error)
        BY DEF InterfacesAgree, Response
    <2>1. answer[r].sql \in BOOLEAN /\ IsError(answer[r], query[r].dryRun) \in BOOLEAN
        BY DEF IsError, Invariant, Types, TypeOK
    <2>2. CASE answer[r].kind # "outcome"
        BY <2>2, RaisedIsError
    <2>3. CASE AnswersWithheld(r)
        <3>1. ~answer[r].sql /\ ~answer[r].result /\ ~answer[r].error /\ answer[r].kind = "outcome"
            BY <2>3 DEF AnswersWithheld, SaysNothing
        <3> QED
            BY <2>1, <2>3, <3>1, WithheldIsShown, ExitStatuses
    <2>4. CASE AnswersRecord(r)
        <3>1. answer[r].kind = "outcome"
            BY <2>4 DEF AnswersRecord
        <3> QED
            BY <2>1, <2>4, <3>1, RecordIsShown
    <2> QED
        BY <2>2, <2>3, <2>4, AnswerCases
<1> QED
    BY <1>1, InvariantHolds, PTL
-----------------------------------------------------------------------------
(* The server keeps the promise of Gate.                                   *)

record == [r \in Requests |-> Says(rows[r])]
given == [r \in Requests |-> Given(r)]

\* Who has had nothing yet, and who gets nothing for an answer.
LEMMA NoAnswerYet ==
    ASSUME Invariant, NEW r \in Requests, phase[r] # "answered"
    PROVE  Given(r) = "no answer"
BY DEF Invariant, Told, Beginning, Given, NoAnswer

\* What a caller has got does not change while its answer does not.
LEMMA GivenStays ==
    ASSUME NEW r \in Requests, answer'[r] = answer[r],
           phase'[r] = "answered" <=> phase[r] = "answered"
    PROVE  Given(r)' = Given(r)
BY DEF Given

\* A step that neither runs, records nor answers anything is none of Gate's.
LEMMA Stutter ==
    ASSUME ran' = ran, rows' = rows, \A r \in Requests : Given(r)' = Given(r)
    PROVE  UNCHANGED Promise!vars
<1>1. record' = record /\ given' = given
    BY DEF record, given
<1> QED
    BY <1>1 DEF record, given, Promise!vars

\* Some requests are answered with nothing.
LEMMA WithholdRefines ==
    ASSUME NEW requests \in SUBSET Requests, ran' = ran, rows' = rows,
           \A r \in requests : Given(r) = "no answer" /\ Given(r)' = "nothing",
           \A r \in Requests \ requests : Given(r)' = Given(r)
    PROVE  Promise!Next
<1>1. record' = record
    BY DEF record
<1>2. given' = [r \in Requests |-> IF r \in requests THEN "nothing" ELSE given[r]]
    BY DEF given
<1>3. \A r \in requests : given[r] = "no answer"
    BY DEF given
<1>4. Promise!Withhold(requests)
    BY <1>1, <1>2, <1>3 DEF record, given, Promise!Withhold
<1> QED
    BY <1>4 DEF Promise!Next

\* An event that becomes a row is a record, and a true one, of a request that had none.
LEMMA WriteRefines ==
    ASSUME Invariant, NEW e \in asked, rows[e.id] = NoRow,
           rows' = [rows EXCEPT ![e.id] = e.content], ran' = ran,
           \A r \in Requests : Given(r)' = Given(r)
    PROVE  Promise!Next
<1> DEFINE r == e.id
<1>1. r \in Requests /\ e.content \in AuditRows
    BY DEF Invariant, SinkProofs!Invariant, SinkProofs!TypeOK, SinkProofs!Events
<1>2. /\ trace[r] \in PipelineTraces /\ e.content = Event(r, trace[r], outcome[r]).content
      /\ Approved(r) <=> outcome[r] # "none"
    BY <1>1 DEF Invariant, Told, Recording
<1> HIDE DEF r
<1>3. /\ e.content.decision = IF ~Allowed(trace[r]) THEN "refused"
                              ELSE IF outcome[r] \in {"error", "crash"} THEN "failed" ELSE "allowed"
      /\ e.content.dryRun = query[r].dryRun
    BY <1>1, <1>2, EventSays
<1>4. /\ ran[r] \/ outcome[r] # "none" => Approved(r)
      /\ outcome[r] = "rows" => ran[r]
      /\ outcome[r] \in {"none", "rows", "error", "crash"}
    BY <1>1 DEF Invariant, Types, TypeOK, Told, Outcome
<1>5. e.content # NoRow
    BY <1>1, WardenAssumption
<1>6. Says(e.content) \in {"failed", IF ran[r] THEN "ran" ELSE "not run"}
    <2>1. CASE Approved(r)
        <3>1. /\ ~query[r].dryRun /\ Allowed(trace[r])
              /\ outcome[r] \in {"rows", "error", "crash"}
            BY <1>2, <1>4, <2>1 DEF Approved
        <3>2. ~e.content.dryRun /\ e.content.decision # "refused"
            BY <1>3, <3>1
        <3>3. e.content.decision = "allowed" => ran[r]
            BY <1>3, <1>4, <3>1
        <3> QED
            BY <1>5, <3>2, <3>3 DEF Says
    <2>2. CASE ~Approved(r)
        <3>1. ~ran[r] /\ (e.content.dryRun \/ e.content.decision = "refused")
            BY <1>2, <1>3, <1>4, <2>2 DEF Approved
        <3> QED
            BY <1>5, <3>1 DEF Says
    <2> QED
        BY <2>1, <2>2
<1>7. record' = [record EXCEPT ![r] = Says(e.content)] /\ given' = given
    BY <1>1 DEF record, given, r, Invariant, SinkProofs!Invariant, SinkProofs!TypeOK
<1>8. record[r] = "none"
    BY <1>1 DEF record, r, Says
<1>9. Promise!Write(r)
    BY <1>6, <1>7, <1>8 DEF record, given, Promise!Write
<1> QED
    BY <1>1, <1>9 DEF Promise!Next

\* A query that runs has no record yet, and its caller no answer.
LEMMA ReachRefines ==
    ASSUME Invariant, NEW r \in Requests, Reach(r)
    PROVE  Promise!Next
<1>1. rows' = rows /\ ran' = [ran EXCEPT ![r] = TRUE] /\ ~ran[r]
    BY DEF Reach, sinkVars
<1>2. \A u \in Requests : Given(u)' = Given(u)
    BY DEF Reach, Given
<1>3. record' = record /\ given' = given
    BY <1>1, <1>2 DEF record, given
<1>4. rows[r] = NoRow
    <2> SUFFICES ASSUME rows[r] # NoRow PROVE FALSE
        OBVIOUS
    <2>1. [id |-> r, content |-> rows[r]] \in asked
        BY DEF Invariant, SinkProofs!Invariant, SinkProofs!RowsWereAsked
    <2>2. Unasked(r)
        BY DEF Invariant, Told, Beginning, Reach
    <2> QED
        BY <2>1, <2>2 DEF Unasked
<1>5. record[r] = "none" /\ given[r] = "no answer"
    BY <1>4, NoAnswerYet DEF record, given, Says, Reach
<1>6. Promise!Run(r)
    BY <1>1, <1>3, <1>5 DEF record, given, Promise!Run
<1> QED
    BY <1>6 DEF Promise!Next

\* A new server has run, recorded and answered nothing.
LEMMA InitRefines == Init => Promise!Init
<1> SUFFICES ASSUME Init PROVE Promise!Init
    OBVIOUS
<1>1. \A r \in Requests : Says(rows[r]) = "none" /\ Given(r) = "no answer"
    BY DEF Init, Says, Given, NoAnswer
<1> QED
    BY <1>1 DEF Init, Promise!Init

\* An answer that says nothing, to a caller that had none.
LEMMA AnswerRefines ==
    ASSUME Invariant, NEW r \in Requests, phase[r] # "answered", NEW a, Answer(r, a),
           SaysNothing(a), ran' = ran, rows' = rows
    PROVE  Promise!Next
<1>1. Given(r) = "no answer"
    BY NoAnswerYet
<1>2. phase'[r] = "answered" /\ answer'[r] = a
    BY DEF Answer, Invariant, Types, TypeOK
<1>3. Given(r)' = "nothing"
    BY <1>2 DEF Given, SaysNothing
<1>4. ASSUME NEW u \in Requests \ {r} PROVE Given(u)' = Given(u)
    BY GivenStays DEF Answer, Invariant, Types, TypeOK
<1> QED
    BY <1>1, <1>3, <1>4, WithholdRefines

\* Withheld answers and exceptions say nothing.
LEMMA NothingSaid ==
    /\ SaysNothing(Raised)
    /\ \A steps, claim :
        SaysNothing([NoAnswer EXCEPT !.kind = "outcome", !.trace = steps, !.claim = claim])
BY DEF SaysNothing, Raised, NoAnswer

\* An answer that is recorded follows its record.
LEMMA RecordedRefines ==
    ASSUME Invariant, NEW r \in Requests, Recorded(r)
    PROVE  Promise!Next
<1>1. ran' = ran /\ rows' = rows /\ phase[r] # "answered"
    BY ReturnLeaves DEF Recorded
<1>2. CASE outcome[r] = "crash"
    BY <1>1, <1>2, AnswerRefines, NothingSaid DEF Recorded
<1>3. CASE outcome[r] # "crash"
    <2>1. answer'[r].auditId
        BY <1>3 DEF Recorded, Answer, Invariant, Types
    <2>2. rows'[r] # NoRow
        <3>1. trace[r] \in PipelineTraces
            BY RecordingIsAsked DEF Recorded
        <3> QED
            BY <1>1, <3>1, RecordedIsStored, EventHasRow DEF Invariant
    <2>3. Given(r)' = "answer"
        BY <2>1 DEF Given
    <2>4. Given(r) = "no answer"
        BY <1>1, NoAnswerYet
    <2>5. ASSUME NEW u \in Requests \ {r} PROVE Given(u)' = Given(u)
        <3>1. answer'[u] = answer[u] /\ phase'[u] = phase[u]
            BY DEF Recorded, Answer, Invariant, Types, TypeOK
        <3> QED
            BY <3>1, GivenStays
    <2>6. record[r] # "none"
        BY <1>1, <2>2 DEF record, Says
    <2>7. record' = record /\ given' = [given EXCEPT ![r] = "answer"]
        BY <1>1, <2>3, <2>5 DEF record, given
    <2>8. given[r] = "no answer"
        BY <2>4 DEF given
    <2>9. Promise!Answer(r)
        BY <1>1, <2>6, <2>7, <2>8 DEF record, given, Promise!Answer
    <2> QED
        BY <2>9 DEF Promise!Next
<1> QED
    BY <1>2, <1>3

\* Every step of the server is one that Gate allows, or none of Gate's.
LEMMA NextRefines == Invariant /\ [Next]_vars => [Promise!Next]_Promise!vars
<1> SUFFICES ASSUME Invariant, [Next]_vars PROVE [Promise!Next]_Promise!vars
    OBVIOUS
<1>1. ASSUME NEW r \in Requests, DecideToRecord(r) \/ DecideToPing(r) \/ PingOk(r) \/ ExecuteEnds(r)
      PROVE  UNCHANGED Promise!vars
    <2>1. ran' = ran /\ rows' = rows /\ answer' = answer
        BY <1>1 DEF DecideToRecord, DecideToPing, PingOk, ExecuteEnds, Record, Sink!EnterRecord,
                    Sink!EnterPing, Sink!Enter, Sink!Return, Sink!dbVars
    <2>2. PICK p \in {"recording", "pinging", "executing"} : phase' = [phase EXCEPT ![r] = p]
        BY <1>1 DEF DecideToRecord, DecideToPing, PingOk, ExecuteEnds, Record
    <2>3. phase[r] # "answered"
        BY <1>1 DEF DecideToRecord, DecideToPing, PingOk, ExecuteEnds
    <2>4. ASSUME NEW u \in Requests PROVE Given(u)' = Given(u)
        BY <2>1, <2>2, <2>3, GivenStays DEF Invariant, Types, TypeOK
    <2> QED
        BY <2>1, <2>4, Stutter
<1>2. ASSUME NEW r \in Requests, RegenerateFails(r) PROVE Promise!Next
    BY <1>2, AnswerRefines, NothingSaid DEF RegenerateFails, sinkVars
<1>3. ASSUME NEW r \in Requests, PingFails(r) PROVE Promise!Next
    BY <1>3, AnswerRefines, NothingSaid, ReturnLeaves DEF PingFails
<1>4. ASSUME NEW r \in Requests, NotRecorded(r) PROVE Promise!Next
    <2>1. ran' = ran /\ rows' = rows /\ phase[r] # "answered"
        BY <1>4, ReturnLeaves DEF NotRecorded
    <2> QED
        BY <1>4, <2>1, AnswerRefines, NothingSaid DEF NotRecorded
<1>5. CASE Kill
    <2> DEFINE requests == {r \in Requests : InProgress(r)}
    <2>1. ran' = ran /\ rows' = rows
        BY <1>5 DEF Kill, Sink!Crash
    <2>2. ASSUME NEW r \in requests PROVE Given(r) = "no answer" /\ Given(r)' = "nothing"
        <3>1. Given(r) = "no answer"
            BY NoAnswerYet DEF InProgress
        <3>2. phase'[r] = "answered" /\ answer'[r] = Lost
            BY <1>5 DEF Kill
        <3> QED
            BY <3>1, <3>2 DEF Given, Lost, NoAnswer
    <2>3. ASSUME NEW r \in Requests \ requests PROVE Given(r)' = Given(r)
        BY <1>5, GivenStays DEF Kill
    <2> QED
        BY <2>1, <2>2, <2>3, WithholdRefines
<1>6. CASE Start
    BY <1>6, Stutter, GivenStays DEF Start, requestVars
<1>7. CASE Quiet
    <2>1. UNCHANGED <<ran, answer, phase>>
        BY <1>7 DEF Quiet, wardenVars, requestVars
    <2>2. \A r \in Requests : Given(r)' = Given(r)
        BY <2>1, GivenStays
    <2>3. rows' = rows \/ \E e \in asked : rows[e.id] = NoRow /\ rows' = [rows EXCEPT ![e.id] = e.content]
        BY <1>7, SinkWorks DEF Quiet, Invariant
    <2> QED
        BY <2>1, <2>2, <2>3, Stutter, WriteRefines
<1> QED
    BY <1>1, <1>2, <1>3, <1>4, <1>5, <1>6, <1>7, ReachRefines, RecordedRefines
       DEF Next, Handle, Attempt, Serve, Environment, Finished, Quiet, vars, wardenVars

\* Every behaviour of the server, with its retries, late INSERTs, faults and restarts, is one
\* that Gate allows: checked before it runs, run at most once, recorded before it is returned.
THEOREM WardenImplementsGate == Spec => ImplementsGate
<1>1. Init => Promise!Init
    BY InitRefines
<1>2. Invariant /\ [Next]_vars => [Promise!Next]_Promise!vars
    BY NextRefines
<1> QED
    BY <1>1, <1>2, InvariantHolds, PTL DEF Spec, ImplementsGate, Promise!Spec
=============================================================================
