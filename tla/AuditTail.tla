----------------------------- MODULE AuditTail -----------------------------
(***************************************************************************)
(* `sql-warden audit tail --follow` (cli.py, audit/reader.py) against the  *)
(* servers that write the audit log.  A server stamps an event when its    *)
(* request finishes and inserts it later, perhaps after an event stamped   *)
(* later; tail prints the most recent events, then polls for those stamped *)
(* since FOLLOW_LOOKBACK before the newest it printed.  The clock is that   *)
(* of tail's machine; a server's may be Skew before or behind it.          *)
(***************************************************************************)
EXTENDS Integers, FiniteSets

CONSTANTS
    Events,    \* the events of the audit log
    Wanted,    \* those that --decision lets through
    Limit,     \* --lines
    Lookback,  \* FOLLOW_LOOKBACK, in ticks of the clock
    Skew,      \* how far a server's clock may be from tail's
    MaxTime    \* bound on the clock

ASSUME TailAssumption ==
    /\ Wanted \subseteq Events
    /\ Limit \in Nat \ {0} /\ Lookback \in Nat /\ Skew \in Nat /\ MaxTime \in Nat

VARIABLES
    now,         \* the clock of tail's machine
    ts,          \* the time of each event that has one
    recorded,    \* the events in the audit log
    recordedAt,  \* history: when they got there
    pc,          \* the next step of tail
    newest,      \* start, then newest
    seen,        \* the ids of seen
    printed,     \* history: how often each event was printed
    atRecent,    \* history: the log as recent() found it,
    atSeed,      \* ... as the first since() did,
    atPoll       \* ... and as the last poll did

world == <<now, ts, recorded, recordedAt>>
history == <<atRecent, atSeed, atPoll>>
tail == <<pc, newest, seen, printed, history>>
vars == <<world, tail>>

NotYet == -1

Init ==
    /\ now = Skew  \* so that no time is before 0
    /\ ts = [e \in Events |-> NotYet]
    /\ recorded = {}
    /\ recordedAt = [e \in Events |-> NotYet]
    /\ pc = "recent"
    /\ newest = 0
    /\ seen = {}
    /\ printed = [e \in Events |-> 0]
    /\ atRecent = {} /\ atSeed = {} /\ atPoll = {}
-----------------------------------------------------------------------------
(* The servers, and time.                                                  *)

Tick == now < MaxTime /\ now' = now + 1 /\ UNCHANGED <<ts, recorded, recordedAt, tail>>

\* A request finishes: its event gets the time of the server's clock.
Stamp(e) ==
    /\ ts[e] = NotYet
    /\ \E time \in now - Skew .. now + Skew : ts' = [ts EXCEPT ![e] = time]
    /\ UNCHANGED <<now, recorded, recordedAt, tail>>

\* The sink's INSERT commits.
Insert(e) ==
    /\ ts[e] # NotYet /\ e \notin recorded
    /\ recorded' = recorded \cup {e}
    /\ recordedAt' = [recordedAt EXCEPT ![e] = now]
    /\ UNCHANGED <<now, ts, tail>>
-----------------------------------------------------------------------------
(* tail.                                                                   *)

Emit(events) == printed' = [e \in Events |-> printed[e] + IF e \in events THEN 1 ELSE 0]

\* reader.since(): events at or after the time.
Since(time) == {e \in recorded : ts[e] >= time}

\* reader.recent(): the last Limit events by their time, which are printed.
Recent(events) ==
    /\ events \subseteq recorded \cap Wanted
    /\ Cardinality(events) = Limit \/ (Cardinality(events) < Limit /\ events = recorded \cap Wanted)
    /\ \A e \in events, other \in (recorded \cap Wanted) \ events : ts[other] <= ts[e]

PrintRecent ==
    /\ pc = "recent"
    /\ \E events \in SUBSET Events :
        /\ Recent(events)
        /\ Emit(events)
        /\ seen' = events
    /\ atRecent' = recorded
    /\ pc' = "start"
    /\ UNCHANGED <<newest, atSeed, atPoll, world>>

\* Mutant of Start: the look-back is added to the clock.
StartAhead ==
    /\ pc = "start"
    /\ newest' = now + Lookback
    /\ pc' = "seed"
    /\ UNCHANGED <<seen, printed, history, world>>

\* start: the latest of the clock and of the times printed, which a server's clock may put
\* ahead of it.
Start ==
    /\ pc = "start"
    /\ LET times == {now} \cup {ts[e] : e \in seen}
       IN  newest' \in {time \in times : \A other \in times : other <= time}
    /\ pc' = "seed"
    /\ UNCHANGED <<seen, printed, history, world>>

\* "Everything already in the window counts as printed."
Seed ==
    /\ pc = "seed"
    /\ seen' = seen \cup Since(newest - Lookback)
    /\ atSeed' = recorded
    /\ pc' = "follow"
    /\ UNCHANGED <<newest, printed, atRecent, atPoll, world>>

\* Mutants of Poll: an id at the edge of the window is forgotten, or the window follows the
\* clock instead of the events.
PollForgetsEdge ==
    /\ pc = "follow"
    /\ LET found == (Since(newest - Lookback) \cap Wanted) \ seen
           times == {newest} \cup {ts[e] : e \in found}
       IN  \E latest \in times :
            /\ \A time \in times : time <= latest
            /\ Emit(found)
            /\ newest' = latest
            /\ seen' = {e \in seen \cup found : ts[e] > latest - Lookback}
    /\ atPoll' = recorded
    /\ UNCHANGED <<pc, atRecent, atSeed, world>>

PollByClock ==
    /\ pc = "follow"
    /\ LET found == (Since(now - Lookback) \cap Wanted) \ seen
       IN  /\ Emit(found)
           /\ newest' = now
           /\ seen' = {e \in seen \cup found : ts[e] >= now - Lookback}
    /\ atPoll' = recorded
    /\ UNCHANGED <<pc, atRecent, atSeed, world>>

\* One turn of the loop: print what is new in the window, move the window, and prune seen.
Poll ==
    /\ pc = "follow"
    /\ LET found == (Since(newest - Lookback) \cap Wanted) \ seen
           times == {newest} \cup {ts[e] : e \in found}
       IN  \E latest \in times :
            /\ \A time \in times : time <= latest
            /\ Emit(found)
            /\ newest' = latest
            /\ seen' = {e \in seen \cup found : ts[e] >= latest - Lookback}
    /\ atPoll' = recorded
    /\ UNCHANGED <<pc, atRecent, atSeed, world>>

\* Ctrl+C, an AuditError, or no --follow.
Stop ==
    /\ pc # "recent" /\ pc # "over"
    /\ pc' = "over"
    /\ UNCHANGED <<newest, seen, printed, history, world>>

Tail == PrintRecent \/ Start \/ Seed \/ Poll \/ Stop

Next == Tick \/ (\E e \in Events : Stamp(e) \/ Insert(e)) \/ Tail

Spec == Init /\ [][Next]_vars

\* The loop polls every FOLLOW_INTERVAL_S for as long as it runs.
FairSpec == Spec /\ WF_vars(Poll)
-----------------------------------------------------------------------------
(* Properties.                                                             *)

\* The type of tail's state.
TypeOK ==
    /\ now \in Nat
    /\ ts \in [Events -> Nat \cup {NotYet}]
    /\ recorded \subseteq {e \in Events : ts[e] # NotYet}
    /\ recordedAt \in [Events -> Nat \cup {NotYet}]
    /\ pc \in {"recent", "start", "seed", "follow", "over"}
    /\ newest \in 0 .. now + Skew
    /\ seen \subseteq Events
    /\ printed \in [Events -> Nat]
    /\ atRecent \subseteq recorded /\ atSeed \subseteq recorded /\ atPoll \subseteq recorded

\* An event that got into the log within FOLLOW_LOOKBACK of its time, whatever the clocks: an
\* event printed by then may be stamped Skew ahead of tail's clock.
InTime(e) == recordedAt[e] + Skew - ts[e] <= Lookback

\* "skipping ids already printed": no event is printed twice, although each poll looks back
\* over what the ones before it printed and forgets the ids that left the window.
NeverTwice == \A e \in Events : printed[e] <= 1

\* "looking back ... catches it": every event recorded once following began is printed by the
\* next poll, even if others with a later time were printed before it was written or tail's
\* clock is ahead of its server's, unless it was written so late that both together exceed
\* FOLLOW_LOOKBACK.
LateEventsAreCaught ==
    pc = "follow" =>
        \A e \in (atPoll \ atSeed) \cap Wanted : InTime(e) => printed[e] = 1

\* "Keep printing events as they are recorded (Ctrl+C stops)": what is recorded in time once
\* following began is printed some time, unless tail is stopped before; no event printed in
\* between moves the window past it.
RecordedIsPrintedSometime ==
    \A e \in Wanted :
        (pc = "follow" /\ e \in recorded \ atSeed /\ InTime(e)) ~> (printed[e] = 1 \/ pc = "over")
-----------------------------------------------------------------------------
(* What the documentation says that the code does not do.                  *)

\* cli.py on --follow: "Keep printing events as they are recorded".  One recorded between the
\* two queries of the beginning counts as printed, and never is.
RecordedEventsArePrinted ==
    pc = "follow" =>
        \A e \in (atPoll \ atRecent) \cap Wanted : InTime(e) => printed[e] = 1
=============================================================================
