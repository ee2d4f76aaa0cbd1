-------------------------- MODULE AuditTailProofs --------------------------
(***************************************************************************)
(* `audit tail --follow` prints no event twice and catches late ones, for  *)
(* any set of events, lookback, difference of the clocks and order of      *)
(* stamps, inserts and polls.                                              *)
(***************************************************************************)
EXTENDS AuditTail, TLAPS

\* An event is stamped before it is recorded, and no time is further ahead than a clock may be.
Stamped ==
    /\ now >= Skew
    /\ \A e \in Events :
        /\ ts[e] <= now + Skew /\ recordedAt[e] <= now
        /\ e \in recorded => ts[e] # NotYet

\* What was printed is in seen, or older than the window will ever reach back.
PrintedOnce ==
    \A e \in Events :
        /\ printed[e] \in {0, 1}
        /\ printed[e] = 1 => e \in recorded
        /\ pc = "recent" => printed[e] = 0
        /\ pc \in {"start", "seed"} /\ printed[e] = 1 => e \in seen
        /\ pc = "follow" /\ printed[e] = 1 => e \in seen \/ ts[e] < newest - Lookback

\* seen holds what was in the log at the beginning, or has been printed.
SeenIsKnown ==
    /\ seen \subseteq recorded
    /\ pc = "follow" => \A e \in seen : e \in atSeed \/ printed[e] = 1

\* An event recorded in time since following began, and not printed yet, is in the window.
InWindow ==
    pc = "follow" =>
        \A e \in (recorded \ atSeed) \cap Wanted :
            InTime(e) /\ printed[e] = 0 => ts[e] >= newest - Lookback

\* The inductive invariant: the properties of the runs and what they rest on.
Invariant ==
    /\ TypeOK /\ Stamped /\ PrintedOnce /\ SeenIsKnown /\ InWindow
    /\ LateEventsAreCaught

\* tail starts in a state that meets the invariant.
LEMMA InitInvariant == Init => Invariant
<1> SUFFICES ASSUME Init PROVE Invariant
    OBVIOUS
<1> USE TailAssumption DEF TailAssumption, Init, NotYet
<1>1. TypeOK
    BY DEF TypeOK
<1>2. Stamped /\ PrintedOnce /\ SeenIsKnown
    BY DEF Stamped, PrintedOnce, SeenIsKnown
<1>3. InWindow /\ LateEventsAreCaught
    BY DEF InWindow, LateEventsAreCaught
<1> QED
    BY <1>1, <1>2, <1>3 DEF Invariant

\* The servers' steps.
LEMMA WorldStep ==
    ASSUME Invariant, Tick \/ (\E e \in Events : Stamp(e) \/ Insert(e))
    PROVE  Invariant'
<1> USE TailAssumption DEF TailAssumption, NotYet, tail, history
<1>1. TypeOK /\ Stamped /\ PrintedOnce /\ SeenIsKnown /\ InWindow /\ LateEventsAreCaught
    BY DEF Invariant
<1>2. UNCHANGED <<pc, newest, seen, printed, atRecent, atSeed, atPoll>>
    BY DEF Tick, Stamp, Insert
<1>3. CASE Tick
    <2>1. now' = now + 1 /\ UNCHANGED <<ts, recorded, recordedAt>>
        BY <1>1, <1>3 DEF Tick, TypeOK
    <2>5. newest' \in 0 .. now' + Skew
        <3>1. newest \in 0 .. (now + 1) + Skew
            BY <1>1 DEF TypeOK
        <3> QED
            BY <1>2, <2>1, <3>1
    <2>6. TypeOK'
        BY <1>1, <1>2, <2>1, <2>5 DEF TypeOK
    <2>7. Stamped'
        <3>1. \A e \in Events : ts[e] \in Int /\ recordedAt[e] \in Int
            BY <1>1 DEF TypeOK
        <3> QED
            BY <1>1, <1>2, <2>1, <3>1 DEF Stamped, TypeOK
    <2>2. TypeOK' /\ Stamped'
        BY <2>6, <2>7
    <2>3. PrintedOnce' /\ SeenIsKnown'
        BY <1>1, <1>2, <2>1 DEF PrintedOnce, SeenIsKnown
    <2>4. InWindow' /\ LateEventsAreCaught'
        BY <1>1, <1>2, <2>1 DEF InWindow, LateEventsAreCaught, InTime
    <2> QED
        BY <2>2, <2>3, <2>4 DEF Invariant
<1>4. ASSUME NEW e \in Events, Stamp(e) PROVE Invariant'
    <2>1. /\ ts[e] = NotYet
          /\ UNCHANGED <<now, recorded, recordedAt>>
          /\ e \notin recorded
        BY <1>1, <1>4 DEF Stamp, Stamped
    <2>6. PICK time \in now - Skew .. now + Skew : ts' = [ts EXCEPT ![e] = time]
        BY <1>4 DEF Stamp
    <2>7. time \in Nat /\ time <= now + Skew
        BY <1>1 DEF TypeOK, Stamped
    <2>8. ts'[e] = time
        BY <1>1, <2>6 DEF TypeOK
    <2>2. \A other \in Events : other # e => ts'[other] = ts[other]
        BY <1>1, <2>6 DEF TypeOK
    <2>3. TypeOK' /\ Stamped'
        BY <1>1, <1>2, <2>1, <2>2, <2>6, <2>7, <2>8 DEF TypeOK, Stamped
    <2>4. PrintedOnce' /\ SeenIsKnown'
        BY <1>1, <1>2, <2>1, <2>2 DEF PrintedOnce, SeenIsKnown
    <2>5. InWindow' /\ LateEventsAreCaught'
        BY <1>1, <1>2, <2>1, <2>2 DEF InWindow, LateEventsAreCaught, InTime, TypeOK
    <2> QED
        BY <2>3, <2>4, <2>5 DEF Invariant
<1>5. ASSUME NEW e \in Events, Insert(e) PROVE Invariant'
    <2>1. /\ ts[e] # NotYet /\ e \notin recorded
          /\ recorded' = recorded \cup {e}
          /\ recordedAt' = [recordedAt EXCEPT ![e] = now]
          /\ UNCHANGED <<now, ts>>
        BY <1>5 DEF Insert
    <2>2. recordedAt'[e] = now /\ \A other \in Events : other # e => recordedAt'[other] = recordedAt[other]
        BY <1>1, <2>1 DEF TypeOK
    <2>3. TypeOK' /\ Stamped'
        BY <1>1, <1>2, <2>1, <2>2 DEF TypeOK, Stamped
    <2>4. PrintedOnce' /\ SeenIsKnown'
        BY <1>1, <1>2, <2>1 DEF PrintedOnce, SeenIsKnown
    <2>5. InWindow'
        BY <1>1, <1>2, <2>1, <2>2 DEF InWindow, InTime, TypeOK
    <2>6. LateEventsAreCaught'
        BY <1>1, <1>2, <2>1, <2>2 DEF LateEventsAreCaught, InTime, TypeOK
    <2> QED
        BY <2>3, <2>4, <2>5, <2>6 DEF Invariant
<1> QED
    BY <1>3, <1>4, <1>5

\* One turn of the loop.
LEMMA PollStep ==
    ASSUME Invariant, Poll
    PROVE  Invariant'
<1> USE TailAssumption DEF TailAssumption, NotYet
<1>1. TypeOK /\ Stamped /\ PrintedOnce /\ SeenIsKnown /\ InWindow /\ LateEventsAreCaught
    BY DEF Invariant
<1> DEFINE found == (Since(newest - Lookback) \cap Wanted) \ seen
<1>2. /\ pc = "follow" /\ pc' = "follow" /\ atPoll' = recorded
      /\ UNCHANGED <<atRecent, atSeed, now, ts, recorded, recordedAt>>
    BY DEF Poll, world
<1>3. PICK latest \in {newest} \cup {ts[e] : e \in found} :
        /\ \A time \in {newest} \cup {ts[e] : e \in found} : time <= latest
        /\ Emit(found)
        /\ newest' = latest
        /\ seen' = {e \in seen \cup found : ts[e] >= latest - Lookback}
    BY DEF Poll
<1>4. \A e \in found : /\ e \in Events /\ e \in recorded /\ e \in Wanted /\ e \notin seen
                       /\ ts[e] >= newest - Lookback
    BY <1>1 DEF Since, TypeOK
<1>5. \A e \in Events : /\ e \in found => printed[e] = 0 /\ printed'[e] = 1
                        /\ e \notin found => printed'[e] = printed[e]
    <2>1. \A e \in found : printed[e] = 0
        BY <1>1, <1>2, <1>4 DEF PrintedOnce, TypeOK
    <2> HIDE DEF found
    <2> QED
        BY <1>1, <1>3, <2>1 DEF Emit, TypeOK
<1>6. newest' \in 0 .. now + Skew /\ newest <= newest'
    <2>1. \A e \in found : ts[e] \in Nat /\ ts[e] <= now + Skew
        BY <1>1, <1>4 DEF Stamped, TypeOK
    <2> HIDE DEF found
    <2> QED
        BY <1>1, <1>3, <2>1 DEF TypeOK
<1>7. /\ seen' \subseteq seen \cup found
      /\ \A e \in seen \cup found : e \in seen' \/ ts[e] < newest' - Lookback
    <2>1. \A e \in seen \cup found : e \in Events /\ ts[e] \in Int
        BY <1>1, <1>4 DEF TypeOK
    <2> HIDE DEF found
    <2> QED
        BY <1>1, <1>3, <1>6, <2>1 DEF TypeOK
<1>8. printed' \in [Events -> Nat]
    <2> HIDE DEF found
    <2> QED
        BY <1>1, <1>3 DEF Emit, TypeOK
<1>9. TypeOK'
    <2>1. seen' \subseteq Events
        BY <1>1, <1>4, <1>7 DEF TypeOK
    <2> HIDE DEF found
    <2> QED
        BY <1>1, <1>2, <1>6, <1>8, <2>1 DEF TypeOK
<1>10. \A e \in (recorded \ atSeed) \cap Wanted : InTime(e) => printed'[e] = 1
    <2> SUFFICES ASSUME NEW e \in (recorded \ atSeed) \cap Wanted, InTime(e) PROVE printed'[e] = 1
        OBVIOUS
    <2>1. e \in Events
        BY <1>1 DEF TypeOK
    <2>2. CASE printed[e] = 1
        BY <1>5, <2>1, <2>2
    <2>3. CASE printed[e] = 0
        <3>1. e \notin seen
            BY <1>1, <1>2, <2>3 DEF SeenIsKnown
        <3>2. ts[e] >= newest - Lookback
            BY <1>1, <1>2, <2>3 DEF InWindow
        <3>3. e \in found
            BY <3>1, <3>2 DEF Since
        <3> QED
            BY <1>5, <2>1, <3>3
    <2> QED
        BY <1>1, <2>1, <2>2, <2>3 DEF PrintedOnce
<1> HIDE DEF found
<1>11. Stamped'
    BY <1>1, <1>2 DEF Stamped
<1>12. PrintedOnce'
    <2> SUFFICES ASSUME NEW e \in Events
                 PROVE  /\ printed'[e] \in {0, 1}
                        /\ printed'[e] = 1 => e \in recorded
                        /\ printed'[e] = 1 => e \in seen' \/ ts[e] < newest' - Lookback
        BY <1>2 DEF PrintedOnce
    <2>1. CASE e \in found
        BY <1>4, <1>5, <1>7, <2>1
    <2>2. CASE e \notin found
        BY <1>1, <1>2, <1>5, <1>6, <1>7, <2>2 DEF PrintedOnce, TypeOK
    <2> QED
        BY <2>1, <2>2
<1>13. SeenIsKnown'
    BY <1>1, <1>2, <1>4, <1>5, <1>7 DEF SeenIsKnown, TypeOK
<1>14. InWindow' /\ LateEventsAreCaught'
    BY <1>1, <1>2, <1>10 DEF InWindow, LateEventsAreCaught, InTime
<1> QED
    BY <1>9, <1>11, <1>12, <1>13, <1>14 DEF Invariant

\* The steps before the loop, and its end.
LEMMA SetupStep ==
    ASSUME Invariant, PrintRecent \/ Start \/ Seed \/ Stop
    PROVE  Invariant'
<1> USE TailAssumption DEF TailAssumption, NotYet, world, history
<1>1. TypeOK /\ Stamped /\ PrintedOnce /\ SeenIsKnown /\ InWindow /\ LateEventsAreCaught
    BY DEF Invariant
<1>2. UNCHANGED <<now, ts, recorded, recordedAt>>
    BY DEF PrintRecent, Start, Seed, Stop
<1>3. CASE PrintRecent
    <2>1. PICK events \in SUBSET Events :
            Recent(events) /\ Emit(events) /\ seen' = events
        BY <1>3 DEF PrintRecent
    <2>2. events \subseteq recorded
        BY <2>1 DEF Recent
    <2>3. /\ pc = "recent" /\ pc' = "start" /\ atRecent' = recorded
          /\ UNCHANGED <<newest, atSeed, atPoll>>
        BY <1>3 DEF PrintRecent
    <2>4. \A e \in Events : printed'[e] = IF e \in events THEN 1 ELSE 0
        BY <1>1, <2>1, <2>3 DEF Emit, PrintedOnce
    <2>5. printed' \in [Events -> Nat]
        BY <1>1, <2>1 DEF Emit, TypeOK
    <2>6. TypeOK' /\ Stamped'
        BY <1>1, <1>2, <2>1, <2>3, <2>5 DEF TypeOK, Stamped
    <2>7. PrintedOnce' /\ SeenIsKnown' /\ InWindow' /\ LateEventsAreCaught'
        BY <1>1, <1>2, <2>1, <2>2, <2>3, <2>4
           DEF PrintedOnce, SeenIsKnown, InWindow, LateEventsAreCaught
    <2> QED
        BY <2>6, <2>7 DEF Invariant
<1>4. CASE Start
    <2>1. /\ pc = "start" /\ pc' = "seed"
          /\ UNCHANGED <<seen, printed, atRecent, atSeed, atPoll>>
        BY <1>4 DEF Start
    <2>4. newest' \in {now} \cup {ts[e] : e \in seen} /\ newest' >= now
        BY <1>4 DEF Start
    <2>5. \A e \in seen : ts[e] \in Nat \cup {NotYet} /\ ts[e] <= now + Skew
        BY <1>1 DEF TypeOK, Stamped
    <2>6. newest' \in 0 .. now + Skew
        BY <1>1, <2>4, <2>5 DEF TypeOK
    <2>2. TypeOK' /\ Stamped'
        BY <1>1, <1>2, <2>1, <2>6 DEF TypeOK, Stamped
    <2>3. PrintedOnce' /\ SeenIsKnown' /\ InWindow' /\ LateEventsAreCaught'
        BY <1>1, <1>2, <2>1 DEF PrintedOnce, SeenIsKnown, InWindow, LateEventsAreCaught
    <2> QED
        BY <2>2, <2>3 DEF Invariant
<1>5. CASE Seed
    <2>1. /\ pc = "seed" /\ pc' = "follow" /\ atSeed' = recorded
          /\ seen' = seen \cup Since(newest - Lookback)
          /\ UNCHANGED <<newest, printed, atRecent, atPoll>>
        BY <1>5 DEF Seed
    <2>2. seen \subseteq seen' /\ seen' \subseteq recorded
        BY <1>1, <2>1 DEF Since, SeenIsKnown
    <2>3. TypeOK' /\ Stamped'
        BY <1>1, <1>2, <2>1, <2>2 DEF TypeOK, Stamped
    <2>4. PrintedOnce' /\ SeenIsKnown'
        BY <1>1, <1>2, <2>1, <2>2 DEF PrintedOnce, SeenIsKnown
    <2>5. InWindow' /\ LateEventsAreCaught'
        BY <1>1, <1>2, <2>1 DEF InWindow, LateEventsAreCaught, TypeOK
    <2> QED
        BY <2>3, <2>4, <2>5 DEF Invariant
<1>6. CASE Stop
    <2>1. pc' = "over" /\ UNCHANGED <<newest, seen, printed, atRecent, atSeed, atPoll>>
        BY <1>6 DEF Stop
    <2>2. TypeOK' /\ Stamped'
        BY <1>1, <1>2, <2>1 DEF TypeOK, Stamped
    <2>3. PrintedOnce' /\ SeenIsKnown' /\ InWindow' /\ LateEventsAreCaught'
        BY <1>1, <1>2, <2>1 DEF PrintedOnce, SeenIsKnown, InWindow, LateEventsAreCaught
    <2> QED
        BY <2>2, <2>3 DEF Invariant
<1> QED
    BY <1>3, <1>4, <1>5, <1>6

\* A step that changes nothing keeps it.
LEMMA StutterStep == Invariant /\ UNCHANGED vars => Invariant'
<1> SUFFICES ASSUME Invariant, UNCHANGED vars PROVE Invariant'
    OBVIOUS
<1> USE DEF vars, world, tail, history, Invariant
<1>1. TypeOK' /\ Stamped' /\ PrintedOnce'
    BY DEF TypeOK, Stamped, PrintedOnce
<1>2. SeenIsKnown' /\ InWindow' /\ LateEventsAreCaught'
    BY DEF SeenIsKnown, InWindow, LateEventsAreCaught, InTime
<1> QED
    BY <1>1, <1>2

\* The inductive invariant of tail always holds.
THEOREM InvariantHolds == Spec => []Invariant
<1>1. Init => Invariant
    BY InitInvariant
<1>2. Invariant /\ [Next]_vars => Invariant'
    BY WorldStep, PollStep, SetupStep, StutterStep DEF Next, Tail
<1> QED
    BY <1>1, <1>2, PTL DEF Spec

\* The state has its type; in particular the window never begins in the future.
THEOREM TypeCorrect == Spec => []TypeOK
<1>1. Invariant => TypeOK
    BY DEF Invariant
<1> QED
    BY <1>1, InvariantHolds, PTL

\* tail prints no event twice: the ids it forgets are those its window has left for good.
THEOREM PrintsOnce == Spec => []NeverTwice
<1>1. Invariant => NeverTwice
    BY DEF Invariant, PrintedOnce, NeverTwice
<1> QED
    BY <1>1, InvariantHolds, PTL

\* A poll prints every event that was recorded since following began, no later than
\* FOLLOW_LOOKBACK after its time, in whatever order their times and inserts came.
THEOREM CatchesLateEvents == Spec => []LateEventsAreCaught
<1>1. Invariant => LateEventsAreCaught
    BY DEF Invariant
<1> QED
    BY <1>1, InvariantHolds, PTL
=============================================================================
