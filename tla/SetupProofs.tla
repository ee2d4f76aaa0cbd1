----------------------------- MODULE SetupProofs -----------------------------
(***************************************************************************)
(* What ensure_schema() guarantees for any number of servers that start    *)
(* together, and any number of connections lost and servers killed.        *)
(***************************************************************************)
EXTENDS SchemaSetup, TLAPS

\* Exactly the session that has the advisory lock is in the body of its transaction, and only
\* it has objects that are not committed yet.
InTransaction == {"look", "make", "applied", "committing"}

LockHeld ==
    \A x \in Sessions :
        /\ session[x].pc \in InTransaction <=> locker = x
        /\ made[x] # {} => locker = x

\* What a session has come to, against what it can see: what its transaction has made and what
\* is committed.  Nothing it is about to create is there, so that no statement fails.
Progress ==
    \A x \in Sessions : LET own == session[x] IN
        /\ own.pc \in {"none", "lock"} => own.object = "table"
        /\ own.pc \in {"look", "make"} /\ own.object = "indexes" => "table" \in committed \cup made[x]
        /\ own.pc = "make" => own.object \notin committed
        /\ own.pc \in {"applied", "committing"} => committed \cup made[x] = Objects
        /\ own.pc = "committed" => committed = Objects
        /\ own.pc # "error"

\* A server has lost the connection of each try before the one it makes, and of both if it
\* failed; and nothing that was not a fault.
LostTries ==
    \A s \in Servers :
        /\ server[s].state = "starting" => lost[s] = server[s].attempt - 1
        /\ server[s].state = "failed" => lost[s] = 2
        /\ lost[s] <= faults

Invariant == TypeOK /\ LockHeld /\ Progress /\ LostTries /\ UpHasItsTable
-----------------------------------------------------------------------------
(* Each part of the invariant, step by step.                               *)

\* A session of the try under way is one of the sessions.
LEMMA CurrentIsSession ==
    ASSUME TypeOK, NEW s \in Servers
    PROVE  Current(s) \in Sessions
BY DEF TypeOK, Current, Sessions

\* The type of a session, as in TypeOK.
SessionStates == [pc : {"none", "lock", "look", "make", "applied", "committing", "committed",
                        "error", "over"},
                  object : Objects, attached : BOOLEAN]

\* Losing a session's client leaves the sessions of their type.
LEMMA DetachedType ==
    ASSUME TypeOK, NEW s \in Servers,
           session' = [session EXCEPT ![Current(s)].attached = FALSE]
    PROVE  session' \in [Sessions -> SessionStates]
<1>1. PICK x \in Sessions : session' = [session EXCEPT ![x].attached = FALSE]
    BY CurrentIsSession
<1> QED
    BY <1>1 DEF TypeOK, SessionStates

\* Every step keeps the type: no server makes a third try, and no more is lost than went wrong.
LEMMA TypeStep ==
    ASSUME TypeOK, LostTries, [Next]_vars
    PROVE  TypeOK'
<1> USE SetupAssumption DEF TypeOK, SessionStates, Objects
<1>1. ASSUME NEW x \in Sessions, Lock(x) PROVE TypeOK'
    BY <1>1 DEF Lock, Goto
<1>2. ASSUME NEW x \in Sessions, Look(x) PROVE TypeOK'
    BY <1>2 DEF Look, Goto, NextObject
<1>3. ASSUME NEW x \in Sessions, Make(x) PROVE TypeOK'
    <2>1. session' \in [Sessions -> SessionStates]
        BY <1>3 DEF Make, Goto, NextObject, End
    <2>2. made' \in [Sessions -> SUBSET Objects] /\ locker' \in Sessions \cup {Nobody}
        BY <1>3 DEF Make, End
    <2> QED
        BY <1>3, <2>1, <2>2 DEF Make
<1>4. ASSUME NEW x \in Sessions, Commit(x) PROVE TypeOK'
    BY <1>4 DEF Commit, Goto, End
<1>5. ASSUME NEW x \in Sessions, Abort(x) PROVE TypeOK'
    BY <1>5 DEF Abort, Goto, End
<1>6. ASSUME NEW s \in Servers, BeginInsert(s) \/ EndInsert(s) PROVE TypeOK'
    BY <1>6 DEF BeginInsert, EndInsert
<1>7. ASSUME NEW s \in Servers, Connect(s) \/ SendCommit(s) PROVE TypeOK'
    <2>1. PICK x \in Sessions, pc \in {"lock", "committing"} : Goto(x, pc)
        BY <1>7, CurrentIsSession DEF Connect, SendCommit
    <2> QED
        BY <1>7, <2>1 DEF Connect, SendCommit, Goto
<1>8. ASSUME NEW s \in Servers, Answered(s) PROVE TypeOK'
    BY <1>8 DEF Answered, Becomes
<1>9. ASSUME NEW s \in Servers, Lose(s) PROVE TypeOK'
    <2>1. session' \in [Sessions -> SessionStates]
        BY <1>9, DetachedType DEF Lose
    <2>2. server' \in [Servers -> [state : {"starting", "up", "failed", "killed"}, attempt : {1, 2}]]
        BY <1>9 DEF Lose, TryAgain, Becomes
    <2>3. faults' \in 0..MaxFaults /\ lost' \in [Servers -> 0..MaxFaults]
        BY <1>9 DEF Lose, Fault, LostTries
    <2> QED
        BY <1>9, <2>1, <2>2, <2>3 DEF Lose
<1>10. ASSUME NEW s \in Servers, Kill(s) PROVE TypeOK'
    <2>1. session' \in [Sessions -> SessionStates]
        BY <1>10, DetachedType DEF Kill
    <2>2. server' \in [Servers -> [state : {"starting", "up", "failed", "killed"}, attempt : {1, 2}]]
        BY <1>10 DEF Kill, Becomes
    <2> QED
        BY <1>10, <2>1, <2>2 DEF Kill, Fault
<1>11. CASE UNCHANGED vars
    BY <1>11 DEF vars
<1> QED
    BY <1>1, <1>2, <1>3, <1>4, <1>5, <1>6, <1>7, <1>8, <1>9, <1>10, <1>11 DEF Next, Session, Server

\* The lock goes with the transaction: it is taken before schema.sql and freed at its end,
\* whichever way it ends.
LEMMA LockStep ==
    ASSUME TypeOK, LockHeld, Progress, [Next]_vars
    PROVE  LockHeld'
<1> USE SetupAssumption DEF TypeOK, LockHeld, InTransaction, Sessions
<1>1. ASSUME NEW x \in Sessions, Lock(x) PROVE LockHeld'
    BY <1>1 DEF Lock, Goto
<1>2. ASSUME NEW x \in Sessions, Look(x) PROVE LockHeld'
    BY <1>2 DEF Look, Goto, NextObject
<1>3. ASSUME NEW x \in Sessions, Make(x) PROVE LockHeld'
    BY <1>3 DEF Make, Goto, NextObject, End
<1>4. ASSUME NEW x \in Sessions, Commit(x) PROVE LockHeld'
    BY <1>4 DEF Commit, Goto, End
<1>5. ASSUME NEW x \in Sessions, Abort(x) PROVE LockHeld'
    BY <1>5 DEF Abort, Goto, End
<1>6. ASSUME NEW s \in Servers, BeginInsert(s) \/ EndInsert(s) PROVE LockHeld'
    BY <1>6 DEF BeginInsert, EndInsert
<1>7. ASSUME NEW s \in Servers, Connect(s) \/ SendCommit(s) PROVE LockHeld'
    BY <1>7, CurrentIsSession DEF Connect, SendCommit, Goto
<1>8. ASSUME NEW s \in Servers, Answered(s) PROVE LockHeld'
    BY <1>8 DEF Answered, Becomes
<1>9. ASSUME NEW s \in Servers, Lose(s) \/ Kill(s) PROVE LockHeld'
    BY <1>9, CurrentIsSession DEF Lose, Kill
<1>10. CASE UNCHANGED vars
    BY <1>10 DEF vars
<1> QED
    BY <1>1, <1>2, <1>3, <1>4, <1>5, <1>6, <1>7, <1>8, <1>9, <1>10 DEF Next, Session, Server

\* What one session has seen stays so while it has the lock: another that makes or commits
\* something has the lock itself.
LEMMA ProgressStep ==
    ASSUME TypeOK, LockHeld, Progress, [Next]_vars
    PROVE  Progress'
<1> USE SetupAssumption DEF TypeOK, LockHeld, InTransaction, Progress, Objects, Sessions
<1>1. ASSUME NEW x \in Sessions, Lock(x) PROVE Progress'
    BY <1>1 DEF Lock, Goto
<1>2. ASSUME NEW x \in Sessions, Look(x) PROVE Progress'
    BY <1>2 DEF Look, Goto, NextObject
<1>3. ASSUME NEW x \in Sessions, Make(x) PROVE Progress'
    BY <1>3 DEF Make, NextObject
<1>4. ASSUME NEW x \in Sessions, Commit(x) PROVE Progress'
    BY <1>4 DEF Commit, Goto, End
<1>5. ASSUME NEW x \in Sessions, Abort(x) PROVE Progress'
    BY <1>5 DEF Abort, Goto, End
<1>6. ASSUME NEW s \in Servers, BeginInsert(s) \/ EndInsert(s) PROVE Progress'
    BY <1>6 DEF BeginInsert, EndInsert
<1>7. ASSUME NEW s \in Servers, Connect(s) \/ SendCommit(s) PROVE Progress'
    BY <1>7, CurrentIsSession DEF Connect, SendCommit, Goto
<1>8. ASSUME NEW s \in Servers, Answered(s) PROVE Progress'
    BY <1>8 DEF Answered, Becomes
<1>9. ASSUME NEW s \in Servers, Lose(s) \/ Kill(s) PROVE Progress'
    BY <1>9, CurrentIsSession DEF Lose, Kill
<1>10. CASE UNCHANGED vars
    BY <1>10 DEF vars
<1> QED
    BY <1>1, <1>2, <1>3, <1>4, <1>5, <1>6, <1>7, <1>8, <1>9, <1>10 DEF Next, Session, Server

\* A try ends unanswered only by the loss of its connection: no statement of it fails.
LEMMA LostStep ==
    ASSUME TypeOK, Progress, LostTries, [Next]_vars
    PROVE  LostTries'
<1> USE SetupAssumption DEF TypeOK, LostTries
<1>1. ASSUME NEW x \in Sessions, Session(x) PROVE LostTries'
    BY <1>1 DEF Session, Lock, Look, Make, Commit, Abort
<1>2. ASSUME NEW s \in Servers, Connect(s) \/ SendCommit(s) \/ BeginInsert(s) \/ EndInsert(s)
      PROVE  LostTries'
    BY <1>2 DEF Connect, SendCommit, BeginInsert, EndInsert
<1>3. ASSUME NEW s \in Servers, Answered(s) PROVE LostTries'
    <2>1. Becomes(s, "up")
        BY <1>3, CurrentIsSession DEF Answered, Progress
    <2> QED
        BY <1>3, <2>1 DEF Answered, Becomes
<1>4. ASSUME NEW s \in Servers, Lose(s) PROVE LostTries'
    BY <1>4 DEF Lose, Fault, TryAgain, Becomes
<1>5. ASSUME NEW s \in Servers, Kill(s) PROVE LostTries'
    BY <1>5 DEF Kill, Fault, Becomes
<1>6. CASE UNCHANGED vars
    BY <1>6 DEF vars
<1> QED
    BY <1>1, <1>2, <1>3, <1>4, <1>5, <1>6 DEF Next, Server

\* What is committed stays, whatever the servers and their sessions do: nothing drops it.
LEMMA CommittedStays ==
    ASSUME TypeOK, [Next]_vars
    PROVE  committed \subseteq committed'
<1>1. ASSUME NEW x \in Sessions, Session(x) PROVE committed \subseteq committed'
    BY <1>1 DEF Session, Lock, Look, Make, Commit, Abort
<1>2. ASSUME NEW s \in Servers, Server(s) \/ BeginInsert(s) \/ EndInsert(s) \/ Lose(s) \/ Kill(s)
      PROVE  committed' = committed
    BY <1>2 DEF Server, Connect, SendCommit, Answered, BeginInsert, EndInsert, Lose, Kill
<1>3. CASE UNCHANGED vars
    BY <1>3 DEF vars
<1> QED
    BY <1>1, <1>2, <1>3 DEF Next

\* A server comes up once its transaction is committed, and then everything is.
LEMMA UpStep ==
    ASSUME TypeOK, TypeOK', Progress, UpHasItsTable, [Next]_vars
    PROVE  UpHasItsTable'
<1> USE DEF UpHasItsTable
<1>1. committed = Objects => committed' = Objects
    BY CommittedStays DEF TypeOK
<1>2. ASSUME NEW x \in Sessions, Session(x) PROVE UpHasItsTable'
    BY <1>1, <1>2 DEF Session, Lock, Look, Make, Commit, Abort
<1>3. ASSUME NEW s \in Servers, Connect(s) \/ SendCommit(s) \/ BeginInsert(s) \/ EndInsert(s)
      PROVE  UpHasItsTable'
    BY <1>3 DEF Connect, SendCommit, BeginInsert, EndInsert
<1>4. ASSUME NEW s \in Servers, Answered(s) PROVE UpHasItsTable'
    <2>1. committed = Objects
        BY <1>4, CurrentIsSession DEF Answered, Progress
    <2> QED
        BY <1>1, <2>1
<1>5. ASSUME NEW s \in Servers, Lose(s) \/ Kill(s) PROVE UpHasItsTable'
    BY <1>5 DEF Lose, Kill, TryAgain, Becomes, TypeOK
<1>6. CASE UNCHANGED vars
    BY <1>6 DEF vars
<1> QED
    BY <1>2, <1>3, <1>4, <1>5, <1>6 DEF Next, Server
-----------------------------------------------------------------------------
(* The invariant holds in every state.                                     *)

\* Servers that have not connected yet meet the invariant, whatever is in the database.
LEMMA InitInvariant == Init => Invariant
<1> SUFFICES ASSUME Init PROVE Invariant
    OBVIOUS
<1> USE SetupAssumption DEF Init, Objects
<1>1. TypeOK
    BY DEF TypeOK
<1>2. LockHeld
    BY DEF LockHeld, InTransaction, Sessions
<1>3. Progress
    BY DEF Progress
<1>4. LostTries /\ UpHasItsTable
    BY DEF LostTries, UpHasItsTable
<1> QED
    BY <1>1, <1>2, <1>3, <1>4 DEF Invariant

\* Every step of the servers, their sessions and the faults keeps it.
LEMMA NextInvariant == Invariant /\ [Next]_vars => Invariant'
<1> SUFFICES ASSUME Invariant, [Next]_vars PROVE Invariant'
    OBVIOUS
<1> USE DEF Invariant
<1>1. TypeOK'
    BY TypeStep
<1> QED
    BY <1>1, LockStep, ProgressStep, LostStep, UpStep

\* The inductive invariant of servers that start together: the advisory lock of ensure_schema()
\* covers schema.sql from its first look to COMMIT or the end of the abandoned session.
THEOREM InvariantHolds == Spec => []Invariant
<1>1. Init => Invariant
    BY InitInvariant
<1>2. Invariant /\ [Next]_vars => Invariant'
    BY NextInvariant
<1> QED
    BY <1>1, <1>2, PTL DEF Spec

\* The state always has its type: _attempt's loop makes no third try.
THEOREM TypeCorrect == Spec => []TypeOK
<1>1. Invariant => TypeOK
    BY DEF Invariant
<1> QED
    BY <1>1, InvariantHolds, PTL

\* A server that is up has its table and indexes, though sessions of other servers, and of its
\* own first try, may have been abandoned in the middle of schema.sql.
THEOREM TableBeforeServing == Spec => []UpHasItsTable
<1>1. Invariant => UpHasItsTable
    BY DEF Invariant
<1> QED
    BY <1>1, InvariantHolds, PTL

\* ensure_schema() is safe to call from every server start: a server fails only if it lost the
\* connections of both its tries, never because another one creates the same objects.
THEOREM StartsAreSafe == Spec => []StartsDoNotCollide
<1>1. Invariant => StartsDoNotCollide
    BY DEF Invariant, LostTries, StartsDoNotCollide
<1> QED
    BY <1>1, InvariantHolds, PTL
=============================================================================
