-------------------------- MODULE ExecutionProofs --------------------------
(***************************************************************************)
(* The row cap is exact, functions and nesting are refused as the policy   *)
(* says, and nothing is left open, for every cap, LIMIT, number of rows,   *)
(* query and policy.                                                       *)
(***************************************************************************)
EXTENDS Execution, NestingProofs, TLAPS

\* What every query that reaches the engine has: its own LIMIT, or one a row past the cap in
\* place of none or of a higher one.
SentIsFair ==
    \/ sent = value /\ clause # "none"
    \/ sent = MaxRows + 1 /\ (clause = "none" \/ value > sent)

\* The LIMIT, from the check to the rows.
LimitKept ==
    /\ pc = "select" => op = "tables"
    /\ op # "tables" /\ pc # "check" /\ refusal = "none" => SentIsFair
    /\ op # "tables" /\ pc \in {"close", "rollback"} /\ raised = "none" =>
        fetched = Lesser(MaxRows + 1, Lesser(sent, yields))

\* The connection is there while a statement may use it; the transaction needs it.
LinkKept ==
    /\ pc \in {"check", "connect"} => link = "none"
    /\ pc \in {"begin", "select", "declare", "fetch", "close", "rollback"} => link \in {"up", "lost"}
    /\ pc = "over" => link \in {"none", "closed"}
    /\ link # "up" => tx = "none"

\* A policy in use is valid, and what the check of functions said is what became of the query.
FunctionsKept ==
    /\ pc = "check" => op = "query"
    /\ op = "query" => NothingAllowedIsDenied(policy)
    /\ refusal = "FUNCTION_NOT_ALLOWED" => op = "query" /\ ~FunctionsPass(tree, policy)
    /\ PassedNesting => FunctionsPass(tree, policy)

\* The same of the check of nesting, as the walk of subquery_depth counts it.
NestingKept ==
    /\ pc = "check" => op = "query"
    /\ op = "query" => tree \in Trees
    /\ refusal = "SUBQUERY_TOO_DEEP" => op = "query" /\ TooDeep(tree, policy)
    /\ PassedNesting => ~TooDeep(tree, policy)

\* The inductive invariant: the properties of the runs and what they rest on.
Invariant == TypeOK /\ LimitKept /\ LinkKept /\ CapIsExact /\ FunctionsKept /\ NestingKept

\* A query about to be checked, or handed to execute(), meets the invariant.
LEMMA InitInvariant == Init => Invariant
<1> SUFFICES ASSUME Init PROVE Invariant
    OBVIOUS
<1> USE ExecutionAssumption DEF Init
<1>1. TypeOK
    <2>1. truncated \in BOOLEAN
        OBVIOUS
    <2>2. /\ value \in Nat /\ yields \in Nat /\ sent \in Nat
          /\ fetched \in 0..MaxRows + 1 /\ rows \in 0..MaxRows
        OBVIOUS
    <2> QED
        BY <2>1, <2>2 DEF TypeOK
<1>2. LimitKept
    BY DEF LimitKept, SentIsFair
<1>3. LinkKept /\ CapIsExact
    BY DEF LinkKept, CapIsExact, HasResult
<1>4. FunctionsKept /\ NestingKept
    BY DEF FunctionsKept, NestingKept, PassedNesting
<1> QED
    BY <1>1, <1>2, <1>3, <1>4 DEF Invariant

\* Types.
LEMMA TypeStep == TypeOK /\ [Next]_vars => TypeOK'
<1> SUFFICES ASSUME TypeOK, [Next]_vars PROVE TypeOK'
    OBVIOUS
<1> USE ExecutionAssumption DEF TypeOK, query, Lesser
<1>1. CASE Refuse \/ Allow
    <2>1. ShapeRefusal(tree, policy) \in ShapeCodes \cup {"none"}
        BY DEF ShapeRefusal, ShapeCodes
    <2>2. Refusal \in ShapeCodes \cup {"none", "INVALID_LIMIT", "LIMIT_REQUIRED", "LIMIT_TOO_HIGH"}
        <3> HIDE DEF TypeOK
        <3> QED
            BY <2>1 DEF Refusal, LimitRefusal
    <2>3. Rewritten \in Nat
        BY DEF Rewritten
    <2> HIDE DEF ShapeCodes
    <2> QED
        BY <1>1, <2>2, <2>3 DEF Refuse, Allow
<1>2. CASE Connect \/ ConnectFails \/ ConnectionLost
    BY <1>2 DEF Connect, ConnectFails, ConnectionLost
<1>3. CASE Begin \/ Select \/ Declare \/ CloseCursor
    BY <1>3 DEF Begin, Select, Declare, CloseCursor, Succeeds
<1>4. CASE Fetch
    BY <1>4 DEF Fetch, Succeeds
<1>5. CASE Fails
    BY <1>5 DEF Fails
<1>6. CASE Rollback
    <2>1. rows' \in 0..MaxRows
        BY <1>6 DEF Rollback
    <2>2. truncated' = (fetched > MaxRows) \/ truncated' = truncated
        BY <1>6 DEF Rollback
    <2>3. truncated \in BOOLEAN /\ (fetched > MaxRows) \in BOOLEAN
        OBVIOUS
    <2>4. truncated' \in BOOLEAN
        <3> HIDE DEF TypeOK, Lesser
        <3> QED
            BY <2>2, <2>3, Zenon
    <2> QED
        BY <1>6, <2>1, <2>4 DEF Rollback
<1>7. CASE RollbackFails
    BY <1>7 DEF RollbackFails
<1>8. CASE UNCHANGED vars
    BY <1>8 DEF vars
<1> QED
    BY <1>1, <1>2, <1>3, <1>4, <1>5, <1>6, <1>7, <1>8 DEF Next, Done

\* The LIMIT that was checked is the one that is sent, and what it fetches depends on it alone.
LEMMA LimitStep == TypeOK /\ LimitKept /\ [Next]_vars => LimitKept'
<1> SUFFICES ASSUME TypeOK, LimitKept, [Next]_vars PROVE LimitKept'
    OBVIOUS
<1> USE ExecutionAssumption DEF TypeOK, LimitKept, query, SentIsFair
<1>1. CASE Refuse
    BY <1>1 DEF Refuse
<1>2. CASE Allow
    BY <1>2 DEF Allow, Refusal, LimitRefusal, Rewritten
<1>3. CASE Connect \/ ConnectFails \/ ConnectionLost
    BY <1>3 DEF Connect, ConnectFails, ConnectionLost
<1>4. CASE Begin \/ Select \/ Declare \/ CloseCursor
    BY <1>4 DEF Begin, Select, Declare, CloseCursor, Succeeds
<1>5. CASE Fetch
    BY <1>5 DEF Fetch, Succeeds
<1>6. CASE Fails
    BY <1>6 DEF Fails
<1>7. CASE Rollback \/ RollbackFails
    BY <1>7 DEF Rollback, RollbackFails
<1>8. CASE UNCHANGED vars
    BY <1>8 DEF vars
<1> QED
    BY <1>1, <1>2, <1>3, <1>4, <1>5, <1>6, <1>7, <1>8 DEF Next, Done

\* The rollback ends the transaction, or the loss of the connection does.
LEMMA LinkStep == TypeOK /\ LinkKept /\ [Next]_vars => LinkKept'
<1> SUFFICES ASSUME TypeOK, LinkKept, [Next]_vars PROVE LinkKept'
    OBVIOUS
<1> USE DEF TypeOK, LinkKept, query
<1>1. CASE Refuse \/ Allow
    BY <1>1 DEF Refuse, Allow
<1>2. CASE Connect \/ ConnectFails \/ ConnectionLost
    BY <1>2 DEF Connect, ConnectFails, ConnectionLost
<1>3. CASE Begin \/ Select \/ Declare \/ Fetch \/ CloseCursor
    BY <1>3 DEF Begin, Select, Declare, Fetch, CloseCursor, Succeeds
<1>4. CASE Fails
    BY <1>4 DEF Fails
<1>5. CASE Rollback \/ RollbackFails
    BY <1>5 DEF Rollback, RollbackFails
<1>6. CASE UNCHANGED vars
    BY <1>6 DEF vars
<1> QED
    BY <1>1, <1>2, <1>3, <1>4, <1>5, <1>6 DEF Next, Done

\* A Result comes only from Rollback, out of what was fetched under a fair LIMIT.
LEMMA CapStep == TypeOK /\ LimitKept /\ LinkKept /\ CapIsExact /\ [Next]_vars => CapIsExact'
<1> SUFFICES ASSUME TypeOK, LimitKept, LinkKept, CapIsExact, [Next]_vars PROVE CapIsExact'
    OBVIOUS
<1> USE ExecutionAssumption DEF TypeOK, query, CapIsExact, HasResult, Own
<1>1. CASE Refuse \/ Allow
    BY <1>1 DEF Refuse, Allow
<1>2. CASE Connect \/ ConnectFails
    BY <1>2 DEF Connect, ConnectFails
<1>3. CASE ConnectionLost
    BY <1>3 DEF ConnectionLost, LinkKept
<1>4. CASE Begin \/ Select \/ Declare \/ Fetch \/ CloseCursor
    BY <1>4 DEF Begin, Select, Declare, Fetch, CloseCursor, Succeeds
<1>5. CASE Fails
    BY <1>5 DEF Fails
<1>6. CASE Rollback /\ raised = "none" /\ refusal = "none" /\ op # "tables"
    <2>1. /\ rows' = Lesser(fetched, MaxRows) /\ truncated' = (fetched > MaxRows)
          /\ UNCHANGED <<rule, clause, value, yields>>
        BY <1>6 DEF Rollback
    <2>2. fetched = Lesser(MaxRows + 1, Lesser(sent, yields)) /\ SentIsFair
        BY <1>6 DEF Rollback, LimitKept
    <2>3. Lesser(fetched, MaxRows) = Lesser(Own, MaxRows) /\ (fetched > MaxRows <=> Own > MaxRows)
        BY <2>2 DEF SentIsFair, Lesser
    <2> QED
        BY <2>1, <2>3 DEF Lesser
<1>7. CASE Rollback /\ ~(raised = "none" /\ refusal = "none" /\ op # "tables")
    BY <1>7 DEF Rollback
<1>8. CASE RollbackFails
    BY <1>8 DEF RollbackFails
<1>9. CASE UNCHANGED vars
    BY <1>9 DEF vars
<1> QED
    BY <1>1, <1>2, <1>3, <1>4, <1>5, <1>6, <1>7, <1>8, <1>9 DEF Next, Done

\* The first rule that a query breaks is that of functions only if it breaks it, and a query that
\* breaks none, or only the rules of LIMIT, has passed it.
LEMMA FunctionsFirst ==
    /\ Refusal = "FUNCTION_NOT_ALLOWED" => ~FunctionsPass(tree, policy)
    /\ Refusal \notin ShapeCodes => FunctionsPass(tree, policy)
<1>1. LimitRefusal # "FUNCTION_NOT_ALLOWED"
    BY DEF LimitRefusal
<1>2. ShapeRefusal(tree, policy) \in ShapeCodes \/ ShapeRefusal(tree, policy) = "none"
    BY DEF ShapeRefusal, ShapeCodes
<1>3. ShapeRefusal(tree, policy) = "FUNCTION_NOT_ALLOWED" => ~FunctionsPass(tree, policy)
    BY DEF ShapeRefusal
<1>4. ShapeRefusal(tree, policy) = "none" => FunctionsPass(tree, policy)
    BY DEF ShapeRefusal
<1> QED
    BY <1>1, <1>2, <1>3, <1>4 DEF Refusal

\* Only the check refuses a query or lets it through.
LEMMA FunctionsStep == FunctionsKept /\ [Next]_vars => FunctionsKept'
<1> SUFFICES ASSUME FunctionsKept, [Next]_vars PROVE FunctionsKept'
    OBVIOUS
<1> USE DEF FunctionsKept, PassedNesting, query
<1>1. CASE Refuse \/ Allow
    <2>1. UNCHANGED <<op, tree, policy>>
        BY <1>1 DEF Refuse, Allow
    <2>2. op = "query" /\ (refusal' = Refusal \/ (refusal' = refusal /\ Refusal = "none"))
        BY <1>1 DEF Refuse, Allow
    <2>3. "none" \notin ShapeCodes
        BY DEF ShapeCodes
    <2>4. /\ FunctionsPass(tree, policy)' <=> FunctionsPass(tree, policy)
          /\ NothingAllowedIsDenied(policy)' <=> NothingAllowedIsDenied(policy)
        BY <2>1
    <2>5. pc' # "check"
        BY <1>1 DEF Refuse, Allow
    <2> QED
        BY <2>1, <2>2, <2>3, <2>4, <2>5, FunctionsFirst
<1>2. CASE Connect \/ ConnectFails \/ ConnectionLost
    BY <1>2 DEF Connect, ConnectFails, ConnectionLost
<1>3. CASE Begin \/ Select \/ Declare \/ Fetch \/ CloseCursor
    BY <1>3 DEF Begin, Select, Declare, Fetch, CloseCursor, Succeeds
<1>4. CASE Fails \/ Rollback \/ RollbackFails
    BY <1>4 DEF Fails, Rollback, RollbackFails
<1>5. CASE UNCHANGED vars
    BY <1>5 DEF vars
<1> QED
    BY <1>1, <1>2, <1>3, <1>4, <1>5 DEF Next, Done

\* So it is with the rule of nesting.
LEMMA NestingFirst ==
    /\ Refusal = "SUBQUERY_TOO_DEEP" => TooDeep(tree, policy)
    /\ Refusal \notin ShapeCodes => ~TooDeep(tree, policy)
<1>1. LimitRefusal # "SUBQUERY_TOO_DEEP"
    BY DEF LimitRefusal
<1>2. ShapeRefusal(tree, policy) \in ShapeCodes \/ ShapeRefusal(tree, policy) = "none"
    BY DEF ShapeRefusal, ShapeCodes
<1>3. ShapeRefusal(tree, policy) = "SUBQUERY_TOO_DEEP" => TooDeep(tree, policy)
    BY DEF ShapeRefusal
<1>4. ShapeRefusal(tree, policy) = "none" => ~TooDeep(tree, policy)
    BY DEF ShapeRefusal
<1> QED
    BY <1>1, <1>2, <1>3, <1>4 DEF Refusal

\* What the check of nesting said is never changed.
LEMMA NestingStep == NestingKept /\ [Next]_vars => NestingKept'
<1> SUFFICES ASSUME NestingKept, [Next]_vars PROVE NestingKept'
    OBVIOUS
<1> USE DEF NestingKept, PassedNesting, query
<1>1. CASE Refuse \/ Allow
    <2>1. UNCHANGED <<op, tree, policy>> /\ pc' # "check"
        BY <1>1 DEF Refuse, Allow
    <2>2. op = "query" /\ (refusal' = Refusal \/ (refusal' = refusal /\ Refusal = "none"))
        BY <1>1 DEF Refuse, Allow
    <2>3. "none" \notin ShapeCodes
        BY DEF ShapeCodes
    <2>4. TooDeep(tree, policy)' <=> TooDeep(tree, policy)
        BY <2>1
    <2> QED
        BY <2>1, <2>2, <2>3, <2>4, NestingFirst
<1>2. CASE Connect \/ ConnectFails \/ ConnectionLost
    BY <1>2 DEF Connect, ConnectFails, ConnectionLost
<1>3. CASE Begin \/ Select \/ Declare \/ Fetch \/ CloseCursor
    BY <1>3 DEF Begin, Select, Declare, Fetch, CloseCursor, Succeeds
<1>4. CASE Fails \/ Rollback \/ RollbackFails
    BY <1>4 DEF Fails, Rollback, RollbackFails
<1>5. CASE UNCHANGED vars
    BY <1>5 DEF vars
<1> QED
    BY <1>1, <1>2, <1>3, <1>4, <1>5 DEF Next, Done

\* The inductive invariant of an execution always holds.
THEOREM InvariantHolds == Spec => []Invariant
<1>1. Init => Invariant
    BY InitInvariant
<1>2. Invariant /\ [Next]_vars => Invariant'
    BY TypeStep, LimitStep, LinkStep, CapStep, FunctionsStep, NestingStep DEF Invariant
<1> QED
    BY <1>1, <1>2, PTL DEF Spec

\* The state has its type; in particular no more than a row past the cap is ever held.
THEOREM TypeCorrect == Spec => []TypeOK
<1>1. Invariant => TypeOK
    BY DEF Invariant
<1> QED
    BY <1>1, InvariantHolds, PTL

\* The rows of a Result are those the query asked for up to the cap, and truncated is right, for
\* every cap, every LIMIT and every number of rows: the reason for the cap + 1 of _limit and of
\* fetchmany.
THEOREM CapCorrect == Spec => []CapIsExact
<1>1. Invariant => CapIsExact
    BY DEF Invariant
<1> QED
    BY <1>1, InvariantHolds, PTL

\* What a valid configuration lists is never refused for its functions, and what is never allowed
\* is never let through, for every policy and every query.
THEOREM FunctionsAsListed == Spec => []ListedFunctionsPass
<1>1. Invariant => ListedFunctionsPass
    <2> SUFFICES ASSUME Invariant PROVE ListedFunctionsPass
        OBVIOUS
    <2> USE DEF Invariant, FunctionsKept, FunctionsPass, DeniedBy
    <2>1. refusal = "FUNCTION_NOT_ALLOWED" => ~(tree.functions \subseteq policy.allowed_functions)
        BY DEF NothingAllowedIsDenied
    <2>2. PassedNesting => tree.functions \cap BUILTIN_DENIED_FUNCTIONS = {}
        OBVIOUS
    <2> QED
        BY <2>1, <2>2 DEF ListedFunctionsPass
<1> QED
    BY <1>1, InvariantHolds, PTL

\* A query is refused for its nesting exactly if more subqueries, derived tables and CTEs lie one
\* in another than the policy allows, for every query: the walk of subquery_depth counts those
\* levels, whatever lies between them.
THEOREM NestingCounted == Spec => []NestingIsCounted
<1>1. Invariant => NestingIsCounted
    <2> SUFFICES ASSUME Invariant PROVE NestingIsCounted
        OBVIOUS
    <2>1. op = "query" => (TooDeep(tree, policy) <=> NestsTooDeep)
        <3> SUFFICES ASSUME op = "query" PROVE TooDeep(tree, policy) <=> NestsTooDeep
            OBVIOUS
        <3>1. Nests(tree.scopes)
            BY ExecutionAssumption DEF Invariant, NestingKept
        <3>2. \A i \in DOMAIN tree.scopes :
                Depth(tree.scopes)[i] = Cardinality(Levels(tree.scopes, i))
            BY <3>1, DepthIsLevels
        <3> QED
            BY <3>2 DEF TooDeep, NestsTooDeep, Levels
    <2> QED
        BY <2>1 DEF Invariant, NestingKept, PassedNesting, NestingIsCounted
<1> QED
    BY <1>1, InvariantHolds, PTL

\* execute() leaves no transaction and no connection behind, whatever failed.
THEOREM AlwaysCleansUp == Spec => []NothingLeftOpen
<1>1. Invariant => NothingLeftOpen
    BY DEF Invariant, LinkKept, NothingLeftOpen
<1> QED
    BY <1>1, InvariantHolds, PTL
=============================================================================
