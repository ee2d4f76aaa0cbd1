----------------------------- MODULE Execution -----------------------------
(***************************************************************************)
(* From a query's text to its rows, but for the access check: the parse    *)
(* and shape checks refuse it or rewrite its LIMIT (pipeline/shape.py),    *)
(* PostgresEngine.execute (engines/postgres.py) runs it in a read-only     *)
(* transaction of a connection of its own, through a server-side cursor,   *)
(* and the row cap cuts off what it fetched.  tables() reads the catalog   *)
(* in a transaction of the same kind.  The connection may be lost at any   *)
(* time.                                                                   *)
(***************************************************************************)
EXTENDS Shape, FiniteSets

CONSTANTS
    MaxRows,  \* max_rows, the row cap
    Limits,   \* row counts that a LIMIT may name
    Yields,   \* how many rows a query may have, but for its LIMIT
    Trees,    \* the queries, as Shape sees them
    Policies, \* the shape sections of configurations, valid or not
    Unread    \* no tree, no policy: the checks are not involved

ASSUME ExecutionAssumption ==
    /\ MaxRows \in Nat \ {0} /\ Limits \subseteq Nat /\ Yields \subseteq Nat
    /\ \A t \in Trees : Nests(t.scopes)

VARIABLES
    op,         \* "query" (checked, then run), or execute() or tables() called directly
    tree,       \* the query
    policy,     \* shape, but for its limit
    rule,       \* shape.limit: "inject" or "require"
    clause,     \* the query's LIMIT: "none", "rows", or "invalid" (PERCENT, an expression, ...)
    value,      \* the row count of a "rows" clause
    yields,     \* the rows the query would have without a LIMIT
    pc,         \* the next step
    refusal,    \* the code of the refusal
    sent,       \* the LIMIT of the query that execute() gets
    link,       \* the connection: "none", "up", "lost" or "closed"
    tx,         \* its transaction on the server: "none", "open" or "failed"
    fetched,    \* how many rows fetchmany() returned
    raised,     \* the exception that leaves execute()
    rows,       \* how many rows the Result has
    truncated   \* its truncated flag

query == <<op, tree, policy, rule, clause, value, yields>>
vars == <<query, pc, refusal, sent, link, tx, fetched, raised, rows, truncated>>

Lesser(m, n) == IF m < n THEN m ELSE n

\* A query that goes through the checks, or one handed to execute() directly, which must hold
\* "even if every check in front of it is wrong".
Init ==
    /\ rule \in {"inject", "require"}
    /\ clause \in {"none", "rows", "invalid"}
    /\ value \in Limits
    /\ yields \in Yields
    /\ \/ /\ op = "query" /\ pc = "check" /\ sent = 0
          /\ tree \in Trees
          /\ policy \in {rules \in Policies : NothingAllowedIsDenied(rules)}
       \/ /\ op = "execute" /\ pc = "connect" /\ sent = value
          /\ tree = Unread /\ policy = Unread /\ clause = "rows"
       \/ /\ op = "tables" /\ pc = "connect" /\ sent = 0
          /\ tree = Unread /\ policy = Unread /\ clause = "none"
    /\ refusal = "none"
    /\ link = "none" /\ tx = "none"
    /\ fetched = 0
    /\ raised = "none"
    /\ rows = 0 /\ truncated = FALSE
-----------------------------------------------------------------------------
(* ParseCheck and ShapeCheck.                                              *)

\* _limit's refusals.
LimitRefusal ==
    CASE clause = "invalid"                                          -> "INVALID_LIMIT"
      [] clause = "none" /\ rule = "require"                         -> "LIMIT_REQUIRED"
      [] clause = "rows" /\ rule = "require" /\ value > MaxRows      -> "LIMIT_TOO_HIGH"
      [] OTHER                                                       -> "none"

Refusal ==
    LET shape == ShapeRefusal(tree, policy)
    IN  IF shape # "none" THEN shape ELSE LimitRefusal

\* Mutant of Rewritten: the row past the cap is forgotten.
RewrittenToCap == IF clause = "none" \/ value > MaxRows THEN MaxRows ELSE value

\* One row past the cap is left, so that the engine can still tell that rows were cut off.
Rewritten == IF clause = "none" \/ value > MaxRows + 1 THEN MaxRows + 1 ELSE value

Refuse ==
    /\ pc = "check"
    /\ Refusal # "none"
    /\ refusal' = Refusal
    /\ pc' = "over"
    /\ UNCHANGED <<query, sent, link, tx, fetched, raised, rows, truncated>>

Allow ==
    /\ pc = "check"
    /\ Refusal = "none"
    /\ sent' = Rewritten
    /\ pc' = "connect"
    /\ UNCHANGED <<query, refusal, link, tx, fetched, raised, rows, truncated>>
-----------------------------------------------------------------------------
(* PostgresEngine.execute and tables.                                      *)

Connect ==
    /\ pc = "connect"
    /\ link' = "up"
    /\ pc' = "begin"
    /\ UNCHANGED <<query, refusal, sent, tx, fetched, raised, rows, truncated>>

ConnectFails ==
    /\ pc = "connect"
    /\ raised' = "EngineUnavailable"
    /\ pc' = "over"
    /\ UNCHANGED <<query, refusal, sent, link, tx, fetched, rows, truncated>>

\* A statement that succeeds: set_config, which begins the transaction; DECLARE; FETCH; CLOSE.
Succeeds(step, next) ==
    /\ pc = step
    /\ link = "up"
    /\ pc' = next
    /\ UNCHANGED <<query, refusal, sent, link, raised, rows, truncated>>

Begin ==
    /\ Succeeds("begin", IF op = "tables" THEN "select" ELSE "declare")
    /\ tx' = "open"
    /\ UNCHANGED fetched

\* tables(): the query of the catalog.
Select == Succeeds("select", "rollback") /\ UNCHANGED <<tx, fetched>>

Declare == Succeeds("declare", "fetch") /\ UNCHANGED <<tx, fetched>>

\* Mutant of Fetch: fetchall().
FetchAll ==
    /\ Succeeds("fetch", "close")
    /\ fetched' = Lesser(sent, yields)
    /\ UNCHANGED tx

Fetch ==
    /\ Succeeds("fetch", "close")
    /\ fetched' = Lesser(MaxRows + 1, Lesser(sent, yields))
    /\ UNCHANGED tx

CloseCursor == Succeeds("close", "rollback") /\ UNCHANGED <<tx, fetched>>

\* Mutant of Fails: an engine error skips the rollback.
FailsWithoutRollback ==
    /\ pc \in {"begin", "select", "declare", "fetch", "close"}
    /\ raised' \in (IF link = "up" THEN {"QueryFailed", "QueryTimeout"} ELSE {"QueryFailed"})
    /\ tx' = IF link = "up" THEN "failed" ELSE "none"
    /\ pc' = "over"
    /\ UNCHANGED <<query, refusal, sent, link, fetched, rows, truncated>>

\* One that fails: an error or the statement timeout, or the connection turns out to be lost.
Fails ==
    /\ pc \in {"begin", "select", "declare", "fetch", "close"}
    /\ raised' \in (IF link = "up" THEN {"QueryFailed", "QueryTimeout"} ELSE {"QueryFailed"})
    /\ tx' = IF link = "up" THEN "failed" ELSE "none"
    /\ pc' = "rollback"
    /\ UNCHANGED <<query, refusal, sent, link, fetched, rows, truncated>>

\* finally: conn.rollback(), then conn.close() as the `with` block ends, and the Result.
Rollback ==
    /\ pc = "rollback"
    /\ link = "up"
    /\ tx' = "none"
    /\ link' = "closed"
    /\ pc' = "over"
    /\ \/ /\ raised = "none"
          /\ rows' = Lesser(fetched, MaxRows)
          /\ truncated' = (fetched > MaxRows)
       \/ /\ raised # "none"
          /\ UNCHANGED <<rows, truncated>>
    /\ UNCHANGED <<query, refusal, sent, fetched, raised>>

\* On a lost connection rollback() raises psycopg's error, outside the handlers: it takes the
\* place of an engine error, and of the rows.
RollbackFails ==
    /\ pc = "rollback"
    /\ link = "lost"
    /\ raised' = "psycopg.OperationalError"
    /\ link' = "closed"
    /\ pc' = "over"
    /\ UNCHANGED <<query, refusal, sent, tx, fetched, rows, truncated>>

\* The server rolls back what was open.
ConnectionLost ==
    /\ link = "up"
    /\ link' = "lost"
    /\ tx' = "none"
    /\ UNCHANGED <<query, pc, refusal, sent, fetched, raised, rows, truncated>>

Done == pc = "over" /\ UNCHANGED vars

Next ==
    \/ Refuse \/ Allow
    \/ Connect \/ ConnectFails \/ Begin \/ Select \/ Declare \/ Fetch \/ CloseCursor \/ Fails
    \/ Rollback \/ RollbackFails
    \/ ConnectionLost
    \/ Done

Spec == Init /\ [][Next]_vars
-----------------------------------------------------------------------------
(* Properties.                                                             *)

\* The type of an execution's state: no more than one row past the cap is ever held in memory
\* ("A server-side cursor streams rows, so the row cap bounds memory too").
TypeOK ==
    /\ op \in {"query", "execute", "tables"}
    /\ tree \in Trees \cup {Unread} /\ policy \in Policies \cup {Unread}
    /\ rule \in {"inject", "require"} /\ clause \in {"none", "rows", "invalid"}
    /\ value \in Nat /\ yields \in Nat
    /\ pc \in {"check", "connect", "begin", "select", "declare", "fetch", "close", "rollback", "over"}
    /\ refusal \in ShapeCodes \cup {"none", "INVALID_LIMIT", "LIMIT_REQUIRED", "LIMIT_TOO_HIGH"}
    /\ sent \in Nat
    /\ link \in {"none", "up", "lost", "closed"}
    /\ tx \in {"none", "open", "failed"}
    /\ fetched \in 0..MaxRows + 1
    /\ raised \in {"none", "EngineUnavailable", "QueryFailed", "QueryTimeout",
                   "psycopg.OperationalError"}
    /\ rows \in 0..MaxRows
    /\ truncated \in BOOLEAN

\* What the query asks for: its rows, up to its own LIMIT.
Own == IF clause = "none" THEN yields ELSE Lesser(value, yields)

HasResult == op # "tables" /\ pc = "over" /\ refusal = "none" /\ raised = "none"

\* "True when the query produced more rows than the engine's row cap": a Result has the rows
\* the query asked for up to the cap, and says that there are more exactly when there are,
\* whether its LIMIT was its own, added, lowered, or never checked, at and next to the cap too.
CapIsExact ==
    HasResult => rows = Lesser(Own, MaxRows) /\ (truncated <=> Own > MaxRows)

\* "a read-only transaction with the statement timeout, rolled back after": however execute()
\* ends, it leaves no transaction behind, nor a connection.
NothingLeftOpen == pc = "over" => tx = "none" /\ link \in {"none", "closed"}

\* The scopes a scope is in, itself included: what every set with it and its members' parents has.
Around(scopes, scope) ==
    {i \in DOMAIN scopes :
        \A closed \in SUBSET DOMAIN scopes :
            scope \in closed /\ (\A j \in closed : scopes[j].parent \in closed \cup {0}) => i \in closed}

\* There are more subqueries, derived tables and CTEs one in another than the policy allows.
NestsTooDeep ==
    \E scope \in DOMAIN tree.scopes :
        Cardinality({i \in Around(tree.scopes, scope) :
                        tree.scopes[i].parent # 0 /\ tree.scopes[i].type \in Nested})
            > policy.max_subquery_depth

PassedNesting == op = "query" /\ pc # "check" /\ refusal \notin ShapeCodes

\* "subqueries and CTEs nest N levels deep": a query is refused for its nesting only if it nests
\* too deep, and none that does is let through, however union branches and laterals lie between.
NestingIsCounted ==
    /\ refusal = "SUBQUERY_TOO_DEEP" => NestsTooDeep
    /\ PassedNesting => ~NestsTooDeep

\* allowed_functions are "allowed anyway" and the built-in ones are "refused whatever the config
\* says": the configuration's validation and the check keep both promises together.
ListedFunctionsPass ==
    /\ refusal = "FUNCTION_NOT_ALLOWED" => ~(tree.functions \subseteq policy.allowed_functions)
    /\ PassedNesting => tree.functions \cap BUILTIN_DENIED_FUNCTIONS = {}
-----------------------------------------------------------------------------
(* What the documentation says that the code does not do.                  *)

\* postgres.py on _read_only: "Database errors inside the block come out as engine errors".
\* That of a lost connection comes out as the OperationalError of the rollback that follows it.
DatabaseErrorsAreEngineErrors == raised # "psycopg.OperationalError"
=============================================================================
