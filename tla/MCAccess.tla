------------------------------ MODULE MCAccess ------------------------------
EXTENDS Access, TLC

CONSTANTS orders, users, x, y, public, admin

\* No profiles; one that may read a column of one table, and one that may also read all of the
\* other; one that may read everything.
MCConfigs ==
    {[profiles |-> None, default |-> None],
     [profiles |-> public :> (orders :> {x}) @@ admin :> (orders :> {x} @@ users :> Everything),
      default |-> public],
     [profiles |-> admin :> Everything, default |-> None]}

\* Every query over at most three tables with one reference, which is checked as if it were alone,
\* or none, and every NATURAL JOIN.
MCQueries ==
    {q \in [outer : (SUBSET Tables) \ {{}}, inner : SUBSET Tables, natural : BOOLEAN,
            refs : {{}} \cup {{ref} : ref \in Refs}] :
        /\ Cardinality(q.outer) + Cardinality(q.inner) <= 3
        /\ q.inner = {} => \A ref \in q.refs : ref.in = "outer"
        /\ q.natural => q.outer = Tables /\ q.inner = {}}

\* The second table may come to exist after a query was qualified.
MCWarehouses == {orders :> {x, y} @@ users :> {}}
=============================================================================
