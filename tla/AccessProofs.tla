---------------------------- MODULE AccessProofs ----------------------------
(***************************************************************************)
(* Proofs about Access: for any policy files, queries and schemas, however *)
(* often the schema changes, the database reads for an approved query only *)
(* what the policy file grants, and list_tables and the check agree.       *)
(***************************************************************************)
EXTENDS Access, TLAPS

\* The profile is the one that was asked for.
Served ==
    /\ pc # "start" => profile = Select(config, requested)
    /\ pc \notin {"start", "stopped"} => profile # None

\* A check has ended.
Verdict == pc = "refused" \/ (pc = "approved" /\ access # None)

\* A check is under way or has approved its query.
Passing == pc = "checking" \/ (pc = "approved" /\ access # None)

\* A query is checked only for a profile with rules, and passes only without NATURAL JOIN.
Checked ==
    /\ pc \in {"checking", "refused", "approved"} => query \in Queries
    /\ pc = "checking" \/ Verdict =>
        /\ access # None
        /\ schema \in Catalogs
        /\ query.natural => pc = "refused"

\* A search is for a bare name of the scope that is being checked.
SearchKept ==
    search # None =>
        /\ pc = "checking"
        /\ search.ref \in refs /\ search.ref.kind = "name" /\ search.ref.in = scope

\* What is left to check is of this scope or the next; nothing is left of an approved query.
LeftToCheck ==
    /\ pc = "checking" /\ scope = "outer" => \A ref \in refs : ref.in = "outer"
    /\ pc = "approved" /\ access # None => scope = "outer" /\ sources = {} /\ refs = {}

\* Every table of the query is still to be checked, or the profile may read some of it.
TablesPass ==
    Passing =>
        /\ \A t \in query.inner :
            (scope = "inner" /\ t \in sources) \/ ColumnsOf(access, t) # None
        /\ \A t \in query.outer :
            scope = "inner" \/ t \in sources \/ ColumnsOf(access, t) # None

\* The profile may read what the reference, as qualified, names.
Cleared(ref) ==
    /\ ref.kind = "column" =>
        LET allowed == ColumnsOf(access, ref.table)
        IN  allowed = Everything \/ (allowed # None /\ ref.name \in allowed)
    /\ ref.kind = "star" => ColumnsOf(access, ref.table) = Everything
    /\ ref.kind = "all" => \A t \in Own(query, ref.in) : ColumnsOf(access, t) = Everything

\* Every reference that was qualified is still to be checked, or was cleared.
RefsPass ==
    Passing =>
        \A ref \in query.refs :
            LET qualified == Qualified(query, ref, schema)
            IN  qualified.kind = "name" \/ qualified \in refs \/ Cleared(qualified)

\* Of a query that the database would run, nothing is left to check but its tables and its
\* references as qualified: none of them is a name left bare, to be searched for.
NothingElse ==
    pc = "checking" /\ Runs(query, schema) =>
        /\ search = None
        /\ sources \subseteq query.inner \cup query.outer
        /\ refs \subseteq {Qualified(query, ref, schema) : ref \in query.refs}

\* A query that the database would run is refused for what the profile may not read.
Refusals ==
    pc = "refused" /\ steady /\ Runs(query, schema) =>
        \/ query.natural
        \/ \E t \in query.outer \cup query.inner : ColumnsOf(access, t) = None
        \/ \E ref \in query.refs : ~Cleared(Qualified(query, ref, schema))

Kept ==
    /\ Served /\ Checked /\ SearchKept /\ LeftToCheck /\ TablesPass /\ RefsPass
    /\ NothingElse /\ Refusals

Invariant == TypeOK /\ Kept
-----------------------------------------------------------------------------
(* Lemmas about names.                                                     *)

\* A query of the runs is a record of this shape.
Shapes == [outer : SUBSET Tables, inner : SUBSET Tables, natural : BOOLEAN, refs : SUBSET Refs]

\* Only finds the element of a singleton.
LEMMA OnlyOne == ASSUME NEW e PROVE Only({e}) = e
  BY DEF Only

\* What Only finds is all there is.
LEMMA OnlyIs ==
  ASSUME NEW S, Only(S) # None
  PROVE  Only(S) \in S /\ S = {Only(S)}
  BY DEF Only

\* Only finds nothing in nothing.
LEMMA OnlyNothing == Only({}) = None
  BY DEF Only

\* A guess is one of the tables.
LEMMA GuessType ==
  ASSUME NEW tables, NEW name, NEW catalog, Guess(tables, name, catalog) # None
  PROVE  Guess(tables, name, catalog) \in tables
  BY OnlyIs DEF Guess

\* If one table has the name, qualify() takes that one.
LEMMA GuessOne ==
  ASSUME NEW tables \in SUBSET Tables, NEW name, NEW catalog, NEW t \in tables,
         \A u \in tables : name \in catalog[u] <=> u = t
  PROVE  Guess(tables, name, catalog) = t
<1>1. {u \in tables : name \in catalog[u]} = {t}
  OBVIOUS
<1> QED
  BY <1>1, OnlyOne DEF Guess

\* If no table has it, and the schema is not empty, qualify() takes none.
LEMMA GuessNone ==
  ASSUME NEW tables, NEW name, NEW catalog,
         \A u \in tables : name \notin catalog[u], \E u \in Tables : catalog[u] # {}
  PROVE  Guess(tables, name, catalog) = None
<1>1. {u \in tables : name \in catalog[u]} = {}
  OBVIOUS
<1> QED
  BY <1>1, OnlyNothing DEF Guess

\* What the references of each kind consist of.
LEMMA RefType ==
  ASSUME NEW ref \in Refs
  PROVE  /\ ref.in \in Scopes
         /\ ref.kind \in {"column", "name", "star", "all"}
         /\ ref.kind \in {"column", "star"} => ref.table \in Tables
         /\ ref.kind \in {"column", "name"} => ref.name \in Columns
  BY DEF Refs

\* A column of a table is a reference.
LEMMA ColumnRef ==
  ASSUME NEW in \in Scopes, NEW t \in Tables, NEW c \in Columns
  PROVE  [in |-> in, kind |-> "column", table |-> t, name |-> c] \in Refs
  BY DEF Refs

\* A reference stays one when it is qualified, and stays where it is; only names change.
LEMMA QualifiedType ==
  ASSUME NEW q \in Shapes, NEW ref \in q.refs, NEW catalog
  PROVE  /\ Qualified(q, ref, catalog) \in Refs
         /\ ref.kind # "name" => Qualified(q, ref, catalog) = ref
<1>1. ref \in Refs /\ q.inner \subseteq Tables /\ q.outer \subseteq Tables
  BY DEF Shapes
<1> DEFINE inner == IF ref.in = "inner" THEN Guess(q.inner, ref.name, catalog) ELSE None
           table == IF inner # None THEN inner ELSE Guess(q.outer, ref.name, catalog)
<1>2. table # None => table \in Tables
  BY <1>1, GuessType
<1>3. CASE ref.kind = "name" /\ table # None
  <2>1. Qualified(q, ref, catalog)
            = [in |-> ref.in, kind |-> "column", table |-> table, name |-> ref.name]
    BY <1>3 DEF Qualified
  <2> QED
    BY <1>1, <1>2, <1>3, <2>1, RefType, ColumnRef
<1>4. CASE ~(ref.kind = "name" /\ table # None)
  BY <1>1, <1>4 DEF Qualified
<1> QED
  BY <1>3, <1>4

\* If the database takes a bare name for a column of one table, then qualify() has put that table
\* before it.
LEMMA QualifiedAsMeant ==
  ASSUME NEW q \in Shapes, NEW ref \in q.refs, NEW catalog, ref.kind = "name",
         Only(Candidates(q, ref, catalog)) # None
  PROVE  \E t \in Visible(q, ref.in) :
            /\ Candidates(q, ref, catalog) = {t}
            /\ ref.name \in catalog[t]
            /\ Qualified(q, ref, catalog)
                    = [in |-> ref.in, kind |-> "column", table |-> t, name |-> ref.name]
<1> DEFINE t == Only(Candidates(q, ref, catalog))
           within == {u \in q.inner : ref.name \in catalog[u]}
           around == {u \in q.outer : ref.name \in catalog[u]}
           inner == IF ref.in = "inner" THEN Guess(q.inner, ref.name, catalog) ELSE None
           table == IF inner # None THEN inner ELSE Guess(q.outer, ref.name, catalog)
<1>1. t # None /\ t \in Candidates(q, ref, catalog) /\ Candidates(q, ref, catalog) = {t}
  BY OnlyIs
<1>2. /\ t \in Visible(q, ref.in) /\ ref.name \in catalog[t]
      /\ q.inner \subseteq Tables /\ q.outer \subseteq Tables
  BY <1>1 DEF Candidates, Visible, Shapes
<1>3. table = t
  <2>1. CASE ref.in = "inner" /\ within # {}
    <3>1. t \in q.inner /\ \A u \in q.inner : ref.name \in catalog[u] <=> u = t
      BY <1>1, <2>1 DEF Candidates
    <3>2. Guess(q.inner, ref.name, catalog) = t
      BY <1>2, <3>1, GuessOne
    <3> QED
      BY <1>1, <2>1, <3>2
  <2>2. CASE ref.in = "inner" /\ within = {}
    <3>1. t \in q.outer /\ \A u \in q.outer : ref.name \in catalog[u] <=> u = t
      BY <1>1, <2>2 DEF Candidates
    <3>2. \E u \in Tables : catalog[u] # {}
      BY <1>2, <3>1
    <3>3. inner = None
      BY <2>2, <3>2, GuessNone
    <3>4. Guess(q.outer, ref.name, catalog) = t
      BY <1>2, <3>1, GuessOne
    <3> QED
      BY <3>3, <3>4
  <2>3. CASE ref.in # "inner"
    <3>1. t \in q.outer /\ \A u \in q.outer : ref.name \in catalog[u] <=> u = t
      BY <1>1, <2>3 DEF Candidates
    <3>2. Guess(q.outer, ref.name, catalog) = t
      BY <1>2, <3>1, GuessOne
    <3> QED
      BY <2>3, <3>2
  <2> QED
    BY <2>1, <2>2, <2>3
<1>4. Qualified(q, ref, catalog)
        = [in |-> ref.in, kind |-> "column", table |-> t, name |-> ref.name]
  BY <1>1, <1>3 DEF Qualified
<1> QED
  BY <1>1, <1>2, <1>4

\* Of a query that runs, every bare name means a column of one table, unless it is merged.
LEMMA RunsMeans ==
  ASSUME NEW q \in Shapes, NEW ref \in q.refs, NEW catalog, ref.kind = "name",
         Runs(q, catalog), ~q.natural
  PROVE  Only(Candidates(q, ref, catalog)) # None
<1>1. ~Fails(q, ref, catalog)
  BY DEF Runs
<1>2. Merged(q, catalog) = {}
  BY DEF Merged
<1> QED
  BY <1>1, <1>2 DEF Fails
-----------------------------------------------------------------------------
(* The initial states, and types.                                          *)

\* The queries have the shape that the lemmas ask for.
LEMMA QueriesHaveShape == Queries \subseteq Shapes
  BY AccessAssumption DEF Shapes

\* A lookup finds a schema.
LEMMA LookType ==
  ASSUME TypeOK, Look
  PROVE  snapshot' \in Catalogs
  BY DEF TypeOK, Look

\* The served profile is one of the policy file's, or the implicit one.
LEMMA SelectType ==
  ASSUME NEW c \in Configs, NEW name
  PROVE  Select(c, name) \in
            {None} \cup [name : Names \cup {Implicit}, access : TableRules \cup {None}]
<1>1. ValidConfig(c)
  BY AccessAssumption
<1> DEFINE picked == IF name \in {None, Empty} THEN c.default ELSE name
<1>2. CASE c.profiles = None
  BY <1>2 DEF Select
<1>3. CASE c.profiles # None /\ picked # None /\ picked \in DOMAIN c.profiles
  <2>1. picked \in Names /\ c.profiles[picked] \in TableRules
    BY <1>1, <1>3 DEF ValidConfig
  <2>2. Select(c, name) = [name |-> picked, access |-> c.profiles[picked]]
    BY <1>3 DEF Select
  <2> QED
    BY <2>1, <2>2
<1>4. CASE c.profiles # None /\ ~(picked # None /\ picked \in DOMAIN c.profiles)
  BY <1>4 DEF Select
<1> QED
  BY <1>2, <1>3, <1>4

\* What the database reads is columns of tables.
LEMMA ReadsType ==
  ASSUME NEW q \in Shapes, NEW catalog
  PROVE  Reads(q, catalog) \subseteq Tables \X Columns
<1>1. q.outer \X Merged(q, catalog) \subseteq Tables \X Columns
  BY DEF Merged, Shapes
<1>2. ASSUME NEW ref \in q.refs
      PROVE  Meaning(q, ref, catalog) \subseteq Tables \X Columns
  <2>1. ref \in Refs /\ q.inner \subseteq Tables /\ q.outer \subseteq Tables
    BY DEF Shapes
  <2>2. Own(q, ref.in) \subseteq Tables
    BY <2>1 DEF Own
  <2>3. Candidates(q, ref, catalog) \subseteq Tables
    BY <2>1 DEF Candidates
  <2>4. CASE ref.kind = "column"
    BY <2>1, <2>4, RefType DEF Meaning
  <2>5. CASE ref.kind = "name"
    BY <2>1, <2>3, <2>5, RefType DEF Meaning
  <2>6. CASE ref.kind = "star"
    BY <2>1, <2>6, RefType DEF Meaning
  <2>7. CASE ref.kind = "all"
    BY <2>1, <2>2, <2>7 DEF Meaning
  <2> QED
    BY <2>1, <2>4, <2>5, <2>6, <2>7, RefType
<1> QED
  BY <1>1, <1>2 DEF Reads

\* The invariant holds at first.
LEMMA InitInvariant == Init => Invariant
<1> SUFFICES ASSUME Init PROVE Invariant
  OBVIOUS
<1>1. TypeOK
  BY AccessAssumption DEF Init, TypeOK, Scopes
<1>2. Kept
  BY DEF Init, Kept, Served, Checked, Verdict, Passing, SearchKept, LeftToCheck, TablesPass,
         RefsPass, NothingElse, Refusals
<1> QED
  BY <1>1, <1>2 DEF Invariant

\* Every step keeps the types; a search needs a name to look for.
LEMMA TypeStep ==
  ASSUME Invariant, Next
  PROVE  TypeOK'
<1> USE DEF TypeOK
<1>0. TypeOK /\ SearchKept /\ Checked
  BY DEF Invariant, Kept
<1>1. CASE Pick
  BY <1>0, <1>1, SelectType DEF Pick, world, check
<1>2. CASE Stopped
  BY <1>0, <1>2 DEF Stopped, vars, server, world, check
<1>3. CASE ListTables
  BY <1>0, <1>3, LookType DEF ListTables, server, world, check
<1>4. ASSUME NEW q \in Queries, Begin(q)
      PROVE  TypeOK'
  <2>1. snapshot' \in Catalogs /\ q \in Shapes
    BY <1>0, <1>4, LookType, QueriesHaveShape DEF Begin
  <2>2. refs' \subseteq Refs
    BY <1>4, <2>1, QualifiedType DEF Begin
  <2>3. sources' \subseteq Tables
    BY <1>4, <2>1 DEF Begin, Shapes
  <2> QED
    BY <1>0, <1>4, <2>1, <2>2, <2>3 DEF Begin, server, world, Scopes
<1>5. ASSUME NEW q \in Queries, Skip(q)
      PROVE  TypeOK'
  BY <1>0, <1>5 DEF Skip, server, world, check
<1>6. CASE CatalogFails
  BY <1>0, <1>6 DEF CatalogFails, server, world
<1>7. ASSUME NEW t \in Tables, CheckTable(t)
      PROVE  TypeOK'
  <2>1. snapshot' \in Catalogs \cup {None}
    BY <1>0, <1>7, LookType DEF CheckTable, LookAgain
  <2> QED
    BY <1>0, <1>7, <2>1 DEF CheckTable, Refuse, server, world
<1>8. ASSUME NEW t \in Tables, SearchTable(t)
      PROVE  TypeOK'
  <2>1. snapshot' \in Catalogs
    BY <1>0, <1>8, LookType DEF SearchTable, LookAgain
  <2>2. search' \in [ref : Refs, left : SUBSET Tables, found : SUBSET Tables]
    BY <1>0, <1>8 DEF SearchTable
  <2> QED
    BY <1>0, <1>8, <2>1, <2>2 DEF SearchTable, server, world
<1>9. ASSUME NEW ref \in refs, CheckStar(ref)
      PROVE  TypeOK'
  BY <1>0, <1>9 DEF CheckStar, Conclude, Refuse, server, world
<1>10. ASSUME NEW ref \in refs, CheckColumn(ref)
       PROVE  TypeOK'
  <2>1. snapshot' \in Catalogs
    BY <1>0, <1>10, LookType DEF CheckColumn, LookAgain
  <2> QED
    BY <1>0, <1>10, <2>1 DEF CheckColumn, Conclude, Refuse, server, world
<1>11. ASSUME NEW ref \in refs, Search(ref)
       PROVE  TypeOK'
  <2>1. query \in Shapes
    BY <1>0, <1>11, QueriesHaveShape DEF Search, Current, Checking, Checked
  <2>2. Own(query, ref.in) \subseteq Tables
    BY <2>1 DEF Own, Shapes
  <2>3. search' \in [ref : Refs, left : SUBSET Tables, found : SUBSET Tables]
    BY <1>0, <1>11, <2>2 DEF Search
  <2> QED
    BY <1>0, <1>11, <2>3 DEF Search, server, world
<1>12. CASE Searched
  <2>1. search.ref \in Refs /\ search.ref.kind = "name" /\ search.found \subseteq Tables
    BY <1>0, <1>12 DEF Searched, SearchKept
  <2>2. Only(search.found) # None =>
            [in |-> search.ref.in, kind |-> "column", table |-> Only(search.found),
             name |-> search.ref.name] \in Refs
    BY <2>1, OnlyIs, RefType, ColumnRef
  <2>3. refs' \subseteq Refs
    BY <1>0, <1>12, <2>2 DEF Searched
  <2> QED
    BY <1>0, <1>12, <2>3 DEF Searched, server, world
<1>13. CASE NextScope
  <2>1. query.outer \subseteq Tables
    BY <1>0, <1>13, QueriesHaveShape DEF NextScope, Checking, Checked, Shapes
  <2> QED
    BY <1>0, <1>13, <2>1 DEF NextScope, Scopes, server, world
<1>14. CASE Run
  <2>1. query \in Queries
    BY <1>0, <1>14 DEF Run, Checked, Verdict
  <2> QED
    BY <1>0, <1>14, <2>1, ReadsType, QueriesHaveShape DEF Run, server, world, check
<1>15. CASE Answered
  BY <1>0, <1>15 DEF Answered, server, world, Scopes
<1>16. CASE SchemaChanges
  <2>1. warehouse' \in Catalogs
    BY <1>0, <1>16 DEF SchemaChanges, Catalogs
  <2>2. changes' \in 0..MaxChanges
    BY <1>0, <1>16, AccessAssumption DEF SchemaChanges
  <2> QED
    BY <1>0, <1>16, <2>1, <2>2 DEF SchemaChanges, server, check
<1> QED
  BY <1>1, <1>2, <1>3, <1>4, <1>5, <1>6, <1>7, <1>8, <1>9, <1>10, <1>11, <1>12, <1>13, <1>14,
     <1>15, <1>16 DEF Next
-----------------------------------------------------------------------------
(* What each action keeps.                                                 *)

\* What the profile may read depends on the profile and the query alone.
LEMMA SameAccess ==
  ASSUME UNCHANGED <<server, query>>
  PROVE  access' = access /\ \A ref : Cleared(ref)' <=> Cleared(ref)
  BY DEF server, access, Cleared

\* A step that leaves server and check alone keeps what is known of them.
LEMMA Untouched ==
  ASSUME Kept, UNCHANGED <<server, pc, query, schema, check>>
  PROVE  Kept'
<1> USE DEF Kept, Passing, Verdict
<1>1. access' = access /\ \A ref : Cleared(ref)' <=> Cleared(ref)
  BY SameAccess
<1>2. Served' /\ Checked' /\ SearchKept' /\ LeftToCheck' /\ TablesPass'
  BY <1>1 DEF Served, Checked, SearchKept, LeftToCheck, TablesPass, server, check
<1>3. RefsPass' /\ NothingElse' /\ Refusals'
  BY <1>1 DEF RefsPass, NothingElse, Refusals, check
<1> QED
  BY <1>2, <1>3

\* Before a check and after it there is little to know.
LEMMA AwayStep ==
  ASSUME Kept, Pick \/ Run \/ Answered \/ \E q \in Queries : Skip(q)
  PROVE  Kept'
<1> USE DEF Kept, Passing, Verdict
<1>1. ~Passing' /\ pc' # "refused" /\ pc' # "checking"
  BY DEF Pick, Run, Answered, Skip, server, access
<1>2. Served'
  BY DEF Served, Pick, Run, Answered, Skip, server
<1>3. Checked'
  BY <1>1 DEF Checked, Pick, Run, Answered, Skip
<1>4. SearchKept'
  BY DEF SearchKept, Pick, Run, Answered, Skip, check
<1>5. LeftToCheck' /\ TablesPass' /\ RefsPass' /\ NothingElse' /\ Refusals'
  BY <1>1 DEF LeftToCheck, TablesPass, RefsPass, NothingElse, Refusals
<1> QED
  BY <1>2, <1>3, <1>4, <1>5

\* At first everything is left to check.
LEMMA BeginStep ==
  ASSUME Invariant, NEW q \in Queries, Begin(q)
  PROVE  Kept'
<1> USE DEF Invariant, Kept, Passing, Verdict
<1>1. access' = access /\ UNCHANGED server
  BY DEF Begin, server, access
<1>2. snapshot' \in Catalogs
  BY LookType DEF Begin
<1>3. Served' /\ Checked'
  BY <1>1, <1>2 DEF Begin, Served, Checked, server
<1>4. SearchKept' /\ LeftToCheck' /\ TablesPass'
  BY <1>1 DEF Begin, SearchKept, LeftToCheck, TablesPass
<1>5. RefsPass' /\ NothingElse' /\ Refusals'
  BY <1>1 DEF Begin, RefsPass, NothingElse, Refusals
<1> QED
  BY <1>3, <1>4, <1>5

\* A failing engine is no reason of the check's.
LEMMA CatalogFailsStep ==
  ASSUME Invariant, CatalogFails
  PROVE  Kept'
<1> USE DEF Invariant, Kept, Passing, Verdict, CatalogFails
<1>1. access' = access /\ UNCHANGED server
  BY DEF server, access
<1>2. Served' /\ Checked' /\ SearchKept' /\ LeftToCheck' /\ TablesPass'
  BY <1>1 DEF Served, Checked, SearchKept, LeftToCheck, TablesPass, server
<1>3. RefsPass' /\ NothingElse' /\ Refusals'
  BY <1>1 DEF RefsPass, NothingElse, Refusals
<1> QED
  BY <1>2, <1>3

\* A table passes if the profile may read some of it; a table of a query that runs exists.
LEMMA CheckTableStep ==
  ASSUME Invariant, NEW t \in Tables, CheckTable(t)
  PROVE  Kept'
<1> USE DEF Invariant, Kept, Passing, Verdict
<1>1. /\ access' = access /\ \A ref : Cleared(ref)' <=> Cleared(ref)
      /\ UNCHANGED <<server, query, schema, scope, refs, search>>
      /\ pc = "checking" /\ search = None /\ t \in sources
      /\ pc' \in {"checking", "refused"}
  BY SameAccess DEF CheckTable, Checking, Refuse, server
<1>2. Served' /\ Checked' /\ SearchKept' /\ LeftToCheck'
  BY <1>1 DEF Served, Checked, SearchKept, LeftToCheck, server
<1>3. TablesPass'
  BY <1>1 DEF CheckTable, Refuse, TablesPass
<1>4. RefsPass'
  BY <1>1 DEF RefsPass
<1>5. NothingElse'
  BY <1>1 DEF CheckTable, Refuse, NothingElse
<1>6. Refusals'
  <2> SUFFICES ASSUME pc' = "refused", steady', Runs(query, schema)
      PROVE  \E u \in query.outer \cup query.inner : ColumnsOf(access, u) = None
    BY <1>1 DEF Refusals
  <2>1. t \in query.outer \cup query.inner
    BY <1>1 DEF NothingElse
  <2>2. schema[t] # {}
    BY <2>1 DEF Runs
  <2>3. ColumnsOf(access, t) = None
    BY <1>1, <2>2 DEF CheckTable, LookAgain
  <2> QED
    BY <2>1, <2>3
<1> QED
  BY <1>2, <1>3, <1>4, <1>5, <1>6

\* Of a query that runs, every reference as qualified names tables that it may name and, if a
\* column, one that its table has.
LEMMA RunsQualified ==
  ASSUME NEW q \in Shapes, NEW ref \in q.refs, NEW catalog, Runs(q, catalog), ~q.natural,
         NEW f, f = Qualified(q, ref, catalog)
  PROVE  /\ f \in Refs /\ f.kind # "name"
         /\ f.kind \in {"column", "star"} => f.table \in Visible(q, f.in)
         /\ f.kind = "column" => f.name \in catalog[f.table]
<1>1. f \in Refs /\ (ref.kind # "name" => f = ref)
  BY QualifiedType
<1>2. CASE ref.kind = "name"
  <2>1. \E t \in Visible(q, ref.in) :
            /\ ref.name \in catalog[t]
            /\ f = [in |-> ref.in, kind |-> "column", table |-> t, name |-> ref.name]
    BY <1>2, RunsMeans, QualifiedAsMeant
  <2> QED
    BY <1>1, <2>1
<1>3. CASE ref.kind # "name"
  <2>1. ~Fails(q, f, catalog)
    BY <1>1, <1>3 DEF Runs
  <2> QED
    BY <1>1, <1>3, <2>1 DEF Fails
<1> QED
  BY <1>2, <1>3

\* While a query that runs is checked, that is so of every reference left.
LEMMA LeftIsQualified ==
  ASSUME Invariant, pc = "checking", Runs(query, schema), NEW f \in refs
  PROVE  /\ f \in Refs /\ f.kind # "name"
         /\ f.kind \in {"column", "star"} => f.table \in Visible(query, f.in)
         /\ f.kind = "column" => f.name \in schema[f.table]
         /\ \E ref \in query.refs : f = Qualified(query, ref, schema)
<1>1. query \in Shapes /\ ~query.natural
  BY QueriesHaveShape DEF Invariant, Kept, Checked
<1>2. PICK ref \in query.refs : f = Qualified(query, ref, schema)
  BY DEF Invariant, Kept, NothingElse
<1> QED
  BY <1>1, <1>2, RunsQualified

\* A reference that is checked is cleared, or the query is refused for it.
LEMMA ConcludeStep ==
  ASSUME Invariant, NEW ref \in refs, NEW ok, Current(ref), Conclude(ref, ok),
         UNCHANGED <<server, query, schema, scope>>,
         ok => Cleared(ref),
         steady' /\ Runs(query, schema) /\ ~ok => ~Cleared(ref)
  PROVE  Kept'
<1> USE DEF Kept, Passing, Verdict
<1>1. /\ access' = access /\ \A f : Cleared(f)' <=> Cleared(f)
      /\ pc = "checking" /\ search = None
      /\ \/ ok /\ refs' = refs \ {ref} /\ UNCHANGED <<pc, sources, search>>
         \/ ~ok /\ pc' = "refused" /\ UNCHANGED <<sources, refs, search>>
  BY SameAccess DEF Current, Checking, Conclude, Refuse
<1>2. Served' /\ Checked' /\ SearchKept' /\ LeftToCheck' /\ TablesPass'
  BY <1>1 DEF Invariant, Served, Checked, SearchKept, LeftToCheck, TablesPass, server
<1>3. RefsPass'
  BY <1>1 DEF Invariant, RefsPass
<1>4. NothingElse'
  BY <1>1 DEF Invariant, NothingElse
<1>5. Refusals'
  <2> SUFFICES ASSUME pc' = "refused", steady', Runs(query, schema)
      PROVE  \E r \in query.refs : ~Cleared(Qualified(query, r, schema))
    BY <1>1 DEF Refusals
  <2>1. ~Cleared(ref)
    BY <1>1
  <2> QED
    BY <1>1, <2>1, LeftIsQualified
<1> QED
  BY <1>2, <1>3, <1>4, <1>5

\* A star is cleared if the profile may read all of what it stands for.
LEMMA CheckStarStep ==
  ASSUME Invariant, NEW ref \in refs, CheckStar(ref)
  PROVE  Kept'
<1> DEFINE tables == IF ref.kind = "star" THEN {ref.table} ELSE Own(query, ref.in)
           ok == /\ tables \subseteq Visible(query, ref.in)
                 /\ \A t \in tables : ColumnsOf(access, t) = Everything
<1>1. /\ Current(ref) /\ ref.kind \in {"star", "all"} /\ Conclude(ref, ok)
      /\ UNCHANGED <<server, query, schema, scope>>
  BY DEF CheckStar
<1>2. ok => Cleared(ref)
  BY <1>1 DEF Cleared
<1>3. steady' /\ Runs(query, schema) /\ ~ok => ~Cleared(ref)
  <2> SUFFICES ASSUME Runs(query, schema), Cleared(ref) PROVE ok
    OBVIOUS
  <2>1. ref.kind = "star" => ref.table \in Visible(query, ref.in)
    BY <1>1, LeftIsQualified DEF Current, Checking
  <2>2. Own(query, ref.in) \subseteq Visible(query, ref.in)
    BY DEF Own, Visible
  <2> QED
    BY <1>1, <2>1, <2>2 DEF Cleared
<1> HIDE DEF ok
<1> QED
  BY <1>1, <1>2, <1>3, ConcludeStep

\* A column is cleared if the profile may read it; that of a query that runs is there.
LEMMA CheckColumnStep ==
  ASSUME Invariant, NEW ref \in refs, CheckColumn(ref)
  PROVE  Kept'
<1> DEFINE allowed == ColumnsOf(access, ref.table)
           ok == /\ ref.table \in Visible(query, ref.in)
                 /\ ref.name \in snapshot'[ref.table]
                 /\ allowed = Everything \/ (allowed # None /\ ref.name \in allowed)
<1>1. /\ Current(ref) /\ ref.kind = "column" /\ Conclude(ref, ok) /\ LookAgain
      /\ UNCHANGED <<server, query, schema, scope>>
  BY DEF CheckColumn
<1>2. ok => Cleared(ref)
  BY <1>1 DEF Cleared
<1>3. steady' /\ Runs(query, schema) /\ ~ok => ~Cleared(ref)
  <2> SUFFICES ASSUME steady', Runs(query, schema), Cleared(ref) PROVE ok
    OBVIOUS
  <2>1. ref.table \in Visible(query, ref.in) /\ ref.name \in schema[ref.table]
    BY <1>1, LeftIsQualified DEF Current, Checking
  <2>2. snapshot' = schema
    BY <1>1 DEF LookAgain
  <2> QED
    BY <1>1, <2>1, <2>2 DEF Cleared
<1> HIDE DEF ok
<1> QED
  BY <1>1, <1>2, <1>3, ConcludeStep

\* Only a query that does not run has a name to search for.
LEMMA SearchStep ==
  ASSUME Invariant, NEW ref \in refs, Search(ref)
  PROVE  Kept'
<1> USE DEF Kept, Passing, Verdict
<1>1. /\ access' = access /\ \A f : Cleared(f)' <=> Cleared(f)
      /\ UNCHANGED <<server, pc, query, schema, scope, sources, refs, steady>>
      /\ pc = "checking" /\ ref.kind = "name" /\ ref.in = scope /\ search'.ref = ref
  BY SameAccess DEF Search, Current, Checking
<1>2. Served' /\ Checked' /\ LeftToCheck' /\ TablesPass'
  BY <1>1 DEF Invariant, Served, Checked, LeftToCheck, TablesPass, server
<1>3. SearchKept'
  BY <1>1 DEF SearchKept
<1>4. RefsPass' /\ Refusals'
  BY <1>1 DEF Invariant, RefsPass, Refusals
<1>5. ~Runs(query, schema)
  BY <1>1, LeftIsQualified
<1>6. NothingElse'
  BY <1>1, <1>5 DEF NothingElse
<1> QED
  BY <1>2, <1>3, <1>4, <1>6

\* A search looks for the same name until it ends.
LEMMA SearchTableStep ==
  ASSUME Invariant, NEW t \in Tables, SearchTable(t)
  PROVE  Kept'
<1> USE DEF Kept, Passing, Verdict
<1>1. /\ access' = access /\ \A f : Cleared(f)' <=> Cleared(f)
      /\ UNCHANGED <<server, pc, query, schema, scope, sources, refs>>
      /\ search # None
  BY SameAccess DEF SearchTable
<1>2. search'.ref = search.ref
  BY <1>1 DEF SearchTable, Invariant, TypeOK
<1>3. pc = "checking" /\ ~Runs(query, schema)
  BY <1>1 DEF Invariant, SearchKept, NothingElse
<1>4. Served' /\ Checked' /\ LeftToCheck' /\ TablesPass'
  BY <1>1 DEF Invariant, Served, Checked, LeftToCheck, TablesPass, server
<1>5. SearchKept'
  BY <1>1, <1>2 DEF Invariant, SearchKept
<1>6. RefsPass'
  BY <1>1 DEF Invariant, RefsPass
<1>7. NothingElse' /\ Refusals'
  BY <1>1, <1>3 DEF NothingElse, Refusals
<1> QED
  BY <1>4, <1>5, <1>6, <1>7

\* What a search finds is a column of the scope that is being checked.
LEMMA SearchedStep ==
  ASSUME Invariant, Searched
  PROVE  Kept'
<1> USE DEF Kept, Passing, Verdict
<1>1. /\ access' = access /\ \A f : Cleared(f)' <=> Cleared(f)
      /\ UNCHANGED <<server, query, schema, scope, sources, steady>>
      /\ search # None /\ search' = None
      /\ \/ pc' = "refused"
         \/ /\ UNCHANGED pc
            /\ \E f : /\ f.in = search.ref.in
                      /\ refs' = (refs \ {search.ref}) \cup {f}
  BY SameAccess DEF Searched
<1>2. /\ pc = "checking" /\ ~Runs(query, schema)
      /\ search.ref.kind = "name" /\ search.ref.in = scope
  BY <1>1 DEF Invariant, SearchKept, NothingElse
<1>3. Served' /\ Checked' /\ SearchKept' /\ TablesPass'
  BY <1>1, <1>2 DEF Invariant, Served, Checked, SearchKept, TablesPass, server
<1>4. LeftToCheck'
  BY <1>1, <1>2 DEF Invariant, LeftToCheck
<1>5. RefsPass'
  BY <1>1, <1>2 DEF Invariant, RefsPass
<1>6. NothingElse' /\ Refusals'
  BY <1>1, <1>2 DEF NothingElse, Refusals
<1> QED
  BY <1>3, <1>4, <1>5, <1>6

\* A scope is left when nothing of it is left to check.
LEMMA NextScopeStep ==
  ASSUME Invariant, NextScope
  PROVE  Kept'
<1> USE DEF Kept, Passing, Verdict
<1>1. /\ access' = access /\ \A f : Cleared(f)' <=> Cleared(f)
      /\ UNCHANGED <<server, query, schema, refs, search, steady>>
      /\ pc = "checking" /\ search = None /\ sources = {} /\ \A ref \in refs : ref.in # scope
      /\ \/ scope = "inner" /\ scope' = "outer" /\ sources' = query.outer /\ UNCHANGED pc
         \/ scope = "outer" /\ pc' = "approved" /\ UNCHANGED <<scope, sources>>
  BY SameAccess DEF NextScope, Checking
<1>2. \A ref \in refs : ref.in \in {"inner", "outer"}
  BY RefType DEF Invariant, TypeOK, Scopes
<1>3. Served' /\ Checked' /\ SearchKept'
  BY <1>1 DEF Invariant, Served, Checked, SearchKept, server
<1>4. LeftToCheck'
  BY <1>1, <1>2 DEF Invariant, LeftToCheck
<1>5. TablesPass'
  BY <1>1 DEF Invariant, TablesPass
<1>6. RefsPass' /\ NothingElse' /\ Refusals'
  BY <1>1 DEF Invariant, RefsPass, NothingElse, Refusals
<1> QED
  BY <1>3, <1>4, <1>5, <1>6

\* Every step keeps the invariant.
LEMMA NextInvariant ==
  ASSUME Invariant, [Next]_vars
  PROVE  Invariant'
<1>1. CASE UNCHANGED vars
  <2>1. TypeOK'
    BY <1>1 DEF Invariant, TypeOK, vars, server, world, check
  <2> QED
    BY <1>1, <2>1, Untouched DEF Invariant, vars
<1>2. CASE Next
  <2>1. TypeOK'
    BY <1>2, TypeStep
  <2>2. CASE Stopped \/ ListTables \/ SchemaChanges
    BY <2>1, <2>2, Untouched DEF Invariant, Stopped, ListTables, SchemaChanges, vars
  <2>3. CASE Pick \/ Run \/ Answered \/ \E q \in Queries : Skip(q)
    BY <2>1, <2>3, AwayStep DEF Invariant
  <2> QED
    BY <1>2, <2>1, <2>2, <2>3, BeginStep, CatalogFailsStep, CheckTableStep, SearchTableStep,
       CheckStarStep, CheckColumnStep, SearchStep, SearchedStep, NextScopeStep DEF Invariant, Next
<1> QED
  BY <1>1, <1>2
-----------------------------------------------------------------------------
(* Theorems.                                                               *)

\* The invariant holds, whatever the policy files, the queries, the profile asked for and the
\* changes of the schema.
THEOREM InvariantHolds == Spec => []Invariant
<1> QED
  BY InitInvariant, NextInvariant, PTL DEF Spec

\* The state of the server, of a check, and of the search of _only_source_with in it have their
\* types.
THEOREM TypeCorrect == Spec => []TypeOK
<1>1. Invariant => TypeOK
  BY DEF Invariant
<1> QED
  BY <1>1, InvariantHolds, PTL

\* What a profile with rules may read of a table is what its policy file grants it.
LEMMA RulesGrant ==
  ASSUME Invariant, access # None, pc = "approved", config.profiles # None,
         NEW t \in Tables, NEW c \in Columns,
         LET allowed == ColumnsOf(access, t)
         IN  allowed = Everything \/ (allowed # None /\ c \in allowed)
  PROVE  <<t, c>> \in Granted
<1> DEFINE name == IF requested \in {None, Empty} THEN config.default ELSE requested
           rules == config.profiles[name]
<1>1. profile = Select(config, requested) /\ profile # None
  BY DEF Invariant, Kept, Served
<1>2. access = rules
  BY <1>1 DEF Select, access
<1>3. Everything # None
  BY ProfilesAssumption DEF ColumnRules
<1>4. \/ rules = Everything
      \/ t \in DOMAIN rules /\ (rules[t] = Everything \/ c \in rules[t])
  BY <1>2, <1>3 DEF ColumnsOf
<1> QED
  BY <1>4 DEF Granted

\* A server with profiles has one with rules.
LEMMA ProfilesHaveRules ==
  ASSUME Invariant, pc = "approved", config.profiles # None
  PROVE  access # None
<1>1. profile = Select(config, requested) /\ profile # None
  BY DEF Invariant, Kept, Served
<1>2. ValidConfig(config)
  BY AccessAssumption DEF Invariant, TypeOK
<1>3. \E name \in DOMAIN config.profiles : access = config.profiles[name]
  BY <1>1 DEF Select, access
<1> QED
  BY <1>2, <1>3, ProfilesAssumption DEF ValidConfig

\* What a cleared reference means to the database is granted.
LEMMA ClearedIsGranted ==
  ASSUME Invariant, pc = "approved", config.profiles # None, SameMeaning,
         Runs(query, warehouse), NEW ref \in query.refs
  PROVE  Meaning(query, ref, warehouse) \subseteq Granted
<1>1. access # None
  BY ProfilesHaveRules
<1>2. query \in Shapes /\ ~query.natural
  BY <1>1, QueriesHaveShape DEF Invariant, Kept, Checked, Verdict
<1>3. ref \in Refs /\ query.inner \subseteq Tables /\ query.outer \subseteq Tables
  BY <1>2 DEF Shapes
<1> DEFINE f == Qualified(query, ref, schema)
<1>4. f.kind # "name" => Cleared(f)
  BY <1>1 DEF Invariant, Kept, RefsPass, LeftToCheck, Passing
<1>5. ref.kind # "name" => f = ref
  BY <1>2, QualifiedType
<1>6. CASE ref.kind = "name"
  <2>1. Only(Candidates(query, ref, warehouse)) # None
    BY <1>2, <1>6, RunsMeans
  <2>2. Candidates(query, ref, schema) = Candidates(query, ref, warehouse)
    BY <1>6 DEF SameMeaning
  <2>3. PICK t \in Visible(query, ref.in) :
            /\ Candidates(query, ref, schema) = {t}
            /\ f = [in |-> ref.in, kind |-> "column", table |-> t, name |-> ref.name]
    BY <1>2, <1>6, <2>1, <2>2, QualifiedAsMeant
  <2>4. t \in Tables /\ ref.name \in Columns
    BY <1>3, <1>6, RefType DEF Visible
  <2>5. <<t, ref.name>> \in Granted
    BY <1>1, <1>4, <2>3, <2>4, RulesGrant DEF Cleared
  <2>6. Meaning(query, ref, warehouse) = {<<t, ref.name>>}
    BY <1>6, <2>2, <2>3 DEF Meaning
  <2> QED
    BY <2>5, <2>6
<1>7. CASE ref.kind = "column"
  <2>1. <<ref.table, ref.name>> \in Granted
    BY <1>1, <1>3, <1>4, <1>5, <1>7, RefType, RulesGrant DEF Cleared
  <2> QED
    BY <1>7, <2>1 DEF Meaning
<1>8. ASSUME NEW t \in Tables, ColumnsOf(access, t) = Everything, NEW c \in Columns
      PROVE  <<t, c>> \in Granted
  BY <1>1, <1>8, RulesGrant
<1>9. CASE ref.kind = "star"
  <2>1. ref.table \in Tables /\ ColumnsOf(access, ref.table) = Everything
    BY <1>3, <1>4, <1>5, <1>9, RefType DEF Cleared
  <2> QED
    BY <1>8, <1>9, <2>1 DEF Meaning
<1>10. CASE ref.kind = "all"
  <2>1. Own(query, ref.in) \subseteq Tables
    BY <1>3 DEF Own
  <2>2. \A t \in Own(query, ref.in) : ColumnsOf(access, t) = Everything
    BY <1>4, <1>5, <1>10 DEF Cleared
  <2> QED
    BY <1>8, <1>10, <2>1, <2>2 DEF Meaning
<1> QED
  BY <1>3, <1>6, <1>7, <1>9, <1>10, RefType

\* "a query may read only what the active profile allows": for an approved query the database,
\* resolving the names of the query as written in the schema as it is by then, reads columns that
\* the policy file grants to the profile asked for and no others.
THEOREM OnlyGrantedRead == Spec => OnlyGrantedIsRead
<1>1. ASSUME Invariant, [Next]_vars
      PROVE  [pc' = "ran" /\ pc # "ran" /\ config.profiles # None /\ SameMeaning =>
                reads' \subseteq Granted]_vars
  <2> SUFFICES ASSUME Next, pc' = "ran", pc # "ran", config.profiles # None, SameMeaning
      PROVE  reads' \subseteq Granted
    BY <1>1
  <2>1. Run
    BY DEF Next, Pick, Stopped, ListTables, Begin, Skip, CatalogFails, CheckTable, SearchTable,
           CheckStar, CheckColumn, Conclude, Refuse, Search, Searched, NextScope, Answered,
           SchemaChanges, vars
  <2>2. pc = "approved" /\ reads' = Reads(query, warehouse)
    BY <2>1 DEF Run
  <2>3. Merged(query, warehouse) = {}
    BY <1>1, <2>2, ProfilesHaveRules DEF Merged, Invariant, Kept, Checked, Verdict
  <2> QED
    BY <1>1, <2>2, <2>3, ClearedIsGranted DEF Reads
<1> QED
  BY <1>1, InvariantHolds, PTL DEF Spec, OnlyGrantedIsRead

\* Of a query that runs, a reference is one the listing shows to be usable exactly if the check
\* clears it.
LEMMA ListedIsCleared ==
  ASSUME Invariant, access # None, query \in Shapes, ~query.natural, Runs(query, schema),
         query.outer \cup query.inner \subseteq DOMAIN Listing(schema),
         NEW ref \in query.refs
  PROVE  Listed(ref) <=> Cleared(Qualified(query, ref, schema))
<1> DEFINE f == Qualified(query, ref, schema)
           listing == Listing(schema)
           shown(columns) == \A tc \in columns :
                tc[1] \in DOMAIN listing /\ tc[2] \in listing[tc[1]].columns
<1>1. ref \in Refs /\ query.inner \subseteq Tables /\ query.outer \subseteq Tables
  BY DEF Shapes
<1>2. ASSUME NEW t \in query.outer \cup query.inner
      PROVE  ColumnsOf(access, t) # None
  BY DEF Listing, AllColumns, Allowed
<1>3. ASSUME NEW t \in query.outer \cup query.inner
       PROVE  /\ t \in DOMAIN listing
              /\ listing[t].all <=> ColumnsOf(access, t) = Everything
              /\ \A c \in schema[t] : c \in listing[t].columns <=>
                    ColumnsOf(access, t) = Everything \/ c \in ColumnsOf(access, t)
  <2>1. t \in DOMAIN listing
    OBVIOUS
  <2>2. listing[t] = [columns |-> IF Allowed(t) = Everything THEN schema[t]
                                  ELSE schema[t] \cap Allowed(t),
                      all |-> Allowed(t) = Everything]
    BY <2>1 DEF Listing, AllColumns
  <2>3. Allowed(t) = ColumnsOf(access, t)
    BY DEF Allowed
  <2>4. listing[t].all <=> ColumnsOf(access, t) = Everything
    <3>1. listing[t].all = (Allowed(t) = Everything)
      BY <2>2
    <3> QED
      BY <2>3, <3>1, Zenon
  <2>5. listing[t].columns = IF Allowed(t) = Everything THEN schema[t]
                             ELSE schema[t] \cap Allowed(t)
    BY <2>2
  <2> QED
    BY <2>1, <2>3, <2>4, <2>5
<1>4. /\ Own(query, ref.in) \subseteq query.outer \cup query.inner
      /\ Visible(query, ref.in) \subseteq query.outer \cup query.inner
  BY DEF Own, Visible
<1>5. /\ f.kind \in {"column", "star"} => f.table \in Visible(query, f.in)
      /\ f.kind = "column" => f.name \in schema[f.table]
  BY RunsQualified
<1>6. ref.kind # "name" => f = ref
  BY QualifiedType
<1>7. Listed(ref) <=> /\ shown(Meaning(query, ref, schema))
                      /\ ref.kind = "star" => listing[ref.table].all
                      /\ ref.kind = "all" => \A t \in Own(query, ref.in) : listing[t].all
  BY DEF Listed
<1> HIDE DEF listing
<1>8. ASSUME NEW t \in query.outer \cup query.inner, NEW c \in schema[t]
      PROVE  shown({<<t, c>>}) <=>
                ColumnsOf(access, t) = Everything \/ c \in ColumnsOf(access, t)
  <2>1. shown({<<t, c>>}) <=> t \in DOMAIN listing /\ c \in listing[t].columns
    OBVIOUS
  <2> QED
    BY <1>3, <2>1
<1>9. CASE ref.kind = "name"
  <2>1. PICK t \in Visible(query, ref.in) :
            /\ Candidates(query, ref, schema) = {t}
            /\ ref.name \in schema[t]
            /\ f = [in |-> ref.in, kind |-> "column", table |-> t, name |-> ref.name]
    BY <1>9, RunsMeans, QualifiedAsMeant
  <2>2. Meaning(query, ref, schema) = {<<t, ref.name>>}
    BY <1>9, <2>1 DEF Meaning
  <2>3. Cleared(f) <=> ColumnsOf(access, t) = Everything \/ ref.name \in ColumnsOf(access, t)
    BY <1>2, <1>4, <2>1 DEF Cleared
  <2> QED
    BY <1>4, <1>7, <1>8, <1>9, <2>1, <2>2, <2>3
<1>10. CASE ref.kind = "column"
  <2>1. Meaning(query, ref, schema) = {<<ref.table, ref.name>>}
    BY <1>10 DEF Meaning
  <2>2. ref.table \in query.outer \cup query.inner /\ ref.name \in schema[ref.table]
    BY <1>4, <1>5, <1>6, <1>10
  <2>3. Cleared(f) <=> \/ ColumnsOf(access, ref.table) = Everything
                       \/ ref.name \in ColumnsOf(access, ref.table)
    BY <1>2, <1>6, <1>10, <2>2 DEF Cleared
  <2> QED
    BY <1>7, <1>8, <1>10, <2>1, <2>2, <2>3
<1>11. CASE ref.kind = "star"
  <2>1. ref.table \in query.outer \cup query.inner
    BY <1>4, <1>5, <1>6, <1>11
  <2>2. Meaning(query, ref, schema) = {tc \in {ref.table} \X Columns : tc[2] \in schema[tc[1]]}
    BY <1>11 DEF Meaning
  <2>3. ColumnsOf(access, ref.table) = Everything => shown(Meaning(query, ref, schema))
    BY <1>3, <2>1, <2>2
  <2> QED
    BY <1>3, <1>6, <1>7, <1>11, <2>1, <2>3 DEF Cleared
<1>12. CASE ref.kind = "all"
  <2>1. Meaning(query, ref, schema)
            = {tc \in Own(query, ref.in) \X Columns : tc[2] \in schema[tc[1]]}
    BY <1>12 DEF Meaning
  <2>2. (\A t \in Own(query, ref.in) : ColumnsOf(access, t) = Everything)
            => shown(Meaning(query, ref, schema))
    BY <1>3, <1>4, <2>1
  <2> QED
    BY <1>3, <1>4, <1>6, <1>7, <1>12, <2>2 DEF Cleared
<1> QED
  BY <1>1, <1>9, <1>10, <1>11, <1>12, RefType

\* "what it may query, nothing else exists": of one snapshot, list_tables and the access check
\* agree: a query that the database would run is approved exactly if it uses what is listed.
THEOREM ListingAndCheckAgree == Spec => []ListedIsWhatMayBeQueried
<1>1. ASSUME Invariant
      PROVE  ListedIsWhatMayBeQueried
  <2> DEFINE tablesListed == query.outer \cup query.inner \subseteq DOMAIN Listing(schema)
             usesListed == /\ ~query.natural
                           /\ tablesListed
                           /\ \A ref \in query.refs : Listed(ref)
  <2> SUFFICES ASSUME Verdict, access # None, steady, Runs(query, schema)
      PROVE  pc = "approved" <=> usesListed
    BY DEF ListedIsWhatMayBeQueried, Verdict
  <2>1. query \in Shapes
    BY <1>1, QueriesHaveShape DEF Invariant, Kept, Checked, Verdict
  <2>2. tablesListed <=> \A t \in query.outer \cup query.inner : ColumnsOf(access, t) # None
    <3>1. \A t \in query.outer \cup query.inner : t \in Tables /\ schema[t] # {}
      BY <2>1 DEF Shapes, Runs
    <3> QED
      BY <3>1 DEF Listing, AllColumns, Allowed
  <2>3. CASE pc = "approved"
    <3>1. ~query.natural /\ \A t \in query.outer \cup query.inner : ColumnsOf(access, t) # None
      BY <1>1, <2>3 DEF Invariant, Kept, Checked, Verdict, LeftToCheck, TablesPass, Passing
    <3>2. ASSUME NEW ref \in query.refs
          PROVE  Listed(ref)
      <4>1. Qualified(query, ref, schema).kind # "name"
        BY <2>1, <3>1, RunsQualified
      <4>2. Cleared(Qualified(query, ref, schema))
        BY <1>1, <2>3, <4>1 DEF Invariant, Kept, LeftToCheck, RefsPass, Passing
      <4> QED
        BY <1>1, <2>1, <2>2, <3>1, <4>2, ListedIsCleared
    <3> QED
      BY <2>2, <2>3, <3>1, <3>2
  <2>4. CASE pc = "refused"
    <3> SUFFICES ASSUME usesListed PROVE FALSE
      BY <2>4
    <3>1. PICK ref \in query.refs : ~Cleared(Qualified(query, ref, schema))
      BY <1>1, <2>2, <2>4 DEF Invariant, Kept, Refusals
    <3> QED
      BY <1>1, <2>1, <3>1, ListedIsCleared
  <2> QED
    BY <2>3, <2>4 DEF Verdict
<1> QED
  BY <1>1, InvariantHolds, PTL
=============================================================================
