------------------------------- MODULE Access -------------------------------
(***************************************************************************)
(* What one profile sees and may read: list_tables (warden.py) and the     *)
(* access check (pipeline/access.py), over a catalog that is cached while  *)
(* the warehouse's schema changes.                                         *)
(*                                                                         *)
(* The check looks at the catalog anew for every table and column, and may *)
(* find another snapshot each time.  It resolves names in a copy of the    *)
(* query; what runs is the query as written, so the database resolves its  *)
(* names again, against the schema it has by then.                         *)
(*                                                                         *)
(* A query has a SELECT and perhaps a correlated subquery, each over real  *)
(* tables (the SELECT's perhaps joined by NATURAL JOIN), and references:   *)
(* table.column, a bare column name, table.* (or the table as a whole      *)
(* row), and a bare star.  CTEs, derived tables, functions, output names   *)
(* and USING are not modelled, nor which code a refusal has.               *)
(***************************************************************************)
EXTENDS Profiles, Naturals, FiniteSets

CONSTANTS
    Configs,     \* policy files
    Queries,     \* queries
    Warehouses,  \* schemas the warehouse may have at first
    MaxChanges   \* bound on the changes of that schema

Scopes == {"outer", "inner"}

\* A reference of a query, in the SELECT or in its subquery.
Refs == [in : Scopes, kind : {"column"}, table : Tables, name : Columns]
            \cup [in : Scopes, kind : {"name"}, name : Columns]
            \cup [in : Scopes, kind : {"star"}, table : Tables]
            \cup [in : Scopes, kind : {"all"}]

\* The tables and columns the engine's role can read: one without columns does not exist.
Catalogs == [Tables -> SUBSET Columns]

ASSUME AccessAssumption ==
    /\ \A config \in Configs : ValidConfig(config)
    /\ Queries \subseteq [outer : (SUBSET Tables) \ {{}}, inner : SUBSET Tables, natural : BOOLEAN,
                          refs : SUBSET Refs]
    /\ Warehouses \subseteq Catalogs
    /\ MaxChanges \in Nat

VARIABLES
    config,     \* the policy file
    requested,  \* --profile
    profile,    \* the profile served, None if there is none
    warehouse,  \* the schema of the warehouse
    changes,    \* how often it has changed
    snapshot,   \* what the catalog has cached
    pc,         \* "start", "ready", "checking", "refused", "approved", "ran" or "stopped"
    query,      \* the query being checked
    schema,     \* the schema it was qualified with
    scope,      \* the scope being checked
    sources,    \* its tables still to check
    refs,       \* the query's references still to check, as qualified
    search,     \* a search for the table of a bare name
    steady,     \* history: every lookup of this check succeeded, and saw the same snapshot
    reads       \* the columns the database read

server == <<config, requested, profile>>
world == <<warehouse, changes>>
check == <<scope, sources, refs, search, steady>>
vars == <<server, world, snapshot, pc, query, schema, check, reads>>

access == profile.access

Init ==
    /\ config \in Configs
    /\ requested \in Names \cup {Implicit, Empty, None}
    /\ profile = None
    /\ warehouse \in Warehouses /\ changes = 0
    /\ snapshot = None
    /\ pc = "start"
    /\ query = None /\ schema = None
    /\ scope = "outer" /\ sources = {} /\ refs = {} /\ search = None /\ steady = TRUE
    /\ reads = {}
-----------------------------------------------------------------------------
(* Names.                                                                  *)

\* The tables of a scope, and those a reference there may name.
Own(q, in) == IF in = "inner" THEN q.inner ELSE q.outer
Visible(q, in) == IF in = "inner" THEN q.inner \cup q.outer ELSE q.outer

\* The one element of a set, None if there is not exactly one.
Only(S) == IF \E e \in S : S = {e} THEN CHOOSE e \in S : TRUE ELSE None

\* sqlglot's choice among a scope's tables for a bare name: the only one that has it, or just the
\* only one if it was given an empty schema.
Guess(tables, name, catalog) ==
    IF \A t \in Tables : catalog[t] = {}
    THEN Only(tables)
    ELSE Only({t \in tables : name \in catalog[t]})

\* qualify(): a bare name gets its table, innermost scope first, or is left alone.
Qualified(q, ref, catalog) ==
    LET inner == IF ref.in = "inner" THEN Guess(q.inner, ref.name, catalog) ELSE None
        table == IF inner # None THEN inner ELSE Guess(q.outer, ref.name, catalog)
    IN  IF ref.kind = "name" /\ table # None
        THEN [in |-> ref.in, kind |-> "column", table |-> table, name |-> ref.name]
        ELSE ref

\* What the database takes a bare name for: a column of the innermost scope that has one.
Candidates(q, ref, catalog) ==
    LET inner == {t \in q.inner : ref.name \in catalog[t]}
    IN  IF ref.in = "inner" /\ inner # {} THEN inner
        ELSE {t \in q.outer : ref.name \in catalog[t]}

\* The columns a reference reads, unless the database refuses it.
Meaning(q, ref, catalog) ==
    LET whole(tables) == {tc \in tables \X Columns : tc[2] \in catalog[tc[1]]}
    IN  CASE ref.kind = "column" -> {<<ref.table, ref.name>>}
          [] ref.kind = "name"   -> {<<t, ref.name>> : t \in Candidates(q, ref, catalog)}
          [] ref.kind = "star"   -> whole({ref.table})
          [] ref.kind = "all"    -> whole(Own(q, ref.in))

\* NATURAL JOIN compares, and merges, the columns that all its tables have.
Merged(q, catalog) ==
    IF q.natural THEN {c \in Columns : \A t \in q.outer : c \in catalog[t]} ELSE {}

Fails(q, ref, catalog) ==
    \/ ref.kind \in {"column", "star"} /\ ref.table \notin Visible(q, ref.in)
    \/ ref.kind = "column" /\ ref.name \notin catalog[ref.table]
    \/ ref.kind = "name" /\ LET tables == Candidates(q, ref, catalog)
                            IN  /\ Only(tables) = None
                                /\ ~(tables = q.outer /\ ref.name \in Merged(q, catalog))

\* The database runs a query if no part of it is an error, and reads these columns for it.
Runs(q, catalog) ==
    /\ \A t \in q.outer \cup q.inner : catalog[t] # {}
    /\ \A ref \in q.refs : ~Fails(q, ref, catalog)

Reads(q, catalog) ==
    IF Runs(q, catalog)
    THEN (q.outer \X Merged(q, catalog)) \cup UNION {Meaning(q, ref, catalog) : ref \in q.refs}
    ELSE {}
-----------------------------------------------------------------------------
(* What a profile sees.                                                    *)

\* Warden._allowed: the columns of a table this profile may read.
Allowed(table) == IF access = None THEN Everything ELSE ColumnsOf(access, table)

\* Warden.all_columns: every column of a table, "including ones added later".
AllColumns(table) == Allowed(table) = Everything

\* Mutant of Listing: a table is listed whole if the profile may read any of it.
ListingWhole(catalog) ==
    [t \in {u \in Tables : catalog[u] # {} /\ Allowed(u) # None} |->
        [columns |-> catalog[t], all |-> AllColumns(t)]]

\* Warden.tables with all_columns, as list_tables shows it: the tables the profile may read, their
\* columns, and whether that is all of them.
Listing(catalog) ==
    [t \in {u \in Tables : catalog[u] # {} /\ Allowed(u) # None} |->
        [columns |-> IF AllColumns(t) THEN catalog[t] ELSE catalog[t] \cap Allowed(t),
         all |-> AllColumns(t)]]
-----------------------------------------------------------------------------
(* The server.                                                             *)

\* build_warden: the server is tied to one profile, or does not start.
Pick ==
    /\ pc = "start"
    /\ profile' = Select(config, requested)
    /\ pc' = IF profile' = None THEN "stopped" ELSE "ready"
    /\ UNCHANGED <<config, requested, world, snapshot, query, schema, check, reads>>

\* Catalog._current: the snapshot in hand, or a new one if there is none or it is too old.
Look == snapshot' \in ({snapshot} \ {None}) \cup {warehouse}

\* list_tables and describe_table, on any thread: also while a query is checked on another.
ListTables ==
    /\ pc \notin {"start", "stopped"}
    /\ Look
    /\ UNCHANGED <<server, world, pc, query, schema, check, reads>>

\* AccessCheck.run begins: a query with a NATURAL JOIN is refused; any other is qualified, and
\* its subquery is checked first.
Begin(q) ==
    /\ pc = "ready" /\ access # None
    /\ Look
    /\ schema' = snapshot'
    /\ query' = q
    /\ refs' = {Qualified(q, ref, schema') : ref \in q.refs}
    /\ scope' = "inner"
    /\ sources' = q.inner
    /\ search' = None
    /\ steady' = TRUE
    /\ pc' = IF q.natural THEN "refused" ELSE "checking"
    /\ UNCHANGED <<server, world, reads>>

\* The implicit profile has no access check.
Skip(q) ==
    /\ pc = "ready" /\ access = None
    /\ query' = q
    /\ pc' = "approved"
    /\ UNCHANGED <<server, world, snapshot, schema, check, reads>>

\* A lookup in the middle of a check.
LookAgain == Look /\ steady' = (steady /\ snapshot' = schema)

Checking == pc = "checking" /\ search = None

\* _Refused.
Refuse == pc' = "refused" /\ UNCHANGED <<sources, refs, search>>

\* A catalog that cannot be read is a refusal too, whichever lookup meets it.
CatalogFails ==
    /\ pc = "checking"
    /\ pc' = "refused"
    /\ search' = None
    /\ steady' = FALSE
    /\ UNCHANGED <<server, world, snapshot, query, schema, scope, sources, refs, reads>>

\* _check_table.
CheckTable(t) ==
    /\ Checking /\ t \in sources
    /\ \/ /\ ColumnsOf(access, t) = None
          /\ Refuse
          /\ UNCHANGED <<snapshot, steady>>
       \/ /\ ColumnsOf(access, t) # None
          /\ LookAgain
          /\ \/ snapshot'[t] = {} /\ Refuse
             \/ snapshot'[t] # {} /\ sources' = sources \ {t} /\ UNCHANGED <<pc, refs, search>>
    /\ UNCHANGED <<server, world, query, schema, scope, reads>>

\* The references of a scope are checked once its tables are.
Current(ref) == Checking /\ sources = {} /\ ref \in refs /\ ref.in = scope

\* The reference passes or is refused.
Conclude(ref, ok) ==
    IF ok THEN refs' = refs \ {ref} /\ UNCHANGED <<pc, sources, search>> ELSE Refuse

\* _check_star: the profile may read everything in the table, or in each of the scope's.
CheckStar(ref) ==
    /\ Current(ref) /\ ref.kind \in {"star", "all"}
    /\ LET tables == IF ref.kind = "star" THEN {ref.table} ELSE Own(query, ref.in)
       IN  Conclude(ref, /\ tables \subseteq Visible(query, ref.in)
                         /\ \A t \in tables : ColumnsOf(access, t) = Everything)
    /\ UNCHANGED <<server, world, snapshot, query, schema, scope, steady, reads>>

\* _check_column with a table: _check_table_column, if the table is one the query reads there.
CheckColumn(ref) ==
    /\ Current(ref) /\ ref.kind = "column"
    /\ LookAgain
    /\ LET allowed == ColumnsOf(access, ref.table)
       IN  Conclude(ref, /\ ref.table \in Visible(query, ref.in)
                         /\ ref.name \in snapshot'[ref.table]
                         /\ allowed = Everything \/ (allowed # None /\ ref.name \in allowed))
    /\ UNCHANGED <<server, world, query, schema, scope, reads>>

\* _only_source_with, for a name left bare: one lookup per table of its scope ...
Search(ref) ==
    /\ Current(ref) /\ ref.kind = "name"
    /\ search' = [ref |-> ref, left |-> Own(query, ref.in), found |-> {}]
    /\ UNCHANGED <<server, world, snapshot, pc, query, schema, scope, sources, refs, steady, reads>>

SearchTable(t) ==
    /\ search # None /\ t \in search.left
    /\ LookAgain
    /\ search' = [search EXCEPT
            !.left = @ \ {t},
            !.found = IF search.ref.name \in snapshot'[t] THEN @ \cup {t} ELSE @]
    /\ UNCHANGED <<server, world, pc, query, schema, scope, sources, refs, reads>>

\* Mutant of Searched: whatever was found is taken for the one.
SearchedUnchecked ==
    /\ search # None /\ search.left = {}
    /\ search' = None
    /\ refs' = (refs \ {search.ref}) \cup
            {[in |-> search.ref.in, kind |-> "column", table |-> Only(search.found),
              name |-> search.ref.name]}
    /\ UNCHANGED <<server, world, snapshot, pc, query, schema, scope, sources, steady, reads>>

\* ... and the check of the one that has it.
Searched ==
    /\ search # None /\ search.left = {}
    /\ search' = None
    /\ \/ /\ Only(search.found) = None
          /\ pc' = "refused"
          /\ UNCHANGED refs
       \/ /\ Only(search.found) # None
          /\ refs' = (refs \ {search.ref}) \cup
                {[in |-> search.ref.in, kind |-> "column", table |-> Only(search.found),
                  name |-> search.ref.name]}
          /\ UNCHANGED pc
    /\ UNCHANGED <<server, world, snapshot, query, schema, scope, sources, steady, reads>>

\* Mutant of NextScope: the query is approved with its first scope.
NextScopeIsLast ==
    /\ Checking /\ sources = {} /\ \A ref \in refs : ref.in # scope
    /\ pc' = "approved"
    /\ UNCHANGED <<server, world, snapshot, query, schema, check, reads>>

\* The scope is done: on to the SELECT around it, or the query is approved.
NextScope ==
    /\ Checking /\ sources = {} /\ \A ref \in refs : ref.in # scope
    /\ \/ /\ scope = "inner"
          /\ scope' = "outer" /\ sources' = query.outer
          /\ UNCHANGED pc
       \/ /\ scope = "outer"
          /\ pc' = "approved"
          /\ UNCHANGED <<scope, sources>>
    /\ UNCHANGED <<server, world, snapshot, query, schema, refs, search, steady, reads>>

\* The engine runs the query as written.
Run ==
    /\ pc = "approved"
    /\ reads' = Reads(query, warehouse)
    /\ pc' = "ran"
    /\ UNCHANGED <<server, world, snapshot, query, schema, check>>

\* The next request.
Answered ==
    /\ pc \in {"refused", "approved", "ran"}
    /\ pc' = "ready"
    /\ query' = None /\ schema' = None
    /\ scope' = "outer" /\ sources' = {} /\ refs' = {} /\ search' = None /\ steady' = TRUE
    /\ reads' = {}
    /\ UNCHANGED <<server, world, snapshot>>

\* Somebody adds or drops a column, and a table with its first or last one.
SchemaChanges ==
    /\ changes < MaxChanges
    /\ changes' = changes + 1
    /\ \E t \in Tables, c \in Columns :
        warehouse' = [warehouse EXCEPT ![t] = IF c \in @ THEN @ \ {c} ELSE @ \cup {c}]
    /\ UNCHANGED <<server, snapshot, pc, query, schema, check, reads>>

\* No such profile: the server did not start.
Stopped == pc = "stopped" /\ UNCHANGED vars

Next ==
    \/ Pick \/ Stopped
    \/ ListTables
    \/ \E q \in Queries : Begin(q) \/ Skip(q)
    \/ CatalogFails
    \/ \E t \in Tables : CheckTable(t) \/ SearchTable(t)
    \/ \E ref \in refs : CheckStar(ref) \/ CheckColumn(ref) \/ Search(ref)
    \/ Searched \/ NextScope
    \/ Run \/ Answered
    \/ SchemaChanges

Spec == Init /\ [][Next]_vars
-----------------------------------------------------------------------------
(* Properties.                                                             *)

\* The type of the server's state.
TypeOK ==
    /\ config \in Configs
    /\ profile \in {None} \cup [name : Names \cup {Implicit}, access : TableRules \cup {None}]
    /\ warehouse \in Catalogs /\ changes \in 0..MaxChanges
    /\ snapshot \in Catalogs \cup {None}
    /\ pc \in {"start", "stopped", "ready", "checking", "refused", "approved", "ran"}
    /\ query \in Queries \cup {None}
    /\ schema \in Catalogs \cup {None}
    /\ scope \in Scopes /\ sources \subseteq Tables /\ refs \subseteq Refs
    /\ search = None \/ search \in [ref : Refs, left : SUBSET Tables, found : SUBSET Tables]
    /\ reads \subseteq Tables \X Columns

\* The columns that the policy file grants to the profile that was asked for.
Granted ==
    LET name == IF requested \in {None, Empty} THEN config.default ELSE requested
        rules == config.profiles[name]
        grants(t, c) == \/ rules = Everything
                        \/ t \in DOMAIN rules /\ (rules[t] = Everything \/ c \in rules[t])
    IN  {tc \in Tables \X Columns : grants(tc[1], tc[2])}

\* The bare names mean to the database now what they meant when the query was qualified.
SameMeaning ==
    \A ref \in query.refs : ref.kind = "name" =>
        Candidates(query, ref, schema) = Candidates(query, ref, warehouse)

\* "a query may read only what the active profile allows": what the database reads for an
\* approved query, resolving its names for itself, is granted by the policy file, although
\* tables and columns may have come and gone since the catalog was read, and between one
\* lookup and the next, as long as no bare name has come to mean another column.
OnlyGrantedIsRead ==
    [][pc' = "ran" /\ pc # "ran" /\ config.profiles # None /\ SameMeaning =>
        reads' \subseteq Granted]_vars

\* What the listing says that a profile may use: the tables it shows, the columns it shows of
\* them, and a star of those it shows whole.
Listed(ref) ==
    LET listing == Listing(schema)
        shown(columns) == \A tc \in columns :
            tc[1] \in DOMAIN listing /\ tc[2] \in listing[tc[1]].columns
    IN  /\ shown(Meaning(query, ref, schema))
        /\ ref.kind = "star" => listing[ref.table].all
        /\ ref.kind = "all" => \A t \in Own(query, ref.in) : listing[t].all

\* "what it may query, nothing else exists": of one and the same snapshot, list_tables and the
\* access check never disagree: of the queries that the database would run, the check approves
\* exactly those that use only what is listed, however it resolved their names, and that name
\* what they use, unlike a NATURAL JOIN.
ListedIsWhatMayBeQueried ==
    pc \in {"approved", "refused"} /\ access # None /\ steady /\ Runs(query, schema) =>
        (pc = "approved" <=>
            /\ ~query.natural
            /\ query.outer \cup query.inner \subseteq DOMAIN Listing(schema)
            /\ \A ref \in query.refs : Listed(ref))
=============================================================================
