# TLA+ models of sql-warden

sql-warden stands between an agent and a PostgreSQL warehouse: it checks every query against a
policy, runs what it approves, and records every request in an audit database before it answers.
These modules model the parts of it where the order of things, failures and threads decide whether
that is true. TLC checks small instances; TLAPS proves the central properties for all. Source
paths below are relative to `src/sql_warden/` of the repository.

## The system

| Part | State | Operations | What could go wrong |
|---|---|---|---|
| `Warden` (`warden.py`, `models.py`) | none of its own between requests | `run`, `check`, `tables`, `table` | rows returned without a record, false records, an answer that says what is not so |
| `Pipeline` (`pipeline/base.py`) | the trace of one request | `run` | a check that crashes and lets a query through |
| Parse check (`pipeline/parse.py`) | none | `run` | - |
| Shape check (`pipeline/shape.py`, `ShapeConfig` in `config.py`) | none; rewrites the LIMIT of the tree | `run` | off by one at the row cap; levels of nesting miscounted; validation and check at odds over functions |
| Access check (`pipeline/access.py`) | none; looks at the catalog many times | `run` | names that mean one thing to the check and another to the database; lookups of different ages |
| `Catalog` (`catalog.py`) | snapshot, lock | `tables`, `table`, `schema`, `refresh` | staleness, a refresh undone by a read under way, a lock that is kept |
| `PostgresEngine` (`engines/postgres.py`) | none; a connection per call | `execute`, `tables` | a transaction left open, an error that escapes, the cap |
| `PostgresAuditSink` (`audit/sink.py`) | connection, lock | `ensure_schema`, `ping`, `record`, `close` | lost acknowledgements, retries, late inserts, a shared connection; servers that set up the table at once |
| `AuditReader`, `audit tail` (`audit/reader.py`, `cli.py`) | connection; `seen` and `newest` | `recent`, `since`, `find`; the `--follow` loop | events missed or printed twice; clocks that differ |
| Profiles (`profiles.py`, `config.py`) | none | `select_profile`, `Access.columns` | the wrong profile served |
| Command line, MCP server (`cli.py`, `server.py`) | the Warden of the process | commands, tools | an answer or exit status that hides a failure |
| `MemoryAuditSink`, `render.py`, demo and portal | - | - | not modelled |

How they interact. The MCP SDK calls tools on worker threads, so requests of one server run
concurrently through one `Warden`. They share two things: the `Catalog`, whose lock is held while
the engine reads, and the `PostgresAuditSink`, whose lock is held while one statement is on its
one connection. Servers that start at the same time meet at an advisory lock of the audit
database, under which each applies `schema.sql`. The engine opens a connection for each query. The
audit table is shared by all servers and read by `audit tail`, in another process. The warehouse's
schema changes under all of them.

The hard behaviours are therefore threads at the two locks, connections that break between any two
steps with or without the statement having been executed, a process killed between the query and
its record, a cache that is out of date, and events that reach the log in another order than that
of their times. PROJECT.json lists each hazard at its line with the properties for it.

## Modules

| Module | Models | State and actions, and the code |
|---|---|---|
| `AuditLog` | the `AuditSink` protocol | the abstract specification: a call stores its event at most once, unchanged and for good, and returns normally only if it did |
| `AuditSink` | `PostgresAuditSink` | `lock` and `conn` are the sink's fields; `call[t]` is a thread's call, its `pc` the place in `_attempt`, its `attempt` the loop variable. `Acquire`, `Reuse`, `Connect`, `Succeed`, `OperationalError`, `Reject`, `Return` follow `_attempt`; `Serve...` and `Answer` are the database executing a statement and answering it, separately; `orphans` are INSERTs still executing for a connection that broke |
| `SchemaSetup` | `ensure_schema` of several servers, `schema.sql`, `open_audit` | `server[s]` is a starting process and `_attempt`'s loop variable; `session[x]` is the database session of each try, which outlives a lost connection until PostgreSQL notices (`Abort`), `locker` the holder of the advisory lock, `made` what a transaction has created and not committed. `Lock`, `Look`, `Make`, `Commit` are `_apply_schema` in the database; `BeginInsert`, `EndInsert` the records of servers already up |
| `Gate` | the promise in the docstring of `Warden` | the abstract specification: run at most once and before the record, record at most once and truly, give something away only after the record |
| `Warden` | `Warden.run` and `check`, the `Pipeline`, exit statuses, `describe` and the tools' `is_error` | one `phase` per request; instantiates `AuditSink` and composes with it: `DecideToRecord`, `DecideToPing`, `PingOk`, `PingFails`, `Reach`, `ExecuteEnds`, `Recorded`, `NotRecorded` are the steps of `run`, one action between two calls of the sink or the engine. `ran` is a history variable: the warehouse received the query. `Kill` and `Start` are the process |
| `Catalog` | `Catalog`, with the access check and `list_tables` as its callers | `snapshot` and `lock` as in the code, versions for schemas; `Hit`, `Miss`, `EngineReads`, `EngineFails`, `Store` are `_current` and `_read`; `Refresh`. `born` and `floor` are history |
| `Shape` | `ParseCheck`, `ShapeCheck` up to the LIMIT, `ShapeConfig`'s validation | operators on what the checks ask of a syntax tree: the number of statements, what it contains, its scopes with type and parent |
| `Execution` | the two checks with `_limit`, then `PostgresEngine.execute`; `tables` | one query; each statement of `_read_only`, `execute` and `tables` is an action that may fail, and the connection may be lost between any two |
| `AuditTail` | `audit tail --follow` against servers | `newest` and `seen` as in the code; `Stamp` and `Insert` are the two steps in which a server writes an event |
| `Profiles` | policy files, `select_profile`, `Access.columns` | operators |
| `Access` | the access check and `list_tables` over the catalog, the warehouse, and what the database then reads | `snapshot` is what the catalog holds and any lookup may replace it by the warehouse's schema; `schema` is the one the query was qualified with; `sources`, `refs` and `search` are what is left of the check, of which each lookup is a step |

`AuditSinkProofs`, `CatalogProofs`, `ExecutionProofs`, `AuditTailProofs`, `SetupProofs`,
`WardenProofs` and `AccessProofs` hold the proofs about the module each is named after, and
`NestingProofs` the lemmas about trees of scopes that `ExecutionProofs` rests on.
`MCAuditSink`, `MCWarden`, `MCExecution` and `MCAccess` give constants for TLC; `Catalog`,
`SchemaSetup` and `AuditTail` need none. Definitions named "Mutant of ..." are plausible bugs:
each property is violated when one of them takes the place of the definition it names.

Modelled from use, because they are not in the repository: PostgreSQL (an autocommit INSERT takes
effect before its client hears of it, and may end after its connection broke; `IF NOT EXISTS` sees
only what is committed, and `CREATE INDEX` waits for the INSERTs under way even if there is
nothing to create; names are resolved innermost scope first, and NATURAL JOIN reads the columns
its tables share), sqlglot's `qualify` for a bare name (`Guess`), and the clock.

## Runs

| Run | Instance | What it shows |
|---|---|---|
| `sink` | 2 threads, 2 events, one of which cannot be stored, 2 faults | one statement at a time; acknowledged means stored; a fault costs only the calls it meets; `AuditSink` implements `AuditLog` |
| `warden` | 2 requests, 1 check, 2 faults, kills and restarts | answers and records agree, and with what the warehouse saw; an exception leaves a record; exit statuses and tools agree; `Warden` implements `Gate`; every request is answered |
| `catalog` | 2 threads, max age 2, 3 ticks, 2 changes, 2 lookups per check | how old a lookup can be; refresh; order; the lock |
| `setup` | 3 servers, 2 faults, from no, some or all of `schema.sql` | starts do not collide; up means set up; every start ends |
| `execution` | cap 2, LIMITs 0..4, results of 0, 2, 3 and 4 rows; up to 3 scopes within the outermost; 3 functions, one of them built-in denied and one unknown; depth 0 or 1 | the cap is exact; nothing stays open; nesting is counted right; listed functions pass and denied ones do not |
| `tail` | 3 events, one filtered out, look-back 2, clocks up to 1 apart, times 0 to 4 | nothing twice; nothing missed that is written within the look-back less the difference of the clocks, and it is printed some time |
| `access` | 2 tables, one missing at first, 2 columns, 3 policy files, 3 changes, queries of one reference over up to 3 tables, NATURAL JOINs | only what is granted is read; listing and check agree |
| `doc_audit_id`, `doc_exit`, `doc_catalog`, `doc_engine`, `doc_tail` | as small as the case allows | what a doc says and the code does not do (below) |

Why the bounds are enough. Two threads suffice for a lock and a shared connection: a third could
only repeat what the second does, and the proofs hold for any number. Two faults break both
attempts of a call, or one attempt each of two calls, which is all `_attempt` tells apart. One
check that refuses, crashes or passes, with the audit log's later refusal, distinguishes the first
refusal in a trace from the last. The two requests of `warden` are alike, so `MCWarden` lets them
ask in one order of the two (`InOrder`), which halves the initial states and is sound for liveness
too, as a symmetry set would not be. A cap of two has LIMITs below, at, one past
and two past it. In `catalog` the age is larger than one tick, so that a change can come within
it, while a read is under way, and after it. In `tail` the times of events span more than the
look-back, and one event printed can move the window past another. In `setup` a third server comes
while one holds the lock and another has lost its first session; two faults break both tries of
one server, or one each of two. Three scopes in every arrangement put a union branch above, below
and beside a nested one. A query's references are checked one after the other and independently,
so one reference stands for each of many; two tables and two columns give a bare name no table,
one or both, in the inner scope, the outer, or neither. Three changes of the schema put one between
two lookups of a check, another between the next two, and one between the check and the query's
run. Each bound is a constant in the cfg.

`RecordedIsPrintedSometime` and the tail's safety leave out events written later than
`FOLLOW_LOOKBACK` less the difference of the clocks (`InTime`): for those the code promises
nothing. Both also leave out what was recorded before the first `since()` (`atSeed`), which tail
takes for printed: that is `doc_tail`.

Fairness. `warden`: threads of the server run (weak fairness, for each request, on its own steps of
`run` and of `_attempt`, and on what the database does for its statement), `execute` ends because of `statement_timeout`
and `connect_timeout`, and the audit
database answers a statement or its connection breaks. The last is an assumption on the
environment: the sink sets no statement timeout, so a database that hangs with its connection up
does hang every request. `catalog`: the thread that reads goes on, and the engine answers, again
by its timeouts. `setup`: servers run, PostgreSQL goes on with a session or ends it when its
client is gone, and an INSERT under way ends. Weak fairness per session is enough: the lock is
asked for finitely often. `tail`: the loop polls as long as it runs (weak fairness of `Poll`);
that it is stopped, or that events arrive, is not assumed. Nothing obliges a fault to occur or to
be repaired, and acquiring a lock is never assumed fair for `LockIsReleased`, which needs only its
holder to go on; for `EveryRequestIsAnswered` weak fairness is enough because the requests, and
with them the number of times the lock is taken, are finitely many; that `threading.Lock` is fair
among endlessly many requests is neither assumed nor shown.

Deadlock is checked everywhere except `tail` and `doc_tail`, whose program ends. Where a model
comes to its end for lack of further requests it stutters explicitly (`Finished`, `Done`,
`Stopped`).

### What the documentation says and the code does not do

* `doc_audit_id`: an `audit_id` may be missing although the record was written. A lost
  acknowledgement makes `_attempt` retry the INSERT, which then meets its own row. The answer is
  still safe (nothing is returned), and the record is true, but `models.py:64` and `server.py:74`
  say otherwise.
* `doc_exit`: exit status 2 does not mean that a check refused. `check` and `query` exit 2 for any
  refusal, and that of the audit log is one: a query which every check passed and which could not
  be recorded exits 2, where `cli.py:51`, `README.md:98` and `docs/plan.md:226` say that nothing
  but a check's refusal does. `InterfacesAgree` leaves the exit status of that case open.
* `doc_catalog`: an unreadable catalog is `CATALOG_UNAVAILABLE` only at the first lookup of the
  access check, and `INTERNAL_ERROR` at any later one. (An `OperationalError` from the rollback on a
  lost connection, which is `doc_engine`, is `INTERNAL_ERROR` at the first lookup too.)
* `doc_engine`: a connection lost during a query ends in `psycopg.OperationalError` from the
  rollback in `finally`, not in an engine error; the Warden records a crash and raises.
* `doc_tail`: an event recorded between the two queries with which `--follow` begins is never
  printed.

Seen but without a run: "the query ran, but its results are withheld" (`warden.py:115`) is also
said when the warehouse could not be reached, because any engine error counts as having run
(`NotRunIsNotRun` states the direction that holds);
an empty `--profile` serves the default profile
(`Profiles!Select`).

## Proofs

All theorems hold for every value of the constants that satisfies the named assumption of its
module (`SinkAssumption`, `CatalogAssumption`, `ShapeAssumption`, `ExecutionAssumption`,
`TailAssumption`, `SetupAssumption`, `WardenAssumption`, `ProfilesAssumption`,
`AccessAssumption`): any sets of threads, requests, checks, servers, events and LIMITs, any number
of faults, any age, cap and look-back, any queries, policies and schemas, and clocks any distance
apart. The assumptions say of the constants what the code's types do (a check has a name, a scope
comes after the one it is in, a policy file is valid) and that values which stand for nothing are
not among those which stand for something. Every invariant that a run checks is stated by a
theorem.

* **AuditSinkProofs.** The invariant adds to the properties: exactly the thread inside `_attempt`
  holds the lock and its first try began there (`LockHeld`); each call has an event of its own
  that it was asked to record (`OwnEvents`, `OneEventPerId`), and every row is such an event
  (`RowsWereAsked`), which is why a retry cannot store anything else; a call whose INSERT was
  answered has its row (`Stored`); and while nothing disturbs a call its connection is sound at
  the second try and its id still unused (`Undisturbed`), without which a duplicate key could not
  be told from a refused event; so an undisturbed call in error is a `record()` whose event the
  table refused (`RejectedForCause`). From it follow `OneStatementAtATime`, `AcknowledgedIsStored`,
  `EarlierFaultsAreHidden` and, step by step, that `AuditSink` refines `AuditLog`.
* **CatalogProofs.** `ChangesShowUpInTime` is not inductive: one must know that what a snapshot
  lacks came about after its `read_at` (`SnapshotCovers`), and before that, that the same is so of
  what a read is about to store (`ReadCovers`). Both also say that nothing handed out is newer,
  which gives `LookupsNeverGoBack`, and that it is no older than the last refresh, which gives
  `RefreshForgets`: a refresh waits for the lock, so there is no read under way whose floor it
  could raise.
* **ExecutionProofs.** The LIMIT sent is the query's own, or one past the cap in place of none or
  of a higher one (`SentIsFair`); what is fetched is the least of it, the cap plus one and the
  rows there are. `LinkKept` ties the connection and the transaction to the step. `FunctionsKept`
  says that a policy in use is valid and that a refused or passed query is one whose functions
  failed or passed; with validity that gives `ListedFunctionsPass`. `NestingKept` says the same of
  nesting as the code counts it.
* **NestingProofs.** `Depth` is a recursive function: the value its equation has, if it has one.
  The number of levels around a scope (`Levels`, from the definition of `Around` by closed sets,
  which knows nothing of a walk) solves the equation (`LevelsGrow`), so there is a solution; and
  two solutions differ at no scope, since they would differ at a first one, whose parent comes
  before it (`DepthIsLevels`). The existence of that first scope (`LeastElement`, from the
  library's theorem that `<` is well-founded) takes the place of an induction. Hence
  `NestingIsCounted`, for every tree.
* **AuditTailProofs.** What was printed is in `seen`, or older than the window will ever reach
  back (`PrintedOnce`), so forgetting ids is safe; `seen` holds nothing but what was in the log at
  the beginning or was printed (`SeenIsKnown`); and an event recorded in time since then and not
  yet printed is in the window (`InWindow`), because the window never moves past the newest event
  printed, which is at most `Skew` ahead of the clock, and an event in time is written within what
  the look-back leaves.

* **SetupProofs.** Only the session that holds the advisory lock has looked, made or committed
  anything (`LockHeld`); what it has made and not committed it found missing, and a session that
  has committed has seen to all of it (`Progress`); and a server's failed tries are lost
  connections, one each (`LostTries`). So no two transactions create the same object, which is the
  error that would fail a start, and what is committed stays.
* **WardenProofs.** The invariant of a request (`Told`) follows it through its phases: what is set
  at each (`Stage`, `Beginning`), that its outcome, claim and event fit what the checks and the
  engine did (`Outcome`), that its call of the sink is for that event and for no other
  (`Recording`), that its answer is one of few (`Answered`), and that a request to be answered by
  an exception has asked for its record or never reached the warehouse (`LeftARecord`). Beside it stands the invariant of
  the sink, taken over with its proof from `AuditSinkProofs` by an instance: each step of `Warden`
  is shown to be a step of the sink, or to leave it alone (`SinkStep`), so that nothing about
  retries and orphans is proved twice. A row carries the event of its request (`RowSays`), with
  which every property is one of the answer or of the event alone. The refinement of `Gate` takes
  each action to the step of `Gate` that it is: the INSERT taking effect, not its acknowledgement,
  is the moment of the record.
* **AccessProofs.** Every table and every reference, as qualified, of a query is still to be
  checked or was cleared (`TablesPass`, `RefsPass`), and of an approved query nothing is left
  (`LeftToCheck`). The rest is about names: if the database takes a bare name for a column of one
  table, then `qualify` has put that table before it
  (`QualifiedAsMeant`), so what was cleared is what is read. For the other direction of
  `ListedIsWhatMayBeQueried`, nothing of a query that runs is ever searched for (`NothingElse`),
  and its refusals have a reason in the policy (`Refusals`).

What the proofs changed. `ExitCode` had a case for refusals and one for failures that both applied
to an exception, which leaves the choice open: it now asks in the order of `cli.py`. A failing
catalog ended a check but not the search under way in it (`CatalogFails`). And
`OnlyGrantedIsRead` failed for a bare name that `Guess` gave by elimination to the only table the
catalog did not know: that was an error of the model, since `qualify` infers a table so only from
a schema that is empty as a whole, and `Guess` now does the same.

Only model-checked: liveness under fairness (`EveryRequestIsAnswered`, `LockIsReleased`,
`EveryStartEnds`, `RecordedIsPrintedSometime`), which the prover cannot do, and the five
disagreements with the documentation, which are counterexamples.

## Not modelled, and why

* SQL itself: what sqlglot makes of a text. `Shape` starts from what the checks ask of the tree;
  `Access` keeps what depends on catalog, profile and schema, and leaves out CTEs, derived tables,
  set operations, USING, aliases that rename columns, and output names, which the tests cover
  construct by construct.
* `OnlyGrantedIsRead` has a condition: bare names must mean to the database what they meant to the
  check (`SameMeaning`). If a column is added to an inner table within `max_age_s`, the query as
  written, which runs, may read it in place of the outer one that was approved.
* How `Warden.table` (`tables NAME`, `describe_table`) reads the name it is given: parsing. It picks
  from what `tables` returns, which is modelled. Nothing in the package calls `Catalog.refresh`; it
  is modelled as the public operation it is.
* Several servers' rows in one audit table: ids never clash, so they do not meet.
* `audit show`, `find` and the DSN of a profile: one query, one lookup, and the database's own
  limit.
* `MemoryAuditSink` (a list behind a lock, for tests); formatting, options, YAML, transports.

## Plan

Done, in this order: `AuditLog`, `AuditSink`, `Warden`, `Catalog`, `Execution`, `AuditTail`,
`Profiles`, `Access`, with the proofs of the four that a single invariant covers; then clocks that
differ and liveness in `AuditTail`, `SchemaSetup`, `Gate` with its refinement and the interfaces
in `Warden`, `Shape`, and NATURAL JOIN and concurrent refreshes in `Access`; then the proofs about
`SchemaSetup`, `Warden`, `Access` and nesting. What could follow:

1. CTEs and derived tables in `Access`: a source that is a scope, whose columns are its output
   names.
2. Action properties: what a request has been told, or has had recorded, never changes.
3. `ShapeRefusal` against a statement, rule by rule, of what each refuses.
