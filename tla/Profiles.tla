------------------------------ MODULE Profiles ------------------------------
(***************************************************************************)
(* The profiles of a policy file (config.py, profiles.py): what a valid    *)
(* file may say, which profile a server serves, and what that profile may  *)
(* read.  These are functions of the policy; Access gives them a server.   *)
(***************************************************************************)
CONSTANTS
    Tables,      \* schema.table names
    Columns,     \* column names
    Names,       \* profile names
    Implicit,    \* the one profile there is when none are defined
    Everything,  \* "*"
    Empty,       \* an empty profile name
    None

\* Every column of a table, including ones added later, or just these.
ColumnRules == {Everything} \cup ((SUBSET Columns) \ {{}})

\* ProfileConfig.tables: "*" for every table, or a rule for some tables.
TableRules == {Everything} \cup UNION {[listed -> ColumnRules] : listed \in SUBSET Tables}

\* No rule is not a rule.
ASSUME ProfilesAssumption ==
    /\ \A rule \in ColumnRules : rule # None
    /\ \A rules \in TableRules : rules # None

\* What validation lets through: at least one profile, none called like the implicit one, and
\* a default that is one of them.
ValidConfig(config) ==
    \/ config.profiles = None /\ config.default = None
    \/ /\ config.profiles # None
       /\ DOMAIN config.profiles \subseteq Names \ {Implicit}
       /\ DOMAIN config.profiles # {}
       /\ \A name \in DOMAIN config.profiles : config.profiles[name] \in TableRules
       /\ config.default \in DOMAIN config.profiles \cup {None}

\* select_profile: the profile called name, or the default; None if there is no such profile.
\* The implicit profile has no rules, which is not the same as a rule that allows everything.
Select(config, name) ==
    LET picked == IF name \in {None, Empty} THEN config.default ELSE name
    IN  IF config.profiles = None
        THEN IF name \in {None, Implicit} THEN [name |-> Implicit, access |-> None] ELSE None
        ELSE IF picked # None /\ picked \in DOMAIN config.profiles
             THEN [name |-> picked, access |-> config.profiles[picked]]
             ELSE None

\* Access.columns: the columns of a table that a profile with rules may read, None if not the
\* table.
ColumnsOf(access, table) ==
    IF access = Everything THEN Everything
    ELSE IF table \in DOMAIN access THEN access[table] ELSE None
=============================================================================
