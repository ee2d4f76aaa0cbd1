------------------------------- MODULE Shape -------------------------------
(***************************************************************************)
(* The parse check and the shape check, up to the LIMIT (pipeline/parse.py *)
(* and pipeline/shape.py), and what a valid ShapeConfig is (config.py).    *)
(* A query is what the checks ask of its syntax tree.                      *)
(***************************************************************************)
EXTENDS Integers, Sequences

CONSTANTS
    Functions,                 \* names of functions
    BUILTIN_DENIED_FUNCTIONS,  \* those its patterns match
    Anonymous                  \* those sqlglot does not know as standard SQL

ASSUME ShapeAssumption == BUILTIN_DENIED_FUNCTIONS \cup Anonymous \subseteq Functions

\* A query is a record of: statements, how many the text parses to (0 if it does not parse, or
\* is empty); select, whether it is a query; writes, functions and joins, what its tree
\* contains; and scopes, each with its type and its parent (0 for the outermost).

\* The scopes form a tree: in the order of traversal a scope's parent comes before it.
Nests(scopes) ==
    /\ scopes \in Seq([type : STRING, parent : Nat])
    /\ \A i \in DOMAIN scopes : scopes[i].parent < i

\* Mutant of NothingAllowedIsDenied: the built-in patterns are not asked.
AllowedUnlessDeniedHere(rules) == rules.allowed_functions \cap rules.denied_functions = {}

\* denied_by: the built-in patterns and the configured ones (as the names they match).
DeniedBy(rules) == BUILTIN_DENIED_FUNCTIONS \cup rules.denied_functions

\* _nothing_allowed_is_denied, without which the configuration is refused.
NothingAllowedIsDenied(rules) == rules.allowed_functions \cap DeniedBy(rules) = {}

\* _functions: known functions unless denied, others only if listed.
FunctionsPass(tree, rules) ==
    /\ tree.functions \cap DeniedBy(rules) = {}
    /\ tree.functions \cap Anonymous \subseteq rules.allowed_functions

\* Scopes that are a level of nesting.
Nested == {"SUBQUERY", "DERIVED_TABLE", "CTE"}

\* Mutant of Depth: union branches and laterals count as levels.
DepthOfAnyScope(scopes) ==
    LET depth[i \in DOMAIN scopes] ==
            IF scopes[i].parent = 0 THEN 0 ELSE depth[scopes[i].parent] + 1
    IN  depth

\* subquery_depth's walk from each scope to the outermost.
Depth(scopes) ==
    LET depth[i \in DOMAIN scopes] ==
            IF scopes[i].parent = 0 THEN 0
            ELSE depth[scopes[i].parent] + IF scopes[i].type \in Nested THEN 1 ELSE 0
    IN  depth

TooDeep(tree, rules) ==
    \E i \in DOMAIN tree.scopes : Depth(tree.scopes)[i] > rules.max_subquery_depth

ShapeCodes == {"PARSE_ERROR", "MULTIPLE_STATEMENTS", "NOT_A_SELECT", "NOT_READ_ONLY",
               "FUNCTION_NOT_ALLOWED", "TOO_MANY_JOINS", "SUBQUERY_TOO_DEEP"}

\* ParseCheck.run, then ShapeCheck.run but for _limit: the first rule that is broken.
ShapeRefusal(tree, rules) ==
    CASE tree.statements = 0                -> "PARSE_ERROR"
      [] tree.statements > 1                -> "MULTIPLE_STATEMENTS"
      [] tree.statements = 1 /\ ~tree.select -> "NOT_A_SELECT"
      [] OTHER ->
            IF tree.writes # {} THEN "NOT_READ_ONLY"
            ELSE IF ~FunctionsPass(tree, rules) THEN "FUNCTION_NOT_ALLOWED"
            ELSE IF tree.joins > rules.max_joins THEN "TOO_MANY_JOINS"
            ELSE IF TooDeep(tree, rules) THEN "SUBQUERY_TOO_DEEP"
            ELSE "none"
=============================================================================
