---------------------------- MODULE MCExecution ----------------------------
EXTENDS Execution

CONSTANTS sum, mine, sleep

Plain == [statements |-> 1, select |-> TRUE, writes |-> {}, functions |-> {}, joins |-> 0,
          scopes |-> <<[type |-> "ROOT", parent |-> 0]>>]

\* Up to three scopes inside the outermost, nested or beside it, in every way they can lie.
Scope(parents) ==
    [type : {"CTE", "UNION"}, parent : parents]
Inner ==
    {<<a>> : a \in Scope({1})}
    \cup {<<a, b>> : a \in Scope({1}), b \in Scope({1, 2})}
    \cup {<<a, b, c>> : a \in Scope({1}), b \in Scope({1, 2}), c \in Scope({1, 2, 3})}

\* A plain query, and those that differ from it in one thing, or in two for the order of rules.
MCTrees ==
    {Plain, [Plain EXCEPT !.select = FALSE], [Plain EXCEPT !.joins = 1]}
    \cup {[Plain EXCEPT !.statements = n, !.writes = {"DML"}] : n \in 0..2}
    \cup {[Plain EXCEPT !.functions = some] : some \in SUBSET Functions}
    \cup {[Plain EXCEPT !.scopes = Plain.scopes \o inner] : inner \in Inner}

\* No nesting or one level; some of these allow what they, or the built-in patterns, deny.
MCPolicies ==
    [max_joins : {0}, max_subquery_depth : {0, 1},
     allowed_functions : {{}, {mine}, {sum}, {mine, sleep}}, denied_functions : {{}, {sum}}]
=============================================================================
