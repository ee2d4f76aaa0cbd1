------------------------------ MODULE MCWarden ------------------------------
EXTENDS Warden

\* One check that refuses, crashes or passes, before the audit log has its say.
OneCheck == <<"parse">>

\* Two checks tell the first from a later refusal.
MCChecks == <<"parse", "access">>

\* Requests are alike, so it does not matter which of two asks what: one initial state for both
\* orders.  Unlike a SYMMETRY set, this is sound for liveness too.
Rank(q) == (IF q.dryRun THEN 2 ELSE 0) + (IF q.storable THEN 1 ELSE 0)
First == CHOOSE r \in Requests : TRUE
InOrder == \A r \in Requests : Rank(query[First]) <= Rank(query[r])

MCInit == Init /\ InOrder

MCSpec == MCInit /\ [][Next]_vars /\ Fairness
=============================================================================
