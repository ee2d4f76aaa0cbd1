---------------------------- MODULE MCAuditSink ----------------------------
EXTENDS AuditSink, TLC

Symmetry == Permutations(Threads) \cup Permutations(Ids)
=============================================================================
