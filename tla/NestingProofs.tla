--------------------------- MODULE NestingProofs ---------------------------
(***************************************************************************)
(* subquery_depth's walk counts the levels that a scope is nested in, for  *)
(* every tree of scopes in which parents come before their children.       *)
(***************************************************************************)
EXTENDS Execution, TLAPS, SequenceTheorems, FiniteSetTheorems, WellFoundedInduction

\* The levels of nesting around a scope.
Levels(scopes, scope) ==
    {i \in Around(scopes, scope) : scopes[i].parent # 0 /\ scopes[i].type \in Nested}

\* A set of naturals has a least element.  This is what takes the place of induction.
LEMMA LeastElement ==
  ASSUME NEW T, T \subseteq Nat, T # {}
  PROVE  \E m \in T : \A k \in T : m <= k
<1> DEFINE R == {ss \in Nat \X Nat : ss[1] < ss[2]}
<1>1. IsWellFoundedOn(R, Nat)
  BY NatLessThanWellFounded DEF OpToRel
<1>2. \A k \in Nat, m \in Nat : <<k, m>> \in R <=> k < m
  OBVIOUS
<1> HIDE DEF R
<1>3. PICK m \in T : \A k \in T : <<k, m>> \notin R
  BY <1>1, WFMin
<1>4. ASSUME NEW k \in T
      PROVE  m <= k
  <2>1. k \in Nat /\ m \in Nat
    OBVIOUS
  <2>2. ~(k < m)
    BY <1>2, <1>3, <2>1
  <2> QED
    BY <2>1, <2>2
<1> QED
  BY <1>4
-----------------------------------------------------------------------------
(* Scopes.                                                                 *)

\* The step from a scope to the one that it is in.
LEMMA ParentType ==
  ASSUME NEW scopes, Nests(scopes), NEW i \in DOMAIN scopes
  PROVE  /\ i \in Nat \ {0} /\ DOMAIN scopes = 1..Len(scopes) /\ Len(scopes) \in Nat
         /\ scopes[i].parent = 0 \/ scopes[i].parent \in DOMAIN scopes
         /\ scopes[i].parent \in Nat /\ scopes[i].parent < i
<1>1. DOMAIN scopes = 1..Len(scopes) /\ Len(scopes) \in Nat
  BY DEF Nests
<1>2. scopes[i] \in [type : STRING, parent : Nat]
  BY <1>1, ElementOfSeq DEF Nests
<1> QED
  BY <1>1, <1>2 DEF Nests

\* A set of scopes that has what its scopes are in.
Closed(scopes, S) == \A j \in S : scopes[j].parent \in S \cup {0}

\* The scopes around a scope are closed, and are in every closed set that has it.
LEMMA AroundIsClosed ==
  ASSUME NEW scopes, Nests(scopes), NEW i \in DOMAIN scopes
  PROVE  /\ i \in Around(scopes, i) /\ Around(scopes, i) \subseteq DOMAIN scopes
         /\ Closed(scopes, Around(scopes, i))
         /\ \A S \in SUBSET DOMAIN scopes :
                i \in S /\ Closed(scopes, S) => Around(scopes, i) \subseteq S
<1>1. i \in Around(scopes, i) /\ Around(scopes, i) \subseteq DOMAIN scopes
  BY DEF Around
<1>2. \A S \in SUBSET DOMAIN scopes : i \in S /\ Closed(scopes, S) => Around(scopes, i) \subseteq S
  BY DEF Around, Closed
<1>3. ASSUME NEW j \in Around(scopes, i), scopes[j].parent # 0
      PROVE  scopes[j].parent \in Around(scopes, i)
  <2>1. scopes[j].parent \in DOMAIN scopes
    BY <1>1, <1>3, ParentType
  <2>2. ASSUME NEW S \in SUBSET DOMAIN scopes, i \in S, Closed(scopes, S)
        PROVE  scopes[j].parent \in S
    BY <1>2, <1>3, <2>2 DEF Closed
  <2> QED
    BY <2>1, <2>2 DEF Around, Closed
<1> QED
  BY <1>1, <1>2, <1>3 DEF Closed

\* Around the outermost scope there is only that.
LEMMA AroundOutermost ==
  ASSUME NEW scopes, Nests(scopes), NEW i \in DOMAIN scopes, scopes[i].parent = 0
  PROVE  Around(scopes, i) = {i}
<1>1. Closed(scopes, {i})
  BY DEF Closed
<1> QED
  BY <1>1, AroundIsClosed

\* Around any other there is that, and what there is around the one it is in, where it is not.
LEMMA AroundInner ==
  ASSUME NEW scopes, Nests(scopes), NEW i \in DOMAIN scopes, scopes[i].parent # 0
  PROVE  /\ Around(scopes, i) = Around(scopes, scopes[i].parent) \cup {i}
         /\ i \notin Around(scopes, scopes[i].parent)
<1> DEFINE p == scopes[i].parent
<1>1. p \in DOMAIN scopes /\ p < i /\ p \in Nat /\ i \in Nat
  BY ParentType
<1>2. Around(scopes, i) \subseteq Around(scopes, p) \cup {i}
  <2>1. Closed(scopes, Around(scopes, p) \cup {i})
    BY <1>1, AroundIsClosed DEF Closed
  <2> QED
    BY <1>1, <2>1, AroundIsClosed
<1>3. Around(scopes, p) \cup {i} \subseteq Around(scopes, i)
  <2>1. p \in Around(scopes, i)
    BY AroundIsClosed DEF Closed
  <2> QED
    BY <1>1, <2>1, AroundIsClosed
<1>4. i \notin Around(scopes, p)
  <2> DEFINE before == {j \in DOMAIN scopes : j < i}
  <2>1. Closed(scopes, before)
    <3> SUFFICES ASSUME NEW j \in before, scopes[j].parent # 0
                 PROVE  scopes[j].parent \in before
      BY DEF Closed
    <3> QED
      BY <1>1, ParentType
  <2>2. p \in before /\ i \notin before
    BY <1>1
  <2> QED
    BY <1>1, <2>1, <2>2, AroundIsClosed
<1> QED
  BY <1>2, <1>3, <1>4

\* The number of levels of a scope is that of the one it is in, and one more if it is a level.
LEMMA LevelsGrow ==
  ASSUME NEW scopes, Nests(scopes), NEW i \in DOMAIN scopes
  PROVE  /\ IsFiniteSet(Levels(scopes, i))
         /\ Cardinality(Levels(scopes, i)) =
                IF scopes[i].parent = 0 THEN 0
                ELSE Cardinality(Levels(scopes, scopes[i].parent))
                        + IF scopes[i].type \in Nested THEN 1 ELSE 0
<1> DEFINE p == scopes[i].parent
<1>1. ASSUME NEW j \in DOMAIN scopes
      PROVE  IsFiniteSet(Levels(scopes, j)) /\ Cardinality(Levels(scopes, j)) \in Nat
  <2>1. IsFiniteSet(DOMAIN scopes)
    BY ParentType, FS_Interval
  <2>2. Levels(scopes, j) \subseteq DOMAIN scopes
    BY AroundIsClosed DEF Levels
  <2> QED
    BY <2>1, <2>2, FS_Subset, FS_CardinalityType
<1>2. CASE p = 0
  <2>1. Levels(scopes, i) = {}
    BY <1>2, AroundOutermost DEF Levels
  <2> QED
    BY <1>1, <1>2, <2>1, FS_EmptySet
<1>3. CASE p # 0 /\ scopes[i].type \in Nested
  <2>1. Levels(scopes, i) = Levels(scopes, p) \cup {i} /\ i \notin Levels(scopes, p)
    BY <1>3, AroundInner DEF Levels
  <2>2. p \in DOMAIN scopes
    BY <1>3, ParentType
  <2> QED
    BY <1>1, <1>3, <2>1, <2>2, FS_AddElement
<1>4. CASE p # 0 /\ scopes[i].type \notin Nested
  <2>1. Levels(scopes, i) = Levels(scopes, p)
    BY <1>4, AroundInner DEF Levels
  <2>2. p \in DOMAIN scopes
    BY <1>4, ParentType
  <2> QED
    BY <1>1, <1>4, <2>1, <2>2
<1> QED
  BY <1>2, <1>3, <1>4

\* What the walk of subquery_depth computes is the number of levels: that solves its equation,
\* and nothing else does.
LEMMA DepthIsLevels ==
  ASSUME NEW scopes, Nests(scopes)
  PROVE  \A i \in DOMAIN scopes : Depth(scopes)[i] = Cardinality(Levels(scopes, i))
<1> DEFINE D == DOMAIN scopes
           Walk(f) == [i \in D |-> IF scopes[i].parent = 0 THEN 0
                                   ELSE f[scopes[i].parent]
                                            + IF scopes[i].type \in Nested THEN 1 ELSE 0]
           count == [i \in D |-> Cardinality(Levels(scopes, i))]
           f == Depth(scopes)
<1>1. f = CHOOSE g : g = Walk(g)
  BY DEF Depth
<1>2. count = Walk(count)
  BY LevelsGrow, ParentType
<1>3. f = Walk(f)
  <2> HIDE DEF count, f, Walk
  <2> QED
    BY <1>1, <1>2
<1>4. \A i \in D : f[i] = count[i]
  <2> SUFFICES ASSUME NEW j \in D, f[j] # count[j] PROVE FALSE
    OBVIOUS
  <2> DEFINE wrong == {i \in D : f[i] # count[i]}
  <2>1. wrong \subseteq Nat /\ j \in wrong
    BY ParentType
  <2>2. PICK i \in wrong : \A k \in wrong : i <= k
    BY <2>1, LeastElement
  <2>3. i \in D /\ f[i] = Walk(f)[i] /\ count[i] = Walk(count)[i]
    BY <1>2, <1>3
  <2>4. CASE scopes[i].parent = 0
    BY <2>3, <2>4
  <2>5. CASE scopes[i].parent # 0
    <3>1. scopes[i].parent \in D /\ scopes[i].parent \notin wrong
      BY <2>2, <2>3, <2>5, ParentType
    <3> QED
      BY <2>3, <2>5, <3>1
  <2> QED
    BY <2>4, <2>5
<1> QED
  BY <1>4
=============================================================================
