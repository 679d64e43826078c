--------------------------- MODULE MinMaxLemmas ---------------------------
(***************************************************************************)
(* What Min and Max of a finite set of integers return.                    *)
(***************************************************************************)
EXTENDS Integers, FiniteSetsExt, FiniteSetTheorems, WellFoundedInduction, TLAPS

(* A finite set of integers that is not empty has a least element: the     *)
(* sets of elements below an element are well-founded under inclusion.     *)
LEMMA LeastElement ==
  ASSUME NEW T, IsFiniteSet(T), T \subseteq Int, T # {}
  PROVE  \E x \in T : \A y \in T : x <= y
<1> DEFINE Below(x) == {y \in T : y < x}
           B == {Below(x) : x \in T}
<1>1. B \subseteq FiniteSubsetsOf(T) /\ B # {}
  <2>1. \A x \in T : IsFiniteSet(Below(x)) BY FS_Subset
  <2> QED BY <2>1 DEF FiniteSubsetsOf
<1>2. PICK b \in B : \A c \in B : ~ (<<c, b>> \in StrictSubsetOrdering(T))
  <2> HIDE DEF B
  <2> QED BY <1>1, FS_StrictSubsetOrderingWellFounded, WFMin, Zenon
<1>3. PICK x \in T : b = Below(x) OBVIOUS
<1>4. SUFFICES ASSUME NEW y \in T, ~(x <= y) PROVE FALSE OBVIOUS
<1>5. Below(y) \in B /\ y \notin Below(y) /\ y \in Below(x) BY <1>4
<1>6. Below(y) \subseteq Below(x)
  <2>1. SUFFICES ASSUME NEW z \in T, z < y PROVE z < x OBVIOUS
  <2> QED BY <2>1, <1>4
<1>7. Below(x) \in SUBSET T /\ Below(y) \in SUBSET T OBVIOUS
<1>8. <<Below(y), Below(x)>> \in StrictSubsetOrdering(T)
  <2> HIDE DEF Below
  <2> QED BY <1>5, <1>6, <1>7 DEF StrictSubsetOrdering
<1> HIDE DEF Below, B
<1> QED BY <1>2, <1>3, <1>5, <1>8

LEMMA MinBelongs ==
  ASSUME NEW T, IsFiniteSet(T), T \subseteq Int, T # {}
  PROVE  Min(T) \in T /\ \A y \in T : Min(T) <= y
BY LeastElement DEF Min

LEMMA MaxBelongs ==
  ASSUME NEW T, IsFiniteSet(T), T \subseteq Int, T # {}
  PROVE  Max(T) \in T /\ \A y \in T : y <= Max(T)
<1> DEFINE M == {-x : x \in T}
<1>1. IsFiniteSet(M)
  <2>1. [x \in T |-> -x] \in Surjection(T, M) BY DEF Surjection
  <2> QED BY <2>1, FS_Surjection
<1>2. M \subseteq Int /\ M # {}
  <2>1. PICK t : t \in T OBVIOUS
  <2>2. -t \in M BY <2>1
  <2>3. \A x \in T : -x \in Int OBVIOUS
  <2> QED BY <2>2, <2>3
<1>3. PICK m \in M : \A k \in M : m <= k
  <2> HIDE DEF M
  <2> QED BY <1>1, <1>2, LeastElement
<1>4. PICK x \in T : m = -x OBVIOUS
<1>5. \A y \in T : y <= x
  <2>1. SUFFICES ASSUME NEW y \in T PROVE y <= x OBVIOUS
  <2>2. -y \in M /\ y \in Int /\ x \in Int OBVIOUS
  <2>3. m <= -y BY <1>3, <2>2
  <2> QED BY <1>4, <2>2, <2>3
<1>6. \E z \in T : \A y \in T : z >= y BY <1>5
<1> QED BY <1>6 DEF Max
=============================================================================
