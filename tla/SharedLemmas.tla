------------------------------ MODULE SharedLemmas ------------------------------
(***************************************************************************)
(* Facts that the proofs of several modules need: numbers have a least and *)
(* a greatest one; paths over any names N are ordered like a tree; and the *)
(* targets derive_watch_targets computes lie above the sources.            *)
(***************************************************************************)
EXTENDS MirrorPaths, Integers, FiniteSetTheorems, WellFoundedInduction,
        SequenceTheorems, TLAPS

-----------------------------------------------------------------------------
(* Numbers. *)

\* A set of naturals has a least element.
LEMMA LeastNatural ==
    ASSUME NEW T, T \subseteq Nat, T # {}
    PROVE  \E n \in T : \A m \in T : n <= m
<1>1. PICK n0 \in T : TRUE
  OBVIOUS
<1> DEFINE S == 1..n0
           U == {1..x : x \in {y \in T : y <= n0}}
<1>2. IsFiniteSet(S)
  BY <1>1, FS_Interval
<1>3. IsWellFoundedOn(StrictSubsetOrdering(S), SUBSET S)
  <2>1. FiniteSubsetsOf(S) = SUBSET S
    BY <1>2, FS_FiniteSubsetsOfFinite
  <2> QED
    BY <2>1, FS_StrictSubsetOrderingWellFounded
<1>4. U \subseteq SUBSET S /\ U # {}
  BY <1>1
<1>5. PICK u \in U : \A v \in U : ~(<<v, u>> \in StrictSubsetOrdering(S))
  <2> HIDE DEF S, U
  <2> QED
    BY <1>3, <1>4, WFMin
<1>6. PICK x \in T : x <= n0 /\ u = 1..x
  BY <1>5
<1>7. ASSUME NEW y \in T, y < x
      PROVE  FALSE
  <2>1. 1..y \in U /\ 1..y \subseteq 1..x /\ x \in 1..x /\ x \notin 1..y
    BY <1>6, <1>7
  <2>2. <<1..y, 1..x>> \in StrictSubsetOrdering(S)
    BY <2>1, <1>4, <1>5, <1>6 DEF StrictSubsetOrdering
  <2> QED
    BY <2>1, <2>2, <1>5, <1>6
<1> QED
  BY <1>6, <1>7

\* And one that has a bound has a greatest one.
LEMMA GreatestNatural ==
    ASSUME NEW k \in Nat, NEW S, S \subseteq 0..k, S # {}
    PROVE  \E m \in S : \A x \in S : m >= x
<1> DEFINE T == {k - x : x \in S}
<1>1. \A x \in S : x \in Nat /\ x <= k /\ k - x \in Nat
  OBVIOUS
<1>2. T \subseteq Nat /\ T # {}
  BY <1>1
<1>3. PICK d \in T : \A y \in T : d <= y
  <2> HIDE DEF T
  <2> QED
    BY <1>2, LeastNatural
<1>4. PICK m \in S : d = k - m
  OBVIOUS
<1>5. ASSUME NEW x \in S PROVE m >= x
  <2>1. k - m <= k - x
    BY <1>3, <1>4
  <2> QED
    BY <1>1, <2>1
<1> QED
  BY <1>5

-----------------------------------------------------------------------------
(* The order of paths. *)

LEMMA UnderTransitive ==
    ASSUME NEW N, NEW p \in Seq(N), NEW q \in Seq(N), NEW r \in Seq(N),
           Under(p, q), Under(q, r)
    PROVE  Under(p, r)
BY DEF Under

LEMMA UnderAntisymmetric ==
    ASSUME NEW N, NEW p \in Seq(N), NEW q \in Seq(N), Under(p, q), Under(q, p)
    PROVE  p = q
<1>1. Len(p) = Len(q) /\ \A i \in 1..Len(p) : p[i] = q[i]
  BY DEF Under
<1> QED
  BY <1>1, SeqEqual

\* Two paths above a third lie one above the other.
LEMMA UnderIsATree ==
    ASSUME NEW N, NEW p \in Seq(N), NEW q \in Seq(N), NEW r \in Seq(N),
           Under(p, q), Under(p, r), Len(r) <= Len(q)
    PROVE  Under(q, r)
BY DEF Under

-----------------------------------------------------------------------------
(* What derive_watch_targets computes. *)

\* The nearest existing directory exists, and is the longest one above p.
LEMMA NearestDirFacts ==
    ASSUME NEW N, NEW D, D \subseteq Seq(N), Root \in D, NEW p \in Seq(N)
    PROVE  /\ NearestDir(p, D) \in D
           /\ Under(p, NearestDir(p, D))
<1> DEFINE Above == {d \in D : Under(p, d)}
           Gap   == {Len(p) - Len(d) : d \in Above}
<1>1. Root \in Above
  BY DEF Under, Root
<1>2. Gap \subseteq Nat /\ Gap # {}
  BY <1>1 DEF Under
<1>3. PICK n \in Gap : \A m \in Gap : n <= m
  <2> HIDE DEF Gap
  <2> QED
    BY <1>2, LeastNatural
<1>4. PICK d \in Above : n = Len(p) - Len(d)
  BY <1>3
<1>5. ASSUME NEW o \in D, Under(p, o)
      PROVE  Len(o) <= Len(d)
  <2>1. Len(p) - Len(o) \in Gap
    BY <1>5
  <2>2. Len(p) \in Nat /\ Len(o) \in Nat /\ Len(d) \in Nat
    BY <1>4, <1>5
  <2>3. n <= Len(p) - Len(o)
    BY <2>1, <1>3
  <2> QED
    BY <2>2, <2>3, <1>4
<1>6. d \in D /\ Under(p, d) /\ \A o \in D : Under(p, o) => Len(o) <= Len(d)
  BY <1>4, <1>5
<1> QED
  BY <1>6 DEF NearestDir

\* Every directory a source is mapped to has a target at or above it.
LEMMA TargetAboveDir ==
    ASSUME NEW N, NEW S, NEW D, Dirs(S, D) \subseteq Seq(N), NEW d \in Dirs(S, D)
    PROVE  \E t \in Derive(S, D) : Under(d, t)
<1> DEFINE Above == {o \in Dirs(S, D) : Under(d, o)}
           Lens  == {Len(o) : o \in Above}
<1>1. d \in Above
  BY DEF Under
<1>2. Lens \subseteq Nat /\ Lens # {}
  <2>1. \A o \in Above : Len(o) \in Nat
    OBVIOUS
  <2> HIDE DEF Above
  <2> QED
    BY <1>1, <2>1
<1>3. PICK n \in Lens : \A m \in Lens : n <= m
  <2> HIDE DEF Lens
  <2> QED
    BY <1>2, LeastNatural
<1>4. PICK t \in Above : n = Len(t)
  BY <1>3
<1>5. ASSUME NEW o \in Dirs(S, D), o # t, Under(t, o)
      PROVE  FALSE
  <2>1. Under(d, o)
    BY <1>4, <1>5, UnderTransitive
  <2>2. Len(t) <= Len(o)
    BY <2>1, <1>3, <1>4
  <2>3. Under(o, t)
    BY <2>1, <2>2, <1>4, UnderIsATree
  <2> QED
    BY <2>3, <1>4, <1>5, UnderAntisymmetric
<1>6. t \in Derive(S, D)
  BY <1>4, <1>5 DEF Derive
<1> QED
  BY <1>4, <1>6

\* Two targets above one path are the same target.
LEMMA TargetsDisjoint ==
    ASSUME NEW N, NEW S, NEW D, Dirs(S, D) \subseteq Seq(N), NEW p \in Seq(N),
           NEW t \in Derive(S, D), NEW u \in Derive(S, D), Under(p, t), Under(p, u)
    PROVE  t = u
<1>1. t \in Dirs(S, D) /\ u \in Dirs(S, D) /\ t \in Seq(N) /\ u \in Seq(N)
  BY DEF Derive
<1>2. CASE Len(t) <= Len(u)
  <2>1. Under(u, t)
    BY <1>1, <1>2, UnderIsATree
  <2> QED
    BY <1>1, <2>1 DEF Derive
<1>3. CASE Len(u) <= Len(t)
  <2>1. Under(t, u)
    BY <1>1, <1>3, UnderIsATree
  <2> QED
    BY <1>1, <2>1 DEF Derive
<1>4. Len(t) \in Nat /\ Len(u) \in Nat
  BY <1>1
<1> QED
  BY <1>2, <1>3, <1>4

\* Sources are mapped to paths.
LEMMA DirsArePaths ==
    ASSUME NEW N, NEW S, S \subseteq Seq(N), NEW D, D \subseteq Seq(N), Root \in D
    PROVE  Dirs(S, D) \subseteq Seq(N)
BY NearestDirFacts DEF Dirs

\* A watchable source, and all below it, has a target.
LEMMA SourceHasTarget ==
    ASSUME NEW N, NEW S, S \subseteq Seq(N), NEW D, D \subseteq Seq(N), Root \in D,
           NEW s \in S, Watchable(s, D), NEW p \in Seq(N), Under(p, s)
    PROVE  \E t \in Derive(S, D) : Under(p, t)
<1>1. s \in Seq(N)
  OBVIOUS
<1>2. NearestDir(s, D) \in Dirs(S, D) /\ Under(s, NearestDir(s, D))
  BY <1>1, NearestDirFacts DEF Dirs
<1>3. Dirs(S, D) \subseteq Seq(N)
  BY DirsArePaths
<1>4. PICK t \in Derive(S, D) : Under(NearestDir(s, D), t)
  BY <1>2, <1>3, TargetAboveDir
<1>5. t \in Seq(N) /\ NearestDir(s, D) \in Seq(N)
  BY <1>2, <1>3, <1>4 DEF Derive
<1>6. Under(p, NearestDir(s, D))
  BY <1>1, <1>2, <1>5, UnderTransitive
<1> QED
  BY <1>4, <1>5, <1>6, UnderTransitive

=============================================================================
