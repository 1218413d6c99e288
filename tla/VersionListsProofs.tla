------------------------- MODULE VersionListsProofs -------------------------
(***************************************************************************)
(* Proofs about the versions list of an ApplicationDefinition, for every   *)
(* value of the constants, assuming that every chartVersions list the      *)
(* chart can take names each appVersion once (the duplicate_versions run   *)
(* shows what a chart that does not gets).                                 *)
(*                                                                         *)
(* The merge loop of mergeVersions is a recursive function; facts about    *)
(* all its iterations are proved by least counterexample: the set of       *)
(* iterations where the fact fails has a least element (WFMin on <), and   *)
(* the step from the one before it gives a contradiction.                  *)
(***************************************************************************)
EXTENDS VersionLists, ResolverProofs, NaturalsInduction, WellFoundedInduction,
        TLAPS

\* A list names each appVersion at most once.
KeysUnique(s) == \A i, j \in 1..Len(s) : i # j => s[i].version # s[j].version

\* Every chartVersions list the chart can take names each appVersion once.
UniqueLists ==
    \A vs \in VersionLists :
        \A i, j \in 1..Len(vs) : i # j => vs[i].appVersion # vs[j].appVersion

-----------------------------------------------------------------------------
(* Helpers.                                                                *)

\* Every non-empty set of naturals has a least element.
LEMMA NatMin ==
    ASSUME NEW T \in SUBSET Nat, T # {}
    PROVE  \E m \in T : \A k \in T : m <= k
<1>1. PICK m \in T : \A k \in T : ~(<<k, m>> \in OpToRel(<, Nat))
  BY NatLessThanWellFounded, WFMin
<1>2. \A k \in T : ~(k < m)
  <2> TAKE k \in T
  <2>1. <<k, m>> \in Nat \X Nat
    OBVIOUS
  <2>. QED  BY <1>1, <2>1 DEF OpToRel
<1>. QED  BY <1>2

\* In a list with unique keys, existingIndex finds the one entry of a key
\* that is there, and 0 for a key that is not.
LEMMA IndexOfUnique ==
    ASSUME NEW S, NEW s \in Seq(S), KeysUnique(s), NEW k
    PROVE  /\ k \in VersionKeys(s) => /\ ExistingIndex(s, k) \in 1..Len(s)
                                      /\ s[ExistingIndex(s, k)].version = k
           /\ k \notin VersionKeys(s) => ExistingIndex(s, k) = 0
<1> DEFINE I == {i \in 1..Len(s) : s[i].version = k}
<1>1. ExistingIndex(s, k) = IF I # {} THEN Max(I) ELSE 0
  BY DEF ExistingIndex, SelectLastInSeq
<1>2. ASSUME k \in VersionKeys(s)
      PROVE  /\ ExistingIndex(s, k) \in 1..Len(s)
             /\ s[ExistingIndex(s, k)].version = k
  <2>1. PICK i0 \in 1..Len(s) : s[i0].version = k
    BY <1>2 DEF VersionKeys
  <2>2. I = {i0}
    BY <2>1 DEF KeysUnique
  <2>3. Max({i0}) = i0
    BY DEF Max
  <2>. QED  BY <1>1, <2>1, <2>2, <2>3
<1>3. ASSUME k \notin VersionKeys(s) PROVE ExistingIndex(s, k) = 0
  <2>1. I = {}
    BY <1>3 DEF VersionKeys
  <2>. QED  BY <1>1, <2>1
<1>. QED  BY <1>2, <1>3

\* The loop of mergeVersions as a function of the iteration: result after
\* i desired versions.
MergeLoop(existing, desired) ==
    CHOOSE result : result = [i \in 0..Len(desired) |->
        IF i = 0 THEN existing
        ELSE MergeStep(existing, result[i - 1], desired[i])]

\* MergeVersions of two non-empty lists is the loop's last iteration.
LEMMA MergeIsLoop ==
    ASSUME NEW e, NEW d, Len(e) # 0, Len(d) # 0
    PROVE  MergeVersions(e, d) = MergeLoop(e, d)[Len(d)]
BY DEF MergeVersions, MergeLoop

\* The loop's iterations: the first is existing, each next one is one
\* MergeStep on the one before.
LEMMA MergeLoopUnfold ==
    ASSUME NEW e, NEW S, NEW d \in Seq(S)
    PROVE  /\ MergeLoop(e, d)[0] = e
           /\ \A i \in 1..Len(d) :
                 MergeLoop(e, d)[i] = MergeStep(e, MergeLoop(e, d)[i - 1], d[i])
<1> DEFINE Def(v, i) == MergeStep(e, v, d[i])
           f == MergeLoop(e, d)
<1>0. Len(d) \in Nat
  OBVIOUS
<1>1. FiniteNatInductiveDefHypothesis(f, e, Def, 0, Len(d))
  BY DEF FiniteNatInductiveDefHypothesis, MergeLoop
<1>2. FiniteNatInductiveDefConclusion(f, e, Def, 0, Len(d))
  BY <1>0, <1>1, FiniteNatInductiveDef
<1>. QED  BY <1>2 DEF FiniteNatInductiveDefConclusion
-----------------------------------------------------------------------------
(* The merge loop.                                                         *)

\* What result holds after the first i desired versions: existing's keys
\* at existing's indexes, each key once, the keys of existing and of those
\* versions, each of those versions, and nothing but them and entries of
\* existing that none of them overwrote.
LoopInv(S, e, d, r, i) ==
    /\ r \in Seq(S)
    /\ Len(e) <= Len(r)
    /\ \A p \in 1..Len(e) : r[p].version = e[p].version
    /\ KeysUnique(r)
    /\ VersionKeys(r) = VersionKeys(e) \cup {d[j].version : j \in 1..i}
    /\ \A j \in 1..i : \E p \in 1..Len(r) : r[p] = d[j]
    /\ \A p \in 1..Len(r) :
          \/ \E j \in 1..i : r[p] = d[j]
          \/ /\ p \in 1..Len(e) /\ r[p] = e[p]
             /\ \A j \in 1..i : d[j].version # e[p].version

\* The loop starts from a copy of existing.
LEMMA LoopStart ==
    ASSUME NEW S, NEW e \in Seq(S), KeysUnique(e), NEW d
    PROVE  LoopInv(S, e, d, e, 0)
BY DEF LoopInv

\* A key is in a list when some entry holds it.
LEMMA KeysOfSeq ==
    ASSUME NEW S, NEW s \in Seq(S), NEW y
    PROVE  y \in VersionKeys(s) <=> \E p \in 1..Len(s) : s[p].version = y
BY DEF VersionKeys

\* A desired version whose key exists overwrites the one entry with that
\* key, which holds the same key.
LEMMA StepOverwrites ==
    ASSUME NEW S, NEW e \in Seq(S), NEW d \in Seq(S),
           KeysUnique(e), KeysUnique(d),
           NEW i \in 0..(Len(d) - 1), NEW r, LoopInv(S, e, d, r, i),
           d[i + 1].version \in VersionKeys(e)
    PROVE  LoopInv(S, e, d, MergeStep(e, r, d[i + 1]), i + 1)
<1> DEFINE x == d[i + 1]
           k == x.version
           idx == ExistingIndex(e, k)
           r2 == MergeStep(e, r, x)
<1>1. idx \in 1..Len(e) /\ e[idx].version = k
  BY IndexOfUnique
<1>2. r2 = [r EXCEPT ![idx] = x]
  BY <1>1 DEF MergeStep
<1>3. /\ r \in Seq(S) /\ x \in S /\ idx \in 1..Len(r)
      /\ r2 \in Seq(S) /\ Len(r2) = Len(r) /\ r2[idx] = x
      /\ \A p \in 1..Len(r) : p # idx => r2[p] = r[p]
  BY <1>1, <1>2 DEF LoopInv
<1>4. r[idx].version = k
  BY <1>1 DEF LoopInv
<1>5. \A p \in 1..Len(r) : r2[p].version = r[p].version
  BY <1>3, <1>4
<1>6. \A j \in 1..i : d[j].version # k
  BY DEF KeysUnique
<1>7. \A p \in 1..Len(e) : r2[p].version = e[p].version
  BY <1>3, <1>5 DEF LoopInv
<1>8. KeysUnique(r2)
  BY <1>3, <1>5 DEF LoopInv, KeysUnique
<1>9. VersionKeys(r2) = VersionKeys(e) \cup {d[j].version : j \in 1..i + 1}
  <2>1. VersionKeys(r2) = VersionKeys(r)
    <3> SUFFICES ASSUME NEW y
                 PROVE  y \in VersionKeys(r2) <=> y \in VersionKeys(r)
      OBVIOUS
    <3>1. y \in VersionKeys(r2) <=> \E p \in 1..Len(r) : r2[p].version = y
      BY <1>3, KeysOfSeq
    <3>2. y \in VersionKeys(r) <=> \E p \in 1..Len(r) : r[p].version = y
      BY <1>3, KeysOfSeq
    <3>. QED  BY <1>5, <3>1, <3>2
  <2>2. {d[j].version : j \in 1..i + 1} = {d[j].version : j \in 1..i} \cup {k}
    OBVIOUS
  <2>3. k \in VersionKeys(e)
    OBVIOUS
  <2>. QED  BY <2>1, <2>2, <2>3 DEF LoopInv
<1>10. \A j \in 1..i + 1 : \E p \in 1..Len(r2) : r2[p] = d[j]
  <2> SUFFICES ASSUME NEW j \in 1..i PROVE \E p \in 1..Len(r2) : r2[p] = d[j]
    BY <1>3
  <2>1. PICK p \in 1..Len(r) : r[p] = d[j]
    BY DEF LoopInv
  <2>2. p # idx
    BY <1>4, <1>6, <2>1
  <2>. QED  BY <1>3, <2>1, <2>2
<1>11. \A p \in 1..Len(r2) :
          \/ \E j \in 1..i + 1 : r2[p] = d[j]
          \/ /\ p \in 1..Len(e) /\ r2[p] = e[p]
             /\ \A j \in 1..i + 1 : d[j].version # e[p].version
  <2> SUFFICES ASSUME NEW p \in 1..Len(r), p # idx
               PROVE  \/ \E j \in 1..i + 1 : r2[p] = d[j]
                      \/ /\ p \in 1..Len(e) /\ r2[p] = e[p]
                         /\ \A j \in 1..i + 1 : d[j].version # e[p].version
    BY <1>3
  <2>1. p \in 1..Len(e) => e[p].version # k
    BY <1>1 DEF KeysUnique
  <2>2. r2[p] = r[p]
    BY <1>3
  <2>3. \/ \E j \in 1..i : r[p] = d[j]
        \/ /\ p \in 1..Len(e) /\ r[p] = e[p]
           /\ \A j \in 1..i : d[j].version # e[p].version
    BY DEF LoopInv
  <2>. QED  BY <2>1, <2>2, <2>3
<1>. QED  BY <1>3, <1>7, <1>8, <1>9, <1>10, <1>11 DEF LoopInv

\* A desired version whose key is not in existing is appended; its key is
\* not in result yet, because desired names each key once.
LEMMA StepAppends ==
    ASSUME NEW S, NEW e \in Seq(S), NEW d \in Seq(S),
           KeysUnique(e), KeysUnique(d),
           NEW i \in 0..(Len(d) - 1), NEW r, LoopInv(S, e, d, r, i),
           d[i + 1].version \notin VersionKeys(e)
    PROVE  LoopInv(S, e, d, MergeStep(e, r, d[i + 1]), i + 1)
<1> DEFINE x == d[i + 1]
           k == x.version
           r2 == MergeStep(e, r, x)
<1>1. r2 = Append(r, x)
  BY IndexOfUnique DEF MergeStep
<1>2. /\ r \in Seq(S) /\ x \in S
      /\ r2 \in Seq(S) /\ Len(r2) = Len(r) + 1 /\ r2[Len(r) + 1] = x
      /\ \A p \in 1..Len(r) : r2[p] = r[p]
  BY <1>1 DEF LoopInv
<1>3. \A j \in 1..i : d[j].version # k
  BY DEF KeysUnique
<1>4. k \notin VersionKeys(r)
  BY <1>3 DEF LoopInv
<1>5. \A p \in 1..Len(r) : r[p].version # k
  BY <1>2, <1>4, KeysOfSeq
<1>6. \A p \in 1..Len(e) : e[p].version # k
  BY KeysOfSeq
<1>7. KeysUnique(r2)
  <2>1. KeysUnique(r)
    BY DEF LoopInv
  <2>2. \A p \in 1..Len(r) : r2[p].version = r[p].version
    BY <1>2
  <2>3. r2[Len(r) + 1].version = k
    BY <1>2
  <2> SUFFICES ASSUME NEW a \in 1..Len(r2), NEW b \in 1..Len(r2), a # b
               PROVE  r2[a].version # r2[b].version
    BY DEF KeysUnique
  <2>4. CASE a \in 1..Len(r) /\ b \in 1..Len(r)
    BY <2>1, <2>2, <2>4 DEF KeysUnique
  <2>5. CASE a = Len(r) + 1
    BY <1>2, <1>5, <2>2, <2>3, <2>5
  <2>6. CASE b = Len(r) + 1
    BY <1>2, <1>5, <2>2, <2>3, <2>6
  <2>. QED  BY <1>2, <2>4, <2>5, <2>6
<1>8. VersionKeys(r2) = VersionKeys(e) \cup {d[j].version : j \in 1..i + 1}
  <2>1. VersionKeys(r2) = VersionKeys(r) \cup {k}
    <3> SUFFICES ASSUME NEW y
                 PROVE  y \in VersionKeys(r2) <=> y \in VersionKeys(r) \cup {k}
      OBVIOUS
    <3>1. y \in VersionKeys(r2) <=> \E p \in 1..Len(r) + 1 : r2[p].version = y
      BY <1>2, KeysOfSeq
    <3>2. y \in VersionKeys(r) <=> \E p \in 1..Len(r) : r[p].version = y
      BY <1>2, KeysOfSeq
    <3>3. ASSUME y \in VersionKeys(r2) PROVE y \in VersionKeys(r) \cup {k}
      <4>1. PICK p \in 1..Len(r) + 1 : r2[p].version = y
        BY <3>1, <3>3
      <4>2. CASE p = Len(r) + 1
        BY <1>2, <4>1, <4>2
      <4>3. CASE p \in 1..Len(r)
        BY <1>2, <3>2, <4>1, <4>3
      <4>. QED  BY <4>2, <4>3
    <3>4. ASSUME y \in VersionKeys(r) \cup {k} PROVE y \in VersionKeys(r2)
      <4>1. CASE y = k
        BY <1>2, <3>1, <4>1
      <4>2. CASE y \in VersionKeys(r)
        <5>1. PICK p \in 1..Len(r) : r[p].version = y
          BY <3>2, <4>2
        <5>. QED  BY <1>2, <3>1, <5>1
      <4>. QED  BY <3>4, <4>1, <4>2
    <3>. QED  BY <3>3, <3>4
  <2>2. {d[j].version : j \in 1..i + 1} = {d[j].version : j \in 1..i} \cup {k}
    OBVIOUS
  <2>. QED  BY <2>1, <2>2 DEF LoopInv
<1>9. \A j \in 1..i + 1 : \E p \in 1..Len(r2) : r2[p] = d[j]
  <2>1. ASSUME NEW j \in 1..i PROVE \E p \in 1..Len(r2) : r2[p] = d[j]
    <3>1. PICK p \in 1..Len(r) : r[p] = d[j]
      BY DEF LoopInv
    <3>. QED  BY <1>2, <3>1
  <2>2. \E p \in 1..Len(r2) : r2[p] = d[i + 1]
    BY <1>2
  <2>. QED  BY <2>1, <2>2
<1>10. \A p \in 1..Len(r2) :
          \/ \E j \in 1..i + 1 : r2[p] = d[j]
          \/ /\ p \in 1..Len(e) /\ r2[p] = e[p]
             /\ \A j \in 1..i + 1 : d[j].version # e[p].version
  <2> SUFFICES ASSUME NEW p \in 1..Len(r2)
               PROVE  \/ \E j \in 1..i + 1 : r2[p] = d[j]
                      \/ /\ p \in 1..Len(e) /\ r2[p] = e[p]
                         /\ \A j \in 1..i + 1 : d[j].version # e[p].version
    OBVIOUS
  <2>1. CASE p = Len(r) + 1
    BY <1>2, <2>1
  <2>2. CASE p \in 1..Len(r)
    <3>1. r2[p] = r[p]
      BY <1>2, <2>2
    <3>2. \/ \E j \in 1..i : r[p] = d[j]
          \/ /\ p \in 1..Len(e) /\ r[p] = e[p]
             /\ \A j \in 1..i : d[j].version # e[p].version
      BY <2>2 DEF LoopInv
    <3>. QED  BY <1>6, <3>1, <3>2
  <2>. QED  BY <1>2, <2>1, <2>2
<1>11. Len(e) <= Len(r2) /\ \A p \in 1..Len(e) : r2[p].version = e[p].version
  BY <1>2 DEF LoopInv
<1>. QED  BY <1>2, <1>7, <1>8, <1>9, <1>10, <1>11 DEF LoopInv

\* Every iteration of the loop satisfies LoopInv.
LEMMA LoopHolds ==
    ASSUME NEW S, NEW e \in Seq(S), NEW d \in Seq(S),
           KeysUnique(e), KeysUnique(d)
    PROVE  \A i \in 0..Len(d) : LoopInv(S, e, d, MergeLoop(e, d)[i], i)
<1> DEFINE F == MergeLoop(e, d)
           T == {i \in 0..Len(d) : ~LoopInv(S, e, d, F[i], i)}
<1> SUFFICES ASSUME T # {} PROVE FALSE
  OBVIOUS
<1>0. T \in SUBSET Nat
  OBVIOUS
<1>1. PICK m \in T : \A k \in T : m <= k
  BY <1>0, NatMin
<1>2. m # 0
  BY <1>1, MergeLoopUnfold, LoopStart
<1>3. LoopInv(S, e, d, F[m - 1], m - 1)
  BY <1>1, <1>2
<1>4. F[m] = MergeStep(e, F[m - 1], d[m])
  BY <1>1, <1>2, MergeLoopUnfold
<1>5. m - 1 \in 0..(Len(d) - 1) /\ d[(m - 1) + 1] = d[m]
  BY <1>1, <1>2
<1>6. LoopInv(S, e, d, F[m], m)
  BY <1>3, <1>4, <1>5, StepOverwrites, StepAppends
<1>. QED  BY <1>1, <1>6

\* mergeVersions of lists with unique keys has unique keys, the keys of
\* both, every desired version, and entries of existing only where no
\* desired version has their key.
LEMMA MergeFacts ==
    ASSUME NEW S, NEW e \in Seq(S), NEW d \in Seq(S),
           KeysUnique(e), KeysUnique(d)
    PROVE  LET m == MergeVersions(e, d) IN
           /\ m \in Seq(S)
           /\ KeysUnique(m)
           /\ VersionKeys(m) = VersionKeys(e) \cup VersionKeys(d)
           /\ \A j \in 1..Len(d) : \E p \in 1..Len(m) : m[p] = d[j]
           /\ \A p \in 1..Len(m) :
                 \/ \E j \in 1..Len(d) : m[p] = d[j]
                 \/ /\ p \in 1..Len(e) /\ m[p] = e[p]
                    /\ e[p].version \notin VersionKeys(d)
<1> DEFINE m == MergeVersions(e, d)
<1>1. CASE Len(e) = 0
  <2>1. m = d
    BY <1>1 DEF MergeVersions
  <2>2. VersionKeys(e) = {}
    BY <1>1 DEF VersionKeys
  <2>. QED  BY <2>1, <2>2
<1>2. CASE Len(e) # 0 /\ Len(d) = 0
  <2>1. m = e
    BY <1>2 DEF MergeVersions
  <2>2. VersionKeys(d) = {}
    BY <1>2 DEF VersionKeys
  <2>. QED  BY <1>2, <2>1, <2>2
<1>3. CASE Len(e) # 0 /\ Len(d) # 0
  <2>1. m = MergeLoop(e, d)[Len(d)]
    BY <1>3, MergeIsLoop
  <2>2. LoopInv(S, e, d, m, Len(d))
    BY <2>1, LoopHolds
  <2>3. {d[j].version : j \in 1..Len(d)} = VersionKeys(d)
    BY DEF VersionKeys
  <2>4. \A p \in 1..Len(e) :
           (\A j \in 1..Len(d) : d[j].version # e[p].version)
              => e[p].version \notin VersionKeys(d)
    BY DEF VersionKeys
  <2>. QED  BY <2>2, <2>3, <2>4 DEF LoopInv
<1>. QED  BY <1>1, <1>2, <1>3

-----------------------------------------------------------------------------
(* The sort.                                                               *)

\* sort.Slice reorders: a sorted list has the type, the length and the
\* entries of the list it sorts, and is ordered by key.
LEMMA SortFacts ==
    ASSUME NEW S, NEW s \in Seq(S), NEW t \in SortByVersion(s)
    PROVE  /\ t \in Seq(S) /\ Len(t) = Len(s)
           /\ \A i, j \in 1..Len(t) : i < j => t[i].version <= t[j].version
           /\ \A q \in 1..Len(s) : \E i \in 1..Len(t) : t[i] = s[q]
           /\ \A i \in 1..Len(t) : \E q \in 1..Len(s) : t[i] = s[q]
           /\ KeysUnique(s) => KeysUnique(t)
<1> DEFINE n == Len(s)
<1>1. PICK p \in Bijection(1..n, 1..n) :
          /\ \A i, j \in 1..n : i < j => s[p[i]].version <= s[p[j]].version
          /\ t = [i \in 1..n |-> s[p[i]]]
  BY DEF SortByVersion
<1>2. /\ p \in [1..n -> 1..n]
      /\ \A i, j \in 1..n : p[i] = p[j] => i = j
      /\ \A q \in 1..n : \E i \in 1..n : p[i] = q
  BY <1>1 DEF Bijection, Injection, Surjection, IsInjective
<1>3. t \in Seq(S) /\ Len(t) = n
  BY <1>1, <1>2
<1>4. \A q \in 1..n : \E i \in 1..n : t[i] = s[q]
  BY <1>1, <1>2
<1>5. KeysUnique(s) => KeysUnique(t)
  <2> SUFFICES ASSUME KeysUnique(s), NEW a \in 1..n, NEW b \in 1..n, a # b
               PROVE  t[a].version # t[b].version
    BY <1>3 DEF KeysUnique
  <2>1. p[a] # p[b] /\ p[a] \in 1..n /\ p[b] \in 1..n
    BY <1>2
  <2>2. t[a] = s[p[a]] /\ t[b] = s[p[b]]
    BY <1>1
  <2>. QED  BY <2>1, <2>2 DEF KeysUnique
<1>. QED  BY <1>1, <1>2, <1>3, <1>4, <1>5

-----------------------------------------------------------------------------
(* The conversion.                                                         *)

\* An ApplicationVersion as the ApplicationDefinition stores it.
VersionRec == [version : AppVersions, helm : HelmSource]

\* The ApplicationVersion convertVersions builds for one ChartVersion.
ConvertEntry(h, c, v) ==
    LET creds == ResolveChartCredentials(h, c, v)
    IN [version |-> v.appVersion,
        helm |-> [chartName |-> ChartName, chartVersion |-> v.chartVersion,
                  url |-> ResolveChartURL(h, c, v),
                  credentials |-> IF creds # NoCredentials
                                  THEN ConvertCredentials(creds)
                                  ELSE NoCredentials]]

\* The settings-only view of a chart or a version: all the resolvers read.
Lay(x) == [repositorySettings |-> x.repositorySettings]

\* A level with a base URL has a non-empty URL and optional credentials.
LEMMA LevelFacts ==
    ASSUME NEW s \in SettingsOrNil, HasBaseURL(s)
    PROVE  /\ s.baseURL \in BaseURLs
           /\ s.credentials \in RepositoryCredentials \cup {NoCredentials}
BY DEF SettingsOrNil, RepositorySettings, HasBaseURL

\* convertVersions copies a version's key and resolves its source as the
\* specification does, into a well-typed ApplicationVersion.
LEMMA EntryFacts ==
    ASSUME NEW h \in HelmChoices, NEW c, c.repositorySettings \in ChartSettings,
           NEW v \in ChartVersionRec
    PROVE  /\ ConvertEntry(h, c, v) \in VersionRec
           /\ ConvertEntry(h, c, v)
                = [version |-> v.appVersion, helm |-> SpecSource(h, c, v)]
<1>1. /\ GetGlobalRepositorySettings(h) \in SettingsOrNil
      /\ c.repositorySettings \in SettingsOrNil
      /\ v.repositorySettings \in SettingsOrNil
  BY VersionListsAssumption DEF Helms, GetGlobalRepositorySettings, ChartVersionRec
<1>2. /\ ResolveChartURL(h, c, v) \in BaseURLs \cup {DefaultHelmRepository}
      /\ ResolveChartCredentials(h, c, v) \in RepositoryCredentials \cup {NoCredentials}
  BY <1>1, LevelFacts DEF ResolveChartURL, ResolveChartCredentials
<1>3. \A cr \in RepositoryCredentials : ConvertCredentials(cr) \in RepositoryCredentials
  BY ResolverAssumption DEF ConvertCredentials, RepositoryCredentials
<1>4. ConvertEntry(h, c, v) \in VersionRec
  BY <1>2, <1>3, VersionListsAssumption
  DEF ConvertEntry, VersionRec, HelmSource, ChartVersionRec
<1>5. <<ResolveChartURL(h, c, v), ResolveChartCredentials(h, c, v)>>
        = SpecResolution(h, c, v)
  <2>1. h \in Helms /\ Lay(c) \in Layered /\ Lay(v) \in Layered
    BY <1>1, VersionListsAssumption DEF Lay, Layered
  <2>2. <<ResolveChartURL(h, Lay(c), Lay(v)), ResolveChartCredentials(h, Lay(c), Lay(v))>>
          = SpecResolution(h, Lay(c), Lay(v))
    BY <2>1, PrecedenceResolved DEF ResolvesByPrecedence
  <2>3. /\ ResolveChartURL(h, Lay(c), Lay(v)) = ResolveChartURL(h, c, v)
        /\ ResolveChartCredentials(h, Lay(c), Lay(v)) = ResolveChartCredentials(h, c, v)
        /\ SpecResolution(h, Lay(c), Lay(v)) = SpecResolution(h, c, v)
    BY DEF Lay, ResolveChartURL, ResolveChartCredentials, SpecResolution, Layers
  <2>. QED  BY <2>2, <2>3
<1>6. ConvertCredentials(NoCredentials) = NoCredentials
  BY DEF ConvertCredentials
<1>. QED  BY <1>4, <1>5, <1>6 DEF ConvertEntry, SpecSource

\* convertVersions: one entry per ChartVersion, in order; unique keys when
\* the chart names each appVersion once.
LEMMA ConvertFacts ==
    ASSUME NEW h \in HelmChoices,
           NEW c \in [repositorySettings : ChartSettings, chartVersions : VersionLists]
    PROVE  LET dv == ConvertVersions(h, c) IN
           /\ dv \in Seq(VersionRec)
           /\ Len(dv) = Len(c.chartVersions)
           /\ \A i \in 1..Len(dv) :
                 dv[i] = [version |-> c.chartVersions[i].appVersion,
                          helm |-> SpecSource(h, c, c.chartVersions[i])]
           /\ UniqueLists => KeysUnique(dv)
<1> DEFINE cv == c.chartVersions
           dv == ConvertVersions(h, c)
<1>1. cv \in Seq(ChartVersionRec)
  BY VersionListsAssumption
<1>2. dv = [i \in 1..Len(cv) |-> ConvertEntry(h, c, cv[i])]
  BY DEF ConvertVersions, ConvertEntry
<1>3. \A i \in 1..Len(cv) :
         /\ ConvertEntry(h, c, cv[i]) \in VersionRec
         /\ ConvertEntry(h, c, cv[i])
              = [version |-> cv[i].appVersion, helm |-> SpecSource(h, c, cv[i])]
  BY <1>1, EntryFacts
<1>4. dv \in Seq(VersionRec) /\ Len(dv) = Len(cv)
  <2>1. Len(cv) \in Nat
    BY <1>1
  <2>2. dv \in [1..Len(cv) -> VersionRec]
    BY <1>2, <1>3
  <2>. QED  BY <2>1, <2>2
<1>5. UniqueLists => KeysUnique(dv)
  <2> SUFFICES ASSUME UniqueLists, NEW a \in 1..Len(dv), NEW b \in 1..Len(dv), a # b
               PROVE  dv[a].version # dv[b].version
    BY DEF KeysUnique
  <2>0. a \in 1..Len(cv) /\ b \in 1..Len(cv)
    BY <1>4
  <2>1. dv[a].version = cv[a].appVersion /\ dv[b].version = cv[b].appVersion
    <3>1. dv[a] = [version |-> cv[a].appVersion, helm |-> SpecSource(h, c, cv[a])]
      BY <1>2, <1>3, <2>0
    <3>2. dv[b] = [version |-> cv[b].appVersion, helm |-> SpecSource(h, c, cv[b])]
      BY <1>2, <1>3, <2>0
    <3>. QED  BY <3>1, <3>2
  <2>2. cv \in VersionLists
    OBVIOUS
  <2>. QED  BY <2>0, <2>1, <2>2 DEF UniqueLists
<1>. QED  BY <1>2, <1>3, <1>4, <1>5

-----------------------------------------------------------------------------
(* The invariant and the theorems.                                         *)

\* NoDuplicateVersions is inductive together with the type invariant.
VInv == TypeOK /\ NoDuplicateVersions

LEMMA InitVInv == Init => VInv
BY VersionListsAssumption DEF Init, VInv, TypeOK, NoDuplicateVersions

\* A write leaves a well-typed list with unique keys that holds every
\* version convertVersions builds from the chart.
LEMMA WriteVersionsKeeps ==
    ASSUME UniqueLists, VInv, WriteVersions
    PROVE  /\ VInv' /\ adv' \in Seq(VersionRec)
           /\ \A i \in 1..Len(chart.chartVersions) :
                 \E j \in 1..Len(adv') : adv'[j] = ConvertVersions(helm, chart)[i]
<1> DEFINE dv == ConvertVersions(helm, chart)
<1>1. /\ helm \in HelmChoices
      /\ chart \in [repositorySettings : ChartSettings, chartVersions : VersionLists]
      /\ edits \in 0..MaxEdits
      /\ UNCHANGED <<helm, chart, edits>>
  BY DEF VInv, TypeOK, WriteVersions
<1>2. dv \in Seq(VersionRec) /\ Len(dv) = Len(chart.chartVersions) /\ KeysUnique(dv)
  BY <1>1, ConvertFacts
<1>3. SUFFICES /\ adv' \in Seq(VersionRec) /\ KeysUnique(adv')
               /\ \A i \in 1..Len(dv) : \E j \in 1..Len(adv') : adv'[j] = dv[i]
  BY <1>1, <1>2 DEF VInv, TypeOK, VersionRec, NoDuplicateVersions, KeysUnique
<1>4. CASE adv = Absent
  <2>1. adv' = dv
    BY <1>4 DEF WriteVersions
  <2>. QED  BY <1>2, <2>1
<1>5. CASE adv # Absent
  <2>1. adv \in Seq(VersionRec) /\ KeysUnique(adv)
    BY <1>5 DEF VInv, TypeOK, VersionRec, NoDuplicateVersions, KeysUnique
  <2>2. adv' \in SortByVersion(MergeVersions(adv, dv))
    BY <1>5 DEF WriteVersions
  <2> DEFINE m == MergeVersions(adv, dv)
  <2>3. /\ m \in Seq(VersionRec) /\ KeysUnique(m)
        /\ \A j \in 1..Len(dv) : \E p \in 1..Len(m) : m[p] = dv[j]
    BY <1>2, <2>1, MergeFacts
  <2>4. /\ adv' \in Seq(VersionRec) /\ KeysUnique(adv')
        /\ \A q \in 1..Len(m) : \E i \in 1..Len(adv') : adv'[i] = m[q]
    BY <2>2, <2>3, SortFacts
  <2>5. \A i \in 1..Len(dv) : \E j \in 1..Len(adv') : adv'[j] = dv[i]
    <3> TAKE i \in 1..Len(dv)
    <3>1. PICK p \in 1..Len(m) : m[p] = dv[i]
      BY <2>3
    <3>. QED  BY <2>4, <3>1
  <2>. QED  BY <2>4, <2>5
<1>. QED  BY <1>4, <1>5

\* A catalog update changes the settings or the versions the chart
\* declares, and leaves the list alone.
LEMMA SettersKeep ==
    ASSUME VInv, SetGlobalSettings \/ SetChartSettings \/ SetChartVersions
    PROVE  VInv' /\ adv' = adv
<1>1. edits' \in 0..MaxEdits /\ adv' = adv /\ helm' \in HelmChoices
  BY VersionListsAssumption
  DEF VInv, TypeOK, SetGlobalSettings, SetChartSettings, SetChartVersions
<1>2. chart' \in [repositorySettings : ChartSettings, chartVersions : VersionLists]
  BY DEF VInv, TypeOK, SetGlobalSettings, SetChartSettings, SetChartVersions
<1>. QED  BY <1>1, <1>2 DEF VInv, TypeOK, NoDuplicateVersions

LEMMA NextVInv == UniqueLists /\ VInv /\ [Next]_vars => VInv'
BY WriteVersionsKeeps, SettersKeep DEF Next, vars, VInv, TypeOK, NoDuplicateVersions

\* When the chart names each appVersion once, no sequence of catalog
\* updates and reconcile passes (create, then mergeVersions and sort.Slice
\* on every update) ever leaves an appVersion twice in the
\* ApplicationDefinition, for lists of every length.
THEOREM VersionsUnique == ASSUME UniqueLists PROVE Spec => []NoDuplicateVersions
<1>1. Spec => []VInv
  BY InitVInv, NextVInv, PTL DEF Spec
<1>. QED  BY <1>1, PTL DEF VInv

\* One step of DeclaredVersionsCurrent.
DeclaredStep ==
    adv' # adv /\ UNCHANGED <<helm, chart>> =>
        \A i \in 1..Len(chart.chartVersions) :
           LET v == chart.chartVersions[i]
           IN \E j \in 1..Len(adv') :
                 adv'[j] = [version |-> v.appVersion, helm |-> SpecSource(helm, chart, v)]

LEMMA NextDeclared == UniqueLists /\ VInv /\ [Next]_vars => [DeclaredStep]_vars
<1> SUFFICES ASSUME UniqueLists, VInv, [Next]_vars PROVE [DeclaredStep]_vars
  OBVIOUS
<1>1. CASE WriteVersions
  <2>1. \A i \in 1..Len(chart.chartVersions) :
           \E j \in 1..Len(adv') : adv'[j] = ConvertVersions(helm, chart)[i]
    BY <1>1, WriteVersionsKeeps
  <2>2. \A i \in 1..Len(chart.chartVersions) :
           ConvertVersions(helm, chart)[i]
             = [version |-> chart.chartVersions[i].appVersion,
                helm |-> SpecSource(helm, chart, chart.chartVersions[i])]
    BY ConvertFacts DEF VInv, TypeOK
  <2>. QED  BY <2>1, <2>2 DEF DeclaredStep
<1>2. CASE SetGlobalSettings \/ SetChartSettings \/ SetChartVersions
  BY <1>2, SettersKeep DEF DeclaredStep
<1>3. CASE UNCHANGED vars
  BY <1>3 DEF vars, DeclaredStep
<1>. QED  BY <1>1, <1>2, <1>3 DEF Next

\* When the chart names each appVersion once, every write by
\* reconcileApplicationDefinition leaves each version the chart declares in
\* the ApplicationDefinition with the URL and credentials of the first
\* repository level with a base URL, whatever the list held before and
\* however the settings changed: mergeVersions never keeps a stale source
\* of a declared version.
THEOREM DeclaredCurrent == ASSUME UniqueLists PROVE Spec => DeclaredVersionsCurrent
<1>1. Spec => []VInv
  BY InitVInv, NextVInv, PTL DEF Spec
<1>. QED  BY <1>1, NextDeclared, PTL DEF Spec, DeclaredVersionsCurrent, DeclaredStep

-----------------------------------------------------------------------------
(* The refinement of VersionMap.                                           *)

\* In a list with unique keys, AsMap maps each entry's key to its source.
LEMMA AsMapAt ==
    ASSUME NEW S, NEW s \in Seq(S), KeysUnique(s), NEW p \in 1..Len(s)
    PROVE  /\ s[p].version \in DOMAIN AsMap(s)
           /\ AsMap(s)[s[p].version] = s[p].helm
<1> DEFINE k == s[p].version
<1>1. k \in VersionKeys(s)
  BY KeysOfSeq
<1>2. ExistingIndex(s, k) \in 1..Len(s) /\ s[ExistingIndex(s, k)].version = k
  BY <1>1, IndexOfUnique
<1>3. ExistingIndex(s, k) = p
  BY <1>2 DEF KeysUnique
<1>. QED  BY <1>1, <1>3 DEF AsMap

\* A list of ApplicationVersions with unique keys is a map of VersionMap.
LEMMA AsMapType ==
    ASSUME NEW s \in Seq(VersionRec), KeysUnique(s)
    PROVE  AsMap(s) \in Abstract!Maps
<1>1. VersionKeys(s) \in SUBSET AppVersions
  <2> SUFFICES ASSUME NEW y \in VersionKeys(s) PROVE y \in AppVersions
    OBVIOUS
  <2>1. PICK p \in 1..Len(s) : s[p].version = y
    BY KeysOfSeq
  <2>2. s[p] \in VersionRec
    OBVIOUS
  <2>. QED  BY <2>1, <2>2 DEF VersionRec
<1>2. \A k \in VersionKeys(s) : AsMap(s)[k] \in HelmSource
  <2> TAKE k \in VersionKeys(s)
  <2>1. ExistingIndex(s, k) \in 1..Len(s)
    BY IndexOfUnique
  <2>2. AsMap(s)[k] = s[ExistingIndex(s, k)].helm
    BY DEF AsMap
  <2>3. s[ExistingIndex(s, k)] \in VersionRec
    BY <2>1
  <2>. QED  BY <2>2, <2>3 DEF VersionRec
<1>3. AsMap(s) \in [VersionKeys(s) -> HelmSource]
  BY <1>2 DEF AsMap
<1>. QED  BY <1>1, <1>3 DEF Abstract!Maps

\* sort.Slice keeps the set of keys.
LEMMA SortKeys ==
    ASSUME NEW S, NEW s \in Seq(S), NEW t \in SortByVersion(s)
    PROVE  VersionKeys(t) = VersionKeys(s)
<1>1. /\ t \in Seq(S)
      /\ \A q \in 1..Len(s) : \E i \in 1..Len(t) : t[i] = s[q]
      /\ \A i \in 1..Len(t) : \E q \in 1..Len(s) : t[i] = s[q]
  BY SortFacts
<1> SUFFICES ASSUME NEW y PROVE y \in VersionKeys(t) <=> y \in VersionKeys(s)
  OBVIOUS
<1>2. y \in VersionKeys(t) <=> \E i \in 1..Len(t) : t[i].version = y
  BY <1>1, KeysOfSeq
<1>3. y \in VersionKeys(s) <=> \E q \in 1..Len(s) : s[q].version = y
  BY KeysOfSeq
<1>. QED  BY <1>1, <1>2, <1>3

\* An update: the list written, as a map, is the key-wise merge of the
\* list before and the declared versions, and it is strictly in appVersion
\* order.
LEMMA UpdateRefines ==
    ASSUME UniqueLists, VInv, WriteVersions, adv # Absent
    PROVE  /\ AsMap(adv')
                = Abstract!MergeMaps(AsMap(adv), AsMap(ConvertVersions(helm, chart)))
           /\ InOrder(adv')
<1> DEFINE dv == ConvertVersions(helm, chart)
           m == MergeVersions(adv, dv)
           t == adv'
<1>1. dv \in Seq(VersionRec) /\ KeysUnique(dv)
  BY ConvertFacts DEF VInv, TypeOK
<1>2. adv \in Seq(VersionRec) /\ KeysUnique(adv)
  BY DEF VInv, TypeOK, VersionRec, NoDuplicateVersions, KeysUnique
<1>3. t \in SortByVersion(m)
  BY DEF WriteVersions
<1>4. /\ m \in Seq(VersionRec)
      /\ KeysUnique(m)
      /\ VersionKeys(m) = VersionKeys(adv) \cup VersionKeys(dv)
      /\ \A p \in 1..Len(m) :
            \/ \E j \in 1..Len(dv) : m[p] = dv[j]
            \/ /\ p \in 1..Len(adv) /\ m[p] = adv[p]
               /\ adv[p].version \notin VersionKeys(dv)
  BY <1>1, <1>2, MergeFacts
<1>5. /\ t \in Seq(VersionRec)
      /\ \A i, j \in 1..Len(t) : i < j => t[i].version <= t[j].version
      /\ \A i \in 1..Len(t) : \E q \in 1..Len(m) : t[i] = m[q]
      /\ KeysUnique(t)
  BY <1>3, <1>4, SortFacts
<1>6. VersionKeys(t) = VersionKeys(adv) \cup VersionKeys(dv)
  BY <1>3, <1>4, SortKeys
<1>7. \A k \in VersionKeys(t) :
         AsMap(t)[k] = IF k \in VersionKeys(dv) THEN AsMap(dv)[k] ELSE AsMap(adv)[k]
  <2> TAKE k \in VersionKeys(t)
  <2>1. PICK i \in 1..Len(t) : t[i].version = k
    BY <1>5, KeysOfSeq
  <2>2. AsMap(t)[k] = t[i].helm
    BY <1>5, <2>1, AsMapAt
  <2>3. PICK q \in 1..Len(m) : t[i] = m[q]
    BY <1>5
  <2>4. CASE \E j \in 1..Len(dv) : m[q] = dv[j]
    <3>1. PICK j \in 1..Len(dv) : m[q] = dv[j]
      BY <2>4
    <3>2. k \in VersionKeys(dv)
      BY <1>1, <2>1, <2>3, <3>1, KeysOfSeq
    <3>3. AsMap(dv)[dv[j].version] = dv[j].helm
      BY <1>1, AsMapAt
    <3>. QED  BY <2>1, <2>2, <2>3, <3>1, <3>2, <3>3
  <2>5. CASE /\ q \in 1..Len(adv) /\ m[q] = adv[q]
             /\ adv[q].version \notin VersionKeys(dv)
    <3>1. AsMap(adv)[adv[q].version] = adv[q].helm
      BY <1>2, <2>5, AsMapAt
    <3>. QED  BY <2>1, <2>2, <2>3, <2>5, <3>1
  <2>. QED  BY <1>4, <2>4, <2>5
<1>8. AsMap(t) = Abstract!MergeMaps(AsMap(adv), AsMap(dv))
  <2>1. /\ DOMAIN AsMap(t) = VersionKeys(t)
        /\ DOMAIN AsMap(adv) = VersionKeys(adv)
        /\ DOMAIN AsMap(dv) = VersionKeys(dv)
    BY DEF AsMap
  <2>. QED  BY <1>6, <1>7, <2>1 DEF AsMap, Abstract!MergeMaps
<1>9. InOrder(t)
  <2> DEFINE ks == [i \in 1..Len(t) |-> t[i].version]
  <2>0. \A i \in 1..Len(t) : t[i].version \in Nat
    <3> TAKE i \in 1..Len(t)
    <3>1. t[i] \in VersionRec
      BY <1>5
    <3>2. AppVersions \subseteq Nat
      BY VersionListsAssumption
    <3>. QED  BY <3>1, <3>2 DEF VersionRec
  <2>1. ks \in Seq(Nat) /\ Len(ks) = Len(t)
    BY <1>5, <2>0
  <2>2. \A i, j \in 1..Len(t) : i < j => ks[i] < ks[j]
    <3> TAKE i, j \in 1..Len(t)
    <3>. QED  BY <1>5, <2>0 DEF KeysUnique
  <2>. QED  BY <2>1, <2>2 DEF InOrder, IsSorted
<1>. QED  BY <1>8, <1>9

\* The declared versions, as VersionMap sees them.
LEMMA DesiredType ==
    ASSUME UniqueLists, NEW h \in HelmChoices,
           NEW c \in [repositorySettings : ChartSettings, chartVersions : VersionLists]
    PROVE  /\ AsMap(ConvertVersions(h, c)) \in Abstract!Maps
           /\ InOrder(ConvertVersions(h, c)) \in BOOLEAN
<1>1. ConvertVersions(h, c) \in Seq(VersionRec) /\ KeysUnique(ConvertVersions(h, c))
  BY ConvertFacts
<1>. QED  BY <1>1, AsMapType DEF InOrder, IsSorted

LEMMA InitRefines == UniqueLists /\ Init => Abstract!Init
<1> SUFFICES ASSUME UniqueLists, Init PROVE Abstract!Init
  OBVIOUS
<1>1. TypeOK /\ adv = Absent
  BY InitVInv DEF Init, VInv
<1>. QED  BY <1>1, DesiredType DEF Abstract!Init, TypeOK

\* Every step of the list-level model is a step of VersionMap or leaves
\* its variables alone: a catalog update is Declare, the first write is
\* Create, every later write is Update.
LEMMA NextRefines ==
    UniqueLists /\ VInv /\ [Next]_vars => [Abstract!Next]_Abstract!vars
<1> SUFFICES ASSUME UniqueLists, VInv, [Next]_vars
             PROVE  [Abstract!Next]_Abstract!vars
  OBVIOUS
<1> DEFINE dv == ConvertVersions(helm, chart)
<1>1. CASE SetGlobalSettings \/ SetChartSettings \/ SetChartVersions
  <2>1. VInv' /\ adv' = adv
    BY <1>1, SettersKeep
  <2>2. /\ AsMap(ConvertVersions(helm, chart))' \in Abstract!Maps
        /\ InOrder(ConvertVersions(helm, chart))' \in BOOLEAN
    BY <2>1, DesiredType DEF VInv, TypeOK
  <2>. QED  BY <2>1, <2>2 DEF Abstract!Next, Abstract!Declare
<1>2. CASE WriteVersions /\ adv = Absent
  <2>1. adv' = dv /\ UNCHANGED <<helm, chart>>
    BY <1>2 DEF WriteVersions
  <2>2. adv' \in Seq(VersionRec)
    BY <2>1, ConvertFacts DEF VInv, TypeOK
  <2>3. adv' # Absent
    BY <2>2, AbsentAssumption DEF VersionRec
  <2>4. InOrder(dv) \in BOOLEAN
    BY DEF InOrder, IsSorted
  <2>5. Abstract!Create
    BY <1>2, <2>1, <2>3, <2>4 DEF Abstract!Create
  <2>. QED  BY <2>5 DEF Abstract!Next
<1>3. CASE WriteVersions /\ adv # Absent
  <2>1. UNCHANGED <<helm, chart>>
    BY <1>3 DEF WriteVersions
  <2>2. /\ AsMap(adv') = Abstract!MergeMaps(AsMap(adv), AsMap(dv))
        /\ InOrder(adv')
    BY <1>3, UpdateRefines
  <2>3. adv \in Seq(VersionRec) /\ KeysUnique(adv)
    BY <1>3 DEF VInv, TypeOK, VersionRec, NoDuplicateVersions, KeysUnique
  <2>4. AsMap(adv) # Absent
    BY <2>3, AsMapType, AbsentAssumption DEF Abstract!Maps
  <2>5. adv' \in Seq(VersionRec)
    BY <1>3, WriteVersionsKeeps
  <2>6. adv' # Absent
    BY <2>5, AbsentAssumption DEF VersionRec
  <2>. QED  BY <1>3, <2>1, <2>2, <2>4, <2>6 DEF Abstract!Next, Abstract!Update
<1>4. CASE UNCHANGED vars
  BY <1>4 DEF vars, Abstract!vars
<1>. QED  BY <1>1, <1>2, <1>3, <1>4 DEF Next

\* When the chart names each appVersion once, the list-level code
\* (convertVersions, Create, mergeVersions and sort.Slice) implements the
\* map-level behaviour the Synchronizer model assumes: the first write
\* copies the declared versions, every later one merges them key by key,
\* keeps every key and leaves the list strictly sorted.
THEOREM Refinement == ASSUME UniqueLists PROVE Spec => AbstractSpec
<1>1. Spec => []VInv
  BY InitVInv, NextVInv, PTL DEF Spec
<1>. QED  BY <1>1, InitRefines, NextRefines, PTL DEF Spec, AbstractSpec, Abstract!Spec

\* The abstract specification's key-keeping fact, under the refinement
\* mapping of VersionLists.
AbstractProofs == INSTANCE VersionMapProofs
    WITH Keys <- AppVersions, Refs <- HelmSource,
         desired <- AsMap(ConvertVersions(helm, chart)),
         desiredAsc <- InOrder(ConvertVersions(helm, chart)),
         versions <- IF adv = Absent THEN Absent ELSE AsMap(adv),
         ascending <- adv # Absent /\ InOrder(adv)

\* When the chart names each appVersion once, for every length of the
\* lists: once the ApplicationDefinition exists, no write of its versions
\* list (Create copying convertVersions, or mergeVersions followed by
\* sort.Slice) drops an appVersion it holds, and none leaves a strictly
\* sorted list unsorted, whatever the catalog declares in between.
THEOREM ListVersionsKept == ASSUME UniqueLists PROVE Spec => Abstract!KeysKept
<1>1. Spec => AbstractSpec
  BY Refinement
<1>2. Abstract!Spec => Abstract!KeysKept
  BY AbstractProofs!AbstractKeysKept, PTL
     DEF Abstract!Spec, AbstractProofs!Spec, Abstract!KeysKept, AbstractProofs!KeysKept,
         Abstract!Init, AbstractProofs!Init, Abstract!Next, AbstractProofs!Next,
         Abstract!vars, AbstractProofs!vars, Abstract!Maps, AbstractProofs!Maps,
         Abstract!Declare, AbstractProofs!Declare, Abstract!Create,
         AbstractProofs!Create, Abstract!Update, AbstractProofs!Update,
         Abstract!MergeMaps, AbstractProofs!MergeMaps
<1>. QED  BY <1>1, <1>2 DEF AbstractSpec
=============================================================================
