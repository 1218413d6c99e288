---------------------------- MODULE VersionLists ----------------------------
(***************************************************************************)
(* The versions list of the ApplicationDefinition generated for one chart, *)
(* as the code builds it: convertVersions resolves each ChartVersion of    *)
(* the chart into an ApplicationVersion (converter.go); the create path    *)
(* writes that list as it is; the update path merges it into the existing  *)
(* list with mergeVersions and sorts the result with sort.Slice by         *)
(* Version (reconciler.go). The catalog's global settings, the chart's     *)
(* settings and its list of versions change between passes.                *)
(* appVersion strings are compared with <; they are modelled by naturals   *)
(* in the same order. sort.Slice is not stable: versions with equal keys   *)
(* may end up in any order, so the sort is every ordering by key.          *)
(***************************************************************************)
EXTENDS Resolver, Sequences, SequencesExt

CONSTANTS
    ChartName,        \* the chart's chartName
    AppVersions,      \* appVersion strings, as naturals in string order
    ChartVersionIds,  \* chartVersion strings
    HelmChoices,      \* the spec.helm values the catalog takes
    ChartSettings,    \* the repositorySettings values the chart takes
    VersionLists,     \* the chartVersions lists the chart takes
    Absent,           \* no ApplicationDefinition yet
    MaxEdits          \* bound on catalog updates

ChartVersionRec ==
    [chartVersion : ChartVersionIds, appVersion : AppVersions,
     repositorySettings : SettingsOrNil]

ASSUME VersionListsAssumption ==
    /\ AppVersions \subseteq Nat
    /\ HelmChoices \subseteq Helms \ {NoHelm}
    /\ ChartSettings \subseteq SettingsOrNil
    /\ \A vs \in VersionLists : vs \in Seq(ChartVersionRec) /\ Len(vs) > 0
    /\ MaxEdits \in Nat

\* ApplicationVersion: the key and Template.Source.Helm.
HelmSource ==
    [chartName : {ChartName}, chartVersion : ChartVersionIds,
     url : BaseURLs \cup {DefaultHelmRepository},
     credentials : RepositoryCredentials \cup {NoCredentials}]

\* Absent, no ApplicationDefinition, is neither a list of versions nor a
\* map of them.
ASSUME AbsentAssumption ==
    /\ Absent \notin Seq([version : AppVersions, helm : HelmSource])
    /\ Absent \notin UNION {[K -> HelmSource] : K \in SUBSET AppVersions}

VARIABLES
    helm,      \* catalog.Spec.Helm (its repositorySettings)
    chart,     \* the ChartConfig: repositorySettings and chartVersions
    adv,       \* the ApplicationDefinition's Spec.Versions, or Absent
    edits      \* catalog updates so far

vars == <<helm, chart, adv, edits>>

TypeOK ==
    /\ helm \in HelmChoices
    /\ chart \in [repositorySettings : ChartSettings, chartVersions : VersionLists]
    /\ adv = Absent \/ adv \in Seq([version : AppVersions, helm : HelmSource])
    /\ edits \in 0..MaxEdits

-----------------------------------------------------------------------------
(* Conversion, merge and sort.                                             *)

\* convertVersions: one ApplicationVersion per ChartVersion, in the chart's
\* order, with the resolved URL and, when resolved, the credentials.
ConvertVersions(h, c) ==
    [i \in 1..Len(c.chartVersions) |->
        LET v == c.chartVersions[i]
            creds == ResolveChartCredentials(h, c, v)
        IN [version |-> v.appVersion,
            helm |-> [chartName |-> ChartName, chartVersion |-> v.chartVersion,
                      url |-> ResolveChartURL(h, c, v),
                      credentials |-> IF creds # NoCredentials
                                      THEN ConvertCredentials(creds)
                                      ELSE NoCredentials]]]

\* existingIndex[k]: the last index of key k in existing (the map is
\* filled in order, so a later index overwrites an earlier one), 0 when
\* the key is not there.
ExistingIndex(existing, k) == SelectLastInSeq(existing, LAMBDA e : e.version = k)

\* One iteration of the loop over desired: a version whose key exists
\* overwrites the entry at its index and the loop continues; any other is
\* appended (desired keys are not added to the index).
MergeStep(existing, result, d) ==
    IF ExistingIndex(existing, d.version) # 0
    THEN [result EXCEPT ![ExistingIndex(existing, d.version)] = d]
    ELSE Append(result, d)

\* Mutant: the desired list replaces the existing one.
MergeVersionsReplace(existing, desired) == desired

\* Mutant: the loop lacks its `continue`: a desired version whose key
\* exists replaces it and is appended as well.
MergeStepNoContinue(existing, result, d) ==
    IF ExistingIndex(existing, d.version) # 0
    THEN Append([result EXCEPT ![ExistingIndex(existing, d.version)] = d], d)
    ELSE Append(result, d)
MergeVersionsNoContinue(existing, desired) ==
    IF Len(existing) = 0 THEN desired
    ELSE IF Len(desired) = 0 THEN existing
    ELSE LET result[i \in 0..Len(desired)] ==
               IF i = 0 THEN existing
               ELSE MergeStepNoContinue(existing, result[i - 1], desired[i])
         IN result[Len(desired)]

\* mergeVersions: empty existing or empty desired is returned as it is;
\* otherwise result starts as a copy of existing and takes each desired
\* version in turn.
MergeVersions(existing, desired) ==
    IF Len(existing) = 0 THEN desired
    ELSE IF Len(desired) = 0 THEN existing
    ELSE LET result[i \in 0..Len(desired)] ==
               IF i = 0 THEN existing
               ELSE MergeStep(existing, result[i - 1], desired[i])
         IN result[Len(desired)]

\* sort.Slice by Version: every reordering that is ordered by key (equal
\* keys in any order: the sort is not stable).
SortByVersion(s) ==
    { [i \in 1..Len(s) |-> s[p[i]]] :
        p \in {q \in Bijection(1..Len(s), 1..Len(s)) :
                 \A i, j \in 1..Len(s) : i < j => s[q[i]].version <= s[q[j]].version} }

-----------------------------------------------------------------------------
Init ==
    /\ helm \in HelmChoices
    /\ chart \in [repositorySettings : ChartSettings, chartVersions : VersionLists]
    /\ adv = Absent
    /\ edits = 0

\* A catalog update changes the global repository settings.
SetGlobalSettings ==
    /\ edits < MaxEdits
    /\ helm' \in HelmChoices \ {helm}
    /\ edits' = edits + 1
    /\ UNCHANGED <<chart, adv>>

\* A catalog update changes the chart's repository settings.
SetChartSettings ==
    /\ edits < MaxEdits
    /\ \E s \in ChartSettings \ {chart.repositorySettings} :
          chart' = [chart EXCEPT !.repositorySettings = s]
    /\ edits' = edits + 1
    /\ UNCHANGED <<helm, adv>>

\* A catalog update changes the chart's versions.
SetChartVersions ==
    /\ edits < MaxEdits
    /\ \E vs \in VersionLists \ {chart.chartVersions} :
          chart' = [chart EXCEPT !.chartVersions = vs]
    /\ edits' = edits + 1
    /\ UNCHANGED <<helm, adv>>

\* A pass writes the chart's ApplicationDefinition: Create with the
\* converted versions as listed, or the update's merge and sort.
WriteVersions ==
    /\ LET desired == ConvertVersions(helm, chart)
       IN \/ /\ adv = Absent
             /\ adv' = desired
          \/ /\ adv # Absent
             /\ adv' \in SortByVersion(MergeVersions(adv, desired))
    /\ UNCHANGED <<helm, chart, edits>>

Next == SetGlobalSettings \/ SetChartSettings \/ SetChartVersions \/ WriteVersions

Spec == Init /\ [][Next]_vars

-----------------------------------------------------------------------------
(* Properties.                                                             *)

VersionKeys(s) == {s[i].version : i \in DOMAIN s}

\* The ApplicationDefinition never lists one appVersion twice (the update
\* path merges by key, KKP looks versions up by key).
NoDuplicateVersions ==
    adv # Absent =>
        \A i, j \in 1..Len(adv) : i # j => adv[i].version # adv[j].version

\* What the specification's resolver gives a version of the chart, as the
\* ApplicationDefinition stores it.
SpecSource(h, c, v) ==
    LET r == SpecResolution(h, c, v)
    IN [chartName |-> ChartName, chartVersion |-> v.chartVersion,
        url |-> r[1], credentials |-> ConvertCredentials(r[2])]

\* After every write, each version the chart declares is in the
\* ApplicationDefinition with the URL and credentials of the first
\* repository level with a base URL (spec 4.1), whatever the list held
\* before and however the catalog's and the chart's settings changed.
DeclaredVersionsCurrent ==
    [][adv' # adv /\ UNCHANGED <<helm, chart>> =>
         \A i \in 1..Len(chart.chartVersions) :
            LET v == chart.chartVersions[i]
            IN \E j \in 1..Len(adv') :
                  adv'[j] = [version |-> v.appVersion, helm |-> SpecSource(helm, chart, v)]]_vars

\* The list as a map from appVersion to source (the last entry of a key
\* wins), and whether it is strictly in appVersion order.
AsMap(s) ==
    [k \in VersionKeys(s) |-> s[ExistingIndex(s, k)].helm]
InOrder(s) == IsSorted([i \in 1..Len(s) |-> s[i].version], <)

Abstract == INSTANCE VersionMap
    WITH Keys <- AppVersions, Refs <- HelmSource,
         desired <- AsMap(ConvertVersions(helm, chart)),
         desiredAsc <- InOrder(ConvertVersions(helm, chart)),
         versions <- IF adv = Absent THEN Absent ELSE AsMap(adv),
         ascending <- adv # Absent /\ InOrder(adv)

\* The list-level code implements the map-level behaviour Synchronizer
\* assumes: create copies the declared versions and their order, update
\* merges key by key, keeps every key, and leaves the list sorted.
AbstractSpec == Abstract!Spec
=============================================================================
