---------------------------- MODULE CatalogTypes ----------------------------
(***************************************************************************)
(* The data model shared by the admission webhooks and the synchronizer:   *)
(* ApplicationCatalog specs (pkg/apis/applicationcatalog/v1alpha1) and the *)
(* parts of an ApplicationDefinition the synchronizer reads and writes.    *)
(*                                                                         *)
(* Data is abstracted to what the properties tell apart: a chart entry is  *)
(* its chart name, its metadata.appName override, its versions (a map     *)
(* appVersion -> opaque chart reference, i.e. chart version plus the URL   *)
(* and credentials ResolveChartURL/ResolveChartCredentials give it),       *)
(* whether they are listed in ascending appVersion order, and its          *)
(* defaultValuesBlock.                                                     *)
(***************************************************************************)
EXTENDS FiniteSets

CONSTANTS
    Catalogs,       \* names of ApplicationCatalog objects
    Names,          \* chart names and appName overrides (one namespace)
    Keys,           \* appVersion strings, the keys of spec.versions
    ChartRefs,      \* what a version points at (chart version, URL, creds)
    NoValue,        \* defaultValuesBlock ""
    EmptyObject,    \* defaultValuesBlock "{}"
    CatalogValues,  \* non-empty defaultValuesBlocks a catalog may declare
    UserValues,     \* non-empty defaultValuesBlocks a cluster admin may set
    NoOverride,     \* metadata.appName absent or empty
    NoOwner,        \* the catalog-name label is absent
    Nil,            \* spec.helm.charts is nil (omitted)
    NoFilter,       \* the include annotation is absent or ""
    Absent,         \* no ApplicationDefinition / ApplicationCatalog of that name
    Entries,        \* the chart entries requests are built from
    DefaultCharts   \* GetDefaultCharts(): the built-in entries

Values == {NoValue, EmptyObject} \cup CatalogValues \cup UserValues

\* A version list, by its keys: appVersion -> chart reference.
VersionMaps == UNION {[K -> ChartRefs] : K \in SUBSET Keys}

\* A ChartConfig.
EntryRec == [chart : Names, override : Names \cup {NoOverride},
             versions : VersionMaps, ascending : BOOLEAN,
             dvb : {NoValue, EmptyObject} \cup CatalogValues]

\* The persisted spec of a catalog. spec.helm absent is the same as
\* includeDefaults false with nil charts for every reader of the spec.
\* filter is the include annotation after split and TrimSpace.
CatalogRec == [incl : BOOLEAN, charts : (SUBSET Entries) \cup {Nil},
               filter : (SUBSET Names) \cup {NoFilter}]

\* The fields of an ApplicationDefinition the synchronizer reads or writes:
\* the catalog-name label (managed-by is set and removed with it), whether
\* the apps.kubermatic.k8c.io/managed-by label marks a system application,
\* spec.defaultValuesBlock and spec.versions (ascending: sorted by key).
ADRec == [owner : Catalogs \cup {NoOwner}, system : BOOLEAN, dvb : Values,
          versions : VersionMaps, ascending : BOOLEAN]

ASSUME ConstantsAssumption ==
    /\ IsFiniteSet(Names) /\ IsFiniteSet(Keys)
    /\ NoOverride \notin Names
    /\ Catalogs # {} /\ NoOwner \notin Catalogs
    /\ \A S \in SUBSET Entries : S # Nil
    /\ \A S \in SUBSET Names : S # Nil
    /\ \A S \in SUBSET Names : S # NoFilter
    /\ UserValues \cap ({NoValue, EmptyObject} \cup CatalogValues) = {}
    /\ NoValue # EmptyObject
    /\ Entries \subseteq EntryRec
    /\ DefaultCharts \subseteq Entries
    /\ \A a \in ADRec : a # Absent
    /\ \A a \in CatalogRec : a # Absent

\* ChartConfig.GetAppName: metadata.appName if non-empty, else chartName.
GetAppName(e) == IF e.override = NoOverride THEN e.chart ELSE e.override

AppNames(S) == {GetAppName(e) : e \in S}

\* GetHelmCharts treated as a set; nil reads as no charts.
ChartsOf(spec) == IF spec.charts = Nil THEN {} ELSE spec.charts
=============================================================================
