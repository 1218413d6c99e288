----------------------------- MODULE Defaulting -----------------------------
(***************************************************************************)
(* DefaultApplicationCatalog (internal/pkg/defaulting), applied by the     *)
(* mutating webhook to every CREATE and UPDATE. The package is not among   *)
(* the sources; this module follows the behaviour table of the spec        *)
(* (section 4.3) and the design in docs/plans.                             *)
(***************************************************************************)
EXTENDS CatalogTypes

\* The built-in entries have distinct identities.
ASSUME DefaultsAssumption ==
    \A d1, d2 \in DefaultCharts : GetAppName(d1) = GetAppName(d2) => d1 = d2

\* filterDefaultsByName: keep the defaults the include annotation names;
\* unknown names are ignored, an empty annotation keeps them all.
FilteredDefaults(spec) ==
    IF spec.filter = NoFilter THEN DefaultCharts
    ELSE {d \in DefaultCharts : d.chart \in spec.filter}

\* Collecting entries into a map keyed by identity keeps one entry per
\* identity (the last one in list order, which the set does not record).
OneOfEach(S) ==
    {R \in SUBSET S : /\ AppNames(R) = AppNames(S)
                      /\ \A e, f \in R : GetAppName(e) = GetAppName(f) => e = f}

\* mergeCharts: defaults first, then every user entry replaces the default
\* of its identity as a whole struct.
MergeCharts(user, defaults) ==
    {U \cup {d \in defaults : GetAppName(d) \notin AppNames(U)} : U \in OneOfEach(user)}

\* The specs the webhook may turn spec into.
DefaultApplicationCatalog(spec) ==
    IF ~spec.incl
    THEN IF spec.charts = Nil THEN {[spec EXCEPT !.charts = DefaultCharts]}
         ELSE {spec}
    ELSE {[spec EXCEPT !.charts = m] :
              m \in MergeCharts(ChartsOf(spec), FilteredDefaults(spec))}
=============================================================================
