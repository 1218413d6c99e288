----------------------------- MODULE Validation -----------------------------
(***************************************************************************)
(* The validating webhook (internal/pkg/admission/applicationcatalog/      *)
(* validation): handleValidation and detectConflicts, as a verdict on a    *)
(* defaulted catalog spec given the ApplicationDefinitions it lists.       *)
(***************************************************************************)
EXTENDS CatalogTypes

\* ValidateIncludeAnnotation: names in the annotation that are no default.
InvalidIncludeNames(spec) ==
    IF spec.filter = NoFilter THEN {}
    ELSE spec.filter \ {d.chart : d \in DefaultCharts}

\* Two charts of the catalog resolve to the same appName.
HasDuplicateAppName(spec) ==
    \E e, f \in ChartsOf(spec) : e # f /\ GetAppName(e) = GetAppName(f)

\* A listed (managed) ApplicationDefinition of one of the catalog's names is
\* owned by another catalog; unowned or self-owned ones are no conflict.
HasExternalConflict(c, spec, ad) ==
    \E n \in AppNames(ChartsOf(spec)) :
        ad[n] # Absent /\ ad[n].owner \notin {NoOwner, c}

\* detectConflicts returns no conflicts for an empty chart list.
HasConflicts(c, spec, ad) ==
    ChartsOf(spec) # {} /\ (HasDuplicateAppName(spec) \/ HasExternalConflict(c, spec, ad))

\* handleValidation: the annotation check (only with includeDefaults), then
\* the conflict check; Allowed when neither denies.
Allowed(c, spec, ad) ==
    /\ spec.incl => InvalidIncludeNames(spec) = {}
    /\ ~HasConflicts(c, spec, ad)
=============================================================================
