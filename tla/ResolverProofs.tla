--------------------------- MODULE ResolverProofs ---------------------------
(***************************************************************************)
(* ResolveChartURL and ResolveChartCredentials resolve as the              *)
(* specification's layered definition does, for every value of the        *)
(* settings at the three levels.                                           *)
(***************************************************************************)
EXTENDS Resolver, TLAPS

\* The precedence of one resolution: which level (1 version, 2 chart,
\* 3 catalog) is the first with a base URL, if any.
LEMMA FirstLayerCases ==
    ASSUME NEW a, NEW b, NEW c
    PROVE  LET ls == <<a, b, c>> IN
           /\ HasBaseURL(a) => FirstLayer(ls) = {1}
           /\ ~HasBaseURL(a) /\ HasBaseURL(b) => FirstLayer(ls) = {2}
           /\ ~HasBaseURL(a) /\ ~HasBaseURL(b) /\ HasBaseURL(c) => FirstLayer(ls) = {3}
           /\ ~HasBaseURL(a) /\ ~HasBaseURL(b) /\ ~HasBaseURL(c) => FirstLayer(ls) = {}
BY DEF FirstLayer

\* For every spec.helm (nil or not), chart and version settings, the URL
\* and credentials ResolveChartURL and ResolveChartCredentials return are
\* the base URL and credentials of the first level with a non-empty base
\* URL, or the default repository with no credentials: credentials never
\* go with another level's URL.
THEOREM PrecedenceResolved == ResolvesByPrecedence
<1> SUFFICES ASSUME NEW helm \in Helms, NEW chart \in Layered,
                    NEW version \in Layered
             PROVE  <<ResolveChartURL(helm, chart, version),
                      ResolveChartCredentials(helm, chart, version)>>
                      = SpecResolution(helm, chart, version)
  BY DEF ResolvesByPrecedence
<1> DEFINE a == version.repositorySettings
           b == chart.repositorySettings
           c == GetGlobalRepositorySettings(helm)
<1>1. Layers(helm, chart, version) = <<a, b, c>>
  BY DEF Layers
<1>2. CASE HasBaseURL(a)
  <2>1. FirstLayer(<<a, b, c>>) = {1}
    BY <1>2, FirstLayerCases
  <2>. QED  BY <1>1, <1>2, <2>1
            DEF SpecResolution, ResolveChartURL, ResolveChartCredentials
<1>3. CASE ~HasBaseURL(a) /\ HasBaseURL(b)
  <2>1. FirstLayer(<<a, b, c>>) = {2}
    BY <1>3, FirstLayerCases
  <2>. QED  BY <1>1, <1>3, <2>1
            DEF SpecResolution, ResolveChartURL, ResolveChartCredentials
<1>4. CASE ~HasBaseURL(a) /\ ~HasBaseURL(b) /\ HasBaseURL(c)
  <2>1. FirstLayer(<<a, b, c>>) = {3}
    BY <1>4, FirstLayerCases
  <2>. QED  BY <1>1, <1>4, <2>1
            DEF SpecResolution, ResolveChartURL, ResolveChartCredentials
<1>5. CASE ~HasBaseURL(a) /\ ~HasBaseURL(b) /\ ~HasBaseURL(c)
  <2>1. FirstLayer(<<a, b, c>>) = {}
    BY <1>5, FirstLayerCases
  <2>. QED  BY <1>1, <1>5, <2>1
            DEF SpecResolution, ResolveChartURL, ResolveChartCredentials
<1>. QED  BY <1>2, <1>3, <1>4, <1>5
=============================================================================
