------------------------------ MODULE Resolver ------------------------------
(***************************************************************************)
(* Repository resolution of pkg/apis/applicationcatalog/v1alpha1: the      *)
(* base URL and the credentials a chart version is pulled with, taken from *)
(* the version's, the chart's or the catalog's repositorySettings, or the  *)
(* built-in DefaultHelmRepository; and convertCredentials of the           *)
(* synchronizer, which copies them into the ApplicationDefinition.         *)
(* A settings object is a record; a nil pointer is the model value        *)
(* NoSettings, a nil credentials pointer NoCredentials, "" EmptyURL.        *)
(***************************************************************************)
EXTENDS Naturals

CONSTANTS
    BaseURLs,               \* non-empty repository URLs
    EmptyURL,               \* the empty string
    DefaultHelmRepository,  \* the built-in OCI repository
    SecretRefs,             \* SecretKeySelectors
    NoSecret,               \* a nil *SecretKeySelector
    NoCredentials,          \* a nil *RepositoryCredentials
    NoSettings,             \* a nil *RepositorySettings
    NoHelm                  \* a nil spec.helm

\* RepositoryCredentials: three optional secret references.
RepositoryCredentials ==
    [username : SecretRefs \cup {NoSecret}, password : SecretRefs \cup {NoSecret},
     registryConfigFile : SecretRefs \cup {NoSecret}]

\* RepositorySettings: baseURL (may be "") and optional credentials.
RepositorySettings ==
    [baseURL : BaseURLs \cup {EmptyURL},
     credentials : RepositoryCredentials \cup {NoCredentials}]

SettingsOrNil == RepositorySettings \cup {NoSettings}

ASSUME ResolverAssumption ==
    /\ EmptyURL \notin BaseURLs
    /\ DefaultHelmRepository \notin BaseURLs \cup {EmptyURL}
    /\ NoSecret \notin SecretRefs
    /\ NoCredentials \notin RepositoryCredentials
    /\ NoSettings \notin RepositorySettings

\* The parts of spec.helm, a ChartConfig and a ChartVersion the resolution
\* reads.
Helms == [repositorySettings : SettingsOrNil] \cup {NoHelm}
Layered == [repositorySettings : SettingsOrNil]

\* GetGlobalRepositorySettings: nil when spec.helm is nil.
GetGlobalRepositorySettings(helm) ==
    IF helm = NoHelm THEN NoSettings ELSE helm.repositorySettings

\* The test each level of ResolveChartURL and ResolveChartCredentials makes:
\* settings present with a non-empty baseURL.
HasBaseURL(s) == s # NoSettings /\ s.baseURL # EmptyURL

\* ResolveChartURL: version > chart > global > default.
ResolveChartURL(helm, chart, version) ==
    IF HasBaseURL(version.repositorySettings)
    THEN version.repositorySettings.baseURL
    ELSE IF HasBaseURL(chart.repositorySettings)
    THEN chart.repositorySettings.baseURL
    ELSE IF HasBaseURL(GetGlobalRepositorySettings(helm))
    THEN GetGlobalRepositorySettings(helm).baseURL
    ELSE DefaultHelmRepository

\* Mutant: each level is tested for present settings only, so the
\* credentials of a level with an empty baseURL are returned.
ResolveChartCredentialsAnySettings(helm, chart, version) ==
    IF version.repositorySettings # NoSettings
    THEN version.repositorySettings.credentials
    ELSE IF chart.repositorySettings # NoSettings
    THEN chart.repositorySettings.credentials
    ELSE IF GetGlobalRepositorySettings(helm) # NoSettings
    THEN GetGlobalRepositorySettings(helm).credentials
    ELSE NoCredentials

\* ResolveChartCredentials: the credentials of the level whose baseURL is
\* set, nil when none is.
ResolveChartCredentials(helm, chart, version) ==
    IF HasBaseURL(version.repositorySettings)
    THEN version.repositorySettings.credentials
    ELSE IF HasBaseURL(chart.repositorySettings)
    THEN chart.repositorySettings.credentials
    ELSE IF HasBaseURL(GetGlobalRepositorySettings(helm))
    THEN GetGlobalRepositorySettings(helm).credentials
    ELSE NoCredentials

\* convertCredentials: HelmCredentials with the same three references.
ConvertCredentials(creds) ==
    IF creds = NoCredentials THEN NoCredentials
    ELSE [username |-> creds.username, password |-> creds.password,
          registryConfigFile |-> creds.registryConfigFile]

-----------------------------------------------------------------------------
(* The specification's resolver (section 4.1): the layers in precedence    *)
(* order; the first with a non-empty baseURL gives URL and credentials     *)
(* together; with none, the default URL and no credentials.                *)

Layers(helm, chart, version) ==
    <<version.repositorySettings, chart.repositorySettings,
      GetGlobalRepositorySettings(helm)>>

FirstLayer(ls) ==
    {i \in 1..3 : HasBaseURL(ls[i]) /\ \A j \in 1..(i - 1) : ~HasBaseURL(ls[j])}

SpecResolution(helm, chart, version) ==
    LET ls == Layers(helm, chart, version)
    IN IF FirstLayer(ls) = {}
       THEN <<DefaultHelmRepository, NoCredentials>>
       ELSE LET i == CHOOSE i \in FirstLayer(ls) : TRUE
            IN <<ls[i].baseURL, ls[i].credentials>>

\* For every spec.helm, chart and version, the URL and the credentials the
\* code resolves are those of the first level with a non-empty baseURL, and
\* credentials of one level never go with the URL of another (spec 8:
\* chart or global credentials must never leak through).
ResolvesByPrecedence ==
    \A helm \in Helms, chart \in Layered, version \in Layered :
        <<ResolveChartURL(helm, chart, version),
          ResolveChartCredentials(helm, chart, version)>>
            = SpecResolution(helm, chart, version)
=============================================================================
