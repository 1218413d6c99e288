CONSTANTS
    u1 = u1  u2 = u2  s1 = s1  cv1 = cv1  cv2 = cv2
    EmptyURL = EmptyURL
    DefaultHelmRepository = DefaultHelmRepository
    NoSecret = NoSecret  NoCredentials = NoCredentials
    NoSettings = NoSettings  NoHelm = NoHelm
    Absent = Absent
    ChartName = ChartName
    BaseURLs = {u1, u2}
    SecretRefs = {s1}
    AppVersions = {1, 2}
    ChartVersionIds = {cv1, cv2}
    HelmChoices <- MCHelmChoices
    ChartSettings <- MCChartSettings
    VersionLists <- MCDuplicateLists
    MaxEdits = 5

SPECIFICATION Spec

INVARIANT NoDuplicateVersions

