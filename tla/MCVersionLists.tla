---------------------------- MODULE MCVersionLists ----------------------------
(***************************************************************************)
(* Small instance of VersionLists: two appVersions, two chartVersions, two *)
(* repository URLs and two credentials. Every level of resolution has a   *)
(* choice with a base URL and one with credentials but an empty base URL,  *)
(* so a level that wrongly lends its credentials to another level's URL    *)
(* shows up. The chart's lists include one listed out of appVersion order. *)
(***************************************************************************)
EXTENDS VersionLists, TLC

CONSTANTS u1, u2, s1, cv1, cv2

\* Two credentials: user and password, or a registry config file.
crA == [username |-> s1, password |-> s1, registryConfigFile |-> NoSecret]
crB == [username |-> NoSecret, password |-> NoSecret, registryConfigFile |-> s1]

Settings(url, creds) == [baseURL |-> url, credentials |-> creds]

MCHelmChoices ==
    {[repositorySettings |-> NoSettings],
     [repositorySettings |-> Settings(u1, crB)]}

MCChartSettings == {NoSettings, Settings(u2, NoCredentials), Settings(EmptyURL, crA)}

Version(cv, k, rs) == [chartVersion |-> cv, appVersion |-> k, repositorySettings |-> rs]

\* appVersion 1 with no settings, appVersion 1 again from its own
\* repository, appVersion 2 with credentials but no URL.
vA == Version(cv1, 1, NoSettings)
vA2 == Version(cv2, 1, Settings(u1, crA))
vB == Version(cv1, 2, Settings(EmptyURL, crB))

\* Lists with one entry per appVersion; <<vB, vA>> is out of order.
MCUniqueLists == {<<vA>>, <<vB, vA>>, <<vA2, vB>>, <<vB>>}
\* The same, and a list naming appVersion 1 twice.
MCDuplicateLists == MCUniqueLists \cup {<<vA, vB, vA2>>}
=============================================================================
