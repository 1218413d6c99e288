--------------------------- MODULE MCSynchronizer ---------------------------
(***************************************************************************)
(* Small instance of Synchronizer: two catalogs, three names, two          *)
(* appVersions. The entries are chosen so that every branch happens:       *)
(* a default listing its versions descending, a user override of that     *)
(* default's identity, an appName override colliding with it, a default    *)
(* with "{}" values, and an include filter naming one, or no, default.     *)
(***************************************************************************)
EXTENDS Synchronizer, TLC

CONSTANTS c1, c2, n1, n2, n3, k1, k2, r1, r2, vCat, vUser

MCCatalogs == {c1, c2}
MCNames == {n1, n2, n3}
MCKeys == {k1, k2}
MCChartRefs == {r1, r2}

\* The default chart n1, versions k2 then k1 (descending), no values.
eDefault == [chart |-> n1, override |-> NoOverride, versions |-> (k1 :> r1 @@ k2 :> r1),
             ascending |-> FALSE, dvb |-> NoValue]
\* A second default, n2, with values "{}".
eDefault2 == [chart |-> n2, override |-> NoOverride, versions |-> (k2 :> r2),
              ascending |-> TRUE, dvb |-> EmptyObject]
\* A user's n1: a newer chart reference for k1 and its own values.
eUser == [chart |-> n1, override |-> NoOverride, versions |-> (k1 :> r2),
          ascending |-> TRUE, dvb |-> vCat]
\* Chart n3 whose metadata.appName is n1.
eAlias == [chart |-> n3, override |-> n1, versions |-> (k1 :> r1),
           ascending |-> TRUE, dvb |-> NoValue]

MCEntries == {eDefault, eDefault2, eUser, eAlias}
MCDefaultCharts == {eDefault, eDefault2}

Req(incl, charts, filter) == [incl |-> incl, charts |-> charts, filter |-> filter]

MCRequests ==
    { Req(FALSE, Nil, NoFilter),          \* legacy: defaults injected once
      Req(FALSE, {eUser}, NoFilter),      \* custom only
      Req(FALSE, {}, NoFilter),           \* explicitly empty
      Req(TRUE, {eAlias}, NoFilter),      \* defaults, n1 replaced by the alias
      Req(TRUE, Nil, {n2}),               \* only default n2
      Req(TRUE, Nil, {n3}),               \* unknown name in the filter
      Req(FALSE, {eUser, eAlias}, NoFilter) } \* duplicate appName n1

\* Catalogs stored without the mutating webhook: includeDefaults with nil
\* charts (the reconciler waits), and nil charts alone (an empty catalog).
MCLegacySpecs == {Req(TRUE, Nil, NoFilter), Req(FALSE, Nil, NoFilter)}

\* n2 exists unmanaged before any catalog (takeover), with custom values.
MCInitAD == [n \in MCNames |->
                IF n = n2
                THEN [owner |-> NoOwner, system |-> FALSE, dvb |-> vUser,
                      versions |-> (k1 :> r1), ascending |-> TRUE]
                ELSE Absent]

MCUserValues == {vUser}
MCCatalogValues == {vCat}
=============================================================================
