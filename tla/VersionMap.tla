----------------------------- MODULE VersionMap -----------------------------
(***************************************************************************)
(* What the synchronizer promises about the versions of one                *)
(* ApplicationDefinition, at the level Synchronizer models them: a map     *)
(* from appVersion to the chart reference it is pulled from, and whether   *)
(* the list is in appVersion order. The chart declares a map and an order; *)
(* the first write copies both, every later write merges the declared map  *)
(* into the existing one key by key (keeping keys no longer declared) and  *)
(* sorts. VersionLists, the list-level model, implements this.             *)
(***************************************************************************)
CONSTANTS Keys, Refs, Absent

VARIABLES
    desired,      \* the chart's versions as a map, as the catalog declares them
    desiredAsc,   \* whether the chart lists them in appVersion order
    versions,     \* the ApplicationDefinition's versions, or Absent
    ascending     \* whether its list is in appVersion order

vars == <<desired, desiredAsc, versions, ascending>>

Maps == UNION {[K -> Refs] : K \in SUBSET Keys}

\* Key-wise merge: declared keys take the declared reference, the others
\* keep theirs.
MergeMaps(existing, decl) ==
    [k \in DOMAIN existing \cup DOMAIN decl |->
        IF k \in DOMAIN decl THEN decl[k] ELSE existing[k]]

Init ==
    /\ desired \in Maps /\ desiredAsc \in BOOLEAN
    /\ versions = Absent /\ ascending = FALSE

\* The catalog changes what the chart declares.
Declare ==
    /\ desired' \in Maps /\ desiredAsc' \in BOOLEAN
    /\ UNCHANGED <<versions, ascending>>

\* Create: the declared versions, in the chart's order.
Create ==
    /\ versions = Absent
    /\ versions' = desired /\ ascending' = desiredAsc
    /\ UNCHANGED <<desired, desiredAsc>>

\* Update: merged, and sorted.
Update ==
    /\ versions # Absent
    /\ versions' = MergeMaps(versions, desired) /\ ascending' = TRUE
    /\ UNCHANGED <<desired, desiredAsc>>

Next == Declare \/ Create \/ Update

Spec == Init /\ [][Next]_vars

\* Once the ApplicationDefinition exists, no step drops one of its
\* appVersions or leaves a sorted list unsorted: what updateApplicationDefinition
\* promises KKP installations that depend on a version (spec 4.4).
KeysKept ==
    [][versions # Absent =>
         /\ DOMAIN versions \subseteq DOMAIN versions'
         /\ ascending => ascending']_vars
=============================================================================
