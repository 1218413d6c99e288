---------------------------- MODULE OrphanHistory ----------------------------
(***************************************************************************)
(* Synchronizer with one history variable, for stating what the informer  *)
(* cache can cost unmanageOrphans. The reconciler's client reads the      *)
(* cache (mgr.GetClient(), part_010:77) and the controller watches         *)
(* ApplicationCatalogs only (part_010:98-101), so an object the cache     *)
(* hides from the List of a pass keeps its label until the catalog is     *)
(* enqueued again. The history variable records, per catalog, the objects *)
(* its last List missed that way; it is never read by the system's        *)
(* actions, so HSpec allows exactly the behaviours of Spec.               *)
(***************************************************************************)
EXTENDS Synchronizer

VARIABLE
    missed   \* catalog -> names its last List did not return because the
             \* cache did not show them labelled with it (history only)

hvars == <<vars, missed>>

\* The objects the List of the running pass would keep as orphans if it
\* read the API server, but does not see in the cache: labelled with the
\* pass's catalog on the server, not generated in this pass, and not
\* labelled with that catalog in the cache.
Hidden ==
    {n \in Names : /\ ad[n] # Absent /\ ad[n].owner = rec.cat
                   /\ rec.gen = Nil \/ n \notin rec.gen
                   /\ ~(View(n) # Absent /\ View(n).owner = rec.cat)}

HInit == Init /\ missed = [c \in Catalogs |-> {}]

\* Every step of Synchronizer; a List (successful or not) records what it
\* could not see.
HNext ==
    /\ Next
    /\ missed' = IF ListOwned THEN [missed EXCEPT ![rec.cat] = Hidden]
                              ELSE missed

HSpec == HInit /\ [][HNext]_hvars

\* An ApplicationDefinition still labelled with a catalog that no longer
\* declares it has a reconcile of that catalog queued, waiting on a timer
\* or running, unless the last List of that catalog was answered by a
\* cache that did not show it labelled: deletions and chart removals
\* racing a pass, failed Gets, Lists and label patches, and the error
\* aggregation of reconcile lose no orphan, and the cache is the only way
\* unmanageOrphans misses one.
OrphanTrackedUnlessHidden ==
    \A n \in Names :
        ad[n] # Absent /\ ad[n].owner # NoOwner =>
            \/ Declares(ad[n].owner, n)
            \/ PendingReconcile(ad[n].owner)
            \/ n \in missed[ad[n].owner]
=============================================================================
