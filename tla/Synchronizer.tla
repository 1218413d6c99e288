---------------------------- MODULE Synchronizer ----------------------------
(***************************************************************************)
(* The synchronizer controller (internal/controllers/synchronizer) with    *)
(* the objects it reconciles and the actors that change them:              *)
(*   - admission: a CREATE/UPDATE of an ApplicationCatalog passes the      *)
(*     mutating webhook (Defaulting) and the validating webhook            *)
(*     (Validation) before it is persisted; a DELETE is always allowed;    *)
(*   - the reconciler: one worker (MaxConcurrentReconciles is 1) taking    *)
(*     catalog names from the work queue; every API call it makes (Get,    *)
(*     Create, Patch, List) is one step, so other actors interleave        *)
(*     between the read of an ApplicationDefinition and its patch;         *)
(*   - cluster admins and KKP editing ApplicationDefinitions               *)
(*     (defaultValuesBlock, the system-application label).                 *)
(* The controller watches ApplicationCatalogs only: an edit of an          *)
(* ApplicationDefinition enqueues nothing.                                 *)
(***************************************************************************)
EXTENDS Naturals, Defaulting, Validation

CONSTANTS
    Requests,        \* catalog specs clients submit (before defaulting)
    LegacySpecs,     \* specs persisted without the mutating webhook
    InitAD,          \* ApplicationDefinitions present at start (unmanaged)
    Periodic,        \* ReconciliationInterval > 0
    MaxWrites,       \* bound on catalog creates/updates/deletes
    MaxEdits,        \* bound on edits of ApplicationDefinitions by users
    MaxFailures,     \* bound on failed API calls of the reconciler
    CacheLag         \* Get and List may return an outdated object

ASSUME SynchronizerAssumption ==
    /\ Requests \subseteq CatalogRec
    /\ LegacySpecs \subseteq CatalogRec
    /\ InitAD \in [Names -> {Absent} \cup {a \in ADRec : a.owner = NoOwner}]
    /\ Periodic \in BOOLEAN /\ CacheLag \in BOOLEAN
    /\ MaxWrites \in Nat /\ MaxEdits \in Nat /\ MaxFailures \in Nat
    /\ \A e \in Entries : e # Absent

VARIABLES
    catalog,   \* name -> persisted ApplicationCatalog spec, or Absent
    ad,        \* name -> ApplicationDefinition, or Absent
    queue,     \* catalog names ready in the work queue
    later,     \* catalog names waiting for RequeueAfter or error backoff
    rec,       \* the reconciler's local state for the pass in progress
    writes, edits, failures,  \* counters for the bounds
    cache      \* the manager's informer cache of ApplicationDefinitions

vars == <<catalog, ad, queue, later, rec, writes, edits, failures, cache>>

Phases == {"Idle", "Entries", "Write", "Unmanage"}

\* The locals of reconcile: the catalog being reconciled, the charts not
\* yet converted, generatedApps (Nil in handleDeletion), the chart being
\* written with the ApplicationDefinition read for it, the orphans still
\* to unmanage, and whether an error was collected.
RecRec == [phase : Phases, cat : Catalogs, todo : SUBSET Entries,
           gen : (SUBSET Names) \cup {Nil}, cur : Entries \cup {Absent},
           snap : ADRec \cup {Absent}, orphans : SUBSET Names, errs : BOOLEAN]

IdleRec == [phase |-> "Idle", cat |-> CHOOSE c \in Catalogs : TRUE, todo |-> {},
            gen |-> {}, cur |-> Absent, snap |-> Absent, orphans |-> {},
            errs |-> FALSE]

TypeOK ==
    /\ catalog \in [Catalogs -> CatalogRec \cup {Absent}]
    /\ ad \in [Names -> ADRec \cup {Absent}]
    /\ queue \subseteq Catalogs
    /\ later \subseteq Catalogs
    /\ rec \in RecRec
    /\ writes \in 0..MaxWrites
    /\ edits \in 0..MaxEdits
    /\ failures \in 0..MaxFailures
    /\ cache \in [Names -> ADRec \cup {Absent}]

-----------------------------------------------------------------------------
(* Converter and merge helpers.                                            *)

\* convertChartToApplicationDefinition: labels managed-by/catalog-name,
\* defaultValuesBlock and the versions in the order the chart lists them.
Convert(c, e) ==
    [owner |-> c, system |-> FALSE, dvb |-> e.dvb,
     versions |-> e.versions, ascending |-> e.ascending]

\* Mutant: the desired list replaces the existing one.
MergeVersionsReplace(existing, desired) == desired

\* mergeVersions: existing versions are kept, the desired ones replace the
\* existing version of their key or are appended (both shortcuts for an
\* empty side give the same map).
MergeVersions(existing, desired) ==
    [k \in DOMAIN existing \cup DOMAIN desired |->
        IF k \in DOMAIN desired THEN desired[k] ELSE existing[k]]

\* isSystemApplication: the object carries apps.kubermatic.k8c.io/managed-by
\* (a nil object is not one).
IsSystemApplication(a) == a # Absent /\ a.system

\* The defaultValuesBlock of the cluster wins unless it is "" or "{}".
PreservedValue(existing, desired) ==
    IF existing.dvb \notin {NoValue, EmptyObject} THEN existing.dvb ELSE desired.dvb

\* The object updateApplicationDefinition's modify() leaves: labels
\* ensured, enforced/default/selector preserved (the converter never sets
\* them, so they are left out), defaultValuesBlock preserved, versions
\* merged and sorted by key.
Updated(existing, desired) ==
    [existing EXCEPT !.owner = desired.owner,
                     !.dvb = PreservedValue(existing, desired),
                     !.versions = MergeVersions(existing.versions, desired.versions),
                     !.ascending = TRUE]

\* client.Patch with MergeFrom(old): a JSON merge patch holding the fields
\* modify() changed, applied to the object as the API server has it now.
\* No resourceVersion is sent, so nothing fails if the object changed since
\* it was read. The versions list is one field.
MergePatch(cur, old, new) ==
    LET listChanged == new.versions # old.versions \/ new.ascending # old.ascending
    IN [owner |-> IF new.owner = old.owner THEN cur.owner ELSE new.owner,
        system |-> IF new.system = old.system THEN cur.system ELSE new.system,
        dvb |-> IF new.dvb = old.dvb THEN cur.dvb ELSE new.dvb,
        versions |-> IF listChanged THEN new.versions ELSE cur.versions,
        ascending |-> IF listChanged THEN new.ascending ELSE cur.ascending]

\* The client of the Reconciler is mgr.GetClient(): Get and List read the
\* informer cache, which holds each object as of some earlier write; Create
\* and Patch go to the API server. Without CacheLag reads are current.
View(n) == IF CacheLag THEN cache[n] ELSE ad[n]

-----------------------------------------------------------------------------
Init ==
    /\ catalog \in [Catalogs -> {Absent} \cup LegacySpecs]
    /\ ad = InitAD
    /\ queue = {c \in Catalogs : catalog[c] # Absent}
    /\ later = {}
    /\ rec = IdleRec
    /\ writes = 0 /\ edits = 0 /\ failures = 0
    /\ cache = InitAD

(* Admission.                                                              *)

\* A CREATE or UPDATE: defaulted, validated against the current
\* ApplicationDefinitions, persisted, and the catalog enqueued.
ApplyCatalog(c) ==
    /\ writes < MaxWrites
    /\ \E req \in Requests : \E spec \in DefaultApplicationCatalog(req) :
          /\ Allowed(c, spec, ad)
          /\ catalog' = [catalog EXCEPT ![c] = spec]
    /\ queue' = queue \cup {c}
    /\ writes' = writes + 1
    /\ UNCHANGED <<ad, later, rec, edits, failures, cache>>

\* A DELETE: allowed without validation; the next reconcile sees NotFound.
DeleteCatalog(c) ==
    /\ writes < MaxWrites
    /\ catalog[c] # Absent
    /\ catalog' = [catalog EXCEPT ![c] = Absent]
    /\ queue' = queue \cup {c}
    /\ writes' = writes + 1
    /\ UNCHANGED <<ad, later, rec, edits, failures, cache>>

(* Users of ApplicationDefinitions.                                        *)

\* A cluster admin customises defaultValuesBlock.
EditValues(n) ==
    /\ edits < MaxEdits
    /\ ad[n] # Absent
    /\ \E v \in UserValues : ad' = [ad EXCEPT ![n].dvb = v]
    /\ edits' = edits + 1
    /\ UNCHANGED <<catalog, queue, later, rec, writes, failures, cache>>

\* KKP labels the ApplicationDefinition apps.kubermatic.k8c.io/managed-by.
MarkSystem(n) ==
    /\ edits < MaxEdits
    /\ ad[n] # Absent /\ ~ad[n].system
    /\ ad' = [ad EXCEPT ![n].system = TRUE]
    /\ edits' = edits + 1
    /\ UNCHANGED <<catalog, queue, later, rec, writes, failures, cache>>

(* The reconciler.                                                         *)

\* Reconcile/reconcile: take c from the queue and Get the catalog.
\* NotFound goes to handleDeletion, i.e. unmanageOrphans with nil
\* generatedApps; nil charts with includeDefaults requeue after 10s;
\* otherwise nil charts are an empty list.
StartReconcile(c) ==
    /\ rec.phase = "Idle"
    /\ c \in queue
    /\ queue' = queue \ {c}
    /\ \/ /\ catalog[c] = Absent
          /\ rec' = [IdleRec EXCEPT !.phase = "Entries", !.cat = c, !.gen = Nil]
          /\ UNCHANGED later
       \/ /\ catalog[c] # Absent
          /\ catalog[c].charts = Nil /\ catalog[c].incl
          /\ later' = later \cup {c}
          /\ UNCHANGED rec
       \/ /\ catalog[c] # Absent
          /\ ~(catalog[c].charts = Nil /\ catalog[c].incl)
          /\ rec' = [IdleRec EXCEPT !.phase = "Entries", !.cat = c,
                                    !.todo = ChartsOf(catalog[c])]
          /\ UNCHANGED later
    /\ UNCHANGED <<catalog, ad, writes, edits, failures, cache>>

\* The Get of the catalog fails: the error requeues it with backoff.
GetCatalogFails(c) ==
    /\ rec.phase = "Idle"
    /\ c \in queue
    /\ failures < MaxFailures
    /\ queue' = queue \ {c}
    /\ later' = later \cup {c}
    /\ failures' = failures + 1
    /\ UNCHANGED <<catalog, ad, rec, writes, edits, cache>>

\* One chart: convert it, record its name in generatedApps, and Get the
\* ApplicationDefinition of that name (a failed Get is collected).
ReadAD ==
    /\ rec.phase = "Entries"
    /\ \E e \in rec.todo :
          LET n == GetAppName(e) IN
          \/ /\ rec' = [rec EXCEPT !.phase = "Write", !.todo = rec.todo \ {e},
                                   !.gen = rec.gen \cup {n}, !.cur = e,
                                   !.snap = View(n)]
             /\ UNCHANGED failures
          \/ /\ failures < MaxFailures
             /\ rec' = [rec EXCEPT !.todo = rec.todo \ {e},
                                   !.gen = rec.gen \cup {n}, !.errs = TRUE]
             /\ failures' = failures + 1
    /\ UNCHANGED <<catalog, ad, queue, later, writes, edits, cache>>

\* reconcileApplicationDefinition after the Get: NotFound creates the
\* converted object, a system application is skipped, anything else is
\* patched by updateApplicationDefinition. A failed Create or Patch is
\* collected. Only this worker creates ApplicationDefinitions, so the
\* Create after a NotFound finds the name free unless the NotFound came
\* from a cache that has not seen an earlier Create: then it fails with
\* AlreadyExists, which is collected like any error.
WriteAD ==
    /\ rec.phase = "Write"
    /\ LET n == GetAppName(rec.cur)
           desired == Convert(rec.cat, rec.cur)
           s == rec.snap
       IN \/ /\ s = Absent /\ ad[n] = Absent
             /\ ad' = [ad EXCEPT ![n] = desired]
             /\ rec' = [rec EXCEPT !.phase = "Entries"]
             /\ UNCHANGED failures
          \/ /\ s = Absent /\ ad[n] # Absent
             /\ rec' = [rec EXCEPT !.phase = "Entries", !.errs = TRUE]
             /\ UNCHANGED <<ad, failures>>
          \/ /\ IsSystemApplication(s)
             /\ rec' = [rec EXCEPT !.phase = "Entries"]
             /\ UNCHANGED <<ad, failures>>
          \/ /\ s # Absent /\ ~IsSystemApplication(s)
             /\ ad' = [ad EXCEPT ![n] = MergePatch(ad[n], s, Updated(s, desired))]
             /\ rec' = [rec EXCEPT !.phase = "Entries"]
             /\ UNCHANGED failures
          \/ /\ failures < MaxFailures
             /\ ~IsSystemApplication(s)
             /\ rec' = [rec EXCEPT !.phase = "Entries", !.errs = TRUE]
             /\ failures' = failures + 1
             /\ UNCHANGED ad
    /\ UNCHANGED <<catalog, queue, later, writes, edits, cache>>

\* unmanageOrphans: List the ApplicationDefinitions labelled with the
\* catalog's name and keep those not generated in this pass (all of them
\* when generatedApps is nil). A failed List is returned as the error.
ListOwned ==
    /\ rec.phase = "Entries" /\ rec.todo = {}
    /\ \/ /\ rec' = [rec EXCEPT !.phase = "Unmanage",
                        !.orphans = {n \in Names :
                                       /\ View(n) # Absent
                                       /\ View(n).owner = rec.cat
                                       /\ rec.gen = Nil \/ n \notin rec.gen}]
          /\ UNCHANGED failures
       \/ /\ failures < MaxFailures
          /\ rec' = [rec EXCEPT !.phase = "Unmanage", !.errs = TRUE]
          /\ failures' = failures + 1
    /\ UNCHANGED <<catalog, ad, queue, later, writes, edits, cache>>

\* removeManagedLabels: a merge patch deleting both catalog labels.
RemoveManagedLabels ==
    /\ rec.phase = "Unmanage"
    /\ \E n \in rec.orphans :
          \/ /\ ad' = [ad EXCEPT ![n].owner = NoOwner]
             /\ rec' = [rec EXCEPT !.orphans = rec.orphans \ {n}]
             /\ UNCHANGED failures
          \/ /\ failures < MaxFailures
             /\ rec' = [rec EXCEPT !.orphans = rec.orphans \ {n}, !.errs = TRUE]
             /\ failures' = failures + 1
             /\ UNCHANGED ad
    /\ UNCHANGED <<catalog, queue, later, writes, edits, cache>>

\* Mutant: the aggregated error is dropped (reconcile returns nil).
FinishReconcileDropsErrors ==
    /\ rec.phase = "Unmanage" /\ rec.orphans = {}
    /\ later' = IF Periodic THEN later \cup {rec.cat} ELSE later
    /\ rec' = IdleRec
    /\ UNCHANGED <<catalog, ad, queue, writes, edits, failures, cache>>

\* Mutant: a successful pass never requeues after ReconciliationInterval.
FinishReconcileNoInterval ==
    /\ rec.phase = "Unmanage" /\ rec.orphans = {}
    /\ later' = IF rec.errs THEN later \cup {rec.cat} ELSE later
    /\ rec' = IdleRec
    /\ UNCHANGED <<catalog, ad, queue, writes, edits, failures, cache>>

\* Reconcile returns: an aggregated error requeues with backoff, success
\* requeues after ReconciliationInterval when it is positive.
FinishReconcile ==
    /\ rec.phase = "Unmanage" /\ rec.orphans = {}
    /\ later' = IF rec.errs \/ Periodic THEN later \cup {rec.cat} ELSE later
    /\ rec' = IdleRec
    /\ UNCHANGED <<catalog, ad, queue, writes, edits, failures, cache>>

\* A RequeueAfter or backoff delay expires: the name is added to the queue.
RequeueTimer(c) ==
    /\ c \in later
    /\ later' = later \ {c}
    /\ queue' = queue \cup {c}
    /\ UNCHANGED <<catalog, ad, rec, writes, edits, failures, cache>>

\* The informer receives the watch event of n: its cache entry becomes
\* the object the API server holds.
CacheSync(n) ==
    /\ CacheLag
    /\ cache[n] # ad[n]
    /\ cache' = [cache EXCEPT ![n] = ad[n]]
    /\ UNCHANGED <<catalog, ad, queue, later, rec, writes, edits, failures>>

-----------------------------------------------------------------------------
ReconcilerStep ==
    ReadAD \/ WriteAD \/ ListOwned \/ RemoveManagedLabels \/ FinishReconcile

Next ==
    \/ \E c \in Catalogs : ApplyCatalog(c) \/ DeleteCatalog(c)
    \/ \E n \in Names : EditValues(n) \/ MarkSystem(n) \/ CacheSync(n)
    \/ \E c \in Catalogs : StartReconcile(c) \/ GetCatalogFails(c) \/ RequeueTimer(c)
    \/ ReconcilerStep

Spec == Init /\ [][Next]_vars

\* The controller's worker keeps taking items (the work queue hands them
\* out in order, so no name waits forever: strong fairness per name), its
\* API calls return, timers fire, and the informer delivers every watch
\* event. Clients and users owe nothing.
Fairness ==
    /\ \A c \in Catalogs : SF_vars(StartReconcile(c)) /\ WF_vars(RequeueTimer(c))
    /\ \A n \in Names : WF_vars(CacheSync(n))
    /\ WF_vars(ReconcilerStep)

FairSpec == Spec /\ Fairness

-----------------------------------------------------------------------------
(* Properties.                                                             *)

\* Catalog c has a reconcile pending: queued, waiting on a timer, or running.
PendingReconcile(c) ==
    \/ c \in queue \cup later
    \/ rec.phase # "Idle" /\ rec.cat = c

\* Catalog c exists and one of its charts resolves to n.
Declares(c, n) == catalog[c] # Absent /\ n \in AppNames(ChartsOf(catalog[c]))

\* An ApplicationDefinition still labelled with a catalog that no longer
\* declares it (the catalog was deleted or the chart removed) always has a
\* reconcile of that catalog pending, so unmanageOrphans will reach it:
\* no deletion, failed List, failed label removal or chart removal racing a
\* running pass leaves a stale owner label that nothing will remove.
OrphanTracked ==
    \A n \in Names :
        ad[n] # Absent /\ ad[n].owner # NoOwner =>
            Declares(ad[n].owner, n) \/ PendingReconcile(ad[n].owner)

\* No step removes a version from an ApplicationDefinition (mergeVersions
\* keeps versions the catalog stopped declaring, for live installations).
VersionsNeverRemoved ==
    [][\A n \in Names :
         ad[n] # Absent =>
            /\ ad'[n] # Absent
            /\ DOMAIN ad[n].versions \subseteq DOMAIN ad'[n].versions]_ad

\* With Get reading the informer cache: a version disappears from an
\* ApplicationDefinition only in the merge patch of a pass whose Get
\* returned an object without that version. Admission, users, label
\* removal and the create path never drop one, and mergeVersions keeps
\* every version of the object it is given, so a stale cached Get is the
\* only way updateApplicationDefinition loses a version.
VersionsLostOnlyToStaleReads ==
    [][\A n \in Names :
         ad[n] # Absent =>
            /\ ad'[n] # Absent
            /\ \A k \in DOMAIN ad[n].versions \ DOMAIN ad'[n].versions :
                  /\ rec.phase = "Write" /\ GetAppName(rec.cur) = n
                  /\ rec.snap # Absent /\ k \notin DOMAIN rec.snap.versions]_ad

\* A defaultValuesBlock customised by a cluster admin is never replaced by
\* the catalog's (updateApplicationDefinition preserves non-empty values).
UserValuesPreserved ==
    [][\A n \in Names :
         ad[n] # Absent /\ ad[n].dvb \in UserValues => ad'[n].dvb \in UserValues]_ad

\* An ApplicationDefinition owned by a catalog that still declares it never
\* passes to another catalog (the validating webhook denies the second
\* claim; the spec says a conflict that slips through is corrected).
OwnershipNeverStolen ==
    [][\A n \in Names :
         ad[n] # Absent /\ ad[n].owner # NoOwner /\ Declares(ad[n].owner, n) =>
            ad'[n].owner \in {ad[n].owner, NoOwner}]_<<ad, catalog>>

\* Every ApplicationDefinition left labelled by a deleted catalog is
\* eventually unmanaged (or the catalog is created again).
OrphansEventuallyReleased ==
    \A n \in Names, c \in Catalogs :
        (ad[n] # Absent /\ ad[n].owner = c /\ catalog[c] = Absent)
            ~> (ad[n] = Absent \/ ad[n].owner # c \/ catalog[c] # Absent)

\* Idempotence: when the ApplicationDefinition the reconciler read is still
\* the one, and exactly the one, that converting the same chart of the same
\* catalog gives (what the create path wrote), the reconciler's write for
\* that chart changes nothing (spec: a converged state is a fixed point;
\* reconcileApplicationDefinition creates without sorting, the update path
\* sorts).
WriteIsIdempotent ==
    [][LET n == GetAppName(rec.cur) IN
         (/\ rec.phase = "Write" /\ rec'.phase = "Entries"
          /\ rec.snap # Absent /\ rec.snap = ad[n]
          /\ rec.snap = Convert(rec.cat, rec.cur)) => ad'[n] = ad[n]]_<<ad, rec>>

\* A system application (labelled apps.kubermatic.k8c.io/managed-by) is
\* never taken over by a catalog: no step gives it to a catalog or changes
\* its versions (spec: externally owned resources are never touched;
\* reconcileApplicationDefinition checks isSystemApplication on the
\* object it read, then patches).
SystemAppsUntouched ==
    [][\A n \in Names :
         ad[n] # Absent /\ ad[n].system =>
            /\ ad'[n].owner \in {ad[n].owner, NoOwner}
            /\ ad'[n].versions = ad[n].versions
            /\ ad'[n].ascending = ad[n].ascending]_ad
=============================================================================
