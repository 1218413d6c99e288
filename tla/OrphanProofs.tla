---------------------------- MODULE OrphanProofs ----------------------------
(***************************************************************************)
(* OrphanTrackedUnlessHidden for every instance and either value of        *)
(* CacheLag: an ApplicationDefinition still labelled with a catalog that  *)
(* no longer declares it has a reconcile of that catalog pending, unless  *)
(* the catalog's last List was answered by an informer cache that did not *)
(* show it labelled. Only the end of a pass can drop the pending          *)
(* reconcile, so the invariant is strengthened with what the pass knows:  *)
(* while its catalog is not queued again, the charts it has left and the  *)
(* names it generated are the catalog's, and after a List, with no error  *)
(* collected, every undeclared object the catalog owns is among the       *)
(* orphans still to unmanage or among those the List missed.              *)
(***************************************************************************)
EXTENDS SynchronizerProofs, OrphanHistory, TLAPS

\* The history variable maps catalogs to sets of names.
MissedType == missed \in [Catalogs -> SUBSET Names]

\* While the catalog of the running pass has not been queued again (every
\* create, update and delete of it queues it), the pass works on its
\* current charts: those left to convert and the names generated so far
\* are the catalog's.
PassConsistent ==
    rec.phase # "Idle" /\ rec.cat \notin queue /\ rec.gen # Nil =>
        /\ catalog[rec.cat] # Absent
        /\ rec.todo \subseteq ChartsOf(catalog[rec.cat])
        /\ rec.gen \subseteq AppNames(ChartsOf(catalog[rec.cat]))

\* After a List with no error collected, and while the catalog has not
\* been queued again, every object labelled with the catalog that the
\* catalog does not declare is still to be unmanaged, or was hidden from
\* the List by the cache.
UnmanageTracked ==
    rec.phase = "Unmanage" /\ ~rec.errs /\ rec.cat \notin queue =>
        \A n \in Names :
            ad[n] # Absent /\ ad[n].owner = rec.cat /\ ~Declares(rec.cat, n) =>
                n \in rec.orphans \cup missed[rec.cat]

OInv == IInv /\ MissedType /\ OrphanTrackedUnlessHidden /\ PassConsistent
        /\ UnmanageTracked

\* The three conjuncts the steps below preserve.
Tracked == OrphanTrackedUnlessHidden /\ PassConsistent /\ UnmanageTracked

-----------------------------------------------------------------------------
(* Admission: a create, update or delete of catalog c queues c, and        *)
(* changes no other catalog and no ApplicationDefinition.                  *)

LEMMA CatalogEventTracked ==
    ASSUME OInv, missed' = missed, NEW c \in Catalogs,
           queue' = queue \cup {c},
           \A d \in Catalogs \ {c} : catalog'[d] = catalog[d],
           UNCHANGED <<ad, later, rec>>
    PROVE  Tracked'
<1>1. rec.cat \in Catalogs
  BY DEF OInv, IInv, TypeOK, RecRec
<1>2. OrphanTrackedUnlessHidden'
  <2> SUFFICES ASSUME NEW n \in Names, ad[n] # Absent, ad[n].owner # NoOwner
               PROVE  \/ Declares(ad[n].owner, n)'
                      \/ PendingReconcile(ad[n].owner)'
                      \/ n \in missed'[ad[n].owner]
    BY DEF OrphanTrackedUnlessHidden
  <2>1. ad[n].owner \in Catalogs
    BY DEF OInv, IInv, TypeOK, ADRec
  <2>2. CASE ad[n].owner = c
    BY <2>2 DEF PendingReconcile
  <2>3. CASE ad[n].owner # c
    BY <2>1, <2>3 DEF OInv, OrphanTrackedUnlessHidden, Declares, PendingReconcile
  <2>. QED  BY <2>2, <2>3
<1>3. PassConsistent' /\ UnmanageTracked'
  BY <1>1 DEF OInv, PassConsistent, UnmanageTracked, Declares
<1>. QED  BY <1>2, <1>3 DEF Tracked

LEMMA ApplyCatalogTracked ==
    ASSUME OInv, missed' = missed, NEW c \in Catalogs, ApplyCatalog(c)
    PROVE  Tracked'
<1>1. PICK spec : catalog' = [catalog EXCEPT ![c] = spec]
  BY DEF ApplyCatalog
<1>2. \A d \in Catalogs \ {c} : catalog'[d] = catalog[d]
  BY <1>1 DEF OInv, IInv, TypeOK
<1>. QED  BY <1>2, CatalogEventTracked DEF ApplyCatalog

LEMMA DeleteCatalogTracked ==
    ASSUME OInv, missed' = missed, NEW c \in Catalogs, DeleteCatalog(c)
    PROVE  Tracked'
<1>1. \A d \in Catalogs \ {c} : catalog'[d] = catalog[d]
  BY DEF DeleteCatalog, OInv, IInv, TypeOK
<1>. QED  BY <1>1, CatalogEventTracked DEF DeleteCatalog
-----------------------------------------------------------------------------
(* User edits keep every object and its owner label.                       *)

LEMMA OwnersKeptTracked ==
    ASSUME OInv, missed' = missed, UNCHANGED <<catalog, queue, later, rec>>,
           \A m \in Names : /\ ad'[m] # Absent <=> ad[m] # Absent
                            /\ ad[m] # Absent => ad'[m].owner = ad[m].owner
    PROVE  Tracked'
BY DEF OInv, Tracked, OrphanTrackedUnlessHidden, PassConsistent, UnmanageTracked,
       Declares, PendingReconcile

LEMMA EditValuesTracked ==
    ASSUME OInv, missed' = missed, NEW n \in Names, EditValues(n)
    PROVE  Tracked'
<1>1. PICK v \in UserValues : ad' = [ad EXCEPT ![n].dvb = v]
  BY DEF EditValues
<1>2. ad[n] \in ADRec /\ [ad[n] EXCEPT !.dvb = v] \in ADRec
  BY <1>1 DEF EditValues, OInv, IInv, TypeOK, ADRec, Values
<1>3. \A m \in Names : /\ ad'[m] # Absent <=> ad[m] # Absent
                       /\ ad[m] # Absent => ad'[m].owner = ad[m].owner
  BY <1>1, <1>2, ConstantsAssumption DEF OInv, IInv, TypeOK
<1>. QED  BY <1>3, OwnersKeptTracked DEF EditValues

LEMMA MarkSystemTracked ==
    ASSUME OInv, missed' = missed, NEW n \in Names, MarkSystem(n)
    PROVE  Tracked'
<1>1. \A m \in Names : /\ ad'[m] # Absent <=> ad[m] # Absent
                       /\ ad[m] # Absent => ad'[m].owner = ad[m].owner
  BY ConstantsAssumption DEF MarkSystem, OInv, IInv, TypeOK, ADRec
<1>. QED  BY <1>1, OwnersKeptTracked DEF MarkSystem

-----------------------------------------------------------------------------
(* The work queue: with no pass running a name only moves between the      *)
(* queue and the timers; a timer that fires only adds to the queue.        *)

LEMMA QueueMoveTracked ==
    ASSUME OInv, missed' = missed, UNCHANGED <<catalog, ad, rec>>,
           queue \cup later \subseteq queue' \cup later',
           rec.phase # "Idle" => queue \subseteq queue'
    PROVE  Tracked'
<1>1. OrphanTrackedUnlessHidden'
  BY DEF OInv, OrphanTrackedUnlessHidden, Declares, PendingReconcile
<1>2. PassConsistent' /\ UnmanageTracked'
  BY DEF OInv, PassConsistent, UnmanageTracked, Declares
<1>. QED  BY <1>1, <1>2 DEF Tracked

LEMMA GetCatalogFailsTracked ==
    ASSUME OInv, missed' = missed, NEW c \in Catalogs, GetCatalogFails(c)
    PROVE  Tracked'
BY QueueMoveTracked DEF GetCatalogFails

LEMMA RequeueTimerTracked ==
    ASSUME OInv, missed' = missed, NEW c \in Catalogs, RequeueTimer(c)
    PROVE  Tracked'
BY QueueMoveTracked DEF RequeueTimer

\* Taking c from the queue: the pass that starts (or the 10s requeue of a
\* catalog waiting for defaults) keeps c pending, and a pass over an
\* existing catalog starts with all of its charts and no generated name.
LEMMA StartReconcileTracked ==
    ASSUME OInv, missed' = missed, NEW c \in Catalogs, StartReconcile(c)
    PROVE  Tracked'
<1>1. /\ rec.phase = "Idle" /\ c \in queue /\ queue' = queue \ {c}
      /\ UNCHANGED <<catalog, ad>>
  BY DEF StartReconcile
<1>2. /\ \/ rec'.phase # "Idle" /\ rec'.cat = c
         \/ c \in later'
      /\ later \subseteq later'
  BY DEF StartReconcile, IdleRec
<1>3. OrphanTrackedUnlessHidden'
  <2> SUFFICES ASSUME NEW n \in Names, ad[n] # Absent, ad[n].owner # NoOwner,
                      ~Declares(ad[n].owner, n), n \notin missed[ad[n].owner]
               PROVE  PendingReconcile(ad[n].owner)'
    BY <1>1 DEF OrphanTrackedUnlessHidden, Declares
  <2>1. ad[n].owner \in queue \cup later
    BY <1>1 DEF OInv, OrphanTrackedUnlessHidden, PendingReconcile
  <2>. QED  BY <1>1, <1>2, <2>1 DEF PendingReconcile
<1>4. CASE catalog[c] = Absent
  BY <1>1, <1>3, <1>4 DEF StartReconcile, Tracked, PassConsistent,
                         UnmanageTracked, IdleRec
<1>5. CASE catalog[c] # Absent /\ catalog[c].charts = Nil /\ catalog[c].incl
  BY <1>1, <1>3, <1>5 DEF StartReconcile, Tracked, PassConsistent, UnmanageTracked
<1>6. CASE catalog[c] # Absent /\ ~(catalog[c].charts = Nil /\ catalog[c].incl)
  <2>1. rec' = [IdleRec EXCEPT !.phase = "Entries", !.cat = c,
                               !.todo = ChartsOf(catalog[c])]
    BY <1>6 DEF StartReconcile
  <2>2. PassConsistent' /\ UnmanageTracked'
    BY <1>1, <1>6, <2>1 DEF PassConsistent, UnmanageTracked, IdleRec, AppNames
  <2>. QED  BY <1>3, <2>2 DEF Tracked
<1>. QED  BY <1>4, <1>5, <1>6
-----------------------------------------------------------------------------
(* The reconciler's steps inside a pass.                                   *)

\* A step inside a pass that keeps the pass running for the same catalog,
\* leaves catalogs, the queue and the timers alone, and changes no owner
\* label keeps OrphanTrackedUnlessHidden.
LEMMA InPassOrphanTracked ==
    ASSUME OInv, missed' = missed, UNCHANGED <<catalog, queue, later>>,
           rec.phase # "Idle", rec'.phase # "Idle", rec'.cat = rec.cat,
           \A m \in Names : ad'[m] # Absent /\ ad'[m].owner # NoOwner =>
                              \/ ad[m] # Absent /\ ad'[m].owner = ad[m].owner
                              \/ ad'[m].owner = rec.cat
    PROVE  OrphanTrackedUnlessHidden'
BY DEF OInv, OrphanTrackedUnlessHidden, Declares, PendingReconcile

\* Converting a chart of the catalog and reading its object: the name is
\* one the catalog declares.
LEMMA ReadADTracked ==
    ASSUME OInv, missed' = missed, ReadAD
    PROVE  Tracked'
<1>1. PICK e \in rec.todo :
        /\ rec'.phase \in {"Write", "Entries"} /\ rec'.cat = rec.cat
        /\ rec'.todo = rec.todo \ {e} /\ rec'.gen = rec.gen \cup {GetAppName(e)}
  BY DEF ReadAD, OInv, IInv, TypeOK, RecRec
<1>2. /\ rec.phase = "Entries" /\ UNCHANGED <<catalog, ad, queue, later>>
  BY DEF ReadAD
<1>3. rec.gen # Nil /\ rec.gen \subseteq Names
  BY <1>1 DEF OInv, IInv, DeletionPass, TypeOK, RecRec
<1>4. rec'.gen # Nil
  BY <1>1, <1>3, ConstantsAssumption, GetAppNameType DEF OInv, IInv, TypeOK, RecRec
<1>5. OrphanTrackedUnlessHidden'
  BY <1>1, <1>2, InPassOrphanTracked
<1>6. PassConsistent'
  BY <1>1, <1>2, <1>3, <1>4 DEF OInv, PassConsistent, AppNames
<1>7. UnmanageTracked'
  BY <1>1 DEF UnmanageTracked
<1>. QED  BY <1>5, <1>6, <1>7 DEF Tracked

\* The merge patch writes the owner label only if modify() changed it, so
\* the owner after it is the current one or the catalog's.
LEMMA MergePatchOwner ==
    ASSUME NEW cur, NEW old, NEW new
    PROVE  MergePatch(cur, old, new).owner \in {cur.owner, new.owner}
BY DEF MergePatch

\* Create or patch of the chart's object: its owner becomes the catalog of
\* the running pass or stays as it was.
LEMMA WriteADTracked ==
    ASSUME OInv, missed' = missed, WriteAD
    PROVE  Tracked'
<1> DEFINE n == GetAppName(rec.cur)
           desired == Convert(rec.cat, rec.cur)
<1>1. /\ rec.phase = "Write" /\ rec'.phase = "Entries"
      /\ rec' \in {[rec EXCEPT !.phase = "Entries"],
                    [rec EXCEPT !.phase = "Entries", !.errs = TRUE]}
      /\ UNCHANGED <<catalog, queue, later>>
  BY DEF WriteAD, OInv, IInv, TypeOK, RecRec
<1>0. /\ rec'.cat = rec.cat /\ rec'.todo = rec.todo /\ rec'.gen = rec.gen
  BY <1>1 DEF OInv, IInv, TypeOK, RecRec
<1>2. /\ rec.cur \in Entries /\ n \in Names
      /\ ad \in [Names -> ADRec \cup {Absent}]
  BY <1>1, GetAppNameType DEF OInv, IInv, WriteReady, TypeOK
<1>3. \/ ad' = [ad EXCEPT ![n] = desired]
      \/ ad' = ad
      \/ ad' = [ad EXCEPT ![n] = MergePatch(ad[n], rec.snap, Updated(rec.snap, desired))]
  BY DEF WriteAD
<1>4. /\ desired.owner = rec.cat
      /\ rec.snap # Absent => Updated(rec.snap, desired).owner = rec.cat
  BY DEF Convert, Updated
<1>5. \A m \in Names : ad'[m] # Absent /\ ad'[m].owner # NoOwner =>
                         \/ ad[m] # Absent /\ ad'[m].owner = ad[m].owner
                         \/ ad'[m].owner = rec.cat
  <2> SUFFICES ASSUME NEW m \in Names, ad'[m] # Absent, ad'[m].owner # NoOwner
               PROVE  \/ ad[m] # Absent /\ ad'[m].owner = ad[m].owner
                      \/ ad'[m].owner = rec.cat
    OBVIOUS
  <2>1. CASE m # n
    BY <1>2, <1>3, <2>1
  <2>2. CASE m = n /\ ad' = [ad EXCEPT ![n] = desired]
    BY <1>2, <1>4, <2>2
  <2>3. CASE m = n /\ ad' = ad
    BY <2>3
  <2>4. CASE m = n /\ ad' # ad /\ ad' # [ad EXCEPT ![n] = desired]
    <3>1. ad' = [ad EXCEPT ![n] = MergePatch(ad[n], rec.snap, Updated(rec.snap, desired))]
      BY <1>3, <2>4
    <3>2. rec.snap # Absent /\ ad[n] # Absent
      BY <1>1, <2>4 DEF WriteAD, OInv, IInv, WriteReady
    <3>3. ad'[n].owner \in {ad[n].owner, rec.cat}
      BY <1>2, <1>4, <3>1, <3>2, MergePatchOwner
    <3>. QED  BY <2>4, <3>2, <3>3
  <2>. QED  BY <2>1, <2>2, <2>3, <2>4
<1>6. OrphanTrackedUnlessHidden'
  BY <1>0, <1>1, <1>5, InPassOrphanTracked
<1>7. PassConsistent' /\ UnmanageTracked'
  BY <1>0, <1>1 DEF OInv, PassConsistent, UnmanageTracked
<1>. QED  BY <1>6, <1>7 DEF Tracked
-----------------------------------------------------------------------------
\* List: the orphans are the objects the cache shows labelled with the
\* catalog and not generated, and the history records those the server
\* has labelled but the cache does not show; together they hold every
\* undeclared object the catalog owns (generatedApps holds only declared
\* names). A failed List collects an error.
LEMMA ListOwnedTracked ==
    ASSUME OInv, ListOwned, missed' = [missed EXCEPT ![rec.cat] = Hidden]
    PROVE  Tracked'
<1>1. /\ rec.phase = "Entries" /\ rec \in RecRec /\ rec.cat \in Catalogs
      /\ UNCHANGED <<catalog, ad, queue, later>>
  BY DEF ListOwned, OInv, IInv, TypeOK, RecRec
<1>0. \/ rec' = [rec EXCEPT !.phase = "Unmanage",
                     !.orphans = {n \in Names :
                                    /\ View(n) # Absent
                                    /\ View(n).owner = rec.cat
                                    /\ rec.gen = Nil \/ n \notin rec.gen}]
      \/ rec' = [rec EXCEPT !.phase = "Unmanage", !.errs = TRUE]
  BY DEF ListOwned
<1>2. /\ rec'.phase = "Unmanage" /\ rec'.cat = rec.cat
      /\ rec'.todo = rec.todo /\ rec'.gen = rec.gen
  BY <1>0, <1>1 DEF RecRec
<1>6. /\ missed'[rec.cat] = Hidden
      /\ \A c \in Catalogs \ {rec.cat} : missed'[c] = missed[c]
  BY <1>1 DEF OInv, MissedType
<1>3. OrphanTrackedUnlessHidden'
  <2> SUFFICES ASSUME NEW n \in Names, ad[n] # Absent, ad[n].owner # NoOwner
               PROVE  \/ Declares(ad[n].owner, n)'
                      \/ PendingReconcile(ad[n].owner)'
                      \/ n \in missed'[ad[n].owner]
    BY <1>1 DEF OrphanTrackedUnlessHidden
  <2>1. CASE ad[n].owner = rec.cat
    BY <1>1, <1>2, <2>1 DEF PendingReconcile
  <2>2. CASE ad[n].owner # rec.cat
    <3>1. ad[n].owner \in Catalogs
      BY DEF OInv, IInv, TypeOK, ADRec
    <3>. QED  BY <1>1, <1>2, <1>6, <2>2, <3>1
              DEF OInv, OrphanTrackedUnlessHidden, Declares, PendingReconcile
  <2>. QED  BY <2>1, <2>2
<1>7. PassConsistent'
  BY <1>1, <1>2 DEF OInv, PassConsistent
<1>4. ASSUME rec' = [rec EXCEPT !.phase = "Unmanage",
                        !.orphans = {n \in Names :
                                       /\ View(n) # Absent
                                       /\ View(n).owner = rec.cat
                                       /\ rec.gen = Nil \/ n \notin rec.gen}]
      PROVE  UnmanageTracked'
  <2> SUFFICES ASSUME rec.cat \notin queue, NEW n \in Names, ad[n] # Absent,
                      ad[n].owner = rec.cat, ~Declares(rec.cat, n)
               PROVE  n \in rec'.orphans \cup missed'[rec.cat]
    BY <1>1, <1>2, <1>4 DEF UnmanageTracked, Declares
  <2>1. rec.gen = Nil \/ n \notin rec.gen
    BY <1>1 DEF OInv, PassConsistent, Declares
  <2>. QED  BY <1>4, <1>6, <2>1 DEF Hidden
<1>5. ASSUME rec' = [rec EXCEPT !.phase = "Unmanage", !.errs = TRUE]
      PROVE  UnmanageTracked'
  BY <1>1, <1>5 DEF UnmanageTracked, RecRec
<1>. QED  BY <1>0, <1>3, <1>7, <1>4, <1>5 DEF Tracked

\* Removing the labels of one orphan, or failing to and collecting the
\* error.
LEMMA RemoveManagedLabelsTracked ==
    ASSUME OInv, missed' = missed, RemoveManagedLabels
    PROVE  Tracked'
<1>1. PICK n \in rec.orphans :
        \/ /\ ad' = [ad EXCEPT ![n].owner = NoOwner]
           /\ rec' = [rec EXCEPT !.orphans = rec.orphans \ {n}]
        \/ /\ rec' = [rec EXCEPT !.orphans = rec.orphans \ {n}, !.errs = TRUE]
           /\ UNCHANGED ad
  BY DEF RemoveManagedLabels
<1>2. /\ rec.phase = "Unmanage" /\ rec \in RecRec /\ n \in Names
      /\ ad[n] \in ADRec /\ rec.cat \in Catalogs
      /\ UNCHANGED <<catalog, queue, later>>
  BY DEF RemoveManagedLabels, OInv, IInv, TypeOK, RecRec, OrphansExist
<1>3. /\ rec'.phase = rec.phase /\ rec'.cat = rec.cat
      /\ rec'.todo = rec.todo /\ rec'.gen = rec.gen
      /\ rec'.orphans = rec.orphans \ {n}
  BY <1>1, <1>2 DEF RecRec
<1>4. CASE /\ ad' = [ad EXCEPT ![n].owner = NoOwner]
           /\ rec' = [rec EXCEPT !.orphans = rec.orphans \ {n}]
  <2>1. /\ ad'[n] # Absent /\ ad'[n].owner = NoOwner
        /\ \A m \in Names \ {n} : ad'[m] = ad[m]
    BY <1>2, <1>4, ConstantsAssumption DEF OInv, IInv, TypeOK, ADRec
  <2>2. rec'.errs = rec.errs
    BY <1>2, <1>4 DEF RecRec
  <2>3. OrphanTrackedUnlessHidden'
    BY <1>2, <1>3, <2>1 DEF OInv, OrphanTrackedUnlessHidden, Declares, PendingReconcile
  <2>4. PassConsistent'
    BY <1>2, <1>3 DEF OInv, PassConsistent
  <2>5. UnmanageTracked'
    BY <1>2, <1>3, <2>1, <2>2, ConstantsAssumption
       DEF OInv, UnmanageTracked, Declares
  <2>. QED  BY <2>3, <2>4, <2>5 DEF Tracked
<1>5. CASE /\ rec' = [rec EXCEPT !.orphans = rec.orphans \ {n}, !.errs = TRUE]
           /\ UNCHANGED ad
  <2>1. rec'.errs
    BY <1>2, <1>5 DEF RecRec
  <2>. QED  BY <1>2, <1>3, <1>5, <2>1
            DEF OInv, Tracked, OrphanTrackedUnlessHidden, PassConsistent, UnmanageTracked,
                Declares, PendingReconcile
<1>. QED  BY <1>1, <1>4, <1>5

\* The end of a pass, the one step that can drop a pending reconcile:
\* after an error or with a periodic interval the catalog is requeued;
\* otherwise List succeeded, and every undeclared object it owns was in
\* the orphans, which are now all unlabelled.
LEMMA FinishReconcileTracked ==
    ASSUME OInv, missed' = missed, FinishReconcile
    PROVE  Tracked'
<1>1. /\ rec.phase = "Unmanage" /\ rec.orphans = {} /\ rec' = IdleRec
      /\ later' = IF rec.errs \/ Periodic THEN later \cup {rec.cat} ELSE later
      /\ UNCHANGED <<catalog, ad, queue>>
  BY DEF FinishReconcile
<1>2. PassConsistent' /\ UnmanageTracked'
  BY <1>1 DEF PassConsistent, UnmanageTracked, IdleRec
<1>3. OrphanTrackedUnlessHidden'
  <2> SUFFICES ASSUME NEW n \in Names, ad[n] # Absent, ad[n].owner # NoOwner,
                      ~Declares(ad[n].owner, n), n \notin missed[ad[n].owner]
               PROVE  PendingReconcile(ad[n].owner)'
    BY <1>1 DEF OrphanTrackedUnlessHidden, Declares
  <2>1. later \subseteq later'
    BY <1>1
  <2>2. CASE ad[n].owner # rec.cat
    BY <1>1, <2>1, <2>2 DEF OInv, OrphanTrackedUnlessHidden, PendingReconcile
  <2>3. CASE ad[n].owner = rec.cat /\ (rec.cat \in queue \cup later \/ rec.errs \/ Periodic)
    BY <1>1, <2>1, <2>3 DEF PendingReconcile
  <2>4. CASE ad[n].owner = rec.cat /\ rec.cat \notin queue \cup later /\ ~rec.errs
    BY <1>1, <2>4 DEF OInv, UnmanageTracked
  <2>. QED  BY <2>2, <2>3, <2>4
<1>. QED  BY <1>2, <1>3 DEF Tracked
-----------------------------------------------------------------------------------------------------------------------------------------------------
(* The invariant and the theorem.                                          *)

\* Only the List step changes the history.
LEMMA MissedKept ==
    ASSUME TypeOK, [HNext]_hvars, rec.phase # "Entries" \/ rec'.phase # "Unmanage"
    PROVE  missed' = missed
<1>1. ~ListOwned
  BY DEF ListOwned, TypeOK, RecRec
<1>. QED  BY <1>1 DEF HNext, hvars

\* No object is owned at start, no pass is running and nothing is missed.
LEMMA InitOInv == HInit => OInv
<1> SUFFICES ASSUME HInit PROVE OInv
  OBVIOUS
<1>1. OrphanTrackedUnlessHidden
  BY SynchronizerAssumption DEF HInit, Init, OrphanTrackedUnlessHidden
<1>2. PassConsistent /\ UnmanageTracked /\ MissedType
  BY DEF HInit, Init, IdleRec, PassConsistent, UnmanageTracked, MissedType
<1>. QED  BY <1>1, <1>2, InitIInv DEF OInv, HInit

\* Every step keeps OInv, whether Get and List read the cache or the server.
LEMMA NextOInv == OInv /\ [HNext]_hvars => OInv'
<1> SUFFICES ASSUME OInv, [HNext]_hvars PROVE OInv'
  OBVIOUS
<1>0. IInv'
  <2>1. [Next]_vars
    BY DEF HNext, hvars
  <2>. QED  BY <2>1, NextIInv DEF OInv
<1>a. TypeOK
  BY DEF OInv, IInv
<1>8. MissedType'
  <2>1. CASE ListOwned
    <3>1. rec.cat \in Catalogs /\ Hidden \subseteq Names
      BY DEF OInv, IInv, TypeOK, RecRec, Hidden
    <3>. QED  BY <2>1, <3>1 DEF HNext, hvars, OInv, MissedType, ListOwned
  <2>2. CASE ~ListOwned
    BY <2>2 DEF HNext, hvars, OInv, MissedType
  <2>. QED  BY <2>1, <2>2
<1>1. ASSUME NEW c \in Catalogs, ApplyCatalog(c) \/ DeleteCatalog(c)
      PROVE  Tracked'
  <2>1. missed' = missed
    BY <1>1, <1>a, MissedKept DEF ApplyCatalog, DeleteCatalog
  <2>. QED  BY <1>1, <2>1, ApplyCatalogTracked, DeleteCatalogTracked
<1>2. ASSUME NEW n \in Names, EditValues(n) \/ MarkSystem(n) \/ CacheSync(n)
      PROVE  Tracked'
  <2>1. missed' = missed
    BY <1>2, <1>a, MissedKept DEF EditValues, MarkSystem, CacheSync
  <2>2. ASSUME CacheSync(n) PROVE Tracked'
    BY <2>1, <2>2, OwnersKeptTracked DEF CacheSync
  <2>. QED  BY <1>2, <2>1, <2>2, EditValuesTracked, MarkSystemTracked
<1>3. ASSUME NEW c \in Catalogs,
             StartReconcile(c) \/ GetCatalogFails(c) \/ RequeueTimer(c)
      PROVE  Tracked'
  <2>1. missed' = missed
    BY <1>3, <1>a, MissedKept DEF StartReconcile, GetCatalogFails, RequeueTimer
  <2>. QED  BY <1>3, <2>1, StartReconcileTracked, GetCatalogFailsTracked,
              RequeueTimerTracked
<1>4. ASSUME ReadAD \/ WriteAD \/ RemoveManagedLabels \/ FinishReconcile
      PROVE  Tracked'
  <2>1. rec.phase # "Entries" \/ rec'.phase # "Unmanage"
    <3>1. ASSUME ReadAD PROVE rec'.phase # "Unmanage"
      <4>1. PICK e \in rec.todo :
              \/ rec' = [rec EXCEPT !.phase = "Write", !.todo = rec.todo \ {e},
                                     !.gen = rec.gen \cup {GetAppName(e)},
                                     !.cur = e, !.snap = View(GetAppName(e))]
              \/ rec' = [rec EXCEPT !.todo = rec.todo \ {e},
                                     !.gen = rec.gen \cup {GetAppName(e)},
                                     !.errs = TRUE]
        BY <3>1 DEF ReadAD
      <4>. QED  BY <3>1, <4>1, <1>a DEF ReadAD, TypeOK, RecRec
    <3>. QED  BY <1>4, <3>1 DEF WriteAD, RemoveManagedLabels, FinishReconcile
  <2>2. missed' = missed
    BY <1>a, <2>1, MissedKept
  <2>. QED  BY <1>4, <2>2, ReadADTracked, WriteADTracked,
              RemoveManagedLabelsTracked, FinishReconcileTracked
<1>5. ASSUME ListOwned PROVE Tracked'
  <2>0. HNext
    <3>1. rec' # rec
      BY <1>5, <1>a DEF ListOwned, TypeOK, RecRec
    <3>. QED  BY <3>1 DEF hvars, vars
  <2>1. missed' = [missed EXCEPT ![rec.cat] = Hidden]
    BY <1>5, <2>0 DEF HNext
  <2>. QED  BY <1>5, <2>1, ListOwnedTracked
<1>6. ASSUME UNCHANGED hvars PROVE Tracked'
  BY <1>6 DEF hvars, vars, OInv, Tracked, OrphanTrackedUnlessHidden,
             PassConsistent, UnmanageTracked, Declares, PendingReconcile
<1>7. Tracked'
  BY <1>1, <1>2, <1>3, <1>4, <1>5, <1>6 DEF HNext, Next, ReconcilerStep
<1>. QED  BY <1>0, <1>7, <1>8 DEF OInv, Tracked

\* For every number of catalogs, charts and names, and whether Get and
\* List read the informer cache or the API server: an
\* ApplicationDefinition labelled with a catalog that no longer declares
\* it has a reconcile of that catalog queued, waiting on a timer or
\* running, unless the catalog's last List came from a cache that did not
\* show it labelled. Catalog deletions and updates during a pass, failed
\* Gets, Lists and label patches, and chart removals lose no orphan; the
\* informer cache is the only way unmanageOrphans misses one (run
\* stale_orphan shows that it does).
THEOREM OrphansTracked == HSpec => []OrphanTrackedUnlessHidden
<1>1. HSpec => []OInv
  BY InitOInv, NextOInv, PTL DEF HSpec
<1>. QED  BY <1>1, PTL DEF OInv
=============================================================================
