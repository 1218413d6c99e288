------------------------- MODULE SynchronizerProofs -------------------------
(***************************************************************************)
(* Proofs about Synchronizer for every value of the constants: the type    *)
(* invariant, and that no step of the system (admission, users, the        *)
(* reconciler's create, patch and label removal) removes a version from an *)
(* ApplicationDefinition that the reconciler's Get returned.               *)
(***************************************************************************)
EXTENDS Synchronizer, TLAPS

-----------------------------------------------------------------------------
(* Lemmas about the data operators.                                        *)

\* A version map is a function from a set of appVersions to chart refs.
LEMMA VersionMapsIntro ==
    ASSUME NEW K \in SUBSET Keys, NEW f \in [K -> ChartRefs]
    PROVE  f \in VersionMaps
BY DEF VersionMaps

LEMMA VersionMapsElim ==
    ASSUME NEW f \in VersionMaps
    PROVE  /\ DOMAIN f \subseteq Keys
           /\ f \in [DOMAIN f -> ChartRefs]
BY DEF VersionMaps

\* mergeVersions of two version lists is a version list that keeps every
\* appVersion of the existing one.
LEMMA MergeVersionsType ==
    ASSUME NEW e \in VersionMaps, NEW d \in VersionMaps
    PROVE  /\ MergeVersions(e, d) \in VersionMaps
           /\ DOMAIN e \subseteq DOMAIN MergeVersions(e, d)
<1>1. /\ DOMAIN e \subseteq Keys /\ e \in [DOMAIN e -> ChartRefs]
      /\ DOMAIN d \subseteq Keys /\ d \in [DOMAIN d -> ChartRefs]
  BY VersionMapsElim
<1>2. MergeVersions(e, d) \in [DOMAIN e \cup DOMAIN d -> ChartRefs]
  BY <1>1 DEF MergeVersions
<1>3. MergeVersions(e, d) \in VersionMaps
  BY <1>1, <1>2, VersionMapsIntro
<1>4. DOMAIN e \subseteq DOMAIN MergeVersions(e, d)
  BY DEF MergeVersions
<1>. QED  BY <1>3, <1>4

\* The webhook turns a well-formed spec into well-formed specs.
LEMMA DefaultingType ==
    ASSUME NEW spec \in CatalogRec
    PROVE  DefaultApplicationCatalog(spec) \subseteq CatalogRec
<1>1. /\ DefaultCharts \subseteq Entries
      /\ ChartsOf(spec) \subseteq Entries
      /\ FilteredDefaults(spec) \subseteq Entries
  BY ConstantsAssumption DEF CatalogRec, ChartsOf, FilteredDefaults
<1>2. ASSUME NEW m \in MergeCharts(ChartsOf(spec), FilteredDefaults(spec))
      PROVE  m \subseteq Entries
  BY <1>1 DEF MergeCharts, OneOfEach
<1>. QED  BY <1>1, <1>2 DEF DefaultApplicationCatalog, CatalogRec

\* convertChartToApplicationDefinition yields an ApplicationDefinition.
LEMMA ConvertType ==
    ASSUME NEW c \in Catalogs, NEW e \in Entries
    PROVE  Convert(c, e) \in ADRec
BY ConstantsAssumption DEF Convert, ADRec, EntryRec, Values

\* The object modify() leaves, and the result of the merge patch, are
\* ApplicationDefinitions.
LEMMA UpdatedType ==
    ASSUME NEW a \in ADRec, NEW d \in ADRec
    PROVE  Updated(a, d) \in ADRec
<1>1. MergeVersions(a.versions, d.versions) \in VersionMaps
  BY MergeVersionsType DEF ADRec
<1>2. PreservedValue(a, d) \in Values
  BY DEF PreservedValue, ADRec
<1>. QED  BY <1>1, <1>2 DEF Updated, ADRec

LEMMA MergePatchType ==
    ASSUME NEW cur \in ADRec, NEW old \in ADRec, NEW new \in ADRec
    PROVE  MergePatch(cur, old, new) \in ADRec
BY DEF MergePatch, ADRec

-----------------------------------------------------------------------------
(* The inductive invariant. Nothing deletes an ApplicationDefinition, and  *)
(* only WriteAD changes versions, so between the Get of reconcile-         *)
(* ApplicationDefinition and its Create or Patch the object read still     *)
(* exists, with the versions read when reads are current, and every orphan *)
(* that List returned still exists when its labels are removed.            *)

\* In the Write phase the chart being written is an entry, and the object
\* that was read is still there; when Get reads the API server, with the
\* versions that were read.
WriteReady ==
    rec.phase = "Write" =>
        /\ rec.cur \in Entries
        /\ rec.snap # Absent => ad[GetAppName(rec.cur)] # Absent
        /\ rec.snap # Absent /\ ~CacheLag =>
              ad[GetAppName(rec.cur)].versions = rec.snap.versions

\* Every name still to unmanage has an ApplicationDefinition.
OrphansExist == \A n \in rec.orphans : ad[n] # Absent

\* generatedApps is nil only in handleDeletion, which converts no chart.
DeletionPass == rec.gen = Nil => rec.todo = {}

\* The informer only holds objects the API server has (nothing deletes
\* ApplicationDefinitions).
CacheBehind == \A n \in Names : cache[n] # Absent => ad[n] # Absent

IInv == TypeOK /\ WriteReady /\ OrphansExist /\ DeletionPass /\ CacheBehind

\* An appName is a name.
LEMMA GetAppNameType ==
    ASSUME NEW e \in Entries
    PROVE  GetAppName(e) \in Names
BY ConstantsAssumption DEF GetAppName, EntryRec

\* The initial states satisfy the invariant.
LEMMA InitIInv == Init => IInv
<1> SUFFICES ASSUME Init PROVE IInv
  OBVIOUS
<1>1. IdleRec \in RecRec
  BY ConstantsAssumption DEF IdleRec, RecRec, Phases
<1>2. TypeOK
  BY <1>1, SynchronizerAssumption DEF Init, TypeOK, ADRec
<1>3. WriteReady /\ OrphansExist /\ DeletionPass /\ CacheBehind
  BY DEF Init, IdleRec, WriteReady, OrphansExist, DeletionPass, CacheBehind
<1>. QED  BY <1>2, <1>3 DEF IInv

\* A step that keeps the reconciler's locals, and keeps every existing
\* ApplicationDefinition with its versions, keeps the two conjuncts about
\* them.
LEMMA KeepIInv ==
    ASSUME IInv, rec' = rec, cache' = cache,
           \A m \in Names : ad[m] # Absent =>
                             /\ ad'[m] # Absent
                             /\ ad'[m].versions = ad[m].versions
    PROVE  WriteReady' /\ OrphansExist' /\ DeletionPass' /\ CacheBehind'
<1>0. DeletionPass' /\ CacheBehind'
  BY DEF IInv, DeletionPass, CacheBehind, TypeOK
<1>1. WriteReady'
  <2>1. SUFFICES ASSUME rec.phase = "Write" PROVE WriteReady'
    BY DEF WriteReady
  <2>2. rec.cur \in Entries
    BY <2>1 DEF IInv, WriteReady
  <2>3. GetAppName(rec.cur) \in Names
    BY <2>2, GetAppNameType
  <2>. QED  BY <2>1, <2>2, <2>3 DEF IInv, WriteReady
<1>2. OrphansExist'
  BY DEF IInv, OrphansExist, TypeOK, RecRec
<1>. QED  BY <1>0, <1>1, <1>2

\* Admission: the persisted spec is a defaulted request.
LEMMA ApplyCatalogIInv ==
    ASSUME IInv, NEW c \in Catalogs, ApplyCatalog(c)
    PROVE  IInv'
<1>0. PICK req \in Requests : \E spec \in DefaultApplicationCatalog(req) :
          catalog' = [catalog EXCEPT ![c] = spec]
  BY DEF ApplyCatalog
<1>1. PICK spec \in DefaultApplicationCatalog(req) :
          catalog' = [catalog EXCEPT ![c] = spec]
  BY <1>0
<1>2. spec \in CatalogRec
  BY <1>1, DefaultingType, SynchronizerAssumption
<1>3. TypeOK'
  BY <1>1, <1>2, SynchronizerAssumption DEF IInv, TypeOK, ApplyCatalog
<1>. QED  BY <1>3, KeepIInv DEF IInv, ApplyCatalog

LEMMA DeleteCatalogIInv ==
    ASSUME IInv, NEW c \in Catalogs, DeleteCatalog(c)
    PROVE  IInv'
<1>1. TypeOK'
  BY SynchronizerAssumption DEF IInv, TypeOK, DeleteCatalog
<1>. QED  BY <1>1, KeepIInv DEF IInv, DeleteCatalog

\* Users: an edit of an existing ApplicationDefinition keeps it, and its
\* versions.
LEMMA EditValuesIInv ==
    ASSUME IInv, NEW n \in Names, EditValues(n)
    PROVE  IInv'
<1>1. PICK v \in UserValues : ad' = [ad EXCEPT ![n].dvb = v]
  BY DEF EditValues
<1>2. ad[n] \in ADRec
  BY DEF EditValues, IInv, TypeOK
<1>3. [ad[n] EXCEPT !.dvb = v] \in ADRec
  BY <1>2 DEF ADRec, Values
<1>4. \A m \in Names : ad[m] # Absent =>
                         /\ ad'[m] # Absent
                         /\ ad'[m].versions = ad[m].versions
  BY <1>1, <1>3, ConstantsAssumption DEF IInv, TypeOK
<1>5. TypeOK'
  BY <1>1, <1>3, SynchronizerAssumption DEF IInv, TypeOK, EditValues
<1>. QED  BY <1>4, <1>5, KeepIInv DEF IInv, EditValues

LEMMA MarkSystemIInv ==
    ASSUME IInv, NEW n \in Names, MarkSystem(n)
    PROVE  IInv'
<1>2. ad[n] \in ADRec
  BY DEF MarkSystem, IInv, TypeOK
<1>3. [ad[n] EXCEPT !.system = TRUE] \in ADRec
  BY <1>2 DEF ADRec
<1>4. \A m \in Names : ad[m] # Absent =>
                         /\ ad'[m] # Absent
                         /\ ad'[m].versions = ad[m].versions
  BY <1>2, <1>3, ConstantsAssumption DEF IInv, TypeOK, MarkSystem, ADRec
<1>5. TypeOK'
  BY <1>3, SynchronizerAssumption DEF IInv, TypeOK, MarkSystem
<1>. QED  BY <1>4, <1>5, KeepIInv DEF IInv, MarkSystem

(* The reconciler.                                                         *)

\* A step that takes the reconciler out of the Write phase with no orphans
\* pending, or leaves its locals alone and keeps ApplicationDefinitions,
\* is covered by one of these two.
LEMMA LeaveWriteIInv ==
    ASSUME IInv, rec'.phase # "Write", rec'.orphans = {},
           rec'.gen # Nil \/ rec'.todo = {}, ad' = ad, cache' = cache
    PROVE  WriteReady' /\ OrphansExist' /\ DeletionPass' /\ CacheBehind'
BY DEF WriteReady, OrphansExist, DeletionPass, IInv, CacheBehind

\* The IdleRec the reconciler returns to is well-formed.
LEMMA IdleRecType == IdleRec \in RecRec
BY ConstantsAssumption DEF IdleRec, RecRec, Phases

LEMMA StartReconcileIInv ==
    ASSUME IInv, NEW c \in Catalogs, StartReconcile(c)
    PROVE  IInv'
<1>0. ad' = ad /\ cache' = cache
  BY DEF StartReconcile
<1>1. CASE catalog[c] = Absent
  <2>1. rec' = [IdleRec EXCEPT !.phase = "Entries", !.cat = c, !.gen = Nil]
    BY <1>1 DEF StartReconcile
  <2>2. rec' \in RecRec
    BY <2>1, IdleRecType DEF RecRec, Phases
  <2>3. TypeOK'
    BY <2>2 DEF StartReconcile, IInv, TypeOK
  <2>. QED  BY <1>0, <2>1, <2>3, LeaveWriteIInv DEF IInv, IdleRec
<1>2. CASE catalog[c] # Absent /\ catalog[c].charts = Nil /\ catalog[c].incl
  <2>1. TypeOK'
    BY <1>2 DEF StartReconcile, IInv, TypeOK
  <2>. QED  BY <1>2, <2>1, KeepIInv DEF IInv, StartReconcile
<1>3. CASE catalog[c] # Absent /\ ~(catalog[c].charts = Nil /\ catalog[c].incl)
  <2>1. rec' = [IdleRec EXCEPT !.phase = "Entries", !.cat = c,
                               !.todo = ChartsOf(catalog[c])]
    BY <1>3 DEF StartReconcile
  <2>2. ChartsOf(catalog[c]) \subseteq Entries
    BY <1>3 DEF IInv, TypeOK, CatalogRec, ChartsOf
  <2>3. rec' \in RecRec
    BY <2>1, <2>2, IdleRecType DEF RecRec, Phases
  <2>4. TypeOK'
    BY <2>3 DEF StartReconcile, IInv, TypeOK
  <2>5. rec'.gen # Nil
    BY <2>1, ConstantsAssumption DEF IdleRec
  <2>. QED  BY <1>0, <2>1, <2>4, <2>5, LeaveWriteIInv DEF IInv, IdleRec
<1>. QED  BY <1>1, <1>2, <1>3

LEMMA GetCatalogFailsIInv ==
    ASSUME IInv, NEW c \in Catalogs, GetCatalogFails(c)
    PROVE  IInv'
<1>1. TypeOK'
  BY SynchronizerAssumption DEF GetCatalogFails, IInv, TypeOK
<1>. QED  BY <1>1, KeepIInv DEF IInv, GetCatalogFails

LEMMA RequeueTimerIInv ==
    ASSUME IInv, NEW c \in Catalogs, RequeueTimer(c)
    PROVE  IInv'
<1>1. TypeOK'
  BY DEF RequeueTimer, IInv, TypeOK
<1>. QED  BY <1>1, KeepIInv DEF IInv, RequeueTimer

LEMMA FinishReconcileIInv ==
    ASSUME IInv, FinishReconcile
    PROVE  IInv'
<1>1. rec.cat \in Catalogs
  BY DEF IInv, TypeOK, RecRec
<1>2. TypeOK'
  BY <1>1, IdleRecType DEF FinishReconcile, IInv, TypeOK
<1>3. ad' = ad /\ cache' = cache /\ rec' = IdleRec
  BY DEF FinishReconcile
<1>. QED  BY <1>2, <1>3, LeaveWriteIInv DEF IInv, IdleRec

\* The Get of one chart's ApplicationDefinition: what it read exists, and
\* is what is there when Get reads the API server.
LEMMA ReadADIInv ==
    ASSUME IInv, ReadAD
    PROVE  IInv'
<1>1. PICK e \in rec.todo :
        \/ /\ rec' = [rec EXCEPT !.phase = "Write", !.todo = rec.todo \ {e},
                                 !.gen = rec.gen \cup {GetAppName(e)}, !.cur = e,
                                 !.snap = View(GetAppName(e))]
           /\ UNCHANGED failures
        \/ /\ failures < MaxFailures
           /\ rec' = [rec EXCEPT !.todo = rec.todo \ {e},
                                 !.gen = rec.gen \cup {GetAppName(e)}, !.errs = TRUE]
           /\ failures' = failures + 1
  BY DEF ReadAD
<1>2. /\ e \in Entries /\ GetAppName(e) \in Names
      /\ rec.phase = "Entries" /\ rec \in RecRec
  BY GetAppNameType DEF IInv, TypeOK, RecRec, ReadAD
<1>3. rec.gen \subseteq Names
  BY <1>2 DEF IInv, DeletionPass, RecRec
<1>4. /\ rec.gen \cup {GetAppName(e)} \in SUBSET Names
      /\ rec.gen \cup {GetAppName(e)} # Nil
  BY <1>2, <1>3, ConstantsAssumption
<1>5. /\ View(GetAppName(e)) \in ADRec \cup {Absent}
      /\ View(GetAppName(e)) # Absent => ad[GetAppName(e)] # Absent
      /\ ~CacheLag => View(GetAppName(e)) = ad[GetAppName(e)]
  BY <1>2 DEF IInv, TypeOK, View, CacheBehind
<1>6. UNCHANGED <<catalog, ad, queue, later, writes, edits, cache>>
  BY DEF ReadAD
<1>9. CacheBehind'
  BY <1>6 DEF IInv, CacheBehind
<1>7. CASE /\ rec' = [rec EXCEPT !.phase = "Write", !.todo = rec.todo \ {e},
                                  !.gen = rec.gen \cup {GetAppName(e)}, !.cur = e,
                                  !.snap = View(GetAppName(e))]
           /\ UNCHANGED failures
  <2>1. rec' \in RecRec
    BY <1>2, <1>4, <1>5, <1>7 DEF RecRec, Phases
  <2>2. TypeOK'
    BY <2>1, <1>6, <1>7 DEF IInv, TypeOK
  <2>3. WriteReady'
    BY <1>2, <1>5, <1>6, <1>7 DEF WriteReady
  <2>4. OrphansExist' /\ DeletionPass'
    BY <1>4, <1>6, <1>7 DEF IInv, OrphansExist, DeletionPass
  <2>. QED  BY <1>9, <2>2, <2>3, <2>4 DEF IInv
<1>8. CASE /\ failures < MaxFailures
           /\ rec' = [rec EXCEPT !.todo = rec.todo \ {e},
                                 !.gen = rec.gen \cup {GetAppName(e)}, !.errs = TRUE]
           /\ failures' = failures + 1
  <2>1. rec' \in RecRec
    BY <1>2, <1>4, <1>8 DEF RecRec
  <2>2. TypeOK'
    BY <2>1, <1>6, <1>8, SynchronizerAssumption DEF IInv, TypeOK
  <2>3. WriteReady'
    BY <1>2, <1>8 DEF WriteReady
  <2>4. OrphansExist' /\ DeletionPass'
    BY <1>4, <1>6, <1>8 DEF IInv, OrphansExist, DeletionPass
  <2>. QED  BY <1>9, <2>2, <2>3, <2>4 DEF IInv
<1>. QED  BY <1>1, <1>7, <1>8

\* Leaving the Write phase back to the chart loop, with every existing
\* ApplicationDefinition still there and ad well-typed, keeps the invariant.
LEMMA BackToEntriesIInv ==
    ASSUME IInv, rec.phase = "Write",
           \/ rec' = [rec EXCEPT !.phase = "Entries"]
           \/ rec' = [rec EXCEPT !.phase = "Entries", !.errs = TRUE],
           ad' \in [Names -> ADRec \cup {Absent}],
           \A m \in Names : ad[m] # Absent => ad'[m] # Absent,
           failures' \in 0..MaxFailures,
           UNCHANGED <<catalog, queue, later, writes, edits, cache>>
    PROVE  IInv'
<1>1. rec' \in RecRec
  BY DEF IInv, TypeOK, RecRec, Phases
<1>2. TypeOK'
  BY <1>1 DEF IInv, TypeOK
<1>0. /\ rec'.phase = "Entries" /\ rec'.gen = rec.gen
      /\ rec'.todo = rec.todo /\ rec'.orphans = rec.orphans
  BY DEF IInv, TypeOK, RecRec
<1>3. WriteReady' /\ DeletionPass'
  BY <1>0 DEF WriteReady, IInv, DeletionPass
<1>4. OrphansExist'
  BY <1>0 DEF IInv, TypeOK, RecRec, OrphansExist
<1>5. CacheBehind'
  BY DEF IInv, CacheBehind
<1>. QED  BY <1>2, <1>3, <1>4, <1>5 DEF IInv

\* Create, skip or patch of one ApplicationDefinition.
LEMMA WriteADIInv ==
    ASSUME IInv, WriteAD
    PROVE  IInv'
<1> DEFINE n == GetAppName(rec.cur)
           desired == Convert(rec.cat, rec.cur)
           s == rec.snap
<1>1. /\ rec.phase = "Write" /\ rec.cur \in Entries /\ n \in Names
      /\ desired \in ADRec /\ s \in ADRec \cup {Absent}
  BY GetAppNameType, ConvertType DEF WriteAD, IInv, WriteReady, TypeOK, RecRec
<1>2. UNCHANGED <<catalog, queue, later, writes, edits, cache>>
  BY DEF WriteAD
<1>3. failures' \in 0..MaxFailures
  BY SynchronizerAssumption DEF WriteAD, IInv, TypeOK
<1>4. CASE s = Absent /\ ad[n] = Absent /\ ad' = [ad EXCEPT ![n] = desired]
           /\ rec' = [rec EXCEPT !.phase = "Entries"]
  BY <1>1, <1>2, <1>3, <1>4, BackToEntriesIInv, ConstantsAssumption DEF IInv, TypeOK
<1>5. CASE UNCHANGED ad
           /\ \/ rec' = [rec EXCEPT !.phase = "Entries"]
              \/ rec' = [rec EXCEPT !.phase = "Entries", !.errs = TRUE]
  BY <1>1, <1>2, <1>3, <1>5, BackToEntriesIInv DEF IInv, TypeOK
<1>6. CASE s # Absent /\ ~IsSystemApplication(s)
           /\ ad' = [ad EXCEPT ![n] = MergePatch(ad[n], s, Updated(s, desired))]
           /\ rec' = [rec EXCEPT !.phase = "Entries"]
  <2>1. ad[n] \in ADRec
    BY <1>1, <1>6 DEF IInv, WriteReady, TypeOK
  <2>2. MergePatch(ad[n], s, Updated(s, desired)) \in ADRec
    BY <1>1, <1>6, <2>1, UpdatedType, MergePatchType
  <2>. QED  BY <1>1, <1>2, <1>3, <1>6, <2>2, BackToEntriesIInv, ConstantsAssumption
            DEF IInv, TypeOK
<1>. QED  BY <1>4, <1>5, <1>6 DEF WriteAD

\* The List of owned ApplicationDefinitions returns existing ones.
LEMMA ListOwnedIInv ==
    ASSUME IInv, ListOwned
    PROVE  IInv'
<1>1. /\ rec.phase = "Entries" /\ rec.todo = {} /\ rec \in RecRec
      /\ UNCHANGED <<catalog, ad, queue, later, writes, edits, cache>>
  BY DEF ListOwned, IInv, TypeOK
<1>4. CacheBehind'
  BY <1>1 DEF IInv, CacheBehind
<1>5. \A n \in Names : View(n) # Absent => ad[n] # Absent
  BY DEF IInv, CacheBehind, View
<1>2. CASE /\ rec' = [rec EXCEPT !.phase = "Unmanage",
                        !.orphans = {n \in Names :
                                       /\ View(n) # Absent
                                       /\ View(n).owner = rec.cat
                                       /\ rec.gen = Nil \/ n \notin rec.gen}]
           /\ UNCHANGED failures
  <2>1. rec' \in RecRec
    BY <1>1, <1>2 DEF RecRec, Phases
  <2>2. TypeOK'
    BY <1>1, <1>2, <2>1 DEF IInv, TypeOK
  <2>3. WriteReady' /\ OrphansExist' /\ DeletionPass'
    BY <1>1, <1>2, <1>5 DEF WriteReady, OrphansExist, DeletionPass
  <2>. QED  BY <1>4, <2>2, <2>3 DEF IInv
<1>3. CASE /\ failures < MaxFailures
           /\ rec' = [rec EXCEPT !.phase = "Unmanage", !.errs = TRUE]
           /\ failures' = failures + 1
  <2>1. rec' \in RecRec
    BY <1>1, <1>3 DEF RecRec, Phases
  <2>2. TypeOK'
    BY <1>1, <1>3, <2>1, SynchronizerAssumption DEF IInv, TypeOK
  <2>3. WriteReady' /\ OrphansExist' /\ DeletionPass'
    BY <1>1, <1>3 DEF IInv, WriteReady, OrphansExist, DeletionPass
  <2>. QED  BY <1>4, <2>2, <2>3 DEF IInv
<1>. QED  BY <1>2, <1>3 DEF ListOwned

\* removeManagedLabels on one orphan: it stays, without the labels.
LEMMA RemoveManagedLabelsIInv ==
    ASSUME IInv, RemoveManagedLabels
    PROVE  IInv'
<1>1. PICK n \in rec.orphans :
        \/ /\ ad' = [ad EXCEPT ![n].owner = NoOwner]
           /\ rec' = [rec EXCEPT !.orphans = rec.orphans \ {n}]
           /\ UNCHANGED failures
        \/ /\ failures < MaxFailures
           /\ rec' = [rec EXCEPT !.orphans = rec.orphans \ {n}, !.errs = TRUE]
           /\ failures' = failures + 1
           /\ UNCHANGED ad
  BY DEF RemoveManagedLabels
<1>2. /\ rec.phase = "Unmanage" /\ rec \in RecRec /\ n \in Names
      /\ ad[n] \in ADRec
      /\ UNCHANGED <<catalog, queue, later, writes, edits, cache>>
  BY DEF RemoveManagedLabels, IInv, TypeOK, RecRec, OrphansExist
<1>3. [ad[n] EXCEPT !.owner = NoOwner] \in ADRec
  BY <1>2 DEF ADRec
<1>4. CASE /\ ad' = [ad EXCEPT ![n].owner = NoOwner]
           /\ rec' = [rec EXCEPT !.orphans = rec.orphans \ {n}]
           /\ UNCHANGED failures
  <2>1. rec' \in RecRec
    BY <1>2, <1>4 DEF RecRec
  <2>2. TypeOK'
    BY <1>2, <1>3, <1>4, <2>1 DEF IInv, TypeOK
  <2>3. \A m \in Names : ad[m] # Absent => ad'[m] # Absent
    BY <1>3, <1>4, ConstantsAssumption DEF IInv, TypeOK
  <2>4. WriteReady' /\ OrphansExist' /\ DeletionPass'
    BY <1>2, <1>4, <2>3 DEF IInv, WriteReady, OrphansExist, DeletionPass, RecRec
  <2>5. CacheBehind'
    BY <1>2, <2>3 DEF IInv, CacheBehind
  <2>. QED  BY <2>2, <2>4, <2>5 DEF IInv
<1>5. CASE /\ failures < MaxFailures
           /\ rec' = [rec EXCEPT !.orphans = rec.orphans \ {n}, !.errs = TRUE]
           /\ failures' = failures + 1
           /\ UNCHANGED ad
  <2>1. rec' \in RecRec
    BY <1>2, <1>5 DEF RecRec
  <2>2. TypeOK'
    BY <1>2, <1>5, <2>1, SynchronizerAssumption DEF IInv, TypeOK
  <2>4. WriteReady' /\ OrphansExist' /\ DeletionPass' /\ CacheBehind'
    BY <1>2, <1>5 DEF IInv, WriteReady, OrphansExist, DeletionPass, RecRec,
                      CacheBehind
  <2>. QED  BY <2>2, <2>4 DEF IInv
<1>. QED  BY <1>1, <1>4, <1>5

\* The informer copies one object from the API server.
LEMMA CacheSyncIInv ==
    ASSUME IInv, NEW n \in Names, CacheSync(n)
    PROVE  IInv'
<1>1. /\ cache' = [cache EXCEPT ![n] = ad[n]]
      /\ UNCHANGED <<catalog, ad, queue, later, rec, writes, edits, failures>>
  BY DEF CacheSync
<1>2. TypeOK'
  BY <1>1 DEF IInv, TypeOK
<1>3. CacheBehind'
  BY <1>1 DEF IInv, TypeOK, CacheBehind
<1>4. WriteReady' /\ OrphansExist' /\ DeletionPass'
  BY <1>1 DEF IInv, WriteReady, OrphansExist, DeletionPass
<1>. QED  BY <1>2, <1>3, <1>4 DEF IInv

-----------------------------------------------------------------------------
(* The invariant and the type theorem.                                     *)

LEMMA NextIInv == IInv /\ [Next]_vars => IInv'
<1> SUFFICES ASSUME IInv, [Next]_vars PROVE IInv'
  OBVIOUS
<1>1. CASE \E c \in Catalogs : ApplyCatalog(c) \/ DeleteCatalog(c)
  BY <1>1, ApplyCatalogIInv, DeleteCatalogIInv
<1>2. CASE \E n \in Names : EditValues(n) \/ MarkSystem(n) \/ CacheSync(n)
  BY <1>2, EditValuesIInv, MarkSystemIInv, CacheSyncIInv
<1>3. CASE \E c \in Catalogs : StartReconcile(c) \/ GetCatalogFails(c) \/ RequeueTimer(c)
  BY <1>3, StartReconcileIInv, GetCatalogFailsIInv, RequeueTimerIInv
<1>4. CASE ReconcilerStep
  BY <1>4, ReadADIInv, WriteADIInv, ListOwnedIInv, RemoveManagedLabelsIInv,
     FinishReconcileIInv DEF ReconcilerStep
<1>5. CASE UNCHANGED vars
  BY <1>5 DEF vars, IInv, TypeOK, WriteReady, OrphansExist, DeletionPass,
             CacheBehind
<1>. QED  BY <1>1, <1>2, <1>3, <1>4, <1>5 DEF Next

\* Every reachable state is well-typed: catalogs, ApplicationDefinitions,
\* the work queue and the reconciler's locals keep their shapes through
\* admission, user edits and every API call of reconcile.
THEOREM TypeCorrect == Spec => []TypeOK
<1>1. Spec => []IInv
  BY InitIInv, NextIInv, PTL DEF Spec
<1>. QED  BY <1>1, PTL DEF IInv

-----------------------------------------------------------------------------
(* Versions are never removed.                                             *)

\* One step keeps every existing ApplicationDefinition and its versions.
KeepsVersions ==
    \A n \in Names :
        ad[n] # Absent =>
            /\ ad'[n] # Absent
            /\ DOMAIN ad[n].versions \subseteq DOMAIN ad'[n].versions

\* A step that removes a version only as the patch of the chart being
\* written, and only versions the object read for it did not have.
LosesOnlyUnread ==
    \A n \in Names :
        ad[n] # Absent =>
            /\ ad'[n] # Absent
            /\ \A k \in DOMAIN ad[n].versions \ DOMAIN ad'[n].versions :
                  /\ rec.phase = "Write" /\ GetAppName(rec.cur) = n
                  /\ rec.snap # Absent /\ k \notin DOMAIN rec.snap.versions

\* The Create or Patch of reconcileApplicationDefinition: the create path
\* only writes a name that had no object, and the patch writes either the
\* current versions or mergeVersions of the versions read, which keeps
\* every one of them; so a version it drops is one the Get did not return.
LEMMA WriteADLosses ==
    ASSUME IInv, WriteAD
    PROVE  LosesOnlyUnread
<1> DEFINE n == GetAppName(rec.cur)
           desired == Convert(rec.cat, rec.cur)
           s == rec.snap
<1>1. /\ rec.phase = "Write" /\ rec.cur \in Entries /\ n \in Names
      /\ desired \in ADRec /\ s \in ADRec \cup {Absent}
      /\ ad \in [Names -> ADRec \cup {Absent}]
  BY GetAppNameType, ConvertType DEF WriteAD, IInv, WriteReady, TypeOK, RecRec
<1>2. CASE s = Absent /\ ad[n] = Absent /\ ad' = [ad EXCEPT ![n] = desired]
  BY <1>1, <1>2 DEF LosesOnlyUnread
<1>3. CASE UNCHANGED ad
  BY <1>3 DEF LosesOnlyUnread
<1>4. CASE s # Absent /\ ~IsSystemApplication(s)
           /\ ad' = [ad EXCEPT ![n] = MergePatch(ad[n], s, Updated(s, desired))]
  <2> DEFINE new == MergePatch(ad[n], s, Updated(s, desired))
  <2>1. ad[n] \in ADRec /\ s \in ADRec
    BY <1>1, <1>4 DEF IInv, WriteReady
  <2>2. Updated(s, desired).versions = MergeVersions(s.versions, desired.versions)
    BY <2>1 DEF Updated, ADRec
  <2>3. DOMAIN s.versions \subseteq DOMAIN MergeVersions(s.versions, desired.versions)
    BY <1>1, <2>1, MergeVersionsType DEF ADRec
  <2>4. new.versions \in {ad[n].versions, Updated(s, desired).versions}
    BY DEF MergePatch
  <2>5. \A k \in DOMAIN ad[n].versions \ DOMAIN new.versions :
          k \notin DOMAIN s.versions
    BY <2>2, <2>3, <2>4
  <2>6. new \in ADRec
    BY <1>1, <2>1, UpdatedType, MergePatchType
  <2>. QED  BY <1>1, <1>4, <2>5, <2>6, ConstantsAssumption DEF LosesOnlyUnread
<1>. QED  BY <1>2, <1>3, <1>4 DEF WriteAD

\* Rewriting one existing object with a record of the same versions.
LEMMA RewriteKeepsVersions ==
    ASSUME NEW n \in Names, ad \in [Names -> ADRec \cup {Absent}],
           ad[n] \in ADRec, NEW r \in ADRec, r.versions = ad[n].versions,
           ad' = [ad EXCEPT ![n] = r]
    PROVE  KeepsVersions
BY ConstantsAssumption DEF KeepsVersions

\* No other step touches the versions of an existing object.
LEMMA NextKeeps == IInv /\ [Next]_vars /\ ~WriteAD => KeepsVersions
<1> SUFFICES ASSUME IInv, [Next]_vars, ~WriteAD PROVE KeepsVersions
  OBVIOUS
<1>1. CASE \E n \in Names : EditValues(n)
  <2>1. PICK n \in Names : EditValues(n)
    BY <1>1
  <2>2. PICK v \in UserValues : ad' = [ad EXCEPT ![n].dvb = v]
    BY <2>1 DEF EditValues
  <2>3. ad[n] \in ADRec
    BY <2>1 DEF EditValues, IInv, TypeOK
  <2>4. /\ [ad[n] EXCEPT !.dvb = v] \in ADRec
        /\ [ad[n] EXCEPT !.dvb = v].versions = ad[n].versions
        /\ ad' = [ad EXCEPT ![n] = [ad[n] EXCEPT !.dvb = v]]
    BY <2>2, <2>3 DEF ADRec, Values
  <2>. QED  BY <2>3, <2>4, RewriteKeepsVersions DEF IInv, TypeOK
<1>2. CASE \E n \in Names : MarkSystem(n)
  <2>1. PICK n \in Names : MarkSystem(n)
    BY <1>2
  <2>2. ad[n] \in ADRec
    BY <2>1 DEF MarkSystem, IInv, TypeOK
  <2>. QED  BY <2>1, <2>2, RewriteKeepsVersions DEF MarkSystem, IInv, TypeOK, ADRec
<1>3. CASE RemoveManagedLabels
  <2>1. PICK n \in rec.orphans :
          ad' = [ad EXCEPT ![n].owner = NoOwner] \/ UNCHANGED ad
    BY <1>3 DEF RemoveManagedLabels
  <2>2. n \in Names /\ ad[n] \in ADRec
    BY <2>1 DEF IInv, TypeOK, RecRec, OrphansExist
  <2>. QED  BY <2>1, <2>2, RewriteKeepsVersions DEF IInv, TypeOK, ADRec, KeepsVersions
<1>4. CASE WriteAD
  BY <1>4
<1>5. CASE UNCHANGED ad
  BY <1>5 DEF KeepsVersions
<1>6. CASE \E c \in Catalogs : \/ ApplyCatalog(c) \/ DeleteCatalog(c)
                               \/ StartReconcile(c) \/ GetCatalogFails(c)
                               \/ RequeueTimer(c)
  <2>1. UNCHANGED ad
    BY <1>6 DEF ApplyCatalog, DeleteCatalog, StartReconcile, GetCatalogFails,
                RequeueTimer
  <2>. QED  BY <2>1, <1>5
<1>7. CASE ReadAD \/ ListOwned \/ FinishReconcile
  <2>1. UNCHANGED ad
    BY <1>7 DEF ReadAD, ListOwned, FinishReconcile
  <2>. QED  BY <2>1, <1>5
<1>8. CASE \E n \in Names : CacheSync(n)
  <2>1. UNCHANGED ad
    BY <1>8 DEF CacheSync
  <2>. QED  BY <2>1, <1>5
<1>. QED
  BY <1>1, <1>2, <1>3, <1>4, <1>5, <1>6, <1>7, <1>8 DEF Next, ReconcilerStep, vars

\* Every step either keeps every version or is the write of one chart.
LEMMA NextVersions == IInv /\ [Next]_vars => LosesOnlyUnread
<1> SUFFICES ASSUME IInv, [Next]_vars PROVE LosesOnlyUnread
  OBVIOUS
<1>1. CASE WriteAD
  BY <1>1, WriteADLosses
<1>2. CASE ~WriteAD
  BY <1>2, NextKeeps DEF KeepsVersions, LosesOnlyUnread
<1>. QED  BY <1>1, <1>2

\* For every instance, whether Get reads the informer cache or the API
\* server: a version disappears from an ApplicationDefinition only in the
\* merge patch of a pass whose Get returned an object without it.
\* mergeVersions keeps the versions a catalog stopped declaring, admission,
\* users and label removal leave versions alone, and the merge patch
\* replaces the list with mergeVersions of the list read; a stale cached
\* Get is the only way a version is lost (run stale_versions shows that it
\* is).
THEOREM VersionLossNeedsStaleRead == Spec => VersionsLostOnlyToStaleReads
<1>1. Spec => []IInv
  BY InitIInv, NextIInv, PTL DEF Spec
<1>2. IInv /\ [Next]_vars => [LosesOnlyUnread]_ad
  BY NextVersions
<1>. QED  BY <1>1, <1>2, PTL DEF Spec, VersionsLostOnlyToStaleReads, LosesOnlyUnread
=============================================================================
