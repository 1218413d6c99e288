# TLA+ models of the application catalog manager

This directory holds TLA+ specifications of the application catalog manager:
- models of the synchronizer controller and of the two admission webhooks in front of it;
- TLC configurations that model-check them on small instances;
- TLAPS proofs of the properties that hold for every size of the system.

`PROJECT.json` lists the components, the runs, the mutants, and the mapping from
every definition to the source lines it models. It also lists the findings and
the hazards.

## The system

An `ApplicationCatalog` (cluster-scoped CRD, `pkg/apis/applicationcatalog/v1alpha1`)
declares Helm charts. The manager keeps one KKP `ApplicationDefinition` per
chart identity (`ChartConfig.GetAppName`: `metadata.appName` or the chart name).
Three actors change state.

* **Admission.** Every CREATE and UPDATE of a catalog first passes the mutating
  webhook (`unnamed/part_008`), which calls `DefaultApplicationCatalog`. That
  function injects and merges the built-in charts. It then passes the validating
  webhook (`internal/pkg/admission/.../validation/validation.go`), which denies:
  - an invalid include annotation;
  - two charts that resolve to the same appName;
  - an appName whose existing managed ApplicationDefinition is labelled with
    another catalog's name.

  A DELETE is allowed unchanged.
* **The synchronizer** (`internal/controllers/synchronizer`, set up in
  `unnamed/part_010`). It is a controller-runtime reconciler that watches catalogs
  only, with the default single worker. For each queued catalog name, it Gets the
  catalog. Then it does one of three things:
  - *NotFound*: it unmanages every ApplicationDefinition labelled with that
    catalog name (`handleDeletion`).
  - *nil charts with `includeDefaults`*: it requeues after 10s.
  - *otherwise*: for each chart, it converts the chart, Gets the ApplicationDefinition
    of that name, and then either creates it, skips it (if the
    `apps.kubermatic.k8c.io/managed-by` label marks a system application), or
    merge-patches it (`updateApplicationDefinition`). The patch:
    - ensures the catalog labels;
    - keeps a non-empty `defaultValuesBlock`;
    - merges versions by appVersion, never removing one, and sorts them.

    Finally it Lists the ApplicationDefinitions labelled with the catalog and
    removes both labels from those it did not generate (`unmanageOrphans`).

  Errors are collected and returned, which gives a requeue with backoff. A
  successful pass requeues after `ReconciliationInterval` when that is positive.
  Patches go through `kubernetes.PatchObject` (`unnamed/part_009`): `MergeFrom`,
  with no resourceVersion.
* **Cluster admins and KKP** edit ApplicationDefinitions: they customise
  `defaultValuesBlock` and label system applications. An edit of an
  ApplicationDefinition enqueues nothing.

## Modules

| module | models | state / actions |
|---|---|---|
| `CatalogTypes` | the API types, `GetAppName`, `GetHelmCharts`, the fields of an ApplicationDefinition the synchronizer writes | data only |
| `Defaulting` | `DefaultApplicationCatalog` (spec-modelled: the package is not among the sources; spec section 4.3) | a set of possible defaulted specs |
| `Validation` | `handleValidation`, `detectConflicts` | a verdict `Allowed(c, spec, ad)` |
| `Synchronizer` | the reconciler, admission as one step per request, users | see below |
| `MCSynchronizer` | the instance TLC checks | constants |
| `OrphanHistory` | `Synchronizer` plus a history variable `missed`: per catalog, the labelled objects its last `List` did not see in the cache | `HSpec`; `missed` changes only on `ListOwned` |
| `MCOrphanHistory` | the instance TLC checks with the history variable | constants |
| `SynchronizerProofs` | TLAPS proofs about `Synchronizer` | theorems |
| `OrphanProofs` | TLAPS proof of `OrphanTrackedUnlessHidden` under `HSpec`, with its inductive strengthening | theorem |
| `Resolver` | `RepositorySettings`, `RepositoryCredentials`, `GetGlobalRepositorySettings`, `ResolveChartURL`, `ResolveChartCredentials`, `convertCredentials`, and the spec's layered resolution (section 4.1) as a reference | data only |
| `ResolverProofs` | TLAPS proof that the code's resolution equals the reference | theorem |
| `VersionLists` | `convertVersions`, Create, `mergeVersions` and `sort.Slice` over sequences of versions, with catalog edits between passes | `helm`, `chart`, `adv` (the versions list), `edits` |
| `VersionMap` | the abstract specification of the versions list: a map from appVersion to source plus "sorted" | `Declare`, `Create`, `Update` |
| `VersionMapProofs` | TLAPS lemmas that `VersionMap` keeps every key | lemmas |
| `VersionListsProofs` | TLAPS proofs about `VersionLists`: unique keys, declared versions current, refinement of `VersionMap`, and every appVersion kept | theorems |
| `MCVersionLists` | the instance TLC checks | constants |

### `Synchronizer`: state

| variable | holds |
|---|---|
| `catalog` | each catalog name → persisted (defaulted) spec, or `Absent` |
| `ad` | each name → ApplicationDefinition (owner label, system label, `defaultValuesBlock`, versions as appVersion → chart reference, and whether they are sorted), or `Absent` |
| `queue`, `later` | the work queue, and the names waiting on RequeueAfter or backoff |
| `cache` | the informer cache's copy of each ApplicationDefinition (equal to `ad` when `CacheLag` is FALSE) |
| `rec` | the locals of the pass in progress: `catalog`, charts left, `generatedApps` (Nil in `handleDeletion`), the chart being written with the object `Get` returned, the orphans left, and whether an error was collected |

### `Synchronizer`: actions

Each API call of the reconciler is one action, so users and admission
interleave between a Get and the Patch built from it. The actions are:
- `StartReconcile` (queue pop and catalog Get, with its three outcomes);
- `GetCatalogFails`;
- `ReadAD` (convert plus Get, or a failed Get);
- `WriteAD` (Create, skip of a system application, merge patch, or a failed write);
- `ListOwned` (or a failed List);
- `RemoveManagedLabels` (or a failed patch);
- `FinishReconcile` (return: backoff on error, periodic requeue);
- `RequeueTimer`.

`CacheSync(n)` copies `ad[n]` into the cache. The reconciler's client is
`mgr.GetClient()` (`unnamed/part_010:77`), so `Get` and `List` read
`View(n)`: the cache when `CacheLag` is TRUE, the API server otherwise.
The cache may lag by any number of writes, and it never holds an object the
server does not (nothing deletes ApplicationDefinitions). Writes go to the
server. A `Create` of an object the cache does not show yet fails with
AlreadyExists, which is an error of the pass.

`ApplyCatalog` is defaulting, then validation against the current
ApplicationDefinitions, then persist and enqueue. `DeleteCatalog` deletes and
enqueues. `EditValues` and `MarkSystem` are the users' edits.

The data is abstracted as follows:
- A version's chart version, URL and credentials are one opaque chart reference.
  `ResolveChartURL`, `ResolveChartCredentials` and the list structure are
  modelled separately, in `Resolver` and `VersionLists`.
- The order of a version list is kept only as "sorted by key or not".
- Display metadata, annotations, `enforced`, `default` and `selector` are left
  out. The converter never sets the last three, and no property reads any of
  them.

The merge patch is `MergePatch(cur, old, new)`: each field modify() changed
takes the new value, and every other field keeps the server's current value.
The versions list is one JSON field.

## Runs

The `Synchronizer` runs use `MCSynchronizer`. Its instance has:
- catalogs c1 and c2;
- names n1, n2 and n3;
- appVersions k1 and k2.

The chart entries are:
- a default for n1 that lists its versions out of key order;
- a default for n2 with values `{}`;
- a user chart n1 with its own values;
- a chart n3 whose appName is n1.

The clients send seven requests:
- a legacy nil catalog;
- a custom-only catalog;
- an empty catalog;
- `includeDefaults` with the alias;
- an include filter naming n2;
- a filter naming an unknown chart, which is denied;
- a catalog with a duplicate appName, which is denied.

Two catalogs are stored as if the mutating webhook had been bypassed:
- one with `includeDefaults` and nil charts;
- one with nil charts alone.

n2 exists, unmanaged and customised, before any catalog (takeover).

Bounds:
- `MaxWrites` catalog writes: 3 in safety, 2 in liveness;
- `MaxEdits` user edits: 1 in safety, 0 in liveness;
- `MaxFailures` failed API calls: 1.

They allow a catalog to be created, changed or deleted while another is
reconciled, and an edit or a failure at any point of a pass. Every action and
every disjunct of `Next` fires in the safety run. With the bounds spent and
no periodic requeue the controller stops, as the real one does once its queue
is empty and no event arrives. So the runs set `CHECK_DEADLOCK FALSE`.

| run | cfg | result | what it shows |
|---|---|---|---|
| safety | `MCSyncSafety.cfg` | pass (3.7M states) | `OrphanTracked`: an ApplicationDefinition labelled with a catalog that no longer declares it always has a reconcile of that catalog pending. This holds under deletions during a pass, failed List or label removal, and chart removal. `VersionsNeverRemoved`: no step removes a version. |
| cached_safety | `MCSyncCachedSafety.cfg` | pass (7.0M states) | The safety question with `CacheLag` (MaxWrites 3, MaxEdits 0, MaxFailures 1), over `HSpec`. `OrphanTrackedUnlessHidden`: an orphan is still tracked by a pending reconcile unless the last `List` of its catalog was answered by a cache that did not show its label; nothing else (races, failed calls, error aggregation) loses one. `VersionsLostOnlyToStaleReads`: a version disappears only in the merge patch of a pass whose `Get` returned an object without it. TLC reaches states where both the cache miss and the version loss occur. |
| liveness | `MCSyncLive.cfg` | pass | `OrphansEventuallyReleased`: the ApplicationDefinitions of a deleted catalog are eventually unmanaged. |
| steal | `MCSyncSteal.cfg` | violation | `OwnershipNeverStolen` fails. c1 and c2 are both admitted with n1 before either is reconciled. c2 creates n1, then c1's pass patches the owner label to c1 while c2 still declares n1. |
| lost_update | `MCSyncLostUpdate.cfg` | violation | `UserValuesPreserved` fails. The reconciler Gets n1, an admin sets `defaultValuesBlock`, and the merge patch (built from the stale read) writes the catalog's value over it. |
| fixed_point | `MCSyncFixedPoint.cfg` | violation | `WriteIsIdempotent` fails. n1 is created with its versions in chart order. The next pass over the unchanged catalog patches it to sort them. |
| system_patched | `MCSyncSystemPatched.cfg` | violation | `SystemAppsUntouched` fails. The reconciler Gets n2, KKP labels it as a system application, and the merge patch still writes the owner label and versions. |
| stale_versions | `MCSyncStaleVersions.cfg` | violation | `VersionsNeverRemoved` fails with `CacheLag`. A pass patches n1 to {k1,k2}; the next pass reads the cached {k1} and its patch drops k2. |
| stale_orphan | `MCSyncStaleOrphan.cfg` | violation | `OrphansEventuallyReleased` fails with `CacheLag` and no periodic requeue. c1 labels an ApplicationDefinition, either by creating n1 or by taking over the unmanaged n2 with a patch (TLC reports either trace). c1 is then deleted, and `handleDeletion` Lists from a cache that has not yet seen that label. Nothing enqueues c1 again. |
| cached_liveness | `MCSyncCachedLive.cfg` | pass (232k states) | `OrphansEventuallyReleased` holds with `CacheLag` when `ReconciliationInterval` is positive: the periodic pass lists again after the cache caught up. |

Each no-cache question is asked again with the cache: safety by
cached_safety, liveness by cached_liveness; stale_versions and stale_orphan
show what the cache costs when the properties are stated without it.

The cache runs use `MaxFailures` 0 or 1 and `MaxEdits` 0 to stay within
five minutes; the lag itself needs no bound, since `CacheSync` only copies
server state. `FairSpec` also gives `CacheSync` weak fairness: the informer
eventually delivers every event.

`MCVersionLists` runs `VersionLists` with one chart, two appVersions (1 and
2), two chart versions, base URLs u1 and u2, and two credentials built from one
secret. At every level there is a choice with a base URL and, at chart and
version level, one with credentials but an empty base URL: a level that
lends its credentials to another level's URL shows up. The catalog's settings
are nil or u1; the chart's are nil, u2 without credentials, or credentials
without a URL. The version lists include one out of appVersion order and one
where appVersion 1 has its own repository. `MaxEdits` is 5, enough to change
each layer and the list between writes.

| run | cfg | result | what it shows |
|---|---|---|---|
| version_lists | `MCVersionsUnique.cfg` | pass (2,158 states) | `NoDuplicateVersions`; `DeclaredVersionsCurrent`: after each write, every declared version is stored with the URL and credentials of its first layer with a base URL; `AbstractSpec`: the list-level writes implement `VersionMap` under the mapping `AsMap`/`InOrder`. |
| duplicate_versions | `MCVersionsDuplicate.cfg` | violation | `NoDuplicateVersions` fails when a chart lists an appVersion twice: Create copies the list. |

Each property of a passing run has a mutant in `PROJECT.json` that TLC must
find violated:
- `FinishReconcileDropsErrors`, which drops the aggregated error, breaks
  `OrphanTracked`, `OrphansEventuallyReleased` and, under the cache,
  `OrphanTrackedUnlessHidden`;
- `MergeVersionsReplace`, which replaces the list instead of merging it, breaks
  `VersionsNeverRemoved` and, under the cache, `VersionsLostOnlyToStaleReads`
  (the patch then drops versions the read had), and in `VersionLists` breaks
  `AbstractSpec`;
- `FinishReconcileNoInterval`, which drops the periodic requeue, breaks
  `OrphansEventuallyReleased` under the cache;
- `MergeVersionsNoContinue`, a merge loop without its `continue`, breaks
  `NoDuplicateVersions`;
- `ResolveChartCredentialsAnySettings`, which tests settings presence instead
  of a non-empty base URL, breaks `DeclaredVersionsCurrent`.

### Fairness

`FairSpec` assumes:
- strong fairness of `StartReconcile` per name: the work queue hands out every
  queued name;
- weak fairness of the worker's API calls (`ReconcilerStep`): a call returns,
  with success or an error;
- weak fairness of `RequeueTimer`: RequeueAfter and backoff delays expire.

Clients and users get no fairness. Failures are bounded by `MaxFailures`,
which stands for the eventual success of a retried call.

## Findings

1. **Lost update of a customised `defaultValuesBlock`** (`unnamed/part_009:35`,
   `reconciler.go:158`). The spec (section 5) says downstream patches use optimistic concurrency
   with conflict retry, and section 4 says a non-empty `defaultValuesBlock`
   is preserved. `PatchObject` sends a merge patch without resourceVersion,
   so an edit between the Get and the Patch is overwritten.
2. **Admission-lag double claim** (`validation.go:150-184`,
   `reconciler.go:159`). The spec says a conflict that slips past admission is
   caught or self-corrected by the next pass. Instead, `EnsureLabels`
   relabels the object for whichever catalog reconciles last, and with periodic
   requeues the two catalogs keep taking it from each other.
3. **First pass after a create is not a fixed point** (`reconciler.go:124`,
   `converter.go:74-97`, `reconciler.go:182-185`). Create keeps the chart's
   version order and update sorts. This contradicts the spec's idempotence
   (section 8).
4. **Versions dropped by a stale read** (`reconciler.go:124`). The Get reads
   the informer cache, and the patch sends the whole versions list built from
   it. Versions added by the previous pass and not yet cached are removed,
   against the spec's "never removed" (section 4).
5. **Deleted catalog leaves a stale label** (`reconciler.go:204`). With
   `ReconciliationInterval` 0, `handleDeletion` Lists from the cache once. An
   ApplicationDefinition the cache does not show yet is never unmanaged,
   although the spec says deletion unmanages every labelled resource.
6. **System application patched** (`reconciler.go:133`, `unnamed/part_009:35`).
   The system check runs on the read object, and the patch has no
   resourceVersion. The spec says externally managed resources are never
   touched.
7. **Duplicate appVersions** (`reconciler.go:256`, a gap in the spec). No
   layer rejects a chart that lists an appVersion twice, and Create and
   `mergeVersions` then store the version twice.

## Proofs

`SynchronizerProofs` (EXTENDS `Synchronizer`, `TLAPS`) proves, for every value
of the constants satisfying `ConstantsAssumption`, `DefaultsAssumption` and
`SynchronizerAssumption`:

* `TypeCorrect`: `Spec => []TypeOK`.
* `VersionLossNeedsStaleRead`: `Spec => VersionsLostOnlyToStaleReads`, the
  action property the cached_safety run checks, with or without a lagging
  cache. A step removes a version from an ApplicationDefinition only when it
  is the merge patch of a pass whose `Get` returned an object without that
  version. Without `CacheLag`, `Get` reads the server and such a step cannot
  happen, which is what the safety run's `VersionsNeverRemoved` checks; with
  it, the stale_versions run shows the loss is real.

Neither follows from `TypeOK` alone. The inductive invariant `IInv` adds:
- `WriteReady`: in the Write phase, the object `Get` returned still exists.
  Nothing deletes ApplicationDefinitions.
- `CacheBehind`: every object the cache holds exists on the server, so a
  cached read of an object implies the object exists.
- `OrphansExist`: every name `List` returned still exists.
- `DeletionPass`: `generatedApps` is nil only in a pass with no charts.

With `WriteReady`, the merge patch applies to an existing object. Its versions
are `mergeVersions` of the versions `Get` returned, so they keep every key of
that read (lemma `MergeVersionsType`); a key of the server's object is lost
only when the read lacked it (lemma `WriteADLosses`). Every other action
leaves versions alone (`NextKeeps`). There is one lemma per action for
`IInv`; the step lemmas are `NextIInv` and `NextVersions`.

`ResolverProofs` proves `PrecedenceResolved`: `ResolvesByPrecedence`, for
every spec.helm (nil or not) and every chart and version settings, under
`ResolverAssumption` (the nil sentinels are distinct from real values). The
proof splits on which of the three layers is the first with a base URL. A
lemma computes `FirstLayer` in each case, and each case then expands the
two resolvers. TLC does not check this formula: it quantifies over every
settings record, and the proof covers all of them.

`OrphanProofs` (EXTENDS `SynchronizerProofs`, `OrphanHistory`) proves
`OrphansTracked`: `HSpec => []OrphanTrackedUnlessHidden`, the invariant the
cached_safety run checks, with or without a lagging cache. `HSpec` is `Spec`
with the history variable `missed`, which no action of the system reads, so
it constrains the same behaviours. The theorem says the cache is the only
way a pass ends with an orphan it has not unlabelled and no reconcile
pending: the orphan is among the objects the last `List` of its catalog did
not see (the stale_orphan run shows that case happens and is never
repaired without a periodic requeue). The invariant is not inductive on its
own. A pass can end (`FinishReconcile`) while an object labelled with its
catalog is not declared. Nothing in the invariant says that the pass has
already removed that label. The strengthening `OInv` is `IInv` plus:
- `MissedType`: `missed` maps catalogs to sets of names.
- `PassConsistent`: while a pass runs, after it has read its catalog
  (`rec.gen # Nil`), and while that catalog has not been re-queued, the
  catalog still exists, and the charts still to
  write and the names written so far are the catalog's own. Any update or
  deletion of the catalog re-queues it.
- `UnmanageTracked`: in the unmanage phase of a pass with no error, whose
  catalog has not been re-queued, every object labelled with the catalog
  and not declared by it is among the names `List` returned and not yet
  unlabelled, or in `missed` of the catalog. `ListOwned` sets `missed` to
  exactly the labelled objects the cache hid, which makes this hold.

TLC checked `OInv` as an invariant of the cached_safety instance (7.0M states)
before it was proved. There is one lemma per action, each proving the three
conjuncts, and three generic lemmas:
- catalog events: a step that only enqueues a changed catalog;
- owner-preserving edits;
- queue moves.

The key step is `FinishReconcile`. A labelled, undeclared object whose
catalog is neither queued nor waiting would contradict `UnmanageTracked`
with no names left to unlabel.

`VersionMapProofs` proves the lemma `AbstractKeysKept`: `VersionMap!Spec => KeysKept`.
Once an ApplicationDefinition exists, no step drops an appVersion or unsorts
its list. Create only applies to an absent object, and Update's
`MergeMaps` has the union of both domains (lemma `MergeKeepsKeys`). The proof
needs no invariant.

`VersionListsProofs` proves four theorems about `VersionLists`. Each
assumes `UniqueLists`: every chartVersions list the chart takes names each
appVersion once. `MCUniqueLists` satisfies it, and the duplicate_versions
run shows that without it `NoDuplicateVersions` fails.
- `VersionsUnique`: `Spec => []NoDuplicateVersions`. The invariant
  `VInv` is `TypeOK /\ NoDuplicateVersions`.
- `DeclaredCurrent`: `Spec => DeclaredVersionsCurrent`, from `VInv` and
  the step lemma `NextDeclared`.
- `Refinement`: `Spec => AbstractSpec`. `VersionLists` implements
  `VersionMap` under the mapping `AsMap`/`InOrder`:
  - `InitRefines`: an initial state maps to an initial state;
  - `NextRefines`: a catalog update is `Declare`, the first write
    `Create`, and every later write `Update`;
  - `UpdateRefines`: the map of the written list is `MergeMaps` of the old
    map and the declared one, and the list is strictly sorted;
  - `AbsentAssumption` (Absent is neither a list nor a map) separates
    Create from Update.

`ListVersionsKept`: `Spec => Abstract!KeysKept` under `UniqueLists`. It
combines `Refinement` with `AbstractKeysKept`, taken through an instance
`AbstractProofs` of `VersionMapProofs` under the same refinement mapping:
for every list length, the list-level writes (`convertVersions`,
`mergeVersions`, the sort) never drop an appVersion of an existing
ApplicationDefinition and keep its list sorted.

The lemmas these rest on:
- `ConvertFacts`: convertVersions gives each declared version, well-typed,
  with the source `SpecSource` of the specification's resolver. It uses
  `PrecedenceResolved` on the settings-only view `Lay` of chart and version.
- `MergeFacts`: mergeVersions of lists with unique keys has:
  - unique keys;
  - the union of both key sets;
  - every desired version;
  - existing entries only where no desired version has their key.
- `SortFacts`: every result of the unstable sort is a reordering sorted by
  key.

`MergeVersions` is the code's loop: a recursive function over the desired
list (`MergeStep` overwrites at the key's index, or appends).
`MergeLoopUnfold` unfolds it through `FiniteNatInductiveDef` of
`NaturalsInduction`. The facts about every iteration form the loop
invariant `LoopInv`, with `StepOverwrites` and `StepAppends` as its step.
They are proved by least counterexample (`NatMin`, from `WFMin` and
`NatLessThanWellFounded` of `WellFoundedInduction`), so no induction rule
with an operator parameter is needed.

The following stays with TLC:
- liveness (`OrphansEventuallyReleased`) and anything using ENABLED, which the
  prover cannot check;
- the properties of the violation runs, which are false by design;
- `VersionLists` with duplicate appVersions, where the properties fail.

## Not modelled

- The manager and webhook `main` wiring, flags, leader election (taken as one
  active reconciler) and logging.
- `GetCredentialFromSecret`.
- The `pkg/charts` re-exports.
- Scripts, the Makefile, docs and the e2e tests.
- Display metadata of ApplicationDefinitions.
- The catalog `Get` reads the current catalog, not a cached copy; a stale
  catalog read is the same as a reconcile that ran before the last update.
- The log line in `handleMutation`.

## Plan for the next sittings

1. **Ownership refinement.** An abstract spec where each name is owned by at
   most one declaring catalog, and the detailed spec shown to refine it where
   admission is serialized.
2. **Legacy nil-charts catalogs** (`reconciler.go:77`): a property for what
   happens to the ApplicationDefinitions of a catalog stored with
   `includeDefaults` and nil charts.
