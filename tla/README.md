# Verification of kube-deploy

TLA+ models of the kube-deploy operator, model-checked with TLC and proved with
TLAPS. The operator watches two custom resources: an `App` is built from a git
branch and deployed, a `ContainerApp` is deployed from an image that exists.
Everything below refers to `src/`, the operator's repository; file names without
a directory are in `src/controllers/`.

## 1. Inventory

| Component | Code | State it keeps | Operations |
|---|---|---|---|
| Build loop of the App reconciler | `reconciler.go`, `buildkit.go` | `AppStatus` on the API server: phase, commit, image, pendingCommit | poll the branch, queue or promote a commit, create the build Job, report, deploy, sweep old Jobs |
| Build Job | `buildkit_job.go`, `dockerfile.go` | stage of the Job, tree cloned by its pod, image in the registry | clone the branch, push the tag; at most two pods |
| Git polling | `git.go` | none | `getLatestCommit` |
| Upsert of the Deployment | `upsert.go` | pod template of the Deployment | skip, create, update |
| Finalizer and cleanup of an App | `reconciler.go`, `registry_cleanup.go`, `resources.go`, `serviceaccount.go` | finalizer and deletionTimestamp of the App | add the finalizer, clean up, release |
| ContainerApp reconciler | `containerapp_reconciler.go`, `cleanup.go` | the same, of the ContainerApp; its status | the same, without a build |
| Runtime objects | `runtime.go` and the `Ensure*` functions | Service, Ingress, HTTPRoute, RBAC objects, claims, HPA, raw resources | create if missing, remove if disabled, update if changed |
| API types and CRDs | `api/v1alpha1/types.go` | spec and status | deep copy, defaults |
| Operator process | `main.go` | informer caches, workqueues | start, restart; no leader election |
| Dockerfile text, helpers, chart, docs | `dockerfile.go`, `utils.go`, `chart/`, `docs/` | none | text only; not modelled |

**How they interact.** Components never call each other across processes: they
meet on the API server. A reconcile call *reads* through informer caches of
controller-runtime (`mgr.GetClient()`, `main.go:59`), which trail the server and
of which each kind has its own, and *writes* to the server, which refuses an
update made from an old resourceVersion, a create of what exists and a delete of
what does not. Raw resources, HTTPRoutes to be deleted, the registry and git are
not cached. Each call is one step of a long protocol; between any two of its API
calls the world may move, and after any of them the process may die.

**What is hard.** Decisions taken on stale copies (the status, the list of Jobs,
the App itself); the order in which a cache lists Jobs; errors that are only
logged; a status write that is lost although what it records has happened; pods
that outlive their Jobs; two operators during a rolling update; cleanup that
sees only what its cache and the present spec show it. `PROJECT.json` lists each
such hazard at its line with the property that watches it, or why none does yet.

**What makes each component correct.**

- Build loop: what is deployed was pushed; a Ready status can be trusted; the
  App comes to rest on the head of its branch; the status is not written for
  ever.
- Build Job: a tag holds the source of its commit or of a later one.
- Upsert: the Deployment follows, whatever is refused or lost.
- Finalizer and cleanup: nothing is created that cleanup will not visit; what
  stays behind has a known reason; deletion ends; nobody else's objects go.
- Runtime objects: a living App converges to its spec, whatever its edits; an
  object is never a mix of two specs, nor taken back to an older one.
- ContainerApp status: what is recorded is about the present spec, and it ends
  Ready.

## 2. Modules

| Module | Role |
|---|---|
| `BuildController` | one App that is not being deleted: git head, build Jobs and pods, registry, status, Deployment, caches, the reconcile calls of any number of operators |
| `Delivery` | what the build loop promises, without Jobs, caches or status; implemented by `BuildController` |
| `Custody` | what the finalizer promises, without caches, calls or failures: what is taken into custody under it, and what may be left when it goes; implemented by `AppLifecycle` |
| `AppLifecycle` | one App or ContainerApp from its creation to its removal: finalizer, `EnsureRuntime`, cleanup, existence and owner of each object |
| `RuntimeSync` | one living App or ContainerApp whose spec is edited: the fields of each object, the comparisons, what an update sends, the status of a ContainerApp, a raw Job |
| `MCBuildController`, `MCAppLifecycle`, `MCRuntimeSync` | instances for TLC, chosen by the configurations |
| `BuildControllerProofs`, `AppLifecycleProofs`, `CleanupProofs`, `RuntimeSyncProofs` | the inductive invariants and what follows from them |
| `BuildRestProofs`, `SyncRestProofs`, `CustodyProofs` | on top of them: that the states the liveness properties lead to are lasting, where a rollback can come from, the refinement of `Custody` |

### BuildController

*State.* `head`, `seen`: where the branch points and pointed. `jobs[c]`: the
stage of the Job of commit `c`; `tree[c]` what its pod cloned; `registry[c]` the
commit whose source is in the image tagged `c`. `app`: the status on the server;
`deployed`: the tag in the Deployment. `appLog`, `jobLog`, `depLog`: for each
operator the versions from the one in its cache to the one on the server, one
log per kind because informers are independent. `rec[o]`: the call of operator
`o`: how far it is, its local App, whether that copy carries the server's
version (`fresh`), the commit and image it works with.

*Actions.* One action is one API call with the computation around it:

| Action | Code |
|---|---|
| `Poll` | `Get` of the App, `getLatestCommit`, early return (`buildkit.go:21-44`) |
| `QueueCommit`, `WaitForBuild`, `PromotePending`, `PassList` | the loop over the listed Jobs (`:46-87`); the Job that ends the loop is any that can, for the cache lists them in no order |
| `CreateJob`, `RecordBuilding` | `:101-111` |
| `ReportReady`, `ReportFailed`, `StillRunning` | `:120-139` |
| `EnsureRuntime` | `upsertDeployment` and the list of `cleanupOldJobs` |
| `DeleteOldJob` | one `Delete` of `cleanupOldJobs` |
| `Fail`, `Crash` | a call that fails; a restart |

`StatusUpdate` has the four outcomes of a status write - accepted, without
effect, refused, lost - and in all of them the code goes on. A status is an
image, a commit and a phase; an image is its tag and the tag is the commit, so
`resolvePushImage` and `resolvePullImage` are the identity on what the
properties tell apart, but for one thing: `PullPrefixed` says whether the pull
image starts with the pull registry, which `buildkit.go:40` asks.

### AppLifecycle

*State.* `appLog`: versions of the App, each a phase (`new` without finalizer,
`live`, `terminating`, `gone`) and what its spec asks for. `objLog[o]`: for each
object `absent`, `ours`, `done` (a finished Job) or `foreign`. `pod`: the pod of
the build Job. `rec`: the reconcile call: the local App, the objects
`EnsureRuntime` still has to see to, the steps of the cleanup still to do.
`excused` is history: what the removal of the App may leave behind, and why.

*Actions.* `Reconcile` decides; `AddFinalizer`; `EnsureBuild` (which for the
objects means: nothing is deployed before the Job is seen to be done);
`EnsureWrite`, `EnsureNothing`, `EnsureRefused`, `EnsureFail`, one object at a
time in the order of `runtime.go`; `CleanDelete`, `CleanSkip`, `CleanUnread`,
`CleanFail`, one step of the cleanup sequence at a time (`CleanUnread` is a read
that fails, which the code takes for an object that is not there,
`cleanup.go:25`); `Release` removes the finalizer. A
cleanup is a sequence of records that say for each object whether only a spec
that lists it leads there, whether its label is looked at, and whether an error
ends the cleanup: `CleanApp` is `reconciler.go:121`, `CleanContainerApp` is
`containerapp_reconciler.go:96` with `cleanupRuntime`.

*Objects.* There are two ServiceAccounts, of which a spec asks for at most one:
`account` is named like the App, `named` is that of `rbac.serviceAccountName`
(`serviceaccount.go:33`). The difference decides what an edit can make the
operator forget (`Forgotten`): `cleanupRBAC` returns at once when the spec has no
RBAC any more (`serviceaccount.go:181`), and `cleanupRuntime`, which only
ContainerApps run, looks for an account of the App's own name and no other
(`cleanup.go:66`). `binding` and `clusterbinding` stand for bindings to created
and to existing roles alike, `role` and `clusterrole` for created ones. `image`
stands for the images under the `build.registry`, namespace and name of the spec
at the deletion, the only ones `deleteRegistryImage` visits; a tag it cannot
delete and passes over (`registry_cleanup.go:53`) is the logged failure of that
step.

### RuntimeSync

*State.* `kind` and `order`: which reconciler, and which objects the instance
has. `appLog`: versions of the App, each a spec, its generation and the phase of
the status. `objLog[o]`: versions of each object, `Absent` or its fields and
whether somebody else has annotated it. `jobLog`: a Job of `spec.resources`.
`rec`: the call: its App, whether that is the server's (`fresh`), the objects to
do, the outcome to report. `asked`, `made` and `tampered` are history: the specs
by generation, the generation each object was last written for, the objects
others have changed since. Deletion is the subject of `AppLifecycle`, and the
build that of `BuildController`: here an image is a field of the spec, and a
build that is done is like an edit.

*Data.* The value of a field is a set of atoms, `{}` for what the user leaves
out. That is enough for what the comparisons tell apart: equality, "every
desired volume or annotation is there", and the environment, whose length
and names with a value are compared while a missing name reads as empty. Fields
that no comparison looks at (pull secrets, class, path types, and others) are
one field per object: `extras`, `affinity`, `class`.

*Actions.*

| Action | Code |
|---|---|
| `Reconcile` | `Get` of the App or ContainerApp |
| `EnsureObject`, `EnsureUnchanged` | one object: read from the cache, compare, create, update or delete (`upsert.go`, `ingress.go`, `gateway.go`, `serviceaccount.go`, `autoscaling.go`) |
| `EnsureRefused`, `EnsureFail` | `AlreadyExists`, `Conflict` or `NotFound`; a call that fails |
| `ApplyJob`, `SweepJob` | the server-side apply of a raw Job; `cleanupOldJobs`, which meets its label |
| `Report` | the status write of a ContainerApp (`containerapp_reconciler.go:69-93`) |
| `Drift`, `Vanish`, `Label` | others - kubectl, an HPA that scales, the cleanup of a namesake - change, delete or annotate an object |
| `Crash` | a restart: no call, fresh caches |

An update of a Deployment or Role sends the cached copy with its spec replaced
and so keeps what others annotated (`InPlace`); the other objects are built anew.
An HTTPRoute differs at every poll, since the pointers in it are compared
(`HTTPRouteSpecEqual`); a binding is never updated.

## 3. What TLC checks

Deadlock is checked in the build runs and in `sync`. The lifecycle runs switch it off: once an
App is gone and its caches are empty, the system really has nothing left to do.

| Run | Instance | Shows |
|---|---|---|
| `build_one` | 1 operator, up to 3 commits; 2 pushes forward without failures, or 1 push with up to 2 failures | `BuildInv` (the inductive invariant), `ImageNotOlderThanTag`, `DeployedImageIsPushed`, `OnlyPendingRollsBack`, `RestIsLasting`, `ComesToRest`, `StatusSettles` |
| `build_forcepush` | 1 operator, 2 commits, 2 force pushes, 1 failure | `ReadyImageIsPushed`, `Delivers` (refinement), `DeploymentFollowsBranch` |
| `build_two` | 2 operators, 1 commit, image name without the pull prefix, 1 failure, 1 foreign write | `BuildInv`, `RestIsLasting`, `DeploymentFollowsBranch` |
| `life_app` | App; Ingress, HTTPRoute, raw resource whose API is missing; 1 edit | `LeftoversExcused`, `KeepsCustody` (refinement), `StaysSettled`, `DeletionCompletes`, `Converges` |
| `life_container` | ContainerApp; RoleBinding, ServiceAccount of another name, a foreign one of the App's name, HTTPRoute without Gateway CRDs; 1 edit, 1 failure | `LifecycleInv` (inductive), `ForeignKept`, `LeftoversExcused`, `KeepsCustody` (refinement), `CreatesUnderFinalizer`, `DeletionCompletes` |
| `sync` | App and ContainerApp; Deployment with binding, Service with Ingress, HTTPRoute with HPA, or Role with raw Job; 2 edits, 1 change by others, 1 failure | `SyncInv` (inductive), `NeverBack`, `OthersMetadataKept`, `ReadyIsCurrent`, `StaysInStep`, `RuntimeFollows`, `ReadyAtLast` |

`RestIsLasting`, `StaysSettled` and `StaysInStep` are the counterparts of
`ComesToRest`, `Converges` and `RuntimeFollows`. A property `<>[]P` is refuted
only by a run that leaves P for ever, on bounds that end; the counterpart says of
each step that it does not leave P, and names all that P rests on: the copies on
their way and the call in progress (`Quiet`, `Informed`). `ComesToRest` asks for
`Quiet` itself, so TLC shows that the state from which nothing moves is reached.

Six more runs show where the code does not do what its comments or its README
say; the findings of `PROJECT.json` quote the lines.

| Run | Promise | What TLC finds |
|---|---|---|
| `bug_overlap` | a pending build starts "when the current job finishes" (`types.go:399`) | an old finished Job is listed before the running one: two builds at once |
| `bug_rollback` | pendingCommit is "a commit that arrived while a build was in progress" (`types.go:398`) | a refused write leaves an old pendingCommit, which is promoted over a newer commit: the Deployment goes back |
| `bug_source` | "polls for new commits and rebuilds automatically" (`README.md:22`) | the pod clones the branch, not the commit: after a force push back the head's tag holds other source, for ever |
| `bug_claim` | `cleanupRuntime` is "used by both" reconcilers (`cleanup.go:19`) | the App reconciler has a cleanup of its own and leaves the claims |
| `bug_foreign` | "only delete ones we created" (`cleanup.go:75`) | a claim that was there before is deleted |
| `bug_rawjob` | raw resources are "safe to reconcile repeatedly" (`README.md:389`) | a finished Job of `spec.resources` is swept with the build Jobs, by their label, and run again at the next poll |

**Bounds, and why they are enough.** Three commits are the fewest with a commit
in service, one being built and one pending. Two commits and two pushes let the
branch leave a commit and come back. Two failures let a pod fail for good (the
second failure of a Job is final) or hit a call and its retry. `build_one` is
the union of two instances that are each affordable (`AffordableSpec` of
`MCBuildController`): two pushes and two failures together are beyond TLC in one
run. `MaxLag = 1`
lets a cache be one write behind on each kind, and the writer waits while it is
further behind; since every step between two writes can be taken with the cache
on either side, this already separates what was read from what holds. The theorems
lift the safety properties to every number of operators, commits, pushes, failures and versions
of lag. In the lifecycle runs one edit is enough to add, remove or swap any set
of features, and a deletion may come at any point, before or after it. The two
divide the cases: `life_app` has the build and what an App converges to, without
failures; `life_container` has an edit that makes the cleanup forget what was
made - RBAC taken out of the spec, or the ServiceAccount renamed - with a
failure, an unanswered read or a restart, and a wanted HTTPRoute that stops
`EnsureRuntime` half-way. Claims occur in `bug_claim` and `bug_foreign`;
Roles, ClusterRoles and the HPA, whose steps have the same forms as those of the
objects in the runs, are left to the theorems, which hold for all of them. In `sync`
the two specs differ in every field but the raw Job (whose template cannot be
edited on a cluster): the second leaves out what the first has, and its
environment is as long, with a value where the first has the empty string. Two edits go from one spec to the other and back, so that a copy can be
older than the server and equal to it. No object's comparison reads another
object; objects meet only in the order of a call and in what an error cuts off, and
each pair of the instance has an object before and one after it. The theorems hold
for any order of any objects.

**Fairness.** The workqueue calls `Reconcile` again after every outcome of the
App reconciler (each return of `reconciler.go:78-107` asks for a requeue or
returns an error, which is retried with backoff): weak fairness on the
operator's step. A ContainerApp is not requeued after success; the default
resync of the manager and the event of its own status write call it again, and
so does every error. `RuntimeSync` therefore asks the same of both.
Watches deliver, and the Job controller, kubelet and garbage collector make
progress: weak fairness on each delivery and on each pod. Nothing is assumed of
users, pushes or failures, which the bounds make finitely many: the liveness
properties say what holds once they cease.

**A limit.** Weak fairness alone does not give `DeploymentFollowsBranch` for two
commits with both a failure and a foreign write of the App: TLC then finds a
run in which every promotion happens to read an App copy one version old, and
the old pending commit is promoted again each time. The run needs the informer
to be late at every poll for ever, so it is not listed as a finding, but
it is the same stale pending commit as in `bug_rollback`.

**Mutants.** Each property of a passing run has a mutant: a plausible slip of
the code (a dropped condition, the wrong registry, a test of any phase), defined
beside the operator it replaces, under which TLC finds the property violated.
The definitions named `...InAnyPhase`, `...ByBuildRegistry`, `WaitsFor...`,
`JobHasNotFailed`, `PushedUnderHead`, `NeedsDeploymentAtFirst`,
`CleanAppIfEnabled`, `CleanRolesOnly`, `IfListedStrictly`, `RemovesIfCached`,
`Strictly`, `AnyPhase`, `AnyLabel`, `ReconcileAnyCopy`, `ReconcileUnlessFailed`,
`AnyVersion`, `AnyStatus`, `FirstWithoutJob`, `FinishedJobs`, `DisabledAnyway`
and `RemovesAnyIngress` serve for nothing else; `DisabledRoute`, which is
also a part of `Disabled`, stands for one that forgets the rest.

## 4. What is proved

For every value of the constants that satisfies `ConstantsAssumption` (sizes are
naturals, at least one commit, a log has room for one version more):

- `BuildControllerProofs`: `BuildInvariance`, and from it `TypeCorrect`,
  `DeployedIsPushed`, `ReadyIsPushed`, `ImageIsRecent`, and `ControllerDelivers`,
  the refinement of `Delivery`; and `DeliveryServes`, that `Delivery` by itself
  serves only pushed images of commits, and from sources, the branch has had.
- `AppLifecycleProofs`: `LifecycleInvariance`, and from it `LifecycleTyped`,
  `ForeignSurvives` and the action property `CreatesUnderFinalizerHolds`.
- `CleanupProofs`: `LeftoversAreExcused`: when an App is gone, what is still
  there has one of the known excuses.
- `RuntimeSyncProofs`: `SyncInvariance`, and from it `ObjectsAreWhole` (the part
  `WholeSpec`) and the action properties `NeverGoesBack`, `MetadataKept` and
  `ReadyCurrent`.
- `BuildRestProofs`: the action properties `RestLasts` and
  `RollbackOnlyByPending`.
- `SyncRestProofs`: the action property `InStepLasts`.
- `CustodyProofs`: `LifecycleKeepsCustody`, the refinement of `Custody`;
  `CustodyExcuses`, that `Custody` by itself leaves behind only what is excused;
  and the action property `SettledLasts`.

*The build argument.* `DeployedImageIsPushed` is not inductive: the Deployment
is written from the image in a cached status, or after a cached Job is seen to
have succeeded. `BuildInv` therefore says the same of every place a status, a
list of Jobs or a tag can have got to: the server (`ServerInv`), every version
in every log (`CacheInv`), every local copy (`CallInv`). The sets `GoodStatus`,
`GoodJobs`, `GoodTag` and `GoodCall` only grow, because `seen` and the tags in
`registry` only grow, so copies stay good as they grow old. A status may
name the image of a commit before it is pushed (`buildkit.go:110`), which is why
the claim is tied to the phase. `OrderInv` carries the order of commits through the pod,
for `ImageNotOlderThanTag`. Each action is a lemma; the refinement then needs
only that each step changes `registry` by a push of a commit that was seen, and
`deployed` to a tag in `Shipped`.

*The lifecycle argument.* What a call relies on is not what its copy says but
what can have become of it: `PhaseOrder` says which phase may follow which in
the log of the App, so a cached `live` means `live` or `terminating` on the
server - in either case the finalizer is there - and a cached `terminating`
means that the server has no live App. `CallInv` carries this through the
call. `OwnerInv` says that every step of a cleanup in progress that could hit a
ServiceAccount or Role looks at its label, and that a foreign one is the only
version there is, in the cache as on the server, so that a stale label cannot
mislead. `CreatesUnderFinalizer` follows: a step that creates is in `ensure` or
`build`, and those are under the finalizer.

*The cleanup argument.* That leftovers are excused is a claim about the end of
a long protocol, and becomes inductive as `CleanupInv`. Before the finalizer is
there nothing is owned (`NewOwnsNothing`), and no build runs for a ContainerApp
(`NoBuild`). What a cleanup by the present spec would not look for is either asked
for by that spec or already excused (`Remembered`), and the spec of an App that
is dying stays (`LastWish`). What that covers is `Forgotten`; the ServiceAccount
named like a ContainerApp is not in it, so for that one the proof has to find its
step whatever the spec says. So when a cleanup starts, each object that is owned
has a step ahead that looks for it (lemma `StepsFound`); a step deletes what it
looks for or finds its excuse - a cache that does not show it, a read that
fails, or an error that is only logged (`StepSettles`); hence an owned object always has its step ahead or
its excuse (`Covered`), down to the empty sequence. `OwnLabels` says that no step
is misled by a label. The image of a build needs a word more, for its pod may push
it at any time: a push without a Job is an excuse of its own, and while the Job is
there its step is still ahead (`LateImage`) and the step for the image is the
last one (`SweepShape`, `ImageIsLast`).

*The sync argument.* `VersionsInOrder`: the versions of the App in the cache and
in the hands of a call are specs the user asked for, and their generations never
decrease along the log, so a later call never works on an earlier one. With
`WrittenByCalls` - no object was written for a later generation than that of the
last call - this gives `NeverBack`. `FreshIsCurrent`, that a status write can be
accepted only while the call holds the server's App, gives `ReadyIsCurrent`.
`WholeSpec` is kept by every write because it replaces all the fields of an object,
also those no comparison looks at; by a call that finds nothing to change it is
kept for the older generation, which is why the history `made` and not the present
spec is in it.

*What lasts.* Liveness is out of reach, but half of each `<>[]P` is not: that P,
once reached, is never left. In each module P has to be widened by everything
from which a step could still work against it. For the build loop that is
`Quiet`: every version of the status in every log is the one that is reported
(`Rested`), every Deployment on its way names the head, and no list of Jobs on
its way lacks the head's succeeded Job when the image name does not pass for up
to date; then a poll returns early, or walks a list in which its own Job has
succeeded, and writes what is there. Of `BuildInv` this uses only the types and
that no log is empty: rest is closed under the steps by itself, except for a
push. For the runtime objects it is `Informed`: the cached App and the App of the call have the newest generation;
copies of the *objects* may be of any age, since an update computed from any
copy sends the desired fields (lemma `SentFits`), and none removes what is asked
for. For the lifecycle the copies must agree with the server's App, and
`LifecycleInv` then excludes a cleanup that has begun (`NoCleanup`).

*Where a rollback comes from.* `bug_rollback` shows that the Deployment can go
back on a branch that only moves on. `OnlyPendingRollsBack` makes that diagnosis
complete: going back needs a call whose commit is older than the one deployed
(`Behind`), every call starts with the newest commit, and the only steps that
turn a call that is not behind into one that is are the promotion of a pending
commit and, with a second operator, a deployment by the other one. With
one operator, repairing `buildkit.go:80` repairs the rollback.

*The custody argument.* `Custody` has three variables and no notion of a cache;
a step of `AppLifecycle` maps to a step of it or to a stutter. The guards of
`Custody` are what has to be shown: that the App has its finalizer when the
operator takes an object (`BuildTakes`, `EnsureTakesOrYields`), that a cleanup
works only on an App that is dying however old its copy is
(`CleanupFindsDying`), that a push by a pod finds a Job, or else arrives late
and is pardoned (`PodTakes`), and that the finalizer goes only when all that is
owned is pardoned (`PhaseStep`), which is `CleanupInv` at the end of the sweep.

*What no property watches.* Some things the code does are known and have neither
a property that would hold nor a promise that would be broken: the replicas that
an HPA and the operator set in turn for ever, drift in fields no comparison looks
at, the subject of a RoleBinding after `serviceAccountName` has changed, a Role
of somebody else whose rules are replaced, the port, class and TLS secret of an
Ingress, and bindings and ClusterRoles deleted without a look at their label.
They are listed as hazards without a property, each with the reason.

Only model-checked: all liveness (fairness and `ENABLED` are out of reach of the
prover) and the six counterexamples.

## 5. Not modelled

- Names: commits that share their first seven digits; the image references that
  `resolvePushImage` and `resolvePullImage` build from the registries; one
  environment name has one value here.
- Claims with an explicit `claimName`; edits of the template of a raw Job; what
  claims and other raw resources contain. The code compares none of it.
- Other finalizers on an App, and with them the shallow `DeepCopyObject`; edits
  of an App that is terminating; a new App under the old name.
- An App and a ContainerApp of one name as two processes: each sees the other
  as `Drift` and `Vanish`. Nothing converges while both are at work, and no
  property says so.
- A second operator in `AppLifecycle`: during a rolling update, a call of one on
  an old copy may create while the other cleans up. `BuildController` has several
  operators, for the build loop.
- A second operator in `RuntimeSync`, too. During a rolling update (`main.go:50`,
  no leader election) the caches of the two are of different ages, and a call of
  one on an older copy of the spec may follow a call of the other on a newer one:
  `NeverBack` is about the calls of one operator and does not carry over, nor
  does `StaysInStep` while the older one's cache is behind.
- Images elsewhere than under the present `build.registry`: what was pushed to
  `build.output`, or to a registry the spec named earlier, is never looked for
  at the deletion. `LeftoversExcused` says nothing of it.
- Owners of cluster-wide objects: ClusterRoles and their bindings have names made
  of namespace, App and role, which are taken to be the App's own.
- The annotations of an Ingress and their comparison (`ingress.go:91`).
- The pod that the background propagation of a deleted old Job leaves running
  for a while: in `BuildController` its last push belongs to the step that deletes the
  Job, or does not happen.
- Timing (poll intervals, backoff); git credentials, the fallback to `master`
  and `HEAD` (`git.go:55`); text
  (Dockerfiles, labels, resource requests), the chart, the flags of the process.

## 6. Plan

Done, in this order because the build loop is the operator's own logic and the
lifecycle decides what may be lost: `BuildController`, `Delivery`,
`BuildControllerProofs`, `AppLifecycle`, `AppLifecycleProofs`, `RuntimeSync`,
`RuntimeSyncProofs`, `CleanupProofs`, `BuildRestProofs`, `SyncRestProofs`,
`Custody`, `CustodyProofs`.

What could come next:

1. Compositions: a second operator in `AppLifecycle`; re-creation under the old
   name; the build loop with a raw Job under the build label.
2. That a recorded Ready lasts: the counterpart of `ReadyAtLast`, which has to
   speak of failed calls, since one of them reports Failed.
3. `ImageNames`: image references and the prefix test of `buildkit.go:40` as
   functions, checked against a reference over all inputs; short commits.
