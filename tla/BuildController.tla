--------------------------- MODULE BuildController ---------------------------
(***************************************************************************)
(* The App reconciler of kube-deploy as a build controller: it polls the   *)
(* git branch of one App, runs one build Job per commit, records progress  *)
(* in the App's status and points the Deployment at the image of the       *)
(* commit that was built (controllers/reconciler.go, buildkit.go,          *)
(* buildkit_job.go, git.go and upsertDeployment of upsert.go).             *)
(*                                                                         *)
(* One action is one API call of the reconciler together with the local    *)
(* computation around it.  Reads of Apps, Jobs and the Deployment go to    *)
(* the informer caches of controller-runtime, which trail the API server;  *)
(* writes go to the server, which refuses an update made from an old       *)
(* version.  Deletion of the App is the subject of AppLifecycle; here the  *)
(* App exists, its finalizer is set and its spec does not change.          *)
(***************************************************************************)
EXTENDS Naturals, Sequences

CONSTANTS
    Operators,       \* running copies of the operator process
    NumCommits,      \* commits of the repository are 1 .. NumCommits
    ForcePush,       \* may the branch move to an older commit?
    PullPrefixed,    \* does the pull image start with the pull registry?
    MaxPushes,       \* bound: moves of the branch head
    MaxFaults,       \* bound: failed calls and operator restarts
    MaxTouches,      \* bound: writes of others to the App or the Deployment
    MaxLag           \* bound: versions a watch stream may hold

ASSUME ConstantsAssumption ==
    /\ NumCommits \in Nat \ {0}
    /\ ForcePush \in BOOLEAN
    /\ PullPrefixed \in BOOLEAN
    /\ MaxPushes \in Nat
    /\ MaxFaults \in Nat
    /\ MaxTouches \in Nat
    /\ MaxLag \in Nat \ {0}

Commit == 1 .. NumCommits
None == 0                          \* the empty string of the Go fields
CommitOrNone == Commit \cup {None}

VARIABLES
    head,        \* the commit the remote branch points at
    seen,        \* history: every commit the branch has pointed at
    jobs,        \* API server: stage of the build Job of each commit
    tree,        \* commit cloned by the running pod of each Job
    registry,    \* commit whose source is in the image with each tag
    app,         \* API server: status of the App
    deployed,    \* API server: tag in the Deployment's pod template
    appLog,      \* per operator: versions of app from the cached one on
    jobLog,      \* per operator: versions of jobs from the cached one on
    depLog,      \* per operator: versions of deployed from the cached one on
    rec,         \* per operator: the reconcile call in progress
    pushes, faults, touches        \* counters for the bounds

gitVars   == <<head, seen, pushes>>
buildVars == <<jobs, tree, registry, jobLog>>
appVars   == <<app, appLog>>
depVars   == <<deployed, depLog>>
vars == <<gitVars, buildVars, appVars, depVars, rec, faults, touches>>

-----------------------------------------------------------------------------
(***************************************************************************)
(* Build Jobs.  buildJob asks for backoffLimit 1 and restartPolicy Never:  *)
(* a first failed pod leaves the Job in "backoff" with Failed = 1, a       *)
(* second pod is started ("retrying", Active = 1 and Failed = 1), and a    *)
(* second failure is final.                                                *)
(***************************************************************************)
Stage == {"absent", "created", "running", "backoff", "retrying",
          "succeeded", "failed"}

Active(s) == s \in {"running", "retrying"}            \* Status.Active > 0
Succeeded(s) == s = "succeeded"                       \* Status.Succeeded > 0
Failed(s) == s \in {"backoff", "retrying", "failed"}  \* Status.Failed > 0
Finished(s) == Succeeded(s) \/ Failed(s)

(***************************************************************************)
(* AppStatus.  An image is identified by its tag, which is its commit.     *)
(***************************************************************************)
Phase == {"", "Building", "Ready", "Failed"}
Status == [phase : Phase, commit : CommitOrNone, image : CommitOrNone,
           pending : CommitOrNone]
NoStatus == [phase |-> "", commit |-> None, image |-> None, pending |-> None]

(***************************************************************************)
(* The local state of a reconcile call.  "fresh" says that the local copy  *)
(* of the App carries the server's resourceVersion, so that a write based  *)
(* on it is accepted.                                                      *)
(***************************************************************************)
Step == {"idle", "list", "job", "created", "deploy", "sweep"}
Call == [at : Step, app : Status, fresh : BOOLEAN, commit : CommitOrNone,
         image : CommitOrNone, old : SUBSET Commit]
Idle == [at |-> "idle", app |-> NoStatus, fresh |-> FALSE, commit |-> None,
         image |-> None, old |-> {}]

TypeOK ==
    /\ head \in Commit
    /\ seen \in SUBSET Commit
    /\ jobs \in [Commit -> Stage]
    /\ tree \in [Commit -> CommitOrNone]
    /\ registry \in [Commit -> CommitOrNone]
    /\ app \in Status
    /\ deployed \in CommitOrNone
    /\ appLog \in [Operators -> Seq(Status)]
    /\ jobLog \in [Operators -> Seq([Commit -> Stage])]
    /\ depLog \in [Operators -> Seq(CommitOrNone)]
    /\ rec \in [Operators -> Call]
    /\ pushes \in Nat /\ faults \in Nat /\ touches \in Nat

Init ==
    /\ head = 1
    /\ seen = {1}
    /\ jobs = [c \in Commit |-> "absent"]
    /\ tree = [c \in Commit |-> None]
    /\ registry = [c \in Commit |-> None]
    /\ app = NoStatus
    /\ deployed = None
    /\ appLog = [o \in Operators |-> <<app>>]
    /\ jobLog = [o \in Operators |-> <<jobs>>]
    /\ depLog = [o \in Operators |-> <<deployed>>]
    /\ rec = [o \in Operators |-> Idle]
    /\ pushes = 0 /\ faults = 0 /\ touches = 0

-----------------------------------------------------------------------------
(***************************************************************************)
(* Informers.  A log starts with the version in the cache and ends with    *)
(* the version on the server.                                              *)
(***************************************************************************)
Room(log) == \A o \in Operators : Len(log[o]) <= MaxLag
Extend(log, version) == [o \in Operators |-> Append(log[o], version)]
Synced(log, o) == Len(log[o]) = 1

DeliverApp(o) ==
    /\ ~Synced(appLog, o)
    /\ appLog' = [appLog EXCEPT ![o] = Tail(@)]
    /\ UNCHANGED <<gitVars, buildVars, app, depVars, rec, faults, touches>>

DeliverJobs(o) ==
    /\ ~Synced(jobLog, o)
    /\ jobLog' = [jobLog EXCEPT ![o] = Tail(@)]
    /\ UNCHANGED <<gitVars, jobs, tree, registry, appVars, depVars, rec,
                   faults, touches>>

DeliverDeployment(o) ==
    /\ ~Synced(depLog, o)
    /\ depLog' = [depLog EXCEPT ![o] = Tail(@)]
    /\ UNCHANGED <<gitVars, buildVars, appVars, deployed, rec, faults, touches>>

(***************************************************************************)
(* Writes.  WriteJobs and WriteDeployment are the accepted ones.           *)
(***************************************************************************)
WriteJobs(j) ==
    /\ Room(jobLog)
    /\ jobs' = j
    /\ jobLog' = Extend(jobLog, j)

WriteDeployment(tag) ==
    /\ Room(depLog)
    /\ deployed' = tag
    /\ depLog' = Extend(depLog, tag)

(***************************************************************************)
(* c.Status().Update(s) by operator o, whose call goes on as r.  Every     *)
(* caller only logs the error, so the call goes on in each case.  The      *)
(* server takes a write made from its own version; a write that changes    *)
(* nothing, lastUpdate included, makes no version; an old copy is refused; *)
(* and the request may fail on the way.                                    *)
(***************************************************************************)
StatusUpdate(o, s, r) ==
    \/ /\ rec[o].fresh
       /\ Room(appLog)
       /\ app' = s
       /\ appLog' = Extend(appLog, s)
       /\ rec' = [p \in Operators |-> IF p = o THEN r
                                      ELSE [rec[p] EXCEPT !.fresh = FALSE]]
       /\ UNCHANGED faults
    \/ /\ rec[o].fresh
       /\ s = app
       /\ rec' = [rec EXCEPT ![o] = r]
       /\ UNCHANGED <<appVars, faults>>
    \/ /\ ~rec[o].fresh
       /\ rec' = [rec EXCEPT ![o] = r]
       /\ UNCHANGED <<appVars, faults>>
    \/ /\ faults < MaxFaults
       /\ faults' = faults + 1
       /\ rec' = [rec EXCEPT ![o] = r]
       /\ UNCHANGED appVars

-----------------------------------------------------------------------------
(***************************************************************************)
(* The environment: the repository, other writers of the App and the       *)
(* Deployment (kubectl annotate, the deployment controller's status), and  *)
(* the pods of the build Jobs.                                             *)
(***************************************************************************)
Push(c) ==
    /\ pushes < MaxPushes
    /\ IF ForcePush THEN c # head ELSE c = head + 1
    /\ head' = c
    /\ seen' = seen \cup {c}
    /\ pushes' = pushes + 1
    /\ UNCHANGED <<buildVars, appVars, depVars, rec, faults, touches>>

TouchApp ==
    /\ touches < MaxTouches
    /\ touches' = touches + 1
    /\ Room(appLog)
    /\ appLog' = Extend(appLog, app)
    /\ rec' = [o \in Operators |-> [rec[o] EXCEPT !.fresh = FALSE]]
    /\ UNCHANGED <<gitVars, buildVars, app, depVars, faults>>

TouchDeployment ==
    /\ deployed # None
    /\ touches < MaxTouches
    /\ touches' = touches + 1
    /\ WriteDeployment(deployed)
    /\ UNCHANGED <<gitVars, buildVars, appVars, rec, faults>>

PodStart(c) ==
    /\ \/ jobs[c] = "created" /\ WriteJobs([jobs EXCEPT ![c] = "running"])
       \/ jobs[c] = "backoff" /\ WriteJobs([jobs EXCEPT ![c] = "retrying"])
    /\ UNCHANGED <<gitVars, tree, registry, appVars, depVars, rec, faults,
                   touches>>

(***************************************************************************)
(* git clone --depth=1 --branch <branch>: what is built is the head of the *)
(* branch at the time the pod runs, whatever commit the Job is named for.  *)
(***************************************************************************)
Clone(c) ==
    /\ Active(jobs[c])
    /\ tree[c] = None
    /\ tree' = [tree EXCEPT ![c] = head]
    /\ UNCHANGED <<gitVars, jobs, registry, jobLog, appVars, depVars, rec,
                   faults, touches>>

(* buildctl ... push=true: the tag is that of the Job, not of the branch. *)
PushedUnderHead(c) == [registry EXCEPT ![head] = tree[c]]
Pushed(c) == [registry EXCEPT ![c] = tree[c]]
MaybePushed(c) == IF tree[c] = None THEN {registry} ELSE {registry, Pushed(c)}

PodSucceed(c) ==
    /\ Active(jobs[c])
    /\ tree[c] # None
    /\ registry' = Pushed(c)
    /\ tree' = [tree EXCEPT ![c] = None]
    /\ WriteJobs([jobs EXCEPT ![c] = "succeeded"])
    /\ UNCHANGED <<gitVars, appVars, depVars, rec, faults, touches>>

PodFail(c) ==
    /\ Active(jobs[c])
    /\ faults < MaxFaults
    /\ faults' = faults + 1
    /\ registry' \in MaybePushed(c)
    /\ tree' = [tree EXCEPT ![c] = None]
    /\ WriteJobs([jobs EXCEPT ![c] =
                      IF @ = "running" THEN "backoff" ELSE "failed"])
    /\ UNCHANGED <<gitVars, appVars, depVars, rec, touches>>

-----------------------------------------------------------------------------
(***************************************************************************)
(* The reconciler.  A call that is over is Idle until the workqueue starts *)
(* the next one: every outcome asks for a requeue.                         *)
(***************************************************************************)
Go(o, r) == rec' = [rec EXCEPT ![o] = r]

CachedJobs(o) == Head(jobLog[o])
CachedTag(o) == Head(depLog[o])

(* "Already on this commit and healthy": the four conditions, and slips. *)
UpToDateInAnyPhase(a, c) ==
    a.commit = c /\ PullPrefixed /\ a.image # None /\ a.pending = None
UpToDateByBuildRegistry(a, c) ==
    /\ a.commit = c /\ a.phase = "Ready" /\ a.pending = None
    /\ ~PullPrefixed /\ a.image # None

UpToDate(a, c) ==
    /\ a.commit = c
    /\ a.phase = "Ready"
    /\ PullPrefixed /\ a.image # None
    /\ a.pending = None

(* getLatestCommit: what the branch points at (without the fallback to     *)
(* master and HEAD for a branch that does not exist).                      *)
(* FirstWithoutJob is a slip: to catch up on the commits not built yet.    *)
FirstWithoutJob ==
    LET left == {c \in seen : jobs[c] = "absent"}
    IN  IF left = {} THEN head ELSE CHOOSE c \in left : \A d \in left : c <= d
LatestCommit == head

(***************************************************************************)
(* The Get of the App, getLatestCommit, and the early return when there is *)
(* nothing to build.  The two reads are one step: between them, a push can *)
(* be taken to come before both and anything that happens to the App after *)
(* both, without the call noticing.                                        *)
(***************************************************************************)
Poll(o) ==
    /\ rec[o].at = "idle"
    /\ LET a == Head(appLog[o])
           r == [Idle EXCEPT !.app = a, !.fresh = Synced(appLog, o),
                             !.commit = LatestCommit]
       IN  Go(o, IF UpToDate(a, LatestCommit)
                 THEN [r EXCEPT !.at = "deploy", !.image = a.image]
                 ELSE [r EXCEPT !.at = "list"])
    /\ UNCHANGED <<gitVars, buildVars, appVars, depVars, faults, touches>>

(***************************************************************************)
(* The loop over the listed Jobs, lines 48-87.  The cache lists them in no *)
(* particular order, so the first Job that ends the loop is any of those   *)
(* that can: an active one, or a finished one when a commit is pending.    *)
(***************************************************************************)
WaitsForFailed(s) == Active(s) \/ Failed(s)
WaitsForAny(s) == s # "absent"
Waits(s) == Active(s)
Promotes(s, pending) == ~Active(s) /\ Finished(s) /\ pending # None

SomeJobActive(o) == \E c \in Commit : Waits(CachedJobs(o)[c])

QueueCommit(o) ==
    /\ rec[o].at = "list"
    /\ SomeJobActive(o)
    /\ rec[o].commit \notin {rec[o].app.commit, rec[o].app.pending}
    /\ StatusUpdate(o, [rec[o].app EXCEPT !.pending = rec[o].commit], Idle)
    /\ UNCHANGED <<gitVars, buildVars, depVars, touches>>

WaitForBuild(o) ==
    /\ rec[o].at = "list"
    /\ SomeJobActive(o)
    /\ rec[o].commit \in {rec[o].app.commit, rec[o].app.pending}
    /\ Go(o, Idle)
    /\ UNCHANGED <<gitVars, buildVars, appVars, depVars, faults, touches>>

PromotePending(o) ==
    /\ rec[o].at = "list"
    /\ \E c \in Commit : Promotes(CachedJobs(o)[c], rec[o].app.pending)
    /\ LET promoted == [rec[o].app EXCEPT !.pending = None]
       IN  StatusUpdate(o, promoted,
               [rec[o] EXCEPT !.at = "job", !.app = promoted,
                              !.commit = rec[o].app.pending])
    /\ UNCHANGED <<gitVars, buildVars, depVars, touches>>

PassList(o) ==
    /\ rec[o].at = "list"
    /\ ~SomeJobActive(o)
    /\ ~\E c \in Commit : Promotes(CachedJobs(o)[c], rec[o].app.pending)
    /\ Go(o, [rec[o] EXCEPT !.at = "job"])
    /\ UNCHANGED <<gitVars, buildVars, appVars, depVars, faults, touches>>

(***************************************************************************)
(* The Job of the commit to build, lines 101-139.  JobSucceeded and        *)
(* JobFailed are the tests on the Job that was read, in the order made.    *)
(***************************************************************************)
JobHasNotFailed(s) == s # "absent" /\ ~Failed(s)
JobSucceeded(s) == Succeeded(s)
JobFailed(s) == ~Succeeded(s) /\ Failed(s)

CachedStage(o) == CachedJobs(o)[rec[o].commit]

CreateJob(o) ==
    /\ rec[o].at = "job"
    /\ CachedStage(o) = "absent"
    /\ \/ /\ jobs[rec[o].commit] = "absent"
          /\ WriteJobs([jobs EXCEPT ![rec[o].commit] = "created"])
          /\ Go(o, [rec[o] EXCEPT !.at = "created"])
       \/ /\ jobs[rec[o].commit] # "absent"               \* AlreadyExists
          /\ Go(o, Idle)
          /\ UNCHANGED <<jobs, jobLog>>
    /\ UNCHANGED <<gitVars, tree, registry, appVars, depVars, faults, touches>>

WithStatus(a, phase, c, image) ==                   \* updateStatus
    [a EXCEPT !.phase = phase, !.commit = c, !.image = image]

RecordBuilding(o) ==
    /\ rec[o].at = "created"
    /\ StatusUpdate(o, WithStatus(rec[o].app, "Building", rec[o].commit,
                                  rec[o].commit), Idle)
    /\ UNCHANGED <<gitVars, buildVars, depVars, touches>>

ReportReady(o) ==
    /\ rec[o].at = "job"
    /\ JobSucceeded(CachedStage(o))
    /\ LET ready == WithStatus(rec[o].app, "Ready", rec[o].commit,
                               rec[o].commit)
       IN  StatusUpdate(o, ready, [rec[o] EXCEPT !.at = "deploy",
                                   !.app = ready, !.image = rec[o].commit])
    /\ UNCHANGED <<gitVars, buildVars, depVars, touches>>

ReportFailed(o) ==
    /\ rec[o].at = "job"
    /\ JobFailed(CachedStage(o))
    /\ StatusUpdate(o, WithStatus(rec[o].app, "Failed", rec[o].commit, None),
                    Idle)
    /\ UNCHANGED <<gitVars, buildVars, depVars, touches>>

StillRunning(o) ==
    /\ rec[o].at = "job"
    /\ CachedStage(o) \in {"created", "running"}
    /\ Go(o, Idle)
    /\ UNCHANGED <<gitVars, buildVars, appVars, depVars, faults, touches>>

(***************************************************************************)
(* upsertDeployment, the first call of EnsureRuntime: skip, create or      *)
(* update, and an error (Idle) when the server refuses the write.  The     *)
(* list of cleanupOldJobs, which commutes with that write, is taken in the *)
(* same step: the finished Jobs other than that of the status's commit.    *)
(***************************************************************************)
FinishedJobs(j, current) == {c \in Commit : Finished(j[c])}    \* a slip
OldJobs(j, current) == {c \in Commit \ {current} : Finished(j[c])}
NeedsDeploymentAtFirst(cached, image) == cached = None
NeedsDeployment(cached, image) == cached # image

SweepFrom(o, old) == IF old = {} THEN Idle
                     ELSE [rec[o] EXCEPT !.at = "sweep", !.old = old]
Sweep(o) == SweepFrom(o, OldJobs(CachedJobs(o), rec[o].app.commit))

EnsureRuntime(o) ==
    /\ rec[o].at = "deploy"
    /\ LET cached == CachedTag(o)
           image == rec[o].image
           accepted == IF cached = None THEN deployed = None
                                        ELSE Synced(depLog, o)
       IN  \/ /\ ~NeedsDeployment(cached, image)
              /\ Go(o, Sweep(o))
              /\ UNCHANGED depVars
           \/ /\ NeedsDeployment(cached, image) /\ accepted
              /\ WriteDeployment(image)
              /\ Go(o, Sweep(o))
           \/ /\ NeedsDeployment(cached, image) /\ ~accepted
              /\ Go(o, Idle)
              /\ UNCHANGED depVars
    /\ UNCHANGED <<gitVars, buildVars, appVars, faults, touches>>

(***************************************************************************)
(* One Delete of cleanupOldJobs, with background propagation: a pod that   *)
(* still runs is killed, before or after it pushed.  NotFound is ignored.  *)
(***************************************************************************)
DeleteOldJob(o, c) ==
    /\ rec[o].at = "sweep"
    /\ c \in rec[o].old
    /\ Go(o, SweepFrom(o, rec[o].old \ {c}))
    /\ \/ /\ jobs[c] # "absent"
          /\ WriteJobs([jobs EXCEPT ![c] = "absent"])
          /\ tree' = [tree EXCEPT ![c] = None]
          /\ registry' \in MaybePushed(c)
          /\ UNCHANGED faults
       \/ /\ jobs[c] = "absent"
          /\ UNCHANGED <<buildVars, faults>>
       \/ /\ faults < MaxFaults
          /\ faults' = faults + 1
          /\ UNCHANGED buildVars
    /\ UNCHANGED <<gitVars, appVars, depVars, touches>>

(***************************************************************************)
(* Failures.  A call that fails anywhere else ends the reconcile with a    *)
(* requeue.  A restarted operator has lost its calls and its caches, which *)
(* it fills again from the server before it reconciles.                    *)
(***************************************************************************)
Fail(o) ==
    /\ rec[o].at \in {"list", "job", "deploy"}
    /\ faults < MaxFaults
    /\ faults' = faults + 1
    /\ Go(o, Idle)
    /\ UNCHANGED <<gitVars, buildVars, appVars, depVars, touches>>

Crash(o) ==
    /\ faults < MaxFaults
    /\ faults' = faults + 1
    /\ Go(o, Idle)
    /\ appLog' = [appLog EXCEPT ![o] = <<app>>]
    /\ jobLog' = [jobLog EXCEPT ![o] = <<jobs>>]
    /\ depLog' = [depLog EXCEPT ![o] = <<deployed>>]
    /\ UNCHANGED <<gitVars, jobs, tree, registry, app, deployed, touches>>

-----------------------------------------------------------------------------
Deliver(o) == DeliverApp(o) \/ DeliverJobs(o) \/ DeliverDeployment(o)

Operate(o) ==
    \/ Poll(o)
    \/ QueueCommit(o) \/ WaitForBuild(o) \/ PromotePending(o) \/ PassList(o)
    \/ CreateJob(o) \/ RecordBuilding(o)
    \/ ReportReady(o) \/ ReportFailed(o) \/ StillRunning(o)
    \/ EnsureRuntime(o) \/ (\E c \in Commit : DeleteOldJob(o, c))

Pod(c) == PodStart(c) \/ Clone(c) \/ PodSucceed(c)

Disturb ==
    \/ TouchApp \/ TouchDeployment
    \/ \E c \in Commit : Push(c) \/ PodFail(c)
    \/ \E o \in Operators : Fail(o) \/ Crash(o)

Next ==
    \/ \E o \in Operators : Deliver(o) \/ Operate(o)
    \/ \E c \in Commit : Pod(c)
    \/ Disturb

Spec == Init /\ [][Next]_vars

(***************************************************************************)
(* The workqueue calls Reconcile again after every outcome, watch events   *)
(* arrive, and the job controller and the pods of a Job make progress.     *)
(* Nothing else is promised.                                               *)
(***************************************************************************)
Fairness ==
    /\ \A o \in Operators : /\ WF_vars(Operate(o))
                            /\ WF_vars(DeliverApp(o))
                            /\ WF_vars(DeliverJobs(o))
                            /\ WF_vars(DeliverDeployment(o))
    /\ \A c \in Commit : WF_vars(Pod(c))

FairSpec == Spec /\ Fairness

-----------------------------------------------------------------------------
(***************************************************************************)
(* The invariant.  Wherever a status, a list of Jobs or an image tag has   *)
(* got to - the server, a watch stream, a cache or a local variable - it   *)
(* speaks of commits the branch has had and of images that were pushed.    *)
(***************************************************************************)
Shipped == {c \in Commit : registry[c] # None}

GoodStatus ==
    {s \in Status : /\ {s.commit, s.pending} \subseteq seen \cup {None}
                    /\ s.image \in {s.commit, None}
                    /\ s.phase = "Ready" => s.image \in Shipped}

GoodJobs ==
    {j \in [Commit -> Stage] :
        \A c \in Commit : /\ j[c] # "absent" => c \in seen
                          /\ j[c] = "succeeded" => c \in Shipped}

GoodTag == Shipped \cup {None}

GoodCall ==
    {r \in Call : /\ r.app \in GoodStatus
                  /\ r.at # "idle" => r.commit \in seen
                  /\ r.at = "deploy" => r.image \in Shipped /\ r.image = r.commit}

GitInv == head \in seen /\ seen \subseteq Commit

ServerInv ==
    /\ app \in GoodStatus /\ jobs \in GoodJobs /\ deployed \in GoodTag
    /\ \A c \in Commit : /\ {tree[c], registry[c]} \subseteq seen \cup {None}
                         /\ tree[c] # None => c \in seen
                         /\ registry[c] # None => c \in seen

CacheInv ==
    /\ appLog \in [Operators -> Seq(GoodStatus)]
    /\ jobLog \in [Operators -> Seq(GoodJobs)]
    /\ depLog \in [Operators -> Seq(GoodTag)]
    /\ \A o \in Operators :
          appLog[o] # <<>> /\ jobLog[o] # <<>> /\ depLog[o] # <<>>

CallInv == rec \in [Operators -> GoodCall]

(* Without a force push the branch only moves on. *)
OrderInv ==
    ~ForcePush => /\ \A c \in seen : c <= head
                  /\ \A c \in Commit : /\ tree[c] # None => tree[c] >= c
                                       /\ registry[c] # None => registry[c] >= c

BuildInv ==
    /\ TypeOK
    /\ GitInv
    /\ ServerInv
    /\ CacheInv
    /\ CallInv
    /\ OrderInv

(* The Deployment never names an image that no build has pushed, although  *)
(* the status names the image of a commit as soon as its Job is created    *)
(* (buildkit.go:110) and every copy of the status may be out of date.      *)
DeployedImageIsPushed == deployed # None => registry[deployed] # None

(* A status that says Ready names the image of its own commit, and that    *)
(* image is in the registry: reconciler.go:78 deploys on the strength of   *)
(* buildkit.go:38-41, which asks nothing else.                             *)
ReadyImageIsPushed ==
    app.phase = "Ready" => /\ app.image = app.commit
                           /\ registry[app.image] # None

(* As long as nobody force-pushes, an image holds the source of the commit *)
(* in its tag or of a later one, although the build clones the branch and  *)
(* not the commit (buildkit_job.go:150).                                   *)
ImageNotOlderThanTag ==
    ~ForcePush => \A c \in Commit : registry[c] # None => registry[c] >= c

(* Where a Deployment goes back from.  As long as nobody force-pushes, it  *)
(* is taken back to an older commit only by a call that is behind; and a   *)
(* call, which starts with the newest commit there is, falls behind only   *)
(* by promoting an old pending commit (buildkit.go:80), or because another *)
(* operator deploys meanwhile.  No stale cache, refused or lost write and  *)
(* no restart takes the Deployment back in any other way.                  *)
Behind(o) == /\ rec[o].at \in {"list", "job", "deploy"}
             /\ rec[o].commit < deployed
FallsBehind(o) == \/ PromotePending(o)
                  \/ \E p \in Operators \ {o} : EnsureRuntime(p)
OnlyPendingRollsBack ==
    [][~ForcePush =>
          /\ deployed' < deployed => \E o \in Operators : Behind(o)
          /\ \A o \in Operators : ~Behind(o) /\ Behind(o)' => FallsBehind(o)]_vars

(* The operator delivers: what it ships and serves is what Delivery says.  *)
DeliveryOfApp == INSTANCE Delivery WITH published <- seen,
                                        images <- registry,
                                        serving <- deployed
Delivers == DeliveryOfApp!Spec

(***************************************************************************)
(* Quiet: the head is served and reported Ready, nothing on its way to an  *)
(* operator says otherwise, and no call in progress works for anything     *)
(* else.  Jobs of other commits may still run, finish and be swept.  An    *)
(* image name without the pull prefix never passes for up to date, so then *)
(* the Job of the head has to be there still.                              *)
(***************************************************************************)
Rested == [phase |-> "Ready", commit |-> head, image |-> head,
           pending |-> None]
RestedJobs == {j \in [Commit -> Stage] : PullPrefixed \/ j[head] = "succeeded"}
RestedCall ==
    {r \in Call :
        r.at # "idle" => /\ r.app = Rested /\ r.commit = head
                         /\ head \notin r.old
                         /\ r.at \in {"list", "job"} => ~PullPrefixed
                         /\ r.at # "created"
                         /\ r.at = "deploy" => r.image = head}
Quiet ==
    /\ app = Rested /\ deployed = head /\ jobs \in RestedJobs
    /\ appLog \in [Operators -> Seq({Rested})]
    /\ depLog \in [Operators -> Seq({head})]
    /\ jobLog \in [Operators -> Seq(RestedJobs)]
    /\ rec \in [Operators -> RestedCall]

(* Rest is lasting: only a push takes an App out of it.  No failed call,   *)
(* lost status write, restart, second operator or write of others does,    *)
(* and neither do late Jobs of other commits: the four conditions of       *)
(* buildkit.go:38 and the exception of cleanupOldJobs (reconciler.go:209)  *)
(* are enough to keep the operator from touching anything again.           *)
RestIsLasting == [][Quiet /\ head' = head => Quiet']_vars

(* Once the branch stops moving, the App comes to rest on its head: quiet, *)
(* with the source of the head in the image that is served; or reported    *)
(* Failed when the build of the head failed twice.                         *)
AtRest ==
    \/ Quiet /\ registry[head] = head
    \/ /\ jobs[head] = "failed" /\ app.phase = "Failed"
       /\ app.commit = head /\ app.pending = None
ComesToRest == <>[]AtRest

(* In histories in which the branch may also be forced back, or the image  *)
(* name never passes for up to date, the Deployment still ends at the head *)
(* of the branch, unless its build failed.  Not in all of them: a cache    *)
(* that is late at every poll for ever can promote an old pending commit   *)
(* again and again.                                                        *)
DeploymentFollowsBranch == <>[](jobs[head] = "failed" \/ deployed = head)

(* A poll that finds the head deployed writes nothing: the status, whose   *)
(* every write wakes the reconciler up again through its own watch, is     *)
(* written only finitely often unless the head cannot be built.            *)
StatusSettles ==
    <>[](jobs[head] = "failed" \/ \A o \in Operators : Synced(appLog, o))

-----------------------------------------------------------------------------
(***************************************************************************)
(* What the comments promise and the code does not do.                     *)
(***************************************************************************)

(* "The operator will start building it immediately when the current job   *)
(* finishes" (api/v1alpha1/types.go:399): a pending commit is promoted     *)
(* only when no build is active in the list of Jobs the operator looks at. *)
PendingWaitsForBuild ==
    [][\A o \in Operators : PromotePending(o) => ~SomeJobActive(o)]_vars

(* "PendingCommit holds a commit that arrived while a build was in         *)
(* progress" (api/v1alpha1/types.go:398): on a branch that only moves on,  *)
(* it is newer than what is served, so the Deployment never moves back.    *)
NeverServesOlder == [][deployed' >= deployed]_vars

(* "It polls for new commits and rebuilds automatically" (README.md:22):   *)
(* when the branch stays where it is, its source ends up being served.     *)
SourceFollowsBranch ==
    <>[](jobs[head] = "failed" \/ (deployed = head /\ registry[head] = head))
=============================================================================
