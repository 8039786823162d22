---------------------------- MODULE BuildRestProofs ----------------------------
(***************************************************************************)
(* What a step of BuildController may never do: take an App that is quiet  *)
(* out of its rest without a push, or the Deployment back to an older      *)
(* commit without a stale pending commit.  The first is the half of        *)
(* ComesToRest that needs no fairness: TLC shows that rest is reached, the *)
(* theorem that it lasts, for any number of operators, commits, failures   *)
(* and foreign writes.                                                     *)
(***************************************************************************)
EXTENDS BuildControllerProofs

-----------------------------------------------------------------------------
(***************************************************************************)
(* Rest.  Every action writes what is there already, or nothing.           *)
(***************************************************************************)
(* What Quiet is about, when the head stays. *)
LEMMA SameRest ==
    ASSUME head' = head
    PROVE  /\ Rested' = Rested /\ RestedJobs' = RestedJobs
           /\ RestedCall' = RestedCall
BY DEF Rested, RestedJobs, RestedCall

(* Only calls change. *)
LEMMA LocalQuiet ==
    ASSUME Quiet, head' = head, rec' \in [Operators -> RestedCall],
           UNCHANGED <<app, deployed, jobs, appLog, jobLog, depLog>>
    PROVE  Quiet'
BY SameRest DEF Quiet

LEMMA GoQuiet ==
    ASSUME Quiet, head' = head, NEW o \in Operators, NEW r \in RestedCall,
           Go(o, r), UNCHANGED <<app, deployed, jobs, appLog, jobLog, depLog>>
    PROVE  Quiet'
<1>1. rec' \in [Operators -> RestedCall]
  BY DEF Quiet, Go
<1> QED BY <1>1, LocalQuiet

LEMMA IdleRested == Idle \in RestedCall
BY IdleGood DEF GoodCall, RestedCall, Idle

(* A status write of what the status is. *)
LEMMA StatusQuiet ==
    ASSUME Quiet, head' = head, NEW o \in Operators, NEW r \in RestedCall,
           StatusUpdate(o, Rested, r),
           UNCHANGED <<deployed, jobs, jobLog, depLog>>
    PROVE  Quiet'
<1>1. \A p \in Operators : [rec[p] EXCEPT !.fresh = FALSE] \in RestedCall
  BY DEF Quiet, RestedCall, Call
<1>2. rec' \in [Operators -> RestedCall]
  BY <1>1 DEF StatusUpdate, Quiet
<1>3. app' = Rested /\ appLog' \in [Operators -> Seq({Rested})]
  <2>1. CASE app' = Rested /\ appLog' = Extend(appLog, Rested)
    BY <2>1, ExtendLog DEF Quiet
  <2>2. CASE UNCHANGED appVars
    BY <2>2 DEF Quiet, appVars
  <2> QED BY <2>1, <2>2 DEF StatusUpdate
<1> QED BY <1>2, <1>3, SameRest DEF Quiet

(* Jobs are written, and the one that matters stays. *)
LEMMA JobsQuiet ==
    ASSUME Quiet, head' = head, WriteJobs(jobs'), jobs' \in RestedJobs,
           rec' \in [Operators -> RestedCall],
           UNCHANGED <<app, deployed, appLog, depLog>>
    PROVE  Quiet'
<1>1. jobLog' \in [Operators -> Seq(RestedJobs)]
  BY ExtendLog DEF Quiet, WriteJobs
<1> QED BY <1>1, SameRest DEF Quiet

-----------------------------------------------------------------------------
(* What an operator of a quiet App reads. *)
LEMMA QuietReads ==
    ASSUME BuildInv, Quiet, NEW o \in Operators
    PROVE  /\ Head(appLog[o]) = Rested /\ CachedTag(o) = head
           /\ CachedJobs(o) \in RestedJobs /\ rec[o] \in RestedCall
           /\ head \in Commit /\ Rested \in Status
<1>1. /\ appLog[o] \in Seq({Rested}) /\ appLog[o] # <<>>
      /\ depLog[o] \in Seq({head}) /\ depLog[o] # <<>>
      /\ jobLog[o] \in Seq(RestedJobs) /\ jobLog[o] # <<>>
  BY DEF Quiet, BuildInv, CacheInv
<1>2. /\ Head(appLog[o]) \in {Rested} /\ Head(depLog[o]) \in {head}
      /\ Head(jobLog[o]) \in RestedJobs
  BY <1>1, HeadTailProperties
<1>3. head \in Commit
  BY DEF BuildInv, TypeOK
<1> QED BY <1>2, <1>3 DEF CachedTag, CachedJobs, Quiet, Rested, Status, Phase,
                          CommitOrNone

LEMMA PollQuiet ==
    ASSUME BuildInv, Quiet, NEW o \in Operators, Poll(o) PROVE Quiet'
<1> DEFINE r == [Idle EXCEPT !.app = Rested, !.fresh = Synced(appLog, o),
                             !.commit = head]
<1>1. Head(appLog[o]) = Rested /\ head \in Commit /\ Rested \in Status
  BY QuietReads
<1>2. head # None
  BY <1>1 DEF Commit, None
<1>3. PullPrefixed => UpToDate(Rested, head)
  BY <1>2 DEF UpToDate, Rested
<1>4. [r EXCEPT !.at = "deploy", !.image = head] \in RestedCall
  BY <1>1 DEF RestedCall, Call, Idle, Step, CommitOrNone, Synced
<1>5. ~PullPrefixed => [r EXCEPT !.at = "list"] \in RestedCall
  BY <1>1 DEF RestedCall, Call, Idle, Step, CommitOrNone, Synced
<1>6. Rested.image = head
  BY DEF Rested
<1>7. PICK q \in RestedCall : Go(o, q)
  BY <1>1, <1>3, <1>4, <1>5, <1>6 DEF Poll, LatestCommit, UpToDate
<1> QED BY <1>7, GoQuiet
        DEF Poll, gitVars, buildVars, appVars, depVars

(* The calls that get to the list of Jobs find the head built. *)
LEMMA ListQuiet ==
    ASSUME BuildInv, Quiet, NEW o \in Operators,
           \/ QueueCommit(o) \/ WaitForBuild(o) \/ PromotePending(o)
           \/ PassList(o)
    PROVE  Quiet'
<1> USE DEF gitVars, buildVars, appVars, depVars
<1>1. /\ rec[o] \in RestedCall /\ rec[o].at = "list"
      /\ rec[o].app = Rested /\ rec[o].commit = head
  BY QuietReads DEF QueueCommit, WaitForBuild, PromotePending, PassList,
                    RestedCall
<1>2. rec[o].app.commit = head /\ rec[o].app.pending = None
  BY <1>1 DEF Rested
<1>3. ~QueueCommit(o) /\ ~PromotePending(o)
  BY <1>1, <1>2 DEF QueueCommit, PromotePending, Promotes
<1>4. CASE WaitForBuild(o)
  BY <1>4, IdleRested, GoQuiet DEF WaitForBuild
<1>5. CASE PassList(o)
  <2>1. [rec[o] EXCEPT !.at = "job"] \in RestedCall
    BY <1>1 DEF RestedCall, Call, Step
  <2> QED BY <1>5, <2>1, GoQuiet DEF PassList
<1> QED BY <1>3, <1>4, <1>5

LEMMA JobQuiet ==
    ASSUME BuildInv, Quiet, NEW o \in Operators,
           \/ CreateJob(o) \/ RecordBuilding(o) \/ ReportReady(o)
           \/ ReportFailed(o) \/ StillRunning(o)
    PROVE  Quiet'
<1> USE DEF gitVars, buildVars, appVars, depVars
<1>1. rec[o] \in RestedCall /\ CachedJobs(o) \in RestedJobs
  BY QuietReads
<1>2. ~RecordBuilding(o)
  BY <1>1 DEF RecordBuilding, RestedCall
<1>3. /\ rec[o].at = "job" /\ ~PullPrefixed
      /\ rec[o].app = Rested /\ rec[o].commit = head
  BY <1>1, <1>2 DEF CreateJob, ReportReady, ReportFailed, StillRunning,
                    RestedCall
<1>4. CachedStage(o) = "succeeded"
  BY <1>1, <1>3 DEF CachedStage, RestedJobs
<1>5. ~CreateJob(o) /\ ~ReportFailed(o) /\ ~StillRunning(o)
  BY <1>4 DEF CreateJob, ReportFailed, JobFailed, Succeeded, StillRunning
<1>6. WithStatus(Rested, "Ready", head, head) = Rested
  <2> DEFINE a == Rested
  <2>1. /\ a \in [phase : Phase, commit : CommitOrNone, image : CommitOrNone,
                  pending : CommitOrNone]
        /\ a.phase = "Ready" /\ a.commit = head /\ a.image = head
    BY QuietReads DEF Rested, Status
  <2> HIDE DEF a
  <2>2. [a EXCEPT !.phase = "Ready", !.commit = head, !.image = head] = a
    BY <2>1
  <2> QED BY <2>2 DEF WithStatus, a
<1>7. [rec[o] EXCEPT !.at = "deploy", !.app = Rested, !.image = head]
          \in RestedCall
  BY <1>1, <1>3, QuietReads DEF RestedCall, Call, Step, CommitOrNone
<1>8. ReportReady(o)
  BY <1>2, <1>5
<1>9. StatusUpdate(o, Rested, [rec[o] EXCEPT !.at = "deploy", !.app = Rested,
                                             !.image = head])
  BY <1>3, <1>6, <1>8, Zenon DEF ReportReady
<1> QED BY <1>7, <1>8, <1>9, StatusQuiet DEF ReportReady

LEMMA RuntimeQuiet ==
    ASSUME BuildInv, Quiet, NEW o \in Operators, EnsureRuntime(o)
    PROVE  Quiet'
<1> USE DEF gitVars, buildVars, appVars, depVars
<1>1. /\ rec[o] \in RestedCall /\ rec[o].app = Rested /\ rec[o].image = head
      /\ rec[o].commit = head
      /\ CachedTag(o) = head
  BY QuietReads DEF EnsureRuntime, RestedCall
<1>2. ~NeedsDeployment(CachedTag(o), rec[o].image)
  BY <1>1 DEF NeedsDeployment
<1>3. Sweep(o) \in RestedCall
  <2>1. /\ OldJobs(CachedJobs(o), rec[o].app.commit) \subseteq Commit
        /\ head \notin OldJobs(CachedJobs(o), rec[o].app.commit)
    BY <1>1 DEF OldJobs, Rested
  <2> QED BY <1>1, <2>1, IdleRested DEF Sweep, SweepFrom, RestedCall, Call, Step
<1>4. Go(o, Sweep(o)) /\ UNCHANGED depVars
  BY <1>2 DEF EnsureRuntime
<1> QED BY <1>3, <1>4, GoQuiet DEF EnsureRuntime

LEMMA SweepQuiet ==
    ASSUME BuildInv, Quiet, NEW o \in Operators, NEW c \in Commit,
           DeleteOldJob(o, c)
    PROVE  Quiet'
<1> USE DEF gitVars, buildVars, appVars, depVars
<1>1. /\ rec[o] \in RestedCall /\ rec[o].app = Rested /\ rec[o].commit = head
      /\ c # head /\ rec[o].old \subseteq Commit
  BY QuietReads DEF DeleteOldJob, RestedCall, Call
<1>2. SweepFrom(o, rec[o].old \ {c}) \in RestedCall
  BY <1>1, IdleRested DEF SweepFrom, RestedCall, Call, Step, DeleteOldJob
<1>3. rec' \in [Operators -> RestedCall]
  BY <1>2 DEF DeleteOldJob, Go, Quiet
<1>4. CASE UNCHANGED buildVars
  BY <1>3, <1>4, LocalQuiet DEF DeleteOldJob
<1>5. CASE WriteJobs([jobs EXCEPT ![c] = "absent"])
  <2>1. jobs' = [jobs EXCEPT ![c] = "absent"] /\ WriteJobs(jobs')
    BY <1>5, Zenon DEF WriteJobs
  <2>2. /\ jobs \in [Commit -> Stage] /\ "absent" \in Stage /\ head \in Commit
        /\ PullPrefixed \/ jobs[head] = "succeeded"
    BY QuietReads DEF Quiet, RestedJobs, Stage
  <2>3. jobs' \in [Commit -> Stage]
    BY <2>1, <2>2
  <2>4. PullPrefixed \/ jobs'[head] = "succeeded"
    BY <1>1, <2>1, <2>2
  <2>5. jobs' \in RestedJobs
    BY <2>3, <2>4 DEF RestedJobs
  <2> QED BY <1>3, <2>1, <2>5, JobsQuiet DEF DeleteOldJob
<1> QED BY <1>4, <1>5 DEF DeleteOldJob

LEMMA PodQuiet ==
    ASSUME BuildInv, Quiet, NEW c \in Commit, Pod(c) \/ PodFail(c)
    PROVE  Quiet'
<1> USE DEF gitVars, buildVars, appVars, depVars
<1>1. CASE Clone(c)
  BY <1>1, LocalQuiet DEF Clone, Quiet
<1>2. CASE PodStart(c) \/ PodSucceed(c) \/ PodFail(c)
  <2>1. PICK s \in Stage : WriteJobs([jobs EXCEPT ![c] = s])
    BY <1>2 DEF PodStart, PodSucceed, PodFail, Stage, Quiet, RestedJobs
  <2>2. jobs[c] # "succeeded"
    BY <1>2 DEF PodStart, PodSucceed, PodFail, Active
  <2>3. jobs' = [jobs EXCEPT ![c] = s] /\ WriteJobs(jobs')
    BY <2>1, Zenon DEF WriteJobs
  <2>4. jobs' \in RestedJobs
    <3>1. /\ jobs \in [Commit -> Stage] /\ head \in Commit
          /\ PullPrefixed \/ jobs[head] = "succeeded"
      BY DEF Quiet, RestedJobs, BuildInv, TypeOK
    <3>2. jobs' \in [Commit -> Stage]
      BY <2>3, <3>1
    <3>3. ~PullPrefixed => jobs'[head] = "succeeded"
      <4>1. ~PullPrefixed => c # head
        BY <2>2, <3>1
      <4> QED BY <2>3, <3>1, <4>1
    <3> QED BY <3>2, <3>3 DEF RestedJobs
  <2>5. /\ rec' \in [Operators -> RestedCall]
        /\ UNCHANGED <<head, app, deployed, appLog, depLog>>
    BY <1>2 DEF PodStart, PodSucceed, PodFail, Quiet
  <2> QED BY <2>3, <2>4, <2>5, JobsQuiet
<1> QED BY <1>1, <1>2 DEF Pod

LEMMA TouchQuiet ==
    ASSUME BuildInv, Quiet, TouchApp \/ TouchDeployment PROVE Quiet'
<1> USE DEF gitVars, buildVars, appVars, depVars
<1>1. CASE TouchApp
  <2>1. appLog' \in [Operators -> Seq({Rested})]
    BY <1>1, ExtendLog DEF TouchApp, Quiet
  <2>2. rec' \in [Operators -> RestedCall]
    BY <1>1 DEF TouchApp, Quiet, RestedCall, Call
  <2> QED BY <1>1, <2>1, <2>2, SameRest DEF TouchApp, Quiet
<1>2. CASE TouchDeployment
  <2>1. depLog' \in [Operators -> Seq({head})] /\ deployed' = head
    BY <1>2, ExtendLog DEF TouchDeployment, WriteDeployment, Quiet
  <2> QED BY <1>2, <2>1, SameRest DEF TouchDeployment, Quiet
<1> QED BY <1>1, <1>2

LEMMA FaultQuiet ==
    ASSUME BuildInv, Quiet, NEW o \in Operators, Fail(o) \/ Crash(o)
    PROVE  Quiet'
<1> USE DEF gitVars, buildVars, appVars, depVars
<1>1. CASE Fail(o)
  BY <1>1, IdleRested, GoQuiet DEF Fail
<1>2. CASE Crash(o)
  <2>1. rec' \in [Operators -> RestedCall]
    BY <1>2, IdleRested DEF Crash, Go, Quiet
  <2>2. /\ appLog' \in [Operators -> Seq({Rested})]
        /\ depLog' \in [Operators -> Seq({head})]
        /\ jobLog' \in [Operators -> Seq(RestedJobs)]
    <3>1. \A p \in Operators : /\ appLog[p] # <<>> /\ jobLog[p] # <<>>
                               /\ depLog[p] # <<>>
      BY DEF BuildInv, CacheInv
    <3> QED BY <1>2, <3>1, ResetLog DEF Crash, Quiet
  <2> QED BY <1>2, <2>1, <2>2, SameRest DEF Crash, Quiet
<1> QED BY <1>1, <1>2

LEMMA DeliverQuiet ==
    ASSUME BuildInv, Quiet, NEW o \in Operators, Deliver(o) PROVE Quiet'
<1> USE DEF gitVars, buildVars, appVars, depVars
<1>1. \A p \in Operators : appLog[p] # <<>> /\ jobLog[p] # <<>> /\ depLog[p] # <<>>
  BY DEF BuildInv, CacheInv
<1>2. CASE DeliverApp(o)
  <2>1. appLog' \in [Operators -> Seq({Rested})]
    BY <1>1, <1>2, DeliverLog DEF DeliverApp, Quiet
  <2> QED BY <1>2, <2>1, SameRest DEF DeliverApp, Quiet
<1>3. CASE DeliverJobs(o)
  <2>1. jobLog' \in [Operators -> Seq(RestedJobs)]
    BY <1>1, <1>3, DeliverLog DEF DeliverJobs, Quiet
  <2> QED BY <1>3, <2>1, SameRest DEF DeliverJobs, Quiet
<1>4. CASE DeliverDeployment(o)
  <2>1. depLog' \in [Operators -> Seq({head})]
    BY <1>1, <1>4, DeliverLog DEF DeliverDeployment, Quiet
  <2> QED BY <1>4, <2>1, SameRest DEF DeliverDeployment, Quiet
<1> QED BY <1>2, <1>3, <1>4 DEF Deliver

LEMMA StepQuiet ==
    ASSUME BuildInv, [Next]_vars, Quiet, head' = head PROVE Quiet'
<1>1. ASSUME NEW o \in Operators, Deliver(o) PROVE Quiet'
  BY <1>1, DeliverQuiet
<1>2. ASSUME NEW o \in Operators, Operate(o) PROVE Quiet'
  BY <1>2, PollQuiet, ListQuiet, JobQuiet, RuntimeQuiet, SweepQuiet DEF Operate
<1>3. ASSUME NEW c \in Commit, Pod(c) \/ PodFail(c) PROVE Quiet'
  BY <1>3, PodQuiet
<1>4. ASSUME NEW c \in Commit, Push(c) PROVE Quiet'
  BY <1>4, LocalQuiet DEF Push, Quiet, buildVars, appVars, depVars
<1>5. CASE TouchApp \/ TouchDeployment
  BY <1>5, TouchQuiet
<1>6. ASSUME NEW o \in Operators, Fail(o) \/ Crash(o) PROVE Quiet'
  BY <1>6, FaultQuiet
<1>7. CASE UNCHANGED vars
  BY <1>7, LocalQuiet DEF vars, gitVars, buildVars, appVars, depVars, Quiet
<1> QED BY <1>1, <1>2, <1>3, <1>4, <1>5, <1>6, <1>7 DEF Next, Disturb

(* Rest is lasting: only a push ends it. *)
THEOREM RestLasts == Spec => RestIsLasting
<1>1. BuildInv /\ [Next]_vars => [Quiet /\ head' = head => Quiet']_vars
  BY StepQuiet
<1> QED BY <1>1, BuildInvariance, PTL DEF Spec, RestIsLasting

-----------------------------------------------------------------------------
(***************************************************************************)
(* Going back.  A call holds the newest commit when it starts, and nothing *)
(* but the promotion of a pending commit gives it another.                 *)
(***************************************************************************)
LEMMA DeployedNotAhead ==
    ASSUME BuildInv, ~ForcePush
    PROVE  deployed \in Nat /\ head \in Nat /\ deployed <= head
<1>1. deployed \in Shipped \cup {None} /\ head \in Commit
  BY DEF BuildInv, ServerInv, GoodTag, TypeOK
<1>2. \A c \in Shipped : c \in Commit /\ c <= head
  BY DEF BuildInv, ServerInv, OrderInv, Shipped
<1> QED BY <1>1, <1>2, ConstantsAssumption DEF Commit, None

LEMMA SameBehind ==
    ASSUME NEW o \in Operators, deployed' = deployed,
           rec'[o].at = rec[o].at, rec'[o].commit = rec[o].commit
    PROVE  Behind(o)' = Behind(o)
BY DEF Behind

LEMMA NotBehind ==
    ASSUME NEW o \in Operators, rec'[o].at \in {"idle", "sweep", "created"}
    PROVE  ~Behind(o)'
BY DEF Behind

(* A call that starts holds the head. *)
LEMMA PollBehind ==
    ASSUME BuildInv, ~ForcePush, NEW o \in Operators, Poll(o)
    PROVE  ~Behind(o)'
<1> DEFINE r == [Idle EXCEPT !.app = Head(appLog[o]),
                             !.fresh = Synced(appLog, o), !.commit = head]
           q == IF UpToDate(Head(appLog[o]), head)
                THEN [r EXCEPT !.at = "deploy", !.image = Head(appLog[o]).image]
                ELSE [r EXCEPT !.at = "list"]
<1>1. q.commit = head
  BY DEF Idle
<1>2. rec' = [rec EXCEPT ![o] = q] /\ deployed' = deployed /\ head' = head
  BY DEF Poll, Go, LatestCommit, depVars, gitVars
<1>3. rec \in [Operators -> Call]
  BY DEF BuildInv, TypeOK
<1> HIDE DEF q
<1>4. rec'[o].commit = head
  BY <1>1, <1>2, <1>3
<1>5. ~(head < deployed)
  BY DeployedNotAhead
<1> QED BY <1>2, <1>4, <1>5 DEF Behind

(* A status update goes on as the call says, and only marks the others. *)
LEMMA StatusCalls ==
    ASSUME BuildInv, NEW o \in Operators, NEW s, NEW r, StatusUpdate(o, s, r)
    PROVE  /\ rec'[o] = r
           /\ \A p \in Operators \ {o} : /\ rec'[p].at = rec[p].at
                                         /\ rec'[p].commit = rec[p].commit
<1>1. rec \in [Operators -> Call]
  BY DEF BuildInv, TypeOK
<1>2. CASE rec' = [rec EXCEPT ![o] = r]
  BY <1>1, <1>2
<1>3. CASE rec' = [p \in Operators |-> IF p = o THEN r
                                       ELSE [rec[p] EXCEPT !.fresh = FALSE]]
  <2>1. \A p \in Operators : rec[p] \in Call
    BY <1>1
  <2>2. \A p \in Operators \ {o} : rec'[p] = [rec[p] EXCEPT !.fresh = FALSE]
    BY <1>3
  <2>3. \A p \in Operators : /\ [rec[p] EXCEPT !.fresh = FALSE].at = rec[p].at
                             /\ [rec[p] EXCEPT !.fresh = FALSE].commit
                                  = rec[p].commit
    BY <2>1 DEF Call
  <2> QED BY <1>3, <2>2, <2>3
<1> QED BY <1>2, <1>3 DEF StatusUpdate

LEMMA GoCalls ==
    ASSUME BuildInv, NEW o \in Operators, NEW r, Go(o, r)
    PROVE  rec'[o] = r /\ \A p \in Operators \ {o} : rec'[p] = rec[p]
BY DEF Go, BuildInv, TypeOK

LEMMA SweepStep ==
    ASSUME BuildInv, NEW o \in Operators, NEW S
    PROVE  SweepFrom(o, S).at \in {"idle", "sweep"}
<1> DEFINE q == [rec[o] EXCEPT !.at = "sweep", !.old = S]
<1>1. rec[o] \in Call
  BY CallFields
<1>2. q.at = "sweep"
  BY <1>1 DEF Call
<1>3. SweepFrom(o, S) = Idle \/ SweepFrom(o, S) = q
  BY DEF SweepFrom
<1>4. Idle.at = "idle"
  BY DEF Idle
<1> HIDE DEF q
<1> QED BY <1>2, <1>3, <1>4

(* A step of one operator that leaves the Deployment alone. *)
LEMMA OwnBehind ==
    ASSUME BuildInv, ~ForcePush, NEW o \in Operators, Operate(o),
           ~EnsureRuntime(o), ~PromotePending(o), ~Behind(o)
    PROVE  ~Behind(o)'
<1>0. rec[o] \in Call
  BY CallFields
<1>1. CASE Poll(o)
  BY <1>1, PollBehind
<1>2. CASE QueueCommit(o)
  BY <1>2, StatusCalls, NotBehind DEF QueueCommit, Idle
<1>3. CASE WaitForBuild(o)
  BY <1>3, GoCalls, NotBehind DEF WaitForBuild, Idle
<1>4. CASE PassList(o)
  <2>1. /\ rec'[o] = [rec[o] EXCEPT !.at = "job"] /\ rec[o].at = "list"
        /\ deployed' = deployed
    BY <1>4, GoCalls DEF PassList, depVars
  <2> QED BY <1>0, <2>1 DEF Behind, Call
<1>5. CASE CreateJob(o)
  <2>1. \/ rec'[o] = Idle
        \/ rec'[o] = [rec[o] EXCEPT !.at = "created"]
    BY <1>5, GoCalls DEF CreateJob
  <2> QED BY <1>0, <2>1, NotBehind DEF Call, Idle
<1>6. CASE RecordBuilding(o)
  BY <1>6, StatusCalls, NotBehind DEF RecordBuilding, Idle
<1>7. CASE ReportReady(o)
  <2> DEFINE ready == WithStatus(rec[o].app, "Ready", rec[o].commit,
                                 rec[o].commit)
             q == [rec[o] EXCEPT !.at = "deploy", !.app = ready,
                                 !.image = rec[o].commit]
  <2>1. StatusUpdate(o, ready, q) /\ rec[o].at = "job" /\ deployed' = deployed
    BY <1>7 DEF ReportReady, depVars
  <2>2. q.commit = rec[o].commit
    BY <1>0 DEF Call
  <2> HIDE DEF q, ready
  <2>3. rec'[o] = q
    BY <2>1, StatusCalls
  <2> QED BY <2>1, <2>2, <2>3 DEF Behind
<1>8. CASE ReportFailed(o)
  BY <1>8, StatusCalls, NotBehind DEF ReportFailed, Idle
<1>9. CASE StillRunning(o)
  BY <1>9, GoCalls, NotBehind DEF StillRunning, Idle
<1>10. ASSUME NEW c \in Commit, DeleteOldJob(o, c) PROVE ~Behind(o)'
  <2>1. rec'[o] = SweepFrom(o, rec[o].old \ {c}) /\ rec[o].at = "sweep"
    BY <1>10, GoCalls DEF DeleteOldJob
  <2> QED BY <2>1, SweepStep, NotBehind
<1> QED BY <1>1, <1>2, <1>3, <1>4, <1>5, <1>6, <1>7, <1>8, <1>9, <1>10
        DEF Operate

(* Only EnsureRuntime writes the Deployment, and its own call is over then. *)
LEMMA RuntimeBehind ==
    ASSUME BuildInv, NEW o \in Operators, EnsureRuntime(o)
    PROVE  /\ ~Behind(o)'
           /\ deployed' \in {deployed, rec[o].commit}
           /\ rec[o].at = "deploy"
<1>1. rec'[o] \in {Idle, Sweep(o)} /\ rec[o].at = "deploy"
  BY GoCalls DEF EnsureRuntime
<1>2. rec'[o].at \in {"idle", "sweep"}
  BY <1>1, SweepStep DEF Sweep, Idle
<1>3. deployed' \in {deployed, rec[o].image}
  BY DEF EnsureRuntime, WriteDeployment, depVars
<1> QED BY <1>1, <1>2, <1>3, NotBehind, CallFields

(* A step of one operator changes the calls of others in "fresh" at most. *)
LEMMA OtherCalls ==
    ASSUME BuildInv, NEW o \in Operators, Operate(o),
           NEW p \in Operators \ {o}
    PROVE  rec'[p].at = rec[p].at /\ rec'[p].commit = rec[p].commit
<1>1. CASE \E r : Go(o, r)
  BY <1>1, GoCalls
<1>2. CASE \E s, r : StatusUpdate(o, s, r)
  BY <1>2, StatusCalls
<1>3. CASE EnsureRuntime(o)
  BY <1>1, <1>3 DEF EnsureRuntime
<1>4. CASE Poll(o) \/ WaitForBuild(o) \/ PassList(o) \/ CreateJob(o)
           \/ StillRunning(o) \/ \E c \in Commit : DeleteOldJob(o, c)
  BY <1>1, <1>4 DEF Poll, WaitForBuild, PassList, CreateJob, StillRunning,
                    DeleteOldJob
<1>5. CASE QueueCommit(o) \/ PromotePending(o) \/ RecordBuilding(o)
           \/ ReportReady(o) \/ ReportFailed(o)
  BY <1>2, <1>5 DEF QueueCommit, PromotePending, RecordBuilding, ReportReady,
                    ReportFailed
<1> QED BY <1>3, <1>4, <1>5 DEF Operate

LEMMA OperateBehind ==
    ASSUME BuildInv, ~ForcePush, NEW o \in Operators, Operate(o)
    PROVE  /\ deployed' < deployed => Behind(o)
           /\ \A p \in Operators : ~Behind(p) /\ Behind(p)' => FallsBehind(p)
<1>1. ~EnsureRuntime(o) => deployed' = deployed
  BY DEF Operate, Poll, QueueCommit, WaitForBuild, PromotePending, PassList,
         CreateJob, RecordBuilding, ReportReady, ReportFailed, StillRunning,
         DeleteOldJob, depVars
<1>2. deployed' < deployed => Behind(o)
  <2>1. CASE EnsureRuntime(o)
    BY <2>1, RuntimeBehind, DeployedNotAhead DEF Behind
  <2>2. CASE ~EnsureRuntime(o)
    BY <1>1, <2>2, DeployedNotAhead
  <2> QED BY <2>1, <2>2
<1>3. ~Behind(o) /\ Behind(o)' => FallsBehind(o)
  BY OwnBehind, RuntimeBehind DEF FallsBehind
<1>4. ASSUME NEW p \in Operators \ {o}, ~Behind(p), Behind(p)'
      PROVE  FallsBehind(p)
  BY <1>1, <1>4, OtherCalls, SameBehind DEF FallsBehind
<1> QED BY <1>2, <1>3, <1>4

(* The others leave the Deployment where it is and give no call a commit. *)
LEMMA WorldBehind ==
    ASSUME BuildInv, ~ForcePush,
           \/ \E o \in Operators : Deliver(o) \/ Fail(o) \/ Crash(o)
           \/ \E c \in Commit : Pod(c) \/ PodFail(c) \/ Push(c)
           \/ TouchApp \/ TouchDeployment \/ UNCHANGED vars
    PROVE  /\ deployed' = deployed
           /\ \A p \in Operators : Behind(p)' => Behind(p)
<1>1. deployed' = deployed
  BY DEF Deliver, DeliverApp, DeliverJobs, DeliverDeployment, Fail, Crash, Pod,
         PodStart, Clone, PodSucceed, PodFail, Push, TouchApp, TouchDeployment,
         WriteDeployment, depVars, vars
<1>2. CASE UNCHANGED rec
  BY <1>1, <1>2, SameBehind
<1>3. CASE TouchApp
  <2>1. \A p \in Operators : rec[p] \in Call
    BY CallFields
  <2>2. \A p \in Operators : rec'[p] = [rec[p] EXCEPT !.fresh = FALSE]
    BY <1>3 DEF TouchApp
  <2>3. \A p \in Operators : rec'[p].at = rec[p].at
                             /\ rec'[p].commit = rec[p].commit
    BY <2>1, <2>2 DEF Call
  <2> QED BY <1>1, <2>3, SameBehind
<1>4. ASSUME NEW o \in Operators, Fail(o) \/ Crash(o)
      PROVE  \A p \in Operators : Behind(p)' => Behind(p)
  <2>1. Go(o, Idle)
    BY <1>4 DEF Fail, Crash
  <2>2. ~Behind(o)'
    BY <2>1, GoCalls, NotBehind DEF Idle
  <2>3. \A p \in Operators \ {o} : /\ rec'[p].at = rec[p].at
                                    /\ rec'[p].commit = rec[p].commit
    BY <2>1, GoCalls
  <2>4. \A p \in Operators \ {o} : Behind(p)' => Behind(p)
    BY <1>1, <2>3 DEF Behind
  <2> QED BY <2>2, <2>4
<1> QED BY <1>1, <1>2, <1>3, <1>4
        DEF Deliver, DeliverApp, DeliverJobs, DeliverDeployment, Pod, PodStart,
            Clone, PodSucceed, PodFail, Push, TouchDeployment, vars

(* The Deployment goes back to an older commit only by a stale pending     *)
(* commit or by another operator.                                          *)
THEOREM RollbackOnlyByPending == Spec => OnlyPendingRollsBack
<1> DEFINE A == ~ForcePush =>
                    /\ deployed' < deployed => \E o \in Operators : Behind(o)
                    /\ \A o \in Operators :
                           ~Behind(o) /\ Behind(o)' => FallsBehind(o)
<1>1. ASSUME BuildInv, [Next]_vars, ~ForcePush
      PROVE  /\ deployed' < deployed => \E o \in Operators : Behind(o)
             /\ \A o \in Operators :
                    ~Behind(o) /\ Behind(o)' => FallsBehind(o)
  <2>1. CASE \E o \in Operators : Operate(o)
    BY <1>1, <2>1, OperateBehind
  <2>2. CASE \/ \E o \in Operators : Deliver(o) \/ Fail(o) \/ Crash(o)
             \/ \E c \in Commit : Pod(c) \/ PodFail(c) \/ Push(c)
             \/ TouchApp \/ TouchDeployment \/ UNCHANGED vars
    BY <1>1, <2>2, WorldBehind, DeployedNotAhead
  <2> QED BY <1>1, <2>1, <2>2 DEF Next, Disturb
<1>2. BuildInv /\ [Next]_vars => [A]_vars
  BY <1>1
<1> QED BY <1>2, BuildInvariance, PTL DEF Spec, OnlyPendingRollsBack
=============================================================================
