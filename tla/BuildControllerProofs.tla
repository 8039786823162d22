------------------------ MODULE BuildControllerProofs ------------------------
(***************************************************************************)
(* BuildInv is an invariant of BuildController for every number of         *)
(* operators and commits and every bound; what follows from it.            *)
(*                                                                         *)
(* Each action is reduced to one of a few shapes: a step that changes only *)
(* the call in progress, a status update, a write of the Jobs, a write of  *)
(* the Deployment, a delivery.  A shape preserves the invariant when what  *)
(* it writes is good: the sets GoodStatus, GoodJobs, GoodTag and GoodCall  *)
(* only grow, as commits and images are only added.                        *)
(***************************************************************************)
EXTENDS BuildController, SequenceTheorems, TLAPS

Counters == pushes \in Nat /\ faults \in Nat /\ touches \in Nat

(* The good sets depend on seen and registry alone. *)
LEMMA SameGood ==
    ASSUME seen' = seen, registry' = registry
    PROVE  /\ Shipped' = Shipped /\ GoodStatus' = GoodStatus
           /\ GoodJobs' = GoodJobs /\ GoodTag' = GoodTag
           /\ GoodCall' = GoodCall
BY DEF Shipped, GoodStatus, GoodJobs, GoodTag, GoodCall

(* They grow with the commits seen and the images shipped. *)
LEMMA MoreGood ==
    ASSUME seen \subseteq seen', Shipped \subseteq Shipped'
    PROVE  /\ GoodStatus \subseteq GoodStatus' /\ GoodJobs \subseteq GoodJobs'
           /\ GoodTag \subseteq GoodTag' /\ GoodCall \subseteq GoodCall'
<1>1. GoodStatus \subseteq GoodStatus'
  BY DEF GoodStatus
<1>2. GoodJobs \subseteq GoodJobs'
  BY DEF GoodJobs
<1>3. GoodTag \subseteq GoodTag'
  BY DEF GoodTag
<1>4. GoodCall \subseteq GoodCall'
  BY <1>1 DEF GoodCall
<1> QED BY <1>1, <1>2, <1>3, <1>4

(* Logs of good values stay so when the good values grow. *)
LEMMA GrowLog ==
    ASSUME NEW S, NEW T, S \subseteq T, NEW log \in [Operators -> Seq(S)]
    PROVE  log \in [Operators -> Seq(T)]
<1>1. \A o \in Operators : log[o] \in Seq(T)
  BY SeqMonotonic
<1> QED BY <1>1

(* A version appended to every log. *)
LEMMA ExtendLog ==
    ASSUME NEW S, NEW log \in [Operators -> Seq(S)], NEW v \in S
    PROVE  /\ Extend(log, v) \in [Operators -> Seq(S)]
           /\ \A o \in Operators : Extend(log, v)[o] # <<>>
<1>1. \A o \in Operators : Append(log[o], v) \in Seq(S) /\ Append(log[o], v) # <<>>
  BY AppendProperties
<1> QED BY <1>1 DEF Extend

(* A version delivered, and the cached version. *)
LEMMA DeliverLog ==
    ASSUME NEW S, NEW log \in [Operators -> Seq(S)], NEW o \in Operators,
           \A p \in Operators : log[p] # <<>>, ~Synced(log, o)
    PROVE  /\ [log EXCEPT ![o] = Tail(@)] \in [Operators -> Seq(S)]
           /\ \A p \in Operators : [log EXCEPT ![o] = Tail(@)][p] # <<>>
<1>1. /\ Tail(log[o]) \in Seq(S)
      /\ Len(Tail(log[o])) = Len(log[o]) - 1
  BY HeadTailProperties
<1>2. Len(log[o]) \in Nat /\ Len(log[o]) # 1
  BY LenProperties DEF Synced
<1>3. Len(<<>>) = 0
  OBVIOUS
<1>4. Tail(log[o]) # <<>>
  <2> SUFFICES ASSUME Tail(log[o]) = <<>> PROVE FALSE
    OBVIOUS
  <2>1. Len(Tail(log[o])) = 0
    BY <1>3, Zenon
  <2>2. \A n \in Nat : n # 1 => n - 1 # 0
    OBVIOUS
  <2> QED BY <1>1, <1>2, <2>1, <2>2
<1> QED BY <1>1, <1>4

LEMMA ResetLog ==
    ASSUME NEW S, NEW log \in [Operators -> Seq(S)], NEW o \in Operators,
           \A p \in Operators : log[p] # <<>>, NEW v \in S
    PROVE  /\ [log EXCEPT ![o] = <<v>>] \in [Operators -> Seq(S)]
           /\ \A p \in Operators : [log EXCEPT ![o] = <<v>>][p] # <<>>
OBVIOUS

LEMMA CachedGood ==
    ASSUME CacheInv, NEW o \in Operators
    PROVE  /\ Head(appLog[o]) \in GoodStatus
           /\ CachedJobs(o) \in GoodJobs
           /\ CachedTag(o) \in GoodTag
<1>1. appLog[o] \in Seq(GoodStatus) /\ appLog[o] # <<>>
  BY DEF CacheInv
<1>2. jobLog[o] \in Seq(GoodJobs) /\ jobLog[o] # <<>>
  BY DEF CacheInv
<1>3. depLog[o] \in Seq(GoodTag) /\ depLog[o] # <<>>
  BY DEF CacheInv
<1> QED BY <1>1, <1>2, <1>3, HeadTailProperties DEF CachedJobs, CachedTag

LEMMA IdleGood == Idle \in GoodCall
BY DEF Idle, GoodCall, Call, Step, GoodStatus, Status, NoStatus, Phase,
       CommitOrNone, None

LEMMA TypeFromParts ==
    ASSUME GitInv', ServerInv', CacheInv', CallInv', Counters',
           tree' \in [Commit -> CommitOrNone],
           registry' \in [Commit -> CommitOrNone]
    PROVE  TypeOK'
<1>1. GoodStatus' \subseteq Status /\ GoodJobs' \subseteq [Commit -> Stage]
  BY DEF GoodStatus, GoodJobs
<1>2. GoodTag' \subseteq CommitOrNone /\ GoodCall' \subseteq Call
  BY DEF GoodTag, Shipped, GoodCall, CommitOrNone
<1>3. appLog' \in [Operators -> Seq(Status)]
  BY <1>1, GrowLog DEF CacheInv
<1>4. jobLog' \in [Operators -> Seq([Commit -> Stage])]
  BY <1>1, GrowLog DEF CacheInv
<1>5. depLog' \in [Operators -> Seq(CommitOrNone)]
  BY <1>2, GrowLog DEF CacheInv
<1> QED BY <1>1, <1>2, <1>3, <1>4, <1>5
        DEF TypeOK, GitInv, ServerInv, CallInv, Counters
-----------------------------------------------------------------------------
(* The initial states. *)
THEOREM InitInv == Init => BuildInv
<1> SUFFICES ASSUME Init PROVE BuildInv
  OBVIOUS
<1> USE ConstantsAssumption DEF Init
<1>1. NoStatus \in GoodStatus
  BY DEF NoStatus, GoodStatus, Status, Phase, CommitOrNone
<1>2. jobs \in GoodJobs
  BY DEF GoodJobs, Stage
<1>3. deployed \in GoodTag
  BY DEF GoodTag
<1>4. GitInv
  BY DEF GitInv, Commit
<1>5. ServerInv
  BY <1>1, <1>2, <1>3 DEF ServerInv
<1>6. CacheInv
  BY <1>1, <1>2, <1>3 DEF CacheInv
<1>7. CallInv
  BY IdleGood DEF CallInv
<1>8. OrderInv
  BY DEF OrderInv
<1>9. TypeOK
  <2>1. NoStatus \in Status /\ Idle \in Call
    BY <1>1, IdleGood DEF GoodStatus, GoodCall
  <2>2. jobs \in [Commit -> Stage] /\ deployed \in CommitOrNone
    BY <1>2 DEF GoodJobs, CommitOrNone
  <2>3. /\ tree \in [Commit -> CommitOrNone]
        /\ registry \in [Commit -> CommitOrNone]
        /\ head \in Commit /\ seen \in SUBSET Commit
    BY <1>4 DEF CommitOrNone, GitInv
  <2> QED BY <2>1, <2>2, <2>3 DEF TypeOK
<1> QED BY <1>4, <1>5, <1>6, <1>7, <1>8, <1>9 DEF BuildInv

-----------------------------------------------------------------------------
(***************************************************************************)
(* The shapes.                                                             *)
(***************************************************************************)

(* Nothing but the calls in progress changes. *)
LEMMA LocalStep ==
    ASSUME BuildInv, rec' \in [Operators -> GoodCall], Counters',
           UNCHANGED <<gitVars, buildVars, appVars, depVars>>
    PROVE  BuildInv'
<1> USE DEF gitVars, buildVars, appVars, depVars
<1>1. /\ Shipped' = Shipped /\ GoodStatus' = GoodStatus
      /\ GoodJobs' = GoodJobs /\ GoodTag' = GoodTag /\ GoodCall' = GoodCall
  BY SameGood
<1>2. GitInv' /\ OrderInv'
  BY DEF BuildInv, GitInv, OrderInv
<1>3. ServerInv'
  BY <1>1 DEF BuildInv, ServerInv
<1>4. CacheInv'
  BY <1>1 DEF BuildInv, CacheInv
<1>5. CallInv'
  BY <1>1 DEF CallInv
<1>6. TypeOK'
  BY <1>2, <1>3, <1>4, <1>5, TypeFromParts DEF BuildInv, TypeOK
<1> QED BY <1>2, <1>3, <1>4, <1>5, <1>6 DEF BuildInv

(* A good status is stored, or not, and the call goes on. *)
LEMMA StatusStep ==
    ASSUME BuildInv, NEW o \in Operators,
           NEW s \in GoodStatus, NEW r \in GoodCall,
           StatusUpdate(o, s, r),
           UNCHANGED <<gitVars, buildVars, depVars, touches>>
    PROVE  BuildInv'
<1> USE DEF gitVars, buildVars, depVars
<1>1. /\ Shipped' = Shipped /\ GoodStatus' = GoodStatus
      /\ GoodJobs' = GoodJobs /\ GoodTag' = GoodTag /\ GoodCall' = GoodCall
  BY SameGood
<1>2. GitInv' /\ OrderInv'
  BY DEF BuildInv, GitInv, OrderInv
<1>3. Counters'
  BY DEF StatusUpdate, Counters, BuildInv, TypeOK
<1>4. \A p \in Operators : [rec[p] EXCEPT !.fresh = FALSE] \in GoodCall
  BY DEF BuildInv, CallInv, GoodCall, Call
<1>5. CallInv'
  BY <1>1, <1>4 DEF StatusUpdate, CallInv, BuildInv
<1>6. /\ app' \in GoodStatus
      /\ appLog' \in [Operators -> Seq(GoodStatus)]
      /\ \A p \in Operators : appLog'[p] # <<>>
  <2>1. CASE app' = s /\ appLog' = Extend(appLog, s)
    BY <2>1, ExtendLog DEF BuildInv, CacheInv
  <2>2. CASE UNCHANGED appVars
    BY <2>2 DEF BuildInv, CacheInv, ServerInv, appVars
  <2> QED BY <2>1, <2>2 DEF StatusUpdate
<1>7. ServerInv'
  BY <1>1, <1>6 DEF BuildInv, ServerInv
<1>8. CacheInv'
  BY <1>1, <1>6 DEF BuildInv, CacheInv
<1>9. TypeOK'
  BY <1>2, <1>3, <1>5, <1>7, <1>8, TypeFromParts DEF BuildInv, TypeOK
<1> QED BY <1>2, <1>5, <1>7, <1>8, <1>9 DEF BuildInv

(* The Jobs are rewritten, and an image may be pushed. *)
LEMMA JobsStep ==
    ASSUME BuildInv, WriteJobs(jobs'), jobs' \in GoodJobs',
           tree' \in [Commit -> CommitOrNone],
           registry' \in [Commit -> CommitOrNone],
           \A c \in Commit : \/ tree'[c] \in {tree[c], None}
                             \/ tree'[c] = head /\ c \in seen,
           \A c \in Commit : \/ registry'[c] = registry[c]
                             \/ registry'[c] = tree[c] /\ tree[c] # None,
           rec' \in [Operators -> GoodCall'], Counters',
           ~ForcePush => \A c \in Commit : tree'[c] # None => tree'[c] >= c,
           UNCHANGED <<gitVars, appVars, depVars>>
    PROVE  BuildInv'
<1> USE DEF gitVars, appVars, depVars
<1>1. Shipped \subseteq Shipped'
  BY DEF Shipped
<1>2. /\ GoodStatus \subseteq GoodStatus' /\ GoodJobs \subseteq GoodJobs'
      /\ GoodTag \subseteq GoodTag'
  BY <1>1, MoreGood
<1>3. GitInv'
  BY DEF BuildInv, GitInv
<1>4. ServerInv'
  <2>1. /\ app' \in GoodStatus' /\ jobs' \in GoodJobs' /\ deployed' \in GoodTag'
    BY <1>2 DEF BuildInv, ServerInv
  <2>2. \A c \in Commit : /\ {tree'[c], registry'[c]} \subseteq seen' \cup {None}
                          /\ tree'[c] # None => c \in seen'
                          /\ registry'[c] # None => c \in seen'
    BY DEF BuildInv, ServerInv, GitInv
  <2> QED BY <2>1, <2>2 DEF ServerInv
<1>5. CacheInv'
  <2>1. appLog' \in [Operators -> Seq(GoodStatus')]
    BY <1>2, GrowLog DEF BuildInv, CacheInv
  <2>2. depLog' \in [Operators -> Seq(GoodTag')]
    BY <1>2, GrowLog DEF BuildInv, CacheInv
  <2>3. jobLog \in [Operators -> Seq(GoodJobs')]
    BY <1>2, GrowLog DEF BuildInv, CacheInv
  <2>4. /\ jobLog' \in [Operators -> Seq(GoodJobs')]
        /\ \A o \in Operators : jobLog'[o] # <<>>
    BY <2>3, ExtendLog DEF WriteJobs
  <2> QED BY <2>1, <2>2, <2>4 DEF BuildInv, CacheInv
<1>6. CallInv'
  BY DEF CallInv
<1>7. OrderInv'
  BY DEF BuildInv, OrderInv
<1>8. TypeOK'
  BY <1>3, <1>4, <1>5, <1>6, TypeFromParts
<1> QED BY <1>3, <1>4, <1>5, <1>6, <1>7, <1>8 DEF BuildInv

(* The Deployment is written. *)
LEMMA DeploymentStep ==
    ASSUME BuildInv, NEW tag \in GoodTag, WriteDeployment(tag),
           rec' \in [Operators -> GoodCall], Counters',
           UNCHANGED <<gitVars, buildVars, appVars>>
    PROVE  BuildInv'
<1> USE DEF gitVars, buildVars, appVars
<1>1. /\ Shipped' = Shipped /\ GoodStatus' = GoodStatus
      /\ GoodJobs' = GoodJobs /\ GoodTag' = GoodTag /\ GoodCall' = GoodCall
  BY SameGood
<1>2. GitInv' /\ OrderInv'
  BY DEF BuildInv, GitInv, OrderInv
<1>3. ServerInv'
  BY <1>1 DEF BuildInv, ServerInv, WriteDeployment
<1>4. CacheInv'
  <2>1. depLog \in [Operators -> Seq(GoodTag)]
    BY DEF BuildInv, CacheInv
  <2>2. depLog' = Extend(depLog, tag)
    BY DEF WriteDeployment
  <2>3. /\ depLog' \in [Operators -> Seq(GoodTag)]
        /\ \A o \in Operators : depLog'[o] # <<>>
    BY <2>1, <2>2, ExtendLog
  <2> QED BY <1>1, <2>3 DEF BuildInv, CacheInv
<1>5. CallInv'
  BY <1>1 DEF CallInv
<1>6. TypeOK'
  BY <1>2, <1>3, <1>4, <1>5, TypeFromParts DEF BuildInv, TypeOK
<1> QED BY <1>2, <1>3, <1>4, <1>5, <1>6 DEF BuildInv

(* The caches move on. *)
LEMMA CacheStep ==
    ASSUME BuildInv, CacheInv', rec' \in [Operators -> GoodCall], Counters',
           UNCHANGED <<gitVars, jobs, tree, registry, app, deployed>>
    PROVE  BuildInv'
<1> USE DEF gitVars
<1>1. /\ Shipped' = Shipped /\ GoodStatus' = GoodStatus
      /\ GoodJobs' = GoodJobs /\ GoodTag' = GoodTag /\ GoodCall' = GoodCall
  BY SameGood
<1>2. GitInv' /\ OrderInv'
  BY DEF BuildInv, GitInv, OrderInv
<1>3. ServerInv'
  BY <1>1 DEF BuildInv, ServerInv
<1>4. CallInv'
  BY <1>1 DEF CallInv
<1>5. TypeOK'
  BY <1>2, <1>3, <1>4, TypeFromParts DEF BuildInv, TypeOK
<1> QED BY <1>2, <1>3, <1>4, <1>5 DEF BuildInv

-----------------------------------------------------------------------------
(***************************************************************************)
(* The actions, shape by shape.                                            *)
(***************************************************************************)

(* The local part of a call, once its record is known to be good. *)
LEMMA GoKeeps ==
    ASSUME BuildInv, NEW o \in Operators, NEW r \in GoodCall, Go(o, r),
           Counters', UNCHANGED <<gitVars, buildVars, appVars, depVars>>
    PROVE  BuildInv'
BY LocalStep DEF Go, BuildInv, CallInv

(* The fields of the call in progress. *)
LEMMA CallFields ==
    ASSUME BuildInv, NEW o \in Operators
    PROVE  /\ rec[o] \in GoodCall /\ rec[o] \in Call
           /\ rec[o].app \in GoodStatus /\ rec[o].app \in Status
           /\ rec[o].at # "idle" => rec[o].commit \in seen
           /\ rec[o].at = "deploy" => /\ rec[o].image \in Shipped
                                      /\ rec[o].image = rec[o].commit
           /\ seen \subseteq Commit /\ head \in seen
           /\ None \notin Commit /\ Shipped \subseteq Commit
BY DEF BuildInv, CallInv, GoodCall, GoodStatus, GitInv, Shipped, Commit, None

(* Each kind of status written is good. *)
LEMMA WrittenStatusGood ==
    ASSUME BuildInv, NEW a \in GoodStatus, NEW c \in seen
    PROVE  /\ [a EXCEPT !.pending = c] \in GoodStatus
           /\ [a EXCEPT !.pending = None] \in GoodStatus
           /\ WithStatus(a, "Building", c, c) \in GoodStatus
           /\ WithStatus(a, "Failed", c, None) \in GoodStatus
           /\ c \in Shipped => WithStatus(a, "Ready", c, c) \in GoodStatus
<1> USE DEF GoodStatus, Status, Phase, CommitOrNone, WithStatus
<1>1. c \in Commit
  BY DEF BuildInv, GitInv
<1>2. /\ [a EXCEPT !.pending = c] \in GoodStatus
      /\ [a EXCEPT !.pending = None] \in GoodStatus
  BY <1>1
<1>3. /\ WithStatus(a, "Building", c, c) \in GoodStatus
      /\ WithStatus(a, "Failed", c, None) \in GoodStatus
  BY <1>1
<1>4. ASSUME c \in Shipped PROVE WithStatus(a, "Ready", c, c) \in GoodStatus
  BY <1>1, <1>4
<1> QED BY <1>2, <1>3, <1>4

LEMMA PollInv == ASSUME BuildInv, NEW o \in Operators, Poll(o) PROVE BuildInv'
<1> DEFINE a == Head(appLog[o])
           r == [Idle EXCEPT !.app = a, !.fresh = Synced(appLog, o),
                             !.commit = head]
<1>1. a \in GoodStatus
  BY CachedGood DEF BuildInv
<1>2. head \in seen /\ head \in Commit
  BY DEF BuildInv, GitInv
<1>3. [r EXCEPT !.at = "list"] \in GoodCall
  BY <1>1, <1>2, IdleGood DEF GoodCall, Call, Idle, Step, CommitOrNone, Synced,
                          GoodStatus
<1>4. ASSUME UpToDate(a, head)
      PROVE  [r EXCEPT !.at = "deploy", !.image = a.image] \in GoodCall
  <2>1. a.image \in Shipped /\ a.image = head
    BY <1>1, <1>4 DEF UpToDate, GoodStatus
  <2>2. a.image \in Commit
    BY <2>1 DEF Shipped
  <2> QED BY <1>1, <1>2, <2>1, <2>2, IdleGood
          DEF GoodCall, Call, Idle, Step, CommitOrNone, Synced, GoodStatus
<1>5. Counters'
  BY DEF Poll, LatestCommit, Counters, BuildInv, TypeOK, gitVars
<1>6. PICK q \in GoodCall : Go(o, q)
  BY <1>3, <1>4 DEF Poll, LatestCommit, LatestCommit
<1> QED BY <1>5, <1>6, GoKeeps DEF Poll, LatestCommit, LatestCommit

LEMMA QueueInv ==
    ASSUME BuildInv, NEW o \in Operators, QueueCommit(o) PROVE BuildInv'
<1>1. [rec[o].app EXCEPT !.pending = rec[o].commit] \in GoodStatus
  BY CallFields, WrittenStatusGood DEF QueueCommit
<1> QED BY <1>1, IdleGood, StatusStep DEF QueueCommit

LEMMA PromoteInv ==
    ASSUME BuildInv, NEW o \in Operators, PromotePending(o) PROVE BuildInv'
<1> DEFINE promoted == [rec[o].app EXCEPT !.pending = None]
           r == [rec[o] EXCEPT !.at = "job", !.app = promoted,
                               !.commit = rec[o].app.pending]
<1>1. promoted \in GoodStatus
  BY CallFields, WrittenStatusGood DEF PromotePending
<1>2. rec[o].app.pending \in seen
  BY CallFields DEF PromotePending, Promotes, GoodStatus
<1>3. r \in GoodCall
  BY <1>1, <1>2, CallFields DEF GoodCall, Call, Step, CommitOrNone, GoodStatus
<1> QED BY <1>1, <1>3, StatusStep DEF PromotePending

LEMMA ListInv ==
    ASSUME BuildInv, NEW o \in Operators,
           WaitForBuild(o) \/ PassList(o) \/ StillRunning(o)
    PROVE  BuildInv'
<1>1. Counters'
  BY DEF WaitForBuild, PassList, StillRunning, Counters, BuildInv, TypeOK,
         gitVars
<1>2. rec[o].at = "list" => [rec[o] EXCEPT !.at = "job"] \in GoodCall
  BY CallFields DEF GoodCall, Call, Step
<1>3. PICK r \in GoodCall : Go(o, r)
  BY <1>2, IdleGood DEF WaitForBuild, PassList, StillRunning
<1> QED BY <1>1, <1>3, GoKeeps DEF WaitForBuild, PassList, StillRunning

LEMMA RecordInv ==
    ASSUME BuildInv, NEW o \in Operators, RecordBuilding(o) PROVE BuildInv'
<1>1. WithStatus(rec[o].app, "Building", rec[o].commit, rec[o].commit)
          \in GoodStatus
  BY CallFields, WrittenStatusGood DEF RecordBuilding
<1> QED BY <1>1, IdleGood, StatusStep DEF RecordBuilding

LEMMA ReadyInv ==
    ASSUME BuildInv, NEW o \in Operators, ReportReady(o) PROVE BuildInv'
<1> DEFINE c == rec[o].commit
           ready == WithStatus(rec[o].app, "Ready", c, c)
           r == [rec[o] EXCEPT !.at = "deploy", !.app = ready, !.image = c]
<1>1. c \in seen /\ c \in Commit
  BY CallFields DEF ReportReady
<1>2. c \in Shipped
  BY <1>1, CachedGood DEF ReportReady, JobSucceeded, Succeeded, CachedStage,
                          GoodJobs, BuildInv
<1>3. ready \in GoodStatus
  BY <1>1, <1>2, CallFields, WrittenStatusGood
<1>4. r \in GoodCall
  BY <1>1, <1>2, <1>3, CallFields
     DEF GoodCall, Call, Step, CommitOrNone, GoodStatus
<1> QED BY <1>3, <1>4, StatusStep DEF ReportReady

LEMMA FailedInv ==
    ASSUME BuildInv, NEW o \in Operators, ReportFailed(o) PROVE BuildInv'
<1>1. WithStatus(rec[o].app, "Failed", rec[o].commit, None) \in GoodStatus
  BY CallFields, WrittenStatusGood DEF ReportFailed
<1> QED BY <1>1, IdleGood, StatusStep DEF ReportFailed

LEMMA CreateInv ==
    ASSUME BuildInv, NEW o \in Operators, CreateJob(o) PROVE BuildInv'
<1> DEFINE c == rec[o].commit
<1> USE DEF gitVars, appVars, depVars
<1>1. c \in seen /\ c \in Commit
  BY CallFields DEF CreateJob
<1>2. Counters'
  BY DEF CreateJob, Counters, BuildInv, TypeOK
<1>3. CASE jobs' = [jobs EXCEPT ![c] = "created"] /\ WriteJobs(jobs')
                /\ Go(o, [rec[o] EXCEPT !.at = "created"])
  <2>1. GoodJobs' = GoodJobs /\ GoodCall' = GoodCall
    BY SameGood DEF CreateJob
  <2>2. jobs' \in GoodJobs
    BY <1>1, <1>3 DEF BuildInv, ServerInv, GoodJobs, Stage
  <2>3. [rec[o] EXCEPT !.at = "created"] \in GoodCall
    BY <1>1, CallFields DEF GoodCall, Call, Step
  <2>4. rec' \in [Operators -> GoodCall]
    BY <1>3, <2>3 DEF Go, BuildInv, CallInv
  <2>5. /\ tree' \in [Commit -> CommitOrNone]
        /\ registry' \in [Commit -> CommitOrNone]
        /\ tree' = tree /\ registry' = registry
    BY DEF CreateJob, BuildInv, TypeOK
  <2>6. ~ForcePush => \A d \in Commit : tree'[d] # None => tree'[d] >= d
    BY <2>5 DEF BuildInv, OrderInv
  <2> QED BY <1>2, <1>3, <2>1, <2>2, <2>4, <2>5, <2>6, JobsStep DEF CreateJob
<1>4. CASE Go(o, Idle) /\ UNCHANGED <<jobs, jobLog>>
  BY <1>2, <1>4, IdleGood, GoKeeps DEF CreateJob, buildVars
<1> QED BY <1>3, <1>4 DEF CreateJob, WriteJobs

LEMMA SweepGood ==
    ASSUME BuildInv, NEW o \in Operators, rec[o].at # "idle",
           NEW old \in SUBSET Commit
    PROVE  SweepFrom(o, old) \in GoodCall
BY CallFields, IdleGood DEF SweepFrom, GoodCall, Call, Step

LEMMA RuntimeInv ==
    ASSUME BuildInv, NEW o \in Operators, EnsureRuntime(o) PROVE BuildInv'
<1> USE DEF gitVars
<1>1. Counters'
  BY DEF EnsureRuntime, Counters, BuildInv, TypeOK
<1>2. rec[o].image \in GoodTag
  BY CallFields DEF EnsureRuntime, GoodTag
<1>3. Sweep(o) \in GoodCall
  BY SweepGood DEF EnsureRuntime, Sweep, OldJobs
<1>4. CASE WriteDeployment(rec[o].image) /\ Go(o, Sweep(o))
  <2>1. rec' \in [Operators -> GoodCall]
    BY <1>3, <1>4 DEF Go, BuildInv, CallInv
  <2> QED BY <1>1, <1>2, <1>4, <2>1, DeploymentStep DEF EnsureRuntime
<1>5. CASE UNCHANGED depVars /\ (Go(o, Sweep(o)) \/ Go(o, Idle))
  BY <1>1, <1>3, <1>5, IdleGood, GoKeeps DEF EnsureRuntime
<1> QED BY <1>4, <1>5 DEF EnsureRuntime

(* What MaybePushed and Pushed leave in the registry. *)
LEMMA PushedShape ==
    ASSUME BuildInv, NEW c \in Commit, NEW reg,
           \/ reg = Pushed(c) /\ tree[c] # None
           \/ reg \in MaybePushed(c)
    PROVE  /\ reg \in [Commit -> CommitOrNone]
           /\ \A d \in Commit : \/ reg[d] = registry[d]
                                \/ reg[d] = tree[d] /\ tree[d] # None
           /\ registry[c] = reg[c] \/ reg[c] # None
BY DEF BuildInv, TypeOK, Pushed, MaybePushed

(* With images only added, what was good before is good. *)
LEMMA RegistryGrows ==
    ASSUME BuildInv, seen' = seen,
           \A d \in Commit : \/ registry'[d] = registry[d]
                             \/ registry'[d] = tree[d] /\ tree[d] # None
    PROVE  GoodJobs \subseteq GoodJobs' /\ GoodCall \subseteq GoodCall'
<1>1. Shipped \subseteq Shipped'
  BY DEF Shipped
<1> QED BY <1>1, MoreGood

LEMMA SweepInv ==
    ASSUME BuildInv, NEW o \in Operators, NEW c \in Commit, DeleteOldJob(o, c)
    PROVE  BuildInv'
<1> USE DEF gitVars, appVars, depVars
<1>1. Counters'
  BY DEF DeleteOldJob, Counters, BuildInv, TypeOK
<1>2. SweepFrom(o, rec[o].old \ {c}) \in GoodCall
  <2>1. rec[o].old \in SUBSET Commit
    BY CallFields DEF Call
  <2> QED BY <2>1, SweepGood DEF DeleteOldJob
<1>3. rec' \in [Operators -> GoodCall]
  BY <1>2 DEF DeleteOldJob, Go, BuildInv, CallInv
<1>4. CASE UNCHANGED buildVars
  BY <1>1, <1>3, <1>4, LocalStep DEF DeleteOldJob
<1>5. CASE /\ jobs' = [jobs EXCEPT ![c] = "absent"] /\ WriteJobs(jobs')
           /\ tree' = [tree EXCEPT ![c] = None]
           /\ registry' \in MaybePushed(c)
  <2>1. /\ registry' \in [Commit -> CommitOrNone]
        /\ \A d \in Commit : \/ registry'[d] = registry[d]
                             \/ registry'[d] = tree[d] /\ tree[d] # None
    BY <1>5, PushedShape
  <2>2. GoodJobs \subseteq GoodJobs' /\ GoodCall \subseteq GoodCall'
    BY <2>1, RegistryGrows DEF DeleteOldJob
  <2>3. jobs' \in GoodJobs
    BY <1>5 DEF BuildInv, ServerInv, GoodJobs, Stage
  <2>4. /\ tree' \in [Commit -> CommitOrNone]
        /\ \A d \in Commit : tree'[d] \in {tree[d], None}
    BY <1>5 DEF BuildInv, TypeOK, CommitOrNone
  <2>5. ~ForcePush => \A d \in Commit : tree'[d] # None => tree'[d] >= d
    BY <2>4 DEF BuildInv, OrderInv
  <2>6. rec' \in [Operators -> GoodCall']
    BY <1>3, <2>2
  <2> QED BY <1>1, <1>5, <2>1, <2>2, <2>3, <2>4, <2>5, <2>6, JobsStep
          DEF DeleteOldJob
<1> QED BY <1>4, <1>5 DEF DeleteOldJob, WriteJobs

LEMMA PodInv ==
    ASSUME BuildInv, NEW c \in Commit, PodStart(c) \/ PodSucceed(c) \/ PodFail(c)
    PROVE  BuildInv'
<1> USE DEF gitVars, appVars, depVars
<1>1. Counters'
  BY DEF PodStart, PodSucceed, PodFail, Counters, BuildInv, TypeOK
<1>2. WriteJobs(jobs')
  BY DEF PodStart, PodSucceed, PodFail, WriteJobs
<1>3. \/ registry' = registry /\ tree' = tree
      \/ /\ tree' = [tree EXCEPT ![c] = None]
         /\ \/ registry' = Pushed(c) /\ tree[c] # None
            \/ registry' \in MaybePushed(c)
  BY DEF PodStart, PodSucceed, PodFail
<1>4. /\ registry' \in [Commit -> CommitOrNone]
      /\ \A d \in Commit : \/ registry'[d] = registry[d]
                           \/ registry'[d] = tree[d] /\ tree[d] # None
  BY <1>3, PushedShape DEF BuildInv, TypeOK
<1>5. GoodJobs \subseteq GoodJobs' /\ GoodCall \subseteq GoodCall'
  BY <1>4, RegistryGrows DEF PodStart, PodSucceed, PodFail
<1>6. /\ tree' \in [Commit -> CommitOrNone]
      /\ \A d \in Commit : tree'[d] \in {tree[d], None}
  BY <1>3 DEF BuildInv, TypeOK, CommitOrNone
<1>7. ~ForcePush => \A d \in Commit : tree'[d] # None => tree'[d] >= d
  BY <1>6 DEF BuildInv, OrderInv
<1>8. jobs[c] # "absent" /\ c \in seen
  BY DEF PodStart, PodSucceed, PodFail, Active, BuildInv, ServerInv, GoodJobs
<1>9. jobs' \in GoodJobs'
  <2>1. jobs \in GoodJobs'
    BY <1>5 DEF BuildInv, ServerInv
  <2>2. PICK s \in Stage \ {"absent"} :
            /\ jobs' = [jobs EXCEPT ![c] = s]
            /\ s = "succeeded" => registry' = Pushed(c) /\ tree[c] # None
    BY DEF PodStart, PodSucceed, PodFail, WriteJobs, Stage, BuildInv, TypeOK
  <2>3. s = "succeeded" => c \in Shipped'
    BY <2>2 DEF Pushed, Shipped, BuildInv, TypeOK
  <2>4. seen' = seen
    BY DEF PodStart, PodSucceed, PodFail
  <2> QED BY <1>8, <2>1, <2>2, <2>3, <2>4 DEF GoodJobs
<1>10. rec' \in [Operators -> GoodCall']
  BY <1>5 DEF PodStart, PodSucceed, PodFail, BuildInv, CallInv
<1>11. UNCHANGED <<gitVars, appVars, depVars>>
  BY DEF PodStart, PodSucceed, PodFail
<1> QED BY <1>1, <1>2, <1>4, <1>6, <1>7, <1>9, <1>10, <1>11, JobsStep

LEMMA CloneInv == ASSUME BuildInv, NEW c \in Commit, Clone(c) PROVE BuildInv'
<1> USE DEF Clone, gitVars, appVars, depVars
<1>1. /\ Shipped' = Shipped /\ GoodStatus' = GoodStatus
      /\ GoodJobs' = GoodJobs /\ GoodTag' = GoodTag /\ GoodCall' = GoodCall
  BY SameGood
<1>2. GitInv' /\ Counters'
  BY DEF BuildInv, GitInv, Counters, TypeOK
<1>3. c \in seen /\ head \in seen /\ head \in Commit
  BY DEF Active, BuildInv, ServerInv, GoodJobs, GitInv
<1>4. /\ tree' \in [Commit -> CommitOrNone]
      /\ \A d \in Commit : tree'[d] = tree[d] \/ (tree'[d] = head /\ d = c)
  BY <1>3 DEF BuildInv, TypeOK, CommitOrNone
<1>5. ServerInv'
  BY <1>1, <1>3, <1>4 DEF BuildInv, ServerInv
<1>6. CacheInv' /\ CallInv'
  BY <1>1 DEF BuildInv, CacheInv, CallInv
<1>7. OrderInv'
  <2>1. ~ForcePush => head >= c
    BY <1>3 DEF BuildInv, OrderInv, Commit
  <2> QED BY <1>4, <2>1 DEF BuildInv, OrderInv
<1>8. TypeOK'
  BY <1>2, <1>4, <1>5, <1>6, TypeFromParts DEF BuildInv, TypeOK
<1> QED BY <1>2, <1>5, <1>6, <1>7, <1>8 DEF BuildInv

LEMMA PushInv == ASSUME BuildInv, NEW c \in Commit, Push(c) PROVE BuildInv'
<1> USE DEF Push, buildVars, appVars, depVars
<1>1. /\ GoodStatus \subseteq GoodStatus' /\ GoodJobs \subseteq GoodJobs'
      /\ GoodTag \subseteq GoodTag' /\ GoodCall \subseteq GoodCall'
  BY MoreGood DEF Shipped
<1>2. GitInv' /\ Counters'
  BY DEF BuildInv, GitInv, Counters, TypeOK
<1>3. ServerInv'
  BY <1>1 DEF BuildInv, ServerInv
<1>4. CacheInv'
  <2>1. /\ appLog \in [Operators -> Seq(GoodStatus')]
        /\ jobLog \in [Operators -> Seq(GoodJobs')]
        /\ depLog \in [Operators -> Seq(GoodTag')]
    BY <1>1, GrowLog DEF BuildInv, CacheInv
  <2> QED BY <2>1 DEF BuildInv, CacheInv
<1>5. CallInv'
  BY <1>1 DEF BuildInv, CallInv
<1>6. OrderInv'
  <2>1. ~ForcePush => \A d \in seen' : d <= head'
    BY DEF BuildInv, OrderInv, GitInv, Commit
  <2> QED BY <2>1 DEF BuildInv, OrderInv
<1>7. TypeOK'
  BY <1>2, <1>3, <1>4, <1>5, TypeFromParts DEF BuildInv, TypeOK
<1> QED BY <1>2, <1>3, <1>4, <1>5, <1>6, <1>7 DEF BuildInv

LEMMA TouchInv ==
    ASSUME BuildInv, TouchApp \/ TouchDeployment PROVE BuildInv'
<1>1. Counters'
  BY DEF TouchApp, TouchDeployment, Counters, BuildInv, TypeOK, gitVars
<1>2. CASE TouchApp
  <2> USE DEF TouchApp, gitVars, buildVars, depVars
  <2>1. /\ Shipped' = Shipped /\ GoodStatus' = GoodStatus
        /\ GoodJobs' = GoodJobs /\ GoodTag' = GoodTag /\ GoodCall' = GoodCall
    BY <1>2, SameGood
  <2>2. \A o \in Operators : [rec[o] EXCEPT !.fresh = FALSE] \in GoodCall
    BY DEF BuildInv, CallInv, GoodCall, Call
  <2>3. rec' \in [Operators -> GoodCall]
    BY <1>2, <2>2
  <2>4. app \in GoodStatus /\ appLog \in [Operators -> Seq(GoodStatus)]
    BY DEF BuildInv, ServerInv, CacheInv
  <2>5. appLog' = Extend(appLog, app)
    BY <1>2
  <2>6. /\ appLog' \in [Operators -> Seq(GoodStatus)]
        /\ \A o \in Operators : appLog'[o] # <<>>
    BY <2>4, <2>5, ExtendLog
  <2>7. CacheInv'
    BY <1>2, <2>1, <2>6 DEF BuildInv, CacheInv
  <2> QED BY <1>1, <1>2, <2>3, <2>7, CacheStep
<1>3. CASE TouchDeployment
  <2>1. deployed \in GoodTag
    BY DEF BuildInv, ServerInv
  <2>2. rec' \in [Operators -> GoodCall]
    BY <1>3 DEF TouchDeployment, BuildInv, CallInv
  <2> QED BY <1>1, <1>3, <2>1, <2>2, DeploymentStep DEF TouchDeployment
<1> QED BY <1>2, <1>3

LEMMA FaultInv ==
    ASSUME BuildInv, NEW o \in Operators, Fail(o) \/ Crash(o) PROVE BuildInv'
<1> USE DEF gitVars
<1>1. Counters'
  BY DEF Fail, Crash, Counters, BuildInv, TypeOK
<1>2. CASE Fail(o)
  BY <1>1, <1>2, IdleGood, GoKeeps DEF Fail
<1>3. CASE Crash(o)
  <2>1. /\ Shipped' = Shipped /\ GoodStatus' = GoodStatus
        /\ GoodJobs' = GoodJobs /\ GoodTag' = GoodTag /\ GoodCall' = GoodCall
    BY <1>3, SameGood DEF Crash
  <2>2. rec' \in [Operators -> GoodCall]
    BY <1>3, IdleGood DEF Crash, Go, BuildInv, CallInv
  <2>3. /\ app \in GoodStatus /\ appLog \in [Operators -> Seq(GoodStatus)]
        /\ jobs \in GoodJobs /\ jobLog \in [Operators -> Seq(GoodJobs)]
        /\ deployed \in GoodTag /\ depLog \in [Operators -> Seq(GoodTag)]
        /\ \A p \in Operators :
              appLog[p] # <<>> /\ jobLog[p] # <<>> /\ depLog[p] # <<>>
    BY DEF BuildInv, ServerInv, CacheInv
  <2>4. /\ appLog' \in [Operators -> Seq(GoodStatus)]
        /\ \A p \in Operators : appLog'[p] # <<>>
    BY <1>3, <2>3, ResetLog DEF Crash
  <2>5. /\ jobLog' \in [Operators -> Seq(GoodJobs)]
        /\ \A p \in Operators : jobLog'[p] # <<>>
    BY <1>3, <2>3, ResetLog DEF Crash
  <2>6. /\ depLog' \in [Operators -> Seq(GoodTag)]
        /\ \A p \in Operators : depLog'[p] # <<>>
    BY <1>3, <2>3, ResetLog DEF Crash
  <2>7. CacheInv'
    BY <2>1, <2>4, <2>5, <2>6 DEF CacheInv
  <2> QED BY <1>1, <1>3, <2>2, <2>7, CacheStep DEF Crash
<1> QED BY <1>2, <1>3

LEMMA DeliverInv ==
    ASSUME BuildInv, NEW o \in Operators, Deliver(o) PROVE BuildInv'
<1> USE DEF Deliver, DeliverApp, DeliverJobs, DeliverDeployment,
            gitVars, buildVars, appVars, depVars
<1>1. Counters'
  BY DEF Counters, BuildInv, TypeOK
<1>2. /\ Shipped' = Shipped /\ GoodStatus' = GoodStatus
      /\ GoodJobs' = GoodJobs /\ GoodTag' = GoodTag /\ GoodCall' = GoodCall
  BY SameGood
<1>3. rec' \in [Operators -> GoodCall]
  BY DEF BuildInv, CallInv
<1>4. /\ appLog \in [Operators -> Seq(GoodStatus)]
      /\ jobLog \in [Operators -> Seq(GoodJobs)]
      /\ depLog \in [Operators -> Seq(GoodTag)]
      /\ \A p \in Operators : appLog[p] # <<>>
      /\ \A p \in Operators : jobLog[p] # <<>>
      /\ \A p \in Operators : depLog[p] # <<>>
  BY DEF BuildInv, CacheInv
<1>5. CASE DeliverApp(o)
  <2>1. /\ appLog' \in [Operators -> Seq(GoodStatus)]
        /\ \A p \in Operators : appLog'[p] # <<>>
    BY <1>4, <1>5, DeliverLog
  <2>2. CacheInv'
    BY <1>2, <1>4, <1>5, <2>1 DEF CacheInv
  <2> QED BY <1>1, <1>3, <1>5, <2>2, CacheStep
<1>6. CASE DeliverJobs(o)
  <2>1. /\ jobLog' \in [Operators -> Seq(GoodJobs)]
        /\ \A p \in Operators : jobLog'[p] # <<>>
    BY <1>4, <1>6, DeliverLog
  <2>2. CacheInv'
    BY <1>2, <1>4, <1>6, <2>1 DEF CacheInv
  <2> QED BY <1>1, <1>3, <1>6, <2>2, CacheStep
<1>7. CASE DeliverDeployment(o)
  <2>1. /\ depLog' \in [Operators -> Seq(GoodTag)]
        /\ \A p \in Operators : depLog'[p] # <<>>
    BY <1>4, <1>7, DeliverLog
  <2>2. CacheInv'
    BY <1>2, <1>4, <1>7, <2>1 DEF CacheInv
  <2> QED BY <1>1, <1>3, <1>7, <2>2, CacheStep
<1> QED BY <1>5, <1>6, <1>7

-----------------------------------------------------------------------------
(* Every step keeps the invariant. *)
THEOREM StepKeepsInv == BuildInv /\ [Next]_vars => BuildInv'
<1> SUFFICES ASSUME BuildInv, [Next]_vars PROVE BuildInv'
  OBVIOUS
<1>1. ASSUME NEW o \in Operators, Deliver(o) PROVE BuildInv'
  BY <1>1, DeliverInv
<1>2. ASSUME NEW o \in Operators, Operate(o) PROVE BuildInv'
  BY <1>2, PollInv, QueueInv, ListInv, PromoteInv, CreateInv, RecordInv,
     ReadyInv, FailedInv, RuntimeInv, SweepInv DEF Operate
<1>3. ASSUME NEW c \in Commit, Pod(c) PROVE BuildInv'
  BY <1>3, PodInv, CloneInv DEF Pod
<1>4. CASE Disturb
  BY <1>4, TouchInv, PushInv, PodInv, FaultInv DEF Disturb
<1>5. CASE UNCHANGED vars
  <2>1. rec' \in [Operators -> GoodCall] /\ Counters'
    BY <1>5 DEF vars, gitVars, BuildInv, CallInv, Counters, TypeOK
  <2> QED BY <1>5, <2>1, LocalStep DEF vars
<1> QED BY <1>1, <1>2, <1>3, <1>4, <1>5 DEF Next

(* The invariant holds in every reachable state. *)
THEOREM BuildInvariance == Spec => []BuildInv
BY InitInv, StepKeepsInv, PTL DEF Spec

(* Type correctness. *)
THEOREM TypeCorrect == Spec => []TypeOK
<1>1. BuildInv => TypeOK
  BY DEF BuildInv
<1> QED BY <1>1, BuildInvariance, PTL

(* The Deployment only names images that were pushed. *)
THEOREM DeployedIsPushed == Spec => []DeployedImageIsPushed
<1>1. BuildInv => DeployedImageIsPushed
  BY DEF BuildInv, ServerInv, GoodTag, Shipped, DeployedImageIsPushed
<1> QED BY <1>1, BuildInvariance, PTL

(* A Ready status names the pushed image of its own commit. *)
THEOREM ReadyIsPushed == Spec => []ReadyImageIsPushed
<1>1. BuildInv => ReadyImageIsPushed
  BY DEF BuildInv, ServerInv, GoodStatus, Shipped, ReadyImageIsPushed, None,
         Commit
<1> QED BY <1>1, BuildInvariance, PTL

(* Without force pushes no image is older than its tag. *)
THEOREM ImageIsRecent == Spec => []ImageNotOlderThanTag
<1>1. BuildInv => ImageNotOlderThanTag
  BY DEF BuildInv, OrderInv, ImageNotOlderThanTag
<1> QED BY <1>1, BuildInvariance, PTL

-----------------------------------------------------------------------------
(***************************************************************************)
(* BuildController implements Delivery: a step publishes a commit, ships   *)
(* an image, serves an image or leaves all three alone.                    *)
(***************************************************************************)
LEMMA PodShips ==
    ASSUME BuildInv, NEW c \in Commit,
           registry' = Pushed(c) /\ tree[c] # None,
           UNCHANGED <<seen, deployed>>
    PROVE  DeliveryOfApp!Next
<1>1. {c, tree[c]} \subseteq seen /\ tree[c] \in Commit
  BY DEF BuildInv, ServerInv, TypeOK, CommitOrNone
<1>2. DeliveryOfApp!Ship(c, tree[c])
  BY <1>1 DEF DeliveryOfApp!Ship, Pushed
<1> QED BY <1>1, <1>2 DEF DeliveryOfApp!Next

LEMMA StepDelivers ==
    ASSUME BuildInv, [Next]_vars
    PROVE  [DeliveryOfApp!Next]_<<seen, registry, deployed>>
<1> DEFINE same == UNCHANGED <<seen, registry, deployed>>
<1> USE DEF gitVars, buildVars, appVars, depVars
<1>1. ASSUME NEW o \in Operators, Deliver(o) PROVE same
  BY <1>1 DEF Deliver, DeliverApp, DeliverJobs, DeliverDeployment
<1>2. ASSUME NEW o \in Operators, Operate(o) PROVE same \/ DeliveryOfApp!Next
  <2>1. CASE EnsureRuntime(o)
    <3>1. rec[o].image \in Commit /\ registry[rec[o].image] # None
      BY <2>1, CallFields DEF EnsureRuntime, Shipped
    <3>2. CASE WriteDeployment(rec[o].image)
      <4>1. DeliveryOfApp!Serve(rec[o].image)
        BY <2>1, <3>1, <3>2
           DEF EnsureRuntime, WriteDeployment, DeliveryOfApp!Serve
      <4> QED BY <3>1, <4>1 DEF DeliveryOfApp!Next
    <3>3. CASE UNCHANGED depVars
      BY <2>1, <3>3 DEF EnsureRuntime
    <3> QED BY <2>1, <3>2, <3>3 DEF EnsureRuntime
  <2>2. ASSUME NEW c \in Commit, DeleteOldJob(o, c)
        PROVE  same \/ DeliveryOfApp!Next
    <3>1. \/ registry' = registry
          \/ registry' = Pushed(c) /\ tree[c] # None
      BY <2>2 DEF DeleteOldJob, MaybePushed
    <3>2. UNCHANGED <<seen, deployed>>
      BY <2>2 DEF DeleteOldJob
    <3> QED BY <3>1, <3>2, PodShips
  <2>3. CASE \/ Poll(o) \/ QueueCommit(o) \/ WaitForBuild(o)
             \/ PromotePending(o) \/ PassList(o) \/ CreateJob(o)
             \/ RecordBuilding(o) \/ ReportReady(o) \/ ReportFailed(o)
             \/ StillRunning(o)
    BY <2>3 DEF Poll, LatestCommit, QueueCommit, WaitForBuild, PromotePending, PassList,
       CreateJob, RecordBuilding, ReportReady, ReportFailed, StillRunning
  <2> QED BY <1>2, <2>1, <2>2, <2>3 DEF Operate
<1>3. ASSUME NEW c \in Commit, Pod(c) \/ PodFail(c)
      PROVE  same \/ DeliveryOfApp!Next
  <2>1. \/ registry' = registry
        \/ registry' = Pushed(c) /\ tree[c] # None
    BY <1>3 DEF Pod, PodStart, Clone, PodSucceed, PodFail, MaybePushed
  <2>2. UNCHANGED <<seen, deployed>>
    BY <1>3 DEF Pod, PodStart, Clone, PodSucceed, PodFail
  <2> QED BY <2>1, <2>2, PodShips
<1>4. ASSUME NEW c \in Commit, Push(c) PROVE DeliveryOfApp!Next
  <2>1. DeliveryOfApp!Publish(c)
    BY <1>4 DEF Push, DeliveryOfApp!Publish
  <2> QED BY <2>1 DEF DeliveryOfApp!Next
<1>5. ASSUME NEW o \in Operators, Fail(o) \/ Crash(o) PROVE same
  BY <1>5 DEF Fail, Crash
<1>6. CASE TouchApp \/ TouchDeployment
  BY <1>6 DEF TouchApp, TouchDeployment, WriteDeployment
<1>7. CASE UNCHANGED vars
  BY <1>7 DEF vars
<1> QED BY <1>1, <1>2, <1>3, <1>4, <1>5, <1>6, <1>7 DEF Next, Disturb

(* The controller implements the abstract specification. *)
THEOREM ControllerDelivers == Spec => Delivers
<1>1. Init => DeliveryOfApp!Init
  BY ConstantsAssumption DEF Init, DeliveryOfApp!Init, Commit
<1>2. BuildInv /\ [Next]_vars => [DeliveryOfApp!Next]_(DeliveryOfApp!vars)
  BY StepDelivers DEF DeliveryOfApp!vars
<1> QED BY <1>1, <1>2, BuildInvariance, PTL
        DEF Spec, Delivers, DeliveryOfApp!Spec

(* Delivery promises enough: whatever implements it serves only images     *)
(* that were pushed, under tags and from sources the branch has had.       *)
Served ==
    /\ registry \in [Commit -> Commit \cup {None}]
    /\ \A c \in Commit : registry[c] # None => {c, registry[c]} \subseteq seen
    /\ deployed # None => deployed \in Commit /\ registry[deployed] # None

LEMMA ServedStep ==
    ASSUME Served, [DeliveryOfApp!Next]_(DeliveryOfApp!vars) PROVE Served'
<1>1. CASE UNCHANGED DeliveryOfApp!vars
  BY <1>1 DEF DeliveryOfApp!vars, Served
<1>2. ASSUME NEW c \in Commit, DeliveryOfApp!Publish(c) PROVE Served'
  BY <1>2 DEF DeliveryOfApp!Publish, Served
<1>3. ASSUME NEW c \in Commit, NEW s \in Commit, DeliveryOfApp!Ship(c, s)
      PROVE  Served'
  <2>1. s # None
    BY DEF Commit, None
  <2> QED BY <1>3, <2>1 DEF DeliveryOfApp!Ship, Served
<1>4. ASSUME NEW c \in Commit, DeliveryOfApp!Serve(c) PROVE Served'
  BY <1>4 DEF DeliveryOfApp!Serve, Served
<1> QED BY <1>1, <1>2, <1>3, <1>4 DEF DeliveryOfApp!Next

THEOREM DeliveryServes ==
    DeliveryOfApp!Spec
       => [](/\ DeployedImageIsPushed
             /\ deployed # None => {deployed, registry[deployed]} \subseteq seen)
<1>1. DeliveryOfApp!Init => Served
  BY DEF DeliveryOfApp!Init, Served
<1>2. Served /\ [DeliveryOfApp!Next]_(DeliveryOfApp!vars) => Served'
  BY ServedStep
<1>3. Served => /\ DeployedImageIsPushed
                /\ deployed # None => {deployed, registry[deployed]} \subseteq seen
  BY DEF Served, DeployedImageIsPushed
<1> QED BY <1>1, <1>2, <1>3, PTL DEF DeliveryOfApp!Spec
=============================================================================
