------------------------------ MODULE Rotation ------------------------------
(***************************************************************************)
(* The secret rotation controller (controllers/rotation_controller.go),    *)
(* running in every replica of the webhook, against the cluster it         *)
(* watches: secrets change in their backends, pods are admitted with the   *)
(* version the webhook wrote on them, informers deliver pod events late,   *)
(* and Reconcile polls the backends and patches the owner of an outdated   *)
(* pod so that its workload rolls.                                         *)
(*                                                                         *)
(* A version is a number, so that "newer" has a meaning for the            *)
(* properties; the code compares versions for equality only.  The empty    *)
(* version string is NoVersion and an error of GetCurrentVersion is Failed.*)
(***************************************************************************)
EXTENDS Integers, Sequences, FiniteSets, Functions

CONSTANTS
  Pods,                \* pod names, the keys of the work queues
  Controllers,         \* webhook replicas, each with its own manager
  Owners,              \* ownership chains the admitted pods may have
  Intervals,           \* rotation-interval annotations they may carry
  Providers,           \* the enabled providers, in registry order
  Replies,             \* Replies[p][v]: what GetCurrentVersion may return
  Changing,            \* the providers whose secrets change
  Replicas,            \* pods a workload keeps that are not outdated
  MaxVersion,          \* bound on the versions of a secret
  PatchesShareSecond   \* may two patches of a workload fall in one second?

NoVersion == 0
Failed    == -1
Versions  == 1..MaxVersion
Backends  == Range(Providers)

ProviderNames == {"vault", "aws", "azure", "gcp"}
Workloads     == {"Deployment", "StatefulSet", "DaemonSet"}
OwnerChains   == Workloads \cup {"ReplicaSet of Deployment", "ReplicaSet",
                                "other", "none"}
Durations     == {"absent", "invalid", "nonpositive", "positive"}

ASSUME RotationAssumption ==
  /\ MaxVersion \in Nat \ {0}
  /\ Providers \in Seq(ProviderNames)
  /\ Replies \in [Backends -> [Versions -> SUBSET Int]]
  /\ Changing \subseteq Backends
  /\ Replicas \in Nat
  /\ Owners \subseteq OwnerChains
  /\ Intervals \subseteq Durations
  /\ PatchesShareSecond \in BOOLEAN

VARIABLES
  backend,   \* current version of the secret in each provider's backend
  pods,      \* the pods in the API server
  loaded,    \* the versions each running pod's process was started with
  outdated,  \* pods whose owner's template was patched after they were made
  stamped,   \* workloads whose restartedAt is the current second
  events,    \* the pods of which the informer of c has not delivered the latest
  view,      \* view[c][u]: the pod in the informer cache of controller c
  queue,     \* the ready keys of the work queue of c
  delayed,   \* the keys of c waiting for a requeue delay or a backoff
  work       \* the Reconcile call the only worker of c is executing

clusterVars    == <<backend, pods, loaded, outdated, stamped>>
controllerVars == <<view, queue, delayed, work>>
vars           == <<clusterVars, events, controllerVars>>

-----------------------------------------------------------------------------
(* Pods, owners and versions.                                              *)

PodRecord == [phase    : {"absent", "pending", "running"},
              owner    : OwnerChains,
              interval : Durations,
              injected : Int \ {Failed},        \* AnnotationInjectedVersion
              born     : [Backends -> Versions]] \* history, read by no action

Initially == [p \in Backends |-> 1]

AbsentPod == [phase |-> "absent", owner |-> "none", interval |-> "absent",
              injected |-> NoVersion, born |-> Initially]

Exists(pod) == pod.phase # "absent"

(* The object triggerRollingRestart patches for a pod with owner o.        *)
NoTarget == "no target"
RestartTarget(o) ==
  CASE o = "ReplicaSet of Deployment"    -> "Deployment"
    [] o \in Workloads                   -> o
    [] OTHER                             -> NoTarget

(* Restarting such a pod's owner takes a call to the API server.           *)
CallsAPI(o) == RestartTarget(o) # NoTarget \/ o = "ReplicaSet"

Answers(p) == Replies[p][backend[p]]

First == Head(Providers)

(* What the webhook writes on a pod that it injects and that has a         *)
(* rotation annotation: the version of the first enabled provider only,    *)
(* and nothing if fetching it fails or yields the empty string.  A pod     *)
(* that opted out, or that was created around the webhook, has none.       *)
BaselineUnchecked(answer) == answer                                \* mutant
BaselinePending(answer) ==                                         \* mutant
  IF answer \in {Failed, NoVersion} THEN NoVersion ELSE answer + 1

Baseline(answer) == IF answer = Failed THEN NoVersion ELSE answer

Baselines(interval) ==
  IF interval = "absent" \/ Providers = <<>>
    THEN {NoVersion}
    ELSE {NoVersion} \cup {Baseline(a) : a \in Answers(First)}

Idle == [pc |-> "idle"]

Busy == [pc : {"check", "restart"}, pod : Pods, snap : PodRecord,
         i : 1..Len(Providers)]

TypeOK ==
  /\ backend \in [Backends -> Versions]
  /\ pods \in [Pods -> PodRecord]
  /\ loaded \in [Pods -> [Backends -> Versions]]
  /\ outdated \subseteq {u \in Pods : Exists(pods[u])}
  /\ stamped \subseteq Workloads
  /\ events \in [Controllers -> SUBSET Pods]
  /\ view \in [Controllers -> [Pods -> PodRecord]]
  /\ queue \in [Controllers -> SUBSET Pods]
  /\ delayed \in [Controllers -> SUBSET Pods]
  /\ work \in [Controllers -> {Idle} \cup Busy]

Init ==
  /\ backend = Initially
  /\ pods = [u \in Pods |-> AbsentPod]
  /\ loaded = [u \in Pods |-> Initially]
  /\ outdated = {}
  /\ stamped = {}
  /\ events = [c \in Controllers |-> {}]
  /\ view = [c \in Controllers |-> [u \in Pods |-> AbsentPod]]
  /\ queue = [c \in Controllers |-> {}]
  /\ delayed = [c \in Controllers |-> {}]
  /\ work = [c \in Controllers |-> Idle]

-----------------------------------------------------------------------------
(* The cluster.                                                            *)

RotateSecret(p) ==
  /\ p \in Changing /\ backend[p] < MaxVersion
  /\ backend' = [backend EXCEPT ![p] = @ + 1]
  /\ UNCHANGED <<pods, loaded, outdated, stamped, events, controllerVars>>

(* Every watch of the pods learns of a write, some time later.             *)
Write(u, pod) ==
  /\ pods' = [pods EXCEPT ![u] = pod]
  /\ events' = [c \in Controllers |-> events[c] \cup {u}]

(* A pod is created, through the webhook, until its workload has Replicas  *)
(* pods that are not outdated.                                             *)
Admit(u) ==
  /\ ~Exists(pods[u])
  /\ \E o \in Owners, interval \in Intervals :
       /\ Cardinality({v \in Pods \ outdated :
                         Exists(pods[v]) /\ pods[v].owner = o}) < Replicas
       /\ \E v \in Baselines(interval) :
            Write(u, [phase |-> "pending", owner |-> o, interval |-> interval,
                      injected |-> v, born |-> backend])
  /\ UNCHANGED <<backend, loaded, outdated, stamped, controllerVars>>

(* Its containers start, and the injector fetches the current secrets.     *)
Start(u) ==
  /\ pods[u].phase = "pending"
  /\ Write(u, [pods[u] EXCEPT !.phase = "running"])
  /\ loaded' = [loaded EXCEPT ![u] = backend]
  /\ UNCHANGED <<backend, outdated, stamped, controllerVars>>

(* A pod goes away: rolled by its workload's controller, or evicted.  The  *)
(* name may be used again, as a StatefulSet does.                          *)
Remove(u) ==
  /\ Exists(pods[u])
  /\ Write(u, AbsentPod)
  /\ loaded' = [loaded EXCEPT ![u] = Initially]
  /\ outdated' = outdated \ {u}
  /\ UNCHANGED <<backend, stamped, controllerVars>>

(* The next second begins.                                                 *)
Tick ==
  /\ stamped # {}
  /\ stamped' = {}
  /\ UNCHANGED <<backend, pods, loaded, outdated, events, controllerVars>>

-----------------------------------------------------------------------------
(* The informer and the work queue of a controller (controller-runtime).   *)

(* The informer catches up with a pod, possibly missing states between,    *)
(* and the event enqueues its key.                                         *)
Sync(c, u) ==
  /\ u \in events[c]
  /\ events' = [events EXCEPT ![c] = @ \ {u}]
  /\ view' = [view EXCEPT ![c][u] = pods[u]]
  /\ queue' = [queue EXCEPT ![c] = @ \cup {u}]
  /\ UNCHANGED <<clusterVars, delayed, work>>

(* The periodic resync of the informer enqueues every cached pod.          *)
Resync(c, u) ==
  /\ Exists(view[c][u]) /\ u \notin queue[c]
  /\ queue' = [queue EXCEPT ![c] = @ \cup {u}]
  /\ UNCHANGED <<clusterVars, events, view, delayed, work>>

Expire(c, u) ==
  /\ u \in delayed[c]
  /\ delayed' = [delayed EXCEPT ![c] = @ \ {u}]
  /\ queue' = [queue EXCEPT ![c] = @ \cup {u}]
  /\ UNCHANGED <<clusterVars, events, view, work>>

(* The replica's process stops, wherever Reconcile is, and a new one takes *)
(* its place: everything it held was in memory, and its informer starts    *)
(* with a list of the pods.                                                *)
Crash(c) ==
  /\ events' = [events EXCEPT ![c] = {u \in Pods : Exists(pods[u])}]
  /\ view' = [view EXCEPT ![c] = [u \in Pods |-> AbsentPod]]
  /\ queue' = [queue EXCEPT ![c] = {}]
  /\ delayed' = [delayed EXCEPT ![c] = {}]
  /\ work' = [work EXCEPT ![c] = Idle]
  /\ UNCHANGED clusterVars

-----------------------------------------------------------------------------
(* Reconcile up to its first call: it reads the pod from the cache.        *)

Take(c, u) ==
  /\ work[c] = Idle
  /\ u \in queue[c]
  /\ queue' = [queue EXCEPT ![c] = @ \ {u}]
  /\ UNCHANGED <<clusterVars, events, view>>

RequeueAfterNever(c, u, interval) == delayed' = delayed            \* mutant

(* ctrl.Result{RequeueAfter: interval}: a delay that is not positive is no *)
(* requeue at all.                                                         *)
RequeueAfter(c, u, interval) ==
  delayed' = IF interval = "positive"
               THEN [delayed EXCEPT ![c] = @ \cup {u}] ELSE delayed

(* A returned error: the key comes back after a backoff.                   *)
RequeueErrorNever(c, u) == delayed' = delayed                      \* mutant

RequeueError(c, u) == delayed' = [delayed EXCEPT ![c] = @ \cup {u}]

Parsed(pod) == pod.interval \in {"positive", "nonpositive"}

ReadFails(c, u) ==
  /\ Take(c, u)
  /\ RequeueError(c, u)
  /\ UNCHANGED work

ReconcileGone(c, u) ==
  /\ Take(c, u)
  /\ ~Exists(view[c][u])
  /\ UNCHANGED <<delayed, work>>

ReconcileUnmanaged(c, u) ==
  /\ Take(c, u)
  /\ Exists(view[c][u])
  /\ \/ ~Parsed(view[c][u])
     \/ view[c][u].injected # NoVersion /\ Providers = <<>>
  /\ UNCHANGED <<delayed, work>>

ReconcileUninjected(c, u) ==
  /\ Take(c, u)
  /\ Exists(view[c][u]) /\ Parsed(view[c][u])
  /\ view[c][u].injected = NoVersion
  /\ RequeueAfter(c, u, view[c][u].interval)
  /\ UNCHANGED work

ReconcileBegin(c, u) ==
  /\ Take(c, u)
  /\ Exists(view[c][u]) /\ Parsed(view[c][u])
  /\ view[c][u].injected # NoVersion /\ Providers # <<>>
  /\ work' = [work EXCEPT ![c] = [pc |-> "check", pod |-> u,
                                  snap |-> view[c][u], i |-> 1]]
  /\ UNCHANGED delayed

-----------------------------------------------------------------------------
(* The loop over the providers: one GetCurrentVersion call at a time.      *)

Checking(c) == work[c].pc = "check"
Asked(c)    == Answers(Providers[work[c].i])

VersionFails(c) ==
  /\ Checking(c)
  /\ Failed \in Asked(c)
  /\ RequeueError(c, work[c].pod)
  /\ work' = [work EXCEPT ![c] = Idle]
  /\ UNCHANGED <<clusterVars, events, view, queue>>

MatchesNonempty(c, v) == v = work[c].snap.injected                 \* mutant

Matches(c, v) == v = NoVersion \/ v = work[c].snap.injected

NextProvider(c) ==
  /\ Checking(c)
  /\ \E v \in Asked(c) \ {Failed} : Matches(c, v)
  /\ work[c].i < Len(Providers)
  /\ work' = [work EXCEPT ![c].i = @ + 1]
  /\ UNCHANGED <<clusterVars, events, view, queue, delayed>>

AllMatch(c) ==
  /\ Checking(c)
  /\ \E v \in Asked(c) \ {Failed} : Matches(c, v)
  /\ work[c].i = Len(Providers)
  /\ RequeueAfter(c, work[c].pod, work[c].snap.interval)
  /\ work' = [work EXCEPT ![c] = Idle]
  /\ UNCHANGED <<clusterVars, events, view, queue>>

VersionDiffers(c) ==
  /\ Checking(c)
  /\ \E v \in Asked(c) \ {Failed} : ~Matches(c, v)
  /\ work' = [work EXCEPT ![c].pc = "restart"]
  /\ UNCHANGED <<clusterVars, events, view, queue, delayed>>

-----------------------------------------------------------------------------
(* triggerRollingRestart, and the return of Reconcile after it.            *)

Restarting(c) == work[c].pc = "restart"
Target(c)     == RestartTarget(work[c].snap.owner)

(* Nothing to patch: no error, so Reconcile reports a restart and does not *)
(* requeue.                                                                *)
RestartSkipped(c) ==
  /\ Restarting(c)
  /\ Target(c) = NoTarget
  /\ work' = [work EXCEPT ![c] = Idle]
  /\ UNCHANGED <<clusterVars, events, view, queue, delayed>>

RestartFails(c) ==
  /\ Restarting(c)
  /\ CallsAPI(work[c].snap.owner)
  /\ RequeueError(c, work[c].pod)
  /\ work' = [work EXCEPT ![c] = Idle]
  /\ UNCHANGED <<clusterVars, events, view, queue>>

(* restartedAt has a resolution of one second: a patch in the second of    *)
(* the previous one changes nothing.                                       *)
RestartPatched(c) ==
  /\ Restarting(c)
  /\ Target(c) # NoTarget
  /\ outdated' = IF Target(c) \in stamped THEN outdated ELSE
       outdated \cup {u \in Pods : /\ Exists(pods[u])
                                   /\ RestartTarget(pods[u].owner) = Target(c)}
  /\ stamped' = IF PatchesShareSecond THEN stamped \cup {Target(c)} ELSE stamped
  /\ work' = [work EXCEPT ![c] = Idle]
  /\ UNCHANGED <<backend, pods, loaded, events, view, queue, delayed>>

-----------------------------------------------------------------------------
Cluster ==
  \/ \E p \in Backends : RotateSecret(p)
  \/ \E u \in Pods : Admit(u) \/ Start(u) \/ Remove(u)
  \/ Tick

Key(c, u) == \/ Sync(c, u) \/ Resync(c, u) \/ Expire(c, u)
             \/ ReadFails(c, u) \/ ReconcileGone(c, u)
             \/ ReconcileUnmanaged(c, u) \/ ReconcileUninjected(c, u)
             \/ ReconcileBegin(c, u)

Call(c) == \/ VersionFails(c) \/ NextProvider(c) \/ AllMatch(c)
           \/ VersionDiffers(c)
           \/ RestartSkipped(c) \/ RestartFails(c) \/ RestartPatched(c)

Next ==
  \/ Cluster
  \/ \E c \in Controllers : \/ \E u \in Pods : Key(c, u)
                            \/ Call(c)
                            \/ Crash(c)

Spec == Init /\ [][Next]_vars

(* The informer, the queue and the worker of controller-runtime make       *)
(* progress (its queue is first in first out, hence the strong fairness of *)
(* taking a key), every call returns, a backend or API server that is      *)
(* asked again and again answers in the end, workloads keep their pods and *)
(* roll the outdated ones, and replicas do not crash forever.  Resync, ten *)
(* hours apart, is not relied upon.                                        *)
Reads(c, u) == \/ ReconcileGone(c, u) \/ ReconcileUnmanaged(c, u)
               \/ ReconcileUninjected(c, u) \/ ReconcileBegin(c, u)

Rolls == \A u \in Pods : /\ WF_vars(Start(u))
                         /\ WF_vars(u \in outdated /\ Remove(u))

Delivers == \A c \in Controllers, u \in Pods : WF_vars(Sync(c, u))

Fairness ==
  /\ Rolls /\ Delivers
  /\ WF_vars(Tick)
  /\ \A c \in Controllers :
       /\ \A u \in Pods : WF_vars(Expire(c, u)) /\ SF_vars(Reads(c, u))
       /\ WF_vars(Call(c))
       /\ SF_vars(NextProvider(c) \/ AllMatch(c)) /\ SF_vars(VersionDiffers(c))
       /\ SF_vars(RestartPatched(c))
  /\ <>[][\A c \in Controllers : ~Crash(c)]_vars

FairSpec == Spec /\ Fairness

(* What the end of the restarts needs of this: that workloads roll their   *)
(* outdated pods and informers deliver.  Replicas may crash for ever and   *)
(* calls hang or fail.                                                     *)
RollingSpec == Spec /\ Rolls /\ Delivers

-----------------------------------------------------------------------------
(* Properties.                                                             *)

(* A Reconcile that is about to patch an owner has seen a real change: some *)
(* secret is no longer at the version it had when the pod was admitted     *)
(* (rotation_controller.go:79-85, across the calls between the comparison  *)
(* and the patch, and whatever the cached pod's age).                      *)
RestartNeedsChange ==
  \A c \in Controllers : Restarting(c) => work[c].snap.born # backend

(* Pods that Reconcile has to keep checking.                               *)
Managed(pod) == /\ Exists(pod)
                /\ pod.interval = "positive"
                /\ pod.injected = NoVersion \/ Providers # <<>>

Tracked(c, u) == \/ u \in queue[c] \cup delayed[c]
                 \/ work[c].pc # "idle" /\ work[c].pod = u
                 \/ u \in events[c]

(* No managed pod of a restartable workload drops out of the polling: each *)
(* replica has its key queued, delayed or in Reconcile, or still owes an   *)
(* informer event for it, or the pod is on its way out                     *)
(* (rotation_controller.go:63, 76, 87, 91 and 96).                         *)
OwnedPodsStayTracked ==
  \A c \in Controllers, u \in Pods :
    Managed(pods[u]) /\ RestartTarget(pods[u].owner) # NoTarget
      => Tracked(c, u) \/ u \in outdated

(* What the comment at rotation_controller.go:90 says of every pod whose   *)
(* restart was reported: it is not polled any more because it will be      *)
(* replaced.                                                               *)
RestartReplacesPod ==
  \A c \in Controllers, u \in Pods :
    Managed(pods[u]) => Tracked(c, u) \/ u \in outdated

(* One alteration, one rolling restart (README.md:59): the owner of a pod  *)
(* that is already being replaced is not patched again on its account.     *)
NoRepeatedRestart ==
  [][\A c \in Controllers :
       RestartPatched(c) => ~ /\ work[c].pod \in outdated
                              /\ work[c].snap = pods[work[c].pod]]_vars

(* A running pod, injected with a baseline, whose secret has moved on.     *)
Stale(u) == /\ pods[u].phase = "running" /\ Managed(pods[u])
            /\ pods[u].injected # NoVersion
            /\ RestartTarget(pods[u].owner) # NoTarget
            /\ loaded[u] # backend

(* A pod that runs with an old secret of the first provider carries a      *)
(* baseline which that provider has reported of a secret older than the    *)
(* current one: a provider that tells the two apart gives it away.  The    *)
(* baseline is read before the containers start and is never newer than    *)
(* what they load (main.go:425-436 against rotation_controller.go:79).     *)
StaleIsDetectable ==
  \A u \in Pods :
    Stale(u) /\ loaded[u][First] # backend[First] =>
      \E v \in Versions : v < backend[First] /\ pods[u].injected \in Replies[First][v]

(* A pod running with an old secret does not run forever: the change is    *)
(* detected by polling, through failing calls and lost races, and the pod  *)
(* is rolled (README.md:59).                                               *)
StalePodsReplaced == \A u \in Pods : Stale(u) ~> ~Stale(u)

(* Once the secrets stop changing the restarts stop as well: a restart     *)
(* gives its pods a baseline that does not cause the next one.             *)
RestartsSettle == <>[](outdated = {})

-----------------------------------------------------------------------------
(* What RestartNeedsChange needs of the providers: whatever the backends   *)
(* hold, all the versions reported of it at one time are the same.  It is  *)
(* so for each of the four providers of this commit, for vault, azure and  *)
(* gcp together, which all report "1", and for one provider that reports   *)
(* what its backend holds next to others that report nothing; it is not    *)
(* for aws next to another, nor for two that report what they hold.        *)
OneAnswer ==
  \A held \in [Backends -> Versions], p, q \in Backends :
    \A v \in Replies[p][held[p]], w \in Replies[q][held[q]] :
      {v, w} \cap {NoVersion, Failed} # {} \/ v = w
=============================================================================
