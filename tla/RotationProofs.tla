--------------------------- MODULE RotationProofs ---------------------------
(***************************************************************************)
(* Theorems about the rotation controller, for every set of pods, number   *)
(* of webhook replicas, ownership chain and bound on the versions.         *)
(***************************************************************************)
EXTENDS Rotation, TLAPS, SequenceTheorems

(* Type correctness.                                                       *)

LEMMA BusyTyped ==
  ASSUME TypeOK, NEW c \in Controllers, work[c].pc # "idle"
  PROVE  work[c] \in Busy
  BY DEF TypeOK, Idle

LEMMA BaselineTyped ==
  ASSUME TypeOK, NEW interval, NEW v \in Baselines(interval)
  PROVE  v \in Int \ {Failed}
<1>1. CASE v = NoVersion
  BY <1>1 DEF NoVersion, Failed
<1>2. CASE v # NoVersion
  <2>1. PICK a \in Answers(First) : v = Baseline(a) /\ Providers # <<>>
    BY <1>2 DEF Baselines, First
  <2>2. First \in Backends
    BY <2>1, RotationAssumption DEF First, Backends, Range
  <2>3. Answers(First) \subseteq Int
    BY <2>2, RotationAssumption DEF Answers, TypeOK
  <2> QED
    BY <2>1, <2>3 DEF Baseline, NoVersion, Failed
<1> QED
  BY <1>1, <1>2

LEMMA InitiallyTyped == Initially \in [Backends -> Versions]
  BY RotationAssumption DEF Initially, Versions

LEMMA AbsentTyped == AbsentPod \in PodRecord
<1> NoVersion \in Int \ {Failed}
  BY DEF NoVersion, Failed
<1> QED
  BY InitiallyTyped DEF AbsentPod, PodRecord, OwnerChains, Durations

LEMMA TypeInit == Init => TypeOK
  BY InitiallyTyped, AbsentTyped DEF Init, TypeOK

LEMMA TypeStep == TypeOK /\ [Next]_vars => TypeOK'
<1> SUFFICES ASSUME TypeOK, [Next]_vars
             PROVE  TypeOK'
  OBVIOUS
<1> USE DEF TypeOK
<1>1. ASSUME NEW p \in Backends, RotateSecret(p)
      PROVE  TypeOK'
  BY <1>1, RotationAssumption
  DEF RotateSecret, controllerVars, Versions
<1>2. ASSUME NEW u \in Pods, Admit(u)
      PROVE  TypeOK'
  <2>0. PICK o \in Owners, interval \in Intervals :
          \E v \in Baselines(interval) :
            Write(u, [phase |-> "pending", owner |-> o,
                      interval |-> interval, injected |-> v,
                      born |-> backend])
    BY <1>2 DEF Admit
  <2>1. PICK v \in Baselines(interval) :
          Write(u, [phase |-> "pending", owner |-> o, interval |-> interval,
                    injected |-> v, born |-> backend])
    BY <2>0
  <2>2. [phase |-> "pending", owner |-> o, interval |-> interval,
         injected |-> v, born |-> backend] \in PodRecord
    BY <2>1, BaselineTyped, RotationAssumption DEF PodRecord
  <2>3. outdated' \subseteq {w \in Pods : Exists(pods'[w])}
    BY <1>2, <2>1 DEF Admit, Write, Exists
  <2> QED
    BY <1>2, <2>1, <2>2, <2>3 DEF Admit, Write, controllerVars
<1>3. ASSUME NEW u \in Pods, Start(u)
      PROVE  TypeOK'
  <2>0. pods[u] \in PodRecord
    OBVIOUS
  <2>1. [pods[u] EXCEPT !.phase = "running"] \in PodRecord
    BY <2>0 DEF PodRecord
  <2> QED
    BY <1>3, <2>1 DEF Start, Write, controllerVars, Exists, PodRecord
<1>4. ASSUME NEW u \in Pods, Remove(u)
      PROVE  TypeOK'
  BY <1>4, AbsentTyped, InitiallyTyped
  DEF Remove, Write, controllerVars, Exists
<1>5. CASE Tick
  BY <1>5 DEF Tick, controllerVars
<1>6. ASSUME NEW c \in Controllers, NEW u \in Pods, Key(c, u)
      PROVE  TypeOK'
  <2>1. CASE Sync(c, u)
    BY <2>1 DEF Sync, clusterVars
  <2>2. CASE Resync(c, u)
    BY <2>2 DEF Resync, clusterVars
  <2>3. CASE Expire(c, u)
    BY <2>3 DEF Expire, clusterVars
  <2>4. CASE ReadFails(c, u)
    BY <2>4 DEF ReadFails, Take, RequeueError, clusterVars
  <2>5. CASE ReconcileGone(c, u)
    BY <2>5 DEF ReconcileGone, Take, clusterVars
  <2>6. CASE ReconcileUnmanaged(c, u)
    BY <2>6 DEF ReconcileUnmanaged, Take, clusterVars
  <2>7. CASE ReconcileUninjected(c, u)
    BY <2>7 DEF ReconcileUninjected, Take, RequeueAfter, clusterVars
  <2>8. CASE ReconcileBegin(c, u)
    <3>1. Len(Providers) \in Nat /\ 1 \in 1..Len(Providers)
      BY <2>8, RotationAssumption, EmptySeq, LenProperties DEF ReconcileBegin
    <3>2. [pc |-> "check", pod |-> u, snap |-> view[c][u], i |-> 1] \in Busy
      BY <3>1 DEF Busy
    <3> QED
      BY <2>8, <3>2 DEF ReconcileBegin, Take, clusterVars
  <2> QED
    BY <1>6, <2>1, <2>2, <2>3, <2>4, <2>5, <2>6, <2>7, <2>8 DEF Key
<1>7. ASSUME NEW c \in Controllers, Call(c)
      PROVE  TypeOK'
  <2>0. work[c] \in Busy
    BY <1>7, BusyTyped
    DEF Call, VersionFails, NextProvider, AllMatch, VersionDiffers,
        RestartSkipped, RestartFails, RestartPatched, Checking, Restarting
  <2>1. CASE VersionFails(c)
    BY <2>0, <2>1 DEF VersionFails, RequeueError, clusterVars, Busy
  <2>2. CASE NextProvider(c)
    <3>1. work[c].i + 1 \in 1..Len(Providers)
      <4>1. Len(Providers) \in Nat
        BY RotationAssumption, LenProperties
      <4>2. work[c].i \in 1..Len(Providers)
        BY <2>0 DEF Busy
      <4> QED
        BY <2>2, <4>1, <4>2 DEF NextProvider
    <3>2. [work[c] EXCEPT !.i = @ + 1] \in Busy
      BY <2>0, <3>1 DEF Busy
    <3> QED
      BY <2>2, <3>2 DEF NextProvider, clusterVars
  <2>3. CASE AllMatch(c)
    BY <2>0, <2>3 DEF AllMatch, RequeueAfter, clusterVars, Busy
  <2>4. CASE VersionDiffers(c)
    <3>1. [work[c] EXCEPT !.pc = "restart"] \in Busy
      BY <2>0 DEF Busy
    <3> QED
      BY <2>4, <3>1 DEF VersionDiffers, clusterVars
  <2>5. CASE RestartSkipped(c)
    BY <2>5 DEF RestartSkipped, clusterVars
  <2>6. CASE RestartFails(c)
    BY <2>0, <2>6 DEF RestartFails, RequeueError, clusterVars, Busy
  <2>7. CASE RestartPatched(c)
    <3>1. Target(c) \in Workloads
      BY <2>0, <2>7
      DEF RestartPatched, Target, RestartTarget, Busy, Workloads
    <3> QED
      BY <2>7, <3>1 DEF RestartPatched
  <2> QED
    BY <1>7, <2>1, <2>2, <2>3, <2>4, <2>5, <2>6, <2>7 DEF Call
<1>8. ASSUME NEW c \in Controllers, Crash(c)
      PROVE  TypeOK'
  BY <1>8, AbsentTyped DEF Crash, clusterVars
<1>9. CASE UNCHANGED vars
  BY <1>9 DEF vars, clusterVars, controllerVars
<1> QED
  BY <1>1, <1>2, <1>3, <1>4, <1>5, <1>6, <1>7, <1>8, <1>9 DEF Next, Cluster

(* Every state of the controllers and of the cluster is well typed; the    *)
(* Reconcile calls index a provider that exists.                           *)
THEOREM TypeCorrect == Spec => []TypeOK
  BY TypeInit, TypeStep, PTL DEF Spec

-----------------------------------------------------------------------------
(* OwnedPodsStayTracked.  The invariant alone is not inductive: a worker   *)
(* that lets a key go has looked at a snapshot of the pod, and whether the *)
(* pod is still tracked depends on what happened to it since.  What makes  *)
(* it work is that a snapshot or a cached pod that is out of date owes an  *)
(* event, delivered or not, and that every event ends in the queue.        *)

CachedOrOwed(c, u) == view[c][u] = pods[u] \/ u \in events[c]

SnapshotOrOwed(c) ==
  work[c].pc # "idle" => \/ work[c].snap = pods[work[c].pod]
                         \/ work[c].pod \in events[c] \cup queue[c]

TrackInv ==
  /\ TypeOK
  /\ stamped = {}
  /\ \A u \in Pods : ~Exists(pods[u]) => pods[u] = AbsentPod
  /\ \A c \in Controllers, u \in Pods : CachedOrOwed(c, u)
  /\ \A c \in Controllers : SnapshotOrOwed(c)
  /\ OwnedPodsStayTracked

LEMMA TrackInit == Init => TrackInv
  BY TypeInit
  DEF Init, TrackInv, CachedOrOwed, SnapshotOrOwed, OwnedPodsStayTracked,
      Managed, Exists, AbsentPod, Idle

LEMMA TrackWrite ==
  ASSUME TrackInv, TypeOK', NEW u \in Pods, NEW pod \in PodRecord,
         Exists(pod) \/ pod = AbsentPod, Write(u, pod),
         UNCHANGED <<stamped, controllerVars>>,
         outdated \ {u} \subseteq outdated'
  PROVE  TrackInv'
<1> USE DEF TypeOK
<1>1. /\ pods' \in [Pods -> PodRecord] /\ pods'[u] = pod
      /\ \A w \in Pods \ {u} : pods'[w] = pods[w]
      /\ \A c \in Controllers : events'[c] = events[c] \cup {u}
  BY DEF Write, TrackInv
<1>2. stamped' = {} /\ (\A w \in Pods : ~Exists(pods[w]) => pods[w] = AbsentPod)'
  BY <1>1 DEF TrackInv
<1>3. (\A c \in Controllers, w \in Pods : CachedOrOwed(c, w))'
  BY <1>1 DEF TrackInv, CachedOrOwed, controllerVars
<1>4. (\A c \in Controllers : SnapshotOrOwed(c))'
  <2>1. UNCHANGED <<queue, work>>
    BY DEF controllerVars
  <2>2. \A c \in Controllers : work[c].pc # "idle" => work[c].pod \in Pods
    BY BusyTyped DEF TrackInv, Busy
  <2> QED
    BY <1>1, <2>1, <2>2 DEF TrackInv, SnapshotOrOwed
<1>5. OwnedPodsStayTracked'
  BY <1>1 DEF TrackInv, OwnedPodsStayTracked, Tracked, controllerVars
<1> QED
  BY <1>2, <1>3, <1>4, <1>5 DEF TrackInv

(* A worker drops a key for good only if the pod does not need it.         *)
LEMMA TrackReconcile ==
  ASSUME TrackInv, TypeOK', NEW c \in Controllers, NEW u \in Pods,
         UNCHANGED <<pods, stamped, events, view>>,
         outdated \subseteq outdated',
         \A d \in Controllers \ {c} :
           /\ queue'[d] = queue[d]
           /\ delayed'[d] = delayed[d]
           /\ work'[d] = work[d],
         queue[c] \ {u} \subseteq queue'[c],
         delayed[c] \subseteq delayed'[c],
         work[c].pc # "idle" => work[c].pod = u,
         work'[c].pc # "idle" => /\ work'[c].pod = u
                                 /\ work'[c].snap = pods[u] \/ u \in events[c] \cup queue'[c],
         \/ ~Managed(pods[u])
         \/ RestartTarget(pods[u].owner) = NoTarget
         \/ u \in queue'[c] \cup delayed'[c] \cup events[c] \cup outdated'
         \/ work'[c].pc # "idle"
  PROVE  TrackInv'
<1>1. stamped' = {} /\ (\A w \in Pods : ~Exists(pods[w]) => pods[w] = AbsentPod)'
  BY DEF TrackInv
<1>2. (\A d \in Controllers, w \in Pods : CachedOrOwed(d, w))'
  BY DEF TrackInv, CachedOrOwed
<1>3. (\A d \in Controllers : SnapshotOrOwed(d))'
  BY DEF TrackInv, SnapshotOrOwed
<1>4. OwnedPodsStayTracked'
  <2> SUFFICES ASSUME NEW d \in Controllers, NEW w \in Pods,
                      Managed(pods[w]), RestartTarget(pods[w].owner) # NoTarget
               PROVE  Tracked(d, w)' \/ w \in outdated'
    BY DEF OwnedPodsStayTracked
  <2>1. Tracked(d, w) \/ w \in outdated
    BY DEF TrackInv, OwnedPodsStayTracked
  <2>2. CASE d # c \/ w # u
    BY <2>1, <2>2 DEF Tracked
  <2>3. CASE d = c /\ w = u
    BY <2>3 DEF Tracked
  <2> QED
    BY <2>2, <2>3
<1> QED
  BY <1>1, <1>2, <1>3, <1>4 DEF TrackInv

LEMMA TrackTaken ==
  ASSUME TrackInv, NEW c \in Controllers, NEW u \in Pods, Key(c, u),
         ~Sync(c, u), ~Resync(c, u), ~Expire(c, u), TypeOK'
  PROVE  TrackInv'
<1> USE DEF TypeOK
<1>1. /\ work[c] = Idle
      /\ queue'[c] = queue[c] \ {u}
      /\ UNCHANGED <<clusterVars, events, view>>
      /\ \A d \in Controllers \ {c} : /\ queue'[d] = queue[d]
                                      /\ delayed'[d] = delayed[d]
                                      /\ work'[d] = work[d]
      /\ delayed[c] \subseteq delayed'[c]
  BY DEF TrackInv, Key, ReadFails, ReconcileGone, ReconcileUnmanaged,
         ReconcileUninjected, ReconcileBegin, Take, RequeueError, RequeueAfter
<1>2. view[c][u] = pods[u] \/ u \in events[c]
  BY DEF TrackInv, CachedOrOwed
<1>3. /\ work'[c].pc # "idle" => /\ work'[c].pod = u
                                 /\ work'[c].snap = pods[u] \/ u \in events[c]
      /\ \/ ~Managed(pods[u])
         \/ u \in delayed'[c] \cup events[c]
         \/ work'[c].pc # "idle"
  <2>1. CASE ReadFails(c, u)
    BY <1>1, <2>1 DEF ReadFails, RequeueError, TrackInv, Idle
  <2>2. CASE ReconcileGone(c, u)
    BY <1>1, <1>2, <2>2 DEF ReconcileGone, Managed, Idle
  <2>3. CASE ReconcileUnmanaged(c, u)
    BY <1>1, <1>2, <2>3 DEF ReconcileUnmanaged, Managed, Parsed, Idle
  <2>4. CASE ReconcileUninjected(c, u)
    BY <1>1, <1>2, <2>4
    DEF ReconcileUninjected, RequeueAfter, Managed, TrackInv, Idle
  <2>5. CASE ReconcileBegin(c, u)
    <3>1. work'[c] = [pc |-> "check", pod |-> u, snap |-> view[c][u], i |-> 1]
      BY <2>5 DEF ReconcileBegin, TrackInv
    <3> QED
      BY <1>2, <3>1
  <2> QED
    BY <2>1, <2>2, <2>3, <2>4, <2>5 DEF Key
<1>4. UNCHANGED <<pods, stamped, outdated>> /\ work[c].pc = "idle"
  BY <1>1 DEF clusterVars, Idle
<1> QED
  BY <1>1, <1>3, <1>4, TrackReconcile

LEMMA TrackCall ==
  ASSUME ~PatchesShareSecond, TrackInv, NEW c \in Controllers, Call(c), TypeOK'
  PROVE  TrackInv'
<1> USE DEF TypeOK
<1> DEFINE u == work[c].pod
<1>0. work[c] \in Busy
  BY BusyTyped
  DEF TrackInv, Call, VersionFails, NextProvider, AllMatch, VersionDiffers,
      RestartSkipped, RestartFails, RestartPatched, Checking, Restarting
<1>1. /\ u \in Pods /\ work[c].pc # "idle"
      /\ work[c].snap = pods[u] \/ u \in events[c] \cup queue[c]
  BY <1>0 DEF Busy, TrackInv, SnapshotOrOwed
<1>2. /\ UNCHANGED <<pods, events, view, queue>>
      /\ \A d \in Controllers \ {c} : /\ delayed'[d] = delayed[d]
                                      /\ work'[d] = work[d]
      /\ delayed[c] \subseteq delayed'[c]
      /\ outdated \subseteq outdated'
  BY DEF TrackInv, Call, VersionFails, NextProvider, AllMatch, VersionDiffers,
         RestartSkipped, RestartFails, RestartPatched, RequeueError,
         RequeueAfter, clusterVars
<1>3. /\ UNCHANGED stamped
      /\ work'[c].pc # "idle" => work'[c].pod = u /\ work'[c].snap = work[c].snap
      /\ \/ ~Managed(pods[u])
         \/ RestartTarget(pods[u].owner) = NoTarget
         \/ u \in queue[c] \cup delayed'[c] \cup events[c] \cup outdated'
         \/ work'[c].pc # "idle"
  <2>1. CASE VersionFails(c)
    BY <2>1, <1>1 DEF VersionFails, RequeueError, clusterVars, Idle, TrackInv
  <2>2. CASE NextProvider(c)
    BY <2>2, <1>0, <1>1 DEF NextProvider, clusterVars, TrackInv, Busy
  <2>3. CASE AllMatch(c)
    BY <2>3, <1>1 DEF AllMatch, RequeueAfter, clusterVars, Idle, TrackInv, Managed
  <2>4. CASE VersionDiffers(c)
    BY <2>4, <1>0, <1>1 DEF VersionDiffers, clusterVars, TrackInv, Busy
  <2>5. CASE RestartSkipped(c)
    BY <2>5, <1>1 DEF RestartSkipped, clusterVars, Idle, TrackInv, Target
  <2>6. CASE RestartFails(c)
    BY <2>6, <1>1 DEF RestartFails, RequeueError, clusterVars, Idle, TrackInv
  <2>7. CASE RestartPatched(c)
    <3>1. stamped = {} /\ stamped' = stamped /\ work'[c] = Idle
      BY <2>7 DEF RestartPatched, TrackInv
    <3>2. CASE work[c].snap = pods[u] /\ Exists(pods[u])
      BY <2>7, <1>1, <3>1, <3>2 DEF RestartPatched, Target, Idle
    <3> QED
      BY <1>1, <3>1, <3>2 DEF Managed, Idle
  <2> QED
    BY <2>1, <2>2, <2>3, <2>4, <2>5, <2>6, <2>7 DEF Call
<1> QED
  BY <1>1, <1>2, <1>3, TrackReconcile

LEMMA TrackStep ==
  ASSUME ~PatchesShareSecond
  PROVE  TrackInv /\ [Next]_vars => TrackInv'
<1> SUFFICES ASSUME TrackInv, [Next]_vars
             PROVE  TrackInv'
  OBVIOUS
<1> USE DEF TypeOK
<1>0. TypeOK /\ TypeOK'
  BY TypeStep DEF TrackInv
<1>1. ASSUME NEW p \in Backends, RotateSecret(p)
      PROVE  TrackInv'
  BY <1>0, <1>1
  DEF RotateSecret, controllerVars, TrackInv, CachedOrOwed, SnapshotOrOwed,
      OwnedPodsStayTracked, Tracked
<1>2. ASSUME NEW u \in Pods, Admit(u)
      PROVE  TrackInv'
  <2>1. PICK pod : Write(u, pod) /\ Exists(pod)
    BY <1>2 DEF Admit, Exists
  <2>2. pods'[u] = pod /\ pod \in PodRecord
    BY <1>0, <2>1 DEF Write
  <2> QED
    BY <1>0, <1>2, <2>1, <2>2, TrackWrite DEF Admit
<1>3. ASSUME NEW u \in Pods, Start(u)
      PROVE  TrackInv'
  <2>1. PICK pod : Write(u, pod) /\ pod = [pods[u] EXCEPT !.phase = "running"]
    BY <1>3 DEF Start
  <2>2. pods'[u] = pod /\ pod \in PodRecord
    BY <1>0, <2>1 DEF Write
  <2>3. Exists(pod)
    BY <1>0, <2>1 DEF Exists, PodRecord
  <2> QED
    BY <1>0, <1>3, <2>1, <2>2, <2>3, TrackWrite DEF Start
<1>4. ASSUME NEW u \in Pods, Remove(u)
      PROVE  TrackInv'
  BY <1>0, <1>4, AbsentTyped, TrackWrite DEF Remove
<1>5. CASE Tick
  BY <1>5 DEF Tick, TrackInv
<1>6. ASSUME NEW c \in Controllers, NEW u \in Pods, Key(c, u)
      PROVE  TrackInv'
  <2>1. CASE Sync(c, u)
    BY <1>0, <2>1
    DEF Sync, clusterVars, TrackInv, CachedOrOwed, SnapshotOrOwed,
        OwnedPodsStayTracked, Tracked
  <2>2. CASE Resync(c, u)
    BY <1>0, <2>2
    DEF Resync, clusterVars, TrackInv, CachedOrOwed, SnapshotOrOwed,
        OwnedPodsStayTracked, Tracked
  <2>3. CASE Expire(c, u)
    BY <1>0, <2>3
    DEF Expire, clusterVars, TrackInv, CachedOrOwed, SnapshotOrOwed,
        OwnedPodsStayTracked, Tracked
  <2> QED
    BY <1>0, <1>6, <2>1, <2>2, <2>3, TrackTaken
<1>7. ASSUME NEW c \in Controllers, Call(c)
      PROVE  TrackInv'
  BY <1>0, <1>7, TrackCall
<1>8. ASSUME NEW c \in Controllers, Crash(c)
      PROVE  TrackInv'
  BY <1>0, <1>8
  DEF Crash, clusterVars, TrackInv, CachedOrOwed, SnapshotOrOwed, Idle,
      OwnedPodsStayTracked, Tracked, Managed
<1>9. CASE UNCHANGED vars
  BY <1>0, <1>9
  DEF vars, clusterVars, controllerVars, TrackInv, CachedOrOwed,
      SnapshotOrOwed, OwnedPodsStayTracked, Tracked
<1> QED
  BY <1>1, <1>2, <1>3, <1>4, <1>5, <1>6, <1>7, <1>8, <1>9 DEF Next, Cluster

(* Unless two patches of a workload may fall in one second, no Reconcile   *)
(* outcome, error, crash or late event ever makes a replica forget a pod   *)
(* of a restartable workload (rotation_controller.go:38-97).               *)
THEOREM Tracking ==
  ASSUME ~PatchesShareSecond
  PROVE  Spec => []OwnedPodsStayTracked
<1>1. TrackInv => OwnedPodsStayTracked
  BY DEF TrackInv
<1> QED
  BY <1>1, TrackInit, TrackStep, PTL DEF Spec

-----------------------------------------------------------------------------
(* StaleIsDetectable and RestartNeedsChange.  Both rest on time going one  *)
(* way: the baseline of a pod, what its process loaded and what the        *)
(* backends hold were read in this order, in the cache and the snapshots   *)
(* of every replica, too, however old they are.                            *)

Below(f, g) == \A p \in Backends : f[p] <= g[p]

Dated(pod) ==
  /\ Below(pod.born, backend)
  /\ pod.injected # NoVersion =>
       Providers # <<>> /\ pod.injected \in Replies[First][pod.born[First]]

(* Two versions that some providers report at some times.                  *)
Different(v, w) ==
  /\ {v, w} \cap {NoVersion, Failed} = {} /\ v # w
  /\ \E p, q \in Backends, i, j \in Versions :
       v \in Replies[p][i] /\ w \in Replies[q][j]

BaselineInv ==
  /\ TypeOK
  /\ \A u \in Pods : Dated(pods[u])
  /\ \A u \in Pods : pods[u].phase = "running" =>
       Below(pods[u].born, loaded[u]) /\ Below(loaded[u], backend)
  /\ \A c \in Controllers, u \in Pods : Dated(view[c][u])
  /\ \A c \in Controllers : work[c].pc # "idle" =>
       Dated(work[c].snap) /\ work[c].snap.injected # NoVersion
  /\ \A c \in Controllers : Restarting(c) => \E v, w \in Int : Different(v, w)

LEMMA FirstBackend == Providers # <<>> => First \in Backends
  BY RotationAssumption DEF First, Backends, Range

LEMMA BelowInts ==
  ASSUME NEW f \in [Backends -> Versions]
  PROVE  /\ Below(f, f) /\ Below(Initially, f)
         /\ \A p \in Backends : f[p] \in Int
  BY RotationAssumption DEF Below, Versions, Initially

LEMMA BelowTransitive ==
  ASSUME NEW f \in [Backends -> Versions], NEW g \in [Backends -> Versions],
         NEW h \in [Backends -> Versions], Below(f, g), Below(g, h)
  PROVE  Below(f, h)
<1> SUFFICES ASSUME NEW p \in Backends
             PROVE  f[p] <= h[p]
  BY DEF Below
<1>1. f[p] \in Int /\ g[p] \in Int /\ h[p] \in Int
  BY RotationAssumption DEF Versions
<1> QED
  BY <1>1 DEF Below

LEMMA BackendGrows ==
  ASSUME TypeOK, TypeOK', [Next]_vars
  PROVE  Below(backend, backend')
<1>1. CASE UNCHANGED backend
  BY <1>1, BelowInts DEF TypeOK
<1>2. ASSUME NEW p \in Backends, RotateSecret(p)
      PROVE  Below(backend, backend')
  <2>1. backend' = [backend EXCEPT ![p] = @ + 1]
    BY <1>2 DEF RotateSecret
  <2>2. \A q \in Backends : backend[q] \in Int
    BY BelowInts DEF TypeOK
  <2> QED
    BY <2>1, <2>2 DEF TypeOK, Below
<1>3. CASE Cluster
  BY <1>1, <1>2, <1>3 DEF Cluster, Admit, Start, Remove, Tick
<1>4. ASSUME NEW c \in Controllers, NEW u \in Pods, Key(c, u)
      PROVE  UNCHANGED backend
  BY <1>4
  DEF Key, Sync, Resync, Expire, ReadFails, ReconcileGone, Take,
      ReconcileUnmanaged, ReconcileUninjected, ReconcileBegin, clusterVars
<1>5. ASSUME NEW c \in Controllers, Call(c)
      PROVE  UNCHANGED backend
  BY <1>5
  DEF Call, VersionFails, NextProvider, AllMatch, VersionDiffers,
      RestartSkipped, RestartFails, RestartPatched, clusterVars
<1>6. ASSUME NEW c \in Controllers, Crash(c)
      PROVE  UNCHANGED backend
  BY <1>6 DEF Crash, clusterVars
<1>7. CASE UNCHANGED vars
  BY <1>1, <1>7 DEF vars, clusterVars
<1> QED
  BY <1>1, <1>3, <1>4, <1>5, <1>6, <1>7 DEF Next

LEMMA DatedStays ==
  ASSUME TypeOK, TypeOK', Below(backend, backend'), NEW pod \in PodRecord,
         Dated(pod)
  PROVE  Dated(pod)'
<1>1. pod.born \in [Backends -> Versions]
  BY DEF PodRecord
<1>2. Below(pod.born, backend')
  BY <1>1, BelowTransitive DEF TypeOK, Dated
<1> QED
  BY <1>2 DEF Dated, Below

LEMMA AbsentDated == ASSUME TypeOK PROVE Dated(AbsentPod)
  BY BelowInts DEF TypeOK, Dated, AbsentPod

LEMMA BaselineInit == Init => BaselineInv
<1> SUFFICES ASSUME Init
             PROVE  BaselineInv
  OBVIOUS
<1>1. TypeOK
  BY TypeInit
<1> QED
  BY <1>1, AbsentDated DEF Init, BaselineInv, Restarting, Idle, AbsentPod

(* What the webhook writes is the first provider's version at that moment. *)
LEMMA AdmittedDated ==
  ASSUME TypeOK, NEW o, NEW interval, NEW v \in Baselines(interval)
  PROVE  Dated([phase |-> "pending", owner |-> o, interval |-> interval,
                injected |-> v, born |-> backend])
<1>1. Below(backend, backend)
  BY BelowInts DEF TypeOK
<1>2. v # NoVersion => Providers # <<>> /\ v \in Replies[First][backend[First]]
  BY DEF Baselines, Baseline, Answers
<1> QED
  BY <1>1, <1>2 DEF Dated

(* The cluster's own steps.                                                *)
LEMMA BaselineCluster ==
  ASSUME BaselineInv, TypeOK', [Next]_vars, Cluster
  PROVE  BaselineInv'
<1> USE DEF TypeOK
<1>0. TypeOK /\ Below(backend, backend') /\ UNCHANGED controllerVars
  BY BackendGrows
  DEF BaselineInv, Cluster, RotateSecret, Admit, Start, Remove, Tick
<1>1. /\ \A c \in Controllers, u \in Pods : view[c][u] \in PodRecord
      /\ \A c \in Controllers : work[c].pc # "idle" => work[c].snap \in PodRecord
  BY <1>0, BusyTyped DEF Busy
<1>2. (\A c \in Controllers, u \in Pods : Dated(view[c][u]))'
  <2> SUFFICES ASSUME NEW c \in Controllers, NEW u \in Pods
               PROVE  Dated(view[c][u])'
    OBVIOUS
  <2>1. Dated(view[c][u]) /\ view'[c][u] = view[c][u]
    BY <1>0 DEF BaselineInv, controllerVars
  <2>2. \A pod \in PodRecord : Dated(pod) => Dated(pod)'
    BY <1>0, DatedStays
  <2> QED
    BY <1>1, <2>1, <2>2 DEF Dated
<1>3. (\A c \in Controllers : work[c].pc # "idle" =>
         Dated(work[c].snap) /\ work[c].snap.injected # NoVersion)'
  <2> SUFFICES ASSUME NEW c \in Controllers, work'[c].pc # "idle"
               PROVE  (Dated(work[c].snap) /\ work[c].snap.injected # NoVersion)'
    OBVIOUS
  <2>1. work'[c] = work[c] /\ Dated(work[c].snap) /\ work[c].snap.injected # NoVersion
    BY <1>0 DEF BaselineInv, controllerVars
  <2>2. \A pod \in PodRecord : Dated(pod) => Dated(pod)'
    BY <1>0, DatedStays
  <2> QED
    BY <1>1, <2>1, <2>2 DEF Dated
<1>4. (\A c \in Controllers : Restarting(c) => \E v, w \in Int : Different(v, w))'
  BY <1>0 DEF BaselineInv, Restarting, Different, controllerVars
<1>5. (\A u \in Pods : Dated(pods[u]))'
  <2> SUFFICES ASSUME NEW u \in Pods
               PROVE  Dated(pods[u])'
    OBVIOUS
  <2>1. \A pod \in PodRecord : Dated(pod) => Dated(pod)'
    BY <1>0, DatedStays
  <2>2. pods'[u] \in PodRecord /\ pods[u] \in PodRecord /\ Dated(pods[u])
    BY DEF BaselineInv
  <2>3. CASE pods'[u].born = pods[u].born /\ pods'[u].injected = pods[u].injected
    BY <2>1, <2>2, <2>3 DEF Dated
  <2>4. CASE pods'[u] = AbsentPod
    BY <1>0, <2>1, <2>4, AbsentTyped, AbsentDated DEF Dated
  <2>5. CASE Admit(u)
    <3>1. PICK o \in Owners, interval \in Intervals :
            \E v \in Baselines(interval) :
              Write(u, [phase |-> "pending", owner |-> o,
                        interval |-> interval, injected |-> v,
                        born |-> backend])
      BY <2>5 DEF Admit
    <3>2. PICK v \in Baselines(interval) :
            pods'[u] = [phase |-> "pending", owner |-> o,
                        interval |-> interval, injected |-> v,
                        born |-> backend]
      BY <3>1 DEF Write
    <3>3. Dated(pods'[u])
      BY <1>0, <3>2, AdmittedDated
    <3> QED
      BY <2>1, <2>2, <3>3 DEF Dated
  <2>6. ASSUME NEW w \in Pods, Start(w)
        PROVE  pods'[u].born = pods[u].born /\ pods'[u].injected = pods[u].injected
    <3>1. pods' = [pods EXCEPT ![w] = [pods[w] EXCEPT !.phase = "running"]]
      BY <2>6 DEF Start, Write
    <3> QED
      BY <2>2, <3>1 DEF PodRecord
  <2> QED
    BY <2>3, <2>4, <2>5, <2>6
    DEF Cluster, RotateSecret, Admit, Remove, Tick, Write
<1>6. (\A u \in Pods : pods[u].phase = "running" =>
         Below(pods[u].born, loaded[u]) /\ Below(loaded[u], backend))'
  <2> SUFFICES ASSUME NEW u \in Pods, pods'[u].phase = "running"
               PROVE  /\ Below(pods'[u].born, loaded'[u])
                      /\ Below(loaded'[u], backend')
    BY DEF Below
  <2>1. CASE Start(u)
    <3>1. /\ pods'[u] = [pods[u] EXCEPT !.phase = "running"]
          /\ loaded'[u] = backend /\ backend' = backend
      BY <2>1 DEF Start, Write, BaselineInv
    <3>2. pods'[u].born = pods[u].born
      BY <3>1 DEF BaselineInv, PodRecord
    <3> QED
      BY <1>0, <3>1, <3>2 DEF BaselineInv, Dated
  <2>2. CASE pods'[u] = pods[u] /\ loaded'[u] = loaded[u]
    <3>1. Below(loaded[u], backend)
      BY <2>2 DEF BaselineInv
    <3>2. Below(loaded[u], backend')
      BY <1>0, <3>1, BelowTransitive
    <3> QED
      BY <2>2, <3>2 DEF BaselineInv
  <2>3. pods'[u] # AbsentPod
    BY DEF AbsentPod
  <2>4. ~Admit(u)
    <3> SUFFICES ASSUME Admit(u)
                 PROVE  FALSE
      OBVIOUS
    <3>1. PICK o \in Owners, interval \in Intervals :
            \E v \in Baselines(interval) :
              Write(u, [phase |-> "pending", owner |-> o,
                        interval |-> interval, injected |-> v,
                        born |-> backend])
      BY DEF Admit
    <3>2. pods'[u].phase = "pending"
      BY <3>1 DEF Write, BaselineInv
    <3> QED
      BY <3>2
  <2>5. ~Remove(u)
    BY <2>3 DEF Remove, Write, BaselineInv
  <2>6. ASSUME NEW w \in Pods \ {u}, Admit(w) \/ Start(w) \/ Remove(w)
        PROVE  pods'[u] = pods[u] /\ loaded'[u] = loaded[u]
    <3>1. \E pod : pods' = [pods EXCEPT ![w] = pod]
      BY <2>6 DEF Admit, Start, Remove, Write
    <3>2. loaded'[u] = loaded[u]
      BY <2>6 DEF Admit, Start, Remove, BaselineInv
    <3> QED
      BY <3>1, <3>2 DEF BaselineInv
  <2> QED
    BY <2>1, <2>2, <2>4, <2>5, <2>6 DEF Cluster, RotateSecret, Tick
<1> QED
  BY <1>2, <1>3, <1>4, <1>5, <1>6 DEF BaselineInv

(* A controller's steps: what it caches or works on comes from a pod.      *)
LEMMA BaselineController ==
  ASSUME BaselineInv, TypeOK', UNCHANGED <<backend, pods, loaded>>,
         \A c \in Controllers, u \in Pods :
           view'[c][u] \in {view[c][u], pods[u], AbsentPod},
         \A c \in Controllers : work'[c].pc # "idle" =>
           \/ work[c].pc # "idle" /\ work'[c].snap = work[c].snap
           \/ /\ \E u \in Pods : work'[c].snap = view[c][u]
              /\ work'[c].snap.injected # NoVersion,
         \A c \in Controllers : work'[c].pc = "restart" =>
           work[c].pc = "restart" \/ \E v, w \in Int : Different(v, w)
  PROVE  BaselineInv'
<1>0. TypeOK /\ Dated(AbsentPod)
  BY AbsentDated DEF BaselineInv
<1>1. (\A c \in Controllers, u \in Pods : Dated(view[c][u]))'
  BY <1>0 DEF BaselineInv, Dated
<1>2. (\A c \in Controllers : work[c].pc # "idle" =>
         Dated(work[c].snap) /\ work[c].snap.injected # NoVersion)'
  BY DEF BaselineInv, Dated
<1>3. (\A c \in Controllers : Restarting(c) => \E v, w \in Int : Different(v, w))'
  BY DEF BaselineInv, Restarting, Different
<1> QED
  BY <1>1, <1>2, <1>3 DEF BaselineInv, Dated

(* A version that does not match differs from a baseline of the first      *)
(* provider.                                                               *)
LEMMA Mismatch ==
  ASSUME BaselineInv, NEW c \in Controllers, VersionDiffers(c)
  PROVE  \E p \in Backends : \E w \in Answers(p) :
           /\ {w, work[c].snap.injected} \cap {NoVersion, Failed} = {}
           /\ w # work[c].snap.injected
           /\ First \in Backends
           /\ work[c].snap \in PodRecord
           /\ work[c].snap.injected \in Replies[First][work[c].snap.born[First]]
<1>1. work[c] \in Busy /\ Dated(work[c].snap) /\ work[c].snap.injected # NoVersion
  BY BusyTyped DEF BaselineInv, VersionDiffers, Checking
<1>2. PICK w \in Asked(c) : w # Failed /\ w # NoVersion /\ w # work[c].snap.injected
  BY DEF VersionDiffers, Matches
<1>3. Providers[work[c].i] \in Backends
  BY <1>1, RotationAssumption DEF Busy, Backends, Range
<1>4. work[c].snap.injected # Failed
  BY <1>1 DEF Busy, PodRecord
<1>5. First \in Backends
  BY <1>1, FirstBackend DEF Dated
<1> QED
  BY <1>1, <1>2, <1>3, <1>4, <1>5 DEF Asked, Dated, Busy

LEMMA MismatchDiffers ==
  ASSUME BaselineInv, NEW c \in Controllers, VersionDiffers(c)
  PROVE  \E v, w \in Int : Different(v, w)
<1> DEFINE v == work[c].snap.injected
<1>1. PICK p \in Backends : \E w \in Answers(p) :
           /\ {w, v} \cap {NoVersion, Failed} = {} /\ w # v
           /\ First \in Backends
           /\ work[c].snap \in PodRecord
           /\ v \in Replies[First][work[c].snap.born[First]]
  BY Mismatch
<1>2. PICK w \in Answers(p) :
           /\ {w, v} \cap {NoVersion, Failed} = {} /\ w # v
           /\ First \in Backends
           /\ work[c].snap \in PodRecord
           /\ v \in Replies[First][work[c].snap.born[First]]
  BY <1>1
<1>3. backend[p] \in Versions /\ work[c].snap.born[First] \in Versions
  BY <1>2 DEF BaselineInv, TypeOK, PodRecord
<1>4. v \in Int /\ w \in Int
  BY <1>2, <1>3, RotationAssumption DEF PodRecord, Answers
<1>5. Different(v, w)
  BY <1>2, <1>3 DEF Different, Answers
<1> QED
  BY <1>4, <1>5

LEMMA BaselineStep == BaselineInv /\ [Next]_vars => BaselineInv'
<1> SUFFICES ASSUME BaselineInv, [Next]_vars
             PROVE  BaselineInv'
  OBVIOUS
<1>0. TypeOK /\ TypeOK'
  BY TypeStep DEF BaselineInv
<1>1. CASE Cluster
  BY <1>0, <1>1, BaselineCluster
<1>2. ASSUME NEW c \in Controllers, NEW u \in Pods, Key(c, u)
      PROVE  BaselineInv'
  <2>1. UNCHANGED <<backend, pods, loaded>>
    BY <1>2
    DEF Key, Sync, Resync, Expire, ReadFails, ReconcileGone, Take,
        ReconcileUnmanaged, ReconcileUninjected, ReconcileBegin, clusterVars
  <2>2. \A d \in Controllers, w \in Pods : view'[d][w] \in {view[d][w], pods[w]}
    <3>1. CASE Sync(c, u)
      BY <1>0, <3>1 DEF TypeOK, Sync
    <3>2. CASE ~Sync(c, u)
      BY <1>2, <3>2
      DEF Key, Resync, Expire, ReadFails, ReconcileGone, Take,
          ReconcileUnmanaged, ReconcileUninjected, ReconcileBegin
    <3> QED
      BY <3>1, <3>2
  <2>3. CASE ReconcileBegin(c, u)
    <3>1. /\ work' = [work EXCEPT ![c] = [pc |-> "check", pod |-> u,
                                          snap |-> view[c][u], i |-> 1]]
          /\ view[c][u].injected # NoVersion
      BY <2>3 DEF ReconcileBegin
    <3>2. work'[c] = [pc |-> "check", pod |-> u, snap |-> view[c][u], i |-> 1]
      BY <1>0, <3>1 DEF TypeOK
    <3>3. \A d \in Controllers \ {c} : work'[d] = work[d]
      BY <1>0, <3>1 DEF TypeOK
    <3> QED
      BY <1>0, <2>1, <2>2, <3>1, <3>2, <3>3, BaselineController
  <2>4. CASE work' = work
    BY <1>0, <2>1, <2>2, <2>4, BaselineController
  <2> QED
    BY <1>2, <2>3, <2>4
    DEF Key, Sync, Resync, Expire, ReadFails, ReconcileGone, Take,
        ReconcileUnmanaged, ReconcileUninjected
<1>3. ASSUME NEW c \in Controllers, Call(c)
      PROVE  BaselineInv'
  <2>1. UNCHANGED <<backend, pods, loaded, view>>
    BY <1>3
    DEF Call, VersionFails, NextProvider, AllMatch, VersionDiffers,
        RestartSkipped, RestartFails, RestartPatched, clusterVars
  <2>2. work[c] \in Busy /\ work[c].pc # "idle"
    BY <1>0, <1>3, BusyTyped
    DEF Call, VersionFails, NextProvider, AllMatch, VersionDiffers,
        RestartSkipped, RestartFails, RestartPatched, Checking, Restarting
  <2>3. \A d \in Controllers \ {c} : work'[d] = work[d]
    BY <1>0, <1>3
    DEF TypeOK, Call, VersionFails, NextProvider, AllMatch, VersionDiffers,
        RestartSkipped, RestartFails, RestartPatched
  <2>4. CASE VersionDiffers(c)
    <3>1. work'[c].snap = work[c].snap
      BY <1>0, <2>2, <2>4 DEF VersionDiffers, TypeOK, Busy
    <3>2. \E v, w \in Int : Different(v, w)
      BY <2>4, MismatchDiffers
    <3> QED
      BY <1>0, <2>1, <2>2, <2>3, <3>1, <3>2, BaselineController
  <2>5. CASE NextProvider(c)
    <3>1. work'[c].snap = work[c].snap /\ work'[c].pc = "check"
      BY <1>0, <2>2, <2>5 DEF NextProvider, Checking, TypeOK, Busy
    <3> QED
      BY <1>0, <2>1, <2>2, <2>3, <3>1, BaselineController
  <2>6. CASE work'[c] = Idle
    BY <1>0, <2>1, <2>3, <2>6, BaselineController DEF Idle
  <2> QED
    BY <1>0, <1>3, <2>4, <2>5, <2>6
    DEF Call, VersionFails, AllMatch, RestartSkipped, RestartFails,
        RestartPatched, TypeOK
<1>4. ASSUME NEW c \in Controllers, Crash(c)
      PROVE  BaselineInv'
  <2>1. /\ UNCHANGED <<backend, pods, loaded>>
        /\ \A d \in Controllers, u \in Pods : view'[d][u] \in {view[d][u], AbsentPod}
        /\ \A d \in Controllers : work'[d] \in {work[d], Idle}
    BY <1>0, <1>4 DEF Crash, clusterVars, TypeOK
  <2> QED
    BY <1>0, <2>1, BaselineController DEF Idle
<1>5. CASE UNCHANGED vars
  BY <1>0, <1>5, BaselineController DEF vars, clusterVars, controllerVars
<1> QED
  BY <1>1, <1>2, <1>3, <1>4, <1>5 DEF Next

(* For any number of providers, whatever they report, a pod that runs with *)
(* an old secret of the first has a baseline which that provider reported  *)
(* of an older one, so polling can miss it only where the provider does    *)
(* not tell the two apart (main.go:425-436, rotation_controller.go:79).    *)
THEOREM Detection == Spec => []StaleIsDetectable
<1>1. ASSUME BaselineInv
      PROVE  StaleIsDetectable
  <2> SUFFICES ASSUME NEW u \in Pods, Stale(u),
                      loaded[u][First] # backend[First]
               PROVE  \E v \in Versions :
                        v < backend[First] /\ pods[u].injected \in Replies[First][v]
    BY DEF StaleIsDetectable
  <2>1. /\ First \in Backends
        /\ pods[u].injected \in Replies[First][pods[u].born[First]]
        /\ Below(pods[u].born, loaded[u]) /\ Below(loaded[u], backend)
    BY <1>1, FirstBackend DEF Stale, BaselineInv, Dated
  <2>2. /\ pods[u].born[First] \in Versions /\ loaded[u][First] \in Versions
        /\ backend[First] \in Versions
    BY <1>1, <2>1 DEF BaselineInv, TypeOK, PodRecord
  <2>3. pods[u].born[First] <= loaded[u][First] /\ loaded[u][First] <= backend[First]
    BY <2>1 DEF Below
  <2>4. pods[u].born[First] < backend[First]
    BY <2>2, <2>3, RotationAssumption DEF Versions
  <2> QED
    BY <2>1, <2>2, <2>4
<1> QED
  BY <1>1, BaselineInit, BaselineStep, PTL DEF Spec

(* Restarting needs two reported versions that differ, so with providers   *)
(* that only ever report one string, as vault, azure and gcp do together   *)
(* and each of the four does alone, no pod is ever restarted.              *)
THEOREM ConstantsNeverRestart ==
  ASSUME \A v, w \in Int : ~Different(v, w)
  PROVE  Spec => [](\A c \in Controllers : ~Restarting(c))
<1>1. BaselineInv => \A c \in Controllers : ~Restarting(c)
  BY DEF BaselineInv
<1> QED
  BY <1>1, BaselineInit, BaselineStep, PTL DEF Spec

LEMMA CauseStep ==
  ASSUME OneAnswer, BaselineInv, TypeOK', RestartNeedsChange, [Next]_vars
  PROVE  RestartNeedsChange'
<1> SUFFICES ASSUME NEW c \in Controllers, work'[c].pc = "restart"
             PROVE  work'[c].snap.born # backend'
  BY DEF RestartNeedsChange, Restarting
<1>0. TypeOK
  BY DEF BaselineInv
<1>1. CASE VersionDiffers(c)
  <2>1. /\ work[c] \in Busy
        /\ work'[c].snap = work[c].snap /\ backend' = backend
    BY <1>0, <1>1, BusyTyped
    DEF VersionDiffers, Checking, TypeOK, Busy, clusterVars
  <2> DEFINE v == work[c].snap.injected
  <2>2. PICK p \in Backends : \E w \in Answers(p) :
             /\ {w, v} \cap {NoVersion, Failed} = {} /\ w # v
             /\ First \in Backends
             /\ v \in Replies[First][work[c].snap.born[First]]
    BY <1>1, Mismatch
  <2>3. PICK w \in Replies[p][backend[p]] :
             /\ {w, v} \cap {NoVersion, Failed} = {} /\ w # v
             /\ First \in Backends
             /\ v \in Replies[First][work[c].snap.born[First]]
    BY <2>2 DEF Answers
  <2>4. SUFFICES ASSUME work[c].snap.born = backend
                 PROVE  FALSE
    BY <2>1
  <2>5. backend \in [Backends -> Versions]
    BY <1>0 DEF TypeOK
  <2>6. v \in Replies[First][backend[First]]
    BY <2>3, <2>4
  <2>7. \A f, g \in Backends :
          \A x \in Replies[f][backend[f]], y \in Replies[g][backend[g]] :
            {x, y} \cap {NoVersion, Failed} # {} \/ x = y
    BY <2>5 DEF OneAnswer
  <2> QED
    BY <2>3, <2>6, <2>7
<1>2. CASE ~VersionDiffers(c)
  <2>1. work'[c] = work[c]
    <3>1. CASE Cluster \/ UNCHANGED vars
      BY <3>1
      DEF Cluster, RotateSecret, Admit, Start, Remove, Tick, vars,
          controllerVars
    <3>2. ASSUME NEW d \in Controllers, NEW u \in Pods, Key(d, u)
          PROVE  work'[c] = work[c]
      <4>1. CASE ReconcileBegin(d, u)
        BY <1>0, <4>1 DEF ReconcileBegin, TypeOK
      <4> QED
        BY <3>2, <4>1
        DEF Key, Sync, Resync, Expire, ReadFails, ReconcileGone, Take,
            ReconcileUnmanaged, ReconcileUninjected
    <3>3. ASSUME NEW d \in Controllers, Call(d)
          PROVE  work'[c] = work[c]
      <4>1. work'[d] = Idle \/ NextProvider(d) \/ VersionDiffers(d)
        BY <1>0, <3>3
        DEF Call, VersionFails, AllMatch, RestartSkipped, RestartFails,
            RestartPatched, TypeOK
      <4>2. \A e \in Controllers \ {d} : work'[e] = work[e]
        BY <1>0, <3>3
        DEF Call, VersionFails, NextProvider, AllMatch, VersionDiffers,
            RestartSkipped, RestartFails, RestartPatched, TypeOK
      <4>3. NextProvider(d) => work'[d].pc = "check"
        BY <1>0, BusyTyped DEF NextProvider, Checking, TypeOK, Busy
      <4> QED
        BY <1>2, <4>1, <4>2, <4>3 DEF Idle
    <3>4. ASSUME NEW d \in Controllers, Crash(d)
          PROVE  work'[c] = work[c]
      BY <1>0, <3>4 DEF Crash, TypeOK, Idle
    <3> QED
      BY <3>1, <3>2, <3>3, <3>4 DEF Next
  <2>2. work[c].snap.born # backend /\ Dated(work[c].snap) /\ work[c] \in Busy
    BY <1>0, <2>1, BusyTyped DEF RestartNeedsChange, Restarting, BaselineInv
  <2> DEFINE b == work[c].snap.born
  <2>3. b \in [Backends -> Versions] /\ Below(b, backend)
    BY <2>2 DEF Busy, PodRecord, Dated
  <2>4. Below(backend, backend')
    BY <1>0, BackendGrows
  <2>5. PICK p \in Backends : b[p] # backend[p]
    BY <1>0, <2>2, <2>3 DEF TypeOK
  <2>6. /\ b[p] <= backend[p] /\ backend[p] <= backend'[p]
        /\ b[p] \in Int /\ backend[p] \in Int /\ backend'[p] \in Int
    BY <1>0, <2>3, <2>4, BelowInts DEF Below, TypeOK
  <2>7. b[p] # backend'[p]
    BY <2>5, <2>6
  <2> QED
    BY <2>1, <2>7
<1> QED
  BY <1>1, <1>2

(* If the versions that the enabled providers report at one time are all   *)
(* the same, a restart is always caused by a change of a secret, however   *)
(* old the cached pod is and whatever happens between the comparison and   *)
(* the patch (rotation_controller.go:79-85).  Without the hypothesis it is *)
(* not, as vault with aws shows.                                           *)
THEOREM NoCauselessRestart ==
  ASSUME OneAnswer
  PROVE  Spec => []RestartNeedsChange
<1>1. BaselineInv => TypeOK
  BY DEF BaselineInv
<1>2. Init => RestartNeedsChange
  BY DEF Init, RestartNeedsChange, Restarting, Idle
<1>3. BaselineInv /\ BaselineInv' /\ RestartNeedsChange /\ [Next]_vars
        => RestartNeedsChange'
  BY CauseStep, TypeStep DEF BaselineInv
<1> QED
  BY <1>2, <1>3, BaselineInit, BaselineStep, PTL DEF Spec

=============================================================================
