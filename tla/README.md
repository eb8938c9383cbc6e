# A model of the k8s-vault-webhook

This directory models the mutating webhook and the secret rotation controller of this repository in TLA+. TLC
checks the models on small instances, and TLAPS proves every safety property that a passing run checks, and the
refinement, for every instance, with the hypotheses section 4 names. The modules follow the code (`main.go`, `types.go`, `provider/`,
`controllers/`, `registry/`), not its prose.

    tlc -config MCRotation_safety.cfg MCRotation      one run (PROJECT.json lists all of them)
    tlapm RotationProofs.tla                          the proofs (and the other *Proofs.tla)

## 1. The system

One Go process, deployed in several replicas (`replicaCount`, 2 by default), does two things.

* As an **admission webhook** it receives the review of every pod that is created. It finds the secret managers the
  pod's annotations enable, makes the injector the command of every container (with the old command as arguments
  after the provider's), and adds an init container and the volumes that put the injector there.
* As a **rotation controller**, which every process starts, it reconciles pods. A pod with a rotation interval is
  polled, the secret's current version is compared with the one the webhook wrote on the pod at admission, and when
  they differ the owner of the pod is patched so that it rolls.

The halves meet in one annotation, `vault.opstree.secret.manager/injected-version`: `SecretsMutator` writes it
(main.go:424-436) and `Reconcile` reads it, minutes or days later, from another process perhaps
(rotation_controller.go:60, 79).

### Components

| component | state | operations | interacts with |
|---|---|---|---|
| admission handler (`main.go`) | the pod copy and locals of each review, counters shared by all | `SecretsMutator`, `mutatePod`, `mutateContainers`, `getVolumes`, `getInitContainers`, lookups of ConfigMaps and Secrets | API server (calls), providers (calls), image registry (calls), metrics (shared) |
| providers and their registry (`provider/`, `types.go`) | the configuration parsed from annotations, made anew for each review and reconcile | `BuildEnabledProviders`, `ParseConfig`, `Validate`, `MutateContainer`, `ExtraVolumes`, `GetCurrentVersion` | called by the handler and by the controller |
| rotation controller (`controllers/`) | work queue, delays, informer cache and call in progress; nothing survives a restart | `Reconcile`, `triggerRollingRestart`, `SetupWithManager` | informer (events), secret managers (poll), API server (read, patch) |
| image registry client (`registry/`) | image-config cache without expiry, ECR token cache with expiry | `GetImageConfig`, `Collect`, `parseDockerConfig`, ECR login | registries, API server, AWS |
| process lifecycle (`main.go`) | the admission server, the telemetry server, the manager's goroutine | `main`, start of the servers and of the manager, graceful shutdown | signals |
| metrics (`metrics/`) | process-wide counters and histograms | increments | all of the above |
| version (`version/`) | constants | - | - |

### What is hard here

*Concurrency.* Each review is a goroutine. Each replica runs its own controller (there is no leader election,
main.go:549) against the same pods. Secrets, pods, owners and informer caches move between any two steps of
`Reconcile`.

*Failure.* Every call of `Reconcile` may fail and is retried by the queue. A replica may die at any point and finds
its way back from the informer's list alone. A review may fail at its third container, with two of them mutated.

*Ordering.* The arguments of a container are built up by several hands (image entrypoint, image cmd, command, args,
provider after provider). The vault secret configs come out of a Go map. A baseline is only worth something if it was
read before the secret was.

*Shared caches.* The lookups of image configs share a cache without expiry and a cache of tokens with one; each is
read before a call to a registry or to AWS and filled after it.

*Start and shutdown.* Three goroutines besides the reviews may end the process while main starts, waits or drains.

*Time.* `restartedAt` has the resolution of a second. Requeue delays come from a parsed duration that may be zero or
negative.

`PROJECT.json` lists these one by one under `hazards`, with the line where each bites and the property that covers it,
or the reason why none does yet.

### What correctness means, component by component

* *Rotation controller*: no restart without a change; a pod with an old secret can be told apart, and is rolled in the
  end; a managed pod never drops out of the polling; one change, one restart; restarts come to an end.
* *Admission handler*: each review is answered once, and with the pod either untouched or completely mutated; the
  process a container ends up running is the one it would have run without the webhook; the injector, its volume and
  the provider's volumes are all there whenever a mount or a command needs them; the counters agree with the answers.
* *Providers*: enabled in registry order whatever the annotation order; secret configs in numeric order; arguments
  separated from those of the container.
* *Image registry client*: an image's config is the one its registry serves for that name; a cached token is used no
  longer than it lives; a pull secret that matches is found.
* *Process lifecycle*: on SIGTERM the reviews in progress are answered within `shutdown_timeout`, and nothing else that ends then cuts
  them off.

## 2. The modules

| module | models | lines of code |
|---|---|---|
| `Rotation` | `controllers/rotation_controller.go`, the baseline of main.go:424-436, and the cluster around it | whole file |
| `RotationProofs` | the theorems about `Rotation` | |
| `Providers` | `provider/*` and `newProviderRegistry`, as pure operators | all but `ParseConfig`'s copying of values |
| `ProvidersProofs` | lemmas about them: the enabled providers, the sort, the loops over the providers | |
| `Injection` | the injector, the copy container, what Kubernetes runs for `command`/`args`, and the pods a review may be answered with | main.go:62-110, 216-447 as one result |
| `AtomicAdmission` | abstract: a review is answered or denied in one step | |
| `Admission` | `SecretsMutator`, `mutatePod`, `mutateContainers` step by step; implements `AtomicAdmission` | main.go:113-447 |
| `AdmissionProofs` | the loop invariant, and the refinement | |
| `AdmissionCounterProofs` | the counters and the types | |
| `AdmittedPodProofs` | what a mutated pod runs, is told and mounts | |
| `ImageNames` | how `registry/registry.go` takes image names and docker configs apart, as pure operators; and what a name means | registry.go:71-80, 186-307, 366-379 |
| `ImageNamesProofs` | that the names called `Clear` are read as they are meant | |
| `ImageRegistry` | `GetImageConfig`, `Collect`, `getImageBlob` step by step, with both caches | registry.go:53-184, 309-436 |
| `ImageRegistryProofs` | the theorems about `ImageRegistry` | |
| `Lifecycle` | `main` and its goroutines | main.go:453-476, 502-641 |
| `LifecycleProofs` | the theorems about `Lifecycle` | |
| `MCRotation`, `MCAdmission`, `MCImageRegistry`, `MCLifecycle` | constants for TLC | |

`Admission` extends `Injection`, which extends `Providers`; `AtomicAdmission` stands alone, and `Admission` instantiates
it with the answers of `Injection` (`Outcomes`, `Deniable`); `ImageRegistry` extends `ImageNames`. The proof modules of a
component extend it, and `AdmissionProofs` and `ImageRegistryProofs` extend `ProvidersProofs` and `ImageNamesProofs` as well.
The components meet at constants and at actions: `Rotation` takes from `Admission` that the baseline is the version
of the first provider (`Baselines`), `Admission` takes from `ImageRegistry` that a lookup answers with the config of
the image or fails (`Images`, `ImageConfigFails`), and the end of the process that `Lifecycle` describes is
`Crash` for `Rotation`.

### `Rotation`

| state | in the code and the cluster |
|---|---|
| `backend[p]` | the version of the secret in p's backend (`Answers` turns it into what `GetCurrentVersion` returns) |
| `pods[u]`, `loaded[u]` | the pod in the API server with its two annotations and its owner chain; the secret versions its process was started with |
| `outdated`, `stamped` | pods of a template patched since; workloads whose `restartedAt` is the current second |
| `events[c]`, `view[c]` | informer events still owed to replica c; its cache, which `r.Get` reads |
| `queue[c]`, `delayed[c]` | ready keys; keys waiting for `RequeueAfter` or for a backoff |
| `work[c]` | the `Reconcile` call of the only worker: its key, the pod it read, the provider it is at |

The API server, kubelet, workload controllers, controller-runtime and the backends are external: `Admit`, `Start`,
`Remove`, `RotateSecret`, `Tick`, `Write`, `Sync`, `Resync`, `Expire`, `Take` and `Crash` say what the code relies on.
A new watch (`Crash`) starts with a list. Between two events of a key the informer may miss states.

`Reconcile` is cut where it can be interleaved: at each `GetCurrentVersion` (one step per provider) and at the
patch. Everything before the first call reads the informer's cache and local data only, and is one step:
`ReadFails`, `ReconcileGone`, `ReconcileUnmanaged`, `ReconcileUninjected` and `ReconcileBegin` are the ways out of it.
`triggerRollingRestart` is `RestartSkipped` (the `return nil` of lines 101, 121 and 136), `RestartFails` (the
errors of its get and its patch) and `RestartPatched`. The get of the ReplicaSet and the patch that follows it are one
step, because an owner reference never changes.

A version is a number so that the properties can speak of newer and older; the code compares for equality only. An
answer of `""` is `NoVersion` and an error is `Failed`. `born` in a pod record is a history variable: no action reads
it.

Two kinds of instance exist. With `LiveReplies` a provider keeps the contract of `provider/interface.go:34-35`: it
answers the backend's version, or `""`, or fails. With `StubReplies` it is what the four providers of this commit do:
a constant (`"1"`, or `"AWSCURRENT"` for aws). The passing runs of `Rotation` use the first, because with constants
nothing about changes can be exercised. The violation runs named `two_providers`, `constant_versions` and `unowned_pod`
use the second, so what they show is shown of the code as it is. The theorems are about any providers, those that
report constants included.

### `Admission`, `AtomicAdmission`, `Injection`, `Providers`

`req[r]` holds where the goroutine of review r is and its locals: the pod it mutates (`pod`), the pod as submitted
(`orig`, read by properties and not by the code), the enabled providers, and the container `i` and reference `k` it is
at. Pods have a container besides their init containers, as the API server requires (`AdmissionAssumption`): without any
container the webhook would add no copy container and no volumes (main.go:316). One step runs from one call to the next: a ConfigMap or Secret lookup per reference (`Lookup`, `LookupFails`),
the image registry for a container without a command (`Inject`, `ImageConfigFails`), `GetCurrentVersion`
(`Answer`). `mutatePod` runs the same loop over init containers and containers, which the model keeps in one sequence.

Data is abstracted to what the properties tell apart. Annotations are the set of keys present with a value. An
argument built from an annotation is its flag. References carry how they are made (`envFrom` or `valueFrom`) and
whether they are optional. An image is its `entrypoint` and `cmd`. What the injector then does, and what Kubernetes
runs for a `command` and `args`, are external (`ProcessArgv`).

What the lookups find is collected in `envVars` (main.go:219-241) and used by nothing, so a lookup matters to the
model, as to the code, only in that it takes time and may fail.

`AtomicAdmission` is the promise: none -> waiting -> allowed or denied, in one step. `Outcomes` names the pods
that may come back and `Deniable` those that may be denied; both are of the submitted pod alone. `Injected` says of a container's command what Kubernetes says (`Argv`), where `Admission` has the
code's own case split (`Args`), so the refinement is not a tautology. The mapping is `Review` in `Admission`: a review
in progress is waiting with the pod as submitted, whatever its half-mutated copy looks like.

### `ImageNames`, `ImageRegistry`

| state | in the code and around it |
|---|---|
| `req[r]` | the call of `GetImageConfig` r: where it is, its container, the pull secret `k` it is at, the place (address, name, reference) it asks, the token it holds |
| `imageCache` | `imageCache`: configs by the name of the image, for ever |
| `tokenCache` | `credentialsCache`: for an address, when its ECR token expires and when go-cache evicts it |
| `published` | the version the registries serve of each place that changes |
| `now`, `count` | the clock; the counters of lookups, hits and misses |

A step runs from one call to the next: a pull secret (`SecretFails`, `SecretUnusable`, `NextSecret`,
`SecretMatches`), AWS (`RequestToken`, `ReceiveToken`, `TokenUndecodable`, `TokenFails`), the manifest (`FetchManifest`) and
the blob (`FetchBlob`), which needs the token, too; either may fail (`FetchFails`). The default pull secret is the last one of the sequence. A docker config is a set of
entries and any matching one may be found first, because `parseDockerConfig` ranges over a map. A config is where it
was read and the version then published; whoever reads the manifest settles the version.

Names are sequences of tokens, so that splitting at ":" and "@", trimming a registry and matching a prefix do to them
what the code does to strings. `Written` and `Meant` are the reference: they write a name from its parts and say what
the parts stand for by the grammar the container runtimes share. Entries match by tokens; a match that ends in the
middle of a token ("reg.corp" of "reg.corporate") is left out.

The end of the module names what the theorems assume of names, pull secrets and tokens (`ReadAsMeant`, `LatestSeen`,
`TokenLifetimes`). These are no part of the specification, and `MCImageRegistry` has TLC confirm that its containers satisfy them.

Two bounds are assumptions about the world. From a token to the end of the blob it takes no longer than `Patience` (the client sets no
timeout of its own) and `Patience` is at most `Margin`, the five minutes; tokens live longer than `Margin`
(ECR's live twelve hours). `EvictAt` keeps what go-cache would do otherwise: a lifetime of exactly the margin means the
cache's default and a shorter one no expiry at all, and then `TokensAlive` fails.

### `Lifecycle`

| state | in the code |
|---|---|
| `main` | where `main` is: `setup`, `handlers`, `notify`, `serve`, `wait`, `cancelled`, `drain` |
| `notified`, `stop` | whether signals are caught; how many are in the channel `stop` |
| `manager`, `server` | the goroutines of the manager and of the admission server |
| `review[r]` | a request: not there, with its handler, answered, or cut off by the end of the process |
| `failing`, `timely` | what may go wrong in this process, settled at its start: the components that may fail by themselves, and whether handlers return within `shutdown_timeout` |
| `expired`, `lnerr` | `shutdown_timeout` has passed; `Shutdown` got an error from closing the listener |
| `exit` | how the process ended |

`SetupFails`, `ManagerFails`, `TelemetryFails` and `ServerFails` are the calls of `Fatalf`. What a shutdown does to the reviews depends on `failing` and
`timely`: `GracefulShutdown` is about the `Benign` processes. The manager may
fail while it is being stopped, because what `mgr.Start` returns for the cancelled context is not always nil.
`Shutdown` is the first half of `server.Shutdown`, which closes the listener, with an error perhaps; `ShutdownReturns` is its end when no
handler is left (net/http's contract, and the error of the listener goes to `Fatalf`), `ShutdownTimesOut` the other. If
`Shutdown` comes before `ListenAndServe` or while it runs, that returns `ErrServerClosed` (`ServerClosed`). A review is a request that has reached its
handler. One that arrives on a connection that the shutdown closes never does, and the API server sends it again to
another replica; a connection from before `Shutdown` that brings its first review after it is left out. SIGKILL is not modelled: by default Kubernetes sends it 30 seconds after SIGTERM, and
`shutdown_timeout` is 15.

## 3. What the runs check

All bounds are constants of the `.cfg` files. `Rotation` is bounded by `MaxVersion` (guard of `RotateSecret`)
for the providers in `Changing`, and by the sets of pods and replicas; nothing else grows. `Admission` and `Lifecycle`
are bounded by the reviews, `ImageRegistry` by the calls, `MaxVersion` (guard of `MoveTag`) and `MaxTime` (of `Tick`).

| run | instance | shows |
|---|---|---|
| `rotation_safety` | 2 pods of one Deployment, 1 replica, 2 versions; two patches of the Deployment fall in different seconds | types; `RestartNeedsChange`, `OwnedPodsStayTracked`, `StaleIsDetectable` through evictions, re-used names, late events, crashes |
| `rotation_replicas` | 1 pod at a time, 2 replicas, patches may share a second, only rollouts and informers fair | `RestartsSettle` although replicas with old views roll each other's fresh pods, and calls hang or fail |
| `rotation_liveness` | 1 pod at a time, of a Deployment or of a bare ReplicaSet, interval positive or invalid, 3 versions, vault and a gcp that has no versions or fails, fair | `StalePodsReplaced`, `RestartsSettle` |
| `rotation_two_providers` (violation) | vault and aws, constants | a restart without a change |
| `rotation_constant_versions` (violation) | vault, constant, fair | a stale pod for ever |
| `rotation_unowned_pod` (violation) | a pod without an owner | neither replaced nor polled |
| `rotation_repeated_restart` (violation) | 1 replica, vault, live | two patches for one change |
| `admission_reviews` | 2 reviews of every kind of pod, fair | types, `OriginalCommandRuns`, `SecretsInOrder`, `InjectorInPlace`, `CountersAgree`, `ImplementsAtomic` (refinement), `EventuallyAnswered` |
| `admission_two_providers` (violation) | pods with two providers | the container's command is lost (`ProvidersCombine`) |
| `registry_caches` | 2 calls, 9 containers, 4 pull secrets, 2 moving tags, 6 instants | types, `AnswersItsImage`, `LatestIsFresh`, `TokensAlive`, `CountersAgree` |
| `registry_names` (violation) | 1 call, an official image by its full name, an image of a registry without a dot, an image with a tag and a digest | another image is asked for (`AnswersItsImage`) |
| `lifecycle` | 3 reviews, telemetry on its own address, any set of components that may fail, handlers in time or not, fair | types, `KilledBeforeServing`, `GracefulShutdown`, `SignalEnds` |

*Why the bounds are enough to be of interest.* Two versions give a change and its absence; the third, in
`rotation_liveness`, gives a change during the restart for the previous one. A second provider needs no changes of its
own to lead the loop of `Reconcile` on (`Changing`); two that both report versions are what `rotation_two_providers` is about. Two pods give an eviction and a
replacement while a worker holds a snapshot of the first, and two pods of one owner. Two replicas are what the
Helm chart deploys, and replicas interact only through the cluster. Two reviews interact through the counters only. The pods of
`MCAdmission` are one for each way through the handler: no command / only args / command with a literal `--` in its
args; mandatory and optional references; opt-out, exclusion, no provider, invalid at the first and at the second
provider; four secret configs of which two have equal numbers and one no number. Each property was also seen to fail for a plausible bug in the
code it is about (`mutants` in `PROJECT.json`; the mutated operators stand next to the originals, marked `mutant`).

The containers of `MCImageRegistry` are one for each way a name can be written (bare, with an organization, with a tag
or a digest, behind a registry, behind a port, at ECR) and two policies for the names that move; the pull secrets hold an entry
with an API version suffix, with a port, with a server address, two entries that both match the image (usable ones in `server`, a
usable and an unusable one in `broken`), and one that does not match. Two calls are enough for one to act between the other's look at a cache and its filling; six instants are enough
for a token of three to be cached, evicted, expired and requested again. Three reviews in `lifecycle` can be answered, cut
and never submitted at once.

*Deadlock* is checked for `Rotation`. In the other models it is not: when every review or call is answered, or
the process has ended, the model stops, as it should.

*Symmetry* is used in safety runs only.

### Fairness

`FairSpec` of `Rotation` assumes: the informer delivers, delays end, the worker takes every key that is queued again
and again (strong: client-go's queue is first in first out, so a key is not overtaken for ever, although the cache may
flicker under it); a call returns (weak, on `Call`); a backend or API server asked again and again answers in the end
(strong, on `NextProvider \/ AllMatch`, on `VersionDiffers` and on `RestartPatched`); containers start, workload
controllers delete outdated pods, seconds pass; a replica does not crash for ever. It does not assume that secrets
change, that pods are created, that they stay, or that the informer's periodic resync ever happens: the polling alone
has to find the change.

`RollingSpec` of `Rotation` is what is left when only the rollouts and the informers are fair: controllers may crash for ever, calls
hang or fail. `RestartsSettle` needs no more, because what ends the restarts is that the replaced pods have the right
baseline and that the caches get to see them.

`FairSpec` of `Admission` assumes each review makes progress. That a call returns is not enforced by the code
(main.go:117 and 126 pass `context.Background()`), so `EventuallyAnswered` is under the assumption that the
API server's client, the registry and the secret manager time out by themselves.

`FairSpec` of `Lifecycle` assumes only that main runs and that time passes. A handler returns where it is `timely`; otherwise none need
ever do so, and no goroutine need be scheduled: the way out has to be main's own.

## 4. What is proved

A theorem holds for all values of the constants that satisfy the module's assumption: any pods, replicas, reviews,
containers, images, pull secrets, names and bounds. Some theorems have a further hypothesis. Without it the property
fails, as said below; a passing run checks the property on an instance that satisfies it.

| module | theorem | property | hypothesis |
|---|---|---|---|
| `RotationProofs` | `TypeCorrect` | `TypeOK` | |
| | `Tracking` | `OwnedPodsStayTracked` | `~PatchesShareSecond` |
| | `Detection` | `StaleIsDetectable` | |
| | `ConstantsNeverRestart` | `~Restarting(c)`, of every replica | no two different versions are ever reported |
| | `NoCauselessRestart` | `RestartNeedsChange` | `OneAnswer` |
| `LifecycleProofs` | `LifecycleTypeCorrect` | `TypeOK` | |
| | `SignalsAreCaught` | `KilledBeforeServing` | |
| | `ShutdownIsGraceful` | `GracefulShutdown` | |
| `AdmissionProofs` | `AdmissionImplementsAtomic` | `ImplementsAtomic` | |
| `AdmissionCounterProofs` | `AdmissionTypeCorrect` | `TypeOK` | |
| | `AdmissionCounters` | `CountersAgree` | |
| `AdmittedPodProofs` | `CommandsKept` | `OriginalCommandRuns` | |
| | `SecretsOrdered` | `SecretsInOrder` | |
| | `InjectorPlaced` | `InjectorInPlace` | |
| `ImageRegistryProofs` | `RegistryTypeCorrect` | `TypeOK` | |
| | `RegistryCounters` | `CountersAgree` | |
| | `AnswersHold` | `AnswersItsImage` | `ReadAsMeant` of every container |
| | `FreshnessHolds` | `LatestIsFresh` | `ReadAsMeant` and `LatestSeen` of every container |
| | `TokensOutliveFetches` | `TokensAlive` | `TokenLifetimes` |

### Rotation

`OwnedPodsStayTracked` fails when a pod is admitted in the second in which its owner was patched and has to be
restarted in the same second (the patch succeeds and changes nothing, and nothing polls the pod any more), and `rotation_two_providers` violates
`RestartNeedsChange` with two providers that do not report the same.

*Tracking.* The property is not inductive. A worker gives a key up because of the pod it saw; the pod may have changed
since. `TrackInv` adds the reason why this is no loss: the informer's copy of a pod is current or an event for the pod
is still owed (`CachedOrOwed`), and the snapshot a worker holds is current or an event is owed or the key is queued
again (`SnapshotOrOwed`). So whoever acts on old data has another look coming. `TrackWrite`, `TrackReconcile`,
`TrackTaken` and `TrackCall` show it kept by the cluster's writes, by any step of a worker, by taking a key and by the
calls.

*Detection.* `BaselineInv` orders three reads in time: what the webhook wrote was reported of what the first backend held when the pod was
born, or is nothing; the running process loaded something no older; the backend has not gone back since (`Below`). This holds of the pod,
of its cached copies and of the snapshot in a worker's hands (`Dated`). So the baseline of a pod that runs with an old
secret was reported of a secret older than the current one, whatever the provider. That this is a version other than the one reported now is the
provider's part: one that reports a constant gives nothing away (`rotation_constant_versions`).

*Constants never restart.* The last part of `BaselineInv`: a worker on its way to a restart has in hand two versions that were reported at some times
and differ. Any set of this commit's providers without aws, and aws alone, report only one string.

*No causeless restart.* `OneAnswer` says that at no time two providers, or one provider twice, report different versions. It holds of the
providers of this commit but for aws next to another, of one provider that reports what its backend holds, and of such a provider next to others that report
nothing; it fails for two that report what they hold. A version that differs from the
baseline was then not reported at the pod's birth, so some secret has changed; and it stays changed until the patch, because the model takes it that a secret does not return to an earlier
version (`MCRotation` has TLC evaluate `OneAnswer` on every instance).

### Process lifecycle

For any number of reviews, with the telemetry server or without. The inductive invariant `LifecycleInv` adds to the
properties the order in which main does things (`StartInOrder`: signals are caught before there is a server, nothing is accepted
before there is one) and that a running process has cut nothing (`CutAtExit`).

*Graceful shutdown.* `GracefulInv` adds that the listener does not open any more once main drains, so that nothing is accepted behind the
deadline's back, and that the deadline of a `Benign` process passes with no review left. Then `EndsGracefully` goes through the ways out: a signal and the setup are over
before main takes the signal, both ends of `Shutdown` find no open review, and `ErrServerClosed` is no way out. `Benign` cannot be weaker: the manager, the telemetry
server, and the admission server until it is closed, each cut reviews off if they may fail, and so does a handler that outlasts the timeout.

### Admission

*The loop.* What a review's copy of the pod looks like between two calls is `Partly(orig, configs, i)`: the containers before `i` are
what `Injected` makes of the submitted ones, those from `i` on are as they were submitted. `Loop` says this of every review at work, with the
other things the handler has established by then (the pod is managed; from `mutate` on, every provider is valid; the
`configs` are one of the orders the sort allows), and what an answered pod is: an element of `Outcomes`. It is inductive by itself
(`LoopInvariant`), because the reviews share no pod: a step of one leaves the others' copies alone (`StepAlone`, `OthersLoop`).
The step that carries it is `PartlyNext`; it needs that the code's case split on command and arguments is Kubernetes' (`ArgsAreArgv`).

*The refinement.* Under the mapping `Review`, `Exclude`, `OptOut`, `PassThrough` and `Answer` are steps `Allow`
of `AtomicAdmission`; `ValidateFails`, `LookupFails` and `ImageConfigFails` are steps `Deny`, of a pod that is `Deniable`; `Receive` is `Submit`;
and all else, the whole loop over the containers, stutters. That a denial of a half-mutated pod is a
`Deny` is where the loop invariant is needed: the call that failed must belong to a container of the submitted pod, although it is
a container of the copy that the code looks at.

*The counters.* Each counter is the cardinality of a set of reviews, and a step of review `r` adds to each exactly what `r` counts for after it
(`Tallied`). For the denials this asks which provider is blamed: `Invalid` finds the first at fault, and a review
that got beyond `validate` has none (`DeniedBlames`).

*The admitted pod.* An answered pod is an `InjectedPod`, so the other three theorems are about operators. After any of the
(at most four) enabled providers, a container's arguments are `Told`, the same for all containers, followed by those it would have been run with.
`CommandsKept`: with one provider, `Told` ends in the only separator it has, so `Becomes` cuts there, also when the command has a `--` of
its own. `SecretsOrdered`: only vault's arguments hold secret configs, in the order of `configs`, which is sorted. `InjectorPlaced`: every
mount comes from `ExtraVolumes` of the same providers that give the volumes, and no two providers have a volume of the same name.

### Image registry

*Names.* `ClearNamesResolve` in `ImageNamesProofs`: for every registry, path, tag and digest of any length, if the name is
`Clear`, then completing it for Docker Hub, trimming the registry and splitting it gives back the parts as they are
meant. It rests on `Cut` (where the first separator is), `Completed` and `ParseEnds`. `Clear` excludes the names
for which it is false, those of `registry_names`, and parts that the grammar does not allow (an organization with a dot, a tag with a colon).

*The right answer.* `PlaceInv` says that whatever a call asks for, holds, or leaves in the cache under a name is of the place the name means;
so a hit is right whoever filled the cache. It needs the two halves of `ReadAsMeant`: `Clear`, and `EntriesName`, that in the first pull secret with an
entry for the image, usable entries name the image's registry and no more. Entries in later pull secrets do not matter, because
the collection stops at the first (`PassedInv`). An entry for `reg.corp` found for `reg.corp:5000/app:v1` violates it: nothing is then
trimmed, and the repository `reg.corp` is asked for `5000/app:v1`.

*Freshness.* `FreshInv`: what a call that must be fresh holds is no older than the call. It can only have been
fetched, because its name is never looked up in the cache (`SeenIsUncached`); for this, a `latest` must be seen for what it is, which it is not behind
a port (`LatestSeen`).

*Tokens.* `TokenInv`: a cached token is evicted at least `Margin` before it expires, and a fetch that holds one, until the end of the blob, took
it with as much left. The proof uses that go-cache's two special durations do not arise, which is what `TokenLifetimes` says of lifetimes.

*Counters.* As in `Admission`; the inductive invariant (`TypeInv` and `SetsAgree`) has no bound on them, and the bound in `TypeOK` follows from the sets being subsets of the calls.

### What is only model-checked

Liveness: `StalePodsReplaced`, `RestartsSettle`, `EventuallyAnswered`, `SignalEnds`. Fairness and `ENABLED` are out of
the prover's reach.

Everything else that a passing run checks has a theorem. Where an operator scans a sequence (`SelectInSeq`, the cut at
a separator) the proofs argue by the least position, of which well-foundedness of the naturals is all they need; where it is a fold over the
providers (`FlattenSeq`, `MutateByAll`) they unroll it, since at most four are registered. A fold over sequences of any length
would need induction over data, which the installed provers cannot do.

Two habits of the proof modules have to do with the provers. They do not know that a string literal is in `STRING`, hence `Words` in
`ProvidersProofs` and `Tokens` in `ImageNamesProofs`, which add the literals; and large terms are named with `DEFINE` and hidden before a lemma is
cited for them.

## 5. Where code and documents disagree

Each is a violation run, and a `finding` in `PROJECT.json` with the quoted lines.

1. The webhook writes the version of the first provider only, and `Reconcile` compares it with the version of every
   provider: a pod with vault and aws restarts for ever (`rotation_two_providers`).
2. `GetCurrentVersion` returns a constant in all four providers, so an alteration is never detected
   (`rotation_constant_versions`).
3. "We skip the remaining interval loops because the pod will be replaced": not for a pod without an owner, for a
   bare ReplicaSet or for a Job (`rotation_unowned_pod`).
4. Nothing records that an owner was already patched for a version (`rotation_repeated_restart`).
5. With two providers the injector gets the name of one of them (`aws`, of aws and azure in the trace) as the command to
   run (`admission_two_providers`).
6. "GetImageConfig returns entrypoint and command of container": not for `docker.io/app`, which is asked for as `app`
   instead of `library/app`, not for a registry whose host has no dot, which is taken for an organization of Docker
   Hub, and not for a name with both a tag and a digest, whose tag becomes part of the repository (`registry_names`).

Further behaviours the models contain, which no run is about: a pod that has the new secret may be
rolled for the baseline of the pod whose name it took, because `Reconcile` patches for what it read from its cache (`RestartPatched`); two patches of an
owner in one second are one, and a pod admitted between them, if it has to be restarted in that second, is reported as restarted, is not, and is not polled any more (`PatchesShareSecond`); an error of the manager, which is stopped first,
cuts off the reviews that are being drained (`ManagerFails`); a pod whose baseline could not be fetched is polled
for ever without effect (`ReconcileUninjected`); an interval of zero or less is accepted and means no polling
(`RequeueAfter`), which is why `Managed` asks for a positive one; `StaleIsDetectable` is about the first provider, because a change of
another may bring a version that happens to coincide with the baseline; an image behind a registry's port is split at that port, so
that its `latest` is cached for ever (`ParseContainerImage`); a pull secret that cannot be read or used ends the lookup
(`SecretFails`, `SecretUnusable`); the later of two answers for one image overwrites the cached one, though it may be the older
(`FetchBlob`). And the
guide's table (annotations.md:37, 45) marks the secret name of aws and the vault name of azure as optional, which
`AWSValid` and `AzureValid` require.

`Rotation` takes it that the API server lets the controller read ReplicaSets and patch workloads. The RBAC markers in
rotation_controller.go:32-35 do not name ReplicaSets; with roles generated from them every restart of a Deployment
would be a `RestartFails`.

## 6. Plan

Done: all modules of section 2, and a theorem for every invariant of a passing run and for the refinement.

Left, in this order:

1. For `Rotation`, `NoRepeatedRestart` under the additional guard it lacks, as a statement of what a fix has to do, checked
   and then proved in `RotationProofs`.
2. `Admission` with a second pass over an injected pod, once the repository says what the webhook's
   reinvocation policy is.

## 7. Not modelled

The HTTP exposition, the labels `namespace` and `registry` and the buckets of the metrics (no control flow depends on
them), `version/`, logging, flag and environment parsing, the values of annotations (only which are present) and the security
contexts and resource limits of the copy container (constants), what the ConfigMap and Secret lookups find (nothing uses
it), the manifests and blobs themselves, the Helm documentation, examples and scripts. A review the API
server has given up on goes on in the model as in the code, because nothing cancels it. Persistent state does not exist in
this process apart from what it writes on pods and owners.
