# A verification development for openfilter-pipelines-controller

The controller runs *pipelines* of filter containers in Kubernetes. A
`PipelineInstance` is either a **batch** run (one pod per file of an S3 bucket,
the files handed out through a Valkey stream) or a **streaming** run (one
Deployment fed from RTSP). This directory models both, and what the instances
of a namespace share, as TLA+, model-checks them with TLC, and proves theorems
about them with TLAPS. There are two models: `BatchRun`, one batch run with its
stream, its pods and its files, and `Namespace`, the life of several instances
of either mode around that, with their finalizers and credentials.

## 1. Inventory

| Component | Code | State | Operations | Modelled |
|---|---|---|---|---|
| Valkey work stream | `internal/queue/valkey.go` | log of entries (file, attempts), consumer group with its pending list and read pointer, dead letter stream | XADD, XREADGROUP, XACK, XDEL, XCLAIM, XAUTOCLAIM, XRANGE, XLEN, XPENDING, XINFO GROUPS | `WorkStream` |
| Batch reconciler | `pipelineinstance_controller_batch.go` | instance status (start and completion time, total, jobName, conditions); everything else is local to a pass | `initializePipelineInstance`, `ensureJob`, `handleCompletedPods`, `runReclaimer`, `updateStatus`, `checkFailure`, `flushOutstandingWork`, `checkCompletion` | `BatchReconcile`, `BatchMessages`, `BatchFlush` |
| Claimer | `cmd/claimer/main.go` | none outside its pod | connect (wait out an outage, give up at a wrong password), claim a message (block for ever), download its file, retry with backoff | `Claimer` (its connection), `BatchCluster` (its message) |
| Job controller, kubelet | Kubernetes, behind the Job of `buildJob` | Job conditions, pods and their phases | start, replace, count, terminate, expire | partly, in `BatchCluster` (what the controller relies on) |
| Streaming reconciler | `pipelineinstance_controller_streaming.go` | Deployment, Services, the instance's status, its finalizer | start, ensure Deployment and Services, read status, idle timeout and completion, cleanup | `StreamingRun` |
| Namespace credentials | `pipelineinstance_controller.go`, ACL part of `valkey.go` | Secret and Valkey user shared by a namespace, a finalizer on every instance | ensure (before a Job is created), clean up (last instance) | `NamespaceCredentials` |
| Instance lifecycle | `Reconcile` in `pipelineinstance_controller.go` | finalizers, deletion timestamp | finalizers one pass at a time, lookups, dispatch by mode, saving the status | `Lifecycle` |
| Pipeline / PipelineSource | lookups and an empty Reconcile | - | lookups, bucket listing, credentials | the lookups in `Lifecycle`, the listing in `BatchReconcile` |
| Manager, tracing, linter, manifests | `cmd/main.go`, `internal/tracing`, `tools`, `config` | - | - | no: wiring, observability, tooling |
| API types | `api/v1alpha1` | - | - | the status fields that steer the reconcilers are records of `BatchState` and `NamespaceState` |

How they interact. The reconciler and the claimers share one stream per
instance and speak to each other through nothing else: the reconciler fills it,
a claimer takes one message under its pod's name, and when the pod ends the
reconciler looks up the pod's pending message and acknowledges, retries or
dead-letters it. The reconciler is one worker (`MaxConcurrentReconciles` is left
at 1), but a pass is a long sequence of remote calls, and claimers, filters, the
Job controller and the kubelet move between any two of them. Nothing the
reconciler holds survives a restart except the instance's status.

The instances of a namespace meet in its credentials: the Secret says what the
password is, the Valkey user must agree, claimers take the password from the
Secret when their pods start, and the last instance to be deleted takes both
away. The Secret and the Deployments are read from caches that lag behind.

What is hard about it:

* replacing a message is *add the successor, then acknowledge*: two or three
  calls, either of which may fail, or the process may die in between;
* idle messages, the owners of messages and the pods are read at different times,
  and a pod may start, succeed or recover in between;
* the reconciler concludes from four independent reads (lag, pending count, Job,
  pods) that a run is complete;
* an error in reading a metric is logged and the metric counts as 0;
* `flushOutstandingWork` takes messages out of the stream first and writes them
  down last;
* claimers block for ever, so that a run ends only if the Job ends it;
* two stores, the Secret and Valkey, are to agree although every write to either
  may fail or be lost, and other instances come and go meanwhile;
* the idle timeout is measured from times that the status remembers, and what a
  pass remembers is saved only if its last call succeeds;
* deletion takes several passes, each ended by any error, and users may delete
  an instance between a pass's read and its write.

What makes each component correct:

* *stream and messages*: no admitted file is lost; a file has one live message;
  a pod has one message; a finished file is not run again; attempts are bounded;
* *reclaimer*: a message is never taken from a pod that is alive;
* *outcome*: Succeeded means that every file was processed or dead-lettered, a
  run ends, and an ended run stays ended;
* *streaming*: an instance that has been started becomes ready or is completed;
  the idle timeout measures how long a stream was not ready; the finalizer holds
  until the Deployment is gone;
* *credentials*: a running instance is let in by Valkey, and the last instance to
  go takes Secret and user with it;
* *lifecycle*: deletion comes to an end, whatever fails on the way.

`PROJECT.json` lists all hazards with their source lines and the properties that
address them, and the source lines that each definition translates.

## 2. Modules

| Module | Content |
|---|---|
| `WorkStream` | A stream as a value `[log, delivered]`; every Valkey command is an operator on it. Positions are message IDs. XDEL only marks an entry, so that a message keeps its file for ever; `owner` says for which consumer an entry is pending. `LagReplies` is the set of answers XINFO GROUPS may give, including none. |
| `BatchState` | Constants and their assumptions, variables, types, and how a call may fail. |
| `BatchCluster` | Pods (claimer and filters as phases) and the Job controller. |
| `BatchReconcile` | The frame of a pass: `Begin`, initialization, `ensureJob`, `updateStatus`, `checkFailure`, `checkCompletion`, `Save`, `Restart`. |
| `BatchMessages` | `handleCompletedPods` with `handleFailedPodMessage`, and `runReclaimer`. |
| `BatchFlush` | `flushOutstandingWork`. |
| `BatchRun` | Composition: `Init`, `Next`, `Spec`, `FairSpec`, and the properties. |
| `FileLedger` | What a batch run promises about its files: admitted, waiting, processed, buried, until it is flushed. `BatchRun` implements it (`LedgerKept`). |
| `MCBatchRun` | Model values and symmetry for TLC. |
| `NamespaceState` | Constants, variables and types of a namespace; how calls fail, updates conflict, and a pass ends. |
| `Lifecycle` | `Reconcile` around the mode: creation, finalizers, lookups, `Save`, deletion, garbage collection. |
| `StreamingRun` | `reconcileStreaming`: Deployment, Services, status, idle timeout, cleanup; the Deployment's pod, its informer and the clock. |
| `NamespaceCredentials` | `ensureJob` with the Secret and the ACL user, and their cleanup; the Secret's informer. |
| `Claimer` | A claimer's connection, outages of Valkey, the Job replacing and expiring. |
| `Namespace` | Composition: `Init`, `Next`, `Spec`, `FairSpec`, and the properties. |
| `MCNamespace` | Model values and the modes to enumerate. |
| `WorkStreamProofs` | Lemmas on the commands. |
| `BatchRunProofs` | The type invariant of a batch run. |
| `BatchSafetyProofs` | Attempts, live claims, one message per pod. |
| `LedgerMoves`, `LedgerProofs` | The refinement of `FileLedger`, and what a flush holds on to. |
| `OutcomeProofs` | One live message for a file, no retry of a success, success is true, and the end is final. |
| `NamespaceTypeProofs`, `NamespaceProofs` | The type invariant of a namespace, and its safety. |

`BatchRun` extends `BatchReconcile`, `BatchMessages`, `BatchFlush` and
`BatchCluster`, which share `BatchState` over `WorkStream`; `Namespace` extends
`Lifecycle`, `StreamingRun`, `NamespaceCredentials` and `Claimer`, which share
`NamespaceState`. The two models meet at `FindJob` and `CreateJob`: what a batch
pass does once the Job is there is in `BatchRun`, and `Namespace` keeps of it
that it ends with `Save`; what happens before the Job can be created is in
`Namespace`.

Correspondence with the code. The reconciler's program counter `pc` names the
next remote call; one action is one call with the Go code that leads up to the
next one. `pi` is the `*PipelineInstance` in memory and `cr` the stored one; `r`
holds the local variables that live across a call. A call has an outcome: `ok`,
`refused` (an error, without effect) or `lost` (an error although it took
effect); each action's `out` decides what the code does, from its error paths.
`Restart` throws `pi` and `r` away between any two calls. A pod's `phase`
summarises its object as the code classifies it (`stuck`: ImagePullBackOff and
the like; `crashed`: Running with a terminated container that failed; `gone`:
no object), `work` is the message its claimer holds.

`Namespace` is laid out in the same way: `pc` names the next call, `me` is the
instance of the pass, `pi` its copy in memory, `r` the Services still to be
ensured and the password in hand. `dep` and `secret` are the stored objects,
`depView` and `secretView` what the informers' caches show of them. Times are
ages in ticks, which stop at the idle timeout, the only thing they are compared
with. `quiet`, `misled` and `reprieved` are history variables that no action
reads except to set them: how long ago a pass last saw a stream ready, whether a
pass took a password or a decision from a cache of the Secret that was outdated,
and whether credentials were left to an instance without a finalizer.

Operators whose comment begins with *A slip* are not part of the specification.
Each is a variant of the definition after it with a plausible mistake in it, and
`PROJECT.json` pairs it with the property that must then fail; this is how the
properties are known to say something about the code.

Abstractions worth knowing:

* A stale cache and a conflicting status update both show as a refused write.
* `GetPendingForConsumer` and the `ReadRange` after it are one step
  (`FindMessage`): only the reconciler itself deletes messages, so nothing can
  come between them that changes their answers.
* Page sizes (100 messages of a pass, 10 of XAUTOCLAIM) are not modelled; the
  instances are smaller. Which idle messages a pass finds is arbitrary
  (`FindStale`), since time is not modelled: any pending message may have been
  idle for `pendingTimeout`.
* Of the counts only `queued` and `running` are kept; `succeeded` and `failed`
  are shown and decide nothing. Conditions are Booleans, reasons and messages
  are left out.
* Of a namespace, the instance itself is read fresh, except that a user may
  delete it during a pass, whose updates then conflict; the Secret and the
  Deployments are read from caches that lag as long as they like; a Service that
  the cache misses is a fault of its own kind (`lag`). An instance that is
  listed by cleanup is seen as it is.
* Batch instances of `Namespace` have files and an initialized stream; one pod
  stands for those that the Job has at a time. Valkey loses nothing in an outage,
  and an outage is charged like a failed call. A Valkey without an aclfile, such
  as the one of `config/valkey/deployment.yaml`, forgets its users when it is
  restarted, and the controller does not restore them while the Job exists
  (`batch.go:351`): no model has such a restart.
* A password is chosen to be one that nobody has (32 random bytes): `Password`
  must not run out, which three of them do not in the instances checked and
  infinitely many never do in the theorems.
* The Job controller is modelled from what `buildJob` asks for: non-indexed
  completions, `parallelism`, `backoffLimit`, restart policy Never, TTL. `Pod`
  is a finite pool and pods are not reused; `MaxJobs` bounds how often the Job
  may be created and `MaxFaults` how many calls fail.

## 3. What is checked

`tlc -config <cfg> MCBatchRun` (or `MCNamespace`, for the configurations named
`Namespace*.cfg`). Instances of a batch run have two files and three pods,
`maxAttempts` 2 and a backoff limit of 1 (the code uses 2; one is the smallest
that has both a tolerated and a fatal failure). With one message per pod, two
files and one tolerated failure, the Job cannot start a fourth pod before it
gives up, so three pods are all it can use; a vanished pod counts as a failure
like any other. Two files are the least for which one file's end can hide the
other's loss, and attempts of 2 let a file be retried once and then
dead-lettered. Where the Job comes back (`batch_faults`), the second one has what is
left of the three pods.

| Run | Question | Properties |
|---|---|---|
| `batch_steady` | No call of the reconciler fails; pods fail, crash, hang or vanish, and a claimer's reply is lost. | `TypeOK`, `OneLiveMessage`, `SucceededMeansProcessed`, `NoRetryOfSuccess`, `EndedStaysEnded` |
| `batch_faults` | One call is refused, or its reply lost, or the reconciler restarts, anywhere; pods fail, hang and recover, the Job expires and comes back. | `OnePendingPerPod`, `NoFileLost`, `AttemptsBounded`, `LedgerKept`, `LiveClaimNeverStolen` |
| `batch_live` | Does the run end? | `RunEnds` under `FairSpec` |
| `namespace` | One call is refused, or its reply lost, a cache lags, the controller restarts, or Valkey is away for a while, anywhere between the creation of instances and their end. | `TypeOK`, `ClaimerNeverRefused`, `NothingLeft`, `FinalizerReleases`, `DeletionEnds`, `RunProgresses`, `UntimedStreamRuns`, under `FairSpec` |
| `namespace_mixed` | The same, for a stream and a batch instance together. | `ClaimerNeverRefused`, `NothingLeft` |

All of these hold. `SYMMETRY` (files and pods are interchangeable) is used for
safety only, and for batch runs only. `CHECK_DEADLOCK` stays on for them: a pass
may always begin. It is off for namespaces, since all instances may be deleted
and the system really stops.

A batch run implements the ledger (`LedgerKept`): a file is waiting as long as it
has a live message and buried as long as it has a dead letter record; every step
of the run is a step of `FileLedger` or changes nothing that it sees. A message
may go only when its file is processed, buried, or has another live message,
which is what the order *add the successor, then acknowledge* is for. The promise
ends with the flush, which the ledger allows to take anything away.

The run `namespace` enumerates a stream with an idle timeout, alone, one without,
alone, or two batch instances that share the credentials; a stream has one
Service, and the Secret is absent or put there by a user with the wrong keys. Two
instances are what a decision about *the last one* needs, and three passwords let
the Secret change once while a claimer and Valkey may still have the ones before.
The idle timeout is one tick: an age is unset, below it or at it.

`rtsp.idleTimeout` is optional. `Timed` is the set of the instances whose source
sets it, and only they can be completed (`TimedOut`). `RunProgresses` is about
them: a stream with a timeout becomes ready or is completed. `UntimedStreamRuns`
is about the others: they get a Deployment and keep it, however long they are not
ready.

A stream and a batch instance share the reconciler and the credentials: a stream
has the credentials finalizer, counts as active when a batch instance goes
(`pipelineinstance_controller.go:270`), and when it goes last it is the one to
take the credentials away. `namespace_mixed` has one of each, for safety; the
stream has no timeout and no Services there, which have no part in it. The two
liveness properties were also found to hold for the mixture without a fault,
with one restart and with one outage, in runs too long to be kept.

One fault of any kind may hit any step; the safety properties were also found to
hold with two and, for any number, are proved (section 4).

`ClaimerNeverRefused` and `NothingLeft` have provisos, which are what is left of
the promise in this code. A Secret that is deleted and made again while a pass
holds an old copy of it gives Valkey an outdated password (`misled`), and one that
the cache has not shown yet is taken to be a user's when its last instance goes.
Cleanup also leaves the credentials to any other instance that is not being
deleted, and that one may vanish before its own finalizer is on it
(`reprieved`).

Fairness of a batch run's `FairSpec`, and why the code justifies it: a pass that has begun goes
on (`PassStep`, it is straight-line code); while the run has not ended every pass
requeues itself (`RequeueAfter`, or the rate-limited retry of an error), so
another begins; an idle message is found by some pass once `pendingTimeout` is
over, which any sufficiently late pass satisfies for all pending messages at once
(the strong fairness of `FindStale` with everything); the Job controller and the
kubelet do what is left to do, and filters terminate. Faults, failures and
evictions are never fair. `RunEnds` depends on `maxAttempts` exceeding what the
Job tolerates: when a file is dead-lettered the Job still wants one success per
file, its last pods wait on an empty stream, and only the failures already
counted can end it. With `maxAttempts` 1 the same instance never ends.

Fairness of a namespace's `FairSpec`: the calls of a pass return (`Call`) and the
clock does not stop (`Tick`); the workqueue is served in order and an instance
comes back to it by its requeue interval, by the backoff of an error or by an
event, so that `Begin` of each instance is strongly fair, although the one worker
is busy with others again and again; each informer catches up by itself, and
Valkey comes back; the kubelet and the Job controller do what is left to do for each claimer.
Nothing is assumed of users, of a Deployment's pod, of the Job's TTL, or of a
fault. `DeletionEnds`, `RunProgresses` and `UntimedStreamRuns` follow although every error ends its
pass: what is left over is seen again by the next one.

### Disagreements between code and documents

Seven runs check one property each that a comment or `DESIGN_DOCUMENT.md` states,
and TLC finds a behaviour of the code that violates it.

* `flush_loses_files` (`FlushKeepsFiles`): the flush remembers a file only when
  its attempts exceed the zero value of a map entry, so files that have never
  been retried are deleted from the stream and written nowhere.
* `claim_reply_lost` (`NoFileLost`): after a lost XREADGROUP reply a pod holds
  two messages; when it succeeds the older one, which it never saw, is
  acknowledged as its own.
* `metric_error` (`SucceededMeansProcessed`): a failed read counts as "nothing
  pending", and a retried finished file gives the Job the success that another
  file lacks.
* `init_crash` (`ListingComplete`): initialization interrupted between two XADDs
  is taken to be complete by the next pass.
* `job_expired` (`EndedStaysEnded`): when the TTL removes the Job of an ended run,
  the next pass creates another and sets the run Progressing.
* `idle_stream` (`IdleMeansIdle`): `lastReadyTime` is set once and never again, so
  that a stream which was ready for longer than the idle timeout is completed,
  and its Deployment deleted, the first time a pass finds it not ready.
* `crashed_pod` (`CrashedPodReplaced`): a crashed pod whose message the reclaimer
  took first is never deleted. The run assumes that the surviving containers of
  the pod go on for ever, which is the case that the code's comment describes.

`NoFileLost` says precisely what the runs that hold leave room for: outside a
flush no file is lost whatever fails; a flush keeps the files that were retried
at least once, unless it is itself disturbed by a failing call or a restart.

The models also show disagreements that have no run of their own. The one about
the comment is the absence of a behaviour. The others were each found by TLC with
an ad hoc formula, those of a namespace without any fault; `PROJECT.json` lists
them as hazards.

* *A succeeded pod without a pending message.* The comment at `batch.go:677-681`
  explains it by a race with the reclaimer: the pod succeeds after the reclaimer
  has listed the pods, and "the reclaimer may have re-enqueued the file". The
  race is harmless. In it the pod was listed as running, and `runReclaimer` leaves
  the messages of such pods alone (`batch.go:955-975`). `batch_steady` goes through
  it, `NoRetryOfSuccess` holds, and it is proved (`SuccessIsNotRetried`); the log
  message at 682 gives the wrong reason as well. What the pass meets there is
  usually the work of an earlier pass, which acknowledged the message (710): the
  pod stays listed until its Job goes. Here the code is better than its comment.
* *A finished file retried after all.* What the comment fears does happen in
  another way: XCLAIM takes effect and its reply is lost (`batch.go:986`), so that
  the message belongs to the reclaimer, nobody remembers that its pod succeeded,
  and the next pass retries the file, against the comment at 1004. `NoRetryOfSuccess`
  fails then, which is why its theorem asks for calls that do not fail;
  `metric_error` is a consequence.
* *A disturbed flush.* It takes messages out of the stream first and writes their
  records last, from memory; a restart or a failed call in between loses files that
  were retried, too (`batch.go:1211`, against 1160). `NoFileLost` makes an exception
  for it.
* *A stream that comes back.* Nothing looks at `completionTime` before the
  Deployment is ensured (`streaming.go:102`), so a stream that was completed by its
  idle timeout gets its Deployment back from the next pass, which the deletion
  itself triggers, against `STREAMING_MODE_PLAN.md:57`.
* *A Deployment without a name.* When a user deletes the instance during the pass
  that creates the Deployment, its name is not saved, nothing is deleted, and the
  finalizer goes although the Deployment is there (`streaming.go:533`, against
  `STREAMING_MODE_PLAN.md:59`). Garbage collection takes it later.
  `FinalizerReleases` speaks of named Deployments only.
* *Credentials nobody takes away.* They are left to an instance that has no
  finalizer yet and is deleted before it gets one (`reprieved`), or the last
  instance takes a Secret that its cache does not show yet for one that does not
  exist (`misled`), against `pipelineinstance_controller.go:256`.
* *A Secret that is no more.* The cache still shows the Secret that the last
  instance before has deleted; it is taken for the one that the pods of a new Job
  will start from (`misled`), against `pipelineinstance_controller.go:159`, and
  they wait until another Job is created.

## 4. What is proved

No obligation is left unproved. For a batch run, every set of files and pods,
every bound and every choice of faults (under `ConstantsAssumption`, which asks
for finitely many files, positive `MaxAttempts` and `Parallelism`, and consumers
whose names differ):

| Theorem | States |
|---|---|
| `TypeInvariant` | `Spec => []TypeInv` |
| `TypeCorrect` | `Spec => []TypeOK` |
| `AttemptsAreBounded` | `Spec => []AttemptsBounded` |
| `LiveClaimsAreSafe` | `Spec => LiveClaimNeverStolen` |
| `PodsHaveOneMessage` | `Spec => []OnePendingPerPod`, if no reply to a claimer is lost |
| `RunKeepsLedger` | `Spec => LedgerKept`, if no reply to a claimer is lost |
| `NothingLostBeforeFlush` | until a flush begins every admitted file has a live message, a dead letter record, or was processed, under the same proviso |
| `FilesAreNotLost` | `Spec => []NoFileLost`, the flush included, under the same proviso |
| `FilesHaveOneMessage` | `Spec => []OneLiveMessage`, if no call fails and no restart happens outside a flush |
| `SuccessIsNotRetried` | `Spec => NoRetryOfSuccess`, if the run is `Undisturbed` |
| `SuccessIsTrue` | `Spec => []SucceededMeansProcessed`, if the run is `Undisturbed` |
| `EndIsFinal` | `Spec => EndedStaysEnded`, if the run is `Undisturbed` and its Job does not expire (`MaxJobs <= 1`) |

The provisos are conditions on the constant `Faults`, and each is needed. A
claimer that loses its reply leaves a second message pending for its pod, which
`handleCompletedPods` acknowledges with the pod's own although nobody has
processed it. A call that fails, or a restart, between adding a message's
successor and acknowledging it leaves both live, so that a file may be processed
twice. `Undisturbed` is `Faults \subseteq {"claim"}` and `"recover"` not among
the `PodFaults`: replies to claimers may be lost and pods may crash, get stuck or
be evicted. A failed acknowledgement after `XCLAIM` leaves a message with the
reclaimer, whose owner is then not a succeeded pod and which the next pass
retries; a container that recovers after its message was retried succeeds with a
message that has a successor. In both, one file can count twice among the
succeeded pods, and the Job completes while another file is still waiting; TLC
finds such runs as soon as a proviso is dropped. `EndIsFinal` needs both of its own:
`job_expired` shows what an expired Job does, and in a disturbed run a message may
still be pending when the run is reported complete, or a second message of a file
still be waiting, so that the next pass counts it and reports progress once more.

For a namespace, any finite number of instances in any modes, any Services, any
idle timeout, set or not, any user Secrets and any number of faults (under
`NamespaceAssumption`, and infinitely many passwords, since a new one must be one
that nobody has):

| Theorem | States |
|---|---|
| `TypesKept`, `NamespaceTypeCorrect` | `Spec => []TypeInv`, `Spec => []TypeOK` |
| `FinalizersHold` | `Spec => FinalizerReleases` |
| `NamespaceInvariant` | `Spec => []NamespaceInv` |
| `ClaimersLetIn` | `Spec => []ClaimerNeverRefused` |
| `NothingIsLeft` | `Spec => []NothingLeft` |

The argument for a batch run. `TypeOK` is not inductive, because the code looks up messages
whose IDs it holds: a stream entry, an owner or an attempt count has a type only
if the ID names an entry. `TypeInv` adds what each step of the reconciler may
rely on (`PassMarks`: the batch and, at the steps that handle a message, the
message are in the stream, and the steps that take the least of a batch have
one) and what pods hold (`PodMarks`). The stream's commands enter through
`WorkStreamProofs` only: each keeps the stream well formed and its positions
(`Extends`), and the lemma of a command says what else it changes.

The safety theorems do not look at the actions again. Four lemmas say what any
step may do to the stream (`StreamMove`, `OwnerMove`), to the dead letters
(`LetterMove`), to a pod (`PodMove`) and to the batch the reclaimer has selected
(`BatchMove`); the invariants follow from those. `OwnerInv` carries the
reclaimer's argument: the messages it selected have been delivered, so no claimer
can come to own them any more; an owner that is not listed as alive has come to an
end, since pods that own something were born before the list was taken; and a pod
that has come to an end never comes back. That order - idle messages first, pods
second - is what the code depends on. `HandsInv` carries the one-message
argument: a pod that has not taken a message owns none, and only such a pod asks.

The refinement needs to know why a message may go, at the moment it goes.
`LedgerInv` is the inductive invariant for it, with four parts. `AdmittedInv`:
whatever a message, a dead letter or the flush's memory names was admitted.
`PhaseInv`: nothing is delivered before the run has started, so that a file the
listing finds again is still waiting, and a flush is one from its first step.
`WorkInv`: a pod owns no message but the one it works on, and a pod that was seen
to succeed has processed that one's file, however old the sight is; this is the
part that fails when a claimer loses a reply, hence the proviso. `HandleInv`: at
the steps that acknowledge, the message in hand is *settled*: it is gone already,
its file is processed or buried, or there is another live message of the file,
which is the successor that was added first. `LedgerMoves` says once, per step,
what may become of live messages, letters and the work of pods; `LedgerProofs`
goes back to the actions only where they have a message in hand. In the step from
the run to the ledger a lost or a repeated write is a stutter.

`NoFileLost` lets a flush drop a file that was never retried, and, if one of its
own calls fails, any file it had in memory. What is left to show is that an
undisturbed flush drops no other. `Settled` says that the successor of a message
is a retry, too; `MemoryInv` says what the flush remembers: nothing outside a
flush, and a message's file before the message is deleted, if it was retried
(`Noted`). `KeptInv` is then inductive: as long as no flush has been disturbed, a
file that was ever retried has a live retry, a record, a pod that processed it,
or a place in that memory (`HeldOn`).

`OneLiveInv` follows the live messages through the two calls that replace one:
`HandMove` says once what every step does to the stream and to what the
reconciler has in hand, and `LiveMove` what becomes of the live messages that are
not `Leaving`, which are the ones whose successor has been written. `InHandInv`
has the messages in hand delivered, so that an acknowledgement does take them
away, and `FillInv` has initialization begin with an empty stream.

`NoRetryOfSuccess` and `SucceededMeansProcessed` share the invariant
`OutcomeInv`. `OnceInv`: a message is delivered to one pod in its life. `JobInv`:
only pods of the current Job are active, and none is when its Job has failed.
`SeenInv` and `DeadInv`: what the reconciler saw of a pod that has ended stays
true, so that it acknowledges only messages that are over and retries only those
of pods that will never succeed. `CustodyInv`: a message belongs to the
reclaimer or the flush only while they have it in hand; `HoldInv`: a pod that is
to process its message owns it. From these comes `CurrentInv`: a file has one
message that is live and not leaving, or one of a pod that succeeded, and never
both. `TotalInv` counts: the Job asks for at least as many completions as files
were admitted. A completed Job therefore has an injection from its succeeded pods
into the admitted files, and as many pods as files (`EveryFileProcessed`).

`EndedStaysEnded` adds `FinalInv`, which knows the one Job. `OneJobInv`: it has one
life and one end, and a flush means that it failed. `TidyInv`: before it has
failed only messages that were delivered and acknowledged are deleted, so that
what is counted is what is left. `AllDoneInv`: once it is complete every file has a message of a pod that
succeeded, whence, by `CurrentInv`, nothing waits for a pod. `EndInv`:
the status of a run that has ended, the stored one and the one in the
reconciler's memory, says of the Job what became of it. `DrainInv` is why a
later pass does not report progress: `reconcileBatch` acknowledges the messages
of the succeeded pods before it counts what is pending, so that it always finds
nothing. What a pass then saves agrees with what is stored.

The argument for a namespace. `FinalizerReleases` needs `PassInv`: what the pass
remembers of its instance is what is stored, or newer, and past the deletion of
the Deployment there is none (only the pass itself creates one). For the
credentials, `CredInv` says what holds as long as no pass was misled by a cache.
`LetInInv`: who has a claimer that runs or will run has in the Secret the
password that Valkey knows, and the claimer's is the same. `PasswordInv`: the
password in hand is the Secret's, and Valkey's by the time a Job is created.
`UnusedInv`: on the way to taking the credentials away no instance that is
active has a claimer, which is what the list of active instances was for; it
survives instances that are created meanwhile, since they get claimers from a
pass only, and this is the one pass. `UserInv`: the user goes before the Secret,
so that a user is never left without the Secret by which a later pass would
find it. `OwnerInv`: a Secret the controller made has an instance whose finalizer
is still on it and will see to it. None of these is inductive without the others.

Only model-checked: liveness (`RunEnds`, `CrashedPodReplaced`, `DeletionEnds`,
`RunProgresses`, `UntimedStreamRuns`), since the prover handles neither fairness nor ENABLED. Every
invariant and action property of a passing run is stated by a theorem, under the
provisos above. Induction over data is out of the prover's reach, since the
library's induction rules take an operator as a parameter. No module declares a
RECURSIVE operator.

## 5. Not modelled, and the plan

What the models could still take in, in this order:

1. `StatusCounts`: the six counters of `updateStatus` against what they count, and
   the pass that reads them before a flush and saves them after it.
2. The reclaimer's window of 100 messages (`batch.go:932`): whether idle messages
   behind it are reached when live pods fill it.
3. A Valkey that forgets its users when it restarts, in `Claimer` and
   `NamespaceCredentials`.

Hazards without a property in `PROJECT.json` say why they have none: some are
disagreements listed in section 3, which a property could only show to be
violated, others would need a fault that repeats for ever or a Valkey that
forgets. A Job whose name was
never saved (`batch.go:398`), after which every Create fails, makes `RunEnds` fail
once restarts are allowed; no document promises otherwise, so no run shows it.

Left out for good: manager start-up and flags, pod and Deployment templates,
environment variables, RTSP URLs, GPU settings and labels (no state), the S3
client, the lengths of backoffs (they only delay), tracing, the span-name linter,
manifests and generated code.
