----------------------------- MODULE Namespace -----------------------------
(***************************************************************************)
(* The parts together: the PipelineInstances of one namespace from their   *)
(* creation until nothing of them is left.                                 *)
(***************************************************************************)
EXTENDS Lifecycle, StreamingRun, NamespaceCredentials, Claimer

Init ==
    /\ mode \in Modes
    /\ cr = [i \in Instance |-> NewObject]
    /\ dep = [i \in Instance |-> "absent"]
    /\ depView = dep
    /\ svcs = [i \in Instance |-> {}]
    /\ quiet = [i \in Instance |-> 0]
    /\ job = [i \in Instance |-> FALSE]
    /\ claimer = [i \in Instance |-> NoClaimer]
    /\ secret \in {[password |-> p, managed |-> FALSE] : p \in UserSecrets}
    /\ secretView = secret
    /\ acl = None
    /\ up = TRUE
    /\ pc = "idle" /\ me = None /\ pi = NewObject /\ r = Blank
    /\ misled = FALSE
    /\ reprieved = FALSE
    /\ faults = 0

\* The reconciler's next call.
Call ==
    \/ AddFinalizer \/ Lookup \/ Save \/ DropCredentials
    \/ StartStream \/ AddCleanup \/ FindDeployment \/ CreateDeployment
    \/ PatchDeployment \/ EnsureService \/ MissService \/ ReadStatus
    \/ StopDeployment \/ StopServices
    \/ DeleteDeployment \/ DeleteServices \/ DropCleanup
    \/ FindJob \/ GetSecret \/ CreateSecret \/ RereadSecret \/ SetUser \/ CreateJob
    \/ ListInstances \/ OwnSecret \/ DeleteUser \/ DeleteSecret

\* What a claimer and the Job controller do.
Claim(i) == StartClaimer(i) \/ Connect(i) \/ Interrupt(i) \/ Deliver(i) \/ Replace(i)

Next ==
    \/ Call \/ Restart \/ SyncSecret \/ Tick \/ Outage \/ Recover
    \/ \E i \in Instance :
          \/ Create(i) \/ Delete(i) \/ Collect(i) \/ Begin(i)
          \/ TurnReady(i) \/ TurnUnready(i) \/ SyncDeployment(i)
          \/ Claim(i) \/ ExpireJob(i)

Spec == Init /\ [][Next]_vars

\* The workqueue is served in order, and an instance comes back to it by its
\* requeue interval, an error's backoff or an event: Begin is strongly fair.
\* The calls of a pass return and the clock does not stop; the informers
\* catch up, each by itself, and Valkey comes back; the kubelet and the Job
\* controller do their work.  Nothing obliges users, a Deployment's pod, the
\* Job's TTL or a fault.
Fairness ==
    /\ WF_vars(Call) /\ WF_vars(Tick)
    /\ WF_vars(SyncSecret) /\ WF_vars(Recover)
    /\ \A i \in Instance :
          SF_vars(Begin(i)) /\ WF_vars(Claim(i)) /\ WF_vars(SyncDeployment(i))

FairSpec == Spec /\ Fairness

----------------------------------------------------------------------------
(* Properties.                                                             *)

\* Every variable stays in its type.
TypeOK ==
    /\ mode \in Modes
    /\ cr \in [Instance -> Object]
    /\ dep \in [Instance -> DepStates]
    /\ depView \in [Instance -> DepStates]
    /\ svcs \in [Instance -> SUBSET Service]
    /\ quiet \in [Instance -> 0 .. IdleTimeout]
    /\ job \in [Instance -> BOOLEAN]
    /\ claimer \in [Instance -> Claimers]
    /\ secret \in Secrets /\ secretView \in Secrets
    /\ acl \in Password \cup {None}
    /\ up \in BOOLEAN
    /\ pc \in Steps /\ me \in Instance \cup {None} /\ pi \in Object
    /\ r \in [todo : SUBSET Service, password : Password \cup {None}]
    /\ misled \in BOOLEAN /\ reprieved \in BOOLEAN
    /\ faults \in 0 .. MaxFaults

\* The claimer of an instance that nobody is deleting is never turned away by
\* Valkey: the Secret it takes its password from is stored before the ACL
\* user and kept in step with it (ensureNamespaceValkeyCredentials), and both
\* stay while an instance is active (cleanupNamespaceValkeyCredentials), so
\* long as no pass took its password from an outdated cache.
ClaimerNeverRefused ==
    \A i \in Instance : claimer[i].phase = "refused" => cr[i].phase # "live" \/ misled

\* No instance is left, and no pass under way.
Deserted == (\A i \in Instance : cr[i].phase \in {"new", "gone"}) /\ pc = "idle"

\* Nor is a Secret the controller made, or an ACL user without a Secret.
CleanedUp == ~ secret.managed /\ (acl = None \/ secret # NoSecret)

\* When the last instance of the namespace is gone, so are the Secret the
\* controller made and the ACL user (cleanupNamespaceValkeyCredentials),
\* whatever calls failed on the way: unless a cache hid the Secret, or the
\* credentials were left to an instance that vanished before its finalizer
\* was on it.
NothingLeft == Deserted => misled \/ reprieved \/ CleanedUp

\* The streaming finalizer is removed (reconcileStreaming) only when the
\* Deployment whose name was saved is no more, even if a call to delete it
\* failed or the controller restarted.
FinalizerReleases ==
    [][\A i \in Instance :
          Cleanup \in cr[i].finalizers /\ Cleanup \notin cr'[i].finalizers
              => ~ cr[i].status.named \/ dep'[i] = "absent"]_vars

\* A stream is completed (checkIdleTimeout) only when, for the idle timeout,
\* no pass has seen its Deployment ready: pipeline_types.go says "the duration
\* after which a continuously unready stream will cause the PipelineInstance
\* to complete".
IdleMeansIdle ==
    [][\A i \in Instance :
          ~ cr[i].status.ended /\ cr'[i].status.ended => quiet[i] >= IdleTimeout]_vars

\* Deleting an instance comes to an end: finalizers are removed in spite of
\* failed calls, restarts and Valkey's outages (Reconcile).
DeletionEnds == \A i \in Instance : cr[i].phase = "deleting" ~> cr[i].phase = "gone"

\* A run gets somewhere unless it is deleted.  A stream with an idle timeout
\* that has been started becomes ready, or else is completed
\* (checkIdleTimeout): no error of a pass and no stale Deployment in the cache
\* keeps it waiting for ever.  The claimer of a batch instance gets its
\* message in spite of an outage, and whoever else in the namespace is
\* deleted; under the same proviso as ClaimerNeverRefused.
RunProgresses ==
    \A i \in Instance :
        (i \in Timed /\ cr[i].status.started # Unset) \/ claimer[i].phase = "waiting"
            ~> \/ cr[i].phase # "live"
               \/ dep[i] = "ready" \/ cr[i].status.ended
               \/ claimer[i].phase = "done" \/ (~ Streaming(i) /\ misled)

\* A stream without an idle timeout runs until it is deleted: once started it
\* gets a Deployment, in spite of failed calls and restarts, and then has one
\* for good, however long it is not ready ("If not set, the stream will run
\* indefinitely", pipeline_types.go).
UntimedStreamRuns ==
    \A i \in Instance \ Timed :
        cr[i].status.started # Unset ~> [](cr[i].phase = "live" => dep[i] # "absent")
=============================================================================
