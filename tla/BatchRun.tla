------------------------------ MODULE BatchRun ------------------------------
(***************************************************************************)
(* One batch PipelineInstance from its first reconcile to its end: the     *)
(* reconciler, the claimers and pods, and the Job controller around one    *)
(* Valkey stream.                                                          *)
(***************************************************************************)
EXTENDS BatchCluster, BatchReconcile, BatchMessages, BatchFlush

Init ==
    /\ q = EmptyStream
    /\ dlq = [f \in File |-> << >>]
    /\ job = [state |-> "absent", run |-> 0, completions |-> 0]
    /\ pods = [p \in Pod |-> [phase |-> "unborn", work |-> 0, run |-> 0]]
    /\ processed = {}
    /\ cr = NewStatus
    /\ pc = "idle"
    /\ pi = NewStatus
    /\ r = Blank
    /\ listed = {}
    /\ admitted = {}
    /\ flushed = FALSE
    /\ faults = 0

Next == ClusterStep \/ ReconcileStep \/ MessageStep \/ FlushStep

Spec == Init /\ [][Next]_vars

(* Fairness.  A pass that has begun goes on until it ends, and while the    *)
(* run has not ended every pass leaves a requeue behind (RequeueAfter, or   *)
(* the rate-limited retry of an error), so the next one begins.  An idle    *)
(* message is found by some pass once pendingTimeout is over.  The Job      *)
(* controller and the kubelet do what is left to do, and filters terminate. *)
PassStep ==
    \/ Save \/ SaveStart \/ Inspect \/ List \/ Enqueue \/ Recount
    \/ FindJob \/ CreateJob \/ ReadLag \/ ReadPending
    \/ CheckFailure \/ StillRunning \/ CheckCompletion
    \/ MessageStep \/ FlushStep

Fairness ==
    /\ WF_vars(PassStep)
    /\ WF_vars(Begin /\ ~ cr.ended)
    /\ SF_vars(FindStale /\ r'.batch = Pending(q))
    /\ WF_vars(\E p \in Pod : StartPod(p))
    /\ WF_vars(\E p \in Pod : TerminatePod(p))
    /\ WF_vars(JobCompletes) /\ WF_vars(JobGivesUp) /\ WF_vars(JobFails)
    /\ \A p \in Pod : WF_vars(Claim(p)) /\ WF_vars(Start(p)) /\ WF_vars(Succeed(p))

FairSpec == Spec /\ Fairness

----------------------------------------------------------------------------
\* Every variable has its type.
TypeOK ==
    /\ q \in Stream(Consumers) /\ q.delivered <= Len(q.log)
    /\ dlq \in [File -> Seq(Nat)]
    /\ job \in Jobs
    /\ pods \in Pods
    /\ processed \subseteq File
    /\ cr \in Statuses
    /\ pc \in Steps
    /\ pi \in Statuses
    /\ r \in Registers
    /\ listed \subseteq File
    /\ admitted \subseteq File
    /\ flushed \in BOOLEAN
    /\ faults \in Nat

----------------------------------------------------------------------------
(* No file is lost.                                                        *)

\* The messages that will still be handed to a pod or looked at again.
Live == Undelivered(q) \cup (Pending(q) \cap Present(q))

Safe(f) ==
    \/ \E i \in Live : q.log[i].file = f
    \/ dlq[f] # << >>
    \/ f \in processed

Retried(f) == \E i \in DOMAIN q.log : q.log[i].file = f /\ q.log[i].attempts > 0

\* A file that initialization put in the stream is waiting, or in a pod's
\* hands, or dead-lettered, or processed, whatever calls fail and wherever
\* the reconciler restarts: the successor of a message is written before the
\* message is acknowledged (handleFailedPodMessage, runReclaimer).  Only a
\* flush loses files: it keeps those it takes out of the stream in memory
\* until it writes them, it forgets the ones that have never been retried,
\* and a call that fails or a restart makes it forget the others.
NoFileLost ==
    \A f \in admitted :
        \/ Safe(f)
        \/ r.held[f] > 0
        \/ flushed /\ (~ Retried(f) \/ ("flush" \in Faults /\ faults > 0))

\* The run keeps the ledger's promise: its steps, whatever calls fail, are
\* those of FileLedger, where a file waits as long as it has a live message.
Ledger == INSTANCE FileLedger WITH
              waiting <- {q.log[i].file : i \in Live},
              buried <- {f \in File : dlq[f] # << >>}

LedgerKept == Ledger!LedgerSpec

\* flushOutstandingWork moves any remaining stream entries to the dead letter
\* queue: when no flush is under way every file is accounted for.
FlushKeepsFiles ==
    pc \notin FlushSteps => \A f \in admitted : Safe(f)

----------------------------------------------------------------------------
(* A message has one keeper.                                               *)

\* A pod has at most one pending message, as handleCompletedPods assumes when
\* it takes the first one to be the one the pod has worked on.
OnePendingPerPod == \A p \in Pod : Cardinality(PendingFor(q, p)) <= 1

\* The reclaimer never takes a message from a pod that is alive: the pods are
\* listed after the idle messages, so the owner of an idle message that is
\* not listed as alive will never be.
LiveClaimNeverStolen ==
    [][\A i \in DOMAIN q.log, p \in Pod :
         (q.log[i].owner = p /\ q'.log[i].owner = Reclaimer) =>
             pods[p].phase \notin PendingPhases \cup {"running"}]_vars

\* The messages that a pod has processed to success.
DoneMessages == {pods[p].work : p \in {p \in Pod : pods[p].phase = "succeeded"}}

\* A message whose pod has succeeded gets no successor outside a flush: the
\* finished file is neither run again nor dead-lettered.  That goes for a pod
\* that succeeds after the reclaimer has listed the pods, of which the comment
\* in handleCompletedPods says that "the reclaimer may have re-enqueued the
\* file": it was listed as running, and its message was left alone.
NoRetryOfSuccess ==
    [][\A i \in DOMAIN q.log :
         (/\ pc \in {"retire", "reclaimNext"}
          /\ pc' \in {"ackRetired", "reclaimAck"}
          /\ r'.msg = i) => i \notin DoneMessages]_vars

\* While no call of the reconciler fails, a file has one live message, except
\* between the two calls that replace a message by its successor; a claimer
\* that loses its reply does not change that.
OneLiveMessage ==
    pc \notin {"ackRetired", "reclaimAck"} =>
        \A i, j \in Live : q.log[i].file = q.log[j].file => i = j

----------------------------------------------------------------------------
(* The attempts of a file.                                                 *)

\* The stream only has messages with attempts left, and the dead letter queue
\* only files whose attempts are exhausted.
AttemptsBounded ==
    /\ \A i \in DOMAIN q.log : q.log[i].attempts < MaxAttempts
    /\ \A f \in File : \A k \in DOMAIN dlq[f] : dlq[f][k] >= MaxAttempts

----------------------------------------------------------------------------
(* The outcome.                                                            *)

\* The Succeeded condition says "All files processed".
SucceededMeansProcessed ==
    cr.succeeded => \A f \in admitted : f \in processed \/ dlq[f] # << >>

\* Initialization may be repeated after a partial failure: once the run has
\* started, its stream was given every file of the listing.
ListingComplete == cr.started => listed \subseteq admitted

\* Once the completion time is set the run is over: no further Job is created
\* for it, and its conditions stay as they are.
EndedStaysEnded ==
    [][cr.ended => /\ job'.run = job.run
                   /\ cr'.progressing = cr.progressing
                   /\ cr'.succeeded = cr.succeeded]_vars

\* Every run ends, with Succeeded or Degraded and a completion time.
RunEnds == <>(cr.ended)

\* A pod that keeps running after one of its containers has crashed does not
\* do so for ever: it is deleted, so that the Job controller replaces it.
CrashedPodReplaced ==
    \A p \in Pod : (pods[p].phase = "crashed") ~> (pods[p].phase # "crashed")
=============================================================================
