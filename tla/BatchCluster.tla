---------------------------- MODULE BatchCluster ----------------------------
(***************************************************************************)
(* What happens in the cluster around the reconciler: the claimer (the     *)
(* init container of cmd/claimer) takes a message and downloads its file,  *)
(* the filter containers process it, pods fail in the ways the reconciler  *)
(* looks for, and the Job controller starts, replaces and counts the pods  *)
(* of the Job that buildJob describes (non-indexed completions, restart    *)
(* policy Never).                                                          *)
(***************************************************************************)
EXTENDS BatchState

OfJob(p) == pods[p].run = job.run
Active == {p \in Pod : OfJob(p) /\ pods[p].phase \in ActivePhases}
Done == {p \in Pod : OfJob(p) /\ pods[p].phase = "succeeded"}
Failures == {p \in Pod : OfJob(p) /\ pods[p].phase \in {"failed", "gone"}}

Reconciler == <<cr, pc, pi, r>>

----------------------------------------------------------------------------
(* The Job controller.                                                     *)

\* It keeps min(parallelism, completions - successes) pods active until the
\* failures exceed the backoff limit.
StartPod(p) ==
    /\ job.state = "active"
    /\ pods[p].phase = "unborn"
    /\ Cardinality(Failures) <= BackoffLimit
    /\ Cardinality(Active) < Parallelism
    /\ Cardinality(Active) + Cardinality(Done) < job.completions
    /\ pods' = [pods EXCEPT ![p] = [phase |-> "claiming", work |-> 0, run |-> job.run]]
    /\ UNCHANGED <<q, dlq, job, processed, Reconciler, history, faults>>

JobBecomes(state) ==
    /\ job' = [job EXCEPT !.state = state]
    /\ UNCHANGED <<q, dlq, pods, processed, Reconciler, history, faults>>

JobCompletes ==
    /\ job.state = "active"
    /\ Cardinality(Done) >= job.completions
    /\ JobBecomes("complete")

\* Too many failures: the remaining pods are terminated first, and the Failed
\* condition is set when none is left.
JobGivesUp ==
    /\ job.state = "active"
    /\ Cardinality(Failures) > BackoffLimit
    /\ JobBecomes("failing")

TerminatePod(p) ==
    /\ job.state = "failing"
    /\ p \in Active
    /\ pods' = [pods EXCEPT ![p].phase = "gone"]
    /\ UNCHANGED <<q, dlq, job, processed, Reconciler, history, faults>>

JobFails ==
    /\ job.state = "failing"
    /\ Active = {}
    /\ JobBecomes("failed")

\* ttlSecondsAfterFinished: a finished Job is deleted, and its pods with it.
JobExpires ==
    /\ job.state \in {"complete", "failed"}
    /\ job.run < MaxJobs
    /\ job' = [job EXCEPT !.state = "absent"]
    /\ pods' = [p \in Pod |-> IF OfJob(p) THEN [pods[p] EXCEPT !.phase = "gone"]
                              ELSE pods[p]]
    /\ UNCHANGED <<q, dlq, processed, Reconciler, history, faults>>

----------------------------------------------------------------------------
(* The claimer and the filters of a pod.                                   *)

\* A slip: the claimer is restarted in its pod and claims again.
ClaimAgain(p) ==
    /\ pods[p].phase \in {"claiming", "starting"}
    /\ Undelivered(q) # {}
    /\ q' = XReadGroup(q, p)
    /\ pods' = [pods EXCEPT ![p].phase = "starting", ![p].work = Least(Undelivered(q))]
    /\ UNCHANGED <<dlq, job, processed, Reconciler, history, faults>>

\* XREADGROUP ... COUNT 1 BLOCK 0 STREAMS s ">" with the pod's name as the
\* consumer: it waits for ever when the stream has nothing to hand out.
Claim(p) ==
    /\ pods[p].phase = "claiming"
    /\ Undelivered(q) # {}
    /\ q' = XReadGroup(q, p)
    /\ pods' = [pods EXCEPT ![p].phase = "starting", ![p].work = Least(Undelivered(q))]
    /\ UNCHANGED <<dlq, job, processed, Reconciler, history, faults>>

\* The connection breaks after the server has delivered: the error is
\* retryable, so claimMessage asks again, for another message.
ClaimReplyLost(p) ==
    /\ CanFault("claim")
    /\ pods[p].phase = "claiming"
    /\ Undelivered(q) # {}
    /\ q' = XReadGroup(q, p)
    /\ faults' = faults + 1
    /\ UNCHANGED <<dlq, cluster, Reconciler, history>>

Becomes(p, phase) ==
    /\ pods' = [pods EXCEPT ![p].phase = phase]
    /\ UNCHANGED <<q, dlq, job, processed, Reconciler, history, faults>>

\* The file is downloaded and every filter container has started.
Start(p) == pods[p].phase = "starting" /\ Becomes(p, "running")

\* Every filter container has exited with code 0.
Succeed(p) ==
    /\ pods[p].phase = "running"
    /\ pods' = [pods EXCEPT ![p].phase = "succeeded"]
    /\ processed' = processed \cup {q.log[pods[p].work].file}
    /\ UNCHANGED <<q, dlq, job, Reconciler, history, faults>>

\* The claimer gives up, or the last container to exit leaves a failed one.
Fail(p) ==
    /\ "fail" \in PodFaults
    /\ pods[p].phase \in {"claiming", "starting", "running", "crashed"}
    /\ Becomes(p, "failed")

\* One filter container exits with an error while another is alive.
Crash(p) ==
    /\ "crash" \in PodFaults
    /\ pods[p].phase = "running"
    /\ Becomes(p, "crashed")

\* An image cannot be pulled or a container cannot be created: the claimer's
\* (no message yet) or a filter's (the message is claimed).
Stick(p) ==
    /\ "stick" \in PodFaults
    /\ pods[p].phase \in {"claiming", "starting"}
    /\ Becomes(p, "stuck")

\* The kubelet retries, and the container starts after all.
Recover(p) ==
    /\ "recover" \in PodFaults
    /\ pods[p].phase = "stuck"
    /\ Becomes(p, IF pods[p].work = 0 THEN "claiming" ELSE "running")

\* The node is lost or the pod is preempted: its object disappears.
Evict(p) ==
    /\ "evict" \in PodFaults
    /\ pods[p].phase \in ActivePhases
    /\ Becomes(p, "gone")

PodStep(p) ==
    \/ StartPod(p) \/ TerminatePod(p)
    \/ Claim(p) \/ ClaimReplyLost(p)
    \/ Start(p) \/ Succeed(p)
    \/ Fail(p) \/ Crash(p) \/ Stick(p) \/ Recover(p) \/ Evict(p)

JobStep == JobCompletes \/ JobGivesUp \/ JobFails \/ JobExpires

ClusterStep == (\E p \in Pod : PodStep(p)) \/ JobStep
=============================================================================
