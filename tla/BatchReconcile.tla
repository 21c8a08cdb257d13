--------------------------- MODULE BatchReconcile ---------------------------
(***************************************************************************)
(* The frame of a batch pass of the reconciler: reconcileBatch with        *)
(* initializePipelineInstance, ensureJob, updateStatus, checkFailure and   *)
(* checkCompletion.  The steps of handleCompletedPods and runReclaimer are *)
(* in BatchMessages, those of flushOutstandingWork in BatchFlush.          *)
(***************************************************************************)
EXTENDS BatchState

\* A call that reads, or whose effect the model does not keep.
NoEffect == UNCHANGED <<q, dlq, cluster, cr, history>>

\* Degraded is set in memory and the status saved before the error returns.
GiveUp ==
    /\ pi' = [pi EXCEPT !.degraded = TRUE, !.progressing = FALSE]
    /\ GoTo("save")

----------------------------------------------------------------------------
(* The start of a pass, and its status updates.                            *)

\* A pass may start at any time: on a requeue, on an event of the instance,
\* of its Job, or after a restart of the manager.
Begin ==
    /\ pc = "idle"
    /\ pi' = cr
    /\ GoTo(IF ~ cr.started THEN "inspect"
            ELSE IF cr.total = 0 THEN "idle" ELSE "ensureJob")
    /\ UNCHANGED <<r, faults>> /\ NoEffect

\* The last Status().Update of a pass, whatever its outcome.
Save ==
    /\ pc = "save"
    /\ \E out \in Writes :
        /\ cr' = Takes(out, pi, cr)
        /\ Charge(out)
        /\ Finish
    /\ UNCHANGED <<q, dlq, cluster, history>>

\* The one that ends initialization: the pass goes on only when it succeeds.
SaveStart ==
    /\ pc = "saveStart"
    /\ \E out \in Writes :
        /\ cr' = Takes(out, pi, cr)
        /\ Charge(out)
        /\ IF out = "ok" THEN GoTo("ensureJob") /\ r' = Blank /\ UNCHANGED pi
           ELSE Finish
    /\ UNCHANGED <<q, dlq, cluster, history>>

----------------------------------------------------------------------------
(* initializePipelineInstance.                                             *)

Initialized(n) ==
    /\ pi' = [pi EXCEPT !.started = TRUE, !.total = n, !.degraded = FALSE,
                        !.progressing = TRUE, !.succeeded = FALSE]
    /\ GoTo("saveStart")

\* CreateStreamAndGroup and GetStreamLength: a stream that already has
\* entries is taken to be complete.
Inspect ==
    /\ pc = "inspect"
    /\ \E out \in Reads :
        /\ Charge(out)
        /\ IF out # "ok" THEN GiveUp
           ELSE IF Length(q) = 0 THEN GoTo("list") /\ UNCHANGED pi
           ELSE Initialized(Length(q))
    /\ UNCHANGED r /\ NoEffect

\* getCredentials and listBucketFiles.
List ==
    /\ pc = "list"
    /\ \E out \in Reads, listing \in SUBSET File :
        /\ Charge(out)
        /\ r' = [r EXCEPT !.files = Takes(out, listing, {})]
        /\ \/ out # "ok" /\ GiveUp
           \/ out = "ok" /\ listing # {} /\ GoTo("enqueue") /\ UNCHANGED pi
           \/ /\ out = "ok" /\ listing = {}
              /\ pi' = [pi EXCEPT !.started = TRUE, !.ended = TRUE, !.total = 0,
                                  !.degraded = TRUE, !.progressing = FALSE,
                                  !.succeeded = FALSE]
              /\ GoTo("save")
        /\ listed' = Takes(out, listing, listed)
    /\ UNCHANGED <<q, dlq, cluster, cr, admitted, flushed>>

\* One XADD per file; a file whose XADD fails is logged and skipped.
Enqueue ==
    /\ pc = "enqueue"
    /\ \E out \in Writes, f \in r.files :
        /\ Charge(out)
        /\ q' = Takes(out, XAdd(q, f, 0), q)
        /\ admitted' = Takes(out, admitted \cup {f}, admitted)
        /\ r' = [r EXCEPT !.files = @ \ {f}, !.sent = @ \/ out = "ok"]
        /\ GoTo(IF r.files = {f} THEN "recount" ELSE "enqueue")
    /\ UNCHANGED <<dlq, cluster, cr, pi, listed, flushed>>

\* A slip: the length read before the files were added is kept.
RecountStale ==
    /\ pc = "recount"
    /\ \E out \in Reads :
        /\ Charge(out)
        /\ IF out # "ok" \/ Length(q) = 0 \/ ~ r.sent THEN GiveUp
           ELSE Initialized(0)
    /\ UNCHANGED r /\ NoEffect

\* GetStreamLength again: the run has as many files as the stream has entries.
Recount ==
    /\ pc = "recount"
    /\ \E out \in Reads :
        /\ Charge(out)
        /\ IF out # "ok" \/ Length(q) = 0 \/ ~ r.sent THEN GiveUp
           ELSE Initialized(Length(q))
    /\ UNCHANGED r /\ NoEffect

----------------------------------------------------------------------------
(* ensureJob.                                                              *)

\* Condition Degraded, reason JobCreationFailed.
JobError ==
    /\ pi' = [pi EXCEPT !.degraded = TRUE]
    /\ GoTo("save")

\* The Job is looked up only when the status names it.
FindJob ==
    /\ pc = "ensureJob" /\ pi.jobName
    /\ \E out \in Reads :
        /\ Charge(out)
        /\ \/ out # "ok" /\ JobError
           \/ out = "ok" /\ job.state # "absent" /\ GoTo("listPods") /\ UNCHANGED pi
           \/ out = "ok" /\ job.state = "absent" /\ GoTo("createJob") /\ UNCHANGED pi
    /\ UNCHANGED r /\ NoEffect

\* Create under the instance's fixed Job name: AlreadyExists is an error like
\* any other.
CreateJob ==
    /\ \/ pc = "createJob"
       \/ pc = "ensureJob" /\ ~ pi.jobName
    /\ \E out \in Writes :
        LET made == job.state = "absent"
        IN  /\ Charge(out)
            /\ job' = Takes(IF made THEN out ELSE "refused",
                            [state |-> "active", run |-> job.run + 1,
                             completions |-> pi.total], job)
            /\ IF made /\ out = "ok"
               THEN pi' = [pi EXCEPT !.jobName = TRUE] /\ GoTo("listPods")
               ELSE JobError
    /\ UNCHANGED <<q, dlq, pods, processed, cr, r, history>>

----------------------------------------------------------------------------
(* updateStatus: the two numbers that completion depends on.  A failed read *)
(* is logged and counts as 0.                                              *)

ReadLag ==
    /\ pc = "lag"
    /\ \E out \in Reads, reply \in LagReplies(q) :
        /\ Charge(out)
        /\ r' = [r EXCEPT !.queued = IF out # "ok" \/ reply = LagUnknown THEN 0 ELSE reply]
        /\ GoTo("pending")
    /\ UNCHANGED pi /\ NoEffect

ReadPending ==
    /\ pc = "pending"
    /\ \E out \in Reads :
        /\ Charge(out)
        /\ r' = [r EXCEPT !.running = IF out # "ok" THEN 0 ELSE Cardinality(Pending(q))]
        /\ GoTo("checkFailure")
    /\ UNCHANGED pi /\ NoEffect

----------------------------------------------------------------------------
(* checkFailure and checkCompletion.                                       *)

\* A failed lookup is logged, a missing Job is no failure.
CheckFailure ==
    /\ pc = "checkFailure"
    /\ \E out \in Reads :
        /\ Charge(out)
        /\ GoTo(IF out = "ok" /\ job.state = "failed" THEN "flush" ELSE "checkCompletion")
    /\ UNCHANGED <<pi, r>> /\ NoEffect

Drained == r.queued = 0 /\ r.running = 0

StillRunning ==
    /\ pc = "checkCompletion" /\ ~ Drained
    /\ pi' = [pi EXCEPT !.progressing = TRUE]
    /\ GoTo("save")
    /\ UNCHANGED <<r, faults>> /\ NoEffect

\* A slip: completion is decided by the counts, whatever the Job says.
CountsDecide ==
    /\ pc = "checkCompletion" /\ Drained
    /\ UNCHANGED cr
    /\ \E out \in Reads :
        /\ Charge(out)
        /\ IF out # "ok" \/ job.state = "absent" THEN Finish
           ELSE /\ GoTo("save") /\ UNCHANGED r
                /\ pi' = [pi EXCEPT !.succeeded = TRUE, !.progressing = FALSE,
                                    !.ended = TRUE]
    /\ UNCHANGED <<q, dlq, cluster, history>>

\* When the lookup fails the pass ends without saving the status.
CheckCompletion ==
    /\ pc = "checkCompletion" /\ Drained
    /\ UNCHANGED cr
    /\ \E out \in Reads :
        /\ Charge(out)
        /\ IF out # "ok" \/ job.state = "absent" THEN Finish
           ELSE /\ GoTo("save") /\ UNCHANGED r
                /\ pi' = IF job.state = "complete"
                         THEN [pi EXCEPT !.succeeded = TRUE, !.progressing = FALSE,
                                         !.ended = TRUE]
                         ELSE [pi EXCEPT !.progressing = TRUE]
    /\ UNCHANGED <<q, dlq, cluster, history>>

\* A restart of the manager between any two calls of a pass.
Restart ==
    /\ pc # "idle"
    /\ CanFault(IF pc \in FlushSteps THEN "flush" ELSE "crash")
    /\ faults' = faults + 1
    /\ UNCHANGED cr /\ Finish
    /\ UNCHANGED <<q, dlq, cluster, history>>

ReconcileStep ==
    \/ Begin \/ Save \/ SaveStart
    \/ Inspect \/ List \/ Enqueue \/ Recount
    \/ FindJob \/ CreateJob
    \/ ReadLag \/ ReadPending
    \/ CheckFailure \/ StillRunning \/ CheckCompletion
    \/ Restart
=============================================================================
