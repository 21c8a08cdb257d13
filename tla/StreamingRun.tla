---------------------------- MODULE StreamingRun ----------------------------
(***************************************************************************)
(* reconcileStreaming: the Deployment and the Services of a streaming      *)
(* instance, its status, its completion after the idle timeout, and its    *)
(* clean-up.  Around it the Deployment controller, the informer that shows *)
(* the Deployment to the reconciler, and the clock.                        *)
(***************************************************************************)
EXTENDS NamespaceState

AfterFinalizer == IF Cleanup \in pi.finalizers THEN "findDeployment" ELSE "addCleanup"

\* startTime is set, and saved at once.
StartStream ==
    /\ At("startStream")
    /\ \E out \in Writes :
          LET status == [pi.status EXCEPT !.started = 0] IN
          /\ StoreStatus(out, status)
          /\ Charge(out)
          /\ IF Stored(out)
               THEN pi' = [pi EXCEPT !.status = status] /\ GoTo(AfterFinalizer) /\ UNCHANGED <<me, r>>
               ELSE Finish
    /\ UNCHANGED <<mode, streams, batches, creds, up, history>>

AddCleanup ==
    /\ At("addCleanup")
    /\ \E out \in Writes :
          StoreFinalizers(out, pi.finalizers \cup {Cleanup}) /\ Charge(out)
    /\ Finish
    /\ UNCHANGED <<mode, streams, batches, creds, up, history>>

----------------------------------------------------------------------------
(* ensureStreamingDeployment, ensureFilterServices                         *)

FindDeployment ==
    /\ At("findDeployment")
    /\ \E out \in Reads :
          /\ Charge(out)
          /\ IF out = "refused" THEN Degrade
             ELSE Continue(IF depView[me] = "absent" THEN "createDeployment" ELSE "patchDeployment")
    /\ UNCHANGED <<mode, cr, streams, batches, creds, up, history>>

\* The status names the Deployment (in memory: it is saved with the rest),
\* and the Services are next.
Named == /\ pi' = [pi EXCEPT !.status.named = TRUE]
         /\ r' = [r EXCEPT !.todo = Service]
         /\ GoTo(IF Service = {} THEN "readStatus" ELSE "services")
         /\ UNCHANGED me

\* One that the cache does not show yet is refused as existing already.
CreateDeployment ==
    /\ At("createDeployment")
    /\ \E out \in Writes :
          /\ Charge(out)
          /\ dep' = [dep EXCEPT ![me] = IF @ = "absent" THEN Takes(out, "unready", @) ELSE @]
          /\ IF out = "ok" /\ dep[me] = "absent" THEN Named ELSE Degrade
    /\ UNCHANGED <<mode, cr, depView, svcs, quiet, batches, creds, up, history>>

\* One that the cache still shows may be gone.
PatchDeployment ==
    /\ At("patchDeployment")
    /\ \E out \in Writes :
          /\ Charge(out)
          /\ IF out = "ok" /\ dep[me] # "absent" THEN Named ELSE Degrade
    /\ UNCHANGED <<mode, cr, streams, batches, creds, up, history>>

\* The Services are taken in the order of a Go map: in any.  Each is created,
\* or patched if the cache has it.
EnsureService ==
    /\ At("services")
    /\ \E s \in r.todo, out \in Writes :
          /\ Charge(out)
          /\ svcs' = [svcs EXCEPT ![me] = Takes(out, @ \cup {s}, @)]
          /\ IF out # "ok" THEN Degrade
             ELSE /\ r' = [r EXCEPT !.todo = @ \ {s}]
                  /\ GoTo(IF r.todo = {s} THEN "readStatus" ELSE "services")
                  /\ UNCHANGED <<me, pi>>
    /\ UNCHANGED <<mode, cr, dep, depView, quiet, batches, creds, up, history>>

\* The cache does not have a Service that exists: it cannot be created again.
MissService ==
    /\ At("services") /\ CanFault("lag")
    /\ r.todo \cap svcs[me] # {}
    /\ faults' = faults + 1
    /\ Degrade
    /\ UNCHANGED <<mode, cr, streams, batches, creds, up, history>>

----------------------------------------------------------------------------
(* updateStreamingStatus, checkIdleTimeout and the completion              *)

\* What the Deployment tells; lastReadyTime is set once and never again.  An
\* error is logged, and the status kept.
Observed(out) ==
    IF out = "refused" \/ depView[me] = "absent" THEN pi.status
    ELSE LET ready == depView[me] = "ready" IN
         [pi.status EXCEPT !.ready = ready,
                           !.lastReady = IF ready /\ @ = Unset THEN 0 ELSE @]

\* A slip: only a stream that was ready once can be idle.
TimedOutOnceReady(status) ==
    /\ me \in Timed /\ ~ status.ready
    /\ status.lastReady # Unset /\ status.lastReady >= IdleTimeout

\* A slip: a timeout that is not set is taken to be one like any other.
TimedOutAnyway(status) ==
    /\ ~ status.ready
    /\ IF status.lastReady # Unset THEN status.lastReady >= IdleTimeout
       ELSE status.started >= IdleTimeout

\* The source sets a timeout, and the stream is not ready, and at least the
\* timeout has passed since it was seen ready or, if it never was, since the
\* start.
TimedOut(status) ==
    /\ me \in Timed /\ ~ status.ready
    /\ IF status.lastReady # Unset THEN status.lastReady >= IdleTimeout
       ELSE status.started >= IdleTimeout

ReadStatus ==
    /\ At("readStatus")
    /\ \E out \in Reads :
          LET status == Observed(out) IN
          /\ Charge(out)
          /\ IF TimedOut(status)
               THEN /\ pi' = [pi EXCEPT !.status = [status EXCEPT !.ended = TRUE]]
                    /\ GoTo("stopDeployment")
               ELSE pi' = [pi EXCEPT !.status = status] /\ GoTo("save")
          /\ quiet' = [quiet EXCEPT ![me] = IF out = "ok" /\ depView[me] = "ready" THEN 0 ELSE @]
    /\ UNCHANGED <<mode, cr, dep, depView, svcs, batches, creds, up, history, me, r>>

----------------------------------------------------------------------------
(* deleteStreamingDeployment and deleteFilterServices: on completion their *)
(* errors are logged, on deletion they end the pass.                       *)

\* Nothing is deleted unless the status names the Deployment.
DeletesDeployment(out) ==
    dep' = [dep EXCEPT ![me] = IF pi.status.named THEN Takes(out, "absent", @) ELSE @]

\* All the Services the cache lists; a call may fail on the way.
DeletesServices(out) ==
    \/ out = "ok" /\ svcs' = [svcs EXCEPT ![me] = {}] /\ UNCHANGED faults
    \/ /\ CanFault(IF out = "ok" THEN "lag" ELSE "call")
       /\ \E left \in SUBSET svcs[me] : svcs' = [svcs EXCEPT ![me] = left]
       /\ faults' = faults + 1

StopDeployment ==
    /\ At("stopDeployment")
    /\ \E out \in Writes : DeletesDeployment(out) /\ Charge(out)
    /\ Continue("stopServices")
    /\ UNCHANGED <<mode, cr, depView, svcs, quiet, batches, creds, up, history>>

StopServices ==
    /\ At("stopServices")
    /\ \E out \in {"ok", "refused"} : DeletesServices(out)
    /\ Continue("save")
    /\ UNCHANGED <<mode, cr, dep, depView, quiet, batches, creds, up, history>>

\* A slip: an error is only logged, as it is on completion.
DeleteDeploymentAnyway ==
    /\ At("deleteDeployment")
    /\ \E out \in Writes : DeletesDeployment(out) /\ Charge(out)
    /\ Continue("deleteServices")
    /\ UNCHANGED <<mode, cr, depView, svcs, quiet, batches, creds, up, history>>

\* A slip: a Deployment that is not found is an error like any other.
DeleteDeploymentFound ==
    /\ At("deleteDeployment")
    /\ \E out \in Writes :
          /\ DeletesDeployment(out)
          /\ Charge(out)
          /\ IF out = "ok" /\ dep[me] # "absent" THEN Continue("deleteServices") ELSE Finish
    /\ UNCHANGED <<mode, cr, depView, svcs, quiet, batches, creds, up, history>>

DeleteDeployment ==
    /\ At("deleteDeployment")
    /\ \E out \in Writes :
          /\ DeletesDeployment(out)
          /\ Charge(out)
          /\ IF out = "ok" THEN Continue("deleteServices") ELSE Finish
    /\ UNCHANGED <<mode, cr, depView, svcs, quiet, batches, creds, up, history>>

DeleteServices ==
    /\ At("deleteServices")
    /\ \E out \in {"ok", "refused"} :
          /\ DeletesServices(out)
          /\ IF out = "ok" THEN Continue("dropCleanup") ELSE Finish
    /\ UNCHANGED <<mode, cr, dep, depView, quiet, batches, creds, up, history>>

DropCleanup ==
    /\ At("dropCleanup")
    /\ \E out \in Writes :
          StoreFinalizers(out, pi.finalizers \ {Cleanup}) /\ Charge(out)
    /\ Finish
    /\ UNCHANGED <<mode, streams, batches, creds, up, history>>

----------------------------------------------------------------------------
(* The Deployment's pod comes and goes; the cache follows; time passes.    *)

TurnReady(i) ==
    /\ dep[i] = "unready"
    /\ dep' = [dep EXCEPT ![i] = "ready"]
    /\ UNCHANGED <<mode, cr, depView, svcs, quiet, batches, creds, up, history, worker>>

TurnUnready(i) ==
    /\ dep[i] = "ready"
    /\ dep' = [dep EXCEPT ![i] = "unready"]
    /\ UNCHANGED <<mode, cr, depView, svcs, quiet, batches, creds, up, history, worker>>

SyncDeployment(i) ==
    /\ depView[i] # dep[i]
    /\ depView' = [depView EXCEPT ![i] = dep[i]]
    /\ UNCHANGED <<mode, cr, dep, svcs, quiet, batches, creds, up, history, worker>>

Aged(status) == [status EXCEPT !.started = Older(@), !.lastReady = Older(@)]

Tick ==
    /\ cr' = [i \in Instance |-> [cr[i] EXCEPT !.status = Aged(@)]]
    /\ pi' = [pi EXCEPT !.status = Aged(@)]
    /\ quiet' = [i \in Instance |-> IF cr[i].status.started = Unset THEN 0 ELSE Older(quiet[i])]
    /\ <<cr', pi', quiet'>> # <<cr, pi, quiet>>
    /\ UNCHANGED <<mode, dep, depView, svcs, batches, creds, up, history,
                   pc, me, r, faults>>
=============================================================================
