----------------------------- MODULE Lifecycle -----------------------------
(***************************************************************************)
(* Reconcile: what a pass does before and after the part that depends on   *)
(* the mode, and the life of a PipelineInstance around it: users create    *)
(* and delete it, its finalizers hold it back, and the garbage collector   *)
(* takes what it owned.                                                    *)
(***************************************************************************)
EXTENDS NamespaceState

\* A user creates the instance.
Create(i) ==
    /\ i \in DOMAIN mode
    /\ cr[i].phase = "new"
    /\ cr' = [cr EXCEPT ![i].phase = "live"]
    /\ UNCHANGED <<mode, streams, batches, creds, up, history, worker>>

\* A user deletes it: it is marked if a finalizer holds it, gone otherwise.
Delete(i) ==
    /\ cr[i].phase = "live"
    /\ cr' = [cr EXCEPT ![i] = IF @.finalizers = {} THEN Gone
                               ELSE [@ EXCEPT !.phase = "deleting"]]
    /\ UNCHANGED <<mode, streams, batches, creds, up, history, worker>>

\* Owner references: the Deployment, the Services and the Job of an instance
\* that is gone are deleted, and with the Job its pods.
Collect(i) ==
    /\ cr[i].phase = "gone"
    /\ dep[i] # "absent" \/ svcs[i] # {} \/ job[i]
    /\ dep' = [dep EXCEPT ![i] = "absent"]
    /\ svcs' = [svcs EXCEPT ![i] = {}]
    /\ job' = [job EXCEPT ![i] = FALSE]
    /\ claimer' = [claimer EXCEPT ![i] = NoClaimer]
    /\ UNCHANGED <<mode, cr, depView, quiet, creds, up, history, worker>>

\* A slip: a stream has no claimers, so its credentials are not seen to.
BeginByMode(i) ==
    /\ At("idle")
    /\ cr[i].phase \in {"live", "deleting"}
    /\ me' = i /\ pi' = cr[i] /\ r' = r
    /\ GoTo(CASE cr[i].phase = "deleting" /\ ~ Streaming(i) -> "listInstances"
              [] cr[i].phase = "deleting" /\ Streaming(i) ->
                    IF Cleanup \in cr[i].finalizers THEN "deleteDeployment" ELSE "dropCredentials"
              [] cr[i].phase = "live" /\ Credentials \notin cr[i].finalizers -> "addFinalizer"
              [] OTHER -> "lookup")
    /\ UNCHANGED <<mode, cr, streams, batches, creds, up, history, faults>>

\* Reconcile reads the instance and turns to what it needs: first the
\* finalizers of one that is being deleted, the credentials' before the
\* streaming one, or the finalizer it lacks, or else its pipeline.
Begin(i) ==
    /\ At("idle")
    /\ cr[i].phase \in {"live", "deleting"}
    /\ me' = i /\ pi' = cr[i] /\ r' = r
    /\ GoTo(CASE cr[i].phase = "deleting" /\ Credentials \in cr[i].finalizers -> "listInstances"
              [] cr[i].phase = "deleting" /\ Credentials \notin cr[i].finalizers -> "deleteDeployment"
              [] cr[i].phase = "live" /\ Credentials \notin cr[i].finalizers -> "addFinalizer"
              [] OTHER -> "lookup")
    /\ UNCHANGED <<mode, cr, streams, batches, creds, up, history, faults>>

\* The finalizer is added, and the request requeued.  From here on the
\* instance will see to the credentials when it goes.
AddFinalizer ==
    /\ At("addFinalizer")
    /\ \E out \in Writes :
          /\ StoreFinalizers(out, pi.finalizers \cup {Credentials})
          /\ reprieved' = (reprieved /\ cr' = cr)
          /\ Charge(out)
    /\ Finish
    /\ UNCHANGED <<mode, streams, batches, creds, up, misled>>

\* getPipeline and getPipelineSource; then to the mode's reconciler.
Lookup ==
    /\ At("lookup")
    /\ \E out \in Reads :
          /\ Charge(out)
          /\ IF out = "refused" THEN Degrade
             ELSE Continue(CASE ~ Streaming(me) -> "findJob"
                             [] Streaming(me) /\ pi.status.started = Unset -> "startStream"
                             [] Streaming(me) /\ pi.status.started # Unset
                                  /\ Cleanup \notin pi.finalizers -> "addCleanup"
                             [] OTHER -> "findDeployment")
    /\ UNCHANGED <<mode, cr, streams, batches, creds, up, history>>

\* Every pass of a live instance that goes beyond its finalizers ends by
\* saving the status, whether or not there was an error; a failure is retried
\* by the next pass.
Save ==
    /\ At("save")
    /\ \E out \in Writes : StoreStatus(out, pi.status) /\ Charge(out)
    /\ Finish
    /\ UNCHANGED <<mode, streams, batches, creds, up, history>>

\* The credentials are seen to: the finalizer is removed, and the request
\* requeued for the streaming one.
DropCredentials ==
    /\ At("dropCredentials")
    /\ \E out \in Writes :
          StoreFinalizers(out, pi.finalizers \ {Credentials}) /\ Charge(out)
    /\ Finish
    /\ UNCHANGED <<mode, streams, batches, creds, up, history>>

\* The controller restarts in the middle of a pass.
Restart ==
    /\ ~ At("idle") /\ CanFault("crash")
    /\ faults' = faults + 1
    /\ Finish
    /\ UNCHANGED <<mode, cr, streams, batches, creds, up, history>>
=============================================================================
