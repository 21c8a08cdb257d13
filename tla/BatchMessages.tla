--------------------------- MODULE BatchMessages ----------------------------
(***************************************************************************)
(* What the reconciler does with the messages of pods that have come to an *)
(* end: handleCompletedPods with handleFailedPodMessage, and runReclaimer  *)
(* for the messages whose pods have disappeared.  Both retire a message in *)
(* two calls that are not atomic: the successor (a new stream entry with   *)
(* one more attempt, or a dead letter record) is written first, and only   *)
(* then is the message acknowledged.                                       *)
(***************************************************************************)
EXTENDS BatchState

\* A slip: the attempt that exhausts the budget is retried too.
RetryOnce(out, m) ==
    LET f == q.log[m].file
        n == q.log[m].attempts + 1
    IN  IF n <= MaxAttempts
        THEN q' = Takes(out, XAdd(q, f, n), q) /\ UNCHANGED dlq
        ELSE dlq' = Takes(out, [dlq EXCEPT ![f] = Append(@, n)], dlq) /\ UNCHANGED q

\* Writing the successor of message m: EnqueueFileWithAttempts or AddToDLQ.
RetryOrBury(out, m) ==
    LET f == q.log[m].file
        n == q.log[m].attempts + 1
    IN  IF n < MaxAttempts
        THEN q' = Takes(out, XAdd(q, f, n), q) /\ UNCHANGED dlq
        ELSE dlq' = Takes(out, [dlq EXCEPT ![f] = Append(@, n)], dlq) /\ UNCHANGED q

Acknowledge(out) == q' = Takes(out, XAck(q, r.msg), q) /\ UNCHANGED dlq

Frame == UNCHANGED <<job, processed, cr, pi, history>>

----------------------------------------------------------------------------
(* handleCompletedPods.                                                    *)

\* The next listed pod, or the reclaimer when there is none.
NextPod(todo) ==
    /\ GoTo(IF todo = {} THEN "reclaim" ELSE "nextPod")
    /\ r' = [r EXCEPT !.todo = todo, !.at = {}, !.msg = 0]

\* The phases are those of the list: the pods may move on while it is worked
\* through.
ListPods ==
    /\ pc = "listPods"
    /\ \E out \in Reads :
        /\ Charge(out)
        /\ NextPod(Takes(out, {[pod |-> p, phase |-> pods[p].phase] :
                               p \in {p \in Pod : pods[p].phase \in HandledPhases}}, {}))
    /\ UNCHANGED <<q, dlq, pods>> /\ Frame

\* GetPendingForConsumer with count 1, then ReadRange of that message.  A
\* deleted message is only acknowledged.
FindMessage ==
    /\ pc = "nextPod"
    /\ \E out \in Reads, s \in r.todo :
        LET ids == PendingFor(q, s.pod)
            m == Least(ids)
        IN  /\ Charge(out)
            /\ IF out # "ok" \/ ids = {} THEN NextPod(r.todo \ {s})
               ELSE /\ r' = [r EXCEPT !.todo = @ \ {s}, !.at = {s}, !.msg = m]
                    /\ GoTo(IF q.log[m].deleted \/ s.phase = "succeeded"
                            THEN "ack" ELSE "retire")
    /\ UNCHANGED <<q, dlq, pods>> /\ Frame

\* A successful pod's message, or one that no longer exists.
AckHandled ==
    /\ pc = "ack"
    /\ \E out \in Writes : Charge(out) /\ Acknowledge(out)
    /\ NextPod(r.todo)
    /\ UNCHANGED pods /\ Frame

\* A slip: the message is left pending once its successor is written.
RetireAndLeave ==
    /\ pc = "retire"
    /\ \E out \in Writes : Charge(out) /\ RetryOrBury(out, r.msg)
    /\ NextPod(r.todo)
    /\ UNCHANGED pods /\ Frame

Retire ==
    /\ pc = "retire"
    /\ \E out \in Writes :
        /\ Charge(out)
        /\ RetryOrBury(out, r.msg)
        /\ IF out = "ok" THEN GoTo("ackRetired") /\ UNCHANGED r ELSE NextPod(r.todo)
    /\ UNCHANGED pods /\ Frame

\* A pod that has not come to an end by itself is deleted, so that the Job
\* controller replaces it.
AckRetired ==
    /\ pc = "ackRetired"
    /\ \E out \in Writes :
        /\ Charge(out)
        /\ Acknowledge(out)
        /\ IF out = "ok" /\ \E s \in r.at : s.phase \in {"stuck", "crashed"}
           THEN GoTo("deletePod") /\ UNCHANGED r ELSE NextPod(r.todo)
    /\ UNCHANGED pods /\ Frame

DeletePod ==
    /\ pc = "deletePod"
    /\ \E out \in Writes, s \in r.at :
        /\ Charge(out)
        /\ pods' = Takes(out, [pods EXCEPT ![s.pod].phase =
                               IF @ \in ActivePhases THEN "gone" ELSE @], pods)
    /\ NextPod(r.todo)
    /\ UNCHANGED <<q, dlq>> /\ Frame

----------------------------------------------------------------------------
(* runReclaimer.                                                           *)

\* The next reclaimed message, or updateStatus when there is none.
NextReclaimed(batch) ==
    /\ GoTo(IF batch = {} THEN "lag" ELSE "reclaimNext")
    /\ r' = [r EXCEPT !.batch = batch, !.msg = 0,
                      !.finished = IF batch = {} THEN {} ELSE @]

\* GetPendingEntryDetails: any of the pending messages may have been idle for
\* longer than pendingTimeout.
FindStale ==
    /\ pc = "reclaim"
    /\ \E out \in Reads, ids \in SUBSET Pending(q) :
        /\ Charge(out)
        /\ IF out # "ok" \/ ids = {} THEN NextReclaimed({})
           ELSE r' = [r EXCEPT !.batch = ids] /\ GoTo("reclaimPods")
    /\ UNCHANGED <<q, dlq, pods>> /\ Frame

\* A slip: pods that have not started their containers are not protected.
AliveRunning == {p \in Pod : pods[p].phase = "running"}

\* The pods that protect their messages, and those that finished them.
Alive == {p \in Pod : pods[p].phase \in PendingPhases \cup {"running"}}
Finished == {p \in Pod : pods[p].phase = "succeeded"}

Owned(ids, owners) == {i \in ids : q.log[i].owner \in owners}

\* A slip: the messages of successful pods are treated like the others.
ListOwnersAlive ==
    /\ pc = "reclaimPods"
    /\ \E out \in Reads :
        LET ids == r.batch \ Owned(r.batch, Alive)
        IN  /\ Charge(out)
            /\ IF out # "ok" \/ ids = {} THEN NextReclaimed({})
               ELSE r' = [r EXCEPT !.batch = ids] /\ GoTo("xclaim")
    /\ UNCHANGED <<q, dlq, pods>> /\ Frame

ListOwners ==
    /\ pc = "reclaimPods"
    /\ \E out \in Reads :
        LET ids == r.batch \ Owned(r.batch, Alive)
        IN  /\ Charge(out)
            /\ IF out # "ok" \/ ids = {} THEN NextReclaimed({})
               ELSE /\ r' = [r EXCEPT !.batch = ids, !.finished = Owned(ids, Finished)]
                    /\ GoTo("xclaim")
    /\ UNCHANGED <<q, dlq, pods>> /\ Frame

ClaimStale ==
    /\ pc = "xclaim"
    /\ \E out \in Writes :
        /\ Charge(out)
        /\ q' = Takes(out, XClaim(q, r.batch, Reclaimer), q)
        /\ NextReclaimed(IF out = "ok" THEN Claimable(q, r.batch) ELSE {})
    /\ UNCHANGED <<dlq, pods>> /\ Frame

\* A slip: when the acknowledgement fails the message is treated like any other.
AckOrRetire ==
    /\ pc = "reclaimNext"
    /\ \E out \in Writes :
        LET m == Least(r.batch)
        IN  /\ m \in r.finished
            /\ Charge(out)
            /\ q' = Takes(out, XAck(q, m), q)
            /\ IF out = "ok" THEN r' = [r EXCEPT !.msg = m] /\ GoTo("reclaimDel")
               ELSE r' = [r EXCEPT !.finished = @ \ {m}] /\ UNCHANGED pc
    /\ UNCHANGED <<dlq, pods>> /\ Frame

\* A message whose pod succeeded is only acknowledged and deleted.
AckFinished ==
    /\ pc = "reclaimNext"
    /\ \E out \in Writes :
        LET m == Least(r.batch)
        IN  /\ m \in r.finished
            /\ Charge(out)
            /\ q' = Takes(out, XAck(q, m), q)
            /\ IF out = "ok" THEN r' = [r EXCEPT !.msg = m] /\ GoTo("reclaimDel")
               ELSE NextReclaimed(r.batch \ {m})
    /\ UNCHANGED <<dlq, pods>> /\ Frame

\* A slip: the message is retired although its successor was not written.
RetireUnwritten ==
    /\ pc = "reclaimNext"
    /\ \E out \in Writes :
        LET m == Least(r.batch)
        IN  /\ m \notin r.finished
            /\ Charge(out)
            /\ RetryOrBury(out, m)
            /\ r' = [r EXCEPT !.msg = m] /\ GoTo("reclaimAck")
    /\ UNCHANGED pods /\ Frame

\* Any other is retried or buried, then acknowledged and deleted.
RetireStale ==
    /\ pc = "reclaimNext"
    /\ \E out \in Writes :
        LET m == Least(r.batch)
        IN  /\ m \notin r.finished
            /\ Charge(out)
            /\ RetryOrBury(out, m)
            /\ IF out = "ok" THEN r' = [r EXCEPT !.msg = m] /\ GoTo("reclaimAck")
               ELSE NextReclaimed(r.batch \ {m})
    /\ UNCHANGED pods /\ Frame

AckStale ==
    /\ pc = "reclaimAck"
    /\ \E out \in Writes :
        /\ Charge(out)
        /\ Acknowledge(out)
        /\ IF out = "ok" THEN GoTo("reclaimDel") /\ UNCHANGED r
           ELSE NextReclaimed(r.batch \ {r.msg})
    /\ UNCHANGED pods /\ Frame

DeleteStale ==
    /\ pc = "reclaimDel"
    /\ \E out \in Writes :
        /\ Charge(out)
        /\ q' = Takes(out, XDel(q, {r.msg}), q)
    /\ NextReclaimed(r.batch \ {r.msg})
    /\ UNCHANGED <<dlq, pods>> /\ Frame

MessageStep ==
    \/ ListPods \/ FindMessage \/ AckHandled \/ Retire \/ AckRetired \/ DeletePod
    \/ FindStale \/ ListOwners \/ ClaimStale
    \/ AckFinished \/ RetireStale \/ AckStale \/ DeleteStale
=============================================================================
