----------------------------- MODULE BatchFlush -----------------------------
(***************************************************************************)
(* flushOutstandingWork: when the Job has failed, what is left in the      *)
(* stream is taken out of it, remembered in the reconciler's memory, and   *)
(* written to the dead letter queue at the end, one record per file.       *)
(***************************************************************************)
EXTENDS BatchState

\* `if attempts > fileAttempts[file]' on a map whose missing entries are 0.
Remember(held, ids) ==
    [f \in File |-> Greatest({q.log[i].attempts : i \in {i \in ids : q.log[i].file = f}}
                            \cup {held[f]})]

\* The run is marked failed, whatever the flush achieved.
FlushEnds ==
    /\ pi' = [pi EXCEPT !.degraded = TRUE, !.progressing = FALSE,
                        !.succeeded = FALSE, !.ended = TRUE]
    /\ r' = Blank
    /\ GoTo("save")

Outside == UNCHANGED <<cluster, cr, listed, admitted>>

\* The attempts of the existing dead letter records of f (0: it has none).
Recorded(f) == Greatest({dlq[f][k] : k \in DOMAIN dlq[f]} \cup {0})

FlushBegins ==
    /\ pc = "flush"
    /\ \E out \in Reads :
        /\ Charge(out)
        /\ r' = IF out = "ok"
                THEN [r EXCEPT !.held = [f \in File |-> Recorded(f)],
                               !.known = {f \in File : dlq[f] # << >>}]
                ELSE r
    /\ flushed' = TRUE
    /\ GoTo("flushClaim")
    /\ UNCHANGED <<q, dlq, pi>> /\ Outside

\* AutoClaim of whatever is pending, until there is none.
FlushClaim ==
    /\ pc = "flushClaim"
    /\ \E out \in Writes :
        LET ids == Claimable(q, Pending(q))
        IN  /\ Charge(out)
            /\ q' = Takes(out, XClaim(q, Pending(q), Flusher), q)
            /\ IF out # "ok" \/ ids = {} THEN GoTo("flushRest") /\ UNCHANGED r
               ELSE GoTo("flushAck") /\ r' = [r EXCEPT !.batch = ids]
    /\ UNCHANGED <<dlq, pi, flushed>> /\ Outside

\* A failed XACK or XDEL is logged only.
FlushAck ==
    /\ pc = "flushAck"
    /\ \E out \in Writes :
        LET m == Least(r.batch)
        IN  /\ Charge(out)
            /\ r' = [r EXCEPT !.held = Remember(@, {m}), !.msg = m]
            /\ q' = Takes(out, XAck(q, m), q)
            /\ GoTo("flushDel")
    /\ UNCHANGED <<dlq, pi, flushed>> /\ Outside

FlushDel ==
    /\ pc = "flushDel"
    /\ \E out \in Writes :
        /\ Charge(out)
        /\ q' = Takes(out, XDel(q, {r.msg}), q)
    /\ r' = [r EXCEPT !.batch = @ \ {r.msg}, !.msg = 0]
    /\ GoTo(IF r.batch = {r.msg} THEN "flushClaim" ELSE "flushAck")
    /\ UNCHANGED <<dlq, pi, flushed>> /\ Outside

\* ReadRange of the whole stream.  When it fails the flush returns at once.
FlushRest ==
    /\ pc = "flushRest"
    /\ \E out \in Reads :
        /\ Charge(out)
        /\ \/ out # "ok" /\ FlushEnds
           \/ /\ out = "ok" /\ Present(q) = {}
              /\ GoTo("flushWrite") /\ UNCHANGED <<r, pi>>
           \/ /\ out = "ok" /\ Present(q) # {}
              /\ r' = [r EXCEPT !.held = Remember(@, Present(q)), !.batch = Present(q)]
              /\ GoTo("flushDelRest") /\ UNCHANGED pi
    /\ UNCHANGED <<q, dlq, flushed>> /\ Outside

FlushDelRest ==
    /\ pc = "flushDelRest"
    /\ \E out \in Writes :
        /\ Charge(out)
        /\ q' = Takes(out, XDel(q, r.batch), q)
        /\ GoTo(IF out = "ok" THEN "flushRest" ELSE "flushWrite")
    /\ r' = [r EXCEPT !.batch = {}]
    /\ UNCHANGED <<dlq, pi, flushed>> /\ Outside

----------------------------------------------------------------------------
(* finalAttempts: one record per remembered file, in any order.            *)

FlushDone ==
    /\ pc = "flushWrite"
    /\ \A f \in File : r.held[f] = 0
    /\ FlushEnds
    /\ UNCHANGED <<q, dlq, faults, flushed>> /\ Outside

\* The records read at the start are deleted first; when that fails the file
\* is skipped.
FlushReplace ==
    /\ pc = "flushWrite"
    /\ \E out \in Writes, f \in r.known :
        /\ Charge(out)
        /\ dlq' = Takes(out, [dlq EXCEPT ![f] = << >>], dlq)
        /\ IF out = "ok" THEN r' = [r EXCEPT !.known = @ \ {f}, !.files = {f}] /\ GoTo("flushAdd")
           ELSE r' = [r EXCEPT !.known = @ \ {f}, !.held[f] = 0] /\ UNCHANGED pc
    /\ UNCHANGED <<q, pi, flushed>> /\ Outside

\* A failed AddToDLQ is logged only.
FlushAdd ==
    /\ pc \in {"flushWrite", "flushAdd"}
    /\ \E out \in Writes,
          f \in IF pc = "flushAdd" THEN r.files
                ELSE {f \in File \ r.known : r.held[f] > 0} :
        LET n == IF r.held[f] < MaxAttempts THEN MaxAttempts ELSE r.held[f]
        IN  /\ Charge(out)
            /\ dlq' = Takes(out, [dlq EXCEPT ![f] = Append(@, n)], dlq)
            /\ r' = [r EXCEPT !.held[f] = 0, !.files = {}]
    /\ GoTo("flushWrite")
    /\ UNCHANGED <<q, pi, flushed>> /\ Outside

FlushStep ==
    \/ FlushBegins \/ FlushClaim \/ FlushAck \/ FlushDel
    \/ FlushRest \/ FlushDelRest
    \/ FlushDone \/ FlushReplace \/ FlushAdd
=============================================================================
