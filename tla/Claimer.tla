------------------------------ MODULE Claimer ------------------------------
(***************************************************************************)
(* The claimer's conversation with Valkey: it connects with the password   *)
(* its environment took from the namespace's Secret, waits out an outage,  *)
(* and gives up at any answer that is not a network failure.  What it does *)
(* with a message once it has one is in BatchCluster.                      *)
(***************************************************************************)
EXTENDS NamespaceState

Turn(i, phase, password) == claimer' = [claimer EXCEPT ![i] = Claimer(phase, password)]
Elsewhere == <<mode, cr, streams, job, creds, up, history, worker>>

\* The kubelet starts the container once the Secret has the key it refers to.
StartClaimer(i) ==
    /\ claimer[i].phase = "waiting"
    /\ secret.password \in Password
    /\ Turn(i, "connecting", secret.password)
    /\ UNCHANGED Elsewhere

\* createValkeyClient and waitForValkey: while Valkey is away they retry; a
\* wrong password (WRONGPASS) ends the claimer.
Connect(i) ==
    /\ claimer[i].phase = "connecting"
    /\ up
    /\ IF acl = claimer[i].password
         THEN Turn(i, "claiming", claimer[i].password)
         ELSE Turn(i, "refused", None)
    /\ UNCHANGED Elsewhere

\* claimMessage: the blocking read is cut off by an outage, or because the
\* user it is logged in as was deleted; it is retried on a new connection.
Interrupt(i) ==
    /\ claimer[i].phase = "claiming"
    /\ ~ up \/ acl # claimer[i].password
    /\ Turn(i, "connecting", claimer[i].password)
    /\ UNCHANGED Elsewhere

\* The read returns a message.
Deliver(i) ==
    /\ claimer[i].phase = "claiming"
    /\ up
    /\ Turn(i, "done", None)
    /\ UNCHANGED Elsewhere

----------------------------------------------------------------------------
(* The Job replaces a failed pod, and is itself deleted after its TTL.     *)

Replace(i) ==
    /\ claimer[i].phase = "refused"
    /\ Turn(i, "waiting", None)
    /\ UNCHANGED Elsewhere

ExpireJob(i) ==
    /\ claimer[i].phase = "done"
    /\ job' = [job EXCEPT ![i] = FALSE]
    /\ Turn(i, "none", None)
    /\ UNCHANGED <<mode, cr, streams, creds, up, history, worker>>

----------------------------------------------------------------------------
(* Valkey is unreachable for a while; it loses nothing.                    *)

Outage ==
    /\ up /\ CanFault("outage")
    /\ up' = FALSE
    /\ faults' = faults + 1
    /\ UNCHANGED <<mode, cr, streams, batches, creds, history, pc, me, pi, r>>

Recover ==
    /\ ~ up
    /\ up' = TRUE
    /\ UNCHANGED <<mode, cr, streams, batches, creds, history, worker>>
=============================================================================
