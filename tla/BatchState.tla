----------------------------- MODULE BatchState -----------------------------
(***************************************************************************)
(* The state of one batch PipelineInstance: its work stream and dead       *)
(* letter queue in Valkey, its Job and Pods in the cluster, its status in  *)
(* the API server, and the reconciler that works on them.  The reconciler  *)
(* is a single worker (MaxConcurrentReconciles is left at 1) whose pass is *)
(* a sequence of calls to Valkey and to the API server; each call is a     *)
(* step of its own, and Pods, claimers and the Job controller move between *)
(* any two of them.                                                        *)
(***************************************************************************)
EXTENDS WorkStream

CONSTANTS
    Pod,            \* the pods the Job controller may ever create
    Reclaimer,      \* consumer "controller-reclaimer"
    Flusher,        \* consumer "controller-flush"
    Parallelism,    \* spec.execution.parallelism
    MaxAttempts,    \* spec.execution.maxAttempts
    BackoffLimit,   \* backoffLimit of the Job (2 in the code)
    MaxJobs,        \* how often the Job may be created (a bound)
    PodFaults,      \* what may go wrong with pods
    Faults,         \* which calls may fail
    MaxFaults       \* how many of them do (a bound)

PodFaultKinds == {"fail", "crash", "stick", "recover", "evict"}

\* "call": a call of the reconciler is refused, or takes effect although its
\* reply is lost; "crash": the reconciler restarts; "flush": either of the
\* two while a flush is under way; "claim": the reply to the XREADGROUP of a
\* claimer is lost.
FaultKinds == {"call", "crash", "flush", "claim"}

ASSUME ConstantsAssumption ==
    /\ IsFiniteSet(File)
    /\ MaxAttempts \in Nat \ {0}
    /\ Parallelism \in Nat \ {0}
    /\ BackoffLimit \in Nat
    /\ MaxJobs \in Nat
    /\ MaxFaults \in Nat
    /\ PodFaults \subseteq PodFaultKinds
    /\ Faults \subseteq FaultKinds
    /\ Reclaimer # Flusher
    /\ NoOne \notin Pod \cup {Reclaimer, Flusher}
    /\ Pod \cap {Reclaimer, Flusher} = {}

VARIABLES
    q,          \* the work stream and its consumer group
    dlq,        \* the attempts of the dead letter records of each file
    job,        \* the Job object
    pods,       \* the pods, as the kubelet and the Job controller see them
    processed,  \* the files that a pod has run to success
    cr,         \* the stored status of the PipelineInstance
    pc,         \* what the reconciler does next
    pi,         \* the status in the reconciler's memory
    r,          \* the local variables of the reconciler's functions
    listed,     \* history: the files of the last listing of the bucket
    admitted,   \* history: the files that initialization added to the stream
    flushed,    \* history: a flush has begun
    faults      \* how many calls have failed so far

vars == <<q, dlq, job, pods, processed, cr, pc, pi, r,
          listed, admitted, flushed, faults>>

cluster == <<job, pods, processed>>
history == <<listed, admitted, flushed>>

----------------------------------------------------------------------------
Consumers == Pod \cup {Reclaimer, Flusher}

\* A pod is Pending while it is claiming (the init container waits for a
\* message), starting (it has one) or stuck (a container cannot start);
\* Running while it is running or crashed (one container has exited with an
\* error and another is alive).
PendingPhases == {"claiming", "starting", "stuck"}
ActivePhases == PendingPhases \cup {"running", "crashed"}
Phases == ActivePhases \cup {"unborn", "succeeded", "failed", "gone"}

\* The phases handleCompletedPods acts upon.
HandledPhases == {"succeeded", "failed", "stuck", "crashed"}

Pods == [Pod -> [phase : Phases, work : Nat, run : Nat]]

JobStates == {"absent", "active", "failing", "complete", "failed"}
Jobs == [state : JobStates, run : Nat, completions : Nat]

\* status.startTime, counts.totalFiles, jobName and completionTime, and which
\* of the conditions are True.
Statuses == [started : BOOLEAN, total : Nat, jobName : BOOLEAN, ended : BOOLEAN,
             progressing : BOOLEAN, succeeded : BOOLEAN, degraded : BOOLEAN]

NewStatus == [started |-> FALSE, total |-> 0, jobName |-> FALSE, ended |-> FALSE,
              progressing |-> FALSE, succeeded |-> FALSE, degraded |-> FALSE]

Seen == [pod : Pod, phase : HandledPhases]

Registers ==
    [files : SUBSET File,       \* still to enqueue, or the one being rewritten
     sent : BOOLEAN,            \* an enqueue has succeeded
     todo : SUBSET Seen,        \* listed pods still to handle
     at : SUBSET Seen,          \* the pod being handled, if any
     msg : Nat,                 \* the message being handled
     batch : SUBSET Nat,        \* messages still to handle
     finished : SUBSET Nat,     \* those whose consumer's pod has succeeded
     queued : Int,              \* the lag that was read
     running : Nat,             \* the pending count that was read
     held : [File -> Nat],      \* attempts of the files to dead-letter
     known : SUBSET File]       \* files with dead letter records to replace

Blank == [files |-> {}, sent |-> FALSE, todo |-> {}, at |-> {}, msg |-> 0,
          batch |-> {}, finished |-> {}, queued |-> 0, running |-> 0,
          held |-> [f \in File |-> 0], known |-> {}]

FlushSteps == {"flush", "flushClaim", "flushAck", "flushDel", "flushRest",
               "flushDelRest", "flushWrite", "flushAdd"}

Steps == FlushSteps \cup
    {"idle", "inspect", "list", "enqueue", "recount", "saveStart", "ensureJob",
     "createJob", "listPods", "nextPod", "ack", "retire", "ackRetired",
     "deletePod", "reclaim", "reclaimPods", "xclaim", "reclaimNext",
     "reclaimAck", "reclaimDel", "lag", "pending", "checkFailure",
     "checkCompletion", "save"}

----------------------------------------------------------------------------
(* Calls of the reconciler, and how they may fail.                         *)

CanFault(kind) == kind \in Faults /\ faults < MaxFaults

\* Whether a call takes effect and whether the caller learns of it.
CallFault == IF pc \in FlushSteps THEN "flush" ELSE "call"
Writes == {"ok"} \cup (IF CanFault(CallFault) THEN {"refused", "lost"} ELSE {})
Reads == {"ok"} \cup (IF CanFault(CallFault) THEN {"refused"} ELSE {})

\* The change a call with outcome `out' makes to a variable, and its cost.
Takes(out, new, old) == IF out = "refused" THEN old ELSE new
Charge(out) == faults' = IF out = "ok" THEN faults ELSE faults + 1

GoTo(step) == pc' = step

\* End of the pass: nothing the reconciler holds survives it.
Finish == GoTo("idle") /\ pi' = cr' /\ r' = Blank
=============================================================================
