--------------------------- MODULE NamespaceState ---------------------------
(***************************************************************************)
(* The PipelineInstances of one namespace, in either mode, and what they   *)
(* share: one reconciler (a single worker) and the namespace's Valkey      *)
(* credentials, a Secret and an ACL user.  A pass is a sequence of calls   *)
(* to the API server and to Valkey, one step each; users, claimers, the    *)
(* Deployment controller, the clock and the informers move between any two *)
(* of them.  What a batch pass does to its work stream is in BatchRun.     *)
(***************************************************************************)
EXTENDS Integers, FiniteSets

CONSTANTS
    Instance,       \* the PipelineInstances there may be
    Modes,          \* which of them users create, with their pipelines' modes
    Service,        \* the exposed ports of a streaming pipeline
    IdleTimeout,    \* rtsp.idleTimeout, in ticks of the clock
    Timed,          \* the instances whose source sets it: it is optional
    Password,       \* passwords that may be generated
    None,           \* nothing: no Secret, no ACL user, no instance
    Malformed,      \* the content of a Secret without the expected keys
    UserSecrets,    \* what users may have put in the Secret's place before
    Faults,         \* the kinds of faults that may occur
    MaxFaults       \* how many of them do (a bound)

Mode == {"Stream", "Batch"}

\* "call": a call is refused, or takes effect although its reply is lost;
\* "lag": a Service is read from a cache that has not seen it yet;
\* "crash": the reconciler restarts in the middle of a pass;
\* "outage": Valkey cannot be reached for a while.
ASSUME NamespaceAssumption ==
    /\ Modes \subseteq UNION {[J -> Mode] : J \in SUBSET Instance}
    /\ IdleTimeout \in Nat
    /\ Timed \subseteq Instance
    /\ None \notin Instance \cup Password /\ Malformed \notin Password \cup {None}
    /\ UserSecrets \subseteq Password \cup {None, Malformed}
    /\ Faults \subseteq {"call", "lag", "crash", "outage"}
    /\ MaxFaults \in Nat

VARIABLES
    mode,       \* spec.mode of the pipeline of each instance users create
    cr,         \* the stored PipelineInstances
    dep,        \* the Deployment of each streaming instance
    depView,    \* what the informer's cache has of it
    svcs,       \* the Services of each streaming instance
    quiet,      \* history: how long ago a pass last saw one ready, or started it
    job,        \* whether the Job of a batch instance exists
    claimer,    \* the claimer of the one pod it has at a time
    secret,     \* the Secret with the namespace's credentials
    secretView, \* what the informer's cache has of it
    acl,        \* the password of the namespace's Valkey user
    up,         \* whether Valkey can be reached
    pc,         \* what the reconciler does next
    me,         \* the instance of the pass
    pi,         \* the instance in the reconciler's memory
    r,          \* the local variables of its functions
    misled,     \* history: the cache hid that the Secret had come or gone
    reprieved,  \* history: credentials were kept for an unmarked instance
    faults      \* how many faults have occurred

vars == <<mode, cr, dep, depView, svcs, quiet, job, claimer, secret,
          secretView, acl, up, pc, me, pi, r, misled, reprieved, faults>>

streams == <<dep, depView, svcs, quiet>>
batches == <<job, claimer>>
creds == <<secret, secretView, acl>>
history == <<misled, reprieved>>
worker == <<pc, me, pi, r, faults>>

----------------------------------------------------------------------------
Credentials == "valkey-credentials"
Cleanup == "streaming-cleanup"

\* Ages are only compared with the idle timeout, and stop there; Unset is a
\* time that has not been set.
Unset == -1
Age == {Unset} \cup 0 .. IdleTimeout
Older(age) == IF age \in {Unset, IdleTimeout} THEN age ELSE age + 1

\* startTime and lastReadyTime as ages; whether the Deployment or the Job is
\* named, replicas were ready, and the run is complete (completionTime is set
\* and Succeeded is True).
Status == [started : Age, lastReady : Age, named : BOOLEAN, ready : BOOLEAN,
           ended : BOOLEAN]

NewStatus == [started |-> Unset, lastReady |-> Unset, named |-> FALSE,
              ready |-> FALSE, ended |-> FALSE]

Object == [phase : {"new", "live", "deleting", "gone"},
           finalizers : SUBSET {Credentials, Cleanup}, status : Status]

NewObject == [phase |-> "new", finalizers |-> {}, status |-> NewStatus]
Gone == [NewObject EXCEPT !.phase = "gone"]

DepStates == {"absent", "unready", "ready"}

\* A pod waits for the Secret its environment takes the password from; its
\* claimer then connects, asks for a message and, having one, is done.  It is
\* refused, and exits, when Valkey does not know the password.
ClaimerPhases == {"none", "waiting", "connecting", "claiming", "done", "refused"}
Claimers == [phase : ClaimerPhases, password : Password \cup {None}]
Claimer(phase, password) == [phase |-> phase, password |-> password]
NoClaimer == Claimer("none", None)

Secrets == [password : Password \cup {None, Malformed}, managed : BOOLEAN]
NoSecret == [password |-> None, managed |-> FALSE]

Blank == [todo |-> {}, password |-> None]

Steps == {"idle", "addFinalizer", "lookup", "save",
          "startStream", "addCleanup", "findDeployment", "createDeployment",
          "patchDeployment", "services", "readStatus", "stopDeployment",
          "stopServices", "deleteDeployment", "deleteServices", "dropCleanup",
          "findJob", "getSecret", "createSecret", "rereadSecret", "setUser",
          "createJob", "listInstances", "ownSecret", "deleteUser",
          "deleteSecret", "dropCredentials"}

Streaming(i) == mode[i] = "Stream"

----------------------------------------------------------------------------
(* Calls of the reconciler, and how they may fail.                         *)

CanFault(kind) == kind \in Faults /\ faults < MaxFaults
Writes == {"ok"} \cup (IF CanFault("call") THEN {"refused", "lost"} ELSE {})
Reads == {"ok"} \cup (IF CanFault("call") THEN {"refused"} ELSE {})
Takes(out, new, old) == IF out = "refused" THEN old ELSE new
Charge(out) == faults' = IF out = "ok" THEN faults ELSE faults + 1

GoTo(step) == pc' = step
At(step) == pc = step

\* Nothing the reconciler holds survives a pass.
Finish == GoTo("idle") /\ me' = None /\ pi' = NewObject /\ r' = Blank

\* An update carries the resource version the pass has read, so it conflicts
\* with whatever a user has done to the instance since: a deletion.
Conflict == cr[me].phase # pi.phase

\* Status().Update stores the status, Update the finalizers.
StoreStatus(out, status) ==
    cr' = IF Conflict THEN cr ELSE Takes(out, [cr EXCEPT ![me].status = status], cr)

\* An object that is being deleted disappears with its last finalizer.
StoreFinalizers(out, finalizers) ==
    cr' = IF Conflict THEN cr
          ELSE Takes(out,
                     [cr EXCEPT ![me] = IF @.phase = "deleting" /\ finalizers = {} THEN Gone
                                        ELSE [@ EXCEPT !.finalizers = finalizers]],
                     cr)

Stored(out) == out = "ok" /\ ~ Conflict

\* The pass goes on with its next call, knowing nothing new.
Continue(step) == GoTo(step) /\ UNCHANGED <<me, pi, r>>

\* An error on the way to the Deployment or the Job: the condition Degraded
\* is set, and the status saved with all it holds by now, before returning.
Degrade == Continue("save")
=============================================================================
