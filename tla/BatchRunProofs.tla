--------------------------- MODULE BatchRunProofs ---------------------------
(***************************************************************************)
(* Theorems about BatchRun, for any number of files and pods and any       *)
(* faults.  The type invariant is not inductive: that the reconciler looks *)
(* up only messages the stream has is a fact about what its registers hold *)
(* at each of its steps, and about what pods hold.                         *)
(***************************************************************************)
EXTENDS BatchRun, WorkStreamProofs

StreamOK == GoodStream(q, Consumers)

LettersOK == dlq \in [File -> Seq(Nat)]

ClusterOK == job \in Jobs /\ pods \in Pods /\ processed \subseteq File

ReconcilerOK ==
    cr \in Statuses /\ pc \in Steps /\ pi \in Statuses /\ r \in Registers

HistoryOK == listed \subseteq File /\ admitted \subseteq File /\ flushed \in BOOLEAN

\* The message a pod has taken is in the stream; it has one once it starts.
PodMarks ==
    \A p \in Pod :
        /\ pods[p].work \in DOMAIN q.log \cup {0}
        /\ pods[p].phase \in {"starting", "running", "crashed", "succeeded"} =>
             pods[p].work # 0

\* The messages in the reconciler's registers are in the stream.
HandlesMessage == {"ack", "retire", "ackRetired", "reclaimAck", "reclaimDel", "flushDel"}
HasBatch == {"reclaimNext", "flushAck", "flushDel"}
PassMarks ==
    /\ r.batch \subseteq DOMAIN q.log
    /\ pc \in HandlesMessage => r.msg \in DOMAIN q.log
    /\ pc \in HasBatch => r.batch # {}

TypeInv ==
    /\ StreamOK /\ LettersOK /\ ClusterOK /\ ReconcilerOK /\ HistoryOK
    /\ faults \in Nat
    /\ PodMarks /\ PassMarks

----------------------------------------------------------------------------
(* What any command leaves of the stream.                                  *)

Kept(s, t) == GoodStream(t, Consumers) /\ DOMAIN s.log \subseteq DOMAIN t.log

\* A well-formed stream stays well formed, and keeps its positions, under
\* every command and when a command is refused.
LEMMA CommandsKeep ==
    ASSUME NEW s, GoodStream(s, Consumers)
    PROVE  /\ Kept(s, s)
           /\ \A f \in File, n \in Nat : Kept(s, XAdd(s, f, n))
           /\ Undelivered(s) # {} => \A c \in Consumers : Kept(s, XReadGroup(s, c))
           /\ \A i \in DOMAIN s.log : Kept(s, XAck(s, i))
           /\ \A ids : Kept(s, XDel(s, ids))
           /\ \A ids : \A c \in Consumers : Kept(s, XClaim(s, ids, c))
<1>1. Kept(s, s)
    BY DEF Kept
<1>2. DOMAIN s.log = 1 .. Len(s.log) /\ Len(s.log) \in Nat
    BY Positions
<1>3. ASSUME NEW t, GoodStream(t, Consumers), Len(s.log) <= Len(t.log)
      PROVE  Kept(s, t)
  <2>1. DOMAIN t.log = 1 .. Len(t.log) /\ Len(t.log) \in Nat
      BY <1>3, Positions
  <2> QED
      BY <1>2, <1>3, <2>1 DEF Kept
<1>4. ASSUME NEW f \in File, NEW n \in Nat PROVE Kept(s, XAdd(s, f, n))
  <2>1. GoodStream(XAdd(s, f, n), Consumers) /\ Len(XAdd(s, f, n).log) = Len(s.log) + 1
      BY XAddAppends
  <2> QED
      BY <1>2, <1>3, <2>1
<1>5. ASSUME Undelivered(s) # {}, NEW c \in Consumers PROVE Kept(s, XReadGroup(s, c))
    BY <1>2, <1>3, <1>5, XReadGroupDelivers
<1>6. ASSUME NEW i \in DOMAIN s.log PROVE Kept(s, XAck(s, i))
    BY <1>2, <1>3, XAckReleases
<1>7. ASSUME NEW ids PROVE Kept(s, XDel(s, ids))
    BY <1>2, <1>3, XDelMarks
<1>8. ASSUME NEW ids, NEW c \in Consumers PROVE Kept(s, XClaim(s, ids, c))
    BY <1>2, <1>3, XClaimMoves
<1> QED
    BY <1>1, <1>4, <1>5, <1>6, <1>7, <1>8

\* The outcome of a call on the stream.
LEMMA OutcomeKeeps ==
    ASSUME NEW out, NEW s, NEW t, GoodStream(s, Consumers), Kept(s, t)
    PROVE  Kept(s, Takes(out, t, s))
    BY CommandsKeep DEF Takes

\* The fields of an entry have their types.
LEMMA EntryFields ==
    ASSUME NEW s, GoodStream(s, Consumers), NEW i \in DOMAIN s.log
    PROVE  /\ s.log[i].file \in File
           /\ s.log[i].attempts \in Nat
           /\ s.log[i].owner \in Consumers \cup {NoOne}
           /\ s.log[i].deleted \in BOOLEAN
<1>1. s.log[i] \in Entry(Consumers)
    BY Positions, ElementOfSeq
<1> QED
    BY <1>1 DEF Entry

----------------------------------------------------------------------------
(* What a step of the cluster, and a step of the reconciler, has to show.  *)

\* A step of the cluster leaves the reconciler and the dead letters alone.
LEMMA ClusterFrame ==
    ASSUME TypeInv, Kept(q, q'), ClusterOK', PodMarks', faults' \in Nat,
           UNCHANGED <<dlq, Reconciler, history>>
    PROVE  TypeInv'
<1>1. StreamOK' /\ DOMAIN q.log \subseteq DOMAIN q'.log
    BY DEF Kept, StreamOK
<1>2. LettersOK' /\ ReconcilerOK' /\ HistoryOK'
    BY DEF TypeInv, LettersOK, ReconcilerOK, HistoryOK, Reconciler, history
<1>3. PassMarks'
    BY <1>1 DEF TypeInv, PassMarks, Reconciler
<1> QED
    BY <1>1, <1>2, <1>3 DEF TypeInv

\* A step of the reconciler leaves the pods alone.
LEMMA ReconcilerFrame ==
    ASSUME TypeInv, Kept(q, q'), LettersOK', ReconcilerOK', HistoryOK', PassMarks',
           faults' \in Nat, UNCHANGED <<pods, processed>>, job' \in Jobs
    PROVE  TypeInv'
<1>1. StreamOK' /\ DOMAIN q.log \subseteq DOMAIN q'.log
    BY DEF Kept, StreamOK
<1>2. ClusterOK'
    BY DEF TypeInv, ClusterOK
<1>3. PodMarks'
    BY <1>1 DEF TypeInv, PodMarks
<1> QED
    BY <1>1, <1>2, <1>3 DEF TypeInv

\* Failed calls are counted.
LEMMA ChargeTypes ==
    ASSUME faults \in Nat, NEW out, Charge(out)
    PROVE  faults' \in Nat
    BY DEF Charge

----------------------------------------------------------------------------
(* The cluster.                                                            *)

\* A pod whose phase changes to one that needs no more than it has.
LEMMA PhaseChanges ==
    ASSUME TypeInv, NEW p \in Pod, NEW phase \in Phases,
           phase \in {"starting", "running", "crashed", "succeeded"} => pods[p].work # 0,
           pods' = [pods EXCEPT ![p].phase = phase],
           Kept(q, q'), UNCHANGED job, processed' \subseteq File
    PROVE  ClusterOK' /\ PodMarks'
<1>1. pods \in Pods /\ job \in Jobs
    BY DEF TypeInv, ClusterOK
<1>2. /\ pods' \in Pods
      /\ \A x \in Pod : /\ pods'[x].work = pods[x].work
                        /\ x # p => pods'[x].phase = pods[x].phase
      /\ pods'[p].phase = phase
    BY <1>1 DEF Pods
<1> QED
    BY <1>1, <1>2 DEF TypeInv, ClusterOK, PodMarks, Kept

\* A pod that takes the next message.
LEMMA PodClaims ==
    ASSUME TypeInv, NEW p \in Pod, Undelivered(q) # {},
           q' = XReadGroup(q, p),
           pods' = [pods EXCEPT ![p].phase = "starting", ![p].work = Least(Undelivered(q))],
           UNCHANGED <<job, processed>>
    PROVE  ClusterOK' /\ PodMarks'
<1>1. /\ pods \in Pods /\ job \in Jobs /\ processed \subseteq File
      /\ GoodStream(q, Consumers)
    BY DEF TypeInv, ClusterOK, StreamOK
<1>2. Kept(q, q')
    BY <1>1, CommandsKeep DEF Consumers
<1> DEFINE m == Least(Undelivered(q))
<1>3. m \in Nat /\ m # 0 /\ m \in DOMAIN q.log
  <2>1. m \in Undelivered(q)
      BY <1>1, XReadGroupDelivers DEF Consumers
  <2> QED
      BY <1>1, <2>1, Positions, ReadsArePositions
<1> HIDE DEF m
<1>4. /\ pods' \in Pods
      /\ \A x \in Pod : x # p => pods'[x] = pods[x]
      /\ pods'[p].phase = "starting" /\ pods'[p].work = m
    BY <1>1, <1>3 DEF Pods, Phases, ActivePhases, PendingPhases, m
<1> QED
    BY <1>1, <1>2, <1>3, <1>4 DEF TypeInv, ClusterOK, PodMarks, Kept

\* The steps of the pods and of the Job controller.
LEMMA ClusterKeepsTypes ==
    ASSUME TypeInv, ClusterStep
    PROVE  TypeInv'
<1>1. /\ pods \in Pods /\ job \in Jobs /\ processed \subseteq File /\ faults \in Nat
      /\ Kept(q, q)
    BY CommandsKeep DEF TypeInv, ClusterOK, StreamOK
<1>2. ASSUME NEW p \in Pod, PodStep(p) PROVE TypeInv'
  <2>1. CASE StartPod(p)
    <3>1. pods' = [pods EXCEPT ![p] = [phase |-> "claiming", work |-> 0, run |-> job.run]]
        BY <2>1 DEF StartPod
    <3>2. /\ pods' \in Pods
          /\ \A x \in Pod : x # p => pods'[x] = pods[x]
          /\ pods'[p].phase = "claiming" /\ pods'[p].work = 0
        BY <1>1, <3>1 DEF Pods, Phases, ActivePhases, PendingPhases, Jobs
    <3>3. UNCHANGED <<q, dlq, job, processed, Reconciler, history, faults>>
        BY <2>1 DEF StartPod
    <3>4. ClusterOK' /\ PodMarks'
        BY <1>1, <3>2, <3>3 DEF TypeInv, ClusterOK, PodMarks
    <3> QED
        BY <1>1, <3>3, <3>4, ClusterFrame
  <2>2. CASE Claim(p)
    <3>1. ClusterOK' /\ PodMarks'
        BY <2>2, PodClaims DEF Claim
    <3>2. Kept(q, q')
        BY <2>2, CommandsKeep DEF Claim, TypeInv, StreamOK, Consumers
    <3> QED
        BY <1>1, <2>2, <3>1, <3>2, ClusterFrame DEF Claim
  <2>3. CASE ClaimReplyLost(p)
    <3>1. Kept(q, q')
        BY <2>3, CommandsKeep DEF ClaimReplyLost, TypeInv, StreamOK, Consumers
    <3>2. ClusterOK' /\ PodMarks'
        BY <1>1, <2>3, <3>1 DEF ClaimReplyLost, cluster, ClusterOK, PodMarks, TypeInv, Kept
    <3>3. faults' \in Nat
        BY <1>1, <2>3 DEF ClaimReplyLost
    <3> QED
        BY <2>3, <3>1, <3>2, <3>3, ClusterFrame DEF ClaimReplyLost
  <2>4. CASE Succeed(p)
    <3>1. /\ pods[p].phase = "running"
          /\ pods' = [pods EXCEPT ![p].phase = "succeeded"]
          /\ processed' = processed \cup {q.log[pods[p].work].file}
          /\ UNCHANGED <<q, dlq, job, Reconciler, history, faults>>
        BY <2>4 DEF Succeed
    <3>2. pods[p].work \in DOMAIN q.log /\ pods[p].work # 0
        BY <3>1 DEF TypeInv, PodMarks
    <3>3. processed' \subseteq File
        BY <1>1, <3>1, <3>2, EntryFields DEF TypeInv, StreamOK
    <3>4. ClusterOK' /\ PodMarks'
        BY <1>1, <3>1, <3>2, <3>3, PhaseChanges DEF Phases
    <3> QED
        BY <1>1, <3>1, <3>4, ClusterFrame
  <2>5. ASSUME NEW phase \in Phases, Becomes(p, phase),
               phase \in {"starting", "running", "crashed", "succeeded"} =>
                   pods[p].work # 0
        PROVE  TypeInv'
    <3>1. /\ pods' = [pods EXCEPT ![p].phase = phase]
          /\ UNCHANGED <<q, dlq, job, processed, Reconciler, history, faults>>
        BY <2>5 DEF Becomes
    <3>2. ClusterOK' /\ PodMarks'
        BY <1>1, <2>5, <3>1, PhaseChanges
    <3> QED
        BY <1>1, <3>1, <3>2, ClusterFrame
  <2>6. CASE Start(p) \/ Recover(p) \/ Crash(p)
    <3>1. pods[p].phase \in {"starting", "running"} => pods[p].work # 0
        BY DEF TypeInv, PodMarks
    <3> QED
        BY <2>5, <2>6, <3>1
        DEF Start, Recover, Crash, Phases, ActivePhases, PendingPhases
  <2>7. CASE Fail(p) \/ Stick(p) \/ Evict(p)
      BY <2>5, <2>7 DEF Fail, Stick, Evict, Phases, ActivePhases, PendingPhases
  <2>8. CASE TerminatePod(p)
      BY <2>5, <2>8 DEF TerminatePod, Becomes, Phases
  <2> QED
      BY <1>2, <2>1, <2>2, <2>3, <2>4, <2>6, <2>7, <2>8 DEF PodStep
<1>3. ASSUME NEW state \in JobStates, JobBecomes(state) PROVE TypeInv'
  <2>1. /\ job' = [job EXCEPT !.state = state]
        /\ UNCHANGED <<q, dlq, pods, processed, Reconciler, history, faults>>
      BY <1>3 DEF JobBecomes
  <2>2. ClusterOK' /\ PodMarks'
      BY <1>1, <2>1 DEF Jobs, ClusterOK, PodMarks, TypeInv
  <2> QED
      BY <1>1, <2>1, <2>2, ClusterFrame
<1>4. CASE JobCompletes \/ JobGivesUp \/ JobFails
    BY <1>3, <1>4 DEF JobCompletes, JobGivesUp, JobFails, JobStates
<1>5. CASE JobExpires
  <2>1. /\ job' = [job EXCEPT !.state = "absent"]
        /\ pods' = [p \in Pod |-> IF OfJob(p) THEN [pods[p] EXCEPT !.phase = "gone"]
                                  ELSE pods[p]]
        /\ UNCHANGED <<q, dlq, processed, Reconciler, history, faults>>
      BY <1>5 DEF JobExpires
  <2>2. job' \in Jobs
      BY <1>1, <2>1 DEF Jobs, JobStates
  <2>3. /\ pods' \in Pods
        /\ \A x \in Pod : /\ pods'[x].work = pods[x].work
                          /\ pods'[x].phase \in {pods[x].phase, "gone"}
      BY <1>1, <2>1 DEF Pods, Phases
  <2>4. ClusterOK' /\ PodMarks'
      BY <1>1, <2>1, <2>2, <2>3 DEF ClusterOK, PodMarks, TypeInv
  <2> QED
      BY <1>1, <2>1, <2>4, ClusterFrame
<1> QED
    BY <1>2, <1>4, <1>5 DEF ClusterStep, JobStep

----------------------------------------------------------------------------
(* The frame of a pass.                                                    *)

\* The steps that need nothing of the message registers.
QuietSteps == Steps \ (HandlesMessage \cup HasBatch)

\* A step of the reconciler to one that handles no message.
LEMMA QuietFrame ==
    ASSUME TypeInv, Kept(q, q'), LettersOK', HistoryOK', faults' \in Nat,
           job' \in Jobs, UNCHANGED <<pods, processed>>,
           cr' \in Statuses, pi' \in Statuses, r' \in Registers,
           r'.batch \subseteq DOMAIN q.log, pc' \in QuietSteps
    PROVE  TypeInv'
<1>1. ReconcilerOK'
    BY DEF ReconcilerOK, QuietSteps
<1>2. PassMarks'
    BY DEF PassMarks, QuietSteps, HandlesMessage, HasBatch, Kept
<1> QED
    BY <1>1, <1>2, ReconcilerFrame

\* What every pass starts from.
LEMMA PassTypes ==
    ASSUME TypeInv
    PROVE  /\ Kept(q, q) /\ GoodStream(q, Consumers) /\ Length(q) \in Nat
           /\ dlq \in [File -> Seq(Nat)]
           /\ job \in Jobs /\ cr \in Statuses /\ pi \in Statuses /\ pc \in Steps
           /\ r \in Registers /\ r.batch \subseteq DOMAIN q.log
           /\ faults \in Nat
           /\ Blank \in Registers /\ Blank.batch = {}
    BY CommandsKeep, CountTypes
    DEF TypeInv, StreamOK, LettersOK, ClusterOK, ReconcilerOK, PassMarks, Blank, Registers

\* Such a step that writes nothing.
LEMMA NoEffectFrame ==
    ASSUME TypeInv, NoEffect, faults' \in Nat, pi' \in Statuses, r' \in Registers,
           r'.batch \subseteq DOMAIN q.log, pc' \in QuietSteps
    PROVE  TypeInv'
<1>1. Kept(q, q') /\ cr' \in Statuses
    BY PassTypes DEF NoEffect
<1>2. LettersOK' /\ HistoryOK' /\ job' \in Jobs /\ UNCHANGED <<pods, processed>>
    BY PassTypes DEF NoEffect, cluster, history, TypeInv, LettersOK, HistoryOK
<1> QED
    BY <1>1, <1>2, QuietFrame

\* The steps of reconcileBatch outside the messages and the flush.
LEMMA ReconcileKeepsTypes ==
    ASSUME TypeInv, ReconcileStep
    PROVE  TypeInv'
<1> USE DEF GoTo
<1>1. /\ Kept(q, q) /\ GoodStream(q, Consumers) /\ Length(q) \in Nat
      /\ job \in Jobs /\ cr \in Statuses /\ pi \in Statuses /\ pc \in Steps
      /\ r \in Registers /\ r.batch \subseteq DOMAIN q.log
      /\ faults \in Nat
      /\ Blank \in Registers /\ Blank.batch = {}
      /\ LettersOK /\ HistoryOK
    BY PassTypes DEF TypeInv
<1>2. {"idle", "inspect", "list", "enqueue", "recount", "saveStart", "ensureJob",
       "createJob", "listPods", "lag", "pending", "checkFailure", "checkCompletion",
       "save", "flush"} \subseteq QuietSteps
    BY DEF QuietSteps, Steps, FlushSteps, HandlesMessage, HasBatch
<1>3. CASE Begin
    BY <1>1, <1>2, <1>3, NoEffectFrame DEF Begin, NoEffect
<1>4. CASE Save
  <2>1. PICK out \in Writes : cr' = Takes(out, pi, cr) /\ Charge(out) /\ Finish
      BY <1>4 DEF Save
  <2>2. cr' \in Statuses /\ pi' = cr' /\ pc' = "idle" /\ r' = Blank /\ faults' \in Nat
      BY <1>1, <2>1, ChargeTypes DEF Takes, Finish
  <2>3. UNCHANGED <<q, dlq, cluster, history>>
      BY <1>4 DEF Save
  <2> QED
      BY <1>1, <1>2, <2>2, <2>3, QuietFrame DEF cluster, history, LettersOK, HistoryOK
<1>5. CASE SaveStart
  <2>1. PICK out \in Writes :
            /\ cr' = Takes(out, pi, cr) /\ Charge(out)
            /\ IF out = "ok" THEN GoTo("ensureJob") /\ r' = Blank /\ UNCHANGED pi ELSE Finish
      BY <1>5 DEF SaveStart
  <2>2. cr' \in Statuses /\ faults' \in Nat
      BY <1>1, <2>1, ChargeTypes DEF Takes
  <2>3. pi' \in Statuses /\ pc' \in {"ensureJob", "idle"} /\ r' = Blank
      BY <1>1, <2>1, <2>2 DEF Finish
  <2>4. UNCHANGED <<q, dlq, cluster, history>>
      BY <1>5 DEF SaveStart
  <2> QED
      BY <1>1, <1>2, <2>2, <2>3, <2>4, QuietFrame DEF cluster, history, LettersOK, HistoryOK
<1>6. GiveUp => pi' \in Statuses /\ pc' = "save"
    BY <1>1 DEF GiveUp, Statuses
<1>7. ASSUME NEW n \in Nat, Initialized(n) PROVE pi' \in Statuses /\ pc' = "saveStart"
    BY <1>1, <1>7 DEF Initialized, Statuses
<1>8. CASE Inspect
  <2>1. PICK out \in Reads :
            /\ Charge(out)
            /\ IF out # "ok" THEN GiveUp
               ELSE IF Length(q) = 0 THEN GoTo("list") /\ UNCHANGED pi
               ELSE Initialized(Length(q))
      BY <1>8 DEF Inspect
  <2>2. faults' \in Nat /\ pi' \in Statuses /\ pc' \in {"save", "list", "saveStart"}
      BY <1>1, <1>6, <1>7, <2>1, ChargeTypes
  <2> QED
      BY <1>1, <1>2, <1>8, <2>2, NoEffectFrame DEF Inspect
<1>9. CASE List
  <2>1. PICK out \in Reads, listing \in SUBSET File :
            /\ Charge(out)
            /\ r' = [r EXCEPT !.files = Takes(out, listing, {})]
            /\ \/ out # "ok" /\ GiveUp
               \/ out = "ok" /\ listing # {} /\ GoTo("enqueue") /\ UNCHANGED pi
               \/ /\ out = "ok" /\ listing = {}
                  /\ pi' = [pi EXCEPT !.started = TRUE, !.ended = TRUE, !.total = 0,
                                      !.degraded = TRUE, !.progressing = FALSE,
                                      !.succeeded = FALSE]
                  /\ GoTo("save")
            /\ listed' = Takes(out, listing, listed)
      BY <1>9 DEF List
  <2>2. faults' \in Nat
      BY <1>1, <2>1, ChargeTypes
  <2>3. pi' \in Statuses /\ pc' \in {"save", "enqueue"}
    <3>1. [pi EXCEPT !.started = TRUE, !.ended = TRUE, !.total = 0, !.degraded = TRUE,
                     !.progressing = FALSE, !.succeeded = FALSE] \in Statuses
        BY <1>1 DEF Statuses
    <3> QED
        BY <1>1, <1>6, <2>1, <3>1
  <2>4. r' \in Registers /\ r'.batch = r.batch
      BY <1>1, <2>1 DEF Registers, Takes
  <2>5. UNCHANGED <<q, dlq, cluster, cr, admitted, flushed>>
      BY <1>9 DEF List
  <2>6. HistoryOK'
      BY <1>1, <2>1, <2>5 DEF HistoryOK, Takes
  <2> QED
      BY <1>1, <1>2, <2>2, <2>3, <2>4, <2>5, <2>6, QuietFrame DEF cluster, LettersOK
<1>10. CASE Enqueue
  <2>1. PICK out \in Writes, f \in r.files :
            /\ Charge(out)
            /\ q' = Takes(out, XAdd(q, f, 0), q)
            /\ admitted' = Takes(out, admitted \cup {f}, admitted)
            /\ r' = [r EXCEPT !.files = @ \ {f}, !.sent = @ \/ out = "ok"]
            /\ GoTo(IF r.files = {f} THEN "recount" ELSE "enqueue")
      BY <1>10 DEF Enqueue
  <2>2. f \in File /\ faults' \in Nat /\ pc' \in {"recount", "enqueue"}
      BY <1>1, <2>1, ChargeTypes DEF Registers
  <2>3. Kept(q, q')
      BY <1>1, <2>1, <2>2, CommandsKeep, OutcomeKeeps
  <2>4. r' \in Registers /\ r'.batch = r.batch
      BY <1>1, <2>1 DEF Registers
  <2>5. UNCHANGED <<dlq, cluster, cr, pi, listed, flushed>>
      BY <1>10 DEF Enqueue
  <2>6. HistoryOK'
      BY <1>1, <2>1, <2>2, <2>5 DEF HistoryOK, Takes
  <2> QED
      BY <1>1, <1>2, <2>2, <2>3, <2>4, <2>5, <2>6, QuietFrame DEF cluster, LettersOK
<1>11. CASE Recount
  <2>1. PICK out \in Reads :
            /\ Charge(out)
            /\ IF out # "ok" \/ Length(q) = 0 \/ ~ r.sent THEN GiveUp
               ELSE Initialized(Length(q))
      BY <1>11 DEF Recount
  <2>2. faults' \in Nat /\ pi' \in Statuses /\ pc' \in {"save", "saveStart"}
      BY <1>1, <1>6, <1>7, <2>1, ChargeTypes
  <2> QED
      BY <1>1, <1>2, <1>11, <2>2, NoEffectFrame DEF Recount
<1>12. JobError => pi' \in Statuses /\ pc' = "save"
    BY <1>1 DEF JobError, Statuses
<1>13. CASE FindJob
  <2>1. PICK out \in Reads :
            /\ Charge(out)
            /\ \/ out # "ok" /\ JobError
               \/ out = "ok" /\ job.state # "absent" /\ GoTo("listPods") /\ UNCHANGED pi
               \/ out = "ok" /\ job.state = "absent" /\ GoTo("createJob") /\ UNCHANGED pi
      BY <1>13 DEF FindJob
  <2>2. faults' \in Nat /\ pi' \in Statuses /\ pc' \in {"save", "listPods", "createJob"}
      BY <1>1, <1>12, <2>1, ChargeTypes
  <2> QED
      BY <1>1, <1>2, <1>13, <2>2, NoEffectFrame DEF FindJob
<1>14. CASE CreateJob
  <2>1. PICK out \in Writes :
            /\ Charge(out)
            /\ job' = Takes(IF job.state = "absent" THEN out ELSE "refused",
                            [state |-> "active", run |-> job.run + 1,
                             completions |-> pi.total], job)
            /\ IF job.state = "absent" /\ out = "ok"
               THEN pi' = [pi EXCEPT !.jobName = TRUE] /\ GoTo("listPods")
               ELSE JobError
      BY <1>14 DEF CreateJob
  <2>2. faults' \in Nat
      BY <1>1, <2>1, ChargeTypes
  <2>3. pi' \in Statuses /\ pc' \in {"save", "listPods"}
      BY <1>1, <1>12, <2>1 DEF Statuses
  <2>4. job' \in Jobs
      BY <1>1, <2>1 DEF Jobs, JobStates, Takes, Statuses
  <2>5. UNCHANGED <<q, dlq, pods, processed, cr, r, history>>
      BY <1>14 DEF CreateJob
  <2> QED
      BY <1>1, <1>2, <2>2, <2>3, <2>4, <2>5, QuietFrame DEF history, LettersOK, HistoryOK
<1>15. CASE ReadLag
  <2>1. PICK out \in Reads, reply \in LagReplies(q) :
            /\ Charge(out)
            /\ r' = [r EXCEPT !.queued = IF out # "ok" \/ reply = LagUnknown THEN 0 ELSE reply]
            /\ GoTo("pending")
      BY <1>15 DEF ReadLag
  <2>2. faults' \in Nat
      BY <1>1, <2>1, ChargeTypes
  <2>3. reply \in Int
      BY <1>1, CountTypes DEF LagUnknown
  <2>4. r' \in Registers /\ r'.batch = r.batch
      BY <1>1, <2>1, <2>3 DEF Registers
  <2> QED
      BY <1>1, <1>2, <1>15, <2>1, <2>2, <2>4, NoEffectFrame DEF ReadLag
<1>16. CASE ReadPending
  <2>1. PICK out \in Reads :
            /\ Charge(out)
            /\ r' = [r EXCEPT !.running = IF out # "ok" THEN 0 ELSE Cardinality(Pending(q))]
            /\ GoTo("checkFailure")
      BY <1>16 DEF ReadPending
  <2>2. faults' \in Nat
      BY <1>1, <2>1, ChargeTypes
  <2>3. Cardinality(Pending(q)) \in Nat
      BY <1>1, CountTypes
  <2>4. r' \in Registers /\ r'.batch = r.batch
      BY <1>1, <2>1, <2>3 DEF Registers
  <2> QED
      BY <1>1, <1>2, <1>16, <2>1, <2>2, <2>4, NoEffectFrame DEF ReadPending
<1>17. CASE CheckFailure
  <2>1. faults' \in Nat /\ pc' \in {"flush", "checkCompletion"}
      BY <1>1, <1>17, ChargeTypes DEF CheckFailure
  <2> QED
      BY <1>1, <1>2, <1>17, <2>1, NoEffectFrame DEF CheckFailure
<1>18. CASE StillRunning
  <2>1. pi' \in Statuses /\ pc' = "save"
      BY <1>1, <1>18 DEF StillRunning, Statuses
  <2> QED
      BY <1>1, <1>2, <1>18, <2>1, NoEffectFrame DEF StillRunning
<1>19. CASE CheckCompletion
  <2>1. PICK out \in Reads :
            /\ Charge(out)
            /\ IF out # "ok" \/ job.state = "absent" THEN Finish
               ELSE /\ GoTo("save") /\ UNCHANGED r
                    /\ pi' = IF job.state = "complete"
                             THEN [pi EXCEPT !.succeeded = TRUE, !.progressing = FALSE,
                                             !.ended = TRUE]
                             ELSE [pi EXCEPT !.progressing = TRUE]
      BY <1>19 DEF CheckCompletion
  <2>2. UNCHANGED <<q, dlq, cluster, cr, history>>
      BY <1>19 DEF CheckCompletion
  <2>3. faults' \in Nat
      BY <1>1, <2>1, ChargeTypes
  <2>4. /\ pi' \in Statuses /\ pc' \in {"idle", "save"}
        /\ r' \in Registers /\ r'.batch \subseteq DOMAIN q.log
      BY <1>1, <2>1, <2>2 DEF Finish, Statuses
  <2> QED
      BY <1>2, <2>2, <2>3, <2>4, NoEffectFrame DEF NoEffect
<1>20. CASE Restart
  <2>1. /\ faults' = faults + 1 /\ pc' = "idle" /\ pi' = cr /\ r' = Blank
        /\ UNCHANGED <<q, dlq, cluster, cr, history>>
      BY <1>20 DEF Restart, Finish
  <2> QED
      BY <1>1, <1>2, <2>1, NoEffectFrame DEF NoEffect
<1> QED
    BY <1>3, <1>4, <1>5, <1>8, <1>9, <1>10, <1>11, <1>13, <1>14, <1>15, <1>16,
       <1>17, <1>18, <1>19, <1>20 DEF ReconcileStep

----------------------------------------------------------------------------
(* The messages of pods that have ended.                                   *)

\* A step of handleCompletedPods or runReclaimer.
LEMMA MessageFrame ==
    ASSUME TypeInv, Frame, UNCHANGED pods, Kept(q, q'), dlq' \in [File -> Seq(Nat)],
           faults' \in Nat, r' \in Registers, pc' \in Steps, PassMarks'
    PROVE  TypeInv'
<1>1. LettersOK' /\ ReconcilerOK' /\ HistoryOK' /\ job' \in Jobs
      /\ UNCHANGED <<pods, processed>>
    BY DEF Frame, history, TypeInv, LettersOK, ReconcilerOK, HistoryOK, ClusterOK
<1> QED
    BY <1>1, ReconcilerFrame

\* Writing a successor keeps the stream and the dead letter queue well formed.
LEMMA SuccessorTypes ==
    ASSUME TypeInv, NEW out, NEW m \in DOMAIN q.log, RetryOrBury(out, m)
    PROVE  Kept(q, q') /\ dlq' \in [File -> Seq(Nat)]
<1> DEFINE f == q.log[m].file
           n == q.log[m].attempts + 1
<1>1. GoodStream(q, Consumers) /\ Kept(q, q) /\ dlq \in [File -> Seq(Nat)]
    BY PassTypes
<1>2. f \in File /\ n \in Nat
    BY <1>1, EntryFields
<1>3. \/ q' = Takes(out, XAdd(q, f, n), q) /\ UNCHANGED dlq
      \/ dlq' = Takes(out, [dlq EXCEPT ![f] = Append(@, n)], dlq) /\ UNCHANGED q
    BY DEF RetryOrBury
<1> HIDE DEF f, n
<1>4. Kept(q, Takes(out, XAdd(q, f, n), q))
    BY <1>1, <1>2, CommandsKeep, OutcomeKeeps
<1>5. Takes(out, [dlq EXCEPT ![f] = Append(@, n)], dlq) \in [File -> Seq(Nat)]
  <2>1. Append(dlq[f], n) \in Seq(Nat)
      BY <1>1, <1>2
  <2> QED
      BY <1>1, <1>2, <2>1 DEF Takes
<1> QED
    BY <1>1, <1>3, <1>4, <1>5

\* Acknowledging a message keeps the stream well formed.
LEMMA AcknowledgeTypes ==
    ASSUME TypeInv, NEW out, r.msg \in DOMAIN q.log, Acknowledge(out)
    PROVE  Kept(q, q') /\ dlq' \in [File -> Seq(Nat)]
    BY PassTypes, CommandsKeep, OutcomeKeeps DEF Acknowledge

\* The registers when the next listed pod is taken up.
LEMMA NextPodTypes ==
    ASSUME TypeInv, Kept(q, q'), NEW todo \in SUBSET Seen, NextPod(todo)
    PROVE  r' \in Registers /\ pc' \in Steps /\ PassMarks'
<1>1. r' = [r EXCEPT !.todo = todo, !.at = {}, !.msg = 0]
    BY DEF NextPod
<1>2. r' \in Registers /\ r'.batch = r.batch
    BY <1>1, PassTypes DEF Registers
<1>3. pc' \in {"reclaim", "nextPod"}
    BY DEF NextPod, GoTo
<1> QED
    BY <1>2, <1>3, PassTypes DEF PassMarks, HandlesMessage, HasBatch, Steps, Kept

\* The registers when the next reclaimed message is taken up.
LEMMA NextReclaimedTypes ==
    ASSUME TypeInv, Kept(q, q'), NEW batch \in SUBSET DOMAIN q.log, NextReclaimed(batch)
    PROVE  r' \in Registers /\ pc' \in Steps /\ PassMarks'
<1>1. r' = [r EXCEPT !.batch = batch, !.msg = 0,
                     !.finished = IF batch = {} THEN {} ELSE @]
    BY DEF NextReclaimed
<1>2. batch \in SUBSET Nat
    BY PassTypes, Positions
<1>3. r' \in Registers /\ r'.batch = batch
    BY <1>1, <1>2, PassTypes DEF Registers
<1>4. pc' = IF batch = {} THEN "lag" ELSE "reclaimNext"
    BY DEF NextReclaimed, GoTo
<1> QED
    BY <1>3, <1>4, PassTypes DEF PassMarks, HandlesMessage, HasBatch, Steps, Kept

\* The message that is taken up is one of those that are left.
LEMMA LeastOfBatch ==
    ASSUME TypeInv, r.batch # {}
    PROVE  Least(r.batch) \in r.batch /\ Least(r.batch) \in DOMAIN q.log
           /\ Least(r.batch) \in Nat
<1>1. r.batch \subseteq DOMAIN q.log /\ r.batch \in SUBSET Nat
    BY PassTypes, Positions
<1> QED
    BY <1>1, LeastIsLeast

\* The steps of handleCompletedPods.
LEMMA PodMessagesKeepTypes ==
    ASSUME TypeInv,
           ListPods \/ FindMessage \/ AckHandled \/ Retire \/ AckRetired \/ DeletePod
    PROVE  TypeInv'
<1>1. /\ Kept(q, q) /\ GoodStream(q, Consumers) /\ dlq \in [File -> Seq(Nat)]
      /\ pc \in Steps /\ r \in Registers /\ r.batch \subseteq DOMAIN q.log
      /\ faults \in Nat
    BY PassTypes
<1>2. r.todo \in SUBSET Seen /\ r.at \in SUBSET Seen
    BY <1>1 DEF Registers
<1>3. CASE ListPods
  <2> DEFINE seen == {[pod |-> p, phase |-> pods[p].phase] :
                      p \in {p \in Pod : pods[p].phase \in HandledPhases}}
  <2>1. PICK out \in Reads : Charge(out) /\ NextPod(Takes(out, seen, {}))
      BY <1>3 DEF ListPods
  <2>2. UNCHANGED <<q, dlq, pods>> /\ Frame
      BY <1>3 DEF ListPods
  <2>3. Takes(out, seen, {}) \in SUBSET Seen
      BY DEF Takes, Seen
  <2> HIDE DEF seen
  <2>4. faults' \in Nat /\ Kept(q, q') /\ dlq' \in [File -> Seq(Nat)]
      BY <1>1, <2>1, <2>2, ChargeTypes
  <2> QED
      BY <2>1, <2>2, <2>3, <2>4, NextPodTypes, MessageFrame
<1>4. CASE FindMessage
  <2>1. PICK out \in Reads, s \in r.todo :
            /\ Charge(out)
            /\ IF out # "ok" \/ PendingFor(q, s.pod) = {} THEN NextPod(r.todo \ {s})
               ELSE /\ r' = [r EXCEPT !.todo = @ \ {s}, !.at = {s},
                                      !.msg = Least(PendingFor(q, s.pod))]
                    /\ GoTo(IF q.log[Least(PendingFor(q, s.pod))].deleted
                               \/ s.phase = "succeeded"
                            THEN "ack" ELSE "retire")
      BY <1>4 DEF FindMessage
  <2>2. UNCHANGED <<q, dlq, pods>> /\ Frame
      BY <1>4 DEF FindMessage
  <2>3. faults' \in Nat /\ Kept(q, q') /\ dlq' \in [File -> Seq(Nat)]
      BY <1>1, <2>1, <2>2, ChargeTypes
  <2> DEFINE m == Least(PendingFor(q, s.pod))
  <2>4. CASE out # "ok" \/ PendingFor(q, s.pod) = {}
      BY <1>2, <2>1, <2>2, <2>3, <2>4, NextPodTypes, MessageFrame
  <2>5. CASE ~ (out # "ok" \/ PendingFor(q, s.pod) = {})
    <3>1. PendingFor(q, s.pod) \in SUBSET DOMAIN q.log /\ PendingFor(q, s.pod) \in SUBSET Nat
        BY <1>1, Positions, ReadsArePositions
    <3>2. m \in DOMAIN q.log /\ m \in Nat
        BY <2>5, <3>1, LeastIsLeast
    <3>3. /\ r' = [r EXCEPT !.todo = @ \ {s}, !.at = {s}, !.msg = m]
          /\ pc' \in {"ack", "retire"}
        BY <2>1, <2>5 DEF GoTo
    <3> HIDE DEF m
    <3>4. r' \in Registers /\ r'.batch = r.batch /\ r'.msg = m
        BY <1>1, <1>2, <3>2, <3>3 DEF Registers
    <3>5. PassMarks' /\ pc' \in Steps
        BY <1>1, <2>2, <3>2, <3>3, <3>4 DEF PassMarks, HandlesMessage, HasBatch, Steps
    <3> QED
        BY <2>2, <2>3, <3>4, <3>5, MessageFrame
  <2> QED
      BY <2>4, <2>5
<1>5. CASE AckHandled
  <2>1. PICK out \in Writes : Charge(out) /\ Acknowledge(out)
      BY <1>5 DEF AckHandled
  <2>2. r.msg \in DOMAIN q.log
      BY <1>5 DEF AckHandled, TypeInv, PassMarks, HandlesMessage, HasBatch
  <2>3. Kept(q, q') /\ dlq' \in [File -> Seq(Nat)] /\ faults' \in Nat
      BY <1>1, <2>1, <2>2, AcknowledgeTypes, ChargeTypes
  <2> QED
      BY <1>2, <1>5, <2>3, NextPodTypes, MessageFrame DEF AckHandled
<1>6. CASE Retire
  <2>1. PICK out \in Writes :
            /\ Charge(out)
            /\ RetryOrBury(out, r.msg)
            /\ IF out = "ok" THEN GoTo("ackRetired") /\ UNCHANGED r ELSE NextPod(r.todo)
      BY <1>6 DEF Retire
  <2>2. r.msg \in DOMAIN q.log /\ UNCHANGED pods /\ Frame
      BY <1>6 DEF Retire, TypeInv, PassMarks, HandlesMessage, HasBatch
  <2>3. Kept(q, q') /\ dlq' \in [File -> Seq(Nat)] /\ faults' \in Nat
      BY <1>1, <2>1, <2>2, SuccessorTypes, ChargeTypes
  <2>4. r' \in Registers /\ pc' \in Steps /\ PassMarks'
    <3>1. CASE pc' = "ackRetired" /\ r' = r
        BY <1>1, <2>2, <2>3, <3>1 DEF PassMarks, HandlesMessage, HasBatch, Steps, Kept
    <3> QED
        BY <1>2, <2>1, <2>3, <3>1, NextPodTypes DEF GoTo
  <2> QED
      BY <2>2, <2>3, <2>4, MessageFrame
<1>7. CASE AckRetired
  <2>1. PICK out \in Writes :
            /\ Charge(out)
            /\ Acknowledge(out)
            /\ IF out = "ok" /\ \E s \in r.at : s.phase \in {"stuck", "crashed"}
               THEN GoTo("deletePod") /\ UNCHANGED r ELSE NextPod(r.todo)
      BY <1>7 DEF AckRetired
  <2>2. r.msg \in DOMAIN q.log /\ UNCHANGED pods /\ Frame
      BY <1>7 DEF AckRetired, TypeInv, PassMarks, HandlesMessage, HasBatch
  <2>3. Kept(q, q') /\ dlq' \in [File -> Seq(Nat)] /\ faults' \in Nat
      BY <1>1, <2>1, <2>2, AcknowledgeTypes, ChargeTypes
  <2>4. r' \in Registers /\ pc' \in Steps /\ PassMarks'
    <3>1. CASE pc' = "deletePod" /\ r' = r
        BY <1>1, <2>3, <3>1 DEF PassMarks, HandlesMessage, HasBatch, Steps, Kept
    <3> QED
        BY <1>2, <2>1, <2>3, <3>1, NextPodTypes DEF GoTo
  <2> QED
      BY <2>2, <2>3, <2>4, MessageFrame
<1>8. CASE DeletePod
  <2>1. PICK out \in Writes, s \in r.at :
            /\ Charge(out)
            /\ pods' = Takes(out, [pods EXCEPT ![s.pod].phase =
                                   IF @ \in ActivePhases THEN "gone" ELSE @], pods)
      BY <1>8 DEF DeletePod
  <2>2. NextPod(r.todo) /\ UNCHANGED <<q, dlq>> /\ Frame
      BY <1>8 DEF DeletePod
  <2>3. faults' \in Nat /\ Kept(q, q') /\ LettersOK'
      BY <1>1, <2>1, <2>2, ChargeTypes DEF LettersOK
  <2>4. r' \in Registers /\ pc' \in Steps /\ PassMarks'
      BY <1>2, <2>2, <2>3, NextPodTypes
  <2>5. ReconcilerOK' /\ HistoryOK'
      BY <2>2, <2>4 DEF TypeInv, ReconcilerOK, HistoryOK, Frame, history
  <2>6. s.pod \in Pod /\ pods \in Pods
      BY <1>2 DEF Seen, TypeInv, ClusterOK
  <2>7. /\ pods' \in Pods
        /\ \A x \in Pod : /\ pods'[x].work = pods[x].work
                          /\ pods'[x].phase \in {pods[x].phase, "gone"}
      BY <2>1, <2>6 DEF Pods, Phases, Takes
  <2>8. ClusterOK' /\ PodMarks'
      BY <2>2, <2>7 DEF ClusterOK, PodMarks, TypeInv, Frame
  <2> QED
      BY <2>2, <2>3, <2>4, <2>5, <2>8 DEF TypeInv, StreamOK, Kept
<1> QED
    BY <1>3, <1>4, <1>5, <1>6, <1>7, <1>8

\* The steps of runReclaimer.
LEMMA ReclaimKeepsTypes ==
    ASSUME TypeInv,
           \/ FindStale \/ ListOwners \/ ClaimStale
           \/ AckFinished \/ RetireStale \/ AckStale \/ DeleteStale
    PROVE  TypeInv'
<1>1. /\ Kept(q, q) /\ GoodStream(q, Consumers) /\ dlq \in [File -> Seq(Nat)]
      /\ pc \in Steps /\ r \in Registers /\ r.batch \in SUBSET DOMAIN q.log
      /\ faults \in Nat
    BY PassTypes
<1>2. \A ids \in SUBSET DOMAIN q.log : ids \in SUBSET Nat
    BY <1>1, Positions
<1>3. ASSUME NEW ids \in SUBSET DOMAIN q.log, Kept(q, q'),
             r' = [r EXCEPT !.batch = ids],
             pc' \in {"reclaimPods", "xclaim"}
      PROVE  r' \in Registers /\ pc' \in Steps /\ PassMarks'
  <2>1. r' \in Registers /\ r'.batch = ids
      BY <1>1, <1>2, <1>3 DEF Registers
  <2> QED
      BY <1>3, <2>1 DEF PassMarks, HandlesMessage, HasBatch, Steps, Kept
<1>4. CASE FindStale
  <2>1. PICK out \in Reads, ids \in SUBSET Pending(q) :
            /\ Charge(out)
            /\ IF out # "ok" \/ ids = {} THEN NextReclaimed({})
               ELSE r' = [r EXCEPT !.batch = ids] /\ GoTo("reclaimPods")
      BY <1>4 DEF FindStale
  <2>2. UNCHANGED <<q, dlq, pods>> /\ Frame
      BY <1>4 DEF FindStale
  <2>3. faults' \in Nat /\ Kept(q, q') /\ dlq' \in [File -> Seq(Nat)]
      BY <1>1, <2>1, <2>2, ChargeTypes
  <2>4. ids \in SUBSET DOMAIN q.log /\ {} \in SUBSET DOMAIN q.log
      BY <1>1, ReadsArePositions
  <2>5. r' \in Registers /\ pc' \in Steps /\ PassMarks'
      BY <1>3, <2>1, <2>3, <2>4, NextReclaimedTypes DEF GoTo
  <2> QED
      BY <2>2, <2>3, <2>5, MessageFrame
<1>5. CASE ListOwners
  <2> DEFINE ids == r.batch \ Owned(r.batch, Alive)
  <2>1. PICK out \in Reads :
            /\ Charge(out)
            /\ IF out # "ok" \/ ids = {} THEN NextReclaimed({})
               ELSE /\ r' = [r EXCEPT !.batch = ids, !.finished = Owned(ids, Finished)]
                    /\ GoTo("xclaim")
      BY <1>5 DEF ListOwners
  <2>2. UNCHANGED <<q, dlq, pods>> /\ Frame
      BY <1>5 DEF ListOwners
  <2>3. faults' \in Nat /\ Kept(q, q') /\ dlq' \in [File -> Seq(Nat)]
      BY <1>1, <2>1, <2>2, ChargeTypes
  <2>4. ids \in SUBSET DOMAIN q.log /\ {} \in SUBSET DOMAIN q.log
      BY <1>1
  <2> HIDE DEF ids
  <2>5. Owned(ids, Finished) \in SUBSET Nat /\ ids \in SUBSET Nat
      BY <1>2, <2>4 DEF Owned
  <2>6. CASE r' = [r EXCEPT !.batch = ids, !.finished = Owned(ids, Finished)]
             /\ pc' = "xclaim"
    <3>1. r' \in Registers /\ r'.batch = ids
        BY <1>1, <2>5, <2>6 DEF Registers
    <3>2. PassMarks' /\ pc' \in Steps
        BY <2>3, <2>4, <2>6, <3>1 DEF PassMarks, HandlesMessage, HasBatch, Steps, Kept
    <3> QED
        BY <2>2, <2>3, <3>1, <3>2, MessageFrame
  <2>7. CASE NextReclaimed({})
      BY <2>2, <2>3, <2>4, <2>7, NextReclaimedTypes, MessageFrame
  <2> QED
      BY <2>1, <2>6, <2>7 DEF GoTo
<1>6. CASE ClaimStale
  <2>1. PICK out \in Writes :
            /\ Charge(out)
            /\ q' = Takes(out, XClaim(q, r.batch, Reclaimer), q)
            /\ NextReclaimed(IF out = "ok" THEN Claimable(q, r.batch) ELSE {})
      BY <1>6 DEF ClaimStale
  <2>2. UNCHANGED <<dlq, pods>> /\ Frame
      BY <1>6 DEF ClaimStale
  <2>3. faults' \in Nat /\ dlq' \in [File -> Seq(Nat)]
      BY <1>1, <2>1, <2>2, ChargeTypes
  <2>4. Kept(q, q')
      BY <1>1, <2>1, CommandsKeep, OutcomeKeeps DEF Consumers
  <2>5. (IF out = "ok" THEN Claimable(q, r.batch) ELSE {}) \in SUBSET DOMAIN q.log
      BY <1>1, ReadsArePositions
  <2> QED
      BY <2>1, <2>2, <2>3, <2>4, <2>5, NextReclaimedTypes, MessageFrame
<1> DEFINE m == Least(r.batch)
<1>7. ASSUME NEW i, r.batch \ {i} \in SUBSET DOMAIN q.log, Kept(q, q'),
             NextReclaimed(r.batch \ {i})
      PROVE  r' \in Registers /\ pc' \in Steps /\ PassMarks'
    BY <1>7, NextReclaimedTypes
<1>8. ASSUME NEW i \in Nat, i \in DOMAIN q.log, Kept(q, q'),
             r' = [r EXCEPT !.msg = i], pc' \in {"reclaimAck", "reclaimDel"}
      PROVE  r' \in Registers /\ pc' \in Steps /\ PassMarks'
  <2>1. r' \in Registers /\ r'.batch = r.batch /\ r'.msg = i
      BY <1>1, <1>8 DEF Registers
  <2> QED
      BY <1>1, <1>8, <2>1 DEF PassMarks, HandlesMessage, HasBatch, Steps, Kept
<1>9. pc = "reclaimNext" => m \in DOMAIN q.log /\ m \in Nat
    BY LeastOfBatch DEF TypeInv, PassMarks, HasBatch
<1>10. CASE AckFinished
  <2>1. PICK out \in Writes :
            /\ Charge(out)
            /\ q' = Takes(out, XAck(q, m), q)
            /\ IF out = "ok" THEN r' = [r EXCEPT !.msg = m] /\ GoTo("reclaimDel")
               ELSE NextReclaimed(r.batch \ {m})
      BY <1>10 DEF AckFinished
  <2>2. pc = "reclaimNext" /\ UNCHANGED <<dlq, pods>> /\ Frame
      BY <1>10 DEF AckFinished
  <2>3. faults' \in Nat /\ dlq' \in [File -> Seq(Nat)]
      BY <1>1, <2>1, <2>2, ChargeTypes
  <2>4. Kept(q, q')
      BY <1>1, <1>9, <2>1, <2>2, CommandsKeep, OutcomeKeeps
  <2> HIDE DEF m
  <2>5. r' \in Registers /\ pc' \in Steps /\ PassMarks'
      BY <1>1, <1>7, <1>8, <1>9, <2>1, <2>2, <2>4 DEF GoTo
  <2> QED
      BY <2>2, <2>3, <2>4, <2>5, MessageFrame
<1>11. CASE RetireStale
  <2>1. PICK out \in Writes :
            /\ Charge(out)
            /\ RetryOrBury(out, m)
            /\ IF out = "ok" THEN r' = [r EXCEPT !.msg = m] /\ GoTo("reclaimAck")
               ELSE NextReclaimed(r.batch \ {m})
      BY <1>11 DEF RetireStale
  <2>2. pc = "reclaimNext" /\ UNCHANGED pods /\ Frame
      BY <1>11 DEF RetireStale
  <2> HIDE DEF m
  <2>3. Kept(q, q') /\ dlq' \in [File -> Seq(Nat)] /\ faults' \in Nat
      BY <1>1, <1>9, <2>1, <2>2, SuccessorTypes, ChargeTypes
  <2>4. r' \in Registers /\ pc' \in Steps /\ PassMarks'
      BY <1>1, <1>7, <1>8, <1>9, <2>1, <2>2, <2>3 DEF GoTo
  <2> QED
      BY <2>2, <2>3, <2>4, MessageFrame
<1>12. CASE AckStale
  <2>1. PICK out \in Writes :
            /\ Charge(out)
            /\ Acknowledge(out)
            /\ IF out = "ok" THEN GoTo("reclaimDel") /\ UNCHANGED r
               ELSE NextReclaimed(r.batch \ {r.msg})
      BY <1>12 DEF AckStale
  <2>2. r.msg \in DOMAIN q.log /\ UNCHANGED pods /\ Frame
      BY <1>12 DEF AckStale, TypeInv, PassMarks, HandlesMessage, HasBatch
  <2>3. Kept(q, q') /\ dlq' \in [File -> Seq(Nat)] /\ faults' \in Nat
      BY <1>1, <2>1, <2>2, AcknowledgeTypes, ChargeTypes
  <2>4. r' \in Registers /\ pc' \in Steps /\ PassMarks'
    <3>1. CASE pc' = "reclaimDel" /\ r' = r
        BY <1>1, <2>2, <2>3, <3>1 DEF PassMarks, HandlesMessage, HasBatch, Steps, Kept
    <3> QED
        BY <1>1, <1>7, <2>1, <2>3, <3>1 DEF GoTo
  <2> QED
      BY <2>2, <2>3, <2>4, MessageFrame
<1>13. CASE DeleteStale
  <2>1. PICK out \in Writes : Charge(out) /\ q' = Takes(out, XDel(q, {r.msg}), q)
      BY <1>13 DEF DeleteStale
  <2>2. NextReclaimed(r.batch \ {r.msg}) /\ UNCHANGED <<dlq, pods>> /\ Frame
      BY <1>13 DEF DeleteStale
  <2>3. Kept(q, q') /\ dlq' \in [File -> Seq(Nat)] /\ faults' \in Nat
      BY <1>1, <2>1, <2>2, CommandsKeep, OutcomeKeeps, ChargeTypes
  <2> QED
      BY <1>1, <1>7, <2>2, <2>3, MessageFrame
<1> QED
    BY <1>4, <1>5, <1>6, <1>10, <1>11, <1>12, <1>13

----------------------------------------------------------------------------
(* The flush.                                                              *)

\* A step of flushOutstandingWork.
LEMMA FlushFrame ==
    ASSUME TypeInv, Outside, Kept(q, q'), dlq' \in [File -> Seq(Nat)],
           faults' \in Nat, pi' \in Statuses, flushed' \in BOOLEAN,
           r' \in Registers, pc' \in Steps, PassMarks'
    PROVE  TypeInv'
<1>1. LettersOK' /\ ReconcilerOK' /\ HistoryOK' /\ job' \in Jobs
      /\ UNCHANGED <<pods, processed>>
    BY DEF Outside, cluster, TypeInv, LettersOK, ReconcilerOK, HistoryOK, ClusterOK
<1> QED
    BY <1>1, ReconcilerFrame

\* The marks at a step that handles no single message.
LEMMA FlushMarks ==
    ASSUME TypeInv, Kept(q, q'), r'.batch \subseteq DOMAIN q.log,
           \/ pc' \in {"flushClaim", "flushRest", "flushDelRest", "flushWrite",
                       "flushAdd", "save"}
           \/ pc' = "flushAck" /\ r'.batch # {}
    PROVE  PassMarks' /\ pc' \in Steps
    BY DEF PassMarks, HandlesMessage, HasBatch, Steps, FlushSteps, Kept

\* The attempts remembered of a file are a number.
LEMMA RememberType ==
    ASSUME TypeInv, NEW held \in [File -> Nat], NEW ids \in SUBSET DOMAIN q.log
    PROVE  Remember(held, ids) \in [File -> Nat]
<1> DEFINE tries(f) == {q.log[i].attempts : i \in {i \in ids : q.log[i].file = f}}
                       \cup {held[f]}
<1>1. GoodStream(q, Consumers)
    BY PassTypes
<1>2. ASSUME NEW f \in File PROVE Greatest(tries(f)) \in Nat
  <2> DEFINE S == {i \in ids : q.log[i].file = f}
             g == [i \in S |-> q.log[i].attempts]
  <2>1. S \in SUBSET DOMAIN q.log
      OBVIOUS
  <2>2. IsFiniteSet(S)
      BY <1>1, <2>1, Positions
  <2>3. g \in [S -> Nat]
      BY <1>1, <2>1, EntryFields
  <2>4. tries(f) = {g[i] : i \in S} \cup {held[f]}
      OBVIOUS
  <2>5. held[f] \in Nat
      OBVIOUS
  <2> HIDE DEF S, g, tries
  <2> QED
      BY <2>2, <2>3, <2>4, <2>5, GreatestOfImage
<1> QED
    BY <1>2 DEF Remember

\* The attempts recorded of a file are a number.
LEMMA RecordedType ==
    ASSUME TypeInv, NEW f \in File
    PROVE  Recorded(f) \in Nat
<1>1. dlq[f] \in Seq(Nat)
    BY PassTypes
<1> DEFINE S == DOMAIN dlq[f]
<1>2. S = 1 .. Len(dlq[f]) /\ Len(dlq[f]) \in Nat
    BY <1>1, LenProperties
<1>3. IsFiniteSet(S)
    BY <1>2, FS_Interval
<1>4. dlq[f] \in [S -> Nat]
    BY <1>1
<1> HIDE DEF S
<1> DEFINE T == {dlq[f][k] : k \in S} \cup {0}
<1>5. Recorded(f) = Greatest(T)
    BY DEF Recorded, S
<1>6. T = {dlq[f][k] : k \in S} \cup {0}
    OBVIOUS
<1> HIDE DEF T
<1> QED
    BY <1>3, <1>4, <1>5, <1>6, GreatestOfImage

\* Writing one record, or none.
LEMMA LetterTypes ==
    ASSUME TypeInv, NEW out, NEW f \in File, NEW n \in Nat
    PROVE  /\ Takes(out, [dlq EXCEPT ![f] = Append(@, n)], dlq) \in [File -> Seq(Nat)]
           /\ Takes(out, [dlq EXCEPT ![f] = << >>], dlq) \in [File -> Seq(Nat)]
<1>1. dlq \in [File -> Seq(Nat)] /\ Append(dlq[f], n) \in Seq(Nat) /\ << >> \in Seq(Nat)
    BY PassTypes
<1> QED
    BY <1>1 DEF Takes

\* The steps of flushOutstandingWork.
LEMMA FlushKeepsTypes ==
    ASSUME TypeInv, FlushStep
    PROVE  TypeInv'
<1> USE DEF GoTo
<1>1. /\ Kept(q, q) /\ GoodStream(q, Consumers) /\ dlq \in [File -> Seq(Nat)]
      /\ pi \in Statuses /\ r \in Registers /\ r.batch \in SUBSET DOMAIN q.log
      /\ faults \in Nat /\ flushed \in BOOLEAN
      /\ Blank \in Registers /\ Blank.batch = {}
    BY PassTypes DEF TypeInv, HistoryOK
<1>2. \A ids \in SUBSET DOMAIN q.log : ids \in SUBSET Nat
    BY <1>1, Positions
<1>3. r.held \in [File -> Nat] /\ r.known \in SUBSET File /\ r.files \in SUBSET File
    BY <1>1 DEF Registers
<1>4. ASSUME FlushEnds
      PROVE  pi' \in Statuses /\ r' = Blank /\ pc' = "save"
    BY <1>1, <1>4 DEF FlushEnds, Statuses
<1>5. CASE FlushBegins
  <2> DEFINE held == [f \in File |-> Recorded(f)]
             known == {f \in File : dlq[f] # << >>}
  <2>1. PICK out \in Reads :
            /\ Charge(out)
            /\ r' = IF out = "ok" THEN [r EXCEPT !.held = held, !.known = known] ELSE r
      BY <1>5 DEF FlushBegins
  <2>2. /\ flushed' = TRUE /\ pc' = "flushClaim"
        /\ UNCHANGED <<q, dlq, pi>> /\ Outside
      BY <1>5 DEF FlushBegins
  <2>3. held \in [File -> Nat] /\ known \in SUBSET File
      BY RecordedType
  <2> HIDE DEF held, known
  <2>4. faults' \in Nat
      BY <1>1, <2>1, ChargeTypes
  <2>5. r' \in Registers /\ r'.batch = r.batch
      BY <1>1, <2>1, <2>3 DEF Registers
  <2> QED
      BY <1>1, <2>2, <2>4, <2>5, FlushMarks, FlushFrame
<1>6. CASE FlushClaim
  <2> DEFINE ids == Claimable(q, Pending(q))
  <2>1. PICK out \in Writes :
            /\ Charge(out)
            /\ q' = Takes(out, XClaim(q, Pending(q), Flusher), q)
            /\ IF out # "ok" \/ ids = {} THEN GoTo("flushRest") /\ UNCHANGED r
               ELSE GoTo("flushAck") /\ r' = [r EXCEPT !.batch = ids]
      BY <1>6 DEF FlushClaim
  <2>2. UNCHANGED <<dlq, pi, flushed>> /\ Outside
      BY <1>6 DEF FlushClaim
  <2>3. faults' \in Nat
      BY <1>1, <2>1, ChargeTypes
  <2>4. Kept(q, q')
      BY <1>1, <2>1, CommandsKeep, OutcomeKeeps DEF Consumers
  <2>5. ids \in SUBSET DOMAIN q.log
      BY <1>1, ReadsArePositions
  <2> HIDE DEF ids
  <2>6. /\ r' \in Registers /\ r'.batch \in SUBSET DOMAIN q.log
        /\ pc' = "flushRest" \/ (pc' = "flushAck" /\ r'.batch # {})
    <3>1. ids \in SUBSET Nat
        BY <1>2, <2>5
    <3>2. CASE pc' = "flushRest" /\ r' = r
      <4>1. r \in Registers /\ r.batch \in SUBSET DOMAIN q.log
          BY <1>1
      <4> QED
          BY <3>2, <4>1
    <3>3. CASE pc' = "flushAck" /\ ids # {} /\ r' = [r EXCEPT !.batch = ids]
      <4>1. r' \in Registers /\ r'.batch = ids
          BY <1>1, <3>1, <3>3 DEF Registers
      <4> QED
          BY <2>5, <3>3, <4>1
    <3> QED
        BY <2>1, <3>2, <3>3
  <2> QED
      BY <1>1, <2>2, <2>3, <2>4, <2>6, FlushMarks, FlushFrame
<1>7. CASE FlushAck
  <2> DEFINE m == Least(r.batch)
  <2>1. PICK out \in Writes :
            /\ Charge(out)
            /\ r' = [r EXCEPT !.held = Remember(@, {m}), !.msg = m]
            /\ q' = Takes(out, XAck(q, m), q)
            /\ pc' = "flushDel"
      BY <1>7 DEF FlushAck
  <2>2. pc = "flushAck" /\ UNCHANGED <<dlq, pi, flushed>> /\ Outside
      BY <1>7 DEF FlushAck
  <2>3. m \in DOMAIN q.log /\ m \in Nat /\ r.batch # {}
      BY <2>2, LeastOfBatch DEF TypeInv, PassMarks, HasBatch
  <2> HIDE DEF m
  <2>4. faults' \in Nat
      BY <1>1, <2>1, ChargeTypes
  <2>5. Kept(q, q')
      BY <1>1, <2>1, <2>3, CommandsKeep, OutcomeKeeps
  <2>6. Remember(r.held, {m}) \in [File -> Nat]
      BY <1>3, <2>3, RememberType
  <2>7. r' \in Registers /\ r'.batch = r.batch /\ r'.msg = m
      BY <1>1, <2>1, <2>3, <2>6 DEF Registers
  <2>8. PassMarks' /\ pc' \in Steps
      BY <1>1, <2>1, <2>3, <2>5, <2>7 DEF PassMarks, HandlesMessage, HasBatch, Steps, FlushSteps, Kept
  <2> QED
      BY <1>1, <2>2, <2>4, <2>5, <2>7, <2>8, FlushFrame
<1>8. CASE FlushDel
  <2>1. PICK out \in Writes : Charge(out) /\ q' = Takes(out, XDel(q, {r.msg}), q)
      BY <1>8 DEF FlushDel
  <2>2. /\ r' = [r EXCEPT !.batch = @ \ {r.msg}, !.msg = 0]
        /\ pc' = IF r.batch = {r.msg} THEN "flushClaim" ELSE "flushAck"
        /\ UNCHANGED <<dlq, pi, flushed>> /\ Outside
      BY <1>8 DEF FlushDel
  <2>3. faults' \in Nat /\ Kept(q, q')
      BY <1>1, <2>1, CommandsKeep, OutcomeKeeps, ChargeTypes
  <2>4. r' \in Registers /\ r'.batch = r.batch \ {r.msg}
      BY <1>1, <2>2 DEF Registers
  <2>5. CASE r.batch = {r.msg}
    <3>1. PassMarks' /\ pc' \in Steps
        BY <1>1, <2>2, <2>3, <2>4, <2>5, FlushMarks
    <3> QED
        BY <1>1, <2>2, <2>3, <2>4, <3>1, FlushFrame
  <2>6. CASE r.batch # {r.msg}
    <3>1. r.batch # {}
        BY <1>8 DEF FlushDel, TypeInv, PassMarks, HasBatch
    <3>2. pc' = "flushAck" /\ r'.batch # {}
        BY <2>2, <2>4, <2>6, <3>1
    <3>3. PassMarks' /\ pc' \in Steps
        BY <1>1, <2>3, <2>4, <3>2, FlushMarks
    <3> QED
        BY <1>1, <2>2, <2>3, <2>4, <3>3, FlushFrame
  <2> QED
      BY <2>5, <2>6
<1>9. Present(q) \in SUBSET DOMAIN q.log
    BY <1>1, ReadsArePositions
<1>10. CASE FlushRest
  <2>1. PICK out \in Reads :
            /\ Charge(out)
            /\ \/ out # "ok" /\ FlushEnds
               \/ /\ out = "ok" /\ Present(q) = {}
                  /\ GoTo("flushWrite") /\ UNCHANGED <<r, pi>>
               \/ /\ out = "ok" /\ Present(q) # {}
                  /\ r' = [r EXCEPT !.held = Remember(@, Present(q)), !.batch = Present(q)]
                  /\ GoTo("flushDelRest") /\ UNCHANGED pi
      BY <1>10 DEF FlushRest
  <2>2. UNCHANGED <<q, dlq, flushed>> /\ Outside
      BY <1>10 DEF FlushRest
  <2>3. faults' \in Nat /\ Kept(q, q')
      BY <1>1, <2>1, <2>2, ChargeTypes
  <2>4. CASE FlushEnds
      BY <1>1, <1>4, <2>2, <2>3, <2>4, FlushMarks, FlushFrame
  <2>5. CASE GoTo("flushWrite") /\ UNCHANGED <<r, pi>>
      BY <1>1, <2>2, <2>3, <2>5, FlushMarks, FlushFrame
  <2>6. CASE /\ r' = [r EXCEPT !.held = Remember(@, Present(q)), !.batch = Present(q)]
             /\ GoTo("flushDelRest") /\ UNCHANGED pi
    <3>1. Remember(r.held, Present(q)) \in [File -> Nat]
        BY <1>3, <1>9, RememberType
    <3>2. r' \in Registers /\ r'.batch = Present(q)
        BY <1>1, <1>2, <1>9, <2>6, <3>1 DEF Registers
    <3> QED
        BY <1>1, <1>9, <2>2, <2>3, <2>6, <3>2, FlushMarks, FlushFrame
  <2> QED
      BY <2>1, <2>4, <2>5, <2>6
<1>11. CASE FlushDelRest
  <2>1. PICK out \in Writes :
            /\ Charge(out)
            /\ q' = Takes(out, XDel(q, r.batch), q)
            /\ pc' = IF out = "ok" THEN "flushRest" ELSE "flushWrite"
      BY <1>11 DEF FlushDelRest
  <2>2. /\ r' = [r EXCEPT !.batch = {}]
        /\ UNCHANGED <<dlq, pi, flushed>> /\ Outside
      BY <1>11 DEF FlushDelRest
  <2>3. faults' \in Nat /\ Kept(q, q')
      BY <1>1, <2>1, CommandsKeep, OutcomeKeeps, ChargeTypes
  <2>4. r' \in Registers /\ r'.batch = {}
      BY <1>1, <2>2 DEF Registers
  <2> QED
      BY <1>1, <2>1, <2>2, <2>3, <2>4, FlushMarks, FlushFrame
<1>12. CASE FlushDone
  <2>1. FlushEnds /\ UNCHANGED <<q, dlq, faults, flushed>> /\ Outside
      BY <1>12 DEF FlushDone
  <2> QED
      BY <1>1, <1>4, <2>1, FlushMarks, FlushFrame
<1>13. CASE FlushReplace
  <2>1. PICK out \in Writes, f \in r.known :
            /\ Charge(out)
            /\ dlq' = Takes(out, [dlq EXCEPT ![f] = << >>], dlq)
            /\ IF out = "ok"
               THEN r' = [r EXCEPT !.known = @ \ {f}, !.files = {f}] /\ GoTo("flushAdd")
               ELSE r' = [r EXCEPT !.known = @ \ {f}, !.held[f] = 0] /\ UNCHANGED pc
      BY <1>13 DEF FlushReplace
  <2>2. pc = "flushWrite" /\ UNCHANGED <<q, pi, flushed>> /\ Outside
      BY <1>13 DEF FlushReplace
  <2>3. f \in File /\ faults' \in Nat
      BY <1>1, <1>3, <2>1, ChargeTypes
  <2>4. dlq' \in [File -> Seq(Nat)]
      BY <2>1, <2>3, LetterTypes
  <2>5. [r EXCEPT !.known = @ \ {f}, !.files = {f}] \in Registers
        /\ [r EXCEPT !.known = @ \ {f}, !.files = {f}].batch = r.batch
      BY <1>1, <2>3 DEF Registers
  <2>6. [r EXCEPT !.known = @ \ {f}, !.held[f] = 0] \in Registers
        /\ [r EXCEPT !.known = @ \ {f}, !.held[f] = 0].batch = r.batch
      BY <1>1, <1>3, <2>3 DEF Registers
  <2>7. r' \in Registers /\ r'.batch = r.batch /\ pc' \in {"flushAdd", "flushWrite"}
      BY <2>1, <2>2, <2>5, <2>6
  <2> QED
      BY <1>1, <2>2, <2>3, <2>4, <2>7, FlushMarks, FlushFrame
<1>14. CASE FlushAdd
  <2>1. PICK out \in Writes,
              f \in IF pc = "flushAdd" THEN r.files
                    ELSE {f \in File \ r.known : r.held[f] > 0} :
            /\ Charge(out)
            /\ dlq' = Takes(out, [dlq EXCEPT ![f] = Append(@,
                          IF r.held[f] < MaxAttempts THEN MaxAttempts ELSE r.held[f])], dlq)
            /\ r' = [r EXCEPT !.held[f] = 0, !.files = {}]
      BY <1>14 DEF FlushAdd
  <2>2. pc' = "flushWrite" /\ UNCHANGED <<q, pi, flushed>> /\ Outside
      BY <1>14 DEF FlushAdd
  <2>3. f \in File /\ faults' \in Nat
      BY <1>1, <1>3, <2>1, ChargeTypes
  <2>4. dlq' \in [File -> Seq(Nat)]
    <3>1. (IF r.held[f] < MaxAttempts THEN MaxAttempts ELSE r.held[f]) \in Nat
        BY <1>3, <2>3, ConstantsAssumption
    <3> QED
        BY <2>1, <2>3, <3>1, LetterTypes
  <2>5. r' \in Registers /\ r'.batch = r.batch
      BY <1>1, <1>3, <2>1, <2>3 DEF Registers
  <2> QED
      BY <1>1, <2>2, <2>3, <2>4, <2>5, FlushMarks, FlushFrame
<1> QED
    BY <1>5, <1>6, <1>7, <1>8, <1>10, <1>11, <1>12, <1>13, <1>14 DEF FlushStep

----------------------------------------------------------------------------
(* The theorem.                                                            *)

\* The initial state is typed.
LEMMA InitTypes ==
    ASSUME Init
    PROVE  TypeInv
<1>1. StreamOK
    BY EmptyStreamGood DEF Init, StreamOK
<1>2. NewStatus \in Statuses /\ Blank \in Registers /\ Blank.batch = {}
    BY DEF NewStatus, Statuses, Blank, Registers
<1>3. LettersOK /\ HistoryOK /\ faults \in Nat
  <2>1. << >> \in Seq(Nat)
      OBVIOUS
  <2> QED
      BY <2>1 DEF Init, LettersOK, HistoryOK
<1>4. ReconcilerOK
    BY <1>2 DEF Init, ReconcilerOK, Steps
<1>5. ClusterOK /\ PodMarks
    BY DEF Init, ClusterOK, Jobs, JobStates, Pods, Phases, PodMarks
<1>6. PassMarks
    BY <1>2 DEF Init, PassMarks, HandlesMessage, HasBatch
<1> QED
    BY <1>1, <1>3, <1>4, <1>5, <1>6 DEF TypeInv

\* So is the state after any step, or none.
LEMMA NextKeepsTypes ==
    ASSUME TypeInv, [Next]_vars
    PROVE  TypeInv'
<1>1. CASE UNCHANGED vars
    BY <1>1 DEF vars, TypeInv, StreamOK, LettersOK, ClusterOK, ReconcilerOK, HistoryOK,
                PodMarks, PassMarks
<1>2. CASE Next
    BY <1>2, ClusterKeepsTypes, ReconcileKeepsTypes, PodMessagesKeepTypes,
       ReclaimKeepsTypes, FlushKeepsTypes DEF Next, MessageStep
<1> QED
    BY <1>1, <1>2

\* In every reachable state the pods and the reconciler's registers name
\* messages that the stream has.
THEOREM TypeInvariant == Spec => []TypeInv
<1>1. Init => TypeInv
    BY InitTypes
<1>2. TypeInv /\ [Next]_vars => TypeInv'
    BY NextKeepsTypes
<1> QED
    BY <1>1, <1>2, PTL DEF Spec

\* Every variable keeps its type, for any files, pods, faults and bounds.
THEOREM TypeCorrect == Spec => []TypeOK
<1>1. TypeInv => TypeOK
    BY DEF TypeInv, TypeOK, StreamOK, GoodStream, LettersOK, ClusterOK, ReconcilerOK,
           HistoryOK
<1> QED
    BY <1>1, TypeInvariant, PTL
=============================================================================
