-------------------------- MODULE BatchSafetyProofs --------------------------
(***************************************************************************)
(* Safety of BatchRun for any number of files and pods: the attempts of a  *)
(* file are bounded, a pod has one message, and the reclaimer takes none   *)
(* from a pod that is alive.  The proofs do not look at the actions: they  *)
(* rest on what a step may do to the stream (StreamMove), to the dead      *)
(* letter queue (LetterMove), to a pod (PodMove) and to the batch of the   *)
(* reclaimer (BatchMove).                                                  *)
(***************************************************************************)
EXTENDS BatchRunProofs

\* The phases a pod does not come back to life from.
EndedPhases == {"succeeded", "failed", "gone", "crashed"}

\* A pod that has not taken a message.
EmptyHanded(p) ==
    \/ pods[p].phase \in {"unborn", "claiming"}
    \/ pods[p].phase = "stuck" /\ pods[p].work = 0

StreamMove ==
    \/ q' = q
    \/ \E f \in File, n \in Nat : n < MaxAttempts /\ q' = XAdd(q, f, n)
    \/ \E p \in Pod :
        /\ pods[p].phase = "claiming" /\ Undelivered(q) # {}
        /\ q' = XReadGroup(q, p)
        /\ \/ pods'[p].phase = "starting"
           \/ "claim" \in Faults /\ pods'[p].phase = "claiming"
    \/ \E m \in DOMAIN q.log : q' = XAck(q, m)
    \/ \E ids : q' = XDel(q, ids)
    \/ pc = "xclaim" /\ q' = XClaim(q, r.batch, Reclaimer)
    \/ \E ids : q' = XClaim(q, ids, Flusher)

LetterMove ==
    \/ dlq' = dlq
    \/ \E f \in File, n \in Nat : n >= MaxAttempts /\ dlq' = [dlq EXCEPT ![f] = Append(@, n)]
    \/ \E f \in File : dlq' = [dlq EXCEPT ![f] = << >>]

PodMove ==
    \A p \in Pod :
        /\ pods[p].phase \in EndedPhases => pods'[p].phase \in EndedPhases
        /\ pods[p].phase # "unborn" => pods'[p].phase # "unborn"
        /\ EmptyHanded(p)' => EmptyHanded(p)

BatchMove ==
    /\ pc' = "reclaimPods" => \/ pc = "reclaimPods" /\ r'.batch = r.batch
                              \/ r'.batch \subseteq Pending(q)
    /\ pc' = "xclaim" => \/ pc = "xclaim" /\ r'.batch = r.batch
                         \/ /\ pc = "reclaimPods" /\ UNCHANGED pods
                            /\ r'.batch = r.batch \ Owned(r.batch, Alive)

----------------------------------------------------------------------------
\* A message has a successor while it has attempts left, and a dead letter
\* record once it has none.
LEMMA SuccessorMoves ==
    ASSUME TypeInv, NEW out, NEW m \in DOMAIN q.log, RetryOrBury(out, m)
    PROVE  StreamMove /\ LetterMove
<1> DEFINE f == q.log[m].file
           n == q.log[m].attempts + 1
<1>1. f \in File /\ n \in Nat /\ MaxAttempts \in Nat
    BY EntryFields, ConstantsAssumption DEF TypeInv, StreamOK
<1>2. \/ n < MaxAttempts /\ q' = Takes(out, XAdd(q, f, n), q) /\ UNCHANGED dlq
      \/ /\ ~ (n < MaxAttempts) /\ UNCHANGED q
         /\ dlq' = Takes(out, [dlq EXCEPT ![f] = Append(@, n)], dlq)
    BY DEF RetryOrBury
<1> HIDE DEF f, n
<1>3. CASE n < MaxAttempts /\ q' = Takes(out, XAdd(q, f, n), q) /\ UNCHANGED dlq
    BY <1>1, <1>3 DEF StreamMove, LetterMove, Takes
<1>4. CASE /\ ~ (n < MaxAttempts) /\ UNCHANGED q
           /\ dlq' = Takes(out, [dlq EXCEPT ![f] = Append(@, n)], dlq)
  <2>1. n >= MaxAttempts
      BY <1>1, <1>4
  <2> QED
      BY <1>1, <1>4, <2>1 DEF StreamMove, LetterMove, Takes
<1> QED
    BY <1>2, <1>3, <1>4

\* What an acknowledgement may do.
LEMMA AcknowledgeMoves ==
    ASSUME NEW out, r.msg \in DOMAIN q.log, Acknowledge(out)
    PROVE  StreamMove /\ LetterMove
    BY DEF Acknowledge, StreamMove, LetterMove, Takes

\* What any step may do to the stream and to the dead letter queue.
LEMMA StreamAndLetterMoves ==
    ASSUME TypeInv, [Next]_vars
    PROVE  StreamMove /\ LetterMove
<1>1. UNCHANGED <<q, dlq>> => StreamMove /\ LetterMove
    BY DEF StreamMove, LetterMove
<1>2. pc \in HandlesMessage => r.msg \in DOMAIN q.log
    BY DEF TypeInv, PassMarks
<1>3. pc \in HasBatch => Least(r.batch) \in DOMAIN q.log
    BY LeastOfBatch DEF TypeInv, PassMarks
<1>4. ASSUME NEW p \in Pod, PodStep(p) PROVE StreamMove /\ LetterMove
  <2>1. CASE Claim(p)
    <3>1. pods'[p].phase = "starting"
        BY <2>1 DEF Claim, TypeInv, ClusterOK, Pods
    <3> QED
        BY <2>1, <3>1 DEF Claim, StreamMove, LetterMove
  <2>2. CASE ClaimReplyLost(p)
      BY <2>2 DEF ClaimReplyLost, CanFault, cluster, StreamMove, LetterMove
  <2>3. CASE \/ StartPod(p) \/ TerminatePod(p) \/ Start(p) \/ Succeed(p) \/ Fail(p)
             \/ Crash(p) \/ Stick(p) \/ Recover(p) \/ Evict(p)
      BY <1>1, <2>3 DEF StartPod, TerminatePod, Start, Succeed, Fail, Crash, Stick,
                        Recover, Evict, Becomes
  <2> QED
      BY <1>4, <2>1, <2>2, <2>3 DEF PodStep
<1>5. CASE JobStep
    BY <1>1, <1>5 DEF JobStep, JobCompletes, JobGivesUp, JobFails, JobExpires, JobBecomes
<1>6. CASE Enqueue
  <2>1. PICK out \in Writes, f \in r.files : q' = Takes(out, XAdd(q, f, 0), q)
      BY <1>6 DEF Enqueue
  <2>2. f \in File /\ 0 < MaxAttempts /\ UNCHANGED dlq
      BY <1>6, ConstantsAssumption DEF Enqueue, TypeInv, ReconcilerOK, Registers
  <2> QED
      BY <2>1, <2>2 DEF StreamMove, LetterMove, Takes
<1>7. CASE \/ Begin \/ Save \/ SaveStart \/ Inspect \/ List \/ Recount \/ FindJob
           \/ CreateJob \/ ReadLag \/ ReadPending \/ CheckFailure \/ StillRunning
           \/ CheckCompletion \/ Restart
    BY <1>1, <1>7 DEF Begin, Save, SaveStart, Inspect, List, Recount, FindJob, CreateJob,
       ReadLag, ReadPending, CheckFailure, StillRunning, CheckCompletion, Restart, NoEffect
<1>8. CASE ListPods \/ FindMessage \/ DeletePod \/ FindStale \/ ListOwners
    BY <1>1, <1>8 DEF ListPods, FindMessage, DeletePod, FindStale, ListOwners
<1>9. CASE AckHandled \/ AckRetired \/ AckStale
    BY <1>2, <1>9, AcknowledgeMoves DEF AckHandled, AckRetired, AckStale, HandlesMessage
<1>10. CASE Retire
    BY <1>2, <1>10, SuccessorMoves DEF Retire, HandlesMessage
<1>11. CASE RetireStale
    BY <1>3, <1>11, SuccessorMoves DEF RetireStale, HasBatch
<1>12. CASE ClaimStale
    BY <1>12 DEF ClaimStale, StreamMove, LetterMove, Takes
<1>13. CASE AckFinished \/ FlushAck
    BY <1>3, <1>13 DEF AckFinished, FlushAck, HasBatch, StreamMove, LetterMove, Takes
<1>14. CASE DeleteStale \/ FlushDel \/ FlushDelRest
    BY <1>14 DEF DeleteStale, FlushDel, FlushDelRest, StreamMove, LetterMove, Takes
<1>15. CASE FlushClaim
    BY <1>15 DEF FlushClaim, StreamMove, LetterMove, Takes
<1>16. CASE FlushBegins \/ FlushRest \/ FlushDone
    BY <1>1, <1>16 DEF FlushBegins, FlushRest, FlushDone
<1>17. CASE FlushReplace
    BY <1>17 DEF FlushReplace, TypeInv, ReconcilerOK, Registers, StreamMove, LetterMove, Takes
<1>18. CASE FlushAdd
  <2> DEFINE n(f) == IF r.held[f] < MaxAttempts THEN MaxAttempts ELSE r.held[f]
  <2>1. PICK out \in Writes,
              f \in IF pc = "flushAdd" THEN r.files
                    ELSE {f \in File \ r.known : r.held[f] > 0} :
            dlq' = Takes(out, [dlq EXCEPT ![f] = Append(@, n(f))], dlq)
      BY <1>18 DEF FlushAdd
  <2>2. f \in File /\ r.held[f] \in Nat /\ MaxAttempts \in Nat
      BY ConstantsAssumption DEF TypeInv, ReconcilerOK, Registers
  <2>3. n(f) \in Nat /\ n(f) >= MaxAttempts
      BY <2>2
  <2>4. UNCHANGED q
      BY <1>18 DEF FlushAdd
  <2> HIDE DEF n
  <2> QED
      BY <2>1, <2>2, <2>3, <2>4 DEF StreamMove, LetterMove, Takes
<1>19. CASE UNCHANGED vars
    BY <1>1, <1>19 DEF vars
<1> QED
    BY <1>4, <1>5, <1>6, <1>7, <1>8, <1>9, <1>10, <1>11, <1>12, <1>13, <1>14, <1>15,
       <1>16, <1>17, <1>18, <1>19
    DEF Next, ClusterStep, ReconcileStep, MessageStep, FlushStep

\* What any step may do to the pods.
LEMMA PodMoves ==
    ASSUME TypeInv, [Next]_vars
    PROVE  PodMove
<1>1. pods \in Pods
    BY DEF TypeInv, ClusterOK
<1>2. UNCHANGED pods => PodMove
    BY DEF PodMove, EmptyHanded
<1>3. ASSUME NEW p \in Pod, NEW phase \in Phases,
             pods' = [pods EXCEPT ![p].phase = phase],
             pods[p].phase \in EndedPhases => phase \in EndedPhases,
             phase # "unborn",
             phase = "claiming" => pods[p].phase = "stuck" /\ pods[p].work = 0,
             phase = "stuck" => EmptyHanded(p) \/ pods[p].work # 0
      PROVE  PodMove
  <2>1. /\ pods'[p].phase = phase /\ pods'[p].work = pods[p].work
        /\ \A x \in Pod : x # p => pods'[x] = pods[x]
      BY <1>1, <1>3 DEF Pods
  <2> QED
      BY <1>3, <2>1 DEF PodMove, EmptyHanded
<1>4. ASSUME NEW p \in Pod, PodStep(p) PROVE PodMove
  <2>1. CASE StartPod(p)
    <3>1. /\ pods[p].phase = "unborn" /\ pods'[p].phase = "claiming"
          /\ \A x \in Pod : x # p => pods'[x] = pods[x]
        BY <1>1, <2>1 DEF StartPod, Pods
    <3> QED
        BY <3>1 DEF PodMove, EmptyHanded, EndedPhases
  <2>2. CASE Claim(p)
    <3>1. /\ pods[p].phase = "claiming" /\ pods'[p].phase = "starting"
          /\ \A x \in Pod : x # p => pods'[x] = pods[x]
        BY <1>1, <2>2 DEF Claim, Pods
    <3> QED
        BY <3>1 DEF PodMove, EmptyHanded, EndedPhases
  <2>3. CASE ClaimReplyLost(p)
      BY <1>2, <2>3 DEF ClaimReplyLost, cluster
  <2>4. CASE Start(p) \/ Succeed(p) \/ Crash(p)
      BY <1>3, <2>4 DEF Start, Succeed, Crash, Becomes, EndedPhases, Phases, ActivePhases
  <2>5. CASE Fail(p) \/ Evict(p) \/ TerminatePod(p)
      BY <1>3, <2>5 DEF Fail, Evict, TerminatePod, Becomes, EndedPhases, Phases
  <2>6. CASE Stick(p)
    <3>1. EmptyHanded(p) \/ pods[p].work # 0
        BY <2>6 DEF Stick, EmptyHanded, TypeInv, PodMarks
    <3> QED
        BY <1>3, <2>6, <3>1
        DEF Stick, Becomes, EndedPhases, Phases, ActivePhases, PendingPhases
  <2>7. CASE Recover(p)
      BY <1>3, <2>7
      DEF Recover, Becomes, EndedPhases, Phases, ActivePhases, PendingPhases
  <2> QED
      BY <1>4, <2>1, <2>2, <2>3, <2>4, <2>5, <2>6, <2>7 DEF PodStep
<1>5. CASE JobExpires
  <2>1. \A p \in Pod : pods'[p] \in {pods[p], [pods[p] EXCEPT !.phase = "gone"]}
      BY <1>1, <1>5 DEF JobExpires, Pods
  <2>2. \A p \in Pod : pods'[p] = pods[p] \/ pods'[p].phase = "gone"
      BY <1>1, <2>1 DEF Pods
  <2> QED
      BY <2>2 DEF PodMove, EmptyHanded, EndedPhases
<1>6. CASE JobCompletes \/ JobGivesUp \/ JobFails
    BY <1>2, <1>6 DEF JobCompletes, JobGivesUp, JobFails, JobBecomes
<1>7. CASE DeletePod
  <2>1. PICK out \in Writes, s \in r.at :
            pods' = Takes(out, [pods EXCEPT ![s.pod].phase =
                                IF @ \in ActivePhases THEN "gone" ELSE @], pods)
      BY <1>7 DEF DeletePod
  <2>2. s.pod \in Pod
      BY DEF TypeInv, ReconcilerOK, Registers, Seen
  <2>3. \A x \in Pod : pods'[x] = pods[x] \/ pods'[x].phase = "gone"
      BY <1>1, <2>1, <2>2 DEF Takes, Pods
  <2> QED
      BY <2>3 DEF PodMove, EmptyHanded, EndedPhases
<1>8. CASE ReconcileStep
    BY <1>2, <1>8 DEF ReconcileStep, Begin, Save, SaveStart, Inspect, List, Enqueue,
       Recount, FindJob, CreateJob, ReadLag, ReadPending, CheckFailure, StillRunning,
       CheckCompletion, Restart, NoEffect, cluster
<1>9. CASE \/ ListPods \/ FindMessage \/ AckHandled \/ Retire \/ AckRetired
           \/ FindStale \/ ListOwners \/ ClaimStale
           \/ AckFinished \/ RetireStale \/ AckStale \/ DeleteStale
    BY <1>2, <1>9 DEF ListPods, FindMessage, AckHandled, Retire, AckRetired, FindStale,
       ListOwners, ClaimStale, AckFinished, RetireStale, AckStale, DeleteStale
<1>10. CASE FlushStep
    BY <1>2, <1>10 DEF FlushStep, FlushBegins, FlushClaim, FlushAck, FlushDel, FlushRest,
       FlushDelRest, FlushDone, FlushReplace, FlushAdd, Outside, cluster
<1>11. CASE UNCHANGED vars
    BY <1>2, <1>11 DEF vars
<1> QED
    BY <1>4, <1>5, <1>6, <1>7, <1>8, <1>9, <1>10, <1>11
    DEF Next, ClusterStep, JobStep, MessageStep

\* What any step may do to the messages that the reclaimer has selected.
LEMMA BatchMoves ==
    ASSUME TypeInv, [Next]_vars
    PROVE  BatchMove
<1> USE DEF GoTo
<1>1. r \in Registers
    BY DEF TypeInv, ReconcilerOK
<1>2. pc' \notin {"reclaimPods", "xclaim"} \/ UNCHANGED <<pc, r>> => BatchMove
    BY DEF BatchMove
<1>3. CASE ClusterStep
    BY <1>2, <1>3 DEF ClusterStep, PodStep, JobStep, StartPod, TerminatePod, Claim,
       ClaimReplyLost, Start, Succeed, Fail, Crash, Stick, Recover, Evict, Becomes,
       JobCompletes, JobGivesUp, JobFails, JobExpires, JobBecomes, Reconciler
<1>4. CASE \/ Begin \/ Save \/ SaveStart \/ Inspect \/ List \/ Enqueue \/ Recount
    BY <1>2, <1>4 DEF Begin, Save, SaveStart, Inspect, List, Enqueue, Recount,
       Finish, GiveUp, Initialized
<1>5. CASE \/ FindJob \/ CreateJob \/ ReadLag \/ ReadPending \/ CheckFailure
           \/ StillRunning \/ CheckCompletion \/ Restart
    BY <1>2, <1>5 DEF FindJob, CreateJob, ReadLag, ReadPending, CheckFailure,
       StillRunning, CheckCompletion, Restart, Finish, JobError
<1>6. CASE ListPods \/ FindMessage \/ AckHandled \/ Retire \/ AckRetired \/ DeletePod
    BY <1>2, <1>6 DEF ListPods, FindMessage, AckHandled, Retire, AckRetired, DeletePod,
       NextPod
<1>7. CASE \/ ClaimStale \/ AckFinished \/ RetireStale \/ AckStale \/ DeleteStale
    BY <1>2, <1>7 DEF ClaimStale, AckFinished, RetireStale, AckStale, DeleteStale,
       NextReclaimed
<1>8. CASE FindStale
  <2>1. PICK ids \in SUBSET Pending(q) :
            NextReclaimed({}) \/ (r' = [r EXCEPT !.batch = ids] /\ pc' = "reclaimPods")
      BY <1>8 DEF FindStale
  <2>2. CASE NextReclaimed({})
      BY <1>2, <2>2 DEF NextReclaimed
  <2>3. CASE r' = [r EXCEPT !.batch = ids] /\ pc' = "reclaimPods"
    <3>1. r'.batch = ids
        BY <1>1, <2>3 DEF Registers
    <3> QED
        BY <2>3, <3>1 DEF BatchMove
  <2> QED
      BY <2>1, <2>2, <2>3
<1>9. CASE ListOwners
  <2> DEFINE ids == r.batch \ Owned(r.batch, Alive)
  <2>1. /\ pc = "reclaimPods" /\ UNCHANGED pods
        /\ \/ NextReclaimed({})
           \/ /\ r' = [r EXCEPT !.batch = ids, !.finished = Owned(ids, Finished)]
              /\ pc' = "xclaim"
      BY <1>9 DEF ListOwners
  <2> HIDE DEF ids
  <2>2. CASE NextReclaimed({})
      BY <1>2, <2>2 DEF NextReclaimed
  <2>3. CASE /\ r' = [r EXCEPT !.batch = ids, !.finished = Owned(ids, Finished)]
             /\ pc' = "xclaim"
    <3>1. r'.batch = ids
        BY <1>1, <2>3 DEF Registers
    <3> QED
        BY <2>1, <2>3, <3>1 DEF BatchMove, ids
  <2> QED
      BY <2>1, <2>2, <2>3
<1>10. CASE FlushStep
    BY <1>2, <1>10 DEF FlushStep, FlushBegins, FlushClaim, FlushAck, FlushDel, FlushRest,
       FlushDelRest, FlushDone, FlushReplace, FlushAdd, FlushEnds
<1>11. CASE UNCHANGED vars
    BY <1>2, <1>11 DEF vars
<1> QED
    BY <1>3, <1>4, <1>5, <1>6, <1>7, <1>8, <1>9, <1>10, <1>11
    DEF Next, ReconcileStep, MessageStep

----------------------------------------------------------------------------
(* The attempts of a file.                                                 *)

AttemptsInv == TypeInv /\ AttemptsBounded

\* Every message has attempts left, and every dead letter record none.
LEMMA AttemptsStep ==
    ASSUME AttemptsInv, [Next]_vars
    PROVE  AttemptsInv'
<1>1. TypeInv' /\ TypeInv /\ AttemptsBounded
    BY NextKeepsTypes DEF AttemptsInv
<1>2. StreamMove /\ LetterMove
    BY <1>1, StreamAndLetterMoves
<1>3. /\ GoodStream(q, Consumers) /\ DOMAIN q.log = 1 .. Len(q.log) /\ Len(q.log) \in Nat
      /\ GoodStream(q', Consumers) /\ DOMAIN q'.log = 1 .. Len(q'.log)
    BY <1>1, Positions DEF TypeInv, StreamOK
<1>4. \A i \in DOMAIN q.log : q.log[i].attempts < MaxAttempts
    BY <1>1 DEF AttemptsBounded
<1>5. Extends(q, q') /\ Len(q'.log) = Len(q.log)
        => \A i \in DOMAIN q'.log : q'.log[i].attempts < MaxAttempts
    BY <1>3, <1>4 DEF Extends
<1>6. \A i \in DOMAIN q'.log : q'.log[i].attempts < MaxAttempts
  <2>1. CASE q' = q
      BY <1>4, <2>1
  <2>2. ASSUME NEW f \in File, NEW n \in Nat, n < MaxAttempts, q' = XAdd(q, f, n)
        PROVE  \A i \in DOMAIN q'.log : q'.log[i].attempts < MaxAttempts
    <3>1. /\ Len(q'.log) = Len(q.log) + 1
          /\ \A i \in 1 .. Len(q.log) : q'.log[i] = q.log[i]
          /\ q'.log[Len(q.log) + 1] =
               [file |-> f, attempts |-> n, owner |-> NoOne, deleted |-> FALSE]
        BY <1>3, <2>2, XAddAppends
    <3>2. q'.log[Len(q.log) + 1].attempts = n
        BY <3>1
    <3> QED
        BY <1>3, <1>4, <2>2, <3>1, <3>2
  <2>3. ASSUME NEW p \in Pod, Undelivered(q) # {}, q' = XReadGroup(q, p)
        PROVE  Extends(q, q') /\ Len(q'.log) = Len(q.log)
      BY <1>3, <2>3, XReadGroupDelivers DEF Consumers
  <2>4. ASSUME NEW m \in DOMAIN q.log, q' = XAck(q, m)
        PROVE  Extends(q, q') /\ Len(q'.log) = Len(q.log)
      BY <1>3, <2>4, XAckReleases
  <2>5. ASSUME NEW ids, q' = XDel(q, ids)
        PROVE  Extends(q, q') /\ Len(q'.log) = Len(q.log)
      BY <1>3, <2>5, XDelMarks
  <2>6. ASSUME NEW ids, NEW c \in Consumers, q' = XClaim(q, ids, c)
        PROVE  Extends(q, q') /\ Len(q'.log) = Len(q.log)
      BY <1>3, <2>6, XClaimMoves
  <2>7. Reclaimer \in Consumers /\ Flusher \in Consumers
      BY DEF Consumers
  <2> QED
      BY <1>2, <1>5, <2>1, <2>2, <2>3, <2>4, <2>5, <2>6, <2>7 DEF StreamMove
<1>7. \A f \in File : \A k \in DOMAIN dlq'[f] : dlq'[f][k] >= MaxAttempts
  <2>1. dlq \in [File -> Seq(Nat)]
        /\ \A f \in File : \A k \in DOMAIN dlq[f] : dlq[f][k] >= MaxAttempts
      BY <1>1 DEF TypeInv, LettersOK, AttemptsBounded
  <2>2. ASSUME NEW f \in File, NEW n \in Nat, n >= MaxAttempts,
               dlq' = [dlq EXCEPT ![f] = Append(@, n)]
        PROVE  \A g \in File : \A k \in DOMAIN dlq'[g] : dlq'[g][k] >= MaxAttempts
    <3>1. dlq[f] \in Seq(Nat) /\ dlq'[f] = Append(dlq[f], n)
          /\ \A g \in File : g # f => dlq'[g] = dlq[g]
        BY <2>1, <2>2
    <3>2. \A k \in DOMAIN dlq'[f] : dlq'[f][k] >= MaxAttempts
        BY <2>1, <2>2, <3>1
    <3> QED
        BY <2>1, <3>1, <3>2
  <2>3. ASSUME NEW f \in File, dlq' = [dlq EXCEPT ![f] = << >>]
        PROVE  \A g \in File : \A k \in DOMAIN dlq'[g] : dlq'[g][k] >= MaxAttempts
    <3>1. dlq'[f] = << >> /\ \A g \in File : g # f => dlq'[g] = dlq[g]
        BY <2>1, <2>3
    <3>2. \A k \in DOMAIN dlq'[f] : FALSE
        BY <3>1
    <3> QED
        BY <2>1, <3>1, <3>2
  <2> QED
      BY <1>2, <2>1, <2>2, <2>3 DEF LetterMove
<1> QED
    BY <1>1, <1>6, <1>7 DEF AttemptsInv, AttemptsBounded

\* handleFailedPodMessage and runReclaimer retry a file while it has attempts
\* left and dead-letter it once it has none, whatever fails and however often
\* a message is seen again.
THEOREM AttemptsAreBounded == Spec => []AttemptsBounded
<1>1. ASSUME Init PROVE AttemptsInv
  <2>1. q.log = << >> /\ \A f \in File : dlq[f] = << >>
      BY <1>1 DEF Init, EmptyStream
  <2>2. DOMAIN q.log = {} /\ \A f \in File : DOMAIN dlq[f] = {}
      BY <2>1
  <2> QED
      BY <1>1, <2>2, InitTypes DEF AttemptsInv, AttemptsBounded
<1>2. AttemptsInv /\ [Next]_vars => AttemptsInv'
    BY AttemptsStep
<1>3. AttemptsInv => AttemptsBounded
    BY DEF AttemptsInv
<1> QED
    BY <1>1, <1>2, <1>3, PTL DEF Spec

----------------------------------------------------------------------------
(* The owners of messages.                                                 *)

\* How the owners of messages may change, whatever the command.
OwnerMove ==
    \A i \in DOMAIN q'.log :
        LET before == IF i \in DOMAIN q.log THEN q.log[i].owner ELSE NoOne
            after == q'.log[i].owner
        IN  \/ after = before \/ after = NoOne
            \/ after = Flusher /\ before # NoOne
            \/ after = Reclaimer /\ before # NoOne /\ pc = "xclaim" /\ i \in r.batch
            \/ \E p \in Pod :
                /\ after = p /\ pods[p].phase = "claiming"
                /\ pods'[p].phase = "starting" \/ "claim" \in Faults
                /\ i \in DOMAIN q.log /\ q.delivered < i /\ i <= q'.delivered
                /\ \A j \in DOMAIN q.log : j # i => q'.log[j] = q.log[j]

\* A step changes owners as OwnerMove says, and delivers without going back.
LEMMA OwnerMoves ==
    ASSUME TypeInv, [Next]_vars
    PROVE  OwnerMove /\ q.delivered <= q'.delivered /\ DOMAIN q.log \subseteq DOMAIN q'.log
<1>1. /\ GoodStream(q, Consumers) /\ DOMAIN q.log = 1 .. Len(q.log) /\ Len(q.log) \in Nat
      /\ q.delivered \in 0 .. Len(q.log)
    BY Positions DEF TypeInv, StreamOK
<1>2. GoodStream(q', Consumers) /\ DOMAIN q'.log = 1 .. Len(q'.log) /\ Len(q'.log) \in Nat
    BY NextKeepsTypes, Positions DEF TypeInv, StreamOK
<1>3. StreamMove
    BY StreamAndLetterMoves
<1> DEFINE Goal == /\ OwnerMove /\ q.delivered <= q'.delivered
                   /\ DOMAIN q.log \subseteq DOMAIN q'.log
<1>4. CASE q' = q
    BY <1>1, <1>4 DEF OwnerMove
<1>5. ASSUME NEW f \in File, NEW n \in Nat, q' = XAdd(q, f, n)
      PROVE  Goal
  <2>1. /\ Len(q'.log) = Len(q.log) + 1 /\ q'.delivered = q.delivered
        /\ \A i \in 1 .. Len(q.log) : q'.log[i] = q.log[i]
        /\ q'.log[Len(q.log) + 1] =
             [file |-> f, attempts |-> n, owner |-> NoOne, deleted |-> FALSE]
      BY <1>1, <1>5, XAddAppends
  <2>2. q'.log[Len(q.log) + 1].owner = NoOne
      BY <2>1
  <2>3. ASSUME NEW i \in DOMAIN q'.log
        PROVE  \/ i \in DOMAIN q.log /\ q'.log[i].owner = q.log[i].owner
               \/ q'.log[i].owner = NoOne
      BY <1>1, <1>2, <2>1, <2>2
  <2> QED
      BY <1>1, <1>2, <2>1, <2>3 DEF OwnerMove
<1>6. ASSUME NEW p \in Pod, pods[p].phase = "claiming", Undelivered(q) # {},
             q' = XReadGroup(q, p), pods'[p].phase = "starting" \/ "claim" \in Faults
      PROVE  Goal
  <2> DEFINE m == Least(Undelivered(q))
  <2>1. /\ Len(q'.log) = Len(q.log) /\ m \in Undelivered(q) /\ q'.delivered = m
        /\ q'.log[m].owner = p
        /\ \A i \in DOMAIN q.log : i # m => q'.log[i] = q.log[i]
      BY <1>1, <1>6, XReadGroupDelivers DEF Consumers
  <2>2. m \in DOMAIN q.log /\ q.delivered < m
      BY <2>1 DEF Undelivered, Present
  <2> HIDE DEF m
  <2>3. q.delivered <= q'.delivered /\ m <= q'.delivered
      BY <1>1, <2>1, <2>2
  <2>4. OwnerMove
      BY <1>1, <1>2, <1>6, <2>1, <2>2, <2>3 DEF OwnerMove
  <2> QED
      BY <1>1, <1>2, <2>1, <2>3, <2>4
<1>7. ASSUME NEW m \in DOMAIN q.log, q' = XAck(q, m)
      PROVE  Goal
  <2>1. /\ Len(q'.log) = Len(q.log) /\ q'.delivered = q.delivered
        /\ q'.log[m].owner = NoOne
        /\ \A i \in DOMAIN q.log : i # m => q'.log[i] = q.log[i]
      BY <1>1, <1>7, XAckReleases
  <2> QED
      BY <1>1, <1>2, <2>1 DEF OwnerMove
<1>8. ASSUME NEW ids, q' = XDel(q, ids)
      PROVE  Goal
  <2>1. /\ Len(q'.log) = Len(q.log) /\ q'.delivered = q.delivered
        /\ \A i \in DOMAIN q.log : q'.log[i].owner = q.log[i].owner
      BY <1>1, <1>8, XDelMarks
  <2> QED
      BY <1>1, <1>2, <2>1 DEF OwnerMove
<1>9. ASSUME NEW ids, NEW c \in Consumers, q' = XClaim(q, ids, c)
      PROVE  /\ Len(q'.log) = Len(q.log) /\ q'.delivered = q.delivered
             /\ \A i \in DOMAIN q.log :
                  \/ q'.log[i].owner \in {q.log[i].owner, NoOne}
                  \/ i \in ids /\ q.log[i].owner # NoOne /\ q'.log[i].owner = c
    BY <1>1, <1>9, XClaimMoves DEF Pending
<1>10. CASE pc = "xclaim" /\ q' = XClaim(q, r.batch, Reclaimer)
  <2>1. Reclaimer \in Consumers
      BY DEF Consumers
  <2> QED
      BY <1>1, <1>2, <1>9, <1>10, <2>1 DEF OwnerMove
<1>11. ASSUME NEW ids, q' = XClaim(q, ids, Flusher)
       PROVE  Goal
  <2>1. Flusher \in Consumers
      BY DEF Consumers
  <2> QED
      BY <1>1, <1>2, <1>9, <1>11, <2>1 DEF OwnerMove
<1> QED
    BY <1>3, <1>4, <1>5, <1>6, <1>7, <1>8, <1>10, <1>11 DEF StreamMove

----------------------------------------------------------------------------
(* The reclaimer and the pods that are alive.                              *)

\* Messages without an owner have not been delivered, and unborn pods own
\* none.  The messages that the reclaimer is about to claim have been delivered,
\* and the pods that own them have come to an end.
OwnerInv ==
    /\ \A i \in DOMAIN q.log : i > q.delivered => q.log[i].owner = NoOne
    /\ \A i \in DOMAIN q.log, p \in Pod :
         q.log[i].owner = p => pods[p].phase # "unborn"
    /\ pc \in {"reclaimPods", "xclaim"} => \A i \in r.batch : i <= q.delivered
    /\ pc = "xclaim" => \A i \in r.batch, p \in Pod :
         q.log[i].owner = p => pods[p].phase \in EndedPhases

\* A pod is listed after the idle message it owns was found: it cannot come
\* into possession of the message, nor to life, between the list and XCLAIM.
LEMMA OwnerStep ==
    ASSUME TypeInv, OwnerInv, [Next]_vars
    PROVE  OwnerInv'
<1>1. /\ OwnerMove /\ q.delivered <= q'.delivered
      /\ DOMAIN q.log \subseteq DOMAIN q'.log
    BY OwnerMoves
<1>2. PodMove /\ BatchMove
    BY PodMoves, BatchMoves
<1>3. /\ r.batch \subseteq DOMAIN q.log /\ pods \in Pods
      /\ q.delivered \in Nat /\ DOMAIN q.log \subseteq Nat
    BY PassTypes, Positions DEF TypeInv, ClusterOK
<1>4. q'.delivered \in Nat /\ DOMAIN q'.log \subseteq Nat
    BY NextKeepsTypes, Positions DEF TypeInv, StreamOK
<1>5. \A p \in Pod : p # NoOne /\ p # Reclaimer /\ p # Flusher
    BY ConstantsAssumption
<1>6. \A i \in DOMAIN q.log : i > q.delivered => q.log[i].owner = NoOne
    BY DEF OwnerInv
<1>7. ASSUME NEW i \in DOMAIN q'.log, i > q'.delivered
      PROVE  q'.log[i].owner = NoOne
    BY <1>1, <1>3, <1>4, <1>6, <1>7 DEF OwnerMove
<1>8. ASSUME NEW i \in DOMAIN q'.log, NEW p \in Pod, q'.log[i].owner = p
      PROVE  \/ i \in DOMAIN q.log /\ q.log[i].owner = p
             \/ i \in DOMAIN q.log /\ q.delivered < i /\ pods[p].phase = "claiming"
    BY <1>1, <1>5, <1>8 DEF OwnerMove
<1>9. ASSUME NEW i \in DOMAIN q'.log, NEW p \in Pod, q'.log[i].owner = p
      PROVE  pods'[p].phase # "unborn"
    BY <1>2, <1>8, <1>9 DEF OwnerInv, PodMove
<1>10. ASSUME pc' \in {"reclaimPods", "xclaim"}, NEW i \in r'.batch
       PROVE  i \in DOMAIN q.log /\ i <= q.delivered
  <2>1. CASE i \in Pending(q)
      BY <1>3, <1>6, <2>1 DEF Pending
  <2>2. CASE pc \in {"reclaimPods", "xclaim"} /\ i \in r.batch
      BY <1>3, <2>2 DEF OwnerInv
  <2> QED
      BY <1>2, <1>10, <2>1, <2>2 DEF BatchMove
<1>11. ASSUME pc' = "xclaim", NEW i \in r'.batch, NEW p \in Pod, q'.log[i].owner = p
       PROVE  pods'[p].phase \in EndedPhases
  <2>1. i \in DOMAIN q.log /\ i <= q.delivered
      BY <1>10, <1>11
  <2>2. q.log[i].owner = p
      BY <1>1, <1>3, <1>8, <1>11, <2>1
  <2>3. CASE pc = "xclaim" /\ r'.batch = r.batch
      BY <1>2, <1>11, <2>2, <2>3 DEF OwnerInv, PodMove
  <2>4. CASE /\ pc = "reclaimPods" /\ UNCHANGED pods
             /\ r'.batch = r.batch \ Owned(r.batch, Alive)
    <3>1. p \notin Alive
        BY <1>11, <2>2, <2>4 DEF Owned
    <3>2. pods[p].phase # "unborn"
        BY <2>1, <2>2 DEF OwnerInv
    <3>3. pods[p].phase \in Phases
        BY <1>3 DEF Pods
    <3>4. pods[p].phase \in EndedPhases
        BY <3>1, <3>2, <3>3
        DEF Alive, Phases, ActivePhases, PendingPhases, EndedPhases
    <3> QED
        BY <2>4, <3>4
  <2> QED
      BY <1>2, <1>11, <2>3, <2>4 DEF BatchMove
<1>12. ASSUME pc' \in {"reclaimPods", "xclaim"}, NEW i \in r'.batch
       PROVE  i <= q'.delivered
    BY <1>1, <1>3, <1>4, <1>10, <1>12
<1> QED
    BY <1>7, <1>9, <1>11, <1>12 DEF OwnerInv

\* runReclaimer takes no message from a pod that is pending or running, for
\* any number of pods and whatever calls fail.
THEOREM LiveClaimsAreSafe == Spec => LiveClaimNeverStolen
<1>1. ASSUME Init PROVE TypeInv /\ OwnerInv
  <2>1. q.log = << >> /\ pc = "idle"
      BY <1>1 DEF Init, EmptyStream
  <2>2. DOMAIN q.log = {}
      BY <2>1
  <2> QED
      BY <1>1, <2>1, <2>2, InitTypes DEF OwnerInv
<1>2. (TypeInv /\ OwnerInv) /\ [Next]_vars => (TypeInv /\ OwnerInv)'
    BY NextKeepsTypes, OwnerStep
<1>3. ASSUME TypeInv, OwnerInv, [Next]_vars
      PROVE  [\A i \in DOMAIN q.log, p \in Pod :
                (q.log[i].owner = p /\ q'.log[i].owner = Reclaimer) =>
                    pods[p].phase \notin PendingPhases \cup {"running"}]_vars
  <2>1. SUFFICES ASSUME NEW i \in DOMAIN q.log, NEW p \in Pod,
                        q.log[i].owner = p, q'.log[i].owner = Reclaimer
                 PROVE  pods[p].phase \notin PendingPhases \cup {"running"}
      OBVIOUS
  <2>2. OwnerMove /\ i \in DOMAIN q'.log
      BY <1>3, OwnerMoves
  <2>3. \A x \in Pod : x # Reclaimer
      BY ConstantsAssumption
  <2>4. Reclaimer # NoOne /\ Reclaimer # Flusher
      BY ConstantsAssumption
  <2>5. pc = "xclaim" /\ i \in r.batch
      BY <2>1, <2>2, <2>3, <2>4 DEF OwnerMove
  <2>6. pods[p].phase \in EndedPhases
      BY <1>3, <2>1, <2>5 DEF OwnerInv
  <2> QED
      BY <2>6 DEF EndedPhases, PendingPhases
<1> QED
    BY <1>1, <1>2, <1>3, PTL DEF Spec, LiveClaimNeverStolen

----------------------------------------------------------------------------
(* The messages of one pod.                                                *)

\* A pod that has not taken a message owns none, and no pod owns two.
HandsInv ==
    \A p \in Pod :
        /\ EmptyHanded(p) => \A i \in DOMAIN q.log : q.log[i].owner # p
        /\ \A i, j \in DOMAIN q.log : q.log[i].owner = p /\ q.log[j].owner = p => i = j

\* While no reply to a claimer is lost, a claimer that has a message does not
\* ask for another.
LEMMA HandsStep ==
    ASSUME "claim" \notin Faults, TypeInv, HandsInv, [Next]_vars
    PROVE  HandsInv'
<1>1. OwnerMove /\ PodMove
    BY OwnerMoves, PodMoves
<1>2. \A p \in Pod : p # NoOne /\ p # Reclaimer /\ p # Flusher
    BY ConstantsAssumption
<1>3. ASSUME NEW i \in DOMAIN q'.log, NEW p \in Pod, q'.log[i].owner = p
      PROVE  /\ i \in DOMAIN q.log
             /\ \/ q.log[i].owner = p
                \/ /\ pods[p].phase = "claiming" /\ pods'[p].phase = "starting"
                   /\ \A j \in DOMAIN q.log : j # i => q'.log[j] = q.log[j]
    BY <1>1, <1>2, <1>3 DEF OwnerMove
<1>4. ASSUME NEW p \in Pod, EmptyHanded(p)', NEW i \in DOMAIN q'.log, q'.log[i].owner = p
      PROVE  FALSE
  <2>1. EmptyHanded(p)
      BY <1>1, <1>4 DEF PodMove
  <2>2. i \in DOMAIN q.log => q.log[i].owner # p
      BY <2>1 DEF HandsInv
  <2>3. pods'[p].phase = "starting"
      BY <1>3, <1>4, <2>2
  <2> QED
      BY <1>4, <2>3 DEF EmptyHanded
<1>5. ASSUME NEW p \in Pod, NEW i \in DOMAIN q'.log, NEW j \in DOMAIN q'.log,
             q'.log[i].owner = p, q'.log[j].owner = p, i # j
      PROVE  FALSE
  <2>1. i \in DOMAIN q.log /\ j \in DOMAIN q.log
      BY <1>3, <1>5
  <2>2. ASSUME pods[p].phase = "claiming", NEW k \in DOMAIN q.log, q.log[k].owner = p
        PROVE  FALSE
      BY <2>2 DEF HandsInv, EmptyHanded
  <2>3. CASE q.log[i].owner = p /\ q.log[j].owner = p
      BY <1>5, <2>1, <2>3 DEF HandsInv
  <2>4. CASE q.log[i].owner # p
    <3>1. pods[p].phase = "claiming" /\ q'.log[j] = q.log[j]
        BY <1>3, <1>5, <2>1, <2>4
    <3> QED
        BY <1>5, <2>1, <2>2, <3>1
  <2>5. CASE q.log[j].owner # p
    <3>1. pods[p].phase = "claiming" /\ q'.log[i] = q.log[i]
        BY <1>3, <1>5, <2>1, <2>5
    <3> QED
        BY <1>5, <2>1, <2>2, <3>1
  <2> QED
      BY <2>3, <2>4, <2>5
<1> QED
    BY <1>4, <1>5 DEF HandsInv

\* handleCompletedPods may take the first pending message of a pod to be the
\* one that the pod has worked on, as long as no reply to a claimer is lost.
THEOREM PodsHaveOneMessage ==
    ASSUME "claim" \notin Faults
    PROVE  Spec => []OnePendingPerPod
<1>1. ASSUME Init PROVE TypeInv /\ HandsInv
  <2>1. q.log = << >>
      BY <1>1 DEF Init, EmptyStream
  <2>2. DOMAIN q.log = {}
      BY <2>1
  <2> QED
      BY <1>1, <2>2, InitTypes DEF HandsInv
<1>2. (TypeInv /\ HandsInv) /\ [Next]_vars => (TypeInv /\ HandsInv)'
    BY NextKeepsTypes, HandsStep
<1>3. TypeInv /\ HandsInv => OnePendingPerPod
  <2>1. SUFFICES ASSUME HandsInv, NEW p \in Pod
                 PROVE  Cardinality(PendingFor(q, p)) <= 1
      BY DEF OnePendingPerPod
  <2>2. CASE PendingFor(q, p) = {}
    <3>1. Cardinality({}) = 0
        BY FS_EmptySet
    <3> QED
        BY <2>2, <3>1
  <2>3. CASE PendingFor(q, p) # {}
    <3>1. PICK i : i \in PendingFor(q, p)
        BY <2>3
    <3>2. PendingFor(q, p) = {i}
        BY <2>1, <3>1 DEF PendingFor, HandsInv
    <3>3. Cardinality({i}) = 1
        BY FS_Singleton
    <3> QED
        BY <3>2, <3>3
  <2> QED
      BY <2>2, <2>3
<1> QED
    BY <1>1, <1>2, <1>3, PTL DEF Spec
=============================================================================
