---------------------------- MODULE OutcomeProofs ----------------------------
(***************************************************************************)
(* What a run does with the messages of a file as long as the calls of the *)
(* reconciler do not fail: a file has one live message, a message that was *)
(* processed is not retried, a run that reports success has processed      *)
(* every file, and a run that has ended stays as it is.  The proofs rest   *)
(* on HandMove, what a step may do to the stream and to the messages that  *)
(* the reconciler has in hand.                                             *)
(***************************************************************************)
EXTENDS LedgerProofs

\* The steps that rely on what the reconciler has in hand.
Hands == {"list", "enqueue", "ack", "retire", "ackRetired",
          "reclaimNext", "reclaimAck", "reclaimDel"}

\* The steps between the successor of a message and its acknowledgement.
Replacing == {"ackRetired", "reclaimAck"}

\* The steps that act upon the stream or upon what is in hand.
Busy == {"ack", "retire", "ackRetired", "xclaim", "reclaimNext", "reclaimAck", "reclaimDel"}

\* A message gets its successor, or its file a dead letter record.
Replaced(m) == q' = q \/ \E n \in Nat : q' = XAdd(q, q.log[m].file, n)

\* The next message of the reclaimer's batch.
Proceeds(batch) ==
    \/ batch = {} /\ pc' \notin Hands
    \/ pc' = "reclaimNext" /\ r'.batch = batch /\ r'.finished = r.finished

\* What a step may do to the stream and to what the reconciler has in hand.
HandMove ==
    \/ /\ UNCHANGED <<pc, r>>
       /\ q' = q \/ \E p \in Pod : Undelivered(q) # {} /\ q' = XReadGroup(q, p)
    \/ pc \notin Busy /\ pc' \notin Hands /\ q' = q
    \/ /\ pc \in FlushSteps /\ pc' \in FlushSteps
       /\ \/ \E m \in DOMAIN q.log : q' = XAck(q, m)
          \/ \E ids : q' = XDel(q, ids)
          \/ \E ids : q' = XClaim(q, ids, Flusher)
    \/ pc = "inspect" /\ pc' = "list" /\ Length(q) = 0 /\ q' = q
    \/ pc = "list" /\ pc' = "enqueue" /\ q' = q
    \/ /\ pc = "enqueue" /\ pc' \in {"enqueue", "recount"}
       /\ \E f \in r.files : q' = XAdd(q, f, 0) /\ r'.files = r.files \ {f}
    \/ /\ pc = "nextPod" /\ q' = q
       /\ \E s \in r.todo :
            /\ r'.msg \in PendingFor(q, s.pod)
            /\ \/ pc' = "ack"
               \/ pc' = "retire" /\ ~ q.log[r'.msg].deleted /\ s.phase # "succeeded"
    \/ pc \in {"ack", "ackRetired"} /\ pc' \notin Hands /\ q' = XAck(q, r.msg)
    \/ pc = "retire" /\ pc' = "ackRetired" /\ r' = r /\ Replaced(r.msg)
    \/ /\ pc = "xclaim" /\ q' = XClaim(q, r.batch, Reclaimer)
       /\ Proceeds(Claimable(q, r.batch))
    \/ /\ pc = "reclaimNext" /\ r'.msg \in r.batch
       /\ r'.batch = r.batch /\ r'.finished = r.finished
       /\ \/ pc' = "reclaimDel" /\ r'.msg \in r.finished /\ q' = XAck(q, r'.msg)
          \/ pc' = "reclaimAck" /\ r'.msg \notin r.finished /\ Replaced(r'.msg)
    \/ pc = "reclaimAck" /\ pc' = "reclaimDel" /\ r' = r /\ q' = XAck(q, r.msg)
    \/ /\ pc = "reclaimDel" /\ q' = XDel(q, {r.msg})
       /\ Proceeds(r.batch \ {r.msg})

\* A call outside a flush succeeds when no such call may fail.
LEMMA CallsSucceed ==
    ASSUME "call" \notin Faults, pc \notin FlushSteps
    PROVE  Writes = {"ok"} /\ Reads = {"ok"}
    BY DEF Writes, Reads, CanFault, CallFault

\* Every step is one of the moves when no call of a pass fails outside the
\* flush and the reconciler does not restart there.
LEMMA HandMoves ==
    ASSUME "call" \notin Faults, "crash" \notin Faults, TypeInv, [Next]_vars
    PROVE  HandMove
<1> USE DEF GoTo
<1>1. r \in Registers /\ (r.batch # {} => Least(r.batch) \in r.batch /\ Least(r.batch) \in DOMAIN q.log)
    BY LeastOfBatch DEF TypeInv, ReconcilerOK
<1>2. pc \in HasBatch => r.batch # {}
    BY DEF TypeInv, PassMarks
<1>3. pc \notin FlushSteps => Writes = {"ok"} /\ Reads = {"ok"}
    BY CallsSucceed
<1>4. pc \notin Busy /\ pc' \notin Hands /\ q' = q => HandMove
    BY DEF HandMove
<1>5. CASE ClusterStep
  <2>1. UNCHANGED <<pc, r>>
      BY <1>5 DEF ClusterStep, PodStep, JobStep, StartPod, TerminatePod, Claim,
         ClaimReplyLost, Start, Succeed, Fail, Crash, Stick, Recover, Evict, Becomes,
         JobCompletes, JobGivesUp, JobFails, JobExpires, JobBecomes, Reconciler
  <2>2. q' = q \/ \E p \in Pod : Undelivered(q) # {} /\ q' = XReadGroup(q, p)
      BY <1>5 DEF ClusterStep, PodStep, JobStep, StartPod, TerminatePod, Claim,
         ClaimReplyLost, Start, Succeed, Fail, Crash, Stick, Recover, Evict, Becomes,
         JobCompletes, JobGivesUp, JobFails, JobExpires, JobBecomes
  <2> QED
      BY <2>1, <2>2 DEF HandMove
<1>6. CASE \/ Begin \/ Save \/ SaveStart \/ Recount \/ FindJob \/ CreateJob \/ ReadLag
           \/ ReadPending \/ CheckFailure \/ StillRunning \/ CheckCompletion
  <2>1. q' = q
      BY <1>6 DEF Begin, Save, SaveStart, Recount, FindJob, CreateJob, ReadLag, ReadPending,
         CheckFailure, StillRunning, CheckCompletion, NoEffect
  <2>2. pc \notin Busy
      BY <1>6 DEF Begin, Save, SaveStart, Recount, FindJob, CreateJob, ReadLag, ReadPending,
         CheckFailure, StillRunning, CheckCompletion, Busy
  <2>3. pc' \notin Hands
      BY <1>6 DEF Begin, Save, SaveStart, Recount, FindJob, CreateJob, ReadLag, ReadPending,
         CheckFailure, StillRunning, CheckCompletion, Finish, GiveUp, Initialized, JobError,
         Hands
  <2> QED
      BY <1>4, <2>1, <2>2, <2>3
<1>7. CASE Inspect
  <2>1. pc = "inspect" /\ q' = q
      BY <1>7 DEF Inspect, NoEffect
  <2>2. (Length(q) = 0 /\ pc' = "list") \/ pc' \in {"save", "saveStart"}
      BY <1>7 DEF Inspect, GiveUp, Initialized
  <2>3. CASE Length(q) = 0 /\ pc' = "list"
      BY <2>1, <2>3 DEF HandMove
  <2>4. CASE pc' \in {"save", "saveStart"}
      BY <1>4, <2>1, <2>4 DEF Hands, Busy
  <2> QED
      BY <2>2, <2>3, <2>4
<1>8. CASE List
  <2>1. pc = "list" /\ q' = q /\ pc' \in {"save", "enqueue"}
      BY <1>8 DEF List, GiveUp
  <2>2. CASE pc' = "enqueue"
      BY <2>1, <2>2 DEF HandMove
  <2>3. CASE pc' = "save"
      BY <1>4, <2>1, <2>3 DEF Hands, Busy
  <2> QED
      BY <2>1, <2>2, <2>3
<1>9. CASE Enqueue
  <2>1. pc = "enqueue" /\ Writes = {"ok"}
      BY <1>3, <1>9 DEF Enqueue, FlushSteps
  <2>2. PICK f \in r.files :
          /\ q' = Takes("ok", XAdd(q, f, 0), q)
          /\ r' = [r EXCEPT !.files = @ \ {f}, !.sent = TRUE]
          /\ pc' \in {"recount", "enqueue"}
      BY <1>9, <2>1 DEF Enqueue
  <2>3. q' = XAdd(q, f, 0) /\ r'.files = r.files \ {f}
      BY <1>1, <2>2 DEF Takes, Registers
  <2> QED
      BY <2>1, <2>2, <2>3 DEF HandMove
<1>10. CASE Restart
  <2>1. pc \in FlushSteps
      BY <1>10 DEF Restart, CanFault
  <2>2. q' = q /\ pc' = "idle"
      BY <1>10 DEF Restart, Finish
  <2> QED
      BY <1>4, <2>1, <2>2 DEF FlushSteps, Hands, Busy
<1>11. CASE ListPods \/ DeletePod \/ FindStale \/ ListOwners
  <2>1. q' = q /\ pc \notin Busy
      BY <1>11 DEF ListPods, DeletePod, FindStale, ListOwners, Busy
  <2>2. CASE ListPods \/ DeletePod
      BY <1>4, <2>1, <2>2 DEF ListPods, DeletePod, NextPod, Hands
  <2>3. CASE FindStale
    <3>1. NextReclaimed({}) \/ pc' = "reclaimPods"
        BY <2>3 DEF FindStale
    <3> QED
        BY <1>4, <2>1, <3>1 DEF NextReclaimed, Hands
  <2>4. CASE ListOwners
    <3>1. NextReclaimed({}) \/ pc' = "xclaim"
        BY <2>4 DEF ListOwners
    <3> QED
        BY <1>4, <2>1, <3>1 DEF NextReclaimed, Hands
  <2> QED
      BY <1>11, <2>2, <2>3, <2>4
<1>12. CASE FindMessage
  <2>1. PICK s \in r.todo :
          \/ pc' \in {"reclaim", "nextPod"}
          \/ LET m == Least(PendingFor(q, s.pod)) IN
             /\ PendingFor(q, s.pod) # {}
             /\ r' = [r EXCEPT !.todo = @ \ {s}, !.at = {s}, !.msg = m]
             /\ pc' = IF q.log[m].deleted \/ s.phase = "succeeded" THEN "ack" ELSE "retire"
      BY <1>12 DEF FindMessage, NextPod
  <2>2. pc = "nextPod" /\ q' = q
      BY <1>12 DEF FindMessage
  <2>3. CASE pc' \in {"reclaim", "nextPod"}
      BY <1>4, <2>2, <2>3 DEF Hands, Busy
  <2>4. CASE LET m == Least(PendingFor(q, s.pod)) IN
             /\ PendingFor(q, s.pod) # {}
             /\ r' = [r EXCEPT !.todo = @ \ {s}, !.at = {s}, !.msg = m]
             /\ pc' = IF q.log[m].deleted \/ s.phase = "succeeded" THEN "ack" ELSE "retire"
    <3>1. PICK m : /\ m = Least(PendingFor(q, s.pod)) /\ PendingFor(q, s.pod) # {}
                   /\ r' = [r EXCEPT !.todo = @ \ {s}, !.at = {s}, !.msg = m]
                   /\ pc' = IF q.log[m].deleted \/ s.phase = "succeeded" THEN "ack" ELSE "retire"
        BY <2>4
    <3>2. PendingFor(q, s.pod) \in SUBSET Nat
        BY Started DEF PendingFor
    <3>3. m \in PendingFor(q, s.pod) /\ r'.msg = m
        BY <1>1, <3>1, <3>2, LeastIsLeast DEF Registers
    <3> QED
        BY <2>2, <3>1, <3>3 DEF HandMove
  <2> QED
      BY <2>1, <2>3, <2>4
<1>13. CASE AckHandled \/ AckRetired
  <2>1. pc \in {"ack", "ackRetired"} /\ Writes = {"ok"}
      BY <1>3, <1>13 DEF AckHandled, AckRetired, FlushSteps
  <2>2. q' = XAck(q, r.msg)
      BY <1>13, <2>1 DEF AckHandled, AckRetired, Acknowledge, Takes
  <2>3. pc' \notin Hands
      BY <1>13 DEF AckHandled, AckRetired, NextPod, Hands
  <2> QED
      BY <2>1, <2>2, <2>3 DEF HandMove
<1>14. ASSUME NEW m \in DOMAIN q.log, RetryOrBury("ok", m) PROVE Replaced(m)
  <2>1. q.log[m].attempts + 1 \in Nat
      BY Started, EntryFields
  <2> QED
      BY <1>14, <2>1 DEF RetryOrBury, Takes, Replaced
<1>15. CASE Retire
  <2>1. pc = "retire" /\ Writes = {"ok"}
      BY <1>3, <1>15 DEF Retire, FlushSteps
  <2>2. RetryOrBury("ok", r.msg) /\ pc' = "ackRetired" /\ r' = r
      BY <1>15, <2>1 DEF Retire
  <2>3. r.msg \in DOMAIN q.log
      BY <2>1 DEF TypeInv, PassMarks, HandlesMessage
  <2> QED
      BY <1>14, <2>1, <2>2, <2>3 DEF HandMove
<1>16. ASSUME NEW batch, NextReclaimed(batch) PROVE Proceeds(batch)
  <2>1. r' = [r EXCEPT !.batch = batch, !.msg = 0,
                       !.finished = IF batch = {} THEN {} ELSE @]
        /\ pc' = IF batch = {} THEN "lag" ELSE "reclaimNext"
      BY <1>16 DEF NextReclaimed
  <2>2. CASE batch = {}
      BY <2>1, <2>2 DEF Proceeds, Hands
  <2>3. CASE batch # {}
      BY <1>1, <2>1, <2>3 DEF Proceeds, Registers
  <2> QED
      BY <2>2, <2>3
<1>17. CASE ClaimStale
  <2>1. pc = "xclaim" /\ Writes = {"ok"}
      BY <1>3, <1>17 DEF ClaimStale, FlushSteps
  <2>2. q' = XClaim(q, r.batch, Reclaimer) /\ NextReclaimed(Claimable(q, r.batch))
      BY <1>17, <2>1 DEF ClaimStale, Takes
  <2> QED
      BY <1>16, <2>1, <2>2 DEF HandMove
<1>18. CASE DeleteStale
  <2>1. pc = "reclaimDel" /\ Writes = {"ok"}
      BY <1>3, <1>18 DEF DeleteStale, FlushSteps
  <2>2. q' = XDel(q, {r.msg}) /\ NextReclaimed(r.batch \ {r.msg})
      BY <1>18, <2>1 DEF DeleteStale, Takes
  <2> QED
      BY <1>16, <2>1, <2>2 DEF HandMove
<1>19. CASE AckFinished
  <2>1. pc = "reclaimNext" /\ Writes = {"ok"} /\ r.batch # {}
      BY <1>2, <1>3, <1>19 DEF AckFinished, FlushSteps, HasBatch
  <2>2. PICK m : m = Least(r.batch)
      OBVIOUS
  <2>3. /\ m \in r.finished /\ q' = XAck(q, m) /\ r' = [r EXCEPT !.msg = m]
        /\ pc' = "reclaimDel"
      BY <1>19, <2>1, <2>2 DEF AckFinished, Takes
  <2>4. r'.msg = m /\ r'.batch = r.batch /\ r'.finished = r.finished /\ m \in r.batch
      BY <1>1, <2>1, <2>2, <2>3 DEF Registers
  <2> QED
      BY <2>1, <2>3, <2>4 DEF HandMove
<1>20. CASE RetireStale
  <2>1. pc = "reclaimNext" /\ Writes = {"ok"} /\ r.batch # {}
      BY <1>2, <1>3, <1>20 DEF RetireStale, FlushSteps, HasBatch
  <2>2. PICK m : m = Least(r.batch)
      OBVIOUS
  <2>3. /\ m \notin r.finished /\ RetryOrBury("ok", m) /\ r' = [r EXCEPT !.msg = m]
        /\ pc' = "reclaimAck"
      BY <1>20, <2>1, <2>2 DEF RetireStale
  <2>4. r'.msg = m /\ r'.batch = r.batch /\ r'.finished = r.finished
        /\ m \in r.batch /\ m \in DOMAIN q.log
      BY <1>1, <2>1, <2>2, <2>3 DEF Registers
  <2>5. Replaced(m)
      BY <1>14, <2>3, <2>4
  <2> QED
      BY <2>1, <2>3, <2>4, <2>5 DEF HandMove
<1>21. CASE AckStale
  <2>1. pc = "reclaimAck" /\ Writes = {"ok"}
      BY <1>3, <1>21 DEF AckStale, FlushSteps
  <2>2. q' = XAck(q, r.msg) /\ pc' = "reclaimDel" /\ r' = r
      BY <1>21, <2>1 DEF AckStale, Acknowledge, Takes
  <2> QED
      BY <2>1, <2>2 DEF HandMove
<1>22. CASE FlushStep
  <2>1. pc \in FlushSteps /\ pc' \in FlushSteps \cup {"save"}
      BY <1>22 DEF FlushStep, FlushBegins, FlushClaim, FlushAck, FlushDel, FlushRest,
         FlushDelRest, FlushDone, FlushReplace, FlushAdd, FlushEnds, FlushSteps
  <2>2. pc \notin Busy /\ pc' \notin Hands
      BY <2>1 DEF FlushSteps, Busy, Hands
  <2>3. CASE FlushBegins \/ FlushRest \/ FlushDone \/ FlushReplace \/ FlushAdd
      BY <1>4, <2>2, <2>3 DEF FlushBegins, FlushRest, FlushDone, FlushReplace, FlushAdd
  <2>4. CASE FlushClaim \/ FlushAck \/ FlushDel \/ FlushDelRest
    <3>1. pc' \in FlushSteps
        BY <2>4 DEF FlushClaim, FlushAck, FlushDel, FlushDelRest, FlushSteps
    <3>2. CASE FlushClaim
        BY <1>4, <2>1, <2>2, <3>1, <3>2 DEF FlushClaim, Takes, HandMove
    <3>3. CASE FlushAck
      <4>1. q' \in {XAck(q, Least(r.batch)), q} /\ Least(r.batch) \in DOMAIN q.log
          BY <1>1, <1>2, <3>3 DEF FlushAck, HasBatch, Takes
      <4> QED
          BY <1>4, <2>1, <2>2, <3>1, <4>1 DEF HandMove
    <3>4. CASE FlushDel \/ FlushDelRest
        BY <1>4, <2>1, <2>2, <3>1, <3>4 DEF FlushDel, FlushDelRest, Takes, HandMove
    <3> QED
        BY <2>4, <3>2, <3>3, <3>4
  <2> QED
      BY <1>22, <2>3, <2>4 DEF FlushStep
<1>23. CASE UNCHANGED vars
    BY <1>23 DEF vars, HandMove
<1> QED
    BY <1>5, <1>6, <1>7, <1>8, <1>9, <1>10, <1>11, <1>12, <1>13, <1>15, <1>17, <1>18,
       <1>19, <1>20, <1>21, <1>22, <1>23
    DEF Next, ReconcileStep, MessageStep

----------------------------------------------------------------------------
(* A file has one live message.                                            *)

\* The message whose successor has been written.
Leaving == IF pc \in Replacing THEN {r.msg} ELSE {}

\* What the reconciler has in hand has been delivered, and is live.
InHandInv ==
    /\ \A i \in DOMAIN q.log : i > q.delivered => q.log[i].owner = NoOne
    /\ pc \in {"ack", "retire", "ackRetired", "reclaimAck"} => r.msg <= q.delivered
    /\ pc \in {"reclaimNext", "reclaimAck", "reclaimDel"} => \A i \in r.batch : i <= q.delivered
    /\ pc = "retire" => r.msg \in Live
    /\ pc = "reclaimNext" => r.batch \subseteq Live
    /\ pc \in {"reclaimAck", "reclaimDel"} => r.batch \ {r.msg} \subseteq Live

\* Initialization fills an empty stream with one message of each file.
FillInv ==
    /\ pc = "list" => Live = {}
    /\ pc = "enqueue" => \A i \in Live : q.log[i].file \notin r.files

\* A file has one live message, apart from the one on its way out.
OneLiveInv ==
    /\ InHandInv /\ FillInv
    /\ \A i, j \in Live \ Leaving : q.log[i].file = q.log[j].file => i = j

\* An acknowledged message that has been delivered is not live.
LEMMA AckedGoes ==
    ASSUME TypeInv, NEW m \in DOMAIN q.log, m <= q.delivered, q' = XAck(q, m)
    PROVE  Live' = Live \ {m}
<1>1. /\ GoodStream(q, Consumers) /\ Live = LiveOf(q) /\ Live' = LiveOf(q')
      /\ DOMAIN q.log \subseteq Nat
    BY Started DEF Live, LiveOf
<1>2. /\ GoodStream(q', Consumers) /\ q'.delivered = q.delivered /\ q'.log[m].owner = NoOne
    BY <1>1, XAckReleases
<1>3. m \notin Live'
    BY <1>1, <1>2, LiveIs, Positions
<1> QED
    BY <1>3, LiveCommands

\* A message that is replaced stays, and at most its successor joins it.
LEMMA ReplacedLives ==
    ASSUME TypeInv, NEW m \in DOMAIN q.log, Replaced(m)
    PROVE  /\ Live \subseteq Live' /\ Live' \subseteq Live \cup {Len(q.log) + 1}
           /\ DOMAIN q.log \subseteq DOMAIN q'.log
           /\ \A i \in DOMAIN q.log : q'.log[i] = q.log[i]
           /\ Len(q.log) + 1 \in Live' => q'.log[Len(q.log) + 1].file = q.log[m].file
           /\ Len(q.log) + 1 \notin DOMAIN q.log
           /\ q'.delivered = q.delivered
<1>1. Len(q.log) + 1 \notin DOMAIN q.log /\ Live \subseteq DOMAIN q.log
      /\ q.log[m].file \in File /\ GoodStream(q, Consumers)
    BY Started
<1>2. CASE q' = q
  <2>1. Live' = Live
      BY <1>2 DEF Live, Undelivered, Pending, Present
  <2> QED
      BY <1>1, <1>2, <2>1
<1>3. ASSUME NEW n \in Nat, q' = XAdd(q, q.log[m].file, n)
      PROVE  /\ Live \subseteq Live' /\ Live' \subseteq Live \cup {Len(q.log) + 1}
             /\ DOMAIN q.log \subseteq DOMAIN q'.log
             /\ \A i \in DOMAIN q.log : q'.log[i] = q.log[i]
             /\ q'.log[Len(q.log) + 1].file = q.log[m].file
             /\ q'.delivered = q.delivered
  <2>1. PICK f \in File : f = q.log[m].file
      BY <1>1
  <2>2. q' = XAdd(q, f, n)
      BY <1>3, <2>1
  <2>3. q'.delivered = q.delivered
      BY <1>1, <2>2, XAddAppends
  <2> QED
      BY <2>1, <2>2, <2>3, AddedFile
<1> QED
    BY <1>1, <1>2, <1>3 DEF Replaced

\* Every step leaves what is in hand delivered and live.
LEMMA InHandStep ==
    ASSUME TypeInv, InHandInv, HandMove, [Next]_vars
    PROVE  InHandInv'
<1>1. /\ DOMAIN q.log \subseteq Nat /\ Live \subseteq DOMAIN q.log
      /\ q.delivered \in Nat /\ q'.delivered \in Nat /\ q.delivered <= q'.delivered
      /\ DOMAIN q.log \subseteq DOMAIN q'.log /\ OwnerMove /\ DOMAIN q'.log \subseteq Nat
      /\ r \in Registers /\ r.batch \subseteq DOMAIN q.log
    BY Started, Positions, OwnerMoves, NextKeepsTypes
    DEF TypeInv, StreamOK, ReconcilerOK, PassMarks
<1>2. /\ \A i \in DOMAIN q.log : i > q.delivered => q.log[i].owner = NoOne
      /\ pc \in {"ack", "retire", "ackRetired", "reclaimAck"} =>
           r.msg <= q.delivered /\ r.msg \in DOMAIN q.log
      /\ pc \in {"reclaimNext", "reclaimAck", "reclaimDel"} => \A i \in r.batch : i <= q.delivered
      /\ pc = "retire" => r.msg \in Live
      /\ pc = "reclaimNext" => r.batch \subseteq Live
      /\ pc \in {"reclaimAck", "reclaimDel"} => r.batch \ {r.msg} \subseteq Live
    BY DEF InHandInv, TypeInv, PassMarks, HandlesMessage
<1>3. \A i \in DOMAIN q'.log : i > q'.delivered => q'.log[i].owner = NoOne
  <2>1. \A p \in Pod : p # NoOne
      BY ConstantsAssumption
  <2> QED
      BY <1>1, <1>2, <2>1 DEF OwnerMove
<1>4. \A i \in DOMAIN q.log : i <= q.delivered => i <= q'.delivered
    BY <1>1
<1>5. pc' \notin Hands => InHandInv'
    BY <1>3 DEF InHandInv, Hands
<1>6. q' = q => Live' = Live
    BY DEF Live, Undelivered, Pending, Present
<1>7. ASSUME UNCHANGED <<pc, r>>, q' = q \/ \E p \in Pod : Undelivered(q) # {} /\ q' = XReadGroup(q, p)
      PROVE  InHandInv'
  <2>1. Live' = Live
      BY <1>6, <1>7, LiveCommands
  <2> QED
      BY <1>1, <1>2, <1>3, <1>4, <1>7, <2>1 DEF InHandInv
<1>8. ASSUME NEW batch, Proceeds(batch), batch \subseteq Live', \A i \in batch : i \in DOMAIN q.log /\ i <= q.delivered
      PROVE  InHandInv'
    BY <1>3, <1>4, <1>5, <1>8 DEF Proceeds, InHandInv
<1>9. CASE pc' \in {"list", "enqueue"}
    BY <1>3, <1>9 DEF InHandInv
<1>10. ASSUME pc = "nextPod", q' = q, NEW s \in r.todo, r'.msg \in PendingFor(q, s.pod),
              \/ pc' = "ack"
              \/ pc' = "retire" /\ ~ q.log[r'.msg].deleted
       PROVE  InHandInv'
  <2>1. s.pod \in Pod /\ s.pod # NoOne
      BY <1>1, ConstantsAssumption DEF Registers, Seen
  <2>2. r'.msg \in DOMAIN q.log /\ q.log[r'.msg].owner # NoOne
      BY <1>10, <2>1 DEF PendingFor
  <2>3. r'.msg <= q.delivered
      BY <1>1, <1>2, <2>2
  <2>4. pc' = "retire" => r'.msg \in Live'
      BY <1>6, <1>10, <2>2 DEF Live, Pending, Present
  <2> QED
      BY <1>3, <1>10, <2>3, <2>4 DEF InHandInv
<1>11. ASSUME pc = "retire", pc' = "ackRetired", r' = r PROVE InHandInv'
    BY <1>2, <1>3, <1>4, <1>11 DEF InHandInv
<1>12. ASSUME pc = "xclaim", q' = XClaim(q, r.batch, Reclaimer),
              Proceeds(Claimable(q, r.batch))
       PROVE  InHandInv'
  <2>1. Claimable(q, r.batch) \subseteq Live' /\ Claimable(q, r.batch) \subseteq Pending(q)
      BY <1>12, LiveCommands DEF Claimable, Live
  <2>2. \A i \in Pending(q) : i \in DOMAIN q.log /\ i <= q.delivered
      BY <1>1, <1>2 DEF Pending
  <2> QED
      BY <1>8, <1>12, <2>1, <2>2
<1>13. ASSUME pc = "reclaimNext", r'.msg \in r.batch, r'.batch = r.batch,
              \/ pc' = "reclaimDel" /\ q' = XAck(q, r'.msg)
              \/ pc' = "reclaimAck" /\ Replaced(r'.msg)
       PROVE  InHandInv'
  <2>1. r'.msg \in DOMAIN q.log
      BY <1>1, <1>13
  <2>2. r.batch \ {r'.msg} \subseteq Live'
      BY <1>2, <1>13, <2>1, LiveCommands, ReplacedLives
  <2> QED
      BY <1>1, <1>2, <1>3, <1>4, <1>13, <2>1, <2>2 DEF InHandInv
<1>14. ASSUME pc = "reclaimAck", pc' = "reclaimDel", r' = r, q' = XAck(q, r.msg)
       PROVE  InHandInv'
  <2>1. r.batch \ {r.msg} \subseteq Live'
      BY <1>2, <1>14, LiveCommands
  <2> QED
      BY <1>1, <1>2, <1>3, <1>4, <1>14, <2>1 DEF InHandInv
<1>15. ASSUME pc = "reclaimDel", q' = XDel(q, {r.msg}), Proceeds(r.batch \ {r.msg})
       PROVE  InHandInv'
  <2>1. r.batch \ {r.msg} \subseteq Live'
      BY <1>2, <1>15, LiveCommands
  <2>2. \A i \in r.batch \ {r.msg} : i \in DOMAIN q.log /\ i <= q.delivered
      BY <1>1, <1>2, <1>15
  <2> QED
      BY <1>8, <1>15, <2>1, <2>2
<1>16. pc' \in FlushSteps => pc' \notin Hands
    BY DEF FlushSteps, Hands
<1>17. pc' = "recount" => pc' \notin Hands
    BY DEF Hands
<1> QED
    BY <1>5, <1>7, <1>9, <1>10, <1>11, <1>12, <1>13, <1>14, <1>15, <1>16, <1>17 DEF HandMove

\* Files are added to an empty stream, one message each.
LEMMA FillStep ==
    ASSUME TypeInv, FillInv, HandMove, [Next]_vars
    PROVE  FillInv'
<1>1. pc' \notin {"list", "enqueue"} => FillInv'
    BY DEF FillInv
<1>2. /\ Live \subseteq DOMAIN q.log /\ \A i \in DOMAIN q.log : q.log[i].file \in File
      /\ r \in Registers /\ GoodStream(q, Consumers)
    BY Started DEF TypeInv, ReconcilerOK
<1>3. q' = q => Live' = Live
    BY DEF Live, Undelivered, Pending, Present
<1>4. ASSUME UNCHANGED <<pc, r>>, q' = q \/ \E p \in Pod : Undelivered(q) # {} /\ q' = XReadGroup(q, p)
      PROVE  FillInv'
  <2>1. Live' = Live
      BY <1>3, <1>4, LiveCommands
  <2>2. \A i \in DOMAIN q.log : q'.log[i].file = q.log[i].file
    <3>1. ASSUME NEW p \in Pod, Undelivered(q) # {}, q' = XReadGroup(q, p)
          PROVE  Extends(q, q')
      <4>1. p \in Consumers
          BY DEF Consumers
      <4> QED
          BY <1>2, <3>1, <4>1, XReadGroupDelivers
    <3> QED
        BY <1>2, <1>4, <3>1, Positions DEF Extends
  <2> QED
      BY <1>2, <1>4, <2>1, <2>2 DEF FillInv
<1>5. ASSUME pc = "inspect", pc' = "list", Length(q) = 0, q' = q PROVE FillInv'
  <2>1. Present(q) = {}
    <3>1. IsFiniteSet(Present(q))
        BY <1>2, ReadsArePositions, Positions
    <3> QED
        BY <1>5, <3>1, FS_EmptySet DEF Length
  <2>2. Live = {}
      BY <2>1 DEF Live, Undelivered
  <2> QED
      BY <1>3, <1>5, <2>2 DEF FillInv
<1>6. ASSUME pc = "list", pc' = "enqueue", q' = q PROVE FillInv'
    BY <1>3, <1>6 DEF FillInv
<1>7. ASSUME pc = "enqueue", pc' \in {"enqueue", "recount"}, NEW f \in r.files,
             q' = XAdd(q, f, 0), r'.files = r.files \ {f}
      PROVE  FillInv'
  <2>1. f \in File /\ 0 \in Nat
      BY <1>2 DEF Registers
  <2>2. /\ Live' = Live \cup {Len(q.log) + 1}
        /\ q'.log[Len(q.log) + 1].file = f
        /\ \A i \in DOMAIN q.log : q'.log[i] = q.log[i]
      BY <1>7, <2>1, AddedFile
  <2> QED
      BY <1>2, <1>7, <2>2 DEF FillInv
<1>8. \A batch : Proceeds(batch) => pc' \notin {"list", "enqueue"}
    BY DEF Proceeds, Hands
<1>9. pc' \notin Hands \/ pc' \in FlushSteps => pc' \notin {"list", "enqueue"}
    BY DEF Hands, FlushSteps
<1> QED
    BY <1>1, <1>4, <1>5, <1>6, <1>7, <1>8, <1>9 DEF HandMove

\* How the messages change that are live and not on their way out: none joins
\* them, or a file is added, or a message leaves and its successor joins.
LiveMove ==
    LET new == Len(q.log) + 1 IN
    \/ Live' \ Leaving' \subseteq Live \ Leaving
    \/ /\ pc = "enqueue" /\ Live' = Live \cup {new} /\ q'.log[new].file \in r.files
       /\ Leaving = {} /\ Leaving' = {}
    \/ /\ pc \notin Replacing /\ pc' \in Replacing /\ r'.msg \in Live
       /\ Live' \subseteq Live \cup {new}
       /\ new \in Live' => q'.log[new].file = q.log[r'.msg].file

\* Every step does no more to the live messages.
LEMMA LiveMoves ==
    ASSUME TypeInv, InHandInv, HandMove
    PROVE  LiveMove
<1>1. /\ DOMAIN q.log \subseteq Nat /\ Live \subseteq DOMAIN q.log
      /\ r \in Registers /\ r.batch \subseteq DOMAIN q.log
      /\ pc \in HandlesMessage => r.msg \in DOMAIN q.log
    BY Started DEF TypeInv, ReconcilerOK, PassMarks
<1>2. q' = q => Live' = Live
    BY DEF Live, Undelivered, Pending, Present
<1>3. ASSUME UNCHANGED <<pc, r>>, q' = q \/ \E p \in Pod : Undelivered(q) # {} /\ q' = XReadGroup(q, p)
      PROVE  LiveMove
  <2>1. Live' = Live
      BY <1>2, <1>3, LiveCommands
  <2> QED
      BY <1>3, <2>1 DEF Leaving, LiveMove
<1>4. ASSUME pc \notin Replacing, Live' \subseteq Live PROVE LiveMove
    BY <1>4 DEF Leaving, LiveMove
<1>5. ASSUME pc \in FlushSteps,
             \/ \E m \in DOMAIN q.log : q' = XAck(q, m)
             \/ \E ids : q' = XDel(q, ids)
             \/ \E ids : q' = XClaim(q, ids, Flusher)
      PROVE  LiveMove
  <2>1. Live' \subseteq Live
      BY <1>5, LiveCommands
  <2> QED
      BY <1>4, <1>5, <2>1 DEF FlushSteps, Replacing
<1>6. ASSUME pc \in {"inspect", "list", "nextPod"}, q' = q PROVE LiveMove
    BY <1>2, <1>4, <1>6 DEF Replacing
<1>7. ASSUME pc = "enqueue", pc' \in {"enqueue", "recount"}, NEW f \in r.files, q' = XAdd(q, f, 0)
      PROVE  LiveMove
  <2>1. f \in File /\ 0 \in Nat
      BY <1>1 DEF Registers
  <2>2. Live' = Live \cup {Len(q.log) + 1} /\ q'.log[Len(q.log) + 1].file = f
      BY <1>7, <2>1, AddedFile
  <2> QED
      BY <1>7, <2>2 DEF Leaving, Replacing, LiveMove
<1>8. ASSUME pc \in {"ack", "ackRetired", "reclaimAck"}, q' = XAck(q, r.msg) PROVE LiveMove
  <2>1. r.msg \in DOMAIN q.log /\ r.msg <= q.delivered
      BY <1>1, <1>8 DEF InHandInv, HandlesMessage
  <2>2. Live' = Live \ {r.msg}
      BY <1>8, <2>1, AckedGoes
  <2> QED
      BY <2>2 DEF Leaving, LiveMove
<1>9. ASSUME NEW m \in Live, pc \notin Replacing, pc' \in Replacing, r'.msg = m, Replaced(m)
      PROVE  LiveMove
    BY <1>1, <1>9, ReplacedLives DEF LiveMove
<1>10. ASSUME pc = "retire", pc' = "ackRetired", r' = r, Replaced(r.msg) PROVE LiveMove
  <2>1. r.msg \in Live
      BY <1>10 DEF InHandInv
  <2> QED
      BY <1>9, <1>10, <2>1 DEF Replacing
<1>11. ASSUME pc = "xclaim", q' = XClaim(q, r.batch, Reclaimer) PROVE LiveMove
  <2>1. Live' = Live
      BY <1>11, LiveCommands
  <2> QED
      BY <1>4, <1>11, <2>1 DEF Replacing
<1>12. ASSUME pc = "reclaimNext", r'.msg \in r.batch, q' = XAck(q, r'.msg) PROVE LiveMove
  <2>1. Live' \subseteq Live
      BY <1>1, <1>12, LiveCommands
  <2> QED
      BY <1>4, <1>12, <2>1 DEF Replacing
<1>13. ASSUME pc = "reclaimNext", r'.msg \in r.batch, pc' = "reclaimAck", Replaced(r'.msg)
       PROVE  LiveMove
  <2>1. PICK m \in Live : m = r'.msg
      BY <1>13 DEF InHandInv
  <2> QED
      BY <1>9, <1>13, <2>1 DEF Replacing
<1>14. ASSUME pc = "reclaimDel", q' = XDel(q, {r.msg}) PROVE LiveMove
  <2>1. Live' \subseteq Live
      BY <1>14, LiveCommands
  <2> QED
      BY <1>4, <1>14, <2>1 DEF Replacing
<1> QED
    BY <1>2, <1>3, <1>4, <1>5, <1>6, <1>7, <1>8, <1>10, <1>11, <1>12, <1>13, <1>14
    DEF HandMove, Busy, Replacing

\* A message gets a successor only when it is on its way out, and the file of
\* a new message has no other.
LEMMA OneLiveStep ==
    ASSUME TypeInv, OneLiveInv, HandMove, Effects, [Next]_vars
    PROVE  OneLiveInv'
<1> DEFINE new == Len(q.log) + 1
<1>1. InHandInv /\ FillInv /\ InHandInv' /\ FillInv' /\ LiveMove
    BY InHandStep, FillStep, LiveMoves DEF OneLiveInv
<1>2. /\ Live \subseteq DOMAIN q.log /\ new \notin DOMAIN q.log
      /\ \A i \in DOMAIN q.log : q'.log[i].file = q.log[i].file
    BY Started DEF Effects
<1>3. \A i, j \in Live \ Leaving : q.log[i].file = q.log[j].file => i = j
    BY DEF OneLiveInv
<1>4. SUFFICES ASSUME NEW i \in Live' \ Leaving', NEW j \in Live' \ Leaving',
                      q'.log[i].file = q'.log[j].file
               PROVE  i = j
    BY <1>1 DEF OneLiveInv
<1> HIDE DEF new
<1>5. CASE Live' \ Leaving' \subseteq Live \ Leaving
    BY <1>2, <1>3, <1>4, <1>5
<1>6. CASE /\ pc = "enqueue" /\ Live' = Live \cup {new} /\ q'.log[new].file \in r.files
           /\ Leaving = {}
    BY <1>1, <1>2, <1>3, <1>4, <1>6 DEF FillInv
<1>7. CASE /\ pc \notin Replacing /\ pc' \in Replacing /\ r'.msg \in Live
           /\ Live' \subseteq Live \cup {new}
           /\ new \in Live' => q'.log[new].file = q.log[r'.msg].file
  <2>1. Leaving = {} /\ Leaving' = {r'.msg}
      BY <1>7 DEF Leaving
  <2>2. \A k \in Live : q.log[k].file = q.log[r'.msg].file => k = r'.msg
      BY <1>3, <1>7, <2>1
  <2> QED
      BY <1>2, <1>3, <1>4, <1>7, <2>1, <2>2
<1> QED
    BY <1>1, <1>5, <1>6, <1>7 DEF LiveMove, new

\* As long as no call fails outside a flush and the reconciler is not restarted
\* there, a file has one live message, but for the moment between the two calls
\* that replace a message (handleFailedPodMessage, runReclaimer); lost replies
\* to claimers, pods that recover and Jobs that expire do no harm.
THEOREM FilesHaveOneMessage ==
    ASSUME "call" \notin Faults, "crash" \notin Faults
    PROVE  Spec => []OneLiveMessage
<1>1. ASSUME Init PROVE TypeInv /\ OneLiveInv
  <2>1. q.log = << >> /\ pc = "idle"
      BY <1>1 DEF Init, EmptyStream
  <2>2. DOMAIN q.log = {}
      BY <2>1
  <2>3. Live = {}
      BY <2>2 DEF Live, Undelivered, Pending, Present
  <2> QED
      BY <1>1, <2>1, <2>2, <2>3, InitTypes DEF OneLiveInv, InHandInv, FillInv
<1>2. (TypeInv /\ OneLiveInv) /\ [Next]_vars => (TypeInv /\ OneLiveInv)'
    BY NextKeepsTypes, HandMoves, FileMoves, FileEffects, OneLiveStep
<1>3. OneLiveInv => OneLiveMessage
    BY DEF OneLiveInv, OneLiveMessage, Leaving, Replacing
<1> QED
    BY <1>1, <1>2, <1>3, PTL DEF Spec

----------------------------------------------------------------------------
(* A message that was processed is not retried.                            *)

\* The pods that process no message any more, when those that could not start
\* never do.
Doomed == {"failed", "gone", "crashed", "stuck"}

\* What a step may do to the pods then.
PodTurn ==
    \A p \in Pod :
        /\ pods[p].phase \in Doomed => pods'[p].phase \in Doomed
        /\ pods[p].phase = "succeeded" => pods'[p].phase \in {"succeeded", "gone"}
        /\ pods'[p].phase = "succeeded" => pods[p].phase \in {"running", "succeeded"}
        /\ pods'[p].phase \in {"starting", "running"} =>
             pods[p].phase \in {"starting", "running"} \/ Claim(p)
        /\ pods'[p].work = pods[p].work \/ Claim(p)

\* A claimer takes the first undelivered message, and nobody else moves.
LEMMA ClaimTakes ==
    ASSUME TypeInv, NEW p \in Pod, Claim(p)
    PROVE  /\ pods[p].phase = "claiming" /\ pods'[p].phase = "starting"
           /\ pods'[p].work = Least(Undelivered(q))
           /\ \A x \in Pod : x # p => pods'[x] = pods[x]
           /\ UNCHANGED <<pc, r>>
    BY DEF Claim, TypeInv, ClusterOK, Pods, Reconciler

\* Pods are moved by themselves, by the end of their Job and by the reconciler.
LEMMA PodsMove ==
    ASSUME [Next]_vars
    PROVE  UNCHANGED pods \/ (\E p \in Pod : PodStep(p)) \/ JobExpires \/ DeletePod
<1>1. JobCompletes \/ JobGivesUp \/ JobFails => UNCHANGED pods
    BY DEF JobCompletes, JobGivesUp, JobFails, JobBecomes
<1>2. ReconcileStep => UNCHANGED pods
    BY DEF ReconcileStep, Begin, Save, SaveStart, Inspect, List, Enqueue,
       Recount, FindJob, CreateJob, ReadLag, ReadPending, CheckFailure, StillRunning,
       CheckCompletion, Restart, NoEffect, cluster
<1>3. MessageStep => UNCHANGED pods \/ DeletePod
    BY DEF MessageStep, ListPods, FindMessage, AckHandled, Retire, AckRetired, FindStale,
       ListOwners, ClaimStale, AckFinished, RetireStale, AckStale, DeleteStale
<1>4. FlushStep => UNCHANGED pods
    BY DEF FlushStep, FlushBegins, FlushClaim, FlushAck, FlushDel, FlushRest,
       FlushDelRest, FlushDone, FlushReplace, FlushAdd, Outside, cluster
<1> QED
    BY <1>1, <1>2, <1>3, <1>4 DEF Next, ClusterStep, JobStep, vars

\* Every step does no more to the pods.
LEMMA PodTurns ==
    ASSUME "recover" \notin PodFaults, TypeInv,
           \A p \in Pod : EmptyHanded(p) => pods[p].work = 0, [Next]_vars
    PROVE  PodTurn
<1>1. pods \in Pods
    BY DEF TypeInv, ClusterOK
<1>2. UNCHANGED pods => PodTurn
    BY DEF PodTurn
<1>3. ASSUME NEW p \in Pod, NEW phase,
             pods' = [pods EXCEPT ![p].phase = phase],
             pods[p].phase \in Doomed => phase \in Doomed,
             pods[p].phase = "succeeded" => phase = "gone",
             phase = "succeeded" => pods[p].phase = "running",
             phase \in {"starting", "running"} => pods[p].phase = "starting"
      PROVE  PodTurn
  <2>1. /\ pods'[p].phase = phase /\ pods'[p].work = pods[p].work
        /\ \A x \in Pod : x # p => pods'[x] = pods[x]
      BY <1>1, <1>3 DEF Pods
  <2> QED
      BY <1>3, <2>1 DEF PodTurn
<1>4. ASSUME NEW p \in Pod, PodStep(p) PROVE PodTurn
  <2>1. CASE StartPod(p)
    <3>1. /\ pods[p].phase = "unborn" /\ pods'[p].phase = "claiming" /\ pods'[p].work = 0
          /\ \A x \in Pod : x # p => pods'[x] = pods[x]
        BY <1>1, <2>1 DEF StartPod, Pods
    <3>2. pods[p].work = 0
        BY <3>1 DEF EmptyHanded
    <3> QED
        BY <3>1, <3>2 DEF PodTurn, Doomed
  <2>2. CASE Claim(p)
      BY <2>2, ClaimTakes DEF PodTurn, Doomed
  <2>3. CASE ClaimReplyLost(p)
      BY <1>2, <2>3 DEF ClaimReplyLost, cluster
  <2>4. CASE Start(p) \/ Crash(p) \/ Succeed(p) \/ Stick(p)
      BY <1>3, <2>4 DEF Start, Crash, Succeed, Stick, Becomes, Doomed
  <2>5. CASE Fail(p)
      BY <1>3, <2>5 DEF Fail, Becomes, Doomed
  <2>6. CASE Evict(p) \/ TerminatePod(p)
      BY <1>3, <2>6 DEF Evict, TerminatePod, Active, Becomes, Doomed, ActivePhases,
         PendingPhases
  <2>7. ~ Recover(p)
      BY DEF Recover
  <2> QED
      BY <1>4, <2>1, <2>2, <2>3, <2>4, <2>5, <2>6, <2>7 DEF PodStep
<1>5. ASSUME \A p \in Pod : \/ pods'[p] = pods[p]
                            \/ pods'[p].phase = "gone" /\ pods'[p].work = pods[p].work
      PROVE  PodTurn
    BY <1>5 DEF PodTurn, Doomed
<1>6. CASE JobExpires
  <2>1. \A p \in Pod : pods'[p] \in {pods[p], [pods[p] EXCEPT !.phase = "gone"]}
      BY <1>1, <1>6 DEF JobExpires, Pods
  <2>2. \A p \in Pod : \/ pods'[p] = pods[p]
                       \/ pods'[p].phase = "gone" /\ pods'[p].work = pods[p].work
      BY <1>1, <2>1 DEF Pods
  <2> QED
      BY <1>5, <2>2
<1>7. CASE DeletePod
  <2>1. PICK out \in Writes, s \in r.at :
            pods' = Takes(out, [pods EXCEPT ![s.pod].phase =
                                IF @ \in ActivePhases THEN "gone" ELSE @], pods)
      BY <1>7 DEF DeletePod
  <2>2. s.pod \in Pod
      BY DEF TypeInv, ReconcilerOK, Registers, Seen
  <2>3. \A x \in Pod : \/ pods'[x] = pods[x]
                       \/ pods'[x].phase = "gone" /\ pods'[x].work = pods[x].work
      BY <1>1, <2>1, <2>2 DEF Takes, Pods
  <2> QED
      BY <1>5, <2>3
<1> QED
    BY <1>2, <1>4, <1>6, <1>7, PodsMove

\* The messages that pods work on: each has been delivered to one of them.
OnceInv ==
    /\ \A p \in Pod : EmptyHanded(p) => pods[p].work = 0
    /\ \A p \in Pod : pods[p].work <= q.delivered
    /\ \A p, o \in Pod : pods[p].work = pods[o].work /\ pods[p].work # 0 => p = o
    /\ \A i \in DOMAIN q.log, p, o \in Pod :
         q.log[i].owner = p /\ pods[o].work = i => o = p
    /\ \A p \in Pod : pods[p].phase = "succeeded" => WorkDone(p)

\* XREADGROUP hands a message out once.
LEMMA OnceStep ==
    ASSUME TypeInv, OnceInv, PodTurn, WorkMove, Effects, [Next]_vars
    PROVE  OnceInv'
<1>1. /\ \A p \in Pod : pods[p].work <= q.delivered /\ pods[p].work \in Nat
      /\ \A p, o \in Pod : pods[p].work = pods[o].work /\ pods[p].work # 0 => p = o
      /\ \A i \in DOMAIN q.log, p, o \in Pod :
           q.log[i].owner = p /\ pods[o].work = i => o = p
      /\ \A p \in Pod : pods[p].phase = "succeeded" => WorkDone(p)
    BY DEF OnceInv, TypeInv, ClusterOK, Pods
<1>2. /\ OwnerMove /\ q.delivered <= q'.delivered
      /\ q.delivered \in Nat /\ q'.delivered \in Nat /\ DOMAIN q.log \subseteq Nat \ {0}
      /\ DOMAIN q.log \subseteq DOMAIN q'.log /\ DOMAIN q'.log \subseteq Nat \ {0}
    BY OwnerMoves, NextKeepsTypes, Positions DEF TypeInv, StreamOK
<1>3. ASSUME NEW p \in Pod, Claim(p)
      PROVE  /\ pods[p].phase = "claiming" /\ pods[p].work = 0
             /\ q.delivered < pods'[p].work /\ pods'[p].work = q'.delivered
             /\ q'.log[pods'[p].work].owner = p
             /\ \A o \in Pod : o # p => pods'[o].work = pods[o].work
  <2>1. /\ pods[p].phase = "claiming" /\ pods'[p].work = Least(Undelivered(q))
        /\ \A o \in Pod : o # p => pods'[o] = pods[o]
        /\ Undelivered(q) # {} /\ q' = XReadGroup(q, p)
      BY <1>3, ClaimTakes DEF Claim
  <2>2. GoodStream(q, Consumers) /\ p \in Consumers
      BY Started
  <2>3. /\ Least(Undelivered(q)) \in Undelivered(q)
        /\ q'.delivered = Least(Undelivered(q))
        /\ q'.log[Least(Undelivered(q))].owner = p
      BY <2>1, <2>2, XReadGroupDelivers
  <2>4. pods[p].work = 0
      BY <2>1 DEF OnceInv, EmptyHanded
  <2> QED
      BY <2>1, <2>3, <2>4 DEF Undelivered
<1>4. \A p \in Pod : pods'[p].work = pods[p].work \/ Claim(p)
    BY DEF PodTurn
<1>5. \A p \in Pod : pods'[p].work <= q'.delivered /\ pods'[p].work \in Nat
  <2>1. \A p \in Pod : pods'[p].work \in Nat
      BY NextKeepsTypes DEF TypeInv, ClusterOK, Pods
  <2> QED
      BY <1>1, <1>2, <1>3, <1>4, <2>1
<1>6. ASSUME NEW p \in Pod, NEW o \in Pod, pods'[p].work = pods'[o].work, pods'[p].work # 0
      PROVE  p = o
    BY <1>1, <1>2, <1>3, <1>4, <1>6
<1>7. ASSUME NEW i \in DOMAIN q'.log, NEW p \in Pod, NEW o \in Pod,
             q'.log[i].owner = p, pods'[o].work = i
      PROVE  o = p
  <2>1. CASE Claim(o)
      BY <1>3, <1>7, <2>1
  <2>2. CASE ~ Claim(o)
    <3>1. pods[o].work = i
        BY <1>4, <1>7, <2>2
    <3>2. i <= q.delivered /\ i \in DOMAIN q.log
        BY <1>1, <1>2, <1>7, <3>1 DEF TypeInv, PodMarks
    <3>3. p # NoOne /\ p # Reclaimer /\ p # Flusher
        BY ConstantsAssumption
    <3>4. q.log[i].owner = p
        BY <1>2, <1>7, <3>2, <3>3 DEF OwnerMove
    <3> QED
        BY <1>1, <3>1, <3>2, <3>4
  <2> QED
      BY <2>1, <2>2
<1>8. ASSUME NEW p \in Pod, pods'[p].phase = "succeeded" PROVE WorkDone(p)'
  <2>1. CASE pods[p].phase = "succeeded"
      BY <1>1, <2>1, WorkStays
  <2>2. CASE pods[p].phase = "running" /\ q.log[pods[p].work].file \in processed'
    <3>1. ~ EmptyHanded(p) /\ pods[p].work \in DOMAIN q.log
        BY <2>2 DEF EmptyHanded, TypeInv, PodMarks
    <3>2. ~ EmptyHanded(p)' /\ pods'[p].work = pods[p].work
        BY <3>1 DEF WorkMove
    <3>3. pods'[p].work \in DOMAIN q'.log /\ q'.log[pods'[p].work].file \in processed'
        BY <2>2, <3>1, <3>2 DEF Effects
    <3> QED
        BY <3>2, <3>3 DEF WorkDone
  <2> QED
      BY <1>8, <2>1, <2>2 DEF WorkMove
<1>9. \A p \in Pod : EmptyHanded(p)' => pods'[p].work = 0
    BY DEF WorkMove
<1> QED
    BY <1>5, <1>6, <1>7, <1>8, <1>9 DEF OnceInv

----------------------------------------------------------------------------
(* The Job and its pods.                                                   *)

\* Only the pods of the current Job are active, and none is once the Job has
\* failed; a flush begins then, and a run that has not started has no Job.
JobInv ==
    /\ \A p \in Pod : pods[p].phase \in ActivePhases => pods[p].run = job.run
    /\ job.state \in {"failed", "absent"} => \A p \in Pod : pods[p].phase \notin ActivePhases
    /\ pc \in FlushSteps => job.state \in {"failed", "absent"}
    /\ ~ cr.started => job.state = "absent" /\ \A p \in Pod : pods[p].phase = "unborn"

\* The Job is created by the reconciler and moved by the Job controller.
LEMMA JobMoves ==
    ASSUME [Next]_vars
    PROVE  UNCHANGED job \/ JobStep \/ CreateJob
<1>1. \A p \in Pod : PodStep(p) => UNCHANGED job
    BY DEF PodStep, StartPod, TerminatePod, Claim, ClaimReplyLost, Start, Succeed, Fail, Crash,
       Stick, Recover, Evict, Becomes, cluster
<1>2. ReconcileStep => UNCHANGED job \/ CreateJob
    BY DEF ReconcileStep, Begin, Save, SaveStart, Inspect, List, Enqueue, Recount, FindJob,
       ReadLag, ReadPending, CheckFailure, StillRunning, CheckCompletion, Restart, NoEffect,
       cluster
<1>3. MessageStep => UNCHANGED job
    BY DEF MessageStep, ListPods, FindMessage, AckHandled, Retire, AckRetired, DeletePod,
       FindStale, ListOwners, ClaimStale, AckFinished, RetireStale, AckStale, DeleteStale, Frame
<1>4. FlushStep => UNCHANGED job
    BY DEF FlushStep, FlushBegins, FlushClaim, FlushAck, FlushDel, FlushRest,
       FlushDelRest, FlushDone, FlushReplace, FlushAdd, Outside, cluster
<1> QED
    BY <1>1, <1>2, <1>3, <1>4 DEF Next, ClusterStep, vars

\* A pod becomes active only as a pod of the current Job.
LEMMA RunTurns ==
    ASSUME TypeInv, [Next]_vars, NEW x \in Pod
    PROVE  \/ /\ pods'[x].run = pods[x].run
              /\ pods'[x].phase \in ActivePhases => pods[x].phase \in ActivePhases
           \/ job.state = "active" /\ UNCHANGED job /\ pods'[x].run = job.run
<1> DEFINE Goal == \/ /\ pods'[x].run = pods[x].run
                      /\ pods'[x].phase \in ActivePhases => pods[x].phase \in ActivePhases
                   \/ job.state = "active" /\ UNCHANGED job /\ pods'[x].run = job.run
<1>1. pods \in Pods
    BY DEF TypeInv, ClusterOK
<1>2. ASSUME NEW p \in Pod, PodStep(p) PROVE Goal
  <2>1. CASE StartPod(p)
    <3>1. job.state = "active" /\ UNCHANGED job /\ pods'[p].run = job.run
          /\ (x # p => pods'[x] = pods[x])
        BY <1>1, <2>1 DEF StartPod, Pods
    <3> QED
        BY <3>1
  <2>2. CASE Claim(p)
    <3>1. pods'[p].run = pods[p].run /\ pods[p].phase = "claiming"
          /\ (x # p => pods'[x] = pods[x])
        BY <1>1, <2>2 DEF Claim, Pods
    <3> QED
        BY <3>1 DEF ActivePhases, PendingPhases
  <2>3. CASE ClaimReplyLost(p)
      BY <2>3 DEF ClaimReplyLost, cluster
  <2>4. ASSUME NEW phase, pods' = [pods EXCEPT ![p].phase = phase],
               phase \in ActivePhases => pods[p].phase \in ActivePhases
        PROVE  Goal
    <3>1. /\ pods'[p].phase = phase /\ pods'[p].run = pods[p].run
          /\ (x # p => pods'[x] = pods[x])
        BY <1>1, <2>4 DEF Pods
    <3> QED
        BY <2>4, <3>1
  <2>5. CASE \/ Start(p) \/ Succeed(p) \/ Fail(p) \/ Crash(p) \/ Stick(p) \/ Recover(p)
             \/ Evict(p) \/ TerminatePod(p)
      BY <2>4, <2>5 DEF Start, Succeed, Fail, Crash, Stick, Recover, Evict, TerminatePod,
         Active, Becomes, ActivePhases, PendingPhases
  <2> QED
      BY <1>2, <2>1, <2>2, <2>3, <2>5 DEF PodStep
<1>3. CASE JobExpires
  <2>1. pods'[x] \in {pods[x], [pods[x] EXCEPT !.phase = "gone"]}
      BY <1>1, <1>3 DEF JobExpires, Pods
  <2>2. pods'[x] = pods[x] \/ (pods'[x].phase = "gone" /\ pods'[x].run = pods[x].run)
      BY <1>1, <2>1 DEF Pods
  <2> QED
      BY <2>2 DEF ActivePhases, PendingPhases
<1>4. CASE DeletePod
  <2>1. PICK out \in Writes, s \in r.at :
            pods' = Takes(out, [pods EXCEPT ![s.pod].phase =
                                IF @ \in ActivePhases THEN "gone" ELSE @], pods)
      BY <1>4 DEF DeletePod
  <2>2. s.pod \in Pod
      BY DEF TypeInv, ReconcilerOK, Registers, Seen
  <2>3. \/ pods'[x] = pods[x]
        \/ pods'[x].phase = "gone" /\ pods'[x].run = pods[x].run
      BY <1>1, <2>1, <2>2 DEF Takes, Pods
  <2> QED
      BY <2>3 DEF ActivePhases, PendingPhases
<1> QED
    BY <1>2, <1>3, <1>4, PodsMove

\* A flush begins when the Job has failed.
LEMMA FlushEntered ==
    ASSUME [Next]_vars, pc' \in FlushSteps
    PROVE  pc \in FlushSteps \/ (job.state = "failed" /\ UNCHANGED job)
<1> USE DEF GoTo
<1>1. CASE ClusterStep
    BY <1>1 DEF ClusterStep, PodStep, JobStep, StartPod, TerminatePod, Claim,
       ClaimReplyLost, Start, Succeed, Fail, Crash, Stick, Recover, Evict, Becomes,
       JobCompletes, JobGivesUp, JobFails, JobExpires, JobBecomes, Reconciler
<1>2. CASE ReconcileStep
    BY <1>2 DEF ReconcileStep, Begin, Save, SaveStart, Inspect, List, Enqueue, Recount,
       FindJob, CreateJob, ReadLag, ReadPending, CheckFailure, StillRunning,
       CheckCompletion, Restart, Finish, GiveUp, Initialized, JobError, NoEffect, cluster,
       FlushSteps
<1>3. ~ MessageStep
    BY DEF MessageStep, ListPods, FindMessage, AckHandled, Retire, AckRetired, DeletePod,
       FindStale, ListOwners, ClaimStale, AckFinished, RetireStale, AckStale, DeleteStale,
       NextPod, NextReclaimed, FlushSteps
<1>4. FlushStep => pc \in FlushSteps
    BY DEF FlushStep, FlushBegins, FlushClaim, FlushAck, FlushDel, FlushRest, FlushDelRest,
       FlushDone, FlushReplace, FlushAdd, FlushSteps
<1> QED
    BY <1>1, <1>2, <1>3, <1>4 DEF Next, vars

\* A new Job is created when the pods of the last one have come to an end.
LEMMA JobInvStep ==
    ASSUME TypeInv, PhaseInv, JobInv, [Next]_vars
    PROVE  JobInv'
<1>1. /\ job \in Jobs /\ pods \in Pods
      /\ \A p \in Pod : pods[p].phase \in ActivePhases => pods[p].run = job.run
      /\ job.state \in {"failed", "absent"} => \A p \in Pod : pods[p].phase \notin ActivePhases
      /\ pc \in FlushSteps => job.state \in {"failed", "absent"}
      /\ ~ cr.started => job.state = "absent" /\ \A p \in Pod : pods[p].phase = "unborn"
    BY DEF JobInv, TypeInv, ClusterOK
<1>2. \/ /\ job'.run = job.run
         /\ \/ job'.state = job.state
            \/ {job.state, job'.state} \cap {"failed", "absent"} = {}
            \/ job'.state = "failed" /\ Active = {} /\ UNCHANGED pods
            \/ job'.state = "absent" /\ JobExpires
      \/ CreateJob /\ job.state = "absent" /\ job'.state = "active" /\ UNCHANGED pods
  <2>1. CASE UNCHANGED job
      BY <2>1
  <2>2. CASE JobCompletes \/ JobGivesUp
    <3>1. /\ job.state = "active" /\ job'.state \in {"complete", "failing"}
          /\ job'.run = job.run
        BY <1>1, <2>2 DEF JobCompletes, JobGivesUp, JobBecomes, Jobs
    <3> QED
        BY <3>1
  <2>3. CASE JobFails
      BY <1>1, <2>3 DEF JobFails, JobBecomes, Jobs
  <2>4. CASE JobExpires
    <3>1. job'.state = "absent" /\ job'.run = job.run
        BY <1>1, <2>4 DEF JobExpires, Jobs
    <3> QED
        BY <2>4, <3>1
  <2>5. CASE CreateJob
    <3>1. UNCHANGED pods /\ (UNCHANGED job \/ (job.state = "absent" /\ job'.state = "active"))
        BY <2>5 DEF CreateJob, Takes
    <3> QED
        BY <2>1, <2>5, <3>1
  <2> QED
      BY <2>1, <2>2, <2>3, <2>4, <2>5, JobMoves DEF JobStep
<1>3. ASSUME NEW p \in Pod, pods'[p].phase \in ActivePhases PROVE pods'[p].run = job'.run
    BY <1>1, <1>2, <1>3, RunTurns
<1>4. ASSUME job'.state \in {"failed", "absent"}, NEW p \in Pod
      PROVE  pods'[p].phase \notin ActivePhases
  <2>1. CASE job'.state = job.state
    <3>1. pods[p].phase \notin ActivePhases /\ job.state # "active"
        BY <1>1, <1>4, <2>1
    <3> QED
        BY <3>1, RunTurns
  <2>2. CASE Active = {} /\ UNCHANGED pods
      BY <1>1, <2>2 DEF Active, OfJob
  <2>3. CASE JobExpires
    <3>1. OfJob(p) => pods'[p] = [pods[p] EXCEPT !.phase = "gone"]
        BY <1>1, <2>3 DEF JobExpires
    <3>2. ~ OfJob(p) => pods'[p] = pods[p]
        BY <1>1, <2>3 DEF JobExpires
    <3>3. OfJob(p) => pods'[p].phase = "gone"
        BY <1>1, <3>1 DEF Pods
    <3> QED
        BY <1>1, <3>2, <3>3 DEF OfJob, ActivePhases, PendingPhases
  <2> QED
      BY <1>2, <1>4, <2>1, <2>2, <2>3
<1>5. ASSUME pc' \in FlushSteps PROVE job'.state \in {"failed", "absent"}
  <2>1. pc \in FlushSteps \/ (job.state = "failed" /\ UNCHANGED job)
      BY <1>5, FlushEntered
  <2>2. pc \in FlushSteps => ~ CreateJob
      BY DEF CreateJob, FlushSteps
  <2> QED
      BY <1>1, <1>2, <2>1, <2>2
<1>6. ASSUME ~ cr'.started
      PROVE  job'.state = "absent" /\ \A p \in Pod : pods'[p].phase = "unborn"
  <2>1. ~ cr.started /\ pc \in InitSteps \cup {"idle", "save"}
      BY <1>6, ControlStep DEF PhaseInv
  <2>2. job.state = "absent" /\ \A p \in Pod : pods[p].phase = "unborn"
      BY <1>1, <2>1
  <2>3. ~ CreateJob /\ ~ DeletePod
      BY <2>1 DEF CreateJob, DeletePod, InitSteps
  <2>4. ~ JobStep
      BY <2>2 DEF JobStep, JobCompletes, JobGivesUp, JobFails, JobExpires
  <2>5. ~ JobExpires /\ \A p \in Pod : PodStep(p) => UNCHANGED pods
      BY <2>2 DEF JobExpires, PodStep, StartPod, TerminatePod, Claim, ClaimReplyLost, Start,
         Succeed, Fail, Crash, Stick, Recover, Evict, ActivePhases, PendingPhases
  <2> QED
      BY <2>2, <2>3, <2>4, <2>5, JobMoves, PodsMove
<1> QED
    BY <1>3, <1>4, <1>5, <1>6 DEF JobInv

----------------------------------------------------------------------------
(* The number of files.                                                    *)

\* How many files initialization added to the stream.
Admitted == Cardinality(admitted)

\* The total of a run, and with it the completions of its Job, are no less
\* than the number of files that initialization added to the stream.
TotalInv ==
    /\ pc \in {"inspect", "list", "enqueue", "recount"} => ~ pi.started
    /\ pi.started => Admitted <= pi.total
    /\ cr.started => Admitted <= cr.total
    /\ job.state # "absent" => Admitted <= job.completions

\* Until the run has started, no more files were added than the stream has
\* messages.
LEMMA LengthCounts ==
    ASSUME TypeInv, PhaseInv, ~ cr.started
    PROVE  /\ Admitted <= Length(q)
           /\ Live = {} => Admitted = 0
<1>1. admitted \subseteq Waiting
    BY DEF PhaseInv
<1>2. /\ Live \subseteq Present(q) /\ IsFiniteSet(Present(q)) /\ Present(q) \subseteq DOMAIN q.log
  <2>1. GoodStream(q, Consumers)
      BY Started
  <2>2. Present(q) \in SUBSET DOMAIN q.log
      BY <2>1, ReadsArePositions
  <2> QED
      BY <2>1, <2>2, Positions DEF Live, Undelivered
<1> DEFINE At(f) == CHOOSE i \in Present(q) : q.log[i].file = f
           at == [f \in admitted |-> At(f)]
<1>3. \A f \in admitted : At(f) \in Present(q) /\ q.log[At(f)].file = f
    BY <1>1, <1>2 DEF Waiting
<1> HIDE DEF At
<1>4. at \in Injection(admitted, Present(q))
    BY <1>3 DEF Injection, IsInjective
<1>5. Cardinality(admitted) <= Cardinality(Present(q))
    BY <1>2, <1>4, FS_Injection
<1>6. Live = {} => admitted = {}
    BY <1>1 DEF Waiting
<1> QED
    BY <1>5, <1>6, FS_EmptySet DEF Admitted, Length

\* The length of the stream is read when every file has been added.
LEMMA TotalStep ==
    ASSUME TypeInv, PhaseInv, FillInv, JobInv, TotalInv, [Next]_vars
    PROVE  TotalInv'
<1> USE DEF GoTo
<1>1. /\ cr \in Statuses /\ pi \in Statuses /\ job \in Jobs
      /\ cr.started \/ pc = "saveStart" => pi.started
      /\ ~ cr.started => pc \in InitSteps \cup {"idle", "save"}
      /\ pc \in InitSteps => ~ cr.started
      /\ pc \in {"inspect", "list", "enqueue", "recount"} => ~ pi.started
      /\ pi.started => Admitted <= pi.total
      /\ cr.started => Admitted <= cr.total
      /\ job.state # "absent" => Admitted <= job.completions
    BY DEF PhaseInv, TotalInv, TypeInv, ReconcilerOK, ClusterOK
<1>2. ASSUME UNCHANGED <<cr, job, admitted>>,
             pi'.started = pi.started /\ pi'.total = pi.total,
             pc' \in {"inspect", "list", "enqueue", "recount"} =>
               pc \in {"inspect", "list", "enqueue", "recount"}
      PROVE  TotalInv'
    BY <1>1, <1>2 DEF TotalInv, Admitted
<1>3. ASSUME UNCHANGED <<job, admitted>>, cr' \in {pi, cr},
             pi' = cr' \/ (pi' = pi /\ pc = "saveStart"),
             pc' \notin {"inspect", "list", "enqueue", "recount"}
      PROVE  TotalInv'
    BY <1>1, <1>3 DEF TotalInv, Admitted
<1>4. ASSUME UNCHANGED <<cr, job, admitted>>, pc \in InitSteps,
             pi'.started => Admitted <= pi'.total,
             pc' \notin {"inspect", "list", "enqueue", "recount"}
      PROVE  TotalInv'
    BY <1>1, <1>4 DEF TotalInv, Admitted
<1>5. CASE ClusterStep
  <2>1. UNCHANGED <<cr, pi, pc, admitted>>
      BY <1>5 DEF ClusterStep, PodStep, JobStep, StartPod, TerminatePod, Claim,
         ClaimReplyLost, Start, Succeed, Fail, Crash, Stick, Recover, Evict, Becomes,
         JobCompletes, JobGivesUp, JobFails, JobExpires, JobBecomes, Reconciler, history
  <2>2. CASE UNCHANGED job
      BY <1>2, <2>1, <2>2
  <2>3. CASE JobStep
    <3>1. job.state # "absent" /\ job'.completions = job.completions
        BY <1>1, <2>3 DEF JobStep, JobCompletes, JobGivesUp, JobFails, JobExpires, JobBecomes,
           Jobs
    <3> QED
        BY <1>1, <2>1, <3>1 DEF TotalInv, Admitted
  <2>4. \A p \in Pod : PodStep(p) => UNCHANGED job
      BY DEF PodStep, StartPod, TerminatePod, Claim, ClaimReplyLost, Start, Succeed, Fail,
         Crash, Stick, Recover, Evict, Becomes, cluster
  <2> QED
      BY <1>5, <2>2, <2>3, <2>4 DEF ClusterStep
<1>6. CASE Begin
  <2>1. UNCHANGED <<cr, job, admitted>> /\ pi' = cr
        /\ (pc' \in {"inspect", "list", "enqueue", "recount"} => ~ cr.started)
      BY <1>6 DEF Begin, NoEffect, cluster, history
  <2> QED
      BY <1>1, <2>1 DEF TotalInv, Admitted
<1>7. CASE Save \/ Restart
    BY <1>3, <1>7 DEF Save, Restart, Finish, Takes, cluster, history
<1>8. CASE SaveStart
    BY <1>3, <1>8 DEF SaveStart, Finish, Takes, cluster, history
<1>9. CASE Inspect \/ Recount
  <2>1. /\ UNCHANGED <<cr, job, admitted>> /\ pc \in InitSteps /\ ~ pi.started
        /\ pc = "inspect" \/ pc = "recount"
      BY <1>1, <1>9 DEF Inspect, Recount, NoEffect, InitSteps, cluster, history
  <2>2. \/ UNCHANGED pi /\ pc' = "list"
        \/ GiveUp
        \/ Initialized(Length(q))
      BY <1>9 DEF Inspect, Recount
  <2>3. CASE UNCHANGED pi /\ pc' = "list"
      BY <1>2, <2>1, <2>3
  <2>4. CASE GiveUp
    <3>1. pi'.started = pi.started /\ pc' = "save"
        BY <1>1, <2>4 DEF GiveUp, Statuses
    <3> QED
        BY <1>4, <2>1, <3>1
  <2>5. CASE Initialized(Length(q))
    <3>1. pi'.total = Length(q) /\ pc' = "saveStart"
        BY <1>1, <2>5 DEF Initialized, Statuses
    <3>2. Admitted <= Length(q)
        BY <1>1, <2>1, LengthCounts
    <3> QED
        BY <1>4, <2>1, <3>1, <3>2
  <2> QED
      BY <2>2, <2>3, <2>4, <2>5
<1>10. CASE List
  <2>1. UNCHANGED <<cr, job, admitted>> /\ pc = "list" /\ ~ cr.started /\ ~ pi.started
      BY <1>1, <1>10 DEF List, InitSteps, cluster
  <2>2. \/ GiveUp
        \/ UNCHANGED pi /\ pc' = "enqueue"
        \/ /\ pi' = [pi EXCEPT !.started = TRUE, !.ended = TRUE, !.total = 0,
                               !.degraded = TRUE, !.progressing = FALSE,
                               !.succeeded = FALSE]
           /\ pc' = "save"
      BY <1>10 DEF List
  <2>3. CASE GiveUp
    <3>1. pi'.started = pi.started /\ pc' = "save"
        BY <1>1, <2>3 DEF GiveUp, Statuses
    <3> QED
        BY <1>4, <2>1, <3>1 DEF InitSteps
  <2>4. CASE UNCHANGED pi /\ pc' = "enqueue"
      BY <1>2, <2>1, <2>4
  <2>5. CASE /\ pi' = [pi EXCEPT !.started = TRUE, !.ended = TRUE, !.total = 0,
                                 !.degraded = TRUE, !.progressing = FALSE,
                                 !.succeeded = FALSE]
             /\ pc' = "save"
    <3>1. pi'.total = 0
        BY <1>1, <2>5 DEF Statuses
    <3>2. Admitted = 0
        BY <2>1, LengthCounts DEF FillInv
    <3> QED
        BY <1>4, <2>1, <2>5, <3>1, <3>2 DEF InitSteps
  <2> QED
      BY <2>2, <2>3, <2>4, <2>5
<1>11. CASE Enqueue
  <2>1. /\ UNCHANGED <<cr, pi, job>> /\ ~ cr.started /\ ~ pi.started /\ job.state = "absent"
      BY <1>1, <1>11 DEF Enqueue, InitSteps, JobInv, cluster
  <2> QED
      BY <2>1 DEF TotalInv
<1>12. CASE CreateJob
  <2>1. UNCHANGED <<cr, admitted>> /\ pc' \in {"listPods", "save"}
        /\ pi'.started = pi.started /\ pi'.total = pi.total
      BY <1>1, <1>12 DEF CreateJob, JobError, Statuses, history
  <2>2. pi.started
      BY <1>1, <1>12 DEF CreateJob, InitSteps
  <2>3. job' = job \/ job'.completions = pi.total
      BY <1>12 DEF CreateJob, Takes
  <2> QED
      BY <1>1, <2>1, <2>2, <2>3 DEF TotalInv, Admitted
<1>13. CASE \/ FindJob \/ ReadLag \/ ReadPending \/ CheckFailure \/ StillRunning
            \/ CheckCompletion
  <2>1. UNCHANGED <<cr, job, admitted>>
        /\ pc' \notin {"inspect", "list", "enqueue", "recount"}
      BY <1>13 DEF FindJob, ReadLag, ReadPending, CheckFailure, StillRunning,
         CheckCompletion, Finish, JobError, NoEffect, cluster, history
  <2>2. \/ pi'.started = pi.started /\ pi'.total = pi.total
        \/ pi' = cr'
      BY <1>1, <1>13 DEF FindJob, ReadLag, ReadPending, CheckFailure, StillRunning,
         CheckCompletion, Finish, JobError, Statuses
  <2> QED
      BY <1>2, <1>3, <2>1, <2>2
<1>14. CASE MessageStep
  <2>1. UNCHANGED <<cr, pi, job, admitted>>
        /\ pc' \notin {"inspect", "list", "enqueue", "recount"}
      BY <1>14 DEF MessageStep, ListPods, FindMessage, AckHandled, Retire, AckRetired,
         DeletePod, FindStale, ListOwners, ClaimStale, AckFinished, RetireStale, AckStale,
         DeleteStale, NextPod, NextReclaimed, Frame, history
  <2> QED
      BY <1>2, <2>1
<1>15. CASE FlushStep
  <2>1. UNCHANGED <<cr, job, admitted>> /\ pc' \in FlushSteps \cup {"save"}
      BY <1>15 DEF FlushStep, FlushBegins, FlushClaim, FlushAck, FlushDel, FlushRest,
         FlushDelRest, FlushDone, FlushReplace, FlushAdd, FlushEnds, Outside, FlushSteps,
         cluster
  <2>2. pi'.started = pi.started /\ pi'.total = pi.total
      BY <1>1, <1>15 DEF FlushStep, FlushBegins, FlushClaim, FlushAck, FlushDel, FlushRest,
         FlushDelRest, FlushDone, FlushReplace, FlushAdd, FlushEnds, Statuses
  <2> QED
      BY <1>2, <2>1, <2>2 DEF FlushSteps
<1>16. CASE UNCHANGED vars
    BY <1>2, <1>16 DEF vars, history
<1> QED
    BY <1>5, <1>6, <1>7, <1>8, <1>9, <1>10, <1>11, <1>12, <1>13, <1>14, <1>15, <1>16
    DEF Next, ReconcileStep

----------------------------------------------------------------------------
(* What the reconciler has in hand.                                        *)

\* The reconciler sees the phases of pods that have come to an end.
SeenInv ==
    \A s \in r.todo \cup r.at :
        pods[s.pod].phase \in Doomed \cup (IF s.phase = "succeeded" THEN {"succeeded"} ELSE {})

\* Nobody will process the message any more, or nobody has and nobody will.
Over(i) == \A p \in Pod : pods[p].work = i => pods[p].phase \in Doomed \cup {"succeeded"}
Dead(i) == \A p \in Pod : pods[p].work = i => pods[p].phase \in Doomed

\* The steps of the reclaimer with a batch in hand.
Reclaims == {"xclaim", "reclaimNext", "reclaimAck", "reclaimDel"}

\* Messages are acknowledged when they are over, and retried when they are dead.
DeadInv ==
    /\ pc \in {"retire", "ackRetired"} => Dead(r.msg)
    /\ pc = "ack" => Over(r.msg)
    /\ pc = "reclaimPods" => \A i \in r.batch : q.log[i].owner \in Pod
    /\ pc \in Reclaims => \A i \in r.batch : Over(i) /\ (i \notin r.finished => Dead(i))
    /\ pc \in {"reclaimAck", "reclaimDel"} => r.msg \in r.batch
    /\ pc = "reclaimAck" => r.msg \notin r.finished

\* The reclaimer and the flush own messages only while they have them in hand.
CustodyInv ==
    \A i \in DOMAIN q.log :
        /\ q.log[i].owner = Reclaimer =>
             /\ pc \in {"reclaimNext", "reclaimAck", "reclaimDel"} /\ i \in r.batch
             /\ pc = "reclaimDel" => i # r.msg
        /\ q.log[i].owner = Flusher =>
             /\ pc \in {"flushAck", "flushDel"} /\ i \in r.batch
             /\ pc = "flushDel" => i # r.msg

\* A pod that will process its message owns it, and the message exists.
HoldInv ==
    \A p \in Pod : pods[p].phase \in {"starting", "running"} =>
        q.log[pods[p].work].owner = p /\ ~ q.log[pods[p].work].deleted

\* How the reclaimer selects its batch.
SelectMove ==
    /\ pc' = "reclaimPods" => \/ UNCHANGED <<pc, r>>
                              \/ pc = "reclaim" /\ q' = q /\ r'.batch \subseteq Pending(q)
    /\ pc' = "xclaim" => \/ UNCHANGED <<pc, r>>
                         \/ /\ pc = "reclaimPods" /\ UNCHANGED <<q, pods>>
                            /\ r'.batch = r.batch \ Owned(r.batch, Alive)
                            /\ r'.finished = Owned(r'.batch, Finished)

\* Every step selects no other batch: idle messages whose owners are not alive.
LEMMA SelectMoves ==
    ASSUME TypeInv, [Next]_vars
    PROVE  SelectMove
<1> USE DEF GoTo
<1>1. r \in Registers
    BY DEF TypeInv, ReconcilerOK
<1>2. pc' \notin {"reclaimPods", "xclaim"} \/ UNCHANGED <<pc, r>> => SelectMove
    BY DEF SelectMove
<1>3. CASE ClusterStep
    BY <1>2, <1>3 DEF ClusterStep, PodStep, JobStep, StartPod, TerminatePod, Claim,
       ClaimReplyLost, Start, Succeed, Fail, Crash, Stick, Recover, Evict, Becomes,
       JobCompletes, JobGivesUp, JobFails, JobExpires, JobBecomes, Reconciler
<1>4. CASE ReconcileStep
    BY <1>2, <1>4 DEF ReconcileStep, Begin, Save, SaveStart, Inspect, List, Enqueue, Recount,
       FindJob, CreateJob, ReadLag, ReadPending, CheckFailure, StillRunning,
       CheckCompletion, Restart, Finish, GiveUp, Initialized, JobError
<1>5. CASE \/ ListPods \/ FindMessage \/ AckHandled \/ Retire \/ AckRetired \/ DeletePod
           \/ ClaimStale \/ AckFinished \/ RetireStale \/ AckStale \/ DeleteStale
    BY <1>2, <1>5 DEF ListPods, FindMessage, AckHandled, Retire, AckRetired, DeletePod,
       ClaimStale, AckFinished, RetireStale, AckStale, DeleteStale, NextPod, NextReclaimed
<1>6. CASE FindStale
  <2>1. PICK ids \in SUBSET Pending(q) :
            NextReclaimed({}) \/ (r' = [r EXCEPT !.batch = ids] /\ pc' = "reclaimPods")
      BY <1>6 DEF FindStale
  <2>2. CASE NextReclaimed({})
      BY <1>2, <2>2 DEF NextReclaimed
  <2>3. CASE r' = [r EXCEPT !.batch = ids] /\ pc' = "reclaimPods"
    <3>1. r'.batch = ids /\ pc = "reclaim" /\ q' = q
        BY <1>1, <1>6, <2>3 DEF FindStale, Registers
    <3> QED
        BY <2>3, <3>1 DEF SelectMove
  <2> QED
      BY <2>1, <2>2, <2>3
<1>7. CASE ListOwners
  <2> DEFINE ids == r.batch \ Owned(r.batch, Alive)
  <2>1. /\ pc = "reclaimPods" /\ UNCHANGED <<q, pods>>
        /\ \/ NextReclaimed({})
           \/ /\ r' = [r EXCEPT !.batch = ids, !.finished = Owned(ids, Finished)]
              /\ pc' = "xclaim"
      BY <1>7 DEF ListOwners
  <2> HIDE DEF ids
  <2>2. CASE NextReclaimed({})
      BY <1>2, <2>2 DEF NextReclaimed
  <2>3. CASE /\ r' = [r EXCEPT !.batch = ids, !.finished = Owned(ids, Finished)]
             /\ pc' = "xclaim"
    <3>1. r'.batch = ids /\ r'.finished = Owned(ids, Finished)
        BY <1>1, <2>3 DEF Registers
    <3> QED
        BY <2>1, <2>3, <3>1 DEF SelectMove, ids
  <2> QED
      BY <2>1, <2>2, <2>3
<1>8. CASE FlushStep
    BY <1>2, <1>8 DEF FlushStep, FlushBegins, FlushClaim, FlushAck, FlushDel, FlushRest,
       FlushDelRest, FlushDone, FlushReplace, FlushAdd, FlushEnds
<1>9. CASE UNCHANGED vars
    BY <1>2, <1>9 DEF vars
<1> QED
    BY <1>3, <1>4, <1>5, <1>6, <1>7, <1>8, <1>9 DEF Next, MessageStep

\* Pods that have been seen to have come to an end have done so.
LEMMA SeenStep ==
    ASSUME TypeInv, SeenInv, SeenMove, PodTurn, [Next]_vars
    PROVE  SeenInv'
<1>1. SUFFICES ASSUME NEW s \in r'.todo \cup r'.at
               PROVE  pods'[s.pod].phase
                        \in Doomed \cup (IF s.phase = "succeeded" THEN {"succeeded"} ELSE {})
    BY DEF SeenInv
<1>2. s.pod \in Pod /\ s.phase \in HandledPhases
    BY NextKeepsTypes DEF TypeInv, ReconcilerOK, Registers, Seen
<1>3. pods[s.pod].phase \in Doomed \cup (IF s.phase = "succeeded" THEN {"succeeded"} ELSE {})
  <2>1. CASE s \in r.todo \cup r.at
      BY <2>1 DEF SeenInv
  <2>2. CASE s.phase = pods[s.pod].phase
      BY <1>2, <2>2 DEF HandledPhases, Doomed
  <2> QED
      BY <1>1, <2>1, <2>2 DEF SeenMove
<1>4. "gone" \in Doomed
    BY DEF Doomed
<1> QED
    BY <1>2, <1>3, <1>4 DEF PodTurn

\* What is over stays so, and what is dead.
LEMMA StaysOver ==
    ASSUME TypeInv, OnceInv, PodTurn, NEW i \in DOMAIN q.log, i <= q.delivered
    PROVE  (Over(i) => Over(i)') /\ (Dead(i) => Dead(i)')
<1>1. ASSUME NEW p \in Pod, pods'[p].work = i PROVE pods[p].work = i
  <2>1. CASE Claim(p)
    <3>1. pods'[p].work = Least(Undelivered(q)) /\ Undelivered(q) # {} /\ p \in Consumers
        BY <2>1, ClaimTakes, Started DEF Claim
    <3>2. Least(Undelivered(q)) \in Undelivered(q)
        BY <3>1, Started, XReadGroupDelivers
    <3>3. q.delivered \in Nat /\ i \in Nat
        BY Positions DEF TypeInv, StreamOK
    <3> QED
        BY <1>1, <3>1, <3>2, <3>3 DEF Undelivered
  <2> QED
      BY <1>1, <2>1 DEF PodTurn
<1>2. \A p \in Pod : /\ pods[p].phase \in Doomed => pods'[p].phase \in Doomed
                     /\ pods[p].phase = "succeeded" => pods'[p].phase \in Doomed \cup {"succeeded"}
    BY DEF PodTurn, Doomed
<1> QED
    BY <1>1, <1>2 DEF Over, Dead

----------------------------------------------------------------------------
\* Messages come to be handled only when their pods have come to an end.
LEMMA DeadStep ==
    ASSUME TypeInv, OwnerInv, InHandInv, OnceInv, SeenInv, DeadInv, CustodyInv,
           HandMove, SelectMove, PodTurn, [Next]_vars
    PROVE  DeadInv'
<1> DEFINE Past(i) == i \in DOMAIN q.log /\ i <= q.delivered
           OverThen(i) ==
               \A p \in Pod : pods'[p].work = i => pods'[p].phase \in Doomed \cup {"succeeded"}
           DeadThen(i) == \A p \in Pod : pods'[p].work = i => pods'[p].phase \in Doomed
           Handled(i) == OverThen(i) /\ (i \notin r'.finished => DeadThen(i))
<1>1. /\ r \in Registers /\ r.batch \subseteq DOMAIN q.log /\ pods \in Pods
      /\ pc \in HandlesMessage => r.msg \in DOMAIN q.log
      /\ \A p \in Pod : p # NoOne /\ p # Reclaimer /\ p # Flusher
    BY ConstantsAssumption DEF TypeInv, ReconcilerOK, ClusterOK, PassMarks
<1>2. /\ pc \in {"ack", "retire", "ackRetired", "reclaimAck"} => Past(r.msg)
      /\ pc \in Reclaims \cup {"reclaimPods"} => \A i \in r.batch : Past(i)
      /\ \A i \in DOMAIN q.log : q.log[i].owner # NoOne => Past(i)
  <2>1. q.delivered \in Nat /\ DOMAIN q.log \subseteq Nat
      BY Positions DEF TypeInv, StreamOK
  <2> QED
      BY <1>1, <2>1 DEF InHandInv, OwnerInv, HandlesMessage, Reclaims
<1>3. ASSUME NEW i \in DOMAIN q.log, i <= q.delivered
      PROVE  (Over(i) => OverThen(i)) /\ (Dead(i) => DeadThen(i))
  <2>1. (Over(i) => Over(i)') /\ (Dead(i) => Dead(i)')
      BY <1>3, StaysOver
  <2> QED
      BY <2>1 DEF Over, Dead
<1>4. /\ pc \in {"retire", "ackRetired"} => Dead(r.msg)
      /\ pc = "ack" => Over(r.msg)
      /\ pc = "reclaimPods" => \A i \in r.batch : q.log[i].owner \in Pod
      /\ pc \in Reclaims => \A i \in r.batch : Over(i) /\ (i \notin r.finished => Dead(i))
      /\ pc \in {"reclaimAck", "reclaimDel"} => r.msg \in r.batch
      /\ pc = "reclaimAck" => r.msg \notin r.finished
    BY DEF DeadInv
<1>5. ASSUME NEW i \in DOMAIN q.log, NEW o \in Pod, q.log[i].owner = o
      PROVE  /\ pods[o].phase \in Doomed => Dead(i)
             /\ pods[o].phase \in Doomed \cup {"succeeded"} => Over(i)
    BY <1>5 DEF OnceInv, Over, Dead
<1>6. SUFFICES /\ pc' \in {"retire", "ackRetired"} => DeadThen(r'.msg)
               /\ pc' = "ack" => OverThen(r'.msg)
               /\ pc' = "reclaimPods" => \A i \in r'.batch : q'.log[i].owner \in Pod
               /\ pc' \in Reclaims => \A i \in r'.batch : Handled(i)
               /\ pc' \in {"reclaimAck", "reclaimDel"} => r'.msg \in r'.batch
               /\ pc' = "reclaimAck" => r'.msg \notin r'.finished
    BY DEF DeadInv, Over, Dead
<1> DEFINE Goal == /\ pc' \in {"retire", "ackRetired"} => DeadThen(r'.msg)
                   /\ pc' = "ack" => OverThen(r'.msg)
                   /\ pc' = "reclaimPods" => \A i \in r'.batch : q'.log[i].owner \in Pod
                   /\ pc' \in Reclaims => \A i \in r'.batch : Handled(i)
                   /\ pc' \in {"reclaimAck", "reclaimDel"} => r'.msg \in r'.batch
                   /\ pc' = "reclaimAck" => r'.msg \notin r'.finished
<1> HIDE DEF OverThen, DeadThen
<1>7. ASSUME pc' = "reclaimPods", pc = "reclaim", q' = q, r'.batch \subseteq Pending(q)
      PROVE  \A i \in r'.batch : q'.log[i].owner \in Pod
  <2>1. ASSUME NEW i \in Pending(q) PROVE q.log[i].owner \in Pod
    <3>1. i \in DOMAIN q.log /\ q.log[i].owner # NoOne
        BY DEF Pending
    <3>2. q.log[i].owner \in Consumers \cup {NoOne}
        BY <3>1, EntryFields DEF TypeInv, StreamOK
    <3>3. q.log[i].owner # Reclaimer /\ q.log[i].owner # Flusher
        BY <1>7, <3>1 DEF CustodyInv
    <3> QED
        BY <3>1, <3>2, <3>3 DEF Consumers
  <2> QED
      BY <1>7, <2>1
<1>8. ASSUME UNCHANGED <<pc, r>>, q' = q \/ \E p \in Pod : Undelivered(q) # {} /\ q' = XReadGroup(q, p)
      PROVE  Goal
  <2>1. ASSUME NEW i, Past(i) PROVE q'.log[i].owner = q.log[i].owner
    <3>1. ASSUME NEW p \in Pod, Undelivered(q) # {}, q' = XReadGroup(q, p)
          PROVE  q'.log[i] = q.log[i]
      <4>1. p \in Consumers /\ GoodStream(q, Consumers) /\ q.delivered \in Nat /\ i \in Nat
          BY <2>1, Started, Positions
      <4>2. /\ Least(Undelivered(q)) \in Undelivered(q)
            /\ \A j \in DOMAIN q.log : j # Least(Undelivered(q)) => q'.log[j] = q.log[j]
          BY <3>1, <4>1, XReadGroupDelivers
      <4>3. i # Least(Undelivered(q))
          BY <2>1, <4>1, <4>2 DEF Undelivered
      <4> QED
          BY <2>1, <4>2, <4>3
    <3> QED
        BY <1>8, <3>1
  <2>2. /\ pc' \in {"retire", "ackRetired"} => DeadThen(r'.msg)
        /\ pc' = "ack" => OverThen(r'.msg)
      BY <1>2, <1>3, <1>4, <1>8
  <2>3. pc' \in Reclaims => \A i \in r'.batch : Handled(i)
      BY <1>2, <1>3, <1>4, <1>8
  <2> QED
      BY <1>2, <1>4, <1>8, <2>1, <2>2, <2>3
<1>9. ASSUME pc' = "xclaim", pc = "reclaimPods", UNCHANGED <<q, pods>>,
             r'.batch = r.batch \ Owned(r.batch, Alive), r'.finished = Owned(r'.batch, Finished),
             NEW i \in r'.batch
      PROVE  Handled(i)
  <2>1. i \in r.batch /\ Past(i) /\ q.log[i].owner \in Pod
      BY <1>2, <1>4, <1>9
  <2>2. PICK o \in Pod : o = q.log[i].owner
      BY <2>1
  <2>3. pods[o].phase \in Phases /\ pods[o].phase # "unborn" /\ o \notin Alive
      BY <1>1, <1>9, <2>1, <2>2 DEF Pods, OwnerInv, Owned
  <2>4. pods[o].phase \in Doomed \cup {"succeeded"}
      BY <2>3 DEF Alive, Phases, ActivePhases, PendingPhases, Doomed
  <2>5. i \notin r'.finished => pods[o].phase # "succeeded"
      BY <1>9, <2>2 DEF Owned, Finished
  <2>6. Over(i) /\ (i \notin r'.finished => Dead(i))
      BY <1>5, <2>1, <2>2, <2>4, <2>5
  <2> QED
      BY <1>3, <2>1, <2>6
<1>10. CASE pc' = "reclaimPods"
  <2>1. CASE UNCHANGED <<pc, r>>
    <3>1. q' = q \/ \E p \in Pod : Undelivered(q) # {} /\ q' = XReadGroup(q, p)
        BY <1>10, <2>1 DEF HandMove, Proceeds, FlushSteps, Hands
    <3> QED
        BY <1>8, <2>1, <3>1
  <2>2. CASE pc = "reclaim" /\ q' = q /\ r'.batch \subseteq Pending(q)
      BY <1>7, <1>10, <2>2 DEF Reclaims
  <2> QED
      BY <1>10, <2>1, <2>2 DEF SelectMove
<1>11. CASE pc' = "xclaim"
  <2>1. CASE UNCHANGED <<pc, r>>
      BY <1>2, <1>3, <1>4, <1>11, <2>1 DEF Reclaims
  <2>2. CASE /\ pc = "reclaimPods" /\ UNCHANGED <<q, pods>>
             /\ r'.batch = r.batch \ Owned(r.batch, Alive)
             /\ r'.finished = Owned(r'.batch, Finished)
      BY <1>9, <1>11, <2>2
  <2> QED
      BY <1>11, <2>1, <2>2 DEF SelectMove
<1>12. pc' \notin Hands => Goal
    BY <1>10, <1>11 DEF Hands, Reclaims
<1>13. pc' \in {"list", "enqueue"} \cup FlushSteps => Goal
    BY DEF Reclaims, FlushSteps
<1>14. ASSUME NEW batch, Proceeds(batch),
              \A i \in batch : Past(i) /\ Over(i) /\ (i \notin r.finished => Dead(i))
       PROVE  Goal
    BY <1>3, <1>12, <1>14 DEF Proceeds
<1>15. ASSUME pc = "nextPod", NEW s \in r.todo, r'.msg \in PendingFor(q, s.pod),
              \/ pc' = "ack"
              \/ pc' = "retire" /\ s.phase # "succeeded"
       PROVE  Goal
  <2>1. s.pod \in Pod
      BY <1>1 DEF Registers, Seen
  <2>2. PICK m : m = r'.msg
      OBVIOUS
  <2>3. m \in DOMAIN q.log /\ q.log[m].owner = s.pod /\ Past(m)
      BY <1>1, <1>2, <1>15, <2>1, <2>2 DEF PendingFor
  <2>4. pods[s.pod].phase \in Doomed \cup (IF s.phase = "succeeded" THEN {"succeeded"} ELSE {})
      BY DEF SeenInv
  <2>5. Over(m) /\ (s.phase # "succeeded" => Dead(m))
      BY <1>5, <2>1, <2>3, <2>4
  <2> QED
      BY <1>3, <1>15, <2>2, <2>3, <2>5 DEF Reclaims
<1>16. ASSUME pc = "retire", pc' = "ackRetired", r' = r PROVE Goal
    BY <1>2, <1>3, <1>4, <1>16 DEF Reclaims
<1>17. ASSUME pc = "xclaim", Proceeds(Claimable(q, r.batch)) PROVE Goal
    BY <1>2, <1>4, <1>14, <1>17 DEF Claimable, Reclaims
<1>18. ASSUME pc = "reclaimNext", r'.msg \in r.batch, r'.batch = r.batch, r'.finished = r.finished,
              \/ pc' = "reclaimDel"
              \/ pc' = "reclaimAck" /\ r'.msg \notin r.finished
       PROVE  Goal
    BY <1>2, <1>3, <1>4, <1>18 DEF Reclaims
<1>19. ASSUME pc = "reclaimAck", pc' = "reclaimDel", r' = r PROVE Goal
    BY <1>2, <1>3, <1>4, <1>19 DEF Reclaims
<1>20. ASSUME pc = "reclaimDel", Proceeds(r.batch \ {r.msg}) PROVE Goal
    BY <1>2, <1>4, <1>14, <1>20 DEF Reclaims
<1>21. pc' = "recount" => pc' \notin Hands
    BY DEF Hands
<1> HIDE DEF Goal
<1>22. Goal
    BY <1>8, <1>12, <1>13, <1>15, <1>16, <1>17, <1>18, <1>19, <1>20, <1>21 DEF HandMove
<1> QED
    BY <1>22 DEF Goal

----------------------------------------------------------------------------
\* A message belongs to the reclaimer or to the flush because it did before,
\* or because it is claimed.
LEMMA HeldBy ==
    ASSUME TypeInv, NEW c \in {Reclaimer, Flusher}, NEW i \in DOMAIN q'.log,
           q'.log[i].owner = c
    PROVE  LET Had == i \in DOMAIN q.log /\ q.log[i].owner = c IN
           /\ q' = q => Had
           /\ \A p \in Pod : Undelivered(q) # {} /\ q' = XReadGroup(q, p) => Had
           /\ \A f \in File, n \in Nat : q' = XAdd(q, f, n) => Had
           /\ \A m \in DOMAIN q.log : q' = XAck(q, m) => Had /\ i # m
           /\ \A ids : q' = XDel(q, ids) => Had
           /\ \A ids : q' = XClaim(q, ids, Reclaimer) =>
                Had \/ (c = Reclaimer /\ i \in Claimable(q, ids))
           /\ \A ids : q' = XClaim(q, ids, Flusher) =>
                Had \/ (c = Flusher /\ i \in Claimable(q, ids))
<1> DEFINE Had == i \in DOMAIN q.log /\ q.log[i].owner = c
<1>1. /\ GoodStream(q, Consumers) /\ DOMAIN q.log = 1 .. Len(q.log) /\ Len(q.log) \in Nat
      /\ c \in Consumers \ {NoOne} /\ Reclaimer \in Consumers /\ Flusher \in Consumers
      /\ \A p \in Pod : p \in Consumers /\ p # c
    BY Started, ConstantsAssumption
<1>2. ASSUME NEW p \in Pod, Undelivered(q) # {}, q' = XReadGroup(q, p) PROVE Had
  <2> DEFINE m == Least(Undelivered(q))
  <2>1. /\ GoodStream(q', Consumers) /\ Len(q'.log) = Len(q.log) /\ q'.log[m].owner = p
        /\ \A j \in DOMAIN q.log : j # m => q'.log[j] = q.log[j]
      BY <1>1, <1>2, XReadGroupDelivers
  <2>2. DOMAIN q'.log = DOMAIN q.log
      BY <1>1, <2>1, Positions
  <2> HIDE DEF m
  <2> QED
      BY <1>1, <2>1, <2>2
<1>3. ASSUME NEW f \in File, NEW n \in Nat, q' = XAdd(q, f, n) PROVE Had
  <2>1. /\ GoodStream(q', Consumers) /\ Len(q'.log) = Len(q.log) + 1
        /\ \A j \in 1 .. Len(q.log) : q'.log[j] = q.log[j]
        /\ q'.log[Len(q.log) + 1] =
             [file |-> f, attempts |-> n, owner |-> NoOne, deleted |-> FALSE]
      BY <1>1, <1>3, XAddAppends
  <2>2. q'.log[Len(q.log) + 1].owner = NoOne /\ DOMAIN q'.log = 1 .. (Len(q.log) + 1)
      BY <2>1, Positions
  <2> QED
      BY <1>1, <2>1, <2>2
<1>4. ASSUME NEW m \in DOMAIN q.log, q' = XAck(q, m) PROVE Had /\ i # m
  <2>1. /\ GoodStream(q', Consumers) /\ Len(q'.log) = Len(q.log)
        /\ q'.log[m].owner = NoOne
        /\ \A j \in DOMAIN q.log : j # m => q'.log[j] = q.log[j]
      BY <1>1, <1>4, XAckReleases
  <2>2. DOMAIN q'.log = DOMAIN q.log
      BY <1>1, <2>1, Positions
  <2> QED
      BY <1>1, <2>1, <2>2
<1>5. ASSUME NEW ids, q' = XDel(q, ids) PROVE Had
  <2>1. /\ GoodStream(q', Consumers) /\ Len(q'.log) = Len(q.log)
        /\ \A j \in DOMAIN q.log : q'.log[j].owner = q.log[j].owner
      BY <1>1, <1>5, XDelMarks
  <2>2. DOMAIN q'.log = DOMAIN q.log
      BY <1>1, <2>1, Positions
  <2> QED
      BY <2>1, <2>2
<1>6. ASSUME NEW ids, NEW d \in {Reclaimer, Flusher}, q' = XClaim(q, ids, d)
      PROVE  Had \/ (d = c /\ i \in Claimable(q, ids))
  <2>1. d \in Consumers
      BY <1>1
  <2>2. /\ GoodStream(q', Consumers) /\ Len(q'.log) = Len(q.log)
        /\ \A j \in DOMAIN q.log :
             /\ j \in ids \cap Pending(q) =>
                  q'.log[j].owner = IF q.log[j].deleted THEN NoOne ELSE d
             /\ j \notin ids \cap Pending(q) => q'.log[j] = q.log[j]
      BY <1>1, <1>6, <2>1, XClaimMoves
  <2>3. DOMAIN q'.log = DOMAIN q.log
      BY <1>1, <2>2, Positions
  <2> QED
      BY <1>1, <2>2, <2>3 DEF Claimable, Present
<1> QED
    BY <1>2, <1>3, <1>4, <1>5, <1>6

\* What a step does during a flush whose calls do not fail.
FlushMove ==
    \/ /\ UNCHANGED <<pc, r>>
       /\ q' = q \/ \E p \in Pod : Undelivered(q) # {} /\ q' = XReadGroup(q, p)
    \/ /\ pc = "flushClaim" /\ q' = XClaim(q, Pending(q), Flusher)
       /\ \/ pc' = "flushAck" /\ r'.batch = Claimable(q, Pending(q))
          \/ pc' = "flushRest" /\ Claimable(q, Pending(q)) = {}
    \/ /\ pc = "flushAck" /\ pc' = "flushDel" /\ r'.msg \in r.batch /\ r'.batch = r.batch
       /\ q' = XAck(q, r'.msg)
    \/ /\ pc = "flushDel" /\ q' = XDel(q, {r.msg})
       /\ r'.batch = r.batch \ {r.msg}
       /\ pc' = "flushAck" \/ (r'.batch = {} /\ pc' = "flushClaim")
    \/ /\ pc \notin {"flushClaim", "flushAck", "flushDel"}
       /\ pc' \in (FlushSteps \cup {"save"}) \ {"flushAck", "flushDel"}
       /\ q' = q \/ \E ids : q' = XDel(q, ids)

\* Every step of such a flush is one of these.
LEMMA FlushMoves ==
    ASSUME "flush" \notin Faults, TypeInv, pc \in FlushSteps, [Next]_vars
    PROVE  FlushMove
<1> USE DEF GoTo
<1>1. /\ r \in Registers /\ Writes = {"ok"} /\ Reads = {"ok"}
      /\ r.batch # {} => Least(r.batch) \in r.batch
    BY LeastOfBatch DEF TypeInv, ReconcilerOK, Writes, Reads, CanFault, CallFault
<1>2. ~ Restart
    BY DEF Restart, CanFault
<1>3. CASE ClusterStep
  <2>1. UNCHANGED <<pc, r>>
      BY <1>3 DEF ClusterStep, PodStep, JobStep, StartPod, TerminatePod, Claim,
         ClaimReplyLost, Start, Succeed, Fail, Crash, Stick, Recover, Evict, Becomes,
         JobCompletes, JobGivesUp, JobFails, JobExpires, JobBecomes, Reconciler
  <2>2. q' = q \/ \E p \in Pod : Undelivered(q) # {} /\ q' = XReadGroup(q, p)
      BY <1>3 DEF ClusterStep, PodStep, JobStep, StartPod, TerminatePod, Claim,
         ClaimReplyLost, Start, Succeed, Fail, Crash, Stick, Recover, Evict, Becomes,
         JobCompletes, JobGivesUp, JobFails, JobExpires, JobBecomes
  <2> QED
      BY <2>1, <2>2 DEF FlushMove
<1>4. ~ (ReconcileStep \/ MessageStep)
    BY <1>2 DEF ReconcileStep, Begin, Save, SaveStart, Inspect, List, Enqueue, Recount, FindJob,
       CreateJob, ReadLag, ReadPending, CheckFailure, StillRunning, CheckCompletion,
       MessageStep, ListPods, FindMessage, AckHandled, Retire, AckRetired, DeletePod,
       FindStale, ListOwners, ClaimStale, AckFinished, RetireStale, AckStale, DeleteStale,
       FlushSteps
<1>5. CASE FlushClaim
  <2>1. /\ pc = "flushClaim" /\ q' = XClaim(q, Pending(q), Flusher)
        /\ \/ pc' = "flushRest" /\ Claimable(q, Pending(q)) = {}
           \/ pc' = "flushAck" /\ r' = [r EXCEPT !.batch = Claimable(q, Pending(q))]
      BY <1>1, <1>5 DEF FlushClaim, Takes
  <2>2. CASE pc' = "flushAck" /\ r' = [r EXCEPT !.batch = Claimable(q, Pending(q))]
    <3>1. r'.batch = Claimable(q, Pending(q))
        BY <1>1, <2>2 DEF Registers
    <3> QED
        BY <2>1, <2>2, <3>1 DEF FlushMove
  <2> QED
      BY <2>1, <2>2 DEF FlushMove
<1>6. CASE FlushAck
  <2>1. PICK m : m = Least(r.batch)
      OBVIOUS
  <2>2. /\ pc = "flushAck" /\ pc' = "flushDel" /\ q' = XAck(q, m)
        /\ r' = [r EXCEPT !.held = Remember(@, {m}), !.msg = m]
      BY <1>1, <1>6, <2>1 DEF FlushAck, Takes
  <2>3. r.batch # {}
      BY <2>2 DEF TypeInv, PassMarks, HasBatch
  <2>4. r'.msg = m /\ r'.batch = r.batch
      BY <1>1, <2>2 DEF Registers
  <2> QED
      BY <1>1, <2>1, <2>2, <2>3, <2>4 DEF FlushMove
<1>7. CASE FlushDel
  <2>1. /\ pc = "flushDel" /\ q' = XDel(q, {r.msg})
        /\ r' = [r EXCEPT !.batch = @ \ {r.msg}, !.msg = 0]
        /\ pc' = IF r.batch = {r.msg} THEN "flushClaim" ELSE "flushAck"
      BY <1>1, <1>7 DEF FlushDel, Takes
  <2>2. r'.batch = r.batch \ {r.msg}
      BY <1>1, <2>1 DEF Registers
  <2> QED
      BY <2>1, <2>2 DEF FlushMove
<1>8. CASE FlushBegins \/ FlushRest \/ FlushDelRest \/ FlushDone \/ FlushReplace \/ FlushAdd
  <2>1. q' = q \/ q' = XDel(q, r.batch)
      BY <1>8 DEF FlushBegins, FlushRest, FlushDelRest, FlushDone, FlushReplace, FlushAdd, Takes
  <2>2. /\ pc \notin {"flushClaim", "flushAck", "flushDel"}
        /\ pc' \in (FlushSteps \cup {"save"}) \ {"flushAck", "flushDel"}
      BY <1>8 DEF FlushBegins, FlushRest, FlushDelRest, FlushDone, FlushReplace, FlushAdd,
         FlushEnds, FlushSteps
  <2> QED
      BY <2>1, <2>2 DEF FlushMove
<1>9. CASE UNCHANGED vars
    BY <1>9 DEF vars, FlushMove
<1> QED
    BY <1>3, <1>4, <1>5, <1>6, <1>7, <1>8, <1>9 DEF Next, FlushStep

\* What the reclaimer and the flush take they keep in hand until they have
\* acknowledged it.
LEMMA CustodyStep ==
    ASSUME "flush" \notin Faults, TypeInv, CustodyInv, HandMove, [Next]_vars
    PROVE  CustodyInv'
<1>1. /\ \A i \in DOMAIN q.log :
           /\ q.log[i].owner = Reclaimer =>
                /\ pc \in {"reclaimNext", "reclaimAck", "reclaimDel"} /\ i \in r.batch
                /\ pc = "reclaimDel" => i # r.msg
           /\ q.log[i].owner = Flusher =>
                /\ pc \in {"flushAck", "flushDel"} /\ i \in r.batch
                /\ pc = "flushDel" => i # r.msg
      /\ r \in Registers /\ r.batch \subseteq DOMAIN q.log
      /\ pc \in HandlesMessage => r.msg \in DOMAIN q.log
      /\ \A i \in DOMAIN q.log : q.log[i].file \in File
      /\ Reclaimer # Flusher
    BY Started, ConstantsAssumption DEF CustodyInv, TypeInv, ReconcilerOK, PassMarks
<1>2. SUFFICES ASSUME NEW i \in DOMAIN q'.log, NEW c \in {Reclaimer, Flusher},
                      q'.log[i].owner = c
               PROVE  /\ c = Reclaimer =>
                           /\ pc' \in {"reclaimNext", "reclaimAck", "reclaimDel"}
                           /\ i \in r'.batch /\ (pc' = "reclaimDel" => i # r'.msg)
                      /\ c = Flusher =>
                           /\ pc' \in {"flushAck", "flushDel"}
                           /\ i \in r'.batch /\ (pc' = "flushDel" => i # r'.msg)
    BY DEF CustodyInv
<1> DEFINE Had == i \in DOMAIN q.log /\ q.log[i].owner = c
           Goal == /\ c = Reclaimer =>
                        /\ pc' \in {"reclaimNext", "reclaimAck", "reclaimDel"}
                        /\ i \in r'.batch /\ (pc' = "reclaimDel" => i # r'.msg)
                   /\ c = Flusher =>
                        /\ pc' \in {"flushAck", "flushDel"}
                        /\ i \in r'.batch /\ (pc' = "flushDel" => i # r'.msg)
<1>3. /\ q' = q => Had
      /\ \A p \in Pod : Undelivered(q) # {} /\ q' = XReadGroup(q, p) => Had
      /\ \A f \in File, n \in Nat : q' = XAdd(q, f, n) => Had
      /\ \A m \in DOMAIN q.log : q' = XAck(q, m) => Had /\ i # m
      /\ \A ids : q' = XDel(q, ids) => Had
      /\ \A ids : q' = XClaim(q, ids, Reclaimer) =>
           Had \/ (c = Reclaimer /\ i \in Claimable(q, ids))
      /\ \A ids : q' = XClaim(q, ids, Flusher) =>
           Had \/ (c = Flusher /\ i \in Claimable(q, ids))
    BY <1>2, HeldBy
<1>4. CASE pc \in FlushSteps
  <2>1. Had => /\ c = Flusher /\ pc \in {"flushAck", "flushDel"} /\ i \in r.batch
               /\ pc = "flushDel" => i # r.msg
      BY <1>1, <1>4 DEF FlushSteps
  <2>2. CASE /\ UNCHANGED <<pc, r>>
             /\ q' = q \/ \E p \in Pod : Undelivered(q) # {} /\ q' = XReadGroup(q, p)
      BY <1>1, <1>3, <2>1, <2>2
  <2>3. CASE /\ pc = "flushClaim" /\ q' = XClaim(q, Pending(q), Flusher)
             /\ \/ pc' = "flushAck" /\ r'.batch = Claimable(q, Pending(q))
                \/ pc' = "flushRest" /\ Claimable(q, Pending(q)) = {}
      BY <1>1, <1>3, <2>1, <2>3
  <2>4. CASE /\ pc = "flushAck" /\ pc' = "flushDel" /\ r'.msg \in r.batch /\ r'.batch = r.batch
             /\ q' = XAck(q, r'.msg)
      BY <1>1, <1>3, <2>1, <2>4
  <2>5. CASE /\ pc = "flushDel" /\ q' = XDel(q, {r.msg})
             /\ r'.batch = r.batch \ {r.msg}
             /\ pc' = "flushAck" \/ (r'.batch = {} /\ pc' = "flushClaim")
      BY <1>1, <1>3, <2>1, <2>5
  <2>6. CASE /\ pc \notin {"flushClaim", "flushAck", "flushDel"}
             /\ q' = q \/ \E ids : q' = XDel(q, ids)
      BY <1>3, <2>1, <2>6
  <2> QED
      BY <1>4, <2>2, <2>3, <2>4, <2>5, <2>6, FlushMoves DEF FlushMove
<1>5. CASE pc \notin FlushSteps
  <2>1. Had => /\ c = Reclaimer /\ pc \in {"reclaimNext", "reclaimAck", "reclaimDel"}
               /\ i \in r.batch
               /\ pc = "reclaimDel" => i # r.msg
      BY <1>1, <1>5 DEF FlushSteps
  <2>2. \A m \in DOMAIN q.log : Replaced(m) => Had
      BY <1>1, <1>3 DEF Replaced
  <2>3. ASSUME UNCHANGED <<pc, r>>,
               q' = q \/ \E p \in Pod : Undelivered(q) # {} /\ q' = XReadGroup(q, p)
        PROVE  Goal
      BY <1>1, <1>3, <2>1, <2>3
  <2>4. ASSUME pc \notin Busy, q' = q PROVE Goal
      BY <1>3, <2>1, <2>4 DEF Busy
  <2>5. ASSUME pc = "enqueue", NEW f \in r.files, q' = XAdd(q, f, 0) PROVE Goal
    <3>1. f \in File /\ 0 \in Nat
        BY <1>1 DEF Registers
    <3> QED
        BY <1>3, <2>1, <2>5, <3>1
  <2>6. ASSUME pc \in {"ack", "ackRetired"}, q' = XAck(q, r.msg) PROVE Goal
      BY <1>1, <1>3, <2>1, <2>6 DEF HandlesMessage
  <2>7. ASSUME pc = "retire", Replaced(r.msg) PROVE Goal
      BY <1>1, <2>1, <2>2, <2>7 DEF HandlesMessage
  <2>8. ASSUME pc = "xclaim", q' = XClaim(q, r.batch, Reclaimer), Proceeds(Claimable(q, r.batch))
        PROVE  Goal
      BY <1>1, <1>3, <2>1, <2>8 DEF Proceeds
  <2>9. ASSUME pc = "reclaimNext", r'.msg \in r.batch, r'.batch = r.batch,
               \/ pc' = "reclaimDel" /\ q' = XAck(q, r'.msg)
               \/ pc' = "reclaimAck" /\ Replaced(r'.msg)
        PROVE  Goal
      BY <1>1, <1>3, <2>1, <2>2, <2>9
  <2>10. ASSUME pc = "reclaimAck", pc' = "reclaimDel", r' = r, q' = XAck(q, r.msg) PROVE Goal
      BY <1>1, <1>3, <2>1, <2>10 DEF HandlesMessage
  <2>11. ASSUME pc = "reclaimDel", q' = XDel(q, {r.msg}), Proceeds(r.batch \ {r.msg}) PROVE Goal
      BY <1>1, <1>3, <2>1, <2>11 DEF Proceeds
  <2>12. pc \in {"inspect", "list", "nextPod"} => pc \notin Busy
      BY DEF Busy
  <2> HIDE DEF Goal
  <2>13. Goal
      BY <1>5, <2>3, <2>4, <2>5, <2>6, <2>7, <2>8, <2>9, <2>10, <2>11, <2>12 DEF HandMove
  <2> QED
      BY <2>13 DEF Goal
<1> QED
    BY <1>4, <1>5

\* Nobody takes the message of a pod that will process it.
LEMMA HoldStep ==
    ASSUME TypeInv, OnceInv, JobInv, DeadInv, HoldInv, HandMove, PodTurn, [Next]_vars
    PROVE  HoldInv'
<1>1. SUFFICES ASSUME NEW p \in Pod, pods'[p].phase \in {"starting", "running"}
               PROVE  q'.log[pods'[p].work].owner = p /\ ~ q'.log[pods'[p].work].deleted
    BY DEF HoldInv
<1>2. CASE Claim(p)
  <2>1. pods'[p].work = Least(Undelivered(q)) /\ Undelivered(q) # {} /\ q' = XReadGroup(q, p)
        /\ p \in Consumers /\ GoodStream(q, Consumers)
      BY <1>2, ClaimTakes, Started DEF Claim
  <2>2. /\ q'.log[pods'[p].work].owner = p
        /\ q'.log[pods'[p].work].deleted = q.log[pods'[p].work].deleted
        /\ pods'[p].work \in Undelivered(q)
      BY <2>1, XReadGroupDelivers
  <2> QED
      BY <2>2 DEF Undelivered, Present
<1>3. CASE ~ Claim(p)
  <2>1. pods[p].phase \in {"starting", "running"} /\ pods'[p].work = pods[p].work
      BY <1>1, <1>3 DEF PodTurn
  <2>2. PICK w : w = pods[p].work
      OBVIOUS
  <2>3. /\ w \in DOMAIN q.log /\ w <= q.delivered
        /\ q.log[w].owner = p /\ ~ q.log[w].deleted
      BY <2>1, <2>2 DEF TypeInv, PodMarks, OnceInv, HoldInv
  <2>4. ~ Over(w) /\ ~ Dead(w)
      BY <2>1, <2>2 DEF Over, Dead, Doomed
  <2>5. pc \notin FlushSteps
      BY <2>1 DEF JobInv, ActivePhases, PendingPhases
  <2>6. /\ GoodStream(q, Consumers) /\ Reclaimer \in Consumers /\ Pod \subseteq Consumers
        /\ q.delivered \in Nat /\ w \in Nat /\ DOMAIN q.log = 1 .. Len(q.log)
        /\ \A i \in DOMAIN q.log : q.log[i].file \in File
        /\ r \in Registers
        /\ pc \in HandlesMessage => r.msg \in DOMAIN q.log
        /\ r.batch \subseteq DOMAIN q.log
      BY <2>3, Started, Positions DEF TypeInv, ReconcilerOK, PassMarks
  <2> DEFINE Goal == q'.log[w] = q.log[w]
  <2>7. q' = q => Goal
      OBVIOUS
  <2>8. ASSUME NEW x \in Pod, Undelivered(q) # {}, q' = XReadGroup(q, x) PROVE Goal
    <3>1. /\ Least(Undelivered(q)) \in Undelivered(q) /\ x \in Consumers
          /\ \A j \in DOMAIN q.log : j # Least(Undelivered(q)) => q'.log[j] = q.log[j]
        BY <2>6, <2>8, XReadGroupDelivers
    <3> QED
        BY <2>3, <2>6, <3>1 DEF Undelivered
  <2>9. ASSUME NEW f \in File, NEW n \in Nat, q' = XAdd(q, f, n) PROVE Goal
    <3>1. GoodStream(q, Consumers) /\ Len(q.log) \in Nat
        BY Started
    <3>2. /\ GoodStream(q', Consumers) /\ Len(q'.log) = Len(q.log) + 1
          /\ \A j \in 1 .. Len(q.log) : q'.log[j] = q.log[j]
          /\ q'.log[Len(q.log) + 1] =
               [file |-> f, attempts |-> n, owner |-> NoOne, deleted |-> FALSE]
        BY <2>9, <3>1, XAddAppends
    <3> QED
        BY <2>3, <2>6, <3>2
  <2>10. ASSUME NEW m \in DOMAIN q.log, m # w, q' = XAck(q, m) PROVE Goal
      BY <2>3, <2>6, <2>10, XAckReleases
  <2>11. ASSUME NEW ids, w \notin ids, q' = XDel(q, ids) PROVE Goal
      BY <2>3, <2>6, <2>11, XDelMarks
  <2>12. ASSUME NEW ids, w \notin ids, q' = XClaim(q, ids, Reclaimer) PROVE Goal
      BY <2>3, <2>6, <2>12, XClaimMoves
  <2>13. /\ pc \in {"ack", "ackRetired"} => r.msg # w
         /\ pc \in Reclaims => w \notin r.batch
         /\ pc \in {"reclaimAck", "reclaimDel"} => r.msg # w
      BY <2>4 DEF DeadInv, Reclaims
  <2>14. \A m \in DOMAIN q.log : Replaced(m) => Goal
      BY <2>6, <2>7, <2>9 DEF Replaced
  <2>15. ASSUME pc = "enqueue", NEW f \in r.files, q' = XAdd(q, f, 0) PROVE Goal
    <3>1. f \in File /\ 0 \in Nat
        BY <2>6 DEF Registers
    <3> QED
        BY <2>9, <2>15, <3>1
  <2>16. ASSUME pc = "reclaimNext", r'.msg \in r.batch,
                q' = XAck(q, r'.msg) \/ Replaced(r'.msg)
         PROVE  Goal
      BY <2>6, <2>10, <2>13, <2>14, <2>16 DEF Reclaims
  <2>17. ASSUME pc \in {"ack", "ackRetired", "reclaimAck"}, q' = XAck(q, r.msg) PROVE Goal
      BY <2>6, <2>10, <2>13, <2>17 DEF HandlesMessage
  <2>18. ASSUME pc = "retire", Replaced(r.msg) PROVE Goal
      BY <2>6, <2>14, <2>18 DEF HandlesMessage
  <2>19. ASSUME \/ pc = "xclaim" /\ q' = XClaim(q, r.batch, Reclaimer)
                \/ pc = "reclaimDel" /\ q' = XDel(q, {r.msg})
         PROVE  Goal
      BY <2>11, <2>12, <2>13, <2>19 DEF Reclaims
  <2> HIDE DEF Goal
  <2>20. Goal
      BY <2>5, <2>7, <2>8, <2>15, <2>16, <2>17, <2>18, <2>19 DEF HandMove
  <2> QED
      BY <2>1, <2>2, <2>3, <2>20 DEF Goal
<1> QED
    BY <1>2, <1>3

----------------------------------------------------------------------------
(* A file is waiting once, or it has been processed once.                  *)

\* The messages that stand for their files: those that are live and not on
\* their way out, and those of the pods that succeeded.
Current == (Live \ Leaving) \cup DoneMessages

\* At most one message stands for a file.
CurrentInv ==
    \A i, j \in Current : q.log[i].file = q.log[j].file => i = j

\* A message that is dead is not the message of a pod that succeeded.
LEMMA DeadIsNotDone ==
    ASSUME NEW i, Dead(i)
    PROVE  i \notin DoneMessages
    BY DEF Dead, DoneMessages, Doomed

\* The message that gets its successor is dead.
LEMMA LeavingIsDead ==
    ASSUME DeadInv, pc \in Replacing
    PROVE  Dead(r.msg)
    BY DEF DeadInv, Replacing, Reclaims

\* The message of a pod was live, and not on its way out, when the pod succeeded.
LEMMA DoneMoves ==
    ASSUME TypeInv, DeadInv, HoldInv, PodTurn
    PROVE  DoneMessages' \subseteq Current
<1>1. SUFFICES ASSUME NEW p \in Pod, pods'[p].phase = "succeeded"
               PROVE  pods'[p].work \in Current
    BY DEF DoneMessages
<1>2. ~ Claim(p)
    BY <1>1, ClaimTakes
<1>3. pods'[p].work = pods[p].work /\ pods[p].phase \in {"running", "succeeded"}
    BY <1>1, <1>2 DEF PodTurn
<1>4. CASE pods[p].phase = "succeeded"
    BY <1>3, <1>4 DEF Current, DoneMessages
<1>5. CASE pods[p].phase = "running"
  <2>1. PICK w : w = pods[p].work
      OBVIOUS
  <2>2. w \in DOMAIN q.log
      BY <1>5, <2>1 DEF TypeInv, PodMarks
  <2>3. q.log[w].owner = p /\ ~ q.log[w].deleted /\ p # NoOne
      BY <1>5, <2>1, ConstantsAssumption DEF HoldInv
  <2>4. w \in Live
      BY <2>2, <2>3 DEF Live, Pending, Present
  <2>5. ~ Dead(w)
      BY <1>5, <2>1 DEF Dead, Doomed
  <2>6. w \notin Leaving
      BY <2>5, LeavingIsDead DEF Leaving
  <2> QED
      BY <1>3, <2>1, <2>4, <2>6 DEF Current
<1> QED
    BY <1>3, <1>4, <1>5

\* A message comes to stand for a file when the one that did so is dead, or
\* when the file has none.
LEMMA CurrentStep ==
    ASSUME TypeInv, PhaseInv, FillInv, JobInv, DeadInv, DeadInv', HoldInv, CurrentInv,
           LiveMove, PodTurn, Effects
    PROVE  CurrentInv'
<1> DEFINE new == Len(q.log) + 1
<1>1. DoneMessages' \subseteq Current
    BY DoneMoves
<1>2. /\ Live \subseteq DOMAIN q.log /\ new \notin DOMAIN q.log
      /\ \A i \in DOMAIN q.log : q'.log[i].file = q.log[i].file
    BY Started DEF Effects
<1>3. Current \subseteq DOMAIN q.log
  <2>1. DoneMessages \subseteq DOMAIN q.log
      BY DEF DoneMessages, TypeInv, PodMarks
  <2> QED
      BY <1>2, <2>1 DEF Current
<1>4. SUFFICES ASSUME NEW i \in Current', NEW j \in Current', q'.log[i].file = q'.log[j].file
               PROVE  i = j
    BY DEF CurrentInv
<1> HIDE DEF new
<1>5. CASE Live' \ Leaving' \subseteq Live \ Leaving
  <2>1. Current' \subseteq Current
      BY <1>1, <1>5 DEF Current
  <2> QED
      BY <1>2, <1>3, <1>4, <2>1 DEF CurrentInv
<1>6. CASE /\ pc = "enqueue" /\ Live' = Live \cup {new} /\ q'.log[new].file \in r.files
           /\ Leaving = {} /\ Leaving' = {}
  <2>1. DoneMessages = {}
      BY <1>6 DEF PhaseInv, InitSteps, JobInv, DoneMessages
  <2>2. Current = Live /\ Current' \subseteq Live \cup {new}
      BY <1>1, <1>6, <2>1 DEF Current
  <2> QED
      BY <1>2, <1>4, <1>6, <2>2 DEF CurrentInv, FillInv
<1>7. CASE /\ pc \notin Replacing /\ pc' \in Replacing /\ r'.msg \in Live
           /\ Live' \subseteq Live \cup {new}
           /\ new \in Live' => q'.log[new].file = q.log[r'.msg].file
  <2>1. r'.msg \notin DoneMessages'
    <3>1. \A p \in Pod : pods'[p].work = r'.msg => pods'[p].phase \in Doomed
        BY <1>7 DEF DeadInv, Dead, Replacing, Reclaims
    <3> QED
        BY <3>1 DEF DoneMessages, Doomed
  <2>2. Leaving = {} /\ Leaving' = {r'.msg}
      BY <1>7 DEF Leaving
  <2>3. r'.msg \in Current /\ Current' \subseteq (Current \ {r'.msg}) \cup {new}
      BY <1>1, <1>7, <2>1, <2>2 DEF Current
  <2>4. \A k \in Current : q.log[k].file = q.log[r'.msg].file => k = r'.msg
      BY <2>3 DEF CurrentInv
  <2>5. new \in Current' => q'.log[new].file = q.log[r'.msg].file
      BY <1>1, <1>2, <1>3, <1>7 DEF Current
  <2> QED
      BY <1>2, <1>3, <1>4, <2>3, <2>4, <2>5 DEF CurrentInv
<1> QED
    BY <1>5, <1>6, <1>7 DEF LiveMove, new

----------------------------------------------------------------------------
(* The outcome.                                                            *)

\* When the Job is complete every file has been processed, and success is
\* reported of a started run whose Job was complete.
SuccessInv ==
    /\ job.state = "complete" => admitted \subseteq processed
    /\ pi.succeeded \/ cr.succeeded => cr.started /\ admitted \subseteq processed

\* The succeeded pods of a Job have processed a file each: when they are as
\* many as the files, every file has been processed.
LEMMA EveryFileProcessed ==
    ASSUME TypeInv, AdmittedInv, OnceInv, TotalInv, CurrentInv,
           job.state = "active", Cardinality(Done) >= job.completions
    PROVE  /\ admitted \subseteq processed
           /\ \A f \in admitted : \E i \in DoneMessages : q.log[i].file = f
<1> DEFINE file(p) == q.log[pods[p].work].file
           fileOf == [p \in Done |-> file(p)]
<1>1. IsFiniteSet(admitted)
    BY FS_Subset, ConstantsAssumption DEF TypeInv, HistoryOK
<1>2. ASSUME NEW p \in Done
      PROVE  /\ file(p) \in processed /\ file(p) \in admitted
             /\ pods[p].work \in Current /\ pods[p].work # 0
    <2>1. p \in Pod /\ pods[p].phase = "succeeded"
        BY DEF Done
    <2>2. pods[p].work \in DOMAIN q.log /\ file(p) \in processed
        BY <2>1 DEF OnceInv, WorkDone
    <2>3. pods[p].work # 0
        BY <2>1 DEF TypeInv, PodMarks
    <2> QED
        BY <2>1, <2>2, <2>3 DEF AdmittedInv, Current, DoneMessages
<1>3. ASSUME NEW p \in Done, NEW o \in Done, file(p) = file(o) PROVE p = o
  <2>1. pods[p].work = pods[o].work /\ pods[p].work # 0
      BY <1>2, <1>3 DEF CurrentInv
  <2> QED
      BY <2>1 DEF OnceInv, Done
<1>9. \A p \in Done : pods[p].work \in DoneMessages
    BY DEF Done, DoneMessages
<1>10. \A f : (\E p \in Done : f = file(p)) => \E i \in DoneMessages : q.log[i].file = f
    BY <1>9
<1> HIDE DEF file
<1>4. fileOf \in Injection(Done, admitted)
    BY <1>2, <1>3 DEF Injection, IsInjective
<1>5. /\ IsFiniteSet(Done) /\ Cardinality(Done) <= Cardinality(admitted)
      /\ Cardinality(Done) = Cardinality(admitted) => fileOf \in Surjection(Done, admitted)
    BY <1>1, <1>4, FS_Injection
<1>6. /\ Cardinality(Done) \in Nat /\ Cardinality(admitted) \in Nat /\ job.completions \in Nat
      /\ Cardinality(admitted) <= job.completions
    BY <1>1, <1>5, FS_CardinalityType DEF TotalInv, Admitted, TypeInv, ClusterOK, Jobs
<1>7. fileOf \in Surjection(Done, admitted)
    BY <1>5, <1>6
<1>8. \A f \in admitted : \E p \in Done : f = file(p)
    BY <1>7 DEF Surjection
<1> QED
    BY <1>2, <1>8, <1>10

\* The Job completes when enough of its pods have succeeded, and the files of
\* a run that has started, or whose Job exists, are those it started with.
LEMMA CompletionMoves ==
    ASSUME TypeInv, PhaseInv, JobInv, [Next]_vars
    PROVE  /\ job'.state = "complete" =>
                \/ job.state = "complete"
                \/ job.state = "active" /\ Cardinality(Done) >= job.completions
           /\ cr.started \/ job'.state = "complete" => admitted' = admitted
<1>1. job \in Jobs
    BY DEF TypeInv, ClusterOK
<1>2. JobStep => /\ job'.state = "complete" => JobCompletes
                 /\ UNCHANGED admitted
    BY <1>1 DEF JobStep, JobCompletes, JobGivesUp, JobFails, JobExpires, JobBecomes, Jobs, history
<1>3. CreateJob => job' = job \/ job'.state = "active"
    BY DEF CreateJob, Takes
<1>4. job'.state = "complete" => job.state = "complete" \/ JobCompletes
    BY <1>2, <1>3, JobMoves
<1>5. admitted' = admitted \/ (~ cr.started /\ job' = job)
  <2>1. ClusterStep => admitted' = admitted
      BY <1>2 DEF ClusterStep, PodStep, StartPod, TerminatePod, Claim,
         ClaimReplyLost, Start, Succeed, Fail, Crash, Stick, Recover, Evict, Becomes, history
  <2>2. ReconcileStep => admitted' = admitted \/ Enqueue
      BY DEF ReconcileStep, Begin, Save, SaveStart, Inspect, List, Recount, FindJob, CreateJob,
         ReadLag, ReadPending, CheckFailure, StillRunning, CheckCompletion, Restart, NoEffect,
         history
  <2>3. MessageStep => admitted' = admitted
      BY DEF MessageStep, ListPods, FindMessage, AckHandled, Retire, AckRetired,
         DeletePod, FindStale, ListOwners, ClaimStale, AckFinished, RetireStale, AckStale,
         DeleteStale, Frame, history
  <2>4. FlushStep => admitted' = admitted
      BY DEF FlushStep, FlushBegins, FlushClaim, FlushAck, FlushDel, FlushRest,
         FlushDelRest, FlushDone, FlushReplace, FlushAdd, Outside
  <2>5. Enqueue => (~ cr.started /\ job' = job)
      BY DEF Enqueue, PhaseInv, InitSteps, cluster
  <2>6. UNCHANGED vars => admitted' = admitted
      BY DEF vars, history
  <2> QED
      BY <2>1, <2>2, <2>3, <2>4, <2>5, <2>6 DEF Next
<1>6. ~ cr.started => job.state = "absent"
    BY DEF JobInv
<1> QED
    BY <1>4, <1>5, <1>6 DEF JobCompletes

\* Success is reported when the Job is found to be complete.
LEMMA SuccessMoves ==
    ASSUME TypeInv, PhaseInv, [Next]_vars
    PROVE  /\ cr'.succeeded => cr.succeeded \/ pi.succeeded
           /\ pi'.succeeded => \/ cr.succeeded \/ pi.succeeded
                               \/ cr.started /\ job.state = "complete"
<1> USE DEF GoTo
<1> DEFINE Goal == /\ cr'.succeeded => cr.succeeded \/ pi.succeeded
                   /\ pi'.succeeded => \/ cr.succeeded \/ pi.succeeded
                                       \/ cr.started /\ job.state = "complete"
<1>1. cr \in Statuses /\ pi \in Statuses
    BY DEF TypeInv, ReconcilerOK
<1>2. UNCHANGED <<cr, pi>> => Goal
    OBVIOUS
<1>3. cr' \in {cr, pi} /\ pi' \in {cr, pi, cr'} => Goal
    OBVIOUS
<1>4. cr' = cr /\ pi'.succeeded \in {FALSE, pi.succeeded} => Goal
    OBVIOUS
<1>5. CASE ClusterStep
    BY <1>2, <1>5 DEF ClusterStep, PodStep, JobStep, StartPod, TerminatePod, Claim,
       ClaimReplyLost, Start, Succeed, Fail, Crash, Stick, Recover, Evict, Becomes,
       JobCompletes, JobGivesUp, JobFails, JobExpires, JobBecomes, Reconciler
<1>6. CASE Begin \/ Save \/ SaveStart \/ Restart
    BY <1>3, <1>6 DEF Begin, Save, SaveStart, Restart, Finish, Takes, NoEffect
<1>7. CASE Inspect \/ List \/ Recount \/ Enqueue
    BY <1>1, <1>4, <1>7 DEF Inspect, List, Recount, Enqueue, GiveUp, Initialized, NoEffect,
       Statuses
<1>8. CASE FindJob \/ CreateJob \/ ReadLag \/ ReadPending \/ CheckFailure \/ StillRunning
    BY <1>1, <1>4, <1>8 DEF FindJob, CreateJob, ReadLag, ReadPending, CheckFailure,
       StillRunning, JobError, NoEffect, Statuses
<1>9. CASE CheckCompletion
  <2>1. cr.started /\ cr' = cr
      BY <1>9 DEF CheckCompletion, PhaseInv, InitSteps
  <2>2. \/ Finish
        \/ job.state = "complete"
        \/ pi' = [pi EXCEPT !.progressing = TRUE]
      BY <1>9 DEF CheckCompletion
  <2> QED
      BY <1>1, <1>3, <1>4, <2>1, <2>2 DEF Finish, Statuses
<1>10. CASE MessageStep
    BY <1>2, <1>10 DEF MessageStep, ListPods, FindMessage, AckHandled, Retire, AckRetired,
       DeletePod, FindStale, ListOwners, ClaimStale, AckFinished, RetireStale, AckStale,
       DeleteStale, Frame
<1>11. CASE FlushStep
    BY <1>1, <1>4, <1>11 DEF FlushStep, FlushBegins, FlushClaim, FlushAck, FlushDel, FlushRest,
       FlushDelRest, FlushDone, FlushReplace, FlushAdd, FlushEnds, Outside, Statuses
<1>12. CASE UNCHANGED vars
    BY <1>2, <1>12 DEF vars
<1> QED
    BY <1>5, <1>6, <1>7, <1>8, <1>9, <1>10, <1>11, <1>12 DEF Next, ReconcileStep

\* What is processed stays so, and a started run gets no more files.
LEMMA SuccessStep ==
    ASSUME TypeInv, AdmittedInv, PhaseInv, OnceInv, JobInv, TotalInv, CurrentInv, SuccessInv,
           Effects, [Next]_vars
    PROVE  SuccessInv'
<1>1. processed \subseteq processed' /\ (cr.started => cr'.started)
    BY ControlStep DEF Effects
<1>2. job.state = "complete" => admitted \subseteq processed
    BY DEF SuccessInv
<1>3. job'.state = "complete" => admitted' \subseteq processed'
    BY <1>1, <1>2, CompletionMoves, EveryFileProcessed
<1>4. pi'.succeeded \/ cr'.succeeded => cr.started /\ admitted \subseteq processed
    BY <1>2, SuccessMoves DEF SuccessInv
<1> QED
    BY <1>1, <1>3, <1>4, CompletionMoves DEF SuccessInv

----------------------------------------------------------------------------
(* The theorems.                                                           *)

\* The inductive invariant of an undisturbed run.
OutcomeInv ==
    /\ OwnerInv /\ AdmittedInv /\ PhaseInv /\ OneLiveInv
    /\ OnceInv /\ JobInv /\ TotalInv
    /\ SeenInv /\ DeadInv /\ CustodyInv /\ HoldInv
    /\ CurrentInv /\ SuccessInv

\* No call of the reconciler fails, it is not restarted, and a container that
\* cannot start never does.
Undisturbed == Faults \subseteq {"claim"} /\ "recover" \notin PodFaults

\* The invariants hold of a run that has not begun.
LEMMA OutcomeStarts ==
    ASSUME Init
    PROVE  OutcomeInv
<1>1. /\ q = EmptyStream /\ q.log = << >> /\ DOMAIN q.log = {} /\ pc = "idle" /\ admitted = {}
      /\ job = [state |-> "absent", run |-> 0, completions |-> 0]
      /\ pods = [p \in Pod |-> [phase |-> "unborn", work |-> 0, run |-> 0]]
      /\ cr = NewStatus /\ pi = NewStatus /\ r = Blank
      /\ \A f \in File : dlq[f] = << >>
    BY DEF Init, EmptyStream
<1>2. q.delivered = 0 /\ job.state = "absent"
      /\ \A p \in Pod : pods[p].phase = "unborn" /\ pods[p].work = 0
    BY <1>1 DEF EmptyStream
<1>3. ~ cr.started /\ ~ pi.started /\ ~ cr.succeeded /\ ~ pi.succeeded
    BY <1>1 DEF NewStatus
<1>4. /\ r.todo = {} /\ r.at = {} /\ r.known = {} /\ r.batch = {} /\ r.files = {}
      /\ \A f \in File : r.held[f] = 0
    BY <1>1 DEF Blank
<1>5. Live = {} /\ DoneMessages = {}
    BY <1>1, <1>2 DEF Live, Undelivered, Pending, Present, DoneMessages
<1>6. OwnerInv /\ CustodyInv /\ DeadInv
    BY <1>1 DEF OwnerInv, CustodyInv, DeadInv, Reclaims
<1>7. AdmittedInv
    BY <1>1, <1>4 DEF AdmittedInv, Buried, Remembered
<1>8. PhaseInv
    BY <1>1, <1>3 DEF PhaseInv, InitSteps, FlushSteps
<1>9. OneLiveInv /\ CurrentInv
    BY <1>1, <1>5 DEF OneLiveInv, InHandInv, FillInv, CurrentInv, Current
<1>10. OnceInv /\ HoldInv /\ SeenInv
    BY <1>1, <1>2, <1>4 DEF OnceInv, HoldInv, SeenInv
<1>11. JobInv
    BY <1>1, <1>2 DEF JobInv, ActivePhases, PendingPhases, FlushSteps
<1>12. TotalInv /\ SuccessInv
    BY <1>1, <1>2, <1>3 DEF TotalInv, SuccessInv
<1> QED
    BY <1>6, <1>7, <1>8, <1>9, <1>10, <1>11, <1>12 DEF OutcomeInv

\* Every step of an undisturbed run keeps them.
LEMMA OutcomeStep ==
    ASSUME Undisturbed, TypeInv, OutcomeInv, [Next]_vars
    PROVE  OutcomeInv' /\ HandMove
<1>1. /\ "call" \notin Faults /\ "crash" \notin Faults /\ "flush" \notin Faults
      /\ "recover" \notin PodFaults
    BY DEF Undisturbed
<1>2. /\ OwnerInv /\ AdmittedInv /\ PhaseInv /\ OneLiveInv /\ InHandInv /\ FillInv
      /\ OnceInv /\ JobInv /\ TotalInv /\ SeenInv /\ DeadInv /\ CustodyInv /\ HoldInv
      /\ CurrentInv /\ SuccessInv
    BY DEF OutcomeInv, OneLiveInv
<1>3. \A p \in Pod : EmptyHanded(p) => pods[p].work = 0
    BY <1>2 DEF OnceInv
<1>4. /\ HandMove /\ FileMove /\ MemoryMove /\ SeenMove /\ WorkMove /\ PodTurn /\ SelectMove
    BY <1>1, <1>3, HandMoves, FileMoves, MemoryMoves, SeenMoves, WorkMoves, PodTurns, SelectMoves
<1>5. Effects /\ LiveMove
    BY <1>2, <1>4, FileEffects, LiveMoves
<1>6. OwnerInv' /\ AdmittedInv' /\ PhaseInv' /\ OneLiveInv'
    BY <1>2, <1>4, <1>5, OwnerStep, AdmittedStep, PhaseStep, OneLiveStep
<1>7. OnceInv' /\ JobInv' /\ TotalInv'
    BY <1>2, <1>4, <1>5, OnceStep, JobInvStep, TotalStep
<1>8. SeenInv' /\ DeadInv' /\ CustodyInv' /\ HoldInv'
    BY <1>1, <1>2, <1>4, SeenStep, DeadStep, CustodyStep, HoldStep
<1>9. CurrentInv' /\ SuccessInv'
    BY <1>2, <1>4, <1>5, <1>8, CurrentStep, SuccessStep
<1> QED
    BY <1>4, <1>6, <1>7, <1>8, <1>9 DEF OutcomeInv

\* handleCompletedPods and runReclaimer do not retry, nor bury, the message of
\* a pod that has succeeded.  A call that fails may make them do so: the
\* reclaimer then owns a message that it does not know to be finished.
THEOREM SuccessIsNotRetried ==
    ASSUME Undisturbed
    PROVE  Spec => NoRetryOfSuccess
<1>1. Init => TypeInv /\ OutcomeInv
    BY InitTypes, OutcomeStarts
<1>2. TypeInv /\ OutcomeInv /\ [Next]_vars => (TypeInv /\ OutcomeInv)'
    BY NextKeepsTypes, OutcomeStep
<1> DEFINE SucceededStay == \A i \in DOMAIN q.log :
               (/\ pc \in {"retire", "reclaimNext"}
                /\ pc' \in {"ackRetired", "reclaimAck"}
                /\ r'.msg = i) => i \notin DoneMessages
<1>3. ASSUME TypeInv, OutcomeInv, [Next]_vars PROVE SucceededStay
  <2>1. HandMove /\ DeadInv
      BY <1>3, OutcomeStep DEF OutcomeInv
  <2>2. SUFFICES ASSUME pc \in {"retire", "reclaimNext"}, pc' \in {"ackRetired", "reclaimAck"}
                 PROVE  r'.msg \notin DoneMessages
      OBVIOUS
  <2>3. \/ pc = "retire" /\ r' = r
        \/ pc = "reclaimNext" /\ r'.msg \in r.batch /\ r'.msg \notin r.finished
      BY <2>1, <2>2 DEF HandMove, Busy, FlushSteps
  <2>4. Dead(r'.msg)
      BY <2>1, <2>3 DEF DeadInv, Reclaims
  <2> QED
      BY <2>4, DeadIsNotDone
<1> HIDE DEF SucceededStay
<1>4. TypeInv /\ OutcomeInv /\ [Next]_vars => [SucceededStay]_vars
    BY <1>3
<1>5. Spec => [][SucceededStay]_vars
    BY <1>1, <1>2, <1>4, PTL DEF Spec
<1> QED
    BY <1>5 DEF NoRetryOfSuccess, SucceededStay

\* "All files processed": the Job is complete when as many of its pods have
\* succeeded as it has completions, no fewer than the files, and no two of
\* them have processed the same file.
THEOREM SuccessIsTrue ==
    ASSUME Undisturbed
    PROVE  Spec => []SucceededMeansProcessed
<1>1. Init => TypeInv /\ OutcomeInv
    BY InitTypes, OutcomeStarts
<1>2. TypeInv /\ OutcomeInv /\ [Next]_vars => (TypeInv /\ OutcomeInv)'
    BY NextKeepsTypes, OutcomeStep
<1>3. OutcomeInv => SucceededMeansProcessed
    BY DEF OutcomeInv, SuccessInv, SucceededMeansProcessed
<1> QED
    BY <1>1, <1>2, <1>3, PTL DEF Spec
----------------------------------------------------------------------------
(* A run that has ended.                                                   *)

\* The Job is created once and does not expire.
JobStays == MaxJobs <= 1

\* It has one life, and it fails before anything is flushed.
OneJobInv ==
    /\ job.run = IF job.state = "absent" THEN 0 ELSE 1
    /\ pc \in FlushSteps => job.state = "failed"

\* The Job has one life, and comes to one end.
LEMMA OneJobStep ==
    ASSUME JobStays, TypeInv, OneJobInv, [Next]_vars
    PROVE  /\ OneJobInv'
           /\ job.state \in {"complete", "failed"} => job' = job
           /\ job.state # "absent" => job'.run = job.run /\ job'.state # "absent"
<1>1. job \in Jobs /\ MaxJobs \in Nat /\ MaxJobs <= 1
    BY ConstantsAssumption DEF TypeInv, ClusterOK, JobStays
<1>2. job.run = IF job.state = "absent" THEN 0 ELSE 1
    BY DEF OneJobInv
<1>3. job' = job \/ JobStep \/ CreateJob
    BY JobMoves
<1>4. ~ JobExpires
    BY <1>1, <1>2 DEF JobExpires
<1>5. JobStep => /\ job.state \in {"active", "failing"} /\ job'.run = job.run
                 /\ job'.state \in {"failing", "complete", "failed"}
    BY <1>1, <1>4 DEF JobStep, JobCompletes, JobGivesUp, JobFails, JobBecomes, Jobs
<1>6. CreateJob => \/ job' = job
                   \/ /\ job.state = "absent" /\ job'.run = job.run + 1
                      /\ job'.state = "active"
    BY DEF CreateJob, Takes
<1>7. pc' \in FlushSteps => job.state = "failed" /\ job' = job
    BY <1>3, <1>5, <1>6, FlushEntered DEF OneJobInv
<1>8. job'.run = IF job'.state = "absent" THEN 0 ELSE 1
    BY <1>1, <1>2, <1>3, <1>5, <1>6 DEF Jobs
<1> QED
    BY <1>3, <1>5, <1>6, <1>7, <1>8 DEF OneJobInv

\* As long as the Job has not failed only delivered messages are deleted, and
\* none that is pending.
TidyInv ==
    /\ pc = "reclaimDel" => q.log[r.msg].owner = NoOne
    /\ job.state # "failed" => \A i \in DOMAIN q.log :
           q.log[i].deleted => i <= q.delivered /\ q.log[i].owner = NoOne

\* What commands do to the owners of messages that are deleted.
LEMMA DeletedOwners ==
    ASSUME TypeInv, NEW i \in DOMAIN q'.log
    PROVE  LET Was == i \in DOMAIN q.log /\ q.log[i].deleted
               Stays == q'.log[i].deleted =>
                            Was /\ (q.log[i].owner = NoOne => q'.log[i].owner = NoOne) IN
           /\ q' = q => Stays
           /\ \A p \in Pod : Undelivered(q) # {} /\ q' = XReadGroup(q, p) =>
                /\ Stays
                /\ i <= q.delivered => q'.log[i] = q.log[i]
           /\ \A f \in File, n \in Nat : q' = XAdd(q, f, n) => Stays
           /\ \A m \in DOMAIN q.log : q' = XAck(q, m) =>
                /\ Stays
                /\ i = m => q'.log[i].owner = NoOne
           /\ \A ids : q' = XClaim(q, ids, Reclaimer) => Stays
           /\ \A ids : q' = XDel(q, ids) =>
                /\ i \in DOMAIN q.log /\ q'.log[i].owner = q.log[i].owner
                /\ q'.log[i].deleted => i \in ids \/ q.log[i].deleted
<1> DEFINE Was == i \in DOMAIN q.log /\ q.log[i].deleted
           Stays == q'.log[i].deleted =>
                        Was /\ (q.log[i].owner = NoOne => q'.log[i].owner = NoOne)
<1>1. /\ GoodStream(q, Consumers) /\ DOMAIN q.log = 1 .. Len(q.log) /\ Len(q.log) \in Nat
      /\ Reclaimer \in Consumers /\ Pod \subseteq Consumers
      /\ q.delivered \in Nat
    BY Started, Positions
<1>2. ASSUME NEW p \in Pod, Undelivered(q) # {}, q' = XReadGroup(q, p)
      PROVE  Stays /\ (i <= q.delivered => q'.log[i] = q.log[i])
  <2> DEFINE m == Least(Undelivered(q))
  <2>1. /\ GoodStream(q', Consumers) /\ Len(q'.log) = Len(q.log)
        /\ m \in Undelivered(q) /\ q'.log[m].deleted = q.log[m].deleted
        /\ \A j \in DOMAIN q.log : j # m => q'.log[j] = q.log[j]
      BY <1>1, <1>2, XReadGroupDelivers
  <2>2. DOMAIN q'.log = DOMAIN q.log
      BY <1>1, <2>1, Positions
  <2>3. m \in DOMAIN q.log /\ ~ q.log[m].deleted /\ m > q.delivered
      BY <2>1 DEF Undelivered, Present
  <2> HIDE DEF m
  <2> QED
      BY <1>1, <2>1, <2>2, <2>3
<1>3. ASSUME NEW f \in File, NEW n \in Nat, q' = XAdd(q, f, n) PROVE Stays
  <2>1. /\ GoodStream(q', Consumers) /\ Len(q'.log) = Len(q.log) + 1
        /\ \A j \in 1 .. Len(q.log) : q'.log[j] = q.log[j]
        /\ q'.log[Len(q.log) + 1] =
             [file |-> f, attempts |-> n, owner |-> NoOne, deleted |-> FALSE]
      BY <1>1, <1>3, XAddAppends
  <2>2. q'.log[Len(q.log) + 1].deleted = FALSE /\ DOMAIN q'.log = 1 .. (Len(q.log) + 1)
      BY <2>1, Positions
  <2> QED
      BY <1>1, <2>1, <2>2
<1>4. ASSUME NEW m \in DOMAIN q.log, q' = XAck(q, m)
      PROVE  Stays /\ (i = m => q'.log[i].owner = NoOne)
  <2>1. /\ GoodStream(q', Consumers) /\ Len(q'.log) = Len(q.log)
        /\ q'.log[m].owner = NoOne /\ q'.log[m].deleted = q.log[m].deleted
        /\ \A j \in DOMAIN q.log : j # m => q'.log[j] = q.log[j]
      BY <1>1, <1>4, XAckReleases
  <2>2. DOMAIN q'.log = DOMAIN q.log
      BY <1>1, <2>1, Positions
  <2> QED
      BY <1>1, <2>1, <2>2
<1>5. ASSUME NEW ids, q' = XClaim(q, ids, Reclaimer) PROVE Stays
  <2>1. /\ GoodStream(q', Consumers) /\ Len(q'.log) = Len(q.log)
        /\ \A j \in DOMAIN q.log :
             /\ q'.log[j].deleted = q.log[j].deleted
             /\ j \notin ids \cap Pending(q) => q'.log[j] = q.log[j]
      BY <1>1, <1>5, XClaimMoves
  <2>2. DOMAIN q'.log = DOMAIN q.log
      BY <1>1, <2>1, Positions
  <2> QED
      BY <2>1, <2>2 DEF Pending
<1>6. ASSUME NEW ids, q' = XDel(q, ids)
      PROVE  /\ i \in DOMAIN q.log /\ q'.log[i].owner = q.log[i].owner
             /\ q'.log[i].deleted => i \in ids \/ q.log[i].deleted
  <2>1. /\ GoodStream(q', Consumers) /\ Len(q'.log) = Len(q.log)
        /\ \A j \in DOMAIN q.log :
             /\ q'.log[j].owner = q.log[j].owner
             /\ j \notin ids => q'.log[j] = q.log[j]
      BY <1>1, <1>6, XDelMarks
  <2>2. DOMAIN q'.log = DOMAIN q.log
      BY <1>1, <2>1, Positions
  <2> QED
      BY <2>1, <2>2
<1> QED
    BY <1>2, <1>3, <1>4, <1>5, <1>6

\* Only the reclaimer deletes messages before the Job has failed, and it has
\* acknowledged them by then.
LEMMA TidyStep ==
    ASSUME JobStays, TypeInv, OneJobInv, InHandInv, DeadInv, TidyInv, HandMove, Effects,
           [Next]_vars
    PROVE  TidyInv'
<1>1. /\ q.delivered \in Nat /\ q'.delivered \in Nat /\ q.delivered <= q'.delivered
      /\ DOMAIN q.log \subseteq Nat /\ DOMAIN q.log \subseteq DOMAIN q'.log
      /\ r \in Registers /\ r.batch \subseteq DOMAIN q.log
      /\ pc \in HandlesMessage => r.msg \in DOMAIN q.log
      /\ \A i \in DOMAIN q.log : q.log[i].file \in File
    BY NextKeepsTypes, Started, Positions
    DEF TypeInv, StreamOK, GoodStream, Stream, ReconcilerOK, PassMarks, Effects, Extends
<1>2. /\ pc = "reclaimDel" => q.log[r.msg].owner = NoOne
      /\ pc = "reclaimDel" => r.msg \in r.batch /\ r.msg <= q.delivered
      /\ job.state # "failed" => \A i \in DOMAIN q.log :
             q.log[i].deleted => i <= q.delivered /\ q.log[i].owner = NoOne
    BY DEF TidyInv, InHandInv, DeadInv
<1>3. job'.state # "failed" => job.state # "failed"
    BY OneJobStep
<1> DEFINE Stays(i) == q'.log[i].deleted =>
               /\ i \in DOMAIN q.log /\ q.log[i].deleted
               /\ q.log[i].owner = NoOne => q'.log[i].owner = NoOne
           Tidy == job'.state # "failed" => \A i \in DOMAIN q'.log :
                       q'.log[i].deleted => i <= q'.delivered /\ q'.log[i].owner = NoOne
<1>4. (\A i \in DOMAIN q'.log : Stays(i)) => Tidy
    BY <1>1, <1>2, <1>3
<1> HIDE DEF Stays
<1>5. Tidy /\ (pc' = "reclaimDel" => q'.log[r'.msg].owner = NoOne) => TidyInv'
    BY DEF TidyInv
<1>6. q' = q => Tidy
    BY <1>4, DeletedOwners DEF Stays
<1>7. \A m \in DOMAIN q.log : q' = XAck(q, m) => Tidy /\ q'.log[m].owner = NoOne
    BY <1>1, <1>4, DeletedOwners DEF Stays
<1>8. \A m \in DOMAIN q.log : Replaced(m) => Tidy
    BY <1>1, <1>4, <1>6, DeletedOwners DEF Stays, Replaced
<1>9. CASE UNCHANGED <<pc, r>> /\ (q' = q \/ \E p \in Pod : Undelivered(q) # {} /\ q' = XReadGroup(q, p))
  <2>1. CASE q' = q
      BY <1>2, <1>5, <1>6, <1>9, <2>1
  <2>2. CASE \E p \in Pod : Undelivered(q) # {} /\ q' = XReadGroup(q, p)
    <3>1. Tidy
        BY <1>4, <2>2, DeletedOwners DEF Stays
    <3>2. pc = "reclaimDel" => q'.log[r.msg] = q.log[r.msg]
        BY <1>1, <1>2, <2>2, DeletedOwners
    <3> QED
        BY <1>2, <1>5, <1>9, <3>1, <3>2
  <2> QED
      BY <1>9, <2>1, <2>2
<1>10. CASE pc \in FlushSteps /\ pc' \in FlushSteps
  <2>1. job'.state = "failed" /\ pc' # "reclaimDel"
      BY <1>10, OneJobStep DEF OneJobInv, FlushSteps
  <2> QED
      BY <2>1 DEF TidyInv
<1>11. CASE pc' # "reclaimDel" /\ q' = q
    BY <1>5, <1>6, <1>11
<1>12. CASE pc' \in {"enqueue", "recount"} /\ \E f \in r.files : q' = XAdd(q, f, 0)
  <2>1. \A i \in DOMAIN q'.log : Stays(i)
      BY <1>1, <1>12, DeletedOwners DEF Stays, Registers
  <2> QED
      BY <1>4, <1>5, <1>12, <2>1
<1>13. CASE pc \in {"ack", "ackRetired"} /\ pc' \notin Hands /\ q' = XAck(q, r.msg)
    BY <1>1, <1>5, <1>7, <1>13 DEF HandlesMessage, Hands
<1>14. CASE pc = "retire" /\ pc' = "ackRetired" /\ Replaced(r.msg)
    BY <1>1, <1>5, <1>8, <1>14 DEF HandlesMessage
<1>15. ASSUME NEW batch, Proceeds(batch) PROVE pc' # "reclaimDel"
    BY <1>15 DEF Proceeds, Hands
<1>16. CASE pc = "xclaim" /\ q' = XClaim(q, r.batch, Reclaimer) /\ Proceeds(Claimable(q, r.batch))
  <2>1. \A i \in DOMAIN q'.log : Stays(i)
      BY <1>16, DeletedOwners DEF Stays
  <2> QED
      BY <1>4, <1>5, <1>15, <1>16, <2>1
<1>17. CASE /\ pc = "reclaimNext" /\ r'.msg \in r.batch
            /\ \/ pc' = "reclaimDel" /\ q' = XAck(q, r'.msg)
               \/ pc' = "reclaimAck" /\ Replaced(r'.msg)
    BY <1>1, <1>5, <1>7, <1>8, <1>17
<1>18. CASE pc = "reclaimAck" /\ pc' = "reclaimDel" /\ r' = r /\ q' = XAck(q, r.msg)
    BY <1>1, <1>5, <1>7, <1>18 DEF HandlesMessage
<1>19. CASE pc = "reclaimDel" /\ q' = XDel(q, {r.msg}) /\ Proceeds(r.batch \ {r.msg})
  <2>1. \A i \in DOMAIN q'.log :
          /\ i \in DOMAIN q.log /\ q'.log[i].owner = q.log[i].owner
          /\ q'.log[i].deleted => i \in {r.msg} \/ q.log[i].deleted
      BY <1>19, DeletedOwners
  <2>2. ASSUME job'.state # "failed", NEW i \in DOMAIN q'.log, q'.log[i].deleted
        PROVE  i <= q'.delivered /\ q'.log[i].owner = NoOne
    <3>1. i \in DOMAIN q.log /\ i \in Nat /\ (i = r.msg \/ q.log[i].deleted)
        BY <1>1, <2>1, <2>2
    <3>2. i <= q.delivered /\ q.log[i].owner = NoOne
        BY <1>2, <1>3, <1>19, <2>2, <3>1
    <3> QED
        BY <1>1, <2>1, <3>1, <3>2
  <2>3. Tidy
      BY <2>2
  <2> QED
      BY <1>5, <1>15, <1>19, <2>3
<1> QED
    BY <1>9, <1>10, <1>11, <1>12, <1>13, <1>14, <1>16, <1>17, <1>18, <1>19 DEF HandMove, Hands

----------------------------------------------------------------------------
\* A completed Job has a successful pod for every file.
AllDoneInv ==
    job.state = "complete" => \A f \in admitted : \E i \in DoneMessages : q.log[i].file = f

\* A pod that has succeeded is there for as long as its Job.
LEMMA SuccessStays ==
    ASSUME JobStays, TypeInv, OneJobInv, [Next]_vars, NEW p \in Pod, pods[p].phase = "succeeded"
    PROVE  pods'[p].phase = "succeeded" /\ pods'[p].work = pods[p].work
<1>1. pods \in Pods /\ job \in Jobs /\ MaxJobs \in Nat /\ MaxJobs <= 1
    BY ConstantsAssumption DEF TypeInv, ClusterOK, JobStays
<1>2. ~ JobExpires
    BY <1>1 DEF JobExpires, OneJobInv
<1>3. ASSUME NEW x \in Pod, PodStep(x) PROVE pods'[p] = pods[p]
    BY <1>1, <1>3 DEF PodStep, StartPod, TerminatePod, Claim, ClaimReplyLost, Start, Succeed, Fail,
       Crash, Stick, Recover, Evict, Becomes, Pods, Active, ActivePhases, PendingPhases, cluster
<1>4. DeletePod => pods'[p] = pods[p]
    BY <1>1 DEF DeletePod, Pods, ActivePhases, PendingPhases, Takes
<1> QED
    BY <1>2, <1>3, <1>4, PodsMove

\* It completes when there is one for every file.
LEMMA AllDoneStep ==
    ASSUME JobStays, TypeInv, AdmittedInv, PhaseInv, OnceInv, JobInv, TotalInv, CurrentInv,
           OneJobInv, AllDoneInv, Effects, [Next]_vars
    PROVE  AllDoneInv'
<1>1. SUFFICES ASSUME job'.state = "complete", NEW f \in admitted
               PROVE  \E i \in DoneMessages' : q'.log[i].file = f
    BY CompletionMoves DEF AllDoneInv
<1>2. PICK i \in DoneMessages : q.log[i].file = f
    BY <1>1, CompletionMoves, EveryFileProcessed DEF AllDoneInv
<1>3. PICK p \in Pod : pods[p].phase = "succeeded" /\ pods[p].work = i
    BY DEF DoneMessages
<1>4. i \in DOMAIN q.log
    BY <1>3 DEF OnceInv, WorkDone
<1>5. i \in DoneMessages'
    BY <1>3, SuccessStays DEF DoneMessages
<1> QED
    BY <1>2, <1>4, <1>5 DEF Effects

\* When the Job is complete the stream has nothing to hand out, and what is
\* pending are messages of successful pods.
LEMMA NothingWaits ==
    ASSUME TypeInv, AdmittedInv, OwnerInv, OneLiveInv, OnceInv, CustodyInv, CurrentInv,
           TidyInv, AllDoneInv, job.state = "complete", pc \notin Replacing
    PROVE  /\ Undelivered(q) = {}
           /\ LagReplies(q) \subseteq {0, LagUnknown}
           /\ \A i \in Pending(q) :
                \/ pc \in {"reclaimNext", "reclaimAck", "reclaimDel", "flushAck", "flushDel"}
                \/ q.log[i].owner \in Pod /\ pods[q.log[i].owner].phase = "succeeded"
                     /\ pods[q.log[i].owner].work = i
<1>1. /\ GoodStream(q, Consumers) /\ DOMAIN q.log = 1 .. Len(q.log) /\ Len(q.log) \in Nat
      /\ q.delivered \in 0 .. Len(q.log)
      /\ Live \subseteq DOMAIN q.log /\ Undelivered(q) \subseteq DOMAIN q.log
      /\ \A i \in DOMAIN q.log : q.log[i].owner \in Consumers \cup {NoOne}
  <2>1. GoodStream(q, Consumers) /\ q.log \in Seq(Entry(Consumers))
      BY Started, Positions
  <2>2. \A i \in DOMAIN q.log : q.log[i] \in Entry(Consumers)
      BY <2>1
  <2> QED
      BY <2>1, <2>2, Started, Positions, ReadsArePositions DEF Entry
<1>2. \A i \in DOMAIN q.log : q.log[i].deleted => i <= q.delivered /\ q.log[i].owner = NoOne
    BY DEF TidyInv
<1>3. ASSUME NEW i \in Live
      PROVE  \E p \in Pod : pods[p].phase = "succeeded" /\ pods[p].work = i
  <2>1. q.log[i].file \in admitted /\ i \in Current
      BY <1>1 DEF AdmittedInv, Current, Leaving
  <2>2. PICK j \in DoneMessages : q.log[j].file = q.log[i].file
      BY <2>1 DEF AllDoneInv
  <2>3. i = j
      BY <2>1, <2>2 DEF CurrentInv, Current
  <2> QED
      BY <2>2, <2>3 DEF DoneMessages
<1>4. ASSUME NEW i \in Undelivered(q) PROVE FALSE
  <2>1. i \in Live /\ i > q.delivered /\ i \in Nat
      BY <1>1 DEF Live, Undelivered
  <2>2. PICK p \in Pod : pods[p].work = i
      BY <1>3, <2>1
  <2>3. i <= q.delivered
      BY <2>2 DEF OnceInv
  <2> QED
      BY <1>1, <2>1, <2>3
<1>5. LagReplies(q) \subseteq {0, LagUnknown}
  <2>1. Cardinality(Undelivered(q)) = 0
      BY <1>4, FS_EmptySet
  <2>2. q.delivered = Len(q.log)
    <3>1. SUFFICES ASSUME q.delivered < Len(q.log) PROVE FALSE
        BY <1>1
    <3>2. Len(q.log) \in DOMAIN q.log /\ ~ q.log[Len(q.log)].deleted
        BY <1>1, <1>2, <3>1
    <3> QED
        BY <1>1, <1>4, <3>1, <3>2 DEF Undelivered, Present
  <2>3. Len(q.log) - q.delivered = 0
      BY <1>1, <2>2
  <2> QED
      BY <1>4, <2>1, <2>3 DEF LagReplies
<1>6. ASSUME NEW i \in Pending(q),
             pc \notin {"reclaimNext", "reclaimAck", "reclaimDel", "flushAck", "flushDel"}
      PROVE  q.log[i].owner \in Pod /\ pods[q.log[i].owner].phase = "succeeded"
               /\ pods[q.log[i].owner].work = i
  <2>1. i \in DOMAIN q.log /\ q.log[i].owner # NoOne
      BY DEF Pending
  <2>2. i \in Live
      BY <1>2, <2>1 DEF Live, Pending, Present
  <2>3. q.log[i].owner \in Pod
      BY <1>1, <1>6, <2>1 DEF CustodyInv, Consumers
  <2>4. PICK p \in Pod : pods[p].phase = "succeeded" /\ pods[p].work = i
      BY <1>3, <2>2
  <2>5. p = q.log[i].owner
      BY <2>1, <2>3, <2>4 DEF OnceInv
  <2> QED
      BY <2>3, <2>4, <2>5
<1> QED
    BY <1>4, <1>5, <1>6

----------------------------------------------------------------------------
\* What a step that sees to the work of a pass leaves of the status.
SameOutcome ==
    /\ pi'.started = pi.started /\ pi'.total = pi.total /\ pi'.ended = pi.ended
    /\ pi'.progressing = pi.progressing /\ pi'.succeeded = pi.succeeded

\* The steps of initialization before its status update.
Filling == InitSteps \ {"saveStart"}

\* What a step may do to the status, stored and in memory.
StatusMove ==
    \/ UNCHANGED <<pc, pi, cr>>
    \/ /\ pc = "idle" /\ pi' = cr /\ cr' = cr
       /\ pc' = IF ~ cr.started THEN "inspect" ELSE IF cr.total = 0 THEN "idle" ELSE "ensureJob"
    \/ /\ pc # "idle" /\ pc' = "idle" /\ pi' = cr'
       /\ cr' = cr \/ (pc = "save" /\ cr' = pi)
    \/ pc = "saveStart" /\ pc' = "ensureJob" /\ cr' = pi /\ pi' = pi
    \/ /\ pc \in Filling /\ cr' = cr
       /\ \/ pc' \in Filling \cup {"save"} /\ pi'.started = pi.started /\ pi'.ended = pi.ended
          \/ pc' = "saveStart" /\ pi'.started /\ pi'.total # 0 /\ pi'.ended = pi.ended
          \/ pc' = "save" /\ pi'.started /\ pi'.total = 0
    \/ /\ pc \notin InitSteps \cup {"idle", "save"} /\ pc' \notin InitSteps \cup {"idle"}
       /\ cr' = cr /\ SameOutcome
       /\ pc' = "checkCompletion" => pc = "checkFailure" /\ job.state # "failed" /\ job' = job
    \/ /\ pc = "checkCompletion" /\ pc' = "save" /\ cr' = cr /\ job' = job
       /\ \/ ~ (Drained /\ job.state = "complete") /\ pi' = [pi EXCEPT !.progressing = TRUE]
          \/ /\ job.state = "complete"
             /\ pi' = [pi EXCEPT !.succeeded = TRUE, !.progressing = FALSE, !.ended = TRUE]
    \/ /\ pc \in FlushSteps /\ pc' = "save" /\ cr' = cr /\ job' = job
       /\ pi' = [pi EXCEPT !.degraded = TRUE, !.progressing = FALSE, !.succeeded = FALSE,
                           !.ended = TRUE]

\* Every step does no more to the status when no call of a pass fails and the
\* reconciler does not restart.
LEMMA StatusMoves ==
    ASSUME Faults \subseteq {"claim"}, TypeInv, [Next]_vars
    PROVE  StatusMove
<1> USE DEF GoTo
<1>1. /\ cr \in Statuses /\ pi \in Statuses /\ Writes = {"ok"} /\ Reads = {"ok"}
      /\ ~ Restart
    BY DEF TypeInv, ReconcilerOK, Writes, Reads, CanFault, CallFault, Restart
<1>2. UNCHANGED <<cr, pi>> => SameOutcome
    BY DEF SameOutcome
<1>3. CASE ClusterStep
    BY <1>3 DEF ClusterStep, PodStep, JobStep, StartPod, TerminatePod, Claim,
       ClaimReplyLost, Start, Succeed, Fail, Crash, Stick, Recover, Evict, Becomes,
       JobCompletes, JobGivesUp, JobFails, JobExpires, JobBecomes, Reconciler, StatusMove
<1>4. CASE Begin
    BY <1>4 DEF Begin, NoEffect, StatusMove
<1>5. CASE Save
    BY <1>1, <1>5 DEF Save, Finish, Takes, StatusMove
<1>6. CASE SaveStart
    BY <1>1, <1>6 DEF SaveStart, Takes, StatusMove
<1>7. CASE Inspect \/ Recount
  <2>1. pc \in {"inspect", "recount"} /\ cr' = cr
      BY <1>7 DEF Inspect, Recount, NoEffect
  <2>2. \/ GiveUp
        \/ pc' = "list" /\ pi' = pi
        \/ Length(q) # 0 /\ Initialized(Length(q))
      BY <1>7 DEF Inspect, Recount
  <2> QED
      BY <1>1, <2>1, <2>2 DEF GiveUp, Initialized, Statuses, StatusMove, Filling, InitSteps
<1>8. CASE List
    BY <1>1, <1>8 DEF List, GiveUp, Statuses, StatusMove, Filling, InitSteps
<1>9. CASE Enqueue
    BY <1>1, <1>9 DEF Enqueue, StatusMove, Filling, InitSteps
<1>10. CASE FindJob \/ CreateJob
  <2>1. /\ pc \in {"ensureJob", "createJob"} /\ cr' = cr
        /\ pc' \in {"listPods", "createJob", "save"}
      BY <1>10 DEF FindJob, CreateJob, JobError, NoEffect
  <2>2. \/ pi' = pi
        \/ pi' = [pi EXCEPT !.degraded = TRUE]
        \/ pi' = [pi EXCEPT !.jobName = TRUE]
      BY <1>10 DEF FindJob, CreateJob, JobError
  <2>3. SameOutcome
      BY <1>1, <2>2 DEF SameOutcome, Statuses
  <2> QED
      BY <2>1, <2>3 DEF StatusMove, InitSteps
<1>11. CASE ReadLag \/ ReadPending
    BY <1>2, <1>11 DEF ReadLag, ReadPending, NoEffect, StatusMove, InitSteps
<1>12. CASE CheckFailure
    BY <1>1, <1>2, <1>12 DEF CheckFailure, NoEffect, cluster, StatusMove, InitSteps
<1>13. CASE StillRunning \/ CheckCompletion
  <2>1. pc = "checkCompletion" /\ cr' = cr /\ job' = job
      BY <1>13 DEF StillRunning, CheckCompletion, NoEffect, cluster
  <2>2. \/ Finish
        \/ /\ pc' = "save" /\ ~ (Drained /\ job.state = "complete")
           /\ pi' = [pi EXCEPT !.progressing = TRUE]
        \/ /\ pc' = "save" /\ job.state = "complete"
           /\ pi' = [pi EXCEPT !.succeeded = TRUE, !.progressing = FALSE, !.ended = TRUE]
      BY <1>13 DEF StillRunning, CheckCompletion
  <2> QED
      BY <2>1, <2>2 DEF Finish, StatusMove
<1>14. CASE MessageStep
  <2>1. UNCHANGED <<cr, pi>>
      BY <1>14 DEF MessageStep, ListPods, FindMessage, AckHandled, Retire, AckRetired,
         DeletePod, FindStale, ListOwners, ClaimStale, AckFinished, RetireStale, AckStale,
         DeleteStale, Frame
  <2>2. /\ pc \in {"listPods", "nextPod", "ack", "retire", "ackRetired", "deletePod", "reclaim",
                   "reclaimPods", "xclaim", "reclaimNext", "reclaimAck", "reclaimDel"}
        /\ pc' \in {"nextPod", "ack", "retire", "ackRetired", "deletePod", "reclaim", "lag",
                    "reclaimPods", "xclaim", "reclaimNext", "reclaimAck", "reclaimDel"}
      BY <1>14 DEF MessageStep, ListPods, FindMessage, AckHandled, Retire, AckRetired,
         DeletePod, FindStale, ListOwners, ClaimStale, AckFinished, RetireStale, AckStale,
         DeleteStale, NextPod, NextReclaimed
  <2> QED
      BY <1>2, <2>1, <2>2 DEF StatusMove, InitSteps
<1>15. CASE FlushStep
  <2>1. pc \in FlushSteps /\ cr' = cr /\ job' = job
      BY <1>15 DEF FlushStep, FlushBegins, FlushClaim, FlushAck, FlushDel, FlushRest,
         FlushDelRest, FlushDone, FlushReplace, FlushAdd, Outside, cluster, FlushSteps
  <2>2. FlushEnds \/ (pi' = pi /\ pc' \in FlushSteps)
      BY <1>15 DEF FlushStep, FlushBegins, FlushClaim, FlushAck, FlushDel, FlushRest,
         FlushDelRest, FlushDone, FlushReplace, FlushAdd, FlushSteps
  <2> QED
      BY <1>2, <2>1, <2>2 DEF FlushEnds, StatusMove, FlushSteps, InitSteps
<1>16. CASE UNCHANGED vars
    BY <1>16 DEF vars, StatusMove
<1> QED
    BY <1>1, <1>3, <1>4, <1>5, <1>6, <1>7, <1>8, <1>9, <1>10, <1>11, <1>12, <1>13, <1>14, <1>15,
       <1>16
    DEF Next, ReconcileStep

----------------------------------------------------------------------------
\* How a run has ended: without a file, by the failure of its Job, or by its
\* completion.
Outcome(state, s) ==
    \/ s.total = 0
    \/ state = "failed" /\ ~ s.progressing /\ ~ s.succeeded
    \/ state = "complete" /\ ~ s.progressing /\ s.succeeded

\* The status of a run that has ended, stored and in the reconciler's memory,
\* agrees with its Job; a run without files is left alone.
EndInv ==
    /\ cr.ended => cr.started /\ Outcome(job.state, cr) /\ (pc # "idle" => pi.ended)
    /\ pi.ended => pi.started /\ (pc # "idle" => Outcome(job.state, pi))
    /\ cr.started /\ cr.total = 0 => pc = "idle"
    /\ pc \notin InitSteps \cup {"idle"} /\ pi.total = 0 => pc = "save" /\ ~ cr.started
    /\ pc = "saveStart" => pi.total # 0 /\ ~ pi.ended
    /\ pc = "checkCompletion" /\ pi.ended => job.state # "failed"

\* The steps of a pass after the messages of the listed pods.
Late == {"reclaim", "lag", "pending", "checkFailure", "checkCompletion"}

\* A pass over a completed run finds nothing but the messages of successful
\* pods, acknowledges them, and then counts none.
DrainInv ==
    pi.ended /\ pc # "idle" /\ job.state = "complete" =>
        /\ pc \in Late \cup {"ensureJob", "listPods", "nextPod", "ack", "save"}
        /\ pc \in {"nextPod", "ack"} => \A i \in Pending(q) :
               \/ pc = "ack" /\ i = r.msg
               \/ \E s \in r.todo : s.pod = q.log[i].owner
        /\ pc \in Late => Pending(q) = {}
        /\ pc \in {"pending", "checkFailure", "checkCompletion"} => r.queued = 0
        /\ pc \in {"checkFailure", "checkCompletion"} => r.running = 0

\* The Job of a run that has ended does not change any more.
LEMMA OutcomeStays ==
    ASSUME JobStays, TypeInv, OneJobInv, [Next]_vars, NEW s, Outcome(job.state, s)
    PROVE  Outcome(job'.state, s) /\ (s.total # 0 => job' = job)
    BY OneJobStep DEF Outcome

\* A pass over a run that has ended leaves its outcome as it is.
LEMMA EndStep ==
    ASSUME JobStays, TypeInv, PhaseInv, TotalInv, OneJobInv, EndInv, DrainInv, StatusMove,
           [Next]_vars
    PROVE  EndInv'
<1>1. /\ cr \in Statuses /\ pi \in Statuses
      /\ cr.ended => cr.started /\ Outcome(job.state, cr) /\ (pc # "idle" => pi.ended)
      /\ pi.ended => pi.started /\ (pc # "idle" => Outcome(job.state, pi))
      /\ cr.started /\ cr.total = 0 => pc = "idle"
      /\ pc \notin InitSteps \cup {"idle"} /\ pi.total = 0 => pc = "save" /\ ~ cr.started
      /\ pc = "saveStart" => pi.total # 0 /\ ~ pi.ended
      /\ pc = "checkCompletion" /\ pi.ended => job.state # "failed"
    BY DEF EndInv, TypeInv, ReconcilerOK
<1>2. /\ pc \in InitSteps => ~ cr.started
      /\ pc \notin InitSteps \cup {"idle", "save"} => cr.started /\ pi.started
      /\ pc \in Filling => ~ pi.ended
    BY <1>1 DEF PhaseInv, TotalInv, Filling, InitSteps
<1>3. \A s : Outcome(job.state, s) =>
          Outcome(job'.state, s) /\ (s.total # 0 => job'.state = job.state)
    BY OutcomeStays
<1>4. CASE UNCHANGED <<pc, pi, cr>>
    BY <1>1, <1>3, <1>4 DEF EndInv, InitSteps
<1>5. CASE /\ pc = "idle" /\ pi' = cr /\ cr' = cr
           /\ pc' = IF ~ cr.started THEN "inspect"
                    ELSE IF cr.total = 0 THEN "idle" ELSE "ensureJob"
    BY <1>1, <1>3, <1>5 DEF EndInv, InitSteps
<1>6. CASE /\ pc # "idle" /\ pc' = "idle" /\ pi' = cr'
           /\ cr' = cr \/ (pc = "save" /\ cr' = pi)
    BY <1>1, <1>3, <1>6 DEF EndInv, InitSteps
<1>7. CASE pc = "saveStart" /\ pc' = "ensureJob" /\ cr' = pi /\ pi' = pi
    BY <1>1, <1>7 DEF EndInv, InitSteps
<1>8. CASE /\ pc \in Filling /\ cr' = cr
           /\ \/ pc' \in Filling \cup {"save"} /\ pi'.started = pi.started /\ pi'.ended = pi.ended
              \/ pc' = "saveStart" /\ pi'.started /\ pi'.total # 0 /\ pi'.ended = pi.ended
              \/ pc' = "save" /\ pi'.started /\ pi'.total = 0
    BY <1>1, <1>2, <1>8 DEF EndInv, Filling, InitSteps, Outcome
<1>9. CASE /\ pc \notin InitSteps \cup {"idle", "save"} /\ pc' \notin InitSteps \cup {"idle"}
           /\ cr' = cr /\ SameOutcome
           /\ pc' = "checkCompletion" => pc = "checkFailure" /\ job.state # "failed" /\ job' = job
  <2>1. Outcome(job.state, pi) => Outcome(job'.state, pi')
      BY <1>3, <1>9 DEF Outcome, SameOutcome
  <2> QED
      BY <1>1, <1>3, <1>9, <2>1 DEF EndInv, SameOutcome, InitSteps
<1>10. CASE /\ pc = "checkCompletion" /\ pc' = "save" /\ cr' = cr /\ job' = job
            /\ ~ (Drained /\ job.state = "complete") /\ pi' = [pi EXCEPT !.progressing = TRUE]
  <2>1. ~ pi.ended
      BY <1>1, <1>10 DEF Outcome, DrainInv, Drained, InitSteps, Late
  <2>2. ~ pi'.ended /\ pi'.total = pi.total
      BY <1>1, <1>10, <2>1 DEF Statuses
  <2> QED
      BY <1>1, <1>10, <2>1, <2>2 DEF EndInv, InitSteps
<1>11. CASE /\ pc = "checkCompletion" /\ pc' = "save" /\ cr' = cr /\ job' = job
            /\ job.state = "complete"
            /\ pi' = [pi EXCEPT !.succeeded = TRUE, !.progressing = FALSE, !.ended = TRUE]
  <2>1. pi'.started = pi.started /\ pi'.total = pi.total /\ pi'.ended
        /\ ~ pi'.progressing /\ pi'.succeeded
      BY <1>1, <1>11 DEF Statuses
  <2> QED
      BY <1>1, <1>2, <1>11, <2>1 DEF EndInv, InitSteps, Outcome
<1>12. CASE /\ pc \in FlushSteps /\ pc' = "save" /\ cr' = cr /\ job' = job
            /\ pi' = [pi EXCEPT !.degraded = TRUE, !.progressing = FALSE, !.succeeded = FALSE,
                                !.ended = TRUE]
  <2>1. pi'.started = pi.started /\ pi'.total = pi.total /\ pi'.ended
        /\ ~ pi'.progressing /\ ~ pi'.succeeded
      BY <1>1, <1>12 DEF Statuses
  <2>2. job.state = "failed" /\ pc \notin InitSteps \cup {"idle", "save"}
      BY <1>12 DEF OneJobInv, FlushSteps, InitSteps
  <2> QED
      BY <1>1, <1>2, <1>12, <2>1, <2>2 DEF EndInv, InitSteps, Outcome
<1> QED
    BY <1>4, <1>5, <1>6, <1>7, <1>8, <1>9, <1>10, <1>11, <1>12 DEF StatusMove

\* A pass enters the late steps of a completed run only from the earlier ones.
LEMMA DrainContinues ==
    ASSUME JobStays, TypeInv, PhaseInv, TotalInv, OneJobInv, EndInv, StatusMove, [Next]_vars,
           pi'.ended, pc' # "idle", job'.state = "complete"
    PROVE  \/ pc' \in {"save", "ensureJob"}
           \/ pi.ended /\ pc # "idle" /\ job.state = "complete" /\ job' = job
<1>1. /\ cr.ended => cr.started
      /\ pi.ended => pi.started /\ (pc # "idle" => Outcome(job.state, pi))
      /\ pc \notin InitSteps \cup {"idle"} /\ pi.total = 0 => pc = "save" /\ ~ cr.started
      /\ pc = "saveStart" => pi.total # 0 /\ ~ pi.ended
      /\ pc \in Filling => ~ pi.ended
    BY DEF EndInv, TotalInv, Filling, InitSteps
<1>2. pi.ended /\ pc \notin {"idle", "save"} => job' = job
    BY <1>1, OutcomeStays DEF Filling
<1>3. CASE UNCHANGED <<pc, pi, cr>>
    BY <1>2, <1>3
<1>4. CASE pc = "idle"
    BY <1>1, <1>4 DEF StatusMove, Filling, InitSteps, FlushSteps
<1>5. CASE pc \in InitSteps
    BY <1>1, <1>5 DEF StatusMove, Filling, InitSteps, FlushSteps
<1>6. CASE pc \notin InitSteps \cup {"idle"} /\ ~ UNCHANGED <<pc, pi, cr>>
  <2>1. \/ pc' = "save"
        \/ pc # "save" /\ SameOutcome
      BY <1>6 DEF StatusMove, Filling, InitSteps
  <2> QED
      BY <1>2, <1>6, <2>1 DEF SameOutcome
<1> QED
    BY <1>3, <1>4, <1>5, <1>6

\* What a pass over a completed run may do to the stream: it acknowledges the
\* messages of the listed pods.
LEMMA DrainStep ==
    ASSUME JobStays, Faults \subseteq {"claim"}, TypeInv, PhaseInv, TotalInv, AdmittedInv,
           OwnerInv, OneLiveInv, OnceInv, SeenInv, CustodyInv, CurrentInv,
           OneJobInv, TidyInv, AllDoneInv, EndInv, DrainInv, StatusMove, [Next]_vars
    PROVE  DrainInv'
<1> USE DEF GoTo
<1>1. SUFFICES ASSUME pi'.ended, pc' \notin {"idle", "save", "ensureJob"}, job'.state = "complete"
               PROVE  DrainInv'
    BY DEF DrainInv, Late
<1>2. pi.ended /\ pc # "idle" /\ job.state = "complete" /\ job' = job
    BY <1>1, DrainContinues
<1>3. /\ pc \in Late \cup {"ensureJob", "listPods", "nextPod", "ack", "save"}
      /\ pc \in {"nextPod", "ack"} => \A i \in Pending(q) :
             \/ pc = "ack" /\ i = r.msg
             \/ \E s \in r.todo : s.pod = q.log[i].owner
      /\ pc \in Late => Pending(q) = {}
      /\ pc \in {"pending", "checkFailure", "checkCompletion"} => r.queued = 0
      /\ pc \in {"checkFailure", "checkCompletion"} => r.running = 0
    BY <1>2 DEF DrainInv
<1>4. /\ Undelivered(q) = {} /\ LagReplies(q) \subseteq {0, LagUnknown}
      /\ \A i \in Pending(q) :
           /\ q.log[i].owner \in Pod /\ pods[q.log[i].owner].phase = "succeeded"
           /\ pods[q.log[i].owner].work = i
    BY <1>2, <1>3, NothingWaits DEF Late, Replacing
<1>5. /\ r \in Registers /\ Writes = {"ok"} /\ Reads = {"ok"} /\ ~ Restart
      /\ GoodStream(q, Consumers)
    BY Started DEF TypeInv, ReconcilerOK, Writes, Reads, CanFault, CallFault, Restart
<1>6. CASE UNCHANGED <<pc, r, q>>
    BY <1>2, <1>3, <1>6 DEF DrainInv, Pending
<1>7. CASE ClusterStep
  <2>1. UNCHANGED <<pc, r>> /\ (q' = q \/ Undelivered(q) # {})
      BY <1>7 DEF ClusterStep, PodStep, JobStep, StartPod, TerminatePod, Claim,
         ClaimReplyLost, Start, Succeed, Fail, Crash, Stick, Recover, Evict, Becomes,
         JobCompletes, JobGivesUp, JobFails, JobExpires, JobBecomes, Reconciler
  <2> QED
      BY <1>4, <1>6, <2>1
<1>8. CASE FindJob \/ CreateJob
    BY <1>1, <1>2, <1>3, <1>5, <1>8
    DEF FindJob, CreateJob, JobError, DrainInv, Late
<1>9. CASE ListPods
  <2> DEFINE todo == {[pod |-> p, phase |-> pods[p].phase] :
                      p \in {p \in Pod : pods[p].phase \in HandledPhases}}
  <2>1. q' = q /\ NextPod(todo)
      BY <1>5, <1>9 DEF ListPods, Takes
  <2>2. \A i \in Pending(q) : \E s \in todo : s.pod = q.log[i].owner
    <3>1. SUFFICES ASSUME NEW i \in Pending(q) PROVE \E s \in todo : s.pod = q.log[i].owner
        OBVIOUS
    <3> DEFINE o == q.log[i].owner
    <3>2. o \in Pod /\ pods[o].phase \in HandledPhases
        BY <1>4 DEF HandledPhases
    <3>3. [pod |-> o, phase |-> pods[o].phase] \in todo
        BY <3>2
    <3> HIDE DEF o, todo
    <3>4. [pod |-> o, phase |-> pods[o].phase].pod = o
        OBVIOUS
    <3> QED
        BY <3>3, <3>4 DEF o
  <2>3. pc' \in {"nextPod", "reclaim"} /\ (pc' = "reclaim" => todo = {}) /\ r'.todo = todo
      BY <1>5, <2>1 DEF NextPod, Registers
  <2> HIDE DEF todo
  <2>4. Pending(q') = Pending(q)
      BY <2>1
  <2> QED
      BY <2>1, <2>2, <2>3, <2>4 DEF DrainInv, Late
<1>10. CASE FindMessage
  <2>1. pc = "nextPod" /\ q' = q
      BY <1>10 DEF FindMessage
  <2>2. PICK s \in r.todo :
          LET ids == PendingFor(q, s.pod)
              m == Least(ids)
          IN  IF ids = {} THEN NextPod(r.todo \ {s})
              ELSE /\ r' = [r EXCEPT !.todo = @ \ {s}, !.at = {s}, !.msg = m]
                   /\ pc' = IF q.log[m].deleted \/ s.phase = "succeeded" THEN "ack" ELSE "retire"
      BY <1>5, <1>10 DEF FindMessage
  <2>3. \A i \in Pending(q) : \E x \in r.todo : x.pod = q.log[i].owner
      BY <1>3, <2>1
  <2>4. CASE PendingFor(q, s.pod) = {}
    <3>1. \A i \in Pending(q) : \E x \in r.todo \ {s} : x.pod = q.log[i].owner
        BY <2>3, <2>4 DEF Pending, PendingFor
    <3>2. /\ pc' \in {"nextPod", "reclaim"} /\ r'.todo = r.todo \ {s}
          /\ pc' = "reclaim" => r.todo \ {s} = {}
        BY <1>5, <2>2, <2>4 DEF NextPod, Registers
    <3> QED
        BY <2>1, <3>1, <3>2 DEF DrainInv, Late, Pending
  <2>5. CASE PendingFor(q, s.pod) # {}
    <3> DEFINE m == Least(PendingFor(q, s.pod))
    <3>1. m \in PendingFor(q, s.pod) /\ s \in Seen /\ s.pod \in Pod
        BY <1>5, <2>5, ReadsArePositions, Positions, LeastIsLeast DEF Registers, Seen
    <3>2. m \in Pending(q) /\ q.log[m].owner = s.pod
        BY <3>1, ConstantsAssumption DEF Pending, PendingFor
    <3>3. pods[s.pod].phase = "succeeded" /\ pods[s.pod].work = m
        BY <1>4, <3>2
    <3>4. s.phase = "succeeded"
        BY <3>3 DEF SeenInv, Doomed
    <3>5. pc' = "ack" /\ r'.todo = r.todo \ {s} /\ r'.msg = m
        BY <1>5, <2>2, <2>5, <3>4 DEF Registers
    <3>6. \A i \in Pending(q) : i = m \/ \E x \in r.todo \ {s} : x.pod = q.log[i].owner
        BY <1>4, <2>3, <3>3
    <3> HIDE DEF m
    <3> QED
        BY <2>1, <3>5, <3>6 DEF DrainInv, Late, Pending
  <2> QED
      BY <2>4, <2>5
<1>11. CASE AckHandled
  <2>1. /\ pc = "ack" /\ q' = XAck(q, r.msg) /\ NextPod(r.todo) /\ r.msg \in DOMAIN q.log
      BY <1>5, <1>11 DEF AckHandled, Acknowledge, Takes, TypeInv, PassMarks, HandlesMessage
  <2>2. /\ Len(q'.log) = Len(q.log) /\ q'.log[r.msg].owner = NoOne
        /\ \A i \in DOMAIN q.log : i # r.msg => q'.log[i] = q.log[i]
        /\ GoodStream(q', Consumers)
      BY <1>5, <2>1, XAckReleases
  <2>3. DOMAIN q'.log = DOMAIN q.log
      BY <1>5, <2>2, Positions
  <2>4. \A i \in Pending(q') : i \in Pending(q) /\ i # r.msg /\ q'.log[i].owner = q.log[i].owner
      BY <2>1, <2>2, <2>3 DEF Pending
  <2>5. \A i \in Pending(q') : \E s \in r.todo : s.pod = q'.log[i].owner
      BY <1>3, <2>1, <2>4
  <2>6. /\ pc' \in {"nextPod", "reclaim"} /\ r'.todo = r.todo
        /\ pc' = "reclaim" => r.todo = {}
      BY <1>5, <2>1 DEF NextPod, Registers
  <2> QED
      BY <2>5, <2>6 DEF DrainInv, Late
<1>12. CASE FindStale
  <2>1. pc = "reclaim" /\ q' = q /\ NextReclaimed({})
      BY <1>3, <1>5, <1>12 DEF FindStale, Late
  <2> QED
      BY <1>3, <2>1 DEF NextReclaimed, DrainInv, Late, Pending
<1>13. CASE ReadLag
  <2>1. PICK reply \in LagReplies(q) :
          r' = [r EXCEPT !.queued = IF reply = LagUnknown THEN 0 ELSE reply]
      BY <1>5, <1>13 DEF ReadLag
  <2>2. r'.queued = 0
      BY <1>4, <1>5, <2>1 DEF Registers
  <2>3. pc = "lag" /\ pc' = "pending" /\ q' = q
      BY <1>13 DEF ReadLag, NoEffect
  <2> QED
      BY <1>3, <2>2, <2>3 DEF DrainInv, Late, Pending
<1>14. CASE ReadPending
  <2>1. pc = "pending" /\ pc' = "checkFailure" /\ q' = q
        /\ r' = [r EXCEPT !.running = Cardinality(Pending(q))]
      BY <1>5, <1>14 DEF ReadPending, NoEffect
  <2>2. Cardinality(Pending(q)) = 0
      BY <1>3, <2>1, FS_EmptySet DEF Late
  <2>3. r'.running = 0 /\ r'.queued = 0
      BY <1>3, <1>5, <2>1, <2>2 DEF Registers
  <2> QED
      BY <1>3, <2>1, <2>3 DEF DrainInv, Late, Pending
<1>15. CASE CheckFailure
  <2>1. pc = "checkFailure" /\ pc' = "checkCompletion" /\ q' = q /\ r' = r
      BY <1>2, <1>15 DEF CheckFailure, NoEffect
  <2> QED
      BY <1>3, <2>1 DEF DrainInv, Late, Pending
<1>16. CASE StillRunning \/ CheckCompletion
    BY <1>1, <1>16 DEF StillRunning, CheckCompletion, Finish
<1>17. CASE Begin \/ Save \/ SaveStart
    BY <1>1, <1>2, <1>5, <1>17 DEF Begin, Save, SaveStart, Finish
<1>18. ~ (Inspect \/ List \/ Enqueue \/ Recount)
    BY <1>3 DEF Inspect, List, Enqueue, Recount, Late
<1>19. ~ (Retire \/ AckRetired \/ DeletePod \/ ListOwners \/ ClaimStale \/ AckFinished
          \/ RetireStale \/ AckStale \/ DeleteStale)
    BY <1>3 DEF Retire, AckRetired, DeletePod, ListOwners, ClaimStale, AckFinished, RetireStale,
       AckStale, DeleteStale, Late
<1>20. ~ FlushStep
    BY <1>3 DEF FlushStep, FlushBegins, FlushClaim, FlushAck, FlushDel, FlushRest, FlushDelRest,
       FlushDone, FlushReplace, FlushAdd, Late
<1>21. CASE UNCHANGED vars
    BY <1>6, <1>21 DEF vars
<1> QED
    BY <1>5, <1>7, <1>8, <1>9, <1>10, <1>11, <1>12, <1>13, <1>14, <1>15, <1>16, <1>17, <1>18,
       <1>19, <1>20, <1>21
    DEF Next, ReconcileStep, MessageStep

----------------------------------------------------------------------------
\* The inductive invariant of an undisturbed run whose Job does not expire.
FinalInv == OneJobInv /\ TidyInv /\ AllDoneInv /\ EndInv /\ DrainInv

\* It holds of a run that has not begun.
LEMMA FinalStarts ==
    ASSUME Init
    PROVE  FinalInv
<1>1. /\ q.log = << >> /\ DOMAIN q.log = {} /\ pc = "idle"
      /\ job = [state |-> "absent", run |-> 0, completions |-> 0]
      /\ cr = NewStatus /\ pi = NewStatus
    BY DEF Init, EmptyStream
<1>2. ~ cr.started /\ ~ cr.ended /\ ~ pi.ended
    BY <1>1 DEF NewStatus
<1>3. OneJobInv /\ AllDoneInv
    BY <1>1 DEF OneJobInv, AllDoneInv, FlushSteps
<1>4. TidyInv
    BY <1>1 DEF TidyInv
<1>5. EndInv /\ DrainInv
    BY <1>1, <1>2 DEF EndInv, DrainInv, InitSteps
<1> QED
    BY <1>3, <1>4, <1>5 DEF FinalInv

\* Every step keeps it.
LEMMA FinalStep ==
    ASSUME Undisturbed, JobStays, TypeInv, OutcomeInv, FinalInv, [Next]_vars
    PROVE  FinalInv'
<1>1. HandMove /\ FileMove /\ StatusMove
    BY OutcomeStep, FileMoves, StatusMoves DEF Undisturbed
<1>2. /\ OwnerInv /\ AdmittedInv /\ PhaseInv /\ OneLiveInv /\ InHandInv
      /\ OnceInv /\ JobInv /\ TotalInv /\ SeenInv /\ DeadInv /\ CustodyInv /\ CurrentInv
      /\ OneJobInv /\ TidyInv /\ AllDoneInv /\ EndInv /\ DrainInv
    BY DEF OutcomeInv, OneLiveInv, FinalInv
<1>3. Effects
    BY <1>1, <1>2, FileEffects
<1>4. OneJobInv' /\ TidyInv' /\ AllDoneInv'
    BY <1>1, <1>2, <1>3, OneJobStep, TidyStep, AllDoneStep
<1>5. EndInv' /\ DrainInv'
    BY <1>1, <1>2, EndStep, DrainStep DEF Undisturbed
<1> QED
    BY <1>4, <1>5 DEF FinalInv

\* A run that has ended stays as it is: later passes create no Job, and they
\* neither take the Succeeded condition back nor report progress again.  The
\* status that a pass saves says of the Job, which is the same as ever, what
\* the stored one says.
THEOREM EndIsFinal ==
    ASSUME Undisturbed, JobStays
    PROVE  Spec => EndedStaysEnded
<1> DEFINE Inv == TypeInv /\ OutcomeInv /\ FinalInv
           Stays == cr.ended => /\ job'.run = job.run
                                /\ cr'.progressing = cr.progressing
                                /\ cr'.succeeded = cr.succeeded
<1>1. Init => Inv
    BY InitTypes, OutcomeStarts, FinalStarts
<1>2. Inv /\ [Next]_vars => Inv'
    BY NextKeepsTypes, OutcomeStep, FinalStep
<1>3. ASSUME Inv, [Next]_vars PROVE Stays
  <2>1. SUFFICES ASSUME cr.ended PROVE /\ job'.run = job.run
                                       /\ cr'.progressing = cr.progressing
                                       /\ cr'.succeeded = cr.succeeded
      OBVIOUS
  <2>2. /\ StatusMove /\ OneJobInv /\ PhaseInv /\ JobInv
        /\ cr.started /\ Outcome(job.state, cr) /\ (pc # "idle" => pi.ended)
        /\ pi.ended /\ pc # "idle" => Outcome(job.state, pi)
        /\ cr.total = 0 => pc = "idle"
        /\ pc \notin InitSteps \cup {"idle"} /\ pi.total = 0 => ~ cr.started
      BY <1>3, <2>1, StatusMoves DEF Undisturbed, OutcomeInv, FinalInv, EndInv
  <2>3. job'.run = job.run
    <3>1. CASE cr.total = 0
      <4>1. ~ CreateJob
          BY <2>2, <3>1 DEF CreateJob
      <4>2. job \in Jobs
          BY <1>3 DEF TypeInv, ClusterOK
      <4>3. JobStep => job'.run = job.run
          BY <4>2 DEF JobStep, JobCompletes, JobGivesUp, JobFails, JobExpires,
             JobBecomes, Jobs
      <4> QED
          BY <1>3, <4>1, <4>3, JobMoves
    <3>2. CASE cr.total # 0
        BY <1>3, <2>2, <3>2, OutcomeStays
    <3> QED
        BY <3>1, <3>2
  <2>4. cr' = cr \/ (pc = "save" /\ cr' = pi)
      BY <2>2 DEF StatusMove, PhaseInv, InitSteps, Filling
  <2>5. CASE pc = "save" /\ cr' = pi
    <3>1. cr \in Statuses /\ pi \in Statuses
        BY <1>3 DEF TypeInv, ReconcilerOK
    <3>2. Outcome(job.state, cr) /\ Outcome(job.state, pi) /\ cr.total # 0 /\ pi.total # 0
        BY <2>2, <2>5 DEF InitSteps
    <3>3. pi.progressing = cr.progressing /\ pi.succeeded = cr.succeeded
        BY <3>1, <3>2 DEF Outcome, Statuses
    <3> QED
        BY <2>3, <2>5, <3>3
  <2> QED
      BY <2>3, <2>4, <2>5
<1> HIDE DEF Stays
<1>4. Inv /\ [Next]_vars => [Stays]_vars
    BY <1>3
<1> HIDE DEF Inv
<1>5. Spec => [][Stays]_vars
    BY <1>1, <1>2, <1>4, PTL DEF Spec
<1> QED
    BY <1>5 DEF EndedStaysEnded, Stays
=============================================================================
