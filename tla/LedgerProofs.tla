---------------------------- MODULE LedgerProofs ----------------------------
(***************************************************************************)
(* A batch run keeps the promise of FileLedger, for any number of files    *)
(* and pods and whatever calls of the reconciler fail: each of its steps   *)
(* is a step of the ledger or leaves the ledger alone.  So no file is lost *)
(* but by a flush, and what a flush keeps of the files is shown after.     *)
(* The one proviso is that no reply to a claimer is lost.                  *)
(***************************************************************************)
EXTENDS LedgerMoves

\* The steps of initializePipelineInstance.
InitSteps == {"inspect", "list", "enqueue", "recount", "saveStart"}

\* Only files that were admitted are in the stream, in the dead letter queue
\* or in the memory of a flush.
AdmittedInv ==
    /\ \A i \in DOMAIN q.log : q.log[i].file \in admitted
    /\ Buried \cup Remembered \cup r.known \subseteq admitted

\* Until the run has started every file that was admitted is waiting; a flush
\* is one from its first step on.
PhaseInv ==
    /\ cr.started \/ pc = "saveStart" => pi.started
    /\ ~ cr.started => pc \in InitSteps \cup {"idle", "save"} /\ admitted \subseteq Waiting
    /\ pc \in InitSteps => ~ cr.started
    /\ pc \in FlushSteps \ {"flush"} => flushed

\* The pod has processed the file of its message.
WorkDone(p) ==
    /\ ~ EmptyHanded(p)
    /\ pods[p].work \in DOMAIN q.log
    /\ q.log[pods[p].work].file \in processed

\* A pod owns no message but the one it works on, and who is seen to have
\* succeeded has processed it.
WorkInv ==
    /\ \A p \in Pod : EmptyHanded(p) => pods[p].work = 0
    /\ \A p \in Pod, i \in DOMAIN q.log : q.log[i].owner = p => pods[p].work = i
    /\ \A p \in Pod : pods[p].phase = "succeeded" => WorkDone(p)
    /\ \A s \in r.todo \cup r.at : s.phase = "succeeded" => WorkDone(s.pod)
    /\ \A i \in r.finished : i \in DOMAIN q.log /\ q.log[i].file \in processed

\* Nothing is lost when the message goes: what replaces it has been retried.
Settled(i) ==
    \/ i \notin Live
    \/ q.log[i].file \in processed \cup Buried
    \/ \E j \in Live : j # i /\ q.log[j].file = q.log[i].file /\ q.log[j].attempts > 0

\* Messages are retired while they are live, and acknowledged or deleted once
\* they are settled.
HandleInv ==
    /\ pc = "retire" => r.msg \in Live
    /\ pc = "reclaimNext" => r.batch \subseteq Live
    /\ pc \in {"reclaimAck", "reclaimDel"} => r.batch \ {r.msg} \subseteq Live
    /\ pc \in {"ack", "ackRetired", "reclaimAck", "reclaimDel"} => Settled(r.msg)

\* The inductive invariant.
LedgerInv == AdmittedInv /\ PhaseInv /\ WorkInv /\ HandleInv

----------------------------------------------------------------------------
\* Whatever is written is about a file that was admitted.
LEMMA AdmittedStep ==
    ASSUME TypeInv, AdmittedInv, FileMove, Effects, MemoryMove
    PROVE  AdmittedInv'
<1>1. /\ \A i \in DOMAIN q.log : q.log[i].file \in admitted
      /\ Buried \subseteq admitted /\ Remembered \subseteq admitted /\ r.known \subseteq admitted
    BY DEF AdmittedInv
<1>2. admitted \subseteq admitted'
    BY DEF Effects
<1>3. \A i \in DOMAIN q'.log : q'.log[i].file \in admitted'
    BY <1>1, <1>2 DEF Effects
<1>4. Buried' \subseteq admitted
  <2>1. CASE dlq' = dlq
      BY <1>1, <2>1 DEF Buried
  <2>2. ASSUME NEW m \in DOMAIN q.log, NEW n \in Nat,
               dlq' = [dlq EXCEPT ![q.log[m].file] = Append(@, n)]
        PROVE  Buried' \subseteq admitted
      BY <1>1, <2>2 DEF Buried, TypeInv, LettersOK
  <2>3. CASE Buried' \subseteq Buried \cup Remembered
      BY <1>1, <2>3
  <2> QED
      BY <2>1, <2>2, <2>3 DEF FileMove
<1>5. r'.known \subseteq admitted
    BY <1>1 DEF MemoryMove
<1>6. \A f \in File : r'.held[f] > 0 => f \in admitted
    BY <1>1 DEF MemoryMove, Remembered
<1>7. pc' = "flushAdd" => r'.files \subseteq admitted
    BY <1>1 DEF MemoryMove, Remembered
<1> QED
    BY <1>2, <1>3, <1>4, <1>5, <1>6, <1>7 DEF AdmittedInv, Remembered

----------------------------------------------------------------------------
\* What the commands of a step do to the live messages.
LEMMA LiveCommands ==
    ASSUME TypeInv
    PROVE  /\ \A p \in Pod : Undelivered(q) # {} /\ q' = XReadGroup(q, p) => Live' = Live
           /\ \A ids : q' \in {XClaim(q, ids, Reclaimer), XClaim(q, ids, Flusher)} => Live' = Live
           /\ \A m \in DOMAIN q.log : q' = XAck(q, m) => Live \ {m} \subseteq Live' /\ Live' \subseteq Live
           /\ \A ids : q' = XDel(q, ids) => Live' = Live \ ids
<1>1. /\ GoodStream(q, Consumers) /\ Live = LiveOf(q) /\ Live' = LiveOf(q')
      /\ Reclaimer \in Consumers \ {NoOne} /\ Flusher \in Consumers \ {NoOne}
      /\ Pod \subseteq Consumers \ {NoOne}
    BY Started DEF Live, LiveOf
<1>2. ASSUME NEW p \in Pod, Undelivered(q) # {} PROVE LiveOf(XReadGroup(q, p)) = Live
  <2>1. p \in Consumers \ {NoOne}
      BY <1>1
  <2> QED
      BY <1>1, <1>2, <2>1, XReadGroupLive
<1>3. ASSUME NEW ids
      PROVE  LiveOf(XClaim(q, ids, Reclaimer)) = Live /\ LiveOf(XClaim(q, ids, Flusher)) = Live
    BY <1>1, XClaimLive
<1>4. ASSUME NEW m \in DOMAIN q.log
      PROVE  Live \ {m} \subseteq LiveOf(XAck(q, m)) /\ LiveOf(XAck(q, m)) \subseteq Live
    BY <1>1, XAckLive
<1>5. ASSUME NEW ids PROVE LiveOf(XDel(q, ids)) = Live \ ids
    BY <1>1, XDelLive
<1> QED
    BY <1>1, <1>2, <1>3, <1>4, <1>5

\* The files that wait follow the messages that live.
LEMMA WaitingFollows ==
    ASSUME TypeInv, Effects
    PROVE  /\ Live' = Live => Waiting' = Waiting
           /\ Live' \subseteq Live => Waiting' \subseteq Waiting
           /\ Live \subseteq Live' => Waiting \subseteq Waiting'
<1>1. Live \subseteq DOMAIN q.log /\ \A i \in DOMAIN q.log : q'.log[i].file = q.log[i].file
    BY Started DEF Effects
<1> QED
    BY <1>1 DEF Waiting

\* A message that is settled takes no file with it that is not accounted for.
LEMMA SettledGoes ==
    ASSUME TypeInv, Effects, NEW m \in DOMAIN q.log, Settled(m),
           Live \ {m} \subseteq Live', Live' \subseteq Live
    PROVE  \/ Waiting' = Waiting
           \/ /\ q.log[m].file \in processed \cup Buried
              /\ Waiting' = Waiting \ {q.log[m].file}
<1>1. Live \subseteq DOMAIN q.log /\ \A i \in DOMAIN q.log : q'.log[i].file = q.log[i].file
    BY Started DEF Effects
<1>2. CASE m \notin Live \/ \E j \in Live : j # m /\ q.log[j].file = q.log[m].file
    BY <1>1, <1>2 DEF Waiting
<1>3. CASE q.log[m].file \in processed \cup Buried
    BY <1>1, <1>3 DEF Waiting
<1> QED
    BY <1>2, <1>3 DEF Settled

\* A step of the ledger for one file is a step of the ledger.
LEMMA OneFile ==
    ASSUME NEW f \in File,
           Ledger!Admit(f) \/ Ledger!Process(f) \/ Ledger!Bury(f) \/ Ledger!Release(f)
    PROVE  [Ledger!LedgerNext]_(Ledger!ledger)
<1>1. \E g \in File : Ledger!Admit(g) \/ Ledger!Process(g) \/ Ledger!Bury(g) \/ Ledger!Release(g)
    OBVIOUS
<1> QED
    BY <1>1 DEF Ledger!LedgerNext

\* The acknowledgement of a settled message is a Release, or no step, of the
\* ledger.
LEMMA ReleaseStep ==
    ASSUME TypeInv, Effects, NEW m \in DOMAIN q.log, Settled(m),
           Live \ {m} \subseteq Live', Live' \subseteq Live,
           UNCHANGED <<dlq, processed, admitted, flushed>>
    PROVE  [Ledger!LedgerNext]_(Ledger!ledger)
<1>1. Buried' = Buried
    BY DEF Buried
<1>2. CASE Waiting' = Waiting
    BY <1>1, <1>2 DEF Ledger!ledger, Waiting, Buried
<1>3. CASE /\ q.log[m].file \in processed \cup Buried
           /\ Waiting' = Waiting \ {q.log[m].file}
  <2>1. PICK f \in File : f = q.log[m].file
      BY Started
  <2>2. Ledger!Release(f)
      BY <1>1, <1>3, <2>1 DEF Ledger!Release, Waiting, Buried
  <2> QED
      BY <2>2, OneFile
<1> QED
    BY <1>2, <1>3, SettledGoes

\* Given the invariant, every move is a step of the ledger or leaves it alone.
LEMMA StepsKeepLedger ==
    ASSUME TypeInv, LedgerInv, AdmittedInv', FileMove, Effects
    PROVE  [Ledger!LedgerNext]_(Ledger!ledger)
<1>1. /\ Live \subseteq DOMAIN q.log /\ \A i \in DOMAIN q.log : q.log[i].file \in File
      /\ \A i \in DOMAIN q.log : q.log[i].file \in admitted
      /\ AdmittedInv /\ PhaseInv /\ WorkInv /\ HandleInv
    BY Started DEF LedgerInv, AdmittedInv
<1>2. ASSUME Waiting' = Waiting, UNCHANGED <<dlq, processed, admitted, flushed>>
      PROVE  [Ledger!LedgerNext]_(Ledger!ledger)
    BY <1>2 DEF Ledger!ledger, Waiting
<1>3. CASE UNCHANGED <<q, dlq, processed, admitted, flushed>>
  <2>1. Live' = Live
      BY <1>3 DEF Live, Undelivered, Pending, Present
  <2> QED
      BY <1>2, <1>3, <2>1, WaitingFollows
<1>4. ASSUME \/ \E p \in Pod : Undelivered(q) # {} /\ q' = XReadGroup(q, p)
             \/ q' = XClaim(q, r.batch, Reclaimer),
             UNCHANGED <<dlq, processed, admitted, flushed>>
      PROVE  [Ledger!LedgerNext]_(Ledger!ledger)
    BY <1>2, <1>4, LiveCommands, WaitingFollows
<1>5. ASSUME NEW m \in DOMAIN q.log, Closes(m), q' = XAck(q, m),
             UNCHANGED <<dlq, processed, admitted, flushed>>
      PROVE  [Ledger!LedgerNext]_(Ledger!ledger)
  <2>1. Settled(m)
      BY <1>1, <1>5 DEF Closes, Settled, HandleInv, WorkInv
  <2> QED
      BY <1>5, <2>1, LiveCommands, ReleaseStep
<1>6. ASSUME pc = "reclaimDel", q' = XDel(q, {r.msg}),
             UNCHANGED <<dlq, processed, admitted, flushed>>
      PROVE  [Ledger!LedgerNext]_(Ledger!ledger)
  <2>1. Settled(r.msg) /\ r.msg \in DOMAIN q.log /\ Live' = Live \ {r.msg}
      BY <1>1, <1>6, LiveCommands DEF HandleInv, TypeInv, PassMarks, HandlesMessage
  <2> QED
      BY <1>6, <2>1, ReleaseStep
<1>7. ASSUME NEW m \in DOMAIN q.log, NEW n \in Nat, Retires(m),
             q' = XAdd(q, q.log[m].file, n),
             UNCHANGED <<dlq, processed, admitted, flushed>>
      PROVE  [Ledger!LedgerNext]_(Ledger!ledger)
  <2>1. m \in Live
      BY <1>1, <1>7 DEF Retires, HandleInv
  <2>2. q.log[m].file \in Waiting
      BY <2>1 DEF Waiting
  <2>3. Waiting' = Waiting \cup {q.log[m].file}
      BY <1>1, <1>7, AddedFile
  <2> QED
      BY <1>2, <1>7, <2>2, <2>3
<1>8. ASSUME NEW m \in DOMAIN q.log, NEW n \in Nat, Retires(m),
             dlq' = [dlq EXCEPT ![q.log[m].file] = Append(@, n)],
             UNCHANGED <<q, processed, admitted, flushed>>
      PROVE  [Ledger!LedgerNext]_(Ledger!ledger)
  <2>1. PICK f \in File : f = q.log[m].file
      BY <1>1
  <2>2. f \in Waiting
      BY <1>1, <1>8, <2>1 DEF Retires, HandleInv, Waiting
  <2>3. Buried' = Buried \cup {f}
    <3>1. dlq' = [dlq EXCEPT ![f] = Append(@, n)] /\ dlq \in [File -> Seq(Nat)]
        BY <1>8, <2>1 DEF TypeInv, LettersOK
    <3>2. dlq'[f] # << >> /\ \A g \in File \ {f} : dlq'[g] = dlq[g]
        BY <3>1
    <3> QED
        BY <3>2 DEF Buried
  <2>4. Live' = Live
      BY <1>8 DEF Live, Undelivered, Pending, Present
  <2>5. Waiting' = Waiting
      BY <2>4, WaitingFollows
  <2>6. Ledger!Bury(f)
      BY <1>8, <2>2, <2>3, <2>5 DEF Ledger!Bury, Waiting, Buried
  <2> QED
      BY <2>6, OneFile
<1>9. ASSUME NEW f \in File, q' = XAdd(q, f, 0), admitted' = admitted \cup {f},
             pc = "enqueue", UNCHANGED <<dlq, processed, flushed>>
      PROVE  [Ledger!LedgerNext]_(Ledger!ledger)
  <2>1. Waiting' = Waiting \cup {f} /\ Buried' = Buried
      BY <1>9, AddedFile DEF Buried
  <2>2. CASE f \in admitted
    <3>1. f \in Waiting
        BY <1>1, <1>9, <2>2 DEF PhaseInv, InitSteps
    <3> QED
        BY <1>2, <1>9, <2>1, <2>2, <3>1
  <2>3. CASE f \notin admitted
    <3>1. Ledger!Admit(f)
        BY <1>9, <2>1, <2>3 DEF Ledger!Admit, Waiting, Buried
    <3> QED
        BY <3>1, OneFile
  <2> QED
      BY <2>2, <2>3
<1>10. ASSUME NEW p \in Pod, pods[p].phase = "running",
              processed' = processed \cup {q.log[pods[p].work].file},
              UNCHANGED <<q, dlq, admitted, flushed>>
       PROVE  [Ledger!LedgerNext]_(Ledger!ledger)
  <2>1. pods[p].work \in DOMAIN q.log
      BY <1>10 DEF TypeInv, PodMarks
  <2>2. PICK f \in File : f = q.log[pods[p].work].file
      BY <1>1, <2>1
  <2>3. Live' = Live
      BY <1>10 DEF Live, Undelivered, Pending, Present
  <2>4. f \in admitted /\ Waiting' = Waiting /\ Buried' = Buried
      BY <1>1, <1>10, <2>1, <2>2, <2>3, WaitingFollows DEF Buried
  <2>5. Ledger!Process(f)
      BY <1>10, <2>2, <2>4 DEF Ledger!Process, Waiting, Buried
  <2> QED
      BY <2>5, OneFile
<1>11. ASSUME \/ q' = q
              \/ \E m \in DOMAIN q.log : q' = XAck(q, m)
              \/ \E ids : q' = XDel(q, ids)
              \/ \E ids : q' = XClaim(q, ids, Flusher),
              pc \in FlushSteps, flushed' = (pc = "flush" \/ flushed),
              UNCHANGED <<processed, admitted>>
       PROVE  [Ledger!LedgerNext]_(Ledger!ledger)
  <2>1. q' = q => Live' = Live
      BY DEF Live, Undelivered, Pending, Present
  <2>2. Live' \subseteq Live
      BY <1>11, <2>1, LiveCommands
  <2>3. Waiting' \subseteq Waiting
      BY <2>2, WaitingFollows
  <2>4. flushed' = TRUE
      BY <1>1, <1>11 DEF PhaseInv, TypeInv, HistoryOK
  <2>5. Buried' \subseteq admitted'
      BY DEF AdmittedInv
  <2>6. Ledger!Flush
      BY <1>11, <2>3, <2>4, <2>5 DEF Ledger!Flush, Waiting, Buried
  <2> QED
      BY <2>6 DEF Ledger!LedgerNext
<1> QED
    BY <1>3, <1>4, <1>5, <1>6, <1>7, <1>8, <1>9, <1>10, <1>11 DEF FileMove

----------------------------------------------------------------------------
\* What a step does to the progress of the run.
LEMMA ControlStep ==
    ASSUME TypeInv, PhaseInv, [Next]_vars
    PROVE  /\ cr'.started \/ pc' = "saveStart" => pi'.started
           /\ cr.started => cr'.started
           /\ ~ cr'.started => pc' \in InitSteps \cup {"idle", "save"}
           /\ pc' \in InitSteps => ~ cr'.started
           /\ pc' \in FlushSteps \ {"flush"} => flushed'
<1> USE DEF GoTo
<1> DEFINE Goal == /\ cr'.started \/ pc' = "saveStart" => pi'.started
                   /\ cr.started => cr'.started
                   /\ ~ cr'.started => pc' \in InitSteps \cup {"idle", "save"}
                   /\ pc' \in InitSteps => ~ cr'.started
                   /\ pc' \in FlushSteps \ {"flush"} => flushed'
<1>1. /\ cr \in Statuses /\ pi \in Statuses
      /\ cr.started \/ pc = "saveStart" => pi.started
      /\ ~ cr.started => pc \in InitSteps \cup {"idle", "save"}
      /\ pc \in InitSteps => ~ cr.started
      /\ pc \in FlushSteps \ {"flush"} => flushed
    BY DEF PhaseInv, TypeInv, ReconcilerOK
<1>2. UNCHANGED <<cr, pc, pi, flushed>> => Goal
    BY <1>1
<1>3. CASE ClusterStep
    BY <1>2, <1>3 DEF ClusterStep, PodStep, JobStep, StartPod, TerminatePod, Claim,
       ClaimReplyLost, Start, Succeed, Fail, Crash, Stick, Recover, Evict, Becomes,
       JobCompletes, JobGivesUp, JobFails, JobExpires, JobBecomes, Reconciler, history
<1>4. CASE Begin
    BY <1>1, <1>4 DEF Begin, NoEffect, InitSteps, FlushSteps
<1>5. CASE Save
    BY <1>1, <1>5 DEF Save, Finish, Takes, InitSteps, FlushSteps
<1>6. CASE SaveStart
    BY <1>1, <1>6 DEF SaveStart, Finish, Takes, InitSteps, FlushSteps
<1>7. CASE Inspect \/ Recount
  <2>1. /\ cr' = cr /\ pc \in InitSteps /\ pc' \in {"list", "saveStart", "save"}
        /\ pc' = "saveStart" => pi'.started
      BY <1>1, <1>7
      DEF Inspect, Recount, NoEffect, GiveUp, Initialized, InitSteps, Statuses
  <2> QED
      BY <1>1, <2>1 DEF InitSteps, FlushSteps
<1>8. CASE List \/ Enqueue
  <2>1. cr' = cr /\ pc \in InitSteps /\ pc' \in {"save", "enqueue", "recount"}
      BY <1>8 DEF List, Enqueue, GiveUp, InitSteps
  <2> QED
      BY <1>1, <2>1 DEF InitSteps, FlushSteps
<1>9. ASSUME cr' = cr, cr.started, pi'.started,
             pc' \notin InitSteps, pc' \in FlushSteps \ {"flush"} => flushed'
      PROVE  Goal
    BY <1>1, <1>9 DEF InitSteps
<1>10. CASE \/ FindJob \/ CreateJob \/ ReadLag \/ ReadPending
            \/ CheckFailure \/ StillRunning \/ CheckCompletion
  <2>1. pc \notin InitSteps \cup {"idle", "save"}
      BY <1>10 DEF FindJob, CreateJob, ReadLag, ReadPending, CheckFailure, StillRunning,
         CheckCompletion, Drained, InitSteps
  <2>2. cr.started /\ pi.started /\ cr' = cr
      BY <1>1, <1>10, <2>1 DEF FindJob, CreateJob, ReadLag, ReadPending, CheckFailure,
         StillRunning, CheckCompletion, NoEffect
  <2>3. pc' \notin InitSteps /\ pc' \notin FlushSteps \ {"flush"}
      BY <1>10 DEF FindJob, CreateJob, ReadLag, ReadPending, CheckFailure, StillRunning,
         CheckCompletion, Finish, JobError, InitSteps, FlushSteps
  <2>4. pi'.started
      BY <1>1, <1>10, <2>2 DEF FindJob, CreateJob, ReadLag, ReadPending, CheckFailure,
         StillRunning, CheckCompletion, Finish, JobError, Statuses
  <2> QED
      BY <1>9, <2>2, <2>3, <2>4
<1>11. CASE Restart
    BY <1>1, <1>11 DEF Restart, Finish, InitSteps, FlushSteps
<1>12. CASE MessageStep
  <2>1. pc \notin InitSteps \cup {"idle", "save"} /\ cr' = cr /\ pi' = pi
        /\ pc' \notin InitSteps \cup FlushSteps
      BY <1>12 DEF MessageStep, ListPods, FindMessage, AckHandled, Retire, AckRetired,
         DeletePod, FindStale, ListOwners, ClaimStale, AckFinished, RetireStale, AckStale,
         DeleteStale, NextPod, NextReclaimed, Frame, InitSteps, FlushSteps
  <2> QED
      BY <1>1, <1>9, <2>1
<1>13. CASE FlushStep
  <2>1. /\ pc \in FlushSteps /\ cr' = cr /\ pc' \in FlushSteps \cup {"save"}
        /\ flushed' = (pc = "flush" \/ flushed)
      BY <1>13 DEF FlushStep, FlushBegins, FlushClaim, FlushAck, FlushDel, FlushRest,
         FlushDelRest, FlushDone, FlushReplace, FlushAdd, FlushEnds, Outside, FlushSteps,
         TypeInv, HistoryOK
  <2>2. cr.started /\ pi.started
      BY <1>1, <2>1 DEF InitSteps, FlushSteps
  <2>3. pi'.started
      BY <1>1, <1>13, <2>2 DEF FlushStep, FlushBegins, FlushClaim, FlushAck, FlushDel,
         FlushRest, FlushDelRest, FlushDone, FlushReplace, FlushAdd, FlushEnds, Statuses
  <2> QED
      BY <1>1, <1>9, <2>1, <2>2, <2>3 DEF InitSteps, FlushSteps
<1>14. CASE UNCHANGED vars
    BY <1>2, <1>14 DEF vars, history
<1> QED
    BY <1>3, <1>4, <1>5, <1>6, <1>7, <1>8, <1>10, <1>11, <1>12, <1>13, <1>14
    DEF Next, ReconcileStep

\* Initialization only adds files; the flush is never under way unmarked.
LEMMA PhaseStep ==
    ASSUME TypeInv, PhaseInv, FileMove, Effects, [Next]_vars
    PROVE  PhaseInv'
<1>1. ASSUME ~ cr'.started PROVE admitted' \subseteq Waiting'
  <2>1. ~ cr.started
      BY <1>1, ControlStep
  <2>2. pc \in InitSteps \cup {"idle", "save"} /\ admitted \subseteq Waiting
      BY <2>1 DEF PhaseInv
  <2>3. ASSUME q' = q, admitted' = admitted PROVE admitted' \subseteq Waiting'
      BY <2>2, <2>3 DEF Waiting, Live, Undelivered, Pending, Present
  <2>4. ASSUME NEW p \in Pod, Undelivered(q) # {}, q' = XReadGroup(q, p), admitted' = admitted
        PROVE admitted' \subseteq Waiting'
      BY <2>2, <2>4, LiveCommands, WaitingFollows
  <2>5. ASSUME NEW f \in File, q' = XAdd(q, f, 0), admitted' = admitted \cup {f}
        PROVE admitted' \subseteq Waiting'
      BY <2>2, <2>5, AddedFile
  <2>6. \/ q' = q /\ admitted' = admitted
        \/ \E p \in Pod : Undelivered(q) # {} /\ q' = XReadGroup(q, p) /\ admitted' = admitted
        \/ \E f \in File : q' = XAdd(q, f, 0) /\ admitted' = admitted \cup {f}
      BY <2>2 DEF FileMove, Closes, Retires, InitSteps, FlushSteps
  <2> QED
      BY <2>3, <2>4, <2>5, <2>6
<1> QED
    BY <1>1, ControlStep DEF PhaseInv

----------------------------------------------------------------------------
\* A pod comes into possession of a message only by claiming it.
LEMMA OwnedWork ==
    ASSUME TypeInv, "claim" \notin Faults, FileMove,
           NEW p \in Pod, NEW i \in DOMAIN q'.log, q'.log[i].owner = p
    PROVE  \/ i \in DOMAIN q.log /\ q.log[i].owner = p
           \/ pods[p].phase = "claiming" /\ pods'[p].work = i
<1> DEFINE Goal == \/ i \in DOMAIN q.log /\ q.log[i].owner = p
                   \/ pods[p].phase = "claiming" /\ pods'[p].work = i
<1>1. /\ GoodStream(q, Consumers) /\ DOMAIN q.log = 1 .. Len(q.log) /\ Len(q.log) \in Nat
      /\ \A j \in DOMAIN q.log : q.log[j].file \in File
      /\ Reclaimer \in Consumers /\ Flusher \in Consumers
      /\ p # NoOne /\ p # Reclaimer /\ p # Flusher
    BY Started, ConstantsAssumption
<1>2. CASE q' = q
    BY <1>2
<1>3. ASSUME NEW f \in File, NEW n \in Nat, q' = XAdd(q, f, n) PROVE Goal
  <2>1. /\ GoodStream(q', Consumers) /\ Len(q'.log) = Len(q.log) + 1
        /\ \A j \in 1 .. Len(q.log) : q'.log[j] = q.log[j]
        /\ q'.log[Len(q.log) + 1] =
             [file |-> f, attempts |-> n, owner |-> NoOne, deleted |-> FALSE]
      BY <1>1, <1>3, XAddAppends
  <2>2. q'.log[Len(q.log) + 1].owner = NoOne /\ DOMAIN q'.log = 1 .. (Len(q.log) + 1)
      BY <2>1, Positions
  <2> QED
      BY <1>1, <2>1, <2>2
<1>4. ASSUME NEW x \in Pod, pods[x].phase = "claiming", Undelivered(q) # {},
             q' = XReadGroup(q, x), pods'[x].work = Least(Undelivered(q))
      PROVE  Goal
  <2> DEFINE m == Least(Undelivered(q))
  <2>1. x \in Consumers
      BY Started
  <2>2. /\ GoodStream(q', Consumers) /\ Len(q'.log) = Len(q.log)
        /\ q'.log[m].owner = x
        /\ \A j \in DOMAIN q.log : j # m => q'.log[j] = q.log[j]
      BY <1>1, <1>4, <2>1, XReadGroupDelivers
  <2>3. DOMAIN q'.log = DOMAIN q.log
      BY <1>1, <2>2, Positions
  <2> HIDE DEF m
  <2>4. CASE i = m
      BY <1>4, <2>2, <2>4 DEF m
  <2>5. CASE i # m
      BY <2>2, <2>3, <2>5
  <2> QED
      BY <2>4, <2>5
<1>5. ASSUME NEW m \in DOMAIN q.log, q' = XAck(q, m) PROVE Goal
  <2>1. /\ GoodStream(q', Consumers) /\ Len(q'.log) = Len(q.log)
        /\ q'.log[m].owner = NoOne
        /\ \A j \in DOMAIN q.log : j # m => q'.log[j] = q.log[j]
      BY <1>1, <1>5, XAckReleases
  <2>2. DOMAIN q'.log = DOMAIN q.log
      BY <1>1, <2>1, Positions
  <2> QED
      BY <1>1, <2>1, <2>2
<1>6. ASSUME NEW ids, q' = XDel(q, ids) PROVE Goal
  <2>1. /\ GoodStream(q', Consumers) /\ Len(q'.log) = Len(q.log)
        /\ \A j \in DOMAIN q.log : q'.log[j].owner = q.log[j].owner
      BY <1>1, <1>6, XDelMarks
  <2>2. DOMAIN q'.log = DOMAIN q.log
      BY <1>1, <2>1, Positions
  <2> QED
      BY <2>1, <2>2
<1>7. ASSUME NEW ids, NEW c \in {Reclaimer, Flusher}, q' = XClaim(q, ids, c) PROVE Goal
  <2>1. c \in Consumers
      BY <1>1
  <2>2. /\ GoodStream(q', Consumers) /\ Len(q'.log) = Len(q.log)
        /\ \A j \in DOMAIN q.log : q'.log[j].owner \in {q.log[j].owner, NoOne, c}
      BY <1>1, <1>7, <2>1, XClaimMoves
  <2>3. DOMAIN q'.log = DOMAIN q.log
      BY <1>1, <2>2, Positions
  <2> QED
      BY <1>1, <2>2, <2>3
<1>8. \/ q' = q
      \/ \E f \in File, n \in Nat : q' = XAdd(q, f, n)
      \/ \E x \in Pod : /\ pods[x].phase = "claiming" /\ Undelivered(q) # {}
                        /\ q' = XReadGroup(q, x) /\ pods'[x].work = Least(Undelivered(q))
      \/ \E m \in DOMAIN q.log : q' = XAck(q, m)
      \/ \E ids : q' = XDel(q, ids)
      \/ \E ids : q' = XClaim(q, ids, Reclaimer) \/ q' = XClaim(q, ids, Flusher)
  <2>1. (\E m \in DOMAIN q.log, n \in Nat : q' = XAdd(q, q.log[m].file, n))
          => \E f \in File, n \in Nat : q' = XAdd(q, f, n)
      BY <1>1
  <2>2. (\E f \in File : q' = XAdd(q, f, 0)) => \E f \in File, n \in Nat : q' = XAdd(q, f, n)
      OBVIOUS
  <2> QED
      BY <2>1, <2>2 DEF FileMove
<1> QED
    BY <1>2, <1>3, <1>4, <1>5, <1>6, <1>7, <1>8

\* What a pod has done stays done.
LEMMA WorkStays ==
    ASSUME TypeInv, Effects, WorkMove, NEW p \in Pod, WorkDone(p)
    PROVE  WorkDone(p)'
<1>1. ~ EmptyHanded(p)' /\ pods'[p].work = pods[p].work
    BY DEF WorkMove, WorkDone
<1>2. pods[p].work \in DOMAIN q.log /\ q.log[pods[p].work].file \in processed
    BY DEF WorkDone
<1>3. pods'[p].work \in DOMAIN q'.log /\ q'.log[pods'[p].work].file \in processed'
    BY <1>1, <1>2 DEF Effects
<1> QED
    BY <1>1, <1>3 DEF WorkDone

\* A pod goes on owning nothing but its work.
LEMMA WorkStep ==
    ASSUME TypeInv, WorkInv, "claim" \notin Faults, FileMove, Effects, WorkMove, SeenMove
    PROVE  WorkInv'
<1>1. /\ \A p \in Pod : EmptyHanded(p) => pods[p].work = 0
      /\ \A p \in Pod, i \in DOMAIN q.log : q.log[i].owner = p => pods[p].work = i
      /\ \A p \in Pod : pods[p].phase = "succeeded" => WorkDone(p)
      /\ \A s \in r.todo \cup r.at : s.phase = "succeeded" => WorkDone(s.pod)
      /\ \A i \in r.finished : i \in DOMAIN q.log /\ q.log[i].file \in processed
    BY DEF WorkInv
<1>2. \A s \in r.todo \cup r.at : s.pod \in Pod
    BY DEF TypeInv, ReconcilerOK, Registers, Seen
<1>3. \A p \in Pod : EmptyHanded(p)' => pods'[p].work = 0
    BY DEF WorkMove
<1>4. ASSUME NEW p \in Pod, NEW i \in DOMAIN q'.log, q'.log[i].owner = p
      PROVE  pods'[p].work = i
  <2>1. CASE i \in DOMAIN q.log /\ q.log[i].owner = p
    <3>1. pods[p].work = i /\ i # 0
        BY <1>1, <2>1, Started
    <3> QED
        BY <1>1, <3>1 DEF WorkMove
  <2> QED
      BY <1>4, <2>1, OwnedWork
<1>5. ASSUME NEW p \in Pod, pods'[p].phase = "succeeded" PROVE WorkDone(p)'
  <2>1. CASE pods[p].phase = "succeeded"
      BY <1>1, <2>1, WorkStays
  <2>2. CASE pods[p].phase = "running" /\ q.log[pods[p].work].file \in processed'
    <3>1. ~ EmptyHanded(p) /\ pods[p].work \in DOMAIN q.log
        BY <2>2 DEF EmptyHanded, TypeInv, PodMarks
    <3>2. ~ EmptyHanded(p)' /\ pods'[p].work = pods[p].work
        BY <3>1 DEF WorkMove
    <3>3. pods'[p].work \in DOMAIN q'.log /\ q'.log[pods'[p].work].file \in processed'
        BY <2>2, <3>1, <3>2 DEF Effects
    <3> QED
        BY <3>2, <3>3 DEF WorkDone
  <2> QED
      BY <1>5, <2>1, <2>2 DEF WorkMove
<1>6. ASSUME NEW s \in r'.todo \cup r'.at, s.phase = "succeeded" PROVE WorkDone(s.pod)'
  <2>1. s.pod \in Pod /\ WorkDone(s.pod)
      BY <1>1, <1>2, <1>6 DEF SeenMove
  <2> QED
      BY <2>1, WorkStays
<1>7. ASSUME NEW i \in r'.finished
      PROVE  i \in DOMAIN q'.log /\ q'.log[i].file \in processed'
  <2>1. i \in DOMAIN q.log /\ q.log[i].file \in processed
      BY <1>1 DEF SeenMove, WorkDone
  <2> QED
      BY <2>1 DEF Effects
<1> QED
    BY <1>3, <1>4, <1>5, <1>6, <1>7 DEF WorkInv

----------------------------------------------------------------------------
\* A message is settled once its successor is written.
LEMMA SuccessorSettles ==
    ASSUME TypeInv, NEW out, NEW m \in Live, RetryOrBury(out, m), UNCHANGED processed
    PROVE  Live \subseteq Live' /\ (out = "ok" => Settled(m)')
<1> DEFINE f == q.log[m].file
           n == q.log[m].attempts + 1
<1>1. m \in DOMAIN q.log /\ f \in File /\ n \in Nat /\ n > 0 /\ dlq \in [File -> Seq(Nat)]
      /\ m \in Nat
    BY Started, EntryFields DEF TypeInv, StreamOK, LettersOK
<1>2. \/ q' = Takes(out, XAdd(q, f, n), q) /\ UNCHANGED dlq
      \/ dlq' = Takes(out, [dlq EXCEPT ![f] = Append(@, n)], dlq) /\ UNCHANGED q
    BY DEF RetryOrBury
<1>3. q' = q => Live' = Live
    BY DEF Live, Undelivered, Pending, Present
<1>4. f = q.log[m].file
    OBVIOUS
<1> HIDE DEF f, n
<1>5. CASE q' = Takes(out, XAdd(q, f, n), q) /\ UNCHANGED dlq
  <2>1. CASE out = "refused"
      BY <1>3, <1>5, <2>1 DEF Takes
  <2>2. CASE out # "refused"
    <3>1. q' = XAdd(q, f, n)
        BY <1>5, <2>2 DEF Takes
    <3>2. /\ Live' = Live \cup {Len(q.log) + 1}
          /\ q'.log[Len(q.log) + 1].file = f /\ q'.log[Len(q.log) + 1].attempts > 0
          /\ q'.log[m] = q.log[m] /\ Len(q.log) + 1 # m
        BY <1>1, <3>1, AddedFile
    <3> QED
        BY <1>4, <3>2 DEF Settled
  <2> QED
      BY <2>1, <2>2
<1>6. CASE dlq' = Takes(out, [dlq EXCEPT ![f] = Append(@, n)], dlq) /\ UNCHANGED q
  <2>1. ASSUME out = "ok" PROVE f \in Buried'
    <3>1. dlq' = [dlq EXCEPT ![f] = Append(@, n)]
        BY <1>6, <2>1 DEF Takes
    <3>2. dlq'[f] # << >>
        BY <1>1, <3>1
    <3> QED
        BY <1>1, <3>2 DEF Buried
  <2> QED
      BY <1>3, <1>4, <1>6, <2>1 DEF Settled
<1> QED
    BY <1>2, <1>5, <1>6

\* A settled message stays so when it is acknowledged itself.
LEMMA StaysSettled ==
    ASSUME TypeInv, Effects, NEW i \in DOMAIN q.log, Settled(i), UNCHANGED dlq,
           Live \ {i} \subseteq Live', Live' \subseteq Live
    PROVE  Settled(i)'
<1>1. /\ Live \subseteq DOMAIN q.log /\ processed \subseteq processed'
      /\ \A j \in DOMAIN q.log :
           q'.log[j].file = q.log[j].file /\ q'.log[j].attempts = q.log[j].attempts
    BY Started DEF Effects, Extends
<1>2. Buried' = Buried
    BY DEF Buried
<1> QED
    BY <1>1, <1>2 DEF Settled

\* The steps that have a message in hand.
Handles == {"retire", "reclaimNext", "reclaimAck", "reclaimDel", "ack", "ackRetired"}

\* A message comes to be acknowledged or deleted only when it is settled.
LEMMA HandleStep ==
    ASSUME TypeInv, WorkInv, HandleInv, FileMove, Effects, [Next]_vars
    PROVE  HandleInv'
<1> USE DEF GoTo
<1>1. r \in Registers /\ r.batch \subseteq DOMAIN q.log /\ DOMAIN q.log \subseteq Nat
      /\ Live \subseteq DOMAIN q.log
      /\ (pc \in HandlesMessage => r.msg \in DOMAIN q.log)
    BY Started DEF TypeInv, ReconcilerOK, PassMarks
<1>2. /\ pc = "retire" => r.msg \in Live
      /\ pc = "reclaimNext" => r.batch \subseteq Live
      /\ pc \in {"reclaimAck", "reclaimDel"} => r.batch \ {r.msg} \subseteq Live
      /\ pc \in {"ack", "ackRetired", "reclaimAck", "reclaimDel"} => Settled(r.msg)
    BY DEF HandleInv
<1>3. q' = q => Live' = Live
    BY DEF Live, Undelivered, Pending, Present
<1>4. pc' \notin Handles => HandleInv'
    BY DEF HandleInv, Handles
<1>5. ASSUME Live' = Live, UNCHANGED <<dlq, pc, r>> PROVE HandleInv'
  <2>1. pc \in {"ack", "ackRetired", "reclaimAck", "reclaimDel"} => Settled(r.msg)'
      BY <1>1, <1>2, <1>5, StaysSettled DEF HandlesMessage
  <2> QED
      BY <1>2, <1>5, <2>1 DEF HandleInv
<1>6. CASE ClusterStep
  <2>1. UNCHANGED <<dlq, pc, r>>
      BY <1>6 DEF ClusterStep, PodStep, JobStep, StartPod, TerminatePod, Claim,
         ClaimReplyLost, Start, Succeed, Fail, Crash, Stick, Recover, Evict, Becomes,
         JobCompletes, JobGivesUp, JobFails, JobExpires, JobBecomes, Reconciler
  <2>2. \/ q' = q
        \/ \E p \in Pod : Undelivered(q) # {} /\ q' = XReadGroup(q, p)
      BY <1>6 DEF ClusterStep, PodStep, JobStep, StartPod, TerminatePod, Claim,
         ClaimReplyLost, Start, Succeed, Fail, Crash, Stick, Recover, Evict, Becomes,
         JobCompletes, JobGivesUp, JobFails, JobExpires, JobBecomes
  <2> QED
      BY <1>3, <1>5, <2>1, <2>2, LiveCommands
<1>7. CASE ReconcileStep
  <2>1. pc' \notin Handles
      BY <1>7 DEF ReconcileStep, Begin, Save, SaveStart, Inspect, List, Enqueue, Recount,
         FindJob, CreateJob, ReadLag, ReadPending, CheckFailure, StillRunning,
         CheckCompletion, Restart, Finish, GiveUp, Initialized, JobError, Handles
  <2> QED
      BY <1>4, <2>1
<1>8. CASE FlushStep
  <2>1. pc' \notin Handles
      BY <1>8 DEF FlushStep, FlushBegins, FlushClaim, FlushAck, FlushDel, FlushRest,
         FlushDelRest, FlushDone, FlushReplace, FlushAdd, FlushEnds, Handles
  <2> QED
      BY <1>4, <2>1
<1>9. CASE ListPods \/ AckHandled \/ AckRetired \/ DeletePod \/ FindStale \/ ListOwners
  <2>1. pc' \notin Handles
      BY <1>9 DEF ListPods, AckHandled, AckRetired, DeletePod, FindStale, ListOwners,
         NextPod, NextReclaimed, Handles
  <2> QED
      BY <1>4, <2>1
<1>10. CASE FindMessage
  <2>1. PICK s \in r.todo :
          \/ pc' \in {"reclaim", "nextPod"}
          \/ LET m == Least(PendingFor(q, s.pod)) IN
             /\ PendingFor(q, s.pod) # {}
             /\ r' = [r EXCEPT !.todo = @ \ {s}, !.at = {s}, !.msg = m]
             /\ pc' = IF q.log[m].deleted \/ s.phase = "succeeded" THEN "ack" ELSE "retire"
      BY <1>10 DEF FindMessage, NextPod
  <2>2. s.pod \in Pod /\ s.pod # NoOne
      BY <1>1, ConstantsAssumption DEF Registers, Seen
  <2>3. UNCHANGED <<q, dlq, processed>>
      BY <1>10 DEF FindMessage, Frame
  <2>4. PICK m : m = Least(PendingFor(q, s.pod))
      OBVIOUS
  <2>5. CASE pc' \in {"reclaim", "nextPod"}
      BY <1>4, <2>5 DEF Handles
  <2>6. CASE /\ PendingFor(q, s.pod) # {}
             /\ r' = [r EXCEPT !.todo = @ \ {s}, !.at = {s}, !.msg = m]
             /\ pc' = IF q.log[m].deleted \/ s.phase = "succeeded" THEN "ack" ELSE "retire"
    <3>1. PendingFor(q, s.pod) \in SUBSET Nat
        BY <1>1 DEF PendingFor
    <3>2. m \in DOMAIN q.log /\ q.log[m].owner = s.pod /\ r'.msg = m
        BY <1>1, <2>4, <2>6, <3>1, LeastIsLeast DEF PendingFor, Registers
    <3>3. q.log[m].deleted => m \notin Live
        BY DEF Live, Undelivered, Present
    <3>4. ~ q.log[m].deleted => m \in Live
        BY <2>2, <3>2 DEF Live, Pending, Present
    <3>5. s.phase = "succeeded" => q.log[m].file \in processed
        BY <2>2, <3>2 DEF WorkInv, WorkDone
    <3>6. pc' = "ack" => Settled(m)'
        BY <1>3, <2>3, <2>6, <3>3, <3>5 DEF Settled
    <3>7. pc' = "retire" => m \in Live'
        BY <1>3, <2>3, <2>6, <3>4
    <3> QED
        BY <2>6, <3>2, <3>6, <3>7 DEF HandleInv
  <2> QED
      BY <2>1, <2>4, <2>5, <2>6
<1>11. CASE Retire
  <2>1. PICK out \in Writes :
          /\ RetryOrBury(out, r.msg)
          /\ \/ out = "ok" /\ pc' = "ackRetired" /\ r' = r
             \/ pc' \in {"reclaim", "nextPod"}
      BY <1>11 DEF Retire, NextPod
  <2>2. r.msg \in Live /\ UNCHANGED processed
      BY <1>2, <1>11 DEF Retire, Frame
  <2>3. CASE out = "ok" /\ pc' = "ackRetired" /\ r' = r
    <3>1. Settled(r.msg)'
        BY <2>1, <2>2, <2>3, SuccessorSettles
    <3> QED
        BY <2>3, <3>1 DEF HandleInv
  <2>4. CASE pc' \in {"reclaim", "nextPod"}
      BY <1>4, <2>4 DEF Handles
  <2> QED
      BY <2>1, <2>3, <2>4
<1>12. ASSUME NEW batch, NextReclaimed(batch), batch \subseteq Live' PROVE HandleInv'
  <2>1. pc' = "lag" \/ (pc' = "reclaimNext" /\ r'.batch = batch)
      BY <1>1, <1>12 DEF NextReclaimed, Registers
  <2> QED
      BY <1>12, <2>1 DEF HandleInv
<1>13. CASE ClaimStale
  <2>1. PICK out \in Writes :
          /\ q' = Takes(out, XClaim(q, r.batch, Reclaimer), q)
          /\ NextReclaimed(IF out = "ok" THEN Claimable(q, r.batch) ELSE {})
      BY <1>13 DEF ClaimStale
  <2>2. Live' = Live
      BY <1>3, <2>1, LiveCommands DEF Takes
  <2>3. Claimable(q, r.batch) \subseteq Live
      BY DEF Claimable, Live
  <2> DEFINE batch == IF out = "ok" THEN Claimable(q, r.batch) ELSE {}
  <2>4. NextReclaimed(batch) /\ batch \subseteq Live'
      BY <2>1, <2>2, <2>3
  <2> QED
      BY <1>12, <2>4
<1>14. PICK least : least = Least(r.batch)
    OBVIOUS
<1>15. pc = "reclaimNext" => least \in Live /\ least \in DOMAIN q.log
    BY <1>2, <1>14, LeastOfBatch DEF HasBatch, TypeInv, PassMarks
<1>16. CASE AckFinished
  <2>1. PICK out \in Writes :
          /\ q' = Takes(out, XAck(q, least), q)
          /\ \/ r' = [r EXCEPT !.msg = least] /\ pc' = "reclaimDel"
             \/ NextReclaimed(r.batch \ {least})
      BY <1>16, <1>14 DEF AckFinished
  <2>2. pc = "reclaimNext" /\ least \in r.finished /\ UNCHANGED dlq
      BY <1>16, <1>14 DEF AckFinished
  <2>3. Live \ {least} \subseteq Live' /\ Live' \subseteq Live
      BY <1>3, <1>15, <2>1, <2>2, LiveCommands DEF Takes
  <2>4. Settled(least)'
      BY <1>15, <2>2, <2>3, StaysSettled DEF WorkInv, Settled
  <2>5. r.batch \ {least} \subseteq Live'
      BY <1>2, <2>2, <2>3
  <2>6. CASE r' = [r EXCEPT !.msg = least] /\ pc' = "reclaimDel"
    <3>1. r'.msg = least /\ r'.batch = r.batch
        BY <1>1, <2>6 DEF Registers
    <3> QED
        BY <2>4, <2>5, <2>6, <3>1 DEF HandleInv
  <2> QED
      BY <1>12, <2>1, <2>5, <2>6
<1>17. CASE RetireStale
  <2>1. PICK out \in Writes :
          /\ RetryOrBury(out, least)
          /\ \/ out = "ok" /\ r' = [r EXCEPT !.msg = least] /\ pc' = "reclaimAck"
             \/ NextReclaimed(r.batch \ {least})
      BY <1>17, <1>14 DEF RetireStale
  <2>2. pc = "reclaimNext" /\ UNCHANGED processed
      BY <1>17 DEF RetireStale, Frame
  <2>3. Live \subseteq Live' /\ (out = "ok" => Settled(least)')
      BY <1>15, <2>1, <2>2, SuccessorSettles
  <2>4. r.batch \ {least} \subseteq Live'
      BY <1>2, <2>2, <2>3
  <2>5. CASE out = "ok" /\ r' = [r EXCEPT !.msg = least] /\ pc' = "reclaimAck"
    <3>1. r'.msg = least /\ r'.batch = r.batch
        BY <1>1, <2>5 DEF Registers
    <3> QED
        BY <2>3, <2>4, <2>5, <3>1 DEF HandleInv
  <2> QED
      BY <1>12, <2>1, <2>4, <2>5
<1>18. CASE AckStale
  <2>1. PICK i : i = r.msg
      OBVIOUS
  <2>2. PICK out \in Writes :
          /\ q' = Takes(out, XAck(q, i), q) /\ UNCHANGED dlq
          /\ \/ pc' = "reclaimDel" /\ r' = r
             \/ NextReclaimed(r.batch \ {i})
      BY <1>18, <2>1 DEF AckStale, Acknowledge
  <2>3. pc = "reclaimAck" /\ i \in DOMAIN q.log /\ Settled(i)
      BY <1>1, <1>2, <1>18, <2>1 DEF AckStale, HandlesMessage
  <2>4. Live \ {i} \subseteq Live' /\ Live' \subseteq Live
      BY <1>3, <2>2, <2>3, LiveCommands DEF Takes
  <2>5. Settled(i)'
      BY <2>2, <2>3, <2>4, StaysSettled
  <2>6. r.batch \ {i} \subseteq Live'
      BY <1>2, <2>1, <2>3, <2>4
  <2>7. CASE pc' = "reclaimDel" /\ r' = r
      BY <2>1, <2>5, <2>6, <2>7 DEF HandleInv
  <2> QED
      BY <1>12, <2>2, <2>6, <2>7
<1>19. CASE DeleteStale
  <2>1. PICK out \in Writes : q' = Takes(out, XDel(q, {r.msg}), q)
      BY <1>19 DEF DeleteStale
  <2>2. pc = "reclaimDel" /\ NextReclaimed(r.batch \ {r.msg})
      BY <1>19 DEF DeleteStale
  <2>3. Live \ {r.msg} \subseteq Live'
      BY <1>3, <2>1, LiveCommands DEF Takes
  <2>4. r.batch \ {r.msg} \subseteq Live'
      BY <1>2, <2>2, <2>3
  <2> QED
      BY <1>12, <2>2, <2>4
<1>20. CASE UNCHANGED vars
    BY <1>3, <1>5, <1>20 DEF vars
<1> QED
    BY <1>6, <1>7, <1>8, <1>9, <1>10, <1>11, <1>13, <1>16, <1>17, <1>18, <1>19, <1>20
    DEF Next, MessageStep

----------------------------------------------------------------------------
\* The invariant is inductive, and a step under it is a step of the ledger.
LEMMA LedgerStep ==
    ASSUME "claim" \notin Faults, TypeInv, LedgerInv, [Next]_vars
    PROVE  LedgerInv' /\ [Ledger!LedgerNext]_(Ledger!ledger)
<1>1. AdmittedInv /\ PhaseInv /\ WorkInv /\ HandleInv
    BY DEF LedgerInv
<1>2. FileMove /\ MemoryMove /\ SeenMove /\ WorkMove
    BY <1>1, FileMoves, MemoryMoves, SeenMoves, WorkMoves DEF WorkInv
<1>3. Effects
    BY <1>2, FileEffects
<1>4. AdmittedInv' /\ PhaseInv' /\ WorkInv' /\ HandleInv'
    BY <1>1, <1>2, <1>3, AdmittedStep, PhaseStep, WorkStep, HandleStep
<1> QED
    BY <1>2, <1>3, <1>4, StepsKeepLedger DEF LedgerInv

\* The invariant holds at the start.
LEMMA LedgerStarts ==
    ASSUME Init
    PROVE  TypeInv /\ LedgerInv /\ Ledger!LedgerInit
<1>1. /\ q = EmptyStream /\ q.log = << >> /\ admitted = {} /\ processed = {} /\ flushed = FALSE
      /\ pc = "idle" /\ r = Blank /\ cr = NewStatus
      /\ \A f \in File : dlq[f] = << >>
      /\ \A p \in Pod : pods[p].phase = "unborn" /\ pods[p].work = 0
    BY DEF Init, EmptyStream
<1>2. DOMAIN q.log = {}
    BY <1>1
<1>3. Live = {} /\ Buried = {} /\ Waiting = {}
    BY <1>1, <1>2 DEF Live, Undelivered, Pending, Present, Buried, Waiting
<1>4. /\ r.held = [f \in File |-> 0] /\ r.known = {} /\ r.todo = {} /\ r.at = {}
      /\ r.finished = {}
    BY <1>1 DEF Blank
<1>5. AdmittedInv
    BY <1>1, <1>2, <1>3, <1>4 DEF AdmittedInv, Remembered
<1>6. PhaseInv
    BY <1>1 DEF PhaseInv, NewStatus, InitSteps, FlushSteps
<1>7. WorkInv
    BY <1>1, <1>2, <1>4 DEF WorkInv
<1>8. HandleInv
    BY <1>1 DEF HandleInv
<1>9. Ledger!LedgerInit
    BY <1>1, <1>3 DEF Ledger!LedgerInit, Waiting, Buried
<1> QED
    BY <1>5, <1>6, <1>7, <1>8, <1>9, InitTypes DEF LedgerInv

\* Whatever calls of the reconciler fail and wherever it restarts, a run does
\* to its files what FileLedger allows, for any number of files, pods and
\* attempts (initializePipelineInstance, handleCompletedPods, handleFailedPodMessage,
\* runReclaimer, flushOutstandingWork).
THEOREM RunKeepsLedger ==
    ASSUME "claim" \notin Faults
    PROVE  Spec => LedgerKept
<1>1. (TypeInv /\ LedgerInv) /\ [Next]_vars
        => (TypeInv /\ LedgerInv)' /\ [Ledger!LedgerNext]_(Ledger!ledger)
    BY NextKeepsTypes, LedgerStep
<1> QED
    BY LedgerStarts, <1>1, PTL DEF Spec, LedgerKept, Ledger!LedgerSpec

\* Until a flush begins, every admitted file has a live message, a dead letter
\* record or a pod that has processed it (the order of the calls that replace
\* a message, handleFailedPodMessage and runReclaimer).
THEOREM NothingLostBeforeFlush ==
    ASSUME "claim" \notin Faults
    PROVE  Spec => [](~ flushed => \A f \in admitted : Safe(f))
<1>1. Ledger!LedgerInit => Ledger!Accounted
    BY DEF Ledger!LedgerInit, Ledger!Accounted
<1>2. Ledger!Accounted /\ [Ledger!LedgerNext]_(Ledger!ledger) => Ledger!Accounted'
    BY DEF Ledger!Accounted, Ledger!LedgerNext, Ledger!ledger, Ledger!Admit, Ledger!Process,
       Ledger!Bury, Ledger!Release, Ledger!Flush
<1>3. Ledger!Accounted => (~ flushed => \A f \in admitted : Safe(f))
    BY DEF Ledger!Accounted, Safe
<1>4. Spec => LedgerKept
    BY RunKeepsLedger
<1> QED
    BY <1>1, <1>2, <1>3, <1>4, PTL DEF LedgerKept, Ledger!LedgerSpec

----------------------------------------------------------------------------
(* What a flush does with the files that have been retried.                *)

\* The memory of the flush has the file of the message, if it was retried.
Noted(i) == q.log[i].attempts > 0 => r.held[q.log[i].file] > 0

\* The memory of the flush is empty outside it.  The files whose records it
\* replaces are in it, and a message is deleted once its file is.
MemoryInv ==
    /\ pc \notin FlushSteps \ {"flush"} => r.known = {} /\ \A f \in File : r.held[f] = 0
    /\ \A f \in r.known : r.held[f] > 0
    /\ pc = "flushAdd" => r.files \cap r.known = {}
    /\ pc = "flushDel" => Noted(r.msg)
    /\ pc = "flushDelRest" => \A i \in r.batch : Noted(i)

\* No flush has been disturbed.
Retained == "flush" \notin Faults \/ faults = 0

\* The file has a live message that is a retry, or it is accounted for, or the
\* flush remembers it.
HeldOn(f) ==
    \/ \E i \in Live : q.log[i].file = f /\ q.log[i].attempts > 0
    \/ f \in processed \cup Buried
    \/ r.held[f] > 0

\* Whatever has been retried is held on to.
RetriedKept == \A i \in DOMAIN q.log : q.log[i].attempts > 0 => HeldOn(q.log[i].file)

\* It is, as long as no flush has been disturbed.
KeptInv == Retained => RetriedKept

\* A step costs at most one fault.
LEMMA FaultsGrow ==
    ASSUME TypeInv, [Next]_vars
    PROVE  faults' \in {faults, faults + 1}
<1>1. ClusterStep => faults' \in {faults, faults + 1}
    BY DEF ClusterStep, PodStep, JobStep, StartPod, TerminatePod, Claim, ClaimReplyLost, Start,
       Succeed, Fail, Crash, Stick, Recover, Evict, Becomes, JobCompletes, JobGivesUp, JobFails,
       JobExpires, JobBecomes
<1>2. ReconcileStep => faults' \in {faults, faults + 1}
    BY DEF ReconcileStep, Begin, Save, SaveStart, Inspect, List, Enqueue, Recount, FindJob,
       CreateJob, ReadLag, ReadPending, CheckFailure, StillRunning, CheckCompletion, Restart,
       Charge
<1>3. MessageStep => faults' \in {faults, faults + 1}
    BY DEF MessageStep, ListPods, FindMessage, AckHandled, Retire, AckRetired, DeletePod,
       FindStale, ListOwners, ClaimStale, AckFinished, RetireStale, AckStale, DeleteStale, Charge
<1>4. FlushStep => faults' \in {faults, faults + 1}
    BY DEF FlushStep, FlushBegins, FlushClaim, FlushAck, FlushDel, FlushRest, FlushDelRest,
       FlushDone, FlushReplace, FlushAdd, Charge
<1>5. UNCHANGED vars => faults' = faults
    BY DEF vars
<1> QED
    BY <1>1, <1>2, <1>3, <1>4, <1>5 DEF Next

\* A flush that is not disturbed had not been before, and its calls succeed.
LEMMA FlushUndisturbed ==
    ASSUME TypeInv, [Next]_vars, Retained'
    PROVE  /\ Retained
           /\ pc \in FlushSteps =>
                /\ ~ Restart
                /\ \A out \in Writes \cup Reads : Charge(out) => out = "ok"
<1>1. faults \in Nat /\ faults' \in {faults, faults + 1}
    BY FaultsGrow DEF TypeInv
<1>2. "flush" \notin Faults \/ faults' = 0
    BY DEF Retained
<1>3. Retained
    BY <1>1, <1>2 DEF Retained
<1>4. ASSUME pc \in FlushSteps PROVE ~ Restart
    BY <1>1, <1>2, <1>4 DEF Restart, CanFault
<1>5. ASSUME pc \in FlushSteps, NEW out \in Writes \cup Reads, Charge(out), out # "ok"
      PROVE  FALSE
  <2>1. CanFault("flush")
      BY <1>5 DEF Writes, Reads, CallFault
  <2> QED
      BY <1>1, <1>2, <1>5, <2>1 DEF CanFault, Charge
<1> QED
    BY <1>3, <1>4, <1>5

\* What is remembered of a file is no less than before, and no less than the
\* attempts of its messages.
LEMMA RememberGrows ==
    ASSUME TypeInv, NEW held \in [File -> Nat], NEW ids \in SUBSET DOMAIN q.log
    PROVE  /\ \A f \in File : held[f] <= Remember(held, ids)[f]
           /\ \A i \in ids : q.log[i].attempts <= Remember(held, ids)[q.log[i].file]
           /\ Remember(held, ids) \in [File -> Nat]
<1>1. GoodStream(q, Consumers)
    BY PassTypes
<1>2. ASSUME NEW f \in File
      PROVE  /\ held[f] <= Remember(held, ids)[f]
             /\ \A i \in ids : q.log[i].file = f => q.log[i].attempts <= Remember(held, ids)[f]
  <2> DEFINE S == {i \in ids : q.log[i].file = f}
             g == [i \in S |-> q.log[i].attempts]
             T == {q.log[i].attempts : i \in S} \cup {held[f]}
  <2>1. S \in SUBSET DOMAIN q.log
      OBVIOUS
  <2>2. IsFiniteSet(S)
      BY <1>1, <2>1, Positions
  <2>3. g \in [S -> Nat]
      BY <1>1, <2>1, EntryFields
  <2>4. T = {g[i] : i \in S} \cup {held[f]} /\ held[f] \in Nat
      OBVIOUS
  <2>5. Remember(held, ids)[f] = Greatest(T)
      BY DEF Remember
  <2>6. \A i \in ids : q.log[i].file = f => q.log[i].attempts \in T
      OBVIOUS
  <2>7. held[f] \in T
      OBVIOUS
  <2> HIDE DEF S, g, T
  <2>8. \A n \in T : n <= Greatest(T)
      BY <2>2, <2>3, <2>4, GreatestOfImage
  <2> QED
      BY <2>5, <2>6, <2>7, <2>8
<1>3. \A i \in ids : q.log[i].file \in File
    BY <1>1, EntryFields
<1> QED
    BY <1>2, <1>3, RememberType

\* The attempts recorded of a buried file are not 0.
LEMMA RecordedPositive ==
    ASSUME TypeInv, AttemptsBounded, NEW f \in Buried
    PROVE  Recorded(f) > 0
<1> DEFINE S == DOMAIN dlq[f]
           T == {dlq[f][k] : k \in S} \cup {0}
<1>1. f \in File /\ dlq[f] # << >>
    BY DEF Buried
<1>2. dlq[f] \in Seq(Nat)
    BY <1>1, PassTypes
<1>3. S = 1 .. Len(dlq[f]) /\ Len(dlq[f]) \in Nat /\ Len(dlq[f]) # 0
    BY <1>1, <1>2, LenProperties, EmptySeq
<1>4. IsFiniteSet(S) /\ 1 \in S
    BY <1>3, FS_Interval
<1>5. dlq[f] \in [S -> Nat]
    BY <1>2
<1>6. Recorded(f) = Greatest(T)
    BY DEF Recorded
<1>7. dlq[f][1] >= MaxAttempts /\ dlq[f][1] \in T /\ dlq[f][1] \in Nat
    BY <1>1, <1>4, <1>5 DEF AttemptsBounded
<1>8. T = {dlq[f][k] : k \in S} \cup {0}
    OBVIOUS
<1> HIDE DEF S, T
<1>9. Greatest(T) \in Nat /\ \A n \in T : n <= Greatest(T)
    BY <1>4, <1>5, <1>8, GreatestOfImage
<1>10. MaxAttempts \in Nat \ {0}
    BY ConstantsAssumption
<1> QED
    BY <1>6, <1>7, <1>9, <1>10

\* Outside a flush nothing is put in its memory.
LEMMA OutsideFlush ==
    ASSUME TypeInv, MemoryInv, [Next]_vars, pc \notin FlushSteps
    PROVE  /\ pc' \notin FlushSteps \ {"flush"}
           /\ r'.known = {} /\ \A f \in File : r'.held[f] = 0
<1> USE DEF GoTo
<1>1. r \in Registers /\ r.known = {} /\ \A f \in File : r.held[f] = 0
    BY DEF TypeInv, ReconcilerOK, MemoryInv
<1>2. Blank.known = {} /\ \A f \in File : Blank.held[f] = 0
    BY DEF Blank
<1>3. ClusterStep => pc' = pc /\ r' = r
    BY DEF ClusterStep, PodStep, JobStep, StartPod, TerminatePod, Claim, ClaimReplyLost, Start,
       Succeed, Fail, Crash, Stick, Recover, Evict, Becomes, JobCompletes, JobGivesUp, JobFails,
       JobExpires, JobBecomes, Reconciler
<1>4. CASE \/ Begin \/ Save \/ SaveStart \/ Inspect \/ Recount \/ FindJob \/ CreateJob
           \/ CheckFailure \/ StillRunning \/ CheckCompletion \/ Restart
  <2>1. r' \in {r, Blank} /\ pc' \notin FlushSteps \ {"flush"}
      BY <1>4 DEF Begin, Save, SaveStart, Inspect, Recount, FindJob, CreateJob,
         CheckFailure, StillRunning, CheckCompletion, Restart, Finish, GiveUp, Initialized,
         JobError, FlushSteps
  <2> QED
      BY <1>1, <1>2, <2>1
<1>5. CASE List \/ Enqueue \/ ReadLag \/ ReadPending
  <2>1. r'.held = r.held /\ r'.known = r.known /\ pc' \notin FlushSteps
      BY <1>1, <1>5 DEF List, Enqueue, ReadLag, ReadPending, GiveUp, Registers, FlushSteps
  <2> QED
      BY <1>1, <2>1
<1>6. CASE MessageStep
  <2>1. r'.held = r.held /\ r'.known = r.known /\ pc' \notin FlushSteps
      BY <1>1, <1>6 DEF MessageStep, ListPods, FindMessage, AckHandled, Retire, AckRetired,
         DeletePod, FindStale, ListOwners, ClaimStale, AckFinished, RetireStale, AckStale,
         DeleteStale, NextPod, NextReclaimed, Registers, FlushSteps
  <2> QED
      BY <1>1, <2>1
<1>7. ~ FlushStep
    BY DEF FlushStep, FlushBegins, FlushClaim, FlushAck, FlushDel, FlushRest, FlushDelRest,
       FlushDone, FlushReplace, FlushAdd, FlushSteps
<1>8. UNCHANGED vars => pc' = pc /\ r' = r
    BY DEF vars
<1> QED
    BY <1>1, <1>3, <1>4, <1>5, <1>6, <1>7, <1>8 DEF Next, ReconcileStep

\* Whose file a flush has noted stays so as long as its memory does not shrink.
LEMMA NotedStays ==
    ASSUME TypeInv, Effects, r' \in Registers, NEW i \in DOMAIN q.log,
           \A f \in File : r.held[f] <= r'.held[f],
           Noted(i)
    PROVE  q'.log[i].attempts > 0 => r'.held[q'.log[i].file] > 0
<1>1. /\ q'.log[i].file = q.log[i].file /\ q'.log[i].attempts = q.log[i].attempts
      /\ q.log[i].file \in File
    BY Started DEF Effects, Extends
<1>2. r.held \in [File -> Nat] /\ r'.held \in [File -> Nat]
    BY PassTypes DEF Registers
<1> QED
    BY <1>1, <1>2 DEF Noted

\* The memory of the flush is inductive.
LEMMA MemoryStep ==
    ASSUME TypeInv, AttemptsBounded, MemoryInv, Effects, TypeInv', [Next]_vars
    PROVE  MemoryInv'
<1> USE DEF GoTo
<1>1. /\ r \in Registers /\ r.held \in [File -> Nat] /\ r.known \subseteq File
      /\ r.batch \subseteq DOMAIN q.log /\ r' \in Registers
      /\ pc = "flushDel" => r.msg \in DOMAIN q.log
      /\ \A f \in r.known : r.held[f] > 0
      /\ pc = "flush" => r.known = {}
      /\ pc = "flushAdd" => r.files \cap r.known = {}
      /\ pc = "flushDel" => Noted(r.msg)
      /\ pc = "flushDelRest" => \A i \in r.batch : Noted(i)
    BY DEF TypeInv, ReconcilerOK, PassMarks, Registers, MemoryInv, HandlesMessage
<1>2. pc \in FlushSteps \ {"flush"} \/ (r.known = {} /\ \A f \in File : r.held[f] = 0)
    BY DEF MemoryInv
<1>3. ASSUME r'.known = {}, \A f \in File : r'.held[f] = 0,
             pc' \notin {"flushDel", "flushDelRest"}
      PROVE  MemoryInv'
    BY <1>3 DEF MemoryInv
<1>4. Blank.known = {} /\ \A f \in File : Blank.held[f] = 0
    BY DEF Blank
<1>5. ASSUME pc' = pc, r' = r PROVE MemoryInv'
  <2>1. pc' = "flushDel" => Noted(r.msg)'
      BY <1>1, <1>5, NotedStays DEF Noted
  <2>2. pc' = "flushDelRest" => \A i \in r'.batch : Noted(i)'
      BY <1>1, <1>5, NotedStays DEF Noted
  <2> QED
      BY <1>1, <1>2, <1>5, <2>1, <2>2 DEF MemoryInv
<1>6. CASE pc \notin FlushSteps
    BY <1>3, <1>6, OutsideFlush DEF FlushSteps
<1>7. ASSUME r'.held = r.held, r'.known \subseteq r.known,
             pc' \in {"flushClaim", "flushAck", "flushRest", "flushWrite"}
      PROVE  MemoryInv'
    BY <1>1, <1>7 DEF MemoryInv, FlushSteps
<1>8. CASE ClusterStep
  <2>1. pc' = pc /\ r' = r
      BY <1>8 DEF ClusterStep, PodStep, JobStep, StartPod, TerminatePod, Claim,
         ClaimReplyLost, Start, Succeed, Fail, Crash, Stick, Recover, Evict, Becomes,
         JobCompletes, JobGivesUp, JobFails, JobExpires, JobBecomes, Reconciler
  <2> QED
      BY <1>5, <2>1
<1>9. CASE Restart
    BY <1>3, <1>4, <1>9 DEF Restart, Finish
<1>10. CASE pc \in FlushSteps /\ (ReconcileStep \/ MessageStep)
  <2>1. Restart
      BY <1>10 DEF ReconcileStep, Begin, Save, SaveStart, Inspect, List, Enqueue, Recount,
         FindJob, CreateJob, ReadLag, ReadPending, CheckFailure, StillRunning, CheckCompletion,
         MessageStep, ListPods, FindMessage, AckHandled, Retire, AckRetired, DeletePod,
         FindStale, ListOwners, ClaimStale, AckFinished, RetireStale, AckStale, DeleteStale,
         FlushSteps
  <2> QED
      BY <1>9, <2>1
<1>11. CASE FlushBegins
  <2>1. CASE r' = r
      BY <1>1, <1>7, <1>11, <2>1 DEF FlushBegins
  <2>2. CASE r' = [r EXCEPT !.held = [f \in File |-> Recorded(f)],
                            !.known = {f \in File : dlq[f] # << >>}]
    <3>1. r'.held = [f \in File |-> Recorded(f)] /\ r'.known = Buried
        BY <1>1, <2>2 DEF Registers, Buried
    <3>2. \A f \in r'.known : r'.held[f] > 0
        BY <3>1, RecordedPositive DEF Buried
    <3>3. pc' = "flushClaim"
        BY <1>11 DEF FlushBegins
    <3> QED
        BY <3>2, <3>3 DEF MemoryInv, FlushSteps
  <2> QED
      BY <1>11, <2>1, <2>2 DEF FlushBegins
<1>12. CASE FlushClaim
  <2>1. r'.held = r.held /\ r'.known = r.known /\ pc' \in {"flushRest", "flushAck"}
      BY <1>1, <1>12 DEF FlushClaim, Registers
  <2> QED
      BY <1>7, <2>1
<1>13. CASE FlushAck
  <2>1. PICK m : m = Least(r.batch)
      OBVIOUS
  <2>2. r'.held = Remember(r.held, {m}) /\ r'.known = r.known /\ r'.msg = m /\ pc' = "flushDel"
      BY <1>1, <1>13, <2>1 DEF FlushAck, Registers
  <2>3. m \in DOMAIN q.log
      BY <1>13, <2>1, LeastOfBatch DEF FlushAck, HasBatch, TypeInv, PassMarks
  <2>4. /\ \A f \in File : r.held[f] <= r'.held[f]
        /\ q.log[m].attempts <= r'.held[q.log[m].file]
      BY <1>1, <2>2, <2>3, RememberGrows
  <2>5. /\ q'.log[m].file = q.log[m].file /\ q'.log[m].attempts = q.log[m].attempts
        /\ q.log[m].file \in File /\ q.log[m].attempts \in Nat
      BY <2>3, Started, EntryFields DEF Effects, Extends
  <2>6. r'.held \in [File -> Nat]
      BY <1>1 DEF Registers
  <2>7. Noted(m)'
      BY <2>4, <2>5, <2>6 DEF Noted
  <2>8. \A f \in r'.known : r'.held[f] > 0
      BY <1>1, <2>2, <2>4, <2>6
  <2> QED
      BY <2>2, <2>7, <2>8 DEF MemoryInv, FlushSteps, Noted
<1>14. CASE FlushDel
  <2>1. r'.held = r.held /\ r'.known = r.known /\ pc' \in {"flushClaim", "flushAck"}
      BY <1>1, <1>14 DEF FlushDel, Registers
  <2> QED
      BY <1>7, <2>1
<1>15. CASE FlushRest
  <2>1. CASE FlushEnds
      BY <1>3, <1>4, <2>1 DEF FlushEnds
  <2>2. CASE pc' = "flushWrite" /\ r' = r
      BY <1>7, <2>2
  <2>3. CASE /\ r' = [r EXCEPT !.held = Remember(@, Present(q)), !.batch = Present(q)]
             /\ pc' = "flushDelRest"
    <3>1. /\ r'.held = Remember(r.held, Present(q)) /\ r'.batch = Present(q)
          /\ r'.known = r.known
        BY <1>1, <2>3 DEF Registers
    <3>2. Present(q) \in SUBSET DOMAIN q.log
        BY DEF Present
    <3>3. /\ \A f \in File : r.held[f] <= r'.held[f]
          /\ \A i \in Present(q) : q.log[i].attempts <= r'.held[q.log[i].file]
        BY <1>1, <3>1, <3>2, RememberGrows
    <3>4. r'.held \in [File -> Nat]
        BY <1>1 DEF Registers
    <3>5. q' = q /\ \A i \in DOMAIN q.log : q.log[i].file \in File /\ q.log[i].attempts \in Nat
        BY <1>15, Started, EntryFields DEF FlushRest
    <3>6. \A i \in r'.batch : Noted(i)'
        BY <3>1, <3>2, <3>3, <3>4, <3>5 DEF Noted
    <3>7. \A f \in r'.known : r'.held[f] > 0
        BY <1>1, <3>1, <3>3, <3>4
    <3> QED
        BY <2>3, <3>6, <3>7 DEF MemoryInv, FlushSteps
  <2> QED
      BY <1>15, <2>1, <2>2, <2>3 DEF FlushRest
<1>16. CASE FlushDelRest
  <2>1. r'.held = r.held /\ r'.known = r.known /\ pc' \in {"flushRest", "flushWrite"}
      BY <1>1, <1>16 DEF FlushDelRest, Registers
  <2> QED
      BY <1>7, <2>1
<1>17. CASE FlushDone
    BY <1>3, <1>4, <1>17 DEF FlushDone, FlushEnds
<1>18. CASE FlushReplace
  <2>1. PICK f \in r.known :
          \/ r' = [r EXCEPT !.known = @ \ {f}, !.files = {f}] /\ pc' = "flushAdd"
          \/ r' = [r EXCEPT !.known = @ \ {f}, !.held[f] = 0] /\ pc' = "flushWrite"
      BY <1>18 DEF FlushReplace
  <2>2. CASE r' = [r EXCEPT !.known = @ \ {f}, !.files = {f}] /\ pc' = "flushAdd"
    <3>1. r'.held = r.held /\ r'.known = r.known \ {f} /\ r'.files = {f}
        BY <1>1, <2>2 DEF Registers
    <3> QED
        BY <1>1, <2>2, <3>1 DEF MemoryInv, FlushSteps
  <2>3. CASE r' = [r EXCEPT !.known = @ \ {f}, !.held[f] = 0] /\ pc' = "flushWrite"
    <3>1. r'.held = [r.held EXCEPT ![f] = 0] /\ r'.known = r.known \ {f}
        BY <1>1, <2>3 DEF Registers
    <3>2. \A g \in r'.known : r'.held[g] = r.held[g]
        BY <1>1, <3>1
    <3> QED
        BY <1>1, <2>3, <3>1, <3>2 DEF MemoryInv, FlushSteps
  <2> QED
      BY <2>1, <2>2, <2>3
<1>19. CASE FlushAdd
  <2>1. PICK f \in IF pc = "flushAdd" THEN r.files
                   ELSE {f \in File \ r.known : r.held[f] > 0} :
            r' = [r EXCEPT !.held[f] = 0, !.files = {}] /\ pc' = "flushWrite"
      BY <1>19 DEF FlushAdd
  <2>2. r'.held = [r.held EXCEPT ![f] = 0] /\ r'.known = r.known /\ f \notin r.known
      BY <1>1, <2>1 DEF Registers
  <2>3. \A g \in r'.known : r'.held[g] = r.held[g]
      BY <1>1, <2>2
  <2> QED
      BY <1>1, <2>1, <2>2, <2>3 DEF MemoryInv, FlushSteps
<1>20. CASE UNCHANGED vars
    BY <1>5, <1>20 DEF vars
<1> QED
    BY <1>6, <1>8, <1>10, <1>11, <1>12, <1>13, <1>14, <1>15, <1>16, <1>17, <1>18, <1>19, <1>20
    DEF Next, FlushStep

\* What is left of a file after a step: each of its holds stays or is replaced.
LEMMA HoldsStay ==
    ASSUME TypeInv, Effects, NEW f \in File, HeldOn(f),
           r.held[f] > 0 => HeldOn(f)',
           f \in Buried => HeldOn(f)',
           \A i \in Live : q.log[i].file = f /\ q.log[i].attempts > 0 => i \in Live' \/ HeldOn(f)'
    PROVE  HeldOn(f)'
<1>1. /\ Live \subseteq DOMAIN q.log /\ processed \subseteq processed'
      /\ \A i \in DOMAIN q.log :
           q'.log[i].file = q.log[i].file /\ q'.log[i].attempts = q.log[i].attempts
    BY Started DEF Effects, Extends
<1> QED
    BY <1>1 DEF HeldOn

\* Outside a flush a file that has been retried keeps a message that was, or is
\* accounted for: a message goes when it is settled.
LEMMA PassHolds ==
    ASSUME TypeInv, LedgerInv, MemoryInv, FileMove, Effects, pc \notin FlushSteps,
           NEW f \in File, HeldOn(f)
    PROVE  HeldOn(f)'
<1>1. /\ Live \subseteq DOMAIN q.log /\ processed \subseteq processed'
      /\ \A i \in DOMAIN q.log :
           q'.log[i].file = q.log[i].file /\ q'.log[i].attempts = q.log[i].attempts
      /\ \A i \in DOMAIN q.log : q.log[i].file \in File
      /\ dlq \in [File -> Seq(Nat)]
    BY Started, PassTypes DEF Effects, Extends
<1>2. ~ (r.held[f] > 0)
    BY DEF MemoryInv
<1>3. q' = q => Live' = Live
    BY DEF Live, Undelivered, Pending, Present
<1>4. Buried \subseteq Buried' => (f \in Buried => HeldOn(f)')
    BY DEF HeldOn
<1>5. Live \subseteq Live' /\ Buried \subseteq Buried' => HeldOn(f)'
    BY <1>2, <1>4, HoldsStay
<1>6. ASSUME NEW m \in DOMAIN q.log, Settled(m), Live \ {m} \subseteq Live', dlq' = dlq
      PROVE  HeldOn(f)'
  <2>1. Buried' = Buried
      BY <1>6 DEF Buried
  <2>2. m \in Live /\ q.log[m].file = f => HeldOn(f)'
      BY <1>1, <1>6, <2>1 DEF Settled, HeldOn
  <2> QED
      BY <1>2, <1>4, <1>6, <2>1, <2>2, HoldsStay
<1>7. CASE UNCHANGED <<q, dlq>>
    BY <1>3, <1>5, <1>7 DEF Buried
<1>8. ASSUME \/ \E p \in Pod : Undelivered(q) # {} /\ q' = XReadGroup(q, p)
             \/ q' = XClaim(q, r.batch, Reclaimer),
             dlq' = dlq
      PROVE  HeldOn(f)'
    BY <1>5, <1>8, LiveCommands DEF Buried
<1>9. ASSUME NEW m \in DOMAIN q.log, Closes(m), q' = XAck(q, m), dlq' = dlq
      PROVE  HeldOn(f)'
  <2>1. Settled(m)
      BY <1>9 DEF Closes, Settled, LedgerInv, HandleInv, WorkInv
  <2> QED
      BY <1>6, <1>9, <2>1, LiveCommands
<1>10. ASSUME pc = "reclaimDel", q' = XDel(q, {r.msg}), dlq' = dlq
       PROVE  HeldOn(f)'
  <2>1. Settled(r.msg) /\ r.msg \in DOMAIN q.log /\ Live' = Live \ {r.msg}
      BY <1>10, LiveCommands DEF LedgerInv, HandleInv, TypeInv, PassMarks, HandlesMessage
  <2> QED
      BY <1>6, <1>10, <2>1
<1>11. ASSUME NEW g \in File, NEW n \in Nat, q' = XAdd(q, g, n), dlq' = dlq
       PROVE  HeldOn(f)'
    BY <1>5, <1>11, AddedFile DEF Buried
<1>12. ASSUME NEW m \in DOMAIN q.log, NEW n \in Nat, q' = q,
              dlq' = [dlq EXCEPT ![q.log[m].file] = Append(@, n)]
       PROVE  HeldOn(f)'
  <2>1. PICK g \in File : g = q.log[m].file
      BY <1>1
  <2>2. dlq' = [dlq EXCEPT ![g] = Append(@, n)]
      BY <1>12, <2>1
  <2>3. dlq'[g] # << >> /\ \A h \in File \ {g} : dlq'[h] = dlq[h]
    <3>1. dlq \in [File -> Seq(Nat)]
        BY <1>1
    <3>2. dlq'[g] = Append(dlq[g], n) /\ dlq[g] \in Seq(Nat)
        BY <2>2, <3>1
    <3>3. \A h \in File \ {g} : dlq'[h] = dlq[h]
        BY <2>2, <3>1
    <3>4. Append(dlq[g], n) # << >>
        BY <3>2
    <3> QED
        BY <3>2, <3>3, <3>4
  <2>4. Buried \subseteq Buried'
      BY <2>3 DEF Buried
  <2> QED
      BY <1>3, <1>5, <1>12, <2>4
<1> QED
    BY <1>1, <1>7, <1>8, <1>9, <1>10, <1>11, <1>12 DEF FileMove

\* An undisturbed flush remembers the files that have been retried from before
\* it takes their messages out of the stream until their records are written.
LEMMA FlushHolds ==
    ASSUME TypeInv, MemoryInv, Effects, FlushStep, Retained', NEW f \in File, HeldOn(f)
    PROVE  HeldOn(f)'
<1> USE DEF GoTo
<1>1. /\ r \in Registers /\ r.held \in [File -> Nat] /\ r.known \subseteq File
      /\ dlq \in [File -> Seq(Nat)] /\ pc \in FlushSteps
      /\ \A i \in DOMAIN q.log : q.log[i].file \in File /\ q.log[i].attempts \in Nat
      /\ Live \subseteq DOMAIN q.log
    BY Started, PassTypes, EntryFields
    DEF Registers, FlushStep, FlushBegins, FlushClaim, FlushAck, FlushDel, FlushRest,
        FlushDelRest, FlushDone, FlushReplace, FlushAdd, FlushSteps
<1>2. \A out \in Writes \cup Reads : Charge(out) => out = "ok"
    BY <1>1, FlushUndisturbed DEF Next
<1>3. q' = q => Live' = Live
    BY DEF Live, Undelivered, Pending, Present
<1>4. r'.held[f] > 0 => HeldOn(f)'
    BY DEF HeldOn
<1>5. dlq' = dlq => (f \in Buried => HeldOn(f)')
    BY DEF HeldOn, Buried
<1>6. ASSUME r.held[f] > 0 => r'.held[f] > 0, dlq' = dlq, Live' = Live
      PROVE  HeldOn(f)'
    BY <1>4, <1>5, <1>6, HoldsStay
<1>7. CASE FlushBegins
    BY <1>3, <1>6, <1>7 DEF FlushBegins, MemoryInv
<1>8. CASE FlushClaim
  <2>1. r'.held = r.held
      BY <1>1, <1>8 DEF FlushClaim, Registers
  <2>2. Live' = Live /\ dlq' = dlq
      BY <1>3, <1>8, LiveCommands DEF FlushClaim, Takes
  <2> QED
      BY <1>6, <2>1, <2>2
<1>9. CASE FlushAck
  <2>1. PICK m : m = Least(r.batch)
      OBVIOUS
  <2>2. r'.held = Remember(r.held, {m}) /\ q' = Takes("ok", XAck(q, m), q) /\ dlq' = dlq
      BY <1>1, <1>2, <1>9, <2>1 DEF FlushAck, Registers
  <2>3. m \in DOMAIN q.log
      BY <1>9, <2>1, LeastOfBatch DEF FlushAck, HasBatch, TypeInv, PassMarks
  <2>4. /\ r.held[f] <= r'.held[f] /\ r'.held \in [File -> Nat]
        /\ q.log[m].attempts <= r'.held[q.log[m].file]
      BY <1>1, <2>2, <2>3, RememberGrows
  <2>5. Live \ {m} \subseteq Live'
      BY <2>2, <2>3, LiveCommands DEF Takes
  <2>6. q.log[m].file = f /\ q.log[m].attempts > 0 => HeldOn(f)'
      BY <1>1, <1>4, <2>3, <2>4
  <2>7. r.held[f] > 0 => HeldOn(f)'
      BY <1>1, <1>4, <2>4
  <2> QED
      BY <1>5, <2>2, <2>5, <2>6, <2>7, HoldsStay
<1>10. ASSUME NEW ids \in SUBSET DOMAIN q.log, \A i \in ids : Noted(i),
              q' = XDel(q, ids), dlq' = dlq, r'.held = r.held
       PROVE  HeldOn(f)'
  <2>1. Live' = Live \ ids
      BY <1>10, LiveCommands
  <2>2. \A i \in ids : q.log[i].file = f /\ q.log[i].attempts > 0 => HeldOn(f)'
      BY <1>4, <1>10 DEF Noted
  <2> QED
      BY <1>4, <1>5, <1>10, <2>1, <2>2, HoldsStay
<1>11. CASE FlushDel
  <2>1. r'.held = r.held /\ q' = XDel(q, {r.msg}) /\ dlq' = dlq
      BY <1>1, <1>2, <1>11 DEF FlushDel, Registers, Takes
  <2>2. {r.msg} \in SUBSET DOMAIN q.log /\ Noted(r.msg)
      BY <1>11 DEF FlushDel, TypeInv, PassMarks, HandlesMessage, MemoryInv
  <2> QED
      BY <1>10, <2>1, <2>2
<1>12. CASE FlushRest
  <2>1. r' = r \/ r' = [r EXCEPT !.held = Remember(@, Present(q)), !.batch = Present(q)]
      BY <1>2, <1>12 DEF FlushRest
  <2>2. Present(q) \in SUBSET DOMAIN q.log
      BY DEF Present
  <2>3. r'.held = r.held \/ r'.held = Remember(r.held, Present(q))
      BY <1>1, <2>1 DEF Registers
  <2>4. /\ r.held[f] <= Remember(r.held, Present(q))[f]
        /\ Remember(r.held, Present(q)) \in [File -> Nat]
      BY <1>1, <2>2, RememberGrows
  <2>5. r.held[f] > 0 => r'.held[f] > 0
      BY <1>1, <2>3, <2>4
  <2> QED
      BY <1>3, <1>6, <1>12, <2>5 DEF FlushRest
<1>13. CASE FlushDelRest
  <2>1. r'.held = r.held /\ q' = XDel(q, r.batch) /\ dlq' = dlq
      BY <1>1, <1>2, <1>13 DEF FlushDelRest, Registers, Takes
  <2>2. r.batch \in SUBSET DOMAIN q.log /\ \A i \in r.batch : Noted(i)
      BY <1>13 DEF FlushDelRest, TypeInv, PassMarks, MemoryInv
  <2> QED
      BY <1>10, <2>1, <2>2
<1>14. CASE FlushDone
    BY <1>3, <1>6, <1>14 DEF FlushDone
<1>15. CASE FlushReplace
  <2>1. PICK g \in r.known : /\ dlq' = [dlq EXCEPT ![g] = << >>]
                             /\ r' = [r EXCEPT !.known = @ \ {g}, !.files = {g}]
      BY <1>2, <1>15 DEF FlushReplace, Takes
  <2>2. r'.held = r.held /\ q' = q
      BY <1>1, <1>15, <2>1 DEF FlushReplace, Registers
  <2>3. r.held[g] > 0 /\ g \in File
      BY <1>1, <2>1 DEF MemoryInv
  <2>4. f # g => dlq'[f] = dlq[f]
      BY <1>1, <2>1, <2>3
  <2>5. f \in Buried => HeldOn(f)'
      BY <1>4, <2>2, <2>3, <2>4 DEF HeldOn, Buried
  <2> QED
      BY <1>3, <1>4, <2>2, <2>5, HoldsStay
<1>16. CASE FlushAdd
  <2>1. PICK g \in IF pc = "flushAdd" THEN r.files
                   ELSE {h \in File \ r.known : r.held[h] > 0}, n \in Nat :
            /\ dlq' = [dlq EXCEPT ![g] = Append(@, n)]
            /\ r' = [r EXCEPT !.held[g] = 0, !.files = {}]
    <3>1. PICK g \in IF pc = "flushAdd" THEN r.files
                     ELSE {h \in File \ r.known : r.held[h] > 0} :
            LET n == IF r.held[g] < MaxAttempts THEN MaxAttempts ELSE r.held[g]
            IN  /\ dlq' = [dlq EXCEPT ![g] = Append(@, n)]
                /\ r' = [r EXCEPT !.held[g] = 0, !.files = {}]
        BY <1>2, <1>16 DEF FlushAdd, Takes
    <3>2. g \in File
        BY <1>1, <3>1 DEF Registers
    <3>3. r.held[g] \in Nat /\ MaxAttempts \in Nat
        BY <1>1, <3>2, ConstantsAssumption
    <3> QED
        BY <3>1, <3>3
  <2>2. g \in File
      BY <1>1, <2>1 DEF Registers
  <2>3. r'.held = [r.held EXCEPT ![g] = 0] /\ q' = q
      BY <1>1, <1>16, <2>1 DEF FlushAdd, Registers
  <2>4. dlq'[g] # << >> /\ \A h \in File \ {g} : dlq'[h] = dlq[h]
    <3>1. dlq \in [File -> Seq(Nat)] /\ dlq' = [dlq EXCEPT ![g] = Append(@, n)]
        BY <1>1, <2>1
    <3>2. dlq'[g] = Append(dlq[g], n) /\ dlq[g] \in Seq(Nat)
        BY <2>2, <3>1
    <3>3. \A h \in File \ {g} : dlq'[h] = dlq[h]
        BY <2>2, <3>1
    <3>4. Append(dlq[g], n) # << >>
        BY <3>2
    <3> QED
        BY <3>2, <3>3, <3>4
  <2>5. Buried \subseteq Buried' /\ g \in Buried'
      BY <2>2, <2>4 DEF Buried
  <2>6. f \in Buried \/ r.held[f] > 0 => HeldOn(f)'
      BY <1>1, <1>4, <2>3, <2>5 DEF HeldOn
  <2> QED
      BY <1>3, <2>3, <2>6, HoldsStay
<1> QED
    BY <1>7, <1>8, <1>9, <1>11, <1>12, <1>13, <1>14, <1>15, <1>16 DEF FlushStep

\* A message that has just been added is live.
LEMMA AddedLives ==
    ASSUME TypeInv, FileMove
    PROVE  DOMAIN q'.log \ DOMAIN q.log \subseteq Live'
<1>1. /\ GoodStream(q, Consumers) /\ \A i \in DOMAIN q.log : q.log[i].file \in File
      /\ Reclaimer \in Consumers /\ Flusher \in Consumers /\ Pod \subseteq Consumers
    BY Started
<1>2. ASSUME NEW f \in File, NEW n \in Nat, q' = XAdd(q, f, n)
      PROVE  DOMAIN q'.log \ DOMAIN q.log \subseteq Live'
    BY <1>2, AddedFile
<1>3. GoodStream(q', Consumers) /\ Len(q'.log) = Len(q.log) => DOMAIN q'.log = DOMAIN q.log
    BY <1>1, Positions
<1>4. \A p \in Pod : Undelivered(q) # {} /\ q' = XReadGroup(q, p) => DOMAIN q'.log = DOMAIN q.log
  <2> SUFFICES ASSUME NEW p \in Pod, Undelivered(q) # {}, q' = XReadGroup(q, p)
               PROVE  DOMAIN q'.log = DOMAIN q.log
      OBVIOUS
  <2>1. p \in Consumers
      BY <1>1
  <2> QED
      BY <1>1, <1>3, <2>1, XReadGroupDelivers
<1>5. \A m \in DOMAIN q.log : q' = XAck(q, m) => DOMAIN q'.log = DOMAIN q.log
    BY <1>1, <1>3, XAckReleases
<1>6. \A ids : q' = XDel(q, ids) => DOMAIN q'.log = DOMAIN q.log
    BY <1>1, <1>3, XDelMarks
<1>7. \A ids : q' = XClaim(q, ids, Reclaimer) \/ q' = XClaim(q, ids, Flusher)
                 => DOMAIN q'.log = DOMAIN q.log
    BY <1>1, <1>3, XClaimMoves
<1>8. \/ q' = q
      \/ \E f \in File : q' = XAdd(q, f, 0)
      \/ \E m \in DOMAIN q.log, n \in Nat : q' = XAdd(q, q.log[m].file, n)
      \/ \E p \in Pod : Undelivered(q) # {} /\ q' = XReadGroup(q, p)
      \/ \E m \in DOMAIN q.log : q' = XAck(q, m)
      \/ \E ids : q' = XDel(q, ids)
      \/ \E ids : q' = XClaim(q, ids, Reclaimer) \/ q' = XClaim(q, ids, Flusher)
    BY DEF FileMove
<1>9. (\E f \in File : q' = XAdd(q, f, 0)) => DOMAIN q'.log \ DOMAIN q.log \subseteq Live'
    BY <1>2
<1>10. (\E m \in DOMAIN q.log, n \in Nat : q' = XAdd(q, q.log[m].file, n))
         => DOMAIN q'.log \ DOMAIN q.log \subseteq Live'
    BY <1>1, <1>2
<1> QED
    BY <1>4, <1>5, <1>6, <1>7, <1>8, <1>9, <1>10

\* While no flush is disturbed, what has been retried stays kept.
LEMMA KeptStep ==
    ASSUME TypeInv, LedgerInv, MemoryInv, KeptInv, FileMove, Effects, [Next]_vars
    PROVE  KeptInv'
<1>1. SUFFICES ASSUME Retained' PROVE RetriedKept'
    BY DEF KeptInv
<1>2. RetriedKept
    BY <1>1, FlushUndisturbed DEF KeptInv
<1>3. /\ Live \subseteq DOMAIN q.log /\ \A i \in DOMAIN q.log : q.log[i].file \in File
      /\ \A i \in DOMAIN q.log :
           q'.log[i].file = q.log[i].file /\ q'.log[i].attempts = q.log[i].attempts
    BY Started DEF Effects, Extends
<1>4. ASSUME NEW f \in File, HeldOn(f), pc \in FlushSteps PROVE HeldOn(f)'
  <2>1. CASE FlushStep
      BY <1>1, <1>4, <2>1, FlushHolds
  <2>2. CASE ClusterStep
    <3>1. UNCHANGED <<dlq, r>>
        BY <2>2 DEF ClusterStep, PodStep, JobStep, StartPod, TerminatePod, Claim,
           ClaimReplyLost, Start, Succeed, Fail, Crash, Stick, Recover, Evict, Becomes,
           JobCompletes, JobGivesUp, JobFails, JobExpires, JobBecomes, Reconciler
    <3>2. \/ q' = q
          \/ \E p \in Pod : Undelivered(q) # {} /\ q' = XReadGroup(q, p)
        BY <2>2 DEF ClusterStep, PodStep, JobStep, StartPod, TerminatePod, Claim,
           ClaimReplyLost, Start, Succeed, Fail, Crash, Stick, Recover, Evict, Becomes,
           JobCompletes, JobGivesUp, JobFails, JobExpires, JobBecomes
    <3>3. q' = q => Live' = Live
        BY DEF Live, Undelivered, Pending, Present
    <3>4. Live' = Live /\ Buried' = Buried
        BY <3>1, <3>2, <3>3, LiveCommands DEF Buried
    <3> QED
        BY <1>4, <3>1, <3>4, HoldsStay DEF HeldOn
  <2>3. CASE ReconcileStep \/ MessageStep
    <3>1. Restart
        BY <1>4, <2>3 DEF ReconcileStep, Begin, Save, SaveStart, Inspect, List, Enqueue,
           Recount, FindJob, CreateJob, ReadLag, ReadPending, CheckFailure, StillRunning,
           CheckCompletion, MessageStep, ListPods, FindMessage, AckHandled, Retire,
           AckRetired, DeletePod, FindStale, ListOwners, ClaimStale, AckFinished,
           RetireStale, AckStale, DeleteStale, FlushSteps
    <3> QED
        BY <1>1, <1>4, <3>1, FlushUndisturbed
  <2>4. CASE UNCHANGED vars
    <3>1. Live' = Live /\ Buried' = Buried /\ UNCHANGED r
        BY <2>4 DEF vars, Live, Undelivered, Pending, Present, Buried
    <3> QED
        BY <1>4, <3>1, HoldsStay DEF HeldOn
  <2> QED
      BY <2>1, <2>2, <2>3, <2>4 DEF Next
<1>5. ASSUME NEW f \in File, HeldOn(f) PROVE HeldOn(f)'
    BY <1>4, <1>5, PassHolds
<1>6. ASSUME NEW i \in DOMAIN q'.log, q'.log[i].attempts > 0
      PROVE  HeldOn(q.log[i].file)'
  <2>1. CASE i \in DOMAIN q.log
    <3>1. PICK f \in File : f = q.log[i].file
        BY <1>3, <2>1
    <3>2. HeldOn(f)'
        BY <1>2, <1>3, <1>5, <1>6, <2>1, <3>1 DEF RetriedKept
    <3>3. q'.log[i].file = f
        BY <1>3, <2>1, <3>1
    <3> QED
        BY <3>2, <3>3 DEF HeldOn
  <2>2. CASE i \notin DOMAIN q.log
      BY <1>6, <2>2, AddedLives DEF HeldOn
  <2> QED
      BY <2>1, <2>2
<1> QED
    BY <1>6 DEF RetriedKept

\* A file that initialization put in the stream is lost by a flush or not at
\* all: whatever calls fail and wherever the reconciler restarts, it has a live
\* message, a dead letter record, a pod that has processed it or a place in the
\* memory of the flush, unless a flush has begun and either the file has never
\* been retried or a call of the flush may have failed (handleFailedPodMessage,
\* runReclaimer, flushOutstandingWork).
THEOREM FilesAreNotLost ==
    ASSUME "claim" \notin Faults
    PROVE  Spec => []NoFileLost
<1> DEFINE Inv == /\ TypeInv /\ AttemptsBounded /\ LedgerInv /\ MemoryInv /\ KeptInv
<1>1. Init => MemoryInv /\ KeptInv /\ Ledger!Accounted
  <2>1. ASSUME Init
        PROVE  /\ pc = "idle" /\ r = Blank /\ admitted = {} /\ DOMAIN q.log = {}
      BY <2>1 DEF Init, EmptyStream
  <2> QED
      BY <2>1 DEF MemoryInv, KeptInv, RetriedKept, Ledger!Accounted, Blank, FlushSteps
<1>2. ASSUME Inv, [Next]_vars, TypeInv' PROVE MemoryInv' /\ KeptInv'
  <2>1. FileMove /\ Effects
      BY <1>2, FileMoves, FileEffects
  <2> QED
      BY <1>2, <2>1, MemoryStep, KeptStep
<1>3. Inv /\ [Next]_vars => [Ledger!LedgerNext]_(Ledger!ledger)
    BY LedgerStep
<1>4. Ledger!Accounted /\ [Ledger!LedgerNext]_(Ledger!ledger) => Ledger!Accounted'
    BY DEF Ledger!Accounted, Ledger!LedgerNext, Ledger!ledger, Ledger!Admit, Ledger!Process,
       Ledger!Bury, Ledger!Release, Ledger!Flush
<1>5. Inv /\ Ledger!Accounted => NoFileLost
  <2> SUFFICES ASSUME Inv, Ledger!Accounted, NEW f \in admitted
               PROVE  \/ Safe(f)
                      \/ r.held[f] > 0
                      \/ flushed /\ (~ Retried(f) \/ ("flush" \in Faults /\ faults > 0))
      BY DEF NoFileLost
  <2>1. CASE ~ flushed
      BY <2>1 DEF Ledger!Accounted, Safe
  <2>2. CASE Retried(f) /\ Retained
      BY <2>2 DEF Retried, KeptInv, RetriedKept, HeldOn, Safe, Buried
  <2>3. CASE flushed /\ ~ Retained
    <3>1. faults \in Nat /\ faults # 0 /\ "flush" \in Faults
        BY <2>3 DEF Retained, TypeInv
    <3> QED
        BY <2>3, <3>1
  <2> QED
      BY <2>1, <2>2, <2>3
<1>6. Init => Inv
  <2>1. Init => /\ q = EmptyStream /\ \A f \in File : dlq[f] = << >>
      BY DEF Init
  <2>2. Init => DOMAIN q.log = {} /\ \A f \in File : DOMAIN dlq[f] = {}
      BY <2>1 DEF EmptyStream
  <2> QED
      BY <1>1, <2>2, LedgerStarts DEF AttemptsBounded
<1>7. Inv /\ [Next]_vars => Inv'
  <2>1. TypeInv /\ AttemptsBounded /\ [Next]_vars => TypeInv' /\ AttemptsBounded'
      BY AttemptsStep DEF AttemptsInv
  <2> QED
      BY <1>2, <2>1, LedgerStep
<1>8. Inv /\ Ledger!Accounted /\ [Next]_vars => Inv' /\ Ledger!Accounted'
    BY <1>3, <1>4, <1>7
<1> QED
    BY <1>1, <1>5, <1>6, <1>8, PTL DEF Spec
=============================================================================
