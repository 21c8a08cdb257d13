---------------------------- MODULE LedgerMoves ----------------------------
(***************************************************************************)
(* What a step of BatchRun may do to the messages that are live, to the    *)
(* dead letters, to the memory of a flush and to the work of the pods.     *)
(* The proof that a run keeps the promise of FileLedger rests on these     *)
(* moves and does not look at the actions again, but for those that have a *)
(* message in hand.                                                        *)
(***************************************************************************)
EXTENDS BatchSafetyProofs

\* The messages that will still be dealt with (Live, of any stream).
LiveOf(s) == Undelivered(s) \cup (Pending(s) \cap Present(s))

\* A message is live while it is there and is undelivered or pending.
LEMMA LiveIs ==
    ASSUME NEW C, NEW s, GoodStream(s, C)
    PROVE  /\ LiveOf(s) \subseteq DOMAIN s.log
           /\ \A i \in DOMAIN s.log : i \in LiveOf(s) <=>
                /\ ~ s.log[i].deleted
                /\ i > s.delivered \/ s.log[i].owner # NoOne
    BY DEF LiveOf, Undelivered, Pending, Present

\* XADD: the new message is live, and no other becomes or ceases to be.
LEMMA XAddLive ==
    ASSUME NEW C, NEW s, GoodStream(s, C), NEW f \in File, NEW n \in Nat
    PROVE  LiveOf(XAdd(s, f, n)) = LiveOf(s) \cup {Len(s.log) + 1}
<1> DEFINE t == XAdd(s, f, n)
           new == Len(s.log) + 1
<1>1. /\ GoodStream(t, C) /\ Len(t.log) = Len(s.log) + 1 /\ t.delivered = s.delivered
      /\ \A i \in 1 .. Len(s.log) : t.log[i] = s.log[i]
      /\ t.log[new] = [file |-> f, attempts |-> n, owner |-> NoOne, deleted |-> FALSE]
    BY XAddAppends
<1>2. ~ t.log[new].deleted
    BY <1>1
<1> HIDE DEF t
<1>3. /\ Len(s.log) \in Nat /\ DOMAIN s.log = 1 .. Len(s.log) /\ s.delivered \in 0 .. Len(s.log)
      /\ DOMAIN t.log = 1 .. new
    BY <1>1, Positions
<1>4. new \in LiveOf(t)
    BY <1>1, <1>2, <1>3, LiveIs
<1>5. \A i \in DOMAIN s.log : i \in LiveOf(t) <=> i \in LiveOf(s)
    BY <1>1, <1>3, LiveIs
<1>6. LiveOf(t) \subseteq 1 .. new /\ LiveOf(s) \subseteq 1 .. Len(s.log)
    BY <1>1, <1>3, LiveIs
<1> QED
    BY <1>3, <1>4, <1>5, <1>6 DEF t

\* XREADGROUP: the delivered message goes on living, as a pending one.
LEMMA XReadGroupLive ==
    ASSUME NEW C, NEW s, GoodStream(s, C), NEW c \in C \ {NoOne}, Undelivered(s) # {}
    PROVE  LiveOf(XReadGroup(s, c)) = LiveOf(s)
<1> DEFINE t == XReadGroup(s, c)
           m == Least(Undelivered(s))
<1>1. /\ GoodStream(t, C) /\ Len(t.log) = Len(s.log)
      /\ m \in Undelivered(s) /\ \A j \in Undelivered(s) : m <= j
      /\ t.delivered = m /\ t.log[m].owner = c /\ t.log[m].deleted = s.log[m].deleted
      /\ \A i \in DOMAIN s.log : i # m => t.log[i] = s.log[i]
    BY XReadGroupDelivers
<1> HIDE DEF t, m
<1>2. /\ Len(s.log) \in Nat /\ DOMAIN s.log = 1 .. Len(s.log) /\ s.delivered \in 0 .. Len(s.log)
      /\ DOMAIN t.log = DOMAIN s.log
    BY <1>1, Positions
<1>3. /\ m \in DOMAIN s.log /\ ~ s.log[m].deleted /\ s.delivered < m
      /\ \A i \in DOMAIN s.log : ~ s.log[i].deleted /\ s.delivered < i => m <= i
    BY <1>1 DEF Undelivered, Present
<1>4. m \in LiveOf(t) /\ m \in LiveOf(s)
    BY <1>1, <1>2, <1>3, LiveIs
<1>5. ASSUME NEW i \in DOMAIN s.log, i # m
      PROVE  i \in LiveOf(t) <=> i \in LiveOf(s)
  <2>1. t.log[i] = s.log[i]
      BY <1>1, <1>5
  <2>2. ~ s.log[i].deleted => (i > m <=> i > s.delivered)
      BY <1>2, <1>3, <1>5
  <2> QED
      BY <1>1, <1>2, <2>1, <2>2, LiveIs
<1> QED
    BY <1>1, <1>2, <1>4, <1>5, LiveIs DEF t

\* XACK: at most the acknowledged message ceases to be live.
LEMMA XAckLive ==
    ASSUME NEW C, NEW s, GoodStream(s, C), NEW m \in DOMAIN s.log
    PROVE  LiveOf(s) \ {m} \subseteq LiveOf(XAck(s, m)) /\ LiveOf(XAck(s, m)) \subseteq LiveOf(s)
<1> DEFINE t == XAck(s, m)
<1>1. /\ GoodStream(t, C) /\ Len(t.log) = Len(s.log) /\ t.delivered = s.delivered
      /\ t.log[m].owner = NoOne /\ t.log[m].deleted = s.log[m].deleted
      /\ \A i \in DOMAIN s.log : i # m => t.log[i] = s.log[i]
    BY XAckReleases
<1> HIDE DEF t
<1>2. DOMAIN t.log = DOMAIN s.log
    BY <1>1, Positions
<1> QED
    BY <1>1, <1>2, LiveIs DEF t

\* XDEL: the deleted messages cease to be live.
LEMMA XDelLive ==
    ASSUME NEW C, NEW s, GoodStream(s, C), NEW ids
    PROVE  LiveOf(XDel(s, ids)) = LiveOf(s) \ ids
<1> DEFINE t == XDel(s, ids)
<1>1. /\ GoodStream(t, C) /\ Len(t.log) = Len(s.log) /\ t.delivered = s.delivered
      /\ \A i \in DOMAIN s.log : /\ i \in ids => t.log[i].deleted
                                 /\ i \notin ids => t.log[i] = s.log[i]
    BY XDelMarks
<1> HIDE DEF t
<1>2. DOMAIN t.log = DOMAIN s.log
    BY <1>1, Positions
<1> QED
    BY <1>1, <1>2, LiveIs DEF t

\* XCLAIM: a message that changes hands stays live.
LEMMA XClaimLive ==
    ASSUME NEW C, NEW s, GoodStream(s, C), NEW ids, NEW c \in C \ {NoOne}
    PROVE  LiveOf(XClaim(s, ids, c)) = LiveOf(s)
<1> DEFINE t == XClaim(s, ids, c)
<1>1. /\ GoodStream(t, C) /\ Len(t.log) = Len(s.log) /\ t.delivered = s.delivered
      /\ \A i \in DOMAIN s.log :
           /\ t.log[i].deleted = s.log[i].deleted
           /\ i \in ids \cap Pending(s) => t.log[i].owner = IF s.log[i].deleted THEN NoOne ELSE c
           /\ i \notin ids \cap Pending(s) => t.log[i] = s.log[i]
    BY XClaimMoves
<1> HIDE DEF t
<1>2. DOMAIN t.log = DOMAIN s.log
    BY <1>1, Positions
<1>3. \A i \in DOMAIN s.log : ~ s.log[i].deleted => (t.log[i].owner = NoOne <=> s.log[i].owner = NoOne)
    BY <1>1 DEF Pending
<1> QED
    BY <1>1, <1>2, <1>3, LiveIs DEF t

----------------------------------------------------------------------------
\* A message that the reconciler or the reclaimer is done with.
Closes(m) ==
    \/ pc \in {"ack", "ackRetired", "reclaimAck"} /\ m = r.msg
    \/ pc = "reclaimNext" /\ m \in r.batch /\ m \in r.finished

\* A message whose attempt has failed.
Retires(m) ==
    \/ pc = "retire" /\ m = r.msg
    \/ pc = "reclaimNext" /\ m \in r.batch

\* The files with dead letter records, and those a flush has yet to write.
Buried == {f \in File : dlq[f] # << >>}
Remembered == {f \in File : r.held[f] > 0} \cup (IF pc = "flushAdd" THEN r.files ELSE {})

\* What a step may do to the stream, the dead letters and the history.
FileMove ==
    \/ UNCHANGED <<q, dlq, processed, admitted, flushed>>
    \/ /\ \/ \E p \in Pod :
               /\ pods[p].phase = "claiming" /\ Undelivered(q) # {}
               /\ q' = XReadGroup(q, p)
               /\ "claim" \in Faults \/ pods'[p].work = Least(Undelivered(q))
          \/ \E m \in DOMAIN q.log : Closes(m) /\ q' = XAck(q, m)
          \/ pc = "reclaimDel" /\ q' = XDel(q, {r.msg})
          \/ pc = "xclaim" /\ q' = XClaim(q, r.batch, Reclaimer)
          \/ \E m \in DOMAIN q.log, n \in Nat : Retires(m) /\ q' = XAdd(q, q.log[m].file, n)
       /\ UNCHANGED <<dlq, processed, admitted, flushed>>
    \/ /\ \E m \in DOMAIN q.log, n \in Nat :
            Retires(m) /\ dlq' = [dlq EXCEPT ![q.log[m].file] = Append(@, n)]
       /\ UNCHANGED <<q, processed, admitted, flushed>>
    \/ /\ \E f \in File : q' = XAdd(q, f, 0) /\ admitted' = admitted \cup {f}
       /\ pc = "enqueue" /\ UNCHANGED <<dlq, processed, flushed>>
    \/ /\ \E p \in Pod : pods[p].phase = "running"
                         /\ processed' = processed \cup {q.log[pods[p].work].file}
       /\ UNCHANGED <<q, dlq, admitted, flushed>>
    \/ /\ \/ q' = q
          \/ \E m \in DOMAIN q.log : q' = XAck(q, m)
          \/ \E ids : q' = XDel(q, ids)
          \/ \E ids : q' = XClaim(q, ids, Flusher)
       /\ Buried' \subseteq Buried \cup Remembered
       /\ pc \in FlushSteps /\ flushed' = (pc = "flush" \/ flushed)
       /\ UNCHANGED <<processed, admitted>>

\* The two branches of a failed attempt, a successor or a dead letter record,
\* are among the moves.
LEMMA RetiringMoves ==
    ASSUME TypeInv, NEW out, NEW m \in DOMAIN q.log, Retires(m), RetryOrBury(out, m),
           UNCHANGED <<processed, admitted, flushed>>
    PROVE  FileMove
<1> DEFINE n == q.log[m].attempts + 1
<1>1. n \in Nat
    BY EntryFields DEF TypeInv, StreamOK
<1>2. \/ q' = Takes(out, XAdd(q, q.log[m].file, n), q) /\ UNCHANGED dlq
      \/ dlq' = Takes(out, [dlq EXCEPT ![q.log[m].file] = Append(@, n)], dlq) /\ UNCHANGED q
    BY DEF RetryOrBury
<1> HIDE DEF n
<1>3. CASE q' = Takes(out, XAdd(q, q.log[m].file, n), q) /\ UNCHANGED dlq
  <2>1. CASE q' = q
      BY <1>3, <2>1 DEF FileMove
  <2>2. CASE q' = XAdd(q, q.log[m].file, n)
      BY <1>1, <1>3, <2>2 DEF FileMove
  <2> QED
      BY <1>3, <2>1, <2>2 DEF Takes
<1>4. CASE dlq' = Takes(out, [dlq EXCEPT ![q.log[m].file] = Append(@, n)], dlq) /\ UNCHANGED q
  <2>1. CASE dlq' = dlq
      BY <1>4, <2>1 DEF FileMove
  <2>2. CASE dlq' = [dlq EXCEPT ![q.log[m].file] = Append(@, n)]
      BY <1>1, <1>4, <2>2 DEF FileMove
  <2> QED
      BY <1>4, <2>1, <2>2 DEF Takes
<1> QED
    BY <1>2, <1>3, <1>4

\* Every step of the run is one of the moves.
LEMMA FileMoves ==
    ASSUME TypeInv, [Next]_vars
    PROVE  FileMove
<1>1. dlq \in [File -> Seq(Nat)]
    BY DEF TypeInv, LettersOK
<1>2. UNCHANGED <<q, dlq, processed, admitted, flushed>> => FileMove
    BY DEF FileMove
<1>3. pc \in HandlesMessage => r.msg \in DOMAIN q.log
    BY DEF TypeInv, PassMarks
<1>4. pc \in HasBatch => Least(r.batch) \in DOMAIN q.log /\ Least(r.batch) \in r.batch
  <2>1. pc \in HasBatch => r.batch # {} /\ r.batch \subseteq DOMAIN q.log /\ DOMAIN q.log \subseteq Nat
      BY Positions DEF TypeInv, StreamOK, PassMarks
  <2> QED
      BY <2>1, LeastIsLeast
<1>5. CASE ClusterStep
  <2>1. ASSUME NEW p \in Pod, PodStep(p) PROVE FileMove
    <3>1. CASE Claim(p)
      <4>1. pods'[p].work = Least(Undelivered(q))
          BY <3>1 DEF Claim, TypeInv, ClusterOK, Pods
      <4> QED
          BY <3>1, <4>1 DEF Claim, FileMove, history
    <3>2. CASE ClaimReplyLost(p)
        BY <3>2 DEF ClaimReplyLost, CanFault, FileMove, history, cluster
    <3>3. CASE Succeed(p)
        BY <3>3 DEF Succeed, FileMove, history
    <3>4. CASE \/ StartPod(p) \/ TerminatePod(p) \/ Start(p) \/ Fail(p)
               \/ Crash(p) \/ Stick(p) \/ Recover(p) \/ Evict(p)
        BY <1>2, <3>4 DEF StartPod, TerminatePod, Start, Fail, Crash, Stick,
                          Recover, Evict, Becomes, history
    <3> QED
        BY <2>1, <3>1, <3>2, <3>3, <3>4 DEF PodStep
  <2>2. CASE JobStep
      BY <1>2, <2>2
      DEF JobStep, JobCompletes, JobGivesUp, JobFails, JobExpires, JobBecomes, history
  <2> QED
      BY <1>5, <2>1, <2>2 DEF ClusterStep
<1>6. CASE Enqueue
  <2>1. PICK out \in Writes, f \in r.files : /\ q' = Takes(out, XAdd(q, f, 0), q)
                                            /\ admitted' = Takes(out, admitted \cup {f}, admitted)
      BY <1>6 DEF Enqueue
  <2>2. f \in File /\ pc = "enqueue" /\ UNCHANGED <<dlq, processed, flushed>>
      BY <1>6 DEF Enqueue, cluster, TypeInv, ReconcilerOK, Registers
  <2>3. CASE out = "refused"
      BY <1>2, <2>1, <2>2, <2>3 DEF Takes
  <2>4. CASE out # "refused"
      BY <2>1, <2>2, <2>4 DEF Takes, FileMove
  <2> QED
      BY <2>3, <2>4
<1>7. CASE \/ Begin \/ Save \/ SaveStart \/ Inspect \/ List \/ Recount \/ FindJob
           \/ CreateJob \/ ReadLag \/ ReadPending \/ CheckFailure \/ StillRunning
           \/ CheckCompletion \/ Restart
    BY <1>2, <1>7 DEF Begin, Save, SaveStart, Inspect, List, Recount, FindJob, CreateJob,
       ReadLag, ReadPending, CheckFailure, StillRunning, CheckCompletion, Restart, NoEffect,
       cluster, history
<1>8. CASE ListPods \/ FindMessage \/ DeletePod \/ FindStale \/ ListOwners
    BY <1>2, <1>8 DEF ListPods, FindMessage, DeletePod, FindStale, ListOwners, Frame, history
<1>9. CASE AckHandled \/ AckRetired \/ AckStale
  <2>1. PICK out \in Writes : Acknowledge(out)
      BY <1>9 DEF AckHandled, AckRetired, AckStale
  <2>2. r.msg \in DOMAIN q.log /\ Closes(r.msg) /\ UNCHANGED <<dlq, processed, admitted, flushed>>
      BY <1>3, <1>9, <2>1
      DEF AckHandled, AckRetired, AckStale, Acknowledge, Frame, history, HandlesMessage, Closes
  <2> QED
      BY <2>1, <2>2 DEF Acknowledge, Takes, FileMove
<1>10. CASE Retire
    BY <1>3, <1>10, RetiringMoves DEF Retire, Retires, HandlesMessage, Frame, history
<1>11. CASE RetireStale
    BY <1>4, <1>11, RetiringMoves DEF RetireStale, Retires, HasBatch, Frame, history
<1>12. CASE AckFinished
  <2>1. /\ Closes(Least(r.batch)) /\ Least(r.batch) \in DOMAIN q.log
        /\ UNCHANGED <<dlq, processed, admitted, flushed>>
        /\ q' \in {XAck(q, Least(r.batch)), q}
      BY <1>4, <1>12 DEF AckFinished, Closes, HasBatch, Frame, history, Takes
  <2> QED
      BY <2>1 DEF FileMove
<1>13. CASE ClaimStale \/ DeleteStale
    BY <1>13 DEF ClaimStale, DeleteStale, Takes, Frame, history, FileMove
<1>14. CASE FlushStep
  <2>1. pc \in FlushSteps /\ flushed' = (pc = "flush" \/ flushed)
        /\ UNCHANGED <<processed, admitted>>
      BY <1>14 DEF TypeInv, HistoryOK, FlushStep, FlushBegins, FlushClaim, FlushAck, FlushDel, FlushRest,
         FlushDelRest, FlushDone, FlushReplace, FlushAdd, Outside, FlushSteps, cluster
  <2>2. Buried' \subseteq Buried \cup Remembered
    <3>1. CASE ~ FlushReplace /\ ~ FlushAdd
      <4>1. dlq' = dlq
          BY <1>14, <3>1 DEF FlushStep, FlushBegins, FlushClaim, FlushAck, FlushDel,
             FlushRest, FlushDelRest, FlushDone
      <4> QED
          BY <4>1 DEF Buried
    <3>2. CASE FlushReplace
      <4>1. PICK f : dlq' \in {dlq, [dlq EXCEPT ![f] = << >>]}
          BY <3>2 DEF FlushReplace, Takes
      <4> QED
          BY <1>1, <4>1 DEF Buried
    <3>3. CASE FlushAdd
      <4>1. PICK f \in IF pc = "flushAdd" THEN r.files
                       ELSE {f \in File \ r.known : r.held[f] > 0} :
                \E x : dlq' \in {dlq, [dlq EXCEPT ![f] = x]}
          BY <3>3 DEF FlushAdd, Takes
      <4>2. f \in Remembered
          BY <4>1 DEF Remembered
      <4> QED
          BY <1>1, <4>1, <4>2 DEF Buried
    <3> QED
        BY <3>1, <3>2, <3>3
  <2>3. CASE FlushBegins \/ FlushRest \/ FlushDone \/ FlushReplace \/ FlushAdd
    <3>1. q' = q
        BY <2>3 DEF FlushBegins, FlushRest, FlushDone, FlushReplace, FlushAdd
    <3> QED
        BY <2>1, <2>2, <3>1 DEF FileMove
  <2>4. CASE FlushClaim
      BY <2>1, <2>4, <2>2 DEF FlushClaim, Takes, FileMove
  <2>5. CASE FlushAck
    <3>1. q' \in {XAck(q, Least(r.batch)), q} /\ Least(r.batch) \in DOMAIN q.log
        BY <1>4, <2>5 DEF FlushAck, HasBatch, Takes
    <3> QED
        BY <2>1, <2>2, <3>1 DEF FileMove
  <2>6. CASE FlushDel \/ FlushDelRest
      BY <2>1, <2>6, <2>2 DEF FlushDel, FlushDelRest, Takes, FileMove
  <2> QED
      BY <1>14, <2>3, <2>4, <2>5, <2>6 DEF FlushStep
<1>15. CASE UNCHANGED vars
    BY <1>2, <1>15 DEF vars, history, cluster
<1> QED
    BY <1>5, <1>6, <1>7, <1>8, <1>9, <1>10, <1>11, <1>12, <1>13, <1>14, <1>15
    DEF Next, ReconcileStep, MessageStep

----------------------------------------------------------------------------
\* The files with a message that is yet to be dealt with.
Waiting == {q.log[i].file : i \in Live}

\* What the commands of FileMove do to the stream.
Effects ==
    /\ Extends(q, q') /\ DOMAIN q.log \subseteq DOMAIN q'.log
    /\ processed \subseteq processed' /\ admitted \subseteq admitted'
    /\ \A i \in DOMAIN q.log : q'.log[i].file = q.log[i].file
    /\ \A i \in DOMAIN q'.log \ DOMAIN q.log :
         \/ q'.log[i].file \in admitted'
         \/ \E m \in DOMAIN q.log : q'.log[i].file = q.log[m].file

\* What the type invariant says of the stream.
LEMMA Started ==
    ASSUME TypeInv
    PROVE  /\ GoodStream(q, Consumers) /\ DOMAIN q.log = 1 .. Len(q.log) /\ Len(q.log) \in Nat
           /\ Live = LiveOf(q) /\ Live \subseteq DOMAIN q.log
           /\ \A i \in DOMAIN q.log : q.log[i].file \in File
           /\ Reclaimer \in Consumers \ {NoOne} /\ Flusher \in Consumers \ {NoOne}
           /\ Pod \subseteq Consumers \ {NoOne}
<1>1. /\ GoodStream(q, Consumers) /\ DOMAIN q.log = 1 .. Len(q.log) /\ Len(q.log) \in Nat
    BY Positions DEF TypeInv, StreamOK
<1>2. Live = LiveOf(q)
    BY DEF Live, LiveOf
<1>3. Live \subseteq DOMAIN q.log
    BY <1>1, <1>2, LiveIs
<1>4. \A i \in DOMAIN q.log : q.log[i].file \in File
    BY <1>1, EntryFields
<1> QED
    BY <1>1, <1>2, <1>3, <1>4, ConstantsAssumption DEF Consumers

\* The moves only add messages: of files just admitted, or of files that have
\* one.
LEMMA FileEffects ==
    ASSUME TypeInv, FileMove
    PROVE  Effects
<1>1. /\ GoodStream(q, Consumers) /\ DOMAIN q.log = 1 .. Len(q.log) /\ Len(q.log) \in Nat
      /\ q.delivered \in Nat
      /\ \A i \in DOMAIN q.log : q.log[i].file \in File
      /\ Reclaimer \in Consumers /\ Flusher \in Consumers /\ Pod \subseteq Consumers
    BY Started, Positions
<1>2. processed \subseteq processed' /\ admitted \subseteq admitted'
    BY DEF FileMove
<1>3. ASSUME GoodStream(q', Consumers), Extends(q, q'), Len(q'.log) = Len(q.log)
      PROVE  Effects
  <2>1. DOMAIN q'.log = DOMAIN q.log
      BY <1>1, <1>3, Positions
  <2> QED
      BY <1>1, <1>2, <1>3, <2>1 DEF Effects, Extends
<1>4. CASE q' = q
    BY <1>1, <1>3, <1>4 DEF Extends
<1>5. ASSUME NEW f \in File, NEW n \in Nat, q' = XAdd(q, f, n),
             f \in admitted' \/ \E m \in DOMAIN q.log : f = q.log[m].file
      PROVE  Effects
  <2>1. /\ GoodStream(q', Consumers) /\ Extends(q, q') /\ Len(q'.log) = Len(q.log) + 1
        /\ q'.log[Len(q.log) + 1] =
             [file |-> f, attempts |-> n, owner |-> NoOne, deleted |-> FALSE]
      BY <1>1, <1>5, XAddAppends
  <2>2. q'.log[Len(q.log) + 1].file = f /\ DOMAIN q'.log = 1 .. (Len(q.log) + 1)
      BY <2>1, Positions
  <2> QED
      BY <1>1, <1>2, <1>5, <2>1, <2>2 DEF Effects, Extends
<1>6. ASSUME NEW p \in Pod, Undelivered(q) # {}, q' = XReadGroup(q, p) PROVE Effects
  <2>1. p \in Consumers
      BY <1>1
  <2> QED
      BY <1>1, <1>3, <1>6, <2>1, XReadGroupDelivers
<1>7. ASSUME NEW m \in DOMAIN q.log, q' = XAck(q, m) PROVE Effects
    BY <1>1, <1>3, <1>7, XAckReleases
<1>8. ASSUME NEW ids, q' = XDel(q, ids) PROVE Effects
    BY <1>1, <1>3, <1>8, XDelMarks
<1>9. ASSUME NEW ids, NEW c \in Consumers, q' = XClaim(q, ids, c) PROVE Effects
    BY <1>1, <1>3, <1>9, XClaimMoves
<1>10. CASE \E f \in File : q' = XAdd(q, f, 0) /\ admitted' = admitted \cup {f}
    BY <1>1, <1>5, <1>10
<1>11. CASE \E m \in DOMAIN q.log, n \in Nat : q' = XAdd(q, q.log[m].file, n)
    BY <1>1, <1>5, <1>11
<1>12. \/ q' = q
       \/ \E f \in File : q' = XAdd(q, f, 0) /\ admitted' = admitted \cup {f}
       \/ \E m \in DOMAIN q.log, n \in Nat : q' = XAdd(q, q.log[m].file, n)
       \/ \E p \in Pod : Undelivered(q) # {} /\ q' = XReadGroup(q, p)
       \/ \E m \in DOMAIN q.log : q' = XAck(q, m)
       \/ \E ids : q' = XDel(q, ids)
       \/ \E ids : q' = XClaim(q, ids, Reclaimer) \/ q' = XClaim(q, ids, Flusher)
    BY DEF FileMove
<1> QED
    BY <1>1, <1>4, <1>6, <1>7, <1>8, <1>9, <1>10, <1>11, <1>12

\* An XADD makes a file wait.
LEMMA AddedFile ==
    ASSUME TypeInv, NEW f \in File, NEW n \in Nat, q' = XAdd(q, f, n)
    PROVE  /\ Live' = Live \cup {Len(q.log) + 1}
           /\ DOMAIN q'.log = DOMAIN q.log \cup {Len(q.log) + 1}
           /\ q'.log[Len(q.log) + 1].file = f /\ q'.log[Len(q.log) + 1].attempts = n
           /\ \A i \in DOMAIN q.log : q'.log[i] = q.log[i]
           /\ Len(q.log) + 1 \notin DOMAIN q.log
           /\ Waiting' = Waiting \cup {f}
<1> DEFINE new == Len(q.log) + 1
<1>1. /\ GoodStream(q, Consumers) /\ DOMAIN q.log = 1 .. Len(q.log) /\ Len(q.log) \in Nat
      /\ Live = LiveOf(q) /\ Live \subseteq DOMAIN q.log
    BY Started
<1>2. /\ GoodStream(q', Consumers) /\ Len(q'.log) = new
      /\ \A i \in 1 .. Len(q.log) : q'.log[i] = q.log[i]
      /\ q'.log[new] = [file |-> f, attempts |-> n, owner |-> NoOne, deleted |-> FALSE]
    BY <1>1, XAddAppends
<1>3. q'.log[new].file = f /\ q'.log[new].attempts = n /\ new \notin DOMAIN q.log
    BY <1>1, <1>2
<1>4. DOMAIN q'.log = DOMAIN q.log \cup {new}
    BY <1>1, <1>2, Positions
<1>5. Live' = LiveOf(q')
    BY DEF Live, LiveOf
<1>6. LiveOf(q') = Live \cup {new}
    BY <1>1, XAddLive
<1> HIDE DEF new
<1>7. Waiting' = Waiting \cup {f}
    BY <1>1, <1>2, <1>3, <1>5, <1>6 DEF Waiting
<1> QED
    BY <1>1, <1>2, <1>3, <1>4, <1>5, <1>6, <1>7 DEF new

----------------------------------------------------------------------------
\* What a step may do to the memory of the flush.
MemoryMove ==
    /\ \A f \in File : r'.held[f] > 0 =>
         r.held[f] > 0 \/ f \in Buried \/ \E i \in DOMAIN q.log : q.log[i].file = f
    /\ r'.known \subseteq r.known \cup Buried
    /\ pc' = "flushAdd" => \/ pc = "flushAdd" /\ r'.files = r.files
                           \/ r'.files \subseteq r.known

\* A step keeps the memory of the flush, empties it, or reads it from the
\* stream and the dead letter queue.
LEMMA KeptMemory ==
    ASSUME r \in Registers,
           r'.held = r.held \/ r'.held = [f \in File |-> 0],
           r'.known = r.known \/ r'.known = {},
           pc' # "flushAdd" \/ (pc = "flushAdd" /\ r'.files = r.files)
    PROVE  MemoryMove
    BY DEF MemoryMove

\* The flush remembers a file because it has seen a message of it.
LEMMA RememberedFiles ==
    ASSUME NEW held \in [File -> Nat], NEW ids, NEW f \in File,
           Remember(held, ids)[f] > 0
    PROVE  held[f] > 0 \/ \E i \in ids : q.log[i].file = f
<1>1. SUFFICES ASSUME {i \in ids : q.log[i].file = f} = {}
               PROVE  held[f] > 0
    OBVIOUS
<1>2. Remember(held, ids)[f] =
        Greatest({q.log[i].attempts : i \in {i \in ids : q.log[i].file = f}} \cup {held[f]})
    BY DEF Remember
<1>3. {q.log[i].attempts : i \in {i \in ids : q.log[i].file = f}} \cup {held[f]} = {held[f]}
    BY <1>1
<1>4. Greatest({held[f]}) = held[f]
    BY DEF Greatest
<1> QED
    BY <1>2, <1>3, <1>4

\* A file for which readDLQEntries finds attempts has a dead letter record.
LEMMA RecordedFiles ==
    ASSUME LettersOK, NEW f \in File, Recorded(f) > 0
    PROVE  f \in Buried
<1>1. SUFFICES ASSUME dlq[f] = << >> PROVE FALSE
    BY DEF Buried
<1>2. {dlq[f][k] : k \in DOMAIN dlq[f]} \cup {0} = {0}
    BY <1>1
<1>3. Greatest({0}) = 0
    BY DEF Greatest
<1> QED
    BY <1>2, <1>3 DEF Recorded

\* Every step does no more to the memory of the flush.
LEMMA MemoryMoves ==
    ASSUME TypeInv, [Next]_vars
    PROVE  MemoryMove
<1> USE DEF GoTo
<1>1. r \in Registers /\ r.held \in [File -> Nat]
    BY DEF TypeInv, ReconcilerOK, Registers
<1>2. Blank.held = [f \in File |-> 0] /\ Blank.known = {}
    BY DEF Blank
<1>3. UNCHANGED <<pc, r>> => MemoryMove
    BY <1>1, KeptMemory
<1>4. pc' # "flushAdd" /\ r' \in {r, Blank} => MemoryMove
    BY <1>1, <1>2, KeptMemory
<1>5. CASE ClusterStep
    BY <1>3, <1>5 DEF ClusterStep, PodStep, JobStep, StartPod, TerminatePod, Claim,
       ClaimReplyLost, Start, Succeed, Fail, Crash, Stick, Recover, Evict, Becomes,
       JobCompletes, JobGivesUp, JobFails, JobExpires, JobBecomes, Reconciler
<1>6. CASE \/ Begin \/ Save \/ SaveStart \/ Inspect \/ Recount \/ FindJob \/ CreateJob
           \/ CheckFailure \/ StillRunning \/ CheckCompletion \/ Restart
    BY <1>4, <1>6 DEF Begin, Save, SaveStart, Inspect, Recount, FindJob, CreateJob,
       CheckFailure, StillRunning, CheckCompletion, Restart, Finish, GiveUp, Initialized,
       JobError
<1>7. CASE List \/ Enqueue \/ ReadLag \/ ReadPending
  <2>1. r'.held = r.held /\ r'.known = r.known /\ pc' # "flushAdd"
      BY <1>1, <1>7 DEF List, Enqueue, ReadLag, ReadPending, GiveUp, Registers
  <2> QED
      BY <1>1, <2>1, KeptMemory
<1>8. CASE MessageStep
  <2>1. r'.held = r.held /\ r'.known = r.known /\ pc' # "flushAdd"
      BY <1>1, <1>8 DEF MessageStep, ListPods, FindMessage, AckHandled, Retire, AckRetired,
         DeletePod, FindStale, ListOwners, ClaimStale, AckFinished, RetireStale, AckStale,
         DeleteStale, NextPod, NextReclaimed, Registers
  <2> QED
      BY <1>1, <2>1, KeptMemory
<1>9. CASE FlushBegins
  <2>1. pc' = "flushClaim"
        /\ (r' = r \/ r' = [r EXCEPT !.held = [f \in File |-> Recorded(f)],
                                     !.known = {f \in File : dlq[f] # << >>}])
      BY <1>9 DEF FlushBegins
  <2>2. CASE r' = r
      BY <1>4, <2>1, <2>2
  <2>3. CASE r' = [r EXCEPT !.held = [f \in File |-> Recorded(f)],
                            !.known = {f \in File : dlq[f] # << >>}]
    <3>1. r'.held = [f \in File |-> Recorded(f)] /\ r'.known = Buried
        BY <1>1, <2>3 DEF Registers, Buried
    <3>2. \A f \in File : r'.held[f] > 0 => f \in Buried
        BY <3>1, RecordedFiles DEF TypeInv
    <3> QED
        BY <2>1, <3>1, <3>2 DEF MemoryMove
  <2> QED
      BY <2>1, <2>2, <2>3
<1>10. CASE FlushClaim \/ FlushDel \/ FlushDelRest \/ FlushDone
  <2>1. pc' # "flushAdd" /\ (r' = Blank \/ (r'.held = r.held /\ r'.known = r.known))
      BY <1>1, <1>10 DEF FlushClaim, FlushDel, FlushDelRest, FlushDone, FlushEnds, Registers
  <2> QED
      BY <1>1, <1>2, <2>1, KeptMemory
<1>11. ASSUME NEW ids \in SUBSET DOMAIN q.log, r'.held = Remember(r.held, ids),
              r'.known = r.known, pc' # "flushAdd"
       PROVE  MemoryMove
    BY <1>1, <1>11, RememberedFiles DEF MemoryMove
<1>12. CASE FlushAck
  <2>1. r'.held = Remember(r.held, {Least(r.batch)}) /\ r'.known = r.known
        /\ pc' = "flushDel"
      BY <1>1, <1>12 DEF FlushAck, Registers
  <2>2. Least(r.batch) \in DOMAIN q.log
      BY <1>12, LeastOfBatch DEF FlushAck, HasBatch, TypeInv, PassMarks
  <2> QED
      BY <1>11, <2>1, <2>2
<1>13. CASE FlushRest
  <2>1. \/ pc' # "flushAdd" /\ r' \in {r, Blank}
        \/ /\ r' = [r EXCEPT !.held = Remember(@, Present(q)), !.batch = Present(q)]
           /\ pc' = "flushDelRest"
      BY <1>13 DEF FlushRest, FlushEnds
  <2>2. CASE /\ r' = [r EXCEPT !.held = Remember(@, Present(q)), !.batch = Present(q)]
             /\ pc' = "flushDelRest"
    <3>1. r'.held = Remember(r.held, Present(q)) /\ r'.known = r.known
        BY <1>1, <2>2 DEF Registers
    <3>2. Present(q) \in SUBSET DOMAIN q.log
        BY DEF Present
    <3> QED
        BY <1>11, <2>2, <3>1, <3>2
  <2> QED
      BY <1>4, <2>1, <2>2
<1>14. CASE FlushReplace
  <2>1. PICK f \in r.known :
          \/ r' = [r EXCEPT !.known = @ \ {f}, !.files = {f}] /\ pc' = "flushAdd"
          \/ r' = [r EXCEPT !.known = @ \ {f}, !.held[f] = 0] /\ pc' = pc
      BY <1>14 DEF FlushReplace
  <2>2. f \in File /\ pc = "flushWrite"
      BY <1>1, <1>14 DEF FlushReplace, Registers
  <2>3. CASE r' = [r EXCEPT !.known = @ \ {f}, !.files = {f}] /\ pc' = "flushAdd"
    <3>1. r'.held = r.held /\ r'.known = r.known \ {f} /\ r'.files = {f}
        BY <1>1, <2>3 DEF Registers
    <3> QED
        BY <2>1, <3>1 DEF MemoryMove
  <2>4. CASE r' = [r EXCEPT !.known = @ \ {f}, !.held[f] = 0] /\ pc' = pc
    <3>1. r'.held = [r.held EXCEPT ![f] = 0] /\ r'.known = r.known \ {f}
        BY <1>1, <2>4 DEF Registers
    <3> QED
        BY <1>1, <2>2, <2>4, <3>1 DEF MemoryMove
  <2> QED
      BY <2>1, <2>3, <2>4
<1>15. CASE FlushAdd
  <2>1. PICK f : r' = [r EXCEPT !.held[f] = 0, !.files = {}]
      BY <1>15 DEF FlushAdd
  <2>2. r'.held = [r.held EXCEPT ![f] = 0] /\ r'.known = r.known /\ pc' = "flushWrite"
      BY <1>1, <1>15, <2>1 DEF FlushAdd, Registers
  <2>3. \A g \in File : r'.held[g] \in {r.held[g], 0}
      BY <1>1, <2>2
  <2> QED
      BY <1>1, <2>2, <2>3 DEF MemoryMove
<1>16. CASE UNCHANGED vars
    BY <1>3, <1>16 DEF vars
<1> QED
    BY <1>5, <1>6, <1>7, <1>8, <1>9, <1>10, <1>12, <1>13, <1>14, <1>15, <1>16
    DEF Next, ReconcileStep, FlushStep

----------------------------------------------------------------------------
\* What a step may do to the work of the pods.
WorkMove ==
    \A p \in Pod :
        /\ EmptyHanded(p) \/ pods'[p].work = pods[p].work
        /\ EmptyHanded(p)' => EmptyHanded(p) /\ pods'[p].work = 0
        /\ pods'[p].phase = "succeeded" =>
             \/ pods[p].phase = "succeeded"
             \/ pods[p].phase = "running" /\ q.log[pods[p].work].file \in processed'

\* Every step does no more to the work of the pods.
LEMMA WorkMoves ==
    ASSUME TypeInv, [Next]_vars, \A p \in Pod : EmptyHanded(p) => pods[p].work = 0
    PROVE  WorkMove
<1>1. pods \in Pods /\ job \in Jobs
    BY DEF TypeInv, ClusterOK
<1>2. UNCHANGED pods => WorkMove
    BY DEF WorkMove, EmptyHanded
<1>3. ASSUME NEW p \in Pod, NEW phase \in Phases,
             pods' = [pods EXCEPT ![p].phase = phase],
             phase = "unborn" => pods[p].phase = "unborn",
             phase = "claiming" => pods[p].work = 0 /\ EmptyHanded(p),
             phase = "stuck" => EmptyHanded(p) \/ pods[p].work # 0,
             phase = "succeeded" => /\ pods[p].phase = "running"
                                    /\ q.log[pods[p].work].file \in processed'
      PROVE  WorkMove
  <2>1. /\ pods'[p].phase = phase /\ pods'[p].work = pods[p].work
        /\ \A x \in Pod : x # p => pods'[x] = pods[x]
      BY <1>1, <1>3 DEF Pods
  <2> QED
      BY <1>3, <2>1 DEF WorkMove, EmptyHanded
<1>4. ASSUME NEW p \in Pod, PodStep(p) PROVE WorkMove
  <2>1. CASE StartPod(p)
    <3>1. /\ pods[p].phase = "unborn" /\ pods'[p].phase = "claiming" /\ pods'[p].work = 0
          /\ \A x \in Pod : x # p => pods'[x] = pods[x]
        BY <1>1, <2>1 DEF StartPod, Pods
    <3> QED
        BY <3>1 DEF WorkMove, EmptyHanded
  <2>2. CASE Claim(p)
    <3>1. /\ pods[p].phase = "claiming" /\ pods'[p].phase = "starting"
          /\ \A x \in Pod : x # p => pods'[x] = pods[x]
        BY <1>1, <2>2 DEF Claim, Pods
    <3> QED
        BY <3>1 DEF WorkMove, EmptyHanded
  <2>3. CASE ClaimReplyLost(p)
      BY <1>2, <2>3 DEF ClaimReplyLost, cluster
  <2>4. CASE Start(p) \/ Crash(p)
      BY <1>3, <2>4 DEF Start, Crash, Becomes, Phases, ActivePhases
  <2>5. CASE Succeed(p)
      BY <1>3, <2>5 DEF Succeed, Phases
  <2>6. CASE Fail(p) \/ Evict(p) \/ TerminatePod(p)
      BY <1>3, <2>6 DEF Fail, Evict, TerminatePod, Becomes, Phases
  <2>7. CASE Stick(p)
    <3>1. EmptyHanded(p) \/ pods[p].work # 0
        BY <2>7 DEF Stick, EmptyHanded, TypeInv, PodMarks
    <3> QED
        BY <1>3, <2>7, <3>1 DEF Stick, Becomes, Phases, ActivePhases, PendingPhases
  <2>8. CASE Recover(p)
      BY <1>3, <2>8
      DEF Recover, Becomes, EmptyHanded, Phases, ActivePhases, PendingPhases
  <2> QED
      BY <1>4, <2>1, <2>2, <2>3, <2>4, <2>5, <2>6, <2>7, <2>8 DEF PodStep
<1>5. ASSUME \A p \in Pod : \/ pods'[p] = pods[p]
                            \/ pods'[p].phase = "gone" /\ pods'[p].work = pods[p].work
      PROVE  WorkMove
    BY <1>5 DEF WorkMove, EmptyHanded
<1>6. CASE JobExpires
  <2>1. \A p \in Pod : pods'[p] \in {pods[p], [pods[p] EXCEPT !.phase = "gone"]}
      BY <1>1, <1>6 DEF JobExpires, Pods
  <2>2. \A p \in Pod : \/ pods'[p] = pods[p]
                       \/ pods'[p].phase = "gone" /\ pods'[p].work = pods[p].work
      BY <1>1, <2>1 DEF Pods
  <2> QED
      BY <1>5, <2>2
<1>7. CASE JobCompletes \/ JobGivesUp \/ JobFails
    BY <1>2, <1>7 DEF JobCompletes, JobGivesUp, JobFails, JobBecomes
<1>8. CASE DeletePod
  <2>1. PICK out \in Writes, s \in r.at :
            pods' = Takes(out, [pods EXCEPT ![s.pod].phase =
                                IF @ \in ActivePhases THEN "gone" ELSE @], pods)
      BY <1>8 DEF DeletePod
  <2>2. s.pod \in Pod
      BY DEF TypeInv, ReconcilerOK, Registers, Seen
  <2>3. \A x \in Pod : \/ pods'[x] = pods[x]
                       \/ pods'[x].phase = "gone" /\ pods'[x].work = pods[x].work
      BY <1>1, <2>1, <2>2 DEF Takes, Pods
  <2> QED
      BY <1>5, <2>3
<1>9. CASE ReconcileStep
    BY <1>2, <1>9 DEF ReconcileStep, Begin, Save, SaveStart, Inspect, List, Enqueue,
       Recount, FindJob, CreateJob, ReadLag, ReadPending, CheckFailure, StillRunning,
       CheckCompletion, Restart, NoEffect, cluster
<1>10. CASE \/ ListPods \/ FindMessage \/ AckHandled \/ Retire \/ AckRetired
            \/ FindStale \/ ListOwners \/ ClaimStale
            \/ AckFinished \/ RetireStale \/ AckStale \/ DeleteStale
    BY <1>2, <1>10 DEF ListPods, FindMessage, AckHandled, Retire, AckRetired, FindStale,
       ListOwners, ClaimStale, AckFinished, RetireStale, AckStale, DeleteStale
<1>11. CASE FlushStep
    BY <1>2, <1>11 DEF FlushStep, FlushBegins, FlushClaim, FlushAck, FlushDel, FlushRest,
       FlushDelRest, FlushDone, FlushReplace, FlushAdd, Outside, cluster
<1>12. CASE UNCHANGED vars
    BY <1>2, <1>12 DEF vars, cluster
<1> QED
    BY <1>4, <1>6, <1>7, <1>8, <1>9, <1>10, <1>11, <1>12
    DEF Next, ClusterStep, JobStep, MessageStep

\* What a step may do to the pods and messages that are seen to have succeeded.
SeenMove ==
    /\ \A s \in r'.todo \cup r'.at :
         s \in r.todo \cup r.at \/ (s.pod \in Pod /\ s.phase = pods[s.pod].phase)
    /\ \A i \in r'.finished :
         \/ i \in r.finished
         \/ /\ i \in DOMAIN q.log
            /\ \E p \in Pod : q.log[i].owner = p /\ pods[p].phase = "succeeded"

\* Every step sees no more: handleCompletedPods and the owner check of the
\* reclaimer both take the phase from the pod as it is.
LEMMA SeenMoves ==
    ASSUME TypeInv, [Next]_vars
    PROVE  SeenMove
<1> USE DEF GoTo
<1>1. r \in Registers /\ r.batch \subseteq DOMAIN q.log
    BY DEF TypeInv, ReconcilerOK, PassMarks
<1>2. Blank.todo = {} /\ Blank.at = {} /\ Blank.finished = {}
    BY DEF Blank
<1>3. ASSUME r'.todo \subseteq r.todo, r'.at \subseteq r.todo \cup r.at,
             r'.finished \subseteq r.finished
      PROVE  SeenMove
    BY <1>3 DEF SeenMove
<1>4. r' \in {r, Blank} => SeenMove
    BY <1>1, <1>2, <1>3
<1>5. CASE ClusterStep
    BY <1>4, <1>5 DEF ClusterStep, PodStep, JobStep, StartPod, TerminatePod, Claim,
       ClaimReplyLost, Start, Succeed, Fail, Crash, Stick, Recover, Evict, Becomes,
       JobCompletes, JobGivesUp, JobFails, JobExpires, JobBecomes, Reconciler
<1>6. CASE \/ Begin \/ Save \/ SaveStart \/ Inspect \/ Recount \/ FindJob \/ CreateJob
           \/ CheckFailure \/ StillRunning \/ CheckCompletion \/ Restart
    BY <1>4, <1>6 DEF Begin, Save, SaveStart, Inspect, Recount, FindJob, CreateJob,
       CheckFailure, StillRunning, CheckCompletion, Restart, Finish
<1>7. CASE List \/ Enqueue \/ ReadLag \/ ReadPending
  <2>1. r'.todo = r.todo /\ r'.at = r.at /\ r'.finished = r.finished
      BY <1>1, <1>7 DEF List, Enqueue, ReadLag, ReadPending, Registers
  <2> QED
      BY <1>3, <2>1
<1>8. CASE ListPods
  <2> DEFINE all == {[pod |-> p, phase |-> pods[p].phase] :
                     p \in {p \in Pod : pods[p].phase \in HandledPhases}}
  <2>1. PICK out \in Reads : r' = [r EXCEPT !.todo = Takes(out, all, {}), !.at = {}, !.msg = 0]
      BY <1>8 DEF ListPods, NextPod
  <2>2. r'.todo \subseteq all /\ r'.at = {} /\ r'.finished = r.finished
      BY <1>1, <2>1 DEF Takes, Registers
  <2>3. \A s \in all : s.pod \in Pod /\ s.phase = pods[s.pod].phase
      OBVIOUS
  <2> QED
      BY <2>2, <2>3 DEF SeenMove
<1>9. CASE FindMessage
  <2>1. PICK s \in r.todo :
          \/ r' = [r EXCEPT !.todo = r.todo \ {s}, !.at = {}, !.msg = 0]
          \/ \E m : r' = [r EXCEPT !.todo = r.todo \ {s}, !.at = {s}, !.msg = m]
      BY <1>9 DEF FindMessage, NextPod
  <2>2. r'.todo = r.todo \ {s} /\ r'.at \subseteq {s} /\ r'.finished = r.finished
      BY <1>1, <2>1 DEF Registers
  <2> QED
      BY <1>3, <2>2
<1>10. CASE AckHandled \/ Retire \/ AckRetired \/ DeletePod
  <2>1. r' = r \/ r' = [r EXCEPT !.todo = r.todo, !.at = {}, !.msg = 0]
      BY <1>10 DEF AckHandled, Retire, AckRetired, DeletePod, NextPod
  <2>2. r'.todo = r.todo /\ r'.at \subseteq r.at /\ r'.finished = r.finished
      BY <1>1, <2>1 DEF Registers
  <2> QED
      BY <1>3, <2>2
<1>11. CASE FindStale \/ ClaimStale \/ AckFinished \/ RetireStale \/ AckStale \/ DeleteStale
  <2>1. /\ r'.todo = r.todo /\ r'.at = r.at
        /\ r'.finished = r.finished \/ r'.finished = {}
      BY <1>1, <1>11 DEF FindStale, ClaimStale, AckFinished, RetireStale, AckStale,
         DeleteStale, NextReclaimed, Registers
  <2> QED
      BY <1>3, <2>1
<1>12. CASE ListOwners
  <2> DEFINE ids == r.batch \ Owned(r.batch, Alive)
  <2>1. \/ NextReclaimed({})
        \/ r' = [r EXCEPT !.batch = ids, !.finished = Owned(ids, Finished)]
      BY <1>12 DEF ListOwners
  <2>2. /\ r'.todo = r.todo /\ r'.at = r.at
        /\ r'.finished \subseteq Owned(ids, Finished)
      BY <1>1, <2>1 DEF NextReclaimed, Registers
  <2>3. \A i \in Owned(ids, Finished) :
          /\ i \in DOMAIN q.log
          /\ \E p \in Pod : q.log[i].owner = p /\ pods[p].phase = "succeeded"
      BY <1>1 DEF Owned, Finished
  <2> QED
      BY <2>2, <2>3 DEF SeenMove
<1>13. CASE FlushStep
  <2>1. r' = Blank \/ (r'.todo = r.todo /\ r'.at = r.at /\ r'.finished = r.finished)
      BY <1>1, <1>13 DEF FlushStep, FlushBegins, FlushClaim, FlushAck, FlushDel, FlushRest,
         FlushDelRest, FlushDone, FlushReplace, FlushAdd, FlushEnds, Registers
  <2> QED
      BY <1>3, <1>4, <2>1
<1>14. CASE UNCHANGED vars
    BY <1>4, <1>14 DEF vars
<1> QED
    BY <1>5, <1>6, <1>7, <1>8, <1>9, <1>10, <1>11, <1>12, <1>13, <1>14
    DEF Next, ReconcileStep, MessageStep
=============================================================================
