-------------------------- MODULE NamespaceProofs --------------------------
(***************************************************************************)
(* Safety of Namespace for any number of instances, whatever calls fail    *)
(* and wherever the controller restarts: the finalizer of a stream, the    *)
(* passwords of claimers, and what is left when everybody is gone.         *)
(***************************************************************************)
EXTENDS NamespaceTypeProofs

\* The steps of cleanupNamespaceValkeyCredentials and of ensureJob.
CleanupSteps == {"listInstances", "ownSecret", "deleteUser", "deleteSecret", "dropCredentials"}
EnsureSteps == {"lookup", "findJob", "getSecret", "createSecret", "rereadSecret", "setUser",
                "createJob"}

\* What the pass knows of its instance.
PassInv ==
    pc # "idle" =>
        /\ pi.phase \in {"live", "deleting"}
        /\ cr[me].phase # "new"
        /\ pi.finalizers = cr[me].finalizers
        /\ cr[me].status.named => pi.status.named
        /\ pc \in CleanupSteps => cr[me].phase # "live"
        /\ pc \in EnsureSteps => Credentials \in cr[me].finalizers
        /\ pc \in {"deleteServices", "dropCleanup"} /\ pi.status.named => dep[me] = "absent"

\* An instance that is not there has nothing.
AbsentInv ==
    \A i \in Instance :
        /\ cr[i].phase \in {"new", "gone"} => cr[i].finalizers = {}
        /\ cr[i].phase = "new" => claimer[i].phase = "none"

\* Valkey knows the password of the instance, which is the one of the Secret.
LetIn(i) ==
    /\ secret.password \in Password /\ acl = secret.password
    /\ claimer[i].phase # "refused"
    /\ claimer[i].phase \in {"connecting", "claiming"} => claimer[i].password = secret.password

\* A claimer that runs or will run has, or will find, the password that Valkey
\* expects.
LetInInv == \A i \in Instance : cr[i].phase = "live" /\ claimer[i].phase # "none" => LetIn(i)

\* The password in hand is the one of the Secret.
PasswordInv ==
    /\ pc \in {"setUser", "createJob"} => r.password = secret.password /\ r.password \in Password
    /\ pc = "createJob" => acl = r.password

\* Credentials are taken away when nobody needs them.
UnusedInv ==
    pc \in {"ownSecret", "deleteUser", "deleteSecret"} =>
        \A i \in Instance : cr[i].phase = "live" => claimer[i].phase = "none"

\* The ACL user goes before the Secret.
UserInv ==
    /\ acl # None => secret.password # None
    /\ pc = "deleteSecret" => acl = None

\* Somebody will see to the Secret that the controller has made.
OwnerInv ==
    (~ reprieved /\ secret.managed) =>
        \E i \in Instance : Credentials \in cr[i].finalizers /\ (pc = "dropCredentials" => i # me)

\* What is true of the credentials as long as no pass was misled by a cache.
CredInv == ~ misled => LetInInv /\ PasswordInv /\ UnusedInv /\ UserInv /\ OwnerInv

----------------------------------------------------------------------------
\* What a step may do to an instance.
ObjectMove ==
    \A i \in Instance :
     /\ cr'[i].status.named => \/ cr[i].status.named
                               \/ i = me /\ pc # "idle" /\ pi.status.named
     /\ \/ cr'[i].phase = cr[i].phase /\ cr'[i].finalizers = cr[i].finalizers
        \/ /\ cr[i].phase = "new" /\ cr'[i].phase = "live"
           /\ cr'[i].finalizers = cr[i].finalizers
           /\ UNCHANGED <<claimer, pc, me, pi>>
        \/ /\ cr[i].phase = "live"
           /\ cr'[i].phase = "deleting" \/ (cr'[i].phase = "gone" /\ cr[i].finalizers = {})
           /\ cr'[i].finalizers = cr[i].finalizers
           /\ UNCHANGED <<claimer, pc, me, pi>>
        \/ /\ i = me /\ pc # "idle" /\ cr[i].phase = pi.phase /\ pc' = "idle"
           /\ \/ cr'[i].phase = cr[i].phase
              \/ cr[i].phase = "deleting" /\ cr'[i].phase = "gone" /\ cr'[i].finalizers = {}
           /\ \/ pc \in {"addFinalizer", "addCleanup"} /\ pi.finalizers \subseteq cr'[i].finalizers
                   /\ cr'[i].finalizers # {}
              \/ pc = "dropCredentials" /\ cr'[i].finalizers = pi.finalizers \ {Credentials}
              \/ pc = "dropCleanup" /\ cr'[i].finalizers = pi.finalizers \ {Cleanup}

\* What an Update of the finalizers does.
LEMMA FinalizersMove ==
    ASSUME TypeInv, pc # "idle", NEW out, NEW finalizers,
           StoreFinalizers(out, finalizers)
    PROVE  /\ \A i \in Instance \ {me} : cr'[i] = cr[i]
           /\ \/ cr'[me] = cr[me]
              \/ /\ cr[me].phase = pi.phase
                 /\ cr'[me].finalizers = finalizers
                 /\ \/ cr'[me].phase = cr[me].phase /\ cr'[me].status = cr[me].status
                    \/ cr[me].phase = "deleting" /\ finalizers = {} /\ cr'[me] = Gone
    BY DEF StoreFinalizers, Conflict, Takes, Gone, NewObject, TypeInv, TypeOK, Object

\* What a Status().Update does.
LEMMA StatusMove ==
    ASSUME TypeInv, pc # "idle", NEW out, NEW status, StoreStatus(out, status)
    PROVE  /\ \A i \in Instance \ {me} : cr'[i] = cr[i]
           /\ cr'[me].phase = cr[me].phase /\ cr'[me].finalizers = cr[me].finalizers
           /\ cr'[me].status \in {cr[me].status, status}
    BY DEF StoreStatus, Conflict, Takes, TypeInv, TypeOK, Object

\* Every step does no more to an instance.
LEMMA ObjectMoves ==
    ASSUME TypeInv, [Next]_vars
    PROVE  ObjectMove
<1>1. cr' = cr => ObjectMove
    BY DEF ObjectMove
<1>2. cr \in [Instance -> Object] /\ pi \in Object
    BY DEF TypeInv, TypeOK
<1>3. Gone.phase = "gone" /\ Gone.finalizers = {} /\ ~ Gone.status.named
    BY DEF Gone, NewObject, NewStatus
<1>4. CASE \E i \in Instance : Create(i) \/ Delete(i)
  <2>1. PICK i \in Instance : Create(i) \/ Delete(i)
      BY <1>4
  <2>2. UNCHANGED <<claimer, pc, me, pi>>
      BY <2>1 DEF Create, Delete, batches, worker
  <2>3. \/ cr[i].phase = "new" /\ cr' = [cr EXCEPT ![i].phase = "live"]
        \/ /\ cr[i].phase = "live"
           /\ \/ cr[i].finalizers = {} /\ cr' = [cr EXCEPT ![i] = Gone]
              \/ cr' = [cr EXCEPT ![i].phase = "deleting"]
      BY <1>2, <2>1 DEF Create, Delete
  <2>4. ASSUME NEW j \in Instance, j # i PROVE cr'[j] = cr[j]
      BY <1>2, <2>3, <2>4
  <2>5. /\ cr'[i].finalizers = cr[i].finalizers
        /\ cr'[i].status.named => cr[i].status.named
        /\ \/ cr[i].phase = "new" /\ cr'[i].phase = "live"
           \/ /\ cr[i].phase = "live"
              /\ cr'[i].phase = "deleting" \/ (cr'[i].phase = "gone" /\ cr[i].finalizers = {})
    <3>1. cr[i] \in Object /\ i \in DOMAIN cr
        BY <1>2
    <3>2. CASE cr[i].phase = "new" /\ cr' = [cr EXCEPT ![i].phase = "live"]
      <4>1. cr'[i] = [cr[i] EXCEPT !.phase = "live"]
          BY <1>2, <3>2
      <4> QED
          BY <3>1, <3>2, <4>1 DEF Object
    <3>3. CASE cr[i].phase = "live" /\ cr[i].finalizers = {} /\ cr' = [cr EXCEPT ![i] = Gone]
        BY <1>2, <1>3, <3>3
    <3>4. CASE cr[i].phase = "live" /\ cr' = [cr EXCEPT ![i].phase = "deleting"]
      <4>1. cr'[i] = [cr[i] EXCEPT !.phase = "deleting"]
          BY <1>2, <3>4
      <4> QED
          BY <3>1, <3>4, <4>1 DEF Object
    <3> QED
        BY <2>3, <3>2, <3>3, <3>4
  <2> QED
      BY <2>2, <2>4, <2>5 DEF ObjectMove
<1>5. CASE Tick
  <2>1. \A i \in Instance : cr'[i] = [cr[i] EXCEPT !.status = Aged(@)]
      BY <1>5 DEF Tick
  <2>2. \A i \in Instance : /\ cr'[i].phase = cr[i].phase /\ cr'[i].finalizers = cr[i].finalizers
                            /\ cr'[i].status.named = cr[i].status.named
    <3>1. \A o \in Object : LET a == [o EXCEPT !.status = Aged(@)] IN
             a.phase = o.phase /\ a.finalizers = o.finalizers /\ a.status.named = o.status.named
        BY DEF Object, Status, Aged
    <3> QED
        BY <1>2, <2>1, <3>1
  <2> QED
      BY <2>2 DEF ObjectMove
<1>6. ASSUME pc # "idle", NEW out, NEW finalizers, StoreFinalizers(out, finalizers), pc' = "idle",
             \/ pc \in {"addFinalizer", "addCleanup"} /\ finalizers # {} /\ pi.finalizers \subseteq finalizers
             \/ pc = "dropCredentials" /\ finalizers = pi.finalizers \ {Credentials}
             \/ pc = "dropCleanup" /\ finalizers = pi.finalizers \ {Cleanup}
      PROVE  ObjectMove
  <2>1. /\ \A i \in Instance \ {me} : cr'[i] = cr[i]
        /\ \/ cr'[me] = cr[me]
           \/ /\ cr[me].phase = pi.phase
              /\ cr'[me].finalizers = finalizers
              /\ \/ cr'[me].phase = cr[me].phase /\ cr'[me].status = cr[me].status
                 \/ cr[me].phase = "deleting" /\ finalizers = {} /\ cr'[me] = Gone
      BY <1>6, FinalizersMove
  <2> QED
      BY <1>3, <1>6, <2>1 DEF ObjectMove
<1>7. CASE AddFinalizer \/ AddCleanup
    BY <1>6, <1>7 DEF AddFinalizer, AddCleanup, Finish, GoTo, At
<1>8. CASE DropCredentials \/ DropCleanup
    BY <1>6, <1>8 DEF DropCredentials, DropCleanup, Finish, GoTo, At
<1>9. ASSUME pc # "idle", NEW out, NEW status, StoreStatus(out, status),
             status.named = pi.status.named
      PROVE  ObjectMove
    BY <1>9, StatusMove DEF ObjectMove
<1>10. CASE Save \/ StartStream
  <2>1. [pi.status EXCEPT !.started = 0].named = pi.status.named
      BY <1>2 DEF Object, Status
  <2> QED
      BY <1>9, <1>10, <2>1 DEF Save, StartStream, At
<1>11. CASE \/ Lookup \/ FindDeployment \/ CreateDeployment \/ PatchDeployment \/ EnsureService
            \/ MissService \/ ReadStatus \/ StopDeployment \/ StopServices \/ DeleteDeployment
            \/ DeleteServices \/ FindJob \/ GetSecret \/ CreateSecret \/ RereadSecret \/ SetUser
            \/ CreateJob \/ ListInstances \/ OwnSecret \/ DeleteUser \/ DeleteSecret
    BY <1>1, <1>11 DEF Lookup, FindDeployment, CreateDeployment, PatchDeployment, EnsureService,
       MissService, ReadStatus, StopDeployment, StopServices, DeleteDeployment, DeleteServices,
       FindJob, GetSecret, CreateSecret, RereadSecret, SetUser, CreateJob, ListInstances,
       OwnSecret, DeleteUser, DeleteSecret
<1>12. CASE Restart \/ SyncSecret \/ Outage \/ Recover \/ UNCHANGED vars
    BY <1>1, <1>12 DEF Restart, SyncSecret, Outage, Recover, vars
<1>13. CASE \E i \in Instance : \/ Collect(i) \/ Begin(i) \/ TurnReady(i) \/ TurnUnready(i)
                               \/ SyncDeployment(i) \/ Claim(i) \/ ExpireJob(i)
    BY <1>1, <1>13 DEF Collect, Begin, TurnReady, TurnUnready, SyncDeployment, Claim, StartClaimer,
       Connect, Interrupt, Deliver, Replace, ExpireJob, Elsewhere
<1> QED
    BY <1>4, <1>5, <1>7, <1>8, <1>10, <1>11, <1>12, <1>13 DEF Next, Call

\* What a step may do to the pass.
PassMove ==
    \/ pc' = "idle"
    \/ \E i \in Instance : Begin(i)
    \/ /\ pc # "idle" /\ me' = me
       /\ pi'.phase = pi.phase /\ pi'.finalizers = pi.finalizers
       /\ pi.status.named => pi'.status.named
       /\ pc' \in CleanupSteps => pc \in CleanupSteps
       /\ pc' \in EnsureSteps => pc \in EnsureSteps
       /\ \/ pc' \notin {"deleteServices", "dropCleanup"}
          \/ pi'.status.named => dep'[me] = "absent"

\* Every step does no more to the pass.
LEMMA PassMoves ==
    ASSUME TypeInv, PassInv, [Next]_vars
    PROVE  PassMove
<1> USE DEF GoTo, At, CleanupSteps, EnsureSteps
<1>1. /\ cr \in [Instance -> Object] /\ pi \in Object /\ pi.status \in Status
      /\ dep \in [Instance -> DepStates] /\ (pc # "idle" => me \in Instance)
    BY DEF TypeInv, TypeOK, Object
<1>2. pc \in {"deleteServices", "dropCleanup"} /\ pi.status.named => dep[me] = "absent"
    BY DEF PassInv
<1>3. CASE UNCHANGED <<pc, me, pi>> /\ \A i \in Instance : dep[i] = "absent" => dep'[i] = "absent"
    BY <1>1, <1>2, <1>3 DEF PassMove
<1>4. CASE \/ SyncSecret \/ Outage \/ Recover \/ UNCHANGED vars
           \/ \E i \in Instance : \/ Create(i) \/ Delete(i) \/ Collect(i) \/ TurnReady(i)
                                 \/ TurnUnready(i) \/ SyncDeployment(i) \/ Claim(i) \/ ExpireJob(i)
  <2>1. UNCHANGED <<pc, me, pi>>
      BY <1>4 DEF SyncSecret, Outage, Recover, vars, Create, Delete, Collect, TurnReady, TurnUnready,
         SyncDeployment, Claim, StartClaimer, Connect, Interrupt, Deliver, Replace, ExpireJob,
         Elsewhere, worker
  <2>2. \A i \in Instance : dep[i] = "absent" => dep'[i] = "absent"
      BY <1>1, <1>4 DEF SyncSecret, Outage, Recover, vars, Create, Delete, Collect, TurnReady, TurnUnready,
         SyncDeployment, Claim, StartClaimer, Connect, Interrupt, Deliver, Replace, ExpireJob,
         Elsewhere, streams
  <2> QED
      BY <1>3, <2>1, <2>2
<1>5. CASE Tick
  <2>1. /\ pi'.phase = pi.phase /\ pi'.finalizers = pi.finalizers
        /\ pi'.status.named = pi.status.named /\ UNCHANGED <<pc, me, dep>>
      BY <1>1, <1>5 DEF Tick, Aged, Object, Status
  <2> QED
      BY <1>2, <2>1 DEF PassMove
<1>6. CASE \/ AddFinalizer \/ Save \/ DropCredentials \/ AddCleanup \/ DropCleanup \/ Restart
    BY <1>6 DEF AddFinalizer, Save, DropCredentials, AddCleanup, DropCleanup, Restart, Finish, PassMove
<1>7. CASE \/ Lookup \/ FindDeployment \/ MissService \/ StopDeployment \/ StopServices
           \/ FindJob \/ ListInstances \/ OwnSecret \/ DeleteUser \/ DeleteSecret
  <2>1. pc' = "idle" \/ (pc # "idle" /\ UNCHANGED <<me, pi>>)
      BY <1>7 DEF Lookup, FindDeployment, MissService, StopDeployment, StopServices, FindJob,
         ListInstances, OwnSecret, DeleteUser, DeleteSecret, Finish, Degrade, Continue
  <2>2. /\ pc' \in CleanupSteps => pc \in CleanupSteps
        /\ pc' \in EnsureSteps => pc \in EnsureSteps
        /\ pc' \notin {"deleteServices", "dropCleanup"}
      BY <1>7 DEF Lookup, FindDeployment, MissService, StopDeployment, StopServices, FindJob,
         ListInstances, OwnSecret, DeleteUser, DeleteSecret, Finish, Degrade, Continue
  <2> QED
      BY <2>1, <2>2 DEF PassMove
<1>8. CASE \/ GetSecret \/ CreateSecret \/ RereadSecret \/ SetUser \/ EnsureService
  <2>1. pc # "idle" /\ UNCHANGED <<me, pi>>
      BY <1>8 DEF GetSecret, CreateSecret, RereadSecret, SetUser, EnsureService, UseSecret, Degrade, Continue
  <2>2. /\ pc' \in CleanupSteps => pc \in CleanupSteps
        /\ pc' \in EnsureSteps => pc \in EnsureSteps
        /\ pc' \notin {"deleteServices", "dropCleanup"}
      BY <1>8 DEF GetSecret, CreateSecret, RereadSecret, SetUser, EnsureService, UseSecret, Degrade, Continue
  <2> QED
      BY <2>1, <2>2 DEF PassMove
<1>9. CASE StartStream \/ CreateDeployment \/ PatchDeployment \/ ReadStatus \/ CreateJob
  <2>1. pc' = "idle" \/ (pc # "idle" /\ me' = me /\ pi'.phase = pi.phase
                         /\ pi'.finalizers = pi.finalizers /\ (pi.status.named => pi'.status.named))
    <3>1. ASSUME NEW status \in Status, pi' = [pi EXCEPT !.status = status],
                 pi.status.named => status.named
          PROVE  /\ pi'.phase = pi.phase /\ pi'.finalizers = pi.finalizers
                 /\ pi.status.named => pi'.status.named
        BY <1>1, <3>1 DEF Object
    <3>2. CASE StartStream
        BY <1>1, <1>9, <3>2 DEF StartStream, Finish, Object, Status
    <3>3. Named => /\ me' = me /\ pi'.phase = pi.phase
                   /\ pi'.finalizers = pi.finalizers /\ pi'.status.named
        BY <1>1 DEF Named, Object, Status
    <3>4. CASE CreateDeployment \/ PatchDeployment
        BY <3>3, <3>4 DEF CreateDeployment, PatchDeployment, Degrade, Continue
    <3>5. CASE ReadStatus
      <4>1. PICK out \in Reads :
              \/ pi' = [pi EXCEPT !.status = [Observed(out) EXCEPT !.ended = TRUE]]
              \/ pi' = [pi EXCEPT !.status = Observed(out)]
          BY <3>5 DEF ReadStatus
      <4>2. Observed(out).named = pi.status.named
            /\ [Observed(out) EXCEPT !.ended = TRUE].named = pi.status.named
          BY <1>1 DEF Observed, Status
      <4> QED
          BY <1>1, <3>5, <4>1, <4>2 DEF ReadStatus, Object
    <3>6. CASE CreateJob
        BY <1>1, <3>6 DEF CreateJob, Object, Status
    <3> QED
        BY <1>9, <3>2, <3>4, <3>5, <3>6
  <2>2. pc' \in {"idle", "findDeployment", "addCleanup", "services", "readStatus", "save",
                 "stopDeployment"}
      BY <1>9 DEF StartStream, CreateDeployment, PatchDeployment, ReadStatus, CreateJob, Named,
         Degrade, Continue, Finish, AfterFinalizer
  <2> QED
      BY <2>1, <2>2 DEF PassMove
<1>10. CASE DeleteDeployment
  <2>1. PICK out \in Writes :
          /\ DeletesDeployment(out)
          /\ IF out = "ok" THEN Continue("deleteServices") ELSE Finish
      BY <1>10 DEF DeleteDeployment
  <2>2. CASE out = "ok"
    <3>1. pi.status.named => dep'[me] = "absent"
        BY <1>1, <1>10, <2>1, <2>2 DEF DeletesDeployment, DeleteDeployment, Takes
    <3> QED
        BY <1>10, <2>1, <2>2, <3>1 DEF Continue, PassMove, DeleteDeployment
  <2> QED
      BY <2>1, <2>2 DEF Finish, PassMove
<1>11. CASE DeleteServices
  <2>1. Finish \/ Continue("dropCleanup")
      BY <1>11 DEF DeleteServices
  <2>2. pc = "deleteServices" /\ dep' = dep
      BY <1>11 DEF DeleteServices
  <2> QED
      BY <1>2, <2>1, <2>2 DEF Finish, Continue, PassMove
<1>12. CASE \E i \in Instance : Begin(i)
    BY <1>12 DEF PassMove
<1> QED
    BY <1>4, <1>5, <1>6, <1>7, <1>8, <1>9, <1>10, <1>11, <1>12 DEF Next, Call

----------------------------------------------------------------------------

\* What a pass knows of its instance stays true while it lasts, since only the
\* pass itself takes finalizers away.
LEMMA PassStep ==
    ASSUME TypeInv, PassInv, [Next]_vars
    PROVE  PassInv'
<1>1. ObjectMove /\ PassMove
    BY ObjectMoves, PassMoves
<1>2. CASE pc' = "idle"
    BY <1>2 DEF PassInv
<1>3. CASE \E i \in Instance : Begin(i)
  <2>1. PICK i \in Instance : Begin(i)
      BY <1>3
  <2>2. /\ cr[i].phase \in {"live", "deleting"} /\ me' = i /\ pi' = cr[i] /\ cr' = cr
        /\ pc' \in {"listInstances", "deleteDeployment", "addFinalizer", "lookup"}
        /\ pc' = "listInstances" => cr[i].phase # "live"
        /\ pc' = "lookup" => Credentials \in cr[i].finalizers
      BY <2>1 DEF Begin, GoTo
  <2> QED
      BY <2>2 DEF PassInv, CleanupSteps, EnsureSteps
<1>4. CASE pc # "idle" /\ pc' # "idle" /\ me' = me /\ ~ \E i \in Instance : Begin(i)
  <2>1. /\ pi'.phase = pi.phase /\ pi'.finalizers = pi.finalizers
        /\ pi.status.named => pi'.status.named
        /\ pc' \in CleanupSteps => pc \in CleanupSteps
        /\ pc' \in EnsureSteps => pc \in EnsureSteps
        /\ pc' \in {"deleteServices", "dropCleanup"} /\ pi'.status.named => dep'[me] = "absent"
      BY <1>1, <1>4 DEF PassMove
  <2>2. me \in Instance
      BY <1>4 DEF TypeInv
  <2>3. /\ pi.phase \in {"live", "deleting"} /\ cr[me].phase # "new"
        /\ pi.finalizers = cr[me].finalizers
        /\ cr[me].status.named => pi.status.named
        /\ pc \in CleanupSteps => cr[me].phase # "live"
        /\ pc \in EnsureSteps => Credentials \in cr[me].finalizers
      BY <1>4 DEF PassInv
  <2>4. /\ cr'[me].status.named => cr[me].status.named \/ pi.status.named
        /\ cr'[me].finalizers = cr[me].finalizers
        /\ cr'[me].phase # "new"
        /\ cr'[me].phase = "live" => cr[me].phase = "live"
      BY <1>1, <1>4, <2>2, <2>3 DEF ObjectMove
  <2> QED
      BY <1>4, <2>1, <2>3, <2>4 DEF PassInv
<1> QED
    BY <1>1, <1>2, <1>3, <1>4 DEF PassMove

\* A claimer appears only when the Job is created.
LEMMA ClaimersAppear ==
    ASSUME TypeInv, [Next]_vars, NEW i \in Instance, claimer[i].phase = "none"
    PROVE  claimer'[i].phase = "none" \/ (pc = "createJob" /\ i = me)
<1>1. claimer \in [Instance -> Claimers]
    BY DEF TypeInv, TypeOK
<1>2. claimer' = claimer => claimer'[i].phase = "none"
    OBVIOUS
<1>3. CASE \E j \in Instance : Claim(j) \/ ExpireJob(j) \/ Collect(j)
  <2>1. PICK j \in Instance : Claim(j) \/ ExpireJob(j) \/ Collect(j)
      BY <1>3
  <2>2. \/ j # i
        \/ claimer'[i].phase = "none"
      BY <1>1, <2>1 DEF Claim, StartClaimer, Connect, Interrupt, Deliver, Replace, ExpireJob,
         Collect, Turn, NoClaimer, Claimer, Claimers
  <2>3. j # i => claimer'[i] = claimer[i]
      BY <1>1, <2>1 DEF Claim, StartClaimer, Connect, Interrupt, Deliver, Replace, ExpireJob,
         Collect, Turn
  <2> QED
      BY <2>2, <2>3
<1>4. CASE CreateJob
  <2>1. claimer' = claimer \/ claimer' = [claimer EXCEPT ![me] = Claimer("waiting", None)]
      BY <1>4 DEF CreateJob, batches
  <2> QED
      BY <1>1, <1>4, <2>1 DEF CreateJob, At
<1>5. CASE \/ AddFinalizer \/ Lookup \/ Save \/ DropCredentials
           \/ StartStream \/ AddCleanup \/ FindDeployment \/ CreateDeployment
           \/ PatchDeployment \/ EnsureService \/ MissService \/ ReadStatus
           \/ StopDeployment \/ StopServices
           \/ DeleteDeployment \/ DeleteServices \/ DropCleanup
           \/ FindJob \/ GetSecret \/ CreateSecret \/ RereadSecret \/ SetUser
           \/ ListInstances \/ OwnSecret \/ DeleteUser \/ DeleteSecret
    BY <1>2, <1>5 DEF AddFinalizer, Lookup, Save, DropCredentials, StartStream, AddCleanup,
       FindDeployment, CreateDeployment, PatchDeployment, EnsureService, MissService, ReadStatus,
       StopDeployment, StopServices, DeleteDeployment, DeleteServices, DropCleanup, FindJob,
       GetSecret, CreateSecret, RereadSecret, SetUser, ListInstances, OwnSecret, DeleteUser,
       DeleteSecret, batches
<1>6. CASE \/ Restart \/ SyncSecret \/ Tick \/ Outage \/ Recover \/ UNCHANGED vars
           \/ \E j \in Instance : \/ Create(j) \/ Delete(j) \/ Begin(j) \/ TurnReady(j)
                                 \/ TurnUnready(j) \/ SyncDeployment(j)
    BY <1>2, <1>6 DEF Restart, SyncSecret, Tick, Outage, Recover, vars, Create, Delete, Begin,
       TurnReady, TurnUnready, SyncDeployment, batches
<1> QED
    BY <1>3, <1>4, <1>5, <1>6 DEF Next, Call

\* An instance that is not there goes on having nothing.
LEMMA AbsentStep ==
    ASSUME TypeInv, PassInv, AbsentInv, [Next]_vars
    PROVE  AbsentInv'
<1>1. ObjectMove
    BY ObjectMoves
<1>2. SUFFICES ASSUME NEW i \in Instance
               PROVE  /\ cr'[i].phase \in {"new", "gone"} => cr'[i].finalizers = {}
                      /\ cr'[i].phase = "new" => claimer'[i].phase = "none"
    BY DEF AbsentInv
<1>3. /\ cr[i].phase \in {"new", "gone"} => cr[i].finalizers = {}
      /\ cr[i].phase = "new" => claimer[i].phase = "none"
    BY DEF AbsentInv
<1>4. pc # "idle" => pi.phase \in {"live", "deleting"} /\ cr[me].phase # "new"
    BY DEF PassInv
<1>5. cr'[i].phase = "new" => cr[i].phase = "new"
    BY <1>1 DEF ObjectMove
<1>6. cr'[i].phase \in {"new", "gone"} => cr'[i].finalizers = {}
    BY <1>1, <1>3, <1>4 DEF ObjectMove
<1> QED
    BY <1>3, <1>4, <1>5, <1>6, ClaimersAppear

\* The invariant of FinalizersHold.
ReleaseInv == TypeInv /\ PassInv /\ AbsentInv

\* The invariant of FinalizersHold holds at first.
LEMMA InitReleases ==
    ASSUME Init PROVE ReleaseInv
<1>1. /\ pc = "idle" /\ \A i \in Instance : cr[i] = NewObject /\ claimer[i] = NoClaimer
    BY DEF Init
<1>2. NewObject.finalizers = {} /\ NoClaimer.phase = "none"
    BY DEF NewObject, NoClaimer, Claimer
<1> QED
    BY <1>1, <1>2, InitTypes DEF ReleaseInv, PassInv, AbsentInv

\* The streaming finalizer goes in the last step of its clean-up.
LEMMA DroppedCleanup ==
    ASSUME TypeInv, PassInv, [Next]_vars, NEW i \in Instance,
           Cleanup \in cr[i].finalizers, Cleanup \notin cr'[i].finalizers
    PROVE  ~ cr[i].status.named \/ dep'[i] = "absent"
<1>1. Cleanup # Credentials
    BY DEF Cleanup, Credentials
<1>2. i = me /\ pc = "dropCleanup" /\ pc' = "idle" /\ pi.finalizers = cr[i].finalizers
  <2>1. ObjectMove
      BY ObjectMoves
  <2>2. i = me /\ pc # "idle" /\ pc' = "idle"
      BY <2>1 DEF ObjectMove
  <2>3. pi.finalizers = cr[i].finalizers
      BY <2>2 DEF PassInv
  <2> QED
      BY <1>1, <2>1, <2>2, <2>3 DEF ObjectMove
<1>3. cr[i].status.named => dep[i] = "absent"
    BY <1>2 DEF PassInv
<1>4. dep' = dep
  <2>1. \/ DropCleanup \/ Restart
      BY <1>2 DEF Next, Call, AddFinalizer, Lookup, Save, DropCredentials, StartStream, AddCleanup,
       FindDeployment, CreateDeployment, PatchDeployment, EnsureService, MissService, ReadStatus,
       StopDeployment, StopServices, DeleteDeployment, DeleteServices, FindJob,
       GetSecret, CreateSecret, RereadSecret, SetUser, CreateJob, ListInstances, OwnSecret, DeleteUser,
       DeleteSecret, SyncSecret, Tick, Outage, Recover, vars, Create, Delete, Collect, Begin,
       TurnReady, TurnUnready, SyncDeployment, Claim, StartClaimer, Connect, Interrupt, Deliver,
       Replace, ExpireJob, Elsewhere, worker, At
  <2> QED
      BY <2>1 DEF DropCleanup, Restart, streams
<1> QED
    BY <1>3, <1>4

\* Cleanup of a stream, whatever calls fail (reconcileStreaming): its finalizer
\* is removed only when the Deployment whose name was saved is no more.
THEOREM FinalizersHold ==
    ASSUME IsFiniteSet(Instance), ~ IsFiniteSet(Password)
    PROVE  Spec => FinalizerReleases
<1>1. ReleaseInv /\ [Next]_vars => ReleaseInv'
    BY Fresh, TypeStep, PassStep, AbsentStep DEF ReleaseInv, TypeInv
<1>2. ReleaseInv /\ [Next]_vars =>
        [\A i \in Instance :
          Cleanup \in cr[i].finalizers /\ Cleanup \notin cr'[i].finalizers
              => ~ cr[i].status.named \/ dep'[i] = "absent"]_vars
    BY DroppedCleanup DEF ReleaseInv
<1> QED
    BY <1>1, <1>2, InitReleases, PTL DEF Spec, FinalizerReleases

----------------------------------------------------------------------------
\* The steps at which the credentials are dealt with.
CredSteps == {"setUser", "createJob", "ownSecret", "deleteUser", "deleteSecret", "dropCredentials"}

\* The instances that see to the credentials go on doing so.
Kept == \A i \in Instance : Credentials \in cr[i].finalizers => Credentials \in cr'[i].finalizers

\* Only the end of the clean-up takes the mark away.
LEMMA KeptMarks ==
    ASSUME TypeInv, PassInv, [Next]_vars, pc # "dropCredentials"
    PROVE  Kept
<1>1. SUFFICES ASSUME NEW i \in Instance, Credentials \in cr[i].finalizers
               PROVE  Credentials \in cr'[i].finalizers
    BY DEF Kept
<1>2. ObjectMove
    BY ObjectMoves
<1>3. pc # "idle" => pi.finalizers = cr[me].finalizers
    BY DEF PassInv
<1>4. Cleanup # Credentials
    BY DEF Cleanup, Credentials
<1> QED
    BY <1>1, <1>2, <1>3, <1>4 DEF ObjectMove

\* The steps that do not deal with credentials keep the invariant.
LEMMA QuietStep ==
    ASSUME TypeInv, AbsentInv, CredInv, ObjectMove, Kept,
           UNCHANGED <<secret, acl, misled, reprieved, claimer>>,
           pc' \notin CredSteps \/ UNCHANGED <<pc, me, r>>
    PROVE  CredInv'
<1>1. SUFFICES ASSUME ~ misled PROVE (LetInInv /\ PasswordInv /\ UnusedInv /\ UserInv /\ OwnerInv)'
    BY DEF CredInv
<1>2. LetInInv /\ PasswordInv /\ UnusedInv /\ UserInv /\ OwnerInv
    BY <1>1 DEF CredInv
<1>3. ASSUME NEW i \in Instance, cr'[i].phase = "live", claimer'[i].phase # "none"
      PROVE  cr[i].phase = "live"
    BY <1>3 DEF ObjectMove, AbsentInv
<1>4. LetInInv'
    BY <1>2, <1>3 DEF LetInInv, LetIn
<1>5. PasswordInv' /\ UserInv'
    BY <1>2 DEF PasswordInv, UserInv, CredSteps
<1>6. UnusedInv'
    BY <1>2, <1>3 DEF UnusedInv, CredSteps
<1>7. OwnerInv'
    BY <1>2 DEF OwnerInv, Kept, CredSteps
<1> QED
    BY <1>4, <1>5, <1>6, <1>7

\* So do the claimers: what they were given is what Valkey expects.
LEMMA ClaimStep ==
    ASSUME TypeInv, CredInv, NEW i \in Instance, Claim(i) \/ ExpireJob(i) \/ Collect(i)
    PROVE  CredInv'
<1>1. /\ UNCHANGED <<cr, secret, acl, misled, reprieved, pc, me, r>>
      /\ claimer' \in [Instance -> Claimers] /\ claimer \in [Instance -> Claimers]
      /\ \A j \in Instance \ {i} : claimer'[j] = claimer[j]
  <2>1. \E c \in Claimers : claimer' = [claimer EXCEPT ![i] = c]
    <3>1. TypeInv'
        BY InstanceTypes
    <3>2. claimer' = [claimer EXCEPT ![i] = claimer'[i]]
        BY DEF TypeInv, TypeOK, Claim, StartClaimer, Connect, Interrupt, Deliver, Replace, ExpireJob,
           Collect, Turn
    <3> QED
        BY <3>1, <3>2 DEF TypeInv, TypeOK
  <2>2. UNCHANGED <<cr, secret, acl, misled, reprieved, pc, me, r>>
      BY DEF Claim, StartClaimer, Connect, Interrupt, Deliver, Replace, ExpireJob, Collect,
         Elsewhere, creds, history, worker
  <2> QED
      BY <2>1, <2>2 DEF TypeInv, TypeOK
<1>2. SUFFICES ASSUME ~ misled PROVE (LetInInv /\ PasswordInv /\ UnusedInv /\ UserInv /\ OwnerInv)'
    BY <1>1 DEF CredInv
<1>3. LetInInv /\ PasswordInv /\ UnusedInv /\ UserInv /\ OwnerInv
    BY <1>2 DEF CredInv
<1>4. claimer'[i].phase # "none" => claimer[i].phase # "none"
    BY <1>1 DEF Claim, StartClaimer, Connect, Interrupt, Deliver, Replace, ExpireJob, Collect,
       Turn, NoClaimer, Claimer, Claimers
<1>5. ASSUME cr[i].phase = "live", claimer'[i].phase # "none" PROVE LetIn(i)'
  <2>1. LetIn(i)
      BY <1>3, <1>4, <1>5 DEF LetInInv
  <2>2. /\ claimer'[i].phase # "refused"
        /\ claimer'[i].phase \in {"connecting", "claiming"} => claimer'[i].password = secret.password
    <3>1. CASE StartClaimer(i) \/ Connect(i) \/ Interrupt(i) \/ Deliver(i) \/ Replace(i)
      <4>1. /\ claimer[i].phase # "refused"
            /\ claimer[i].phase \in {"connecting", "claiming"} =>
                 claimer[i].password = secret.password /\ acl = secret.password
          BY <2>1 DEF LetIn
      <4> QED
          BY <1>1, <3>1, <4>1 DEF StartClaimer, Connect, Interrupt, Deliver, Replace, Turn, Claimer, Claimers
    <3>2. CASE ExpireJob(i) \/ Collect(i)
        BY <1>1, <1>5, <3>2 DEF ExpireJob, Collect, Turn, NoClaimer, Claimer, Claimers
    <3> QED
        BY <3>1, <3>2 DEF Claim
  <2> QED
      BY <1>1, <2>1, <2>2 DEF LetIn
<1>6. LetInInv'
    BY <1>1, <1>3, <1>5 DEF LetInInv, LetIn
<1>7. UnusedInv'
    BY <1>1, <1>3, <1>4 DEF UnusedInv
<1> QED
    BY <1>1, <1>3, <1>6, <1>7 DEF PasswordInv, UserInv, OwnerInv

\* The invariant of the namespace.
NamespaceInv == TypeInv /\ PassInv /\ AbsentInv /\ CredInv

\* So does ensureNamespaceValkeyCredentials: it stores a password first, gives
\* it to Valkey second, and creates the Job last.
LEMMA EnsureStep ==
    ASSUME NamespaceInv, NewPassword \in Password, [Next]_vars,
           GetSecret \/ CreateSecret \/ RereadSecret \/ SetUser \/ CreateJob
    PROVE  CredInv'
<1> USE DEF GoTo, At
<1>1. /\ TypeInv /\ PassInv /\ AbsentInv /\ CredInv /\ me \in Instance
      /\ secret \in Secrets /\ claimer \in [Instance -> Claimers] /\ secretView \in Secrets
      /\ r \in [todo : SUBSET Service, password : Password \cup {None}]
      /\ None \notin Password /\ Malformed \notin Password
    BY NamespaceAssumption DEF NamespaceInv, TypeInv, TypeOK, GetSecret, CreateSecret, RereadSecret,
       SetUser, CreateJob
<1>2. UNCHANGED <<cr, me>> /\ pc' \in {"save", "createSecret", "rereadSecret", "setUser", "createJob"}
    BY DEF GetSecret, CreateSecret, RereadSecret, SetUser, CreateJob, UseSecret, Degrade, Continue
<1>3. Credentials \in cr[me].finalizers /\ cr[me].phase # "new"
    BY DEF NamespaceInv, PassInv, GetSecret, CreateSecret, RereadSecret, SetUser, CreateJob, EnsureSteps
<1>4. SUFFICES ASSUME ~ misled' PROVE (LetInInv /\ PasswordInv /\ UnusedInv /\ UserInv /\ OwnerInv)'
    BY DEF CredInv
<1>5. LetInInv /\ PasswordInv /\ UnusedInv /\ UserInv /\ OwnerInv
    BY <1>1, <1>4 DEF CredInv, GetSecret, CreateSecret, RereadSecret, SetUser, CreateJob, history
<1>6. UnusedInv'
    BY <1>2 DEF UnusedInv
<1>7. OwnerInv'
    BY <1>1, <1>2, <1>3 DEF OwnerInv
<1>8. CASE GetSecret \/ RereadSecret
  <2>1. UNCHANGED <<secret, acl, claimer>> /\ ~ Outdated
      BY <1>4, <1>8 DEF GetSecret, RereadSecret, creds, batches
  <2>2. pc' \in {"save", "createSecret"} \/ UseSecret
      BY <1>8 DEF GetSecret, RereadSecret, Degrade, Continue
  <2>3. UseSecret /\ pc' = "setUser" => r'.password = secret.password /\ r'.password \in Password
      BY <1>1, <2>1 DEF UseSecret, Outdated, Degrade, Continue, Secrets
  <2>4. pc' # "createJob" /\ pc' # "deleteSecret"
      BY <1>8 DEF GetSecret, RereadSecret, UseSecret, Degrade, Continue
  <2>5. PasswordInv'
      BY <2>1, <2>2, <2>3, <2>4 DEF PasswordInv
  <2>6. LetInInv' /\ UserInv'
      BY <1>2, <1>5, <2>1 DEF LetInInv, LetIn, UserInv
  <2> QED
      BY <1>6, <1>7, <2>5, <2>6
<1>9. CASE CreateSecret
  <2>1. /\ UNCHANGED <<acl, claimer>>
        /\ \/ secret' = secret /\ pc' \in {"save", "rereadSecret"}
           \/ /\ secret.password = None
              /\ secret'.password = NewPassword
              /\ pc' = "save" \/ (pc' = "setUser" /\ r'.password = NewPassword)
      BY <1>1, <1>9 DEF CreateSecret, Takes, Degrade, Continue, batches
  <2>2. LetInInv'
      BY <1>1, <1>2, <1>5, <2>1 DEF LetInInv, LetIn
  <2>3. PasswordInv'
      BY <2>1 DEF PasswordInv
  <2>4. UserInv'
      BY <1>1, <1>5, <2>1 DEF UserInv
  <2> QED
      BY <1>6, <1>7, <2>2, <2>3, <2>4
<1>10. CASE SetUser
  <2>1. /\ UNCHANGED <<secret, claimer, r>>
        /\ \/ acl' = acl /\ pc' = "save"
           \/ acl' = r.password /\ pc' \in {"save", "createJob"}
      BY <1>10 DEF SetUser, Takes, Degrade, Continue, batches
  <2>2. r.password = secret.password /\ r.password \in Password
      BY <1>5, <1>10 DEF PasswordInv, SetUser
  <2>3. LetInInv'
      BY <1>2, <1>5, <2>1, <2>2 DEF LetInInv, LetIn
  <2>4. PasswordInv' /\ UserInv'
      BY <1>1, <1>5, <2>1, <2>2 DEF PasswordInv, UserInv
  <2> QED
      BY <1>6, <1>7, <2>3, <2>4
<1>11. CASE CreateJob
  <2>1. /\ UNCHANGED <<secret, acl, r>> /\ pc' = "save"
        /\ claimer' = claimer \/ claimer' = [claimer EXCEPT ![me] = Claimer("waiting", None)]
      BY <1>11 DEF CreateJob, creds, batches
  <2>2. r.password = secret.password /\ r.password \in Password /\ acl = r.password
      BY <1>5, <1>11 DEF PasswordInv, CreateJob
  <2>3. ASSUME NEW i \in Instance, cr[i].phase = "live", claimer'[i].phase # "none" PROVE LetIn(i)'
    <3>1. CASE claimer'[i] = claimer[i]
        BY <1>5, <2>1, <2>3, <3>1 DEF LetInInv, LetIn
    <3>2. CASE claimer'[i] = Claimer("waiting", None)
        BY <2>1, <2>2, <3>2 DEF LetIn, Claimer
    <3> QED
        BY <1>1, <2>1, <3>1, <3>2
  <2>4. LetInInv'
      BY <1>2, <2>3 DEF LetInInv
  <2>5. PasswordInv' /\ UserInv'
      BY <1>5, <2>1 DEF PasswordInv, UserInv
  <2> QED
      BY <1>6, <1>7, <2>4, <2>5
<1> QED
    BY <1>8, <1>9, <1>10, <1>11

\* So does cleanupNamespaceValkeyCredentials: it looks for other instances
\* first, and deletes the user before the Secret.
LEMMA CleanupStep ==
    ASSUME NamespaceInv, [Next]_vars,
           ListInstances \/ OwnSecret \/ DeleteUser \/ DeleteSecret \/ DropCredentials
    PROVE  CredInv'
<1> USE DEF GoTo, At
<1>1. /\ TypeInv /\ PassInv /\ AbsentInv /\ CredInv /\ me \in Instance
      /\ cr \in [Instance -> Object] /\ None \notin Password
    BY NamespaceAssumption DEF NamespaceInv, TypeInv, TypeOK, ListInstances, OwnSecret, DeleteUser,
       DeleteSecret, DropCredentials
<1>2. cr[me].phase # "live"
    BY DEF NamespaceInv, PassInv, ListInstances, OwnSecret, DeleteUser, DeleteSecret,
       DropCredentials, CleanupSteps
<1>3. SUFFICES ASSUME ~ misled' PROVE (LetInInv /\ PasswordInv /\ UnusedInv /\ UserInv /\ OwnerInv)'
    BY DEF CredInv
<1>4. LetInInv /\ PasswordInv /\ UnusedInv /\ UserInv /\ OwnerInv
    BY <1>1, <1>3 DEF CredInv, ListInstances, OwnSecret, DeleteUser, DeleteSecret, DropCredentials,
       history
<1>5. UNCHANGED claimer /\ pc' \in {"idle", "dropCredentials", "ownSecret", "deleteUser", "deleteSecret"}
    BY DEF ListInstances, OwnSecret, DeleteUser, DeleteSecret, DropCredentials, Finish, Continue, batches
<1>6. PasswordInv'
    BY <1>5 DEF PasswordInv
<1>7. CASE ListInstances
  <2>1. UNCHANGED <<cr, secret, acl>> /\ pc' \in {"idle", "dropCredentials", "ownSecret"}
      BY <1>7 DEF ListInstances, Finish, Continue, creds
  <2>2. pc' # "idle" => UNCHANGED me /\ (pc' = "ownSecret" => Active = {}) /\ (pc' = "dropCredentials" => Active # {})
      BY <1>7 DEF ListInstances, Finish, Continue
  <2>3. ~ reprieved' /\ Active # {} => \E i \in Active : Credentials \in cr[i].finalizers
      BY <1>7 DEF ListInstances
  <2>4. LetInInv' /\ UserInv'
      BY <1>4, <1>5, <2>1 DEF LetInInv, LetIn, UserInv
  <2>5. UnusedInv'
      BY <1>2, <2>1, <2>2 DEF UnusedInv, Active
  <2>6. OwnerInv'
    <3>1. CASE pc' = "dropCredentials"
        BY <2>1, <2>2, <2>3, <3>1 DEF OwnerInv, Active
    <3>2. CASE pc' # "dropCredentials"
      <4>1. ~ reprieved' => ~ reprieved
          BY <1>7 DEF ListInstances
      <4> QED
          BY <1>4, <2>1, <3>2, <4>1 DEF OwnerInv
    <3> QED
        BY <3>1, <3>2
  <2> QED
      BY <1>6, <2>4, <2>5, <2>6
<1>8. CASE OwnSecret
  <2>1. UNCHANGED <<cr, secret, acl, reprieved>> /\ pc' \in {"idle", "dropCredentials", "deleteUser"}
      BY <1>8 DEF OwnSecret, Finish, Continue, creds
  <2>2. pc' = "dropCredentials" => ~ secret.managed
      BY <1>3, <1>8 DEF OwnSecret, Finish, Continue
  <2>3. LetInInv' /\ UserInv'
      BY <1>4, <1>5, <2>1 DEF LetInInv, LetIn, UserInv
  <2>4. UnusedInv'
      BY <1>4, <1>5, <1>8, <2>1 DEF UnusedInv, OwnSecret
  <2>5. OwnerInv'
      BY <1>4, <2>1, <2>2 DEF OwnerInv
  <2> QED
      BY <1>6, <2>3, <2>4, <2>5
<1>9. CASE DeleteUser
  <2>1. /\ UNCHANGED <<cr, secret, reprieved>> /\ pc' \in {"idle", "deleteSecret"}
        /\ acl' \in {acl, None} /\ (pc' = "deleteSecret" => acl' = None)
      BY <1>9 DEF DeleteUser, Takes, Finish, Continue, history
  <2>2. \A i \in Instance : cr[i].phase = "live" => claimer[i].phase = "none"
      BY <1>4, <1>9 DEF UnusedInv, DeleteUser
  <2>3. LetInInv' /\ UnusedInv'
      BY <1>5, <2>1, <2>2 DEF LetInInv, UnusedInv
  <2>4. UserInv' /\ OwnerInv'
      BY <1>4, <2>1 DEF UserInv, OwnerInv
  <2> QED
      BY <1>6, <2>3, <2>4
<1>10. CASE DeleteSecret
  <2>1. /\ UNCHANGED <<cr, acl, reprieved>> /\ pc' \in {"idle", "dropCredentials"}
        /\ secret' \in {secret, NoSecret} /\ (pc' = "dropCredentials" => secret' = NoSecret)
      BY <1>10 DEF DeleteSecret, Takes, Finish, Continue, history
  <2>2. acl = None /\ \A i \in Instance : cr[i].phase = "live" => claimer[i].phase = "none"
      BY <1>4, <1>10 DEF UnusedInv, UserInv, DeleteSecret
  <2>3. LetInInv' /\ UnusedInv' /\ UserInv'
      BY <1>5, <2>1, <2>2 DEF LetInInv, UnusedInv, UserInv
  <2>4. OwnerInv'
      BY <1>4, <2>1 DEF OwnerInv, NoSecret
  <2> QED
      BY <1>6, <2>3, <2>4
<1>11. CASE DropCredentials
  <2>1. UNCHANGED <<secret, acl, reprieved>> /\ pc' = "idle" /\ pc = "dropCredentials"
      BY <1>11 DEF DropCredentials, Finish, creds, history
  <2>2. \A i \in Instance : /\ cr'[i].phase = "live" => cr[i].phase = "live"
                            /\ i # me => cr'[i] = cr[i]
    <3>1. PICK out : StoreFinalizers(out, pi.finalizers \ {Credentials})
        BY <1>11 DEF DropCredentials
    <3> QED
        BY <1>1, <2>1, <3>1, FinalizersMove DEF Gone, NewObject
  <2>3. LetInInv' /\ UserInv'
      BY <1>4, <1>5, <2>1, <2>2 DEF LetInInv, LetIn, UserInv
  <2>4. UnusedInv'
      BY <2>1 DEF UnusedInv
  <2>5. OwnerInv'
      BY <1>4, <2>1, <2>2 DEF OwnerInv
  <2> QED
      BY <1>6, <2>3, <2>4, <2>5
<1> QED
    BY <1>7, <1>8, <1>9, <1>10, <1>11

\* The instance that is marked is the one to see to the credentials.
LEMMA MarkStep ==
    ASSUME NamespaceInv, [Next]_vars, AddFinalizer
    PROVE  CredInv'
<1>1. TypeInv /\ PassInv /\ AbsentInv /\ CredInv /\ ObjectMove /\ me \in Instance
    BY ObjectMoves DEF NamespaceInv, TypeInv, AddFinalizer, At
<1>2. UNCHANGED <<secret, acl, misled, claimer>> /\ pc = "addFinalizer" /\ pc' = "idle"
    BY DEF AddFinalizer, Finish, GoTo, At, creds, batches
<1>3. Kept
    BY <1>1, <1>2, KeptMarks
<1>4. CASE reprieved' = reprieved
    BY <1>1, <1>2, <1>3, <1>4, QuietStep DEF CredSteps
<1>5. CASE reprieved' # reprieved
  <2>1. reprieved /\ ~ reprieved' /\ cr' # cr
      BY <1>1, <1>5 DEF AddFinalizer, TypeInv, TypeOK
  <2>2. Credentials \in cr'[me].finalizers
    <3>1. PICK out : StoreFinalizers(out, pi.finalizers \cup {Credentials})
        BY DEF AddFinalizer
    <3>2. cr \in [Instance -> Object]
        BY <1>1 DEF TypeInv, TypeOK
    <3> QED
        BY <1>1, <2>1, <3>1, <3>2 DEF StoreFinalizers, Takes, Object
  <2>3. SUFFICES ASSUME ~ misled PROVE (LetInInv /\ PasswordInv /\ UnusedInv /\ UserInv /\ OwnerInv)'
      BY <1>2 DEF CredInv
  <2>4. LetInInv /\ UserInv
      BY <1>1, <2>3 DEF CredInv
  <2>5. \A i \in Instance : cr'[i].phase = "live" /\ claimer[i].phase # "none" => cr[i].phase = "live"
      BY <1>1 DEF ObjectMove, AbsentInv
  <2>6. LetInInv' /\ UserInv'
      BY <1>2, <2>4, <2>5 DEF LetInInv, LetIn, UserInv
  <2>7. PasswordInv' /\ UnusedInv'
      BY <1>2 DEF PasswordInv, UnusedInv
  <2>8. OwnerInv'
      BY <1>1, <1>2, <2>2 DEF OwnerInv
  <2> QED
      BY <2>6, <2>7, <2>8
<1> QED
    BY <1>4, <1>5

\* Every step keeps the invariant.
LEMMA NamespaceStep ==
    ASSUME NamespaceInv, NewPassword \in Password, [Next]_vars
    PROVE  NamespaceInv'
<1>1. TypeInv /\ PassInv /\ AbsentInv /\ CredInv /\ ObjectMove
    BY ObjectMoves DEF NamespaceInv
<1>2. TypeInv' /\ PassInv' /\ AbsentInv'
    BY <1>1, TypeStep, PassStep, AbsentStep
<1>3. SUFFICES CredInv'
    BY <1>2 DEF NamespaceInv
<1>4. CASE \E i \in Instance : Claim(i) \/ ExpireJob(i) \/ Collect(i)
    BY <1>1, <1>4, ClaimStep
<1>5. CASE GetSecret \/ CreateSecret \/ RereadSecret \/ SetUser \/ CreateJob
    BY <1>5, EnsureStep
<1>6. CASE ListInstances \/ OwnSecret \/ DeleteUser \/ DeleteSecret \/ DropCredentials
    BY <1>6, CleanupStep
<1>7. CASE AddFinalizer
    BY <1>7, MarkStep
<1>8. CASE UNCHANGED <<cr, secret, acl, misled, reprieved, claimer>> /\ pc' = "idle"
    BY <1>1, <1>8, QuietStep DEF CredSteps, Kept
<1>9. CASE \/ Lookup \/ Save \/ StartStream \/ AddCleanup \/ FindDeployment \/ CreateDeployment
           \/ PatchDeployment \/ EnsureService \/ MissService \/ ReadStatus
           \/ StopDeployment \/ StopServices
           \/ DeleteDeployment \/ DeleteServices \/ DropCleanup \/ FindJob
  <2>1. UNCHANGED <<secret, acl, misled, reprieved, claimer>> /\ pc # "dropCredentials"
      BY <1>9 DEF Lookup, Save, StartStream, AddCleanup, FindDeployment, CreateDeployment,
         PatchDeployment, EnsureService, MissService, ReadStatus, StopDeployment, StopServices,
         DeleteDeployment, DeleteServices, DropCleanup, FindJob, creds, history, batches, At
  <2>2. pc' \notin CredSteps
      BY <1>9 DEF Lookup, Save, StartStream, AddCleanup, FindDeployment, CreateDeployment,
         PatchDeployment, EnsureService, MissService, ReadStatus, StopDeployment, StopServices,
         DeleteDeployment, DeleteServices, DropCleanup, FindJob, AfterFinalizer, Named, Degrade,
         Continue, Finish, GoTo, CredSteps
  <2> QED
      BY <1>1, <2>1, <2>2, KeptMarks, QuietStep
<1>10. CASE \/ SyncSecret \/ Tick \/ Outage \/ Recover \/ UNCHANGED vars
           \/ \E i \in Instance : \/ Create(i) \/ Delete(i) \/ TurnReady(i)
                                 \/ TurnUnready(i) \/ SyncDeployment(i)
  <2>1. UNCHANGED <<secret, acl, misled, reprieved, claimer, pc, me, r>>
      BY <1>10 DEF SyncSecret, Tick, Outage, Recover, vars, Create, Delete, TurnReady, TurnUnready,
         SyncDeployment, creds, history, batches, worker
  <2>2. Kept
    <3>1. CASE pc = "dropCredentials"
        BY <1>1, <2>1, <3>1 DEF ObjectMove, Kept
    <3>2. CASE pc # "dropCredentials"
        BY <1>1, <3>2, KeptMarks
    <3> QED
        BY <3>1, <3>2
  <2> QED
      BY <1>1, <2>1, <2>2, QuietStep
<1>11. CASE Restart
    BY <1>8, <1>11 DEF Restart, Finish, GoTo, creds, history, batches
<1>12. CASE \E i \in Instance : Begin(i)
  <2>1. UNCHANGED <<cr, secret, acl, misled, reprieved, claimer>> /\ pc' \notin CredSteps
      BY <1>12 DEF Begin, GoTo, creds, history, batches, CredSteps
  <2> QED
      BY <1>1, <2>1, QuietStep DEF Kept
<1> QED
    BY <1>4, <1>5, <1>6, <1>7, <1>9, <1>10, <1>11, <1>12 DEF Next, Call

\* The invariant holds at first.
LEMMA InitNamespace ==
    ASSUME Init PROVE NamespaceInv
<1>1. pc = "idle" /\ acl = None /\ \A i \in Instance : claimer[i] = NoClaimer
    BY DEF Init
<1>2. ~ secret.managed
    BY DEF Init
<1>3. NoClaimer.phase = "none"
    BY DEF NoClaimer, Claimer
<1> QED
    BY <1>1, <1>2, <1>3, InitReleases DEF NamespaceInv, ReleaseInv, CredInv, LetInInv, PasswordInv,
       UnusedInv, UserInv, OwnerInv

\* The invariant behind the two theorems that follow: who has a claimer finds
\* the password of the Secret in Valkey, and a Secret that the controller made
\* has an instance that will see to it.
THEOREM NamespaceInvariant ==
    ASSUME IsFiniteSet(Instance), ~ IsFiniteSet(Password)
    PROVE  Spec => []NamespaceInv
<1>1. NamespaceInv /\ [Next]_vars => NamespaceInv'
    BY Fresh, NamespaceStep DEF NamespaceInv, TypeInv
<1> QED
    BY <1>1, InitNamespace, PTL DEF Spec

\* The claimer of an instance that nobody deletes is never turned away, whatever
\* else in the namespace comes and goes and whatever calls fail, unless a pass
\* took its password from an outdated cache (ensureNamespaceValkeyCredentials).
THEOREM ClaimersLetIn ==
    ASSUME IsFiniteSet(Instance), ~ IsFiniteSet(Password)
    PROVE  Spec => []ClaimerNeverRefused
<1>1. NamespaceInv => ClaimerNeverRefused
  <2>1. SUFFICES ASSUME NamespaceInv, ~ misled, NEW i \in Instance, cr[i].phase = "live"
                 PROVE  claimer[i].phase # "refused"
      BY DEF ClaimerNeverRefused
  <2>2. LetInInv
      BY <2>1 DEF NamespaceInv, CredInv
  <2> QED
      BY <2>1, <2>2 DEF LetInInv, LetIn
<1> QED
    BY <1>1, NamespaceInvariant, PTL

\* When the last instance is gone, so are the Secret and the ACL user, whatever
\* calls failed on the way (cleanupNamespaceValkeyCredentials), with the two
\* provisos that NothingLeft names.
THEOREM NothingIsLeft ==
    ASSUME IsFiniteSet(Instance), ~ IsFiniteSet(Password)
    PROVE  Spec => []NothingLeft
<1>1. NamespaceInv => NothingLeft
  <2>1. SUFFICES ASSUME NamespaceInv, ~ misled, ~ reprieved,
                        \A i \in Instance : cr[i].phase \in {"new", "gone"}
                 PROVE  ~ secret.managed /\ (acl = None \/ secret # NoSecret)
      BY DEF NothingLeft, Deserted, CleanedUp
  <2>2. UserInv /\ OwnerInv /\ AbsentInv
      BY <2>1 DEF NamespaceInv, CredInv
  <2>3. ~ secret.managed
      BY <2>1, <2>2 DEF OwnerInv, AbsentInv
  <2>4. acl # None => secret # NoSecret
      BY <2>2 DEF UserInv, NoSecret
  <2> QED
      BY <2>3, <2>4
<1> QED
    BY <1>1, NamespaceInvariant, PTL
============================================================================
