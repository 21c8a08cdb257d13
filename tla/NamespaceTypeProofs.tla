------------------------ MODULE NamespaceTypeProofs ------------------------
(***************************************************************************)
(* Type correctness of Namespace, for any number of instances.             *)
(***************************************************************************)
EXTENDS Namespace, FiniteSetTheorems, TLAPS

\* A pass is about an instance.
TypeInv == TypeOK /\ (pc # "idle" => me \in Instance)

\* What Status().Update stores is an object.
LEMMA StoredStatus ==
    ASSUME cr \in [Instance -> Object], NEW out, NEW status \in Status,
           StoreStatus(out, status)
    PROVE  cr' \in [Instance -> Object]
    BY DEF StoreStatus, Takes, Object

\* What Update stores is an object.
LEMMA StoredFinalizers ==
    ASSUME cr \in [Instance -> Object], NEW out,
           NEW finalizers \in SUBSET {Credentials, Cleanup},
           StoreFinalizers(out, finalizers)
    PROVE  cr' \in [Instance -> Object]
<1>1. Gone \in Object
    BY NamespaceAssumption DEF Gone, NewObject, NewStatus, Object, Status, Age, Unset
<1> QED
    BY <1>1 DEF StoreFinalizers, Takes, Object

\* Faults stay within their bound.
LEMMA Charged ==
    ASSUME faults \in 0 .. MaxFaults, NEW out \in Writes \cup Reads, Charge(out)
    PROVE  faults' \in 0 .. MaxFaults
    BY NamespaceAssumption DEF Charge, Writes, Reads, CanFault

\* A status stays one as time passes.
LEMMA AgedStatus ==
    ASSUME NEW status \in Status
    PROVE  Aged(status) \in Status
<1>1. \A a \in Age : Older(a) \in Age
    BY NamespaceAssumption DEF Older, Age, Unset
<1> QED
    BY <1>1 DEF Aged, Status

\* There is a password that nobody has, since there are infinitely many.
LEMMA Fresh ==
    ASSUME TypeOK, IsFiniteSet(Instance), ~ IsFiniteSet(Password)
    PROVE  NewPassword \in Password
<1> DEFINE held == [i \in Instance |-> claimer[i].password]
           used == {held[i] : i \in Instance}
           taken == used \cup {secret.password} \cup {secretView.password} \cup {acl}
<1>1. IsFiniteSet(used)
  <2>1. held \in Surjection(Instance, used)
      BY DEF Surjection
  <2> QED
      BY <2>1, FS_Surjection
<1>2. IsFiniteSet(taken)
    BY <1>1, FS_AddElement
<1>3. PICK p \in Password : p \notin taken
    BY <1>2, FS_Subset
<1>4. /\ p \notin {secret.password, secretView.password, acl}
      /\ \A i \in Instance : claimer[i].password # p
    BY <1>3
<1> HIDE DEF taken, used
<1> QED
    BY <1>4 DEF NewPassword

\* The steps of users, the garbage collector, Deployments, claimers and Jobs.
LEMMA InstanceTypes ==
    ASSUME TypeInv, \E i \in Instance : \/ Create(i) \/ Delete(i) \/ Collect(i) \/ Begin(i)
                                        \/ TurnReady(i) \/ TurnUnready(i) \/ SyncDeployment(i)
                                        \/ Claim(i) \/ ExpireJob(i)
    PROVE  TypeInv'
<1>1. PICK i \in Instance : \/ Create(i) \/ Delete(i) \/ Collect(i) \/ Begin(i)
                            \/ TurnReady(i) \/ TurnUnready(i) \/ SyncDeployment(i)
                            \/ Claim(i) \/ ExpireJob(i)
    OBVIOUS
<1>2. NoClaimer \in Claimers /\ Gone \in Object
    BY NamespaceAssumption DEF NoClaimer, Claimer, Claimers, ClaimerPhases, Gone, NewObject,
       NewStatus, Object, Status, Age, Unset
<1>3. CASE Create(i) \/ Delete(i)
  <2>1. \A o \in Object, p \in {"new", "live", "deleting", "gone"} : [o EXCEPT !.phase = p] \in Object
      BY DEF Object
  <2>2. cr' \in [Instance -> Object]
    <3>1. cr[i] \in Object /\ cr \in [Instance -> Object]
        BY DEF TypeInv, TypeOK
    <3>2. \E o \in Object : cr' = [cr EXCEPT ![i] = o]
        BY <1>2, <1>3, <2>1, <3>1 DEF Create, Delete
    <3> QED
        BY <3>1, <3>2
  <2>3. UNCHANGED <<mode, dep, depView, svcs, quiet, job, claimer, secret, secretView, acl,
                    up, misled, reprieved, pc, me, pi, r, faults>>
      BY <1>3 DEF Create, Delete, streams, batches, creds, history, worker
  <2> QED
      BY <2>2, <2>3 DEF TypeInv, TypeOK
<1>4. CASE Collect(i)
    BY <1>2, <1>4 DEF Collect, TypeInv, TypeOK, DepStates, creds, history, worker
<1>5. CASE Begin(i)
    BY <1>5 DEF Begin, GoTo, Steps, TypeInv, TypeOK, streams, batches, creds, history
<1>6. CASE TurnReady(i) \/ TurnUnready(i) \/ SyncDeployment(i)
    BY <1>6 DEF TurnReady, TurnUnready, SyncDeployment, DepStates, TypeInv, TypeOK,
       batches, creds, history, worker
<1>7. CASE Claim(i) \/ ExpireJob(i)
  <2>1. job' \in [Instance -> BOOLEAN]
      BY <1>7 DEF Claim, StartClaimer, Connect, Interrupt, Deliver, Replace, ExpireJob, Elsewhere,
         TypeInv, TypeOK
  <2>2. claimer' \in [Instance -> Claimers]
    <3>1. PICK phase \in ClaimerPhases, password \in Password \cup {None} :
            claimer' = [claimer EXCEPT ![i] = Claimer(phase, password)]
        BY <1>7 DEF Claim, StartClaimer, Connect, Interrupt, Deliver, Replace, ExpireJob, Turn,
           ClaimerPhases, Claimers, TypeInv, TypeOK
    <3> QED
        BY <3>1 DEF Claimer, Claimers, TypeInv, TypeOK
  <2> QED
      BY <1>7, <2>1, <2>2 DEF Claim, StartClaimer, Connect, Interrupt, Deliver, Replace,
         ExpireJob, Turn, Elsewhere, TypeInv, TypeOK, streams, creds, history, worker
<1> QED
    BY <1>1, <1>3, <1>4, <1>5, <1>6, <1>7

\* The steps of the clock, the informer of the Secret, faults and outages.
LEMMA OtherTypes ==
    ASSUME TypeInv, Restart \/ SyncSecret \/ Tick \/ Outage \/ Recover
    PROVE  TypeInv'
<1>1. NewObject \in Object /\ Blank \in [todo : SUBSET Service, password : Password \cup {None}]
    BY NamespaceAssumption DEF NewObject, NewStatus, Object, Status, Age, Unset, Blank
<1>2. CASE Restart
    BY <1>1, <1>2, NamespaceAssumption DEF Restart, CanFault, Finish, GoTo, At, Steps, TypeInv,
       TypeOK, streams, batches, creds, history
<1>3. CASE SyncSecret \/ Outage \/ Recover
  <2>1. UNCHANGED <<mode, cr, dep, depView, svcs, quiet, job, claimer, secret, acl, misled,
                    reprieved, pc, me, pi, r>>
      BY <1>3 DEF SyncSecret, Outage, Recover, streams, batches, creds, history, worker
  <2>2. secretView' \in Secrets /\ up' \in BOOLEAN
      BY <1>3 DEF SyncSecret, Outage, Recover, TypeInv, TypeOK, creds
  <2>3. faults' = faults \/ (faults < MaxFaults /\ faults' = faults + 1)
      BY <1>3 DEF SyncSecret, Outage, Recover, CanFault, worker
  <2>4. faults' \in 0 .. MaxFaults
      BY <2>3, NamespaceAssumption DEF TypeInv, TypeOK
  <2> QED
      BY <2>1, <2>2, <2>4 DEF TypeInv, TypeOK
<1>4. CASE Tick
  <2>1. cr' \in [Instance -> Object] /\ pi' \in Object
    <3>1. \A o \in Object : [o EXCEPT !.status = Aged(@)] \in Object
        BY AgedStatus DEF Object
    <3> QED
        BY <1>4, <3>1 DEF Tick, TypeInv, TypeOK
  <2>2. quiet' \in [Instance -> 0 .. IdleTimeout]
    <3>1. \A n \in 0 .. IdleTimeout : Older(n) \in 0 .. IdleTimeout
        BY NamespaceAssumption DEF Older, Unset
    <3> QED
        BY <1>4, <3>1, NamespaceAssumption DEF Tick, TypeInv, TypeOK
  <2> QED
      BY <1>4, <2>1, <2>2 DEF Tick, TypeInv, TypeOK, batches, creds, history
<1> QED
    BY <1>2, <1>3, <1>4

\* The calls that store an instance.
LEMMA PassTypes ==
    ASSUME TypeInv, AddFinalizer \/ Lookup \/ Save \/ DropCredentials \/ StartStream \/ AddCleanup
    PROVE  TypeInv'
<1>1. NewObject \in Object /\ Blank \in [todo : SUBSET Service, password : Password \cup {None}]
    BY NamespaceAssumption DEF NewObject, NewStatus, Object, Status, Age, Unset, Blank
<1>2. me \in Instance
    BY DEF AddFinalizer, Lookup, Save, DropCredentials, StartStream, AddCleanup, At, TypeInv
<1>3. /\ cr \in [Instance -> Object] /\ faults \in 0 .. MaxFaults
      /\ pi.status \in Status /\ pi.finalizers \in SUBSET {Credentials, Cleanup}
    BY DEF TypeInv, TypeOK, Object
<1>4. \A out : out \in Reads \cup Writes /\ Charge(out) => faults' \in 0 .. MaxFaults
    BY <1>3, Charged
<1>5. \A out, status : status \in Status /\ StoreStatus(out, status) => cr' \in [Instance -> Object]
    BY <1>2, <1>3, StoredStatus
<1>6. \A out, finalizers : finalizers \in SUBSET {Credentials, Cleanup} /\ StoreFinalizers(out, finalizers)
        => cr' \in [Instance -> Object]
    BY <1>2, <1>3, StoredFinalizers
<1>7. CASE AddFinalizer
    BY <1>1, <1>3, <1>4, <1>6, <1>7 DEF AddFinalizer, Finish, GoTo, Steps, TypeInv, TypeOK, streams, batches, creds
<1>8. CASE Lookup
    BY <1>3, <1>4, <1>8 DEF Lookup, Degrade, Continue, GoTo, Steps, TypeInv, TypeOK, streams,
       batches, creds, history, At
<1>9. CASE Save
    BY <1>1, <1>3, <1>4, <1>5, <1>9 DEF Save, Finish, GoTo, Steps, TypeInv, TypeOK, streams, batches, creds, history
<1>10. CASE DropCredentials \/ AddCleanup
    BY <1>1, <1>3, <1>4, <1>6, <1>10 DEF DropCredentials, AddCleanup, Finish, GoTo, Steps, TypeInv,
       TypeOK, streams, batches, creds, history
<1>11. CASE StartStream
  <2>1. [pi.status EXCEPT !.started = 0] \in Status
      BY <1>3, NamespaceAssumption DEF Status, Age, Unset
  <2>2. cr' \in [Instance -> Object] /\ faults' \in 0 .. MaxFaults
      BY <1>4, <1>5, <1>11, <2>1 DEF StartStream
  <2>3. pi' \in Object /\ r' \in [todo : SUBSET Service, password : Password \cup {None}]
        /\ pc' \in Steps /\ me' \in Instance \cup {None} /\ (pc' # "idle" => me' \in Instance)
      BY <1>1, <1>2, <1>11, <2>1 DEF StartStream, AfterFinalizer, Finish, GoTo, Steps, Object, TypeInv, TypeOK
  <2> QED
      BY <1>11, <2>2, <2>3 DEF StartStream, TypeInv, TypeOK, streams, batches, creds, history
<1> QED
    BY <1>7, <1>8, <1>9, <1>10, <1>11

\* The calls of reconcileStreaming.
LEMMA StreamTypes ==
    ASSUME TypeInv,
           \/ FindDeployment \/ CreateDeployment \/ PatchDeployment
           \/ EnsureService \/ MissService \/ ReadStatus
           \/ StopDeployment \/ StopServices \/ DeleteDeployment \/ DeleteServices \/ DropCleanup
    PROVE  TypeInv'
<1>1. NewObject \in Object /\ Blank \in [todo : SUBSET Service, password : Password \cup {None}]
    BY NamespaceAssumption DEF NewObject, NewStatus, Object, Status, Age, Unset, Blank
<1>2. me \in Instance
    BY DEF FindDeployment, CreateDeployment, PatchDeployment, EnsureService, MissService,
       ReadStatus, StopDeployment, StopServices, DeleteDeployment, DeleteServices, DropCleanup,
       At, TypeInv
<1>3. /\ cr \in [Instance -> Object] /\ faults \in 0 .. MaxFaults
      /\ pi \in Object /\ pi.status \in Status /\ pi.finalizers \in SUBSET {Credentials, Cleanup}
      /\ dep \in [Instance -> DepStates] /\ depView \in [Instance -> DepStates]
      /\ svcs \in [Instance -> SUBSET Service] /\ quiet \in [Instance -> 0 .. IdleTimeout]
      /\ r \in [todo : SUBSET Service, password : Password \cup {None}]
    BY DEF TypeInv, TypeOK, Object
<1>4. \A out : out \in Reads \cup Writes /\ Charge(out) => faults' \in 0 .. MaxFaults
    BY <1>3, Charged
<1>5. ASSUME pi' \in Object, r' \in [todo : SUBSET Service, password : Password \cup {None}],
             pc' \in Steps, me' \in Instance \cup {None}, pc' # "idle" => me' \in Instance,
             cr' \in [Instance -> Object], faults' \in 0 .. MaxFaults,
             dep' \in [Instance -> DepStates], depView' = depView,
             svcs' \in [Instance -> SUBSET Service], quiet' \in [Instance -> 0 .. IdleTimeout],
             UNCHANGED <<mode, job, claimer, secret, secretView, acl, up, misled, reprieved>>
      PROVE  TypeInv'
    BY <1>5 DEF TypeInv, TypeOK
<1>6. CASE FindDeployment \/ MissService
    BY <1>2, <1>3, <1>4, <1>5, <1>6, NamespaceAssumption DEF FindDeployment, MissService, CanFault,
       Degrade, Continue, GoTo, Steps, streams, batches, creds, history
<1>7. Named => /\ pi' \in Object /\ pc' \in Steps /\ me' = me
               /\ r' \in [todo : SUBSET Service, password : Password \cup {None}]
  <2>1. [pi EXCEPT !.status.named = TRUE] \in Object
      BY <1>3 DEF Object, Status
  <2> QED
      BY <1>3, <2>1 DEF Named, GoTo, Steps
<1>8. CASE CreateDeployment
  <2>1. dep' \in [Instance -> DepStates] /\ faults' \in 0 .. MaxFaults
      BY <1>2, <1>3, <1>4, <1>8 DEF CreateDeployment, DepStates, Takes
  <2>2. Named \/ Degrade
      BY <1>8 DEF CreateDeployment
  <2> QED
      BY <1>2, <1>3, <1>5, <1>7, <1>8, <2>1, <2>2 DEF CreateDeployment, Degrade, Continue, GoTo,
         Steps, batches, creds, history
<1>9. CASE PatchDeployment
  <2>1. faults' \in 0 .. MaxFaults
      BY <1>4, <1>9 DEF PatchDeployment
  <2>2. Named \/ Degrade
      BY <1>9 DEF PatchDeployment
  <2> QED
      BY <1>2, <1>3, <1>5, <1>7, <1>9, <2>1, <2>2 DEF PatchDeployment, Degrade, Continue, GoTo,
         Steps, streams, batches, creds, history
<1>10. CASE EnsureService
  <2>1. svcs' \in [Instance -> SUBSET Service] /\ faults' \in 0 .. MaxFaults
      BY <1>2, <1>3, <1>4, <1>10 DEF EnsureService, Takes
  <2>2. /\ pi' = pi /\ me' = me /\ pc' \in Steps
        /\ r' \in [todo : SUBSET Service, password : Password \cup {None}]
      BY <1>3, <1>10 DEF EnsureService, Degrade, Continue, GoTo, Steps
  <2> QED
      BY <1>2, <1>3, <1>5, <1>10, <2>1, <2>2 DEF EnsureService, batches, creds, history
<1>11. CASE ReadStatus
  <2>1. \A out : Observed(out) \in Status
    <3>1. \A s \in Status, a \in Age, b \in BOOLEAN :
             [s EXCEPT !.ready = b, !.lastReady = a] \in Status
        BY DEF Status
    <3>2. pi.status.lastReady \in Age /\ 0 \in Age
        BY <1>3, NamespaceAssumption DEF Status, Age
    <3> QED
        BY <1>3, <3>1, <3>2 DEF Observed
  <2>2. pi' \in Object
    <3>1. PICK status \in Status :
            \/ pi' = [pi EXCEPT !.status = [status EXCEPT !.ended = TRUE]]
            \/ pi' = [pi EXCEPT !.status = status]
        BY <1>11, <2>1 DEF ReadStatus
    <3>2. [status EXCEPT !.ended = TRUE] \in Status
        BY DEF Status
    <3> QED
        BY <1>3, <3>1, <3>2 DEF Object
  <2>3. quiet' \in [Instance -> 0 .. IdleTimeout] /\ faults' \in 0 .. MaxFaults
      BY <1>2, <1>3, <1>4, <1>11, NamespaceAssumption DEF ReadStatus
  <2>4. pc' \in Steps
      BY <1>11 DEF ReadStatus, GoTo, Steps
  <2> QED
      BY <1>2, <1>3, <1>5, <1>11, <2>2, <2>3, <2>4 DEF ReadStatus, batches, creds, history
<1>12. \A out : DeletesDeployment(out) => dep' \in [Instance -> DepStates]
    BY <1>2, <1>3 DEF DeletesDeployment, DepStates, Takes
<1>13. \A out \in {"ok", "refused"} : DeletesServices(out)
         => svcs' \in [Instance -> SUBSET Service] /\ faults' \in 0 .. MaxFaults
    BY <1>2, <1>3, NamespaceAssumption DEF DeletesServices, CanFault
<1>14. CASE StopDeployment \/ DeleteDeployment
  <2>1. dep' \in [Instance -> DepStates] /\ faults' \in 0 .. MaxFaults
      BY <1>4, <1>12, <1>14 DEF StopDeployment, DeleteDeployment
  <2>2. Continue("stopServices") \/ Continue("deleteServices") \/ Finish
      BY <1>14 DEF StopDeployment, DeleteDeployment
  <2> QED
      BY <1>1, <1>2, <1>3, <1>5, <1>14, <2>1, <2>2 DEF StopDeployment, DeleteDeployment, Continue,
         Finish, GoTo, Steps, batches, creds, history
<1>15. CASE StopServices \/ DeleteServices
  <2>1. svcs' \in [Instance -> SUBSET Service] /\ faults' \in 0 .. MaxFaults
      BY <1>13, <1>15 DEF StopServices, DeleteServices
  <2>2. Continue("save") \/ Continue("dropCleanup") \/ Finish
      BY <1>15 DEF StopServices, DeleteServices
  <2> QED
      BY <1>1, <1>2, <1>3, <1>5, <1>15, <2>1, <2>2 DEF StopServices, DeleteServices, Continue,
         Finish, GoTo, Steps, batches, creds, history
<1>16. CASE DropCleanup
  <2>1. cr' \in [Instance -> Object]
      BY <1>2, <1>3, <1>16, StoredFinalizers DEF DropCleanup
  <2> QED
      BY <1>1, <1>3, <1>4, <1>5, <1>16, <2>1 DEF DropCleanup, Finish, GoTo, Steps, streams, batches,
         creds, history
<1> QED
    BY <1>6, <1>8, <1>9, <1>10, <1>11, <1>14, <1>15, <1>16

\* The calls of ensureJob and of the clean-up of the credentials.
LEMMA CredentialTypes ==
    ASSUME TypeInv, NewPassword \in Password,
           \/ FindJob \/ GetSecret \/ CreateSecret \/ RereadSecret \/ SetUser \/ CreateJob
           \/ ListInstances \/ OwnSecret \/ DeleteUser \/ DeleteSecret
    PROVE  TypeInv'
<1>1. NewObject \in Object /\ Blank \in [todo : SUBSET Service, password : Password \cup {None}]
    BY NamespaceAssumption DEF NewObject, NewStatus, Object, Status, Age, Unset, Blank
<1>2. me \in Instance
    BY DEF FindJob, GetSecret, CreateSecret, RereadSecret, SetUser, CreateJob, ListInstances,
       OwnSecret, DeleteUser, DeleteSecret, At, TypeInv
<1>3. /\ faults \in 0 .. MaxFaults /\ pi \in Object /\ pi.status \in Status
      /\ r \in [todo : SUBSET Service, password : Password \cup {None}]
      /\ job \in [Instance -> BOOLEAN] /\ claimer \in [Instance -> Claimers]
      /\ secret \in Secrets /\ secretView \in Secrets /\ acl \in Password \cup {None}
      /\ misled \in BOOLEAN /\ reprieved \in BOOLEAN
    BY DEF TypeInv, TypeOK, Object
<1>4. \A out : out \in Reads \cup Writes /\ Charge(out) => faults' \in 0 .. MaxFaults
    BY <1>3, Charged
<1>5. ASSUME pi' \in Object, r' \in [todo : SUBSET Service, password : Password \cup {None}],
             pc' \in Steps, me' \in Instance \cup {None}, pc' # "idle" => me' \in Instance,
             faults' \in 0 .. MaxFaults, misled' \in BOOLEAN, reprieved' \in BOOLEAN,
             job' \in [Instance -> BOOLEAN], claimer' \in [Instance -> Claimers],
             secret' \in Secrets, acl' \in Password \cup {None},
             UNCHANGED <<mode, cr, dep, depView, svcs, quiet, secretView, up>>
      PROVE  TypeInv'
    BY <1>5 DEF TypeInv, TypeOK
<1>6. UseSecret => /\ pi' = pi /\ me' = me /\ pc' \in Steps
                   /\ r' \in [todo : SUBSET Service, password : Password \cup {None}]
    BY <1>3 DEF UseSecret, Degrade, Continue, GoTo, Steps, Secrets
<1>7. CASE FindJob
    BY <1>2, <1>3, <1>4, <1>5, <1>7 DEF FindJob, Degrade, Continue, GoTo, Steps, streams, batches,
       creds, history
<1>8. CASE GetSecret \/ RereadSecret
  <2>1. faults' \in 0 .. MaxFaults /\ misled' \in BOOLEAN
      BY <1>3, <1>4, <1>8 DEF GetSecret, RereadSecret, Outdated
  <2>2. UseSecret \/ Degrade \/ Continue("createSecret")
      BY <1>8 DEF GetSecret, RereadSecret
  <2>3. UNCHANGED <<mode, cr, streams, batches, creds, up, reprieved>>
      BY <1>8 DEF GetSecret, RereadSecret
  <2> QED
      BY <1>2, <1>3, <1>5, <1>6, <2>1, <2>2, <2>3 DEF Degrade, Continue, GoTo, Steps, streams,
         batches, creds
<1>9. CASE CreateSecret
  <2>1. secret' \in Secrets /\ faults' \in 0 .. MaxFaults
      BY <1>3, <1>4, <1>9 DEF CreateSecret, Takes, Secrets
  <2>2. /\ pi' = pi /\ me' = me /\ pc' \in Steps
        /\ r' \in [todo : SUBSET Service, password : Password \cup {None}]
      BY <1>3, <1>9 DEF CreateSecret, Degrade, Continue, GoTo, Steps
  <2> QED
      BY <1>2, <1>3, <1>5, <1>9, <2>1, <2>2 DEF CreateSecret, streams, batches, history
<1>10. CASE SetUser
  <2>1. acl' \in Password \cup {None} /\ faults' \in 0 .. MaxFaults
      BY <1>3, <1>4, <1>10 DEF SetUser, Takes
  <2>2. Continue("createJob") \/ Degrade
      BY <1>10 DEF SetUser
  <2> QED
      BY <1>2, <1>3, <1>5, <1>10, <2>1, <2>2 DEF SetUser, Degrade, Continue, GoTo, Steps, streams,
         batches, history
<1>11. CASE CreateJob
  <2>1. Claimer("waiting", None) \in Claimers
      BY DEF Claimer, Claimers, ClaimerPhases
  <2>2. job' \in [Instance -> BOOLEAN] /\ claimer' \in [Instance -> Claimers] /\ faults' \in 0 .. MaxFaults
      BY <1>2, <1>3, <1>4, <1>11, <2>1 DEF CreateJob, batches
  <2>3. pi' \in Object
    <3>1. pi.status.named \in BOOLEAN
        BY <1>3 DEF Status
    <3>2. \A b \in BOOLEAN : [pi EXCEPT !.status.named = b] \in Object
        BY <1>3 DEF Object, Status
    <3>3. \E b \in BOOLEAN : pi' = [pi EXCEPT !.status.named = b]
        BY <1>2, <1>3, <1>11, <3>1 DEF CreateJob
    <3> QED
        BY <3>2, <3>3
  <2> QED
      BY <1>2, <1>3, <1>5, <1>11, <2>2, <2>3 DEF CreateJob, GoTo, Steps, streams, creds, history
<1>12. CASE ListInstances \/ OwnSecret
  <2>1. faults' \in 0 .. MaxFaults /\ misled' \in BOOLEAN /\ reprieved' \in BOOLEAN
      BY <1>3, <1>4, <1>12 DEF ListInstances, OwnSecret, Secrets
  <2>2. Finish \/ Continue("dropCredentials") \/ Continue("ownSecret") \/ Continue("deleteUser")
      BY <1>12 DEF ListInstances, OwnSecret
  <2>3. UNCHANGED <<mode, cr, streams, batches, creds, up>>
      BY <1>12 DEF ListInstances, OwnSecret
  <2> QED
      BY <1>1, <1>2, <1>3, <1>5, <2>1, <2>2, <2>3 DEF Finish, Continue, GoTo, Steps, streams,
         batches, creds
<1>13. CASE DeleteUser \/ DeleteSecret
  <2>1. faults' \in 0 .. MaxFaults
      BY <1>4, <1>13 DEF DeleteUser, DeleteSecret
  <2>2. NoSecret \in Secrets
      BY DEF NoSecret, Secrets
  <2>3. acl' \in Password \cup {None} /\ secret' \in Secrets
      BY <1>3, <1>13, <2>2 DEF DeleteUser, DeleteSecret, Takes
  <2>4. Finish \/ Continue("dropCredentials") \/ Continue("deleteSecret")
      BY <1>13 DEF DeleteUser, DeleteSecret
  <2> QED
      BY <1>1, <1>2, <1>3, <1>5, <1>13, <2>1, <2>3, <2>4 DEF DeleteUser, DeleteSecret, Finish, Continue,
         GoTo, Steps, streams, batches, history
<1> QED
    BY <1>7, <1>8, <1>9, <1>10, <1>11, <1>12, <1>13

\* Every step keeps the types.
LEMMA TypeStep ==
    ASSUME TypeInv, NewPassword \in Password, [Next]_vars
    PROVE  TypeInv'
<1>1. CASE Call
    BY <1>1, PassTypes, StreamTypes, CredentialTypes DEF Call
<1>2. CASE UNCHANGED vars
    BY <1>2 DEF vars, TypeInv, TypeOK
<1>3. CASE Restart \/ SyncSecret \/ Tick \/ Outage \/ Recover
    BY <1>3, OtherTypes
<1>4. CASE \E i \in Instance : \/ Create(i) \/ Delete(i) \/ Collect(i) \/ Begin(i)
                              \/ TurnReady(i) \/ TurnUnready(i) \/ SyncDeployment(i)
                              \/ Claim(i) \/ ExpireJob(i)
    BY <1>4, InstanceTypes
<1> QED
    BY <1>1, <1>2, <1>3, <1>4 DEF Next

\* The types hold at first.
LEMMA InitTypes ==
    ASSUME Init PROVE TypeInv
<1>1. NewObject \in Object /\ Blank \in [todo : SUBSET Service, password : Password \cup {None}]
      /\ NoClaimer \in Claimers
    BY NamespaceAssumption DEF NewObject, NewStatus, Object, Status, Age, Unset, Blank, NoClaimer,
       Claimer, Claimers, ClaimerPhases
<1>2. secret \in Secrets /\ secretView \in Secrets
  <2>1. PICK p \in UserSecrets : secret = [password |-> p, managed |-> FALSE]
      BY DEF Init
  <2>2. p \in Password \cup {None, Malformed}
      BY NamespaceAssumption
  <2> QED
      BY <2>1, <2>2 DEF Init, Secrets
<1>3. /\ cr \in [Instance -> Object] /\ svcs \in [Instance -> SUBSET Service]
      /\ dep \in [Instance -> DepStates] /\ depView \in [Instance -> DepStates]
      /\ job \in [Instance -> BOOLEAN] /\ claimer \in [Instance -> Claimers]
    BY <1>1 DEF Init, DepStates
<1>4. quiet \in [Instance -> 0 .. IdleTimeout] /\ faults \in 0 .. MaxFaults
    BY NamespaceAssumption DEF Init
<1>5. /\ mode \in Modes /\ acl \in Password \cup {None} /\ up \in BOOLEAN
      /\ pc \in Steps /\ pc = "idle" /\ me \in Instance \cup {None} /\ pi \in Object
      /\ r \in [todo : SUBSET Service, password : Password \cup {None}]
      /\ misled \in BOOLEAN /\ reprieved \in BOOLEAN
    BY <1>1 DEF Init, Steps
<1> QED
    BY <1>2, <1>3, <1>4, <1>5 DEF TypeInv, TypeOK

\* The types are kept, and a pass is about an instance: for any number of
\* instances, whatever they are and whatever fails.
THEOREM TypesKept ==
    ASSUME IsFiniteSet(Instance), ~ IsFiniteSet(Password)
    PROVE  Spec => []TypeInv
<1>1. TypeInv /\ [Next]_vars => TypeInv'
    BY Fresh, TypeStep DEF TypeInv
<1> QED
    BY <1>1, InitTypes, PTL DEF Spec

\* Every variable of the namespace keeps its type.
THEOREM NamespaceTypeCorrect ==
    ASSUME IsFiniteSet(Instance), ~ IsFiniteSet(Password)
    PROVE  Spec => []TypeOK
<1>1. TypeInv => TypeOK
    BY DEF TypeInv
<1> QED
    BY <1>1, TypesKept, PTL
============================================================================
