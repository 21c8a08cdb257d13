------------------------ MODULE NamespaceCredentials ------------------------
(***************************************************************************)
(* ensureJob with ensureNamespaceValkeyCredentials, and                    *)
(* cleanupNamespaceValkeyCredentials: the Secret is the source of truth    *)
(* for the password, Valkey's ACL user must agree with it, and the last    *)
(* instance of the namespace takes both away.                              *)
(***************************************************************************)
EXTENDS NamespaceState

\* 32 random bytes: a password nobody has yet.
NewPassword ==
    CHOOSE p \in Password :
        /\ p \notin {secret.password, secretView.password, acl}
        /\ \A i \in Instance : claimer[i].password # p

----------------------------------------------------------------------------
(* ensureJob, ensureNamespaceValkeyCredentials                             *)

\* The Job is looked for only if the status names it.  What else a pass does
\* once the Job is there is in BatchReconcile.
FindJob ==
    /\ At("findJob")
    /\ \E out \in Reads :
          /\ Charge(out)
          /\ IF out = "refused" THEN Degrade
             ELSE Continue(IF pi.status.named /\ job[me] THEN "save" ELSE "getSecret")
    /\ UNCHANGED <<mode, cr, streams, batches, creds, up, history>>

\* A slip: the keys of the Secret are taken as they are.
UseAnySecret ==
    /\ r' = [r EXCEPT !.password = secretView.password]
    /\ GoTo("setUser")
    /\ UNCHANGED <<me, pi>>

\* The password of the Secret as the cache has it, which must be well-formed.
UseSecret ==
    IF secretView.password \in {None, Malformed} THEN Degrade
    ELSE /\ r' = [r EXCEPT !.password = secretView.password]
         /\ GoTo("setUser")
         /\ UNCHANGED <<me, pi>>

\* The cache shows a password the Secret does not have, or no longer has.
Outdated == secretView.password \in Password /\ secretView.password # secret.password

GetSecret ==
    /\ At("getSecret")
    /\ \E out \in Reads :
          /\ Charge(out)
          /\ IF out = "refused" THEN Degrade
             ELSE IF secretView.password = None THEN Continue("createSecret")
             ELSE UseSecret
    /\ misled' = (misled \/ Outdated)
    /\ UNCHANGED <<mode, cr, streams, batches, creds, up, reprieved>>

\* The new password is stored before it is given to Valkey; if there is a
\* Secret after all, the one it has is used instead.
CreateSecret ==
    /\ At("createSecret")
    /\ \E out \in Writes :
          /\ Charge(out)
          /\ LET exists == secret.password # None
                 new == [password |-> NewPassword, managed |-> TRUE]
             IN /\ secret' = IF exists THEN secret ELSE Takes(out, new, secret)
                /\ IF exists /\ out = "ok" THEN Continue("rereadSecret")
                   ELSE IF out # "ok" THEN Degrade
                   ELSE /\ r' = [r EXCEPT !.password = new.password]
                        /\ GoTo("setUser")
                        /\ UNCHANGED <<me, pi>>
    /\ UNCHANGED <<mode, cr, streams, batches, secretView, acl, up, history>>

\* The cache may still not have it.
RereadSecret ==
    /\ At("rereadSecret")
    /\ \E out \in Reads : Charge(out) /\ IF out = "refused" THEN Degrade ELSE UseSecret
    /\ misled' = (misled \/ Outdated)
    /\ UNCHANGED <<mode, cr, streams, batches, creds, up, reprieved>>

\* EnsureACLUser
SetUser ==
    /\ At("setUser")
    /\ \E out \in Writes :
          /\ Charge(out)
          /\ acl' = IF up THEN Takes(out, r.password, acl) ELSE acl
          /\ IF up /\ out = "ok" THEN Continue("createJob") ELSE Degrade
    /\ UNCHANGED <<mode, cr, streams, batches, secret, secretView, up, history>>

\* A Job whose name was never saved is refused as existing already.
CreateJob ==
    /\ At("createJob")
    /\ \E out \in Writes :
          /\ Charge(out)
          /\ IF job[me] \/ out = "refused" THEN UNCHANGED batches
             ELSE /\ job' = [job EXCEPT ![me] = TRUE]
                  /\ claimer' = [claimer EXCEPT ![me] = Claimer("waiting", None)]
          /\ GoTo("save")
          /\ pi' = [pi EXCEPT !.status.named = @ \/ (out = "ok" /\ ~ job[me])]
    /\ UNCHANGED <<mode, cr, streams, creds, up, history, me, r>>

----------------------------------------------------------------------------
(* cleanupNamespaceValkeyCredentials; an error ends the pass, and the      *)
(* finalizer stays                                                         *)

\* A slip: the test of the deletion timestamp is the wrong way round.
ActiveDeleted == {i \in Instance \ {me} : cr[i].phase = "deleting"}

\* A slip: only instances of the same mode are asked.
ActiveOfMode == {i \in Instance \ {me} : cr[i].phase = "live" /\ Streaming(i) = Streaming(me)}

\* Instances that are not being deleted, marked with the finalizer or not.
Active == {i \in Instance \ {me} : cr[i].phase = "live"}

ListInstances ==
    /\ At("listInstances")
    /\ \E out \in Reads :
          /\ Charge(out)
          /\ IF out = "refused" THEN Finish
             ELSE Continue(IF Active # {} THEN "dropCredentials" ELSE "ownSecret")
    /\ reprieved' = (reprieved \/ (Active # {} /\ \A i \in Active : Credentials \notin cr[i].finalizers))
    /\ UNCHANGED <<mode, cr, streams, batches, creds, up, misled>>

\* Only a Secret that the controller has made is its to delete.
OwnSecret ==
    /\ At("ownSecret")
    /\ \E out \in Reads :
          /\ Charge(out)
          /\ IF out = "refused" THEN Finish
             ELSE Continue(IF secretView.managed THEN "deleteUser" ELSE "dropCredentials")
    /\ misled' = (misled \/ (secret.managed /\ ~ secretView.managed))
    /\ UNCHANGED <<mode, cr, streams, batches, creds, up, reprieved>>

\* DeleteACLUser
DeleteUser ==
    /\ At("deleteUser")
    /\ \E out \in Writes :
          /\ Charge(out)
          /\ acl' = IF up THEN Takes(out, None, acl) ELSE acl
          /\ IF up /\ out = "ok" THEN Continue("deleteSecret") ELSE Finish
    /\ UNCHANGED <<mode, cr, streams, batches, secret, secretView, up, history>>

\* A slip: an error is only logged, and the finalizer goes.
DeleteSecretAnyway ==
    /\ At("deleteSecret")
    /\ \E out \in Writes : secret' = Takes(out, NoSecret, secret) /\ Charge(out)
    /\ Continue("dropCredentials")
    /\ UNCHANGED <<mode, cr, streams, batches, secretView, acl, up, history>>

DeleteSecret ==
    /\ At("deleteSecret")
    /\ \E out \in Writes :
          /\ Charge(out)
          /\ secret' = Takes(out, NoSecret, secret)
          /\ IF out = "ok" THEN Continue("dropCredentials") ELSE Finish
    /\ UNCHANGED <<mode, cr, streams, batches, secretView, acl, up, history>>

----------------------------------------------------------------------------
(* The informer's cache follows the Secret.                                *)
SyncSecret ==
    /\ secretView # secret
    /\ secretView' = secret
    /\ UNCHANGED <<mode, cr, streams, batches, secret, acl, up, history, worker>>
=============================================================================
