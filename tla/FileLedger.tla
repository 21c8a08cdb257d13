----------------------------- MODULE FileLedger -----------------------------
(***************************************************************************)
(* What a batch run promises about its files (at-least-once delivery),     *)
(* with no stream, no pods and no reconciler: a file that was admitted is  *)
(* waiting until it has been processed or buried in the dead letter queue. *)
(* The promise ends with the flush of a failed run.                        *)
(***************************************************************************)
CONSTANTS
    File        \* the files of the run

VARIABLES
    admitted,   \* the files the run was given
    waiting,    \* those with a message that is yet to be dealt with
    processed,  \* those that a pod has processed to success
    buried,     \* those with a dead letter record
    flushed     \* whether the run was given up, and its messages flushed

ledger == <<admitted, waiting, processed, buried, flushed>>

LedgerInit ==
    /\ admitted = {} /\ waiting = {} /\ processed = {} /\ buried = {}
    /\ flushed = FALSE

\* A file is given to the run, once: one that was dealt with never comes back.
Admit(f) ==
    /\ f \notin admitted
    /\ admitted' = admitted \cup {f}
    /\ waiting' = waiting \cup {f}
    /\ UNCHANGED <<processed, buried, flushed>>

\* A pod succeeds with a file, which another pod may have dealt with before.
Process(f) ==
    /\ f \in admitted
    /\ processed' = processed \cup {f}
    /\ UNCHANGED <<admitted, waiting, buried, flushed>>

\* The last attempt has failed.
Bury(f) ==
    /\ f \in waiting
    /\ buried' = buried \cup {f}
    /\ UNCHANGED <<admitted, waiting, processed, flushed>>

\* The last message of a file is acknowledged.
Release(f) ==
    /\ f \in processed \cup buried
    /\ waiting' = waiting \ {f}
    /\ UNCHANGED <<admitted, processed, buried, flushed>>

\* The flush takes messages away and rewrites the dead letter records, and
\* what it does not get done nobody does.
Flush ==
    /\ flushed' = TRUE
    /\ waiting' \subseteq waiting
    /\ buried' \subseteq admitted
    /\ UNCHANGED <<admitted, processed>>

LedgerNext ==
    \/ \E f \in File : Admit(f) \/ Process(f) \/ Bury(f) \/ Release(f)
    \/ Flush

LedgerSpec == LedgerInit /\ [][LedgerNext]_ledger

----------------------------------------------------------------------------
\* The files of the run are accounted for until it is flushed.
Accounted == ~ flushed => admitted \subseteq waiting \cup processed \cup buried
=============================================================================
