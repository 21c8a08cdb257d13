----------------------------- MODULE WorkStream -----------------------------
(***************************************************************************)
(* The Valkey work stream of one PipelineInstance and its consumer group,  *)
(* as internal/queue/valkey.go uses them.  A stream is an append-only log  *)
(* whose positions are the message IDs; an entry keeps for ever the file   *)
(* and the attempts it was added with, XDEL only marks it deleted, and its *)
(* owner is the consumer it is pending for (NoOne when it is not in the    *)
(* pending entries list).  `delivered' is the group's last-delivered ID.   *)
(*                                                                         *)
(* Every operator is a function of the stream's value, so the components   *)
(* that share the stream decide when each command takes effect.            *)
(***************************************************************************)
EXTENDS Naturals, Integers, Sequences, FiniteSets

CONSTANTS
    File,       \* the files (S3 object keys) of the run
    NoOne       \* the owner of an entry that is not pending

Entry(Consumer) ==
    [file : File, attempts : Nat, owner : Consumer \cup {NoOne}, deleted : BOOLEAN]

Stream(Consumer) == [log : Seq(Entry(Consumer)), delivered : Nat]

EmptyStream == [log |-> << >>, delivered |-> 0]

----------------------------------------------------------------------------
(* What the commands read.                                                 *)

\* XRANGE - +: the entries that have not been deleted.
Present(s) == {i \in DOMAIN s.log : ~ s.log[i].deleted}

\* XLEN
Length(s) == Cardinality(Present(s))

\* The pending entries list of the group, and its part for one consumer.
Pending(s) == {i \in DOMAIN s.log : s.log[i].owner # NoOne}
PendingFor(s, c) == {i \in DOMAIN s.log : s.log[i].owner = c}

\* The entries XREADGROUP ">" has yet to hand out.
Undelivered(s) == {i \in Present(s) : i > s.delivered}

Least(S) == CHOOSE i \in S : \A j \in S : i <= j
Greatest(S) == CHOOSE i \in S : \A j \in S : j <= i

\* What XCLAIM and XAUTOCLAIM return of a set of IDs: the pending ones that
\* still exist.
Claimable(s, ids) == ids \cap Pending(s) \cap Present(s)

\* XINFO GROUPS "lag": the number of undelivered entries.  The server derives
\* it from counters, and may report none (LagUnknown) when the last deleted
\* entry is at or after the read pointer and an earlier entry still exists.
\* A stream emptied by XDEL keeps the difference of its counters.
LagUnknown == -1
LagReplies(s) ==
    LET Blurred == \E d \in DOMAIN s.log \ Present(s) :
                       d >= s.delivered /\ \E i \in Present(s) : i < d
    IN  {Cardinality(Undelivered(s))}
        \cup (IF Undelivered(s) # {} /\ Blurred THEN {LagUnknown} ELSE {})
        \cup (IF Present(s) = {} THEN {Len(s.log) - s.delivered} ELSE {})

----------------------------------------------------------------------------
(* What the commands write.                                                *)

XAdd(s, f, n) ==
    [s EXCEPT !.log = Append(@, [file |-> f, attempts |-> n,
                                 owner |-> NoOne, deleted |-> FALSE])]

\* A slip: the read pointer is left past the entry it handed out.
XReadGroupPast(s, c) ==
    LET i == Least(Undelivered(s))
    IN  [log |-> [s.log EXCEPT ![i].owner = c], delivered |-> i + 1]

\* XREADGROUP GROUP g c COUNT 1 STREAMS s ">", when there is an entry to read.
XReadGroup(s, c) ==
    LET i == Least(Undelivered(s))
    IN  [log |-> [s.log EXCEPT ![i].owner = c], delivered |-> i]

XAck(s, i) == [s EXCEPT !.log[i].owner = NoOne]

XDel(s, ids) ==
    [log |-> [i \in DOMAIN s.log |->
        IF i \in ids THEN [s.log[i] EXCEPT !.deleted = TRUE] ELSE s.log[i]],
     delivered |-> s.delivered]

\* XCLAIM and XAUTOCLAIM: pending entries change owner, and those that were
\* deleted from the stream leave the pending entries list.
XClaim(s, ids, c) ==
    [log |-> [i \in DOMAIN s.log |->
        IF i \in ids \cap Pending(s)
        THEN [s.log[i] EXCEPT !.owner = IF s.log[i].deleted THEN NoOne ELSE c]
        ELSE s.log[i]],
     delivered |-> s.delivered]
=============================================================================
