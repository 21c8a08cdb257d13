-------------------------- MODULE WorkStreamProofs --------------------------
(***************************************************************************)
(* What the commands of WorkStream do to a well-formed stream: the facts   *)
(* that the proofs about a run use in place of the commands' definitions.  *)
(***************************************************************************)
EXTENDS WorkStream, SequenceTheorems, FunctionTheorems, FiniteSetTheorems,
        WellFoundedInduction, TLAPS

\* A stream whose read pointer is inside its log.
GoodStream(s, C) == s \in Stream(C) /\ s.delivered <= Len(s.log)

\* t is s with nothing forgotten: entries keep their position, file and
\* attempts, deleted ones stay deleted, and the read pointer does not go back.
Extends(s, t) ==
    /\ Len(s.log) <= Len(t.log)
    /\ s.delivered <= t.delivered
    /\ \A i \in 1 .. Len(s.log) :
        /\ t.log[i].file = s.log[i].file
        /\ t.log[i].attempts = s.log[i].attempts
        /\ s.log[i].deleted => t.log[i].deleted

----------------------------------------------------------------------------
\* A non-empty set of message IDs has a least one, and Least returns it.
LEMMA LeastIsLeast ==
    ASSUME NEW S \in SUBSET Nat, S # {}
    PROVE  Least(S) \in S /\ \A j \in S : Least(S) <= j
<1>1. PICK x \in S : \A y \in S : ~ (<<y, x>> \in OpToRel(<, Nat))
    BY NatLessThanWellFounded, WFMin
<1>2. \A y \in S : ~ (y < x)
    BY <1>1 DEF OpToRel
<1>3. \A y \in S : x <= y
    BY <1>2
<1> QED
    BY <1>3 DEF Least

\* A finite non-empty set of numbers has a greatest one.
LEMMA GreatestExists ==
    ASSUME NEW S \in SUBSET Nat, IsFiniteSet(S), S # {}
    PROVE  \E x \in S : \A y \in S : y <= x
<1> DEFINE Topped(T) == \E x \in T : \A y \in T : y <= x
           F == {T \in SUBSET S : T # {} /\ ~ Topped(T)}
<1>1. SUFFICES ASSUME F # {} PROVE FALSE
    OBVIOUS
<1>2. IsWellFoundedOn(StrictSubsetOrdering(S), SUBSET S)
    BY FS_StrictSubsetOrderingWellFounded, FS_FiniteSubsetsOfFinite
<1>3. PICK U \in F : \A V \in F : ~ (<<V, U>> \in StrictSubsetOrdering(S))
  <2>1. F \subseteq SUBSET S
      OBVIOUS
  <2> HIDE DEF F
  <2> QED
      BY <1>1, <1>2, <2>1, WFMin
<1>4. PICK u \in U : TRUE
    OBVIOUS
<1> DEFINE V == U \ {u}
<1>5. <<V, U>> \in StrictSubsetOrdering(S)
    BY <1>4 DEF StrictSubsetOrdering
<1>6. CASE V = {}
    BY <1>4, <1>6
<1>7. CASE V # {}
  <2>1. PICK v \in V : \A y \in V : y <= v
      BY <1>3, <1>5, <1>7
  <2>2. Topped(U)
    <3>1. CASE u <= v
        BY <2>1, <3>1
    <3>2. CASE v <= u
        BY <1>4, <2>1, <3>2
    <3> QED
        BY <1>4, <3>1, <3>2
  <2> QED
      BY <2>2
<1> QED
    BY <1>6, <1>7

\* The greatest of finitely many numbers g[i] and k is one of them.
LEMMA GreatestOfImage ==
    ASSUME NEW S, IsFiniteSet(S), NEW g \in [S -> Nat], NEW k \in Nat,
           NEW T, T = {g[i] : i \in S} \cup {k}
    PROVE  Greatest(T) \in T /\ Greatest(T) \in Nat /\ \A j \in T : j <= Greatest(T)
<1> DEFINE R == {g[i] : i \in S}
<1>1. g \in Surjection(S, R)
    BY Fun_IsSurj
<1>2. IsFiniteSet(T)
    BY <1>1, FS_Surjection, FS_AddElement
<1>3. T \in SUBSET Nat /\ T # {}
    OBVIOUS
<1>4. \E n \in T : \A j \in T : j <= n
    BY <1>2, <1>3, GreatestExists
<1> QED
    BY <1>3, <1>4 DEF Greatest

----------------------------------------------------------------------------
\* The positions of a stream are finitely many numbers.
LEMMA Positions ==
    ASSUME NEW C, NEW s, GoodStream(s, C)
    PROVE  /\ s.log \in Seq(Entry(C))
           /\ Len(s.log) \in Nat
           /\ DOMAIN s.log = 1 .. Len(s.log)
           /\ s.delivered \in 0 .. Len(s.log)
           /\ \A ids \in SUBSET DOMAIN s.log :
                IsFiniteSet(ids) /\ Cardinality(ids) \in Nat /\ ids \in SUBSET Nat
<1>1. /\ s.log \in Seq(Entry(C)) /\ s.delivered \in Nat
      /\ s.delivered <= Len(s.log)
    BY DEF GoodStream, Stream
<1>2. Len(s.log) \in Nat /\ DOMAIN s.log = 1 .. Len(s.log)
    BY <1>1, LenProperties
<1>3. IsFiniteSet(DOMAIN s.log)
    BY <1>2, FS_Interval
<1>4. ASSUME NEW ids \in SUBSET DOMAIN s.log
      PROVE  IsFiniteSet(ids) /\ Cardinality(ids) \in Nat /\ ids \in SUBSET Nat
    BY <1>2, <1>3, <1>4, FS_Subset, FS_CardinalityType
<1> QED
    BY <1>1, <1>2, <1>4

\* Every read of the stream yields positions of its log.
LEMMA ReadsArePositions ==
    ASSUME NEW C, NEW s, GoodStream(s, C)
    PROVE  /\ Present(s) \in SUBSET DOMAIN s.log
           /\ Pending(s) \in SUBSET DOMAIN s.log
           /\ Undelivered(s) \in SUBSET DOMAIN s.log
           /\ \A c : PendingFor(s, c) \in SUBSET DOMAIN s.log
           /\ \A ids : Claimable(s, ids) \in SUBSET DOMAIN s.log
    BY DEF Present, Pending, Undelivered, PendingFor, Claimable

\* Counts are natural numbers, and a lag is one or is not reported.
LEMMA CountTypes ==
    ASSUME NEW C, NEW s, GoodStream(s, C)
    PROVE  /\ Length(s) \in Nat
           /\ Cardinality(Pending(s)) \in Nat
           /\ LagReplies(s) \subseteq Nat \cup {LagUnknown}
<1>1. /\ Length(s) \in Nat
      /\ Cardinality(Pending(s)) \in Nat
      /\ Cardinality(Undelivered(s)) \in Nat
    BY Positions, ReadsArePositions DEF Length
<1>2. Len(s.log) - s.delivered \in Nat
    BY Positions
<1> QED
    BY <1>1, <1>2 DEF LagReplies

----------------------------------------------------------------------------
\* A stream just created is well formed.
LEMMA EmptyStreamGood ==
    ASSUME NEW C
    PROVE  GoodStream(EmptyStream, C)
    BY DEF GoodStream, Stream, EmptyStream

\* XADD appends one entry that is neither delivered nor deleted.
LEMMA XAddAppends ==
    ASSUME NEW C, NEW s, GoodStream(s, C), NEW f \in File, NEW n \in Nat
    PROVE  LET t == XAdd(s, f, n) IN
           /\ GoodStream(t, C)
           /\ Extends(s, t)
           /\ Len(t.log) = Len(s.log) + 1
           /\ t.delivered = s.delivered
           /\ \A i \in 1 .. Len(s.log) : t.log[i] = s.log[i]
           /\ t.log[Len(s.log) + 1] =
                [file |-> f, attempts |-> n, owner |-> NoOne, deleted |-> FALSE]
<1> DEFINE t == XAdd(s, f, n)
           e == [file |-> f, attempts |-> n, owner |-> NoOne, deleted |-> FALSE]
<1>1. e \in Entry(C)
    BY DEF Entry
<1>2. s.log \in Seq(Entry(C)) /\ Len(s.log) \in Nat /\ s.delivered \in 0 .. Len(s.log)
    BY Positions
<1>3. t = [log |-> Append(s.log, e), delivered |-> s.delivered]
  <2>1. s \in [log : Seq(Entry(C)), delivered : Nat]
      BY DEF GoodStream, Stream
  <2> QED
      BY <2>1 DEF XAdd
<1>4. /\ t.log \in Seq(Entry(C))
      /\ Len(t.log) = Len(s.log) + 1
      /\ \A i \in 1 .. Len(s.log) : t.log[i] = s.log[i]
      /\ t.log[Len(s.log) + 1] = e
    BY <1>1, <1>2, <1>3
<1>5. GoodStream(t, C)
    BY <1>2, <1>3, <1>4 DEF GoodStream, Stream
<1> QED
    BY <1>2, <1>3, <1>4, <1>5 DEF Extends

\* A command that changes only owners and deletion marks, entry by entry.
LEMMA RewriteKeeps ==
    ASSUME NEW C, NEW s, GoodStream(s, C), NEW t,
           t \in [log : [DOMAIN s.log -> Entry(C)], delivered : s.delivered .. Len(s.log)],
           \A i \in DOMAIN s.log :
               /\ t.log[i].file = s.log[i].file
               /\ t.log[i].attempts = s.log[i].attempts
               /\ s.log[i].deleted => t.log[i].deleted
    PROVE  /\ GoodStream(t, C)
           /\ Extends(s, t)
           /\ Len(t.log) = Len(s.log)
<1>1. Len(s.log) \in Nat /\ DOMAIN s.log = 1 .. Len(s.log)
      /\ s.delivered \in 0 .. Len(s.log)
    BY Positions
<1>2. t.log \in Seq(Entry(C)) /\ DOMAIN t.log = 1 .. Len(s.log)
    BY <1>1
<1>3. Len(t.log) = Len(s.log)
    BY <1>1, <1>2, LenProperties
<1> QED
    BY <1>1, <1>2, <1>3 DEF GoodStream, Stream, Extends

\* XREADGROUP hands out the first undelivered entry and moves the read pointer
\* to it.
LEMMA XReadGroupDelivers ==
    ASSUME NEW C, NEW s, GoodStream(s, C), NEW c \in C, Undelivered(s) # {}
    PROVE  LET t == XReadGroup(s, c)
               m == Least(Undelivered(s)) IN
           /\ GoodStream(t, C)
           /\ Extends(s, t)
           /\ Len(t.log) = Len(s.log)
           /\ m \in Undelivered(s)
           /\ \A j \in Undelivered(s) : m <= j
           /\ t.delivered = m
           /\ t.log[m].owner = c /\ t.log[m].deleted = s.log[m].deleted
           /\ \A i \in DOMAIN s.log : i # m => t.log[i] = s.log[i]
<1> DEFINE t == XReadGroup(s, c)
           m == Least(Undelivered(s))
<1>1. /\ s.log \in Seq(Entry(C)) /\ Len(s.log) \in Nat
      /\ DOMAIN s.log = 1 .. Len(s.log) /\ s.delivered \in 0 .. Len(s.log)
    BY Positions
<1>2. Undelivered(s) \in SUBSET Nat
    BY Positions, ReadsArePositions
<1>3. m \in Undelivered(s) /\ \A j \in Undelivered(s) : m <= j
    BY <1>2, LeastIsLeast
<1>4. m \in DOMAIN s.log /\ m > s.delivered
    BY <1>3 DEF Undelivered, Present
<1> HIDE DEF m
<1>5. t = [log |-> [s.log EXCEPT ![m].owner = c], delivered |-> m]
    BY <1>1 DEF XReadGroup, m
<1> HIDE DEF t
<1>6. \A i \in DOMAIN s.log : s.log[i] \in Entry(C)
    BY <1>1, ElementOfSeq
<1>7. /\ t.log = [i \in DOMAIN s.log |-> t.log[i]]
      /\ \A i \in DOMAIN s.log :
           t.log[i] = IF i = m THEN [s.log[i] EXCEPT !.owner = c] ELSE s.log[i]
    BY <1>1, <1>5
<1>8. \A i \in DOMAIN s.log :
        /\ t.log[i] \in Entry(C)
        /\ t.log[i].file = s.log[i].file
        /\ t.log[i].attempts = s.log[i].attempts
        /\ s.log[i].deleted => t.log[i].deleted
    BY <1>6, <1>7 DEF Entry
<1>9. t.delivered = m
    BY <1>5
<1>10. t \in [log : [DOMAIN s.log -> Entry(C)], delivered : s.delivered .. Len(s.log)]
    BY <1>1, <1>4, <1>5, <1>7, <1>8
<1>11. GoodStream(t, C) /\ Extends(s, t) /\ Len(t.log) = Len(s.log)
    BY <1>8, <1>10, RewriteKeeps
<1>12. t.log[m].owner = c /\ t.log[m].deleted = s.log[m].deleted
    BY <1>4, <1>6, <1>7 DEF Entry
<1>13. \A i \in DOMAIN s.log : i # m => t.log[i] = s.log[i]
    BY <1>7
<1> QED
    BY <1>3, <1>9, <1>11, <1>12, <1>13 DEF t, m

\* XACK only takes the owner away.
LEMMA XAckReleases ==
    ASSUME NEW C, NEW s, GoodStream(s, C), NEW m \in DOMAIN s.log
    PROVE  LET t == XAck(s, m) IN
           /\ GoodStream(t, C)
           /\ Extends(s, t)
           /\ Len(t.log) = Len(s.log)
           /\ t.delivered = s.delivered
           /\ t.log[m].owner = NoOne /\ t.log[m].deleted = s.log[m].deleted
           /\ \A i \in DOMAIN s.log : i # m => t.log[i] = s.log[i]
<1> DEFINE t == XAck(s, m)
<1>1. /\ s \in [log : Seq(Entry(C)), delivered : Nat]
      /\ s.delivered \in 0 .. Len(s.log) /\ Len(s.log) \in Nat
      /\ \A i \in DOMAIN s.log : s.log[i] \in Entry(C)
    BY Positions, ElementOfSeq DEF GoodStream, Stream
<1>2. t = [log |-> [s.log EXCEPT ![m].owner = NoOne], delivered |-> s.delivered]
    BY <1>1 DEF XAck
<1> HIDE DEF t
<1>3. /\ t.log = [i \in DOMAIN s.log |-> t.log[i]]
      /\ t.delivered = s.delivered
      /\ t = [log |-> t.log, delivered |-> t.delivered]
      /\ \A i \in DOMAIN s.log :
           t.log[i] = IF i = m THEN [s.log[i] EXCEPT !.owner = NoOne] ELSE s.log[i]
    BY <1>1, <1>2
<1>4. \A i \in DOMAIN s.log :
        /\ t.log[i] \in Entry(C)
        /\ t.log[i].file = s.log[i].file
        /\ t.log[i].attempts = s.log[i].attempts
        /\ s.log[i].deleted => t.log[i].deleted
    BY <1>1, <1>3 DEF Entry
<1>5. t \in [log : [DOMAIN s.log -> Entry(C)], delivered : s.delivered .. Len(s.log)]
    BY <1>1, <1>3, <1>4
<1>6. GoodStream(t, C) /\ Extends(s, t) /\ Len(t.log) = Len(s.log)
    BY <1>4, <1>5, RewriteKeeps
<1>7. t.log[m].owner = NoOne /\ t.log[m].deleted = s.log[m].deleted
    BY <1>1, <1>3 DEF Entry
<1>8. \A i \in DOMAIN s.log : i # m => t.log[i] = s.log[i]
    BY <1>3
<1> QED
    BY <1>3, <1>6, <1>7, <1>8 DEF t

\* XDEL only marks entries deleted.
LEMMA XDelMarks ==
    ASSUME NEW C, NEW s, GoodStream(s, C), NEW ids
    PROVE  LET t == XDel(s, ids) IN
           /\ GoodStream(t, C)
           /\ Extends(s, t)
           /\ Len(t.log) = Len(s.log)
           /\ t.delivered = s.delivered
           /\ \A i \in DOMAIN s.log :
                /\ t.log[i].owner = s.log[i].owner
                /\ i \in ids => t.log[i].deleted
                /\ i \notin ids => t.log[i] = s.log[i]
<1> DEFINE t == XDel(s, ids)
<1>1. /\ s \in [log : Seq(Entry(C)), delivered : Nat]
      /\ s.delivered \in 0 .. Len(s.log) /\ Len(s.log) \in Nat
      /\ \A i \in DOMAIN s.log : s.log[i] \in Entry(C)
    BY Positions, ElementOfSeq DEF GoodStream, Stream
<1>2. /\ t.log = [i \in DOMAIN s.log |-> t.log[i]]
      /\ t.delivered = s.delivered
      /\ t = [log |-> t.log, delivered |-> t.delivered]
      /\ \A i \in DOMAIN s.log :
           t.log[i] = IF i \in ids THEN [s.log[i] EXCEPT !.deleted = TRUE] ELSE s.log[i]
    BY DEF XDel
<1> HIDE DEF t
<1>3. \A i \in DOMAIN s.log :
        /\ t.log[i] \in Entry(C)
        /\ t.log[i].file = s.log[i].file
        /\ t.log[i].attempts = s.log[i].attempts
        /\ s.log[i].deleted => t.log[i].deleted
    BY <1>1, <1>2 DEF Entry
<1>4. t \in [log : [DOMAIN s.log -> Entry(C)], delivered : s.delivered .. Len(s.log)]
    BY <1>1, <1>2, <1>3
<1>5. GoodStream(t, C) /\ Extends(s, t) /\ Len(t.log) = Len(s.log)
    BY <1>3, <1>4, RewriteKeeps
<1>6. \A i \in DOMAIN s.log :
        /\ t.log[i].owner = s.log[i].owner
        /\ i \in ids => t.log[i].deleted
        /\ i \notin ids => t.log[i] = s.log[i]
    BY <1>1, <1>2 DEF Entry
<1> QED
    BY <1>2, <1>5, <1>6 DEF t

\* XCLAIM gives the pending entries it is asked for to a consumer, or takes
\* them from everyone when they were deleted.
LEMMA XClaimMoves ==
    ASSUME NEW C, NEW s, GoodStream(s, C), NEW ids, NEW c \in C
    PROVE  LET t == XClaim(s, ids, c) IN
           /\ GoodStream(t, C)
           /\ Extends(s, t)
           /\ Len(t.log) = Len(s.log)
           /\ t.delivered = s.delivered
           /\ \A i \in DOMAIN s.log :
                /\ t.log[i].deleted = s.log[i].deleted
                /\ i \in ids \cap Pending(s) =>
                     t.log[i].owner = IF s.log[i].deleted THEN NoOne ELSE c
                /\ i \notin ids \cap Pending(s) => t.log[i] = s.log[i]
<1> DEFINE t == XClaim(s, ids, c)
<1>1. /\ s \in [log : Seq(Entry(C)), delivered : Nat]
      /\ s.delivered \in 0 .. Len(s.log) /\ Len(s.log) \in Nat
      /\ \A i \in DOMAIN s.log : s.log[i] \in Entry(C)
    BY Positions, ElementOfSeq DEF GoodStream, Stream
<1>2. /\ t.log = [i \in DOMAIN s.log |-> t.log[i]]
      /\ t.delivered = s.delivered
      /\ t = [log |-> t.log, delivered |-> t.delivered]
      /\ \A i \in DOMAIN s.log :
           t.log[i] = IF i \in ids \cap Pending(s)
                      THEN [s.log[i] EXCEPT !.owner =
                                IF s.log[i].deleted THEN NoOne ELSE c]
                      ELSE s.log[i]
    BY DEF XClaim
<1> HIDE DEF t
<1>3. \A i \in DOMAIN s.log :
        /\ t.log[i] \in Entry(C)
        /\ t.log[i].file = s.log[i].file
        /\ t.log[i].attempts = s.log[i].attempts
        /\ s.log[i].deleted => t.log[i].deleted
    BY <1>1, <1>2 DEF Entry
<1>4. t \in [log : [DOMAIN s.log -> Entry(C)], delivered : s.delivered .. Len(s.log)]
    BY <1>1, <1>2, <1>3
<1>5. GoodStream(t, C) /\ Extends(s, t) /\ Len(t.log) = Len(s.log)
    BY <1>3, <1>4, RewriteKeeps
<1>6. \A i \in DOMAIN s.log :
        /\ t.log[i].deleted = s.log[i].deleted
        /\ i \in ids \cap Pending(s) =>
             t.log[i].owner = IF s.log[i].deleted THEN NoOne ELSE c
        /\ i \notin ids \cap Pending(s) => t.log[i] = s.log[i]
    BY <1>1, <1>2 DEF Entry
<1> QED
    BY <1>2, <1>5, <1>6 DEF t
=============================================================================
