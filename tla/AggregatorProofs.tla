-------------------------- MODULE AggregatorProofs --------------------------
(***************************************************************************)
(* Type correctness of the aggregator and the distance its dedup rule keeps*)
(* between complaints, stored and as the scorer's scan visits them, for    *)
(* every market, every set of clients and every interleaving of the event  *)
(* loop with a reset.                                                      *)
(***************************************************************************)
EXTENDS Aggregator, ScorerProofs, FiniteSetTheorems, SequenceTheorems, TLAPS

(***************************************************************************)
(* The ticker stays a sequence of lines that never outgrows its deque.     *)
(***************************************************************************)
LEMMA PushType ==
    ASSUME NEW line \in TickerLine, Push(line),
           ticker \in Seq(TickerLine), Len(ticker) <= TickerMax
    PROVE  ticker' \in Seq(TickerLine) /\ Len(ticker') <= TickerMax
<1> DEFINE all == Append(ticker, line)
<1>1. all \in Seq(TickerLine) /\ Len(all) = Len(ticker) + 1 /\ all # <<>>
  OBVIOUS
<1>2. Tail(all) \in Seq(TickerLine) /\ Len(Tail(all)) = Len(ticker)
  BY <1>1
<1>3. TickerMax \in Nat /\ Len(ticker) \in Nat
  BY AggregatorAssumption
<1>4. ticker' = IF Len(all) > TickerMax THEN Tail(all) ELSE all
  BY DEF Push
<1> QED
  BY <1>1, <1>2, <1>3, <1>4

LEMMA InvInit == Init => AggregatorInv
<1> SUFFICES ASSUME Init PROVE AggregatorInv
  OBVIOUS
<1>1. TypeOK
  BY AggregatorAssumption DEF Init, TypeOK, Known, Complaining
<1>2. DedupApart /\ PendingApart
  BY DEF Init, DedupApart, PendingApart
<1> QED
  BY <1>1, <1>2 DEF AggregatorInv

-----------------------------------------------------------------------------
(* Steps that leave the storage alone, or that add to it.                  *)

LEMMA PostSLAKeepsInv ==
    ASSUME AggregatorInv, NEW b \in SLABodies, PostSLA(b)
    PROVE  AggregatorInv'
<1>1. TypeOK'
  BY AggregatorAssumption
  DEF AggregatorInv, TypeOK, PostSLA, Accept, store, reset, Known, Complaining,
      SLARecord
<1>2. DedupApart' /\ PendingApart'
  BY DEF AggregatorInv, DedupApart, PendingApart, PostSLA, Accept, store
<1> QED
  BY <1>1, <1>2 DEF AggregatorInv

LEMMA AddSLAKeepsInv ==
    ASSUME AggregatorInv, AddSLA
    PROVE  AggregatorInv'
<1>1. request.sla \in SLAs /\ request.looked \in Nat
  BY DEF AggregatorInv, TypeOK, AddSLA, SLARecord
<1>2. slas' \in [Known' -> Nat] /\ Known' \subseteq SLAs
  BY <1>1 DEF AggregatorInv, TypeOK, AddSLA, Known
<1>3. TypeOK'
  BY <1>2
  DEF AggregatorInv, TypeOK, AddSLA, reset, Complaining
<1>4. DedupApart' /\ PendingApart'
  BY DEF AggregatorInv, DedupApart, PendingApart, AddSLA
<1> QED
  BY <1>3, <1>4 DEF AggregatorInv

LEMMA SLALineKeepsInv ==
    ASSUME AggregatorInv, SLALine
    PROVE  AggregatorInv'
<1>1. Line("sla_signed", request) \in TickerLine
  BY DEF AggregatorInv, TypeOK, SLALine, Line, TickerLine, SLARecord
<1>2. ticker' \in Seq(TickerLine) /\ Len(ticker') <= TickerMax
  BY <1>1, PushType DEF AggregatorInv, TypeOK, SLALine
<1>3. TypeOK'
  BY <1>2
  DEF AggregatorInv, TypeOK, SLALine, Respond, reset, Complaining, Known
<1>4. DedupApart' /\ PendingApart'
  BY DEF AggregatorInv, DedupApart, PendingApart, SLALine, Respond
<1> QED
  BY <1>3, <1>4 DEF AggregatorInv

LEMMA PostClaimKeepsInv ==
    ASSUME AggregatorInv, NEW b \in ClaimBodies, PostClaim(b)
    PROVE  AggregatorInv'
<1>1. TypeOK'
  BY AggregatorAssumption
  DEF AggregatorInv, TypeOK, PostClaim, Accept, store, reset, Known,
      Complaining, ClaimRecord
<1>2. DedupApart' /\ PendingApart'
  BY DEF AggregatorInv, DedupApart, PendingApart, PostClaim, Accept, store
<1> QED
  BY <1>1, <1>2 DEF AggregatorInv

LEMMA AddClaimKeepsInv ==
    ASSUME AggregatorInv, AddClaim
    PROVE  AggregatorInv'
<1>1. claims' \in Seq(ClaimRecord)
  BY DEF AggregatorInv, TypeOK, AddClaim
<1>2. TypeOK'
  BY <1>1 DEF AggregatorInv, TypeOK, AddClaim, reset, Complaining, Known
<1>3. DedupApart' /\ PendingApart'
  BY DEF AggregatorInv, DedupApart, PendingApart, AddClaim
<1> QED
  BY <1>2, <1>3 DEF AggregatorInv

LEMMA ClaimLineKeepsInv ==
    ASSUME AggregatorInv, ClaimLine
    PROVE  AggregatorInv'
<1>1. Line("claim", request) \in TickerLine
  BY DEF AggregatorInv, TypeOK, ClaimLine, Line, TickerLine, ClaimRecord
<1>2. ticker' \in Seq(TickerLine) /\ Len(ticker') <= TickerMax
  BY <1>1, PushType DEF AggregatorInv, TypeOK, ClaimLine
<1>3. TypeOK'
  BY <1>2
  DEF AggregatorInv, TypeOK, ClaimLine, Respond, reset, Complaining, Known
<1>4. DedupApart' /\ PendingApart'
  BY DEF AggregatorInv, DedupApart, PendingApart, ClaimLine, Respond
<1> QED
  BY <1>3, <1>4 DEF AggregatorInv

LEMMA PostComplaintKeepsInv ==
    ASSUME AggregatorInv, NEW b \in ComplaintBodies, PostComplaint(b)
    PROVE  AggregatorInv'
<1>1. now \in Nat
  BY AggregatorAssumption DEF AggregatorInv, TypeOK
<1>2. request' \in ComplaintRecord
  BY <1>1, AggregatorAssumption
  DEF AggregatorInv, TypeOK, PostComplaint, Accept, ComplaintRecord
<1>3. TypeOK'
  BY <1>2
  DEF AggregatorInv, TypeOK, PostComplaint, Accept, store, reset, Known, Complaining
<1>4. DedupApart' /\ PendingApart'
  BY DEF AggregatorInv, DedupApart, PendingApart, PostComplaint, Accept, store
<1> QED
  BY <1>3, <1>4 DEF AggregatorInv

LEMMA DedupKeepsInv ==
    ASSUME AggregatorInv, RefuseDuplicate \/ PassDedup
    PROVE  AggregatorInv'
<1>1. CASE RefuseDuplicate
  <2>1. TypeOK'
    BY <1>1
    DEF AggregatorInv, TypeOK, RefuseDuplicate, Respond, store, reset, Known, Complaining
  <2>2. DedupApart' /\ PendingApart'
    BY <1>1
    DEF AggregatorInv, DedupApart, PendingApart, RefuseDuplicate, Respond, store
  <2> QED
    BY <2>1, <2>2 DEF AggregatorInv
<1>2. CASE PassDedup
  <2>1. TypeOK'
    BY <1>2 DEF AggregatorInv, TypeOK, PassDedup, store, reset, Known, Complaining
  <2>2. DedupApart' /\ PendingApart'
    BY <1>2 DEF AggregatorInv, DedupApart, PendingApart, PassDedup, store
  <2> QED
    BY <2>1, <2>2 DEF AggregatorInv
<1> QED
  BY <1>1, <1>2

LEMMA FindAffectedKeepsInv ==
    ASSUME AggregatorInv, FindAffected
    PROVE  AggregatorInv'
<1>1. affected' \in Seq(ASes)
  BY AggregatorAssumption DEF AggregatorInv, TypeOK, FindAffected, Known
<1>2. TypeOK'
  BY <1>1
  DEF AggregatorInv, TypeOK, FindAffected, store, reset, Known, Complaining
<1>3. DedupApart' /\ PendingApart'
  BY DEF AggregatorInv, DedupApart, PendingApart, FindAffected, store
<1> QED
  BY <1>2, <1>3 DEF AggregatorInv

LEMMA ScoringKeepsInv ==
    ASSUME AggregatorInv,
           ScoreNext("before") \/ ScoreNext("after") \/ ScoreRaises \/ Accepted
    PROVE  AggregatorInv'
<1>1. CASE ScoreNext("before") \/ ScoreNext("after")
  <2>1. UNCHANGED <<now, store, pc, request, affected, told, reset>>
    BY <1>1 DEF ScoreNext
  <2> QED
    BY <2>1
    DEF AggregatorInv, TypeOK, DedupApart, PendingApart, store, reset, Known
<1>2. CASE ScoreRaises \/ Accepted
  <2>1. Respond /\ UNCHANGED <<now, store, reset>>
    BY <1>2 DEF ScoreRaises, Accepted
  <2>2. TypeOK'
    BY <2>1 DEF AggregatorInv, TypeOK, Respond, store, reset, Known, Complaining
  <2>3. DedupApart' /\ PendingApart'
    BY <2>1 DEF AggregatorInv, DedupApart, PendingApart, Respond, store
  <2> QED
    BY <2>2, <2>3 DEF AggregatorInv
<1> QED
  BY <1>1, <1>2

(***************************************************************************)
(* The append: the pending complaint is apart from those stored, and the   *)
(* distance does not depend on the order it is taken in.                   *)
(***************************************************************************)
LEMMA AddComplaintKeepsInv ==
    ASSUME AggregatorInv, AddComplaint
    PROVE  AggregatorInv'
<1> DEFINE L == Len(complaints)
<1>1. /\ complaints \in Seq(ComplaintRecord) /\ request \in ComplaintRecord
      /\ L \in Nat /\ DOMAIN complaints = 1..L
  BY DEF AggregatorInv, TypeOK, AddComplaint, Complaining
<1>2. /\ complaints' \in Seq(ComplaintRecord)
      /\ DOMAIN complaints' = 1..(L + 1)
      /\ complaints'[L + 1] = request
      /\ \A n \in 1..L : complaints'[n] = complaints[n]
  BY <1>1 DEF AddComplaint
<1>3. TypeOK'
  BY <1>2 DEF AggregatorInv, TypeOK, AddComplaint, reset, Known, Complaining
<1>4. PendingApart'
  BY DEF PendingApart, AddComplaint
<1>5. DedupApart'
  <2> SUFFICES ASSUME NEW m \in 1..(L + 1), NEW n \in 1..(L + 1), m < n,
                      SameVoice(complaints'[m], complaints'[n])
               PROVE  Apart(complaints'[m].observed_at, complaints'[n].observed_at)
                        > DedupWindow
    BY <1>2 DEF DedupApart
  <2>1. CASE n \in 1..L
    <3>1. m \in 1..L
      BY <1>1, <2>1
    <3> QED
      BY <1>1, <1>2, <2>1, <3>1 DEF AggregatorInv, DedupApart
  <2>2. CASE n = L + 1
    <3>1. m \in 1..L /\ complaints'[m] = complaints[m] /\ complaints'[n] = request
      BY <1>1, <1>2, <2>2
    <3>2. SameVoice(request, complaints[m])
      BY <3>1 DEF SameVoice
    <3>3. ~(Apart(request.observed_at, complaints[m].observed_at) <= DedupWindow)
      BY <1>1, <3>1, <3>2
      DEF AggregatorInv, PendingApart, AddComplaint, DuplicateComplaint
    <3>4. request.observed_at \in Int /\ complaints[m].observed_at \in Int
      <4>1. complaints[m] \in ComplaintRecord
        BY <1>1, <3>1
      <4> QED
        BY <1>1, <4>1 DEF ComplaintRecord
    <3> QED
      BY <3>1, <3>3, <3>4, AggregatorAssumption DEF Apart
  <2> QED
    BY <1>1, <2>1, <2>2
<1> QED
  BY <1>3, <1>4, <1>5 DEF AggregatorInv

LEMMA ComplaintLineKeepsInv ==
    ASSUME AggregatorInv, ComplaintLine
    PROVE  AggregatorInv'
<1>1. request \in ComplaintRecord
  BY DEF AggregatorInv, TypeOK, ComplaintLine, Complaining
<1>2. Line("complaint", request) \in TickerLine
  BY <1>1 DEF Line, TickerLine, ComplaintRecord
<1>3. ticker' \in Seq(TickerLine) /\ Len(ticker') <= TickerMax
  BY <1>2, PushType DEF AggregatorInv, TypeOK, ComplaintLine
<1>4. TypeOK'
  BY <1>1, <1>3
  DEF AggregatorInv, TypeOK, ComplaintLine, reset, Complaining, Known
<1>5. DedupApart' /\ PendingApart'
  BY DEF AggregatorInv, DedupApart, PendingApart, ComplaintLine
<1> QED
  BY <1>4, <1>5 DEF AggregatorInv

LEMMA AnnounceKeepsInv ==
    ASSUME AggregatorInv, Announce
    PROVE  AggregatorInv'
<1>1. request \in ComplaintRecord /\ affected \in Seq(ASes) /\ told \in Nat
  BY DEF AggregatorInv, TypeOK, Announce, Complaining
<1>2. affected[told + 1] \in ASes
  BY <1>1 DEF Announce
<1>3. Line("reputation_change", affected[told + 1]) \in TickerLine
  BY <1>1, <1>2 DEF Line, TickerLine, ComplaintRecord
<1>4. ticker' \in Seq(TickerLine) /\ Len(ticker') <= TickerMax
  BY <1>3, PushType DEF AggregatorInv, TypeOK, Announce
<1>5. TypeOK'
  BY <1>1, <1>4
  DEF AggregatorInv, TypeOK, Announce, reset, Complaining, Known
<1>6. DedupApart' /\ PendingApart'
  BY DEF AggregatorInv, DedupApart, PendingApart, Announce
<1> QED
  BY <1>5, <1>6 DEF AggregatorInv

-----------------------------------------------------------------------------
(* A reset only removes, and it may do so between the check and the append.*)

LEMMA ResetKeepsInv ==
    ASSUME AggregatorInv, BeginReset \/ Clear
    PROVE  AggregatorInv'
<1>1. CASE BeginReset
  <2>1. TypeOK'
    BY <1>1, AggregatorAssumption
    DEF AggregatorInv, TypeOK, BeginReset, store, loop, Known
  <2>2. DedupApart' /\ PendingApart'
    BY <1>1 DEF AggregatorInv, DedupApart, PendingApart, BeginReset, store, loop
  <2> QED
    BY <2>1, <2>2 DEF AggregatorInv
<1>2. CASE Clear
  <2>1. /\ slas' \in {slas, <<>>} /\ claims' \in {claims, <<>>}
        /\ complaints' \in {complaints, <<>>} /\ ticker' \in {ticker, <<>>}
    BY <1>2 DEF Clear, Cleared
  <2>2. slas' \in [Known' -> Nat] /\ Known' \subseteq SLAs
    <3>1. CASE slas' = slas
      BY <3>1 DEF AggregatorInv, TypeOK, Known
    <3>2. CASE slas' = <<>>
      <4>1. DOMAIN slas' = {} /\ slas' = [n \in {} |-> 0]
        BY <3>2
      <4> QED
        BY <4>1 DEF Known
    <3> QED
      BY <2>1, <3>1, <3>2
  <2>3. wiper' \in 0..4 /\ wipes' \in Nat
    BY <1>2 DEF AggregatorInv, TypeOK, Clear
  <2>4. ticker' \in Seq(TickerLine) /\ Len(ticker') <= TickerMax
    <3>1. CASE ticker' = ticker
      BY <3>1 DEF AggregatorInv, TypeOK
    <3>2. CASE ticker' = <<>>
      <4>1. ticker' \in Seq(TickerLine) /\ Len(ticker') = 0
        BY <3>2
      <4> QED
        BY <4>1, AggregatorAssumption
    <3> QED
      BY <2>1, <3>1, <3>2
  <2>5. claims' \in Seq(ClaimRecord) /\ complaints' \in Seq(ComplaintRecord)
    <3>1. <<>> \in Seq(ClaimRecord) /\ <<>> \in Seq(ComplaintRecord)
      OBVIOUS
    <3>2. claims \in Seq(ClaimRecord) /\ complaints \in Seq(ComplaintRecord)
      BY DEF AggregatorInv, TypeOK
    <3> QED
      BY <2>1, <3>1, <3>2
  <2>6. TypeOK'
    BY <1>2, <2>2, <2>3, <2>4, <2>5
    DEF AggregatorInv, TypeOK, Clear, loop, Complaining
  <2>7. DedupApart'
    BY <2>1 DEF AggregatorInv, DedupApart
  <2>8. PendingApart'
    BY <1>2, <2>1
    DEF AggregatorInv, PendingApart, Clear, loop, DuplicateComplaint
  <2> QED
    BY <2>6, <2>7, <2>8 DEF AggregatorInv
<1> QED
  BY <1>1, <1>2

\* The clock and GET /scores read the storage and change none of it.
LEMMA ReadsKeepInv ==
    ASSUME AggregatorInv,
           \/ Tick \/ ReadComplaints \/ StartWalk \/ WalkNext \/ WalkEnds
           \/ WalkRaises \/ AnswerScores \/ UNCHANGED vars
    PROVE  AggregatorInv'
<1>1. UNCHANGED <<store, loop, reset>>
  BY DEF Tick, ReadComplaints, StartWalk, WalkNext, WalkEnds, WalkRaises,
         AnswerScores, vars
<1>2. now' \in 0..MaxTime
  <2>1. now \in 0..MaxTime /\ MaxTime \in Nat
    BY AggregatorAssumption DEF AggregatorInv, TypeOK
  <2>2. CASE Tick
    BY <2>1, <2>2 DEF Tick
  <2>3. CASE UNCHANGED now
    BY <2>1, <2>3
  <2>4. Tick \/ UNCHANGED now
    BY DEF ReadComplaints, StartWalk, WalkNext, WalkEnds, WalkRaises, AnswerScores,
           vars
  <2> QED
    BY <2>2, <2>3, <2>4
<1> QED
  BY <1>1, <1>2
  DEF AggregatorInv, TypeOK, DedupApart, PendingApart, store, loop, reset, Known

-----------------------------------------------------------------------------

(***************************************************************************)
(* The types, the dedup distance and the pending complaint's distance hold *)
(* in every reachable state.                                               *)
(***************************************************************************)
THEOREM AggregatorInvariant == Spec => []AggregatorInv
<1>1. AggregatorInv /\ [Next]_vars => AggregatorInv'
  <2> SUFFICES ASSUME AggregatorInv, [Next]_vars PROVE AggregatorInv'
    OBVIOUS
  <2> QED
    BY PostSLAKeepsInv, AddSLAKeepsInv, SLALineKeepsInv, PostClaimKeepsInv,
       AddClaimKeepsInv, ClaimLineKeepsInv, PostComplaintKeepsInv, DedupKeepsInv,
       FindAffectedKeepsInv, ScoringKeepsInv, AddComplaintKeepsInv,
       ComplaintLineKeepsInv, AnnounceKeepsInv, ResetKeepsInv, ReadsKeepInv
    DEF Next
<1> QED
  BY <1>1, InvInit, PTL DEF Spec

THEOREM AggregatorTypes == Spec => []TypeOK
<1>1. AggregatorInv => TypeOK
  BY DEF AggregatorInv
<1> QED
  BY <1>1, AggregatorInvariant, PTL

(***************************************************************************)
(* Two stored complaints of one voice are more than the dedup window apart.*)
(***************************************************************************)
THEOREM DedupHolds == Spec => []DedupApart
<1>1. AggregatorInv => DedupApart
  BY DEF AggregatorInv
<1> QED
  BY <1>1, AggregatorInvariant, PTL
-----------------------------------------------------------------------------
(* The order in which the scan visits a log.                               *)

\* In a stable sort by observed_at, position m of a log comes before position n.
Earlier(log, m, n) ==
    \/ log[m].observed_at < log[n].observed_at
    \/ log[m].observed_at = log[n].observed_at /\ m < n

\* The place of position n in the stable sort of the positions `of'.
Place(log, of, n) == Cardinality({m \in of : m = n \/ Earlier(log, m, n)})

\* at lists the chosen positions of a log as its sorting does.
SortsTo(log, of, at) ==
    /\ at \in [1..Cardinality(of) -> of]
    /\ Sorted(log, of) = [p \in 1..Cardinality(of) |-> log[at[p]]]
    /\ \A n \in of : \E p \in 1..Cardinality(of) : at[p] = n
    /\ \A p, q \in 1..Cardinality(of) : p < q => Earlier(log, at[p], at[q])
    /\ \A p \in 1..Cardinality(of) : Place(log, of, at[p]) = p
    /\ \A n \in of : /\ Place(log, of, n) \in 1..Cardinality(of)
                    /\ at[Place(log, of, n)] = n

\* Sorting a log lists each of its chosen positions, and lists them in order.
LEMMA Sorting ==
    ASSUME NEW log \in Seq(ComplaintRecord), NEW of \in SUBSET DOMAIN log
    PROVE  \E at : SortsTo(log, of, at)
<1>. DEFINE Before(m, n) == \/ log[m].observed_at < log[n].observed_at
                            \/ log[m].observed_at = log[n].observed_at /\ m <= n
            place(n) == Cardinality({m \in of : Before(m, n)})
            C == Cardinality(of)
            at == [p \in 1..C |-> CHOOSE n \in of : place(n) = p]
<1>1. IsFiniteSet(of) /\ C \in Nat
  <2>1. DOMAIN log = 1..Len(log) /\ Len(log) \in Nat
    OBVIOUS
  <2>2. IsFiniteSet(1..Len(log))
    BY <2>1, FS_Interval
  <2> QED
    BY <2>1, <2>2, FS_Subset, FS_CardinalityType
<1>2. \A n \in of : n \in Int /\ log[n].observed_at \in Int
  <2>1. \A n \in of : n \in Int /\ log[n] \in ComplaintRecord
    OBVIOUS
  <2> QED
    BY <2>1 DEF ComplaintRecord
<1>3. Sorted(log, of) = [p \in 1..C |-> log[CHOOSE n \in of : place(n) = p]]
  BY DEF Sorted
<1>4. /\ \A n \in of : Before(n, n)
      /\ \A m, n \in of : Before(m, n) \/ Before(n, m)
      /\ \A m, n \in of : Before(m, n) /\ m # n => ~Before(n, m)
      /\ \A k, m, n \in of : Before(k, m) /\ Before(m, n) => Before(k, n)
      /\ \A m, n \in of : Before(m, n) /\ m # n => Earlier(log, m, n)
  BY <1>2 DEF Earlier
<1>. HIDE DEF Before
<1>5. ASSUME NEW n \in of
      PROVE  /\ IsFiniteSet({m \in of : Before(m, n)}) /\ place(n) \in 1..C
  <2>. DEFINE T == {m \in of : Before(m, n)}
  <2>1. T \in SUBSET of /\ n \in T
    BY <1>4
  <2>. HIDE DEF T
  <2>2. IsFiniteSet(T) /\ Cardinality(T) <= C /\ Cardinality(T) \in Nat
    BY <1>1, <2>1, FS_Subset, FS_CardinalityType
  <2>3. Cardinality(T) # 0
    BY <2>1, <2>2, FS_EmptySet
  <2>4. Cardinality(T) \in 1..C
    BY <1>1, <2>2, <2>3
  <2> QED
    BY <2>2, <2>4 DEF T
<1>6. ASSUME NEW m \in of, NEW n \in of, Before(m, n), m # n
      PROVE  place(m) < place(n)
  <2>. DEFINE T == {k \in of : Before(k, m)}
              U == {k \in of : Before(k, n)}
  <2>1. T \in SUBSET U /\ n \in U /\ n \notin T
    BY <1>4, <1>6
  <2>2. IsFiniteSet(T) /\ IsFiniteSet(U)
    BY <1>5
  <2>. HIDE DEF T, U
  <2>3. Cardinality(T) <= Cardinality(U) /\ Cardinality(T) # Cardinality(U)
    BY <2>1, <2>2, FS_Subset
  <2>4. Cardinality(T) \in Nat /\ Cardinality(U) \in Nat
    BY <2>2, FS_CardinalityType
  <2>5. Cardinality(T) < Cardinality(U)
    BY <2>3, <2>4
  <2> QED
    BY <2>5 DEF T, U
<1>. DEFINE f == [n \in of |-> place(n)]
<1>7. ASSUME NEW p \in 1..C PROVE \E n \in of : place(n) = p
  <2>. HIDE DEF place, C
  <2>1. \A m, n \in of : m # n => place(m) # place(n)
    <3> SUFFICES ASSUME NEW m \in of, NEW n \in of, m # n PROVE place(m) # place(n)
      OBVIOUS
    <3>1. place(m) \in 1..C /\ place(n) \in 1..C
      BY <1>5
    <3>2. place(m) < place(n) \/ place(n) < place(m)
      BY <1>4, <1>6
    <3> QED
      BY <3>1, <3>2
  <2>2. f \in [of -> 1..C] /\ \A m, n \in of : f[m] = f[n] => m = n
    BY <1>5, <2>1
  <2>. HIDE DEF f
  <2>3. f \in Injection(of, 1..C)
    BY <2>2 DEF Injection, IsInjective
  <2>4. IsFiniteSet(1..C) /\ Cardinality(1..C) = C
    BY <1>1, FS_Interval
  <2>5. Cardinality(of) = Cardinality(1..C) <=> f \in Surjection(of, 1..C)
    BY <2>3, <2>4, FS_Injection
  <2>6. f \in Surjection(of, 1..C)
    BY <2>4, <2>5 DEF C
  <2>7. \E n \in of : f[n] = p
    BY <2>6 DEF Surjection
  <2> QED
    BY <2>7 DEF f
<1>8. \A p \in 1..C : at[p] \in of /\ place(at[p]) = p
  <2>. HIDE DEF place, C
  <2> QED
    BY <1>7
<1>. HIDE DEF at
<1>9. at \in [1..C -> of] /\ Sorted(log, of) = [p \in 1..C |-> log[at[p]]]
  BY <1>3, <1>8 DEF at
<1>10. ASSUME NEW n \in of PROVE place(n) \in 1..C /\ at[place(n)] = n
  <2>1. place(n) \in 1..C
    BY <1>5
  <2>2. at[place(n)] \in of /\ place(at[place(n)]) = place(n)
    BY <1>8, <2>1
  <2>3. ASSUME at[place(n)] # n PROVE FALSE
    <3>1. Before(at[place(n)], n) \/ Before(n, at[place(n)])
      BY <1>4, <2>2
    <3>2. place(at[place(n)]) < place(n) \/ place(n) < place(at[place(n)])
      BY <1>6, <2>2, <2>3, <3>1
    <3> HIDE DEF place
    <3> QED
      BY <1>1, <2>1, <2>2, <3>2
  <2> QED
    BY <2>1, <2>3
<1>11. ASSUME NEW p \in 1..C, NEW q \in 1..C, p < q PROVE Earlier(log, at[p], at[q])
  <2>. HIDE DEF place, C
  <2>1. /\ at[p] \in of /\ place(at[p]) = p /\ at[q] \in of /\ place(at[q]) = q
    BY <1>8
  <2>2. at[p] # at[q]
    BY <2>1, <1>11
  <2>3. ~Before(at[q], at[p])
    <3>1. Before(at[q], at[p]) => place(at[q]) < place(at[p])
      BY <1>6, <2>1, <2>2
    <3> QED
      BY <1>1, <1>11, <2>1, <3>1
  <2> QED
    BY <1>4, <2>1, <2>2, <2>3
<1>12. \A n \in of : Place(log, of, n) = place(n)
  <2>1. \A m, n \in of : Before(m, n) <=> m = n \/ Earlier(log, m, n)
    BY <1>2 DEF Before, Earlier
  <2>2. \A n \in of : {m \in of : m = n \/ Earlier(log, m, n)} = {m \in of : Before(m, n)}
    BY <2>1
  <2> QED
    BY <2>2 DEF Place
<1>13. \A p \in 1..C : Place(log, of, at[p]) = p
  BY <1>8, <1>9, <1>12
<1>14. \A n \in of : Place(log, of, n) \in 1..C /\ at[Place(log, of, n)] = n
  BY <1>10, <1>12
<1>. HIDE DEF place
<1>15. SortsTo(log, of, at)
  BY <1>9, <1>11, <1>13, <1>14 DEF SortsTo
<1> QED
  BY <1>15, Zenon

\* The scan visits complaints of one SLA and one metric, which are as far apart
\* as dedup keeps the complaints of a voice.
LEMMA VoicesApart ==
    ASSUME AggregatorInv, DedupWindow >= W, NEW s \in SLAs, NEW metric \in Metrics,
           NEW m \in Relevant(complaints, s, metric),
           NEW n \in Relevant(complaints, s, metric),
           Earlier(complaints, m, n),
           complaints[n].observed_at - complaints[m].observed_at <= W
    PROVE  complaints[m].complainant # complaints[n].complainant
<1>1. complaints \in Seq(ComplaintRecord)
  BY DEF AggregatorInv, TypeOK
<1>2. /\ m \in DOMAIN complaints /\ n \in DOMAIN complaints
      /\ m \in Int /\ n \in Int
      /\ complaints[m].sla = s /\ complaints[m].metric = metric
      /\ complaints[n].sla = s /\ complaints[n].metric = metric
  BY <1>1 DEF Relevant
<1>3. complaints[m].observed_at \in Int /\ complaints[n].observed_at \in Int
  <2>1. complaints[m] \in ComplaintRecord /\ complaints[n] \in ComplaintRecord
    BY <1>1, <1>2
  <2>. QED
    BY <2>1 DEF ComplaintRecord
<1>4. m < n \/ n < m
  BY <1>2, <1>3 DEF Earlier
<1>5. ASSUME complaints[m].complainant = complaints[n].complainant
      PROVE  Apart(complaints[m].observed_at, complaints[n].observed_at) > DedupWindow
  <2>1. SameVoice(complaints[m], complaints[n]) /\ SameVoice(complaints[n], complaints[m])
    BY <1>2, <1>5 DEF SameVoice
  <2>2. \/ Apart(complaints[m].observed_at, complaints[n].observed_at) > DedupWindow
        \/ Apart(complaints[n].observed_at, complaints[m].observed_at) > DedupWindow
    BY <1>2, <1>4, <2>1 DEF AggregatorInv, DedupApart
  <2>. QED
    BY <1>3, <2>2 DEF Apart
<1>. QED
  BY <1>3, <1>5, AggregatorAssumption, ScorerAssumption DEF Earlier, Apart

LEMMA OneVoice ==
    ASSUME AggregatorInv
    PROVE  OneVoicePerWindow
<1> SUFFICES ASSUME DedupWindow >= W, NEW s \in SLAs, NEW metric \in Metrics,
                    NEW p \in DOMAIN Ordered(complaints, s, metric),
                    NEW q \in DOMAIN Ordered(complaints, s, metric),
                    p < q,
                    Ordered(complaints, s, metric)[q].observed_at
                      - Ordered(complaints, s, metric)[p].observed_at <= W
             PROVE  Ordered(complaints, s, metric)[p].complainant
                      # Ordered(complaints, s, metric)[q].complainant
  BY DEF OneVoicePerWindow
<1>. DEFINE of == Relevant(complaints, s, metric)
            log == Ordered(complaints, s, metric)
<1>1. complaints \in Seq(ComplaintRecord) /\ of \in SUBSET DOMAIN complaints
  BY DEF AggregatorInv, TypeOK, Relevant
<1>2. PICK at \in [1..Cardinality(of) -> of] :
          /\ Sorted(complaints, of) = [k \in 1..Cardinality(of) |-> complaints[at[k]]]
          /\ \A k, l \in 1..Cardinality(of) : k < l => Earlier(complaints, at[k], at[l])
  <2>. HIDE DEF of
  <2>1. PICK at : SortsTo(complaints, of, at)
    BY <1>1, Sorting, Zenon
  <2>. QED
    BY <2>1 DEF SortsTo
<1>3. /\ p \in 1..Cardinality(of) /\ q \in 1..Cardinality(of)
      /\ log[p] = complaints[at[p]] /\ log[q] = complaints[at[q]]
  BY <1>2 DEF Ordered
<1>4. Earlier(complaints, at[p], at[q]) /\ at[p] \in of /\ at[q] \in of
  BY <1>2, <1>3
<1>. QED
  BY <1>3, <1>4, VoicesApart

(***************************************************************************)
(* When the dedup window is at least the scorer's, a complainant speaks    *)
(* once in every window of every log the scan visits: K complaints there   *)
(* are K complainants.                                                     *)
(***************************************************************************)
THEOREM OneVoiceHolds == Spec => []OneVoicePerWindow
  BY OneVoice, AggregatorInvariant, PTL

-----------------------------------------------------------------------------
(* What one more complaint does to the logs of the scan and to its events. *)

\* Two logs that agree at some positions sort them in the same way.
LEMMA SameOrder ==
    ASSUME NEW log \in Seq(ComplaintRecord), NEW more \in Seq(ComplaintRecord),
           NEW of \in SUBSET DOMAIN log, of \subseteq DOMAIN more,
           \A n \in of : more[n] = log[n]
    PROVE  Sorted(more, of) = Sorted(log, of)
<1>. DEFINE C == Cardinality(of)
<1>1. PICK at \in [1..C -> of] :
          /\ Sorted(log, of) = [p \in 1..C |-> log[at[p]]]
          /\ \A n \in of : at[Place(log, of, n)] = n
  <2>1. PICK at : SortsTo(log, of, at)
    BY Sorting, Zenon
  <2>. QED
    BY <2>1 DEF SortsTo
<1>2. PICK to \in [1..C -> of] :
          /\ Sorted(more, of) = [p \in 1..C |-> more[to[p]]]
          /\ \A p \in 1..C : Place(more, of, to[p]) = p
  <2>1. of \in SUBSET DOMAIN more
    OBVIOUS
  <2>2. PICK to : SortsTo(more, of, to)
    BY <2>1, Sorting, Zenon
  <2>. QED
    BY <2>2 DEF SortsTo
<1>3. \A n \in of : Place(more, of, n) = Place(log, of, n)
  <2>1. \A m, n \in of : Earlier(more, m, n) <=> Earlier(log, m, n)
    BY DEF Earlier
  <2>2. \A n \in of : {m \in of : m = n \/ Earlier(more, m, n)}
                        = {m \in of : m = n \/ Earlier(log, m, n)}
    BY <2>1
  <2> QED
    BY <2>2 DEF Place
<1>. HIDE DEF C
<1>4. \A p \in 1..C : at[p] = to[p]
  <2>1. ASSUME NEW p \in 1..C PROVE at[p] = to[p]
    <3>1. to[p] \in of /\ Place(log, of, to[p]) = p
      BY <1>2, <1>3
    <3> QED
      BY <1>1, <3>1
  <2> QED
    BY <2>1
<1>5. \A p \in 1..C : more[to[p]] = log[at[p]]
  BY <1>2, <1>4
<1> QED
  BY <1>1, <1>2, <1>5

\* A complaint that none of the chosen ones was observed after comes last.
LEMMA LatestComesLast ==
    ASSUME NEW log \in Seq(ComplaintRecord), NEW c \in ComplaintRecord,
           NEW of \in SUBSET DOMAIN log,
           \A n \in of : log[n].observed_at <= c.observed_at
    PROVE  LET last == Len(log) + 1
           IN  Sorted(Append(log, c), of \cup {last}) = Append(Sorted(log, of), c)
<1>. DEFINE C == Cardinality(of)
            more == Append(log, c)
            last == Len(log) + 1
            all == of \cup {last}
<1>1. /\ more \in Seq(ComplaintRecord) /\ last \in Int /\ last \notin of
      /\ DOMAIN more = 1..last /\ all \in SUBSET DOMAIN more
      /\ more[last] = c /\ \A n \in of : more[n] = log[n]
      /\ \A n \in of : n \in Int /\ n < last
  OBVIOUS
<1>2. \A n \in all : more[n].observed_at \in Int
  <2>1. \A n \in all : more[n] \in ComplaintRecord
    BY <1>1
  <2> QED
    BY <2>1 DEF ComplaintRecord
<1>3. IsFiniteSet(of) /\ C \in Nat /\ Cardinality(all) = C + 1
  <2>1. DOMAIN log = 1..Len(log) /\ Len(log) \in Nat
    OBVIOUS
  <2>2. IsFiniteSet(1..Len(log))
    BY <2>1, FS_Interval
  <2>3. IsFiniteSet(of) /\ C \in Nat
    BY <2>1, <2>2, FS_Subset, FS_CardinalityType
  <2>4. Cardinality(of \cup {last}) = C + 1
    BY <1>1, <2>3, FS_AddElement
  <2> QED
    BY <2>3, <2>4
<1>. HIDE DEF more
<1>4. PICK at \in [1..C -> of] :
          /\ Sorted(log, of) = [p \in 1..C |-> log[at[p]]]
          /\ \A n \in of : at[Place(log, of, n)] = n
          /\ \A p \in 1..C : Place(log, of, at[p]) = p
  <2>. HIDE DEF C
  <2>1. \E at \in [1..Cardinality(of) -> of] :
          /\ Sorted(log, of) = [p \in 1..Cardinality(of) |-> log[at[p]]]
          /\ \A n \in of : at[Place(log, of, n)] = n
          /\ \A p \in 1..Cardinality(of) : Place(log, of, at[p]) = p
    <3>1. PICK at : SortsTo(log, of, at)
      BY Sorting, Zenon
    <3> QED
      BY <3>1 DEF SortsTo
  <2> QED
    BY <2>1 DEF C
<1>. HIDE DEF C, all
<1>5. PICK to \in [1..(C + 1) -> all] :
          /\ Sorted(more, all) = [p \in 1..(C + 1) |-> more[to[p]]]
          /\ \A n \in all : to[Place(more, all, n)] = n
          /\ \A p \in 1..(C + 1) : Place(more, all, to[p]) = p
  <2>1. PICK to : SortsTo(more, all, to)
    BY <1>1, Sorting, Zenon
  <2> QED
    BY <1>3, <2>1 DEF SortsTo
<1>6. \A n \in of : Earlier(more, n, last) /\ ~Earlier(more, last, n)
  BY <1>1, <1>2 DEF Earlier, all
<1>7. \A n \in of : Place(more, all, n) = Place(log, of, n)
  <2>1. \A m, n \in of : Earlier(more, m, n) <=> Earlier(log, m, n)
    BY <1>1 DEF Earlier
  <2>2. ASSUME NEW n \in of
        PROVE  {m \in all : m = n \/ Earlier(more, m, n)}
                 = {m \in of : m = n \/ Earlier(log, m, n)}
    BY <1>1, <1>6, <2>1 DEF all
  <2> QED
    BY <2>2 DEF Place
<1>8. Place(more, all, last) = C + 1
  <2>1. {m \in all : m = last \/ Earlier(more, m, last)} = all
    BY <1>6 DEF all
  <2> QED
    BY <1>3, <2>1 DEF Place
<1>9. to[C + 1] = last
  BY <1>5, <1>8 DEF all
<1>10. \A p \in 1..C : to[p] = at[p]
  <2>1. ASSUME NEW p \in 1..C PROVE to[p] = at[p]
    <3>1. at[p] \in of /\ at[p] \in all /\ Place(log, of, at[p]) = p
      BY <1>4 DEF all
    <3>2. Place(more, all, at[p]) = p
      BY <1>7, <3>1
    <3> QED
      BY <1>5, <3>1, <3>2
  <2> QED
    BY <2>1
<1>11. Sorted(log, of) \in Seq(ComplaintRecord) /\ Len(Sorted(log, of)) = C
  <2>1. \A p \in 1..C : log[at[p]] \in ComplaintRecord
    BY <1>4
  <2> QED
    BY <1>3, <1>4, <2>1
<1>12. Append(Sorted(log, of), c)
         = [p \in 1..(C + 1) |-> IF p = C + 1 THEN c ELSE Sorted(log, of)[p]]
  <2> SUFFICES ASSUME NEW s \in Seq(ComplaintRecord), Len(s) = C
               PROVE  Append(s, c) = [p \in 1..(C + 1) |-> IF p = C + 1 THEN c ELSE s[p]]
    BY <1>11
  <2>1. /\ Append(s, c) \in Seq(ComplaintRecord) /\ DOMAIN Append(s, c) = 1..(C + 1)
        /\ \A p \in 1..(C + 1) : Append(s, c)[p] = IF p = C + 1 THEN c ELSE s[p]
    BY <1>3
  <2>. DEFINE t == Append(s, c)
  <2>. HIDE DEF t
  <2>2. /\ t \in Seq(ComplaintRecord) /\ DOMAIN t = 1..(C + 1)
        /\ \A p \in 1..(C + 1) : t[p] = IF p = C + 1 THEN c ELSE s[p]
    BY <2>1 DEF t
  <2>3. t \in [1..Len(t) -> ComplaintRecord]
    BY <2>2, LenProperties
  <2>4. t = [p \in 1..(C + 1) |-> IF p = C + 1 THEN c ELSE s[p]]
    BY <2>2, <2>3
  <2> QED
    BY <2>4 DEF t
<1>13. \A p \in 1..(C + 1) :
          more[to[p]] = IF p = C + 1 THEN c ELSE Sorted(log, of)[p]
  <2>1. ASSUME NEW p \in 1..C PROVE more[to[p]] = Sorted(log, of)[p] /\ p # C + 1
    <3>1. more[to[p]] = log[at[p]]
      BY <1>1, <1>4, <1>10
    <3> QED
      BY <1>3, <1>4, <3>1
  <2>2. \A p \in 1..(C + 1) : p = C + 1 \/ p \in 1..C
    BY <1>3
  <2> QED
    BY <1>1, <1>9, <2>1, <2>2
<1> QED
  BY <1>5, <1>12, <1>13 DEF more, all

\* An accepted complaint that is not a violation, or is about another metric,
\* changes nothing of a log; one that is a violation observed last comes last.
LEMMA OtherLogsStay ==
    ASSUME AggregatorInv, AddComplaint, NEW s, NEW m,
           ~(s = request.sla /\ m = request.metric /\ IsViolation(request))
    PROVE  Ordered(complaints', s, m) = Ordered(complaints, s, m)
<1>. DEFINE more == Append(complaints, request)
            last == Len(complaints) + 1
<1>1. complaints \in Seq(ComplaintRecord) /\ request \in ComplaintRecord /\ complaints' = more
  BY DEF AggregatorInv, TypeOK, AddComplaint, Complaining
<1>2. /\ more \in Seq(ComplaintRecord) /\ DOMAIN more = DOMAIN complaints \cup {last}
      /\ more[last] = request /\ \A n \in DOMAIN complaints : more[n] = complaints[n]
  BY <1>1
<1>. HIDE DEF more
<1>3. Relevant(more, s, m) = Relevant(complaints, s, m)
  <2>1. last \notin Relevant(more, s, m)
    BY <1>2 DEF Relevant
  <2>2. \A n \in DOMAIN complaints : n \in Relevant(more, s, m) <=> n \in Relevant(complaints, s, m)
    BY <1>2 DEF Relevant
  <2>3. Relevant(more, s, m) \subseteq DOMAIN more
        /\ Relevant(complaints, s, m) \subseteq DOMAIN complaints
    BY DEF Relevant
  <2> QED
    BY <1>2, <2>1, <2>2, <2>3
<1>4. Relevant(complaints, s, m) \in SUBSET DOMAIN complaints
  BY DEF Relevant
<1>5. Sorted(more, Relevant(complaints, s, m)) = Sorted(complaints, Relevant(complaints, s, m))
  BY <1>1, <1>2, <1>4, SameOrder
<1> QED
  BY <1>1, <1>3, <1>5 DEF Ordered

\* Observed at or after every complaint of its SLA and metric.
Latest ==
    \A n \in DOMAIN complaints :
        complaints[n].sla = request.sla /\ complaints[n].metric = request.metric
            => complaints[n].observed_at <= request.observed_at

LEMMA ItsLogGrows ==
    ASSUME AggregatorInv, AddComplaint, Latest, IsViolation(request)
    PROVE  Ordered(complaints', request.sla, request.metric)
             = Append(Ordered(complaints, request.sla, request.metric), request)
<1>. DEFINE more == Append(complaints, request)
            last == Len(complaints) + 1
            s == request.sla
            m == request.metric
            of == Relevant(complaints, s, m)
<1>1. complaints \in Seq(ComplaintRecord) /\ request \in ComplaintRecord /\ complaints' = more
  BY DEF AggregatorInv, TypeOK, AddComplaint, Complaining
<1>2. /\ DOMAIN more = DOMAIN complaints \cup {last}
      /\ more[last] = request /\ \A n \in DOMAIN complaints : more[n] = complaints[n]
  BY <1>1
<1>3. of \in SUBSET DOMAIN complaints
      /\ \A n \in of : complaints[n].observed_at <= request.observed_at
  BY DEF Relevant, Latest
<1>4. Relevant(more, s, m) = of \cup {last}
  <2>. HIDE DEF more
  <2>1. last \in Relevant(more, s, m)
    BY <1>2 DEF Relevant
  <2>2. \A n \in DOMAIN complaints : n \in Relevant(more, s, m) <=> n \in of
    BY <1>2 DEF Relevant
  <2>3. Relevant(more, s, m) \subseteq DOMAIN more
    BY DEF Relevant
  <2> QED
    BY <1>2, <1>3, <2>1, <2>2, <2>3
<1>. HIDE DEF of
<1>5. Sorted(more, of \cup {last}) = Append(Sorted(complaints, of), request)
  BY <1>1, <1>3, LatestComesLast
<1> QED
  BY <1>1, <1>4, <1>5 DEF Ordered, of

\* The log of an SLA and a metric lists stored complaints.
LEMMA LogOfComplaints ==
    ASSUME complaints \in Seq(ComplaintRecord), NEW s, NEW m
    PROVE  LET log == Ordered(complaints, s, m)
           IN  /\ log \in Seq(ComplaintRecord)
               /\ \A p \in 1..Len(log) : \E n \in DOMAIN complaints : log[p] = complaints[n]
<1>. DEFINE of == Relevant(complaints, s, m)
            log == Ordered(complaints, s, m)
            C == Cardinality(of)
<1>1. of \in SUBSET DOMAIN complaints
  BY DEF Relevant
<1>2. C \in Nat
  <2>1. DOMAIN complaints = 1..Len(complaints) /\ Len(complaints) \in Nat
    OBVIOUS
  <2>2. IsFiniteSet(1..Len(complaints))
    BY <2>1, FS_Interval
  <2> QED
    BY <1>1, <2>1, <2>2, FS_Subset, FS_CardinalityType
<1>. HIDE DEF of
<1>3. PICK at \in [1..C -> of] : Sorted(complaints, of) = [p \in 1..C |-> complaints[at[p]]]
  <2>1. PICK at : SortsTo(complaints, of, at)
    BY <1>1, Sorting, Zenon
  <2>. QED
    BY <2>1 DEF SortsTo
<1>. HIDE DEF C
<1>4. \A p \in 1..C : at[p] \in DOMAIN complaints /\ complaints[at[p]] \in ComplaintRecord
  BY <1>1
<1>5. log = [p \in 1..C |-> complaints[at[p]]]
  BY <1>3 DEF Ordered, of
<1>. HIDE DEF log
<1>6. log \in Seq(ComplaintRecord) /\ Len(log) = C
  BY <1>2, <1>4, <1>5
<1> QED
  BY <1>4, <1>5, <1>6 DEF log

\* The events of a log, and what one more entry at its end adds to them.
EventsOf(log, s, m) ==
    {[sla |-> s, metric |-> m, window_end |-> log[n].observed_at] : n \in Fires(log)}

LEMMA OneMoreEvent ==
    ASSUME NEW log \in Seq(ComplaintRecord), NEW c \in ComplaintRecord, NEW s, NEW m
    PROVE  LET e == [sla |-> s, metric |-> m, window_end |-> c.observed_at]
           IN  /\ EventsOf(log, s, m) \subseteq EventsOf(Append(log, c), s, m)
               /\ EventsOf(Append(log, c), s, m) \subseteq EventsOf(log, s, m) \cup {e}
<1>. DEFINE L == Len(log)
            more == Append(log, c)
            e == [sla |-> s, metric |-> m, window_end |-> c.observed_at]
<1>1. /\ L \in Nat /\ more[L + 1] = c /\ \A n \in 1..L : more[n] = log[n]
  OBVIOUS
<1>2. /\ Fires(log) \subseteq 1..L /\ Fires(more) \subseteq 1..(L + 1)
      /\ \A n \in 1..L : n \in Fires(more) <=> n \in Fires(log)
  BY FiresSoFar
<1>. HIDE DEF L, more
<1>3. EventsOf(log, s, m) \subseteq EventsOf(more, s, m)
  BY <1>1, <1>2 DEF EventsOf
<1>4. EventsOf(more, s, m) \subseteq EventsOf(log, s, m) \cup {e}
  <2> SUFFICES ASSUME NEW n \in Fires(more)
               PROVE  [sla |-> s, metric |-> m, window_end |-> more[n].observed_at]
                        \in EventsOf(log, s, m) \cup {e}
    BY DEF EventsOf
  <2>1. CASE n = L + 1
    BY <1>1, <2>1
  <2>2. CASE n \in 1..L
    BY <1>1, <1>2, <2>2 DEF EventsOf
  <2> QED
    BY <1>1, <1>2, <2>1, <2>2
<1> QED
  BY <1>3, <1>4 DEF more

LEMMA InOrderAdds ==
    ASSUME AggregatorInv, AddComplaint, Latest
    PROVE  LET s == request.sla
               old == EventsOfSLA(complaints, s)
               new == EventsOfSLA(complaints', s)
           IN  old \subseteq new /\ Cardinality(new \ old) <= 1
<1>. DEFINE s == request.sla
            old == EventsOfSLA(complaints, s)
            new == EventsOfSLA(complaints', s)
            before(m) == EventsOf(Ordered(complaints, s, m), s, m)
            after(m) == EventsOf(Ordered(complaints', s, m), s, m)
            e == [sla |-> s, metric |-> request.metric,
                  window_end |-> request.observed_at]
<1>1. /\ old = UNION {before(m) : m \in DOMAIN Bound[s]}
      /\ new = UNION {after(m) : m \in DOMAIN Bound[s]}
  BY DEF EventsOfSLA, EventsOf
<1>2. ASSUME NEW m PROVE before(m) \subseteq after(m) /\ after(m) \subseteq before(m) \cup {e}
  <2>1. CASE m = request.metric /\ IsViolation(request)
    <3>. DEFINE log == Ordered(complaints, s, m)
    <3>1. request \in ComplaintRecord /\ complaints \in Seq(ComplaintRecord)
      BY DEF AggregatorInv, TypeOK, AddComplaint, Complaining
    <3>2. log \in Seq(ComplaintRecord)
      BY <3>1, LogOfComplaints
    <3>3. Ordered(complaints', s, m) = Append(log, request)
      BY <2>1, ItsLogGrows
    <3>. HIDE DEF log
    <3>4. EventsOf(log, s, m) \subseteq EventsOf(Append(log, request), s, m)
          /\ EventsOf(Append(log, request), s, m) \subseteq EventsOf(log, s, m) \cup {e}
      BY <2>1, <3>1, <3>2, OneMoreEvent
    <3> QED
      BY <3>3, <3>4 DEF log
  <2>2. CASE ~(m = request.metric /\ IsViolation(request))
    <3>1. Ordered(complaints', s, m) = Ordered(complaints, s, m)
      BY <2>2, OtherLogsStay
    <3> QED
      BY <3>1
  <2> QED
    BY <2>1, <2>2
<1>. HIDE DEF old, new, before, after, e
<1>3. old \subseteq new /\ new \subseteq old \cup {e}
  BY <1>1, <1>2, Zenon
<1>4. Cardinality(new \ old) <= 1
  <2>1. new \ old = {} \/ new \ old = {e}
    BY <1>3
  <2>2. Cardinality({}) = 0 /\ Cardinality({e}) = 1
    BY FS_EmptySet, FS_Singleton
  <2> QED
    BY <2>1, <2>2
<1> QED
  BY <1>3, <1>4 DEF old, new

(***************************************************************************)
(* A complaint observed after all the others of its SLA and metric takes   *)
(* no event back and adds at most one, in every market: the threshold, the *)
(* windows and the suppression look backwards only, and a stable sort puts *)
(* it last.                                                                *)
(***************************************************************************)
THEOREM InOrderHolds == Spec => InOrderNeverRetracts
<1>1. ASSUME AggregatorInv, [Next]_vars
      PROVE  [AddComplaint =>
                LET s == request.sla
                    latest == \A n \in DOMAIN complaints :
                                  /\ complaints[n].sla = s
                                  /\ complaints[n].metric = request.metric
                                  => complaints[n].observed_at <= request.observed_at
                    old == EventsOfSLA(complaints, s)
                    new == EventsOfSLA(complaints', s)
                IN  latest => old \subseteq new /\ Cardinality(new \ old) <= 1]_vars
  BY <1>1, InOrderAdds DEF Latest
<1> QED
  BY <1>1, AggregatorInvariant, PTL DEF Spec, InOrderNeverRetracts

-----------------------------------------------------------------------------
(* GET /scores beside the event loop.                                      *)

Walking == reader.pc \in {"events", "cosigners"}

\* As long as no reset cleared a field: the dict that is walked has only grown,
\* what was collected are the events that the copy holds against the SLAs seen,
\* and one of the moments of the call held the copy, with SLAs that are all those
\* it speaks of and that the walk will have seen when it ends.
ReaderInv ==
    /\ IsFiniteSet(Known)
    /\ reader.pc \in {"off", "events", "cosigners", "failed", "done"}
    /\ Walking =>
          DOMAIN reader = {"pc", "copy", "walk", "seen", "events", "moments", "undisturbed"}
    /\ Walking /\ reader.undisturbed =>
          /\ reader.walk \subseteq Known
          /\ reader.events = UNION {EventsOfSLA(reader.copy, s) : s \in reader.seen}
          /\ \E known \in SUBSET SLAs :
                /\ known \subseteq IF reader.pc = "events" THEN Known ELSE reader.seen
                /\ \A n \in DOMAIN reader.copy : reader.copy[n].sla \in known
                /\ Ledger(known, reader.copy) \in reader.moments

\* A step that leaves the SLAs and the reader alone.
LEMMA BesideReader ==
    ASSUME ReaderInv, UNCHANGED <<slas, reader>>
    PROVE  ReaderInv'
BY DEF ReaderInv, Walking, Known

\* The event loop adds an SLA or a complaint; a moment more is witnessed.
LEMMA AddsForReader ==
    ASSUME AggregatorInv, ReaderInv, AddSLA \/ AddComplaint
    PROVE  ReaderInv'
<1>1. Known \subseteq Known' /\ IsFiniteSet(Known')
  <2>1. CASE AddSLA
    <3>1. Known' = Known \cup {request.sla}
      BY <2>1 DEF AddSLA, Known
    <3> QED
      BY <3>1, FS_AddElement DEF ReaderInv
  <2>2. CASE AddComplaint
    BY <2>2 DEF AddComplaint, ReaderInv, Known
  <2> QED
    BY <2>1, <2>2
<1>2. PICK known, log : Witness(known, log)
  BY DEF AddSLA, AddComplaint
<1>. DEFINE more == [reader EXCEPT !.moments = @ \cup {Ledger(known, log)}]
<1>3. CASE reader' = reader
  BY <1>1, <1>3 DEF ReaderInv, Walking
<1>4. CASE reader.pc \in {"events", "cosigners"} /\ reader' = more
  <2>1. DOMAIN reader = {"pc", "copy", "walk", "seen", "events", "moments", "undisturbed"}
    BY <1>4 DEF ReaderInv, Walking
  <2>2. /\ DOMAIN more = DOMAIN reader
        /\ more.pc = reader.pc /\ more.copy = reader.copy /\ more.walk = reader.walk
        /\ more.seen = reader.seen /\ more.events = reader.events
        /\ more.undisturbed = reader.undisturbed
        /\ more.moments = reader.moments \cup {Ledger(known, log)}
    BY <2>1
  <2>. HIDE DEF more
  <2> QED
    BY <1>1, <1>4, <2>1, <2>2 DEF ReaderInv, Walking
<1> QED
  BY <1>2, <1>3, <1>4 DEF Witness

LEMMA ClearDisturbs ==
    ASSUME ReaderInv, Clear
    PROVE  ReaderInv'
<1>1. IsFiniteSet(Known')
  <2>1. Known' = Known \/ Known' = {}
    BY DEF Clear, Cleared, Known
  <2> QED
    BY <2>1, FS_EmptySet DEF ReaderInv
<1>2. CASE Walking
  <2>. DEFINE more == [reader EXCEPT !.undisturbed = FALSE, !.moments = {}]
  <2>1. reader' = more
    BY <1>2 DEF Clear, Walking
  <2>2. more.pc = reader.pc /\ more.undisturbed = FALSE /\ DOMAIN more = DOMAIN reader
    BY <1>2 DEF ReaderInv
  <2>. HIDE DEF more
  <2> QED
    BY <1>1, <1>2, <2>1, <2>2 DEF ReaderInv, Walking
<1>3. CASE ~Walking
  <2>1. reader' = reader
    BY <1>3 DEF Clear, Walking
  <2> QED
    BY <1>1, <1>3, <2>1 DEF ReaderInv, Walking
<1> QED
  BY <1>2, <1>3

LEMMA ReadBegins ==
    ASSUME AggregatorInv, ReaderInv, ReadComplaints
    PROVE  ReaderInv'
<1>1. /\ slas' = slas /\ Known \in SUBSET SLAs
      /\ reader' = [pc |-> "events", copy |-> complaints, walk |-> Known,
                    seen |-> {}, events |-> {},
                    moments |-> {Ledger(Known, complaints)},
                    undisturbed |-> \A n \in DOMAIN complaints :
                                        complaints[n].sla \in Known]
  BY DEF ReadComplaints, store, AggregatorInv, TypeOK
<1>2. /\ DOMAIN reader' = {"pc", "copy", "walk", "seen", "events", "moments", "undisturbed"}
      /\ reader'.pc = "events" /\ reader'.copy = complaints /\ reader'.walk = Known
      /\ reader'.seen = {} /\ reader'.events = {}
      /\ reader'.moments = {Ledger(Known, complaints)}
      /\ reader'.undisturbed = (\A n \in DOMAIN complaints : complaints[n].sla \in Known)
  BY <1>1
<1>3. Known' = Known
  BY <1>1 DEF Known
<1>4. UNION {EventsOfSLA(complaints, s) : s \in {}} = {}
  OBVIOUS
<1> QED
  BY <1>1, <1>2, <1>3, <1>4 DEF ReaderInv, Walking

\* As long as no reset came, an iterator that finds its dict of the same size
\* has found the same dict.
LEMMA SameDict ==
    ASSUME ReaderInv, Walking, reader.undisturbed, SameSize
    PROVE  reader.walk = Known
BY FS_Subset DEF ReaderInv, SameSize

LEMMA WalkKeepsReader ==
    ASSUME AggregatorInv, ReaderInv, StartWalk \/ WalkNext \/ WalkEnds
    PROVE  ReaderInv'
<1>1. slas' = slas /\ Known' = Known
  BY DEF StartWalk, WalkNext, WalkEnds, store, Known
<1>2. /\ Walking /\ reader.pc = "events"
      /\ DOMAIN reader = {"pc", "copy", "walk", "seen", "events", "moments", "undisturbed"}
  BY DEF StartWalk, WalkNext, WalkEnds, ReaderInv, Walking
<1>3. CASE StartWalk
  <2>. DEFINE next == [reader EXCEPT !.walk = Known]
  <2>1. /\ DOMAIN next = DOMAIN reader
        /\ next.pc = "events" /\ next.copy = reader.copy /\ next.walk = Known
        /\ next.seen = reader.seen /\ next.events = reader.events
        /\ next.undisturbed = reader.undisturbed /\ next.moments = reader.moments
    BY <1>2
  <2>2. reader' = next
    BY <1>3 DEF StartWalk
  <2>. HIDE DEF next
  <2> QED
    BY <1>1, <1>2, <2>1, <2>2 DEF ReaderInv, Walking
<1>4. CASE WalkNext
  <2>1. PICK s \in Known \ reader.seen :
          reader' = [reader EXCEPT !.seen = @ \cup {s},
                                   !.events = @ \cup EventsOfSLA(reader.copy, s)]
    BY <1>4 DEF WalkNext
  <2>. DEFINE next == [reader EXCEPT !.seen = @ \cup {s},
                                     !.events = @ \cup EventsOfSLA(reader.copy, s)]
  <2>2. /\ DOMAIN next = DOMAIN reader
        /\ next.pc = "events" /\ next.copy = reader.copy /\ next.walk = reader.walk
        /\ next.seen = reader.seen \cup {s}
        /\ next.events = reader.events \cup EventsOfSLA(reader.copy, s)
        /\ next.undisturbed = reader.undisturbed /\ next.moments = reader.moments
    BY <1>2
  <2>3. UNION {EventsOfSLA(reader.copy, t) : t \in reader.seen \cup {s}}
          = (UNION {EventsOfSLA(reader.copy, t) : t \in reader.seen})
              \cup EventsOfSLA(reader.copy, s)
    OBVIOUS
  <2>4. reader' = next
    BY <2>1
  <2>. HIDE DEF next
  <2> QED
    BY <1>1, <1>2, <2>2, <2>3, <2>4 DEF ReaderInv, Walking
<1>5. CASE WalkEnds
  <2>. DEFINE next == [reader EXCEPT !.pc = "cosigners", !.walk = Known]
  <2>1. /\ DOMAIN next = DOMAIN reader
        /\ next.pc = "cosigners" /\ next.copy = reader.copy /\ next.walk = Known
        /\ next.seen = reader.seen /\ next.events = reader.events
        /\ next.undisturbed = reader.undisturbed /\ next.moments = reader.moments
    BY <1>2
  <2>2. reader' = next
    BY <1>5 DEF WalkEnds
  <2>3. reader.undisturbed => Known \subseteq reader.seen
    BY <1>2, <1>5, SameDict DEF WalkEnds
  <2>. HIDE DEF next
  <2> QED
    BY <1>1, <1>2, <2>1, <2>2, <2>3 DEF ReaderInv, Walking
<1> QED
  BY <1>3, <1>4, <1>5

LEMMA ReadEnds ==
    ASSUME ReaderInv, WalkRaises \/ AnswerScores
    PROVE  ReaderInv'
BY DEF ReaderInv, Walking, WalkRaises, AnswerScores, store, Known

THEOREM ReaderInvariant == Spec => []ReaderInv
<1>1. Init => ReaderInv
  BY FS_EmptySet DEF Init, ReaderInv, Walking, NoRead, Known
<1>2. AggregatorInv /\ ReaderInv /\ [Next]_vars => ReaderInv'
  <2> SUFFICES ASSUME AggregatorInv, ReaderInv, [Next]_vars PROVE ReaderInv'
    OBVIOUS
  <2>1. \/ UNCHANGED <<slas, reader>> \/ AddSLA \/ AddComplaint \/ Clear
        \/ ReadComplaints \/ StartWalk \/ WalkNext \/ WalkEnds \/ WalkRaises \/ AnswerScores
    <3>1. CASE Next
      BY <3>1
      DEF Next, Tick, PostSLA, SLALine, PostClaim, AddClaim, ClaimLine, PostComplaint,
          RefuseDuplicate, PassDedup, FindAffected, ScoreNext, ScoreRaises,
          ComplaintLine, Announce, Accepted, BeginReset, Accept, store
    <3>2. CASE UNCHANGED vars
      BY <3>2 DEF vars, store
    <3> QED
      BY <3>1, <3>2
  <2> QED
    BY <2>1, BesideReader, AddsForReader, ClearDisturbs, ReadBegins, WalkKeepsReader,
       ReadEnds
<1> QED
  BY <1>1, <1>2, AggregatorInvariant, PTL DEF Spec

-----------------------------------------------------------------------------
(* An SLA that no complaint of the copy is about has no events.            *)

LEMMA NoComplaintsNoEvents ==
    ASSUME NEW log, NEW s, \A n \in DOMAIN log : log[n].sla # s
    PROVE  EventsOfSLA(log, s) = {}
<1> SUFFICES ASSUME NEW m PROVE Fires(Ordered(log, s, m)) = {}
  BY DEF EventsOfSLA
<1>1. Relevant(log, s, m) = {}
  BY DEF Relevant
<1>2. Ordered(log, s, m) = <<>>
  <2>1. Cardinality({}) = 0
    BY FS_EmptySet
  <2>2. 1..0 = {}
    OBVIOUS
  <2>3. Sorted(log, {}) = [p \in {} |-> log[CHOOSE n \in {} : Cardinality({k \in {} :
           \/ log[k].observed_at < log[n].observed_at
           \/ log[k].observed_at = log[n].observed_at /\ k <= n}) = p]]
    BY <2>1, <2>2 DEF Sorted
  <2>4. Sorted(log, {}) = <<>>
    BY <2>3
  <2> QED
    BY <1>1, <2>4 DEF Ordered
<1>3. <<>> \in Seq({}) /\ Len(<<>>) = 0
  OBVIOUS
<1>4. Fires(<<>>) \subseteq 1..0
  BY <1>3, FiresEquation
<1> QED
  BY <1>2, <1>4

(***************************************************************************)
(* A GET /scores that no reset comes across lists every AS with the events *)
(* of one moment of the call, although SLAs and complaints are stored while*)
(* it walks: an SLA stored meanwhile has no complaint in the copy.         *)
(***************************************************************************)
THEOREM ScoresHold == Spec => ScoresOfAMoment
<1>1. ASSUME AggregatorInv, ReaderInv, AnswerScores, reader.undisturbed,
             NEW a \in DOMAIN Listing
      PROVE  \E m \in reader.moments : Listing[a] = m[a]
  <2>1. Walking /\ reader.pc = "cosigners"
    BY <1>1 DEF AnswerScores, Walking
  <2>2. PICK known \in SUBSET SLAs :
            /\ known \subseteq reader.seen
            /\ \A n \in DOMAIN reader.copy : reader.copy[n].sla \in known
            /\ Ledger(known, reader.copy) \in reader.moments
    BY <1>1, <2>1 DEF ReaderInv
  <2>3. reader.events = AllEvents(known, reader.copy)
    <3>1. \A s : s \notin known => EventsOfSLA(reader.copy, s) = {}
      BY <2>2, NoComplaintsNoEvents
    <3>2. reader.events = UNION {EventsOfSLA(reader.copy, s) : s \in reader.seen}
      BY <1>1, <2>1 DEF ReaderInv
    <3> QED
      BY <2>2, <3>1, <3>2, Zenon DEF AllEvents
  <2>4. a \in ASes
    <3>1. PICK s \in Known : a \in ToSet(Cosigners[s])
      BY <1>1 DEF Listing
    <3>2. s \in SLAs
      BY <3>1, <1>1 DEF AggregatorInv, TypeOK
    <3>3. Cosigners[s] \in Seq(ASes)
      BY <3>2, AggregatorAssumption
    <3> QED
      BY <3>1, <3>3 DEF ToSet
  <2>5. Listing[a] = AttributedTo(reader.events, a)
    BY <1>1 DEF Listing
  <2>6. Ledger(known, reader.copy)[a] = AttributedTo(reader.events, a)
    BY <2>3, <2>4 DEF Ledger
  <2> QED
    BY <2>2, <2>5, <2>6
<1>2. ASSUME AggregatorInv, ReaderInv
      PROVE  [AnswerScores /\ reader.undisturbed =>
                \A a \in DOMAIN Listing :
                    \E m \in reader.moments : Listing[a] = m[a]]_vars
  BY <1>1, <1>2
<1> QED
  BY <1>2, AggregatorInvariant, ReaderInvariant, PTL DEF Spec, ScoresOfAMoment

-----------------------------------------------------------------------------
(* The two ways of adding up the events of an AS.                          *)

\* No AS stands twice among the cosigners of an SLA.
Distinct(s) ==
    \A m, n \in DOMAIN Cosigners[s] : Cosigners[s][m] = Cosigners[s][n] => m = n

\* What an event may be dated.
Dates == {b.observed_at : b \in ComplaintBodies}

ListedInv ==
    /\ \A s \in Known : Distinct(s)
    /\ pc = "add_sla" => Distinct(request.sla)
    /\ \A n \in DOMAIN complaints : complaints[n].observed_at \in Dates
    /\ pc \in Complaining => request.observed_at \in Dates

\* Validation counts the signers against the set of cosigners.
LEMMA ValidIsDistinct ==
    ASSUME NEW b \in SLABodies, ValidSLA(b)
    PROVE  Distinct(b.sla)
<1>. DEFINE cosigners == Cosigners[b.sla]
            signers == [n \in DOMAIN b.signatures |-> b.signatures[n].isd_as]
            L == Len(cosigners)
<1>1. cosigners \in Seq(ASes) /\ b.signatures \in Seq([isd_as : ASes, verifies : BOOLEAN])
  BY AggregatorAssumption
<1>2. Len(signers) = Len(b.signatures)
  BY <1>1
<1>3. Len(signers) = Cardinality(ToSet(cosigners)) /\ Len(b.signatures) = L
  BY DEF ValidSLA, SignedByEachCosigner
<1>4. L = Cardinality(ToSet(cosigners)) /\ L \in Nat /\ DOMAIN cosigners = 1..L
  BY <1>1, <1>2, <1>3
<1>. HIDE DEF cosigners, signers, L
<1>5. cosigners \in Surjection(1..L, ToSet(cosigners))
  <2>1. cosigners \in [1..L -> ToSet(cosigners)]
    <3>1. \A n \in 1..L : cosigners[n] \in ToSet(cosigners)
      BY <1>4 DEF ToSet
    <3>2. cosigners = [n \in 1..L |-> cosigners[n]]
      BY <1>1, <1>4
    <3> QED
      BY <3>1, <3>2
  <2>2. \A a \in ToSet(cosigners) : \E n \in 1..L : cosigners[n] = a
    BY <1>4 DEF ToSet
  <2> QED
    BY <2>1, <2>2 DEF Surjection
<1>6. IsFiniteSet(1..L) /\ Cardinality(1..L) = L
  BY <1>4, FS_Interval
<1>7. cosigners \in Injection(1..L, ToSet(cosigners))
  BY <1>4, <1>5, <1>6, FS_Surjection
<1> QED
  BY <1>4, <1>7 DEF Distinct, Injection, IsInjective, cosigners

\* A step that stores nothing and accepts no request.
LEMMA ListedStays ==
    ASSUME AggregatorInv, ListedInv,
           Known' \subseteq Known, complaints' \in {complaints, <<>>},
           pc' = "add_sla" => UNCHANGED <<pc, request>>,
           pc' \in Complaining => pc \in Complaining /\ UNCHANGED request
    PROVE  ListedInv'
BY DEF ListedInv, Complaining, Distinct

LEMMA ListedKeeps ==
    ASSUME AggregatorInv, ListedInv, [Next]_vars
    PROVE  ListedInv'
<1>1. ASSUME NEW b \in SLABodies, PostSLA(b) PROVE ListedInv'
  <2>1. /\ UNCHANGED <<slas, complaints>> /\ pc' = "add_sla" /\ request'.sla = b.sla
        /\ ValidSLA(b)
    BY <1>1 DEF PostSLA, Accept, store
  <2>2. Distinct(b.sla)
    BY <2>1, ValidIsDistinct
  <2> QED
    BY <2>1, <2>2 DEF ListedInv, Known, Complaining, Distinct
<1>2. CASE AddSLA
  <2>1. Known' = Known \cup {request.sla} /\ pc = "add_sla" /\ pc' = "sla_line"
        /\ UNCHANGED <<complaints, request>>
    BY <1>2 DEF AddSLA, Known
  <2> QED
    BY <2>1 DEF ListedInv, Complaining, Distinct
<1>3. ASSUME NEW b \in ComplaintBodies, PostComplaint(b) PROVE ListedInv'
  <2>1. /\ UNCHANGED <<slas, complaints>> /\ pc' = "dedup"
        /\ request'.observed_at = b.observed_at
    BY <1>3 DEF PostComplaint, Accept, store
  <2> QED
    BY <2>1 DEF ListedInv, Known, Complaining, Distinct, Dates
<1>4. CASE AddComplaint
  <2>1. /\ UNCHANGED <<slas, request>> /\ pc = "before" /\ pc' = "complaint_line"
        /\ complaints' = Append(complaints, request)
        /\ complaints \in Seq(ComplaintRecord)
    BY <1>4 DEF AddComplaint, AggregatorInv, TypeOK
  <2>2. \A n \in DOMAIN complaints' : complaints'[n].observed_at \in Dates
    <3>1. request.observed_at \in Dates
          /\ \A n \in DOMAIN complaints : complaints[n].observed_at \in Dates
      BY <2>1 DEF ListedInv, Complaining
    <3>2. \A n \in DOMAIN complaints' :
             \/ complaints'[n] = request
             \/ n \in DOMAIN complaints /\ complaints'[n] = complaints[n]
      <4>1. request \in ComplaintRecord
        BY <2>1 DEF AggregatorInv, TypeOK, Complaining
      <4> QED
        BY <2>1, <4>1
    <3> QED
      BY <3>1, <3>2
  <2> QED
    BY <2>1, <2>2 DEF ListedInv, Known, Complaining, Distinct
<1>5. CASE Clear
  <2>1. /\ Known' \subseteq Known /\ complaints' \in {complaints, <<>>}
        /\ UNCHANGED <<pc, request>>
    BY <1>5 DEF Clear, Cleared, Known, loop
  <2> QED
    BY <2>1, ListedStays
<1>6. CASE \/ Tick \/ SLALine \/ (\E b \in ClaimBodies : PostClaim(b)) \/ AddClaim
           \/ ClaimLine \/ RefuseDuplicate \/ PassDedup \/ FindAffected
           \/ ScoreNext("before") \/ ScoreNext("after") \/ ScoreRaises
           \/ ComplaintLine \/ Announce \/ Accepted \/ BeginReset
           \/ ReadComplaints \/ StartWalk \/ WalkNext \/ WalkEnds \/ WalkRaises
           \/ AnswerScores \/ UNCHANGED vars
  <2>1. /\ UNCHANGED <<slas, complaints>>
        /\ pc' = "add_sla" => UNCHANGED <<pc, request>>
        /\ pc' \in Complaining => pc \in Complaining /\ UNCHANGED request
    BY <1>6
    DEF Tick, SLALine, PostClaim, AddClaim, ClaimLine, RefuseDuplicate, PassDedup,
        FindAffected, ScoreNext, ScoreRaises, ComplaintLine, Announce, Accepted,
        BeginReset, ReadComplaints, StartWalk, WalkNext, WalkEnds, WalkRaises,
        AnswerScores, vars, store, loop, reset, Respond, Accept, Complaining
  <2> QED
    BY <2>1, ListedStays DEF Known
<1> QED
  BY <1>1, <1>2, <1>3, <1>4, <1>5, <1>6 DEF Next

THEOREM ListedInvariant == Spec => []ListedInv
<1>1. Init => ListedInv
  BY DEF Init, ListedInv, Known, Complaining
<1> QED
  BY <1>1, ListedKeeps, AggregatorInvariant, PTL DEF Spec

\* There are finitely many events, and each is dated as a complaint was.
LEMMA EventFacts ==
    ASSUME AggregatorInv, ReaderInv, ListedInv
    PROVE  /\ IsFiniteSet(AllEvents(Known, complaints))
           /\ \A e \in AllEvents(Known, complaints) :
                 e.sla \in Known /\ e.window_end \in Dates
<1>0. complaints \in Seq(ComplaintRecord) /\ Known \subseteq SLAs /\ IsFiniteSet(Known)
  BY DEF AggregatorInv, TypeOK, ReaderInv
<1>1. ASSUME NEW s \in Known, NEW m \in DOMAIN Bound[s]
      PROVE  /\ IsFiniteSet(EventsOf(Ordered(complaints, s, m), s, m))
             /\ \A e \in EventsOf(Ordered(complaints, s, m), s, m) :
                   e.sla = s /\ e.window_end \in Dates
  <2>. DEFINE log == Ordered(complaints, s, m)
  <2>1. /\ log \in Seq(ComplaintRecord)
        /\ \A p \in 1..Len(log) : \E n \in DOMAIN complaints : log[p] = complaints[n]
    BY <1>0, LogOfComplaints
  <2>. HIDE DEF log
  <2>2. Fires(log) \subseteq 1..Len(log) /\ Len(log) \in Nat
    BY <2>1, FiresEquation
  <2>3. IsFiniteSet(Fires(log))
    <3>1. IsFiniteSet(1..Len(log))
      BY <2>2, FS_Interval
    <3> QED
      BY <2>2, <3>1, FS_Subset
  <2>4. \A n \in Fires(log) : log[n].observed_at \in Dates
    <3>1. \A n \in DOMAIN complaints : complaints[n].observed_at \in Dates
      BY DEF ListedInv
    <3> QED
      BY <2>1, <2>2, <3>1
  <2>5. IsFiniteSet(EventsOf(log, s, m))
    <3>. DEFINE f == [n \in Fires(log) |->
                        [sla |-> s, metric |-> m, window_end |-> log[n].observed_at]]
    <3>1. f \in Surjection(Fires(log), EventsOf(log, s, m))
      <4>1. f \in [Fires(log) -> EventsOf(log, s, m)]
        BY DEF EventsOf
      <4>2. \A e \in EventsOf(log, s, m) : \E n \in Fires(log) : f[n] = e
        BY DEF EventsOf
      <4> QED
        BY <4>1, <4>2 DEF Surjection
    <3>. HIDE DEF f
    <3> QED
      BY <2>3, <3>1, FS_Surjection
  <2>6. \A e \in EventsOf(log, s, m) : e.sla = s /\ e.window_end \in Dates
    <3> SUFFICES ASSUME NEW n \in Fires(log)
                 PROVE  log[n].observed_at \in Dates
      BY DEF EventsOf
    <3> QED
      BY <2>4
  <2> QED
    BY <2>5, <2>6 DEF log
<1>2. ASSUME NEW s \in Known
      PROVE  /\ IsFiniteSet(EventsOfSLA(complaints, s))
             /\ \A e \in EventsOfSLA(complaints, s) : e.sla = s /\ e.window_end \in Dates
  <2>. DEFINE of(m) == EventsOf(Ordered(complaints, s, m), s, m)
              all == {of(m) : m \in DOMAIN Bound[s]}
  <2>1. EventsOfSLA(complaints, s) = UNION all
    BY DEF EventsOfSLA, EventsOf
  <2>2. IsFiniteSet(DOMAIN Bound[s])
    BY <1>0, AggregatorAssumption
  <2>3. IsFiniteSet(all)
    <3>. DEFINE f == [m \in DOMAIN Bound[s] |-> of(m)]
    <3>. HIDE DEF of
    <3>1. f \in Surjection(DOMAIN Bound[s], all)
      BY DEF Surjection
    <3>. HIDE DEF f, all
    <3> QED
      BY <2>2, <3>1, FS_Surjection
  <2>4. /\ \A T \in all : IsFiniteSet(T)
        /\ \A T \in all : \A e \in T : e.sla = s /\ e.window_end \in Dates
    BY <1>1
  <2>. HIDE DEF all
  <2>5. IsFiniteSet(UNION all)
    BY <2>3, <2>4, FS_UNION
  <2> QED
    BY <2>1, <2>4, <2>5
<1>3. IsFiniteSet(AllEvents(Known, complaints))
  <2>. DEFINE all == {EventsOfSLA(complaints, s) : s \in Known}
              f == [s \in Known |-> EventsOfSLA(complaints, s)]
  <2>1. f \in Surjection(Known, all)
    BY DEF Surjection
  <2>2. \A T \in all : IsFiniteSet(T)
    BY <1>2
  <2>. HIDE DEF f, all
  <2>3. IsFiniteSet(all)
    BY <1>0, <2>1, FS_Surjection
  <2>4. IsFiniteSet(UNION all)
    BY <2>2, <2>3, FS_UNION
  <2> QED
    BY <2>4 DEF AllEvents, all
<1> QED
  BY <1>2, <1>3 DEF AllEvents

LEMMA EndpointsAgree ==
    ASSUME AggregatorInv, ReaderInv, ListedInv
    PROVE  ScoreEndpointsAgree
<1>. DEFINE events == AllEvents(Known, complaints)
<1> SUFFICES ASSUME NEW a \in ASes
             PROVE  ScoreForAll(a, events, now) = Score(AttributedTo(events, a), now)
  BY DEF ScoreEndpointsAgree
<1>. DEFINE U == AllEvents(Known, complaints)
            V == AttributedTo(U, a)
            E(e) == Cardinality({n \in DOMAIN Cosigners[e.sla] : Cosigners[e.sla][n] = a})
            w == [e \in U |-> E(e) * Penalty[now - e.window_end]]
            v == [e \in V |-> Penalty[now - e.window_end]]
            G(g) == g = [s \in SUBSET U |->
                           IF s = {} THEN 0
                           ELSE E(Pick(s)) * Penalty[now - Pick(s).window_end]
                                  + g[s \ {Pick(s)}]]
            H(g) == g = [s \in SUBSET V |->
                           IF s = {} THEN 0
                           ELSE Penalty[now - Pick(s).window_end] + g[s \ {Pick(s)}]]
<1>1. IsFiniteSet(U) /\ V \in SUBSET U /\ IsFiniteSet(V)
  <2>1. IsFiniteSet(U) /\ V \in SUBSET U
    BY EventFacts DEF AttributedTo
  <2> QED
    BY <2>1, FS_Subset
<1>2. \A e \in U : Penalty[now - e.window_end] \in Nat
  <2>1. now \in 0..MaxTime
    BY DEF AggregatorInv, TypeOK
  <2> QED
    BY <2>1, EventFacts, AggregatorAssumption DEF Dates
<1>3. ASSUME NEW e \in U PROVE E(e) = IF e \in V THEN 1 ELSE 0
  <2>1. e.sla \in SLAs /\ Distinct(e.sla)
    BY EventFacts DEF ListedInv, AggregatorInv, TypeOK
  <2>2. Cosigners[e.sla] \in Seq(ASes)
    BY <2>1, AggregatorAssumption
  <2>. DEFINE N == {n \in DOMAIN Cosigners[e.sla] : Cosigners[e.sla][n] = a}
  <2>3. e \in V <=> N # {}
    BY <2>2 DEF AttributedTo, ToSet
  <2>4. CASE N = {}
    BY <2>3, <2>4, FS_EmptySet
  <2>5. CASE N # {}
    <3>1. PICK n \in N : N = {n}
      BY <2>1, <2>5 DEF Distinct
    <3>2. Cardinality(N) = 1
      BY <3>1, FS_Singleton
    <3> QED
      BY <2>3, <2>5, <3>2
  <2> QED
    BY <2>4, <2>5
<1>. HIDE DEF U, V, E
<1>4. /\ \A e \in V : w[e] = v[e] /\ w[e] \in Int
      /\ \A e \in U \ V : w[e] = 0
  <2>1. \A e \in V : e \in U
    BY <1>1
  <2> QED
    BY <1>2, <1>3, <2>1
<1>5. \A g : (G(g) <=> Sums(g, w, U)) /\ (H(g) <=> Sums(g, v, V))
  <2>1. \A s \in SUBSET U : s # {} => Pick(s) \in U
    BY <1>1, PickOne
  <2>2. \A s \in SUBSET V : s # {} => Pick(s) \in V
    BY <1>1, PickOne
  <2>3. \A g : [s \in SUBSET U |->
                  IF s = {} THEN 0
                  ELSE E(Pick(s)) * Penalty[now - Pick(s).window_end] + g[s \ {Pick(s)}]]
               = [s \in SUBSET U |->
                    IF s = {} THEN 0 ELSE w[Pick(s)] + g[s \ {Pick(s)}]]
    BY <2>1
  <2>4. \A g : [s \in SUBSET V |->
                  IF s = {} THEN 0
                  ELSE Penalty[now - Pick(s).window_end] + g[s \ {Pick(s)}]]
               = [s \in SUBSET V |->
                    IF s = {} THEN 0 ELSE v[Pick(s)] + g[s \ {Pick(s)}]]
    BY <2>2
  <2>. HIDE DEF w, v
  <2> QED
    BY <2>3, <2>4 DEF Sums
<1>. DEFINE g1 == CHOOSE g : G(g)
            g2 == CHOOSE g : H(g)
<1>6. MapThenSumSet(LAMBDA e : E(e) * Penalty[now - e.window_end], U) = g1[U]
  BY DEF MapThenSumSet, MapThenFoldSet, Pick
<1>7. MapThenSumSet(LAMBDA e : Penalty[now - e.window_end], V) = g2[V]
  BY DEF MapThenSumSet, MapThenFoldSet, Pick
<1>8. G(g1) /\ H(g2)
  <2>1. (\E g : G(g)) /\ (\E g : H(g))
    <3>. HIDE DEF G, H, w, v
    <3> QED
      BY <1>1, <1>5, SumsExist
  <2>. HIDE DEF G, H
  <2> QED
    BY <2>1
<1>9. g1[U] = g2[V]
  <2>1. Sums(g1, w, U) /\ Sums(g2, v, V)
    <3>. HIDE DEF G, H, w, v, g1, g2
    <3> QED
      BY <1>5, <1>8
  <2>. HIDE DEF g1, g2, w, v, G, H
  <2> QED
    BY <1>1, <1>4, <2>1, SumsLeaveOut
<1>10. MapThenSumSet(LAMBDA e : E(e) * Penalty[now - e.window_end], U)
         = MapThenSumSet(LAMBDA e : Penalty[now - e.window_end], V)
  <2>. HIDE DEF g1, g2
  <2> QED
    BY <1>6, <1>7, <1>9
<1> QED
  BY <1>10 DEF ScoreForAll, Score, E, U, V

(***************************************************************************)
(* GET /score/{isd_as} and GET /scores agree on every AS, at any time: an  *)
(* SLA that is stored has passed validation, which counts its signers, so  *)
(* that no event is added twice to the total of an AS.                     *)
(***************************************************************************)
THEOREM EndpointsHold == Spec => []ScoreEndpointsAgree
  BY EndpointsAgree, AggregatorInvariant, ReaderInvariant, ListedInvariant, PTL

-----------------------------------------------------------------------------
(* What the records refer to, and what a reset leaves of them, for every   *)
(* market and every interleaving of the event loop with resets.            *)

\* What a line of the ticker refers to is there.
Refers(l) ==
    CASE l.type = "sla_signed" -> l.subject.sla \in Known
      [] l.type = "claim" -> l.subject \in ToSet(claims)
      [] l.type = "complaint" -> l.subject \in ToSet(complaints)
      [] OTHER -> \E s \in Known : l.subject \in ToSet(Cosigners[s])

\* No record was validated later than now: a reset's next step makes all of
\* them old.
NoneIsNewer ==
    \A r \in ToSet(claims) \cup ToSet(complaints) \cup ToSet(ticker) : r.looked <= wipes

\* Unless a field was cleared since it was validated, what the request that is
\* being served refers to is where it was found.
PendingRefers ==
    /\ pc # "idle" => request.looked <= wipes
    /\ pc \notin {"idle", "add_sla"} /\ request.looked = wipes =>
          /\ request.sla \in Known
          /\ pc = "claim_line" => request \in ToSet(claims)
          /\ pc = "complaint_line" => request \in ToSet(complaints)
          /\ pc \in {"before", "complaint_line", "after"} =>
                ToSet(affected) \subseteq ToSet(Cosigners[request.sla])

RefersInv == ReferencesHold /\ NoneIsNewer /\ PendingRefers

LEMMA AppendSet ==
    ASSUME NEW S, NEW log \in Seq(S), NEW r \in S
    PROVE  ToSet(Append(log, r)) = ToSet(log) \cup {r}
<1>1. /\ DOMAIN Append(log, r) = 1..(Len(log) + 1) /\ DOMAIN log = 1..Len(log)
      /\ Append(log, r)[Len(log) + 1] = r /\ Len(log) \in Nat
      /\ \A n \in 1..Len(log) : Append(log, r)[n] = log[n]
  OBVIOUS
<1>2. ToSet(Append(log, r)) \subseteq ToSet(log) \cup {r}
  BY <1>1 DEF ToSet
<1>3. ToSet(log) \subseteq ToSet(Append(log, r)) /\ r \in ToSet(Append(log, r))
  BY <1>1 DEF ToSet
<1>. QED
  BY <1>2, <1>3

\* A line that is pushed may push another one out.
LEMMA PushSet ==
    ASSUME ticker \in Seq(TickerLine), NEW line \in TickerLine, Push(line)
    PROVE  ToSet(ticker') \subseteq ToSet(ticker) \cup {line}
<1>. DEFINE all == Append(ticker, line)
<1>1. all \in Seq(TickerLine) /\ all # <<>> /\ ToSet(all) = ToSet(ticker) \cup {line}
  BY AppendSet
<1>2. ToSet(Tail(all)) \subseteq ToSet(all)
  <2>. HIDE DEF all
  <2>1. /\ DOMAIN Tail(all) = 1..(Len(all) - 1) /\ DOMAIN all = 1..Len(all) /\ Len(all) \in Nat
        /\ \A n \in 1..(Len(all) - 1) : Tail(all)[n] = all[n + 1]
    BY <1>1
  <2>2. \A n \in 1..(Len(all) - 1) : n + 1 \in 1..Len(all)
    BY <2>1
  <2>. QED
    BY <2>1, <2>2 DEF ToSet
<1>3. ticker' = IF Len(all) > TickerMax THEN Tail(all) ELSE all
  BY DEF Push
<1>. QED
  BY <1>1, <1>2, <1>3

\* What a step that clears nothing has to establish of what it adds.
LEMMA AddedRefers ==
    ASSUME RefersInv, wipes' = wipes, Known \subseteq Known',
           ToSet(claims) \subseteq ToSet(claims'),
           ToSet(complaints) \subseteq ToSet(complaints'),
           \A c \in ToSet(claims') \cup ToSet(complaints') :
              \/ c \in ToSet(claims) \cup ToSet(complaints)
              \/ c.looked <= wipes /\ (c.looked = wipes => c.sla \in Known'),
           \A l \in ToSet(ticker') :
              \/ l \in ToSet(ticker)
              \/ l.looked <= wipes /\ (l.looked = wipes => Refers(l)')
    PROVE  ReferencesHold' /\ NoneIsNewer'
<1>1. NoneIsNewer'
  BY DEF RefersInv, NoneIsNewer
<1>2. \A c \in ToSet(claims') \cup ToSet(complaints') : c.looked = wipes => c.sla \in Known'
  BY DEF RefersInv, ReferencesHold
<1>3. ASSUME NEW l \in ToSet(ticker'), l.looked = wipes PROVE Refers(l)'
  <2>1. CASE l \in ToSet(ticker)
    <3>1. Refers(l)
      BY <1>3, <2>1 DEF RefersInv, ReferencesHold, Refers
    <3>. QED
      BY <3>1 DEF Refers
  <2>. QED
    BY <1>3, <2>1
<1>. QED
  BY <1>1, <1>2, <1>3 DEF ReferencesHold, Refers

LEMMA StoreTyped ==
    ASSUME AggregatorInv
    PROVE  /\ claims \in Seq(ClaimRecord) /\ complaints \in Seq(ComplaintRecord)
           /\ ticker \in Seq(TickerLine) /\ wipes \in Nat
           /\ pc # "idle" => request.looked \in Nat
  BY DEF AggregatorInv, TypeOK, SLARecord, ClaimRecord, ComplaintRecord, Complaining

-----------------------------------------------------------------------------

\* The storage is as it was: only the request has to be looked at.
LEMMA SameStoreRefers ==
    ASSUME RefersInv, UNCHANGED <<store, wipes>>, PendingRefers'
    PROVE  RefersInv'
  BY DEF RefersInv, ReferencesHold, NoneIsNewer, store, Known

LEMMA ValidationsRefer ==
    ASSUME AggregatorInv, RefersInv,
           \/ \E b \in SLABodies : PostSLA(b)
           \/ \E b \in ClaimBodies : PostClaim(b)
           \/ \E b \in ComplaintBodies : PostComplaint(b)
    PROVE  RefersInv'
<1>1. UNCHANGED <<store, wipes>> /\ wipes \in Nat
  BY StoreTyped DEF PostSLA, PostClaim, PostComplaint, Accept, reset
<1>2. request'.looked = wipes
  BY DEF PostSLA, PostClaim, PostComplaint, Accept
<1>3. pc' \in {"add_sla", "add_claim", "dedup"}
  BY DEF PostSLA, PostClaim, PostComplaint, Accept
<1>4. pc' # "add_sla" => request'.sla \in Known
  BY DEF PostSLA, PostClaim, PostComplaint, Accept, ValidClaim, ValidComplaint
<1>5. PendingRefers'
  BY <1>1, <1>2, <1>3, <1>4 DEF PendingRefers, store, Known
<1>. QED
  BY <1>1, <1>5, SameStoreRefers

LEMMA LoopRefers ==
    ASSUME RefersInv,
           \/ RefuseDuplicate \/ PassDedup \/ FindAffected
           \/ ScoreNext("before") \/ ScoreNext("after") \/ ScoreRaises \/ Accepted
    PROVE  RefersInv'
<1>1. UNCHANGED <<store, wipes>>
  BY DEF RefuseDuplicate, PassDedup, FindAffected, ScoreNext, ScoreRaises, Accepted, reset
<1>2. CASE RefuseDuplicate \/ ScoreRaises \/ Accepted
  <2>1. pc' = "idle"
    BY <1>2 DEF RefuseDuplicate, ScoreRaises, Accepted, Respond
  <2>2. PendingRefers'
    BY <2>1 DEF PendingRefers
  <2>. QED
    BY <1>1, <2>2, SameStoreRefers
<1>3. CASE PassDedup \/ ScoreNext("before") \/ ScoreNext("after")
  <2>1. /\ UNCHANGED <<request, affected>> /\ pc # "idle" /\ pc # "add_sla"
        /\ pc' = pc \/ pc' = "affected"
    BY <1>3 DEF PassDedup, ScoreNext
  <2>2. PendingRefers'
    BY <1>1, <2>1 DEF RefersInv, PendingRefers, store, Known
  <2>. QED
    BY <1>1, <2>2, SameStoreRefers
<1>4. CASE FindAffected
  <2>1. /\ UNCHANGED request /\ pc = "affected" /\ pc' = "before"
        /\ affected' = IF request.sla \in Known THEN Cosigners[request.sla] ELSE <<>>
    BY <1>4 DEF FindAffected
  <2>2. PendingRefers'
    BY <1>1, <2>1 DEF RefersInv, PendingRefers, store, Known
  <2>. QED
    BY <1>1, <2>2, SameStoreRefers
<1>. QED
  BY <1>2, <1>3, <1>4

-----------------------------------------------------------------------------
(* What is added.                                                          *)

LEMMA AddSLARefers ==
    ASSUME AggregatorInv, RefersInv, AddSLA
    PROVE  RefersInv'
<1>1. /\ UNCHANGED <<claims, complaints, ticker, request, affected, wipes>>
      /\ pc = "add_sla" /\ pc' = "sla_line"
  BY DEF AddSLA, reset
<1>2. Known \subseteq Known' /\ request.sla \in Known'
  BY DEF AddSLA, Known
<1>3. ReferencesHold' /\ NoneIsNewer'
  BY <1>1, <1>2, AddedRefers
<1>4. PendingRefers'
  BY <1>1, <1>2 DEF RefersInv, PendingRefers
<1>. QED
  BY <1>3, <1>4 DEF RefersInv

LEMMA AddClaimRefers ==
    ASSUME AggregatorInv, RefersInv, AddClaim
    PROVE  RefersInv'
<1>1. /\ UNCHANGED <<slas, complaints, ticker, request, affected, wipes>>
      /\ pc = "add_claim" /\ pc' = "claim_line" /\ claims' = Append(claims, request)
  BY DEF AddClaim, reset
<1>2. request \in ClaimRecord /\ claims \in Seq(ClaimRecord)
  BY <1>1 DEF AggregatorInv, TypeOK
<1>3. ToSet(claims') = ToSet(claims) \cup {request}
  BY <1>1, <1>2, AppendSet
<1>4. request.looked <= wipes /\ (request.looked = wipes => request.sla \in Known)
  BY <1>1 DEF RefersInv, PendingRefers
<1>5. ReferencesHold' /\ NoneIsNewer'
  BY <1>1, <1>3, <1>4, AddedRefers DEF Known
<1>6. PendingRefers'
  BY <1>1, <1>3, <1>4 DEF PendingRefers, Known
<1>. QED
  BY <1>5, <1>6 DEF RefersInv

LEMMA AddComplaintRefers ==
    ASSUME AggregatorInv, RefersInv, AddComplaint
    PROVE  RefersInv'
<1>1. /\ UNCHANGED <<slas, claims, ticker, request, affected, wipes>>
      /\ pc = "before" /\ pc' = "complaint_line" /\ complaints' = Append(complaints, request)
  BY DEF AddComplaint, reset
<1>2. request \in ComplaintRecord /\ complaints \in Seq(ComplaintRecord)
  BY <1>1 DEF AggregatorInv, TypeOK, Complaining
<1>3. ToSet(complaints') = ToSet(complaints) \cup {request}
  BY <1>1, <1>2, AppendSet
<1>4. request.looked <= wipes /\ (request.looked = wipes => request.sla \in Known)
  BY <1>1 DEF RefersInv, PendingRefers
<1>5. ReferencesHold' /\ NoneIsNewer'
  BY <1>1, <1>3, <1>4, AddedRefers DEF Known
<1>6. PendingRefers'
  BY <1>1, <1>3, <1>4 DEF RefersInv, PendingRefers, Known
<1>. QED
  BY <1>5, <1>6 DEF RefersInv

\* A line about the request, or about an AS that its score is of.
LEMMA LinesRefer ==
    ASSUME AggregatorInv, RefersInv, SLALine \/ ClaimLine \/ ComplaintLine \/ Announce
    PROVE  RefersInv'
<1>1. /\ UNCHANGED <<slas, claims, complaints, wipes>>
      /\ pc \in {"sla_line", "claim_line", "complaint_line", "after"}
  BY DEF SLALine, ClaimLine, ComplaintLine, Announce, reset
<1>2. /\ request.looked <= wipes
      /\ request.looked = wipes => request.sla \in Known
  BY <1>1 DEF RefersInv, PendingRefers
<1>3. PICK l \in TickerLine :
          /\ Push(l) \/ UNCHANGED ticker
          /\ l.looked = request.looked
          /\ request.looked = wipes => Refers(l)
  <2>1. ASSUME SLALine PROVE /\ Line("sla_signed", request) \in TickerLine
                             /\ Push(Line("sla_signed", request))
                             /\ request.looked = wipes => Refers(Line("sla_signed", request))
    <3>1. Line("sla_signed", request) \in TickerLine
      BY <2>1 DEF AggregatorInv, TypeOK, SLALine, Line, TickerLine, SLARecord
    <3>. QED
      BY <1>2, <2>1, <3>1 DEF SLALine, Line, Refers
  <2>2. ASSUME ClaimLine PROVE /\ Line("claim", request) \in TickerLine
                               /\ Push(Line("claim", request))
                               /\ request.looked = wipes => Refers(Line("claim", request))
    <3>1. Line("claim", request) \in TickerLine
      BY <2>2 DEF AggregatorInv, TypeOK, ClaimLine, Line, TickerLine, ClaimRecord
    <3>. QED
      BY <2>2, <3>1 DEF ClaimLine, Line, Refers, RefersInv, PendingRefers
  <2>3. ASSUME ComplaintLine
        PROVE  /\ Line("complaint", request) \in TickerLine
               /\ Push(Line("complaint", request))
               /\ request.looked = wipes => Refers(Line("complaint", request))
    <3>1. request \in ComplaintRecord
      BY <2>3 DEF AggregatorInv, TypeOK, ComplaintLine, Complaining
    <3>2. Line("complaint", request) \in TickerLine
      BY <3>1 DEF Line, TickerLine, ComplaintRecord
    <3>. QED
      BY <2>3, <3>2 DEF ComplaintLine, Line, Refers, RefersInv, PendingRefers
  <2>4. ASSUME Announce
        PROVE  LET a == affected[told + 1]
               IN  /\ Line("reputation_change", a) \in TickerLine
                   /\ Push(Line("reputation_change", a)) \/ UNCHANGED ticker
                   /\ request.looked = wipes => Refers(Line("reputation_change", a))
    <3>. DEFINE a == affected[told + 1]
    <3>1. request \in ComplaintRecord /\ affected \in Seq(ASes) /\ told \in Nat
      BY <2>4 DEF AggregatorInv, TypeOK, Announce, Complaining
    <3>2. told + 1 \in DOMAIN affected
      BY <2>4, <3>1 DEF Announce
    <3>3. a \in ASes /\ a \in ToSet(affected)
      BY <3>1, <3>2 DEF ToSet
    <3>4. Line("reputation_change", a) \in TickerLine
      BY <3>1, <3>3 DEF Line, TickerLine, ComplaintRecord
    <3>5. request.looked = wipes => a \in ToSet(Cosigners[request.sla])
      BY <2>4, <3>3 DEF RefersInv, PendingRefers, Announce
    <3>6. request.looked = wipes => Refers(Line("reputation_change", a))
      BY <1>2, <3>5 DEF Refers, Line
    <3>. QED
      BY <2>4, <3>4, <3>6 DEF Announce
  <2>5. \A type, subject : Line(type, subject).looked = request.looked
    BY DEF Line
  <2>. QED
    BY <2>1, <2>2, <2>3, <2>4, <2>5
<1>4. ToSet(ticker') \subseteq ToSet(ticker) \cup {l}
  BY <1>3, PushSet, StoreTyped
<1>5. Refers(l) => Refers(l)'
  BY <1>1 DEF Refers, Known
<1>6. ReferencesHold' /\ NoneIsNewer'
  BY <1>1, <1>2, <1>3, <1>4, <1>5, AddedRefers DEF Known
<1>7. \/ pc' = "idle"
      \/ /\ UNCHANGED <<request, affected>>
         /\ pc \in {"complaint_line", "after"} /\ pc' = "after"
  BY DEF SLALine, ClaimLine, ComplaintLine, Announce, Respond
<1>8. PendingRefers'
  BY <1>1, <1>2, <1>7 DEF RefersInv, PendingRefers, Known
<1>. QED
  BY <1>6, <1>8 DEF RefersInv

-----------------------------------------------------------------------------

\* After a field is cleared no record counts as recent.
LEMMA ResetRefers ==
    ASSUME AggregatorInv, RefersInv, BeginReset \/ Clear
    PROVE  RefersInv'
<1>1. CASE BeginReset
  BY <1>1 DEF BeginReset, RefersInv, ReferencesHold, NoneIsNewer, PendingRefers, store, loop,
              Known
<1>2. CASE Clear
  <2>1. wipes \in Nat /\ wipes' = wipes + 1 /\ UNCHANGED <<pc, request, affected>>
    BY <1>2, StoreTyped DEF Clear, loop
  <2>2. /\ ToSet(claims') \subseteq ToSet(claims)
        /\ ToSet(complaints') \subseteq ToSet(complaints)
        /\ ToSet(ticker') \subseteq ToSet(ticker)
    BY <1>2 DEF Clear, Cleared, ToSet
  <2>3. ASSUME NEW r \in ToSet(claims') \cup ToSet(complaints') \cup ToSet(ticker')
        PROVE  r.looked <= wipes' /\ r.looked # wipes'
    <3>1. r \in ToSet(claims) \cup ToSet(complaints) \cup ToSet(ticker)
      BY <2>2
    <3>2. r.looked \in Nat
      <4>1. \A c \in ToSet(claims) : c \in ClaimRecord
        BY StoreTyped DEF ToSet
      <4>2. \A c \in ToSet(complaints) : c \in ComplaintRecord
        BY StoreTyped DEF ToSet
      <4>3. \A l \in ToSet(ticker) : l \in TickerLine
        BY StoreTyped DEF ToSet
      <4>. QED
        BY <3>1, <4>1, <4>2, <4>3 DEF ClaimRecord, ComplaintRecord, TickerLine
    <3>. QED
      BY <2>1, <3>1, <3>2 DEF RefersInv, NoneIsNewer
  <2>4. pc # "idle" => request.looked <= wipes' /\ request.looked # wipes'
    BY <2>1, StoreTyped DEF RefersInv, PendingRefers
  <2>5. ReferencesHold' /\ NoneIsNewer'
    BY <2>3 DEF ReferencesHold, NoneIsNewer
  <2>6. PendingRefers'
    BY <2>1, <2>4 DEF PendingRefers
  <2>. QED
    BY <2>5, <2>6 DEF RefersInv
<1>. QED
  BY <1>1, <1>2

LEMMA ReadsRefer ==
    ASSUME RefersInv,
           \/ Tick \/ ReadComplaints \/ StartWalk \/ WalkNext \/ WalkEnds
           \/ WalkRaises \/ AnswerScores \/ UNCHANGED vars
    PROVE  RefersInv'
<1>1. UNCHANGED <<store, loop, reset>>
  BY DEF Tick, ReadComplaints, StartWalk, WalkNext, WalkEnds, WalkRaises, AnswerScores, vars
<1>. QED
  BY <1>1
  DEF RefersInv, ReferencesHold, NoneIsNewer, PendingRefers, store, loop, reset, Known

\* With the request in hand, what every record refers to is there.
THEOREM RefersInvariant == Spec => []RefersInv
<1>1. Init => RefersInv
  BY DEF Init, RefersInv, ReferencesHold, NoneIsNewer, PendingRefers, ToSet
<1>2. AggregatorInv /\ RefersInv /\ [Next]_vars => RefersInv'
  BY ValidationsRefer, LoopRefers, AddSLARefers, AddClaimRefers, AddComplaintRefers,
     LinesRefer, ResetRefers, ReadsRefer DEF Next
<1>. QED
  BY <1>1, <1>2, AggregatorInvariant, PTL DEF Spec

\* However resets interleave with the requests, a record or a line refers to
\* what is stored, unless a field was cleared since it was validated.
THEOREM ReferencesAlwaysHold == Spec => []ReferencesHold
<1>1. RefersInv => ReferencesHold
  BY DEF RefersInv
<1>. QED
  BY <1>1, RefersInvariant, PTL
-----------------------------------------------------------------------------
(* What a reset leaves behind.                                             *)

\* `wipes' dates a validation: it counts four fields for each earlier reset and
\* those the latest one has cleared.
WipesCounted ==
    /\ wiper = 0 => wipes = 4 * resets
    /\ wiper > 0 => resets > 0 /\ wipes = 4 * (resets - 1) + wiper - 1

\* Validated before the latest reset began to clear.
Old(looked) == looked <= 4 * (resets - 1)

\* The latest reset has cleared that field.
Swept(field) == wiper = 0 \/ field < wiper

\* The request that is being served may still be stored.
Pending == pc \in {"add_sla", "add_claim", "dedup", "affected", "before"}

SLAsLeft == {s \in Known : Swept(1) /\ Old(slas[s])}
ClaimsLeft == {n \in DOMAIN claims : Swept(2) /\ Old(claims[n].looked)}
ComplaintsLeft == {n \in DOMAIN complaints : Swept(3) /\ Old(complaints[n].looked)}
RequestsLeft == {n \in {1} : Pending /\ Old(request.looked)}

\* The old records in the fields that were cleared, and the old request that may
\* still join them.
Survivors ==
    ({"sla"} \X SLAsLeft) \cup ({"claim"} \X ClaimsLeft)
      \cup ({"complaint"} \X ComplaintsLeft) \cup ({"pending"} \X RequestsLeft)

Lone(S) == \A x, y \in S : x = y

SurvivorInv == WipesCounted /\ (resets > 0 => Lone(Survivors))

LEMMA CountersTyped ==
    ASSUME AggregatorInv
    PROVE  wiper \in 0..4 /\ resets \in Nat /\ wipes \in Nat
  BY AggregatorAssumption DEF AggregatorInv, TypeOK

\* Nothing that counts as a survivor has come.
LEMMA FewerSurvive ==
    ASSUME SurvivorInv, UNCHANGED reset,
           SLAsLeft' \subseteq SLAsLeft, ClaimsLeft' \subseteq ClaimsLeft,
           ComplaintsLeft' \subseteq ComplaintsLeft, RequestsLeft' \subseteq RequestsLeft
    PROVE  SurvivorInv'
<1>1. Survivors' \subseteq Survivors
  BY DEF Survivors
<1>. QED
  BY <1>1 DEF SurvivorInv, WipesCounted, Lone, reset

\* A request is validated after the latest reset began, unless it still has to
\* clear everything.
LEMMA ValidationsSurvive ==
    ASSUME AggregatorInv, SurvivorInv, pc = "idle", request'.looked = wipes,
           UNCHANGED <<store, reset>>
    PROVE  SurvivorInv'
<1>1. /\ SLAsLeft' = SLAsLeft /\ ClaimsLeft' = ClaimsLeft
      /\ ComplaintsLeft' = ComplaintsLeft /\ RequestsLeft = {}
  BY DEF SLAsLeft, ClaimsLeft, ComplaintsLeft, RequestsLeft, Pending, Swept, Old, store, reset,
         Known
<1>2. CASE resets > 0 /\ wiper = 1
  <2>1. SLAsLeft = {} /\ ClaimsLeft = {} /\ ComplaintsLeft = {}
    BY <1>2 DEF SLAsLeft, ClaimsLeft, ComplaintsLeft, Swept
  <2>2. Survivors' \subseteq {<<"pending", 1>>}
    BY <1>1, <2>1 DEF Survivors, RequestsLeft
  <2>. QED
    BY <2>2 DEF SurvivorInv, WipesCounted, Lone, reset
<1>3. CASE resets > 0 /\ wiper # 1
  <2>1. wipes > 4 * (resets - 1)
    BY <1>3, CountersTyped DEF SurvivorInv, WipesCounted
  <2>2. RequestsLeft' = {}
    BY <2>1, CountersTyped DEF RequestsLeft, Old, reset
  <2>. QED
    BY <1>1, <2>2, FewerSurvive
<1>4. CASE ~(resets > 0)
  BY <1>4 DEF SurvivorInv, WipesCounted, reset
<1>. QED
  BY <1>2, <1>3, <1>4

\* The loop goes on, or gives up.
LEMMA LoopSurvives ==
    ASSUME SurvivorInv, UNCHANGED <<slas, claims, complaints, reset>>,
           Pending' => Pending /\ UNCHANGED request
    PROVE  SurvivorInv'
<1>1. /\ SLAsLeft' = SLAsLeft /\ ClaimsLeft' = ClaimsLeft
      /\ ComplaintsLeft' = ComplaintsLeft /\ RequestsLeft' \subseteq RequestsLeft
  BY DEF SLAsLeft, ClaimsLeft, ComplaintsLeft, RequestsLeft, Swept, Old, reset, Known
<1>. QED
  BY <1>1, FewerSurvive

\* An old request was the only survivor; its record now is.
LEMMA RecordsSurvive ==
    ASSUME AggregatorInv, SurvivorInv, AddSLA \/ AddClaim \/ AddComplaint
    PROVE  SurvivorInv'
<1>1. Pending /\ ~Pending' /\ UNCHANGED reset
  BY DEF AddSLA, AddClaim, AddComplaint, Pending
<1>2. PICK record :
        \A x \in Survivors' :
            x \in Survivors \/ (Old(request.looked) /\ x = record)
  <2>1. RequestsLeft' = {}
    BY <1>1 DEF RequestsLeft
  <2>2. ASSUME AddSLA
        PROVE  \A x \in Survivors' :
                  x \in Survivors \/ (Old(request.looked) /\ x = <<"sla", request.sla>>)
    <3>1. /\ ClaimsLeft' = ClaimsLeft /\ ComplaintsLeft' = ComplaintsLeft
          /\ \A s \in SLAsLeft' : s \in SLAsLeft \/ (Old(request.looked) /\ s = request.sla)
      BY <2>2 DEF AddSLA, ClaimsLeft, ComplaintsLeft, SLAsLeft, Swept, Old, reset, Known
    <3>. QED
      BY <2>1, <3>1 DEF Survivors
  <2>3. ASSUME AddClaim
        PROVE  \A x \in Survivors' :
                  \/ x \in Survivors
                  \/ Old(request.looked) /\ x = <<"claim", Len(claims) + 1>>
    <3>1. /\ claims \in Seq(ClaimRecord) /\ request \in ClaimRecord
          /\ claims' = Append(claims, request)
      BY <2>3 DEF AddClaim, AggregatorInv, TypeOK
    <3>2. \A n \in DOMAIN claims' :
              \/ n \in DOMAIN claims /\ claims'[n] = claims[n]
              \/ n = Len(claims) + 1 /\ claims'[n] = request
      BY <3>1
    <3>3. /\ SLAsLeft' = SLAsLeft /\ ComplaintsLeft' = ComplaintsLeft
          /\ \A n \in ClaimsLeft' :
                n \in ClaimsLeft \/ (Old(request.looked) /\ n = Len(claims) + 1)
      BY <2>3, <3>2 DEF AddClaim, ClaimsLeft, ComplaintsLeft, SLAsLeft, Swept, Old, reset, Known
    <3>. QED
      BY <2>1, <3>3 DEF Survivors
  <2>4. ASSUME AddComplaint
        PROVE  \A x \in Survivors' :
                  \/ x \in Survivors
                  \/ Old(request.looked) /\ x = <<"complaint", Len(complaints) + 1>>
    <3>1. /\ complaints \in Seq(ComplaintRecord) /\ request \in ComplaintRecord
          /\ complaints' = Append(complaints, request)
      BY <2>4 DEF AddComplaint, AggregatorInv, TypeOK, Complaining
    <3>2. \A n \in DOMAIN complaints' :
              \/ n \in DOMAIN complaints /\ complaints'[n] = complaints[n]
              \/ n = Len(complaints) + 1 /\ complaints'[n] = request
      BY <3>1
    <3>3. /\ SLAsLeft' = SLAsLeft /\ ClaimsLeft' = ClaimsLeft
          /\ \A n \in ComplaintsLeft' :
                n \in ComplaintsLeft \/ (Old(request.looked) /\ n = Len(complaints) + 1)
      BY <2>4, <3>2
      DEF AddComplaint, ClaimsLeft, ComplaintsLeft, SLAsLeft, Swept, Old, reset, Known
    <3>. QED
      BY <2>1, <3>3 DEF Survivors
  <2>. QED
    BY <2>2, <2>3, <2>4
<1>3. <<"pending", 1>> \in Survivors \/ ~Old(request.looked)
  BY <1>1 DEF Survivors, RequestsLeft
<1>4. \A x \in Survivors' : x # <<"pending", 1>>
  BY <1>1 DEF Survivors, RequestsLeft
<1>5. resets > 0 => Lone(Survivors')
  BY <1>2, <1>3, <1>4 DEF SurvivorInv, Lone
<1>. QED
  BY <1>1, <1>5 DEF SurvivorInv, WipesCounted, Lone, reset

\* A new reset counts nothing but the request; each field is empty once cleared.
LEMMA ResetSurvives ==
    ASSUME AggregatorInv, SurvivorInv, BeginReset \/ Clear
    PROVE  SurvivorInv'
<1>1. CASE BeginReset
  <2>1. wiper = 0 /\ wiper' = 1 /\ resets' = resets + 1 /\ wipes' = wipes
    BY <1>1 DEF BeginReset
  <2>2. WipesCounted'
    BY <2>1, CountersTyped DEF SurvivorInv, WipesCounted
  <2>3. SLAsLeft' = {} /\ ClaimsLeft' = {} /\ ComplaintsLeft' = {}
    BY <2>1 DEF SLAsLeft, ClaimsLeft, ComplaintsLeft, Swept
  <2>4. Survivors' \subseteq {<<"pending", 1>>}
    BY <2>3 DEF Survivors, RequestsLeft
  <2>. QED
    BY <2>2, <2>4 DEF SurvivorInv, Lone
<1>2. CASE Clear
  <2>1. /\ wiper > 0 /\ wiper' = (wiper + 1) % 5 /\ resets' = resets /\ wipes' = wipes + 1
        /\ slas' = Cleared(1, slas) /\ claims' = Cleared(2, claims)
        /\ complaints' = Cleared(3, complaints) /\ UNCHANGED loop
    BY <1>2 DEF Clear
  <2>2. wiper \in 1..4 /\ (wiper = 4 => wiper' = 0) /\ (wiper < 4 => wiper' = wiper + 1)
    BY <2>1, CountersTyped
  <2>3. WipesCounted'
    BY <2>1, <2>2, CountersTyped DEF SurvivorInv, WipesCounted
  <2>4. SLAsLeft' \subseteq SLAsLeft
    BY <2>1, <2>2 DEF SLAsLeft, Cleared, Swept, Old, Known
  <2>5. ClaimsLeft' \subseteq ClaimsLeft
    BY <2>1, <2>2 DEF ClaimsLeft, Cleared, Swept, Old
  <2>6. ComplaintsLeft' \subseteq ComplaintsLeft
    BY <2>1, <2>2 DEF ComplaintsLeft, Cleared, Swept, Old
  <2>7. RequestsLeft' = RequestsLeft
    BY <2>1 DEF RequestsLeft, Pending, Old, loop
  <2>8. Survivors' \subseteq Survivors
    BY <2>4, <2>5, <2>6, <2>7 DEF Survivors
  <2>. QED
    BY <2>1, <2>3, <2>8 DEF SurvivorInv, Lone
<1>. QED
  BY <1>1, <1>2

LEMMA NextSurvivor ==
    ASSUME AggregatorInv, SurvivorInv, [Next]_vars
    PROVE  SurvivorInv'
<1>1. CASE \/ \E b \in SLABodies : PostSLA(b)
           \/ \E b \in ClaimBodies : PostClaim(b)
           \/ \E b \in ComplaintBodies : PostComplaint(b)
  <2>1. pc = "idle" /\ request'.looked = wipes /\ UNCHANGED <<store, reset>>
    BY <1>1 DEF PostSLA, PostClaim, PostComplaint, Accept
  <2>. QED
    BY <2>1, ValidationsSurvive
<1>2. CASE \/ SLALine \/ ClaimLine \/ ComplaintLine \/ Announce
           \/ RefuseDuplicate \/ ScoreRaises \/ Accepted
  <2>1. UNCHANGED <<slas, claims, complaints, reset>> /\ ~Pending'
    BY <1>2 DEF SLALine, ClaimLine, ComplaintLine, Announce, RefuseDuplicate, ScoreRaises,
                Accepted, Respond, Pending, store
  <2>. QED
    BY <2>1, LoopSurvives
<1>3. CASE PassDedup \/ FindAffected \/ ScoreNext("before") \/ ScoreNext("after")
  <2>1. UNCHANGED <<slas, claims, complaints, reset, request>> /\ (Pending' => Pending)
    BY <1>3 DEF PassDedup, FindAffected, ScoreNext, Pending, store
  <2>. QED
    BY <2>1, LoopSurvives
<1>4. CASE \/ Tick \/ ReadComplaints \/ StartWalk \/ WalkNext \/ WalkEnds
           \/ WalkRaises \/ AnswerScores \/ UNCHANGED vars
  <2>1. UNCHANGED <<store, loop, reset>>
    BY <1>4 DEF Tick, ReadComplaints, StartWalk, WalkNext, WalkEnds, WalkRaises, AnswerScores,
                vars
  <2>2. Pending' <=> Pending
    BY <2>1 DEF Pending, loop
  <2>. QED
    BY <2>1, <2>2, LoopSurvives DEF store, loop
<1>. QED
  BY <1>1, <1>2, <1>3, <1>4, RecordsSurvive, ResetSurvives DEF Next

LEMMA LoneCardinality ==
    ASSUME NEW S, Lone(S)
    PROVE  Cardinality(S) \in {0, 1} /\ (S = {} => Cardinality(S) = 0)
<1>1. S = {} \/ \E x : S = {x}
  BY DEF Lone
<1>. QED
  BY <1>1, FS_EmptySet, FS_Singleton

\* A reset leaves at most one record behind of the requests validated before it
\* began to clear, wherever it interleaved with them.
THEOREM AtMostOneSurvives == Spec => []AtMostOneSurvivor
<1>1. Init => SurvivorInv
  BY DEF Init, SurvivorInv, WipesCounted
<1>2. ASSUME SurvivorInv PROVE AtMostOneSurvivor
  <2> SUFFICES ASSUME resets > 0, wiper = 0
               PROVE  Cardinality(SLAsLeft) + Cardinality(ClaimsLeft)
                        + Cardinality(ComplaintsLeft) <= 1
    <3>1. wiper = 0 =>
            /\ SLAsLeft = {s \in Known : slas[s] <= 4 * (resets - 1)}
            /\ ClaimsLeft = {n \in DOMAIN claims : claims[n].looked <= 4 * (resets - 1)}
            /\ ComplaintsLeft =
                  {n \in DOMAIN complaints : complaints[n].looked <= 4 * (resets - 1)}
      BY DEF SLAsLeft, ClaimsLeft, ComplaintsLeft, Swept, Old
    <3>. QED
      BY <3>1, Zenon DEF AtMostOneSurvivor
  <2>1. Lone(Survivors)
    BY <1>2 DEF SurvivorInv
  <2>2. /\ \A s \in SLAsLeft : <<"sla", s>> \in Survivors
        /\ \A n \in ClaimsLeft : <<"claim", n>> \in Survivors
        /\ \A n \in ComplaintsLeft : <<"complaint", n>> \in Survivors
    BY DEF Survivors
  <2>3. \A kind, x, other, y : <<kind, x>> = <<other, y>> => kind = other /\ x = y
    OBVIOUS
  <2>4. Lone(SLAsLeft) /\ Lone(ClaimsLeft) /\ Lone(ComplaintsLeft)
    BY <2>1, <2>2, <2>3, Zenon DEF Lone
  <2>5. /\ SLAsLeft = {} \/ ClaimsLeft = {}
        /\ SLAsLeft = {} \/ ComplaintsLeft = {}
        /\ ClaimsLeft = {} \/ ComplaintsLeft = {}
    <3>1. "sla" # "claim" /\ "sla" # "complaint" /\ "claim" # "complaint"
      OBVIOUS
    <3>2. \A s, n : ~(s \in SLAsLeft /\ n \in ClaimsLeft)
      BY <2>1, <2>2, <2>3, <3>1, Zenon DEF Lone
    <3>3. \A s, n : ~(s \in SLAsLeft /\ n \in ComplaintsLeft)
      BY <2>1, <2>2, <2>3, <3>1, Zenon DEF Lone
    <3>4. \A m, n : ~(m \in ClaimsLeft /\ n \in ComplaintsLeft)
      BY <2>1, <2>2, <2>3, <3>1, Zenon DEF Lone
    <3>. QED
      BY <3>2, <3>3, <3>4
  <2>6. /\ Cardinality(SLAsLeft) \in {0, 1} /\ (SLAsLeft = {} => Cardinality(SLAsLeft) = 0)
        /\ Cardinality(ClaimsLeft) \in {0, 1}
        /\ ClaimsLeft = {} => Cardinality(ClaimsLeft) = 0
        /\ Cardinality(ComplaintsLeft) \in {0, 1}
        /\ ComplaintsLeft = {} => Cardinality(ComplaintsLeft) = 0
    BY <2>4, LoneCardinality, Zenon
  <2>. QED
    BY <2>5, <2>6
<1>. QED
  BY <1>1, <1>2, NextSurvivor, AggregatorInvariant, PTL DEF Spec
=============================================================================
