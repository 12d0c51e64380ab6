-------------------------- MODULE ScorerScanProofs --------------------------
(***************************************************************************)
(* ScanInv is an invariant of the loop of compute_violation_events for any *)
(* complainants, K, W and sorted logs; corroboration, disjoint evidence,   *)
(* completeness and the implementation of Episodes follow from it.         *)
(***************************************************************************)
EXTENDS ScorerScan, ScorerProofs

(***************************************************************************)
(* What TypeOK says of the list the loop walks.                            *)
(***************************************************************************)
LEMMA OrderedFacts ==
    ASSUME TypeOK
    PROVE  /\ ordered \in Seq(Complaint)
           /\ \A m \in 1..Len(ordered) : ordered[m].observed_at \in Int
           /\ \A m, n \in 1..Len(ordered) :
                m <= n => ordered[m].observed_at <= ordered[n].observed_at
<1>1. ordered \in Seq(Complaint)
  BY DEF TypeOK
<1>2. ASSUME NEW m \in 1..Len(ordered) PROVE ordered[m].observed_at \in Int
  <2>1. ordered[m] \in Complaint
    BY <1>1
  <2> QED
    BY <2>1 DEF Complaint
<1>3. DOMAIN ordered = 1..Len(ordered)
  BY <1>1
<1> QED
  BY <1>1, <1>2, <1>3 DEF TypeOK, SortedByTime

(***************************************************************************)
(* Sliding keeps the window tight: after the while loop, the complaints of *)
(* 1..i+1 before s are exactly those older than W.                         *)
(***************************************************************************)
LEMMA SlideIsTight ==
    ASSUME TypeOK, WindowIsTight, NEW s \in 1..Len(ordered),
           i < Len(ordered), SlidTo(s)
    PROVE  \A m \in 1..(i + 1) : m < s <=> Age(i + 1, m) > W
<1> USE ScorerAssumption
<1>1. i \in Nat /\ i + 1 \in 1..Len(ordered) /\ window_start \in 1..(i + 1)
  BY DEF TypeOK
<1>2. \A m \in 1..Len(ordered) : ordered[m].observed_at \in Int
  BY OrderedFacts
<1>3. \A m, n \in 1..Len(ordered) :
        m <= n => ordered[m].observed_at <= ordered[n].observed_at
  BY OrderedFacts
<1>4. s \in window_start..(i + 1)
  BY DEF SlidTo
<1>5. ASSUME NEW m \in 1..(i + 1), m < s PROVE Age(i + 1, m) > W
  <2>1. CASE m < window_start
    <3>1. i > 0 /\ m \in 1..i /\ i \in 1..Len(ordered)
      BY <1>1, <2>1 DEF TypeOK
    <3>2. Age(i, m) > W
      BY <2>1, <3>1 DEF WindowIsTight
    <3>3. ordered[i].observed_at <= ordered[i + 1].observed_at
      BY <1>1, <1>3, <3>1
    <3> QED
      BY <1>1, <1>2, <3>1, <3>2, <3>3 DEF Age
  <2>2. CASE m >= window_start
    <3>1. m \in window_start..(s - 1)
      BY <1>1, <1>4, <1>5, <2>2
    <3> QED
      BY <3>1 DEF SlidTo
  <2> QED
    BY <1>1, <2>1, <2>2
<1>6. ASSUME NEW m \in 1..(i + 1), m >= s PROVE Age(i + 1, m) <= W
  <2>1. CASE s = i + 1
    <3>1. m = i + 1
      BY <1>1, <1>6, <2>1
    <3> QED
      BY <1>1, <1>2, <3>1 DEF Age
  <2>2. CASE Age(i + 1, s) <= W
    <3>1. ordered[s].observed_at <= ordered[m].observed_at
      BY <1>1, <1>3, <1>6
    <3>2. m \in 1..Len(ordered)
      BY <1>1
    <3> QED
      BY <1>1, <1>2, <2>2, <3>1, <3>2 DEF Age
  <2> QED
    BY <2>1, <2>2 DEF SlidTo
<1>7. \A m \in 1..(i + 1) : Age(i + 1, m) \in Int
  BY <1>1, <1>2 DEF Age
<1> QED
  BY <1>1, <1>5, <1>6, <1>7

(***************************************************************************)
(* So the set the loop collects is the window of the reference definition. *)
(***************************************************************************)
LEMMA SlideIsWindow ==
    ASSUME TypeOK, WindowIsTight, NEW s \in 1..Len(ordered),
           i < Len(ordered), SlidTo(s)
    PROVE  InWindow(s) = Window(ordered, i + 1)
<1> USE ScorerAssumption
<1>1. i + 1 \in 1..Len(ordered) /\ s \in 1..(i + 1)
  BY DEF TypeOK, SlidTo
<1>2. \A m \in 1..(i + 1) : Age(i + 1, m) \in Int
  <2>1. \A m \in 1..Len(ordered) : ordered[m].observed_at \in Int
    BY OrderedFacts
  <2> QED
    BY <1>1, <2>1 DEF Age
<1>3. s..(i + 1) = {m \in 1..(i + 1) : Age(i + 1, m) <= W}
  <2>1. \A m \in 1..(i + 1) : m < s <=> Age(i + 1, m) > W
    BY SlideIsTight
  <2> QED
    BY <1>1, <1>2, <2>1
<1> QED
  BY <1>3 DEF InWindow, Window, Age

(***************************************************************************)
(* A complainant stands in the window its own complaint ends.              *)
(***************************************************************************)
LEMMA OwnWindow ==
    ASSUME NEW log \in Seq(Complaint), NEW n \in 1..Len(log)
    PROVE  log[n].complainant \in Window(log, n)
<1>1. log[n].observed_at \in Int
  <2>1. log[n] \in Complaint
    OBVIOUS
  <2> QED
    BY <2>1 DEF Complaint
<1>2. log[n].observed_at - log[n].observed_at <= W
  BY <1>1, ScorerAssumption
<1> QED
  BY <1>2 DEF Window

LEMMA WindowType ==
    ASSUME NEW log \in Seq(Complaint), NEW n \in 1..Len(log)
    PROVE  Window(log, n) \subseteq Complainants
<1>1. \A j \in 1..n : log[j] \in Complaint
  OBVIOUS
<1>2. \A j \in 1..n : log[j].complainant \in Complainants
  BY <1>1 DEF Complaint
<1> QED
  BY <1>2 DEF Window

(***************************************************************************)
(* When the cohort is None after the check, every event so far is older    *)
(* than W: this is where the identity of the complainants is used.         *)
(***************************************************************************)
LEMMA NoCohortMeansAged ==
    ASSUME ScanInv, NEW s \in 1..Len(ordered),
           i < Len(ordered), SlidTo(s), Cohort(s) = {}
    PROVE  \A n \in DOMAIN events : Age(i + 1, fired[n]) > W
<1> USE ScorerAssumption
<1> DEFINE L == Len(fired)
<1>1. i \in Nat /\ i + 1 \in 1..Len(ordered)
  BY DEF ScanInv, TypeOK
<1>2. \A m \in 1..Len(ordered) : ordered[m].observed_at \in Int
  BY OrderedFacts DEF ScanInv
<1>3. \A m, n \in 1..Len(ordered) :
        m <= n => ordered[m].observed_at <= ordered[n].observed_at
  BY OrderedFacts DEF ScanInv
<1>4. /\ DOMAIN events = 1..L
      /\ L \in Nat
      /\ \A n \in 1..L : fired[n] \in 1..i
  BY DEF ScanInv, TypeOK
<1>5. CASE triggered = {}
  <2> SUFFICES ASSUME NEW n \in DOMAIN events
               PROVE  Age(i + 1, fired[n]) > W
    OBVIOUS
  <2>1. Age(i, fired[n]) > W
    BY <1>5 DEF ScanInv, NoneMeansAged
  <2>2. fired[n] \in 1..Len(ordered) /\ i \in 1..Len(ordered)
    BY <1>1, <1>4
  <2>3. ordered[i].observed_at <= ordered[i + 1].observed_at
    BY <1>1, <1>3, <2>2
  <2> QED
    BY <1>1, <1>2, <2>1, <2>2, <2>3 DEF Age
<1>6. CASE triggered # {}
  <2>1. /\ triggered \cap InWindow(s) = {}
        /\ events # <<>>
        /\ triggered = Window(ordered, fired[L])
    BY <1>6 DEF Cohort, ScanInv, CohortPersists
  <2>2. L \in 1..L /\ fired[L] \in 1..i /\ fired[L] \in 1..Len(ordered)
    <3>1. L # 0
      BY <2>1, <1>4 DEF ScanInv, TypeOK
    <3> QED
      BY <3>1, <1>1, <1>4
  <2>3. ordered[fired[L]].complainant \in triggered
    <3>1. ordered \in Seq(Complaint)
      BY OrderedFacts DEF ScanInv
    <3> QED
      BY <2>1, <2>2, <3>1, OwnWindow
  <2>4. ordered[fired[L]].complainant \notin Window(ordered, i + 1)
    BY <2>1, <2>3, SlideIsWindow DEF ScanInv
  <2>5. Age(i + 1, fired[L]) > W
    <3>1. Age(i + 1, fired[L]) \in Int
      BY <1>1, <1>2, <2>2 DEF Age
    <3>2. fired[L] \in 1..(i + 1)
      BY <1>1, <2>2
    <3>3. ~(ordered[i + 1].observed_at - ordered[fired[L]].observed_at <= W)
      BY <2>4, <3>2 DEF Window
    <3> QED
      BY <3>1, <3>3 DEF Age
  <2>6. ASSUME NEW n \in 1..L, n < L PROVE Age(i + 1, fired[n]) > W
    <3>1. events[L].window_end - events[n].window_end > W
      BY <1>4, <2>2, <2>6 DEF ScanInv, DisjointEvidence
    <3>2. /\ events[L].window_end = ordered[fired[L]].observed_at
          /\ events[n].window_end = ordered[fired[n]].observed_at
      BY <1>4, <2>2 DEF ScanInv, EventsAreWindows, EventAt
    <3>3. fired[n] \in 1..Len(ordered)
      BY <1>1, <1>4
    <3>4. ordered[fired[L]].observed_at <= ordered[i + 1].observed_at
      BY <1>1, <1>3, <2>2
    <3> QED
      BY <1>1, <1>2, <2>2, <3>1, <3>2, <3>3, <3>4 DEF Age
  <2> QED
    BY <1>4, <2>5, <2>6
<1> QED
  BY <1>5, <1>6

-----------------------------------------------------------------------------

LEMMA ScanInvInit == Init => ScanInv
<1> SUFFICES ASSUME Init PROVE ScanInv
  OBVIOUS
<1>1. ordered \in Seq(Complaint) /\ SortedByTime(ordered)
  BY LogsAssumption DEF Init
<1>2. TypeOK
  BY <1>1 DEF Init, TypeOK
<1>3. WindowIsTight /\ CohortPersists
  BY DEF Init, WindowIsTight, CohortPersists
<1>4. EventsAreWindows /\ NoneMeansAged /\ DisjointEvidence /\ NothingMissed
  BY DEF Init, EventsAreWindows, NoneMeansAged, DisjointEvidence, NothingMissed
<1> QED
  BY <1>2, <1>3, <1>4 DEF ScanInv

(***************************************************************************)
(* What every visit does, whatever its outcome.                            *)
(***************************************************************************)
LEMMA VisitFacts ==
    ASSUME ScanInv, NEW s \in 1..Len(ordered), Visit(s)
    PROVE  /\ i \in Nat /\ i + 1 \in 1..Len(ordered) /\ i' = i + 1
           /\ ordered' = ordered
           /\ i' \in 0..Len(ordered') /\ window_start' \in 1..(i' + 1)
           /\ i' > 0 => window_start' <= i'
           /\ ordered' \in Seq(Complaint) /\ SortedByTime(ordered')
           /\ WindowIsTight'
           /\ InWindow(s) = Window(ordered, i + 1)
           /\ InWindow(s) \subseteq Complainants
           /\ InWindow(s) # {}
<1>1. /\ i \in Nat /\ i + 1 \in 1..Len(ordered) /\ i' = i + 1
      /\ ordered' = ordered /\ window_start' = s
  BY DEF ScanInv, TypeOK, Visit
<1>2. s \in 1..(i + 1)
  BY <1>1 DEF ScanInv, TypeOK, Visit, SlidTo
<1>3. WindowIsTight'
  <2>1. \A m \in 1..(i + 1) : m < s <=> Age(i + 1, m) > W
    BY SlideIsTight DEF ScanInv, Visit
  <2> QED
    BY <1>1, <2>1 DEF WindowIsTight, Age
<1>4. InWindow(s) = Window(ordered, i + 1)
  BY SlideIsWindow DEF ScanInv, Visit
<1>5. ordered \in Seq(Complaint) /\ SortedByTime(ordered)
  BY DEF ScanInv, TypeOK
<1>6. InWindow(s) \subseteq Complainants /\ InWindow(s) # {}
  BY <1>1, <1>4, <1>5, WindowType, OwnWindow
<1> QED
  BY <1>1, <1>2, <1>3, <1>4, <1>5, <1>6

(***************************************************************************)
(* A visit that emits nothing keeps what is said of the events, as long as *)
(* it accounts for the window of the position it visits.                   *)
(***************************************************************************)
LEMMA NoEventKeeps ==
    ASSUME ScanInv, NEW s \in 1..Len(ordered), Visit(s),
           UNCHANGED <<events, fired>>,
           Cardinality(Window(ordered, i + 1)) >= K =>
              \E e \in DOMAIN events :
                  fired[e] <= i + 1 /\ Persists(ordered, fired[e], i + 1)
    PROVE  /\ events' \in Seq(ViolationEvent) /\ fired' \in Seq(Nat)
           /\ Len(fired') = Len(events')
           /\ \A n \in DOMAIN fired' : fired'[n] \in 1..i'
           /\ EventsAreWindows' /\ DisjointEvidence' /\ NothingMissed'
<1>1. i \in Nat /\ i' = i + 1 /\ ordered' = ordered
  BY VisitFacts
<1>2. /\ events' \in Seq(ViolationEvent) /\ Len(fired') = Len(events')
      /\ fired' \in Seq(Nat)
  BY DEF ScanInv, TypeOK
<1>3. \A n \in DOMAIN fired' : fired'[n] \in 1..i'
  BY <1>1 DEF ScanInv, TypeOK
<1>4. EventsAreWindows' /\ DisjointEvidence'
  BY <1>1 DEF ScanInv, EventsAreWindows, DisjointEvidence
<1>5. NothingMissed'
  <2> SUFFICES ASSUME NEW n \in 1..(i + 1),
                      Cardinality(Window(ordered, n)) >= K
               PROVE  \E e \in DOMAIN events :
                         fired[e] <= n /\ Persists(ordered, fired[e], n)
    BY <1>1 DEF NothingMissed
  <2>1. CASE n \in 1..i
    BY <2>1 DEF ScanInv, NothingMissed
  <2>2. CASE n = i + 1
    BY <2>2
  <2> QED
    BY <1>1, <2>1, <2>2
<1> QED
  BY <1>2, <1>3, <1>4, <1>5

LEMMA SuppressKeepsInv ==
    ASSUME ScanInv, NEW s \in 1..Len(ordered), Suppress(s)
    PROVE  ScanInv'
<1> DEFINE L == Len(fired)
<1>1. Visit(s) /\ UNCHANGED <<events, fired>>
  BY DEF Suppress
<1>2. /\ i \in Nat /\ i' = i + 1 /\ ordered' = ordered
      /\ WindowIsTight'
      /\ InWindow(s) = Window(ordered, i + 1)
  BY <1>1, VisitFacts
<1>3. triggered # {} /\ triggered' = triggered /\ triggered \cap InWindow(s) # {}
  BY DEF Suppress, Cohort
<1>4. /\ events # <<>>
      /\ triggered = Window(ordered, fired[L])
      /\ Persists(ordered, fired[L], i)
  BY <1>3 DEF ScanInv, CohortPersists
<1>5. L \in DOMAIN events /\ fired[L] \in 1..i
  BY <1>4 DEF ScanInv, TypeOK
<1>6. Persists(ordered, fired[L], i + 1)
  <2> SUFFICES ASSUME NEW m \in fired[L]..(i + 1)
               PROVE  Window(ordered, m) \cap Window(ordered, fired[L]) # {}
    BY DEF Persists
  <2>1. CASE m \in fired[L]..i
    BY <1>4, <2>1 DEF Persists
  <2>2. CASE m = i + 1
    BY <1>2, <1>3, <1>4, <2>2
  <2> QED
    BY <1>2, <1>5, <2>1, <2>2
<1>7. fired[L] <= i + 1
  BY <1>2, <1>5
<1>8. /\ events' \in Seq(ViolationEvent) /\ fired' \in Seq(Nat)
      /\ Len(fired') = Len(events')
      /\ \A n \in DOMAIN fired' : fired'[n] \in 1..i'
      /\ EventsAreWindows' /\ DisjointEvidence' /\ NothingMissed'
  BY <1>1, <1>5, <1>6, <1>7, NoEventKeeps
<1>9. TypeOK'
  BY <1>1, <1>3, <1>8, VisitFacts DEF ScanInv, TypeOK
<1>10. CohortPersists' /\ NoneMeansAged'
  BY <1>1, <1>2, <1>3, <1>4, <1>6 DEF CohortPersists, NoneMeansAged
<1> QED
  BY <1>2, <1>8, <1>9, <1>10 DEF ScanInv

LEMMA QuietKeepsInv ==
    ASSUME ScanInv, NEW s \in 1..Len(ordered), Quiet(s)
    PROVE  ScanInv'
<1>1. /\ Visit(s) /\ UNCHANGED <<events, fired>>
      /\ triggered' = {} /\ Cohort(s) = {}
      /\ i < Len(ordered) /\ SlidTo(s)
  BY DEF Quiet, Visit
<1>2. /\ i' = i + 1 /\ ordered' = ordered
      /\ i + 1 \in 1..Len(ordered)
      /\ WindowIsTight'
      /\ InWindow(s) = Window(ordered, i + 1)
  BY <1>1, VisitFacts
<1>3. ~(Cardinality(Window(ordered, i + 1)) >= K)
  BY <1>2 DEF Quiet
<1>4. /\ events' \in Seq(ViolationEvent) /\ fired' \in Seq(Nat)
      /\ Len(fired') = Len(events')
      /\ \A n \in DOMAIN fired' : fired'[n] \in 1..i'
      /\ EventsAreWindows' /\ DisjointEvidence' /\ NothingMissed'
  BY <1>1, <1>3, NoEventKeeps
<1>5. TypeOK'
  BY <1>1, <1>4, VisitFacts DEF ScanInv, TypeOK
<1>6. NoneMeansAged'
  <2>1. \A n \in DOMAIN events : Age(i + 1, fired[n]) > W
    BY <1>1, NoCohortMeansAged
  <2> QED
    BY <1>1, <1>2, <2>1 DEF NoneMeansAged, Age
<1>7. CohortPersists'
  BY <1>1 DEF CohortPersists
<1> QED
  BY <1>2, <1>4, <1>5, <1>6, <1>7 DEF ScanInv

LEMMA EmitKeepsInv ==
    ASSUME ScanInv, NEW s \in 1..Len(ordered), Emit(s)
    PROVE  ScanInv'
<1> USE ScorerAssumption
<1> DEFINE L == Len(events)
           e == [window_end |-> ordered[i + 1].observed_at,
                 complainants |-> InWindow(s)]
<1>1. /\ Visit(s) /\ Cohort(s) = {} /\ i < Len(ordered) /\ SlidTo(s)
      /\ Cardinality(InWindow(s)) >= K
      /\ triggered' = InWindow(s)
      /\ events' = Append(events, e)
      /\ fired' = Append(fired, i + 1)
  BY DEF Emit, Visit
<1>2. /\ i \in Nat /\ i' = i + 1 /\ ordered' = ordered
      /\ i + 1 \in 1..Len(ordered)
      /\ WindowIsTight'
      /\ InWindow(s) = Window(ordered, i + 1)
      /\ InWindow(s) \subseteq Complainants /\ InWindow(s) # {}
  BY <1>1, VisitFacts
<1>3. /\ ordered[i + 1].observed_at \in Int
      /\ \A m \in 1..Len(ordered) : ordered[m].observed_at \in Int
  BY <1>2, OrderedFacts DEF ScanInv
<1>4. /\ events \in Seq(ViolationEvent) /\ fired \in Seq(Nat)
      /\ Len(fired) = L /\ L \in Nat
      /\ DOMAIN events = 1..L /\ DOMAIN fired = 1..L
      /\ \A n \in 1..L : fired[n] \in 1..i
  BY DEF ScanInv, TypeOK
<1>5. /\ e \in ViolationEvent
      /\ e = EventAt(ordered, i + 1)
      /\ e.window_end = ordered[i + 1].observed_at
  BY <1>2, <1>3 DEF ViolationEvent, EventAt
<1>6. /\ events' \in Seq(ViolationEvent) /\ fired' \in Seq(Nat)
      /\ Len(events') = L + 1 /\ Len(fired') = L + 1
      /\ DOMAIN events' = 1..(L + 1) /\ DOMAIN fired' = 1..(L + 1)
      /\ events'[L + 1] = e /\ fired'[L + 1] = i + 1
      /\ \A n \in 1..L : events'[n] = events[n] /\ fired'[n] = fired[n]
  BY <1>1, <1>2, <1>4, <1>5
<1> HIDE DEF L, e
<1>7. TypeOK'
  <2>1. ASSUME NEW n \in 1..(L + 1) PROVE fired'[n] \in 1..i'
    <3>1. CASE n \in 1..L
      BY <1>2, <1>4, <1>6, <3>1
    <3>2. CASE n = L + 1
      BY <1>2, <1>6, <3>2
    <3> QED
      BY <1>4, <3>1, <3>2
  <2> QED
    BY <1>1, <1>2, <1>6, <2>1, VisitFacts DEF TypeOK
<1>8. EventsAreWindows'
  <2> SUFFICES ASSUME NEW n \in 1..(L + 1)
               PROVE  /\ events'[n] = EventAt(ordered, fired'[n])
                      /\ Cardinality(Window(ordered, fired'[n])) >= K
    BY <1>2, <1>6 DEF EventsAreWindows
  <2>1. CASE n \in 1..L
    BY <1>4, <1>6, <2>1 DEF ScanInv, EventsAreWindows
  <2>2. CASE n = L + 1
    BY <1>1, <1>2, <1>5, <1>6, <2>2
  <2> QED
    BY <1>4, <2>1, <2>2
<1>9. DisjointEvidence'
  <2> SUFFICES ASSUME NEW m \in 1..(L + 1), NEW n \in 1..(L + 1), m < n
               PROVE  events'[n].window_end - events'[m].window_end > W
    BY <1>6 DEF DisjointEvidence
  <2>1. CASE n \in 1..L
    <3>1. m \in 1..L
      BY <1>4, <2>1
    <3> QED
      BY <1>4, <1>6, <2>1, <3>1 DEF ScanInv, DisjointEvidence
  <2>2. CASE n = L + 1
    <3>1. m \in 1..L
      BY <1>4, <2>2
    <3>2. Age(i + 1, fired[m]) > W
      BY <1>1, <1>4, <3>1, NoCohortMeansAged
    <3>3. events'[m].window_end = ordered[fired[m]].observed_at
      <4>1. events[m] = EventAt(ordered, fired[m])
        BY <1>4, <3>1 DEF ScanInv, EventsAreWindows
      <4> QED
        BY <1>6, <3>1, <4>1 DEF EventAt
    <3>4. events'[n].window_end = ordered[i + 1].observed_at
      BY <1>5, <1>6, <2>2
    <3> QED
      BY <3>2, <3>3, <3>4 DEF Age
  <2> QED
    BY <1>4, <2>1, <2>2
<1>10. Persists(ordered, i + 1, i + 1)
  BY <1>2 DEF Persists
<1>11. NothingMissed'
  <2> SUFFICES ASSUME NEW n \in 1..(i + 1),
                      Cardinality(Window(ordered, n)) >= K
               PROVE  \E k \in 1..(L + 1) :
                         fired'[k] <= n /\ Persists(ordered, fired'[k], n)
    BY <1>2, <1>6 DEF NothingMissed
  <2>1. CASE n \in 1..i
    <3>1. PICK k \in 1..L : fired[k] <= n /\ Persists(ordered, fired[k], n)
      BY <1>4, <2>1 DEF ScanInv, NothingMissed
    <3> QED
      BY <1>4, <1>6, <3>1
  <2>2. CASE n = i + 1
    BY <1>2, <1>4, <1>6, <1>10, <2>2
  <2> QED
    BY <1>2, <2>1, <2>2
<1>12. CohortPersists' /\ NoneMeansAged'
  <2>1. events' # <<>>
    BY <1>4, <1>6
  <2> QED
    BY <1>1, <1>2, <1>6, <1>10, <2>1 DEF CohortPersists, NoneMeansAged
<1> QED
  BY <1>2, <1>7, <1>8, <1>9, <1>11, <1>12 DEF ScanInv

-----------------------------------------------------------------------------

(***************************************************************************)
(* ScanInv holds throughout every scan.                                    *)
(***************************************************************************)
THEOREM ScanInvariant == Spec => []ScanInv
<1>1. ScanInv /\ [Next]_vars => ScanInv'
  <2> SUFFICES ASSUME ScanInv, [Next]_vars PROVE ScanInv'
    OBVIOUS
  <2>1. ASSUME NEW s \in 1..Len(ordered), Suppress(s) PROVE ScanInv'
    BY <2>1, SuppressKeepsInv
  <2>2. ASSUME NEW s \in 1..Len(ordered), Quiet(s) PROVE ScanInv'
    BY <2>2, QuietKeepsInv
  <2>3. ASSUME NEW s \in 1..Len(ordered), Emit(s) PROVE ScanInv'
    BY <2>3, EmitKeepsInv
  <2>4. CASE UNCHANGED vars
    BY <2>4 DEF vars, ScanInv, TypeOK, WindowIsTight, EventsAreWindows,
                CohortPersists, NoneMeansAged, DisjointEvidence,
                NothingMissed, Age
  <2> QED
    BY <2>1, <2>2, <2>3, <2>4 DEF Next
<1> QED
  BY <1>1, ScanInvInit, PTL DEF Spec

(***************************************************************************)
(* Every event of every scan is corroborated by K complainants of its own  *)
(* window.                                                                 *)
(***************************************************************************)
THEOREM ScanCorroborated == Spec => []Corroborated
<1>1. ScanInv => Corroborated
  <2> SUFFICES ASSUME ScanInv, NEW n \in DOMAIN events
               PROVE  /\ Cardinality(events[n].complainants) >= K
                      /\ \A c \in events[n].complainants :
                           \E m \in 1..fired[n] :
                             /\ ordered[m].complainant = c
                             /\ events[n].window_end - W <= ordered[m].observed_at
                             /\ ordered[m].observed_at <= events[n].window_end
    BY DEF Corroborated
  <2>1. /\ events[n] = EventAt(ordered, fired[n])
        /\ Cardinality(Window(ordered, fired[n])) >= K
    BY DEF ScanInv, EventsAreWindows
  <2>2. fired[n] \in 1..i /\ i \in 0..Len(ordered) /\ fired[n] \in 1..Len(ordered)
    BY DEF ScanInv, TypeOK
  <2>3. ASSUME NEW c \in events[n].complainants
        PROVE  \E m \in 1..fired[n] :
                  /\ ordered[m].complainant = c
                  /\ events[n].window_end - W <= ordered[m].observed_at
                  /\ ordered[m].observed_at <= events[n].window_end
    <3>1. c \in Window(ordered, fired[n])
      BY <2>1, <2>3 DEF EventAt
    <3>2. PICK m \in 1..fired[n] :
            /\ c = ordered[m].complainant
            /\ ordered[fired[n]].observed_at - ordered[m].observed_at <= W
      BY <3>1 DEF Window
    <3>3. ordered[m].observed_at <= ordered[fired[n]].observed_at
      BY <2>2, <3>2, OrderedFacts DEF ScanInv
    <3>4. /\ ordered[m].observed_at \in Int
          /\ ordered[fired[n]].observed_at \in Int
      BY <2>2, OrderedFacts DEF ScanInv
    <3>5. events[n].window_end = ordered[fired[n]].observed_at
      BY <2>1 DEF EventAt
    <3> QED
      BY <3>2, <3>3, <3>4, <3>5, ScorerAssumption
  <2> QED
    BY <2>1, <2>3 DEF EventAt
<1> QED
  BY <1>1, ScanInvariant, PTL

(***************************************************************************)
(* The windows of two events of one scan never overlap.                    *)
(***************************************************************************)
THEOREM ScanDisjointEvidence == Spec => []DisjointEvidence
<1>1. ScanInv => DisjointEvidence
  BY DEF ScanInv
<1> QED
  BY <1>1, ScanInvariant, PTL

(***************************************************************************)
(* A crossing of the threshold is an event or follows one whose cohort has *)
(* not been silent since.                                                  *)
(***************************************************************************)
THEOREM ScanNothingMissed == Spec => []NothingMissed
<1>1. ScanInv => NothingMissed
  BY DEF ScanInv
<1> QED
  BY <1>1, ScanInvariant, PTL

(***************************************************************************)
(* The loop implements Episodes: every step reports a separate event or    *)
(* reports nothing.                                                        *)
(***************************************************************************)
THEOREM ScanKeepsPromise == Spec => PromiseSpec
<1>1. Init => Promise!Init
  BY DEF Init, Promise!Init
<1>2. ASSUME ScanInv, ScanInv', [Next]_vars
      PROVE  [Promise!Next]_events
  <2>1. CASE UNCHANGED events
    BY <2>1
  <2>2. ASSUME NEW s \in 1..Len(ordered), Emit(s)
        PROVE  Promise!Next
    <3> DEFINE L == Len(events)
               e == [window_end |-> ordered[i + 1].observed_at,
                     complainants |-> InWindow(s)]
    <3>1. /\ events' = Append(events, e)
          /\ Cardinality(e.complainants) >= K
          /\ Visit(s)
      BY <2>2 DEF Emit
    <3>2. e.complainants \in Cohorts
      BY <1>2, <3>1, VisitFacts DEF Cohorts
    <3>3. /\ events \in Seq(ViolationEvent) /\ L \in Nat
          /\ DOMAIN events = 1..L
          /\ Len(events') = L + 1 /\ events'[L + 1] = e
          /\ DOMAIN events' = 1..(L + 1)
          /\ events' # <<>>
          /\ \A n \in 1..L : events'[n] = events[n]
      BY <1>2, <3>1 DEF ScanInv, TypeOK
    <3>4. \A n \in DOMAIN events : e.window_end - events[n].window_end > W
      <4> SUFFICES ASSUME NEW n \in DOMAIN events
                   PROVE  e.window_end - events[n].window_end > W
        OBVIOUS
      <4>1. n \in 1..L /\ L + 1 \in 1..(L + 1) /\ n < L + 1 /\ n \in 1..(L + 1)
        BY <3>3
      <4>2. events'[L + 1].window_end - events'[n].window_end > W
        BY <1>2, <3>3, <4>1 DEF ScanInv, DisjointEvidence
      <4> QED
        BY <3>3, <4>1, <4>2
    <3> HIDE DEF L, e
    <3>5. Promise!Report(e)
      BY <3>1, <3>2, <3>4 DEF Promise!Report
    <3>6. events'[Len(events')] = e /\ events' # <<>>
      BY <3>3
    <3> QED
      BY <3>5, <3>6 DEF Promise!Next
  <2> QED
    BY <1>2, <2>1, <2>2 DEF Next, Suppress, Quiet, vars
<1> QED
  BY <1>1, <1>2, ScanInvariant, PTL DEF Spec, PromiseSpec, Promise!Spec

-----------------------------------------------------------------------------
(* The loop and the reference definition.  Fires looks back at every        *)
(* earlier position that fired; the loop only remembers the last one, and   *)
(* only while `triggered' is set.  That is enough because the cohorts of    *)
(* all the others have been silent in some window since.                    *)

OthersFellSilent ==
    \A n \in DOMAIN fired :
        Persists(ordered, fired[n], i) => n = Len(fired) /\ triggered # {}

FiresInv ==
    /\ {fired[n] : n \in DOMAIN fired} = Fires(ordered) \cap 1..i
    /\ OthersFellSilent

\* Whether the position that is visited fires, in terms of what has fired.
LEMMA VisitedFires ==
    ASSUME ScanInv, FiresInv, NEW s \in 1..Len(ordered), Visit(s)
    PROVE  /\ i + 1 \in Fires(ordered) <=>
                  /\ Cardinality(InWindow(s)) >= K
                  /\ \A n \in DOMAIN fired : ~Persists(ordered, fired[n], i + 1)
           /\ Fires(ordered) \cap 1..(i + 1) =
                  IF i + 1 \in Fires(ordered)
                  THEN {fired[n] : n \in DOMAIN fired} \cup {i + 1}
                  ELSE {fired[n] : n \in DOMAIN fired}
<1>1. /\ i \in Nat /\ i + 1 \in 1..Len(ordered) /\ ordered \in Seq(Complaint)
      /\ InWindow(s) = Window(ordered, i + 1)
  BY VisitFacts DEF ScanInv, TypeOK
<1>2. {fired[n] : n \in DOMAIN fired} = Fires(ordered) \cap 1..i
  BY DEF FiresInv
<1>3. /\ Fires(ordered) \subseteq 1..Len(ordered)
      /\ i + 1 \in Fires(ordered) <=>
            /\ Cardinality(Window(ordered, i + 1)) >= K
            /\ \A f \in Fires(ordered) : f < i + 1 => ~Persists(ordered, f, i + 1)
  BY <1>1, FiresEquation
<1>4. \A f \in Fires(ordered) : f < i + 1 <=> f \in {fired[n] : n \in DOMAIN fired}
  BY <1>1, <1>2, <1>3
<1>5. i + 1 \in Fires(ordered) <=>
          /\ Cardinality(InWindow(s)) >= K
          /\ \A n \in DOMAIN fired : ~Persists(ordered, fired[n], i + 1)
  BY <1>1, <1>2, <1>3, <1>4
<1>6. 1..(i + 1) = (1..i) \cup {i + 1}
  BY <1>1
<1> QED
  BY <1>2, <1>5, <1>6

LEMMA PersistsSoFar ==
    ASSUME ScanInv, NEW n \in DOMAIN fired, Persists(ordered, fired[n], i + 1)
    PROVE  /\ Persists(ordered, fired[n], i)
           /\ Window(ordered, i + 1) \cap Window(ordered, fired[n]) # {}
<1>1. i \in Nat /\ fired[n] \in 1..i
  BY DEF ScanInv, TypeOK
<1>2. fired[n]..i \subseteq fired[n]..(i + 1) /\ i + 1 \in fired[n]..(i + 1)
  BY <1>1
<1> QED
  BY <1>2 DEF Persists

\* Once `triggered' is None again, the last cohort has been silent too.
LEMMA NoneLeft ==
    ASSUME ScanInv, FiresInv, NEW s \in 1..Len(ordered), Visit(s), Cohort(s) = {}
    PROVE  \A n \in DOMAIN fired : ~Persists(ordered, fired[n], i + 1)
<1> SUFFICES ASSUME NEW n \in DOMAIN fired, Persists(ordered, fired[n], i + 1)
             PROVE  FALSE
  OBVIOUS
<1>1. /\ Persists(ordered, fired[n], i)
      /\ Window(ordered, i + 1) \cap Window(ordered, fired[n]) # {}
  BY PersistsSoFar
<1>2. n = Len(fired) /\ triggered # {}
  BY <1>1 DEF FiresInv, OthersFellSilent
<1>3. triggered = Window(ordered, fired[n])
  BY <1>2 DEF ScanInv, CohortPersists
<1>4. triggered \cap InWindow(s) = {}
  BY <1>2 DEF Cohort
<1> QED
  BY <1>1, <1>3, <1>4, VisitFacts

LEMMA VisitKeepsFires ==
    ASSUME ScanInv, ScanInv', FiresInv, NEW s \in 1..Len(ordered),
           Suppress(s) \/ Quiet(s) \/ Emit(s)
    PROVE  FiresInv'
<1>. DEFINE Fired == {fired[n] : n \in DOMAIN fired}
<1>1. Visit(s) /\ i' = i + 1 /\ ordered' = ordered /\ i \in Nat
  BY VisitFacts DEF Suppress, Quiet, Emit
<1>2. /\ i + 1 \in Fires(ordered) <=>
            /\ Cardinality(InWindow(s)) >= K
            /\ \A n \in DOMAIN fired : ~Persists(ordered, fired[n], i + 1)
      /\ Fires(ordered) \cap 1..(i + 1) =
            IF i + 1 \in Fires(ordered) THEN Fired \cup {i + 1} ELSE Fired
  BY <1>1, VisitedFires
<1>3. CASE Suppress(s)
  <2>1. UNCHANGED fired /\ triggered' = triggered /\ triggered' # {} /\ events' = events
    BY <1>3 DEF Suppress, Cohort
  <2>2. Persists(ordered, fired[Len(fired)], i + 1) /\ Len(fired) \in DOMAIN fired
    BY <1>1, <2>1 DEF ScanInv, TypeOK, CohortPersists
  <2>3. OthersFellSilent'
    <3> SUFFICES ASSUME NEW n \in DOMAIN fired, Persists(ordered, fired[n], i + 1)
                 PROVE  n = Len(fired) /\ triggered # {}
      BY <1>1, <2>1 DEF OthersFellSilent
    <3> QED
      BY PersistsSoFar DEF FiresInv, OthersFellSilent
  <2> QED
    BY <1>1, <1>2, <2>1, <2>2, <2>3 DEF FiresInv
<1>4. CASE Quiet(s)
  <2>1. UNCHANGED fired /\ ~(Cardinality(InWindow(s)) >= K) /\ Cohort(s) = {}
    BY <1>4 DEF Quiet
  <2>2. OthersFellSilent'
    BY <1>1, <2>1, NoneLeft DEF OthersFellSilent
  <2> QED
    BY <1>1, <1>2, <2>1, <2>2 DEF FiresInv
<1>5. CASE Emit(s)
  <2>1. /\ fired' = Append(fired, i + 1) /\ Cardinality(InWindow(s)) >= K /\ Cohort(s) = {}
        /\ triggered' # {} /\ fired \in Seq(Nat)
    BY <1>1, <1>5, VisitFacts DEF Emit, ScanInv, TypeOK
  <2>2. /\ DOMAIN fired = 1..Len(fired) /\ Len(fired) \in Nat
        /\ DOMAIN fired' = 1..(Len(fired) + 1) /\ Len(fired') = Len(fired) + 1
        /\ fired'[Len(fired) + 1] = i + 1
        /\ \A n \in 1..Len(fired) : fired'[n] = fired[n]
    BY <1>1, <2>1
  <2>3. {fired'[n] : n \in DOMAIN fired'} = Fired \cup {i + 1}
    BY <2>2
  <2>4. OthersFellSilent'
    <3> SUFFICES ASSUME NEW n \in 1..(Len(fired) + 1), n # Len(fired) + 1
                 PROVE  ~Persists(ordered, fired'[n], i + 1)
      BY <1>1, <2>1, <2>2 DEF OthersFellSilent
    <3>1. n \in DOMAIN fired /\ fired'[n] = fired[n]
      BY <2>2
    <3> QED
      BY <1>1, <2>1, <3>1, NoneLeft
  <2>5. i + 1 \in Fires(ordered)
    BY <1>1, <1>2, <2>1, NoneLeft
  <2> QED
    BY <1>1, <1>2, <2>3, <2>4, <2>5 DEF FiresInv
<1> QED
  BY <1>3, <1>4, <1>5

\* The one-pass loop computes the reference definition on every sorted log, for
\* every K and W: it fires where Fires does, with the windows found there.
THEOREM ScanComputesFires == Spec => []LoopComputesFires
<1>1. Init => FiresInv
  BY DEF Init, FiresInv, OthersFellSilent
<1>2. ScanInv /\ ScanInv' /\ FiresInv /\ [Next]_vars => FiresInv'
  <2> SUFFICES ASSUME ScanInv, ScanInv', FiresInv, [Next]_vars PROVE FiresInv'
    OBVIOUS
  <2>1. CASE UNCHANGED vars
    BY <2>1 DEF vars, FiresInv, OthersFellSilent
  <2>2. CASE Next
    BY <2>2, VisitKeepsFires DEF Next
  <2> QED
    BY <2>1, <2>2
<1>3. ScanInv /\ FiresInv => LoopComputesFires
  BY DEF ScanInv, TypeOK, EventsAreWindows, FiresInv, LoopComputesFires
<1> QED
  BY <1>1, <1>2, <1>3, ScanInvariant, PTL DEF Spec
=============================================================================
