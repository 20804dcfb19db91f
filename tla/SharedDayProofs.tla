-------------------------- MODULE SharedDayProofs --------------------------
(***************************************************************************)
(* Proofs about the simulated day of a shared line: no counter is free     *)
(* while a customer waits or a break is due, breaks are taken in turn, and *)
(* the engine keeps the promise of ServiceLine, for any number of          *)
(* customers, breaks, counters and staffing segments.                      *)
(***************************************************************************)
EXTENDS SharedDay, TLAPS, FiniteSetTheorems, SequenceTheorems, WellFoundedInduction

-----------------------------------------------------------------------------
(* The inductive invariant, of the arguments d, the state s and the time.  *)

\* Every event stands for something that is to happen: a service or a break under way, a segment,
\* a break or a customer still to come; none is in the past.
EventsStand(d, s, now) ==
  \A e \in s.heap :
    /\ e.time >= now
    /\ e.order = Completion =>
         /\ e.of \in Customers
         /\ s.customer[e.of].start # Never /\ ~s.customer[e.of].departed
         /\ e.time = s.customer[e.of].start + d.work[e.of]
    /\ e.order = BreakEnd =>
         /\ e.of \in Breaks
         /\ s.rest[e.of].start # Never
         /\ e.time = s.rest[e.of].start + d.length[e.of]
    /\ e.order = Capacity => e.of \in SegmentStarts /\ e.time = e.of
    /\ e.order = BreakDue => e.of \in Breaks /\ e.time = d.due[e.of]
    /\ e.order = Arrival => e.of \in Customers /\ e.time = d.arrival[e.of]

\* Arrival of c, break b is due.
ToCome(d, s, c) == At(d.arrival[c], Arrival, c) \in s.heap
ToBeDue(d, s, b) == At(d.due[b], BreakDue, b) \in s.heap

\* Nobody begins service twice: those to come and those in line have not begun, those who have
\* departed have; nobody is in line twice, or before coming.
LineStands(d, s) ==
  /\ \A c \in Customers :
       /\ ToCome(d, s, c) => s.customer[c].start = Never
       /\ s.customer[c].departed => s.customer[c].start # Never
  /\ \A i \in DOMAIN s.line : s.customer[s.line[i]].start = Never /\ ~ToCome(d, s, s.line[i])
  /\ IsInjective(s.line)

\* Who has begun and not departed is at a counter of his own.
CountersServe(s) ==
  \A c \in Customers :
    s.customer[c].start # Never /\ ~s.customer[c].departed =>
      LET v == s.customer[c].server
      IN /\ v \in DOMAIN s.server
         /\ s.server[v].customer = c /\ s.server[v].state \in {"BUSY", "DRAINING"}

\* Break b is under way at counter v.
Underway(d, s, v, b) ==
  /\ s.rest[b].server = v /\ s.rest[b].start # Never /\ s.rest[b].outcome = "none"
  /\ At(s.rest[b].start + d.length[b], BreakEnd, b) \in s.heap

\* A counter is on break exactly while its break is under way; breaks are taken at counters there are.
CountersRest(d, s) ==
  /\ \A v \in DOMAIN s.server :
       /\ s.server[v].state = "ON_BREAK" <=> s.server[v].rest # 0
       /\ s.server[v].rest # 0 => Underway(d, s, v, s.server[v].rest)
  /\ \A b \in Breaks :
       s.rest[b].start # Never /\ s.rest[b].outcome = "none" =>
         \E v \in DOMAIN s.server : s.server[v].rest = b
  /\ \A b \in Breaks : s.rest[b].start # Never => s.rest[b].server \in DOMAIN s.server

\* Breaks are taken in turn: first those that have started, then those that are due, then the others.
Turn(d, s, now) ==
  /\ Increasing(s.pending)
  /\ \A i \in DOMAIN s.pending :
       LET b == s.pending[i]
       IN /\ s.rest[b].start = Never /\ s.rest[b].outcome = "none"
          /\ d.due[b] <= now
          /\ ~ToBeDue(d, s, b)
  /\ \A b \in Breaks : ToBeDue(d, s, b) => s.rest[b].start = Never /\ s.rest[b].outcome = "none"
  /\ \A a, b \in Breaks : a < b /\ ToBeDue(d, s, a) => ToBeDue(d, s, b)
  /\ \A a, b \in Breaks :
       a < b /\ s.rest[b].start # Never =>
         s.rest[a].start # Never /\ s.rest[a].start <= s.rest[b].start

\* How a break went.
Went(d, r, b, now) ==
  /\ r.start # Never => d.due[b] <= r.start /\ r.start <= now
  /\ r.outcome = "completed" => r.finish = r.start + d.length[b]
  /\ r.outcome \in {"staffing_change", "truncated_by_closing"} =>
       r.finish <= r.start + d.length[b] /\ r.finish <= Closing
  /\ r.outcome = "cancelled_at_closing" => r.start = Never

\* No break is lost: before closing it is to come, due or begun; after closing it has its outcome.
Accounted(d, s, closed) ==
  \A b \in Breaks :
    IF closed THEN s.rest[b].outcome # "none"
    ELSE ToBeDue(d, s, b) \/ b \in Range(s.pending) \/ s.rest[b].start # Never

\* After closing only services are to end, no break is due, and nobody waits but under DRAIN.
AfterClosing(d, s) ==
  /\ \A e \in s.heap : e.order = Completion
  /\ s.pending = <<>>
  /\ d.policy # "DRAIN" => s.line = <<>>

\* All of these of one state.
Stands(d, s, now, closed) ==
  /\ d \in Days /\ s \in Sim
  /\ EventsStand(d, s, now)
  /\ LineStands(d, s)
  /\ CountersServe(s)
  /\ CountersRest(d, s)
  /\ Turn(d, s, now)
  /\ \A b \in Breaks : Went(d, s.rest[b], b, now)
  /\ Accounted(d, s, closed)

IInv ==
  /\ clock \in [now : Nat, segment : SegmentStarts, closed : BOOLEAN]
  /\ Stands(day, sim, clock.now, clock.closed)
  /\ ~clock.closed => clock.now <= Closing
  /\ clock.closed => AfterClosing(day, sim)
  /\ NobodyWaitsForAFreeCounter

-----------------------------------------------------------------------------
(* Queues and free counters *)

\* A set of numbers that is not empty has a least member.
LEMMA LeastMember ==
  ASSUME NEW S, S \subseteq Nat, S # {}
  PROVE  \E m \in S : \A y \in S : m <= y
<1> DEFINE Less == {ss \in Nat \X Nat : ss[1] < ss[2]}
<1>1. IsWellFoundedOn(Less, Nat)
  BY NatLessThanWellFounded DEF OpToRel
<1> HIDE DEF Less
<1>2. PICK m \in S : \A y \in S : ~ (<<y, m>> \in Less)
  BY <1>1, WFMin
<1>3. ASSUME NEW y \in S PROVE m <= y
  <2>1. y \in Nat /\ m \in Nat
    OBVIOUS
  <2>2. ~ (y < m)
    BY <1>2, <2>1 DEF Less
  <2> QED
    BY <2>1, <2>2
<1> QED
  BY <1>3

\* The rank of a member counts itself, and grows with the member.
LEMMA RankGrows ==
  ASSUME NEW S, S \subseteq Nat, IsFiniteSet(S), NEW v \in S
  PROVE  /\ Rank(v, S) \in 1 .. Cardinality(S)
         /\ \A u \in S : u < v => Rank(u, S) < Rank(v, S)
<1> DEFINE UpTo(w) == {x \in S : x <= w}
<1>1. \A w \in S : IsFiniteSet(UpTo(w)) /\ Cardinality(UpTo(w)) \in Nat
                   /\ Cardinality(UpTo(w)) <= Cardinality(S)
  BY FS_Subset, FS_CardinalityType
<1>2. Cardinality(S) \in Nat
  BY FS_CardinalityType
<1>3. v \in UpTo(v)
  OBVIOUS
<1>4. Cardinality(UpTo(v)) > 0
  BY <1>1, <1>3, FS_EmptySet
<1>5. ASSUME NEW u \in S, u < v PROVE Cardinality(UpTo(u)) < Cardinality(UpTo(v))
  <2>1. UpTo(u) \subseteq UpTo(v) /\ UpTo(u) # UpTo(v)
    <3>1. u \in Nat /\ v \in Nat /\ \A x \in S : x \in Nat
      OBVIOUS
    <3>2. v \notin UpTo(u)
      BY <3>1, <1>5
    <3>3. \A x \in S : x <= u => x <= v
      BY <3>1, <1>5
    <3> QED
      BY <3>2, <3>3, <1>3
  <2> QED
    BY <2>1, <1>1, FS_Subset
<1> QED
  BY <1>1, <1>2, <1>4, <1>5 DEF Rank

\* The counters of takes take the first k of the queue q, each another one.
TakenInTurn(F, q, takes, k) ==
  /\ DOMAIN takes \subseteq F
  /\ k \in 0 .. Len(q)
  /\ k < Len(q) => DOMAIN takes = F
  /\ \A v \in DOMAIN takes : Rank(v, F) \in 1 .. k /\ takes[v] = q[Rank(v, F)]
  /\ \A i \in 1 .. k : \E v \in DOMAIN takes : Rank(v, F) = i
  /\ \A u, v \in DOMAIN takes : Rank(u, F) = Rank(v, F) => u = v

\* The free counters take the first few in the queue, each another one; while something is left in
\* the queue no counter stays free.
LEMMA TurnsTakeTheFirst ==
  ASSUME NEW F, F \subseteq Nat, IsFiniteSet(F), NEW X, NEW q \in Seq(X)
  PROVE  TakenInTurn(F, q, Turns(F, q), Cardinality(DOMAIN Turns(F, q)))
<1> DEFINE takes == Turns(F, q)
           k == Cardinality(DOMAIN takes)
<1> DEFINE T == {u \in F : Rank(u, F) <= Len(q)}
<1>1. DOMAIN takes = T /\ \A v \in T : takes[v] = q[Rank(v, F)]
  BY DEF Turns
<1>0. k = Cardinality(T)
  BY <1>1
<1> HIDE DEF takes, k
<1>2. IsFiniteSet(T) /\ k \in Nat /\ Cardinality(F) \in Nat /\ Len(q) \in Nat
  BY <1>0, <1>1, FS_Subset, FS_CardinalityType
<1>3. \A v \in F : Rank(v, F) \in 1 .. Cardinality(F)
  BY RankGrows
<1>4. \A u, v \in F : u < v => Rank(u, F) < Rank(v, F)
  BY RankGrows
<1>5. \A u, v \in F : Rank(u, F) = Rank(v, F) => u = v
  <2> SUFFICES ASSUME NEW u \in F, NEW v \in F, Rank(u, F) = Rank(v, F) PROVE u = v
    OBVIOUS
  <2>1. Rank(u, F) \in Nat /\ Rank(v, F) \in Nat
    BY <1>3
  <2>2. ~ (u < v) /\ ~ (v < u)
    BY <1>4, <2>1
  <2> QED
    BY <2>2
<1>6. ASSUME NEW v \in T PROVE Rank(v, F) \in 1 .. k
  <2> DEFINE U == {u \in F : u <= v}
  <2>1. U \subseteq T
    <3> SUFFICES ASSUME NEW u \in F, u <= v PROVE Rank(u, F) <= Len(q)
      OBVIOUS
    <3>1. Rank(u, F) <= Rank(v, F)
      BY <1>3, <1>4
    <3> QED
      BY <3>1, <1>2, <1>3
  <2>2. Cardinality(U) <= k
    BY <2>1, <1>0, <1>2, FS_Subset
  <2> QED
    BY <2>2, <1>2, <1>3 DEF Rank
<1> DEFINE rank == [v \in T |-> Rank(v, F)]
<1>7. rank \in [T -> 1 .. k]
  BY <1>6
<1>8. IsInjective(rank)
  BY <1>5 DEF IsInjective
<1>9. \A i \in 1 .. k : \E v \in T : Rank(v, F) = i
  <2>0. \A n \in Nat : IsFiniteSet(1 .. n) /\ Cardinality(1 .. n) = n
    BY FS_Interval
  <2>1. IsFiniteSet(1 .. k) /\ Cardinality(1 .. k) = k
    BY <1>2, <2>0
  <2>2. rank \in Injection(T, 1 .. k)
    BY <1>7, <1>8 DEF Injection
  <2>3. rank \in Surjection(T, 1 .. k)
    BY <2>1, <2>2, <1>0, FS_Injection
  <2>4. \A i \in 1 .. k : \E v \in T : rank[v] = i
    BY <2>3 DEF Surjection
  <2> QED
    BY <2>4
<1>10. k <= Len(q)
  <2>1. CASE k = 0
    BY <2>1, <1>2
  <2>2. CASE k > 0
    <3>1. PICK v \in T : Rank(v, F) = k
      BY <1>9, <1>2, <2>2
    <3> QED
      BY <3>1
  <2> QED
    BY <2>1, <2>2, <1>2
<1>11. ASSUME k < Len(q) PROVE T = F
  <2> SUFFICES ASSUME F \ T # {} PROVE FALSE
    OBVIOUS
  <2>1. PICK m \in F \ T : \A y \in F \ T : m <= y
    BY LeastMember
  <2> DEFINE L == {u \in F : u < m}
  <2>0. \A u \in F : u \in Nat
    OBVIOUS
  <2>2. L \subseteq T /\ IsFiniteSet(L)
    <3>1. \A u \in F : u < m => ~ (m <= u)
      BY <2>0
    <3>2. L \subseteq T
      BY <3>1, <2>1
    <3> QED
      BY <3>2, FS_Subset
  <2>3. {u \in F : u <= m} = L \cup {m} /\ m \notin L
    <3>1. \A u \in F : u <= m <=> (u < m \/ u = m)
      BY <2>0
    <3>2. ~ (m < m)
      BY <2>0
    <3> QED
      BY <3>1, <3>2
  <2>4. Rank(m, F) = Cardinality(L) + 1
    BY <2>2, <2>3, FS_AddElement DEF Rank
  <2>5. Cardinality(L) <= k /\ Cardinality(L) \in Nat
    BY <2>2, <1>0, <1>2, FS_Subset, FS_CardinalityType
  <2>6. Rank(m, F) > Len(q)
    BY <2>1, <1>2, <1>3
  <2> QED
    BY <2>4, <2>5, <2>6, <1>2, <1>11
<1>12. T \subseteq F
  OBVIOUS
<1> HIDE DEF T, rank
<1>13. k \in 0 .. Len(q)
  BY <1>2, <1>10
<1>14. \A v \in DOMAIN takes : Rank(v, F) \in 1 .. k /\ takes[v] = q[Rank(v, F)]
  BY <1>1, <1>6
<1>15. \A u, v \in DOMAIN takes : Rank(u, F) = Rank(v, F) => u = v
  BY <1>1, <1>5, <1>12
<1>16. TakenInTurn(F, q, takes, k)
  BY <1>1, <1>9, <1>11, <1>12, <1>13, <1>14, <1>15 DEF TakenInTurn
<1> QED
  BY <1>16 DEF takes, k

\* A function on 1 .. n is a sequence of length n.
LEMMA FunctionIsSeq ==
  ASSUME NEW n \in Nat, NEW S, NEW f \in [1 .. n -> S]
  PROVE  f \in Seq(S) /\ Len(f) = n
<1>1. f \in Seq(S)
  BY SeqDef
<1>2. Len(f) \in Nat /\ DOMAIN f = 1 .. Len(f) /\ DOMAIN f = 1 .. n
  BY <1>1, LenProperties
<1> QED
  BY <1>1, <1>2

\* The counters of takes take the first k of the queue q without repetitions, and left is left.
TakenFrom(F, X, q, takes, k, left) ==
  /\ DOMAIN takes \subseteq F
  /\ left # <<>> => DOMAIN takes = F
  /\ k \in 0 .. Len(q) /\ Len(q) \in Nat /\ DOMAIN q = 1 .. Len(q)
  /\ Range(takes) = {q[i] : i \in 1 .. k}
  /\ Range(takes) \subseteq X
  /\ \A u, v \in DOMAIN takes : takes[u] = takes[v] => u = v
  /\ left \in Seq(X) /\ DOMAIN left = 1 .. (Len(q) - k)
  /\ \A i \in DOMAIN left : i + k \in DOMAIN q /\ left[i] = q[i + k]
  /\ \A i \in DOMAIN left : left[i] \notin Range(takes)
  /\ \A i \in DOMAIN q : q[i] \in Range(takes) \/ q[i] \in Range(left)
  /\ IsInjective(left)

\* What is left of a queue without repetitions is the rest of it, apart from what was taken, and
\* nothing is taken by two counters.
LEMMA RestOfTheQueue ==
  ASSUME NEW F, F \subseteq Nat, IsFiniteSet(F), NEW X, NEW q \in Seq(X), IsInjective(q)
  PROVE  LET takes == Turns(F, q)
             k == Cardinality(DOMAIN takes)
         IN TakenFrom(F, X, q, takes, k, SubSeq(q, k + 1, Len(q)))
<1> SUFFICES ASSUME NEW takes, takes = Turns(F, q), NEW k, k = Cardinality(DOMAIN takes),
                    NEW left, left = SubSeq(q, k + 1, Len(q))
             PROVE  TakenFrom(F, X, q, takes, k, left)
  OBVIOUS
<1>1. /\ DOMAIN takes \subseteq F
      /\ k \in 0 .. Len(q)
      /\ k < Len(q) => DOMAIN takes = F
      /\ \A v \in DOMAIN takes : Rank(v, F) \in 1 .. k /\ takes[v] = q[Rank(v, F)]
      /\ \A i \in 1 .. k : \E v \in DOMAIN takes : Rank(v, F) = i
      /\ \A u, v \in DOMAIN takes : Rank(u, F) = Rank(v, F) => u = v
  <2>1. TakenInTurn(F, q, takes, k)
    BY TurnsTakeTheFirst
  <2> QED
    BY <2>1 DEF TakenInTurn
<1>0. \A i, j \in DOMAIN q : q[i] = q[j] => i = j
  BY DEF IsInjective
<1>2. Len(q) \in Nat /\ DOMAIN q = 1 .. Len(q) /\ \A i \in 1 .. Len(q) : q[i] \in X
  BY LenProperties, ElementOfSeq
<1>3. \A i \in 1 .. k : i \in DOMAIN q
  BY <1>1, <1>2
<1>4. Range(takes) = {q[i] : i \in 1 .. k}
  BY <1>1 DEF Range
<1>5. \A u, v \in DOMAIN takes : takes[u] = takes[v] => u = v
  BY <1>1, <1>3 DEF IsInjective
<1>6. /\ left \in Seq(X)
      /\ Len(left) = IF k + 1 <= Len(q) THEN Len(q) - (k + 1) + 1 ELSE 0
      /\ \A i \in 1 .. Len(q) - (k + 1) + 1 : left[i] = q[k + 1 + i - 1]
  <2>1. k + 1 \in Int /\ Len(q) \in Int /\ \A i \in (k + 1) .. Len(q) : q[i] \in X
    BY <1>1, <1>2
  <2> QED
    BY <2>1, SubSeqProperties
<1>7. DOMAIN left = 1 .. Len(left) /\ Len(left) = Len(q) - k
  BY <1>1, <1>2, <1>6, LenProperties
<1>8. DOMAIN left = 1 .. (Len(q) - k)
  BY <1>7
<1>9. \A i \in DOMAIN left : i + k \in DOMAIN q /\ i + k \notin 1 .. k /\ left[i] = q[i + k]
  BY <1>1, <1>2, <1>6, <1>8
<1>10. left # <<>> => DOMAIN takes = F
  <2>1. left # <<>> => Len(left) # 0
    BY <1>6, EmptySeq
  <2> QED
    BY <2>1, <1>1, <1>2, <1>7
<1>11. \A i \in DOMAIN left : left[i] \notin Range(takes)
  <2> SUFFICES ASSUME NEW i \in DOMAIN left, NEW j \in 1 .. k, left[i] = q[j] PROVE FALSE
    BY <1>4
  <2>1. i + k = j
    BY <1>0, <1>3, <1>9
  <2> QED
    BY <2>1, <1>9
<1>12. ASSUME NEW i \in DOMAIN q, q[i] \notin Range(takes) PROVE q[i] \in Range(left)
  <2>1. i \notin 1 .. k
    BY <1>4, <1>12
  <2>2. i \in 1 .. Len(q)
    BY <1>2
  <2>3. i - k \in DOMAIN left /\ (i - k) + k = i
    BY <2>1, <2>2, <1>1, <1>2, <1>8
  <2> QED
    BY <2>3, <1>9 DEF Range
<1>13. IsInjective(left)
  <2> SUFFICES ASSUME NEW i \in DOMAIN left, NEW j \in DOMAIN left, left[i] = left[j] PROVE i = j
    BY DEF IsInjective
  <2> DEFINE m == i + k
             n == j + k
  <2>0. m \in DOMAIN q /\ n \in DOMAIN q /\ q[m] = q[n]
    BY <1>9
  <2> HIDE DEF m, n
  <2>2. m = n
    BY <1>0, <2>0
  <2>1. i + k = j + k
    BY <2>2 DEF m, n
  <2> QED
    BY <2>1, <1>1, <1>8
<1>14. Range(takes) \subseteq X
  BY <1>2, <1>3, <1>4
<1> QED
  BY <1>1, <1>2, <1>4, <1>5, <1>6, <1>8, <1>9, <1>10, <1>11, <1>12, <1>13, <1>14 DEF TakenFrom

\* The counters in one state are numbers of counters.
LEMMA CountersAreNumbers ==
  ASSUME NEW s \in Sim, NEW state
  PROVE  /\ s.server \in Seq(Server) /\ Len(s.server) \in Nat /\ DOMAIN s.server = 1 .. Len(s.server)
         /\ \A v \in DOMAIN s.server : s.server[v] \in Server
         /\ With(s, state) \subseteq Nat /\ With(s, state) \subseteq DOMAIN s.server
         /\ IsFiniteSet(With(s, state))
<1>1. s.server \in Seq(Server)
  BY DEF Sim
<1>2. Len(s.server) \in Nat /\ DOMAIN s.server = 1 .. Len(s.server)
  BY <1>1, LenProperties
<1>3. IsFiniteSet(DOMAIN s.server)
  <2>1. \A n \in Nat : IsFiniteSet(1 .. n)
    BY FS_Interval
  <2> QED
    BY <1>2, <2>1
<1>4. With(s, state) \subseteq DOMAIN s.server
  BY DEF With
<1>5. IsFiniteSet(With(s, state))
  BY <1>3, <1>4, FS_Subset
<1>6. \A v \in DOMAIN s.server : s.server[v] \in Server
  BY <1>1, <1>2, ElementOfSeq
<1> QED
  BY <1>1, <1>2, <1>4, <1>5, <1>6

\* What stands of the line depends on the line, the customers and the arrivals to come.
LEMMA SameLine ==
  ASSUME NEW d, NEW s \in Sim, NEW t, LineStands(d, s), t.line = s.line, t.customer = s.customer,
         \A c \in Customers : ToCome(d, t, c) => ToCome(d, s, c)
  PROVE  LineStands(d, t)
<1>1. \A i \in DOMAIN s.line : s.line[i] \in Customers
  BY ElementOfSeq, LenProperties DEF Sim
<1> QED
  BY <1>1 DEF LineStands

\* What stands of the breaks' turns depends on the breaks due, the breaks and those to be due.
LEMMA SameTurn ==
  ASSUME NEW d, NEW s \in Sim, NEW now, NEW t, Turn(d, s, now),
         t.pending = s.pending, t.rest = s.rest,
         \A b \in Breaks : ToBeDue(d, t, b) <=> ToBeDue(d, s, b)
  PROVE  Turn(d, t, now)
<1>1. \A i \in DOMAIN s.pending : s.pending[i] \in Breaks
  BY ElementOfSeq, LenProperties DEF Sim
<1>2. ASSUME NEW i \in DOMAIN t.pending
      PROVE  LET b == t.pending[i]
             IN /\ t.rest[b].start = Never /\ t.rest[b].outcome = "none"
                /\ d.due[b] <= now /\ ~ToBeDue(d, t, b)
  <2>1. LET b == s.pending[i]
        IN /\ s.rest[b].start = Never /\ s.rest[b].outcome = "none"
           /\ d.due[b] <= now /\ ~ToBeDue(d, s, b)
    BY DEF Turn
  <2> QED
    BY <1>1, <2>1
<1>3. \A b \in Breaks : ToBeDue(d, t, b) => t.rest[b].start = Never /\ t.rest[b].outcome = "none"
  BY DEF Turn
<1>4. \A a, b \in Breaks : a < b /\ ToBeDue(d, t, a) => ToBeDue(d, t, b)
  BY DEF Turn
<1>5. \A a, b \in Breaks :
        a < b /\ t.rest[b].start # Never => t.rest[a].start # Never /\ t.rest[a].start <= t.rest[b].start
  BY DEF Turn
<1>6. Increasing(t.pending)
  BY DEF Turn
<1> QED
  BY <1>2, <1>3, <1>4, <1>5, <1>6 DEF Turn

\* What the events stand for depends on the heap, the customers and the starts of the breaks.
LEMMA SameEvents ==
  ASSUME NEW d, NEW s, NEW now, NEW t, EventsStand(d, s, now), t.heap = s.heap, t.customer = s.customer,
         \A b \in Breaks : t.rest[b].start = s.rest[b].start
  PROVE  EventsStand(d, t, now)
<1>1. \A e \in s.heap : e.order = BreakEnd => e.of \in Breaks /\ t.rest[e.of].start = s.rest[e.of].start
  BY DEF EventsStand
<1> QED
  BY <1>1 DEF EventsStand

\* Who is served goes on being served at a counter that goes on serving.
LEMMA SameService ==
  ASSUME NEW s, NEW t, CountersServe(s), t.customer = s.customer,
         \A v \in DOMAIN s.server : s.server[v].state \in {"BUSY", "DRAINING"} =>
           /\ v \in DOMAIN t.server
           /\ t.server[v].customer = s.server[v].customer /\ t.server[v].state \in {"BUSY", "DRAINING"}
  PROVE  CountersServe(t)
BY DEF CountersServe

-----------------------------------------------------------------------------
(* Breaks start *)

\* t is s after the counters of takes have taken their breaks.
RestTaken(s, t, takes, now) ==
  /\ t = [server |-> t.server, line |-> s.line, pending |-> t.pending,
          customer |-> s.customer, rest |-> t.rest, heap |-> t.heap]
  /\ t.line = s.line /\ t.customer = s.customer
  /\ t.server = [v \in DOMAIN s.server |->
       IF v \in DOMAIN takes THEN [state |-> "ON_BREAK", customer |-> 0, rest |-> takes[v]]
       ELSE s.server[v]]
  /\ t.pending = SubSeq(s.pending, Cardinality(DOMAIN takes) + 1, Len(s.pending))
  /\ t.rest = [b \in Breaks |->
       IF b \in Range(takes)
         THEN [s.rest[b] EXCEPT !.server = CHOOSE v \in DOMAIN takes : takes[v] = b, !.start = now]
         ELSE s.rest[b]]
  /\ t.heap = s.heap \cup {EndOfBreak(b, now) : b \in Range(takes)}

\* The parts of an event.
LEMMA EventParts ==
  ASSUME NEW time, NEW order, NEW of
  PROVE  At(time, order, of).time = time /\ At(time, order, of).order = order /\ At(time, order, of).of = of
BY DEF At

\* The fields StartDueBreaks leaves and changes.
LEMMA StartFields ==
  ASSUME NEW s \in Sim, NEW now
  PROVE  RestTaken(s, StartDueBreaks(s, now), Turns(With(s, "IDLE"), s.pending), now)
<1> DEFINE takes == Turns(With(s, "IDLE"), s.pending)
           t == StartDueBreaks(s, now)
<1>1. t = [s EXCEPT
         !.server = [v \in DOMAIN @ |->
           IF v \in DOMAIN takes THEN [state |-> "ON_BREAK", customer |-> 0, rest |-> takes[v]]
           ELSE @[v]],
         !.pending = SubSeq(@, Cardinality(DOMAIN takes) + 1, Len(@)),
         !.rest = [b \in Breaks |->
           IF b \in Range(takes)
             THEN [@[b] EXCEPT !.server = CHOOSE v \in DOMAIN takes : takes[v] = b, !.start = now]
             ELSE @[b]],
         !.heap = @ \cup {EndOfBreak(b, now) : b \in Range(takes)}]
  BY DEF StartDueBreaks
<1> HIDE DEF takes, t
<1>2. RestTaken(s, t, takes, now)
  BY <1>1 DEF Sim, RestTaken
<1> QED
  BY <1>2 DEF takes, t

\* Increasing sequences repeat nothing.
LEMMA IncreasingIsInjective ==
  ASSUME NEW q \in Seq(Breaks), Increasing(q)
  PROVE  IsInjective(q)
<1>1. DOMAIN q = 1 .. Len(q) /\ Len(q) \in Nat /\ \A i \in DOMAIN q : q[i] \in Breaks
  BY LenProperties, ElementOfSeq
<1> SUFFICES ASSUME NEW i \in DOMAIN q, NEW j \in DOMAIN q, q[i] = q[j] PROVE i = j
  BY DEF IsInjective
<1>2. q[i] \in Nat /\ q[j] \in Nat
  BY <1>1, ConstantsAssumption DEF Breaks
<1>3. ~ (i < j) /\ ~ (j < i)
  BY <1>2 DEF Increasing
<1> QED
  BY <1>1, <1>3

\* Before closing, starting due breaks keeps all that stands; afterwards no counter is free while
\* a break is due.
LEMMA StartKeeps ==
  ASSUME NEW s, NEW now \in Nat, Stands(day, s, now, FALSE), NEW t, t = StartDueBreaks(s, now)
  PROVE  /\ Stands(day, t, now, FALSE)
         /\ t.pending # <<>> => With(t, "IDLE") = {}
         /\ t.line = s.line /\ t.customer = s.customer
         /\ \A e \in t.heap : e.order = Arrival <=> e \in s.heap /\ e.order = Arrival
         /\ \A e \in s.heap : e \in t.heap
<1> SUFFICES ASSUME NEW q, q = s.pending, NEW takes, takes = Turns(With(s, "IDLE"), q),
                    NEW k, k = Cardinality(DOMAIN takes), NEW Begun, Begun = Range(takes)
             PROVE  /\ Stands(day, t, now, FALSE)
                    /\ t.pending # <<>> => With(t, "IDLE") = {}
                    /\ t.line = s.line /\ t.customer = s.customer
                    /\ \A e \in t.heap : e.order = Arrival <=> e \in s.heap /\ e.order = Arrival
                    /\ \A e \in s.heap : e \in t.heap
  OBVIOUS
<1>1. /\ s \in Sim /\ EventsStand(day, s, now) /\ LineStands(day, s) /\ CountersServe(s)
      /\ CountersRest(day, s)
      /\ Turn(day, s, now) /\ (\A b \in Breaks : Went(day, s.rest[b], b, now))
      /\ Accounted(day, s, FALSE) /\ day \in Days
  BY DEF Stands
<1>2. /\ t = [server |-> t.server, line |-> s.line, pending |-> t.pending,
               customer |-> s.customer, rest |-> t.rest, heap |-> t.heap]
      /\ t.line = s.line /\ t.customer = s.customer
      /\ t.server = [v \in DOMAIN s.server |->
           IF v \in DOMAIN takes THEN [state |-> "ON_BREAK", customer |-> 0, rest |-> takes[v]]
           ELSE s.server[v]]
      /\ t.pending = SubSeq(s.pending, k + 1, Len(s.pending))
      /\ t.rest = [b \in Breaks |->
           IF b \in Begun
             THEN [s.rest[b] EXCEPT !.server = CHOOSE v \in DOMAIN takes : takes[v] = b, !.start = now]
             ELSE s.rest[b]]
      /\ t.heap = s.heap \cup {EndOfBreak(b, now) : b \in Begun}
  <2>1. RestTaken(s, t, takes, now)
    BY <1>1, StartFields
  <2> QED
    BY <2>1 DEF RestTaken
<1>3. /\ s.server \in Seq(Server) /\ Len(s.server) \in Nat /\ DOMAIN s.server = 1 .. Len(s.server)
      /\ \A v \in DOMAIN s.server : s.server[v] \in Server
      /\ With(s, "IDLE") \subseteq Nat /\ With(s, "IDLE") \subseteq DOMAIN s.server
      /\ IsFiniteSet(With(s, "IDLE"))
  BY <1>1, CountersAreNumbers
<1>4. q \in Seq(Breaks) /\ IsInjective(q)
  BY <1>1, IncreasingIsInjective DEF Sim, Turn
<1>5. /\ DOMAIN takes \subseteq With(s, "IDLE")
      /\ t.pending # <<>> => DOMAIN takes = With(s, "IDLE")
      /\ k \in 0 .. Len(q) /\ Len(q) \in Nat /\ DOMAIN q = 1 .. Len(q)
      /\ Begun = {q[i] : i \in 1 .. k}
      /\ Begun \subseteq Breaks
      /\ \A u, v \in DOMAIN takes : takes[u] = takes[v] => u = v
      /\ t.pending \in Seq(Breaks) /\ DOMAIN t.pending = 1 .. (Len(q) - k)
      /\ \A i \in DOMAIN t.pending : i + k \in DOMAIN q /\ t.pending[i] = q[i + k]
      /\ \A i \in DOMAIN t.pending : t.pending[i] \notin Begun
      /\ \A i \in DOMAIN q : q[i] \in Begun \/ q[i] \in Range(t.pending)
      /\ IsInjective(t.pending)
  <2>1. TakenFrom(With(s, "IDLE"), Breaks, q, takes, k, SubSeq(q, k + 1, Len(q)))
    BY <1>3, <1>4, RestOfTheQueue
  <2>2. t.pending = SubSeq(q, k + 1, Len(q))
    BY <1>2
  <2>3. TakenFrom(With(s, "IDLE"), Breaks, q, takes, k, t.pending)
    BY <2>1, <2>2
  <2> QED
    BY <2>3 DEF TakenFrom
<1>6. \A v \in DOMAIN takes : takes[v] \in Begun
  BY DEF Range
<1>7. \A b \in Begun : (CHOOSE v \in DOMAIN takes : takes[v] = b) \in DOMAIN takes
                       /\ takes[CHOOSE v \in DOMAIN takes : takes[v] = b] = b
  BY DEF Range
<1>8. \A b \in Breaks : s.rest[b] \in Rest
  BY <1>1 DEF Sim
<1>9. \A b \in Begun :
        /\ t.rest[b].start = now /\ t.rest[b].outcome = s.rest[b].outcome
        /\ t.rest[b].finish = s.rest[b].finish
        /\ t.rest[b].server \in DOMAIN takes /\ takes[t.rest[b].server] = b
        /\ t.rest[b] \in Rest
  <2> SUFFICES ASSUME NEW b \in Begun
               PROVE  /\ t.rest[b].start = now /\ t.rest[b].outcome = s.rest[b].outcome
                      /\ t.rest[b].finish = s.rest[b].finish
                      /\ t.rest[b].server \in DOMAIN takes /\ takes[t.rest[b].server] = b
                      /\ t.rest[b] \in Rest
    OBVIOUS
  <2>1. b \in Breaks /\ s.rest[b] \in Rest
    BY <1>5, <1>8
  <2>2. PICK v \in DOMAIN takes :
          takes[v] = b /\ t.rest[b] = [s.rest[b] EXCEPT !.server = v, !.start = now]
    BY <1>2, <1>7, <2>1
  <2>3. v \in Nat
    BY <1>3, <1>5
  <2> QED
    BY <2>1, <2>2, <2>3 DEF Rest
<1>10. \A b \in Breaks \ Begun : t.rest[b] = s.rest[b]
  BY <1>2
<1>11. \A v \in DOMAIN takes : t.server[v] = [state |-> "ON_BREAK", customer |-> 0, rest |-> takes[v]]
  BY <1>2, <1>3, <1>5
<1>28. \A v \in DOMAIN takes : t.server[v].state = "ON_BREAK" /\ t.server[v].rest = takes[v]
  <2> SUFFICES ASSUME NEW v \in DOMAIN takes
               PROVE  t.server[v].state = "ON_BREAK" /\ t.server[v].rest = takes[v]
    OBVIOUS
  <2>1. t.server[v] = [state |-> "ON_BREAK", customer |-> 0, rest |-> takes[v]]
    BY <1>11
  <2> QED
    BY <2>1
<1>12. DOMAIN t.server = DOMAIN s.server /\ \A v \in DOMAIN s.server \ DOMAIN takes : t.server[v] = s.server[v]
  BY <1>2
<1>13. \A b \in Begun : s.rest[b].start = Never /\ s.rest[b].outcome = "none" /\ day.due[b] <= now
                        /\ ~ToBeDue(day, s, b)
  <2>1. \A i \in DOMAIN q :
          /\ s.rest[q[i]].start = Never /\ s.rest[q[i]].outcome = "none" /\ day.due[q[i]] <= now
          /\ ~ToBeDue(day, s, q[i])
    BY <1>1 DEF Turn
  <2>2. \A b \in Begun : \E i \in DOMAIN q : b = q[i]
    BY <1>5
  <2> QED
    BY <2>1, <2>2
<1>15. \A e \in t.heap : e \in s.heap \/ \E b \in Begun : e = EndOfBreak(b, now)
  BY <1>2
<1>25. \A e \in s.heap : e \in t.heap
  BY <1>2
<1>27. \A b \in Begun : LET e == EndOfBreak(b, now)
                        IN e.order = BreakEnd /\ e.of = b /\ e.time = now + day.length[b]
  BY EventParts DEF EndOfBreak
<1>26. \A e \in t.heap : e.order # BreakEnd => e \in s.heap
  BY <1>15, <1>27
<1>14. \A b \in Breaks : ToBeDue(day, t, b) <=> ToBeDue(day, s, b)
  BY <1>25, <1>26, EventParts DEF ToBeDue, BreakDue, BreakEnd
<1>16. t \in Sim
  <2>1. t.server \in Seq(Server)
    <3>1. \A v \in DOMAIN t.server : t.server[v] \in Server
      <4> SUFFICES ASSUME NEW v \in DOMAIN s.server PROVE t.server[v] \in Server
        BY <1>12
      <4>1. CASE v \in DOMAIN takes
        <5>1. takes[v] \in Breaks
          BY <4>1, <1>5, <1>6
        <5>2. [state |-> "ON_BREAK", customer |-> 0, rest |-> takes[v]] \in Server
          BY <5>1 DEF Server
        <5>3. t.server[v] = [state |-> "ON_BREAK", customer |-> 0, rest |-> takes[v]]
          BY <4>1, <1>11
        <5> QED
          BY <5>2, <5>3
      <4>2. CASE v \notin DOMAIN takes
        BY <4>2, <1>3, <1>12
      <4> QED
        BY <4>1, <4>2
    <3>2. t.server \in [1 .. Len(s.server) -> Server]
      BY <3>1, <1>2, <1>3
    <3> QED
      BY <3>2, <1>3, FunctionIsSeq
  <2>2. t.rest \in [Breaks -> Rest]
    BY <1>2, <1>8, <1>9, <1>10
  <2>3. t.heap \in SUBSET Events
    <3>1. \A b \in Breaks : day.length[b] \in Nat
      BY <1>1, ConstantsAssumption DEF Days, Schedules
    <3>2. \A b \in Begun : EndOfBreak(b, now) \in Events
      BY <3>1, <1>5, ConstantsAssumption DEF EndOfBreak, At, Events, Breaks, BreakEnd
    <3>3. s.heap \subseteq Events
      BY <1>1 DEF Sim
    <3> QED
      BY <3>2, <3>3, <1>15
  <2> QED
    BY <2>1, <2>2, <2>3, <1>1, <1>2, <1>5 DEF Sim
<1>17. EventsStand(day, t, now)
  <2>1. ASSUME NEW b \in Begun, NEW e, e = EndOfBreak(b, now)
        PROVE  /\ e.time >= now /\ e.order = BreakEnd /\ e.of = b
               /\ e.time = now + day.length[b]
    <3>1. day.length[b] \in Nat
      BY <1>1, <1>5, ConstantsAssumption DEF Days, Schedules
    <3> QED
      BY <2>1, <3>1, <1>27
  <2>2. ASSUME NEW e \in t.heap, e.order = BreakEnd
        PROVE  /\ e.time >= now /\ e.of \in Breaks /\ t.rest[e.of].start # Never
               /\ e.time = t.rest[e.of].start + day.length[e.of]
    <3>1. CASE e \in s.heap
      <4>1. /\ e.of \in Breaks /\ e.time >= now /\ s.rest[e.of].start # Never
            /\ e.time = s.rest[e.of].start + day.length[e.of]
        BY <3>1, <2>2, <1>1 DEF EventsStand
      <4>2. t.rest[e.of] = s.rest[e.of]
        BY <4>1, <1>10, <1>13
      <4> QED
        BY <4>1, <4>2
    <3>2. CASE \E b \in Begun : e = EndOfBreak(b, now)
      BY <3>2, <2>1, <1>5, <1>9 DEF Never
    <3> QED
      BY <3>1, <3>2, <1>15
  <2>3. ASSUME NEW e \in t.heap, e.order # BreakEnd PROVE e \in s.heap
    BY <2>1, <2>3, <1>15
  <2> QED
    <3> SUFFICES ASSUME NEW e \in t.heap, e.order # BreakEnd
                 PROVE  /\ e.time >= now
                        /\ e.order = Completion =>
                             /\ e.of \in Customers
                             /\ t.customer[e.of].start # Never /\ ~t.customer[e.of].departed
                             /\ e.time = t.customer[e.of].start + day.work[e.of]
                        /\ e.order = Capacity => e.of \in SegmentStarts /\ e.time = e.of
                        /\ e.order = BreakDue => e.of \in Breaks /\ e.time = day.due[e.of]
                        /\ e.order = Arrival => e.of \in Customers /\ e.time = day.arrival[e.of]
      BY <2>2 DEF EventsStand, Completion, BreakEnd, Capacity, BreakDue, Arrival
    <3> QED
      BY <2>3, <1>1, <1>2 DEF EventsStand, Completion, BreakEnd, Capacity, BreakDue, Arrival
<1>18. LineStands(day, t)
  <2>1. \A c \in Customers : ToCome(day, t, c) => ToCome(day, s, c)
    BY <1>26, EventParts DEF ToCome, Arrival, BreakEnd
  <2> QED
    BY <2>1, <1>1, <1>2, SameLine
<1>33. CountersServe(t)
  <2> SUFFICES ASSUME NEW c \in Customers, s.customer[c].start # Never, ~s.customer[c].departed
               PROVE  LET v == s.customer[c].server
                      IN /\ v \in DOMAIN t.server
                         /\ t.server[v].customer = c /\ t.server[v].state \in {"BUSY", "DRAINING"}
    BY <1>2 DEF CountersServe
  <2>1. PICK v \in DOMAIN s.server :
          /\ v = s.customer[c].server
          /\ s.server[v].customer = c /\ s.server[v].state \in {"BUSY", "DRAINING"}
    BY <1>1 DEF CountersServe
  <2>2. v \notin DOMAIN takes
    BY <2>1, <1>5 DEF With
  <2>3. v \in DOMAIN t.server /\ t.server[v] = s.server[v]
    BY <2>2, <1>12
  <2> QED
    BY <2>1, <2>3
<1>19. CountersRest(day, t)
  <2>1. ASSUME NEW v \in DOMAIN t.server
        PROVE  /\ t.server[v].state = "ON_BREAK" <=> t.server[v].rest # 0
               /\ t.server[v].rest # 0 => Underway(day, t, v, t.server[v].rest)
    <3>1. CASE v \in DOMAIN takes
      <4>1. takes[v] \in Begun /\ takes[v] \in Breaks /\ takes[v] # 0
        BY <3>1, <1>5, <1>6, ConstantsAssumption DEF Breaks
      <4>2. t.rest[takes[v]].server = v
        BY <3>1, <4>1, <1>5, <1>9
      <4>3. t.rest[takes[v]].start = now /\ t.rest[takes[v]].outcome = "none" /\ now # Never
        BY <4>1, <1>9, <1>13 DEF Never
      <4>4. At(now + day.length[takes[v]], BreakEnd, takes[v]) \in t.heap
        BY <4>1, <1>2 DEF EndOfBreak
      <4> QED
        BY <3>1, <4>1, <4>2, <4>3, <4>4, <1>28 DEF Underway
    <3>2. CASE v \notin DOMAIN takes
      <4>1. v \in DOMAIN s.server /\ t.server[v] = s.server[v] /\ s.server[v] \in Server
        BY <3>2, <1>3, <1>12
      <4>2. s.server[v].state = "ON_BREAK" <=> s.server[v].rest # 0
        BY <4>1, <1>1 DEF CountersRest
      <4>3. ASSUME s.server[v].rest # 0 PROVE Underway(day, t, v, s.server[v].rest)
        <5> DEFINE b == s.server[v].rest
        <5>1. Underway(day, s, v, b)
          BY <4>1, <4>3, <1>1 DEF CountersRest
        <5>2. b \in Breaks
          BY <4>1, <4>3 DEF Server
        <5>3. t.rest[b] = s.rest[b]
          BY <5>1, <5>2, <1>10, <1>13 DEF Underway
        <5> HIDE DEF b
        <5>4. Underway(day, t, v, b)
          BY <5>1, <5>3, <1>25 DEF Underway
        <5> QED
          BY <5>4 DEF b
      <4> QED
        BY <4>1, <4>2, <4>3
    <3> QED
      BY <3>1, <3>2
  <2>2. ASSUME NEW b \in Breaks, t.rest[b].start # Never, t.rest[b].outcome = "none"
        PROVE  \E v \in DOMAIN t.server : t.server[v].rest = b
    <3>1. CASE b \in Begun
      BY <3>1, <1>3, <1>5, <1>9, <1>12, <1>28
    <3>2. CASE b \notin Begun
      <4>1. PICK v \in DOMAIN s.server : s.server[v].rest = b
        BY <3>2, <2>2, <1>1, <1>10 DEF CountersRest
      <4>2. s.server[v].state = "ON_BREAK"
        <5>1. b # 0
          BY ConstantsAssumption DEF Breaks
        <5> QED
          BY <4>1, <5>1, <1>1 DEF CountersRest
      <4>3. v \notin DOMAIN takes
        BY <4>2, <1>5 DEF With
      <4> QED
        BY <4>1, <4>3, <1>12
    <3> QED
      BY <3>1, <3>2
  <2>3. ASSUME NEW b \in Breaks, t.rest[b].start # Never PROVE t.rest[b].server \in DOMAIN t.server
    <3>1. CASE b \in Begun
      BY <3>1, <1>3, <1>5, <1>9, <1>12
    <3>2. CASE b \notin Begun
      BY <3>2, <2>3, <1>1, <1>3, <1>10, <1>12 DEF CountersRest
    <3> QED
      BY <3>1, <3>2
  <2> QED
    BY <2>1, <2>2, <2>3 DEF CountersRest
<1>29. \A b \in Breaks : b \in Nat
  BY ConstantsAssumption DEF Breaks
<1>30. \A i \in DOMAIN q : q[i] \in Breaks
  BY <1>4, <1>5, ElementOfSeq
<1>31. \A i, j \in DOMAIN q : i < j => q[i] < q[j]
  BY <1>1 DEF Turn, Increasing
<1>32. \A i \in DOMAIN t.pending : \E j \in DOMAIN q : j = i + k /\ t.pending[i] = q[j]
  BY <1>5
<1>20. Turn(day, t, now)
  <2>1. Increasing(t.pending)
    <3> SUFFICES ASSUME NEW i \in DOMAIN t.pending, NEW j \in DOMAIN t.pending, i < j
                 PROVE  t.pending[i] < t.pending[j]
      BY DEF Increasing
    <3>1. PICK m \in DOMAIN q : m = i + k /\ t.pending[i] = q[m]
      BY <1>32
    <3>2. PICK n \in DOMAIN q : n = j + k /\ t.pending[j] = q[n]
      BY <1>32
    <3>3. m < n
      BY <3>1, <3>2, <1>5
    <3> QED
      BY <3>1, <3>2, <3>3, <1>31
  <2>2. ASSUME NEW i \in DOMAIN t.pending
        PROVE  LET b == t.pending[i]
               IN /\ t.rest[b].start = Never /\ t.rest[b].outcome = "none"
                  /\ day.due[b] <= now /\ ~ToBeDue(day, t, b)
    <3>1. PICK j \in DOMAIN q : t.pending[i] = q[j]
      BY <1>32
    <3>2. q[j] \in Breaks \ Begun
      BY <3>1, <1>5, <1>30
    <3>3. /\ s.rest[q[j]].start = Never /\ s.rest[q[j]].outcome = "none"
          /\ day.due[q[j]] <= now /\ ~ToBeDue(day, s, q[j])
      BY <1>1 DEF Turn
    <3> QED
      BY <3>1, <3>2, <3>3, <1>10, <1>14
  <2>3. ASSUME NEW b \in Breaks, ToBeDue(day, t, b)
        PROVE  t.rest[b].start = Never /\ t.rest[b].outcome = "none"
    <3>1. ToBeDue(day, s, b) /\ b \notin Begun
      BY <2>3, <1>13, <1>14
    <3> QED
      BY <3>1, <1>1, <1>10 DEF Turn
  <2>4. \A a, b \in Breaks : a < b /\ ToBeDue(day, s, a) => ToBeDue(day, s, b)
    BY <1>1 DEF Turn
  <2>5. \A a, b \in Breaks :
          a < b /\ s.rest[b].start # Never => s.rest[a].start # Never /\ s.rest[a].start <= s.rest[b].start
    BY <1>1 DEF Turn
  <2>6. ASSUME NEW a \in Breaks, NEW b \in Breaks, a < b, t.rest[b].start # Never
        PROVE  t.rest[a].start # Never /\ t.rest[a].start <= t.rest[b].start
    <3>1. CASE b \notin Begun
      <4>1. s.rest[a].start # Never /\ s.rest[a].start <= s.rest[b].start /\ t.rest[b] = s.rest[b]
        BY <3>1, <2>5, <2>6, <1>10
      <4> QED
        BY <4>1, <1>10, <1>13
    <3>2. CASE b \in Begun
      <4>1. PICK j \in 1 .. k : b = q[j]
        BY <3>2, <1>5
      <4>2. j \in DOMAIN q
        BY <1>5
      <4>3. t.rest[b].start = now
        BY <3>2, <1>9
      <4>4. CASE a \in Begun
        BY <4>3, <4>4, <1>9 DEF Never
      <4>5. CASE a \notin Begun
        <5>1. ~ToBeDue(day, s, a)
          BY <2>4, <2>6, <3>2, <1>13
        <5>2. a \notin Range(q)
          <6> SUFFICES ASSUME NEW i \in DOMAIN q, a = q[i] PROVE FALSE
            BY DEF Range
          <6>1. i \notin 1 .. k
            BY <4>5, <1>5
          <6>2. j < i
            BY <6>1, <4>1, <1>5
          <6>3. b < a
            BY <6>2, <4>1, <4>2, <1>31
          <6> QED
            BY <6>3, <2>6, <1>29
        <5>3. s.rest[a].start # Never
          BY <5>1, <5>2, <1>1 DEF Accounted
        <5>4. s.rest[a].start <= now
          BY <5>3, <1>1 DEF Went
        <5> QED
          BY <5>3, <5>4, <4>3, <4>5, <1>10
      <4> QED
        BY <4>4, <4>5
    <3> QED
      BY <3>1, <3>2
  <2> QED
    BY <2>1, <2>2, <2>3, <2>4, <2>6, <1>14 DEF Turn
<1>21. \A b \in Breaks : Went(day, t.rest[b], b, now)
  <2> SUFFICES ASSUME NEW b \in Breaks PROVE Went(day, t.rest[b], b, now)
    OBVIOUS
  <2>1. CASE b \in Begun
    BY <2>1, <1>9, <1>13 DEF Went
  <2>2. CASE b \notin Begun
    BY <2>2, <1>1, <1>10
  <2> QED
    BY <2>1, <2>2
<1>22. Accounted(day, t, FALSE)
  <2> SUFFICES ASSUME NEW b \in Breaks
               PROVE  ToBeDue(day, t, b) \/ b \in Range(t.pending) \/ t.rest[b].start # Never
    BY DEF Accounted
  <2>1. CASE b \in Begun
    BY <2>1, <1>9 DEF Never
  <2>2. CASE b \notin Begun
    <3>1. ToBeDue(day, s, b) \/ b \in Range(q) \/ s.rest[b].start # Never
      BY <1>1 DEF Accounted
    <3>2. b \in Range(q) => b \in Range(t.pending)
      BY <2>2, <1>5 DEF Range
    <3> QED
      BY <3>1, <3>2, <2>2, <1>10, <1>14
  <2> QED
    BY <2>1, <2>2
<1>23. t.pending # <<>> => With(t, "IDLE") = {}
  <2> SUFFICES ASSUME t.pending # <<>>, NEW v \in DOMAIN t.server, t.server[v].state = "IDLE"
               PROVE  FALSE
    BY DEF With
  <2>1. v \notin DOMAIN takes
    BY <1>28
  <2>2. v \in With(s, "IDLE")
    BY <2>1, <1>12 DEF With
  <2> QED
    BY <2>1, <2>2, <1>5
<1>24. \A e \in t.heap : e.order = Arrival <=> e \in s.heap /\ e.order = Arrival
  BY <1>26 DEF Arrival, BreakEnd
<1> QED
  BY <1>1, <1>2, <1>16, <1>17, <1>18, <1>19, <1>20, <1>21, <1>22, <1>23, <1>24, <1>25, <1>33 DEF Stands

-----------------------------------------------------------------------------
(* Customers are assigned *)

\* t is s after the counters of takes have taken their customers.
CustomersTaken(s, t, takes, now) ==
  /\ t = [server |-> t.server, line |-> t.line, pending |-> s.pending,
          customer |-> t.customer, rest |-> s.rest, heap |-> t.heap]
  /\ t.pending = s.pending /\ t.rest = s.rest
  /\ t.server = [v \in DOMAIN s.server |->
       IF v \in DOMAIN takes THEN [state |-> "BUSY", customer |-> takes[v], rest |-> 0]
       ELSE s.server[v]]
  /\ t.line = SubSeq(s.line, Cardinality(DOMAIN takes) + 1, Len(s.line))
  /\ t.customer = [c \in Customers |->
       IF c \in Range(takes)
         THEN [s.customer[c] EXCEPT !.server = CHOOSE v \in DOMAIN takes : takes[v] = c, !.start = now]
         ELSE s.customer[c]]
  /\ t.heap = s.heap \cup {EndOfService(c, now) : c \in Range(takes)}

\* The fields Assign leaves and changes.
LEMMA AssignFields ==
  ASSUME NEW s \in Sim, NEW now
  PROVE  CustomersTaken(s, Assign(s, now), Turns(With(s, "IDLE"), s.line), now)
<1> DEFINE takes == Turns(With(s, "IDLE"), s.line)
           t == Assign(s, now)
<1>1. t = [s EXCEPT
         !.server = [v \in DOMAIN @ |->
           IF v \in DOMAIN takes THEN [state |-> "BUSY", customer |-> takes[v], rest |-> 0]
           ELSE @[v]],
         !.line = SubSeq(@, Cardinality(DOMAIN takes) + 1, Len(@)),
         !.customer = [c \in Customers |->
           IF c \in Range(takes)
             THEN [@[c] EXCEPT !.server = CHOOSE v \in DOMAIN takes : takes[v] = c, !.start = now]
             ELSE @[c]],
         !.heap = @ \cup {EndOfService(c, now) : c \in Range(takes)}]
  BY DEF Assign
<1> HIDE DEF takes, t
<1>2. CustomersTaken(s, t, takes, now)
  BY <1>1 DEF Sim, CustomersTaken
<1> QED
  BY <1>2 DEF takes, t

\* The customers C begin their service, the first in line; the others wait on.
Begin(s, t, C) ==
  /\ \E n \in 0 .. Len(s.line) :
       C = Range(SubSeq(s.line, 1, n)) /\ t.line = SubSeq(s.line, n + 1, Len(s.line))
  /\ C \subseteq Customers
  /\ \A c \in Customers :
       /\ t.customer[c].start # Never <=> s.customer[c].start # Never \/ c \in C
       /\ c \in C => s.customer[c].start = Never /\ ~s.customer[c].departed
       /\ t.customer[c].departed = s.customer[c].departed
       /\ t.customer[c].unserved = s.customer[c].unserved

\* Assigning customers keeps all that stands; afterwards no counter is free while one waits.
Assigned(s, t) ==
  /\ t.line # <<>> => With(t, "IDLE") = {}
  /\ With(t, "IDLE") \subseteq With(s, "IDLE")
  /\ t.pending = s.pending /\ t.rest = s.rest
  /\ \A e \in t.heap : e.order # Completion => e \in s.heap
  /\ \A e \in s.heap : e \in t.heap
  /\ \E C : Begin(s, t, C)

\* Assign keeps all that stands, before closing and after it.
LEMMA AssignKeeps ==
  ASSUME NEW s, NEW now \in Nat, NEW closed \in BOOLEAN, Stands(day, s, now, closed),
         NEW t, t = Assign(s, now)
  PROVE  Stands(day, t, now, closed) /\ Assigned(s, t)
<1> SUFFICES ASSUME NEW q, q = s.line, NEW takes, takes = Turns(With(s, "IDLE"), q),
                    NEW k, k = Cardinality(DOMAIN takes), NEW Begun, Begun = Range(takes)
             PROVE  Stands(day, t, now, closed) /\ Assigned(s, t)
  OBVIOUS
<1>1. /\ s \in Sim /\ EventsStand(day, s, now) /\ LineStands(day, s) /\ CountersServe(s)
      /\ CountersRest(day, s)
      /\ Turn(day, s, now) /\ (\A b \in Breaks : Went(day, s.rest[b], b, now))
      /\ Accounted(day, s, closed) /\ day \in Days
  BY DEF Stands
<1>2. /\ t = [server |-> t.server, line |-> t.line, pending |-> s.pending,
              customer |-> t.customer, rest |-> s.rest, heap |-> t.heap]
      /\ t.pending = s.pending /\ t.rest = s.rest
      /\ t.server = [v \in DOMAIN s.server |->
           IF v \in DOMAIN takes THEN [state |-> "BUSY", customer |-> takes[v], rest |-> 0]
           ELSE s.server[v]]
      /\ t.line = SubSeq(q, k + 1, Len(q))
      /\ t.customer = [c \in Customers |->
           IF c \in Begun
             THEN [s.customer[c] EXCEPT !.server = CHOOSE v \in DOMAIN takes : takes[v] = c, !.start = now]
             ELSE s.customer[c]]
      /\ t.heap = s.heap \cup {EndOfService(c, now) : c \in Begun}
  <2>1. CustomersTaken(s, t, takes, now)
    BY <1>1, AssignFields
  <2> QED
    BY <2>1 DEF CustomersTaken
<1>3. /\ s.server \in Seq(Server) /\ Len(s.server) \in Nat /\ DOMAIN s.server = 1 .. Len(s.server)
      /\ \A v \in DOMAIN s.server : s.server[v] \in Server
      /\ With(s, "IDLE") \subseteq Nat /\ With(s, "IDLE") \subseteq DOMAIN s.server
      /\ IsFiniteSet(With(s, "IDLE"))
  BY <1>1, CountersAreNumbers
<1>4. q \in Seq(Customers) /\ IsInjective(q)
  BY <1>1 DEF Sim, LineStands
<1>5. /\ DOMAIN takes \subseteq With(s, "IDLE")
      /\ t.line # <<>> => DOMAIN takes = With(s, "IDLE")
      /\ k \in 0 .. Len(q) /\ Len(q) \in Nat /\ DOMAIN q = 1 .. Len(q)
      /\ Begun = {q[i] : i \in 1 .. k}
      /\ Begun \subseteq Customers
      /\ \A u, v \in DOMAIN takes : takes[u] = takes[v] => u = v
      /\ t.line \in Seq(Customers) /\ DOMAIN t.line = 1 .. (Len(q) - k)
      /\ \A i \in DOMAIN t.line : i + k \in DOMAIN q /\ t.line[i] = q[i + k]
      /\ \A i \in DOMAIN t.line : t.line[i] \notin Begun
      /\ IsInjective(t.line)
  <2>1. TakenFrom(With(s, "IDLE"), Customers, q, takes, k, SubSeq(q, k + 1, Len(q)))
    BY <1>3, <1>4, RestOfTheQueue
  <2>2. t.line = SubSeq(q, k + 1, Len(q))
    BY <1>2
  <2>3. TakenFrom(With(s, "IDLE"), Customers, q, takes, k, t.line)
    BY <2>1, <2>2
  <2> QED
    BY <2>3 DEF TakenFrom
<1>6. \A v \in DOMAIN takes : takes[v] \in Begun
  BY DEF Range
<1>7. \A c \in Begun : (CHOOSE v \in DOMAIN takes : takes[v] = c) \in DOMAIN takes
                       /\ takes[CHOOSE v \in DOMAIN takes : takes[v] = c] = c
  BY DEF Range
<1>8. \A c \in Customers : s.customer[c] \in Customer
  BY <1>1 DEF Sim
<1>9. \A c \in Begun :
        /\ t.customer[c].start = now /\ t.customer[c].departed = s.customer[c].departed
        /\ t.customer[c].unserved = s.customer[c].unserved
        /\ t.customer[c] \in Customer
  <2> SUFFICES ASSUME NEW c \in Begun
               PROVE  /\ t.customer[c].start = now /\ t.customer[c].departed = s.customer[c].departed
                      /\ t.customer[c].unserved = s.customer[c].unserved
                      /\ t.customer[c] \in Customer
    OBVIOUS
  <2>1. c \in Customers /\ s.customer[c] \in Customer
    BY <1>5, <1>8
  <2>2. PICK v \in DOMAIN takes :
          takes[v] = c /\ t.customer[c] = [s.customer[c] EXCEPT !.server = v, !.start = now]
    BY <1>2, <1>7, <2>1
  <2>3. v \in Nat
    BY <1>3, <1>5
  <2> QED
    BY <2>1, <2>2, <2>3 DEF Customer
<1>10. \A c \in Customers \ Begun : t.customer[c] = s.customer[c]
  BY <1>2
<1>11. \A v \in DOMAIN takes : t.server[v] = [state |-> "BUSY", customer |-> takes[v], rest |-> 0]
  BY <1>2, <1>3, <1>5
<1>12. DOMAIN t.server = DOMAIN s.server /\ \A v \in DOMAIN s.server \ DOMAIN takes : t.server[v] = s.server[v]
  BY <1>2
<1>13. \A v \in DOMAIN takes : t.server[v].state = "BUSY" /\ t.server[v].rest = 0
  <2> SUFFICES ASSUME NEW v \in DOMAIN takes PROVE t.server[v].state = "BUSY" /\ t.server[v].rest = 0
    OBVIOUS
  <2>1. t.server[v] = [state |-> "BUSY", customer |-> takes[v], rest |-> 0]
    BY <1>11
  <2> QED
    BY <2>1
<1>14. \A i \in DOMAIN q : q[i] \in Customers /\ s.customer[q[i]].start = Never /\ ~ToCome(day, s, q[i])
  BY <1>1, <1>4, <1>5, ElementOfSeq DEF LineStands
<1>15. \A c \in Begun : s.customer[c].start = Never /\ ~ToCome(day, s, c) /\ ~s.customer[c].departed
  BY <1>1, <1>5, <1>14 DEF LineStands
<1>16. \A e \in t.heap : e \in s.heap \/ \E c \in Begun : e = EndOfService(c, now)
  BY <1>2
<1>17. \A e \in s.heap : e \in t.heap
  BY <1>2
<1>18. \A c \in Begun : LET e == EndOfService(c, now)
                        IN e.order = Completion /\ e.of = c /\ e.time = now + day.work[c]
  BY EventParts DEF EndOfService
<1>19. \A e \in t.heap : e.order # Completion => e \in s.heap
  BY <1>16, <1>18
<1>20. \A c \in Customers : ToCome(day, t, c) <=> ToCome(day, s, c)
  BY <1>17, <1>19, EventParts DEF ToCome, Completion, Arrival
<1>21. \A b \in Breaks : ToBeDue(day, t, b) <=> ToBeDue(day, s, b)
  BY <1>17, <1>19, EventParts DEF ToBeDue, Completion, BreakDue
<1>22. \A c \in Customers : day.work[c] \in Nat
  BY <1>1, ConstantsAssumption DEF Days, Schedules
<1>23. t \in Sim
  <2>1. t.server \in Seq(Server)
    <3>1. ASSUME NEW v \in DOMAIN s.server PROVE t.server[v] \in Server
      <4>1. CASE v \in DOMAIN takes
        <5>1. takes[v] \in Customers
          BY <4>1, <1>5, <1>6
        <5>2. [state |-> "BUSY", customer |-> takes[v], rest |-> 0] \in Server
          BY <5>1 DEF Server
        <5>3. t.server[v] = [state |-> "BUSY", customer |-> takes[v], rest |-> 0]
          BY <4>1, <1>11
        <5> QED
          BY <5>2, <5>3
      <4>2. CASE v \notin DOMAIN takes
        BY <4>2, <1>3, <1>12
      <4> QED
        BY <4>1, <4>2
    <3>2. t.server \in [1 .. Len(s.server) -> Server]
      BY <3>1, <1>2, <1>3
    <3> QED
      BY <3>2, <1>3, FunctionIsSeq
  <2>2. t.customer \in [Customers -> Customer]
    BY <1>2, <1>8, <1>9, <1>10
  <2>3. t.heap \in SUBSET Events
    <3>1. \A c \in Begun : EndOfService(c, now) \in Events
      BY <1>5, <1>22, ConstantsAssumption DEF EndOfService, At, Events, Customers, Completion
    <3>2. s.heap \subseteq Events
      BY <1>1 DEF Sim
    <3> QED
      BY <3>1, <3>2, <1>16
  <2> QED
    BY <2>1, <2>2, <2>3, <1>1, <1>2, <1>5 DEF Sim
<1>24. EventsStand(day, t, now)
  <2>1. ASSUME NEW e \in t.heap, e.order = Completion
        PROVE  /\ e.time >= now /\ e.of \in Customers
               /\ t.customer[e.of].start # Never /\ ~t.customer[e.of].departed
               /\ e.time = t.customer[e.of].start + day.work[e.of]
    <3>1. CASE e \in s.heap
      <4>1. /\ e.of \in Customers /\ e.time >= now
            /\ s.customer[e.of].start # Never /\ ~s.customer[e.of].departed
            /\ e.time = s.customer[e.of].start + day.work[e.of]
        BY <3>1, <2>1, <1>1 DEF EventsStand
      <4>2. t.customer[e.of] = s.customer[e.of]
        BY <4>1, <1>10, <1>15
      <4> QED
        BY <4>1, <4>2
    <3>2. CASE \E c \in Begun : e = EndOfService(c, now)
      <4>1. PICK c \in Begun : e = EndOfService(c, now)
        BY <3>2
      <4>2. e.of = c /\ e.time = now + day.work[c] /\ c \in Customers /\ day.work[c] \in Nat
        BY <4>1, <1>5, <1>18, <1>22
      <4> QED
        BY <4>2, <1>9, <1>15 DEF Never
    <3> QED
      BY <3>1, <3>2, <1>16
  <2> SUFFICES ASSUME NEW e \in t.heap, e.order # Completion
               PROVE  /\ e.time >= now
                      /\ e.order = BreakEnd =>
                           /\ e.of \in Breaks
                           /\ t.rest[e.of].start # Never
                           /\ e.time = t.rest[e.of].start + day.length[e.of]
                      /\ e.order = Capacity => e.of \in SegmentStarts /\ e.time = e.of
                      /\ e.order = BreakDue => e.of \in Breaks /\ e.time = day.due[e.of]
                      /\ e.order = Arrival => e.of \in Customers /\ e.time = day.arrival[e.of]
    BY <2>1 DEF EventsStand, Completion, BreakEnd, Capacity, BreakDue, Arrival
  <2> QED
    BY <1>1, <1>2, <1>19 DEF EventsStand, Completion, BreakEnd, Capacity, BreakDue, Arrival
<1>25. LineStands(day, t)
  <2>1. ASSUME NEW c \in Customers
        PROVE  /\ ToCome(day, t, c) => t.customer[c].start = Never
               /\ t.customer[c].departed => t.customer[c].start # Never
    <3>1. CASE c \in Begun
      BY <3>1, <1>9, <1>15, <1>20 DEF Never
    <3>2. CASE c \notin Begun
      BY <3>2, <1>1, <1>10, <1>20 DEF LineStands
    <3> QED
      BY <3>1, <3>2
  <2>2. ASSUME NEW i \in DOMAIN t.line
        PROVE  t.customer[t.line[i]].start = Never /\ ~ToCome(day, t, t.line[i])
    <3>1. PICK j \in DOMAIN q : t.line[i] = q[j]
      BY <1>5
    <3>2. q[j] \in Customers \ Begun /\ s.customer[q[j]].start = Never /\ ~ToCome(day, s, q[j])
      BY <3>1, <1>5, <1>14
    <3> QED
      BY <3>1, <3>2, <1>10, <1>20
  <2> QED
    BY <2>1, <2>2, <1>5 DEF LineStands
<1>33. CountersServe(t)
  <2> SUFFICES ASSUME NEW c \in Customers, t.customer[c].start # Never, ~t.customer[c].departed
               PROVE  LET v == t.customer[c].server
                      IN /\ v \in DOMAIN t.server
                         /\ t.server[v].customer = c /\ t.server[v].state \in {"BUSY", "DRAINING"}
    BY DEF CountersServe
  <2>1. CASE c \in Begun
    <3>1. PICK v \in DOMAIN takes :
            takes[v] = c /\ t.customer[c] = [s.customer[c] EXCEPT !.server = v, !.start = now]
      BY <2>1, <1>2, <1>7
    <3>2. t.customer[c].server = v
      BY <3>1, <1>8 DEF Customer
    <3>3. t.server[v] = [state |-> "BUSY", customer |-> c, rest |-> 0]
      BY <3>1, <1>11
    <3>4. t.server[v].customer = c /\ t.server[v].state = "BUSY"
      BY <3>3
    <3>5. v \in DOMAIN t.server
      BY <3>1, <1>3, <1>5, <1>12
    <3> QED
      BY <3>2, <3>4, <3>5
  <2>2. CASE c \notin Begun
    <3>1. t.customer[c] = s.customer[c]
      BY <2>2, <1>10
    <3>2. PICK v \in DOMAIN s.server :
            /\ v = s.customer[c].server
            /\ s.server[v].customer = c /\ s.server[v].state \in {"BUSY", "DRAINING"}
      BY <3>1, <1>1 DEF CountersServe
    <3>3. v \notin DOMAIN takes
      BY <3>2, <1>5 DEF With
    <3>4. v \in DOMAIN t.server /\ t.server[v] = s.server[v]
      BY <3>3, <1>12
    <3> QED
      BY <3>1, <3>2, <3>4
  <2> QED
    BY <2>1, <2>2
<1>26. CountersRest(day, t)
  <2>1. ASSUME NEW v \in DOMAIN t.server
        PROVE  /\ t.server[v].state = "ON_BREAK" <=> t.server[v].rest # 0
               /\ t.server[v].rest # 0 => Underway(day, t, v, t.server[v].rest)
    <3>1. CASE v \in DOMAIN takes
      BY <3>1, <1>13
    <3>2. CASE v \notin DOMAIN takes
      <4>1. v \in DOMAIN s.server /\ t.server[v] = s.server[v]
        BY <3>2, <1>12
      <4>2. /\ s.server[v].state = "ON_BREAK" <=> s.server[v].rest # 0
            /\ s.server[v].rest # 0 => Underway(day, s, v, s.server[v].rest)
        BY <4>1, <1>1 DEF CountersRest
      <4> QED
        BY <4>1, <4>2, <1>2, <1>17 DEF Underway
    <3> QED
      BY <3>1, <3>2
  <2>2. ASSUME NEW b \in Breaks, t.rest[b].start # Never, t.rest[b].outcome = "none"
        PROVE  \E v \in DOMAIN t.server : t.server[v].rest = b
    <3>1. PICK v \in DOMAIN s.server : s.server[v].rest = b
      BY <2>2, <1>1, <1>2 DEF CountersRest
    <3>2. s.server[v].state = "ON_BREAK"
      <4>1. b # 0
        BY ConstantsAssumption DEF Breaks
      <4> QED
        BY <3>1, <4>1, <1>1 DEF CountersRest
    <3>3. v \notin DOMAIN takes
      BY <3>2, <1>5 DEF With
    <3> QED
      BY <3>1, <3>3, <1>12
  <2>3. ASSUME NEW b \in Breaks, t.rest[b].start # Never PROVE t.rest[b].server \in DOMAIN t.server
    BY <2>3, <1>1, <1>2, <1>12 DEF CountersRest
  <2> QED
    BY <2>1, <2>2, <2>3 DEF CountersRest
<1>27. Turn(day, t, now)
  BY <1>1, <1>2, <1>21, SameTurn
<1>28. \A b \in Breaks : Went(day, t.rest[b], b, now)
  BY <1>1, <1>2
<1>29. Accounted(day, t, closed)
  BY <1>1, <1>2, <1>21 DEF Accounted
<1>30. Stands(day, t, now, closed)
  BY <1>1, <1>23, <1>24, <1>25, <1>26, <1>27, <1>28, <1>29, <1>33 DEF Stands
<1>31. (t.line # <<>> => With(t, "IDLE") = {}) /\ With(t, "IDLE") \subseteq With(s, "IDLE")
  <2>1. ASSUME NEW v \in DOMAIN t.server, t.server[v].state = "IDLE"
        PROVE  v \in With(s, "IDLE") \ DOMAIN takes
    <3>1. v \notin DOMAIN takes
      BY <2>1, <1>13
    <3> QED
      BY <2>1, <3>1, <1>12 DEF With
  <2> QED
    BY <2>1, <1>5 DEF With
<1>32. Begin(s, t, Begun)
  <2>1. Begun = Range(SubSeq(q, 1, k))
    <3>1. /\ Len(SubSeq(q, 1, k)) = k
          /\ SubSeq(q, 1, k) \in Seq(Customers)
          /\ \A i \in 1 .. k : SubSeq(q, 1, k)[i] = q[i]
      <4>1. \A i \in 1 .. k : q[i] \in Customers
        BY <1>5, <1>14
      <4>2. k \in Int /\ 1 \in Int
        BY <1>5
      <4>3. /\ SubSeq(q, 1, k) \in Seq(Customers)
            /\ Len(SubSeq(q, 1, k)) = IF 1 <= k THEN k - 1 + 1 ELSE 0
            /\ \A i \in 1 .. k - 1 + 1 : SubSeq(q, 1, k)[i] = q[1 + i - 1]
        BY <4>1, <4>2, SubSeqProperties
      <4> QED
        BY <4>3, <1>5
    <3>2. DOMAIN SubSeq(q, 1, k) = 1 .. k
      BY <3>1, LenProperties
    <3>3. ASSUME NEW p, p = SubSeq(q, 1, k) PROVE Begun = Range(p)
      <4>1. DOMAIN p = 1 .. k /\ \A i \in 1 .. k : p[i] = q[i]
        BY <3>1, <3>2, <3>3
      <4>2. ASSUME NEW x \in Range(p) PROVE x \in Begun
        <5>1. PICK j \in DOMAIN p : x = p[j]
          BY DEF Range
        <5>2. j \in 1 .. k /\ x = q[j]
          BY <4>1, <5>1
        <5> QED
          BY <5>2, <1>5
      <4>3. ASSUME NEW x \in Begun PROVE x \in Range(p)
        <5>1. PICK j \in 1 .. k : x = q[j]
          BY <1>5
        <5>2. j \in DOMAIN p /\ p[j] = x
          BY <4>1, <5>1
        <5> QED
          BY <5>2 DEF Range
      <4> QED
        BY <4>2, <4>3
    <3> QED
      BY <3>3
  <2>2. \A c \in Customers :
          /\ t.customer[c].start # Never <=> s.customer[c].start # Never \/ c \in Begun
          /\ c \in Begun => s.customer[c].start = Never /\ ~s.customer[c].departed
          /\ t.customer[c].departed = s.customer[c].departed
          /\ t.customer[c].unserved = s.customer[c].unserved
    BY <1>9, <1>10, <1>15 DEF Never
  <2> QED
    BY <2>1, <2>2, <1>2, <1>5 DEF Begin
<1> QED
  BY <1>2, <1>17, <1>19, <1>30, <1>31, <1>32 DEF Assigned

-----------------------------------------------------------------------------
(* Services and breaks end, and the staffing changes *)

\* Counters that serve may be told to drain or to go on, those that neither serve nor are on break
\* may open or close, and new ones may be made.
MayChange(s, n, servers) ==
  /\ DOMAIN s.server \subseteq 1 .. n
  /\ servers \in [1 .. n -> Server]
  /\ \A v \in 1 .. n :
       \/ v \in DOMAIN s.server /\ servers[v] = s.server[v]
       \/ /\ v \in DOMAIN s.server
          /\ s.server[v].state \in {"BUSY", "DRAINING"} /\ servers[v].state \in {"BUSY", "DRAINING"}
          /\ servers[v].customer = s.server[v].customer /\ servers[v].rest = s.server[v].rest
       \/ /\ v \in DOMAIN s.server => s.server[v].state \notin {"BUSY", "DRAINING", "ON_BREAK"}
          /\ servers[v].state # "ON_BREAK" /\ servers[v].rest = 0

\* When counters change as they may, all that stands still stands.
LEMMA CountersChange ==
  ASSUME NEW s, NEW now, NEW closed, Stands(day, s, now, closed),
         NEW n \in Nat, NEW servers, MayChange(s, n, servers),
         NEW t, t = [s EXCEPT !.server = servers]
  PROVE  Stands(day, t, now, closed)
<1>1. /\ s \in Sim /\ EventsStand(day, s, now) /\ LineStands(day, s) /\ CountersServe(s)
      /\ CountersRest(day, s)
      /\ Turn(day, s, now) /\ (\A b \in Breaks : Went(day, s.rest[b], b, now))
      /\ Accounted(day, s, closed) /\ day \in Days
  BY DEF Stands
<1>2. /\ t.server = servers /\ t.line = s.line /\ t.pending = s.pending /\ t.customer = s.customer
      /\ t.rest = s.rest /\ t.heap = s.heap
  BY <1>1 DEF Sim
<1>3. t \in Sim
  <2>1. servers \in Seq(Server)
    BY FunctionIsSeq DEF MayChange
  <2> QED
    BY <2>1, <1>1 DEF Sim
<1>4. DOMAIN servers = 1 .. n
  BY DEF MayChange
<1>13. DOMAIN s.server \subseteq 1 .. n
  BY DEF MayChange
<1>14. \A v \in 1 .. n :
         \/ v \in DOMAIN s.server /\ servers[v] = s.server[v]
         \/ /\ v \in DOMAIN s.server
            /\ s.server[v].state \in {"BUSY", "DRAINING"} /\ servers[v].state \in {"BUSY", "DRAINING"}
            /\ servers[v].customer = s.server[v].customer /\ servers[v].rest = s.server[v].rest
         \/ /\ v \in DOMAIN s.server => s.server[v].state \notin {"BUSY", "DRAINING", "ON_BREAK"}
            /\ servers[v].state # "ON_BREAK" /\ servers[v].rest = 0
  BY DEF MayChange
<1>5. CountersServe(t)
  <2> SUFFICES ASSUME NEW c \in Customers, s.customer[c].start # Never, ~s.customer[c].departed
               PROVE  LET v == s.customer[c].server
                      IN /\ v \in 1 .. n
                         /\ servers[v].customer = c /\ servers[v].state \in {"BUSY", "DRAINING"}
    BY <1>2, <1>4 DEF CountersServe
  <2>1. PICK v \in DOMAIN s.server :
          /\ v = s.customer[c].server
          /\ s.server[v].customer = c /\ s.server[v].state \in {"BUSY", "DRAINING"}
    BY <1>1 DEF CountersServe
  <2>2. v \in 1 .. n
    BY <1>13
  <2> QED
    BY <2>1, <2>2, <1>14
<1>6. CountersRest(day, t)
  <2>1. ASSUME NEW v \in 1 .. n
        PROVE  /\ servers[v].state = "ON_BREAK" <=> servers[v].rest # 0
               /\ servers[v].rest # 0 => Underway(day, t, v, servers[v].rest)
    <3>1. v \in DOMAIN s.server =>
            /\ s.server[v].state = "ON_BREAK" <=> s.server[v].rest # 0
            /\ s.server[v].rest # 0 => Underway(day, s, v, s.server[v].rest)
      BY <1>1 DEF CountersRest
    <3>2. CASE v \in DOMAIN s.server /\ servers[v] = s.server[v]
      BY <3>1, <3>2, <1>2 DEF Underway
    <3>3. CASE servers[v].state # "ON_BREAK" /\ servers[v].rest = 0
      BY <3>3
    <3>4. CASE /\ v \in DOMAIN s.server /\ s.server[v].state # "ON_BREAK"
               /\ servers[v].state # "ON_BREAK" /\ servers[v].rest = s.server[v].rest
      BY <3>1, <3>4
    <3> QED
      BY <3>2, <3>3, <3>4, <1>14
  <2>2. ASSUME NEW b \in Breaks, s.rest[b].start # Never, s.rest[b].outcome = "none"
        PROVE  \E v \in 1 .. n : servers[v].rest = b
    <3>1. PICK v \in DOMAIN s.server : s.server[v].rest = b
      BY <2>2, <1>1 DEF CountersRest
    <3>2. s.server[v].state = "ON_BREAK"
      <4>1. b # 0
        BY ConstantsAssumption DEF Breaks
      <4> QED
        BY <3>1, <4>1, <1>1 DEF CountersRest
    <3>3. v \in 1 .. n /\ servers[v].rest = b
      BY <3>1, <3>2, <1>13, <1>14
    <3> QED
      BY <3>3
  <2>3. ASSUME NEW b \in Breaks, s.rest[b].start # Never PROVE s.rest[b].server \in 1 .. n
    BY <2>3, <1>1, <1>13 DEF CountersRest
  <2> QED
    BY <2>1, <2>2, <2>3, <1>2, <1>4 DEF CountersRest
<1>7. \A c \in Customers : ToCome(day, t, c) <=> ToCome(day, s, c)
  BY <1>2 DEF ToCome
<1>8. \A b \in Breaks : ToBeDue(day, t, b) <=> ToBeDue(day, s, b)
  BY <1>2 DEF ToBeDue
<1>9. EventsStand(day, t, now)
  BY <1>1, <1>2 DEF EventsStand
<1>10. LineStands(day, t)
  BY <1>1, <1>2, <1>7, SameLine
<1>11. Turn(day, t, now)
  BY <1>1, <1>2, <1>8, SameTurn
<1>12. Accounted(day, t, closed)
  BY <1>1, <1>2, <1>8 DEF Accounted
<1> QED
  BY <1>1, <1>2, <1>3, <1>5, <1>6, <1>9, <1>10, <1>11, <1>12 DEF Stands

\* The customers C leave.
Leave(s, t, C) ==
  /\ t.line = s.line /\ t.pending = s.pending /\ t.rest = s.rest /\ t.heap = s.heap
  /\ \A c \in Customers :
       /\ t.customer[c].start = s.customer[c].start
       /\ t.customer[c].unserved = s.customer[c].unserved
       /\ t.customer[c].departed <=> s.customer[c].departed \/ c \in C

\* t is s after the services of C, at the counters freed, have ended.
ServicesEnded(s, t, C, freed) ==
  /\ t = [server |-> t.server, line |-> s.line, pending |-> s.pending,
          customer |-> t.customer, rest |-> s.rest, heap |-> s.heap]
  /\ t.line = s.line /\ t.pending = s.pending /\ t.rest = s.rest /\ t.heap = s.heap
  /\ t.customer = [c \in Customers |->
       IF c \in C THEN [s.customer[c] EXCEPT !.departed = TRUE] ELSE s.customer[c]]
  /\ t.server = [v \in DOMAIN s.server |->
       IF v \notin freed THEN s.server[v]
       ELSE IF s.server[v].state = "DRAINING" THEN Closed ELSE Idle]

\* The fields Complete leaves and changes.
LEMMA CompleteFields ==
  ASSUME NEW s \in Sim, NEW C
  PROVE  ServicesEnded(s, Complete(s, C), C, {s.customer[c].server : c \in C})
<1> DEFINE freed == {s.customer[c].server : c \in C}
           t == Complete(s, C)
<1>1. t = [s EXCEPT
        !.customer = [c \in Customers |-> IF c \in C THEN [@[c] EXCEPT !.departed = TRUE] ELSE @[c]],
        !.server = [v \in DOMAIN @ |->
           IF v \notin freed THEN @[v]
           ELSE IF @[v].state = "DRAINING" THEN Closed ELSE Idle]]
  BY DEF Complete
<1> HIDE DEF freed, t
<1>2. ServicesEnded(s, t, C, freed)
  BY <1>1 DEF Sim, ServicesEnded
<1> QED
  BY <1>2 DEF freed, t

\* Closed and Idle are counters with nobody and no break.
LEMMA FreeCounters ==
  /\ Closed \in Server /\ Closed.state = "CLOSED" /\ Closed.rest = 0 /\ Closed.customer = 0
  /\ Idle \in Server /\ Idle.state = "IDLE" /\ Idle.rest = 0 /\ Idle.customer = 0
BY DEF Closed, Idle, Server

\* When customers whose service is to end leave, all that stands still stands.
LEMMA CompleteKeeps ==
  ASSUME NEW s, NEW now, NEW closed, Stands(day, s, now, closed),
         NEW C, C \subseteq Customers,
         \A c \in C : s.customer[c].start # Never /\ ~s.customer[c].departed,
         \A e \in s.heap : e.order = Completion => e.of \notin C,
         NEW t, t = Complete(s, C)
  PROVE  Stands(day, t, now, closed) /\ Leave(s, t, C)
<1> SUFFICES ASSUME NEW freed, freed = {s.customer[c].server : c \in C}
             PROVE  Stands(day, t, now, closed) /\ Leave(s, t, C)
  OBVIOUS
<1>1. /\ s \in Sim /\ EventsStand(day, s, now) /\ LineStands(day, s) /\ CountersServe(s)
      /\ CountersRest(day, s)
      /\ Turn(day, s, now) /\ (\A b \in Breaks : Went(day, s.rest[b], b, now))
      /\ Accounted(day, s, closed) /\ day \in Days
  BY DEF Stands
<1>2. /\ t = [server |-> t.server, line |-> s.line, pending |-> s.pending,
              customer |-> t.customer, rest |-> s.rest, heap |-> s.heap]
      /\ t.line = s.line /\ t.pending = s.pending /\ t.rest = s.rest /\ t.heap = s.heap
      /\ t.customer = [c \in Customers |->
           IF c \in C THEN [s.customer[c] EXCEPT !.departed = TRUE] ELSE s.customer[c]]
      /\ t.server = [v \in DOMAIN s.server |->
           IF v \notin freed THEN s.server[v]
           ELSE IF s.server[v].state = "DRAINING" THEN Closed ELSE Idle]
  <2>1. ServicesEnded(s, t, C, freed)
    BY <1>1, CompleteFields
  <2> QED
    BY <2>1 DEF ServicesEnded
<1>3. /\ Len(s.server) \in Nat /\ DOMAIN s.server = 1 .. Len(s.server)
      /\ \A v \in DOMAIN s.server : s.server[v] \in Server
  BY <1>1, CountersAreNumbers
<1>4. \A c \in Customers : s.customer[c] \in Customer
  BY <1>1 DEF Sim
<1>5. \A c \in Customers :
        /\ t.customer[c] \in Customer
        /\ t.customer[c].start = s.customer[c].start
        /\ t.customer[c].server = s.customer[c].server
        /\ t.customer[c].unserved = s.customer[c].unserved
        /\ t.customer[c].departed <=> s.customer[c].departed \/ c \in C
  <2> SUFFICES ASSUME NEW c \in Customers
               PROVE  /\ t.customer[c] \in Customer
                      /\ t.customer[c].start = s.customer[c].start
                      /\ t.customer[c].server = s.customer[c].server
                      /\ t.customer[c].unserved = s.customer[c].unserved
                      /\ t.customer[c].departed <=> s.customer[c].departed \/ c \in C
    OBVIOUS
  <2>1. s.customer[c] \in Customer
    BY <1>4
  <2>2. CASE c \in C
    <3>1. t.customer[c] = [s.customer[c] EXCEPT !.departed = TRUE]
      BY <2>2, <1>2
    <3> QED
      BY <2>1, <2>2, <3>1 DEF Customer
  <2>3. CASE c \notin C
    <3>1. t.customer[c] = s.customer[c]
      BY <2>3, <1>2
    <3> QED
      BY <2>1, <2>3, <3>1
  <2> QED
    BY <2>2, <2>3
<1>6. \A v \in freed : v \in DOMAIN s.server /\ s.server[v].state \in {"BUSY", "DRAINING"}
  BY <1>1 DEF CountersServe
<1>7. \A v \in freed : t.server[v] \in {Closed, Idle}
  BY <1>2, <1>6
<1>8. DOMAIN t.server = DOMAIN s.server /\ \A v \in DOMAIN s.server \ freed : t.server[v] = s.server[v]
  BY <1>2
<1>9. t \in Sim
  <2>1. \A v \in DOMAIN s.server : t.server[v] \in Server
    BY <1>3, <1>7, <1>8, FreeCounters
  <2>2. t.server \in [1 .. Len(s.server) -> Server]
    BY <2>1, <1>2, <1>3
  <2>3. t.server \in Seq(Server)
    BY <2>2, <1>3, FunctionIsSeq
  <2>4. t.customer \in [Customers -> Customer]
    BY <1>2, <1>5
  <2> QED
    BY <2>3, <2>4, <1>1, <1>2 DEF Sim
<1>10. \A c \in Customers : ToCome(day, t, c) <=> ToCome(day, s, c)
  BY <1>2 DEF ToCome
<1>11. \A b \in Breaks : ToBeDue(day, t, b) <=> ToBeDue(day, s, b)
  BY <1>2 DEF ToBeDue
<1>12. EventsStand(day, t, now)
  BY <1>1, <1>2, <1>5 DEF EventsStand
<1>13. LineStands(day, t)
  <2>1. \A i \in DOMAIN s.line : s.line[i] \in Customers
    BY <1>1, ElementOfSeq, LenProperties DEF Sim
  <2>2. \A i \in DOMAIN t.line : t.customer[t.line[i]].start = Never /\ ~ToCome(day, t, t.line[i])
    BY <2>1, <1>1, <1>2, <1>5, <1>10 DEF LineStands
  <2>3. \A c \in Customers :
          /\ ToCome(day, t, c) => t.customer[c].start = Never
          /\ t.customer[c].departed => t.customer[c].start # Never
    BY <1>1, <1>5, <1>10 DEF LineStands
  <2> QED
    BY <2>2, <2>3, <1>1, <1>2 DEF LineStands
<1>14. CountersServe(t)
  <2> SUFFICES ASSUME NEW c \in Customers, s.customer[c].start # Never, ~s.customer[c].departed, c \notin C
               PROVE  LET v == s.customer[c].server
                      IN /\ v \in DOMAIN t.server
                         /\ t.server[v].customer = c /\ t.server[v].state \in {"BUSY", "DRAINING"}
    BY <1>5 DEF CountersServe
  <2>1. PICK v \in DOMAIN s.server :
          /\ v = s.customer[c].server
          /\ s.server[v].customer = c /\ s.server[v].state \in {"BUSY", "DRAINING"}
    BY <1>1 DEF CountersServe
  <2>2. v \notin freed
    <3> SUFFICES ASSUME NEW a \in C, v = s.customer[a].server PROVE FALSE
      OBVIOUS
    <3>1. s.server[v].customer = a
      BY <1>1 DEF CountersServe
    <3> QED
      BY <3>1, <2>1
  <2>3. v \in DOMAIN t.server /\ t.server[v] = s.server[v]
    BY <2>2, <1>8
  <2> QED
    BY <2>1, <2>3
<1>15. CountersRest(day, t)
  <2>1. ASSUME NEW v \in DOMAIN t.server
        PROVE  /\ t.server[v].state = "ON_BREAK" <=> t.server[v].rest # 0
               /\ t.server[v].rest # 0 => Underway(day, t, v, t.server[v].rest)
    <3>1. CASE v \in freed
      BY <3>1, <1>7, FreeCounters
    <3>2. CASE v \notin freed
      <4>1. v \in DOMAIN s.server /\ t.server[v] = s.server[v]
        BY <3>2, <1>8
      <4>2. /\ s.server[v].state = "ON_BREAK" <=> s.server[v].rest # 0
            /\ s.server[v].rest # 0 => Underway(day, s, v, s.server[v].rest)
        BY <4>1, <1>1 DEF CountersRest
      <4> QED
        BY <4>1, <4>2, <1>2 DEF Underway
    <3> QED
      BY <3>1, <3>2
  <2>2. ASSUME NEW b \in Breaks, t.rest[b].start # Never, t.rest[b].outcome = "none"
        PROVE  \E v \in DOMAIN t.server : t.server[v].rest = b
    <3>1. PICK v \in DOMAIN s.server : s.server[v].rest = b
      BY <2>2, <1>1, <1>2 DEF CountersRest
    <3>2. s.server[v].state = "ON_BREAK"
      <4>1. b # 0
        BY ConstantsAssumption DEF Breaks
      <4> QED
        BY <3>1, <4>1, <1>1 DEF CountersRest
    <3>3. v \notin freed
      BY <3>2, <1>6
    <3> QED
      BY <3>1, <3>3, <1>8
  <2>3. ASSUME NEW b \in Breaks, t.rest[b].start # Never PROVE t.rest[b].server \in DOMAIN t.server
    BY <2>3, <1>1, <1>2, <1>8 DEF CountersRest
  <2> QED
    BY <2>1, <2>2, <2>3 DEF CountersRest
<1>16. Turn(day, t, now)
  BY <1>1, <1>2, <1>11, SameTurn
<1>17. Accounted(day, t, closed)
  BY <1>1, <1>2, <1>11 DEF Accounted
<1>18. Leave(s, t, C)
  BY <1>2, <1>5 DEF Leave
<1> QED
  BY <1>1, <1>2, <1>9, <1>12, <1>13, <1>14, <1>15, <1>16, <1>17, <1>18 DEF Stands

\* t is s after the breaks of the counters V have ended, with an outcome.
BreaksEnded(s, t, V, now, outcome) ==
  /\ t = [server |-> t.server, line |-> s.line, pending |-> s.pending,
          customer |-> s.customer, rest |-> t.rest, heap |-> s.heap]
  /\ t.line = s.line /\ t.pending = s.pending /\ t.customer = s.customer /\ t.heap = s.heap
  /\ t.server = [v \in DOMAIN s.server |->
       IF v \in V THEN (IF outcome = "completed" THEN Idle ELSE Closed) ELSE s.server[v]]
  /\ t.rest = [b \in Breaks |->
       IF \E v \in V : s.server[v].rest = b
         THEN [s.rest[b] EXCEPT !.finish = now, !.outcome = outcome] ELSE s.rest[b]]

\* The fields EndBreaks leaves and changes.
LEMMA EndBreaksFields ==
  ASSUME NEW s \in Sim, NEW V, NEW now, NEW outcome
  PROVE  BreaksEnded(s, EndBreaks(s, V, now, outcome), V, now, outcome)
<1> SUFFICES ASSUME NEW t, t = EndBreaks(s, V, now, outcome)
             PROVE  BreaksEnded(s, t, V, now, outcome)
  OBVIOUS
<1>1. t = [s EXCEPT
        !.server = [v \in DOMAIN @ |->
           IF v \in V THEN (IF outcome = "completed" THEN Idle ELSE Closed) ELSE @[v]],
        !.rest = [b \in Breaks |->
           IF \E v \in V : s.server[v].rest = b
             THEN [@[b] EXCEPT !.finish = now, !.outcome = outcome] ELSE @[b]]]
  BY DEF EndBreaks
<1> QED
  BY <1>1 DEF Sim, BreaksEnded

\* Break b is the one of counter v, whether or not its end is still to come.
OnBreak(s, v, b) ==
  s.rest[b].server = v /\ s.rest[b].start # Never /\ s.rest[b].outcome = "none"

\* The counters V are on break, and their breaks may end now with this outcome; the end of every
\* other break is still to come.
MayEnd(d, s, V, now, outcome) ==
  /\ V \subseteq DOMAIN s.server
  /\ \A v \in DOMAIN s.server :
       /\ s.server[v].state = "ON_BREAK" <=> s.server[v].rest # 0
       /\ s.server[v].rest # 0 => OnBreak(s, v, s.server[v].rest)
       /\ s.server[v].rest # 0 /\ v \notin V => Underway(d, s, v, s.server[v].rest)
  /\ \A v \in V :
       LET b == s.server[v].rest
           over == s.rest[b].start + d.length[b]
       IN /\ b # 0
          /\ IF outcome = "completed" THEN now = over ELSE now <= over /\ now <= Closing
  /\ \A b \in Breaks :
       s.rest[b].start # Never /\ s.rest[b].outcome = "none" =>
         \E v \in DOMAIN s.server : s.server[v].rest = b
  /\ \A b \in Breaks : s.rest[b].start # Never => s.rest[b].server \in DOMAIN s.server

\* When breaks end at the time they should, or are cut short, all that stands still stands.  The
\* breaks ended need no event in the heap: it may have been the one popped.
LEMMA EndBreaksKeeps ==
  ASSUME NEW s \in Sim, NEW now \in Nat, day \in Days,
         EventsStand(day, s, now), LineStands(day, s), CountersServe(s), Turn(day, s, now),
         \A b \in Breaks : Went(day, s.rest[b], b, now), Accounted(day, s, FALSE),
         NEW V, NEW outcome \in {"completed", "staffing_change", "truncated_by_closing"},
         MayEnd(day, s, V, now, outcome),
         NEW t, t = EndBreaks(s, V, now, outcome)
  PROVE  /\ Stands(day, t, now, FALSE)
         /\ BreaksEnded(s, t, V, now, outcome)
<1>1. BreaksEnded(s, t, V, now, outcome)
  BY EndBreaksFields
<1>2. /\ t = [server |-> t.server, line |-> s.line, pending |-> s.pending,
              customer |-> s.customer, rest |-> t.rest, heap |-> s.heap]
      /\ t.line = s.line /\ t.pending = s.pending /\ t.customer = s.customer /\ t.heap = s.heap
      /\ t.server = [v \in DOMAIN s.server |->
           IF v \in V THEN (IF outcome = "completed" THEN Idle ELSE Closed) ELSE s.server[v]]
      /\ t.rest = [b \in Breaks |->
           IF \E v \in V : s.server[v].rest = b
             THEN [s.rest[b] EXCEPT !.finish = now, !.outcome = outcome] ELSE s.rest[b]]
  BY <1>1 DEF BreaksEnded
<1> SUFFICES ASSUME NEW Ended, Ended = {b \in Breaks : \E v \in V : s.server[v].rest = b}
             PROVE  Stands(day, t, now, FALSE)
  BY <1>1
<1>3. /\ Len(s.server) \in Nat /\ DOMAIN s.server = 1 .. Len(s.server)
      /\ \A v \in DOMAIN s.server : s.server[v] \in Server
  BY CountersAreNumbers
<1>4. \A b \in Breaks : s.rest[b] \in Rest
  BY DEF Sim
<1>23. /\ V \subseteq DOMAIN s.server
       /\ \A v \in V : s.server[v].rest # 0 /\ s.server[v].state = "ON_BREAK"
  BY DEF MayEnd
<1>24. \A v \in DOMAIN s.server :
         /\ s.server[v].state = "ON_BREAK" <=> s.server[v].rest # 0
         /\ s.server[v].rest # 0 => OnBreak(s, v, s.server[v].rest)
         /\ s.server[v].rest # 0 /\ v \notin V => Underway(day, s, v, s.server[v].rest)
  BY DEF MayEnd
<1>5. \A v \in V : s.server[v].rest \in Ended
  <2> SUFFICES ASSUME NEW v \in V PROVE s.server[v].rest \in Ended
    OBVIOUS
  <2>1. s.server[v] \in Server /\ s.server[v].rest # 0
    BY <1>3, <1>23
  <2>2. s.server[v].rest \in Breaks
    BY <2>1 DEF Server
  <2> QED
    BY <2>2
<1>6. \A b \in Ended : b \in Breaks /\ \E v \in V : s.server[v].rest = b
  OBVIOUS
<1>7. ASSUME NEW b \in Ended
      PROVE  /\ t.rest[b] \in Rest /\ t.rest[b].server = s.rest[b].server
             /\ t.rest[b].start = s.rest[b].start /\ t.rest[b].start # Never
             /\ t.rest[b].finish = now /\ t.rest[b].outcome = outcome
             /\ IF outcome = "completed" THEN now = s.rest[b].start + day.length[b]
                ELSE now <= s.rest[b].start + day.length[b] /\ now <= Closing
  <2>1. PICK v \in V : s.server[v].rest = b
    BY <1>6
  <2>2. OnBreak(s, v, b)
    BY <2>1, <1>23, <1>24
  <2>3. b \in Breaks /\ s.rest[b] \in Rest
    BY <1>4, <1>6
  <2>4. t.rest[b] = [s.rest[b] EXCEPT !.finish = now, !.outcome = outcome]
    BY <1>2, <2>1, <2>3
  <2>5. outcome \in Outcomes
    BY DEF Outcomes
  <2>6. /\ t.rest[b] \in Rest /\ t.rest[b].server = s.rest[b].server
        /\ t.rest[b].start = s.rest[b].start
        /\ t.rest[b].finish = now /\ t.rest[b].outcome = outcome
    BY <2>3, <2>4, <2>5 DEF Rest
  <2> QED
    BY <2>1, <2>2, <2>6 DEF OnBreak, MayEnd
<1>8. \A b \in Breaks \ Ended : t.rest[b] = s.rest[b]
  BY <1>2
<1>9. \A v \in V : t.server[v] \in {Closed, Idle}
  BY <1>2, <1>23
<1>10. DOMAIN t.server = DOMAIN s.server /\ \A v \in DOMAIN s.server \ V : t.server[v] = s.server[v]
  BY <1>2
<1>11. t \in Sim
  <2>1. \A v \in DOMAIN s.server : t.server[v] \in Server
    BY <1>3, <1>9, <1>10, FreeCounters
  <2>2. t.server \in [1 .. Len(s.server) -> Server]
    BY <2>1, <1>2, <1>3
  <2>3. t.server \in Seq(Server)
    BY <2>2, <1>3, FunctionIsSeq
  <2>4. t.rest \in [Breaks -> Rest]
    BY <1>2, <1>4, <1>7, <1>8
  <2> QED
    BY <2>3, <2>4, <1>2 DEF Sim
<1>12. \A b \in Breaks : t.rest[b].start = s.rest[b].start
  BY <1>7, <1>8
<1>13. \A b \in Ended : s.rest[b].start # Never
  BY <1>7
<1>14. \A c \in Customers : ToCome(day, t, c) <=> ToCome(day, s, c)
  BY <1>2 DEF ToCome
<1>15. \A b \in Breaks : ToBeDue(day, t, b) <=> ToBeDue(day, s, b)
  BY <1>2 DEF ToBeDue
<1>25. t.line = s.line /\ t.pending = s.pending /\ t.customer = s.customer /\ t.heap = s.heap
  BY <1>2
<1>16. EventsStand(day, t, now)
  BY <1>12, <1>25, SameEvents
<1>17. LineStands(day, t)
  BY <1>2, <1>14, SameLine
<1>18. CountersServe(t)
  <2>1. ASSUME NEW v \in DOMAIN s.server, s.server[v].state \in {"BUSY", "DRAINING"}
        PROVE  v \in DOMAIN t.server /\ t.server[v] = s.server[v]
    <3>1. v \notin V
      BY <2>1, <1>23
    <3> QED
      BY <3>1, <1>10
  <2> QED
    BY <2>1, <1>25, SameService
<1>19. CountersRest(day, t)
  <2>1. ASSUME NEW v \in DOMAIN t.server
        PROVE  /\ t.server[v].state = "ON_BREAK" <=> t.server[v].rest # 0
               /\ t.server[v].rest # 0 => Underway(day, t, v, t.server[v].rest)
    <3>1. CASE v \in V
      BY <3>1, <1>9, FreeCounters
    <3>2. CASE v \notin V
      <4>1. v \in DOMAIN s.server /\ t.server[v] = s.server[v]
        BY <3>2, <1>10
      <4>2. ASSUME s.server[v].rest # 0 PROVE Underway(day, t, v, s.server[v].rest)
        <5> SUFFICES ASSUME NEW b, b = s.server[v].rest PROVE Underway(day, t, v, b)
          OBVIOUS
        <5>1. Underway(day, s, v, b)
          BY <3>2, <4>1, <4>2, <1>24
        <5>2. b \notin Ended
          <6> SUFFICES ASSUME NEW u \in V, s.server[u].rest = b PROVE FALSE
            BY <1>6
          <6>1. OnBreak(s, u, b)
            BY <4>2, <1>23, <1>24
          <6>2. u = v
            BY <5>1, <6>1 DEF OnBreak, Underway
          <6> QED
            BY <6>2, <3>2
        <5>3. b \in Breaks
          BY <4>1, <4>2, <1>3 DEF Server
        <5>4. t.rest[b] = s.rest[b]
          BY <5>2, <5>3, <1>8
        <5> QED
          BY <5>1, <5>4, <1>2 DEF Underway
      <4> QED
        BY <4>1, <4>2, <1>24
    <3> QED
      BY <3>1, <3>2
  <2>2. ASSUME NEW b \in Breaks, t.rest[b].start # Never, t.rest[b].outcome = "none"
        PROVE  \E v \in DOMAIN t.server : t.server[v].rest = b
    <3>1. b \notin Ended
      BY <2>2, <1>7
    <3>2. PICK v \in DOMAIN s.server : s.server[v].rest = b
      BY <3>1, <2>2, <1>8 DEF MayEnd
    <3>3. v \notin V
      BY <3>1, <3>2, <1>5
    <3> QED
      BY <3>2, <3>3, <1>10
  <2>3. ASSUME NEW b \in Breaks, t.rest[b].start # Never PROVE t.rest[b].server \in DOMAIN t.server
    <3>1. t.rest[b].server = s.rest[b].server /\ s.rest[b].start # Never
      BY <2>3, <1>7, <1>8
    <3> QED
      BY <3>1, <1>2 DEF MayEnd
  <2> QED
    BY <2>1, <2>2, <2>3 DEF CountersRest
<1>20. Turn(day, t, now)
  <2>1. \A i \in DOMAIN s.pending : s.pending[i] \in Breaks
    BY ElementOfSeq, LenProperties DEF Sim
  <2>2. ASSUME NEW i \in DOMAIN t.pending
        PROVE  LET b == t.pending[i]
               IN /\ t.rest[b].start = Never /\ t.rest[b].outcome = "none"
                  /\ day.due[b] <= now /\ ~ToBeDue(day, t, b)
    <3>1. LET b == s.pending[i]
          IN /\ s.rest[b].start = Never /\ s.rest[b].outcome = "none"
             /\ day.due[b] <= now /\ ~ToBeDue(day, s, b)
      BY <1>2 DEF Turn
    <3>2. s.pending[i] \in Breaks \ Ended
      BY <2>1, <3>1, <1>2, <1>13
    <3>3. t.rest[s.pending[i]] = s.rest[s.pending[i]]
      BY <3>2, <1>8
    <3> QED
      BY <3>1, <3>2, <3>3, <1>2, <1>15
  <2>3. ASSUME NEW b \in Breaks, ToBeDue(day, t, b)
        PROVE  t.rest[b].start = Never /\ t.rest[b].outcome = "none"
    <3>1. s.rest[b].start = Never /\ s.rest[b].outcome = "none"
      BY <2>3, <1>15 DEF Turn
    <3>2. b \notin Ended
      BY <3>1, <1>13
    <3> QED
      BY <3>1, <3>2, <1>8
  <2>4. \A a, b \in Breaks : a < b /\ ToBeDue(day, t, a) => ToBeDue(day, t, b)
    BY <1>15 DEF Turn
  <2>5. \A a, b \in Breaks :
          a < b /\ t.rest[b].start # Never =>
            t.rest[a].start # Never /\ t.rest[a].start <= t.rest[b].start
    BY <1>12 DEF Turn
  <2>6. Increasing(t.pending)
    BY <1>2 DEF Turn
  <2> QED
    BY <2>2, <2>3, <2>4, <2>5, <2>6 DEF Turn
<1>21. \A b \in Breaks : Went(day, t.rest[b], b, now)
  <2> SUFFICES ASSUME NEW b \in Breaks PROVE Went(day, t.rest[b], b, now)
    OBVIOUS
  <2>1. CASE b \in Ended
    <3>1. Went(day, s.rest[b], b, now)
      OBVIOUS
    <3> QED
      BY <2>1, <3>1, <1>7 DEF Went
  <2>2. CASE b \notin Ended
    BY <2>2, <1>8
  <2> QED
    BY <2>1, <2>2
<1>22. Accounted(day, t, FALSE)
  BY <1>2, <1>12, <1>15 DEF Accounted
<1> QED
  BY <1>11, <1>16, <1>17, <1>18, <1>19, <1>20, <1>21, <1>22 DEF Stands

\* Breaks may be cut short at any time before closing.
LEMMA BreaksMayBeCut ==
  ASSUME NEW s, NEW now \in Nat, now <= Closing, Stands(day, s, now, FALSE),
         NEW V, V \subseteq With(s, "ON_BREAK"), NEW outcome, outcome # "completed"
  PROVE  MayEnd(day, s, V, now, outcome)
<1>1. s \in Sim /\ EventsStand(day, s, now) /\ CountersRest(day, s) /\ day \in Days
  BY DEF Stands
<1>2. \A v \in DOMAIN s.server : s.server[v] \in Server
  BY <1>1, CountersAreNumbers
<1>3. V \subseteq DOMAIN s.server /\ \A v \in V : s.server[v].state = "ON_BREAK"
  BY DEF With
<1>4. \A v \in DOMAIN s.server :
        /\ s.server[v].state = "ON_BREAK" <=> s.server[v].rest # 0
        /\ s.server[v].rest # 0 => Underway(day, s, v, s.server[v].rest)
  BY <1>1 DEF CountersRest
<1>5. ASSUME NEW v \in V, NEW b, b = s.server[v].rest
      PROVE  b # 0 /\ now <= s.rest[b].start + day.length[b]
  <2>1. b # 0 /\ Underway(day, s, v, b)
    BY <1>3, <1>4, <1>5
  <2>2. At(s.rest[b].start + day.length[b], BreakEnd, b) \in s.heap
    BY <2>1 DEF Underway
  <2>3. At(s.rest[b].start + day.length[b], BreakEnd, b).time >= now
    BY <2>2, <1>1 DEF EventsStand
  <2>4. At(s.rest[b].start + day.length[b], BreakEnd, b).time = s.rest[b].start + day.length[b]
    BY EventParts
  <2>5. b \in Breaks
    BY <1>3, <2>1, <1>5, <1>2 DEF Server
  <2>6. s.rest[b].start \in Int /\ day.length[b] \in Int
    <3>1. s.rest[b] \in Rest
      BY <2>5, <1>1 DEF Sim
    <3>2. day.length[b] \in Nat
      BY <2>5, <1>1, ConstantsAssumption DEF Days, Schedules
    <3> QED
      BY <3>1, <3>2 DEF Rest, Never
  <2> QED
    BY <2>1, <2>3, <2>4, <2>6
<1>6. \A v \in DOMAIN s.server : s.server[v].rest # 0 => OnBreak(s, v, s.server[v].rest)
  BY <1>4 DEF OnBreak, Underway
<1>7. \A b \in Breaks :
        s.rest[b].start # Never /\ s.rest[b].outcome = "none" =>
          \E v \in DOMAIN s.server : s.server[v].rest = b
  BY <1>1 DEF CountersRest
<1>8. \A b \in Breaks : s.rest[b].start # Never => s.rest[b].server \in DOMAIN s.server
  BY <1>1 DEF CountersRest
<1> QED
  BY <1>3, <1>4, <1>5, <1>6, <1>7, <1>8 DEF MayEnd

\* What staffing and closing leave alone.
SameButCounters(s, t) ==
  t.line = s.line /\ t.pending = s.pending /\ t.customer = s.customer /\ t.heap = s.heap

\* When fewer counters are staffed, all that stands still stands.
LEMMA DecreaseKeeps ==
  ASSUME NEW s, NEW now \in Nat, now <= Closing, Stands(day, s, now, FALSE), NEW excess,
         NEW t, t = Decrease(s, excess, now)
  PROVE  Stands(day, t, now, FALSE) /\ SameButCounters(s, t)
<1> SUFFICES ASSUME NEW released,
                    released = {v \in Staffed(s) :
                      Cardinality({u \in Staffed(s) : ReleasedBefore(s, u, v)}) <= excess},
                    NEW V, V = released \cap With(s, "ON_BREAK"),
                    NEW ended, ended = EndBreaks(s, V, now, "staffing_change")
             PROVE  Stands(day, t, now, FALSE) /\ SameButCounters(s, t)
  OBVIOUS
<1>1. /\ s \in Sim /\ EventsStand(day, s, now) /\ LineStands(day, s) /\ CountersServe(s)
      /\ CountersRest(day, s)
      /\ Turn(day, s, now) /\ (\A b \in Breaks : Went(day, s.rest[b], b, now))
      /\ Accounted(day, s, FALSE) /\ day \in Days
  BY DEF Stands
<1>2. /\ Len(s.server) \in Nat /\ DOMAIN s.server = 1 .. Len(s.server)
      /\ \A v \in DOMAIN s.server : s.server[v] \in Server
  BY <1>1, CountersAreNumbers
<1>3. released \subseteq DOMAIN s.server
  BY DEF Staffed, With
<1>4. \A v \in released : s.server[v].state \in {"IDLE", "BUSY", "ON_BREAK"}
  BY DEF Staffed, With
<1>5. MayEnd(day, s, V, now, "staffing_change")
  <2>1. V \subseteq With(s, "ON_BREAK")
    OBVIOUS
  <2> QED
    BY <2>1, BreaksMayBeCut
<1>6. Stands(day, ended, now, FALSE) /\ BreaksEnded(s, ended, V, now, "staffing_change")
  BY <1>1, <1>5, EndBreaksKeeps
<1>7. /\ ended.line = s.line /\ ended.pending = s.pending /\ ended.customer = s.customer
      /\ ended.heap = s.heap
      /\ ended.server = [v \in DOMAIN s.server |-> IF v \in V THEN Closed ELSE s.server[v]]
  BY <1>6 DEF BreaksEnded
<1> DEFINE servers == [v \in DOMAIN ended.server |->
             IF v \in released
               THEN IF ended.server[v].state = "BUSY" THEN [ended.server[v] EXCEPT !.state = "DRAINING"] ELSE Closed
               ELSE ended.server[v]]
<1>8. t = [ended EXCEPT !.server = servers]
  BY DEF Decrease
<1>9. ended \in Sim
  BY <1>6 DEF Stands
<1>10. DOMAIN ended.server = 1 .. Len(s.server) /\ \A v \in 1 .. Len(s.server) : ended.server[v] \in Server
  BY <1>2, <1>7, FreeCounters
<1>11. ASSUME NEW v \in 1 .. Len(s.server)
       PROVE  /\ servers[v] \in Server
              /\ \/ v \in DOMAIN ended.server /\ servers[v] = ended.server[v]
                 \/ /\ v \in DOMAIN ended.server
                    /\ ended.server[v].state \in {"BUSY", "DRAINING"} /\ servers[v].state \in {"BUSY", "DRAINING"}
                    /\ servers[v].customer = ended.server[v].customer /\ servers[v].rest = ended.server[v].rest
                 \/ /\ v \in DOMAIN ended.server => ended.server[v].state \notin {"BUSY", "DRAINING", "ON_BREAK"}
                    /\ servers[v].state # "ON_BREAK" /\ servers[v].rest = 0
  <2>1. v \in DOMAIN ended.server /\ ended.server[v] \in Server
    BY <1>10
  <2>2. CASE v \notin released
    <3>1. servers[v] = ended.server[v]
      BY <2>1, <2>2
    <3> QED
      BY <2>1, <3>1
  <2>3. CASE v \in released /\ ended.server[v].state = "BUSY"
    <3>1. servers[v] = [ended.server[v] EXCEPT !.state = "DRAINING"]
      BY <2>1, <2>3
    <3>2. /\ servers[v] \in Server /\ servers[v].state = "DRAINING"
          /\ servers[v].customer = ended.server[v].customer /\ servers[v].rest = ended.server[v].rest
      BY <2>1, <3>1 DEF Server
    <3> QED
      BY <2>1, <2>3, <3>2
  <2>4. CASE v \in released /\ ended.server[v].state # "BUSY"
    <3>1. servers[v] = Closed
      BY <2>1, <2>4
    <3>2. ended.server[v].state \notin {"BUSY", "DRAINING", "ON_BREAK"}
      <4>1. CASE v \in V
        BY <4>1, <1>7, <1>2, FreeCounters
      <4>2. CASE v \notin V
        <5>1. ended.server[v] = s.server[v]
          BY <4>2, <1>2, <1>7
        <5>2. s.server[v].state # "ON_BREAK"
          BY <4>2, <2>4, <1>2 DEF With
        <5> QED
          BY <5>1, <5>2, <2>4, <1>4
      <4> QED
        BY <4>1, <4>2
    <3> QED
      BY <3>1, <3>2, FreeCounters
  <2> QED
    BY <2>2, <2>3, <2>4
<1>12. servers \in [1 .. Len(s.server) -> Server]
  BY <1>10, <1>11
<1> HIDE DEF servers
<1>13. Stands(day, t, now, FALSE)
  <2>1. MayChange(ended, Len(s.server), servers)
    BY <1>10, <1>11, <1>12 DEF MayChange
  <2> QED
    BY <2>1, <1>2, <1>6, <1>8, CountersChange
<1>14. SameButCounters(s, t)
  BY <1>7, <1>8, <1>9 DEF Sim, SameButCounters
<1> QED
  BY <1>13, <1>14

\* The first few of a set of numbers are not more than few.
LEMMA FirstAreFew ==
  ASSUME NEW S, S \subseteq Nat, IsFiniteSet(S), NEW m \in Nat
  PROVE  Cardinality({v \in S : Rank(v, S) <= m}) \in 0 .. m
<1> DEFINE q == [i \in 1 .. m |-> 0]
<1>1. q \in Seq({0}) /\ Len(q) = m
  <2>1. q \in [1 .. m -> {0}]
    OBVIOUS
  <2> QED
    BY <2>1, FunctionIsSeq
<1> HIDE DEF q
<1>2. TakenInTurn(S, q, Turns(S, q), Cardinality(DOMAIN Turns(S, q)))
  BY <1>1, TurnsTakeTheFirst
<1>3. Cardinality(DOMAIN Turns(S, q)) \in 0 .. m
  BY <1>1, <1>2 DEF TakenInTurn
<1>4. DOMAIN Turns(S, q) = {v \in S : Rank(v, S) <= m}
  BY <1>1 DEF Turns
<1> QED
  BY <1>3, <1>4

\* When more counters are staffed, all that stands still stands.
LEMMA IncreaseKeeps ==
  ASSUME NEW s, NEW now, Stands(day, s, now, FALSE), NEW needed \in Nat,
         NEW t, t = Increase(s, needed)
  PROVE  Stands(day, t, now, FALSE) /\ SameButCounters(s, t)
<1> SUFFICES ASSUME NEW draining, draining = With(s, "DRAINING"),
                    NEW closed, closed = With(s, "CLOSED"),
                    NEW kept, kept = {v \in draining : Rank(v, draining) <= needed},
                    NEW reopened,
                    reopened = {v \in closed : Rank(v, closed) <= needed - Cardinality(draining)},
                    NEW made, made = needed - Cardinality(kept) - Cardinality(reopened),
                    NEW servers,
                    servers = [v \in 1 .. Len(s.server) + made |->
                      IF v > Len(s.server) \/ v \in reopened THEN Idle
                      ELSE IF v \in kept THEN [s.server[v] EXCEPT !.state = "BUSY"]
                      ELSE s.server[v]]
             PROVE  Stands(day, t, now, FALSE) /\ SameButCounters(s, t)
  OBVIOUS
<1>1. s \in Sim
  BY DEF Stands
<1>2. /\ Len(s.server) \in Nat /\ DOMAIN s.server = 1 .. Len(s.server)
      /\ \A v \in DOMAIN s.server : s.server[v] \in Server
  BY <1>1, CountersAreNumbers
<1>3. draining \subseteq Nat /\ draining \subseteq DOMAIN s.server /\ IsFiniteSet(draining)
  BY <1>1, CountersAreNumbers
<1>4. closed \subseteq Nat /\ closed \subseteq DOMAIN s.server /\ IsFiniteSet(closed)
  BY <1>1, CountersAreNumbers
<1>5. made \in Nat
  <2>1. Cardinality(kept) \in 0 .. needed
    BY <1>3, FirstAreFew
  <2>2. Cardinality(draining) \in Nat /\ Cardinality(kept) <= Cardinality(draining)
    <3>1. kept \subseteq draining
      OBVIOUS
    <3> QED
      BY <3>1, <1>3, FS_Subset, FS_CardinalityType
  <2>3. CASE Cardinality(draining) <= needed
    <3>1. needed - Cardinality(draining) \in Nat
      BY <2>2, <2>3
    <3>2. Cardinality(reopened) \in 0 .. needed - Cardinality(draining)
      BY <3>1, <1>4, FirstAreFew
    <3> QED
      BY <2>1, <2>2, <3>1, <3>2
  <2>4. CASE Cardinality(draining) > needed
    <3>1. \A v \in closed : Rank(v, closed) \in 1 .. Cardinality(closed)
      BY <1>4, RankGrows
    <3>2. Cardinality(closed) \in Nat
      BY <1>4, FS_CardinalityType
    <3>3. \A v \in closed : ~ (Rank(v, closed) <= needed - Cardinality(draining))
      BY <3>1, <3>2, <2>2, <2>4
    <3>4. reopened = {}
      BY <3>3
    <3> QED
      <4>1. Cardinality(reopened) = 0
        BY <3>4, FS_EmptySet
      <4> QED
        BY <4>1, <2>1
  <2> QED
    BY <2>2, <2>3, <2>4
<1>6. t = [s EXCEPT !.server = servers]
  BY DEF Increase
<1>7. MayChange(s, Len(s.server) + made, servers)
  <2>1. DOMAIN s.server \subseteq 1 .. Len(s.server) + made
    <3>1. \A m, k \in Nat : \A v \in 1 .. m : v \in 1 .. m + k
      OBVIOUS
    <3> QED
      BY <3>1, <1>2, <1>5
  <2>2. ASSUME NEW v \in 1 .. Len(s.server) + made
        PROVE  /\ servers[v] \in Server
               /\ \/ v \in DOMAIN s.server /\ servers[v] = s.server[v]
                  \/ /\ v \in DOMAIN s.server
                     /\ s.server[v].state \in {"BUSY", "DRAINING"} /\ servers[v].state \in {"BUSY", "DRAINING"}
                     /\ servers[v].customer = s.server[v].customer /\ servers[v].rest = s.server[v].rest
                  \/ /\ v \in DOMAIN s.server => s.server[v].state \notin {"BUSY", "DRAINING", "ON_BREAK"}
                     /\ servers[v].state # "ON_BREAK" /\ servers[v].rest = 0
    <3>1. CASE v > Len(s.server) \/ v \in reopened
      <4>1. servers[v] = Idle
        BY <3>1
      <4>2. v \in DOMAIN s.server => s.server[v].state = "CLOSED"
        BY <3>1, <1>2 DEF With
      <4> QED
        BY <4>1, <4>2, FreeCounters
    <3>2. CASE ~ (v > Len(s.server) \/ v \in reopened) /\ v \in kept
      <4>1. v \in DOMAIN s.server /\ s.server[v] \in Server /\ s.server[v].state = "DRAINING"
        BY <3>2, <1>2, <1>3 DEF With
      <4>2. servers[v] = [s.server[v] EXCEPT !.state = "BUSY"]
        BY <3>2
      <4>3. /\ servers[v] \in Server /\ servers[v].state = "BUSY"
            /\ servers[v].customer = s.server[v].customer /\ servers[v].rest = s.server[v].rest
        BY <4>1, <4>2 DEF Server
      <4> QED
        BY <4>1, <4>3
    <3>3. CASE ~ (v > Len(s.server) \/ v \in reopened) /\ v \notin kept
      <4>1. v \in DOMAIN s.server
        BY <3>3, <1>2, <1>5
      <4>2. servers[v] = s.server[v]
        BY <3>3
      <4> QED
        BY <4>1, <4>2, <1>2
    <3> QED
      BY <3>1, <3>2, <3>3
  <2>3. servers \in [1 .. Len(s.server) + made -> Server]
    BY <2>2
  <2> QED
    BY <2>1, <2>2, <2>3 DEF MayChange
<1>8. Len(s.server) + made \in Nat
  BY <1>2, <1>5
<1>9. Stands(day, t, now, FALSE)
  BY <1>6, <1>7, <1>8, CountersChange
<1>10. SameButCounters(s, t)
  BY <1>1, <1>6 DEF Sim, SameButCounters
<1> QED
  BY <1>9, <1>10

\* apply_capacity keeps all that stands.
LEMMA ApplyCapacityKeeps ==
  ASSUME NEW s, NEW now \in Nat, now <= Closing, Stands(day, s, now, FALSE), NEW target \in Nat,
         NEW t, t = ApplyCapacity(s, target, now)
  PROVE  Stands(day, t, now, FALSE) /\ SameButCounters(s, t)
<1> SUFFICES ASSUME NEW staffed, staffed = Cardinality(Staffed(s))
             PROVE  Stands(day, t, now, FALSE) /\ SameButCounters(s, t)
  OBVIOUS
<1>1. staffed \in Nat
  <2>1. s \in Sim
    BY DEF Stands
  <2>2. \A state : IsFiniteSet(With(s, state))
    BY <2>1, CountersAreNumbers
  <2>3. IsFiniteSet(Staffed(s))
    BY <2>2, FS_Union DEF Staffed
  <2> QED
    BY <2>3, FS_CardinalityType
<1>2. CASE target < staffed
  <2>1. t = Decrease(s, staffed - target, now)
    BY <1>2 DEF ApplyCapacity
  <2> QED
    BY <2>1, DecreaseKeeps
<1>3. CASE ~ (target < staffed)
  <2>1. t = Increase(s, target - staffed) /\ target - staffed \in Nat
    BY <1>1, <1>3 DEF ApplyCapacity
  <2> QED
    BY <2>1, IncreaseKeeps
<1> QED
  BY <1>2, <1>3

-----------------------------------------------------------------------------
(* The turns of the loop *)

\* t is s without the event e.
Without(s, t, e) ==
  /\ t.server = s.server /\ t.line = s.line /\ t.pending = s.pending
  /\ t.customer = s.customer /\ t.rest = s.rest
  /\ t.heap = s.heap \ {e}

\* All that stands does, but for what the event e stood for.
StandsButFor(d, t, later, closed, e) ==
  /\ d \in Days /\ t \in Sim
  /\ EventsStand(d, t, later) /\ LineStands(d, t) /\ CountersServe(t)
  /\ \A b \in Breaks : Went(d, t.rest[b], b, later)
  /\ e.order # BreakEnd => CountersRest(d, t)
  /\ e.order # BreakDue => Turn(d, t, later) /\ Accounted(d, t, closed)

\* When time goes on to the first event and it is popped, all that stands still stands, but for what
\* the event itself stood for.
LEMMA Popping ==
  ASSUME NEW s, NEW now \in Nat, NEW closed, Stands(day, s, now, closed),
         NEW later \in Nat, now <= later,
         NEW e \in s.heap, \A f \in s.heap : later <= f.time,
         NEW t, t = [s EXCEPT !.heap = @ \ {e}]
  PROVE  Without(s, t, e) /\ StandsButFor(day, t, later, closed, e)
<1>1. /\ s \in Sim /\ EventsStand(day, s, now) /\ LineStands(day, s) /\ CountersServe(s)
      /\ CountersRest(day, s)
      /\ Turn(day, s, now) /\ (\A b \in Breaks : Went(day, s.rest[b], b, now))
      /\ Accounted(day, s, closed) /\ day \in Days
  BY DEF Stands
<1>2. Without(s, t, e)
  BY <1>1 DEF Sim, Without
<1>3. /\ t.server = s.server /\ t.line = s.line /\ t.pending = s.pending
      /\ t.customer = s.customer /\ t.rest = s.rest /\ t.heap = s.heap \ {e}
  BY <1>2 DEF Without
<1>4. t \in Sim
  BY <1>1, <1>3 DEF Sim
<1>5. EventsStand(day, t, later)
  BY <1>1, <1>3 DEF EventsStand
<1>6. \A c \in Customers : ToCome(day, t, c) => ToCome(day, s, c)
  BY <1>3 DEF ToCome
<1>7. LineStands(day, t)
  BY <1>1, <1>3, <1>6, SameLine
<1>8. CountersServe(t)
  BY <1>1, <1>3 DEF CountersServe
<1>9. \A b \in Breaks : Went(day, t.rest[b], b, later)
  <2> SUFFICES ASSUME NEW b \in Breaks PROVE Went(day, s.rest[b], b, later)
    BY <1>3
  <2>1. Went(day, s.rest[b], b, now) /\ s.rest[b] \in Rest
    BY <1>1 DEF Sim
  <2>2. s.rest[b].start # Never => s.rest[b].start \in Nat
    BY <2>1 DEF Rest
  <2> QED
    BY <2>1, <2>2 DEF Went
<1>10. ASSUME e.order # BreakEnd PROVE CountersRest(day, t)
  <2>1. ASSUME NEW v, NEW b, Underway(day, s, v, b) PROVE Underway(day, t, v, b)
    <3>1. At(s.rest[b].start + day.length[b], BreakEnd, b) # e
      BY <1>10, EventParts
    <3> QED
      BY <2>1, <3>1, <1>3 DEF Underway
  <2>2. ASSUME NEW v \in DOMAIN s.server
        PROVE  /\ s.server[v].state = "ON_BREAK" <=> s.server[v].rest # 0
               /\ s.server[v].rest # 0 => Underway(day, t, v, s.server[v].rest)
    BY <2>1, <1>1 DEF CountersRest
  <2>3. /\ \A b \in Breaks :
             t.rest[b].start # Never /\ t.rest[b].outcome = "none" =>
               \E v \in DOMAIN t.server : t.server[v].rest = b
        /\ \A b \in Breaks : t.rest[b].start # Never => t.rest[b].server \in DOMAIN t.server
    BY <1>1, <1>3 DEF CountersRest
  <2>4. \A v \in DOMAIN t.server :
          /\ t.server[v].state = "ON_BREAK" <=> t.server[v].rest # 0
          /\ t.server[v].rest # 0 => Underway(day, t, v, t.server[v].rest)
    BY <2>2, <1>3
  <2> QED
    BY <2>3, <2>4 DEF CountersRest
<1>11. ASSUME e.order # BreakDue PROVE Turn(day, t, later) /\ Accounted(day, t, closed)
  <2>1. \A b \in Breaks : ToBeDue(day, t, b) <=> ToBeDue(day, s, b)
    <3>1. \A b \in Breaks : At(day.due[b], BreakDue, b) # e
      BY <1>11, EventParts
    <3> QED
      BY <3>1, <1>3 DEF ToBeDue
  <2>2. Turn(day, t, now)
    BY <2>1, <1>1, <1>3, SameTurn
  <2>3. Turn(day, t, later)
    <3>1. \A i \in DOMAIN t.pending : t.pending[i] \in Breaks
      BY <1>4, ElementOfSeq, LenProperties DEF Sim
    <3>2. \A b \in Breaks : day.due[b] \in Nat
      BY <1>1 DEF Days, Schedules
    <3>3. ASSUME NEW i \in DOMAIN t.pending PROVE day.due[t.pending[i]] <= later
      <4>1. day.due[t.pending[i]] <= now
        BY <2>2 DEF Turn
      <4>2. day.due[t.pending[i]] \in Nat
        BY <3>1, <3>2
      <4> QED
        BY <4>1, <4>2
    <3> QED
      BY <2>2, <3>3 DEF Turn
  <2> QED
    BY <2>1, <2>3, <1>1, <1>3 DEF Accounted
<1> QED
  BY <1>1, <1>2, <1>4, <1>5, <1>7, <1>8, <1>9, <1>10, <1>11 DEF StandsButFor

\* The first few of the queue q begin, the customers done leave, from s to t.
Serves(s, q, t, done) ==
  \E C :
    /\ \E n \in 0 .. Len(q) :
         C = Range(SubSeq(q, 1, n)) /\ t.line = SubSeq(q, n + 1, Len(q))
    /\ C \subseteq Customers
    /\ \A c \in Customers :
         /\ t.customer[c].start # Never <=> s.customer[c].start # Never \/ c \in C
         /\ c \in C => s.customer[c].start = Never /\ ~s.customer[c].departed
         /\ t.customer[c].departed <=> s.customer[c].departed \/ c \in done
         /\ t.customer[c].unserved = s.customer[c].unserved

\* Nobody waits for a free counter in s, and no due break does.
Busy(s) == s.line # <<>> \/ s.pending # <<>> => With(s, "IDLE") = {}

\* After an event, due breaks and customers take the free counters: all that stands still stands,
\* and nobody waits for a free counter.
LEMMA SettleKeeps ==
  ASSUME NEW h, NEW now \in Nat, Stands(day, h, now, FALSE),
         NEW t, t = StartDueBreaks(h, now), NEW u, u = Assign(t, now)
  PROVE  /\ Stands(day, u, now, FALSE)
         /\ Busy(u)
         /\ Serves(h, h.line, u, {})
         /\ \A c \in Customers : ToCome(day, u, c) <=> ToCome(day, h, c)
<1>1. /\ Stands(day, t, now, FALSE)
      /\ t.pending # <<>> => With(t, "IDLE") = {}
      /\ t.line = h.line /\ t.customer = h.customer
      /\ \A e \in t.heap : e.order = Arrival <=> e \in h.heap /\ e.order = Arrival
      /\ \A e \in h.heap : e \in t.heap
  BY StartKeeps
<1>2. Stands(day, u, now, FALSE) /\ Assigned(t, u)
  BY <1>1, AssignKeeps
<1>3. Busy(u)
  BY <1>1, <1>2 DEF Busy, Assigned
<1>4. Serves(h, h.line, u, {})
  <2>1. PICK C : Begin(t, u, C)
    BY <1>2 DEF Assigned
  <2>2. \E n \in 0 .. Len(h.line) :
          C = Range(SubSeq(h.line, 1, n)) /\ u.line = SubSeq(h.line, n + 1, Len(h.line))
    BY <2>1, <1>1 DEF Begin
  <2>3. C \subseteq Customers
    BY <2>1 DEF Begin
  <2>4. ASSUME NEW c \in Customers
        PROVE  /\ u.customer[c].start # Never <=> h.customer[c].start # Never \/ c \in C
               /\ c \in C => h.customer[c].start = Never /\ ~h.customer[c].departed
               /\ u.customer[c].departed <=> h.customer[c].departed \/ c \in {}
               /\ u.customer[c].unserved = h.customer[c].unserved
    BY <2>1, <1>1 DEF Begin
  <2> QED
    BY <2>2, <2>3, <2>4 DEF Serves
<1>5. \A c \in Customers : ToCome(day, u, c) <=> ToCome(day, h, c)
  <2> SUFFICES ASSUME NEW c \in Customers, NEW e, e = At(day.arrival[c], Arrival, c)
               PROVE  e \in u.heap <=> e \in h.heap
    BY DEF ToCome
  <2>1. e.order = Arrival
    BY EventParts
  <2>2. e \in u.heap => e \in t.heap
    BY <2>1, <1>2 DEF Assigned, Arrival, Completion
  <2>3. e \in t.heap => e \in u.heap
    BY <1>2 DEF Assigned
  <2> QED
    BY <2>1, <2>2, <2>3, <1>1
<1> QED
  BY <1>2, <1>3, <1>4, <1>5

\* The event popped next is in the heap, and none is before it.
LEMMA TheFirst ==
  ASSUME IInv, NEW e \in First
  PROVE  /\ e \in sim.heap /\ e \in Events /\ e.time \in Nat
         /\ clock.now \in Nat /\ clock.now <= e.time
         /\ \A f \in sim.heap : e.time <= f.time
         /\ \A f \in sim.heap : f = e \/ Before(e, f)
<1>1. e \in sim.heap /\ \A f \in sim.heap : f = e \/ Before(e, f)
  BY DEF First
<1>2. sim.heap \subseteq Events /\ EventsStand(day, sim, clock.now)
  BY DEF IInv, Stands, Sim
<1>3. \A f \in sim.heap : f.time \in Nat
  BY <1>2 DEF Events
<1>4. \A f \in sim.heap : e.time <= f.time
  BY <1>1, <1>3 DEF Before
<1>5. clock.now \in Nat /\ clock.now <= e.time
  BY <1>1, <1>2 DEF IInv, EventsStand
<1> QED
  BY <1>1, <1>2, <1>3, <1>4, <1>5

\* The time of e has come, and it is not closed.
ClockRuns(e) ==
  /\ clock' \in [now : Nat, segment : SegmentStarts, closed : BOOLEAN]
  /\ clock'.now = e.time /\ clock'.closed = FALSE

\* After an event that leaves all that stands standing, the invariant holds again.
LEMMA SettledKeeps ==
  ASSUME IInv, NEW e \in First, e.time < Closing, ~clock.closed,
         NEW h, Stands(day, h, e.time, FALSE), Settle(h, e),
         ClockRuns(e)
  PROVE  /\ IInv' /\ day' = day
         /\ Serves(h, h.line, sim', {})
         /\ \A c \in Customers : ToCome(day, sim', c) <=> ToCome(day, h, c)
<1>1. PICK t : t = StartDueBreaks(h, e.time) /\ sim' = Assign(t, e.time) /\ UNCHANGED day
  BY DEF Settle
<1>2. PICK u : u = Assign(t, e.time)
  OBVIOUS
<1>3. e.time \in Nat
  BY TheFirst
<1>4. /\ Stands(day, u, e.time, FALSE) /\ Busy(u)
      /\ Serves(h, h.line, u, {})
      /\ \A c \in Customers : ToCome(day, u, c) <=> ToCome(day, h, c)
  BY <1>1, <1>2, <1>3, SettleKeeps
<1>5. sim' = u /\ day' = day
  BY <1>1, <1>2
<1>6. /\ clock'.now = e.time /\ clock'.closed = FALSE
      /\ clock' \in [now : Nat, segment : SegmentStarts, closed : BOOLEAN]
  BY DEF ClockRuns
<1>7. Stands(day', sim', clock'.now, clock'.closed)
  BY <1>4, <1>5, <1>6
<1>8. NobodyWaitsForAFreeCounter'
  <2>1. Busy(sim')
    BY <1>4, <1>5
  <2> QED
    BY <2>1 DEF Busy, NobodyWaitsForAFreeCounter
<1>9. clock'.now <= Closing
  BY <1>3, <1>6, ConstantsAssumption
<1> QED
  BY <1>4, <1>5, <1>6, <1>7, <1>8, <1>9 DEF IInv

\* When time goes on before closing, it is not closed.
LEMMA ClockGoesOn ==
  ASSUME IInv, ~clock.closed, NEW e, e.time \in Nat,
         \/ Tick(e)
         \/ e.of \in SegmentStarts /\ clock' = [clock EXCEPT !.now = e.time, !.segment = e.of]
  PROVE  ClockRuns(e)
<1>1. clock \in [now : Nat, segment : SegmentStarts, closed : BOOLEAN]
  BY DEF IInv
<1>2. clock' = [clock EXCEPT !.now = e.time] => ClockRuns(e)
  BY <1>1 DEF ClockRuns
<1>3. e.of \in SegmentStarts /\ clock' = [clock EXCEPT !.now = e.time, !.segment = e.of] => ClockRuns(e)
  BY <1>1 DEF ClockRuns
<1> QED
  BY <1>2, <1>3 DEF Tick

\* From s to t those done leave, and the first of the queue begin.
Served(s, q, t, done) ==
  /\ done \subseteq Customers
  /\ \A c \in done : s.customer[c].start # Never /\ ~s.customer[c].departed
  /\ Serves(s, q, t, done)

\* The event e before closing is popped: p is the state without it.
Turning(e, p) ==
  /\ e \in sim.heap /\ e \in Events /\ e.time \in Nat /\ e.time < Closing
  /\ \A f \in sim.heap : e.time <= f.time
  /\ Stands(day, sim, clock.now, FALSE)
  /\ Without(sim, p, e)
  /\ StandsButFor(day, p, e.time, FALSE, e)
  /\ p.server = sim.server /\ p.line = sim.line /\ p.pending = sim.pending
  /\ p.customer = sim.customer /\ p.rest = sim.rest /\ p.heap = sim.heap \ {e}

\* So it is whichever event is handled.
LEMMA TurnBegins ==
  ASSUME IInv, NEW e \in First, e.time < Closing, ~clock.closed, NEW p, p = Popped(e)
  PROVE  Turning(e, p)
<1>1. /\ e \in sim.heap /\ e \in Events /\ e.time \in Nat
      /\ clock.now \in Nat /\ clock.now <= e.time
      /\ \A f \in sim.heap : e.time <= f.time
  BY TheFirst
<1>2. Stands(day, sim, clock.now, FALSE)
  <2>1. Stands(day, sim, clock.now, clock.closed) /\ clock.closed = FALSE
    BY DEF IInv
  <2> QED
    BY <2>1
<1>3. p = [sim EXCEPT !.heap = @ \ {e}]
  BY DEF Popped
<1>4. Without(sim, p, e) /\ StandsButFor(day, p, e.time, FALSE, e)
  BY <1>1, <1>2, <1>3, Popping
<1> QED
  BY <1>1, <1>2, <1>4 DEF Turning, Without

\* When some leave and then some begin, it is one serving.
LEMMA LeaveThenServe ==
  ASSUME NEW s, NEW p, p.line = s.line, p.customer = s.customer,
         NEW h, NEW t, NEW C, C \subseteq Customers,
         \A c \in C : s.customer[c].start # Never /\ ~s.customer[c].departed,
         Leave(p, h, C), Serves(h, h.line, t, {})
  PROVE  Served(s, s.line, t, C)
<1>1. PICK D :
        /\ \E n \in 0 .. Len(h.line) :
             D = Range(SubSeq(h.line, 1, n)) /\ t.line = SubSeq(h.line, n + 1, Len(h.line))
        /\ D \subseteq Customers
        /\ \A c \in Customers :
             /\ t.customer[c].start # Never <=> h.customer[c].start # Never \/ c \in D
             /\ c \in D => h.customer[c].start = Never /\ ~h.customer[c].departed
             /\ t.customer[c].departed <=> h.customer[c].departed \/ c \in {}
             /\ t.customer[c].unserved = h.customer[c].unserved
  BY DEF Serves
<1>2. h.line = s.line
  BY DEF Leave
<1>3. ASSUME NEW c \in Customers
      PROVE  /\ t.customer[c].start # Never <=> s.customer[c].start # Never \/ c \in D
             /\ c \in D => s.customer[c].start = Never /\ ~s.customer[c].departed
             /\ t.customer[c].departed <=> s.customer[c].departed \/ c \in C
             /\ t.customer[c].unserved = s.customer[c].unserved
  BY <1>1 DEF Leave
<1>4. \E n \in 0 .. Len(s.line) :
        D = Range(SubSeq(s.line, 1, n)) /\ t.line = SubSeq(s.line, n + 1, Len(s.line))
  BY <1>1, <1>2
<1>5. Serves(s, s.line, t, C)
  BY <1>1, <1>3, <1>4 DEF Serves
<1> QED
  BY <1>5 DEF Served

\* When the customers are the same, so is the serving.
LEMMA ServesFrom ==
  ASSUME NEW s, NEW h, h.customer = s.customer, NEW q, NEW t, Serves(h, q, t, {})
  PROVE  Serves(s, q, t, {})
<1>1. PICK D :
        /\ \E n \in 0 .. Len(q) :
             D = Range(SubSeq(q, 1, n)) /\ t.line = SubSeq(q, n + 1, Len(q))
        /\ D \subseteq Customers
        /\ \A c \in Customers :
             /\ t.customer[c].start # Never <=> h.customer[c].start # Never \/ c \in D
             /\ c \in D => h.customer[c].start = Never /\ ~h.customer[c].departed
             /\ t.customer[c].departed <=> h.customer[c].departed \/ c \in {}
             /\ t.customer[c].unserved = h.customer[c].unserved
  BY DEF Serves
<1>2. ASSUME NEW c \in Customers
      PROVE  /\ t.customer[c].start # Never <=> s.customer[c].start # Never \/ c \in D
             /\ c \in D => s.customer[c].start = Never /\ ~s.customer[c].departed
             /\ t.customer[c].departed <=> s.customer[c].departed \/ c \in {}
             /\ t.customer[c].unserved = s.customer[c].unserved
  BY <1>1
<1> QED
  BY <1>1, <1>2 DEF Serves

\* When the line is the same too, the first of it are served.
LEMMA ServeAfter ==
  ASSUME NEW s, NEW h, h.line = s.line, h.customer = s.customer, NEW t, Serves(h, h.line, t, {})
  PROVE  Served(s, s.line, t, {})
<1>1. Serves(h, s.line, t, {})
  OBVIOUS
<1>2. Serves(s, s.line, t, {})
  BY <1>1, ServesFrom
<1> QED
  BY <1>2 DEF Served

\* A service ends.
LEMMA CompleteServiceKeeps ==
  ASSUME IInv, NEW e \in First, CompleteService(e)
  PROVE  /\ IInv' /\ day' = day /\ clock'.closed = FALSE
         /\ \E done : Served(sim, sim.line, sim', done)
         /\ \A c \in Customers : ToCome(day, sim', c) <=> ToCome(day, sim, c)
<1>1. e.order = Completion /\ e.time < Closing /\ ~clock.closed
  BY DEF CompleteService, Handles
<1>2. PICK p : p = Popped(e)
  OBVIOUS
<1>3. PICK h : h = Complete(p, {e.of})
  OBVIOUS
<1>4. Settle(h, e)
  BY <1>2, <1>3 DEF CompleteService
<1>5. Turning(e, p)
  BY <1>1, <1>2, TurnBegins
<1>6. Stands(day, p, e.time, FALSE)
  <2>1. e.order # BreakEnd /\ e.order # BreakDue
    BY <1>1 DEF Completion, BreakEnd, BreakDue
  <2>2. StandsButFor(day, p, e.time, FALSE, e)
    BY <1>5 DEF Turning
  <2> QED
    BY <2>1, <2>2 DEF StandsButFor, Stands
<1>7. /\ e.of \in Customers
      /\ sim.customer[e.of].start # Never /\ ~sim.customer[e.of].departed
  BY <1>1, <1>5 DEF Turning, Stands, EventsStand
<1>8. \A f \in p.heap : f.order = Completion => f.of \notin {e.of}
  <2> SUFFICES ASSUME NEW f \in sim.heap, f # e, f.order = Completion, f.of = e.of PROVE FALSE
    BY <1>5 DEF Turning
  <2>1. f.time = e.time
    BY <1>1, <1>5 DEF Turning, Stands, EventsStand
  <2>2. f \in Events /\ e \in Events
    BY <1>5 DEF Turning, Stands, Sim
  <2>3. f = e
    BY <2>1, <2>2, <1>1 DEF Events
  <2> QED
    BY <2>3
<1>9. /\ p.line = sim.line /\ p.customer = sim.customer /\ p.heap = sim.heap \ {e}
  BY <1>5 DEF Turning
<1>10. Stands(day, h, e.time, FALSE) /\ Leave(p, h, {e.of})
  <2>1. {e.of} \subseteq Customers
    BY <1>7
  <2>2. \A c \in {e.of} : p.customer[c].start # Never /\ ~p.customer[c].departed
    BY <1>7, <1>9
  <2> QED
    BY <2>1, <2>2, <1>3, <1>6, <1>8, CompleteKeeps
<1>11. ClockRuns(e)
  <2>1. Tick(e) /\ e.time \in Nat
    BY <1>5 DEF CompleteService, Turning
  <2> QED
    BY <2>1, <1>1, ClockGoesOn
<1>12. /\ IInv' /\ day' = day
       /\ Serves(h, h.line, sim', {})
       /\ \A c \in Customers : ToCome(day, sim', c) <=> ToCome(day, h, c)
  BY <1>1, <1>4, <1>10, <1>11, SettledKeeps
<1>13. Served(sim, sim.line, sim', {e.of})
  <2>1. {e.of} \subseteq Customers /\ \A c \in {e.of} : sim.customer[c].start # Never /\ ~sim.customer[c].departed
    BY <1>7
  <2> QED
    BY <2>1, <1>9, <1>10, <1>12, LeaveThenServe
<1>14. \A c \in Customers : ToCome(day, sim', c) <=> ToCome(day, sim, c)
  <2>1. \A c \in Customers : At(day.arrival[c], Arrival, c) # e
    BY <1>1, EventParts DEF Arrival, Completion
  <2> QED
    BY <2>1, <1>9, <1>10, <1>12 DEF Leave, ToCome
<1> QED
  BY <1>11, <1>12, <1>13, <1>14 DEF ClockRuns

\* A break that is over ends; one that staffing has ended already is ignored.
LEMMA FinishBreakKeeps ==
  ASSUME IInv, NEW e \in First, FinishBreak(e)
  PROVE  /\ IInv' /\ day' = day /\ clock'.closed = FALSE
         /\ \E done : Served(sim, sim.line, sim', done)
         /\ \A c \in Customers : ToCome(day, sim', c) <=> ToCome(day, sim, c)
<1> SUFFICES ASSUME NEW V, V = {v \in {sim.rest[e.of].server} : sim.server[v].rest = e.of},
                    NEW p, p = Popped(e), NEW h, h = EndBreaks(p, V, e.time, "completed")
             PROVE  /\ IInv' /\ day' = day /\ clock'.closed = FALSE
                    /\ \E done : Served(sim, sim.line, sim', done)
                    /\ \A c \in Customers : ToCome(day, sim', c) <=> ToCome(day, sim, c)
  OBVIOUS
<1>1. e.order = BreakEnd /\ e.time < Closing /\ ~clock.closed
  BY DEF FinishBreak, Handles
<1>2. Settle(h, e) /\ Tick(e)
  BY DEF FinishBreak
<1>3. Turning(e, p)
  BY <1>1, TurnBegins
<1>4. /\ e \in sim.heap /\ e.time \in Nat
      /\ p.server = sim.server /\ p.line = sim.line /\ p.pending = sim.pending
      /\ p.customer = sim.customer /\ p.rest = sim.rest /\ p.heap = sim.heap \ {e}
      /\ day \in Days /\ p \in Sim
      /\ EventsStand(day, p, e.time) /\ LineStands(day, p) /\ CountersServe(p)
      /\ \A b \in Breaks : Went(day, p.rest[b], b, e.time)
      /\ EventsStand(day, sim, clock.now) /\ CountersRest(day, sim)
  BY <1>3 DEF Turning, StandsButFor, Stands
<1>5. Turn(day, p, e.time) /\ Accounted(day, p, FALSE)
  <2>1. e.order # BreakDue
    BY <1>1 DEF BreakEnd, BreakDue
  <2> QED
    BY <2>1, <1>3 DEF Turning, StandsButFor
<1>6. /\ e.of \in Breaks /\ sim.rest[e.of].start # Never
      /\ e.time = sim.rest[e.of].start + day.length[e.of]
      /\ sim.rest[e.of].server \in DOMAIN sim.server
      /\ e.of # 0
  <2>1. /\ e.of \in Breaks /\ sim.rest[e.of].start # Never
        /\ e.time = sim.rest[e.of].start + day.length[e.of]
    BY <1>1, <1>4 DEF EventsStand
  <2>2. sim.rest[e.of].server \in DOMAIN sim.server
    BY <2>1, <1>4 DEF CountersRest
  <2> QED
    BY <2>1, <2>2, ConstantsAssumption DEF Breaks
<1>7. MayEnd(day, p, V, e.time, "completed")
  <2>1. V \subseteq DOMAIN p.server /\ \A v \in V : p.server[v].rest = e.of
    BY <1>4, <1>6
  <2>2. ASSUME NEW v \in DOMAIN sim.server
        PROVE  /\ sim.server[v].state = "ON_BREAK" <=> sim.server[v].rest # 0
               /\ sim.server[v].rest # 0 => Underway(day, sim, v, sim.server[v].rest)
    BY <1>4 DEF CountersRest
  <2>3. ASSUME NEW v \in DOMAIN sim.server, NEW b, b = sim.server[v].rest, b # 0
        PROVE  OnBreak(p, v, b) /\ (v \notin V => Underway(day, p, v, b))
    <3>1. Underway(day, sim, v, b)
      BY <2>2, <2>3
    <3>2. OnBreak(p, v, b)
      BY <3>1, <1>4 DEF Underway, OnBreak
    <3>3. ASSUME v \notin V PROVE At(sim.rest[b].start + day.length[b], BreakEnd, b) # e
      <4>1. b # e.of
        BY <3>1, <3>3, <2>3 DEF Underway
      <4> QED
        BY <4>1, EventParts
    <3> QED
      BY <3>1, <3>2, <3>3, <1>4 DEF Underway
  <2>4. ASSUME NEW v \in V, NEW b, b = p.server[v].rest
        PROVE  b # 0 /\ e.time = p.rest[b].start + day.length[b]
    BY <2>1, <2>4, <1>4, <1>6
  <2>5. /\ \A b \in Breaks :
             p.rest[b].start # Never /\ p.rest[b].outcome = "none" =>
               \E v \in DOMAIN p.server : p.server[v].rest = b
        /\ \A b \in Breaks : p.rest[b].start # Never => p.rest[b].server \in DOMAIN p.server
    BY <1>4 DEF CountersRest
  <2>6. \A v \in DOMAIN p.server :
          /\ p.server[v].state = "ON_BREAK" <=> p.server[v].rest # 0
          /\ p.server[v].rest # 0 => OnBreak(p, v, p.server[v].rest)
          /\ p.server[v].rest # 0 /\ v \notin V => Underway(day, p, v, p.server[v].rest)
    BY <2>2, <2>3, <1>4
  <2>7. \A v \in V : p.server[v].rest # 0 /\ e.time = p.rest[p.server[v].rest].start + day.length[p.server[v].rest]
    BY <2>4
  <2> QED
    BY <2>1, <2>5, <2>6, <2>7 DEF MayEnd
<1>8. Stands(day, h, e.time, FALSE) /\ BreaksEnded(p, h, V, e.time, "completed")
  <2>1. "completed" \in {"completed", "staffing_change", "truncated_by_closing"}
    OBVIOUS
  <2> QED
    BY <2>1, <1>4, <1>5, <1>7, EndBreaksKeeps
<1>9. h.line = sim.line /\ h.customer = sim.customer /\ h.heap = sim.heap \ {e}
  BY <1>8, <1>4 DEF BreaksEnded
<1>10. ClockRuns(e)
  BY <1>1, <1>2, <1>4, ClockGoesOn
<1>11. /\ IInv' /\ day' = day
       /\ Serves(h, h.line, sim', {})
       /\ \A c \in Customers : ToCome(day, sim', c) <=> ToCome(day, h, c)
  BY <1>1, <1>2, <1>8, <1>10, SettledKeeps
<1>12. Served(sim, sim.line, sim', {})
  BY <1>9, <1>11, ServeAfter
<1>13. \A c \in Customers : ToCome(day, sim', c) <=> ToCome(day, sim, c)
  <2>1. \A c \in Customers : At(day.arrival[c], Arrival, c) # e
    BY <1>1, EventParts DEF Arrival, BreakEnd
  <2> QED
    BY <2>1, <1>9, <1>11 DEF ToCome
<1> QED
  BY <1>10, <1>11, <1>12, <1>13 DEF ClockRuns

\* The staffing changes.
LEMMA ChangeCapacityKeeps ==
  ASSUME IInv, NEW e \in First, ChangeCapacity(e)
  PROVE  /\ IInv' /\ day' = day /\ clock'.closed = FALSE
         /\ \E done : Served(sim, sim.line, sim', done)
         /\ \A c \in Customers : ToCome(day, sim', c) <=> ToCome(day, sim, c)
<1> SUFFICES ASSUME NEW p, p = Popped(e), NEW h, h = ApplyCapacity(p, day.staff[e.of], e.time)
             PROVE  /\ IInv' /\ day' = day /\ clock'.closed = FALSE
                    /\ \E done : Served(sim, sim.line, sim', done)
                    /\ \A c \in Customers : ToCome(day, sim', c) <=> ToCome(day, sim, c)
  OBVIOUS
<1>1. e.order = Capacity /\ e.time < Closing /\ ~clock.closed
  BY DEF ChangeCapacity, Handles
<1>2. Settle(h, e)
  BY DEF ChangeCapacity
<1>3. Turning(e, p)
  BY <1>1, TurnBegins
<1>4. /\ e \in sim.heap /\ e.time \in Nat /\ e.time <= Closing
      /\ p.line = sim.line /\ p.customer = sim.customer /\ p.heap = sim.heap \ {e}
      /\ day \in Days /\ EventsStand(day, sim, clock.now)
  BY <1>3, ConstantsAssumption DEF Turning, StandsButFor, Stands
<1>5. e.of \in SegmentStarts /\ day.staff[e.of] \in Nat
  <2>1. e.of \in SegmentStarts
    BY <1>1, <1>4 DEF EventsStand
  <2>2. day.staff \in [SegmentStarts -> Staff]
    BY <1>4 DEF Days, Schedules
  <2> QED
    BY <2>1, <2>2, ConstantsAssumption
<1>6. Stands(day, p, e.time, FALSE)
  <2>1. e.order # BreakEnd /\ e.order # BreakDue
    BY <1>1 DEF Capacity, BreakEnd, BreakDue
  <2>2. StandsButFor(day, p, e.time, FALSE, e)
    BY <1>3 DEF Turning
  <2> QED
    BY <2>1, <2>2 DEF StandsButFor, Stands
<1>7. Stands(day, h, e.time, FALSE) /\ SameButCounters(p, h)
  BY <1>4, <1>5, <1>6, ApplyCapacityKeeps
<1>8. h.line = sim.line /\ h.customer = sim.customer /\ h.heap = sim.heap \ {e}
  BY <1>4, <1>7 DEF SameButCounters
<1>9. ClockRuns(e)
  <2>1. clock' = [clock EXCEPT !.now = e.time, !.segment = e.of]
    BY DEF ChangeCapacity
  <2> QED
    BY <2>1, <1>1, <1>4, <1>5, ClockGoesOn
<1>10. /\ IInv' /\ day' = day
       /\ Serves(h, h.line, sim', {})
       /\ \A c \in Customers : ToCome(day, sim', c) <=> ToCome(day, h, c)
  BY <1>1, <1>2, <1>7, <1>9, SettledKeeps
<1>11. Served(sim, sim.line, sim', {})
  BY <1>8, <1>10, ServeAfter
<1>12. \A c \in Customers : ToCome(day, sim', c) <=> ToCome(day, sim, c)
  <2>1. \A c \in Customers : At(day.arrival[c], Arrival, c) # e
    BY <1>1, EventParts DEF Arrival, Capacity
  <2> QED
    BY <2>1, <1>8, <1>10 DEF ToCome
<1> QED
  BY <1>9, <1>10, <1>11, <1>12 DEF ClockRuns

\* A break is due: those due wait for a free counter in turn.
LEMMA BreakIsDueKeeps ==
  ASSUME IInv, NEW e \in First, BreakIsDue(e)
  PROVE  /\ IInv' /\ day' = day /\ clock'.closed = FALSE
         /\ \E done : Served(sim, sim.line, sim', done)
         /\ \A c \in Customers : ToCome(day, sim', c) <=> ToCome(day, sim, c)
<1> SUFFICES ASSUME NEW p, p = Popped(e), NEW h, h = [p EXCEPT !.pending = Append(@, e.of)]
             PROVE  /\ IInv' /\ day' = day /\ clock'.closed = FALSE
                    /\ \E done : Served(sim, sim.line, sim', done)
                    /\ \A c \in Customers : ToCome(day, sim', c) <=> ToCome(day, sim, c)
  OBVIOUS
<1>1. e.order = BreakDue /\ e.time < Closing /\ ~clock.closed
  BY DEF BreakIsDue, Handles
<1>2. Settle(h, e) /\ Tick(e)
  BY DEF BreakIsDue
<1>3. Turning(e, p)
  BY <1>1, TurnBegins
<1>4. /\ e \in sim.heap /\ e.time \in Nat
      /\ p.server = sim.server /\ p.line = sim.line /\ p.pending = sim.pending
      /\ p.customer = sim.customer /\ p.rest = sim.rest /\ p.heap = sim.heap \ {e}
      /\ day \in Days /\ p \in Sim /\ sim \in Sim
      /\ EventsStand(day, p, e.time) /\ LineStands(day, p) /\ CountersServe(p)
      /\ \A b \in Breaks : Went(day, p.rest[b], b, e.time)
      /\ EventsStand(day, sim, clock.now) /\ Turn(day, sim, clock.now) /\ Accounted(day, sim, FALSE)
  BY <1>3 DEF Turning, StandsButFor, Stands
<1>5. CountersRest(day, p)
  <2>1. e.order # BreakEnd
    BY <1>1 DEF BreakEnd, BreakDue
  <2> QED
    BY <2>1, <1>3 DEF Turning, StandsButFor
<1>6. e.of \in Breaks /\ e.time = day.due[e.of] /\ e \in Events
  BY <1>1, <1>3, <1>4 DEF EventsStand, Turning
<1>7. e = At(day.due[e.of], BreakDue, e.of)
  BY <1>1, <1>6 DEF At, Events
<1>8. /\ h.server = sim.server /\ h.line = sim.line /\ h.pending = Append(sim.pending, e.of)
      /\ h.customer = sim.customer /\ h.rest = sim.rest /\ h.heap = sim.heap \ {e}
  BY <1>4 DEF Sim
<1>9. /\ sim.pending \in Seq(Breaks) /\ h.pending \in Seq(Breaks)
      /\ Len(sim.pending) \in Nat /\ DOMAIN sim.pending = 1 .. Len(sim.pending)
      /\ DOMAIN h.pending = 1 .. Len(sim.pending) + 1
      /\ \A i \in DOMAIN sim.pending : h.pending[i] = sim.pending[i] /\ sim.pending[i] \in Breaks
      /\ h.pending[Len(sim.pending) + 1] = e.of
  BY <1>4, <1>6, <1>8, AppendProperties, LenProperties, ElementOfSeq DEF Sim
<1>10. h \in Sim
  <2>1. h = [server |-> h.server, line |-> h.line, pending |-> h.pending,
             customer |-> h.customer, rest |-> h.rest, heap |-> h.heap]
    BY <1>4 DEF Sim
  <2> QED
    BY <2>1, <1>4, <1>8, <1>9 DEF Sim
<1>11. ToBeDue(day, sim, e.of)
  BY <1>4, <1>7 DEF ToBeDue
<1>12. \A b \in Breaks : ToBeDue(day, h, b) <=> ToBeDue(day, sim, b) /\ b # e.of
  <2> SUFFICES ASSUME NEW b \in Breaks PROVE ToBeDue(day, h, b) <=> ToBeDue(day, sim, b) /\ b # e.of
    OBVIOUS
  <2>1. At(day.due[b], BreakDue, b) = e <=> b = e.of
    BY <1>7, EventParts
  <2> QED
    BY <2>1, <1>8 DEF ToBeDue
<1>13. EventsStand(day, h, e.time)
  BY <1>4, <1>8, SameEvents
<1>14. LineStands(day, h)
  <2>1. \A c \in Customers : ToCome(day, h, c) => ToCome(day, p, c)
    BY <1>4, <1>8 DEF ToCome
  <2>2. h.line = p.line /\ h.customer = p.customer
    BY <1>4, <1>8
  <2> QED
    BY <2>1, <2>2, <1>4, SameLine
<1>15. CountersServe(h)
  BY <1>4, <1>8 DEF CountersServe
<1>16. CountersRest(day, h)
  <2>1. ASSUME NEW v, NEW b, Underway(day, p, v, b) PROVE Underway(day, h, v, b)
    BY <2>1, <1>4, <1>8 DEF Underway
  <2>2. ASSUME NEW v \in DOMAIN p.server
        PROVE  /\ p.server[v].state = "ON_BREAK" <=> p.server[v].rest # 0
               /\ p.server[v].rest # 0 => Underway(day, h, v, p.server[v].rest)
    BY <2>1, <1>5 DEF CountersRest
  <2>3. /\ \A b \in Breaks :
             h.rest[b].start # Never /\ h.rest[b].outcome = "none" =>
               \E v \in DOMAIN h.server : h.server[v].rest = b
        /\ \A b \in Breaks : h.rest[b].start # Never => h.rest[b].server \in DOMAIN h.server
    BY <1>4, <1>5, <1>8 DEF CountersRest
  <2>4. \A v \in DOMAIN h.server :
          /\ h.server[v].state = "ON_BREAK" <=> h.server[v].rest # 0
          /\ h.server[v].rest # 0 => Underway(day, h, v, h.server[v].rest)
    BY <2>2, <1>4, <1>8
  <2> QED
    BY <2>3, <2>4 DEF CountersRest
<1>17. \A b \in Breaks : b \in Nat /\ day.due[b] \in Nat
  BY <1>4, ConstantsAssumption DEF Breaks, Days, Schedules
<1>18. /\ \A i, j \in DOMAIN sim.pending : i < j => sim.pending[i] < sim.pending[j]
       /\ \A i \in DOMAIN sim.pending :
            /\ sim.rest[sim.pending[i]].start = Never /\ sim.rest[sim.pending[i]].outcome = "none"
            /\ day.due[sim.pending[i]] <= clock.now
            /\ ~ToBeDue(day, sim, sim.pending[i])
       /\ \A b \in Breaks : ToBeDue(day, sim, b) => sim.rest[b].start = Never /\ sim.rest[b].outcome = "none"
       /\ \A a, b \in Breaks : a < b /\ ToBeDue(day, sim, a) => ToBeDue(day, sim, b)
       /\ \A a, b \in Breaks :
            a < b /\ sim.rest[b].start # Never =>
              sim.rest[a].start # Never /\ sim.rest[a].start <= sim.rest[b].start
  BY <1>4 DEF Turn, Increasing
<1>19. \A i \in DOMAIN sim.pending : sim.pending[i] < e.of
  <2> SUFFICES ASSUME NEW i \in DOMAIN sim.pending, NEW a \in Breaks, a = sim.pending[i]
               PROVE  a < e.of
    BY <1>9
  <2>1. ~ToBeDue(day, sim, a)
    BY <1>18
  <2>2. a # e.of /\ ~ (e.of < a)
    BY <2>1, <1>6, <1>11, <1>18
  <2>3. a \in Nat /\ e.of \in Nat
    BY <1>6, <1>17
  <2> QED
    BY <2>2, <2>3
<1>20. Turn(day, h, e.time)
  <2>1. Increasing(h.pending)
    <3> SUFFICES ASSUME NEW i \in DOMAIN h.pending, NEW j \in DOMAIN h.pending, i < j
                 PROVE  h.pending[i] < h.pending[j]
      BY DEF Increasing
    <3>1. \A n \in Nat : \A x, y \in 1 .. n + 1 : x < y => x \in 1 .. n /\ (y \in 1 .. n \/ y = n + 1)
      OBVIOUS
    <3>2. i \in DOMAIN sim.pending /\ (j \in DOMAIN sim.pending \/ j = Len(sim.pending) + 1)
      BY <3>1, <1>9
    <3>3. h.pending[i] = sim.pending[i]
      BY <3>2, <1>9
    <3>4. CASE j \in DOMAIN sim.pending
      <4>1. h.pending[j] = sim.pending[j]
        BY <3>4, <1>9
      <4> QED
        BY <3>2, <3>3, <3>4, <4>1, <1>18
    <3>5. CASE j = Len(sim.pending) + 1
      <4>1. h.pending[j] = e.of
        BY <3>5, <1>9
      <4> QED
        BY <3>2, <3>3, <4>1, <1>19
    <3> QED
      BY <3>2, <3>4, <3>5
  <2>2. ASSUME NEW i \in DOMAIN h.pending, NEW b, b = h.pending[i]
        PROVE  /\ h.rest[b].start = Never /\ h.rest[b].outcome = "none"
               /\ day.due[b] <= e.time
               /\ ~ToBeDue(day, h, b)
    <3>1. CASE i \in DOMAIN sim.pending
      <4>1. b = sim.pending[i] /\ b \in Breaks
        BY <3>1, <2>2, <1>9
      <4>2. /\ sim.rest[b].start = Never /\ sim.rest[b].outcome = "none"
            /\ day.due[b] <= clock.now /\ ~ToBeDue(day, sim, b)
        BY <3>1, <4>1, <1>18
      <4>3. clock.now \in Nat /\ clock.now <= e.time
        BY TheFirst
      <4>4. day.due[b] <= e.time
        BY <4>1, <4>2, <4>3, <1>4, <1>17
      <4> QED
        BY <4>1, <4>2, <4>4, <1>8, <1>12
    <3>2. CASE i = Len(sim.pending) + 1
      <4>1. b = e.of
        BY <3>2, <2>2, <1>9
      <4>2. day.due[b] <= e.time
        BY <4>1, <1>6, <1>17
      <4> QED
        BY <4>1, <4>2, <1>6, <1>8, <1>11, <1>12, <1>18
    <3> QED
      BY <3>1, <3>2, <1>9
  <2>3. \A b \in Breaks : ToBeDue(day, h, b) => h.rest[b].start = Never /\ h.rest[b].outcome = "none"
    BY <1>8, <1>12, <1>18
  <2>4. \A a, b \in Breaks : a < b /\ ToBeDue(day, h, a) => ToBeDue(day, h, b)
    <3> SUFFICES ASSUME NEW a \in Breaks, NEW b \in Breaks, a < b, ToBeDue(day, h, a)
                 PROVE  ToBeDue(day, h, b)
      OBVIOUS
    <3>1. ToBeDue(day, sim, a) /\ a # e.of /\ ToBeDue(day, sim, b)
      BY <1>12, <1>18
    <3>2. ASSUME b = e.of PROVE FALSE
      <4>1. PICK f \in sim.heap : f = At(day.due[a], BreakDue, a)
        BY <3>1 DEF ToBeDue
      <4>2. f.time = day.due[a] /\ f.order = BreakDue /\ f.of = a
        BY <4>1, EventParts
      <4>3. f = e \/ Before(e, f)
        BY TheFirst
      <4>4. e.time < day.due[a] \/ (e.time = day.due[a] /\ e.of < a)
        BY <3>1, <4>2, <4>3, <1>1 DEF Before, BreakDue
      <4>5. day.due[a] <= day.due[b]
        BY <1>4 DEF Days, Schedules, InOrder
      <4> QED
        BY <3>2, <4>4, <4>5, <1>6, <1>17
    <3> QED
      BY <3>1, <3>2, <1>12
  <2>5. \A a, b \in Breaks :
          a < b /\ h.rest[b].start # Never => h.rest[a].start # Never /\ h.rest[a].start <= h.rest[b].start
    BY <1>8, <1>18
  <2> QED
    BY <2>1, <2>2, <2>3, <2>4, <2>5 DEF Turn
<1>21. Accounted(day, h, FALSE)
  <2> SUFFICES ASSUME NEW b \in Breaks
               PROVE  ToBeDue(day, h, b) \/ b \in Range(h.pending) \/ h.rest[b].start # Never
    BY DEF Accounted
  <2>1. ToBeDue(day, sim, b) \/ b \in Range(sim.pending) \/ sim.rest[b].start # Never
    BY <1>4 DEF Accounted
  <2>2. CASE b \in Range(sim.pending)
    <3>1. PICK i \in DOMAIN sim.pending : sim.pending[i] = b
      BY <2>2 DEF Range
    <3>2. i \in DOMAIN h.pending /\ h.pending[i] = b
      BY <3>1, <1>9
    <3> QED
      BY <3>2 DEF Range
  <2>3. CASE b = e.of
    <3>1. Len(sim.pending) + 1 \in DOMAIN h.pending /\ h.pending[Len(sim.pending) + 1] = b
      BY <2>3, <1>9
    <3> QED
      BY <3>1 DEF Range
  <2> QED
    BY <2>1, <2>2, <2>3, <1>8, <1>12
<1>22. Stands(day, h, e.time, FALSE)
  <2>1. \A b \in Breaks : Went(day, h.rest[b], b, e.time)
    BY <1>4, <1>8
  <2> QED
    BY <2>1, <1>4, <1>10, <1>13, <1>14, <1>15, <1>16, <1>20, <1>21 DEF Stands
<1>23. ClockRuns(e)
  BY <1>1, <1>2, <1>4, ClockGoesOn
<1>24. /\ IInv' /\ day' = day
       /\ Serves(h, h.line, sim', {})
       /\ \A c \in Customers : ToCome(day, sim', c) <=> ToCome(day, h, c)
  BY <1>1, <1>2, <1>22, <1>23, SettledKeeps
<1>25. Served(sim, sim.line, sim', {})
  BY <1>8, <1>24, ServeAfter
<1>26. \A c \in Customers : ToCome(day, sim', c) <=> ToCome(day, sim, c)
  <2>1. \A c \in Customers : At(day.arrival[c], Arrival, c) # e
    BY <1>1, EventParts DEF Arrival, BreakDue
  <2> QED
    BY <2>1, <1>8, <1>24 DEF ToCome
<1> QED
  BY <1>23, <1>24, <1>25, <1>26 DEF ClockRuns

\* The next customer comes, and waits behind the others.
LEMMA ArriveKeeps ==
  ASSUME IInv, NEW e \in First, Arrive(e)
  PROVE  /\ IInv' /\ day' = day /\ clock'.closed = FALSE /\ clock.closed = FALSE
         /\ e.of \in Customers /\ ToCome(day, sim, e.of)
         /\ Serves(sim, Append(sim.line, e.of), sim', {})
         /\ \A c \in Customers : ToCome(day, sim', c) <=> ToCome(day, sim, c) /\ c # e.of
         /\ \A c \in Customers : ToCome(day, sim, c) => e.of <= c
<1> SUFFICES ASSUME NEW p, p = Popped(e), NEW h, h = [p EXCEPT !.line = Append(@, e.of)]
             PROVE  /\ IInv' /\ day' = day /\ clock'.closed = FALSE /\ clock.closed = FALSE
                    /\ e.of \in Customers /\ ToCome(day, sim, e.of)
                    /\ Serves(sim, Append(sim.line, e.of), sim', {})
                    /\ \A c \in Customers : ToCome(day, sim', c) <=> ToCome(day, sim, c) /\ c # e.of
                    /\ \A c \in Customers : ToCome(day, sim, c) => e.of <= c
  OBVIOUS
<1>1. e.order = Arrival /\ e.time < Closing /\ ~clock.closed
  BY DEF Arrive, Handles
<1>2. Settle(h, e) /\ Tick(e)
  BY DEF Arrive
<1>3. Turning(e, p)
  BY <1>1, TurnBegins
<1>4. Stands(day, p, e.time, FALSE)
  <2>1. e.order # BreakEnd /\ e.order # BreakDue
    BY <1>1 DEF Arrival, BreakEnd, BreakDue
  <2>2. StandsButFor(day, p, e.time, FALSE, e)
    BY <1>3 DEF Turning
  <2> QED
    BY <2>1, <2>2 DEF StandsButFor, Stands
<1>5. /\ e \in sim.heap /\ e.time \in Nat
      /\ p.server = sim.server /\ p.line = sim.line /\ p.pending = sim.pending
      /\ p.customer = sim.customer /\ p.rest = sim.rest /\ p.heap = sim.heap \ {e}
      /\ day \in Days /\ p \in Sim /\ sim \in Sim
      /\ EventsStand(day, p, e.time) /\ LineStands(day, p) /\ CountersServe(p)
      /\ CountersRest(day, p) /\ Turn(day, p, e.time) /\ Accounted(day, p, FALSE)
      /\ \A b \in Breaks : Went(day, p.rest[b], b, e.time)
      /\ EventsStand(day, sim, clock.now) /\ LineStands(day, sim)
  BY <1>3, <1>4 DEF Turning, Stands
<1>6. e.of \in Customers /\ e.time = day.arrival[e.of] /\ e \in Events
  BY <1>1, <1>3, <1>5 DEF EventsStand, Turning
<1>7. e = At(day.arrival[e.of], Arrival, e.of)
  BY <1>1, <1>6 DEF At, Events
<1>8. /\ h.server = sim.server /\ h.line = Append(sim.line, e.of) /\ h.pending = sim.pending
      /\ h.customer = sim.customer /\ h.rest = sim.rest /\ h.heap = sim.heap \ {e}
  BY <1>5 DEF Sim
<1>9. /\ sim.line \in Seq(Customers) /\ h.line \in Seq(Customers)
      /\ Len(sim.line) \in Nat /\ DOMAIN sim.line = 1 .. Len(sim.line)
      /\ DOMAIN h.line = 1 .. Len(sim.line) + 1
      /\ \A i \in DOMAIN sim.line : h.line[i] = sim.line[i] /\ sim.line[i] \in Customers
      /\ h.line[Len(sim.line) + 1] = e.of
  BY <1>5, <1>6, <1>8, AppendProperties, LenProperties, ElementOfSeq DEF Sim
<1>10. h \in Sim
  <2>1. h = [server |-> h.server, line |-> h.line, pending |-> h.pending,
             customer |-> h.customer, rest |-> h.rest, heap |-> h.heap]
    BY <1>5 DEF Sim
  <2> QED
    BY <2>1, <1>5, <1>8, <1>9 DEF Sim
<1>11. ToCome(day, sim, e.of)
  BY <1>5, <1>7 DEF ToCome
<1>12. \A c \in Customers : ToCome(day, h, c) <=> ToCome(day, sim, c) /\ c # e.of
  <2> SUFFICES ASSUME NEW c \in Customers PROVE ToCome(day, h, c) <=> ToCome(day, sim, c) /\ c # e.of
    OBVIOUS
  <2>1. At(day.arrival[c], Arrival, c) = e <=> c = e.of
    BY <1>7, EventParts
  <2> QED
    BY <2>1, <1>8 DEF ToCome
<1>13. /\ \A c \in Customers :
            /\ ToCome(day, sim, c) => sim.customer[c].start = Never
            /\ sim.customer[c].departed => sim.customer[c].start # Never
       /\ \A i \in DOMAIN sim.line :
            sim.customer[sim.line[i]].start = Never /\ ~ToCome(day, sim, sim.line[i])
       /\ IsInjective(sim.line)
  BY <1>5 DEF LineStands
<1>14. \A i \in DOMAIN h.line : i \in DOMAIN sim.line \/ i = Len(sim.line) + 1
  <2>1. \A n \in Nat : \A x \in 1 .. n + 1 : x \in 1 .. n \/ x = n + 1
    OBVIOUS
  <2> QED
    BY <2>1, <1>9
<1>15. \A i \in DOMAIN sim.line : sim.line[i] # e.of
  BY <1>11, <1>13
<1>16. LineStands(day, h)
  <2>1. \A c \in Customers :
          /\ ToCome(day, h, c) => h.customer[c].start = Never
          /\ h.customer[c].departed => h.customer[c].start # Never
    BY <1>8, <1>12, <1>13
  <2>2. ASSUME NEW i \in DOMAIN h.line, NEW c, c = h.line[i]
        PROVE  h.customer[c].start = Never /\ ~ToCome(day, h, c)
    <3>1. CASE i \in DOMAIN sim.line
      <4>1. c = sim.line[i] /\ c \in Customers
        BY <3>1, <2>2, <1>9
      <4>2. sim.customer[c].start = Never /\ ~ToCome(day, sim, c)
        BY <3>1, <4>1, <1>13
      <4> QED
        BY <4>1, <4>2, <1>8, <1>12
    <3>2. CASE i = Len(sim.line) + 1
      <4>1. c = e.of
        BY <3>2, <2>2, <1>9
      <4> QED
        BY <4>1, <1>6, <1>8, <1>11, <1>12, <1>13
    <3> QED
      BY <3>1, <3>2, <1>14
  <2>3. IsInjective(h.line)
    <3> SUFFICES ASSUME NEW i \in DOMAIN h.line, NEW j \in DOMAIN h.line, h.line[i] = h.line[j]
                 PROVE  i = j
      BY DEF IsInjective
    <3>1. CASE i \in DOMAIN sim.line /\ j \in DOMAIN sim.line
      <4>1. sim.line[i] = sim.line[j]
        BY <3>1, <1>9
      <4> QED
        BY <3>1, <4>1, <1>13 DEF IsInjective
    <3>2. CASE i \in DOMAIN sim.line /\ j = Len(sim.line) + 1
      BY <3>2, <1>9, <1>15
    <3>3. CASE i = Len(sim.line) + 1 /\ j \in DOMAIN sim.line
      BY <3>3, <1>9, <1>15
    <3>4. CASE i = Len(sim.line) + 1 /\ j = Len(sim.line) + 1
      BY <3>4
    <3> QED
      BY <3>1, <3>2, <3>3, <3>4, <1>14
  <2> QED
    BY <2>1, <2>2, <2>3 DEF LineStands
<1>17. Stands(day, h, e.time, FALSE)
  <2>1. h.server = p.server /\ h.pending = p.pending /\ h.customer = p.customer /\ h.rest = p.rest /\ h.heap = p.heap
    BY <1>5, <1>8
  <2>2. EventsStand(day, h, e.time)
    BY <2>1, <1>5, SameEvents
  <2>3. CountersServe(h)
    BY <2>1, <1>5 DEF CountersServe
  <2>4. CountersRest(day, h)
    BY <2>1, <1>5 DEF CountersRest, Underway
  <2>5. Turn(day, h, e.time) /\ Accounted(day, h, FALSE)
    <3>1. \A b \in Breaks : ToBeDue(day, h, b) <=> ToBeDue(day, p, b)
      BY <2>1 DEF ToBeDue
    <3>2. Turn(day, h, e.time)
      BY <2>1, <3>1, <1>5, SameTurn
    <3> QED
      BY <2>1, <3>1, <3>2, <1>5 DEF Accounted
  <2>6. \A b \in Breaks : Went(day, h.rest[b], b, e.time)
    BY <2>1, <1>5
  <2> QED
    BY <2>2, <2>3, <2>4, <2>5, <2>6, <1>5, <1>10, <1>16 DEF Stands
<1>18. ClockRuns(e)
  BY <1>1, <1>2, <1>5, ClockGoesOn
<1>19. /\ IInv' /\ day' = day
       /\ Serves(h, h.line, sim', {})
       /\ \A c \in Customers : ToCome(day, sim', c) <=> ToCome(day, h, c)
  BY <1>1, <1>2, <1>17, <1>18, SettledKeeps
<1>20. Serves(sim, Append(sim.line, e.of), sim', {})
  <2>1. Serves(h, Append(sim.line, e.of), sim', {})
    BY <1>8, <1>19
  <2> QED
    BY <2>1, <1>8, ServesFrom
<1>21. ASSUME NEW c \in Customers, ToCome(day, sim, c) PROVE e.of <= c
  <2>1. PICK f \in sim.heap : f = At(day.arrival[c], Arrival, c)
    BY <1>21 DEF ToCome
  <2>2. f.time = day.arrival[c] /\ f.order = Arrival /\ f.of = c
    BY <2>1, EventParts
  <2>3. f = e \/ Before(e, f)
    BY TheFirst
  <2>4. c = e.of \/ day.arrival[e.of] < day.arrival[c]
        \/ (day.arrival[e.of] = day.arrival[c] /\ e.of < c)
    BY <2>2, <2>3, <1>1, <1>6 DEF Before, Arrival
  <2>5. c < e.of => day.arrival[c] <= day.arrival[e.of]
    BY <1>5, <1>6 DEF Days, Schedules, InOrder
  <2>6. c \in Nat /\ e.of \in Nat /\ day.arrival[c] \in Nat /\ day.arrival[e.of] \in Nat
    BY <1>5, <1>6, ConstantsAssumption DEF Customers, Days, Schedules
  <2> QED
    BY <2>4, <2>5, <2>6
<1> QED
  BY <1>1, <1>6, <1>11, <1>12, <1>18, <1>19, <1>20, <1>21 DEF ClockRuns

-----------------------------------------------------------------------------
(* Closing *)

\* release_idle closes free counters once nobody waits: all that stands still stands.
LEMMA ReleaseIdleKeeps ==
  ASSUME NEW s, NEW now, NEW closed, Stands(day, s, now, closed), NEW t, t = ReleaseIdle(s)
  PROVE  Stands(day, t, now, closed) /\ SameButCounters(s, t) /\ (t.line # <<>> => t = s)
<1>1. CASE s.line # <<>>
  BY <1>1 DEF ReleaseIdle, SameButCounters
<1>2. CASE s.line = <<>>
  <2> SUFFICES ASSUME NEW servers,
                      servers = [v \in DOMAIN s.server |->
                        IF s.server[v].state = "IDLE" THEN Closed ELSE s.server[v]]
               PROVE  Stands(day, t, now, closed) /\ SameButCounters(s, t) /\ (t.line # <<>> => t = s)
    OBVIOUS
  <2>1. s \in Sim
    BY DEF Stands
  <2>2. /\ Len(s.server) \in Nat /\ DOMAIN s.server = 1 .. Len(s.server)
        /\ \A v \in DOMAIN s.server : s.server[v] \in Server
    BY <2>1, CountersAreNumbers
  <2>3. t = [s EXCEPT !.server = servers]
    BY <1>2 DEF ReleaseIdle
  <2>4. ASSUME NEW v \in DOMAIN s.server
        PROVE  /\ servers[v] \in Server
               /\ \/ servers[v] = s.server[v]
                  \/ /\ s.server[v].state \notin {"BUSY", "DRAINING", "ON_BREAK"}
                     /\ servers[v].state # "ON_BREAK" /\ servers[v].rest = 0
    BY <2>2, FreeCounters
  <2>5. MayChange(s, Len(s.server), servers)
    BY <2>2, <2>4 DEF MayChange
  <2>6. Stands(day, t, now, closed)
    BY <2>2, <2>3, <2>5, CountersChange
  <2>7. SameButCounters(s, t)
    BY <2>1, <2>3 DEF Sim, SameButCounters
  <2> QED
    BY <2>6, <2>7, <1>2 DEF SameButCounters
<1> QED
  BY <1>1, <1>2

\* Everyone in line is sent away, and nobody else.
Sent(s, t) ==
  /\ t.line = <<>> /\ t.pending = s.pending /\ t.heap = s.heap
  /\ \A c \in Customers :
       /\ t.customer[c].start = s.customer[c].start
       /\ t.customer[c].departed = s.customer[c].departed
       /\ t.customer[c].unserved # "no" <=> s.customer[c].unserved # "no" \/ c \in Range(s.line)

\* When everyone in line is sent away, all that stands still stands.
LEMMA SentAwayKeeps ==
  ASSUME NEW s, NEW now, NEW closed, Stands(day, s, now, closed),
         NEW reason \in {"hard_cutoff", "no_eligible_server"}, NEW t, t = SentAway(s, reason)
  PROVE  Stands(day, t, now, closed) /\ Sent(s, t)
<1>1. /\ s \in Sim /\ EventsStand(day, s, now) /\ LineStands(day, s) /\ CountersServe(s)
      /\ CountersRest(day, s)
      /\ Turn(day, s, now) /\ (\A b \in Breaks : Went(day, s.rest[b], b, now))
      /\ Accounted(day, s, closed) /\ day \in Days
  BY DEF Stands
<1>2. /\ t.server = s.server /\ t.line = <<>> /\ t.pending = s.pending /\ t.rest = s.rest
      /\ t.heap = s.heap
      /\ t.customer = [c \in Customers |->
           IF c \in Range(s.line) THEN [s.customer[c] EXCEPT !.unserved = reason] ELSE s.customer[c]]
      /\ t = [server |-> t.server, line |-> t.line, pending |-> t.pending,
              customer |-> t.customer, rest |-> t.rest, heap |-> t.heap]
  BY <1>1 DEF SentAway, Sim
<1>3. \A c \in Customers : s.customer[c] \in Customer
  BY <1>1 DEF Sim
<1>4. ASSUME NEW c \in Customers
      PROVE  /\ t.customer[c] \in Customer
             /\ t.customer[c].start = s.customer[c].start
             /\ t.customer[c].server = s.customer[c].server
             /\ t.customer[c].departed = s.customer[c].departed
             /\ t.customer[c].unserved # "no" <=> s.customer[c].unserved # "no" \/ c \in Range(s.line)
  <2>1. CASE c \in Range(s.line)
    <3>1. t.customer[c] = [s.customer[c] EXCEPT !.unserved = reason]
      BY <2>1, <1>2
    <3> QED
      BY <2>1, <3>1, <1>3 DEF Customer
  <2>2. CASE c \notin Range(s.line)
    BY <2>2, <1>2, <1>3
  <2> QED
    BY <2>1, <2>2
<1>5. t \in Sim
  <2>1. t.customer \in [Customers -> Customer]
    BY <1>2, <1>4
  <2>2. t.line \in Seq(Customers)
    BY <1>2, EmptySeq
  <2> QED
    BY <2>1, <2>2, <1>1, <1>2 DEF Sim
<1>6. EventsStand(day, t, now)
  BY <1>1, <1>2, <1>4 DEF EventsStand
<1>7. LineStands(day, t)
  <2>1. \A c \in Customers :
          /\ ToCome(day, t, c) => t.customer[c].start = Never
          /\ t.customer[c].departed => t.customer[c].start # Never
    BY <1>1, <1>2, <1>4 DEF LineStands, ToCome
  <2>2. DOMAIN t.line = {} /\ IsInjective(t.line)
    BY <1>2, EmptySeq DEF IsInjective
  <2> QED
    BY <2>1, <2>2 DEF LineStands
<1>8. CountersServe(t)
  BY <1>1, <1>2, <1>4 DEF CountersServe
<1>9. CountersRest(day, t)
  BY <1>1, <1>2 DEF CountersRest, Underway
<1>10. \A b \in Breaks : ToBeDue(day, t, b) <=> ToBeDue(day, s, b)
  BY <1>2 DEF ToBeDue
<1>11. Turn(day, t, now)
  BY <1>1, <1>2, <1>10, SameTurn
<1>12. Accounted(day, t, closed)
  BY <1>1, <1>2, <1>10 DEF Accounted
<1>13. \A b \in Breaks : Went(day, t.rest[b], b, now)
  BY <1>1, <1>2
<1>14. Sent(s, t)
  BY <1>2, <1>4 DEF Sent
<1> QED
  BY <1>1, <1>5, <1>6, <1>7, <1>8, <1>9, <1>11, <1>12, <1>13, <1>14 DEF Stands

\* Closing time has come, and the services that end then are out of the heap.
LEMMA ClosingTime ==
  ASSUME IInv, ~clock.closed, \A e \in sim.heap : e.time >= Closing,
         NEW ending, ending = {c \in Customers : At(Closing, Completion, c) \in sim.heap},
         NEW u, u = [sim EXCEPT !.heap = {e \in @ : e.order = Completion => e.of \notin ending}]
  PROVE  /\ Stands(day, u, Closing, FALSE)
         /\ \A c \in ending : u.customer[c].start # Never /\ ~u.customer[c].departed
         /\ \A c \in Customers : ~ToCome(day, sim, c)
         /\ \A b \in Breaks : ~ToBeDue(day, sim, b)
<1>1. /\ sim \in Sim /\ EventsStand(day, sim, clock.now) /\ LineStands(day, sim) /\ CountersServe(sim)
      /\ CountersRest(day, sim)
      /\ Turn(day, sim, clock.now) /\ (\A b \in Breaks : Went(day, sim.rest[b], b, clock.now))
      /\ Accounted(day, sim, FALSE) /\ day \in Days
  <2>1. clock.closed = FALSE
    BY DEF IInv
  <2> QED
    BY <2>1 DEF IInv, Stands
<1>2. clock.now \in Nat /\ clock.now <= Closing /\ Closing \in Nat
  BY ConstantsAssumption DEF IInv
<1>3. /\ u.server = sim.server /\ u.line = sim.line /\ u.pending = sim.pending
      /\ u.customer = sim.customer /\ u.rest = sim.rest
      /\ u.heap = {e \in sim.heap : e.order = Completion => e.of \notin ending}
      /\ u = [server |-> u.server, line |-> u.line, pending |-> u.pending,
              customer |-> u.customer, rest |-> u.rest, heap |-> u.heap]
  BY <1>1 DEF Sim
<1>4. u \in Sim
  <2>1. u.heap \subseteq Events
    BY <1>1, <1>3 DEF Sim
  <2> QED
    BY <2>1, <1>1, <1>3 DEF Sim
<1>5. EventsStand(day, u, Closing)
  BY <1>1, <1>3 DEF EventsStand
<1>6. \A c \in Customers : ~ToCome(day, sim, c)
  <2> SUFFICES ASSUME NEW c \in Customers, NEW e \in sim.heap, e = At(day.arrival[c], Arrival, c)
               PROVE  FALSE
    BY DEF ToCome
  <2>1. e.time = day.arrival[c] /\ day.arrival[c] \in 0 .. Closing - 1
    BY <1>1, EventParts DEF Days, Schedules
  <2> QED
    BY <2>1, <1>2
<1>7. \A b \in Breaks : ~ToBeDue(day, sim, b)
  <2> SUFFICES ASSUME NEW b \in Breaks, NEW e \in sim.heap, e = At(day.due[b], BreakDue, b)
               PROVE  FALSE
    BY DEF ToBeDue
  <2>1. e.time = day.due[b] /\ day.due[b] \in 0 .. Closing - 1
    BY <1>1, EventParts DEF Days, Schedules
  <2> QED
    BY <2>1, <1>2
<1>8. LineStands(day, u)
  <2>1. \A c \in Customers : ToCome(day, u, c) => ToCome(day, sim, c)
    BY <1>3 DEF ToCome
  <2> QED
    BY <2>1, <1>1, <1>3, SameLine
<1>9. CountersServe(u)
  BY <1>1, <1>3 DEF CountersServe
<1>10. CountersRest(day, u)
  <2>1. ASSUME NEW v, NEW b, Underway(day, sim, v, b) PROVE Underway(day, u, v, b)
    <3>1. At(sim.rest[b].start + day.length[b], BreakEnd, b).order = BreakEnd
      BY EventParts
    <3>2. BreakEnd # Completion
      BY DEF BreakEnd, Completion
    <3> QED
      BY <2>1, <3>1, <3>2, <1>3 DEF Underway
  <2>2. ASSUME NEW v \in DOMAIN sim.server
        PROVE  /\ sim.server[v].state = "ON_BREAK" <=> sim.server[v].rest # 0
               /\ sim.server[v].rest # 0 => Underway(day, u, v, sim.server[v].rest)
    BY <2>1, <1>1 DEF CountersRest
  <2>3. /\ \A b \in Breaks :
             u.rest[b].start # Never /\ u.rest[b].outcome = "none" =>
               \E v \in DOMAIN u.server : u.server[v].rest = b
        /\ \A b \in Breaks : u.rest[b].start # Never => u.rest[b].server \in DOMAIN u.server
    BY <1>1, <1>3 DEF CountersRest
  <2>4. \A v \in DOMAIN u.server :
          /\ u.server[v].state = "ON_BREAK" <=> u.server[v].rest # 0
          /\ u.server[v].rest # 0 => Underway(day, u, v, u.server[v].rest)
    BY <2>2, <1>3
  <2> QED
    BY <2>3, <2>4 DEF CountersRest
<1>11. Turn(day, u, Closing) /\ Accounted(day, u, FALSE)
  <2>1. \A b \in Breaks : ToBeDue(day, u, b) <=> ToBeDue(day, sim, b)
    BY <1>3, <1>7 DEF ToBeDue
  <2>2. Turn(day, u, clock.now)
    BY <2>1, <1>1, <1>3, SameTurn
  <2>3. \A i \in DOMAIN u.pending : u.pending[i] \in Breaks
    <3>1. u.pending \in Seq(Breaks)
      BY <1>4 DEF Sim
    <3> QED
      BY <3>1, ElementOfSeq, LenProperties
  <2>4. \A b \in Breaks : day.due[b] \in Nat
    BY <1>1 DEF Days, Schedules
  <2>5. ASSUME NEW i \in DOMAIN u.pending PROVE day.due[u.pending[i]] <= Closing
    <3>1. day.due[u.pending[i]] <= clock.now
      BY <2>2 DEF Turn
    <3>2. day.due[u.pending[i]] \in Nat
      BY <2>3, <2>4
    <3> QED
      BY <3>1, <3>2, <1>2
  <2>6. Turn(day, u, Closing)
    BY <2>2, <2>5 DEF Turn
  <2> QED
    BY <2>1, <2>6, <1>1, <1>3 DEF Accounted
<1>12. \A b \in Breaks : Went(day, u.rest[b], b, Closing)
  <2> SUFFICES ASSUME NEW b \in Breaks PROVE Went(day, sim.rest[b], b, Closing)
    BY <1>3
  <2>1. Went(day, sim.rest[b], b, clock.now) /\ sim.rest[b] \in Rest
    BY <1>1 DEF Sim
  <2>2. sim.rest[b].start # Never => sim.rest[b].start \in Nat
    BY <2>1 DEF Rest
  <2> QED
    BY <2>1, <2>2, <1>2 DEF Went
<1>13. \A c \in ending : u.customer[c].start # Never /\ ~u.customer[c].departed
  <2> SUFFICES ASSUME NEW c \in Customers, NEW e \in sim.heap, e = At(Closing, Completion, c)
               PROVE  sim.customer[c].start # Never /\ ~sim.customer[c].departed
    BY <1>3
  <2>1. e.order = Completion /\ e.of = c
    BY EventParts
  <2> QED
    BY <2>1, <1>1 DEF EventsStand
<1> QED
  BY <1>1, <1>4, <1>5, <1>6, <1>7, <1>8, <1>9, <1>10, <1>11, <1>12, <1>13 DEF Stands

\* t is y with the due breaks, those of queue, cancelled, and the events of heap.
RestsCut(y, t, queue, heap) ==
  /\ t.server = y.server /\ t.line = y.line /\ t.customer = y.customer
  /\ t.pending = <<>> /\ t.heap = heap
  /\ t.rest = [b \in Breaks |->
       IF b \in Range(queue) THEN [y.rest[b] EXCEPT !.outcome = "cancelled_at_closing"] ELSE y.rest[b]]
  /\ t = [server |-> t.server, line |-> t.line, pending |-> t.pending,
          customer |-> t.customer, rest |-> t.rest, heap |-> t.heap]

\* The fields BreaksCut leaves and changes.
LEMMA BreaksCutFields ==
  ASSUME NEW s \in Sim, NEW y, y = EndBreaks(s, With(s, "ON_BREAK"), Closing, "truncated_by_closing")
  PROVE  RestsCut(y, BreaksCut(s), s.pending, s.heap)
<1> SUFFICES ASSUME NEW t, t = BreaksCut(s) PROVE RestsCut(y, t, s.pending, s.heap)
  OBVIOUS
<1>1. t = [y EXCEPT
        !.pending = <<>>,
        !.rest = [b \in Breaks |->
           IF b \in Range(s.pending) THEN [@[b] EXCEPT !.outcome = "cancelled_at_closing"] ELSE @[b]]]
  BY DEF BreaksCut
<1>2. BreaksEnded(s, y, With(s, "ON_BREAK"), Closing, "truncated_by_closing")
  BY EndBreaksFields
<1>3. /\ y = [server |-> y.server, line |-> s.line, pending |-> s.pending,
              customer |-> s.customer, rest |-> y.rest, heap |-> s.heap]
      /\ y.line = s.line /\ y.customer = s.customer /\ y.heap = s.heap
  BY <1>2 DEF BreaksEnded
<1> QED
  BY <1>1, <1>3 DEF RestsCut

\* When at closing no break is to come or under way and those due are cancelled, every break has
\* its outcome, and all that stands still stands.
LEMMA CutStands ==
  ASSUME NEW x, Stands(day, x, Closing, FALSE),
         \A v \in DOMAIN x.server : x.server[v].state # "ON_BREAK",
         \A b \in Breaks : ~ToBeDue(day, x, b),
         NEW heap, heap \subseteq x.heap, \A e \in heap : e.order = Completion,
         NEW t, RestsCut(x, t, x.pending, heap)
  PROVE  Stands(day, t, Closing, TRUE)
<1>1. /\ t.server = x.server /\ t.line = x.line /\ t.customer = x.customer
      /\ t.pending = <<>> /\ t.heap = heap
      /\ t.rest = [b \in Breaks |->
           IF b \in Range(x.pending) THEN [x.rest[b] EXCEPT !.outcome = "cancelled_at_closing"] ELSE x.rest[b]]
  BY DEF RestsCut
<1>2. /\ x \in Sim /\ EventsStand(day, x, Closing) /\ LineStands(day, x) /\ CountersServe(x)
      /\ CountersRest(day, x) /\ Turn(day, x, Closing)
      /\ (\A b \in Breaks : Went(day, x.rest[b], b, Closing)) /\ Accounted(day, x, FALSE)
      /\ day \in Days
  BY DEF Stands
<1>3. \A i \in DOMAIN x.pending : x.pending[i] \in Breaks /\ x.rest[x.pending[i]].start = Never
  <2>1. x.pending \in Seq(Breaks)
    BY <1>2 DEF Sim
  <2>2. \A i \in DOMAIN x.pending : x.pending[i] \in Breaks
    BY <2>1, ElementOfSeq, LenProperties
  <2>3. \A i \in DOMAIN x.pending : x.rest[x.pending[i]].start = Never
    BY <1>2 DEF Turn
  <2> QED
    BY <2>2, <2>3
<1>4. \A b \in Breaks : x.rest[b].start # Never => x.rest[b].outcome # "none"
  <2> SUFFICES ASSUME NEW b \in Breaks, x.rest[b].start # Never, x.rest[b].outcome = "none" PROVE FALSE
    OBVIOUS
  <2>1. PICK v \in DOMAIN x.server : x.server[v].rest = b
    BY <1>2 DEF CountersRest
  <2>2. b # 0
    BY ConstantsAssumption DEF Breaks
  <2>3. x.server[v].state = "ON_BREAK"
    BY <2>1, <2>2, <1>2 DEF CountersRest
  <2> QED
    BY <2>3
<1>5. ASSUME NEW b \in Breaks
      PROVE  /\ t.rest[b] \in Rest
             /\ t.rest[b].start = x.rest[b].start /\ t.rest[b].server = x.rest[b].server
             /\ t.rest[b].outcome # "none"
             /\ Went(day, t.rest[b], b, Closing)
  <2>1. x.rest[b] \in Rest /\ Went(day, x.rest[b], b, Closing)
    BY <1>2 DEF Sim
  <2>2. CASE b \in Range(x.pending)
    <3>1. PICK i \in DOMAIN x.pending : x.pending[i] = b
      BY <2>2 DEF Range
    <3>2. x.rest[b].start = Never
      BY <3>1, <1>3
    <3>3. t.rest[b] = [x.rest[b] EXCEPT !.outcome = "cancelled_at_closing"]
      BY <2>2, <1>1
    <3>4. /\ t.rest[b] \in Rest /\ t.rest[b].start = Never /\ t.rest[b].server = x.rest[b].server
          /\ t.rest[b].outcome = "cancelled_at_closing"
      BY <2>1, <3>2, <3>3 DEF Rest, Outcomes
    <3> QED
      BY <3>2, <3>4 DEF Went
  <2>3. CASE b \notin Range(x.pending)
    <3>1. t.rest[b] = x.rest[b]
      BY <2>3, <1>1
    <3>2. x.rest[b].start # Never
      BY <2>3, <1>2 DEF Accounted
    <3> QED
      BY <2>1, <3>1, <3>2, <1>4
  <2> QED
    BY <2>2, <2>3
<1>6. t \in Sim
  <2>1. t.rest \in [Breaks -> Rest]
    BY <1>1, <1>5
  <2>2. t.pending \in Seq(Breaks)
    BY <1>1, EmptySeq
  <2>3. t.heap \subseteq Events
    BY <1>1, <1>2 DEF Sim
  <2>4. /\ t.server \in Seq(Server) /\ t.line \in Seq(Customers)
        /\ t.customer \in [Customers -> Customer]
    BY <1>1, <1>2 DEF Sim
  <2>5. t = [server |-> t.server, line |-> t.line, pending |-> t.pending,
             customer |-> t.customer, rest |-> t.rest, heap |-> t.heap]
    BY DEF RestsCut
  <2> QED
    BY <2>1, <2>2, <2>3, <2>4, <2>5 DEF Sim
<1>7. EventsStand(day, t, Closing)
  <2>1. \A e \in t.heap : e \in x.heap /\ e.order = Completion
    BY <1>1
  <2>2. Completion # BreakEnd /\ Completion # Capacity /\ Completion # BreakDue /\ Completion # Arrival
    BY DEF Completion, BreakEnd, Capacity, BreakDue, Arrival
  <2> QED
    BY <2>1, <2>2, <1>1, <1>2 DEF EventsStand
<1>8. LineStands(day, t)
  <2>1. \A c \in Customers : ToCome(day, t, c) => ToCome(day, x, c)
    BY <1>1 DEF ToCome
  <2> QED
    BY <2>1, <1>1, <1>2, SameLine
<1>9. CountersServe(t)
  BY <1>1, <1>2 DEF CountersServe
<1>10. CountersRest(day, t)
  <2>1. \A v \in DOMAIN t.server : t.server[v].state # "ON_BREAK" /\ t.server[v].rest = 0
    BY <1>1, <1>2 DEF CountersRest
  <2>2. \A b \in Breaks : t.rest[b].start # Never => t.rest[b].server \in DOMAIN t.server
    BY <1>1, <1>2, <1>5 DEF CountersRest
  <2>3. \A b \in Breaks : t.rest[b].outcome # "none"
    BY <1>5
  <2> QED
    BY <2>1, <2>2, <2>3 DEF CountersRest
<1>11. \A b \in Breaks : ~ToBeDue(day, t, b)
  BY <1>1 DEF ToBeDue
<1>12. Turn(day, t, Closing)
  <2>1. DOMAIN t.pending = {}
    BY <1>1, EmptySeq
  <2>2. \A a, b \in Breaks :
          a < b /\ x.rest[b].start # Never => x.rest[a].start # Never /\ x.rest[a].start <= x.rest[b].start
    BY <1>2 DEF Turn
  <2>3. \A b \in Breaks : t.rest[b].start = x.rest[b].start
    BY <1>5
  <2>4. \A a, b \in Breaks :
          a < b /\ t.rest[b].start # Never => t.rest[a].start # Never /\ t.rest[a].start <= t.rest[b].start
    BY <2>2, <2>3
  <2> QED
    BY <2>1, <2>4, <1>11 DEF Turn, Increasing
<1>13. Accounted(day, t, TRUE)
  BY <1>5 DEF Accounted
<1> QED
  BY <1>2, <1>5, <1>6, <1>7, <1>8, <1>9, <1>10, <1>12, <1>13 DEF Stands

\* When services end, what becomes of counters, customers and breaks does not depend on the heap.
LEMMA CompleteWithoutHeap ==
  ASSUME NEW s \in Sim, NEW r \in Sim, NEW C,
         r.server = s.server, r.line = s.line, r.pending = s.pending,
         r.customer = s.customer, r.rest = s.rest
  PROVE  LET t == Complete(s, C)
             u == Complete(r, C)
         IN /\ u.server = t.server /\ u.line = t.line /\ u.pending = t.pending
            /\ u.customer = t.customer /\ u.rest = t.rest /\ u.heap = r.heap
            /\ t \in Sim => u \in Sim
<1> SUFFICES ASSUME NEW t, t = Complete(s, C), NEW u, u = Complete(r, C)
             PROVE  /\ u.server = t.server /\ u.line = t.line /\ u.pending = t.pending
                    /\ u.customer = t.customer /\ u.rest = t.rest /\ u.heap = r.heap
                    /\ t \in Sim => u \in Sim
  OBVIOUS
<1>1. ServicesEnded(s, t, C, {s.customer[c].server : c \in C})
  BY CompleteFields
<1>2. ServicesEnded(r, u, C, {r.customer[c].server : c \in C})
  BY CompleteFields
<1>3. /\ u.server = t.server /\ u.line = t.line /\ u.pending = t.pending
      /\ u.customer = t.customer /\ u.rest = t.rest /\ u.heap = r.heap
  BY <1>1, <1>2 DEF ServicesEnded
<1>4. u = [server |-> u.server, line |-> u.line, pending |-> u.pending,
           customer |-> u.customer, rest |-> u.rest, heap |-> u.heap]
  BY <1>2 DEF ServicesEnded
<1>5. r.heap \subseteq Events
  BY DEF Sim
<1>6. t \in Sim => u \in Sim
  BY <1>3, <1>4, <1>5 DEF Sim
<1> QED
  BY <1>3, <1>6

\* The breaks end the same whatever the heap.
LEMMA EndBreaksWithoutHeap ==
  ASSUME NEW s \in Sim, NEW r \in Sim, NEW V, NEW now, NEW outcome,
         r.server = s.server, r.line = s.line, r.customer = s.customer, r.rest = s.rest
  PROVE  LET t == EndBreaks(s, V, now, outcome)
             u == EndBreaks(r, V, now, outcome)
         IN u.server = t.server /\ u.line = t.line /\ u.customer = t.customer /\ u.rest = t.rest
<1> SUFFICES ASSUME NEW t, t = EndBreaks(s, V, now, outcome), NEW u, u = EndBreaks(r, V, now, outcome)
             PROVE  u.server = t.server /\ u.line = t.line /\ u.customer = t.customer /\ u.rest = t.rest
  OBVIOUS
<1>1. BreaksEnded(s, t, V, now, outcome)
  BY EndBreaksFields
<1>2. BreaksEnded(r, u, V, now, outcome)
  BY EndBreaksFields
<1>3. /\ t.line = s.line /\ t.customer = s.customer
      /\ t.server = [v \in DOMAIN s.server |->
           IF v \in V THEN (IF outcome = "completed" THEN Idle ELSE Closed) ELSE s.server[v]]
      /\ t.rest = [b \in Breaks |->
           IF \E v \in V : s.server[v].rest = b
             THEN [s.rest[b] EXCEPT !.finish = now, !.outcome = outcome] ELSE s.rest[b]]
  BY <1>1 DEF BreaksEnded
<1>4. /\ u.line = r.line /\ u.customer = r.customer
      /\ u.server = [v \in DOMAIN r.server |->
           IF v \in V THEN (IF outcome = "completed" THEN Idle ELSE Closed) ELSE r.server[v]]
      /\ u.rest = [b \in Breaks |->
           IF \E v \in V : r.server[v].rest = b
             THEN [r.rest[b] EXCEPT !.finish = now, !.outcome = outcome] ELSE r.rest[b]]
  BY <1>2 DEF BreaksEnded
<1>5. u.line = t.line /\ u.customer = t.customer
  BY <1>3, <1>4
<1>6. u.server = t.server
  <2>1. u.server = [v \in DOMAIN s.server |->
          IF v \in V THEN (IF outcome = "completed" THEN Idle ELSE Closed) ELSE s.server[v]]
    <3> SUFFICES ASSUME NEW S, S = s.server
                 PROVE  u.server = [v \in DOMAIN S |->
                          IF v \in V THEN (IF outcome = "completed" THEN Idle ELSE Closed) ELSE S[v]]
      OBVIOUS
    <3>1. r.server = S
      OBVIOUS
    <3>2. u.server = [v \in DOMAIN r.server |->
          IF v \in V THEN (IF outcome = "completed" THEN Idle ELSE Closed) ELSE r.server[v]]
      BY <1>4
    <3> QED
      BY <3>1, <3>2
  <2> QED
    BY <2>1, <1>3
<1>7. u.rest = t.rest
  <2>1. ASSUME NEW b \in Breaks, \E v \in V : s.server[v].rest = b PROVE u.rest[b] = t.rest[b]
    <3>1. t.rest[b] = [s.rest[b] EXCEPT !.finish = now, !.outcome = outcome]
      BY <1>3, <2>1, Zenon
    <3>2. \E v \in V : r.server[v].rest = b
      BY <2>1
    <3>3. u.rest[b] = [r.rest[b] EXCEPT !.finish = now, !.outcome = outcome]
      BY <1>4, <3>2, Zenon
    <3> QED
      BY <3>1, <3>3
  <2>2. ASSUME NEW b \in Breaks, ~ (\E v \in V : s.server[v].rest = b) PROVE u.rest[b] = t.rest[b]
    <3>1. t.rest[b] = s.rest[b]
      BY <1>3, <2>2, Zenon
    <3>2. ~ (\E v \in V : r.server[v].rest = b)
      BY <2>2
    <3>3. u.rest[b] = r.rest[b]
      BY <1>4, <3>2, Zenon
    <3> QED
      BY <3>1, <3>3
  <2>3. u.rest = [b \in Breaks |-> u.rest[b]] /\ t.rest = [b \in Breaks |-> t.rest[b]]
    BY <1>3, <1>4
  <2>4. \A b \in Breaks : u.rest[b] = t.rest[b]
    BY <2>1, <2>2
  <2> QED
    BY <2>3, <2>4
<1> QED
  BY <1>5, <1>6, <1>7

\* At closing the services C have ended and the breaks are cut, from s to t.
Cut(s, t, C) ==
  /\ C \subseteq Customers
  /\ \A c \in C : s.customer[c].start # Never /\ ~s.customer[c].departed
  /\ t.line = s.line /\ t.pending = <<>>
  /\ \A e \in t.heap : e.order = Completion
  /\ \A c \in Customers :
       /\ t.customer[c].start = s.customer[c].start
       /\ t.customer[c].unserved = s.customer[c].unserved
       /\ t.customer[c].departed <=> s.customer[c].departed \/ c \in C

\* When the breaks are cut at closing, all that stands still stands, and every break has its outcome.
LEMMA BreaksCutKeeps ==
  ASSUME IInv, ~clock.closed, \A e \in sim.heap : e.time >= Closing,
         NEW ending, ending = {c \in Customers : At(Closing, Completion, c) \in sim.heap},
         NEW last, last = LastCompletions, NEW t, t = BreaksCut(last)
  PROVE  /\ Stands(day, t, Closing, TRUE)
         /\ Cut(sim, t, ending)
         /\ \A c \in Customers : ~ToCome(day, sim, c)
<1>1. sim \in Sim /\ EventsStand(day, sim, clock.now) /\ day \in Days
  BY DEF IInv, Stands
<1>2. PICK u : u = [sim EXCEPT !.heap = {e \in @ : e.order = Completion => e.of \notin ending}]
  OBVIOUS
<1>3. PICK r : r = [sim EXCEPT !.heap = {e \in @ : e.order = Completion /\ e.time > Closing}]
  OBVIOUS
<1>4. /\ Stands(day, u, Closing, FALSE)
      /\ \A c \in ending : u.customer[c].start # Never /\ ~u.customer[c].departed
      /\ \A c \in Customers : ~ToCome(day, sim, c)
      /\ \A b \in Breaks : ~ToBeDue(day, sim, b)
  BY <1>2, ClosingTime
<1>5. /\ u \in Sim /\ u.server = sim.server /\ u.line = sim.line /\ u.pending = sim.pending
      /\ u.customer = sim.customer /\ u.rest = sim.rest
      /\ u.heap = {e \in sim.heap : e.order = Completion => e.of \notin ending}
  BY <1>1, <1>2, <1>4 DEF Sim, Stands
<1>6. /\ r \in Sim /\ r.server = sim.server /\ r.line = sim.line /\ r.pending = sim.pending
      /\ r.customer = sim.customer /\ r.rest = sim.rest
      /\ r.heap = {e \in sim.heap : e.order = Completion /\ e.time > Closing}
  <2>1. {e \in sim.heap : e.order = Completion /\ e.time > Closing} \subseteq Events
    BY <1>1 DEF Sim
  <2> QED
    BY <2>1, <1>1, <1>3 DEF Sim
<1>7. PICK w : w = Complete(u, ending)
  OBVIOUS
<1>8. last = Complete(r, ending)
  BY <1>3 DEF LastCompletions
<1>9. Stands(day, w, Closing, FALSE) /\ Leave(u, w, ending)
  <2>1. ending \subseteq Customers /\ \A e \in u.heap : e.order = Completion => e.of \notin ending
    BY <1>5
  <2> QED
    BY <2>1, <1>4, <1>7, CompleteKeeps
<1>10. /\ w \in Sim /\ day \in Days /\ EventsStand(day, w, Closing) /\ LineStands(day, w)
       /\ CountersServe(w) /\ Turn(day, w, Closing)
       /\ (\A b \in Breaks : Went(day, w.rest[b], b, Closing)) /\ Accounted(day, w, FALSE)
  BY <1>9 DEF Stands
<1>11. PICK V : V = With(w, "ON_BREAK")
  OBVIOUS
<1>12. PICK x : x = EndBreaks(w, V, Closing, "truncated_by_closing")
  OBVIOUS
<1>13. Closing \in Nat /\ Closing <= Closing
  BY ConstantsAssumption
<1>14. Stands(day, x, Closing, FALSE) /\ BreaksEnded(w, x, V, Closing, "truncated_by_closing")
  <2>1. MayEnd(day, w, V, Closing, "truncated_by_closing")
    <3>1. V \subseteq With(w, "ON_BREAK") /\ "truncated_by_closing" # "completed"
      BY <1>11
    <3> QED
      BY <3>1, <1>9, <1>13, BreaksMayBeCut
  <2>2. "truncated_by_closing" \in {"completed", "staffing_change", "truncated_by_closing"}
    OBVIOUS
  <2> QED
    BY <2>1, <2>2, <1>10, <1>12, <1>13, EndBreaksKeeps
<1>15. /\ last.server = w.server /\ last.line = w.line /\ last.pending = w.pending
       /\ last.customer = w.customer /\ last.rest = w.rest /\ last.heap = r.heap
       /\ last \in Sim
  BY <1>5, <1>6, <1>7, <1>8, <1>10, CompleteWithoutHeap
<1>16. With(last, "ON_BREAK") = V
  BY <1>11, <1>15 DEF With
<1>17. PICK y : y = EndBreaks(last, V, Closing, "truncated_by_closing")
  OBVIOUS
<1>18. y.server = x.server /\ y.line = x.line /\ y.customer = x.customer /\ y.rest = x.rest
  BY <1>10, <1>12, <1>15, <1>17, EndBreaksWithoutHeap
<1>19. RestsCut(y, t, last.pending, last.heap)
  BY <1>15, <1>16, <1>17, BreaksCutFields
<1>20. x.pending = w.pending /\ x.heap = u.heap /\ x.line = sim.line /\ x.customer = w.customer
       /\ w.heap = u.heap
  BY <1>5, <1>9, <1>14 DEF BreaksEnded, Leave
<1>21. RestsCut(x, t, x.pending, r.heap)
  BY <1>15, <1>18, <1>19, <1>20 DEF RestsCut
<1>22. r.heap \subseteq x.heap /\ \A e \in r.heap : e.order = Completion
  <2> SUFFICES ASSUME NEW e \in sim.heap, e.order = Completion, e.time > Closing, e.of \in ending
               PROVE  FALSE
    BY <1>5, <1>6, <1>20
  <2>1. PICK f \in sim.heap : f = At(Closing, Completion, e.of)
    OBVIOUS
  <2>2. f.time = Closing /\ f.order = Completion /\ f.of = e.of
    BY <2>1, EventParts
  <2>3. e.time = f.time
    BY <2>2, <1>1 DEF EventsStand
  <2> QED
    BY <2>2, <2>3, <1>13
<1>23. \A v \in DOMAIN x.server : x.server[v].state # "ON_BREAK"
  <2>1. x.server = [v \in DOMAIN w.server |-> IF v \in V THEN Closed ELSE w.server[v]]
    BY <1>14 DEF BreaksEnded
  <2> SUFFICES ASSUME NEW v \in DOMAIN w.server PROVE x.server[v].state # "ON_BREAK"
    BY <2>1
  <2>2. CASE v \in V
    BY <2>1, <2>2, FreeCounters
  <2>3. CASE v \notin V
    BY <2>1, <2>3, <1>11 DEF With
  <2> QED
    BY <2>2, <2>3
<1>24. \A b \in Breaks : ~ToBeDue(day, x, b)
  BY <1>4, <1>5, <1>20 DEF ToBeDue
<1>25. Stands(day, t, Closing, TRUE)
  BY <1>14, <1>21, <1>22, <1>23, <1>24, CutStands
<1>26. Cut(sim, t, ending)
  <2>1. t.line = sim.line /\ t.pending = <<>> /\ t.heap = r.heap /\ t.customer = w.customer
    BY <1>20, <1>21 DEF RestsCut
  <2>2. ASSUME NEW c \in Customers
        PROVE  /\ t.customer[c].start = sim.customer[c].start
               /\ t.customer[c].unserved = sim.customer[c].unserved
               /\ t.customer[c].departed <=> sim.customer[c].departed \/ c \in ending
    BY <2>1, <1>5, <1>9 DEF Leave
  <2>3. /\ ending \subseteq Customers
        /\ \A c \in ending : sim.customer[c].start # Never /\ ~sim.customer[c].departed
    BY <1>4, <1>5
  <2> QED
    BY <2>1, <2>2, <2>3, <1>22 DEF Cut
<1> QED
  BY <1>4, <1>25, <1>26

\* From s to t the customers done leave, and those in line are sent away.
SentOff(s, t, done) ==
  /\ done \subseteq Customers
  /\ \A c \in done : s.customer[c].start # Never /\ ~s.customer[c].departed
  /\ t.line = <<>>
  /\ \A c \in Customers :
       /\ t.customer[c].start # Never <=> s.customer[c].start # Never
       /\ t.customer[c].departed <=> s.customer[c].departed \/ c \in done
       /\ t.customer[c].unserved # "no" <=> s.customer[c].unserved # "no" \/ c \in Range(s.line)

\* The state t holds after closing, at a time.
Closes(t, time) ==
  /\ Stands(day, t, time, TRUE) /\ AfterClosing(day, t) /\ Busy(t)

\* When those in line are sent away at closing, the day is closed.
LEMMA ClosesWithoutTheLine ==
  ASSUME NEW cut, Stands(day, cut, Closing, TRUE), NEW ending, Cut(sim, cut, ending),
         NEW reason \in {"hard_cutoff", "no_eligible_server"},
         NEW s, s = SentAway(cut, reason), NEW t, t = ReleaseIdle(s)
  PROVE  Closes(t, Closing) /\ SentOff(sim, t, ending)
<1>1. Stands(day, s, Closing, TRUE) /\ Sent(cut, s)
  BY SentAwayKeeps
<1>2. Stands(day, t, Closing, TRUE) /\ SameButCounters(s, t)
  BY <1>1, ReleaseIdleKeeps
<1>3. t.line = <<>> /\ t.pending = <<>> /\ t.heap = cut.heap /\ t.customer = s.customer
  BY <1>1, <1>2 DEF SameButCounters, Sent, Cut
<1>4. \A e \in t.heap : e.order = Completion
  BY <1>3 DEF Cut
<1>5. Closes(t, Closing)
  BY <1>2, <1>3, <1>4 DEF Closes, AfterClosing, Busy
<1>6. cut.line = sim.line /\ ending \subseteq Customers
      /\ \A c \in ending : sim.customer[c].start # Never /\ ~sim.customer[c].departed
  BY DEF Cut
<1>7. ASSUME NEW c \in Customers
      PROVE  /\ t.customer[c].start # Never <=> sim.customer[c].start # Never
             /\ t.customer[c].departed <=> sim.customer[c].departed \/ c \in ending
             /\ t.customer[c].unserved # "no" <=> sim.customer[c].unserved # "no" \/ c \in Range(sim.line)
  <2>1. /\ s.customer[c].start = cut.customer[c].start
        /\ s.customer[c].departed = cut.customer[c].departed
        /\ s.customer[c].unserved # "no" <=> cut.customer[c].unserved # "no" \/ c \in Range(sim.line)
    BY <1>1, <1>6 DEF Sent
  <2>2. /\ cut.customer[c].start = sim.customer[c].start
        /\ cut.customer[c].unserved = sim.customer[c].unserved
        /\ cut.customer[c].departed <=> sim.customer[c].departed \/ c \in ending
    BY DEF Cut
  <2> QED
    BY <2>1, <2>2, <1>3
<1> QED
  BY <1>3, <1>5, <1>6, <1>7 DEF SentOff

\* When the line goes on being served after closing, the day is closed.
LEMMA ClosesWithTheLine ==
  ASSUME NEW p, NEW cut, NEW time \in Nat, Stands(day, cut, time, TRUE), NEW ending, Cut(p, cut, ending),
         day.policy = "DRAIN",
         NEW s, s = Assign(cut, time), NEW t, t = ReleaseIdle(s)
  PROVE  Closes(t, time) /\ Served(p, p.line, t, ending)
<1>1. Stands(day, s, time, TRUE) /\ Assigned(cut, s)
  <2>1. TRUE \in BOOLEAN
    OBVIOUS
  <2> QED
    BY <2>1, AssignKeeps
<1>2. Stands(day, t, time, TRUE) /\ SameButCounters(s, t) /\ (t.line # <<>> => t = s)
  BY <1>1, ReleaseIdleKeeps
<1>3. t.line = s.line /\ t.pending = <<>> /\ t.heap = s.heap /\ t.customer = s.customer
  BY <1>1, <1>2 DEF SameButCounters, Assigned, Cut
<1>4. \A e \in t.heap : e.order = Completion
  BY <1>1, <1>3 DEF Assigned, Cut
<1>5. Busy(t)
  BY <1>1, <1>2, <1>3 DEF Busy, Assigned
<1>6. Closes(t, time)
  BY <1>2, <1>3, <1>4, <1>5 DEF Closes, AfterClosing
<1>7. cut.line = p.line /\ ending \subseteq Customers
      /\ \A c \in ending : p.customer[c].start # Never /\ ~p.customer[c].departed
  BY DEF Cut
<1>8. PICK C : Begin(cut, s, C)
  BY <1>1 DEF Assigned
<1>9. \E n \in 0 .. Len(p.line) :
        C = Range(SubSeq(p.line, 1, n)) /\ t.line = SubSeq(p.line, n + 1, Len(p.line))
  BY <1>3, <1>7, <1>8 DEF Begin
<1>10. C \subseteq Customers
  BY <1>8 DEF Begin
<1>11. ASSUME NEW c \in Customers
       PROVE  /\ t.customer[c].start # Never <=> p.customer[c].start # Never \/ c \in C
              /\ c \in C => p.customer[c].start = Never /\ ~p.customer[c].departed
              /\ t.customer[c].departed <=> p.customer[c].departed \/ c \in ending
              /\ t.customer[c].unserved = p.customer[c].unserved
  <2>1. /\ s.customer[c].start # Never <=> cut.customer[c].start # Never \/ c \in C
        /\ c \in C => cut.customer[c].start = Never /\ ~cut.customer[c].departed
        /\ s.customer[c].departed = cut.customer[c].departed
        /\ s.customer[c].unserved = cut.customer[c].unserved
    BY <1>8 DEF Begin
  <2>2. /\ cut.customer[c].start = p.customer[c].start
        /\ cut.customer[c].unserved = p.customer[c].unserved
        /\ cut.customer[c].departed <=> p.customer[c].departed \/ c \in ending
    BY DEF Cut
  <2> QED
    BY <2>1, <2>2, <1>3
<1>12. Serves(p, p.line, t, ending)
  BY <1>9, <1>10, <1>11 DEF Serves
<1> QED
  BY <1>6, <1>7, <1>12 DEF Served

\* A state that closes keeps the invariant.
LEMMA ClosedKeeps ==
  ASSUME NEW t, NEW time \in Nat, Closes(t, time), sim' = t, day' = day,
         clock' \in [now : Nat, segment : SegmentStarts, closed : BOOLEAN],
         clock'.now = time, clock'.closed = TRUE
  PROVE  IInv' /\ \A c \in Customers : ~ToCome(day, sim', c)
<1>1. Stands(day', sim', clock'.now, clock'.closed) /\ AfterClosing(day', sim')
  BY DEF Closes
<1>2. NobodyWaitsForAFreeCounter'
  <2>1. Busy(sim')
    BY DEF Closes
  <2> QED
    BY <2>1 DEF Busy, NobodyWaitsForAFreeCounter
<1>3. \A c \in Customers : ~ToCome(day, t, c)
  <2>1. \A e \in t.heap : e.order = Completion
    BY DEF Closes, AfterClosing
  <2>2. \A c \in Customers : At(day.arrival[c], Arrival, c).order # Completion
    BY EventParts DEF Arrival, Completion
  <2> QED
    BY <2>1, <2>2 DEF ToCome
<1> QED
  BY <1>1, <1>2, <1>3 DEF IInv

\* The day closes: the line is served on or sent away, and every break has its outcome.
LEMMA CloseDayKeeps ==
  ASSUME IInv, CloseDay
  PROVE  /\ IInv' /\ day' = day /\ clock'.closed = TRUE /\ clock.closed = FALSE
         /\ \A c \in Customers : ~ToCome(day, sim, c) /\ ~ToCome(day, sim', c)
         /\ \E done : Served(sim, sim.line, sim', done) \/ SentOff(sim, sim', done)
<1>1. /\ ~clock.closed /\ \A e \in sim.heap : e.time >= Closing
      /\ clock' = [clock EXCEPT !.now = Closing, !.closed = TRUE] /\ day' = day
  BY DEF CloseDay
<1>2. PICK last, cut, s :
        /\ last = LastCompletions /\ cut = BreaksCut(last)
        /\ s = IF day.policy = "HARD_CUTOFF" THEN SentAway(cut, "hard_cutoff")
               ELSE IF Crew(last) = {} THEN SentAway(cut, "no_eligible_server")
               ELSE Assign(cut, Closing)
        /\ sim' = ReleaseIdle(s)
  BY DEF CloseDay
<1>3. PICK ending : ending = {c \in Customers : At(Closing, Completion, c) \in sim.heap}
  OBVIOUS
<1>4. /\ Stands(day, cut, Closing, TRUE) /\ Cut(sim, cut, ending)
      /\ \A c \in Customers : ~ToCome(day, sim, c)
  BY <1>1, <1>2, <1>3, BreaksCutKeeps
<1>5. PICK t : t = ReleaseIdle(s)
  OBVIOUS
<1>6. Closing \in Nat
  BY ConstantsAssumption
<1>7. clock \in [now : Nat, segment : SegmentStarts, closed : BOOLEAN]
  BY DEF IInv
<1>8. /\ clock' \in [now : Nat, segment : SegmentStarts, closed : BOOLEAN]
      /\ clock'.now = Closing /\ clock'.closed = TRUE
  BY <1>1, <1>6, <1>7
<1>9. day.policy = "HARD_CUTOFF" \/ day.policy = "DRAIN"
  <2>1. day \in Days
    BY DEF IInv, Stands
  <2> QED
    BY <2>1, ConstantsAssumption DEF Days, Schedules
<1>10. Closes(t, Closing) /\ \E done : Served(sim, sim.line, t, done) \/ SentOff(sim, t, done)
  <2>1. CASE day.policy = "HARD_CUTOFF"
    <3>1. s = SentAway(cut, "hard_cutoff") /\ "hard_cutoff" \in {"hard_cutoff", "no_eligible_server"}
      BY <2>1, <1>2
    <3>2. Closes(t, Closing) /\ SentOff(sim, t, ending)
      BY <3>1, <1>4, <1>5, ClosesWithoutTheLine
    <3> QED
      BY <3>2
  <2>2. CASE day.policy # "HARD_CUTOFF" /\ Crew(last) = {}
    <3>1. s = SentAway(cut, "no_eligible_server")
          /\ "no_eligible_server" \in {"hard_cutoff", "no_eligible_server"}
      BY <2>2, <1>2
    <3>2. Closes(t, Closing) /\ SentOff(sim, t, ending)
      BY <3>1, <1>4, <1>5, ClosesWithoutTheLine
    <3> QED
      BY <3>2
  <2>3. CASE day.policy # "HARD_CUTOFF" /\ Crew(last) # {}
    <3>1. s = Assign(cut, Closing) /\ day.policy = "DRAIN"
      BY <2>3, <1>2, <1>9
    <3>2. Closes(t, Closing) /\ Served(sim, sim.line, t, ending)
      BY <3>1, <1>4, <1>5, <1>6, ClosesWithTheLine
    <3> QED
      BY <3>2
  <2> QED
    BY <2>1, <2>2, <2>3
<1>11. sim' = t
  BY <1>2, <1>5
<1>12. IInv' /\ \A c \in Customers : ~ToCome(day, sim', c)
  BY <1>1, <1>6, <1>8, <1>10, <1>11, ClosedKeeps
<1>13. clock.closed = FALSE
  BY <1>1, <1>7
<1> QED
  BY <1>1, <1>4, <1>8, <1>10, <1>11, <1>12, <1>13

\* Nobody begins when nobody is in line.
LEMMA NobodyBegins ==
  ASSUME NEW q, q = <<>>
  PROVE  \E n \in 0 .. Len(q) : {} = Range(SubSeq(q, 1, n)) /\ <<>> = SubSeq(q, n + 1, Len(q))
<1>1. Len(q) = 0 /\ q \in Seq({})
  BY EmptySeq
<1>2. SubSeq(q, 1, 0) = <<>>
  <2>1. SubSeq(q, 1, 0) \in Seq({}) /\ Len(SubSeq(q, 1, 0)) = 0
    BY <1>1, SubSeqProperties
  <2> QED
    BY <2>1, EmptySeq
<1>3. Range(SubSeq(q, 1, 0)) = {}
  <2>1. DOMAIN SubSeq(q, 1, 0) = {}
    BY <1>2, EmptySeq
  <2> QED
    BY <2>1 DEF Range
<1>4. 0 \in 0 .. Len(q) /\ 0 + 1 = 1
  BY <1>1
<1> QED
  BY <1>1, <1>2, <1>3, <1>4

\* A service ends after closing; under DRAIN the next in line begins his.
LEMMA CompleteAfterClosingKeeps ==
  ASSUME IInv, NEW e \in First, CompleteAfterClosing(e)
  PROVE  /\ IInv' /\ day' = day /\ clock'.closed = TRUE /\ clock.closed = TRUE
         /\ \A c \in Customers : ~ToCome(day, sim, c) /\ ~ToCome(day, sim', c)
         /\ \E done : Served(sim, sim.line, sim', done)
<1>1. clock.closed /\ Tick(e) /\ day' = day
  BY DEF CompleteAfterClosing
<1>2. PICK p, h, s :
        /\ p = Popped(e) /\ h = Complete(p, {e.of})
        /\ s = IF day.policy = "DRAIN" THEN Assign(h, e.time) ELSE h
        /\ sim' = ReleaseIdle(s)
  BY DEF CompleteAfterClosing
<1>3. /\ e \in sim.heap /\ e \in Events /\ e.time \in Nat
      /\ clock.now \in Nat /\ clock.now <= e.time
      /\ \A f \in sim.heap : e.time <= f.time
  BY TheFirst
<1>4. clock \in [now : Nat, segment : SegmentStarts, closed : BOOLEAN]
  BY DEF IInv
<1>5. /\ clock' \in [now : Nat, segment : SegmentStarts, closed : BOOLEAN]
      /\ clock'.now = e.time /\ clock'.closed = TRUE /\ clock.closed = TRUE
  BY <1>1, <1>3, <1>4 DEF Tick
<1>6. Stands(day, sim, clock.now, TRUE) /\ AfterClosing(day, sim)
  BY <1>5 DEF IInv
<1>7. e.order = Completion /\ sim.pending = <<>> /\ (day.policy # "DRAIN" => sim.line = <<>>)
      /\ \A f \in sim.heap : f.order = Completion
  BY <1>3, <1>6 DEF AfterClosing
<1>8. Stands(day, p, e.time, TRUE) /\ Without(sim, p, e)
  <2>1. p = [sim EXCEPT !.heap = @ \ {e}]
    BY <1>2 DEF Popped
  <2>2. Without(sim, p, e) /\ StandsButFor(day, p, e.time, TRUE, e)
    BY <2>1, <1>3, <1>6, Popping
  <2>3. e.order # BreakEnd /\ e.order # BreakDue
    BY <1>7 DEF Completion, BreakEnd, BreakDue
  <2> QED
    BY <2>2, <2>3 DEF StandsButFor, Stands
<1>9. /\ e.of \in Customers
      /\ sim.customer[e.of].start # Never /\ ~sim.customer[e.of].departed
  BY <1>3, <1>6, <1>7 DEF Stands, EventsStand
<1>10. p.line = sim.line /\ p.pending = sim.pending /\ p.customer = sim.customer /\ p.heap = sim.heap \ {e}
  BY <1>8 DEF Without
<1>11. \A f \in p.heap : f.order = Completion => f.of \notin {e.of}
  <2> SUFFICES ASSUME NEW f \in sim.heap, f # e, f.order = Completion, f.of = e.of PROVE FALSE
    BY <1>10
  <2>1. f.time = e.time
    BY <1>3, <1>6, <1>7 DEF Stands, EventsStand
  <2>2. f \in Events
    BY <1>6 DEF Stands, Sim
  <2>3. f = e
    BY <2>1, <2>2, <1>3, <1>7 DEF Events
  <2> QED
    BY <2>3
<1>12. Stands(day, h, e.time, TRUE) /\ Leave(p, h, {e.of})
  <2>1. {e.of} \subseteq Customers
    BY <1>9
  <2>2. \A c \in {e.of} : p.customer[c].start # Never /\ ~p.customer[c].departed
    BY <1>9, <1>10
  <2> QED
    BY <2>1, <2>2, <1>2, <1>8, <1>11, CompleteKeeps
<1>13. Cut(sim, h, {e.of})
  <2>1. h.line = sim.line /\ h.pending = <<>> /\ h.heap = sim.heap \ {e}
    BY <1>7, <1>10, <1>12 DEF Leave
  <2>2. \A c \in Customers :
          /\ h.customer[c].start = sim.customer[c].start
          /\ h.customer[c].unserved = sim.customer[c].unserved
          /\ h.customer[c].departed <=> sim.customer[c].departed \/ c \in {e.of}
    BY <1>10, <1>12 DEF Leave
  <2>3. {e.of} \subseteq Customers /\ \A c \in {e.of} : sim.customer[c].start # Never /\ ~sim.customer[c].departed
    BY <1>9
  <2> QED
    BY <2>1, <2>2, <2>3, <1>7 DEF Cut
<1>14. PICK t : t = ReleaseIdle(s)
  OBVIOUS
<1>15. Closes(t, e.time) /\ Served(sim, sim.line, t, {e.of})
  <2>1. CASE day.policy = "DRAIN"
    <3>1. s = Assign(h, e.time)
      BY <2>1, <1>2
    <3> QED
      BY <2>1, <3>1, <1>3, <1>12, <1>13, <1>14, ClosesWithTheLine
  <2>2. CASE day.policy # "DRAIN"
    <3>1. s = h /\ sim.line = <<>>
      BY <2>2, <1>2, <1>7
    <3>2. Stands(day, t, e.time, TRUE) /\ SameButCounters(h, t)
      BY <3>1, <1>12, <1>14, ReleaseIdleKeeps
    <3>3. t.line = <<>> /\ t.pending = <<>> /\ t.customer = h.customer /\ \A f \in t.heap : f.order = Completion
      BY <3>1, <3>2, <1>13 DEF SameButCounters, Cut
    <3>4. Closes(t, e.time)
      BY <3>2, <3>3 DEF Closes, AfterClosing, Busy
    <3>5. \E n \in 0 .. Len(sim.line) :
            {} = Range(SubSeq(sim.line, 1, n)) /\ t.line = SubSeq(sim.line, n + 1, Len(sim.line))
      BY <3>1, <3>3, NobodyBegins
    <3>6. ASSUME NEW c \in Customers
          PROVE  /\ t.customer[c].start # Never <=> sim.customer[c].start # Never \/ c \in {}
                 /\ c \in {} => sim.customer[c].start = Never /\ ~sim.customer[c].departed
                 /\ t.customer[c].departed <=> sim.customer[c].departed \/ c \in {e.of}
                 /\ t.customer[c].unserved = sim.customer[c].unserved
      BY <3>3, <1>13 DEF Cut
    <3>7. Serves(sim, sim.line, t, {e.of})
      BY <3>5, <3>6 DEF Serves
    <3> QED
      BY <3>4, <3>7, <1>9 DEF Served
  <2> QED
    BY <2>1, <2>2
<1>16. sim' = t
  BY <1>2, <1>14
<1>17. IInv' /\ \A c \in Customers : ~ToCome(day, sim', c)
  BY <1>1, <1>3, <1>5, <1>15, <1>16, ClosedKeeps
<1>18. \A c \in Customers : ~ToCome(day, sim, c)
  <2>1. \A c \in Customers : At(day.arrival[c], Arrival, c).order # Completion
    BY EventParts DEF Arrival, Completion
  <2> QED
    BY <2>1, <1>7 DEF ToCome
<1> QED
  BY <1>1, <1>5, <1>15, <1>16, <1>17, <1>18

-----------------------------------------------------------------------------
(* The theorems *)

\* The invariant holds of the initial states.
LEMMA InitStands ==
  ASSUME Init
  PROVE  IInv
<1> SUFFICES ASSUME NEW s, s = sim PROVE IInv
  OBVIOUS
<1>1. day \in Days
  BY DEF Init
<1>2. clock \in [now : Nat, segment : SegmentStarts, closed : BOOLEAN] /\ clock.now = 0 /\ clock.closed = FALSE
  BY ConstantsAssumption DEF Init
<1>3. /\ s.server = <<>> /\ s.line = <<>> /\ s.pending = <<>>
      /\ s.customer = [c \in Customers |->
           [start |-> Never, server |-> 0, departed |-> FALSE, unserved |-> "no"]]
      /\ s.rest = [b \in Breaks |->
           [server |-> 0, start |-> Never, finish |-> Never, outcome |-> "none"]]
      /\ s.heap = {At(t, Capacity, t) : t \in SegmentStarts}
                  \cup {At(day.arrival[c], Arrival, c) : c \in Customers}
                  \cup {At(day.due[b], BreakDue, b) : b \in Breaks}
      /\ s = [server |-> s.server, line |-> s.line, pending |-> s.pending,
              customer |-> s.customer, rest |-> s.rest, heap |-> s.heap]
  BY DEF Init
<1>4. /\ \A c \in Customers : c \in Nat /\ day.arrival[c] \in Nat
      /\ \A b \in Breaks : b \in Nat /\ day.due[b] \in Nat
      /\ \A t \in SegmentStarts : t \in Nat
  BY <1>1, ConstantsAssumption DEF Days, Schedules, Customers, Breaks
<1>5. ASSUME NEW e \in s.heap
      PROVE  \/ e.order = Capacity /\ e.of \in SegmentStarts /\ e.time = e.of
             \/ e.order = Arrival /\ e.of \in Customers /\ e.time = day.arrival[e.of]
             \/ e.order = BreakDue /\ e.of \in Breaks /\ e.time = day.due[e.of]
  <2>1. CASE \E t \in SegmentStarts : e = At(t, Capacity, t)
    BY <2>1, EventParts
  <2>2. CASE \E c \in Customers : e = At(day.arrival[c], Arrival, c)
    BY <2>2, EventParts
  <2>3. CASE \E b \in Breaks : e = At(day.due[b], BreakDue, b)
    BY <2>3, EventParts
  <2> QED
    BY <2>1, <2>2, <2>3, <1>3
<1>6. s \in Sim
  <2>1. s.server \in Seq(Server) /\ s.line \in Seq(Customers) /\ s.pending \in Seq(Breaks)
    BY <1>3, EmptySeq
  <2>2. s.customer \in [Customers -> Customer]
    BY <1>3 DEF Customer
  <2>3. s.rest \in [Breaks -> Rest]
    BY <1>3 DEF Rest
  <2>4. s.heap \subseteq Events
    <3>1. \A t \in SegmentStarts : At(t, Capacity, t) \in Events
      BY <1>4 DEF At, Events, Capacity
    <3>2. \A c \in Customers : At(day.arrival[c], Arrival, c) \in Events
      BY <1>4 DEF At, Events, Arrival
    <3>3. \A b \in Breaks : At(day.due[b], BreakDue, b) \in Events
      BY <1>4 DEF At, Events, BreakDue
    <3> QED
      BY <3>1, <3>2, <3>3, <1>3
  <2> QED
    BY <2>1, <2>2, <2>3, <2>4, <1>3 DEF Sim
<1>7. EventsStand(day, s, 0)
  <2>1. ASSUME NEW e \in s.heap PROVE e.time >= 0
    BY <1>4, <1>5
  <2> QED
    BY <2>1, <1>5 DEF EventsStand, Completion, BreakEnd, Capacity, BreakDue, Arrival
<1>8. DOMAIN s.line = {} /\ DOMAIN s.server = {} /\ DOMAIN s.pending = {}
  BY <1>3, EmptySeq
<1>9. \A c \in Customers : s.customer[c].start = Never /\ ~s.customer[c].departed
  BY <1>3
<1>10. \A b \in Breaks : s.rest[b].start = Never /\ s.rest[b].outcome = "none"
  BY <1>3
<1>11. LineStands(day, s)
  BY <1>8, <1>9 DEF LineStands, IsInjective
<1>12. CountersServe(s)
  BY <1>9 DEF CountersServe
<1>13. CountersRest(day, s)
  BY <1>8, <1>10 DEF CountersRest
<1>14. \A b \in Breaks : ToBeDue(day, s, b)
  BY <1>3 DEF ToBeDue
<1>15. Turn(day, s, 0)
  BY <1>8, <1>10, <1>14 DEF Turn, Increasing
<1>16. \A b \in Breaks : Went(day, s.rest[b], b, 0)
  BY <1>10 DEF Went
<1>17. Accounted(day, s, FALSE)
  BY <1>14 DEF Accounted
<1>18. Stands(day, s, 0, FALSE)
  BY <1>1, <1>6, <1>7, <1>11, <1>12, <1>13, <1>15, <1>16, <1>17 DEF Stands
<1>19. NobodyWaitsForAFreeCounter
  BY <1>3 DEF NobodyWaitsForAFreeCounter
<1>20. Stands(day, sim, clock.now, clock.closed)
  BY <1>2, <1>18
<1>21. /\ clock.now <= Closing
       /\ clock.closed = FALSE
       /\ clock \in [now : Nat, segment : SegmentStarts, closed : BOOLEAN]
  BY <1>2, ConstantsAssumption
<1> QED
  BY <1>19, <1>20, <1>21 DEF IInv

\* Every step keeps the invariant.
LEMMA NextKeeps ==
  ASSUME IInv, [Next]_vars
  PROVE  IInv'
<1>1. CASE CloseDay
  BY <1>1, CloseDayKeeps
<1>2. CASE \E e \in First :
             \/ CompleteService(e) \/ FinishBreak(e) \/ ChangeCapacity(e)
             \/ BreakIsDue(e) \/ Arrive(e) \/ CompleteAfterClosing(e)
  <2>1. PICK e \in First :
          \/ CompleteService(e) \/ FinishBreak(e) \/ ChangeCapacity(e)
          \/ BreakIsDue(e) \/ Arrive(e) \/ CompleteAfterClosing(e)
    BY <1>2
  <2>2. CASE CompleteService(e)
    BY <2>2, CompleteServiceKeeps
  <2>3. CASE FinishBreak(e)
    BY <2>3, FinishBreakKeeps
  <2>4. CASE ChangeCapacity(e)
    BY <2>4, ChangeCapacityKeeps
  <2>5. CASE BreakIsDue(e)
    BY <2>5, BreakIsDueKeeps
  <2>6. CASE Arrive(e)
    BY <2>6, ArriveKeeps
  <2>7. CASE CompleteAfterClosing(e)
    BY <2>7, CompleteAfterClosingKeeps
  <2> QED
    BY <2>1, <2>2, <2>3, <2>4, <2>5, <2>6, <2>7
<1>3. CASE UNCHANGED vars
  <2>1. day' = day /\ clock' = clock /\ sim' = sim
    BY <1>3 DEF vars
  <2>2. NobodyWaitsForAFreeCounter => NobodyWaitsForAFreeCounter'
    BY <2>1 DEF NobodyWaitsForAFreeCounter
  <2> QED
    BY <2>1, <2>2 DEF IInv
<1> QED
  BY <1>1, <1>2, <1>3 DEF Next

\* The invariant holds throughout.
LEMMA AlwaysStands == Spec => []IInv
<1>1. Init => IInv
  BY InitStands
<1>2. IInv /\ [Next]_vars => IInv'
  BY NextKeeps
<1> QED
  BY <1>1, <1>2, PTL DEF Spec

\* Every variable has its type, and the simulation never goes back in time: no event of the heap
\* is in the past.
THEOREM TypesAndTimeHold == Spec => []TypeOK
<1>1. IInv => TypeOK
  BY DEF IInv, Stands, EventsStand, TypeOK
<1> QED
  BY <1>1, AlwaysStands, PTL

\* Whenever the loop has handled an event, no counter is idle while a customer waits or a break is
\* due: every handler that frees a counter gives it away at the same instant.
THEOREM NobodyEverWaitsForAFreeCounter == Spec => []NobodyWaitsForAFreeCounter
<1>1. IInv => NobodyWaitsForAFreeCounter
  BY DEF IInv
<1> QED
  BY <1>1, AlwaysStands, PTL

\* Breaks start in the order they are due and never early, those cut short by staffing or closing
\* are no longer than asked, and at closing every break has an outcome.
THEOREM BreaksGoInTurn == Spec => []BreaksAreTakenInTurn
<1>1. IInv => BreaksAreTakenInTurn
  <2> SUFFICES ASSUME IInv PROVE BreaksAreTakenInTurn
    OBVIOUS
  <2>1. \A a, b \in Breaks :
          a < b /\ sim.rest[b].start # Never =>
            sim.rest[a].start # Never /\ sim.rest[a].start <= sim.rest[b].start
    BY DEF IInv, Stands, Turn
  <2>2. ASSUME NEW b \in Breaks, NEW r, r = sim.rest[b]
        PROVE  /\ r.start # Never => r.start >= day.due[b]
               /\ r.outcome = "completed" => r.finish = r.start + day.length[b]
               /\ r.outcome \in {"staffing_change", "truncated_by_closing"} =>
                    r.finish <= r.start + day.length[b] /\ r.finish <= Closing
               /\ r.outcome = "cancelled_at_closing" => r.start = Never
    <3>1. Went(day, r, b, clock.now)
      BY <2>2 DEF IInv, Stands
    <3>2. r.start \in Nat \cup {Never} /\ day.due[b] \in Nat
      BY <2>2 DEF IInv, Stands, Sim, Rest, Days, Schedules
    <3> QED
      BY <3>1, <3>2 DEF Went, Never
  <2>3. clock.closed => \A b \in Breaks : sim.rest[b].outcome # "none"
    BY DEF IInv, Stands, Accounted
  <2> QED
    BY <2>1, <2>2, <2>3 DEF BreaksAreTakenInTurn
<1> QED
  BY <1>1, AlwaysStands, PTL

-----------------------------------------------------------------------------
(* The promise of a line *)

\* The promise speaks of the same ranges.
LEMMA SameRange == \A f : Line!Range(f) = Range(f)
  BY DEF Line!Range, Range

\* The promise counts customers as the engine does.
LEMMA SameCount == \A S : Line!Cardinality(S) = Cardinality(S)
  BY DEF Line!Cardinality, Cardinality

\* What the engine does to a queue is what the promise allows: those done leave, the first begin.
LEMMA ServedIsMoved ==
  ASSUME IInv, day' = day, NEW q, NEW done, Served(sim, q, sim', done)
  PROVE  /\ done \in SUBSET Serving
         /\ \E n \in 0 .. Len(q) : Line!Moved(q, n, done)
         /\ Unserved' = Unserved
<1>1. PICK C :
        /\ \E n \in 0 .. Len(q) :
             C = Range(SubSeq(q, 1, n)) /\ sim'.line = SubSeq(q, n + 1, Len(q))
        /\ C \subseteq Customers
        /\ \A c \in Customers :
             /\ sim'.customer[c].start # Never <=> sim.customer[c].start # Never \/ c \in C
             /\ c \in C => sim.customer[c].start = Never /\ ~sim.customer[c].departed
             /\ sim'.customer[c].departed <=> sim.customer[c].departed \/ c \in done
             /\ sim'.customer[c].unserved = sim.customer[c].unserved
  BY DEF Served, Serves
<1>2. done \subseteq Customers /\ \A c \in done : sim.customer[c].start # Never /\ ~sim.customer[c].departed
  BY DEF Served
<1>3. done \in SUBSET Serving
  BY <1>2 DEF Serving, Started, Departed
<1>4. Departed' = Departed \cup done
  BY <1>1, <1>2 DEF Departed
<1>5. Serving' = (Serving \ done) \cup C
  BY <1>1, <1>2 DEF Serving, Started, Departed
<1>6. Unserved' = Unserved
  BY <1>1 DEF Unserved
<1>7. \E n \in 0 .. Len(q) : Line!Moved(q, n, done)
  BY <1>1, <1>4, <1>5, SameRange DEF Line!Moved
<1> QED
  BY <1>3, <1>6, <1>7

\* Events that bring nobody serve the line.
LEMMA ServedIsServe ==
  ASSUME IInv, day' = day, clock'.closed = clock.closed, NEW done, Served(sim, sim.line, sim', done),
         \A c \in Customers : ToCome(day, sim', c) <=> ToCome(day, sim, c)
  PROVE  Line!Serve
<1>1. Coming' = Coming
  BY DEF Coming, ToCome
<1> QED
  BY <1>1, ServedIsMoved DEF Line!Serve

\* An arrival is the coming of one customer.
LEMMA ArriveIsCome ==
  ASSUME IInv, NEW e \in First, Arrive(e)
  PROVE  \E k \in 1 .. Cardinality(Customers) : Line!Come(k)
<1>1. /\ day' = day /\ clock'.closed = FALSE /\ clock.closed = FALSE
      /\ e.of \in Customers /\ ToCome(day, sim, e.of)
      /\ Serves(sim, Append(sim.line, e.of), sim', {})
      /\ \A c \in Customers : ToCome(day, sim', c) <=> ToCome(day, sim, c) /\ c # e.of
      /\ \A c \in Customers : ToCome(day, sim, c) => e.of <= c
  BY ArriveKeeps
<1>2. PICK q : q = Append(sim.line, e.of)
  OBVIOUS
<1>3. Served(sim, q, sim', {})
  BY <1>1, <1>2 DEF Served
<1>4. sim.line \in Seq(Customers)
  BY DEF IInv, Stands, Sim
<1>5. PICK next : next = <<e.of>>
  OBVIOUS
<1>6. Len(q) = Len(sim.line) + 1 /\ q = sim.line \o next
  BY <1>1, <1>2, <1>4, <1>5
<1>7. /\ {} \in SUBSET Serving
      /\ \E n \in 0 .. Len(sim.line) + 1 : Line!Moved(sim.line \o next, n, {})
      /\ Unserved' = Unserved
  BY <1>1, <1>3, <1>6, ServedIsMoved
<1>8. /\ Coming = {c \in Customers : ToCome(day, sim, c)}
      /\ Coming' = {c \in Customers : ToCome(day, sim', c)}
  BY <1>1 DEF Coming, ToCome
<1>9. next \in [1 .. 1 -> Coming] /\ Range(next) = {e.of}
  BY <1>1, <1>5, <1>8 DEF Range
<1>10. Coming' = Coming \ Range(next)
  BY <1>1, <1>8, <1>9
<1>11. \A i, j \in 1 .. 1 : i < j => next[i] < next[j]
  OBVIOUS
<1>12. ASSUME NEW c \in Coming \ Range(next), NEW i \in 1 .. 1 PROVE next[i] < c
  BY <1>1, <1>5, <1>8, <1>9 DEF Customers
<1>13. Line!Come(1)
  BY <1>1, <1>7, <1>9, <1>10, <1>11, <1>12, SameRange DEF Line!Come
<1>14. Cardinality(Customers) = N /\ N \in Nat
  BY ConstantsAssumption, FS_Interval DEF Customers
<1>15. 1 \in 1 .. Cardinality(Customers)
  BY <1>1, <1>14 DEF Customers
<1> QED
  BY <1>13, <1>15

\* The closing closes the line.
LEMMA CloseDayIsClose ==
  ASSUME IInv, CloseDay
  PROVE  Line!Close
<1>1. /\ day' = day /\ clock'.closed = TRUE /\ clock.closed = FALSE
      /\ \A c \in Customers : ~ToCome(day, sim, c) /\ ~ToCome(day, sim', c)
  BY CloseDayKeeps
<1>2. PICK done : Served(sim, sim.line, sim', done) \/ SentOff(sim, sim', done)
  BY CloseDayKeeps
<1>3. Coming = {} /\ Coming' = {}
  BY <1>1 DEF Coming, ToCome
<1>4. CASE Served(sim, sim.line, sim', done)
  BY <1>1, <1>3, <1>4, ServedIsMoved DEF Line!Close
<1>5. CASE SentOff(sim, sim', done)
  <2>1. done \in SUBSET Serving
    BY <1>5 DEF SentOff, Serving, Started, Departed
  <2>2. Departed' = Departed \cup done
    BY <1>5 DEF SentOff, Departed
  <2>3. Serving' = Serving \ done
    BY <1>5 DEF SentOff, Serving, Started, Departed
  <2>4. Unserved' = Unserved \cup Range(sim.line)
    <3>1. sim.line \in Seq(Customers)
      BY DEF IInv, Stands, Sim
    <3>2. Range(sim.line) \subseteq Customers
      BY <3>1 DEF Range
    <3> QED
      BY <1>5, <3>2 DEF SentOff, Unserved
  <2>5. sim'.line = <<>>
    BY <1>5 DEF SentOff
  <2> QED
    BY <1>1, <1>3, <2>1, <2>2, <2>3, <2>4, <2>5, SameRange DEF Line!Close
<1> QED
  BY <1>2, <1>4, <1>5

\* Every step of the engine is a step of the line, or none.
LEMMA StepsKeepThePromise ==
  ASSUME IInv, [Next]_vars
  PROVE  [Line!Next]_Line!vars
<1>1. clock.closed \in BOOLEAN
  BY DEF IInv
<1>2. CASE CloseDay
  BY <1>2, CloseDayIsClose DEF Line!Next
<1>3. CASE \E e \in First :
             \/ CompleteService(e) \/ FinishBreak(e) \/ ChangeCapacity(e)
             \/ BreakIsDue(e) \/ Arrive(e) \/ CompleteAfterClosing(e)
  <2>1. PICK e \in First :
          \/ CompleteService(e) \/ FinishBreak(e) \/ ChangeCapacity(e)
          \/ BreakIsDue(e) \/ Arrive(e) \/ CompleteAfterClosing(e)
    BY <1>3
  <2>2. CASE CompleteService(e)
    <3>1. clock.closed = FALSE
      BY <1>1, <2>2 DEF CompleteService, Handles
    <3> QED
      BY <2>2, <3>1, CompleteServiceKeeps, ServedIsServe DEF Line!Next
  <2>3. CASE FinishBreak(e)
    <3>1. clock.closed = FALSE
      BY <1>1, <2>3 DEF FinishBreak, Handles
    <3> QED
      BY <2>3, <3>1, FinishBreakKeeps, ServedIsServe DEF Line!Next
  <2>4. CASE ChangeCapacity(e)
    <3>1. clock.closed = FALSE
      BY <1>1, <2>4 DEF ChangeCapacity, Handles
    <3> QED
      BY <2>4, <3>1, ChangeCapacityKeeps, ServedIsServe DEF Line!Next
  <2>5. CASE BreakIsDue(e)
    <3>1. clock.closed = FALSE
      BY <1>1, <2>5 DEF BreakIsDue, Handles
    <3> QED
      BY <2>5, <3>1, BreakIsDueKeeps, ServedIsServe DEF Line!Next
  <2>6. CASE Arrive(e)
    BY <2>6, ArriveIsCome, SameCount DEF Line!Next
  <2>7. CASE CompleteAfterClosing(e)
    BY <2>7, CompleteAfterClosingKeeps, ServedIsServe DEF Line!Next
  <2> QED
    BY <2>1, <2>2, <2>3, <2>4, <2>5, <2>6, <2>7
<1>4. CASE UNCHANGED vars
  <2>1. /\ Coming' = Coming /\ sim'.line = sim.line /\ Serving' = Serving
        /\ Departed' = Departed /\ Unserved' = Unserved /\ clock'.closed = clock.closed
    BY <1>4 DEF vars, Coming, Serving, Started, Departed, Unserved
  <2> QED
    BY <2>1 DEF Line!vars
<1> QED
  BY <1>2, <1>3, <1>4 DEF Next

\* With breaks, staffing changes and either closing policy, customers are served in the order they
\* came, nobody is lost or counted twice, and only those in line at closing stay unserved: the
\* engine implements ServiceLine.
THEOREM TheEngineKeepsThePromise == Spec => KeepsThePromise
<1>1. Init => Line!Init
  <2> SUFFICES ASSUME Init PROVE Line!Init
    OBVIOUS
  <2>1. /\ sim.line = <<>> /\ clock.closed = FALSE
        /\ \A c \in Customers : At(day.arrival[c], Arrival, c) \in sim.heap
    BY DEF Init
  <2>2. \A c \in Customers :
          /\ sim.customer[c].start = Never /\ ~sim.customer[c].departed
          /\ sim.customer[c].unserved = "no"
    BY DEF Init
  <2>3. Coming = Customers /\ Serving = {} /\ Departed = {} /\ Unserved = {}
    BY <2>1, <2>2 DEF Coming, Serving, Started, Departed, Unserved
  <2> QED
    BY <2>1, <2>3 DEF Line!Init
<1>2. IInv /\ [Next]_vars => [Line!Next]_Line!vars
  BY StepsKeepThePromise
<1> QED
  BY <1>1, <1>2, AlwaysStands, PTL DEF Spec, KeepsThePromise, Line!Spec
=============================================================================
