--------------------------- MODULE SegmentDayProofs ---------------------------
(***************************************************************************)
(* Proofs about SegmentDay, for any number of periods and counters, any    *)
(* length of a period and any limit of the record: first the order of the  *)
(* line, then sums over finite sets, and with them the books of a period.  *)
(***************************************************************************)
EXTENDS SegmentDay, TLAPS, FiniteSetTheorems, SequenceTheorems, WellFoundedInduction

\* A non-empty set of natural numbers has a least member.
LEMMA LeastNumber ==
  ASSUME NEW S, S \subseteq Nat, S # {}
  PROVE  \E m \in S : \A k \in S : m <= k
<1> DEFINE Less == {ss \in Nat \X Nat : ss[1] < ss[2]}
<1>1. IsWellFoundedOn(Less, Nat)
  BY NatLessThanWellFounded DEF OpToRel
<1> HIDE DEF Less
<1>2. PICK m \in S : \A k \in S : ~ (<<k, m>> \in Less)
  BY <1>1, WFMin
<1>3. \A k \in S : ~ (k < m)
  BY <1>2 DEF Less
<1> QED
  BY <1>3

\* Min is that member.
LEMMA MinIsLeast ==
  ASSUME NEW S, S \subseteq Nat, S # {}
  PROVE  Min(S) \in S /\ \A k \in S : Min(S) <= k
BY LeastNumber DEF Min

\* What is due by some time is a beginning of the agenda.
LEMMA DueFirst ==
  ASSUME NEW a, Len(a) \in Nat, DOMAIN a = 1 .. Len(a), \A i \in 1 .. Len(a) : a[i].at \in Nat,
         \A i, j \in DOMAIN a : i < j => a[i].at <= a[j].at, NEW t \in Nat
  PROVE  \E k \in 0 .. Len(a) : {i \in DOMAIN a : a[i].at <= t} = 1 .. k
<1>0. Len(a) \in Nat /\ DOMAIN a = 1 .. Len(a) /\ \A i \in 1 .. Len(a) : a[i].at \in Nat
  OBVIOUS
<1> DEFINE Late == {i \in 1 .. Len(a) : ~ (a[i].at <= t)}
<1>1. CASE Late = {}
  <2>1. {i \in DOMAIN a : a[i].at <= t} = 1 .. Len(a)
    BY <1>0, <1>1
  <2> QED
    BY <1>0, <2>1
<1>2. CASE Late # {}
  <2>0. Late \subseteq Nat
    OBVIOUS
  <2>1. PICK m \in Late : \A k \in Late : m <= k
    <3> HIDE DEF Late
    <3> QED
      BY <1>2, <2>0, LeastNumber
  <2>2. m \in 1 .. Len(a) /\ ~ (a[m].at <= t)
    OBVIOUS
  <2>3. \A i \in 1 .. Len(a) : m < i => ~ (a[i].at <= t)
    BY <1>0, <2>2
  <2>4. \A i \in 1 .. Len(a) : i < m => a[i].at <= t
    BY <2>1, <2>2
  <2>5. {i \in DOMAIN a : a[i].at <= t} = 1 .. (m - 1)
    <3> HIDE DEF Late
    <3> QED
      BY <1>0, <2>2, <2>3, <2>4
  <2>6. m - 1 \in 0 .. Len(a)
    BY <1>0, <2>2
  <2> QED
    BY <2>5, <2>6
<1> QED
  BY <1>1, <1>2

\* b is a with x put in behind the first k entries.
Grown(a, k, x, b) ==
  /\ Len(b) = Len(a) + 1
  /\ \A i \in 1 .. k : b[i] = a[i]
  /\ b[k + 1] = x
  /\ \A i \in k + 1 .. Len(a) : b[i + 1] = a[i]

\* An entry is put behind those due by its time, and the others move up.
LEMMA Inserted ==
  ASSUME NEW Entries, NEW a \in Seq(Entries), NEW k \in 0 .. Len(a), NEW x \in Entries
  PROVE  InsertAt(a, k + 1, x) \in Seq(Entries) /\ Grown(a, k, x, InsertAt(a, k + 1, x))
<1>a. PICK b : b = InsertAt(a, k + 1, x)
  OBVIOUS
<1>0. Len(a) \in Nat /\ k \in Nat /\ k <= Len(a) /\ a \in Seq(Entries) /\ \A i \in 1 .. Len(a) : a[i] \in Entries
  BY LenProperties, ElementOfSeq
<1>1. PICK front : front = SubSeq(a, 1, k)
  OBVIOUS
<1>2. PICK back : back = SubSeq(a, k + 1, Len(a))
  OBVIOUS
<1>3. front \in Seq(Entries) /\ Len(front) = k /\ \A i \in 1 .. k : front[i] = a[i]
  BY <1>0, <1>1, SubSeqProperties
<1>4. back \in Seq(Entries) /\ Len(back) = Len(a) - k /\ \A i \in 1 .. Len(a) - k : back[i] = a[k + i]
  <2>1. \A i \in k + 1 .. Len(a) : a[i] \in Entries
    BY <1>0
  <2>2. /\ back \in Seq(Entries)
        /\ Len(back) = IF k + 1 <= Len(a) THEN Len(a) - (k + 1) + 1 ELSE 0
        /\ \A i \in 1 .. Len(a) - (k + 1) + 1 : back[i] = a[k + 1 + i - 1]
    BY <1>0, <1>2, <2>1, SubSeqProperties
  <2>3. Len(back) = Len(a) - k
    BY <1>0, <2>2
  <2>4. ASSUME NEW i \in 1 .. Len(a) - k PROVE back[i] = a[k + i]
    <3>1. i \in 1 .. Len(a) - (k + 1) + 1 /\ k + 1 + i - 1 = k + i
      BY <1>0
    <3> QED
      BY <2>2, <3>1
  <2> QED
    BY <2>2, <2>3, <2>4
<1>5. PICK mid : mid = front \o <<x>>
  OBVIOUS
<1>6. mid \in Seq(Entries) /\ Len(mid) = k + 1 /\ mid[k + 1] = x /\ \A i \in 1 .. k : mid[i] = a[i]
  <2>1. <<x>> \in Seq(Entries) /\ Len(<<x>>) = 1 /\ <<x>>[1] = x
    OBVIOUS
  <2>2. /\ mid \in Seq(Entries) /\ Len(mid) = k + 1
        /\ \A i \in 1 .. k + 1 : mid[i] = IF i <= k THEN front[i] ELSE <<x>>[i - k]
    BY <1>3, <1>5, <2>1, ConcatProperties
  <2> QED
    BY <1>0, <1>3, <2>1, <2>2
<1>7. b = mid \o back
  <2>1. (k + 1) - 1 = k
    BY <1>0
  <2>2. InsertAt(a, k + 1, x) = SubSeq(a, 1, (k + 1) - 1) \o <<x>> \o SubSeq(a, k + 1, Len(a))
    BY DEF InsertAt
  <2> QED
    BY <1>a, <1>1, <1>2, <1>5, <2>1, <2>2, Zenon
<1>8. /\ b \in Seq(Entries) /\ Len(b) = Len(mid) + Len(back)
      /\ \A i \in 1 .. Len(mid) + Len(back) : b[i] = IF i <= Len(mid) THEN mid[i] ELSE back[i - Len(mid)]
  <2>1. mid \in Seq(Entries) /\ back \in Seq(Entries)
    BY <1>4, <1>6
  <2> QED
    BY <1>7, <2>1, ConcatProperties
<1>9. Len(mid) = k + 1 /\ Len(mid) + Len(back) = Len(a) + 1
  BY <1>0, <1>4, <1>6
<1>10. b \in Seq(Entries) /\ Len(b) = Len(a) + 1
  BY <1>8, <1>9
<1>11. \A i \in 1 .. k : b[i] = a[i]
  BY <1>0, <1>6, <1>8, <1>9
<1>12. b[k + 1] = x
  BY <1>0, <1>6, <1>8, <1>9
<1>13. ASSUME NEW i \in k + 1 .. Len(a) PROVE b[i + 1] = a[i]
  <2>1. i + 1 \in 1 .. Len(a) + 1 /\ ~ (i + 1 <= k + 1) /\ i + 1 - (k + 1) = i - k /\ i - k \in 1 .. Len(a) - k
    BY <1>0
  <2>2. b[i + 1] = back[i - k]
    <3>1. i + 1 \in 1 .. Len(mid) + Len(back) /\ ~ (i + 1 <= Len(mid)) /\ i + 1 - Len(mid) = i - k
      BY <1>9, <2>1
    <3>2. b[i + 1] = back[i + 1 - Len(mid)]
      BY <1>8, <3>1
    <3> QED
      BY <3>1, <3>2
  <2>3. k + (i - k) = i
    BY <1>0
  <2> QED
    BY <1>4, <2>1, <2>2, <2>3
<1> QED
  BY <1>a, <1>10, <1>11, <1>12, <1>13 DEF Grown


-----------------------------------------------------------------------------
(* The invariant, of the parts of the period under way *)

Kinds == {"arrival", "granted", "end", "released"}

Entries == [at : Nat, what : Kinds, of : Nat]

CustomerRows == [period : 1 .. K, arrival : Nat, start : Nat \cup {Never}, work : Nat]

Marks == [t : Nat, type : {"arrival", "service_start", "service_end"}, customer : Nat, server : Int, line : Nat]

Fields ==
  {"period", "now", "agenda", "line", "users", "server", "longest", "left", "served", "waits", "seen", "queueArea",
   "busyArea"}

\* What the events of this kind in agenda a are about.
Named(a, what) == {i \in DOMAIN a : a[i].what = what}

\* Who has a counter and is about to be served.
Called(a) == {a[i].of : i \in Named(a, "granted")}

\* How many counters are being offered to the line.
Offers(a) == Cardinality(Named(a, "released"))

\* The agenda is in the order of time, from now on; a release and a grant are handled at once, and grants in the order
\* of ids.
AgendaOK(a, now, users, server) ==
  /\ a \in Seq(Entries)
  /\ \A i, j \in DOMAIN a : i < j => a[i].at <= a[j].at
  /\ \A i \in DOMAIN a : a[i].at >= now
  /\ \A i \in Named(a, "released") : a[i].at = now
  /\ \A i \in Named(a, "granted") : a[i].at = now /\ a[i].of \in users \ DOMAIN server
  /\ \A i, j \in Named(a, "granted") : i < j => a[i].of < a[j].of
  /\ \A i \in Named(a, "end") : a[i].of \in DOMAIN server
  /\ \A i, j \in Named(a, "end") : a[i].of = a[j].of => i = j

\* Everyone in service has a counter of his own.
CountersOK(users, server, n) ==
  /\ IsFiniteSet(users) /\ Cardinality(users) <= n
  /\ DOMAIN server \subseteq users
  /\ server \in [DOMAIN server -> 0 .. n - 1]
  /\ IsInjective(server)

\* The line is in the order of ids, behind whoever was called.
LineOK(a, line, users) ==
  /\ line \in Seq(Nat)
  /\ \A i, j \in DOMAIN line : i < j => line[i] < line[j]
  /\ \A i \in DOMAIN line : line[i] \notin users /\ \A c \in Called(a) : c < line[i]

\* While somebody stands in line every free counter is being offered.
Manned(a, line, users, n) == line # <<>> => n <= Cardinality(users) + Offers(a)

\* Services of one period start in the order of ids.
InOrder(people) ==
  \A k \in 1 .. K : \A b, c \in DOMAIN people :
    people[b].period = k /\ people[c].period = k /\ b < c /\ people[c].start # Never =>
      people[b].start # Never /\ people[b].start <= people[c].start

\* Whoever of the period has not begun was called or stands in line.
PeopleOK(p, now, a, line, users, people) ==
  /\ people \in Seq(CustomerRows)
  /\ users \subseteq DOMAIN people
  /\ \A c \in DOMAIN people : people[c].period <= p
  /\ \A c \in Called(a) \cup Range(line) : c \in DOMAIN people /\ people[c].period = p /\ people[c].start = Never
  /\ \A c \in DOMAIN people : people[c].period = p /\ people[c].start = Never => c \in Called(a) \cup Range(line)
  /\ \A c \in DOMAIN people : people[c].period = p /\ people[c].start # Never => people[c].start <= now
  /\ InOrder(people)

Orderly(p, now, a, line, users, server, people) ==
  /\ now \in 0 .. Hours
  /\ AgendaOK(a, now, users, server)
  /\ CountersOK(users, server, plan[p].servers)
  /\ LineOK(a, line, users)
  /\ PeopleOK(p, now, a, line, users, people)

Good(p, now, a, line, users, server, people) ==
  /\ Orderly(p, now, a, line, users, server, people)
  /\ Manned(a, line, users, plan[p].servers)

\* The period under way and the customers are as they should be.
Sound(s, people) ==
  /\ DOMAIN s = Fields /\ s.period \in 1 .. K
  /\ Good(s.period, s.now, s.agenda, s.line, s.users, s.server, people)

\* The time of day of a time of period p.
Clock(p, now) == (p - 1) * Hours + now

\* The record is in the order of time, up to time t of the day.
RecordOK(r, t) ==
  /\ r \in [events : Seq(Marks), truncated : BOOLEAN]
  /\ Len(r.events) <= MaxEvents /\ (r.truncated => Len(r.events) = MaxEvents)
  /\ \A i, j \in DOMAIN r.events : i < j => r.events[i].t <= r.events[j].t
  /\ \A i \in DOMAIN r.events : r.events[i].t <= t

\* The day is over.
Idle ==
  /\ sim.period = K /\ sim.agenda = <<>> /\ sim.line = <<>> /\ sim.server = <<>>
  /\ InOrder(customer)

\* The inductive invariant.
IInv ==
  /\ plan \in [1 .. K -> Periods] /\ carryover \in BOOLEAN
  /\ DOMAIN sim = Fields /\ sim.period \in 1 .. K /\ sim.now \in 0 .. Hours
  /\ rows \in Seq(Range(rows)) /\ Len(rows) <= K
  /\ Len(rows) < K => sim.period = Len(rows) + 1 /\ Sound(sim, customer)
  /\ Len(rows) = K => Idle
  /\ RecordOK(record, Clock(sim.period, sim.now))

-----------------------------------------------------------------------------
(* The agenda *)

InTime(a) == \A i, j \in DOMAIN a : i < j => a[i].at <= a[j].at

\* x is put behind the entries due by its time.
Placed(a, x) == InsertAt(a, Cardinality({i \in DOMAIN a : a[i].at <= x.at}) + 1, x)

\* The first k entries are those due by t.
Split(a, t, k) == (\A i \in 1 .. k : a[i].at <= t) /\ (\A i \in k + 1 .. Len(a) : t < a[i].at)

\* An agenda is a sequence of entries, and an entry has a time, a kind and an id.
LEMMA AgendaProperties ==
  ASSUME NEW a \in Seq(Entries)
  PROVE  /\ Len(a) \in Nat /\ DOMAIN a = 1 .. Len(a)
         /\ \A i \in 1 .. Len(a) : a[i] \in Entries /\ a[i].at \in Nat /\ a[i].of \in Nat /\ a[i].what \in Kinds
<1>1. Len(a) \in Nat /\ DOMAIN a = 1 .. Len(a) /\ \A i \in 1 .. Len(a) : a[i] \in Entries
  BY LenProperties, ElementOfSeq
<1> QED
  BY <1>1 DEF Entries

\* An entry is put behind everything due no later than itself (SimPy keeps the order of scheduling at one time).
LEMMA PlacedIs ==
  ASSUME NEW a \in Seq(Entries), InTime(a), NEW x \in Entries
  PROVE  Placed(a, x) \in Seq(Entries) /\ \E k \in 0 .. Len(a) : Grown(a, k, x, Placed(a, x)) /\ Split(a, x.at, k)
<1>0. Len(a) \in Nat /\ DOMAIN a = 1 .. Len(a) /\ \A i \in 1 .. Len(a) : a[i].at \in Nat
  BY AgendaProperties
<1>1. PICK t \in Nat : t = x.at
  BY DEF Entries
<1>2. PICK k \in 0 .. Len(a) : {i \in DOMAIN a : a[i].at <= t} = 1 .. k
  BY <1>0, DueFirst DEF InTime
<1>3. Cardinality(1 .. k) = k /\ k \in Nat /\ k <= Len(a)
  BY <1>0, FS_Interval
<1>4. Placed(a, x) = InsertAt(a, k + 1, x)
  BY <1>1, <1>2, <1>3 DEF Placed
<1>5. Placed(a, x) \in Seq(Entries) /\ Grown(a, k, x, Placed(a, x))
  BY <1>4, Inserted
<1>6. ASSUME NEW i \in 1 .. k PROVE a[i].at <= t
  BY <1>2
<1>7. ASSUME NEW i \in k + 1 .. Len(a) PROVE t < a[i].at
  <2>1. i \notin 1 .. k /\ i \in DOMAIN a
    BY <1>0, <1>3
  <2>2. ~ (a[i].at <= t)
    BY <1>2, <2>1
  <2> QED
    BY <1>0, <1>3, <2>2
<1> QED
  BY <1>1, <1>5, <1>6, <1>7 DEF Split

\* Where everything is after that.
LEMMA Moved ==
  ASSUME NEW a \in Seq(Entries), NEW x \in Entries, NEW k \in 0 .. Len(a), NEW b \in Seq(Entries), Grown(a, k, x, b)
  PROVE  /\ DOMAIN b = 1 .. Len(a) + 1
         /\ \A j \in DOMAIN b :
              \/ j <= k /\ j \in DOMAIN a /\ b[j] = a[j]
              \/ j = k + 1 /\ b[j] = x
              \/ j > k + 1 /\ j - 1 \in DOMAIN a /\ j - 1 > k /\ b[j] = a[j - 1]
         /\ \A i \in DOMAIN a : \E j \in DOMAIN b : b[j] = a[i]
         /\ k + 1 \in DOMAIN b /\ b[k + 1] = x
<1>0. Len(a) \in Nat /\ DOMAIN a = 1 .. Len(a) /\ k \in Nat /\ k <= Len(a)
  BY AgendaProperties
<1>1. Len(b) = Len(a) + 1 /\ DOMAIN b = 1 .. Len(a) + 1
  BY AgendaProperties DEF Grown
<1>2. /\ \A i \in 1 .. k : b[i] = a[i]
      /\ b[k + 1] = x
      /\ \A i \in k + 1 .. Len(a) : b[i + 1] = a[i]
  BY DEF Grown
<1>3. ASSUME NEW j \in DOMAIN b
      PROVE  \/ j <= k /\ j \in DOMAIN a /\ b[j] = a[j]
             \/ j = k + 1 /\ b[j] = x
             \/ j > k + 1 /\ j - 1 \in DOMAIN a /\ j - 1 > k /\ b[j] = a[j - 1]
  <2>1. CASE j <= k
    BY <1>0, <1>1, <1>2, <2>1
  <2>2. CASE j = k + 1
    BY <1>2, <2>2
  <2>3. CASE j > k + 1
    <3>1. j - 1 \in k + 1 .. Len(a) /\ j - 1 + 1 = j
      BY <1>0, <1>1, <2>3
    <3>2. b[j] = a[j - 1]
      BY <1>2, <3>1
    <3> QED
      BY <1>0, <2>3, <3>1, <3>2
  <2> QED
    BY <1>0, <1>1, <2>1, <2>2, <2>3
<1>4. ASSUME NEW i \in DOMAIN a PROVE \E j \in DOMAIN b : b[j] = a[i]
  <2>1. CASE i <= k
    BY <1>0, <1>1, <1>2, <2>1
  <2>2. CASE i > k
    <3>1. i + 1 \in DOMAIN b /\ b[i + 1] = a[i]
      BY <1>0, <1>1, <1>2, <2>2
    <3> QED
      BY <3>1
  <2> QED
    BY <1>0, <2>1, <2>2
<1> QED
  BY <1>0, <1>1, <1>2, <1>3, <1>4

\* A new entry that fits keeps the agenda in order.
Fits(x, a, now, users, server) ==
  /\ x.at >= now
  /\ x.what = "released" => x.at = now
  /\ x.what = "granted" => x.at = now /\ x.of \in users \ DOMAIN server /\ \A c \in Called(a) : c < x.of
  /\ x.what = "end" => x.of \in DOMAIN server /\ \A i \in Named(a, "end") : a[i].of # x.of

\* An entry that fits an agenda in order leaves it in order; only a grant adds to those who were called.
LEMMA PlacedKeeps ==
  ASSUME NEW a, NEW now \in Nat, NEW users, NEW server, AgendaOK(a, now, users, server),
         NEW x \in Entries, Fits(x, a, now, users, server)
  PROVE  /\ AgendaOK(Placed(a, x), now, users, server)
         /\ x.what = "granted" => Called(Placed(a, x)) = Called(a) \cup {x.of}
         /\ x.what # "granted" => Called(Placed(a, x)) = Called(a)
<1>a. a \in Seq(Entries) /\ InTime(a)
  BY DEF AgendaOK, InTime
<1>0. Len(a) \in Nat /\ DOMAIN a = 1 .. Len(a) /\ \A i \in DOMAIN a : a[i].at \in Nat /\ a[i].of \in Nat /\ a[i].what \in Kinds
  BY <1>a, AgendaProperties
<1>b. x.at \in Nat /\ x.of \in Nat /\ x.what \in Kinds
  BY DEF Entries
<1>1. PICK b \in Seq(Entries), k \in 0 .. Len(a) : b = Placed(a, x) /\ Grown(a, k, x, b) /\ Split(a, x.at, k)
  BY <1>a, PlacedIs
<1>2. /\ DOMAIN b = 1 .. Len(a) + 1
      /\ \A j \in DOMAIN b :
           \/ j <= k /\ j \in DOMAIN a /\ b[j] = a[j]
           \/ j = k + 1 /\ b[j] = x
           \/ j > k + 1 /\ j - 1 \in DOMAIN a /\ j - 1 > k /\ b[j] = a[j - 1]
      /\ \A i \in DOMAIN a : \E j \in DOMAIN b : b[j] = a[i]
      /\ k + 1 \in DOMAIN b /\ b[k + 1] = x
  BY <1>a, <1>1, Moved
<1>3. k \in Nat /\ (\A i \in DOMAIN a : i <= k => a[i].at <= x.at) /\ (\A i \in DOMAIN a : i > k => x.at < a[i].at)
  BY <1>0, <1>1 DEF Split
<1>4. ASSUME NEW i \in DOMAIN b, NEW j \in DOMAIN b, i < j PROVE b[i].at <= b[j].at
  <2>1. i \in Nat /\ j \in Nat
    BY <1>2
  <2>2. CASE j <= k
    <3>1. b[i] = a[i] /\ b[j] = a[j] /\ i \in DOMAIN a /\ j \in DOMAIN a
      BY <1>2, <1>3, <1>4, <2>1, <2>2, SMTT(30)
    <3> QED
      BY <1>4, <1>a, <3>1 DEF InTime
  <2>3. CASE j = k + 1
    BY <1>2, <1>3, <1>4, <2>1, <2>3
  <2>4. CASE j > k + 1
    <3>0. j - 1 \in DOMAIN a /\ j - 1 > k /\ b[j] = a[j - 1]
      BY <1>2, <1>3, <2>1, <2>4
    <3>1. CASE i <= k
      <4>0. i # k + 1 /\ ~ (i > k + 1) /\ i < j - 1
        BY <1>3, <2>1, <3>0, <3>1
      <4>1. b[i] = a[i] /\ i \in DOMAIN a
        BY <1>2, <4>0
      <4>2. a[i].at <= a[j - 1].at
        BY <1>a, <3>0, <4>0, <4>1 DEF InTime
      <4> QED
        BY <3>0, <4>1, <4>2
    <3>2. CASE i = k + 1
      BY <1>0, <1>2, <1>3, <1>b, <3>0, <3>2
    <3>3. CASE i > k + 1
      <4>1. b[i] = a[i - 1] /\ i - 1 \in DOMAIN a /\ i - 1 < j - 1
        BY <1>2, <1>3, <1>4, <2>1, <3>3
      <4>2. a[i - 1].at <= a[j - 1].at
        BY <1>a, <3>0, <4>1 DEF InTime
      <4> QED
        BY <3>0, <4>1, <4>2
    <3> QED
      BY <1>3, <2>1, <3>1, <3>2, <3>3
  <2> QED
    BY <1>3, <2>1, <2>2, <2>3, <2>4
<1>5. ASSUME NEW i \in DOMAIN b PROVE b[i].at >= now
  <2>1. x.at >= now /\ \A m \in DOMAIN a : a[m].at >= now
    BY DEF AgendaOK, Fits
  <2> QED
    BY <1>2, <2>1
<1>c. \A j \in DOMAIN b : b[j] = x \/ \E m \in DOMAIN a : b[j] = a[m]
  BY <1>2
<1>6. ASSUME NEW i \in Named(b, "granted") PROVE b[i].at = now /\ b[i].of \in users \ DOMAIN server
  <2>1. x.what = "granted" => x.at = now /\ x.of \in users \ DOMAIN server
    BY DEF Fits
  <2>2. \A m \in DOMAIN a : a[m].what = "granted" => a[m].at = now /\ a[m].of \in users \ DOMAIN server
    BY DEF AgendaOK, Named
  <2>3. i \in DOMAIN b /\ b[i].what = "granted"
    BY DEF Named
  <2> QED
    BY <1>c, <2>1, <2>2, <2>3
<1>7. ASSUME NEW i \in Named(b, "granted"), NEW j \in Named(b, "granted"), i < j PROVE b[i].of < b[j].of
  <2>0. i \in DOMAIN b /\ j \in DOMAIN b /\ b[i].what = "granted" /\ b[j].what = "granted" /\ i \in Nat /\ j \in Nat
    BY <1>2 DEF Named
  <2>1. CASE j <= k
    <3>0. i <= k /\ i # k + 1 /\ ~ (i > k + 1) /\ j # k + 1 /\ ~ (j > k + 1)
      BY <1>3, <1>7, <2>0, <2>1
    <3>1. i \in Named(a, "granted") /\ j \in Named(a, "granted") /\ b[i] = a[i] /\ b[j] = a[j]
      BY <1>2, <2>0, <3>0 DEF Named
    <3>2. a[i].of < a[j].of
      BY <1>7, <3>1 DEF AgendaOK
    <3> QED
      BY <3>1, <3>2
  <2>2. CASE j = k + 1
    <3>1. i \in Named(a, "granted") /\ b[i] = a[i] /\ b[j] = x
      BY <1>2, <1>3, <1>7, <2>0, <2>2 DEF Named
    <3>2. a[i].of \in Called(a)
      BY <3>1 DEF Called
    <3> QED
      BY <2>0, <3>1, <3>2 DEF Fits
  <2>3. CASE j > k + 1
    <3>1. j - 1 \in Named(a, "granted") /\ j - 1 > k /\ b[j] = a[j - 1]
      BY <1>2, <1>3, <2>0, <2>3 DEF Named
    <3>2. CASE i > k + 1
      <4>1. i - 1 \in Named(a, "granted") /\ b[i] = a[i - 1] /\ i - 1 < j - 1
        BY <1>2, <1>3, <1>7, <2>0, <3>2 DEF Named
      <4> QED
        BY <3>1, <4>1 DEF AgendaOK
    <3>3. CASE i = k + 1
      <4>1. x.at = now /\ a[j - 1].at = now /\ j - 1 \in DOMAIN a
        BY <1>2, <2>0, <3>1, <3>3 DEF AgendaOK, Fits, Named
      <4> QED
        BY <1>3, <3>1, <4>1
    <3>4. CASE i <= k
      <4>1. i \in Named(a, "granted") /\ b[i] = a[i] /\ i < j - 1
        BY <1>2, <1>3, <2>0, <3>1, <3>4 DEF Named
      <4> QED
        BY <3>1, <4>1 DEF AgendaOK
    <3> QED
      BY <1>3, <2>0, <3>2, <3>3, <3>4
  <2> QED
    BY <1>3, <2>0, <2>1, <2>2, <2>3
<1>8. ASSUME NEW i \in Named(b, "end") PROVE b[i].of \in DOMAIN server
  <2>1. x.what = "end" => x.of \in DOMAIN server
    BY DEF Fits
  <2>2. \A m \in DOMAIN a : a[m].what = "end" => a[m].of \in DOMAIN server
    BY DEF AgendaOK, Named
  <2>3. i \in DOMAIN b /\ b[i].what = "end"
    BY DEF Named
  <2> QED
    BY <1>c, <2>1, <2>2, <2>3
<1>9. ASSUME NEW i \in Named(b, "end"), NEW j \in Named(b, "end"), b[i].of = b[j].of PROVE i = j
  <2> DEFINE back(m) == IF m <= k THEN m ELSE m - 1
  <2>1. ASSUME NEW m \in Named(b, "end"), m # k + 1
        PROVE  back(m) \in Named(a, "end") /\ b[m] = a[back(m)] /\ m \in Nat
    BY <1>2, <1>3, <2>1 DEF Named
  <2>2. CASE i # k + 1 /\ j # k + 1
    <3>1. back(i) = back(j)
      BY <1>9, <2>1, <2>2 DEF AgendaOK
    <3> QED
      BY <1>3, <2>1, <2>2, <3>1
  <2>3. CASE i = k + 1 /\ j # k + 1
    BY <1>2, <1>9, <2>1, <2>3 DEF Fits, Named
  <2>4. CASE i # k + 1 /\ j = k + 1
    BY <1>2, <1>9, <2>1, <2>4 DEF Fits, Named
  <2> QED
    BY <2>2, <2>3, <2>4
<1>d. ASSUME NEW i \in Named(b, "released") PROVE b[i].at = now
  <2>1. x.what = "released" => x.at = now
    BY DEF Fits
  <2>2. \A m \in DOMAIN a : a[m].what = "released" => a[m].at = now
    BY DEF AgendaOK, Named
  <2>3. i \in DOMAIN b /\ b[i].what = "released"
    BY DEF Named
  <2> QED
    BY <1>c, <2>1, <2>2, <2>3
<1>10. AgendaOK(b, now, users, server)
  BY <1>4, <1>5, <1>6, <1>7, <1>8, <1>9, <1>d DEF AgendaOK
<1>11. x.what = "granted" => Called(b) = Called(a) \cup {x.of}
  <2> HAVE x.what = "granted"
  <2>1. ASSUME NEW c \in Called(b) PROVE c \in Called(a) \cup {x.of}
    BY <1>2 DEF Called, Named
  <2>2. ASSUME NEW c \in Called(a) \cup {x.of} PROVE c \in Called(b)
    BY <1>2 DEF Called, Named
  <2> QED
    BY <2>1, <2>2
<1>12. x.what # "granted" => Called(b) = Called(a)
  <2> HAVE x.what # "granted"
  <2>1. ASSUME NEW c \in Called(b) PROVE c \in Called(a)
    BY <1>2 DEF Called, Named
  <2>2. ASSUME NEW c \in Called(a) PROVE c \in Called(b)
    BY <1>2 DEF Called, Named
  <2> QED
    BY <2>1, <2>2
<1> QED
  BY <1>1, <1>10, <1>11, <1>12

\* The first entry is taken out, and time moves on to it; whoever was called is handled before it does.
LEMMA TakenOut ==
  ASSUME NEW a, NEW now \in Nat, NEW users, NEW server, AgendaOK(a, now, users, server), a # <<>>
  PROVE  /\ Head(a) \in Entries /\ Head(a).at >= now
         /\ AgendaOK(Tail(a), Head(a).at, users, server)
         /\ Head(a).what = "released" => Head(a).at = now
         /\ Head(a).what = "granted" =>
              /\ Head(a).at = now /\ Head(a).of \in users \ DOMAIN server
              /\ Called(a) = Called(Tail(a)) \cup {Head(a).of} /\ \A c \in Called(Tail(a)) : Head(a).of < c
         /\ Head(a).what # "granted" => Called(Tail(a)) = Called(a)
         /\ Head(a).what = "end" =>
              Head(a).of \in DOMAIN server /\ \A i \in Named(Tail(a), "end") : Tail(a)[i].of # Head(a).of
<1>a. a \in Seq(Entries)
  BY DEF AgendaOK
<1>0. Len(a) \in Nat /\ DOMAIN a = 1 .. Len(a) /\ \A i \in DOMAIN a : a[i] \in Entries /\ a[i].at \in Nat /\ a[i].of \in Nat
  BY <1>a, AgendaProperties
<1>1. PICK b : b = Tail(a)
  OBVIOUS
<1>2. PICK x : x = Head(a)
  OBVIOUS
<1>3. Len(a) # 0 /\ x = a[1] /\ 1 \in DOMAIN a
  BY <1>0, <1>2, <1>a, EmptySeq
<1>4. b \in Seq(Entries) /\ DOMAIN b = 1 .. Len(a) - 1 /\ \A i \in DOMAIN b : b[i] = a[i + 1] /\ i + 1 \in DOMAIN a
  <2>1. b \in Seq(Entries) /\ Len(b) = Len(a) - 1 /\ \A i \in 1 .. Len(b) : b[i] = a[i + 1]
    BY <1>1, <1>3, <1>a, HeadTailProperties
  <2>2. DOMAIN b = 1 .. Len(a) - 1
    BY <2>1, LenProperties
  <2> QED
    BY <1>0, <2>1, <2>2
<1>5. \A i \in DOMAIN a : i = 1 \/ (i - 1 \in DOMAIN b /\ b[i - 1] = a[i])
  <2>1. ASSUME NEW i \in DOMAIN a, i # 1 PROVE i - 1 \in DOMAIN b /\ b[i - 1] = a[i]
    <3>1. i - 1 \in DOMAIN b /\ i - 1 + 1 = i
      BY <1>0, <1>4, <2>1
    <3> QED
      BY <1>4, <3>1
  <2> QED
    BY <2>1
<1>6. ASSUME NEW i \in DOMAIN b, NEW j \in DOMAIN b, i < j PROVE b[i].at <= b[j].at
  <2>1. i + 1 < j + 1
    BY <1>4, <1>6
  <2> QED
    BY <1>4, <2>1 DEF AgendaOK
<1>7. ASSUME NEW i \in DOMAIN b PROVE b[i].at >= x.at
  <2>1. 1 < i + 1
    BY <1>4
  <2>2. a[1].at <= a[i + 1].at
    BY <1>3, <1>4, <2>1 DEF AgendaOK
  <2> QED
    BY <1>0, <1>3, <1>4, <2>2
<1>8. x.at >= now /\ x.at \in Nat /\ x \in Entries
  BY <1>0, <1>3 DEF AgendaOK
<1>9. ASSUME NEW i \in Named(b, "granted")
      PROVE  i \in DOMAIN b /\ i + 1 \in Named(a, "granted") /\ b[i] = a[i + 1] /\ b[i].at = now /\ x.at = now
             /\ b[i].of \in users \ DOMAIN server
  <2>1. i \in DOMAIN b /\ i + 1 \in Named(a, "granted") /\ b[i] = a[i + 1]
    BY <1>4 DEF Named
  <2>2. b[i].at = now /\ b[i].of \in users \ DOMAIN server
    BY <2>1 DEF AgendaOK
  <2> QED
    BY <1>7, <1>8, <2>1, <2>2
<1>10. ASSUME NEW i \in Named(b, "granted"), NEW j \in Named(b, "granted"), i < j PROVE b[i].of < b[j].of
  <2>1. i + 1 < j + 1
    BY <1>4, <1>9, <1>10
  <2> QED
    BY <1>9, <2>1 DEF AgendaOK
<1>11. ASSUME NEW i \in Named(b, "end") PROVE i \in Nat /\ i + 1 \in Named(a, "end") /\ b[i] = a[i + 1]
  BY <1>4 DEF Named
<1>12. ASSUME NEW i \in Named(b, "end"), NEW j \in Named(b, "end"), b[i].of = b[j].of PROVE i = j
  <2>1. i + 1 = j + 1
    BY <1>11, <1>12 DEF AgendaOK
  <2> QED
    BY <1>11, <2>1
<1>13. AgendaOK(b, x.at, users, server)
  <2>1. \A i \in Named(b, "granted") : b[i].at = x.at /\ b[i].of \in users \ DOMAIN server
    BY <1>9
  <2>2. \A i \in Named(b, "end") : b[i].of \in DOMAIN server
    BY <1>11 DEF AgendaOK
  <2>3. ASSUME NEW i \in Named(b, "released") PROVE b[i].at = x.at
    <3>1. i \in DOMAIN b /\ i + 1 \in Named(a, "released") /\ b[i] = a[i + 1]
      BY <1>4 DEF Named
    <3>2. b[i].at = now
      BY <3>1 DEF AgendaOK
    <3> QED
      BY <1>7, <1>8, <3>1, <3>2
  <2> QED
    BY <1>4, <1>6, <1>7, <1>10, <1>12, <2>1, <2>2, <2>3 DEF AgendaOK
<1>17. ASSUME x.what = "released" PROVE x.at = now
  BY <1>3, <1>17 DEF AgendaOK, Named
<1>14. ASSUME x.what = "granted"
       PROVE  /\ x.at = now /\ x.of \in users \ DOMAIN server
              /\ Called(a) = Called(b) \cup {x.of} /\ \A c \in Called(b) : x.of < c
  <2>1. 1 \in Named(a, "granted")
    BY <1>3, <1>14 DEF Named
  <2>2. ASSUME NEW c \in Called(b) PROVE x.of < c /\ c \in Called(a)
    <3>1. PICK i \in Named(b, "granted") : c = b[i].of
      BY DEF Called
    <3>2. 1 < i + 1 /\ i + 1 \in Named(a, "granted") /\ c = a[i + 1].of
      BY <1>4, <1>9, <3>1
    <3> QED
      BY <1>3, <2>1, <3>2 DEF AgendaOK, Called
  <2>3. ASSUME NEW c \in Called(a) PROVE c \in Called(b) \cup {x.of}
    BY <1>3, <1>5 DEF Called, Named
  <2>4. x.of \in Called(a)
    BY <1>3, <2>1 DEF Called
  <2> QED
    BY <1>3, <2>1, <2>2, <2>3, <2>4 DEF AgendaOK
<1>15. ASSUME x.what # "granted" PROVE Called(b) = Called(a)
  <2>1. ASSUME NEW c \in Called(b) PROVE c \in Called(a)
    BY <1>9 DEF Called
  <2>2. ASSUME NEW c \in Called(a) PROVE c \in Called(b)
    BY <1>3, <1>5, <1>15 DEF Called, Named
  <2> QED
    BY <2>1, <2>2
<1>16. ASSUME x.what = "end" PROVE x.of \in DOMAIN server /\ \A i \in Named(b, "end") : b[i].of # x.of
  <2>1. 1 \in Named(a, "end")
    BY <1>3, <1>16 DEF Named
  <2>2. ASSUME NEW i \in Named(b, "end"), b[i].of = x.of PROVE FALSE
    <3>1. i + 1 = 1
      BY <1>3, <1>11, <2>1, <2>2 DEF AgendaOK
    <3> QED
      BY <1>4, <3>1, <2>2 DEF Named
  <2> QED
    BY <1>3, <2>1, <2>2 DEF AgendaOK
<1> QED
  BY <1>1, <1>2, <1>8, <1>13, <1>14, <1>15, <1>16, <1>17

\* Numbers moved up by one behind the k-th are as many.
LEMMA Shifted ==
  ASSUME NEW S, IsFiniteSet(S), S \subseteq Nat, NEW k \in Nat
  PROVE  LET T == {IF i <= k THEN i ELSE i + 1 : i \in S}
         IN IsFiniteSet(T) /\ Cardinality(T) = Cardinality(S) /\ k + 1 \notin T
<1> DEFINE T == {IF i <= k THEN i ELSE i + 1 : i \in S}
           f == [i \in S |-> IF i <= k THEN i ELSE i + 1]
<1>1. f \in Bijection(S, T)
  <2>1. f \in [S -> T]
    OBVIOUS
  <2>2. ASSUME NEW i \in S, NEW j \in S, f[i] = f[j] PROVE i = j
    <3>1. i \in Nat /\ j \in Nat
      OBVIOUS
    <3> QED
      BY <2>2, <3>1
  <2>3. \A t \in T : \E i \in S : f[i] = t
    OBVIOUS
  <2>4. DOMAIN f = S
    OBVIOUS
  <2> HIDE DEF f, T
  <2>5. IsInjective(f)
    BY <2>2, <2>4 DEF IsInjective
  <2> QED
    BY <2>1, <2>2, <2>3, <2>5 DEF Bijection, Injection, Surjection
<1>2. k + 1 \notin T
  <2>1. ASSUME NEW i \in S PROVE (IF i <= k THEN i ELSE i + 1) # k + 1
    <3>1. i \in Nat
      OBVIOUS
    <3> QED
      BY <3>1
  <2> QED
    BY <2>1
<1>3. ExistsBijection(S, T)
  <2> HIDE DEF f, T
  <2> QED
    BY <1>1 DEF ExistsBijection
<1> HIDE DEF f, T
<1>4. IsFiniteSet(T) /\ Cardinality(T) = Cardinality(S)
  BY <1>3, FS_Bijection
<1> QED
  BY <1>2, <1>4 DEF T

\* An agenda with a release put in has one offer more, and with anything else as many.
LEMMA GrownOffers ==
  ASSUME NEW a \in Seq(Entries), NEW x \in Entries, NEW k \in 0 .. Len(a), NEW b \in Seq(Entries), Grown(a, k, x, b)
  PROVE  Offers(a) \in Nat /\ Offers(b) = IF x.what = "released" THEN Offers(a) + 1 ELSE Offers(a)
<1>1. /\ DOMAIN b = 1 .. Len(a) + 1
      /\ \A j \in DOMAIN b :
           \/ j <= k /\ j \in DOMAIN a /\ b[j] = a[j]
           \/ j = k + 1 /\ b[j] = x
           \/ j > k + 1 /\ j - 1 \in DOMAIN a /\ j - 1 > k /\ b[j] = a[j - 1]
      /\ k + 1 \in DOMAIN b /\ b[k + 1] = x
  BY Moved
<1>2. Len(a) \in Nat /\ DOMAIN a = 1 .. Len(a) /\ k \in Nat
  BY AgendaProperties
<1>3. /\ \A i \in 1 .. k : b[i] = a[i]
      /\ \A i \in k + 1 .. Len(a) : b[i + 1] = a[i]
  BY DEF Grown
<1>4. PICK S : S = Named(a, "released")
  OBVIOUS
<1>5. PICK T : T = {IF i <= k THEN i ELSE i + 1 : i \in S}
  OBVIOUS
<1>6. IsFiniteSet(S) /\ S \subseteq Nat /\ Cardinality(S) \in Nat
  <2>1. S \subseteq 1 .. Len(a)
    BY <1>2, <1>4 DEF Named
  <2>2. IsFiniteSet(1 .. Len(a))
    <3>1. PICK n : n = Len(a)
      OBVIOUS
    <3>3. n \in Int
      BY <1>2, <3>1
    <3>2. IsFiniteSet(1 .. n)
      BY <3>3, FS_Interval
    <3> QED
      BY <3>1, <3>2
  <2>3. S \subseteq Nat
    BY <1>2, <2>1
  <2> QED
    BY <2>1, <2>2, <2>3, FS_Subset, FS_CardinalityType
<1>7. IsFiniteSet(T) /\ Cardinality(T) = Cardinality(S) /\ k + 1 \notin T
  BY <1>2, <1>5, <1>6, Shifted
<1>8. ASSUME NEW j \in T PROVE j \in Named(b, "released")
  <2>1. PICK i \in S : j = IF i <= k THEN i ELSE i + 1
    BY <1>5
  <2>2. i \in DOMAIN a /\ i \in 1 .. Len(a) /\ a[i].what = "released"
    BY <1>2, <1>4 DEF Named
  <2>3. j \in DOMAIN b /\ b[j] = a[i]
    <3>1. CASE i <= k
      BY <1>1, <1>2, <1>3, <2>1, <2>2, <3>1
    <3>2. CASE ~ (i <= k)
      BY <1>1, <1>2, <1>3, <2>1, <2>2, <3>2
    <3> QED
      BY <3>1, <3>2
  <2> QED
    BY <2>2, <2>3 DEF Named
<1>9. ASSUME NEW j \in Named(b, "released"), j # k + 1 PROVE j \in T
  <2>1. j \in DOMAIN b /\ b[j].what = "released" /\ j \in Nat
    BY <1>1 DEF Named
  <2>2. CASE j <= k /\ j \in DOMAIN a /\ b[j] = a[j]
    BY <1>4, <1>5, <2>1, <2>2 DEF Named
  <2>3. CASE j > k + 1 /\ j - 1 \in DOMAIN a /\ j - 1 > k /\ b[j] = a[j - 1]
    <3>1. j - 1 \in S /\ ~ (j - 1 <= k) /\ (j - 1) + 1 = j
      BY <1>2, <1>4, <2>1, <2>3 DEF Named
    <3> QED
      BY <1>5, <3>1
  <2> QED
    BY <1>1, <1>9, <2>1, <2>2, <2>3
<1>10. CASE x.what = "released"
  <2>1. Named(b, "released") = T \cup {k + 1}
    <3>1. k + 1 \in Named(b, "released")
      BY <1>1, <1>10 DEF Named
    <3> QED
      BY <1>8, <1>9, <3>1
  <2>2. Cardinality(T \cup {k + 1}) = Cardinality(T) + 1
    BY <1>7, FS_AddElement
  <2> QED
    BY <1>4, <1>6, <1>7, <1>10, <2>1, <2>2 DEF Offers
<1>11. CASE x.what # "released"
  <2>1. k + 1 \notin Named(b, "released")
    BY <1>1, <1>11 DEF Named
  <2>2. Named(b, "released") = T
    BY <1>8, <1>9, <2>1
  <2> QED
    BY <1>4, <1>6, <1>7, <1>11, <2>2 DEF Offers
<1> QED
  BY <1>10, <1>11

\* The same of an entry that is scheduled.
LEMMA PlacedOffers ==
  ASSUME NEW a, NEW now, NEW users, NEW server, AgendaOK(a, now, users, server), NEW x \in Entries
  PROVE  Offers(a) \in Nat /\ Offers(Placed(a, x)) = IF x.what = "released" THEN Offers(a) + 1 ELSE Offers(a)
<1>1. a \in Seq(Entries) /\ InTime(a)
  BY DEF AgendaOK, InTime
<1>2. PICK b \in Seq(Entries), k \in 0 .. Len(a) : b = Placed(a, x) /\ Grown(a, k, x, b)
  BY <1>1, PlacedIs
<1> QED
  BY <1>1, <1>2, GrownOffers

\* The same of the first entry, which is taken out.
LEMMA TakenOffers ==
  ASSUME NEW a \in Seq(Entries), a # <<>>
  PROVE  Offers(Tail(a)) \in Nat
         /\ Offers(a) = IF Head(a).what = "released" THEN Offers(Tail(a)) + 1 ELSE Offers(Tail(a))
<1>1. PICK r : r = Tail(a)
  OBVIOUS
<1>2. PICK x : x = Head(a)
  OBVIOUS
<1>3. r \in Seq(Entries) /\ Len(r) = Len(a) - 1 /\ (\A i \in 1 .. Len(r) : r[i] = a[i + 1]) /\ x \in Entries
  BY <1>1, <1>2, HeadTailProperties
<1>4. Len(a) \in Nat /\ Len(r) \in Nat /\ Len(a) # 0
  BY <1>3, LenProperties, EmptySeq
<1>5. x = a[1]
  BY <1>2, <1>4
<1>6. Grown(r, 0, x, a)
  <2>1. Len(a) = Len(r) + 1
    BY <1>3, <1>4
  <2>2. \A i \in 1 .. 0 : a[i] = r[i]
    OBVIOUS
  <2>3. \A i \in 0 + 1 .. Len(r) : a[i + 1] = r[i]
    BY <1>3
  <2> QED
    BY <1>5, <2>1, <2>2, <2>3 DEF Grown
<1>7. 0 \in 0 .. Len(r)
  BY <1>4
<1> QED
  BY <1>1, <1>2, <1>3, <1>6, <1>7, GrownOffers

\* The agenda stays in order when others come and go.
LEMMA AgendaStays ==
  ASSUME NEW a, NEW now, NEW users, NEW server, AgendaOK(a, now, users, server), NEW others, NEW counters,
         Called(a) \subseteq others \ DOMAIN counters,
         \A i \in Named(a, "end") : a[i].of \in DOMAIN counters
  PROVE  AgendaOK(a, now, others, counters)
<1>1. ASSUME NEW i \in Named(a, "granted") PROVE a[i].at = now /\ a[i].of \in others \ DOMAIN counters
  <2>1. a[i].of \in Called(a)
    BY DEF Called
  <2> QED
    BY <2>1 DEF AgendaOK
<1> QED
  BY <1>1 DEF AgendaOK

\* Whoever was called has a counter and is not served yet.
LEMMA CalledAreUsers ==
  ASSUME NEW a, NEW now, NEW users, NEW server, AgendaOK(a, now, users, server)
  PROVE  Called(a) \subseteq users \ DOMAIN server
BY DEF AgendaOK, Called

-----------------------------------------------------------------------------
(* The counters *)

\* One more is granted a counter.
LEMMA CounterGranted ==
  ASSUME NEW users, NEW server, NEW n \in Nat, CountersOK(users, server, n), NEW c, c \notin users, Cardinality(users) < n
  PROVE  CountersOK(users \cup {c}, server, n) /\ Cardinality(users \cup {c}) = Cardinality(users) + 1
<1>1. IsFiniteSet(users) /\ Cardinality(users) \in Nat
  BY FS_CardinalityType DEF CountersOK
<1>2. IsFiniteSet(users \cup {c}) /\ Cardinality(users \cup {c}) = Cardinality(users) + 1
  BY <1>1, FS_AddElement
<1>3. Cardinality(users \cup {c}) <= n
  BY <1>1, <1>2
<1> QED
  BY <1>2, <1>3 DEF CountersOK

\* The lowest number that nobody in service has.
Lowest(taken, n) == Min(((0 .. n - 1) \ taken) \cup {n}) % n

\* Somebody with a counter who is not served yet finds one that nobody has.
LEMMA LowestIsFree ==
  ASSUME NEW users, NEW server, NEW n \in Nat, CountersOK(users, server, n), NEW c \in users, c \notin DOMAIN server
  PROVE  Lowest(Range(server), n) \in 0 .. n - 1 /\ Lowest(Range(server), n) \notin Range(server)
<1> DEFINE taken == Range(server)
           free == (0 .. n - 1) \ taken
<1>1. IsFiniteSet(users) /\ Cardinality(users) \in Nat /\ Cardinality(users) <= n
  BY FS_CardinalityType DEF CountersOK
<1>2. IsFiniteSet(DOMAIN server) /\ Cardinality(DOMAIN server) \in Nat /\ Cardinality(DOMAIN server) < Cardinality(users)
  <2>1. DOMAIN server \subseteq users
    BY DEF CountersOK
  <2>2. DOMAIN server # users
    OBVIOUS
  <2> QED
    BY <1>1, <2>1, <2>2, FS_Subset, FS_CardinalityType
<1>3. IsFiniteSet(taken) /\ Cardinality(taken) <= Cardinality(DOMAIN server) /\ Cardinality(taken) \in Nat
  <2>1. server \in [DOMAIN server -> taken]
    BY DEF CountersOK, Range
  <2>2. server \in Surjection(DOMAIN server, taken)
    BY <2>1 DEF Surjection, Range
  <2> QED
    BY <1>2, <2>2, FS_Surjection, FS_CardinalityType
<1>4. free # {}
  <2> SUFFICES ASSUME free = {} PROVE FALSE
    OBVIOUS
  <2>1. 0 .. n - 1 \subseteq taken
    OBVIOUS
  <2>2. Cardinality(0 .. n - 1) <= Cardinality(taken)
    BY <1>3, <2>1, FS_Subset
  <2>3. Cardinality(0 .. n - 1) = n
    BY FS_Interval
  <2> QED
    BY <1>1, <1>2, <1>3, <2>2, <2>3
<1>5. PICK f \in free : TRUE
  BY <1>4
<1>6. \A m \in free \cup {n} : m \in Int /\ m >= 0
  OBVIOUS
<1>7. Min(free \cup {n}) \in free \cup {n} /\ \A m \in free \cup {n} : Min(free \cup {n}) <= m
  <2>1. free \cup {n} \subseteq Nat /\ free \cup {n} # {}
    BY <1>6
  <2> HIDE DEF free
  <2> QED
    BY <2>1, MinIsLeast
<1>8. PICK m : m = Min(free \cup {n})
  OBVIOUS
<1>9. m \in free /\ m \in 0 .. n - 1
  <2>1. m \in free \cup {n} /\ m <= f /\ f \in 0 .. n - 1
    BY <1>5, <1>7, <1>8
  <2> QED
    BY <2>1
<1>10. m % n = m
  BY <1>9
<1>11. Lowest(Range(server), n) = m
  BY <1>8, <1>10 DEF Lowest
<1> QED
  BY <1>9, <1>11

\* c is served at counter v.
TakenBy(server, c, v) == [d \in DOMAIN server \cup {c} |-> IF d = c THEN v ELSE server[d]]

\* Giving a user without a counter one that nobody has leaves everyone with a counter of his own.
LEMMA CounterTaken ==
  ASSUME NEW users, NEW server, NEW n \in Nat, CountersOK(users, server, n), NEW c \in users, c \notin DOMAIN server,
         NEW v \in 0 .. n - 1, v \notin Range(server)
  PROVE  CountersOK(users, TakenBy(server, c, v), n)
<1>1. PICK taken : taken = TakenBy(server, c, v)
  OBVIOUS
<1>2. /\ DOMAIN taken = DOMAIN server \cup {c} /\ taken[c] = v /\ \A d \in DOMAIN server : taken[d] = server[d]
      /\ taken = [d \in DOMAIN taken |-> taken[d]]
  BY <1>1 DEF TakenBy
<1>3. \A d \in DOMAIN server : server[d] \in 0 .. n - 1 /\ server[d] # v
  BY DEF CountersOK, Range
<1>4. taken \in [DOMAIN taken -> 0 .. n - 1]
  BY <1>2, <1>3
<1>5. IsInjective(taken)
  BY <1>2, <1>3 DEF CountersOK, IsInjective
<1> QED
  BY <1>1, <1>2, <1>4, <1>5 DEF CountersOK

\* c leaves.
LEMMA CounterLeft ==
  ASSUME NEW users, NEW server, NEW n \in Nat, CountersOK(users, server, n), NEW c \in users
  PROVE  /\ CountersOK(users \ {c}, Restrict(server, DOMAIN server \ {c}), n)
         /\ Cardinality(users \ {c}) = Cardinality(users) - 1
<1>1. PICK left : left = Restrict(server, DOMAIN server \ {c})
  OBVIOUS
<1>2. DOMAIN left = DOMAIN server \ {c} /\ (\A d \in DOMAIN left : left[d] = server[d]) /\ left = [d \in DOMAIN left |-> left[d]]
  BY <1>1 DEF Restrict
<1>3. left \in [DOMAIN left -> 0 .. n - 1] /\ IsInjective(left)
  <2>1. left \in [DOMAIN left -> 0 .. n - 1]
    BY <1>2 DEF CountersOK
  <2>2. IsInjective(left)
    BY <1>2 DEF CountersOK, IsInjective
  <2> QED
    BY <2>1, <2>2
<1>4. IsFiniteSet(users \ {c}) /\ Cardinality(users \ {c}) = Cardinality(users) - 1 /\ Cardinality(users) \in Nat
  BY FS_RemoveElement, FS_CardinalityType DEF CountersOK
<1>5. Cardinality(users \ {c}) <= n
  BY <1>4 DEF CountersOK
<1> QED
  BY <1>1, <1>2, <1>3, <1>4, <1>5 DEF CountersOK

-----------------------------------------------------------------------------
(* The steps, on the parts of the period under way *)

\* What a period is begun with, and what is known of its customers.
LEMMA OrderlyProperties ==
  ASSUME NEW p, NEW now, NEW a, NEW line, NEW users, NEW server, NEW people, Orderly(p, now, a, line, users, server, people)
  PROVE  /\ now \in Nat /\ now <= Hours /\ Hours \in Nat
         /\ a \in Seq(Entries) /\ line \in Seq(Nat) /\ people \in Seq(CustomerRows)
         /\ Len(people) \in Nat /\ DOMAIN people = 1 .. Len(people)
         /\ \A c \in DOMAIN people : /\ people[c] \in CustomerRows /\ people[c].period \in 1 .. K
                                     /\ people[c].start \in Nat \cup {Never} /\ people[c].arrival \in Nat
                                     /\ people[c].work \in Nat
<1>1. now \in Nat /\ now <= Hours /\ Hours \in Nat
  BY SegmentAssumption DEF Orderly
<1>2. a \in Seq(Entries) /\ line \in Seq(Nat) /\ people \in Seq(CustomerRows)
  BY DEF Orderly, AgendaOK, LineOK, PeopleOK
<1>3. Len(people) \in Nat /\ DOMAIN people = 1 .. Len(people) /\ \A c \in 1 .. Len(people) : people[c] \in CustomerRows
  BY <1>2, LenProperties, ElementOfSeq
<1> QED
  BY <1>1, <1>2, <1>3 DEF CustomerRows

\* The same while every free counter is being offered.
LEMMA GoodProperties ==
  ASSUME NEW p, NEW now, NEW a, NEW line, NEW users, NEW server, NEW people, Good(p, now, a, line, users, server, people)
  PROVE  /\ now \in Nat /\ now <= Hours /\ Hours \in Nat
         /\ a \in Seq(Entries) /\ line \in Seq(Nat) /\ people \in Seq(CustomerRows)
         /\ Len(people) \in Nat /\ DOMAIN people = 1 .. Len(people)
         /\ \A c \in DOMAIN people : /\ people[c] \in CustomerRows /\ people[c].period \in 1 .. K
                                     /\ people[c].start \in Nat \cup {Never} /\ people[c].arrival \in Nat
                                     /\ people[c].work \in Nat
BY OrderlyProperties DEF Good

\* The line and the customers depend on who is called only.
LEMMA SameCalls ==
  ASSUME NEW p, NEW now, NEW a, NEW b, Called(b) = Called(a), NEW line, NEW users, NEW n, NEW people
  PROVE  /\ LineOK(a, line, users) => LineOK(b, line, users)
         /\ PeopleOK(p, now, a, line, users, people) => PeopleOK(p, now, b, line, users, people)
         /\ Offers(b) = Offers(a) /\ Manned(a, line, users, n) => Manned(b, line, users, n)
BY DEF LineOK, PeopleOK, Manned

\* The next arrival is scheduled.
LEMMA ArrivalScheduled ==
  ASSUME NEW p, NEW now, NEW a, NEW line, NEW users, NEW server, NEW people, Good(p, now, a, line, users, server, people),
         NEW at \in Nat, at >= now
  PROVE  Good(p, now, Placed(a, [at |-> at, what |-> "arrival", of |-> 0]), line, users, server, people)
<1>1. PICK x : x = [at |-> at, what |-> "arrival", of |-> 0]
  OBVIOUS
<1>2. x \in Entries /\ x.what = "arrival" /\ x.at = at
  BY <1>1 DEF Entries, Kinds
<1>3. Fits(x, a, now, users, server)
  BY <1>2 DEF Fits
<1>4. AgendaOK(a, now, users, server) /\ now \in Nat
  BY GoodProperties DEF Good, Orderly
<1>5. AgendaOK(Placed(a, x), now, users, server) /\ Called(Placed(a, x)) = Called(a)
  BY <1>2, <1>3, <1>4, PlacedKeeps
<1>6. Offers(Placed(a, x)) = Offers(a)
  BY <1>2, <1>4, PlacedOffers
<1>7. /\ LineOK(Placed(a, x), line, users) /\ PeopleOK(p, now, Placed(a, x), line, users, people)
      /\ Manned(Placed(a, x), line, users, plan[p].servers)
  BY <1>5, <1>6, SameCalls DEF Good, Orderly
<1> QED
  BY <1>1, <1>5, <1>7 DEF Good, Orderly

\* An arrival is taken out.
LEMMA ArrivalTaken ==
  ASSUME NEW p, NEW now, NEW a, NEW line, NEW users, NEW server, NEW people, Good(p, now, a, line, users, server, people),
         a # <<>>, Head(a).what = "arrival", Head(a).at < Hours
  PROVE  Good(p, Head(a).at, Tail(a), line, users, server, people)
<1>1. AgendaOK(a, now, users, server) /\ now \in Nat /\ Hours \in Nat
  BY GoodProperties DEF Good, Orderly
<1>2. /\ Head(a) \in Entries /\ Head(a).at >= now /\ AgendaOK(Tail(a), Head(a).at, users, server)
      /\ Called(Tail(a)) = Called(a)
  BY <1>1, TakenOut
<1>3. PICK t \in Nat : t = Head(a).at
  BY <1>2 DEF Entries
<1>4. t \in 0 .. Hours /\ t >= now
  BY <1>1, <1>2, <1>3
<1>7. Offers(Tail(a)) = Offers(a)
  BY <1>1, TakenOffers DEF AgendaOK
<1>5. /\ LineOK(Tail(a), line, users) /\ PeopleOK(p, now, Tail(a), line, users, people)
      /\ Manned(Tail(a), line, users, plan[p].servers)
  BY <1>2, <1>7, SameCalls DEF Good, Orderly
<1>6. PeopleOK(p, t, Tail(a), line, users, people)
  <2>1. ASSUME NEW c \in DOMAIN people, people[c].period = p, people[c].start # Never PROVE people[c].start <= t
    BY <1>1, <1>4, <1>5, <2>1, GoodProperties DEF PeopleOK
  <2> QED
    BY <1>5, <2>1 DEF PeopleOK
<1> QED
  BY <1>2, <1>3, <1>4, <1>5, <1>6 DEF Good, Orderly

\* One more customer, who has not begun.
LEMMA OneMore ==
  ASSUME NEW p \in 1 .. K, NEW now \in Nat, NEW a, NEW line, NEW users, NEW people, PeopleOK(p, now, a, line, users, people),
         NEW c, c = Len(people) + 1
  PROVE  LET more == Append(people, NewCustomer(p, now))
         IN /\ more \in Seq(CustomerRows) /\ DOMAIN more = DOMAIN people \cup {c}
            /\ c \notin DOMAIN people /\ c \in Nat /\ (\A b \in DOMAIN people : b < c /\ more[b] = people[b])
            /\ more[c].period = p /\ more[c].start = Never
            /\ InOrder(more)
<1>1. PICK row : row = NewCustomer(p, now)
  OBVIOUS
<1>2. row \in CustomerRows /\ row.period = p /\ row.start = Never
  BY <1>1 DEF NewCustomer, CustomerRows
<1>3. people \in Seq(CustomerRows) /\ Len(people) \in Nat /\ DOMAIN people = 1 .. Len(people)
  BY LenProperties DEF PeopleOK
<1>4. PICK more : more = Append(people, row)
  OBVIOUS
<1>5. /\ more \in Seq(CustomerRows) /\ Len(more) = Len(people) + 1 /\ more[c] = row
      /\ \A b \in 1 .. Len(people) : more[b] = people[b]
  BY <1>2, <1>3, <1>4, AppendProperties
<1>6. DOMAIN more = 1 .. Len(people) + 1
  BY <1>5, LenProperties
<1>7. DOMAIN more = DOMAIN people \cup {c} /\ c \notin DOMAIN people /\ c \in Nat /\ \A b \in DOMAIN people : b < c /\ more[b] = people[b]
  BY <1>3, <1>5, <1>6
<1>8. InOrder(more)
  <2>1. ASSUME NEW k \in 1 .. K, NEW b \in DOMAIN more, NEW d \in DOMAIN more,
               more[b].period = k, more[d].period = k, b < d, more[d].start # Never
        PROVE  more[b].start # Never /\ more[b].start <= more[d].start
    <3>1. d # c
      BY <1>2, <1>5, <2>1
    <3>2. d \in DOMAIN people /\ b \in DOMAIN people
      BY <1>3, <1>6, <1>7, <2>1, <3>1
    <3> QED
      BY <1>7, <2>1, <3>2 DEF PeopleOK, InOrder
  <2> QED
    BY <2>1 DEF InOrder
<1> QED
  BY <1>1, <1>2, <1>4, <1>5, <1>7, <1>8

\* A new customer stands in line.
LEMMA JoinedLine ==
  ASSUME NEW p \in 1 .. K, NEW now, NEW a, NEW line, NEW users, NEW server, NEW people,
         Orderly(p, now, a, line, users, server, people), NEW c, c = Len(people) + 1
  PROVE  Orderly(p, now, a, Append(line, c), users, server, Append(people, NewCustomer(p, now)))
<1>0. now \in Nat /\ AgendaOK(a, now, users, server) /\ PeopleOK(p, now, a, line, users, people)
  BY OrderlyProperties DEF Orderly
<1>1. PICK more : more = Append(people, NewCustomer(p, now))
  OBVIOUS
<1>2. /\ more \in Seq(CustomerRows) /\ DOMAIN more = DOMAIN people \cup {c}
      /\ c \notin DOMAIN people /\ c \in Nat /\ (\A b \in DOMAIN people : b < c /\ more[b] = people[b])
      /\ more[c].period = p /\ more[c].start = Never
      /\ InOrder(more)
  BY <1>0, <1>1, OneMore
<1>4. PICK longer : longer = Append(line, c)
  OBVIOUS
<1>5. /\ line \in Seq(Nat) /\ Len(line) \in Nat /\ DOMAIN line = 1 .. Len(line) /\ longer \in Seq(Nat)
      /\ DOMAIN longer = 1 .. Len(line) + 1 /\ longer[Len(line) + 1] = c /\ \A i \in DOMAIN line : longer[i] = line[i]
  <2>1. line \in Seq(Nat)
    BY DEF Orderly, LineOK
  <2>2. longer \in Seq(Nat) /\ Len(longer) = Len(line) + 1 /\ longer[Len(line) + 1] = c /\ \A i \in 1 .. Len(line) : longer[i] = line[i]
    BY <1>2, <1>4, <2>1, AppendProperties
  <2> QED
    BY <2>1, <2>2, LenProperties
<1>6. \A i \in DOMAIN longer : (i \in DOMAIN line /\ longer[i] = line[i]) \/ (i = Len(line) + 1 /\ longer[i] = c)
  BY <1>5
<1>7. Range(longer) = Range(line) \cup {c}
  <2>1. ASSUME NEW d \in Range(longer) PROVE d \in Range(line) \cup {c}
    BY <1>6 DEF Range
  <2>2. ASSUME NEW d \in Range(line) \cup {c} PROVE d \in Range(longer)
    BY <1>5, SMTT(30) DEF Range
  <2> QED
    BY <2>1, <2>2
<1>8. c \notin users /\ (\A d \in Called(a) : d < c) /\ \A i \in DOMAIN line : line[i] < c
  <2>1. \A i \in DOMAIN line : line[i] \in Range(line)
    BY DEF Range
  <2> QED
    BY <1>0, <1>2, <2>1 DEF PeopleOK
<1>9. LineOK(a, longer, users)
  <2>1. ASSUME NEW i \in DOMAIN longer, NEW j \in DOMAIN longer, i < j PROVE longer[i] < longer[j]
    <3>1. i \in DOMAIN line /\ longer[i] = line[i]
      BY <1>5, <2>1
    <3>2. CASE j \in DOMAIN line
      BY <1>5, <2>1, <3>1, <3>2 DEF Orderly, LineOK
    <3>3. CASE longer[j] = c
      BY <1>8, <3>1, <3>3
    <3> QED
      BY <1>6, <3>2, <3>3
  <2>2. ASSUME NEW i \in DOMAIN longer PROVE longer[i] \notin users /\ \A d \in Called(a) : d < longer[i]
    <3>1. CASE i \in DOMAIN line
      BY <1>5, <3>1 DEF Orderly, LineOK
    <3>2. CASE longer[i] = c
      BY <1>8, <3>2
    <3> QED
      BY <1>6, <3>1, <3>2
  <2> QED
    BY <1>5, <2>1, <2>2 DEF LineOK
<1>10. PeopleOK(p, now, a, longer, users, more)
  <2>1. users \subseteq DOMAIN more
    BY <1>0, <1>2 DEF PeopleOK
  <2>2. ASSUME NEW d \in DOMAIN more
        PROVE  /\ more[d].period <= p
               /\ more[d].period = p /\ more[d].start = Never => d \in Called(a) \cup Range(longer)
               /\ more[d].period = p /\ more[d].start # Never => more[d].start <= now
    <3>1. CASE d = c
      BY <1>2, <1>7, <3>1
    <3>2. CASE d # c
      <4>1. d \in DOMAIN people /\ more[d] = people[d]
        BY <1>2, <3>2
      <4> QED
        BY <1>0, <1>7, <4>1 DEF PeopleOK
    <3> QED
      BY <3>1, <3>2
  <2>3. ASSUME NEW d \in Called(a) \cup Range(longer)
        PROVE  d \in DOMAIN more /\ more[d].period = p /\ more[d].start = Never
    <3>1. CASE d = c
      BY <1>2, <3>1
    <3>2. CASE d # c
      <4>1. d \in DOMAIN people /\ people[d].period = p /\ people[d].start = Never
        BY <1>0, <1>7, <3>2 DEF PeopleOK
      <4> QED
        BY <1>2, <4>1
    <3> QED
      BY <3>1, <3>2
  <2> QED
    BY <1>2, <2>1, <2>2, <2>3 DEF PeopleOK
<1> QED
  BY <1>0, <1>1, <1>4, <1>9, <1>10 DEF Orderly

\* Customer c begins.
StartedAt(people, c, now, work) == [people EXCEPT ![c] = [@ EXCEPT !.start = now, !.work = work]]

\* Whoever was called first begins; the end of the service is scheduled.
LEMMA ServiceStarted ==
  ASSUME NEW p \in 1 .. K, NEW now, NEW a, NEW line, NEW users, NEW server, NEW people,
         Good(p, now, a, line, users, server, people), plan[p].servers \in Nat,
         a # <<>>, Head(a).what = "granted", NEW c, c = Head(a).of,
         NEW v \in 0 .. plan[p].servers - 1, v \notin Range(server), NEW work \in Nat
  PROVE  /\ c \in users /\ c \notin DOMAIN server /\ c \in DOMAIN people /\ Head(a).at = now
         /\ Good(p, now, Placed(Tail(a), [at |-> now + work, what |-> "end", of |-> c]), line, users,
                 TakenBy(server, c, v),
                 StartedAt(people, c, now, work))
<1>0. now \in Nat /\ AgendaOK(a, now, users, server) /\ PeopleOK(p, now, a, line, users, people)
  BY GoodProperties DEF Good, Orderly
<1>1. /\ Head(a) \in Entries /\ Head(a).at = now /\ c \in users \ DOMAIN server
      /\ AgendaOK(Tail(a), now, users, server)
      /\ Called(a) = Called(Tail(a)) \cup {c} /\ \A d \in Called(Tail(a)) : c < d
  <2>1. /\ Head(a) \in Entries /\ AgendaOK(Tail(a), Head(a).at, users, server)
        /\ Head(a).at = now /\ Head(a).of \in users \ DOMAIN server
        /\ Called(a) = Called(Tail(a)) \cup {Head(a).of} /\ \A d \in Called(Tail(a)) : Head(a).of < d
    BY <1>0, TakenOut
  <2> QED
    BY <2>1
<1>2. c \in Nat /\ c \in DOMAIN people /\ people[c].period = p /\ people[c].start = Never
  BY <1>0, <1>1 DEF Entries, PeopleOK
<1>3. PICK taken : taken = TakenBy(server, c, v)
  OBVIOUS
<1>4. CountersOK(users, taken, plan[p].servers) /\ DOMAIN taken = DOMAIN server \cup {c}
  <2>1. PICK n \in Nat : n = plan[p].servers
    OBVIOUS
  <2>2. CountersOK(users, server, n) /\ c \in users /\ c \notin DOMAIN server /\ v \in 0 .. n - 1
    BY <1>1, <2>1 DEF Good, Orderly
  <2>3. CountersOK(users, TakenBy(server, c, v), n)
    BY <2>2, CounterTaken
  <2>4. DOMAIN taken = DOMAIN server \cup {c}
    BY <1>3 DEF TakenBy
  <2> QED
    BY <1>3, <2>1, <2>3, <2>4
<1>5. PICK b : b = Tail(a)
  OBVIOUS
<1>6. AgendaOK(b, now, users, taken)
  <2>1. Called(b) \subseteq users \ DOMAIN server
    BY <1>1, <1>5, CalledAreUsers
  <2>2. \A d \in Called(b) : d # c
    BY <1>1, <1>2, <1>5
  <2>3. Called(b) \subseteq users \ DOMAIN taken
    BY <1>4, <2>1, <2>2
  <2>4. \A i \in Named(b, "end") : b[i].of \in DOMAIN taken
    BY <1>1, <1>4, <1>5 DEF AgendaOK
  <2> QED
    BY <1>1, <1>5, <2>3, <2>4, AgendaStays
<1>7. PICK x : x = [at |-> now + work, what |-> "end", of |-> c]
  OBVIOUS
<1>8. x \in Entries /\ x.what = "end" /\ x.of = c /\ x.at >= now
  BY <1>0, <1>2, <1>7 DEF Entries, Kinds
<1>9. Fits(x, b, now, users, taken)
  <2>1. \A i \in Named(b, "end") : b[i].of \in DOMAIN server
    BY <1>1, <1>5 DEF AgendaOK
  <2>2. \A i \in Named(b, "end") : b[i].of # c
    BY <1>1, <2>1
  <2> QED
    BY <1>4, <1>8, <2>2 DEF Fits
<1>10. AgendaOK(Placed(b, x), now, users, taken) /\ Called(Placed(b, x)) = Called(b)
  BY <1>0, <1>6, <1>8, <1>9, PlacedKeeps
<1>11. PICK after : after = StartedAt(people, c, now, work)
  OBVIOUS
<1>12. people \in Seq(CustomerRows) /\ Len(people) \in Nat /\ DOMAIN people = 1 .. Len(people)
       /\ \A d \in DOMAIN people : /\ people[d] \in CustomerRows /\ people[d].period \in 1 .. K
                                   /\ people[d].start \in Nat \cup {Never}
  BY GoodProperties
<1>13. /\ after \in Seq(CustomerRows) /\ DOMAIN after = DOMAIN people
       /\ after[c].period = p /\ after[c].start = now /\ \A d \in DOMAIN people : d # c => after[d] = people[d]
  <2>1. [people[c] EXCEPT !.start = now, !.work = work] \in CustomerRows
    BY <1>0, <1>2, <1>12 DEF CustomerRows
  <2>2. after \in Seq(CustomerRows) /\ Len(after) = Len(people)
        /\ \A d \in 1 .. Len(people) : after[d] = IF d = c THEN [people[c] EXCEPT !.start = now, !.work = work] ELSE people[d]
    BY <1>2, <1>11, <1>12, <2>1, ExceptSeq DEF StartedAt
  <2>3. DOMAIN after = DOMAIN people
    BY <1>11 DEF StartedAt
  <2>4. after[c] = [people[c] EXCEPT !.start = now, !.work = work]
    BY <1>2, <1>11 DEF StartedAt
  <2>5. after[c].period = p /\ after[c].start = now
    BY <1>2, <1>12, <2>4 DEF CustomerRows
  <2> QED
    BY <2>2, <2>3, <2>5
<1>14. LineOK(Placed(b, x), line, users)
  <2>1. LineOK(a, line, users) /\ Called(Placed(b, x)) \subseteq Called(a)
    BY <1>1, <1>5, <1>10 DEF Good, Orderly
  <2> QED
    BY <2>1 DEF LineOK
<1>15. \A i \in DOMAIN line : line[i] \in Nat /\ c < line[i]
  <2>1. c \in Called(a)
    BY <1>1
  <2>2. line \in Seq(Nat) /\ \A i \in DOMAIN line : c < line[i]
    BY <2>1 DEF Good, Orderly, LineOK
  <2> QED
    BY <2>2, LenProperties, ElementOfSeq
<1>16. \A d \in Called(b) \cup Range(line) : c < d /\ d # c
  BY <1>1, <1>2, <1>5, <1>15 DEF Range
<1>17. InOrder(after)
  <2>1. ASSUME NEW k \in 1 .. K, NEW d \in DOMAIN people, NEW e \in DOMAIN people,
               after[d].period = k, after[e].period = k, d < e, after[e].start # Never
        PROVE  after[d].start # Never /\ after[d].start <= after[e].start
    <3>1. CASE d # c /\ e # c
      BY <1>0, <1>13, <2>1, <3>1 DEF PeopleOK, InOrder
    <3>2. CASE d = c
      <4>1. e # c /\ after[e] = people[e] /\ k = p
        BY <1>2, <1>13, <2>1, <3>2
      <4>2. people[c].start # Never
        BY <1>0, <1>2, <2>1, <3>2, <4>1 DEF PeopleOK, InOrder
      <4> QED
        BY <1>2, <4>2
    <3>3. CASE e = c
      <4>1. d # c /\ after[d] = people[d] /\ k = p /\ people[d].period = p
        BY <1>2, <1>13, <2>1, <3>3
      <4>2. people[d].start # Never
        <5>1. SUFFICES ASSUME people[d].start = Never PROVE FALSE
          OBVIOUS
        <5>2. d \in Called(b) \cup Range(line)
          BY <1>0, <1>1, <1>5, <4>1, <5>1 DEF PeopleOK
        <5>3. c < d /\ d \in Nat
          BY <1>12, <1>16, <5>2
        <5> QED
          BY <1>2, <2>1, <3>3, <5>3
      <4>3. people[d].start <= now
        BY <1>0, <4>1, <4>2 DEF PeopleOK
      <4> QED
        BY <1>13, <3>3, <4>1, <4>2, <4>3
    <3> QED
      BY <3>1, <3>2, <3>3
  <2> QED
    BY <1>13, <2>1 DEF InOrder
<1>18. PeopleOK(p, now, Placed(b, x), line, users, after)
  <2>1. users \subseteq DOMAIN after
    BY <1>0, <1>13 DEF PeopleOK
  <2>2. ASSUME NEW d \in DOMAIN after
        PROVE  /\ after[d].period <= p
               /\ after[d].period = p /\ after[d].start = Never => d \in Called(b) \cup Range(line)
               /\ after[d].period = p /\ after[d].start # Never => after[d].start <= now
    <3>1. CASE d = c
      BY <1>0, <1>13, <3>1 DEF Never
    <3>2. CASE d # c
      <4>1. d \in DOMAIN people /\ after[d] = people[d]
        BY <1>13, <3>2
      <4> QED
        BY <1>0, <1>1, <1>5, <3>2, <4>1 DEF PeopleOK
    <3> QED
      BY <3>1, <3>2
  <2>3. ASSUME NEW d \in Called(b) \cup Range(line)
        PROVE  d \in DOMAIN after /\ after[d].period = p /\ after[d].start = Never
    <3>1. d \in DOMAIN people /\ people[d].period = p /\ people[d].start = Never
      BY <1>0, <1>1, <1>5 DEF PeopleOK
    <3> QED
      BY <1>13, <1>16, <3>1
  <2> QED
    BY <1>10, <1>13, <1>17, <2>1, <2>2, <2>3 DEF PeopleOK
<1>19. Manned(Placed(b, x), line, users, plan[p].servers)
  <2>1. Offers(Placed(b, x)) = Offers(b)
    BY <1>6, <1>8, PlacedOffers
  <2>2. Offers(a) = Offers(b)
    BY <1>0, <1>5, TakenOffers DEF AgendaOK
  <2> QED
    BY <2>1, <2>2 DEF Good, Manned
<1>20. Good(p, now, Placed(b, x), line, users, taken, after)
  BY <1>4, <1>10, <1>14, <1>18, <1>19 DEF Good, Orderly
<1> QED
  BY <1>1, <1>2, <1>3, <1>5, <1>7, <1>11, <1>20

\* A service ends: its counter is free and will be offered, and the time is that of its end.
LEMMA ServiceEnded ==
  ASSUME NEW p \in 1 .. K, NEW now, NEW a, NEW line, NEW users, NEW server, NEW people,
         Good(p, now, a, line, users, server, people), plan[p].servers \in Nat,
         a # <<>>, Head(a).what = "end", Head(a).at < Hours, NEW c, c = Head(a).of
  PROVE  Good(p, Head(a).at, Placed(Tail(a), [at |-> Head(a).at, what |-> "released", of |-> 0]), line, users \ {c},
              Restrict(server, DOMAIN server \ {c}), people)
<1>0. now \in Nat /\ Hours \in Nat /\ AgendaOK(a, now, users, server) /\ PeopleOK(p, now, a, line, users, people)
      /\ CountersOK(users, server, plan[p].servers) /\ LineOK(a, line, users)
  BY GoodProperties DEF Good, Orderly
<1>1. PICK counters : counters = Restrict(server, DOMAIN server \ {c})
  OBVIOUS
<1>2. PICK b : b = Tail(a)
  OBVIOUS
<1>3. PICK t : t = Head(a).at
  OBVIOUS
<1>4. /\ Head(a) \in Entries /\ t >= now /\ AgendaOK(b, t, users, server)
      /\ Called(b) = Called(a)
      /\ c \in DOMAIN server /\ \A i \in Named(b, "end") : b[i].of # c
  <2>1. /\ Head(a) \in Entries /\ Head(a).at >= now /\ AgendaOK(Tail(a), Head(a).at, users, server)
        /\ Called(Tail(a)) = Called(a)
        /\ Head(a).of \in DOMAIN server /\ \A i \in Named(Tail(a), "end") : Tail(a)[i].of # Head(a).of
    BY <1>0, TakenOut
  <2> QED
    BY <1>2, <1>3, <2>1
<1>5. c \in users /\ t \in Nat /\ t \in 0 .. Hours
  BY <1>0, <1>3, <1>4 DEF CountersOK, Entries
<1>6. /\ CountersOK(users \ {c}, counters, plan[p].servers)
      /\ Cardinality(users \ {c}) = Cardinality(users) - 1
  <2>1. PICK n \in Nat : n = plan[p].servers
    OBVIOUS
  <2>2. CountersOK(users, server, n)
    BY <1>0, <2>1
  <2>3. CountersOK(users \ {c}, Restrict(server, DOMAIN server \ {c}), n) /\ Cardinality(users \ {c}) = Cardinality(users) - 1
    BY <1>5, <2>2, CounterLeft
  <2> QED
    BY <1>1, <2>1, <2>3
<1>7. Cardinality(users) \in Nat /\ Cardinality(users) <= plan[p].servers /\ Cardinality(users \ {c}) \in Nat
  BY <1>0, <1>6, FS_CardinalityType DEF CountersOK
<1>9. DOMAIN counters = DOMAIN server \ {c}
  BY <1>1 DEF Restrict
<1>10. AgendaOK(b, t, users \ {c}, counters)
  <2>1. Called(b) \subseteq users \ DOMAIN server
    BY <1>4, CalledAreUsers
  <2>2. Called(b) \subseteq (users \ {c}) \ DOMAIN counters
    BY <1>4, <1>9, <2>1
  <2>3. \A i \in Named(b, "end") : b[i].of \in DOMAIN counters
    BY <1>4, <1>9 DEF AgendaOK
  <2> QED
    BY <1>4, <2>2, <2>3, AgendaStays
<1>11. LineOK(b, line, users)
  BY <1>0, <1>4, SameCalls
<1>12. PeopleOK(p, t, b, line, users \ {c}, people)
  <2>1. PeopleOK(p, now, b, line, users, people)
    BY <1>0, <1>4, SameCalls
  <2>2. ASSUME NEW d \in DOMAIN people, people[d].period = p, people[d].start # Never PROVE people[d].start <= t
    <3>1. people[d].start <= now /\ people[d].start \in Nat
      BY <1>0, <2>2, GoodProperties DEF PeopleOK
    <3> QED
      BY <1>0, <1>4, <1>5, <3>1
  <2> QED
    BY <2>1, <2>2 DEF PeopleOK
<1>13. PICK x : x = [at |-> t, what |-> "released", of |-> 0]
  OBVIOUS
<1>14. x \in Entries /\ x.what = "released" /\ x.at = t
  BY <1>5, <1>13 DEF Entries, Kinds
<1>15. Fits(x, b, t, users \ {c}, counters)
  BY <1>5, <1>14 DEF Fits
<1>16. AgendaOK(Placed(b, x), t, users \ {c}, counters) /\ Called(Placed(b, x)) = Called(b)
  BY <1>5, <1>10, <1>14, <1>15, PlacedKeeps
<1>17. LineOK(Placed(b, x), line, users \ {c}) /\ PeopleOK(p, t, Placed(b, x), line, users \ {c}, people)
  <2>1. LineOK(Placed(b, x), line, users)
    BY <1>11, <1>16, SameCalls
  <2> QED
    BY <1>12, <1>16, <2>1, SameCalls DEF LineOK
<1>18. Manned(Placed(b, x), line, users \ {c}, plan[p].servers)
  <2>1. Offers(b) \in Nat /\ Offers(Placed(b, x)) = Offers(b) + 1
    BY <1>10, <1>14, PlacedOffers
  <2>2. Offers(a) = Offers(b)
    BY <1>0, <1>2, TakenOffers DEF AgendaOK
  <2>3. line # <<>> => plan[p].servers <= Cardinality(users) + Offers(a)
    BY DEF Good, Manned
  <2> QED
    BY <1>6, <1>7, <2>1, <2>2, <2>3 DEF Manned
<1> QED
  BY <1>1, <1>2, <1>3, <1>5, <1>6, <1>13, <1>16, <1>17, <1>18 DEF Good, Orderly

\* A released counter is offered: one offer fewer, and the rest as it was.
LEMMA OfferTaken ==
  ASSUME NEW p \in 1 .. K, NEW now, NEW a, NEW line, NEW users, NEW server, NEW people,
         Good(p, now, a, line, users, server, people), a # <<>>, Head(a).what = "released"
  PROVE  /\ Head(a).at = now
         /\ Orderly(p, now, Tail(a), line, users, server, people)
         /\ line # <<>> => plan[p].servers <= Cardinality(users) + Offers(Tail(a)) + 1
<1>0. now \in Nat /\ AgendaOK(a, now, users, server)
  BY GoodProperties DEF Good, Orderly
<1>1. Head(a).at = now /\ AgendaOK(Tail(a), now, users, server) /\ Called(Tail(a)) = Called(a)
  <2>1. /\ AgendaOK(Tail(a), Head(a).at, users, server) /\ Head(a).at = now
        /\ Called(Tail(a)) = Called(a)
    BY <1>0, TakenOut
  <2> QED
    BY <2>1
<1>2. Offers(Tail(a)) \in Nat /\ Offers(a) = Offers(Tail(a)) + 1
  BY <1>0, TakenOffers DEF AgendaOK
<1>3. LineOK(Tail(a), line, users) /\ PeopleOK(p, now, Tail(a), line, users, people)
  BY <1>1, SameCalls DEF Good, Orderly
<1>4. line # <<>> => plan[p].servers <= Cardinality(users) + Offers(Tail(a)) + 1
  <2>1. Cardinality(users) \in Nat
    BY FS_CardinalityType DEF Good, Orderly, CountersOK
  <2>2. line # <<>> => plan[p].servers <= Cardinality(users) + Offers(a)
    BY DEF Good, Manned
  <2> QED
    BY <1>2, <2>1, <2>2
<1> QED
  BY <1>1, <1>3, <1>4 DEF Good, Orderly

\* The first in line is called to a free counter.
LEMMA FirstIsCalled ==
  ASSUME NEW p \in 1 .. K, NEW t, NEW b, NEW line, NEW users, NEW counters, NEW people,
         Orderly(p, t, b, line, users, counters, people), plan[p].servers \in Nat,
         Cardinality(users) < plan[p].servers, line # <<>>, NEW h, h = Head(line),
         NEW x, x = [at |-> t, what |-> "granted", of |-> h], NEW more, more = users \cup {h}
  PROVE  /\ Orderly(p, t, Placed(b, x), Tail(line), more, counters, people)
         /\ Cardinality(more) = Cardinality(users) + 1 /\ Cardinality(users) \in Nat
         /\ Offers(Placed(b, x)) = Offers(b) /\ Offers(b) \in Nat
<1>4. /\ AgendaOK(b, t, users, counters)
      /\ CountersOK(users, counters, plan[p].servers)
      /\ LineOK(b, line, users)
      /\ PeopleOK(p, t, b, line, users, people)
      /\ t \in 0 .. Hours /\ t \in Nat
  BY OrderlyProperties DEF Orderly
<1>5. PICK rest : rest = Tail(line)
  OBVIOUS
<1>6. /\ line \in Seq(Nat) /\ Len(line) \in Nat /\ DOMAIN line = 1 .. Len(line) /\ 1 \in DOMAIN line /\ h = line[1] /\ h \in Nat
      /\ rest \in Seq(Nat) /\ DOMAIN rest = 1 .. Len(line) - 1 /\ \A i \in DOMAIN rest : rest[i] = line[i + 1]
  <2>1. line \in Seq(Nat)
    BY <1>4 DEF LineOK
  <2>2. rest \in Seq(Nat) /\ Len(rest) = Len(line) - 1 /\ (\A i \in 1 .. Len(rest) : rest[i] = line[i + 1]) /\ h \in Nat
    BY <1>5, <2>1, HeadTailProperties
  <2>3. Len(line) \in Nat /\ DOMAIN line = 1 .. Len(line) /\ DOMAIN rest = 1 .. Len(rest)
    BY <2>1, <2>2, LenProperties
  <2>4. Len(line) # 0
    BY <2>1, EmptySeq
  <2>5. h = line[1]
    BY <2>1, <2>3, <2>4
  <2>6. 1 \in DOMAIN line
    BY <2>3, <2>4
  <2>7. DOMAIN rest = 1 .. Len(line) - 1 /\ \A i \in DOMAIN rest : rest[i] = line[i + 1]
    BY <2>2, <2>3
  <2> QED
    BY <2>1, <2>2, <2>3, <2>5, <2>6, <2>7
<1>7. /\ h \notin users /\ (\A d \in Called(b) : d < h)
      /\ \A i \in DOMAIN rest : i + 1 \in DOMAIN line /\ h < rest[i] /\ rest[i] \in Nat
  <2>1. ASSUME NEW i \in DOMAIN rest PROVE i + 1 \in DOMAIN line /\ h < rest[i] /\ rest[i] \in Nat
    <3>1. i + 1 \in DOMAIN line /\ 1 < i + 1 /\ rest[i] = line[i + 1]
      <4>1. PICK n \in Nat : n = Len(line)
        BY <1>6
      <4>2. i \in 1 .. n - 1 /\ DOMAIN line = 1 .. n
        BY <1>6, <4>1
      <4>3. rest[i] = line[i + 1]
        BY <1>6
      <4> QED
        BY <4>2, <4>3
    <3>2. line[1] < line[i + 1]
      BY <1>4, <1>6, <3>1 DEF LineOK
    <3>3. line[i + 1] \in Nat
      BY <1>6, <3>1, ElementOfSeq
    <3> QED
      BY <1>6, <3>1, <3>2, <3>3
  <2> QED
    BY <1>4, <1>6, <2>1 DEF LineOK
<1>8. AgendaOK(b, t, users \cup {h}, counters)
  <2>1. Called(b) \subseteq users \ DOMAIN counters
    BY <1>4, CalledAreUsers
  <2>2. Called(b) \subseteq (users \cup {h}) \ DOMAIN counters
    BY <2>1
  <2>3. \A i \in Named(b, "end") : b[i].of \in DOMAIN counters
    BY <1>4 DEF AgendaOK
  <2> QED
    BY <1>4, <2>2, <2>3, AgendaStays
<1>9. CountersOK(users \cup {h}, counters, plan[p].servers) /\ Cardinality(users \cup {h}) = Cardinality(users) + 1
  <2>1. PICK n \in Nat : n = plan[p].servers
    OBVIOUS
  <2>2. h \notin users /\ CountersOK(users, counters, n) /\ Cardinality(users) < n
    BY <1>4, <1>7, <2>1
  <2>3. CountersOK(users \cup {h}, counters, n) /\ Cardinality(users \cup {h}) = Cardinality(users) + 1
    BY <2>2, CounterGranted
  <2> QED
    BY <1>4, <2>1, <2>3
<1>11. x \in Entries /\ x.what = "granted" /\ x.at = t /\ x.of = h /\ t \in Nat
  BY <1>4, <1>6 DEF Entries, Kinds
<1>12. Fits(x, b, t, users \cup {h}, counters)
  <2>1. h \notin DOMAIN counters
    BY <1>4, <1>7 DEF CountersOK
  <2>2. h \in (users \cup {h}) \ DOMAIN counters /\ \A d \in Called(b) : d < h
    BY <1>7, <2>1
  <2>3. x.at >= t
    BY <1>11
  <2>4. x.what # "end" /\ x.what # "released"
    BY <1>11
  <2> QED
    BY <1>11, <2>2, <2>3, <2>4, Zenon DEF Fits
<1>13. AgendaOK(Placed(b, x), t, users \cup {h}, counters) /\ Called(Placed(b, x)) = Called(b) \cup {h}
  <2>1. PICK others : others = users \cup {h}
    OBVIOUS
  <2>2. AgendaOK(b, t, others, counters) /\ Fits(x, b, t, others, counters)
    BY <1>8, <1>12, <2>1
  <2>3. AgendaOK(Placed(b, x), t, others, counters) /\ Called(Placed(b, x)) = Called(b) \cup {x.of}
    BY <1>11, <2>2, PlacedKeeps
  <2> QED
    BY <1>11, <2>1, <2>3
<1>18. Offers(Placed(b, x)) = Offers(b) /\ Offers(b) \in Nat
  BY <1>4, <1>11, PlacedOffers
<1>19. Cardinality(users) \in Nat
  BY <1>4, FS_CardinalityType DEF CountersOK
<1>14. LineOK(Placed(b, x), rest, users \cup {h})
  <2>1. ASSUME NEW i \in DOMAIN rest, NEW j \in DOMAIN rest, i < j PROVE rest[i] < rest[j]
    <3>1. i + 1 \in DOMAIN line /\ j + 1 \in DOMAIN line /\ i + 1 < j + 1 /\ rest[i] = line[i + 1] /\ rest[j] = line[j + 1]
      BY <1>6, <1>7, <2>1
    <3> QED
      BY <1>4, <3>1 DEF LineOK
  <2>2. ASSUME NEW i \in DOMAIN rest
        PROVE  rest[i] \notin users \cup {h} /\ \A d \in Called(b) \cup {h} : d < rest[i]
    <3>1. i + 1 \in DOMAIN line /\ rest[i] = line[i + 1]
      BY <1>6, <1>7
    <3>2. rest[i] \notin users /\ \A d \in Called(b) : d < rest[i]
      BY <1>4, <3>1 DEF LineOK
    <3>3. h < rest[i] /\ rest[i] \in Nat /\ h \in Nat
      BY <1>6, <1>7
    <3> QED
      BY <3>2, <3>3
  <2> QED
    BY <1>6, <1>9, <1>13, <2>1, <2>2 DEF LineOK
<1>15. Range(line) = Range(rest) \cup {h}
  <2>1. ASSUME NEW d \in Range(line) PROVE d \in Range(rest) \cup {h}
    <3>1. PICK i \in DOMAIN line : d = line[i]
      BY DEF Range
    <3>2. CASE i = 1
      BY <1>6, <3>1, <3>2
    <3>3. CASE i # 1
      <4>1. i - 1 \in DOMAIN rest /\ (i - 1) + 1 = i
        BY <1>6, <3>3, SMTT(30)
      <4>2. rest[i - 1] = d
        BY <1>6, <3>1, <4>1
      <4> QED
        BY <4>1, <4>2 DEF Range
    <3> QED
      BY <3>2, <3>3
  <2>2. ASSUME NEW d \in Range(rest) \cup {h} PROVE d \in Range(line)
    <3>1. CASE d = h
      BY <1>6, <3>1 DEF Range
    <3>2. CASE d \in Range(rest)
      <4>1. PICK i \in DOMAIN rest : d = rest[i]
        BY <3>2 DEF Range
      <4>2. i + 1 \in DOMAIN line /\ line[i + 1] = d
        BY <1>6, <1>7, <4>1
      <4> QED
        BY <4>2 DEF Range
    <3> QED
      BY <3>1, <3>2
  <2> QED
    BY <2>1, <2>2
<1>16. PeopleOK(p, t, Placed(b, x), rest, users \cup {h}, people)
  <2>1. h \in DOMAIN people
    BY <1>4, <1>15 DEF PeopleOK
  <2>2. Called(Placed(b, x)) \cup Range(rest) = Called(b) \cup Range(line)
    BY <1>13, <1>15
  <2> QED
    BY <1>4, <2>1, <2>2 DEF PeopleOK
<1>17. Orderly(p, t, Placed(b, x), rest, users \cup {h}, counters, people)
  BY <1>4, <1>9, <1>13, <1>14, <1>16 DEF Orderly
<1> QED
  BY <1>5, <1>9, <1>17, <1>18, <1>19

-----------------------------------------------------------------------------
(* The steps, on the period under way *)

\* s is a period like u but for its agenda and its measures.
Alike(s, u) ==
  /\ DOMAIN s = Fields
  /\ s.period = u.period /\ s.now = u.now /\ s.line = u.line /\ s.users = u.users /\ s.server = u.server

\* The monitor's snapshot changes its totals and nothing else.
LEMMA MonitoredIs ==
  ASSUME NEW s, DOMAIN s = Fields, NEW now
  PROVE  Alike(Monitored(s, now), s) /\ Monitored(s, now).agenda = s.agenda
<1>1. PICK m : m = Monitored(s, now)
  OBVIOUS
<1>2. PICK q : q = s.queueArea + Len(s.line) * Measured(s, now)
  OBVIOUS
<1>3. PICK w : w = s.busyArea + Cardinality(s.users) * Measured(s, now)
  OBVIOUS
<1>4. m = [s EXCEPT !.queueArea = q, !.busyArea = w, !.seen = now]
  BY <1>1, <1>2, <1>3 DEF Monitored, Fields
<1>5. Alike(m, s) /\ m.agenda = s.agenda
  BY <1>4 DEF Alike, Fields
<1> QED
  BY <1>1, <1>5

\* A timeout changes the agenda and nothing else.
LEMMA ScheduledIs ==
  ASSUME NEW s, DOMAIN s = Fields, NEW at, NEW what, NEW of
  PROVE  /\ Alike(Scheduled(s, at, what, of), s)
         /\ Scheduled(s, at, what, of).agenda = Placed(s.agenda, [at |-> at, what |-> what, of |-> of])
<1>1. PICK u : u = Scheduled(s, at, what, of)
  OBVIOUS
<1>2. PICK b : b = Placed(s.agenda, [at |-> at, what |-> what, of |-> of])
  OBVIOUS
<1>3. u = [s EXCEPT !.agenda = b]
  BY <1>1, <1>2 DEF Scheduled, Placed, Fields
<1>4. Alike(u, s) /\ u.agenda = b
  BY <1>3 DEF Alike, Fields
<1> QED
  BY <1>1, <1>2, <1>4

\* Taking the next event moves the clock to it and shortens the agenda; nothing else changes.
LEMMA PoppedIs ==
  ASSUME DOMAIN sim = Fields
  PROVE  /\ DOMAIN Popped = Fields /\ Popped.period = sim.period /\ Popped.now = Head(sim.agenda).at
         /\ Popped.agenda = Tail(sim.agenda) /\ Popped.line = sim.line /\ Popped.users = sim.users
         /\ Popped.server = sim.server
BY DEF Popped, Fields

\* A period of the plan has a number of counters.
LEMMA CountersNumber ==
  ASSUME plan \in [1 .. K -> Periods], NEW p \in 1 .. K
  PROVE  plan[p].servers \in Nat
BY SegmentAssumption DEF Periods

\* Drawing the next arrival leaves the period sound: it is scheduled unless it falls behind the period's end.
LEMMA NextArrivalSound ==
  ASSUME NEW s, NEW people, Sound(s, people), NEW gap \in Gaps
  PROVE  Sound(NextArrival(s, gap), people) /\ Alike(NextArrival(s, gap), s)
<1>0. gap \in Nat /\ s.now \in Nat /\ s.now + gap \in Nat /\ s.now + gap >= s.now
  BY SegmentAssumption, GoodProperties DEF Sound
<1>1. CASE s.now + gap < Hours
  <2>1. PICK u : u = Scheduled(s, s.now + gap, "arrival", 0)
    OBVIOUS
  <2>2. Alike(u, s) /\ u.agenda = Placed(s.agenda, [at |-> s.now + gap, what |-> "arrival", of |-> 0])
    BY <2>1, ScheduledIs DEF Sound
  <2>3. Good(s.period, s.now, Placed(s.agenda, [at |-> s.now + gap, what |-> "arrival", of |-> 0]), s.line, s.users, s.server, people)
    BY <1>0, ArrivalScheduled DEF Sound
  <2>4. Sound(u, people)
    BY <2>2, <2>3 DEF Sound, Alike
  <2> QED
    BY <1>1, <2>1, <2>2, <2>4 DEF NextArrival
<1>2. CASE ~ (s.now + gap < Hours)
  BY <1>2 DEF NextArrival, Alike, Sound
<1> QED
  BY <1>1, <1>2

\* Granting changes the agenda, the line and the counters, and nothing else.
LEMMA GrantedIs ==
  ASSUME NEW s, DOMAIN s = Fields
  PROVE  \/ /\ Granted(s) = s
            /\ s.line = <<>> \/ Cardinality(s.users) = plan[s.period].servers
         \/ /\ s.line # <<>> /\ Cardinality(s.users) # plan[s.period].servers
            /\ DOMAIN Granted(s) = Fields
            /\ \A f \in Fields \ {"agenda", "line", "users"} : Granted(s)[f] = s[f]
            /\ Granted(s).line = Tail(s.line) /\ Granted(s).users = s.users \cup {Head(s.line)}
            /\ Granted(s).agenda = Placed(s.agenda, [at |-> s.now, what |-> "granted", of |-> Head(s.line)])
<1>1. CASE s.line = <<>> \/ Cardinality(s.users) = plan[s.period].servers
  BY <1>1 DEF Granted
<1>2. CASE ~ (s.line = <<>> \/ Cardinality(s.users) = plan[s.period].servers)
  <2>1. PICK h : h = Head(s.line)
    OBVIOUS
  <2>2. PICK u : u = [s EXCEPT !.line = Tail(@), !.users = @ \cup {h}]
    OBVIOUS
  <2>3. /\ DOMAIN u = Fields /\ u.now = s.now /\ u.agenda = s.agenda
        /\ \A f \in Fields \ {"line", "users"} : u[f] = s[f]
        /\ u.line = Tail(s.line) /\ u.users = s.users \cup {h}
    BY <2>2 DEF Fields
  <2>4. PICK g : g = Granted(s)
    OBVIOUS
  <2>5. PICK b : b = Placed(s.agenda, [at |-> s.now, what |-> "granted", of |-> h])
    OBVIOUS
  <2>6. g = [u EXCEPT !.agenda = b]
    BY <1>2, <2>1, <2>2, <2>3, <2>4, <2>5 DEF Granted, Scheduled, Placed, Fields
  <2>7. DOMAIN g = Fields /\ g.agenda = b /\ \A f \in Fields \ {"agenda"} : g[f] = u[f]
    BY <2>3, <2>6 DEF Fields
  <2>8. g.line = u.line /\ g.users = u.users
    BY <2>7 DEF Fields
  <2> QED
    BY <1>2, <2>1, <2>3, <2>4, <2>5, <2>7, <2>8
<1> QED
  BY <1>1, <1>2

\* Granting keeps a period sound, and makes it so while one counter too few is being offered.
LEMMA GrantedSound ==
  ASSUME plan \in [1 .. K -> Periods], NEW s, NEW people, DOMAIN s = Fields, s.period \in 1 .. K,
         Orderly(s.period, s.now, s.agenda, s.line, s.users, s.server, people),
         s.line # <<>> => Tail(s.line) = <<>> \/ plan[s.period].servers <= Cardinality(s.users) + Offers(s.agenda) + 1
  PROVE  /\ Sound(Granted(s), people)
         /\ Granted(s).period = s.period /\ Granted(s).now = s.now
<1>1. PICK n \in Nat : n = plan[s.period].servers
  BY CountersNumber
<1>2. PICK g : g = Granted(s)
  OBVIOUS
<1>3. CASE g = s /\ (s.line = <<>> \/ Cardinality(s.users) = n)
  <2>1. AgendaOK(s.agenda, s.now, s.users, s.server) /\ s.agenda \in Seq(Entries)
    BY DEF Orderly, AgendaOK
  <2>2. Offers(s.agenda) \in Nat
    <3>1. PICK x \in Entries : x = [at |-> 0, what |-> "released", of |-> 0]
      BY DEF Entries, Kinds
    <3> QED
      BY <2>1, <3>1, PlacedOffers
  <2>3. Manned(s.agenda, s.line, s.users, n)
    BY <1>3, <2>2 DEF Manned
  <2> QED
    BY <1>1, <1>2, <1>3, <2>3 DEF Sound, Good
<1>4. CASE /\ s.line # <<>> /\ Cardinality(s.users) # n
           /\ DOMAIN g = Fields
           /\ \A f \in Fields \ {"agenda", "line", "users"} : g[f] = s[f]
           /\ g.line = Tail(s.line) /\ g.users = s.users \cup {Head(s.line)}
           /\ g.agenda = Placed(s.agenda, [at |-> s.now, what |-> "granted", of |-> Head(s.line)])
  <2>1. g.period = s.period /\ g.now = s.now /\ g.server = s.server
    BY <1>4 DEF Fields
  <2>2. Cardinality(s.users) < n
    <3>1. Cardinality(s.users) \in Nat /\ Cardinality(s.users) <= n
      BY <1>1, FS_CardinalityType DEF Orderly, CountersOK
    <3> QED
      BY <1>4, <3>1
  <2>3. PICK h : h = Head(s.line)
    OBVIOUS
  <2>4. /\ Orderly(s.period, s.now, g.agenda, g.line, g.users, s.server, people)
        /\ Cardinality(g.users) = Cardinality(s.users) + 1 /\ Cardinality(s.users) \in Nat
        /\ Offers(g.agenda) = Offers(s.agenda) /\ Offers(s.agenda) \in Nat
    <3>1. PICK b : b = Placed(s.agenda, [at |-> s.now, what |-> "granted", of |-> h])
      OBVIOUS
    <3>2. /\ Orderly(s.period, s.now, b, Tail(s.line), s.users \cup {h}, s.server, people)
          /\ Cardinality(s.users \cup {h}) = Cardinality(s.users) + 1 /\ Cardinality(s.users) \in Nat
          /\ Offers(b) = Offers(s.agenda) /\ Offers(s.agenda) \in Nat
      <4>1. PICK x : x = [at |-> s.now, what |-> "granted", of |-> h]
        OBVIOUS
      <4>2. plan[s.period].servers \in Nat /\ Cardinality(s.users) < plan[s.period].servers /\ s.line # <<>>
        BY <1>1, <1>4, <2>2
      <4>3. PICK more : more = s.users \cup {h}
        OBVIOUS
      <4>4. /\ Orderly(s.period, s.now, Placed(s.agenda, x), Tail(s.line), more, s.server, people)
            /\ Cardinality(more) = Cardinality(s.users) + 1 /\ Cardinality(s.users) \in Nat
            /\ Offers(Placed(s.agenda, x)) = Offers(s.agenda) /\ Offers(s.agenda) \in Nat
        BY <2>3, <4>1, <4>2, <4>3, FirstIsCalled
      <4> QED
        BY <3>1, <4>1, <4>3, <4>4
    <3>3. g.agenda = b /\ g.line = Tail(s.line) /\ g.users = s.users \cup {h}
      BY <1>4, <2>3, <3>1
    <3> QED
      BY <3>2, <3>3
  <2>5. Manned(g.agenda, g.line, g.users, n)
    BY <1>1, <1>4, <2>4 DEF Manned
  <2> QED
    BY <1>1, <1>2, <1>4, <2>1, <2>4, <2>5 DEF Sound, Good
<1> QED
  BY <1>1, <1>2, <1>3, <1>4, GrantedIs

\* A customer who comes stands in line and the first in line is granted a free counter, and the period stays sound.
LEMMA JoinedSound ==
  ASSUME plan \in [1 .. K -> Periods], NEW s, NEW people, Sound(s, people), NEW c, c = Len(people) + 1
  PROVE  /\ Sound(Joined(s, c), Append(people, NewCustomer(s.period, s.now)))
         /\ Joined(s, c).period = s.period /\ Joined(s, c).now = s.now
<1>1. PICK m : m = Monitored(s, s.now)
  OBVIOUS
<1>2. Alike(m, s) /\ m.agenda = s.agenda
  BY <1>1, MonitoredIs DEF Sound
<1>3. PICK waits : waits = [m EXCEPT !.line = Append(@, c)]
  OBVIOUS
<1>4. PICK t : t = Granted(waits)
  OBVIOUS
<1>5. Joined(s, c) = [t EXCEPT !.longest = Max({@, Len(t.line)})]
  BY <1>1, <1>3, <1>4 DEF Joined
<1>6. DOMAIN waits = Fields /\ waits.period = s.period /\ waits.now = s.now /\ waits.server = s.server /\ waits.users = s.users
      /\ waits.agenda = s.agenda /\ waits.line = Append(s.line, c)
  BY <1>2, <1>3 DEF Alike, Fields
<1>7. PICK more : more = Append(people, NewCustomer(s.period, s.now))
  OBVIOUS
<1>8. Orderly(waits.period, waits.now, waits.agenda, waits.line, waits.users, waits.server, more)
  BY <1>6, <1>7, JoinedLine DEF Sound, Good
<1>9. Tail(waits.line) = <<>> \/ plan[waits.period].servers <= Cardinality(waits.users) + Offers(waits.agenda) + 1
  <2>1. CASE s.line = <<>>
    BY <1>6, <2>1
  <2>2. CASE s.line # <<>>
    <3>1. plan[s.period].servers \in Nat /\ Cardinality(s.users) \in Nat
      BY CountersNumber, FS_CardinalityType DEF Sound, Good, Orderly, CountersOK
    <3>2. plan[s.period].servers <= Cardinality(s.users) + Offers(s.agenda)
      BY <2>2 DEF Sound, Good, Manned
    <3>3. Offers(s.agenda) \in Nat
      <4>1. PICK x \in Entries : x = [at |-> 0, what |-> "released", of |-> 0]
        BY DEF Entries, Kinds
      <4>2. AgendaOK(s.agenda, s.now, s.users, s.server)
        BY DEF Sound, Good, Orderly
      <4> QED
        BY <4>1, <4>2, PlacedOffers
    <3> QED
      BY <1>6, <3>1, <3>2, <3>3
  <2> QED
    BY <2>1, <2>2
<1>10. s.period \in 1 .. K
  BY DEF Sound
<1>11. Sound(t, more) /\ t.period = s.period /\ t.now = s.now
  BY <1>4, <1>6, <1>8, <1>9, <1>10, GrantedSound
<1>12. PICK l : l = Max({t.longest, Len(t.line)})
  OBVIOUS
<1>13. PICK j : j = [t EXCEPT !.longest = l]
  OBVIOUS
<1>14. j = Joined(s, c)
  BY <1>5, <1>12, <1>13
<1>15. DOMAIN j = Fields /\ j.period = t.period /\ j.now = t.now /\ j.agenda = t.agenda /\ j.line = t.line /\ j.users = t.users
       /\ j.server = t.server
  BY <1>11, <1>13 DEF Sound, Fields
<1> QED
  BY <1>7, <1>11, <1>14, <1>15 DEF Sound

-----------------------------------------------------------------------------
(* The record *)

\* The clock of the day does not go back within a period, nor from one period to the next.
LEMMA ClockGrows ==
  ASSUME NEW p \in 1 .. K, NEW now \in 0 .. Hours
  PROVE  /\ Clock(p, now) \in Nat
         /\ \A later \in 0 .. Hours : now <= later => Clock(p, now) <= Clock(p, later)
         /\ Clock(p, now) <= Clock(p + 1, 0)
<1>1. p \in Nat /\ p - 1 \in Nat /\ Hours \in Nat /\ now \in Nat /\ now <= Hours
  BY SegmentAssumption
<1>2. PICK m \in Nat : m = (p - 1) * Hours
  BY <1>1
<1>3. (p + 1) - 1 = (p - 1) + 1
  BY <1>1
<1>4. ((p - 1) + 1) * Hours = m + Hours
  BY <1>1, <1>2
<1>5. Clock(p + 1, 0) = m + Hours
  BY <1>1, <1>3, <1>4 DEF Clock
<1>6. \A later \in 0 .. Hours : Clock(p, later) = m + later
  BY <1>2 DEF Clock
<1> QED
  BY <1>1, <1>2, <1>5, <1>6

\* Time passes without an event.
LEMMA RecordStays ==
  ASSUME NEW r, NEW t \in Nat, RecordOK(r, t), NEW u \in Nat, t <= u
  PROVE  RecordOK(r, u)
<1>1. ASSUME NEW i \in DOMAIN r.events PROVE r.events[i].t <= u
  <2>1. r.events \in Seq(Marks)
    BY DEF RecordOK
  <2>2. r.events[i] \in Marks
    BY <2>1, LenProperties, ElementOfSeq
  <2>3. r.events[i].t \in Nat /\ r.events[i].t <= t
    BY <2>2 DEF RecordOK, Marks
  <2> QED
    BY <2>3
<1> QED
  BY <1>1 DEF RecordOK

\* More events, none before time t, in the order of time, and as many as there is room for.
LEMMA RecordGrows ==
  ASSUME NEW r, NEW t \in Nat, RecordOK(r, t), NEW q \in [events : Seq(Marks), truncated : BOOLEAN],
         Len(q.events) >= Len(r.events), Len(q.events) <= MaxEvents, q.truncated => Len(q.events) = MaxEvents,
         \A i \in 1 .. Len(r.events) : q.events[i] = r.events[i],
         NEW u \in Nat, t <= u, \A i \in Len(r.events) + 1 .. Len(q.events) : q.events[i].t = u
  PROVE  RecordOK(q, u)
<1>1. /\ r.events \in Seq(Marks) /\ q.events \in Seq(Marks)
      /\ Len(r.events) \in Nat /\ DOMAIN r.events = 1 .. Len(r.events)
      /\ Len(q.events) \in Nat /\ DOMAIN q.events = 1 .. Len(q.events)
  BY LenProperties DEF RecordOK
<1>2. \A i \in 1 .. Len(r.events) : r.events[i].t \in Nat /\ r.events[i].t <= t
  <2>1. \A i \in 1 .. Len(r.events) : r.events[i] \in Marks
    BY <1>1, ElementOfSeq
  <2> QED
    BY <1>1, <2>1 DEF RecordOK, Marks
<1>3. ASSUME NEW i \in DOMAIN q.events
      PROVE  /\ i \in Nat
             /\ \/ i \in 1 .. Len(r.events) /\ q.events[i] = r.events[i] /\ q.events[i].t <= t /\ q.events[i].t \in Nat
                \/ i > Len(r.events) /\ q.events[i].t = u
  <2>1. i \in Nat /\ (i \in 1 .. Len(r.events) \/ i \in Len(r.events) + 1 .. Len(q.events))
    BY <1>1
  <2>2. CASE i \in 1 .. Len(r.events)
    BY <1>2, <2>1, <2>2
  <2>3. CASE i \in Len(r.events) + 1 .. Len(q.events)
    <3>1. q.events[i].t = u
      BY <2>3
    <3>2. i > Len(r.events)
      BY <1>1, <2>3
    <3> QED
      BY <2>1, <3>1, <3>2
  <2> QED
    BY <2>1, <2>2, <2>3
<1>4. ASSUME NEW i \in DOMAIN q.events, NEW j \in DOMAIN q.events, i < j PROVE q.events[i].t <= q.events[j].t
  <2>1. CASE j \in 1 .. Len(r.events) /\ q.events[j] = r.events[j]
    <3>1. i \in 1 .. Len(r.events) /\ q.events[i] = r.events[i]
      BY <1>1, <1>3, <1>4, <2>1
    <3>2. r.events[i].t <= r.events[j].t
      BY <1>1, <1>4, <2>1, <3>1 DEF RecordOK
    <3> QED
      BY <2>1, <3>1, <3>2
  <2>2. CASE q.events[j].t = u
    BY <1>3, <2>2
  <2> QED
    BY <1>3, <2>1, <2>2
<1>5. ASSUME NEW i \in DOMAIN q.events PROVE q.events[i].t <= u
  BY <1>3
<1> QED
  BY <1>4, <1>5 DEF RecordOK

\* One event, of now or later.
LEMMA KeptRecord ==
  ASSUME NEW r, NEW t \in Nat, RecordOK(r, t), NEW e \in Marks, t <= e.t
  PROVE  RecordOK(Kept(r, e), e.t)
<1>1. PICK u \in Nat : u = e.t
  BY DEF Marks
<1>2. r.events \in Seq(Marks) /\ Len(r.events) \in Nat /\ Len(r.events) <= MaxEvents /\ MaxEvents \in Nat
      /\ r \in [events : Seq(Marks), truncated : BOOLEAN]
  BY LenProperties, SegmentAssumption DEF RecordOK
<1>3. CASE Len(r.events) < MaxEvents
  <2>1. PICK longer : longer = Append(r.events, e)
    OBVIOUS
  <2>2. longer \in Seq(Marks) /\ Len(longer) = Len(r.events) + 1 /\ longer[Len(r.events) + 1] = e
        /\ \A i \in 1 .. Len(r.events) : longer[i] = r.events[i]
    BY <1>2, <2>1, AppendProperties
  <2>3. PICK q : q = [r EXCEPT !.events = longer]
    OBVIOUS
  <2>4. q \in [events : Seq(Marks), truncated : BOOLEAN] /\ q.events = longer /\ q.truncated = r.truncated
    BY <1>2, <2>2, <2>3
  <2>5. q.truncated => Len(q.events) = MaxEvents
    BY <1>2, <1>3, <2>4 DEF RecordOK
  <2>6. \A i \in Len(r.events) + 1 .. Len(q.events) : q.events[i].t = u
    BY <1>1, <1>2, <2>2, <2>4
  <2>7. Len(q.events) >= Len(r.events) /\ Len(q.events) <= MaxEvents /\ \A i \in 1 .. Len(r.events) : q.events[i] = r.events[i]
    BY <1>2, <1>3, <2>2, <2>4
  <2>8. RecordOK(q, u)
    BY <1>1, <2>4, <2>5, <2>6, <2>7, RecordGrows
  <2>9. Kept(r, e) = q
    BY <1>3, <2>1, <2>3 DEF Kept
  <2> QED
    BY <1>1, <2>8, <2>9
<1>4. CASE ~ (Len(r.events) < MaxEvents)
  <2>1. PICK q : q = [r EXCEPT !.truncated = TRUE]
    OBVIOUS
  <2>2. q \in [events : Seq(Marks), truncated : BOOLEAN] /\ q.events = r.events
    BY <1>2, <2>1
  <2>3. Len(q.events) = MaxEvents
    BY <1>2, <1>4, <2>2
  <2>4. RecordOK(r, u)
    BY <1>1, RecordStays
  <2>5. RecordOK(q, u)
    BY <2>2, <2>3, <2>4 DEF RecordOK
  <2>6. Kept(r, e) = q
    BY <1>4, <2>1 DEF Kept
  <2> QED
    BY <1>1, <2>5, <2>6
<1> QED
  BY <1>3, <1>4

\* The smaller of two numbers.
LEMMA Smaller ==
  ASSUME NEW m \in Nat, NEW n \in Nat
  PROVE  Min({m, n}) \in Nat /\ Min({m, n}) <= m /\ Min({m, n}) <= n /\ (Min({m, n}) = m \/ Min({m, n}) = n)
<1>1. Min({m, n}) \in {m, n} /\ \A k \in {m, n} : Min({m, n}) <= k
  BY MinIsLeast
<1> QED
  BY <1>1

\* Several events of one time, now or later.
LEMMA AllKeptRecord ==
  ASSUME NEW r, NEW t \in Nat, RecordOK(r, t), NEW events \in Seq(Marks), NEW u \in Nat, t <= u,
         \A i \in DOMAIN events : events[i].t = u
  PROVE  RecordOK(AllKept(r, events), u)
<1>1. r.events \in Seq(Marks) /\ Len(r.events) \in Nat /\ Len(r.events) <= MaxEvents /\ MaxEvents \in Nat
      /\ r \in [events : Seq(Marks), truncated : BOOLEAN] /\ (r.truncated => Len(r.events) = MaxEvents)
      /\ Len(events) \in Nat /\ DOMAIN events = 1 .. Len(events)
  BY LenProperties, SegmentAssumption DEF RecordOK
<1>2. PICK all : all = r.events \o events
  OBVIOUS
<1>3. all \in Seq(Marks) /\ Len(all) = Len(r.events) + Len(events)
      /\ \A i \in 1 .. Len(r.events) + Len(events) : all[i] = IF i <= Len(r.events) THEN r.events[i] ELSE events[i - Len(r.events)]
  BY <1>1, <1>2, ConcatProperties
<1>4. PICK n : n = Min({MaxEvents, Len(r.events) + Len(events)})
  OBVIOUS
<1>5. n \in Nat /\ n <= MaxEvents /\ n <= Len(r.events) + Len(events) /\ (n = MaxEvents \/ n = Len(r.events) + Len(events))
  <2>1. Len(r.events) + Len(events) \in Nat
    BY <1>1
  <2> QED
    BY <1>1, <1>4, <2>1, Smaller
<1>6. PICK b : b = SubSeq(all, 1, n)
  OBVIOUS
<1>7. b \in Seq(Marks) /\ Len(b) = n /\ \A i \in 1 .. n : b[i] = all[i]
  <2>1. \A i \in 1 .. n : all[i] \in Marks
    BY <1>1, <1>3, <1>5, ElementOfSeq
  <2>2. b \in Seq(Marks) /\ Len(b) = (IF 1 <= n THEN n - 1 + 1 ELSE 0) /\ \A i \in 1 .. n - 1 + 1 : b[i] = all[1 + i - 1]
    BY <1>5, <1>6, <2>1, SubSeqProperties
  <2> QED
    BY <1>5, <2>2
<1>8. PICK full \in BOOLEAN : full = (r.truncated \/ Len(r.events) + Len(events) > MaxEvents)
  OBVIOUS
<1>9. PICK q : q = [events |-> b, truncated |-> full]
  OBVIOUS
<1>10. q \in [events : Seq(Marks), truncated : BOOLEAN] /\ q.events = b /\ q.truncated = full
  BY <1>7, <1>9
<1>11. Len(r.events) <= n
  BY <1>1, <1>5
<1>12. full => n = MaxEvents
  BY <1>1, <1>5, <1>8
<1>13. \A i \in 1 .. Len(r.events) : b[i] = r.events[i]
  BY <1>1, <1>3, <1>5, <1>7, <1>11
<1>14. ASSUME NEW i \in Len(r.events) + 1 .. n PROVE b[i].t = u
  <2>1. i \in 1 .. n /\ i \in 1 .. Len(r.events) + Len(events) /\ ~ (i <= Len(r.events)) /\ i - Len(r.events) \in DOMAIN events
    BY <1>1, <1>5
  <2>2. b[i] = events[i - Len(r.events)]
    BY <1>3, <1>7, <2>1
  <2> QED
    BY <2>1, <2>2
<1>15. RecordOK(q, u)
  <2>1. Len(q.events) >= Len(r.events) /\ Len(q.events) <= MaxEvents /\ (q.truncated => Len(q.events) = MaxEvents)
    BY <1>5, <1>7, <1>10, <1>11, <1>12
  <2>2. (\A i \in 1 .. Len(r.events) : q.events[i] = r.events[i]) /\ \A i \in Len(r.events) + 1 .. Len(q.events) : q.events[i].t = u
    BY <1>7, <1>10, <1>13, <1>14
  <2> QED
    BY <1>10, <2>1, <2>2, RecordGrows
<1>16. AllKept(r, events) = q
  BY <1>2, <1>4, <1>6, <1>8, <1>9 DEF AllKept
<1> QED
  BY <1>15, <1>16

\* What is noted of an event is its time, and how many stand in line.
LEMMA EventIs ==
  ASSUME NEW s, s.period \in 1 .. K, s.now \in 0 .. Hours, s.line \in Seq(Nat),
         NEW type \in {"arrival", "service_start", "service_end"}, NEW c \in Nat, NEW v \in Int
  PROVE  Event(s, type, c, v) \in Marks /\ Event(s, type, c, v).t = Clock(s.period, s.now)
<1>1. s.period \in 1 .. K /\ s.now \in 0 .. Hours /\ Len(s.line) \in Nat
  BY LenProperties
<1>2. PICK t \in Nat : t = Clock(s.period, s.now)
  BY <1>1, ClockGrows
<1>3. PICK l \in Nat : l = Len(s.line)
  BY <1>1
<1>4. Event(s, type, c, v) = [t |-> t, type |-> type, customer |-> c, server |-> v, line |-> l]
  BY <1>2, <1>3 DEF Event, Clock
<1> QED
  BY <1>2, <1>4 DEF Marks

-----------------------------------------------------------------------------
(* The beginning of a period *)

\* Those who came in the periods before k, so many of them.
Before(k, people, l) ==
  /\ people \in Seq(CustomerRows) /\ InOrder(people) /\ Len(people) = l
  /\ \A c \in DOMAIN people : people[c].period < k

\* Nobody has come yet.
LEMMA EmptySound ==
  ASSUME plan \in [1 .. K -> Periods], NEW k \in 1 .. K, NEW people, NEW l \in Nat, Before(k, people, l), NEW now \in 0 .. Hours
  PROVE  Sound([Empty(k) EXCEPT !.now = now], people)
<1>1. PICK s : s = [Empty(k) EXCEPT !.now = now]
  OBVIOUS
<1>2. /\ DOMAIN s = Fields /\ s.period = k /\ s.now = now /\ s.agenda = <<>> /\ s.line = <<>> /\ s.users = {}
      /\ s.server = <<>>
  BY <1>1 DEF Empty, Fields
<1>3. Named(<<>>, "granted") = {} /\ Named(<<>>, "end") = {} /\ Named(<<>>, "released") = {} /\ Called(<<>>) = {} /\ Range(<<>>) = {}
  BY DEF Named, Called, Range
<1>4. AgendaOK(<<>>, now, {}, <<>>)
  BY <1>3 DEF AgendaOK
<1>5. CountersOK({}, <<>>, plan[k].servers)
  <2>1. plan[k].servers \in Nat
    BY CountersNumber
  <2>2. IsFiniteSet({}) /\ Cardinality({}) = 0
    BY FS_EmptySet
  <2>3. DOMAIN <<>> = {}
    OBVIOUS
  <2>4. <<>> \in [DOMAIN <<>> -> 0 .. plan[k].servers - 1]
    BY <2>3
  <2>5. IsInjective(<<>>)
    BY <2>3 DEF IsInjective
  <2> QED
    BY <2>1, <2>2, <2>3, <2>4, <2>5 DEF CountersOK
<1>6. LineOK(<<>>, <<>>, {})
  BY DEF LineOK
<1>7. PeopleOK(k, now, <<>>, <<>>, {}, people)
  <2>1. ASSUME NEW c \in DOMAIN people PROVE people[c].period <= k /\ people[c].period # k
    <3>1. people[c] \in CustomerRows
      BY LenProperties, ElementOfSeq DEF Before
    <3>2. people[c].period \in Int /\ people[c].period < k
      BY <3>1 DEF Before, CustomerRows
    <3> QED
      BY <3>2
  <2> QED
    BY <1>3, <2>1 DEF PeopleOK, Before
<1> QED
  BY <1>1, <1>2, <1>4, <1>5, <1>6, <1>7 DEF Sound, Good, Orderly, Manned

\* Those left over are called, the first of them.
LeftCalled(l, first) == [i \in 1 .. first |-> [at |-> 0, what |-> "granted", of |-> l + i]]

\* The grants with which a period begins are an agenda in order that calls the first customers left over.
LEMMA LeftCalledIs ==
  ASSUME NEW l \in Nat, NEW first \in Nat
  PROVE  /\ LeftCalled(l, first) \in Seq(Entries)
         /\ Named(LeftCalled(l, first), "granted") = 1 .. first /\ Named(LeftCalled(l, first), "end") = {}
         /\ Called(LeftCalled(l, first)) = l + 1 .. l + first
         /\ AgendaOK(LeftCalled(l, first), 0, l + 1 .. l + first, <<>>)
<1>1. PICK agenda : agenda = LeftCalled(l, first)
  OBVIOUS
<1>2. /\ DOMAIN agenda = 1 .. first /\ agenda \in [1 .. first -> Entries]
      /\ \A i \in 1 .. first : agenda[i].at = 0 /\ agenda[i].what = "granted" /\ agenda[i].of = l + i
  <2>1. agenda = [i \in 1 .. first |-> [at |-> 0, what |-> "granted", of |-> l + i]]
    BY <1>1 DEF LeftCalled
  <2>2. \A i \in 1 .. first : [at |-> 0, what |-> "granted", of |-> l + i] \in Entries
    BY DEF Entries, Kinds
  <2> QED
    BY <2>1, <2>2
<1>3. agenda \in Seq(Entries)
  BY <1>2
<1>4. Named(agenda, "granted") = 1 .. first /\ Named(agenda, "end") = {} /\ Named(agenda, "released") = {}
  BY <1>2 DEF Named
<1>5. Called(agenda) = l + 1 .. l + first
  <2>1. ASSUME NEW c \in Called(agenda) PROVE c \in l + 1 .. l + first
    <3>1. PICK i \in 1 .. first : c = agenda[i].of
      BY <1>4 DEF Called
    <3> QED
      BY <1>2, <3>1
  <2>2. ASSUME NEW c \in l + 1 .. l + first PROVE c \in Called(agenda)
    <3>1. c - l \in 1 .. first /\ l + (c - l) = c
      BY <2>2
    <3>2. agenda[c - l].of = c
      BY <1>2, <3>1
    <3> QED
      BY <1>4, <3>1, <3>2 DEF Called
  <2> QED
    BY <2>1, <2>2
<1>6. AgendaOK(agenda, 0, l + 1 .. l + first, <<>>)
  <2>1. ASSUME NEW i \in Named(agenda, "granted") PROVE agenda[i].at = 0 /\ agenda[i].of \in (l + 1 .. l + first) \ DOMAIN <<>>
    <3>1. agenda[i].of \in Called(agenda) /\ DOMAIN <<>> = {}
      BY <2>1 DEF Called
    <3> QED
      BY <1>2, <1>4, <1>5, <3>1
  <2>2. \A i, j \in Named(agenda, "granted") : i < j => agenda[i].of < agenda[j].of
    BY <1>2, <1>4
  <2>3. \A i, j \in DOMAIN agenda : i < j => agenda[i].at <= agenda[j].at
    BY <1>2
  <2>4. \A i \in DOMAIN agenda : agenda[i].at >= 0
    BY <1>2
  <2> QED
    BY <1>3, <1>4, <2>1, <2>2, <2>3, <2>4 DEF AgendaOK
<1> QED
  BY <1>1, <1>3, <1>4, <1>5, <1>6

\* The others stand in line.
LeftWaiting(l, first, carry) == [i \in 1 .. carry - first |-> l + first + i]

\* The line with which a period begins is in the order of ids, behind those who are called.
LEMMA LeftWaitingIs ==
  ASSUME NEW l \in Nat, NEW carry \in Nat, NEW first \in 0 .. carry
  PROVE  /\ LeftWaiting(l, first, carry) \in Seq(Nat)
         /\ Range(LeftWaiting(l, first, carry)) = l + first + 1 .. l + carry
         /\ \A i \in DOMAIN LeftWaiting(l, first, carry) : LeftWaiting(l, first, carry)[i] \in l + first + 1 .. l + carry
         /\ \A i, j \in DOMAIN LeftWaiting(l, first, carry) :
              i < j => LeftWaiting(l, first, carry)[i] < LeftWaiting(l, first, carry)[j]
         /\ first = carry => LeftWaiting(l, first, carry) = <<>>
<1>1. PICK line : line = LeftWaiting(l, first, carry)
  OBVIOUS
<1>2. PICK m \in Nat : m = carry - first
  OBVIOUS
<1>3. /\ DOMAIN line = 1 .. m /\ line \in [1 .. m -> Nat]
      /\ \A i \in 1 .. m : line[i] = l + first + i
  <2>1. line = [i \in 1 .. m |-> l + first + i]
    BY <1>1, <1>2 DEF LeftWaiting
  <2> QED
    BY <2>1
<1>4. line \in Seq(Nat)
  BY <1>3
<1>5. \A i \in DOMAIN line : line[i] \in l + first + 1 .. l + carry
  BY <1>2, <1>3
<1>6. \A i, j \in DOMAIN line : i < j => line[i] < line[j]
  BY <1>3
<1>7. Range(line) = l + first + 1 .. l + carry
  <2>1. ASSUME NEW c \in Range(line) PROVE c \in l + first + 1 .. l + carry
    BY <1>5 DEF Range
  <2>2. ASSUME NEW c \in l + first + 1 .. l + carry PROVE c \in Range(line)
    <3>1. c - (l + first) \in 1 .. m /\ l + first + (c - (l + first)) = c
      BY <1>2, <2>2
    <3>2. line[c - (l + first)] = c
      BY <1>3, <3>1
    <3> QED
      BY <1>3, <3>1, <3>2 DEF Range
  <2> QED
    BY <2>1, <2>2
<1>8. first = carry => line = <<>>
  <2> HAVE first = carry
  <2>1. DOMAIN line = 1 .. 0
    BY <1>2, <1>3
  <2>2. Len(line) = 0
    BY <1>4, <2>1, LenProperties
  <2> QED
    BY <1>4, <2>2, EmptySeq
<1> QED
  BY <1>1, <1>4, <1>5, <1>6, <1>7, <1>8

\* All of them are customers of the period, who have not begun.
Newcomers(k, carry) == [i \in 1 .. carry |-> NewCustomer(k, 0)]

\* These people were the first l, and so many of period k come.
Came(more, people, k, l, carry) ==
  /\ more \in Seq(CustomerRows) /\ Len(more) = l + carry
  /\ \A c \in 1 .. l : more[c] = people[c] /\ people[c].period \in Nat /\ people[c].period < k
  /\ \A c \in l + 1 .. l + carry : more[c].period = k /\ more[c].start = Never /\ more[c].arrival = 0

\* Entering a carried-over line appends one customer of the new period for each, not yet begun, and changes nobody else.
LEMMA NewcomersJoin ==
  ASSUME NEW k \in 1 .. K, NEW people, NEW l \in Nat, Before(k, people, l), NEW carry \in Nat
  PROVE  Came(people \o Newcomers(k, carry), people, k, l, carry)
<1>1. PICK row : row = NewCustomer(k, 0)
  OBVIOUS
<1>2. row \in CustomerRows /\ row.period = k /\ row.start = Never /\ row.arrival = 0
  BY <1>1 DEF NewCustomer, CustomerRows
<1>3. PICK added : added = Newcomers(k, carry)
  OBVIOUS
<1>4. added \in Seq(CustomerRows) /\ Len(added) = carry /\ \A i \in 1 .. carry : added[i] = row
  <2>1. added = [i \in 1 .. carry |-> row]
    BY <1>1, <1>3 DEF Newcomers
  <2>2. added \in [1 .. carry -> CustomerRows] /\ DOMAIN added = 1 .. carry
    BY <1>2, <2>1
  <2>3. added \in Seq(CustomerRows)
    BY <2>2
  <2> QED
    BY <2>1, <2>2, <2>3, LenProperties
<1>5. people \in Seq(CustomerRows) /\ Len(people) = l /\ \A c \in 1 .. l : people[c] \in CustomerRows /\ people[c].period < k
  <2>1. people \in Seq(CustomerRows) /\ Len(people) = l /\ \A c \in DOMAIN people : people[c].period < k
    BY DEF Before
  <2>2. DOMAIN people = 1 .. l /\ \A c \in 1 .. l : people[c] \in CustomerRows
    BY <2>1, LenProperties, ElementOfSeq
  <2> QED
    BY <2>1, <2>2
<1>6. PICK more : more = people \o added
  OBVIOUS
<1>7. more \in Seq(CustomerRows) /\ Len(more) = l + carry
      /\ \A c \in 1 .. l + carry : more[c] = IF c <= l THEN people[c] ELSE added[c - l]
  <2>1. people \in Seq(CustomerRows) /\ added \in Seq(CustomerRows) /\ Len(people) = l /\ Len(added) = carry
    BY <1>4, <1>5
  <2>2. /\ people \o added \in Seq(CustomerRows)
        /\ Len(people \o added) = Len(people) + Len(added)
        /\ \A c \in 1 .. Len(people) + Len(added) :
             (people \o added)[c] = IF c <= Len(people) THEN people[c] ELSE added[c - Len(people)]
    BY <2>1, ConcatProperties
  <2> QED
    BY <1>6, <2>1, <2>2
<1>9. ASSUME NEW c \in 1 .. l PROVE more[c] = people[c] /\ people[c].period \in Nat /\ people[c].period < k
  <2>1. c \in 1 .. l + carry /\ c <= l
    OBVIOUS
  <2>2. more[c] = people[c]
    BY <1>7, <2>1
  <2>3. people[c].period \in Nat
    <3>1. people[c] \in CustomerRows
      BY <1>5
    <3> QED
      BY <3>1 DEF CustomerRows
  <2> QED
    BY <1>5, <2>2, <2>3
<1>10. ASSUME NEW c \in l + 1 .. l + carry PROVE more[c].period = k /\ more[c].start = Never /\ more[c].arrival = 0
  <2>1. c \in 1 .. l + carry /\ ~ (c <= l) /\ c - l \in 1 .. carry
    OBVIOUS
  <2>2. more[c] = added[c - l]
    BY <1>7, <2>1
  <2> QED
    BY <1>2, <1>4, <2>1, <2>2
<1> QED
  BY <1>3, <1>6, <1>7, <1>9, <1>10 DEF Came

\* With a line left over, split into those called and those waiting, a period begins sound.
LEMMA LeftOverSound ==
  ASSUME plan \in [1 .. K -> Periods], NEW k \in 1 .. K, NEW people, NEW l \in Nat, Before(k, people, l), NEW carry \in Nat,
         NEW first \in 0 .. carry, first <= plan[k].servers, first = carry \/ first = plan[k].servers
  PROVE  Good(k, 0, LeftCalled(l, first), LeftWaiting(l, first, carry), l + 1 .. l + first, <<>>, people \o Newcomers(k, carry))
<1>1. PICK n \in Nat : n = plan[k].servers
  BY CountersNumber
<1>2. first <= carry /\ first <= n /\ (first = carry \/ first = n)
  BY <1>1
<1>3. PICK agenda : agenda = LeftCalled(l, first)
  OBVIOUS
<1>4. PICK line : line = LeftWaiting(l, first, carry)
  OBVIOUS
<1>5. PICK more : more = people \o Newcomers(k, carry)
  OBVIOUS
<1>6. PICK users : users = l + 1 .. l + first
  OBVIOUS
<1>7. Called(agenda) = users /\ AgendaOK(agenda, 0, users, <<>>)
  BY <1>3, <1>6, LeftCalledIs
<1>8. /\ line \in Seq(Nat) /\ Range(line) = l + first + 1 .. l + carry
      /\ (\A i \in DOMAIN line : line[i] \in l + first + 1 .. l + carry)
      /\ (\A i, j \in DOMAIN line : i < j => line[i] < line[j])
      /\ (first = carry => line = <<>>)
  BY <1>4, LeftWaitingIs
<1>9. IsFiniteSet(users) /\ Cardinality(users) = first
  BY <1>6, FS_Interval
<1>10. CountersOK(users, <<>>, n)
  <2>1. DOMAIN <<>> = {}
    OBVIOUS
  <2>2. <<>> \in [DOMAIN <<>> -> 0 .. n - 1] /\ IsInjective(<<>>)
    BY <2>1 DEF IsInjective
  <2> QED
    BY <1>2, <1>9, <2>1, <2>2 DEF CountersOK
<1>11. LineOK(agenda, line, users)
  <2>1. ASSUME NEW i \in DOMAIN line PROVE line[i] \notin users /\ \A c \in users : c < line[i]
    <3>1. line[i] \in l + first + 1 .. l + carry
      BY <1>8
    <3> QED
      BY <1>6, <3>1
  <2> QED
    BY <1>7, <1>8, <2>1 DEF LineOK
<1>19. Manned(agenda, line, users, n)
  <2>1. line # <<>> => Cardinality(users) = n
    BY <1>2, <1>8, <1>9
  <2>2. Offers(agenda) \in Nat
    <3>1. PICK x \in Entries : x = [at |-> 0, what |-> "released", of |-> 0]
      BY DEF Entries, Kinds
    <3> QED
      BY <1>7, <3>1, PlacedOffers
  <2> QED
    BY <1>1, <2>1, <2>2 DEF Manned
<1>12. /\ more \in Seq(CustomerRows) /\ DOMAIN more = 1 .. l + carry /\ DOMAIN people = 1 .. l
       /\ (\A c \in 1 .. l : more[c] = people[c] /\ people[c].period \in Nat /\ people[c].period < k)
       /\ \A c \in l + 1 .. l + carry : more[c].period = k /\ more[c].start = Never
  <2>1. Came(more, people, k, l, carry)
    BY <1>5, NewcomersJoin
  <2>2. people \in Seq(CustomerRows) /\ Len(people) = l
    BY DEF Before
  <2>3. DOMAIN people = 1 .. l
    BY <2>2, LenProperties
  <2>4. more \in Seq(CustomerRows) /\ Len(more) = l + carry
    BY <2>1 DEF Came
  <2>5. DOMAIN more = 1 .. l + carry
    BY <2>4, LenProperties
  <2> QED
    BY <2>1, <2>3, <2>4, <2>5 DEF Came
<1>13. ASSUME NEW c \in DOMAIN more
       PROVE  /\ c \in Nat
              /\ \/ c \in 1 .. l /\ c \in DOMAIN people /\ more[c] = people[c] /\ more[c].period \in Nat /\ more[c].period < k
                 \/ c \in l + 1 .. l + carry /\ more[c].period = k /\ more[c].start = Never
  <2>1. c \in Nat /\ (c \in 1 .. l \/ c \in l + 1 .. l + carry)
    BY <1>12
  <2>2. CASE c \in 1 .. l
    BY <1>12, <2>1, <2>2
  <2>3. CASE c \in l + 1 .. l + carry
    BY <1>12, <2>1, <2>3
  <2> QED
    BY <2>1, <2>2, <2>3
<1>14. Called(agenda) \cup Range(line) = l + 1 .. l + carry
  <2>1. \A c \in l + 1 .. l + carry : c \in l + 1 .. l + first \/ c \in l + first + 1 .. l + carry
    OBVIOUS
  <2>2. (\A c \in l + 1 .. l + first : c \in l + 1 .. l + carry) /\ \A c \in l + first + 1 .. l + carry : c \in l + 1 .. l + carry
    BY <1>2
  <2> QED
    BY <1>6, <1>7, <1>8, <2>1, <2>2
<1>15. InOrder(more)
  <2>1. ASSUME NEW h \in 1 .. K, NEW b \in DOMAIN more, NEW c \in DOMAIN more,
               more[b].period = h, more[c].period = h, b < c, more[c].start # Never
        PROVE  more[b].start # Never /\ more[b].start <= more[c].start
    <3>1. c \in DOMAIN people /\ more[c] = people[c] /\ h < k
      BY <1>13, <2>1
    <3>2. b \in DOMAIN people /\ more[b] = people[b]
      BY <1>13, <2>1, <3>1
    <3> QED
      BY <2>1, <3>1, <3>2 DEF Before, InOrder
  <2> QED
    BY <2>1 DEF InOrder
<1>16. PeopleOK(k, 0, agenda, line, users, more)
  <2>1. users \subseteq DOMAIN more
    BY <1>2, <1>6, <1>12
  <2>2. ASSUME NEW c \in DOMAIN more
        PROVE  /\ more[c].period <= k
               /\ more[c].period = k /\ more[c].start = Never => c \in l + 1 .. l + carry
               /\ more[c].period = k /\ more[c].start # Never => more[c].start <= 0
    <3>1. CASE more[c].period \in Nat /\ more[c].period < k
      <4>1. more[c].period <= k /\ more[c].period # k
        BY <3>1
      <4> QED
        BY <4>1
    <3>2. CASE c \in l + 1 .. l + carry /\ more[c].period = k /\ more[c].start = Never
      BY <3>2
    <3> QED
      BY <1>13, <3>1, <3>2
  <2>3. ASSUME NEW c \in l + 1 .. l + carry PROVE c \in DOMAIN more /\ more[c].period = k /\ more[c].start = Never
    <3>1. c \in DOMAIN more
      BY <1>12
    <3> QED
      BY <1>12, <3>1
  <2> QED
    BY <1>12, <1>14, <1>15, <2>1, <2>2, <2>3 DEF PeopleOK
<1>17. 0 \in 0 .. Hours
  BY SegmentAssumption
<1>18. Good(k, 0, agenda, line, users, <<>>, more)
  BY <1>1, <1>7, <1>10, <1>11, <1>16, <1>17, <1>19 DEF Good, Orderly
<1> QED
  BY <1>3, <1>4, <1>5, <1>6, <1>18

\* A period begins sound, at its time zero, whatever line is carried into it.
LEMMA BegunSound ==
  ASSUME plan \in [1 .. K -> Periods], NEW k \in 1 .. K, Before(k, customer, Len(customer)), Len(customer) \in Nat,
         NEW carry \in Nat, NEW gap \in Gaps
  PROVE  /\ Sound(Begun(k, carry, gap), customer \o Newcomers(k, carry))
         /\ Begun(k, carry, gap).period = k /\ Begun(k, carry, gap).now = 0
<1>1. PICK l \in Nat : l = Len(customer)
  OBVIOUS
<1>2. PICK first : first = Min({carry, plan[k].servers})
  OBVIOUS
<1>3. first \in 0 .. carry /\ first <= plan[k].servers /\ (first = carry \/ first = plan[k].servers)
  BY <1>2, CountersNumber, Smaller
<1>4. PICK users : users = {Len(customer) + i : i \in 1 .. first}
  OBVIOUS
<1>5. users = l + 1 .. l + first
  <2>1. ASSUME NEW c \in users PROVE c \in l + 1 .. l + first
    BY <1>1, <1>3, <1>4
  <2>2. ASSUME NEW c \in l + 1 .. l + first PROVE c \in users
    <3>1. c - l \in 1 .. first /\ l + (c - l) = c
      BY <1>3, <2>2
    <3> QED
      BY <1>1, <1>4, <3>1
  <2> QED
    BY <2>1, <2>2
<1>6. PICK agenda : agenda = LeftCalled(l, first)
  OBVIOUS
<1>7. PICK line : line = LeftWaiting(l, first, carry)
  OBVIOUS
<1>8. PICK more : more = customer \o Newcomers(k, carry)
  OBVIOUS
<1>9. Good(k, 0, agenda, line, users, <<>>, more)
  <2>1. Before(k, customer, l)
    BY <1>1
  <2>2. Good(k, 0, LeftCalled(l, first), LeftWaiting(l, first, carry), l + 1 .. l + first, <<>>, customer \o Newcomers(k, carry))
    BY <1>3, <2>1, LeftOverSound
  <2> QED
    BY <1>5, <1>6, <1>7, <1>8, <2>2
<1>10. PICK joined : joined = [Empty(k) EXCEPT !.left = carry, !.longest = carry - first, !.users = users, !.agenda = agenda, !.line = line]
  OBVIOUS
<1>11. /\ DOMAIN joined = Fields /\ joined.period = k /\ joined.now = 0 /\ joined.agenda = agenda /\ joined.line = line
       /\ joined.users = users /\ joined.server = <<>>
  BY <1>10 DEF Empty, Fields
<1>12. Sound(joined, more)
  BY <1>9, <1>11 DEF Sound
<1>13. Begun(k, carry, gap) = IF plan[k].arrivals THEN NextArrival(joined, gap) ELSE joined
  <2>1. agenda = [i \in 1 .. first |-> [at |-> 0, what |-> "granted", of |-> Len(customer) + i]]
    BY <1>1, <1>6 DEF LeftCalled
  <2>2. line = [i \in 1 .. carry - first |-> Len(customer) + first + i]
    BY <1>1, <1>7 DEF LeftWaiting
  <2> QED
    BY <1>2, <1>4, <1>10, <2>1, <2>2 DEF Begun
<1>14. CASE plan[k].arrivals
  <2>1. Sound(NextArrival(joined, gap), more) /\ Alike(NextArrival(joined, gap), joined)
    BY <1>12, NextArrivalSound
  <2> QED
    BY <1>8, <1>11, <1>13, <1>14, <2>1 DEF Alike
<1>15. CASE ~ plan[k].arrivals
  BY <1>8, <1>11, <1>12, <1>13, <1>15
<1> QED
  BY <1>14, <1>15

-----------------------------------------------------------------------------
(* The actions *)

\* While an event comes up the day is not over.
LEMMA Underway ==
  ASSUME IInv, NEW what, Comes(what)
  PROVE  /\ Len(rows) < K /\ sim.period = Len(rows) + 1 /\ Sound(sim, customer) /\ sim.period \in 1 .. K
         /\ sim.agenda # <<>> /\ Head(sim.agenda).what = what /\ Head(sim.agenda).at < Hours
         /\ Head(sim.agenda).at \in 0 .. Hours /\ sim.now \in 0 .. Hours /\ sim.now <= Head(sim.agenda).at
         /\ Clock(sim.period, sim.now) \in Nat
         /\ Clock(sim.period, sim.now) <= Clock(sim.period, Head(sim.agenda).at)
<1>1. sim.agenda # <<>> /\ Head(sim.agenda).what = what /\ Head(sim.agenda).at < Hours
  BY DEF Comes
<1>2. Len(rows) < K
  <2>1. Len(rows) # K
    BY <1>1 DEF IInv, Idle
  <2>2. Len(rows) \in Nat /\ Len(rows) <= K /\ K \in Nat
    BY SegmentAssumption, LenProperties DEF IInv
  <2> QED
    BY <2>1, <2>2
<1>3. sim.period = Len(rows) + 1 /\ Sound(sim, customer) /\ sim.period \in 1 .. K /\ sim.now \in 0 .. Hours
  BY <1>2 DEF IInv
<1>4. AgendaOK(sim.agenda, sim.now, sim.users, sim.server) /\ sim.now \in Nat /\ Hours \in Nat
  BY <1>3, SegmentAssumption DEF Sound, Good, Orderly
<1>5. Head(sim.agenda) \in Entries /\ Head(sim.agenda).at >= sim.now
  BY <1>1, <1>4, TakenOut
<1>6. PICK t : t = Head(sim.agenda).at
  OBVIOUS
<1>7. t \in 0 .. Hours /\ sim.now <= t
  BY <1>1, <1>4, <1>5, <1>6 DEF Entries
<1>8. Clock(sim.period, sim.now) \in Nat /\ Clock(sim.period, sim.now) <= Clock(sim.period, t)
  BY <1>3, <1>7, ClockGrows
<1> QED
  BY <1>1, <1>2, <1>3, <1>6, <1>7, <1>8

\* The arguments of the run do not change: what is good of the next state is good in it.
LEMMA Carried ==
  ASSUME IInv, plan' = plan, carryover' = carryover,
         DOMAIN sim' = Fields, sim'.period \in 1 .. K, sim'.now \in 0 .. Hours,
         rows' \in Seq(Range(rows')), Len(rows') <= K,
         Len(rows') < K => sim'.period = Len(rows') + 1 /\ Sound(sim', customer'),
         Len(rows') = K => /\ sim'.period = K /\ sim'.agenda = <<>> /\ sim'.line = <<>> /\ sim'.server = <<>>
                           /\ InOrder(customer'),
         RecordOK(record', Clock(sim'.period, sim'.now))
  PROVE  IInv'
<1>1. \A p, now, a, line, users, server, people :
        Good(p, now, a, line, users, server, people)' <=> Good(p, now, a, line, users, server, people)
  BY DEF Good, Orderly
<1>2. \A s, people : Sound(s, people)' <=> Sound(s, people)
  BY <1>1 DEF Sound
<1>3. Len(rows') < K => sim'.period = Len(rows') + 1 /\ Sound(sim, customer)'
  BY <1>2
<1>4. Len(rows') = K => Idle'
  BY DEF Idle
<1> QED
  BY <1>3, <1>4 DEF IInv

\* The same while the period lasts.
LEMMA PeriodLasts ==
  ASSUME IInv, Len(rows) < K, UNCHANGED <<plan, carryover, rows>>, Sound(sim', customer'), sim'.period = sim.period,
         RecordOK(record', Clock(sim'.period, sim'.now))
  PROVE  IInv'
<1>1. DOMAIN sim' = Fields /\ sim'.period \in 1 .. K /\ sim'.now \in 0 .. Hours
  BY DEF Sound, Good, Orderly
<1>2. rows' \in Seq(Range(rows')) /\ Len(rows') <= K /\ Len(rows') \in Nat /\ K \in Nat /\ Len(rows') < K
  BY SegmentAssumption, LenProperties DEF IInv
<1>3. sim'.period = Len(rows') + 1 /\ Len(rows') # K
  BY <1>2 DEF IInv
<1> QED
  BY <1>1, <1>2, <1>3, Carried

\* An arrival keeps the invariant.
LEMMA ArriveKeeps ==
  ASSUME IInv, Arrive
  PROVE  IInv'
<1>1. Comes("arrival") /\ UNCHANGED <<plan, carryover, rows>>
  BY DEF Arrive
<1>2. /\ Len(rows) < K /\ Sound(sim, customer) /\ sim.period \in 1 .. K
      /\ sim.agenda # <<>> /\ Head(sim.agenda).what = "arrival" /\ Head(sim.agenda).at < Hours
      /\ Clock(sim.period, sim.now) \in Nat
      /\ Clock(sim.period, sim.now) <= Clock(sim.period, Head(sim.agenda).at)
  BY <1>1, Underway
<1>3. PICK c : c = Len(customer) + 1
  OBVIOUS
<1>4. PICK gap \in Gaps : /\ customer' = Append(customer, NewCustomer(sim.period, Popped.now))
                          /\ sim' = Joined(NextArrival(Popped, gap), c)
                          /\ record' = Kept(record, Event(sim', "arrival", c, Never))
  BY <1>3 DEF Arrive
<1>5. DOMAIN Popped = Fields /\ Popped.period = sim.period /\ Popped.now = Head(sim.agenda).at
      /\ Popped.agenda = Tail(sim.agenda) /\ Popped.line = sim.line /\ Popped.users = sim.users /\ Popped.server = sim.server
  BY <1>2, PoppedIs DEF Sound
<1>6. Sound(Popped, customer)
  <2>1. Good(sim.period, Head(sim.agenda).at, Tail(sim.agenda), sim.line, sim.users, sim.server, customer)
    BY <1>2, ArrivalTaken DEF Sound
  <2> QED
    BY <1>2, <1>5, <2>1 DEF Sound
<1>7. PICK s : s = NextArrival(Popped, gap)
  OBVIOUS
<1>8. Sound(s, customer) /\ s.period = sim.period /\ s.now = Popped.now
  BY <1>5, <1>6, <1>7, NextArrivalSound DEF Alike
<1>9. plan \in [1 .. K -> Periods] /\ RecordOK(record, Clock(sim.period, sim.now))
  BY DEF IInv
<1>10. Sound(Joined(s, c), Append(customer, NewCustomer(s.period, s.now))) /\ Joined(s, c).period = s.period /\ Joined(s, c).now = s.now
  BY <1>3, <1>8, <1>9, JoinedSound
<1>11. Sound(sim', customer') /\ sim'.period = sim.period /\ sim'.now = Head(sim.agenda).at
  BY <1>4, <1>5, <1>7, <1>8, <1>10
<1>12. RecordOK(record', Clock(sim'.period, sim'.now))
  <2>1. c \in Nat
    BY <1>2, <1>3, GoodProperties DEF Sound
  <2>2. PICK e : e = Event(sim', "arrival", c, Never)
    OBVIOUS
  <2>3. Never \in Int
    BY DEF Never
  <2>4. sim'.period \in 1 .. K /\ sim'.now \in 0 .. Hours /\ sim'.line \in Seq(Nat)
    BY <1>11 DEF Sound, Good, Orderly, LineOK
  <2>5. e \in Marks /\ e.t = Clock(sim'.period, sim'.now)
    BY <2>1, <2>2, <2>3, <2>4, EventIs
  <2>6. Clock(sim.period, sim.now) <= e.t
    BY <1>2, <1>11, <2>5
  <2>7. RecordOK(Kept(record, e), e.t)
    BY <1>2, <1>9, <2>5, <2>6, KeptRecord
  <2> QED
    BY <1>4, <2>2, <2>5, <2>7
<1> QED
  BY <1>1, <1>2, <1>11, <1>12, PeriodLasts

\* The beginning of a service keeps the invariant: whoever is called is the first of those not begun.
LEMMA StartServiceKeeps ==
  ASSUME IInv, StartService
  PROVE  IInv'
<1>1. Comes("granted") /\ UNCHANGED <<plan, carryover, rows>>
  BY DEF StartService
<1>2. /\ Len(rows) < K /\ Sound(sim, customer) /\ sim.period \in 1 .. K
      /\ sim.agenda # <<>> /\ Head(sim.agenda).what = "granted" /\ Head(sim.agenda).at < Hours
      /\ Head(sim.agenda).at \in 0 .. Hours /\ sim.now \in 0 .. Hours
      /\ Clock(sim.period, sim.now) \in Nat
      /\ Clock(sim.period, sim.now) <= Clock(sim.period, Head(sim.agenda).at)
  BY <1>1, Underway
<1>3. PICK c : c = Head(sim.agenda).of
  OBVIOUS
<1>4. PICK s : s = Monitored(Popped, Popped.now)
  OBVIOUS
<1>5. PICK v : v = FreeServer(s)
  OBVIOUS
<1>6. PICK p : p = sim.period
  OBVIOUS
<1>7. PICK n \in Nat : n = plan[p].servers
  BY <1>2, <1>6, CountersNumber DEF IInv
<1>8. Good(p, sim.now, sim.agenda, sim.line, sim.users, sim.server, customer)
  BY <1>2, <1>6 DEF Sound
<1>9. AgendaOK(sim.agenda, sim.now, sim.users, sim.server) /\ CountersOK(sim.users, sim.server, n) /\ sim.now \in Nat /\ sim.line \in Seq(Nat)
  BY <1>7, <1>8, GoodProperties DEF Good, Orderly
<1>10. c \in sim.users /\ c \notin DOMAIN sim.server /\ Head(sim.agenda).at = sim.now /\ c \in Nat
  <2>1. Head(sim.agenda) \in Entries /\ Head(sim.agenda).of \in sim.users \ DOMAIN sim.server /\ Head(sim.agenda).at = sim.now
    BY <1>2, <1>9, TakenOut
  <2> QED
    BY <1>3, <2>1 DEF Entries
<1>11. /\ DOMAIN s = Fields /\ s.period = p /\ s.now = sim.now /\ s.agenda = Tail(sim.agenda) /\ s.line = sim.line
       /\ s.users = sim.users /\ s.server = sim.server
  <2>1. DOMAIN Popped = Fields /\ Popped.period = sim.period /\ Popped.now = Head(sim.agenda).at
        /\ Popped.agenda = Tail(sim.agenda) /\ Popped.line = sim.line /\ Popped.users = sim.users /\ Popped.server = sim.server
    BY <1>2, PoppedIs DEF Sound
  <2>2. Alike(s, Popped) /\ s.agenda = Popped.agenda
    BY <1>4, <2>1, MonitoredIs
  <2> QED
    BY <1>6, <1>10, <2>1, <2>2 DEF Alike
<1>12. v \in 0 .. n - 1 /\ v \notin Range(sim.server)
  <2>1. v = Lowest(Range(sim.server), n)
    BY <1>5, <1>7, <1>11 DEF FreeServer, Lowest
  <2> QED
    BY <1>9, <1>10, <2>1, LowestIsFree
<1>13. PICK start : start = Now.warmup
  OBVIOUS
<1>14. PICK served : served = IF s.now >= start THEN s.served + 1 ELSE s.served
  OBVIOUS
<1>15. PICK waits : waits = IF s.now >= start THEN s.waits + s.now - customer[c].arrival ELSE s.waits
  OBVIOUS
<1>16. PICK taken : taken = TakenBy(sim.server, c, v)
  OBVIOUS
<1>17. PICK u : u = [s EXCEPT !.server = taken, !.served = served, !.waits = waits]
  OBVIOUS
<1>18. /\ DOMAIN u = Fields /\ u.period = p /\ u.now = sim.now /\ u.agenda = Tail(sim.agenda) /\ u.line = sim.line
       /\ u.users = sim.users /\ u.server = taken
  BY <1>11, <1>17 DEF Fields
<1>19. PICK work \in Works :
         /\ sim' = Scheduled(u, sim.now + work, "end", c)
         /\ customer' = [customer EXCEPT ![c] = [@ EXCEPT !.start = sim.now, !.work = work]]
         /\ record' = Kept(record, Event(s, "service_start", c, v))
  <2>1. u = [s EXCEPT !.server = [d \in DOMAIN @ \cup {c} |-> IF d = c THEN v ELSE @[d]],
                      !.served = IF s.now >= start THEN @ + 1 ELSE @,
                      !.waits = IF s.now >= start THEN @ + s.now - customer[c].arrival ELSE @]
    BY <1>11, <1>14, <1>15, <1>16, <1>17 DEF TakenBy, Fields
  <2> QED
    BY <1>3, <1>4, <1>5, <1>11, <1>13, <2>1 DEF StartService
<1>20. work \in Nat
  BY SegmentAssumption
<1>21. Good(p, sim.now, Placed(Tail(sim.agenda), [at |-> sim.now + work, what |-> "end", of |-> c]), sim.line, sim.users, taken, customer')
  <2>1. v \in 0 .. plan[p].servers - 1 /\ plan[p].servers \in Nat /\ p \in 1 .. K
    BY <1>2, <1>6, <1>7, <1>12
  <2>2. Good(p, sim.now, Placed(Tail(sim.agenda), [at |-> sim.now + work, what |-> "end", of |-> c]), sim.line, sim.users,
             TakenBy(sim.server, c, v), StartedAt(customer, c, sim.now, work))
    BY <1>2, <1>3, <1>8, <1>12, <1>20, <2>1, ServiceStarted
  <2> QED
    BY <1>16, <1>19, <2>2 DEF StartedAt
<1>22. Sound(sim', customer') /\ sim'.period = p /\ sim'.now = sim.now
  <2>1. Alike(sim', u) /\ sim'.agenda = Placed(u.agenda, [at |-> sim.now + work, what |-> "end", of |-> c])
    BY <1>18, <1>19, ScheduledIs
  <2> QED
    BY <1>2, <1>6, <1>18, <1>21, <2>1 DEF Sound, Alike
<1>23. RecordOK(record', Clock(sim'.period, sim'.now))
  <2>1. PICK e : e = Event(s, "service_start", c, v)
    OBVIOUS
  <2>2. v \in Int /\ s.period \in 1 .. K /\ s.now \in 0 .. Hours /\ s.line \in Seq(Nat)
    BY <1>2, <1>6, <1>9, <1>11, <1>12
  <2>3. e \in Marks /\ e.t = Clock(s.period, s.now)
    BY <1>10, <2>1, <2>2, EventIs
  <2>4. e.t = Clock(sim.period, sim.now) /\ Clock(sim.period, sim.now) <= e.t
    BY <1>2, <1>6, <1>11, <2>3
  <2>5. RecordOK(Kept(record, e), e.t)
    BY <1>2, <2>3, <2>4, KeptRecord DEF IInv
  <2> QED
    BY <1>6, <1>19, <1>22, <2>1, <2>4, <2>5
<1> QED
  BY <1>1, <1>2, <1>6, <1>22, <1>23, PeriodLasts

\* The end of a service keeps the invariant: the counter it frees will be offered.
LEMMA EndServiceKeeps ==
  ASSUME IInv, EndService
  PROVE  IInv'
<1>1. Comes("end") /\ UNCHANGED <<plan, carryover, rows>> /\ customer' = customer
  BY DEF EndService
<1>2. /\ Len(rows) < K /\ Sound(sim, customer) /\ sim.period \in 1 .. K
      /\ sim.agenda # <<>> /\ Head(sim.agenda).what = "end" /\ Head(sim.agenda).at < Hours
      /\ Head(sim.agenda).at \in 0 .. Hours
      /\ Clock(sim.period, sim.now) \in Nat
      /\ Clock(sim.period, sim.now) <= Clock(sim.period, Head(sim.agenda).at)
  BY <1>1, Underway
<1>3. PICK c : c = Head(sim.agenda).of
  OBVIOUS
<1>4. PICK s : s = Monitored(Popped, Popped.now)
  OBVIOUS
<1>5. PICK p : p = sim.period
  OBVIOUS
<1>6. PICK t : t = Head(sim.agenda).at
  OBVIOUS
<1>7. plan[p].servers \in Nat /\ p \in 1 .. K
  BY <1>2, <1>5, CountersNumber DEF IInv
<1>8. Good(p, sim.now, sim.agenda, sim.line, sim.users, sim.server, customer)
  BY <1>2, <1>5 DEF Sound
<1>9. AgendaOK(sim.agenda, sim.now, sim.users, sim.server) /\ sim.now \in Nat /\ sim.line \in Seq(Nat)
      /\ CountersOK(sim.users, sim.server, plan[p].servers)
  BY <1>8, GoodProperties DEF Good, Orderly
<1>10. c \in Nat /\ c \in DOMAIN sim.server
  <2>1. Head(sim.agenda) \in Entries /\ Head(sim.agenda).of \in DOMAIN sim.server
    BY <1>2, <1>9, TakenOut
  <2> QED
    BY <1>3, <2>1 DEF Entries
<1>11. /\ DOMAIN s = Fields /\ s.period = p /\ s.now = t /\ s.agenda = Tail(sim.agenda) /\ s.line = sim.line
       /\ s.users = sim.users /\ s.server = sim.server
  <2>1. DOMAIN Popped = Fields /\ Popped.period = sim.period /\ Popped.now = Head(sim.agenda).at
        /\ Popped.agenda = Tail(sim.agenda) /\ Popped.line = sim.line /\ Popped.users = sim.users /\ Popped.server = sim.server
    BY <1>2, PoppedIs DEF Sound
  <2>2. Alike(s, Popped) /\ s.agenda = Popped.agenda
    BY <1>4, <2>1, MonitoredIs
  <2> QED
    BY <1>5, <1>6, <2>1, <2>2 DEF Alike
<1>12. PICK counters : counters = Restrict(sim.server, DOMAIN sim.server \ {c})
  OBVIOUS
<1>13. PICK free : free = [s EXCEPT !.users = sim.users \ {c}, !.server = counters]
  OBVIOUS
<1>14. /\ DOMAIN free = Fields /\ free.period = p /\ free.now = t /\ free.agenda = Tail(sim.agenda) /\ free.line = sim.line
       /\ free.users = sim.users \ {c} /\ free.server = counters
  BY <1>11, <1>13 DEF Fields
<1>15. sim' = Released(s, c) /\ record' = Kept(record, Event(s, "service_end", c, sim.server[c]))
  BY <1>3, <1>4 DEF EndService
<1>17. sim' = Scheduled(free, t, "released", 0)
  <2>1. free = [s EXCEPT !.users = @ \ {c}, !.server = Restrict(@, DOMAIN @ \ {c})]
    BY <1>11, <1>12, <1>13 DEF Fields
  <2> QED
    BY <1>11, <1>15, <2>1 DEF Released
<1>18. Sound(sim', customer') /\ sim'.period = p /\ sim'.now = t
  <2>1. Good(p, t, Placed(Tail(sim.agenda), [at |-> t, what |-> "released", of |-> 0]), sim.line, sim.users \ {c}, counters, customer)
    BY <1>2, <1>3, <1>6, <1>7, <1>8, <1>12, ServiceEnded
  <2>2. Alike(sim', free) /\ sim'.agenda = Placed(free.agenda, [at |-> t, what |-> "released", of |-> 0])
    BY <1>14, <1>17, ScheduledIs
  <2> QED
    BY <1>1, <1>7, <1>14, <2>1, <2>2 DEF Sound, Alike
<1>19. RecordOK(record', Clock(sim'.period, sim'.now))
  <2>1. PICK v : v = sim.server[c]
    OBVIOUS
  <2>2. v \in Int
    BY <1>7, <1>9, <1>10, <2>1 DEF CountersOK
  <2>3. PICK e : e = Event(s, "service_end", c, v)
    OBVIOUS
  <2>4. s.period \in 1 .. K /\ s.now \in 0 .. Hours /\ s.line \in Seq(Nat)
    BY <1>2, <1>6, <1>7, <1>9, <1>11
  <2>5. e \in Marks /\ e.t = Clock(s.period, s.now)
    BY <1>10, <2>2, <2>3, <2>4, EventIs
  <2>6. Clock(sim.period, sim.now) <= e.t
    BY <1>2, <1>5, <1>6, <1>11, <2>5
  <2>7. RecordOK(Kept(record, e), e.t)
    BY <1>2, <2>5, <2>6, KeptRecord DEF IInv
  <2> QED
    BY <1>11, <1>15, <1>18, <2>1, <2>3, <2>5, <2>7
<1> QED
  BY <1>1, <1>2, <1>5, <1>18, <1>19, PeriodLasts

\* Offering a released counter keeps the invariant: the head of the line has it, if it is still free.
LEMMA OfferCounterKeeps ==
  ASSUME IInv, OfferCounter
  PROVE  IInv'
<1>1. Comes("released") /\ UNCHANGED <<plan, carryover, rows, customer, record>> /\ sim' = Granted(Popped)
  BY DEF OfferCounter
<1>2. /\ Len(rows) < K /\ Sound(sim, customer) /\ sim.period \in 1 .. K
      /\ sim.agenda # <<>> /\ Head(sim.agenda).what = "released"
  BY <1>1, Underway
<1>3. DOMAIN Popped = Fields /\ Popped.period = sim.period /\ Popped.now = Head(sim.agenda).at
      /\ Popped.agenda = Tail(sim.agenda) /\ Popped.line = sim.line /\ Popped.users = sim.users /\ Popped.server = sim.server
  BY <1>2, PoppedIs DEF Sound
<1>4. /\ Head(sim.agenda).at = sim.now
      /\ Orderly(sim.period, sim.now, Tail(sim.agenda), sim.line, sim.users, sim.server, customer)
      /\ sim.line # <<>> => plan[sim.period].servers <= Cardinality(sim.users) + Offers(Tail(sim.agenda)) + 1
  BY <1>2, OfferTaken DEF Sound
<1>5. PICK s : s = Popped
  OBVIOUS
<1>6. Sound(Granted(s), customer) /\ Granted(s).period = s.period /\ Granted(s).now = s.now
  BY <1>2, <1>3, <1>4, <1>5, GrantedSound DEF IInv
<1>7. Sound(sim', customer') /\ sim'.period = sim.period /\ sim'.now = sim.now
  BY <1>1, <1>3, <1>4, <1>5, <1>6
<1>8. RecordOK(record', Clock(sim'.period, sim'.now))
  BY <1>1, <1>7 DEF IInv
<1> QED
  BY <1>1, <1>2, <1>7, <1>8, PeriodLasts

\* One more period is done.
LEMMA RowAdded ==
  ASSUME rows \in Seq(Range(rows)), NEW row
  PROVE  /\ Append(rows, row) \in Seq(Range(Append(rows, row)))
         /\ Len(Append(rows, row)) = Len(rows) + 1 /\ Len(rows) \in Nat
<1>1. PICK all : all = Range(rows) \cup {row}
  OBVIOUS
<1>2. PICK longer : longer = Append(rows, row)
  OBVIOUS
<1>3. Len(rows) \in Nat /\ DOMAIN rows = 1 .. Len(rows) /\ \A i \in 1 .. Len(rows) : rows[i] \in all
  BY <1>1, LenProperties DEF Range
<1>4. rows \in Seq(all)
  <2>1. rows \in [1 .. Len(rows) -> all]
    <3>1. rows \in [1 .. Len(rows) -> Range(rows)]
      BY LenProperties
    <3> QED
      BY <1>3, <3>1
  <2> QED
    BY <1>3, <2>1
<1>5. longer \in Seq(all) /\ Len(longer) = Len(rows) + 1 /\ longer[Len(rows) + 1] = row /\ \A i \in 1 .. Len(rows) : longer[i] = rows[i]
  BY <1>1, <1>2, <1>4, AppendProperties
<1>6. longer \in Seq(Range(longer))
  <2>1. DOMAIN longer = 1 .. Len(longer) /\ Len(longer) \in Nat /\ longer \in [1 .. Len(longer) -> all]
    BY <1>5, LenProperties
  <2>2. \A i \in 1 .. Len(longer) : longer[i] \in Range(longer)
    BY <2>1 DEF Range
  <2>3. longer \in [1 .. Len(longer) -> Range(longer)]
    BY <2>1, <2>2
  <2> QED
    BY <2>1, <2>3
<1> QED
  BY <1>2, <1>3, <1>5, <1>6

\* Whom a period leaves over can be counted.
LEMMA CarriedOver ==
  ASSUME IInv, Sound(sim, customer), NEW row,
         row = IF Skipped(sim.period, sim.left) THEN [NoRow EXCEPT !.status = IF plan[sim.period].supported THEN "NORMAL" ELSE @]
               ELSE RowOf(Monitored(sim, Hours))
  PROVE  Carry(row) \in Nat
<1>1. row.final \in Nat
  <2>1. CASE Skipped(sim.period, sim.left)
    <3>1. PICK status : status = IF plan[sim.period].supported THEN "NORMAL" ELSE NoRow.status
      OBVIOUS
    <3>2. row = [NoRow EXCEPT !.status = status]
      BY <2>1, <3>1 DEF NoRow
    <3> QED
      BY <3>2 DEF NoRow
  <2>2. CASE ~ Skipped(sim.period, sim.left)
    <3>1. PICK m : m = Monitored(sim, Hours)
      OBVIOUS
    <3>2. m.line = sim.line
      BY <3>1, MonitoredIs DEF Sound, Alike
    <3>3. Len(sim.line) \in Nat
      BY LenProperties DEF Sound, Good, Orderly, LineOK
    <3>4. row.final = Len(m.line)
      BY <2>2, <3>1 DEF RowOf
    <3> QED
      BY <3>2, <3>3, <3>4
  <2> QED
    BY <2>1, <2>2
<1> QED
  BY <1>1 DEF Carry

\* max(0, x) of an integer is a natural number.
LEMMA AtLeastNobody ==
  ASSUME NEW x \in Int
  PROVE  Max({0, x}) \in Nat
<1>1. \E m \in {0, x} : \A y \in {0, x} : m >= y
  <2>1. CASE x <= 0
    BY <2>1
  <2>2. CASE ~ (x <= 0)
    BY <2>2
  <2> QED
    BY <2>1, <2>2
<1>2. Max({0, x}) \in {0, x} /\ \A y \in {0, x} : Max({0, x}) >= y
  BY <1>1 DEF Max
<1> QED
  BY <1>2

\* Those left over are noted as they come.
Noted(s, l, n, carry) ==
  [i \in 1 .. carry |-> [Event(s, "arrival", l + i, Never) EXCEPT !.line = Max({0, i - n})]]

\* Noting the arrivals of a carried-over line keeps the record in order.
LEMMA ArrivalsNoted ==
  ASSUME NEW s, s.period \in 1 .. K, s.now \in 0 .. Hours, s.line \in Seq(Nat), NEW l \in Nat, NEW n \in Nat, NEW carry \in Nat,
         NEW t \in Nat, RecordOK(record, t), t <= Clock(s.period, s.now)
  PROVE  RecordOK(AllKept(record, Noted(s, l, n, carry)), Clock(s.period, s.now))
<1>1. PICK u \in Nat : u = Clock(s.period, s.now)
  BY ClockGrows
<1>0. PICK events : events = Noted(s, l, n, carry)
  OBVIOUS
<1>2. ASSUME NEW i \in 1 .. carry PROVE events[i] \in Marks /\ events[i].t = u
  <2>1. PICK e : e = Event(s, "arrival", l + i, Never)
    OBVIOUS
  <2>2. e \in Marks /\ e.t = u
    <3>1. l + i \in Nat /\ Never \in Int
      BY DEF Never
    <3> QED
      BY <1>1, <2>1, <3>1, EventIs
  <2>3. PICK x \in Int : x = i - n
    OBVIOUS
  <2>4. PICK m \in Nat : m = Max({0, x})
    BY AtLeastNobody
  <2>5. events[i] = [e EXCEPT !.line = m]
    BY <1>0, <2>1, <2>3, <2>4 DEF Noted
  <2> QED
    BY <2>2, <2>5 DEF Marks
<1>3. DOMAIN events = 1 .. carry
  BY <1>0 DEF Noted
<1>4. events \in Seq(Marks)
  <2>0. events = [i \in 1 .. carry |-> events[i]]
    BY <1>0 DEF Noted
  <2>1. events \in [1 .. carry -> Marks]
    BY <1>2, <2>0
  <2> QED
    BY <2>1
<1> QED
  BY <1>0, <1>1, <1>2, <1>3, <1>4, AllKeptRecord

\* Closing a period, and beginning the next one, keeps the invariant.
LEMMA ClosePeriodKeeps ==
  ASSUME IInv, ClosePeriod
  PROVE  IInv'
<1>1. Len(rows) < K /\ UNCHANGED <<plan, carryover>> /\ plan \in [1 .. K -> Periods]
  BY DEF ClosePeriod, IInv
<1>2. PICK p : p = sim.period
  OBVIOUS
<1>3. Sound(sim, customer) /\ p = Len(rows) + 1 /\ p \in 1 .. K /\ sim.now \in 0 .. Hours /\ K \in Nat
  BY <1>1, <1>2, SegmentAssumption DEF IInv
<1>4. PICK row : /\ row = IF Skipped(sim.period, sim.left) THEN [NoRow EXCEPT !.status = IF plan[sim.period].supported THEN "NORMAL" ELSE @]
                          ELSE RowOf(Monitored(sim, Hours))
                /\ rows' = Append(rows, row)
                /\ Begin(sim.period + 1, Carry(row))
  BY DEF ClosePeriod
<1>5. PICK carry \in Nat : carry = Carry(row)
  BY <1>3, <1>4, CarriedOver
<1>6. rows' \in Seq(Range(rows')) /\ Len(rows') = p /\ Len(rows') <= K
  <2>1. /\ Append(rows, row) \in Seq(Range(Append(rows, row)))
        /\ Len(Append(rows, row)) = Len(rows) + 1 /\ Len(rows) \in Nat
    BY RowAdded DEF IInv
  <2> QED
    BY <1>3, <1>4, <2>1
<1>7. Good(p, sim.now, sim.agenda, sim.line, sim.users, sim.server, customer)
  BY <1>2, <1>3 DEF Sound
<1>8. PICK l \in Nat : l = Len(customer)
  BY <1>7, GoodProperties
<1>9. Before(p + 1, customer, l)
  <2>1. \A c \in DOMAIN customer : customer[c].period < p + 1
    <3>1. \A c \in DOMAIN customer : customer[c].period \in 1 .. K
      BY <1>7, GoodProperties
    <3>2. \A c \in DOMAIN customer : customer[c].period <= p
      BY <1>7 DEF Good, Orderly, PeopleOK
    <3> QED
      BY <1>3, <3>1, <3>2
  <2> QED
    BY <1>7, <1>8, <2>1 DEF Good, Orderly, PeopleOK, Before
<1>10. PICK t \in Nat : t = Clock(p, sim.now)
  BY <1>3, ClockGrows
<1>11. RecordOK(record, t)
  BY <1>2, <1>10 DEF IInv
<1>12. 0 \in 0 .. Hours /\ Hours \in 0 .. Hours /\ Hours \in Nat
  BY SegmentAssumption
<1>13. CASE p + 1 > K
  <2>1. p = K
    BY <1>3, <1>13
  <2>2. sim' = [Empty(K) EXCEPT !.now = Hours] /\ customer' = customer /\ record' = record
    BY <1>2, <1>4, <1>13 DEF Begin
  <2>3. /\ DOMAIN sim' = Fields /\ sim'.period = K /\ sim'.now = Hours /\ sim'.agenda = <<>> /\ sim'.line = <<>>
        /\ sim'.server = <<>>
    BY <2>2 DEF Empty, Fields
  <2>4. InOrder(customer')
    BY <1>9, <2>2 DEF Before
  <2>5. RecordOK(record', Clock(sim'.period, sim'.now))
    <3>1. PICK u \in Nat : u = Clock(p, Hours)
      BY <1>3, <1>12, ClockGrows
    <3>2. t <= u
      BY <1>3, <1>10, <1>12, <3>1, ClockGrows
    <3>3. RecordOK(record, u)
      BY <1>11, <3>2, RecordStays
    <3> QED
      BY <2>1, <2>2, <2>3, <3>1, <3>3
  <2>6. sim'.period \in 1 .. K /\ ~ (Len(rows') < K)
    BY <1>3, <1>6, <2>1, <2>3
  <2> QED
    BY <1>1, <1>6, <1>12, <2>3, <2>4, <2>5, <2>6, Carried
<1>14. CASE ~ (p + 1 > K)
  <2>1. PICK k \in 1 .. K : k = p + 1
    BY <1>3, <1>14
  <2>2. Len(rows') < K /\ Len(rows') + 1 = k /\ Len(rows') # K /\ ~ (k > K)
    BY <1>3, <1>6, <1>14, <2>1
  <2>3. Before(k, customer, l) /\ Begin(k, carry)
    BY <1>2, <1>4, <1>5, <1>9, <2>1
  <2>4. PICK u \in Nat : u = Clock(k, 0)
    BY <1>12, ClockGrows
  <2>5. t <= u
    BY <1>3, <1>10, <2>1, <2>4, ClockGrows
  <2>6. SUFFICES Sound(sim', customer') /\ sim'.period = k /\ RecordOK(record', Clock(sim'.period, sim'.now))
    <3>1. ASSUME Sound(sim', customer') PROVE DOMAIN sim' = Fields /\ sim'.period \in 1 .. K /\ sim'.now \in 0 .. Hours
      BY <3>1 DEF Sound, Good, Orderly
    <3> QED
      BY <1>1, <1>6, <2>2, <3>1, Carried
  <2>7. CASE Skipped(k, carry)
    <3>1. sim' = [Empty(k) EXCEPT !.now = Hours] /\ customer' = customer /\ record' = record
      BY <2>2, <2>3, <2>7 DEF Begin
    <3>2. Sound(sim', customer')
      BY <1>1, <1>12, <2>3, <3>1, EmptySound
    <3>3. sim'.period = k /\ sim'.now = Hours
      BY <3>1 DEF Empty
    <3>4. PICK w \in Nat : w = Clock(k, Hours)
      BY <1>12, ClockGrows
    <3>5. u <= w
      BY <1>12, <2>4, <3>4, ClockGrows
    <3>6. RecordOK(record, w)
      BY <1>11, <2>5, <3>5, RecordStays
    <3> QED
      BY <3>1, <3>2, <3>3, <3>4, <3>6
  <2>8. CASE ~ Skipped(k, carry)
    <3>1. PICK events : events = [i \in 1 .. carry |-> [Event(sim', "arrival", l + i, Never) EXCEPT !.line = Max({0, i - plan[k].servers})]]
      OBVIOUS
    <3>2. PICK gap \in Gaps : /\ sim' = Begun(k, carry, gap)
                              /\ customer' = customer \o [i \in 1 .. carry |-> NewCustomer(k, 0)]
                              /\ record' = AllKept(record, events)
      BY <1>8, <2>2, <2>3, <2>8, <3>1 DEF Begin
    <3>3. customer' = customer \o Newcomers(k, carry)
      BY <3>2 DEF Newcomers
    <3>4. Sound(Begun(k, carry, gap), customer \o Newcomers(k, carry)) /\ Begun(k, carry, gap).period = k /\ Begun(k, carry, gap).now = 0
      BY <1>1, <1>8, <2>3, BegunSound
    <3>5. Sound(sim', customer') /\ sim'.period = k /\ sim'.now = 0
      BY <3>2, <3>3, <3>4
    <3>6. plan[k].servers \in Nat
      BY <1>1, CountersNumber
    <3>7. RecordOK(AllKept(record, events), Clock(sim'.period, sim'.now))
      <4>1. PICK s : s = sim'
        OBVIOUS
      <4>2. s.period \in 1 .. K /\ s.now \in 0 .. Hours /\ s.line \in Seq(Nat) /\ Clock(s.period, s.now) = u
        BY <2>4, <3>5, <4>1 DEF Sound, Good, Orderly, LineOK
      <4>3. PICK n \in Nat : n = plan[k].servers
        BY <3>6
      <4>4. events = Noted(s, l, n, carry)
        BY <3>1, <4>1, <4>3 DEF Noted
      <4>5. RecordOK(AllKept(record, events), Clock(s.period, s.now))
        BY <1>11, <2>5, <4>2, <4>4, ArrivalsNoted
      <4> QED
        BY <4>1, <4>5
    <3> QED
      BY <3>2, <3>5, <3>7
  <2> QED
    BY <2>7, <2>8
<1> QED
  BY <1>13, <1>14

\* The day begins with nobody.
LEMMA BeginsWell ==
  ASSUME Init
  PROVE  IInv
<1>1. plan \in [1 .. K -> Periods] /\ carryover \in BOOLEAN /\ rows = <<>> /\ customer = <<>> /\ record = [events |-> <<>>, truncated |-> FALSE]
  BY DEF Init
<1>2. 1 \in 1 .. K /\ K \in Nat /\ 0 < K /\ 0 \in 0 .. Hours /\ Hours \in 0 .. Hours /\ MaxEvents \in Nat
  BY SegmentAssumption
<1>3. Len(customer) = 0 /\ Len(rows) = 0 /\ DOMAIN customer = {} /\ customer \in Seq(CustomerRows)
  BY <1>1
<1>4. Before(1, customer, 0)
  BY <1>3 DEF Before, InOrder
<1>5. PICK gap \in Gaps : sim = IF Skipped(1, 0) THEN [Empty(1) EXCEPT !.now = Hours] ELSE NextArrival(Empty(1), gap)
  BY DEF Init
<1>6. Sound(sim, customer) /\ sim.period = 1
  <2>1. CASE Skipped(1, 0)
    <3>1. sim = [Empty(1) EXCEPT !.now = Hours]
      BY <1>5, <2>1
    <3>2. Sound(sim, customer)
      BY <1>1, <1>2, <1>4, <3>1, EmptySound
    <3> QED
      BY <3>1, <3>2 DEF Empty
  <2>2. CASE ~ Skipped(1, 0)
    <3>1. PICK s : s = [Empty(1) EXCEPT !.now = 0]
      OBVIOUS
    <3>2. s = Empty(1) /\ s.period = 1
      BY <3>1 DEF Empty
    <3>3. Sound(s, customer)
      BY <1>1, <1>2, <1>4, <3>1, EmptySound
    <3>4. sim = NextArrival(s, gap)
      BY <1>5, <2>2, <3>2
    <3>5. Sound(NextArrival(s, gap), customer) /\ Alike(NextArrival(s, gap), s)
      BY <3>3, NextArrivalSound
    <3> QED
      BY <3>2, <3>4, <3>5 DEF Alike
  <2> QED
    BY <2>1, <2>2
<1>7. DOMAIN sim = Fields /\ sim.period \in 1 .. K /\ sim.now \in 0 .. Hours
  BY <1>6 DEF Sound, Good, Orderly
<1>8. RecordOK(record, Clock(sim.period, sim.now))
  <2>1. record \in [events : Seq(Marks), truncated : BOOLEAN] /\ record.events = <<>> /\ ~ record.truncated
    BY <1>1
  <2>2. DOMAIN record.events = {} /\ Len(record.events) = 0
    BY <2>1
  <2> QED
    BY <1>2, <2>1, <2>2 DEF RecordOK
<1>9. rows \in Seq(Range(rows))
  BY <1>1
<1> QED
  BY <1>1, <1>2, <1>3, <1>6, <1>7, <1>8, <1>9 DEF IInv

\* Every step keeps the invariant.
LEMMA StepKeeps ==
  ASSUME IInv, [Next]_vars
  PROVE  IInv'
<1>1. CASE Arrive
  BY <1>1, ArriveKeeps
<1>2. CASE StartService
  BY <1>2, StartServiceKeeps
<1>3. CASE EndService
  BY <1>3, EndServiceKeeps
<1>6. CASE OfferCounter
  BY <1>6, OfferCounterKeeps
<1>4. CASE ClosePeriod
  BY <1>4, ClosePeriodKeeps
<1>5. CASE UNCHANGED vars
  <2>1. plan' = plan /\ carryover' = carryover /\ sim' = sim /\ customer' = customer /\ rows' = rows /\ record' = record
    BY <1>5 DEF vars
  <2>2. DOMAIN sim' = Fields /\ sim'.period \in 1 .. K /\ sim'.now \in 0 .. Hours /\ rows' \in Seq(Range(rows')) /\ Len(rows') <= K
    BY <2>1 DEF IInv
  <2>3. /\ Len(rows') < K => sim'.period = Len(rows') + 1 /\ Sound(sim', customer')
        /\ RecordOK(record', Clock(sim'.period, sim'.now))
    BY <2>1 DEF IInv
  <2>4. Len(rows') = K => /\ sim'.period = K /\ sim'.agenda = <<>> /\ sim'.line = <<>> /\ sim'.server = <<>>
                          /\ InOrder(customer')
    BY <2>1 DEF IInv, Idle
  <2> QED
    BY <2>1, <2>2, <2>3, <2>4, Carried
<1> QED
  BY <1>1, <1>2, <1>3, <1>4, <1>5, <1>6 DEF Next

\* The invariant implies the property.
LEMMA LineInOrder ==
  ASSUME IInv
  PROVE  LineMovesInOrder
<1>1. InOrder(customer)
  <2>1. Len(rows) \in Nat /\ Len(rows) <= K /\ K \in Nat
    BY SegmentAssumption, LenProperties DEF IInv
  <2>2. CASE Len(rows) < K
    BY <2>2 DEF IInv, Sound, Good, Orderly, PeopleOK
  <2>3. CASE Len(rows) = K
    BY <2>3 DEF IInv, Idle
  <2> QED
    BY <2>1, <2>2, <2>3
<1>2. /\ sim.line # <<>> =>
           Cardinality({i \in DOMAIN sim.agenda : sim.agenda[i].what = "released" /\ sim.agenda[i].at = sim.now})
             >= Now.servers - Cardinality(sim.users)
      /\ IsInjective(sim.server) /\ Range(sim.server) \subseteq 0 .. Now.servers - 1
  <2>1. Len(rows) \in Nat /\ Len(rows) <= K /\ K \in Nat
    BY SegmentAssumption, LenProperties DEF IInv
  <2>2. CASE Len(rows) < K
    <3>1. CountersOK(sim.users, sim.server, Now.servers) /\ Manned(sim.agenda, sim.line, sim.users, Now.servers)
          /\ AgendaOK(sim.agenda, sim.now, sim.users, sim.server)
      BY <2>2 DEF IInv, Sound, Good, Orderly, Now
    <3>2. {i \in DOMAIN sim.agenda : sim.agenda[i].what = "released" /\ sim.agenda[i].at = sim.now} = Named(sim.agenda, "released")
      BY <3>1 DEF AgendaOK, Named
    <3>3. Now.servers \in Nat /\ Cardinality(sim.users) \in Nat /\ Offers(sim.agenda) \in Nat
      <4>1. PICK x \in Entries : x = [at |-> 0, what |-> "released", of |-> 0]
        BY DEF Entries, Kinds
      <4>2. Now.servers \in Nat
        BY CountersNumber DEF IInv, Now
      <4> QED
        BY <3>1, <4>1, <4>2, PlacedOffers, FS_CardinalityType DEF CountersOK
    <3>4. sim.line # <<>> => Offers(sim.agenda) >= Now.servers - Cardinality(sim.users)
      BY <3>1, <3>3 DEF Manned
    <3> QED
      BY <3>1, <3>2, <3>4 DEF CountersOK, Range, Offers
  <2>3. CASE Len(rows) = K
    <3>1. sim.line = <<>> /\ sim.server = <<>>
      BY <2>3 DEF IInv, Idle
    <3>2. DOMAIN sim.server = {}
      BY <3>1
    <3> QED
      BY <3>1, <3>2 DEF IsInjective, Range
  <2> QED
    BY <2>1, <2>2, <2>3
<1>3. /\ \A i, j \in DOMAIN record.events : i < j => record.events[i].t <= record.events[j].t
      /\ record.truncated => Len(record.events) = MaxEvents
  BY DEF IInv, RecordOK
<1> QED
  BY <1>1, <1>2, <1>3 DEF LineMovesInOrder, InOrder, Of

\* Whatever the periods asked for and the times drawn, customers of a period begin service in the order they came in,
\* a counter that nobody has while somebody stands in line is being offered in that very instant, those in service
\* have a counter each, and the record is a beginning of the day in the order of time (_customer_process, _QueueMonitor, _TraceRecorder, _simulate_segments_core).
THEOREM LineAlwaysMoves == Spec => []LineMovesInOrder
<1>1. Init => IInv
  BY BeginsWell
<1>2. IInv /\ [Next]_vars => IInv'
  BY StepKeeps
<1>3. IInv => LineMovesInOrder
  BY LineInOrder
<1> QED
  BY <1>1, <1>2, <1>3, PTL DEF Spec
-----------------------------------------------------------------------------
(* Sums *)

\* What the fold of SumFunction says of its function h on the sets in dom.
SumsUp(h, f, dom) ==
  h = [s \in dom |-> IF s = {} THEN 0 ELSE f[CHOOSE x \in s : TRUE] + h[s \ {CHOOSE x \in s : TRUE}]]

\* The sets of at most n members of S.
Few(S, n) == {s \in SUBSET S : Cardinality(s) <= n}

\* Taking one away makes fewer.
LEMMA OneFewer ==
  ASSUME NEW S, IsFiniteSet(S), NEW s \in SUBSET S, NEW x \in s
  PROVE  /\ s \ {x} \in SUBSET S /\ IsFiniteSet(s)
         /\ Cardinality(s \ {x}) = Cardinality(s) - 1
         /\ Cardinality(s) \in Nat \ {0}
<1>1. IsFiniteSet(s)
  BY FS_Subset
<1>2. Cardinality(s \ {x}) = Cardinality(s) - 1
  BY <1>1, FS_RemoveElement
<1>3. Cardinality(s) \in Nat /\ Cardinality(s) # 0
  BY <1>1, FS_CardinalityType, FS_EmptySet
<1> QED
  BY <1>1, <1>2, <1>3

\* Every subset is among those of as many members as the whole.
LEMMA AllAreFew ==
  ASSUME NEW S, IsFiniteSet(S)
  PROVE  Cardinality(S) \in Nat /\ Few(S, Cardinality(S)) = SUBSET S
BY FS_CardinalityType, FS_Subset DEF Few

\* There is such a function.
LEMMA SumExists ==
  ASSUME NEW f, IsFiniteSet(DOMAIN f)
  PROVE  \E h : SumsUp(h, f, SUBSET DOMAIN f)
<1>0. PICK S : S = DOMAIN f
  OBVIOUS
<1> DEFINE Bad == {n \in Nat : ~\E h : SumsUp(h, f, Few(S, n))}
<1>1. Bad = {}
  <2> SUFFICES ASSUME Bad # {} PROVE FALSE
    OBVIOUS
  <2>1. PICK m \in Bad : \A k \in Bad : m <= k
    BY LeastNumber
  <2>2. m \in Nat /\ ~\E h : SumsUp(h, f, Few(S, m))
    OBVIOUS
  <2>3. CASE m = 0
    <3>1. \A s \in Few(S, 0) : s = {}
      BY <1>0, FS_Subset, FS_CardinalityType, FS_EmptySet DEF Few
    <3> DEFINE h == [s \in Few(S, 0) |-> 0]
    <3>2. h = [s \in Few(S, 0) |-> IF s = {} THEN 0 ELSE f[CHOOSE x \in s : TRUE] + h[s \ {CHOOSE x \in s : TRUE}]]
      BY <3>1
    <3>3. SumsUp(h, f, Few(S, 0))
      BY <3>2 DEF SumsUp
    <3> QED
      BY <2>2, <2>3, <3>3
  <2>4. CASE m # 0
    <3>1. m - 1 \in Nat /\ m - 1 \notin Bad
      BY <2>1, <2>2, <2>4
    <3>2. PICK g : SumsUp(g, f, Few(S, m - 1))
      BY <3>1
    <3> DEFINE Pick(s) == CHOOSE x \in s : TRUE
               Stepped(s, a) == IF s = {} THEN 0 ELSE f[Pick(s)] + a[s \ {Pick(s)}]
               h == [s \in Few(S, m) |-> Stepped(s, g)]
    <3>3. \A s \in Few(S, m - 1) : g[s] = Stepped(s, g)
      BY <3>2 DEF SumsUp
    <3>4. \A s \in Few(S, m - 1) : s \in Few(S, m) /\ h[s] = g[s]
      <4>1. ASSUME NEW s \in Few(S, m - 1) PROVE s \in Few(S, m)
        BY <1>0, <3>1, <2>2, FS_Subset, FS_CardinalityType DEF Few
      <4> HIDE DEF Stepped
      <4> QED
        BY <4>1, <3>3
    <3>5. ASSUME NEW s \in Few(S, m), s # {} PROVE s \ {Pick(s)} \in Few(S, m - 1)
      <4>0. PICK x : x = Pick(s)
        OBVIOUS
      <4>1. s \in SUBSET S /\ Cardinality(s) <= m
        BY DEF Few
      <4>2. x \in s
        BY <3>5, <4>0
      <4>3. s \ {x} \in SUBSET S /\ Cardinality(s \ {x}) = Cardinality(s) - 1 /\ Cardinality(s) \in Nat \ {0}
        BY <1>0, <4>1, <4>2, OneFewer
      <4>4. Cardinality(s \ {x}) <= m - 1
        BY <4>1, <4>3, <2>2
      <4>5. s \ {x} \in Few(S, m - 1)
        BY <4>3, <4>4 DEF Few
      <4> HIDE DEF Pick
      <4> QED
        BY <4>0, <4>5
    <3>6. ASSUME NEW s \in Few(S, m) PROVE h[s] = Stepped(s, h)
      <4>1. h[s] = Stepped(s, g)
        OBVIOUS
      <4>2. s # {} => h[s \ {Pick(s)}] = g[s \ {Pick(s)}]
        BY <3>4, <3>5
      <4> HIDE DEF h, Pick
      <4> QED
        BY <4>1, <4>2
    <3>7. SumsUp(h, f, Few(S, m))
      <4>1. h = [s \in Few(S, m) |-> h[s]]
        OBVIOUS
      <4>2. h = [s \in Few(S, m) |-> Stepped(s, h)]
        <5> HIDE DEF h, Stepped
        <5> QED
          BY <4>1, <3>6, Zenon
      <4> HIDE DEF h
      <4> QED
        BY <4>2 DEF SumsUp
    <3> QED
      BY <2>2, <3>7
  <2> QED
    BY <2>3, <2>4
<1>2. Few(S, Cardinality(S)) = SUBSET S /\ Cardinality(S) \in Nat
  BY <1>0, AllAreFew
<1>3. \A n \in Nat : \E h : SumsUp(h, f, Few(S, n))
  BY <1>1
<1> HIDE DEF Bad
<1> QED
  BY <1>0, <1>2, <1>3

\* SumFunction is the value of such a function.
LEMMA SumIs ==
  ASSUME NEW f, IsFiniteSet(DOMAIN f)
  PROVE  \E h : SumsUp(h, f, SUBSET DOMAIN f) /\ SumFunction(f) = h[DOMAIN f]
<1> DEFINE H == CHOOSE h : SumsUp(h, f, SUBSET DOMAIN f)
<1>1. SumsUp(H, f, SUBSET DOMAIN f)
  BY SumExists
<1>2. SumFunction(f) = H[DOMAIN f]
  BY DEF SumFunction, SumFunctionOnSet, FoldFunctionOnSet, MapThenFoldSet, SumsUp
<1> HIDE DEF H
<1> QED
  BY <1>1, <1>2

\* The sums over the sets in dom are numbers, and any one of a set may be added last.
Adds(h, f, dom) ==
  \A s \in dom : h[s] \in Int /\ (s = {} => h[s] = 0) /\ \A x \in s : h[s] = f[x] + h[s \ {x}]

\* It does not matter in which order they are added.
LEMMA AnyOrder ==
  ASSUME NEW f, IsFiniteSet(DOMAIN f), \A x \in DOMAIN f : f[x] \in Int, NEW h, SumsUp(h, f, SUBSET DOMAIN f)
  PROVE  Adds(h, f, SUBSET DOMAIN f)
<1>0. PICK S : S = DOMAIN f
  OBVIOUS
<1>a. IsFiniteSet(S) /\ \A x \in S : f[x] \in Int
  BY <1>0
<1> DEFINE Bad == {n \in Nat : ~Adds(h, f, Few(S, n))}
<1>1. ASSUME NEW s \in SUBSET S, s # {}
      PROVE  \E c \in s : h[s] = f[c] + h[s \ {c}]
  <2>1. h[s] = f[CHOOSE x \in s : TRUE] + h[s \ {CHOOSE x \in s : TRUE}]
    <3>1. h = [z \in SUBSET S |-> IF z = {} THEN 0 ELSE f[CHOOSE x \in z : TRUE] + h[z \ {CHOOSE x \in z : TRUE}]]
      BY <1>0 DEF SumsUp
    <3>2. h[s] = IF s = {} THEN 0 ELSE f[CHOOSE x \in s : TRUE] + h[s \ {CHOOSE x \in s : TRUE}]
      BY <3>1, Zenon
    <3> QED
      BY <1>1, <3>2, Zenon
  <2>2. (CHOOSE x \in s : TRUE) \in s
    BY <1>1
  <2> QED
    BY <2>1, <2>2
<1>2. h[{}] = 0
  BY <1>0 DEF SumsUp
<1>3. Bad = {}
  <2> SUFFICES ASSUME Bad # {} PROVE FALSE
    OBVIOUS
  <2>1. PICK m \in Bad : \A k \in Bad : m <= k
    BY LeastNumber
  <2>2. m \in Nat /\ ~Adds(h, f, Few(S, m))
    OBVIOUS
  <2>3. ASSUME NEW s \in Few(S, m)
        PROVE  h[s] \in Int /\ (s = {} => h[s] = 0) /\ \A x \in s : h[s] = f[x] + h[s \ {x}]
    <3>1. CASE s = {}
      BY <1>2, <3>1
    <3>2. CASE s # {}
      <4>1. s \in SUBSET S /\ Cardinality(s) <= m
        BY DEF Few
      <4>2. ASSUME NEW x \in s
            PROVE  s \ {x} \in SUBSET S /\ Cardinality(s \ {x}) = Cardinality(s) - 1 /\ Cardinality(s) \in Nat \ {0}
        <5>1. s \in SUBSET S /\ IsFiniteSet(S) /\ x \in s
          BY <1>a, <4>1
        <5>2. /\ s \ {x} \in SUBSET S /\ IsFiniteSet(s)
              /\ Cardinality(s \ {x}) = Cardinality(s) - 1
              /\ Cardinality(s) \in Nat \ {0}
          BY <5>1, OneFewer
        <5> QED
          BY <5>2
      <4>3. m - 1 \in Nat
        <5>1. PICK x \in s : TRUE
          BY <3>2
        <5>2. Cardinality(s) \in Nat \ {0}
          BY <4>2, <5>1
        <5>3. m \in Nat /\ Cardinality(s) <= m
          BY <2>2, <4>1
        <5> QED
          BY <5>2, <5>3
      <4>4. Adds(h, f, Few(S, m - 1))
        <5>1. m - 1 \notin Bad
          BY <2>1, <2>2, <4>3
        <5> QED
          BY <4>3, <5>1
      <4>5. \A x \in s : s \ {x} \in Few(S, m - 1)
        BY <2>2, <4>1, <4>2 DEF Few
      <4>6. PICK c \in s : h[s] = f[c] + h[s \ {c}]
        BY <1>1, <3>2, <4>1
      <4>7. h[s] \in Int
        BY <1>a, <4>1, <4>4, <4>5, <4>6 DEF Adds
      <4>8. ASSUME NEW x \in s PROVE h[s] = f[x] + h[s \ {x}]
        <5>1. CASE x = c
          BY <4>6, <5>1
        <5>2. CASE x # c
          <6>1. x \in s \ {c} /\ c \in s \ {x} /\ (s \ {c}) \ {x} = (s \ {x}) \ {c}
            BY <5>2
          <6>2. h[s \ {c}] = f[x] + h[(s \ {c}) \ {x}] /\ h[s \ {x}] = f[c] + h[(s \ {x}) \ {c}]
            <7>1. PICK u, v : u = s \ {c} /\ v = s \ {x}
              OBVIOUS
            <7>2. u \in Few(S, m - 1) /\ v \in Few(S, m - 1) /\ x \in u /\ c \in v
              BY <4>5, <6>1, <7>1
            <7>3. h[u] = f[x] + h[u \ {x}] /\ h[v] = f[c] + h[v \ {c}]
              BY <4>4, <7>2 DEF Adds
            <7> QED
              BY <7>1, <7>3
          <6>3. (s \ {c}) \ {x} \in Few(S, m - 1)
            <7>0. PICK u : u = s \ {c}
              OBVIOUS
            <7>1. u \in SUBSET S /\ x \in u /\ Cardinality(u) = Cardinality(s) - 1 /\ Cardinality(s) \in Nat
              BY <4>2, <6>1, <7>0
            <7>2. u \ {x} \in SUBSET S /\ Cardinality(u \ {x}) = Cardinality(u) - 1
              BY <1>a, <7>1, OneFewer
            <7>3. Cardinality(u \ {x}) <= m - 1
              BY <2>2, <4>1, <7>1, <7>2
            <7> QED
              BY <7>0, <7>2, <7>3 DEF Few
          <6>4. PICK a : a = h[(s \ {c}) \ {x}]
            OBVIOUS
          <6>5. a \in Int
            BY <4>4, <6>3, <6>4 DEF Adds
          <6>6. h[s] = f[c] + (f[x] + a) /\ h[s \ {x}] = f[c] + a
            BY <4>6, <6>1, <6>2, <6>4
          <6>7. f[c] \in Int /\ f[x] \in Int
            BY <1>a, <4>1
          <6> QED
            BY <6>5, <6>6, <6>7
        <5> QED
          BY <5>1, <5>2
      <4> QED
        BY <3>2, <4>7, <4>8
    <3> QED
      BY <3>1, <3>2
  <2> QED
    BY <2>2, <2>3 DEF Adds
<1>4. Few(S, Cardinality(S)) = SUBSET S /\ Cardinality(S) \in Nat
  BY <1>0, AllAreFew
<1>5. \A n \in Nat : Adds(h, f, Few(S, n))
  BY <1>3
<1> HIDE DEF Bad
<1> QED
  BY <1>0, <1>4, <1>5

\* A sum over nothing is zero; that of a function is one value more than that of the rest.
LEMMA SumStep ==
  ASSUME NEW f, IsFiniteSet(DOMAIN f), \A x \in DOMAIN f : f[x] \in Int
  PROVE  /\ SumFunction(f) \in Int
         /\ DOMAIN f = {} => SumFunction(f) = 0
         /\ \A x \in DOMAIN f : SumFunction(f) = f[x] + SumFunction([y \in DOMAIN f \ {x} |-> f[y]])
<1>1. PICK S : S = DOMAIN f
  OBVIOUS
<1>2. PICK h : SumsUp(h, f, SUBSET S) /\ SumFunction(f) = h[S]
  BY <1>1, SumIs
<1>3. Adds(h, f, SUBSET S) /\ IsFiniteSet(S) /\ S \in SUBSET S
  BY <1>1, <1>2, AnyOrder
<1>4. SumFunction(f) \in Int /\ (S = {} => SumFunction(f) = 0)
  BY <1>2, <1>3 DEF Adds
<1>5. ASSUME NEW x \in S
      PROVE  SumFunction(f) = f[x] + SumFunction([y \in S \ {x} |-> f[y]])
  <2>1. PICK g : g = [y \in S \ {x} |-> f[y]]
    OBVIOUS
  <2>2. PICK R : R = S \ {x}
    OBVIOUS
  <2>3. /\ DOMAIN g = R /\ IsFiniteSet(R) /\ R \in SUBSET S /\ R \in SUBSET R
        /\ \A y \in R : g[y] = f[y] /\ g[y] \in Int
    BY <1>1, <1>3, <2>1, <2>2, FS_Subset
  <2>4. PICK k : SumsUp(k, g, SUBSET R) /\ SumFunction(g) = k[R]
    BY <2>3, SumIs
  <2>5. Adds(k, g, SUBSET R)
    BY <2>3, <2>4, AnyOrder
  <2> DEFINE Bad == {n \in Nat : \E s \in Few(R, n) : h[s] # k[s]}
  <2>6. Bad = {}
    <3> SUFFICES ASSUME Bad # {} PROVE FALSE
      OBVIOUS
    <3>1. PICK m \in Bad : \A b \in Bad : m <= b
      BY LeastNumber
    <3>2. PICK s \in Few(R, m) : h[s] # k[s]
      OBVIOUS
    <3>3. m \in Nat /\ s \in SUBSET R /\ s \in SUBSET S /\ Cardinality(s) <= m
      BY <2>3 DEF Few
    <3>4. s # {}
      BY <1>3, <2>5, <3>2, <3>3 DEF Adds
    <3>5. PICK c \in s : TRUE
      BY <3>4
    <3>6. s \ {c} \in SUBSET R /\ Cardinality(s \ {c}) = Cardinality(s) - 1 /\ Cardinality(s) \in Nat \ {0}
      BY <2>3, <3>3, <3>5, OneFewer
    <3>7. m - 1 \in Nat /\ s \ {c} \in Few(R, m - 1)
      BY <3>3, <3>6 DEF Few
    <3>8. h[s \ {c}] = k[s \ {c}]
      <4>1. m - 1 \notin Bad
        BY <3>1, <3>3, <3>7
      <4> QED
        BY <3>7, <4>1
    <3>9. h[s] = f[c] + h[s \ {c}] /\ k[s] = g[c] + k[s \ {c}]
      BY <1>3, <2>5, <3>3, <3>5 DEF Adds
    <3>10. f[c] = g[c]
      BY <2>3, <3>3, <3>5
    <3> QED
      BY <3>2, <3>8, <3>9, <3>10
  <2>7. h[R] = k[R]
    <3>1. Few(R, Cardinality(R)) = SUBSET R /\ Cardinality(R) \in Nat
      BY <2>3, AllAreFew
    <3> QED
      BY <2>3, <2>6, <3>1
  <2>8. h[S] = f[x] + h[R]
    BY <1>3, <2>2 DEF Adds
  <2> QED
    BY <1>2, <2>1, <2>4, <2>7, <2>8
<1> QED
  BY <1>1, <1>4, <1>5

\* One value more or less.
LEMMA SumGrows ==
  ASSUME NEW f, IsFiniteSet(DOMAIN f), \A x \in DOMAIN f : f[x] \in Int, NEW c, c \notin DOMAIN f, NEW v \in Int,
         NEW g, DOMAIN g = DOMAIN f \cup {c}, g[c] = v, \A x \in DOMAIN f : g[x] = f[x], g = [x \in DOMAIN g |-> g[x]],
         f = [x \in DOMAIN f |-> f[x]]
  PROVE  SumFunction(g) = SumFunction(f) + v /\ SumFunction(f) \in Int
<1>1. IsFiniteSet(DOMAIN g) /\ \A x \in DOMAIN g : g[x] \in Int
  <2>1. IsFiniteSet(DOMAIN f \cup {c})
    BY FS_AddElement
  <2> QED
    BY <2>1
<1>2. SumFunction(g) = g[c] + SumFunction([y \in DOMAIN g \ {c} |-> g[y]])
  BY <1>1, SumStep
<1>3. [y \in DOMAIN g \ {c} |-> g[y]] = f
  <2>1. DOMAIN g \ {c} = DOMAIN f
    OBVIOUS
  <2>2. [y \in DOMAIN g \ {c} |-> g[y]] = [y \in DOMAIN f |-> f[y]]
    BY <2>1
  <2> QED
    BY <2>2
<1>4. SumFunction(f) \in Int
  BY SumStep
<1> QED
  BY <1>2, <1>3, <1>4

\* Each of the members of A has d more in g than in f.
Rises(f, g, A, d) ==
  /\ IsFiniteSet(DOMAIN f) /\ DOMAIN g = DOMAIN f /\ A \subseteq DOMAIN f /\ d \in Int
  /\ \A x \in DOMAIN f : f[x] \in Int /\ g[x] = IF x \in A THEN f[x] + d ELSE f[x]

\* Their sums differ by d for each.
LEMMA RisesBy ==
  ASSUME NEW f, NEW g, NEW A, NEW d, Rises(f, g, A, d)
  PROVE  SumFunction(g) = SumFunction(f) + Cardinality(A) * d /\ SumFunction(f) \in Int /\ Cardinality(A) \in Nat
<1>0. /\ IsFiniteSet(DOMAIN f) /\ DOMAIN g = DOMAIN f /\ A \subseteq DOMAIN f /\ d \in Int
      /\ \A x \in DOMAIN f : f[x] \in Int /\ g[x] = IF x \in A THEN f[x] + d ELSE f[x]
  BY DEF Rises
<1>1. PICK S : S = DOMAIN f
  OBVIOUS
<1>2. IsFiniteSet(S) /\ S \in SUBSET S /\ A \subseteq S /\ IsFiniteSet(A) /\ Cardinality(A) \in Nat
  BY <1>0, <1>1, FS_Subset, FS_CardinalityType
<1>3. \A x \in S : f[x] \in Int /\ g[x] \in Int /\ g[x] = IF x \in A THEN f[x] + d ELSE f[x]
  BY <1>0, <1>1
<1>4. PICK h : SumsUp(h, f, SUBSET S) /\ SumFunction(f) = h[S]
  BY <1>0, <1>1, <1>2, SumIs
<1>5. PICK k : SumsUp(k, g, SUBSET S) /\ SumFunction(g) = k[S]
  BY <1>0, <1>1, <1>2, SumIs
<1>6. Adds(h, f, SUBSET S)
  BY <1>1, <1>2, <1>3, <1>4, AnyOrder
<1>7. Adds(k, g, SUBSET S)
  <2>1. DOMAIN g = S
    BY <1>0, <1>1
  <2> QED
    BY <1>2, <1>3, <1>5, <2>1, AnyOrder
<1> DEFINE More(s) == k[s] = h[s] + Cardinality(A \cap s) * d
           Bad == {n \in Nat : \E s \in Few(S, n) : ~More(s)}
<1>8. Bad = {}
  <2> SUFFICES ASSUME Bad # {} PROVE FALSE
    OBVIOUS
  <2>1. PICK m \in Bad : \A b \in Bad : m <= b
    BY LeastNumber
  <2>2. PICK s \in Few(S, m) : ~More(s)
    OBVIOUS
  <2>3. m \in Nat /\ s \in SUBSET S /\ Cardinality(s) <= m
    BY DEF Few
  <2>4. s # {}
    <3> SUFFICES ASSUME s = {} PROVE FALSE
      OBVIOUS
    <3>1. A \cap s = {} /\ Cardinality(A \cap s) = 0
      BY FS_EmptySet
    <3>2. h[s] = 0 /\ k[s] = 0
      BY <1>6, <1>7, <2>3 DEF Adds
    <3> QED
      BY <1>0, <2>2, <3>1, <3>2
  <2>5. PICK c \in s : TRUE
    BY <2>4
  <2>6. PICK r : r = s \ {c}
    OBVIOUS
  <2>7. r \in SUBSET S /\ Cardinality(r) = Cardinality(s) - 1 /\ Cardinality(s) \in Nat \ {0} /\ IsFiniteSet(s)
    BY <1>2, <2>3, <2>5, <2>6, OneFewer
  <2>8. m - 1 \in Nat /\ r \in Few(S, m - 1)
    BY <2>3, <2>7 DEF Few
  <2>9. More(r)
    <3>1. m - 1 \notin Bad
      BY <2>1, <2>3, <2>8
    <3> HIDE DEF More
    <3> QED
      BY <2>8, <3>1
  <2>10. h[s] = f[c] + h[r] /\ k[s] = g[c] + k[r] /\ h[r] \in Int
    BY <1>6, <1>7, <2>3, <2>5, <2>6, <2>7 DEF Adds
  <2>11. c \in S /\ f[c] \in Int
    BY <1>3, <2>3, <2>5
  <2>12. CASE c \in A
    <3>1. A \cap r = (A \cap s) \ {c} /\ c \in A \cap s /\ IsFiniteSet(A \cap s)
      BY <2>5, <2>6, <2>7, <2>12, FS_Subset
    <3>2. Cardinality(A \cap r) = Cardinality(A \cap s) - 1 /\ Cardinality(A \cap s) \in Nat
      <4>1. PICK B : B = A \cap s
        OBVIOUS
      <4>2. IsFiniteSet(B) /\ c \in B /\ A \cap r = B \ {c}
        BY <3>1, <4>1
      <4>3. Cardinality(B \ {c}) = Cardinality(B) - 1
        BY <4>2, FS_RemoveElement
      <4>4. Cardinality(B) \in Nat
        BY <4>2, FS_CardinalityType
      <4> QED
        BY <4>1, <4>2, <4>3, <4>4
    <3>3. g[c] = f[c] + d
      BY <1>3, <2>11, <2>12
    <3>4. PICK n : n = Cardinality(A \cap s)
      OBVIOUS
    <3>5. n \in Nat /\ k[r] = h[r] + (n - 1) * d
      BY <2>9, <3>2, <3>4
    <3>6. (n - 1) * d = n * d - d /\ n * d \in Int
      BY <1>0, <3>5
    <3>7. k[s] = h[s] + n * d
      BY <1>0, <2>10, <2>11, <3>3, <3>5, <3>6
    <3> QED
      BY <2>2, <3>4, <3>7
  <2>13. CASE c \notin A
    <3>1. A \cap r = A \cap s
      BY <2>6, <2>13
    <3>2. g[c] = f[c]
      BY <1>3, <2>11, <2>13
    <3>3. IsFiniteSet(A \cap s)
      BY <2>7, FS_Subset
    <3>4. PICK n : n = Cardinality(A \cap s)
      OBVIOUS
    <3>5. n \in Nat /\ k[r] = h[r] + n * d
      <4>1. Cardinality(A \cap s) \in Nat
        BY <3>3, FS_CardinalityType
      <4> QED
        BY <2>9, <3>1, <3>4, <4>1
    <3>6. n * d \in Int
      BY <1>0, <3>5
    <3>7. k[s] = h[s] + n * d
      BY <1>0, <2>10, <2>11, <3>2, <3>5, <3>6
    <3> QED
      BY <2>2, <3>4, <3>7
  <2> QED
    BY <2>12, <2>13
<1>9. More(S)
  <2>1. Few(S, Cardinality(S)) = SUBSET S /\ Cardinality(S) \in Nat
    BY <1>2, AllAreFew
  <2> HIDE DEF More
  <2> QED
    BY <1>2, <1>8, <2>1
<1>10. A \cap S = A
  BY <1>2
<1>11. h[S] \in Int
  BY <1>2, <1>6 DEF Adds
<1> QED
  BY <1>2, <1>4, <1>5, <1>9, <1>10, <1>11
-----------------------------------------------------------------------------
(* The books of the period under way, and the rows of those done *)

\* How much of the time from a to b lies behind w.
Span(w, a, b) == LET from == IF a > w THEN a ELSE w IN IF b > from THEN b - from ELSE 0

\* The customers of period p, those who have begun, and those who began after the warm-up w.
Mine(p, people) == {c \in DOMAIN people : people[c].period = p}
Started(p, people) == {c \in Mine(p, people) : people[c].start # Never}
Counted(p, w, people) == {c \in Started(p, people) : people[c].start >= w}

\* Those who were there from the beginning.
Left(p, people) == {c \in Mine(p, people) : people[c].arrival = 0}

\* Those in service in the hour that begins at u.
InService(p, people, u) ==
  {c \in Started(p, people) : people[c].start <= u /\ u < people[c].start + people[c].work}

\* How long each had waited and been served behind the warm-up by time t, and the waits of those counted.
Waited(p, w, people, t) ==
  [c \in Mine(p, people) |-> Span(w, people[c].arrival, IF people[c].start # Never THEN people[c].start ELSE t)]
ServedFor(p, w, people, t) ==
  [c \in Started(p, people) |-> Span(w, people[c].start, IF people[c].start + people[c].work <= t THEN people[c].start + people[c].work ELSE t)]
Waits(p, w, people) == [c \in Counted(p, w, people) |-> people[c].start - people[c].arrival]

\* All n counters were busy in every hour behind the warm-up before t.
Full(p, w, n, people, t) == \A u \in w .. t - 1 : Cardinality(InService(p, people, u)) = n

\* The areas are the time waited and served by t; the counters were busy all the time just when all of them were in every hour.
AreasOK(q, b, p, w, n, people, t) ==
  /\ q = SumFunction(Waited(p, w, people, t))
  /\ b = SumFunction(ServedFor(p, w, people, t))
  /\ b <= n * Span(w, 0, t)
  /\ (b = n * Span(w, 0, t)) <=> Full(p, w, n, people, t)

\* The tallies are those of the customers.
TalliesOK(served, waits, left, p, w, people) ==
  /\ served = Cardinality(Counted(p, w, people))
  /\ waits = SumFunction(Waits(p, w, people))
  /\ left = Cardinality(Left(p, people))

\* Whoever is served has an end of service in the agenda, and whoever is not and has begun is through; users are
\* served or called; nobody comes before time 0 is over, nor is the period over yet.
TimesOK(p, now, a, users, server, people) ==
  /\ now < Hours
  /\ \A e \in Range(a) : e.what = "arrival" => e.at > 0
  /\ \A e \in Range(a) : e.what = "end" => e.at = people[e.of].start + people[e.of].work
  /\ \A c \in DOMAIN server : c \in Started(p, people) /\ \E e \in Range(a) : e.what = "end" /\ e.of = c
  /\ users \subseteq DOMAIN server \cup Called(a)
  /\ \A c \in Mine(p, people) : people[c].arrival <= now
  /\ \A c \in Started(p, people) :
       /\ people[c].arrival <= people[c].start /\ people[c].start <= now /\ people[c].work > 0
       /\ c \notin DOMAIN server => people[c].start + people[c].work <= now

\* The measures of s are those of the customers of period p up to t, and the line was never longer than the longest.
Measures(s, p, t, len, people) ==
  /\ s.seen = t
  /\ AreasOK(s.queueArea, s.busyArea, p, plan[p].warmup, plan[p].servers, people, t)
  /\ TalliesOK(s.served, s.waits, s.left, p, plan[p].warmup, people)
  /\ s.longest \in Nat /\ len <= s.longest

\* The books of a period are those of its customers.
Booked(s, people) ==
  /\ TimesOK(s.period, s.now, s.agenda, s.users, s.server, people)
  /\ Measures(s, s.period, s.now, Len(s.line), people)

\* Nothing is due before t.
Later(a, t) == \A i \in DOMAIN a : a[i].at >= t

\* From now to t these are served, and nobody else.
Attended(p, people, users, now, t) ==
  /\ users \subseteq Started(p, people)
  /\ \A c \in users : people[c].start <= now /\ t <= people[c].start + people[c].work
  /\ \A c \in Started(p, people) : c \notin users => people[c].start <= now /\ people[c].start + people[c].work <= now

Statuses == {"Critical", "Unstable", "Peak", "Normal", "Lean"}

\* The row of period p, with w and n, says what its customers did.
RowTrue(row, p, w, n, people) ==
  /\ AreasOK(row.queueArea, row.busyArea, p, w, n, people, Hours)
  /\ TalliesOK(row.served, row.waits, row.initial, p, w, people)
  /\ \A c \in Started(p, people) : people[c].start <= Hours
  /\ row.final = Cardinality(Mine(p, people) \ Started(p, people)) /\ row.final <= row.longest
  /\ row.status \in Statuses
  /\ row.status = "Unstable" <=> Full(p, w, n, people, Hours)
  /\ row.status \notin {"Unstable", "Critical"} => row.longest < Overload /\ row.final < Overload

\* Nobody comes to a period that is not simulated.
RowEmpty(row, p, people) ==
  /\ row.served = 0 /\ row.status \in {"NORMAL", "ERROR"} /\ Mine(p, people) = {}

\* Whom a period is begun with, by the rows of those before.
Brought(p, done) == IF p = 1 \/ ~ carryover THEN 0 ELSE done[p - 1].final

\* The rows are true of the customers.
RowsOK(done, people) ==
  \A k \in DOMAIN done :
    /\ done[k].simulated \in BOOLEAN
    /\ done[k].simulated => RowTrue(done[k], k, plan[k].warmup, plan[k].servers, people) /\ done[k].initial = Brought(k, done)
    /\ ~ done[k].simulated => RowEmpty(done[k], k, people)

\* So are the books of the period under way.
LedgerOK(s, done, people) ==
  IF Skipped(s.period, s.left) THEN s.agenda = <<>> /\ Mine(s.period, people) = {}
  ELSE Booked(s, people) /\ s.left = Brought(s.period, done)

\* The invariant of the results.
BooksOK ==
  /\ \A c \in DOMAIN customer : customer[c].period <= sim.period
  /\ RowsOK(rows, customer)
  /\ Len(rows) < K => LedgerOK(sim, rows, customer)

-----------------------------------------------------------------------------
(* Times and numbers *)

\* A stretch of time is a natural number; its parts add up.
LEMMA SpanAdds ==
  ASSUME NEW w \in Nat, NEW a \in Nat, NEW b \in Nat, NEW t \in Nat, a <= b, b <= t
  PROVE  /\ Span(w, a, b) \in Nat /\ Span(w, b, t) \in Nat /\ Span(w, a, t) = Span(w, a, b) + Span(w, b, t)
         /\ Span(w, a, a) = 0
BY DEF Span

\* The stretch up to a later time is that up to an earlier one and the time between.
LEMMA SpanSplits ==
  ASSUME NEW w \in Nat, NEW a \in Nat, NEW b \in Nat, a <= b, NEW t \in Nat, b <= t
  PROVE  Span(w, a, t) = Span(w, a, b) + Span(w, b, t)
BY SpanAdds

\* It is a natural number in any case.
LEMMA SpanNumber ==
  ASSUME NEW w \in Nat, NEW a \in Nat, NEW b \in Nat
  PROVE  Span(w, a, b) \in Nat
BY DEF Span

\* Max and Min of two numbers.
LEMMA LargerIs ==
  ASSUME NEW a \in Int, NEW b \in Int
  PROVE  Max({a, b}) = (IF a > b THEN a ELSE b) /\ Min({a, b}) = (IF a < b THEN a ELSE b)
<1>1. \E m \in {a, b} : \A y \in {a, b} : m >= y
  <2>1. CASE a <= b
    BY <2>1
  <2>2. CASE ~ (a <= b)
    BY <2>2
  <2> QED
    BY <2>1, <2>2
<1>2. \E m \in {a, b} : \A y \in {a, b} : m <= y
  <2>1. CASE a <= b
    BY <2>1
  <2>2. CASE ~ (a <= b)
    BY <2>2
  <2> QED
    BY <2>1, <2>2
<1>3. Max({a, b}) \in {a, b} /\ \A y \in {a, b} : Max({a, b}) >= y
  BY <1>1 DEF Max
<1>4. Min({a, b}) \in {a, b} /\ \A y \in {a, b} : Min({a, b}) <= y
  BY <1>2 DEF Min
<1> QED
  BY <1>3, <1>4

\* The time measured since the last record is that behind the warm-up.
LEMMA MeasuredIs ==
  ASSUME NEW s, s.seen \in Nat, NEW now \in Nat, plan[s.period].warmup \in Nat
  PROVE  Measured(s, now) = Span(plan[s.period].warmup, s.seen, now)
<1>1. PICK a \in Nat : a = s.seen
  OBVIOUS
<1>2. PICK w \in Nat : w = plan[s.period].warmup
  OBVIOUS
<1>3. PICK m : m = Max({a, w})
  OBVIOUS
<1>4. m = IF a > w THEN a ELSE w
  BY <1>3, LargerIs
<1>5. m \in Nat /\ now - m \in Int
  BY <1>4
<1>6. Max({0, now - m}) = IF 0 > now - m THEN 0 ELSE now - m
  BY <1>5, LargerIs
<1>7. Measured(s, now) = Max({0, now - m})
  BY <1>1, <1>2, <1>3 DEF Measured
<1> QED
  BY <1>1, <1>2, <1>4, <1>5, <1>6, <1>7 DEF Span

\* The part of a stretch that lies in the measured part of period k.
LEMMA WithinIs ==
  ASSUME NEW k, plan[k].warmup \in Nat, NEW a \in Nat, NEW b \in Nat
  PROVE  Within(k, a, b) = Span(plan[k].warmup, a, IF b <= Hours THEN b ELSE Hours)
<1>0. Hours \in Nat
  BY SegmentAssumption
<1>1. PICK w \in Nat : w = plan[k].warmup
  OBVIOUS
<1>2. PICK m : m = Max({a, w})
  OBVIOUS
<1>3. PICK e : e = Min({b, Hours})
  OBVIOUS
<1>4. m = (IF a > w THEN a ELSE w) /\ e = (IF b < Hours THEN b ELSE Hours)
  BY <1>0, <1>2, <1>3, LargerIs
<1>5. m \in Nat /\ e \in Nat /\ e - m \in Int
  BY <1>0, <1>4
<1>6. Max({0, e - m}) = IF 0 > e - m THEN 0 ELSE e - m
  BY <1>5, LargerIs
<1>7. Within(k, a, b) = Max({0, e - m})
  BY <1>1, <1>2, <1>3 DEF Within
<1> QED
  BY <1>0, <1>1, <1>4, <1>5, <1>6, <1>7 DEF Span

\* A line without repetitions has as many places as customers.
LEMMA LineNumbers ==
  ASSUME NEW line \in Seq(Nat), \A i, j \in DOMAIN line : i < j => line[i] < line[j]
  PROVE  IsFiniteSet(Range(line)) /\ Cardinality(Range(line)) = Len(line) /\ Len(line) \in Nat
<1>1. Len(line) \in Nat /\ DOMAIN line = 1 .. Len(line) /\ \A i \in 1 .. Len(line) : line[i] \in Nat
  BY LenProperties, ElementOfSeq
<1>2. PICK n \in Nat : n = Len(line)
  BY LenProperties
<1>3. PICK R : R = Range(line)
  OBVIOUS
<1>4. \A i, j \in 1 .. n : line[i] = line[j] => i = j
  <2> SUFFICES ASSUME NEW i \in 1 .. n, NEW j \in 1 .. n, line[i] = line[j], i # j PROVE FALSE
    OBVIOUS
  <2>1. i < j \/ j < i
    OBVIOUS
  <2>2. line[i] < line[j] \/ line[j] < line[i]
    BY <1>1, <1>2, <2>1
  <2>3. line[i] \in Nat /\ line[j] \in Nat
    BY <1>1, <1>2
  <2> QED
    BY <2>2, <2>3
<1>5. line \in Bijection(1 .. n, R)
  <2>1. line \in [1 .. n -> R]
    <3>1. line = [i \in 1 .. n |-> line[i]]
      BY <1>1, <1>2
    <3>2. \A i \in 1 .. n : line[i] \in R
      BY <1>1, <1>2, <1>3 DEF Range
    <3> QED
      BY <3>1, <3>2
  <2>2. \A r \in R : \E i \in 1 .. n : line[i] = r
    BY <1>1, <1>2, <1>3 DEF Range
  <2> QED
    BY <1>4, <2>1, <2>2 DEF Bijection, Injection, Surjection, IsInjective
<1>6. IsFiniteSet(1 .. n) /\ Cardinality(1 .. n) = n
  BY FS_Interval
<1>7. IsFiniteSet(R) /\ Cardinality(R) = n
  <2>1. IsFiniteSet(R) /\ Cardinality(1 .. n) = Cardinality(R)
    BY <1>5, <1>6, FS_Bijection DEF ExistsBijection
  <2> QED
    BY <1>6, <2>1
<1> QED
  BY <1>2, <1>3, <1>7

\* A sum of zeros is zero.
LEMMA SumOfNothing ==
  ASSUME NEW f, IsFiniteSet(DOMAIN f), \A x \in DOMAIN f : f[x] = 0
  PROVE  SumFunction(f) = 0
<1>1. PICK S : S = DOMAIN f
  OBVIOUS
<1>2. IsFiniteSet(S) /\ (\A x \in S : f[x] = 0 /\ f[x] \in Int) /\ S \in SUBSET S
  BY <1>1
<1>3. PICK h : SumsUp(h, f, SUBSET S) /\ SumFunction(f) = h[S]
  BY <1>1, <1>2, SumIs
<1>4. Adds(h, f, SUBSET S)
  BY <1>1, <1>2, <1>3, AnyOrder
<1> DEFINE Bad == {n \in Nat : \E s \in Few(S, n) : h[s] # 0}
<1>5. Bad = {}
  <2> SUFFICES ASSUME Bad # {} PROVE FALSE
    OBVIOUS
  <2>1. PICK m \in Bad : \A b \in Bad : m <= b
    BY LeastNumber
  <2>2. PICK s \in Few(S, m) : h[s] # 0
    OBVIOUS
  <2>3. m \in Nat /\ s \in SUBSET S /\ Cardinality(s) <= m
    BY DEF Few
  <2>4. s # {}
    BY <1>4, <2>2, <2>3 DEF Adds
  <2>5. PICK c \in s : TRUE
    BY <2>4
  <2>6. s \ {c} \in SUBSET S /\ Cardinality(s \ {c}) = Cardinality(s) - 1 /\ Cardinality(s) \in Nat \ {0}
    BY <1>2, <2>3, <2>5, OneFewer
  <2>7. m - 1 \in Nat /\ s \ {c} \in Few(S, m - 1)
    BY <2>3, <2>6 DEF Few
  <2>8. h[s \ {c}] = 0
    <3>1. m - 1 \notin Bad
      BY <2>1, <2>3, <2>7
    <3> QED
      BY <2>7, <3>1
  <2>9. h[s] = f[c] + h[s \ {c}]
    BY <1>4, <2>3, <2>5 DEF Adds
  <2>10. f[c] = 0
    BY <1>2, <2>3, <2>5
  <2> QED
    BY <2>2, <2>8, <2>9, <2>10
<1>6. Few(S, Cardinality(S)) = SUBSET S /\ Cardinality(S) \in Nat
  BY <1>2, AllAreFew
<1>7. h[S] = 0
  BY <1>2, <1>5, <1>6
<1> QED
  BY <1>3, <1>7

\* g is f with one more value, v of c.
Gains(f, g, c, v) ==
  /\ IsFiniteSet(DOMAIN f) /\ c \notin DOMAIN f /\ DOMAIN g = DOMAIN f \cup {c} /\ v \in Int /\ g[c] = v
  /\ \A x \in DOMAIN f : f[x] \in Int /\ g[x] = f[x]
  /\ f = [x \in DOMAIN f |-> f[x]] /\ g = [x \in DOMAIN g |-> g[x]]

\* Its sum is v more.
LEMMA GainsValue ==
  ASSUME NEW f, NEW g, NEW c, NEW v, Gains(f, g, c, v)
  PROVE  SumFunction(g) = SumFunction(f) + v /\ SumFunction(f) \in Int
BY SumGrows DEF Gains

\* How many members of D have each key.
Fibres(D, key, T) == [k \in T |-> Cardinality({c \in D : key[c] = k})]

\* One more member counts at its key.
LEMMA FibreGrows ==
  ASSUME NEW D, IsFiniteSet(D), NEW T, IsFiniteSet(T), NEW key, \A d \in D : key[d] \in T, NEW c \in D
  PROVE  SumFunction(Fibres(D, key, T)) = SumFunction(Fibres(D \ {c}, key, T)) + 1
<1>1. PICK E : E = D \ {c}
  OBVIOUS
<1>2. PICK f : f = Fibres(E, key, T)
  OBVIOUS
<1>3. PICK g : g = Fibres(D, key, T)
  OBVIOUS
<1>4. PICK j \in T : j = key[c]
  OBVIOUS
<1>5. IsFiniteSet(E) /\ E \subseteq D
  BY <1>1, FS_Subset
<1>6. DOMAIN f = T /\ DOMAIN g = T /\ {j} \subseteq T
  BY <1>2, <1>3 DEF Fibres
<1>7. ASSUME NEW k \in T
      PROVE  f[k] \in Int /\ g[k] = IF k \in {j} THEN f[k] + 1 ELSE f[k]
  <2>1. PICK a : a = {d \in E : key[d] = k}
    OBVIOUS
  <2>2. PICK b : b = {d \in D : key[d] = k}
    OBVIOUS
  <2>3. IsFiniteSet(a) /\ Cardinality(a) \in Nat
    <3>1. a \subseteq E
      BY <2>1
    <3> QED
      BY <1>5, <3>1, FS_Subset, FS_CardinalityType
  <2>4. f[k] = Cardinality(a) /\ g[k] = Cardinality(b)
    BY <1>2, <1>3, <2>1, <2>2 DEF Fibres
  <2>5. CASE k = j
    <3>1. b = a \cup {c} /\ c \notin a
      BY <1>1, <1>4, <2>1, <2>2, <2>5
    <3>2. Cardinality(b) = Cardinality(a) + 1
      BY <2>3, <3>1, FS_AddElement
    <3> QED
      BY <2>3, <2>4, <2>5, <3>2
  <2>6. CASE k # j
    <3>1. b = a
      BY <1>1, <1>4, <2>1, <2>2, <2>6
    <3> QED
      BY <2>3, <2>4, <2>6, <3>1
  <2> QED
    BY <2>5, <2>6
<1>d. PICK e \in Int : e = 1
  OBVIOUS
<1>e. PICK A : A = {j}
  OBVIOUS
<1>8. SumFunction(g) = SumFunction(f) + Cardinality(A) * e /\ SumFunction(f) \in Int
  <2>1. IsFiniteSet(DOMAIN f) /\ DOMAIN g = DOMAIN f /\ A \subseteq DOMAIN f
    BY <1>6, <1>e
  <2>2. \A k \in DOMAIN f : f[k] \in Int /\ g[k] = IF k \in A THEN f[k] + e ELSE f[k]
    BY <1>6, <1>7, <1>d, <1>e
  <2>3. Rises(f, g, A, e)
    BY <2>1, <2>2 DEF Rises
  <2> QED
    BY <2>3, RisesBy
<1>9. Cardinality({j}) = 1
  BY FS_Singleton
<1> QED
  BY <1>1, <1>2, <1>3, <1>d, <1>e, <1>8, <1>9

\* Counting by keys counts everyone once.
LEMMA SumOfFibres ==
  ASSUME NEW D, IsFiniteSet(D), NEW T, IsFiniteSet(T), NEW key, \A d \in D : key[d] \in T
  PROVE  SumFunction(Fibres(D, key, T)) = Cardinality(D)
<1> DEFINE Bad == {n \in Nat : \E s \in Few(D, n) : SumFunction(Fibres(s, key, T)) # Cardinality(s)}
<1>1. Bad = {}
  <2> SUFFICES ASSUME Bad # {} PROVE FALSE
    OBVIOUS
  <2>1. PICK m \in Bad : \A b \in Bad : m <= b
    BY LeastNumber
  <2>2. PICK s \in Few(D, m) : SumFunction(Fibres(s, key, T)) # Cardinality(s)
    OBVIOUS
  <2>3. m \in Nat /\ s \in SUBSET D /\ Cardinality(s) <= m
    BY DEF Few
  <2>4. s # {}
    <3> SUFFICES ASSUME s = {} PROVE FALSE
      OBVIOUS
    <3>1. PICK f : f = Fibres({}, key, T)
      OBVIOUS
    <3>2. DOMAIN f = T /\ \A k \in T : f[k] = 0
      <4>1. \A k : {c \in {} : key[c] = k} = {}
        OBVIOUS
      <4>2. Cardinality({}) = 0
        BY FS_EmptySet
      <4> QED
        BY <3>1, <4>1, <4>2 DEF Fibres
    <3>3. SumFunction(f) = 0
      BY <3>2, SumOfNothing
    <3>4. Cardinality({}) = 0
      BY FS_EmptySet
    <3> QED
      BY <2>2, <3>1, <3>3, <3>4
  <2>5. PICK c \in s : TRUE
    BY <2>4
  <2>6. PICK r : r = s \ {c}
    OBVIOUS
  <2>7. r \in SUBSET D /\ Cardinality(r) = Cardinality(s) - 1 /\ Cardinality(s) \in Nat \ {0} /\ IsFiniteSet(s)
    BY <2>3, <2>5, <2>6, OneFewer
  <2>8. m - 1 \in Nat /\ r \in Few(D, m - 1)
    BY <2>3, <2>7 DEF Few
  <2>9. SumFunction(Fibres(r, key, T)) = Cardinality(r)
    <3>1. m - 1 \notin Bad
      BY <2>1, <2>3, <2>8
    <3> QED
      BY <2>8, <3>1
  <2>10. \A d \in s : key[d] \in T
    BY <2>3
  <2>11. SumFunction(Fibres(s, key, T)) = SumFunction(Fibres(r, key, T)) + 1
    BY <2>5, <2>6, <2>7, <2>10, FibreGrows
  <2> QED
    BY <2>2, <2>7, <2>9, <2>11
<1>2. Few(D, Cardinality(D)) = SUBSET D /\ Cardinality(D) \in Nat
  BY AllAreFew
<1>3. D \in Few(D, Cardinality(D))
  BY <1>2
<1> QED
  BY <1>1, <1>2, <1>3

-----------------------------------------------------------------------------
(* The customers of a period *)

\* What is known of the customers, and that there are finitely many of every sort.
LEMMA PeopleAre ==
  ASSUME NEW people \in Seq(CustomerRows)
  PROVE  /\ IsFiniteSet(DOMAIN people)
         /\ \A c \in DOMAIN people : /\ people[c].period \in 1 .. K /\ people[c].arrival \in Nat /\ people[c].work \in Nat
                                     /\ people[c].start \in Nat \cup {Never}
                                     /\ people[c].start # Never => people[c].start \in Nat
         /\ \A p : IsFiniteSet(Mine(p, people)) /\ IsFiniteSet(Started(p, people)) /\ IsFiniteSet(Left(p, people))
         /\ \A p, w : IsFiniteSet(Counted(p, w, people))
         /\ \A p, u : IsFiniteSet(InService(p, people, u)) /\ Cardinality(InService(p, people, u)) \in Nat
<1>1. Len(people) \in Nat /\ DOMAIN people = 1 .. Len(people) /\ \A c \in 1 .. Len(people) : people[c] \in CustomerRows
  BY LenProperties, ElementOfSeq
<1>2. IsFiniteSet(DOMAIN people)
  <2>1. IsFiniteSet(1 .. Len(people))
    BY <1>1, FS_Interval
  <2> QED
    BY <1>1, <2>1
<1>3. ASSUME NEW c \in DOMAIN people
      PROVE  /\ people[c].period \in 1 .. K /\ people[c].arrival \in Nat /\ people[c].work \in Nat
             /\ people[c].start \in Nat \cup {Never}
             /\ people[c].start # Never => people[c].start \in Nat
  BY <1>1 DEF CustomerRows
<1>4. \A S : S \subseteq DOMAIN people => IsFiniteSet(S) /\ Cardinality(S) \in Nat
  BY <1>2, FS_Subset, FS_CardinalityType
<1>5. \A p : Mine(p, people) \subseteq DOMAIN people /\ Started(p, people) \subseteq DOMAIN people /\ Left(p, people) \subseteq DOMAIN people
  BY DEF Mine, Started, Left
<1>6. \A p, w : Counted(p, w, people) \subseteq DOMAIN people
  BY DEF Counted, Started, Mine
<1>7. \A p, u : InService(p, people, u) \subseteq DOMAIN people
  BY DEF InService, Started, Mine
<1> QED
  BY <1>2, <1>3, <1>4, <1>5, <1>6, <1>7

\* When time passes nobody is called: those who have a counter are served until the later time at least, everyone
\* else who has begun is through, and those who have not begun stand in line.
LEMMA TimePasses ==
  ASSUME NEW p, NEW now, NEW a, NEW line, NEW users, NEW server, NEW people, Good(p, now, a, line, users, server, people),
         TimesOK(p, now, a, users, server, people), NEW t \in Nat, now < t, Later(a, t)
  PROVE  /\ Called(a) = {}
         /\ Len(line) = Cardinality(Mine(p, people) \ Started(p, people)) /\ Len(line) \in Nat
         /\ Attended(p, people, users, now, t)
<1>0. now \in Nat /\ a \in Seq(Entries) /\ line \in Seq(Nat) /\ people \in Seq(CustomerRows)
  BY GoodProperties
<1>1. Called(a) = {}
  <2> SUFFICES ASSUME NEW c \in Called(a) PROVE FALSE
    OBVIOUS
  <2>1. PICK i \in Named(a, "granted") : TRUE
    BY DEF Called
  <2>2. a[i].at = now /\ i \in DOMAIN a
    BY DEF Good, Orderly, AgendaOK, Named
  <2> QED
    BY <1>0, <2>2 DEF Later
<1>2. users = DOMAIN server
  <2>1. users \subseteq DOMAIN server
    BY <1>1 DEF TimesOK
  <2> QED
    BY <2>1 DEF Good, Orderly, CountersOK
<1>3. Range(line) = Mine(p, people) \ Started(p, people)
  <2>1. ASSUME NEW c \in Range(line) PROVE c \in Mine(p, people) \ Started(p, people)
    BY DEF Good, Orderly, PeopleOK, Mine, Started
  <2>2. ASSUME NEW c \in Mine(p, people) \ Started(p, people) PROVE c \in Range(line)
    BY <1>1 DEF Good, Orderly, PeopleOK, Mine, Started
  <2> QED
    BY <2>1, <2>2
<1>4. Cardinality(Range(line)) = Len(line) /\ Len(line) \in Nat
  <2>1. line \in Seq(Nat) /\ \A i, j \in DOMAIN line : i < j => line[i] < line[j]
    BY DEF Good, Orderly, LineOK
  <2> QED
    BY <2>1, LineNumbers
<1>5. ASSUME NEW c \in users
      PROVE  c \in Started(p, people) /\ people[c].start <= now /\ t <= people[c].start + people[c].work
  <2>1. PICK e \in Range(a) : e.what = "end" /\ e.of = c
    BY <1>2 DEF TimesOK
  <2>2. e.at = people[c].start + people[c].work /\ c \in Started(p, people) /\ people[c].start <= now
    BY <1>2, <2>1 DEF TimesOK
  <2>3. PICK i \in DOMAIN a : e = a[i]
    BY DEF Range
  <2>4. a[i].at >= t /\ a[i].at \in Nat
    BY <1>0, <2>3, AgendaProperties DEF Later
  <2> QED
    BY <2>2, <2>3, <2>4
<1>6. ASSUME NEW c \in Started(p, people), c \notin users
      PROVE  people[c].start <= now /\ people[c].start + people[c].work <= now
  BY <1>2, <1>6 DEF TimesOK
<1> QED
  BY <1>1, <1>3, <1>4, <1>5, <1>6 DEF Attended

\* While time passes those who have not begun wait.
LEMMA WaitedGrows ==
  ASSUME NEW p, NEW w \in Nat, NEW people \in Seq(CustomerRows), NEW now \in Nat, NEW t \in Nat, now <= t,
         \A c \in Mine(p, people) : people[c].arrival <= now
  PROVE  /\ SumFunction(Waited(p, w, people, now)) \in Int
         /\ SumFunction(Waited(p, w, people, t)) =
              SumFunction(Waited(p, w, people, now)) + Cardinality(Mine(p, people) \ Started(p, people)) * Span(w, now, t)
         /\ Cardinality(Mine(p, people) \ Started(p, people)) \in Nat
<1>1. PICK f : f = Waited(p, w, people, now)
  OBVIOUS
<1>2. PICK g : g = Waited(p, w, people, t)
  OBVIOUS
<1>3. PICK A : A = Mine(p, people) \ Started(p, people)
  OBVIOUS
<1>4. PICK d : d = Span(w, now, t)
  OBVIOUS
<1>5. d \in Int
  BY <1>4, SpanAdds
<1>6. IsFiniteSet(Mine(p, people)) /\ DOMAIN f = Mine(p, people) /\ DOMAIN g = Mine(p, people) /\ A \subseteq Mine(p, people)
  BY <1>1, <1>2, <1>3, PeopleAre DEF Waited
<1>7. ASSUME NEW c \in Mine(p, people)
      PROVE  f[c] \in Int /\ g[c] = IF c \in A THEN f[c] + d ELSE f[c]
  <2>1. c \in DOMAIN people
    BY DEF Mine
  <2>2. people[c].arrival \in Nat /\ people[c].arrival <= now /\ (people[c].start # Never => people[c].start \in Nat)
    BY <2>1, PeopleAre
  <2>3. CASE people[c].start # Never
    <3>1. c \notin A
      BY <1>3, <2>3 DEF Started
    <3>2. f[c] = Span(w, people[c].arrival, people[c].start) /\ g[c] = Span(w, people[c].arrival, people[c].start)
      BY <1>1, <1>2, <2>3 DEF Waited
    <3>3. Span(w, people[c].arrival, people[c].start) \in Int
      BY <2>2, <2>3 DEF Span
    <3> QED
      BY <3>1, <3>2, <3>3
  <2>4. CASE people[c].start = Never
    <3>1. c \in A
      BY <1>3, <2>4 DEF Started
    <3>2. f[c] = Span(w, people[c].arrival, now) /\ g[c] = Span(w, people[c].arrival, t)
      BY <1>1, <1>2, <2>4 DEF Waited
    <3>3. PICK x \in Nat : x = people[c].arrival
      BY <2>2
    <3>a. x <= now /\ now <= t
      BY <2>2, <3>3
    <3>4. Span(w, x, now) \in Nat /\ Span(w, x, t) = Span(w, x, now) + Span(w, now, t)
      BY <3>a, SpanAdds, SMTT(30)
    <3> QED
      BY <1>4, <3>1, <3>2, <3>3, <3>4
  <2> QED
    BY <2>3, <2>4
<1>8. SumFunction(g) = SumFunction(f) + Cardinality(A) * d /\ SumFunction(f) \in Int /\ Cardinality(A) \in Nat
  <2>1. IsFiniteSet(DOMAIN f) /\ DOMAIN g = DOMAIN f /\ A \subseteq DOMAIN f
    BY <1>6
  <2>2. \A c \in DOMAIN f : f[c] \in Int /\ g[c] = IF c \in A THEN f[c] + d ELSE f[c]
    BY <1>6, <1>7
  <2>3. Rises(f, g, A, d)
    BY <1>5, <2>1, <2>2 DEF Rises
  <2> QED
    BY <2>3, RisesBy
<1> QED
  BY <1>1, <1>2, <1>3, <1>4, <1>8

\* And those with a counter are served.
LEMMA ServedGrows ==
  ASSUME NEW p, NEW w \in Nat, NEW people \in Seq(CustomerRows), NEW now \in Nat, NEW t \in Nat, now < t, NEW users,
         Attended(p, people, users, now, t)
  PROVE  /\ SumFunction(ServedFor(p, w, people, now)) \in Int
         /\ SumFunction(ServedFor(p, w, people, t)) =
              SumFunction(ServedFor(p, w, people, now)) + Cardinality(users) * Span(w, now, t)
         /\ Cardinality(users) \in Nat
<1>1. PICK f : f = ServedFor(p, w, people, now)
  OBVIOUS
<1>2. PICK g : g = ServedFor(p, w, people, t)
  OBVIOUS
<1>3. PICK d : d = Span(w, now, t)
  OBVIOUS
<1>4. d \in Int
  BY <1>3, SpanAdds
<1>5. IsFiniteSet(Started(p, people)) /\ DOMAIN f = Started(p, people) /\ DOMAIN g = Started(p, people)
  BY <1>1, <1>2, PeopleAre DEF ServedFor
<1>6. ASSUME NEW c \in Started(p, people)
      PROVE  f[c] \in Int /\ g[c] = IF c \in users THEN f[c] + d ELSE f[c]
  <2>1. c \in DOMAIN people /\ people[c].start # Never
    BY DEF Started, Mine
  <2>2. people[c].work \in Nat /\ people[c].start \in Nat
    BY <2>1, PeopleAre
  <2>a. PICK s \in Nat : s = people[c].start
    BY <2>2
  <2>b. PICK e \in Nat : e = s + people[c].work
    BY <2>2
  <2>3. s = people[c].start /\ e = people[c].start + people[c].work
    BY <2>a, <2>b
  <2>4. f[c] = Span(w, s, IF e <= now THEN e ELSE now) /\ g[c] = Span(w, s, IF e <= t THEN e ELSE t)
    BY <1>1, <1>2, <2>3 DEF ServedFor
  <2>5. CASE c \in users
    <3>1. s <= now /\ t <= e
      BY <2>3, <2>5 DEF Attended
    <3>2. f[c] = Span(w, s, now) /\ g[c] = Span(w, s, t)
      <4>1. ~ (e <= now) /\ (e <= t => e = t)
        BY <3>1
      <4> QED
        BY <2>4, <4>1
    <3>3. Span(w, s, now) \in Nat /\ Span(w, s, t) = Span(w, s, now) + Span(w, now, t)
      <4>1. s <= now /\ now <= t
        BY <3>1
      <4>2. Span(w, s, now) \in Nat
        BY SpanNumber
      <4>3. Span(w, s, t) = Span(w, s, now) + Span(w, now, t)
        BY <4>1, SpanSplits
      <4> QED
        BY <4>2, <4>3
    <3> QED
      BY <1>3, <2>5, <3>2, <3>3
  <2>6. CASE c \notin users
    <3>1. e <= now /\ s <= now
      BY <2>3, <2>6 DEF Attended
    <3>2. f[c] = Span(w, s, e) /\ g[c] = Span(w, s, e)
      BY <2>4, <3>1
    <3>3. Span(w, s, e) \in Int
      BY DEF Span
    <3> QED
      BY <2>6, <3>2, <3>3
  <2> QED
    BY <2>5, <2>6
<1>7. SumFunction(g) = SumFunction(f) + Cardinality(users) * d /\ SumFunction(f) \in Int /\ Cardinality(users) \in Nat
  <2>1. IsFiniteSet(DOMAIN f) /\ DOMAIN g = DOMAIN f /\ users \subseteq DOMAIN f
    BY <1>5 DEF Attended
  <2>2. \A c \in DOMAIN f : f[c] \in Int /\ g[c] = IF c \in users THEN f[c] + d ELSE f[c]
    BY <1>5, <1>6
  <2>3. Rises(f, g, users, d)
    BY <1>4, <2>1, <2>2 DEF Rises
  <2> QED
    BY <2>3, RisesBy
<1> QED
  BY <1>1, <1>2, <1>3, <1>7

\* A product of natural numbers grows with each.
LEMMA Products ==
  ASSUME NEW n \in Nat, NEW m \in Nat, m <= n, NEW d \in Nat
  PROVE  m * d \in Nat /\ n * d \in Nat /\ m * d <= n * d /\ ((m * d = n * d) <=> (d = 0 \/ m = n))
<1>1. PICK r \in Nat : r = n - m
  OBVIOUS
<1>2. n = m + r
  BY <1>1
<1>3. n * d = m * d + r * d
  BY <1>2
<1>4. m * d \in Nat /\ r * d \in Nat
  OBVIOUS
<1>5. r * d = 0 <=> (r = 0 \/ d = 0)
  OBVIOUS
<1>6. r = 0 <=> m = n
  BY <1>1
<1> QED
  BY <1>3, <1>4, <1>5, <1>6

\* While time passes the counters stay as busy as they are.
LEMMA FullGrows ==
  ASSUME NEW p, NEW w \in Nat, NEW n, NEW people \in Seq(CustomerRows), NEW now \in Nat, NEW t \in Nat, now < t, NEW users,
         Attended(p, people, users, now, t)
  PROVE  Full(p, w, n, people, t) <=> Full(p, w, n, people, now) /\ (Span(w, now, t) = 0 \/ Cardinality(users) = n)
<1>1. ASSUME NEW u \in now .. t - 1
      PROVE  InService(p, people, u) = users
  <2>1. ASSUME NEW c \in Started(p, people)
        PROVE  (people[c].start <= u /\ u < people[c].start + people[c].work) <=> c \in users
    <3>1. c \in DOMAIN people /\ people[c].start # Never
      BY DEF Started, Mine
    <3>2. people[c].work \in Nat /\ people[c].start \in Nat
      BY <3>1, PeopleAre
    <3>a. PICK s \in Nat : s = people[c].start
      BY <3>2
    <3>b. PICK e \in Nat : e = people[c].start + people[c].work
      BY <3>2
    <3>c. u \in Int /\ now <= u /\ u < t
      OBVIOUS
    <3>3. CASE c \in users
      <4>1. s <= now /\ t <= e
        BY <3>3, <3>a, <3>b DEF Attended
      <4>2. s <= u /\ u < e
        BY <3>c, <4>1
      <4> QED
        BY <3>3, <3>a, <3>b, <4>2
    <3>4. CASE c \notin users
      <4>1. e <= now
        BY <3>4, <3>b DEF Attended
      <4>2. ~ (u < e)
        BY <3>c, <4>1
      <4> QED
        BY <3>4, <3>b, <4>2
    <3> QED
      BY <3>3, <3>4
  <2>2. users \subseteq Started(p, people)
    BY DEF Attended
  <2> QED
    BY <2>1, <2>2 DEF InService
<1>2. ASSUME Full(p, w, n, people, t)
      PROVE  Full(p, w, n, people, now) /\ (Span(w, now, t) = 0 \/ Cardinality(users) = n)
  <2>1. \A u \in w .. t - 1 : Cardinality(InService(p, people, u)) = n
    BY <1>2 DEF Full
  <2>2. \A u \in w .. now - 1 : u \in w .. t - 1
    OBVIOUS
  <2>3. Span(w, now, t) = 0 \/ (t - 1 \in w .. t - 1 /\ t - 1 \in now .. t - 1)
    BY DEF Span
  <2>4. t - 1 \in w .. t - 1 /\ t - 1 \in now .. t - 1 => Cardinality(users) = n
    BY <1>1, <2>1
  <2> QED
    BY <2>1, <2>2, <2>3, <2>4 DEF Full
<1>3. ASSUME Full(p, w, n, people, now), Span(w, now, t) = 0 \/ Cardinality(users) = n
      PROVE  Full(p, w, n, people, t)
  <2>1. ASSUME NEW u \in w .. t - 1
        PROVE  Cardinality(InService(p, people, u)) = n
    <3>1. CASE u <= now - 1
      <4>1. u \in w .. now - 1
        BY <3>1
      <4> QED
        BY <1>3, <4>1 DEF Full
    <3>2. CASE ~ (u <= now - 1)
      <4>1. u \in now .. t - 1 /\ Span(w, now, t) # 0
        BY <3>2 DEF Span
      <4> QED
        BY <1>1, <1>3, <4>1
    <3> QED
      BY <3>1, <3>2
  <2> QED
    BY <2>1 DEF Full
<1> QED
  BY <1>2, <1>3

\* Recording the time that has passed keeps the areas those of the customers.
LEMMA AreasGrow ==
  ASSUME NEW p, NEW now, NEW a, NEW line, NEW users, NEW server, NEW people, Good(p, now, a, line, users, server, people),
         plan[p].servers \in Nat, TimesOK(p, now, a, users, server, people), NEW t \in Nat, now <= t, Later(a, t),
         NEW w \in Nat, NEW q, NEW b, AreasOK(q, b, p, w, plan[p].servers, people, now)
  PROVE  AreasOK(q + Len(line) * Span(w, now, t), b + Cardinality(users) * Span(w, now, t), p, w, plan[p].servers, people, t)
<1>0. now \in Nat /\ line \in Seq(Nat) /\ people \in Seq(CustomerRows)
  BY GoodProperties
<1>1. PICK n \in Nat : n = plan[p].servers
  OBVIOUS
<1>2. PICK d \in Nat : d = Span(w, now, t)
  BY <1>0, SpanAdds
<1>3. PICK m \in Nat : m = Cardinality(users)
  BY FS_CardinalityType DEF Good, Orderly, CountersOK
<1>4. m <= n
  BY <1>1, <1>3 DEF Good, Orderly, CountersOK
<1>5. \A c \in Mine(p, people) : people[c].arrival <= now
  BY DEF TimesOK
<1>6. SumFunction(Waited(p, w, people, now)) \in Int
  BY <1>0, <1>5, WaitedGrows
<1>7. PICK P \in Nat : P = Span(w, 0, now)
  BY <1>0, SpanNumber
<1>8. Span(w, 0, t) = P + d
  <2>1. PICK o \in Nat : o = 0
    OBVIOUS
  <2>2. o <= now /\ now <= t
    BY <1>0, <2>1
  <2>3. Span(w, o, t) = Span(w, o, now) + Span(w, now, t)
    BY <1>0, <2>2, SpanSplits
  <2> QED
    BY <1>2, <1>7, <2>1, <2>3
<1>9. AreasOK(q, b, p, w, n, people, now)
  BY <1>1
<1>10. CASE now = t
  <2>1. d = 0
    BY <1>0, <1>2, <1>10 DEF Span
  <2>2. Len(line) \in Nat
    BY <1>0, LenProperties
  <2>3. SumFunction(ServedFor(p, w, people, now)) \in Int
    <3>1. IsFiniteSet(Started(p, people))
      BY <1>0, PeopleAre
    <3>2. PICK f : f = ServedFor(p, w, people, now)
      OBVIOUS
    <3>3. DOMAIN f = Started(p, people)
      BY <3>2 DEF ServedFor
    <3>4. \A c \in DOMAIN f : f[c] \in Int
      <4>1. ASSUME NEW c \in Started(p, people) PROVE f[c] \in Int
        <5>1. c \in DOMAIN people /\ people[c].start # Never
          BY DEF Started, Mine
        <5>2. people[c].work \in Nat /\ people[c].start \in Nat
          BY <1>0, <5>1, PeopleAre
        <5>3. PICK s \in Nat : s = people[c].start
          BY <5>2
        <5>a. PICK z \in Nat : z = people[c].start + people[c].work
          BY <5>2
        <5>4. PICK e \in Nat : e = IF z <= now THEN z ELSE now
          BY <1>0
        <5>5. f[c] = Span(w, s, e)
          BY <3>2, <5>3, <5>a, <5>4 DEF ServedFor
        <5> QED
          BY <5>5 DEF Span
      <4> QED
        BY <3>3, <4>1
    <3> QED
      BY <3>1, <3>2, <3>3, <3>4, SumStep
  <2>4. q \in Int /\ b \in Int
    BY <1>6, <1>9, <2>3 DEF AreasOK
  <2>5. q + Len(line) * d = q /\ b + m * d = b
    BY <2>1, <2>2, <2>4
  <2> QED
    BY <1>1, <1>2, <1>3, <1>9, <1>10, <2>5
<1>11. CASE now # t
  <2>1. now < t
    BY <1>0, <1>11
  <2>2. /\ Len(line) = Cardinality(Mine(p, people) \ Started(p, people)) /\ Len(line) \in Nat
        /\ Attended(p, people, users, now, t)
    BY <2>1, TimePasses
  <2>3. SumFunction(Waited(p, w, people, t)) = SumFunction(Waited(p, w, people, now)) + Len(line) * d
    BY <1>0, <1>2, <1>5, <2>2, WaitedGrows, SMTT(30)
  <2>4. /\ SumFunction(ServedFor(p, w, people, now)) \in Int
        /\ SumFunction(ServedFor(p, w, people, t)) = SumFunction(ServedFor(p, w, people, now)) + m * d
    BY <1>0, <1>2, <1>3, <2>1, <2>2, ServedGrows
  <2>5. Full(p, w, n, people, t) <=> Full(p, w, n, people, now) /\ (d = 0 \/ m = n)
    BY <1>0, <1>2, <1>3, <2>1, <2>2, FullGrows
  <2>6. q = SumFunction(Waited(p, w, people, now)) /\ b = SumFunction(ServedFor(p, w, people, now)) /\ b <= n * P
        /\ ((b = n * P) <=> Full(p, w, n, people, now))
    BY <1>7, <1>9 DEF AreasOK
  <2>7. PICK x \in Int, y \in Int, z \in Int : x = m * d /\ y = n * d /\ z = n * P
    OBVIOUS
  <2>8. x <= y /\ ((x = y) <=> (d = 0 \/ m = n))
    BY <1>4, <2>7, Products
  <2>9. n * (P + d) = z + y
    BY <2>7
  <2>10. b + x <= z + y /\ ((b + x = z + y) <=> (b = z /\ x = y))
    BY <2>4, <2>6, <2>7, <2>8
  <2>11. (b + x = n * (P + d)) <=> Full(p, w, n, people, t)
    BY <2>5, <2>6, <2>7, <2>8, <2>9, <2>10
  <2>12. AreasOK(q + Len(line) * d, b + m * d, p, w, n, people, t)
    BY <1>8, <2>3, <2>4, <2>6, <2>7, <2>9, <2>10, <2>11 DEF AreasOK
  <2> QED
    BY <1>1, <1>2, <1>3, <2>12
<1> QED
  BY <1>10, <1>11

-----------------------------------------------------------------------------
(* Customers come and begin *)

\* These are the same customers of period p, as far as they have begun.
SameBegun(p, people, more) ==
  Started(p, more) = Started(p, people) /\ \A c \in Started(p, people) : more[c] = people[c]

\* What depends on those who have begun is the same then.
LEMMA SameStarted ==
  ASSUME NEW p, NEW w, NEW people, NEW more, SameBegun(p, people, more)
  PROVE  /\ Counted(p, w, more) = Counted(p, w, people) /\ Waits(p, w, more) = Waits(p, w, people)
         /\ \A u : InService(p, more, u) = InService(p, people, u)
         /\ \A t : ServedFor(p, w, more, t) = ServedFor(p, w, people, t)
         /\ \A n, t : Full(p, w, n, more, t) <=> Full(p, w, n, people, t)
<1>1. Started(p, more) = Started(p, people) /\ \A c \in Started(p, people) : more[c] = people[c]
  BY DEF SameBegun
<1>2. Counted(p, w, more) = Counted(p, w, people)
  BY <1>1 DEF Counted
<1>3. \A c \in Counted(p, w, people) : more[c] = people[c]
  BY <1>1 DEF Counted
<1>4. Waits(p, w, more) = Waits(p, w, people)
  BY <1>2, <1>3 DEF Waits
<1>5. ASSUME NEW u PROVE InService(p, more, u) = InService(p, people, u)
  BY <1>1 DEF InService
<1>6. ASSUME NEW t PROVE ServedFor(p, w, more, t) = ServedFor(p, w, people, t)
  BY <1>1 DEF ServedFor
<1>7. ASSUME NEW n, NEW t PROVE Full(p, w, n, more, t) <=> Full(p, w, n, people, t)
  BY <1>5 DEF Full
<1> QED
  BY <1>2, <1>4, <1>5, <1>6, <1>7

\* These are the same customers of period p.
SameOf(p, people, more) ==
  Mine(p, more) = Mine(p, people) /\ \A c \in Mine(p, people) : more[c] = people[c]

\* Everything said of the period is the same then.
LEMMA SameCustomers ==
  ASSUME NEW p, NEW w, NEW people, NEW more, SameOf(p, people, more)
  PROVE  /\ SameBegun(p, people, more) /\ Left(p, more) = Left(p, people) /\ Mine(p, more) = Mine(p, people)
         /\ \A t : Waited(p, w, more, t) = Waited(p, w, people, t)
<1>1. Mine(p, more) = Mine(p, people) /\ \A c \in Mine(p, people) : more[c] = people[c]
  BY DEF SameOf
<1>2. Started(p, more) = Started(p, people)
  BY <1>1 DEF Started
<1>3. \A c \in Started(p, people) : more[c] = people[c]
  BY <1>1 DEF Started
<1>4. Left(p, more) = Left(p, people)
  BY <1>1 DEF Left
<1>5. ASSUME NEW t PROVE Waited(p, w, more, t) = Waited(p, w, people, t)
  BY <1>1 DEF Waited
<1> QED
  BY <1>1, <1>2, <1>3, <1>4, <1>5 DEF SameBegun

\* The rows of periods whose customers do not change stay true.
LEMMA RowStays ==
  ASSUME NEW row, NEW p, NEW w, NEW n, NEW people, NEW more, SameOf(p, people, more)
  PROVE  /\ RowTrue(row, p, w, n, people) => RowTrue(row, p, w, n, more)
         /\ RowEmpty(row, p, people) => RowEmpty(row, p, more)
<1>1. /\ SameBegun(p, people, more) /\ Left(p, more) = Left(p, people) /\ Mine(p, more) = Mine(p, people)
      /\ Waited(p, w, more, Hours) = Waited(p, w, people, Hours)
  BY SameCustomers
<1>2. /\ Counted(p, w, more) = Counted(p, w, people) /\ Waits(p, w, more) = Waits(p, w, people)
      /\ ServedFor(p, w, more, Hours) = ServedFor(p, w, people, Hours)
      /\ Full(p, w, n, more, Hours) <=> Full(p, w, n, people, Hours)
  BY <1>1, SameStarted
<1>3. Started(p, more) = Started(p, people) /\ \A c \in Started(p, people) : more[c] = people[c]
  BY <1>1 DEF SameBegun
<1>4. AreasOK(row.queueArea, row.busyArea, p, w, n, people, Hours) => AreasOK(row.queueArea, row.busyArea, p, w, n, more, Hours)
  BY <1>1, <1>2 DEF AreasOK
<1>5. TalliesOK(row.served, row.waits, row.initial, p, w, people) => TalliesOK(row.served, row.waits, row.initial, p, w, more)
  BY <1>1, <1>2 DEF TalliesOK
<1>6. RowTrue(row, p, w, n, people) => RowTrue(row, p, w, n, more)
  BY <1>1, <1>2, <1>3, <1>4, <1>5 DEF RowTrue
<1> QED
  BY <1>1, <1>6 DEF RowEmpty

\* Customer c of period p comes at t.
NewIn(people, more, c, p, t) ==
  /\ people \in Seq(CustomerRows) /\ more \in Seq(CustomerRows)
  /\ c \notin DOMAIN people /\ DOMAIN more = DOMAIN people \cup {c}
  /\ \A b \in DOMAIN people : more[b] = people[b]
  /\ more[c] = NewCustomer(p, t)

\* Nothing is different for those who have begun, and nobody was left over; he has not waited yet.
LEMMA ComerAdded ==
  ASSUME NEW people, NEW more, NEW c, NEW p, NEW t \in Nat, NewIn(people, more, c, p, t), NEW w \in Nat
  PROVE  /\ SameBegun(p, people, more) /\ Mine(p, more) = Mine(p, people) \cup {c}
         /\ t # 0 => Left(p, more) = Left(p, people)
         /\ SumFunction(Waited(p, w, more, t)) = SumFunction(Waited(p, w, people, t))
         /\ \A k : k # p => SameOf(k, people, more)
<1>0. /\ people \in Seq(CustomerRows) /\ more \in Seq(CustomerRows)
      /\ c \notin DOMAIN people /\ DOMAIN more = DOMAIN people \cup {c}
      /\ \A b \in DOMAIN people : more[b] = people[b]
  BY DEF NewIn
<1>1. more[c].period = p /\ more[c].arrival = t /\ more[c].start = Never
  BY DEF NewIn, NewCustomer
<1>2. Mine(p, more) = Mine(p, people) \cup {c} /\ c \notin Mine(p, people) /\ \A b \in Mine(p, people) : more[b] = people[b]
  BY <1>0, <1>1 DEF Mine
<1>3. Started(p, more) = Started(p, people)
  BY <1>1, <1>2 DEF Started
<1>4. SameBegun(p, people, more)
  BY <1>2, <1>3 DEF SameBegun, Started
<1>5. t # 0 => Left(p, more) = Left(p, people)
  BY <1>1, <1>2 DEF Left
<1>6. ASSUME NEW k, k # p PROVE SameOf(k, people, more)
  BY <1>0, <1>1, <1>6 DEF SameOf, Mine
<1>7. PICK f : f = Waited(p, w, people, t)
  OBVIOUS
<1>8. PICK g : g = Waited(p, w, more, t)
  OBVIOUS
<1>9. Gains(f, g, c, 0)
  <2>1. IsFiniteSet(Mine(p, people)) /\ DOMAIN f = Mine(p, people) /\ DOMAIN g = Mine(p, more)
    BY <1>0, <1>7, <1>8, PeopleAre DEF Waited
  <2>2. g[c] = 0
    <3>1. g[c] = Span(w, t, t)
      BY <1>1, <1>2, <1>8 DEF Waited
    <3> QED
      BY <3>1 DEF Span
  <2>3. ASSUME NEW b \in Mine(p, people) PROVE f[b] \in Int /\ g[b] = f[b]
    <3>1. b \in DOMAIN people
      BY DEF Mine
    <3>2. people[b].arrival \in Nat /\ (people[b].start # Never => people[b].start \in Nat)
      BY <1>0, <3>1, PeopleAre
    <3>3. PICK e \in Nat : e = IF people[b].start # Never THEN people[b].start ELSE t
      BY <3>2
    <3>4. PICK x \in Nat : x = people[b].arrival
      BY <3>2
    <3>5. f[b] = Span(w, x, e) /\ g[b] = f[b]
      BY <1>2, <1>7, <1>8, <3>3, <3>4 DEF Waited
    <3>6. Span(w, x, e) \in Nat
      BY SpanNumber
    <3> QED
      BY <3>5, <3>6
  <2>4. f = [b \in DOMAIN f |-> f[b]] /\ g = [b \in DOMAIN g |-> g[b]]
    BY <1>7, <1>8 DEF Waited
  <2> QED
    BY <1>2, <2>1, <2>2, <2>3, <2>4 DEF Gains
<1>10. SumFunction(g) = SumFunction(f) + 0 /\ SumFunction(f) \in Int
  BY <1>9, GainsValue
<1> QED
  BY <1>2, <1>4, <1>5, <1>6, <1>7, <1>8, <1>10

\* One who comes leaves the areas and the tallies as they are.
LEMMA ComerCounts ==
  ASSUME NEW people, NEW more, NEW c, NEW p, NEW t \in Nat, t # 0, NewIn(people, more, c, p, t), NEW w \in Nat, NEW n
  PROVE  /\ \A q, b : AreasOK(q, b, p, w, n, people, t) => AreasOK(q, b, p, w, n, more, t)
         /\ \A served, waits, left : TalliesOK(served, waits, left, p, w, people) => TalliesOK(served, waits, left, p, w, more)
<1>1. /\ SameBegun(p, people, more) /\ Left(p, more) = Left(p, people)
      /\ SumFunction(Waited(p, w, more, t)) = SumFunction(Waited(p, w, people, t))
  BY ComerAdded
<1>2. /\ Counted(p, w, more) = Counted(p, w, people) /\ Waits(p, w, more) = Waits(p, w, people)
      /\ ServedFor(p, w, more, t) = ServedFor(p, w, people, t)
      /\ Full(p, w, n, more, t) <=> Full(p, w, n, people, t)
  BY <1>1, SameStarted
<1> QED
  BY <1>1, <1>2 DEF AreasOK, TalliesOK

\* Customer c of period p begins at now.
BeginsIn(people, after, c, p, now, work) ==
  /\ people \in Seq(CustomerRows) /\ after \in Seq(CustomerRows) /\ DOMAIN after = DOMAIN people
  /\ c \in DOMAIN people /\ people[c].period = p /\ people[c].start = Never
  /\ \A b \in DOMAIN people : b # c => after[b] = people[b]
  /\ after[c].period = p /\ after[c].arrival = people[c].arrival /\ after[c].start = now /\ after[c].work = work

\* He has begun then; nobody else's times change, nor does anything in other periods.
BegunIn(people, after, c, p, now) ==
  /\ Mine(p, after) = Mine(p, people) /\ c \in Mine(p, people)
  /\ Started(p, after) = Started(p, people) \cup {c} /\ c \notin Started(p, people)
  /\ \A b \in Mine(p, people) : b # c => after[b] = people[b]
  /\ Left(p, after) = Left(p, people)
  /\ \A w : Waited(p, w, after, now) = Waited(p, w, people, now)
  /\ \A k : k # p => SameOf(k, people, after)

\* So it is when a customer begins.
LEMMA BeginnerAdded ==
  ASSUME NEW people, NEW after, NEW c, NEW p, NEW now \in Nat, NEW work \in Nat, BeginsIn(people, after, c, p, now, work)
  PROVE  BegunIn(people, after, c, p, now)
<1>0. /\ people \in Seq(CustomerRows) /\ after \in Seq(CustomerRows) /\ DOMAIN after = DOMAIN people
      /\ c \in DOMAIN people /\ people[c].period = p /\ people[c].start = Never
      /\ (\A b \in DOMAIN people : b # c => after[b] = people[b])
      /\ after[c].period = p /\ after[c].arrival = people[c].arrival /\ after[c].start = now /\ after[c].work = work
  BY DEF BeginsIn
<1>1. now # Never
  BY DEF Never
<1>2. Mine(p, after) = Mine(p, people) /\ c \in Mine(p, people) /\ \A b \in Mine(p, people) : b # c => after[b] = people[b]
  <2>1. ASSUME NEW b \in DOMAIN people PROVE (after[b].period = p) <=> (people[b].period = p)
    BY <1>0
  <2> QED
    BY <1>0, <2>1 DEF Mine
<1>3. Started(p, after) = Started(p, people) \cup {c} /\ c \notin Started(p, people)
  <2>1. ASSUME NEW b \in Mine(p, people), b # c PROVE (after[b].start # Never) <=> (people[b].start # Never)
    BY <1>2, <2>1
  <2> QED
    BY <1>0, <1>1, <1>2, <2>1 DEF Started
<1>4. Left(p, after) = Left(p, people)
  <2>1. ASSUME NEW b \in Mine(p, people) PROVE after[b].arrival = people[b].arrival
    BY <1>0, <1>2
  <2> QED
    BY <1>2, <2>1 DEF Left
<1>5. ASSUME NEW w PROVE Waited(p, w, after, now) = Waited(p, w, people, now)
  <2>1. ASSUME NEW b \in Mine(p, people)
        PROVE  /\ after[b].arrival = people[b].arrival
               /\ (IF after[b].start # Never THEN after[b].start ELSE now) = (IF people[b].start # Never THEN people[b].start ELSE now)
    <3>1. CASE b = c
      BY <1>0, <1>1, <3>1
    <3>2. CASE b # c
      BY <1>2, <3>2
    <3> QED
      BY <3>1, <3>2
  <2>2. \A b \in Mine(p, people) :
          Span(w, after[b].arrival, IF after[b].start # Never THEN after[b].start ELSE now)
            = Span(w, people[b].arrival, IF people[b].start # Never THEN people[b].start ELSE now)
    BY <2>1
  <2> QED
    BY <1>2, <2>2 DEF Waited
<1>6. ASSUME NEW k, k # p PROVE SameOf(k, people, after)
  <2>1. ASSUME NEW b \in DOMAIN people PROVE (after[b].period = k) <=> (people[b].period = k)
    BY <1>0, <1>6
  <2>2. Mine(k, after) = Mine(k, people)
    BY <1>0, <2>1 DEF Mine
  <2>3. \A b \in Mine(k, people) : after[b] = people[b]
    BY <1>0, <1>6 DEF Mine
  <2> QED
    BY <2>2, <2>3 DEF SameOf
<1> QED
  BY <1>2, <1>3, <1>4, <1>5, <1>6 DEF BegunIn

\* The areas are as they were: his service begins just now.
LEMMA BeginnerAreas ==
  ASSUME NEW people, NEW after, NEW c, NEW p, NEW now \in Nat, NEW work \in Nat, BeginsIn(people, after, c, p, now, work),
         NEW w \in Nat, NEW n, NEW q, NEW b, AreasOK(q, b, p, w, n, people, now)
  PROVE  AreasOK(q, b, p, w, n, after, now)
<1>0. people \in Seq(CustomerRows) /\ after \in Seq(CustomerRows) /\ after[c].start = now /\ after[c].work = work
  BY DEF BeginsIn
<1>a. BegunIn(people, after, c, p, now)
  BY BeginnerAdded
<1>1. /\ Started(p, after) = Started(p, people) \cup {c} /\ c \notin Started(p, people)
      /\ (\A d \in Mine(p, people) : d # c => after[d] = people[d])
      /\ Waited(p, w, after, now) = Waited(p, w, people, now)
  BY <1>a DEF BegunIn
<1>2. \A d \in Started(p, people) : after[d] = people[d]
  BY <1>1 DEF Started
<1>3. PICK f : f = ServedFor(p, w, people, now)
  OBVIOUS
<1>4. PICK g : g = ServedFor(p, w, after, now)
  OBVIOUS
<1>5. Gains(f, g, c, 0)
  <2>1. IsFiniteSet(Started(p, people)) /\ DOMAIN f = Started(p, people) /\ DOMAIN g = Started(p, after)
    BY <1>0, <1>3, <1>4, PeopleAre DEF ServedFor
  <2>2. g[c] = 0
    <3>1. g[c] = Span(w, now, IF now + work <= now THEN now + work ELSE now)
      BY <1>0, <1>1, <1>4 DEF ServedFor
    <3>2. (IF now + work <= now THEN now + work ELSE now) = now
      OBVIOUS
    <3>3. g[c] = Span(w, now, now)
      BY <3>1, <3>2
    <3> QED
      BY <3>3 DEF Span
  <2>3. ASSUME NEW d \in Started(p, people) PROVE f[d] \in Int /\ g[d] = f[d]
    <3>1. d \in DOMAIN people /\ people[d].start # Never
      BY DEF Started, Mine
    <3>2. people[d].start \in Nat /\ people[d].work \in Nat
      BY <1>0, <3>1, PeopleAre
    <3>3. PICK x \in Nat : x = people[d].start
      BY <3>2
    <3>4. PICK z \in Nat : z = people[d].start + people[d].work
      BY <3>2
    <3>5. PICK e \in Nat : e = IF z <= now THEN z ELSE now
      OBVIOUS
    <3>6. f[d] = Span(w, x, e) /\ g[d] = f[d]
      BY <1>1, <1>2, <1>3, <1>4, <3>3, <3>4, <3>5 DEF ServedFor
    <3>7. Span(w, x, e) \in Nat
      BY SpanNumber
    <3> QED
      BY <3>6, <3>7
  <2>4. f = [d \in DOMAIN f |-> f[d]] /\ g = [d \in DOMAIN g |-> g[d]]
    BY <1>3, <1>4 DEF ServedFor
  <2> QED
    BY <1>1, <2>1, <2>2, <2>3, <2>4 DEF Gains
<1>6. SumFunction(g) = SumFunction(f) + 0 /\ SumFunction(f) \in Int
  BY <1>5, GainsValue
<1>7. Full(p, w, n, after, now) <=> Full(p, w, n, people, now)
  <2>1. ASSUME NEW u \in w .. now - 1
        PROVE  InService(p, after, u) = InService(p, people, u)
    <3>1. ~ (after[c].start <= u)
      BY <1>0
    <3> QED
      BY <1>1, <1>2, <3>1 DEF InService
  <2> QED
    BY <2>1 DEF Full
<1> QED
  BY <1>1, <1>3, <1>4, <1>6, <1>7 DEF AreasOK

\* He is counted if the warm-up is over.
LEMMA BeginnerTallies ==
  ASSUME NEW people, NEW after, NEW c, NEW p, NEW now \in Nat, NEW work \in Nat, BeginsIn(people, after, c, p, now, work),
         NEW w \in Nat, NEW served, NEW waits, NEW left, TalliesOK(served, waits, left, p, w, people)
  PROVE  TalliesOK(IF now >= w THEN served + 1 ELSE served, IF now >= w THEN waits + now - people[c].arrival ELSE waits,
                   left, p, w, after)
<1>0. people \in Seq(CustomerRows) /\ after \in Seq(CustomerRows) /\ after[c].start = now /\ after[c].arrival = people[c].arrival
      /\ c \in DOMAIN people
  BY DEF BeginsIn
<1>a. BegunIn(people, after, c, p, now)
  BY BeginnerAdded
<1>1. /\ Started(p, after) = Started(p, people) \cup {c} /\ c \notin Started(p, people)
      /\ (\A d \in Mine(p, people) : d # c => after[d] = people[d])
      /\ Left(p, after) = Left(p, people)
  BY <1>a DEF BegunIn
<1>2. \A d \in Started(p, people) : after[d] = people[d]
  BY <1>1 DEF Started
<1>3. PICK x \in Nat : x = people[c].arrival
  BY <1>0, PeopleAre
<1>4. IsFiniteSet(Counted(p, w, people)) /\ Cardinality(Counted(p, w, people)) \in Nat /\ c \notin Counted(p, w, people)
  BY <1>0, <1>1, PeopleAre, FS_CardinalityType DEF Counted
<1>5. CASE now >= w
  <2>1. Counted(p, w, after) = Counted(p, w, people) \cup {c}
    BY <1>0, <1>1, <1>2, <1>5 DEF Counted
  <2>2. Cardinality(Counted(p, w, after)) = Cardinality(Counted(p, w, people)) + 1
    BY <1>4, <2>1, FS_AddElement
  <2>3. PICK f : f = Waits(p, w, people)
    OBVIOUS
  <2>4. PICK g : g = Waits(p, w, after)
    OBVIOUS
  <2>5. PICK v \in Int : v = now - x
    OBVIOUS
  <2>6. Gains(f, g, c, v)
    <3>1. DOMAIN f = Counted(p, w, people) /\ DOMAIN g = Counted(p, w, after)
      BY <2>3, <2>4 DEF Waits
    <3>2. g[c] = v
      BY <1>0, <1>3, <2>1, <2>4, <2>5 DEF Waits
    <3>3. ASSUME NEW d \in Counted(p, w, people) PROVE f[d] \in Int /\ g[d] = f[d]
      <4>1. d \in Started(p, people) /\ d \in DOMAIN people /\ people[d].start # Never
        BY DEF Counted, Started, Mine
      <4>2. people[d].start \in Nat /\ people[d].arrival \in Nat
        BY <1>0, <4>1, PeopleAre
      <4> QED
        BY <1>2, <2>1, <2>3, <2>4, <4>1, <4>2 DEF Waits
    <3>4. f = [d \in DOMAIN f |-> f[d]] /\ g = [d \in DOMAIN g |-> g[d]]
      BY <2>3, <2>4 DEF Waits
    <3> QED
      BY <1>4, <2>1, <3>1, <3>2, <3>3, <3>4 DEF Gains
  <2>7. SumFunction(g) = SumFunction(f) + v /\ SumFunction(f) \in Int
    BY <2>6, GainsValue
  <2>8. served = Cardinality(Counted(p, w, people)) /\ waits = SumFunction(f) /\ left = Cardinality(Left(p, people))
    BY <2>3 DEF TalliesOK
  <2>9. waits + now - people[c].arrival = SumFunction(g)
    BY <1>3, <2>5, <2>7, <2>8
  <2> QED
    BY <1>1, <1>5, <2>2, <2>4, <2>8, <2>9 DEF TalliesOK
<1>6. CASE ~ (now >= w)
  <2>1. Counted(p, w, after) = Counted(p, w, people)
    BY <1>0, <1>1, <1>2, <1>6 DEF Counted
  <2>2. \A d \in Counted(p, w, people) : after[d] = people[d]
    BY <1>2 DEF Counted
  <2>3. Waits(p, w, after) = Waits(p, w, people)
    BY <2>1, <2>2 DEF Waits
  <2> QED
    BY <1>1, <1>6, <2>1, <2>3 DEF TalliesOK
<1> QED
  BY <1>5, <1>6

-----------------------------------------------------------------------------
(* What the agenda says of the customers *)

\* The entries of an agenda with one more.
LEMMA EntryPlaced ==
  ASSUME NEW a \in Seq(Entries), InTime(a), NEW x \in Entries
  PROVE  \A e : e \in Range(Placed(a, x)) <=> e \in Range(a) \/ e = x
<1>1. PICK b : b = Placed(a, x)
  OBVIOUS
<1>2. PICK k \in 0 .. Len(a) : b \in Seq(Entries) /\ Grown(a, k, x, b)
  BY <1>1, PlacedIs
<1>3. /\ \A j \in DOMAIN b :
           \/ j <= k /\ j \in DOMAIN a /\ b[j] = a[j]
           \/ j = k + 1 /\ b[j] = x
           \/ j > k + 1 /\ j - 1 \in DOMAIN a /\ j - 1 > k /\ b[j] = a[j - 1]
      /\ \A i \in DOMAIN a : \E j \in DOMAIN b : b[j] = a[i]
      /\ k + 1 \in DOMAIN b /\ b[k + 1] = x
  BY <1>2, Moved
<1>4. ASSUME NEW e \in Range(b) PROVE e \in Range(a) \/ e = x
  <2>1. PICK j \in DOMAIN b : e = b[j]
    BY DEF Range
  <2> QED
    BY <1>3, <2>1 DEF Range
<1>5. ASSUME NEW e \in Range(a) PROVE e \in Range(b)
  <2>1. PICK i \in DOMAIN a : e = a[i]
    BY DEF Range
  <2>2. PICK j \in DOMAIN b : b[j] = a[i]
    BY <1>3
  <2> QED
    BY <2>1, <2>2 DEF Range
<1>6. x \in Range(b)
  BY <1>3 DEF Range
<1> QED
  BY <1>1, <1>4, <1>5, <1>6

\* The entries of an agenda are its first and the others; who is called is read off them.
LEMMA EntriesAre ==
  ASSUME NEW a \in Seq(Entries)
  PROVE  /\ a # <<>> => \A e : e \in Range(a) <=> e = Head(a) \/ e \in Range(Tail(a))
         /\ \A c : c \in Called(a) <=> \E e \in Range(a) : e.what = "granted" /\ e.of = c
<1>0. Len(a) \in Nat /\ DOMAIN a = 1 .. Len(a)
  BY LenProperties
<1>1. ASSUME a # <<>>
      PROVE  \A e : e \in Range(a) <=> e = Head(a) \/ e \in Range(Tail(a))
  <2>1. PICK b : b = Tail(a)
    OBVIOUS
  <2>2. Len(a) # 0 /\ Head(a) = a[1] /\ 1 \in DOMAIN a
    BY <1>0, <1>1, EmptySeq
  <2>3. DOMAIN b = 1 .. Len(a) - 1 /\ \A i \in DOMAIN b : b[i] = a[i + 1] /\ i + 1 \in DOMAIN a
    <3>1. b \in Seq(Entries) /\ Len(b) = Len(a) - 1 /\ \A i \in 1 .. Len(b) : b[i] = a[i + 1]
      BY <1>1, <2>1, HeadTailProperties
    <3>2. DOMAIN b = 1 .. Len(a) - 1
      BY <3>1, LenProperties
    <3> QED
      BY <1>0, <3>1, <3>2
  <2>4. ASSUME NEW e \in Range(a) PROVE e = Head(a) \/ e \in Range(b)
    <3>1. PICK i \in DOMAIN a : e = a[i]
      BY DEF Range
    <3>2. CASE i = 1
      BY <2>2, <3>1, <3>2
    <3>3. CASE i # 1
      <4>1. i - 1 \in DOMAIN b /\ i - 1 + 1 = i
        BY <1>0, <2>3, <3>3
      <4>2. b[i - 1] = a[i]
        BY <2>3, <4>1
      <4> QED
        BY <3>1, <4>1, <4>2 DEF Range
    <3> QED
      BY <3>2, <3>3
  <2>5. ASSUME NEW e \in Range(b) PROVE e \in Range(a)
    BY <2>3 DEF Range
  <2>6. Head(a) \in Range(a)
    BY <2>2 DEF Range
  <2> QED
    BY <2>1, <2>4, <2>5, <2>6
<1>2. ASSUME NEW c
      PROVE  c \in Called(a) <=> \E e \in Range(a) : e.what = "granted" /\ e.of = c
  BY DEF Called, Named, Range
<1> QED
  BY <1>1, <1>2

\* Nothing is due before the first entry, which is not in the past.
LEMMA FirstIsNext ==
  ASSUME NEW a, NEW now \in Nat, NEW users, NEW server, AgendaOK(a, now, users, server), a # <<>>
  PROVE  Later(a, Head(a).at) /\ Head(a).at \in Nat /\ now <= Head(a).at /\ Head(a) \in Range(a)
<1>1. a \in Seq(Entries) /\ \A i, j \in DOMAIN a : i < j => a[i].at <= a[j].at
  BY DEF AgendaOK
<1>2. Len(a) \in Nat /\ DOMAIN a = 1 .. Len(a) /\ \A i \in 1 .. Len(a) : a[i].at \in Nat
  BY <1>1, AgendaProperties
<1>3. Head(a) = a[1] /\ 1 \in DOMAIN a
  BY <1>1, <1>2, EmptySeq
<1>4. ASSUME NEW i \in DOMAIN a PROVE a[i].at >= a[1].at
  <2>1. CASE i = 1
    BY <1>2, <1>3, <2>1
  <2>2. CASE i # 1
    <3>1. 1 < i
      BY <1>2, <2>2
    <3>2. a[1].at <= a[i].at
      BY <1>1, <1>3, <3>1
    <3> QED
      BY <1>2, <1>3, <3>2
  <2> QED
    BY <2>1, <2>2
<1>5. Head(a).at \in Nat
  BY <1>2, <1>3
<1>6. a[1].at >= now
  BY <1>3 DEF AgendaOK
<1> QED
  BY <1>3, <1>4, <1>5, <1>6 DEF Later, Range

\* An arrival is taken out of the agenda; it is not at time 0.
LEMMA TimesArrival ==
  ASSUME NEW p, NEW now, NEW a, NEW line, NEW users, NEW server, NEW people, Good(p, now, a, line, users, server, people),
         TimesOK(p, now, a, users, server, people), a # <<>>, Head(a).what = "arrival", Head(a).at < Hours
  PROVE  TimesOK(p, Head(a).at, Tail(a), users, server, people) /\ Head(a).at # 0
<1>1. now \in Nat /\ a \in Seq(Entries) /\ people \in Seq(CustomerRows) /\ AgendaOK(a, now, users, server)
  BY GoodProperties DEF Good, Orderly
<1>2. Head(a).at \in Nat /\ now <= Head(a).at /\ Head(a) \in Range(a)
  BY <1>1, FirstIsNext
<1>3. PICK t \in Nat : t = Head(a).at
  BY <1>2
<1>4. t > 0
  BY <1>2, <1>3 DEF TimesOK
<1>5. \A e : e \in Range(a) <=> e = Head(a) \/ e \in Range(Tail(a))
  BY <1>1, EntriesAre
<1>6. Called(Tail(a)) = Called(a)
  BY <1>1, TakenOut
<1>7. ASSUME NEW c \in DOMAIN server
      PROVE  c \in Started(p, people) /\ \E e \in Range(Tail(a)) : e.what = "end" /\ e.of = c
  BY <1>5 DEF TimesOK
<1>8. ASSUME NEW c \in Mine(p, people) PROVE people[c].arrival <= t
  <2>1. people[c].arrival <= now /\ people[c].arrival \in Nat
    BY <1>1, PeopleAre DEF TimesOK, Mine
  <2> QED
    BY <1>1, <1>2, <1>3, <2>1
<1>9. ASSUME NEW c \in Started(p, people)
      PROVE  /\ people[c].arrival <= people[c].start /\ people[c].start <= t /\ people[c].work > 0
             /\ c \notin DOMAIN server => people[c].start + people[c].work <= t
  <2>1. people[c].start \in Nat /\ people[c].work \in Nat
    BY <1>1, PeopleAre DEF Started, Mine
  <2>2. /\ people[c].arrival <= people[c].start /\ people[c].start <= now /\ people[c].work > 0
        /\ c \notin DOMAIN server => people[c].start + people[c].work <= now
    BY DEF TimesOK
  <2>3. PICK s \in Nat : s = people[c].start
    BY <2>1
  <2>4. PICK z \in Nat : z = people[c].start + people[c].work
    BY <2>1
  <2>5. now <= t
    BY <1>2, <1>3
  <2>6. s <= now /\ (c \notin DOMAIN server => z <= now)
    BY <2>2, <2>3, <2>4
  <2>7. s <= t /\ (c \notin DOMAIN server => z <= t)
    BY <1>1, <2>5, <2>6
  <2> QED
    BY <2>2, <2>3, <2>4, <2>7
<1>10. /\ \A e \in Range(Tail(a)) : e.what = "arrival" => e.at > 0
       /\ \A e \in Range(Tail(a)) : e.what = "end" => e.at = people[e.of].start + people[e.of].work
       /\ users \subseteq DOMAIN server \cup Called(Tail(a))
  BY <1>5, <1>6 DEF TimesOK
<1>11. TimesOK(p, t, Tail(a), users, server, people)
  BY <1>3, <1>7, <1>8, <1>9, <1>10 DEF TimesOK
<1> QED
  BY <1>3, <1>4, <1>11

\* Another arrival is scheduled.
LEMMA TimesNextArrival ==
  ASSUME NEW p, NEW now, NEW a \in Seq(Entries), InTime(a), NEW users, NEW server, NEW people,
         TimesOK(p, now, a, users, server, people), NEW x \in Entries, x.what = "arrival", x.at > 0
  PROVE  TimesOK(p, now, Placed(a, x), users, server, people)
<1>1. PICK b : b = Placed(a, x)
  OBVIOUS
<1>2. b \in Seq(Entries) /\ \A e : e \in Range(b) <=> e \in Range(a) \/ e = x
  BY <1>1, EntryPlaced, PlacedIs
<1>3. Called(b) = Called(a)
  <2>1. \A c : c \in Called(a) <=> \E e \in Range(a) : e.what = "granted" /\ e.of = c
    BY EntriesAre
  <2>2. \A c : c \in Called(b) <=> \E e \in Range(b) : e.what = "granted" /\ e.of = c
    BY <1>2, EntriesAre
  <2>3. \A c : c \in Called(b) <=> c \in Called(a)
    BY <1>2, <2>1, <2>2
  <2> QED
    BY <2>3
<1> QED
  BY <1>1, <1>2, <1>3 DEF TimesOK

\* A counter is to be offered to the line.
LEMMA TimesReleased ==
  ASSUME NEW p, NEW now, NEW a \in Seq(Entries), InTime(a), NEW users, NEW server, NEW people,
         TimesOK(p, now, a, users, server, people), NEW x \in Entries, x.what = "released"
  PROVE  TimesOK(p, now, Placed(a, x), users, server, people)
<1>1. PICK b : b = Placed(a, x)
  OBVIOUS
<1>2. b \in Seq(Entries) /\ \A e : e \in Range(b) <=> e \in Range(a) \/ e = x
  BY <1>1, EntryPlaced, PlacedIs
<1>3. Called(b) = Called(a)
  <2>1. \A c : c \in Called(a) <=> \E e \in Range(a) : e.what = "granted" /\ e.of = c
    BY EntriesAre
  <2>2. \A c : c \in Called(b) <=> \E e \in Range(b) : e.what = "granted" /\ e.of = c
    BY <1>2, EntriesAre
  <2>3. \A c : c \in Called(b) <=> c \in Called(a)
    BY <1>2, <2>1, <2>2
  <2> QED
    BY <2>3
<1> QED
  BY <1>1, <1>2, <1>3 DEF TimesOK

\* A counter is offered.
LEMMA TimesOffered ==
  ASSUME NEW p, NEW now \in Nat, NEW a, NEW users, NEW server, NEW people, AgendaOK(a, now, users, server),
         TimesOK(p, now, a, users, server, people), a # <<>>, Head(a).what = "released"
  PROVE  TimesOK(p, now, Tail(a), users, server, people)
<1>1. PICK r : r = Tail(a)
  OBVIOUS
<1>2. a \in Seq(Entries)
  BY DEF AgendaOK
<1>3. \A e : e \in Range(a) <=> e = Head(a) \/ e \in Range(r)
  BY <1>1, <1>2, EntriesAre
<1>4. Called(r) = Called(a)
  BY <1>1, TakenOut
<1>5. ASSUME NEW c \in DOMAIN server
      PROVE  c \in Started(p, people) /\ \E e \in Range(r) : e.what = "end" /\ e.of = c
  BY <1>3 DEF TimesOK
<1>6. /\ \A e \in Range(r) : e.what = "arrival" => e.at > 0
      /\ \A e \in Range(r) : e.what = "end" => e.at = people[e.of].start + people[e.of].work
      /\ users \subseteq DOMAIN server \cup Called(r)
  BY <1>3, <1>4 DEF TimesOK
<1> QED
  BY <1>1, <1>5, <1>6 DEF TimesOK

\* Someone is called to a counter.
LEMMA TimesCalled ==
  ASSUME NEW p, NEW now, NEW a \in Seq(Entries), InTime(a), NEW users, NEW server, NEW people,
         TimesOK(p, now, a, users, server, people), NEW x \in Entries, x.what = "granted"
  PROVE  TimesOK(p, now, Placed(a, x), users \cup {x.of}, server, people)
<1>1. PICK b : b = Placed(a, x)
  OBVIOUS
<1>2. b \in Seq(Entries) /\ \A e : e \in Range(b) <=> e \in Range(a) \/ e = x
  BY <1>1, EntryPlaced, PlacedIs
<1>3. Called(a) \cup {x.of} \subseteq Called(b)
  <2>1. \A c : c \in Called(a) <=> \E e \in Range(a) : e.what = "granted" /\ e.of = c
    BY EntriesAre
  <2>2. \A c : c \in Called(b) <=> \E e \in Range(b) : e.what = "granted" /\ e.of = c
    BY <1>2, EntriesAre
  <2>3. \A c \in Called(a) : c \in Called(b)
    BY <1>2, <2>1, <2>2
  <2>4. x.of \in Called(b)
    BY <1>2, <2>2
  <2> QED
    BY <2>3, <2>4
<1> QED
  BY <1>1, <1>2, <1>3 DEF TimesOK

\* Someone comes.
LEMMA TimesComer ==
  ASSUME NEW p, NEW now \in Nat, NEW a, NEW users, NEW server, AgendaOK(a, now, users, server), NEW people, NEW more, NEW c,
         NewIn(people, more, c, p, now), TimesOK(p, now, a, users, server, people)
  PROVE  TimesOK(p, now, a, users, server, more)
<1>0. /\ people \in Seq(CustomerRows) /\ c \notin DOMAIN people /\ DOMAIN more = DOMAIN people \cup {c}
      /\ \A b \in DOMAIN people : more[b] = people[b]
  BY DEF NewIn
<1>1. more[c].period = p /\ more[c].arrival = now /\ more[c].start = Never
  BY DEF NewIn, NewCustomer
<1>2. Mine(p, more) = Mine(p, people) \cup {c} /\ \A b \in Mine(p, people) : more[b] = people[b]
  BY <1>0, <1>1 DEF Mine
<1>3. Started(p, more) = Started(p, people) /\ \A b \in Started(p, people) : more[b] = people[b]
  BY <1>1, <1>2 DEF Started
<1>4. ASSUME NEW e \in Range(a), e.what = "end"
      PROVE  e.at = more[e.of].start + more[e.of].work
  <2>1. PICK i \in DOMAIN a : e = a[i]
    BY DEF Range
  <2>2. e.of \in DOMAIN server
    BY <1>4, <2>1 DEF AgendaOK, Named
  <2>3. e.of \in Started(p, people)
    BY <2>2 DEF TimesOK
  <2> QED
    BY <1>3, <1>4, <2>3 DEF TimesOK
<1>5. ASSUME NEW b \in Mine(p, more) PROVE more[b].arrival <= now
  BY <1>1, <1>2 DEF TimesOK
<1> QED
  BY <1>3, <1>4, <1>5 DEF TimesOK

\* The first in the agenda is called and begins; his end of service is put into the agenda.
LEMMA TimesBegins ==
  ASSUME NEW p, NEW now, NEW a, NEW line, NEW users, NEW server, NEW people, Good(p, now, a, line, users, server, people),
         TimesOK(p, now, a, users, server, people), a # <<>>, Head(a).what = "granted", NEW c, c = Head(a).of, Head(a).at = now,
         c \notin DOMAIN server, NEW v, NEW work \in Nat, work > 0, NEW after, BeginsIn(people, after, c, p, now, work)
  PROVE  TimesOK(p, now, Placed(Tail(a), [at |-> now + work, what |-> "end", of |-> c]), users, TakenBy(server, c, v), after)
<1>1. now \in Nat /\ a \in Seq(Entries) /\ people \in Seq(CustomerRows) /\ AgendaOK(a, now, users, server)
  BY GoodProperties DEF Good, Orderly
<1>2. /\ after \in Seq(CustomerRows) /\ after[c].start = now /\ after[c].work = work /\ after[c].arrival = people[c].arrival
      /\ c \in DOMAIN people
  BY DEF BeginsIn
<1>3. BegunIn(people, after, c, p, now)
  BY <1>1, BeginnerAdded
<1>4. /\ Mine(p, after) = Mine(p, people) /\ c \in Mine(p, people)
      /\ Started(p, after) = Started(p, people) \cup {c} /\ c \notin Started(p, people)
      /\ \A b \in Mine(p, people) : b # c => after[b] = people[b]
  BY <1>3 DEF BegunIn
<1>5. PICK r : r = Tail(a)
  OBVIOUS
<1>6. r \in Seq(Entries) /\ InTime(r)
  <2>1. AgendaOK(r, Head(a).at, users, server)
    BY <1>1, <1>5, TakenOut
  <2> QED
    BY <2>1 DEF InTime, AgendaOK
<1>7. \A e : e \in Range(a) <=> e = Head(a) \/ e \in Range(r)
  BY <1>1, <1>5, EntriesAre
<1>8. PICK x : x = [at |-> now + work, what |-> "end", of |-> c]
  OBVIOUS
<1>9. x \in Entries /\ x.what = "end" /\ x.of = c /\ x.at = now + work
  <2>1. c \in Nat
    BY <1>1, <1>2, LenProperties
  <2> QED
    BY <1>1, <1>8, <2>1 DEF Entries, Kinds
<1>10. PICK b : b = Placed(r, x)
  OBVIOUS
<1>11. b \in Seq(Entries) /\ \A e : e \in Range(b) <=> e \in Range(r) \/ e = x
  BY <1>6, <1>9, <1>10, EntryPlaced, PlacedIs
<1>12. ASSUME NEW e \in Range(b), e.what = "end"
       PROVE  e.at = after[e.of].start + after[e.of].work
  <2>1. CASE e = x
    BY <1>2, <1>9, <2>1
  <2>2. CASE e \in Range(r)
    <3>1. PICK i \in DOMAIN a : e = a[i]
      BY <1>7, <2>2 DEF Range
    <3>2. e.of \in DOMAIN server
      BY <1>1, <1>12, <3>1 DEF AgendaOK, Named
    <3>3. e.of \in Started(p, people) /\ e.of # c
      BY <3>2 DEF TimesOK
    <3>4. e.of \in Mine(p, people)
      BY <3>3 DEF Started
    <3>5. e.at = people[e.of].start + people[e.of].work
      BY <1>7, <1>12, <2>2 DEF TimesOK
    <3> QED
      BY <1>4, <3>3, <3>4, <3>5
  <2> QED
    BY <1>11, <2>1, <2>2
<1>13. ASSUME NEW e \in Range(b), e.what = "arrival"
       PROVE  e.at > 0
  BY <1>7, <1>9, <1>11, <1>13 DEF TimesOK
<1>14. PICK held : held = TakenBy(server, c, v)
  OBVIOUS
<1>15. DOMAIN held = DOMAIN server \cup {c}
  BY <1>14 DEF TakenBy
<1>16. ASSUME NEW d \in DOMAIN held
       PROVE  d \in Started(p, after) /\ \E e \in Range(b) : e.what = "end" /\ e.of = d
  <2>1. CASE d = c
    BY <1>4, <1>9, <1>11, <2>1
  <2>2. CASE d # c
    <3>1. d \in DOMAIN server
      BY <1>15, <2>2
    <3>2. d \in Started(p, people) /\ \E e \in Range(a) : e.what = "end" /\ e.of = d
      BY <3>1 DEF TimesOK
    <3> QED
      BY <1>4, <1>7, <1>11, <3>2
  <2> QED
    BY <2>1, <2>2
<1>17. users \subseteq DOMAIN held \cup Called(b)
  <2>1. ASSUME NEW d \in users, d \notin DOMAIN held PROVE d \in Called(b)
    <3>1. d \in Called(a) /\ d # c
      BY <1>15, <2>1 DEF TimesOK
    <3>2. PICK e \in Range(a) : e.what = "granted" /\ e.of = d
      BY <1>1, <3>1, EntriesAre
    <3>3. e \in Range(b)
      BY <1>7, <1>11, <3>1, <3>2
    <3> QED
      BY <1>11, <3>2, <3>3, EntriesAre
  <2> QED
    BY <2>1
<1>18. ASSUME NEW d \in Mine(p, after)
       PROVE  after[d].arrival <= now
  <2>1. after[d].arrival = people[d].arrival
    BY <1>2, <1>4
  <2> QED
    BY <1>4, <2>1 DEF TimesOK
<1>19. ASSUME NEW d \in Started(p, after)
       PROVE  /\ after[d].arrival <= after[d].start /\ after[d].start <= now /\ after[d].work > 0
              /\ d \notin DOMAIN held => after[d].start + after[d].work <= now
  <2>1. CASE d = c
    <3>1. people[c].arrival <= now
      BY <1>4 DEF TimesOK
    <3> QED
      BY <1>1, <1>2, <1>15, <2>1, <3>1
  <2>2. CASE d # c
    <3>1. d \in Started(p, people) /\ after[d] = people[d]
      BY <1>4, <2>2 DEF Started
    <3> QED
      BY <1>15, <3>1 DEF TimesOK
  <2> QED
    BY <2>1, <2>2
<1>20. TimesOK(p, now, b, users, held, after)
  BY <1>12, <1>13, <1>16, <1>17, <1>18, <1>19 DEF TimesOK
<1> QED
  BY <1>5, <1>8, <1>10, <1>14, <1>20

\* The first in the agenda is through and gives up the counter.
LEMMA TimesEnds ==
  ASSUME NEW p, NEW now, NEW a, NEW line, NEW users, NEW server, NEW people, Good(p, now, a, line, users, server, people),
         TimesOK(p, now, a, users, server, people), a # <<>>, Head(a).what = "end", Head(a).at < Hours, NEW c, c = Head(a).of
  PROVE  TimesOK(p, Head(a).at, Tail(a), users \ {c}, Restrict(server, DOMAIN server \ {c}), people)
<1>1. now \in Nat /\ a \in Seq(Entries) /\ people \in Seq(CustomerRows) /\ AgendaOK(a, now, users, server)
  BY GoodProperties DEF Good, Orderly
<1>2. Head(a).at \in Nat /\ now <= Head(a).at /\ Head(a) \in Range(a)
  BY <1>1, FirstIsNext
<1>3. PICK t \in Nat : t = Head(a).at
  BY <1>2
<1>4. now <= t /\ t < Hours
  BY <1>2, <1>3
<1>5. PICK r : r = Tail(a)
  OBVIOUS
<1>6. \A e : e \in Range(a) <=> e = Head(a) \/ e \in Range(r)
  BY <1>1, <1>5, EntriesAre
<1>7. Called(r) = Called(a)
  BY <1>1, <1>5, TakenOut
<1>8. PICK held : held = Restrict(server, DOMAIN server \ {c})
  OBVIOUS
<1>9. DOMAIN held = DOMAIN server \ {c}
  BY <1>8 DEF Restrict
<1>10. t = people[c].start + people[c].work
  BY <1>2, <1>3 DEF TimesOK
<1>11. ASSUME NEW d \in DOMAIN held
       PROVE  d \in Started(p, people) /\ \E e \in Range(r) : e.what = "end" /\ e.of = d
  <2>1. d \in DOMAIN server /\ d # c
    BY <1>9
  <2>2. d \in Started(p, people) /\ \E e \in Range(a) : e.what = "end" /\ e.of = d
    BY <2>1 DEF TimesOK
  <2> QED
    BY <1>6, <2>1, <2>2
<1>12. users \ {c} \subseteq DOMAIN held \cup Called(r)
  BY <1>7, <1>9 DEF TimesOK
<1>13. ASSUME NEW d \in Mine(p, people) PROVE people[d].arrival <= t
  <2>1. people[d].arrival <= now /\ people[d].arrival \in Nat
    BY <1>1, PeopleAre DEF TimesOK, Mine
  <2> QED
    BY <1>1, <1>4, <2>1
<1>14. ASSUME NEW d \in Started(p, people)
       PROVE  /\ people[d].arrival <= people[d].start /\ people[d].start <= t /\ people[d].work > 0
              /\ d \notin DOMAIN held => people[d].start + people[d].work <= t
  <2>1. people[d].start \in Nat /\ people[d].work \in Nat
    BY <1>1, PeopleAre DEF Started, Mine
  <2>2. /\ people[d].arrival <= people[d].start /\ people[d].start <= now /\ people[d].work > 0
        /\ d \notin DOMAIN server => people[d].start + people[d].work <= now
    BY DEF TimesOK
  <2>3. PICK s \in Nat : s = people[d].start
    BY <2>1
  <2>4. PICK z \in Nat : z = people[d].start + people[d].work
    BY <2>1
  <2>5. s <= t
    BY <1>1, <1>4, <2>2, <2>3
  <2>6. ASSUME d \notin DOMAIN held PROVE z <= t
    <3>1. CASE d = c
      BY <1>10, <2>4, <3>1
    <3>2. CASE d # c
      <4>1. z <= now
        BY <1>9, <2>2, <2>4, <2>6, <3>2
      <4> QED
        BY <1>1, <1>4, <4>1
    <3> QED
      BY <3>1, <3>2
  <2> QED
    BY <2>2, <2>3, <2>4, <2>5, <2>6
<1>15. /\ \A e \in Range(r) : e.what = "arrival" => e.at > 0
       /\ \A e \in Range(r) : e.what = "end" => e.at = people[e.of].start + people[e.of].work
  BY <1>6 DEF TimesOK
<1>16. TimesOK(p, t, r, users \ {c}, held, people)
  BY <1>4, <1>11, <1>12, <1>13, <1>14, <1>15 DEF TimesOK
<1> QED
  BY <1>3, <1>5, <1>8, <1>16

-----------------------------------------------------------------------------
(* The books of the period under way *)

\* The plan's numbers.
LEMMA PlanNumbers ==
  ASSUME plan \in [1 .. K -> Periods], NEW p \in 1 .. K
  PROVE  plan[p].warmup \in Nat /\ plan[p].warmup < Hours /\ plan[p].servers \in Nat /\ plan[p].servers # 0
<1>1. plan[p] \in Periods
  OBVIOUS
<1>2. plan[p].warmup \in 0 .. Hours \div 2 /\ plan[p].servers \in Nat \ {0} /\ Hours \in Nat \ {0}
  BY <1>1, SegmentAssumption DEF Periods
<1>3. Hours \div 2 < Hours
  BY <1>2
<1>4. PICK h \in Int : h = Hours \div 2
  BY <1>2
<1> QED
  BY <1>2, <1>3, <1>4

\* s has the measures of u.
SameBooks(s, u) ==
  /\ s.seen = u.seen /\ s.queueArea = u.queueArea /\ s.busyArea = u.busyArea
  /\ s.served = u.served /\ s.waits = u.waits /\ s.left = u.left

\* What the monitor notes.
LEMMA MonitoredBooks ==
  ASSUME NEW s, DOMAIN s = Fields, NEW now
  PROVE  /\ Monitored(s, now).seen = now
         /\ Monitored(s, now).queueArea = s.queueArea + Len(s.line) * Measured(s, now)
         /\ Monitored(s, now).busyArea = s.busyArea + Cardinality(s.users) * Measured(s, now)
         /\ Monitored(s, now).served = s.served /\ Monitored(s, now).waits = s.waits
         /\ Monitored(s, now).left = s.left /\ Monitored(s, now).longest = s.longest
<1>1. PICK m : m = Monitored(s, now)
  OBVIOUS
<1>2. PICK q : q = s.queueArea + Len(s.line) * Measured(s, now)
  OBVIOUS
<1>3. PICK w : w = s.busyArea + Cardinality(s.users) * Measured(s, now)
  OBVIOUS
<1>4. m = [s EXCEPT !.queueArea = q, !.busyArea = w, !.seen = now]
  BY <1>1, <1>2, <1>3 DEF Monitored, Fields
<1>5. m.seen = now /\ m.queueArea = q /\ m.busyArea = w /\ m.served = s.served /\ m.waits = s.waits /\ m.left = s.left
      /\ m.longest = s.longest
  BY <1>4 DEF Fields
<1> QED
  BY <1>1, <1>2, <1>3, <1>5

\* Scheduling leaves the measures alone.
LEMMA ScheduledBooks ==
  ASSUME NEW s, DOMAIN s = Fields, NEW at, NEW what, NEW of
  PROVE  SameBooks(Scheduled(s, at, what, of), s) /\ Scheduled(s, at, what, of).longest = s.longest
<1>1. PICK u : u = Scheduled(s, at, what, of)
  OBVIOUS
<1>2. PICK b : b = Placed(s.agenda, [at |-> at, what |-> what, of |-> of])
  OBVIOUS
<1>3. u = [s EXCEPT !.agenda = b]
  BY <1>1, <1>2 DEF Scheduled, Placed, Fields
<1>4. SameBooks(u, s) /\ u.longest = s.longest
  BY <1>3 DEF SameBooks, Fields
<1> QED
  BY <1>1, <1>4

\* So does the drawing of an arrival.
LEMMA NextArrivalBooks ==
  ASSUME NEW s, DOMAIN s = Fields, NEW gap
  PROVE  SameBooks(NextArrival(s, gap), s) /\ NextArrival(s, gap).longest = s.longest
<1>1. CASE s.now + gap < Hours
  BY <1>1, ScheduledBooks DEF NextArrival
<1>2. CASE ~ (s.now + gap < Hours)
  BY <1>2 DEF NextArrival, SameBooks
<1> QED
  BY <1>1, <1>2

\* And the taking of an event.
LEMMA PoppedBooks ==
  ASSUME DOMAIN sim = Fields
  PROVE  SameBooks(Popped, sim) /\ Popped.longest = sim.longest
BY DEF Popped, Fields, SameBooks

\* The measures are the same when their numbers are.
LEMMA MeasuresStay ==
  ASSUME NEW s, NEW u, SameBooks(s, u), NEW p, NEW t, NEW len, NEW people, Measures(u, p, t, len, people),
         NEW most \in Nat, s.longest \in Nat, most <= s.longest
  PROVE  Measures(s, p, t, most, people)
BY DEF Measures, SameBooks

\* When time passes, until t at most, and the monitor notes it, the measures are those up to t.
LEMMA MonitorKeeps ==
  ASSUME plan \in [1 .. K -> Periods], NEW s, NEW people, Sound(s, people), Booked(s, people),
         NEW t \in Nat, s.now <= t, Later(s.agenda, t),
         NEW u, DOMAIN u = Fields, SameBooks(u, s), u.longest = s.longest, u.period = s.period, u.line = s.line, u.users = s.users
  PROVE  Measures(Monitored(u, t), s.period, t, Len(s.line), people)
<1>1. PICK p : p = s.period
  OBVIOUS
<1>2. p \in 1 .. K /\ Good(p, s.now, s.agenda, s.line, s.users, s.server, people)
  BY <1>1 DEF Sound
<1>3. s.now \in Nat /\ Len(s.line) \in Nat
  BY <1>2, GoodProperties, LenProperties
<1>4. PICK w \in Nat : w = plan[p].warmup
  BY <1>2, PlanNumbers
<1>5. plan[p].servers \in Nat
  BY <1>2, PlanNumbers
<1>6. PICK d : d = Span(w, s.now, t)
  OBVIOUS
<1>7. TimesOK(p, s.now, s.agenda, s.users, s.server, people) /\ Measures(s, p, s.now, Len(s.line), people)
  BY <1>1 DEF Booked
<1>8. AreasOK(s.queueArea, s.busyArea, p, w, plan[p].servers, people, s.now) /\ s.seen = s.now
  BY <1>4, <1>7 DEF Measures
<1>9. AreasOK(s.queueArea + Len(s.line) * d, s.busyArea + Cardinality(s.users) * d, p, w, plan[p].servers, people, t)
  BY <1>2, <1>5, <1>6, <1>7, <1>8, AreasGrow
<1>10. Measured(u, t) = d
  <2>1. u.seen \in Nat /\ plan[u.period].warmup \in Nat
    BY <1>1, <1>3, <1>4, <1>8 DEF SameBooks
  <2>2. Measured(u, t) = Span(plan[u.period].warmup, u.seen, t)
    BY <2>1, MeasuredIs
  <2> QED
    BY <1>1, <1>4, <1>6, <1>8, <2>2 DEF SameBooks
<1>11. PICK m : m = Monitored(u, t)
  OBVIOUS
<1>12. /\ m.seen = t /\ m.queueArea = s.queueArea + Len(s.line) * d /\ m.busyArea = s.busyArea + Cardinality(s.users) * d
       /\ m.served = s.served /\ m.waits = s.waits /\ m.left = s.left /\ m.longest = s.longest
  BY <1>10, <1>11, MonitoredBooks DEF SameBooks
<1>13. Measures(m, p, t, Len(s.line), people)
  BY <1>4, <1>7, <1>9, <1>12 DEF Measures
<1> QED
  BY <1>1, <1>11, <1>13

\* A grant leaves the measures alone, and the line is no longer for it.
LEMMA GrantedBooks ==
  ASSUME NEW s, DOMAIN s = Fields, NEW people, s.now \in Nat, s.agenda \in Seq(Entries), InTime(s.agenda), s.line \in Seq(Nat),
         TimesOK(s.period, s.now, s.agenda, s.users, s.server, people), NEW g, g = Granted(s)
  PROVE  /\ DOMAIN g = Fields /\ g.period = s.period /\ g.now = s.now /\ g.server = s.server
         /\ SameBooks(g, s) /\ g.longest = s.longest
         /\ TimesOK(s.period, s.now, g.agenda, g.users, s.server, people)
         /\ Len(g.line) \in Nat /\ Len(g.line) <= Len(s.line)
<1>1. Len(s.line) \in Nat
  BY LenProperties
<1>2. CASE g = s
  BY <1>1, <1>2 DEF SameBooks
<1>3. CASE g # s
  <2>1. PICK h : h = Head(s.line)
    OBVIOUS
  <2>2. PICK x : x = [at |-> s.now, what |-> "granted", of |-> h]
    OBVIOUS
  <2>3. PICK more : more = s.users \cup {h}
    OBVIOUS
  <2>4. /\ s.line # <<>> /\ DOMAIN g = Fields
        /\ \A f \in Fields \ {"agenda", "line", "users"} : g[f] = s[f]
        /\ g.line = Tail(s.line) /\ g.users = more /\ g.agenda = Placed(s.agenda, x)
    <3>1. \/ /\ Granted(s) = s
             /\ s.line = <<>> \/ Cardinality(s.users) = plan[s.period].servers
          \/ /\ s.line # <<>> /\ Cardinality(s.users) # plan[s.period].servers
             /\ DOMAIN Granted(s) = Fields
             /\ \A f \in Fields \ {"agenda", "line", "users"} : Granted(s)[f] = s[f]
             /\ Granted(s).line = Tail(s.line) /\ Granted(s).users = s.users \cup {Head(s.line)}
             /\ Granted(s).agenda = Placed(s.agenda, [at |-> s.now, what |-> "granted", of |-> Head(s.line)])
      BY GrantedIs
    <3> QED
      BY <1>3, <2>1, <2>2, <2>3, <3>1
  <2>5. h \in Nat /\ Len(Tail(s.line)) = Len(s.line) - 1 /\ Len(Tail(s.line)) \in Nat
    BY <2>1, <2>4, HeadTailProperties, LenProperties
  <2>6. x \in Entries /\ x.what = "granted" /\ x.of = h
    BY <2>2, <2>5 DEF Entries, Kinds
  <2>7. TimesOK(s.period, s.now, Placed(s.agenda, x), more, s.server, people)
    <3>1. more = s.users \cup {x.of}
      BY <2>3, <2>6
    <3>2. TimesOK(s.period, s.now, Placed(s.agenda, x), s.users \cup {x.of}, s.server, people)
      BY <2>6, TimesCalled
    <3> QED
      BY <3>1, <3>2
  <2>8. /\ g.period = s.period /\ g.now = s.now /\ g.server = s.server /\ g.longest = s.longest
        /\ SameBooks(g, s)
    BY <2>4 DEF SameBooks, Fields
  <2>9. Len(g.line) \in Nat /\ Len(g.line) <= Len(s.line)
    BY <1>1, <2>4, <2>5
  <2> QED
    BY <2>4, <2>7, <2>8, <2>9
<1> QED
  BY <1>2, <1>3

\* The period j is s when c has come: m as the monitor notes it, waits with c in line and g with the first in line granted.
JoinsBy(j, s, c, m, waits, g) ==
  /\ g = Granted(waits)
  /\ DOMAIN waits = Fields /\ waits.period = s.period /\ waits.now = s.now /\ waits.server = s.server
  /\ waits.users = s.users /\ waits.agenda = s.agenda /\ waits.line = Append(s.line, c)
  /\ SameBooks(waits, m) /\ waits.longest = m.longest
  /\ j.period = g.period /\ j.now = g.now /\ j.server = g.server /\ j.line = g.line /\ j.users = g.users
  /\ j.agenda = g.agenda /\ SameBooks(j, g) /\ j.longest = Max({g.longest, Len(g.line)})

\* The parts of a period that somebody joins.
LEMMA JoinedFields ==
  ASSUME NEW s, DOMAIN s = Fields, NEW c, NEW m, m = Monitored(s, s.now), NEW j, j = Joined(s, c)
  PROVE  \E waits, g : JoinsBy(j, s, c, m, waits, g)
<1>1. m = Monitored(s, s.now)
  OBVIOUS
<1>2. DOMAIN m = Fields /\ m.period = s.period /\ m.now = s.now /\ m.line = s.line /\ m.users = s.users /\ m.server = s.server
      /\ m.agenda = s.agenda
  BY <1>1, MonitoredIs DEF Alike
<1>3. PICK waits : waits = [m EXCEPT !.line = Append(@, c)]
  OBVIOUS
<1>a. PICK g : g = Granted(waits)
  OBVIOUS
<1>4. DOMAIN waits = Fields /\ waits.period = s.period /\ waits.now = s.now /\ waits.server = s.server /\ waits.users = s.users
       /\ waits.agenda = s.agenda /\ waits.line = Append(s.line, c) /\ SameBooks(waits, m) /\ waits.longest = m.longest
  BY <1>2, <1>3 DEF SameBooks, Fields
<1>5. DOMAIN g = Fields
  BY <1>4, <1>a, GrantedIs
<1>6. PICK l : l = Max({g.longest, Len(g.line)})
  OBVIOUS
<1>7. j = [g EXCEPT !.longest = l]
  <2>1. j = [Granted(waits) EXCEPT !.longest = Max({@, Len(Granted(waits).line)})]
    BY <1>1, <1>3 DEF Joined
  <2>2. j = [g EXCEPT !.longest = Max({@, Len(g.line)})]
    BY <1>a, <2>1
  <2> QED
    BY <1>6, <2>2
<1>8. j.period = g.period /\ j.now = g.now /\ j.agenda = g.agenda /\ j.line = g.line /\ j.users = g.users /\ j.server = g.server
       /\ SameBooks(j, g) /\ j.longest = l
  BY <1>5, <1>7 DEF SameBooks, Fields
<1> QED
  BY <1>4, <1>6, <1>8, <1>a DEF JoinsBy

\* The books of a period that somebody joins after its beginning are kept.
LEMMA JoinedBooks ==
  ASSUME plan \in [1 .. K -> Periods], NEW s, NEW people, Sound(s, people), NEW c, c = Len(people) + 1, s.now # 0,
         TimesOK(s.period, s.now, s.agenda, s.users, s.server, people),
         Measures(Monitored(s, s.now), s.period, s.now, Len(s.line), people),
         NEW more, more = Append(people, NewCustomer(s.period, s.now))
  PROVE  /\ Booked(Joined(s, c), more) /\ Joined(s, c).left = s.left
         /\ NewIn(people, more, c, s.period, s.now)
<1>1. PICK p : p = s.period
  OBVIOUS
<1>2. PICK t : t = s.now
  OBVIOUS
<1>3. p \in 1 .. K /\ Good(p, t, s.agenda, s.line, s.users, s.server, people) /\ DOMAIN s = Fields
  BY <1>1, <1>2 DEF Sound
<1>4. t \in Nat /\ s.agenda \in Seq(Entries) /\ s.line \in Seq(Nat) /\ people \in Seq(CustomerRows) /\ Len(s.line) \in Nat
  BY <1>3, GoodProperties, LenProperties
<1>5. AgendaOK(s.agenda, t, s.users, s.server) /\ InTime(s.agenda)
  BY <1>3 DEF Good, Orderly, AgendaOK, InTime
<1>6. NewIn(people, more, c, p, t) /\ c \in Nat
  <2>1. PeopleOK(p, t, s.agenda, s.line, s.users, people)
    BY <1>3 DEF Good, Orderly
  <2>2. /\ more \in Seq(CustomerRows) /\ DOMAIN more = DOMAIN people \cup {c} /\ c \notin DOMAIN people /\ c \in Nat
        /\ \A b \in DOMAIN people : more[b] = people[b]
    BY <1>1, <1>2, <1>3, <1>4, <2>1, OneMore
  <2>3. more[c] = NewCustomer(p, t)
    <3>1. PICK x : x = NewCustomer(p, t)
      OBVIOUS
    <3>2. x \in CustomerRows
      BY <1>3, <1>4, <3>1 DEF NewCustomer, CustomerRows, Never
    <3>3. more = Append(people, x)
      BY <1>1, <1>2, <3>1
    <3>4. more[Len(people) + 1] = x
      BY <1>4, <3>2, <3>3, AppendProperties
    <3> QED
      BY <3>1, <3>4
  <2> QED
    BY <1>4, <2>2, <2>3 DEF NewIn
<1>7. TimesOK(p, t, s.agenda, s.users, s.server, more)
  <2>1. TimesOK(p, t, s.agenda, s.users, s.server, people)
    BY <1>1, <1>2
  <2> QED
    BY <1>4, <1>5, <1>6, <2>1, TimesComer
<1>8. PICK m : m = Monitored(s, t)
  OBVIOUS
<1>9. Measures(m, p, t, Len(s.line), more) /\ m.longest \in Nat
  <2>1. Measures(m, p, t, Len(s.line), people)
    BY <1>1, <1>2, <1>8
  <2>2. PICK w \in Nat : w = plan[p].warmup
    BY <1>3, PlanNumbers
  <2>3. PICK n : n = plan[p].servers
    OBVIOUS
  <2>4. AreasOK(m.queueArea, m.busyArea, p, w, n, people, t) /\ TalliesOK(m.served, m.waits, m.left, p, w, people)
    BY <2>1, <2>2, <2>3 DEF Measures
  <2>5. t # 0
    BY <1>2
  <2>6. AreasOK(m.queueArea, m.busyArea, p, w, n, more, t) /\ TalliesOK(m.served, m.waits, m.left, p, w, more)
    BY <1>4, <1>6, <2>4, <2>5, ComerCounts
  <2> QED
    BY <2>1, <2>2, <2>3, <2>6 DEF Measures
<1>10. PICK j : j = Joined(s, c)
  OBVIOUS
<1>a. PICK waits, g : JoinsBy(j, s, c, m, waits, g)
  <2>1. m = Monitored(s, s.now)
    BY <1>2, <1>8
  <2> QED
    BY <1>3, <1>10, <2>1, JoinedFields
<1>11. /\ g = Granted(waits)
       /\ DOMAIN waits = Fields /\ waits.period = p /\ waits.now = t /\ waits.server = s.server
       /\ waits.users = s.users /\ waits.agenda = s.agenda /\ waits.line = Append(s.line, c)
       /\ SameBooks(waits, m) /\ waits.longest = m.longest
       /\ j.period = g.period /\ j.now = g.now /\ j.server = g.server /\ j.line = g.line /\ j.users = g.users
       /\ j.agenda = g.agenda /\ SameBooks(j, g) /\ j.longest = Max({g.longest, Len(g.line)})
  BY <1>1, <1>2, <1>a DEF JoinsBy
<1>17. /\ DOMAIN g = Fields /\ g.period = p /\ g.now = t /\ g.server = s.server
      /\ SameBooks(g, waits) /\ g.longest = m.longest
      /\ TimesOK(p, t, g.agenda, g.users, s.server, more)
      /\ Len(g.line) \in Nat
  <2>1. waits.now \in Nat /\ waits.agenda \in Seq(Entries) /\ InTime(waits.agenda) /\ waits.line \in Seq(Nat)
    BY <1>2, <1>4, <1>5, <1>6, <1>11, AppendProperties
  <2>2. TimesOK(waits.period, waits.now, waits.agenda, waits.users, waits.server, more)
    BY <1>1, <1>2, <1>7, <1>11
  <2>3. /\ DOMAIN g = Fields /\ g.period = waits.period /\ g.now = waits.now /\ g.server = waits.server
        /\ SameBooks(g, waits) /\ g.longest = waits.longest
        /\ TimesOK(waits.period, waits.now, g.agenda, g.users, waits.server, more)
        /\ Len(g.line) \in Nat
    <3>1. DOMAIN waits = Fields /\ g = Granted(waits)
      BY <1>11
    <3> QED
      BY <2>1, <2>2, <3>1, GrantedBooks, ZenonT(60)
  <2> QED
    BY <1>1, <1>2, <1>11, <2>3
<1>12. Len(j.line) \in Nat
  BY <1>11, <1>17
<1>13. j.longest \in Nat /\ Len(j.line) <= j.longest
  <2>1. PICK l \in Nat : l = Len(j.line)
    BY <1>12
  <2>2. PICK o \in Nat : o = m.longest
    BY <1>9
  <2>3. j.longest = Max({o, l})
    BY <1>11, <1>17, <2>1, <2>2
  <2>4. j.longest = IF o > l THEN o ELSE l
    BY <2>1, <2>2, <2>3, LargerIs, SMTT(30)
  <2> QED
    BY <2>1, <2>2, <2>4
<1>18. SameBooks(j, m)
  BY <1>11, <1>17 DEF SameBooks
<1>14. Measures(j, p, t, Len(j.line), more)
  BY <1>9, <1>12, <1>13, <1>18, MeasuresStay DEF Measures, SameBooks
<1>15. TimesOK(p, t, j.agenda, j.users, j.server, more)
  BY <1>11, <1>17
<1>19. j.period = p /\ j.now = t
  BY <1>11, <1>17
<1>16. m.left = s.left
  BY <1>3, <1>8, MonitoredBooks
<1> QED
  BY <1>1, <1>2, <1>6, <1>10, <1>14, <1>15, <1>16, <1>18, <1>19 DEF Booked, SameBooks

\* Drawing the next arrival keeps what the agenda says of the customers.
LEMMA AnotherIsDue ==
  ASSUME NEW s, NEW people, Sound(s, people), TimesOK(s.period, s.now, s.agenda, s.users, s.server, people), NEW gap \in Gaps
  PROVE  TimesOK(s.period, s.now, NextArrival(s, gap).agenda, s.users, s.server, people)
<1>1. s.now \in Nat /\ s.agenda \in Seq(Entries) /\ InTime(s.agenda) /\ DOMAIN s = Fields
  <2>1. Good(s.period, s.now, s.agenda, s.line, s.users, s.server, people) /\ DOMAIN s = Fields
    BY DEF Sound
  <2>2. AgendaOK(s.agenda, s.now, s.users, s.server) /\ s.now \in Nat
    BY <2>1, GoodProperties DEF Good, Orderly
  <2> QED
    BY <2>1, <2>2 DEF AgendaOK, InTime
<1>2. CASE s.now + gap < Hours
  <2>1. gap \in Nat /\ s.now + gap > 0 /\ s.now + gap \in Nat
    BY <1>1, SegmentAssumption
  <2>2. PICK x : x = [at |-> s.now + gap, what |-> "arrival", of |-> 0]
    OBVIOUS
  <2>3. x \in Entries /\ x.what = "arrival" /\ x.at > 0
    BY <2>1, <2>2 DEF Entries, Kinds
  <2>4. NextArrival(s, gap).agenda = Placed(s.agenda, x)
    <3>1. NextArrival(s, gap) = Scheduled(s, s.now + gap, "arrival", 0)
      BY <1>2 DEF NextArrival
    <3>2. Scheduled(s, s.now + gap, "arrival", 0).agenda = Placed(s.agenda, [at |-> s.now + gap, what |-> "arrival", of |-> 0])
      BY <1>1, ScheduledIs
    <3> QED
      BY <2>2, <3>1, <3>2
  <2>5. TimesOK(s.period, s.now, Placed(s.agenda, x), s.users, s.server, people)
    BY <1>1, <2>3, TimesNextArrival
  <2> QED
    BY <2>4, <2>5
<1>3. CASE ~ (s.now + gap < Hours)
  BY <1>3 DEF NextArrival
<1> QED
  BY <1>2, <1>3

\* What an event leaves as it is: the period under way goes on, the books are kept, and no other period's customers change.
Goes(s, u, people, more) ==
  /\ Booked(s, more) /\ s.left = u.left /\ s.period = u.period
  /\ \A c \in DOMAIN more : more[c].period <= u.period
  /\ \A k : k # u.period => SameOf(k, people, more)

\* The period under way is simulated while events come up, and its books are kept.
LEMMA UnderwayBooks ==
  ASSUME IInv, BooksOK, NEW what, Comes(what)
  PROVE  /\ Sound(sim, customer) /\ Booked(sim, customer) /\ ~ Skipped(sim.period, sim.left) /\ DOMAIN sim = Fields
         /\ Len(rows) < K /\ sim.left = Brought(sim.period, rows)
         /\ Head(sim.agenda).at \in Nat /\ sim.now <= Head(sim.agenda).at /\ Later(sim.agenda, Head(sim.agenda).at)
         /\ sim.agenda # <<>> /\ Head(sim.agenda).what = what /\ Head(sim.agenda).at < Hours
         /\ plan \in [1 .. K -> Periods]
<1>1. /\ Len(rows) < K /\ Sound(sim, customer)
      /\ sim.agenda # <<>> /\ Head(sim.agenda).what = what /\ Head(sim.agenda).at < Hours
  BY Underway
<1>2. LedgerOK(sim, rows, customer)
  BY <1>1 DEF BooksOK
<1>3. ~ Skipped(sim.period, sim.left) /\ Booked(sim, customer) /\ sim.left = Brought(sim.period, rows)
  BY <1>1, <1>2 DEF LedgerOK
<1>4. AgendaOK(sim.agenda, sim.now, sim.users, sim.server) /\ sim.now \in Nat
  BY <1>1, GoodProperties DEF Sound, Good, Orderly
<1>5. Later(sim.agenda, Head(sim.agenda).at) /\ Head(sim.agenda).at \in Nat /\ sim.now <= Head(sim.agenda).at
  BY <1>1, <1>4, FirstIsNext
<1> QED
  BY <1>1, <1>3, <1>5 DEF IInv

\* An arrival keeps the books.
LEMMA ArriveBooks ==
  ASSUME IInv, BooksOK, Arrive
  PROVE  Goes(sim', sim, customer, customer')
<1>1. Comes("arrival") /\ UNCHANGED <<plan, carryover, rows>>
  BY DEF Arrive
<1>2. /\ Sound(sim, customer) /\ Booked(sim, customer) /\ DOMAIN sim = Fields
      /\ Head(sim.agenda).at \in Nat /\ sim.now <= Head(sim.agenda).at /\ Later(sim.agenda, Head(sim.agenda).at)
      /\ sim.agenda # <<>> /\ Head(sim.agenda).what = "arrival" /\ Head(sim.agenda).at < Hours
      /\ plan \in [1 .. K -> Periods]
  BY <1>1, UnderwayBooks
<1>3. PICK c : c = Len(customer) + 1
  OBVIOUS
<1>4. PICK gap \in Gaps : /\ customer' = Append(customer, NewCustomer(sim.period, Popped.now))
                          /\ sim' = Joined(NextArrival(Popped, gap), c)
  BY <1>3 DEF Arrive
<1>5. DOMAIN Popped = Fields /\ Popped.period = sim.period /\ Popped.now = Head(sim.agenda).at
      /\ Popped.agenda = Tail(sim.agenda) /\ Popped.line = sim.line /\ Popped.users = sim.users /\ Popped.server = sim.server
  BY <1>2, PoppedIs
<1>6. PICK p : p = sim.period
  OBVIOUS
<1>7. PICK t \in Nat : t = Head(sim.agenda).at
  BY <1>2
<1>8. Good(p, sim.now, sim.agenda, sim.line, sim.users, sim.server, customer) /\ p \in 1 .. K
  BY <1>2, <1>6 DEF Sound
<1>9. Good(p, t, Tail(sim.agenda), sim.line, sim.users, sim.server, customer)
  BY <1>2, <1>7, <1>8, ArrivalTaken
<1>10. Sound(Popped, customer)
  BY <1>5, <1>6, <1>7, <1>8, <1>9 DEF Sound
<1>11. TimesOK(p, t, Tail(sim.agenda), sim.users, sim.server, customer) /\ t # 0
  <2>1. TimesOK(p, sim.now, sim.agenda, sim.users, sim.server, customer)
    BY <1>2, <1>6 DEF Booked
  <2> QED
    BY <1>2, <1>7, <1>8, <2>1, TimesArrival
<1>12. PICK s : s = NextArrival(Popped, gap)
  OBVIOUS
<1>13. Sound(s, customer) /\ Alike(s, Popped)
  BY <1>10, <1>12, NextArrivalSound
<1>14. /\ DOMAIN s = Fields /\ s.period = p /\ s.now = t /\ s.line = sim.line /\ s.users = sim.users /\ s.server = sim.server
       /\ SameBooks(s, sim) /\ s.longest = sim.longest
  <2>1. SameBooks(s, Popped) /\ s.longest = Popped.longest
    BY <1>5, <1>12, NextArrivalBooks
  <2>2. SameBooks(Popped, sim) /\ Popped.longest = sim.longest
    BY <1>2, PoppedBooks
  <2> QED
    BY <1>5, <1>6, <1>7, <1>13, <2>1, <2>2 DEF SameBooks, Alike
<1>15. TimesOK(p, t, s.agenda, s.users, s.server, customer)
  <2>1. TimesOK(Popped.period, Popped.now, Popped.agenda, Popped.users, Popped.server, customer)
    BY <1>5, <1>6, <1>7, <1>11
  <2>2. TimesOK(Popped.period, Popped.now, NextArrival(Popped, gap).agenda, Popped.users, Popped.server, customer)
    BY <1>10, <2>1, AnotherIsDue
  <2> QED
    BY <1>5, <1>6, <1>7, <1>12, <1>14, <2>2
<1>16. Measures(Monitored(s, t), p, t, Len(s.line), customer)
  <2>1. Measures(Monitored(s, t), sim.period, t, Len(sim.line), customer)
    BY <1>2, <1>6, <1>7, <1>14, MonitorKeeps
  <2> QED
    BY <1>6, <1>14, <2>1
<1>17. customer' = Append(customer, NewCustomer(s.period, s.now)) /\ sim' = Joined(s, c)
  BY <1>4, <1>5, <1>6, <1>7, <1>12, <1>14
<1>18. /\ Booked(Joined(s, c), customer') /\ Joined(s, c).left = s.left
       /\ NewIn(customer, customer', c, s.period, s.now)
  <2>1. TimesOK(s.period, s.now, s.agenda, s.users, s.server, customer) /\ s.now # 0
    BY <1>11, <1>14, <1>15
  <2>2. Measures(Monitored(s, s.now), s.period, s.now, Len(s.line), customer)
    BY <1>14, <1>16
  <2>3. Append(customer, NewCustomer(s.period, s.now)) = customer'
    BY <1>17
  <2> QED
    BY <1>2, <1>3, <1>13, <2>1, <2>2, <2>3, JoinedBooks
<1>19. sim'.period = p
  BY <1>2, <1>3, <1>13, <1>14, <1>17, JoinedSound
<1>20. \A k : k # p => SameOf(k, customer, customer')
  BY <1>7, <1>14, <1>18, ComerAdded
<1>21. ASSUME NEW b \in DOMAIN customer' PROVE customer'[b].period <= p
  <2>1. \A d \in DOMAIN customer : customer[d].period <= p
    BY <1>8 DEF Good, Orderly, PeopleOK
  <2>2. customer'[c].period = p /\ p <= p
    BY <1>8, <1>14, <1>18 DEF NewIn, NewCustomer
  <2> QED
    BY <1>18, <2>1, <2>2 DEF NewIn
<1> QED
  BY <1>6, <1>14, <1>17, <1>18, <1>19, <1>20, <1>21 DEF Goes, SameBooks

\* So does the beginning of a service.
LEMMA StartServiceBooks ==
  ASSUME IInv, BooksOK, StartService
  PROVE  Goes(sim', sim, customer, customer')
<1>1. Comes("granted") /\ UNCHANGED <<plan, carryover, rows>>
  BY DEF StartService
<1>2. /\ Sound(sim, customer) /\ Booked(sim, customer) /\ DOMAIN sim = Fields
      /\ Head(sim.agenda).at \in Nat /\ sim.now <= Head(sim.agenda).at /\ Later(sim.agenda, Head(sim.agenda).at)
      /\ sim.agenda # <<>> /\ Head(sim.agenda).what = "granted" /\ Head(sim.agenda).at < Hours
      /\ plan \in [1 .. K -> Periods]
  BY <1>1, UnderwayBooks
<1>3. PICK c : c = Head(sim.agenda).of
  OBVIOUS
<1>4. PICK s : s = Monitored(Popped, Popped.now)
  OBVIOUS
<1>5. PICK v : v = FreeServer(s)
  OBVIOUS
<1>6. PICK p : p = sim.period
  OBVIOUS
<1>8. Good(p, sim.now, sim.agenda, sim.line, sim.users, sim.server, customer) /\ p \in 1 .. K
  BY <1>2, <1>6 DEF Sound
<1>9. /\ AgendaOK(sim.agenda, sim.now, sim.users, sim.server) /\ sim.now \in Nat /\ sim.line \in Seq(Nat)
      /\ customer \in Seq(CustomerRows) /\ Len(sim.line) \in Nat
  BY <1>8, GoodProperties, LenProperties DEF Good, Orderly
<1>10. PICK t \in Nat : t = sim.now
  BY <1>9
<1>11. /\ c \in sim.users /\ c \notin DOMAIN sim.server /\ Head(sim.agenda).at = t
       /\ Called(sim.agenda) = Called(Tail(sim.agenda)) \cup {c}
  BY <1>2, <1>3, <1>9, <1>10, TakenOut
<1>12. c \in DOMAIN customer /\ customer[c].period = p /\ customer[c].start = Never
  <2>1. c \in Called(sim.agenda)
    BY <1>11
  <2> QED
    BY <1>8, <2>1 DEF Good, Orderly, PeopleOK
<1>13. /\ DOMAIN Popped = Fields /\ Popped.period = p /\ Popped.now = t
       /\ Popped.agenda = Tail(sim.agenda) /\ Popped.line = sim.line /\ Popped.users = sim.users /\ Popped.server = sim.server
       /\ SameBooks(Popped, sim) /\ Popped.longest = sim.longest
  BY <1>2, <1>6, <1>11, PoppedIs, PoppedBooks
<1>14. /\ DOMAIN s = Fields /\ s.period = p /\ s.now = t /\ s.agenda = Tail(sim.agenda) /\ s.line = sim.line
       /\ s.users = sim.users /\ s.server = sim.server
  <2>1. Alike(s, Popped) /\ s.agenda = Popped.agenda
    BY <1>4, <1>13, MonitoredIs
  <2> QED
    BY <1>13, <2>1 DEF Alike
<1>15. PICK w \in Nat : w = plan[p].warmup
  BY <1>2, <1>8, PlanNumbers
<1>16. PICK n : n = plan[p].servers
  OBVIOUS
<1>17. Measures(s, p, t, Len(sim.line), customer) /\ s.left = sim.left
  <2>1. Measures(Monitored(Popped, t), sim.period, t, Len(sim.line), customer)
    BY <1>2, <1>6, <1>10, <1>11, <1>13, MonitorKeeps
  <2>2. Monitored(Popped, t).left = Popped.left
    BY <1>13, MonitoredBooks
  <2> QED
    BY <1>4, <1>6, <1>13, <2>1, <2>2 DEF SameBooks
<1>18. PICK served : served = IF t >= w THEN s.served + 1 ELSE s.served
  OBVIOUS
<1>19. PICK waits : waits = IF t >= w THEN s.waits + t - customer[c].arrival ELSE s.waits
  OBVIOUS
<1>20. PICK taken : taken = TakenBy(sim.server, c, v)
  OBVIOUS
<1>21. PICK u : u = [s EXCEPT !.server = taken, !.served = served, !.waits = waits]
  OBVIOUS
<1>22. /\ DOMAIN u = Fields /\ u.period = p /\ u.now = t /\ u.agenda = Tail(sim.agenda) /\ u.line = sim.line
       /\ u.users = sim.users /\ u.server = taken
       /\ u.seen = s.seen /\ u.queueArea = s.queueArea /\ u.busyArea = s.busyArea /\ u.left = s.left /\ u.longest = s.longest
       /\ u.served = served /\ u.waits = waits
  BY <1>14, <1>21 DEF Fields
<1>a. PICK start : start = Now.warmup
  OBVIOUS
<1>b. start = w
  BY <1>6, <1>15, <1>a DEF Now
<1>23. PICK work \in Works :
         /\ sim' = Scheduled(u, s.now + work, "end", c)
         /\ customer' = [customer EXCEPT ![c] = [@ EXCEPT !.start = s.now, !.work = work]]
  <2>1. u = [s EXCEPT !.server = [d \in DOMAIN @ \cup {c} |-> IF d = c THEN v ELSE @[d]],
                      !.served = IF s.now >= start THEN @ + 1 ELSE @,
                      !.waits = IF s.now >= start THEN @ + s.now - customer[c].arrival ELSE @]
    BY <1>14, <1>18, <1>19, <1>20, <1>21, <1>b DEF TakenBy, Fields
  <2> QED
    BY <1>3, <1>4, <1>5, <1>a, <2>1 DEF StartService
<1>24. work \in Nat /\ work > 0 /\ sim' = Scheduled(u, t + work, "end", c)
       /\ customer' = [customer EXCEPT ![c] = [@ EXCEPT !.start = t, !.work = work]]
  <2>1. work \in Nat /\ work > 0
    BY SegmentAssumption
  <2>2. s.now + work = t + work
    BY <1>14
  <2> QED
    BY <1>14, <1>23, <2>1, <2>2
<1>25. PICK after : after = customer'
  OBVIOUS
<1>26. BeginsIn(customer, after, c, p, t, work)
  <2>1. /\ customer \in Seq(CustomerRows) /\ DOMAIN customer = 1 .. Len(customer) /\ Len(customer) \in Nat
        /\ customer[c] \in CustomerRows
    BY <1>9, <1>12, LenProperties, ElementOfSeq
  <2>2. PICK x : x = [customer[c] EXCEPT !.start = t, !.work = work]
    OBVIOUS
  <2>3. x \in CustomerRows /\ x.period = p /\ x.arrival = customer[c].arrival /\ x.start = t /\ x.work = work
    BY <1>12, <1>24, <2>1, <2>2 DEF CustomerRows
  <2>4. after = [customer EXCEPT ![c] = x]
    BY <1>24, <1>25, <2>2
  <2>5. after \in Seq(CustomerRows) /\ DOMAIN after = DOMAIN customer /\ after[c] = x
    BY <1>12, <2>1, <2>3, <2>4, ExceptSeq
  <2>6. \A b \in DOMAIN customer : b # c => after[b] = customer[b]
    BY <2>4
  <2> QED
    BY <1>9, <1>12, <2>3, <2>5, <2>6 DEF BeginsIn
<1>27. Measures(u, p, t, Len(sim.line), after)
  <2>1. /\ s.seen = t /\ AreasOK(s.queueArea, s.busyArea, p, w, n, customer, t)
        /\ TalliesOK(s.served, s.waits, s.left, p, w, customer) /\ s.longest \in Nat /\ Len(sim.line) <= s.longest
    BY <1>15, <1>16, <1>17 DEF Measures
  <2>2. AreasOK(s.queueArea, s.busyArea, p, w, n, after, t)
    BY <1>24, <1>26, <2>1, BeginnerAreas
  <2>3. TalliesOK(served, waits, s.left, p, w, after)
    BY <1>18, <1>19, <1>24, <1>26, <2>1, BeginnerTallies
  <2> QED
    BY <1>15, <1>16, <1>22, <2>1, <2>2, <2>3 DEF Measures
<1>28. Alike(sim', u) /\ sim'.agenda = Placed(Tail(sim.agenda), [at |-> t + work, what |-> "end", of |-> c])
  BY <1>22, <1>24, ScheduledIs
<1>29. SameBooks(sim', u) /\ sim'.longest = u.longest
  BY <1>22, <1>24, ScheduledBooks
<1>30. Measures(sim', p, t, Len(sim.line), after) /\ sim'.left = sim.left
  <2>1. sim'.longest \in Nat /\ Len(sim.line) <= sim'.longest
    BY <1>27, <1>29 DEF Measures
  <2> QED
    BY <1>9, <1>17, <1>22, <1>27, <1>29, <2>1, MeasuresStay DEF SameBooks
<1>31. TimesOK(p, t, sim'.agenda, sim.users, taken, after)
  <2>1. TimesOK(p, t, sim.agenda, sim.users, sim.server, customer)
    BY <1>2, <1>6, <1>10 DEF Booked
  <2>2. Good(p, t, sim.agenda, sim.line, sim.users, sim.server, customer)
    BY <1>8, <1>10
  <2>3. TimesOK(p, t, Placed(Tail(sim.agenda), [at |-> t + work, what |-> "end", of |-> c]), sim.users, TakenBy(sim.server, c, v), after)
    BY <1>2, <1>3, <1>11, <1>24, <1>26, <2>1, <2>2, TimesBegins
  <2> QED
    BY <1>20, <1>28, <2>3
<1>32. sim'.period = p /\ sim'.now = t /\ sim'.line = sim.line /\ sim'.users = sim.users /\ sim'.server = taken
  BY <1>22, <1>28 DEF Alike
<1>33. Booked(sim', after)
  BY <1>30, <1>31, <1>32 DEF Booked
<1>34. \A k : k # p => SameOf(k, customer, after)
  <2>1. BegunIn(customer, after, c, p, t)
    BY <1>24, <1>26, BeginnerAdded
  <2> QED
    BY <2>1 DEF BegunIn
<1>35. ASSUME NEW b \in DOMAIN after PROVE after[b].period <= p
  <2>1. \A d \in DOMAIN customer : customer[d].period <= p
    BY <1>8 DEF Good, Orderly, PeopleOK
  <2>2. DOMAIN after = DOMAIN customer /\ after[c].period = customer[c].period /\ \A d \in DOMAIN customer : d # c => after[d] = customer[d]
    BY <1>26 DEF BeginsIn
  <2> QED
    BY <1>12, <2>1, <2>2
<1> QED
  BY <1>6, <1>25, <1>30, <1>32, <1>33, <1>34, <1>35 DEF Goes

\* And its end.
LEMMA EndServiceBooks ==
  ASSUME IInv, BooksOK, EndService
  PROVE  Goes(sim', sim, customer, customer')
<1>1. Comes("end") /\ UNCHANGED <<plan, carryover, rows>> /\ customer' = customer
  BY DEF EndService
<1>2. /\ Sound(sim, customer) /\ Booked(sim, customer) /\ DOMAIN sim = Fields
      /\ Head(sim.agenda).at \in Nat /\ sim.now <= Head(sim.agenda).at /\ Later(sim.agenda, Head(sim.agenda).at)
      /\ sim.agenda # <<>> /\ Head(sim.agenda).what = "end" /\ Head(sim.agenda).at < Hours
      /\ plan \in [1 .. K -> Periods]
  BY <1>1, UnderwayBooks
<1>3. PICK c : c = Head(sim.agenda).of
  OBVIOUS
<1>4. PICK s : s = Monitored(Popped, Popped.now)
  OBVIOUS
<1>5. PICK p : p = sim.period
  OBVIOUS
<1>6. PICK t \in Nat : t = Head(sim.agenda).at
  BY <1>2
<1>7. Good(p, sim.now, sim.agenda, sim.line, sim.users, sim.server, customer) /\ p \in 1 .. K
  BY <1>2, <1>5 DEF Sound
<1>8. plan[p].servers \in Nat
  BY <1>2, <1>7, PlanNumbers
<1>9. AgendaOK(sim.agenda, sim.now, sim.users, sim.server) /\ sim.now \in Nat /\ sim.line \in Seq(Nat) /\ Len(sim.line) \in Nat
  BY <1>7, GoodProperties, LenProperties DEF Good, Orderly
<1>10. AgendaOK(Tail(sim.agenda), t, sim.users, sim.server)
  BY <1>2, <1>6, <1>9, TakenOut
<1>11. Tail(sim.agenda) \in Seq(Entries) /\ InTime(Tail(sim.agenda))
  BY <1>10 DEF AgendaOK, InTime
<1>12. /\ DOMAIN Popped = Fields /\ Popped.period = p /\ Popped.now = t
       /\ Popped.agenda = Tail(sim.agenda) /\ Popped.line = sim.line /\ Popped.users = sim.users /\ Popped.server = sim.server
       /\ SameBooks(Popped, sim) /\ Popped.longest = sim.longest
  BY <1>2, <1>5, <1>6, PoppedIs, PoppedBooks
<1>13. /\ DOMAIN s = Fields /\ s.period = p /\ s.now = t /\ s.agenda = Tail(sim.agenda) /\ s.line = sim.line
       /\ s.users = sim.users /\ s.server = sim.server
  <2>1. Alike(s, Popped) /\ s.agenda = Popped.agenda
    BY <1>4, <1>12, MonitoredIs
  <2> QED
    BY <1>12, <2>1 DEF Alike
<1>14. Measures(s, p, t, Len(sim.line), customer) /\ s.left = sim.left
  <2>1. Measures(Monitored(Popped, t), sim.period, t, Len(sim.line), customer)
    BY <1>2, <1>5, <1>6, <1>12, MonitorKeeps
  <2>2. Monitored(Popped, t).left = Popped.left
    BY <1>12, MonitoredBooks
  <2> QED
    BY <1>4, <1>5, <1>12, <2>1, <2>2 DEF SameBooks
<1>15. PICK counters : counters = Restrict(sim.server, DOMAIN sim.server \ {c})
  OBVIOUS
<1>16. PICK free : free = [s EXCEPT !.users = sim.users \ {c}, !.server = counters]
  OBVIOUS
<1>17. /\ DOMAIN free = Fields /\ free.period = p /\ free.now = t /\ free.agenda = Tail(sim.agenda) /\ free.line = sim.line
       /\ free.users = sim.users \ {c} /\ free.server = counters /\ SameBooks(free, s) /\ free.longest = s.longest
  BY <1>13, <1>16 DEF Fields, SameBooks
<1>18. PICK x : x = [at |-> t, what |-> "released", of |-> 0]
  OBVIOUS
<1>19. sim' = Scheduled(free, t, "released", 0)
  <2>1. free = [s EXCEPT !.users = @ \ {c}, !.server = Restrict(@, DOMAIN @ \ {c})]
    BY <1>13, <1>15, <1>16 DEF Fields
  <2>2. sim' = Released(s, c)
    BY <1>3, <1>4 DEF EndService
  <2>3. Released(s, c) = Scheduled(free, s.now, "released", 0)
    BY <2>1 DEF Released
  <2> QED
    BY <1>13, <2>2, <2>3
<1>20. TimesOK(p, t, Tail(sim.agenda), sim.users \ {c}, counters, customer)
  <2>1. TimesOK(p, sim.now, sim.agenda, sim.users, sim.server, customer)
    BY <1>2, <1>5 DEF Booked
  <2> QED
    BY <1>2, <1>3, <1>6, <1>7, <1>15, <2>1, TimesEnds
<1>21. Booked(sim', customer) /\ sim'.period = p /\ sim'.left = sim.left
  <2>1. Alike(sim', free) /\ sim'.agenda = Placed(free.agenda, x)
    BY <1>17, <1>18, <1>19, ScheduledIs
  <2>2. SameBooks(sim', free) /\ sim'.longest = free.longest
    BY <1>17, <1>19, ScheduledBooks
  <2>3. /\ sim'.period = p /\ sim'.now = t /\ sim'.line = sim.line /\ sim'.users = sim.users \ {c} /\ sim'.server = counters
        /\ sim'.agenda = Placed(Tail(sim.agenda), x) /\ SameBooks(sim', s) /\ sim'.longest = s.longest /\ sim'.left = sim.left
    BY <1>14, <1>17, <2>1, <2>2 DEF Alike, SameBooks
  <2>4. sim'.longest \in Nat /\ Len(sim.line) <= sim'.longest
    BY <1>14, <2>3 DEF Measures
  <2>5. Measures(sim', p, t, Len(sim.line), customer)
    BY <1>9, <1>14, <2>3, <2>4, MeasuresStay
  <2>6. x \in Entries /\ x.what = "released"
    BY <1>18 DEF Entries, Kinds
  <2>7. TimesOK(p, t, Placed(Tail(sim.agenda), x), sim.users \ {c}, counters, customer)
    <3>1. PICK rest : rest = sim.users \ {c}
      OBVIOUS
    <3>2. TimesOK(p, t, Placed(Tail(sim.agenda), x), rest, counters, customer)
      BY <1>11, <1>20, <2>6, <3>1, TimesReleased
    <3> QED
      BY <3>1, <3>2
  <2> QED
    BY <2>3, <2>5, <2>7 DEF Booked
<1>22. \A k : k # p => SameOf(k, customer, customer')
  BY <1>1 DEF SameOf
<1>23. \A b \in DOMAIN customer' : customer'[b].period <= p
  BY <1>1, <1>7 DEF Good, Orderly, PeopleOK
<1> QED
  BY <1>1, <1>5, <1>21, <1>22, <1>23 DEF Goes

\* And the offer of a counter.
LEMMA OfferCounterBooks ==
  ASSUME IInv, BooksOK, OfferCounter
  PROVE  Goes(sim', sim, customer, customer')
<1>1. Comes("released") /\ UNCHANGED <<plan, carryover, rows>> /\ customer' = customer
  BY DEF OfferCounter
<1>2. /\ Sound(sim, customer) /\ Booked(sim, customer) /\ DOMAIN sim = Fields
      /\ sim.agenda # <<>> /\ Head(sim.agenda).what = "released"
      /\ plan \in [1 .. K -> Periods]
  BY <1>1, UnderwayBooks
<1>3. PICK p : p = sim.period
  OBVIOUS
<1>4. Good(p, sim.now, sim.agenda, sim.line, sim.users, sim.server, customer) /\ p \in 1 .. K
  BY <1>2, <1>3 DEF Sound
<1>5. AgendaOK(sim.agenda, sim.now, sim.users, sim.server) /\ sim.now \in Nat /\ sim.line \in Seq(Nat) /\ Len(sim.line) \in Nat
  BY <1>4, GoodProperties, LenProperties DEF Good, Orderly
<1>6. PICK t \in Nat : t = sim.now
  BY <1>5
<1>7. Head(sim.agenda).at = t
  BY <1>2, <1>5, <1>6, TakenOut
<1>8. AgendaOK(Tail(sim.agenda), t, sim.users, sim.server)
  BY <1>2, <1>5, <1>6, <1>7, TakenOut
<1>9. Tail(sim.agenda) \in Seq(Entries) /\ InTime(Tail(sim.agenda))
  BY <1>8 DEF AgendaOK, InTime
<1>10. PICK s : s = Popped
  OBVIOUS
<1>11. /\ DOMAIN s = Fields /\ s.period = p /\ s.now = t
       /\ s.agenda = Tail(sim.agenda) /\ s.line = sim.line /\ s.users = sim.users /\ s.server = sim.server
       /\ SameBooks(s, sim) /\ s.longest = sim.longest
  BY <1>2, <1>3, <1>7, <1>10, PoppedIs, PoppedBooks
<1>12. TimesOK(s.period, s.now, s.agenda, s.users, s.server, customer)
  <2>1. TimesOK(p, t, sim.agenda, sim.users, sim.server, customer)
    BY <1>2, <1>3, <1>6 DEF Booked
  <2>2. TimesOK(p, t, Tail(sim.agenda), sim.users, sim.server, customer)
    BY <1>2, <1>5, <1>6, <2>1, TimesOffered
  <2> QED
    BY <1>11, <2>2
<1>13. PICK g : g = Granted(s)
  OBVIOUS
<1>14. sim' = g
  BY <1>10, <1>13 DEF OfferCounter
<1>15. /\ g.period = s.period /\ g.now = s.now /\ g.server = s.server
       /\ SameBooks(g, s) /\ g.longest = s.longest
       /\ TimesOK(s.period, s.now, g.agenda, g.users, s.server, customer)
       /\ Len(g.line) \in Nat /\ Len(g.line) <= Len(s.line)
  <2>1. s.now \in Nat /\ s.agenda \in Seq(Entries) /\ InTime(s.agenda) /\ s.line \in Seq(Nat)
    BY <1>5, <1>9, <1>11
  <2> QED
    BY <1>11, <1>12, <1>13, <2>1, GrantedBooks
<1>16. Measures(sim, p, t, Len(sim.line), customer)
  BY <1>2, <1>3, <1>6 DEF Booked
<1>17. SameBooks(g, sim) /\ g.longest = sim.longest /\ Len(g.line) <= Len(sim.line)
  BY <1>11, <1>15 DEF SameBooks
<1>18. g.longest \in Nat /\ Len(g.line) <= g.longest
  <2>1. PICK l \in Nat : l = sim.longest
    BY <1>16 DEF Measures
  <2>2. PICK m \in Nat : m = Len(sim.line)
    BY <1>5
  <2>3. PICK z \in Nat : z = Len(g.line)
    BY <1>15
  <2>4. z <= m /\ m <= l
    BY <1>16, <1>17, <2>1, <2>2, <2>3 DEF Measures
  <2> QED
    BY <1>17, <2>1, <2>3, <2>4
<1>19. Measures(g, p, t, Len(g.line), customer)
  BY <1>15, <1>16, <1>17, <1>18, MeasuresStay
<1>20. Booked(g, customer) /\ g.left = sim.left /\ g.period = p
  BY <1>11, <1>15, <1>17, <1>19 DEF Booked, SameBooks
<1>21. \A k : k # p => SameOf(k, customer, customer')
  BY <1>1 DEF SameOf
<1>22. \A b \in DOMAIN customer' : customer'[b].period <= p
  BY <1>1, <1>4 DEF Good, Orderly, PeopleOK
<1> QED
  BY <1>1, <1>3, <1>14, <1>20, <1>21, <1>22 DEF Goes

-----------------------------------------------------------------------------
(* The books of a period that begins *)

\* Who is there when a period begins: those left over, and nobody has begun.
LEMMA CameIs ==
  ASSUME NEW k \in 1 .. K, NEW people, NEW l \in Nat, NEW carry \in Nat, NEW more, Came(more, people, k, l, carry),
         DOMAIN people = 1 .. l
  PROVE  /\ Mine(k, more) = l + 1 .. l + carry /\ Started(k, more) = {} /\ Left(k, more) = l + 1 .. l + carry
         /\ \A c \in Mine(k, more) : more[c].arrival = 0 /\ more[c].start = Never
         /\ \A q : q # k => SameOf(q, people, more)
         /\ \A c \in DOMAIN more : more[c].period <= k
<1>1. /\ more \in Seq(CustomerRows) /\ DOMAIN more = 1 .. l + carry
      /\ \A c \in 1 .. l : more[c] = people[c] /\ people[c].period \in Nat /\ people[c].period < k
      /\ \A c \in l + 1 .. l + carry : more[c].period = k /\ more[c].start = Never /\ more[c].arrival = 0
  BY LenProperties DEF Came
<1>2. k \in Nat
  OBVIOUS
<1>3. ASSUME NEW c \in DOMAIN more
      PROVE  \/ c \in 1 .. l /\ more[c].period # k /\ more[c].period <= k
             \/ c \in l + 1 .. l + carry /\ c \notin 1 .. l /\ more[c].period = k
  <2>1. c \in 1 .. l \/ (c \in l + 1 .. l + carry /\ c \notin 1 .. l)
    BY <1>1
  <2>2. ASSUME c \in 1 .. l PROVE more[c].period # k /\ more[c].period <= k
    <3>1. PICK q \in Nat : q = more[c].period
      BY <1>1, <2>2
    <3>2. q < k
      BY <1>1, <2>2, <3>1
    <3> QED
      BY <1>2, <3>1, <3>2
  <2> QED
    BY <1>1, <2>1, <2>2
<1>4. Mine(k, more) = l + 1 .. l + carry
  BY <1>1, <1>3 DEF Mine
<1>5. \A c \in Mine(k, more) : more[c].arrival = 0 /\ more[c].start = Never
  BY <1>1, <1>4
<1>6. Started(k, more) = {}
  BY <1>5 DEF Started
<1>7. Left(k, more) = l + 1 .. l + carry
  BY <1>4, <1>5 DEF Left
<1>8. ASSUME NEW q, q # k PROVE SameOf(q, people, more)
  <2>1. \A c \in 1 .. l : c \in DOMAIN more
    BY <1>1
  <2>2. Mine(q, more) = Mine(q, people)
    BY <1>1, <1>3, <1>8, <2>1 DEF Mine
  <2>3. \A c \in Mine(q, people) : more[c] = people[c]
    BY <1>1 DEF Mine
  <2> QED
    BY <2>2, <2>3 DEF SameOf
<1>9. ASSUME NEW c \in DOMAIN more PROVE more[c].period <= k
  BY <1>2, <1>3
<1> QED
  BY <1>4, <1>5, <1>6, <1>7, <1>8, <1>9

\* Nothing has been measured then, and the customers left over are counted.
LEMMA FreshBooks ==
  ASSUME NEW k, NEW w \in Nat, NEW n \in Nat, NEW more \in Seq(CustomerRows), Started(k, more) = {}, NEW carry, 
         Cardinality(Left(k, more)) = carry, \A c \in Mine(k, more) : more[c].arrival = 0 /\ more[c].start = Never
  PROVE  AreasOK(0, 0, k, w, n, more, 0) /\ TalliesOK(0, 0, carry, k, w, more)
<1>1. Span(w, 0, 0) = 0
  BY SpanAdds
<1>2. IsFiniteSet(Mine(k, more)) /\ IsFiniteSet({}) /\ Cardinality({}) = 0
  BY PeopleAre, FS_EmptySet
<1>3. SumFunction(Waited(k, w, more, 0)) = 0
  <2>1. PICK f : f = Waited(k, w, more, 0)
    OBVIOUS
  <2>2. DOMAIN f = Mine(k, more) /\ \A c \in Mine(k, more) : f[c] = 0
    BY <1>1, <2>1 DEF Waited
  <2> QED
    BY <1>2, <2>1, <2>2, SumOfNothing
<1>4. SumFunction(ServedFor(k, w, more, 0)) = 0
  <2>1. PICK f : f = ServedFor(k, w, more, 0)
    OBVIOUS
  <2>2. DOMAIN f = {}
    BY <2>1 DEF ServedFor
  <2> QED
    BY <1>2, <2>1, <2>2, SumOfNothing
<1>5. Counted(k, w, more) = {}
  BY DEF Counted
<1>6. SumFunction(Waits(k, w, more)) = 0
  <2>1. PICK f : f = Waits(k, w, more)
    OBVIOUS
  <2>2. DOMAIN f = {}
    BY <1>5, <2>1 DEF Waits
  <2> QED
    BY <1>2, <2>1, <2>2, SumOfNothing
<1>7. Full(k, w, n, more, 0)
  <2>1. w .. 0 - 1 = {}
    OBVIOUS
  <2> QED
    BY <2>1 DEF Full
<1>8. n * Span(w, 0, 0) = 0
  BY <1>1
<1>9. AreasOK(0, 0, k, w, n, more, 0)
  BY <1>3, <1>4, <1>7, <1>8 DEF AreasOK
<1>10. TalliesOK(0, 0, carry, k, w, more)
  BY <1>2, <1>5, <1>6 DEF TalliesOK
<1> QED
  BY <1>9, <1>10

\* s begins period k with so many left over behind the first l customers, the first of them called.
Opened(s, k, l, first, carry) ==
  /\ s.period = k /\ s.now = 0 /\ s.agenda = LeftCalled(l, first) /\ s.users = l + 1 .. l + first /\ s.server = <<>>
  /\ Len(s.line) = carry - first /\ s.longest = carry - first /\ s.left = carry
  /\ s.seen = 0 /\ s.queueArea = 0 /\ s.busyArea = 0 /\ s.served = 0 /\ s.waits = 0

\* Its books are true.
LEMMA BeginningBooks ==
  ASSUME plan \in [1 .. K -> Periods], NEW k \in 1 .. K, NEW people, NEW l \in Nat, NEW carry \in Nat, NEW first \in 0 .. carry,
         NEW more, Came(more, people, k, l, carry), DOMAIN people = 1 .. l, NEW s, Opened(s, k, l, first, carry)
  PROVE  Booked(s, more)
<1>0. /\ s.period = k /\ s.now = 0 /\ s.agenda = LeftCalled(l, first) /\ s.users = l + 1 .. l + first /\ s.server = <<>>
      /\ Len(s.line) = carry - first /\ s.longest = carry - first /\ s.left = carry
      /\ s.seen = 0 /\ s.queueArea = 0 /\ s.busyArea = 0 /\ s.served = 0 /\ s.waits = 0
  BY DEF Opened
<1>1. /\ Mine(k, more) = l + 1 .. l + carry /\ Started(k, more) = {} /\ Left(k, more) = l + 1 .. l + carry
      /\ \A c \in Mine(k, more) : more[c].arrival = 0 /\ more[c].start = Never
  BY CameIs
<1>2. plan[k].warmup \in Nat /\ plan[k].servers \in Nat
  BY PlanNumbers
<1>3. Cardinality(Left(k, more)) = carry
  <2>1. PICK a \in Int : a = l + 1
    OBVIOUS
  <2>2. PICK b \in Int : b = l + carry
    OBVIOUS
  <2>3. Cardinality(a .. b) = IF a > b THEN 0 ELSE b - a + 1
    BY FS_Interval
  <2> QED
    BY <1>1, <2>1, <2>2, <2>3
<1>4. more \in Seq(CustomerRows)
  BY DEF Came
<1>5. AreasOK(0, 0, k, plan[k].warmup, plan[k].servers, more, 0) /\ TalliesOK(0, 0, carry, k, plan[k].warmup, more)
  BY <1>1, <1>2, <1>3, <1>4, FreshBooks
<1>6. s.longest \in Nat /\ Len(s.line) <= s.longest
  BY <1>0
<1>7. Measures(s, k, 0, Len(s.line), more)
  BY <1>0, <1>5, <1>6 DEF Measures
<1>8. PICK a : a = LeftCalled(l, first)
  OBVIOUS
<1>9. a \in Seq(Entries) /\ Called(a) = l + 1 .. l + first
  BY <1>8, LeftCalledIs
<1>10. ASSUME NEW e \in Range(a) PROVE e.what = "granted"
  BY <1>8, <1>10 DEF LeftCalled, Range
<1>11. DOMAIN <<>> = {} /\ 0 < Hours
  BY SegmentAssumption
<1>12. TimesOK(k, 0, a, l + 1 .. l + first, <<>>, more)
  BY <1>1, <1>9, <1>10, <1>11 DEF TimesOK
<1> QED
  BY <1>0, <1>7, <1>8, <1>12 DEF Booked

\* Drawing the first arrival keeps the books.
LEMMA FirstArrivalBooks ==
  ASSUME NEW s, NEW people, Sound(s, people), Booked(s, people), NEW gap \in Gaps
  PROVE  Booked(NextArrival(s, gap), people) /\ NextArrival(s, gap).left = s.left
<1>1. PICK u : u = NextArrival(s, gap)
  OBVIOUS
<1>2. Alike(u, s)
  BY <1>1, NextArrivalSound
<1>3. SameBooks(u, s) /\ u.longest = s.longest
  BY <1>1, NextArrivalBooks DEF Sound
<1>4. TimesOK(s.period, s.now, u.agenda, s.users, s.server, people)
  BY <1>1, AnotherIsDue DEF Booked
<1>5. Measures(s, s.period, s.now, Len(s.line), people) /\ Len(s.line) \in Nat
  BY LenProperties DEF Booked, Sound, Good, Orderly, LineOK
<1>6. Measures(u, s.period, s.now, Len(s.line), people)
  BY <1>3, <1>5 DEF Measures, SameBooks
<1> QED
  BY <1>1, <1>2, <1>3, <1>4, <1>6 DEF Booked, Alike, SameBooks

\* That is how a period begins, before the first arrival is drawn.
Opening(s, k, l, carry, gap) ==
  /\ DOMAIN s = Fields
  /\ \E first \in 0 .. carry :
       /\ first <= plan[k].servers /\ (first = carry \/ first = plan[k].servers)
       /\ Opened(s, k, l, first, carry) /\ s.line = LeftWaiting(l, first, carry)
  /\ Begun(k, carry, gap) = IF plan[k].arrivals THEN NextArrival(s, gap) ELSE s

\* So every period begins.
LEMMA PeriodOpens ==
  ASSUME plan \in [1 .. K -> Periods], NEW k \in 1 .. K, NEW l \in Nat, l = Len(customer), NEW carry \in Nat, NEW gap \in Gaps
  PROVE  \E s : Opening(s, k, l, carry, gap)
<1>1. PICK first : first = Min({carry, plan[k].servers})
  OBVIOUS
<1>2. first \in 0 .. carry /\ first <= plan[k].servers /\ (first = carry \/ first = plan[k].servers)
  BY <1>1, CountersNumber, Smaller
<1>3. PICK users : users = {Len(customer) + i : i \in 1 .. first}
  OBVIOUS
<1>4. users = l + 1 .. l + first
  <2>1. ASSUME NEW c \in users PROVE c \in l + 1 .. l + first
    BY <1>2, <1>3
  <2>2. ASSUME NEW c \in l + 1 .. l + first PROVE c \in users
    <3>1. c - l \in 1 .. first /\ l + (c - l) = c
      BY <1>2, <2>2
    <3> QED
      BY <1>3, <3>1
  <2> QED
    BY <2>1, <2>2
<1>5. PICK agenda : agenda = LeftCalled(l, first)
  OBVIOUS
<1>6. PICK line : line = LeftWaiting(l, first, carry)
  OBVIOUS
<1>7. PICK s : s = [Empty(k) EXCEPT !.left = carry, !.longest = carry - first, !.users = users, !.agenda = agenda, !.line = line]
  OBVIOUS
<1>8. /\ DOMAIN s = Fields /\ s.period = k /\ s.now = 0 /\ s.agenda = agenda /\ s.line = line
      /\ s.users = users /\ s.server = <<>> /\ s.longest = carry - first /\ s.left = carry
      /\ s.seen = 0 /\ s.queueArea = 0 /\ s.busyArea = 0 /\ s.served = 0 /\ s.waits = 0
  BY <1>7 DEF Empty, Fields
<1>9. Begun(k, carry, gap) = IF plan[k].arrivals THEN NextArrival(s, gap) ELSE s
  <2>1. agenda = [i \in 1 .. first |-> [at |-> 0, what |-> "granted", of |-> Len(customer) + i]]
    BY <1>5 DEF LeftCalled
  <2>2. line = [i \in 1 .. carry - first |-> Len(customer) + first + i]
    BY <1>6 DEF LeftWaiting
  <2> QED
    BY <1>1, <1>3, <1>7, <2>1, <2>2 DEF Begun
<1>10. Len(line) = carry - first
  <2>1. PICK m \in Nat : m = carry - first
    BY <1>2
  <2>2. line \in Seq(Nat) /\ DOMAIN line = 1 .. m
    BY <1>2, <1>6, <2>1, LeftWaitingIs DEF LeftWaiting
  <2>3. Len(line) = m
    BY <2>2, LenProperties
  <2> QED
    BY <2>1, <2>3
<1>11. Opened(s, k, l, first, carry)
  BY <1>4, <1>5, <1>8, <1>10 DEF Opened
<1>12. Opening(s, k, l, carry, gap)
  BY <1>2, <1>6, <1>8, <1>9, <1>11 DEF Opening
<1> QED
  BY <1>12

\* The books of a period that has begun are true of all who have come by then.
LEMMA BegunBooks ==
  ASSUME plan \in [1 .. K -> Periods], NEW k \in 1 .. K, NEW l \in Nat, l = Len(customer), Before(k, customer, l),
         NEW carry \in Nat, NEW gap \in Gaps
  PROVE  LET more == customer \o Newcomers(k, carry)
         IN /\ Booked(Begun(k, carry, gap), more) /\ Begun(k, carry, gap).left = carry
            /\ \A q : q # k => SameOf(q, customer, more)
            /\ \A c \in DOMAIN more : more[c].period <= k
<1>1. PICK more : more = customer \o Newcomers(k, carry)
  OBVIOUS
<1>2. Came(more, customer, k, l, carry)
  BY <1>1, NewcomersJoin
<1>3. DOMAIN customer = 1 .. l
  BY LenProperties DEF Before
<1>4. PICK s : Opening(s, k, l, carry, gap)
  BY PeriodOpens
<1>5. PICK first \in 0 .. carry :
         /\ first <= plan[k].servers /\ (first = carry \/ first = plan[k].servers)
         /\ Opened(s, k, l, first, carry) /\ s.line = LeftWaiting(l, first, carry)
  BY <1>4 DEF Opening
<1>6. /\ DOMAIN s = Fields /\ s.period = k /\ s.now = 0 /\ s.agenda = LeftCalled(l, first) /\ s.users = l + 1 .. l + first
      /\ s.server = <<>> /\ s.left = carry
      /\ Begun(k, carry, gap) = IF plan[k].arrivals THEN NextArrival(s, gap) ELSE s
  BY <1>4, <1>5 DEF Opening, Opened
<1>7. Booked(s, more)
  BY <1>2, <1>3, <1>5, BeginningBooks
<1>8. Sound(s, more)
  <2>1. Good(k, 0, LeftCalled(l, first), LeftWaiting(l, first, carry), l + 1 .. l + first, <<>>, more)
    BY <1>1, <1>5, LeftOverSound
  <2> QED
    BY <1>5, <1>6, <2>1 DEF Sound
<1>9. Booked(Begun(k, carry, gap), more) /\ Begun(k, carry, gap).left = carry
  <2>1. CASE plan[k].arrivals
    BY <1>6, <1>7, <1>8, <2>1, FirstArrivalBooks
  <2>2. CASE ~ plan[k].arrivals
    BY <1>6, <1>7, <2>2
  <2> QED
    BY <2>1, <2>2
<1>10. (\A q : q # k => SameOf(q, customer, more)) /\ \A c \in DOMAIN more : more[c].period <= k
  BY <1>2, <1>3, CameIs
<1> QED
  BY <1>1, <1>9, <1>10

\* The books of the first period are true: nobody has come yet.
LEMMA EmptyBooks ==
  ASSUME plan \in [1 .. K -> Periods], NEW k \in 1 .. K
  PROVE  Booked(Empty(k), <<>>) /\ Empty(k).left = 0
<1>1. PICK s : s = Empty(k)
  OBVIOUS
<1>2. /\ s.period = k /\ s.now = 0 /\ s.agenda = <<>> /\ s.line = <<>>
      /\ s.users = {} /\ s.server = <<>> /\ s.longest = 0 /\ s.left = 0
      /\ s.seen = 0 /\ s.queueArea = 0 /\ s.busyArea = 0 /\ s.served = 0 /\ s.waits = 0
  BY <1>1 DEF Empty
<1>3. LeftCalled(0, 0) = <<>>
  <2>1. PICK a : a = LeftCalled(0, 0)
    OBVIOUS
  <2>2. a \in Seq(Entries) /\ DOMAIN a = 1 .. 0
    BY <2>1, LeftCalledIs DEF LeftCalled
  <2>3. Len(a) = 0
    BY <2>2, LenProperties
  <2> QED
    BY <2>1, <2>2, <2>3, EmptySeq
<1>4. PICK nobody : nobody = <<>>
  OBVIOUS
<1>5. Came(nobody, nobody, k, 0, 0) /\ DOMAIN nobody = 1 .. 0
  BY <1>4 DEF Came
<1>6. Opened(s, k, 0, 0, 0)
  BY <1>2, <1>3 DEF Opened
<1>7. Booked(s, nobody)
  BY <1>5, <1>6, BeginningBooks
<1> QED
  BY <1>1, <1>2, <1>4, <1>7

-----------------------------------------------------------------------------
(* The row of a period that is over *)

\* A band is one of the five, and "Unstable" means that all there was to use was used.
LEMMA BandIs ==
  ASSUME NEW b \in Int, NEW z \in Nat \ {0}
  PROVE  Band(b, z) \in Statuses /\ (Band(b, z) = "Unstable" <=> b >= z)
<1>1. CASE b >= z
  <2>1. Band(b, z) = "Unstable"
    BY <1>1 DEF Band
  <2> QED
    BY <1>1, <2>1 DEF Statuses
<1>2. CASE ~ (b >= z)
  <2>1. Band(b, z) \in {"Critical", "Peak", "Normal", "Lean"}
    BY <1>2 DEF Band
  <2> QED
    BY <1>2, <2>1 DEF Statuses
<1> QED
  BY <1>1, <1>2

\* The same of the status; a period that may pass had no long line.
LEMMA StatusIs ==
  ASSUME NEW s, s.busyArea \in Int, NEW z \in Nat \ {0}, z = Measurable(s.period), s.longest \in Nat
  PROVE  /\ Status(s) \in Statuses /\ (Status(s) = "Unstable" <=> s.busyArea >= z)
         /\ Status(s) \notin {"Unstable", "Critical"} => s.longest < Overload
<1>1. PICK band : band = Band(s.busyArea, Measurable(s.period))
  OBVIOUS
<1>2. PICK b \in Int : b = s.busyArea
  OBVIOUS
<1>3. band \in Statuses /\ (band = "Unstable" <=> b >= z)
  BY <1>1, <1>2, BandIs
<1>4. Status(s) = IF band # "Unstable" /\ s.longest >= Overload THEN "Critical" ELSE band
  BY <1>1 DEF Status
<1>5. Overload \in Nat
  BY SegmentAssumption
<1>6. CASE band # "Unstable" /\ s.longest >= Overload
  <2>1. Status(s) = "Critical"
    BY <1>4, <1>6
  <2> QED
    BY <1>2, <1>3, <1>6, <2>1 DEF Statuses
<1>7. CASE ~ (band # "Unstable" /\ s.longest >= Overload)
  <2>1. Status(s) = band
    BY <1>4, <1>7
  <2> QED
    BY <1>2, <1>3, <1>5, <1>7, <2>1
<1> QED
  BY <1>6, <1>7

\* The hours served are a number.
LEMMA ServedNumber ==
  ASSUME NEW p, NEW w \in Nat, NEW people \in Seq(CustomerRows), NEW t \in Nat
  PROVE  SumFunction(ServedFor(p, w, people, t)) \in Int
<1>1. PICK f : f = ServedFor(p, w, people, t)
  OBVIOUS
<1>2. DOMAIN f = Started(p, people) /\ IsFiniteSet(Started(p, people))
  BY <1>1, PeopleAre DEF ServedFor
<1>3. ASSUME NEW c \in DOMAIN f PROVE f[c] \in Int
  <2>1. c \in DOMAIN people /\ people[c].start # Never
    BY <1>2 DEF Started, Mine
  <2>2. people[c].start \in Nat /\ people[c].work \in Nat
    BY <2>1, PeopleAre
  <2>3. PICK e : e = IF people[c].start + people[c].work <= t THEN people[c].start + people[c].work ELSE t
    OBVIOUS
  <2>a. e \in Nat
    <3>1. PICK z \in Nat : z = people[c].start + people[c].work
      BY <2>2
    <3>2. e = IF z <= t THEN z ELSE t
      BY <2>3, <3>1
    <3> QED
      BY <3>2
  <2>4. f[c] = Span(w, people[c].start, e)
    BY <1>1, <1>2, <2>3 DEF ServedFor
  <2>5. Span(w, people[c].start, e) \in Nat
    BY <2>2, <2>a, SpanNumber
  <2> QED
    BY <2>4, <2>5
<1> QED
  BY <1>1, <1>2, <1>3, SumStep

\* A period is closed when nothing is due before its end.
Over == Len(rows) < K /\ Later(sim.agenda, Hours)

\* The row of a period that was simulated is true.
LEMMA RowIsTrue ==
  ASSUME IInv, BooksOK, Over, ~ Skipped(sim.period, sim.left), NEW row, row = RowOf(Monitored(sim, Hours))
  PROVE  /\ row.simulated = TRUE /\ row.initial = Brought(sim.period, rows)
         /\ RowTrue(row, sim.period, plan[sim.period].warmup, plan[sim.period].servers, customer)
<1>1. /\ Sound(sim, customer) /\ plan \in [1 .. K -> Periods] /\ sim.period \in 1 .. K
      /\ Booked(sim, customer) /\ sim.left = Brought(sim.period, rows) /\ DOMAIN sim = Fields
  BY DEF IInv, BooksOK, LedgerOK, Over, Sound
<1>2. PICK p : p = sim.period
  OBVIOUS
<1>3. Good(p, sim.now, sim.agenda, sim.line, sim.users, sim.server, customer) /\ p \in 1 .. K
  BY <1>1, <1>2 DEF Sound
<1>4. sim.now \in Nat /\ customer \in Seq(CustomerRows) /\ Hours \in Nat /\ Len(sim.line) \in Nat
  BY <1>3, GoodProperties, LenProperties
<1>5. TimesOK(p, sim.now, sim.agenda, sim.users, sim.server, customer) /\ sim.now < Hours
  BY <1>1, <1>2 DEF Booked, TimesOK
<1>6. PICK m : m = Monitored(sim, Hours)
  OBVIOUS
<1>7. Measures(m, p, Hours, Len(sim.line), customer)
  <2>1. sim.now <= Hours /\ Later(sim.agenda, Hours) /\ SameBooks(sim, sim)
    BY <1>4, <1>5 DEF Over, SameBooks
  <2>2. Measures(Monitored(sim, Hours), sim.period, Hours, Len(sim.line), customer)
    BY <1>1, <1>4, <2>1, MonitorKeeps
  <2> QED
    BY <1>2, <1>6, <2>2
<1>8. m.period = p /\ m.line = sim.line /\ m.left = sim.left
  BY <1>1, <1>2, <1>6, MonitoredIs, MonitoredBooks DEF Alike
<1>9. PICK w \in Nat : w = plan[p].warmup
  BY <1>1, <1>3, PlanNumbers
<1>10. PICK n \in Nat : n = plan[p].servers
  BY <1>1, <1>3, PlanNumbers
<1>11. w < Hours /\ n # 0
  BY <1>1, <1>3, <1>9, <1>10, PlanNumbers
<1>12. /\ AreasOK(m.queueArea, m.busyArea, p, w, n, customer, Hours) /\ TalliesOK(m.served, m.waits, m.left, p, w, customer)
       /\ m.longest \in Nat /\ Len(sim.line) <= m.longest
  BY <1>7, <1>9, <1>10 DEF Measures
<1>13. Len(sim.line) = Cardinality(Mine(p, customer) \ Started(p, customer))
  BY <1>3, <1>4, <1>5, TimePasses DEF Over
<1>a. PICK d \in Nat : d = Span(w, 0, Hours)
  BY <1>4, SpanNumber
<1>b. d = Hours - w /\ d # 0
  BY <1>4, <1>11, <1>a DEF Span
<1>14. PICK z : z = n * d
  OBVIOUS
<1>c. z \in Nat \ {0}
  BY <1>11, <1>b, <1>14
<1>15. z = Measurable(m.period)
  BY <1>8, <1>9, <1>10, <1>b, <1>14 DEF Measurable
<1>16. m.busyArea \in Int
  BY <1>4, <1>12, ServedNumber DEF AreasOK
<1>17. /\ Status(m) \in Statuses /\ (Status(m) = "Unstable" <=> m.busyArea >= z)
       /\ Status(m) \notin {"Unstable", "Critical"} => m.longest < Overload
  BY <1>12, <1>c, <1>15, <1>16, StatusIs
<1>18. Status(m) = "Unstable" <=> Full(p, w, n, customer, Hours)
  <2>1. m.busyArea <= z /\ ((m.busyArea = z) <=> Full(p, w, n, customer, Hours))
    BY <1>12, <1>a, <1>14 DEF AreasOK
  <2>2. m.busyArea >= z <=> m.busyArea = z
    BY <1>16, <1>c, <2>1
  <2> QED
    BY <1>17, <2>1, <2>2
<1>19. PICK status : status = Status(m)
  OBVIOUS
<1>20. /\ row.simulated = TRUE /\ row.status = status /\ row.initial = m.left /\ row.final = Len(sim.line)
       /\ row.served = m.served /\ row.waits = m.waits /\ row.longest = m.longest
       /\ row.queueArea = m.queueArea /\ row.busyArea = m.busyArea
  BY <1>6, <1>8, <1>19 DEF RowOf
<1>21. status \notin {"Unstable", "Critical"} => row.longest < Overload /\ row.final < Overload
  <2>1. PICK o \in Nat : o = m.longest
    BY <1>12
  <2>2. PICK f \in Nat : f = Len(sim.line)
    BY <1>4
  <2>3. Overload \in Nat
    BY SegmentAssumption
  <2> QED
    BY <1>12, <1>17, <1>19, <1>20, <2>1, <2>2, <2>3
<1>d. ASSUME NEW c \in Started(p, customer) PROVE customer[c].start <= Hours
  <2>1. customer[c].start <= sim.now
    BY <1>5 DEF TimesOK
  <2>2. customer[c].start \in Nat
    BY <1>4, PeopleAre DEF Started, Mine
  <2>3. PICK s \in Nat : s = customer[c].start
    BY <2>2
  <2> QED
    BY <1>4, <1>5, <2>1, <2>3
<1>22. RowTrue(row, p, w, n, customer)
  BY <1>12, <1>13, <1>17, <1>18, <1>19, <1>20, <1>21, <1>d DEF RowTrue
<1> QED
  BY <1>1, <1>2, <1>8, <1>9, <1>10, <1>20, <1>22

\* The row of a period that was not is empty.
LEMMA SkippedRow ==
  ASSUME IInv, BooksOK, Over, Skipped(sim.period, sim.left), NEW row,
         row = [NoRow EXCEPT !.status = IF plan[sim.period].supported THEN "NORMAL" ELSE @]
  PROVE  row.simulated = FALSE /\ RowEmpty(row, sim.period, customer)
<1>1. Mine(sim.period, customer) = {}
  BY DEF BooksOK, LedgerOK, Over
<1>2. PICK status : status = IF plan[sim.period].supported THEN "NORMAL" ELSE NoRow.status
  OBVIOUS
<1>3. row = [NoRow EXCEPT !.status = status]
  BY <1>2 DEF NoRow
<1>4. NoRow.status = "ERROR"
  BY DEF NoRow
<1>5. status \in {"NORMAL", "ERROR"}
  BY <1>2, <1>4
<1>6. row.simulated = FALSE /\ row.served = 0 /\ row.status = status
  BY <1>3 DEF NoRow
<1> QED
  BY <1>1, <1>5, <1>6 DEF RowEmpty

\* What a true row says of period k.
RowOK(done, k, people) ==
  /\ done[k].simulated \in BOOLEAN
  /\ done[k].simulated => RowTrue(done[k], k, plan[k].warmup, plan[k].servers, people) /\ done[k].initial = Brought(k, done)
  /\ ~ done[k].simulated => RowEmpty(done[k], k, people)

\* The rows stay true when one more is true, and the customers of the periods done do not change.
LEMMA RowsGrow ==
  ASSUME NEW done, NEW p \in Nat, DOMAIN done = 1 .. p - 1, RowsOK(done, customer),
         NEW more, DOMAIN more = 1 .. p, \A k \in DOMAIN done : more[k] = done[k],
         NEW people, \A k \in 1 .. p : SameOf(k, customer, people), RowOK(more, p, customer)
  PROVE  RowsOK(more, people)
<1>1. ASSUME NEW k \in 1 .. p
      PROVE  RowOK(more, k, customer)
  <2>1. CASE k = p
    BY <2>1
  <2>2. CASE k # p
    <3>1. k \in DOMAIN done
      BY <2>2
    <3>2. more[k] = done[k]
      BY <3>1
    <3>3. Brought(k, more) = Brought(k, done)
      <4>1. CASE k = 1
        BY <4>1 DEF Brought
      <4>2. CASE k # 1
        <5>1. k - 1 \in DOMAIN done
          BY <3>1, <4>2
        <5> QED
          BY <5>1 DEF Brought
      <4> QED
        BY <4>1, <4>2
    <3> QED
      BY <3>1, <3>2, <3>3 DEF RowsOK, RowOK
  <2> QED
    BY <2>1, <2>2
<1>2. ASSUME NEW k \in 1 .. p
      PROVE  RowOK(more, k, people)
  <2>1. SameOf(k, customer, people)
    OBVIOUS
  <2>2. /\ RowTrue(more[k], k, plan[k].warmup, plan[k].servers, customer) => RowTrue(more[k], k, plan[k].warmup, plan[k].servers, people)
        /\ RowEmpty(more[k], k, customer) => RowEmpty(more[k], k, people)
    BY <2>1, RowStays
  <2> QED
    BY <1>1, <2>2 DEF RowOK
<1> QED
  BY <1>2 DEF RowsOK, RowOK

-----------------------------------------------------------------------------
(* The books are kept *)

\* What is said in the next state is said of what is there then: the plan is the same.
LEMMA SaidAgain ==
  ASSUME UNCHANGED <<plan, carryover>>, \A c \in DOMAIN customer' : customer'[c].period <= sim'.period,
         RowsOK(rows', customer'), Len(rows') < K => LedgerOK(sim', rows', customer')
  PROVE  BooksOK'
<1>1. \A s, people : Booked(s, people)' <=> Booked(s, people)
  BY DEF Booked, Measures
<1>2. \A k, done : Brought(k, done)' = Brought(k, done)
  BY DEF Brought
<1>3. \A k, carry : Skipped(k, carry)' <=> Skipped(k, carry)
  BY DEF Skipped
<1>4. RowsOK(rows, customer)'
  BY <1>2 DEF RowsOK
<1>5. (Len(rows) < K)' => LedgerOK(sim, rows, customer)'
  BY <1>1, <1>2, <1>3 DEF LedgerOK
<1> QED
  BY <1>4, <1>5 DEF BooksOK

\* An event keeps the books of the day.
LEMMA EventKeeps ==
  ASSUME IInv, BooksOK, NEW what, Comes(what), UNCHANGED <<plan, carryover, rows>>, Goes(sim', sim, customer, customer')
  PROVE  BooksOK'
<1>1. /\ ~ Skipped(sim.period, sim.left) /\ Len(rows) < K /\ sim.left = Brought(sim.period, rows)
      /\ plan \in [1 .. K -> Periods]
  BY UnderwayBooks
<1>2. /\ Booked(sim', customer') /\ sim'.left = sim.left /\ sim'.period = sim.period
      /\ \A c \in DOMAIN customer' : customer'[c].period <= sim.period
      /\ \A k : k # sim.period => SameOf(k, customer, customer')
  BY DEF Goes
<1>3. LedgerOK(sim', rows, customer')
  BY <1>1, <1>2 DEF LedgerOK
<1>4. sim.period = Len(rows) + 1 /\ DOMAIN rows = 1 .. Len(rows) /\ Len(rows) \in Nat
  BY <1>1, LenProperties DEF IInv
<1>5. ASSUME NEW k \in DOMAIN rows
      PROVE  /\ RowTrue(rows[k], k, plan[k].warmup, plan[k].servers, customer) => RowTrue(rows[k], k, plan[k].warmup, plan[k].servers, customer')
             /\ RowEmpty(rows[k], k, customer) => RowEmpty(rows[k], k, customer')
  <2>1. SameOf(k, customer, customer')
    BY <1>2, <1>4
  <2> QED
    BY <2>1, RowStays
<1>6. RowsOK(rows, customer')
  BY <1>5 DEF BooksOK, RowsOK
<1> QED
  BY <1>2, <1>3, <1>6, SaidAgain

\* Closing a period adds a true row, and the books of the next are true.
LEMMA ClosePeriodBooks ==
  ASSUME IInv, BooksOK, ClosePeriod
  PROVE  BooksOK'
<1>1. /\ Len(rows) < K /\ UNCHANGED <<plan, carryover>> /\ plan \in [1 .. K -> Periods]
      /\ Over
  BY DEF ClosePeriod, IInv, Over, Later
<1>2. PICK p : p = sim.period
  OBVIOUS
<1>3. Sound(sim, customer) /\ p = Len(rows) + 1 /\ p \in 1 .. K /\ p \in Nat /\ K \in Nat /\ Len(rows) \in Nat /\ DOMAIN rows = 1 .. p - 1
  BY <1>1, <1>2, SegmentAssumption, LenProperties DEF IInv
<1>4. PICK row : /\ row = IF Skipped(sim.period, sim.left) THEN [NoRow EXCEPT !.status = IF plan[sim.period].supported THEN "NORMAL" ELSE @]
                          ELSE RowOf(Monitored(sim, Hours))
                /\ rows' = Append(rows, row)
                /\ Begin(sim.period + 1, Carry(row))
  BY DEF ClosePeriod
<1>5. PICK carry \in Nat : carry = Carry(row)
  BY <1>3, <1>4, CarriedOver
<1>6. PICK more : more = rows'
  OBVIOUS
<1>7. DOMAIN more = 1 .. p /\ more[p] = row /\ (\A k \in DOMAIN rows : more[k] = rows[k]) /\ Len(more) = p
  <2>1. PICK all : all = Range(rows) \cup {row}
    OBVIOUS
  <2>2. rows \in Seq(all)
    <3>1. rows \in [1 .. Len(rows) -> Range(rows)]
      BY LenProperties DEF IInv
    <3>2. rows \in [1 .. Len(rows) -> all]
      BY <2>1, <3>1
    <3> QED
      BY <1>3, <3>2
  <2>3. /\ more \in Seq(all) /\ Len(more) = Len(rows) + 1 /\ more[Len(rows) + 1] = row
        /\ \A i \in 1 .. Len(rows) : more[i] = rows[i]
    BY <1>4, <1>6, <2>1, <2>2, AppendProperties
  <2>4. DOMAIN more = 1 .. Len(more)
    BY <2>3, LenProperties
  <2> QED
    BY <1>3, <2>3, <2>4
<1>8. RowOK(more, p, customer)
  <2>1. Brought(p, more) = Brought(p, rows)
    <3>1. CASE p = 1
      BY <3>1 DEF Brought
    <3>2. CASE p # 1
      <4>1. p - 1 \in DOMAIN rows
        BY <1>3, <3>2
      <4> QED
        BY <1>7, <4>1 DEF Brought
    <3> QED
      BY <3>1, <3>2
  <2>2. CASE Skipped(sim.period, sim.left)
    <3>1. row = [NoRow EXCEPT !.status = IF plan[sim.period].supported THEN "NORMAL" ELSE @]
      BY <1>4, <2>2
    <3>2. row.simulated = FALSE /\ RowEmpty(row, p, customer)
      BY <1>1, <1>2, <2>2, <3>1, SkippedRow
    <3> QED
      BY <1>7, <3>2 DEF RowOK
  <2>3. CASE ~ Skipped(sim.period, sim.left)
    <3>1. row = RowOf(Monitored(sim, Hours))
      BY <1>4, <2>3
    <3>2. /\ row.simulated = TRUE /\ row.initial = Brought(p, rows)
          /\ RowTrue(row, p, plan[p].warmup, plan[p].servers, customer)
      BY <1>1, <1>2, <2>3, <3>1, RowIsTrue
    <3> QED
      BY <1>7, <2>1, <3>2 DEF RowOK
  <2> QED
    BY <2>2, <2>3
<1>9. RowsOK(rows, customer) /\ \A c \in DOMAIN customer : customer[c].period <= p
  BY <1>2 DEF BooksOK
<1>10. ASSUME NEW people, \A k \in 1 .. p : SameOf(k, customer, people)
       PROVE  RowsOK(more, people)
  BY <1>3, <1>7, <1>8, <1>9, <1>10, RowsGrow
<1>11. Good(p, sim.now, sim.agenda, sim.line, sim.users, sim.server, customer)
  BY <1>2, <1>3 DEF Sound
<1>12. PICK l \in Nat : l = Len(customer)
  BY <1>11, GoodProperties
<1>13. Before(p + 1, customer, l)
  <2>1. \A c \in DOMAIN customer : customer[c].period < p + 1
    <3>1. \A c \in DOMAIN customer : customer[c].period \in 1 .. K
      BY <1>11, GoodProperties
    <3> QED
      BY <1>3, <1>9, <3>1
  <2> QED
    BY <1>11, <1>12, <2>1 DEF Good, Orderly, PeopleOK, Before
<1>14. \A k : SameOf(k, customer, customer)
  BY DEF SameOf
<1>15. CASE p + 1 > K
  <2>1. p = K
    BY <1>3, <1>15
  <2>2. sim' = [Empty(K) EXCEPT !.now = Hours] /\ customer' = customer
    BY <1>2, <1>4, <1>15 DEF Begin
  <2>3. sim'.period = p
    BY <2>1, <2>2 DEF Empty
  <2>4. ~ (Len(rows') < K)
    BY <1>3, <1>6, <1>7, <2>1
  <2>5. RowsOK(rows', customer')
    BY <1>6, <1>10, <1>14, <2>2
  <2> QED
    BY <1>1, <1>9, <2>2, <2>3, <2>4, <2>5, SaidAgain
<1>16. CASE ~ (p + 1 > K)
  <2>1. PICK k \in 1 .. K : k = p + 1
    BY <1>3, <1>16
  <2>2. ~ (k > K) /\ k # 1 /\ k - 1 = p /\ \A q \in 1 .. p : q # k
    BY <1>3, <2>1
  <2>3. Before(k, customer, l) /\ Begin(k, carry)
    BY <1>2, <1>4, <1>5, <1>13, <2>1
  <2>4. carry = Brought(k, more)
    BY <1>5, <1>7, <2>2 DEF Brought, Carry
  <2>5. CASE Skipped(k, carry)
    <3>1. sim' = [Empty(k) EXCEPT !.now = Hours] /\ customer' = customer
      BY <2>2, <2>3, <2>5 DEF Begin
    <3>2. sim'.period = k /\ sim'.left = 0 /\ sim'.agenda = <<>>
      BY <3>1 DEF Empty
    <3>3. Skipped(k, 0)
      BY <2>5 DEF Skipped
    <3>4. Mine(k, customer) = {} /\ \A c \in DOMAIN customer : customer[c].period <= k
      <4>1. ASSUME NEW c \in DOMAIN customer PROVE customer[c].period # k /\ customer[c].period <= k
        <5>1. customer[c].period \in 1 .. K
          BY <1>11, GoodProperties
        <5>2. customer[c].period <= p
          BY <1>9
        <5> QED
          BY <1>3, <2>1, <5>1, <5>2
      <4> QED
        BY <4>1 DEF Mine
    <3>5. LedgerOK(sim', rows', customer')
      BY <3>1, <3>2, <3>3, <3>4 DEF LedgerOK
    <3>6. RowsOK(rows', customer')
      BY <1>6, <1>10, <1>14, <3>1
    <3> QED
      BY <1>1, <3>1, <3>2, <3>4, <3>5, <3>6, SaidAgain
  <2>6. CASE ~ Skipped(k, carry)
    <3>1. PICK gap \in Gaps : sim' = Begun(k, carry, gap) /\ customer' = customer \o [i \in 1 .. carry |-> NewCustomer(k, 0)]
      BY <2>2, <2>3, <2>6 DEF Begin
    <3>2. PICK people : people = customer \o Newcomers(k, carry)
      OBVIOUS
    <3>3. customer' = people
      BY <3>1, <3>2 DEF Newcomers
    <3>4. /\ Booked(Begun(k, carry, gap), people) /\ Begun(k, carry, gap).left = carry
          /\ \A q : q # k => SameOf(q, customer, people)
          /\ \A c \in DOMAIN people : people[c].period <= k
      BY <1>1, <1>12, <2>3, <3>2, BegunBooks
    <3>5. Begun(k, carry, gap).period = k
      BY <1>1, <1>12, <2>3, BegunSound
    <3>6. LedgerOK(sim', rows', customer')
      BY <1>6, <2>4, <2>6, <3>1, <3>3, <3>4, <3>5 DEF LedgerOK
    <3>7. RowsOK(rows', customer')
      BY <1>6, <1>10, <2>2, <3>3, <3>4
    <3> QED
      BY <1>1, <3>1, <3>3, <3>4, <3>5, <3>6, <3>7, SaidAgain
  <2> QED
    BY <2>5, <2>6
<1> QED
  BY <1>15, <1>16

\* The books of the day are true at the beginning.
LEMMA BooksBegin ==
  ASSUME Init
  PROVE  BooksOK
<1>1. plan \in [1 .. K -> Periods] /\ rows = <<>> /\ customer = <<>> /\ 1 \in 1 .. K
  BY SegmentAssumption DEF Init
<1>2. DOMAIN customer = {} /\ DOMAIN rows = {}
  BY <1>1
<1>3. PICK gap \in Gaps : sim = IF Skipped(1, 0) THEN [Empty(1) EXCEPT !.now = Hours] ELSE NextArrival(Empty(1), gap)
  BY DEF Init
<1>4. Mine(1, customer) = {} /\ RowsOK(rows, customer)
  BY <1>2 DEF Mine, RowsOK
<1>5. LedgerOK(sim, rows, customer)
  <2>1. CASE Skipped(1, 0)
    <3>1. sim = [Empty(1) EXCEPT !.now = Hours]
      BY <1>3, <2>1
    <3>2. sim.period = 1 /\ sim.left = 0 /\ sim.agenda = <<>>
      BY <3>1 DEF Empty
    <3> QED
      BY <1>4, <2>1, <3>2 DEF LedgerOK
  <2>2. CASE ~ Skipped(1, 0)
    <3>1. PICK s : s = Empty(1)
      OBVIOUS
    <3>2. sim = NextArrival(s, gap)
      BY <1>3, <2>2, <3>1
    <3>3. Booked(s, customer) /\ s.left = 0 /\ s.period = 1
      BY <1>1, <3>1, EmptyBooks DEF Empty
    <3>4. Sound(s, customer)
      <4>1. s = [Empty(1) EXCEPT !.now = 0]
        BY <3>1 DEF Empty
      <4>2. Before(1, customer, 0) /\ 0 \in 0 .. Hours
        BY <1>1, <1>2, SegmentAssumption DEF Before, InOrder
      <4> QED
        BY <1>1, <4>1, <4>2, EmptySound
    <3>5. Booked(sim, customer) /\ sim.left = 0 /\ sim.period = 1
      BY <3>2, <3>3, <3>4, FirstArrivalBooks, NextArrivalSound DEF Alike
    <3> QED
      BY <2>2, <3>5 DEF LedgerOK, Brought
  <2> QED
    BY <2>1, <2>2
<1> QED
  BY <1>2, <1>4, <1>5 DEF BooksOK

\* Every step keeps them.
LEMMA BooksKept ==
  ASSUME IInv, BooksOK, [Next]_vars
  PROVE  BooksOK'
<1>1. CASE Arrive
  <2>1. Comes("arrival") /\ UNCHANGED <<plan, carryover, rows>>
    BY <1>1 DEF Arrive
  <2>2. Goes(sim', sim, customer, customer')
    BY <1>1, ArriveBooks
  <2> QED
    BY <2>1, <2>2, EventKeeps
<1>2. CASE StartService
  <2>1. Comes("granted") /\ UNCHANGED <<plan, carryover, rows>>
    BY <1>2 DEF StartService
  <2>2. Goes(sim', sim, customer, customer')
    BY <1>2, StartServiceBooks
  <2> QED
    BY <2>1, <2>2, EventKeeps
<1>3. CASE EndService
  <2>1. Comes("end") /\ UNCHANGED <<plan, carryover, rows>>
    BY <1>3 DEF EndService
  <2>2. Goes(sim', sim, customer, customer')
    BY <1>3, EndServiceBooks
  <2> QED
    BY <2>1, <2>2, EventKeeps
<1>4. CASE OfferCounter
  <2>1. Comes("released") /\ UNCHANGED <<plan, carryover, rows>>
    BY <1>4 DEF OfferCounter
  <2>2. Goes(sim', sim, customer, customer')
    BY <1>4, OfferCounterBooks
  <2> QED
    BY <2>1, <2>2, EventKeeps
<1>5. CASE ClosePeriod
  BY <1>5, ClosePeriodBooks
<1>6. CASE UNCHANGED vars
  <2>1. UNCHANGED <<plan, carryover>> /\ rows' = rows /\ sim' = sim /\ customer' = customer
    BY <1>6 DEF vars
  <2> QED
    BY <2>1, SaidAgain DEF BooksOK
<1> QED
  BY <1>1, <1>2, <1>3, <1>4, <1>5, <1>6 DEF Next

-----------------------------------------------------------------------------
(* What the results say *)

\* Every period that was simulated counts at one status.
LEMMA StatusesCount ==
  ASSUME IInv, BooksOK
  PROVE  SumFunction(Summary.count) = Cardinality({k \in DOMAIN rows : rows[k].simulated})
<1>1. IsFiniteSet(DOMAIN rows)
  <2>1. DOMAIN rows = 1 .. Len(rows) /\ Len(rows) \in Nat
    BY LenProperties DEF IInv
  <2> QED
    BY <2>1, FS_Interval
<1>2. PICK D : D = {k \in DOMAIN rows : rows[k].simulated}
  OBVIOUS
<1>3. IsFiniteSet(D)
  BY <1>1, <1>2, FS_Subset
<1>4. IsFiniteSet(Statuses)
  <2>1. IsFiniteSet({"Unstable", "Peak", "Normal", "Lean"})
    <3>1. IsFiniteSet({"Lean"})
      BY FS_Singleton
    <3>2. IsFiniteSet({"Lean"} \cup {"Normal"})
      BY <3>1, FS_AddElement
    <3>3. IsFiniteSet(({"Lean"} \cup {"Normal"}) \cup {"Peak"})
      BY <3>2, FS_AddElement
    <3>4. IsFiniteSet((({"Lean"} \cup {"Normal"}) \cup {"Peak"}) \cup {"Unstable"})
      BY <3>3, FS_AddElement
    <3>5. (({"Lean"} \cup {"Normal"}) \cup {"Peak"}) \cup {"Unstable"} = {"Unstable", "Peak", "Normal", "Lean"}
      OBVIOUS
    <3> QED
      BY <3>4, <3>5
  <2>2. IsFiniteSet({"Unstable", "Peak", "Normal", "Lean"} \cup {"Critical"})
    BY <2>1, FS_AddElement
  <2>3. {"Unstable", "Peak", "Normal", "Lean"} \cup {"Critical"} = Statuses
    BY DEF Statuses
  <2> QED
    BY <2>2, <2>3
<1>5. PICK key : key = [k \in DOMAIN rows |-> rows[k].status]
  OBVIOUS
<1>6. ASSUME NEW k \in DOMAIN rows
      PROVE  /\ rows[k].simulated \in BOOLEAN
             /\ rows[k].simulated => rows[k].status \in Statuses
             /\ ~ rows[k].simulated => rows[k].status \in {"NORMAL", "ERROR"}
  BY DEF BooksOK, RowsOK, RowTrue, RowEmpty
<1>7. \A d \in D : key[d] \in Statuses
  BY <1>2, <1>5, <1>6
<1>8. SumFunction(Fibres(D, key, Statuses)) = Cardinality(D)
  BY <1>3, <1>4, <1>7, SumOfFibres
<1>9. PICK valid : valid = {k \in DOMAIN rows : rows[k].status # "ERROR"}
  OBVIOUS
<1>10. ASSUME NEW status \in Statuses
       PROVE  {k \in valid : rows[k].status = status} = {c \in D : key[c] = status}
  <2>1. status \notin {"NORMAL", "ERROR"}
    BY DEF Statuses
  <2>2. ASSUME NEW k \in DOMAIN rows
        PROVE  (k \in valid /\ rows[k].status = status) <=> (k \in D /\ key[k] = status)
    BY <1>2, <1>5, <1>6, <1>9, <2>1
  <2>3. valid \subseteq DOMAIN rows /\ D \subseteq DOMAIN rows
    BY <1>2, <1>9
  <2> QED
    BY <2>2, <2>3
<1>11. Summary.count = [status \in Statuses |-> Cardinality({k \in valid : rows[k].status = status})]
  BY <1>9 DEF Summary, Statuses
<1>12. Summary.count = Fibres(D, key, Statuses)
  BY <1>10, <1>11 DEF Fibres
<1> QED
  BY <1>2, <1>8, <1>12

\* The summary counts as served whoever began behind the warm-up of a period done.
LEMMA ServedCount ==
  ASSUME IInv, BooksOK, customer \in Seq(CustomerRows)
  PROVE  Summary.served = Cardinality({c \in DOMAIN customer :
           customer[c].period \in DOMAIN rows /\ customer[c].start >= plan[customer[c].period].warmup})
<1>1. DOMAIN rows = 1 .. Len(rows) /\ Len(rows) \in Nat /\ Len(rows) <= K /\ K \in Nat /\ plan \in [1 .. K -> Periods]
  BY LenProperties, SegmentAssumption DEF IInv
<1>2. IsFiniteSet(DOMAIN rows)
  BY <1>1, FS_Interval
<1>3. PICK D : D = {c \in DOMAIN customer : customer[c].period \in DOMAIN rows /\ customer[c].start >= plan[customer[c].period].warmup}
  OBVIOUS
<1>4. IsFiniteSet(D)
  BY <1>3, PeopleAre, FS_Subset
<1>5. PICK key : key = [c \in DOMAIN customer |-> customer[c].period]
  OBVIOUS
<1>6. \A d \in D : key[d] \in DOMAIN rows
  BY <1>3, <1>5
<1>7. SumFunction(Fibres(D, key, DOMAIN rows)) = Cardinality(D)
  BY <1>2, <1>4, <1>6, SumOfFibres
<1>8. ASSUME NEW k \in DOMAIN rows
      PROVE  rows[k].served = Cardinality({c \in D : key[c] = k})
  <2>1. k \in 1 .. K
    BY <1>1
  <2>2. PICK w \in Nat : w = plan[k].warmup
    BY <1>1, <2>1, PlanNumbers
  <2>3. ASSUME NEW c \in DOMAIN customer
        PROVE  (c \in D /\ key[c] = k) <=> c \in Counted(k, w, customer)
    <3>1. customer[c].start >= w => customer[c].start # Never
      BY <2>2 DEF Never
    <3> QED
      BY <1>3, <1>5, <2>2, <3>1 DEF Counted, Started, Mine
  <2>4. {c \in D : key[c] = k} = Counted(k, w, customer)
    <3>1. D \subseteq DOMAIN customer /\ Counted(k, w, customer) \subseteq DOMAIN customer
      BY <1>3 DEF Counted, Started, Mine
    <3> QED
      BY <2>3, <3>1
  <2>5. CASE rows[k].simulated
    <3>1. RowTrue(rows[k], k, plan[k].warmup, plan[k].servers, customer)
      BY <2>5 DEF BooksOK, RowsOK
    <3> QED
      BY <2>2, <2>4, <3>1 DEF RowTrue, TalliesOK
  <2>6. CASE ~ rows[k].simulated
    <3>1. rows[k].served = 0 /\ Mine(k, customer) = {}
      BY <2>6 DEF BooksOK, RowsOK, RowEmpty
    <3>2. Counted(k, w, customer) = {}
      BY <3>1 DEF Counted, Started
    <3> QED
      BY <2>4, <3>1, <3>2, FS_EmptySet
  <2> QED
    BY <2>5, <2>6
<1>9. Summary.served = SumFunction([k \in DOMAIN rows |-> rows[k].served])
  BY DEF Summary
<1>10. [k \in DOMAIN rows |-> rows[k].served] = Fibres(D, key, DOMAIN rows)
  BY <1>8 DEF Fibres
<1> QED
  BY <1>3, <1>7, <1>9, <1>10

\* The areas are those the customers' times make.
LEMMA AreasAre ==
  ASSUME NEW k, plan[k].warmup \in Nat, customer \in Seq(CustomerRows), \A c \in Started(k, customer) : customer[c].start <= Hours
  PROVE  /\ [c \in Of(k) |-> Within(k, customer[c].arrival, IF c \in Started(k, customer) THEN customer[c].start ELSE Hours)]
              = Waited(k, plan[k].warmup, customer, Hours)
         /\ [c \in Started(k, customer) |-> Within(k, customer[c].start, customer[c].start + customer[c].work)]
              = ServedFor(k, plan[k].warmup, customer, Hours)
<1>1. PICK w \in Nat : w = plan[k].warmup
  OBVIOUS
<1>2. Of(k) = Mine(k, customer) /\ Hours \in Nat
  BY SegmentAssumption DEF Of, Mine
<1>3. ASSUME NEW c \in Mine(k, customer)
      PROVE  Within(k, customer[c].arrival, IF c \in Started(k, customer) THEN customer[c].start ELSE Hours)
               = Span(w, customer[c].arrival, IF customer[c].start # Never THEN customer[c].start ELSE Hours)
  <2>1. c \in DOMAIN customer
    BY DEF Mine
  <2>2. customer[c].arrival \in Nat
    BY <2>1, PeopleAre
  <2>3. PICK b : b = IF customer[c].start # Never THEN customer[c].start ELSE Hours
    OBVIOUS
  <2>4. (IF c \in Started(k, customer) THEN customer[c].start ELSE Hours) = b
    BY <2>3 DEF Started
  <2>5. b \in Nat /\ b <= Hours
    <3>1. CASE customer[c].start # Never
      <4>1. c \in Started(k, customer) /\ customer[c].start \in Nat
        BY <2>1, <3>1, PeopleAre DEF Started
      <4> QED
        BY <2>3, <3>1, <4>1
    <3>2. CASE ~ (customer[c].start # Never)
      BY <1>2, <2>3, <3>2
    <3> QED
      BY <3>1, <3>2
  <2>6. Within(k, customer[c].arrival, b) = Span(plan[k].warmup, customer[c].arrival, IF b <= Hours THEN b ELSE Hours)
    BY <2>2, <2>5, WithinIs
  <2> QED
    BY <1>1, <2>3, <2>4, <2>5, <2>6
<1>4. ASSUME NEW c \in Started(k, customer)
      PROVE  Within(k, customer[c].start, customer[c].start + customer[c].work)
               = Span(w, customer[c].start, IF customer[c].start + customer[c].work <= Hours THEN customer[c].start + customer[c].work ELSE Hours)
  <2>1. customer[c].start \in Nat /\ customer[c].work \in Nat
    BY PeopleAre DEF Started, Mine
  <2>2. PICK e \in Nat : e = customer[c].start + customer[c].work
    BY <2>1
  <2>3. Within(k, customer[c].start, e) = Span(plan[k].warmup, customer[c].start, IF e <= Hours THEN e ELSE Hours)
    BY <2>1, WithinIs
  <2> QED
    BY <1>1, <2>2, <2>3
<1> QED
  BY <1>1, <1>2, <1>3, <1>4 DEF Waited, ServedFor

\* The results of period k are what its customers did.
RowSaid(k) ==
  LET row == rows[k]
      begun == {c \in Of(k) : customer[c].start # Never}
      counted == {c \in begun : customer[c].start >= plan[k].warmup}
      until(c) == IF c \in begun THEN customer[c].start ELSE Hours
  IN /\ row.queueArea = SumFunction([c \in Of(k) |-> Within(k, customer[c].arrival, until(c))])
     /\ row.busyArea = SumFunction([c \in begun |-> Within(k, customer[c].start, customer[c].start + customer[c].work)])
     /\ row.served = Cardinality(counted)
     /\ row.waits = SumFunction([c \in counted |-> customer[c].start - customer[c].arrival])
     /\ row.final = Cardinality(Of(k) \ begun) /\ row.final <= row.longest
     /\ row.initial = IF k = 1 \/ ~carryover THEN 0 ELSE rows[k - 1].final
     /\ row.initial = Cardinality({c \in Of(k) : customer[c].arrival = 0})
     /\ row.status = "Unstable" <=>
          \A t \in plan[k].warmup .. Hours - 1 :
            Cardinality({c \in begun : customer[c].start <= t /\ t < customer[c].start + customer[c].work}) = plan[k].servers
     /\ row.status \notin {"Unstable", "Critical"} => row.longest < Overload /\ row.final < Overload

\* So they are.
LEMMA RowSays ==
  ASSUME IInv, BooksOK, customer \in Seq(CustomerRows), NEW k \in DOMAIN rows, rows[k].simulated
  PROVE  RowSaid(k)
<1>1. DOMAIN rows = 1 .. Len(rows) /\ Len(rows) \in Nat /\ Len(rows) <= K /\ K \in Nat /\ plan \in [1 .. K -> Periods]
  BY LenProperties, SegmentAssumption DEF IInv
<1>2. k \in 1 .. K
  BY <1>1
<1>3. PICK w \in Nat : w = plan[k].warmup
  BY <1>1, <1>2, PlanNumbers
<1>4. PICK row : row = rows[k]
  OBVIOUS
<1>5. RowTrue(row, k, w, plan[k].servers, customer) /\ row.initial = Brought(k, rows)
  BY <1>3, <1>4 DEF BooksOK, RowsOK
<1>6. PICK begun : begun = {c \in Of(k) : customer[c].start # Never}
  OBVIOUS
<1>7. Of(k) = Mine(k, customer) /\ begun = Started(k, customer)
  BY <1>6 DEF Of, Mine, Started
<1>8. PICK counted : counted = {c \in begun : customer[c].start >= w}
  OBVIOUS
<1>9. counted = Counted(k, w, customer)
  BY <1>7, <1>8 DEF Counted
<1>10. /\ row.queueArea = SumFunction(Waited(k, w, customer, Hours)) /\ row.busyArea = SumFunction(ServedFor(k, w, customer, Hours))
       /\ row.served = Cardinality(counted) /\ row.waits = SumFunction(Waits(k, w, customer))
       /\ row.initial = Cardinality(Left(k, customer)) /\ row.final = Cardinality(Of(k) \ begun) /\ row.final <= row.longest
       /\ (row.status = "Unstable" <=> Full(k, w, plan[k].servers, customer, Hours))
       /\ (row.status \notin {"Unstable", "Critical"} => row.longest < Overload /\ row.final < Overload)
       /\ \A c \in begun : customer[c].start <= Hours
  BY <1>5, <1>7, <1>9 DEF RowTrue, AreasOK, TalliesOK
<1>11. /\ [c \in Of(k) |-> Within(k, customer[c].arrival, IF c \in begun THEN customer[c].start ELSE Hours)]
              = Waited(k, w, customer, Hours)
       /\ [c \in begun |-> Within(k, customer[c].start, customer[c].start + customer[c].work)]
              = ServedFor(k, w, customer, Hours)
  BY <1>3, <1>7, <1>10, AreasAre
<1>12. [c \in counted |-> customer[c].start - customer[c].arrival] = Waits(k, w, customer)
  BY <1>9 DEF Waits
<1>13. {c \in Of(k) : customer[c].arrival = 0} = Left(k, customer)
  BY <1>7 DEF Left
<1>14. Full(k, w, plan[k].servers, customer, Hours) <=>
         \A t \in w .. Hours - 1 :
           Cardinality({c \in begun : customer[c].start <= t /\ t < customer[c].start + customer[c].work}) = plan[k].servers
  BY <1>7 DEF Full, InService
<1>15. Brought(k, rows) = IF k = 1 \/ ~carryover THEN 0 ELSE rows[k - 1].final
  BY DEF Brought
<1>16. /\ row.queueArea = SumFunction([c \in Of(k) |->
            Within(k, customer[c].arrival, IF c \in begun THEN customer[c].start ELSE Hours)])
       /\ row.busyArea = SumFunction([c \in begun |-> Within(k, customer[c].start, customer[c].start + customer[c].work)])
  BY <1>10, <1>11
<1>17. row.waits = SumFunction([c \in counted |-> customer[c].start - customer[c].arrival])
  BY <1>10, <1>12
<1>18. /\ row.initial = IF k = 1 \/ ~carryover THEN 0 ELSE rows[k - 1].final
       /\ row.initial = Cardinality({c \in Of(k) : customer[c].arrival = 0})
  <2>1. PICK brought : brought = IF k = 1 \/ ~carryover THEN 0 ELSE rows[k - 1].final
    OBVIOUS
  <2>2. row.initial = brought
    BY <1>5, <1>15, <2>1
  <2>3. row.initial = Cardinality(Left(k, customer))
    BY <1>10
  <2> QED
    BY <1>13, <2>1, <2>2, <2>3
<1>19. row.status = "Unstable" <=>
         \A t \in w .. Hours - 1 :
           Cardinality({c \in begun : customer[c].start <= t /\ t < customer[c].start + customer[c].work}) = plan[k].servers
  BY <1>10, <1>14
<1>20. /\ row.served = Cardinality(counted) /\ row.final = Cardinality(Of(k) \ begun) /\ row.final <= row.longest
       /\ row.status \notin {"Unstable", "Critical"} => row.longest < Overload /\ row.final < Overload
  BY <1>10
<1>21. /\ counted = {c \in begun : customer[c].start >= plan[k].warmup}
       /\ row.status = "Unstable" <=>
            \A t \in plan[k].warmup .. Hours - 1 :
               Cardinality({c \in begun : customer[c].start <= t /\ t < customer[c].start + customer[c].work}) = plan[k].servers
  BY <1>3, <1>8, <1>19
<1>22. rows[k].queueArea = SumFunction([c \in Of(k) |->
         Within(k, customer[c].arrival, IF c \in {d \in Of(k) : customer[d].start # Never} THEN customer[c].start ELSE Hours)])
  BY <1>4, <1>6, <1>16
<1>23. rows[k].busyArea = SumFunction([c \in {d \in Of(k) : customer[d].start # Never} |->
         Within(k, customer[c].start, customer[c].start + customer[c].work)])
  BY <1>4, <1>6, <1>16
<1>24. rows[k].served = Cardinality({c \in {d \in Of(k) : customer[d].start # Never} : customer[c].start >= plan[k].warmup})
  BY <1>4, <1>6, <1>20, <1>21
<1>25. rows[k].waits = SumFunction([c \in {e \in {d \in Of(k) : customer[d].start # Never} : customer[e].start >= plan[k].warmup} |->
         customer[c].start - customer[c].arrival])
  BY <1>4, <1>6, <1>17, <1>21
<1>26. rows[k].final = Cardinality(Of(k) \ {c \in Of(k) : customer[c].start # Never}) /\ rows[k].final <= rows[k].longest
  BY <1>4, <1>6, <1>20
<1>27. rows[k].status = "Unstable" <=>
         \A t \in plan[k].warmup .. Hours - 1 :
           Cardinality({c \in {d \in Of(k) : customer[d].start # Never} :
                          customer[c].start <= t /\ t < customer[c].start + customer[c].work}) = plan[k].servers
  BY <1>4, <1>6, <1>21
<1>28. /\ rows[k].initial = IF k = 1 \/ ~carryover THEN 0 ELSE rows[k - 1].final
       /\ rows[k].initial = Cardinality({c \in Of(k) : customer[c].arrival = 0})
       /\ rows[k].status \notin {"Unstable", "Critical"} => rows[k].longest < Overload /\ rows[k].final < Overload
  BY <1>4, <1>18, <1>20
<1> QED
  BY <1>22, <1>23, <1>24, <1>25, <1>26, <1>27, <1>28 DEF RowSaid

\* The customers are rows of the model's kind.
CustomersOK == customer \in Seq(CustomerRows)

\* They stay so, and nobody comes when the last period is over.
LEMMA CustomersKept ==
  ASSUME IInv, CustomersOK, [Next]_vars, IInv'
  PROVE  CustomersOK'
<1>1. CASE Len(rows') < K
  <2>1. Sound(sim, customer)'
    BY <1>1 DEF IInv
  <2>2. PeopleOK(sim.period, sim.now, sim.agenda, sim.line, sim.users, customer)'
    BY <2>1 DEF Sound, Good, Orderly
  <2> QED
    BY <2>2 DEF PeopleOK, CustomersOK, CustomerRows
<1>2. CASE ~ (Len(rows') < K)
  <2>1. CASE UNCHANGED vars
    BY <2>1 DEF vars, CustomersOK, CustomerRows
  <2>2. CASE ClosePeriod
    <3>1. Len(rows) < K /\ sim.period = Len(rows) + 1 /\ Len(rows) \in Nat /\ K \in Nat
      BY <2>2, SegmentAssumption, LenProperties DEF ClosePeriod, IInv
    <3>2. PICK row : rows' = Append(rows, row) /\ Begin(sim.period + 1, Carry(row))
      BY <2>2 DEF ClosePeriod
    <3>3. Len(rows') = Len(rows) + 1
      <4>1. rows \in Seq(Range(rows) \cup {row})
        <5>1. rows \in [1 .. Len(rows) -> Range(rows)]
          BY LenProperties DEF IInv
        <5>2. rows \in [1 .. Len(rows) -> Range(rows) \cup {row}]
          BY <5>1
        <5> QED
          BY <3>1, <5>2
      <4> QED
        BY <3>2, <4>1, AppendProperties
    <3>4. sim.period + 1 > K
      BY <1>2, <3>1, <3>3
    <3>5. customer' = customer
      BY <3>2, <3>4 DEF Begin
    <3> QED
      BY <3>5 DEF CustomersOK, CustomerRows
  <2>3. CASE Arrive \/ StartService \/ EndService \/ OfferCounter
    <3>1. rows' = rows /\ sim.agenda # <<>>
      <4>1. CASE Arrive
        BY <4>1 DEF Arrive, Comes
      <4>2. CASE StartService
        BY <4>2 DEF StartService, Comes
      <4>3. CASE EndService
        BY <4>3 DEF EndService, Comes
      <4>4. CASE OfferCounter
        BY <4>4 DEF OfferCounter, Comes
      <4> QED
        BY <2>3, <4>1, <4>2, <4>3, <4>4
    <3>2. Len(rows) = K
      BY <1>2, <3>1, SegmentAssumption, LenProperties DEF IInv
    <3> QED
      BY <3>1, <3>2 DEF IInv, Idle
  <2> QED
    BY <2>1, <2>2, <2>3 DEF Next
<1> QED
  BY <1>1, <1>2

\* The results of a period are what its customers did, the next begins with those it leaves over, and the summary counts
\* every period that was simulated and everyone served once.
LEMMA ResultsAreTrue ==
  ASSUME IInv, BooksOK, CustomersOK
  PROVE  RowsAccountForEveryCustomer
<1>1. customer \in Seq(CustomerRows)
  BY DEF CustomersOK
<1>2. SumFunction(Summary.count) = Cardinality({k \in DOMAIN rows : rows[k].simulated})
  BY StatusesCount
<1>3. Summary.served = Cardinality({c \in DOMAIN customer :
        customer[c].period \in DOMAIN rows /\ customer[c].start >= plan[customer[c].period].warmup})
  BY <1>1, ServedCount
<1>4. \A k \in DOMAIN rows : rows[k].simulated => RowSaid(k)
  BY <1>1, RowSays
<1> QED
  BY <1>2, <1>3, <1>4 DEF RowsAccountForEveryCustomer, RowSaid

\* In every reachable state the results of each period are what its customers did: the areas, the tallies, the line it
\* leaves and the status (RowsAccountForEveryCustomer; _QueueMonitor, _customer_process, _simulate_segments_core,
\* _classify_status, summarize_simulation).
THEOREM RowsAlwaysAccount == Spec => []RowsAccountForEveryCustomer
<1>1. Init => IInv /\ BooksOK /\ CustomersOK
  <2>1. Init => CustomersOK
    BY DEF Init, CustomersOK
  <2> QED
    BY <2>1, BeginsWell, BooksBegin
<1>2. IInv /\ BooksOK /\ CustomersOK /\ [Next]_vars => (IInv /\ BooksOK /\ CustomersOK)'
  BY StepKeeps, BooksKept, CustomersKept
<1>3. IInv /\ BooksOK /\ CustomersOK => RowsAccountForEveryCustomer
  BY ResultsAreTrue
<1> QED
  BY <1>1, <1>2, <1>3, PTL DEF Spec

=============================================================================
