------------------------- MODULE SeparateDayProofs -------------------------
(***************************************************************************)
(* Proofs about the lanes of SeparateDay, for any number of lanes,         *)
(* customers, windows and breaks, in each of the three engines; and about  *)
(* the requests of SeparatePlanning that plan for those lanes.             *)
(***************************************************************************)
EXTENDS SeparateDay, SeparatePlanning, TLAPS, FiniteSetTheorems, SequenceTheorems, WellFoundedInduction

\* A non-empty set of natural numbers has a least member.
LEMMA LeastNumber ==
  ASSUME NEW S, S \subseteq Nat, S # {}
  PROVE  \E m \in S : \A k \in S : m <= k
<1> DEFINE Less == {ss \in Nat \X Nat : ss[1] < ss[2]}
<1>1. IsWellFoundedOn(Less, Nat)
  BY NatLessThanWellFounded DEF OpToRel
<1> HIDE DEF Less
<1>2. PICK m \in S : \A k \in S : ~ (<<k, m>> \in Less)
  BY <1>1, WFMin
<1>3. \A k \in S : ~ (k < m)
  BY <1>2 DEF Less
<1> QED
  BY <1>3

\* Min is that member.
LEMMA MinIsLeast ==
  ASSUME NEW S, S \subseteq Nat, S # {}
  PROVE  Min(S) \in S /\ \A k \in S : Min(S) <= k
BY LeastNumber DEF Min

\* What is due by some time is a beginning of the agenda.
LEMMA DueFirst ==
  ASSUME NEW a, Len(a) \in Nat, DOMAIN a = 1 .. Len(a), \A i \in 1 .. Len(a) : a[i].at \in Nat,
         \A i, j \in DOMAIN a : i < j => a[i].at <= a[j].at, NEW t \in Nat
  PROVE  \E k \in 0 .. Len(a) : {i \in DOMAIN a : a[i].at <= t} = 1 .. k
<1>0. Len(a) \in Nat /\ DOMAIN a = 1 .. Len(a) /\ \A i \in 1 .. Len(a) : a[i].at \in Nat
  OBVIOUS
<1> DEFINE Late == {i \in 1 .. Len(a) : ~ (a[i].at <= t)}
<1>1. CASE Late = {}
  <2>1. {i \in DOMAIN a : a[i].at <= t} = 1 .. Len(a)
    BY <1>0, <1>1
  <2> QED
    BY <1>0, <2>1
<1>2. CASE Late # {}
  <2>0. Late \subseteq Nat
    OBVIOUS
  <2>1. PICK m \in Late : \A k \in Late : m <= k
    <3> HIDE DEF Late
    <3> QED
      BY <1>2, <2>0, LeastNumber
  <2>2. m \in 1 .. Len(a) /\ ~ (a[m].at <= t)
    OBVIOUS
  <2>3. \A i \in 1 .. Len(a) : m < i => ~ (a[i].at <= t)
    BY <1>0, <2>2
  <2>4. \A i \in 1 .. Len(a) : i < m => a[i].at <= t
    BY <2>1, <2>2
  <2>5. {i \in DOMAIN a : a[i].at <= t} = 1 .. (m - 1)
    <3> HIDE DEF Late
    <3> QED
      BY <1>0, <2>2, <2>3, <2>4
  <2>6. m - 1 \in 0 .. Len(a)
    BY <1>0, <2>2
  <2> QED
    BY <2>5, <2>6
<1> QED
  BY <1>1, <1>2

\* b is a with x put in behind the first k entries.
Grown(a, k, x, b) ==
  /\ Len(b) = Len(a) + 1
  /\ \A i \in 1 .. k : b[i] = a[i]
  /\ b[k + 1] = x
  /\ \A i \in k + 1 .. Len(a) : b[i + 1] = a[i]

\* An entry is put behind those due by its time, and the others move up.
LEMMA Inserted ==
  ASSUME NEW Entries, NEW a \in Seq(Entries), NEW k \in 0 .. Len(a), NEW x \in Entries
  PROVE  InsertAt(a, k + 1, x) \in Seq(Entries) /\ Grown(a, k, x, InsertAt(a, k + 1, x))
<1>a. PICK b : b = InsertAt(a, k + 1, x)
  OBVIOUS
<1>0. Len(a) \in Nat /\ k \in Nat /\ k <= Len(a) /\ a \in Seq(Entries) /\ \A i \in 1 .. Len(a) : a[i] \in Entries
  BY LenProperties, ElementOfSeq
<1>1. PICK front : front = SubSeq(a, 1, k)
  OBVIOUS
<1>2. PICK back : back = SubSeq(a, k + 1, Len(a))
  OBVIOUS
<1>3. front \in Seq(Entries) /\ Len(front) = k /\ \A i \in 1 .. k : front[i] = a[i]
  BY <1>0, <1>1, SubSeqProperties
<1>4. back \in Seq(Entries) /\ Len(back) = Len(a) - k /\ \A i \in 1 .. Len(a) - k : back[i] = a[k + i]
  <2>1. \A i \in k + 1 .. Len(a) : a[i] \in Entries
    BY <1>0
  <2>2. /\ back \in Seq(Entries)
        /\ Len(back) = IF k + 1 <= Len(a) THEN Len(a) - (k + 1) + 1 ELSE 0
        /\ \A i \in 1 .. Len(a) - (k + 1) + 1 : back[i] = a[k + 1 + i - 1]
    BY <1>0, <1>2, <2>1, SubSeqProperties
  <2>3. Len(back) = Len(a) - k
    BY <1>0, <2>2
  <2>4. ASSUME NEW i \in 1 .. Len(a) - k PROVE back[i] = a[k + i]
    <3>1. i \in 1 .. Len(a) - (k + 1) + 1 /\ k + 1 + i - 1 = k + i
      BY <1>0
    <3> QED
      BY <2>2, <3>1
  <2> QED
    BY <2>2, <2>3, <2>4
<1>5. PICK mid : mid = front \o <<x>>
  OBVIOUS
<1>6. mid \in Seq(Entries) /\ Len(mid) = k + 1 /\ mid[k + 1] = x /\ \A i \in 1 .. k : mid[i] = a[i]
  <2>1. <<x>> \in Seq(Entries) /\ Len(<<x>>) = 1 /\ <<x>>[1] = x
    OBVIOUS
  <2>2. /\ mid \in Seq(Entries) /\ Len(mid) = k + 1
        /\ \A i \in 1 .. k + 1 : mid[i] = IF i <= k THEN front[i] ELSE <<x>>[i - k]
    BY <1>3, <1>5, <2>1, ConcatProperties
  <2> QED
    BY <1>0, <1>3, <2>1, <2>2
<1>7. b = mid \o back
  <2>1. (k + 1) - 1 = k
    BY <1>0
  <2>2. InsertAt(a, k + 1, x) = SubSeq(a, 1, (k + 1) - 1) \o <<x>> \o SubSeq(a, k + 1, Len(a))
    BY DEF InsertAt
  <2> QED
    BY <1>a, <1>1, <1>2, <1>5, <2>1, <2>2, Zenon
<1>8. /\ b \in Seq(Entries) /\ Len(b) = Len(mid) + Len(back)
      /\ \A i \in 1 .. Len(mid) + Len(back) : b[i] = IF i <= Len(mid) THEN mid[i] ELSE back[i - Len(mid)]
  <2>1. mid \in Seq(Entries) /\ back \in Seq(Entries)
    BY <1>4, <1>6
  <2> QED
    BY <1>7, <2>1, ConcatProperties
<1>9. Len(mid) = k + 1 /\ Len(mid) + Len(back) = Len(a) + 1
  BY <1>0, <1>4, <1>6
<1>10. b \in Seq(Entries) /\ Len(b) = Len(a) + 1
  BY <1>8, <1>9
<1>11. \A i \in 1 .. k : b[i] = a[i]
  BY <1>0, <1>6, <1>8, <1>9
<1>12. b[k + 1] = x
  BY <1>0, <1>6, <1>8, <1>9
<1>13. ASSUME NEW i \in k + 1 .. Len(a) PROVE b[i + 1] = a[i]
  <2>1. i + 1 \in 1 .. Len(a) + 1 /\ ~ (i + 1 <= k + 1) /\ i + 1 - (k + 1) = i - k /\ i - k \in 1 .. Len(a) - k
    BY <1>0
  <2>2. b[i + 1] = back[i - k]
    <3>1. i + 1 \in 1 .. Len(mid) + Len(back) /\ ~ (i + 1 <= Len(mid)) /\ i + 1 - Len(mid) = i - k
      BY <1>9, <2>1
    <3>2. b[i + 1] = back[i + 1 - Len(mid)]
      BY <1>8, <3>1
    <3> QED
      BY <3>1, <3>2
  <2>3. k + (i - k) = i
    BY <1>0
  <2> QED
    BY <1>4, <2>1, <2>2, <2>3
<1> QED
  BY <1>a, <1>10, <1>11, <1>12, <1>13 DEF Grown


-----------------------------------------------------------------------------
(* The invariant, of a state s at time t *)

\* Events, without the bound on customers.
Occurrences == Events \cup [who : {"customer"}, customer : Nat, step : {"granted", "served"}]

\* What is in the agenda.
Pending(s) == {s.agenda[i] : i \in DOMAIN s.agenda}

Due(s, at, e) == [at |-> at, what |-> e] \in Pending(s)

Agendas == Seq([at : Nat, what : Occurrences])

InTime(agenda) == \A i, j \in DOMAIN agenda : i < j => agenda[i].at <= agenda[j].at

\* Sim, without the bound on customers.
Shape == [agenda : Agendas, lane : [Lanes -> Lifecycle], user : [Lanes -> Nat], queue : [Lanes -> Seq(Nat)],
          customer : Seq(CustomerRow), emptying : [Lanes -> Nat], stalled : SUBSET Occurrences, admitted : Nat,
          current : Starts, taken : [Lanes -> SUBSET (1 .. B)]]

\* Every event is about something there is; only the shared stream of customers has one wait for an open lane.
Meaningful(s, e) ==
  /\ e \in Occurrences
  /\ e.who = "schedule" => e.window \in Windows \ {0}
  /\ e.who = "arrivals" =>
       /\ e.window \in Windows
       /\ day.engine # "parallel" => e.lanes = Lanes
       /\ day.engine = "parallel" => e.step # "woken"
  /\ e.who = "break" => e.rest \in DOMAIN day.rests[e.lane]
  /\ e.who = "customer" => e.customer \in DOMAIN s.customer

\* The agenda is in the order of time, from now on; windows change when they start.
AgendaOK(s, t) ==
  /\ InTime(s.agenda)
  /\ \A x \in Pending(s) :
       x.at >= t /\ Meaningful(s, x.what) /\ (x.what.who = "schedule" => x.at = x.what.window)

\* Who waits for what.
WaitersOK(s) ==
  /\ \A e \in s.stalled : e.who = "arrivals" /\ Meaningful(s, e)
  /\ \A q \in Lanes : \A i \in DOMAIN s.queue[q] : s.queue[q][i] \in DOMAIN s.customer
  /\ \A q \in Lanes : s.emptying[q] # 0 => s.emptying[q] \in DOMAIN day.rests[q]
  /\ s.current \in Windows

Basic(s, t) == s \in Shape /\ t \in Nat /\ AgendaOK(s, t) /\ WaitersOK(s)

\* A lane by itself.
LaneOK(l, current, q) ==
  /\ ~Resting(l) => (l.state = "ACTIVE" <=> q \in day.active[current])
  /\ l.state = "DRAINING" /\ ~l.pending => Occupied(l)
  /\ l.state \in {"INACTIVE", "ON_BREAK"} => ~Occupied(l)
  /\ l.pending => l.state \in {"DRAINING", "ON_BREAK"}
  /\ \A i \in DOMAIN l.waiting : l.waiting[i] # Nobody
  /\ day.engine = "period" => (q \notin day.active[0] => l.state = "INACTIVE")

LanesOK(s) == \A q \in Lanes : LaneOK(s.lane[q], s.current, q)

\* The controller of a lane that emptied goes on now.
Emptied(s, q, t) == \E n \in DOMAIN day.rests[q] : Due(s, t, Controller(q, n, "emptied"))

\* A lane that is to rest is emptying, and somebody will tell its controller; or that was done just now.
RestOK(s, q, t) ==
  s.lane[q].pending /\ s.lane[q].state = "DRAINING" =>
    Emptied(s, q, t) \/ (Occupied(s.lane[q]) /\ s.emptying[q] # 0)

RestsOK(s, t) == \A q \in Lanes : RestOK(s, q, t)

\* Nobody waits outside the lanes beside an open one.
StalledOK(s) == s.stalled # {} => \A q \in Lanes : s.lane[q].state # "ACTIVE"

Good(s, t) == Basic(s, t) /\ LanesOK(s) /\ RestsOK(s, t) /\ StalledOK(s)

\* The inductive invariant.
IInv ==
  /\ day \in Days
  /\ Good(sim, clock.now)
  /\ clock \in [now : Nat, outcome : Outcomes]
  /\ clock.outcome = "running" => clock.now < Until

-----------------------------------------------------------------------------
(* The agenda *)

Entries == [at : Nat, what : Occurrences]

\* An agenda is a sequence of entries.
LEMMA AgendaProperties ==
  ASSUME NEW a \in Agendas
  PROVE  /\ Len(a) \in Nat /\ DOMAIN a = 1 .. Len(a) /\ a \in Seq(Entries)
         /\ \A i \in 1 .. Len(a) : a[i] \in Entries /\ a[i].at \in Nat
<1>1. a \in Seq(Entries)
  BY DEF Agendas, Entries
<1>2. Len(a) \in Nat /\ DOMAIN a = 1 .. Len(a)
  BY <1>1, LenProperties
<1>3. ASSUME NEW i \in 1 .. Len(a) PROVE a[i] \in Entries /\ a[i].at \in Nat
  <2>1. a[i] \in Entries
    BY <1>1, ElementOfSeq
  <2> QED
    BY <2>1 DEF Entries
<1> QED
  BY <1>1, <1>2, <1>3

\* An event is added to the agenda, and the order is kept.
LEMMA AtAdds ==
  ASSUME NEW s, s.agenda \in Agendas, InTime(s.agenda), NEW t \in Nat, NEW e \in Occurrences, NEW u, u = At(s, t, e)
  PROVE  \E b \in Agendas :
           /\ u = [s EXCEPT !.agenda = b] /\ InTime(b) /\ b \in Agendas
           /\ {b[i] : i \in DOMAIN b} = Pending(s) \cup {[at |-> t, what |-> e]}
<1>1. PICK a : a = s.agenda
  OBVIOUS
<1>2. PICK x : x = [at |-> t, what |-> e]
  OBVIOUS
<1>3. a \in Agendas /\ InTime(a) /\ x \in Entries
  BY <1>1, <1>2 DEF Entries
<1>0. Len(a) \in Nat /\ DOMAIN a = 1 .. Len(a) /\ \A i \in 1 .. Len(a) : a[i].at \in Nat
  BY <1>3, AgendaProperties
<1>4. PICK k \in 0 .. Len(a) : {i \in DOMAIN a : a[i].at <= t} = 1 .. k
  BY <1>0, <1>3, DueFirst DEF InTime
<1>5. Cardinality(1 .. k) = k /\ k \in Nat /\ k <= Len(a)
  BY <1>0, FS_Interval
<1>6. PICK b : b = InsertAt(a, k + 1, x)
  OBVIOUS
<1>7. /\ b \in Agendas /\ Len(b) = Len(a) + 1
      /\ \A i \in 1 .. k : b[i] = a[i]
      /\ b[k + 1] = x
      /\ \A i \in k + 1 .. Len(a) : b[i + 1] = a[i]
  <2>1. a \in Seq(Entries)
    BY <1>3, AgendaProperties
  <2>2. b \in Seq(Entries) /\ Grown(a, k, x, b)
    BY <1>3, <1>6, <2>1, Inserted
  <2>3. b \in Agendas
    BY <2>2 DEF Agendas, Entries
  <2> QED
    BY <2>2, <2>3 DEF Grown
<1>8. u = [s EXCEPT !.agenda = b]
  BY <1>1, <1>2, <1>4, <1>5, <1>6 DEF At
<1>9. \A i \in 1 .. k : a[i].at <= t
  BY <1>4
<1>10. \A i \in k + 1 .. Len(a) : t < a[i].at
  <2>1. ASSUME NEW i \in k + 1 .. Len(a) PROVE t < a[i].at
    <3>1. i \notin 1 .. k /\ i \in DOMAIN a
      BY <1>0, <1>5
    <3>2. ~ (a[i].at <= t)
      BY <1>4, <3>1
    <3> QED
      BY <1>0, <1>5, <3>2
  <2> QED
    BY <2>1
<1>11. DOMAIN b = 1 .. Len(a) + 1
  BY <1>7, LenProperties DEF Agendas
<1>12. \A j \in 1 .. Len(a) + 1 : j \in 1 .. k \/ j = k + 1 \/ (j - 1 \in k + 1 .. Len(a) /\ b[j] = a[j - 1])
  BY <1>0, <1>5, <1>7
<1>13. InTime(b)
  <2> SUFFICES ASSUME NEW i \in 1 .. Len(a) + 1, NEW j \in 1 .. Len(a) + 1, i < j
               PROVE  b[i].at <= b[j].at
    BY <1>11 DEF InTime
  <2>1. CASE j \in 1 .. k
    <3>1. i \in 1 .. k /\ i \in DOMAIN a /\ j \in DOMAIN a
      BY <1>0, <1>5, <2>1
    <3>2. a[i].at <= a[j].at
      BY <1>3, <3>1 DEF InTime
    <3> QED
      BY <1>7, <2>1, <3>1, <3>2
  <2>2. CASE j = k + 1
    <3>1. i \in 1 .. k
      BY <1>5, <2>2
    <3> QED
      BY <1>2, <1>7, <1>9, <2>2, <3>1
  <2>3. CASE j - 1 \in k + 1 .. Len(a) /\ b[j] = a[j - 1]
    <3>1. CASE i \in 1 .. k
      <4>1. i < j - 1 /\ i \in DOMAIN a /\ j - 1 \in DOMAIN a
        BY <1>0, <1>5, <2>3, <3>1
      <4> QED
        BY <1>3, <1>7, <2>3, <3>1, <4>1 DEF InTime
    <3>2. CASE i = k + 1
      <4>1. b[i].at = t /\ t < b[j].at
        BY <1>2, <1>7, <1>10, <2>3, <3>2
      <4>2. b[j].at \in Nat
        BY <1>0, <1>5, <2>3
      <4> QED
        BY <4>1, <4>2
    <3>3. CASE i - 1 \in k + 1 .. Len(a) /\ b[i] = a[i - 1]
      <4>1. i - 1 < j - 1 /\ i - 1 \in DOMAIN a /\ j - 1 \in DOMAIN a
        BY <1>0, <1>5, <2>3, <3>3
      <4> QED
        BY <1>3, <2>3, <3>3, <4>1 DEF InTime
    <3> QED
      BY <1>12, <3>1, <3>2, <3>3
  <2> QED
    BY <1>12, <2>1, <2>2, <2>3
<1>14. {b[i] : i \in DOMAIN b} = Pending(s) \cup {x}
  <2>1. ASSUME NEW j \in DOMAIN b PROVE b[j] \in Pending(s) \cup {x}
    <3>1. j \in 1 .. k => b[j] = a[j] /\ j \in DOMAIN a
      BY <1>0, <1>5, <1>7
    <3>2. j - 1 \in k + 1 .. Len(a) => j - 1 \in DOMAIN a
      BY <1>0, <1>5
    <3> QED
      BY <1>1, <1>7, <1>11, <1>12, <3>1, <3>2 DEF Pending
  <2>2. ASSUME NEW i \in DOMAIN a PROVE \E j \in DOMAIN b : b[j] = a[i]
    <3>1. CASE i \in 1 .. k
      BY <1>0, <1>5, <1>7, <1>11, <3>1
    <3>2. CASE i \in k + 1 .. Len(a)
      <4>1. i + 1 \in DOMAIN b /\ b[i + 1] = a[i]
        BY <1>0, <1>5, <1>7, <1>11, <3>2
      <4> QED
        BY <4>1
    <3> QED
      BY <1>0, <1>5, <3>1, <3>2
  <2>3. k + 1 \in DOMAIN b /\ b[k + 1] = x
    BY <1>0, <1>5, <1>7, <1>11
  <2> QED
    BY <1>1, <2>1, <2>2, <2>3 DEF Pending
<1> QED
  BY <1>2, <1>7, <1>8, <1>13, <1>14

\* The first event is the earliest; the others stay.
LEMMA TailLeaves ==
  ASSUME NEW a \in Agendas, InTime(a), a # <<>>
  PROVE  /\ Tail(a) \in Agendas /\ InTime(Tail(a)) /\ Head(a) \in Entries
         /\ \A i \in DOMAIN a : Head(a).at <= a[i].at /\ (a[i] = Head(a) \/ \E j \in DOMAIN Tail(a) : Tail(a)[j] = a[i])
         /\ \A j \in DOMAIN Tail(a) : \E i \in DOMAIN a : Tail(a)[j] = a[i]
         /\ \E i \in DOMAIN a : a[i] = Head(a)
<1>0. Len(a) \in Nat /\ DOMAIN a = 1 .. Len(a) /\ (\A i \in 1 .. Len(a) : a[i] \in Entries) /\ a \in Seq(Entries)
  BY AgendaProperties
<1>1. Len(a) # 0 /\ Head(a) = a[1]
  BY <1>0, EmptySeq
<1>2. PICK b : b = Tail(a)
  OBVIOUS
<1>3. b \in Seq(Entries) /\ Len(b) = Len(a) - 1 /\ \A i \in 1 .. Len(b) : b[i] = a[i + 1]
  BY <1>0, <1>2, HeadTailProperties
<1>4. DOMAIN b = 1 .. Len(a) - 1
  BY <1>3, LenProperties
<1>5. InTime(b)
  <2> SUFFICES ASSUME NEW i \in DOMAIN b, NEW j \in DOMAIN b, i < j PROVE b[i].at <= b[j].at
    BY DEF InTime
  <2>1. b[i] = a[i + 1] /\ b[j] = a[j + 1] /\ i + 1 \in DOMAIN a /\ j + 1 \in DOMAIN a /\ i + 1 < j + 1
    BY <1>0, <1>1, <1>3, <1>4
  <2> QED
    BY <2>1 DEF InTime
<1>6. ASSUME NEW i \in DOMAIN a PROVE Head(a).at <= a[i].at
  <2>1. CASE i = 1
    BY <1>0, <1>1, <2>1 DEF Entries
  <2>2. CASE i # 1
    BY <1>0, <1>1, <2>2 DEF InTime
  <2> QED
    BY <2>1, <2>2
<1>7. ASSUME NEW i \in DOMAIN a, i # 1 PROVE \E j \in DOMAIN b : b[j] = a[i]
  <2>1. i - 1 \in DOMAIN b /\ i - 1 + 1 = i
    BY <1>0, <1>1, <1>4, <1>7
  <2> QED
    BY <1>3, <1>4, <2>1
<1>8. ASSUME NEW j \in DOMAIN b PROVE \E i \in DOMAIN a : b[j] = a[i]
  <2>1. j + 1 \in DOMAIN a
    BY <1>0, <1>1, <1>4
  <2> QED
    BY <1>3, <1>4, <2>1
<1>9. 1 \in DOMAIN a
  BY <1>0, <1>1
<1>10. b \in Agendas /\ Head(a) \in Entries
  BY <1>0, <1>1, <1>3, <1>9 DEF Agendas, Entries
<1> QED
  BY <1>1, <1>2, <1>5, <1>6, <1>7, <1>8, <1>9, <1>10

-----------------------------------------------------------------------------
(* The arguments *)

\* Windows and breaks lie within the day, and the day ends after it began.
LEMMA Arguments ==
  ASSUME day \in Days
  PROVE  /\ Windows \subseteq Starts /\ 0 \in Windows /\ Starts \subseteq Nat
         /\ Until \in Nat /\ 0 < Until
         /\ \A q \in Lanes : DOMAIN day.rests[q] \subseteq 1 .. B /\ DOMAIN day.rests[q] = 1 .. Len(day.rests[q])
                             /\ Len(day.rests[q]) \in Nat
         /\ \A q \in Lanes : \A n \in DOMAIN day.rests[q] :
              day.rests[q][n].length \in Nat /\ CutoffOf(q, n) \in Nat
         /\ day.engine = "period" => Windows = {0} /\ \A q \in Lanes \ day.active[0] : DOMAIN day.rests[q] = {}
<1>0. /\ B \in Nat /\ Cutoff \in Nat /\ Overrun \in Nat /\ DayEnd \in Nat /\ 0 \in Starts
      /\ Starts \subseteq 0 .. DayEnd - 1 /\ RestStarts \subseteq 0 .. DayEnd - 1 /\ Lengths \subseteq Nat \ {0}
  BY DayAssumption
<1>1. Windows \subseteq Starts /\ 0 \in Windows /\ Starts \subseteq Nat
  BY <1>0 DEF Windows
<1>2. Until \in Nat /\ 0 < Until
  BY <1>0 DEF Until
<1>3. /\ day.rests \in [Lanes -> Rests]
      /\ day.engine = "period" => \A q \in Lanes \ day.active[0] : day.rests[q] = <<>>
  BY DEF Days
<1>4. ASSUME NEW q \in Lanes
      PROVE  /\ DOMAIN day.rests[q] \subseteq 1 .. B /\ DOMAIN day.rests[q] = 1 .. Len(day.rests[q])
             /\ Len(day.rests[q]) \in Nat
             /\ \A n \in DOMAIN day.rests[q] : day.rests[q][n] \in Rest
  <2>1. PICK r : r = day.rests[q]
    OBVIOUS
  <2>2. r \in UNION {[1 .. n -> Rest] : n \in 0 .. B}
    BY <1>3, <2>1 DEF Rests
  <2>3. PICK n \in 0 .. B : r \in [1 .. n -> Rest]
    BY <2>2
  <2>4. n \in Nat /\ n <= B
    BY <1>0
  <2>5. r \in Seq(Rest) /\ Len(r) = n
    BY <2>3, <2>4, SeqDef, LenProperties
  <2>6. 1 .. n \subseteq 1 .. B
    BY <1>0, <2>4
  <2> QED
    BY <2>1, <2>3, <2>4, <2>5, <2>6
<1>5. ASSUME NEW q \in Lanes, NEW n \in DOMAIN day.rests[q]
      PROVE  day.rests[q][n].length \in Nat /\ CutoffOf(q, n) \in Nat
  <2>1. day.rests[q][n].length \in Lengths /\ day.rests[q][n].start \in RestStarts
    <3>1. PICK r : r = day.rests[q]
      OBVIOUS
    <3>2. r[n] \in Rest
      BY <1>4, <3>1
    <3> QED
      BY <3>1, <3>2 DEF Rest
  <2>2. PICK start : start = day.rests[q][n].start
    OBVIOUS
  <2>3. start \in Nat
    <3>1. \A x \in RestStarts : x \in Nat
      BY <1>0
    <3> QED
      BY <2>1, <2>2, <3>1, Zenon
  <2>4. CutoffOf(q, n) \in Nat
    BY <1>0, <2>2, <2>3 DEF CutoffOf
  <2> QED
    BY <1>0, <2>1, <2>4
<1>6. ASSUME day.engine = "period" PROVE Windows = {0} /\ \A q \in Lanes \ day.active[0] : DOMAIN day.rests[q] = {}
  BY <1>3, <1>6 DEF Windows
<1> QED
  BY <1>1, <1>2, <1>4, <1>5, <1>6

\* The next window is a later one, and a window ends after it started.
LEMMA NextWindow ==
  ASSUME day \in Days, NEW w \in Windows
  PROVE  /\ Later(w) # {} => NextStart(w) \in Windows \ {0} /\ NextStart(w) \in Nat /\ w < NextStart(w)
         /\ EndOf(w) \in Nat
<1>1. Windows \subseteq Nat /\ DayEnd \in Nat
  BY Arguments, DayAssumption
<1>2. ASSUME Later(w) # {} PROVE NextStart(w) \in Later(w)
  <2>1. Later(w) \subseteq Nat
    BY <1>1 DEF Later
  <2>2. \E v \in Later(w) : \A u \in Later(w) : v <= u
    BY <1>2, <2>1, LeastNumber
  <2> QED
    BY <2>2 DEF NextStart
<1>3. \A v \in Later(w) : v \in Windows \ {0} /\ v \in Nat /\ w < v
  BY <1>1 DEF Later
<1> QED
  BY <1>1, <1>2, <1>3 DEF EndOf

-----------------------------------------------------------------------------
(* What happens to the agenda alone *)

\* A step that leaves the lanes and customers alone, forgets nothing that is due, and may wake who waits.
Same(s, u) ==
  /\ u.lane = s.lane /\ u.current = s.current /\ u.emptying = s.emptying /\ u.customer = s.customer
  /\ u.stalled \in {s.stalled, {}}
  /\ Pending(s) \subseteq Pending(u)

\* One such step after another is one.
LEMMA SameTwice ==
  ASSUME NEW s, NEW u, NEW v, Same(s, u), Same(u, v)
  PROVE  Same(s, v)
BY DEF Same

\* Such a step leaves the lanes as good as they were.
LEMMA SameKeeps ==
  ASSUME NEW s, NEW u, NEW t, Same(s, u)
  PROVE  /\ LanesOK(s) => LanesOK(u)
         /\ \A q \in Lanes : RestOK(s, q, t) => RestOK(u, q, t)
         /\ StalledOK(s) \/ u.stalled = {} => StalledOK(u)
<1>1. u.lane = s.lane /\ u.current = s.current /\ u.emptying = s.emptying
  BY DEF Same
<1>2. LanesOK(s) => LanesOK(u)
  BY <1>1 DEF LanesOK
<1>3. ASSUME NEW q \in Lanes, RestOK(s, q, t) PROVE RestOK(u, q, t)
  <2>1. Emptied(s, q, t) => Emptied(u, q, t)
    BY DEF Same, Emptied, Due
  <2> QED
    BY <1>1, <1>3, <2>1 DEF RestOK
<1>4. StalledOK(s) \/ u.stalled = {} => StalledOK(u)
  BY DEF Same, StalledOK
<1> QED
  BY <1>2, <1>3, <1>4

\* What may be put into the agenda at time t for time at.
Fits(s, t, at, e) ==
  at \in Nat /\ t <= at /\ Meaningful(s, e) /\ (e.who = "schedule" => at = e.window)

\* What a state says of its customers says it of another with as many of them.
LEMMA MeaningfulStays ==
  ASSUME NEW s, NEW u, DOMAIN s.customer \subseteq DOMAIN u.customer, NEW e, Meaningful(s, e)
  PROVE  Meaningful(u, e)
BY DEF Meaningful

\* An event that fits is scheduled.
LEMMA AtKeeps ==
  ASSUME NEW s, NEW t, Basic(s, t), NEW at, NEW e, Fits(s, t, at, e)
  PROVE  /\ Basic(At(s, at, e), t) /\ Same(s, At(s, at, e)) /\ At(s, at, e).stalled = s.stalled
         /\ Due(At(s, at, e), at, e)
<1>0. PICK u : u = At(s, at, e)
  OBVIOUS
<1>1. s \in Shape /\ t \in Nat /\ AgendaOK(s, t) /\ WaitersOK(s) /\ at \in Nat /\ e \in Occurrences
  BY DEF Basic, Fits, Meaningful
<1>2. s.agenda \in Agendas /\ InTime(s.agenda)
  BY <1>1 DEF Shape, AgendaOK
<1>3. PICK b : /\ u = [s EXCEPT !.agenda = b] /\ InTime(b) /\ b \in Agendas
               /\ {b[i] : i \in DOMAIN b} = Pending(s) \cup {[at |-> at, what |-> e]}
  BY <1>0, <1>1, <1>2, AtAdds
<1>4. u \in Shape
  BY <1>1, <1>3 DEF Shape
<1>5. /\ u.agenda = b /\ u.lane = s.lane /\ u.current = s.current /\ u.emptying = s.emptying
      /\ u.customer = s.customer /\ u.stalled = s.stalled /\ u.queue = s.queue
  BY <1>1, <1>3 DEF Shape
<1>6. Pending(u) = Pending(s) \cup {[at |-> at, what |-> e]}
  BY <1>3, <1>5 DEF Pending
<1>7. AgendaOK(u, t)
  <2>1. ASSUME NEW x \in Pending(u)
        PROVE  x.at >= t /\ Meaningful(u, x.what) /\ (x.what.who = "schedule" => x.at = x.what.window)
    <3>1. CASE x \in Pending(s)
      <4>1. x.at >= t /\ Meaningful(s, x.what) /\ (x.what.who = "schedule" => x.at = x.what.window)
        BY <1>1, <3>1 DEF AgendaOK
      <4> QED
        BY <1>5, <4>1, MeaningfulStays
    <3>2. CASE x = [at |-> at, what |-> e]
      <4>1. x.at = at /\ x.what = e
        BY <3>2
      <4>2. Meaningful(s, e) /\ at >= t /\ (e.who = "schedule" => at = e.window)
        BY <1>1 DEF Fits
      <4> QED
        BY <1>5, <4>1, <4>2, MeaningfulStays
    <3> QED
      BY <1>6, <3>1, <3>2
  <2> QED
    BY <1>3, <1>5, <2>1 DEF AgendaOK
<1>8. WaitersOK(u)
  <2>1. \A x \in s.stalled : x.who = "arrivals" /\ Meaningful(u, x)
    BY <1>1, <1>5, MeaningfulStays DEF WaitersOK
  <2> QED
    BY <1>1, <1>5, <2>1 DEF WaitersOK
<1>9. Basic(u, t) /\ Same(s, u) /\ u.stalled = s.stalled /\ Due(u, at, e)
  BY <1>1, <1>4, <1>5, <1>6, <1>7, <1>8 DEF Basic, Same, Due
<1> QED
  BY <1>0, <1>9

\* An arrival that waits for a change of the lanes is woken.
LEMMA SignalKeeps ==
  ASSUME NEW s, NEW t, Basic(s, t)
  PROVE  Basic(Signal(s, t), t) /\ Same(s, Signal(s, t)) /\ Signal(s, t).stalled = {}
<1> PICK u : u = Signal(s, t)
  OBVIOUS
<1>0. s \in Shape /\ t \in Nat /\ AgendaOK(s, t) /\ WaitersOK(s)
  BY DEF Basic
<1>1. CASE s.stalled = {}
  BY <1>1 DEF Signal, Same
<1>2. CASE s.stalled # {}
  <2>1. PICK e : e = CHOOSE x \in s.stalled : TRUE
    OBVIOUS
  <2>2. PICK v : v = [s EXCEPT !.stalled = {}]
    OBVIOUS
  <2>3. e \in s.stalled
    BY <1>2, <2>1
  <2>4. e.who = "arrivals" /\ Meaningful(s, e)
    BY <1>0, <2>3 DEF WaitersOK
  <2>5. v \in Shape
    BY <1>0, <2>2 DEF Shape
  <2>6. /\ v.agenda = s.agenda /\ v.lane = s.lane /\ v.current = s.current /\ v.emptying = s.emptying
        /\ v.customer = s.customer /\ v.stalled = {} /\ v.queue = s.queue
    BY <1>0, <2>2 DEF Shape
  <2>7. Pending(v) = Pending(s)
    BY <2>6 DEF Pending
  <2>8. AgendaOK(v, t)
    BY <1>0, <2>6, <2>7, MeaningfulStays DEF AgendaOK
  <2>9. WaitersOK(v)
    BY <1>0, <2>6 DEF WaitersOK
  <2>10. Basic(v, t)
    BY <1>0, <2>5, <2>8, <2>9 DEF Basic
  <2>11. Same(s, v)
    BY <2>6, <2>7 DEF Same
  <2>12. Fits(v, t, t, e)
    BY <1>0, <2>4, <2>6, MeaningfulStays DEF Fits
  <2>13. u = At(v, t, e)
    BY <1>2, <2>1, <2>2 DEF Signal
  <2>14. Basic(u, t) /\ Same(v, u) /\ u.stalled = v.stalled
    BY <2>10, <2>12, <2>13, AtKeeps
  <2> QED
    BY <2>6, <2>11, <2>14, SameTwice
<1> QED
  BY <1>1, <1>2

\* The first of those who asked for a free server gets it.
LEMMA GrantKeeps ==
  ASSUME NEW s, NEW t, Basic(s, t), NEW q \in Lanes
  PROVE  Basic(Grant(s, q, t), t) /\ Same(s, Grant(s, q, t)) /\ Grant(s, q, t).stalled = s.stalled
<1> PICK u : u = Grant(s, q, t)
  OBVIOUS
<1>0. s \in Shape /\ t \in Nat /\ AgendaOK(s, t) /\ WaitersOK(s)
  BY DEF Basic
<1>1. CASE s.user[q] # Nobody \/ s.queue[q] = <<>>
  BY <1>1 DEF Grant, Same
<1>2. CASE ~ (s.user[q] # Nobody \/ s.queue[q] = <<>>)
  <2>1. PICK line : line = s.queue[q]
    OBVIOUS
  <2>2. line \in Seq(Nat) /\ line # <<>> /\ \A i \in DOMAIN line : line[i] \in DOMAIN s.customer
    BY <1>0, <1>2, <2>1 DEF Shape, WaitersOK
  <2>3. /\ Tail(line) \in Seq(Nat) /\ Head(line) \in Nat /\ Head(line) \in DOMAIN s.customer
        /\ \A i \in DOMAIN Tail(line) : Tail(line)[i] \in DOMAIN s.customer
    <3>1. Len(line) \in Nat /\ DOMAIN line = 1 .. Len(line) /\ Len(line) # 0
      BY <2>2, LenProperties, EmptySeq
    <3>2. /\ Tail(line) \in Seq(Nat) /\ Head(line) = line[1] /\ Len(Tail(line)) = Len(line) - 1
          /\ \A i \in 1 .. Len(Tail(line)) : Tail(line)[i] = line[i + 1]
      BY <2>2, <3>1, HeadTailProperties
    <3>3. 1 \in DOMAIN line /\ DOMAIN Tail(line) = 1 .. Len(line) - 1
      BY <3>1, <3>2, LenProperties
    <3>4. line[1] \in Nat
      BY <2>2, <3>1, <3>3, ElementOfSeq
    <3>5. ASSUME NEW i \in DOMAIN Tail(line) PROVE Tail(line)[i] \in DOMAIN s.customer
      <4>1. i + 1 \in DOMAIN line /\ Tail(line)[i] = line[i + 1]
        BY <3>1, <3>2, <3>3
      <4> QED
        BY <2>2, <4>1
    <3> QED
      BY <2>2, <3>2, <3>3, <3>4, <3>5
  <2>4. PICK c : c = Head(line)
    OBVIOUS
  <2>5. PICK v : v = [s EXCEPT !.user[q] = c, !.queue[q] = Tail(line)]
    OBVIOUS
  <2>6. v \in Shape
    BY <1>0, <2>3, <2>4, <2>5 DEF Shape
  <2>7. /\ v.agenda = s.agenda /\ v.lane = s.lane /\ v.current = s.current /\ v.emptying = s.emptying
        /\ v.customer = s.customer /\ v.stalled = s.stalled /\ v.queue = [s.queue EXCEPT ![q] = Tail(line)]
    BY <1>0, <2>5 DEF Shape
  <2>8. Pending(v) = Pending(s)
    BY <2>7 DEF Pending
  <2>9. AgendaOK(v, t)
    BY <1>0, <2>7, <2>8, MeaningfulStays DEF AgendaOK
  <2>10. WaitersOK(v)
    <3>1. s.queue \in [Lanes -> Seq(Nat)]
      BY <1>0 DEF Shape
    <3>2. ASSUME NEW p \in Lanes, NEW i \in DOMAIN v.queue[p] PROVE v.queue[p][i] \in DOMAIN v.customer
      <4>1. CASE p = q
        <5>1. v.queue[p] = Tail(line)
          BY <2>7, <3>1, <4>1
        <5> QED
          BY <2>3, <2>7, <5>1
      <4>2. CASE p # q
        <5>1. v.queue[p] = s.queue[p]
          BY <2>7, <3>1, <4>2
        <5> QED
          BY <1>0, <2>7, <5>1 DEF WaitersOK
      <4> QED
        BY <4>1, <4>2
    <3>3. \A e \in v.stalled : e.who = "arrivals" /\ Meaningful(v, e)
      BY <1>0, <2>7, MeaningfulStays DEF WaitersOK
    <3> QED
      BY <1>0, <2>7, <3>2, <3>3 DEF WaitersOK
  <2>11. Basic(v, t)
    BY <1>0, <2>6, <2>9, <2>10 DEF Basic
  <2>12. Same(s, v)
    BY <2>7, <2>8 DEF Same
  <2>13. Fits(v, t, t, Customer(c, "granted"))
    <3>1. Customer(c, "granted") \in Occurrences
      BY <2>3, <2>4 DEF Customer, Occurrences
    <3> QED
      BY <1>0, <2>3, <2>4, <2>7, <3>1 DEF Fits, Meaningful, Customer
  <2>14. u = At(v, t, Customer(c, "granted"))
    BY <1>2, <2>1, <2>4, <2>5 DEF Grant
  <2>15. Basic(u, t) /\ Same(v, u) /\ u.stalled = v.stalled
    BY <2>11, <2>13, <2>14, AtKeeps
  <2> QED
    BY <2>7, <2>12, <2>15, SameTwice
<1> QED
  BY <1>1, <1>2

\* A step of that kind keeps a good state good.
LEMMA GoodStays ==
  ASSUME NEW s, NEW u, NEW t, Same(s, u), LanesOK(s), RestsOK(s, t), StalledOK(s) \/ u.stalled = {}, Basic(u, t)
  PROVE  Good(u, t)
<1>1. LanesOK(u) /\ StalledOK(u) /\ \A q \in Lanes : RestOK(s, q, t) => RestOK(u, q, t)
  BY SameKeeps
<1>2. RestsOK(u, t)
  BY <1>1 DEF RestsOK
<1> QED
  BY <1>1, <1>2 DEF Good

\* A change beside the agenda keeps the agenda in order.
LEMMA BasicStays ==
  ASSUME NEW s, NEW u, NEW t, Basic(s, t), u \in Shape, u.agenda = s.agenda,
         u.queue = s.queue \/ (\A q \in Lanes : \A i \in DOMAIN u.queue[q] : u.queue[q][i] \in DOMAIN u.customer),
         DOMAIN s.customer \subseteq DOMAIN u.customer, u.stalled \subseteq s.stalled, u.current \in Windows,
         \A q \in Lanes : u.emptying[q] \in {s.emptying[q], 0} \cup DOMAIN day.rests[q]
  PROVE  Basic(u, t) /\ Pending(u) = Pending(s)
<1>0. s \in Shape /\ t \in Nat /\ AgendaOK(s, t) /\ WaitersOK(s)
  BY DEF Basic
<1>1. Pending(u) = Pending(s)
  BY DEF Pending
<1>2. AgendaOK(u, t)
  BY <1>0, <1>1, MeaningfulStays DEF AgendaOK
<1>3. \A e \in u.stalled : e.who = "arrivals" /\ Meaningful(u, e)
  BY <1>0, MeaningfulStays DEF WaitersOK
<1>4. \A q \in Lanes : u.emptying[q] # 0 => u.emptying[q] \in DOMAIN day.rests[q]
  BY <1>0 DEF WaitersOK
<1>5. \A q \in Lanes : \A i \in DOMAIN u.queue[q] : u.queue[q][i] \in DOMAIN u.customer
  BY <1>0 DEF WaitersOK
<1>6. WaitersOK(u)
  BY <1>3, <1>4, <1>5 DEF WaitersOK
<1> QED
  BY <1>0, <1>1, <1>2, <1>6 DEF Basic

\* A change of one lane.
LEMMA LaneChanges ==
  ASSUME NEW s, NEW t, Basic(s, t), NEW q \in Lanes, NEW l \in Lifecycle
  PROVE  /\ Basic([s EXCEPT !.lane[q] = l], t)
         /\ [s EXCEPT !.lane[q] = l].lane = [s.lane EXCEPT ![q] = l]
         /\ [s EXCEPT !.lane[q] = l].current = s.current
         /\ [s EXCEPT !.lane[q] = l].emptying = s.emptying
         /\ [s EXCEPT !.lane[q] = l].stalled = s.stalled
         /\ [s EXCEPT !.lane[q] = l].customer = s.customer
         /\ Pending([s EXCEPT !.lane[q] = l]) = Pending(s)
<1>1. PICK u : u = [s EXCEPT !.lane[q] = l]
  OBVIOUS
<1>2. s \in Shape /\ WaitersOK(s)
  BY DEF Basic
<1>3. u \in Shape
  BY <1>1, <1>2 DEF Shape
<1>4. /\ u.agenda = s.agenda /\ u.queue = s.queue /\ u.customer = s.customer /\ u.stalled = s.stalled
      /\ u.current = s.current /\ u.emptying = s.emptying /\ u.lane = [s.lane EXCEPT ![q] = l]
  BY <1>1, <1>2 DEF Shape
<1>5. u.current \in Windows
  BY <1>2, <1>4 DEF WaitersOK
<1>6. Basic(u, t) /\ Pending(u) = Pending(s)
  BY <1>3, <1>4, <1>5, BasicStays
<1> QED
  BY <1>1, <1>4, <1>6

\* One lane changed, and is good; the others are as they were.
LEMMA OneLane ==
  ASSUME NEW s, NEW u, NEW t, s.lane \in [Lanes -> Lifecycle], NEW q \in Lanes, NEW l \in Lifecycle,
         u.lane = [s.lane EXCEPT ![q] = l], u.current = s.current,
         \A p \in Lanes \ {q} : u.emptying[p] = s.emptying[p], Pending(s) \subseteq Pending(u), LanesOK(s)
  PROVE  /\ u.lane[q] = l /\ \A p \in Lanes \ {q} : u.lane[p] = s.lane[p]
         /\ LaneOK(l, s.current, q) => LanesOK(u)
         /\ \A p \in Lanes \ {q} : RestOK(s, p, t) => RestOK(u, p, t)
         /\ StalledOK(s) /\ u.stalled = s.stalled /\ l.state # "ACTIVE" => StalledOK(u)
<1>1. u.lane[q] = l /\ \A p \in Lanes \ {q} : u.lane[p] = s.lane[p]
  OBVIOUS
<1>2. ASSUME LaneOK(l, s.current, q) PROVE LanesOK(u)
  <2>1. ASSUME NEW p \in Lanes PROVE LaneOK(u.lane[p], u.current, p)
    <3>1. CASE p = q
      BY <1>1, <1>2, <3>1
    <3>2. CASE p # q
      <4>1. LaneOK(s.lane[p], s.current, p)
        BY DEF LanesOK
      <4> QED
        BY <1>1, <3>2, <4>1
    <3> QED
      BY <3>1, <3>2
  <2> QED
    BY <2>1 DEF LanesOK
<1>3. ASSUME NEW p \in Lanes \ {q}, RestOK(s, p, t) PROVE RestOK(u, p, t)
  <2>1. Emptied(s, p, t) => Emptied(u, p, t)
    BY DEF Emptied, Due
  <2> QED
    BY <1>1, <1>3, <2>1 DEF RestOK
<1>4. ASSUME StalledOK(s), u.stalled = s.stalled, l.state # "ACTIVE" PROVE StalledOK(u)
  BY <1>1, <1>4 DEF StalledOK
<1> QED
  BY <1>1, <1>2, <1>3, <1>4

-----------------------------------------------------------------------------
(* Breaks *)

\* A lane begins its rest if nobody is left, or its controller waits for a completion.
LEMMA RestIfEmptyKeeps ==
  ASSUME day \in Days, NEW s, NEW t, Basic(s, t), LanesOK(s), StalledOK(s), NEW q \in Lanes,
         NEW n \in DOMAIN day.rests[q], \A p \in Lanes \ {q} : RestOK(s, p, t)
  PROVE  Good(RestIfEmpty(s, q, n, t), t)
<1>0. /\ s \in Shape /\ t \in Nat /\ WaitersOK(s)
      /\ s.lane \in [Lanes -> Lifecycle] /\ s.lane[q] \in Lifecycle /\ LaneOK(s.lane[q], s.current, q)
  BY DEF Basic, Shape, LanesOK
<1>1. n \in Nat /\ n # 0 /\ n \in 1 .. B /\ day.rests[q][n].length \in Nat
  <2>1. n \in 1 .. B /\ day.rests[q][n].length \in Nat
    BY Arguments
  <2> QED
    BY <2>1, DayAssumption
<1>2. PICK u : u = RestIfEmpty(s, q, n, t)
  OBVIOUS
<1>3. CASE Occupied(s.lane[q])
  <2>1. u = [s EXCEPT !.emptying[q] = n]
    BY <1>2, <1>3 DEF RestIfEmpty
  <2>2. u \in Shape
    BY <1>0, <1>1, <2>1 DEF Shape
  <2>3. /\ u.agenda = s.agenda /\ u.queue = s.queue /\ u.customer = s.customer /\ u.stalled = s.stalled
        /\ u.current = s.current /\ u.emptying = [s.emptying EXCEPT ![q] = n] /\ u.lane = s.lane
    BY <1>0, <2>1 DEF Shape
  <2>4. u.emptying[q] = n /\ \A p \in Lanes \ {q} : u.emptying[p] = s.emptying[p]
    BY <1>0, <2>3 DEF Shape
  <2>5. Basic(u, t) /\ Pending(u) = Pending(s)
    <3>1. u.current \in Windows
      BY <1>0, <2>3 DEF WaitersOK
    <3>2. \A p \in Lanes : u.emptying[p] \in {s.emptying[p], 0} \cup DOMAIN day.rests[p]
      BY <2>4
    <3> QED
      BY <2>2, <2>3, <3>1, <3>2, BasicStays
  <2>6. LanesOK(u) /\ StalledOK(u)
    BY <2>3 DEF LanesOK, StalledOK
  <2>7. ASSUME NEW p \in Lanes PROVE RestOK(u, p, t)
    <3>1. CASE p = q
      BY <1>1, <1>3, <2>3, <2>4, <3>1 DEF RestOK
    <3>2. CASE p # q
      <4>1. RestOK(s, p, t)
        BY <3>2
      <4>2. Emptied(s, p, t) => Emptied(u, p, t)
        BY <2>5 DEF Emptied, Due
      <4> QED
        BY <2>3, <2>4, <3>2, <4>1, <4>2 DEF RestOK
    <3> QED
      BY <3>1, <3>2
  <2> QED
    BY <1>2, <2>5, <2>6, <2>7 DEF Good, RestsOK
<1>4. CASE ~Occupied(s.lane[q])
  <2>1. PICK l : l = BeginBreak(s.lane[q])
    OBVIOUS
  <2>2. PICK x : x = [s EXCEPT !.lane[q] = l, !.taken[q] = s.taken[q] \cup {n}]
    OBVIOUS
  <2>3. PICK e : e = Controller(q, n, "over")
    OBVIOUS
  <2>4. PICK y : y = Signal(x, t)
    OBVIOUS
  <2>5. u = At(y, t + day.rests[q][n].length, e)
    BY <1>2, <1>4, <2>1, <2>2, <2>3, <2>4 DEF RestIfEmpty
  <2>6. /\ l \in Lifecycle /\ l.state = "ON_BREAK" /\ l.waiting = s.lane[q].waiting /\ l.serving = s.lane[q].serving
        /\ l.pending = s.lane[q].pending
    BY <1>0, <2>1 DEF BeginBreak, Lifecycle, States
  <2>7. LaneOK(l, s.current, q)
    <3>1. ~Occupied(l)
      BY <1>4, <2>6 DEF Occupied
    <3>2. day.engine = "period" => q \in day.active[0]
      BY Arguments
    <3> QED
      BY <1>0, <2>6, <3>1, <3>2 DEF LaneOK, Resting
  <2>8. x \in Shape
    BY <1>0, <1>1, <2>2, <2>6 DEF Shape
  <2>9. /\ x.agenda = s.agenda /\ x.queue = s.queue /\ x.customer = s.customer /\ x.stalled = s.stalled
        /\ x.current = s.current /\ x.emptying = s.emptying /\ x.lane = [s.lane EXCEPT ![q] = l]
    BY <1>0, <2>2 DEF Shape
  <2>10. Basic(x, t) /\ Pending(x) = Pending(s)
    <3>1. x.current \in Windows
      BY <1>0, <2>9 DEF WaitersOK
    <3> QED
      BY <2>8, <2>9, <3>1, BasicStays
  <2>11. /\ x.lane[q] = l /\ LanesOK(x) /\ StalledOK(x)
         /\ \A p \in Lanes \ {q} : RestOK(x, p, t)
    BY <1>0, <2>6, <2>7, <2>9, <2>10, OneLane
  <2>12. RestsOK(x, t)
    <3>1. RestOK(x, q, t)
      BY <2>6, <2>11 DEF RestOK
    <3> QED
      BY <2>11, <3>1 DEF RestsOK
  <2>13. Basic(y, t) /\ Same(x, y) /\ y.stalled = {}
    BY <2>4, <2>10, SignalKeeps
  <2>14. Fits(y, t, t + day.rests[q][n].length, e)
    <3>1. e \in Occurrences
      BY <1>1, <2>3 DEF Controller, Occurrences, Events
    <3>2. e.who = "break" /\ e.lane = q /\ e.rest = n
      BY <2>3 DEF Controller
    <3>3. Meaningful(y, e)
      BY <3>1, <3>2 DEF Meaningful
    <3> QED
      BY <1>0, <1>1, <3>2, <3>3 DEF Fits
  <2>15. Basic(u, t) /\ Same(y, u) /\ u.stalled = {}
    BY <2>5, <2>13, <2>14, AtKeeps
  <2>16. Same(x, u)
    BY <2>13, <2>15, SameTwice
  <2> QED
    BY <1>2, <2>11, <2>12, <2>15, <2>16, GoodStays
<1> QED
  BY <1>3, <1>4

\* A controller goes on to its next break: it waits for the cutoff, or it drains the lane.
LEMMA ContinueKeeps ==
  ASSUME day \in Days, NEW s, NEW t, Good(s, t), NEW q \in Lanes, NEW n \in Nat \ {0}
  PROVE  Good(Continue(s, q, n, t), t)
<1>0. /\ Basic(s, t) /\ LanesOK(s) /\ RestsOK(s, t) /\ StalledOK(s) /\ t \in Nat
      /\ s.lane \in [Lanes -> Lifecycle] /\ s.lane[q] \in Lifecycle /\ LaneOK(s.lane[q], s.current, q)
  BY DEF Good, Basic, Shape, LanesOK
<1>1. PICK next : next = {m \in n .. Len(day.rests[q]) : CutoffOf(q, m) > t \/ s.lane[q].state # "INACTIVE"}
  OBVIOUS
<1>2. PICK m : m = Min(next)
  OBVIOUS
<1>3. CASE next = {}
  BY <1>1, <1>3 DEF Continue
<1>4. CASE next # {}
  <2>1. next \subseteq Nat
    BY <1>1, Arguments
  <2>2. m \in next
    BY <1>2, <1>4, <2>1, MinIsLeast
  <2>3. m \in DOMAIN day.rests[q] /\ m \in Nat
    <3>1. Len(day.rests[q]) \in Nat /\ DOMAIN day.rests[q] = 1 .. Len(day.rests[q])
      BY Arguments
    <3>2. m \in n .. Len(day.rests[q])
      BY <1>1, <2>2
    <3> QED
      BY <3>1, <3>2
  <2>4. CutoffOf(q, m) \in Nat
    BY <2>3, Arguments
  <2>5. CASE CutoffOf(q, m) > t
    <3>1. Continue(s, q, n, t) = At(s, CutoffOf(q, m), Controller(q, m, "due"))
      BY <1>1, <1>2, <1>4, <2>5 DEF Continue
    <3>2. PICK e : e = Controller(q, m, "due")
      OBVIOUS
    <3>3. Fits(s, t, CutoffOf(q, m), e)
      <4>1. e \in Occurrences
        BY <2>3, <3>2 DEF Controller, Occurrences, Events
      <4>2. e.who = "break" /\ e.lane = q /\ e.rest = m
        BY <3>2 DEF Controller
      <4>3. Meaningful(s, e)
        BY <2>3, <4>1, <4>2 DEF Meaningful
      <4> QED
        BY <1>0, <2>4, <2>5, <4>2, <4>3 DEF Fits
    <3> QED
      BY <1>0, <3>1, <3>2, <3>3, AtKeeps, GoodStays
  <2>6. CASE ~ (CutoffOf(q, m) > t)
    <3>1. PICK l : l = BeginDraining(s.lane[q])
      OBVIOUS
    <3>2. PICK x : x = [s EXCEPT !.lane[q] = l]
      OBVIOUS
    <3>3. Continue(s, q, n, t) = RestIfEmpty(Signal(x, t), q, m, t)
      BY <1>1, <1>2, <1>4, <2>6, <3>1, <3>2 DEF Continue
    <3>4. l \in Lifecycle /\ l.waiting = s.lane[q].waiting /\ l.serving = s.lane[q].serving
      BY <1>0, <3>1 DEF BeginDraining, Lifecycle, States
    <3>5. /\ s.lane[q].state = "ACTIVE" => l.state = "DRAINING" /\ l.pending
          /\ s.lane[q].state # "ACTIVE" => l = s.lane[q]
      BY <1>0, <3>1 DEF BeginDraining, Lifecycle, States
    <3>6. LaneOK(l, s.current, q)
      <4>1. CASE s.lane[q].state = "ACTIVE"
        <5>1. l.state = "DRAINING" /\ l.pending
          BY <3>5, <4>1
        <5>2. day.engine = "period" => q \in day.active[0]
          BY <2>3, Arguments
        <5> QED
          BY <1>0, <3>4, <5>1, <5>2 DEF LaneOK, Resting
      <4>2. CASE s.lane[q].state # "ACTIVE"
        BY <1>0, <3>5, <4>2
      <4> QED
        BY <4>1, <4>2
    <3>7. /\ Basic(x, t) /\ Pending(x) = Pending(s) /\ x.stalled = s.stalled /\ x.current = s.current
          /\ x.emptying = s.emptying /\ x.lane = [s.lane EXCEPT ![q] = l]
      BY <1>0, <3>2, <3>4, LaneChanges
    <3>8. LanesOK(x) /\ \A p \in Lanes \ {q} : RestOK(x, p, t)
      <4>1. \A p \in Lanes \ {q} : RestOK(s, p, t)
        BY <1>0 DEF RestsOK
      <4> QED
        BY <1>0, <3>4, <3>6, <3>7, <4>1, OneLane
    <3>9. PICK y : y = Signal(x, t)
      OBVIOUS
    <3>10. Basic(y, t) /\ Same(x, y) /\ y.stalled = {}
      BY <3>7, <3>9, SignalKeeps
    <3>11. LanesOK(y) /\ StalledOK(y) /\ \A p \in Lanes \ {q} : RestOK(y, p, t)
      BY <3>8, <3>10, SameKeeps
    <3> QED
      BY <2>3, <3>3, <3>9, <3>10, <3>11, RestIfEmptyKeeps
  <2> QED
    BY <2>5, <2>6
<1> QED
  BY <1>3, <1>4

\* A lane that does not rest opens or closes with the schedule; one that closes with customers keeps them.
LEMMA TransitionKeeps ==
  ASSUME NEW q \in Lanes, NEW l \in Lifecycle, ~Resting(l), l.state = "INACTIVE" => ~Occupied(l),
         \A i \in DOMAIN l.waiting : l.waiting[i] # Nobody, NEW w,
         ~Refuses(l, q \in day.active[w]), day.engine # "period"
  PROVE  /\ TransitionForSegment(l, q \in day.active[w]) \in Lifecycle
         /\ ~ TransitionForSegment(l, q \in day.active[w]).pending
         /\ LaneOK(TransitionForSegment(l, q \in day.active[w]), w, q)
<1>0. /\ l.state \in {"ACTIVE", "DRAINING", "INACTIVE"} /\ ~l.pending /\ l.pending \in BOOLEAN
      /\ l.waiting \in Seq(Nat) /\ l.serving \in Nat
      /\ \A i \in DOMAIN l.waiting : l.waiting[i] # Nobody
  BY DEF Lifecycle, States, Resting
<1>1. l.state = "INACTIVE" => ~Occupied(l)
  OBVIOUS
<1>2. CASE q \in day.active[w]
  <2>1. l.state # "DRAINING"
    BY <1>2 DEF Refuses
  <2>2. CASE l.state = "INACTIVE"
    <3>1. TransitionForSegment(l, q \in day.active[w]) = [l EXCEPT !.state = "ACTIVE"]
      BY <1>2, <2>2 DEF TransitionForSegment
    <3> QED
      BY <1>0, <1>2, <2>2, <3>1 DEF Lifecycle, States, LaneOK, Resting
  <2>3. CASE l.state = "ACTIVE"
    <3>1. TransitionForSegment(l, q \in day.active[w]) = l
      BY <1>2, <2>3 DEF TransitionForSegment
    <3> QED
      BY <1>0, <1>2, <2>3, <3>1 DEF LaneOK, Resting
  <2> QED
    BY <1>0, <2>1, <2>2, <2>3
<1>3. CASE q \notin day.active[w]
  <2>1. PICK k : k = (IF l.state = "ACTIVE" THEN [l EXCEPT !.state = "DRAINING"] ELSE l)
    OBVIOUS
  <2>2. TransitionForSegment(l, q \in day.active[w]) = FinishIfEmpty(k)
    BY <1>0, <1>3, <2>1 DEF TransitionForSegment
  <2>3. /\ k \in Lifecycle /\ ~k.pending /\ k.waiting = l.waiting /\ k.serving = l.serving
        /\ k.state \in {"DRAINING", "INACTIVE"} /\ (k.state = "INACTIVE" => l.state = "INACTIVE")
    BY <1>0, <2>1 DEF Lifecycle, States
  <2>4. Occupied(k) <=> Occupied(l)
    BY <2>3 DEF Occupied
  <2>5. CASE k.state = "DRAINING" /\ ~Occupied(k)
    <3>1. PICK m : m = [k EXCEPT !.state = "INACTIVE"]
      OBVIOUS
    <3>2. FinishIfEmpty(k) = m
      BY <2>3, <2>5, <3>1 DEF FinishIfEmpty
    <3>3. /\ m \in Lifecycle /\ ~m.pending /\ m.state = "INACTIVE" /\ m.waiting = l.waiting
          /\ m.serving = l.serving
      BY <2>3, <3>1 DEF Lifecycle, States
    <3>4. ~Occupied(m)
      BY <2>4, <2>5, <3>3 DEF Occupied
    <3> QED
      BY <1>0, <1>3, <2>2, <3>2, <3>3, <3>4 DEF LaneOK, Resting
  <2>6. CASE ~ (k.state = "DRAINING" /\ ~Occupied(k))
    <3>1. FinishIfEmpty(k) = k
      BY <2>6 DEF FinishIfEmpty
    <3> QED
      BY <1>0, <1>1, <1>3, <2>2, <2>3, <2>4, <2>6, <3>1 DEF LaneOK, Resting
  <2> QED
    BY <2>5, <2>6
<1> QED
  BY <1>2, <1>3

-----------------------------------------------------------------------------
(* Arrivals *)

\* The arrival process schedules its next customer or the next window, or ends.
LEMMA DrawsKeep ==
  ASSUME day \in Days, NEW s, NEW t, Basic(s, t), NEW lanes \in SUBSET Lanes, NEW w \in Windows,
         day.engine # "parallel" => lanes = Lanes, NEW u \in Draws(s, lanes, w, t)
  PROVE  Basic(u, t) /\ Same(s, u) /\ u.stalled = s.stalled
<1>0. t \in Nat /\ Windows \subseteq Starts /\ Windows \subseteq Nat /\ Starts \subseteq Nat
  BY Arguments DEF Basic
<1>1. PICK open : open = {v \in Windows : v >= w /\ t < EndOf(v)}
  OBVIOUS
<1>2. PICK v : v = Min(open)
  OBVIOUS
<1>3. Same(s, s)
  BY DEF Same
<1>4. ASSUME open # {} PROVE v \in Windows /\ v \in Nat /\ EndOf(v) \in Nat /\ t < EndOf(v)
  <2>1. v \in open
    BY <1>0, <1>1, <1>2, <1>4, MinIsLeast
  <2>2. EndOf(v) \in Nat
    BY <1>1, <2>1, NextWindow
  <2> QED
    BY <1>0, <1>1, <2>1, <2>2
<1>5. ASSUME open # {}, NEW at \in Nat, t <= at, NEW step \in {"open", "gap"}
      PROVE  Fits(s, t, at, Arrivals(lanes, v, step, 0))
  <2>1. PICK e : e = Arrivals(lanes, v, step, 0)
    OBVIOUS
  <2>2. e \in Occurrences
    BY <1>0, <1>4, <1>5, <2>1 DEF Arrivals, Occurrences, Events
  <2>3. e.who = "arrivals" /\ e.window = v /\ e.lanes = lanes /\ e.step = step
    BY <2>1 DEF Arrivals
  <2>4. Meaningful(s, e)
    BY <1>4, <1>5, <2>2, <2>3 DEF Meaningful
  <2> QED
    BY <1>5, <2>1, <2>3, <2>4 DEF Fits
<1>6. \/ u = s
      \/ open # {} /\ u = At(s, v, Arrivals(lanes, v, "open", 0)) /\ t < v
      \/ open # {} /\ \E g \in Gaps : u = At(s, t + g, Arrivals(lanes, v, "gap", 0))
      \/ open # {} /\ u = At(s, EndOf(v), Arrivals(lanes, v, "open", 0))
  BY <1>1, <1>2 DEF Draws
<1>7. CASE u = s
  BY <1>3, <1>7
<1>8. CASE open # {} /\ u = At(s, v, Arrivals(lanes, v, "open", 0)) /\ t < v
  <2>1. Fits(s, t, v, Arrivals(lanes, v, "open", 0))
    BY <1>0, <1>4, <1>5, <1>8
  <2> QED
    BY <1>8, <2>1, AtKeeps
<1>9. ASSUME open # {}, NEW g \in Gaps, u = At(s, t + g, Arrivals(lanes, v, "gap", 0))
      PROVE  Basic(u, t) /\ Same(s, u) /\ u.stalled = s.stalled
  <2>1. t + g \in Nat /\ t <= t + g
    BY <1>0, DayAssumption
  <2>2. Fits(s, t, t + g, Arrivals(lanes, v, "gap", 0))
    BY <1>5, <1>9, <2>1
  <2> QED
    BY <1>9, <2>2, AtKeeps
<1>10. CASE open # {} /\ u = At(s, EndOf(v), Arrivals(lanes, v, "open", 0))
  <2>1. Fits(s, t, EndOf(v), Arrivals(lanes, v, "open", 0))
    BY <1>0, <1>4, <1>5, <1>10
  <2> QED
    BY <1>10, <2>1, AtKeeps
<1> QED
  BY <1>6, <1>7, <1>8, <1>9, <1>10

\* A customer joins an open lane, and the next one is drawn.
LEMMA JoinsKeep ==
  ASSUME day \in Days, NEW s, NEW t, Good(s, t), NEW q \in Lanes, s.lane[q].state = "ACTIVE",
         NEW a, Meaningful(s, a), a.who = "arrivals", NEW u \in Joins(s, q, a, t)
  PROVE  Good(u, t)
<1>0. /\ Basic(s, t) /\ LanesOK(s) /\ RestsOK(s, t) /\ StalledOK(s) /\ t \in Nat /\ s \in Shape /\ WaitersOK(s)
      /\ s.lane \in [Lanes -> Lifecycle] /\ s.lane[q] \in Lifecycle /\ LaneOK(s.lane[q], s.current, q)
  BY DEF Good, Basic, Shape, LanesOK
<1>1. a.lanes \in SUBSET Lanes /\ a.window \in Windows /\ a.since \in Nat /\ (day.engine # "parallel" => a.lanes = Lanes)
  <2>1. a \in Occurrences /\ a.window \in Windows /\ (day.engine # "parallel" => a.lanes = Lanes)
    BY DEF Meaningful
  <2> QED
    BY <2>1, DayAssumption DEF Occurrences, Events
<1>2. s.customer \in Seq(CustomerRow) /\ Len(s.customer) \in Nat /\ DOMAIN s.customer = 1 .. Len(s.customer)
  BY <1>0, LenProperties DEF Shape
<1>3. PICK c : c = Len(s.customer) + 1
  OBVIOUS
<1>4. PICK row : row = [lane |-> q, window |-> a.window, arrived |-> IF day.engine = "period" THEN t ELSE a.since,
                        began |-> None, left |-> None]
  OBVIOUS
<1>5. PICK l : l = Enqueue(s.lane[q], c)
  OBVIOUS
<1>6. PICK joined : joined = [s EXCEPT !.lane[q] = l, !.customer = Append(s.customer, row)]
  OBVIOUS
<1>7. PICK x \in Draws(joined, a.lanes, a.window, t) : u = Grant([x EXCEPT !.queue[q] = Append(@, c)], q, t)
  BY <1>3, <1>4, <1>5, <1>6 DEF Joins
<1>8. row \in CustomerRow
  <2>1. a.window \in Starts
    BY <1>1, Arguments
  <2> QED
    BY <1>0, <1>1, <1>4, <2>1 DEF CustomerRow
<1>9. /\ Append(s.customer, row) \in Seq(CustomerRow)
      /\ DOMAIN Append(s.customer, row) = 1 .. c /\ c \in Nat /\ c # 0
      /\ DOMAIN s.customer \subseteq 1 .. c
  BY <1>2, <1>3, <1>8, AppendProperties, LenProperties
<1>10. /\ l \in Lifecycle /\ l.state = "ACTIVE" /\ l.pending = s.lane[q].pending
       /\ \A i \in DOMAIN l.waiting : l.waiting[i] # Nobody
  <2>1. s.lane[q].waiting \in Seq(Nat) /\ \A i \in DOMAIN s.lane[q].waiting : s.lane[q].waiting[i] # Nobody
    BY <1>0 DEF Lifecycle, LaneOK
  <2>2. PICK line : line = s.lane[q].waiting
    OBVIOUS
  <2>3. /\ Append(line, c) \in Seq(Nat) /\ \A i \in DOMAIN Append(line, c) : Append(line, c)[i] # Nobody
    <3>1. Len(line) \in Nat /\ DOMAIN line = 1 .. Len(line)
      BY <2>1, <2>2, LenProperties
    <3>2. /\ Append(line, c) \in Seq(Nat) /\ Len(Append(line, c)) = Len(line) + 1
          /\ \A i \in 1 .. Len(line) : Append(line, c)[i] = line[i]
          /\ Append(line, c)[Len(line) + 1] = c
      BY <1>9, <2>1, <2>2, AppendProperties
    <3>3. DOMAIN Append(line, c) = 1 .. Len(line) + 1
      BY <3>2, LenProperties
    <3>4. ASSUME NEW i \in DOMAIN Append(line, c) PROVE Append(line, c)[i] # Nobody
      <4>1. CASE i = Len(line) + 1
        BY <1>9, <3>2, <4>1 DEF Nobody
      <4>2. CASE i # Len(line) + 1
        <5>1. i \in 1 .. Len(line)
          BY <3>1, <3>3, <4>2
        <5>2. Append(line, c)[i] = line[i] /\ i \in DOMAIN line
          BY <3>1, <3>2, <5>1
        <5> QED
          BY <2>1, <2>2, <5>2
      <4> QED
        BY <4>1, <4>2
    <3> QED
      BY <3>2, <3>4
  <2>4. l = [s.lane[q] EXCEPT !.waiting = Append(line, c)]
    BY <1>5, <2>2 DEF Enqueue
  <2> QED
    BY <1>0, <2>3, <2>4 DEF Lifecycle
<1>11. LaneOK(l, s.current, q)
  BY <1>0, <1>10 DEF LaneOK, Resting
<1>12. joined \in Shape
  BY <1>0, <1>6, <1>9, <1>10 DEF Shape
<1>13. /\ joined.agenda = s.agenda /\ joined.queue = s.queue /\ joined.customer = Append(s.customer, row)
       /\ joined.stalled = s.stalled /\ joined.current = s.current /\ joined.emptying = s.emptying
       /\ joined.lane = [s.lane EXCEPT ![q] = l]
  BY <1>0, <1>6 DEF Shape
<1>14. Basic(joined, t) /\ Pending(joined) = Pending(s)
  <2>1. joined.current \in Windows /\ DOMAIN s.customer \subseteq DOMAIN joined.customer
    BY <1>0, <1>9, <1>13 DEF WaitersOK
  <2> QED
    BY <1>0, <1>12, <1>13, <2>1, BasicStays
<1>15. LanesOK(joined) /\ RestsOK(joined, t) /\ StalledOK(joined)
  <2>1. \A p \in Lanes \ {q} : RestOK(s, p, t)
    BY <1>0 DEF RestsOK
  <2>2. joined.lane[q] = l /\ LanesOK(joined) /\ \A p \in Lanes \ {q} : RestOK(joined, p, t)
    BY <1>0, <1>10, <1>11, <1>13, <1>14, <2>1, OneLane
  <2>3. RestOK(joined, q, t)
    BY <1>10, <2>2 DEF RestOK
  <2>4. StalledOK(joined)
    BY <1>0, <1>13 DEF StalledOK
  <2> QED
    BY <2>2, <2>3, <2>4 DEF RestsOK
<1>16. Basic(x, t) /\ Same(joined, x) /\ x.stalled = joined.stalled
  BY <1>1, <1>7, <1>14, DrawsKeep
<1>17. PICK y : y = [x EXCEPT !.queue[q] = Append(@, c)]
  OBVIOUS
<1>18. x \in Shape /\ WaitersOK(x) /\ x.queue \in [Lanes -> Seq(Nat)]
  BY <1>16 DEF Basic, Shape
<1>19. c \in DOMAIN x.customer
  BY <1>9, <1>13, <1>16 DEF Same
<1>20. PICK line : line = x.queue[q]
  OBVIOUS
<1>21. /\ Append(line, c) \in Seq(Nat)
       /\ \A i \in DOMAIN Append(line, c) : Append(line, c)[i] \in DOMAIN x.customer
  <2>1. line \in Seq(Nat) /\ \A i \in DOMAIN line : line[i] \in DOMAIN x.customer
    BY <1>18, <1>20 DEF WaitersOK
  <2>2. Len(line) \in Nat /\ DOMAIN line = 1 .. Len(line)
    BY <2>1, LenProperties
  <2>3. /\ Append(line, c) \in Seq(Nat) /\ Len(Append(line, c)) = Len(line) + 1
        /\ \A i \in 1 .. Len(line) : Append(line, c)[i] = line[i]
        /\ Append(line, c)[Len(line) + 1] = c
    BY <1>9, <2>1, AppendProperties
  <2>4. DOMAIN Append(line, c) = 1 .. Len(line) + 1
    BY <2>3, LenProperties
  <2> QED
    BY <1>19, <2>1, <2>2, <2>3, <2>4
<1>22. y \in Shape
  BY <1>17, <1>18, <1>20, <1>21 DEF Shape
<1>23. /\ y.agenda = x.agenda /\ y.queue = [x.queue EXCEPT ![q] = Append(line, c)] /\ y.customer = x.customer
       /\ y.stalled = x.stalled /\ y.current = x.current /\ y.emptying = x.emptying /\ y.lane = x.lane
  BY <1>17, <1>18, <1>20 DEF Shape
<1>24. Basic(y, t) /\ Pending(y) = Pending(x)
  <2>1. ASSUME NEW p \in Lanes, NEW i \in DOMAIN y.queue[p] PROVE y.queue[p][i] \in DOMAIN y.customer
    <3>1. CASE p = q
      <4>1. y.queue[p] = Append(line, c)
        BY <1>18, <1>23, <3>1
      <4> QED
        BY <1>21, <1>23, <4>1
    <3>2. CASE p # q
      <4>1. y.queue[p] = x.queue[p]
        BY <1>18, <1>23, <3>2
      <4> QED
        BY <1>18, <1>23, <4>1 DEF WaitersOK
    <3> QED
      BY <3>1, <3>2
  <2>2. y.current \in Windows
    BY <1>18, <1>23 DEF WaitersOK
  <2> QED
    BY <1>16, <1>22, <1>23, <2>1, <2>2, BasicStays
<1>25. Same(x, y)
  BY <1>23, <1>24 DEF Same
<1>26. Basic(u, t) /\ Same(y, u)
  BY <1>7, <1>17, <1>24, GrantKeeps
<1>27. Same(joined, u)
  BY <1>16, <1>25, <1>26, SameTwice
<1>28. LanesOK(u) /\ RestsOK(u, t)
  BY <1>15, <1>27, SameKeeps DEF RestsOK
<1> QED
  BY <1>15, <1>26, <1>27, GoodStays

-----------------------------------------------------------------------------
(* The steps *)

\* The next event is taken: time goes on to it, and nothing is forgotten but the event.
LEMMA Popping ==
  ASSUME IInv, sim.agenda # <<>>
  PROVE  /\ Now \in Nat /\ Good(sim, Now)
         /\ Basic(Popped, Now) /\ LanesOK(Popped) /\ StalledOK(Popped)
         /\ Meaningful(Popped, Event) /\ (Event.who = "schedule" => Now = Event.window)
         /\ \A q \in Lanes : RestOK(Popped, q, Now) \/ (Event.who = "break" /\ Event.step = "emptied" /\ Event.lane = q)
         /\ Popped.lane = sim.lane /\ Popped.customer = sim.customer /\ Popped.emptying = sim.emptying
         /\ Popped.current = sim.current /\ Popped.stalled = sim.stalled
<1>0. /\ day \in Days /\ Basic(sim, clock.now) /\ LanesOK(sim) /\ RestsOK(sim, clock.now) /\ StalledOK(sim)
      /\ sim \in Shape /\ clock.now \in Nat /\ AgendaOK(sim, clock.now) /\ WaitersOK(sim)
  BY DEF IInv, Good, Basic
<1>1. PICK a : a = sim.agenda
  OBVIOUS
<1>2. a \in Agendas /\ InTime(a) /\ a # <<>> /\ DOMAIN a = DOMAIN sim.agenda
  BY <1>0, <1>1 DEF Shape, AgendaOK
<1>3. PICK b : b = Tail(a)
  OBVIOUS
<1>4. PICK x : x = Head(a)
  OBVIOUS
<1>5. /\ b \in Agendas /\ InTime(b) /\ x \in Entries
      /\ \A i \in DOMAIN a : x.at <= a[i].at /\ (a[i] = x \/ \E j \in DOMAIN b : b[j] = a[i])
      /\ \A j \in DOMAIN b : \E i \in DOMAIN a : b[j] = a[i]
      /\ \E i \in DOMAIN a : a[i] = x
  BY <1>2, <1>3, <1>4, TailLeaves
<1>6. PICK s : s = Popped
  OBVIOUS
<1>7. s = [sim EXCEPT !.agenda = b]
  BY <1>1, <1>3, <1>6 DEF Popped
<1>8. s \in Shape
  BY <1>0, <1>5, <1>7 DEF Shape
<1>9. /\ s.agenda = b /\ s.lane = sim.lane /\ s.customer = sim.customer /\ s.emptying = sim.emptying
      /\ s.current = sim.current /\ s.stalled = sim.stalled /\ s.queue = sim.queue
  BY <1>0, <1>7 DEF Shape
<1>10. Now = x.at /\ Event = x.what
  BY <1>1, <1>4 DEF Now, Event
<1>11. /\ x \in Pending(sim) /\ Pending(s) \subseteq Pending(sim) /\ Pending(sim) \subseteq Pending(s) \cup {x}
       /\ \A y \in Pending(sim) : x.at <= y.at
  BY <1>1, <1>5, <1>9 DEF Pending
<1>12. x.at \in Nat /\ clock.now <= x.at /\ Meaningful(sim, x.what) /\ (x.what.who = "schedule" => x.at = x.what.window)
  BY <1>0, <1>5, <1>11 DEF Entries, AgendaOK
<1>13. AgendaOK(sim, x.at)
  BY <1>0, <1>11 DEF AgendaOK
<1>14. Basic(sim, x.at)
  BY <1>0, <1>12, <1>13 DEF Basic
<1>15. ASSUME NEW q \in Lanes, Emptied(sim, q, clock.now) PROVE Emptied(sim, q, x.at)
  <2>1. PICK n \in DOMAIN day.rests[q] : [at |-> clock.now, what |-> Controller(q, n, "emptied")] \in Pending(sim)
    BY <1>15 DEF Emptied, Due
  <2>2. x.at <= clock.now
    BY <1>11, <2>1
  <2>3. x.at = clock.now
    BY <1>0, <1>12, <2>2
  <2> QED
    BY <1>15, <2>3
<1>16. \A q \in Lanes : RestOK(sim, q, x.at)
  BY <1>0, <1>15 DEF RestsOK, RestOK
<1>17. Good(sim, x.at)
  BY <1>0, <1>14, <1>16 DEF Good, RestsOK
<1>18. Basic(s, x.at)
  <2>1. AgendaOK(s, x.at)
    BY <1>5, <1>9, <1>11, <1>13, MeaningfulStays DEF AgendaOK
  <2>2. \A e \in s.stalled : e.who = "arrivals" /\ Meaningful(s, e)
    BY <1>0, <1>9, MeaningfulStays DEF WaitersOK
  <2>3. WaitersOK(s)
    BY <1>0, <1>9, <2>2 DEF WaitersOK
  <2> QED
    BY <1>8, <1>12, <2>1, <2>3 DEF Basic
<1>19. LanesOK(s) /\ StalledOK(s)
  BY <1>0, <1>9 DEF LanesOK, StalledOK
<1>20. ASSUME NEW q \in Lanes
       PROVE  RestOK(s, q, x.at) \/ (x.what.who = "break" /\ x.what.step = "emptied" /\ x.what.lane = q)
  <2>1. CASE Emptied(sim, q, x.at)
    <3>1. PICK n \in DOMAIN day.rests[q] : Due(sim, x.at, Controller(q, n, "emptied"))
      BY <2>1 DEF Emptied
    <3>2. CASE Due(s, x.at, Controller(q, n, "emptied"))
      BY <3>2 DEF RestOK, Emptied
    <3>3. CASE ~Due(s, x.at, Controller(q, n, "emptied"))
      <4>1. x = [at |-> x.at, what |-> Controller(q, n, "emptied")]
        BY <1>11, <3>1, <3>3 DEF Due
      <4>2. x.what = Controller(q, n, "emptied")
        BY <4>1
      <4> QED
        BY <4>2 DEF Controller
    <3> QED
      BY <3>2, <3>3
  <2>2. CASE ~Emptied(sim, q, x.at)
    BY <1>9, <1>16, <2>2 DEF RestOK
  <2> QED
    BY <2>1, <2>2
<1>21. Meaningful(s, x.what)
  BY <1>9, <1>12, MeaningfulStays
<1> QED
  BY <1>6, <1>9, <1>10, <1>12, <1>17, <1>18, <1>19, <1>20, <1>21

\* The next windows's lanes open and close; lanes that rest do neither.
LEMMA ChangeWindowKeeps ==
  ASSUME IInv, ChangeWindow
  PROVE  Good(sim', Now)
<1>0. /\ day \in Days /\ sim.agenda # <<>> /\ Event.who = "schedule"
      /\ \A q \in Lanes : Resting(sim.lane[q]) \/ ~Refuses(sim.lane[q], q \in day.active[Event.window])
  BY DEF IInv, ChangeWindow, Turn
<1>1. /\ Now \in Nat /\ Basic(Popped, Now) /\ LanesOK(Popped) /\ StalledOK(Popped) /\ Meaningful(Popped, Event)
      /\ Now = Event.window /\ \A q \in Lanes : RestOK(Popped, q, Now)
      /\ Popped.lane = sim.lane /\ Popped.current = sim.current /\ Popped.emptying = sim.emptying
  <2>1. Event.who # "break"
    BY <1>0
  <2> QED
    BY <1>0, <2>1, Popping
<1>2. PICK w : w = Event.window
  OBVIOUS
<1>3. w \in Windows /\ w \in Starts /\ w = Now /\ day.engine # "period"
  <2>1. w \in Windows \ {0}
    BY <1>0, <1>1, <1>2 DEF Meaningful
  <2> QED
    BY <1>0, <1>1, <1>2, <2>1, Arguments
<1>4. PICK x : x = [Popped EXCEPT !.current = w]
  OBVIOUS
<1>5. PICK lane : lane = [q \in Lanes |-> Scheduled(x, q)]
  OBVIOUS
<1>6. PICK y : y = [x EXCEPT !.lane = lane]
  OBVIOUS
<1>7. PICK s : s = Signal(y, Now)
  OBVIOUS
<1>8. sim' = IF Later(w) = {} THEN s ELSE At(s, NextStart(w), Schedule(NextStart(w)))
  BY <1>2, <1>4, <1>5, <1>6, <1>7 DEF ChangeWindow, Becomes
<1>9. Popped \in Shape /\ Popped.lane \in [Lanes -> Lifecycle] /\ WaitersOK(Popped)
  BY <1>1 DEF Basic, Shape
<1>10. x.lane = Popped.lane /\ x.current = w
  BY <1>4, <1>9 DEF Shape
<1>11. ASSUME NEW q \in Lanes
       PROVE  /\ lane[q] \in Lifecycle /\ LaneOK(lane[q], w, q)
              /\ lane[q].pending => lane[q] = sim.lane[q]
  <2>1. sim.lane[q] \in Lifecycle /\ LaneOK(sim.lane[q], sim.current, q)
    BY <1>1, <1>9 DEF LanesOK
  <2>2. CASE Resting(sim.lane[q])
    <3>1. lane[q] = sim.lane[q]
      BY <1>1, <1>5, <1>10, <2>2 DEF Scheduled
    <3> QED
      BY <1>3, <2>1, <2>2, <3>1 DEF LaneOK
  <2>3. CASE ~Resting(sim.lane[q])
    <3>1. lane[q] = TransitionForSegment(sim.lane[q], q \in day.active[w])
      BY <1>1, <1>3, <1>5, <1>10, <2>3 DEF Scheduled
    <3>2. ~Refuses(sim.lane[q], q \in day.active[w])
      BY <1>0, <1>2, <2>3
    <3>3. /\ sim.lane[q].state = "INACTIVE" => ~Occupied(sim.lane[q])
          /\ \A i \in DOMAIN sim.lane[q].waiting : sim.lane[q].waiting[i] # Nobody
      BY <2>1 DEF LaneOK
    <3> QED
      BY <1>3, <2>1, <2>3, <3>1, <3>2, <3>3, TransitionKeeps
  <2> QED
    BY <2>2, <2>3
<1>12. lane \in [Lanes -> Lifecycle]
  BY <1>5, <1>11
<1>13. y \in Shape
  BY <1>3, <1>4, <1>6, <1>9, <1>12 DEF Shape
<1>14. /\ y.agenda = Popped.agenda /\ y.queue = Popped.queue /\ y.customer = Popped.customer
       /\ y.stalled = Popped.stalled /\ y.current = w /\ y.emptying = Popped.emptying /\ y.lane = lane
  BY <1>4, <1>6, <1>9 DEF Shape
<1>15. Basic(y, Now) /\ Pending(y) = Pending(Popped)
  BY <1>1, <1>3, <1>13, <1>14, BasicStays
<1>16. LanesOK(y)
  BY <1>11, <1>14 DEF LanesOK
<1>17. ASSUME NEW q \in Lanes PROVE RestOK(y, q, Now)
  <2>1. CASE lane[q].pending
    <3>1. y.lane[q] = Popped.lane[q] /\ y.emptying = Popped.emptying
      BY <1>1, <1>11, <1>14, <2>1
    <3>2. Emptied(Popped, q, Now) => Emptied(y, q, Now)
      BY <1>15 DEF Emptied, Due
    <3>3. RestOK(Popped, q, Now)
      BY <1>1
    <3> QED
      BY <3>1, <3>2, <3>3 DEF RestOK
  <2>2. CASE ~lane[q].pending
    BY <1>14, <2>2 DEF RestOK
  <2> QED
    BY <2>1, <2>2
<1>18. RestsOK(y, Now)
  BY <1>17 DEF RestsOK
<1>19. Basic(s, Now) /\ Same(y, s) /\ s.stalled = {}
  BY <1>7, <1>15, SignalKeeps
<1>20. CASE Later(w) = {}
  <2>1. sim' = s
    BY <1>8, <1>20
  <2> QED
    BY <1>16, <1>18, <1>19, <2>1, GoodStays
<1>21. CASE Later(w) # {}
  <2>1. PICK v : v = NextStart(w)
    OBVIOUS
  <2>2. PICK e : e = Schedule(v)
    OBVIOUS
  <2>3. sim' = At(s, v, e)
    BY <1>8, <1>21, <2>1, <2>2
  <2>4. v \in Windows \ {0} /\ v \in Nat /\ w < v
    BY <1>0, <1>3, <1>21, <2>1, NextWindow
  <2>5. e.who = "schedule" /\ e.window = v /\ e \in Occurrences
    <3>1. v \in Starts
      BY <1>0, <2>4, Arguments
    <3> QED
      BY <2>2, <3>1 DEF Schedule, Occurrences, Events
  <2>6. Meaningful(s, e)
    BY <2>4, <2>5 DEF Meaningful
  <2>7. Fits(s, Now, v, e)
    BY <1>1, <1>3, <2>4, <2>5, <2>6 DEF Fits
  <2>8. PICK u : u = At(s, v, e)
    OBVIOUS
  <2>9. Basic(u, Now) /\ Same(s, u) /\ u.stalled = {}
    BY <1>19, <2>7, <2>8, AtKeeps
  <2>10. Same(y, u)
    BY <1>19, <2>9, SameTwice
  <2>11. Good(u, Now)
    BY <1>16, <1>18, <2>9, <2>10, GoodStays
  <2> QED
    BY <2>3, <2>8, <2>11
<1> QED
  BY <1>20, <1>21

\* Arrivals open.
LEMMA OpenArrivalsKeeps ==
  ASSUME IInv, OpenArrivals
  PROVE  Good(sim', Now)
<1>0. day \in Days /\ sim.agenda # <<>> /\ Event.who = "arrivals"
  BY DEF IInv, OpenArrivals, Turn
<1>1. /\ Basic(Popped, Now) /\ LanesOK(Popped) /\ StalledOK(Popped) /\ Meaningful(Popped, Event)
      /\ RestsOK(Popped, Now)
  <2>1. Event.who # "break"
    BY <1>0
  <2> QED
    BY <1>0, <2>1, Popping DEF RestsOK
<1>2. PICK s \in Draws(Popped, Event.lanes, Event.window, Now) : sim' = s
  BY DEF OpenArrivals, Becomes
<1>3. Event.lanes \in SUBSET Lanes /\ Event.window \in Windows /\ (day.engine # "parallel" => Event.lanes = Lanes)
  BY <1>0, <1>1 DEF Meaningful, Occurrences, Events
<1>4. Basic(s, Now) /\ Same(Popped, s)
  BY <1>0, <1>1, <1>2, <1>3, DrawsKeep
<1>5. Good(s, Now)
  BY <1>1, <1>4, GoodStays
<1> QED
  BY <1>2, <1>5

\* A customer comes to an open lane, or waits until one opens.
LEMMA RouteKeeps ==
  ASSUME IInv, NEW s, Good(s, Now), NEW a, Meaningful(s, a), a.who = "arrivals", Route(s, a),
         day.engine = "parallel" => Open(s, a.lanes) # {}
  PROVE  Good(sim', Now)
<1>0. /\ day \in Days /\ Basic(s, Now) /\ LanesOK(s) /\ RestsOK(s, Now) /\ StalledOK(s)
      /\ s \in Shape /\ WaitersOK(s)
  BY DEF IInv, Good, Basic
<1>1. a.lanes \in SUBSET Lanes /\ (day.engine # "parallel" => a.lanes = Lanes) /\ a.window \in Starts /\ a.since \in Nat
  BY DEF Meaningful, Occurrences, Events
<1>2. ASSUME NEW q \in Shortest(s, a.lanes),
             IF day.engine = "day" /\ q \notin day.active[a.window]
             THEN Goes("unsampled") /\ sim' = s
             ELSE \E x \in Joins(s, q, a, Now) : Becomes(x)
      PROVE  Good(sim', Now)
  <2>1. q \in Lanes /\ s.lane[q].state = "ACTIVE"
    BY <1>1 DEF Shortest, Open, AcceptsArrivals
  <2>2. CASE sim' = s
    BY <2>2
  <2>3. ASSUME NEW x \in Joins(s, q, a, Now), Becomes(x) PROVE Good(sim', Now)
    <3>1. Good(x, Now)
      BY <1>0, <2>1, JoinsKeep
    <3> QED
      BY <2>3, <3>1 DEF Becomes
  <2> QED
    BY <1>2, <2>2, <2>3
<1>3. ASSUME Open(s, a.lanes) = {}, Becomes([s EXCEPT !.stalled = {[a EXCEPT !.step = "woken"]}])
      PROVE  Good(sim', Now)
  <2>1. day.engine # "parallel" /\ a.lanes = Lanes
    BY <1>1, <1>3
  <2>2. PICK e : e = [a EXCEPT !.step = "woken"]
    OBVIOUS
  <2>3. PICK u : u = [s EXCEPT !.stalled = {e}]
    OBVIOUS
  <2>4. sim' = u
    BY <1>3, <2>2, <2>3 DEF Becomes
  <2>5. a \in [who : {"arrivals"}, lanes : SUBSET Lanes, window : Starts, step : {"open", "gap", "woken"}, since : Nat]
    BY DEF Meaningful, Occurrences, Events
  <2>6. e.who = "arrivals" /\ e.lanes = Lanes /\ e.window = a.window /\ e \in Occurrences
    BY <2>1, <2>2, <2>5 DEF Occurrences, Events
  <2>7. Meaningful(s, e)
    BY <2>1, <2>6 DEF Meaningful
  <2>8. u \in Shape
    BY <1>0, <2>3, <2>6 DEF Shape
  <2>9. /\ u.agenda = s.agenda /\ u.queue = s.queue /\ u.customer = s.customer /\ u.stalled = {e}
        /\ u.current = s.current /\ u.emptying = s.emptying /\ u.lane = s.lane
    BY <1>0, <2>3 DEF Shape
  <2>10. Pending(u) = Pending(s)
    BY <2>9 DEF Pending
  <2>11. AgendaOK(u, Now)
    BY <1>0, <2>9, <2>10, MeaningfulStays DEF AgendaOK, Basic
  <2>12. WaitersOK(u)
    <3>1. Meaningful(u, e)
      BY <2>7, <2>9, MeaningfulStays
    <3> QED
      BY <1>0, <2>6, <2>9, <3>1 DEF WaitersOK
  <2>13. Basic(u, Now)
    BY <1>0, <2>8, <2>11, <2>12 DEF Basic
  <2>14. LanesOK(u)
    BY <1>0, <2>9 DEF LanesOK
  <2>15. RestsOK(u, Now)
    <3>1. \A q \in Lanes : Emptied(s, q, Now) => Emptied(u, q, Now)
      BY <2>10 DEF Emptied, Due
    <3> QED
      BY <1>0, <2>9, <3>1 DEF RestsOK, RestOK
  <2>16. StalledOK(u)
    BY <1>3, <2>1, <2>9 DEF StalledOK, Open, AcceptsArrivals
  <2> QED
    BY <2>4, <2>13, <2>14, <2>15, <2>16 DEF Good
<1> QED
  BY <1>2, <1>3 DEF Route

\* A customer comes: an open lane takes the customer, or, in a stream of its own lane, the customer goes.
LEMMA ArriveKeeps ==
  ASSUME IInv, Arrive
  PROVE  Good(sim', Now)
<1>0. day \in Days /\ sim.agenda # <<>> /\ Event.who = "arrivals"
  BY DEF IInv, Arrive, Turn
<1>1. /\ Basic(Popped, Now) /\ LanesOK(Popped) /\ StalledOK(Popped) /\ Meaningful(Popped, Event)
      /\ RestsOK(Popped, Now) /\ Now \in Nat /\ Popped.lane = sim.lane
  <2>1. Event.who # "break"
    BY <1>0
  <2> QED
    BY <1>0, <2>1, Popping DEF RestsOK
<1>2. /\ Event \in [who : {"arrivals"}, lanes : SUBSET Lanes, window : Starts, step : {"open", "gap", "woken"}, since : Nat]
      /\ Event.window \in Windows /\ (day.engine # "parallel" => Event.lanes = Lanes)
  BY <1>0, <1>1 DEF Meaningful, Occurrences, Events
<1>3. CASE day.engine = "parallel" /\ Open(sim, Event.lanes) = {}
  <2>1. PICK s \in Draws(Popped, Event.lanes, Event.window, Now) : sim' = s
    BY <1>3 DEF Arrive, Becomes
  <2>2. Basic(s, Now) /\ Same(Popped, s)
    BY <1>0, <1>1, <1>2, <2>1, DrawsKeep
  <2>3. Good(s, Now)
    BY <1>1, <2>2, GoodStays
  <2> QED
    BY <2>1, <2>3
<1>4. CASE ~ (day.engine = "parallel" /\ Open(sim, Event.lanes) = {})
  <2>1. PICK s : s = [Popped EXCEPT !.admitted = @ + 1]
    OBVIOUS
  <2>2. PICK a : a = [Event EXCEPT !.since = Now]
    OBVIOUS
  <2>3. Route(s, a)
    BY <1>4, <2>1, <2>2 DEF Arrive
  <2>4. Popped \in Shape /\ WaitersOK(Popped)
    BY <1>1 DEF Basic
  <2>5. s \in Shape
    <3>1. PICK n : n = Popped.admitted + 1
      OBVIOUS
    <3>2. n \in Nat
      BY <2>4, <3>1 DEF Shape
    <3>3. s = [Popped EXCEPT !.admitted = n]
      BY <2>1, <3>1
    <3> QED
      BY <2>4, <3>2, <3>3 DEF Shape
  <2>6. /\ s.agenda = Popped.agenda /\ s.queue = Popped.queue /\ s.customer = Popped.customer
        /\ s.stalled = Popped.stalled /\ s.current = Popped.current /\ s.emptying = Popped.emptying
        /\ s.lane = Popped.lane
    BY <2>1, <2>4 DEF Shape
  <2>7. Basic(s, Now) /\ Pending(s) = Pending(Popped)
    <3>1. s.current \in Windows
      BY <2>4, <2>6 DEF WaitersOK
    <3> QED
      BY <1>1, <2>5, <2>6, <3>1, BasicStays
  <2>8. Same(Popped, s)
    BY <2>6, <2>7 DEF Same
  <2>9. Good(s, Now)
    BY <1>1, <2>7, <2>8, GoodStays
  <2>10. /\ a.who = "arrivals" /\ a.lanes = Event.lanes /\ a.window = Event.window /\ a.step = Event.step
         /\ a \in Occurrences
    BY <1>1, <1>2, <2>2 DEF Occurrences, Events
  <2>11. Meaningful(s, a)
    BY <1>1, <1>2, <2>10 DEF Meaningful
  <2>12. day.engine = "parallel" => Open(s, a.lanes) # {}
    BY <1>1, <1>4, <2>6, <2>10 DEF Open
  <2> QED
    BY <2>3, <2>9, <2>10, <2>11, <2>12, RouteKeeps
<1> QED
  BY <1>3, <1>4

\* One who waited for an open lane looks again.
LEMMA WakeArrivalKeeps ==
  ASSUME IInv, WakeArrival
  PROVE  Good(sim', Now)
<1>0. day \in Days /\ sim.agenda # <<>> /\ Event.who = "arrivals" /\ Event.step = "woken" /\ Route(Popped, Event)
  BY DEF IInv, WakeArrival, Turn
<1>1. Meaningful(Popped, Event) /\ Good(Popped, Now)
  <2>1. Event.who # "break"
    BY <1>0
  <2> QED
    BY <1>0, <2>1, Popping DEF RestsOK, Good
<1>2. day.engine # "parallel"
  BY <1>0, <1>1 DEF Meaningful
<1> QED
  BY <1>0, <1>1, <1>2, RouteKeeps

\* A lane that begins or ends a service stays as good as it was, and keeps its rest.
LEMMA ServiceKeeps ==
  ASSUME NEW q \in Lanes, NEW l \in Lifecycle, NEW current, LaneOK(l, current, q)
  PROVE  /\ BeginService(l) \in Lifecycle /\ LaneOK(BeginService(l), current, q)
         /\ BeginService(l).state = l.state /\ BeginService(l).pending = l.pending
         /\ (Occupied(BeginService(l)) <=> Occupied(l))
         /\ CompleteService(l) \in Lifecycle /\ LaneOK(CompleteService(l), current, q)
         /\ CompleteService(l).pending = l.pending
         /\ (CompleteService(l).pending => CompleteService(l).state = l.state)
         /\ (CompleteService(l).state = "ACTIVE" => l.state = "ACTIVE")
<1>0. /\ l.state \in States /\ l.pending \in BOOLEAN /\ l.waiting \in Seq(Nat) /\ l.serving \in Nat
      /\ \A i \in DOMAIN l.waiting : l.waiting[i] # Nobody
  BY DEF Lifecycle, LaneOK
<1>1. ASSUME l.serving # Nobody \/ l.waiting = <<>>
      PROVE  /\ BeginService(l) \in Lifecycle /\ LaneOK(BeginService(l), current, q)
             /\ BeginService(l).state = l.state /\ BeginService(l).pending = l.pending
             /\ (Occupied(BeginService(l)) <=> Occupied(l))
  BY <1>1 DEF BeginService
<1>2. ASSUME ~ (l.serving # Nobody \/ l.waiting = <<>>)
      PROVE  /\ BeginService(l) \in Lifecycle /\ LaneOK(BeginService(l), current, q)
             /\ BeginService(l).state = l.state /\ BeginService(l).pending = l.pending
             /\ (Occupied(BeginService(l)) <=> Occupied(l))
  <2>1. PICK line : line = l.waiting
    OBVIOUS
  <2>2. PICK k : k = [l EXCEPT !.serving = Head(line), !.waiting = Tail(line)]
    OBVIOUS
  <2>3. BeginService(l) = k
    BY <1>2, <2>1, <2>2 DEF BeginService
  <2>4. line \in Seq(Nat) /\ line # <<>> /\ Len(line) \in Nat /\ DOMAIN line = 1 .. Len(line) /\ Len(line) # 0
    BY <1>0, <1>2, <2>1, LenProperties, EmptySeq
  <2>5. /\ Tail(line) \in Seq(Nat) /\ Head(line) = line[1] /\ Len(Tail(line)) = Len(line) - 1
        /\ \A i \in 1 .. Len(Tail(line)) : Tail(line)[i] = line[i + 1]
    BY <2>4, HeadTailProperties
  <2>6. Head(line) \in Nat /\ Head(line) # Nobody
    <3>1. 1 \in DOMAIN line
      BY <2>4
    <3>2. line[1] \in Nat
      BY <2>4, <3>1, ElementOfSeq
    <3> QED
      BY <1>0, <2>1, <2>5, <3>1, <3>2
  <2>7. ASSUME NEW i \in DOMAIN Tail(line) PROVE Tail(line)[i] # Nobody
    <3>1. DOMAIN Tail(line) = 1 .. Len(line) - 1
      BY <2>5, LenProperties
    <3>2. i + 1 \in DOMAIN line /\ Tail(line)[i] = line[i + 1]
      BY <2>4, <2>5, <3>1
    <3> QED
      BY <1>0, <2>1, <3>2
  <2>8. /\ k \in Lifecycle /\ k.state = l.state /\ k.pending = l.pending /\ k.waiting = Tail(line)
        /\ k.serving = Head(line)
    BY <1>0, <2>2, <2>5, <2>6 DEF Lifecycle
  <2>9. Occupied(k) /\ Occupied(l)
    BY <1>2, <2>6, <2>8 DEF Occupied
  <2>10. LaneOK(k, current, q)
    BY <2>7, <2>8, <2>9 DEF LaneOK, Resting
  <2> QED
    BY <2>3, <2>8, <2>9, <2>10
<1>3. PICK k : k = [l EXCEPT !.serving = Nobody]
  OBVIOUS
<1>4. /\ k \in Lifecycle /\ k.state = l.state /\ k.pending = l.pending /\ k.waiting = l.waiting
      /\ k.serving = Nobody
  BY <1>0, <1>3 DEF Lifecycle, Nobody
<1>5. CompleteService(l) = FinishIfEmpty(k)
  BY <1>3 DEF CompleteService
<1>6. /\ CompleteService(l) \in Lifecycle /\ LaneOK(CompleteService(l), current, q)
      /\ CompleteService(l).pending = l.pending
      /\ (CompleteService(l).pending => CompleteService(l).state = l.state)
      /\ (CompleteService(l).state = "ACTIVE" => l.state = "ACTIVE")
  <2>1. CASE k.state = "DRAINING" /\ ~k.pending /\ ~Occupied(k)
    <3>1. PICK m : m = [k EXCEPT !.state = "INACTIVE"]
      OBVIOUS
    <3>2. FinishIfEmpty(k) = m
      BY <2>1, <3>1 DEF FinishIfEmpty
    <3>3. /\ m \in Lifecycle /\ m.state = "INACTIVE" /\ m.pending = l.pending /\ m.waiting = l.waiting
          /\ m.serving = Nobody
      BY <1>4, <3>1 DEF Lifecycle, States
    <3>4. ~Occupied(m)
      BY <1>4, <2>1, <3>3 DEF Occupied
    <3> QED
      BY <1>0, <1>4, <1>5, <2>1, <3>2, <3>3, <3>4 DEF LaneOK, Resting
  <2>2. CASE ~ (k.state = "DRAINING" /\ ~k.pending /\ ~Occupied(k))
    <3>1. FinishIfEmpty(k) = k
      BY <2>2 DEF FinishIfEmpty
    <3>2. Occupied(k) => Occupied(l)
      BY <1>4 DEF Occupied
    <3>3. LaneOK(k, current, q)
      BY <1>0, <1>4, <2>2, <3>2 DEF LaneOK, Resting
    <3> QED
      BY <1>4, <1>5, <3>1, <3>3
  <2> QED
    BY <2>1, <2>2
<1> QED
  BY <1>1, <1>2, <1>6

\* Service begins.
LEMMA BeginServingKeeps ==
  ASSUME IInv, BeginServing
  PROVE  Good(sim', Now)
<1>0. day \in Days /\ sim.agenda # <<>> /\ Event.who = "customer" /\ Event.step = "granted"
  BY DEF IInv, BeginServing, Turn
<1>1. /\ Now \in Nat /\ Basic(Popped, Now) /\ LanesOK(Popped) /\ StalledOK(Popped) /\ RestsOK(Popped, Now)
      /\ Meaningful(Popped, Event) /\ Popped.lane = sim.lane /\ Popped.customer = sim.customer
  <2>1. Event.who # "break"
    BY <1>0
  <2> QED
    BY <1>0, <2>1, Popping DEF RestsOK
<1>2. PICK c : c = Event.customer
  OBVIOUS
<1>3. PICK q : q = sim.customer[c].lane
  OBVIOUS
<1>4. PICK l : l = BeginService(sim.lane[q])
  OBVIOUS
<1>5. PICK x : x = [Popped EXCEPT !.lane[q] = BeginService(@), !.customer[c].began = Now]
  OBVIOUS
<1>6. PICK e : e = Customer(c, "served")
  OBVIOUS
<1>7. PICK work \in Works : sim' = At(x, Now + work, e)
  BY <1>2, <1>3, <1>5, <1>6 DEF BeginServing, Becomes
<1>8. Popped \in Shape /\ WaitersOK(Popped) /\ Popped.lane \in [Lanes -> Lifecycle] /\ sim.customer \in Seq(CustomerRow)
  BY <1>1 DEF Basic, Shape
<1>9. c \in DOMAIN sim.customer /\ q \in Lanes /\ sim.customer[c] \in CustomerRow /\ c \in Nat
  <2>1. c \in DOMAIN sim.customer
    BY <1>0, <1>1, <1>2 DEF Meaningful
  <2>2. Len(sim.customer) \in Nat /\ DOMAIN sim.customer = 1 .. Len(sim.customer)
    BY <1>8, LenProperties
  <2>3. sim.customer[c] \in CustomerRow
    BY <1>8, <2>1, <2>2, ElementOfSeq
  <2> QED
    BY <1>3, <2>1, <2>2, <2>3 DEF CustomerRow
<1>10. PICK row : row = [sim.customer[c] EXCEPT !.began = Now]
  OBVIOUS
<1>11. row \in CustomerRow
  BY <1>1, <1>9, <1>10 DEF CustomerRow
<1>12. PICK customer : customer = [sim.customer EXCEPT ![c] = row]
  OBVIOUS
<1>13. customer \in Seq(CustomerRow) /\ DOMAIN customer = DOMAIN sim.customer
  BY <1>8, <1>9, <1>11, <1>12, ExceptSeq
<1>14. x = [Popped EXCEPT !.lane = [sim.lane EXCEPT ![q] = l], !.customer = customer]
  BY <1>1, <1>4, <1>5, <1>8, <1>10, <1>12
<1>15. /\ sim.lane[q] \in Lifecycle /\ LaneOK(sim.lane[q], Popped.current, q)
  BY <1>1, <1>8, <1>9 DEF LanesOK
<1>16. /\ l \in Lifecycle /\ LaneOK(l, Popped.current, q) /\ l.state = sim.lane[q].state
       /\ l.pending = sim.lane[q].pending /\ (Occupied(l) <=> Occupied(sim.lane[q]))
  BY <1>4, <1>9, <1>15, ServiceKeeps
<1>17. x \in Shape
  BY <1>1, <1>8, <1>13, <1>14, <1>16 DEF Shape
<1>18. /\ x.agenda = Popped.agenda /\ x.queue = Popped.queue /\ x.customer = customer
       /\ x.stalled = Popped.stalled /\ x.current = Popped.current /\ x.emptying = Popped.emptying
       /\ x.lane = [Popped.lane EXCEPT ![q] = l]
  BY <1>1, <1>8, <1>14 DEF Shape
<1>19. Basic(x, Now) /\ Pending(x) = Pending(Popped)
  <2>1. x.current \in Windows
    BY <1>8, <1>18 DEF WaitersOK
  <2>2. DOMAIN Popped.customer \subseteq DOMAIN x.customer
    BY <1>1, <1>13, <1>18
  <2> QED
    BY <1>1, <1>17, <1>18, <2>1, <2>2, BasicStays
<1>20. LanesOK(x) /\ StalledOK(x) /\ RestsOK(x, Now)
  <2>1. \A p \in Lanes : RestOK(Popped, p, Now)
    BY <1>1 DEF RestsOK
  <2>2. x.lane[q] = l /\ LanesOK(x) /\ \A p \in Lanes \ {q} : RestOK(x, p, Now)
    BY <1>1, <1>8, <1>9, <1>16, <1>18, <1>19, <2>1, OneLane
  <2>3. Emptied(Popped, q, Now) => Emptied(x, q, Now)
    BY <1>19 DEF Emptied, Due
  <2>4. RestOK(x, q, Now)
    BY <1>1, <1>9, <1>16, <1>18, <2>1, <2>2, <2>3 DEF RestOK
  <2>5. ASSUME x.stalled # {}, NEW p \in Lanes PROVE x.lane[p].state # "ACTIVE"
    <3>1. Popped.lane[p].state # "ACTIVE"
      BY <1>1, <1>18, <2>5 DEF StalledOK
    <3> QED
      BY <1>1, <1>8, <1>9, <1>16, <1>18, <2>2, <3>1
  <2> QED
    BY <2>2, <2>4, <2>5 DEF RestsOK, StalledOK
<1>21. Fits(x, Now, Now + work, e)
  <2>1. Now + work \in Nat /\ Now <= Now + work
    BY <1>1, DayAssumption
  <2>2. e \in Occurrences /\ e.who = "customer" /\ e.customer = c
    BY <1>6, <1>9 DEF Customer, Occurrences
  <2>3. Meaningful(x, e)
    BY <1>9, <1>13, <1>18, <2>2 DEF Meaningful
  <2> QED
    BY <2>1, <2>2, <2>3 DEF Fits
<1>22. PICK u : u = At(x, Now + work, e)
  OBVIOUS
<1>23. Basic(u, Now) /\ Same(x, u) /\ u.stalled = x.stalled
  BY <1>19, <1>21, <1>22, AtKeeps
<1>24. Good(u, Now)
  BY <1>20, <1>23, GoodStays
<1> QED
  BY <1>7, <1>22, <1>24

\* Service ends: the lane may close, and a controller that waited for it is told.
LEMMA EndServingKeeps ==
  ASSUME IInv, EndServing
  PROVE  Good(sim', Now)
<1>0. day \in Days /\ sim.agenda # <<>> /\ Event.who = "customer" /\ Event.step = "served"
  BY DEF IInv, EndServing, Turn
<1>1. /\ Now \in Nat /\ Basic(Popped, Now) /\ LanesOK(Popped) /\ StalledOK(Popped) /\ RestsOK(Popped, Now)
      /\ Meaningful(Popped, Event) /\ Popped.lane = sim.lane /\ Popped.customer = sim.customer
      /\ Popped.emptying = sim.emptying
  <2>1. Event.who # "break"
    BY <1>0
  <2> QED
    BY <1>0, <2>1, Popping DEF RestsOK
<1>2. PICK c : c = Event.customer
  OBVIOUS
<1>3. PICK q : q = sim.customer[c].lane
  OBVIOUS
<1>4. PICK n : n = sim.emptying[q]
  OBVIOUS
<1>5. PICK l : l = CompleteService(sim.lane[q])
  OBVIOUS
<1>6. PICK x : x = [Popped EXCEPT !.lane[q] = CompleteService(@), !.customer[c].left = Now,
                                  !.emptying[q] = 0, !.user[q] = Nobody]
  OBVIOUS
<1>7. PICK s : s = IF day.engine = "day" /\ x.lane[q].state = "INACTIVE" THEN Signal(x, Now) ELSE x
  OBVIOUS
<1>8. PICK z : z = IF n = 0 THEN s ELSE At(s, Now, Controller(q, n, "emptied"))
  OBVIOUS
<1>9. sim' = At(z, Now, Release(q))
  <2> DEFINE Y(d, p) == [Popped EXCEPT !.lane[p] = CompleteService(@), !.customer[d].left = Now,
                                       !.emptying[p] = 0, !.user[p] = Nobody]
             V(y, p) == IF day.engine = "day" /\ y.lane[p].state = "INACTIVE" THEN Signal(y, Now) ELSE y
             Z(v, p, m) == At(IF m = 0 THEN v ELSE At(v, Now, Controller(p, m, "emptied")), Now, Release(p))
  <2>1. \E d \in {Event.customer} : \E p \in {sim.customer[d].lane} : \E m \in {sim.emptying[p]} :
          \E y \in {Y(d, p)} : \E v \in {V(y, p)} : Becomes(Z(v, p, m))
    BY Zenon DEF EndServing
  <2>2. Becomes(Z(V(Y(c, q), q), q, n))
    <3> HIDE DEF Y, V, Z
    <3> QED
      BY <1>2, <1>3, <1>4, <2>1
  <2>3. s = V(Y(c, q), q)
    <3>1. x = Y(c, q)
      BY <1>6
    <3>2. s = V(x, q)
      BY <1>7
    <3> HIDE DEF Y, V
    <3> QED
      BY <3>1, <3>2
  <2>4. z = IF n = 0 THEN V(Y(c, q), q) ELSE At(V(Y(c, q), q), Now, Controller(q, n, "emptied"))
    <3> HIDE DEF Y, V, Z
    <3> QED
      BY <1>8, <2>3
  <2>5. At(z, Now, Release(q)) = Z(V(Y(c, q), q), q, n)
    <3> HIDE DEF Y, V
    <3> QED
      BY <2>4
  <2> QED
    <3> HIDE DEF Y, V, Z
    <3> QED
      BY <2>2, <2>5 DEF Becomes
<1>10. /\ Popped \in Shape /\ WaitersOK(Popped) /\ Popped.lane \in [Lanes -> Lifecycle]
       /\ sim.customer \in Seq(CustomerRow) /\ sim.emptying \in [Lanes -> Nat]
  BY <1>1 DEF Basic, Shape
<1>11. c \in DOMAIN sim.customer /\ q \in Lanes /\ sim.customer[c] \in CustomerRow /\ c \in Nat
  <2>1. c \in DOMAIN sim.customer
    BY <1>0, <1>1, <1>2 DEF Meaningful
  <2>2. Len(sim.customer) \in Nat /\ DOMAIN sim.customer = 1 .. Len(sim.customer)
    BY <1>10, LenProperties
  <2>3. sim.customer[c] \in CustomerRow
    BY <1>10, <2>1, <2>2, ElementOfSeq
  <2> QED
    BY <1>3, <2>1, <2>2, <2>3 DEF CustomerRow
<1>12. PICK row : row = [sim.customer[c] EXCEPT !.left = Now]
  OBVIOUS
<1>13. row \in CustomerRow
  BY <1>1, <1>11, <1>12 DEF CustomerRow
<1>14. PICK customer : customer = [sim.customer EXCEPT ![c] = row]
  OBVIOUS
<1>15. customer \in Seq(CustomerRow) /\ DOMAIN customer = DOMAIN sim.customer
  BY <1>10, <1>11, <1>13, <1>14, ExceptSeq
<1>16. PICK emptying : emptying = [sim.emptying EXCEPT ![q] = 0]
  OBVIOUS
<1>17. x = [Popped EXCEPT !.lane = [sim.lane EXCEPT ![q] = l], !.customer = customer, !.emptying = emptying,
                          !.user = [Popped.user EXCEPT ![q] = Nobody]]
  BY <1>1, <1>5, <1>6, <1>10, <1>12, <1>14, <1>16
<1>18. sim.lane[q] \in Lifecycle /\ LaneOK(sim.lane[q], Popped.current, q)
  BY <1>1, <1>10, <1>11 DEF LanesOK
<1>19. /\ l \in Lifecycle /\ LaneOK(l, Popped.current, q) /\ l.pending = sim.lane[q].pending
       /\ (l.pending => l.state = sim.lane[q].state) /\ (l.state = "ACTIVE" => sim.lane[q].state = "ACTIVE")
  BY <1>5, <1>11, <1>18, ServiceKeeps
<1>20. emptying \in [Lanes -> Nat] /\ Nobody \in Nat
  BY <1>10, <1>11, <1>16 DEF Nobody
<1>21. x \in Shape
  BY <1>1, <1>10, <1>15, <1>17, <1>19, <1>20 DEF Shape
<1>22. /\ x.agenda = Popped.agenda /\ x.queue = Popped.queue /\ x.customer = customer
       /\ x.stalled = Popped.stalled /\ x.current = Popped.current /\ x.emptying = emptying
       /\ x.lane = [Popped.lane EXCEPT ![q] = l]
  BY <1>1, <1>10, <1>17 DEF Shape
<1>23. \A p \in Lanes \ {q} : x.emptying[p] = sim.emptying[p]
  BY <1>10, <1>16, <1>22
<1>24. Basic(x, Now) /\ Pending(x) = Pending(Popped)
  <2>1. x.current \in Windows
    BY <1>10, <1>22 DEF WaitersOK
  <2>2. DOMAIN Popped.customer \subseteq DOMAIN x.customer
    BY <1>1, <1>15, <1>22
  <2>3. \A p \in Lanes : x.emptying[p] \in {Popped.emptying[p], 0} \cup DOMAIN day.rests[p]
    BY <1>1, <1>10, <1>16, <1>22
  <2> QED
    BY <1>1, <1>21, <1>22, <2>1, <2>2, <2>3, BasicStays
<1>25. x.lane[q] = l /\ LanesOK(x) /\ StalledOK(x) /\ \A p \in Lanes \ {q} : RestOK(x, p, Now)
  <2>1. \A p \in Lanes : RestOK(Popped, p, Now)
    BY <1>1 DEF RestsOK
  <2>2. x.lane[q] = l /\ LanesOK(x) /\ \A p \in Lanes \ {q} : RestOK(x, p, Now)
    <3>1. \A p \in Lanes \ {q} : x.emptying[p] = Popped.emptying[p]
      BY <1>1, <1>23
    <3>2. Pending(Popped) \subseteq Pending(x)
      BY <1>24
    <3> QED
      BY <1>1, <1>10, <1>11, <1>19, <1>22, <2>1, <3>1, <3>2, OneLane
  <2>3. ASSUME x.stalled # {}, NEW p \in Lanes PROVE x.lane[p].state # "ACTIVE"
    <3>1. Popped.lane[p].state # "ACTIVE"
      BY <1>1, <1>22, <2>3 DEF StalledOK
    <3> QED
      BY <1>1, <1>10, <1>11, <1>19, <1>22, <2>2, <3>1
  <2> QED
    BY <2>2, <2>3 DEF StalledOK
<1>26. Basic(s, Now) /\ Same(x, s)
  <2>1. Same(x, x)
    BY DEF Same
  <2> QED
    BY <1>7, <1>24, <2>1, SignalKeeps
<1>27. Basic(z, Now) /\ Same(s, z) /\ (n # 0 => Emptied(z, q, Now))
  <2>1. CASE n = 0
    BY <1>8, <1>26, <2>1 DEF Same
  <2>2. CASE n # 0
    <3>1. PICK e : e = Controller(q, n, "emptied")
      OBVIOUS
    <3>2. n \in DOMAIN day.rests[q] /\ n \in Nat
      BY <1>1, <1>4, <1>10, <1>11, <2>2 DEF WaitersOK
    <3>3. e.who = "break" /\ e.lane = q /\ e.rest = n /\ e \in Occurrences
      BY <1>11, <3>1, <3>2 DEF Controller, Occurrences, Events
    <3>4. Meaningful(s, e)
      BY <3>2, <3>3 DEF Meaningful
    <3>5. Fits(s, Now, Now, e)
      BY <1>1, <3>3, <3>4 DEF Fits
    <3>6. z = At(s, Now, e)
      BY <1>8, <2>2, <3>1
    <3>7. Basic(z, Now) /\ Same(s, z) /\ Due(z, Now, e)
      BY <1>26, <3>5, <3>6, AtKeeps
    <3> QED
      BY <3>1, <3>2, <3>7 DEF Emptied
  <2> QED
    BY <2>1, <2>2
<1>28. Same(x, z)
  BY <1>26, <1>27, SameTwice
<1>29. RestsOK(z, Now)
  <2>1. \A p \in Lanes \ {q} : RestOK(z, p, Now)
    BY <1>25, <1>28, SameKeeps
  <2>2. ASSUME z.lane[q].pending, z.lane[q].state = "DRAINING" PROVE Emptied(z, q, Now)
    <3>1. CASE n # 0
      BY <1>27, <3>1
    <3>2. CASE n = 0
      <4>1. z.lane[q] = l
        BY <1>25, <1>28 DEF Same
      <4>2. Popped.lane[q].pending /\ Popped.lane[q].state = "DRAINING"
        BY <1>1, <1>19, <2>2, <4>1
      <4>3. Popped.emptying[q] = 0
        BY <1>1, <1>4, <3>2
      <4>4. Emptied(Popped, q, Now)
        BY <1>1, <1>11, <4>2, <4>3 DEF RestsOK, RestOK
      <4>5. Pending(Popped) \subseteq Pending(z)
        BY <1>24, <1>28 DEF Same
      <4> QED
        BY <4>4, <4>5 DEF Emptied, Due
    <3> QED
      BY <3>1, <3>2
  <2> QED
    BY <2>1, <2>2 DEF RestsOK, RestOK
<1>30. LanesOK(z) /\ StalledOK(z)
  BY <1>25, <1>28, SameKeeps
<1>31. PICK e : e = Release(q)
  OBVIOUS
<1>32. Fits(z, Now, Now, e)
  <2>1. e.who = "release" /\ e \in Occurrences
    BY <1>11, <1>31 DEF Release, Occurrences, Events
  <2>2. Meaningful(z, e)
    BY <2>1 DEF Meaningful
  <2> QED
    BY <1>1, <2>1, <2>2 DEF Fits
<1>33. PICK u : u = At(z, Now, e)
  OBVIOUS
<1>34. Basic(u, Now) /\ Same(z, u) /\ u.stalled = z.stalled
  BY <1>27, <1>32, <1>33, AtKeeps
<1>35. Good(u, Now)
  BY <1>29, <1>30, <1>34, GoodStays
<1> QED
  BY <1>9, <1>31, <1>33, <1>35

\* The server is free again.
LEMMA ReleaseServerKeeps ==
  ASSUME IInv, ReleaseServer
  PROVE  Good(sim', Now)
<1>0. day \in Days /\ sim.agenda # <<>> /\ Event.who = "release"
  BY DEF IInv, ReleaseServer, Turn
<1>1. /\ Basic(Popped, Now) /\ LanesOK(Popped) /\ StalledOK(Popped) /\ RestsOK(Popped, Now)
      /\ Meaningful(Popped, Event)
  <2>1. Event.who # "break"
    BY <1>0
  <2> QED
    BY <1>0, <2>1, Popping DEF RestsOK
<1>2. Event.lane \in Lanes
  BY <1>0, <1>1 DEF Meaningful, Occurrences, Events
<1>3. PICK u : u = Grant(Popped, Event.lane, Now)
  OBVIOUS
<1>4. sim' = u
  BY <1>3 DEF ReleaseServer, Becomes
<1>5. Basic(u, Now) /\ Same(Popped, u) /\ u.stalled = Popped.stalled
  BY <1>1, <1>2, <1>3, GrantKeeps
<1>6. Good(u, Now)
  BY <1>1, <1>5, GoodStays
<1> QED
  BY <1>4, <1>6

\* An event of a controller names a lane and one of its breaks.
LEMMA Controllers ==
  ASSUME NEW s, NEW e, Meaningful(s, e), e.who = "break", day \in Days
  PROVE  e.lane \in Lanes /\ e.rest \in DOMAIN day.rests[e.lane] /\ e.rest \in Nat \ {0}
<1>1. e.lane \in Lanes /\ e.rest \in DOMAIN day.rests[e.lane] /\ e.rest \in Nat
  BY DEF Meaningful, Occurrences, Events
<1>2. DOMAIN day.rests[e.lane] \subseteq 1 .. B
  BY <1>1, Arguments
<1>3. e.rest \in 1 .. B
  BY <1>1, <1>2
<1> QED
  BY <1>1, <1>3, DayAssumption

\* A break is due.
LEMMA BreakIsDueKeeps ==
  ASSUME IInv, BreakIsDue
  PROVE  Good(sim', Now)
<1>0. /\ day \in Days /\ sim.agenda # <<>> /\ Event.who = "break" /\ Event.step # "emptied"
      /\ sim' = Continue(Popped, Event.lane, Event.rest, Now)
  BY DEF IInv, BreakIsDue, Turn, Becomes
<1>1. Good(Popped, Now) /\ Meaningful(Popped, Event)
  BY <1>0, Popping DEF RestsOK, Good
<1>2. Event.lane \in Lanes /\ Event.rest \in Nat \ {0}
  BY <1>0, <1>1, Controllers
<1>3. Good(Continue(Popped, Event.lane, Event.rest, Now), Now)
  BY <1>0, <1>1, <1>2, ContinueKeeps
<1> QED
  BY <1>0, <1>3

\* A controller that was told goes on.
LEMMA LaneEmptiedKeeps ==
  ASSUME IInv, LaneEmptied
  PROVE  Good(sim', Now)
<1>0. /\ day \in Days /\ sim.agenda # <<>> /\ Event.who = "break"
      /\ sim' = RestIfEmpty(Popped, Event.lane, Event.rest, Now)
  BY DEF IInv, LaneEmptied, Turn, Becomes
<1>1. /\ Basic(Popped, Now) /\ LanesOK(Popped) /\ StalledOK(Popped) /\ Meaningful(Popped, Event)
      /\ \A q \in Lanes \ {Event.lane} : RestOK(Popped, q, Now)
  BY <1>0, Popping
<1>2. Event.lane \in Lanes /\ Event.rest \in DOMAIN day.rests[Event.lane]
  BY <1>0, <1>1, Controllers
<1>3. Good(RestIfEmpty(Popped, Event.lane, Event.rest, Now), Now)
  BY <1>0, <1>1, <1>2, RestIfEmptyKeeps
<1> QED
  BY <1>0, <1>3

\* A rest ends, and the schedule in force says whether the lane opens.
LEMMA EndRestKeeps ==
  ASSUME IInv, EndRest
  PROVE  Good(sim', Now)
<1>0. day \in Days /\ sim.agenda # <<>> /\ Event.who = "break" /\ Event.step = "over"
  BY DEF IInv, EndRest, Turn
<1>1. /\ Basic(Popped, Now) /\ LanesOK(Popped) /\ StalledOK(Popped) /\ Meaningful(Popped, Event)
      /\ \A q \in Lanes : RestOK(Popped, q, Now)
  BY <1>0, Popping
<1>2. PICK q : q = Event.lane
  OBVIOUS
<1>3. PICK n : n = Event.rest
  OBVIOUS
<1>4. q \in Lanes /\ n \in Nat \ {0} /\ n \in DOMAIN day.rests[q]
  BY <1>0, <1>1, <1>2, <1>3, Controllers
<1>5. PICK l : l = Popped.lane[q]
  OBVIOUS
<1>6. PICK k : k = EndBreak(l)
  OBVIOUS
<1>7. PICK x : x = [Popped EXCEPT !.lane[q] = k]
  OBVIOUS
<1>8. PICK m : m = Scheduled(x, q)
  OBVIOUS
<1>9. PICK y : y = [x EXCEPT !.lane[q] = m]
  OBVIOUS
<1>10. PICK s : s = Signal(y, Now)
  OBVIOUS
<1>11. sim' = Continue(s, q, n + 1, Now)
  BY <1>2, <1>3, <1>5, <1>6, <1>7, <1>8, <1>9, <1>10 DEF EndRest, Becomes
<1>12. /\ Popped \in Shape /\ WaitersOK(Popped) /\ Popped.lane \in [Lanes -> Lifecycle]
       /\ l \in Lifecycle /\ LaneOK(l, Popped.current, q) /\ Popped.current \in Windows
  BY <1>1, <1>4, <1>5 DEF Basic, Shape, LanesOK, WaitersOK
<1>13. /\ k \in Lifecycle
       /\ l.state = "ON_BREAK" => /\ k.state = "ACTIVE" /\ ~k.pending /\ k.waiting = l.waiting
                                  /\ k.serving = l.serving
       /\ l.state # "ON_BREAK" => k = l
  BY <1>6, <1>12 DEF EndBreak, Lifecycle, States
<1>14. /\ Basic(x, Now) /\ Pending(x) = Pending(Popped) /\ x.current = Popped.current /\ x.stalled = Popped.stalled
       /\ x.emptying = Popped.emptying /\ x.lane = [Popped.lane EXCEPT ![q] = k]
  BY <1>1, <1>4, <1>7, <1>13, LaneChanges
<1>15. x.lane[q] = k
  BY <1>4, <1>12, <1>14
<1>16. m \in Lifecycle /\ LaneOK(m, Popped.current, q) /\ (m.pending => m = l)
  <2>1. CASE Resting(k)
    <3>1. m = k /\ l.state # "ON_BREAK"
      BY <1>8, <1>13, <1>15, <2>1 DEF Scheduled, Resting
    <3> QED
      BY <1>12, <1>13, <3>1
  <2>2. CASE ~Resting(k) /\ day.engine = "period"
    <3>1. m = k
      BY <1>8, <1>15, <2>2 DEF Scheduled
    <3>2. CASE l.state = "ON_BREAK"
      <4>1. q \in day.active[0] /\ Popped.current = 0
        BY <1>0, <1>4, <1>12, <2>2, Arguments
      <4> QED
        BY <1>12, <1>13, <3>1, <3>2, <4>1 DEF LaneOK, Resting
    <3>3. CASE l.state # "ON_BREAK"
      BY <1>12, <1>13, <3>1, <3>3
    <3> QED
      BY <3>2, <3>3
  <2>3. CASE ~Resting(k) /\ day.engine # "period"
    <3>1. m = TransitionForSegment(k, q \in day.active[Popped.current])
      BY <1>8, <1>14, <1>15, <2>3 DEF Scheduled
    <3>2. /\ k.state = "INACTIVE" => ~Occupied(k)
          /\ \A i \in DOMAIN k.waiting : k.waiting[i] # Nobody
      <4>1. CASE l.state = "ON_BREAK"
        BY <1>12, <1>13, <4>1 DEF LaneOK
      <4>2. CASE l.state # "ON_BREAK"
        BY <1>12, <1>13, <4>2 DEF LaneOK
      <4> QED
        BY <4>1, <4>2
    <3>3. ~Refuses(k, q \in day.active[Popped.current])
      <4>1. CASE l.state = "ON_BREAK"
        BY <1>13, <4>1 DEF Refuses
      <4>2. CASE l.state # "ON_BREAK"
        BY <1>12, <1>13, <2>3, <4>2 DEF Refuses, LaneOK
      <4> QED
        BY <4>1, <4>2
    <3> QED
      BY <1>4, <1>13, <2>3, <3>1, <3>2, <3>3, TransitionKeeps
  <2> QED
    BY <2>1, <2>2, <2>3
<1>17. /\ Basic(y, Now) /\ Pending(y) = Pending(Popped) /\ y.current = Popped.current /\ y.stalled = Popped.stalled
       /\ y.emptying = Popped.emptying /\ y.lane = [x.lane EXCEPT ![q] = m]
  <2>1. /\ Basic(y, Now) /\ Pending(y) = Pending(x) /\ y.current = x.current /\ y.stalled = x.stalled
        /\ y.emptying = x.emptying /\ y.lane = [x.lane EXCEPT ![q] = m]
    BY <1>4, <1>9, <1>14, <1>16, LaneChanges
  <2> QED
    BY <1>14, <2>1
<1>18. y.lane = [Popped.lane EXCEPT ![q] = m]
  BY <1>4, <1>12, <1>14, <1>17
<1>19. LanesOK(y) /\ y.lane[q] = m /\ \A p \in Lanes \ {q} : RestOK(y, p, Now)
  BY <1>1, <1>4, <1>12, <1>16, <1>17, <1>18, OneLane
<1>20. RestOK(y, q, Now)
  <2>1. CASE m.pending
    <3>1. y.lane[q] = Popped.lane[q]
      BY <1>5, <1>16, <1>19, <2>1
    <3>2. Emptied(Popped, q, Now) => Emptied(y, q, Now)
      BY <1>17 DEF Emptied, Due
    <3> QED
      BY <1>1, <1>4, <1>17, <3>1, <3>2 DEF RestOK
  <2>2. CASE ~m.pending
    BY <1>19, <2>2 DEF RestOK
  <2> QED
    BY <2>1, <2>2
<1>21. RestsOK(y, Now)
  BY <1>19, <1>20 DEF RestsOK
<1>22. Basic(s, Now) /\ Same(y, s) /\ s.stalled = {}
  BY <1>10, <1>17, SignalKeeps
<1>23. Good(s, Now)
  BY <1>19, <1>21, <1>22, GoodStays
<1>24. n + 1 \in Nat \ {0}
  BY <1>4
<1>25. Good(Continue(s, q, n + 1, Now), Now)
  BY <1>0, <1>4, <1>23, <1>24, ContinueKeeps
<1> QED
  BY <1>11, <1>25

\* The run is over: nothing is left to do before its end.
LEMMA FinishKeeps ==
  ASSUME IInv, Finish
  PROVE  Good(sim, Until)
<1>0. /\ day \in Days /\ Basic(sim, clock.now) /\ LanesOK(sim) /\ RestsOK(sim, clock.now) /\ StalledOK(sim)
      /\ sim \in Shape /\ clock.now \in Nat /\ AgendaOK(sim, clock.now) /\ WaitersOK(sim)
      /\ clock.now < Until /\ (sim.agenda # <<>> => Now >= Until)
  BY DEF IInv, Good, Basic, Finish
<1>1. Until \in Nat
  BY <1>0, Arguments
<1>2. ASSUME NEW x \in Pending(sim) PROVE x.at \in Nat /\ x.at >= Until
  <2>1. sim.agenda # <<>>
    <3>1. DOMAIN sim.agenda # {}
      BY <1>2 DEF Pending
    <3> QED
      BY <3>1, EmptySeq
  <2>2. Now \in Nat /\ Now >= Until /\ AgendaOK(sim, Now)
    BY <1>0, <2>1, Popping DEF Good, Basic
  <2>3. x.at >= Now
    BY <1>2, <2>2 DEF AgendaOK
  <2>4. x.at \in Nat
    <3>1. sim.agenda \in Agendas
      BY <1>0 DEF Shape
    <3> QED
      BY <1>2, <3>1, AgendaProperties DEF Pending
  <2> QED
    BY <1>1, <2>2, <2>3, <2>4
<1>3. AgendaOK(sim, Until)
  BY <1>0, <1>2 DEF AgendaOK
<1>4. Basic(sim, Until)
  BY <1>0, <1>1, <1>3 DEF Basic
<1>5. ASSUME NEW q \in Lanes PROVE ~Emptied(sim, q, clock.now)
  <2> SUFFICES ASSUME NEW n \in DOMAIN day.rests[q], Due(sim, clock.now, Controller(q, n, "emptied")) PROVE FALSE
    BY DEF Emptied
  <2>1. [at |-> clock.now, what |-> Controller(q, n, "emptied")].at >= Until
    BY <1>2 DEF Due
  <2> QED
    BY <1>0, <1>1, <2>1
<1>6. RestsOK(sim, Until)
  BY <1>0, <1>5 DEF RestsOK, RestOK
<1> QED
  BY <1>0, <1>4, <1>6 DEF Good

\* The arguments of the run do not change: what is good of the next state is good in it.
LEMMA Carried ==
  ASSUME day \in Days, day' = day, clock' \in [now : Nat, outcome : Outcomes], Good(sim', clock'.now),
         clock'.outcome = "running" => clock'.now < Until
  PROVE  IInv'
<1>1. Windows' = Windows /\ Until' = Until /\ Days' = Days
  BY DEF Windows, Until, Days
<1>2. \A s, e : Meaningful(s, e)' <=> Meaningful(s, e)
  BY <1>1 DEF Meaningful
<1>3. \A s, t : AgendaOK(s, t)' <=> AgendaOK(s, t)
  BY <1>2 DEF AgendaOK
<1>4. \A s : WaitersOK(s)' <=> WaitersOK(s)
  BY <1>1, <1>2 DEF WaitersOK
<1>5. \A s, t : Basic(s, t)' <=> Basic(s, t)
  BY <1>3, <1>4 DEF Basic
<1>6. \A l, current, q : LaneOK(l, current, q)' <=> LaneOK(l, current, q)
  BY DEF LaneOK
<1>7. \A s : LanesOK(s)' <=> LanesOK(s)
  BY <1>6 DEF LanesOK
<1>8. \A s, q, t : Emptied(s, q, t)' <=> Emptied(s, q, t)
  BY DEF Emptied
<1>9. \A s, t : RestsOK(s, t)' <=> RestsOK(s, t)
  BY <1>8 DEF RestsOK, RestOK
<1>10. \A s, t : Good(s, t)' <=> Good(s, t)
  BY <1>5, <1>7, <1>9 DEF Good
<1>11. Good(sim, clock.now)'
  BY <1>10
<1> QED
  BY <1>1, <1>11 DEF IInv

\* Every step keeps the invariant.
LEMMA StepKeeps ==
  ASSUME IInv, [Next]_vars
  PROVE  IInv'
<1>0. day \in Days /\ clock \in [now : Nat, outcome : Outcomes] /\ Good(sim, clock.now)
      /\ (clock.outcome = "running" => clock.now < Until)
  BY DEF IInv
<1>1. ASSUME sim.agenda # <<>>, Now < Until, Good(sim', Now), NEW outcome \in Outcomes, Goes(outcome) PROVE IInv'
  <2>1. Now \in Nat
    BY <1>1, Popping
  <2>2. day' = day /\ clock' = [now |-> Now, outcome |-> outcome]
    BY <1>1 DEF Goes
  <2>3. clock' \in [now : Nat, outcome : Outcomes] /\ clock'.now = Now
    BY <2>1, <2>2
  <2> QED
    BY <1>0, <1>1, <2>2, <2>3, Carried
<1>2. "running" \in Outcomes /\ "reactivated" \in Outcomes /\ "unsampled" \in Outcomes /\ "finished" \in Outcomes
  BY DEF Outcomes
<1>3. CASE ChangeWindow
  <2>1. Good(sim', Now)
    BY <1>3, ChangeWindowKeeps
  <2>2. sim.agenda # <<>> /\ Now < Until /\ Goes("running")
    BY <1>3 DEF ChangeWindow, Turn, Becomes
  <2> QED
    BY <1>1, <1>2, <2>1, <2>2
<1>4. CASE RefuseReactivation
  <2>1. sim.agenda # <<>> /\ Now < Until /\ Goes("reactivated") /\ sim' = sim
    BY <1>4 DEF RefuseReactivation, Turn
  <2>2. Good(sim', Now)
    BY <2>1, Popping
  <2> QED
    BY <1>1, <1>2, <2>1, <2>2
<1>5. CASE OpenArrivals
  <2>1. Good(sim', Now)
    BY <1>5, OpenArrivalsKeeps
  <2>2. sim.agenda # <<>> /\ Now < Until /\ Goes("running")
    BY <1>5 DEF OpenArrivals, Turn, Becomes
  <2> QED
    BY <1>1, <1>2, <2>1, <2>2
<1>6. CASE Arrive
  <2>1. Good(sim', Now)
    BY <1>6, ArriveKeeps
  <2>2. sim.agenda # <<>> /\ Now < Until /\ (Goes("running") \/ Goes("unsampled"))
    BY <1>6 DEF Arrive, Turn, Becomes, Route
  <2> QED
    BY <1>1, <1>2, <2>1, <2>2
<1>7. CASE WakeArrival
  <2>1. Good(sim', Now)
    BY <1>7, WakeArrivalKeeps
  <2>2. sim.agenda # <<>> /\ Now < Until /\ (Goes("running") \/ Goes("unsampled"))
    BY <1>7 DEF WakeArrival, Turn, Becomes, Route
  <2> QED
    BY <1>1, <1>2, <2>1, <2>2
<1>8. CASE BeginServing
  <2>1. Good(sim', Now)
    BY <1>8, BeginServingKeeps
  <2>2. sim.agenda # <<>> /\ Now < Until /\ Goes("running")
    BY <1>8 DEF BeginServing, Turn, Becomes
  <2> QED
    BY <1>1, <1>2, <2>1, <2>2
<1>9. CASE EndServing
  <2>1. Good(sim', Now)
    BY <1>9, EndServingKeeps
  <2>2. sim.agenda # <<>> /\ Now < Until /\ Goes("running")
    BY <1>9 DEF EndServing, Turn, Becomes
  <2> QED
    BY <1>1, <1>2, <2>1, <2>2
<1>10. CASE ReleaseServer
  <2>1. Good(sim', Now)
    BY <1>10, ReleaseServerKeeps
  <2>2. sim.agenda # <<>> /\ Now < Until /\ Goes("running")
    BY <1>10 DEF ReleaseServer, Turn, Becomes
  <2> QED
    BY <1>1, <1>2, <2>1, <2>2
<1>11. CASE BreakIsDue
  <2>1. Good(sim', Now)
    BY <1>11, BreakIsDueKeeps
  <2>2. sim.agenda # <<>> /\ Now < Until /\ Goes("running")
    BY <1>11 DEF BreakIsDue, Turn, Becomes
  <2> QED
    BY <1>1, <1>2, <2>1, <2>2
<1>12. CASE LaneEmptied
  <2>1. Good(sim', Now)
    BY <1>12, LaneEmptiedKeeps
  <2>2. sim.agenda # <<>> /\ Now < Until /\ Goes("running")
    BY <1>12 DEF LaneEmptied, Turn, Becomes
  <2> QED
    BY <1>1, <1>2, <2>1, <2>2
<1>13. CASE EndRest
  <2>1. Good(sim', Now)
    BY <1>13, EndRestKeeps
  <2>2. sim.agenda # <<>> /\ Now < Until /\ Goes("running")
    BY <1>13 DEF EndRest, Turn, Becomes
  <2> QED
    BY <1>1, <1>2, <2>1, <2>2
<1>14. CASE Finish
  <2>1. Good(sim, Until) /\ Until \in Nat
    BY <1>0, <1>14, FinishKeeps, Arguments
  <2>2. day' = day /\ sim' = sim /\ clock' = [now |-> Until, outcome |-> "finished"]
    BY <1>14 DEF Finish
  <2>3. clock' \in [now : Nat, outcome : Outcomes] /\ clock'.now = Until /\ clock'.outcome # "running"
    BY <1>2, <2>1, <2>2
  <2> QED
    BY <1>0, <2>1, <2>2, <2>3, Carried
<1>15. CASE UNCHANGED vars
  <2>1. day' = day /\ sim' = sim /\ clock' = clock
    BY <1>15 DEF vars
  <2> QED
    BY <1>0, <2>1, Carried
<1> QED
  BY <1>3, <1>4, <1>5, <1>6, <1>7, <1>8, <1>9, <1>10, <1>11, <1>12, <1>13, <1>14, <1>15 DEF Next

-----------------------------------------------------------------------------
(* The beginning *)

\* The members of a finite set of numbers can be put in order.
LEMMA OrderExists ==
  ASSUME NEW S, S \subseteq Nat, IsFiniteSet(S)
  PROVE  InOrder(S) \in [1 .. Cardinality(S) -> S] /\ Cardinality(S) \in Nat
<1> DEFINE Orders(T, m) == {f \in [1 .. m -> T] : \A i, j \in 1 .. m : i < j => f[i] < f[j]}
           Bad == {m \in Nat : \E T \in SUBSET Nat : IsFiniteSet(T) /\ Cardinality(T) = m /\ Orders(T, m) = {}}
<1>1. Bad = {}
  <2> SUFFICES ASSUME Bad # {} PROVE FALSE
    OBVIOUS
  <2>0. Bad \subseteq Nat
    OBVIOUS
  <2>1. PICK m \in Bad : \A k \in Bad : m <= k
    <3> HIDE DEF Bad
    <3> QED
      BY <2>0, LeastNumber
  <2>2. PICK T \in SUBSET Nat : IsFiniteSet(T) /\ Cardinality(T) = m /\ Orders(T, m) = {}
    OBVIOUS
  <2>3. m # 0
    <3> SUFFICES ASSUME m = 0 PROVE FALSE
      OBVIOUS
    <3>1. [i \in 1 .. 0 |-> 0] \in Orders(T, 0)
      OBVIOUS
    <3> QED
      BY <2>2, <3>1
  <2>4. T # {}
    BY <2>2, <2>3, FS_EmptySet
  <2>5. PICK x \in T : \A y \in T : x <= y
    BY <2>4, LeastNumber
  <2>6. IsFiniteSet(T \ {x}) /\ Cardinality(T \ {x}) = m - 1
    BY <2>2, FS_RemoveElement
  <2>7. m \in Nat /\ m - 1 \in Nat /\ m - 1 \notin Bad
    <3>1. m \in Nat /\ m - 1 \in Nat /\ ~ (m <= m - 1)
      BY <2>0, <2>3
    <3> HIDE DEF Bad
    <3> QED
      BY <2>1, <3>1
  <2>8. PICK g \in [1 .. m - 1 -> T \ {x}] : \A i, j \in 1 .. m - 1 : i < j => g[i] < g[j]
    <3>1. Orders(T \ {x}, m - 1) # {}
      BY <2>6, <2>7
    <3> QED
      BY <3>1
  <2>9. PICK f : f = [i \in 1 .. m |-> IF i = 1 THEN x ELSE g[i - 1]]
    OBVIOUS
  <2>10. \A i \in 1 .. m : i = 1 \/ i - 1 \in 1 .. m - 1
    BY <2>7
  <2>11. f \in [1 .. m -> T]
    <3>1. ASSUME NEW i \in 1 .. m PROVE f[i] \in T
      BY <2>8, <2>9, <2>10
    <3> QED
      BY <2>9, <3>1
  <2>12. ASSUME NEW i \in 1 .. m, NEW j \in 1 .. m, i < j PROVE f[i] < f[j]
    <3>1. j # 1 /\ j - 1 \in 1 .. m - 1 /\ f[j] = g[j - 1] /\ g[j - 1] \in T \ {x}
      BY <2>7, <2>8, <2>9, <2>12
    <3>2. CASE i = 1
      <4>1. f[i] = x /\ x <= f[j] /\ x # f[j] /\ x \in Nat /\ f[j] \in Nat
        BY <2>5, <2>9, <3>1, <3>2
      <4> QED
        BY <4>1
    <3>3. CASE i # 1
      <4>1. i - 1 \in 1 .. m - 1 /\ i - 1 < j - 1 /\ f[i] = g[i - 1]
        BY <2>7, <2>9, <2>12, <3>3
      <4> QED
        BY <2>8, <3>1, <4>1
    <3> QED
      BY <3>2, <3>3
  <2>13. f \in Orders(T, m)
    BY <2>11, <2>12
  <2> QED
    BY <2>2, <2>13
<1>2. Cardinality(S) \in Nat
  BY FS_CardinalityType
<1>3. Orders(S, Cardinality(S)) # {}
  BY <1>1, <1>2
<1> QED
  BY <1>2, <1>3 DEF InOrder

\* Rows of so many columns: the place of an entry in them.
LEMMA Places ==
  ASSUME NEW rows \in Nat, NEW columns \in Nat, NEW i \in 1 .. rows * columns
  PROVE  /\ ((i - 1) \div columns) + 1 \in 1 .. rows
         /\ ((i - 1) % columns) + 1 \in 1 .. columns
<1>1. rows * columns \in Nat /\ i \in Nat /\ 1 <= i /\ i <= rows * columns
  OBVIOUS
<1>2. columns # 0
  <2>1. columns = 0 => rows * columns = 0
    OBVIOUS
  <2> QED
    BY <1>1, <2>1
<1>3. PICK d : d = (i - 1) \div columns
  OBVIOUS
<1>4. PICK r : r = (i - 1) % columns
  OBVIOUS
<1>5. /\ i - 1 \in Nat /\ columns \in Nat \ {0}
      /\ d \in Int /\ r \in 0 .. columns - 1 /\ i - 1 = columns * d + r
  BY <1>1, <1>2, <1>3, <1>4
<1>6. d >= 0
  <2> SUFFICES ASSUME d <= -1 PROVE FALSE
    BY <1>5
  <2>1. columns * d <= columns * (-1)
    BY <1>5
  <2> QED
    BY <1>5, <2>1
<1>7. d < rows
  <2> SUFFICES ASSUME d >= rows PROVE FALSE
    BY <1>5
  <2>1. columns * d >= columns * rows
    BY <1>5
  <2>2. columns * rows = rows * columns
    OBVIOUS
  <2> QED
    BY <1>1, <1>5, <2>1, <2>2
<1>8. d + 1 \in 1 .. rows
  BY <1>5, <1>6, <1>7
<1>9. r + 1 \in 1 .. columns
  BY <1>5
<1> QED
  BY <1>3, <1>4, <1>8, <1>9

\* A process that runs can be entered into the agenda at the beginning.
Startable(s) == {p \in Entries : Runs(p.what) => Fits(s, 0, p.at, p.what)}

\* Every process that is created is about something there is.
LEMMA ProcessesStart ==
  ASSUME day \in Days, NEW s
  PROVE  Processes \in Seq(Startable(s))
<1>0. /\ Windows \subseteq Starts /\ 0 \in Windows /\ Starts \subseteq Nat /\ 0 \in Nat
      /\ Lanes \subseteq Nat /\ IsFiniteSet(Lanes) /\ IsFiniteSet(Starts)
  BY Arguments, DayAssumption
<1>1. LaneOrder \in [1 .. Cardinality(Lanes) -> Lanes] /\ Cardinality(Lanes) \in Nat
  BY <1>0, OrderExists DEF LaneOrder
<1>2. LaneOrder \in Seq(Lanes) /\ Len(LaneOrder) = Cardinality(Lanes) /\ DOMAIN LaneOrder = 1 .. Len(LaneOrder)
  BY <1>1, SeqDef, LenProperties
<1>3. PICK one : one = IF Later(0) = {} THEN <<>> ELSE <<[at |-> NextStart(0), what |-> Schedule(NextStart(0))]>>
  OBVIOUS
<1>4. one \in Seq(Startable(s))
  <2>1. CASE Later(0) = {}
    BY <1>3, <2>1
  <2>2. CASE Later(0) # {}
    <3>1. PICK v : v = NextStart(0)
      OBVIOUS
    <3>2. v \in Windows \ {0} /\ v \in Nat /\ v \in Starts
      BY <1>0, <2>2, <3>1, NextWindow
    <3>3. PICK e : e = Schedule(v)
      OBVIOUS
    <3>4. e.who = "schedule" /\ e.window = v /\ e \in Occurrences
      BY <3>2, <3>3 DEF Schedule, Occurrences, Events
    <3>5. Fits(s, 0, v, e)
      BY <3>2, <3>4 DEF Fits, Meaningful
    <3>6. PICK p : p = [at |-> v, what |-> e]
      OBVIOUS
    <3>7. p \in Entries /\ p.at = v /\ p.what = e
      BY <3>2, <3>4, <3>6 DEF Entries
    <3>8. p \in Startable(s)
      BY <3>5, <3>7 DEF Startable
    <3>9. one = <<p>>
      BY <1>3, <2>2, <3>1, <3>3, <3>6
    <3> QED
      BY <3>8, <3>9
  <2> QED
    BY <2>1, <2>2
<1>5. PICK two : two = [i \in DOMAIN LaneOrder |-> [at |-> 0, what |-> Controller(LaneOrder[i], 1, "start")]]
  OBVIOUS
<1>6. two \in Seq(Startable(s))
  <2>1. ASSUME NEW i \in 1 .. Cardinality(Lanes) PROVE two[i] \in Startable(s)
    <3>1. PICK q : q = LaneOrder[i]
      OBVIOUS
    <3>2. PICK e : e = Controller(q, 1, "start")
      OBVIOUS
    <3>3. q \in Lanes
      BY <1>1, <3>1
    <3>4. e.who = "break" /\ e.lane = q /\ e.rest = 1 /\ e \in Occurrences
      BY <3>2, <3>3 DEF Controller, Occurrences, Events
    <3>5. ASSUME Runs(e) PROVE Fits(s, 0, 0, e)
      <4>1. day.rests[q] # <<>>
        BY <3>4, <3>5 DEF Runs
      <4>2. PICK r : r = day.rests[q]
        OBVIOUS
      <4>3. 1 \in DOMAIN r
        <5>1. DOMAIN r = 1 .. Len(r) /\ Len(r) \in Nat
          BY <3>3, <4>2, Arguments
        <5>2. r \in Rests
          BY <3>3, <4>2 DEF Days
        <5>3. \E n \in 0 .. B : r \in [1 .. n -> Rest]
          BY <5>2 DEF Rests
        <5>4. r \in Seq(Rest)
          BY <5>3, SeqDef, DayAssumption
        <5>5. Len(r) # 0
          BY <4>1, <4>2, <5>4, EmptySeq
        <5> QED
          BY <5>1, <5>5
      <4> QED
        BY <3>4, <4>2, <4>3 DEF Fits, Meaningful
    <3>6. PICK p : p = [at |-> 0, what |-> e]
      OBVIOUS
    <3>7. p \in Entries /\ p.at = 0 /\ p.what = e
      BY <3>4, <3>6 DEF Entries
    <3>8. p \in Startable(s)
      BY <3>5, <3>7 DEF Startable
    <3>9. two[i] = p
      BY <1>2, <1>5, <3>1, <3>2, <3>6
    <3> QED
      BY <3>8, <3>9
  <2>2. two \in [1 .. Cardinality(Lanes) -> Startable(s)]
    BY <1>2, <1>5, <2>1
  <2> QED
    BY <1>1, <2>2, SeqDef
<1>7. ASSUME NEW lanes \in SUBSET Lanes, NEW w \in Windows, day.engine # "parallel" => lanes = Lanes
      PROVE  \A at \in {w} : [at |-> at, what |-> Arrivals(lanes, w, "open", 0)] \in Startable(s)
  <2>1. PICK e : e = Arrivals(lanes, w, "open", 0)
    OBVIOUS
  <2>2. w \in Starts /\ w \in Nat
    BY <1>0
  <2>3. /\ e.who = "arrivals" /\ e.lanes = lanes /\ e.window = w /\ e.step = "open" /\ e \in Occurrences
    BY <2>1, <2>2 DEF Arrivals, Occurrences, Events
  <2>4. Fits(s, 0, w, e)
    BY <1>7, <2>2, <2>3 DEF Fits, Meaningful
  <2>5. PICK p : p = [at |-> w, what |-> e]
    OBVIOUS
  <2>6. p \in Entries /\ p.at = w /\ p.what = e
    BY <2>2, <2>3, <2>5 DEF Entries
  <2>7. p \in Startable(s)
    BY <2>4, <2>6 DEF Startable
  <2> QED
    BY <2>1, <2>5, <2>7
<1>8. PICK three : three = IF day.engine = "parallel" THEN Streams
                           ELSE <<[at |-> 0, what |-> Arrivals(Lanes, 0, "open", 0)]>>
  OBVIOUS
<1>9. three \in Seq(Startable(s))
  <2>1. CASE day.engine # "parallel"
    <3>1. PICK p : p = [at |-> 0, what |-> Arrivals(Lanes, 0, "open", 0)]
      OBVIOUS
    <3>2. p \in Startable(s)
      BY <1>0, <1>7, <3>1
    <3>3. three = <<p>>
      BY <1>8, <2>1, <3>1
    <3> QED
      BY <3>2, <3>3
  <2>2. CASE day.engine = "parallel"
    <3>1. PICK windows : windows = InOrder(Starts)
      OBVIOUS
    <3>2. windows \in [1 .. Cardinality(Starts) -> Starts] /\ Cardinality(Starts) \in Nat
      BY <1>0, <3>1, OrderExists
    <3>3. windows \in Seq(Starts) /\ Len(windows) = Cardinality(Starts)
      BY <3>2, SeqDef, LenProperties
    <3>4. PICK n : n = Len(windows) * Len(LaneOrder)
      OBVIOUS
    <3>5. n \in Nat
      BY <1>1, <1>2, <3>2, <3>3, <3>4
    <3>6. Windows = Starts
      BY <2>2 DEF Windows
    <3>7. Streams = [i \in 1 .. n |->
              [at |-> windows[((i - 1) \div Len(LaneOrder)) + 1],
               what |-> Arrivals({LaneOrder[((i - 1) % Len(LaneOrder)) + 1]},
                                 windows[((i - 1) \div Len(LaneOrder)) + 1], "open", 0)]]
      BY <3>1, <3>4 DEF Streams
    <3>8. ASSUME NEW i \in 1 .. n PROVE Streams[i] \in Startable(s)
      <4>1. PICK w : w = windows[((i - 1) \div Len(LaneOrder)) + 1]
        OBVIOUS
      <4>2. PICK q : q = LaneOrder[((i - 1) % Len(LaneOrder)) + 1]
        OBVIOUS
      <4>3. /\ ((i - 1) \div Len(LaneOrder)) + 1 \in 1 .. Cardinality(Starts)
            /\ ((i - 1) % Len(LaneOrder)) + 1 \in 1 .. Cardinality(Lanes)
        BY <1>1, <1>2, <3>2, <3>3, <3>4, Places
      <4>4. w \in Windows /\ {q} \in SUBSET Lanes
        BY <1>1, <3>2, <3>6, <4>1, <4>2, <4>3
      <4>5. [at |-> w, what |-> Arrivals({q}, w, "open", 0)] \in Startable(s)
        BY <1>7, <2>2, <4>4
      <4>6. Streams[i] = [at |-> w, what |-> Arrivals({q}, w, "open", 0)]
        BY <3>7, <4>1, <4>2
      <4> QED
        BY <4>5, <4>6
    <3>9. Streams \in [1 .. n -> Startable(s)]
      BY <3>7, <3>8
    <3> QED
      BY <1>8, <2>2, <3>5, <3>9, SeqDef
  <2> QED
    BY <2>1, <2>2
<1>10. Processes = one \o two \o three
  BY <1>3, <1>5, <1>8 DEF Processes
<1> QED
  BY <1>4, <1>6, <1>9, <1>10, ConcatProperties

\* The processes are entered one after the other.
LEMMA Launching ==
  ASSUME day \in Days, NEW s, Good(s, 0), NEW P \in Seq(Startable(s))
  PROVE  Good(Launched(s, P), 0)
<1> DEFINE Step(x, p) == IF Runs(p.what) THEN At(x, p.at, p.what) ELSE x
           Starts0(f, n) == f = [i \in 0 .. n |-> IF i = 0 THEN s ELSE Step(f[i - 1], P[i])]
<1>0. Len(P) \in Nat /\ DOMAIN P = 1 .. Len(P) /\ \A n \in 1 .. Len(P) : P[n] \in Startable(s)
  BY LenProperties, ElementOfSeq
<1>1. \A n \in 0 .. Len(P) : \E f : Starts0(f, n)
  <2> DEFINE Bad == {n \in 0 .. Len(P) : ~ \E f : Starts0(f, n)}
  <2> SUFFICES ASSUME Bad # {} PROVE FALSE
    OBVIOUS
  <2>0. Bad \subseteq Nat
    BY <1>0
  <2>1. PICK m \in Bad : \A k \in Bad : m <= k
    <3> HIDE DEF Bad
    <3> QED
      BY <2>0, LeastNumber
  <2>2. m \in Nat /\ m \in 0 .. Len(P) /\ ~ \E f : Starts0(f, m)
    BY <2>0, <2>1
  <2>3. CASE m = 0
    <3>1. PICK f : f = [i \in 0 .. 0 |-> s]
      OBVIOUS
    <3>2. f = [i \in 0 .. m |-> IF i = 0 THEN s ELSE Step(f[i - 1], P[i])]
      <4> HIDE DEF Step
      <4> QED
        BY <2>3, <3>1
    <3> HIDE DEF Step
    <3> QED
      BY <2>2, <3>2
  <2>4. CASE m # 0
    <3>1. m - 1 \in 0 .. Len(P) /\ m - 1 \in Nat /\ ~ (m <= m - 1)
      BY <1>0, <2>2, <2>4
    <3>2. PICK g : Starts0(g, m - 1)
      <4>1. m - 1 \notin Bad
        <5> HIDE DEF Bad
        <5> QED
          BY <2>1, <3>1
      <4> QED
        BY <3>1, <4>1
    <3>3. PICK f : f = [i \in 0 .. m |-> IF i = m THEN Step(g[m - 1], P[m]) ELSE g[i]]
      OBVIOUS
    <3> HIDE DEF Step
    <3>4. ASSUME NEW i \in 0 .. m PROVE f[i] = IF i = 0 THEN s ELSE Step(f[i - 1], P[i])
      <4>1. CASE i = m
        <5>1. f[i - 1] = g[m - 1] /\ i # 0
          BY <2>2, <2>4, <3>1, <3>3, <4>1
        <5> QED
          BY <3>3, <4>1, <5>1
      <4>2. CASE i # m
        <5>1. i \in 0 .. m - 1 /\ f[i] = g[i]
          BY <2>2, <3>3, <4>2
        <5>2. g[i] = IF i = 0 THEN s ELSE Step(g[i - 1], P[i])
          BY <3>2, <5>1
        <5>3. i # 0 => i - 1 \in 0 .. m /\ i - 1 # m /\ f[i - 1] = g[i - 1]
          BY <2>2, <3>3, <5>1
        <5> QED
          BY <5>1, <5>2, <5>3
      <4> QED
        BY <4>1, <4>2
    <3>5. DOMAIN f = 0 .. m /\ f = [i \in DOMAIN f |-> f[i]]
      BY <3>3
    <3>6. f = [i \in 0 .. m |-> IF i = 0 THEN s ELSE Step(f[i - 1], P[i])]
      BY <3>4, <3>5, Zenon
    <3> QED
      BY <2>2, <3>6
  <2> QED
    BY <2>3, <2>4
<1>2. PICK f : f = CHOOSE g : Starts0(g, Len(P))
  OBVIOUS
<1>3. Starts0(f, Len(P))
  <2>1. \E g : Starts0(g, Len(P))
    <3>1. Len(P) \in 0 .. Len(P)
      BY <1>0
    <3> HIDE DEF Starts0
    <3> QED
      BY <1>1, <3>1
  <2> HIDE DEF Starts0
  <2> QED
    BY <1>2, <2>1
<1>4. Launched(s, P) = f[Len(P)]
  BY <1>2 DEF Launched
<1>5. f[0] = s /\ \A n \in 1 .. Len(P) : f[n] = Step(f[n - 1], P[n])
  <2> HIDE DEF Step
  <2>1. \A i \in 0 .. Len(P) : f[i] = IF i = 0 THEN s ELSE Step(f[i - 1], P[i])
    BY <1>3
  <2> QED
    BY <1>0, <2>1
<1>6. ASSUME NEW n \in 1 .. Len(P), Good(f[n - 1], 0), Same(s, f[n - 1])
      PROVE  Good(f[n], 0) /\ Same(s, f[n])
  <2>1. PICK x : x = f[n - 1]
    OBVIOUS
  <2>2. PICK p : p = P[n]
    OBVIOUS
  <2>3. CASE Runs(p.what)
    <3>1. Fits(s, 0, p.at, p.what)
      BY <1>0, <2>2, <2>3 DEF Startable
    <3>2. Fits(x, 0, p.at, p.what)
      <4>1. x.customer = s.customer
        BY <1>6, <2>1 DEF Same
      <4> QED
        BY <3>1, <4>1, MeaningfulStays DEF Fits
    <3>3. PICK u : u = At(x, p.at, p.what)
      OBVIOUS
    <3>4. Basic(x, 0) /\ LanesOK(x) /\ RestsOK(x, 0) /\ StalledOK(x)
      BY <1>6, <2>1 DEF Good
    <3>5. Basic(u, 0) /\ Same(x, u)
      BY <3>2, <3>3, <3>4, AtKeeps
    <3>6. Good(u, 0)
      BY <3>4, <3>5, GoodStays
    <3>7. Same(s, u)
      BY <1>6, <2>1, <3>5, SameTwice
    <3>8. f[n] = u
      BY <1>5, <2>1, <2>2, <2>3, <3>3
    <3> QED
      BY <3>6, <3>7, <3>8
  <2>4. CASE ~Runs(p.what)
    <3>1. f[n] = x
      BY <1>5, <2>1, <2>2, <2>4
    <3> QED
      BY <1>6, <2>1, <3>1
  <2> QED
    BY <2>3, <2>4
<1>7. \A n \in 0 .. Len(P) : Good(f[n], 0) /\ Same(s, f[n])
  <2> DEFINE Bad == {n \in 0 .. Len(P) : ~ (Good(f[n], 0) /\ Same(s, f[n]))}
  <2> SUFFICES ASSUME Bad # {} PROVE FALSE
    OBVIOUS
  <2>0. Bad \subseteq Nat
    BY <1>0
  <2>1. PICK m \in Bad : \A k \in Bad : m <= k
    <3> HIDE DEF Bad
    <3> QED
      BY <2>0, LeastNumber
  <2>2. m \in Nat /\ m \in 0 .. Len(P) /\ ~ (Good(f[m], 0) /\ Same(s, f[m]))
    BY <2>0, <2>1
  <2>3. m # 0
    <3>1. Same(s, s)
      BY DEF Same
    <3> QED
      BY <1>5, <2>2, <3>1
  <2>4. m - 1 \in 0 .. Len(P) /\ ~ (m <= m - 1) /\ m \in 1 .. Len(P)
    BY <1>0, <2>2, <2>3
  <2>5. m - 1 \notin Bad
    <3> HIDE DEF Bad
    <3> QED
      BY <2>1, <2>4
  <2>6. Good(f[m - 1], 0) /\ Same(s, f[m - 1])
    BY <2>4, <2>5
  <2> QED
    BY <1>6, <2>2, <2>4, <2>6
<1> QED
  BY <1>0, <1>4, <1>7

\* A run begins well.
LEMMA BeginsWell ==
  ASSUME Init
  PROVE  IInv
<1>0. /\ day \in Days /\ clock = [now |-> 0, outcome |-> IF day.sampled THEN "running" ELSE "refused"]
      /\ Until \in Nat /\ 0 < Until /\ 0 \in Windows /\ 0 \in Starts /\ 0 \in Nat
  BY Arguments, DayAssumption DEF Init
<1>1. PICK s : s = [agenda |-> <<>>,
                    lane |-> [q \in Lanes |-> New(IF q \in day.active[0] THEN "ACTIVE" ELSE "INACTIVE")],
                    user |-> [q \in Lanes |-> Nobody],
                    queue |-> [q \in Lanes |-> <<>>],
                    customer |-> <<>>,
                    emptying |-> [q \in Lanes |-> 0],
                    stalled |-> {},
                    admitted |-> 0,
                    current |-> 0,
                    taken |-> [q \in Lanes |-> {}]]
  OBVIOUS
<1>2. sim = Launched(s, Processes)
  BY <1>1 DEF Init
<1>3. ASSUME NEW q \in Lanes
      PROVE  s.lane[q] \in Lifecycle /\ LaneOK(s.lane[q], 0, q) /\ ~s.lane[q].pending
  <2>1. PICK state : state = IF q \in day.active[0] THEN "ACTIVE" ELSE "INACTIVE"
    OBVIOUS
  <2>2. s.lane[q] = New(state)
    BY <1>1, <2>1
  <2>3. PICK l : l = New(state)
    OBVIOUS
  <2>4. /\ l \in Lifecycle /\ l.state = state /\ l.pending = FALSE /\ l.waiting = <<>> /\ l.serving = Nobody
        /\ DOMAIN l.waiting = {}
    BY <2>1, <2>3, EmptySeq DEF New, Lifecycle, States, Nobody
  <2>5. LaneOK(l, 0, q)
    BY <2>1, <2>4 DEF LaneOK, Resting, Occupied
  <2> QED
    BY <2>2, <2>3, <2>4, <2>5
<1>4. s \in Shape
  <2>1. s.lane \in [Lanes -> Lifecycle]
    BY <1>1, <1>3
  <2>2. /\ <<>> \in Agendas /\ <<>> \in Seq(CustomerRow) /\ <<>> \in Seq(Nat) /\ Nobody \in Nat
        /\ {} \in SUBSET (1 .. B)
    BY DEF Agendas, Nobody
  <2> QED
    BY <1>0, <1>1, <2>1, <2>2 DEF Shape
<1>5. /\ s.agenda = <<>> /\ s.customer = <<>> /\ s.stalled = {} /\ s.current = 0
      /\ \A q \in Lanes : s.emptying[q] = 0 /\ s.queue[q] = <<>>
  BY <1>1
<1>6. Basic(s, 0)
  <2>1. Pending(s) = {} /\ DOMAIN s.agenda = {}
    BY <1>5, EmptySeq DEF Pending
  <2>2. AgendaOK(s, 0)
    BY <2>1 DEF AgendaOK, InTime
  <2>3. WaitersOK(s)
    <3>1. \A q \in Lanes : DOMAIN s.queue[q] = {}
      BY <1>5, EmptySeq
    <3> QED
      BY <1>0, <1>5, <3>1 DEF WaitersOK
  <2> QED
    BY <1>0, <1>4, <2>2, <2>3 DEF Basic
<1>7. Good(s, 0)
  BY <1>3, <1>5, <1>6 DEF Good, LanesOK, RestsOK, RestOK, StalledOK
<1>8. Good(sim, 0)
  BY <1>0, <1>2, <1>7, ProcessesStart, Launching
<1>9. clock \in [now : Nat, outcome : Outcomes] /\ clock.now = 0
  BY <1>0 DEF Outcomes
<1> QED
  BY <1>0, <1>8, <1>9 DEF IInv

-----------------------------------------------------------------------------
(* Theorems *)

\* The invariant says what LanesFollowTheSchedule says.
LEMMA LanesFollow ==
  ASSUME IInv
  PROVE  LanesFollowTheSchedule
<1>0. Basic(sim, clock.now) /\ LanesOK(sim) /\ RestsOK(sim, clock.now) /\ StalledOK(sim) /\ sim \in Shape
  BY DEF IInv, Good, Basic
<1>1. sim.stalled # {} => Open(sim, Lanes) = {}
  BY <1>0 DEF StalledOK, Open, AcceptsArrivals
<1>2. ASSUME NEW q \in Lanes
      PROVE  /\ ~Resting(sim.lane[q]) => (sim.lane[q].state = "ACTIVE" <=> q \in day.active[sim.current])
             /\ sim.lane[q].state = "DRAINING" /\ ~sim.lane[q].pending => Occupied(sim.lane[q])
             /\ sim.lane[q].state \in {"INACTIVE", "ON_BREAK"} => ~Occupied(sim.lane[q])
  BY <1>0 DEF LanesOK, LaneOK
<1>3. ASSUME NEW q \in Lanes, sim.lane[q].pending, ~Occupied(sim.lane[q]), sim.lane[q].state # "ON_BREAK"
      PROVE  \E i \in DOMAIN sim.agenda :
               /\ sim.agenda[i].at = clock.now
               /\ \E n \in DOMAIN day.rests[q] : sim.agenda[i].what = Controller(q, n, "emptied")
  <2>1. sim.lane[q].state = "DRAINING"
    BY <1>0, <1>3 DEF LanesOK, LaneOK
  <2>2. Emptied(sim, q, clock.now)
    BY <1>0, <1>3, <2>1 DEF RestsOK, RestOK
  <2>3. PICK n \in DOMAIN day.rests[q] : [at |-> clock.now, what |-> Controller(q, n, "emptied")] \in Pending(sim)
    BY <2>2 DEF Emptied, Due
  <2>4. PICK i \in DOMAIN sim.agenda : sim.agenda[i] = [at |-> clock.now, what |-> Controller(q, n, "emptied")]
    BY <2>3 DEF Pending
  <2> QED
    BY <2>4
<1> QED
  BY <1>1, <1>2, <1>3 DEF LanesFollowTheSchedule

\* The lanes of a day are open exactly when the schedule in force has them, rests and closing lanes apart;
\* a lane closes or rests only when it is empty, and then at once; nobody waits beside an open lane
\* (apply_schedule, the controllers of breaks and windows, complete_service, topology_changed).
THEOREM LanesAlwaysFollow == Spec => []LanesFollowTheSchedule
<1>1. Init => IInv
  BY BeginsWell
<1>2. IInv /\ [Next]_vars => IInv'
  BY StepKeeps
<1>3. IInv => LanesFollowTheSchedule
  BY LanesFollow
<1> QED
  BY <1>1, <1>2, <1>3, PTL DEF Spec

---------------------------------------------------------------------------

(***************************************************************************)
(* Planning.  SeparatePlanning is another machine than the day: none of    *)
(* its constants and variables occurs above, and none of the day's below.  *)
(***************************************************************************)

\* What SeparatePlanning assumes of its constants.
PlanAssumptions == PlacementConstants /\ SearchConstants /\ PlanningConstants

(* One day per seed *)

\* The stored records are of the periods of the stored Setup.
RecordsFit ==
  /\ setup.layout \in Layouts
  /\ setup = [layout |-> setup.layout, staffing |-> setup.staffing, breaks |-> setup.breaks]
  /\ data.recorded \subseteq Periods(setup)

\* Between requests nothing is kept of a day or a reading.
NothingIsKept == request = NoRequest => runs = <<>> /\ readings = <<>>

\* What is read of a day or a period for some lanes.
LaneReadings(active) ==
  {Measured(active, busy, conserved) : busy \in SUBSET active, conserved \in BOOLEAN}
    \cup {Refused(active, "INVALID_INPUT")}

\* The days simulated are of recorded dates, and each has the seed of its date and replication.
DaysAreSeeded ==
  \A key \in DOMAIN runs :
    /\ key = <<key[1], key[2]>> /\ key[2] \in 1 .. Replications
    /\ \E p \in data.recorded : p[1] = key[1]
    /\ runs[key].seed = DateSeed(key[1], key[2]) /\ runs[key].conserved \in BOOLEAN

\* Every reading of a period of a day is of its date's day.
ReadingsAreOfDays ==
  \A t \in DOMAIN readings :
    /\ readings[t] \in Seq(LaneReadings(t[2]))
    /\ Continuous =>
         \A i \in DOMAIN readings[t] :
           /\ <<t[1][1], i>> \in DOMAIN runs
           /\ readings[t][i] = ReadDay(runs[<<t[1][1], i>>], t[1], t[2])

DaysInv == RecordsFit /\ NothingIsKept /\ DaysAreSeeded /\ ReadingsAreOfDays

\* NextTask picks an open task, where every period has one candidate only.
LEMMA NextTaskIsOpen ==
  ASSUME PlanAssumptions, FullCoverage, RecordsFit, OpenTasks # {}
  PROVE  NextTask \in OpenTasks
<1>1. \A t \in OpenTasks : t = <<t[1], setup.staffing[t[1][2]]>> /\ t[1] = <<t[1][1], t[1][2]>>
                           /\ t[1][1] \in Nat /\ t[1][2] \in Nat
  <2>1. \A p \in data.recorded : p = <<p[1], p[2]>> /\ p[1] \in Nat /\ p[2] \in Nat
    <3>1. Dates \subseteq Nat /\ Segments \subseteq Nat /\ Segments # {}
      BY DEF PlanAssumptions, PlacementConstants, PlanningConstants
    <3>2. Min(Segments) \in Nat
      BY <3>1, MinIsLeast
    <3>3. Periods(setup) \subseteq Nat \X Nat 
      <4>1. setup.layout \in {"representative", "dated", "plain"}
        BY DEF RecordsFit, PlanAssumptions, PlanningConstants
      <4>2. \A p \in Periods(setup) : p \in {0} \X Segments \/ p \in Dates \X Segments \/ p = <<0, Min(Segments)>>
        BY <4>1 DEF Periods
      <4> SUFFICES ASSUME NEW p \in Periods(setup) PROVE p \in Nat \X Nat
        OBVIOUS
      <4>3. p = <<0, Min(Segments)>> => p \in Nat \X Nat
        BY <3>2
      <4>4. p \in {0} \X Segments \/ p \in Dates \X Segments => p \in Nat \X Nat
        <5>1. ASSUME p \in {0} \X Segments \/ p \in Dates \X Segments PROVE p \in Nat \X Nat
          <6>1. p[1] \in {0} \cup Dates /\ p[2] \in Segments /\ p = <<p[1], p[2]>>
            BY <5>1
          <6> QED
            BY <3>1, <6>1
        <5> QED
          BY <5>1
      <4> QED
        BY <4>2, <4>3, <4>4
    <3> QED
      BY <3>3 DEF RecordsFit
  <2>2. \A t \in AllTasks : \E p \in data.recorded : t = <<p, setup.staffing[p[2]]>>
    BY DEF AllTasks, Tasks, Candidates, FullCoverage
  <2> QED
    BY <2>1, <2>2 DEF OpenTasks
<1>2. PICK d : (\E t \in OpenTasks : t[1][1] = d) /\ d \in Nat /\ \A t \in OpenTasks : d <= t[1][1]
  <2> DEFINE S == {t[1][1] : t \in OpenTasks}
  <2>1. S \subseteq Nat /\ S # {}
    BY <1>1
  <2>2. PICK d \in S : \A k \in S : d <= k
    BY <2>1, LeastNumber
  <2> QED
    BY <2>1, <2>2
<1>3. PICK t \in OpenTasks : t[1][1] = d /\ \A u \in OpenTasks : u[1][1] = d => t[1][2] <= u[1][2]
  <2> DEFINE S == {u[1][2] : u \in {w \in OpenTasks : w[1][1] = d}}
  <2>1. S \subseteq Nat /\ S # {}
    BY <1>1, <1>2
  <2>2. PICK m \in S : \A k \in S : m <= k
    BY <2>1, LeastNumber
  <2> QED
    BY <2>1, <2>2
<1>4. \A u \in OpenTasks \ {t} : Lexicographic(Key(t), Key(u))
  <2> SUFFICES ASSUME NEW u \in OpenTasks \ {t}
               PROVE  Lexicographic(Key(t), Key(u))
    OBVIOUS
  <2>1. t[1][1] < u[1][1] \/ (t[1][1] = u[1][1] /\ t[1][2] < u[1][2])
    BY <1>1, <1>2, <1>3
  <2> DEFINE p == Key(t)
             q == Key(u)
  <2>2. DOMAIN p = 1 .. 3 /\ p[1] = t[1][1] /\ p[2] = t[1][2] /\ q[1] = u[1][1] /\ q[2] = u[1][2]
    BY DEF Key
  <2> HIDE DEF p, q
  <2>3. Lexicographic(p, q)
    BY <2>1, <2>2 DEF Lexicographic
  <2> QED
    BY <2>3 DEF p, q
<1> QED
  BY <1>4 DEF NextTask

\* No two replications of two dates have the same seed.
LEMMA SeedsDiffer ==
  ASSUME PlanAssumptions, NEW S, S \subseteq Dates \/ S \subseteq {0},
         NEW d \in S, NEW e \in S, NEW m \in 1 .. Replications, NEW n \in 1 .. Replications,
         DateSeed(d, m) = DateSeed(e, n)
  PROVE  d = e /\ m = n
<1>1. /\ (\A x \in Dates : x \in Nat) /\ BaseSeed \in Nat /\ Stride \in Nat /\ Replications \in Nat /\ Replications <= Stride
  BY DEF PlanAssumptions, PlanningConstants, SearchConstants
<1>a. d \in Nat /\ e \in Nat
  BY <1>1
<1> DEFINE Before(x) == {k \in Dates : k < x}
<1>2. ASSUME NEW x \in Nat
      PROVE  IsFiniteSet(Before(x)) /\ Cardinality(Before(x)) \in Nat
  <2>1. Before(x) \subseteq 0 .. x /\ IsFiniteSet(0 .. x)
    <3>1. \A k \in Before(x) : k \in 0 .. x
      BY <1>1
    <3> QED
      BY <3>1, FS_Interval
  <2>2. IsFiniteSet(Before(x))
    BY <2>1, FS_Subset
  <2> QED
    BY <2>2, FS_CardinalityType
<1>3. ASSUME NEW x \in Dates, NEW y \in Dates, x < y
      PROVE  Cardinality(Before(x)) < Cardinality(Before(y))
  <2>1. Before(x) \subseteq Before(y) /\ x \in Before(y) /\ x \notin Before(x) /\ x \in Nat /\ y \in Nat
    BY <1>1, <1>3
  <2>2. Cardinality(Before(x)) <= Cardinality(Before(y)) /\ (Cardinality(Before(x)) = Cardinality(Before(y)) => Before(x) = Before(y))
    BY <1>2, <2>1, FS_Subset
  <2> HIDE DEF Before
  <2> QED
    BY <1>2, <2>1, <2>2
<1>4. DateSeed(d, m) = BaseSeed + m - 1 + Stride * Cardinality(Before(d))
      /\ DateSeed(e, n) = BaseSeed + n - 1 + Stride * Cardinality(Before(e))
  BY DEF DateSeed
<1>5. ASSUME NEW i \in Nat, NEW j \in Nat, NEW a \in 1 .. Replications, NEW b \in 1 .. Replications, i < j
      PROVE  BaseSeed + a - 1 + Stride * i < BaseSeed + b - 1 + Stride * j
  <2>1. j = i + 1 + (j - i - 1) /\ j - i - 1 \in Nat
    BY <1>5
  <2>2. PICK k \in Nat : k = j - i - 1
    BY <2>1
  <2>3. Stride * j = Stride * i + Stride + Stride * k /\ Stride * k \in Nat /\ Stride * i \in Nat
    <3>1. j = i + 1 + k
      BY <2>1, <2>2
    <3> QED
      BY <1>1, <3>1
  <2>4. PICK u, v, w : u = Stride * i /\ v = Stride * k /\ w = Stride * j
    OBVIOUS
  <2>5. w = u + Stride + v /\ u \in Nat /\ v \in Nat
    BY <2>3, <2>4
  <2> QED
    BY <1>1, <2>4, <2>5
<1> HIDE DEF Before
<1>6. Cardinality(Before(d)) = Cardinality(Before(e))
  <2>1. PICK i \in Nat, j \in Nat : i = Cardinality(Before(d)) /\ j = Cardinality(Before(e))
    BY <1>1, <1>a, <1>2
  <2>2. ~(i < j) /\ ~(j < i)
    <3>1. i < j => BaseSeed + m - 1 + Stride * i < BaseSeed + n - 1 + Stride * j
      BY <1>5
    <3>2. j < i => BaseSeed + n - 1 + Stride * j < BaseSeed + m - 1 + Stride * i
      BY <1>5
    <3>3. PICK x \in Int, y \in Int : x = BaseSeed + m - 1 + Stride * i /\ y = BaseSeed + n - 1 + Stride * j
      BY <1>1
    <3>4. x = y
      BY <1>4, <2>1, <3>3
    <3> QED
      BY <3>1, <3>2, <3>3, <3>4
  <2> QED
    BY <2>1, <2>2
<1>7. d = e
  <2>1. CASE S \subseteq Dates
    BY <1>1, <1>a, <1>3, <1>6, <1>2, <2>1
  <2>2. CASE S \subseteq {0}
    BY <2>2
  <2> QED
    BY <2>1, <2>2
<1>8. m = n
  <2>1. PICK w \in Int : w = Stride * Cardinality(Before(d))
    BY <1>1, <1>a, <1>2
  <2>2. DateSeed(d, m) = BaseSeed + m - 1 + w /\ DateSeed(e, n) = BaseSeed + n - 1 + w
    BY <1>4, <1>7, <2>1
  <2>3. BaseSeed + m - 1 + w = BaseSeed + n - 1 + w
    BY <2>2
  <2> QED
    BY <1>1, <2>1, <2>3
<1> QED
  BY <1>7, <1>8

\* What a day may be.
LEMMA OutcomeIsSeeded ==
  ASSUME NEW date, NEW replication, NEW run \in PossibleDays(date, replication)
  PROVE  run.seed = DateSeed(date, replication) /\ run.conserved \in BOOLEAN
<1> DEFINE DayOf(busy, conserved, failed) ==
             [seed |-> DateSeed(date, replication), busy |-> busy, conserved |-> conserved, failed |-> failed]
<1>1. (\E busy : run = DayOf(busy, TRUE, FALSE)) \/ run = DayOf({}, FALSE, FALSE) \/ run = DayOf({}, FALSE, TRUE)
  BY DEF PossibleDays
<1>2. PICK busy, conserved, failed : conserved \in BOOLEAN /\ run = DayOf(busy, conserved, failed)
  BY <1>1
<1> QED
  BY <1>2

\* Reading a day gives a reading of the lanes asked for.
LEMMA ReadingOfDay ==
  ASSUME NEW run, run.conserved \in BOOLEAN, NEW p, NEW active
  PROVE  ReadDay(run, p, active) \in LaneReadings(active)
<1>1. Refused(active, "INVALID_INPUT") \in LaneReadings(active)
  BY DEF LaneReadings
<1>2. PICK busy \in SUBSET active : busy = {c \in active : <<p, c>> \in run.busy}
  OBVIOUS
<1>3. Measured(active, busy, run.conserved) \in LaneReadings(active)
  BY DEF LaneReadings
<1> QED
  BY <1>1, <1>2, <1>3 DEF ReadDay

\* A further reading of a task is the last of its readings.
LEMMA NoteAppends ==
  ASSUME ReadingsAreOfDays, NEW t, NEW reading \in LaneReadings(t[2]), Note(t, reading)
  PROVE  /\ DOMAIN readings' = DOMAIN readings \cup {t}
         /\ \A u \in DOMAIN readings \ {t} : readings'[u] = readings[u]
         /\ ReadingsOf(t) \in Seq(LaneReadings(t[2]))
         /\ readings'[t] = Append(ReadingsOf(t), reading)
         /\ readings'[t] \in Seq(LaneReadings(t[2]))
<1>1. ReadingsOf(t) \in Seq(LaneReadings(t[2]))
  <2>1. \A S : <<>> \in Seq(S)
    OBVIOUS
  <2>2. t \in DOMAIN readings => readings[t] \in Seq(LaneReadings(t[2]))
    BY DEF ReadingsAreOfDays
  <2> QED
    BY <2>1, <2>2 DEF ReadingsOf
<1>2. readings' = [y \in (DOMAIN readings) \cup {t} |-> IF y = t THEN Append(ReadingsOf(t), reading) ELSE readings[y]]
  BY DEF Note, Stored
<1> QED
  BY <1>1, <1>2, AppendProperties

\* The first state.
LEMMA DaysInit ==
  ASSUME PlanningInit
  PROVE  DaysInv
<1>1. runs = <<>> /\ readings = <<>> /\ DOMAIN runs = {} /\ DOMAIN readings = {}
  BY DEF PlanningInit
<1>2. RecordsFit
  BY DEF PlanningInit, Setups, Records, Recordings, RecordsFit
<1> QED
  BY <1>1, <1>2 DEF DaysInv, NothingIsKept, DaysAreSeeded, ReadingsAreOfDays

\* The periods depend on the layout only.
LEMMA FitIsKept ==
  ASSUME RecordsFit, NEW b, setup' = [layout |-> setup.layout, staffing |-> setup.staffing, breaks |-> b],
         data' = data \/ (data' \in Records(setup) /\ setup' = setup)
  PROVE  RecordsFit'
<1>1. setup'.layout = setup.layout /\ setup' = [layout |-> setup'.layout, staffing |-> setup'.staffing, breaks |-> setup'.breaks]
  BY DEF RecordsFit
<1>2. Periods(setup') = Periods(setup)
  BY <1>1 DEF Periods
<1>3. data'.recorded \subseteq Periods(setup)
  BY DEF RecordsFit, Records, Recordings
<1> QED
  BY <1>1, <1>2, <1>3 DEF RecordsFit

\* Where nothing is kept, every reading is of a day.
LEMMA NothingToRead ==
  ASSUME runs' = <<>>, readings' = <<>>, RecordsFit'
  PROVE  DaysInv'
<1>1. DOMAIN runs' = {} /\ DOMAIN readings' = {}
  OBVIOUS
<1> QED
  BY <1>1 DEF DaysInv, NothingIsKept, DaysAreSeeded, ReadingsAreOfDays

\* A simulated or a read day.
LEMMA DaysReplicate ==
  ASSUME PlanAssumptions, DaysInv, ReplicateDay
  PROVE  DaysInv'
<1> DEFINE t == NextTask
           replication == Len(ReadingsOf(t)) + 1
           key == <<t[1][1], replication>>
<1>1. PICK run \in (IF key \in DOMAIN runs THEN {runs[key]} ELSE PossibleDays(t[1][1], replication)) :
         /\ runs' = Stored(runs, key, run)
         /\ Note(t, ReadDay(run, t[1], t[2]))
  BY DEF ReplicateDay
<1>2. Continuous /\ FullCoverage /\ OpenTasks # {} /\ UNCHANGED <<setup, data, request>>
  BY DEF ReplicateDay, Continuous
<1>3. t \in OpenTasks
  BY <1>2, NextTaskIsOpen DEF DaysInv
<1>4. (\E p \in data.recorded : p = t[1]) /\ replication \in 1 .. Replications
  <2>1. \E p \in data.recorded : p = t[1]
    BY <1>2, <1>3 DEF OpenTasks, AllTasks, Tasks
  <2>2. Replications \in Nat \ {0}
    BY DEF PlanAssumptions, SearchConstants
  <2>3. ReadingsOf(t) = <<>> \/ (Len(ReadingsOf(t)) < Replications /\ ReadingsOf(t) \in Seq(LaneReadings(t[2])))
    BY <1>3 DEF OpenTasks, ReadingsOf, DaysInv, ReadingsAreOfDays
  <2> QED
    BY <2>1, <2>2, <2>3
<1>5. run.seed = DateSeed(t[1][1], replication) /\ run.conserved \in BOOLEAN
  <2>1. CASE key \in DOMAIN runs
    BY <1>1, <2>1 DEF DaysInv, DaysAreSeeded
  <2>2. CASE key \notin DOMAIN runs
    BY <1>1, <2>2, OutcomeIsSeeded
  <2> QED
    BY <2>1, <2>2
<1>6. /\ DOMAIN runs' = DOMAIN runs \cup {key} /\ runs'[key] = run
      /\ \A k \in DOMAIN runs : runs'[k] = runs[k]
  BY <1>1 DEF Stored
<1>7. ReadDay(run, t[1], t[2]) \in LaneReadings(t[2])
  BY <1>5, ReadingOfDay
<1>8. /\ DOMAIN readings' = DOMAIN readings \cup {t}
      /\ \A u \in DOMAIN readings \ {t} : readings'[u] = readings[u]
      /\ ReadingsOf(t) \in Seq(LaneReadings(t[2]))
      /\ readings'[t] = Append(ReadingsOf(t), ReadDay(run, t[1], t[2]))
      /\ readings'[t] \in Seq(LaneReadings(t[2]))
  BY <1>1, <1>7, NoteAppends DEF DaysInv
<1>9. RecordsFit' /\ NothingIsKept'
  <2>1. request # NoRequest
    BY <1>2 DEF ReplicateDay, Judging, NoRequest
  <2> QED
    BY <1>2, <2>1 DEF RecordsFit, NothingIsKept, DaysInv, Periods
<1>10. DaysAreSeeded'
  BY <1>2, <1>4, <1>5, <1>6 DEF DaysAreSeeded, DaysInv
<1>11. ReadingsAreOfDays'
  <2> SUFFICES ASSUME NEW u \in DOMAIN readings'
               PROVE  /\ readings'[u] \in Seq(LaneReadings(u[2]))
                      /\ \A i \in DOMAIN readings'[u] :
                           /\ <<u[1][1], i>> \in DOMAIN runs'
                           /\ readings'[u][i] = ReadDay(runs'[<<u[1][1], i>>], u[1], u[2])
    BY DEF ReadingsAreOfDays
  <2>1. CASE u # t
    BY <1>2, <1>6, <1>8, <2>1 DEF ReadingsAreOfDays, DaysInv
  <2>2. CASE u = t
    <3> DEFINE before == ReadingsOf(t)
               last == ReadDay(run, t[1], t[2])
    <3>1. before \in Seq(LaneReadings(t[2])) /\ last \in LaneReadings(t[2]) /\ readings'[u] = Append(before, last)
      BY <1>7, <1>8, <2>2
    <3>2. \A i \in DOMAIN before :
             /\ <<t[1][1], i>> \in DOMAIN runs
             /\ before[i] = ReadDay(runs[<<t[1][1], i>>], t[1], t[2])
      <4>1. CASE t \in DOMAIN readings
        BY <1>2, <4>1 DEF ReadingsOf, ReadingsAreOfDays, DaysInv
      <4>2. CASE t \notin DOMAIN readings
        BY <4>2 DEF ReadingsOf
      <4> QED
        BY <4>1, <4>2
    <3>3. replication = Len(before) + 1
      OBVIOUS
    <3>4. PICK r : r = replication
      OBVIOUS
    <3>5. key = <<t[1][1], r>>
      BY <3>4
    <3> HIDE DEF before, last, replication, key
    <3>6. /\ DOMAIN readings'[u] = 1 .. Len(before) + 1
          /\ DOMAIN before = 1 .. Len(before) /\ Len(before) \in Nat
          /\ \A i \in 1 .. Len(before) : readings'[u][i] = before[i]
          /\ readings'[u][r] = last
      BY <3>1, <3>3, <3>4, AppendProperties
    <3>7. ASSUME NEW i \in DOMAIN readings'[u]
          PROVE  /\ <<t[1][1], i>> \in DOMAIN runs'
                 /\ readings'[u][i] = ReadDay(runs'[<<t[1][1], i>>], t[1], t[2])
      <4>1. CASE i \in DOMAIN before
        BY <1>6, <3>2, <3>6, <4>1
      <4>2. CASE i \notin DOMAIN before
        <5>1. i = r
          BY <3>3, <3>4, <3>6, <4>2
        <5> QED
          BY <1>6, <3>5, <3>6, <5>1 DEF last
      <4> QED
        BY <4>1, <4>2
    <3> QED
      BY <2>2, <3>1, <3>7, <1>8
  <2> QED
    BY <2>1, <2>2
<1> QED
  BY <1>9, <1>10, <1>11 DEF DaysInv

\* A period simulated by itself.
LEMMA PeriodsReplicate ==
  ASSUME DaysInv, ReplicatePeriod
  PROVE  DaysInv'
<1> DEFINE t == NextTask
<1>1. ~Continuous /\ UNCHANGED <<setup, data, request, runs>> /\ Judging
  BY DEF ReplicatePeriod
<1>2. PICK reading \in LaneReadings(t[2]) : Note(t, reading)
  <2>1. ASSUME NEW busy \in SUBSET t[2], NEW conserved \in BOOLEAN
        PROVE  Measured(t[2], busy, conserved) \in LaneReadings(t[2])
    BY DEF LaneReadings
  <2>2. \/ \E busy \in UNION {kSubset(k, t[2]) : k \in 0 .. MaxBusy} : Note(t, Measured(t[2], busy, TRUE))
        \/ Note(t, Measured(t[2], {}, FALSE))
    BY DEF ReplicatePeriod
  <2>3. \A busy \in UNION {kSubset(k, t[2]) : k \in 0 .. MaxBusy} : busy \in SUBSET t[2]
    BY DEF kSubset
  <2> QED
    BY <2>1, <2>2, <2>3
<1>3. /\ DOMAIN readings' = DOMAIN readings \cup {t}
      /\ \A u \in DOMAIN readings \ {t} : readings'[u] = readings[u]
      /\ readings'[t] \in Seq(LaneReadings(t[2]))
  BY <1>2, NoteAppends DEF DaysInv
<1>4. ~Continuous'
  BY <1>1 DEF Continuous, FullCoverage
<1>5. RecordsFit' /\ NothingIsKept' /\ DaysAreSeeded'
  <2>1. request # NoRequest
    BY <1>1 DEF Judging, NoRequest
  <2> QED
    BY <1>1, <2>1 DEF RecordsFit, NothingIsKept, DaysAreSeeded, DaysInv, Periods
<1>6. ReadingsAreOfDays'
  <2> SUFFICES ASSUME NEW u \in DOMAIN readings'
               PROVE  readings'[u] \in Seq(LaneReadings(u[2]))
    BY <1>4 DEF ReadingsAreOfDays
  <2> QED
    BY <1>3 DEF ReadingsAreOfDays, DaysInv
<1> QED
  BY <1>5, <1>6 DEF DaysInv

\* A step that keeps the request, its days and its readings, or that starts a request.
LEMMA DaysAreKept ==
  ASSUME DaysInv, UNCHANGED <<setup, data, runs, readings>>,
         request' = request \/ (request = NoRequest /\ request' # NoRequest)
  PROVE  DaysInv'
<1>1. RecordsFit'
  BY DEF RecordsFit, DaysInv, Periods
<1>2. CASE request' = request
  BY <1>1, <1>2 DEF DaysInv, NothingIsKept, DaysAreSeeded, ReadingsAreOfDays, Continuous, FullCoverage
<1>3. CASE request = NoRequest /\ request' # NoRequest
  BY <1>1, <1>3, NothingToRead DEF DaysInv, NothingIsKept
<1> QED
  BY <1>2, <1>3

\* Every step keeps what is known of days and readings.
LEMMA DaysStep ==
  ASSUME PlanAssumptions, DaysInv, [PlanningNext]_planningVars
  PROVE  DaysInv'
<1>0. RecordsFit
  BY DEF DaysInv
<1>1. ASSUME NEW kind \in {"breaks", "supervisor", "optimize", "search"}, NEW move, Ask(kind, move)
      PROVE  DaysInv'
  <2>1. request = NoRequest /\ request' # NoRequest /\ UNCHANGED <<setup, data, runs, readings>>
    BY <1>1 DEF Ask, NoRequest
  <2> QED
    BY <2>1, DaysAreKept
<1>2. ASSUME PlacePass \/ Judge
      PROVE  DaysInv'
  BY <1>2, DaysAreKept DEF PlacePass, Judge
<1>3. ASSUME ApplyBreaks \/ ApplySupervised \/ RefusePlacing \/ Show
      PROVE  DaysInv'
  <2>1. runs' = <<>> /\ readings' = <<>> /\ data' = data
    BY <1>3 DEF ApplyBreaks, ApplySupervised, RefusePlacing, Show, EndRequest
  <2>2. setup' = setup \/ setup' = Draft
    BY <1>3 DEF ApplyBreaks, ApplySupervised, RefusePlacing, Show, WriteDraft
  <2>3. PICK b : setup' = [layout |-> setup.layout, staffing |-> setup.staffing, breaks |-> b]
    BY <1>0, <2>2 DEF Draft, RecordsFit
  <2> QED
    BY <1>0, <2>1, <2>3, FitIsKept, NothingToRead
<1>4. CASE ReplicateDay
  BY <1>4, DaysReplicate
<1>5. CASE ReplicatePeriod
  BY <1>5, PeriodsReplicate
<1>6. ASSUME NEW i, NEW start, TypeStart(i, start)
      PROVE  DaysInv'
  <2>1. runs' = <<>> /\ readings' = <<>> /\ data' = data
    BY <1>6 DEF TypeStart, DaysInv, NothingIsKept
  <2>2. PICK b : setup' = [layout |-> setup.layout, staffing |-> setup.staffing, breaks |-> b]
    <3>1. setup' = [setup EXCEPT !.breaks[i].start = start, !.breaks[i].original = NoTime]
      BY <1>6 DEF TypeStart
    <3>2. setup = [layout |-> setup.layout, staffing |-> setup.staffing, breaks |-> setup.breaks]
      BY <1>0 DEF RecordsFit
    <3> QED
      BY <3>1, <3>2
  <2> QED
    BY <1>0, <2>1, <2>2, FitIsKept, NothingToRead
<1>7. CASE Upload
  <2>1. runs' = <<>> /\ readings' = <<>> /\ data' \in Records(setup) /\ setup' = setup
    BY <1>7 DEF Upload, DaysInv, NothingIsKept
  <2>2. PICK b : setup' = [layout |-> setup.layout, staffing |-> setup.staffing, breaks |-> b]
    BY <1>0, <2>1 DEF RecordsFit
  <2> QED
    BY <1>0, <2>1, <2>2, FitIsKept, NothingToRead
<1>8. CASE UNCHANGED planningVars
  BY <1>8, DaysAreKept DEF planningVars
<1> QED
  BY <1>1, <1>2, <1>3, <1>4, <1>5, <1>6, <1>7, <1>8 DEF PlanningNext

\* Readings of a day, and days that differ.
LEMMA DaysAreOne ==
  ASSUME PlanAssumptions, DaysInv
  PROVE  OneDayPerSeed
<1>1. ASSUME NEW k \in DOMAIN runs, NEW l \in DOMAIN runs, runs[k].seed = runs[l].seed
      PROVE  k = l
  <2>1. PICK S : /\ S = {p[1] : p \in data.recorded} /\ (S \subseteq Dates \/ S \subseteq {0})
    <3>1. \A p \in Periods(setup) : p[1] \in IF setup.layout = "dated" THEN Dates ELSE {0}
      BY DEF Periods
    <3> QED
      BY <3>1 DEF DaysInv, RecordsFit
  <2>2. k[1] \in S /\ l[1] \in S /\ DateSeed(k[1], k[2]) = DateSeed(l[1], l[2])
        /\ k[2] \in 1 .. Replications /\ l[2] \in 1 .. Replications /\ k = <<k[1], k[2]>> /\ l = <<l[1], l[2]>>
    BY <1>1, <2>1 DEF DaysInv, DaysAreSeeded
  <2>3. k[1] = l[1] /\ k[2] = l[2]
    BY <2>1, <2>2, SeedsDiffer
  <2> QED
    BY <2>2, <2>3
<1> QED
  BY <1>1 DEF OneDayPerSeed, DaysInv, ReadingsAreOfDays

\* However requests for a plan follow each other, all periods of a date read one replication from one day,
\* and no two days of a request share a seed (_day_candidate_runner, date_seed).
THEOREM DaysShareNoSeed ==
  PlanningSpec => []OneDayPerSeed
<1>0. PlanAssumptions
  BY PlacementAssumption, SearchAssumption, PlanningAssumption DEF PlanAssumptions
<1>1. PlanningInit => DaysInv
  BY <1>0, DaysInit
<1>2. DaysInv /\ [PlanningNext]_planningVars => DaysInv'
  BY <1>0, DaysStep
<1>3. DaysInv => OneDayPerSeed
  BY <1>0, DaysAreOne
<1> QED
  BY <1>1, <1>2, <1>3, PTL DEF PlanningSpec

(* A complete search *)

\* What the fold of SumFunction says of its function h on the sets in dom.
SumsUp(h, f, dom) ==
  h = [s \in dom |-> IF s = {} THEN 0 ELSE f[CHOOSE x \in s : TRUE] + h[s \ {CHOOSE x \in s : TRUE}]]

\* The sets of at most n members of S.
Few(S, n) == {s \in SUBSET S : Cardinality(s) <= n}

\* Taking one away makes fewer.
LEMMA OneFewer ==
  ASSUME NEW S, IsFiniteSet(S), NEW s \in SUBSET S, NEW x \in s
  PROVE  /\ s \ {x} \in SUBSET S /\ IsFiniteSet(s)
         /\ Cardinality(s \ {x}) = Cardinality(s) - 1
         /\ Cardinality(s) \in Nat \ {0}
<1>1. IsFiniteSet(s)
  BY FS_Subset
<1>2. Cardinality(s \ {x}) = Cardinality(s) - 1
  BY <1>1, FS_RemoveElement
<1>3. Cardinality(s) \in Nat /\ Cardinality(s) # 0
  BY <1>1, FS_CardinalityType, FS_EmptySet
<1> QED
  BY <1>1, <1>2, <1>3

\* Every subset is among those of as many members as the whole.
LEMMA AllAreFew ==
  ASSUME NEW S, IsFiniteSet(S)
  PROVE  Cardinality(S) \in Nat /\ Few(S, Cardinality(S)) = SUBSET S
BY FS_CardinalityType, FS_Subset DEF Few

\* There is such a function.
LEMMA SumExists ==
  ASSUME NEW f, IsFiniteSet(DOMAIN f)
  PROVE  \E h : SumsUp(h, f, SUBSET DOMAIN f)
<1>0. PICK S : S = DOMAIN f
  OBVIOUS
<1> DEFINE Bad == {n \in Nat : ~\E h : SumsUp(h, f, Few(S, n))}
<1>1. Bad = {}
  <2> SUFFICES ASSUME Bad # {} PROVE FALSE
    OBVIOUS
  <2>1. PICK m \in Bad : \A k \in Bad : m <= k
    BY LeastNumber
  <2>2. m \in Nat /\ ~\E h : SumsUp(h, f, Few(S, m))
    OBVIOUS
  <2>3. CASE m = 0
    <3>1. \A s \in Few(S, 0) : s = {}
      BY <1>0, FS_Subset, FS_CardinalityType, FS_EmptySet DEF Few
    <3> DEFINE h == [s \in Few(S, 0) |-> 0]
    <3>2. h = [s \in Few(S, 0) |-> IF s = {} THEN 0 ELSE f[CHOOSE x \in s : TRUE] + h[s \ {CHOOSE x \in s : TRUE}]]
      BY <3>1
    <3>3. SumsUp(h, f, Few(S, 0))
      BY <3>2 DEF SumsUp
    <3> QED
      BY <2>2, <2>3, <3>3
  <2>4. CASE m # 0
    <3>1. m - 1 \in Nat /\ m - 1 \notin Bad
      BY <2>1, <2>2, <2>4
    <3>2. PICK g : SumsUp(g, f, Few(S, m - 1))
      BY <3>1
    <3> DEFINE Pick(s) == CHOOSE x \in s : TRUE
               Stepped(s, a) == IF s = {} THEN 0 ELSE f[Pick(s)] + a[s \ {Pick(s)}]
               h == [s \in Few(S, m) |-> Stepped(s, g)]
    <3>3. \A s \in Few(S, m - 1) : g[s] = Stepped(s, g)
      BY <3>2 DEF SumsUp
    <3>4. \A s \in Few(S, m - 1) : s \in Few(S, m) /\ h[s] = g[s]
      <4>1. ASSUME NEW s \in Few(S, m - 1) PROVE s \in Few(S, m)
        BY <1>0, <3>1, <2>2, FS_Subset, FS_CardinalityType DEF Few
      <4> HIDE DEF Stepped
      <4> QED
        BY <4>1, <3>3
    <3>5. ASSUME NEW s \in Few(S, m), s # {} PROVE s \ {Pick(s)} \in Few(S, m - 1)
      <4>0. PICK x : x = Pick(s)
        OBVIOUS
      <4>1. s \in SUBSET S /\ Cardinality(s) <= m
        BY DEF Few
      <4>2. x \in s
        BY <3>5, <4>0
      <4>3. s \ {x} \in SUBSET S /\ Cardinality(s \ {x}) = Cardinality(s) - 1 /\ Cardinality(s) \in Nat \ {0}
        BY <1>0, <4>1, <4>2, OneFewer
      <4>4. Cardinality(s \ {x}) <= m - 1
        BY <4>1, <4>3, <2>2
      <4>5. s \ {x} \in Few(S, m - 1)
        BY <4>3, <4>4 DEF Few
      <4> HIDE DEF Pick
      <4> QED
        BY <4>0, <4>5
    <3>6. ASSUME NEW s \in Few(S, m) PROVE h[s] = Stepped(s, h)
      <4>1. h[s] = Stepped(s, g)
        OBVIOUS
      <4>2. s # {} => h[s \ {Pick(s)}] = g[s \ {Pick(s)}]
        BY <3>4, <3>5
      <4> HIDE DEF h, Pick
      <4> QED
        BY <4>1, <4>2
    <3>7. SumsUp(h, f, Few(S, m))
      <4>1. h = [s \in Few(S, m) |-> h[s]]
        OBVIOUS
      <4>2. h = [s \in Few(S, m) |-> Stepped(s, h)]
        <5> HIDE DEF h, Stepped
        <5> QED
          BY <4>1, <3>6, Zenon
      <4> HIDE DEF h
      <4> QED
        BY <4>2 DEF SumsUp
    <3> QED
      BY <2>2, <3>7
  <2> QED
    BY <2>3, <2>4
<1>2. Few(S, Cardinality(S)) = SUBSET S /\ Cardinality(S) \in Nat
  BY <1>0, AllAreFew
<1>3. \A n \in Nat : \E h : SumsUp(h, f, Few(S, n))
  BY <1>1
<1> HIDE DEF Bad
<1> QED
  BY <1>0, <1>2, <1>3

\* A sum of natural numbers is one.
LEMMA SumIsNatural ==
  ASSUME NEW f, IsFiniteSet(DOMAIN f), \A x \in DOMAIN f : f[x] \in Nat
  PROVE  SumFunction(f) \in Nat
<1>0. PICK S : S = DOMAIN f /\ IsFiniteSet(S) /\ \A x \in S : f[x] \in Nat
  OBVIOUS
<1> DEFINE H == CHOOSE h : SumsUp(h, f, SUBSET DOMAIN f)
<1>1. SumsUp(H, f, SUBSET DOMAIN f)
  BY SumExists
<1>2. SumFunction(f) = H[DOMAIN f]
  BY DEF SumFunction, SumFunctionOnSet, FoldFunctionOnSet, MapThenFoldSet, SumsUp
<1> HIDE DEF H
<1>3. PICK h : SumsUp(h, f, SUBSET S) /\ SumFunction(f) = h[S]
  BY <1>0, <1>1, <1>2
<1> DEFINE Bad == {n \in Nat : \E s \in Few(S, n) : h[s] \notin Nat}
<1>4. Bad = {}
  <2> SUFFICES ASSUME Bad # {} PROVE FALSE
    OBVIOUS
  <2>1. PICK m \in Bad : \A k \in Bad : m <= k
    BY LeastNumber
  <2>2. PICK s \in Few(S, m) : h[s] \notin Nat
    OBVIOUS
  <2>3. s \in SUBSET S /\ Cardinality(s) <= m /\ m \in Nat
    BY DEF Few
  <2>4. h[s] = IF s = {} THEN 0 ELSE f[CHOOSE x \in s : TRUE] + h[s \ {CHOOSE x \in s : TRUE}]
    <3>1. h = [z \in SUBSET S |-> IF z = {} THEN 0 ELSE f[CHOOSE x \in z : TRUE] + h[z \ {CHOOSE x \in z : TRUE}]]
      BY <1>3 DEF SumsUp
    <3> QED
      BY <2>3, <3>1, Zenon
  <2>5. s # {}
    BY <2>2, <2>4
  <2>6. PICK x \in s : h[s] = f[x] + h[s \ {x}]
    BY <2>4, <2>5
  <2>7. s \ {x} \in SUBSET S /\ Cardinality(s \ {x}) = Cardinality(s) - 1 /\ Cardinality(s) \in Nat \ {0}
    BY <1>0, <2>3, OneFewer
  <2>8. m - 1 \in Nat /\ s \ {x} \in Few(S, m - 1)
    BY <2>3, <2>7 DEF Few
  <2>9. m - 1 \notin Bad
    BY <2>1, <2>3
  <2>10. h[s \ {x}] \in Nat /\ f[x] \in Nat
    BY <1>0, <2>3, <2>8, <2>9
  <2> QED
    BY <2>2, <2>6, <2>10
<1>5. Cardinality(S) \in Nat /\ S \in Few(S, Cardinality(S))
  BY <1>0, AllAreFew
<1> QED
  BY <1>3, <1>4, <1>5

\* What a reading may cost.
LEMMA CostIsNatural ==
  ASSUME PlanAssumptions, NEW active, IsFiniteSet(active), NEW reading \in LaneReadings(active)
  PROVE  reading.cost \in Nat
<1>1. ServerCost \in Nat /\ WaitCost \in Nat
  BY DEF PlanAssumptions, SearchConstants
<1>2. CASE reading = Refused(active, "INVALID_INPUT")
  BY <1>2 DEF Refused
<1>3. ASSUME NEW busy \in SUBSET active, NEW conserved \in BOOLEAN, reading = Measured(active, busy, conserved)
      PROVE  reading.cost \in Nat
  <2>1. IsFiniteSet(busy \cap active)
    BY FS_Subset
  <2>2. Cardinality(active) \in Nat /\ Cardinality(busy \cap active) \in Nat
    BY <2>1, FS_CardinalityType
  <2>3. PICK m \in Nat, n \in Nat : reading.cost = ServerCost * m + WaitCost * n
    BY <1>3, <2>2 DEF Measured
  <2>4. ServerCost * m \in Nat /\ WaitCost * n \in Nat
    BY <1>1
  <2> QED
    BY <2>3, <2>4
<1> QED
  BY <1>2, <1>3 DEF LaneReadings

\* What a decided verdict says of the readings.
LEMMA VerdictSays ==
  ASSUME NEW active, NEW seq \in Seq(LaneReadings(active)), Verdict(seq, active) \in {"FEASIBLE", "INFEASIBLE"}
  PROVE  /\ \A i \in DOMAIN seq : seq[i].status = "measured" /\ seq[i].conserved
         /\ Verdict(seq, active) = "FEASIBLE" <=> WithinTarget(seq, active)
<1>1. \A r \in LaneReadings(active) : r.status \in {"measured", "INVALID_INPUT"} /\ r.conserved \in BOOLEAN
  <2>1. ASSUME NEW busy, NEW conserved \in BOOLEAN
        PROVE  Measured(active, busy, conserved).status = "measured" /\ Measured(active, busy, conserved).conserved \in BOOLEAN
    BY DEF Measured
  <2>2. Refused(active, "INVALID_INPUT").status = "INVALID_INPUT" /\ Refused(active, "INVALID_INPUT").conserved \in BOOLEAN
    BY DEF Refused
  <2> QED
    BY <2>1, <2>2 DEF LaneReadings
<1>2. \A i \in DOMAIN seq : seq[i] \in LaneReadings(active)
  OBVIOUS
<1>3. ~\E i \in DOMAIN seq : seq[i].status = "INVALID_INPUT"
  BY DEF Verdict
<1>4. ~\E i \in DOMAIN seq : seq[i].status = "UNSUPPORTED"
  BY <1>1, <1>2
<1>5. Verdict(seq, active) = IF \E i \in DOMAIN seq : ~seq[i].conserved THEN "AGGREGATION_ERROR"
                             ELSE IF WithinTarget(seq, active) THEN "FEASIBLE" ELSE "INFEASIBLE"
  BY <1>3, <1>4 DEF Verdict
<1> QED
  BY <1>1, <1>2, <1>3, <1>5

\* What the search of a period says of its entries, when every one could be judged.
LEMMA SearchSays ==
  ASSUME NEW entries, \A e \in entries : e.cost \in Nat /\ e.lanes \in Nat,
         \A e \in entries : e.status \in {"FEASIBLE", "INFEASIBLE"}
  PROVE  IF \E e \in entries : e.status = "FEASIBLE"
         THEN /\ Simulated(entries).overall = "OPTIMAL"
              /\ \E e \in entries :
                   /\ e.status = "FEASIBLE"
                   /\ Simulated(entries).optimum.lanes = e.lanes /\ Simulated(entries).optimum.cost = e.cost
                   /\ \A f \in entries : f.status = "FEASIBLE" => e.cost < f.cost \/ (e.cost = f.cost /\ e.lanes <= f.lanes)
         ELSE Simulated(entries).overall = "INFEASIBLE"
<1>1. CASE ~\E e \in entries : e.status = "FEASIBLE"
  BY <1>1 DEF Simulated
<1>2. CASE \E e \in entries : e.status = "FEASIBLE"
  <2> DEFINE F == {e \in entries : e.status = "FEASIBLE"}
             costs == {e.cost : e \in F}
  <2>1. PICK c \in costs : \A k \in costs : c <= k
    <3>1. costs \subseteq Nat /\ costs # {}
      BY <1>2
    <3> QED
      BY <3>1, LeastNumber
  <2> DEFINE lanes == {e.lanes : e \in {f \in F : f.cost = c}}
  <2>2. PICK l \in lanes : \A k \in lanes : l <= k
    <3>1. lanes \subseteq Nat /\ lanes # {}
      BY <2>1
    <3> QED
      BY <3>1, LeastNumber
  <2>3. PICK e \in F : e.cost = c /\ e.lanes = l
    BY <2>2
  <2>4. \A f \in F : e.cost < f.cost \/ (e.cost = f.cost /\ e.lanes <= f.lanes)
    <3> SUFFICES ASSUME NEW f \in F PROVE e.cost < f.cost \/ (e.cost = f.cost /\ e.lanes <= f.lanes)
      OBVIOUS
    <3>1. f.cost \in Nat /\ c \in Nat /\ c <= f.cost
      BY <2>1, <2>3
    <3>2. f.cost = c => l <= f.lanes
      BY <2>2
    <3> QED
      BY <2>3, <3>1, <3>2
  <2>5. PICK b : b = Cheapest(entries)
    OBVIOUS
  <2>6. b \in F /\ \A f \in F : b.cost < f.cost \/ (b.cost = f.cost /\ b.lanes <= f.lanes)
    BY <2>3, <2>4, <2>5 DEF Cheapest
  <2>7. Simulated(entries) = [overall |-> "OPTIMAL", optimum |-> [lanes |-> b.lanes, cost |-> b.cost]]
    BY <1>2, <2>5 DEF Simulated, Optimum
  <2> QED
    BY <1>2, <2>6, <2>7
<1> QED
  BY <1>1, <1>2

\* What the periods say together, when every one could be judged.
LEMMA RollUpSays ==
  ASSUME NEW periods, RollUp(periods) \in {"COMPLETE", "INFEASIBLE"},
         \A p \in DOMAIN periods : periods[p].overall \in {"OPTIMAL", "INFEASIBLE", "INVALID_INPUT", "UNSUPPORTED"}
  PROVE  /\ \A p \in DOMAIN periods : periods[p].overall \in {"OPTIMAL", "INFEASIBLE"}
         /\ RollUp(periods) = "COMPLETE" <=> \A p \in DOMAIN periods : periods[p].overall = "OPTIMAL"
<1>1. ~\E p \in DOMAIN periods : periods[p].overall = "INVALID_INPUT"
  BY DEF RollUp
<1>2. ~\E p \in DOMAIN periods : periods[p].overall = "UNSUPPORTED"
  BY <1>1 DEF RollUp
<1>3. RollUp(periods) = IF \E p \in DOMAIN periods : periods[p].overall = "INFEASIBLE" THEN "INFEASIBLE" ELSE "COMPLETE"
  BY <1>1, <1>2 DEF RollUp
<1> QED
  BY <1>1, <1>2, <1>3

\* The lanes are of the cashiers, and every lane is open to a search.
LanesAreKnown ==
  /\ \A s \in Segments : setup.staffing[s] \subseteq Cashiers
  /\ request.kind = "search" => setup.layout = "plain"

\* No task is read more often than it is replicated.
ReadingsAreFew == \A t \in DOMAIN readings : Len(readings[t]) <= Replications

\* A decided answer is the judgement of a finished search.
AnswerIsJudged ==
  /\ request = NoRequest => answer = NoAnswer
  /\ answer.overall \in {"COMPLETE", "INFEASIBLE"} /\ data.evidence = "samples" =>
       /\ OpenTasks = {}
       /\ answer.periods = [p \in data.recorded |-> BySimulation(p)]
       /\ answer.overall = RollUp(answer.periods)

SearchInv == DaysInv /\ LanesAreKnown /\ ReadingsAreFew /\ AnswerIsJudged

\* The tasks of a request: a recorded period and some of its lanes.
LEMMA TasksAreLanes ==
  ASSUME PlanAssumptions, RecordsFit, LanesAreKnown, NEW t \in AllTasks
  PROVE  /\ t[1] \in data.recorded /\ t = <<t[1], t[2]>>
         /\ t[2] \subseteq Cashiers /\ IsFiniteSet(t[2]) /\ Cardinality(t[2]) \in Nat
<1>1. PICK p \in data.recorded : \E active \in Candidates(request.kind, setup, p) : t = <<p, active>>
  BY DEF AllTasks, Tasks
<1>2. PICK active \in Candidates(request.kind, setup, p) : t = <<p, active>>
  BY <1>1
<1>3. p[2] \in Segments
  <2>1. Segments \subseteq Nat /\ Segments # {}
    BY DEF PlanAssumptions, PlacementConstants
  <2>2. Min(Segments) \in Segments
    BY <2>1, MinIsLeast
  <2> QED
    BY <2>2 DEF RecordsFit, Periods
<1>4. active \subseteq setup.staffing[p[2]]
  BY DEF Candidates
<1>5. active \subseteq Cashiers /\ IsFiniteSet(Cashiers)
  BY <1>3, <1>4 DEF LanesAreKnown, PlanAssumptions, PlacementConstants
<1>6. IsFiniteSet(active) /\ Cardinality(active) \in Nat
  BY <1>5, FS_Subset, FS_CardinalityType
<1> QED
  BY <1>2, <1>5, <1>6

\* NextTask picks an open task of a search: the candidates of its only period differ in their number of lanes.
LEMMA NextSearchIsOpen ==
  ASSUME PlanAssumptions, RecordsFit, LanesAreKnown, request.kind = "search", OpenTasks # {}
  PROVE  NextTask \in OpenTasks
<1>1. PICK m : m = Min(Segments)
  OBVIOUS
<1>2. \A t \in OpenTasks : t \in AllTasks
  BY DEF OpenTasks
<1>3. \A t \in OpenTasks : /\ t[1] = <<0, m>> /\ t = <<t[1], t[2]>>
                           /\ t[2] \subseteq Cashiers /\ IsFiniteSet(t[2]) /\ Cardinality(t[2]) \in Nat
  <2>1. data.recorded \subseteq {<<0, m>>}
    BY <1>1 DEF RecordsFit, LanesAreKnown, Periods
  <2> QED
    BY <1>2, <2>1, TasksAreLanes
<1>4. \A t, u \in OpenTasks : t[2] \subseteq u[2] \/ u[2] \subseteq t[2]
  <2>1. \A t \in OpenTasks : \E k \in setup.staffing[m] : t[2] = {c \in setup.staffing[m] : c <= k}
    <3> SUFFICES ASSUME NEW t \in OpenTasks PROVE \E k \in setup.staffing[m] : t[2] = {c \in setup.staffing[m] : c <= k}
      OBVIOUS
    <3>1. PICK p \in data.recorded : \E active \in Candidates(request.kind, setup, p) : t = <<p, active>>
      BY <1>2 DEF AllTasks, Tasks
    <3>2. t[1] = p /\ p[2] = m /\ t[2] \in Candidates(request.kind, setup, p)
      BY <1>3, <3>1
    <3> QED
      BY <3>2 DEF Candidates
  <2>2. \A k \in setup.staffing[m] : k \in Nat
    <3>1. Segments \subseteq Nat /\ Segments # {} /\ \A c \in Cashiers : c \in Nat
      BY DEF PlanAssumptions, PlacementConstants
    <3>2. m \in Segments
      BY <1>1, <3>1, MinIsLeast
    <3> QED
      BY <3>1, <3>2 DEF LanesAreKnown
  <2> SUFFICES ASSUME NEW t \in OpenTasks, NEW u \in OpenTasks PROVE t[2] \subseteq u[2] \/ u[2] \subseteq t[2]
    OBVIOUS
  <2>3. PICK k \in setup.staffing[m] : t[2] = {c \in setup.staffing[m] : c <= k}
    BY <2>1
  <2>4. PICK l \in setup.staffing[m] : u[2] = {c \in setup.staffing[m] : c <= l}
    BY <2>1
  <2>5. k \in Nat /\ l \in Nat
    BY <2>2
  <2>6. CASE k <= l
    BY <2>2, <2>3, <2>4, <2>5, <2>6
  <2>7. CASE l <= k
    BY <2>2, <2>3, <2>4, <2>5, <2>7
  <2> QED
    BY <2>5, <2>6, <2>7
<1>5. PICK t \in OpenTasks : \A u \in OpenTasks : Cardinality(t[2]) <= Cardinality(u[2])
  <2> DEFINE S == {Cardinality(u[2]) : u \in OpenTasks}
  <2>1. S \subseteq Nat /\ S # {}
    BY <1>3
  <2>2. PICK n \in S : \A k \in S : n <= k
    BY <2>1, LeastNumber
  <2> QED
    BY <2>2
<1>6. \A u \in OpenTasks \ {t} : Lexicographic(Key(t), Key(u))
  <2> SUFFICES ASSUME NEW u \in OpenTasks \ {t}
               PROVE  Lexicographic(Key(t), Key(u))
    OBVIOUS
  <2>1. t[2] # u[2]
    BY <1>3
  <2>2. Cardinality(t[2]) < Cardinality(u[2])
    <3>1. CASE t[2] \subseteq u[2]
      <4>1. Cardinality(t[2]) <= Cardinality(u[2]) /\ (Cardinality(t[2]) = Cardinality(u[2]) => t[2] = u[2])
        BY <1>3, <3>1, FS_Subset
      <4> QED
        BY <1>3, <2>1, <4>1
    <3>2. CASE u[2] \subseteq t[2]
      <4>1. Cardinality(u[2]) <= Cardinality(t[2]) /\ (Cardinality(u[2]) = Cardinality(t[2]) => t[2] = u[2])
        BY <1>3, <3>2, FS_Subset
      <4> QED
        BY <1>3, <1>5, <2>1, <4>1
    <3> QED
      BY <1>4, <3>1, <3>2
  <2> DEFINE p == Key(t)
             q == Key(u)
  <2>3. /\ DOMAIN p = 1 .. 3 /\ p[1] = 0 /\ p[2] = m /\ p[3] = Cardinality(t[2])
        /\ q[1] = 0 /\ q[2] = m /\ q[3] = Cardinality(u[2])
    BY <1>3 DEF Key
  <2> HIDE DEF p, q
  <2>4. p[3] < q[3] /\ 3 \in DOMAIN p /\ \A j \in 1 .. 3 - 1 : p[j] = q[j]
    BY <2>2, <2>3
  <2>5. Lexicographic(p, q)
    BY <2>4 DEF Lexicographic
  <2> QED
    BY <2>5 DEF p, q
<1> QED
  BY <1>6 DEF NextTask

\* One more reading of an open task is not one too many.
LEMMA ReadingsStayFew ==
  ASSUME PlanAssumptions, SearchInv, OpenTasks # {}, NEW reading \in LaneReadings(NextTask[2]),
         Note(NextTask, reading)
  PROVE  ReadingsAreFew'
<1>1. PICK t : t = NextTask
  OBVIOUS
<1>2. t \in OpenTasks
  BY <1>1, NextTaskIsOpen, NextSearchIsOpen DEF FullCoverage, SearchInv, DaysInv
<1>3. /\ DOMAIN readings' = DOMAIN readings \cup {t}
      /\ \A u \in DOMAIN readings \ {t} : readings'[u] = readings[u]
      /\ ReadingsOf(t) \in Seq(LaneReadings(t[2]))
      /\ readings'[t] = Append(ReadingsOf(t), reading)
  BY <1>1, NoteAppends DEF SearchInv, DaysInv
<1>4. Len(readings'[t]) = Len(ReadingsOf(t)) + 1 /\ Len(ReadingsOf(t)) \in Nat
  BY <1>1, <1>3, AppendProperties
<1>5. Len(ReadingsOf(t)) < Replications
  <2>1. Replications \in Nat \ {0}
    BY DEF PlanAssumptions, SearchConstants
  <2> QED
    BY <1>2, <2>1 DEF OpenTasks, ReadingsOf
<1>6. Replications \in Nat
  BY DEF PlanAssumptions, SearchConstants
<1> QED
  BY <1>3, <1>4, <1>5, <1>6 DEF ReadingsAreFew, SearchInv

\* The first state: nothing is answered.
LEMMA SearchInit ==
  ASSUME PlanningInit
  PROVE  SearchInv
<1>1. DaysInv
  BY DaysInit
<1>2. request = NoRequest /\ answer = NoAnswer /\ DOMAIN readings = {}
  BY DEF PlanningInit
<1>3. \A s \in Segments : setup.staffing[s] \subseteq Cashiers
  <2>1. \E w : setup.staffing = Staff(w)
    BY DEF PlanningInit, Setups
  <2> QED
    BY <2>1 DEF Staff
<1> QED
  BY <1>1, <1>2, <1>3 DEF SearchInv, LanesAreKnown, ReadingsAreFew, AnswerIsJudged, NoRequest, NoAnswer

\* Where a request ends, or none was made, there is nothing to prove.
LEMMA NothingToJudge ==
  ASSUME SearchInv, DaysInv', answer' = NoAnswer, readings' = <<>>, request' = NoRequest,
         setup'.staffing = setup.staffing
  PROVE  SearchInv'
<1>1. LanesAreKnown'
  BY DEF SearchInv, LanesAreKnown, NoRequest
<1>2. ReadingsAreFew' /\ AnswerIsJudged'
  BY DEF ReadingsAreFew, AnswerIsJudged, NoAnswer
<1> QED
  BY <1>1, <1>2 DEF SearchInv

\* One more reading.
LEMMA ReadingKeepsSearch ==
  ASSUME PlanAssumptions, SearchInv, DaysInv', ReplicateDay \/ ReplicatePeriod
  PROVE  SearchInv'
<1>1. /\ UNCHANGED <<setup, data, request, answer>> /\ OpenTasks # {} /\ Judging
      /\ data.evidence = "samples"
  BY DEF ReplicateDay, ReplicatePeriod
<1>2. \E reading \in LaneReadings(NextTask[2]) : Note(NextTask, reading)
  <2>1. CASE ReplicateDay
    <3> DEFINE t == NextTask
               replication == Len(ReadingsOf(t)) + 1
               key == <<t[1][1], replication>>
    <3>1. PICK run \in (IF key \in DOMAIN runs THEN {runs[key]} ELSE PossibleDays(t[1][1], replication)) :
             Note(t, ReadDay(run, t[1], t[2]))
      BY <2>1 DEF ReplicateDay
    <3>2. run.conserved \in BOOLEAN
      <4>1. CASE key \in DOMAIN runs
        BY <3>1, <4>1 DEF SearchInv, DaysInv, DaysAreSeeded
      <4>2. CASE key \notin DOMAIN runs
        BY <3>1, <4>2, OutcomeIsSeeded
      <4> QED
        BY <4>1, <4>2
    <3>3. ReadDay(run, t[1], t[2]) \in LaneReadings(t[2])
      BY <3>2, ReadingOfDay
    <3> QED
      BY <3>1, <3>3
  <2>2. CASE ReplicatePeriod
    <3> DEFINE t == NextTask
    <3>1. ASSUME NEW busy \in SUBSET t[2], NEW conserved \in BOOLEAN
          PROVE  Measured(t[2], busy, conserved) \in LaneReadings(t[2])
      BY DEF LaneReadings
    <3>2. \/ \E busy \in UNION {kSubset(k, t[2]) : k \in 0 .. MaxBusy} : Note(t, Measured(t[2], busy, TRUE))
          \/ Note(t, Measured(t[2], {}, FALSE))
      BY <2>2 DEF ReplicatePeriod
    <3>3. \A busy \in UNION {kSubset(k, t[2]) : k \in 0 .. MaxBusy} : busy \in SUBSET t[2]
      BY DEF kSubset
    <3> QED
      BY <3>1, <3>2, <3>3
  <2> QED
    BY <2>1, <2>2
<1>3. ReadingsAreFew'
  BY <1>1, <1>2, ReadingsStayFew
<1>4. LanesAreKnown'
  BY <1>1 DEF SearchInv, LanesAreKnown
<1>5. AnswerIsJudged'
  BY <1>1 DEF SearchInv, AnswerIsJudged
<1> QED
  BY <1>3, <1>4, <1>5 DEF SearchInv

\* The judgement.
LEMMA JudgeKeepsSearch ==
  ASSUME SearchInv, DaysInv', Judge
  PROVE  SearchInv'
<1>1. UNCHANGED <<setup, data, request, readings>> /\ Judging
  BY DEF Judge
<1>2. request # NoRequest
  BY <1>1 DEF Judging, NoRequest
<1>3. LanesAreKnown' /\ ReadingsAreFew'
  BY <1>1 DEF SearchInv, LanesAreKnown, ReadingsAreFew
<1>4. ASSUME answer'.overall \in {"COMPLETE", "INFEASIBLE"}, data.evidence = "samples"
      PROVE  OpenTasks = {} /\ \E periods : periods = [p \in data.recorded |-> BySimulation(p)]
                                            /\ answer' = [overall |-> RollUp(periods), periods |-> periods]
  <2>1. ~CannotLayOut
    BY <1>4 DEF Judge
  <2> QED
    BY <1>4, <2>1 DEF Judge, Answer
<1>5. OpenTasks' = OpenTasks
  BY <1>1 DEF OpenTasks, AllTasks
<1>6. \A p : BySimulation(p)' = BySimulation(p)
  BY <1>1 DEF BySimulation, AllTasks
<1>7. AnswerIsJudged'
  <2> SUFFICES ASSUME answer'.overall \in {"COMPLETE", "INFEASIBLE"}, data.evidence = "samples"
               PROVE  /\ OpenTasks' = {}
                      /\ answer'.periods = [p \in data.recorded |-> BySimulation(p)']
                      /\ answer'.overall = RollUp(answer'.periods)
    BY <1>1, <1>2 DEF AnswerIsJudged
  <2>1. PICK periods : periods = [p \in data.recorded |-> BySimulation(p)]
                       /\ answer' = [overall |-> RollUp(periods), periods |-> periods]
    BY <1>4
  <2>2. answer'.periods = periods /\ answer'.overall = RollUp(periods)
    BY <2>1
  <2> QED
    BY <1>4, <1>5, <1>6, <2>1, <2>2
<1> QED
  BY <1>3, <1>7 DEF SearchInv

\* A step that keeps the request, its readings and the answer, or that starts a request.
LEMMA SearchIsKept ==
  ASSUME SearchInv, DaysInv', UNCHANGED <<setup, data, readings, answer>>,
         request' = request \/ (request = NoRequest /\ request' # NoRequest
                                /\ (request'.kind = "search" => setup.layout = "plain"))
  PROVE  SearchInv'
<1>1. LanesAreKnown' /\ ReadingsAreFew'
  BY DEF SearchInv, LanesAreKnown, ReadingsAreFew
<1>2. CASE request' = request
  <2>1. OpenTasks' = OpenTasks
    BY <1>2 DEF OpenTasks, AllTasks
  <2>2. \A p : BySimulation(p)' = BySimulation(p)
    BY <1>2 DEF BySimulation, AllTasks
  <2>3. AnswerIsJudged'
    BY <1>2, <2>1, <2>2 DEF SearchInv, AnswerIsJudged
  <2> QED
    BY <1>1, <2>3 DEF SearchInv
<1>3. CASE request = NoRequest /\ request' # NoRequest
  <2>1. answer' = NoAnswer
    BY <1>3 DEF SearchInv, AnswerIsJudged
  <2>2. AnswerIsJudged'
    BY <1>3, <2>1 DEF AnswerIsJudged, NoAnswer
  <2> QED
    BY <1>1, <2>2 DEF SearchInv
<1> QED
  BY <1>2, <1>3

\* Every step keeps what is known of the search.
LEMMA SearchStep ==
  ASSUME PlanAssumptions, SearchInv, [PlanningNext]_planningVars
  PROVE  SearchInv'
<1>0. DaysInv' /\ RecordsFit
  BY DaysStep DEF SearchInv, DaysInv
<1>1. ASSUME NEW kind \in {"breaks", "supervisor", "optimize", "search"}, NEW move, Ask(kind, move)
      PROVE  SearchInv'
  <2>1. request = NoRequest /\ request' # NoRequest /\ UNCHANGED <<setup, data, readings, answer>>
        /\ (request'.kind = "search" => setup.layout = "plain")
    BY <1>1 DEF Ask, NoRequest
  <2> QED
    BY <1>0, <2>1, SearchIsKept
<1>2. CASE PlacePass
  BY <1>0, <1>2, SearchIsKept DEF PlacePass
<1>3. CASE Judge
  BY <1>0, <1>3, JudgeKeepsSearch
<1>4. ASSUME ApplyBreaks \/ ApplySupervised \/ RefusePlacing \/ Show
      PROVE  SearchInv'
  <2>1. readings' = <<>> /\ answer' = NoAnswer /\ request' = NoRequest
    BY <1>4 DEF ApplyBreaks, ApplySupervised, RefusePlacing, Show, EndRequest
  <2>2. setup' = setup \/ setup' = Draft
    BY <1>4 DEF ApplyBreaks, ApplySupervised, RefusePlacing, Show, WriteDraft
  <2>3. setup'.staffing = setup.staffing
    BY <1>0, <2>2 DEF Draft, RecordsFit
  <2> QED
    BY <1>0, <2>1, <2>3, NothingToJudge
<1>5. CASE ReplicateDay \/ ReplicatePeriod
  BY <1>0, <1>5, ReadingKeepsSearch
<1>6. ASSUME NEW i, NEW start, TypeStart(i, start)
      PROVE  SearchInv'
  <2>1. readings' = <<>> /\ answer' = NoAnswer /\ request' = NoRequest
    BY <1>6 DEF TypeStart, SearchInv, AnswerIsJudged, DaysInv, NothingIsKept
  <2>2. setup'.staffing = setup.staffing
    <3>1. setup' = [setup EXCEPT !.breaks[i].start = start, !.breaks[i].original = NoTime]
      BY <1>6 DEF TypeStart
    <3>2. setup = [layout |-> setup.layout, staffing |-> setup.staffing, breaks |-> setup.breaks]
      BY <1>0 DEF RecordsFit
    <3> QED
      BY <3>1, <3>2
  <2> QED
    BY <1>0, <2>1, <2>2, NothingToJudge
<1>7. CASE Upload
  <2>1. readings' = <<>> /\ answer' = NoAnswer /\ request' = NoRequest /\ setup' = setup
    BY <1>7 DEF Upload, SearchInv, AnswerIsJudged, DaysInv, NothingIsKept
  <2> QED
    BY <1>0, <2>1, NothingToJudge
<1>8. CASE UNCHANGED planningVars
  BY <1>0, <1>8, SearchIsKept DEF planningVars
<1> QED
  BY <1>1, <1>2, <1>3, <1>4, <1>5, <1>6, <1>7, <1>8 DEF PlanningNext

\* A decided answer says what the readings of the finished search say.
LEMMA AnswersAreProved ==
  ASSUME PlanAssumptions, SearchInv
  PROVE  VerdictsAreProved
<1> SUFFICES ASSUME answer.overall \in {"COMPLETE", "INFEASIBLE"}, data.evidence = "samples"
             PROVE  VerdictsAreProved
  BY DEF VerdictsAreProved
<1>1. /\ OpenTasks = {} /\ answer.overall = RollUp(answer.periods)
      /\ answer.periods = [p \in data.recorded |-> BySimulation(p)]
  BY DEF SearchInv, AnswerIsJudged
<1>2. ASSUME NEW t \in AllTasks
      PROVE  /\ readings[t] \in Seq(LaneReadings(t[2])) /\ Len(readings[t]) = Replications
             /\ DOMAIN readings[t] = 1 .. Replications
             /\ t[1] \in data.recorded /\ IsFiniteSet(t[2]) /\ Cardinality(t[2]) \in Nat
  <2>1. t \in DOMAIN readings /\ ~(Len(readings[t]) < Replications)
    BY <1>1 DEF OpenTasks
  <2>2. readings[t] \in Seq(LaneReadings(t[2])) /\ Len(readings[t]) <= Replications
    BY <2>1 DEF SearchInv, DaysInv, ReadingsAreOfDays, ReadingsAreFew
  <2>3. Len(readings[t]) \in Nat /\ DOMAIN readings[t] = 1 .. Len(readings[t]) /\ Replications \in Nat
    BY <2>2 DEF PlanAssumptions, SearchConstants
  <2>4. Len(readings[t]) = Replications
    <3>1. PICK n : n = Len(readings[t])
      OBVIOUS
    <3>2. n \in Nat /\ Replications \in Nat /\ n <= Replications /\ ~(n < Replications)
      BY <2>1, <2>2, <2>3, <3>1
    <3> QED
      BY <3>1, <3>2
  <2>5. t[1] \in data.recorded /\ IsFiniteSet(t[2]) /\ Cardinality(t[2]) \in Nat
    BY TasksAreLanes DEF SearchInv, DaysInv
  <2> QED
    BY <2>2, <2>3, <2>4, <2>5
<1> DEFINE Judged(p) == {Entry(readings[t], t[2]) : t \in {u \in AllTasks : u[1] = p}}
<1>3. DOMAIN answer.periods = data.recorded /\ \A p \in data.recorded : answer.periods[p] = Simulated(Judged(p))
  BY <1>1 DEF BySimulation
<1>4. \A p \in DOMAIN answer.periods : answer.periods[p].overall \in {"OPTIMAL", "INFEASIBLE", "INVALID_INPUT", "UNSUPPORTED"}
  <2>1. \A entries : Simulated(entries).overall \in {"OPTIMAL", "INFEASIBLE", "INVALID_INPUT", "UNSUPPORTED"}
    BY DEF Simulated
  <2> HIDE DEF Judged
  <2> QED
    BY <1>3, <2>1
<1>5. /\ \A p \in DOMAIN answer.periods : answer.periods[p].overall \in {"OPTIMAL", "INFEASIBLE"}
      /\ answer.overall = "COMPLETE" <=> \A p \in DOMAIN answer.periods : answer.periods[p].overall = "OPTIMAL"
  <2>1. PICK periods : periods = answer.periods
    OBVIOUS
  <2>2. RollUp(periods) \in {"COMPLETE", "INFEASIBLE"}
    BY <1>1, <2>1
  <2>3. \A p \in DOMAIN periods : periods[p].overall \in {"OPTIMAL", "INFEASIBLE", "INVALID_INPUT", "UNSUPPORTED"}
    BY <1>4, <2>1
  <2>4. /\ \A p \in DOMAIN periods : periods[p].overall \in {"OPTIMAL", "INFEASIBLE"}
        /\ RollUp(periods) = "COMPLETE" <=> \A p \in DOMAIN periods : periods[p].overall = "OPTIMAL"
    BY <2>2, <2>3, RollUpSays
  <2> QED
    BY <1>1, <2>1, <2>4
<1>6. ASSUME NEW p \in data.recorded, NEW e \in Judged(p)
      PROVE  e.status \in {"FEASIBLE", "INFEASIBLE"}
  <2>1. \A entries : (\E f \in entries : f.status \notin {"FEASIBLE", "INFEASIBLE"})
                     => Simulated(entries).overall \in {"INVALID_INPUT", "UNSUPPORTED"}
    BY DEF Simulated
  <2>2. Simulated(Judged(p)).overall \in {"OPTIMAL", "INFEASIBLE"}
    BY <1>3, <1>5
  <2> HIDE DEF Judged
  <2> QED
    BY <2>1, <2>2
<1>7. ASSUME NEW t \in AllTasks
      PROVE  Verdict(readings[t], t[2]) \in {"FEASIBLE", "INFEASIBLE"}
  <2>1. t[1] \in data.recorded
    BY <1>2
  <2>2. Entry(readings[t], t[2]) \in Judged(t[1])
    OBVIOUS
  <2>3. Entry(readings[t], t[2]).status = Verdict(readings[t], t[2])
    BY DEF Entry
  <2> HIDE DEF Judged
  <2> QED
    BY <1>6, <2>1, <2>2, <2>3
<1>8. ASSUME NEW t \in AllTasks
      PROVE  /\ \A i \in 1 .. Replications : readings[t][i].status = "measured" /\ readings[t][i].conserved
             /\ Verdict(readings[t], t[2]) = "FEASIBLE" <=> WithinTarget(readings[t], t[2])
  BY <1>2, <1>7, VerdictSays
<1> DEFINE Fitting(p) == {t \in AllTasks : t[1] = p /\ \A c \in t[2] :
                         SumFunction([i \in 1 .. Replications |-> readings[t][i].rho[c]]) <= Target * Replications}
           Cost(t) == SumFunction([i \in 1 .. Replications |-> readings[t][i].cost])
<1>9. \A t \in AllTasks : /\ Entry(readings[t], t[2]).lanes = Cardinality(t[2])
                          /\ Entry(readings[t], t[2]).cost = Cost(t)
                          /\ Entry(readings[t], t[2]).status = "FEASIBLE" <=> t \in Fitting(t[1])
  <2> SUFFICES ASSUME NEW t \in AllTasks
               PROVE  /\ Entry(readings[t], t[2]).lanes = Cardinality(t[2])
                      /\ Entry(readings[t], t[2]).cost = Cost(t)
                      /\ Entry(readings[t], t[2]).status = "FEASIBLE" <=> t \in Fitting(t[1])
    OBVIOUS
  <2>1. DOMAIN readings[t] = 1 .. Replications /\ Len(readings[t]) = Replications
    BY <1>2
  <2>2. WithinTarget(readings[t], t[2]) <=> t \in Fitting(t[1])
    BY <2>1 DEF WithinTarget
  <2>3. Entry(readings[t], t[2]) = [lanes |-> Cardinality(t[2]), status |-> Verdict(readings[t], t[2]), cost |-> Cost(t)]
    BY <2>1 DEF Entry
  <2> HIDE DEF Fitting, Cost
  <2> QED
    BY <1>8, <2>2, <2>3
<1>10. \A t \in AllTasks : Cost(t) \in Nat /\ Cardinality(t[2]) \in Nat
  <2> SUFFICES ASSUME NEW t \in AllTasks PROVE Cost(t) \in Nat /\ Cardinality(t[2]) \in Nat
    OBVIOUS
  <2>1. \A i \in 1 .. Replications : readings[t][i] \in LaneReadings(t[2])
    BY <1>2
  <2>2. \A i \in 1 .. Replications : readings[t][i].cost \in Nat
    BY <1>2, <2>1, CostIsNatural
  <2>3. IsFiniteSet(1 .. Replications)
    BY FS_Interval DEF PlanAssumptions, SearchConstants
  <2> DEFINE f == [i \in 1 .. Replications |-> readings[t][i].cost]
  <2>4. IsFiniteSet(DOMAIN f) /\ \A x \in DOMAIN f : f[x] \in Nat
    BY <2>2, <2>3
  <2>5. SumFunction(f) \in Nat
    <3> HIDE DEF f
    <3> QED
      BY <2>4, SumIsNatural
  <2> QED
    BY <1>2, <2>5
<1>11. ASSUME NEW p \in data.recorded
       PROVE  IF Fitting(p) = {} THEN answer.periods[p].overall = "INFEASIBLE"
              ELSE LET best == answer.periods[p].optimum
                   IN /\ answer.periods[p].overall = "OPTIMAL"
                      /\ \E t \in Fitting(p) : Cardinality(t[2]) = best.lanes /\ Cost(t) = best.cost
                      /\ \A t \in Fitting(p) : best.cost < Cost(t) \/ (best.cost = Cost(t) /\ best.lanes <= Cardinality(t[2]))
  <2> DEFINE Es == Judged(p)
  <2>1. \A e \in Es : \E t \in AllTasks : t[1] = p /\ e = Entry(readings[t], t[2])
    OBVIOUS
  <2>2. \A t \in AllTasks : t[1] = p => Entry(readings[t], t[2]) \in Es
    OBVIOUS
  <2>3. \A t \in Fitting(p) : t \in AllTasks /\ t[1] = p
    OBVIOUS
  <2>4. answer.periods[p] = Simulated(Es) /\ \A e \in Es : e.status \in {"FEASIBLE", "INFEASIBLE"}
    BY <1>3, <1>6
  <2> HIDE DEF Es, Judged, Fitting, Cost
  <2>5. \A e \in Es : e.cost \in Nat /\ e.lanes \in Nat
    BY <1>9, <1>10, <2>1
  <2>6. (\E e \in Es : e.status = "FEASIBLE") <=> Fitting(p) # {}
    BY <1>9, <2>1, <2>2, <2>3
  <2>7. CASE Fitting(p) = {}
    BY <2>4, <2>5, <2>6, <2>7, SearchSays
  <2>8. CASE Fitting(p) # {}
    <3>1. PICK best : best = answer.periods[p].optimum
      OBVIOUS
    <3>2. answer.periods[p].overall = "OPTIMAL"
      BY <2>4, <2>5, <2>6, <2>8, SearchSays
    <3>3. PICK e \in Es :
            /\ e.status = "FEASIBLE" /\ best.lanes = e.lanes /\ best.cost = e.cost
            /\ \A f \in Es : f.status = "FEASIBLE" => e.cost < f.cost \/ (e.cost = f.cost /\ e.lanes <= f.lanes)
      BY <2>4, <2>5, <2>6, <2>8, <3>1, SearchSays
    <3>4. PICK t \in AllTasks : t[1] = p /\ e = Entry(readings[t], t[2])
      BY <2>1
    <3>5. t \in Fitting(p) /\ Cardinality(t[2]) = best.lanes /\ Cost(t) = best.cost
      BY <1>9, <3>3, <3>4
    <3>6. \A u \in Fitting(p) : best.cost < Cost(u) \/ (best.cost = Cost(u) /\ best.lanes <= Cardinality(u[2]))
      BY <1>9, <2>2, <2>3, <3>3
    <3> QED
      BY <2>8, <3>1, <3>2, <3>5, <3>6
  <2> QED
    BY <2>7, <2>8
<1> QED
  BY <1>3, <1>5, <1>8, <1>11 DEF VerdictsAreProved

\* Whatever is asked for and whatever the days bring, a simulated answer that is decided rests on a complete search,
\* and its optimum is the cheapest candidate within the target (optimize_separate_schedule, _optimize_separate_des).
THEOREM AnswersRestOnCompleteSearches ==
  PlanningSpec => []VerdictsAreProved
<1>0. PlanAssumptions
  BY PlacementAssumption, SearchAssumption, PlanningAssumption DEF PlanAssumptions
<1>1. PlanningInit => SearchInv
  BY <1>0, SearchInit
<1>2. SearchInv /\ [PlanningNext]_planningVars => SearchInv'
  BY <1>0, SearchStep
<1>3. SearchInv => VerdictsAreProved
  BY <1>0, AnswersAreProved
<1> QED
  BY <1>1, <1>2, <1>3, PTL DEF PlanningSpec

(* Breaks *)

\* A finite set of numbers has a greatest one.
LEMMA GreatestNumber ==
  ASSUME NEW S, S \subseteq Nat, S # {}, IsFiniteSet(S)
  PROVE  Max(S) \in S /\ \A k \in S : k <= Max(S)
<1>1. PICK n \in Nat : ExistsSurjection(1 .. n, S)
  BY FS_NatSurjection
<1>2. PICK f \in [1 .. n -> S] : \A s \in S : \E i \in 1 .. n : f[i] = s
  BY <1>1 DEF ExistsSurjection, Surjection
<1>3. \A i \in 1 .. n : f[i] \in Nat
  BY <1>2
<1> DEFINE Bounded(k) == \E b \in Nat : \A i \in 1 .. k : f[i] <= b
           Bad == {k \in 0 .. n : ~Bounded(k)}
<1>4. \A k \in 0 .. n : Bounded(k)
  <2> SUFFICES ASSUME Bad # {} PROVE FALSE
    OBVIOUS
  <2>1. PICK m \in Bad : \A k \in Bad : m <= k
    <3>1. Bad \subseteq Nat
      OBVIOUS
    <3> QED
      BY <3>1, LeastNumber
  <2>2. m \in 0 .. n /\ ~Bounded(m)
    BY <2>1
  <2>3. m # 0
    <3>1. \A i \in 1 .. 0 : f[i] <= 0
      OBVIOUS
    <3>2. Bounded(0)
      BY <3>1
    <3> QED
      BY <2>2, <3>2
  <2>4. m - 1 \in 0 .. n /\ m - 1 < m /\ m \in 1 .. n
    BY <2>2, <2>3
  <2>5. Bounded(m - 1)
    <3> HIDE DEF Bounded
    <3> QED
      BY <2>1, <2>4
  <2>6. PICK b \in Nat : \A i \in 1 .. m - 1 : f[i] <= b
    BY <2>5
  <2>7. PICK top \in Nat : top = f[m]
    BY <1>3, <2>4
  <2>8. PICK c \in Nat : b <= c /\ f[m] <= c
    <3>1. b + top \in Nat /\ b <= b + top /\ top <= b + top
      OBVIOUS
    <3> QED
      BY <2>7, <3>1
  <2>9. ASSUME NEW i \in 1 .. m
        PROVE  f[i] <= c
    <3>1. i \in 1 .. n
      BY <2>4
    <3>2. CASE i = m
      BY <2>8, <3>2
    <3>3. CASE i # m
      <4>1. i \in 1 .. m - 1
        BY <2>4, <3>3
      <4>2. PICK x \in Nat : x = f[i] /\ x <= b
        BY <1>3, <2>6, <3>1, <4>1
      <4>3. x <= c
        BY <2>8, <4>2
      <4> QED
        BY <4>2, <4>3
    <3> QED
      BY <3>2, <3>3
  <2> QED
    BY <2>2, <2>9
<1>5. PICK b \in Nat : \A i \in 1 .. n : f[i] <= b
  <2>1. n \in 0 .. n
    OBVIOUS
  <2>2. Bounded(n)
    BY <1>4, <2>1
  <2> QED
    BY <2>2
<1> DEFINE Above == {k \in Nat : \A s \in S : s <= k}
<1>6. b \in Above
  BY <1>2, <1>5
<1>7. PICK m \in Above : \A k \in Above : m <= k
  BY <1>6, LeastNumber
<1>8. m \in S
  <2> SUFFICES ASSUME m \notin S PROVE FALSE
    OBVIOUS
  <2>1. PICK x \in S : TRUE
    OBVIOUS
  <2>2. m \in Nat \ {0} /\ \A y \in S : y <= m /\ y # m /\ y \in Nat
    BY <2>1
  <2>3. m - 1 \in Above
    BY <2>2
  <2> QED
    BY <1>7, <2>2, <2>3
<1> QED
  BY <1>8 DEF Max

\* Parts of a quotient, multiplied again.
LEMMA MultiplesStayWithin ==
  ASSUME NEW n \in Nat, NEW d \in Nat \ {0}, NEW k \in -(n \div d) .. n \div d
  PROVE  k * d \in -n .. n
<1>1. PICK q \in Nat : q = n \div d /\ d * q <= n
  <2>1. n \div d \in Nat /\ n % d \in 0 .. d - 1 /\ n = d * (n \div d) + (n % d)
    OBVIOUS
  <2>2. PICK p \in Nat, r \in 0 .. d - 1 : p = n \div d /\ r = n % d
    BY <2>1
  <2>3. n = d * p + r /\ d * p \in Nat
    BY <2>1, <2>2
  <2> QED
    BY <2>2, <2>3
<1>2. PICK i \in Nat : q = k + i
  BY <1>1
<1>3. PICK j \in Nat : q = j - k
  BY <1>1
<1>4. d * q = k * d + d * i /\ d * i \in Nat /\ k * d \in Int
  BY <1>2
<1>5. d * q = d * j - k * d /\ d * j \in Nat
  BY <1>3
<1>6. PICK a, x, u, v : a = d * q /\ x = k * d /\ u = d * i /\ v = d * j
  OBVIOUS
<1>7. a = x + u /\ a = v - x /\ u \in Nat /\ v \in Nat /\ x \in Int /\ a \in Nat /\ a <= n
  BY <1>1, <1>4, <1>5, <1>6
<1>8. x \in -n .. n
  BY <1>7
<1> QED
  BY <1>6, <1>8

\* The slots of the day, each in a segment.
LEMMA SlotsOfTheDay ==
  ASSUME PlanAssumptions
  PROVE  /\ IsFiniteSet(Slots) /\ Slots # {}
         /\ \A slot \in Slots : slot \in Nat /\ SegmentOf(slot) \in Segments
<1>1. /\ (\A s \in Segments : s \in Nat) /\ Segments \subseteq Nat /\ IsFiniteSet(Segments) /\ Segments # {}
      /\ SlotLength \in Nat \ {0} /\ SegmentLength \in Nat \ {0} /\ SegmentLength % SlotLength = 0
  BY DEF PlanAssumptions, PlacementConstants
<1>2. PICK q \in Nat \ {0} : q = SegmentLength \div SlotLength
  <2>1. SegmentLength \div SlotLength \in Nat /\ SegmentLength = SlotLength * (SegmentLength \div SlotLength) + (SegmentLength % SlotLength)
    BY <1>1
  <2>2. SegmentLength \div SlotLength # 0
    BY <1>1, <2>1
  <2> QED
    BY <2>1, <2>2
<1>3. Slots = {s + k * SlotLength : s \in Segments, k \in 0 .. q - 1}
  BY <1>2 DEF Slots
<1>4. \A s \in Segments, k \in 0 .. q - 1 : s + k * SlotLength \in Nat /\ s <= s + k * SlotLength
  <2> SUFFICES ASSUME NEW s \in Segments, NEW k \in 0 .. q - 1 PROVE s + k * SlotLength \in Nat /\ s <= s + k * SlotLength
    OBVIOUS
  <2>1. k * SlotLength \in Nat /\ s \in Nat
    BY <1>1
  <2> QED
    BY <2>1
<1>5. Slots # {}
  <2>1. PICK s \in Segments : TRUE
    BY <1>1
  <2>2. 0 \in 0 .. q - 1
    BY <1>2
  <2>3. s + 0 * SlotLength \in Slots
    BY <1>3, <2>2
  <2> QED
    BY <2>3
<1>6. IsFiniteSet(Slots)
  <2>1. IsFiniteSet(Segments \X (0 .. q - 1))
    <3>1. q - 1 \in Int
      BY <1>2
    <3>2. IsFiniteSet(0 .. q - 1)
      BY <3>1, FS_Interval
    <3> QED
      BY <1>1, <3>2, FS_Product
  <2> DEFINE f == [p \in Segments \X (0 .. q - 1) |-> p[1] + p[2] * SlotLength]
  <2>2. f \in Surjection(Segments \X (0 .. q - 1), Slots)
    <3>1. f \in [Segments \X (0 .. q - 1) -> Slots]
      BY <1>3
    <3>2. \A t \in Slots : \E p \in Segments \X (0 .. q - 1) : f[p] = t
      <4> SUFFICES ASSUME NEW t \in Slots PROVE \E p \in Segments \X (0 .. q - 1) : f[p] = t
        OBVIOUS
      <4>1. PICK s \in Segments, k \in 0 .. q - 1 : t = s + k * SlotLength
        BY <1>3
      <4>2. <<s, k>> \in Segments \X (0 .. q - 1) /\ f[<<s, k>>] = s + k * SlotLength
        OBVIOUS
      <4> HIDE DEF f
      <4> QED
        BY <4>1, <4>2
    <3> QED
      BY <3>1, <3>2 DEF Surjection
  <2> QED
    BY <2>1, <2>2, FS_Surjection
<1>7. ASSUME NEW slot \in Slots
      PROVE  slot \in Nat /\ SegmentOf(slot) \in Segments
  <2>1. PICK s \in Segments, k \in 0 .. q - 1 : slot = s + k * SlotLength
    BY <1>3
  <2> DEFINE S == {t \in Segments : t <= slot}
  <2>2. s \in S /\ S \subseteq Segments
    BY <1>4, <2>1
  <2>3. IsFiniteSet(S) /\ S \subseteq Nat
    BY <1>1, <2>2, FS_Subset
  <2>4. Max(S) \in S
    BY <2>2, <2>3, GreatestNumber
  <2> QED
    BY <1>4, <2>1, <2>2, <2>4 DEF SegmentOf
<1> QED
  BY <1>5, <1>6, <1>7

\* The breaks of a Setup, and what a placement starts from.
BreakRow == [cashier : Cashiers, start : Nat, duration : Nat \ {0}, original : Nat \cup {NoTime}]

DayOK(d) ==
  /\ d.breaks \in Seq(BreakRow)
  /\ d.load \in [Segments -> Nat]
  /\ \A i \in DOMAIN d.breaks : ShiftOf(d.staffing, d.breaks[i].cashier).low \in Nat

\* Two days that differ in nothing but where their breaks start.
SameButStarts(d, e) ==
  /\ e.staffing = d.staffing /\ e.load = d.load
  /\ DOMAIN e.breaks = DOMAIN d.breaks /\ Len(e.breaks) = Len(d.breaks)
  /\ \A i \in DOMAIN d.breaks :
       /\ e.breaks[i].cashier = d.breaks[i].cashier /\ e.breaks[i].duration = d.breaks[i].duration
       /\ Anchor(e.breaks[i]) = Anchor(d.breaks[i])

\* Schedules of some of the breaks.
SomeOf(d, at) == DOMAIN at \subseteq DOMAIN d.breaks

\* Indexes, cashiers and anchors.
LEMMA BreaksOfTheDay ==
  ASSUME NEW d, DayOK(d)
  PROVE  /\ Len(d.breaks) \in Nat /\ DOMAIN d.breaks = 1 .. Len(d.breaks) /\ IsFiniteSet(DOMAIN d.breaks)
         /\ \A i \in DOMAIN d.breaks :
              /\ d.breaks[i].cashier \in Cashiers /\ d.breaks[i].start \in Nat
              /\ d.breaks[i].duration \in Nat \ {0} /\ Anchor(d.breaks[i]) \in Nat
<1>1. Len(d.breaks) \in Nat /\ DOMAIN d.breaks = 1 .. Len(d.breaks)
  BY DEF DayOK
<1>2. IsFiniteSet(DOMAIN d.breaks)
  BY <1>1, FS_Interval
<1>3. ASSUME NEW i \in DOMAIN d.breaks
      PROVE  /\ d.breaks[i].cashier \in Cashiers /\ d.breaks[i].start \in Nat
             /\ d.breaks[i].duration \in Nat \ {0} /\ Anchor(d.breaks[i]) \in Nat
  <2>1. PICK b \in BreakRow : b = d.breaks[i]
    BY DEF DayOK
  <2>2. b.cashier \in Cashiers /\ b.start \in Nat /\ b.duration \in Nat \ {0} /\ b.original \in Nat \cup {NoTime}
    BY DEF BreakRow
  <2>3. Anchor(b) \in Nat
    BY <2>2 DEF Anchor
  <2> QED
    BY <2>1, <2>2, <2>3
<1> QED
  BY <1>1, <1>2, <1>3

\* The time lost in a slot.
LEMMA AwayIsNumber ==
  ASSUME PlanAssumptions, NEW d, NEW at, IsFiniteSet(DOMAIN at), NEW slot \in Nat, NEW onShift
  PROVE  Away(d, at, slot, onShift) \in Nat
<1>1. SlotLength \in Nat
  BY DEF PlanAssumptions, PlacementConstants
<1>2. slot + SlotLength - 1 \in Int
  BY <1>1
<1>3. IsFiniteSet((DOMAIN at) \X (slot .. slot + SlotLength - 1))
  <2>1. IsFiniteSet(slot .. slot + SlotLength - 1)
    BY <1>2, FS_Interval
  <2> QED
    BY <2>1, FS_Product
<1>4. PICK lost : /\ lost \subseteq (DOMAIN at) \X (slot .. slot + SlotLength - 1)
                  /\ Away(d, at, slot, onShift) = Cardinality(lost)
  BY DEF Away
<1> QED
  BY <1>3, <1>4, FS_Subset, FS_CardinalityType

\* Utilizations and peaks are numbers.
LEMMA PeakIsNumber ==
  ASSUME PlanAssumptions, NEW d, DayOK(d), NEW at, IsFiniteSet(DOMAIN at)
  PROVE  Peak(d, at) \in Nat
<1>1. SlotLength \in Nat \ {0} /\ Scale \in Nat /\ IsFiniteSet(Cashiers)
  BY DEF PlanAssumptions, PlacementConstants
<1>2. ASSUME NEW slot \in Slots
      PROVE  SlotRho(d, at, slot) \in Nat
  <2>1. slot \in Nat /\ SegmentOf(slot) \in Segments
    BY SlotsOfTheDay
  <2> DEFINE onShift == {c \in Cashiers : ShiftOf(d.staffing, c).low <= slot /\ slot + SlotLength <= ShiftOf(d.staffing, c).high}
             working == Cardinality(onShift) * SlotLength - Away(d, at, slot, onShift)
             load == d.load[SegmentOf(slot)]
  <2>2. load \in Nat
    BY <2>1 DEF DayOK
  <2>3. working \in Int
    <3>1. IsFiniteSet(onShift)
      BY <1>1, FS_Subset
    <3>2. PICK n \in Nat : n = Cardinality(onShift)
      BY <3>1, FS_CardinalityType
    <3>3. n * SlotLength \in Nat
      BY <1>1
    <3>4. Away(d, at, slot, onShift) \in Nat
      BY <2>1, AwayIsNumber
    <3> HIDE DEF onShift
    <3> QED
      BY <3>2, <3>3, <3>4
  <2>4. SlotRho(d, at, slot) = CASE load = 0 -> 0
                                        [] load > 0 /\ working <= 0 -> Infinite
                                        [] OTHER -> (load * Scale) \div working
    BY DEF SlotRho
  <2>5. PICK l, w, r : l = load /\ w = working /\ r = SlotRho(d, at, slot)
    OBVIOUS
  <2> HIDE DEF load, working
  <2>6. CASE l = 0
    BY <2>4, <2>5, <2>6
  <2>7. CASE l > 0 /\ w <= 0
    BY <2>4, <2>5, <2>7 DEF Infinite
  <2>8. CASE l > 0 /\ w > 0
    <3>1. r = (l * Scale) \div w
      BY <2>2, <2>3, <2>4, <2>5, <2>8
    <3>2. l * Scale \in Nat /\ w \in Nat \ {0}
      BY <1>1, <2>2, <2>3, <2>5, <2>8
    <3>3. \A a \in Nat, n \in Nat \ {0} : a \div n \in Nat
      OBVIOUS
    <3> QED
      BY <2>5, <3>1, <3>2, <3>3
  <2> QED
    BY <2>2, <2>3, <2>5, <2>6, <2>7, <2>8
<1> DEFINE f == [slot \in Slots |-> SlotRho(d, at, slot)]
           S == {SlotRho(d, at, slot) : slot \in Slots}
<1>3. S \subseteq Nat /\ S # {}
  BY <1>2, SlotsOfTheDay
<1>4. IsFiniteSet(S)
  <2>1. f \in Surjection(Slots, S)
    BY DEF Surjection
  <2> QED
    BY <2>1, SlotsOfTheDay, FS_Surjection
<1>5. Max(S) \in S
  BY <1>3, <1>4, GreatestNumber
<1> QED
  BY <1>3, <1>5 DEF Peak

\* The peak depends on the starts only through the schedule.
LEMMA PeakIsOfSchedule ==
  ASSUME NEW d, NEW e, SameButStarts(d, e), NEW at, SomeOf(d, at)
  PROVE  Peak(e, at) = Peak(d, at)
<1>1. ASSUME NEW slot, NEW onShift
      PROVE  Away(e, at, slot, onShift) = Away(d, at, slot, onShift)
  <2>1. \A lost \in (DOMAIN at) \X (slot .. slot + SlotLength - 1) :
          /\ e.breaks[lost[1]].cashier = d.breaks[lost[1]].cashier
          /\ e.breaks[lost[1]].duration = d.breaks[lost[1]].duration
    BY DEF SameButStarts, SomeOf
  <2> QED
    BY <2>1 DEF Away
<1>2. \A slot : SlotRho(e, at, slot) = SlotRho(d, at, slot)
  BY <1>1 DEF SlotRho, SameButStarts
<1> QED
  BY <1>2 DEF Peak

\* Comparing four numbers.
LEMMA FourCompared ==
  ASSUME NEW p, NEW q, DOMAIN p = 1 .. 4, \A k \in 1 .. 4 : p[k] \in Int /\ q[k] \in Int
  PROVE  Lexicographic(p, q) <=>
           \/ p[1] < q[1]
           \/ p[1] = q[1] /\ p[2] < q[2]
           \/ p[1] = q[1] /\ p[2] = q[2] /\ p[3] < q[3]
           \/ p[1] = q[1] /\ p[2] = q[2] /\ p[3] = q[3] /\ p[4] < q[4]
<1> DEFINE Falls(k) == p[k] < q[k] /\ \A j \in 1 .. k - 1 : p[j] = q[j]
<1>1. Lexicographic(p, q) <=> \E k \in 1 .. 4 : Falls(k)
  BY DEF Lexicographic
<1>2. \A k \in 1 .. 4 : k = 1 \/ k = 2 \/ k = 3 \/ k = 4
  OBVIOUS
<1>3. Falls(1) <=> p[1] < q[1]
  OBVIOUS
<1>4. Falls(2) <=> p[1] = q[1] /\ p[2] < q[2]
  OBVIOUS
<1>5. Falls(3) <=> p[1] = q[1] /\ p[2] = q[2] /\ p[3] < q[3]
  <2>1. \A j \in 1 .. 3 - 1 : j = 1 \/ j = 2
    OBVIOUS
  <2>2. 1 \in 1 .. 3 - 1 /\ 2 \in 1 .. 3 - 1
    OBVIOUS
  <2> QED
    BY <2>1, <2>2
<1>6. Falls(4) <=> p[1] = q[1] /\ p[2] = q[2] /\ p[3] = q[3] /\ p[4] < q[4]
  <2>1. \A j \in 1 .. 4 - 1 : j = 1 \/ j = 2 \/ j = 3
    OBVIOUS
  <2>2. 1 \in 1 .. 4 - 1 /\ 2 \in 1 .. 4 - 1 /\ 3 \in 1 .. 4 - 1
    OBVIOUS
  <2> QED
    BY <2>1, <2>2
<1> HIDE DEF Falls
<1> QED
  BY <1>1, <1>2, <1>3, <1>4, <1>5, <1>6

\* In a strict order of some indexes every rank is taken.
LEMMA EveryRankIsTaken ==
  ASSUME NEW n \in Nat, NEW less \in SUBSET ((1 .. n) \X (1 .. n)),
         \A i \in 1 .. n : <<i, i>> \notin less,
         \A i, j \in 1 .. n : i # j => <<i, j>> \in less \/ <<j, i>> \in less,
         \A i, j, k \in 1 .. n : <<i, j>> \in less /\ <<j, k>> \in less => <<i, k>> \in less
  PROVE  \A r \in 1 .. n : \E i \in 1 .. n : Cardinality({j \in 1 .. n : <<j, i>> \in less}) = r - 1
<1> DEFINE D == 1 .. n
           Ahead(i) == {j \in D : <<j, i>> \in less}
           rank == [i \in D |-> Cardinality(Ahead(i))]
<1>1. IsFiniteSet(D) /\ Cardinality(D) = n
  <2>1. IsFiniteSet(1 .. n) /\ Cardinality(1 .. n) = IF 1 > n THEN 0 ELSE n - 1 + 1
    BY FS_Interval
  <2> QED
    BY <2>1
<1>2. ASSUME NEW i \in D
      PROVE  IsFiniteSet(Ahead(i)) /\ Cardinality(Ahead(i)) \in Nat /\ Cardinality(Ahead(i)) < n
  <2>1. Ahead(i) \subseteq D /\ i \in D \ Ahead(i)
    OBVIOUS
  <2> HIDE DEF Ahead, D
  <2>2. IsFiniteSet(Ahead(i)) /\ Cardinality(Ahead(i)) \in Nat
    BY <1>1, <2>1, FS_Subset, FS_CardinalityType
  <2>3. Cardinality(Ahead(i)) <= Cardinality(D) /\ (Cardinality(D) = Cardinality(Ahead(i)) => D = Ahead(i))
    BY <1>1, <2>1, FS_Subset
  <2> QED
    BY <1>1, <2>1, <2>2, <2>3
<1>3. ASSUME NEW i \in D, NEW j \in D, <<i, j>> \in less
      PROVE  Cardinality(Ahead(i)) < Cardinality(Ahead(j))
  <2>1. Ahead(i) \subseteq Ahead(j) /\ i \in Ahead(j) \ Ahead(i)
    BY <1>3
  <2>2. IsFiniteSet(Ahead(j)) /\ Cardinality(Ahead(j)) \in Nat /\ Cardinality(Ahead(i)) \in Nat
    BY <1>2
  <2> HIDE DEF Ahead, D
  <2>3. Cardinality(Ahead(i)) <= Cardinality(Ahead(j)) /\ (Cardinality(Ahead(j)) = Cardinality(Ahead(i)) => Ahead(j) = Ahead(i))
    BY <2>1, <2>2, FS_Subset
  <2> QED
    BY <2>1, <2>2, <2>3
<1>4. rank \in [D -> 0 .. n - 1]
  BY <1>2
<1>5. rank \in Injection(D, 0 .. n - 1)
  <2>1. \A i, j \in D : i # j => rank[i] # rank[j]
    <3> SUFFICES ASSUME NEW i \in D, NEW j \in D, i # j PROVE rank[i] # rank[j]
      OBVIOUS
    <3>1. <<i, j>> \in less \/ <<j, i>> \in less
      OBVIOUS
    <3>2. rank[i] = Cardinality(Ahead(i)) /\ rank[j] = Cardinality(Ahead(j))
      OBVIOUS
    <3>3. Cardinality(Ahead(i)) \in Nat /\ Cardinality(Ahead(j)) \in Nat
      BY <1>2
    <3>4. Cardinality(Ahead(i)) < Cardinality(Ahead(j)) \/ Cardinality(Ahead(j)) < Cardinality(Ahead(i))
      BY <1>3, <3>1
    <3> HIDE DEF rank, Ahead
    <3> QED
      BY <3>2, <3>3, <3>4
  <2> HIDE DEF rank, D
  <2>2. \A i, j \in D : rank[i] = rank[j] => i = j
    BY <2>1
  <2> QED
    BY <1>4, <2>2 DEF Injection, IsInjective
<1>6. IsFiniteSet(0 .. n - 1) /\ Cardinality(0 .. n - 1) = n
  <2>1. n - 1 \in Int
    OBVIOUS
  <2>2. IsFiniteSet(0 .. n - 1) /\ Cardinality(0 .. n - 1) = IF 0 > n - 1 THEN 0 ELSE n - 1 - 0 + 1
    BY <2>1, FS_Interval
  <2> QED
    BY <2>2
<1>7. rank \in Surjection(D, 0 .. n - 1)
  <2> HIDE DEF rank
  <2> QED
    BY <1>1, <1>5, <1>6, FS_Injection
<1>8. ASSUME NEW r \in D
      PROVE  \E i \in D : Cardinality(Ahead(i)) = r - 1
  <2>1. r - 1 \in 0 .. n - 1
    OBVIOUS
  <2>2. PICK i \in D : rank[i] = r - 1
    BY <1>7, <2>1 DEF Surjection
  <2> QED
    BY <2>2
<1> QED
  BY <1>8

\* A pass places breaks of the day, in an order that their starts fix.
LEMMA OrderIsOfBreaks ==
  ASSUME PlanAssumptions, NEW d, DayOK(d), NEW from \in [DOMAIN d.breaks -> Nat]
  PROVE  /\ DOMAIN PlacingOrder(d, from) = DOMAIN d.breaks
         /\ \A n \in DOMAIN d.breaks : PlacingOrder(d, from)[n] \in DOMAIN d.breaks
<1> DEFINE D == DOMAIN d.breaks
           key(i) == <<0 - d.breaks[i].duration, d.breaks[i].cashier, from[i], i>>
           less == {ij \in D \X D : Lexicographic(key(ij[1]), key(ij[2]))}
<1>1. PICK n \in Nat : n = Len(d.breaks) /\ D = 1 .. n
  BY BreaksOfTheDay
<1>2. ASSUME NEW i \in D
      PROVE  DOMAIN key(i) = 1 .. 4 /\ \A k \in 1 .. 4 : key(i)[k] \in Int
  <2>1. d.breaks[i].duration \in Nat /\ d.breaks[i].cashier \in Cashiers /\ from[i] \in Nat /\ i \in Nat
    BY <1>1, BreaksOfTheDay
  <2>2. \A c \in Cashiers : c \in Nat
    BY DEF PlanAssumptions, PlacementConstants
  <2> QED
    BY <2>1, <2>2
<1>3. ASSUME NEW i \in D, NEW j \in D
      PROVE  <<i, j>> \in less <=>
               \/ key(i)[1] < key(j)[1]
               \/ key(i)[1] = key(j)[1] /\ key(i)[2] < key(j)[2]
               \/ key(i)[1] = key(j)[1] /\ key(i)[2] = key(j)[2] /\ key(i)[3] < key(j)[3]
               \/ key(i)[1] = key(j)[1] /\ key(i)[2] = key(j)[2] /\ key(i)[3] = key(j)[3] /\ i < j
  <2>1. <<i, j>> \in less <=> Lexicographic(key(i), key(j))
    OBVIOUS
  <2>2. key(i)[4] = i /\ key(j)[4] = j
    OBVIOUS
  <2>3. PICK p, q : p = key(i) /\ q = key(j)
    OBVIOUS
  <2> HIDE DEF key, less
  <2>4. DOMAIN p = 1 .. 4 /\ \A k \in 1 .. 4 : p[k] \in Int /\ q[k] \in Int
    BY <1>2, <2>3
  <2> QED
    BY <2>1, <2>2, <2>3, <2>4, FourCompared
<1>4. \A i \in D : key(i)[1] \in Int /\ key(i)[2] \in Int /\ key(i)[3] \in Int /\ i \in Int
  BY <1>1, <1>2
<1>5. less \in SUBSET ((1 .. n) \X (1 .. n))
  BY <1>1
<1> HIDE DEF key, less
<1>6. \A i \in 1 .. n : <<i, i>> \notin less
  BY <1>1, <1>3, <1>4
<1>7. \A i, j \in 1 .. n : i # j => <<i, j>> \in less \/ <<j, i>> \in less
  <2> SUFFICES ASSUME NEW i \in D, NEW j \in D, i # j
               PROVE  <<i, j>> \in less \/ <<j, i>> \in less
    BY <1>1
  <2>1. PICK a1, a2, a3, b1, b2, b3 : /\ a1 = key(i)[1] /\ a2 = key(i)[2] /\ a3 = key(i)[3]
                                      /\ b1 = key(j)[1] /\ b2 = key(j)[2] /\ b3 = key(j)[3]
    OBVIOUS
  <2>2. a1 \in Int /\ a2 \in Int /\ a3 \in Int /\ b1 \in Int /\ b2 \in Int /\ b3 \in Int /\ i \in Int /\ j \in Int
    BY <1>4, <2>1
  <2>3. (a1 = b1 /\ a2 = b2 /\ a3 = b3 /\ (i < j \/ j < i)) \/ a1 < b1 \/ b1 < a1
        \/ (a1 = b1 /\ (a2 < b2 \/ b2 < a2)) \/ (a1 = b1 /\ a2 = b2 /\ (a3 < b3 \/ b3 < a3))
    BY <2>2
  <2> QED
    BY <1>3, <2>1, <2>3
<1>8. \A i, j, k \in 1 .. n : <<i, j>> \in less /\ <<j, k>> \in less => <<i, k>> \in less
  <2> SUFFICES ASSUME NEW i \in D, NEW j \in D, NEW k \in D, <<i, j>> \in less, <<j, k>> \in less
               PROVE  <<i, k>> \in less
    BY <1>1
  <2>1. PICK a1, a2, a3, b1, b2, b3, c1, c2, c3 :
          /\ a1 = key(i)[1] /\ a2 = key(i)[2] /\ a3 = key(i)[3]
          /\ b1 = key(j)[1] /\ b2 = key(j)[2] /\ b3 = key(j)[3]
          /\ c1 = key(k)[1] /\ c2 = key(k)[2] /\ c3 = key(k)[3]
    OBVIOUS
  <2>2. /\ a1 \in Int /\ a2 \in Int /\ a3 \in Int /\ b1 \in Int /\ b2 \in Int /\ b3 \in Int /\ c1 \in Int /\ c2 \in Int /\ c3 \in Int
        /\ i \in Int /\ j \in Int /\ k \in Int
    BY <1>4, <2>1
  <2>3. a1 < b1 \/ (a1 = b1 /\ (a2 < b2 \/ (a2 = b2 /\ (a3 < b3 \/ (a3 = b3 /\ i < j)))))
    BY <1>3, <2>1
  <2>4. b1 < c1 \/ (b1 = c1 /\ (b2 < c2 \/ (b2 = c2 /\ (b3 < c3 \/ (b3 = c3 /\ j < k)))))
    BY <1>3, <2>1
  <2>5. a1 < c1 \/ (a1 = c1 /\ (a2 < c2 \/ (a2 = c2 /\ (a3 < c3 \/ (a3 = c3 /\ i < k)))))
    BY <2>2, <2>3, <2>4
  <2> QED
    BY <1>3, <2>1, <2>5
<1>9. \A r \in 1 .. n : \E i \in 1 .. n : Cardinality({j \in 1 .. n : <<j, i>> \in less}) = r - 1
  BY <1>5, <1>6, <1>7, <1>8, EveryRankIsTaken
<1>10. ASSUME NEW r \in D
       PROVE  PlacingOrder(d, from)[r] \in D
  <2>1. PICK i \in D : Cardinality({j \in D : <<j, i>> \in less}) = r - 1
    BY <1>1, <1>9
  <2>2. {j \in D : <<j, i>> \in less} = {j \in D : Lexicographic(key(j), key(i))}
    BY DEF less
  <2>3. Cardinality({j \in D : Lexicographic(key(j), key(i))}) = r - 1
    BY <2>1, <2>2
  <2>4. PlacingOrder(d, from)[r] = CHOOSE k \in D : Cardinality({j \in D : Lexicographic(key(j), key(k))}) = r - 1
    BY DEF PlacingOrder, key
  <2> QED
    BY <2>3, <2>4
<1> QED
  BY <1>10 DEF PlacingOrder

\* Comparing three numbers.
LEMMA ThreeCompared ==
  ASSUME NEW p, NEW q, DOMAIN p = 1 .. 3, \A k \in 1 .. 3 : p[k] \in Int /\ q[k] \in Int,
         p[1] < q[1] \/ (p[1] = q[1] /\ (p[2] < q[2] \/ (p[2] = q[2] /\ p[3] < q[3])))
  PROVE  Lexicographic(p, q)
<1>1. CASE p[1] < q[1]
  BY <1>1 DEF Lexicographic
<1>2. CASE p[1] = q[1] /\ p[2] < q[2]
  <2>1. 2 \in DOMAIN p /\ \A j \in 1 .. 2 - 1 : p[j] = q[j]
    BY <1>2
  <2> QED
    BY <1>2, <2>1 DEF Lexicographic
<1>3. CASE p[1] = q[1] /\ p[2] = q[2] /\ p[3] < q[3]
  <2>1. \A j \in 1 .. 3 - 1 : j = 1 \/ j = 2
    OBVIOUS
  <2>2. 3 \in DOMAIN p /\ \A j \in 1 .. 3 - 1 : p[j] = q[j]
    BY <1>3, <2>1
  <2> QED
    BY <1>3, <2>2 DEF Lexicographic
<1> QED
  BY <1>1, <1>2, <1>3

\* The best of some starts is one of them.
LEMMA BestIsAllowed ==
  ASSUME PlanAssumptions, NEW d, DayOK(d), NEW i \in DOMAIN d.breaks, NEW from \in [DOMAIN d.breaks -> Nat],
         NEW placed, SomeOf(d, placed), NEW starts, starts \subseteq Nat, starts # {}
  PROVE  Best(d, from, placed, i, starts) \in starts
<1> DEFINE peak(s) == Peak(d, With(placed, i, s))
           distance(s) == IF s < from[i] THEN from[i] - s ELSE s - from[i]
           score(s) == <<peak(s), distance(s), s>>
<1>1. ASSUME NEW s \in starts
      PROVE  peak(s) \in Nat /\ distance(s) \in Nat /\ s \in Nat
  <2>1. DOMAIN With(placed, i, s) \subseteq DOMAIN d.breaks
    BY DEF SomeOf, With
  <2>2. IsFiniteSet(DOMAIN With(placed, i, s))
    BY <2>1, BreaksOfTheDay, FS_Subset
  <2>3. peak(s) \in Nat
    BY <2>2, PeakIsNumber
  <2> QED
    BY <2>3
<1> HIDE DEF peak, distance
<1> DEFINE P == {peak(s) : s \in starts}
<1>2. PICK p \in P : \A k \in P : p <= k
  <2>1. P \subseteq Nat /\ P # {}
    BY <1>1
  <2> QED
    BY <2>1, LeastNumber
<1> DEFINE Q == {distance(s) : s \in {t \in starts : peak(t) = p}}
<1>3. PICK q \in Q : \A k \in Q : q <= k
  <2>1. Q \subseteq Nat /\ Q # {}
    BY <1>1, <1>2
  <2> QED
    BY <2>1, LeastNumber
<1> DEFINE R == {s \in starts : peak(s) = p /\ distance(s) = q}
<1>4. PICK r \in R : \A k \in R : r <= k
  <2>1. R \subseteq Nat /\ R # {}
    BY <1>1, <1>3
  <2> QED
    BY <2>1, LeastNumber
<1>5. r \in starts /\ peak(r) = p /\ distance(r) = q
  BY <1>4
<1>6. ASSUME NEW t \in starts \ {r}
      PROVE  Lexicographic(score(r), score(t))
  <2>1. peak(t) \in Nat /\ distance(t) \in Nat /\ t \in Nat /\ p \in Nat /\ q \in Nat /\ r \in Nat
    BY <1>1, <1>5
  <2>2. p <= peak(t)
    BY <1>2
  <2>3. peak(t) = p => q <= distance(t)
    BY <1>3
  <2>4. peak(t) = p /\ distance(t) = q => r <= t
    BY <1>4
  <2>5. p < peak(t) \/ (p = peak(t) /\ (q < distance(t) \/ (q = distance(t) /\ r < t)))
    BY <2>1, <2>2, <2>3, <2>4
  <2>6. PICK u, v : u = score(r) /\ v = score(t)
    OBVIOUS
  <2>7. /\ DOMAIN u = 1 .. 3 /\ u[1] = p /\ u[2] = q /\ u[3] = r
        /\ v[1] = peak(t) /\ v[2] = distance(t) /\ v[3] = t
    BY <1>5, <2>6
  <2> HIDE DEF score
  <2>8. \A k \in 1 .. 3 : u[k] \in Int /\ v[k] \in Int
    <3>1. \A k \in 1 .. 3 : k = 1 \/ k = 2 \/ k = 3
      OBVIOUS
    <3> QED
      BY <2>1, <2>7, <3>1
  <2>9. Lexicographic(u, v)
    BY <2>5, <2>7, <2>8, ThreeCompared
  <2> QED
    BY <2>6, <2>9
<1>7. Best(d, from, placed, i, starts) = CHOOSE s \in starts : \A t \in starts \ {s} : Lexicographic(score(s), score(t))
  BY DEF Best, peak, distance
<1> HIDE DEF score
<1> QED
  BY <1>5, <1>6, <1>7

\* The start of break i is one that its anchor, its shift and the breaks in at allow.
MayStart(d, move, i, s) ==
  LET b == d.breaks[i]
      shift == ShiftOf(d.staffing, b.cashier)
  IN /\ s \in Nat /\ s - Anchor(b) \in -move .. move
     /\ shift.low + Edge <= s /\ s + b.duration <= shift.high - Edge

Apart(d, i, s, j, t) == s + d.breaks[i].duration <= t \/ t + d.breaks[j].duration <= s

\* A schedule of some of the breaks that follows the rules.
KeepsRules(d, move, placed) ==
  /\ SomeOf(d, placed) /\ placed = [j \in DOMAIN placed |-> placed[j]]
  /\ \A i \in DOMAIN placed : MayStart(d, move, i, placed[i])
  /\ \A i, j \in DOMAIN placed :
       i # j /\ d.breaks[i].cashier = d.breaks[j].cashier => Apart(d, i, placed[i], j, placed[j])

\* A start that _placement_pass allows follows the rules, and is apart from the cashier's placed breaks.
LEMMA AllowedFollowsRules ==
  ASSUME PlanAssumptions, NEW d, DayOK(d), NEW i \in DOMAIN d.breaks, NEW from, NEW placed, NEW move \in Nat,
         NEW s \in Allowed(d, from, placed, move, i)
  PROVE  /\ MayStart(d, move, i, s)
         /\ \A j \in DOMAIN placed : d.breaks[j].cashier = d.breaks[i].cashier => Apart(d, i, s, j, placed[j])
<1>1. SlotLength \in Nat \ {0} /\ Edge \in Nat
  BY DEF PlanAssumptions, PlacementConstants
<1> DEFINE b == d.breaks[i]
           shift == ShiftOf(d.staffing, b.cashier)
<1>2. /\ \E k \in -(move \div SlotLength) .. move \div SlotLength : s = Anchor(b) + k * SlotLength
      /\ shift.low + Edge <= s /\ s + b.duration <= shift.high - Edge
      /\ \A j \in DOMAIN placed : d.breaks[j].cashier = b.cashier =>
           placed[j] + d.breaks[j].duration <= s \/ s + b.duration <= placed[j]
  BY DEF Allowed
<1>3. PICK k \in -(move \div SlotLength) .. move \div SlotLength : s = Anchor(b) + k * SlotLength
  BY <1>2
<1>4. k * SlotLength \in -move .. move
  BY <1>1, MultiplesStayWithin
<1>5. Anchor(b) \in Nat /\ shift.low \in Nat
  BY BreaksOfTheDay DEF DayOK
<1>6. PICK x \in -move .. move : x = k * SlotLength
  BY <1>4
<1>7. PICK a \in Nat, low \in Nat : a = Anchor(b) /\ low = shift.low
  BY <1>5
<1>8. s = a + x /\ low + Edge <= s
  BY <1>2, <1>3, <1>6, <1>7
<1>9. s \in Nat /\ s - a \in -move .. move
  BY <1>1, <1>8
<1> QED
  BY <1>2, <1>7, <1>9 DEF MayStart, Apart

\* One more break is placed by the rules, or left out.
LEMMA PlacingKeepsRules ==
  ASSUME PlanAssumptions, NEW d, DayOK(d), NEW i \in DOMAIN d.breaks, NEW from \in [DOMAIN d.breaks -> Nat],
         NEW move \in Nat, NEW placed, KeepsRules(d, move, placed)
  PROVE  KeepsRules(d, move, Place(d, from, move, placed, i))
<1>1. PICK starts : starts = Allowed(d, from, placed, move, i)
  OBVIOUS
<1>2. CASE starts = {}
  BY <1>1, <1>2 DEF Place
<1>3. CASE starts # {}
  <2>1. starts \subseteq Nat
    BY <1>1, AllowedFollowsRules DEF MayStart
  <2>2. PICK s \in starts : s = Best(d, from, placed, i, starts)
    BY <1>3, <2>1, BestIsAllowed DEF KeepsRules
  <2>3. Place(d, from, move, placed, i) = With(placed, i, s)
    BY <1>1, <1>3, <2>2 DEF Place
  <2>4. PICK at : at = With(placed, i, s)
    OBVIOUS
  <2>5. /\ at = [j \in DOMAIN at |-> at[j]] /\ DOMAIN at = DOMAIN placed \cup {i}
        /\ \A j \in DOMAIN placed : at[j] = placed[j]
        /\ i \notin DOMAIN placed => at[i] = s
    BY <2>4 DEF With
  <2>6. /\ MayStart(d, move, i, s)
        /\ \A j \in DOMAIN placed : d.breaks[j].cashier = d.breaks[i].cashier => Apart(d, i, s, j, placed[j])
    BY <1>1, AllowedFollowsRules
  <2>7. SomeOf(d, at)
    BY <2>5 DEF SomeOf, KeepsRules
  <2>8. \A j \in DOMAIN at : MayStart(d, move, j, at[j])
    BY <2>5, <2>6 DEF KeepsRules
  <2>9. \A j, k : Apart(d, j, at[j], k, at[k]) <=> Apart(d, k, at[k], j, at[j])
    BY DEF Apart
  <2>10. ASSUME NEW j \in DOMAIN at, NEW k \in DOMAIN at, j # k, d.breaks[j].cashier = d.breaks[k].cashier
         PROVE  Apart(d, j, at[j], k, at[k])
    <3>1. CASE j \in DOMAIN placed /\ k \in DOMAIN placed
      BY <2>5, <2>10, <3>1 DEF KeepsRules
    <3>2. CASE j \notin DOMAIN placed
      <4>1. j = i /\ k \in DOMAIN placed /\ at[j] = s
        BY <2>5, <2>10, <3>2
      <4> QED
        BY <2>5, <2>6, <2>10, <4>1
    <3>3. CASE k \notin DOMAIN placed
      <4>1. k = i /\ j \in DOMAIN placed /\ at[k] = s
        BY <2>5, <2>10, <3>3
      <4>2. Apart(d, k, at[k], j, at[j])
        BY <2>5, <2>6, <2>10, <4>1
      <4> QED
        BY <2>9, <4>2
    <3> QED
      BY <3>1, <3>2, <3>3
  <2>11. KeepsRules(d, move, at)
    BY <2>5, <2>7, <2>8, <2>10 DEF KeepsRules
  <2> QED
    BY <2>3, <2>4, <2>11
<1> QED
  BY <1>2, <1>3

\* The schedules f[0], f[1], ..., f[n] that a pass builds.
Builds(d, from, move, f, n) ==
  f = [k \in 0 .. n |-> IF k = 0 THEN <<>> ELSE Place(d, from, move, f[k - 1], PlacingOrder(d, from)[k])]

\* A pass is built placement by placement.
LEMMA PassIsBuilt ==
  ASSUME NEW d, NEW from, NEW move, Len(d.breaks) \in Nat
  PROVE  \E f : Builds(d, from, move, f, Len(d.breaks)) /\ Pass(d, from, move) = f[Len(d.breaks)]
<1> DEFINE Bad == {n \in Nat : ~\E f : Builds(d, from, move, f, n)}
<1>1. Bad = {}
  <2> SUFFICES ASSUME Bad # {} PROVE FALSE
    OBVIOUS
  <2>1. PICK m \in Bad : \A k \in Bad : m <= k
    BY LeastNumber
  <2>2. m \in Nat /\ ~\E f : Builds(d, from, move, f, m)
    OBVIOUS
  <2>3. CASE m = 0
    <3> DEFINE f == [k \in 0 .. 0 |-> <<>>]
    <3>1. \A k \in 0 .. 0 : k = 0
      OBVIOUS
    <3>2. f = [k \in 0 .. 0 |-> IF k = 0 THEN <<>> ELSE Place(d, from, move, f[k - 1], PlacingOrder(d, from)[k])]
      BY <3>1
    <3>3. Builds(d, from, move, f, 0)
      BY <3>2 DEF Builds
    <3> QED
      BY <2>2, <2>3, <3>3
  <2>4. CASE m # 0
    <3>1. m - 1 \in Nat /\ m - 1 \notin Bad
      BY <2>1, <2>2, <2>4
    <3>2. PICK g : Builds(d, from, move, g, m - 1)
      BY <3>1
    <3> DEFINE Stepped(k, a) == IF k = 0 THEN <<>> ELSE Place(d, from, move, a[k - 1], PlacingOrder(d, from)[k])
               f == [k \in 0 .. m |-> Stepped(k, g)]
    <3>3. \A k \in 0 .. m - 1 : g[k] = Stepped(k, g)
      <4>1. g = [k \in 0 .. m - 1 |-> Stepped(k, g)]
        BY <3>2 DEF Builds
      <4> HIDE DEF Stepped
      <4> QED
        BY <4>1, Zenon
    <3>4. \A k \in 0 .. m - 1 : f[k] = g[k]
      <4>1. \A k \in 0 .. m - 1 : k \in 0 .. m
        BY <2>2
      <4> HIDE DEF Stepped
      <4> QED
        BY <3>3, <4>1
    <3>5. \A k \in 0 .. m : k # 0 => k - 1 \in 0 .. m - 1
      BY <2>2
    <3>6. ASSUME NEW k \in 0 .. m PROVE f[k] = Stepped(k, f)
      <4>1. f[k] = Stepped(k, g)
        OBVIOUS
      <4>2. k # 0 => f[k - 1] = g[k - 1]
        BY <3>4, <3>5
      <4> HIDE DEF f
      <4> QED
        BY <4>1, <4>2
    <3>7. f = [k \in 0 .. m |-> f[k]]
      OBVIOUS
    <3>8. f = [k \in 0 .. m |-> Stepped(k, f)]
      <4> HIDE DEF f, Stepped
      <4> QED
        BY <3>6, <3>7, Zenon
    <3>9. Builds(d, from, move, f, m)
      <4> HIDE DEF f
      <4> QED
        BY <3>8 DEF Builds
    <3> QED
      BY <2>2, <3>9
  <2> QED
    BY <2>3, <2>4
<1>2. \E f : Builds(d, from, move, f, Len(d.breaks))
  BY <1>1
<1> DEFINE H == CHOOSE f : Builds(d, from, move, f, Len(d.breaks))
<1>3. Builds(d, from, move, H, Len(d.breaks))
  BY <1>2
<1>4. Pass(d, from, move) = H[Len(d.breaks)]
  BY DEF Pass, Builds
<1> HIDE DEF H
<1> QED
  BY <1>3, <1>4

\* What Builds says step by step.
LEMMA BuiltByPlacing ==
  ASSUME NEW d, NEW from, NEW move, NEW f, NEW n \in Nat, Builds(d, from, move, f, n)
  PROVE  f[0] = <<>> /\ \A k \in 1 .. n : f[k] = Place(d, from, move, f[k - 1], PlacingOrder(d, from)[k])
<1> DEFINE Stepped(k) == IF k = 0 THEN <<>> ELSE Place(d, from, move, f[k - 1], PlacingOrder(d, from)[k])
<1>1. f = [k \in 0 .. n |-> Stepped(k)]
  BY DEF Builds
<1>2. \A k \in 0 .. n : f[k] = Stepped(k)
  <2> HIDE DEF Stepped
  <2> QED
    BY <1>1, Zenon
<1>3. 0 \in 0 .. n /\ \A k \in 1 .. n : k \in 0 .. n /\ k # 0
  OBVIOUS
<1> QED
  BY <1>2, <1>3

\* Every schedule of a pass follows the rules.
LEMMA PassKeepsRules ==
  ASSUME PlanAssumptions, NEW d, DayOK(d), NEW from \in [DOMAIN d.breaks -> Nat], NEW move \in Nat
  PROVE  KeepsRules(d, move, Pass(d, from, move))
<1>1. PICK n \in Nat : n = Len(d.breaks) /\ DOMAIN d.breaks = 1 .. n
  BY BreaksOfTheDay
<1>2. PICK f : Builds(d, from, move, f, n) /\ Pass(d, from, move) = f[n]
  BY <1>1, PassIsBuilt
<1>3. f[0] = <<>> /\ \A k \in 1 .. n : f[k] = Place(d, from, move, f[k - 1], PlacingOrder(d, from)[k])
  BY <1>2, BuiltByPlacing
<1> DEFINE Bad == {k \in 0 .. n : ~KeepsRules(d, move, f[k])}
<1>4. Bad = {}
  <2> SUFFICES ASSUME Bad # {} PROVE FALSE
    OBVIOUS
  <2>1. PICK m \in Bad : \A k \in Bad : m <= k
    <3>1. Bad \subseteq Nat
      OBVIOUS
    <3> QED
      BY <3>1, LeastNumber
  <2>2. m \in 0 .. n /\ ~KeepsRules(d, move, f[m])
    BY <2>1
  <2>3. CASE m = 0
    <3>1. DOMAIN f[0] = {} /\ f[0] = [j \in DOMAIN f[0] |-> f[0][j]]
      BY <1>3
    <3>2. KeepsRules(d, move, f[0])
      BY <3>1 DEF KeepsRules, SomeOf
    <3> QED
      BY <2>2, <2>3, <3>2
  <2>4. CASE m # 0
    <3>1. m \in 1 .. n /\ m - 1 \in 0 .. n /\ m - 1 < m
      BY <2>2, <2>4
    <3>2. KeepsRules(d, move, f[m - 1])
      <4>1. m - 1 \notin Bad
        BY <2>1, <3>1
      <4> QED
        BY <3>1, <4>1
    <3>3. PICK i \in DOMAIN d.breaks : i = PlacingOrder(d, from)[m]
      BY <1>1, <3>1, OrderIsOfBreaks
    <3>4. KeepsRules(d, move, Place(d, from, move, f[m - 1], i))
      BY <3>2, PlacingKeepsRules
    <3> QED
      BY <1>3, <2>2, <3>1, <3>3, <3>4
  <2> QED
    BY <2>3, <2>4
<1>5. n \in 0 .. n
  OBVIOUS
<1> HIDE DEF Bad
<1>6. KeepsRules(d, move, f[n])
  BY <1>4, <1>5 DEF Bad
<1> QED
  BY <1>2, <1>6

\* A pass depends on the starts only through the schedule it starts from.
LEMMA PassIsOfSchedule ==
  ASSUME PlanAssumptions, NEW d, NEW e, DayOK(d), DayOK(e), SameButStarts(d, e),
         NEW from \in [DOMAIN d.breaks -> Nat], NEW move \in Nat
  PROVE  Pass(e, from, move) = Pass(d, from, move)
<1>1. PICK n \in Nat : n = Len(d.breaks) /\ n = Len(e.breaks) /\ DOMAIN d.breaks = 1 .. n /\ DOMAIN e.breaks = 1 .. n
  BY BreaksOfTheDay DEF SameButStarts
<1>2. \A i \in 1 .. n : /\ e.breaks[i].cashier = d.breaks[i].cashier /\ e.breaks[i].duration = d.breaks[i].duration
                        /\ Anchor(e.breaks[i]) = Anchor(d.breaks[i])
  BY <1>1 DEF SameButStarts
<1>3. PlacingOrder(e, from) = PlacingOrder(d, from)
  <2> DEFINE key(x, i) == <<0 - x.breaks[i].duration, x.breaks[i].cashier, from[i], i>>
             ahead(x, i) == {j \in 1 .. n : Lexicographic(key(x, j), key(x, i))}
  <2>1. \A i \in 1 .. n : key(e, i) = key(d, i)
    BY <1>2
  <2>2. \A i \in 1 .. n : ahead(e, i) = ahead(d, i)
    <3> HIDE DEF key
    <3> QED
      BY <2>1
  <2>3. /\ PlacingOrder(d, from) = [r \in 1 .. n |-> CHOOSE i \in 1 .. n : Cardinality(ahead(d, i)) = r - 1]
        /\ PlacingOrder(e, from) = [r \in 1 .. n |-> CHOOSE i \in 1 .. n : Cardinality(ahead(e, i)) = r - 1]
    BY <1>1 DEF PlacingOrder
  <2> HIDE DEF ahead
  <2>4. \A r : (CHOOSE i \in 1 .. n : Cardinality(ahead(d, i)) = r - 1) = CHOOSE i \in 1 .. n : Cardinality(ahead(e, i)) = r - 1
    BY <2>2
  <2> QED
    BY <2>3, <2>4
<1>4. ASSUME NEW i \in 1 .. n, NEW placed, SomeOf(d, placed)
      PROVE  Place(e, from, move, placed, i) = Place(d, from, move, placed, i)
  <2>1. Allowed(e, from, placed, move, i) = Allowed(d, from, placed, move, i)
    <3>1. \A j \in DOMAIN placed : e.breaks[j].cashier = d.breaks[j].cashier /\ e.breaks[j].duration = d.breaks[j].duration
      BY <1>1, <1>2, <1>4 DEF SomeOf
    <3>2. /\ e.breaks[i].cashier = d.breaks[i].cashier /\ e.breaks[i].duration = d.breaks[i].duration
          /\ Anchor(e.breaks[i]) = Anchor(d.breaks[i]) /\ e.staffing = d.staffing
      BY <1>2 DEF SameButStarts
    <3> QED
      BY <3>1, <3>2 DEF Allowed
  <2>2. \A s : Peak(e, With(placed, i, s)) = Peak(d, With(placed, i, s))
    <3>1. \A s : SomeOf(d, With(placed, i, s))
      BY <1>1, <1>4 DEF SomeOf, With
    <3> QED
      BY <3>1, PeakIsOfSchedule
  <2>3. ASSUME NEW starts
        PROVE  Best(e, from, placed, i, starts) = Best(d, from, placed, i, starts)
    <3> DEFINE distance(s) == IF s < from[i] THEN from[i] - s ELSE s - from[i]
               score(x, s) == <<Peak(x, With(placed, i, s)), distance(s), s>>
    <3>1. \A s : score(e, s) = score(d, s)
      BY <2>2
    <3>2. /\ Best(d, from, placed, i, starts) =
               CHOOSE s \in starts : \A t \in starts \ {s} : Lexicographic(score(d, s), score(d, t))
          /\ Best(e, from, placed, i, starts) =
               CHOOSE s \in starts : \A t \in starts \ {s} : Lexicographic(score(e, s), score(e, t))
      BY DEF Best
    <3> HIDE DEF score
    <3> QED
      BY <3>1, <3>2
  <2> QED
    BY <2>1, <2>3 DEF Place
<1>5. PICK f : Builds(d, from, move, f, n) /\ Pass(d, from, move) = f[n]
  BY <1>1, PassIsBuilt
<1>6. PICK g : Builds(e, from, move, g, n) /\ Pass(e, from, move) = g[n]
  BY <1>1, PassIsBuilt
<1>7. f[0] = <<>> /\ \A k \in 1 .. n : f[k] = Place(d, from, move, f[k - 1], PlacingOrder(d, from)[k])
  BY <1>5, BuiltByPlacing
<1>8. g[0] = <<>> /\ \A k \in 1 .. n : g[k] = Place(e, from, move, g[k - 1], PlacingOrder(e, from)[k])
  BY <1>6, BuiltByPlacing
<1> DEFINE Bad == {k \in 0 .. n : ~(g[k] = f[k] /\ KeepsRules(d, move, f[k]))}
<1>9. Bad = {}
  <2> SUFFICES ASSUME Bad # {} PROVE FALSE
    OBVIOUS
  <2>1. PICK m \in Bad : \A k \in Bad : m <= k
    <3>1. Bad \subseteq Nat
      OBVIOUS
    <3> QED
      BY <3>1, LeastNumber
  <2>2. m \in 0 .. n /\ ~(g[m] = f[m] /\ KeepsRules(d, move, f[m]))
    BY <2>1
  <2>3. CASE m = 0
    <3>1. DOMAIN f[0] = {} /\ f[0] = [j \in DOMAIN f[0] |-> f[0][j]]
      BY <1>7
    <3>2. KeepsRules(d, move, f[0])
      BY <3>1 DEF KeepsRules, SomeOf
    <3> QED
      BY <1>7, <1>8, <2>2, <2>3, <3>2
  <2>4. CASE m # 0
    <3>1. m \in 1 .. n /\ m - 1 \in 0 .. n /\ m - 1 < m
      BY <2>2, <2>4
    <3>2. g[m - 1] = f[m - 1] /\ KeepsRules(d, move, f[m - 1])
      <4>1. m - 1 \notin Bad
        BY <2>1, <3>1
      <4> QED
        BY <3>1, <4>1
    <3>3. PICK i \in 1 .. n : i = PlacingOrder(d, from)[m]
      BY <1>1, <3>1, OrderIsOfBreaks
    <3>4. KeepsRules(d, move, Place(d, from, move, f[m - 1], i))
      BY <1>1, <3>2, PlacingKeepsRules
    <3>5. Place(e, from, move, f[m - 1], i) = Place(d, from, move, f[m - 1], i)
      BY <1>4, <3>2 DEF KeepsRules
    <3>6. f[m] = Place(d, from, move, f[m - 1], i) /\ g[m] = Place(e, from, move, f[m - 1], i)
      BY <1>3, <1>7, <1>8, <3>1, <3>2, <3>3
    <3> QED
      BY <2>2, <3>4, <3>5, <3>6
  <2> QED
    BY <2>3, <2>4
<1>10. n \in 0 .. n
  OBVIOUS
<1> HIDE DEF Bad
<1>11. g[n] = f[n]
  BY <1>9, <1>10 DEF Bad
<1> QED
  BY <1>5, <1>6, <1>11

\* The day a placement is computed for.
Today == Day(setup, data)

\* A pass from here changes nothing.
Stuck(d, from, move) ==
  LET found == Pass(d, from, move)
  IN DOMAIN found = DOMAIN d.breaks /\ ~(found # from /\ Peak(d, found) < Peak(d, from))

\* The stored breaks, and the anchors their owner typed.
BreaksAreTyped ==
  /\ setup.breaks \in Seq(BreakRow) /\ data.load \in [Segments -> Nat]
  /\ DOMAIN typed = DOMAIN setup.breaks
  /\ \A i \in DOMAIN setup.breaks : typed[i] = Anchor(setup.breaks[i])

\* A placement has begun when one was asked for, and between requests there is none.
PlacingIsAsked ==
  /\ placing = [at |-> placing.at, passes |-> placing.passes, status |-> placing.status]
  /\ request = NoRequest => placing = NotPlacing
  /\ request.kind \in {"breaks", "supervisor"} => placing.status # "none"

\* What a placement has reached: where it began, or a better schedule that follows the rules.
PlacingImproves ==
  placing.status # "none" =>
    /\ CanPlace(setup) /\ request.move \in Moves
    /\ placing.at \in [DOMAIN setup.breaks -> Nat]
    /\ \/ placing.at = BreakStarts(Today)
       \/ /\ KeepsRules(Today, request.move, placing.at)
          /\ Peak(Today, placing.at) < Peak(Today, BreakStarts(Today))
    /\ placing.status = "settled" => Stuck(Today, placing.at, request.move)
    /\ settled = request.move => placing.at = BreakStarts(Today)

\* Breaks that settled are where a further placement leaves them.
SettledStays == settled # NoTime => Stuck(Today, BreakStarts(Today), settled)

BreaksInv ==
  /\ DaysInv /\ BreaksAreTyped /\ PlacingIsAsked /\ PlacingImproves /\ SettledStays
  /\ MovedBreaksKeepTheRules

\* The shift of a cashier who works.
LEMMA ShiftIsKnown ==
  ASSUME PlanAssumptions, NEW staffing, NEW c, {t \in Segments : c \in staffing[t]} # {}
  PROVE  /\ ShiftOf(staffing, c).low = Min({t \in Segments : c \in staffing[t]})
         /\ ShiftOf(staffing, c).high = Max({t \in Segments : c \in staffing[t]}) + SegmentLength
         /\ ShiftOf(staffing, c).low \in Nat /\ ShiftOf(staffing, c).high \in Nat
<1> DEFINE worked == {t \in Segments : c \in staffing[t]}
<1>1. Segments \subseteq Nat /\ IsFiniteSet(Segments) /\ SegmentLength \in Nat
  BY DEF PlanAssumptions, PlacementConstants
<1>2. worked \subseteq Nat /\ IsFiniteSet(worked) /\ worked # {}
  BY <1>1, FS_Subset
<1>3. ShiftOf(staffing, c) = [low |-> Min(worked), high |-> Max(worked) + SegmentLength]
  BY DEF ShiftOf
<1> HIDE DEF worked
<1>4. Min(worked) \in Nat
  BY <1>2, MinIsLeast
<1>5. Max(worked) \in Nat
  BY <1>2, GreatestNumber
<1> QED
  BY <1>1, <1>3, <1>4, <1>5 DEF worked

\* Breaks can be placed on the day of a Setup that allows it.
LEMMA TodayIsOK ==
  ASSUME PlanAssumptions, BreaksAreTyped, ValidBreaks(setup), setup.layout = "representative"
  PROVE  /\ DayOK(Today) /\ Today.breaks = setup.breaks /\ Today.staffing = setup.staffing /\ Today.load = data.load
         /\ \A i \in DOMAIN setup.breaks : {t \in Segments : setup.breaks[i].cashier \in setup.staffing[t]} # {}
<1>1. Today.breaks = setup.breaks /\ Today.staffing = setup.staffing /\ Today.load = data.load
  BY DEF Today, Day
<1>2. ASSUME NEW i \in DOMAIN setup.breaks
      PROVE  {t \in Segments : setup.breaks[i].cashier \in setup.staffing[t]} # {}
  BY DEF ValidBreaks
<1>3. \A i \in DOMAIN setup.breaks : ShiftOf(setup.staffing, setup.breaks[i].cashier).low \in Nat
  BY <1>2, ShiftIsKnown
<1> QED
  BY <1>1, <1>2, <1>3 DEF DayOK, BreaksAreTyped

\* Where the breaks start today.
LEMMA StartsOfToday ==
  ASSUME BreaksAreTyped
  PROVE  /\ BreakStarts(Today) \in [DOMAIN setup.breaks -> Nat]
         /\ \A i \in DOMAIN setup.breaks : BreakStarts(Today)[i] = setup.breaks[i].start
<1>1. Today.breaks = setup.breaks
  BY DEF Today, Day
<1>2. \A i \in DOMAIN setup.breaks : setup.breaks[i].start \in Nat
  <2>1. \A b \in BreakRow : b.start \in Nat
    BY DEF BreakRow
  <2> QED
    BY <2>1 DEF BreaksAreTyped
<1> QED
  BY <1>1, <1>2 DEF BreakStarts

\* The largest move is a number.
LEMMA MovesAreBounded ==
  ASSUME PlanAssumptions
  PROVE  Max(Moves) \in Nat /\ \A m \in Moves : m \in Nat /\ m <= Max(Moves)
<1>1. Moves \subseteq Nat /\ Moves # {} /\ IsFiniteSet(Moves)
  BY DEF PlanAssumptions, PlanningConstants
<1> QED
  BY <1>1, GreatestNumber

\* The first breaks.
LEMMA BreaksInit ==
  ASSUME PlanAssumptions, PlanningInit
  PROVE  BreaksInv
<1>1. /\ request = NoRequest /\ placing = NotPlacing /\ settled = NoTime
      /\ typed = BreakStarts(Today) /\ setup \in Setups /\ data \in Records(setup)
  BY DEF PlanningInit, Today
<1>2. ValidBreaks(setup) /\ (setup.breaks = <<>> \/ \E i, j, k \in FirstStarts : setup.breaks = BreaksAt(i, j, k))
  BY <1>1 DEF Setups
<1>3. setup.breaks \in Seq(BreakRow) /\ \A i \in DOMAIN setup.breaks : setup.breaks[i].original = NoTime
  <2>1. Max(Cashiers) \in Cashiers /\ Min(Cashiers) \in Cashiers
    <3>1. Cashiers \subseteq Nat /\ IsFiniteSet(Cashiers) /\ Cashiers # {}
      BY DEF PlanAssumptions, PlacementConstants
    <3> QED
      BY <3>1, GreatestNumber, MinIsLeast
  <2>2. Long \in Nat \ {0} /\ Short \in Nat \ {0} /\ \A s \in FirstStarts : s \in Nat
    BY DEF PlanAssumptions, PlanningConstants
  <2>3. CASE setup.breaks = <<>>
    BY <2>3
  <2>4. ASSUME NEW i \in FirstStarts, NEW j \in FirstStarts, NEW k \in FirstStarts, setup.breaks = BreaksAt(i, j, k)
        PROVE  setup.breaks \in Seq(BreakRow) /\ \A l \in DOMAIN setup.breaks : setup.breaks[l].original = NoTime
    <3> DEFINE row(c, start, duration) == [cashier |-> c, start |-> start, duration |-> duration, original |-> NoTime]
    <3>1. /\ row(Max(Cashiers), i, Long) \in BreakRow
          /\ row(Min(Cashiers), j, Long) \in BreakRow
          /\ row(Min(Cashiers), k, Short) \in BreakRow
      BY <2>1, <2>2 DEF BreakRow
    <3>2. PICK x, y, z : /\ x = row(Max(Cashiers), i, Long) /\ y = row(Min(Cashiers), j, Long)
                         /\ z = row(Min(Cashiers), k, Short)
      OBVIOUS
    <3>3. x.original = NoTime /\ y.original = NoTime /\ z.original = NoTime
      BY <3>2
    <3>4. setup.breaks = <<x, y, z>>
      BY <2>4, <3>2 DEF BreaksAt
    <3>5. x \in BreakRow /\ y \in BreakRow /\ z \in BreakRow
      BY <3>1, <3>2
    <3> HIDE DEF row
    <3> QED
      BY <3>3, <3>4, <3>5
  <2> QED
    BY <1>2, <2>3, <2>4
<1>4. data.load \in [Segments -> Nat]
  <2>1. data.load \in [Segments -> Loads] /\ \A l \in Loads : l \in Nat
    BY <1>1 DEF Records, PlanAssumptions, PlanningConstants
  <2> QED
    BY <2>1
<1>5. /\ DOMAIN typed = DOMAIN setup.breaks
      /\ \A i \in DOMAIN setup.breaks : typed[i] = setup.breaks[i].start /\ setup.breaks[i].start \in Nat
                                        /\ typed[i] = Anchor(setup.breaks[i])
  <2>1. Today.breaks = setup.breaks
    BY DEF Today, Day
  <2>2. \A i \in DOMAIN setup.breaks : setup.breaks[i].start \in Nat
    <3>1. \A b \in BreakRow : b.start \in Nat
      BY DEF BreakRow
    <3> QED
      BY <1>3, <3>1
  <2> QED
    BY <1>1, <1>3, <2>1, <2>2 DEF BreakStarts, Anchor
<1>6. BreaksAreTyped
  BY <1>3, <1>4, <1>5 DEF BreaksAreTyped
<1>7. PlacingIsAsked /\ PlacingImproves /\ SettledStays
  BY <1>1 DEF PlacingIsAsked, PlacingImproves, SettledStays, NoRequest, NotPlacing
<1>8. MovedBreaksKeepTheRules
  <2>1. \A i \in DOMAIN setup.breaks : setup.breaks[i].start - typed[i] \in -Max(Moves) .. Max(Moves)
    BY <1>5, MovesAreBounded
  <2> QED
    BY <1>1, <1>2, <2>1 DEF MovedBreaksKeepTheRules
<1>9. DaysInv
  BY DaysInit
<1> QED
  BY <1>6, <1>7, <1>8, <1>9 DEF BreaksInv

\* A step that keeps the breaks, the demand and the placement, or that asks for a request without one.
LEMMA BreaksAreKept ==
  ASSUME BreaksInv, DaysInv', UNCHANGED <<setup, data, settled, typed>>,
         \/ UNCHANGED <<request, placing>>
         \/ placing' = NotPlacing /\ request'.kind \notin {"breaks", "supervisor"}
  PROVE  BreaksInv'
<1>1. Today' = Today
  BY DEF Today, Day
<1>2. BreaksAreTyped' /\ SettledStays' /\ MovedBreaksKeepTheRules'
  BY <1>1 DEF BreaksInv, BreaksAreTyped, SettledStays, MovedBreaksKeepTheRules
<1>3. CASE UNCHANGED <<request, placing>>
  <2>1. PlacingIsAsked' /\ PlacingImproves'
    BY <1>1, <1>3 DEF BreaksInv, PlacingIsAsked, PlacingImproves, CanPlace
  <2> QED
    BY <1>2, <2>1 DEF BreaksInv
<1>4. CASE placing' = NotPlacing /\ request'.kind \notin {"breaks", "supervisor"}
  <2>1. PlacingIsAsked' /\ PlacingImproves'
    BY <1>4 DEF PlacingIsAsked, PlacingImproves, NotPlacing
  <2> QED
    BY <1>2, <2>1 DEF BreaksInv
<1> QED
  BY <1>3, <1>4

\* A placement begins where the breaks are.
LEMMA PlacementBegins ==
  ASSUME PlanAssumptions, BreaksInv, DaysInv', NEW kind \in {"breaks", "supervisor"}, NEW move \in Moves, Ask(kind, move)
  PROVE  BreaksInv'
<1>1. /\ UNCHANGED <<setup, data, settled, typed>> /\ CanPlace(setup)
      /\ request' = [kind |-> kind, move |-> move]
      /\ placing' = [at |-> BreakStarts(Today), passes |-> 0, status |-> "placing"]
  BY DEF Ask, Today
<1>2. Today' = Today /\ CanPlace(setup)'
  BY <1>1 DEF Today, Day, CanPlace
<1>3. BreaksAreTyped' /\ SettledStays' /\ MovedBreaksKeepTheRules'
  BY <1>1, <1>2 DEF BreaksInv, BreaksAreTyped, SettledStays, MovedBreaksKeepTheRules
<1>4. request'.move = move /\ request' # NoRequest /\ placing'.at = BreakStarts(Today) /\ placing'.status = "placing"
  BY <1>1 DEF NoRequest
<1>5. PlacingIsAsked'
  BY <1>1, <1>4 DEF PlacingIsAsked
<1>6. PlacingImproves'
  BY <1>1, <1>2, <1>4, StartsOfToday DEF PlacingImproves, BreaksInv
<1> QED
  BY <1>3, <1>5, <1>6 DEF BreaksInv

\* A pass is kept or not.
LEMMA PassImproves ==
  ASSUME PlanAssumptions, BreaksInv, DaysInv', PlacePass
  PROVE  BreaksInv'
<1>1. UNCHANGED <<setup, data, request, settled, typed>> /\ placing.status = "placing"
  BY DEF PlacePass
<1>2. PICK at, move, found : at = placing.at /\ move = request.move /\ found = Pass(Today, at, move)
  OBVIOUS
<1>3. /\ CanPlace(setup) /\ move \in Moves /\ at \in [DOMAIN setup.breaks -> Nat]
      /\ \/ at = BreakStarts(Today)
         \/ KeepsRules(Today, move, at) /\ Peak(Today, at) < Peak(Today, BreakStarts(Today))
      /\ settled = move => at = BreakStarts(Today)
  BY <1>1, <1>2 DEF BreaksInv, PlacingImproves
<1>4. DayOK(Today) /\ Today.breaks = setup.breaks
  BY <1>3, TodayIsOK DEF BreaksInv, CanPlace, MovedBreaksKeepTheRules
<1>5. KeepsRules(Today, move, found)
  BY <1>2, <1>3, <1>4, MovesAreBounded, PassKeepsRules
<1>6. Today' = Today /\ CanPlace(setup)'
  BY <1>1, <1>3 DEF Today, Day, CanPlace
<1>7. BreaksAreTyped' /\ SettledStays' /\ MovedBreaksKeepTheRules'
  BY <1>1, <1>6 DEF BreaksInv, BreaksAreTyped, SettledStays, MovedBreaksKeepTheRules
<1> DEFINE kept == found # at /\ Peak(Today, found) < Peak(Today, at)
<1>8. placing' = CASE DOMAIN found # DOMAIN setup.breaks -> [placing EXCEPT !.status = "no start"]
                   [] DOMAIN found = DOMAIN setup.breaks /\ ~kept -> [placing EXCEPT !.status = "settled"]
                   [] OTHER -> [at |-> found, passes |-> placing.passes + 1,
                                status |-> IF placing.passes + 1 = MaxPasses THEN "capped" ELSE "placing"]
  BY <1>2 DEF PlacePass, IsBetter, Today
<1>9. placing = [at |-> placing.at, passes |-> placing.passes, status |-> placing.status]
  BY DEF BreaksInv, PlacingIsAsked
<1>10. /\ request # NoRequest
       /\ placing' = [at |-> placing'.at, passes |-> placing'.passes, status |-> placing'.status] /\ placing'.status # "none"
       => PlacingIsAsked'
  BY <1>1 DEF PlacingIsAsked
<1>11. request # NoRequest
  BY <1>1 DEF BreaksInv, PlacingIsAsked, NotPlacing
<1>12. CASE DOMAIN found # DOMAIN setup.breaks
  <2>1. placing' = [at |-> at, passes |-> placing.passes, status |-> "no start"]
    <3>1. placing' = [placing EXCEPT !.status = "no start"]
      BY <1>8, <1>12
    <3> QED
      BY <1>2, <1>9, <3>1
  <2>2. placing'.at = at /\ placing'.status = "no start"
    BY <2>1
  <2>3. PlacingIsAsked'
    BY <1>10, <1>11, <2>1
  <2>4. PlacingImproves'
    BY <1>1, <1>2, <1>3, <1>6, <2>2 DEF PlacingImproves
  <2> QED
    BY <1>7, <2>3, <2>4 DEF BreaksInv
<1>13. CASE DOMAIN found = DOMAIN setup.breaks /\ ~kept
  <2>1. placing' = [at |-> at, passes |-> placing.passes, status |-> "settled"]
    <3>1. placing' = [placing EXCEPT !.status = "settled"]
      BY <1>8, <1>13
    <3> QED
      BY <1>2, <1>9, <3>1
  <2>2. placing'.at = at /\ placing'.status = "settled"
    BY <2>1
  <2>3. PlacingIsAsked'
    BY <1>10, <1>11, <2>1
  <2>4. Stuck(Today, at, move)
    BY <1>2, <1>4, <1>13 DEF Stuck
  <2>5. PlacingImproves'
    BY <1>1, <1>2, <1>3, <1>6, <2>2, <2>4 DEF PlacingImproves
  <2> QED
    BY <1>7, <2>3, <2>5 DEF BreaksInv
<1>14. CASE DOMAIN found = DOMAIN setup.breaks /\ kept
  <2>1. PICK status \in {"capped", "placing"} : placing' = [at |-> found, passes |-> placing.passes + 1, status |-> status]
    BY <1>8, <1>14
  <2>2. placing'.at = found /\ placing'.status = status
    BY <2>1
  <2>3. PlacingIsAsked'
    BY <1>10, <1>11, <2>1
  <2>4. found \in [DOMAIN setup.breaks -> Nat]
    <3>1. \A i \in DOMAIN found : found[i] \in Nat
      BY <1>5 DEF KeepsRules, MayStart
    <3>2. found = [i \in DOMAIN found |-> found[i]]
      BY <1>5 DEF KeepsRules
    <3> QED
      BY <1>14, <3>1, <3>2
  <2>5. Peak(Today, found) < Peak(Today, BreakStarts(Today))
    <3>1. DOMAIN found = DOMAIN setup.breaks /\ DOMAIN at = DOMAIN setup.breaks /\ DOMAIN BreakStarts(Today) = DOMAIN setup.breaks
      BY <1>3, <1>14, StartsOfToday DEF BreaksInv
    <3>2. IsFiniteSet(DOMAIN setup.breaks)
      BY <1>4, BreaksOfTheDay
    <3>3. /\ Peak(Today, found) \in Nat /\ Peak(Today, at) \in Nat /\ Peak(Today, BreakStarts(Today)) \in Nat
      BY <1>4, <3>1, <3>2, PeakIsNumber
    <3> QED
      BY <1>3, <1>14, <3>3
  <2>6. settled # move
    <3> SUFFICES ASSUME settled = move PROVE FALSE
      OBVIOUS
    <3>1. at = BreakStarts(Today) /\ move \in Nat
      BY <1>3, MovesAreBounded
    <3>2. Stuck(Today, at, move)
      BY <3>1 DEF BreaksInv, SettledStays, NoTime
    <3> QED
      BY <1>2, <1>14, <3>2 DEF Stuck
  <2>7. PlacingImproves'
    BY <1>1, <1>2, <1>3, <1>5, <1>6, <2>1, <2>2, <2>4, <2>5, <2>6 DEF PlacingImproves
  <2> QED
    BY <1>7, <2>3, <2>7 DEF BreaksInv
<1> QED
  BY <1>12, <1>13, <1>14

\* The stored breaks after a placement is applied.
LEMMA DraftedBreaks ==
  ASSUME PlanAssumptions, BreaksInv, placing.status # "none", \E i \in DOMAIN setup.breaks : Moved(i),
         setup' = Draft, data' = data
  PROVE  /\ DayOK(Today) /\ DayOK(Today)' /\ SameButStarts(Today, Today')
         /\ Today.breaks = setup.breaks /\ Today'.breaks = setup'.breaks /\ Today.staffing = setup.staffing
         /\ setup'.layout = setup.layout /\ setup'.staffing = setup.staffing /\ setup'.breaks \in Seq(BreakRow)
         /\ BreakStarts(Today') = placing.at
         /\ KeepsRules(Today, request.move, placing.at) /\ request.move \in Moves
         /\ Peak(Today, placing.at) < Peak(Today, BreakStarts(Today))
         /\ \A i \in DOMAIN setup.breaks :
              {t \in Segments : setup.breaks[i].cashier \in setup.staffing[t]} # {}
<1>1. PICK at : at = placing.at
  OBVIOUS
<1>2. /\ CanPlace(setup) /\ request.move \in Moves /\ at \in [DOMAIN setup.breaks -> Nat]
      /\ \/ at = BreakStarts(Today)
         \/ KeepsRules(Today, request.move, at) /\ Peak(Today, at) < Peak(Today, BreakStarts(Today))
  BY <1>1 DEF BreaksInv, PlacingImproves
<1>3. /\ DayOK(Today) /\ Today.breaks = setup.breaks /\ Today.staffing = setup.staffing /\ Today.load = data.load
      /\ \A i \in DOMAIN setup.breaks : {t \in Segments : setup.breaks[i].cashier \in setup.staffing[t]} # {}
  BY <1>2, TodayIsOK DEF BreaksInv, CanPlace, MovedBreaksKeepTheRules
<1>4. at # BreakStarts(Today)
  BY <1>1, StartsOfToday DEF Moved, BreaksInv
<1>5. setup = [layout |-> setup.layout, staffing |-> setup.staffing, breaks |-> setup.breaks]
  BY DEF BreaksInv, DaysInv, RecordsFit
<1> DEFINE row(i) == IF Moved(i) THEN [setup.breaks[i] EXCEPT !.start = placing.at[i], !.original = Anchor(setup.breaks[i])]
                     ELSE setup.breaks[i]
<1>6. setup' = [layout |-> setup.layout, staffing |-> setup.staffing, breaks |-> [i \in DOMAIN setup.breaks |-> row(i)]]
  BY <1>5 DEF Draft
<1> HIDE DEF row
<1>7. setup'.layout = setup.layout /\ setup'.staffing = setup.staffing /\ setup'.breaks = [i \in DOMAIN setup.breaks |-> row(i)]
  BY <1>6
<1>8. ASSUME NEW i \in DOMAIN setup.breaks
      PROVE  /\ row(i) \in BreakRow /\ row(i).start = at[i]
             /\ row(i).cashier = setup.breaks[i].cashier /\ row(i).duration = setup.breaks[i].duration
             /\ Anchor(row(i)) = Anchor(setup.breaks[i])
  <2>1. PICK b \in BreakRow : b = setup.breaks[i]
    BY DEF BreaksInv, BreaksAreTyped
  <2>2. /\ b = [cashier |-> b.cashier, start |-> b.start, duration |-> b.duration, original |-> b.original]
        /\ b.cashier \in Cashiers /\ b.start \in Nat /\ b.duration \in Nat \ {0} /\ b.original \in Nat \cup {NoTime}
    BY DEF BreakRow
  <2>3. PICK a \in Nat : a = Anchor(b)
    BY <2>2 DEF Anchor
  <2>4. CASE Moved(i)
    <3>1. row(i) = [cashier |-> b.cashier, start |-> at[i], duration |-> b.duration, original |-> a]
      BY <1>1, <2>1, <2>2, <2>3, <2>4 DEF row
    <3>2. at[i] \in Nat
      BY <1>2
    <3>3. a # NoTime
      BY <2>3 DEF NoTime
    <3>4. row(i) \in BreakRow
      BY <2>2, <3>1, <3>2 DEF BreakRow
    <3>5. Anchor(row(i)) = a
      BY <3>1, <3>3 DEF Anchor
    <3> QED
      BY <2>1, <2>3, <3>1, <3>4, <3>5
  <2>5. CASE ~Moved(i)
    <3>1. row(i) = b
      BY <2>1, <2>5 DEF row
    <3>2. b.start = at[i]
      BY <1>1, <2>1, <2>5 DEF Moved
    <3> QED
      BY <2>1, <3>1, <3>2
  <2> QED
    BY <2>4, <2>5
<1>9. PICK n \in Nat : n = Len(setup.breaks) /\ DOMAIN setup.breaks = 1 .. n
  BY <1>3, BreaksOfTheDay
<1>10. setup'.breaks \in Seq(BreakRow) /\ DOMAIN setup'.breaks = DOMAIN setup.breaks /\ Len(setup'.breaks) = Len(setup.breaks)
  <2>1. setup'.breaks \in [1 .. n -> BreakRow]
    BY <1>7, <1>8, <1>9
  <2>2. setup'.breaks \in Seq(BreakRow) /\ DOMAIN setup'.breaks = 1 .. n
    BY <2>1
  <2>3. Len(setup'.breaks) = n
    BY <2>2
  <2> QED
    BY <1>9, <2>2, <2>3
<1>11. Today'.breaks = setup'.breaks /\ Today'.staffing = setup.staffing /\ Today'.load = data.load
  BY <1>7 DEF Today, Day
<1>12. \A i \in DOMAIN setup.breaks :
         /\ setup'.breaks[i].start = at[i]
         /\ setup'.breaks[i].cashier = setup.breaks[i].cashier /\ setup'.breaks[i].duration = setup.breaks[i].duration
         /\ Anchor(setup'.breaks[i]) = Anchor(setup.breaks[i])
  BY <1>7, <1>8
<1>13. SameButStarts(Today, Today')
  BY <1>3, <1>10, <1>11, <1>12 DEF SameButStarts
<1>14. DayOK(Today)'
  BY <1>3, <1>10, <1>11, <1>12 DEF DayOK
<1>15. BreakStarts(Today') = at
  <2>1. BreakStarts(Today') = [i \in DOMAIN setup.breaks |-> at[i]]
    BY <1>10, <1>11, <1>12 DEF BreakStarts
  <2> QED
    BY <1>2, <2>1
<1> QED
  BY <1>1, <1>2, <1>3, <1>4, <1>7, <1>10, <1>11, <1>13, <1>14, <1>15

\* A schedule that follows the rules is one the editor accepts.
LEMMA RulesAreValid ==
  ASSUME PlanAssumptions, NEW s, NEW d, DayOK(d), NEW move \in Nat, s.staffing = d.staffing, s.breaks = d.breaks,
         KeepsRules(d, move, BreakStarts(d)), \A c \in Cashiers : IsOneShift({t \in Segments : c \in s.staffing[t]}),
         \A i \in DOMAIN s.breaks : {t \in Segments : s.breaks[i].cashier \in s.staffing[t]} # {}
  PROVE  ValidBreaks(s)
<1>1. /\ DOMAIN d.breaks \subseteq Int
      /\ \A i \in DOMAIN d.breaks : /\ d.breaks[i].cashier \in Cashiers /\ d.breaks[i].start \in Nat
                                    /\ d.breaks[i].duration \in Nat \ {0}
  BY BreaksOfTheDay
<1>2. BreakStarts(d) = [i \in DOMAIN d.breaks |-> d.breaks[i].start]
  BY DEF BreakStarts
<1>3. DOMAIN BreakStarts(d) = DOMAIN d.breaks /\ \A i \in DOMAIN d.breaks : BreakStarts(d)[i] = d.breaks[i].start
  BY <1>2
<1>4. Edge \in Nat
  BY DEF PlanAssumptions, PlacementConstants
<1>5. ASSUME NEW i \in DOMAIN s.breaks
      PROVE  \E run \in SUBSET {t \in Segments : s.breaks[i].cashier \in s.staffing[t]} :
               /\ run # {} /\ IsOneShift(run)
               /\ Min(run) <= s.breaks[i].start
               /\ s.breaks[i].start + s.breaks[i].duration <= Max(run) + SegmentLength
  <2>1. PICK c, run : c = s.breaks[i].cashier /\ run = {t \in Segments : c \in s.staffing[t]}
    OBVIOUS
  <2>2. c \in Cashiers /\ run # {} /\ IsOneShift(run)
    BY <1>1, <2>1
  <2>3. PICK low \in Nat, high \in Nat : /\ low = ShiftOf(s.staffing, c).low /\ high = ShiftOf(s.staffing, c).high
                                         /\ low = Min(run) /\ high = Max(run) + SegmentLength
    <3>1. {t \in Segments : c \in s.staffing[t]} # {}
      BY <2>1, <2>2
    <3>2. /\ ShiftOf(s.staffing, c).low = Min({t \in Segments : c \in s.staffing[t]})
          /\ ShiftOf(s.staffing, c).high = Max({t \in Segments : c \in s.staffing[t]}) + SegmentLength
          /\ ShiftOf(s.staffing, c).low \in Nat /\ ShiftOf(s.staffing, c).high \in Nat
      BY <3>1, ShiftIsKnown
    <3> QED
      BY <2>1, <3>2
  <2>4. low + Edge <= s.breaks[i].start /\ s.breaks[i].start + s.breaks[i].duration <= high - Edge
    BY <1>3, <2>1, <2>3 DEF KeepsRules, MayStart
  <2>5. low <= s.breaks[i].start /\ s.breaks[i].start + s.breaks[i].duration <= high
    BY <1>1, <1>4, <2>3, <2>4
  <2> QED
    BY <2>1, <2>2, <2>3, <2>5
<1>6. ASSUME NEW i \in DOMAIN s.breaks, NEW j \in DOMAIN s.breaks, i < j, s.breaks[i].cashier = s.breaks[j].cashier
      PROVE  \/ s.breaks[i].start + s.breaks[i].duration <= s.breaks[j].start
             \/ s.breaks[j].start + s.breaks[j].duration <= s.breaks[i].start
  <2>1. i # j
    BY <1>1, <1>6
  <2> QED
    BY <1>3, <1>6, <2>1 DEF KeepsRules, Apart
<1> QED
  BY <1>5, <1>6 DEF ValidBreaks

\* Applied breaks follow the rules, and where a placement settled they stay.
LEMMA DraftKeeps ==
  ASSUME PlanAssumptions, BreaksInv, DaysInv', placing.status # "none", \E i \in DOMAIN setup.breaks : Moved(i),
         WriteDraft, EndRequest, UNCHANGED <<data, typed>>
  PROVE  BreaksInv'
<1>1. setup' = Draft /\ settled' = IF placing.status = "settled" THEN request.move ELSE NoTime
  BY DEF WriteDraft
<1>2. request' = NoRequest /\ placing' = NotPlacing
  BY DEF EndRequest
<1>3. /\ DayOK(Today) /\ DayOK(Today)' /\ SameButStarts(Today, Today')
      /\ Today.breaks = setup.breaks /\ Today'.breaks = setup'.breaks /\ Today.staffing = setup.staffing
      /\ setup'.layout = setup.layout /\ setup'.staffing = setup.staffing /\ setup'.breaks \in Seq(BreakRow)
      /\ BreakStarts(Today') = placing.at
      /\ KeepsRules(Today, request.move, placing.at) /\ request.move \in Moves
      /\ \A i \in DOMAIN setup.breaks : {t \in Segments : setup.breaks[i].cashier \in setup.staffing[t]} # {}
  BY <1>1, DraftedBreaks
<1>4. /\ CanPlace(setup) /\ placing.at \in [DOMAIN setup.breaks -> Nat]
      /\ placing.status = "settled" => Stuck(Today, placing.at, request.move)
  BY DEF BreaksInv, PlacingImproves
<1>5. /\ request.move \in Nat /\ request.move <= Max(Moves) /\ Max(Moves) \in Nat
  BY <1>3, MovesAreBounded
<1>6. /\ DOMAIN setup'.breaks = DOMAIN setup.breaks
      /\ \A i \in DOMAIN setup.breaks :
           /\ setup'.breaks[i].cashier = setup.breaks[i].cashier /\ setup'.breaks[i].duration = setup.breaks[i].duration
           /\ Anchor(setup'.breaks[i]) = Anchor(setup.breaks[i])
  BY <1>3 DEF SameButStarts
<1>7. PICK e : e = Today'
  OBVIOUS
<1>8. DayOK(e) /\ SameButStarts(Today, e) /\ e.breaks = setup'.breaks /\ e.staffing = setup'.staffing /\ BreakStarts(e) = placing.at
  <2>1. DayOK(e)
    BY <1>3, <1>7 DEF DayOK
  <2>2. e.staffing = setup'.staffing
    BY <1>3, <1>7 DEF SameButStarts
  <2> QED
    BY <1>3, <1>7, <2>1, <2>2
<1>9. \A i \in DOMAIN setup.breaks : /\ placing.at[i] = setup'.breaks[i].start /\ setup'.breaks[i].start \in Nat
                                     /\ Anchor(setup'.breaks[i]) \in Nat
  BY <1>6, <1>8, BreaksOfTheDay DEF BreakStarts
<1>10. KeepsRules(e, request.move, BreakStarts(e))
  BY <1>3, <1>8 DEF KeepsRules, SomeOf, MayStart, Apart, SameButStarts
<1>11. ValidBreaks(setup')
  <2>1. \A c \in Cashiers : IsOneShift({t \in Segments : c \in setup'.staffing[t]})
    BY <1>3, <1>4 DEF CanPlace
  <2>2. \A i \in DOMAIN setup'.breaks : {t \in Segments : setup'.breaks[i].cashier \in setup'.staffing[t]} # {}
    BY <1>3, <1>6
  <2> QED
    BY <1>5, <1>8, <1>10, <2>1, <2>2, RulesAreValid
<1>12. BreaksAreTyped'
  <2>1. data'.load \in [Segments -> Nat] /\ DOMAIN typed' = DOMAIN setup'.breaks
    BY <1>6 DEF BreaksInv, BreaksAreTyped
  <2>2. \A i \in DOMAIN setup'.breaks : typed'[i] = Anchor(setup'.breaks[i])
    BY <1>6 DEF BreaksInv, BreaksAreTyped
  <2> QED
    BY <1>3, <2>1, <2>2 DEF BreaksAreTyped
<1>13. PlacingIsAsked' /\ PlacingImproves'
  BY <1>2 DEF PlacingIsAsked, PlacingImproves, NoRequest, NotPlacing
<1>14. SettledStays'
  <2> SUFFICES ASSUME settled' # NoTime
               PROVE  Stuck(e, BreakStarts(e), settled')
    BY <1>7 DEF SettledStays, NoTime
  <2>1. placing.status = "settled" /\ settled' = request.move
    BY <1>1
  <2>2. PICK at \in [DOMAIN Today.breaks -> Nat] : at = placing.at
    BY <1>3, <1>4
  <2>3. Stuck(Today, at, request.move)
    BY <1>4, <2>1, <2>2
  <2>4. PICK found : found = Pass(Today, at, request.move)
    OBVIOUS
  <2>5. Pass(e, at, request.move) = found
    BY <1>3, <1>5, <1>8, <2>4, PassIsOfSchedule
  <2>6. Peak(e, at) = Peak(Today, at)
    BY <1>8, PeakIsOfSchedule DEF SomeOf
  <2>7. DOMAIN found = DOMAIN Today.breaks /\ ~(found # at /\ Peak(Today, found) < Peak(Today, at))
    BY <2>3, <2>4 DEF Stuck
  <2>8. Peak(e, found) = Peak(Today, found)
    BY <1>8, <2>7, PeakIsOfSchedule DEF SomeOf
  <2>9. DOMAIN e.breaks = DOMAIN Today.breaks
    BY <1>8 DEF SameButStarts
  <2> QED
    BY <1>8, <2>1, <2>2, <2>5, <2>6, <2>7, <2>8, <2>9 DEF Stuck
<1>15. MovedBreaksKeepTheRules'
  <2> SUFFICES ASSUME NEW i \in DOMAIN setup'.breaks
               PROVE  /\ setup'.breaks[i].start - typed'[i] \in -Max(Moves) .. Max(Moves)
                      /\ settled' # NoTime =>
                           /\ ShiftOf(setup'.staffing, setup'.breaks[i].cashier).low + Edge <= setup'.breaks[i].start
                           /\ setup'.breaks[i].start + setup'.breaks[i].duration
                                <= ShiftOf(setup'.staffing, setup'.breaks[i].cashier).high - Edge
    BY <1>11 DEF MovedBreaksKeepTheRules
  <2>1. /\ i \in DOMAIN setup.breaks /\ BreakStarts(e)[i] = setup'.breaks[i].start /\ DOMAIN BreakStarts(e) = DOMAIN setup'.breaks
    BY <1>4, <1>6, <1>8, <1>9
  <2>2. MayStart(e, request.move, i, setup'.breaks[i].start)
    BY <1>10, <2>1 DEF KeepsRules
  <2>3. PICK s, a \in Nat : s = setup'.breaks[i].start /\ a = Anchor(setup'.breaks[i])
    BY <1>9, <2>1
  <2>4. s \in Nat /\ s - a \in -request.move .. request.move
    BY <1>8, <2>2, <2>3 DEF MayStart
  <2>5. s - a \in -Max(Moves) .. Max(Moves)
    BY <1>5, <2>3, <2>4
  <2>6. typed'[i] = a
    BY <1>12, <2>3 DEF BreaksAreTyped
  <2> QED
    BY <1>8, <2>2, <2>3, <2>5, <2>6 DEF MayStart
<1> QED
  BY <1>11, <1>12, <1>13, <1>14, <1>15 DEF BreaksInv

\* The owner types a start: it becomes the anchor.
LEMMA TypingKeeps ==
  ASSUME PlanAssumptions, BreaksInv, DaysInv', NEW i \in DOMAIN setup.breaks, NEW start \in Typed, TypeStart(i, start)
  PROVE  BreaksInv'
<1>1. /\ request = NoRequest /\ UNCHANGED <<data, request, placing>> /\ ValidBreaks(setup')
      /\ setup' = [setup EXCEPT !.breaks[i].start = start, !.breaks[i].original = NoTime]
      /\ typed' = [typed EXCEPT ![i] = start] /\ settled' = NoTime
  BY DEF TypeStart
<1>2. start \in Nat
  BY DEF PlanAssumptions, PlanningConstants
<1>3. PICK b \in BreakRow : b = setup.breaks[i]
  BY DEF BreaksInv, BreaksAreTyped
<1>4. b = [cashier |-> b.cashier, start |-> b.start, duration |-> b.duration, original |-> b.original]
      /\ b.cashier \in Cashiers /\ b.duration \in Nat \ {0}
  BY DEF BreakRow
<1>5. PICK row : row = [cashier |-> b.cashier, start |-> start, duration |-> b.duration, original |-> NoTime]
  OBVIOUS
<1>6. setup'.breaks = [setup.breaks EXCEPT ![i] = row] /\ setup'.layout = setup.layout
  <2>1. setup = [layout |-> setup.layout, staffing |-> setup.staffing, breaks |-> setup.breaks]
    BY DEF BreaksInv, DaysInv, RecordsFit
  <2>2. setup' = [setup EXCEPT !.breaks = [setup.breaks EXCEPT ![i] = [[b EXCEPT !.start = start] EXCEPT !.original = NoTime]]]
    BY <1>1, <1>3, <2>1
  <2>3. [[b EXCEPT !.start = start] EXCEPT !.original = NoTime] = row
    <3>1. PICK c : c = [b EXCEPT !.start = start]
      OBVIOUS
    <3>2. c = [cashier |-> b.cashier, start |-> start, duration |-> b.duration, original |-> b.original]
      BY <1>4, <3>1
    <3>3. [c EXCEPT !.original = NoTime] = row
      BY <1>5, <3>2
    <3> QED
      BY <3>1, <3>3
  <2>4. setup' = [setup EXCEPT !.breaks = [setup.breaks EXCEPT ![i] = row]]
    BY <2>2, <2>3
  <2> QED
    BY <2>1, <2>4
<1>7. row \in BreakRow /\ row.start = start /\ Anchor(row) = start
  <2>1. row \in BreakRow
    BY <1>2, <1>4, <1>5 DEF BreakRow
  <2>2. row.start = start /\ row.original = NoTime
    BY <1>5
  <2> QED
    BY <2>1, <2>2 DEF Anchor
<1>8. /\ setup'.breaks \in Seq(BreakRow) /\ DOMAIN setup'.breaks = DOMAIN setup.breaks
      /\ setup'.breaks[i] = row /\ \A j \in DOMAIN setup.breaks \ {i} : setup'.breaks[j] = setup.breaks[j]
  BY <1>6, <1>7 DEF BreaksInv, BreaksAreTyped
<1>9. DOMAIN typed = DOMAIN setup.breaks /\ typed'[i] = start /\ DOMAIN typed' = DOMAIN typed
      /\ \A j \in DOMAIN setup.breaks \ {i} : typed'[j] = typed[j]
  BY <1>1 DEF BreaksInv, BreaksAreTyped
<1>10. BreaksAreTyped'
  <2>1. \A j \in DOMAIN setup'.breaks : typed'[j] = Anchor(setup'.breaks[j])
    BY <1>7, <1>8, <1>9 DEF BreaksInv, BreaksAreTyped
  <2>2. data'.load \in [Segments -> Nat]
    BY <1>1 DEF BreaksInv, BreaksAreTyped
  <2> QED
    BY <1>8, <1>9, <2>1, <2>2 DEF BreaksAreTyped
<1>11. PlacingIsAsked' /\ PlacingImproves' /\ SettledStays'
  <2>1. request' = NoRequest /\ placing' = NotPlacing
    BY <1>1 DEF BreaksInv, PlacingIsAsked
  <2> QED
    BY <1>1, <2>1 DEF PlacingIsAsked, PlacingImproves, SettledStays, NoRequest, NotPlacing
<1>12. MovedBreaksKeepTheRules'
  <2>1. ASSUME NEW j \in DOMAIN setup'.breaks
        PROVE  setup'.breaks[j].start - typed'[j] \in -Max(Moves) .. Max(Moves)
    <3>1. CASE j = i
      BY <1>2, <1>7, <1>8, <1>9, <3>1, MovesAreBounded
    <3>2. CASE j # i
      BY <1>8, <1>9, <3>2 DEF BreaksInv, MovedBreaksKeepTheRules
    <3> QED
      BY <3>1, <3>2
  <2>2. settled' = NoTime
    BY <1>1
  <2> QED
    BY <1>1, <2>1, <2>2 DEF MovedBreaksKeepTheRules, NoTime
<1> QED
  BY <1>10, <1>11, <1>12 DEF BreaksInv

\* Other data: the breaks stay, and what was placed for the data before is forgotten.
LEMMA UploadKeeps ==
  ASSUME PlanAssumptions, BreaksInv, DaysInv', Upload
  PROVE  BreaksInv'
<1>1. /\ request = NoRequest /\ UNCHANGED <<setup, request, placing, typed>> /\ settled' = NoTime
      /\ data' \in Records(setup)
  BY DEF Upload
<1>2. data'.load \in [Segments -> Nat]
  <2>1. data'.load \in [Segments -> Loads] /\ \A l \in Loads : l \in Nat
    BY <1>1 DEF Records, PlanAssumptions, PlanningConstants
  <2> QED
    BY <2>1
<1>3. BreaksAreTyped'
  BY <1>1, <1>2 DEF BreaksInv, BreaksAreTyped
<1>4. PlacingIsAsked' /\ PlacingImproves' /\ SettledStays'
  <2>1. request' = NoRequest /\ placing' = NotPlacing
    BY <1>1 DEF BreaksInv, PlacingIsAsked
  <2> QED
    BY <1>1, <2>1 DEF PlacingIsAsked, PlacingImproves, SettledStays, NoRequest, NotPlacing
<1>5. MovedBreaksKeepTheRules'
  BY <1>1 DEF BreaksInv, MovedBreaksKeepTheRules, NoTime
<1> QED
  BY <1>3, <1>4, <1>5 DEF BreaksInv

\* A request that ends applies its placement or not.
LEMMA EndKeeps ==
  ASSUME PlanAssumptions, BreaksInv, DaysInv', EndRequest, UNCHANGED <<data, typed>>,
         \/ UNCHANGED <<setup, settled>>
         \/ WriteDraft /\ placing.status # "none" /\ \E i \in DOMAIN setup.breaks : Moved(i)
  PROVE  BreaksInv'
<1>1. request'.kind = "none" /\ placing' = NotPlacing
  BY DEF EndRequest, NoRequest
<1> QED
  BY <1>1, BreaksAreKept, DraftKeeps

\* The requests that may write, and what they write.
LEMMA RequestsEnd ==
  ASSUME BreaksInv, ApplyBreaks \/ ApplySupervised \/ RefusePlacing \/ Show
  PROVE  /\ EndRequest /\ UNCHANGED <<data, typed>>
         /\ \/ UNCHANGED <<setup, settled>>
            \/ WriteDraft /\ placing.status # "none" /\ \E i \in DOMAIN setup.breaks : Moved(i)
<1>1. CASE ApplyBreaks
  <2>1. placing.status # "none"
    BY <1>1 DEF ApplyBreaks, Placed
  <2> QED
    BY <1>1, <2>1 DEF ApplyBreaks
<1>2. CASE ApplySupervised
  <2>1. placing.status # "none"
    BY <1>2 DEF ApplySupervised, BreaksInv, PlacingIsAsked
  <2> QED
    BY <1>2, <2>1 DEF ApplySupervised
<1>3. CASE RefusePlacing
  BY <1>3 DEF RefusePlacing
<1>4. CASE Show
  BY <1>4 DEF Show
<1> QED
  BY <1>1, <1>2, <1>3, <1>4

\* Every step keeps what is known of the breaks.
LEMMA BreaksStep ==
  ASSUME PlanAssumptions, BreaksInv, [PlanningNext]_planningVars
  PROVE  BreaksInv'
<1>0. DaysInv'
  BY DaysStep DEF BreaksInv
<1>1. ASSUME NEW kind \in {"breaks", "supervisor"}, NEW move \in Moves, Ask(kind, move)
      PROVE  BreaksInv'
  BY <1>0, <1>1, PlacementBegins
<1>2. ASSUME NEW kind \in {"optimize", "search"}, Ask(kind, 0)
      PROVE  BreaksInv'
  <2>1. /\ UNCHANGED <<setup, data, settled, typed>> /\ placing' = NotPlacing
        /\ request'.kind = kind
    BY <1>2 DEF Ask
  <2> QED
    BY <1>0, <1>2, <2>1, BreaksAreKept
<1>3. CASE PlacePass
  BY <1>0, <1>3, PassImproves
<1>4. ASSUME ApplyBreaks \/ ApplySupervised \/ RefusePlacing \/ Show
      PROVE  BreaksInv'
  BY <1>0, <1>4, RequestsEnd, EndKeeps
<1>5. ASSUME ReplicateDay \/ ReplicatePeriod \/ Judge \/ UNCHANGED planningVars
      PROVE  BreaksInv'
  <2>1. UNCHANGED <<setup, data, settled, typed, request, placing>>
    BY <1>5 DEF ReplicateDay, ReplicatePeriod, Judge, planningVars
  <2> QED
    BY <1>0, <2>1, BreaksAreKept
<1>6. ASSUME NEW i \in DOMAIN setup.breaks, NEW start \in Typed, TypeStart(i, start)
      PROVE  BreaksInv'
  BY <1>0, <1>6, TypingKeeps
<1>7. CASE Upload
  BY <1>0, <1>7, UploadKeeps
<1> QED
  BY <1>1, <1>2, <1>3, <1>4, <1>5, <1>6, <1>7 DEF PlanningNext

\* Placed again with the window they settled under, breaks are where they are.
LEMMA SettledBreaksStay ==
  ASSUME BreaksInv
  PROVE  BreaksSettleWithinTheRules
<1>1. ASSUME Placed, settled = request.move, NEW i \in DOMAIN setup.breaks
      PROVE  ~Moved(i)
  <2>1. placing.at = BreakStarts(Today)
    BY <1>1 DEF BreaksInv, PlacingImproves, Placed
  <2> QED
    BY <2>1, StartsOfToday DEF BreaksInv, Moved
<1> QED
  BY <1>1 DEF BreaksSettleWithinTheRules, PlacingAgainMovesNothing, BreaksInv

\* However often breaks are placed, applied and retyped, under whatever demand: the Setup stays one the editor accepts,
\* every break stays within the largest window around the start its owner typed, settled breaks keep off the edges of
\* their shifts, and placed again they do not move (place_breaks, apply_separate_breaks).
THEOREM BreaksAlwaysSettle ==
  PlanningSpec => []BreaksSettleWithinTheRules
<1>0. PlanAssumptions
  BY PlacementAssumption, SearchAssumption, PlanningAssumption DEF PlanAssumptions
<1>1. PlanningInit => BreaksInv
  BY <1>0, BreaksInit
<1>2. BreaksInv /\ [PlanningNext]_planningVars => BreaksInv'
  BY <1>0, BreaksStep
<1>3. BreaksInv => BreaksSettleWithinTheRules
  BY <1>0, SettledBreaksStay
<1> QED
  BY <1>1, <1>2, <1>3, PTL DEF PlanningSpec

\* What a request writes is less busy than what it read.
LEMMA WritingHelps ==
  ASSUME PlanAssumptions, BreaksInv, PlanningNext, setup' # setup, request # NoRequest
  PROVE  Peak(Day(setup, data), BreakStarts(Day(setup', data)))
           < Peak(Day(setup, data), BreakStarts(Day(setup, data)))
<1>1. ApplyBreaks \/ ApplySupervised \/ RefusePlacing \/ Show
  BY DEF PlanningNext, Ask, PlacePass, ReplicateDay, ReplicatePeriod, Judge, TypeStart, Upload
<1>2. /\ WriteDraft /\ placing.status # "none" /\ data' = data
      /\ \E i \in DOMAIN setup.breaks : Moved(i)
  BY <1>1, RequestsEnd
<1>3. setup' = Draft
  BY <1>2 DEF WriteDraft
<1>4. /\ BreakStarts(Today') = placing.at
      /\ Peak(Today, placing.at) < Peak(Today, BreakStarts(Today))
  BY <1>2, <1>3, DraftedBreaks
<1>5. Today' = Day(setup', data) /\ Today = Day(setup, data)
  BY <1>2 DEF Today, Day
<1> QED
  BY <1>4, <1>5

\* A request that moves breaks lowers the busiest slot of the day it was computed for (apply_separate_breaks,
\* apply_supervisor_schedule).
THEOREM AppliedBreaksHelp ==
  PlanningSpec => AppliedBreaksLowerThePeak
<1>0. PlanAssumptions
  BY PlacementAssumption, SearchAssumption, PlanningAssumption DEF PlanAssumptions
<1>1. PlanningInit => BreaksInv
  BY <1>0, BreaksInit
<1>2. BreaksInv /\ [PlanningNext]_planningVars => BreaksInv'
  BY <1>0, BreaksStep
<1>3. BreaksInv /\ [PlanningNext]_planningVars =>
        [setup' # setup /\ request # NoRequest =>
           Peak(Day(setup, data), BreakStarts(Day(setup', data)))
             < Peak(Day(setup, data), BreakStarts(Day(setup, data)))]_planningVars
  BY <1>0, WritingHelps
<1> QED
  BY <1>1, <1>2, <1>3, PTL DEF PlanningSpec, AppliedBreaksLowerThePeak
=============================================================================
