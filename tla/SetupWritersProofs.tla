-------------------------- MODULE SetupWritersProofs --------------------------
(* Proofs about SetupWriters, for every value of its constants. *)
EXTENDS SetupWriters, TLAPS, WellFoundedInduction

\* The greatest member of a non-empty set of positive ids is one of them (max over Job.id or
\* Dataset.id, as ORDER BY id DESC LIMIT 1 returns it).
LEMMA MaxIsMember ==
    ASSUME NEW n \in Nat, NEW S, S \subseteq 1..n, S # {}
    PROVE  Max(S) \in S /\ \A y \in S : Max(S) >= y
<1> DEFINE Above == {k \in Nat : \A y \in S : y <= k}
<1>1. n \in Above
  OBVIOUS
<1> DEFINE Less == {ss \in Nat \X Nat : ss[1] < ss[2]}
<1>2. IsWellFoundedOn(Less, Nat)
  BY NatLessThanWellFounded DEF OpToRel
<1> HIDE DEF Less
<1>3. PICK m \in Above : \A k \in Above : ~ (<<k, m>> \in Less)
  BY <1>1, <1>2, WFMin
<1>4. \A k \in Above : ~ (k < m)
  BY <1>3 DEF Less
<1>5. m \in S
  <2>1. PICK x \in S : TRUE
    OBVIOUS
  <2>2. m \in Nat \ {0}
    BY <2>1
  <2>3. SUFFICES ASSUME m \notin S PROVE FALSE
    OBVIOUS
  <2>4. \A y \in S : y <= m - 1
    BY <2>2, <2>3
  <2>5. m - 1 \in Above
    BY <2>2, <2>4
  <2> QED
    BY <1>4, <2>2, <2>5
<1>6. \A y \in S : m >= y
  OBVIOUS
<1> QED
  BY <1>5, <1>6 DEF Max


\* CURRENT_TIMESTAMP names a second that has begun and is not over, and names it for all of it.
LEMMA WholeSecondIsStamp ==
  ASSUME NEW t \in Nat
  PROVE  /\ WholeSecond(t) \in Nat
         /\ WholeSecond(t) <= t
         /\ t < WholeSecond(t) + TicksPerSecond
         /\ WholeSecond(t) % TicksPerSecond = 0
<1> DEFINE second == t \div TicksPerSecond
           rest   == t % TicksPerSecond
<1>1. TicksPerSecond \in Nat \ {0}
  BY ConstantsAssumption DEF ConstantsAssumption
<1>2. t = TicksPerSecond * second + rest /\ rest \in 0 .. TicksPerSecond - 1 /\ second \in Nat
  BY <1>1, Z3
<1>3. rest \in Nat /\ t - rest \in Nat /\ t - rest <= t /\ t < t - rest + TicksPerSecond
  BY <1>1, <1>2, Z3
<1>4. t - rest = TicksPerSecond * second
  BY <1>1, <1>2, Z3
<1>5. \A k \in Nat : (TicksPerSecond * k) % TicksPerSecond = 0
  BY <1>1, Z3
<1> QED
  BY <1>2, <1>3, <1>4, <1>5 DEF WholeSecond

---------------------------------------------------------------------------
(* Types; the lock's holder is one of them *)

USE DEF LockIsHeldAtWork

\* Every planning file got its id from a commit, and updated_at is no later than the last one.
Issued ==
  /\ \A d \in datasets : d.id \in 1 .. clock
  /\ row.updated <= clock

TInv == TypeOK /\ Issued

\* The current dataset is 0 or the highest stored id.
LEMMA CurrentDatasetIsHighest ==
  ASSUME TInv
  PROVE  CurrentDataset \in Nat /\ \A d \in datasets : d.id <= CurrentDataset
<1> DEFINE ids == {d.id : d \in datasets}
<1>1. clock \in Nat /\ ids \subseteq 1 .. clock
  BY DEF TInv, TypeOK, Issued
<1>2. CASE datasets = {}
  BY <1>2 DEF CurrentDataset
<1>3. CASE datasets # {}
  <2>1. ids # {}
    BY <1>3
  <2>2. Max(ids) \in ids /\ \A y \in ids : Max(ids) >= y
    BY <1>1, <2>1, MaxIsMember
  <2>3. CurrentDataset = Max(ids)
    BY <1>3 DEF CurrentDataset
  <2>4. \A d \in datasets : d.id \in ids
    OBVIOUS
  <2>5. \A y \in ids : y \in Nat
    BY <1>1
  <2> HIDE DEF ids
  <2> QED
    BY <2>2, <2>3, <2>4, <2>5
<1> QED
  BY <1>2, <1>3

\* The revision of a Setup read from the row is a revision.
LEMMA RevisionType ==
  ASSUME TInv, NEW setup \in Setups, NEW updated \in Nat
  PROVE  RevisionOf(setup, updated) \in Revisions
<1>1. CurrentDataset \in Nat
  BY CurrentDatasetIsHighest
<1> QED
  BY <1>1 DEF RevisionOf, Revisions

\* What the row and a session at work hold is typed.
LEMMA Held ==
  ASSUME TypeOK
  PROVE  /\ row.setup \in Setups
         /\ row.updated \in Nat
         /\ preview.setup \in Setups
         /\ preview \in Revisions
         /\ \A r \in Requests : ~Idle(r) =>
              /\ request[r] \in Working
              /\ request[r].setup \in Setups
              /\ request[r].new \in Setups
              /\ request[r].updated \in Nat
<1>1. \A r \in Requests : ~Idle(r) => request[r] \in Working
  BY DEF TypeOK, Idle, Answered
<1> QED
  BY <1>1 DEF TypeOK, Row, Revisions, Working

\* Replacing one part of a Setup gives a Setup.
LEMMA PartsOfSetup ==
  ASSUME NEW s \in Setups
  PROVE  /\ s.facts \in Facts
         /\ s.breaks \in Breaks
         /\ \A f \in Facts : [s EXCEPT !.facts = f] \in Setups
         /\ \A b \in Breaks : [s EXCEPT !.breaks = b] \in Setups
BY DEF Setups

\* An answer keeps the types and the lock's owner.
LEMMA AnswerTypes ==
  ASSUME TypeOK, NEW r \in Requests, NEW a \in {"ok", "refused", "setup_changed"}, Answer(r, a),
         database' = database, row' \in Row, datasets' \subseteq Dataset, preview' = preview,
         clock' \in Nat
  PROVE  TypeOK'
<1>1. request' \in [Requests -> Answered \cup Working]
  BY DEF TypeOK, Answer, Answered
<1>2. request'[r].phase = "answered"
  BY DEF TypeOK, Answer
<1>3. \A q \in Requests : q # r => request'[q] = request[q]
  BY DEF TypeOK, Answer
<1>4. lock' \in Requests \cup {NoRequest} /\ (lock' # NoRequest => lock' = lock /\ lock # r)
  BY DEF TypeOK, Answer
<1>5. \A q \in Requests : ~Idle(q)' => ~Idle(q) /\ request'[q] = request[q]
  BY <1>2, <1>3 DEF Idle
<1>6. lock' # NoRequest => lock \in Requests /\ request'[lock] = request[lock]
  BY <1>3, <1>4 DEF TypeOK
<1> QED
  BY <1>1, <1>4, <1>5, <1>6 DEF TypeOK, Idle

\* A step that changes one session's memory, and not the answered ones' lock.
LEMMA WorkTypes ==
  ASSUME TypeOK, NEW r \in Requests, NEW q \in Working, request' = [request EXCEPT ![r] = q],
         q.kind \in {"aggregate", "supervise", "breaks"} => q.revision \in Revisions,
         lock' = lock \/ (lock' = r /\ database = "postgres"),
         lock' = r => q.kind = "aggregate" /\ q.phase \in {"read", "checked"},
         UNCHANGED <<database, row, datasets, preview, clock>>
  PROVE  TypeOK'
<1>1. request' \in [Requests -> Answered \cup Working]
  BY DEF TypeOK
<1>2. request'[r] = q /\ \A p \in Requests : p # r => request'[p] = request[p]
  BY DEF TypeOK
<1>3. q.phase # "answered"
  BY DEF Working
<1>4. \A p \in Requests : ~Idle(p)' /\ request'[p].kind \in {"aggregate", "supervise", "breaks"} =>
        request'[p].revision \in Revisions
  BY <1>2 DEF TypeOK, Idle
<1>5. lock' \in Requests \cup {NoRequest}
  BY DEF TypeOK
<1>6. ASSUME lock' # NoRequest
      PROVE  /\ database = "postgres"
             /\ ~Idle(lock)'
             /\ request'[lock'].kind = "aggregate"
             /\ request'[lock'].phase \in {"read", "checked"}
  <2>1. CASE lock' = r
    BY <1>2, <1>3, <1>6, <2>1 DEF TypeOK, Idle
  <2>2. CASE lock' # r
    BY <1>2, <1>5, <1>6, <2>2 DEF TypeOK, Idle
  <2> QED
    BY <2>1, <2>2
<1> QED
  BY <1>1, <1>4, <1>5, <1>6 DEF TypeOK, Idle

\* Reading the row into a session keeps the types.
LEMMA BeginTypes ==
  ASSUME TInv, NEW r \in Requests, NEW kind \in AllKinds, NEW phase \in {"waiting", "read"},
         NEW new \in Setups, NEW revision \in Revisions \cup {None},
         kind \in {"aggregate", "supervise", "breaks"} => revision \in Revisions,
         Begin(r, kind, phase, new, revision)
  PROVE  TInv'
<1> DEFINE q == [phase |-> phase, kind |-> kind, setup |-> row.setup, updated |-> row.updated,
                 new |-> new, revision |-> revision]
<1>1. TypeOK
  BY DEF TInv
<1>2. q \in Working /\ q.kind = kind /\ q.revision = revision
  <2>1. row.setup \in Setups /\ row.updated \in Nat
    BY <1>1, Held
  <2>2. phase \in {"waiting", "read", "checked"}
    OBVIOUS
  <2> QED
    BY <2>1, <2>2 DEF Working
<1>3. Idle(r)
  BY DEF Begin
<1>4. lock # r
  BY <1>1, <1>3, ConstantsAssumption DEF TypeOK, ConstantsAssumption
<1>5. request' = [request EXCEPT ![r] = q]
  BY DEF Begin
<1>6. UNCHANGED <<database, row, datasets, preview, lock, clock>>
  BY DEF Begin
<1> HIDE DEF q
<1>7. TypeOK'
  BY <1>1, <1>2, <1>4, <1>5, <1>6, WorkTypes
<1> QED
  BY <1>6, <1>7 DEF TInv, Issued

\* A written row is typed and stamped no later than the commit.
LEMMA WriteTypes ==
  ASSUME TInv, NEW setup \in Setups, NEW updated \in Nat, updated <= Now, Write(setup, updated)
  PROVE  /\ row' \in Row
         /\ row'.setup = setup
         /\ row'.updated = updated
         /\ row'.archived = row.archived
         /\ clock' \in Nat
         /\ clock' = clock + 1
         /\ row'.updated <= clock'
<1>1. row \in Row /\ clock \in Nat
  BY DEF TInv, TypeOK
<1>2. row' = [row EXCEPT !.setup = setup, !.updated = updated]
  BY DEF Write
<1>3. row' \in Row /\ row'.setup = setup /\ row'.updated = updated /\ row'.archived = row.archived
  BY <1>1, <1>2 DEF Row
<1>4. clock' = clock + 1
  BY DEF Write, Now
<1> QED
  BY <1>1, <1>3, <1>4 DEF Now

\* A column left out of the UPDATE keeps a Setup, and so does one put in.
LEMMA FlushedType ==
  ASSUME TypeOK, NEW r \in Requests, ~Idle(r)
  PROVE  Flushed(r) \in Setups
BY Held DEF Flushed

\* A new planning file is one, with the id of its commit.
LEMMA PlanningFileType ==
  ASSUME TInv
  PROVE  /\ PlanningFile(Now) \in Dataset
         /\ PlanningFile(Now).id = clock + 1
         /\ PlanningFile(Now).print = None
         /\ Now \in Nat
         /\ Now = clock + 1
BY DEF TInv, TypeOK, PlanningFile, Dataset, Now

\* What a shared apply names is a fingerprint.
LEMMA FingerprintType ==
  ASSUME TypeOK, NEW r \in Requests, ~Idle(r), request[r].kind = "aggregate"
  PROVE  /\ Fingerprint(r) \in Fingerprints
         /\ Fingerprint(r).facts = request[r].new.facts
         /\ Fingerprint(r).revision = request[r].revision
         /\ request[r].revision \in Revisions
<1>1. request[r].revision \in Revisions
  BY DEF TypeOK
<1>2. request[r].new.facts \in Facts
  BY Held, PartsOfSetup
<1> QED
  BY <1>1, <1>2 DEF Fingerprint, Fingerprints

\* A commit whose answer ends a session keeps types and issued ids.
LEMMA CommitTypes ==
  ASSUME TInv, NEW r \in Requests, NEW a \in {"ok", "refused", "setup_changed"}, Answer(r, a),
         NEW setup \in Setups, Write(setup, Now),
         NEW d \in Dataset, d.id = Now, datasets' \subseteq datasets \cup {d},
         database' = database, preview' = preview
  PROVE  TInv'
<1>1. TypeOK /\ Now \in Nat /\ Now = clock + 1 /\ clock \in Nat
  BY DEF TInv, TypeOK, Now
<1>2. row' \in Row /\ clock' \in Nat /\ clock' = clock + 1 /\ row'.updated <= clock'
  BY <1>1, WriteTypes
<1>3. datasets' \subseteq Dataset
  BY <1>1 DEF TypeOK
<1>4. TypeOK'
  BY <1>1, <1>2, <1>3, AnswerTypes
<1>5. \A e \in datasets' : e.id \in 1 .. clock'
  <2>1. \A e \in datasets : e.id \in 1 .. clock
    BY DEF TInv, Issued
  <2> QED
    BY <1>1, <1>2, <2>1
<1> QED
  BY <1>2, <1>4, <1>5 DEF TInv, Issued

\* An answer that writes nothing keeps types and issued ids.
LEMMA RefusalTypes ==
  ASSUME TInv, NEW r \in Requests, NEW a \in {"ok", "refused", "setup_changed"}, Answer(r, a),
         UNCHANGED <<database, row, datasets, preview, clock>>
  PROVE  TInv'
<1>1. TypeOK'
  BY AnswerTypes DEF TInv, TypeOK
<1> QED
  BY <1>1 DEF TInv, Issued

\* The owner's one-commit writers and the previews keep the types.
LEMMA OwnerTypes ==
  ASSUME TInv, Preview \/ Archive \/ PutClosingPolicy \/ CreateDataset
                 \/ \E d \in datasets : DeleteDataset(d)
  PROVE  TInv'
<1>0. /\ TypeOK /\ row.setup \in Setups /\ row.updated \in Nat /\ clock \in Nat
      /\ Now = clock + 1 /\ Now \in Nat
  BY Held DEF TInv, TypeOK, Now
<1>1. CASE Preview
  <2>1. preview' \in Revisions
    BY <1>0, <1>1, RevisionType DEF Preview
  <2> QED
    BY <1>1, <2>1 DEF Preview, TInv, TypeOK, Issued, Idle
<1>2. CASE Archive
  <2>1. row' = [row EXCEPT !.archived = TRUE, !.updated = Now]
    BY <1>2 DEF Archive
  <2>2. row' \in Row /\ row'.updated = Now
    BY <1>0, <2>1 DEF TypeOK, Row
  <2>3. clock' = Now
    BY <1>2 DEF Archive
  <2>4. TypeOK'
    BY <1>0, <1>2, <2>2, <2>3 DEF Archive, TypeOK, Idle
  <2>5. Issued'
    BY <1>0, <1>2, <2>2, <2>3 DEF Archive, TInv, Issued
  <2> QED
    BY <2>4, <2>5 DEF TInv
<1>3. CASE PutClosingPolicy
  <2> DEFINE stamp == IF database = "sqlite" THEN WholeSecond(Now) ELSE Now
  <2>1. stamp \in Nat /\ stamp <= Now
    BY <1>0, WholeSecondIsStamp
  <2>2. Write(row.setup, stamp)
    BY <1>3 DEF PutClosingPolicy
  <2> HIDE DEF stamp
  <2>3. row' \in Row /\ clock' \in Nat /\ clock' = clock + 1 /\ row'.updated <= clock'
    BY <1>0, <2>1, <2>2, WriteTypes
  <2>4. TypeOK'
    BY <1>0, <1>3, <2>3 DEF PutClosingPolicy, TypeOK, Idle
  <2>5. Issued'
    BY <1>0, <1>3, <2>3 DEF PutClosingPolicy, TInv, Issued
  <2> QED
    BY <2>4, <2>5 DEF TInv
<1>4. CASE CreateDataset
  <2>1. datasets' = datasets \cup {PlanningFile(Now)} /\ clock' = clock + 1 /\ row' = row
    BY <1>4 DEF CreateDataset, Now
  <2>2. TypeOK'
    BY <1>0, <1>4, <2>1, PlanningFileType DEF CreateDataset, TypeOK, Idle
  <2>3. Issued'
    BY <1>0, <2>1, PlanningFileType DEF TInv, Issued
  <2> QED
    BY <2>2, <2>3 DEF TInv
<1>5. CASE \E d \in datasets : DeleteDataset(d)
  BY <1>5 DEF DeleteDataset, TInv, TypeOK, Issued, Idle
<1> QED
  BY <1>1, <1>2, <1>3, <1>4, <1>5

\* Starting to work keeps the types.
LEMMA AllBeginTypes ==
  ASSUME TInv, NEW r \in Requests,
         \/ BeginPatch(r) \/ BeginDerive(r) \/ BeginUpload(r) \/ BeginApply(r)
         \/ BeginBreaks(r, "supervise") \/ BeginBreaks(r, "breaks")
  PROVE  TInv'
<1>0. row.setup \in Setups /\ preview.setup \in Setups /\ preview \in Revisions
  BY Held DEF TInv
<1>1. CASE BeginPatch(r)
  <2>1. PICK t \in Setups : Begin(r, "patch", "read", t, None)
    BY <1>1 DEF BeginPatch
  <2> QED
    BY <2>1, BeginTypes DEF AllKinds
<1>2. CASE BeginDerive(r)
  <2>1. PICK t \in Setups : Begin(r, "derive", "read", t, None)
    BY <1>2 DEF BeginDerive
  <2> QED
    BY <2>1, BeginTypes DEF AllKinds
<1>3. CASE BeginUpload(r)
  <2>1. Begin(r, "upload", "read", row.setup, None)
    BY <1>3 DEF BeginUpload
  <2> QED
    BY <1>0, <2>1, BeginTypes DEF AllKinds
<1>4. CASE BeginApply(r)
  <2>1. PICK f \in Facts :
          Begin(r, "aggregate", "waiting", [preview.setup EXCEPT !.facts = f], preview)
    BY <1>4 DEF BeginApply
  <2>2. [preview.setup EXCEPT !.facts = f] \in Setups
    BY <1>0, PartsOfSetup
  <2> QED
    BY <1>0, <2>1, <2>2, BeginTypes DEF AllKinds
<1>5. ASSUME NEW kind \in {"supervise", "breaks"}, BeginBreaks(r, kind)
      PROVE  TInv'
  <2>1. PICK b \in Breaks : Begin(r, kind, "read", [row.setup EXCEPT !.breaks = b], preview)
    BY <1>5 DEF BeginBreaks
  <2>2. [row.setup EXCEPT !.breaks = b] \in Setups
    BY <1>0, PartsOfSetup
  <2>3. kind \in AllKinds
    BY DEF AllKinds
  <2> QED
    BY <1>0, <2>1, <2>2, <2>3, BeginTypes
<1> QED
  BY <1>1, <1>2, <1>3, <1>4, <1>5

\* Taking the row, with or without a lock, keeps the types.
LEMMA LockRowTypes ==
  ASSUME TInv, NEW r \in Requests, LockRow(r)
  PROVE  TInv'
<1>0. TypeOK /\ ~Idle(r) /\ request[r].kind = "aggregate"
  BY DEF TInv, LockRow, At, Idle
<1>1. CASE row.archived
  BY <1>1, RefusalTypes DEF LockRow
<1>2. CASE ~row.archived
  <2> DEFINE q == [request[r] EXCEPT !.phase = "read", !.setup = row.setup,
                                     !.updated = row.updated]
  <2>1. request' = [request EXCEPT ![r] = q]
    BY <1>0, <1>2 DEF LockRow, TypeOK
  <2>2. row.setup \in Setups /\ row.updated \in Nat /\ request[r] \in Working
    BY <1>0, Held
  <2>3. /\ q \in Working /\ q.kind = "aggregate" /\ q.phase = "read"
        /\ q.revision = request[r].revision
    BY <1>0, <2>2 DEF Working
  <2>4. request[r].revision \in Revisions
    BY <1>0 DEF TypeOK
  <2>5. lock = NoRequest /\ lock' = IF database = "postgres" THEN r ELSE NoRequest
    BY <1>2 DEF LockRow
  <2>6. UNCHANGED <<database, row, datasets, preview, clock>>
    BY DEF LockRow
  <2> HIDE DEF q
  <2>7. TypeOK'
    BY <1>0, <2>1, <2>3, <2>4, <2>5, <2>6, WorkTypes
  <2> QED
    BY <2>6, <2>7 DEF TInv, Issued
<1> QED
  BY <1>1, <1>2

\* Reading the file against the Setup keeps the types.
LEMMA DeriveTypes ==
  ASSUME TInv, NEW r \in Requests, Derive(r)
  PROVE  TInv'
<1>0. TypeOK /\ ~Idle(r) /\ request[r].kind = "aggregate"
  BY DEF TInv, Derive, At, Idle
<1>1. CASE request[r].setup.structure # "shared"
  BY <1>1, RefusalTypes DEF Derive
<1>2. CASE request[r].setup.structure = "shared"
  <2> DEFINE new == [request[r].setup EXCEPT !.facts = request[r].new.facts]
             q   == [request[r] EXCEPT !.phase = "checked", !.new = new]
  <2>1. request' = [request EXCEPT ![r] = q]
    BY <1>0, <1>2 DEF Derive, TypeOK
  <2>2. request[r] \in Working /\ request[r].setup \in Setups /\ request[r].new \in Setups
    BY <1>0, Held
  <2>3. new \in Setups
    BY <2>2, PartsOfSetup
  <2> HIDE DEF new
  <2>4. /\ q \in Working /\ q.kind = "aggregate" /\ q.phase = "checked"
        /\ q.revision = request[r].revision
    BY <1>0, <2>2, <2>3 DEF Working
  <2>5. request[r].revision \in Revisions
    BY <1>0 DEF TypeOK
  <2>6. UNCHANGED <<database, row, datasets, preview, clock, lock>>
    BY <1>2 DEF Derive
  <2> HIDE DEF q
  <2>7. TypeOK'
    BY <1>0, <2>1, <2>4, <2>5, <2>6, WorkTypes
  <2> QED
    BY <2>6, <2>7 DEF TInv, Issued
<1> QED
  BY <1>1, <1>2

\* The second look of a supervisor's apply keeps the types.
LEMMA RecheckTypes ==
  ASSUME TInv, NEW r \in Requests, Recheck(r)
  PROVE  TInv'
<1>0. TypeOK /\ ~Idle(r) /\ request[r].kind = "supervise"
  BY DEF TInv, Recheck, At, Idle
<1>1. CASE Answer(r, "setup_changed")
  BY <1>1, RefusalTypes DEF Recheck
<1>2. CASE request' = [request EXCEPT ![r].phase = "checked"] /\ UNCHANGED lock
  <2> DEFINE q == [request[r] EXCEPT !.phase = "checked"]
  <2>1. request' = [request EXCEPT ![r] = q]
    BY <1>0, <1>2 DEF TypeOK
  <2>2. request[r] \in Working
    BY <1>0, Held
  <2>3. /\ q \in Working /\ q.kind = "supervise" /\ q.revision = request[r].revision
    BY <1>0, <2>2 DEF Working
  <2>4. request[r].revision \in Revisions
    BY <1>0 DEF TypeOK
  <2>5. UNCHANGED <<database, row, datasets, preview, clock>>
    BY DEF Recheck
  <2>6. lock # r
    BY <1>0, ConstantsAssumption DEF TypeOK, ConstantsAssumption
  <2> HIDE DEF q
  <2>7. TypeOK'
    BY <1>0, <1>2, <2>1, <2>3, <2>4, <2>5, <2>6, WorkTypes
  <2> QED
    BY <2>5, <2>7 DEF TInv, Issued
<1> QED
  BY <1>1, <1>2 DEF Recheck

\* Every commit keeps the types.
LEMMA AllCommitTypes ==
  ASSUME TInv, NEW r \in Requests,
         \/ CommitPatch(r) \/ CommitDerive(r) \/ CommitUpload(r) \/ CommitApply(r)
         \/ CommitSupervised(r) \/ CommitBreaks(r)
  PROVE  TInv'
<1>0. TypeOK /\ row.setup \in Setups
  BY Held DEF TInv
<1>1. ~Idle(r)
  BY DEF CommitPatch, CommitDerive, CommitUpload, CommitApply, CommitSupervised, CommitBreaks, At,
         Idle
<1>2. Flushed(r) \in Setups /\ request[r].new \in Setups
  BY <1>0, <1>1, FlushedType, Held
<1>3. /\ PlanningFile(Now) \in Dataset /\ PlanningFile(Now).id = Now
      /\ Now \in Nat
  BY PlanningFileType
<1>4. CASE CommitPatch(r) \/ CommitBreaks(r)
  <2>1. /\ Write(Flushed(r), Now) /\ Answer(r, "ok")
        /\ UNCHANGED <<database, datasets, preview>>
    BY <1>4 DEF CommitPatch, CommitBreaks
  <2> QED
    BY <1>2, <1>3, <2>1, CommitTypes
<1>5. CASE CommitDerive(r)
  <2>1. /\ Write(Flushed(r), Now) /\ Answer(r, "ok") /\ UNCHANGED <<database, preview>>
        /\ datasets' = datasets \cup {PlanningFile(Now)}
    BY <1>5 DEF CommitDerive
  <2> QED
    BY <1>2, <1>3, <2>1, CommitTypes
<1>6. CASE CommitUpload(r)
  <2>1. /\ Write(row.setup, Now) /\ Answer(r, "ok") /\ UNCHANGED <<database, preview>>
        /\ datasets' \subseteq datasets \cup {PlanningFile(Now)}
    BY <1>6 DEF CommitUpload
  <2> QED
    BY <1>0, <1>3, <2>1, CommitTypes
<1>7. CASE CommitApply(r) /\ Unswapped(r)
  <2> DEFINE d == [id |-> Now, print |-> Fingerprint(r), applied |-> request[r].new]
  <2>1. request[r].kind = "aggregate"
    BY <1>7 DEF CommitApply, At
  <2>2. Fingerprint(r) \in Fingerprints
    BY <1>0, <1>1, <2>1, FingerprintType
  <2>3. d \in Dataset /\ d.id = Now
    BY <1>2, <1>3, <2>2 DEF Dataset
  <2>4. /\ Write(request[r].new, Now) /\ Answer(r, "ok") /\ UNCHANGED <<database, preview>>
        /\ datasets' = datasets \cup {d}
    BY <1>7 DEF CommitApply
  <2> HIDE DEF d
  <2> QED
    BY <1>2, <2>3, <2>4, CommitTypes
<1>8. CASE CommitApply(r) /\ ~Unswapped(r)
  BY <1>8, RefusalTypes DEF CommitApply
<1>9. CASE CommitSupervised(r) /\ SetupUnchanged(r)
  <2>1. /\ Write(request[r].new, Now) /\ Answer(r, "ok")
        /\ UNCHANGED <<database, datasets, preview>>
    BY <1>9 DEF CommitSupervised
  <2> QED
    BY <1>2, <1>3, <2>1, CommitTypes
<1>10. CASE CommitSupervised(r) /\ ~SetupUnchanged(r)
  BY <1>10, RefusalTypes DEF CommitSupervised
<1> QED
  BY <1>4, <1>5, <1>6, <1>7, <1>8, <1>9, <1>10

\* Every step keeps the types.
LEMMA TypesStep ==
  ASSUME TInv, [Next]_vars
  PROVE  TInv'
<1>1. CASE Next
  <2>1. CASE Preview \/ Archive \/ PutClosingPolicy \/ CreateDataset
               \/ \E d \in datasets : DeleteDataset(d)
    BY <2>1, OwnerTypes
  <2>2. ASSUME NEW r \in Requests,
               \/ BeginPatch(r) \/ BeginDerive(r) \/ BeginUpload(r) \/ BeginApply(r)
               \/ BeginBreaks(r, "supervise") \/ BeginBreaks(r, "breaks")
        PROVE  TInv'
    BY <2>2, AllBeginTypes
  <2>3. ASSUME NEW r \in Requests, Progress(r)
        PROVE  TInv'
    <3>1. CASE AnswerDuplicate(r)
      BY <3>1, RefusalTypes DEF AnswerDuplicate
    <3>2. CASE RefuseChanged(r)
      BY <3>2, RefusalTypes DEF RefuseChanged
    <3> QED
      BY <2>3, <3>1, <3>2, LockRowTypes, DeriveTypes, RecheckTypes, AllCommitTypes DEF Progress
  <2>4. ASSUME NEW r \in Requests, Abort(r)
        PROVE  TInv'
    BY <2>4, RefusalTypes DEF Abort
  <2> QED
    <3>1. CASE \E r \in Requests : BeginPatch(r) \/ BeginDerive(r) \/ BeginUpload(r)
            \/ BeginApply(r) \/ BeginBreaks(r, "supervise") \/ BeginBreaks(r, "breaks")
      BY <2>2, <3>1
    <3>2. CASE \E r \in Requests : Progress(r) \/ Abort(r)
      BY <2>3, <2>4, <3>2
    <3> QED
      BY <1>1, <2>1, <3>1, <3>2 DEF Next
<1>2. CASE UNCHANGED vars
  BY <1>2 DEF vars, TInv, TypeOK, Issued, Idle
<1> QED
  BY <1>1, <1>2

\* The types hold at first, and nobody holds the row lock.
LEMMA TypesInit ==
  ASSUME Init
  PROVE  TInv
<1>1. row \in Row /\ row.setup \in Setups /\ row.updated = 0
  <2>1. PICK s \in Setups : row = [setup |-> s, updated |-> 0, archived |-> FALSE]
    BY DEF Init
  <2> QED
    BY <2>1 DEF Row
<1>2. CurrentDataset = 0
  BY DEF Init, CurrentDataset
<1>3. preview \in Revisions
  BY <1>1, <1>2 DEF Init, RevisionOf, Revisions
<1>4. request \in [Requests -> Answered \cup Working]
  BY DEF Init, Answered
<1>5. \A r \in Requests : Idle(r)
  BY DEF Init, Idle
<1> QED
  BY <1>1, <1>3, <1>4, <1>5 DEF Init, TInv, TypeOK, Issued

\* The analysis row, its files, the memory of the sessions and the row lock keep their types in
\* every instance and on both databases, and a held lock belongs to a shared apply at work: no
\* refusal, conflict or lost worker in shared_aggregate_upload.py leaves the row locked.
THEOREM TypesHold == Spec => []TypeOK
<1>1. Init => TInv
  BY TypesInit
<1>2. TInv /\ [Next]_vars => TInv'
  BY TypesStep
<1>3. TInv => TypeOK
  BY DEF TInv
<1> QED
  BY <1>1, <1>2, <1>3, PTL DEF Spec

\* The row of an analysis is never left locked: however retries, refusals, conflicts and lost workers
\* of shared_aggregate_upload.py overlap, only an apply that is still at work holds it.
THEOREM LockIsNeverLeft == Spec => []LockIsHeldAtWork
<1>1. TypeOK => LockIsHeldAtWork
  BY DEF TypeOK
<1> QED
  BY <1>1, TypesHold, PTL

---------------------------------------------------------------------------
(* What a session remembers *)

\* The revision of a stored apply is not in force again, unless SQLite issued its stamp once more in
\* the second the apply committed in.
AppliedBefore ==
  \A d \in datasets : d.print # None =>
    /\ d.print.revision.updated <= clock
    /\ d.print.revision.updated = row.updated =>
         Repeats(row.updated) /\ d.id < row.updated + TicksPerSecond

SInv == TInv /\ MemoryAgreesWithRow /\ AppliedBefore

\* A session that does nothing in a step still agrees with the row: either the row stands and no
\* file was added, or the session does not hold the row and what it read is older now, or has a
\* stamp that SQLite may repeat.
LEMMA OtherRemembers ==
  ASSUME TInv, NEW q \in Requests, ~Idle(q), Remembers(q),
         request'[q] = request[q], database' = database, clock' \in {clock, clock + 1},
         \/ row' = row /\ datasets' \subseteq datasets /\ (lock = q => lock' = q)
         \/ lock # q /\ (row' = row \/ row'.updated = clock + 1 \/ Repeats(row'.updated))
  PROVE  Remembers(q)'
<1>1. /\ request[q].updated \in Nat /\ row.updated \in Nat /\ clock \in Nat
      /\ row.updated <= clock
  BY Held DEF TInv, TypeOK, Issued
<1>2. request[q].updated <= clock /\ request[q].updated <= clock'
  BY <1>1 DEF Remembers
<1>3. CASE row' = row /\ datasets' \subseteq datasets /\ (lock = q => lock' = q)
  BY <1>2, <1>3 DEF Remembers, Repeats
<1>4. CASE lock # q /\ row' = row
  BY <1>2, <1>4 DEF Remembers, Repeats
<1>5. CASE lock # q /\ row'.updated = clock + 1
  <2>1. request[q].updated # row'.updated
    BY <1>1, <1>2, <1>5
  <2> QED
    BY <1>2, <1>5, <2>1 DEF Remembers
<1>6. CASE lock # q /\ Repeats(row'.updated)
  BY <1>2, <1>6 DEF Remembers, Repeats
<1> QED
  BY <1>3, <1>4, <1>5, <1>6

\* A commit by session r, of what it wants to write and perhaps a new file.
LEMMA CommitMemory ==
  ASSUME SInv, NEW r \in Requests, NEW a \in {"ok", "refused", "setup_changed"}, Answer(r, a),
         MayWrite(r), NEW setup \in Setups, Write(setup, Now), database' = database,
         NEW d, datasets' \subseteq datasets \cup {d},
         d.print # None => d.print.revision.updated = row.updated
  PROVE  (MemoryAgreesWithRow /\ AppliedBefore)'
<1>1. TInv /\ TypeOK /\ clock \in Nat /\ Now \in Nat /\ Now = clock + 1
  BY DEF SInv, TInv, TypeOK, Now
<1>2. /\ row'.updated = clock + 1 /\ row.updated \in Nat /\ row.updated <= clock
      /\ clock' = clock + 1
  BY <1>1, WriteTypes, Held DEF TInv, Issued
<1>3. Idle(r)' /\ \A q \in Requests : q # r => request'[q] = request[q]
  BY <1>1 DEF Answer, TypeOK, Idle
<1>4. MemoryAgreesWithRow'
  <2>1. SUFFICES ASSUME NEW q \in Requests, ~Idle(q)' PROVE Remembers(q)'
    BY DEF MemoryAgreesWithRow
  <2>2. q # r /\ request'[q] = request[q] /\ ~Idle(q)
    BY <1>3, <2>1 DEF Idle
  <2>3. lock # q
    BY <2>2, ConstantsAssumption DEF MayWrite, ConstantsAssumption
  <2>4. Remembers(q)
    BY <2>2 DEF SInv, MemoryAgreesWithRow
  <2> QED
    BY <1>1, <1>2, <2>2, <2>3, <2>4, OtherRemembers
<1>5. AppliedBefore'
  <2>1. SUFFICES ASSUME NEW e \in datasets', e.print # None
                 PROVE  /\ e.print.revision.updated <= clock'
                        /\ e.print.revision.updated # row'.updated
    BY DEF AppliedBefore
  <2>2. CASE e \in datasets
    <3>1. e.print.revision.updated \in Nat
      BY <1>1, <2>1, <2>2 DEF TypeOK, Dataset, Fingerprints, Revisions
    <3>2. e.print.revision.updated <= clock
      BY <2>1, <2>2 DEF SInv, AppliedBefore
    <3> QED
      BY <1>1, <1>2, <3>1, <3>2
  <2>3. CASE e = d
    BY <1>1, <1>2, <2>1, <2>3
  <2> QED
    BY <2>2, <2>3
<1> QED
  BY <1>4, <1>5

\* A step of session r that writes nothing and leaves it with a memory that agrees.
LEMMA QuietMemory ==
  ASSUME SInv, NEW r \in Requests, UNCHANGED <<database, row, datasets, clock>>,
         \A q \in Requests : q # r => request'[q] = request[q] /\ (lock = q => lock' = q),
         Idle(r)' \/ Remembers(r)'
  PROVE  (MemoryAgreesWithRow /\ AppliedBefore)'
<1>1. ASSUME NEW q \in Requests, ~Idle(q)' PROVE Remembers(q)'
  <2>1. CASE q = r
    BY <1>1, <2>1
  <2>2. CASE q # r
    <3>1. ~Idle(q) /\ Remembers(q)
      BY <1>1, <2>2 DEF SInv, MemoryAgreesWithRow, Idle
    <3> QED
      BY <2>2, <3>1, OtherRemembers DEF SInv
  <2> QED
    BY <2>1, <2>2
<1>2. AppliedBefore'
  BY DEF SInv, AppliedBefore, Repeats
<1> QED
  BY <1>1, <1>2 DEF MemoryAgreesWithRow

\* An answer that writes nothing.
LEMMA RefusalMemory ==
  ASSUME SInv, NEW r \in Requests, NEW a, Answer(r, a), UNCHANGED <<database, row, datasets, clock>>
  PROVE  (MemoryAgreesWithRow /\ AppliedBefore)'
<1>1. Idle(r)' /\ \A q \in Requests : q # r => request'[q] = request[q] /\ (lock = q => lock' = q)
  BY DEF SInv, TInv, TypeOK, Answer, Idle
<1> QED
  BY <1>1, QuietMemory

\* The owner's one-commit writers wait for the row, and every stamp is new or one that SQLite may
\* repeat.
LEMMA OwnerMemory ==
  ASSUME SInv,
         Preview \/ Archive \/ PutClosingPolicy \/ CreateDataset
           \/ \E d \in datasets : DeleteDataset(d)
  PROVE  (MemoryAgreesWithRow /\ AppliedBefore)'
<1>0. /\ TInv /\ TypeOK /\ row \in Row /\ row.updated \in Nat /\ clock \in Nat
      /\ row.setup \in Setups /\ row.updated <= clock /\ Now = clock + 1 /\ Now \in Nat
      /\ \A d \in datasets : d.id \in 1 .. clock
  BY Held DEF SInv, TInv, TypeOK, Issued, Now
<1>1. ASSUME UNCHANGED <<database, request, lock>>, lock = NoRequest, datasets' = datasets,
             clock' = clock + 1,
             \/ row'.updated = clock + 1
             \/ Repeats(row'.updated) /\ clock + 1 < row'.updated + TicksPerSecond
                  /\ row'.updated \in Nat
      PROVE  (MemoryAgreesWithRow /\ AppliedBefore)'
  <2>1. ASSUME NEW q \in Requests, ~Idle(q)' PROVE Remembers(q)'
    <3>1. ~Idle(q) /\ Remembers(q)
      BY <1>1, <2>1 DEF SInv, MemoryAgreesWithRow, Idle
    <3>2. lock # q
      BY <1>1, ConstantsAssumption DEF ConstantsAssumption
    <3> QED
      BY <1>0, <1>1, <3>1, <3>2, OtherRemembers
  <2>2. ASSUME NEW d \in datasets', d.print # None
        PROVE  /\ d.print.revision.updated <= clock'
               /\ d.print.revision.updated = row'.updated =>
                    Repeats(row'.updated) /\ d.id < row'.updated + TicksPerSecond
    <3>1. d.print.revision.updated \in Nat
      BY <1>0, <1>1, <2>2 DEF TypeOK, Dataset, Fingerprints, Revisions
    <3>2. d.print.revision.updated <= clock /\ d.id \in 1 .. clock
      BY <1>0, <1>1, <2>2 DEF SInv, AppliedBefore
    <3>3. TicksPerSecond \in Nat
      BY ConstantsAssumption DEF ConstantsAssumption
    <3>4. CASE row'.updated = clock + 1
      BY <1>0, <1>1, <3>1, <3>2, <3>4
    <3>5. CASE /\ Repeats(row'.updated) /\ clock + 1 < row'.updated + TicksPerSecond
               /\ row'.updated \in Nat
      BY <1>0, <1>1, <3>1, <3>2, <3>3, <3>5
    <3> QED
      BY <1>1, <3>4, <3>5
  <2>3. AppliedBefore'
    BY <1>1, <2>2 DEF AppliedBefore, Repeats
  <2> QED
    BY <2>1, <2>3 DEF MemoryAgreesWithRow
<1>2. CASE Preview
  BY <1>2 DEF Preview, SInv, MemoryAgreesWithRow, Remembers, AppliedBefore, Idle, Repeats
<1>3. CASE Archive
  <2>1. row'.updated = clock + 1
    BY <1>0, <1>3 DEF Archive, Row
  <2> QED
    BY <1>0, <1>1, <1>3, <2>1 DEF Archive
<1>4. CASE PutClosingPolicy
  <2> DEFINE stamp == IF database = "sqlite" THEN WholeSecond(Now) ELSE Now
  <2>1. Write(row.setup, stamp) /\ clock' = clock + 1
    BY <1>0, <1>4 DEF PutClosingPolicy, Write
  <2>2. stamp \in Nat /\ stamp <= Now
    BY <1>0, WholeSecondIsStamp
  <2>3. \/ stamp = clock + 1
        \/ Repeats(stamp) /\ clock + 1 < stamp + TicksPerSecond
    <3>1. CASE database = "sqlite"
      BY <1>0, <3>1, WholeSecondIsStamp DEF Repeats
    <3>2. CASE database # "sqlite"
      BY <1>0, <3>2
    <3> QED
      BY <3>1, <3>2
  <2> HIDE DEF stamp
  <2>4. row'.updated = stamp
    BY <1>0, <2>1, <2>2, WriteTypes
  <2>5. UNCHANGED <<database, request, lock, datasets>> /\ lock = NoRequest
    BY <1>4 DEF PutClosingPolicy
  <2> QED
    BY <1>1, <2>1, <2>2, <2>3, <2>4, <2>5
<1>5. CASE CreateDataset
  <2>1. /\ UNCHANGED <<database, row, request, lock>> /\ lock = NoRequest
        /\ datasets' = datasets \cup {PlanningFile(Now)} /\ clock' = clock + 1
    BY <1>0, <1>5 DEF CreateDataset
  <2>2. ASSUME NEW q \in Requests, ~Idle(q)' PROVE Remembers(q)'
    <3>1. ~Idle(q) /\ Remembers(q)
      BY <2>1, <2>2 DEF SInv, MemoryAgreesWithRow, Idle
    <3>2. lock # q
      BY <2>1, ConstantsAssumption DEF ConstantsAssumption
    <3> QED
      BY <1>0, <2>1, <3>1, <3>2, OtherRemembers
  <2>3. AppliedBefore'
    <3>1. SUFFICES ASSUME NEW d \in datasets', d.print # None
                   PROVE  /\ d.print.revision.updated <= clock + 1
                          /\ d.print.revision.updated = row.updated =>
                               Repeats(row.updated) /\ d.id < row.updated + TicksPerSecond
      BY <2>1 DEF AppliedBefore, Repeats
    <3>2. d \in datasets
      BY <1>0, <2>1, <3>1, PlanningFileType
    <3>3. d.print.revision.updated \in Nat
      BY <1>0, <3>1, <3>2 DEF TypeOK, Dataset, Fingerprints, Revisions
    <3> QED
      BY <1>0, <3>1, <3>2, <3>3 DEF SInv, AppliedBefore
  <2> QED
    BY <2>2, <2>3 DEF MemoryAgreesWithRow
<1>6. CASE \E d \in datasets : DeleteDataset(d)
  <2>1. UNCHANGED <<database, row, request, lock, clock>> /\ datasets' \subseteq datasets
    BY <1>6 DEF DeleteDataset
  <2>2. ASSUME NEW q \in Requests, ~Idle(q)' PROVE Remembers(q)'
    <3>1. ~Idle(q) /\ Remembers(q)
      BY <2>1, <2>2 DEF SInv, MemoryAgreesWithRow, Idle
    <3> QED
      BY <1>0, <2>1, <3>1, OtherRemembers
  <2>3. AppliedBefore'
    BY <2>1 DEF SInv, AppliedBefore, Repeats
  <2> QED
    BY <2>2, <2>3 DEF MemoryAgreesWithRow
<1> QED
  BY <1>2, <1>3, <1>4, <1>5, <1>6

\* A session that starts to work has just read the row.
LEMMA BeginMemory ==
  ASSUME SInv, NEW r \in Requests, NEW kind \in AllKinds, NEW phase \in {"waiting", "read"},
         NEW new \in Setups, NEW revision, Begin(r, kind, phase, new, revision),
         kind = "aggregate" => phase = "waiting",
         kind = "supervise" => row.setup = revision.setup
                                 /\ new = [row.setup EXCEPT !.breaks = new.breaks]
  PROVE  (MemoryAgreesWithRow /\ AppliedBefore)'
<1>1. /\ row.updated \in Nat /\ row.updated <= clock
      /\ request \in [Requests -> Answered \cup Working]
  BY Held DEF SInv, TInv, TypeOK, Issued
<1>2. UNCHANGED <<database, row, datasets, lock, clock>>
  BY DEF Begin
<1>3. request'[r] = [phase |-> phase, kind |-> kind, setup |-> row.setup,
                     updated |-> row.updated, new |-> new, revision |-> revision]
  BY <1>1 DEF Begin
<1>4. \A q \in Requests : q # r => request'[q] = request[q] /\ (lock = q => lock' = q)
  BY <1>1, <1>2 DEF Begin
<1>5. Remembers(r)'
  BY <1>1, <1>2, <1>3 DEF Remembers
<1> QED
  BY <1>2, <1>4, <1>5, QuietMemory

\* A session that begins remembers the row as it is.
LEMMA AllBeginMemory ==
  ASSUME SInv, NEW r \in Requests,
         \/ BeginPatch(r) \/ BeginDerive(r) \/ BeginUpload(r) \/ BeginApply(r)
         \/ BeginBreaks(r, "supervise") \/ BeginBreaks(r, "breaks")
  PROVE  (MemoryAgreesWithRow /\ AppliedBefore)'
<1>0. row.setup \in Setups /\ preview.setup \in Setups
  BY Held DEF SInv, TInv
<1>1. CASE BeginPatch(r)
  <2>1. PICK t \in Setups : Begin(r, "patch", "read", t, None)
    BY <1>1 DEF BeginPatch
  <2> QED
    BY <2>1, BeginMemory DEF AllKinds
<1>2. CASE BeginDerive(r)
  <2>1. PICK t \in Setups : Begin(r, "derive", "read", t, None)
    BY <1>2 DEF BeginDerive
  <2> QED
    BY <2>1, BeginMemory DEF AllKinds
<1>3. CASE BeginUpload(r)
  <2>1. Begin(r, "upload", "read", row.setup, None)
    BY <1>3 DEF BeginUpload
  <2> QED
    BY <1>0, <2>1, BeginMemory DEF AllKinds
<1>4. CASE BeginApply(r)
  <2>1. PICK f \in Facts :
          Begin(r, "aggregate", "waiting", [preview.setup EXCEPT !.facts = f], preview)
    BY <1>4 DEF BeginApply
  <2>2. [preview.setup EXCEPT !.facts = f] \in Setups
    BY <1>0, PartsOfSetup
  <2> QED
    BY <2>1, <2>2, BeginMemory DEF AllKinds
<1>5. ASSUME NEW kind \in {"supervise", "breaks"}, BeginBreaks(r, kind)
      PROVE  (MemoryAgreesWithRow /\ AppliedBefore)'
  <2>1. PICK b \in Breaks : Begin(r, kind, "read", [row.setup EXCEPT !.breaks = b], preview)
    BY <1>5 DEF BeginBreaks
  <2> DEFINE new == [row.setup EXCEPT !.breaks = b]
  <2>2. new \in Setups
    BY <1>0, PartsOfSetup
  <2>3. kind \in AllKinds
    BY DEF AllKinds
  <2>4. row.setup = preview.setup
    BY <1>5 DEF BeginBreaks, PreviewStands
  <2>5. new.breaks = b
    BY <1>0 DEF Setups
  <2>6. new = [row.setup EXCEPT !.breaks = new.breaks]
    BY <2>5
  <2> HIDE DEF new
  <2>7. Begin(r, kind, "read", new, preview)
    BY <2>1 DEF new
  <2> QED
    BY <2>2, <2>3, <2>4, <2>6, <2>7, BeginMemory
<1> QED
  BY <1>1, <1>2, <1>3, <1>4, <1>5

\* Taking the row reads it again.
LEMMA LockRowMemory ==
  ASSUME SInv, NEW r \in Requests, LockRow(r)
  PROVE  (MemoryAgreesWithRow /\ AppliedBefore)'
<1>0. /\ request \in [Requests -> Answered \cup Working] /\ ~Idle(r) /\ row.updated \in Nat
      /\ request[r] \in Working
      /\ request[r].kind = "aggregate" /\ UNCHANGED <<database, row, datasets, clock>>
      /\ row.updated <= clock
  BY Held DEF SInv, TInv, TypeOK, Issued, LockRow, At, Idle
<1>1. CASE row.archived
  BY <1>1, RefusalMemory DEF LockRow
<1>2. CASE ~row.archived
  <2>1. /\ request'[r].phase = "read" /\ request'[r].kind = "aggregate"
        /\ request'[r].setup = row.setup /\ request'[r].updated = row.updated
    BY <1>0, <1>2 DEF LockRow, Working
  <2>2. \A q \in Requests : q # r => request'[q] = request[q]
    BY <1>0, <1>2 DEF LockRow
  <2>3. lock = NoRequest /\ lock' = IF database = "postgres" THEN r ELSE NoRequest
    BY <1>2 DEF LockRow
  <2>4. Remembers(r)'
    BY <1>0, <1>2, <2>1, <2>3 DEF Remembers
  <2>5. \A q \in Requests : q # r => lock # q
    BY <2>3, ConstantsAssumption DEF ConstantsAssumption
  <2> QED
    BY <1>0, <2>2, <2>4, <2>5, QuietMemory
<1> QED
  BY <1>1, <1>2

\* The revision still stands, so what is to be written is the previewed Setup with other facts.
LEMMA DeriveMemory ==
  ASSUME SInv, NEW r \in Requests, Derive(r)
  PROVE  (MemoryAgreesWithRow /\ AppliedBefore)'
<1>0. /\ request \in [Requests -> Answered \cup Working] /\ ~Idle(r)
      /\ request[r] \in Working /\ request[r].setup \in Setups
      /\ request[r].kind = "aggregate" /\ request[r].phase = "read"
      /\ UNCHANGED <<database, row, datasets, clock>>
  BY Held DEF SInv, TInv, TypeOK, Derive, At, Idle
<1>1. CASE request[r].setup.structure # "shared"
  BY <1>0, <1>1, RefusalMemory DEF Derive
<1>2. CASE request[r].setup.structure = "shared"
  <2> DEFINE new == [request[r].setup EXCEPT !.facts = request[r].new.facts]
  <2>1. new.facts = request[r].new.facts
    BY <1>0 DEF Setups
  <2>2. new = [request[r].setup EXCEPT !.facts = new.facts]
    BY <2>1
  <2> HIDE DEF new
  <2>3. /\ request'[r].phase = "checked" /\ request'[r].kind = "aggregate"
        /\ request'[r].setup = request[r].setup /\ request'[r].updated = request[r].updated
        /\ request'[r].revision = request[r].revision /\ request'[r].new = new
    BY <1>0, <1>2 DEF Derive, Working, new
  <2>4. \A q \in Requests : q # r => request'[q] = request[q]
    BY <1>0, <1>2 DEF Derive
  <2>5. lock' = lock
    BY <1>2 DEF Derive
  <2>6. /\ request[r].revision.setup = request[r].setup
        /\ request[r].revision.updated = request[r].updated
        /\ request[r].revision.dataset = CurrentDataset
    BY DEF Derive, RevisionStands, RevisionOf
  <2>7. \A d \in datasets : d.id <= CurrentDataset
    BY CurrentDatasetIsHighest DEF SInv
  <2>8. Remembers(r)
    BY <1>0 DEF SInv, MemoryAgreesWithRow
  <2>9. Remembers(r)'
    BY <1>0, <2>2, <2>3, <2>5, <2>6, <2>7, <2>8 DEF Remembers, Repeats
  <2> QED
    BY <1>0, <2>4, <2>5, <2>9, QuietMemory
<1> QED
  BY <1>1, <1>2

\* A session that checks again remembers the row as it is, or aborts.
LEMMA RecheckMemory ==
  ASSUME SInv, NEW r \in Requests, Recheck(r)
  PROVE  (MemoryAgreesWithRow /\ AppliedBefore)'
<1>0. /\ request \in [Requests -> Answered \cup Working] /\ ~Idle(r)
      /\ request[r] \in Working /\ request[r].kind = "supervise"
      /\ UNCHANGED <<database, row, datasets, clock>>
  BY Held DEF SInv, TInv, TypeOK, Recheck, At, Idle
<1>1. CASE Answer(r, "setup_changed")
  BY <1>0, <1>1, RefusalMemory
<1>2. CASE request' = [request EXCEPT ![r].phase = "checked"] /\ UNCHANGED lock
  <2>1. /\ request'[r].kind = "supervise" /\ request'[r].setup = request[r].setup
        /\ request'[r].updated = request[r].updated /\ request'[r].new = request[r].new
        /\ request'[r].revision = request[r].revision
    BY <1>0, <1>2 DEF Working
  <2>2. \A q \in Requests : q # r => request'[q] = request[q]
    BY <1>0, <1>2
  <2>3. Remembers(r)
    BY <1>0 DEF SInv, MemoryAgreesWithRow
  <2>4. Remembers(r)'
    BY <1>0, <2>1, <2>3 DEF Remembers, Repeats
  <2> QED
    BY <1>0, <1>2, <2>2, <2>4, QuietMemory
<1> QED
  BY <1>1, <1>2 DEF Recheck

\* A shared apply that commits writes the Setup its revision names, whose stamp is in force.
LEMMA ApplyIsInForce ==
  ASSUME SInv, NEW r \in Requests, CommitApply(r), Unswapped(r)
  PROVE  /\ ~Idle(r)
         /\ request[r].revision.updated = row.updated
         /\ row.setup = request[r].revision.setup \/ Repeats(row.updated)
         /\ request[r].new = [request[r].revision.setup EXCEPT !.facts = request[r].new.facts]
         /\ database = "postgres" => \A d \in datasets : d.id <= request[r].revision.dataset
<1>1. ~Idle(r) /\ request[r].kind = "aggregate" /\ request[r].phase = "checked"
  BY DEF CommitApply, At, Idle
<1>2. Remembers(r)
  BY <1>1 DEF SInv, MemoryAgreesWithRow
<1>3. row.updated = request[r].updated
  BY DEF Unswapped
<1> QED
  BY <1>1, <1>2, <1>3 DEF Remembers

\* A commit of a session gives the row a stamp nobody remembers.
LEMMA AllCommitMemory ==
  ASSUME SInv, NEW r \in Requests,
         \/ CommitPatch(r) \/ CommitDerive(r) \/ CommitUpload(r) \/ CommitApply(r)
         \/ CommitSupervised(r) \/ CommitBreaks(r)
  PROVE  (MemoryAgreesWithRow /\ AppliedBefore)'
<1>0. TInv /\ TypeOK /\ row.setup \in Setups
  BY Held DEF SInv, TInv
<1>1. ~Idle(r)
  BY DEF CommitPatch, CommitDerive, CommitUpload, CommitApply, CommitSupervised, CommitBreaks, At,
         Idle
<1>2. Flushed(r) \in Setups /\ request[r].new \in Setups
  BY <1>0, <1>1, FlushedType, Held
<1>3. PlanningFile(Now).print = None
  BY <1>0, PlanningFileType
<1>4. CASE CommitPatch(r) \/ CommitBreaks(r)
  <2>1. /\ Write(Flushed(r), Now) /\ Answer(r, "ok") /\ MayWrite(r)
        /\ UNCHANGED <<database, datasets, preview>>
    BY <1>4 DEF CommitPatch, CommitBreaks
  <2> QED
    BY <1>2, <1>3, <2>1, CommitMemory
<1>5. CASE CommitDerive(r)
  <2>1. /\ Write(Flushed(r), Now) /\ Answer(r, "ok") /\ MayWrite(r)
        /\ UNCHANGED <<database, preview>> /\ datasets' = datasets \cup {PlanningFile(Now)}
    BY <1>5 DEF CommitDerive
  <2> QED
    BY <1>2, <1>3, <2>1, CommitMemory
<1>6. CASE CommitUpload(r)
  <2>1. /\ Write(row.setup, Now) /\ Answer(r, "ok") /\ MayWrite(r)
        /\ UNCHANGED <<database, preview>>
        /\ datasets' \subseteq datasets \cup {PlanningFile(Now)}
    BY <1>6 DEF CommitUpload
  <2> QED
    BY <1>0, <1>3, <2>1, CommitMemory
<1>7. CASE CommitApply(r) /\ Unswapped(r)
  <2> DEFINE d == [id |-> Now, print |-> Fingerprint(r), applied |-> request[r].new]
  <2>1. d.print.revision.updated = row.updated
    BY <1>7, ApplyIsInForce DEF Fingerprint
  <2>2. /\ Write(request[r].new, Now) /\ Answer(r, "ok") /\ MayWrite(r)
        /\ UNCHANGED <<database, preview>> /\ datasets' = datasets \cup {d}
    BY <1>7 DEF CommitApply
  <2> HIDE DEF d
  <2> QED
    BY <1>2, <2>1, <2>2, CommitMemory
<1>8. CASE CommitApply(r) /\ ~Unswapped(r)
  BY <1>8, RefusalMemory DEF CommitApply
<1>9. CASE CommitSupervised(r) /\ SetupUnchanged(r)
  <2>1. /\ Write(request[r].new, Now) /\ Answer(r, "ok") /\ MayWrite(r)
        /\ UNCHANGED <<database, datasets, preview>>
    BY <1>9 DEF CommitSupervised
  <2> QED
    BY <1>2, <1>3, <2>1, CommitMemory
<1>10. CASE CommitSupervised(r) /\ ~SetupUnchanged(r)
  BY <1>10, RefusalMemory DEF CommitSupervised
<1> QED
  BY <1>4, <1>5, <1>6, <1>7, <1>8, <1>9, <1>10

\* Every step keeps the invariant.
LEMMA MemoryStep ==
  ASSUME SInv, [Next]_vars
  PROVE  SInv'
<1>1. TInv'
  BY TypesStep DEF SInv
<1>2. CASE Next
  <2>1. CASE Preview \/ Archive \/ PutClosingPolicy \/ CreateDataset
               \/ \E d \in datasets : DeleteDataset(d)
    BY <1>1, <2>1, OwnerMemory DEF SInv
  <2>2. ASSUME NEW r \in Requests,
               \/ BeginPatch(r) \/ BeginDerive(r) \/ BeginUpload(r) \/ BeginApply(r)
               \/ BeginBreaks(r, "supervise") \/ BeginBreaks(r, "breaks")
        PROVE  (MemoryAgreesWithRow /\ AppliedBefore)'
    BY <2>2, AllBeginMemory
  <2>3. ASSUME NEW r \in Requests, Progress(r)
        PROVE  (MemoryAgreesWithRow /\ AppliedBefore)'
    <3>1. CASE AnswerDuplicate(r)
      BY <3>1, RefusalMemory DEF AnswerDuplicate
    <3>2. CASE RefuseChanged(r)
      BY <3>2, RefusalMemory DEF RefuseChanged
    <3> QED
      BY <2>3, <3>1, <3>2, LockRowMemory, DeriveMemory, RecheckMemory, AllCommitMemory
      DEF Progress
  <2>4. ASSUME NEW r \in Requests, Abort(r)
        PROVE  (MemoryAgreesWithRow /\ AppliedBefore)'
    BY <2>4, RefusalMemory DEF Abort
  <2> QED
    <3>1. CASE \E r \in Requests : BeginPatch(r) \/ BeginDerive(r) \/ BeginUpload(r)
            \/ BeginApply(r) \/ BeginBreaks(r, "supervise") \/ BeginBreaks(r, "breaks")
      BY <1>1, <2>2, <3>1 DEF SInv
    <3>2. CASE \E r \in Requests : Progress(r) \/ Abort(r)
      BY <1>1, <2>3, <2>4, <3>2 DEF SInv
    <3>3. CASE Preview \/ Archive \/ PutClosingPolicy \/ CreateDataset
                 \/ \E d \in datasets : DeleteDataset(d)
      BY <2>1, <3>3
    <3> QED
      BY <1>2, <3>1, <3>2, <3>3 DEF Next
<1>3. CASE UNCHANGED vars
  BY <1>1, <1>3 DEF vars, SInv, MemoryAgreesWithRow, Remembers, AppliedBefore, Idle, Repeats
<1> QED
  BY <1>2, <1>3

\* The invariant holds at first.
LEMMA MemoryInit ==
  ASSUME Init
  PROVE  SInv
<1>1. TInv
  BY TypesInit
<1>2. \A r \in Requests : Idle(r)
  BY DEF Init, Idle
<1> QED
  BY <1>1, <1>2 DEF Init, SInv, MemoryAgreesWithRow, AppliedBefore

\* What every session at work holds agrees with the row, in every instance.
THEOREM MemoryHolds == Spec => []MemoryAgreesWithRow
<1>1. Init => SInv
  BY MemoryInit
<1>2. SInv /\ [Next]_vars => SInv'
  BY MemoryStep
<1>3. SInv => MemoryAgreesWithRow
  BY DEF SInv
<1> QED
  BY <1>1, <1>2, <1>3, PTL DEF Spec

---------------------------------------------------------------------------
(* The properties *)

\* Only CommitApply stores a file with a fingerprint.
LEMMA OnlyCommitApplies ==
  ASSUME SInv, Next, NEW d \in datasets', Applies(d)
  PROVE  \E r \in Requests :
           /\ CommitApply(r) /\ Unswapped(r)
           /\ d.print = Fingerprint(r)
<1>1. d \in datasets' /\ d \notin datasets /\ d.print # None
  BY DEF Applies
<1>2. PlanningFile(Now).print = None
  BY PlanningFileType DEF SInv
<1>3. datasets' # datasets
  BY <1>1
<1>4. ~Preview /\ ~Archive /\ ~PutClosingPolicy
  BY <1>3 DEF Preview, Archive, PutClosingPolicy
<1>5. ~CreateDataset
  BY <1>1, <1>2 DEF CreateDataset
<1>6. ~\E e \in datasets : DeleteDataset(e)
  BY <1>1 DEF DeleteDataset
<1>7. ASSUME NEW r \in Requests
      PROVE  /\ ~BeginPatch(r) /\ ~BeginDerive(r) /\ ~BeginUpload(r) /\ ~BeginApply(r)
             /\ ~BeginBreaks(r, "supervise") /\ ~BeginBreaks(r, "breaks")
  BY <1>3 DEF BeginPatch, BeginDerive, BeginUpload, BeginApply, BeginBreaks, Begin
<1>8. ASSUME NEW r \in Requests
      PROVE  /\ ~CommitPatch(r) /\ ~CommitSupervised(r) /\ ~CommitBreaks(r)
             /\ ~LockRow(r) /\ ~AnswerDuplicate(r) /\ ~RefuseChanged(r) /\ ~Derive(r)
             /\ ~Recheck(r) /\ ~Abort(r)
  BY <1>3 DEF CommitPatch, CommitSupervised, CommitBreaks, LockRow, AnswerDuplicate,
              RefuseChanged, Derive, Recheck, Abort
<1>9. ASSUME NEW r \in Requests
      PROVE  ~CommitDerive(r) /\ ~CommitUpload(r)
  BY <1>1, <1>2 DEF CommitDerive, CommitUpload
<1>10. PICK r \in Requests : CommitApply(r)
  BY <1>4, <1>5, <1>6, <1>7, <1>8, <1>9 DEF Next, Progress
<1>11. Unswapped(r)
  BY <1>3, <1>10 DEF CommitApply
<1>12. d = [id |-> Now, print |-> Fingerprint(r), applied |-> request[r].new]
  BY <1>1, <1>10, <1>11 DEF CommitApply
<1> QED
  BY <1>10, <1>11, <1>12

\* A shared apply that commits writes the previewed Setup with the facts of the file, over what was
\* previewed and, on PostgreSQL, with no dataset added since.
LEMMA ApplyStep ==
  ASSUME SInv, [Next]_vars
  PROVE  \A d \in datasets' :
           Applies(d) =>
             LET revision == d.print.revision
             IN /\ row.updated = revision.updated
                /\ row.setup = revision.setup \/ Repeats(revision.updated)
                /\ row'.setup = [revision.setup EXCEPT !.facts = d.print.facts]
                /\ database = "postgres" => \A e \in datasets : e.id <= revision.dataset
<1>1. SUFFICES ASSUME NEW d \in datasets', Applies(d)
               PROVE  /\ row.updated = d.print.revision.updated
                      /\ row.setup = d.print.revision.setup \/ Repeats(row.updated)
                      /\ row'.setup = [d.print.revision.setup EXCEPT !.facts = d.print.facts]
                      /\ database = "postgres" =>
                           \A e \in datasets : e.id <= d.print.revision.dataset
  OBVIOUS
<1>2. Next
  BY <1>1 DEF Applies, vars
<1>3. PICK r \in Requests : CommitApply(r) /\ Unswapped(r) /\ d.print = Fingerprint(r)
  BY <1>1, <1>2, OnlyCommitApplies
<1>4. /\ d.print.revision = request[r].revision
      /\ d.print.facts = request[r].new.facts
  BY <1>3 DEF Fingerprint
<1>5. /\ ~Idle(r)
      /\ request[r].revision.updated = row.updated
      /\ row.setup = request[r].revision.setup \/ Repeats(row.updated)
      /\ request[r].new = [request[r].revision.setup EXCEPT !.facts = request[r].new.facts]
      /\ database = "postgres" => \A e \in datasets : e.id <= request[r].revision.dataset
  BY <1>3, ApplyIsInForce
<1>6. request[r].new \in Setups
  BY <1>5, Held DEF SInv, TInv
<1>7. row'.setup = request[r].new
  <2>1. Write(request[r].new, Now)
    BY <1>3 DEF CommitApply
  <2>2. Now \in Nat /\ Now <= Now
    BY DEF SInv, TInv, TypeOK, Now
  <2> QED
    BY <1>6, <2>1, <2>2, WriteTypes DEF SInv
<1> QED
  BY <1>4, <1>5, <1>7

\* shared_aggregate_upload.py: under the row lock or the compare-and-swap, what a confirmed apply
\* writes is what the owner saw in its preview with the facts of the file, and what it replaces is
\* that preview, except behind a stamp that SQLite issued twice.
THEOREM ApplyIsPreviewed == Spec => ApplyReplacesWhatWasPreviewed
<1>1. Init => SInv
  BY MemoryInit
<1>2. SInv /\ [Next]_vars => SInv'
  BY MemoryStep
<1>3. SInv /\ [Next]_vars =>
        [\A d \in datasets' :
           Applies(d) =>
             LET revision == d.print.revision
             IN /\ row.updated = revision.updated
                /\ row.setup = revision.setup \/ Repeats(revision.updated)
                /\ row'.setup = [revision.setup EXCEPT !.facts = d.print.facts]
                /\ database = "postgres" => \A e \in datasets : e.id <= revision.dataset]_vars
  BY ApplyStep
<1> QED
  BY <1>1, <1>2, <1>3, PTL DEF Spec, ApplyReplacesWhatWasPreviewed

\* Every step leaves the database what it is.
LEMMA DatabaseStays ==
  ASSUME [Next]_vars
  PROVE  database' = database
<1>1. ASSUME NEW r \in Requests, Progress(r) \/ Abort(r)
      PROVE  database' = database
  BY <1>1 DEF Progress, CommitPatch, CommitDerive, CommitUpload, LockRow, AnswerDuplicate,
     RefuseChanged, Derive, CommitApply, Recheck, CommitSupervised, CommitBreaks, Abort
<1>2. ASSUME NEW r \in Requests,
             \/ BeginPatch(r) \/ BeginDerive(r) \/ BeginUpload(r) \/ BeginApply(r)
             \/ BeginBreaks(r, "supervise") \/ BeginBreaks(r, "breaks")
      PROVE  database' = database
  BY <1>2 DEF BeginPatch, BeginDerive, BeginUpload, BeginApply, BeginBreaks, Begin
<1> QED
  BY <1>1, <1>2 DEF Next, vars, Preview, Archive, PutClosingPolicy, CreateDataset, DeleteDataset

\* A second file from a used revision is stored only behind a stamp issued twice.
LEMMA OneApplyStep ==
  ASSUME SInv, [Next]_vars, OneApplyPerRevision
  PROVE  OneApplyPerRevision'
<1> DEFINE Within(d, stamp) == d.id < stamp + TicksPerSecond
<1>0. database' = database
  BY DatabaseStays
<1>1. ASSUME NEW d \in datasets', NEW e \in datasets', d.print # None, e.print # None,
             d.print.revision = e.print.revision, e \in datasets, d \notin datasets
      PROVE  /\ Repeats(d.print.revision.updated)
             /\ Within(e, d.print.revision.updated)
  <2>1. Applies(d)
    BY <1>1 DEF Applies
  <2>2. d.print.revision.updated = row.updated
    BY <2>1, ApplyStep
  <2>3. Repeats(row.updated) /\ Within(e, row.updated)
    BY <1>1, <2>2 DEF SInv, AppliedBefore
  <2> QED
    BY <2>2, <2>3
<1>2. ASSUME NEW d \in datasets', NEW e \in datasets', d.print # None, e.print # None,
             d \notin datasets, e \notin datasets
      PROVE  d = e
  <2>1. Applies(d) /\ Applies(e)
    BY <1>2 DEF Applies
  <2>2. Next
    BY <1>2 DEF vars
  <2>3. PICK r \in Requests : CommitApply(r) /\ Unswapped(r)
    BY <2>1, <2>2, OnlyCommitApplies
  <2>4. datasets' = datasets \cup
          {[id |-> Now, print |-> Fingerprint(r), applied |-> request[r].new]}
    BY <2>3 DEF CommitApply
  <2> QED
    BY <1>2, <2>4
<1>3. ASSUME NEW d \in datasets', NEW e \in datasets', d.print # None, e.print # None,
             d.print.revision = e.print.revision, d # e
      PROVE  LET stamp == d.print.revision.updated
             IN Repeats(stamp) /\ (Within(d, stamp) \/ Within(e, stamp))
  <2>1. CASE d \in datasets /\ e \in datasets
    BY <1>3, <2>1 DEF OneApplyPerRevision, Applied
  <2>2. CASE d \notin datasets /\ e \notin datasets
    BY <1>2, <1>3, <2>2
  <2>3. CASE d \notin datasets /\ e \in datasets
    BY <1>1, <1>3, <2>3
  <2>4. CASE d \in datasets /\ e \notin datasets
    BY <1>1, <1>3, <2>4
  <2> QED
    BY <2>1, <2>2, <2>3, <2>4
<1> QED
  BY <1>0, <1>3 DEF OneApplyPerRevision, Applied, Repeats

\* A retry, or a second file previewed side by side, never applies a revision a second time, for any
\* length of SQLite's second: only after an apply within the second of the revision's whole-second
\* stamp can a policy change (shared_continuous.py:430) give that stamp back.
THEOREM OneApply == Spec => []OneApplyPerRevision
<1>1. Init => SInv /\ OneApplyPerRevision
  BY MemoryInit DEF Init, OneApplyPerRevision, Applied
<1>2. SInv /\ OneApplyPerRevision /\ [Next]_vars => (SInv /\ OneApplyPerRevision)'
  BY MemoryStep, OneApplyStep
<1> QED
  BY <1>1, <1>2, PTL DEF Spec

\* A supervisor's apply writes the breaks it checked into the Setup it checked.
LEMMA CheckedStep ==
  ASSUME SInv, [Next]_vars, NEW r \in Requests, At(r, "supervise", "checked"),
         request'[r] = [phase |-> "answered", answer |-> "ok"]
  PROVE  /\ row.setup = request[r].revision.setup
         /\ row'.setup = [row.setup EXCEPT !.breaks = request[r].new.breaks]
<1>1. /\ request \in [Requests -> Answered \cup Working] /\ request[r].phase = "checked"
      /\ request[r].kind = "supervise" /\ ~Idle(r)
  BY DEF SInv, TInv, TypeOK, At, Idle
<1>2. request' # request
  BY <1>1
<1>3. \A q \in Requests : q # r => \A a : ~Answer(q, a)
  BY <1>1 DEF Answer
<1>4. ~Answer(r, "refused") /\ ~Answer(r, "setup_changed")
  BY <1>1 DEF Answer
<1>5. ~Preview /\ ~Archive /\ ~PutClosingPolicy /\ ~CreateDataset
        /\ ~\E d \in datasets : DeleteDataset(d)
  BY <1>2 DEF Preview, Archive, PutClosingPolicy, CreateDataset, DeleteDataset
<1>6. ASSUME NEW q \in Requests, NEW kind, NEW phase \in {"waiting", "read"}, NEW new,
             NEW revision, Begin(q, kind, phase, new, revision)
      PROVE  FALSE
  <2>1. q # r
    BY <1>1, <1>6 DEF Begin
  <2>2. request'[r] = request[r]
    BY <1>1, <1>6, <2>1 DEF Begin
  <2> QED
    BY <1>1, <2>2
<1>7. ASSUME NEW q \in Requests
      PROVE  /\ ~BeginPatch(q) /\ ~BeginDerive(q) /\ ~BeginUpload(q) /\ ~BeginApply(q)
             /\ ~BeginBreaks(q, "supervise") /\ ~BeginBreaks(q, "breaks")
  BY <1>6 DEF BeginPatch, BeginDerive, BeginUpload, BeginApply, BeginBreaks
<1>8. ASSUME NEW q \in Requests, request' = [request EXCEPT ![q].phase = "checked"]
      PROVE  FALSE
  BY <1>1, <1>8
<1>9. ASSUME NEW q \in Requests, q # r
      PROVE  /\ ~CommitPatch(q) /\ ~CommitDerive(q) /\ ~CommitUpload(q) /\ ~CommitBreaks(q)
             /\ ~CommitApply(q) /\ ~CommitSupervised(q) /\ ~AnswerDuplicate(q)
             /\ ~RefuseChanged(q) /\ ~Abort(q) /\ ~Recheck(q)
  BY <1>3, <1>8, <1>9 DEF CommitPatch, CommitDerive, CommitUpload, CommitBreaks, CommitApply,
     CommitSupervised, AnswerDuplicate, RefuseChanged, Abort, Recheck
<1>10. ASSUME NEW q \in Requests, q # r
       PROVE  ~LockRow(q) /\ ~Derive(q)
  BY <1>1, <1>3, <1>10 DEF LockRow, Derive
<1>11. /\ ~CommitPatch(r) /\ ~CommitDerive(r) /\ ~CommitUpload(r) /\ ~CommitBreaks(r)
       /\ ~CommitApply(r) /\ ~AnswerDuplicate(r) /\ ~RefuseChanged(r) /\ ~Recheck(r)
       /\ ~LockRow(r) /\ ~Derive(r) /\ ~Abort(r)
  BY <1>1, <1>4 DEF CommitPatch, CommitDerive, CommitUpload, CommitBreaks, CommitApply,
     AnswerDuplicate, RefuseChanged, Recheck, LockRow, Derive, Abort, At
<1>12. CommitSupervised(r)
  BY <1>2, <1>5, <1>7, <1>9, <1>10, <1>11 DEF Next, Progress, vars
<1>13. SetupUnchanged(r)
  BY <1>4, <1>12 DEF CommitSupervised
<1>14. Remembers(r)
  BY <1>1 DEF SInv, MemoryAgreesWithRow
<1>15. row'.setup = request[r].new
  <2>1. Write(request[r].new, Now)
    BY <1>12, <1>13 DEF CommitSupervised
  <2>2. Now \in Nat /\ Now <= Now
    BY DEF SInv, TInv, TypeOK, Now
  <2>3. request[r].new \in Setups
    BY <1>1, Held DEF SInv, TInv
  <2> QED
    BY <2>1, <2>2, <2>3, WriteTypes DEF SInv
<1> QED
  BY <1>1, <1>13, <1>14, <1>15 DEF Remembers, SetupUnchanged

\* supervisor_schedule.py: "Conditional update also refuses a Setup writer between the final read
\* and write", so a checked schedule never undoes an edit.
THEOREM CheckedScheduleIsKept == Spec => CheckedScheduleKeepsTheRest
<1>1. Init => SInv
  BY MemoryInit
<1>2. SInv /\ [Next]_vars => SInv'
  BY MemoryStep
<1>3. SInv /\ [Next]_vars =>
        [\A r \in Requests :
           /\ At(r, "supervise", "checked")
           /\ request'[r] = [phase |-> "answered", answer |-> "ok"]
           => /\ row.setup = request[r].revision.setup
              /\ row'.setup = [row.setup EXCEPT !.breaks = request[r].new.breaks]]_vars
  BY CheckedStep
<1> QED
  BY <1>1, <1>2, <1>3, PTL DEF Spec, CheckedScheduleKeepsTheRest

\* On PostgreSQL an apply is refused for a changed Setup only by one that did change.
LEMMA RetryStep ==
  ASSUME SInv, [Next]_vars, NEW r \in Requests, database = "postgres", ~Idle(r),
         request[r].kind = "aggregate",
         request'[r] = [phase |-> "answered", answer |-> "setup_changed"]
  PROVE  ~\E d \in datasets : d.print = Fingerprint(r) /\ InForce(d, row.setup)
<1>1. /\ request \in [Requests -> Answered \cup Working] /\ request[r] \in Working
      /\ request[r].phase # "answered"
  BY Held DEF SInv, TInv, TypeOK, Idle
<1>2. request' # request
  BY <1>1
<1>3. \A q \in Requests : q # r => \A a : ~Answer(q, a)
  BY <1>1 DEF Answer
<1>4. ~Answer(r, "ok") /\ ~Answer(r, "refused")
  BY <1>1 DEF Answer
<1>5. ~Preview /\ ~Archive /\ ~PutClosingPolicy /\ ~CreateDataset
        /\ ~\E d \in datasets : DeleteDataset(d)
  BY <1>2 DEF Preview, Archive, PutClosingPolicy, CreateDataset, DeleteDataset
<1>6. ASSUME NEW q \in Requests, NEW kind, NEW phase \in {"waiting", "read"}, NEW new,
             NEW revision, Begin(q, kind, phase, new, revision)
      PROVE  FALSE
  <2>1. CASE q = r
    BY <1>6, <2>1 DEF Begin
  <2>2. CASE q # r
    <3>1. request'[r] = request[r]
      BY <1>1, <1>6, <2>2 DEF Begin
    <3> QED
      BY <1>1, <3>1
  <2> QED
    BY <2>1, <2>2
<1>7. ASSUME NEW q \in Requests
      PROVE  /\ ~BeginPatch(q) /\ ~BeginDerive(q) /\ ~BeginUpload(q) /\ ~BeginApply(q)
             /\ ~BeginBreaks(q, "supervise") /\ ~BeginBreaks(q, "breaks")
  BY <1>6 DEF BeginPatch, BeginDerive, BeginUpload, BeginApply, BeginBreaks
<1>8. ASSUME NEW q \in Requests, q # r
      PROVE  ~Progress(q) /\ ~Abort(q)
  BY <1>1, <1>3, <1>8 DEF Progress, CommitPatch, CommitDerive, CommitUpload, CommitBreaks,
     CommitApply, CommitSupervised, AnswerDuplicate, RefuseChanged, Abort, Recheck, LockRow, Derive
<1>9. /\ ~CommitPatch(r) /\ ~CommitDerive(r) /\ ~CommitUpload(r) /\ ~CommitBreaks(r)
      /\ ~CommitSupervised(r) /\ ~Recheck(r) /\ ~AnswerDuplicate(r) /\ ~Abort(r)
  BY <1>4 DEF CommitPatch, CommitDerive, CommitUpload, CommitBreaks, CommitSupervised, Recheck,
     AnswerDuplicate, Abort, At
<1>10. ~LockRow(r) /\ ~Derive(r)
  BY <1>1, <1>4 DEF LockRow, Derive
<1>11. RefuseChanged(r) \/ CommitApply(r)
  BY <1>2, <1>5, <1>7, <1>8, <1>9, <1>10 DEF Next, Progress, vars
<1>12. request[r].phase \in {"read", "checked"}
  BY <1>11 DEF RefuseChanged, CommitApply, At
<1>13. request[r].setup = row.setup /\ request[r].updated = row.updated /\ ~row.archived
  BY <1>12 DEF SInv, MemoryAgreesWithRow, Remembers, Repeats
<1>14. ~CommitApply(r)
  BY <1>4, <1>13 DEF CommitApply, Unswapped
<1> QED
  BY <1>11, <1>13, <1>14 DEF RefuseChanged, Earlier

\* _duplicate under the row lock: while the file an apply stored is current and its Setup in force,
\* sending the apply again is never answered with "setup_changed", however the two overlap.
THEOREM RetriesAreAnswered == Spec => RetryIsAnswered
<1>1. Init => SInv
  BY MemoryInit
<1>2. SInv /\ [Next]_vars => SInv'
  BY MemoryStep
<1>3. SInv /\ [Next]_vars =>
        [\A r \in Requests :
           /\ database = "postgres"
           /\ ~Idle(r)
           /\ request[r].kind = "aggregate"
           /\ request'[r] = [phase |-> "answered", answer |-> "setup_changed"]
           => ~\E d \in datasets : d.print = Fingerprint(r) /\ InForce(d, row.setup)]_vars
  BY RetryStep
<1> QED
  BY <1>1, <1>2, <1>3, PTL DEF Spec, RetryIsAnswered
===============================================================================
