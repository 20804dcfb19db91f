---------------------------- MODULE SetupWriters ----------------------------
(***************************************************************************)
(* The row of one analysis and the requests that write its Setup.          *)
(*                                                                         *)
(* A Setup can be replaced whole (PATCH, an upload with apply_setup), or   *)
(* one part of it can be replaced from an earlier preview: the staffing    *)
(* facts of a shared line from an uploaded file (shared_aggregate_upload), *)
(* or the break times of separate queues (supervisor_schedule, and         *)
(* apply_separate_breaks).  Every request reads the row first and writes   *)
(* it later.  PostgreSQL gives the shared apply a row lock; SQLite ignores *)
(* FOR UPDATE, and updated_at is compared and swapped instead.             *)
(*                                                                         *)
(* One tick of clock is one committed write: datetime.now() never repeats, *)
(* while func.now() on SQLite gives the same stamp throughout a second.    *)
(***************************************************************************)
EXTENDS Integers, FiniteSetsExt

CONSTANTS
  Structures,   \* queue_structure values in play
  Facts,        \* staffing and hours: what an uploaded file states
  Breaks,       \* the break times
  Kinds,        \* the requests in play
  Requests,     \* database sessions at work at the same time
  NoRequest,    \* nobody holds the row lock
  None,         \* no revision, no fingerprint
  Databases,    \* the databases in play
  TicksPerSecond, \* commits SQLite's CURRENT_TIMESTAMP cannot tell apart
  MaxClock      \* bound on committed writes

AllKinds == {"patch", "upload", "derive", "aggregate", "supervise", "breaks"}

ASSUME ConstantsAssumption ==
  /\ Structures \subseteq {"separate", "shared"}
  /\ Kinds \subseteq AllKinds
  /\ Databases \subseteq {"postgres", "sqlite"}
  /\ NoRequest \notin Requests
  /\ TicksPerSecond \in Nat \ {0}
  /\ MaxClock \in Nat
  /\ IsFiniteSet(Requests)

Setups == [structure : Structures, facts : Facts, breaks : Breaks]

VARIABLES
  database,   \* which of Databases the server was started on
  row,        \* the analysis row
  datasets,   \* its planning files, by increasing id
  preview,    \* what the owner's last preview was computed from
  request,    \* the memory of each session
  lock,       \* the session holding the row FOR UPDATE
  clock       \* committed writes

vars == <<database, row, datasets, preview, request, lock, clock>>

-----------------------------------------------------------------------------
(* Types *)

\* What a preview was computed from: SharedAggregatePreviewOut.setup_revision
\* digests all of it, a supervisor's preview_hash the Setup and the dataset.
Revisions == [setup : Setups, updated : Nat, dataset : Nat]

\* request_fingerprint: the file and the revision it was previewed against.
Fingerprints == [facts : Facts, revision : Revisions]

\* applied is what applied_setup_digest stands for.
Dataset == [id : Nat, print : Fingerprints \cup {None}, applied : Setups \cup {None}]

Row == [setup : Setups, updated : Nat, archived : BOOLEAN]

Answered == [phase : {"answered"}, answer : {"ok", "refused", "setup_changed"}]

\* setup and updated are the loaded row; new is the Setup to be written.
Working == [phase : {"waiting", "read", "checked"}, kind : AllKinds, setup : Setups,
            updated : Nat, new : Setups, revision : Revisions \cup {None}]

-----------------------------------------------------------------------------
(* Reading *)

\* resolve_current_dataset: the newest planning file, 0 when there is none.
CurrentDataset ==
  IF datasets = {} THEN 0 ELSE Max({d.id : d \in datasets})

\* mutant: the revision is the Setup's content alone.
RevisionOfContent(setup, updated) == [setup |-> setup, updated |-> 0, dataset |-> 0]

\* _revision
RevisionOf(setup, updated) == [setup |-> setup, updated |-> updated, dataset |-> CurrentDataset]

Idle(r) == request[r].phase = "answered"

At(r, kind, phase) == request[r].phase = phase /\ request[r].kind = kind

\* An UPDATE of the row waits for the session that holds it FOR UPDATE.
MayWrite(r) == lock \in {NoRequest, r}

\* Every request in flight keeps room for its own commit.
Room == clock + Cardinality({r \in Requests : ~Idle(r)}) < MaxClock

Now == clock + 1

\* CURRENT_TIMESTAMP of SQLite.
WholeSecond(t) == t - (t % TicksPerSecond)

Answer(r, answer) ==
  /\ request' = [request EXCEPT ![r] = [phase |-> "answered", answer |-> answer]]
  /\ lock' = IF lock = r THEN NoRequest ELSE lock

\* A column is in the UPDATE only when the session changed what it loaded.
Flushed(r) == IF request[r].new = request[r].setup THEN row.setup ELSE request[r].new

PlanningFile(id) == [id |-> id, print |-> None, applied |-> None]

-----------------------------------------------------------------------------
Init ==
  /\ database \in Databases
  /\ \E s \in Setups : row = [setup |-> s, updated |-> 0, archived |-> FALSE]
  /\ datasets = {}
  /\ preview = RevisionOf(row.setup, row.updated)
  /\ request = [r \in Requests |-> [phase |-> "answered", answer |-> "ok"]]
  /\ lock = NoRequest
  /\ clock = 0

(* Previews write nothing.  The owner keeps the last answer and may submit *)
(* it any number of times.                                                 *)
Preview ==
  /\ preview' = RevisionOf(row.setup, row.updated)
  /\ UNCHANGED <<database, row, datasets, request, lock, clock>>

-----------------------------------------------------------------------------
(* Writers that replace what the owner sent *)

Begin(r, kind, phase, new, revision) ==
  /\ kind \in Kinds
  /\ Idle(r)
  /\ Room
  /\ request' = [request EXCEPT ![r] =
       [phase |-> phase, kind |-> kind, setup |-> row.setup, updated |-> row.updated,
        new |-> new, revision |-> revision]]
  /\ UNCHANGED <<database, row, datasets, preview, lock, clock>>

\* A PATCH without queue_setup is one that sends the Setup it loaded.
BeginPatch(r) == \E s \in Setups : Begin(r, "patch", "read", s, None)

\* apply_setup derives separate queues from the workbook's sheets.
BeginDerive(r) ==
  /\ ~row.archived
  /\ \E s \in {s \in Setups : s.structure = "separate"} : Begin(r, "derive", "read", s, None)

BeginUpload(r) == ~row.archived /\ Begin(r, "upload", "read", row.setup, None)

Write(setup, updated) ==
  /\ row' = [row EXCEPT !.setup = setup, !.updated = updated]
  /\ clock' = Now

CommitPatch(r) ==
  /\ At(r, "patch", "read")
  /\ MayWrite(r)
  /\ Write(Flushed(r), Now)
  /\ Answer(r, "ok")
  /\ UNCHANGED <<database, datasets, preview>>

CommitDerive(r) ==
  /\ At(r, "derive", "read")
  /\ MayWrite(r)
  /\ Write(Flushed(r), Now)
  /\ datasets' = datasets \cup {PlanningFile(Now)}
  /\ Answer(r, "ok")
  /\ UNCHANGED <<database, preview>>

\* A review-only file changes updated_at and is never current.
CommitUpload(r) ==
  /\ At(r, "upload", "read")
  /\ MayWrite(r)
  /\ Write(row.setup, Now)
  /\ datasets' \in {datasets, datasets \cup {PlanningFile(Now)}}
  /\ Answer(r, "ok")
  /\ UNCHANGED <<database, preview>>

(* Writers that read nothing they depend on: one commit each *)

Archive ==
  /\ Room
  /\ lock = NoRequest
  /\ row' = [row EXCEPT !.archived = TRUE, !.updated = Now]
  /\ clock' = Now
  /\ UNCHANGED <<database, datasets, preview, request, lock>>

\* Only the rule is assigned; onupdate=func.now() stamps updated_at, on
\* SQLite in whole seconds.
PutClosingPolicy ==
  /\ Room
  /\ lock = NoRequest
  /\ Write(row.setup, IF database = "sqlite" THEN WholeSecond(Now) ELSE Now)
  /\ UNCHANGED <<database, datasets, preview, request, lock>>

\* POST /datasets inserts a row that refers to the analysis and leaves
\* updated_at alone; its foreign key waits for a FOR UPDATE.
CreateDataset ==
  /\ Room
  /\ lock = NoRequest
  /\ datasets' = datasets \cup {PlanningFile(Now)}
  /\ clock' = Now
  /\ UNCHANGED <<database, row, preview, request, lock>>

DeleteDataset(d) ==
  /\ datasets' = datasets \ {d}
  /\ UNCHANGED <<database, row, preview, request, lock, clock>>

-----------------------------------------------------------------------------
(* The shared apply *)

\* The file sent with the preview's answer: the same one again is a retry,
\* another one is a second file previewed at the same revision.
BeginApply(r) ==
  \E f \in Facts :
    Begin(r, "aggregate", "waiting", [preview.setup EXCEPT !.facts = f], preview)

\* mutant: no populate_existing, the session keeps the row it loaded before it waited.
LockRowStale(r) ==
  /\ At(r, "aggregate", "waiting")
  /\ lock = NoRequest
  /\ IF row.archived
       THEN Answer(r, "refused")
       ELSE /\ request' = [request EXCEPT ![r].phase = "read"]
            /\ lock' = IF database = "postgres" THEN r ELSE NoRequest
  /\ UNCHANGED <<database, row, datasets, preview, clock>>

\* SELECT ... FOR UPDATE with populate_existing.
LockRow(r) ==
  /\ At(r, "aggregate", "waiting")
  /\ lock = NoRequest
  /\ IF row.archived
       THEN Answer(r, "refused")
       ELSE /\ request' = [request EXCEPT ![r].phase = "read", ![r].setup = row.setup,
                                          ![r].updated = row.updated]
            /\ lock' = IF database = "postgres" THEN r ELSE NoRequest
  /\ UNCHANGED <<database, row, datasets, preview, clock>>

Fingerprint(r) == [facts |-> request[r].new.facts, revision |-> request[r].revision]

Earlier(r) == {d \in datasets : d.print = Fingerprint(r)}

\* _duplicate: the retry of an apply whose file is current and whose Setup
\* is in force gets the stored answer.
InForce(d, setup) == d.id = CurrentDataset /\ d.applied = setup

\* mutant: the stored answer is returned with the transaction left open.
AnswerDuplicateHolding(r) ==
  /\ At(r, "aggregate", "read")
  /\ \E d \in Earlier(r) : InForce(d, request[r].setup)
  /\ request' = [request EXCEPT ![r] = [phase |-> "answered", answer |-> "ok"]]
  /\ UNCHANGED <<database, row, datasets, preview, lock, clock>>

AnswerDuplicate(r) ==
  /\ At(r, "aggregate", "read")
  /\ \E d \in Earlier(r) : InForce(d, request[r].setup)
  /\ Answer(r, "ok")
  /\ UNCHANGED <<database, row, datasets, preview, clock>>

RevisionStands(r) ==
  /\ Earlier(r) = {}
  /\ RevisionOf(request[r].setup, request[r].updated) = request[r].revision

RefuseChanged(r) ==
  /\ At(r, "aggregate", "read")
  /\ ~RevisionStands(r)
  /\ ~\E d \in Earlier(r) : InForce(d, request[r].setup)
  /\ Answer(r, "setup_changed")
  /\ UNCHANGED <<database, row, datasets, preview, clock>>

\* The file is read against the Setup: it replaces the facts of a shared
\* line, and keeps the rest.
Derive(r) ==
  /\ At(r, "aggregate", "read")
  /\ RevisionStands(r)
  /\ IF request[r].setup.structure # "shared"
       THEN Answer(r, "refused")
       ELSE /\ request' = [request EXCEPT ![r].phase = "checked",
                 ![r].new = [request[r].setup EXCEPT !.facts = request[r].new.facts]]
            /\ UNCHANGED lock
  /\ UNCHANGED <<database, row, datasets, preview, clock>>

\* mutant: the UPDATE names the row only.
UnswappedById(r) == ~row.archived

Unswapped(r) == row.updated = request[r].updated /\ ~row.archived

\* UPDATE ... WHERE updated_at and archived_at, the insert, one commit.
CommitApply(r) ==
  /\ At(r, "aggregate", "checked")
  /\ MayWrite(r)
  /\ IF Unswapped(r)
       THEN /\ Write(request[r].new, Now)
            /\ datasets' = datasets \cup
                 {[id |-> Now, print |-> Fingerprint(r), applied |-> request[r].new]}
            /\ Answer(r, "ok")
       ELSE /\ Answer(r, "setup_changed")
            /\ UNCHANGED <<row, datasets, clock>>
  /\ UNCHANGED <<database, preview>>

-----------------------------------------------------------------------------
(* New break times for separate queues *)

\* The optimizer runs again on what is read now, and its answer must be the
\* previewed one, so the Setup and the dataset are those of the preview.
PreviewStands ==
  /\ row.setup = preview.setup
  /\ preview.dataset # 0
  /\ CurrentDataset = preview.dataset
  /\ row.setup.structure = "separate"

BeginBreaks(r, kind) ==
  /\ PreviewStands
  /\ \E b \in Breaks \ {row.setup.breaks} :
       Begin(r, kind, "read", [row.setup EXCEPT !.breaks = b], preview)

\* db.refresh and the comparison after the computation.
Recheck(r) ==
  /\ At(r, "supervise", "read")
  /\ IF RevisionOf(row.setup, row.updated) =
          [request[r].revision EXCEPT !.updated = request[r].updated]
       THEN request' = [request EXCEPT ![r].phase = "checked"] /\ UNCHANGED lock
       ELSE Answer(r, "setup_changed")
  /\ UNCHANGED <<database, row, datasets, preview, clock>>

\* mutant: the UPDATE names the row only.
SetupUnchangedById(r) == TRUE

\* UPDATE ... WHERE queue_setup_json is what was read.
SetupUnchanged(r) == row.setup = request[r].setup

CommitSupervised(r) ==
  /\ At(r, "supervise", "checked")
  /\ MayWrite(r)
  /\ IF SetupUnchanged(r)
       THEN Write(request[r].new, Now) /\ Answer(r, "ok")
       ELSE Answer(r, "setup_changed") /\ UNCHANGED <<row, clock>>
  /\ UNCHANGED <<database, datasets, preview>>

\* apply_separate_breaks assigns the Setup it read with the breaks moved.
CommitBreaks(r) ==
  /\ At(r, "breaks", "read")
  /\ MayWrite(r)
  /\ Write(Flushed(r), Now)
  /\ Answer(r, "ok")
  /\ UNCHANGED <<database, datasets, preview>>

-----------------------------------------------------------------------------
\* Any other refusal, a failed computation or a lost worker: get_db closes
\* the session, which rolls back and releases the row.
Abort(r) ==
  /\ ~Idle(r)
  /\ Answer(r, "refused")
  /\ UNCHANGED <<database, row, datasets, preview, clock>>

Progress(r) ==
  \/ CommitPatch(r) \/ CommitDerive(r) \/ CommitUpload(r)
  \/ LockRow(r) \/ AnswerDuplicate(r) \/ RefuseChanged(r) \/ Derive(r) \/ CommitApply(r)
  \/ Recheck(r) \/ CommitSupervised(r) \/ CommitBreaks(r)

Next ==
  \/ Preview \/ Archive \/ PutClosingPolicy \/ CreateDataset
  \/ \E d \in datasets : DeleteDataset(d)
  \/ \E r \in Requests :
       \/ BeginPatch(r) \/ BeginDerive(r) \/ BeginUpload(r) \/ BeginApply(r)
       \/ BeginBreaks(r, "supervise") \/ BeginBreaks(r, "breaks")
       \/ Progress(r) \/ Abort(r)

Spec == Init /\ [][Next]_vars
-----------------------------------------------------------------------------
(* Properties *)

\* The row is locked only by a shared apply at work on PostgreSQL: every answer, a refusal, a retry's stored answer and
\* a lost worker's included, leaves it unlocked, so nobody waits for a request that has ended (_analysis, get_db).
LockIsHeldAtWork ==
  lock # NoRequest =>
    /\ database = "postgres"
    /\ ~Idle(lock)
    /\ request[lock].kind = "aggregate"
    /\ request[lock].phase \in {"read", "checked"}

\* Every variable has its type, and the lock its holder.
TypeOK ==
  /\ database \in Databases
  /\ row \in Row
  /\ datasets \subseteq Dataset
  /\ preview \in Revisions
  /\ request \in [Requests -> Answered \cup Working]
  /\ \A r \in Requests : ~Idle(r) /\ request[r].kind \in {"aggregate", "supervise", "breaks"} =>
       request[r].revision \in Revisions
  /\ lock \in Requests \cup {NoRequest}
  /\ clock \in Nat
  /\ LockIsHeldAtWork

\* A stamp that func.now() may give to two commits of a second.
Repeats(updated) == database = "sqlite" /\ updated % TicksPerSecond = 0

Remembers(r) ==
  LET q == request[r]
  IN /\ q.updated <= clock
     /\ q.updated = row.updated => q.setup = row.setup \/ Repeats(q.updated)
     /\ q.kind = "aggregate" /\ q.phase # "waiting" /\ database = "postgres" =>
          lock = r /\ q.updated = row.updated /\ ~row.archived
     /\ q.kind = "aggregate" /\ q.phase = "checked" =>
          /\ q.setup = q.revision.setup
          /\ q.updated = q.revision.updated
          /\ q.new = [q.setup EXCEPT !.facts = q.new.facts]
          /\ database = "postgres" => \A d \in datasets : d.id <= q.revision.dataset
     /\ q.kind = "supervise" =>
          /\ q.setup = q.revision.setup
          /\ q.new = [q.setup EXCEPT !.breaks = q.new.breaks]

\* What a session at work remembers agrees with the row: a session that read the row's present
\* updated_at read its present Setup, unless SQLite issued that stamp twice; a shared apply on
\* PostgreSQL holds the row and read it as it is; and a write that passed its checks is the
\* previewed Setup with one part replaced, by an apply that no later upload has overtaken.
MemoryAgreesWithRow == \A r \in Requests : ~Idle(r) => Remembers(r)

Applied == {d \in datasets : d.print # None}

\* A revision is used up by the first apply that commits from it: no two stored files were applied
\* against the same one, be they a retry of one file or two files previewed side by side
\* (shared_aggregate_upload.py: the row lock, _duplicate, _revision and the compare-and-swap).
\* The one way around it is a policy change on SQLite that gives the row back the stamp it had
\* before the first apply: that stamp is a whole second, and the first apply committed within it.
OneApplyPerRevision ==
  \A d, e \in Applied :
    d # e /\ d.print.revision = e.print.revision =>
      LET stamp == d.print.revision.updated
      IN /\ Repeats(stamp)
         /\ d.id < stamp + TicksPerSecond \/ e.id < stamp + TicksPerSecond

\* The step commits a shared apply that stores d.
Applies(d) == d \in datasets' \ datasets /\ d.print # None

\* What a shared apply writes is the Setup of the submitted revision with the facts of the file, and
\* what it replaces is what was previewed: that Setup and its updated_at are in force when it
\* commits and, on PostgreSQL, no dataset was added since the preview, whatever other requests
\* committed while it worked.  On SQLite a Setup behind a stamp issued twice may be replaced unseen.
ApplyReplacesWhatWasPreviewed ==
  [][\A d \in datasets' :
       Applies(d) =>
         LET revision == d.print.revision
         IN /\ row.updated = revision.updated
            /\ row.setup = revision.setup \/ Repeats(revision.updated)
            /\ row'.setup = [revision.setup EXCEPT !.facts = d.print.facts]
            /\ database = "postgres" => \A e \in datasets : e.id <= revision.dataset]_vars

\* The retry of an apply whose answer was lost is never told that the Setup changed while the file
\* it stored is current and its Setup in force, even when both are at work at the same time.  On
\* SQLite the two may both pass the check, and the loser of the swap is refused.
RetryIsAnswered ==
  [][\A r \in Requests :
       /\ database = "postgres"
       /\ ~Idle(r)
       /\ request[r].kind = "aggregate"
       /\ request'[r] = [phase |-> "answered", answer |-> "setup_changed"]
       => ~\E d \in datasets : d.print = Fingerprint(r) /\ InForce(d, row.setup)]_vars

\* A checked schedule changes the breaks of the Setup it was checked on and nothing else, even when
\* another writer commits between its last read and its UPDATE.
CheckedScheduleKeepsTheRest ==
  [][\A r \in Requests :
       /\ At(r, "supervise", "checked")
       /\ request'[r] = [phase |-> "answered", answer |-> "ok"]
       => /\ row.setup = request[r].revision.setup
          /\ row'.setup = [row.setup EXCEPT !.breaks = request[r].new.breaks]]_vars
=============================================================================
