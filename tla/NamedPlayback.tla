---------------------------- MODULE NamedPlayback ----------------------------
(***************************************************************************)
(* shared_named_playback: a second reading of a named employee's day.  It  *)
(* sees nothing of the engine but its record, rebuilds the line, the       *)
(* customers, the employees and the registers from it, and refuses a       *)
(* record that breaks one of its checks.  The code reads the record of a   *)
(* finished run; here every instant is read as soon as it is recorded,     *)
(* which gives the same, the reading being one pass.                       *)
(***************************************************************************)
EXTENDS NamedDay

VARIABLE playback

playedVars == <<vars, playback>>

Played ==
  [line |-> <<>>,
   customer |-> [c \in Customers |->
      [arrival |-> None, start |-> None, finish |-> None, by |-> 0, register |-> 0, status |-> "none"]],
   state |-> [e \in Employees |-> "OFF"], register |-> [e \in Employees |-> 0],
   since |-> [e \in Employees |-> None], wait |-> [e \in Employees |-> None],
   shifts |-> [e \in Employees |-> <<>>], breaks |-> [e \in Employees |-> <<>>],
   closed |-> FALSE, crew |-> {}, resting |-> {}, failed |-> {}]

\* start_instant: what is kept within one instant.
Instant ==
  [slot |-> -1, rank |-> 0, last |-> 0, crewPhase |-> FALSE, ended |-> 0, completing |-> {},
   awaiting |-> 0, counted |-> FALSE, idle |-> {}, waiting |-> 0, released |-> <<>>, truncated |-> {}]

\* The checks of a record of named conditions that do not hold.
Broken(checks) == {name \in DOMAIN checks : ~checks[name]}

-----------------------------------------------------------------------------
(* The order of records at one instant *)

Slot(r) ==
  CASE r.type = "service_end" -> 0
    [] r.type = "closing" -> 1
    [] r.type = "unserved_at_close" -> 2
    [] r.type = "transition" -> IF r.stage = "service_start" THEN 5 ELSE 3
    [] r.type = "arrival" -> 4
    [] r.type = "service_start" -> 5

StageRank(r) ==
  CHOOSE i \in 1 .. Len(Stages) : Stages[i] = r.stage /\ \A j \in 1 .. i - 1 : Stages[j] # r.stage

IsStaged(r) == r.type = "transition" /\ Slot(r) = 3

\* Where the ascending employee ids start again: another stage, or the crew's releases at closing.
StartsGroup(p, r) ==
  \/ StageRank(r) # p.rank
  \/ r.stage = "closing_input" /\ r.employee \in p.crew /\ ~p.crewPhase

InOrder(p, r) ==
  /\ p.awaiting # 0 => r.type = "service_start"
  /\ Slot(r) >= p.slot
  /\ IsStaged(r) =>
       /\ StageRank(r) >= p.rank
       /\ (~StartsGroup(p, r) /\ r.stage # "register_handover") => r.employee > p.last
       /\ (r.stage = "closing_input" /\ StageRank(r) = p.rank /\ p.crewPhase) => r.employee \in p.crew

\* snapshot_after_completions: who of the crew is idle and how many wait, once.
Counted(p) ==
  IF p.counted THEN p
  ELSE [p EXCEPT !.counted = TRUE, !.idle = {e \in p.crew : p.state[e] = "AVAILABLE"}, !.waiting = Len(p.line)]

Ordered(p, r) ==
  LET q == IF Slot(r) > 3 \/ (IsStaged(r) /\ r.stage # "completion") THEN Counted(p) ELSE p
  IN IF IsStaged(r)
     THEN [q EXCEPT !.slot = 3, !.rank = StageRank(r), !.last = r.employee,
                    !.crewPhase = r.stage = "closing_input" /\ r.employee \in p.crew]
     ELSE [q EXCEPT !.slot = Slot(r), !.rank = IF q.slot = Slot(r) THEN @ ELSE 0]

-----------------------------------------------------------------------------
(* Customers' events *)

Known(p) == {c \in Customers : p.customer[c].arrival # None}

HeadOfLine(p, c) == p.line # <<>> /\ Head(p.line) = c

\* rows are the engine's customers, of which the reason for leaving unserved is compared.
CustomerChecks(p, t, r, rows) ==
  LET c == r.customer
      e == r.employee
      row == p.customer[c]
  IN CASE r.type = "closing" -> [closing_rules |-> ~p.closed /\ t = Closing]
       [] r.type = "arrival" ->
            [customer_identity |-> c = Cardinality(Known(p)) + 1,
             closing_rules |-> ~p.closed /\ t \in 0 .. Closing - 1]
       [] r.type = "service_start" ->
            [same_time_order |-> p.awaiting = e,
             customer_single_service |-> c \in Known(p) /\ row.start = None /\ row.status = "none",
             fcfs |-> HeadOfLine(p, c),
             register_single_holder |-> r.register = p.register[e],
             hard_cutoff_no_start_after_closing |-> p.closed => day.policy # "HARD_CUTOFF",
             drain_frozen_crew |-> p.closed => e \in p.crew]
       [] r.type = "service_end" ->
            [same_time_order |-> c > p.ended,
             customer_single_service |->
                row.start # None /\ row.status = "none" /\ row.by = e /\ row.register = r.register,
             service_duration |-> t - row.start \in Works]
       [] r.type = "unserved_at_close" ->
            [fcfs |-> HeadOfLine(p, c),
             unserved_reason |-> p.closed /\ t = Closing /\
                IF day.policy = "HARD_CUTOFF" THEN rows[c].unserved = "hard_cutoff"
                ELSE p.crew = {} /\ rows[c].unserved = "no_eligible_employee"]

\* customer_event: the state at the closing event is the one immediately before closing.
Customer(p, t, r) ==
  LET c == r.customer
  IN CASE r.type = "closing" ->
            [p EXCEPT !.closed = TRUE, !.resting = {e \in Employees : p.state[e] = "ON_BREAK"},
                      !.crew = IF day.policy = "DRAIN"
                               THEN {e \in Employees : p.state[e] \in {"AVAILABLE", "SERVING"}} ELSE {}]
       [] r.type = "arrival" -> [p EXCEPT !.customer[c].arrival = t, !.line = Append(@, c)]
       [] r.type = "service_start" ->
            [p EXCEPT !.awaiting = 0, !.line = Tail(@),
                      !.customer[c] = [@ EXCEPT !.start = t, !.by = r.employee, !.register = r.register]]
       [] r.type = "service_end" ->
            [p EXCEPT !.ended = c, !.completing = @ \cup {r.employee},
                      !.customer[c] = [@ EXCEPT !.finish = t, !.status = "departed"]]
       [] r.type = "unserved_at_close" ->
            [p EXCEPT !.line = Tail(@), !.customer[c].status = "unserved_at_close"]

-----------------------------------------------------------------------------
(* Employees' transitions *)

\* EMPLOYEE_TRANSITIONS, without what each is called.
Vocabulary ==
  {<<"completion", "SERVING", "AVAILABLE">>, <<"completion", "SERVING_BREAK_DUE", "AVAILABLE">>,
   <<"completion", "SERVING_BREAK_DUE", "ON_BREAK">>, <<"completion", "SERVING_SHIFT_ENDED", "OFF">>,
   <<"closing_input", "AVAILABLE", "OFF">>, <<"closing_input", "WAITING_FOR_REGISTER", "OFF">>,
   <<"closing_input", "SERVING", "SERVING_SHIFT_ENDED">>,
   <<"closing_input", "SERVING_BREAK_DUE", "SERVING_SHIFT_ENDED">>, <<"closing_input", "ON_BREAK", "OFF">>,
   <<"shift_end", "AVAILABLE", "OFF">>, <<"shift_end", "WAITING_FOR_REGISTER", "OFF">>,
   <<"shift_end", "SERVING", "SERVING_SHIFT_ENDED">>,
   <<"shift_end", "SERVING_BREAK_DUE", "SERVING_SHIFT_ENDED">>,
   <<"break_end", "ON_BREAK", "WAITING_FOR_REGISTER">>, <<"break_end", "ON_BREAK", "OFF">>,
   <<"break_due", "AVAILABLE", "ON_BREAK">>, <<"break_due", "WAITING_FOR_REGISTER", "ON_BREAK">>,
   <<"break_due", "SERVING", "SERVING_BREAK_DUE">>, <<"shift_start", "OFF", "WAITING_FOR_REGISTER">>,
   <<"shift_start", "OFF", "ON_BREAK">>, <<"register_handover", "WAITING_FOR_REGISTER", "AVAILABLE">>,
   <<"service_start", "AVAILABLE", "SERVING">>}

Holders(p) == {p.register[e] : e \in Employees} \ {0}

Waiting(p) == {e \in Employees : p.state[e] = "WAITING_FOR_REGISTER"}

\* P4: who waited longest, then the lower id.
NextToRegister(p) ==
  CHOOSE e \in Waiting(p) : \A d \in Waiting(p) : p.wait[e] < p.wait[d] \/ (p.wait[e] = p.wait[d] /\ e <= d)

\* mutant: the lowest id is chosen, however long it has been available.
AheadById(p, e) == {d \in Employees : p.state[d] = "AVAILABLE" /\ d < e}

\* X1: who has been available longest, then the lower id: those to be chosen before e.
Ahead(p, e) ==
  {d \in Employees : p.state[d] = "AVAILABLE" /\
     (p.since[d] < p.since[e] \/ (p.since[d] = p.since[e] /\ d < e))}

TransitionChecks(p, t, r) ==
  LET e == r.employee
      handed == r.from \notin Registered /\ r.to \in Registered
      free == (1 .. day.registers) \ Holders(p)
  IN [employee_transition_legal |->
        /\ <<r.stage, r.from, r.to>> \in Vocabulary
        /\ r.from = p.state[e] /\ r.before = p.register[e]
        /\ (r.from = "SERVING_BREAK_DUE" /\ r.to = "AVAILABLE") => t = Closing,
      no_register_off_break_waiting |-> r.to \in Registered <=> r.after # 0,
      closing_rules |->
        IF t < Closing THEN r.stage # "closing_input"
        ELSE r.stage \in {"completion", "closing_input", "service_start"} /\ r.to # "ON_BREAK",
      register_single_holder |->
        /\ (r.from \in Registered /\ r.to \in Registered) => r.after = r.before
        /\ handed => r.after \notin Holders(p),
      register_capacity |-> handed => r.after \in 1 .. day.registers,
      register_handover_order |->
        handed => e = NextToRegister(p) /\ free # {} /\ r.after = Least(free),
      same_time_order |-> r.stage = "completion" => e \in p.completing,
      x1_employee_choice |-> r.stage = "service_start" => Ahead(p, e) = {},
      fcfs |-> r.stage = "service_start" => p.line # <<>>]

\* apply: the shifts and breaks are rebuilt from the transitions alone.
Apply(p, t, r) ==
  LET e == r.employee
      cut == r.stage = "closing_input" /\ r.from = "ON_BREAK"
      outcome == IF cut THEN "truncated_by_closing" ELSE "completed"
      shifts == IF r.from = "OFF" THEN Append(p.shifts[e], [start |-> t, release |-> None])
                ELSE IF r.to = "OFF" THEN [p.shifts[e] EXCEPT ![Len(p.shifts[e])].release = t]
                ELSE p.shifts[e]
      breaks == IF r.to = "ON_BREAK" THEN Append(p.breaks[e], [start |-> t, finish |-> None, outcome |-> "none"])
                ELSE IF r.from = "ON_BREAK"
                THEN [p.breaks[e] EXCEPT ![Len(p.breaks[e])] = [@ EXCEPT !.finish = t, !.outcome = outcome]]
                ELSE p.breaks[e]
  IN [p EXCEPT !.state[e] = r.to, !.register[e] = r.after,
               !.since[e] = IF r.to = "AVAILABLE" THEN t ELSE @,
               !.wait[e] = IF r.to = "WAITING_FOR_REGISTER" THEN t ELSE @,
               !.shifts[e] = shifts, !.breaks[e] = breaks,
               !.completing = IF r.stage = "completion" THEN @ \ {e} ELSE @,
               !.awaiting = IF r.stage = "service_start" THEN e ELSE @,
               !.released = IF r.stage = "closing_input" /\ e \in p.crew THEN Append(@, e) ELSE @,
               !.truncated = IF cut THEN @ \cup {e} ELSE @]

-----------------------------------------------------------------------------
(* One record, one instant *)

\* run, for one record: after a failure nothing more is read.
Read(p, t, r, rows) ==
  LET ordered == Ordered(p, r)
      next == IF r.type = "transition" THEN Apply(ordered, t, r) ELSE Customer(ordered, t, r)
      broken == (IF InOrder(p, r) THEN {} ELSE {"same_time_order"})
                  \cup Broken(IF r.type = "transition" THEN TransitionChecks(ordered, t, r)
                              ELSE CustomerChecks(ordered, t, r, rows))
  IN IF p.failed # {} THEN p
     ELSE IF broken # {} THEN [p EXCEPT !.failed = broken]
     ELSE IF r.type # "transition" /\ r.line # Len(next.line) THEN [p EXCEPT !.failed = {"queue_reconciliation"}]
     ELSE next

\* finish_closing_instant
ClosingChecks(p, t) ==
  LET expected == {e \in p.idle : Cardinality(Ahead(p, e) \cap p.idle) >= p.waiting}
  IN [closing_rules |->
        /\ t = Closing => p.resting \subseteq p.truncated
        /\ \A e \in Employees :
             p.state[e] \in {"OFF", "SERVING_SHIFT_ENDED"} \/ (e \in p.crew /\ p.state[e] = "SERVING"),
      unserved_reason |-> (t = Closing /\ p.crew = {}) => p.line = <<>>,
      drain_frozen_crew |-> day.policy = "DRAIN" => Range(p.released) = expected /\ IsInjective(p.released)]

\* finish_instant, the counts it takes for the clock of the playback left out.
FinishChecks(q, t) ==
  LET p == Counted(q)
  IN Broken([closing_rules |-> t >= Closing => p.closed,
             same_time_order |-> p.awaiting = 0 /\ p.completing = {},
             work_conservation |-> p.line # <<>> => \A e \in Employees : p.state[e] # "AVAILABLE",
             register_handover_order |-> Waiting(p) # {} => Cardinality(Holders(p)) = day.registers])
       \cup (IF t < Closing THEN {} ELSE Broken(ClosingChecks(p, t)))

\* run: the records of instant t, read one by one into what was rebuilt before.
ReadInstant(p, t, records, rows) ==
  LET q == FoldLeft(LAMBDA so, r : Read(so, t, r, rows), Instant @@ p, records)
      failed == IF q.failed # {} THEN q.failed ELSE FinishChecks(q, t)
  IN Restrict([q EXCEPT !.failed = failed], DOMAIN Played)

PlayedInit == Init /\ playback = Played

PlayedNext ==
  /\ Next
  /\ playback' = ReadInstant(playback, clock'.now, record', sim'.customer)

PlayedSpec == PlayedInit /\ [][PlayedNext]_playedVars

-----------------------------------------------------------------------------
(* Properties *)

\* _reconcile: what the engine keeps, in the form in which the playback rebuilds it.
Engine ==
  LET begun(e) == SelectSeq(emp[e].duty, LAMBDA d : d.start # None)
      rows(e) == SelectSeq(FlattenSeq(emp[e].rests), LAMBDA b : b.start # None)
  IN [line |-> sim.line, closed |-> clock.closed, crew |-> sim.crew,
      served |-> {<<c, day.arrival[c], sim.customer[c].start, sim.customer[c].finish, sim.customer[c].by>> :
                    c \in {d \in Customers : sim.customer[d].departed}},
      state |-> [e \in Employees |-> emp[e].state],
      register |-> [e \in Employees |-> emp[e].register],
      shifts |-> [e \in Employees |-> begun(e)],
      breaks |-> [e \in Employees |->
        [k \in DOMAIN rows(e) |->
          [start |-> rows(e)[k].start, finish |-> rows(e)[k].finish, outcome |-> rows(e)[k].outcome]]]]

Rebuilt ==
  LET row(c) == playback.customer[c]
  IN [line |-> playback.line, closed |-> playback.closed, crew |-> playback.crew,
      served |-> {<<c, row(c).arrival, row(c).start, row(c).finish, row(c).by>> :
                    c \in {d \in Customers : row(d).status = "departed"}},
      state |-> playback.state, register |-> playback.register,
      shifts |-> playback.shifts, breaks |-> playback.breaks]

\* replay_named_trace: the record of every instant passes every check of the playback, which alone says
\* in which order things happened, who was served by whom and that nobody waited beside an idle employee,
\* and what it rebuilds from the record is what the engine kept; at the end nobody is left (end_state).
PlaybackRebuildsTheDay ==
  /\ playback.failed = {}
  /\ Rebuilt = Engine
  /\ Instants = {} =>
       /\ playback.line = <<>>
       /\ \A c \in Known(playback) : playback.customer[c].status # "none"
=============================================================================
