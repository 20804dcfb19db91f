----------------------------- MODULE AccessProofs -----------------------------
(* Proofs about Access, for every value of its constants. *)
EXTENDS Access, TLAPS, FiniteSetTheorems, SequenceTheorems, WellFoundedInduction

---------------------------------------------------------------------------
(* Handlers *)

Emails == {"register", "resend_verification", "forgot_password"}
UsesLink == {"verify_email", "reset_password"}

\* The kinds of request whose handler may be at a step.
KindsAt(step) ==
  IF step = "creating" THEN {"register"}
  ELSE IF step \in {"issuing", "replacing"} THEN Emails
  ELSE IF step \in {"claiming", "claimed"} THEN UsesLink
  ELSE IF step = "closing" THEN {"verify_email"}
  ELSE IF step = "signing_in" THEN {"login", "google"}
  ELSE IF step = "changing" THEN {"change_password"}
  ELSE IF step \in {"linking", "recovering", "relinking"} THEN {"google"}
  ELSE {"link_google"}

Account == [exists : BOOLEAN, verified : BOOLEAN, active : BOOLEAN,
            password : Passwords \cup {NoPassword}, google : BOOLEAN]
Link == [purpose : Purposes, created : Nat, expires : Nat, consumed : BOOLEAN]
Session == [expires : Nat, revoked : BOOLEAN]

\* The shape of the rows and of the history.
Tables ==
  /\ account \in Account
  /\ now \in 0 .. MaxNow /\ left \in 0 .. MaxRequests
  /\ links \in Seq(Link) /\ inbox \subseteq DOMAIN links
  /\ sessions \in Seq(Session)
  /\ honoured \in Seq(Nat)

AreHandlers == work = [w \in Workers |-> work[w]]

\* The fields a handler has when it needs them.
Fields(w) ==
  /\ {"step", "kind"} \subseteq DOMAIN work[w]
  /\ work[w].kind \in UsesLink =>
       /\ "link" \in DOMAIN work[w]
       /\ work[w].link \in DOMAIN links
  /\ work[w].kind = "patch_user" =>
       "active" \in DOMAIN work[w] /\ work[w].active \in BOOLEAN
  /\ work[w].step \in {"replacing", "claiming"} => "time" \in DOMAIN work[w]
  /\ work[w].step \in {"replacing", "claimed", "closing"} => "holds" \in DOMAIN work[w]
  /\ work[w].step \in {"replacing", "closing"} => "wants" \in DOMAIN work[w]

\* What a handler knows at its step: its kind, and that the links it holds are
\* open, with the link of the request among them once it is claimed.
Handler(w) ==
  /\ work[w].step \in Steps
  /\ IF work[w].step = "idle" THEN work[w] = Idle ELSE Fields(w)
  /\ work[w].step \notin {"idle", "admitted"} => work[w].kind \in KindsAt(work[w].step)
  /\ work[w].step = "replacing" => work[w].time \in 0 .. now
  /\ work[w].step \in {"replacing", "closing"} => work[w].wants \subseteq DOMAIN links
  /\ work[w].step \in {"claimed", "closing"} => work[w].link \in work[w].holds
  /\ \A l \in Locked(w) : l \in DOMAIN links /\ ~links[l].consumed

\* A row is locked by one handler at a time.
Apart == \A w, v \in Workers : w # v => Locked(w) \cap Locked(v) = {}

HInv == Tables /\ AreHandlers /\ Apart /\ \A w \in Workers : Handler(w)

\* Setting fields of a handler leaves the others and its other fields alone.
LEMMA ContinueSets ==
  ASSUME AreHandlers, NEW w \in Workers, NEW more, Continue(w, more)
  PROVE  /\ AreHandlers'
         /\ \A v \in Workers \ {w} : work'[v] = work[v]
         /\ DOMAIN work'[w] = DOMAIN work[w] \cup DOMAIN more
         /\ \A f \in DOMAIN more : work'[w][f] = more[f]
         /\ \A f \in DOMAIN work[w] \ DOMAIN more : work'[w][f] = work[w][f]
<1>1. work'[w] = With(work[w], more)
  BY DEF Continue, AreHandlers
<1>2. AreHandlers' /\ \A v \in Workers \ {w} : work'[v] = work[v]
  BY DEF Continue, AreHandlers
<1> QED
  BY <1>1, <1>2 DEF With

\* A request that is answered leaves its worker at rest and the others alone.
LEMMA FinishRests ==
  ASSUME AreHandlers, NEW w \in Workers, Finish(w)
  PROVE  /\ AreHandlers'
         /\ \A v \in Workers \ {w} : work'[v] = work[v]
         /\ work'[w] = Idle
  BY DEF Finish, AreHandlers

\* A handler that rests is one.
LEMMA IdleIsAHandler ==
  ASSUME NEW w \in Workers, work[w] = Idle
  PROVE  Handler(w) /\ Locked(w) = {}
  BY DEF Handler, Idle, Locked, Steps

\* The others do not notice what happens to one handler, unless its rows change.
LEMMA OthersGoOn ==
  ASSUME HInv, NEW w \in Workers, NEW v \in Workers \ {w}, work'[v] = work[v],
         now' \in now .. now + 1,
         DOMAIN links \subseteq DOMAIN links',
         \A l \in DOMAIN links \ Locked(w) : links'[l] = links[l]
  PROVE  Handler(v)' /\ Locked(v)' = Locked(v)
<1>1. Handler(v) /\ Locked(w) \cap Locked(v) = {} /\ now \in Nat
  BY DEF HInv, Apart, Tables
<1>2. Locked(v)' = Locked(v)
  BY DEF Locked
<1>3. \A l \in Locked(v) : l \in DOMAIN links' /\ ~links'[l].consumed
  BY <1>1 DEF Handler
<1>4. work[v].step # "idle" => Fields(v)'
  BY <1>1 DEF Handler, Fields
<1> QED
  BY <1>1, <1>2, <1>3, <1>4 DEF Handler

\* One handler's step keeps HInv when the handler is one again and takes no row
\* another holds.
LEMMA StepOfOne ==
  ASSUME HInv, NEW w \in Workers, Tables', AreHandlers', Handler(w)',
         \A v \in Workers \ {w} : work'[v] = work[v],
         now' \in now .. now + 1,
         DOMAIN links \subseteq DOMAIN links',
         \A l \in DOMAIN links \ Locked(w) : links'[l] = links[l],
         \A l \in Locked(w)' : l \in Locked(w) \/ Free(l, w)
  PROVE  HInv'
<1>1. \A v \in Workers \ {w} : Handler(v)' /\ Locked(v)' = Locked(v)
  BY OthersGoOn
<1>2. \A v \in Workers : Handler(v)'
  BY <1>1
<1>3. \A v \in Workers \ {w} : Locked(w)' \cap Locked(v)' = {}
  BY <1>1 DEF HInv, Apart, Free
<1>4. \A v, u \in Workers : v # u => Locked(v)' \cap Locked(u)' = {}
  BY <1>1, <1>3 DEF HInv, Apart
<1> QED
  BY <1>2, <1>4 DEF HInv, Apart

\* A handler that is answered, whatever it wrote to the rows it held.
LEMMA Answered ==
  ASSUME HInv, NEW w \in Workers, Finish(w), Tables',
         now' = now,
         DOMAIN links \subseteq DOMAIN links',
         \A l \in DOMAIN links \ Locked(w) : links'[l] = links[l]
  PROVE  HInv'
<1>1. AreHandlers' /\ work'[w] = Idle /\ \A v \in Workers \ {w} : work'[v] = work[v]
  BY FinishRests DEF HInv
<1>2. Handler(w)' /\ Locked(w)' = {}
  BY <1>1 DEF Handler, Idle, Locked, Steps
<1>3. now' \in now .. now + 1
  BY DEF HInv, Tables
<1> QED
  BY <1>1, <1>2, <1>3, StepOfOne

\* A handler that moves on to a step at which it holds no row.
LEMMA Advance ==
  ASSUME HInv, NEW w \in Workers, Tables', now' = now, links' = links,
         work[w].step # "idle",
         NEW more, Continue(w, more),
         "step" \in DOMAIN more, "kind" \notin DOMAIN more, "link" \notin DOMAIN more,
         more.step \in {"creating", "issuing", "signing_in", "changing", "linking",
                        "recovering", "relinking", "attaching"},
         work[w].kind \in KindsAt(more.step)
  PROVE  HInv'
<1>1. /\ AreHandlers'
      /\ \A v \in Workers \ {w} : work'[v] = work[v]
      /\ DOMAIN work'[w] = DOMAIN work[w] \cup DOMAIN more
      /\ \A f \in DOMAIN more : work'[w][f] = more[f]
      /\ \A f \in DOMAIN work[w] \ DOMAIN more : work'[w][f] = work[w][f]
  BY ContinueSets DEF HInv
<1>2. Handler(w) /\ Fields(w)
  BY DEF HInv, Handler
<1>3. work'[w].step = more.step /\ work'[w].kind = work[w].kind
  BY <1>1, <1>2 DEF Fields
<1>4. work[w].kind # "patch_user"
  BY DEF KindsAt, Emails, UsesLink
<1>4a. Fields(w)'
  BY <1>1, <1>2, <1>3, <1>4 DEF Fields
<1>5. Handler(w)' /\ Locked(w)' = {}
  BY <1>3, <1>4a DEF Handler, Locked, Steps
<1>6. now' \in now .. now + 1
  BY DEF HInv, Tables
<1> QED
  BY <1>1, <1>5, <1>6, StepOfOne

\* The same when only the step is set.
LEMMA AdvanceTo ==
  ASSUME HInv, NEW w \in Workers, Tables', now' = now, links' = links,
         work[w].step # "idle",
         NEW s \in {"creating", "issuing", "signing_in", "changing", "linking",
                    "recovering", "relinking", "attaching"},
         Continue(w, [step |-> s]), work[w].kind \in KindsAt(s)
  PROVE  HInv'
<1> DEFINE more == [step |-> s]
<1>1. more.step = s /\ DOMAIN more = {"step"}
  OBVIOUS
<1> QED
  BY <1>1, Advance

\* What the writes make of an account is one.
LEMMA AccountsStay ==
  ASSUME NEW a \in Account
  PROVE  /\ [a EXCEPT !.google = TRUE] \in Account
         /\ [a EXCEPT !.verified = TRUE] \in Account
         /\ [a EXCEPT !.verified = TRUE, !.google = TRUE] \in Account
         /\ [exists |-> TRUE, verified |-> TRUE, active |-> TRUE,
             password |-> NoPassword, google |-> TRUE] \in Account
         /\ \A b \in BOOLEAN : [a EXCEPT !.active = b] \in Account
         /\ \A p \in Passwords :
              /\ [a EXCEPT !.password = p] \in Account
              /\ [exists |-> TRUE, verified |-> FALSE, active |-> TRUE, password |-> p,
                  google |-> FALSE] \in Account
  BY DEF Account

\* The steps that only move a handler on, up to where it takes a row.
LEMMA MovesOn ==
  ASSUME HInv, NEW w \in Workers,
         \/ Register(w) \/ Create(w) \/ Ask(w) \/ Login(w) \/ CheckPassword(w)
         \/ GoogleLogin(w) \/ GoogleInsert(w) \/ GoogleRecover(w) \/ GoogleRelink(w)
         \/ LinkGoogle(w)
  PROVE  HInv'
<1>0. Tables /\ AreHandlers /\ Handler(w)
  BY DEF HInv
<1>1. ASSUME Register(w) PROVE HInv'
  <2>1. Tables' /\ links' = links /\ now' = now
    BY <1>0, <1>1 DEF Register, Tables, rows, gate
  <2>2. work[w].step # "idle" /\ work[w].kind \in KindsAt("creating") \cap KindsAt("issuing")
    BY <1>1 DEF Register, At, KindsAt, Emails
  <2>3. Continue(w, [step |-> "creating"]) \/ Continue(w, [step |-> "issuing"]) \/ Finish(w)
    BY <1>1 DEF Register
  <2> QED
    BY <2>1, <2>2, <2>3, AdvanceTo, Answered
<1>2. ASSUME Create(w) PROVE HInv'
  <2>0. account' \in Account
    BY <1>0, <1>2, AccountsStay DEF Create, Tables
  <2>1. Tables' /\ links' = links /\ now' = now
    BY <1>0, <1>2, <2>0 DEF Create, Tables, gate
  <2>2. work[w].step # "idle" /\ work[w].kind \in KindsAt("issuing")
    BY <1>0, <1>2 DEF Create, At, Handler, KindsAt, Emails
  <2>3. Continue(w, [step |-> "issuing"]) \/ Finish(w)
    BY <1>2 DEF Create
  <2> QED
    BY <2>1, <2>2, <2>3, AdvanceTo, Answered
<1>3. ASSUME Ask(w) PROVE HInv'
  <2>1. Tables' /\ links' = links /\ now' = now
    BY <1>0, <1>3 DEF Ask, Tables, rows, gate
  <2>2. work[w].step # "idle" /\ work[w].kind \in KindsAt("issuing")
    BY <1>3 DEF Ask, At, KindsAt, Emails
  <2>3. Continue(w, [step |-> "issuing"]) \/ Finish(w)
    BY <1>3 DEF Ask
  <2> QED
    BY <2>1, <2>2, <2>3, AdvanceTo, Answered
<1>4. ASSUME Login(w) PROVE HInv'
  <2>1. Tables' /\ links' = links /\ now' = now
    BY <1>0, <1>4 DEF Login, Tables, rows, gate
  <2>2. work[w].step # "idle" /\ work[w].kind \in KindsAt("signing_in")
    BY <1>4 DEF Login, At, KindsAt
  <2>3. Continue(w, [step |-> "signing_in"]) \/ Finish(w)
    BY <1>4 DEF Login
  <2> QED
    BY <2>1, <2>2, <2>3, AdvanceTo, Answered
<1>5. ASSUME CheckPassword(w) PROVE HInv'
  <2>1. Tables' /\ links' = links /\ now' = now
    BY <1>0, <1>5 DEF CheckPassword, Tables, rows, gate
  <2>2. work[w].step # "idle" /\ work[w].kind \in KindsAt("changing")
    BY <1>5 DEF CheckPassword, At, KindsAt
  <2>3. Continue(w, [step |-> "changing"]) \/ Finish(w)
    BY <1>5 DEF CheckPassword
  <2> QED
    BY <2>1, <2>2, <2>3, AdvanceTo, Answered
<1>6. ASSUME GoogleLogin(w) PROVE HInv'
  <2>1. Tables' /\ links' = links /\ now' = now
    BY <1>0, <1>6 DEF GoogleLogin, Tables, rows, gate
  <2>2. /\ work[w].step # "idle"
        /\ work[w].kind \in KindsAt("signing_in") \cap KindsAt("linking")
    BY <1>6 DEF GoogleLogin, At, KindsAt
  <2>3. CASE Continue(w, [step |-> "signing_in"]) \/ Finish(w)
    BY <2>1, <2>2, <2>3, AdvanceTo, Answered
  <2>4. CASE Continue(w, [step |-> "linking", new |-> ~account.exists])
    <3> DEFINE more == [step |-> "linking", new |-> ~account.exists]
    <3>1. more.step = "linking" /\ DOMAIN more = {"step", "new"}
      OBVIOUS
    <3>2. Continue(w, more)
      BY <2>4
    <3> HIDE DEF more
    <3> QED
      BY <2>1, <2>2, <3>1, <3>2, Advance
  <2> QED
    BY <1>6, <2>3, <2>4 DEF GoogleLogin
<1>7. ASSUME GoogleInsert(w) PROVE HInv'
  <2>0. account' \in Account
    BY <1>0, <1>7, AccountsStay DEF GoogleInsert, Tables
  <2>1. Tables' /\ links' = links /\ now' = now
    BY <1>0, <1>7, <2>0 DEF GoogleInsert, Tables, gate
  <2>2. /\ work[w].step # "idle"
        /\ work[w].kind \in KindsAt("signing_in") \cap KindsAt("recovering")
    BY <1>0, <1>7 DEF GoogleInsert, At, Handler, KindsAt
  <2>3. Continue(w, [step |-> "signing_in"]) \/ Continue(w, [step |-> "recovering"])
    BY <1>7 DEF GoogleInsert
  <2> QED
    BY <2>1, <2>2, <2>3, AdvanceTo
<1>8. ASSUME GoogleRecover(w) PROVE HInv'
  <2>1. Tables' /\ links' = links /\ now' = now
    BY <1>0, <1>8 DEF GoogleRecover, Tables, rows, gate
  <2>2. /\ work[w].step # "idle"
        /\ work[w].kind \in KindsAt("signing_in") \cap KindsAt("relinking")
    BY <1>0, <1>8 DEF GoogleRecover, At, Handler, KindsAt
  <2>3. CASE Continue(w, [step |-> "signing_in"]) \/ Finish(w)
    BY <2>1, <2>2, <2>3, AdvanceTo, Answered
  <2>4. CASE Continue(w, [step |-> "relinking", active |-> account.active])
    <3> DEFINE more == [step |-> "relinking", active |-> account.active]
    <3>1. more.step = "relinking" /\ DOMAIN more = {"step", "active"}
      OBVIOUS
    <3>2. Continue(w, more)
      BY <2>4
    <3> HIDE DEF more
    <3> QED
      BY <2>1, <2>2, <3>1, <3>2, Advance
  <2> QED
    BY <1>8, <2>3, <2>4 DEF GoogleRecover
<1>9. ASSUME GoogleRelink(w) PROVE HInv'
  <2>1. Tables' /\ links' = links /\ now' = now
    BY <1>0, <1>9, AccountsStay DEF GoogleRelink, Tables, gate
  <2>2. work[w].step # "idle" /\ work[w].kind \in KindsAt("signing_in")
    BY <1>0, <1>9 DEF GoogleRelink, At, Handler, KindsAt
  <2>3. Continue(w, [step |-> "signing_in"]) \/ Finish(w)
    BY <1>9 DEF GoogleRelink
  <2> QED
    BY <2>1, <2>2, <2>3, AdvanceTo, Answered
<1>10. ASSUME LinkGoogle(w) PROVE HInv'
  <2>1. Tables' /\ links' = links /\ now' = now
    BY <1>0, <1>10 DEF LinkGoogle, Tables, rows, gate
  <2>2. work[w].step # "idle" /\ work[w].kind \in KindsAt("attaching")
    BY <1>10 DEF LinkGoogle, At, KindsAt
  <2>3. Continue(w, [step |-> "attaching"]) \/ Finish(w)
    BY <1>10 DEF LinkGoogle
  <2> QED
    BY <2>1, <2>2, <2>3, AdvanceTo, Answered
<1> QED
  BY <1>1, <1>2, <1>3, <1>4, <1>5, <1>6, <1>7, <1>8, <1>9, <1>10

\* The least of a non-empty set of numbers is one of them.
LEMMA MinIsMember ==
  ASSUME NEW S, S \subseteq Nat, S # {}
  PROVE  Min(S) \in S /\ \A y \in S : Min(S) <= y
<1> DEFINE Less == {ss \in Nat \X Nat : ss[1] < ss[2]}
<1>1. IsWellFoundedOn(Less, Nat)
  BY NatLessThanWellFounded DEF OpToRel
<1> HIDE DEF Less
<1>2. PICK m \in S : \A k \in S : ~ (<<k, m>> \in Less)
  BY <1>1, WFMin
<1>3. ASSUME NEW k \in S PROVE m <= k
  <2>1. k \in Nat /\ m \in Nat
    OBVIOUS
  <2>2. ~ (k < m)
    BY <1>2, <2>1 DEF Less
  <2> QED
    BY <2>1, <2>2
<1> QED
  BY <1>3 DEF Min

\* Consuming links changes no other.
LEMMA ConsumedIsLinks ==
  ASSUME Tables, NEW ls
  PROVE  /\ Consumed(ls) \in Seq(Link)
         /\ DOMAIN Consumed(ls) = DOMAIN links
         /\ Len(Consumed(ls)) = Len(links)
         /\ \A l \in DOMAIN links \ ls : Consumed(ls)[l] = links[l]
<1>1. links \in Seq(Link) /\ DOMAIN links = 1 .. Len(links) /\ Len(links) \in Nat
  BY DEF Tables
<1>2. \A l \in 1 .. Len(links) : links[l] \in Link
  BY <1>1
<1>3. \A l \in 1 .. Len(links) : [links[l] EXCEPT !.consumed = TRUE] \in Link
  BY <1>2 DEF Link
<1>4. Consumed(ls) \in [1 .. Len(links) -> Link]
  BY <1>1, <1>2, <1>3 DEF Consumed
<1>5. Consumed(ls) \in Seq(Link)
  BY <1>1, <1>4, IsASeq
<1>6. \A l \in DOMAIN links \ ls : Consumed(ls)[l] = links[l]
  BY DEF Consumed
<1> QED
  BY <1>1, <1>4, <1>5, <1>6

\* A handler that goes on and holds, of the rows it did not hold before, only
\* free ones.
LEMMA Holds ==
  ASSUME HInv, NEW w \in Workers, Tables', now' = now, links' = links,
         NEW more, Continue(w, more), Handler(w)',
         \A l \in Locked(w)' : l \in Locked(w) \/ Free(l, w)
  PROVE  HInv'
<1>1. AreHandlers' /\ \A v \in Workers \ {w} : work'[v] = work[v]
  BY ContinueSets DEF HInv
<1>2. now' \in now .. now + 1
  BY DEF HInv, Tables
<1> QED
  BY <1>1, <1>2, StepOfOne

\* issue_challenge up to its UPDATE: it holds nothing yet.
LEMMA IssueKeeps ==
  ASSUME HInv, NEW w \in Workers, Issue(w)
  PROVE  HInv'
<1>0. Tables /\ AreHandlers /\ Handler(w) /\ Fields(w)
  BY DEF HInv, Handler, Issue, At
<1>1. Tables' /\ links' = links /\ now' = now
  BY <1>0 DEF Issue, Tables, rows, gate
<1>2. CASE Finish(w)
  BY <1>1, <1>2, Answered
<1>3. CASE ~Finish(w)
  <2> DEFINE found == {l \in OfPurpose(PurposeOf(work[w].kind)) : Live(l, now)}
             more == [step |-> "replacing", time |-> now, holds |-> {}, wants |-> found]
  <2>1. Continue(w, more)
    BY <1>3 DEF Issue
  <2>2. found \subseteq DOMAIN links
    BY DEF OfPurpose
  <2>3. /\ work'[w].step = "replacing" /\ work'[w].time = now
        /\ work'[w].holds = {} /\ work'[w].wants = found
        /\ work'[w].kind = work[w].kind
        /\ DOMAIN work'[w] = DOMAIN work[w] \cup {"step", "time", "holds", "wants"}
    <3>1. /\ DOMAIN more = {"step", "time", "holds", "wants"}
          /\ more.step = "replacing" /\ more.time = now
          /\ more.holds = {} /\ more.wants = found
      OBVIOUS
    <3> HIDE DEF more, found
    <3> QED
      BY <1>0, <2>1, <3>1, ContinueSets DEF Fields
  <2>4. work[w].kind \in Emails
    BY <1>0 DEF Handler, Issue, At, KindsAt
  <2> HIDE DEF found, more
  <2>5. Fields(w)'
    BY <1>0, <2>3, <2>4 DEF Fields, Emails, UsesLink
  <2>6. Locked(w)' = {}
    BY <2>3 DEF Locked
  <2>7. now \in 0 .. now
    BY <1>0 DEF Tables
  <2>8. Handler(w)'
    BY <1>1, <2>2, <2>3, <2>4, <2>5, <2>6, <2>7 DEF Handler, Steps, KindsAt
  <2> QED
    BY <1>1, <2>1, <2>6, <2>8, Holds
<1> QED
  BY <1>2, <1>3

\* consume_challenge starts: it holds nothing yet.
LEMMA OpenKeeps ==
  ASSUME HInv, NEW w \in Workers, Open(w)
  PROVE  HInv'
<1>0. Tables /\ AreHandlers /\ Handler(w) /\ Fields(w)
  BY DEF HInv, Handler, Open, At
<1>1. Tables' /\ links' = links /\ now' = now
  BY <1>0 DEF Open, Tables, rows, gate
<1> DEFINE more == [step |-> "claiming", time |-> now]
<1>2. Continue(w, more)
  BY DEF Open
<1>3. /\ work'[w].step = "claiming" /\ work'[w].time = now
      /\ work'[w].kind = work[w].kind /\ work[w].kind \in UsesLink
      /\ work'[w].link = work[w].link
      /\ DOMAIN work'[w] = DOMAIN work[w] \cup {"step", "time"}
  <2>1. DOMAIN more = {"step", "time"} /\ more.step = "claiming" /\ more.time = now
    OBVIOUS
  <2>2. work[w].kind \in UsesLink
    BY DEF Open, UsesLink
  <2> HIDE DEF more
  <2> QED
    BY <1>0, <1>2, <2>1, <2>2, ContinueSets DEF Fields
<1> HIDE DEF more
<1>4. Fields(w)'
  BY <1>0, <1>1, <1>3 DEF Fields, UsesLink
<1>5. Handler(w)' /\ Locked(w)' = {}
  BY <1>3, <1>4 DEF Handler, Steps, KindsAt, Locked
<1> QED
  BY <1>1, <1>2, <1>5, Holds

\* An UPDATE gets a free row, and keeps it when it is open.
LEMMA LockKeeps ==
  ASSUME HInv, NEW w \in Workers, Lock(w)
  PROVE  HInv'
<1>0. Tables /\ AreHandlers /\ Handler(w) /\ Fields(w)
  BY DEF HInv, Handler, Lock
<1>1. Tables' /\ links' = links /\ now' = now
  BY <1>0 DEF Lock, Tables, rows, gate
<1> DEFINE l == Min(work[w].wants)
           still == {i \in {l} : ~links[i].consumed}
           more == [holds |-> work[w].holds \cup still, wants |-> work[w].wants \ {l}]
<1>2. Free(l, w) /\ Continue(w, more)
  BY DEF Lock
<1>3. l \in work[w].wants /\ work[w].wants \subseteq DOMAIN links
  <2>1. work[w].wants # {} /\ work[w].wants \subseteq DOMAIN links
    BY <1>0 DEF Lock, Handler
  <2>2. DOMAIN links \subseteq Nat
    BY <1>0 DEF Tables
  <2> QED
    BY <2>1, <2>2, MinIsMember
<1>4. work[w].step \in {"replacing", "closing"}
  BY DEF Lock
<1>5. /\ work'[w].step = work[w].step /\ work'[w].kind = work[w].kind
      /\ work'[w].holds = work[w].holds \cup still
      /\ work'[w].wants = work[w].wants \ {l}
      /\ DOMAIN work'[w] = DOMAIN work[w] \cup {"holds", "wants"}
      /\ \A f \in DOMAIN work[w] \ {"holds", "wants"} : work'[w][f] = work[w][f]
  <2>1. /\ DOMAIN more = {"holds", "wants"}
        /\ more.holds = work[w].holds \cup still /\ more.wants = work[w].wants \ {l}
    OBVIOUS
  <2> HIDE DEF more, still, l
  <2> QED
    BY <1>0, <1>2, <2>1, ContinueSets DEF Fields
<1>6. still \subseteq {l} /\ \A i \in still : ~links[i].consumed
  OBVIOUS
<1> HIDE DEF more, still, l
<1>7. Fields(w)'
  BY <1>0, <1>1, <1>4, <1>5 DEF Fields, UsesLink
<1>8. Locked(w) = work[w].holds /\ Locked(w)' = work[w].holds \cup still
  BY <1>4, <1>5 DEF Locked
<1>9. \A i \in Locked(w)' : i \in DOMAIN links /\ ~links[i].consumed
  BY <1>0, <1>3, <1>6, <1>8 DEF Handler
<1>10. work[w].step = "replacing" => work'[w].time = work[w].time
  BY <1>0, <1>5 DEF Fields
<1>11. work[w].step = "closing" => work'[w].link = work[w].link
  BY <1>0, <1>5 DEF Fields, Handler, KindsAt, UsesLink
<1>12. Handler(w)'
  BY <1>0, <1>1, <1>3, <1>4, <1>5, <1>7, <1>9, <1>10, <1>11 DEF Handler
<1> QED
  BY <1>1, <1>2, <1>6, <1>8, <1>12, Holds

\* consume_challenge's UPDATE: the row it gets is free, and open.
LEMMA ClaimKeeps ==
  ASSUME HInv, NEW w \in Workers, Claim(w)
  PROVE  HInv'
<1>0. Tables /\ AreHandlers /\ Handler(w) /\ Fields(w)
  BY DEF HInv, Handler, Claim, At
<1>1. Tables' /\ links' = links /\ now' = now
  BY <1>0 DEF Claim, Tables, rows, gate
<1>2. CASE Finish(w)
  BY <1>1, <1>2, Answered
<1>3. CASE ~Finish(w)
  <2> DEFINE more == [step |-> "claimed", holds |-> {work[w].link}]
  <2>1. Continue(w, more) /\ Live(work[w].link, work[w].time) /\ Free(work[w].link, w)
    BY <1>3 DEF Claim
  <2>2. work[w].kind \in UsesLink
    BY <1>0 DEF Handler, Claim, At, KindsAt
  <2>3. /\ work'[w].step = "claimed" /\ work'[w].holds = {work[w].link}
        /\ work'[w].kind = work[w].kind /\ work'[w].link = work[w].link
        /\ DOMAIN work'[w] = DOMAIN work[w] \cup {"step", "holds"}
    <3>1. /\ DOMAIN more = {"step", "holds"}
          /\ more.step = "claimed" /\ more.holds = {work[w].link}
      OBVIOUS
    <3> HIDE DEF more
    <3> QED
      BY <1>0, <2>1, <2>2, <3>1, ContinueSets DEF Fields
  <2> HIDE DEF more
  <2>4. Fields(w)'
    BY <1>0, <1>1, <2>2, <2>3 DEF Fields, UsesLink
  <2>5. Locked(w)' = {work[w].link}
    BY <2>3 DEF Locked
  <2>6. work[w].link \in DOMAIN links /\ ~links[work[w].link].consumed
    BY <1>0, <2>1, <2>2 DEF Fields, Live
  <2>7. Handler(w)'
    BY <1>1, <2>2, <2>3, <2>4, <2>5, <2>6 DEF Handler, Steps, KindsAt
  <2> QED
    BY <1>1, <2>1, <2>5, <2>7, Holds
<1> QED
  BY <1>2, <1>3

\* verify_email goes on to the account's other links and keeps its own.
LEMMA CloseOthersKeeps ==
  ASSUME HInv, NEW w \in Workers, CloseOthers(w)
  PROVE  HInv'
<1>0. Tables /\ AreHandlers /\ Handler(w) /\ Fields(w)
  BY DEF HInv, Handler, CloseOthers, At
<1>1. Tables' /\ links' = links /\ now' = now
  BY <1>0 DEF CloseOthers, Tables, rows, gate
<1>2. work[w].kind = "verify_email" /\ work[w].step = "claimed"
  BY DEF CloseOthers, At
<1> DEFINE others == {l \in OfPurpose("verify_email") : ~links[l].consumed} \ work[w].holds
           more == [step |-> "closing", wants |-> others]
<1>3. Continue(w, more)
  BY DEF CloseOthers
<1>4. others \subseteq DOMAIN links
  BY DEF OfPurpose
<1>5. /\ work'[w].step = "closing" /\ work'[w].wants = others
      /\ work'[w].holds = work[w].holds
      /\ work'[w].kind = work[w].kind /\ work'[w].link = work[w].link
      /\ DOMAIN work'[w] = DOMAIN work[w] \cup {"step", "wants"}
  <2>1. DOMAIN more = {"step", "wants"} /\ more.step = "closing" /\ more.wants = others
    OBVIOUS
  <2> HIDE DEF more, others
  <2> QED
    BY <1>0, <1>2, <1>3, <2>1, ContinueSets DEF Fields, UsesLink
<1> HIDE DEF more, others
<1>6. Fields(w)'
  BY <1>0, <1>1, <1>2, <1>5 DEF Fields, UsesLink
<1>7. Locked(w)' = Locked(w) /\ Locked(w) = work[w].holds
  BY <1>2, <1>5 DEF Locked
<1>8. Handler(w)'
  BY <1>0, <1>1, <1>2, <1>4, <1>5, <1>6, <1>7 DEF Handler, Steps, KindsAt
<1> QED
  BY <1>1, <1>3, <1>7, <1>8, Holds

\* The links a handler consumes are its own.
LEMMA HeldAreLocked ==
  ASSUME HInv, NEW w \in Workers,
         work[w].step \in {"replacing", "claimed", "closing"}
  PROVE  /\ Fields(w) /\ work[w].holds = Locked(w)
         /\ Locked(w) \subseteq DOMAIN links
         /\ \A l \in Locked(w) : ~links[l].consumed
  BY DEF HInv, Handler, Locked

\* issue_challenge commits: the links it holds are consumed, a new one is appended.
LEMMA ReplaceKeeps ==
  ASSUME HInv, NEW w \in Workers, Replace(w)
  PROVE  HInv'
<1>0. Tables /\ AreHandlers /\ Handler(w) /\ Fields(w) /\ work[w].holds = Locked(w)
  BY HeldAreLocked DEF HInv, Replace, At
<1> DEFINE kept == Consumed(Locked(w))
           link == [purpose |-> PurposeOf(work[w].kind), created |-> work[w].time,
                    expires |-> work[w].time + LinkLife, consumed |-> FALSE]
<1>1. links' = Append(kept, link)
  BY <1>0 DEF Replace
<1>2. work[w].time \in 0 .. now /\ now \in Nat
  BY <1>0 DEF Handler, Replace, At, Tables
<1>3. link \in Link
  BY <1>2, AccessAssumption DEF Link, Purposes, PurposeOf
<1>4. /\ kept \in Seq(Link) /\ DOMAIN kept = DOMAIN links /\ Len(kept) = Len(links)
      /\ \A l \in DOMAIN links \ Locked(w) : kept[l] = links[l]
  BY <1>0, ConsumedIsLinks
<1> HIDE DEF kept, link
<1>5. links' \in Seq(Link) /\ Len(links') = Len(links) + 1
  BY <1>1, <1>3, <1>4
<1>6. DOMAIN links' = DOMAIN links \cup {Len(links) + 1}
  BY <1>0, <1>4, <1>5 DEF Tables
<1>7. \A l \in DOMAIN links \ Locked(w) : links'[l] = links[l]
  BY <1>1, <1>3, <1>4
<1>8. inbox' \subseteq DOMAIN links'
  BY <1>0, <1>6 DEF Replace, Tables
<1>9. Tables' /\ now' = now
  BY <1>0, <1>5, <1>8 DEF Replace, Tables, gate
<1>10. Finish(w)
  BY DEF Replace
<1> QED
  BY <1>6, <1>7, <1>9, <1>10, Answered

\* Revoking sessions leaves sessions.
LEMMA RevokedIsSessions ==
  ASSUME Tables, NEW ss
  PROVE  Revoked(ss) \in Seq(Session)
<1>1. /\ DOMAIN sessions = 1 .. Len(sessions) /\ Len(sessions) \in Nat
      /\ \A s \in 1 .. Len(sessions) : sessions[s] \in Session
  BY DEF Tables
<1>2. \A s \in 1 .. Len(sessions) : [sessions[s] EXCEPT !.revoked = TRUE] \in Session
  BY <1>1 DEF Session
<1>3. Revoked(ss) \in [1 .. Len(sessions) -> Session]
  BY <1>1, <1>2 DEF Revoked
<1> QED
  BY <1>1, <1>3, IsASeq

\* The steps that answer a request and may write to links.
LEMMA LinkIsUsed ==
  ASSUME HInv, NEW w \in Workers, Verify(w) \/ Reset(w)
  PROVE  /\ HInv'
         /\ work[w].link \in DOMAIN links /\ ~links[work[w].link].consumed
         /\ honoured' = Append(honoured, work[w].link)
<1>0. /\ Tables /\ AreHandlers /\ Handler(w) /\ Fields(w)
      /\ work[w].holds = Locked(w) /\ Locked(w) \subseteq DOMAIN links
      /\ \A l \in Locked(w) : ~links[l].consumed
  BY HeldAreLocked DEF HInv, Verify, Reset, At
<1>1. work[w].link \in Locked(w)
  BY <1>0 DEF Handler, Verify, Reset, At
<1>2. honoured' = Append(honoured, work[w].link) /\ Finish(w)
  BY DEF Verify, Reset
<1>3. honoured' \in Seq(Nat)
  BY <1>0, <1>1, <1>2 DEF Tables
<1>4. /\ links' \in Seq(Link) /\ DOMAIN links' = DOMAIN links
      /\ \A l \in DOMAIN links \ Locked(w) : links'[l] = links[l]
  BY <1>0, ConsumedIsLinks DEF Verify, Reset
<1>5. account' \in Account
  BY <1>0, AccountsStay DEF Verify, Reset, Tables
<1>6. sessions' \in Seq(Session)
  BY <1>0, RevokedIsSessions DEF Verify, Reset, Tables
<1>7. Tables' /\ now' = now
  BY <1>0, <1>3, <1>4, <1>5, <1>6 DEF Verify, Reset, Tables, gate
<1> QED
  BY <1>0, <1>1, <1>2, <1>4, <1>7, Answered

\* The steps that answer a request and write to the account or its sessions.
LEMMA EndsKeep ==
  ASSUME HInv, NEW w \in Workers,
         \/ Cancel(w) \/ SignIn(w) \/ Logout(w) \/ ChangePassword(w) \/ PatchUser(w)
         \/ Attach(w)
  PROVE  HInv'
<1>0. Tables /\ AreHandlers /\ Handler(w)
  BY DEF HInv
<1>1. Finish(w) /\ links' = links /\ now' = now
  BY DEF Cancel, SignIn, Logout, ChangePassword, PatchUser, Attach, rows
<1>2. sessions' \in Seq(Session)
  <2>1. CASE sessions' = sessions
    BY <1>0, <2>1 DEF Tables
  <2>2. CASE \E ss : sessions' = Revoked(ss)
    BY <1>0, <2>2, RevokedIsSessions
  <2>3. CASE SignIn(w)
    <3>1. [expires |-> now + SessionLife, revoked |-> FALSE] \in Session
      BY <1>0, AccessAssumption DEF Tables, Session
    <3> QED
      BY <1>0, <2>3, <3>1 DEF Tables, SignIn
  <2> QED
    BY <2>1, <2>2, <2>3 DEF Cancel, Logout, ChangePassword, PatchUser, Attach, rows
<1>3. account' \in Account
  <2>1. CASE account' = account
    BY <1>0, <2>1 DEF Tables
  <2>2. CASE ChangePassword(w) \/ Attach(w)
    BY <1>0, <2>2, AccountsStay DEF Tables, ChangePassword, Attach
  <2>3. CASE PatchUser(w)
    <3>1. work[w].active \in BOOLEAN
      BY <1>0, <2>3 DEF PatchUser, At, Handler, Fields
    <3> QED
      BY <1>0, <2>3, <3>1, AccountsStay DEF Tables, PatchUser
  <2> QED
    BY <2>1, <2>2, <2>3 DEF Cancel, SignIn, Logout, rows
<1>4. Tables'
  BY <1>0, <1>1, <1>2, <1>3 DEF Tables, gate, rows, Cancel, SignIn, Logout,
                                ChangePassword, PatchUser, Attach
<1> QED
  BY <1>1, <1>4, Answered

\* A step of a handler keeps HInv.
LEMMA HandlersKeep ==
  ASSUME HInv, NEW w \in Workers, Handle(w)
  PROVE  HInv'
BY MovesOn, IssueKeeps, OpenKeeps, LockKeeps, ClaimKeeps, CloseOthersKeeps, ReplaceKeeps,
   LinkIsUsed, EndsKeep DEF Handle

\* A request that is admitted becomes a handler that holds nothing.
LEMMA StartKeeps ==
  ASSUME HInv, NEW w \in Workers, NEW kind, Rests(w), Start(w, kind), Tables',
         now' = now, links' = links
  PROVE  HInv'
<1> PICK more \in Carries(kind) :
           work' = [work EXCEPT ![w] = With(more, [step |-> "admitted", kind |-> kind])]
  BY DEF Start
<1>0. Tables /\ AreHandlers
  BY DEF HInv
<1>1. /\ AreHandlers' /\ \A v \in Workers \ {w} : work'[v] = work[v]
      /\ work'[w] = With(more, [step |-> "admitted", kind |-> kind])
  BY <1>0 DEF AreHandlers
<1> DEFINE first == [step |-> "admitted", kind |-> kind]
<1>2. first.step = "admitted" /\ first.kind = kind /\ DOMAIN first = {"step", "kind"}
  OBVIOUS
<1> HIDE DEF first
<1>3. /\ work'[w].step = "admitted" /\ work'[w].kind = kind
      /\ DOMAIN work'[w] = DOMAIN more \cup {"step", "kind"}
      /\ \A f \in DOMAIN more \ {"step", "kind"} : work'[w][f] = more[f]
  BY <1>1, <1>2 DEF With, first
<1>4. kind \in UsesLink => "link" \in DOMAIN more /\ more.link \in DOMAIN links
  BY <1>0 DEF Carries, UsesLink, Tables
<1>5. kind = "patch_user" => "active" \in DOMAIN more /\ more.active \in BOOLEAN
  BY DEF Carries
<1>6. Fields(w)'
  BY <1>3, <1>4, <1>5 DEF Fields
<1>7. Handler(w)' /\ Locked(w)' = {}
  BY <1>3, <1>6 DEF Handler, Locked, Steps
<1>8. now' \in now .. now + 1
  BY <1>0 DEF Tables
<1> QED
  BY <1>1, <1>7, <1>8, StepOfOne

\* What a step leaves as it was.
LEMMA HandlersLeaveTheGate ==
  ASSUME NEW w \in Workers, Handle(w)
  PROVE  UNCHANGED gate /\ now' = now
<1>1. Register(w) \/ Create(w) \/ Ask(w) \/ Issue(w) \/ Lock(w) \/ Replace(w) \/ Open(w)
        => UNCHANGED gate /\ now' = now
  BY DEF Register, Create, Ask, Issue, Lock, Replace, Open, gate
<1>2. Claim(w) \/ CloseOthers(w) \/ Verify(w) \/ Reset(w) \/ Cancel(w) \/ SignIn(w)
        => UNCHANGED gate /\ now' = now
  BY DEF Claim, CloseOthers, Verify, Reset, Cancel, SignIn, gate
<1>3. Login(w) \/ Logout(w) \/ CheckPassword(w) \/ ChangePassword(w) \/ PatchUser(w)
        => UNCHANGED gate /\ now' = now
  BY DEF Login, Logout, CheckPassword, ChangePassword, PatchUser, gate
<1>4. GoogleLogin(w) \/ GoogleInsert(w) \/ GoogleRecover(w) \/ GoogleRelink(w)
        \/ LinkGoogle(w) \/ Attach(w) => UNCHANGED gate /\ now' = now
  BY DEF GoogleLogin, GoogleInsert, GoogleRecover, GoogleRelink, LinkGoogle, Attach, gate
<1> QED
  BY <1>1, <1>2, <1>3, <1>4 DEF Handle

\* A request passes the limiter and starts its handler, or nothing starts.
LEMMA PassLimiterStarts ==
  ASSUME NEW w \in Workers, NEW kind, PassLimiter(w, kind)
  PROVE  Start(w, kind) \/ work' = work
  BY DEF PassLimiter

\* It holds after every step.
LEMMA HInvNext ==
  ASSUME HInv, Next
  PROVE  HInv'
<1>0. Tables /\ now \in Nat
  BY DEF HInv, Tables
<1>1. ASSUME work' = work, links' = links, now' \in now .. now + 1, Tables'
      PROVE  HInv'
  BY <1>0, <1>1 DEF HInv, AreHandlers, Apart, Locked, Handler, Fields, Idle
<1>2. ASSUME NEW w \in Workers, Handle(w) PROVE HInv'
  BY <1>2, HandlersKeep
<1>3. ASSUME NEW w \in Workers, NEW kind \in mix, Arrive(w, kind) PROVE HInv'
  <2>1. Tables' /\ links' = links /\ now' = now /\ Rests(w)
    BY <1>0, <1>3, AccessAssumption DEF Arrive, Tables, rows
  <2>2. Start(w, kind) \/ work' = work
    BY <1>3, PassLimiterStarts DEF Arrive
  <2> QED
    BY <1>0, <1>1, <2>1, <2>2, StartKeeps
<1>4. ASSUME NEW w \in Workers, NEW kind \in mix, NEW a \in sent, ArriveSigned(w, kind, a)
      PROVE  HInv'
  <2>1. Tables' /\ links' = links /\ now' = now /\ Rests(w)
    BY <1>0, <1>4 DEF ArriveSigned, Tables, rows
  <2>2. Start(w, kind) \/ work' = work
    BY <1>4, PassLimiterStarts DEF ArriveSigned
  <2> QED
    BY <1>0, <1>1, <2>1, <2>2, StartKeeps
<1>5. ASSUME \E issued \in 0 .. (now + MaxFuture) : Sign(issued) PROVE HInv'
  BY <1>0, <1>1, <1>5, AccessAssumption DEF Sign, Tables, rows
<1>6. ASSUME Prune PROVE HInv'
  BY <1>0, <1>1, <1>6 DEF Prune, Tables, rows
<1>7. ASSUME Tick PROVE HInv'
  BY <1>0, <1>1, <1>7, AccessAssumption DEF Tick, Tables, rows, gate
<1> QED
  BY <1>2, <1>3, <1>4, <1>5, <1>6, <1>7 DEF Next

\* It holds at the start.
LEMMA HInvInit ==
  ASSUME Init
  PROVE  HInv
<1>1. account \in Account
  <2>1. CASE account = Absent
    BY <2>1 DEF Absent, Account
  <2>2. Unverified \in Account
    <3>1. PICK p \in Passwords : Unverified = [Absent EXCEPT !.exists = TRUE,
                                  !.active = TRUE, !.password = p]
      BY AccessAssumption DEF Unverified
    <3> QED
      BY <3>1 DEF Absent, Account
  <2>3. Member \in Account
    BY <2>2 DEF Member, Account
  <2> QED
    BY <2>1, <2>2, <2>3 DEF Init, Accounts
<1>2. sessions \in Seq(Session)
  <2>1. [expires |-> SessionLife, revoked |-> FALSE] \in Session
    BY AccessAssumption DEF Session
  <2> QED
    BY <2>1 DEF Init
<1>3. Tables
  BY <1>1, <1>2, AccessAssumption DEF Init, Tables
<1>4. AreHandlers /\ \A w \in Workers : work[w] = Idle
  BY DEF Init, AreHandlers
<1> QED
  BY <1>3, <1>4, IdleIsAHandler DEF HInv, Apart

---------------------------------------------------------------------------
(* Assertions *)

Assertion == [nonce : Nat, issued : Nat]

\* Every signed assertion has a nonce of its own, and one that was admitted is
\* in the memory until it is too old to be admitted again.
MInv ==
  /\ now \in Nat
  /\ IsFiniteSet(sent) /\ sent \subseteq Assertion
  /\ \A a \in sent : a.nonce <= Cardinality(sent)
  /\ \A a, b \in sent : a.nonce = b.nonce => a = b
  /\ entered \in Seq(sent)
  /\ \A i \in DOMAIN entered :
       \/ entered[i].issued + MaxAge < now
       \/ [nonce |-> entered[i].nonce, deadline |-> entered[i].issued + MaxAge] \in memory
  /\ AssertionIsAdmittedOnce

\* It holds at the start.
LEMMA MInvInit ==
  ASSUME Init
  PROVE  MInv
BY FS_EmptySet DEF Init, MInv, AssertionIsAdmittedOnce

\* The ingress signs with a new nonce.
LEMMA SignKeepsMInv ==
  ASSUME MInv, NEW issued \in 0 .. (now + MaxFuture), Sign(issued)
  PROVE  MInv'
<1> DEFINE a == [nonce |-> Cardinality(sent) + 1, issued |-> issued]
<1>1. sent' = sent \cup {a} /\ UNCHANGED <<now, memory, entered>>
  BY DEF Sign
<1>2. Cardinality(sent) \in Nat /\ a.nonce = Cardinality(sent) + 1 /\ a \in Assertion
  BY FS_CardinalityType, AdmissionAssumption DEF MInv, Assertion
<1> HIDE DEF a
<1>3. a \notin sent
  BY <1>2 DEF MInv
<1>4. IsFiniteSet(sent') /\ Cardinality(sent') = Cardinality(sent) + 1
  BY <1>1, <1>3, FS_AddElement DEF MInv
<1>5. \A b \in sent : b.nonce < a.nonce /\ b \in Assertion
  BY <1>2 DEF MInv, Assertion
<1>6. \A b, c \in sent' : b.nonce = c.nonce => b = c
  BY <1>1, <1>2, <1>5 DEF MInv, Assertion
<1>7. entered' \in Seq(sent')
  BY <1>1 DEF MInv
<1>8. \A b \in sent' : b.nonce <= Cardinality(sent')
  BY <1>1, <1>2, <1>4, <1>5 DEF Assertion
<1> QED
  BY <1>1, <1>2, <1>4, <1>6, <1>7, <1>8 DEF MInv, AssertionIsAdmittedOnce

\* An assertion is admitted when its nonce is not remembered, and remembered then.
LEMMA ArriveSignedKeepsMInv ==
  ASSUME MInv, NEW w, NEW kind, NEW a \in sent, ArriveSigned(w, kind, a)
  PROVE  MInv'
<1>1. UNCHANGED <<now, sent>> /\ InTime(a, now) /\ a \in Assertion
  BY DEF ArriveSigned, MInv
<1>2. \A i \in DOMAIN entered : entered[i] \in Assertion
  BY DEF MInv
<1>3. \A i \in DOMAIN entered :
        \/ entered[i].issued + MaxAge < now
        \/ [nonce |-> entered[i].nonce, deadline |-> entered[i].issued + MaxAge]
             \in Remembered(memory, now)
  BY <1>2, AdmissionAssumption DEF MInv, Remembered, Assertion
<1>4. CASE IsNew(a, memory, now)
  <2>1. entered' = Append(entered, a) /\ memory' = Remember(a, memory, now)
    BY <1>4 DEF ArriveSigned
  <2>2. ASSUME NEW i \in DOMAIN entered PROVE entered[i].nonce # a.nonce
    <3>1. SUFFICES ASSUME entered[i].nonce = a.nonce PROVE FALSE
      OBVIOUS
    <3>2. entered[i] = a
      BY <3>1 DEF MInv
    <3>3. now <= a.issued + MaxAge
      BY <1>1, AdmissionAssumption DEF InTime, Assertion, MInv
    <3>4. [nonce |-> a.nonce, deadline |-> a.issued + MaxAge] \in Remembered(memory, now)
      BY <1>1, <1>3, <3>2, <3>3, AdmissionAssumption DEF MInv, Assertion
    <3> QED
      BY <1>4, <3>4 DEF IsNew
  <2>3. entered' \in Seq(sent)
    BY <2>1 DEF MInv
  <2>4. /\ Len(entered') = Len(entered) + 1 /\ Len(entered) \in Nat
        /\ DOMAIN entered = 1 .. Len(entered) /\ DOMAIN entered' = 1 .. Len(entered')
        /\ entered'[Len(entered')] = a
        /\ \A i \in 1 .. Len(entered) : entered'[i] = entered[i]
    BY <2>1 DEF MInv
  <2>5. AssertionIsAdmittedOnce'
    BY <2>2, <2>4 DEF MInv, AssertionIsAdmittedOnce
  <2>6. \A i \in DOMAIN entered' :
          \/ entered'[i].issued + MaxAge < now
          \/ [nonce |-> entered'[i].nonce, deadline |-> entered'[i].issued + MaxAge]
               \in memory'
    BY <1>3, <2>1, <2>4 DEF Remember
  <2> QED
    BY <1>1, <2>3, <2>5, <2>6 DEF MInv
<1>5. CASE ~IsNew(a, memory, now)
  <2>1. entered' = entered /\ memory' = Remembered(memory, now)
    BY <1>5 DEF ArriveSigned
  <2> QED
    BY <1>1, <1>3, <2>1 DEF MInv, AssertionIsAdmittedOnce
<1> QED
  BY <1>4, <1>5

\* It holds after every step.
LEMMA MInvNext ==
  ASSUME MInv, Next
  PROVE  MInv'
<1>1. ASSUME UNCHANGED <<sent, memory, entered>>, now' \in now .. now + 1 PROVE MInv'
  <2>1. now' \in Nat /\ now <= now'
    BY <1>1 DEF MInv
  <2>2. \A i \in DOMAIN entered : entered[i] \in Assertion
    BY DEF MInv
  <2>3. \A i \in DOMAIN entered :
          entered[i].issued + MaxAge < now => entered[i].issued + MaxAge < now'
    BY <2>1, <2>2, AdmissionAssumption DEF MInv, Assertion
  <2> QED
    BY <1>1, <2>1, <2>3 DEF MInv, AssertionIsAdmittedOnce
<1>2. ASSUME NEW w \in Workers, Handle(w) PROVE MInv'
  BY <1>1, <1>2, HandlersLeaveTheGate DEF gate, MInv
<1>3. ASSUME NEW w \in Workers, NEW kind \in mix, Arrive(w, kind) PROVE MInv'
  BY <1>1, <1>3 DEF Arrive, MInv
<1>4. ASSUME Prune PROVE MInv'
  BY <1>1, <1>4 DEF Prune, MInv
<1>5. ASSUME Tick PROVE MInv'
  BY <1>1, <1>5 DEF Tick, MInv, gate
<1> QED
  BY <1>2, <1>3, <1>4, <1>5, SignKeepsMInv, ArriveSignedKeepsMInv DEF Next

---------------------------------------------------------------------------
(* The limiter *)

\* Times in the order in which they came.
InOrder(times) == \A i, j \in DOMAIN times : i < j => times[i] <= times[j]

\* What the first k of these times are to a window.
HaveLeft(times, k, time) == \A j \in 1 .. k : times[j] <= time - Window

\* The limiter drops a beginning of its times: those that left the window.
LEMMA InWindowDropsTheOld ==
  ASSUME NEW es \in Seq(Nat), InOrder(es), NEW time \in Nat
  PROVE  \E k \in 0 .. Len(es) :
           /\ InWindow(es, time) = SubSeq(es, k + 1, Len(es))
           /\ HaveLeft(es, k, time)
           /\ \A j \in k + 1 .. Len(es) : es[j] > time - Window
<1> DEFINE fresh == {i \in DOMAIN es : es[i] > time - Window}
<1>1. /\ DOMAIN es = 1 .. Len(es) /\ Len(es) \in Nat
      /\ \A j \in 1 .. Len(es) : es[j] \in Nat
  OBVIOUS
<1>2. CASE fresh = {}
  <2>1. InWindow(es, time) = <<>>
    BY <1>2 DEF InWindow
  <2>2. SubSeq(es, Len(es) + 1, Len(es)) = <<>>
    BY <1>1
  <2>3. HaveLeft(es, Len(es), time)
    BY <1>1, <1>2, AdmissionAssumption DEF HaveLeft
  <2> QED
    BY <1>1, <2>1, <2>2, <2>3
<1>3. CASE fresh # {}
  <2> DEFINE first == Min(fresh)
  <2>1. first \in fresh /\ \A i \in fresh : first <= i
    <3>1. fresh \subseteq Nat
      BY <1>1
    <3> HIDE DEF fresh
    <3> QED
      BY <1>3, <3>1, MinIsMember
  <2>2. InWindow(es, time) = SubSeq(es, first, Len(es))
    BY <1>3 DEF InWindow
  <2>3. first \in 1 .. Len(es) /\ es[first] > time - Window
    BY <1>1, <2>1
  <2>4. \A i \in 1 .. Len(es) : es[i] > time - Window => first <= i
    BY <1>1, <2>1
  <2> HIDE DEF first
  <2>5. HaveLeft(es, first - 1, time)
    BY <1>1, <2>3, <2>4, AdmissionAssumption DEF HaveLeft
  <2>6. \A j \in first .. Len(es) : es[j] > time - Window
    BY <1>1, <2>3, AdmissionAssumption DEF InOrder
  <2>7. first - 1 \in 0 .. Len(es) /\ (first - 1) + 1 = first
    BY <1>1, <2>3
  <2> QED
    BY <2>2, <2>5, <2>6, <2>7
<1> QED
  BY <1>2, <1>3

\* The limiter has all of the counted requests that are still in the window.
Remembers(k) ==
  /\ events = SubSeq(counted, k + 1, Len(counted))
  /\ HaveLeft(counted, k, now)

WInv ==
  /\ now \in Nat
  /\ counted \in Seq(Nat) /\ InOrder(counted)
  /\ \A i \in DOMAIN counted : counted[i] <= now
  /\ \E k \in 0 .. Len(counted) : Remembers(k)
  /\ WindowBudget

\* What is left of a sequence when a beginning is dropped.
LEMMA Suffix ==
  ASSUME NEW es \in Seq(Nat), NEW k \in 0 .. Len(es)
  PROVE  /\ SubSeq(es, k + 1, Len(es)) \in Seq(Nat)
         /\ Len(SubSeq(es, k + 1, Len(es))) = Len(es) - k
         /\ \A i \in 1 .. Len(es) - k : SubSeq(es, k + 1, Len(es))[i] = es[k + i]
<1>1. Len(es) \in Nat /\ \A i \in k + 1 .. Len(es) : es[i] \in Nat
  OBVIOUS
<1> DEFINE n == Len(es)
           m == k + 1
<1>2. m \in Int /\ n \in Int /\ n - m + 1 = n - k /\ k \in Nat /\ k <= n
  BY <1>1
<1> HIDE DEF n
<1>3. /\ SubSeq(es, m, n) \in Seq(Nat)
      /\ Len(SubSeq(es, m, n)) = IF m <= n THEN n - m + 1 ELSE 0
      /\ \A i \in 1 .. n - m + 1 : SubSeq(es, m, n)[i] = es[m + i - 1]
  BY <1>1, <1>2, SubSeqProperties DEF n
<1>4. (IF m <= n THEN n - m + 1 ELSE 0) = n - k
  BY <1>2
<1>5. \A i \in 1 .. n - k : m + i - 1 = k + i
  BY <1>2
<1> QED
  BY <1>2, <1>3, <1>4, <1>5 DEF n

\* It holds at the start.
LEMMA WInvInit ==
  ASSUME Init
  PROVE  WInv
<1>1. /\ now = 0 /\ counted = <<>> /\ events = <<>>
  BY DEF Init
<1>2. Remembers(0) /\ Len(counted) = 0
  BY <1>1 DEF Remembers, HaveLeft
<1> QED
  BY <1>1, <1>2 DEF WInv, InOrder, WindowBudget

\* Time passes, and a key may be pruned.
LEMMA LaterWInv ==
  ASSUME WInv, now' \in now .. now + 1, counted' = counted, events' = events
  PROVE  WInv'
<1>1. now' \in Nat /\ now <= now' /\ Len(counted) \in Nat
      /\ \A i \in 1 .. Len(counted) : counted[i] \in Nat
  BY DEF WInv
<1>2. PICK k \in 0 .. Len(counted) : Remembers(k)
  BY DEF WInv
<1>3. ASSUME NEW j \in 1 .. k PROVE counted[j] <= now' - Window
  <2>1. counted[j] <= now - Window /\ j \in 1 .. Len(counted)
    BY <1>1, <1>2 DEF Remembers, HaveLeft
  <2> QED
    BY <1>1, <2>1, AdmissionAssumption DEF WInv
<1>4. Remembers(k)'
  BY <1>2, <1>3 DEF Remembers, HaveLeft
<1> QED
  BY <1>1, <1>2, <1>4 DEF WInv, WindowBudget

\* A key is forgotten only when all its times have left the window.
LEMMA PruneKeepsWInv ==
  ASSUME WInv, Prune
  PROVE  WInv'
<1>1. UNCHANGED <<now, counted>> /\ events' = <<>>
  BY DEF Prune
<1> DEFINE n == Len(counted)
<1>2. n \in Nat /\ DOMAIN counted = 1 .. n /\ \A i \in 1 .. n : counted[i] \in Nat
  BY DEF WInv
<1>3. PICK k \in 0 .. n : Remembers(k)
  BY DEF WInv
<1>4. k < n /\ Len(events) = n - k /\ events[Len(events)] = counted[n]
  <2>1. /\ events \in Seq(Nat) /\ Len(events) = n - k
        /\ \A i \in 1 .. n - k : events[i] = counted[k + i]
    BY <1>3, Suffix DEF WInv, Remembers
  <2>2. Len(events) # 0
    BY <2>1, EmptySeq DEF Prune
  <2> HIDE DEF n
  <2>3. n - k \in 1 .. n - k /\ k + (n - k) = n
    BY <1>2, <2>1, <2>2
  <2> QED
    BY <1>2, <2>1, <2>3
<1>5. counted[n] <= now - Window
  BY <1>4 DEF Prune, IsStale
<1>6. ASSUME NEW j \in 1 .. n PROVE counted[j] <= now - Window
  <2>1. counted[j] <= counted[n]
    BY <1>2 DEF WInv, InOrder
  <2> QED
    BY <1>2, <1>5, <2>1, AdmissionAssumption DEF WInv
<1>7. SubSeq(counted, n + 1, n) = <<>>
  BY <1>2 DEF WInv
<1>8. Remembers(n)'
  BY <1>1, <1>6, <1>7 DEF Remembers, HaveLeft
<1> QED
  BY <1>1, <1>2, <1>8 DEF WInv, WindowBudget

\* What the limiter counts and what was let through agree on the window.
LEMMA WindowsAgree ==
  ASSUME WInv
  PROVE  /\ InWindow(events, now) = InWindow(counted, now)
         /\ \E k \in 0 .. Len(counted) :
              /\ InWindow(counted, now) = SubSeq(counted, k + 1, Len(counted))
              /\ HaveLeft(counted, k, now)
<1> DEFINE n == Len(counted)
<1>1. /\ n \in Nat /\ DOMAIN counted = 1 .. n /\ counted \in Seq(Nat) /\ now \in Nat
      /\ \A i \in 1 .. n : counted[i] \in Nat
  BY DEF WInv
<1>2. PICK k \in 0 .. n : Remembers(k)
  BY DEF WInv
<1>3. PICK c \in 0 .. n : /\ InWindow(counted, now) = SubSeq(counted, c + 1, n)
                          /\ HaveLeft(counted, c, now)
                          /\ \A j \in c + 1 .. n : counted[j] > now - Window
  BY <1>1, InWindowDropsTheOld DEF WInv
<1>4. /\ events \in Seq(Nat) /\ Len(events) = n - k
      /\ \A i \in 1 .. n - k : events[i] = counted[k + i]
  BY <1>1, <1>2, Suffix DEF Remembers
<1>5. ASSUME NEW i \in DOMAIN events, NEW j \in DOMAIN events, i < j
      PROVE  events[i] <= events[j]
  <2> HIDE DEF n
  <2>0. i \in 1 .. n - k /\ j \in 1 .. n - k
    <3>1. DOMAIN events = 1 .. Len(events)
      BY <1>4
    <3> QED
      BY <1>4, <3>1
  <2>1. k + i \in 1 .. n /\ k + j \in 1 .. n /\ k + i < k + j
    BY <1>1, <1>5, <2>0
  <2> QED
    BY <1>1, <1>4, <2>0, <2>1 DEF WInv, InOrder
<1>5a. InOrder(events)
  BY <1>5 DEF InOrder
<1>6. PICK e \in 0 .. n - k : /\ InWindow(events, now) = SubSeq(events, e + 1, n - k)
                              /\ HaveLeft(events, e, now)
                              /\ \A j \in e + 1 .. n - k : events[j] > now - Window
  BY <1>1, <1>4, <1>5a, InWindowDropsTheOld
<1>7. c >= k
  <2>1. SUFFICES ASSUME c < k PROVE FALSE
    BY <1>1
  <2>2. c + 1 \in 1 .. k /\ c + 1 \in c + 1 .. n
    BY <1>1, <2>1
  <2>3. counted[c + 1] > now - Window /\ counted[c + 1] <= now - Window
    BY <1>2, <1>3, <2>2 DEF Remembers, HaveLeft
  <2> QED
    BY <1>1, <2>2, <2>3, AdmissionAssumption
<1>8. c = k + e
  <2>1. ~ (c < k + e)
    <3>1. SUFFICES ASSUME c < k + e PROVE FALSE
      OBVIOUS
    <3>2. c + 1 - k \in 1 .. e /\ c + 1 \in c + 1 .. n /\ c + 1 - k \in 1 .. n - k
      BY <1>1, <1>7, <3>1
    <3>3. events[c + 1 - k] <= now - Window /\ events[c + 1 - k] = counted[k + (c + 1 - k)]
      BY <1>4, <1>6, <3>2 DEF HaveLeft
    <3>4. counted[c + 1] > now - Window /\ k + (c + 1 - k) = c + 1 /\ counted[c + 1] \in Nat
      BY <1>1, <1>3, <3>2
    <3> QED
      BY <1>1, <3>3, <3>4, AdmissionAssumption
  <2>2. ~ (c > k + e)
    <3>1. SUFFICES ASSUME c > k + e PROVE FALSE
      OBVIOUS
    <3>2. k + e + 1 \in 1 .. c /\ e + 1 \in e + 1 .. n - k /\ e + 1 \in 1 .. n - k
          /\ k + (e + 1) = k + e + 1 /\ k + e + 1 \in 1 .. n
      BY <1>1, <3>1
    <3>3. events[e + 1] > now - Window /\ events[e + 1] = counted[k + (e + 1)]
      BY <1>4, <1>6, <3>2
    <3>4. counted[k + e + 1] <= now - Window
      BY <1>3, <3>2 DEF HaveLeft
    <3> QED
      BY <1>1, <3>2, <3>3, <3>4, AdmissionAssumption
  <2> QED
    BY <1>1, <2>1, <2>2
<1>9. SubSeq(events, e + 1, n - k) = SubSeq(counted, c + 1, n)
  <2> DEFINE a == SubSeq(events, e + 1, n - k)
             b == SubSeq(counted, c + 1, n)
  <2>1. /\ a \in Seq(Nat) /\ Len(a) = n - k - e
        /\ \A i \in 1 .. n - k - e : a[i] = events[e + i]
    BY <1>4, Suffix
  <2>2. b \in Seq(Nat) /\ Len(b) = n - c /\ \A i \in 1 .. n - c : b[i] = counted[c + i]
    BY <1>1, Suffix
  <2>3. n - k - e = n - c
    BY <1>1, <1>8
  <2> HIDE DEF a, b, n
  <2>4. ASSUME NEW i \in 1 .. n - c PROVE a[i] = b[i]
    <3>1. e + i \in 1 .. n - k /\ k + (e + i) = c + i
      BY <1>1, <1>8
    <3> QED
      BY <1>4, <2>1, <2>2, <2>3, <3>1
  <2> QED
    BY <2>1, <2>2, <2>3, <2>4, SeqEqual DEF a, b
<1> QED
  BY <1>3, <1>6, <1>9

\* FixedWindowLimiter.consume: a request is counted only when fewer than Limit are in its window.
LEMMA PassLimiterKeepsWInv ==
  ASSUME WInv, NEW w, NEW kind, PassLimiter(w, kind), now' = now
  PROVE  WInv'
<1> DEFINE n == Len(counted)
<1>1. /\ n \in Nat /\ DOMAIN counted = 1 .. n /\ counted \in Seq(Nat) /\ now \in Nat
      /\ \A i \in 1 .. n : counted[i] \in Nat
  BY DEF WInv
<1>2. PICK c \in 0 .. n : /\ InWindow(counted, now) = SubSeq(counted, c + 1, n)
                          /\ InWindow(events, now) = SubSeq(counted, c + 1, n)
                          /\ HaveLeft(counted, c, now)
  BY WindowsAgree
<1>3. CASE UNCHANGED <<events, counted>>
  BY <1>1, <1>3, LaterWInv
<1>4. CASE counted' = counted /\ events' = InWindow(events, now)
  <2>1. Remembers(c)'
    BY <1>2, <1>4 DEF Remembers, HaveLeft
  <2> QED
    BY <1>4, <2>1 DEF WInv, WindowBudget
<1>5. CASE /\ HasRoom(events, now)
           /\ counted' = Append(InWindow(counted, now), now)
           /\ events' = Append(InWindow(events, now), now)
  <2> DEFINE kept == SubSeq(counted, c + 1, n)
             m == n - c
  <2>1. /\ kept \in Seq(Nat) /\ Len(kept) = m
        /\ \A i \in 1 .. m : kept[i] = counted[c + i]
    BY <1>1, Suffix
  <2>2. counted' = Append(kept, now) /\ events' = Append(kept, now) /\ m < Limit
    BY <1>2, <1>5, <2>1 DEF HasRoom
  <2> HIDE DEF kept
  <2>3. /\ counted' \in Seq(Nat) /\ Len(counted') = m + 1
        /\ DOMAIN counted' = 1 .. m + 1 /\ counted'[m + 1] = now
        /\ \A i \in 1 .. m : counted'[i] = kept[i]
    BY <1>1, <2>1, <2>2, AppendProperties
  <2> HIDE DEF n
  <2>4. m \in Nat /\ \A i \in 1 .. m : c + i \in 1 .. n
    BY <1>1
  <2>5. \A i \in 1 .. m : counted'[i] = counted[c + i]
    BY <2>1, <2>3
  <2>6. ASSUME NEW i \in 1 .. m + 1, NEW j \in 1 .. m + 1, i < j
        PROVE  counted'[i] <= counted'[j]
    <3>1. i \in 1 .. m /\ c + i \in 1 .. n /\ counted'[i] = counted[c + i]
      BY <2>4, <2>5, <2>6
    <3>2. CASE j = m + 1
      BY <1>1, <2>3, <3>1, <3>2 DEF WInv
    <3>3. CASE j # m + 1
      <4>1. j \in 1 .. m /\ c + j \in 1 .. n /\ counted'[j] = counted[c + j]
            /\ c + i < c + j
        BY <1>1, <2>4, <2>5, <2>6, <3>3
      <4> QED
        BY <1>1, <3>1, <4>1 DEF WInv, InOrder
    <3> QED
      BY <3>2, <3>3
  <2>7. ASSUME NEW i \in 1 .. m + 1 PROVE counted'[i] <= now
    <3>1. CASE i = m + 1
      BY <1>1, <2>3, <3>1
    <3>2. CASE i \in 1 .. m
      BY <1>1, <2>4, <2>5, <3>2 DEF WInv
    <3> QED
      BY <2>4, <3>1, <3>2
  <2>8. ASSUME NEW i \in 1 .. m + 1, i > Limit
        PROVE  counted'[i - Limit] <= counted'[i] - Window
    <3>1. i \in 1 .. m /\ i - Limit \in 1 .. m
      BY <2>2, <2>4, <2>8, AdmissionAssumption
    <3>2. c + i \in 1 .. n /\ c + i > Limit /\ c + (i - Limit) = (c + i) - Limit
      BY <1>1, <2>4, <2>8, <3>1, AdmissionAssumption
    <3>3. counted[(c + i) - Limit] <= counted[c + i] - Window
      BY <1>1, <3>2 DEF WInv, WindowBudget
    <3> QED
      BY <2>5, <3>1, <3>2, <3>3
  <2>9. events' = SubSeq(counted', 0 + 1, Len(counted'))
    <3>1. SubSeq(counted', 1, Len(counted')) = counted'
      BY <2>3, SubSeqFull
    <3> QED
      BY <2>2, <3>1
  <2>10. Remembers(0)' /\ 0 \in 0 .. Len(counted')
    BY <2>3, <2>4, <2>9 DEF Remembers, HaveLeft
  <2>11. InOrder(counted)' /\ WindowBudget'
    BY <2>3, <2>6, <2>8 DEF InOrder, WindowBudget
  <2> QED
    BY <1>1, <2>3, <2>7, <2>10, <2>11 DEF WInv
<1> QED
  BY <1>3, <1>4, <1>5 DEF PassLimiter

\* It holds after every step.
LEMMA WInvNext ==
  ASSUME WInv, Next
  PROVE  WInv'
<1>1. now \in Nat
  BY DEF WInv
<1>2. ASSUME NEW w \in Workers, Handle(w) PROVE WInv'
  BY <1>1, <1>2, HandlersLeaveTheGate, LaterWInv DEF gate
<1>3. ASSUME NEW w \in Workers, NEW kind \in mix, Arrive(w, kind) PROVE WInv'
  BY <1>3, PassLimiterKeepsWInv DEF Arrive
<1>4. ASSUME NEW w \in Workers, NEW kind \in mix, NEW a \in sent, ArriveSigned(w, kind, a)
      PROVE  WInv'
  BY <1>1, <1>4, PassLimiterKeepsWInv, LaterWInv DEF ArriveSigned
<1>5. ASSUME \E issued \in 0 .. (now + MaxFuture) : Sign(issued) PROVE WInv'
  BY <1>1, <1>5, LaterWInv DEF Sign
<1>6. ASSUME Tick PROVE WInv'
  BY <1>1, <1>6, LaterWInv DEF Tick, gate
<1> QED
  BY <1>2, <1>3, <1>4, <1>5, <1>6, PruneKeepsWInv DEF Next

---------------------------------------------------------------------------
(* Links in an hour *)

\* The links of a purpose created in the hour up to a time, and the handlers
\* about to create another with a time in that hour.
Recent(purpose, time) ==
  {l \in OfPurpose(purpose) : links[l].created \in time - Hour .. time}
IsAsking(w, purpose, time) ==
  /\ work[w].step = "replacing" /\ PurposeOf(work[w].kind) = purpose
  /\ work[w].time \in time - Hour .. time
Asking(purpose, time) == {w \in Workers : IsAsking(w, purpose, time)}

\* A handler that is about to create a link has counted those there were.
LInv ==
  /\ \A l \in DOMAIN links : links[l].created <= now
  /\ \A purpose \in Purposes, time \in 0 .. MaxNow :
       Cardinality(Recent(purpose, time)) + Cardinality(Asking(purpose, time))
         <= HourlyLimit + Cardinality(Workers) - 1

\* What a stored link is.
LEMMA LinksAreLinks ==
  ASSUME Tables, NEW l \in DOMAIN links
  PROVE  links[l].purpose \in Purposes /\ links[l].created \in Nat /\ l \in Nat
<1>1. links[l] \in Link /\ l \in Nat
  BY DEF Tables
<1> QED
  BY <1>1 DEF Link

\* Both sets can be counted.
LEMMA TheyAreFinite ==
  ASSUME Tables, NEW purpose, NEW time
  PROVE  /\ IsFiniteSet(Recent(purpose, time)) /\ IsFiniteSet(Asking(purpose, time))
         /\ Cardinality(Recent(purpose, time)) \in Nat
         /\ Cardinality(Asking(purpose, time)) \in Nat
         /\ Cardinality(Asking(purpose, time)) <= Cardinality(Workers)
         /\ IsFiniteSet(Workers) /\ Cardinality(Workers) \in Nat
<1>1. IsFiniteSet(1 .. Len(links)) /\ DOMAIN links = 1 .. Len(links)
  BY FS_Interval DEF Tables
<1>2. Recent(purpose, time) \subseteq 1 .. Len(links)
  BY <1>1 DEF Recent, OfPurpose
<1>3. Asking(purpose, time) \subseteq Workers /\ IsFiniteSet(Workers)
  BY AccessAssumption DEF Asking
<1> QED
  BY <1>1, <1>2, <1>3, FS_Subset, FS_CardinalityType

\* It holds at the start.
LEMMA LInvInit ==
  ASSUME Init
  PROVE  LInv
<1>1. Tables /\ links = <<>>
  BY HInvInit DEF HInv, Init
<1>2. ASSUME NEW purpose \in Purposes, NEW time \in 0 .. MaxNow
      PROVE  Cardinality(Recent(purpose, time)) + Cardinality(Asking(purpose, time))
               <= HourlyLimit + Cardinality(Workers) - 1
  <2>1. Recent(purpose, time) = {}
    BY <1>1 DEF Recent, OfPurpose
  <2>2. Cardinality(Recent(purpose, time)) = 0
    BY <2>1, FS_EmptySet
  <2> QED
    BY <1>1, <2>2, TheyAreFinite, AccessAssumption
<1> QED
  BY <1>1, <1>2 DEF LInv

\* A step that creates no link and starts no handler that will.
LEMMA NoneIsAsked ==
  ASSUME HInv, LInv, HInv', now' \in now .. now + 1,
         DOMAIN links' = DOMAIN links,
         \A l \in DOMAIN links : /\ links'[l].purpose = links[l].purpose
                                 /\ links'[l].created = links[l].created,
         \A v \in Workers : work'[v].step = "replacing" =>
           /\ work[v].step = "replacing" /\ work'[v].kind = work[v].kind
           /\ work'[v].time = work[v].time
  PROVE  LInv'
<1>1. Tables /\ Tables'
  BY DEF HInv
<1>2. ASSUME NEW l \in DOMAIN links PROVE links'[l].created <= now'
  <2>1. links[l].created \in Nat /\ now \in Nat
    BY <1>1, LinksAreLinks DEF Tables
  <2> QED
    BY <2>1 DEF LInv
<1>3. ASSUME NEW purpose \in Purposes, NEW time \in 0 .. MaxNow
      PROVE  Cardinality(Recent(purpose, time)') + Cardinality(Asking(purpose, time)')
               <= HourlyLimit + Cardinality(Workers) - 1
  <2>1. Recent(purpose, time)' = Recent(purpose, time)
    BY DEF Recent, OfPurpose
  <2>2. Asking(purpose, time)' \subseteq Asking(purpose, time)
    BY DEF Asking, IsAsking
  <2>3. /\ Cardinality(Asking(purpose, time)') <= Cardinality(Asking(purpose, time))
        /\ Cardinality(Asking(purpose, time)') \in Nat
    BY <1>1, <2>2, TheyAreFinite, FS_Subset, FS_CardinalityType
  <2>4. Cardinality(Recent(purpose, time)) + Cardinality(Asking(purpose, time))
          <= HourlyLimit + Cardinality(Workers) - 1
    BY DEF LInv
  <2> QED
    BY <1>1, <2>1, <2>3, <2>4, TheyAreFinite, AccessAssumption
<1> QED
  BY <1>2, <1>3 DEF LInv

\* A handler that finds room in the hour is one of Workers, and counted before it asks.
LEMMA IssueKeepsLInv ==
  ASSUME HInv, LInv, NEW w \in Workers, Issue(w)
  PROVE  LInv'
<1>0. HInv' /\ Tables /\ Tables' /\ Handler(w) /\ Fields(w)
  BY IssueKeeps DEF HInv, Handler, Issue, At
<1>1. links' = links /\ now' = now /\ now \in Nat
  BY <1>0 DEF Issue, rows, Tables
<1>2. work[w].step = "issuing"
  BY DEF Issue, At
<1>3. CASE Finish(w)
  <2>1. work'[w] = Idle /\ \A v \in Workers \ {w} : work'[v] = work[v]
    BY <1>3, FinishRests DEF HInv
  <2>2. Idle.step # "replacing"
    BY DEF Idle
  <2> QED
    BY <1>0, <1>1, <2>1, <2>2, NoneIsAsked
<1>4. CASE ~Finish(w)
  <2> DEFINE found == {l \in OfPurpose(PurposeOf(work[w].kind)) : Live(l, now)}
             more == [step |-> "replacing", time |-> now, holds |-> {}, wants |-> found]
  <2>1. Continue(w, more) /\ ~Throttled(PurposeOf(work[w].kind), now)
    BY <1>4 DEF Issue
  <2>2. /\ work'[w].time = now /\ work'[w].kind = work[w].kind
        /\ \A v \in Workers \ {w} : work'[v] = work[v]
    <3>1. /\ DOMAIN more = {"step", "time", "holds", "wants"} /\ more.time = now
      OBVIOUS
    <3> HIDE DEF more, found
    <3> QED
      BY <1>0, <2>1, <3>1, ContinueSets DEF Fields, HInv
  <2> HIDE DEF found, more
  <2>3. ASSUME NEW purpose \in Purposes, NEW time \in 0 .. MaxNow
        PROVE  Cardinality(Recent(purpose, time)') + Cardinality(Asking(purpose, time)')
                 <= HourlyLimit + Cardinality(Workers) - 1
    <3>1. Recent(purpose, time)' = Recent(purpose, time)
      BY <1>1 DEF Recent, OfPurpose
    <3>2. /\ Cardinality(Recent(purpose, time)) \in Nat
          /\ Cardinality(Asking(purpose, time)) \in Nat
          /\ IsFiniteSet(Asking(purpose, time))
          /\ Cardinality(Asking(purpose, time)') \in Nat
          /\ Cardinality(Asking(purpose, time)') <= Cardinality(Workers)
          /\ Cardinality(Workers) \in Nat /\ HourlyLimit \in Nat \ {0}
          /\ IsFiniteSet(OfPurpose(purpose))
      <4>1. IsFiniteSet(1 .. Len(links)) /\ DOMAIN links = 1 .. Len(links)
        BY <1>0, FS_Interval DEF Tables
      <4>2. OfPurpose(purpose) \subseteq 1 .. Len(links)
        BY <4>1 DEF OfPurpose
      <4>3. IsFiniteSet(OfPurpose(purpose)) /\ HourlyLimit \in Nat \ {0}
        BY <4>1, <4>2, FS_Subset, AccessAssumption
      <4>4. /\ Cardinality(Asking(purpose, time)') \in Nat
            /\ Cardinality(Asking(purpose, time)') <= Cardinality(Workers)
        <5>1. Asking(purpose, time)' \subseteq Workers /\ IsFiniteSet(Workers)
          BY AccessAssumption DEF Asking
        <5> QED
          BY <5>1, FS_Subset, FS_CardinalityType
      <4> QED
        BY <1>0, <4>3, <4>4, TheyAreFinite
    <3>3. CASE PurposeOf(work[w].kind) = purpose /\ now \in time - Hour .. time
      <4> DEFINE lately == {l \in OfPurpose(purpose) : links[l].created >= now - Hour}
      <4>1. Cardinality(lately) < HourlyLimit
        <5>1. IsFiniteSet(lately) /\ Cardinality(lately) \in Nat
          BY <3>2, FS_Subset, FS_CardinalityType
        <5>2. ~ (Cardinality(lately) >= HourlyLimit)
          BY <2>1, <3>3 DEF Throttled
        <5> HIDE DEF lately
        <5> QED
          BY <3>2, <5>1, <5>2
      <4>2. Recent(purpose, time) \subseteq lately
        <5> SUFFICES ASSUME NEW l \in Recent(purpose, time) PROVE l \in lately
          OBVIOUS
        <5>1. /\ l \in OfPurpose(purpose) /\ links[l].created \in time - Hour .. time
              /\ links[l].created \in Nat
          BY <1>0, LinksAreLinks DEF Recent, OfPurpose
        <5>2. links[l].created >= now - Hour
          BY <1>1, <3>3, <5>1, AccessAssumption
        <5> QED
          BY <5>1, <5>2
      <4>3. Cardinality(Recent(purpose, time)) <= Cardinality(lately)
            /\ Cardinality(lately) \in Nat
        BY <3>2, <4>2, FS_Subset, FS_CardinalityType
      <4> HIDE DEF lately
      <4> QED
        BY <3>1, <3>2, <4>1, <4>3
    <3>4. CASE ~ (PurposeOf(work[w].kind) = purpose /\ now \in time - Hour .. time)
      <4>1. Asking(purpose, time)' \subseteq Asking(purpose, time)
        BY <2>2, <3>4 DEF Asking, IsAsking
      <4>2. Cardinality(Asking(purpose, time)') <= Cardinality(Asking(purpose, time))
        BY <3>2, <4>1, FS_Subset
      <4>3. Cardinality(Recent(purpose, time)) + Cardinality(Asking(purpose, time))
              <= HourlyLimit + Cardinality(Workers) - 1
        BY DEF LInv
      <4> QED
        BY <3>1, <3>2, <4>2, <4>3
    <3> QED
      BY <3>3, <3>4
  <2> QED
    BY <1>1, <2>3 DEF LInv
<1> QED
  BY <1>3, <1>4

\* A handler that asked becomes the link it asked for.
LEMMA ReplaceKeepsLInv ==
  ASSUME HInv, LInv, NEW w \in Workers, Replace(w)
  PROVE  LInv'
<1>0. /\ HInv' /\ Tables /\ Tables' /\ Handler(w) /\ work[w].holds = Locked(w)
      /\ work[w].step = "replacing"
  BY ReplaceKeeps, HeldAreLocked DEF HInv, Replace, At
<1>1. now' = now /\ now \in Nat /\ work[w].time \in 0 .. now
  BY <1>0 DEF Replace, gate, Tables, Handler
<1> DEFINE n == Len(links)
           kept == Consumed(Locked(w))
           link == [purpose |-> PurposeOf(work[w].kind), created |-> work[w].time,
                    expires |-> work[w].time + LinkLife, consumed |-> FALSE]
<1>2. /\ n \in Nat /\ DOMAIN links = 1 .. n
      /\ kept \in Seq(Link) /\ Len(kept) = n
  BY <1>0, ConsumedIsLinks DEF Tables
<1>3. \A l \in 1 .. n : /\ kept[l].purpose = links[l].purpose
                        /\ kept[l].created = links[l].created
  <2> SUFFICES ASSUME NEW l \in 1 .. n
               PROVE  /\ kept[l].purpose = links[l].purpose
                      /\ kept[l].created = links[l].created
    OBVIOUS
  <2>1. links[l] \in Link
    BY <1>0 DEF Tables
  <2>2. kept[l] = links[l] \/ kept[l] = [links[l] EXCEPT !.consumed = TRUE]
    BY <1>2 DEF Consumed
  <2> QED
    BY <2>1, <2>2 DEF Link
<1>4. /\ link.purpose = PurposeOf(work[w].kind) /\ link.created = work[w].time
      /\ link \in Link
  BY <1>1, AccessAssumption DEF Link, Purposes, PurposeOf
<1>5. links' = Append(kept, link)
  BY <1>0 DEF Replace
<1> HIDE DEF kept, link
<1>6. /\ Len(links') = n + 1 /\ links'[n + 1] = link
      /\ \A l \in 1 .. n : links'[l] = kept[l]
  BY <1>2, <1>4, <1>5, AppendProperties
<1>7. DOMAIN links' = 1 .. n + 1
  BY <1>0, <1>6 DEF Tables
<1>8. work'[w] = Idle /\ \A v \in Workers \ {w} : work'[v] = work[v]
  BY FinishRests DEF HInv, Replace
<1> HIDE DEF n
<1>9. ASSUME NEW l \in DOMAIN links' PROVE links'[l].created <= now'
  <2>1. CASE l = n + 1
    BY <1>1, <1>4, <1>6, <2>1
  <2>2. CASE l \in 1 .. n
    <3>1. links'[l].created = links[l].created
      BY <1>3, <1>6, <2>2
    <3> QED
      BY <1>1, <1>2, <2>2, <3>1 DEF LInv
  <2> QED
    BY <1>2, <1>7, <2>1, <2>2
<1>10. ASSUME NEW purpose \in Purposes, NEW time \in 0 .. MaxNow
       PROVE  Cardinality(Recent(purpose, time)') + Cardinality(Asking(purpose, time)')
                <= HourlyLimit + Cardinality(Workers) - 1
  <2>1. /\ IsFiniteSet(Recent(purpose, time)) /\ IsFiniteSet(Asking(purpose, time))
        /\ Cardinality(Recent(purpose, time)) \in Nat
        /\ Cardinality(Asking(purpose, time)) \in Nat
        /\ Cardinality(Workers) \in Nat
    BY <1>0, TheyAreFinite
  <2>2. Cardinality(Recent(purpose, time)) + Cardinality(Asking(purpose, time))
          <= HourlyLimit + Cardinality(Workers) - 1
    BY DEF LInv
  <2>3. Asking(purpose, time)' = Asking(purpose, time) \ {w}
    <3>1. Idle.step # "replacing"
      BY DEF Idle
    <3> QED
      BY <1>8, <3>1 DEF Asking, IsAsking
  <2>4. Recent(purpose, time)' =
          Recent(purpose, time)
            \cup {l \in {n + 1} : link.purpose = purpose
                                    /\ link.created \in time - Hour .. time}
    <3>1. Recent(purpose, time)' =
            {l \in 1 .. n + 1 : links'[l].purpose = purpose
                                  /\ links'[l].created \in time - Hour .. time}
      BY <1>7 DEF Recent, OfPurpose
    <3>2. Recent(purpose, time) =
            {l \in 1 .. n : links[l].purpose = purpose
                              /\ links[l].created \in time - Hour .. time}
      BY <1>2 DEF Recent, OfPurpose
    <3>3. 1 .. n + 1 = (1 .. n) \cup {n + 1}
      BY <1>2
    <3> QED
      BY <1>3, <1>6, <3>1, <3>2, <3>3
  <2>5. n + 1 \notin Recent(purpose, time)
    BY <1>2 DEF Recent, OfPurpose
  <2>6. CASE IsAsking(w, purpose, time)
    <3>1. Recent(purpose, time)' = Recent(purpose, time) \cup {n + 1}
      BY <1>4, <2>4, <2>6 DEF IsAsking
    <3>2. Cardinality(Recent(purpose, time)') = Cardinality(Recent(purpose, time)) + 1
      BY <2>1, <2>5, <3>1, FS_AddElement
    <3>3. Cardinality(Asking(purpose, time)') = Cardinality(Asking(purpose, time)) - 1
      BY <2>1, <2>3, <2>6, FS_RemoveElement DEF Asking
    <3> QED
      BY <2>1, <2>2, <3>2, <3>3, AccessAssumption
  <2>7. CASE ~ IsAsking(w, purpose, time)
    <3>1. Recent(purpose, time)' = Recent(purpose, time)
      BY <1>0, <1>4, <2>4, <2>7 DEF IsAsking
    <3>2. Asking(purpose, time)' = Asking(purpose, time)
      BY <2>3, <2>7 DEF Asking
    <3> QED
      BY <2>2, <3>1, <3>2
  <2> QED
    BY <2>6, <2>7
<1> QED
  BY <1>9, <1>10 DEF LInv

\* A link that is consumed keeps its purpose and its time.
LEMMA ConsumedKeeps ==
  ASSUME Tables, NEW ls, NEW l \in DOMAIN links
  PROVE  /\ Consumed(ls)[l].purpose = links[l].purpose
         /\ Consumed(ls)[l].created = links[l].created
<1>1. links[l] \in Link
  BY DEF Tables
<1>2. Consumed(ls)[l] = links[l] \/ Consumed(ls)[l] = [links[l] EXCEPT !.consumed = TRUE]
  BY DEF Consumed
<1> QED
  BY <1>1, <1>2 DEF Link

\* Only Issue starts to replace links.
LEMMA OnlyIssueStartsToReplace ==
  ASSUME HInv, NEW w \in Workers, Handle(w), ~Issue(w), ~Replace(w), ~Lock(w)
  PROVE  work'[w].step # "replacing" /\ \A v \in Workers \ {w} : work'[v] = work[v]
<1> DEFINE Done == work'[w].step # "replacing" /\ \A v \in Workers \ {w} : work'[v] = work[v]
<1>0. AreHandlers
  BY DEF HInv
<1>1. ASSUME Finish(w) PROVE Done
  BY <1>0, <1>1, FinishRests DEF Idle
<1>2. ASSUME NEW more, Continue(w, more), "step" \in DOMAIN more, more.step # "replacing"
      PROVE  Done
  BY <1>0, <1>2, ContinueSets
<1>3. ASSUME NEW s, s # "replacing", Continue(w, [step |-> s]) PROVE Done
  <2> DEFINE more == [step |-> s]
  <2>1. "step" \in DOMAIN more /\ more.step = s
    OBVIOUS
  <2> QED
    BY <1>2, <1>3, <2>1
<1>4. ASSUME NEW s, s # "replacing", NEW x,
             \/ Continue(w, [step |-> s, new |-> x]) \/ Continue(w, [step |-> s, active |-> x])
             \/ Continue(w, [step |-> s, time |-> x]) \/ Continue(w, [step |-> s, holds |-> x])
             \/ Continue(w, [step |-> s, wants |-> x])
      PROVE  Done
  <2>1. PICK more : /\ Continue(w, more)
                    /\ \/ more = [step |-> s, new |-> x] \/ more = [step |-> s, active |-> x]
                       \/ more = [step |-> s, time |-> x] \/ more = [step |-> s, holds |-> x]
                       \/ more = [step |-> s, wants |-> x]
    BY <1>4
  <2>2. "step" \in DOMAIN more /\ more.step = s
    BY <2>1
  <2> QED
    BY <1>2, <1>4, <2>1, <2>2
<1> HIDE DEF Done
<1>5. Register(w) \/ Create(w) \/ Ask(w) \/ Login(w) \/ CheckPassword(w)
        \/ GoogleInsert(w) \/ LinkGoogle(w) => Done
  BY <1>1, <1>3 DEF Register, Create, Ask, Login, CheckPassword, GoogleInsert, LinkGoogle
<1>6. Open(w) \/ Claim(w) \/ CloseOthers(w) => Done
  BY <1>1, <1>4 DEF Open, Claim, CloseOthers
<1>7. GoogleLogin(w) \/ GoogleRecover(w) \/ GoogleRelink(w) => Done
  BY <1>1, <1>3, <1>4 DEF GoogleLogin, GoogleRecover, GoogleRelink
<1>8. Verify(w) \/ Reset(w) \/ Cancel(w) \/ SignIn(w) \/ Logout(w) \/ ChangePassword(w)
        \/ PatchUser(w) \/ Attach(w) => Done
  BY <1>1 DEF Verify, Reset, Cancel, SignIn, Logout, ChangePassword, PatchUser, Attach
<1>9. Done
  BY <1>5, <1>6, <1>7, <1>8 DEF Handle
<1> QED
  BY <1>9 DEF Done

\* Only Replace adds a link.
LEMMA OnlyReplaceAddsALink ==
  ASSUME HInv, NEW w \in Workers, Handle(w), ~Replace(w)
  PROVE  /\ DOMAIN links' = DOMAIN links
         /\ \A l \in DOMAIN links : /\ links'[l].purpose = links[l].purpose
                                    /\ links'[l].created = links[l].created
<1>1. links' = links \/ \E ls : links' = Consumed(ls)
  <2>1. Register(w) \/ Create(w) \/ Ask(w) \/ Issue(w) \/ Lock(w) \/ Open(w)
          => links' = links
    BY DEF Register, Create, Ask, Issue, Lock, Open, rows
  <2>2. Claim(w) \/ CloseOthers(w) \/ Cancel(w) \/ SignIn(w) => links' = links
    BY DEF Claim, CloseOthers, Cancel, SignIn, rows
  <2>3. Verify(w) \/ Reset(w) => links' = Consumed(work[w].holds)
    BY DEF Verify, Reset
  <2>4. Login(w) \/ Logout(w) \/ CheckPassword(w) \/ ChangePassword(w) \/ PatchUser(w)
          => links' = links
    BY DEF Login, Logout, CheckPassword, ChangePassword, PatchUser, rows
  <2>5. GoogleLogin(w) \/ GoogleInsert(w) \/ GoogleRecover(w) \/ GoogleRelink(w)
          \/ LinkGoogle(w) \/ Attach(w) => links' = links
    BY DEF GoogleLogin, GoogleInsert, GoogleRecover, GoogleRelink, LinkGoogle, Attach, rows
  <2> QED
    BY <2>1, <2>2, <2>3, <2>4, <2>5 DEF Handle
<1>2. Tables
  BY DEF HInv
<1> QED
  BY <1>1, <1>2, ConsumedKeeps, ConsumedIsLinks

\* It holds after every step.
LEMMA LInvNext ==
  ASSUME HInv, LInv, Next
  PROVE  LInv'
<1>0. HInv' /\ now \in Nat /\ Tables
  BY HInvNext DEF HInv, Tables
<1>1. ASSUME now' \in now .. now + 1, links' = links, work' = work PROVE LInv'
  BY <1>0, <1>1, NoneIsAsked
<1>2. ASSUME NEW w \in Workers, NEW kind, Start(w, kind) \/ work' = work,
             now' = now, links' = links
      PROVE  LInv'
  <2>1. CASE work' = work
    BY <1>0, <1>1, <1>2, <2>1
  <2>2. CASE Start(w, kind)
    <3>1. PICK more \in Carries(kind) :
             work' = [work EXCEPT ![w] = With(more, [step |-> "admitted", kind |-> kind])]
      BY <2>2 DEF Start
    <3>2. With(more, [step |-> "admitted", kind |-> kind]).step = "admitted"
      BY DEF With
    <3>3. work'[w].step = "admitted" /\ \A v \in Workers \ {w} : work'[v] = work[v]
      BY <3>1, <3>2 DEF HInv, AreHandlers
    <3> QED
      BY <1>0, <1>2, <3>3, NoneIsAsked
  <2> QED
    BY <1>2, <2>1, <2>2
<1>3. ASSUME NEW w \in Workers, Handle(w), ~Issue(w), ~Replace(w), ~Lock(w) PROVE LInv'
  <2>1. now' = now
    BY <1>3, HandlersLeaveTheGate
  <2> QED
    BY <1>0, <1>3, <2>1, OnlyIssueStartsToReplace, OnlyReplaceAddsALink, NoneIsAsked
<1>4. ASSUME NEW w \in Workers, Lock(w) PROVE LInv'
  <2> DEFINE l == Min(work[w].wants)
             more == [holds |-> work[w].holds \cup {i \in {l} : ~links[i].consumed},
                      wants |-> work[w].wants \ {l}]
  <2>1. Continue(w, more) /\ links' = links /\ now' = now
    BY <1>4 DEF Lock, rows
  <2>2. DOMAIN more = {"holds", "wants"}
    OBVIOUS
  <2> HIDE DEF more
  <2>3. Handler(w) /\ Fields(w)
    BY <1>4 DEF HInv, Handler, Lock
  <2>4. /\ \A v \in Workers \ {w} : work'[v] = work[v]
        /\ work'[w].step = work[w].step /\ work'[w].kind = work[w].kind
        /\ work[w].step = "replacing" => work'[w].time = work[w].time
    BY <2>1, <2>2, <2>3, ContinueSets DEF Fields, HInv
  <2> QED
    BY <1>0, <2>1, <2>4, NoneIsAsked
<1>5. ASSUME NEW w \in Workers, NEW kind \in mix, Arrive(w, kind) PROVE LInv'
  BY <1>2, <1>5, PassLimiterStarts DEF Arrive, rows
<1>6. ASSUME NEW w \in Workers, NEW kind \in mix, NEW a \in sent, ArriveSigned(w, kind, a)
      PROVE  LInv'
  BY <1>2, <1>6, PassLimiterStarts DEF ArriveSigned, rows
<1>7. ASSUME \/ \E issued \in 0 .. (now + MaxFuture) : Sign(issued)
             \/ Prune \/ Tick
      PROVE  LInv'
  BY <1>0, <1>1, <1>7 DEF Sign, Prune, Tick, rows
<1> QED
  BY <1>3, <1>4, <1>5, <1>6, <1>7, IssueKeepsLInv, ReplaceKeepsLInv DEF Next

---------------------------------------------------------------------------
(* Theorems *)

Inv == HInv /\ MInv /\ WInv /\ LInv

\* The invariant, of which every theorem below is a consequence.
LEMMA InvHolds == Spec => []Inv
<1>1. Init => Inv
  BY HInvInit, MInvInit, WInvInit, LInvInit DEF Inv
<1>2. Inv /\ [Next]_vars => Inv'
  <2>1. ASSUME Inv, Next PROVE Inv'
    BY <2>1, HInvNext, MInvNext, WInvNext, LInvNext DEF Inv
  <2>2. ASSUME Inv, UNCHANGED vars PROVE Inv'
    <3>1. HInv'
      BY <2>2 DEF vars, gate, rows, Inv, HInv, Tables, AreHandlers, Apart, Locked, Handler,
                  Fields
    <3>2. MInv'
      BY <2>2 DEF vars, gate, Inv, MInv, AssertionIsAdmittedOnce
    <3>3. WInv'
      BY <2>2, LaterWInv DEF vars, gate, Inv, WInv
    <3>4. LInv'
      BY <2>2, <3>1, NoneIsAsked DEF vars, rows, Inv, HInv, Tables
    <3> QED
      BY <3>1, <3>2, <3>3, <3>4 DEF Inv
  <2> QED
    BY <2>1, <2>2
<1> QED
  BY <1>1, <1>2, PTL DEF Spec

\* The rows, the handlers and the locks are well formed in every state.
THEOREM TypesHold == Spec => []TypeOK
<1>1. Inv => TypeOK
  BY DEF Inv, HInv, Tables, Account, Handler, Apart, TypeOK
<1> QED
  BY <1>1, InvHolds, PTL

\* A signed assertion lets in one request, for every age, clock difference and
\* size of the memory (NonceReplayCache).
THEOREM AssertionsAreAdmittedOnce == Spec => []AssertionIsAdmittedOnce
<1>1. Inv => AssertionIsAdmittedOnce
  BY DEF Inv, MInv
<1> QED
  BY <1>1, InvHolds, PTL

\* The budget of an hour, from what the handlers under way have counted.
LEMMA HourIsBounded ==
  ASSUME Inv
  PROVE  LinksPerHourAreBounded
<1> SUFFICES ASSUME NEW l \in DOMAIN links
             PROVE  Cardinality(Recent(links[l].purpose, links[l].created))
                      <= HourlyLimit + Cardinality(Workers) - 1
  BY DEF LinksPerHourAreBounded, Recent
<1>1. Tables /\ now \in 0 .. MaxNow
  BY DEF Inv, HInv, Tables
<1>2. links[l].purpose \in Purposes /\ links[l].created \in 0 .. MaxNow
  BY <1>1, LinksAreLinks, AccessAssumption DEF Inv, LInv
<1>3. Cardinality(Recent(links[l].purpose, links[l].created))
        + Cardinality(Asking(links[l].purpose, links[l].created))
          <= HourlyLimit + Cardinality(Workers) - 1
  BY <1>2 DEF Inv, LInv
<1> QED
  BY <1>1, <1>3, TheyAreFinite, AccessAssumption

\* Neither the limiter's budget of a window nor, but for the requests that
\* overlap, the hour's budget of links is passed, for every number of workers,
\* limit and window.
THEOREM LimitsAreKept == Spec => []LimitsHold
<1>1. Inv => LimitsHold
  BY HourIsBounded DEF Inv, WInv, LimitsHold
<1> QED
  BY <1>1, InvHolds, PTL

\* A link that is honoured is open when its request commits, for any number of
\* requests that overlap (consume_challenge).
THEOREM OpenLinksAreHonoured == Spec => OnlyAnOpenLinkIsHonoured
<1>1. Inv /\ [Next]_vars
        => [honoured' # honoured => ~links[honoured'[Len(honoured')]].consumed]_vars
  <2> SUFFICES ASSUME Inv, Next, honoured' # honoured
               PROVE  ~links[honoured'[Len(honoured')]].consumed
    BY DEF vars
  <2>1. HInv /\ honoured \in Seq(Nat) /\ Tables
    BY DEF Inv, HInv, Tables
  <2>2. PICK w \in Workers : Verify(w) \/ Reset(w)
    <3>1. ASSUME NEW w \in Workers, Handle(w), ~Verify(w), ~Reset(w) PROVE FALSE
      <4>1. ~ (Register(w) \/ Create(w) \/ Ask(w) \/ Issue(w) \/ Lock(w) \/ Replace(w))
        BY DEF Register, Create, Ask, Issue, Lock, Replace
      <4>2. ~ (Open(w) \/ Claim(w) \/ CloseOthers(w) \/ Cancel(w) \/ SignIn(w) \/ Login(w))
        BY DEF Open, Claim, CloseOthers, Cancel, SignIn, Login
      <4>3. ~ (Logout(w) \/ CheckPassword(w) \/ ChangePassword(w) \/ PatchUser(w))
        BY DEF Logout, CheckPassword, ChangePassword, PatchUser
      <4>4. ~ (GoogleLogin(w) \/ GoogleInsert(w) \/ GoogleRecover(w) \/ GoogleRelink(w)
                 \/ LinkGoogle(w) \/ Attach(w))
        BY DEF GoogleLogin, GoogleInsert, GoogleRecover, GoogleRelink, LinkGoogle, Attach
      <4> QED
        BY <3>1, <4>1, <4>2, <4>3, <4>4 DEF Handle
    <3>2. ~Prune /\ ~Tick /\ ~ (\E issued \in 0 .. (now + MaxFuture) : Sign(issued))
      BY DEF Prune, Tick, Sign
    <3>3. \A w \in Workers, kind \in mix : ~Arrive(w, kind)
      BY DEF Arrive
    <3>4. \A w \in Workers, kind \in mix, a \in sent : ~ArriveSigned(w, kind, a)
      BY DEF ArriveSigned
    <3> QED
      BY <3>1, <3>2, <3>3, <3>4 DEF Next
  <2>3. /\ honoured' = Append(honoured, work[w].link)
        /\ work[w].link \in DOMAIN links /\ ~links[work[w].link].consumed
    BY <2>1, <2>2, LinkIsUsed
  <2>4. work[w].link \in Nat
    BY <2>1, <2>3 DEF Tables
  <2>5. honoured'[Len(honoured')] = work[w].link
    BY <2>1, <2>3, <2>4, AppendProperties
  <2> QED
    BY <2>3, <2>5
<1> QED
  BY <1>1, InvHolds, PTL DEF Spec, OnlyAnOpenLinkIsHonoured

\* How the handler of a request Google vouches for ends.
Outlives(w) ==
  ~Rests(w) /\ work[w].kind = "google" /\ work[w].authoritative /\ Rests(w)'
    => \/ sessions' # sessions
       \/ ~account.active
       \/ At(w, "relinking") /\ ~work[w].active

\* A sign-in Google vouches for is not refused because another request was
\* faster (google_login).
THEOREM GoogleSignInsOutliveRaces == Spec => GoogleSignInOutlivesARace
<1>1. Inv /\ [Next]_vars => [\A w \in Workers : Outlives(w)]_vars
  <2> SUFFICES ASSUME Inv, Next, NEW w \in Workers,
                      ~Rests(w), work[w].kind = "google", work[w].authoritative, Rests(w)',
                      sessions' = sessions, account.active,
                      ~ (At(w, "relinking") /\ ~work[w].active)
               PROVE  FALSE
    BY DEF Outlives
  <2>1. HInv /\ Tables /\ AreHandlers /\ Handler(w)
    BY DEF Inv, HInv
  <2>2. work[w].step # "idle" /\ work'[w] = Idle /\ work'[w] # work[w]
    BY <2>1 DEF Handler, Rests
  <2>3. ASSUME NEW v \in Workers, NEW kind, Rests(v), Start(v, kind) PROVE FALSE
    BY <2>2, <2>3 DEF Start, Rests
  <2>4. work' # work
    BY <2>2
  <2>5. PICK v \in Workers : Handle(v)
    BY <2>3, <2>4, PassLimiterStarts DEF Next, Arrive, ArriveSigned, Sign, Prune, Tick
  <2>6. Handle(w)
    <3>1. ASSUME v # w, Issue(v) \/ Replace(v) \/ Lock(v) PROVE work'[w] = work[w]
      BY <2>1, <3>1 DEF Issue, Replace, Lock, Finish, Continue, AreHandlers
    <3>2. ASSUME v # w, ~Issue(v), ~Replace(v), ~Lock(v) PROVE work'[w] = work[w]
      BY <2>1, <2>5, <3>2, OnlyIssueStartsToReplace
    <3> QED
      BY <2>2, <2>5, <3>1, <3>2
  <2>7. work[w].step # "admitted" => "google" \in KindsAt(work[w].step)
    BY <2>1, <2>2 DEF Handler
  <2>8. ~ (Register(w) \/ Ask(w) \/ Open(w) \/ CloseOthers(w) \/ Reset(w) \/ Login(w)
             \/ Logout(w) \/ CheckPassword(w) \/ PatchUser(w) \/ LinkGoogle(w))
    BY DEF Register, Ask, Open, CloseOthers, Reset, Login, Logout, CheckPassword, PatchUser,
           LinkGoogle
  <2>9. work[w].step \in {"admitted", "signing_in", "linking", "recovering", "relinking"}
    BY <2>1, <2>2, <2>7 DEF Handler, Steps, KindsAt, Emails, UsesLink
  <2>10. ~ (Create(w) \/ Issue(w) \/ Lock(w) \/ Replace(w) \/ Claim(w) \/ Verify(w)
              \/ ChangePassword(w) \/ Attach(w))
    BY <2>9 DEF Create, Issue, Lock, Replace, Claim, Verify, ChangePassword, Attach, At
  <2>11. ~Cancel(w)
    BY <2>9 DEF Cancel, WaitsFor, Wanted
  <2>12. ~SignIn(w)
    <3>1. sessions \in Seq(Session) /\ now \in Nat
      BY <2>1 DEF Tables
    <3>2. [expires |-> now + SessionLife, revoked |-> FALSE] \in Session
      BY <3>1, AccessAssumption DEF Session
    <3> QED
      BY <3>1, <3>2, AppendProperties DEF SignIn
  <2>13. ASSUME NEW s, s # "idle", NEW x,
                \/ Continue(w, [step |-> s]) \/ Continue(w, [step |-> s, new |-> x])
                \/ Continue(w, [step |-> s, active |-> x])
         PROVE  FALSE
    <3>1. PICK more : /\ Continue(w, more)
                      /\ \/ more = [step |-> s] \/ more = [step |-> s, new |-> x]
                         \/ more = [step |-> s, active |-> x]
      BY <2>13
    <3>2. "step" \in DOMAIN more /\ more.step = s
      BY <3>1
    <3>3. work'[w].step = s
      BY <2>1, <3>1, <3>2, ContinueSets
    <3> QED
      BY <2>2, <2>13, <3>3 DEF Idle
  <2>14. ~ (GoogleLogin(w) \/ GoogleInsert(w) \/ GoogleRecover(w) \/ GoogleRelink(w))
    BY <2>13 DEF GoogleLogin, GoogleInsert, GoogleRecover, GoogleRelink, At
  <2> QED
    BY <2>6, <2>8, <2>10, <2>11, <2>12, <2>14 DEF Handle
<1> QED
  BY <1>1, InvHolds, PTL DEF Spec, GoogleSignInOutlivesARace, Outlives
===============================================================================
