------------------------------- MODULE Access --------------------------------
(***************************************************************************)
(* One account, its sessions, its emailed links and its Google identity,   *)
(* under requests that overlap.                                            *)
(*                                                                         *)
(* A request is admitted (Admission), then its handler runs on a worker    *)
(* thread with a database session of its own: what it reads may be old     *)
(* when it writes.  The database is PostgreSQL at READ COMMITTED: an       *)
(* UPDATE takes its rows one at a time in the order of the table, waits    *)
(* for a row another transaction holds, tests its WHERE again when it gets *)
(* the row, and keeps it until COMMIT; of two transactions that wait for   *)
(* each other the database cancels one.                                    *)
(***************************************************************************)
EXTENDS Admission

CONSTANTS
  Workers,     \* handlers at work at the same time
  Mixes,       \* the kinds of request that meet: one of these sets in a behaviour
  SignedKinds, \* those in play when the ingress signs every request
  Passwords,
  NoPassword,  \* password_hash IS NULL
  LinkLife,    \* verification_ttl_minutes, password_reset_ttl_minutes
  Cooldown,    \* auth_token_cooldown_seconds
  Hour,        \* the hour of hourly_limit
  HourlyLimit, \* auth_token_hourly_limit
  SessionLife, \* session_ttl_hours
  MaxRequests, \* bound on requests
  MaxNow       \* bound on the clock

ASSUME AccessAssumption ==
  /\ IsFiniteSet(Workers)
  /\ Passwords # {} /\ NoPassword \notin Passwords
  /\ LinkLife \in Nat /\ Cooldown \in Nat /\ Hour \in Nat
  /\ HourlyLimit \in Nat \ {0} /\ SessionLife \in Nat
  /\ MaxRequests \in Nat /\ MaxNow \in Nat

Purposes == {"verify_email", "reset_password"}

\* The purpose of the link a request asks for, or carries.
PurposeOf(kind) ==
  IF kind \in {"register", "resend_verification", "verify_email"}
    THEN "verify_email" ELSE "reset_password"

\* _rule: the requests counted in the "auth" bucket.
Counted == {"register", "resend_verification", "forgot_password", "reset_password",
            "login", "google"}

VARIABLES
  mode,     \* proxy_mode
  mix,      \* the kinds of request in play
  now,      \* seconds
  memory,   \* the nonces NonceReplayCache remembers
  sent,     \* assertions the ingress signed, which the network may repeat
  events,   \* the limiter's times for the one client
  account,  \* the users row and whether Google is linked
  links,    \* auth_challenges, by id
  inbox,    \* links whose email arrived
  sessions, \* the sessions table, by id
  work,     \* the handler of each worker
  left,     \* requests still to come
  entered,  \* history: the assertions admitted
  counted,  \* history: the times of the counted requests let through in the last window
  honoured  \* history: the links that had their effect, in that order

gate == <<mode, mix, memory, sent, events, left, entered, counted>>
rows == <<account, links, inbox, sessions>>
vars == <<gate, now, rows, work, honoured>>
-----------------------------------------------------------------------------
(* Rows *)

Absent == [exists |-> FALSE, verified |-> FALSE, active |-> FALSE,
           password |-> NoPassword, google |-> FALSE]

\* The account at the start: none, one whose email is not verified, one signed in.
Unverified == [Absent EXCEPT !.exists = TRUE, !.active = TRUE,
                             !.password = CHOOSE p \in Passwords : TRUE]
Member == [Unverified EXCEPT !.verified = TRUE]
Accounts == {Absent, Unverified, Member}

Live(l, time) == ~links[l].consumed /\ links[l].expires > time

OfPurpose(purpose) == {l \in DOMAIN links : links[l].purpose = purpose}

Idle == [step |-> "idle"]

\* The links worker w has locked.
Locked(w) == IF work[w].step \in {"claimed", "closing", "replacing"} THEN work[w].holds ELSE {}

Free(l, w) == \A v \in Workers \ {w} : l \notin Locked(v)

\* The next row the UPDATE of w has to lock.
Wanted(w) ==
  IF work[w].step = "claiming" THEN {work[w].link}
  ELSE IF work[w].step \in {"closing", "replacing"} /\ work[w].wants # {}
    THEN {Min(work[w].wants)} ELSE {}

WaitsFor(w, v) == v # w /\ Wanted(w) \cap Locked(v) # {}

\* The request is answered.
Finish(w) == work' = [work EXCEPT ![w] = Idle]

\* A handler's record with some of its fields set.
With(handler, more) ==
  [f \in DOMAIN handler \cup DOMAIN more |->
     IF f \in DOMAIN more THEN more[f] ELSE handler[f]]

Continue(w, more) == work' = [work EXCEPT ![w] = With(@, more)]

-----------------------------------------------------------------------------
(* Arrival *)

Rests(w) == work[w] = Idle

Carries(kind) ==
  CASE kind \in {"verify_email", "reset_password"} ->
         {[link |-> l] : l \in {i \in inbox : links[i].purpose = PurposeOf(kind)}}
    [] kind \in {"logout", "link_google"} -> {[session |-> s] : s \in DOMAIN sessions}
    [] kind = "change_password" ->
         {[session |-> s, password |-> p] : s \in DOMAIN sessions, p \in Passwords}
    [] kind = "login" -> {[password |-> p] : p \in Passwords}
    [] kind = "google" -> {[authoritative |-> b] : b \in BOOLEAN}
    [] kind = "patch_user" -> {[active |-> b] : b \in BOOLEAN}
    [] OTHER -> {[link |-> 0]}

Start(w, kind) ==
  \E more \in Carries(kind) :
    work' = [work EXCEPT ![w] = With(more, [step |-> "admitted", kind |-> kind])]

\* ResourceLimitMiddleware: a refused request reaches no handler.
PassLimiter(w, kind) ==
  IF kind \notin Counted THEN Start(w, kind) /\ UNCHANGED <<events, counted>>
  ELSE IF HasRoom(events, now)
    THEN /\ Start(w, kind)
         /\ events' = Append(InWindow(events, now), now)
         /\ counted' = Append(InWindow(counted, now), now)
    ELSE events' = InWindow(events, now) /\ UNCHANGED <<work, counted>>

\* proxy_mode "direct".
Arrive(w, kind) ==
  /\ mode = "direct" /\ left > 0 /\ Rests(w) /\ kind \in mix
  /\ left' = left - 1
  /\ PassLimiter(w, kind)
  /\ UNCHANGED <<mode, mix, now, memory, sent, entered, rows, honoured>>

\* The ingress signs a request by its own clock.
Sign(issued) ==
  /\ mode = "pages_signed" /\ left > 0
  /\ left' = left - 1
  /\ sent' = sent \cup {[nonce |-> Cardinality(sent) + 1, issued |-> issued]}
  /\ UNCHANGED <<mode, mix, now, memory, events, entered, counted, rows, work, honoured>>

\* ProxyAssertionMiddleware: a signed request arrives, perhaps not for the
\* first time.
ArriveSigned(w, kind, assertion) ==
  /\ Rests(w) /\ kind \in mix
  /\ InTime(assertion, now)
  /\ IF IsNew(assertion, memory, now)
       THEN /\ memory' = Remember(assertion, memory, now)
            /\ entered' = Append(entered, assertion)
            /\ PassLimiter(w, kind)
       ELSE /\ memory' = Remembered(memory, now)
            /\ UNCHANGED <<entered, events, counted, work>>
  /\ UNCHANGED <<mode, mix, now, sent, left, rows, honoured>>

\* Another key's request prunes the keys that fell idle.
Prune ==
  /\ events # <<>> /\ IsStale(events, now)
  /\ events' = <<>>
  /\ UNCHANGED <<mode, mix, memory, sent, left, entered, counted, now, rows, work, honoured>>

-----------------------------------------------------------------------------
(* Emailed links *)

\* Mutant of Throttled: one link more.
ThrottledLater(purpose, time) ==
  LET created == {links[l].created : l \in OfPurpose(purpose)} IN
    \/ Cooldown > 0 /\ \E t \in created : t > time - Cooldown
    \/ Cardinality({l \in OfPurpose(purpose) : links[l].created >= time - Hour})
         > HourlyLimit

\* The latest link of the purpose is too young, or the hour has too many.
Throttled(purpose, time) ==
  LET created == {links[l].created : l \in OfPurpose(purpose)} IN
    \/ Cooldown > 0 /\ \E t \in created : t > time - Cooldown
    \/ Cardinality({l \in OfPurpose(purpose) : links[l].created >= time - Hour})
         >= HourlyLimit

\* What register, resend_verification and forgot_password look for before
\* they issue a link.
IsEligible(kind) ==
  account.exists /\ account.active /\ account.verified = (kind = "forgot_password")

At(w, step) == work[w].step = step

\* register: the account is new, or one that may still need its link.
Register(w) ==
  /\ At(w, "admitted") /\ work[w].kind = "register"
  /\ IF ~account.exists THEN Continue(w, [step |-> "creating"])
     ELSE IF IsEligible("register") THEN Continue(w, [step |-> "issuing"])
     ELSE Finish(w)
  /\ UNCHANGED <<gate, now, rows, honoured>>

\* Mutant of Create: after a conflict it tries the same INSERT again.
CreateAgain(w) ==
  /\ At(w, "creating")
  /\ IF ~account.exists
       THEN \E p \in Passwords :
              /\ account' = [exists |-> TRUE, verified |-> FALSE, active |-> TRUE,
                             password |-> p, google |-> FALSE]
              /\ Continue(w, [step |-> "issuing"])
       ELSE UNCHANGED <<account, work>>
  /\ UNCHANGED <<gate, now, links, inbox, sessions, honoured>>

\* The INSERT; when another request was faster the row it made is used.
Create(w) ==
  /\ At(w, "creating")
  /\ IF ~account.exists
       THEN \E p \in Passwords :
              /\ account' = [exists |-> TRUE, verified |-> FALSE, active |-> TRUE,
                             password |-> p, google |-> FALSE]
              /\ Continue(w, [step |-> "issuing"])
       ELSE /\ IF IsEligible("register") THEN Continue(w, [step |-> "issuing"])
                                        ELSE Finish(w)
            /\ UNCHANGED account
  /\ UNCHANGED <<gate, now, links, inbox, sessions, honoured>>

\* resend_verification and forgot_password: the answer is the same for all.
Ask(w) ==
  /\ At(w, "admitted") /\ work[w].kind \in {"resend_verification", "forgot_password"}
  /\ IF IsEligible(work[w].kind) THEN Continue(w, [step |-> "issuing"])
                                 ELSE Finish(w)
  /\ UNCHANGED <<gate, now, rows, honoured>>

\* issue_challenge up to its UPDATE, whose rows are found as it starts.
Issue(w) ==
  /\ At(w, "issuing")
  /\ LET purpose == PurposeOf(work[w].kind) IN
       IF Throttled(purpose, now) THEN Finish(w)
       ELSE Continue(w, [step |-> "replacing", time |-> now, holds |-> {},
                         wants |-> {l \in OfPurpose(purpose) : Live(l, now)}])
  /\ UNCHANGED <<gate, now, rows, honoured>>

\* The UPDATE gets its next row, and keeps it if it is still to be consumed.
Lock(w) ==
  /\ work[w].step \in {"replacing", "closing"} /\ work[w].wants # {}
  /\ LET l == Min(work[w].wants)
         still == {i \in {l} : ~links[i].consumed} IN
       /\ Free(l, w)
       /\ Continue(w, [holds |-> work[w].holds \cup still, wants |-> work[w].wants \ {l}])
  /\ UNCHANGED <<gate, now, rows, honoured>>

Consumed(ls) == [l \in DOMAIN links |->
                   IF l \in ls THEN [links[l] EXCEPT !.consumed = TRUE] ELSE links[l]]

\* issue_challenge commits, then the email is sent or its delivery fails.
Replace(w) ==
  /\ At(w, "replacing") /\ work[w].wants = {}
  /\ links' = Append(Consumed(work[w].holds),
                     [purpose |-> PurposeOf(work[w].kind), created |-> work[w].time,
                      expires |-> work[w].time + LinkLife, consumed |-> FALSE])
  /\ \/ inbox' = inbox \cup {Len(links) + 1} /\ Finish(w)
     \/ UNCHANGED inbox /\ Finish(w)
  /\ UNCHANGED <<gate, now, account, sessions, honoured>>

\* consume_challenge reads the clock and starts its UPDATE.
Open(w) ==
  /\ At(w, "admitted") /\ work[w].kind \in {"verify_email", "reset_password"}
  /\ Continue(w, [step |-> "claiming", time |-> now])
  /\ UNCHANGED <<gate, now, rows, honoured>>

\* Mutant of Claim: tested by a SELECT, which waits for nobody.
ClaimUnlocked(w) ==
  /\ At(w, "claiming")
  /\ IF Live(work[w].link, work[w].time)
       THEN Continue(w, [step |-> "claimed", holds |-> {work[w].link}])
       ELSE Finish(w)
  /\ UNCHANGED <<gate, now, rows, honoured>>

\* The UPDATE gets the row and tests it again.
Claim(w) ==
  /\ At(w, "claiming") /\ Free(work[w].link, w)
  /\ IF Live(work[w].link, work[w].time)
       THEN Continue(w, [step |-> "claimed", holds |-> {work[w].link}])
       ELSE Finish(w)
  /\ UNCHANGED <<gate, now, rows, honoured>>

\* verify_email starts to consume the account's other links.
CloseOthers(w) ==
  /\ At(w, "claimed") /\ work[w].kind = "verify_email"
  /\ Continue(w, [step |-> "closing",
                  wants |-> {l \in OfPurpose("verify_email") : ~links[l].consumed}
                              \ work[w].holds])
  /\ UNCHANGED <<gate, now, rows, honoured>>

Verify(w) ==
  /\ At(w, "closing") /\ work[w].wants = {}
  /\ links' = Consumed(work[w].holds)
  /\ account' = [account EXCEPT !.verified = TRUE]
  /\ honoured' = Append(honoured, work[w].link)
  /\ Finish(w)
  /\ UNCHANGED <<gate, now, inbox, sessions>>

Revoked(ss) == [s \in DOMAIN sessions |->
                  IF s \in ss THEN [sessions[s] EXCEPT !.revoked = TRUE] ELSE sessions[s]]

\* reset_password: the password, every session (revoke_all_sessions) and the
\* link in one transaction.
Reset(w) ==
  /\ At(w, "claimed") /\ work[w].kind = "reset_password"
  /\ links' = Consumed(work[w].holds)
  /\ \E p \in Passwords : account' = [account EXCEPT !.password = p]
  /\ sessions' = Revoked(DOMAIN sessions)
  /\ honoured' = Append(honoured, work[w].link)
  /\ Finish(w)
  /\ UNCHANGED <<gate, now, inbox>>

\* The database cancels one of two transactions that wait for each other.
Cancel(w) ==
  /\ \E v \in Workers : WaitsFor(w, v) /\ WaitsFor(v, w)
  /\ Finish(w)
  /\ UNCHANGED <<gate, now, rows, honoured>>

-----------------------------------------------------------------------------
(* Sessions *)

\* resolve_session_user: the session is live and its account active.
IsSignedIn(w) ==
  LET s == sessions[work[w].session] IN
    ~s.revoked /\ s.expires > now /\ account.active

\* create_session.
SignIn(w) ==
  /\ At(w, "signing_in")
  /\ sessions' = Append(sessions, [expires |-> now + SessionLife, revoked |-> FALSE])
  /\ Finish(w)
  /\ UNCHANGED <<gate, now, account, links, inbox, honoured>>

Login(w) ==
  /\ At(w, "admitted") /\ work[w].kind = "login"
  /\ IF account.exists /\ account.password = work[w].password
          /\ account.active /\ account.verified
       THEN Continue(w, [step |-> "signing_in"])
       ELSE Finish(w)
  /\ UNCHANGED <<gate, now, rows, honoured>>

\* logout: revoke_session asks neither for a live session nor an active account.
Logout(w) ==
  /\ At(w, "admitted") /\ work[w].kind = "logout"
  /\ sessions' = Revoked({work[w].session})
  /\ Finish(w)
  /\ UNCHANGED <<gate, now, account, links, inbox, honoured>>

\* change_password reads the account with its session, and compares with that.
CheckPassword(w) ==
  /\ At(w, "admitted") /\ work[w].kind = "change_password"
  /\ IF IsSignedIn(w) /\ account.password = work[w].password
       THEN Continue(w, [step |-> "changing"])
       ELSE Finish(w)
  /\ UNCHANGED <<gate, now, rows, honoured>>

\* It keeps the session that carries the request.
ChangePassword(w) ==
  /\ At(w, "changing")
  /\ \E p \in Passwords : account' = [account EXCEPT !.password = p]
  /\ sessions' = Revoked(DOMAIN sessions \ {work[w].session})
  /\ Finish(w)
  /\ UNCHANGED <<gate, now, links, inbox, honoured>>

\* patch_user by an administrator.
PatchUser(w) ==
  /\ At(w, "admitted") /\ work[w].kind = "patch_user"
  /\ IF ~account.exists THEN Finish(w) /\ UNCHANGED <<account, sessions>>
     ELSE /\ account' = [account EXCEPT !.active = work[w].active]
          /\ sessions' = IF work[w].active THEN sessions ELSE Revoked(DOMAIN sessions)
          /\ Finish(w)
  /\ UNCHANGED <<gate, now, links, inbox, honoured>>

-----------------------------------------------------------------------------
(* Google.  One Google identity, with the account's email. *)

\* google_login: authoritative when Google vouches for the email's domain.
GoogleLogin(w) ==
  /\ At(w, "admitted") /\ work[w].kind = "google"
  /\ IF account.google /\ account.active THEN Continue(w, [step |-> "signing_in"])
     ELSE IF account.exists /\ (account.google \/ ~account.active \/ ~work[w].authoritative)
       THEN Finish(w)
     ELSE Continue(w, [step |-> "linking", new |-> ~account.exists])
  /\ UNCHANGED <<gate, now, rows, honoured>>

\* The INSERTs; a unique key another request took first makes them fail.
GoogleInsert(w) ==
  /\ At(w, "linking")
  /\ IF work[w].new /\ ~account.exists
       THEN /\ account' = [exists |-> TRUE, verified |-> TRUE, active |-> TRUE,
                           password |-> NoPassword, google |-> TRUE]
            /\ Continue(w, [step |-> "signing_in"])
     ELSE IF ~work[w].new /\ ~account.google
       THEN /\ account' = [account EXCEPT !.verified = TRUE, !.google = TRUE]
            /\ Continue(w, [step |-> "signing_in"])
     ELSE Continue(w, [step |-> "recovering"]) /\ UNCHANGED account
  /\ UNCHANGED <<gate, now, links, inbox, sessions, honoured>>

\* Mutant of GoogleRecover: no second try.
GoogleGivesUp(w) ==
  /\ At(w, "recovering")
  /\ IF account.google /\ account.active THEN Continue(w, [step |-> "signing_in"])
                                         ELSE Finish(w)
  /\ UNCHANGED <<gate, now, rows, honoured>>

\* After the rollback it looks again for the identity, then for the email.
GoogleRecover(w) ==
  /\ At(w, "recovering")
  /\ IF account.google
       THEN IF account.active THEN Continue(w, [step |-> "signing_in"])
                              ELSE Finish(w)
       ELSE IF work[w].authoritative
         THEN Continue(w, [step |-> "relinking", active |-> account.active])
         ELSE Finish(w)
  /\ UNCHANGED <<gate, now, rows, honoured>>

\* Its second INSERT; when that fails too, the identity is there.
GoogleRelink(w) ==
  /\ At(w, "relinking")
  /\ LET active == IF account.google THEN account.active ELSE work[w].active IN
       IF active THEN Continue(w, [step |-> "signing_in"]) ELSE Finish(w)
  /\ account' = [account EXCEPT !.google = TRUE]
  /\ UNCHANGED <<gate, now, links, inbox, sessions, honoured>>

\* link_google from the account settings.
LinkGoogle(w) ==
  /\ At(w, "admitted") /\ work[w].kind = "link_google"
  /\ IF IsSignedIn(w) /\ ~account.google THEN Continue(w, [step |-> "attaching"])
                                         ELSE Finish(w)
  /\ UNCHANGED <<gate, now, rows, honoured>>

Attach(w) ==
  /\ At(w, "attaching")
  /\ account' = [account EXCEPT !.google = TRUE]
  /\ Finish(w)
  /\ UNCHANGED <<gate, now, links, inbox, sessions, honoured>>

-----------------------------------------------------------------------------
Tick ==
  /\ now < MaxNow
  /\ now' = now + 1
  /\ UNCHANGED <<gate, rows, work, honoured>>

Init ==
  /\ mode \in {"direct", "pages_signed"}
  /\ mix \in IF mode = "direct" THEN Mixes ELSE {SignedKinds}
  /\ now = 0 /\ memory = {} /\ sent = {} /\ events = <<>>
  /\ account \in Accounts
  /\ links = <<>> /\ inbox = {}
  /\ sessions = IF account = Member THEN <<[expires |-> SessionLife, revoked |-> FALSE]>>
                                    ELSE <<>>
  /\ work = [w \in Workers |-> Idle]
  /\ left = MaxRequests
  /\ entered = <<>> /\ counted = <<>> /\ honoured = <<>>

Handle(w) ==
  \/ Register(w) \/ Create(w) \/ Ask(w) \/ Issue(w) \/ Lock(w) \/ Replace(w)
  \/ Open(w) \/ Claim(w) \/ CloseOthers(w) \/ Verify(w) \/ Reset(w) \/ Cancel(w)
  \/ SignIn(w) \/ Login(w) \/ Logout(w) \/ CheckPassword(w) \/ ChangePassword(w)
  \/ PatchUser(w) \/ GoogleLogin(w) \/ GoogleInsert(w) \/ GoogleRecover(w)
  \/ GoogleRelink(w) \/ LinkGoogle(w) \/ Attach(w)

Next ==
  \/ \E w \in Workers : Handle(w) \/ \E kind \in mix : Arrive(w, kind)
  \/ \E issued \in 0 .. (now + MaxFuture) : Sign(issued)
  \/ \E w \in Workers, kind \in mix, a \in sent : ArriveSigned(w, kind, a)
  \/ Prune
  \/ Tick

\* The server's threads go on, and the database does not leave two
\* transactions waiting for each other.
Spec == Init /\ [][Next]_vars /\ \A w \in Workers : WF_vars(Handle(w))
-----------------------------------------------------------------------------
(* Properties *)

Steps == {"idle", "admitted", "creating", "issuing", "replacing", "claiming",
          "claimed", "closing", "signing_in", "changing", "linking", "recovering",
          "relinking", "attaching"}

TypeOK ==
  /\ account \in [exists : BOOLEAN, verified : BOOLEAN, active : BOOLEAN,
                  password : Passwords \cup {NoPassword}, google : BOOLEAN]
  /\ now \in 0 .. MaxNow /\ left \in 0 .. MaxRequests
  /\ inbox \subseteq DOMAIN links
  /\ \A w \in Workers : work[w].step \in Steps
  /\ \A w, v \in Workers : w # v => Locked(w) \cap Locked(v) = {}

\* A signed assertion lets one request in, however often the network repeats
\* it, and at every second of its life (NonceReplayCache).
AssertionIsAdmittedOnce ==
  \A i, j \in DOMAIN entered : entered[i].nonce = entered[j].nonce => i = j

\* No window of the limiter's length sees more than the limit, whatever keys
\* are pruned meanwhile: the request Limit places before one of the counted
\* requests is a window older (FixedWindowLimiter).
WindowBudget ==
  \A i \in DOMAIN counted : i > Limit => counted[i - Limit] <= counted[i] - Window

\* An emailed link has its effect only while it is open: not used, not replaced
\* and not closed by another request up to the moment its own request commits
\* (consume_challenge).
OnlyAnOpenLinkIsHonoured ==
  [][honoured' # honoured => ~links[honoured'[Len(honoured')]].consumed]_vars

\* The hourly limit of links holds up to the requests that overlap
\* (issue_challenge counts before it inserts).
LinksPerHourAreBounded ==
  \A l \in DOMAIN links :
    Cardinality({i \in OfPurpose(links[l].purpose) :
                   links[i].created \in links[l].created - Hour .. links[l].created})
      <= HourlyLimit + Cardinality(Workers) - 1

\* Neither limit is ever passed: not by requests that meet at the edge of a
\* window, and not by requests that overlap by more than their number
\* (FixedWindowLimiter, issue_challenge).
LimitsHold == WindowBudget /\ LinksPerHourAreBounded

\* A sign-in Google vouches for ends with a session: it is not refused because
\* another request made the account or linked the identity first, only because
\* the account is inactive as it last read it (google_login's two retries).
GoogleSignInOutlivesARace ==
  [][\A w \in Workers :
       ~Rests(w) /\ work[w].kind = "google" /\ work[w].authoritative /\ Rests(w)'
         => \/ sessions' # sessions
            \/ ~account.active
            \/ At(w, "relinking") /\ ~work[w].active]_vars

\* Every admitted request is answered, also when two of them wait for each
\* other's links.
EveryRequestIsAnswered == \A w \in Workers : (~Rests(w)) ~> Rests(w)
=============================================================================
