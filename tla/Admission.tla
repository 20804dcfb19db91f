------------------------------ MODULE Admission ------------------------------
(***************************************************************************)
(* What stands in front of the routes: the memory of the assertions the    *)
(* ingress signed (proxy_assertion) and the request limiter (rate_limit).  *)
(* Both live in the memory of the one worker process and are used on its   *)
(* event loop, so each use is one step.                                    *)
(***************************************************************************)
EXTENDS Integers, Sequences, FiniteSets, FiniteSetsExt

CONSTANTS
  MaxAge,     \* MAX_AGE_SECONDS of an assertion
  MaxFuture,  \* MAX_FUTURE_SECONDS its signer's clock may be ahead
  MaxNonces,  \* MAX_NONCES the memory holds
  Limit,      \* requests of one key and bucket in a window
  Window      \* rate_limit_window_seconds

ASSUME AdmissionAssumption ==
  /\ MaxAge \in Nat /\ MaxFuture \in Nat /\ MaxNonces \in Nat
  /\ Limit \in Nat \ {0} /\ Window \in Nat \ {0}

-----------------------------------------------------------------------------
(* Assertions.  An assertion is [nonce, issued]; a memory is a set of      *)
(* [nonce, deadline], the dictionary and the heap of NonceReplayCache,     *)
(* which hold the same entries: a nonce is not entered again while it is   *)
(* in the dictionary.                                                      *)

\* The time test of ProxyAssertionMiddleware.
InTime(assertion, now) ==
  now - MaxAge <= assertion.issued /\ assertion.issued <= now + MaxFuture

\* Mutant of Remembered: forgotten a second early.
RememberedShort(memory, now) == {m \in memory : m.deadline > now}

\* consume drops what is past its deadline before it looks.
Remembered(memory, now) == {m \in memory : m.deadline >= now}

IsNew(assertion, memory, now) ==
  LET kept == Remembered(memory, now) IN
    /\ assertion.nonce \notin {m.nonce : m \in kept}
    /\ Cardinality(kept) < MaxNonces

Remember(assertion, memory, now) ==
  Remembered(memory, now)
    \cup {[nonce |-> assertion.nonce, deadline |-> assertion.issued + MaxAge]}

-----------------------------------------------------------------------------
(* The limiter.  events are the times of the admitted requests of one key. *)

\* The first loop of FixedWindowLimiter.consume drops events from the left up
\* to the first that is still in the window.
InWindow(events, now) ==
  LET fresh == {i \in DOMAIN events : events[i] > now - Window} IN
    IF fresh = {} THEN <<>> ELSE SubSeq(events, Min(fresh), Len(events))

HasRoom(events, now) == Len(InWindow(events, now)) < Limit

\* _prune forgets a key whose last event has left the window.
IsStale(events, now) == events = <<>> \/ events[Len(events)] <= now - Window
=============================================================================
