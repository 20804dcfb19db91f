---------------------------- MODULE ServiceLine ----------------------------
(***************************************************************************)
(* What a shared line promises its customers, whatever counters, breaks    *)
(* and staffing serve it: they are taken in the order they came, a service *)
(* once begun is finished, nobody is lost or counted twice, nobody comes   *)
(* after closing, and only those in line at closing may stay unserved.     *)
(*                                                                         *)
(* A step is one instant at the counters: services end, customers come,    *)
(* and the first few of the line begin their service.                      *)
(***************************************************************************)
EXTENDS Integers, Sequences, FiniteSets, Functions

CONSTANT Customers   \* natural numbers, in order of arrival

VARIABLES
  coming,     \* customers not yet there
  line,       \* waiting customers, the first one first
  serving,    \* customers at a counter
  departed,   \* customers whose service ended
  unserved,   \* customers sent away at closing
  closed      \* closing time has passed

vars == <<coming, line, serving, departed, unserved, closed>>

Init ==
  /\ coming = Customers
  /\ line = <<>>
  /\ serving = {} /\ departed = {} /\ unserved = {}
  /\ closed = FALSE

\* The first n customers of queue begin, those in done have left.
Moved(queue, n, done) ==
  /\ serving' = (serving \ done) \cup Range(SubSeq(queue, 1, n))
  /\ departed' = departed \cup done
  /\ line' = SubSeq(queue, n + 1, Len(queue))

\* The next k customers come, at one instant.
Come(k) ==
  /\ ~closed
  /\ \E next \in [1 .. k -> coming] :
       /\ \A i, j \in 1 .. k : i < j => next[i] < next[j]
       /\ \A c \in coming \ Range(next) : \A i \in 1 .. k : next[i] < c
       /\ coming' = coming \ Range(next)
       /\ \E done \in SUBSET serving, n \in 0 .. Len(line) + k : Moved(line \o next, n, done)
  /\ UNCHANGED <<unserved, closed>>

Serve ==
  /\ \E done \in SUBSET serving, n \in 0 .. Len(line) : Moved(line, n, done)
  /\ UNCHANGED <<coming, unserved, closed>>

\* Everyone in line goes on waiting for a counter, or everyone is sent away.
Close ==
  /\ ~closed
  /\ coming = {}
  /\ closed' = TRUE
  /\ \E done \in SUBSET serving :
       \/ /\ \E n \in 0 .. Len(line) : Moved(line, n, done)
          /\ UNCHANGED unserved
       \/ /\ unserved' = unserved \cup Range(line)
          /\ serving' = serving \ done
          /\ departed' = departed \cup done
          /\ line' = <<>>
  /\ UNCHANGED coming

Next == (\E k \in 1 .. Cardinality(Customers) : Come(k)) \/ Serve \/ Close

Spec == Init /\ [][Next]_vars
=============================================================================
