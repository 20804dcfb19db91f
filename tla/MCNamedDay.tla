----------------------------- MODULE MCNamedDay -----------------------------
(* Small rosters of NamedDay, every day of which is played back and paid.   *)
EXTENDS NamedAccounts

MCPrices == [regular |-> 1, overtime |-> 2, waiting |-> 10, unserved |-> 100]

MCNeeded == <<[start |-> 0, finish |-> 3, servers |-> 1], [start |-> 3, finish |-> 5, servers |-> 2]>>
=============================================================================
