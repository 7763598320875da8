----------------------------- MODULE HostTable -----------------------------
(***************************************************************************)
(* What a routing table promises: every host pattern has at most one       *)
(* owner; a name takes patterns that are all free, in one step, and gives  *)
(* all of its patterns back in one step.                                   *)
(***************************************************************************)
CONSTANTS Claimants, Patterns, NoOne

VARIABLE owner      \* of each pattern, the name it belongs to, or NoOne

Init == owner = [d \in Patterns |-> NoOne]

Claim(n, ds) ==
    /\ \A d \in ds : owner[d] = NoOne
    /\ owner' = [d \in Patterns |-> IF d \in ds THEN n ELSE owner[d]]

Release(n) == owner' = [d \in Patterns |-> IF owner[d] = n THEN NoOne ELSE owner[d]]

Next == \E n \in Claimants : Release(n) \/ \E ds \in SUBSET Patterns : Claim(n, ds)

Spec == Init /\ [][Next]_owner
=============================================================================
