--------------------------- MODULE MCSessionOutbox ---------------------------
(* Instances of SessionOutbox: entry 1 is a self message, 2 a message of one  *)
(* event, 3 a message after its context event.  A plan says which of them a   *)
(* behaviour offers and which faults it may see, how many.                    *)
EXTENDS SessionOutbox

MCLength == [e \in Entries |-> IF e = 3 THEN 2 ELSE 1]

Plan(offered, recover, kinds, left) ==
    [offered |-> offered, recover |-> recover, faults |-> kinds, left |-> left]

(* One message and any two faults of a kind; a message after its context       *)
(* event, or a self message beside a remote one, and any one.                 *)
SafetyPlans ==
    {Plan({2}, TRUE, {"crash", "cancel"}, 2),
     Plan({2}, TRUE, {"pause", "send", "retry"}, 2),
     Plan({2}, FALSE, {"lock", "close", "write"}, 1),
     Plan({3}, TRUE, {"crash", "pause", "write"}, 1),
     Plan({1}, FALSE, {"close", "lock", "put", "local", "denied", "blocked", "retry"}, 2),
     Plan({1, 2}, FALSE, {"put", "local", "denied", "blocked"}, 1)}

SettlingPlans ==
    {Plan({3}, TRUE, {"crash", "pause", "local", "archive", "send"}, 1)}

ClosePlans == {Plan({2}, TRUE, {"close"}, 1)}
LockPlans == {Plan({2}, TRUE, {"lock"}, 1)}
FailingWritePlans == {Plan({3}, TRUE, {"write"}, 1)}
================================================================================
