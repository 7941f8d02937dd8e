------------------------------ MODULE MCSendRace ------------------------------
(* Single publications for TLC, for what SendRace is found to break: see the README. *)
(* MCServices checks what holds of it.                                              *)
EXTENDS SendRace
CONSTANTS A, B, x, y, f, m, s1, s2
Plan(primary, fallback, mirrors, early, sends, answers) ==
    [primary |-> primary, fallback |-> fallback, mirrors |-> mirrors, early |-> early, explicit |-> FALSE,
     sends |-> sends, follows |-> {}, prepared |-> {FALSE}, answers |-> answers, resigns |-> "never", interrupts |-> 0, cools |-> 0,
     open |-> {}]
Only(p) == [q \in Receivers |-> IF q = A THEN p ELSE {}]
Both(p, q) == [r \in Receivers |-> IF r = A THEN p ELSE q]

(* Two receivers with different primary relays and a prepared publication, which is handed over whole. *)
PartialPlans == {[Plan(Both({x}, {x, y}), {f}, {}, TRUE, {s1}, {"ok", "down"}) EXCEPT !.prepared = {TRUE}]}

(* An event that has to be signed again while the send is interrupted. *)
ReportPlans == {[Plan(Only({x, y}), {y, f}, {}, TRUE, {s1}, {"ok", "refused", "native"}) EXCEPT !.interrupts = 1, !.resigns = "may fail"]}

(* Two sends, one of which finds a circuit open. *)
CircuitPlans == {[Plan(Only({x, y}), {f}, {}, FALSE, {s1, s2}, {"ok", "refused", "down"}) EXCEPT !.cools = 1, !.open = {x}]}
================================================================================
