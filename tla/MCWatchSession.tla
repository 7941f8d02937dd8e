----------------------------- MODULE MCWatchSession -----------------------------
(* WatchSession for TLC: two channels on one relay, with two failures and a       *)
(* refusal, two events and a dropped connection, or one failure over more calls.  *)
EXTENDS WatchSession

Plan(events, failures, refusals, changes, drops) ==
    [events |-> events, failures |-> failures, refusals |-> refusals, changes |-> changes, drops |-> drops]

MCPlans == {Plan(1, 2, 1, 2, 0), Plan(2, 1, 0, 2, 1), Plan(0, 1, 0, 3, 0)}
================================================================================
