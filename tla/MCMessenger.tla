------------------------------ MODULE MCMessenger ------------------------------
EXTENDS Messenger

(* One fault per behaviour, and a pause over a failing store; a second cut has a run of its own. *)
Calm == [time |-> 3, events |-> 1, cuts |-> 0, pauses |-> 0, faults |-> 0, fails |-> 0, crashes |-> 0,
         changes |-> 0, offline |-> 0, high |-> 9]

MCPlans == {[Calm EXCEPT !.cuts = 1], [Calm EXCEPT !.fails = 1], [Calm EXCEPT !.crashes = 1],
            [Calm EXCEPT !.time = 2, !.pauses = 1], [Calm EXCEPT !.time = 2, !.faults = 1],
            [Calm EXCEPT !.time = 1, !.pauses = 1, !.faults = 1],
            [Calm EXCEPT !.time = 2, !.changes = 1], [Calm EXCEPT !.time = 2, !.offline = 1],
            [Calm EXCEPT !.events = 2, !.high = 1]}

RecutPlans == {[Calm EXCEPT !.time = 2, !.cuts = 2]}
================================================================================
