---------------------------- MODULE MCConnectivity ----------------------------
EXTENDS Connectivity

Plan(l, app, jobs, reads, links, slow, sends, focus, fails, stops) ==
    [link |-> l, app |-> app, jobs |-> jobs, reads |-> reads, links |-> links, slow |-> slow,
     sends |-> sends, focus |-> focus, fails |-> fails, stops |-> stops]
MCPlans == {Plan("up", FALSE, 0, 3, 2, 1, 0, 0, 0, 1), Plan("off", TRUE, 1, 0, 1, 0, 1, 0, 1, 0),
            Plan("captive", TRUE, 0, 1, 1, 1, 1, 1, 0, 0), Plan("captive", FALSE, 2, 0, 2, 0, 0, 0, 1, 1),
            Plan("up", FALSE, 1, 1, 1, 0, 1, 0, 0, 1)}
================================================================================
