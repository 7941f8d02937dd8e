--------------------------- MODULE MCStorageRegistry ---------------------------
EXTENDS StorageRegistry

Pol(s, k) == [stale |-> s, keep |-> k, rev |-> 0]
Upd(cs, s, k, named) == [channels |-> cs, policy |-> IF named = {} THEN None ELSE Pol(s, k), named |-> named]
Plan(time, policies, channels, updates, broadcast, fails, cares, closes, crashes) ==
    [time |-> time, policies |-> policies, channels |-> channels, updates |-> updates, broadcast |-> broadcast, locks |-> TRUE,
     failures |-> fails, cares |-> cares, closes |-> closes, crashes |-> crashes]
Grows == Upd({"c", "d"}, None, None, {})
MCLives == {
    Plan(0, <<Pol(1, 1), Pol(1, 0)>>, {"c"}, {Upd({}, 2, None, {"stale"})}, TRUE, 0, 1, 0, 0),
    Plan(1, <<Pol(1, 1), Pol(1, 0)>>, {"c"}, {Grows}, FALSE, 0, 0, 0, 0),
    Plan(1, <<Pol(1, 1), Pol(1, 0)>>, {"c"}, {}, FALSE, 1, 0, 2, 0),
    Plan(2, <<Pol(1, 0), Pol(1, 0)>>, {"c"}, {}, FALSE, 0, 0, 0, 1)}
OmittedLives == {Plan(0, <<Pol(1, 1), Pol(1, 1)>>, {"c"}, {Upd({}, 2, None, {"stale"}), Upd({}, None, 0, {"keep"})}, TRUE, 0, 1, 0, 0)}
================================================================================
