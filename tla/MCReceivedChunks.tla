--------------------------- MODULE MCReceivedChunks ---------------------------
(* Instances of ReceivedChunks: which bundles reach which processors, and the  *)
(* faults that may strike.                                                     *)
EXTENDS ReceivedChunks

CONSTANTS p1, p2, g1, g2

Message(total, rows, mine, scan) == [total |-> total, rows |-> rows, mine |-> mine, scan |-> scan]
Of(first, second) == [g \in Groups |-> IF g = g1 THEN first ELSE second]
Plan(bundle, readers, kinds, left) ==
    [bundle |-> bundle, readers |-> readers, faults |-> kinds, left |-> left]

(* Two chunks; row 0 and row 1 end in the first, row 2 in the second.  The     *)
(* reader's row is in either.  Then a row that spans both chunks.              *)
Early(scan) == Message(2, <<0, 0, 1>>, 1, scan)
Late(scan) == Message(2, <<0, 0, 1>>, 2, scan)
Spanning(scan) == Message(2, <<0, 1, 1>>, 1, scan)

Both == {p1, p2}

SafetyPlans ==
    {Plan(Of(Early("row"), None), Both, {"lapse", "expire"}, 2),
     Plan(Of(Spanning("row"), None), Both, {"deferred", "invalid", "reject", "crash"}, 2),
     Plan(Of(Late("seed"), None), Both, {"lapse", "expire", "deferred"}, 2),
     Plan(Of(Early("own"), None), Both, {"crash", "reject"}, 2),
     Plan(Of(Late("row"), Message(2, <<>>, 1, "nym")), Both, {"quota"}, 1),
     Plan(Of(Message(4, <<1, 2, 3>>, 2, "row"), Message(1, <<0, 0>>, 0, "row")), {p1}, {"expire", "crash"}, 1)}

(* A relay that sends a watchtower the chunks of one message in order. *)
WatchtowerPlans == {Plan(Of(Early("seed"), None), {p1}, {}, 0)}
================================================================================
