--------------------------- MODULE MCWebStorageQueue ---------------------------
(* WebStorageQueue for TLC.  removeAt and the operations that leave holes are  *)
(* kept apart: a removal over a hole is not completed in full.                *)
EXTENDS WebStorageQueue

Singles == {"push", "unshift", "shift", "pop", "setAt", "insertAt"}
WithoutHoles == {Singles \cup {"removeAt"}, Singles \cup {"removeWhere", "clear"}}
================================================================================
