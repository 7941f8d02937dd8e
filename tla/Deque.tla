--------------------------------- MODULE Deque ---------------------------------
(***************************************************************************)
(* What a stored queue promises its callers: an ordered collection whose    *)
(* every change is one atomic operation.  WebStorageQueue is shown to       *)
(* implement it through a mapping of its stored rows to `content`.          *)
(***************************************************************************)
EXTENDS Naturals, Sequences, SequencesExt

CONSTANT Items

VARIABLE content

(* A new item never equals one already queued: items are told apart by name. *)
New == {x \in Items : \A i \in DOMAIN content : content[i] # x}

Push == \E x \in New : content' = Append(content, x)
Unshift == \E x \in New : content' = <<x>> \o content
Shift == content # <<>> /\ content' = Tail(content)
Pop == content # <<>> /\ content' = Front(content)
SetAt == \E x \in New, i \in DOMAIN content : content' = [content EXCEPT ![i] = x]
Insert == \E x \in New, i \in 1..Len(content) + 1 : content' = InsertAt(content, i, x)
TakeOut == \E i \in DOMAIN content : content' = RemoveAt(content, i)

(* removeWhere, clear and eviction drop any of the items, in any number. *)
Drop == \E kept \in SUBSET Range(content) :
            content' = SelectSeq(content, LAMBDA x : x \in kept)

Init == content = <<>>
Next == Push \/ Unshift \/ Shift \/ Pop \/ SetAt \/ Insert \/ TakeOut \/ Drop
Spec == Init /\ [][Next]_content
================================================================================
