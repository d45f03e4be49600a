------------------------ MODULE MCConnectionRegistry ------------------------
(* One room with one slot, lists of tags with and without a repetition. *)
EXTENDS ConnectionRegistry, TLC

OneGame == [s \in Slots \cup {NoSlot} |-> IF s = NoSlot THEN "" ELSE "game"]

RepeatedLists == {<<"a">>, <<"a", "a">>}

CONSTANTS c1, c2, r1, r2

(* The second client connects only; the first also changes its tags. *)
TwoAndOne == (c1 :> 2) @@ (c2 :> 1)

(* Two clients and one reload, or one client and two reloads. *)
ThreeAtMost == conn[c2] = NewConn \/ refresh[r2].runs = 0

SmallSpec == Init /\ [][Next /\ ThreeAtMost']_vars /\ Fairness
=============================================================================
