----------------------------- MODULE Dictionary -----------------------------
(***************************************************************************)
(* What gaa::List promises: a map from keys to values in which an          *)
(* assignment and a removal change the one key they name.                  *)
(***************************************************************************)
CONSTANTS Keys, Contents, Absent

VARIABLE dict

Init == dict = [k \in Keys |-> Absent]

Set(k, v) == dict' = [dict EXCEPT ![k] = v]

Remove(k) == dict[k] # Absent /\ dict' = [dict EXCEPT ![k] = Absent]

Next == \E k \in Keys : Remove(k) \/ \E v \in Contents : Set(k, v)

Spec == Init /\ [][Next]_dict
=============================================================================
