----------------------------- MODULE AbstractMap -----------------------------
(***************************************************************************)
(* What a hash map promises: a dictionary.  A call binds one key, forgets   *)
(* one key, or changes nothing.  Destroying the map, or failing to grow it, *)
(* leaves nothing in it.                                                    *)
(***************************************************************************)
CONSTANTS Keys, Values, NoValue

VARIABLE dict   \* dict[k]: the value of k, or NoValue

Nothing == [k \in Keys |-> NoValue]

Init == dict = Nothing

Bind(k, v) == dict' = [dict EXCEPT ![k] = v]
Forget(k)  == dict' = [dict EXCEPT ![k] = NoValue]
Clear      == dict' = Nothing

Next ==
    \/ \E k \in Keys, v \in Values : Bind(k, v)
    \/ \E k \in Keys : Forget(k)
    \/ Clear

Spec == Init /\ [][Next]_dict
==============================================================================
