------------------------------ MODULE LossyMemo ------------------------------
(***************************************************************************)
(* What the rule engine needs of a packrat cache, and no more: a table      *)
(* from (rule, token id) to the node the rule produced there.  A call that  *)
(* stores a result either stores exactly that result or, because the        *)
(* caller ignores every failure, changes nothing.  As long as the memory is *)
(* intact it may never disturb another entry, and no entry may appear that  *)
(* nobody stored.  Once a call has touched memory the table does not own,   *)
(* nothing is promised any more.                                            *)
(***************************************************************************)
CONSTANTS
    Keys,       \* the (rule, token id) pairs
    Nodes,      \* AST nodes
    NoNode      \* the NULL pointer: no result is known

VARIABLES
    memo,       \* memo[k]: the node stored for k, or NoNode
    intact      \* no access outside the table's memory has happened

Init ==
    /\ memo = [k \in Keys |-> NoNode]
    /\ intact = TRUE

Store(k, n) ==
    /\ intact
    /\ memo' = [memo EXCEPT ![k] = n]
    /\ UNCHANGED intact

\* The table is destroyed with its parser; nothing is found in it afterwards.
Discard ==
    /\ intact
    /\ memo' = [k \in Keys |-> NoNode]
    /\ UNCHANGED intact

\* A write past a row, or the use of a freed one: anything may be found.
Break ==
    /\ intact' = FALSE
    /\ memo' \in [Keys -> Nodes \cup {NoNode}]

Next ==
    \/ \E k \in Keys, n \in Nodes : Store(k, n)
    \/ Discard
    \/ Break

Spec == Init /\ [][Next]_<<memo, intact>>
==============================================================================
