---------------------------- MODULE PackratCache -----------------------------
(***************************************************************************)
(* The memoisation table of a parser (src/packrat_cache.c, the default      *)
(* array representation): one row of nodes per rule, indexed by token id,   *)
(* grown on demand by PackratCache_set.                                     *)
(*                                                                          *)
(* A node is an opaque value: the table stores pointers and never looks     *)
(* through them.  Allocation is the environment's choice: calloc may fail   *)
(* at any call and always fails above AllocLimit entries.  A call that      *)
(* touches memory outside the table ends the run in the phase "undefined":  *)
(* C promises nothing from there on, and so does this module.               *)
(***************************************************************************)
EXTENDS CacheGrowth

CONSTANTS
    NRules,      \* rules the cache was created for
    RuleIds,     \* rule ids callers pass, in range or not
    TokenIds,    \* token ids callers pass, SIZE_MAX of a sentinel included
    InitCaps,    \* values of the init_cap argument, 0 asking for the default
    DefaultCap,  \* PACKRAT_CACHE_INIT_CAP
    AllocLimit,  \* the most entries calloc can ever provide
    Nodes,       \* AST nodes
    NoNode,      \* NULL
    MaxSets      \* bound on the number of PackratCache_set calls

Rows == 0 .. NRules - 1

ASSUME CacheAssumption ==
    /\ NRules \in Nat
    /\ RuleIds \subseteq Nat
    /\ SizeMod \in Nat
    /\ AllocLimit \in Nat
    /\ 8 * AllocLimit <= SizeMod       \* a row of 8-byte pointers fits in memory
    /\ 2 < SizeMod
    /\ DefaultCap \in Nat \ {0}
    /\ InitCaps \subseteq Nat
    /\ TokenIds \subseteq Nat
    /\ \A t \in TokenIds : 2 * t < SizeMod \/ t = SizeMod - 1
    /\ NoNode \notin Nodes
    /\ MaxSets \in Nat

VARIABLES
    phase,  \* "fresh", "live" (memory owned), "gone" (released, and the caller
            \* knows), "freed" (released, the caller was told of success),
            \* "undefined" (memory outside the table has been accessed)
    map,    \* map[r]: the row of rule r, a function on 0 .. capacity - 1
    caps,   \* caps[r]: the capacity recorded for that row
    last,   \* the last call, its arguments and what it returned
    sets    \* number of PackratCache_set calls so far (bound only)

vars == <<phase, map, caps, last, sets>>

Succeeded == "P4C_SUCCESS"
Failed    == "P4C_FAILURE"
NoMemory  == "P4C_MALLOC_FAILURE"

\* calloc(n, sizeof(ASTNode *)): n NULL pointers.
ZeroRow(n) == [i \in 0 .. n - 1 |-> NoNode]

Init ==
    /\ phase = "fresh"
    /\ map = [r \in Rows |-> ZeroRow(0)]
    /\ caps = [r \in Rows |-> 0]
    /\ last = [op |-> "none", ret |-> Succeeded]
    /\ sets = 0

-----------------------------------------------------------------------------
(* PackratCache_init *)

EffectiveCap(initCap) == IF initCap = 0 THEN DefaultCap ELSE initCap

\* Every allocation succeeds.
InitOk(initCap) ==
    LET cap == EffectiveCap(initCap) IN
    /\ phase = "fresh"
    /\ cap <= AllocLimit
    /\ phase' = "live"
    /\ map' = [r \in Rows |-> ZeroRow(cap)]
    /\ caps' = [r \in Rows |-> cap]
    /\ last' = [op |-> "init", ret |-> Succeeded]
    /\ UNCHANGED sets

\* One of the two outer arrays cannot be allocated.
InitNoTable ==
    /\ phase = "fresh"
    /\ phase' = "gone"
    /\ last' = [op |-> "init", ret |-> NoMemory]
    /\ UNCHANGED <<map, caps, sets>>

\* What the final return statement yields after a row could not be allocated.
PartialInitStatus == Succeeded

\* A row cannot be allocated: the rows before it and both arrays are freed.
InitNoRow ==
    /\ phase = "fresh"
    /\ Rows # {}
    /\ phase' = IF PartialInitStatus = Succeeded THEN "freed" ELSE "gone"
    /\ last' = [op |-> "init", ret |-> PartialInitStatus]
    /\ UNCHANGED <<map, caps, sets>>

\* The caller goes on: any get, set or dest reads the freed arrays.
UseFreed ==
    /\ phase = "freed"
    /\ phase' = "undefined"
    /\ UNCHANGED <<map, caps, last, sets>>

-----------------------------------------------------------------------------
(* PackratCache_get *)

\* The caller's view of entry (r, t).
PackratCache_get(r, t) ==
    IF r >= NRules \/ t >= caps[r] THEN NoNode ELSE map[r][t]

-----------------------------------------------------------------------------
(* PackratCache_set *)

\* Defect: memcpy left out.
GrownRowEmpty(old, oldCap, newCap) == ZeroRow(newCap)

\* Defect: one entry too many is allocated.
GrownRowLonger(old, oldCap, newCap) ==
    [i \in 0 .. newCap |-> IF i < oldCap THEN old[i] ELSE NoNode]

\* The regrown row: zeroed, then memcpy of the old capacity.
GrownRow(old, oldCap, newCap) ==
    [i \in 0 .. newCap - 1 |-> IF i < oldCap THEN old[i] ELSE NoNode]

\* row[t] = n, for t inside the row.
Assign(row, t, n) == [i \in DOMAIN row |-> IF i = t THEN n ELSE row[i]]

SetCall(r, t, n, ret) == [op |-> "set", rule |-> r, tok |-> t, node |-> n, ret |-> ret]

SetUnknownRule(r, t, n) ==
    /\ r >= NRules
    /\ last' = SetCall(r, t, n, Failed)
    /\ UNCHANGED <<phase, map, caps>>

SetInRow(r, t, n) ==
    /\ r < NRules
    /\ t < caps[r]
    /\ map' = [map EXCEPT ![r] = Assign(@, t, n)]
    /\ last' = SetCall(r, t, n, Succeeded)
    /\ UNCHANGED <<phase, caps>>

SetGrow(r, t, n) ==
    /\ r < NRules
    /\ t >= caps[r]
    /\ LET newCap == GrownCap(t, caps[r]) IN
        /\ newCap <= AllocLimit
        /\ t < newCap
        /\ map' = [map EXCEPT ![r] = Assign(GrownRow(@, caps[r], newCap), t, n)]
        /\ caps' = [caps EXCEPT ![r] = newCap]
    /\ last' = SetCall(r, t, n, Succeeded)
    /\ UNCHANGED phase

\* The id is past the regrown row too, and the assignment is made all the same.
OverrunsRow(r, t) ==
    /\ r < NRules
    /\ t >= caps[r]
    /\ GrownCap(t, caps[r]) <= AllocLimit
    /\ t >= GrownCap(t, caps[r])

\* The write falls into bytes the allocator rounded the row up by: the row is
\* regrown and its bound hides the value from every get.
SetIntoSlack(r, t, n) ==
    /\ OverrunsRow(r, t)
    /\ LET newCap == GrownCap(t, caps[r]) IN
        /\ map' = [map EXCEPT ![r] = GrownRow(@, caps[r], newCap)]
        /\ caps' = [caps EXCEPT ![r] = newCap]
    /\ last' = SetCall(r, t, n, Succeeded)
    /\ UNCHANGED phase

\* The write destroys something else.
SetOverrun(r, t, n) ==
    /\ OverrunsRow(r, t)
    /\ phase' = "undefined"
    /\ last' = SetCall(r, t, n, Succeeded)
    /\ UNCHANGED <<map, caps>>

SetNoMemory(r, t, n) ==
    /\ r < NRules
    /\ t >= caps[r]
    /\ last' = SetCall(r, t, n, NoMemory)
    /\ UNCHANGED <<phase, map, caps>>

PackratCache_set(r, t, n) ==
    /\ phase = "live"
    /\ sets < MaxSets
    /\ sets' = sets + 1
    /\ \/ SetUnknownRule(r, t, n)
       \/ SetInRow(r, t, n)
       \/ SetGrow(r, t, n)
       \/ SetIntoSlack(r, t, n)
       \/ SetOverrun(r, t, n)
       \/ SetNoMemory(r, t, n)

-----------------------------------------------------------------------------
(* PackratCache_dest, called by Parser_dest *)

PackratCache_dest ==
    /\ phase = "live"
    /\ phase' = "gone"
    /\ map' = [r \in Rows |-> ZeroRow(0)]
    /\ caps' = [r \in Rows |-> 0]
    /\ last' = [op |-> "dest", ret |-> Succeeded]
    /\ UNCHANGED sets

Next ==
    \/ \E c \in InitCaps : InitOk(c)
    \/ InitNoTable
    \/ InitNoRow
    \/ UseFreed
    \/ \E r \in RuleIds, t \in TokenIds, n \in Nodes : PackratCache_set(r, t, n)
    \/ PackratCache_dest

Spec == Init /\ [][Next]_vars

-----------------------------------------------------------------------------
(* Properties *)

\* Each row has exactly the capacity recorded for it, so the bound that get
\* and set test (caps) is the bound of the memory they index.
TypeOK ==
    /\ phase \in {"fresh", "live", "gone", "freed", "undefined"}
    /\ caps \in [Rows -> 0 .. AllocLimit]
    /\ DOMAIN map = Rows
    /\ \A r \in Rows : map[r] \in [0 .. caps[r] - 1 -> Nodes \cup {NoNode}]
    /\ sets \in Nat

\* The table as the rule engine sees it, through PackratCache_get.
memoView == [k \in RuleIds \X TokenIds |-> PackratCache_get(k[1], k[2])]

Memo == INSTANCE LossyMemo WITH Keys <- RuleIds \X TokenIds, memo <- memoView,
                                intact <- phase # "undefined"

\* Growing a row, a failed allocation, an id nobody can store and an id past
\* the end never make get return a node that was not stored for that very rule
\* and token, nor forget one that was (src/packrat_cache.c, set and get), up to
\* the first access outside the table's memory; SuccessIsVisible says which set
\* makes that access.
ImplementsLossyMemo == Memo!Spec

\* A set that reports success writes inside the row and is visible to the next
\* get, whatever the growth did to the row, unless the id is exactly twice the
\* capacity (the case the comparison in the growth formula gets wrong).
SuccessIsVisible ==
    [][(/\ sets' # sets
        /\ last'.ret = Succeeded
        /\ last'.tok # 2 * caps[last'.rule])
         => /\ phase' = "live"
            /\ PackratCache_get(last.rule, last.tok)' = last'.node]_vars

\* Growing never gives a row less room than it had: results of earlier tokens
\* are copied, so a smaller row would be written past its end by the memcpy.
GrowthNeverShrinks ==
    [][phase = "live" /\ phase' = "live" => \A r \in Rows : caps[r] <= caps'[r]]_vars

\* packrat_cache.h: get returns "NULL if rule-token pair has not been
\* encountered before else a pointer to the ASTNode that resulted".
EncounteredIsFound ==
    (phase = "live" /\ last.op = "set" /\ last.ret = Succeeded)
        => PackratCache_get(last.rule, last.tok) = last.node
==============================================================================
