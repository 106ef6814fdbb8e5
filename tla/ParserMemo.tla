----------------------------- MODULE ParserMemo ------------------------------
(***************************************************************************)
(* The rule engine on top of the packrat table it is compiled with: each    *)
(* result the engine stores is kept or lost exactly as PackratCache_set     *)
(* keeps or loses it.  The engine offers both outcomes (MayLose); this      *)
(* module tracks the row capacities and picks the one that happens: a       *)
(* growth may fail, and an id past the regrown row writes outside it, after *)
(* which the parse is undefined and the module stops.                       *)
(***************************************************************************)
EXTENDS RuleEngineCorrect

CONSTANT InitCap   \* PARSER_DEFAULT_NTOKENS, scaled down

\* A row can double once without its capacity wrapping.
ASSUME LossyEngine == MayLose /\ InitCap \in Nat \ {0} /\ 2 * InitCap < SizeMod

Growth == INSTANCE CacheGrowth

VARIABLES
    caps,      \* caps[r]: the capacity of the row of rule r
    trouble    \* "none", "no memory" (a growth failed, its result is lost) or
               \* "overrun" (a set destroyed memory past its row)

CapNeverGrown(r, t) == caps[r]   \* Defect: a full row stays full

\* Row r after a set at token id t.
CapAfterSet(r, t) == IF t >= caps[r] THEN Growth!GrownCap(t, caps[r]) ELSE caps[r]

\* The step is the epilogue of Rule_check: it stores ret'.node.
Stores ==
    /\ mode' = "ret"
    /\ mode = "call" => CachedResult = NoNode
    /\ ret'.tok \in Tokens

\* The id is inside the row, regrown or not.
StoreFits(r, t) ==
    /\ Id(t) < CapAfterSet(r, Id(t))
    /\ caps' = [caps EXCEPT ![r] = CapAfterSet(r, Id(t))]
    /\ memo' = [memo EXCEPT ![r][t] = ret'.node]
    /\ UNCHANGED trouble

\* The row cannot be regrown, and Parser_cache_check ignores what set reports.
StoreNoMemory(r, t) ==
    /\ Id(t) >= caps[r]
    /\ trouble' = "no memory"
    /\ memo' = memo
    /\ UNCHANGED caps

\* The id is one past the regrown row: the write lands in bytes the allocator
\* rounded the row up by, where no get looks.
StoreIntoSlack(r, t) ==
    /\ Id(t) = CapAfterSet(r, Id(t))
    /\ caps' = [caps EXCEPT ![r] = CapAfterSet(r, Id(t))]
    /\ memo' = memo
    /\ UNCHANGED trouble

\* The write past the regrown row destroys something else.
StoreOverrun(r, t) ==
    /\ Id(t) >= CapAfterSet(r, Id(t))
    /\ trouble' = "overrun"
    /\ memo' = memo
    /\ UNCHANGED caps

StoreOutcome(r, t) ==
    \/ StoreFits(r, t)
    \/ StoreNoMemory(r, t)
    \/ StoreIntoSlack(r, t)
    \/ StoreOverrun(r, t)

MemoInit ==
    /\ Init
    /\ caps = [r \in Rules |-> InitCap]
    /\ trouble = "none"

MemoNext ==
    /\ trouble # "overrun"
    /\ Next
    /\ \/ Stores /\ StoreOutcome(ret'.rule, ret'.tok)
       \/ ~Stores /\ UNCHANGED <<caps, trouble>>

MemoVars == <<vars, caps, trouble>>

\* A parser is one thread of straight-line code: it never stops by itself.
MemoSpec == MemoInit /\ [][MemoNext]_MemoVars /\ WF_MemoVars(MemoNext)

-----------------------------------------------------------------------------
(* Properties *)

\* The input fits in rows that have been doubled once.
Short == Id(token_tail) < 2 * InitCap

\* An input of fewer than twice the initial capacity of tokens never makes a set
\* write past its row, and if no growth failed it never loses a result: the
\* children of every node are found (Parser_add_node, parser.c:569).
NoCrashOnShortInputs ==
    Short => /\ trouble # "overrun"
             /\ trouble = "none" => NoCrash

\* Such an input is parsed with every rule evaluated at most once at a token, in
\* spite of the growth of the rows on the way (PackratCache_set, Rule_check).
LinearOnShortInputs == Short /\ trouble = "none" => LinearWork

\* Every parse of a grammar that Terminates accepts ends, even if the cache loses
\* what was evaluated; where it lost a child the walk of Parser_add_node may end
\* it early, and after a write past a row nothing can be said.
ParseEnds == <>(mode \in {"done", "crash"} \/ trouble = "overrun")
==============================================================================
