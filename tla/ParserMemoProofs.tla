--------------------------- MODULE ParserMemoProofs ---------------------------
(***************************************************************************)
(* What the rule engine promises on the packrat table it is compiled with.  *)
(* As long as no set has written past its row, what it answers is right,    *)
(* whatever the table has lost (FaithfulInv, of RuleEngineReference, asks   *)
(* nothing of the cache).  And an input that fits in rows doubled once      *)
(* never makes a set write past its row and, while no growth fails, is      *)
(* parsed as if the table lost nothing: a row has its first capacity or     *)
(* twice that (Room), so every result is kept (Kept) and the invariants of  *)
(* RuleEngineProofs, which only ask for that, are inductive.                *)
(***************************************************************************)
EXTENDS ParserMemo, RuleEngineReference

\* No row has been doubled twice.
Room == caps \in [Rules -> {InitCap, 2 * InitCap}]

\* The inductive invariant.
MemoInv ==
    /\ FaithfulInv
    /\ trouble \in {"none", "no memory", "overrun"}
    /\ Short => /\ Room /\ trouble # "overrun"
                /\ trouble = "none" => Inv

\* Setting an entry makes the room it needs, with at most one doubling.
LEMMA OneDoubling ==
    ASSUME Typed, Short, Room, NEW r \in Rules, NEW t \in Tokens
    PROVE  /\ Id(t) < CapAfterSet(r, Id(t))
           /\ CapAfterSet(r, Id(t)) \in {InitCap, 2 * InitCap}
<1>1. /\ InitCap \in Nat \ {0} /\ SizeMod \in Nat /\ 2 * InitCap < SizeMod
      /\ Len(input) \in Nat /\ t \in 1 .. Len(input) + 1 /\ token_tail = Len(input) + 1
  BY LossyEngine, EngineAssumption, Tables DEF token_tail
<1>2. caps[r] \in {InitCap, 2 * InitCap}
  BY DEF Room
<1>3. Id(t) = t - 1 /\ Id(token_tail) = Len(input)
  BY <1>1 DEF Id, token_head
<1>4. Id(t) \in Nat /\ Id(t) < 2 * InitCap
  BY <1>1, <1>3 DEF Short
<1>5. CASE Id(t) >= caps[r]
  <2>1. caps[r] = InitCap
    BY <1>1, <1>2, <1>4, <1>5
  <2>2. Growth!GrownCap(Id(t), InitCap) = 2 * InitCap
    BY <1>1, <1>4 DEF Growth!GrownCap, Growth!Wrap
  <2>3. CapAfterSet(r, Id(t)) = 2 * InitCap
    BY <1>5, <2>1, <2>2 DEF CapAfterSet
  <2> QED BY <1>4, <2>3
<1>6. CASE ~(Id(t) >= caps[r])
  <2>1. CapAfterSet(r, Id(t)) = caps[r]
    BY <1>6 DEF CapAfterSet
  <2> QED BY <1>1, <1>2, <1>4, <1>6, <2>1
<1> QED BY <1>5, <1>6

\* A set on a short input leaves the row as it was or doubled once, never writes
\* past it, and keeps the result unless the growth fails.
LEMMA ShortStore ==
    ASSUME Typed, SameGrammar, Short, Room, trouble # "overrun",
           NEW r \in Rules, NEW t \in Tokens, StoreOutcome(r, t)
    PROVE  /\ Room' /\ trouble' # "overrun"
           /\ trouble' = "none" => trouble = "none" /\ memo' = [memo EXCEPT ![r][t] = ret'.node]
<1> DEFINE cap == CapAfterSet(r, Id(t))
<1>1. Id(t) < cap /\ cap \in {InitCap, 2 * InitCap} /\ Id(t) \in Int /\ cap \in Int
  <2>1. InitCap \in Nat
    BY LossyEngine
  <2>2. Id(t) \in Int
    BY Tables DEF Id, token_head
  <2> QED BY <2>1, <2>2, OneDoubling
<1>2. Rules' = Rules
  BY SameTables
<1> HIDE DEF cap
<1>3. CASE StoreFits(r, t)
  <2>1. caps' = [caps EXCEPT ![r] = cap] /\ trouble' = trouble
        /\ memo' = [memo EXCEPT ![r][t] = ret'.node]
    BY <1>3 DEF StoreFits, cap
  <2> QED BY <1>1, <1>2, <2>1 DEF Room
<1>4. CASE StoreNoMemory(r, t)
  BY <1>2, <1>4 DEF StoreNoMemory, Room
<1>5. ~StoreIntoSlack(r, t) /\ ~StoreOverrun(r, t)
  BY <1>1 DEF StoreIntoSlack, StoreOverrun, cap
<1> QED BY <1>3, <1>4, <1>5 DEF StoreOutcome

\* What Rule_check leaves with is stored, and kept unless the growth fails.
LEMMA LeaveKept ==
    ASSUME Typed, SameGrammar, Short, Room, MemoNext, mode = "call" => CachedResult = NoNode,
           NEW r \in Rules, NEW t \in Tokens, NEW n, NEW pool, NEW next, NEW rest,
           Leave(r, t, n, pool, next, rest)
    PROVE  /\ Room' /\ trouble' # "overrun"
           /\ trouble' = "none" => Kept' /\ trouble = "none"
<1>1. mode' = "ret" /\ ret' = [rule |-> r, tok |-> t, node |-> n]
  BY DEF Leave
<1>2. StoreOutcome(r, t) /\ trouble # "overrun"
  BY <1>1 DEF MemoNext, Stores
<1>3. /\ Room' /\ trouble' # "overrun"
      /\ trouble' = "none" => trouble = "none" /\ memo' = [memo EXCEPT ![r][t] = n]
  BY <1>1, <1>2, ShortStore
<1>4. Rules' = Rules /\ Tokens' = Tokens
  BY SameTables
<1>5. ASSUME trouble' = "none" PROVE Kept'
  <2>1. memo \in [Rules -> [Tokens -> NoNode .. Len(nodes)]]
    BY DEF Typed
  <2>2. memo'[r][t] = n
    BY <1>3, <1>5, <2>1
  <2>3. t \in Tokens' /\ t # token_head
    BY <1>4, Tables DEF token_head
  <2>4. Parser_check_cache(r, t)' = n
    BY <2>2, <2>3, Zenon DEF Parser_check_cache
  <2> QED BY <1>1, <2>4 DEF Kept
<1> QED BY <1>3, <1>5

\* Of a step on a short input: rows are at most doubled once, no set writes past
\* its row, and unless the growth fails the result returned can be found again.
ShortAfter ==
    /\ Room' /\ trouble' # "overrun"
    /\ trouble' = "none" => Kept' /\ trouble = "none"

\* A step on a short input loses nothing, unless a growth fails.
LEMMA ShortKept ==
    ASSUME Typed, Short, Room, MemoNext
    PROVE  ShortAfter
<1>1. Next /\ trouble # "overrun"
  BY DEF MemoNext
<1>2. SameGrammar
  BY <1>1, NextShape DEF SameGrammar, Shape, Answered, Finish, EnterLeave, EnterCall, Entered,
                         ResumeLeave, ResumeCall, ResumeCrash, Resumed
<1>3. ASSUME UNCHANGED <<caps, trouble>>, Kept' PROVE ShortAfter
  BY <1>1, <1>2, <1>3, SameTables DEF Room, ShortAfter
<1>4. ASSUME mode' # "ret" PROVE ShortAfter
  BY <1>3, <1>4 DEF MemoNext, Stores, Kept
<1>5. CASE Answered
  <2>1. cur # Null /\ mode = "call" /\ CachedResult # NoNode
    <3>1. cur # Null
      BY Tables DEF Typed, Null
    <3> QED BY <1>5, <3>1 DEF Answered
  <2>2. /\ memo' = memo
        /\ mode' = "ret" => ret' = [rule |-> callee, tok |-> cur, node |-> CachedResult]
    BY <1>5, <2>1 DEF Answered
  <2>3. UNCHANGED <<caps, trouble>>
    BY <2>1 DEF MemoNext, Stores
  <2>4. Kept'
    BY <1>2, <2>2, SameTables DEF Kept, CachedResult, Parser_check_cache
  <2> QED BY <1>3, <2>3, <2>4
<1>6. CASE Finish
  BY <1>4, <1>6 DEF Finish
<1>7. CASE EnterCall
  BY <1>4, <1>7 DEF EnterCall, CallFrom
<1>8. ASSUME NEW n, NEW pool, NEW next, EnterLeave(n, pool, next) PROVE ShortAfter
  <2>1. /\ CachedResult = NoNode /\ callee \in Rules /\ cur \in Tokens
        /\ Leave(callee, cur, n, pool, next, stack)
    <3>1. /\ memo[callee][cur] = NoNode /\ callee \in Rules /\ cur \in Tokens
          /\ Leave(callee, cur, n, pool, next, stack)
      BY <1>8 DEF EnterLeave, Entered, Typed
    <3>2. cur # token_head
      BY <3>1, Tables DEF token_head
    <3>3. CachedResult = memo[callee][cur]
      BY <3>1, <3>2, Zenon DEF CachedResult, Parser_check_cache
    <3> QED BY <3>1, <3>3
  <2> QED BY <1>2, <2>1, LeaveKept DEF ShortAfter
<1>9. ASSUME NEW n, NEW pool, NEW next, ResumeLeave(n, pool, next) PROVE ShortAfter
  <2>1. mode = "ret" /\ stack # << >> /\ Leave(Top.rule, Top.start, n, pool, next, Below)
    BY <1>9 DEF ResumeLeave, Resumed
  <2>2. Top.rule \in Rules /\ Top.start \in Tokens
    BY <2>1, StackTop DEF FrameRec
  <2> QED BY <1>2, <2>1, <2>2, LeaveKept DEF ShortAfter
<1>10. ASSUME NEW f, ResumeCall(f) PROVE ShortAfter
  BY <1>4, <1>10 DEF ResumeCall, CallFrom
<1>11. CASE ResumeCrash
  BY <1>4, <1>11 DEF ResumeCrash, Crash
<1> QED BY <1>1, <1>5, <1>6, <1>7, <1>8, <1>9, <1>10, <1>11, NextShape DEF Shape

\* Every step leaves trouble one of its three values.
LEMMA TroubleTyped ==
    ASSUME [MemoNext]_MemoVars, trouble \in {"none", "no memory", "overrun"}
    PROVE  trouble' \in {"none", "no memory", "overrun"}
BY DEF MemoNext, MemoVars, StoreOutcome, StoreFits, StoreNoMemory, StoreIntoSlack, StoreOverrun

\* The faithful results, and on a short input without a failed growth all the
\* invariants of a cache that loses nothing, hold with it.
THEOREM MemoInvHolds ==
    ASSUME AllRebuildable
    PROVE  MemoSpec => []MemoInv
<1>1. MemoInit => MemoInv
  BY InitTyped, InitFaithful, InitPackrat, InitTiled DEF MemoInit, MemoInv, FaithfulInv, Inv, Room
<1>2. MemoInv /\ [MemoNext]_MemoVars => MemoInv'
  <2> SUFFICES ASSUME MemoInv, [MemoNext]_MemoVars PROVE MemoInv'
    OBVIOUS
  <2>1. [Next]_vars
    BY DEF MemoNext, MemoVars
  <2>2. Typed /\ FaithfulInv'
    BY <2>1, FaithfulInductive DEF MemoInv, FaithfulInv
  <2>3. SameGrammar
    <3>1. CASE Next
      BY <2>2, <3>1, NextShape DEF SameGrammar, Shape, Answered, Finish, EnterLeave, EnterCall,
                                   Entered, ResumeLeave, ResumeCall, ResumeCrash, Resumed
    <3>2. CASE UNCHANGED vars
      BY <3>2 DEF vars, SameGrammar
    <3> QED BY <2>1, <3>1, <3>2
  <2>4. ASSUME Short' PROVE Room' /\ trouble' # "overrun" /\ (trouble' = "none" => Inv')
    <3>1. Short /\ Replayable
      BY <2>3, <2>4, RebuildableReplays DEF Short, SameGrammar, Id, token_tail
    <3>2. CASE MemoNext
      <4>1. ShortAfter
        BY <2>2, <3>1, <3>2, ShortKept DEF MemoInv
      <4>2. ASSUME trouble' = "none" PROVE Inv'
        <5>1. Inv /\ [Next /\ Kept']_vars
          BY <2>1, <3>1, <4>1, <4>2 DEF ShortAfter, MemoInv
        <5> QED BY <3>1, <5>1, InvInductive
      <4> QED BY <4>1, <4>2 DEF ShortAfter
    <3>3. CASE UNCHANGED MemoVars
      <4>1. Room' /\ trouble' = trouble
        BY <2>3, <3>1, <3>3, SameTables DEF MemoInv, MemoVars, Room
      <4>2. [Next /\ Kept']_vars
        BY <3>3 DEF MemoVars
      <4> QED BY <3>1, <4>1, <4>2, InvInductive DEF MemoInv
    <3> QED BY <3>2, <3>3
  <2> QED BY <2>2, <2>4, TroubleTyped DEF MemoInv
<1> QED BY <1>1, <1>2, PTL DEF MemoSpec

\* Until a set writes past its row, Rule_check returns what the rule means at its
\* token, whatever the table the parser is compiled with has lost to full memory or
\* to the end of a row: a lost result costs a second evaluation or the process, not
\* the answer.  After such a write nothing is claimed.
THEOREM LossyParseIsReference ==
    ASSUME AllRebuildable, \A d \in Nat : \E e \in Depths : d <= e
    PROVE  MemoSpec => [](trouble # "overrun" => ReturnIsReference)
<1>1. MemoInv => (trouble # "overrun" => ReturnIsReference)
  BY MeantReturned DEF MemoInv
<1> QED BY <1>1, MemoInvHolds, PTL

\* On an input that fits in rows doubled once no set writes past its row, and while
\* no growth fails the walk of Parser_add_node finds every child: nothing is
\* dereferenced through NULL.
THEOREM ShortInputsNeverCrash ==
    ASSUME AllRebuildable
    PROVE  MemoSpec => []NoCrashOnShortInputs
<1>1. MemoInv => NoCrashOnShortInputs
  BY RebuildableReplays DEF MemoInv, NoCrashOnShortInputs, NoCrash, Tiled
<1> QED BY <1>1, MemoInvHolds, PTL

\* And no rule is evaluated twice at a token.
THEOREM ShortInputsAreLinear ==
    ASSUME AllRebuildable
    PROVE  MemoSpec => []LinearOnShortInputs
<1>1. MemoInv => LinearOnShortInputs
  BY DEF MemoInv, LinearOnShortInputs, Inv, Packrat
<1> QED BY <1>1, MemoInvHolds, PTL
==============================================================================
