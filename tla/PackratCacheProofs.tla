------------------------- MODULE PackratCacheProofs --------------------------
(***************************************************************************)
(* Proofs, for every number of rules, every set of token ids and every      *)
(* allocation limit, of what the small instance checks with TLC.            *)
(***************************************************************************)
EXTENDS PackratCache, TLAPS

\* A row that can be allocated is larger than the one it replaces: size_t did
\* not wrap on the way.
LEMMA GrownCapLarger ==
    ASSUME NEW t \in TokenIds, NEW cap \in Nat, cap <= AllocLimit, t >= cap,
           GrownCap(t, cap) <= AllocLimit
    PROVE  /\ GrownCap(t, cap) \in Nat
           /\ cap <= GrownCap(t, cap)
           /\ t # 2 * cap /\ t # 0 => t < GrownCap(t, cap)
<1> USE CacheAssumption
<1>1. t \in Nat /\ SizeMod \in Nat /\ AllocLimit \in Nat /\ 8 * AllocLimit <= SizeMod
  OBVIOUS
<1>2. 2 * cap \in Nat /\ Wrap(2 * cap) = 2 * cap
  BY <1>1 DEF Wrap
<1>3. CASE t > 2 * cap
  <2>1. GrownCap(t, cap) = Wrap(2 * t)
    BY <1>2, <1>3 DEF GrownCap
  <2>2. 2 * t < SizeMod \/ t = SizeMod - 1
    OBVIOUS
  <2>3. 2 * t < SizeMod
    BY <1>1, <2>1, <2>2 DEF Wrap
  <2> QED BY <1>1, <1>3, <2>1, <2>3 DEF Wrap
<1>4. CASE ~(t > 2 * cap)
  <2>1. GrownCap(t, cap) = 2 * cap
    BY <1>2, <1>4 DEF GrownCap
  <2> QED BY <1>1, <1>4, <2>1
<1> QED BY <1>3, <1>4

-----------------------------------------------------------------------------
(* Type correctness: the recorded capacity is always the bound of the row *)

\* Every row has the capacity recorded for it, in every reachable state.
THEOREM TypeCorrect == Spec => []TypeOK
<1> USE CacheAssumption DEF Rows, TypeOK, ZeroRow
<1>1. Init => TypeOK
  BY DEF Init
<1>2. ASSUME TypeOK, [Next]_vars
      PROVE  TypeOK'
  <2>1. CASE UNCHANGED vars
    BY <1>2, <2>1 DEF vars
  <2>2. ASSUME NEW c \in InitCaps, InitOk(c)
        PROVE  TypeOK'
    <3>1. EffectiveCap(c) \in Nat
      BY DEF EffectiveCap
    <3> QED BY <1>2, <2>2, <3>1 DEF InitOk
  <2>3. CASE InitNoTable
    BY <1>2, <2>3 DEF InitNoTable
  <2>4. CASE InitNoRow \/ UseFreed
    BY <1>2, <2>4 DEF InitNoRow, UseFreed
  <2>5. ASSUME NEW r \in RuleIds, NEW t \in TokenIds, NEW n \in Nodes,
               PackratCache_set(r, t, n)
        PROVE  TypeOK'
    <3>0. phase' \in {"live", "undefined"} /\ sets' \in Nat /\ r \in Nat
      <4>1. phase = "live" /\ sets' = sets + 1
        BY <2>5 DEF PackratCache_set
      <4>2. phase' = phase \/ phase' = "undefined"
        BY <2>5 DEF PackratCache_set, SetUnknownRule, SetInRow, SetGrow, SetIntoSlack,
                    SetOverrun, SetNoMemory
      <4> QED BY <1>2, <4>1, <4>2
    <3>1. CASE SetUnknownRule(r, t, n)
      BY <1>2, <3>0, <3>1 DEF SetUnknownRule
    <3>2. CASE SetNoMemory(r, t, n) \/ SetOverrun(r, t, n)
      BY <1>2, <3>0, <3>2 DEF SetNoMemory, SetOverrun
    <3>3. CASE SetInRow(r, t, n)
      BY <1>2, <3>0, <3>3 DEF SetInRow, Assign
    <3>4. CASE SetGrow(r, t, n)
      <4> DEFINE cap == GrownCap(t, caps[r])
                 row == Assign(GrownRow(map[r], caps[r], cap), t, n)
      <4>1. r \in Rows /\ caps[r] \in 0 .. AllocLimit /\ t >= caps[r] /\ cap <= AllocLimit
        BY <1>2, <3>0, <3>4 DEF SetGrow
      <4>2. cap \in Nat
        BY <4>1, GrownCapLarger
      <4>3. row \in [0 .. cap - 1 -> Nodes \cup {NoNode}]
        BY <1>2, <4>1, <4>2 DEF Assign, GrownRow
      <4>4. map' = [map EXCEPT ![r] = row] /\ caps' = [caps EXCEPT ![r] = cap]
        BY <3>4 DEF SetGrow
      <4> QED BY <1>2, <3>0, <4>1, <4>2, <4>3, <4>4
    <3>5. CASE SetIntoSlack(r, t, n)
      <4> DEFINE cap == GrownCap(t, caps[r])
                 row == GrownRow(map[r], caps[r], cap)
      <4>1. r \in Rows /\ caps[r] \in 0 .. AllocLimit /\ t >= caps[r] /\ cap <= AllocLimit
        BY <1>2, <3>0, <3>5 DEF SetIntoSlack, OverrunsRow
      <4>2. cap \in Nat
        BY <4>1, GrownCapLarger
      <4>3. row \in [0 .. cap - 1 -> Nodes \cup {NoNode}]
        BY <1>2, <4>1, <4>2 DEF GrownRow
      <4>4. map' = [map EXCEPT ![r] = row] /\ caps' = [caps EXCEPT ![r] = cap]
        BY <3>5 DEF SetIntoSlack
      <4> QED BY <1>2, <3>0, <4>1, <4>2, <4>3, <4>4
    <3> QED BY <2>5, <3>1, <3>2, <3>3, <3>4, <3>5 DEF PackratCache_set
  <2>6. CASE PackratCache_dest
    BY <1>2, <2>6 DEF PackratCache_dest
  <2> QED BY <1>2, <2>1, <2>2, <2>3, <2>4, <2>5, <2>6 DEF Next
<1> QED BY <1>1, <1>2, PTL DEF Spec

-----------------------------------------------------------------------------
(* What a single call does to the table *)

\* A call that regrows a row leaves a well-formed, larger row behind it.
LEMMA GrowStep ==
    ASSUME TypeOK, NEW r \in RuleIds, NEW t \in TokenIds, NEW n \in Nodes,
           SetGrow(r, t, n)
    PROVE  /\ r \in Rows
           /\ caps' = [caps EXCEPT ![r] = GrownCap(t, caps[r])]
           /\ caps[r] <= caps'[r]
           /\ caps'[r] \in Nat
           /\ t < caps'[r]
           /\ map' = [map EXCEPT ![r] =
                        [i \in 0 .. caps'[r] - 1 |->
                            IF i = t THEN n
                            ELSE IF i < caps[r] THEN map[r][i] ELSE NoNode]]
<1> USE CacheAssumption DEF Rows
<1> DEFINE cap == GrownCap(t, caps[r])
<1>1. r \in Rows /\ caps[r] \in 0 .. AllocLimit /\ t >= caps[r] /\ cap <= AllocLimit
  BY DEF SetGrow, TypeOK
<1>2. cap \in Nat /\ caps[r] <= cap
  BY <1>1, GrownCapLarger
<1>3. t < cap
  BY DEF SetGrow
<1>4. caps' = [caps EXCEPT ![r] = cap] /\ caps'[r] = cap
  BY <1>1 DEF SetGrow, TypeOK
<1>5. map' = [map EXCEPT ![r] = Assign(GrownRow(map[r], caps[r], cap), t, n)]
  BY DEF SetGrow
<1>6. Assign(GrownRow(map[r], caps[r], cap), t, n) =
        [i \in 0 .. cap - 1 |->
            IF i = t THEN n ELSE IF i < caps[r] THEN map[r][i] ELSE NoNode]
  BY DEF Assign, GrownRow
<1> QED BY <1>1, <1>2, <1>3, <1>4, <1>5, <1>6

\* A row regrown without its new entry: the id is twice the old capacity.
LEMMA SlackStep ==
    ASSUME TypeOK, NEW r \in RuleIds, NEW t \in TokenIds, NEW n \in Nodes,
           SetIntoSlack(r, t, n)
    PROVE  /\ r \in Rows
           /\ caps' = [caps EXCEPT ![r] = GrownCap(t, caps[r])]
           /\ caps[r] <= caps'[r]
           /\ caps'[r] \in Nat
           /\ t = 2 * caps[r]
           /\ map' = [map EXCEPT ![r] =
                        [i \in 0 .. caps'[r] - 1 |->
                            IF i < caps[r] THEN map[r][i] ELSE NoNode]]
<1> USE CacheAssumption DEF Rows
<1> DEFINE cap == GrownCap(t, caps[r])
<1>1. /\ r \in Rows /\ caps[r] \in 0 .. AllocLimit
      /\ t >= caps[r] /\ cap <= AllocLimit /\ t >= cap
  BY DEF SetIntoSlack, OverrunsRow, TypeOK
<1>2. cap \in Nat /\ caps[r] <= cap /\ (t # 2 * caps[r] /\ t # 0 => t < cap)
  BY <1>1, GrownCapLarger
<1>3. t = 0 => t = 2 * caps[r]
  BY <1>1
<1>4. t = 2 * caps[r]
  BY <1>1, <1>2, <1>3
<1>5. caps' = [caps EXCEPT ![r] = cap] /\ caps'[r] = cap
  BY <1>1 DEF SetIntoSlack, TypeOK
<1>6. map' = [map EXCEPT ![r] = GrownRow(map[r], caps[r], cap)]
  BY DEF SetIntoSlack
<1> QED BY <1>1, <1>2, <1>4, <1>5, <1>6 DEF GrownRow

\* A set destroys memory outside the table only at twice the capacity.
LEMMA OverrunStep ==
    ASSUME TypeOK, NEW r \in RuleIds, NEW t \in TokenIds, NEW n \in Nodes,
           SetOverrun(r, t, n)
    PROVE  t = 2 * caps[r] /\ phase' = "undefined" /\ map' = map /\ caps' = caps
<1> USE CacheAssumption DEF Rows
<1> DEFINE cap == GrownCap(t, caps[r])
<1>1. /\ caps[r] \in 0 .. AllocLimit
      /\ t >= caps[r] /\ cap <= AllocLimit /\ t >= cap
  BY DEF SetOverrun, OverrunsRow, TypeOK
<1>2. cap \in Nat /\ (t # 2 * caps[r] /\ t # 0 => t < cap)
  BY <1>1, GrownCapLarger
<1>3. t = 0 => t = 2 * caps[r]
  BY <1>1
<1> QED BY <1>1, <1>2, <1>3 DEF SetOverrun

\* No call makes the capacity of a row smaller while the table is live.
LEMMA StepGrowth ==
    ASSUME TypeOK, [Next]_vars, phase = "live", phase' = "live"
    PROVE  \A r \in Rows : caps[r] <= caps'[r]
<1> USE CacheAssumption DEF Rows
<1>1. CASE UNCHANGED vars
  BY <1>1 DEF vars, TypeOK
<1>2. ASSUME NEW r \in RuleIds, NEW t \in TokenIds, NEW n \in Nodes,
             PackratCache_set(r, t, n)
      PROVE  \A q \in Rows : caps[q] <= caps'[q]
  <2>1. CASE SetGrow(r, t, n)
    <3>1. caps' = [caps EXCEPT ![r] = GrownCap(t, caps[r])] /\ caps[r] <= caps'[r]
      BY <2>1, GrowStep
    <3> QED BY <3>1 DEF TypeOK
  <2>2. CASE SetIntoSlack(r, t, n)
    <3>1. caps' = [caps EXCEPT ![r] = GrownCap(t, caps[r])] /\ caps[r] <= caps'[r]
      BY <2>2, SlackStep
    <3> QED BY <3>1 DEF TypeOK
  <2>3. CASE ~SetGrow(r, t, n) /\ ~SetIntoSlack(r, t, n)
    <3>1. caps' = caps
      BY <1>2, <2>3 DEF PackratCache_set, SetUnknownRule, SetInRow, SetOverrun, SetNoMemory
    <3> QED BY <3>1 DEF TypeOK
  <2> QED BY <2>1, <2>2, <2>3
<1>3. CASE InitNoTable \/ PackratCache_dest \/ UseFreed
             \/ InitNoRow \/ \E c \in InitCaps : InitOk(c)
  BY <1>3 DEF InitOk, InitNoTable, InitNoRow, UseFreed, PackratCache_dest
<1> QED BY <1>1, <1>2, <1>3 DEF Next

\* Growth keeps what was stored: the memcpy never runs past the new row.
THEOREM Monotone == Spec => GrowthNeverShrinks
<1>1. TypeOK /\ [Next]_vars => [phase = "live" /\ phase' = "live"
                                  => \A r \in Rows : caps[r] <= caps'[r]]_vars
  BY StepGrowth
<1> QED BY <1>1, TypeCorrect, PTL DEF Spec, GrowthNeverShrinks

\* A reported success stayed inside the row and is what the next get finds, off
\* the one boundary: only a set at twice the capacity can leave the row.
THEOREM Visible == Spec => SuccessIsVisible
<1> USE CacheAssumption DEF Rows
<1> DEFINE A == (/\ sets' # sets
                 /\ last'.ret = Succeeded
                 /\ last'.tok # 2 * caps[last'.rule])
                 => /\ phase' = "live"
                    /\ PackratCache_get(last.rule, last.tok)' = last'.node
<1>1. ASSUME TypeOK, Next PROVE A
  <2>1. CASE sets' = sets
    BY <2>1
  <2>2. ASSUME NEW r \in RuleIds, NEW t \in TokenIds, NEW n \in Nodes,
               PackratCache_set(r, t, n)
        PROVE  A
    <3>1. CASE SetUnknownRule(r, t, n) \/ SetNoMemory(r, t, n)
      BY <3>1 DEF SetUnknownRule, SetNoMemory, SetCall, Succeeded, Failed, NoMemory
    <3>0. phase = "live"
      BY <2>2 DEF PackratCache_set
    <3>2. CASE SetInRow(r, t, n)
      BY <1>1, <3>0, <3>2 DEF SetInRow, SetCall, Assign, PackratCache_get, TypeOK
    <3>3. CASE SetGrow(r, t, n)
      <4>1. last'.rule = r /\ last'.tok = t /\ last'.node = n
        BY <3>3 DEF SetGrow, SetCall
      <4>2. r \in Rows /\ t \in Nat
        BY <1>1, <3>3, GrowStep
      <4>3. t < caps'[r] /\ map'[r][t] = n
        BY <1>1, <3>3, <4>2, GrowStep DEF TypeOK
      <4>4. phase' = "live"
        BY <3>0, <3>3 DEF SetGrow
      <4> QED BY <1>1, <3>3, <4>1, <4>2, <4>3, <4>4, GrowStep DEF PackratCache_get
    <3>4. CASE SetIntoSlack(r, t, n)
      <4>1. t = 2 * caps[r] /\ last'.rule = r /\ last'.tok = t
        BY <1>1, <3>4, SlackStep DEF SetIntoSlack, SetCall
      <4> QED BY <4>1
    <3>5. CASE SetOverrun(r, t, n)
      <4>1. t = 2 * caps[r] /\ last'.rule = r /\ last'.tok = t
        BY <1>1, <3>5, OverrunStep DEF SetOverrun, SetCall
      <4> QED BY <4>1
    <3> QED BY <2>2, <3>1, <3>2, <3>3, <3>4, <3>5 DEF PackratCache_set
  <2> QED BY <1>1, <2>1, <2>2
          DEF Next, InitOk, InitNoTable, InitNoRow, UseFreed, PackratCache_dest
<1>2. TypeOK /\ [Next]_vars => [A]_vars
  BY <1>1
<1> QED BY <1>2, TypeCorrect, PTL DEF Spec, SuccessIsVisible

-----------------------------------------------------------------------------
(* The array implements the lossy memo the rule engine relies on *)

\* A regrown row shows what the old one did, and the new entry.
LEMMA GrowView ==
    ASSUME TypeOK, NEW r \in RuleIds, NEW t \in TokenIds, NEW n \in Nodes,
           SetGrow(r, t, n), NEW q \in RuleIds, NEW i \in TokenIds
    PROVE  PackratCache_get(q, i)' =
             IF q = r /\ i = t THEN n ELSE PackratCache_get(q, i)
<1> USE CacheAssumption DEF Rows
<1>1. /\ r \in Rows
      /\ caps' = [caps EXCEPT ![r] = GrownCap(t, caps[r])]
      /\ caps[r] <= caps'[r]
      /\ caps'[r] \in Nat
      /\ t < caps'[r]
      /\ map' = [map EXCEPT ![r] =
                   [j \in 0 .. caps'[r] - 1 |->
                       IF j = t THEN n
                       ELSE IF j < caps[r] THEN map[r][j] ELSE NoNode]]
  BY GrowStep
<1>2. caps \in [Rows -> Nat] /\ DOMAIN map = Rows /\ t >= caps[r] /\ i \in Nat /\ t \in Nat
  BY DEF TypeOK, SetGrow
<1>3. CASE q # r
  <2>1. q \in Rows => caps'[q] = caps[q] /\ map'[q] = map[q]
    BY <1>1, <1>2, <1>3
  <2> QED BY <1>3, <2>1 DEF PackratCache_get
<1>4. CASE q = r
  <2> DEFINE row == [j \in 0 .. caps'[r] - 1 |->
                       IF j = t THEN n
                       ELSE IF j < caps[r] THEN map[r][j] ELSE NoNode]
  <2>1. map'[r] = row
    BY <1>1, <1>2
  <2>2. i < caps'[r] => row[i] = IF i = t THEN n
                                 ELSE IF i < caps[r] THEN map[r][i] ELSE NoNode
    BY <1>1, <1>2
  <2> HIDE DEF row
  <2>3. r < NRules
    BY <1>1
  <2>4. CASE i < caps'[r]
    <3>1. PackratCache_get(r, i)' = row[i]
      BY <2>1, <2>3, <2>4, <1>1, <1>2 DEF PackratCache_get
    <3> QED BY <3>1, <2>2, <2>3, <2>4, <1>1, <1>2, <1>4 DEF PackratCache_get
  <2>5. CASE ~(i < caps'[r])
    <3>1. PackratCache_get(r, i)' = NoNode /\ PackratCache_get(r, i) = NoNode
      BY <2>3, <2>5, <1>1, <1>2 DEF PackratCache_get
    <3>2. i # t
      BY <2>5, <1>1
    <3> QED BY <3>1, <3>2, <1>4
  <2> QED BY <2>4, <2>5
<1> QED BY <1>3, <1>4

\* A row regrown without its new entry shows what the old one did.
LEMMA SlackView ==
    ASSUME TypeOK, NEW r \in RuleIds, NEW t \in TokenIds, NEW n \in Nodes,
           SetIntoSlack(r, t, n), NEW q \in RuleIds, NEW i \in TokenIds
    PROVE  PackratCache_get(q, i)' = PackratCache_get(q, i)
<1> USE CacheAssumption DEF Rows
<1>1. /\ r \in Rows
      /\ caps' = [caps EXCEPT ![r] = GrownCap(t, caps[r])]
      /\ caps[r] <= caps'[r]
      /\ caps'[r] \in Nat
      /\ map' = [map EXCEPT ![r] =
                   [j \in 0 .. caps'[r] - 1 |->
                       IF j < caps[r] THEN map[r][j] ELSE NoNode]]
  BY SlackStep
<1>2. caps \in [Rows -> Nat] /\ DOMAIN map = Rows /\ i \in Nat
  BY DEF TypeOK
<1>3. CASE q # r
  <2>1. q \in Rows => caps'[q] = caps[q] /\ map'[q] = map[q]
    BY <1>1, <1>2, <1>3
  <2>2. q \in Nat /\ (q < NRules => q \in Rows)
    OBVIOUS
  <2> QED BY <2>1, <2>2 DEF PackratCache_get
<1>4. CASE q = r
  <2>1. i < caps'[r] => map'[r][i] = IF i < caps[r] THEN map[r][i] ELSE NoNode
    BY <1>1, <1>2
  <2>2. r < NRules
    BY <1>1
  <2> QED BY <1>1, <1>2, <1>4, <2>1, <2>2 DEF PackratCache_get
<1> QED BY <1>3, <1>4

\* Storing in place changes the entry it is for and no other.
LEMMA InRowView ==
    ASSUME TypeOK, NEW r \in RuleIds, NEW t \in TokenIds, NEW n \in Nodes,
           SetInRow(r, t, n), NEW q \in RuleIds, NEW i \in TokenIds
    PROVE  PackratCache_get(q, i)' =
             IF q = r /\ i = t THEN n ELSE PackratCache_get(q, i)
<1> USE CacheAssumption DEF Rows
<1>1. /\ r \in Rows /\ r \in Nat /\ t \in Nat /\ i \in Nat /\ q \in Nat
      /\ t < caps[r] /\ caps' = caps
      /\ map' = [map EXCEPT ![r] = Assign(map[r], t, n)]
  BY DEF SetInRow
<1>2. DOMAIN map = Rows /\ caps \in [Rows -> Nat] /\ map[r] \in [0 .. caps[r] - 1 -> Nodes \cup {NoNode}]
  BY <1>1 DEF TypeOK
<1>3. CASE q # r
  <2>1. q \in Rows => map'[q] = map[q]
    BY <1>1, <1>2, <1>3
  <2> QED BY <1>1, <1>3, <2>1 DEF PackratCache_get
<1>4. CASE q = r
  <2>1. i < caps[r] => map'[r][i] = IF i = t THEN n ELSE map[r][i]
    BY <1>1, <1>2 DEF Assign
  <2> QED BY <1>1, <1>2, <1>4, <2>1 DEF PackratCache_get
<1> QED BY <1>3, <1>4

\* The array is a lossy memo: every call either stores exactly the result it
\* was given, empties the table, leaves what get returns as it was, or is the
\* first access outside the table's memory, after which nothing is promised.
\* Visible says that of the sets only those at twice the capacity can be that.
THEOREM Refinement == Spec => ImplementsLossyMemo
<1> USE CacheAssumption DEF Rows
<1> DEFINE Intact == phase # "undefined"
<1>1. Init => Memo!Init
  <2> SUFFICES ASSUME Init
               PROVE  /\ memoView = [k \in RuleIds \X TokenIds |-> NoNode]
                      /\ Intact = TRUE
    BY Zenon DEF Memo!Init
  <2>1. \A r \in RuleIds, t \in TokenIds : PackratCache_get(r, t) = NoNode
    BY DEF Init, PackratCache_get
  <2>2. phase = "fresh"
    BY DEF Init
  <2> QED BY <2>1, <2>2 DEF memoView
<1>2. ASSUME TypeOK, TypeOK', [Next]_vars
      PROVE  Memo!Next \/ UNCHANGED <<memoView, Intact>>
  <2> DEFINE Same == \A q \in RuleIds, i \in TokenIds :
                       PackratCache_get(q, i)' = PackratCache_get(q, i)
             Emptied == \A q \in RuleIds, i \in TokenIds :
                          PackratCache_get(q, i)' = NoNode
             Stored(r, t, n) == \A q \in RuleIds, i \in TokenIds :
                                  PackratCache_get(q, i)' =
                                    IF q = r /\ i = t THEN n ELSE PackratCache_get(q, i)
             Sound == phase # "undefined" /\ phase' # "undefined"
  <2>1. Same /\ (phase' = phase \/ Sound) => UNCHANGED <<memoView, Intact>>
    BY DEF memoView
  <2>2. Emptied /\ Sound => Memo!Next
    <3>1. Emptied => memoView' = [k \in RuleIds \X TokenIds |-> NoNode]
      BY DEF memoView
    <3>2. Sound => Intact /\ UNCHANGED Intact
      OBVIOUS
    <3> QED BY <3>1, <3>2 DEF Memo!Next, Memo!Discard
  <2>3. ASSUME NEW r \in RuleIds, NEW t \in TokenIds, NEW n \in Nodes,
               Stored(r, t, n), Sound
        PROVE  Memo!Next
    <3>0. ASSUME NEW k \in RuleIds \X TokenIds
          PROVE  PackratCache_get(k[1], k[2])' =
                   IF k = <<r, t>> THEN n ELSE PackratCache_get(k[1], k[2])
      <4>1. k[1] \in RuleIds /\ k[2] \in TokenIds /\ k = <<k[1], k[2]>>
        OBVIOUS
      <4>2. k = <<r, t>> <=> (k[1] = r /\ k[2] = t)
        BY <4>1
      <4> QED BY <2>3, <4>1, <4>2
    <3>1. memoView' = [memoView EXCEPT ![<<r, t>>] = n]
      BY <3>0 DEF memoView
    <3>2. Intact /\ UNCHANGED Intact
      BY <2>3
    <3>3. Memo!Store(<<r, t>>, n)
      BY <3>1, <3>2 DEF Memo!Store
    <3>4. <<r, t>> \in RuleIds \X TokenIds
      OBVIOUS
    <3> QED BY <3>3, <3>4 DEF Memo!Next
  <2>4. phase' = "undefined" => Memo!Next
    <3>1. ASSUME NEW k \in RuleIds \X TokenIds
          PROVE  PackratCache_get(k[1], k[2])' \in Nodes \cup {NoNode}
      <4>1. k[1] \in Nat /\ k[2] \in Nat
        OBVIOUS
      <4>2. k[1] < NRules => k[1] \in Rows
        BY <4>1
      <4>3. k[1] \in Rows => /\ caps'[k[1]] \in Nat
                             /\ map'[k[1]] \in [0 .. caps'[k[1]] - 1 -> Nodes \cup {NoNode}]
        BY <1>2 DEF TypeOK
      <4> QED BY <4>1, <4>2, <4>3 DEF PackratCache_get
    <3>2. memoView' \in [RuleIds \X TokenIds -> Nodes \cup {NoNode}]
      BY <3>1 DEF memoView
    <3> SUFFICES ASSUME phase' = "undefined"
                 PROVE  Memo!Next
      OBVIOUS
    <3>3. Intact' = FALSE
      OBVIOUS
    <3> QED BY <3>2, <3>3 DEF Memo!Next, Memo!Break
  <2>5. CASE UNCHANGED vars
    BY <2>1, <2>5 DEF vars, PackratCache_get
  <2>6. CASE InitNoTable \/ InitNoRow
    <3>1. map' = map /\ caps' = caps /\ Sound
      BY <2>6 DEF InitNoTable, InitNoRow
    <3> QED BY <3>1, <2>1 DEF PackratCache_get
  <2>7. CASE UseFreed
    BY <2>4, <2>7 DEF UseFreed
  <2>8. ASSUME NEW c \in InitCaps, InitOk(c)
        PROVE  Memo!Next
    <3>1. EffectiveCap(c) \in Nat
      BY DEF EffectiveCap
    <3>2. Sound
      BY <2>8 DEF InitOk
    <3> QED BY <2>2, <2>8, <3>1, <3>2 DEF InitOk, ZeroRow, PackratCache_get
  <2>9. CASE PackratCache_dest
    <3>1. (\A r \in Rows : caps'[r] = 0) /\ Sound
      BY <2>9 DEF PackratCache_dest
    <3>2. NRules \in Nat /\ RuleIds \subseteq Nat /\ TokenIds \subseteq Nat
      OBVIOUS
    <3>3. Emptied
      BY <3>1, <3>2 DEF PackratCache_get
    <3> QED BY <2>2, <3>1, <3>3
  <2>10. ASSUME NEW r \in RuleIds, NEW t \in TokenIds, NEW n \in Nodes,
                PackratCache_set(r, t, n)
         PROVE  Memo!Next \/ UNCHANGED <<memoView, Intact>>
    <3>0. phase = "live"
      BY <2>10 DEF PackratCache_set
    <3>1. CASE SetUnknownRule(r, t, n) \/ SetNoMemory(r, t, n)
      <4>1. map' = map /\ caps' = caps /\ phase' = phase
        BY <3>1 DEF SetUnknownRule, SetNoMemory
      <4> QED BY <4>1, <2>1 DEF PackratCache_get
    <3>2. CASE SetInRow(r, t, n)
      <4>1. Sound
        BY <3>0, <3>2 DEF SetInRow
      <4> QED BY <1>2, <3>2, <4>1, <2>3, InRowView
    <3>3. CASE SetGrow(r, t, n)
      <4>1. Sound
        BY <3>0, <3>3 DEF SetGrow
      <4> QED BY <1>2, <3>3, <4>1, <2>3, GrowView
    <3>4. CASE SetIntoSlack(r, t, n)
      <4>1. phase' = phase
        BY <3>4 DEF SetIntoSlack
      <4> QED BY <1>2, <3>4, <4>1, <2>1, SlackView
    <3>5. CASE SetOverrun(r, t, n)
      BY <2>4, <3>5 DEF SetOverrun
    <3> QED BY <2>10, <3>1, <3>2, <3>3, <3>4, <3>5 DEF PackratCache_set
  <2> QED BY <1>2, <2>5, <2>6, <2>7, <2>8, <2>9, <2>10 DEF Next
<1>3. TypeOK /\ TypeOK' /\ [Next]_vars => [Memo!Next]_<<memoView, Intact>>
  BY <1>2
<1> QED BY <1>1, <1>3, TypeCorrect, PTL DEF Spec, ImplementsLossyMemo, Memo!Spec
==============================================================================
