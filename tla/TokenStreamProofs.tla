------------------------- MODULE TokenStreamProofs --------------------------
(***************************************************************************)
(* Proofs about TokenStream and Lexing, for every set of strings, every     *)
(* token rule and any number of Parser_parse calls on one parser.           *)
(*                                                                          *)
(* An address says much about its token: addresses and ids are given out    *)
(* together, so the id is the address less three, and the tokens of the     *)
(* string being parsed are the last ones.  What the loop of Parser_tokenize *)
(* has linked between its sentinels is the history kept, and the list of    *)
(* the parser is a sequence that kept is put into by Parser_parse.          *)
(*                                                                          *)
(* In Lexing a cached result may lead the parser off its list, to a token   *)
(* that was skipped.  Core is what holds wherever it stands; of the list no *)
(* more is left than that the links from the head do not leave a set of     *)
(* tokens that have been cut.                                               *)
(***************************************************************************)
EXTENDS Lexing, SetInduction, FiniteSetTheorems

-----------------------------------------------------------------------------
(* The invariant *)

\* How many tokens there are.
Size == Cardinality(Pool)

\* The sentinels on the stack frame of Parser_tokenize.
Locals == {local_head, local_tail}

\* A token, its two links addresses or Null.
Token == [string : Nat, off : Nat, length : Nat, id : Nat, coords : Nat \X Nat, prev : Int, next : Int]

\* The tokens by address: two sentinels, then the tokens in the order they were
\* made, and the sentinels of Parser_tokenize once it has been called.
Addressed ==
    /\ Size \in Nat /\ Size >= 2 /\ Pool = 1 .. Size
    /\ ntokens = Size - 2
    /\ \A a \in DOMAIN tokens :
          /\ tokens[a] \in Token
          /\ {tokens[a].prev, tokens[a].next} \subseteq DOMAIN tokens \cup {Null}
          /\ a < 3 => tokens[a].string = 0 /\ tokens[a].length = 0
          /\ a >= 3 => /\ tokens[a].string \in 1 .. parses
                       /\ tokens[a].length > 0
                       /\ tokens[a].id = a - 3
                       /\ tokens[a].coords[1] > 0 /\ tokens[a].coords[2] > 0

\* The state of a call.
Called ==
    /\ pc \in {"idle", "loop", "link", "parse", "undefined"}
    /\ status \in {0, 1}
    /\ parses \in Nat
    /\ text \in Seq(STRING)
    /\ pc # "idle" => parses > 0
    /\ token_cur \in DOMAIN tokens

\* The tokens kept are of this string, in the order they were made.
Kept ==
    /\ kept \in Seq(3 .. Size)
    /\ \A i \in 1 .. Len(kept) : tokens[kept[i]].string = parses
    /\ \A i, j \in 1 .. Len(kept) : i < j => kept[i] < kept[j]

\* A round was made for a character before the rest, or has just failed on it.
Rounds ==
    /\ rounds \in Nat
    /\ pc = "loop" => rounds <= IF token_cur = local_tail THEN Len(text) ELSE tokens[token_cur].off + status
    /\ rounds <= Len(text)

\* Results are cached under the id the address stands for, or for the tail.
CachedById ==
    \A c \in cached : \/ \E a \in 3 .. Size : c = <<a - 3, a>>
                      \/ \E id \in Nat : c = <<id, token_tail>>

\* What is before and behind the i-th token kept, in the loop.
Before(i) == IF i = 1 THEN local_head ELSE kept[i - 1]
Behind(i) == IF i = Len(kept) THEN token_cur ELSE kept[i + 1]

\* The loop stands on the rest of the string, the last token made, or at the end.
\* Between the local sentinels are the tokens kept and the rest.
Local ==
    /\ Locals \subseteq DOMAIN tokens
    /\ \/ token_cur = local_tail
       \/ /\ token_cur = Size /\ Size >= 3 /\ tokens[Size].string = parses
          /\ tokens[Size].next = local_tail /\ tokens[local_tail].prev = Size
          /\ \A i \in 1 .. Len(kept) : kept[i] < Size
    /\ status = 1 => token_cur # local_tail
    /\ tokens[local_head].next = Behind(0)
    /\ tokens[token_cur].prev = Before(Len(kept) + 1)
    /\ \A i \in 1 .. Len(kept) : tokens[kept[i]].prev = Before(i) /\ tokens[kept[i]].next = Behind(i)

\* What Parser_tokenize has returned.
Returned ==
    IF kept = << >> THEN start \notin Pool
    ELSE /\ start = kept[1] /\ end = kept[Len(kept)]
         /\ \A i \in 1 .. Len(kept) - 1 : /\ tokens[kept[i]].next = kept[i + 1]
                                          /\ tokens[kept[i + 1]].prev = kept[i]

\* The token the parser stands on, or will again when the loop is left.
Anchor == IF pc = "loop" THEN reset ELSE token_cur

\* The parser stands on a token, an earlier string's while a string is cut, and
\* the tail is behind one.
Anchored ==
    /\ Anchor \in Pool
    /\ pc \in {"loop", "link"} => tokens[Anchor].string # parses
    /\ tokens[token_tail].prev \in Pool

\* What holds wherever in the pool the parser stands.
Core ==
    /\ Addressed /\ Called /\ Kept /\ Rounds /\ CachedById /\ Anchored
    /\ NoCharLost /\ CoordsFollowText
    /\ pc = "loop" => Local
    /\ (pc = "link" /\ status = 0) => Returned

\* g is the list of the parser, n long.
Listed(g, n) ==
    /\ n \in Nat /\ n >= 2
    /\ g \in [1 .. n -> 1 .. Size]
    /\ g[1] = token_head /\ g[n] = token_tail
    /\ \A i, j \in 1 .. n : g[i] = g[j] => i = j
    /\ \A i \in 1 .. n - 1 : tokens[g[i]].next = g[i + 1] /\ tokens[g[i + 1]].prev = g[i]
    /\ tokens[token_tail].next = Null

\* The parser stands on the list, which has none of the tokens that are being made.
Standing(g, n) ==
    /\ Listed(g, n)
    /\ \E p \in 1 .. n : g[p] = Anchor
    /\ pc = "parse" => token_cur # token_head
    /\ pc \in {"loop", "link"} => \A i \in 1 .. n : tokens[g[i]].string # parses

\* The list around the first string.
FirstString(g, n) ==
    /\ (parses = 0 \/ (parses = 1 /\ pc \in {"loop", "link"})) => n = 2 /\ Anchor = token_head
    /\ (parses = 1 /\ pc = "parse") =>
            /\ n = Len(kept) + 2 /\ kept # << >>
            /\ \A i \in 1 .. Len(kept) : g[i + 1] = kept[i]
            /\ token_cur = kept[1]
            /\ tokens[token_tail].id > kept[Len(kept)] - 3

\* The parser stands on its list.
OnList == \E n \in Nat : \E g : Standing(g, n) /\ FirstString(g, n)

\* The invariant.
Inv == Core /\ FirstStringSafe /\ OnList

-----------------------------------------------------------------------------
(* Addresses and positions *)

\* The pool is as large as its last address.
LEMMA PoolSize ==
    ASSUME NEW n \in Nat
    PROVE  IsFiniteSet(1 .. n) /\ Cardinality(1 .. n) = n
<1>1. 1 \in Int /\ n \in Int /\ (IF 1 > n THEN 0 ELSE n - 1 + 1) = n
  OBVIOUS
<1> QED BY <1>1, FS_Interval

\* A set of numbers up to n that is not empty has a last one.
LEMMA LastIsGreatest ==
    ASSUME NEW n \in Nat, NEW S \in SUBSET (1 .. n), S # {}
    PROVE  LastOf(S) \in S /\ \A j \in S : j <= LastOf(S)
<1> DEFINE T == {m \in Nat : \E i \in S : m = n - i}
<1>1. T \in SUBSET Nat /\ T # {}
  <2>1. PICK i \in S : TRUE
    OBVIOUS
  <2>2. n - i \in T
    BY <2>1
  <2> QED BY <2>2
<1>2. PICK k \in T : \A m \in T : k <= m
  BY <1>1, LeastElement
<1>3. PICK i \in S : k = n - i
  BY <1>2
<1>4. \A j \in S : j <= i
  <2> TAKE j \in S
  <2>1. n - j \in T /\ i \in Int /\ j \in Int
    OBVIOUS
  <2> HIDE DEF T
  <2>2. k <= n - j
    BY <1>2, <2>1
  <2> QED BY <1>3, <2>1, <2>2
<1> QED BY <1>4 DEF LastOf

\* Newlines in a stretch of text and those before it.
LEMMA NewlinesAdd ==
    ASSUME NEW off \in Nat, NEW len \in Nat, NEW tok, tok.off = off, tok.length = len
    PROVE  /\ IsFiniteSet(NewlinesIn(tok)) /\ Cardinality(NewlinesIn(tok)) \in Nat
           /\ NewlinesIn(tok) # {} => Cardinality(NewlinesIn(tok)) > 0
           /\ Cardinality(NewlinesBelow(off)) \in Nat
           /\ Cardinality(NewlinesBelow(off + len)) = Cardinality(NewlinesBelow(off)) + Cardinality(NewlinesIn(tok))
<1>1. NewlinesIn(tok) \in SUBSET (1 .. off + len) /\ NewlinesBelow(off) \in SUBSET (1 .. off)
  BY DEF NewlinesIn, NewlinesBelow
<1>2. IsFiniteSet(NewlinesIn(tok)) /\ IsFiniteSet(NewlinesBelow(off))
  BY <1>1, PoolSize, FS_Subset
<1>3. Cardinality(NewlinesIn(tok)) \in Nat /\ Cardinality(NewlinesBelow(off)) \in Nat
  BY <1>2, FS_CardinalityType
<1>4. /\ NewlinesBelow(off + len) = NewlinesBelow(off) \cup NewlinesIn(tok)
      /\ NewlinesBelow(off) \cap NewlinesIn(tok) = {}
  BY DEF NewlinesIn, NewlinesBelow
<1>5. Cardinality(NewlinesBelow(off) \cap NewlinesIn(tok)) = 0
  BY <1>4, FS_EmptySet
<1>6. Cardinality(NewlinesBelow(off) \cup NewlinesIn(tok)) =
        Cardinality(NewlinesBelow(off)) + Cardinality(NewlinesIn(tok))
          - Cardinality(NewlinesBelow(off) \cap NewlinesIn(tok))
  BY <1>2, FS_Union
<1>7. NewlinesIn(tok) # {} => Cardinality(NewlinesIn(tok)) # 0
  BY <1>2, FS_EmptySet
<1> QED BY <1>2, <1>3, <1>4, <1>5, <1>6, <1>7

\* Where a token ends: a later line if it has a newline, else as many columns on.
LEMMA EndPosition ==
    ASSUME NEW tok \in Token, tok.coords[1] > 0, tok.coords[2] > 0
    PROVE  LET e == Parser_get_line_col_end(tok) IN
           /\ e \in Nat \X Nat /\ e[1] > 0 /\ e[2] > 0
           /\ e[1] = tok.coords[1] + Cardinality(NewlinesIn(tok))
           /\ e[1] = tok.coords[1] => e[2] = tok.coords[2] + tok.length
<1> DEFINE nl == NewlinesIn(tok)
           col == IF nl = {} THEN tok.coords[2] + tok.length ELSE tok.off + tok.length - LastOf(nl)
           e == <<tok.coords[1] + Cardinality(nl), IF col = 0 THEN 1 ELSE col>>
<1>1. /\ tok.off \in Nat /\ tok.length \in Nat
      /\ tok.coords[1] \in Nat /\ tok.coords[2] \in Nat
  BY DEF Token
<1>2. Cardinality(nl) \in Nat /\ (nl # {} => Cardinality(nl) > 0)
  BY <1>1, NewlinesAdd
<1>3. nl # {} => LastOf(nl) \in tok.off + 1 .. tok.off + tok.length
  <2>1. \A i \in nl : i \in tok.off + 1 .. tok.off + tok.length
    BY DEF NewlinesIn
  <2>2. nl \in SUBSET (1 .. tok.off + tok.length)
    BY <1>1, <2>1
  <2> HIDE DEF nl
  <2>3. tok.off + tok.length \in Nat
    BY <1>1
  <2>4. nl # {} => LastOf(nl) \in nl
    BY <2>2, <2>3, LastIsGreatest
  <2> QED BY <2>1, <2>4
<1> HIDE DEF nl
<1>4. col \in Nat /\ (nl = {} => col = tok.coords[2] + tok.length /\ col > 0)
  BY <1>1, <1>3
<1> HIDE DEF col
<1>5. /\ e \in Nat \X Nat /\ e[1] = tok.coords[1] + Cardinality(nl) /\ e[1] > 0 /\ e[2] > 0
      /\ e[1] = tok.coords[1] => e[2] = tok.coords[2] + tok.length
  BY <1>1, <1>2, <1>4
<1>6. Parser_get_line_col_end(tok) = e
  BY DEF Parser_get_line_col_end, e, col, nl
<1> HIDE DEF e
<1> QED BY <1>5, <1>6 DEF nl

\* The column after m characters of a token: it counts on from the token's own if there
\* is no newline in them, else from the last one.
EndsAt(e, tok, o, m) ==
    \/ NewlinesIn(tok) = {} /\ e[2] = tok.coords[2] + m
    \/ \E l \in o + 1 .. o + m :
          /\ text[l] = "newline"
          /\ \A i \in l + 1 .. o + m : text[i] # "newline"
          /\ e[2] = IF l = o + m THEN 1 ELSE o + m - l

LEMMA EndColumn ==
    ASSUME NEW tok \in Token, tok.coords[1] > 0, tok.coords[2] > 0,
           NEW o \in Nat, NEW m \in Nat, tok.off = o, tok.length = m
    PROVE  EndsAt(Parser_get_line_col_end(tok), tok, o, m)
<1> DEFINE nl == NewlinesIn(tok)
           col == IF nl = {} THEN tok.coords[2] + tok.length ELSE tok.off + tok.length - LastOf(nl)
           e == <<tok.coords[1] + Cardinality(nl), IF col = 0 THEN 1 ELSE col>>
<1>1. tok.coords[2] \in Nat
  BY DEF Token
<1>2. \A i \in nl : i \in o + 1 .. o + m /\ text[i] = "newline"
  BY DEF NewlinesIn
<1>3. \A i \in o + 1 .. o + m : text[i] = "newline" => i \in nl
  BY DEF NewlinesIn
<1> HIDE DEF nl
<1>4. Parser_get_line_col_end(tok) = e
  <2> HIDE DEF col, e
  <2> QED BY DEF Parser_get_line_col_end, e, col, nl
<1>5. e[2] = IF col = 0 THEN 1 ELSE col
  OBVIOUS
<1>6. CASE nl = {}
  <2>1. col = tok.coords[2] + m /\ col # 0
    BY <1>1, <1>6
  <2>2. e[2] = tok.coords[2] + m
    BY <1>5, <2>1
  <2> HIDE DEF e
  <2> QED BY <1>4, <1>6, <2>2 DEF EndsAt, nl
<1>7. CASE nl # {}
  <2> DEFINE l == LastOf(nl)
  <2>1. l \in nl /\ \A j \in nl : j <= l
    <3>1. nl \in SUBSET (1 .. o + m) /\ o + m \in Nat
      BY <1>2
    <3> QED BY <1>7, <3>1, LastIsGreatest
  <2>2. col = o + m - l
    BY <1>7
  <2> HIDE DEF l, col
  <2>3. l \in o + 1 .. o + m /\ text[l] = "newline"
    BY <1>2, <2>1
  <2>4. \A i \in l + 1 .. o + m : text[i] # "newline"
    <3> SUFFICES ASSUME NEW i \in l + 1 .. o + m, text[i] = "newline" PROVE FALSE
      OBVIOUS
    <3>1. i \in o + 1 .. o + m /\ i > l
      BY <2>3
    <3>2. i \in nl /\ i <= l
      BY <1>3, <2>1, <3>1
    <3> QED BY <2>3, <3>1, <3>2
  <2>5. e[2] = IF l = o + m THEN 1 ELSE o + m - l
    BY <1>5, <2>2, <2>3
  <2> HIDE DEF e
  <2> QED BY <1>4, <2>3, <2>4, <2>5 DEF EndsAt
<1> QED BY <1>6, <1>7

\* A token that starts later changes no column.
LEMMA ColumnStays ==
    ASSUME NEW o \in Nat, NEW col, NEW S, NEW new \in Nat, new > o, Column(col, o, S)
    PROVE  Column(col, o, S \cup {new})
<1>1. PICK bol \in 0 .. o : StartsLine(bol, o) /\ col = o - bol + IF bol \in S THEN 1 ELSE 0
  BY DEF Column
<1>2. bol \in S \cup {new} <=> bol \in S
  OBVIOUS
<1> QED BY <1>1, <1>2 DEF Column

\* The column m characters on, on the same line.
LEMMA ColumnAlong ==
    ASSUME NEW o \in Nat, NEW m \in Nat, m > 0, NEW col, NEW S, Column(col, o, S),
           \A i \in o + 1 .. o + m : text[i] # "newline"
    PROVE  Column(col + m, o + m, S \cup {o + m})
<1>1. PICK bol \in 0 .. o : StartsLine(bol, o) /\ col = o - bol + IF bol \in S THEN 1 ELSE 0
  BY DEF Column
<1>2. bol \in 0 .. o + m /\ bol # o + m
  OBVIOUS
<1>3. \A i \in bol + 1 .. o + m : i \in bol + 1 .. o \/ i \in o + 1 .. o + m
  OBVIOUS
<1>4. StartsLine(bol, o + m)
  BY <1>1, <1>2, <1>3 DEF StartsLine
<1>5. col + m = o + m - bol + IF bol \in S \cup {o + m} THEN 1 ELSE 0
  <2>1. bol \in S \cup {o + m} <=> bol \in S
    BY <1>2
  <2>2. CASE bol \in S
    BY <1>1, <2>1, <2>2
  <2>3. CASE bol \notin S
    BY <1>1, <2>1, <2>3
  <2> QED BY <2>2, <2>3
<1> QED BY <1>2, <1>4, <1>5 DEF Column

\* The column m characters on, when the last newline is l.
LEMMA ColumnAfterNewline ==
    ASSUME NEW o \in Nat, NEW m \in Nat, m > 0, NEW S, \A s \in S : s <= o,
           NEW l \in o + 1 .. o + m, text[l] = "newline",
           \A i \in l + 1 .. o + m : text[i] # "newline"
    PROVE  Column(IF l = o + m THEN 1 ELSE o + m - l, o + m, S \cup {o + m})
<1> DEFINE col == IF l = o + m THEN 1 ELSE o + m - l
<1>1. StartsLine(l, o + m) /\ l \in 0 .. o + m
  BY DEF StartsLine
<1>2. l \notin S
  OBVIOUS
<1>3. col = o + m - l + IF l \in S \cup {o + m} THEN 1 ELSE 0
  <2>1. CASE l = o + m
    BY <2>1
  <2>2. CASE l # o + m
    <3>1. l \notin S \cup {o + m} /\ col = o + m - l
      BY <1>2, <2>2
    <3> HIDE DEF col
    <3> QED BY <3>1
  <2> QED BY <2>1, <2>2
<1> QED BY <1>1, <1>3 DEF Column

\* Places change with the tokens of the string alone.
LEMMA CoordsKept ==
    ASSUME CoordsFollowText, UNCHANGED <<tokens, text>>, Mine' = Mine
    PROVE  CoordsFollowText'
<1>1. \A o : NewlinesBelow(o)' = NewlinesBelow(o)
  BY DEF NewlinesBelow
<1>2. \A col, o, S : Column(col, o, S)' = Column(col, o, S)
  BY DEF Column, StartsLine
<1> QED BY <1>1, <1>2 DEF CoordsFollowText

\* The empty parser.
LEMMA InitInv == Init => Inv
<1> SUFFICES ASSUME Init PROVE Inv
  OBVIOUS
<1> DEFINE g == [i \in 1 .. 2 |-> i]
<1>1. Pool = 1 .. 2 /\ DOMAIN tokens = 1 .. 2
  BY DEF Init, Pool, token_head, token_tail, local_head, local_tail
<1>2. Size = 2
  BY <1>1, PoolSize DEF Size
<1>3. /\ tokens[1] = Sentinel(0, Null, token_tail)
      /\ tokens[2] = Sentinel(SIZE_MAX, token_head, Null)
  BY DEF Init, token_head, token_tail
<1>4. tokens[1] \in Token /\ tokens[2] \in Token
  BY <1>3, TokenAssumption DEF Token, Sentinel, Null, token_head, token_tail
<1>5. Addressed
  BY <1>1, <1>2, <1>3, <1>4 DEF Init, Addressed, Sentinel, Null, token_head, token_tail
<1>6. Called /\ Kept /\ Rounds /\ CachedById /\ FirstStringSafe
  BY <1>1 DEF Init, Called, Kept, Rounds, CachedById, FirstStringSafe, token_head
<1>7. NoCharLost /\ CoordsFollowText
  BY DEF Init, NoCharLost, CoordsFollowText, Mine
<1>8. Listed(g, 2)
  BY <1>2, <1>3 DEF Listed, Sentinel, Null, token_head, token_tail
<1>9. Standing(g, 2) /\ FirstString(g, 2)
  BY <1>8 DEF Standing, FirstString, Anchor, Init, token_head
<1>10. Anchored
  BY <1>1, <1>3 DEF Init, Anchored, Anchor, Sentinel, token_head, token_tail
<1>11. Core
  BY <1>5, <1>6, <1>7, <1>10 DEF Core, Init
<1> QED BY <1>6, <1>9, <1>11 DEF Inv, OnList

-----------------------------------------------------------------------------
(* The list *)

\* A list is not longer than the pool.
LEMMA ListFits ==
    ASSUME NEW g, NEW n, Listed(g, n), Size \in Nat
    PROVE  n <= Size
<1> SUFFICES ASSUME Size < n PROVE FALSE
  BY DEF Listed
<1>1. n \in Nat
  BY DEF Listed
<1>2. /\ IsFiniteSet(1 .. n) /\ Cardinality(1 .. n) = n
      /\ IsFiniteSet(1 .. Size) /\ Cardinality(1 .. Size) = Size
  BY <1>1, PoolSize
<1>3. \E x, y \in 1 .. n : x # y /\ g[x] = g[y]
  <2> DEFINE A == 1 .. n
             B == 1 .. Size
  <2>1. IsFiniteSet(A) /\ IsFiniteSet(B) /\ Cardinality(B) < Cardinality(A) /\ g \in [A -> B]
    BY <1>2 DEF Listed
  <2> HIDE DEF A, B
  <2>2. \E x, y \in A : x # y /\ g[x] = g[y]
    BY <2>1, FS_PigeonHole
  <2> QED BY <2>2 DEF A
<1> QED BY <1>3 DEF Listed

\* The walk of After goes along the list to the tail and then stays nowhere.
LEMMA AfterIs ==
    ASSUME NEW g, NEW n, Listed(g, n), Size \in Nat, NEW p \in 1 .. n
    PROVE  /\ After(g[p]) = [i \in 1 .. n - p + 1 |-> g[p + i - 1]]
           /\ Len(After(g[p])) = n - p + 1
<1> DEFINE Eq(f) == f = [i \in 0 .. Size |->
                            IF i = 0 THEN g[p]
                            ELSE IF f[i - 1] = Null THEN Null ELSE tokens[f[i - 1]].next]
           f == [i \in 0 .. Size |-> IF i <= n - p THEN g[p + i] ELSE Null]
           R == CHOOSE h : Eq(h)
           S == {i \in Nat : i <= Size => R[i] = f[i]}
           W == {j \in DOMAIN R : R[j] # Null}
           m == n - p + 1
<1>1. /\ n \in Nat /\ p \in Nat /\ p >= 1 /\ p <= n /\ n <= Size
      /\ \A i \in 1 .. n : g[i] \in 1 .. Size /\ g[i] # Null
      /\ \A i \in 1 .. n - 1 : tokens[g[i]].next = g[i + 1]
      /\ tokens[g[n]].next = Null
  <2>1. n \in Nat /\ n <= Size /\ g[n] = token_tail
    BY ListFits DEF Listed
  <2>2. \A i \in 1 .. n : g[i] \in 1 .. Size /\ g[i] # Null
    BY DEF Listed, Null
  <2> QED BY <2>1, <2>2 DEF Listed
<1>2. \A i \in 0 .. Size : f[i] = IF i <= n - p THEN g[p + i] ELSE Null
  OBVIOUS
<1>3. ASSUME NEW i \in 1 .. Size
      PROVE  f[i] = IF f[i - 1] = Null THEN Null ELSE tokens[f[i - 1]].next
  <2>1. i - 1 \in 0 .. Size /\ i \in 0 .. Size
    OBVIOUS
  <2>2. CASE i <= n - p
    <3>1. /\ f[i] = g[p + i] /\ f[i - 1] = g[p + (i - 1)]
          /\ p + (i - 1) \in 1 .. n - 1 /\ (p + (i - 1)) + 1 = p + i
      BY <1>1, <1>2, <2>1, <2>2
    <3> HIDE DEF f
    <3> QED BY <1>1, <3>1
  <2>3. CASE i - 1 = n - p
    <3>1. f[i] = Null /\ f[i - 1] = g[n]
      BY <1>1, <1>2, <2>1, <2>3
    <3> QED BY <1>1, <3>1
  <2>4. CASE i - 1 > n - p
    BY <1>1, <1>2, <2>1, <2>4
  <2> QED BY <1>1, <2>2, <2>3, <2>4
<1>4. Eq(f)
  <2> DEFINE h == [i \in 0 .. Size |->
                      IF i = 0 THEN g[p] ELSE IF f[i - 1] = Null THEN Null ELSE tokens[f[i - 1]].next]
  <2>1. f[0] = g[p] /\ DOMAIN f = 0 .. Size
    BY <1>1
  <2>2. f = [i \in 0 .. Size |-> f[i]]
    OBVIOUS
  <2> HIDE DEF f
  <2>3. \A i \in 0 .. Size : f[i] = h[i]
    BY <1>3, <2>1
  <2> QED BY <2>2, <2>3
<1> HIDE DEF f
<1>5. Eq(R)
  <2> HIDE DEF Eq
  <2> QED BY <1>4
<1>6. After(g[p]) = [i \in 1 .. Cardinality(W) |-> R[i - 1]]
  BY DEF After, Size
<1> HIDE DEF R
<1>7. DOMAIN R = 0 .. Size
  BY <1>5
<1>8. \A i \in Nat : i \in S
  <2>1. 0 \in S
    BY <1>1, <1>2, <1>5
  <2>2. ASSUME NEW i \in Nat, i \in S PROVE i + 1 \in S
    <3> SUFFICES ASSUME i + 1 <= Size PROVE R[i + 1] = f[i + 1]
      OBVIOUS
    <3>1. i + 1 \in 1 .. Size /\ i + 1 \in 0 .. Size /\ (i + 1) - 1 = i /\ i + 1 # 0 /\ R[i] = f[i]
      BY <2>2
    <3>2. R[i + 1] = IF R[(i + 1) - 1] = Null THEN Null ELSE tokens[R[(i + 1) - 1]].next
      BY <1>5, <3>1
    <3>3. f[i + 1] = IF f[(i + 1) - 1] = Null THEN Null ELSE tokens[f[(i + 1) - 1]].next
      BY <1>3, <3>1
    <3> QED BY <3>1, <3>2, <3>3
  <2> HIDE DEF S
  <2> QED BY <2>1, <2>2, InductionOnSet
<1>9. \A i \in 0 .. Size : R[i] = IF i <= n - p THEN g[p + i] ELSE Null
  BY <1>2, <1>8
<1>10. W = 0 .. n - p
  <2>1. \A j \in 0 .. n - p : j \in 0 .. Size /\ p + j \in 1 .. n
    BY <1>1
  <2>2. ASSUME NEW j PROVE j \in W <=> j \in 0 .. n - p
    <3>1. ASSUME j \in 0 .. n - p PROVE j \in W
      <4>1. R[j] = g[p + j] /\ g[p + j] # Null
        BY <1>1, <1>9, <2>1, <3>1
      <4> QED BY <1>7, <2>1, <3>1, <4>1
    <3>2. ASSUME j \in W PROVE j \in 0 .. n - p
      <4>1. j \in 0 .. Size /\ R[j] # Null
        BY <1>7, <3>2
      <4> QED BY <1>1, <1>9, <4>1
    <3> QED BY <3>1, <3>2
  <2> QED BY <2>2
<1>11. Cardinality(W) = m
  <2>1. 0 \in Int /\ n - p \in Int /\ (IF 0 > n - p THEN 0 ELSE n - p - 0 + 1) = m
    BY <1>1
  <2> QED BY <1>10, <2>1, FS_Interval
<1>12. \A i \in 1 .. m : R[i - 1] = g[p + i - 1] /\ g[p + i - 1] \in 1 .. Size
  <2> TAKE i \in 1 .. m
  <2>1. i - 1 \in 0 .. Size /\ i - 1 <= n - p /\ p + (i - 1) = p + i - 1 /\ p + i - 1 \in 1 .. n
    BY <1>1
  <2> QED BY <1>1, <1>9, <2>1
<1>13. After(g[p]) = [i \in 1 .. m |-> g[p + i - 1]]
  BY <1>6, <1>11, <1>12
<1>14. Len(After(g[p])) = m
  <2>1. m \in Nat /\ [i \in 1 .. m |-> g[p + i - 1]] \in [1 .. m -> 1 .. Size]
    BY <1>1, <1>12
  <2> HIDE DEF m
  <2> QED BY <1>13, <2>1
<1> QED BY <1>13, <1>14

-----------------------------------------------------------------------------
(* A round of the loop: the rest of the string is cut *)

\* The token after the current one, when m characters have been cut off.
Behindcut(m) == IF m = tokens[token_cur].length THEN local_tail ELSE Size + 1

\* In t the current token has m characters, and x is a new one with the others or
\* the end.
Cut(t, m, x) ==
    /\ DOMAIN t = DOMAIN tokens \cup {x}
    /\ \A a \in DOMAIN t : t[a] \in Token
    /\ \A a \in DOMAIN tokens :
          /\ t[a].string = tokens[a].string /\ t[a].off = tokens[a].off
          /\ t[a].id = tokens[a].id /\ t[a].coords = tokens[a].coords
          /\ t[a].length = IF a = token_cur THEN m ELSE tokens[a].length
    /\ x # local_tail =>
          /\ t[x].string = tokens[token_cur].string /\ t[x].id = ntokens
          /\ t[x].off = tokens[token_cur].off + m
          /\ t[x].length = tokens[token_cur].length - m
          /\ t[x].coords = Parser_get_line_col_end([tokens[token_cur] EXCEPT !.length = m])

\* In t it is linked before x, and the links of all others are as they were.
Tied(t, x) ==
    /\ t[token_cur].next = x /\ t[x].prev = token_cur
    /\ t[token_cur].prev = tokens[token_cur].prev
    /\ t[local_tail].next = tokens[local_tail].next
    /\ x # local_tail => t[x].next = local_tail /\ t[local_tail].prev = x
    /\ \A a \in DOMAIN tokens \ {token_cur, local_tail} :
          t[a].prev = tokens[a].prev /\ t[a].next = tokens[a].next

\* What the loop knows of its current token while there is something left.
LEMMA CurrentRest ==
    ASSUME Addressed, Local, tokens[token_cur].length > 0
    PROVE  /\ token_cur = Size /\ Size >= 3 /\ token_cur \in 3 .. Size /\ token_cur # local_tail
           /\ Size \in DOMAIN tokens /\ Size \in Pool /\ Size \in Nat
           /\ tokens[Size].string = parses /\ tokens[Size].next = local_tail
           /\ tokens[local_tail].prev = Size /\ Locals \subseteq DOMAIN tokens
           /\ \A i \in 1 .. Len(kept) : kept[i] < Size
           /\ Size + 1 \notin DOMAIN tokens
<1>1. token_cur # local_tail
  BY DEF Addressed, Local, Locals, local_tail
<1>2. /\ token_cur = Size /\ Size >= 3 /\ Size \in Nat /\ Locals \subseteq DOMAIN tokens
      /\ tokens[Size].string = parses /\ tokens[Size].next = local_tail
      /\ tokens[local_tail].prev = Size
      /\ \A i \in 1 .. Len(kept) : kept[i] < Size
  BY <1>1 DEF Addressed, Local
<1>3. Size \in Pool /\ Size \in DOMAIN tokens
  BY <1>2 DEF Addressed, Pool
<1>4. Size + 1 \notin DOMAIN tokens
  BY <1>2 DEF Addressed, Pool, local_head, local_tail
<1> QED BY <1>1, <1>2, <1>3, <1>4

\* Parser_generate_new_token
LEMMA Generated ==
    ASSUME Addressed, Local, NEW m \in 1 .. tokens[token_cur].length
    PROVE  LET t == Parser_generate_new_token(token_cur, m) IN Cut(t, m, Behindcut(m)) /\ Tied(t, Behindcut(m))
<1> DEFINE cur == token_cur
           t == Parser_generate_new_token(cur, m)
           cut == [tokens[cur] EXCEPT !.length = m]
           e == Parser_get_line_col_end(cut)
           rest == [tokens[cur] EXCEPT !.off = @ + m, !.length = @ - m, !.id = ntokens, !.coords = e]
           N == Size + 1
<1>1. tokens[cur].length > 0 /\ m \in Nat
  <2>1. cur \in DOMAIN tokens
    BY DEF Addressed, Local, Locals, Pool
  <2> QED BY <2>1 DEF Addressed, Token
<1>2. /\ cur = Size /\ Size >= 3 /\ cur # local_tail /\ cur \in DOMAIN tokens /\ Size \in Nat
      /\ tokens[cur].next = local_tail /\ tokens[local_tail].prev = cur
      /\ local_tail \in DOMAIN tokens /\ N \notin DOMAIN tokens /\ N # local_tail /\ N # cur
      /\ ntokens \in Nat
  BY <1>1, CurrentRest DEF Addressed, Locals, local_tail
<1>3. /\ tokens[cur] \in Token /\ tokens[local_tail] \in Token /\ \A a \in DOMAIN tokens : tokens[a] \in Token
      /\ tokens[cur].coords[1] > 0 /\ tokens[cur].coords[2] > 0
  BY <1>2 DEF Addressed
<1>4. CASE m = tokens[cur].length
  <2>1. t = tokens /\ Behindcut(m) = local_tail
    BY <1>4 DEF Parser_generate_new_token, Behindcut
  <2> HIDE DEF t, cur
  <2>2. Cut(tokens, m, local_tail)
    BY <1>2, <1>3, <1>4 DEF Cut, cur
  <2>3. Tied(tokens, local_tail)
    BY <1>2 DEF Tied, cur
  <2> QED BY <2>1, <2>2, <2>3 DEF t, cur
<1>5. CASE m # tokens[cur].length
  <2>1. cut \in Token /\ cut.coords = tokens[cur].coords
    BY <1>1, <1>3 DEF Token
  <2> HIDE DEF cut
  <2>2. e \in Nat \X Nat
    BY <1>3, <2>1, EndPosition
  <2> HIDE DEF e
  <2>3. m < tokens[cur].length /\ tokens[cur].length - m \in Nat
    BY <1>1, <1>3, <1>5 DEF Token
  <2>4. /\ rest \in Token
        /\ rest.string = tokens[cur].string /\ rest.off = tokens[cur].off + m
        /\ rest.length = tokens[cur].length - m /\ rest.id = ntokens /\ rest.coords = e
    <3> DEFINE o == tokens[cur].off + m
               l == tokens[cur].length - m
    <3>1. o \in Nat /\ l \in Nat /\ ntokens \in Nat /\ e \in Nat \X Nat
      BY <1>1, <1>2, <1>3, <2>2, <2>3 DEF Token
    <3>2. rest = [tokens[cur] EXCEPT !.off = o, !.length = l, !.id = ntokens, !.coords = e]
      OBVIOUS
    <3> HIDE DEF o, l, rest
    <3>3. /\ rest \in Token /\ rest.string = tokens[cur].string
          /\ rest.off = o /\ rest.length = l /\ rest.id = ntokens /\ rest.coords = e
      BY <1>3, <3>1, <3>2 DEF Token
    <3> QED BY <3>3 DEF o, l
  <2>5. /\ cut.length = m /\ cut.string = tokens[cur].string /\ cut.off = tokens[cur].off
        /\ cut.id = tokens[cur].id /\ cut.prev = tokens[cur].prev
    BY <1>3 DEF cut, Token
  <2> DEFINE r == [a \in DOMAIN tokens \cup {N} |->
                      IF a = N THEN rest ELSE IF a = cur THEN cut ELSE tokens[a]]
  <2>6. Remainder(cur, m) = r
    BY DEF Remainder, r, rest, cut, e, NewAddress, Size
  <2> HIDE DEF rest
  <2>7. /\ DOMAIN r = DOMAIN tokens \cup {N}
        /\ r[N] = rest /\ r[cur] = cut /\ r[local_tail] = tokens[local_tail]
        /\ \A a \in DOMAIN tokens \ {cur} : r[a] = tokens[a]
    BY <1>2
  <2>8. t = Token_insert_before(r, local_tail, N)
    <3>1. tokens[cur].next = local_tail /\ NewAddress = N
      BY <1>2 DEF NewAddress, Size
    <3> HIDE DEF r, N, cur
    <3> QED BY <1>5, <2>6, <3>1 DEF Parser_generate_new_token
  <2> HIDE DEF r
  <2>9. t = [r EXCEPT ![cur].next = N, ![N].prev = cur, ![local_tail].prev = N, ![N].next = local_tail]
    BY <1>2, <2>7, <2>8 DEF Token_insert_before
  <2> HIDE DEF t, N
  <2>10. /\ DOMAIN t = DOMAIN tokens \cup {N}
         /\ t[cur] = [cut EXCEPT !.next = N]
         /\ t[N] = [rest EXCEPT !.prev = cur, !.next = local_tail]
         /\ t[local_tail] = [tokens[local_tail] EXCEPT !.prev = N]
         /\ \A a \in DOMAIN tokens \ {cur, local_tail} : t[a] = tokens[a]
    BY <1>2, <2>7, <2>9
  <2>11. \A a \in DOMAIN t : t[a] \in Token
    <3>1. cur \in Int /\ N \in Int /\ local_tail \in Int
      BY <1>2 DEF N, local_tail
    <3>2. t[cur] \in Token
      BY <2>1, <2>10, <3>1 DEF Token
    <3>3. t[N] \in Token
      BY <2>4, <2>10, <3>1 DEF Token
    <3>4. t[local_tail] \in Token
      BY <1>3, <2>10, <3>1 DEF Token
    <3> QED BY <1>3, <2>10, <3>2, <3>3, <3>4
  <2>12. /\ t[cur].next = N /\ t[cur].prev = cut.prev /\ t[cur].length = cut.length
         /\ t[cur].string = cut.string /\ t[cur].off = cut.off /\ t[cur].id = cut.id
         /\ t[cur].coords = cut.coords
    BY <2>1, <2>10 DEF Token
  <2>13. /\ t[N].next = local_tail /\ t[N].prev = cur /\ t[N].length = rest.length
         /\ t[N].string = rest.string /\ t[N].off = rest.off /\ t[N].id = rest.id
         /\ t[N].coords = rest.coords
    BY <2>4, <2>10 DEF Token
  <2>14. /\ t[local_tail].prev = N
         /\ t[local_tail].next = tokens[local_tail].next /\ t[local_tail].length = tokens[local_tail].length
         /\ t[local_tail].string = tokens[local_tail].string /\ t[local_tail].off = tokens[local_tail].off
         /\ t[local_tail].id = tokens[local_tail].id /\ t[local_tail].coords = tokens[local_tail].coords
    BY <1>3, <2>10 DEF Token
  <2>15. Behindcut(m) = N
    BY <1>5 DEF Behindcut, N
  <2>16. Cut(t, m, N)
    <3>1. \A a \in DOMAIN tokens : a = cur \/ a = local_tail \/ t[a] = tokens[a]
      BY <2>10
    <3>2. ASSUME NEW a \in DOMAIN tokens
          PROVE  /\ t[a].string = tokens[a].string /\ t[a].off = tokens[a].off
                 /\ t[a].id = tokens[a].id /\ t[a].coords = tokens[a].coords
                 /\ t[a].length = IF a = cur THEN m ELSE tokens[a].length
      BY <1>2, <2>1, <2>5, <2>12, <2>14, <3>1
    <3>3. /\ t[N].string = tokens[cur].string /\ t[N].id = ntokens
          /\ t[N].off = tokens[cur].off + m /\ t[N].length = tokens[cur].length - m
          /\ t[N].coords = e
      BY <2>4, <2>13
    <3> QED BY <2>10, <2>11, <3>2, <3>3 DEF Cut, e, cut
  <2>17. Tied(t, N)
    BY <1>2, <2>5, <2>10, <2>12, <2>13, <2>14 DEF Tied
  <2> QED BY <2>15, <2>16, <2>17 DEF t
<1> QED BY <1>4, <1>5

\* In t the current token is passed over: what was before it is linked to x.
PassedOver(t, x) ==
    LET p == tokens[token_cur].prev IN
    /\ t[p].next = x /\ t[x].prev = p
    /\ t[p].prev = tokens[p].prev
    /\ t[token_cur].prev = p /\ t[token_cur].next = x
    /\ t[local_tail].next = tokens[local_tail].next
    /\ x # local_tail => t[x].next = local_tail /\ t[local_tail].prev = x
    /\ \A a \in DOMAIN tokens \ {token_cur, local_tail, p} :
          t[a].prev = tokens[a].prev /\ t[a].next = tokens[a].next

\* The elements of kept.
LEMMA KeptTokens ==
    ASSUME Kept, Addressed
    PROVE  /\ Len(kept) \in Nat /\ DOMAIN kept = 1 .. Len(kept)
           /\ kept = << >> <=> Len(kept) = 0
           /\ \A i \in 1 .. Len(kept) : /\ kept[i] \in 3 .. Size /\ kept[i] \in Nat /\ kept[i] >= 3
                                       /\ kept[i] <= Size /\ kept[i] \in DOMAIN tokens
                                       /\ tokens[kept[i]].string = parses
           /\ \A i, j \in 1 .. Len(kept) : kept[i] = kept[j] => i = j
<1> DEFINE S == 3 .. Size
<1>1. kept \in Seq(S)
  BY DEF Kept
<1> HIDE DEF S
<1>2. /\ Len(kept) \in Nat /\ DOMAIN kept = 1 .. Len(kept)
      /\ kept = << >> <=> Len(kept) = 0
      /\ \A i \in 1 .. Len(kept) : kept[i] \in S
  BY <1>1
<1>3. Size \in Nat /\ \A a \in S : a \in Nat /\ a >= 3 /\ a <= Size /\ a \in DOMAIN tokens
  BY DEF S, Addressed, Pool
<1>4. \A i, j \in 1 .. Len(kept) : kept[i] = kept[j] => i = j
  <2> TAKE i, j \in 1 .. Len(kept)
  <2>1. (i < j => kept[i] < kept[j]) /\ (j < i => kept[j] < kept[i])
    BY DEF Kept
  <2>2. kept[i] \in Nat /\ kept[j] \in Nat
    BY <1>2, <1>3
  <2> QED BY <1>2, <2>1, <2>2
<1> QED BY <1>2, <1>3, <1>4 DEF Kept, S

\* What is before the current token in the loop.
LEMMA BeforeCurrent ==
    ASSUME Addressed, Local, Kept, tokens[token_cur].length > 0
    PROVE  LET p == tokens[token_cur].prev IN
           /\ p = Before(Len(kept) + 1)
           /\ p \in DOMAIN tokens /\ p \in Int
           /\ p # token_cur /\ p # local_tail /\ p # Size + 1
           /\ p = local_head \/ (p \in 3 .. Size /\ tokens[p].string = parses)
<1>1. /\ token_cur = Size /\ Size >= 3 /\ Size \in Nat /\ Locals \subseteq DOMAIN tokens
      /\ \A i \in 1 .. Len(kept) : kept[i] < Size
  BY CurrentRest
<1>2. tokens[token_cur].prev = Before(Len(kept) + 1)
  BY DEF Local
<1>3. Len(kept) \in Nat /\ \A i \in 1 .. Len(kept) : kept[i] \in 3 .. Size
  BY KeptTokens
<1>4. CASE Len(kept) = 0
  BY <1>1, <1>2, <1>4 DEF Before, Locals, local_head, local_tail
<1>5. CASE Len(kept) # 0
  <2>1. Len(kept) \in 1 .. Len(kept) /\ Before(Len(kept) + 1) = kept[Len(kept)]
    BY <1>3, <1>5 DEF Before
  <2>2. kept[Len(kept)] \in 3 .. Size /\ kept[Len(kept)] < Size /\ tokens[kept[Len(kept)]].string = parses
    BY <1>1, <1>3, <2>1 DEF Kept
  <2>3. kept[Len(kept)] \in DOMAIN tokens
    BY <1>1, <2>2 DEF Addressed, Pool
  <2> QED BY <1>1, <1>2, <2>1, <2>2, <2>3 DEF local_tail
<1> QED BY <1>4, <1>5

\* Parser_skip_token
LEMMA Unlinked ==
    ASSUME Addressed, Local, Kept, NEW m \in 1 .. tokens[token_cur].length
    PROVE  LET t == Unlink(Parser_generate_new_token(token_cur, m), token_cur) IN
           Cut(t, m, Behindcut(m)) /\ PassedOver(t, Behindcut(m))
<1> DEFINE g == Parser_generate_new_token(token_cur, m)
           t == Unlink(g, token_cur)
           x == Behindcut(m)
           p == tokens[token_cur].prev
<1>1. tokens[token_cur].length > 0 /\ m \in Nat
  <2>1. token_cur \in DOMAIN tokens
    BY DEF Addressed, Local, Locals, Pool
  <2> QED BY <2>1 DEF Addressed, Token
<1>2. /\ token_cur = Size /\ token_cur \in DOMAIN tokens /\ token_cur # local_tail /\ token_cur \in Nat
      /\ local_tail \in DOMAIN tokens
      /\ p \in DOMAIN tokens /\ p \in Int /\ p # token_cur /\ p # local_tail /\ p # Size + 1
  BY <1>1, CurrentRest, BeforeCurrent DEF Locals
<1>3. x = local_tail \/ (x = Size + 1 /\ x \notin DOMAIN tokens /\ x # local_tail)
  BY <1>1, <1>2, CurrentRest DEF Behindcut, local_tail
<1>4. x # p /\ x # token_cur /\ x \in Int
  BY <1>2, <1>3 DEF local_tail
<1>5. Cut(g, m, x) /\ Tied(g, x)
  BY Generated
<1> HIDE DEF g, x, p
<1>6. /\ g[token_cur].next = x /\ g[token_cur].prev = p
      /\ DOMAIN g = DOMAIN tokens \cup {x}
      /\ \A a \in DOMAIN g : g[a] \in Token
  BY <1>5 DEF Cut, Tied, p
<1>7. t = [g EXCEPT ![p].next = x, ![x].prev = p]
  BY <1>6 DEF Unlink
<1> HIDE DEF t
<1>8. /\ DOMAIN t = DOMAIN g
      /\ t[p] = [g[p] EXCEPT !.next = x] /\ t[x] = [g[x] EXCEPT !.prev = p]
      /\ \A a \in DOMAIN g \ {p, x} : t[a] = g[a]
  BY <1>2, <1>4, <1>6, <1>7
<1>9. p \in DOMAIN g /\ x \in DOMAIN g
  BY <1>2, <1>6
<1>10. /\ t[p] \in Token /\ t[p].next = x /\ t[p].prev = g[p].prev /\ t[p].length = g[p].length
       /\ t[p].string = g[p].string /\ t[p].off = g[p].off /\ t[p].id = g[p].id /\ t[p].coords = g[p].coords
  BY <1>4, <1>6, <1>8, <1>9 DEF Token
<1>11. /\ t[x] \in Token /\ t[x].prev = p /\ t[x].next = g[x].next /\ t[x].length = g[x].length
       /\ t[x].string = g[x].string /\ t[x].off = g[x].off /\ t[x].id = g[x].id /\ t[x].coords = g[x].coords
  BY <1>2, <1>6, <1>8, <1>9 DEF Token
<1>12. \A a \in DOMAIN g :
          /\ t[a] \in Token /\ t[a].length = g[a].length
          /\ t[a].string = g[a].string /\ t[a].off = g[a].off /\ t[a].id = g[a].id /\ t[a].coords = g[a].coords
  BY <1>6, <1>8, <1>10, <1>11
<1>13. Cut(t, m, x)
  BY <1>5, <1>6, <1>8, <1>12 DEF Cut
<1>14. PassedOver(t, x)
  <2>1. \A a \in DOMAIN tokens \ {token_cur, local_tail, p} : a \in DOMAIN g \ {p, x}
    BY <1>3, <1>6
  <2>2. /\ g[p].prev = tokens[p].prev /\ g[local_tail].next = tokens[local_tail].next
        /\ x # local_tail => g[x].next = local_tail /\ g[local_tail].prev = x
        /\ \A a \in DOMAIN tokens \ {token_cur, local_tail} :
              g[a].prev = tokens[a].prev /\ g[a].next = tokens[a].next
    BY <1>2, <1>5 DEF Tied
  <2>3. t[token_cur] = g[token_cur]
    BY <1>2, <1>4, <1>6, <1>8
  <2>4. t[local_tail].next = g[local_tail].next /\ (x # local_tail => t[local_tail] = g[local_tail])
    BY <1>2, <1>6, <1>8, <1>11
  <2> QED BY <1>6, <1>8, <1>10, <1>11, <2>1, <2>2, <2>3, <2>4 DEF PassedOver, p
<1> QED BY <1>13, <1>14 DEF t, g, x

\* Cutting keeps the addresses in order, and the tokens a cover of the text.
LEMMA CutKeeps ==
    ASSUME Core, pc = "loop", NEW m \in 1 .. tokens[token_cur].length,
           Cut(tokens', m, Behindcut(m)),
           \A a \in DOMAIN tokens' : {tokens'[a].prev, tokens'[a].next} \subseteq DOMAIN tokens' \cup {Null},
           ntokens' = IF m = tokens[token_cur].length THEN ntokens ELSE ntokens + 1,
           UNCHANGED <<text, parses>>
    PROVE  /\ Addressed' /\ NoCharLost' /\ CoordsFollowText'
           /\ Size' = IF Behindcut(m) = local_tail THEN Size ELSE Size + 1
           /\ \A a \in 3 .. Size : tokens'[a].string = tokens[a].string
<1> DEFINE x == Behindcut(m)
           cur == token_cur
           cut == [tokens[cur] EXCEPT !.length = m]
           e == Parser_get_line_col_end(cut)
<1>1. Addressed /\ Local /\ Called /\ Kept
  BY DEF Core
<1>2. tokens[cur].length > 0 /\ m \in Nat /\ m > 0 /\ tokens[cur].length \in Nat /\ m <= tokens[cur].length
  <2>1. cur \in DOMAIN tokens
    BY <1>1 DEF Called
  <2> QED BY <1>1, <2>1 DEF Addressed, Token
<1>3. /\ cur = Size /\ Size >= 3 /\ cur # local_tail /\ Size \in DOMAIN tokens /\ Size \in Nat
      /\ tokens[Size].string = parses /\ local_tail \in DOMAIN tokens
      /\ Size + 1 \notin DOMAIN tokens
  BY <1>1, <1>2, CurrentRest DEF Locals
<1>4. \/ m = tokens[cur].length /\ x = local_tail
      \/ m < tokens[cur].length /\ x = Size + 1 /\ x # local_tail
  BY <1>2, <1>3 DEF Behindcut, local_tail
<1>5. Size' = (IF x = local_tail THEN Size ELSE Size + 1) /\ Pool' = 1 .. Size'
  <2>1. DOMAIN tokens' = DOMAIN tokens \cup {x}
    BY DEF Cut
  <2>2. Pool' = IF x = local_tail THEN 1 .. Size ELSE 1 .. Size + 1
    BY <1>1, <1>3, <1>4, <2>1 DEF Addressed, Pool, local_head, local_tail
  <2>3. Cardinality(1 .. Size) = Size /\ Cardinality(1 .. Size + 1) = Size + 1
    BY <1>3, PoolSize
  <2> QED BY <2>2, <2>3 DEF Size
<1> HIDE DEF x, cur
<1>6. /\ DOMAIN tokens' = DOMAIN tokens \cup {x}
      /\ \A a \in DOMAIN tokens' : tokens'[a] \in Token
      /\ \A a \in DOMAIN tokens :
          /\ tokens'[a].string = tokens[a].string /\ tokens'[a].off = tokens[a].off
          /\ tokens'[a].id = tokens[a].id /\ tokens'[a].coords = tokens[a].coords
          /\ tokens'[a].length = IF a = cur THEN m ELSE tokens[a].length
      /\ x # local_tail =>
          /\ tokens'[x].string = tokens[cur].string /\ tokens'[x].id = ntokens
          /\ tokens'[x].off = tokens[cur].off + m
          /\ tokens'[x].length = tokens[cur].length - m
          /\ tokens'[x].coords = e
  BY DEF Cut, x, cur
<1>7. tokens[cur] \in Token /\ tokens[cur].coords[1] > 0 /\ tokens[cur].coords[2] > 0
  BY <1>1, <1>3 DEF Addressed
<1>8. /\ cut \in Token /\ cut.coords = tokens[cur].coords /\ cut.off = tokens[cur].off /\ cut.length = m
  BY <1>2, <1>7 DEF Token
<1> HIDE DEF cut
<1>9. /\ e \in Nat \X Nat /\ e[1] > 0 /\ e[2] > 0
      /\ e[1] = tokens[cur].coords[1] + Cardinality(NewlinesIn(cut))
      /\ e[1] = tokens[cur].coords[1] => e[2] = tokens[cur].coords[2] + m
  BY <1>7, <1>8, EndPosition
<1> HIDE DEF e
<1>10. Addressed'
  <2>1. ntokens' = Size' - 2
    BY <1>1, <1>3, <1>4, <1>5 DEF Addressed, cur
  <2>2. ASSUME NEW a \in DOMAIN tokens'
        PROVE  /\ a < 3 => tokens'[a].string = 0 /\ tokens'[a].length = 0
               /\ a >= 3 => /\ tokens'[a].string \in 1 .. parses'
                            /\ tokens'[a].length > 0
                            /\ tokens'[a].id = a - 3
                            /\ tokens'[a].coords[1] > 0 /\ tokens'[a].coords[2] > 0
    <3>1. CASE a \in DOMAIN tokens
      BY <1>1, <1>2, <1>3, <1>6, <3>1 DEF Addressed
    <3>2. CASE a \notin DOMAIN tokens
      <4>1. a = x /\ x # local_tail /\ x = Size + 1 /\ m < tokens[cur].length
        BY <1>3, <1>4, <1>6, <3>2
      <4>2. tokens'[a].string = parses /\ parses \in 1 .. parses
        BY <1>1, <1>3, <1>6, <4>1 DEF Addressed
      <4>3. tokens'[a].length > 0 /\ tokens'[a].id = a - 3
        BY <1>1, <1>2, <1>3, <1>6, <4>1 DEF Addressed
      <4> QED BY <1>3, <1>6, <1>9, <4>1, <4>2, <4>3
    <3> QED BY <3>1, <3>2
  <2>3. Size' \in Nat /\ Size' >= 2
    BY <1>3, <1>5
  <2> QED BY <1>5, <1>6, <2>1, <2>2, <2>3 DEF Addressed
<1>11. parses > 0 /\ parses' = parses /\ text' = text
  BY <1>1 DEF Core, Called
<1>12. ASSUME NEW a \in Int
       PROVE  a \in Mine' <=> a \in Mine \/ (x # local_tail /\ a = Size + 1)
  <2>1. a \in Pool' <=> a \in Pool \/ (x # local_tail /\ a = Size + 1)
    BY <1>1, <1>3, <1>5 DEF Addressed
  <2>2. a \in Pool => tokens'[a].string = tokens[a].string
    BY <1>6 DEF Pool
  <2>3. x # local_tail => tokens'[Size + 1].string = parses
    BY <1>3, <1>4, <1>6
  <2> QED BY <1>11, <2>1, <2>2, <2>3 DEF Mine
<1>13. Size \in Mine /\ Size + 1 \notin Mine /\ \A a \in Mine : a \in 3 .. Size /\ a \in DOMAIN tokens
  <2>1. Size \in Mine
    BY <1>1, <1>3, <1>11 DEF Mine, Addressed
  <2>2. \A a \in Mine : a \in 1 .. Size /\ a \in DOMAIN tokens /\ tokens[a].string # 0
    BY <1>1, <1>11 DEF Mine, Pool, Addressed
  <2>3. \A a \in Mine : a >= 3
    BY <1>1, <2>2 DEF Addressed
  <2> QED BY <1>3, <2>1, <2>2, <2>3
<1>14. /\ tokens[cur].off + tokens[cur].length = Len(text)
       /\ tokens[cur].off \in Nat /\ tokens[cur].length \in Nat
  BY <1>3, <1>7, <1>13 DEF Core, NoCharLost, Token
<1>15. \A a \in 3 .. Size' : a \in DOMAIN tokens' /\ tokens'[a].length > 0 /\ tokens'[a].id = a - 3
  BY <1>5, <1>10 DEF Addressed, Pool
<1>16. NoCharLost'
  <2> SUFFICES ASSUME NEW a \in Mine'
               PROVE  /\ tokens'[a].length > 0
                      /\ a - 1 \in Mine' => /\ tokens'[a].off = tokens'[a - 1].off + tokens'[a - 1].length
                                            /\ tokens'[a].id = tokens'[a - 1].id + 1
                      /\ a - 1 \notin Mine' => tokens'[a].off = 0
                      /\ a + 1 \notin Mine' => tokens'[a].off + tokens'[a].length = Len(text)
    BY <1>11 DEF NoCharLost
  <2>1. a \in Pool' /\ a \in Int
    BY <1>5 DEF Mine
  <2>2. CASE a \in Mine
    <3>1. a \in 3 .. Size /\ a \in DOMAIN tokens
      BY <1>13, <2>2
    <3>2. a \in 3 .. Size' /\ (a - 1 \in Mine' <=> a - 1 \in Mine)
      BY <1>3, <1>5, <1>12, <3>1
    <3>3. a - 1 \in Mine => a - 1 \in 3 .. Size' /\ a - 1 \in DOMAIN tokens /\ a - 1 # cur
      <4>1. a - 1 \in Mine => a - 1 \in 3 .. Size /\ a - 1 \in DOMAIN tokens
        BY <1>13
      <4>2. a - 1 # cur /\ (a - 1 \in 3 .. Size => a - 1 \in 3 .. Size')
        BY <1>3, <1>5, <3>1
      <4> QED BY <4>1, <4>2
    <3>4. /\ a - 1 \in Mine => tokens[a].off = tokens[a - 1].off + tokens[a - 1].length
          /\ a - 1 \notin Mine => tokens[a].off = 0
          /\ a + 1 \notin Mine => tokens[a].off + tokens[a].length = Len(text)
      BY <2>2 DEF Core, NoCharLost
    <3>5. a + 1 \notin Mine' => a + 1 \notin Mine /\ (a = cur => x = local_tail)
      BY <1>3, <1>12, <2>1
    <3>6. a + 1 \notin Mine' => tokens'[a].length = tokens[a].length
      BY <1>4, <1>6, <3>1, <3>5
    <3>7. a - 1 \in Mine => tokens'[a].id = tokens'[a - 1].id + 1
      BY <1>15, <3>2, <3>3
    <3> QED BY <1>6, <1>15, <3>1, <3>2, <3>3, <3>4, <3>5, <3>6, <3>7
  <2>3. CASE a \notin Mine
    <3>1. a = Size + 1 /\ x # local_tail /\ x = Size + 1 /\ a \in 3 .. Size' /\ a - 1 = cur
      BY <1>3, <1>4, <1>5, <1>12, <2>1, <2>3
    <3>2. a - 1 \in Mine' /\ a - 1 \in 3 .. Size'
      BY <1>3, <1>5, <1>12, <1>13, <3>1
    <3>3. tokens'[a].id = tokens'[a - 1].id + 1 /\ tokens'[a].length > 0
      BY <1>15, <3>1, <3>2
    <3>4. tokens'[a - 1].off = tokens[cur].off /\ tokens'[a - 1].length = m
      BY <1>3, <1>6, <3>1
    <3>5. tokens'[a].off = tokens[cur].off + m /\ tokens'[a].length = tokens[cur].length - m
      BY <1>6, <3>1
    <3>6. tokens'[a].off = tokens'[a - 1].off + tokens'[a - 1].length
      BY <3>4, <3>5
    <3>7. tokens'[a].off + tokens'[a].length = Len(text)
      BY <1>2, <1>14, <3>5
    <3> QED BY <3>2, <3>3, <3>6, <3>7
  <2> QED BY <2>2, <2>3
<1>17. CoordsFollowText'
  <2> DEFINE off == tokens[cur].off
             S == {tokens[b].off : b \in Mine}
             T == IF x = local_tail THEN S ELSE S \cup {off + m}
             Told(t, starts, a) ==
               /\ t[a].coords[1] = 1 + Cardinality(NewlinesBelow(t[a].off))
               /\ Column(t[a].coords[2], t[a].off, starts)
  <2>1. \A a \in Mine : /\ a \in 3 .. Size /\ a \in DOMAIN tokens
                        /\ tokens[a].off \in Nat /\ tokens[a].off <= off
                        /\ tokens'[a].off = tokens[a].off /\ tokens'[a].coords = tokens[a].coords
    <3> TAKE a \in Mine
    <3>1. a \in 3 .. Size /\ a \in DOMAIN tokens
      BY <1>13
    <3>2. tokens[a].off \in Nat
      BY <1>1, <3>1 DEF Addressed, Token
    <3>3. a = cur \/ a < cur
      BY <1>3, <3>1
    <3>4. tokens[a].off <= off
      <4>1. CASE a = cur
        BY <1>14, <4>1
      <4>2. CASE a < cur
        <5>1. cur \in Mine
          BY <1>3, <1>13
        <5>2. tokens[a].off < off
          BY <4>2, <5>1 DEF Core, CoordsFollowText
        <5> QED BY <1>14, <3>2, <5>2
      <4> QED BY <3>3, <4>1, <4>2
    <3> QED BY <1>6, <3>1, <3>2, <3>4
  <2>2. \A a \in Mine' : a \in Int /\ (a \in Mine \/ (x # local_tail /\ a = Size + 1))
    <3> TAKE a \in Mine'
    <3>1. a \in Pool' /\ a \in Int
      BY <1>5 DEF Mine
    <3> QED BY <1>12, <3>1
  <2>3. x # local_tail => /\ Size + 1 \in Mine' /\ x = Size + 1
                          /\ tokens'[Size + 1].off = off + m /\ tokens'[Size + 1].coords = e
    BY <1>3, <1>4, <1>6, <1>12
  <2>4. Mine \subseteq Mine'
    <3> SUFFICES ASSUME NEW a \in Mine PROVE a \in Mine'
      OBVIOUS
    <3>1. a \in Int
      BY <2>1
    <3> QED BY <1>12, <3>1
  <2>5. {tokens'[b].off : b \in Mine'} = T
    <3>1. ASSUME NEW o \in {tokens'[b].off : b \in Mine'} PROVE o \in T
      <4>1. PICK b \in Mine' : o = tokens'[b].off
        BY <3>1
      <4>2. CASE b \in Mine
        BY <2>1, <4>1, <4>2
      <4>3. CASE x # local_tail /\ b = Size + 1
        BY <2>3, <4>1, <4>3
      <4> QED BY <2>2, <4>2, <4>3
    <3>2. ASSUME NEW o \in T PROVE o \in {tokens'[b].off : b \in Mine'}
      <4>1. CASE o \in S
        <5>1. PICK b \in Mine : o = tokens[b].off
          BY <4>1
        <5> QED BY <2>1, <2>4, <5>1
      <4>2. CASE x # local_tail /\ o = off + m
        BY <2>3, <4>2
      <4> QED BY <4>1, <4>2
    <3> QED BY <3>1, <3>2
  <2>6. off \in Nat /\ off + m \in Nat /\ off < off + m
    BY <1>2, <1>14
  <2>7. \A s \in S : s <= off
    BY <2>1
  <2>8. \A a \in Mine : Told(tokens, S, a)
    BY DEF Core, CoordsFollowText
  <2>9. ASSUME NEW a \in Mine PROVE Told(tokens', T, a)
    <3> DEFINE o == tokens[a].off
               c == tokens[a].coords[2]
    <3>1. o \in Nat /\ o <= off /\ tokens'[a].off = o /\ tokens'[a].coords = tokens[a].coords
      BY <2>1
    <3>2. tokens[a].coords[1] = 1 + Cardinality(NewlinesBelow(o)) /\ Column(c, o, S)
      BY <2>8
    <3>3. Column(c, o, T)
      <4> HIDE DEF off, S, o, c
      <4>1. CASE x = local_tail
        BY <3>2, <4>1
      <4>2. CASE x # local_tail
        <5>1. off + m > o
          BY <2>6, <3>1
        <5>2. Column(c, o, S \cup {off + m})
          BY <2>6, <3>1, <3>2, <5>1, ColumnStays
        <5> QED BY <4>2, <5>2
      <4> QED BY <4>1, <4>2
    <3> QED BY <3>1, <3>2, <3>3
  <2>10. ASSUME x # local_tail
         PROVE  Told(tokens', T, Size + 1)
    <3>1. tokens[cur].coords[1] = 1 + Cardinality(NewlinesBelow(off)) /\ Column(tokens[cur].coords[2], off, S)
      BY <1>3, <1>13, <2>8
    <3>2. e[1] = 1 + Cardinality(NewlinesBelow(off + m))
      <4>1. cut.off = off /\ cut.length = m
        BY <1>8
      <4> HIDE DEF off
      <4>2. /\ Cardinality(NewlinesBelow(off + m)) =
                Cardinality(NewlinesBelow(off)) + Cardinality(NewlinesIn(cut))
            /\ Cardinality(NewlinesBelow(off)) \in Nat /\ Cardinality(NewlinesIn(cut)) \in Nat
        BY <1>2, <2>6, <4>1, NewlinesAdd
      <4> QED BY <1>9, <3>1, <4>2
    <3>3. Column(e[2], off + m, S \cup {off + m})
      <4>1. /\ cut.off = off /\ cut.length = m /\ cut.coords = tokens[cur].coords
            /\ cut.coords[1] > 0 /\ cut.coords[2] > 0
        BY <1>7, <1>8
      <4> HIDE DEF off, S
      <4>2. CASE NewlinesIn(cut) = {} /\ e[2] = cut.coords[2] + m
        <5>1. \A i \in off + 1 .. off + m : text[i] # "newline"
          BY <4>1, <4>2 DEF NewlinesIn
        <5> DEFINE c == tokens[cur].coords[2]
        <5>2. e[2] = c + m /\ Column(c, off, S)
          BY <3>1, <4>1, <4>2
        <5> HIDE DEF c
        <5>3. Column(c + m, off + m, S \cup {off + m})
          BY <1>2, <2>6, <5>1, <5>2, ColumnAlong
        <5> QED BY <5>2, <5>3
      <4>3. CASE \E l \in off + 1 .. off + m :
                     /\ text[l] = "newline"
                     /\ \A i \in l + 1 .. off + m : text[i] # "newline"
                     /\ e[2] = IF l = off + m THEN 1 ELSE off + m - l
        <5>1. PICK l \in off + 1 .. off + m :
                     /\ text[l] = "newline"
                     /\ \A i \in l + 1 .. off + m : text[i] # "newline"
                     /\ e[2] = IF l = off + m THEN 1 ELSE off + m - l
          BY <4>3
        <5>2. Column(IF l = off + m THEN 1 ELSE off + m - l, off + m, S \cup {off + m})
          BY <1>2, <2>6, <2>7, <5>1, ColumnAfterNewline
        <5> QED BY <5>1, <5>2
      <4>4. EndsAt(e, cut, off, m)
        BY <1>2, <1>8, <2>6, <4>1, EndColumn DEF e
      <4> QED BY <4>2, <4>3, <4>4 DEF EndsAt
    <3>4. T = S \cup {off + m}
      BY <2>10
    <3> QED BY <2>3, <2>10, <3>2, <3>3, <3>4
  <2>11. ASSUME NEW a \in Mine', NEW b \in Mine', b < a
         PROVE  tokens'[b].off < tokens'[a].off
    <3>1. CASE a \in Mine
      <4>1. b \in Mine
        BY <1>3, <2>1, <2>2, <2>11, <3>1
      <4>2. tokens[b].off < tokens[a].off
        BY <2>11, <3>1, <4>1 DEF Core, CoordsFollowText
      <4> QED BY <2>1, <3>1, <4>1, <4>2
    <3>2. CASE x # local_tail /\ a = Size + 1
      <4>1. b \in Mine
        BY <1>3, <2>2, <2>11, <3>2
      <4>2. tokens'[b].off = tokens[b].off /\ tokens[b].off \in Nat /\ tokens[b].off <= off
        BY <2>1, <4>1
      <4>3. tokens'[a].off = off + m
        BY <2>3, <3>2
      <4> HIDE DEF off
      <4> QED BY <2>6, <4>2, <4>3
    <3> QED BY <2>2, <3>1, <3>2
  <2>12. \A a \in Mine' : Told(tokens', T, a)
    BY <2>2, <2>9, <2>10
  <2>13. \A a \in Mine' :
            /\ \A b \in Mine' : b < a => tokens'[b].off < tokens'[a].off
            /\ tokens'[a].coords[1] = 1 + Cardinality(NewlinesBelow(tokens'[a].off))
            /\ Column(tokens'[a].coords[2], tokens'[a].off, {tokens'[b].off : b \in Mine'})
    <3> HIDE DEF T
    <3> QED BY <2>5, <2>11, <2>12
  <2> QED BY <1>11, <2>13 DEF CoordsFollowText, NewlinesBelow, Column, StartsLine
<1>18. \A a \in 3 .. Size : tokens'[a].string = tokens[a].string
  BY <1>1, <1>6 DEF Addressed, Pool
<1> QED BY <1>5, <1>10, <1>16, <1>17, <1>18 DEF x

\* Links lead to tokens after a token was kept or passed over.
LEMMA LinksClosed ==
    ASSUME Addressed, Local, Kept, NEW m \in 1 .. tokens[token_cur].length,
           NEW t, NEW x, Cut(t, m, x), x = Behindcut(m), Tied(t, x) \/ PassedOver(t, x)
    PROVE  \A a \in DOMAIN t : {t[a].prev, t[a].next} \subseteq DOMAIN t \cup {Null}
<1>1. tokens[token_cur].length > 0
  <2>1. token_cur \in DOMAIN tokens
    BY DEF Addressed, Local, Locals, Pool
  <2> QED BY <2>1 DEF Addressed, Token
<1> DEFINE p == tokens[token_cur].prev
           D == DOMAIN tokens \cup {Null}
<1>2. /\ token_cur \in DOMAIN tokens /\ local_tail \in DOMAIN tokens /\ p \in DOMAIN tokens
      /\ x = local_tail \/ x \notin DOMAIN tokens
  BY <1>1, CurrentRest, BeforeCurrent DEF Locals, Behindcut
<1>3. DOMAIN t = DOMAIN tokens \cup {x}
  BY DEF Cut
<1>4. \A a \in DOMAIN tokens : tokens[a].prev \in D /\ tokens[a].next \in D
  BY DEF Addressed
<1>5. ASSUME NEW a \in DOMAIN t PROVE t[a].prev \in D \cup {x} /\ t[a].next \in D \cup {x}
  <2>1. CASE Tied(t, x)
    BY <1>2, <1>3, <1>4, <2>1 DEF Tied
  <2>2. CASE PassedOver(t, x)
    BY <1>2, <1>3, <1>4, <2>2 DEF PassedOver
  <2> QED BY <2>1, <2>2
<1> QED BY <1>3, <1>5

\* The tokens of the strings before are not touched while a string is cut.
Untouched ==
    /\ Size' \in Nat /\ Size' >= Size
    /\ \A a \in 1 .. Size : tokens[a].string # parses =>
           /\ tokens'[a].prev = tokens[a].prev /\ tokens'[a].next = tokens[a].next
           /\ tokens'[a].string = tokens[a].string

\* The parser will stand where it stood.
LEMMA AnchorStays ==
    ASSUME Core, pc = "loop", Untouched, parses' = parses, Anchor' = Anchor, Addressed'
    PROVE  Anchored'
<1>1. /\ Addressed /\ Called /\ Anchor \in 1 .. Size /\ tokens[Anchor].string # parses
      /\ tokens[token_tail].prev \in 1 .. Size
  BY DEF Core, Anchored, Addressed
<1>2. Size \in Nat /\ Size >= 2 /\ parses > 0 /\ Pool' = 1 .. Size'
  BY <1>1 DEF Addressed, Called
<1>3. 1 .. Size \subseteq Pool'
  BY <1>2 DEF Untouched
<1>4. token_tail \in 1 .. Size /\ token_tail \in DOMAIN tokens /\ token_tail < 3
  BY <1>1, <1>2 DEF token_tail, Addressed, Pool
<1>5. tokens[token_tail].string # parses
  BY <1>1, <1>2, <1>4 DEF Addressed
<1>6. tokens'[token_tail].prev = tokens[token_tail].prev /\ tokens'[Anchor].string = tokens[Anchor].string
  BY <1>1, <1>4, <1>5 DEF Untouched
<1> QED BY <1>1, <1>3, <1>6 DEF Anchored, token_tail

\* The list of the parser is not touched while the tokens of a string are made.
LEMMA ListUntouched ==
    ASSUME Addressed, OnList, pc = "loop", Untouched, parses' = parses, Anchor' = Anchor, pc' \in {"loop", "link"}
    PROVE  OnList'
<1>1. PICK n \in Nat : \E g : Standing(g, n) /\ FirstString(g, n)
  BY DEF OnList
<1>2. PICK g : Standing(g, n) /\ FirstString(g, n)
  BY <1>1
<1>3. /\ n >= 2 /\ g \in [1 .. n -> 1 .. Size] /\ g[1] = token_head /\ g[n] = token_tail
      /\ \A i, j \in 1 .. n : g[i] = g[j] => i = j
      /\ \A i \in 1 .. n - 1 : tokens[g[i]].next = g[i + 1] /\ tokens[g[i + 1]].prev = g[i]
      /\ tokens[token_tail].next = Null
      /\ \A i \in 1 .. n : tokens[g[i]].string # parses
      /\ \E p \in 1 .. n : g[p] = Anchor
  BY <1>2 DEF Standing, Listed
<1>4. \A i \in 1 .. n : /\ g[i] \in 1 .. Size'
                        /\ tokens'[g[i]].prev = tokens[g[i]].prev /\ tokens'[g[i]].next = tokens[g[i]].next
                        /\ tokens'[g[i]].string # parses'
  <2> TAKE i \in 1 .. n
  <2> DEFINE a == g[i]
  <2>1. a \in 1 .. Size /\ tokens[a].string # parses /\ parses' = parses
    BY <1>3
  <2> HIDE DEF a
  <2>2. Size' \in Nat /\ Size' >= Size /\ Size \in Nat
    BY DEF Untouched, Addressed
  <2>3. /\ tokens'[a].prev = tokens[a].prev /\ tokens'[a].next = tokens[a].next
        /\ tokens'[a].string = tokens[a].string
    BY <2>1 DEF Untouched
  <2>4. a \in 1 .. Size'
    BY <2>1, <2>2
  <2> QED BY <2>1, <2>3, <2>4 DEF a
<1>5. tokens'[token_tail].next = Null
  BY <1>3, <1>4
<1>6. \A i \in 1 .. n - 1 : tokens'[g[i]].next = g[i + 1] /\ tokens'[g[i + 1]].prev = g[i]
  <2> TAKE i \in 1 .. n - 1
  <2>1. i \in 1 .. n /\ i + 1 \in 1 .. n
    OBVIOUS
  <2> QED BY <1>3, <1>4, <2>1
<1>7. g \in [1 .. n -> 1 .. Size']
  BY <1>3, <1>4 DEF Untouched
<1>8. Listed(g, n)'
  BY <1>3, <1>5, <1>6, <1>7 DEF Listed
<1>9. Standing(g, n)'
  BY <1>3, <1>4, <1>8 DEF Standing
<1>10. FirstString(g, n)'
  BY <1>2 DEF FirstString
<1> QED BY <1>9, <1>10 DEF OnList

\* What becomes of the tokens in a round that cuts m characters off.
Round(m) ==
    /\ \A a \in DOMAIN tokens :
          /\ tokens'[a].string = tokens[a].string /\ tokens'[a].off = tokens[a].off
          /\ tokens'[a].length = IF a = token_cur THEN m ELSE tokens[a].length
    /\ \A a \in DOMAIN tokens' : (a \in DOMAIN tokens /\ tokens'[a].next = tokens[a].next) \/ tokens'[a].next # token_head
    /\ token_cur' = local_tail \/ token_cur' = Size + 1

\* What a round of the loop leaves as it must be, whatever becomes of the token.
LEMMA RoundKeeps ==
    ASSUME Core, Tokenizing, NEW m, Split(m), NEW x, x = Behindcut(m),
           Cut(tokens', m, x), Tied(tokens', x) \/ PassedOver(tokens', x),
           token_cur' = x
    PROVE  /\ Addressed' /\ NoCharLost' /\ CoordsFollowText' /\ Called' /\ Rounds' /\ CachedById'
           /\ Anchored' /\ Anchor' = Anchor /\ Untouched /\ Round(m)
           /\ Size' \in Nat /\ Size' >= Size /\ Locals \subseteq DOMAIN tokens'
           /\ \A a \in 3 .. Size : tokens'[a].string = tokens[a].string
           /\ \/ x = local_tail
              \/ /\ x = Size' /\ Size' = Size + 1 /\ tokens'[x].string = parses
                 /\ tokens'[x].next = local_tail /\ tokens'[local_tail].prev = x
<1>1. /\ Addressed /\ Called /\ Kept /\ Rounds /\ CachedById /\ Local
      /\ pc = "loop" /\ status = 0 /\ tokens[token_cur].length > 0
      /\ m \in 1 .. tokens[token_cur].length
  BY DEF Core, Tokenizing, Split
<1>2. /\ UNCHANGED <<text, parses, pc, reset, status>>
      /\ ntokens' = IF m = tokens[token_cur].length THEN ntokens ELSE ntokens + 1
      /\ rounds' = rounds + 1
      /\ cached' = cached \cup {<<tokens[token_cur].id, token_cur>>}
  BY DEF Tokenizing, Split
<1>3. \A a \in DOMAIN tokens' : {tokens'[a].prev, tokens'[a].next} \subseteq DOMAIN tokens' \cup {Null}
  BY <1>1, LinksClosed
<1>4. /\ Addressed' /\ NoCharLost' /\ CoordsFollowText'
      /\ Size' = IF x = local_tail THEN Size ELSE Size + 1
      /\ \A a \in 3 .. Size : tokens'[a].string = tokens[a].string
  BY <1>1, <1>2, <1>3, CutKeeps
<1>5. /\ token_cur = Size /\ Size >= 3 /\ Size \in Nat /\ token_cur # local_tail
      /\ Locals \subseteq DOMAIN tokens /\ tokens[Size].string = parses
      /\ Size \in Pool /\ Size + 1 \notin DOMAIN tokens
  BY <1>1, CurrentRest
<1>6. DOMAIN tokens' = DOMAIN tokens \cup {x} /\ (x = local_tail \/ x = Size + 1)
  BY <1>5 DEF Cut, Behindcut
<1>7. Size' \in Nat /\ Size' >= Size
  BY <1>4, <1>5
<1>8. /\ tokens[token_cur].off + tokens[token_cur].length = Len(text)
      /\ tokens[token_cur].off \in Nat /\ tokens[token_cur].length \in Nat /\ m \in Nat /\ m >= 1
      /\ m <= tokens[token_cur].length
  <2>1. Size \in Mine /\ Size + 1 \notin Mine
    BY <1>1, <1>5 DEF Mine, Called, Pool, Addressed
  <2>2. tokens[Size].off + tokens[Size].length = Len(text)
    BY <2>1 DEF Core, NoCharLost
  <2>3. tokens[Size] \in Token
    BY <1>1, <1>5 DEF Addressed, Pool
  <2> QED BY <1>1, <1>5, <2>2, <2>3 DEF Token
<1>9. Called'
  BY <1>1, <1>2, <1>6 DEF Called
<1>10. Rounds'
  <2>1. rounds \in Nat /\ rounds <= tokens[token_cur].off
    BY <1>1, <1>5, <1>8 DEF Rounds
  <2>2. x # local_tail => tokens'[x].off = tokens[token_cur].off + m
    BY DEF Cut
  <2> QED BY <1>1, <1>2, <1>8, <2>1, <2>2 DEF Rounds
<1>11. CachedById'
  <2>1. tokens[token_cur].id = Size - 3 /\ Size \in 3 .. Size
    BY <1>1, <1>5 DEF Addressed, Pool
  <2>2. 3 .. Size \subseteq 3 .. Size'
    BY <1>5, <1>7
  <2> QED BY <1>1, <1>2, <1>5, <2>1, <2>2 DEF CachedById
<1>13. \A a \in 1 .. Size : tokens[a].string # parses =>
               /\ tokens'[a].prev = tokens[a].prev /\ tokens'[a].next = tokens[a].next
               /\ tokens'[a].string = tokens[a].string
  <2> SUFFICES ASSUME NEW a \in 1 .. Size, tokens[a].string # parses
               PROVE  /\ tokens'[a].prev = tokens[a].prev /\ tokens'[a].next = tokens[a].next
                      /\ tokens'[a].string = tokens[a].string
    OBVIOUS
  <2>1. a \in DOMAIN tokens /\ a # token_cur /\ a # local_tail /\ a # local_head
    BY <1>1, <1>5 DEF Addressed, Pool, local_tail, local_head
  <2>2. a # tokens[token_cur].prev
    BY <1>1, <2>1, BeforeCurrent
  <2>3. tokens'[a].prev = tokens[a].prev /\ tokens'[a].next = tokens[a].next
    BY <2>1, <2>2 DEF Tied, PassedOver
  <2>4. tokens'[a].string = tokens[a].string
    BY <2>1 DEF Cut
  <2> QED BY <2>3, <2>4
<1>12. Untouched
  BY <1>7, <1>13 DEF Untouched
<1>14. Anchor' = Anchor /\ Anchored'
  <2>1. Anchor' = Anchor
    BY <1>1, <1>2 DEF Anchor
  <2> QED BY <1>1, <1>2, <1>4, <1>12, <2>1, AnchorStays
<1>15. \/ x = local_tail
       \/ /\ x = Size' /\ Size' = Size + 1 /\ tokens'[x].string = parses
          /\ tokens'[x].next = local_tail /\ tokens'[local_tail].prev = x
  BY <1>4, <1>5, <1>6 DEF Cut, Tied, PassedOver
<1>16. Locals \subseteq DOMAIN tokens'
  BY <1>5, <1>6
<1>17. Round(m)
  <2>1. \A a \in DOMAIN tokens' :
            \/ a \in DOMAIN tokens /\ tokens'[a].next = tokens[a].next
            \/ tokens'[a].next \in {x, local_tail}
    <3>1. tokens[local_tail].next = tokens'[local_tail].next
      BY DEF Tied, PassedOver
    <3> QED BY <1>5, <1>6, <3>1 DEF Tied, PassedOver, Locals
  <2>2. x # token_head /\ local_tail # token_head
    BY <1>5, <1>6 DEF token_head, local_tail
  <2> QED BY <1>6, <2>1, <2>2 DEF Round, Cut
<1> QED BY <1>4, <1>17, <1>7, <1>9, <1>10, <1>11, <1>12, <1>14, <1>15, <1>16

-----------------------------------------------------------------------------
(* Parser_tokenize keeps the invariant *)

\* What a round of the loop finds between the local sentinels.
LEMMA LocalLinks ==
    ASSUME Addressed, Local, Kept, tokens[token_cur].length > 0
    PROVE  /\ tokens[local_head].next = Behind(0)
           /\ tokens[token_cur].prev = Before(Len(kept) + 1)
           /\ \A i \in 1 .. Len(kept) : /\ tokens[kept[i]].prev = Before(i) /\ tokens[kept[i]].next = Behind(i)
                                       /\ kept[i] < Size /\ kept[i] # token_cur
                                       /\ kept[i] # local_tail /\ kept[i] # local_head
                                       /\ kept[i] \in DOMAIN tokens /\ kept[i] \in 3 .. Size
           /\ local_head \in DOMAIN tokens /\ local_head # token_cur /\ local_head # local_tail
<1>1. token_cur = Size /\ Size >= 3 /\ Locals \subseteq DOMAIN tokens /\ \A i \in 1 .. Len(kept) : kept[i] < Size
  BY CurrentRest
<1>2. \A i \in 1 .. Len(kept) : kept[i] \in Nat /\ kept[i] >= 3 /\ kept[i] \in DOMAIN tokens /\ kept[i] \in 3 .. Size
  BY KeptTokens
<1>3. \A i \in 1 .. Len(kept) : kept[i] # token_cur /\ kept[i] # local_tail /\ kept[i] # local_head
  BY <1>1, <1>2 DEF local_tail, local_head
<1>4. local_head \in DOMAIN tokens /\ local_head # token_cur /\ local_head # local_tail
  BY <1>1 DEF Locals, local_head, local_tail
<1> QED BY <1>1, <1>2, <1>3, <1>4 DEF Local

\* Parser_add_token
LEMMA AddCore == ASSUME Core, NEW m, Parser_add_token(m) PROVE Core' /\ Untouched /\ Anchor' = Anchor /\ Round(m)
<1> DEFINE x == Behindcut(m)
           L == Len(kept)
<1>1. /\ Addressed /\ Local /\ Kept /\ Called /\ Tokenizing /\ Split(m) /\ pc = "loop" /\ status = 0
      /\ tokens[token_cur].length > 0 /\ m \in 1 .. tokens[token_cur].length
      /\ kept' = Append(kept, token_cur)
      /\ UNCHANGED <<parses, pc, status>>
  BY DEF Core, Parser_add_token, Tokenizing, Split
<1>2. Cut(tokens', m, x) /\ Tied(tokens', x) /\ token_cur' = x
  <2>1. tokens' = Parser_generate_new_token(token_cur, m) /\ token_cur' = tokens'[token_cur].next
    BY DEF Parser_add_token
  <2>2. Cut(tokens', m, x) /\ Tied(tokens', x)
    BY <1>1, <2>1, Generated
  <2> QED BY <2>1, <2>2 DEF Tied
<1> HIDE DEF x
<1>3. /\ Addressed' /\ NoCharLost' /\ CoordsFollowText' /\ Called' /\ Rounds' /\ CachedById'
      /\ Anchored' /\ Anchor' = Anchor /\ Untouched /\ Round(m)
      /\ Size' \in Nat /\ Size' >= Size /\ Locals \subseteq DOMAIN tokens'
      /\ \A a \in 3 .. Size : tokens'[a].string = tokens[a].string
      /\ \/ x = local_tail
         \/ /\ x = Size' /\ Size' = Size + 1 /\ tokens'[x].string = parses
            /\ tokens'[x].next = local_tail /\ tokens'[local_tail].prev = x
  <2>1. x = Behindcut(m)
    BY DEF x
  <2> QED BY <1>1, <1>2, <2>1, RoundKeeps
<1>4. /\ token_cur = Size /\ Size >= 3 /\ Size \in Nat /\ tokens[Size].string = parses /\ token_cur # local_tail
  BY <1>1, CurrentRest
<1>5. /\ L \in Nat /\ (kept = << >> <=> L = 0)
      /\ \A i \in 1 .. L : kept[i] \in 3 .. Size /\ tokens[kept[i]].string = parses
  BY <1>1, KeptTokens
<1>6. /\ kept' \in Seq(3 .. Size') /\ Len(kept') = L + 1 /\ kept'[L + 1] = Size
      /\ \A i \in 1 .. L : kept'[i] = kept[i]
  <2> DEFINE S == 3 .. Size'
  <2>1. kept \in Seq(3 .. Size)
    BY <1>1 DEF Kept
  <2>2. \A a \in 3 .. Size : a \in S
    BY <1>3, <1>4
  <2>3. Size \in S
    BY <1>4, <2>2
  <2> HIDE DEF S
  <2>4. kept \in Seq(S)
    BY <2>1, <2>2, <1>5
  <2>5. kept' \in Seq(S) /\ Len(kept') = L + 1 /\ kept'[L + 1] = Size /\ \A i \in 1 .. L : kept'[i] = kept[i]
    BY <1>1, <1>4, <2>3, <2>4
  <2> QED BY <2>5 DEF S
<1>7. \A i \in 1 .. L : kept[i] < Size
  BY <1>1, CurrentRest
<1>8. Kept'
  <2>1. \A i \in 1 .. L + 1 : tokens'[kept'[i]].string = parses'
    <3> TAKE i \in 1 .. L + 1
    <3>1. CASE i = L + 1
      BY <1>1, <1>3, <1>4, <1>6, <3>1
    <3>2. CASE i \in 1 .. L
      BY <1>1, <1>3, <1>5, <1>6, <3>2
    <3> QED BY <1>5, <3>1, <3>2
  <2>2. ASSUME NEW i \in 1 .. L + 1, NEW j \in 1 .. L + 1, i < j PROVE kept'[i] < kept'[j]
    <3>1. i \in 1 .. L
      BY <1>5, <2>2
    <3>2. CASE j = L + 1
      BY <1>6, <1>7, <3>1, <3>2
    <3>3. CASE j \in 1 .. L
      BY <1>1, <1>6, <2>2, <3>1, <3>3 DEF Kept
    <3> QED BY <1>5, <3>2, <3>3
  <2> QED BY <1>6, <2>1, <2>2 DEF Kept
<1>9. Local'
  <2>1. /\ tokens[local_head].next = Behind(0)
        /\ tokens[token_cur].prev = Before(L + 1)
        /\ \A i \in 1 .. L : /\ tokens[kept[i]].prev = Before(i) /\ tokens[kept[i]].next = Behind(i)
                             /\ kept[i] # token_cur /\ kept[i] # local_tail /\ kept[i] \in DOMAIN tokens
        /\ local_head \in DOMAIN tokens /\ local_head # token_cur /\ local_head # local_tail
    BY <1>1, LocalLinks
  <2>2. \A i \in 1 .. L + 1 : kept'[i] <= Size
    BY <1>4, <1>5, <1>6
  <2>3. tokens'[local_head].next = Behind(0)'
    <3>1. tokens'[local_head].next = tokens[local_head].next
      BY <1>2, <2>1 DEF Tied
    <3>2. Behind(0)' = kept'[1]
      BY <1>5, <1>6 DEF Behind
    <3>3. Behind(0) = kept'[1]
      BY <1>4, <1>5, <1>6 DEF Behind
    <3> QED BY <2>1, <3>1, <3>2, <3>3
  <2>4. tokens'[token_cur'].prev = Before(Len(kept) + 1)'
    <3>1. Before(Len(kept) + 1)' = kept'[L + 1]
      <4>1. (Len(kept) + 1)' # 1 /\ (Len(kept) + 1)' - 1 = L + 1
        BY <1>5, <1>6
      <4> QED BY <4>1 DEF Before
    <3> QED BY <1>2, <1>4, <1>6, <3>1 DEF Tied
  <2>5. ASSUME NEW i \in 1 .. L + 1
        PROVE  tokens'[kept'[i]].prev = Before(i)' /\ tokens'[kept'[i]].next = Behind(i)'
    <3>1. Before(i)' = Before(i)
      <4>1. CASE i = 1
        BY <4>1 DEF Before, local_head
      <4>2. CASE i # 1
        <5>1. i - 1 \in 1 .. L
          BY <1>5, <4>2
        <5> QED BY <1>6, <4>2, <5>1 DEF Before
      <4> QED BY <4>1, <4>2
    <3>2. CASE i = L + 1
      <4>1. Behind(i)' = x
        BY <1>2, <1>6, <3>2 DEF Behind
      <4> QED BY <1>2, <1>4, <1>6, <2>1, <3>1, <3>2, <4>1 DEF Tied
    <3>3. CASE i \in 1 .. L
      <4>1. /\ tokens'[kept[i]].prev = tokens[kept[i]].prev /\ tokens'[kept[i]].next = tokens[kept[i]].next
        BY <1>2, <2>1, <3>3 DEF Tied
      <4>2. Behind(i)' = kept'[i + 1]
        BY <1>5, <1>6, <3>3 DEF Behind
      <4>3. Behind(i) = kept'[i + 1]
        <5>1. i = L \/ i + 1 \in 1 .. L
          BY <1>5, <3>3
        <5> QED BY <1>4, <1>6, <3>3, <5>1 DEF Behind
      <4> QED BY <1>6, <2>1, <3>1, <3>3, <4>1, <4>2, <4>3
    <3> QED BY <1>5, <3>2, <3>3
  <2>6. \A i \in 1 .. Len(kept') : tokens'[kept'[i]].prev = Before(i)' /\ tokens'[kept'[i]].next = Behind(i)'
    BY <1>6, <2>5
  <2>7. Locals' \subseteq DOMAIN tokens'
    BY <1>3 DEF Locals, local_head, local_tail
  <2>8. \/ token_cur' = local_tail
        \/ /\ token_cur' = Size' /\ Size' >= 3 /\ tokens'[Size'].string = parses'
           /\ tokens'[Size'].next = local_tail /\ tokens'[local_tail].prev = Size'
           /\ \A i \in 1 .. Len(kept') : kept'[i] < Size'
    <3>1. Size' = Size + 1 => \A i \in 1 .. Len(kept') : kept'[i] < Size'
      BY <1>4, <1>5, <1>6, <2>2
    <3> QED BY <1>1, <1>2, <1>3, <1>4, <3>1
  <2> QED BY <1>1, <2>3, <2>4, <2>6, <2>7, <2>8 DEF Local
<1>10. pc' = "loop"
  BY <1>1
<1> QED BY <1>3, <1>8, <1>9, <1>10 DEF Core

\* Parser_skip_token
LEMMA SkipCore == ASSUME Core, NEW m, Parser_skip_token(m) PROVE Core' /\ Untouched /\ Anchor' = Anchor /\ Round(m)
<1> DEFINE x == Behindcut(m)
           L == Len(kept)
           p == tokens[token_cur].prev
<1>1. /\ Addressed /\ Local /\ Kept /\ Called /\ Tokenizing /\ Split(m) /\ pc = "loop" /\ status = 0
      /\ tokens[token_cur].length > 0 /\ m \in 1 .. tokens[token_cur].length
      /\ UNCHANGED <<parses, pc, status, kept>>
  BY DEF Core, Parser_skip_token, Tokenizing, Split
<1>2. Cut(tokens', m, x) /\ PassedOver(tokens', x) /\ token_cur' = x
  <2>1. /\ tokens' = Unlink(Parser_generate_new_token(token_cur, m), token_cur)
        /\ token_cur' = tokens'[token_cur].next
    BY DEF Parser_skip_token
  <2>2. Cut(tokens', m, x) /\ PassedOver(tokens', x)
    BY <1>1, <2>1, Unlinked
  <2> QED BY <2>1, <2>2 DEF PassedOver
<1> HIDE DEF x
<1>3. /\ Addressed' /\ NoCharLost' /\ CoordsFollowText' /\ Called' /\ Rounds' /\ CachedById'
      /\ Anchored' /\ Anchor' = Anchor /\ Untouched /\ Round(m)
      /\ Size' \in Nat /\ Size' >= Size /\ Locals \subseteq DOMAIN tokens'
      /\ \A a \in 3 .. Size : tokens'[a].string = tokens[a].string
      /\ \/ x = local_tail
         \/ /\ x = Size' /\ Size' = Size + 1 /\ tokens'[x].string = parses
            /\ tokens'[x].next = local_tail /\ tokens'[local_tail].prev = x
  <2>1. x = Behindcut(m)
    BY DEF x
  <2> QED BY <1>1, <1>2, <2>1, RoundKeeps
<1>4. /\ token_cur = Size /\ Size >= 3 /\ Size \in Nat
  BY <1>1, CurrentRest
<1>5. /\ L \in Nat /\ (kept = << >> <=> L = 0)
      /\ \A i \in 1 .. L : kept[i] \in 3 .. Size /\ tokens[kept[i]].string = parses
      /\ \A i, j \in 1 .. L : kept[i] = kept[j] => i = j
  BY <1>1, KeptTokens
<1>6. Kept'
  <2> DEFINE S == 3 .. Size'
  <2>1. \A i \in 1 .. L : kept[i] \in S
    BY <1>3, <1>4, <1>5
  <2>2. kept \in Seq(3 .. Size)
    BY <1>1 DEF Kept
  <2> HIDE DEF S
  <2>3. kept \in Seq(S)
    BY <1>5, <2>1, <2>2
  <2>4. \A i \in 1 .. L : tokens'[kept[i]].string = parses
    BY <1>3, <1>5
  <2> QED BY <1>1, <2>3, <2>4 DEF Kept, S
<1>7. Local'
  <2>1. /\ tokens[local_head].next = Behind(0)
        /\ p = Before(Len(kept) + 1)
        /\ \A i \in 1 .. L : /\ tokens[kept[i]].prev = Before(i) /\ tokens[kept[i]].next = Behind(i)
                             /\ kept[i] # token_cur /\ kept[i] # local_tail /\ kept[i] # local_head
                             /\ kept[i] < Size /\ kept[i] \in DOMAIN tokens
        /\ local_head \in DOMAIN tokens /\ local_head # token_cur /\ local_head # local_tail
    BY <1>1, LocalLinks
  <2>2. p = IF L = 0 THEN local_head ELSE kept[L]
    BY <1>5, <2>1 DEF Before
  <2>3. tokens'[local_head].next = Behind(0)'
    <3>1. CASE L = 0
      BY <1>1, <1>2, <2>2, <3>1 DEF PassedOver, Behind
    <3>2. CASE L # 0
      <4>1. L \in 1 .. L
        BY <1>5, <3>2
      <4>2. p # local_head
        BY <2>1, <2>2, <3>2, <4>1
      <4>3. tokens'[local_head].next = tokens[local_head].next
        BY <1>2, <2>1, <4>2 DEF PassedOver
      <4> QED BY <1>1, <2>1, <3>2, <4>3 DEF Behind
    <3> QED BY <3>1, <3>2
  <2>4. tokens'[token_cur'].prev = Before(Len(kept) + 1)'
    <3>1. Before(Len(kept) + 1)' = Before(Len(kept) + 1)
      BY <1>1 DEF Before, local_head
    <3> QED BY <1>2, <2>1, <3>1 DEF PassedOver
  <2>5. ASSUME NEW i \in 1 .. L
        PROVE  tokens'[kept[i]].prev = Before(i)' /\ tokens'[kept[i]].next = Behind(i)'
    <3>1. Before(i)' = Before(i)
      BY <1>1 DEF Before, local_head
    <3>2. CASE i = L
      <4>1. kept[i] = p /\ L # 0
        BY <1>5, <2>2, <3>2
      <4>2. Behind(i)' = x
        BY <1>1, <1>2, <3>2 DEF Behind
      <4> QED BY <1>2, <2>1, <3>1, <4>1, <4>2 DEF PassedOver
    <3>3. CASE i # L
      <4>1. L \in 1 .. L /\ L # 0
        BY <1>5
      <4>2. kept[i] # p
        BY <1>5, <2>2, <3>3, <4>1
      <4>3. tokens'[kept[i]].prev = tokens[kept[i]].prev /\ tokens'[kept[i]].next = tokens[kept[i]].next
        BY <1>2, <2>1, <4>2 DEF PassedOver
      <4>4. Behind(i)' = Behind(i)
        BY <1>1, <3>3 DEF Behind
      <4> QED BY <2>1, <3>1, <4>3, <4>4
    <3> QED BY <3>2, <3>3
  <2>6. Locals' \subseteq DOMAIN tokens'
    BY <1>3 DEF Locals, local_head, local_tail
  <2>7. \/ token_cur' = local_tail
        \/ /\ token_cur' = Size' /\ Size' >= 3 /\ tokens'[Size'].string = parses'
           /\ tokens'[Size'].next = local_tail /\ tokens'[local_tail].prev = Size'
           /\ \A i \in 1 .. L : kept[i] < Size'
    <3>1. Size' = Size + 1 => \A i \in 1 .. L : kept[i] < Size'
      BY <1>4, <1>5
    <3> QED BY <1>1, <1>2, <1>3, <1>4, <3>1
  <2> QED BY <1>1, <2>3, <2>4, <2>5, <2>6, <2>7 DEF Local
<1>8. pc' = "loop"
  BY <1>1
<1> QED BY <1>3, <1>6, <1>7, <1>8 DEF Core

\* The rest of the string is the last of its tokens.
LEMMA RestToEnd ==
    ASSUME Core, pc = "loop", tokens[token_cur].length > 0
    PROVE  /\ tokens[token_cur].off + tokens[token_cur].length = Len(text)
           /\ tokens[token_cur].off \in Nat /\ tokens[token_cur].length \in Nat
<1>1. Addressed /\ Local /\ Called
  BY DEF Core
<1>2. /\ token_cur = Size /\ Size >= 3 /\ Size \in Pool
      /\ Size \in DOMAIN tokens /\ tokens[Size].string = parses
      /\ Size + 1 \notin DOMAIN tokens
  BY <1>1, CurrentRest
<1>3. Size \in Mine /\ Size + 1 \notin Mine
  BY <1>1, <1>2 DEF Mine, Called, Pool
<1>4. tokens[Size].off + tokens[Size].length = Len(text)
  BY <1>3 DEF Core, NoCharLost
<1>5. tokens[Size] \in Token
  BY <1>1, <1>2 DEF Addressed
<1> QED BY <1>2, <1>4, <1>5 DEF Token

\* The token rule fails on the rest.
LEMMA FailsCore == ASSUME Core, TokenFails PROVE Core' /\ Untouched /\ Anchor' = Anchor
<1>1. /\ Addressed /\ Local /\ Called /\ Kept /\ Rounds /\ CachedById /\ NoCharLost /\ CoordsFollowText
      /\ pc = "loop" /\ status = 0 /\ status' = 1 /\ tokens[token_cur].length > 0
      /\ rounds' = rounds + 1 /\ cached' = cached \cup {<<tokens[token_cur].id, token_cur>>}
      /\ UNCHANGED <<tokens, ntokens, token_cur, kept, text, pc, reset, start, end, parses>>
  BY DEF Core, TokenFails, Tokenizing
<1>2. Pool' = Pool /\ Size' = Size /\ Locals' = Locals /\ Mine' = Mine /\ Anchor' = Anchor
  BY <1>1 DEF Pool, Size, Locals, local_head, local_tail, Mine, Anchor
<1>3. /\ token_cur = Size /\ Size >= 3 /\ Size \in Nat /\ token_cur # local_tail
  BY <1>1, CurrentRest
<1>4. /\ tokens[token_cur].off + tokens[token_cur].length = Len(text)
      /\ tokens[token_cur].off \in Nat /\ tokens[token_cur].length \in Nat
  BY <1>1, RestToEnd
<1>5. Addressed'
  BY <1>1, <1>2 DEF Addressed
<1>6. Called' /\ Kept'
  BY <1>1, <1>2 DEF Called, Kept
<1>7. NoCharLost' /\ CoordsFollowText'
  BY <1>1, <1>2, CoordsKept DEF NoCharLost
<1>8. Rounds'
  <2>1. rounds \in Nat /\ rounds <= tokens[token_cur].off
    BY <1>1, <1>3, <1>4 DEF Rounds
  <2>2. rounds' = rounds + 1 /\ rounds + 1 \in Nat /\ rounds + 1 <= Len(text)
        /\ rounds + 1 <= tokens[token_cur].off + 1
    BY <1>1, <1>4, <2>1
  <2> QED BY <1>1, <1>3, <2>2 DEF Rounds
<1>9. CachedById'
  <2>1. tokens[token_cur].id = Size - 3 /\ Size \in 3 .. Size
    BY <1>1, <1>3 DEF Addressed, Pool
  <2> QED BY <1>1, <1>2, <1>3, <2>1 DEF CachedById
<1>10. Local'
  <2>1. \A i \in Int : Before(i)' = Before(i) /\ Behind(i)' = Behind(i)
    BY <1>1 DEF Before, Behind, local_head
  <2>2. Len(kept) \in Nat
    BY <1>1, KeptTokens
  <2>3. /\ \A i \in 1 .. Len(kept) : Before(i)' = Before(i) /\ Behind(i)' = Behind(i)
        /\ Behind(0)' = Behind(0)
    BY <2>1
  <2>4. Before(Len(kept) + 1)' = Before(Len(kept) + 1)
    BY <1>1 DEF Before, local_head
  <2> QED BY <1>1, <1>2, <1>3, <2>3, <2>4 DEF Local
<1>11. Untouched
  BY <1>1, <1>2, <1>3 DEF Untouched
<1>12. Anchored'
  BY <1>1, <1>2, <1>5, <1>11, AnchorStays
<1> QED BY <1>1, <1>2, <1>5, <1>6, <1>7, <1>8, <1>9, <1>10, <1>11, <1>12 DEF Core

\* A change of links alone, and of the ids of the sentinels.
LEMMA LinkChange ==
    ASSUME Addressed, NoCharLost, CoordsFollowText, Called,
           DOMAIN tokens' = DOMAIN tokens, UNCHANGED <<ntokens, parses, text>>,
           \A a \in DOMAIN tokens :
               /\ tokens'[a] \in Token
               /\ {tokens'[a].prev, tokens'[a].next} \subseteq DOMAIN tokens \cup {Null}
               /\ tokens'[a].string = tokens[a].string /\ tokens'[a].off = tokens[a].off
               /\ tokens'[a].length = tokens[a].length /\ tokens'[a].coords = tokens[a].coords
               /\ a >= 3 => tokens'[a].id = tokens[a].id
    PROVE  Addressed' /\ NoCharLost' /\ CoordsFollowText' /\ Pool' = Pool /\ Size' = Size
<1>1. Pool' = Pool
  BY DEF Pool, local_head, local_tail
<1>2. Size' = Size
  BY <1>1 DEF Size
<1>3. Addressed'
  BY <1>1, <1>2 DEF Addressed
<1>4. Mine' = Mine
  BY <1>1 DEF Mine, Pool
<1>5. \A a \in Mine : /\ a \in DOMAIN tokens /\ a >= 3 /\ a \in Int
  <2> TAKE a \in Mine
  <2>1. a \in DOMAIN tokens /\ a \in 1 .. Size /\ tokens[a].string = parses /\ parses > 0
    BY DEF Mine, Pool, Addressed
  <2> QED BY <2>1 DEF Addressed
<1>6. \A a \in Mine : /\ tokens'[a].off = tokens[a].off /\ tokens'[a].length = tokens[a].length
                      /\ tokens'[a].id = tokens[a].id /\ tokens'[a].coords = tokens[a].coords
  BY <1>5
<1>7. NoCharLost'
  <2> SUFFICES ASSUME NEW a \in Mine
               PROVE  /\ tokens'[a].length > 0
                      /\ a - 1 \in Mine => /\ tokens'[a].off = tokens'[a - 1].off + tokens'[a - 1].length
                                           /\ tokens'[a].id = tokens'[a - 1].id + 1
                      /\ a - 1 \notin Mine => tokens'[a].off = 0
                      /\ a + 1 \notin Mine => tokens'[a].off + tokens'[a].length = Len(text)
    BY <1>4 DEF NoCharLost
  <2>1. /\ tokens[a].length > 0
        /\ a - 1 \in Mine => /\ tokens[a].off = tokens[a - 1].off + tokens[a - 1].length
                             /\ tokens[a].id = tokens[a - 1].id + 1
        /\ a - 1 \notin Mine => tokens[a].off = 0
        /\ a + 1 \notin Mine => tokens[a].off + tokens[a].length = Len(text)
    BY DEF NoCharLost
  <2>2. /\ tokens'[a].off = tokens[a].off /\ tokens'[a].length = tokens[a].length
        /\ tokens'[a].id = tokens[a].id
    BY <1>6
  <2>3. a - 1 \in Mine => /\ tokens'[a - 1].off = tokens[a - 1].off /\ tokens'[a - 1].length = tokens[a - 1].length
                          /\ tokens'[a - 1].id = tokens[a - 1].id
    BY <1>6
  <2> QED BY <2>1, <2>2, <2>3
<1>8. CoordsFollowText'
  <2>1. {tokens'[b].off : b \in Mine'} = {tokens[b].off : b \in Mine}
    BY <1>4, <1>6
  <2>2. \A a \in Mine :
            /\ \A b \in Mine : b < a => tokens'[b].off < tokens'[a].off
            /\ tokens'[a].coords[1] = 1 + Cardinality(NewlinesBelow(tokens'[a].off))
            /\ Column(tokens'[a].coords[2], tokens'[a].off, {tokens'[b].off : b \in Mine'})
    BY <1>6, <2>1 DEF CoordsFollowText
  <2>3. \A o : NewlinesBelow(o)' = NewlinesBelow(o)
    BY DEF NewlinesBelow
  <2>4. \A col, o, S : Column(col, o, S)' = Column(col, o, S)
    BY DEF Column, StartsLine
  <2> QED BY <1>4, <2>2, <2>3, <2>4 DEF CoordsFollowText
<1> QED BY <1>1, <1>2, <1>3, <1>7, <1>8

\* The loop is left: what was kept is cut from the sentinels and returned.
LEMMA ReturnsCore ==
    ASSUME Core, TokenizeReturns
    PROVE  /\ Core' /\ Untouched /\ Anchor' = Anchor
           /\ DOMAIN tokens' = DOMAIN tokens
           /\ \A a \in DOMAIN tokens :
                 /\ tokens'[a].next \in {Null, tokens[a].next}
                 /\ tokens'[a].string = tokens[a].string /\ tokens'[a].off = tokens[a].off
                 /\ tokens'[a].length = tokens[a].length
<1> DEFINE L == Len(kept)
           first == tokens[local_head].next
           last == LastToken
<1>1. /\ Addressed /\ Local /\ Called /\ Kept /\ Rounds /\ CachedById /\ Anchored /\ NoCharLost /\ CoordsFollowText
      /\ pc = "loop" /\ pc' = "link" /\ token_cur' = reset /\ start' = first /\ end' = last
      /\ tokens' = [tokens EXCEPT ![first].prev = Null, ![last].next = Null]
      /\ status = 1 \/ tokens[token_cur].length = 0
      /\ UNCHANGED <<ntokens, text, reset, status, kept, rounds, cached, parses>>
  BY DEF Core, TokenizeReturns
<1>2. /\ L \in Nat /\ (kept = << >> <=> L = 0)
      /\ \A i \in 1 .. L : /\ kept[i] \in 3 .. Size /\ kept[i] \in Int /\ kept[i] \in DOMAIN tokens
                           /\ tokens[kept[i]].string = parses
      /\ \A i, j \in 1 .. L : kept[i] = kept[j] => i = j
  BY <1>1, KeptTokens
<1>3. /\ Locals \subseteq DOMAIN tokens /\ local_head \in DOMAIN tokens /\ token_cur \in DOMAIN tokens
      /\ Size \in Nat
  BY <1>1 DEF Local, Called, Locals, Addressed
<1>4. first = IF L = 0 THEN token_cur ELSE kept[1]
  BY <1>1, <1>2 DEF Local, Behind
<1>5. last = IF L = 0 THEN local_head ELSE kept[L]
  <2>1. last = Before(Len(kept) + 1)
    BY <1>1 DEF Local, LastToken
  <2> QED BY <1>2, <2>1 DEF Before
<1>6. token_cur = local_tail \/ (token_cur \in 3 .. Size /\ tokens[token_cur].string = parses)
  BY <1>1 DEF Local, Addressed
<1>7. /\ first \in DOMAIN tokens /\ last \in DOMAIN tokens
      /\ first \in 1 .. Size => tokens[first].string = parses
      /\ last \in 1 .. Size => tokens[last].string = parses
  <2>1. CASE L = 0
    BY <1>3, <1>4, <1>5, <1>6, <2>1 DEF local_head, local_tail
  <2>2. CASE L # 0
    <3>1. 1 \in 1 .. L /\ L \in 1 .. L
      BY <1>2, <2>2
    <3> QED BY <1>2, <1>4, <1>5, <2>2, <3>1
  <2> QED BY <2>1, <2>2
<1> HIDE DEF first, last
<1>8. \A a \in DOMAIN tokens : tokens[a] \in Token /\ {tokens[a].prev, tokens[a].next} \subseteq DOMAIN tokens \cup {Null}
  BY <1>1 DEF Addressed
<1>9. DOMAIN tokens' = DOMAIN tokens
  BY <1>1
<1>10. ASSUME NEW a \in DOMAIN tokens
       PROVE  /\ tokens'[a] \in Token
              /\ tokens'[a].prev = IF a = first THEN Null ELSE tokens[a].prev
              /\ tokens'[a].next = IF a = last THEN Null ELSE tokens[a].next
              /\ tokens'[a].string = tokens[a].string /\ tokens'[a].off = tokens[a].off
              /\ tokens'[a].length = tokens[a].length /\ tokens'[a].coords = tokens[a].coords
              /\ tokens'[a].id = tokens[a].id
  <2> DEFINE u == [tokens EXCEPT ![first].prev = Null]
  <2>1. /\ u[a] \in Token
        /\ u[a].prev = IF a = first THEN Null ELSE tokens[a].prev
        /\ u[a].next = tokens[a].next
        /\ u[a].string = tokens[a].string /\ u[a].off = tokens[a].off
        /\ u[a].length = tokens[a].length /\ u[a].coords = tokens[a].coords
        /\ u[a].id = tokens[a].id
    <3>1. CASE a = first
      <4>1. u[a] = [tokens[a] EXCEPT !.prev = Null] /\ Null \in Int /\ tokens[a] \in Token
        BY <1>7, <1>8, <3>1 DEF Null
      <4> HIDE DEF u
      <4> QED BY <3>1, <4>1 DEF Token
    <3>2. CASE a # first
      BY <1>8, <3>2
    <3> QED BY <3>1, <3>2
  <2>2. tokens' = [u EXCEPT ![last].next = Null] /\ DOMAIN u = DOMAIN tokens
    BY <1>1
  <2> HIDE DEF u
  <2>3. CASE a = last
    <3>1. tokens'[a] = [u[a] EXCEPT !.next = Null] /\ Null \in Int
      BY <1>7, <2>2, <2>3 DEF Null
    <3>2. /\ tokens'[a] \in Token /\ tokens'[a].next = Null /\ tokens'[a].prev = u[a].prev
          /\ tokens'[a].string = u[a].string /\ tokens'[a].off = u[a].off
          /\ tokens'[a].length = u[a].length /\ tokens'[a].coords = u[a].coords
          /\ tokens'[a].id = u[a].id
      BY <2>1, <3>1 DEF Token
    <3> QED BY <2>1, <2>3, <3>2
  <2>4. CASE a # last
    BY <2>1, <2>2, <2>4
  <2> QED BY <2>3, <2>4
<1>11. Addressed' /\ NoCharLost' /\ CoordsFollowText' /\ Pool' = Pool /\ Size' = Size
  <2>1. \A a \in DOMAIN tokens : {tokens'[a].prev, tokens'[a].next} \subseteq DOMAIN tokens \cup {Null}
    BY <1>8, <1>10
  <2> QED BY <1>1, <1>9, <1>10, <2>1, LinkChange
<1>12. Kept'
  <2>1. kept \in Seq(3 .. Size') /\ \A i, j \in 1 .. Len(kept) : i < j => kept[i] < kept[j]
    BY <1>1, <1>11 DEF Kept
  <2>2. \A i \in 1 .. Len(kept) : tokens'[kept[i]].string = parses
    BY <1>2, <1>10
  <2> QED BY <1>1, <2>1, <2>2 DEF Kept
<1>13. Rounds' /\ CachedById'
  BY <1>1, <1>11 DEF Rounds, CachedById
<1>16. Anchor' = Anchor
  BY <1>1 DEF Anchor
<1>17. Untouched
  <2>1. \A a \in 1 .. Size : tokens[a].string # parses =>
               /\ tokens'[a].prev = tokens[a].prev /\ tokens'[a].next = tokens[a].next
               /\ tokens'[a].string = tokens[a].string
    <3> SUFFICES ASSUME NEW a \in 1 .. Size, tokens[a].string # parses
                 PROVE  /\ tokens'[a].prev = tokens[a].prev /\ tokens'[a].next = tokens[a].next
                        /\ tokens'[a].string = tokens[a].string
      OBVIOUS
    <3>1. a # first /\ a # last
      BY <1>7
    <3>2. a \in DOMAIN tokens
      BY <1>1 DEF Addressed, Pool
    <3> QED BY <1>10, <3>1, <3>2
  <2>2. Size' \in Nat /\ Size' >= Size
    BY <1>3, <1>11
  <2> QED BY <2>1, <2>2 DEF Untouched
<1>18. Called'
  <2>1. reset \in 1 .. Size
    BY <1>1 DEF Anchored, Anchor, Addressed
  <2>2. reset \in DOMAIN tokens
    BY <1>1, <2>1 DEF Addressed, Pool
  <2> QED BY <1>1, <1>9, <2>2 DEF Called
<1>19. (status' = 0) => Returned'
  <2> SUFFICES ASSUME status = 0 PROVE Returned'
    BY <1>1
  <2>1. CASE L = 0
    <3>1. tokens[token_cur].length = 0
      BY <1>1
    <3>2. token_cur = local_tail
      BY <1>1, <1>3, <1>6, <3>1 DEF Addressed
    <3>3. start' \notin Pool'
      BY <1>1, <1>4, <1>11, <2>1, <3>2 DEF Pool
    <3> QED BY <1>1, <1>2, <2>1, <3>3 DEF Returned
  <2>2. CASE L # 0
    <3>1. start' = kept'[1] /\ end' = kept'[Len(kept')]
      BY <1>1, <1>4, <1>5, <2>2
    <3>2. ASSUME NEW i \in 1 .. L - 1
          PROVE  tokens'[kept[i]].next = kept[i + 1] /\ tokens'[kept[i + 1]].prev = kept[i]
      <4>1. i \in 1 .. L /\ i + 1 \in 1 .. L /\ L \in 1 .. L /\ 1 \in 1 .. L /\ i # L /\ i + 1 # 1 /\ (i + 1) - 1 = i
        BY <1>2
      <4>2. kept[i] # last /\ kept[i + 1] # first
        BY <1>2, <1>4, <1>5, <2>2, <4>1
      <4>3. tokens[kept[i]].next = Behind(i) /\ tokens[kept[i + 1]].prev = Before(i + 1)
        BY <1>1, <4>1 DEF Local
      <4>4. Behind(i) = kept[i + 1] /\ Before(i + 1) = kept[i]
        BY <4>1 DEF Behind, Before
      <4> QED BY <1>2, <1>10, <4>1, <4>2, <4>3, <4>4
    <3>3. kept # << >> /\ kept' = kept
      BY <1>1, <1>2, <2>2
    <3> QED BY <3>1, <3>2, <3>3 DEF Returned, L
  <2> QED BY <2>1, <2>2
<1>20. Anchored'
  BY <1>1, <1>11, <1>16, <1>17, AnchorStays
<1>21. Core'
  BY <1>1, <1>11, <1>12, <1>13, <1>18, <1>19, <1>20 DEF Core
<1> QED BY <1>9, <1>10, <1>16, <1>17, <1>21

-----------------------------------------------------------------------------
(* Parser_parse keeps the invariant *)

\* Parser_parse when no token was made yet for the string: what it sets itself.
LEMMA ParseEnters ==
    ASSUME Core, NEW s \in Texts, Parser_parse(s)
    PROVE  /\ Addressed /\ Called /\ CachedById /\ pc = "idle" /\ parses' = parses + 1 /\ parses \in Nat
           /\ text' = s /\ s \in Seq(STRING) /\ Len(s) \in Nat /\ (s = << >> <=> Len(s) = 0)
           /\ kept' = << >> /\ rounds' = 0 /\ status' = 0 /\ cached' = cached
           /\ start' = Uninitialised /\ reset' = token_cur
           /\ Size \in Nat /\ Size >= 2
           /\ \A a \in 1 .. Size : a \in DOMAIN tokens /\ tokens[a].string \in 0 .. parses
<1>1. Addressed /\ Called /\ parses \in Nat
  BY DEF Core, Called
<1>2. s \in Seq(STRING)
  BY TokenAssumption
<1>3. Len(s) \in Nat /\ (s = << >> <=> Len(s) = 0)
  BY <1>2
<1>4. \A a \in 1 .. Size : a \in DOMAIN tokens /\ tokens[a].string \in 0 .. parses
  <2> TAKE a \in 1 .. Size
  <2>1. a \in DOMAIN tokens
    BY <1>1 DEF Addressed, Pool
  <2> QED BY <1>1, <2>1 DEF Addressed
<1> QED BY <1>1, <1>2, <1>3, <1>4 DEF Parser_parse, Addressed, Core

\* The pool is as it was at the call, the new token apart.
Entered ==
    /\ Size' \in Nat /\ Size' >= Size /\ Anchor' = token_cur /\ pc' \in {"loop", "link"}
    /\ pc' = "loop" => token_cur' = Size + 1
    /\ \A a \in DOMAIN tokens' : (a \in DOMAIN tokens /\ tokens'[a].next = tokens[a].next) \/ tokens'[a].next # token_head
    /\ \A a \in 1 .. Size : tokens'[a] = tokens[a]

\* The list of the parser is not touched by the first token of a string.
LEMMA ListBefore ==
    ASSUME Inv, NEW s \in Texts, Parser_parse(s), Entered
    PROVE  OnList'
<1>1. /\ Addressed /\ pc = "idle" /\ parses' = parses + 1 /\ parses \in Nat /\ Size \in Nat
      /\ \A a \in 1 .. Size : tokens[a].string \in 0 .. parses
  BY ParseEnters DEF Inv
<1>2. PICK n \in Nat : \E g : Standing(g, n) /\ FirstString(g, n)
  BY DEF Inv, OnList
<1>3. PICK g : Standing(g, n) /\ FirstString(g, n)
  BY <1>2
<1>4. /\ n >= 2 /\ g \in [1 .. n -> 1 .. Size] /\ g[1] = token_head /\ g[n] = token_tail
      /\ \A i, j \in 1 .. n : g[i] = g[j] => i = j
      /\ \A i \in 1 .. n - 1 : tokens[g[i]].next = g[i + 1] /\ tokens[g[i + 1]].prev = g[i]
      /\ tokens[token_tail].next = Null
      /\ \E p \in 1 .. n : g[p] = token_cur
  BY <1>1, <1>3 DEF Standing, Listed, Anchor
<1>5. \A i \in 1 .. n : g[i] \in 1 .. Size /\ tokens'[g[i]] = tokens[g[i]] /\ tokens'[g[i]].string # parses'
  <2> TAKE i \in 1 .. n
  <2>1. g[i] \in 1 .. Size
    BY <1>4
  <2> QED BY <1>1, <2>1 DEF Entered
<1>6. \A i \in 1 .. n - 1 : tokens'[g[i]].next = g[i + 1] /\ tokens'[g[i + 1]].prev = g[i]
  <2> TAKE i \in 1 .. n - 1
  <2>1. i \in 1 .. n /\ i + 1 \in 1 .. n
    OBVIOUS
  <2> QED BY <1>4, <1>5, <2>1
<1>7. g \in [1 .. n -> 1 .. Size'] /\ tokens'[token_tail].next = Null
  BY <1>1, <1>4, <1>5 DEF Entered
<1>8. Standing(g, n)'
  BY <1>4, <1>5, <1>6, <1>7 DEF Standing, Listed, Entered
<1>9. FirstString(g, n)'
  BY <1>1, <1>3 DEF FirstString, Anchor, Entered
<1> QED BY <1>8, <1>9 DEF OnList

\* Parser_parse of the empty string: no token is made, nothing is returned.
LEMMA ParseEmptyCore ==
    ASSUME Core, NEW s \in Texts, Parser_parse(s), s = << >>
    PROVE  Core' /\ Entered
<1>1. /\ Addressed /\ Called /\ CachedById /\ pc = "idle" /\ parses' = parses + 1 /\ parses \in Nat
      /\ text' = s /\ s \in Seq(STRING) /\ Len(s) = 0
      /\ kept' = << >> /\ rounds' = 0 /\ status' = 0 /\ cached' = cached
      /\ start' = Uninitialised /\ reset' = token_cur
      /\ Size \in Nat /\ Size >= 2
      /\ \A a \in 1 .. Size : a \in DOMAIN tokens /\ tokens[a].string \in 0 .. parses
  BY ParseEnters
<1>2. pc' = "link" /\ UNCHANGED <<tokens, ntokens, token_cur>>
  BY DEF Parser_parse
<1>3. Pool' = Pool /\ Size' = Size
  BY <1>2 DEF Pool, Size, local_head, local_tail
<1>4. Mine' = {}
  <2>1. \A a \in Pool : tokens[a].string # parses'
    BY <1>1 DEF Addressed
  <2> QED BY <1>2, <1>3, <2>1 DEF Mine
<1>5. Addressed'
  <2>1. 1 .. parses \subseteq 1 .. parses'
    BY <1>1
  <2> QED BY <1>1, <1>2, <1>3, <2>1 DEF Addressed
<1>6. Called' /\ Kept' /\ Rounds' /\ CachedById'
  BY <1>1, <1>2, <1>3 DEF Called, Kept, Rounds, CachedById
<1>7. NoCharLost' /\ CoordsFollowText'
  BY <1>4 DEF NoCharLost, CoordsFollowText
<1>8. Anchored'
  <2>1. token_cur \in Pool /\ tokens[token_tail].prev \in Pool
    BY <1>1 DEF Core, Anchored, Anchor
  <2>2. tokens[token_cur].string # parses'
    BY <1>1, <2>1 DEF Addressed
  <2> QED BY <1>2, <1>3, <2>1, <2>2 DEF Anchored, Anchor
<1>9. Returned'
  <2>1. Uninitialised \notin Pool
    BY <1>1 DEF Addressed, Uninitialised
  <2> QED BY <1>1, <1>3, <2>1 DEF Returned
<1>10. Entered
  BY <1>1, <1>2, <1>3 DEF Entered, Anchor
<1> QED BY <1>2, <1>5, <1>6, <1>7, <1>8, <1>9, <1>10 DEF Core

\* Parser_parse of a string: one token over all of it, between the sentinels.
LEMMA ParseStringCore ==
    ASSUME Core, NEW s \in Texts, Parser_parse(s), s # << >>
    PROVE  Core' /\ Entered
<1> DEFINE N == Size + 1
           new == [string |-> parses + 1, off |-> 0, length |-> Len(s),
                   id |-> ntokens, coords |-> <<1, 1>>, prev |-> local_head, next |-> local_tail]
<1>1. /\ Addressed /\ Called /\ CachedById /\ pc = "idle" /\ parses' = parses + 1 /\ parses \in Nat
      /\ text' = s /\ s \in Seq(STRING) /\ Len(s) \in Nat /\ Len(s) > 0
      /\ kept' = << >> /\ rounds' = 0 /\ status' = 0 /\ cached' = cached
      /\ start' = Uninitialised /\ reset' = token_cur
      /\ Size \in Nat /\ Size >= 2
      /\ \A a \in 1 .. Size : a \in DOMAIN tokens /\ tokens[a].string \in 0 .. parses
  BY ParseEnters
<1>2. /\ pc' = "loop" /\ token_cur' = N /\ ntokens' = ntokens + 1
      /\ tokens' = [a \in Pool \cup {N, local_head, local_tail} |->
                    CASE a = local_head -> Sentinel(SIZE_MAX, Null, N)
                      [] a = local_tail -> Sentinel(SIZE_MAX, N, Null)
                      [] a = N -> new
                      [] OTHER -> tokens[a]]
  BY DEF Parser_parse, NewAddress, Size
<1>3. Pool = 1 .. Size /\ N \in Nat /\ N \notin Locals /\ local_head # local_tail /\ N \notin Pool
      /\ Pool \cap Locals = {}
  BY <1>1 DEF Addressed, Pool, Locals, local_head, local_tail
<1> HIDE DEF N
<1>4. /\ DOMAIN tokens' = Pool \cup {N, local_head, local_tail}
      /\ tokens'[local_head] = Sentinel(SIZE_MAX, Null, N)
      /\ tokens'[local_tail] = Sentinel(SIZE_MAX, N, Null)
      /\ tokens'[N] = new
      /\ \A a \in Pool : tokens'[a] = tokens[a]
  BY <1>2, <1>3 DEF Locals
<1>5. Pool' = 1 .. Size + 1
  <2>1. Pool' = Pool \cup {N}
    BY <1>3, <1>4 DEF Pool, Locals, local_head, local_tail
  <2> QED BY <1>1, <1>3, <2>1 DEF N
<1>6. Size' = Size + 1 /\ Size' = N
  <2>1. Size + 1 \in Nat
    BY <1>1
  <2> QED BY <1>5, <2>1, PoolSize DEF Size, N
<1>7. /\ new \in Token /\ new.string = parses' /\ new.length > 0 /\ new.id = N - 3
      /\ new.coords[1] > 0 /\ new.coords[2] > 0 /\ new.off = 0
  <2>1. /\ parses + 1 \in Nat /\ Len(s) \in Nat /\ ntokens \in Nat /\ ntokens = N - 3
        /\ local_head \in Int /\ local_tail \in Int /\ <<1, 1>> \in Nat \X Nat
    BY <1>1 DEF N, Addressed, local_head, local_tail
  <2>2. new \in Token
    BY <2>1 DEF Token
  <2> QED BY <1>1, <2>1, <2>2
<1>8. /\ Sentinel(SIZE_MAX, Null, N) \in Token /\ Sentinel(SIZE_MAX, N, Null) \in Token
  BY <1>3, TokenAssumption DEF Token, Sentinel, Null
<1>9. Addressed'
  <2>1. ASSUME NEW a \in DOMAIN tokens'
        PROVE  /\ tokens'[a] \in Token
               /\ {tokens'[a].prev, tokens'[a].next} \subseteq DOMAIN tokens' \cup {Null}
               /\ a < 3 => tokens'[a].string = 0 /\ tokens'[a].length = 0
               /\ a >= 3 => /\ tokens'[a].string \in 1 .. parses'
                            /\ tokens'[a].length > 0
                            /\ tokens'[a].id = a - 3
                            /\ tokens'[a].coords[1] > 0 /\ tokens'[a].coords[2] > 0
    <3>1. CASE a = N
      <4>1. tokens'[a] = new /\ new.string \in 1 .. parses' /\ a >= 3 /\ ~(a < 3)
        BY <1>1, <1>4, <1>7, <3>1 DEF N
      <4>2. {new.prev, new.next} \subseteq DOMAIN tokens'
        BY <1>4
      <4> QED BY <1>7, <3>1, <4>1, <4>2
    <3>2. CASE a \in Locals
      BY <1>4, <1>8, <3>2 DEF Locals, Sentinel, local_head, local_tail
    <3>3. CASE a \in Pool
      <4>1. a \in DOMAIN tokens /\ tokens'[a] = tokens[a]
        BY <1>4, <3>3 DEF Pool
      <4>2. {tokens[a].prev, tokens[a].next} \subseteq DOMAIN tokens'  \cup {Null}
        <5>1. {tokens[a].prev, tokens[a].next} \subseteq DOMAIN tokens \cup {Null}
          BY <1>1, <4>1 DEF Addressed
        <5>2. DOMAIN tokens \subseteq DOMAIN tokens'
          BY <1>4 DEF Pool
        <5> QED BY <5>1, <5>2
      <4>3. 1 .. parses \subseteq 1 .. parses'
        BY <1>1
      <4> QED BY <1>1, <4>1, <4>2, <4>3 DEF Addressed
    <3> QED BY <1>4, <3>1, <3>2, <3>3 DEF Locals
  <2>2. ntokens' = Size' - 2
    BY <1>1, <1>2, <1>6 DEF Addressed
  <2> QED BY <1>1, <1>5, <1>6, <2>1, <2>2 DEF Addressed
<1>10. Mine' = {N}
  <2>1. \A a \in Pool : tokens'[a].string # parses'
    BY <1>1, <1>3, <1>4
  <2>2. \A a \in Pool' : a \in Pool \/ a = N
    BY <1>1, <1>3, <1>5 DEF N
  <2>3. N \in Pool' /\ tokens'[N].string = parses' /\ parses' > 0
    BY <1>1, <1>4, <1>5, <1>7 DEF N
  <2> QED BY <2>1, <2>2, <2>3 DEF Mine
<1>11. N - 1 \notin Mine' /\ N + 1 \notin Mine'
  BY <1>3, <1>10
<1>12. NoCharLost'
  BY <1>1, <1>4, <1>7, <1>10, <1>11 DEF NoCharLost
<1>13. CoordsFollowText'
  <2>1. /\ tokens'[N].off = 0 /\ tokens'[N].coords = <<1, 1>>
        /\ {tokens'[b].off : b \in Mine'} = {0}
    BY <1>4, <1>7, <1>10
  <2>2. NewlinesBelow(0)' = {}
    BY DEF NewlinesBelow
  <2>3. Cardinality(NewlinesBelow(0)') = 0
    BY <2>2, FS_EmptySet
  <2>4. StartsLine(0, 0)'
    BY DEF StartsLine
  <2>5. Column(1, 0, {0})'
    BY <2>4 DEF Column
  <2>6. \A a, b \in Mine' : a = N /\ ~(b < a)
    BY <1>3, <1>10
  <2>7. Mine' = {N}
    BY <1>10
  <2> HIDE DEF N
  <2>8. /\ (tokens'[N].coords)[1] = 1 + Cardinality(NewlinesBelow(0)')
        /\ (tokens'[N].coords)[2] = 1
    BY <2>1, <2>3
  <2> QED BY <2>1, <2>5, <2>6, <2>7, <2>8 DEF CoordsFollowText
<1>14. Called' /\ Kept' /\ Rounds'
  BY <1>1, <1>2, <1>3, <1>4, <1>6, <1>7 DEF Called, Kept, Rounds, Locals
<1>15. CachedById'
  <2>1. 3 .. Size \subseteq 3 .. Size'
    BY <1>1, <1>6
  <2> QED BY <1>1, <2>1 DEF CachedById
<1>16. Local'
  <2>1. Locals' \subseteq DOMAIN tokens'
    BY <1>4 DEF Locals, local_head, local_tail
  <2>2. Behind(0)' = N /\ Before(Len(kept) + 1)' = local_head /\ Len(kept') = 0
    BY <1>1, <1>2 DEF Before, Behind, local_head
  <2>3. tokens'[local_head].next = N /\ tokens'[local_tail].prev = N
    BY <1>4 DEF Sentinel
  <2>4. tokens'[N].next = local_tail /\ tokens'[N].prev = local_head /\ tokens'[N].string = parses'
    BY <1>1, <1>4
  <2> QED BY <1>1, <1>2, <1>6, <2>1, <2>2, <2>3, <2>4 DEF Local
<1>17. Entered
  <2>1. Anchor' = token_cur
    BY <1>1, <1>2 DEF Anchor
  <2>2. Size' \in Nat /\ Size' >= Size /\ pc' \in {"loop", "link"}
    BY <1>1, <1>2, <1>6
  <2>3. \A a \in 1 .. Size : tokens'[a] = tokens[a]
    BY <1>3, <1>4
  <2>4. \A a \in DOMAIN tokens' : (a \in DOMAIN tokens /\ tokens'[a].next = tokens[a].next) \/ tokens'[a].next # token_head
    <3>1. \A a \in Pool : a \in DOMAIN tokens /\ tokens'[a].next = tokens[a].next
      BY <1>4 DEF Pool
    <3>2. \A a \in {N, local_head, local_tail} : tokens'[a].next # token_head
      BY <1>1, <1>3, <1>4 DEF Sentinel, N, Null, local_tail, token_head
    <3> QED BY <1>4, <3>1, <3>2
  <2>5. token_cur' = Size + 1
    BY <1>2 DEF N
  <2> QED BY <2>1, <2>2, <2>3, <2>4, <2>5 DEF Entered
<1>18. Anchored'
  <2>1. token_cur \in Pool /\ tokens[token_tail].prev \in Pool
    BY <1>1 DEF Core, Anchored, Anchor
  <2>2. tokens[token_cur].string # parses' /\ token_tail \in Pool
    BY <1>1, <1>3, <2>1 DEF token_tail
  <2>3. Pool \subseteq Pool'
    BY <1>1, <1>3, <1>5
  <2>4. Anchor' = token_cur
    BY <1>17 DEF Entered
  <2>5. tokens'[token_cur] = tokens[token_cur] /\ tokens'[token_tail] = tokens[token_tail]
    BY <1>4, <2>1, <2>2
  <2>6. token_cur \in Pool' /\ tokens[token_tail].prev \in Pool'
    BY <2>1, <2>3
  <2> QED BY <2>2, <2>4, <2>5, <2>6 DEF Anchored, token_tail
<1> QED BY <1>2, <1>9, <1>12, <1>13, <1>14, <1>15, <1>16, <1>17, <1>18 DEF Core

\* The parser is left where it stands: the string is given up, or a pointer to
\* no token is followed.
LEMMA LeftCore ==
    ASSUME Core, pc = "link", pc' \in {"idle", "undefined"},
           UNCHANGED <<tokens, ntokens, token_cur, text, reset, start, end, status, kept, rounds, cached, parses>>
    PROVE  Core' /\ (OnList => OnList')
<1>1. /\ Addressed /\ Called /\ Kept /\ Rounds /\ CachedById /\ Anchored /\ NoCharLost /\ CoordsFollowText
      /\ parses > 0
  BY DEF Core, Called
<1>2. Pool' = Pool /\ Size' = Size /\ Mine' = Mine /\ Anchor' = Anchor
  BY DEF Pool, Size, local_head, local_tail, Mine, Anchor
<1>3. Addressed' /\ Called' /\ Kept' /\ Rounds' /\ CachedById' /\ Anchored'
  BY <1>1, <1>2 DEF Addressed, Called, Kept, Rounds, CachedById, Anchored, token_tail
<1>4. NoCharLost' /\ CoordsFollowText'
  BY <1>1, <1>2, CoordsKept DEF NoCharLost
<1>5. ASSUME NEW n \in Nat, NEW g, Standing(g, n), FirstString(g, n)
      PROVE  Standing(g, n)' /\ FirstString(g, n)'
  <2>1. Listed(g, n)'
    BY <1>2, <1>5 DEF Standing, Listed
  <2> QED BY <1>1, <1>2, <1>5, <2>1 DEF Standing, FirstString
<1> QED BY <1>3, <1>4, <1>5 DEF Core, OnList

\* The string is given up: the new tokens are left where they are.
LEMMA FailedInv == ASSUME Inv, TokenizeFailed PROVE Inv'
<1>1. FirstStringSafe'
  BY DEF TokenizeFailed, FirstStringSafe
<1> QED BY <1>1, LeftCore DEF Inv, TokenizeFailed

\* A pointer to no token is followed: not for a first string with a token in it.
LEMMA UndefinedInv == ASSUME Inv, LinkUndefined PROVE Inv'
<1>1. /\ pc = "link" /\ status = 0 /\ pc' = "undefined"
      /\ start \notin Pool \/ end \notin Pool \/ tokens[token_cur].next = Null
      /\ UNCHANGED <<tokens, ntokens, token_cur, text, reset, start, end, status, kept, rounds, cached, parses>>
      /\ Addressed /\ Kept /\ Returned /\ Core /\ OnList
  BY DEF Inv, Core, LinkUndefined
<1>2. Core' /\ OnList'
  BY <1>1, LeftCore
<1>3. PICK n \in Nat : \E g : Standing(g, n) /\ FirstString(g, n)
  BY <1>1 DEF OnList
<1>4. PICK g : Standing(g, n) /\ FirstString(g, n)
  BY <1>3
<1>5. FirstStringSafe'
  <2> SUFFICES ASSUME parses = 1, kept # << >> PROVE FALSE
    BY <1>1 DEF FirstStringSafe
  <2>1. start \in Pool /\ end \in Pool
    <3>1. Len(kept) \in Nat /\ Len(kept) # 0 /\ \A i \in 1 .. Len(kept) : kept[i] \in 3 .. Size
      BY <1>1, KeptTokens
    <3>2. 1 \in 1 .. Len(kept) /\ Len(kept) \in 1 .. Len(kept)
      BY <3>1
    <3>3. kept[1] \in 3 .. Size /\ kept[Len(kept)] \in 3 .. Size
      BY <3>1, <3>2
    <3> QED BY <1>1, <3>3 DEF Returned, Addressed
  <2>2. n = 2 /\ token_cur = token_head
    BY <1>1, <1>4 DEF FirstString, Anchor
  <2>3. tokens[token_head].next = token_tail
    <3>1. 1 \in 1 .. n - 1 /\ 1 + 1 = n
      BY <2>2
    <3> QED BY <1>4, <3>1 DEF Standing, Listed
  <2> QED BY <1>1, <2>1, <2>2, <2>3 DEF token_tail, Null
<1> QED BY <1>2, <1>5 DEF Inv

\* In v the links of some tokens of u are others.
Relinks(v, u) ==
    /\ DOMAIN v = DOMAIN u
    /\ \A a \in DOMAIN u : /\ v[a] \in Token
                          /\ v[a].string = u[a].string /\ v[a].off = u[a].off
                          /\ v[a].length = u[a].length /\ v[a].coords = u[a].coords /\ v[a].id = u[a].id

\* One next link is set, or one prev link.
NextIs(v, u, d, b) ==
    /\ Relinks(v, u)
    /\ \A a \in DOMAIN u : v[a].next = (IF a = d THEN b ELSE u[a].next) /\ v[a].prev = u[a].prev
PrevIs(v, u, d, b) ==
    /\ Relinks(v, u)
    /\ \A a \in DOMAIN u : v[a].prev = (IF a = d THEN b ELSE u[a].prev) /\ v[a].next = u[a].next

\* All are tokens.
Tokens(u) == \A a \in DOMAIN u : u[a] \in Token

\* One next link is set.
LEMMA NextSet ==
    ASSUME NEW u, Tokens(u), NEW d \in DOMAIN u, NEW b \in Int
    PROVE  NextIs([u EXCEPT ![d].next = b], u, d, b)
<1> DEFINE v == [u EXCEPT ![d].next = b]
<1>1. DOMAIN v = DOMAIN u /\ v[d] = [u[d] EXCEPT !.next = b] /\ \A a \in DOMAIN u \ {d} : v[a] = u[a]
  OBVIOUS
<1> HIDE DEF v
<1>2. u[d] \in Token
  BY DEF Tokens
<1>3. /\ v[d] \in Token /\ v[d].next = b /\ v[d].prev = u[d].prev
      /\ v[d].string = u[d].string /\ v[d].off = u[d].off
      /\ v[d].length = u[d].length /\ v[d].coords = u[d].coords /\ v[d].id = u[d].id
  BY <1>1, <1>2 DEF Token
<1>4. \A a \in DOMAIN u : a = d \/ v[a] = u[a]
  BY <1>1
<1>5. \A a \in DOMAIN u : /\ v[a].next = IF a = d THEN b ELSE u[a].next
                        /\ v[a].prev = u[a].prev
  BY <1>3, <1>4
<1>6. Relinks(v, u)
  BY <1>1, <1>3, <1>4 DEF Relinks, Tokens
<1> QED BY <1>5, <1>6 DEF v, NextIs

\* One prev link is set.
LEMMA PrevSet ==
    ASSUME NEW u, Tokens(u), NEW d \in DOMAIN u, NEW b \in Int
    PROVE  PrevIs([u EXCEPT ![d].prev = b], u, d, b)
<1> DEFINE v == [u EXCEPT ![d].prev = b]
<1>1. DOMAIN v = DOMAIN u /\ v[d] = [u[d] EXCEPT !.prev = b] /\ \A a \in DOMAIN u \ {d} : v[a] = u[a]
  OBVIOUS
<1> HIDE DEF v
<1>2. u[d] \in Token
  BY DEF Tokens
<1>3. /\ v[d] \in Token /\ v[d].prev = b /\ v[d].next = u[d].next
      /\ v[d].string = u[d].string /\ v[d].off = u[d].off
      /\ v[d].length = u[d].length /\ v[d].coords = u[d].coords /\ v[d].id = u[d].id
  BY <1>1, <1>2 DEF Token
<1>4. \A a \in DOMAIN u : a = d \/ v[a] = u[a]
  BY <1>1
<1>5. \A a \in DOMAIN u : /\ v[a].prev = IF a = d THEN b ELSE u[a].prev
                        /\ v[a].next = u[a].next
  BY <1>3, <1>4
<1>6. Relinks(v, u)
  BY <1>1, <1>3, <1>4 DEF Relinks, Tokens
<1> QED BY <1>5, <1>6 DEF v, PrevIs

\* The new tokens are linked in after the current one, wherever that is.
LEMMA LinkCore ==
    ASSUME Core, Link
    PROVE  /\ Core' /\ DOMAIN tokens' = DOMAIN tokens /\ Pool' = Pool /\ Size' = Size
           /\ tokens'[token_tail].id > end - 3
           /\ \A a \in DOMAIN tokens :
                 /\ tokens'[a].next = IF a = token_cur THEN start
                                      ELSE IF a = end THEN tokens[token_cur].next ELSE tokens[a].next
                 /\ tokens'[a].prev = IF a = start THEN token_cur
                                      ELSE IF a = tokens[token_cur].next THEN end ELSE tokens[a].prev
                 /\ tokens'[a].string = tokens[a].string /\ tokens'[a].off = tokens[a].off
                 /\ tokens'[a].length = tokens[a].length
<1> DEFINE L == Len(kept)
           cur == token_cur
           nxt == tokens[cur].next
           t1 == [tokens EXCEPT ![end].next = nxt]
           t2 == [t1 EXCEPT ![nxt].prev = end]
           t3 == [t2 EXCEPT ![cur].next = start]
           t4 == [t3 EXCEPT ![start].prev = cur]
<1>1. /\ pc = "link" /\ status = 0 /\ start \in Pool /\ end \in Pool /\ nxt # Null
      /\ tokens' = [t4 EXCEPT ![token_tail].id = TailId(t4)]
      /\ token_cur' = start /\ pc' = "parse"
      /\ UNCHANGED <<ntokens, text, reset, start, end, status, kept, rounds, cached, parses>>
      /\ Addressed /\ Called /\ Kept /\ Rounds /\ CachedById /\ Anchored /\ NoCharLost /\ CoordsFollowText /\ Returned
  BY DEF Core, Link
<1>2. Pool = 1 .. Size /\ Size \in Nat /\ Size >= 2 /\ \A a \in Pool : a \in DOMAIN tokens /\ a \in Nat
  <2>1. Pool = 1 .. Size /\ Size \in Nat /\ Size >= 2
    BY <1>1 DEF Addressed
  <2>2. \A a \in Pool : a \in DOMAIN tokens
    BY DEF Pool
  <2> QED BY <2>1, <2>2
<1>3. start \in 3 .. Size /\ end \in 3 .. Size
  <2>1. /\ L \in Nat /\ (kept = << >> <=> L = 0) /\ \A i \in 1 .. L : kept[i] \in 3 .. Size
    BY <1>1, KeptTokens
  <2>2. kept # << >> /\ start = kept[1] /\ end = kept[L]
    BY <1>1 DEF Returned
  <2>3. 1 \in 1 .. L /\ L \in 1 .. L
    BY <2>1, <2>2
  <2> QED BY <2>1, <2>2, <2>3
<1>4. \A a \in DOMAIN tokens : tokens[a] \in Token /\ {tokens[a].prev, tokens[a].next} \subseteq DOMAIN tokens \cup {Null}
  BY <1>1 DEF Addressed
<1>5. /\ cur \in Pool /\ cur \in DOMAIN tokens /\ nxt \in DOMAIN tokens /\ nxt \in Int
      /\ start \in DOMAIN tokens /\ end \in DOMAIN tokens
      /\ start \in Nat /\ end \in Nat /\ cur \in Nat /\ start >= 3 /\ end >= 3
  <2>1. cur \in Pool
    BY <1>1 DEF Anchored, Anchor
  <2>2. cur \in DOMAIN tokens /\ cur \in Nat
    BY <1>2, <2>1
  <2>3. nxt \in DOMAIN tokens
    BY <1>1, <1>4, <2>2
  <2>4. nxt \in Int
    BY <1>4, <2>2 DEF Token
  <2>5. start \in DOMAIN tokens /\ end \in DOMAIN tokens
    BY <1>1, <1>2
  <2>6. start \in Nat /\ end \in Nat /\ start >= 3 /\ end >= 3
    BY <1>2, <1>3
  <2> QED BY <2>1, <2>2, <2>3, <2>4, <2>5, <2>6
<1> HIDE DEF cur, nxt
<1>6. NextIs(t1, tokens, end, nxt)
  BY <1>4, <1>5, NextSet DEF Tokens
<1>7. DOMAIN t1 = DOMAIN tokens /\ Tokens(t1)
  BY <1>6 DEF NextIs, Relinks, Tokens
<1>8. PrevIs(t2, t1, nxt, end)
  <2> HIDE DEF t1
  <2>1. nxt \in DOMAIN t1 /\ end \in Int
    BY <1>5, <1>7
  <2> QED BY <1>7, <2>1, PrevSet
<1>9. DOMAIN t2 = DOMAIN tokens /\ Tokens(t2)
  <2> HIDE DEF t1, t2
  <2> QED BY <1>7, <1>8 DEF PrevIs, Relinks, Tokens
<1>10. NextIs(t3, t2, cur, start)
  <2> HIDE DEF t2
  <2>1. cur \in DOMAIN t2 /\ start \in Int
    BY <1>5, <1>9
  <2> QED BY <1>9, <2>1, NextSet
<1>11. DOMAIN t3 = DOMAIN tokens /\ Tokens(t3)
  <2> HIDE DEF t2, t3
  <2> QED BY <1>9, <1>10 DEF NextIs, Relinks, Tokens
<1>12. PrevIs(t4, t3, start, cur)
  <2> HIDE DEF t3
  <2>1. start \in DOMAIN t3 /\ cur \in Int
    BY <1>5, <1>11
  <2> QED BY <1>11, <2>1, PrevSet
<1> HIDE DEF t1, t2, t3, t4
<1>13. DOMAIN t4 = DOMAIN tokens
  BY <1>11, <1>12 DEF PrevIs, Relinks
<1>14. ASSUME NEW a \in DOMAIN tokens
       PROVE  /\ t4[a] \in Token
              /\ t4[a].next = IF a = cur THEN start ELSE IF a = end THEN nxt ELSE tokens[a].next
              /\ t4[a].prev = IF a = start THEN cur ELSE IF a = nxt THEN end ELSE tokens[a].prev
              /\ t4[a].string = tokens[a].string /\ t4[a].off = tokens[a].off
              /\ t4[a].length = tokens[a].length /\ t4[a].coords = tokens[a].coords
              /\ t4[a].id = tokens[a].id
  BY <1>6, <1>7, <1>8, <1>9, <1>10, <1>11, <1>12 DEF NextIs, PrevIs, Relinks
<1>15. TailId(t4) \in Nat /\ TailId(t4) > end - 3
  <2>1. token_tail \in DOMAIN tokens /\ tokens[token_tail].prev \in DOMAIN tokens
    BY <1>1, <1>2 DEF Anchored, token_tail
  <2>2. t4[token_tail].prev \in DOMAIN tokens
    BY <1>5, <1>14, <2>1
  <2>3. t4[t4[token_tail].prev].id \in Nat
    BY <1>14, <2>2 DEF Token
  <2>4. t4[end].id = end - 3
    BY <1>1, <1>5, <1>14 DEF Addressed
  <2> QED BY <1>5, <2>3, <2>4 DEF TailId, MaxId
<1>16. token_tail \in DOMAIN tokens
  BY <1>2 DEF token_tail
<1>17. DOMAIN tokens' = DOMAIN tokens
  BY <1>1, <1>13
<1>18. ASSUME NEW a \in DOMAIN tokens
       PROVE  /\ tokens'[a] \in Token
              /\ tokens'[a].next = t4[a].next /\ tokens'[a].prev = t4[a].prev
              /\ tokens'[a].string = t4[a].string /\ tokens'[a].off = t4[a].off
              /\ tokens'[a].length = t4[a].length /\ tokens'[a].coords = t4[a].coords
              /\ tokens'[a].id = IF a = token_tail THEN TailId(t4) ELSE t4[a].id
  <2>1. t4[a] \in Token
    BY <1>14
  <2>2. CASE a # token_tail
    BY <1>1, <1>13, <2>1, <2>2
  <2>3. CASE a = token_tail
    <3> DEFINE z == TailId(t4)
    <3>1. tokens'[a] = [t4[a] EXCEPT !.id = z] /\ z \in Nat
      BY <1>1, <1>13, <1>15, <2>3
    <3> HIDE DEF z
    <3>2. /\ tokens'[a] \in Token
          /\ tokens'[a].next = t4[a].next /\ tokens'[a].prev = t4[a].prev
          /\ tokens'[a].string = t4[a].string /\ tokens'[a].off = t4[a].off
          /\ tokens'[a].length = t4[a].length /\ tokens'[a].coords = t4[a].coords
          /\ tokens'[a].id = z
      BY <2>1, <3>1 DEF Token
    <3> QED BY <2>3, <3>2 DEF z
  <2> QED BY <2>2, <2>3
<1>19. Addressed' /\ NoCharLost' /\ CoordsFollowText' /\ Pool' = Pool /\ Size' = Size
  <2>1. \A a \in DOMAIN tokens :
               /\ tokens'[a] \in Token
               /\ {tokens'[a].prev, tokens'[a].next} \subseteq DOMAIN tokens \cup {Null}
               /\ tokens'[a].string = tokens[a].string /\ tokens'[a].off = tokens[a].off
               /\ tokens'[a].length = tokens[a].length /\ tokens'[a].coords = tokens[a].coords
               /\ a >= 3 => tokens'[a].id = tokens[a].id
    <3> TAKE a \in DOMAIN tokens
    <3>1. tokens'[a].prev \in DOMAIN tokens \cup {Null} /\ tokens'[a].next \in DOMAIN tokens \cup {Null}
      BY <1>4, <1>5, <1>14, <1>18
    <3>2. a >= 3 => tokens'[a].id = tokens[a].id
      BY <1>14, <1>18 DEF token_tail
    <3> QED BY <1>14, <1>18, <3>1, <3>2
  <2>2. UNCHANGED <<ntokens, parses, text>>
    BY <1>1
  <2> QED BY <1>1, <1>17, <2>1, <2>2, LinkChange
<1>20. Kept'
  <2>1. kept \in Seq(3 .. Size') /\ \A i, j \in 1 .. Len(kept) : i < j => kept[i] < kept[j]
    BY <1>1, <1>19 DEF Kept
  <2>2. \A i \in 1 .. L : kept[i] \in DOMAIN tokens /\ tokens[kept[i]].string = parses
    BY <1>1, KeptTokens
  <2>3. \A i \in 1 .. L : tokens'[kept[i]].string = parses
    BY <1>14, <1>18, <2>2
  <2> QED BY <1>1, <2>1, <2>3 DEF Kept
<1>21. Called' /\ Rounds' /\ CachedById'
  BY <1>1, <1>5, <1>17, <1>19 DEF Called, Rounds, CachedById
<1>22. Anchored'
  <2>1. tokens'[token_tail].prev \in Pool
    <3>1. tokens[token_tail].prev \in Pool
      BY <1>1 DEF Anchored
    <3> QED BY <1>1, <1>5, <1>14, <1>16, <1>18, <3>1
  <2> QED BY <1>1, <1>19, <2>1 DEF Anchored, Anchor, token_tail
<1>23. Core'
  BY <1>1, <1>19, <1>20, <1>21, <1>22 DEF Core
<1>24. tokens'[token_tail].id > end - 3
  BY <1>15, <1>16, <1>18
<1> QED BY <1>14, <1>17, <1>18, <1>19, <1>23, <1>24 DEF cur, nxt

\* The list with the kept tokens put in after its p-th.
Joined(g, n, p) ==
    [i \in 1 .. n + Len(kept) |->
        IF i <= p THEN g[i] ELSE IF i <= p + Len(kept) THEN kept[i - p] ELSE g[i - Len(kept)]]

\* The elements of h are those of g up to the p-th, those kept, and the others of g.
Composed(h, g, n, p, L) ==
    /\ L \in Nat /\ n + L \in Nat /\ n + L >= 2
    /\ h \in [1 .. n + L -> 1 .. Size]
    /\ \A i \in 1 .. p : i \in 1 .. n /\ i \in 1 .. n + L /\ h[i] = g[i]
    /\ \A i \in 1 .. L : p + i \in 1 .. n + L /\ h[p + i] = kept[i]
    /\ \A i \in p + 1 .. n : i + L \in 1 .. n + L /\ h[i + L] = g[i]
    /\ \A k \in 1 .. n + L : \/ k \in 1 .. p
                             \/ \E i \in 1 .. L : k = p + i
                             \/ \E i \in p + 1 .. n : k = i + L

\* Where the elements of the joined list come from.
LEMMA JoinedIs ==
    ASSUME Addressed, Kept, NEW n \in Nat, NEW g, Listed(g, n), NEW p \in 1 .. n - 1
    PROVE  Composed(Joined(g, n, p), g, n, p, Len(kept))
<1> DEFINE L == Len(kept)
           h == Joined(g, n, p)
<1>1. L \in Nat /\ \A i \in 1 .. L : kept[i] \in 3 .. Size
  BY KeptTokens
<1>2. p \in Nat /\ p >= 1 /\ p < n /\ n >= 2 /\ Size \in Nat /\ \A i \in 1 .. n : g[i] \in 1 .. Size
  BY DEF Listed, Addressed
<1>3. h = [i \in 1 .. n + L |-> IF i <= p THEN g[i] ELSE IF i <= p + L THEN kept[i - p] ELSE g[i - L]]
  BY DEF Joined
<1> HIDE DEF h, L
<1>4. \A i \in 1 .. p : i \in 1 .. n /\ i \in 1 .. n + L /\ h[i] = g[i]
  <2> TAKE i \in 1 .. p
  <2>1. i \in 1 .. n /\ i \in 1 .. n + L /\ i <= p
    BY <1>1, <1>2
  <2> QED BY <1>3, <2>1
<1>5. \A i \in 1 .. L : p + i \in 1 .. n + L /\ h[p + i] = kept[i]
  <2> TAKE i \in 1 .. L
  <2>1. p + i \in 1 .. n + L /\ ~(p + i <= p) /\ p + i <= p + L /\ (p + i) - p = i
    BY <1>1, <1>2
  <2> QED BY <1>3, <2>1
<1>6. \A i \in p + 1 .. n : i + L \in 1 .. n + L /\ h[i + L] = g[i]
  <2> TAKE i \in p + 1 .. n
  <2>1. i + L \in 1 .. n + L /\ ~(i + L <= p) /\ ~(i + L <= p + L) /\ (i + L) - L = i
    BY <1>1, <1>2
  <2> QED BY <1>3, <2>1
<1>7. ASSUME NEW k \in 1 .. n + L
      PROVE  \/ k \in 1 .. p
             \/ \E i \in 1 .. L : k = p + i
             \/ \E i \in p + 1 .. n : k = i + L
  <2>1. CASE k <= p
    BY <1>2, <2>1
  <2>2. CASE p < k /\ k <= p + L
    <3>1. k - p \in 1 .. L /\ k = p + (k - p)
      BY <1>1, <1>2, <2>2
    <3> QED BY <3>1
  <2>3. CASE p + L < k
    <3>1. k - L \in p + 1 .. n /\ k = (k - L) + L
      BY <1>1, <1>2, <2>3
    <3> QED BY <3>1
  <2> QED BY <1>1, <1>2, <2>1, <2>2, <2>3
<1>8. \A k \in 1 .. n + L : h[k] \in 1 .. Size
  <2> TAKE k \in 1 .. n + L
  <2>1. CASE k \in 1 .. p
    BY <1>2, <1>4, <2>1
  <2>2. CASE \E i \in 1 .. L : k = p + i
    BY <1>1, <1>2, <1>5, <2>2 DEF L
  <2>3. CASE \E i \in p + 1 .. n : k = i + L
    <3>1. PICK i \in p + 1 .. n : k = i + L
      BY <2>3
    <3>2. i \in 1 .. n
      BY <1>2
    <3> QED BY <1>2, <1>6, <3>1, <3>2
  <2> QED BY <1>7, <2>1, <2>2, <2>3
<1>9. h \in [1 .. n + L -> 1 .. Size]
  BY <1>3, <1>8
<1>10. n + L \in Nat /\ n + L >= 2 /\ L \in Nat
  BY <1>1, <1>2 DEF L
<1>11. Composed(h, g, n, p, L)
  BY <1>4, <1>5, <1>6, <1>7, <1>9, <1>10 DEF Composed
<1> QED BY <1>11 DEF h, L

\* The new tokens are linked in after the current one.
LEMMA LinkInv == ASSUME Inv, Link PROVE Inv'
<1> DEFINE L == Len(kept)
           cur == token_cur
           nxt == tokens[cur].next
<1>1. /\ pc = "link" /\ status = 0 /\ start \in Pool /\ end \in Pool /\ nxt # Null
      /\ token_cur' = start /\ pc' = "parse"
      /\ UNCHANGED <<ntokens, text, reset, start, end, status, kept, rounds, cached, parses>>
      /\ Core /\ Addressed /\ Called /\ Kept /\ Returned
  BY DEF Inv, Core, Link
<1>2. PICK n \in Nat : \E g : Standing(g, n) /\ FirstString(g, n)
  BY DEF Inv, OnList
<1>3. PICK g : Standing(g, n) /\ FirstString(g, n)
  BY <1>2
<1>4. Listed(g, n)
  BY <1>3 DEF Standing
<1>5. /\ n >= 2 /\ g[1] = token_head /\ g[n] = token_tail
      /\ \A i \in 1 .. n : g[i] \in 1 .. Size
      /\ \A i, j \in 1 .. n : g[i] = g[j] => i = j
      /\ \A i \in 1 .. n - 1 : tokens[g[i]].next = g[i + 1] /\ tokens[g[i + 1]].prev = g[i]
      /\ tokens[token_tail].next = Null
      /\ \A i \in 1 .. n : tokens[g[i]].string # parses
  BY <1>1, <1>3, <1>4 DEF Standing, Listed
<1>6. PICK q \in 1 .. n : g[q] = cur
  BY <1>1, <1>3 DEF Standing, Anchor
<1>7. /\ L \in Nat /\ (kept = << >> <=> L = 0)
      /\ \A i \in 1 .. L : kept[i] \in 3 .. Size /\ kept[i] \in DOMAIN tokens /\ tokens[kept[i]].string = parses
      /\ \A i, j \in 1 .. L : kept[i] = kept[j] => i = j
  BY <1>1, KeptTokens
<1>8. L # 0 /\ L >= 1 /\ start = kept[1] /\ end = kept[L]
  <2>1. Returned /\ start \in Pool
    BY <1>1
  <2>2. kept # << >> /\ start = kept[1] /\ end = kept[L]
    BY <2>1 DEF Returned
  <2> QED BY <1>7, <2>2
<1> HIDE DEF L
<1>9. q < n /\ q \in 1 .. n - 1 /\ q + 1 \in 1 .. n /\ nxt = g[q + 1]
  <2>1. q # n
    BY <1>1, <1>5, <1>6
  <2>2. q < n /\ q \in 1 .. n - 1 /\ q + 1 \in 1 .. n
    BY <2>1
  <2> QED BY <1>5, <1>6, <2>2
<1>10. Size \in Nat /\ \A a \in 1 .. Size : a \in DOMAIN tokens /\ a \in Nat
  <2>1. Addressed
    BY <1>1
  <2> QED BY <2>1 DEF Addressed, Pool
<1>11. 1 \in 1 .. L /\ L \in 1 .. L
  BY <1>7, <1>8
<1>12. /\ start \in 3 .. Size /\ end \in 3 .. Size /\ start \in DOMAIN tokens /\ end \in DOMAIN tokens
       /\ cur \in DOMAIN tokens /\ nxt \in DOMAIN tokens
       /\ start \in Nat /\ end \in Nat /\ cur \in Nat /\ nxt \in Nat
  <2>1. start \in 3 .. Size /\ end \in 3 .. Size
    BY <1>7, <1>8, <1>11
  <2>2. start \in 1 .. Size /\ end \in 1 .. Size
    BY <2>1, <1>10
  <2>3. cur \in 1 .. Size /\ nxt \in 1 .. Size
    BY <1>5, <1>6, <1>9
  <2> QED BY <1>10, <2>1, <2>2, <2>3
<1>13. \A i \in 1 .. n, j \in 1 .. L : g[i] # kept[j]
  BY <1>5, <1>7
<1>14. /\ start # cur /\ start # nxt /\ end # cur /\ end # nxt /\ cur # nxt
  <2>1. q # q + 1
    OBVIOUS
  <2> QED BY <1>5, <1>6, <1>8, <1>9, <1>11, <1>13, <2>1
<1> HIDE DEF cur, nxt
<1>15. /\ Core' /\ DOMAIN tokens' = DOMAIN tokens /\ Pool' = Pool /\ Size' = Size
       /\ tokens'[token_tail].id > end - 3
  BY <1>1, LinkCore
<1>19. ASSUME NEW a \in DOMAIN tokens
       PROVE  /\ tokens'[a].next = IF a = cur THEN start ELSE IF a = end THEN nxt ELSE tokens[a].next
              /\ tokens'[a].prev = IF a = start THEN cur ELSE IF a = nxt THEN end ELSE tokens[a].prev
              /\ tokens'[a].string = tokens[a].string
  BY <1>1, LinkCore DEF cur, nxt
<1>32. PICK h : h = Joined(g, n, q)
  OBVIOUS
<1>24. /\ n + L \in Nat /\ n + L >= 2
       /\ h \in [1 .. n + L -> 1 .. Size]
       /\ \A i \in 1 .. q : i \in 1 .. n /\ i \in 1 .. n + L /\ h[i] = g[i]
       /\ \A i \in 1 .. L : q + i \in 1 .. n + L /\ h[q + i] = kept[i]
       /\ \A i \in q + 1 .. n : i + L \in 1 .. n + L /\ h[i + L] = g[i]
       /\ \A k \in 1 .. n + L : \/ k \in 1 .. q
                                \/ \E i \in 1 .. L : k = q + i
                                \/ \E i \in q + 1 .. n : k = i + L
  <2>1. Addressed /\ Kept
    BY <1>1
  <2>2. Composed(Joined(g, n, q), g, n, q, Len(kept))
    BY <1>4, <1>9, <2>1, JoinedIs
  <2>3. Composed(h, g, n, q, L)
    BY <1>32, <2>2 DEF L
  <2> QED BY <2>3 DEF Composed
<1>25. /\ h[1] = token_head /\ h[n + L] = token_tail
  <2>1. 1 \in 1 .. q /\ n \in q + 1 .. n
    BY <1>9
  <2> QED BY <1>5, <1>24, <2>1
<1>26. ASSUME NEW i \in 1 .. n + L, NEW j \in 1 .. n + L, h[i] = h[j] PROVE i = j
  <2>1. \A k \in 1 .. q : k \in 1 .. n
    BY <1>24
  <2>2. \A k \in q + 1 .. n : k \in 1 .. n
    OBVIOUS
  <2>3. CASE i \in 1 .. q
    <3>1. h[i] = g[i] /\ i \in 1 .. n
      BY <1>24, <2>3
    <3>2. CASE j \in 1 .. q
      <4>1. h[j] = g[j] /\ j \in 1 .. n
        BY <1>24, <3>2
      <4> QED BY <1>5, <1>26, <3>1, <4>1
    <3>3. ASSUME NEW k \in 1 .. L, j = q + k PROVE FALSE
      <4>1. h[j] = kept[k]
        BY <1>24, <3>3
      <4> QED BY <1>13, <1>26, <3>1, <4>1
    <3>4. ASSUME NEW k \in q + 1 .. n, j = k + L PROVE FALSE
      <4>1. g[k] = g[i] /\ k \in 1 .. n
        BY <1>24, <1>26, <2>2, <3>1, <3>4
      <4> QED BY <1>5, <2>3, <3>1, <4>1
    <3> QED BY <1>24, <3>2, <3>3, <3>4
  <2>4. ASSUME NEW u \in 1 .. L, i = q + u PROVE i = j
    <3>1. h[i] = kept[u]
      BY <1>24, <2>4
    <3>2. ASSUME j \in 1 .. q PROVE FALSE
      <4>1. h[j] = g[j] /\ j \in 1 .. n
        BY <1>24, <3>2
      <4> QED BY <1>13, <1>26, <3>1, <4>1
    <3>3. ASSUME NEW k \in 1 .. L, j = q + k PROVE i = j
      <4>1. h[j] = kept[k]
        BY <1>24, <3>3
      <4> QED BY <1>7, <1>26, <2>4, <3>1, <3>3, <4>1
    <3>4. ASSUME NEW k \in q + 1 .. n, j = k + L PROVE FALSE
      <4>1. h[j] = g[k] /\ k \in 1 .. n
        BY <1>24, <2>2, <3>4
      <4> QED BY <1>13, <1>26, <3>1, <4>1
    <3> QED BY <1>24, <3>2, <3>3, <3>4
  <2>5. ASSUME NEW u \in q + 1 .. n, i = u + L PROVE i = j
    <3>1. h[i] = g[u] /\ u \in 1 .. n
      BY <1>24, <2>2, <2>5
    <3>2. ASSUME j \in 1 .. q PROVE FALSE
      <4>1. g[j] = g[u] /\ j \in 1 .. n
        BY <1>24, <1>26, <3>1, <3>2
      <4> QED BY <1>5, <3>1, <3>2, <4>1
    <3>3. ASSUME NEW k \in 1 .. L, j = q + k PROVE FALSE
      <4>1. h[j] = kept[k]
        BY <1>24, <3>3
      <4> QED BY <1>13, <1>26, <3>1, <4>1
    <3>4. ASSUME NEW k \in q + 1 .. n, j = k + L PROVE i = j
      <4>1. g[k] = g[u] /\ k \in 1 .. n
        BY <1>24, <1>26, <2>2, <3>1, <3>4
      <4> QED BY <1>5, <2>5, <3>1, <3>4, <4>1
    <3> QED BY <1>24, <3>2, <3>3, <3>4
  <2> QED BY <1>24, <2>3, <2>4, <2>5
<1>27. \A i \in 1 .. n : g[i] \in DOMAIN tokens /\ (g[i] = cur <=> i = q) /\ (g[i] = nxt <=> i = q + 1)
                         /\ g[i] # start /\ g[i] # end
  BY <1>5, <1>6, <1>8, <1>9, <1>10, <1>11, <1>13 DEF cur
<1>28. \A i \in 1 .. L : kept[i] \in DOMAIN tokens /\ (kept[i] = start <=> i = 1) /\ (kept[i] = end <=> i = L)
                         /\ kept[i] # cur /\ kept[i] # nxt
  <2> TAKE i \in 1 .. L
  <2>1. kept[i] \in DOMAIN tokens
    BY <1>7
  <2>2. kept[i] # g[q] /\ kept[i] # g[q + 1]
    BY <1>9, <1>13
  <2> QED BY <1>6, <1>7, <1>8, <1>9, <1>11, <2>1, <2>2 DEF cur
<1>29. ASSUME NEW k \in 1 .. n + L - 1
       PROVE  tokens'[h[k]].next = h[k + 1] /\ tokens'[h[k + 1]].prev = h[k]
  <2>1. CASE k \in 1 .. q - 1
    <3>1. k \in 1 .. q /\ k + 1 \in 1 .. q /\ k \in 1 .. n - 1 /\ k \in 1 .. n /\ k + 1 \in 1 .. n /\ k # q /\ k + 1 # q + 1
      BY <1>9, <2>1
    <3>2. h[k] = g[k] /\ h[k + 1] = g[k + 1]
      BY <1>24, <3>1
    <3>3. tokens'[g[k]].next = tokens[g[k]].next
      BY <1>19, <1>27, <3>1
    <3>4. tokens'[g[k + 1]].prev = tokens[g[k + 1]].prev
      BY <1>19, <1>27, <3>1
    <3> QED BY <1>5, <3>1, <3>2, <3>3, <3>4
  <2>2. CASE k = q
    <3>1. q \in 1 .. q
      OBVIOUS
    <3>2. h[k] = cur /\ h[k + 1] = start
      BY <1>6, <1>8, <1>11, <1>24, <2>2, <3>1 DEF cur
    <3> QED BY <1>12, <1>14, <1>19, <3>2
  <2>3. CASE k \in q + 1 .. q + L - 1
    <3> DEFINE u == k - q
    <3>1. /\ u \in 1 .. L - 1 /\ u \in 1 .. L /\ u + 1 \in 1 .. L /\ k = q + u /\ k + 1 = q + (u + 1)
          /\ u # L /\ u + 1 # 1
      BY <1>7, <1>9, <2>3
    <3> HIDE DEF u
    <3>2. h[k] = kept[u] /\ h[k + 1] = kept[u + 1]
      BY <1>24, <3>1
    <3>3. tokens[kept[u]].next = kept[u + 1] /\ tokens[kept[u + 1]].prev = kept[u]
      <4>1. Returned /\ kept # << >>
        BY <1>1, <1>7, <1>8
      <4> QED BY <3>1, <4>1 DEF Returned, L
    <3>4. tokens'[kept[u]].next = tokens[kept[u]].next
      BY <1>19, <1>28, <3>1
    <3>5. tokens'[kept[u + 1]].prev = tokens[kept[u + 1]].prev
      BY <1>19, <1>28, <3>1
    <3> QED BY <3>2, <3>3, <3>4, <3>5
  <2>4. CASE k = q + L
    <3>1. q + 1 \in q + 1 .. n /\ k + 1 = (q + 1) + L
      BY <1>7, <1>9, <2>4
    <3>2. h[k] = end /\ h[k + 1] = nxt
      BY <1>8, <1>9, <1>11, <1>24, <2>4, <3>1
    <3> QED BY <1>12, <1>14, <1>19, <3>2
  <2>5. CASE k \in q + L + 1 .. n + L - 1
    <3> DEFINE u == k - L
    <3>1. /\ u \in q + 1 .. n /\ u + 1 \in q + 1 .. n /\ u \in 1 .. n - 1 /\ u \in 1 .. n /\ u + 1 \in 1 .. n
          /\ k = u + L /\ k + 1 = (u + 1) + L /\ u # q /\ u + 1 # q + 1
      BY <1>7, <1>9, <2>5
    <3> HIDE DEF u
    <3>2. h[k] = g[u] /\ h[k + 1] = g[u + 1]
      BY <1>24, <3>1
    <3>3. tokens'[g[u]].next = tokens[g[u]].next
      BY <1>19, <1>27, <3>1
    <3>4. tokens'[g[u + 1]].prev = tokens[g[u + 1]].prev
      BY <1>19, <1>27, <3>1
    <3> QED BY <1>5, <3>1, <3>2, <3>3, <3>4
  <2>6. n \in Nat /\ q \in Nat /\ L \in Nat /\ q < n /\ k \in 1 .. n + L - 1
    BY <1>7, <1>9
  <2>7. k \in 1 .. q - 1 \/ k = q \/ k \in q + 1 .. q + L - 1 \/ k = q + L \/ k \in q + L + 1 .. n + L - 1
    BY <1>8, <2>6
  <2> QED BY <2>1, <2>2, <2>3, <2>4, <2>5, <2>7
<1>30. tokens'[token_tail].next = Null
  <2>1. n \in 1 .. n /\ n # q
    BY <1>9
  <2>2. tokens'[g[n]].next = tokens[g[n]].next
    BY <1>19, <1>27, <2>1
  <2> QED BY <1>5, <2>2
<1>31. PICK N : N = n + L
  OBVIOUS
<1>33. Listed(h, N)'
  <2>1. N \in Nat /\ N >= 2 /\ h \in [1 .. N -> 1 .. Size'] /\ h[1] = token_head /\ h[N] = token_tail
    BY <1>15, <1>24, <1>25, <1>31
  <2>2. \A i, j \in 1 .. N : h[i] = h[j] => i = j
    BY <1>26, <1>31
  <2>3. \A k \in 1 .. N - 1 : tokens'[h[k]].next = h[k + 1] /\ tokens'[h[k + 1]].prev = h[k]
    <3> TAKE k \in 1 .. N - 1
    <3>1. k \in 1 .. n + L - 1
      BY <1>7, <1>31
    <3> QED BY <1>29, <3>1
  <2> QED BY <1>30, <2>1, <2>2, <2>3 DEF Listed
<1>34. token_cur' = kept[1] /\ Anchor' = kept[1] /\ pc' = "parse"
  BY <1>1, <1>8 DEF Anchor
<1>35. Standing(h, N)'
  <2>1. h[q + 1] = kept[1] /\ q + 1 \in 1 .. N
    BY <1>11, <1>24, <1>31
  <2>2. kept[1] # token_head
    BY <1>7, <1>11 DEF token_head
  <2> QED BY <1>33, <1>34, <2>1, <2>2 DEF Standing
<1>36. FirstString(h, N)'
  <2> SUFFICES ASSUME parses = 1
               PROVE  /\ N = L + 2 /\ kept # << >>
                      /\ \A i \in 1 .. L : h[i + 1] = kept[i]
                      /\ tokens'[token_tail].id > kept[L] - 3
    <3>1. parses' = parses /\ kept' = kept /\ parses > 0
      BY <1>1 DEF Called
    <3> QED BY <1>34, <3>1 DEF FirstString, L
  <2>1. n = 2 /\ cur = token_head
    <3>1. pc = "link"
      BY <1>1
    <3> QED BY <1>3, <3>1 DEF FirstString, Anchor, cur
  <2>2. q = 1
    <3>1. 1 \in 1 .. n /\ g[1] = g[q]
      BY <1>5, <1>6, <2>1 DEF cur
    <3> QED BY <1>5, <3>1
  <2>3. \A i \in 1 .. L : h[i + 1] = kept[i]
    <3> TAKE i \in 1 .. L
    <3>1. h[q + i] = kept[i] /\ q + i = i + 1
      BY <1>24, <2>2
    <3> QED BY <3>1
  <2> QED BY <1>7, <1>8, <1>15, <1>31, <2>1, <2>3
<1>37. N \in Nat
  BY <1>24, <1>31
<1>38. FirstStringSafe' /\ OnList'
  BY <1>1, <1>35, <1>36, <1>37 DEF FirstStringSafe, OnList
<1> QED BY <1>15, <1>38 DEF Inv

\* The root rule caches its results and leaves the parser on a token of the list.
LEMMA RootInv == ASSUME Inv, NEW k, NEW c, RootRule(k, c) PROVE Inv'
<1>1. /\ pc = "parse" /\ pc' = "idle"
      /\ k \in 1 .. Len(After(token_cur)) /\ c \in 0 .. k - 1
      /\ cached' = cached \cup {<<tokens[After(token_cur)[i]].id, After(token_cur)[i]>> : i \in 1 .. k}
      /\ token_cur' = After(token_cur)[c + 1]
      /\ UNCHANGED <<tokens, ntokens, text, reset, start, end, status, kept, rounds, parses>>
      /\ Addressed /\ Called /\ Kept /\ Rounds /\ CachedById /\ Anchored /\ NoCharLost /\ CoordsFollowText
  BY DEF Inv, Core, RootRule
<1>2. Pool' = Pool /\ Size' = Size /\ Mine' = Mine /\ Size \in Nat
  BY <1>1 DEF Pool, Size, local_head, local_tail, Mine, Addressed
<1>3. PICK n \in Nat : \E g : Standing(g, n) /\ FirstString(g, n)
  BY DEF Inv, OnList
<1>4. PICK g : Standing(g, n) /\ FirstString(g, n)
  BY <1>3
<1>5. PICK p \in 1 .. n : g[p] = token_cur
  BY <1>1, <1>4 DEF Standing, Anchor
<1>6. /\ Listed(g, n) /\ p # 1
      /\ \A i \in 1 .. n : g[i] \in 1 .. Size
      /\ \A i \in 1 .. n : g[i] = token_head => i = 1
  <2>1. Listed(g, n) /\ token_cur # token_head
    BY <1>1, <1>4 DEF Standing
  <2>2. n >= 2 /\ g[1] = token_head /\ \A i, j \in 1 .. n : g[i] = g[j] => i = j
    BY <2>1 DEF Listed
  <2>3. 1 \in 1 .. n
    BY <2>2
  <2> QED BY <1>5, <2>1, <2>2, <2>3 DEF Listed
<1>7. /\ After(token_cur) = [i \in 1 .. n - p + 1 |-> g[p + i - 1]]
      /\ Len(After(token_cur)) = n - p + 1
  <2>1. Listed(g, n) /\ Size \in Nat
    BY <1>2, <1>6
  <2>2. /\ After(g[p]) = [i \in 1 .. n - p + 1 |-> g[p + i - 1]]
        /\ Len(After(g[p])) = n - p + 1
    BY <2>1, AfterIs
  <2> QED BY <1>5, <2>2
<1>8. \A i \in 1 .. k : /\ p + i - 1 \in 1 .. n /\ After(token_cur)[i] = g[p + i - 1]
                        /\ g[p + i - 1] \in 2 .. Size
  <2> TAKE i \in 1 .. k
  <2>1. i \in 1 .. n - p + 1 /\ p + i - 1 \in 1 .. n /\ p + i - 1 # 1
    BY <1>1, <1>6, <1>7
  <2>2. After(token_cur)[i] = g[p + i - 1]
    BY <1>7, <2>1
  <2>3. g[p + i - 1] \in 1 .. Size /\ g[p + i - 1] # 1
    BY <1>6, <2>1 DEF token_head
  <2> QED BY <1>2, <2>1, <2>2, <2>3
<1>9. PICK z \in 1 .. n : token_cur' = g[z]
  <2>1. c + 1 \in 1 .. k
    BY <1>1
  <2> QED BY <1>1, <1>8, <2>1
<1>10. Addressed' /\ Kept' /\ Rounds' /\ FirstStringSafe'
  BY <1>1, <1>2 DEF Addressed, Kept, Rounds, FirstStringSafe
<1>11. Called'
  <2>1. g[z] \in DOMAIN tokens
    <3>1. g[z] \in 1 .. Size
      BY <1>6
    <3> QED BY <1>1, <3>1 DEF Addressed, Pool
  <2> QED BY <1>1, <1>9, <2>1 DEF Called
<1>12. NoCharLost' /\ CoordsFollowText'
  BY <1>1, <1>2, CoordsKept DEF NoCharLost
<1>13. CachedById'
  <2> SUFFICES ASSUME NEW d \in cached'
               PROVE  \/ \E a \in 3 .. Size : d = <<a - 3, a>>
                      \/ \E id \in Nat : d = <<id, token_tail>>
    BY <1>2 DEF CachedById
  <2>1. CASE d \in cached
    BY <1>1, <2>1 DEF CachedById
  <2>2. CASE d \notin cached
    <3>1. PICK i \in 1 .. k : d = <<tokens[After(token_cur)[i]].id, After(token_cur)[i]>>
      BY <1>1, <2>2
    <3> DEFINE a == After(token_cur)[i]
    <3>2. a \in 2 .. Size
      BY <1>8
    <3> HIDE DEF a
    <3>3. a \in DOMAIN tokens /\ a \in Nat
      <4>1. a \in 1 .. Size
        BY <3>2
      <4> QED BY <1>1, <4>1 DEF Addressed, Pool
    <3>4. CASE a = token_tail
      <4>1. tokens[a].id \in Nat
        BY <1>1, <3>3 DEF Addressed, Token
      <4> QED BY <3>1, <3>4, <4>1 DEF a
    <3>5. CASE a # token_tail
      <4>1. a \in 3 .. Size
        BY <1>2, <3>2, <3>5 DEF token_tail
      <4>2. tokens[a].id = a - 3
        BY <1>1, <3>3, <4>1 DEF Addressed
      <4> QED BY <3>1, <4>1, <4>2 DEF a
    <3> QED BY <3>4, <3>5
  <2> QED BY <2>1, <2>2
<1>14. Standing(g, n)'
  <2>1. Listed(g, n)'
    BY <1>1, <1>2, <1>6 DEF Listed
  <2> QED BY <1>1, <1>9, <2>1 DEF Standing, Anchor
<1>15. FirstString(g, n)'
  <2>1. parses > 0
    BY <1>1 DEF Called
  <2> QED BY <1>1, <2>1 DEF FirstString
<1>16. Anchored'
  <2>1. g[z] \in 1 .. Size
    BY <1>6
  <2> QED BY <1>1, <1>2, <1>9, <2>1 DEF Anchored, Anchor, Addressed, token_tail
<1>17. Core'
  BY <1>1, <1>10, <1>11, <1>12, <1>13, <1>16 DEF Core
<1>18. OnList'
  BY <1>14, <1>15 DEF OnList
<1> QED BY <1>10, <1>17, <1>18 DEF Inv

\* Nothing changes.
LEMMA StutterCore == ASSUME Core, UNCHANGED vars PROVE Core' /\ (OnList => OnList')
<1>1. UNCHANGED <<tokens, ntokens, token_cur, text, pc, reset, start, end, status, kept, rounds, cached, parses>>
  BY DEF vars
<1>2. Pool' = Pool /\ Size' = Size /\ Mine' = Mine /\ Anchor' = Anchor
  BY <1>1 DEF Pool, Size, local_head, local_tail, Mine, Anchor
<1>3. Addressed' /\ Called' /\ Kept' /\ Rounds' /\ CachedById' /\ Anchored' /\ NoCharLost' /\ CoordsFollowText'
  BY <1>1, <1>2, CoordsKept
     DEF Core, Addressed, Called, Kept, Rounds, CachedById, Anchored, token_tail, NoCharLost
<1>4. pc' = "loop" => Local'
  BY <1>1, <1>2 DEF Core, Local, Locals, local_head, local_tail, Before, Behind
<1>5. pc' = "link" /\ status' = 0 => Returned'
  BY <1>1, <1>2 DEF Core, Returned
<1>6. ASSUME NEW n \in Nat, NEW g, Standing(g, n), FirstString(g, n)
      PROVE  Standing(g, n)' /\ FirstString(g, n)'
  <2>1. Listed(g, n)'
    BY <1>1, <1>2, <1>6 DEF Standing, Listed
  <2> QED BY <1>1, <1>2, <1>6, <2>1 DEF Standing, FirstString
<1> QED BY <1>3, <1>4, <1>5, <1>6 DEF Core, OnList

\* A string is passed to Parser_parse.
LEMMA ParseInv == ASSUME Inv, NEW s \in Texts, Parser_parse(s) PROVE Inv'
<1>1. Core' /\ Entered
  BY ParseEmptyCore, ParseStringCore DEF Inv
<1>2. OnList'
  BY <1>1, ListBefore
<1> QED BY <1>1, <1>2 DEF Inv, FirstStringSafe, Entered

\* A step of Parser_tokenize leaves the list of the parser as it is.
LEMMA TokenizingInv ==
    ASSUME Inv, pc = "loop", pc' \in {"loop", "link"}, Core', Untouched, Anchor' = Anchor, parses' = parses
    PROVE  Inv'
BY ListUntouched DEF Inv, Core, FirstStringSafe

\* The invariant holds in every state.
LEMMA Invariant == Spec => []Inv
<1>1. Inv /\ [Next]_vars => Inv'
  <2> SUFFICES ASSUME Inv, [Next]_vars PROVE Inv'
    OBVIOUS
  <2>1. ASSUME NEW t \in Texts, Parser_parse(t) PROVE Inv'
    BY <2>1, ParseInv
  <2>2. ASSUME NEW m \in 1 .. Len(text), Parser_add_token(m) PROVE Inv'
    <3>1. Core' /\ Untouched /\ Anchor' = Anchor
      BY <2>2, AddCore DEF Inv
    <3> QED BY <2>2, <3>1, TokenizingInv DEF Parser_add_token, Tokenizing
  <2>3. ASSUME NEW m \in 1 .. Len(text), Parser_skip_token(m) PROVE Inv'
    <3>1. Core' /\ Untouched /\ Anchor' = Anchor
      BY <2>3, SkipCore DEF Inv
    <3> QED BY <2>3, <3>1, TokenizingInv DEF Parser_skip_token, Tokenizing
  <2>4. CASE TokenFails
    <3>1. Core' /\ Untouched /\ Anchor' = Anchor
      BY <2>4, FailsCore DEF Inv
    <3> QED BY <2>4, <3>1, TokenizingInv DEF TokenFails, Tokenizing
  <2>5. CASE TokenizeReturns
    <3>1. Core' /\ Untouched /\ Anchor' = Anchor
      BY <2>5, ReturnsCore DEF Inv
    <3> QED BY <2>5, <3>1, TokenizingInv DEF TokenizeReturns
  <2>6. CASE TokenizeFailed
    BY <2>6, FailedInv
  <2>7. CASE LinkUndefined
    BY <2>7, UndefinedInv
  <2>8. CASE Link
    BY <2>8, LinkInv
  <2>9. ASSUME NEW k \in 1 .. Cardinality(Pool), NEW c \in 0 .. Cardinality(Pool), RootRule(k, c) PROVE Inv'
    BY <2>9, RootInv
  <2>10. CASE UNCHANGED vars
    <3>1. Core' /\ OnList'
      BY <2>10, StutterCore DEF Inv
    <3> QED BY <2>10, <3>1 DEF Inv, FirstStringSafe, vars
  <2> QED BY <2>1, <2>2, <2>3, <2>4, <2>5, <2>6, <2>7, <2>8, <2>9, <2>10 DEF Next
<1> QED BY <1>1, InitInv, PTL DEF Spec

-----------------------------------------------------------------------------
(* What it says *)

\* Every link leads to a token, lines and columns count from one, results are
\* cached for tokens of the pool.
THEOREM TypeCorrect == Spec => []TypeOK
<1>1. Inv => TypeOK
  <2> SUFFICES ASSUME Inv PROVE TypeOK
    OBVIOUS
  <2>1. Addressed /\ Called /\ CachedById
    BY DEF Inv, Core
  <2>2. ASSUME NEW a \in DOMAIN tokens
        PROVE  /\ Links(tokens[a])
               /\ tokens[a].length \in Nat
               /\ tokens[a].coords \in Nat \X Nat
               /\ tokens[a].string # 0 => 0 \notin {tokens[a].coords[1], tokens[a].coords[2]}
    <3>1. tokens[a] \in Token
      BY <2>1 DEF Addressed
    <3>2. Links(tokens[a])
      BY <2>1 DEF Addressed, Links
    <3>3. a \in Int
      BY <2>1 DEF Addressed, Pool, local_head, local_tail
    <3>4. tokens[a].string # 0 => tokens[a].coords[1] > 0 /\ tokens[a].coords[2] > 0
      BY <2>1, <3>3 DEF Addressed
    <3> QED BY <3>1, <3>2, <3>4 DEF Token
  <2>3. cached \subseteq (Nat \X Pool)
    <3> SUFFICES ASSUME NEW d \in cached PROVE d \in Nat \X Pool
      OBVIOUS
    <3>1. CASE \E a \in 3 .. Size : d = <<a - 3, a>>
      BY <2>1, <3>1 DEF Addressed
    <3>2. CASE \E id \in Nat : d = <<id, token_tail>>
      BY <2>1, <3>2 DEF Addressed, token_tail
    <3> QED BY <2>1, <3>1, <3>2 DEF CachedById
  <2> QED BY <2>1, <2>2, <2>3 DEF TypeOK, Called
<1> QED BY <1>1, Invariant, PTL

\* No character of the string is lost or covered twice, however it is cut into
\* tokens, kept or skipped (Parser_generate_new_token).
THEOREM CoversTheString == Spec => []NoCharLost
<1>1. Inv => NoCharLost
  BY DEF Inv, Core
<1> QED BY <1>1, Invariant, PTL

\* A token stands on the line its position in the text gives it, and on the column,
\* counted from 0 or 1 as the line's first character is inside a token or starts one
\* (Parser_get_line_col_end).
THEOREM Coordinates == Spec => []CoordsFollowText
<1>1. Inv => CoordsFollowText
  BY DEF Inv, Core
<1> QED BY <1>1, Invariant, PTL

\* A first string with any token in it is parsed without a pointer to no token.
THEOREM FirstStringIsSafe == Spec => []FirstStringSafe
<1>1. Inv => FirstStringSafe
  BY DEF Inv, Core
<1> QED BY <1>1, Invariant, PTL

\* Parser_tokenize makes at most one round for each character.
THEOREM TokenizationEnds == Spec => []OneRoundPerChar
<1>1. Inv => OneRoundPerChar
  BY DEF Inv, Core, Rounds, OneRoundPerChar
<1> QED BY <1>1, Invariant, PTL

\* An address tells its id and an id its address, but for the tail.
LEMMA CoreApart == Core => ResultsKeptApart
<1> SUFFICES ASSUME Core, NEW d \in cached, NEW e \in cached, d[1] = e[1],
                    d[2] # token_tail, e[2] # token_tail
             PROVE  d[2] = e[2]
  BY DEF ResultsKeptApart
<1>1. PICK a \in 3 .. Size : d = <<a - 3, a>>
  BY DEF Core, CachedById
<1>2. PICK b \in 3 .. Size : e = <<b - 3, b>>
  BY DEF Core, CachedById
<1> QED BY <1>1, <1>2

\* An id under which results are cached stands for one token, but for the tail.
THEOREM CacheRowsAreTokens == Spec => []ResultsKeptApart
BY Invariant, CoreApart, PTL DEF Inv

\* prev undoes next all along the list of the parser, which ends at the tail.
THEOREM PrevUndoesNext == Spec => []LinksMirror
<1>1. Inv => LinksMirror
  <2> SUFFICES ASSUME Inv PROVE LinksMirror
    OBVIOUS
  <2>1. PICK n \in Nat : \E g : Standing(g, n) /\ FirstString(g, n)
    BY DEF Inv, OnList
  <2>2. PICK g : Standing(g, n) /\ FirstString(g, n)
    BY <2>1
  <2>3. Listed(g, n) /\ Size \in Nat
    BY <2>2 DEF Standing, Inv, Core, Addressed
  <2>4. /\ n >= 2 /\ g[1] = token_head /\ g[n] = token_tail
        /\ \A i \in 1 .. n - 1 : tokens[g[i + 1]].prev = g[i]
    BY <2>3 DEF Listed
  <2> DEFINE list == After(token_head)
  <2>5. 1 \in 1 .. n
    BY <2>4
  <2>6. /\ After(g[1]) = [i \in 1 .. n - 1 + 1 |-> g[1 + i - 1]]
        /\ Len(After(g[1])) = n - 1 + 1
    BY <2>3, <2>5, AfterIs
  <2>7. list = [i \in 1 .. n - 1 + 1 |-> g[1 + i - 1]] /\ Len(list) = n
    BY <2>4, <2>6
  <2> HIDE DEF list
  <2>8. \A i \in 1 .. n : list[i] = g[i]
    BY <2>7
  <2>9. list[Len(list)] = token_tail
    BY <2>4, <2>7, <2>8
  <2>10. \A i \in 1 .. Len(list) - 1 : tokens[list[i + 1]].prev = list[i]
    <3> TAKE i \in 1 .. Len(list) - 1
    <3>1. i \in 1 .. n - 1 /\ i \in 1 .. n /\ i + 1 \in 1 .. n
      BY <2>7
    <3> QED BY <2>4, <2>8, <3>1
  <2> QED BY <2>9, <2>10 DEF LinksMirror, list
<1> QED BY <1>1, Invariant, PTL

\* What the root rule is run on for a first string.
LEMMA FirstStream ==
    ASSUME Inv, pc = "parse", parses = 1
    PROVE  LET L == Len(kept)
               s == After(token_cur)
           IN  /\ L \in Nat /\ L >= 1 /\ Len(s) = L + 1
               /\ s = [i \in 1 .. L + 1 |-> s[i]]
               /\ \A i \in 1 .. L : s[i] = kept[i]
               /\ s[L + 1] = token_tail /\ tokens[token_tail].id > kept[L] - 3
<1> DEFINE L == Len(kept)
           s == After(token_cur)
<1>1. PICK n \in Nat : \E g : Standing(g, n) /\ FirstString(g, n)
  BY DEF Inv, OnList
<1>2. PICK g : Standing(g, n) /\ FirstString(g, n)
  BY <1>1
<1>3. Listed(g, n) /\ Size \in Nat /\ Kept /\ Addressed
  BY <1>2 DEF Standing, Inv, Core, Addressed
<1>4. L \in Nat /\ (kept = << >> <=> L = 0)
  BY <1>3, KeptTokens
<1>5. /\ n = L + 2 /\ kept # << >> /\ \A i \in 1 .. L : g[i + 1] = kept[i]
      /\ token_cur = kept[1] /\ tokens[token_tail].id > kept[L] - 3
  BY <1>2 DEF FirstString
<1>6. g[n] = token_tail
  BY <1>3 DEF Listed
<1> HIDE DEF L
<1>7. L >= 1 /\ 1 \in 1 .. L /\ 2 \in 1 .. n /\ n - 2 + 1 = L + 1
  BY <1>4, <1>5
<1>8. g[2] = token_cur
  BY <1>5, <1>7
<1>9. /\ After(g[2]) = [i \in 1 .. n - 2 + 1 |-> g[2 + i - 1]]
      /\ Len(After(g[2])) = n - 2 + 1
  BY <1>3, <1>7, AfterIs
<1>10. s = [i \in 1 .. L + 1 |-> g[2 + i - 1]] /\ Len(s) = L + 1
  BY <1>7, <1>8, <1>9
<1> HIDE DEF s
<1>11. \A i \in 1 .. L : s[i] = kept[i]
  <2> TAKE i \in 1 .. L
  <2>1. i \in 1 .. L + 1 /\ 2 + i - 1 = i + 1
    BY <1>4
  <2> QED BY <1>5, <1>10, <2>1
<1>12. s[L + 1] = token_tail
  <2>1. L + 1 \in 1 .. L + 1 /\ 2 + (L + 1) - 1 = n
    BY <1>4, <1>5
  <2> QED BY <1>6, <1>10, <2>1
<1>13. s = [i \in 1 .. L + 1 |-> s[i]]
  BY <1>10
<1> QED BY <1>4, <1>5, <1>7, <1>10, <1>11, <1>12, <1>13 DEF L, s

\* The root rule is run on the kept tokens of a first string and then the tail.
THEOREM StreamIsTheString == Spec => []StreamIsString
<1>1. Inv => StreamIsString
  <2> SUFFICES ASSUME Inv, pc = "parse", parses = 1 PROVE After(token_cur) = Append(kept, token_tail)
    BY DEF StreamIsString
  <2> DEFINE L == Len(kept)
             s == After(token_cur)
             r == Append(kept, token_tail)
  <2>1. /\ L \in Nat /\ L >= 1 /\ Len(s) = L + 1 /\ s = [i \in 1 .. L + 1 |-> s[i]]
        /\ \A i \in 1 .. L : s[i] = kept[i]
        /\ s[L + 1] = token_tail
    BY FirstStream
  <2>2. kept \in Seq(3 .. Size)
    BY DEF Inv, Core, Kept
  <2>3. r = [i \in 1 .. L + 1 |-> IF i = L + 1 THEN token_tail ELSE kept[i]]
    <3>1. kept \in Seq(Int) /\ token_tail \in Int
      <4> DEFINE S == 3 .. Size
      <4>1. kept \in Seq(S) /\ \A a \in S : a \in Int
        BY <2>2
      <4> HIDE DEF S
      <4> QED BY <4>1 DEF token_tail
    <3>2. /\ r \in Seq(Int) /\ Len(r) = L + 1
          /\ \A i \in 1 .. L + 1 : r[i] = IF i = L + 1 THEN token_tail ELSE kept[i]
      BY <3>1
    <3> HIDE DEF r, L
    <3>3. r = [i \in 1 .. L + 1 |-> r[i]]
      BY <3>2
    <3> QED BY <3>2, <3>3
  <2> HIDE DEF L, s, r
  <2>4. \A i \in 1 .. L + 1 : s[i] = IF i = L + 1 THEN token_tail ELSE kept[i]
    <3> TAKE i \in 1 .. L + 1
    <3>1. i = L + 1 \/ (i \in 1 .. L /\ i # L + 1)
      BY <2>1
    <3> QED BY <2>1, <3>1
  <2>5. s = r
    BY <2>1, <2>3, <2>4
  <2> QED BY <2>5 DEF s, r
<1> QED BY <1>1, Invariant, PTL

\* Ids rise along the tokens of a first string, up to the tail's.
THEOREM IdsFollowTheText == Spec => []IdsRise
<1>1. Inv => IdsRise
  <2> SUFFICES ASSUME Inv, pc = "parse", parses = 1, NEW i \in 1 .. Len(After(token_cur)) - 1
               PROVE  tokens[After(token_cur)[i]].id < tokens[After(token_cur)[i + 1]].id
    BY DEF IdsRise
  <2> DEFINE L == Len(kept)
             s == After(token_cur)
  <2>1. /\ L \in Nat /\ L >= 1 /\ Len(s) = L + 1
        /\ \A j \in 1 .. L : s[j] = kept[j]
        /\ s[L + 1] = token_tail /\ tokens[token_tail].id > kept[L] - 3
    BY FirstStream
  <2>2. Kept /\ Addressed
    BY DEF Inv, Core
  <2>3. \A j \in 1 .. L : tokens[kept[j]].id = kept[j] - 3 /\ kept[j] \in Nat
    <3> TAKE j \in 1 .. L
    <3>1. kept[j] \in DOMAIN tokens /\ kept[j] >= 3 /\ kept[j] \in Nat
      BY <2>2, KeptTokens
    <3> QED BY <2>2, <3>1 DEF Addressed
  <2>4. \A j, k \in 1 .. L : j < k => kept[j] < kept[k]
    BY <2>2 DEF Kept
  <2>5. i \in 1 .. L
    BY <2>1
  <2> HIDE DEF L, s
  <2>6. s[i] = kept[i]
    BY <2>1, <2>5
  <2>7. CASE i = L
    BY <2>1, <2>3, <2>5, <2>6, <2>7 DEF s
  <2>8. CASE i # L
    <3>1. i + 1 \in 1 .. L /\ i < i + 1
      BY <2>1, <2>5, <2>8
    <3>2. s[i + 1] = kept[i + 1] /\ kept[i] < kept[i + 1]
      BY <2>1, <2>4, <2>5, <3>1
    <3> QED BY <2>3, <2>5, <2>6, <3>1, <3>2 DEF s
  <2> QED BY <2>7, <2>8
<1> QED BY <1>1, Invariant, PTL

-----------------------------------------------------------------------------
(* Lexing: the invariant *)

\* The walk of After is defined from any token.
LEMMA WalkExists ==
    ASSUME NEW t, NEW N \in Nat
    PROVE  \E f : f = [i \in 0 .. N |-> IF i = 0 THEN t
                                        ELSE IF f[i - 1] = Null THEN Null ELSE tokens[f[i - 1]].next]
<1> DEFINE Eq(f, n) == f = [i \in 0 .. n |-> IF i = 0 THEN t
                                 ELSE IF f[i - 1] = Null THEN Null ELSE tokens[f[i - 1]].next]
           S == {n \in Nat : \E f : Eq(f, n)}
<1>1. 0 \in S
  <2> DEFINE f == [i \in 0 .. 0 |-> t]
  <2>1. f = [i \in 0 .. 0 |-> IF i = 0 THEN t ELSE IF f[i - 1] = Null THEN Null ELSE tokens[f[i - 1]].next]
    OBVIOUS
  <2> QED BY <2>1
<1>2. ASSUME NEW n \in Nat, n \in S PROVE n + 1 \in S
  <2>1. PICK f : Eq(f, n)
    BY <1>2
  <2> DEFINE x == IF f[n] = Null THEN Null ELSE tokens[f[n]].next
             h == [i \in 0 .. n + 1 |-> IF i = n + 1 THEN x ELSE f[i]]
             k == [i \in 0 .. n + 1 |-> IF i = 0 THEN t ELSE IF h[i - 1] = Null THEN Null ELSE tokens[h[i - 1]].next]
  <2>2. /\ DOMAIN f = 0 .. n
        /\ \A i \in 0 .. n : f[i] = IF i = 0 THEN t ELSE IF f[i - 1] = Null THEN Null ELSE tokens[f[i - 1]].next
    BY <2>1
  <2>3. /\ \A i \in 0 .. n : h[i] = f[i]
        /\ h[n + 1] = x /\ h = [i \in 0 .. n + 1 |-> h[i]]
    OBVIOUS
  <2> HIDE DEF h
  <2>4. \A i \in 0 .. n + 1 : h[i] = k[i]
    <3> TAKE i \in 0 .. n + 1
    <3>1. CASE i = n + 1
      <4>1. i # 0 /\ i - 1 = n /\ n \in 0 .. n
        BY <3>1
      <4> QED BY <2>3, <3>1, <4>1
    <3>2. CASE i = 0
      <4>1. 0 \in 0 .. n
        OBVIOUS
      <4> QED BY <2>2, <2>3, <3>2, <4>1
    <3>3. CASE i # 0 /\ i # n + 1
      <4>1. i \in 0 .. n /\ i - 1 \in 0 .. n
        BY <3>3
      <4> QED BY <2>2, <2>3, <3>3, <4>1
    <3> QED BY <3>1, <3>2, <3>3
  <2>5. h = k
    BY <2>3, <2>4
  <2> QED BY <2>5
<1> HIDE DEF S
<1>3. N \in S
  BY <1>1, <1>2, InductionOnSet
<1> QED BY <1>3 DEF S

\* The links of a set of tokens that lead nowhere else keep the walk in it.
LEMMA AfterIn ==
    ASSUME NEW C, NEW t \in C, Null \notin C, \A a \in C : tokens[a].next \in C \cup {Null}, Size \in Nat
    PROVE  Range(After(t)) \subseteq C
<1> DEFINE Eq(f) == f = [i \in 0 .. Size |->
                            IF i = 0 THEN t
                            ELSE IF f[i - 1] = Null THEN Null ELSE tokens[f[i - 1]].next]
           R == CHOOSE h : Eq(h)
           W == {j \in DOMAIN R : R[j] # Null}
<1>1. Eq(R)
  <2>1. \E h : Eq(h)
    BY WalkExists
  <2> HIDE DEF Eq
  <2> QED BY <2>1
<1>2. After(t) = [i \in 1 .. Cardinality(W) |-> R[i - 1]]
  BY DEF After, Size
<1> HIDE DEF R
<1>3. /\ DOMAIN R = 0 .. Size /\ R[0] = t
      /\ \A i \in 1 .. Size : R[i] = IF R[i - 1] = Null THEN Null ELSE tokens[R[i - 1]].next
  BY <1>1
<1> HIDE DEF Eq
<1>4. ASSUME NEW i \in Nat PROVE i <= Size => R[i] \in C \cup {Null}
  <2> DEFINE S == {j \in Nat : j <= Size => R[j] \in C \cup {Null}}
  <2>1. 0 \in S
    BY <1>3
  <2>2. ASSUME NEW j \in Nat, j \in S PROVE j + 1 \in S
    <3> SUFFICES ASSUME j + 1 <= Size PROVE R[j + 1] \in C \cup {Null}
      OBVIOUS
    <3>1. j + 1 \in 1 .. Size /\ (j + 1) - 1 = j /\ R[j] \in C \cup {Null}
      BY <2>2
    <3>2. R[j + 1] = IF R[j] = Null THEN Null ELSE tokens[R[j]].next
      BY <1>3, <3>1
    <3> QED BY <3>1, <3>2
  <2> HIDE DEF S
  <2>3. i \in S
    BY <2>1, <2>2, InductionOnSet
  <2> QED BY <2>3 DEF S
<1>5. ASSUME NEW j \in 0 .. Size, R[j] = Null, NEW i \in Nat PROVE (j + i <= Size) => R[j + i] = Null
  <2> DEFINE S == {k \in Nat : j + k <= Size => R[j + k] = Null}
  <2>1. 0 \in S
    BY <1>5
  <2>2. ASSUME NEW k \in Nat, k \in S PROVE k + 1 \in S
    <3> SUFFICES ASSUME j + (k + 1) <= Size PROVE R[j + (k + 1)] = Null
      OBVIOUS
    <3>1. j + (k + 1) \in 1 .. Size /\ (j + (k + 1)) - 1 = j + k /\ R[j + k] = Null
      BY <2>2
    <3> QED BY <1>3, <3>1
  <2> HIDE DEF S
  <2>3. i \in S
    BY <2>1, <2>2, InductionOnSet
  <2> QED BY <2>3 DEF S
<1>6. ASSUME NEW j \in 0 .. Size, R[j] = Null PROVE Cardinality(W) <= j
  <2>1. W \in SUBSET (0 .. j - 1)
    <3> SUFFICES ASSUME NEW w \in W PROVE w \in 0 .. j - 1
      OBVIOUS
    <3>1. w \in 0 .. Size /\ R[w] # Null
      BY <1>3
    <3>2. ~(w >= j)
      <4> SUFFICES ASSUME w >= j PROVE FALSE
        OBVIOUS
      <4>1. w - j \in Nat /\ j + (w - j) = w /\ j + (w - j) <= Size
        BY <3>1
      <4>2. R[j + (w - j)] = Null
        BY <1>5, <1>6, <4>1
      <4> QED BY <3>1, <4>1, <4>2
    <3> QED BY <3>1, <3>2
  <2>2. IsFiniteSet(0 .. j - 1) /\ Cardinality(0 .. j - 1) = j
    <3>1. 0 \in Int /\ j - 1 \in Int /\ (IF 0 > j - 1 THEN 0 ELSE (j - 1) - 0 + 1) = j
      OBVIOUS
    <3> QED BY <3>1, FS_Interval
  <2> QED BY <2>1, <2>2, FS_Subset
<1>7. Cardinality(W) \in Nat /\ Cardinality(W) <= Size + 1
  <2>1. W \in SUBSET (0 .. Size)
    BY <1>3
  <2>2. IsFiniteSet(0 .. Size) /\ Cardinality(0 .. Size) = Size + 1
    <3>1. 0 \in Int /\ Size \in Int /\ (IF 0 > Size THEN 0 ELSE Size - 0 + 1) = Size + 1
      OBVIOUS
    <3> QED BY <3>1, FS_Interval
  <2>3. IsFiniteSet(W) /\ Cardinality(W) <= Size + 1
    BY <2>1, <2>2, FS_Subset
  <2> QED BY <2>3, FS_CardinalityType
<1> DEFINE c == Cardinality(W)
<1>8. c \in Nat /\ c <= Size + 1 /\ \A j \in 0 .. Size : R[j] = Null => c <= j
  BY <1>6, <1>7
<1>9. After(t) = [i \in 1 .. c |-> R[i - 1]]
  BY <1>2
<1> HIDE DEF c, W
<1>10. \A i \in 1 .. c : R[i - 1] \in C
  <2> TAKE i \in 1 .. c
  <2>1. i - 1 \in 0 .. Size /\ i - 1 \in Nat /\ ~(c <= i - 1)
    BY <1>8
  <2> QED BY <1>4, <1>8, <2>1
<1> QED BY <1>9, <1>10 DEF Range

\* The rules whose results are cached.
Rules == DOMAIN Literals \cup DOMAIN Productions

\* L has the head of the list and all that the links lead to from there, and
\* none of the tokens that are being made.
Rooted(L) ==
    /\ L \subseteq Pool /\ token_head \in L
    /\ \A a \in L : tokens[a].next \in L \cup {Null}
    /\ pc \in {"loop", "link"} => \A a \in L : tokens[a].string # parses

\* Nothing leads to the head: a rule never stands on it.
OffHead == \A a \in DOMAIN tokens : tokens[a].next # token_head

\* The strings by the number the tokens have of them.
Numbered == strings \in Seq(Seq(STRING)) /\ Len(strings) = parses

\* Where the root rule stands, and that the id of the tail is one it has had.
Running ==
    pc = "parse" => /\ token_cur # token_head /\ start \in 3 .. Size
                    /\ tokens[token_tail].id \in tailIds

\* The rest of a string, of which the token rule has yet to make a token.
Uncut(a) == pc = "loop" /\ status = 0 /\ a = token_cur

\* The entry at k is v: unless the tail has had its id it is of a token that has
\* been cut, and what the rule is to find there.
Entry(k, v) ==
    /\ k \in Rules \X Int
    /\ v = Failed \/ v.tok \in Pool
    /\ k[2] \notin tailIds => /\ k[2] + 3 \in 3 .. Size
                              /\ ~Uncut(k[2] + 3)
                              /\ k[1] \notin Contextual => v = OnToken(k[1], k[2] + 3)

\* What the cache holds.
AsOnToken == \A k \in DOMAIN results : Entry(k, results[k])

\* The invariant of Lexing.
LexInv ==
    /\ Core /\ OffHead /\ Numbered /\ Running /\ AsOnToken
    /\ \E L \in SUBSET Pool : Rooted(L)

\* The empty parser.
LEMMA LexInitInv == LexInit => LexInv
<1> SUFFICES ASSUME LexInit PROVE LexInv
  OBVIOUS
<1>1. Init /\ strings = << >> /\ results = << >> /\ tailIds = {}
  BY DEF LexInit
<1>2. Core
  BY <1>1, InitInv DEF Inv
<1>3. Pool = 1 .. 2 /\ DOMAIN tokens = 1 .. 2
  BY <1>1 DEF Init, Pool, token_head, token_tail, local_head, local_tail
<1>4. tokens[1].next = 2 /\ tokens[2].next = Null
  BY <1>1 DEF Init, Sentinel, token_head, token_tail
<1>5. OffHead /\ Rooted(Pool)
  BY <1>1, <1>3, <1>4 DEF OffHead, Rooted, Init, token_head, Null
<1>6. Numbered /\ Running
  BY <1>1 DEF Numbered, Running, Init
<1>7. AsOnToken
  <2>1. DOMAIN results = {}
    BY <1>1
  <2> QED BY <2>1 DEF AsOnToken
<1> QED BY <1>2, <1>5, <1>6, <1>7 DEF LexInv

-----------------------------------------------------------------------------
(* What a literal finds *)

\* How much of a token a literal matches is the longest of its strings there.
LEMMA MatchIs ==
    ASSUME NEW tok, tok.length \in Nat, NEW l
    PROVE  LET m    == MatchLength(l, tok)
               at(n) == Characters([tok EXCEPT !.length = n]) \in Literals[l]
           IN  /\ m \in 0 .. tok.length
               /\ m # 0 => at(m)
               /\ \A n \in 1 .. tok.length : at(n) => m # 0 /\ n <= m
<1> DEFINE S == {n \in 1 .. tok.length : Characters([tok EXCEPT !.length = n]) \in Literals[l]}
           m == IF S = {} THEN 0 ELSE LastOf(S)
<1>1. S \in SUBSET (1 .. tok.length)
  OBVIOUS
<1>2. \A n \in 1 .. tok.length : n \in S <=> Characters([tok EXCEPT !.length = n]) \in Literals[l]
  OBVIOUS
<1>3. MatchLength(l, tok) = m
  BY DEF MatchLength
<1> HIDE DEF S
<1>4. S # {} => LastOf(S) \in S /\ \A j \in S : j <= LastOf(S)
  BY <1>1, LastIsGreatest
<1>5. /\ m \in 0 .. tok.length
      /\ m # 0 => m \in S
      /\ \A n \in S : m # 0 /\ n <= m
  <2>1. CASE S = {}
    BY <2>1
  <2>2. CASE S # {}
    <3> DEFINE k == LastOf(S)
    <3>1. k \in 1 .. tok.length /\ k \in S /\ \A j \in S : j <= k
      BY <1>1, <1>4, <2>2
    <3>2. m = k
      BY <2>2
    <3> HIDE DEF k, m
    <3> QED BY <3>1, <3>2
  <2> QED BY <2>1, <2>2
<1> HIDE DEF m
<1>6. m # 0 => Characters([tok EXCEPT !.length = m]) \in Literals[l]
  <2>1. m # 0 => m \in 1 .. tok.length /\ m \in S
    BY <1>1, <1>5
  <2> QED BY <1>2, <2>1, Zenon
<1>7. \A n \in 1 .. tok.length : Characters([tok EXCEPT !.length = n]) \in Literals[l] => m # 0 /\ n <= m
  BY <1>2, <1>5
<1> QED BY <1>3, <1>5, <1>6, <1>7

\* A token cut to n characters.
LEMMA CutCharacters ==
    ASSUME NEW tok \in Token, NEW n
    PROVE  Characters([tok EXCEPT !.length = n]) = SubSeq(strings[tok.string], tok.off + 1, tok.off + n)
BY DEF Characters, Token

\* The rest of a token, matched at a token that has been cut, is all of it.
LEMMA TokenMatch ==
    ASSUME NEW a, tokens[a] \in Token, tokens[a].length > 0, NEW r, NEW l, l = LiteralOf(r)
    PROVE  MatchesToken(l, a) = OnToken(r, a)
<1> DEFINE tok == tokens[a]
           m == MatchLength(l, tok)
<1>1. tok \in Token /\ tok.length \in Nat /\ tok.length > 0
  BY DEF Token
<1>2. Characters([tok EXCEPT !.length = tok.length]) = Characters(tok)
  BY <1>1, CutCharacters DEF Characters
<1> HIDE DEF tok
<1>3. /\ m \in 0 .. tok.length
      /\ m # 0 => Characters([tok EXCEPT !.length = m]) \in Literals[l]
      /\ \A n \in 1 .. tok.length : Characters([tok EXCEPT !.length = n]) \in Literals[l] => m # 0 /\ n <= m
  BY <1>1, MatchIs
<1>4. (m > 0 /\ m = tok.length) <=> Characters(tok) \in Literals[l]
  <2> HIDE DEF m
  <2>1. tok.length \in 1 .. tok.length
    BY <1>1
  <2>2. Characters(tok) \in Literals[l] => m # 0 /\ tok.length <= m
    BY <1>2, <1>3, <2>1
  <2>3. (m > 0 /\ m = tok.length) => Characters(tok) \in Literals[l]
    BY <1>1, <1>2, <1>3
  <2> QED BY <1>1, <1>3, <2>2, <2>3
<1> QED BY <1>4 DEF MatchesToken, OnToken, Matched, tok, m

-----------------------------------------------------------------------------
(* What a step leaves of the cache *)

\* The tokens that have been cut stay as they are, and so do their strings.
CutStay ==
    /\ Size' \in Nat /\ Size' >= Size
    /\ tailIds \subseteq tailIds'
    /\ \A n \in 1 .. parses : strings'[n] = strings[n]
    /\ \A b \in 3 .. Size : ~Uncut(b) =>
           /\ ~Uncut(b)'
           /\ tokens'[b].string = tokens[b].string /\ tokens'[b].off = tokens[b].off
           /\ tokens'[b].length = tokens[b].length

\* An entry is then as true as it was.
LEMMA EntryStays ==
    ASSUME Addressed, Addressed', CutStay, NEW k, NEW v, Entry(k, v)
    PROVE  Entry(k, v)'
<1>1. Pool = 1 .. Size /\ Pool' = 1 .. Size' /\ Size \in Nat
  BY DEF Addressed
<1>2. v = Failed \/ v.tok \in Pool'
  BY <1>1 DEF Entry, CutStay
<1>3. ASSUME k[2] \notin tailIds' 
      PROVE  /\ k[2] + 3 \in 3 .. Size' /\ ~Uncut(k[2] + 3)'
             /\ k[1] \notin Contextual => v = OnToken(k[1], k[2] + 3)'
  <2>1. k[2] \notin tailIds
    BY <1>3 DEF CutStay
  <2> DEFINE b == k[2] + 3
  <2>2. b \in 3 .. Size /\ ~Uncut(b) /\ (k[1] \notin Contextual => v = OnToken(k[1], b))
    BY <2>1 DEF Entry
  <2> HIDE DEF b
  <2>3. /\ ~Uncut(b)'
        /\ tokens'[b].string = tokens[b].string /\ tokens'[b].off = tokens[b].off
        /\ tokens'[b].length = tokens[b].length
        /\ Size' \in Nat /\ Size' >= Size
    BY <2>2 DEF CutStay
  <2>4. b \in DOMAIN tokens
    BY <1>1, <2>2 DEF Pool
  <2>5. tokens[b].string \in 1 .. parses
    BY <2>2, <2>4 DEF Addressed
  <2>6. strings'[tokens'[b].string] = strings[tokens[b].string]
    BY <2>3, <2>5 DEF CutStay
  <2>7. Characters(tokens[b])' = Characters(tokens[b])
    BY <2>3, <2>6 DEF Characters
  <2>8. OnToken(k[1], b)' = OnToken(k[1], b)
    BY <2>3, <2>7 DEF OnToken
  <2>9. b \in 3 .. Size'
    BY <1>1, <2>2, <2>3
  <2> QED BY <2>2, <2>3, <2>8, <2>9 DEF b
<1> QED BY <1>2, <1>3 DEF Entry

\* The cache is as it is to be if this is so of the entries that are new.
LEMMA EntriesAfter ==
    ASSUME Addressed, Addressed', CutStay, AsOnToken,
           \A k \in DOMAIN results' : \A v : v = results'[k] =>
               (k \in DOMAIN results /\ v = results[k]) \/ Entry(k, v)'
    PROVE  AsOnToken'
<1>1. ASSUME NEW k \in DOMAIN results', NEW v, v = results'[k]
      PROVE  Entry(k, v)'
  <2>1. CASE k \in DOMAIN results /\ v = results[k]
    <3>1. Entry(k, results[k])
      BY <2>1 DEF AsOnToken
    <3>2. Entry(k, v)
      BY <2>1, <3>1
    <3> QED BY <3>2, EntryStays
  <2> QED BY <1>1, <2>1
<1>2. ASSUME NEW k \in DOMAIN results' PROVE Entry(k, results[k])'
  <2>1. \A v : v = results'[k] => Entry(k, v)'
    BY <1>1
  <2> QED BY <2>1 DEF Entry
<1> QED BY <1>2 DEF AsOnToken

-----------------------------------------------------------------------------
(* The steps that leave the cache alone *)

\* A step that changes no entry and no cut token.
LEMMA SameEntries ==
    ASSUME Addressed, Addressed', CutStay, AsOnToken, results' = results
    PROVE  AsOnToken'
<1>1. \A k \in DOMAIN results' : \A v : v = results'[k] =>
               (k \in DOMAIN results /\ v = results[k]) \/ Entry(k, v)'
  OBVIOUS
<1> QED BY <1>1, EntriesAfter

\* A string is passed to Parser_parse.
LEMMA LexParse ==
    ASSUME LexInv, NEW t \in Texts, Parser_parse(t),
           strings' = Append(strings, t), UNCHANGED <<results, tailIds>>
    PROVE  LexInv'
<1>1. Core /\ OffHead /\ Numbered /\ AsOnToken
  BY DEF LexInv
<1>2. Core' /\ Entered
  BY <1>1, ParseEmptyCore, ParseStringCore
<1>3. /\ Addressed /\ Addressed' /\ parses' = parses + 1 /\ parses \in Nat /\ t \in Seq(STRING)
      /\ Size \in Nat /\ \A a \in 1 .. Size : a \in DOMAIN tokens /\ tokens[a].string \in 0 .. parses
  BY <1>1, <1>2, ParseEnters DEF Core
<1>4. Pool = 1 .. Size /\ Pool' = 1 .. Size'
  BY <1>3 DEF Addressed
<1>5. /\ strings \in Seq(Seq(STRING)) /\ Len(strings) = parses
      /\ strings' \in Seq(Seq(STRING)) /\ Len(strings') = parses'
      /\ \A n \in 1 .. parses : strings'[n] = strings[n]
  <2> DEFINE T == Seq(STRING)
  <2>1. strings \in Seq(T) /\ t \in T /\ Len(strings) = parses
    BY <1>1, <1>3 DEF Numbered
  <2> HIDE DEF T
  <2>2. /\ Append(strings, t) \in Seq(T) /\ Len(Append(strings, t)) = Len(strings) + 1
        /\ \A n \in 1 .. Len(strings) : Append(strings, t)[n] = strings[n]
    BY <2>1
  <2> QED BY <1>3, <2>1, <2>2 DEF T
<1>6. Numbered' /\ Running'
  BY <1>2, <1>5 DEF Numbered, Running, Entered
<1>7. OffHead'
  BY <1>1, <1>2 DEF OffHead, Entered
<1>8. PICK L \in SUBSET Pool : Rooted(L)
  BY DEF LexInv
<1>9. L \in SUBSET Pool' /\ Rooted(L)'
  <2>1. L \subseteq Pool'
    BY <1>2, <1>3, <1>4, <1>8 DEF Entered
  <2>2. \A a \in L : tokens'[a] = tokens[a] /\ tokens[a].string \in 0 .. parses
    BY <1>2, <1>3, <1>4, <1>8 DEF Entered
  <2>3. \A a \in L : tokens'[a].string # parses'
    <3> TAKE a \in L
    <3>1. tokens'[a].string \in 0 .. parses /\ parses' = parses + 1 /\ parses \in Nat
      BY <1>3, <2>2
    <3> QED BY <3>1
  <2> QED BY <1>8, <2>1, <2>2, <2>3 DEF Rooted, token_head, Null
<1>10. CutStay
  <2>1. ASSUME NEW b \in 3 .. Size
        PROVE  ~Uncut(b)' /\ tokens'[b] = tokens[b]
    <3>1. b \in 1 .. Size /\ b # Size + 1
      BY <1>3, <2>1
    <3> QED BY <1>2, <3>1 DEF Entered, Uncut
  <2> QED BY <1>2, <1>5, <2>1 DEF CutStay, Entered
<1>11. AsOnToken'
  BY <1>1, <1>3, <1>10, SameEntries
<1> QED BY <1>2, <1>6, <1>7, <1>9, <1>11 DEF LexInv

\* The list of the parser is not touched while the tokens of a string are made.
LEMMA RootedStays ==
    ASSUME Addressed, Addressed', pc = "loop", Untouched, parses' = parses, pc' \in {"loop", "link"},
           NEW L \in SUBSET Pool, Rooted(L)
    PROVE  L \in SUBSET Pool' /\ Rooted(L)'
<1>1. Pool = 1 .. Size /\ Pool' = 1 .. Size' /\ Size \in Nat
  BY DEF Addressed
<1>2. L \subseteq Pool'
  BY <1>1 DEF Untouched
<1>3. \A a \in L : tokens'[a].next = tokens[a].next /\ tokens'[a].string # parses'
  BY <1>1 DEF Untouched, Rooted
<1> QED BY <1>2, <1>3 DEF Rooted, token_head, Null

\* The token rule has failed, or has come to the end: the list is cut off.
LEMMA LexReturns ==
    ASSUME LexInv, TokenizeReturns, UNCHANGED <<strings, results, tailIds>>
    PROVE  LexInv'
<1>1. /\ Core /\ OffHead /\ Numbered /\ AsOnToken /\ Addressed
      /\ pc = "loop" /\ pc' = "link" /\ parses' = parses
  BY DEF LexInv, Core, TokenizeReturns
<1>2. /\ Core' /\ Untouched /\ Addressed' /\ DOMAIN tokens' = DOMAIN tokens
      /\ \A a \in DOMAIN tokens :
            /\ tokens'[a].next \in {Null, tokens[a].next}
            /\ tokens'[a].string = tokens[a].string /\ tokens'[a].off = tokens[a].off
            /\ tokens'[a].length = tokens[a].length
  BY <1>1, ReturnsCore DEF Core
<1>3. OffHead' /\ Numbered' /\ Running'
  BY <1>1, <1>2 DEF OffHead, Numbered, Running, token_head, Null
<1>4. PICK L \in SUBSET Pool : Rooted(L)
  BY DEF LexInv
<1>5. L \in SUBSET Pool' /\ Rooted(L)'
  BY <1>1, <1>2, <1>4, RootedStays
<1>6. CutStay
  <2>1. \A b \in 3 .. Size : b \in DOMAIN tokens /\ ~Uncut(b)'
    BY <1>1 DEF Addressed, Pool, Uncut
  <2> QED BY <1>2, <2>1 DEF CutStay, Untouched
<1>7. AsOnToken'
  BY <1>1, <1>2, <1>6, SameEntries
<1> QED BY <1>2, <1>3, <1>5, <1>7 DEF LexInv

\* The string is given up, or cannot be linked in: the cache keeps its entries.
LEMMA LexLeft ==
    ASSUME LexInv, TokenizeFailed \/ LinkUndefined, UNCHANGED <<strings, results, tailIds>>
    PROVE  LexInv'
<1>1. /\ Core /\ OffHead /\ Numbered /\ AsOnToken /\ Addressed
      /\ pc = "link" /\ pc' \in {"idle", "undefined"}
      /\ UNCHANGED <<tokens, ntokens, token_cur, text, reset, start, end, status, kept, rounds, cached, parses>>
  BY DEF LexInv, Core, TokenizeFailed, LinkUndefined
<1>2. Core' /\ Addressed' /\ Pool' = Pool /\ Size' = Size
  BY <1>1, LeftCore DEF Core, Pool, Size, local_head, local_tail
<1>3. OffHead' /\ Numbered' /\ Running'
  BY <1>1 DEF OffHead, Numbered, Running, token_head
<1>4. PICK L \in SUBSET Pool : Rooted(L)
  BY DEF LexInv
<1>5. L \in SUBSET Pool' /\ Rooted(L)'
  BY <1>1, <1>2, <1>4 DEF Rooted, token_head, Null
<1>6. CutStay
  BY <1>1, <1>2 DEF CutStay, Uncut, Addressed
<1>7. AsOnToken'
  BY <1>1, <1>2, <1>6, SameEntries
<1> QED BY <1>2, <1>3, <1>5, <1>7 DEF LexInv

\* The new tokens are linked in.
LEMMA LexLink ==
    ASSUME LexInv, Link, tailIds' = tailIds \cup {tokens'[token_tail].id}, UNCHANGED <<strings, results>>
    PROVE  LexInv'
<1>1. /\ Core /\ OffHead /\ Numbered /\ AsOnToken /\ Addressed /\ Kept /\ Returned
      /\ pc = "link" /\ pc' = "parse" /\ parses' = parses
      /\ start \in Pool /\ start' = start /\ token_cur' = start
  BY DEF LexInv, Core, Link
<1>2. /\ Core' /\ Addressed' /\ DOMAIN tokens' = DOMAIN tokens /\ Pool' = Pool /\ Size' = Size
      /\ \A a \in DOMAIN tokens :
            /\ tokens'[a].next = IF a = token_cur THEN start
                                 ELSE IF a = end THEN tokens[token_cur].next ELSE tokens[a].next
            /\ tokens'[a].string = tokens[a].string /\ tokens'[a].off = tokens[a].off
            /\ tokens'[a].length = tokens[a].length
  BY <1>1, LinkCore DEF Core
<1>3. Pool = 1 .. Size /\ Size \in Nat /\ Size >= 2
  BY <1>1 DEF Addressed
<1> DEFINE n == Len(kept)
           K == {kept[i] : i \in 1 .. n}
<1>4. /\ n \in Nat /\ n # 0 /\ start = kept[1] /\ end = kept[n]
      /\ \A i \in 1 .. n - 1 : tokens[kept[i]].next = kept[i + 1]
      /\ \A i \in 1 .. n : kept[i] \in 3 .. Size /\ kept[i] \in DOMAIN tokens /\ tokens[kept[i]].string = parses
  BY <1>1, KeptTokens DEF Returned
<1> HIDE DEF n
<1>5. start \in 3 .. Size /\ start \in K /\ end \in K
  <2>1. 1 \in 1 .. n /\ n \in 1 .. n
    BY <1>4
  <2> QED BY <1>4, <2>1
<1>6. \A a \in K : a \in 3 .. Size /\ a \in DOMAIN tokens /\ tokens[a].string = parses
                   /\ (a # end => tokens[a].next \in K)
  <2> SUFFICES ASSUME NEW i \in 1 .. n
               PROVE  kept[i] \in 3 .. Size /\ kept[i] \in DOMAIN tokens /\ tokens[kept[i]].string = parses
                      /\ (kept[i] # end => tokens[kept[i]].next \in K)
    OBVIOUS
  <2>1. CASE i = n
    BY <1>4, <2>1
  <2>2. CASE i # n
    <3>1. i \in 1 .. n - 1 /\ i + 1 \in 1 .. n
      BY <1>4, <2>2
    <3>2. tokens[kept[i]].next = kept[i + 1] /\ kept[i + 1] \in K
      BY <1>4, <3>1
    <3> QED BY <1>4, <3>2
  <2> QED BY <2>1, <2>2
<1> HIDE DEF K
<1>7. token_cur \in Pool /\ token_cur \in DOMAIN tokens /\ tokens[token_cur].string # parses
  BY <1>1 DEF Core, Anchored, Anchor, Pool
<1>8. OffHead'
  <2>1. start # token_head
    BY <1>5 DEF token_head
  <2> QED BY <1>1, <1>2, <1>7, <2>1 DEF OffHead, token_head
<1>9. Numbered' /\ Running'
  <2>1. start # token_head /\ start \in 3 .. Size'
    BY <1>2, <1>5 DEF token_head
  <2>2. tokens'[token_tail].id \in tailIds'
    OBVIOUS
  <2> QED BY <1>1, <2>1, <2>2 DEF Numbered, Running, token_head, token_tail
<1>10. PICK L \in SUBSET Pool : Rooted(L)
  BY DEF LexInv
<1>11. /\ token_head \in L
       /\ \A a \in L : a \in DOMAIN tokens /\ a \notin K /\ a # end /\ tokens[a].next \in L \cup {Null}
  BY <1>1, <1>5, <1>6, <1>10 DEF Rooted, Pool
<1>12. \E M \in SUBSET Pool' : Rooted(M)'
  <2>1. CASE token_cur \notin L
    <3>1. \A a \in L : tokens'[a].next = tokens[a].next
      BY <1>2, <1>11, <2>1
    <3>2. Rooted(L)'
      BY <1>1, <1>2, <1>10, <1>11, <3>1 DEF Rooted, token_head, Null
    <3> QED BY <1>2, <1>10, <3>2
  <2>2. CASE token_cur \in L
    <3> PICK M : M = L \cup K
      OBVIOUS
    <3>1. M \subseteq Pool'
      <4>1. \A a \in K : a \in Pool
        BY <1>3, <1>6
      <4>2. \A a \in L : a \in Pool
        BY <1>10
      <4> QED BY <1>2, <4>1, <4>2
    <3>2. \A a \in L : tokens'[a].next \in M \cup {Null}
      <4> TAKE a \in L
      <4>1. a \in DOMAIN tokens /\ a # end /\ tokens[a].next \in L \cup {Null}
        BY <1>11
      <4>2. tokens'[a].next = IF a = token_cur THEN start ELSE tokens[a].next
        BY <1>2, <4>1
      <4> QED BY <1>5, <4>1, <4>2
    <3>3. \A a \in K : tokens'[a].next \in M \cup {Null}
      <4> TAKE a \in K
      <4>1. a # token_cur /\ a \in DOMAIN tokens
        BY <1>6, <1>7
      <4>2. tokens[token_cur].next \in L \cup {Null}
        BY <1>11, <2>2
      <4> QED BY <1>2, <1>6, <4>1, <4>2
    <3>4. token_head \in M /\ \A a \in M : tokens'[a].next \in M \cup {Null}
      BY <1>11, <3>2, <3>3
    <3>5. Rooted(M)'
      BY <1>1, <3>1, <3>4 DEF Rooted, token_head, Null
    <3> QED BY <3>1, <3>5
  <2> QED BY <2>1, <2>2
<1>13. CutStay
  <2>1. \A b \in 3 .. Size : b \in DOMAIN tokens /\ ~Uncut(b)'
    BY <1>1 DEF Addressed, Pool, Uncut
  <2> QED BY <1>2, <1>3, <2>1 DEF CutStay
<1>14. AsOnToken'
  BY <1>1, <1>2, <1>13, SameEntries
<1> QED BY <1>2, <1>8, <1>9, <1>12, <1>14 DEF LexInv

-----------------------------------------------------------------------------
(* What the token rule stores *)

\* A rule has the literal of the production or is it.
LEMMA LiteralRules ==
    /\ \A l \in DOMAIN Literals : LiteralOf(l) = l /\ l \notin DOMAIN Productions
    /\ \A p \in DOMAIN Productions : /\ LiteralOf(p) = Productions[p].lit
                                     /\ Productions[p].lit \in DOMAIN Literals
                                     /\ LiteralOf(Productions[p].lit) = LiteralOf(p)
BY LexAssumption DEF LiteralOf

\* Two rules of one literal are contextual or not together, and a production
\* that may be refused is contextual.
LEMMA ContextOfLiteral ==
    /\ \A r, s \in Rules : LiteralOf(r) = LiteralOf(s) => (r \in Contextual <=> s \in Contextual)
    /\ \A refused \in Refusals, p \in DOMAIN Productions : p \notin Contextual => p \notin refused
    /\ Contextual' = Contextual
  BY DEF Contextual, Rules, Refusals, LiteralOf

\* The last production tried is there, and none before it has won.
LEMMA LastTried ==
    ASSUME NEW refused
    PROVE  LET q == LastOf(Tried(refused)) IN
           /\ q \in DOMAIN TokenRule /\ q \in Tried(refused)
           /\ \A i \in Tried(refused) : /\ i \in DOMAIN TokenRule
                                        /\ (/\ MatchLength(Productions[TokenRule[i]].lit, tokens[token_cur]) > 0
                                            /\ TokenRule[i] \notin refused) => i = q
<1> DEFINE Wins(i) == /\ MatchLength(Productions[TokenRule[i]].lit, tokens[token_cur]) > 0
                      /\ TokenRule[i] \notin refused
           n == Len(TokenRule)
           S == {i \in DOMAIN TokenRule : \A j \in 1 .. i - 1 : ~Wins(j)}
           q == LastOf(S)
<1>1. n \in Nat /\ n >= 1 /\ DOMAIN TokenRule = 1 .. n
  <2> DEFINE P == DOMAIN Productions
  <2>1. TokenRule \in Seq(P) /\ TokenRule # << >>
    BY LexAssumption
  <2> HIDE DEF P
  <2> QED BY <2>1
<1>2. Tried(refused) = S
  BY DEF Tried
<1> HIDE DEF n, Wins
<1>3. S \in SUBSET (1 .. n) /\ 1 \in S
  BY <1>1
<1>4. q \in S /\ \A j \in S : j <= q
  <2> HIDE DEF S
  <2> QED BY <1>1, <1>3, LastIsGreatest
<1> HIDE DEF q
<1>5. ASSUME NEW i \in S, Wins(i) PROVE i = q
  <2>1. i \in Nat /\ i >= 1 /\ q \in Nat /\ i <= q
    BY <1>3, <1>4
  <2>2. i \notin 1 .. q - 1
    BY <1>4, <1>5
  <2> QED BY <2>1, <2>2
<1> QED BY <1>2, <1>3, <1>4, <1>5 DEF q, Wins

\* What is stored of a rule when the token rule has run and found n: nothing, or
\* all of the new token.
Stored(k, v, n) ==
    /\ k \in Rules \X Int /\ k[2] = tokens[token_cur].id
    /\ v = Failed \/ v.tok = token_cur
    /\ k[1] \notin Contextual =>
          IF MatchLength(LiteralOf(k[1]), tokens[token_cur]) = 0 THEN v = Failed
          ELSE v = Matched(LiteralOf(k[1]), token_cur) /\ v = n

\* The entries of the cache after a round, and what the production that ended it found.
LEMMA TokenResultsAre ==
    ASSUME NEW refused \in Refusals, tokens[token_cur] \in Token
    PROVE  LET R == TokenResults(refused)
               p == TokenRule[LastOf(Tried(refused))]
               n == R[Key(p, token_cur)]
           IN  /\ n # Failed => n.len \in 1 .. tokens[token_cur].length /\ n.tok = token_cur
               /\ \A k \in DOMAIN R : (k \in DOMAIN results /\ R[k] = results[k]) \/ Stored(k, R[k], n)
<1> DEFINE tok == tokens[token_cur]
           T == Tried(refused)
           q == LastOf(T)
           p == TokenRule[q]
           tried == {TokenRule[i] : i \in T}
           rules == tried \cup {LiteralOf(s) : s \in tried}
           keys == {Key(r, token_cur) : r \in rules}
           result(r) == IF MatchLength(LiteralOf(r), tok) = 0 \/ r \in refused THEN Failed
                        ELSE Matched(LiteralOf(r), token_cur)
           new == [k \in keys |-> result(k[1])]
           R == TokenResults(refused)
           n == R[Key(p, token_cur)]
<1>1. R = [k \in DOMAIN results \cup DOMAIN new |-> IF k \in DOMAIN new THEN new[k] ELSE results[k]]
  BY DEF TokenResults, Store
<1> HIDE DEF R
<1>2. /\ DOMAIN R = DOMAIN results \cup keys
      /\ \A k \in DOMAIN R : R[k] = IF k \in keys THEN result(k[1]) ELSE results[k]
  BY <1>1
<1>3. \A i \in DOMAIN TokenRule : TokenRule[i] \in DOMAIN Productions
  <2> DEFINE P == DOMAIN Productions
  <2>1. TokenRule \in Seq(P)
    BY LexAssumption
  <2> HIDE DEF P
  <2>2. \A i \in DOMAIN TokenRule : TokenRule[i] \in P
    BY <2>1
  <2> QED BY <2>2 DEF P
<1>4. /\ q \in DOMAIN TokenRule /\ q \in T
      /\ \A i \in T : /\ i \in DOMAIN TokenRule
                      /\ (/\ MatchLength(Productions[TokenRule[i]].lit, tok) > 0
                          /\ TokenRule[i] \notin refused) => i = q
  BY LastTried
<1> HIDE DEF T, q
<1>5. \A s \in tried : \E i \in T : s = TokenRule[i] /\ s \in DOMAIN Productions
  BY <1>3, <1>4
<1>6. p \in tried /\ p \in DOMAIN Productions
  BY <1>3, <1>4
<1> HIDE DEF tried, p
<1>7. \A r \in rules : \E s \in tried : r \in Rules /\ LiteralOf(r) = LiteralOf(s) /\ (r = s \/ r \in DOMAIN Literals)
  BY <1>5, LiteralRules DEF Rules
<1>8. p \in rules
  BY <1>6
<1> HIDE DEF rules
<1>9. tok.length \in Nat /\ tok.id \in Nat
  BY DEF Token
<1>10. \A l : MatchLength(l, tok) \in 0 .. tok.length
  BY <1>9, MatchIs
<1>11. \A r \in rules : Key(r, token_cur) \in keys /\ Key(r, token_cur)[1] = r /\ Key(r, token_cur) = <<r, tok.id>>
  BY DEF Key
<1>12. \A k \in keys : k[1] \in rules /\ k = <<k[1], tok.id>> /\ k[2] = tok.id
  BY DEF Key
<1> HIDE DEF keys
<1>13. n = result(p)
  <2>1. Key(p, token_cur) \in keys /\ Key(p, token_cur)[1] = p
    BY <1>8, <1>11
  <2> QED BY <1>2, <2>1
<1> HIDE DEF n
<1>14. \A r : result(r) # Failed => result(r).len \in 1 .. tok.length /\ result(r).tok = token_cur
  <2> TAKE r
  <2> DEFINE m == MatchLength(LiteralOf(r), tok)
  <2>1. m \in 0 .. tok.length
    BY <1>10
  <2>2. result(r) # Failed => m # 0 /\ result(r) = [len |-> m, tok |-> token_cur]
    BY DEF Matched
  <2> HIDE DEF m, result
  <2> QED BY <1>9, <2>1, <2>2
<1>15. ASSUME NEW r \in rules, r \notin Contextual
       PROVE  IF MatchLength(LiteralOf(r), tok) = 0 THEN result(r) = Failed
              ELSE result(r) = Matched(LiteralOf(r), token_cur) /\ result(r) = n
  <2>1. CASE MatchLength(LiteralOf(r), tok) = 0
    BY <2>1
  <2>2. CASE MatchLength(LiteralOf(r), tok) # 0
    <3>1. PICK s \in tried : r \in Rules /\ LiteralOf(r) = LiteralOf(s) /\ (r = s \/ r \in DOMAIN Literals)
      BY <1>7
    <3>2. PICK i \in T : s = TokenRule[i] /\ s \in DOMAIN Productions
      BY <1>5
    <3>3. s \notin Contextual /\ s \notin refused
      BY <1>15, <3>1, <3>2, ContextOfLiteral DEF Rules
    <3>4. r \notin refused
      BY <3>1, <3>3, LiteralRules DEF Refusals
    <3>5. result(r) = Matched(LiteralOf(r), token_cur)
      BY <2>2, <3>4
    <3>6. MatchLength(Productions[TokenRule[i]].lit, tok) > 0 /\ TokenRule[i] \notin refused
      <4>1. MatchLength(LiteralOf(s), tok) # 0 /\ LiteralOf(s) = Productions[s].lit
        BY <2>2, <3>1, <3>2, LiteralRules
      <4>2. MatchLength(Productions[s].lit, tok) \in 0 .. tok.length
        BY <1>10
      <4> QED BY <1>9, <3>2, <3>3, <4>1, <4>2
    <3>7. i = q
      BY <1>4, <3>6
    <3>8. s = p
      BY <3>2, <3>7 DEF p
    <3>9. n = result(r)
      BY <1>13, <2>2, <3>1, <3>3, <3>5, <3>8
    <3> QED BY <2>2, <3>5, <3>9
  <2> QED BY <2>1, <2>2
<1> HIDE DEF result
<1>16. ASSUME NEW k \in DOMAIN R PROVE (k \in DOMAIN results /\ R[k] = results[k]) \/ Stored(k, R[k], n)
  <2>1. CASE k \notin keys
    BY <1>2, <2>1
  <2>2. CASE k \in keys
    <3>1. R[k] = result(k[1]) /\ k[1] \in rules /\ k = <<k[1], tok.id>> /\ k[2] = tok.id
      BY <1>2, <1>12, <2>2
    <3>2. k[1] \in Rules
      BY <1>7, <3>1
    <3>3. k \in Rules \X Int
      <4>1. tok.id \in Int
        BY <1>9
      <4> QED BY <3>1, <3>2, <4>1
    <3> QED BY <1>14, <1>15, <3>1, <3>3 DEF Stored
  <2> QED BY <2>1, <2>2
<1>17. n # Failed => n.len \in 1 .. tok.length /\ n.tok = token_cur
  BY <1>13, <1>14
<1> QED BY <1>16, <1>17 DEF n, p, q, T, R

\* What is stored in a round is what is to be found at the token when it is cut:
\* m characters of it, all of them if the token rule has failed.
LEMMA StoredStays ==
    ASSUME Addressed, Addressed', Size' >= Size,
           NEW b, b = token_cur, b \in 3 .. Size, b \in DOMAIN tokens, ~Uncut(b)',
           NEW m \in 1 .. tokens[b].length, strings' = strings,
           tokens'[b].string = tokens[b].string, tokens'[b].off = tokens[b].off, tokens'[b].length = m,
           NEW k, NEW v, NEW n, Stored(k, v, n),
           (n = Failed /\ m = tokens[b].length) \/ (n # Failed /\ n.len = m)
    PROVE  Entry(k, v)'
<1>1. /\ tokens[b] \in Token /\ tokens[b].id = b - 3 /\ tokens[b].length \in Nat
      /\ Pool = 1 .. Size /\ Pool' = 1 .. Size' /\ Size \in Nat /\ Size' \in Nat
  <2>1. Pool = 1 .. Size /\ Pool' = 1 .. Size' /\ Size \in Nat /\ Size' \in Nat
    BY DEF Addressed
  <2>2. b >= 3
    BY <2>1
  <2>3. tokens[b] \in Token /\ tokens[b].id = b - 3
    BY <2>2 DEF Addressed
  <2> QED BY <2>1, <2>3 DEF Token
<1>2. b \in 3 .. Size' /\ b \in Pool' /\ m \in Nat /\ m > 0
  BY <1>1
<1>3. /\ k \in Rules \X Int /\ k[2] + 3 = b
      /\ v = Failed \/ v.tok = b
  BY <1>1 DEF Stored
<1>4. ASSUME k[1] \notin Contextual PROVE v = OnToken(k[1], b)'
  <2> DEFINE l == LiteralOf(k[1])
             w == MatchLength(l, tokens[b])
             at(i) == Characters([tokens[b] EXCEPT !.length = i]) \in Literals[l]
  <2>1. /\ w \in 0 .. tokens[b].length
        /\ w # 0 => at(w)
        /\ \A i \in 1 .. tokens[b].length : at(i) => w # 0 /\ i <= w
    BY <1>1, MatchIs
  <2>2. Characters(tokens[b])' = Characters([tokens[b] EXCEPT !.length = m])
    <3> HIDE DEF l, w, at
    <3>1. Characters(tokens[b])' = SubSeq(strings[tokens[b].string], tokens[b].off + 1, tokens[b].off + m)
      BY DEF Characters
    <3>2. Characters([tokens[b] EXCEPT !.length = m])
            = SubSeq(strings[tokens[b].string], tokens[b].off + 1, tokens[b].off + m)
      BY <1>1, CutCharacters
    <3> QED BY <3>1, <3>2
  <2>3. OnToken(k[1], b)' = IF at(m) THEN [len |-> m, tok |-> b] ELSE Failed
    BY <2>2 DEF OnToken, LiteralOf, Failed
  <2>4. IF w = 0 THEN v = Failed ELSE v = [len |-> w, tok |-> b] /\ v = n
    BY <1>4 DEF Stored, Matched
  <2>5. at(m) => w # 0
    BY <2>1
  <2> HIDE DEF w, at
  <2>6. CASE w = 0
    BY <2>3, <2>4, <2>5, <2>6
  <2>7. CASE w # 0
    <3>1. v = [len |-> w, tok |-> b] /\ v = n
      BY <2>4, <2>7
    <3>2. n # Failed
      BY <2>7, <3>1 DEF Failed
    <3>3. w = m
      BY <3>1, <3>2
    <3> QED BY <2>1, <2>3, <2>7, <3>1, <3>3
  <2> QED BY <2>6, <2>7
<1> QED BY <1>2, <1>3, <1>4 DEF Entry

\* A round of the loop, whatever becomes of the token.
LEMMA LexRound == ASSUME LexInv, NEW refused \in Refusals, Lex(refused) PROVE LexInv'
<1>1. /\ Core /\ OffHead /\ Numbered /\ AsOnToken /\ Addressed /\ Local
      /\ pc = "loop" /\ status = 0 /\ tokens[token_cur].length > 0
      /\ results' = TokenResults(refused) /\ UNCHANGED <<strings, tailIds>>
  BY DEF LexInv, Core, Lex
<1> DEFINE p == TokenRule[LastOf(Tried(refused))]
           f == TokenResults(refused)[Key(p, token_cur)]
<1>2. PICK n : n = f
  OBVIOUS
<1>3. \/ n = Failed /\ TokenFails
      \/ n # Failed /\ (Parser_skip_token(n.len) \/ Parser_add_token(n.len))
  BY <1>2 DEF Lex
<1>4. PICK b : b = token_cur
  OBVIOUS
<1>5. /\ b = Size /\ b \in 3 .. Size /\ b \in DOMAIN tokens /\ Size \in Nat /\ Size + 1 \notin DOMAIN tokens
      /\ tokens[b] \in Token /\ tokens[b].length \in Nat /\ tokens[b].length > 0
      /\ tokens[b].length \in 1 .. tokens[b].length
  <2>1. /\ b = Size /\ b \in 3 .. Size /\ b \in DOMAIN tokens /\ Size \in Nat /\ Size + 1 \notin DOMAIN tokens
    BY <1>1, <1>4, CurrentRest
  <2>2. tokens[b] \in Token
    BY <1>1, <2>1 DEF Addressed
  <2>3. tokens[b].length \in Nat /\ tokens[b].length > 0
    BY <1>1, <1>4, <2>2 DEF Token
  <2> QED BY <2>1, <2>2, <2>3
<1>6. /\ n # Failed => n.len \in 1 .. tokens[b].length
      /\ \A k \in DOMAIN results' : \A v : v = results'[k] => (k \in DOMAIN results /\ v = results[k]) \/ Stored(k, v, n)
  BY <1>1, <1>2, <1>4, <1>5, TokenResultsAre
<1> HIDE DEF p, f
<1>7. PICK m : m = IF n = Failed THEN tokens[b].length ELSE n.len
  OBVIOUS
<1>8. m \in 1 .. tokens[b].length /\ ((n = Failed /\ m = tokens[b].length) \/ (n # Failed /\ n.len = m))
  BY <1>5, <1>6, <1>7
<1>9. /\ Core' /\ Untouched /\ OffHead'
      /\ pc' = "loop" /\ parses' = parses
      /\ \A a \in DOMAIN tokens :
            /\ tokens'[a].string = tokens[a].string /\ tokens'[a].off = tokens[a].off
            /\ tokens'[a].length = IF a = b THEN m ELSE tokens[a].length
      /\ status' = 1 \/ token_cur' \in {local_tail, Size + 1}
  <2>1. CASE n = Failed /\ TokenFails
    <3>1. Core' /\ Untouched
      BY <1>1, <2>1, FailsCore
    <3>2. tokens' = tokens /\ pc' = pc /\ parses' = parses /\ status' = 1
      BY <2>1 DEF TokenFails, Tokenizing
    <3> QED BY <1>1, <1>7, <2>1, <3>1, <3>2 DEF OffHead, token_head
  <2>2. CASE n # Failed /\ (Parser_skip_token(n.len) \/ Parser_add_token(n.len))
    <3>1. n.len = m
      BY <1>7, <2>2
    <3>2. Core' /\ Untouched /\ Round(m)
      BY <1>1, <2>2, <3>1, SkipCore, AddCore
    <3>3. pc' = pc /\ parses' = parses
      BY <2>2 DEF Parser_skip_token, Parser_add_token, Tokenizing
    <3>4. OffHead'
      <4>1. \A a \in DOMAIN tokens' :
               (a \in DOMAIN tokens /\ tokens'[a].next = tokens[a].next) \/ tokens'[a].next # token_head
        BY <3>2 DEF Round
      <4> QED BY <1>1, <4>1 DEF OffHead, token_head
    <3>5. /\ \A a \in DOMAIN tokens :
              /\ tokens'[a].string = tokens[a].string /\ tokens'[a].off = tokens[a].off
              /\ tokens'[a].length = IF a = b THEN m ELSE tokens[a].length
          /\ token_cur' \in {local_tail, Size + 1}
      BY <1>4, <3>2 DEF Round
    <3> QED BY <1>1, <3>2, <3>3, <3>4, <3>5
  <2> QED BY <1>3, <2>1, <2>2
<1>10. Addressed' /\ Size' \in Nat /\ Size' >= Size
  BY <1>9 DEF Core, Untouched
<1>11. \A a \in 3 .. Size : a \in DOMAIN tokens /\ ~Uncut(a)'
  <2> TAKE a \in 3 .. Size
  <2>1. a \in DOMAIN tokens
    BY <1>1 DEF Addressed, Pool
  <2>2. a # Size + 1 /\ a # local_tail
    BY <1>5 DEF local_tail
  <2> QED BY <1>9, <2>1, <2>2 DEF Uncut
<1>12. CutStay
  <2>1. \A a \in 3 .. Size : ~Uncut(a) => a # b
    BY <1>1, <1>4 DEF Uncut
  <2> QED BY <1>1, <1>9, <1>10, <1>11, <2>1 DEF CutStay
<1>13. AsOnToken'
  <2>1. \A k \in DOMAIN results' : \A v : v = results'[k] =>
               (k \in DOMAIN results /\ v = results[k]) \/ Entry(k, v)'
    <3> SUFFICES ASSUME NEW k \in DOMAIN results', NEW v, v = results'[k], Stored(k, v, n) PROVE Entry(k, v)'
      BY <1>6
    <3>1. /\ ~Uncut(b)' /\ strings' = strings
          /\ tokens'[b].string = tokens[b].string /\ tokens'[b].off = tokens[b].off /\ tokens'[b].length = m
      BY <1>1, <1>5, <1>9, <1>11
    <3> QED BY <1>1, <1>4, <1>5, <1>8, <1>10, <3>1, StoredStays
  <2> QED BY <1>1, <1>10, <1>12, <2>1, EntriesAfter
<1>14. PICK L \in SUBSET Pool : Rooted(L)
  BY DEF LexInv
<1>15. L \in SUBSET Pool' /\ Rooted(L)'
  BY <1>1, <1>9, <1>10, <1>14, RootedStays
<1>16. Numbered' /\ Running'
  BY <1>1, <1>9 DEF Numbered, Running
<1> QED BY <1>9, <1>13, <1>15, <1>16 DEF LexInv

-----------------------------------------------------------------------------
(* The root rule *)

\* A step of the root rule leaves the tokens as they are.
LEMMA RunCore ==
    ASSUME Core, pc = "parse", token_cur # token_head, pc' \in {"parse", "idle", "undefined"},
           token_cur' \in Pool, cached' \subseteq cached \cup {<<tokens[token_cur].id, token_cur>>},
           UNCHANGED <<tokens, ntokens, text, reset, start, end, status, kept, rounds, parses>>
    PROVE  Core' /\ Pool' = Pool /\ Size' = Size
<1>1. /\ Addressed /\ Called /\ Kept /\ Rounds /\ CachedById /\ Anchored /\ NoCharLost /\ CoordsFollowText
  BY DEF Core
<1>2. Pool' = Pool /\ Size' = Size /\ Mine' = Mine /\ Size \in Nat /\ Pool = 1 .. Size
  BY <1>1 DEF Pool, Size, local_head, local_tail, Mine, Addressed
<1>3. Addressed' /\ Kept' /\ Rounds'
  BY <1>1, <1>2 DEF Addressed, Kept, Rounds
<1>4. Called' /\ Anchored'
  BY <1>1, <1>2 DEF Called, Anchored, Anchor, token_tail, Pool
<1>5. NoCharLost' /\ CoordsFollowText'
  BY <1>1, <1>2, CoordsKept DEF NoCharLost
<1>6. CachedById'
  <2> SUFFICES ASSUME NEW d \in cached'
               PROVE  \/ \E a \in 3 .. Size : d = <<a - 3, a>>
                      \/ \E id \in Nat : d = <<id, token_tail>>
    BY <1>2 DEF CachedById
  <2>1. CASE d \in cached
    BY <1>1, <2>1 DEF CachedById
  <2>2. CASE d \notin cached
    <3>1. d = <<tokens[token_cur].id, token_cur>>
      BY <2>2
    <3>2. token_cur \in DOMAIN tokens /\ token_cur \in 1 .. Size /\ token_cur # 1
      BY <1>1, <1>2 DEF Anchored, Anchor, token_head, Pool
    <3>3. CASE token_cur = token_tail
      <4>1. tokens[token_cur].id \in Nat
        BY <1>1, <3>2 DEF Addressed, Token
      <4> QED BY <3>1, <3>3, <4>1
    <3>4. CASE token_cur # token_tail
      <4>1. token_cur \in 3 .. Size
        BY <1>2, <3>2, <3>4 DEF token_tail
      <4>2. tokens[token_cur].id = token_cur - 3
        BY <1>1, <3>2, <4>1 DEF Addressed
      <4> QED BY <3>1, <4>1, <4>2
    <3> QED BY <3>3, <3>4
  <2> QED BY <2>1, <2>2
<1> QED BY <1>2, <1>3, <1>4, <1>5, <1>6 DEF Core

\* It keeps the invariant if what it adds to the cache is as it is to be.
LEMMA LexRun ==
    ASSUME LexInv, InParse, pc' \in {"parse", "idle", "undefined"},
           token_cur' \in Pool \ {token_head},
           cached' \subseteq cached \cup {<<tokens[token_cur].id, token_cur>>},
           \A k \in DOMAIN results' : \A v : v = results'[k] =>
               (k \in DOMAIN results /\ v = results[k]) \/ Entry(k, v)
    PROVE  LexInv'
<1>1. /\ Core /\ OffHead /\ Numbered /\ Running /\ AsOnToken /\ Addressed /\ pc = "parse"
      /\ UNCHANGED <<tokens, ntokens, text, reset, start, end, status, kept, rounds, parses, strings, tailIds>>
  BY DEF LexInv, Core, InParse
<1>2. token_cur # token_head
  BY <1>1 DEF Running
<1>3. Core' /\ Addressed' /\ Pool' = Pool /\ Size' = Size /\ Size \in Nat
  BY <1>1, <1>2, RunCore DEF Core, Addressed
<1>4. OffHead' /\ Numbered' /\ Running'
  BY <1>1, <1>3 DEF OffHead, Numbered, Running, token_head, token_tail
<1>5. PICK L \in SUBSET Pool : Rooted(L)
  BY DEF LexInv
<1>6. L \in SUBSET Pool' /\ Rooted(L)'
  BY <1>1, <1>3, <1>5 DEF Rooted, token_head, Null
<1>7. CutStay
  BY <1>1, <1>3 DEF CutStay, Uncut
<1>8. \A k \in DOMAIN results' : \A v : v = results'[k] =>
               (k \in DOMAIN results /\ v = results[k]) \/ Entry(k, v)'
  BY <1>1, <1>3, <1>7, EntryStays
<1>9. AsOnToken'
  BY <1>1, <1>3, <1>7, <1>8, EntriesAfter
<1> QED BY <1>3, <1>4, <1>6, <1>9 DEF LexInv

\* The parser is moved to a token of the pool, never to the head, or to none.
LEMMA SeekStays ==
    ASSUME LexInv, pc = "parse", NEW n, n = Failed \/ n.tok \in Pool, SeekPast(n)
    PROVE  pc' \in {"parse", "undefined"} /\ token_cur' \in Pool \ {token_head}
<1>1. token_cur \in Pool \ {token_head}
  BY DEF LexInv, Core, Anchored, Anchor, Running
<1>2. CASE n = Failed
  BY <1>1, <1>2 DEF SeekPast
<1>3. CASE n # Failed
  <2>1. n.tok \in DOMAIN tokens
    BY <1>3 DEF Pool
  <2>2. tokens[n.tok].next # token_head
    BY <2>1 DEF LexInv, OffHead
  <2> QED BY <1>1, <1>3, <2>2 DEF SeekPast
<1> QED BY <1>2, <1>3

\* A result in the cache.
LEMMA LexLookUp == ASSUME LexInv, NEW r \in RootUses, LookUp(r) PROVE LexInv'
<1>1. /\ InParse /\ pc = "parse" /\ Key(r, token_cur) \in DOMAIN results
      /\ SeekPast(results[Key(r, token_cur)]) /\ results' = results /\ cached' = cached
  BY DEF LookUp, InParse
<1>2. PICK n : n = results[Key(r, token_cur)]
  OBVIOUS
<1>3. n = Failed \/ n.tok \in Pool
  <2>1. Entry(Key(r, token_cur), results[Key(r, token_cur)])
    BY <1>1 DEF LexInv, AsOnToken
  <2> QED BY <1>2, <2>1 DEF Entry
<1>4. pc' \in {"parse", "undefined"} /\ token_cur' \in Pool \ {token_head}
  BY <1>1, <1>2, <1>3, SeekStays
<1> QED BY <1>1, <1>4, LexRun

\* The token the parser stands on, and what its id says of it.
LEMMA StandsAt ==
    ASSUME LexInv, pc = "parse"
    PROVE  /\ Addressed /\ token_cur \in Pool /\ token_cur \in DOMAIN tokens
           /\ ~Uncut(token_cur) /\ tokens[token_cur].id \in Int
           /\ tokens[token_cur].id \notin tailIds =>
                 /\ tokens[token_cur].id + 3 = token_cur /\ token_cur \in 3 .. Size
                 /\ tokens[token_cur] \in Token /\ tokens[token_cur].length > 0
<1>1. /\ Addressed /\ token_cur \in Pool /\ token_cur \in DOMAIN tokens /\ token_cur # token_head
      /\ tokens[token_tail].id \in tailIds
  BY DEF LexInv, Core, Anchored, Anchor, Running, Pool
<1>2. token_cur = token_tail \/ token_cur \in 3 .. Size
  BY <1>1 DEF Addressed, token_head, token_tail
<1>3. tokens[token_cur].id \in Int
  BY <1>1 DEF Addressed, Token
<1>4. ASSUME tokens[token_cur].id \notin tailIds
      PROVE  /\ tokens[token_cur].id + 3 = token_cur /\ token_cur \in 3 .. Size
             /\ tokens[token_cur] \in Token /\ tokens[token_cur].length > 0
  <2>1. token_cur \in 3 .. Size
    BY <1>1, <1>2, <1>4
  <2>2. token_cur >= 3 /\ token_cur \in Int
    BY <1>1, <2>1 DEF Addressed
  <2>3. /\ tokens[token_cur].id = token_cur - 3
        /\ tokens[token_cur] \in Token /\ tokens[token_cur].length > 0
    BY <1>1, <2>2 DEF Addressed
  <2> QED BY <2>1, <2>2, <2>3
<1>5. ~Uncut(token_cur)
  BY DEF Uncut
<1> QED BY <1>1, <1>3, <1>4, <1>5

\* What is found at the token the parser stands on is an entry of the cache.
LEMMA Found ==
    ASSUME LexInv, pc = "parse", NEW r \in Rules, NEW v, v = Failed \/ v.tok \in Pool,
           (r \notin Contextual /\ tokens[token_cur].id \notin tailIds) => v = OnToken(r, token_cur)
    PROVE  Entry(Key(r, token_cur), v)
<1> DEFINE k == Key(r, token_cur)
<1>1. /\ ~Uncut(token_cur) /\ tokens[token_cur].id \in Int
      /\ tokens[token_cur].id \notin tailIds => tokens[token_cur].id + 3 = token_cur /\ token_cur \in 3 .. Size
  BY StandsAt
<1>2. k[1] = r /\ k[2] = tokens[token_cur].id /\ k \in Rules \X Int
  BY <1>1 DEF Key
<1> HIDE DEF k
<1>3. k[2] \notin tailIds => /\ k[2] + 3 \in 3 .. Size /\ ~Uncut(k[2] + 3)
                             /\ k[1] \notin Contextual => v = OnToken(k[1], k[2] + 3)
  BY <1>1, <1>2
<1> QED BY <1>2, <1>3 DEF Entry, k

\* A literal at the token the parser stands on.
LEMMA LiteralFound ==
    ASSUME LexInv, pc = "parse", NEW r \in Rules, NEW l, l = LiteralOf(r)
    PROVE  LET v == MatchesToken(l, token_cur) IN
           /\ v = Failed \/ v.tok \in Pool
           /\ tokens[token_cur].id \notin tailIds => v = OnToken(r, token_cur)
<1>1. MatchesToken(l, token_cur) = Failed \/ MatchesToken(l, token_cur).tok \in Pool
  BY StandsAt DEF MatchesToken, Matched
<1>2. ASSUME tokens[token_cur].id \notin tailIds PROVE MatchesToken(l, token_cur) = OnToken(r, token_cur)
  <2>1. tokens[token_cur] \in Token /\ tokens[token_cur].length > 0
    BY <1>2, StandsAt
  <2> QED BY <2>1, TokenMatch
<1> QED BY <1>1, <1>2

\* A rule that is not in the cache is run at the token the parser stands on.
LEMMA LexEvaluate ==
    ASSUME LexInv, NEW r \in RootUses, NEW refused \in Refusals, Evaluate(r, refused)
    PROVE  LexInv'
<1> DEFINE l == LiteralOf(r)
           lit == IF Key(l, token_cur) \in DOMAIN results THEN results[Key(l, token_cur)]
                  ELSE MatchesToken(l, token_cur)
           out == Outcome(r, token_cur, lit, lit = Failed \/ r \in refused)
           one == [k \in {Key(r, token_cur)} |-> MatchesToken(r, token_cur)]
<1>1. /\ InParse /\ pc = "parse" /\ cached' = cached \cup {<<tokens[token_cur].id, token_cur>>}
      /\ SeekPast(results'[Key(r, token_cur)])
  BY DEF Evaluate, InParse
<1>2. r \in Rules /\ l \in Rules /\ LiteralOf(l) = l
  BY LexAssumption, LiteralRules DEF Rules
<1>3. \/ r \in DOMAIN Literals /\ l = r /\ results' = Store(results, one)
      \/ r \in DOMAIN Productions /\ l = Productions[r].lit /\ results' = Store(results, out)
  <2>1. CASE r \in DOMAIN Literals
    BY <2>1, LiteralRules DEF Evaluate
  <2>2. CASE r \notin DOMAIN Literals
    <3>1. r \in DOMAIN Productions /\ l = Productions[r].lit
      BY <1>2, <2>2, LiteralRules DEF Rules
    <3>2. results' = Store(results, out)
      BY <2>2, <3>1 DEF Evaluate
    <3> QED BY <3>1, <3>2
  <2> QED BY <2>1, <2>2
<1>4. /\ lit = Failed \/ lit.tok \in Pool
      /\ (r \notin Contextual /\ tokens[token_cur].id \notin tailIds) => lit = OnToken(r, token_cur)
      /\ (l \notin Contextual /\ tokens[token_cur].id \notin tailIds) => lit = OnToken(l, token_cur)
  <2>1. OnToken(l, token_cur) = OnToken(r, token_cur) /\ (r \in Contextual <=> l \in Contextual)
    <3>1. OnToken(l, token_cur) = OnToken(r, token_cur)
      BY <1>2 DEF OnToken
    <3> QED BY <1>2, <3>1, ContextOfLiteral
  <2>2. CASE Key(l, token_cur) \notin DOMAIN results
    <3>1. lit = MatchesToken(l, token_cur)
      BY <2>2
    <3>2. /\ MatchesToken(l, token_cur) = Failed \/ MatchesToken(l, token_cur).tok \in Pool
          /\ tokens[token_cur].id \notin tailIds => MatchesToken(l, token_cur) = OnToken(r, token_cur)
      BY <1>1, <1>2, LiteralFound
    <3> QED BY <2>1, <3>1, <3>2
  <2>3. CASE Key(l, token_cur) \in DOMAIN results
    <3>1. PICK k : k = Key(l, token_cur)
      OBVIOUS
    <3>2. lit = results[k] /\ k \in DOMAIN results /\ k[1] = l /\ k[2] = tokens[token_cur].id
      BY <2>3, <3>1 DEF Key
    <3>3. Entry(k, results[k])
      BY <3>2 DEF LexInv, AsOnToken
    <3>4. lit = Failed \/ lit.tok \in Pool
      BY <3>2, <3>3 DEF Entry
    <3>5. ASSUME l \notin Contextual, k[2] \notin tailIds
          PROVE  lit = OnToken(l, token_cur)
      <4>1. k[2] + 3 = token_cur
        BY <1>1, <3>2, <3>5, StandsAt
      <4>2. results[k] = OnToken(k[1], k[2] + 3)
        BY <3>2, <3>3, <3>5 DEF Entry
      <4> QED BY <3>2, <4>1, <4>2
    <3> HIDE DEF lit, l
    <3>6. (l \notin Contextual /\ tokens[token_cur].id \notin tailIds) => lit = OnToken(l, token_cur)
      BY <3>2, <3>5
    <3>7. (r \notin Contextual /\ tokens[token_cur].id \notin tailIds) => lit = OnToken(r, token_cur)
      BY <2>1, <3>6, Zenon
    <3> QED BY <3>4, <3>6, <3>7
  <2> QED BY <2>2, <2>3
<1>5. PICK w : w = lit
  OBVIOUS
<1>6. PICK n : n = MatchesToken(r, token_cur)
  OBVIOUS
<1>7. \A k \in DOMAIN results' : \A v : v = results'[k] =>
          (k \in DOMAIN results /\ v = results[k]) \/ Entry(k, v)
  <2> SUFFICES ASSUME NEW k \in DOMAIN results', NEW v, v = results'[k]
               PROVE  (k \in DOMAIN results /\ v = results[k]) \/ Entry(k, v)
    OBVIOUS
  <2>1. CASE r \in DOMAIN Literals /\ l = r /\ results' = Store(results, one)
    <3>1. (k \in DOMAIN results /\ v = results[k]) \/ (k = Key(r, token_cur) /\ v = n)
      BY <1>6, <2>1 DEF Store
    <3>2. /\ n = Failed \/ n.tok \in Pool
          /\ tokens[token_cur].id \notin tailIds => n = OnToken(r, token_cur)
      BY <1>1, <1>2, <1>6, <2>1, LiteralFound
    <3>3. Entry(Key(r, token_cur), n)
      BY <1>1, <1>2, <3>2, Found
    <3> QED BY <3>1, <3>3
  <2>2. CASE r \in DOMAIN Productions /\ l = Productions[r].lit /\ results' = Store(results, out)
    <3>1. \/ k \in DOMAIN results /\ v = results[k]
          \/ k \in {Key(l, token_cur), Key(r, token_cur)}
             /\ v = IF k[1] = r /\ (w = Failed \/ r \in refused) THEN Failed ELSE w
      <4> DEFINE both == {Key(l, token_cur), Key(r, token_cur)}
      <4>1. out = [j \in both |-> IF j[1] = r /\ (w = Failed \/ r \in refused) THEN Failed ELSE w]
        BY <1>5, <2>2 DEF Outcome
      <4> HIDE DEF out, both
      <4>2. \/ k \in DOMAIN results /\ v = results[k]
            \/ k \in both /\ v = out[k]
        BY <2>2, <4>1 DEF Store
      <4>3. k \in both => out[k] = IF k[1] = r /\ (w = Failed \/ r \in refused) THEN Failed ELSE w
        BY <4>1
      <4> QED BY <4>2, <4>3 DEF both
    <3>2. v = Failed \/ v = w \/ (k \in DOMAIN results /\ v = results[k])
      BY <3>1
    <3>3. r \notin Contextual => r \notin refused
      BY <2>2, ContextOfLiteral
    <3>4. Key(l, token_cur)[1] = l /\ Key(r, token_cur)[1] = r
      BY DEF Key
    <3> HIDE DEF l, lit, out
    <3>5. Entry(Key(l, token_cur), w)
      BY <1>1, <1>2, <1>4, <1>5, Found
    <3>6. ASSUME NEW u, u = IF w = Failed \/ r \in refused THEN Failed ELSE w
          PROVE  Entry(Key(r, token_cur), u)
      <4>1. u = Failed \/ u.tok \in Pool
        BY <1>4, <1>5, <3>6
      <4>2. (r \notin Contextual /\ tokens[token_cur].id \notin tailIds) => u = OnToken(r, token_cur)
        BY <1>4, <1>5, <3>3, <3>6
      <4> QED BY <1>1, <1>2, <4>1, <4>2, Found
    <3>7. l # r
      BY <1>2, <2>2, LexAssumption DEF l
    <3> QED BY <3>1, <3>4, <3>5, <3>6, <3>7
  <2> QED BY <1>3, <2>1, <2>2
<1>8. Key(r, token_cur) \in DOMAIN results' /\ \A v : v = results'[Key(r, token_cur)] => v = Failed \/ v.tok \in Pool
  <2>1. Key(r, token_cur) \in DOMAIN results'
    BY <1>3 DEF Store, Outcome
  <2>2. ASSUME NEW k, k = Key(r, token_cur), NEW v, v = results'[k] PROVE v = Failed \/ v.tok \in Pool
    <3>1. (k \in DOMAIN results /\ v = results[k]) \/ Entry(k, v)
      BY <1>7, <2>1, <2>2
    <3>2. k \in DOMAIN results /\ v = results[k] => Entry(k, v)
      BY DEF LexInv, AsOnToken
    <3> QED BY <3>1, <3>2 DEF Entry
  <2> QED BY <2>1, <2>2
<1>9. pc' \in {"parse", "undefined"} /\ token_cur' \in Pool \ {token_head}
  <2>1. PICK v : v = results'[Key(r, token_cur)]
    OBVIOUS
  <2> QED BY <1>1, <1>8, <2>1, SeekStays
<1> HIDE DEF l, lit, out, one
<1> QED BY <1>1, <1>7, <1>9, LexRun

\* A rule that fails goes back, the root rule returns.
LEMMA LexMoves ==
    ASSUME LexInv, (\E t \in Pool : GoBack(t)) \/ RootReturns
    PROVE  LexInv'
<1>1. InParse /\ pc = "parse" /\ results' = results /\ cached' = cached /\ pc' \in {"parse", "idle"}
  BY DEF GoBack, RootReturns, InParse
<1>2. /\ token_cur \in Pool \ {token_head} /\ start \in 3 .. Size
      /\ Addressed /\ OffHead /\ Size \in Nat /\ Size >= 2 /\ Pool = 1 .. Size
  BY <1>1 DEF LexInv, Core, Anchored, Anchor, Running, Addressed
<1>3. start \in Pool \ {token_head}
  BY <1>2 DEF token_head
<1>4. token_cur' \in Pool \ {token_head}
  <2>1. ASSUME NEW t \in Pool, GoBack(t) PROVE t # token_head /\ token_cur' = t
    <3>1. PICK C : C = DOMAIN tokens \ {token_head}
      OBVIOUS
    <3>2. start \in C /\ Null \notin C /\ \A a \in C : tokens[a].next \in C \cup {Null}
      <4>1. Null \notin C
        BY <1>2, <3>1 DEF Pool, Null, local_head, local_tail
      <4>2. start \in C
        BY <1>3, <3>1 DEF Pool
      <4>3. \A a \in C : tokens[a].next \in C \cup {Null}
        BY <1>2, <3>1 DEF Addressed, OffHead
      <4> QED BY <4>1, <4>2, <4>3
    <3>3. Range(After(start)) \subseteq C
      BY <1>2, <3>2, AfterIn
    <3>4. t \in Range(After(start)) /\ token_cur' = t
      BY <2>1 DEF GoBack, Passed
    <3> QED BY <3>1, <3>3, <3>4
  <2>2. CASE RootReturns
    BY <1>2, <1>3, <2>2 DEF RootReturns
  <2> QED BY <2>1, <2>2
<1> QED BY <1>1, <1>4, LexRun

\* Nothing changes.
LEMMA LexStutter == ASSUME LexInv, UNCHANGED lexVars PROVE LexInv'
<1>1. /\ UNCHANGED <<tokens, ntokens, token_cur, text, pc, reset, start, end, status, kept, rounds, cached, parses>>
      /\ UNCHANGED <<strings, results, tailIds>> /\ UNCHANGED vars
  BY DEF lexVars, vars
<1>2. Core /\ OffHead /\ Numbered /\ Running /\ AsOnToken /\ Addressed
  BY DEF LexInv, Core
<1>3. Core' /\ Addressed' /\ Pool' = Pool /\ Size' = Size /\ Size \in Nat
  BY <1>1, <1>2, StutterCore DEF Core, Pool, Size, local_head, local_tail, Addressed
<1>4. OffHead' /\ Numbered' /\ Running'
  BY <1>1, <1>2, <1>3 DEF OffHead, Numbered, Running, token_head, token_tail
<1>5. PICK L \in SUBSET Pool : Rooted(L)
  BY DEF LexInv
<1>6. L \in SUBSET Pool' /\ Rooted(L)'
  BY <1>1, <1>3, <1>5 DEF Rooted, token_head, Null
<1>7. CutStay
  BY <1>1, <1>3 DEF CutStay, Uncut
<1>8. AsOnToken'
  BY <1>1, <1>2, <1>3, <1>7, SameEntries
<1> QED BY <1>3, <1>4, <1>6, <1>8 DEF LexInv

\* The invariant of Lexing holds in every state.
LEMMA LexInvariant == LexSpec => []LexInv
<1>1. LexInv /\ [LexNext]_lexVars => LexInv'
  <2> SUFFICES ASSUME LexInv, [LexNext]_lexVars PROVE LexInv'
    OBVIOUS
  <2>1. CASE ParserSteps
    BY <2>1, LexParse, LexReturns, LexLeft, LexLink DEF ParserSteps
  <2>2. ASSUME NEW refused \in Refusals, Lex(refused) PROVE LexInv'
    BY <2>2, LexRound
  <2>3. ASSUME NEW r \in RootUses, LookUp(r) PROVE LexInv'
    BY <2>3, LexLookUp
  <2>4. ASSUME NEW r \in RootUses, NEW refused \in Refusals, Evaluate(r, refused) PROVE LexInv'
    BY <2>4, LexEvaluate
  <2>5. CASE (\E t \in Pool : GoBack(t)) \/ RootReturns
    BY <2>5, LexMoves
  <2>6. CASE UNCHANGED lexVars
    BY <2>6, LexStutter
  <2> QED BY <2>1, <2>2, <2>3, <2>4, <2>5, <2>6 DEF LexNext
<1> QED BY <1>1, LexInitInv, PTL DEF LexSpec

\* What Rule_check finds in the cache for a token of the list, whenever it was
\* stored and for whichever string, is what it would find without it, unless the
\* tail has had the id of the token.
THEOREM CacheIsAsOnToken == LexSpec => []CachedAsOnToken
<1>1. LexInv => CachedAsOnToken
  <2> SUFFICES ASSUME LexInv, NEW k \in DOMAIN results,
                      NEW a \in Range(After(token_head)) \ {token_head, token_tail},
                      k[2] = tokens[a].id, k[2] \notin tailIds, k[1] \notin Contextual
               PROVE  results[k] = OnToken(k[1], a)
    BY DEF CachedAsOnToken
  <2>1. PICK L \in SUBSET Pool : Rooted(L)
    BY DEF LexInv
  <2>2. Addressed /\ Size \in Nat /\ Pool = 1 .. Size
    BY DEF LexInv, Core, Addressed
  <2>3. Range(After(token_head)) \subseteq L
    <3>1. token_head \in L /\ \A b \in L : tokens[b].next \in L \cup {Null}
      BY <2>1 DEF Rooted
    <3>2. Null \notin L
      BY <2>1, <2>2 DEF Null
    <3> QED BY <2>2, <3>1, <3>2, AfterIn
  <2>4. a \in 3 .. Size /\ a \in DOMAIN tokens
    <3>1. a \in Pool /\ a # token_head /\ a # token_tail
      BY <2>1, <2>3
    <3> QED BY <2>2, <3>1 DEF Pool, token_head, token_tail
  <2>5. tokens[a].id = a - 3 /\ a \in Nat
    BY <2>2, <2>4 DEF Addressed
  <2>6. k[2] + 3 = a
    BY <2>5
  <2>7. Entry(k, results[k])
    BY DEF LexInv, AsOnToken
  <2> QED BY <2>6, <2>7 DEF Entry
<1> QED BY <1>1, LexInvariant, PTL

\* Wherever the root rule goes, with the cache or without it, the tokens of each
\* string cover it, know their place in it, are made in as many rounds as there
\* are characters at most, and are kept apart in the cache.
THEOREM LexingKeepsTokens == LexSpec => [](NoCharLost /\ CoordsFollowText /\ OneRoundPerChar /\ ResultsKeptApart)
<1>1. LexInv => NoCharLost /\ CoordsFollowText /\ OneRoundPerChar /\ ResultsKeptApart
  BY CoreApart DEF LexInv, Core, Rounds, OneRoundPerChar
<1> QED BY <1>1, LexInvariant, PTL
=============================================================================
