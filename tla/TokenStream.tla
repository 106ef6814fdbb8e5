---------------------------- MODULE TokenStream ------------------------------
(***************************************************************************)
(* The token list of a parser: Parser_init, Parser_tokenize and the part of *)
(* Parser_parse that links the new tokens in and runs the root rule         *)
(* (src/parser.c, src/token.c), over one or more strings.                   *)
(*                                                                          *)
(* The token pool is a map from addresses to tokens, links are addresses.   *)
(* How much the token rule matches, and how far the root rule gets, is the  *)
(* choice of the environment: RuleEngine is the model of Rule_check.        *)
(***************************************************************************)
EXTENDS Integers, Sequences, FiniteSets

CONSTANTS
    Texts,      \* strings passed to Parser_parse, sequences of characters, "newline" one of them
    MaxParses,  \* bound on the Parser_parse calls on one parser
    SIZE_MAX    \* id of the sentinels, above any id given out

ASSUME TokenAssumption ==
    /\ \A t \in Texts : t \in Seq(STRING)
    /\ MaxParses \in Nat /\ SIZE_MAX \in Nat

Null       == 0
token_head == 1
token_tail == 2
local_head == -1   \* the sentinels of Parser_tokenize are in its stack frame
local_tail == -2
Uninitialised == -3

VARIABLES
    tokens,      \* the tokens by address: the pool, and the two locals
    ntokens,     \* parser->ntokens: the id of the next token
    token_cur,   \* parser->token_cur
    text,        \* the string being parsed
    pc,          \* "idle", "loop", "link", "parse" or "undefined"
    reset,       \* token_cur when Parser_tokenize was entered
    start, end,  \* its output arguments
    status,      \* its result
    kept,        \* history: the tokens of this string that were not skipped
    rounds,      \* history: how often the token rule was applied to this string
    cached,      \* history: <<id, address>> of tokens with cached results
    parses       \* number of Parser_parse calls so far

vars == <<tokens, ntokens, token_cur, text, pc, reset, start, end, status, kept, rounds, cached, parses>>

Pool == DOMAIN tokens \ {local_head, local_tail}
NewAddress == Cardinality(Pool) + 1

Sentinel(id, prev, next) ==
    [string |-> 0, off |-> 0, length |-> 0, id |-> id, coords |-> <<0, 0>>,
     prev |-> prev, next |-> next]

\* Parser_init
Init ==
    /\ tokens = [a \in {token_head, token_tail} |->
                    IF a = token_head THEN Sentinel(0, Null, token_tail)
                    ELSE Sentinel(SIZE_MAX, token_head, Null)]
    /\ ntokens = 0
    /\ token_cur = token_head
    /\ text = << >>
    /\ pc = "idle"
    /\ reset = Null
    /\ start = Null
    /\ end = Null
    /\ status = 0
    /\ kept = << >>
    /\ rounds = 0
    /\ cached = {}
    /\ parses = 0

-----------------------------------------------------------------------------
(* Splitting, inserting and removing *)

NewlinesIn(tok) == {i \in tok.off + 1 .. tok.off + tok.length : text[i] = "newline"}

LastOf(S) == CHOOSE i \in S : \A j \in S : j <= i

\* Defect: the column goes on past a newline.
ColumnGoesOn(tok) == <<tok.coords[1] + Cardinality(NewlinesIn(tok)), tok.coords[2] + tok.length>>

\* Defect: column zero is left as it is.
ColumnFromZero(tok) ==
    LET nl == NewlinesIn(tok)
        col == IF nl = {} THEN tok.coords[2] + tok.length ELSE tok.off + tok.length - LastOf(nl)
    IN  <<tok.coords[1] + Cardinality(nl), col>>

\* Line and column after the last character of a token.
Parser_get_line_col_end(tok) ==
    LET nl == NewlinesIn(tok)
        col == IF nl = {} THEN tok.coords[2] + tok.length ELSE tok.off + tok.length - LastOf(nl)
    IN  <<tok.coords[1] + Cardinality(nl), IF col = 0 THEN 1 ELSE col>>

Token_insert_before(toks, t, n) ==
    LET p == toks[t].prev
    IN  [toks EXCEPT ![p].next = n, ![n].prev = p, ![t].prev = n, ![n].next = t]

\* Defect: the remainder starts where the token does.
RemainderFromStart(cur, m) ==
    LET rest == [tokens[cur] EXCEPT !.length = @ - m, !.id = ntokens, !.coords =
                    Parser_get_line_col_end([tokens[cur] EXCEPT !.length = m])]
    IN  [a \in DOMAIN tokens \cup {NewAddress} |->
            IF a = NewAddress THEN rest
            ELSE IF a = cur THEN [tokens[cur] EXCEPT !.length = m] ELSE tokens[a]]

\* Defect: the remainder keeps the id of the token it was cut from.
RemainderSameId(cur, m) ==
    LET cut  == [tokens[cur] EXCEPT !.length = m]
        rest == [tokens[cur] EXCEPT !.off = @ + m, !.length = @ - m,
                                    !.coords = Parser_get_line_col_end(cut)]
    IN  [a \in DOMAIN tokens \cup {NewAddress} |->
            IF a = NewAddress THEN rest ELSE IF a = cur THEN cut ELSE tokens[a]]

\* cur cut to m characters and, not linked yet, the token of what is left.
Remainder(cur, m) ==
    LET cut  == [tokens[cur] EXCEPT !.length = m]
        rest == [tokens[cur] EXCEPT !.off = @ + m, !.length = @ - m, !.id = ntokens,
                                    !.coords = Parser_get_line_col_end(cut)]
    IN  [a \in DOMAIN tokens \cup {NewAddress} |->
            IF a = NewAddress THEN rest ELSE IF a = cur THEN cut ELSE tokens[a]]

\* Parser_generate_new_token: cur keeps m characters, a new token takes the rest.
Parser_generate_new_token(cur, m) ==
    IF m = tokens[cur].length THEN tokens
    ELSE Token_insert_before(Remainder(cur, m), tokens[cur].next, NewAddress)

\* Defect: the token after the skipped one still points back to it.
UnlinkForward(toks, t) == [toks EXCEPT ![toks[t].prev].next = toks[t].next]

\* Defect: the skipped token stays in the list.
UnlinkNothing(toks, t) == toks

\* Parser_skip_token takes the token out; the token keeps its own links.
Unlink(toks, t) ==
    [toks EXCEPT ![toks[t].prev].next = toks[t].next, ![toks[t].next].prev = toks[t].prev]

-----------------------------------------------------------------------------
(* Parser_tokenize *)

\* One token over the whole string between the local sentinels.
Parser_parse(t) ==
    /\ pc = "idle"
    /\ parses < MaxParses
    /\ parses' = parses + 1
    /\ text' = t
    /\ kept' = << >>
    /\ rounds' = 0
    /\ status' = 0
    /\ reset' = token_cur
    /\ start' = Uninitialised
    /\ end' = Uninitialised
    /\ UNCHANGED cached
    /\ IF t = << >>
       THEN pc' = "link" /\ UNCHANGED <<tokens, ntokens, token_cur>>
       ELSE /\ pc' = "loop"
            /\ token_cur' = NewAddress
            /\ ntokens' = ntokens + 1
            /\ tokens' = [a \in Pool \cup {NewAddress, local_head, local_tail} |->
                    CASE a = local_head -> Sentinel(SIZE_MAX, Null, NewAddress)
                      [] a = local_tail -> Sentinel(SIZE_MAX, NewAddress, Null)
                      [] a = NewAddress ->
                            [string |-> parses + 1, off |-> 0, length |-> Len(t),
                             id |-> ntokens, coords |-> <<1, 1>>,
                             prev |-> local_head, next |-> local_tail]
                      [] OTHER -> tokens[a]]

\* The loop calls Rule_check of the token rule, which caches its result for the
\* token it started at.  A token rule is built of choices and literals (README:
\* special productions), so what it matches is never empty: m >= 1 below.
Tokenizing ==
    /\ pc = "loop"
    /\ status = 0
    /\ tokens[token_cur].length > 0
    /\ rounds' = rounds + 1
    /\ cached' = cached \cup {<<tokens[token_cur].id, token_cur>>}
    /\ UNCHANGED <<text, pc, reset, start, end, parses>>

Split(m) ==
    /\ m \in 1 .. tokens[token_cur].length
    /\ ntokens' = IF m = tokens[token_cur].length THEN ntokens ELSE ntokens + 1
    /\ UNCHANGED status

\* token_action on a node of m characters.
Parser_add_token(m) ==
    /\ Tokenizing
    /\ Split(m)
    /\ tokens' = Parser_generate_new_token(token_cur, m)
    /\ token_cur' = tokens'[token_cur].next
    /\ kept' = Append(kept, token_cur)

\* Defect: the parser is not moved past the skipped token.
SkipInPlace(m) ==
    /\ Tokenizing
    /\ Split(m)
    /\ tokens' = Unlink(Parser_generate_new_token(token_cur, m), token_cur)
    /\ UNCHANGED <<token_cur, kept>>

\* token_action on a skip node of m characters.
Parser_skip_token(m) ==
    /\ Tokenizing
    /\ Split(m)
    /\ tokens' = Unlink(Parser_generate_new_token(token_cur, m), token_cur)
    /\ token_cur' = tokens'[token_cur].next
    /\ UNCHANGED kept

\* The token rule fails, or its node is the fail node.
TokenFails ==
    /\ Tokenizing
    /\ status' = 1
    /\ UNCHANGED <<tokens, ntokens, token_cur, kept>>

\* Defect: the empty token the loop stopped at is not stepped back from.
LastIsCurrent == token_cur

\* cur = cur->prev
LastToken == tokens[token_cur].prev

\* The end of Parser_tokenize: the list is cut from the local sentinels.
TokenizeReturns ==
    /\ pc = "loop"
    /\ status = 1 \/ tokens[token_cur].length = 0
    /\ LET first == tokens[local_head].next IN
        /\ tokens' = [tokens EXCEPT ![first].prev = Null, ![LastToken].next = Null]
        /\ start' = first
        /\ end' = LastToken
    /\ token_cur' = reset
    /\ pc' = "link"
    /\ UNCHANGED <<ntokens, text, reset, status, kept, rounds, cached, parses>>

-----------------------------------------------------------------------------
(* Parser_parse after Parser_tokenize *)

MaxId(a, b) == IF a > b THEN a ELSE b

\* Defect: the tail takes the id of the last token.
TailIdOfLast(toks) == MaxId(toks[toks[token_tail].prev].id, toks[end].id)

\* The id the tail is given once the new tokens are linked in.
TailId(toks) == MaxId(toks[toks[token_tail].prev].id, toks[end].id) + 1

TokenizeFailed ==
    /\ pc = "link"
    /\ status = 1
    /\ pc' = "idle"
    /\ UNCHANGED <<tokens, ntokens, token_cur, text, reset, start, end, status, kept, rounds, cached, parses>>

\* start and end are dead locals or were never set, or there is nothing after
\* the current token: a pointer is dereferenced that points to no token.
LinkUndefined ==
    /\ pc = "link"
    /\ status = 0
    /\ start \notin Pool \/ end \notin Pool \/ tokens[token_cur].next = Null
    /\ pc' = "undefined"
    /\ UNCHANGED <<tokens, ntokens, token_cur, text, reset, start, end, status, kept, rounds, cached, parses>>

\* The new tokens go in after the current one, the first becomes current.
Link ==
    /\ pc = "link"
    /\ status = 0
    /\ {start, end} \subseteq Pool
    /\ tokens[token_cur].next # Null
    /\ LET n == tokens[token_cur].next
           linked == [tokens EXCEPT ![end].next = n, ![n].prev = end,
                                    ![token_cur].next = start, ![start].prev = token_cur]
       IN  tokens' = [linked EXCEPT ![token_tail].id = TailId(linked)]
    /\ token_cur' = start
    /\ pc' = "parse"
    /\ UNCHANGED <<ntokens, text, reset, start, end, status, kept, rounds, cached, parses>>

\* The tokens after t, t included, following the next links to the end.
After(t) ==
    LET walk[i \in 0 .. Cardinality(Pool)] ==
            IF i = 0 THEN t
            ELSE IF walk[i - 1] = Null THEN Null ELSE tokens[walk[i - 1]].next
    IN  [i \in 1 .. Cardinality({j \in DOMAIN walk : walk[j] # Null}) |-> walk[i - 1]]

\* Rule_check of the root rule: it looks at the first k tokens and consumes c
\* of them; a failure consumes none.
RootRule(k, c) ==
    /\ pc = "parse"
    /\ k \in 1 .. Len(After(token_cur))
    /\ c \in 0 .. k - 1
    /\ cached' = cached \cup {<<tokens[After(token_cur)[i]].id, After(token_cur)[i]>> : i \in 1 .. k}
    /\ token_cur' = After(token_cur)[c + 1]
    /\ pc' = "idle"
    /\ UNCHANGED <<tokens, ntokens, text, reset, start, end, status, kept, rounds, parses>>

Next ==
    \/ \E t \in Texts : Parser_parse(t)
    \/ \E m \in 1 .. Len(text) : Parser_add_token(m)
    \/ \E m \in 1 .. Len(text) : Parser_skip_token(m)
    \/ TokenFails
    \/ TokenizeReturns
    \/ TokenizeFailed
    \/ LinkUndefined
    \/ Link
    \/ \E k \in 1 .. Cardinality(Pool), c \in 0 .. Cardinality(Pool) : RootRule(k, c)

Spec == Init /\ [][Next]_vars

-----------------------------------------------------------------------------
(* Properties *)

Links(t) == {t.prev, t.next} \subseteq DOMAIN tokens \cup {Null}

\* Every link leads to a token; the lines and columns of a text count from one.
TypeOK ==
    /\ \A a \in DOMAIN tokens :
          /\ Links(tokens[a])
          /\ tokens[a].length \in Nat
          /\ tokens[a].coords \in Nat \X Nat
          /\ tokens[a].string # 0 => 0 \notin {tokens[a].coords[1], tokens[a].coords[2]}
    /\ token_cur \in DOMAIN tokens
    /\ pc \in {"idle", "loop", "link", "parse", "undefined"}
    /\ status \in {0, 1}
    /\ cached \subseteq (Nat \X Pool)

\* The tokens made of this string, in the order they were made.
Mine == {a \in Pool : parses > 0 /\ tokens[a].string = parses}

\* Kept, skipped or still to be looked at, the tokens of the string cover it
\* without gap or overlap, in the order of their ids (Parser_generate_new_token).
NoCharLost ==
    \A a \in Mine :
        /\ tokens[a].length > 0
        /\ a - 1 \in Mine => /\ tokens[a].off = tokens[a - 1].off + tokens[a - 1].length
                             /\ tokens[a].id = tokens[a - 1].id + 1
        /\ a - 1 \notin Mine => tokens[a].off = 0
        /\ a + 1 \notin Mine => tokens[a].off + tokens[a].length = Len(text)

\* prev undoes next on the list from the head, through every insertion and
\* removal: the rules step back with prev to close a node.
LinksMirror ==
    LET list == After(token_head) IN
    /\ list[Len(list)] = token_tail
    /\ \A i \in 1 .. Len(list) - 1 : tokens[list[i + 1]].prev = list[i]

\* What the root rule is run on is the kept tokens in order and then the tail,
\* on a parser that has parsed nothing before (Parser_parse).
StreamIsString ==
    (pc = "parse" /\ parses = 1) => After(token_cur) = Append(kept, token_tail)

\* Ids rise along the list up to the tail, so that "furthest failure" means
\* furthest in the text and the cache rows follow it (Parser_fail, TailId).
IdsRise ==
    (pc = "parse" /\ parses = 1) =>
        \A i \in 1 .. Len(After(token_cur)) - 1 :
            tokens[After(token_cur)[i]].id < tokens[After(token_cur)[i + 1]].id

NewlinesBelow(o) == {i \in 1 .. o : text[i] = "newline"}

\* The line that the character after the first o is on starts after the first bol.
StartsLine(bol, o) ==
    /\ bol \in 0 .. o
    /\ bol # 0 => text[bol] = "newline"
    /\ \A i \in bol + 1 .. o : text[i] # "newline"

\* The column of that character, starts being where tokens start.
Column(col, o, starts) ==
    \E bol \in 0 .. o : StartsLine(bol, o) /\ col = o - bol + IF bol \in starts THEN 1 ELSE 0

\* The coordinates of a token are those of its first character, however the text
\* before it was cut, but for one thing: columns count from 1 on a line whose first
\* character starts a token, and from 0 on a line whose first character is inside
\* one (Parser_get_line_col_end, Parser_generate_new_token).
CoordsFollowText ==
    \A a \in Mine :
        LET off == tokens[a].off IN
        /\ \A b \in Mine : b < a => tokens[b].off < off
        /\ tokens[a].coords[1] = 1 + Cardinality(NewlinesBelow(off))
        /\ Column(tokens[a].coords[2], off, {tokens[b].off : b \in Mine})

\* A first string that has any token in it is parsed without touching memory
\* that holds no token.
FirstStringSafe == (parses = 1 /\ kept # << >>) => pc # "undefined"

\* An id under which results are cached stands for one token, of this string or
\* an earlier one, skipped or kept.  The tail is the exception: its id is made
\* up by Parser_parse and may be that of a token skipped after the last one, or
\* of the first token of the next string (parser.h, ntokens).
ResultsKeptApart ==
    \A p, q \in cached : p[1] = q[1] => p[2] = q[2] \/ token_tail \in {p[2], q[2]}

\* Tokenization ends whatever the token rule does: each round takes at least
\* one character off what is left, kept or skipped, and the token the next
\* round starts from is the one that holds the rest (Parser_skip_token).
OneRoundPerChar == rounds <= Len(text)

-----------------------------------------------------------------------------
(* What the documentation says, without the conditions under which it holds *)

\* parser.c, Parser_tokenize: "A linked list starting from "start" to "end"
\* (inclusive) is created", "returns 0 on success, 1 on failure".
SuccessGivesTokens ==
    (pc = "link" /\ status = 0) => {start, end} \subseteq Pool

\* examples/ipv4/ipv4parser.c calls Parser_parse for each argument on one parser.
ParserIsReusable == (parses > 1 /\ kept # << >>) => pc # "undefined"
==============================================================================
