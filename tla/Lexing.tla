-------------------------------- MODULE Lexing --------------------------------
(***************************************************************************)
(* The token list and the cache of the engine together, over one or more    *)
(* strings on one parser: what Rule_check stored for a token while the rest *)
(* of the string still hung on it (src/parser.c, Parser_tokenize) is what   *)
(* it answers with when that token has been cut and the root rule is run    *)
(* (src/rule.c, Rule_check, LiteralRule_check_rule_).                       *)
(*                                                                          *)
(* A literal is the set of the strings it matches, the token rule a choice  *)
(* of productions over literals.  The root rule may try any rule wherever   *)
(* it stands and go back to any token it came by: RuleEngine says when.     *)
(***************************************************************************)
EXTENDS TokenStream, Functions

CONSTANTS
    Literals,    \* a function from the literals to their strings
    Productions, \* a function from the productions to [lit, skip, picky]
    TokenRule,   \* the sequence of the productions the token rule tries
    RootUses     \* the rules the root rule may try

ASSUME LexAssumption ==
    /\ DOMAIN Literals \cap DOMAIN Productions = {}
    /\ \A p \in DOMAIN Productions :
          Productions[p] \in [lit : DOMAIN Literals, skip : BOOLEAN, picky : BOOLEAN]
    /\ TokenRule \in Seq(DOMAIN Productions) /\ TokenRule # << >>
    /\ RootUses \subseteq DOMAIN Literals \cup DOMAIN Productions

VARIABLES
    strings,  \* the strings parsed so far
    results,  \* the cache: from <<rule, id>> to the length matched and the token
    tailIds   \* history: the ids token_tail has had

lexVars == <<vars, strings, results, tailIds>>

Failed == [len |-> 0, tok |-> Null]

LexInit == Init /\ strings = << >> /\ results = << >> /\ tailIds = {}

-----------------------------------------------------------------------------
(* Literals and productions *)

Characters(tok) == SubSeq(strings[tok.string], tok.off + 1, tok.off + tok.length)

\* How much of the token re_match takes: the longest string of the literal.
MatchLength(l, tok) ==
    LET lengths == {n \in 1 .. tok.length : Characters([tok EXCEPT !.length = n]) \in Literals[l]}
    IN  IF lengths = {} THEN 0 ELSE LastOf(lengths)

Matched(l, a) == [len |-> MatchLength(l, tokens[a]), tok |-> a]

\* Defect: a literal need not match all of a token.
MatchesPrefix(l, a) == IF MatchLength(l, tokens[a]) > 0 THEN Matched(l, a) ELSE Failed

\* LiteralRule_check_rule_ of a cut token: all of it or nothing.
MatchesToken(l, a) ==
    LET m == MatchLength(l, tokens[a]) IN IF m > 0 /\ m = tokens[a].length THEN Matched(l, a) ELSE Failed

LiteralOf(r) == IF r \in DOMAIN Literals THEN r ELSE Productions[r].lit

Key(r, a) == <<r, tokens[a].id>>
Store(old, new) == [k \in DOMAIN old \cup DOMAIN new |-> IF k \in DOMAIN new THEN new[k] ELSE old[k]]

\* What Rule_check of production p stores, given its literal's result and
\* whether its build action refuses.
Outcome(p, a, lit, refused) ==
    [k \in {Key(Productions[p].lit, a), Key(p, a)} |-> IF k[1] = p /\ refused THEN Failed ELSE lit]

-----------------------------------------------------------------------------
(* Tokenizing: the cache is written and not read *)

\* A production is passed over if its literal does not match or its action
\* refuses the node, as c_pp_line_expand does.
Tried(refused) ==
    LET wins(i) == /\ MatchLength(Productions[TokenRule[i]].lit, tokens[token_cur]) > 0
                   /\ TokenRule[i] \notin refused
    IN  {i \in DOMAIN TokenRule : \A j \in 1 .. i - 1 : ~wins(j)}

\* Added are the results of the productions tried up to the one that wins, if
\* one does, and of their literals.
TokenResults(refused) ==
    LET tried     == {TokenRule[i] : i \in Tried(refused)}
        result(r) == IF MatchLength(LiteralOf(r), tokens[token_cur]) = 0 \/ r \in refused THEN Failed
                     ELSE Matched(LiteralOf(r), token_cur)
    IN  Store(results, [k \in {Key(r, token_cur) : r \in tried \cup {LiteralOf(p) : p \in tried}} |-> result(k[1])])

\* One round of Parser_tokenize.
Lex(refused) ==
    /\ pc = "loop" /\ status = 0 /\ tokens[token_cur].length > 0
    /\ results' = TokenResults(refused)
    /\ LET p == TokenRule[LastOf(Tried(refused))]
           n == TokenResults(refused)[Key(p, token_cur)]
       IN  \/ n = Failed /\ TokenFails
           \/ n # Failed /\ Productions[p].skip /\ Parser_skip_token(n.len)
           \/ n # Failed /\ ~Productions[p].skip /\ Parser_add_token(n.len)
    /\ UNCHANGED <<strings, tailIds>>

-----------------------------------------------------------------------------
(* Parsing *)

InParse == pc = "parse" /\ UNCHANGED <<tokens, ntokens, text, reset, start, end, status, kept, rounds,
                                       parses, strings, tailIds>>

\* Parser_seek past a node: a skipped token's own link may lead to a sentinel
\* of a Parser_tokenize that has returned.
SeekPast(n) ==
    IF n = Failed THEN UNCHANGED <<token_cur, pc>>
    ELSE IF tokens[n.tok].next \in Pool THEN token_cur' = tokens[n.tok].next /\ UNCHANGED pc
    ELSE pc' = "undefined" /\ UNCHANGED token_cur

\* Rule_check with a result in the cache.
LookUp(r) ==
    /\ InParse
    /\ Key(r, token_cur) \in DOMAIN results
    /\ SeekPast(results[Key(r, token_cur)])
    /\ UNCHANGED <<results, cached>>

\* Rule_check without: a literal is matched, a production checks its literal,
\* whose result may be cached, and runs its action.
Evaluate(r, refused) ==
    /\ InParse
    /\ Key(r, token_cur) \notin DOMAIN results
    /\ cached' = cached \cup {<<tokens[token_cur].id, token_cur>>}
    /\ IF r \in DOMAIN Literals
       THEN results' = Store(results, [k \in {Key(r, token_cur)} |-> MatchesToken(r, token_cur)])
       ELSE LET l   == Productions[r].lit
                lit == IF Key(l, token_cur) \in DOMAIN results THEN results[Key(l, token_cur)]
                       ELSE MatchesToken(l, token_cur)
            IN  results' = Store(results, Outcome(r, token_cur, lit, lit = Failed \/ r \in refused))
    /\ SeekPast(results'[Key(r, token_cur)])

\* The tokens of the list the root rule may be standing on.
Passed == {t \in Range(After(start)) : token_cur \in Range(After(t))}

\* A rule that fails goes back to the token it started at.
GoBack(t) == InParse /\ t \in Passed \ {token_cur} /\ token_cur' = t /\ UNCHANGED <<pc, results, cached>>

\* The root rule fails at the token it started at or succeeds where it is.
RootReturns ==
    /\ InParse
    /\ pc' = "idle"
    /\ token_cur' \in {start, token_cur}
    /\ UNCHANGED <<results, cached>>

-----------------------------------------------------------------------------
Refusals == SUBSET {p \in DOMAIN Productions : Productions[p].picky}

ParserSteps ==
    \/ \E t \in Texts : Parser_parse(t) /\ strings' = Append(strings, t) /\ UNCHANGED <<results, tailIds>>
    \/ TokenizeReturns /\ UNCHANGED <<strings, results, tailIds>>
    \/ TokenizeFailed /\ UNCHANGED <<strings, results, tailIds>>
    \/ LinkUndefined /\ UNCHANGED <<strings, results, tailIds>>
    \/ Link /\ tailIds' = tailIds \cup {tokens'[token_tail].id} /\ UNCHANGED <<strings, results>>

LexNext ==
    \/ ParserSteps
    \/ \E refused \in Refusals : Lex(refused)
    \/ \E r \in RootUses : LookUp(r)
    \/ \E r \in RootUses, refused \in Refusals : Evaluate(r, refused)
    \/ \E t \in Pool : GoBack(t)
    \/ RootReturns

LexSpec == LexInit /\ [][LexNext]_lexVars

-----------------------------------------------------------------------------
\* Rules whose result depends on more than the characters: a picky production,
\* and all that use the literal under one, which may have matched beyond the
\* token that was cut for another.
Contextual ==
    LET picky == {p \in DOMAIN Productions : Productions[p].picky}
    IN  {r \in DOMAIN Literals \cup DOMAIN Productions : LiteralOf(r) \in {LiteralOf(p) : p \in picky}}

\* What a rule that is not contextual is to find at a token that has been cut.
OnToken(r, a) ==
    IF Characters(tokens[a]) \in Literals[LiteralOf(r)] THEN [len |-> tokens[a].length, tok |-> a] ELSE Failed

\* What the cache holds for a token in the list, stored before or after it was
\* cut and for whichever string: a success, which is the token itself, if its
\* characters are a string of the literal, and a failure if they are not.  The
\* exception is an id the tail has had: results stored at the end of one string
\* are found at the first token of the next (Rule_check, Parser_parse).
CachedAsOnToken ==
    \A k \in DOMAIN results, a \in Range(After(token_head)) \ {token_head, token_tail} :
        (k[2] = tokens[a].id /\ k[2] \notin tailIds /\ k[1] \notin Contextual) =>
            results[k] = OnToken(k[1], a)
==============================================================================
