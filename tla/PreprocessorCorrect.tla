------------------------- MODULE PreprocessorCorrect --------------------------
(***************************************************************************)
(* What the preprocessor is to do: macro expansion of the C language on      *)
(* sequences of strings, for macros that do not refer to themselves.         *)
(***************************************************************************)
EXTENDS Preprocessor

LP == <<"(">>   RP == <<")">>   COMMA == <<",">>

\* The position of the parenthesis that closes the one ts begins with, or 0.
RECURSIVE Closing(_, _, _)
Closing(ts, i, depth) ==
    CASE i > Len(ts) -> 0
      [] ts[i] = RP /\ depth = 1 -> i
      [] OTHER -> Closing(ts, i + 1, CASE ts[i] = LP -> depth + 1 [] ts[i] = RP -> depth - 1 [] OTHER -> depth)

\* ts cut at the commas outside of parentheses.
RECURSIVE Cut(_, _, _)
Cut(ts, arg, depth) ==
    IF ts = << >> THEN <<arg>>
    ELSE IF Head(ts) = COMMA /\ depth = 0 THEN <<arg>> \o Cut(Tail(ts), << >>, 0)
    ELSE Cut(Tail(ts), Append(arg, Head(ts)),
             CASE Head(ts) = LP -> depth + 1 [] Head(ts) = RP -> depth - 1 [] OTHER -> depth)

ArgumentsOf(ts) == LET inner == SubSeq(ts, 2, Closing(ts, 1, 0) - 1)
                   IN  IF inner = << >> THEN << >> ELSE Cut(inner, << >>, 0)

\* A parenthesis is opened after the name of a macro with parameters, and not closed.
Unclosed(defs, ts) ==
    Head(ts) \in DOMAIN defs /\ defs[Head(ts)].fn /\ Len(ts) > 1 /\ ts[2] = LP /\ Closing(Tail(ts), 1, 0) = 0

\* The invocation of a macro with parameters that ts begins with is complete.
Invokes(m, ts) ==
    m.fn => /\ Len(ts) > 1 /\ ts[2] = LP /\ Closing(Tail(ts), 1, 0) > 0
            /\ LET n == Len(ArgumentsOf(Tail(ts)))
               IN  IF m.va THEN n >= Len(m.params) ELSE n = Len(m.params)

Quote(ts) == LET join(a, b) == a \o <<" ">> \o b
             IN  <<"q">> \o FoldLeft(join, Head(ts), Tail(ts)) \o <<"q">>

\* The replacement list with the parameters replaced: by arguments as they are
\* after # and around ##, by their expansions elsewhere.
RECURSIVE Replaced(_, _, _, _)
Replaced(rep, raw, full, out) ==
    IF rep = << >> THEN out
    ELSE LET Value(map, t) == IF t \in DOMAIN map THEN map[t] ELSE <<t>>
             t == Head(rep)
         IN  CASE t = <<"#">>  -> Replaced(SubSeq(rep, 3, Len(rep)), raw, full, Append(out, Quote(Value(raw, rep[2]))))
               [] t = <<"##">> ->
                    LET right == Value(raw, rep[2])
                    IN  Replaced(SubSeq(rep, 3, Len(rep)), raw, full,
                                 Front(out) \o <<Last(out) \o Head(right)>> \o Tail(right))
               [] Len(rep) > 1 /\ rep[2] = <<"##">> -> Replaced(Tail(rep), raw, full, out \o Value(raw, t))
               [] OTHER -> Replaced(Tail(rep), raw, full, out \o Value(full, t))

RECURSIVE Expansion(_, _)
Expansion(defs, ts) ==
    IF ts = << >> THEN << >>
    ELSE LET t == Head(ts) IN
         IF t \notin DOMAIN defs \/ ~Invokes(defs[t], ts) THEN <<t>> \o Expansion(defs, Tail(ts))
         ELSE LET m    == defs[t]
                  args == IF m.fn THEN ArgumentsOf(Tail(ts)) ELSE << >>
                  at(p) == CHOOSE i \in DOMAIN m.params : m.params[i] = p
                  raw  == [p \in Range(m.params) |-> args[at(p)]]
                  full == [p \in Range(m.params) |-> Expansion(defs, args[at(p)])]
                  rest == IF m.fn THEN SubSeq(ts, Closing(Tail(ts), 1, 0) + 2, Len(ts)) ELSE Tail(ts)
              IN  Expansion(defs, Replaced(m.rep, raw, full, << >>) \o rest)

-----------------------------------------------------------------------------
(* Where the code follows it *)

\* Definitions come first, each name once, and nothing else but text follows.
DefinitionsFirst ==
    \E k \in 0 .. Len(text) - 1 :
        /\ \A i \in 1 .. k : text[i][1] = "#" /\ text[i][2] = "define"
        /\ \A i \in k + 1 .. Len(text) : text[i][1] = "text"
        /\ \A i, j \in 1 .. k : i # j => text[i][3] # text[j][3]

HashMarks == {<<"#">>, <<"##">>}

\* The parameters of rep that # or ## takes as they are.
TakenRaw(m) ==
    {p \in Range(m.params) : \E i \in DOMAIN m.rep :
        /\ m.rep[i] = p
        /\ \/ i > 1 /\ m.rep[i - 1] \in HashMarks
           \/ i < Len(m.rep) /\ m.rep[i + 1] = <<"##">>}

\* No use of a macro in ts, within the replacement of the macros of inside, meets
\* what the code does not do: macros that refer to themselves, empty lists and
\* arguments, "...", # and ## anywhere but in the list of a macro with parameters,
\* macros next to those, commas within an argument, a call that is not closed, and the name of a macro with
\* parameters at the end of an expansion, its parenthesis after it.
RECURSIVE Followed(_, _, _)
Followed(defs, ts, inside) ==
    IF ts = << >> THEN TRUE
    ELSE LET t == Head(ts) IN
         IF t \notin DOMAIN defs \/ ~Invokes(defs[t], ts)
         THEN t \notin HashMarks /\ ~Unclosed(defs, ts) /\ Followed(defs, Tail(ts), inside)
         ELSE LET m    == defs[t]
                  args == IF m.fn THEN ArgumentsOf(Tail(ts)) ELSE << >>
                  at(p) == CHOOSE i \in DOMAIN m.params : m.params[i] = p
                  raw  == [p \in Range(m.params) |-> args[at(p)]]
                  full == [p \in Range(m.params) |-> Expansion(defs, args[at(p)])]
                  new  == Replaced(m.rep, raw, full, << >>)
                  rest == IF m.fn THEN SubSeq(ts, Closing(Tail(ts), 1, 0) + 2, Len(ts)) ELSE Tail(ts)
              IN  /\ t \notin inside
                  /\ m.rep # << >>
                  /\ ~m.va
                  /\ m.params = << >> => HashMarks \cap Range(m.rep) = {}
                  /\ \A i \in DOMAIN args : args[i] # << >> /\ Followed(defs, args[i], inside)
                  /\ \A p \in Range(m.params) : COMMA \notin Range(full[p])
                  /\ \A p \in TakenRaw(m) : raw[p] = full[p]
                  /\ Followed(defs, new, inside \cup {t})
                  /\ LET end == Last(Expansion(defs, new)) IN end \in DOMAIN defs => ~defs[end].fn
                  /\ Followed(defs, rest, inside)

\* Once the text is expanded, it is what the rules of C make of it: every macro is
\* replaced, its arguments go where its parameters stood, # and ## are applied,
\* and what comes out is looked at again -- on a list whose links are cut and
\* joined at every step (CPP_preprocess and all it calls, cpp.c).
ExpandsAsC ==
    (pc \in {"done", "undefined", "endless"} /\ DefinitionsFirst /\ Followed(defines, tokens, {}))
        => pc = "done" /\ result = Expansion(defines, tokens)

\* Expansion is complete whatever the text: a list CParser_parse goes on with
\* names no macro without parameters, even where it is not what C would make of
\* the text (the loop of CPP_preprocess that looks at every expansion again).
NoMacroLeft ==
    pc = "done" => \A i \in DOMAIN result : result[i] \in DOMAIN defines => defines[result[i]].fn
==============================================================================
