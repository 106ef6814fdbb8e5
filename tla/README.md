# A TLA+ model of peg4c

peg4c is a packrat parser library in C and a compiler that turns a PEG grammar
into a parser built on it. These modules model the library's run-time core (the memo
table, the rule engine, the token list, alone and together, the life of a rule),
the hash map, the compiler's way from a grammar to its rules, and the two
examples with logic of their own, a C preprocessor and a calculator. TLC checks
them on small instances; TLAPS proves the memo table, the rule engine, the life of
rules, the hash map and the token list for all of them.

Paths below are those of the repository: `src/rule.c`, `include/peg4c/parser.h`.

## 1. The system

| Component | State | Operations | Hard to test | Correct when |
|---|---|---|---|---|
| Packrat cache (`src/packrat_cache.c`) | one row of node pointers per rule and the row's capacity | init, get, set (regrows a row), dest | growth arithmetic at a boundary, a failed allocation in the middle, callers that ignore the result | a row is as long as its capacity says; get returns what was set or nothing |
| Rule evaluation (`src/rule.c`) | the C stack, the cursor, the fail node | `Rule_check` and one `check_rule_` per rule type, build actions | backtracking, nodes shared between cache and tree and relabelled in place, recursion, repetition of nothing | verdict and cursor are those the grammar defines, whatever was tried before |
| Parser core (`src/parser.c`) | the token list, `token_cur`, `ntokens`, `ast`, the pools, the fail node | init, tokenize, token and skip actions, parse, add_node, cache calls, status, printing, dest | tokens leave the list while the parser stands on them; ids are used as order and as keys; children are looked up again instead of passed | no text is lost, links mirror, ids rise with the text, a node's children are the ones that were parsed |
| Token list (`src/token.c`) | `prev`/`next`/`id`/position of each token | init, insert before/after, replace, remove, append | half-done links at the ends | `prev` undoes `next` |
| AST nodes (`src/astnode.c`) | span, children, rule id | init, skip mark, string length | spans of nodes that consumed nothing | children tile the node |
| Hash map (`include/peg4c/hash_map.h`, `src/hash_utils.c`) | bins, fill, pool of pairs | set, get, pop, for_each, resize, prime capacities | removed pairs, a probe with no free bin, a resize that fails half-way | a dictionary |
| Stack (`include/peg4c/stack.h`) | array, fill, capacity | push, pop, peek, resize | capacity zero, a failed resize | a stack |
| Rule life cycle (`src/rule.c`, `include/peg4c/rule.h`) | each rule's class table at every level of its type, a literal's compiled pattern | `X_init`, `X_new`, `X_dest`, `X_del` of every rule type, lazy compilation | a flag that outlives the memory it speaks of, a table written before its base's | every rule is dispatched as it was constructed; a pattern is held exactly while the flag says so, and freed |
| Grammar compiler (`src/peg4ctransform.c`, `src/peg4cparser.c`, `src/peg4cbuild.c`, `src/peg4cstring.c`) | the table of productions, the list of rules, output files | one handler per grammar construct, code emission | names used before they are defined, expressions met twice, repeat bounds, an array cut at its first hole | each construct yields the rule it denotes, exactly once |
| Grammar of grammars (`src/peg4c.c`) | generated tables | none | | |
| C preprocessor (`examples/c/cpp.c`) | macros, tokens of the line, files | control lines, macro expansion by splicing the token list, includes | tokens are cut out, copied and spliced while they are walked, expansions are scanned again | what is left is the standard's expansion |
| Calculator (`examples/calc/`) | values, arrays on the heap, the last result | a build action per operator, functions of the library | actions compute in place on arrays that several nodes hold, an operand that fails half-way | a line prints the value of its statement |
| Other examples (`examples/csv`, `ipv4`, `json`) | parsers built on the library | build actions | several strings on one parser | |
| Memory pools (`mempool.h`, a submodule) | blocks | next, malloc, del | not in the tree: used as an allocator whose blocks live as long as the parser | |

How they interact. `Parser_parse` first calls `Parser_tokenize`, which applies
the token rule to what is left of the string until nothing is left. The rule's
build action (`token_action`) cuts the matched characters off into a token, or
takes them out of the list if the node carries the skip mark. The new tokens
are then linked in and the root rule is run. `Rule_check` looks the rule up at
the current token in the cache, calls the rule type's `check_rule_` if there is
nothing, rewinds and records a failure, and stores the result. A rule that
succeeds asks `Parser_add_node` for a node, and that function finds the
children by walking the cache again from the node's start. A production then
hands the node to its build action, which may relabel it, wrap it, replace it
or turn it into a failure. All of this is one thread; what interleaves are the
phases, the recursion and the build actions.

## 2. The modules

| Module | Models | How state and actions correspond |
|---|---|---|
| `CacheGrowth` | the growth formula of `PackratCache_set` | `size_t` arithmetic modulo `SizeMod` |
| `PackratCache` | `src/packrat_cache.c`, array representation | `map`, `caps` as in the struct; one action per function and outcome: which allocation fails is a choice, and so is what a write past a row hits. `phase` says whether the table is initialised, destroyed, freed by a failed init, or beyond what can be said |
| `LossyMemo` | what the engine needs of a cache | abstract: a result is stored or nothing happens, until the memory is no longer `intact` |
| `RuleEngine` | `Rule_check`, every `check_rule_`, `Parser_add_node`, the fail node, build actions | `stack` is the C stack of `check_rule_` activations; one action for entering each rule type and one for each return into it; `memo` is the abstract cache; tokens are list positions |
| `PegSemantics` | a reference: what a grammar means, without cache, cursor or tree | a function from a rule at a token, with so many of its parts done, evaluated to a depth; two readings: `"readme"`, the operators as documented, and `"code"`, the same with the shortcut at the end of the input |
| `GrammarClasses` | rule tables and the classes of grammars for which a property is claimed | the record fields are those of the rule structs |
| `RuleEngineCorrect` | the properties of the engine, and the status `Parser_print_parse_status` reports | |
| `ParserMemo` | engine and table composed | adds the row capacities and lets the engine lose exactly what `PackratCache_set` loses; `trouble` records a growth that failed and a write that hit memory past its row, which is the end |
| `TokenStream` | `Parser_init`, `Parser_tokenize`, token and skip actions, linking in `Parser_parse` | tokens by address, links are addresses, the two sentinels in `Parser_tokenize`'s frame have addresses outside the pool |
| `TokenStreamProofs` | the theorems about `TokenStream` and `Lexing` | |
| `Lexing` | `Parser_tokenize` with `Rule_check`, `ChoiceRule_check_rule_`, `LiteralRule_check_rule_` and `Production_check_rule_`, then the root rule on the same cache | extends `TokenStream`: the literals decide how much is cut; `results` is the cache from rule and token id to the node; the root rule may try any rule wherever it stands |
| `RuleLifecycle` | class tables, constructors, destructors and deletion in `src/rule.c`, `LiteralRule_compile_regex` | static rules by their place in the array, those on the heap by name; `level` is the `_class` at each level of the type; one action per function of the life cycle |
| `RuleLifecycleProofs` | the theorems about `RuleLifecycle` | |
| `SetInduction` | induction over the naturals, for sets instead of predicates | from `WellFoundedInduction` |
| `RuleEngineProofs` | type correctness of `RuleEngine`, linear work, the furthest failure, the tree | `Shape`: the kinds of steps (`EnterLeave`, `EnterCall` on entering a rule, `ResumeLeave`, `ResumeCall`, `ResumeCrash` on returning into one); `Trace`: the states a frame went through, read off the cache |
| `RuleEngineReference` | the reference, and the engine against it | `FaithfulInv`: every cached result and every waiting call is what the rules mean |
| `ParserMemoProofs` | the theorems about `ParserMemo` | `Room`: no row has been doubled twice |
| `ParserGen` | `src/peg4ctransform.c`, the table of `src/peg4cparser.c`, what `src/peg4cbuild.c` declares and defines | one action per grammar entry, the handlers of expressions as recursive operators that thread the table through; an identifier is the sequence of its words, an enumerator the same in upper case |
| `Preprocessor` | `examples/c/cpp.c` on a token list, with `Token_replace_tokens`, `Token_remove_tokens`, `Token_append` (`src/token.c`) and `Parser_copy_tokens` | one action per line of a file; expansion as recursive operators on the linked tokens |
| `PreprocessorCorrect` | the expansion the C standard prescribes, on sequences, and the texts for which it is claimed | |
| `Calculator` | `examples/calc/calculatorparser.c` and `mathrepl.c` on whole numbers | a line is read, then one action per build action, then the line is printed, rejected, or the end of the process; a value is a number or the place and length of an array in `heap` |
| `CalculatorCorrect` | evaluation without a heap, and the lines for which it is claimed | |
| `HashMap` | `include/peg4c/hash_map.h` with the primes of `src/hash_utils.c` | `bins`, `capacity`, `fill` as in the struct; `Set`, `Pop`, `InitMap`, `Dest` with one disjunct per way out; a probe is the set of distances at which it may end; the loop of `next_prime` is a recursive function |
| `AbstractMap` | what a hash map promises | abstract: one key is bound or forgotten, or everything is |
| `HashMapProofs` | the theorems about `HashMap` | |
| `PackratCacheProofs` | the theorems about `PackratCache` | |
| `MC...` | the small instances | |

Composition. `PackratCache` is shown to implement `LossyMemo`
(`ImplementsLossyMemo`). `RuleEngine` runs on exactly that memo: with `MayLose`
TRUE, any store may be dropped. `ParserMemo` narrows the loss down to what the
growth formula causes. `TokenStream` and `RuleEngine` meet at the token list:
the one leaves the rule's verdict open, the other takes the list as given
(positions, `prev` and `next` as -1 and +1), which is what `StreamIsString`,
`LinksMirror` and `IdsRise` entitle it to. They also meet in the cache: the
tokenizer writes into it for tokens that are still the whole rest of the string.
`Lexing` composes the two there, with the literals that decide both.

`ParserGen` emits the rules that `RuleEngine` takes as its grammar and
`RuleLifecycle` as its array of static rules. `Preprocessor` works on the list
`TokenStream` makes.

`HashMap` implements `AbstractMap` (`ImplementsMap`); it meets the rest only in
generated parsers and the examples.

What is abstracted. A literal matches a set of token kinds (the regular
expression engine is external). A node is its rule, span and children. A token
is its place in the string and its length. Pools never run out, as their
results are not checked either. User build actions are represented by what
they may do to the parser: accept the node, replace it by an inner one, fail.
A definition under a comment `Defect:` is a plausible bug of the definition that
follows it, which some property below detects; the specification does not use
it.

## 3. The runs

| Run | Instance | Shows |
|---|---|---|
| `MCPackratCache` | 2 rules and an unknown one, ids up to past twice the capacity and that of a sentinel, capacity given or default, at most 3 sets | `TypeOK`: a row is exactly as long as the capacity that guards it. `ImplementsLossyMemo`: no growth or failure disturbs another entry, as long as no access was outside the table's memory. `SuccessIsVisible`: what set reports stored, get finds and the table is intact, unless the id is twice the capacity. `GrowthNeverShrinks`: the copy into a regrown row fits |
| `MCRuleEngine` | all grammars of two literals, a rule over them and a root over the three, two recursive ones; all inputs of up to 3 tokens and two of 4 | verdict and cursor are the reference's (`ReturnIsReference`) and, where no group can match nothing, the README's (`AgreesWithReadme`); the tree is well formed (`ChildrenTile`, `ChildrenKeepTheirRule`), no child is missing (`NoCrash`), no rule is evaluated twice at a token (`LinearWork`), the reported failure is the furthest (`FurthestFailure`) |
| `MCParserMemo` | two literals under sequences, repetitions, choices and lists, 2 to 4 tokens, capacity 2 | with the growth of the real table, which may fail or write past a row: below twice the capacity no set writes past its row and, if no growth fails, no node misses a child (`NoCrashOnShortInputs`) and no rule is evaluated twice at a token (`LinearOnShortInputs`); every parse ends (`ParseEnds`) |
| `MCTokenStream` | strings of up to 2 characters with newlines and two of 3, two calls on one parser | `NoCharLost`, `LinksMirror`, `ResultsKeptApart` and `CoordsFollowText`, which fixes line and column exactly, throughout; `StreamIsString`, `IdsRise`, `FirstStringSafe` for the first string; `OneRoundPerChar`: tokenization ends, within as many rounds as there are characters |
| `MCLexing` | blanks, a mark that is a line or a token, names and a word that is one; two of seven strings on one parser | what was cached for a token before it was cut, or for an earlier string, is what the rule would say of the token's characters (`CachedAsOnToken`) |
| `MCRuleLifecycle` | two static literals with a list between them, two rules on the heap of any class, every order of calls | `CompiledIsHeld`, `DispatchAsConstructed`, `PatternsAreFreed` |
| `MCParserGen` | two productions over one another and a literal: every pair of some 60 expressions, literals introduced before, after or by a production of their own | the emitted rules denote the grammar (`EmittedRulesDenoteGrammar`), an enumerator is the place of its rule in the array as long as names stay distinct in upper case (`EnumeratorsAreRules`), a pointer written to a rule stays right (`PointersStayValid`) |
| `MCPreprocessor` | 16 macros, every call of them on simple, compound, missing and parenthesised arguments between other tokens; directives in files that include each other | the tokens left are the standard's expansion (`ExpandsAsC`), no macro is left unexpanded (`NoMacroLeft`) |
| `MCCalculator` | three lines: a result, every kind of statement over it and over arrays, the result again | a line prints the value of its statement, though actions compute in place on arrays that are shared, as long as it uses `PREV` at most once, and whatever follows a first good statement, unless it is a second (`LinePrintsValues`) |
| `MCHashMap` | 3 keys, two with the same hash, initial capacity 1, 4 or one that cannot be allocated, at most 7 bins | collisions, removals and growth never show in what get returns (`ImplementsMap`, `SetIsFound`), because every pair is found from its key's own bin (`PairsAreReachable`); set fails for want of a bin only after removals (`RoomUnlessRemoved`); `next_prime` is the next prime for every capacity up to 200 and its double (`NextPrimeIsNext`) |
| `MCCacheFound`, `MCStatus` | | counterexamples, see 5 |

Bounds. Three sets are enough to fill a row, regrow it and write past the
growth; ids include capacity - 1, capacity, twice the capacity and beyond. A
grammar of four rules has every pair of rule types nested in each position,
three tokens reach the third iteration of a loop, the dangling delimiter and
the end of the input; the recursive grammars add unbounded nesting on four
tokens. `Depths` says how deep the reference is evaluated; 40 is
above the depth of any evaluation here. In `ParserMemo` a capacity of 2 makes the third token regrow a row;
in the real parser, whose capacity is 256 (`PARSER_DEFAULT_NTOKENS`), that takes
more than 256. Two strings are enough for what a
second call can meet, since a third starts from the same kinds of state.
In `HashMap` a table of 3 bins is filled by two sets and a removal, one of 4
cannot grow within `AllocLimit`, and 1, 3, 7 is two growths with pairs to move.
A literal between other rules and a rule on the heap meet every constructor and
destructor; two rules on the heap are there for one to be used while the other
goes. In `ParserGen` two productions are enough for each to be named before it
is defined, and a pair of expressions for a part to be met a second time in any
place. `Preprocessor` stops after `Fuel` expansions, more than any text here
needs; of its thousand texts about four hundred meet the conditions of
`ExpandsAsC`, `NoMacroLeft` is about all of them. The names of `ParserGen` include
some that are the same in upper case and one that is a punctuator's. In `Calculator` the second of
three lines changes the result's array while it holds it, and the third shows
it. In `Lexing` the fourth character and the second string are what it takes for
a skipped token at the end, a rest that is cut twice, and a first token with the
id the tail had.
`MaxSets`, `MaxParses`, `Depths`, `Fuel`, `AllocLimit` are the bounds by name.

`CHECK_DEADLOCK FALSE` everywhere: a parse, a parser and a table come to an
end, after which nothing happens.

Fairness. The engine is sequential code that never waits: weak fairness of the
whole next-state relation (`WF_MemoVars(MemoNext)` in `MemoSpec`) says no more than that
a parse that was started runs on, and is all `ParseEnds` uses.

## 4. What is proved

`PackratCacheProofs`, for every number of rules, capacity, id set and
allocation limit that `CacheAssumption` allows:

- `TypeCorrect`: `Spec => []TypeOK`;
- `Monotone`: `Spec => GrowthNeverShrinks`;
- `Visible`: `Spec => SuccessIsVisible`;
- `Refinement`: `Spec => ImplementsLossyMemo`.

The assumption says that a row that can be allocated is smaller than the
address space (8 bytes per entry) and that an id is either small enough to
double or the sentinel's `SIZE_MAX`. The argument: an accepted growth, though
it is computed modulo `2^w`, never yields less than the old capacity
(`GrownCapLowerBound` and the lemmas beside it). The inductive invariant adds
to `TypeOK` that a live table never has a row of capacity zero: without it a
growth from zero could stay at zero and the doubled capacity would bound
nothing. With it each of the outcomes of a set either leaves the view
through `PackratCache_get` alone, or changes it at one key, or is the write past
the regrown row that hits something else. That last one, and any use of a table
that init has freed while reporting success, leads to the phase `"undefined"`, to
which the refinement maps the end of the memo's integrity (`intact`): nothing is
claimed of what follows.

`RuleLifecycleProofs`, for every array of generated rules, holes included, and
every set of rules made at run time (`RulesAssumption` says that the two
are apart, `ClassesAssumption` that a generated rule has one of the classes
`include/peg4c/parser_gen.h` has an initialiser for, which a bare `DerivedRule`
is not):

- `CompiledCorrect`: `Spec => []CompiledIsHeld`;
- `DispatchCorrect`: `Spec => []DispatchAsConstructed`;
- `NoPatternLeft`: `Spec => PatternsAreFreed`.

`CompiledIsHeld` is not inductive by itself: a destructor that is not the
literal's would leave the flag set over a buffer it never looked at. The
invariant `IInv` adds that only a literal is ever compiled (`OnlyLiterals`) and
that a literal's table at the level `Rule` is its own (`LiteralsFree`), so that
`dest`, called through the base class, is `LiteralRule_dest`. `LiteralDispatch`
derives the latter from the order in which the constructors write, and
`RuleDispatch` the same for every class: what `init` leaves at the level `Rule`
was written last, by the class itself. `DispatchInv` adds to the property that
no generated rule ever is a bare `DerivedRule`.

`RuleEngineProofs`, for every set of rule tables
(`RuleAssumption` says of a table what the constructors do: a sequence or choice
has a dependency, dependencies are rules, bounds fit in `size_t`), every length
of input and every even `SizeMod`:

- `TypeCorrect`: `Spec => []TypeOK`, without further conditions;
- `WorkIsLinear`, `FailureIsFurthest`: `Spec => []LinearWork` and
  `Spec => []FurthestFailure`, under `~MayLose` and `Replayable`;
- `ParseNeverCrashes`: `Spec => []NoCrash`, under `~MayLose` and
  `AllRebuildable`.

`~MayLose`: the cache loses nothing; what it really loses, and when, is the
subject of `ParserMemo`. `Replayable`: no action returns an inner child; if one
simplifies, then also what `AllRebuildable` asks. `AllRebuildable` adds that
every table is an `AnchoredNodes` one and that `size_t` counts two children
per token of the input (`Roomy`), as it does for every string in memory. Each
condition has its counterexample in 5, except the last, for which a `size_t` of
four values is enough to lose count of a list. Left recursion and repetition of
nothing are not excluded: such a parse does not end, but nothing above goes
wrong on the way.

The inductive invariant `Inv` has three parts. `Typed` is type correctness with
what the frames on the stack say of each other: the rule each has called is the
one its position calls for (`CalledBy`). `Packrat` carries the other two
properties. That no rule is evaluated twice at a token does not follow from the
cache alone: a rule is stored only when it returns, so one could be entered
again while it runs. Every frame therefore has a `Trace`: from where it started,
the cache answers each call it has made so far, and each answer led to the next.
Two frames of the same rule at the same token have
the same trace as far as both go. A frame that returns has answers to all its
calls, one below it waits for an answer: they cannot be of the same rule at the
same token (`OnlyOne`), so the entry that is filled was empty, and a rule is
counted once. Reading a trace off the cache is where `Replayable` comes from: an answer
taken from there has to move the cursor as the evaluation did. `Tiled`
says where nodes and cached results lie. For it `Parser_add_node`, which walks
the cache again with a counter of its own, has to be shown to take the walk of
the trace (`SpanIsLinked`). It does as long as the frame's counter has not
wrapped, and it has not, since a frame that has been answered by a failure
consumed a token with every pair of children but the last (`NeverStuck`,
`NoWrap`).

`~MayLose` enters in one place only: the steps preserve `Inv` as long as each
result is in the cache when its rule has returned (`Kept`), and a cache that
loses nothing keeps it (`NothingLost`).

`RuleEngineReference`; the first three under `AllRebuildable` alone, whatever the
cache loses, the fourth under `~MayLose` and `Replayable`:

- `ParseIsReference`: `Spec => []ReturnIsReference`, for a reference evaluated to
  every depth there is (`Depths` has no bound);
- `ReadmeHolds`: `Spec => []AgreesWithReadme`, for any `Depths`;
- `ChildrenAreTiled`: `Spec => []ChildrenTile`;
- `TreeKeepsItsRules`: `Spec => []ChildrenKeepTheirRule`;
- `MeaningIsUnique`, `ReadingsAgree`: the two facts about the reference itself
  the first two rest on.

What a rule means is the value of a function with the depth as an argument, which
exists because each depth refers to the one below (`SemanticsIs`), and a result
that is known stays what it is at any greater depth (`KnownStays`), so that two
results known at different depths are known together (`KnownTogether`).

`Inv` is of no use for the first three: its traces are read off the cache, and
a cache that loses results loses the traces with them. The invariant `FaithfulInv`
therefore speaks of what the answers meant and never of where they are kept.
Each result the cache still has is the meaning of its rule at its token
(`Meant`) and its node lies there (`CachePlaced`). Each frame stands where a way
along the meanings of its parts leads (`Path`), and what is left of its rule
there means what the whole rule means where it started (`Leads`, together
`Along`). So the rule means what its last answer decides (`StepDecides`), and a
frame that calls again still stands on its way (`StepsOn`). The way exists
beside the counter of the frame, which is a `size_t`: that it has not wrapped is
part of `Along` for repetitions and lists, whose counter is bounded by the
tokens consumed. A frame that matches nothing over and over escapes the bound,
never returns and is let go (`Stuck`, `Unstuck`). When a node is made,
`Parser_add_node` walks the cache once more. It may miss a child that was lost,
and then the process ends; but a child it does find is what the rule meant there
(`FoundIsMeant`), so the walk stays on the way of the frame and the children
tile (`SpanLies`).

`ReadingsAgree` is where `NoNullableGroup` earns its place. A match of the
reference that consumes nothing is one that `Nullable` foretells
(`SemanticsMoves`), which is computed by as many rounds as there are rules; that
more would add nothing is a matter of counting: every round but the last adds a
rule (`Settles`, from which `NullableClosed`). At the end of the input, then, a group that cannot match
nothing can only fail, as it does by giving up.

`TreeKeepsItsRules` is about nodes that are changed after they were made: a
default production relabels the node its rule returned, wherever else that node
is by then. The invariant `Labelled` tells two kinds of rules apart. The node of
a rule that no relabelling production may get (`Plain`) fits its rule for good, in
the cache and as a child (`CacheFits`, `KidsFit`). The node of any other (`Fed`)
is nobody's when it is returned: no child and no cached result of a plain rule
(`Lonely`). It is relabelled before it can become one, and never again: under
`UnsharedBodies` one rule only refers to a fed rule, and once it was answered by
the fed rule at a token it has a result of its own there (`UsedUp`). That needs
to be known of every such rule, whichever alternative was given up in between. It
holds because choices and productions call where they were called themselves
(`ReachedInPlace`) and are evaluated once at a token. That the ids a rule's node
may carry (`Labels`) follow the nodes handed on is `LabelsClosed`, once more by
`Settles`.

`ParserMemoProofs`, on the real growth of the table, where results do get lost,
under `AllRebuildable`:

- `LossyParseIsReference`: `MemoSpec => [](trouble # "overrun" => ReturnIsReference)`,
  for every input;
- `ShortInputsNeverCrash`: `MemoSpec => []NoCrashOnShortInputs`;
- `ShortInputsAreLinear`: `MemoSpec => []LinearOnShortInputs`.

The first is `FaithfulInv` again: a result that is lost, because a growth failed or
the write past the row fell into bytes nobody uses, costs a second evaluation, or
the process, but does not make an answer wrong. Of an execution in which that
write destroyed something it says nothing; they take an input of 512 tokens, and
a rule first tried at the last of them or later (5). For the others, an input of
fewer than twice the first capacity of tokens needs each row to grow once at
most, so a row has the first capacity or twice that (`Room`) and a set finds or
makes the entry it needs (`OneDoubling`). So every result is kept if no growth
fails, and `Inv` is inductive as it was. The bound is not an artefact:
beyond it the growth formula leaves entries out (`MCCacheFound`, see 5).
`LossyEngine` asks of the constants that one doubling does not wrap in `size_t`.

These proofs need induction over the length of traces and ways. The prover cannot
instantiate an induction theorem whose parameter is an operator, so
`SetInduction` derives one whose parameter is a set.

`TokenStreamProofs`, for every set of strings, of any length, and any number of
calls on one parser:

- `TypeCorrect`, `CoversTheString`, `Coordinates`, `PrevUndoesNext`,
  `CacheRowsAreTokens`, `TokenizationEnds`: `Spec => []Inv` for `TypeOK`,
  `NoCharLost`, `CoordsFollowText`, `LinksMirror`, `ResultsKeptApart` and
  `OneRoundPerChar`;
- `StreamIsTheString`, `IdsFollowTheText`, `FirstStringIsSafe`: the same for
  `StreamIsString`, `IdsRise` and `FirstStringSafe`, which are about the first
  string.

`TokenAssumption` only says that texts are sequences of characters. None of the
properties is inductive: each needs to know where the links lead, and links are
set in three places, by a round of the loop, by the splice after it and by what
`Parser_parse` does with the result. The invariant `Inv` has a part for each.
Addresses and ids are given out together and never again (`Addressed`). Tokens
are cut from left to right, so a cut changes the column of no token before it
(`ColumnStays`), and the column of the next one follows from the one before and
the newlines in it (`ColumnAlong`, `ColumnAfterNewline`). While
`Parser_tokenize` runs, the list between its two sentinels is the tokens kept
and the rest of the string (`Local`); when it is left, it is the tokens kept,
between the sentinels of the dead frame (`Returned`). The list of the parser is
a sequence `g` of tokens that starts at the head, ends at the tail and is
linked both ways, and the parser stands on one of its places (`Standing`). A
string that is linked in is put into `g` after that place (`Joined`, `Composed`),
with what followed still following: that is why `LinksMirror` holds for every
string, but `StreamIsString` only while nothing follows (`FirstString`).
`After`, which follows the links one at a time, yields the rest of `g` by
induction on its length (`AfterIs`).

In the same module, for every set of literals and productions, every token rule
and every choice of what the root rule does next in `Lexing`:

- `CacheIsAsOnToken`: `LexSpec => []CachedAsOnToken`;
- `LexingKeepsTokens`: `NoCharLost`, `CoordsFollowText`, `OneRoundPerChar` and
  `ResultsKeptApart` hold there too.

In `Lexing` the parser need not stand on its list: at the tail a result may be
found that was stored for a skipped token, and the parser follows that token's
own link. So `Inv` is in two parts. `Core` holds wherever in the pool the parser
stands, and is all that `LexInv` keeps of it; `OnList`, the sequence `g`, is for
`TokenStream`. What takes the place of `g` is weaker, a set of tokens that has the
head, that no link leaves and that none of the tokens being made is in
(`Rooted`), and that no link leads to the head (`OffHead`), whose id is that of
the first token. About the cache, `LexInv` says of every entry what
`CachedAsOnToken` says of those for the list, and that none is for the rest of a
string that has yet to be cut (`Entry`, `Uncut`). That entry is the hard one: a
result is stored while the token is the whole rest, and must be right for the
token that is cut by another rule. It is because the token rule stops at the
first production that matches (`LastTried`): a literal that matched is that
production's, and the token becomes as long as its match, and one that did not
match anywhere in the rest does not match a part of it (`TokenResultsAre`,
`StoredStays`). A production that may be refused breaks this argument for itself
and for all that use its literal, which is what `Contextual` excludes.
`LexAssumption` says that a production has a literal, that the token rule has a
production to try, and that no rule is both.

`HashMapProofs`, for every set of keys and values, every hash function, every
capacity asked for and every limit of the allocator:

- `TypeCorrect`, `PairsReachable`, `RoomForTheNext`, `GrowthIsPrime`: `TypeOK`,
  `PairsAreReachable`, `RoomUnlessRemoved` and `NextPrimeIsNext` always hold;
- `SetThenGet`: `Spec => SetIsFound`;
- `Refinement`: `Spec => ImplementsMap`.

The heart of the invariant is `Kept`: on the way from a key's own bin to its pair
there is no NULL, and no key is in two bins. A set puts its pair where the
probe stopped, a pop leaves a mark instead of NULL, and a growth inserts the
pairs one after the other into an empty table: each preserves `Kept`, the last by
induction over the bins moved. It makes the pair the only place where the search
for its key can end, whatever the probe passes on the way, and so the view through
get a dictionary of which each call changes one binding, or all when a growth
fails. `fill` counts the pairs, and a table from which nothing was removed has an
empty bin for the probe to find, which gives `RoomUnlessRemoved`. That the
probe ends needs nothing of the capacity being prime. That it is one is
`GrowthIsPrime`: trial division up to the square root finds a divisor if there is
one (`TrialDivision`), no prime above 3 is passed over by steps of two and four
(`PrimeRemainder`, `Candidates`), and the loop ends because there is a prime above
every number (`PrimeAbove`, Euclid's proof). The model's numbers are unbounded;
where `size_t` would overflow the allocation has failed long before.

Only model-checked: liveness, which the prover does not handle.
`ParserGen`, `Preprocessor` and `Calculator` are recursive over trees and token
lists: they use RECURSIVE operators, for which the prover loses the solver that
does arithmetic and sequences.

## 5. Where code and documentation disagree

Runs with a counterexample:

- `MCCacheFound`: `tok->id > 2 * cap ? tok->id : cap` (`src/packrat_cache.c:148`)
  regrows a row to `2 * cap` entries for the id `2 * cap`, and the value is
  written one entry past the row (`:157`). Rows have 256 entries at first
  (`include/peg4c/parser.h:19`), so in a parse this is the id 512 of a rule first
  tried there. The write is undefined behaviour. The models have both outcomes:
  it lands in bytes the allocator added to the block (`SetIntoSlack`,
  `StoreIntoSlack`), or it destroys something and nothing is claimed afterwards
  (`SetOverrun`, `StoreOverrun`). Even in the first case get never finds the
  value, which is the counterexample, and `Parser_add_node` reads a child it
  cannot find through NULL: hence the bound of `NoCrashOnShortInputs`.
- `MCStatus`: the status is a failure whenever any rule failed anywhere, which
  a successful parse almost always has.

In the models without a run of their own; the configurations named end in the
counterexample when they are run:

- A build action may return an inner node: `calc_eval` returns the one inside
  the parentheses. Its end is before the closing one, so the walk of the
  parent's children looks there for the next child, and `(1)+2` sends it astray
  (`MCParenthesised.cfg`).
- A line of two good statements, `1;2`, crashes the calculator: `calc_pass0`
  (`examples/calc/calculatorparser.c:29`) returns the expression, which ends
  before the `;`, and the walk of the statements (`src/parser.c:569`) finds no
  statement there and follows NULL (`WalkStatements`). `LinePrintsValues` is
  about lines with at most one good statement (`OneStatement`).
- The empty string is tokenized successfully into nothing at all;
  `Parser_parse` follows two unset pointers (`MCTokenEmpty.cfg`). A string of
  skipped text only has the same end: `start` and `end` are sentinels of a dead
  stack frame.
- After a parse that consumed its input `token_cur` is the tail, and the next
  call on that parser follows its NULL link (`MCTokenReuse.cfg`); the ipv4
  example parses every argument on one parser.
- `PREV` copies the result with the address of its array
  (`examples/calc/calculatorparser.c:519`), and the actions compute in place:
  over an array, `PREV*2 + PREV` and `-PREV + PREV` are wrong
  (`MCCalculatorPrev.cfg`).

Conditions under which a property above is claimed, each with the code that
makes it necessary:

- `Terminates`: no left recursion, no repetition of a rule that can match
  nothing. `(a?)*` does not return (`src/rule.c:1033`), although "`*` always
  succeeds".
- `NoNullableGroup`: sequence, choice and list fail on the empty token at the
  end of the input without trying their subrules (`src/rule.c:347`), so
  `a, (a?, a?)` fails on `a`; for the same reason `!(a?)` succeeds there
  (`src/rule.c:1162`).
- `AnchoredNodes`: a positive lookahead makes a node that starts at the token
  before it (`src/rule.c:1289`). A list delimited by one gives back its last
  element's token (`src/rule.c:898`), and a production over a production over
  one looks for its child there and follows NULL. `simplify_rule` over a group
  whose only child is a lookahead, as in `(& a)`, hands its node on.
- `UnsharedBodies`: `build_action_default` relabels the node it is given
  (`src/rule.c:1312`). If two productions share a body, the second renames the
  node in the tree of the first. Nor may a production that takes the child of a
  node (`simplify_rule`, or an action that returns an inner node) feed one that
  relabels: the child is still in the node it was taken from, which is in the
  pool and in the cache. With `A = a, a`, the list `L = A.b`, `S` simplifying `L`
  and a default production over `S`, parsing `aa` makes `L`'s node, takes its
  child and gives it the id of the default production, which cannot stand there.
  This part of the condition came out of the proof of `TreeKeepsItsRules`: without
  it the property is false.
- The first string only, in `StreamIsString`, `IdsRise`, `FirstStringSafe`: a
  second one finds old tokens after the current one.
- `ResultsKeptApart` excludes the tail: its id is made up as one past the last
  token (`src/parser.c:473`) and may be that of a token skipped at the end, or
  of the next string's first token.
- `CoordsFollowText`: a column counts from 1 on the first line and on a line
  that starts with a token, but from 0 on a line whose first character is inside
  one (`src/parser.c:310`): a newline inside a token resets the column to 0, and
  one that ends a token to 1. Columns therefore depend on how the text is cut.
- A token rule matches at least one character. The README restricts token
  rules to choices of literals and a literal never matches nothing
  (`src/rule.c:668`); nothing enforces the restriction, and without it
  tokenization may not end or may drop the rest of the string.

- `RoomUnlessRemoved`: the bin of a removed pair is skipped by `_linear_probe`
  for good and is not counted in `fill`, so after enough removals set returns
  `HM_INSERTION_FAILURE` though the map is nearly empty.
- `ImplementsMap` includes that everything may be forgotten: a growth that
  cannot be allocated drops the old bins (`include/peg4c/hash_map.h:478`), and
  the next call but the destructor reads through NULL. `_pop` calls `free` on a
  pair of the pool (`:335`), after which nothing is claimed (`"undefined"`).

- `CachedAsOnToken` excludes ids the tail has had: a parse that fails at the end
  of its input leaves failures there, and the first token of the next string
  has that id. With text skipped at the end the tail has the id of the skipped
  token: a rule that succeeded there succeeds at the tail, and the parser goes
  on from the skipped token's link to a sentinel of a dead stack frame
  (`SeekPast`). It also excludes a production whose action may refuse
  (`c_pp_line_expand`) and every rule of the same literal: what the literal
  matched may be longer than the token that was cut instead.
- `EmittedRulesDenoteGrammar` is about grammars without braces, whose bounds are
  read past the node's children (`src/peg4ctransform.c:136`); without a group
  around a single name or literal, for which the pointer written is empty;
  without names that start like `punctuator` or `keyword`, which are forward
  declared as literals; each production defined once; literals introduced
  before an entry that only names them. `export` is first: after an `import` it
  is ignored, though the README says "Order among them does not matter".
- `NamesDistinct` (`EnumeratorsAreRules`, `EmittedRulesDenoteGrammar`):
  enumerators are written in upper case (`src/peg4cbuild.c:222`), so productions
  `a` and `A` have one enumerator; the name given to a literal is in the
  namespace of the productions (`src/peg4ctransform.c:388`), so `'+'` and a
  production `plus` have one identifier. Nothing in the code checks either.
- `DefinitionsFirst`, `Followed` (`ExpandsAsC`): every control line is carried
  out before any text is expanded, so a definition applies to text above it;
  groups of `#if` are all kept; an empty replacement or argument, a macro that
  refers to itself, `...`, commas that an argument's expansion brings in, a call
  that is not closed, arguments next to `#` or `##` that are macros themselves,
  and `#` or `##` in the text are not what the standard makes of them.
- `Sound` (`LinePrintsValues`): an array of length 1 meets a number in `mod` and
  `pow` as if both were arrays; arrays in arrays are taken for integers; more
  arguments than `MAX_NARGIN` are written past the array they go to; integers
  are divided by zero; unset operands of `mod_` and `pow_` give other values than
  the float `Binary` gives. A line that fails may still have changed the array of the
  last result.
- A bare `DerivedRule` is given the table of `ListRule` at the level `Rule`
  (`DispatchAsConstructed`). A literal made on the heap compiles into a
  `regex_t` nobody initialised; that outcome is `"undefined"`.

Also modelled as the code has it: `PackratCache_init` returns success after a
row could not be allocated (`src/packrat_cache.c:81`, `PartialInitStatus`), with
the rows, the map and the capacities already freed (`:72`, phase `"freed"`);
whatever call comes next uses them (`UseFreed`, `"undefined"`).
README's description of the choice operator ("a single element in `children`")
is not what `ChoiceRule_check_rule_` does; the model follows the code, as does
another passage of the README.

## 6. Not modelled

Output and formatting (printing tokens, the tree and the generated files, with
`ASTNode_string_length` and the stack that serve only this), regular
expressions, the pools, the `PACKRAT_HASH` variant of the cache, which is not
built by default, the generated tables. Of the C example, the scopes of typedef
names: they are a side effect of build actions under backtracking through the
whole C grammar, and a model of them would need that grammar. Of the calculator,
complex numbers, inexact floats and numbers too long for their buffer, and
parentheses, which no line of the sessions has for the reason given in 5; nor
does a line have a list whose operand fails after two that did not. The csv,
ipv4 and json examples store what they parse; what they ask of the library is
in `TokenStream` and `Lexing`. `Lexing` leaves out what the token rule itself
and the choices inside it cache.

## 7. Plan

What is left is proof rather than modelling: `TreeKeepsItsRules` with a cache
that loses results, where a fed rule may be evaluated again at a token and hand
on a second node; and `ParserGen`, `Preprocessor` and `Calculator`, once their
recursive operators are written as functions.
