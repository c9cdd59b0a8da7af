--------------------------- MODULE CatchCommandLine ---------------------------
(***************************************************************************)
(* The command line of a Catch program: Session::applyCommandLine and the  *)
(* Clara parser it runs turn words into a ConfigData, or refuse them; then *)
(* Session::runInternal makes the Config, whose constructor parses the     *)
(* specification of tests (CatchSelect), and lists or runs what it selects.*)
(*                                                                         *)
(* A word is a sequence of characters; the name of a long option, and a    *)
(* word that is only compared, are a character each.  There is no upper    *)
(* case.  What a run of the selected test cases does is CatchRun.          *)
(***************************************************************************)
EXTENDS CatchSelect

CONSTANTS
  Lines,      \* the command lines: records like a Line
  Files,      \* the files that can be opened: their lines, by name
  Reporters,  \* the registered reporters
  MaxInt      \* the greatest int; an unsigned int is at most 2 * MaxInt + 1

VARIABLES
  line,       \* the command line, and the state of the program it meets
  tokens,     \* the TokenStream: m_tokenBuffer, and the words from `it` on
  used,       \* the parsers whose count is 1
  config,     \* m_configData
  outcome,    \* what came of the line, "none" at first
  listed      \* the test cases that were listed

lineVars == <<line, tokens, used, config, outcome, listed>>
allVars  == <<vars, lineVars>>

(* Words; the items that were meant by them and the specification, if they *)
(* are known; whether exceptions were thrown at startup, and whether two   *)
(* test cases have one name.                                               *)
Line == [words : Seq(Seq(STRING)), known : BOOLEAN, items : Seq([option : STRING]),
         written : Seq(STRING), startup : BOOLEAN, duplicate : BOOLEAN]

Flags == {"showHelp", "listTests", "listTags", "listReporters", "showSuccessfulTests",
          "shouldDebugBreak", "noThrow", "showInvisibles", "filenamesAsTags", "libIdentify",
          "benchmarkNoAnalysis"}

(* ConfigData as it is constructed.  Text is empty, numbers that no test   *)
(* looks at are 0 for their default.                                       *)
ConfigData ==
  [f \in Flags |-> FALSE]
    @@ [abortAfter |-> -1, rngSeed |-> 0, benchmarkSamples |-> 0, benchmarkResamples |-> 0,
        benchmarkConfidenceInterval |-> 0, benchmarkWarmupTime |-> 0, minDuration |-> -1,
        verbosity |-> "normal", warnings |-> {}, showDurations |-> "DefaultForReporter",
        runOrder |-> "declared", useColour |-> "auto", waitForKeypress |-> "never",
        outputFilename |-> <<>>, name |-> <<>>, reporterName |-> "console",
        testsOrTags |-> <<>>, sectionsToRun |-> <<>>]

-----------------------------------------------------------------------------
(* TokenStream.                                                            *)
Delimiters == {" ", ":", "="}

Tokens(word) ==
  LET cut == {i \in DOMAIN word : word[i] \in Delimiters}
      option(name) == [type |-> "Option", token |-> name]
      argument(text) == [type |-> "Argument", token |-> text]
  IN  CASE Head(word) # "-" -> <<argument(word)>>
        [] Head(word) = "-" /\ cut # {} ->
             <<option(SubSeq(word, 1, Min(cut) - 1)), argument(SubSeq(word, Min(cut) + 1, Len(word)))>>
        [] Head(word) = "-" /\ cut = {} /\ Len(word) > 2 /\ word[2] # "-" ->
             [i \in 1 .. Len(word) - 1 |-> option(<<"-", word[i + 1]>>)]
        [] OTHER -> <<option(word)>>

loadBuffer(words) ==
  LET full == {i \in DOMAIN words : words[i] # <<>>}
      rest == IF full = {} THEN <<>> ELSE SubSeq(words, Min(full), Len(words))
  IN  [words |-> rest, buffer |-> IF rest = <<>> THEN <<>> ELSE Tokens(Head(rest))]

(* Faulty variant of the next definition: the rest of a word is lost.      *)
AdvanceWord(ts) == loadBuffer(IF ts.words = <<>> THEN <<>> ELSE Tail(ts.words))

(* operator++                                                              *)
Advance(ts) ==
  IF Len(ts.buffer) >= 2 THEN [ts EXCEPT !.buffer = Tail(@)]
  ELSE loadBuffer(IF ts.words = <<>> THEN <<>> ELSE Tail(ts.words))

-----------------------------------------------------------------------------
(* convertInto: the set of the values that a text is converted to, which   *)
(* is empty when it is refused.                                            *)
Digits == <<"0", "1", "2", "3", "4", "5", "6", "7", "8", "9">>

DigitsOf(text) ==
  LET other == {i \in DOMAIN text : text[i] \notin ToSet(Digits)}
  IN  IF other = {} THEN text ELSE SubSeq(text, 1, Min(other) - 1)

Magnitude(digits) ==
  FoldLeft(LAMBDA sum, d : 10 * sum + (CHOOSE i \in 1 .. 10 : Digits[i] = d) - 1, 0, digits)

(* ss >> target: blanks, a sign, and the digits that follow; the rest of   *)
(* the text is not looked at.                                              *)
AsNumber(text, min, max) ==
  LET ink     == {i \in DOMAIN text : text[i] # " "}
      shown   == IF ink = {} THEN <<>> ELSE SubSeq(text, Min(ink), Len(text))
      signed  == shown # <<>> /\ Head(shown) \in {"-", "+"}
      digits  == DigitsOf(IF signed THEN Tail(shown) ELSE shown)
      value   == IF signed /\ Head(shown) = "-" THEN 0 - Magnitude(digits) ELSE Magnitude(digits)
  IN  IF digits = <<>> THEN {} ELSE {value} \cap (min .. max)

AsInt(text) == AsNumber(text, 0 - MaxInt - 1, MaxInt)

(* A negative number is converted to unsigned by wrapping.                 *)
AsUnsigned(text) ==
  LET top == 2 * MaxInt + 1
  IN  {(v + top + 1) % (top + 1) : v \in AsNumber(text, 0 - top, top)}

AsBool(text) ==
  CASE text \in {<<"y">>, <<"1">>, <<"true">>, <<"yes">>, <<"on">>}  -> {TRUE}
    [] text \in {<<"n">>, <<"0">>, <<"false">>, <<"no">>, <<"off">>} -> {FALSE}
    [] OTHER -> {}

Word(text, words) == {w \in words : text = <<w>>}

setWarning(text, warnings) == {warnings \cup {w} : w \in Word(text, {"NoAssertions", "NoTests"})}

(* Any beginning of the word, the empty one too; the first word wins.      *)
Orders == <<[order |-> "declared", word |-> <<"d", "e", "c", "l", "a", "r", "e", "d">>],
            [order |-> "lexical",  word |-> <<"l", "e", "x", "i", "c", "a", "l">>],
            [order |-> "random",   word |-> <<"r", "a", "n", "d", "o", "m">>]>>

setTestOrder(text) ==
  LET begun == {i \in DOMAIN Orders : IsPrefix(text, Orders[i].word)}
  IN  IF begun = {} THEN {} ELSE {Orders[Min(begun)].order}

setRngSeed(text) == IF text = <<"time">> THEN 0 .. 2 * MaxInt + 1 ELSE AsUnsigned(text)

(* The names in a file, in quotes, with commas between; the last element   *)
(* goes, which is a comma if the file has a name.                          *)
loadTestNamesFromFile(text, testsOrTags) ==
  LET named(l)   == l # <<>> /\ Head(l) # "#"
      quoted(l)  == IF Head(l) = "\"" THEN l ELSE <<"\"">> \o l \o <<"\"">>
      all(f)     == testsOrTags \o
                    FlattenSeq([i \in DOMAIN Files[f] |->
                      IF named(trim(Files[f][i])) THEN <<quoted(trim(Files[f][i])), <<",">>>> ELSE <<>>])
  IN  {IF all(f) = <<>> THEN <<>> ELSE Front(all(f)) : f \in DOMAIN Files \cap {text}}

-----------------------------------------------------------------------------
(* The options: the member of ConfigData that each sets, how its text is   *)
(* read ("flag" if it takes none), and its names.                          *)
Opt(field, reads, names) == [field |-> field, reads |-> reads, names |-> names]

Short(c) == <<"-", c>>

Long(name) == <<"-", "-", name>>

Options == {
  Opt("showHelp",             "flag",      {Short("?"), Short("h"), Long("help")}),
  Opt("listTests",            "flag",      {Short("l"), Long("list-tests")}),
  Opt("listTags",             "flag",      {Short("t"), Long("list-tags")}),
  Opt("showSuccessfulTests",  "flag",      {Short("s"), Long("success")}),
  Opt("shouldDebugBreak",     "flag",      {Short("b"), Long("break")}),
  Opt("noThrow",              "flag",      {Short("e"), Long("nothrow")}),
  Opt("showInvisibles",       "flag",      {Short("i"), Long("invisibles")}),
  Opt("outputFilename",       "text",      {Short("o"), Long("out")}),
  Opt("reporterName",         "reporter",  {Short("r"), Long("reporter")}),
  Opt("name",                 "text",      {Short("n"), Long("name")}),
  Opt("abortAfter",           "abort",     {Short("a"), Long("abort")}),
  Opt("abortAfter",           "int",       {Short("x"), Long("abortx")}),
  Opt("warnings",             "warning",   {Short("w"), Long("warn")}),
  Opt("showDurations",        "durations", {Short("d"), Long("durations")}),
  Opt("minDuration",          "double",    {Short("D"), Long("min-duration")}),
  Opt("testsOrTags",          "file",      {Short("f"), Long("input-file")}),
  Opt("filenamesAsTags",      "flag",      {Short("#"), Long("filenames-as-tags")}),
  Opt("sectionsToRun",        "container", {Short("c"), Long("section")}),
  Opt("verbosity",            "verbosity", {Short("v"), Long("verbosity")}),
  Opt("listReporters",        "flag",      {Long("list-reporters")}),
  Opt("runOrder",             "order",     {Long("order")}),
  Opt("rngSeed",              "seed",      {Long("rng-seed")}),
  Opt("useColour",            "colour",    {Long("use-colour")}),
  Opt("libIdentify",          "flag",      {Long("libidentify")}),
  Opt("waitForKeypress",      "keypress",  {Long("wait-for-keypress")}),
  Opt("benchmarkSamples",     "unsigned",  {Long("benchmark-samples")}),
  Opt("benchmarkResamples",   "unsigned",  {Long("benchmark-resamples")}),
  Opt("benchmarkConfidenceInterval", "double", {Long("benchmark-confidence-interval")}),
  Opt("benchmarkNoAnalysis",  "flag",      {Long("benchmark-no-analysis")}),
  Opt("benchmarkWarmupTime",  "int",       {Long("benchmark-warmup-time")})}

isFlag(opt) == opt.reads \in {"flag", "abort"}

(* setFlag and setValue: the values the member may get.  Of a double only  *)
(* a whole number is modelled.                                             *)
Values(opt, text, old) ==
  CASE opt.reads = "flag"      -> {TRUE}
    [] opt.reads = "abort"     -> {1}
    [] opt.reads = "text"      -> {text}
    [] opt.reads = "container" -> {Append(old, text)}
    [] opt.reads = "file"      -> loadTestNamesFromFile(text, old)
    [] opt.reads \in {"int", "double"} -> AsInt(text)
    [] opt.reads = "unsigned"  -> AsUnsigned(text)
    [] opt.reads = "seed"      -> setRngSeed(text)
    [] opt.reads = "reporter"  -> Word(text, Reporters)
    [] opt.reads = "warning"   -> setWarning(text, old)
    [] opt.reads = "durations" -> {IF b THEN "Always" ELSE "Never" : b \in AsBool(text)}
    [] opt.reads = "order"     -> setTestOrder(text)
    [] opt.reads = "colour"    -> Word(text, {"yes", "no", "auto"})
    [] opt.reads = "keypress"  -> Word(text, {"never", "start", "exit", "both"})
    [] opt.reads = "verbosity" -> Word(text, {"quiet", "normal", "high"})

(* cardinality(): a container may be named again.                          *)
MayParse(opt) == opt \notin used \/ opt.reads = "container"

(* The parser that takes an Option token, if there is one.                 *)
isMatch(token) ==
  {opt \in Options : token.type = "Option" /\ token.token \in opt.names /\ MayParse(opt)}

-----------------------------------------------------------------------------
Parsing == outcome = "none" /\ ~ line.startup

Token1 == Head(tokens.buffer)

More(ts) == ts.buffer # <<>>

Refused == outcome' = "refused" /\ UNCHANGED <<vars, line, tokens, used, config, listed>>

(* Opt::parse of an option that takes no argument.                         *)
ParseFlag ==
  /\ Parsing /\ More(tokens)
  /\ \E opt \in isMatch(Token1) :
       /\ isFlag(opt) /\ opt.field # "showHelp"
       /\ config' = [config EXCEPT ![opt.field] = CHOOSE v \in Values(opt, <<>>, @) : TRUE]
       /\ used' = used \cup {opt}
  /\ tokens' = Advance(tokens)
  /\ UNCHANGED <<vars, line, outcome, listed>>

(* Help short-circuits the parser: what follows is not looked at.          *)
ParseHelp ==
  /\ Parsing /\ More(tokens)
  /\ \E opt \in isMatch(Token1) : opt.field = "showHelp"
  /\ config' = [config EXCEPT !.showHelp = TRUE]
  /\ outcome' = "accepted"
  /\ UNCHANGED <<vars, line, tokens, used, listed>>

(* Opt::parse of an option and the argument that follows it.               *)
ParseValue ==
  /\ Parsing /\ More(tokens)
  /\ \E opt \in isMatch(Token1) :
       LET next   == Advance(tokens)
           follows == More(next) /\ Head(next.buffer).type = "Argument"
           values == IF follows THEN Values(opt, Head(next.buffer).token, config[opt.field]) ELSE {}
       IN  /\ ~ isFlag(opt)
           /\ \/ values = {} /\ Refused
              \/ /\ \E v \in values : config' = [config EXCEPT ![opt.field] = v]
                 /\ used' = used \cup {opt}
                 /\ tokens' = Advance(next)
                 /\ UNCHANGED <<vars, line, outcome, listed>>

(* Arg::parse.                                                             *)
ParseArg ==
  /\ Parsing /\ More(tokens)
  /\ Token1.type = "Argument"
  /\ config' = [config EXCEPT !.testsOrTags = Append(@, Token1.token)]
  /\ tokens' = Advance(tokens)
  /\ UNCHANGED <<vars, line, used, outcome, listed>>

(* "Unrecognised token".                                                   *)
ParseFails ==
  /\ Parsing /\ More(tokens)
  /\ Token1.type = "Option" /\ isMatch(Token1) = {}
  /\ Refused

ParseEnds ==
  /\ Parsing /\ ~ More(tokens)
  /\ outcome' = "accepted"
  /\ UNCHANGED <<vars, line, tokens, used, config, listed>>

(* applyCommandLine after an exception at startup.                         *)
StartupFails ==
  /\ outcome = "none" /\ line.startup
  /\ outcome' = "startup"
  /\ UNCHANGED <<vars, line, tokens, used, config, listed>>

(* The constructor of Config: blanks around a text go.                     *)
Trimmed(texts) == [i \in DOMAIN texts |-> trim(texts[i])]

(* runInternal, up to the constructor of Config.                           *)
Construct ==
  /\ outcome = "accepted"
  /\ IF config.showHelp \/ config.libIdentify
     THEN outcome' = "told" /\ UNCHANGED <<input, config>>
     ELSE /\ outcome' = "constructed"
          /\ config' = [config EXCEPT !.testsOrTags = Trimmed(@), !.sectionsToRun = Trimmed(@)]
          /\ input' = [args |-> config'.testsOrTags, noThrow |-> config.noThrow, written |-> line.written]
  /\ UNCHANGED <<arg, pos, stage, parser, selected, astray, line, tokens, used, listed>>

(* Config goes on to parse the specification; TestSpec there also chooses  *)
(* the test cases of the TestGroup, which is made later if nothing is      *)
(* listed.                                                                 *)
ParseSpec ==
  /\ outcome = "constructed"
  /\ Parse \/ VisitChar \/ ArgEnds \/ TestSpec
  /\ UNCHANGED lineVars

(* Faulty variant of the next definition: tests are not looked at twice.   *)
filterTestsAll(p) ==
  {t \in TestCases : IF p.filters = <<>> THEN ~ isHidden(t)
                     ELSE \E i \in DOMAIN p.filters : FilterMatches(p.filters[i], t)}

filterTests(p) ==
  {t \in TestCases : IF p.filters = <<>> THEN ~ isHidden(t)
                     ELSE isThrowSafe(t) /\ \E i \in DOMAIN p.filters : FilterMatches(p.filters[i], t)}

Lists == config.listTests \/ config.listTags \/ config.listReporters

(* list(), or the TestGroup: both begin by sorting the test cases, which   *)
(* throws when two have one name, but for a list of the reporters only.    *)
Run ==
  /\ outcome = "constructed" /\ stage = "done"
  /\ LET sorts == config.listTests \/ config.listTags \/ ~ Lists
     IN  outcome' = CASE sorts /\ line.duplicate -> "thrown"
                      [] ~ (sorts /\ line.duplicate) /\ Lists -> "listed"
                      [] OTHER -> "runs"
  /\ listed' = IF outcome' = "listed" /\ (config.listTests \/ config.listTags)
               THEN filterTests(parser) ELSE {}
  /\ UNCHANGED <<vars, line, tokens, used, config>>

InitLine ==
  /\ line \in Lines
  /\ tokens = loadBuffer(line.words)
  /\ used = {}
  /\ config = ConfigData
  /\ outcome = "none"
  /\ listed = {}
  /\ InitSelect

NextLine ==
  \/ ParseFlag \/ ParseHelp \/ ParseValue \/ ParseArg \/ ParseFails \/ ParseEnds
  \/ StartupFails \/ Construct \/ ParseSpec \/ Run

SpecLine == InitLine /\ [][NextLine]_allVars

-----------------------------------------------------------------------------
(***************************************************************************)
(* However a line is spelled (short or long names, grouped flags, the      *)
(* argument after a delimiter or in a word of its own), the items in it    *)
(* are what Clara makes of it: each sets its member and nothing else, in   *)
(* their order; an item that is not fine, or an option that is given again,*)
(* is refused; and what follows a help option does not matter.             *)
(***************************************************************************)
Heeded ==
  LET helps == {i \in DOMAIN line.items : line.items[i].field = "showHelp"}
  IN  IF helps = {} THEN line.items ELSE SubSeq(line.items, 1, Min(helps))

Unfit(items) ==
  \E i \in DOMAIN items :
    \/ ~ items[i].fine
    \/ \E j \in 1 .. i - 1 : items[i].once /\ items[j].option = items[i].option

Meaning(items) ==
  FoldLeft(LAMBDA c, item :
             [c EXCEPT ![item.field] = IF item.adds THEN @ \o item.value ELSE item.value],
           ConfigData, items)

ParsedAsWritten ==
  line.known =>
    /\ outcome = "refused" => Unfit(Heeded)
    /\ outcome = "accepted" => ~ Unfit(Heeded) /\ config = Meaning(Heeded)

(***************************************************************************)
(* "list all/matching test cases", says the help on --list-tests: what is  *)
(* listed is what would run, unless all of the specification is invalid.   *)
(***************************************************************************)
ListsWhatRuns ==
  outcome = "listed" /\ (config.listTests \/ config.listTags) =>
    listed = selected \/ (parser.filters = <<>> /\ parser.invalid # <<>>)
=============================================================================
