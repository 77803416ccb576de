----------------------------- MODULE PlanSurface -----------------------------
(***************************************************************************)
(* check-ordinary-wallet-plan-surface.py, the gate a change to the crate   *)
(* ordinary-wallet-plan has to pass: whole files and single items are      *)
(* pinned, and what the source declares, exports, imports and calls is     *)
(* taken from it, with three scans of its own, and held against what was   *)
(* reviewed. An author edits the crate, or a crate it relies on, and may   *)
(* renew the pins of whole files; the rest of what was reviewed stands.    *)
(*                                                                         *)
(* A line is a sequence of symbols, with a blank between two of them where  *)
(* they would be read as something else without: two words, a word and a   *)
(* quotation mark. Nothing else stands between a comment and its neighbours *)
(* but a Blank where one is written, so a scan that takes a comment out    *)
(* from between two words leaves one word. Signs are not joined so, nor a  *)
(* word with the literal behind it: what properties are of excludes both   *)
(* (Legible). A backslash in code, which is no Rust, is no token. Nesting  *)
(* of brackets is not bounded. A digest stands for what it is a digest of, *)
(* and an inventory that cannot be taken is Refused, which no reviewed     *)
(* inventory equals.                                                       *)
(***************************************************************************)
EXTENDS Integers, Sequences, FiniteSets, SequencesExt

CONSTANTS
  Symbols,             \* what lines are made of
  ReviewedCrate,       \* the lines of each file of the crate, as reviewed
  ReviewedAuthority,   \* and of a crate it relies on
  ReviewedManifest,    \* the tables of its Cargo.toml
  Production,          \* PRODUCTION_FILES, in their order
  Roots,               \* DEPENDENCY_ROOTS
  DependencyNames,     \* the names EXPECTED_DEPENDENCY_ITEMS counts
  Forbidden,           \* FORBIDDEN and FORBIDDEN_*_API: runs of symbols
  Calls,               \* the calls counted in the crate, and in the authority
  PinnedItems,         \* the items pinned in the authority: runs of symbols
  Type,                \* a type whose methods are listed
  EnumMarker, BodyMarker,        \* where two pinned items of the crate begin
  RegionStart, RegionEnd,        \* and what a pinned region stands between
  ThreadLocal,         \* EXPECTED_TEST_THREAD_LOCAL
  FirstLines,          \* bound: lines an author puts in first
  LaterLines,          \* bound: and after that
  Drafts               \* bound: edits of an author

ASSUME SurfaceAssumption ==
  /\ {"literal", "lifetime", "character"} \cap Symbols = {}     \* what scans put down
  /\ "lib" \in DOMAIN ReviewedCrate /\ ReviewedCrate["lib"] \in Seq(Seq(Symbols))
  /\ ReviewedAuthority \in Seq(Seq(Symbols))
  /\ \A what \in {"lib", "authority"} :
       FirstLines[what] \cup LaterLines[what] \subseteq Seq(Symbols)

VARIABLES
  crate,       \* the lines of the files of the crate
  linked,      \* those that are symbolic links
  manifest,    \* the tables of its Cargo.toml
  authority,   \* the lines of the crate it relies on
  pins,        \* what the whole-file pins are of
  drafts,      \* edits left to the author
  surface      \* what the gate said

surfaceVars == <<crate, linked, manifest, authority, pins, drafts, surface>>

EOL == "end of line"
Blank == " "
Tick == "'"
Quote == "quote"
RawQuote == "raw quote"            \* r and a quotation mark
EscapedQuote == "escaped quote"    \* a backslash and a quotation mark
Refused == << <<"refused">> >>

WithEnds(lines) == FlattenSeq([i \in DOMAIN lines |-> Append(lines[i], EOL)])
AllLines(files) == FlattenSeq([i \in DOMAIN Production |-> files[Production[i]]])
SourceOf(files) == WithEnds(AllLines(files))

Occurrences(run, text) ==
  {i \in 1..Len(text) - Len(run) + 1 : SubSeq(text, i, i + Len(run) - 1) = run}
IsSpace(s) == s \in {EOL, Blank}
Unbroken(text) == SelectSeq(text, LAMBDA s : ~IsSpace(s))
Counter(seq) == [v \in Range(seq) |-> Cardinality({i \in DOMAIN seq : seq[i] = v})]
First(places) == IF places = {} THEN 0 ELSE Min(places)
InOrder(places, seq) ==
  LET upTo[i \in 0..Len(seq)] ==
        IF i = 0 THEN << >>
        ELSE IF i \in places THEN Append(upTo[i - 1], i) ELSE upTo[i - 1]
  IN upTo[Len(seq)]
At(places, seq, skip) ==        \* what stands skip places on, in order
  LET order == InOrder(places, seq) IN [k \in DOMAIN order |-> seq[order[k] + skip]]

Delimiter == {"//", "/*", "*/", Quote, RawQuote, EscapedQuote}
Signs == {"::", ":", "<", ">", ".", "!", "#[", "#![", Tick}
Punctuation == Signs \cup {"(", ")", "[", "]", "{", "}", ";", "(crate)", "literal", "lifetime"}
IsName(symbol) == symbol \notin Punctuation \cup Delimiter \cup {EOL, Blank}

\* How far the brackets of text[from .. to] are still open.
Level(text, from, to, opening, closing) ==
  Cardinality({i \in from..to : text[i] = opening})
    - Cardinality({i \in from..to : text[i] = closing})
Matching(text, at, opening, closing) ==
  First({i \in at..Len(text) : Level(text, at, i, opening, closing) = 0})

-----------------------------------------------------------------------------
(* The scans. Where the text stands: in code, in a comment (how deep in a  *)
(* nest of them), or in a literal or a lifetime (how much is left of it).  *)

In(kind, depth) == [kind |-> kind, depth |-> depth]
Code == In("code", 0)
InComment(mode) == mode.kind \in {"line", "block"}
InLiteral(mode) == mode.kind \in {"text", "raw"}
Ended(modes) == Last(modes).kind \in {"code", "line"}

CommentStep(mode, s) ==
  IF mode.kind = "line" THEN IF s = EOL THEN Code ELSE mode
  ELSE CASE s = "/*" -> In("block", mode.depth + 1)
         [] s = "*/" -> IF mode.depth = 1 THEN Code ELSE In("block", mode.depth - 1)
         [] OTHER -> mode

LiteralStep(mode, s) ==
  IF s \in {Quote, RawQuote} \/ (mode.kind = "raw" /\ s = EscapedQuote) THEN Code ELSE mode

LiteralOpened(s) ==
  CASE s = RawQuote -> In("raw", 0)
    [] s \in {Quote, EscapedQuote} -> In("text", 0)
    [] OTHER -> Code

\* strip_rust_comments takes no notice of an apostrophe.
Opened(s) ==
  CASE s = "//" -> In("line", 0)
    [] s = "/*" -> In("block", 1)
    [] OTHER -> LiteralOpened(s)
StripStep(mode, s) ==
  IF InComment(mode) THEN CommentStep(mode, s)
  ELSE IF InLiteral(mode) THEN LiteralStep(mode, s) ELSE Opened(s)

\* Where the text stands after each of its symbols; it starts in code.
StripThen(modes, s) == Append(modes, StripStep(Last(modes), s))
StripModes(text) ==
  LET modes[i \in 0..Len(text)] ==
        IF i = 0 THEN <<Code>> ELSE StripThen(modes[i - 1], text[i])
  IN modes[Len(text)]

\* The places of a comment; the ends of lines in it are not of it.
Hidden(text, modes, i) == text[i] # EOL /\ (InComment(modes[i]) \/ InComment(modes[i + 1]))

\* What is left at some places, a word at one joined to the word before it.
PiecedThen(pieces, s, at, joins) ==
  IF joins /\ IsName(s) /\ IsName(Last(pieces).value)
  THEN Append(Front(pieces), [Last(pieces) EXCEPT !.value = @ \o s])
  ELSE Append(pieces, [value |-> s, at |-> at])
Pieced(text, places, Joins(_, _)) ==
  LET upTo[k \in 0..Len(places)] ==
        IF k = 0 THEN << >>
        ELSE PiecedThen(upTo[k - 1], text[places[k]], places[k],
                        k > 1 /\ Joins(places[k - 1], places[k]))
  IN upTo[Len(places)]
Values(pieces) == [k \in DOMAIN pieces |-> pieces[k].value]

\* strip_rust_comments leaves nothing where a comment was but the ends of lines.
StripComments(text) ==
  LET modes == StripModes(text)
      left == InOrder({i \in DOMAIN text : ~Hidden(text, modes, i)}, text)
  IN Values(Pieced(text, left, LAMBDA i, j : j > i + 1))

\* An apostrophe opens a character literal, or else a lifetime.
OneCharacter ==
  {Quote, EscapedQuote, Blank, "T", ";", ":", ".", "!", "<", ">", "{", "}", "(", ")", "[", "]"}
CharacterAt(text, i) ==
  i + 2 <= Len(text) /\ text[i] = Tick /\ text[i + 1] \in OneCharacter /\ text[i + 2] = Tick
LifetimeAt(text, i) == i + 1 <= Len(text) /\ text[i] = Tick /\ IsName(text[i + 1])
Marked(text) ==
  [i \in DOMAIN text |-> IF CharacterAt(text, i) THEN "character"
                         ELSE IF LifetimeAt(text, i) THEN "lifetime" ELSE text[i]]
CountedOff(mode) == IF mode.depth = 1 THEN Code ELSE In(mode.kind, mode.depth - 1)

\* rust_tokens goes over what is left, with no comments in it.
TokenStep(mode, s) ==
  IF mode.kind \in {"character", "lifetime"} THEN CountedOff(mode)
  ELSE IF InLiteral(mode) THEN LiteralStep(mode, s)
  ELSE CASE s = "character" -> In(s, 2)
         [] s = "lifetime" -> In(s, 1)
         [] OTHER -> LiteralOpened(s)
TokenThen(modes, s) == Append(modes, TokenStep(Last(modes), s))
TokenModes(text) ==
  LET marked == Marked(text)
      modes[i \in 0..Len(text)] ==
        IF i = 0 THEN <<Code>> ELSE TokenThen(modes[i - 1], marked[i])
  IN modes[Len(text)]
TokenAt(text, mode, i) ==
  CASE mode = Code -> text[i]
    [] mode.kind = "lifetime" -> "lifetime"
    [] OTHER -> "literal"
TokensOf(text, modes) ==
  LET at == InOrder({i \in DOMAIN text : ~IsSpace(text[i]) /\ modes[i] = Code}, text)
  IN [k \in DOMAIN at |-> TokenAt(text, modes[at[k] + 1], at[k])]
Tokens(text) == TokensOf(StripComments(text), TokenModes(StripComments(text)))
Readable(text) ==
  Ended(StripModes(text)) /\ Last(TokenModes(StripComments(text))) = Code

\* masked_rust_source blanks comments and literals, where they are, and
\* rust_token_spans keeps the places; a lifetime is an apostrophe and a name.
FlatMaskStep(mode, s) ==        \* Slip: comments do not nest
  IF mode.kind = "character" THEN CountedOff(mode)
  ELSE IF mode.kind = "block" THEN IF s = "*/" THEN Code ELSE mode
  ELSE IF mode = Code /\ s = "character" THEN In(s, 2)
  ELSE StripStep(mode, s)
MaskStep(mode, s) ==
  IF mode.kind = "character" THEN CountedOff(mode)
  ELSE IF mode = Code /\ s = "character" THEN In(s, 2)
  ELSE StripStep(mode, s)
MaskThen(modes, s) == Append(modes, MaskStep(Last(modes), s))
MaskModes(text) ==
  LET marked == Marked(text)
      modes[i \in 0..Len(text)] ==
        IF i = 0 THEN <<Code>> ELSE MaskThen(modes[i - 1], marked[i])
  IN modes[Len(text)]
Unmasked(text) ==
  LET modes == MaskModes(text)
  IN InOrder({i \in DOMAIN text : ~IsSpace(text[i]) /\ modes[i] = Code /\ modes[i + 1] = Code}, text)
TokenSpans(text) ==
  LET at == Unmasked(text) IN [k \in DOMAIN at |-> [value |-> text[at[k]], at |-> at[k]]]

-----------------------------------------------------------------------------
(* Items and regions.                                                      *)

\* authority_item: to the semicolon or the brace that ends the one item.
ItemEnd(values, from) ==
  LET stops == {i \in from..Len(values) :
                  /\ values[i] \in {";", "{"}
                  /\ Level(values, from, i, "(", ")") = 0
                  /\ Level(values, from, i, "<", ">") = 0}
      stop == First(stops)
  IN IF stop = 0 \/ values[stop] = ";" THEN stop ELSE Matching(values, stop, "{", "}")
AuthorityItem(text, marker) ==
  LET spans == TokenSpans(text)
      starts == Occurrences(marker, Values(spans))
      start == First(starts)
      end == ItemEnd(Values(spans), start + Len(marker))
  IN IF Cardinality(starts) # 1 \/ end = 0 THEN Refused[1]
     ELSE SubSeq(text, spans[start].at, spans[end].at)

\* Every impl outside another, where its body opens and closes.
Impls(values) ==
  LET from[i \in 1..Len(values) + 1] ==
        LET open == First({o \in i..Len(values) : values[o] = "{"})
            close == Matching(values, open, "{", "}")
        IN IF i > Len(values) THEN {}
           ELSE IF values[i] # "impl" THEN from[i + 1]
           ELSE IF open = 0 THEN {}
           ELSE IF close = 0 THEN {Refused}
           ELSE {<<i, open, close>>} \cup from[close + 1]
  IN from[1]
MethodsIn(values, open, close) ==
  {i \in open + 1..close - 1 : values[i] = "fn" /\ Level(values, open, i, "{", "}") = 1}
InherentMethods(text, type) ==
  LET values == Values(TokenSpans(text))
      impls == Impls(values)
      ours == {p \in impls \ {Refused} :
                 LET header == Range(SubSeq(values, p[1] + 1, p[2] - 1))
                 IN "for" \notin header /\ type \in header}
      methods == UNION {MethodsIn(values, p[2], p[3]) : p \in ours}
  IN IF Refused \in impls \/ \E i \in methods : ~IsName(values[i + 1]) THEN Refused
     ELSE Counter(At(methods, values, 1))

\* braced_item counts the braces of the bare text.
BracedItem(text, marker) ==
  LET starts == Occurrences(marker, text)
      start == First(starts)
      open == First({i \in start..Len(text) : text[i] = "{"})
      close == Matching(text, open, "{", "}")
  IN IF Cardinality(starts) # 1 \/ open = 0 \/ close = 0 THEN Refused[1]
     ELSE SubSeq(text, start, close)
ExactRegion(text, start, end) ==
  LET starts == Occurrences(start, text)
      ends == Occurrences(end, text)
  IN IF Cardinality(starts) # 1 \/ Cardinality(ends) # 1 THEN Refused[1]
     ELSE SubSeq(text, First(starts) + Len(start), First(ends) - 1)

\* What validate_process_global_state looks for static in.
OutsideTestState(text) ==
  LET item == BracedItem(text, ThreadLocal)
      at == First(Occurrences(item, text))
  IN SubSeq(text, 1, at - 1) \o SubSeq(text, at + Len(item), Len(text))

-----------------------------------------------------------------------------
(* What the crate uses of others, taken from the tokens.                   *)

\* use_statement_spans; a use that does not end is one to 0.
Uses(tokens) ==
  {<<i, First({j \in i + 1..Len(tokens) :
                 tokens[j] = ";" /\ Level(tokens, i, j, "{", "}") = 0})>> :
     i \in {k \in DOMAIN tokens : tokens[k] = "use"}}
RootUses(tokens) == {u \in Uses(tokens) : Roots \cap Range(SubSeq(tokens, u[1], u[2])) # {}}

\* use_has_visibility: pub, or pub and something in brackets.
Visible(tokens, start) ==
  start > 1 /\ (tokens[start - 1] = "pub" \/ (tokens[start - 1] = "(crate)" /\ tokens[start - 2] = "pub"))

UsesIn(tokens) ==
  [statement \in {SubSeq(tokens, u[1], u[2]) : u \in RootUses(tokens)} |->
     Cardinality({u \in RootUses(tokens) : SubSeq(tokens, u[1], u[2]) = statement})]

\* A root is named nowhere but where it is imported.
RootsAreImported(tokens) ==
  \A i \in DOMAIN tokens :
    tokens[i] \in Roots => \E u \in RootUses(tokens) : u[1] <= i /\ i < u[2]

UsesAreWhole(tokens) == \A u \in Uses(tokens) : u[2] # 0
UsesStayInside(tokens) == \A u \in RootUses(tokens) : ~Visible(tokens, u[1])

References(tokens) ==
  Counter(SelectSeq(tokens, LAMBDA t : t \in DependencyNames))
Associated(tokens) ==
  LET at == {i \in 1..Len(tokens) - 2 :
               tokens[i] \in DependencyNames /\ tokens[i + 1] = "::" /\ IsName(tokens[i + 2])}
  IN Counter([k \in DOMAIN InOrder(at, tokens) |->
                SubSeq(tokens, InOrder(at, tokens)[k], InOrder(at, tokens)[k] + 2)])
Members(tokens) ==
  At({i \in 1..Len(tokens) - 1 : tokens[i] = "." /\ IsName(tokens[i + 1])}, tokens, 1)

\* std is never imported, and what is taken of it is counted.
StdStaysPath(tokens) ==
  /\ \A u \in Uses(tokens) : "std" \notin Range(SubSeq(tokens, u[1], u[2]))
  /\ \A i \in DOMAIN tokens :
       tokens[i] = "std" => i + 2 <= Len(tokens) /\ tokens[i + 1] = "::"
StdHeads(tokens) ==
  Counter(At({i \in 1..Len(tokens) - 2 : tokens[i] = "std"}, tokens, 2))

-----------------------------------------------------------------------------
(* What the crate declares, taken from its lines.                          *)

Starts(line, symbol) == line # << >> /\ line[1] = symbol
IsAttribute(line) == Starts(line, "#[") /\ Last(line) = "]"

\* adjacent_attributes
AttributesAbove(lines, i) ==
  LET run == {j \in 1..i - 1 : \A k \in j..i - 1 : IsAttribute(lines[k])}
  IN SubSeq(lines, i - Cardinality(run), i - 1)

LinesStarting(lines, symbol) == {i \in DOMAIN lines : Starts(lines[i], symbol)}

\* pub, or pub(crate), taken off.
Unmarked(line) ==
  IF ~Starts(line, "pub") THEN line
  ELSE IF Starts(Tail(line), "(crate)") THEN Tail(Tail(line)) ELSE Tail(line)
Kinds == {"struct", "enum", "trait", "type", "union", "fn"}

ModuleDeclarations(lines) ==
  LET at == InOrder({i \in DOMAIN lines : Starts(Unmarked(lines[i]), "mod")}, lines)
  IN [k \in DOMAIN at |-> <<AttributesAbove(lines, at[k]), lines[at[k]]>>]
PublicItems(lines) ==
  {i \in LinesStarting(lines, "pub") : \E kind \in Kinds : Starts(Unmarked(lines[i]), kind)}
PublicItemAttributes(lines) ==
  LET at == InOrder(PublicItems(lines), lines)
  IN [k \in DOMAIN at |-> <<SubSeq(Unmarked(lines[at[k]]), 1, 2), AttributesAbove(lines, at[k])>>]
PublicApi(lines) ==
  Counter(SelectSeq(lines, LAMBDA line :
    Starts(line, "pub") /\ \E kind \in Kinds \ {"union"} : Starts(Tail(line), kind)))
VisibilitySyntax(lines) == Counter(SelectSeq(lines, LAMBDA line : Starts(line, "pub")))

\* public_signatures and trait_impls read on to the line with the brace.
HeaderEnd(lines, i) == First({j \in i..Len(lines) : "{" \in Range(lines[j])})
Header(lines, i) ==
  IF HeaderEnd(lines, i) = 0 THEN Refused ELSE SubSeq(lines, i, HeaderEnd(lines, i))
PublicSignatures(lines) ==
  LET from[i \in 1..Len(lines) + 1] ==
        IF i > Len(lines) THEN << >>
        ELSE IF ~(Starts(lines[i], "pub") /\ Starts(Unmarked(lines[i]), "fn")) THEN from[i + 1]
        ELSE IF HeaderEnd(lines, i) = 0 THEN <<Refused>>
        ELSE <<Header(lines, i)>> \o from[HeaderEnd(lines, i) + 1]
  IN from[1]
TraitImpls(lines) ==
  LET at == InOrder({i \in LinesStarting(lines, "impl") :
                       HeaderEnd(lines, i) = 0 \/ "for" \in Range(FlattenSeq(Header(lines, i)))}, lines)
  IN Counter([k \in DOMAIN at |->
                <<AttributesAbove(lines, at[k]), FlattenSeq(Header(lines, at[k]))>>])

CrateAttributes(lines) ==
  SelectSeq(lines, LAMBDA line : Starts(line, "#![") /\ Last(line) = "]")
OuterAttributes(lines) == SelectSeq(lines, LAMBDA line : IsAttribute(line) /\ line[2] # "path")

\* rust_attributes, wherever they stand in a text without comments.
RustAttributes(text) ==
  LET from[i \in 1..Len(text) + 1] ==
        LET close == First({j \in i..Len(text) : text[j] = "]"})
        IN IF i > Len(text) THEN << >>
           ELSE IF text[i] \notin {"#[", "#!["} THEN from[i + 1]
           ELSE IF close = 0 THEN <<Refused[1]>>
           ELSE <<Unbroken(SubSeq(text, i, close))>> \o from[close + 1]
  IN from[1]

\* FUNCTION_LIKE_MACRO
Macros(text) ==
  Counter(At({i \in 1..Len(text) - 2 : IsName(text[i]) /\ text[i + 1] = "!"
                                        /\ text[i + 2] \in {"(", "{", "["}}, text, 0))

-----------------------------------------------------------------------------
(* The gate.                                                               *)

\* Cargo's account of the files the library is compiled from.
ModuleFiles(code) == {i \in 1..Len(code) - 2 : code[i] = "mod" /\ code[i + 2] = ";"}
CompiledFrom(text) ==
  LET code == Values(TokenSpans(text))
      tests == {i \in DOMAIN code : i > 2 /\ code[i - 2] = "cfg(test)" /\ code[i - 1] = "]"}
  IN {"lib"} \cup {code[i + 1] : i \in ModuleFiles(code) \ tests}

\* What is taken from the source, file by file and of all of it.
FileInventory(lines) ==
  <<ModuleDeclarations(lines), CrateAttributes(lines), OuterAttributes(lines),
    RustAttributes(StripComments(WithEnds(lines))), PublicItemAttributes(lines),
    VisibilitySyntax(lines), PublicSignatures(lines), TraitImpls(lines)>>
DependencyInventory(tokens) ==
  <<UsesIn(tokens), References(tokens), Associated(tokens), Members(tokens), StdHeads(tokens)>>
CallEdges(text) == [c \in Calls |-> Cardinality(Occurrences(c, text))]
CrateItems(text) ==
  <<BracedItem(text, EnumMarker), BracedItem(text, BodyMarker), BracedItem(text, ThreadLocal),
    ExactRegion(text, RegionStart, RegionEnd), CallEdges(text)>>
AuthorityRegions(text) == [m \in PinnedItems |-> AuthorityItem(text, m)]
AuthorityInventory(text) ==
  <<AuthorityRegions(text), InherentMethods(text, Type), CallEdges(text)>>

ExpectedFiles == [f \in Range(Production) |-> FileInventory(ReviewedCrate[f])]
ExpectedUses == [f \in Range(Production) |-> DependencyInventory(Tokens(WithEnds(ReviewedCrate[f])))]
ExpectedApi == PublicApi(AllLines(ReviewedCrate))
ExpectedItems == CrateItems(SourceOf(ReviewedCrate))
ExpectedAuthority == AuthorityInventory(WithEnds(ReviewedAuthority))
ExpectedMacros == Macros(Unbroken(StripComments(SourceOf(ReviewedCrate))))

ManifestStands == manifest = ReviewedManifest
FilesStand == DOMAIN crate = DOMAIN ReviewedCrate /\ linked = {} /\ ManifestStands
PinsHold(pinned) ==
  /\ crate = pinned.crate /\ authority = pinned.authority
  /\ Ended(MaskModes(SourceOf(crate))) /\ CompiledFrom(SourceOf(crate)) = Range(Production)
AuthorityStands ==
  /\ Ended(MaskModes(WithEnds(authority)))
  /\ AuthorityInventory(WithEnds(authority)) = ExpectedAuthority

\* FORBIDDEN and unsafe, in a text without comments.
NothingForbidden(text) ==
  "unsafe" \notin Range(text) /\ \A run \in Forbidden : Occurrences(run, text) = {}
NoGlobalState(text) ==
  /\ Readable(OutsideTestState(text))
  /\ "static" \notin Range(Tokens(OutsideTestState(text)))

UnboundVisibility(text, files) ==        \* Slip: pub is looked for at the start of a line
  TRUE
PubsAreLines(text, files) ==
  Cardinality({i \in DOMAIN text : text[i] = "pub"})
    = Cardinality(LinesStarting(AllLines(files), "pub"))

DependenciesStand(tokens, f) ==
  /\ UsesAreWhole(tokens) /\ UsesStayInside(tokens) /\ RootsAreImported(tokens)
  /\ StdStaysPath(tokens) /\ DependencyInventory(tokens) = ExpectedUses[f]

Accepts(pinned) ==
  /\ FilesStand
  /\ Readable(SourceOf(crate))
  /\ PubsAreLines(SourceOf(crate), crate)
  /\ PinsHold(pinned)
  /\ AuthorityStands
  /\ NothingForbidden(Unbroken(StripComments(SourceOf(crate))))
  /\ Macros(Unbroken(StripComments(SourceOf(crate)))) = ExpectedMacros
  /\ CrateItems(SourceOf(crate)) = ExpectedItems
  /\ NoGlobalState(SourceOf(crate))
  /\ PublicApi(AllLines(crate)) = ExpectedApi
  /\ \A f \in Range(Production) :
       /\ FileInventory(crate[f]) = ExpectedFiles[f]
       /\ Readable(WithEnds(crate[f])) /\ DependenciesStand(Tokens(WithEnds(crate[f])), f)

Verdict(pinned) == IF Accepts(pinned) THEN "accepted" ELSE "rejected"
Judge ==
  /\ surface = "unjudged" /\ surface' = Verdict(pins)
  /\ UNCHANGED <<crate, linked, manifest, authority, pins, drafts>>

\* The author renews the pins of whole files, and nothing else, before that.
RenewAndJudge ==
  /\ surface = "unjudged"
  /\ pins' = [crate |-> crate, authority |-> authority] /\ pins' # pins
  /\ surface' = Verdict(pins')
  /\ UNCHANGED <<crate, linked, manifest, authority, drafts>>

-----------------------------------------------------------------------------
(* The author, and what the gate is for.                                   *)

SurfaceInit ==
  /\ crate = ReviewedCrate /\ linked = {} /\ manifest = ReviewedManifest
  /\ authority = ReviewedAuthority /\ drafts = Drafts /\ surface = "unjudged"
  /\ pins = [crate |-> ReviewedCrate, authority |-> ReviewedAuthority]

PutIn(lines, i, line) == SubSeq(lines, 1, i) \o <<line>> \o SubSeq(lines, i + 1, Len(lines))
TakeOut(lines, i) == SubSeq(lines, 1, i - 1) \o SubSeq(lines, i + 1, Len(lines))
Exchanged(lines, i) == [lines EXCEPT ![i] = lines[i + 1], ![i + 1] = lines[i]]
Offered(what) == IF drafts = Drafts THEN FirstLines[what] ELSE LaterLines[what]

\* Bound: the edits are of the library, or of the other crate, or one of the rest.
Drafted(what) ==
  /\ surface = "unjudged" /\ drafts > 0 /\ drafts' = drafts - 1
  /\ drafts = Drafts \/ (what = "lib" /\ crate["lib"] # ReviewedCrate["lib"])
                      \/ (what = "authority" /\ authority # ReviewedAuthority)

EditCrate ==
  /\ Drafted("lib")
  /\ \E i \in 0..Len(crate["lib"]), line \in Offered("lib") :
       crate' = [crate EXCEPT !["lib"] = PutIn(@, i, line)]
  /\ UNCHANGED <<linked, manifest, authority, pins, surface>>

\* Bound: what is reviewed is rewritten before anything is put in.
RewriteCrate ==
  /\ Drafted("lib") /\ drafts = Drafts
  /\ \/ \E i \in DOMAIN crate["lib"] : crate' = [crate EXCEPT !["lib"] = TakeOut(@, i)]
     \/ \E i \in 1..Len(crate["lib"]) - 1 : crate' = [crate EXCEPT !["lib"] = Exchanged(@, i)]
     \/ \E i \in DOMAIN crate["lib"] : \E k \in DOMAIN crate["lib"][i] :
          crate' = [crate EXCEPT !["lib"][i] = TakeOut(@, k)]
  /\ UNCHANGED <<linked, manifest, authority, pins, surface>>
EditOther ==
  /\ Drafted("rest")
  /\ \E f \in DOMAIN crate \ {"lib"} :
       \/ crate' = [crate EXCEPT ![f] = PutIn(@, Len(@), <<"fn", "drift", "(", ")", "{", "}">>)]
          /\ UNCHANGED linked
       \/ linked' = linked \cup {f} /\ UNCHANGED crate
  /\ UNCHANGED <<manifest, authority, pins, surface>>
AddFile ==
  /\ Drafted("rest") /\ "stray" \notin DOMAIN crate
  /\ crate' = [f \in DOMAIN crate \cup {"stray"} |->
                 IF f = "stray" THEN << >> ELSE crate[f]]
  /\ UNCHANGED <<linked, manifest, authority, pins, surface>>
EditManifest ==
  /\ Drafted("rest")
  /\ manifest' \in {manifest \cup {"bench"}} \cup {manifest \ {t} : t \in manifest}
  /\ UNCHANGED <<crate, linked, authority, pins, surface>>
EditAuthority ==
  /\ Drafted("authority")
  /\ \/ \E i \in 0..Len(authority), line \in Offered("authority") : authority' = PutIn(authority, i, line)
     \/ \E i \in DOMAIN authority : authority' = TakeOut(authority, i)
  /\ UNCHANGED <<crate, linked, manifest, pins, surface>>

SurfaceNext ==
  EditCrate \/ RewriteCrate \/ EditOther \/ AddFile \/ EditManifest \/ EditAuthority
  \/ Judge \/ RenewAndJudge
SurfaceSpec == SurfaceInit /\ [][SurfaceNext]_surfaceVars

\* Pieces of a source, without the apostrophe and the name of a lifetime.
OfLifetime(pieces, k) ==
  /\ k \in 1..Len(pieces) - 1
  /\ pieces[k].value = Tick /\ IsName(pieces[k + 1].value) /\ pieces[k + 1].at = pieces[k].at + 1
BarLifetimes(pieces) ==
  At({k \in DOMAIN pieces : ~OfLifetime(pieces, k) /\ ~OfLifetime(pieces, k - 1)}, pieces, 0)

CodeOf(text) == Values(BarLifetimes(TokenSpans(text)))
Exported(code) ==
  {SubSeq(code, i, First({j \in i..Len(code) : code[j] \in {"{", ";"}})) :
     i \in {k \in DOMAIN code : code[k] = "pub"}}
Used(code) == {SubSeq(code, u[1], u[2]) : u \in RootUses(code)}
Count(symbol, code) == Cardinality({i \in DOMAIN code : code[i] = symbol})
Files(code) == {code[i + 1] : i \in ModuleFiles(code)}

\* The functions of a type, with their bodies.
MethodBodies(code, type) ==
  {SubSeq(code, i, ItemEnd(code, i)) :
     i \in UNION {MethodsIn(code, p[2], p[3]) :
       p \in {q \in Impls(code) : type \in Range(SubSeq(code, q[1], q[2]))
                                  /\ "for" \notin Range(SubSeq(code, q[1], q[2]))}}}

\* A source in which a quotation mark is never a character literal, and no
\* comment begins right behind a sign or ends at an apostrophe or a raw literal.
Legible(text) ==
  \A i \in 1..Len(text) - 1 :
    /\ text[i] \in Signs => text[i + 1] # "/*"
    /\ text[i] = "*/" => text[i + 1] \notin {Tick, RawQuote}
    /\ CharacterAt(text, i) => text[i + 1] \notin {Quote, EscapedQuote}
\* Nor right behind a word, where it may be all that parts it from the next.
WordsApart(text) == \A i \in 1..Len(text) - 1 : IsName(text[i]) => text[i + 1] \notin {"/*", "//"}

\* A change that passes once its pins are renewed exports nothing that was not
\* exported, and no method of the types it relies on is new or another. Where
\* the source is written so that its words are apart, what is compiled also
\* imports from the other crates and names them nowhere else than as reviewed,
\* is safe, keeps no state of the process, and includes no other file. The
\* inventories are of lines, of tokens, of bare text and of items, and it takes
\* all of them: each misses a way to write what another sees.
SurfaceIsReviewed ==
  surface = "accepted" =>
    LET text == SourceOf(crate)
        code == CodeOf(text)
        was == CodeOf(SourceOf(ReviewedCrate))
    IN /\ Exported(code) \subseteq Exported(was)
       /\ MethodBodies(CodeOf(WithEnds(authority)), Type)
            \subseteq MethodBodies(CodeOf(WithEnds(ReviewedAuthority)), Type)
       /\ Legible(text) /\ WordsApart(text) =>
            /\ Used(code) = Used(was) /\ RootsAreImported(code) /\ Files(code) \subseteq Files(was)
            /\ \A symbol \in {"unsafe", "static", "include"} : Count(symbol, code) <= Count(symbol, was)

BarLiterals(tokens) == At({i \in DOMAIN tokens : tokens[i] \notin {"literal", "lifetime"}}, tokens, 0)

\* From one place to another there is a comment and nothing else.
OnlyCommentBetween(text, from, to) ==
  to > from + 1 /\ \A i \in from + 1..to - 1 : Hidden(text, MaskModes(text), i)

\* Two scans read one source: rust_tokens, which goes over a text that another
\* scan has stripped of comments, and rust_token_spans, which goes over a masked
\* one. Where a source is legible they give the same, but for words with a
\* comment and not so much as a blank between them: of those, and of no others,
\* rust_tokens makes one word, which no inventory knows.
ScansAgree ==
  surface = "unjudged" => \A lines \in {crate["lib"], authority} :
    LET text == WithEnds(lines)
        Between(i, j) == OnlyCommentBetween(text, i, j)
    IN Readable(text) /\ Ended(MaskModes(text)) /\ Legible(text) =>
         BarLiterals(Tokens(text)) = Values(BarLifetimes(Pieced(text, Unmasked(text), Between)))
=============================================================================
