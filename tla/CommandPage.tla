----------------------------- MODULE CommandPage -----------------------------
(* What command_templates of http_bridge.py shows while sentences.ini is    *)
(* being edited: it reads the file and the slots at every load of the page, *)
(* whatever they are at that moment.  The promise is stated beside it: what *)
(* a grammar says, by splitting a line at its bars and brackets, as sets.   *)
EXTENDS SentenceTemplates, FiniteSetsExt

CONSTANTS Tokens,      \* what is typed
          Slots,       \* what Rhasspy's /api/slots answers
          MaxTokens    \* bound: tokens typed

VARIABLES
  rule,       \* the body of a rule of the first intent, as far as typed
  sentence    \* a sentence of it

vars == <<rule, sentence>>

(* The lines of the file: its rule is named like the other intent.  While   *)
(* it has no tokens, the sentence is an empty line; with one pair of        *)
(* brackets around it, it is a section.                                     *)
Section(name) == <<Token("["), Word(name), Token("]")>>
Files ==
  << << <<Word("lost")>>,
        Section("Light"), <<Word("Mode"), Word("=")>> \o rule, sentence,
        Section("Mode"), <<Word("a")>>, <<RuleRef("Light", "Mode")>> >> >>

(* The brackets still open behind some tokens; one closed wrongly stays.    *)
Open(tokens) ==
  LET Bracket(stack, tok) ==
        CASE tok.kind \in {"(", "["} -> Append(stack, Closing[tok.kind])
          [] tok.kind \in {")", "]"} ->
               IF stack # <<>> /\ Last(stack) = tok.kind THEN Front(stack)
               ELSE <<"wrong">> \o stack
          [] OTHER -> stack
  IN  FoldLeft(Bracket, <<>>, tokens)

Wrong(tokens) == "wrong" \in ToSet(Open(tokens))

Init == rule = <<>> /\ sentence = <<>>

(* A line with a bracket closed wrongly is not continued.                   *)
Type(tok) ==
  /\ Len(rule) + Len(sentence) < MaxTokens /\ ~Wrong(rule) /\ ~Wrong(sentence)
  /\ \/ rule' = Append(rule, tok) /\ UNCHANGED sentence
     \/ sentence' = Append(sentence, tok) /\ UNCHANGED rule

Next == \E tok \in Tokens : Type(tok)

Spec == Init /\ [][Next]_vars

Page == BuildTemplates(Files, Slots)

-----------------------------------------------------------------------------
(* The promise.                                                             *)

WellNested(tokens) == Open(tokens) = <<>>

(* The first bar that is in no bracket, 0 if there is none; the end of the  *)
(* first item.                                                              *)
Bar(tokens) ==
  LET bars == {i \in DOMAIN tokens :
                 tokens[i].kind = "|" /\ WellNested(SubSeq(tokens, 1, i - 1))}
  IN  IF bars = {} THEN 0 ELSE Min(bars)

ItemEnd(tokens) == Min({i \in DOMAIN tokens : WellNested(SubSeq(tokens, 1, i))})

Before(tokens, i) == SubSeq(tokens, 1, i - 1)
Behind(tokens, i) == SubSeq(tokens, i + 1, Len(tokens))

(* What a reference means: a rule of the same intent first.                 *)
Meant(g, tok, intent) ==
  IF tok.owner = "" /\ tok.name \notin DOMAIN g.intents[intent].rules
  THEN <<IntentNamed(tok.name), Whole>>
  ELSE <<IF tok.owner = "" THEN intent ELSE IntentNamed(tok.owner), tok.name>>

(* What a line says; references are followed to a depth, so that cyclic     *)
(* grammars say something finite.                                           *)
RECURSIVE Says(_, _, _, _)
Says(g, tokens, intent, depth) ==
  LET first == tokens[1]
      end == ItemEnd(tokens)
      group == Says(g, SubSeq(tokens, 2, end - 1), intent, depth)
      key == Meant(g, first, intent)
      All(lines, owner) ==
        UNION {Says(g, lines[i], owner, depth - 1) : i \in DOMAIN lines}
      item ==
        CASE first.kind = "(" -> group
          [] first.kind = "[" -> group \cup {<<>>}
          [] first.kind = "rule" ->
               IF depth <= 0 THEN {} ELSE All(LinesOf(g, key), key[1])
          [] first.kind = "slot" /\ first.name \in DOMAIN g.slots ->
               All(g.slots[first.name], intent)
          [] OTHER -> {<<first>>}
  IN  IF Bar(tokens) # 0
      THEN Says(g, Before(tokens, Bar(tokens)), intent, depth)
             \cup Says(g, Behind(tokens, Bar(tokens)), intent, depth)
      ELSE IF tokens = <<>> THEN {<<>>}
      ELSE {a \o b : a \in item, b \in Says(g, Behind(tokens, end), intent, depth)}

(* In how many ways: a line may say the same thing twice.                   *)
RECURSIVE Ways(_, _, _)
Ways(g, tokens, intent) ==
  LET first == tokens[1]
      end == ItemEnd(tokens)
      group == Ways(g, SubSeq(tokens, 2, end - 1), intent)
      key == Meant(g, first, intent)
      All(lines, owner) ==
        MapThenSumSet(LAMBDA i : Ways(g, lines[i], owner), DOMAIN lines)
      item ==
        CASE first.kind = "(" -> group
          [] first.kind = "[" -> group + 1
          [] first.kind = "rule" -> All(LinesOf(g, key), key[1])
          [] first.kind = "slot" /\ first.name \in DOMAIN g.slots ->
               All(g.slots[first.name], intent)
          [] OTHER -> 1
  IN  IF Bar(tokens) # 0
      THEN Ways(g, Before(tokens, Bar(tokens)), intent)
             + Ways(g, Behind(tokens, Bar(tokens)), intent)
      ELSE IF tokens = <<>> THEN 1
      ELSE item * Ways(g, Behind(tokens, end), intent)

(* No sequence says more than the safety net allows, of the line or of a    *)
(* group in it, as far as it is read: what comes later may say nothing.     *)
RECURSIVE Fits(_, _, _)
Fits(g, tokens, intent) ==
  IF Bar(tokens) # 0
  THEN /\ Fits(g, Before(tokens, Bar(tokens)), intent)
       /\ Fits(g, Behind(tokens, Bar(tokens)), intent)
  ELSE \A i \in DOMAIN tokens :
         LET rest == SubSeq(tokens, i, Len(tokens))
         IN  /\ WellNested(SubSeq(tokens, 1, i)) =>
                  Ways(g, SubSeq(tokens, 1, i), intent) <= MaxTemplates
             /\ tokens[i].kind \in DOMAIN Closing /\ WellNested(Before(tokens, i)) =>
                  Fits(g, SubSeq(rest, 2, ItemEnd(rest) - 1), intent)

(* The keys that a key refers to, and what comes of following them.         *)
Refers(g, key) ==
  {Meant(g, tok, key[1]) :
     tok \in {t \in UNION {ToSet(line) : line \in ToSet(LinesOf(g, key))} : t.kind = "rule"}}

RECURSIVE Reached(_, _)
Reached(g, keys) ==
  LET more == keys \cup UNION {Refers(g, k) : k \in {k \in keys : Known(g, k)}}
  IN  IF more = keys THEN keys ELSE Reached(g, more)

Roots(g) == {<<i, Whole>> : i \in DOMAIN g.intents}
Acyclic(g) ==
  \A k \in Reached(g, Roots(g)) :
    Known(g, k) => k \notin Reached(g, Refers(g, k))

(* Everything that is referred to exists, is well nested and does not say   *)
(* too much.                                                                *)
Proper(g) ==
  LET used == Reached(g, Roots(g))
  IN  /\ \A k \in used :
           Known(g, k) /\ \A line \in ToSet(LinesOf(g, k)) : WellNested(line)
      /\ \A k \in used : \A line \in ToSet(LinesOf(g, k)) : Fits(g, line, k[1])

(* No chain of different references is longer than there are keys.          *)
Language(g) ==
  LET Depth(i) == Cardinality(Reached(g, {<<i, Whole>>}))
      Said(i) == UNION {Says(g, line, i, Depth(i)) : line \in ToSet(g.intents[i].sentences)}
  IN  UNION {{[intent |-> i, tokens |-> said] : said \in Said(i) \ {<<>>}} :
             i \in DOMAIN g.intents}

-----------------------------------------------------------------------------
TypeOK == rule \in Seq(Tokens) /\ sentence \in Seq(Tokens)

(* The page suggests exactly what the grammar says, each sentence once, or  *)
(* it says that the file is wrong: never silently less, or more, however    *)
(* far a line has been typed (_alt, _seq, _item, the cache, MAX_TEMPLATES). *)
TemplatesAreTheLanguage ==
  LET g == Grammar(Files, Slots)
      page == Page
  IN  Acyclic(g) =>
        IF Proper(g)
        THEN /\ ~page.raised /\ IsInjective(page.variants)
             /\ ToSet(page.variants) = Language(g)
        ELSE page.raised

(* A grammar that refers to itself does not hang the page, and what it      *)
(* suggests then can be said (the empty entry that breaks cycles).          *)
CyclesAreCut ==
  LET g == Grammar(Files, Slots)
      page == Page
  IN  ~Acyclic(g) /\ ~page.raised => ToSet(page.variants) \subseteq Language(g)
=============================================================================
