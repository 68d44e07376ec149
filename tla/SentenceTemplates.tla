-------------------------- MODULE SentenceTemplates --------------------------
(* lib/sentence_templates.py: the command page suggests what can be said.   *)
(* For that the sentences of Rhasspy's grammar are expanded by recursive    *)
(* descent: ( ) groups, [ ] is optional, | separates alternatives, <rule>   *)
(* and $slot stand for what they name, a number range stays as it is.       *)
(*                                                                          *)
(* A line is a sequence of tokens, which is what _TOKEN.findall makes of it *)
(* when tags, substitutions and converters are gone.  A result carries the  *)
(* expander's cache along, and tells whether a call has raised.             *)
EXTENDS Integers, Sequences, SequencesExt

CONSTANT MaxTemplates   \* MAX_TEMPLATES

Token(kind) == [kind |-> kind, owner |-> "", name |-> ""]
Word(name) == [kind |-> "word", owner |-> "", name |-> name]
RuleRef(owner, name) == [kind |-> "rule", owner |-> owner, name |-> name]
SlotRef(name) == [kind |-> "slot", owner |-> "", name |-> name]

Closing == [kind \in {"(", "["} |-> IF kind = "(" THEN ")" ELSE "]"]
Ends == {"|", ")", "]", "end"}
KindAt(tokens, pos) == IF pos <= Len(tokens) THEN tokens[pos].kind ELSE "end"

-----------------------------------------------------------------------------
(* parse_ini.  A comment is a line without tokens.                          *)

Blank(line) == line = <<>>

(* _SECTION: one pair of brackets around something.  What it is is the name *)
(* of an intent, so that an optional sentence alone on its line is none.    *)
IsSection(line) ==
  /\ Len(line) > 2 /\ line[1].kind = "["
  /\ {i \in DOMAIN line : line[i].kind = "]"} = {Len(line)}
IntentOf(line) == SubSeq(line, 2, Len(line) - 1)
IntentNamed(name) == <<Word(name)>>
NoSection == <<>>

(* _RULE: a name, an equals sign, the body.                                 *)
IsRule(line) ==
  Len(line) > 1 /\ line[1].kind = "word" /\ line[1] # Word("=") /\ line[2] = Word("=")
Body(line) == SubSeq(line, 3, Len(line))

With(f, key, value) == [k \in DOMAIN f \cup {key} |-> IF k = key THEN value ELSE f[k]]

NoIntent == [sentences |-> <<>>, rules |-> <<>>]

(* A section that comes again is continued; what is in none is left out.    *)
Opens(parsed, intent) ==
  IF intent \in DOMAIN parsed.intents THEN [parsed EXCEPT !.current = intent]
  ELSE [current |-> intent, order |-> Append(parsed.order, intent),
        intents |-> With(parsed.intents, intent, NoIntent)]

ParseLine(parsed, line) ==
  CASE Blank(line) -> parsed
    [] IsSection(line) -> Opens(parsed, IntentOf(line))
    [] ~Blank(line) /\ ~IsSection(line) ->
         IF parsed.current = NoSection THEN parsed
         ELSE IF IsRule(line)
         THEN [parsed EXCEPT !.intents[parsed.current].rules = With(@, line[1].name, Body(line))]
         ELSE [parsed EXCEPT !.intents[parsed.current].sentences = Append(@, line)]

ParseIni(file) ==
  FoldLeft(ParseLine, [current |-> NoSection, order |-> <<>>, intents |-> <<>>], file)

(* intents.update: of an intent in two files the later one counts.          *)
Grammar(files, slots) ==
  LET Update(g, file) ==
        LET p == ParseIni(file)
        IN  [order |-> g.order \o SelectSeq(p.order, LAMBDA i : i \notin DOMAIN g.intents),
             intents |-> [i \in DOMAIN g.intents \cup DOMAIN p.intents |->
                            IF i \in DOMAIN p.intents THEN p.intents[i] ELSE g.intents[i]],
             slots |-> slots]
  IN  FoldLeft(Update, [order |-> <<>>, intents |-> <<>>, slots |-> slots], files)

-----------------------------------------------------------------------------
(* The references.                                                          *)

(* (owner, None): all sentences of an intent.                               *)
Whole == ""

(* <rule> is local to the intent, <Intent.rule> reaches into another one,   *)
(* <Intent> stands for all sentences of that intent.                        *)
\* Mutant: the intents come before the local rules.
KeyOfGlobal(g, tok, intent) ==
  IF tok.owner # "" THEN <<IntentNamed(tok.owner), tok.name>>
  ELSE IF IntentNamed(tok.name) \in DOMAIN g.intents THEN <<IntentNamed(tok.name), Whole>>
  ELSE <<intent, tok.name>>

KeyOf(g, tok, intent) ==
  IF tok.owner # "" THEN <<IntentNamed(tok.owner), tok.name>>
  ELSE IF tok.name \in DOMAIN g.intents[intent].rules THEN <<intent, tok.name>>
  ELSE <<IntentNamed(tok.name), Whole>>

Known(g, key) ==
  key[1] \in DOMAIN g.intents /\ key[2] \in DOMAIN g.intents[key[1]].rules \cup {Whole}

LinesOf(g, key) ==
  IF key[2] = Whole THEN g.intents[key[1]].sentences
  ELSE <<g.intents[key[1]].rules[key[2]]>>

(* A rule under expansion says nothing, which breaks reference cycles.      *)
\* Mutant: it says the empty sentence.
OpenedEmpty(cache, key) == With(cache, key, << <<>> >>)
Opened(cache, key) == With(cache, key, <<>>)

-----------------------------------------------------------------------------
(* The expander.                                                            *)

Result(variants, pos, cache) ==
  [variants |-> variants, pos |-> pos, cache |-> cache, raised |-> FALSE]
Raised == [Result(<<>>, 0, <<>>) EXCEPT !.raised = TRUE]

(* itertools.product, each pair joined.                                     *)
Product(front, back) ==
  FlattenSeq([i \in DOMAIN front |-> [j \in DOMAIN back |-> front[i] \o back[j]]])

RECURSIVE Alt(_, _, _, _, _), SeqFrom(_, _, _, _), Item(_, _, _, _, _),
          Rule(_, _, _), Slot(_, _, _, _), ExpandLines(_, _, _, _)

Prefixed(variants, r) == [r EXCEPT !.variants = variants \o @]

(* _alt: what its alternatives say, one after the other.                    *)
NextAlt(g, tokens, intent, first) ==
  IF first.raised \/ KindAt(tokens, first.pos) # "|" THEN first
  ELSE Prefixed(first.variants, Alt(g, tokens, first.pos + 1, intent, first.cache))

Alt(g, tokens, pos, intent, cache) ==
  NextAlt(g, tokens, intent, SeqFrom(g, tokens, Result(<< <<>> >>, pos, cache), intent))

(* _seq, from the position and the variants it has come to.                 *)
Joined(g, tokens, r, item, intent) ==
  IF item.raised \/ Len(r.variants) * Len(item.variants) > MaxTemplates THEN Raised
  ELSE SeqFrom(g, tokens, [item EXCEPT !.variants = Product(r.variants, @)], intent)

SeqFrom(g, tokens, r, intent) ==
  IF KindAt(tokens, r.pos) \in Ends THEN r
  ELSE Joined(g, tokens, r, Item(g, tokens, r.pos, intent, r.cache), intent)

(* _item: one token, or a group up to its closing bracket.                  *)
Closed(tokens, bracket, group) ==
  IF group.raised \/ KindAt(tokens, group.pos) # Closing[bracket] THEN Raised
  ELSE [group EXCEPT !.pos = @ + 1,
                     !.variants = IF bracket = "[" THEN << <<>> >> \o @ ELSE @]

Item(g, tokens, pos, intent, cache) ==
  LET tok == tokens[pos]
  IN  CASE tok.kind \in DOMAIN Closing ->
             Closed(tokens, tok.kind, Alt(g, tokens, pos + 1, intent, cache))
        [] tok.kind = "rule" -> [Rule(g, KeyOf(g, tok, intent), cache) EXCEPT !.pos = pos + 1]
        [] tok.kind = "slot" -> [Slot(g, tok.name, intent, cache) EXCEPT !.pos = pos + 1]
        [] OTHER -> Result(<< <<tok>> >>, pos + 1, cache)

(* _rule and _slot: what is expanded is kept.                               *)
Kept(key, r) == IF r.raised THEN r ELSE [r EXCEPT !.cache = With(@, key, r.variants)]

Rule(g, key, cache) ==
  IF key \in DOMAIN cache THEN Result(cache[key], 0, cache)
  ELSE IF ~Known(g, key) THEN Raised
  ELSE Kept(key, ExpandLines(g, LinesOf(g, key), key[1], Opened(cache, key)))

(* A slot's values are fragments of sentences; an unknown one stays.        *)
Slot(g, name, intent, cache) ==
  LET key == << <<Word("$")>>, name>>
  IN  IF name \notin DOMAIN g.slots THEN Result(<< <<SlotRef(name)>> >>, 0, cache)
      ELSE IF key \in DOMAIN cache THEN Result(cache[key], 0, cache)
      ELSE Kept(key, ExpandLines(g, g.slots[name], intent, cache))

(* expand_intent, and _expand of each line, which must be used up.          *)
NextLine(g, lines, intent, first) ==
  IF first.raised \/ first.pos # Len(Head(lines)) + 1 THEN Raised
  ELSE Prefixed(first.variants, ExpandLines(g, Tail(lines), intent, first.cache))

ExpandLines(g, lines, intent, cache) ==
  IF lines = <<>> THEN Result(<<>>, 0, cache)
  ELSE NextLine(g, lines, intent, Alt(g, Head(lines), 1, intent, cache))

(* build_templates: all intents with one cache; nothing empty, nothing      *)
(* twice.                                                                   *)
Added(templates, intent, variant) ==
  LET t == [intent |-> intent, tokens |-> variant]
  IN  IF variant = <<>> \/ t \in ToSet(templates) THEN templates ELSE Append(templates, t)

BuildTemplates(files, slots) ==
  LET g == Grammar(files, slots)
      Gathered(templates, i, e) ==
        LET Add(ts, v) == Added(ts, i, v)
        IN  [e EXCEPT !.variants = FoldLeft(Add, templates, @)]
      Intent(r, i) ==
        IF r.raised THEN r
        ELSE Gathered(r.variants, i, ExpandLines(g, g.intents[i].sentences, i, r.cache))
  IN  FoldLeft(Intent, Result(<<>>, 0, <<>>), g.order)
=============================================================================
