--------------------------- MODULE MCCommandPage ---------------------------
(* Brackets, a word, the rule, its own intent (a cycle), a rule that is not *)
(* there, and a slot whose values are fragments themselves.                 *)
EXTENDS CommandPage

MCTokens ==
  {Token(k) : k \in {"(", ")", "[", "]", "|"}}
    \cup {Word("a"), RuleRef("", "Mode"), RuleRef("", "Light"), RuleRef("Mode", "x"), SlotRef("s")}

MCSlots == [s |-> << <<Word("b"), Token("["), Word("c"), Token("]")>>, <<Word("a")>> >>]
=============================================================================
