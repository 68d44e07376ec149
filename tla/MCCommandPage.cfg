SPECIFICATION Spec
CONSTANTS
  MaxTemplates = 4
  Tokens <- MCTokens
  Slots <- MCSlots
  MaxTokens = 5
INVARIANTS TemplatesAreTheLanguage CyclesAreCut
CHECK_DEADLOCK FALSE
