SPECIFICATION FairSpec
CONSTANTS
  Pages = {page}
  Startup = startup
  Nobody = nobody
  Versions = {v1, v2}
  Missing = missing
  Torn = torn
  MaxTries = 2
  MaxChanges = 1
  MaxTroubles = 2
INVARIANTS UntrainedIsNoticed SuggestionsAreKnown
CHECK_DEADLOCK FALSE
PROPERTIES PicturesGetNamed
