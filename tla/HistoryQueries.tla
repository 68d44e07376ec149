--------------------------- MODULE HistoryQueries ---------------------------
(* The queries of meter/history.py and the routes of history_web.py.  Time  *)
(* is counted in buckets of UTC, a local day has DayLength of them, but the *)
(* day of a clock change.  A database is a function from its buckets to     *)
(* their watts; energy is a sum of watts, and a mean is kept as a sum and a *)
(* count.  Rounding is left out.                                            *)
EXTENDS Integers, FiniteSetsExt, SequencesExt, Functions

CONSTANTS DayLength,   \* buckets of an ordinary day
          Everything   \* a query without from and to

ASSUME QueriesAssumption ==
  DayLength \in Nat \ {0} /\ Everything \notin [start : Int, end : Int]

(* A zone changes its offset once: [at, before, after].                     *)
Larger(a, b) == IF a > b THEN a ELSE b

(* datetime.fromtimestamp(ts, tz)                                           *)
Local(zone, b) == b + (IF b < zone.at THEN zone.before ELSE zone.after)
DateOf(zone, b) == Local(zone, b) \div DayLength
TimeOf(zone, b) == Local(zone, b) % DayLength

(* timestamp() of a local time: the earlier one where there are two.        *)
Timestamp(zone, local) ==
  local - (IF local < zone.at + Larger(zone.before, zone.after)
           THEN zone.before ELSE zone.after)

(* day_bounds_utc: the next day's midnight is found on the local calendar.  *)
\* Mutant: a day has 24 hours.
DayBounds24h(zone, date) ==
  LET start == Timestamp(zone, date * DayLength)
  IN  [start |-> start, end |-> start + DayLength]

DayBounds(zone, date) ==
  [start |-> Timestamp(zone, date * DayLength),
   end |-> Timestamp(zone, (date + 1) * DayLength)]

(* WHERE ts >= ? AND ts < ?                                                 *)
Rows(db, range) ==
  IF range = Everything THEN db
  ELSE Restrict(db, {b \in DOMAIN db : b >= range.start /\ b < range.end})

Window(zone, period) ==
  IF period = Everything THEN Everything
  ELSE [start |-> DayBounds(zone, period.f).start,
        end |-> DayBounds(zone, period.t).end]

Total(db) == MapThenSumSet(LAMBDA b : db[b], DOMAIN db)

Summary(db, range) ==
  LET rows == Rows(db, range)
      watts == {rows[b] : b \in DOMAIN rows}
  IN  IF rows = <<>> THEN [buckets |-> 0]
      ELSE [buckets |-> Cardinality(DOMAIN rows), total |-> Total(rows),
            min |-> Min(watts), max |-> Max(watts),
            first |-> Min(DOMAIN rows), last |-> Max(DOMAIN rows)]

DaysWithData(zone, db, range) ==
  LET rows == Rows(db, range)
  IN  [d \in {DateOf(zone, b) : b \in DOMAIN rows} |->
         LET own == {b \in DOMAIN rows : DateOf(zone, b) = d}
         IN  [buckets |-> Cardinality(own), total |-> Total(Restrict(rows, own))]]

(* day_energy: max() takes the first of several.                            *)
DayEnergy(zone, db, range) ==
  LET days == DaysWithData(zone, db, range)
      most == Max({days[d].total : d \in DOMAIN days})
  IN  IF days = <<>> THEN [days |-> 0]
      ELSE [days |-> Cardinality(DOMAIN days),
            total |-> Total([d \in DOMAIN days |-> days[d].total]),
            top |-> most, date |-> Min({d \in DOMAIN days : days[d].total = most})]

(* average_profile: one pass over the rows in the order of time, which      *)
(* counts a day of a slot when it is not the one seen there last.           *)
\* Mutant: every row counts as another day.
FoldedEachRow(zone, db, step, acc, b) ==
  LET slot == (TimeOf(zone, b) \div step) * step
      a == acc[slot]
      point == IF slot \notin DOMAIN acc
               THEN [total |-> db[b], n |-> 1, min |-> db[b], max |-> db[b],
                     days |-> 1, last |-> DateOf(zone, b)]
               ELSE [total |-> a.total + db[b], n |-> a.n + 1,
                     min |-> Min({a.min, db[b]}), max |-> Max({a.max, db[b]}),
                     days |-> a.days + 1, last |-> DateOf(zone, b)]
  IN  [k \in DOMAIN acc \cup {slot} |-> IF k = slot THEN point ELSE acc[k]]

Folded(zone, db, step, acc, b) ==
  LET slot == (TimeOf(zone, b) \div step) * step
      a == acc[slot]
      date == DateOf(zone, b)
      point == IF slot \notin DOMAIN acc
               THEN [total |-> db[b], n |-> 1, min |-> db[b], max |-> db[b],
                     days |-> 1, last |-> date]
               ELSE [total |-> a.total + db[b], n |-> a.n + 1,
                     min |-> Min({a.min, db[b]}), max |-> Max({a.max, db[b]}),
                     days |-> a.days + (IF date = a.last THEN 0 ELSE 1), last |-> date]
  IN  [k \in DOMAIN acc \cup {slot} |-> IF k = slot THEN point ELSE acc[k]]

AverageProfile(zone, db, range, step) ==
  LET rows == Rows(db, range)
  IN  MapThenFoldSet(LAMBDA b, acc : Folded(zone, rows, step, acc, b), <<>>,
                     LAMBDA b : b, LAMBDA bs : Max(bs), DOMAIN rows)
=============================================================================
