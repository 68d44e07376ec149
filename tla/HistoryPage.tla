----------------------------- MODULE HistoryPage -----------------------------
(* The script of meter/history_web.py in one browser: calls that fetch and  *)
(* go on with the answer, a refresh every five minutes, and a user who does *)
(* not wait.  Answers come in any order or not at all, and the recorder     *)
(* writes on meanwhile.                                                     *)
(* Names that History has are not used, so that one module can extend both. *)
EXTENDS HistoryQueries

CONSTANTS Zones, Databases,  \* where and with what it starts
          NewBuckets, Watts,    \* what the recorder may write
          Periods, Steps,    \* what the user may choose
          Unset,
          MaxClicks, MaxRefreshes,
          MaxPending,        \* bound: fetches under way when another is made
          MaxAccidents       \* bound: writes of the recorder, lost answers

(* A clock change does not leap over a midnight: the Berlin of history_web  *)
(* changes between two and three o'clock.                                   *)
ASSUME PageAssumption ==
  /\ \A z \in Zones :
       /\ {z.at, z.before, z.after} \subseteq Int
       /\ \A low, high \in {z.before, z.after} :
            \A local \in z.at + low + 1 .. z.at + high - 1 : local % DayLength # 0
  /\ \A db \in Databases : /\ db \in [DOMAIN db -> Nat]
                           /\ DOMAIN db \subseteq Int /\ IsFiniteSet(DOMAIN db)
  /\ NewBuckets \subseteq Int /\ Watts \subseteq Nat
  /\ Periods \subseteq [f : Int, t : Int]
  /\ Steps \subseteq Nat \ {0} /\ IsFiniteSet(Steps) /\ Steps # {}
  /\ {MaxClicks, MaxRefreshes, MaxPending, MaxAccidents} \subseteq Nat
  /\ Unset \notin [f : Int, t : Int] /\ Everything \notin [f : Int, t : Int]

VARIABLES
  zone,
  focus,     \* "day" or "period": the half of the page that is looked at
  dbs,       \* every state the database was in; the last one is now
  asked,     \* for each panel, its fetches without an answer, in their order
  days,      \* DAYS, a set of dates
  cur,       \* CUR
  period,    \* PERIOD
  inputs,    \* pfrom and pto, Unset while empty
  stepSize,  \* pstep
  chart,     \* the day shown: chart, daymeta and the buttons
  stats,     \* pstats
  profile,   \* PROF and the graph of it
  button,    \* the profile's button is enabled
  spoilt,    \* history: panels whose last call failed or was overtaken
  typed,     \* history: the user typed a period and did not press Average
  crossed,   \* history: at the last Average a loadAll was in flight
  clicks, refreshes, accidents

setting == <<zone, focus>>
page == <<days, cur, period, inputs, stepSize, chart, stats, profile, button>>
counters == <<clicks, refreshes, accidents>>
pageVars == <<setting, dbs, asked, page, spoilt, typed, crossed, counters>>

(* What an answer is painted on, and the calls that fetch for it.           *)
Panels == {"stats", "days", "day", "profile"}
PanelOf(call) ==
  IF call \in {"all", "reset", "period", "again"} THEN "stats" ELSE call

(* History: why the code may show a graph next to statistics of another     *)
(* period.  It was asked for a period that was not applied; the period      *)
(* changed while it was under way; the call that would have dropped it      *)
(* failed; a refresh, which drops nothing, took other dates.                *)
Excuses == {"none", "unapplied", "overtaken", "undropped", "refreshed"}

Query(call, about, excuse) ==
  [call |-> call, about |-> about, excuse |-> excuse, since |-> Len(dbs), late |-> FALSE]

(* The halves of the page share the database and the refresh alone, so that *)
(* one of them is followed at a time; what the other one fetches is left    *)
(* out.                                                                     *)
Half == [day |-> {"days", "day"}, period |-> {"stats", "profile"}]
Asking(requests, r) ==
  IF PanelOf(r.call) \notin Half[focus] THEN requests
  ELSE [requests EXCEPT ![PanelOf(r.call)] = Append(@, r)]

Pending(panel) == asked[panel] # <<>>
Loading(call) == \E k \in DOMAIN asked["stats"] : asked["stats"][k].call = call
Room(n) ==
  SumFunctionOnSet([p \in Panels |-> Len(asked[p])], Panels) + n <= MaxPending

(* Without the k-th of a panel; what was asked before it is late.           *)
Without(panel, k) ==
  [asked EXCEPT ![panel] =
     RemoveAt([i \in DOMAIN @ |-> IF i < k THEN [@[i] EXCEPT !.late = TRUE] ELSE @[i]], k)]

Excused(graph, ps, excuse) ==
  IF graph.about.period \in ps THEN graph ELSE [graph EXCEPT !.excuse = excuse]

(* The period changes to one of ps.  Nothing is done to the graphs that are *)
(* under way, which will be shown whatever they are of ...                  *)
Overtaken(requests, ps) ==
  [requests EXCEPT !["profile"] = [i \in DOMAIN @ |-> Excused(@[i], ps, "overtaken")]]

(* ... nor, without dropProfile, to the one that is shown.                  *)
StillShown(ps, excuse) == IF profile = Unset THEN Unset ELSE Excused(profile, ps, excuse)

PageInit ==
  /\ zone \in Zones /\ focus \in DOMAIN Half /\ \E db \in Databases : dbs = <<db>>
  /\ asked = Asking(Asking([p \in Panels |-> <<>>], Query("all", Everything, "none")),
                    Query("days", Unset, "none"))
  /\ days = {} /\ cur = Unset /\ period = Unset /\ inputs = Unset
  /\ stepSize = Min(Steps) /\ chart = Unset /\ stats = Unset /\ profile = Unset
  /\ button = TRUE
  /\ spoilt = {} /\ typed = FALSE /\ crossed = FALSE
  /\ clicks = 0 /\ refreshes = 0 /\ accidents = 0

-----------------------------------------------------------------------------
Accident == accidents < MaxAccidents /\ accidents' = accidents + 1

(* The recorder adds a bucket or rewrites the newest one.                   *)
Record(b, w) ==
  /\ Accident
  /\ \A old \in DOMAIN Last(dbs) : b >= old
  /\ LET db == Last(dbs)
         now == [x \in DOMAIN db \cup {b} |-> IF x = b THEN w ELSE db[x]]
     IN  now # db /\ dbs' = Append(dbs, now)
  /\ UNCHANGED <<setting, asked, page, spoilt, typed, crossed, clicks, refreshes>>

-----------------------------------------------------------------------------
(* What the user does.                                                      *)

Click(half) ==
  /\ focus = half /\ clicks < MaxClicks /\ clicks' = clicks + 1 /\ Room(1)
  /\ UNCHANGED <<refreshes, accidents>>

(* The first part of loadDay.                                               *)
LoadDay(date, requests) ==
  /\ cur' = date
  /\ asked' = Asking(requests, Query("day", date, "none"))

(* The list of days, the table, or the link under the best day.             *)
Offered == days \cup {DateOf(zone, b) : b \in DOMAIN Last(dbs)}

PickDay(date) ==
  /\ Click("day")
  /\ LoadDay(date, asked)
  /\ UNCHANGED <<setting, dbs, days, period, inputs, stepSize, chart, stats, profile,
                 button, spoilt, typed, crossed>>

Neighbours(date, n) ==
  LET side == {d \in days : IF n = 1 THEN d > date ELSE d < date}
  IN  IF date \notin days \/ side = {} THEN {}
      ELSE {IF n = 1 THEN Min(side) ELSE Max(side)}

(* step(), by a button that the chart has enabled.                          *)
StepDay(n) ==
  /\ Click("day")
  /\ chart # Unset /\ cur # Unset
  /\ IF n = 1 THEN chart.next ELSE chart.prev
  /\ \E d \in Neighbours(cur, n) : LoadDay(d, asked)
  /\ UNCHANGED <<setting, dbs, days, period, inputs, stepSize, chart, stats, profile,
                 button, spoilt, typed, crossed>>

TypePeriod(p) ==
  /\ Click("period") /\ p # inputs
  /\ inputs' = p /\ typed' = TRUE
  /\ UNCHANGED <<setting, dbs, asked, days, cur, period, stepSize, chart, stats, profile,
                 button, spoilt, crossed>>

(* loadPeriod, by the button.                                               *)
Average ==
  /\ Click("period") /\ inputs # Unset
  /\ period' = inputs
  /\ asked' = Asking(Overtaken(asked, {inputs}), Query("period", inputs, "none"))
  /\ typed' = FALSE /\ crossed' = (Loading("all") \/ Loading("reset"))
  /\ UNCHANGED <<setting, dbs, days, cur, inputs, stepSize, chart, stats, profile,
                 button, spoilt>>

(* clearPeriod                                                              *)
Reset ==
  /\ Click("period")
  /\ period' = Unset
  /\ asked' = Asking(asked, Query("reset", Everything, "none"))
  /\ UNCHANGED <<setting, dbs, days, cur, inputs, stepSize, chart, stats, profile,
                 button, spoilt, typed, crossed>>

(* The inputs say what the statistics are, or will be, of.                  *)
Applies ==
  IF period = Unset THEN ~typed /\ ~Loading("reset") ELSE inputs = period

LoadProfile(size) ==
  /\ button' = FALSE
  /\ asked' = Asking(asked, Query("profile",
                [period |-> IF inputs = Unset THEN Everything ELSE inputs,
                 step |-> size],
                IF Applies THEN "none" ELSE "unapplied"))

Graph ==
  /\ Click("period") /\ button
  /\ LoadProfile(stepSize)
  /\ UNCHANGED <<setting, dbs, days, cur, period, inputs, stepSize, chart, stats, profile,
                 spoilt, typed, crossed>>

(* The choice of another step asks again if there is a graph.               *)
ChooseStep(size) ==
  /\ Click("period") /\ size # stepSize
  /\ stepSize' = size
  /\ IF profile = Unset THEN UNCHANGED <<asked, button>> ELSE LoadProfile(size)
  /\ UNCHANGED <<setting, dbs, days, cur, period, inputs, chart, stats, profile,
                 spoilt, typed, crossed>>

-----------------------------------------------------------------------------
(* refresh(): the period again, as the inputs have it, or everything.       *)
\* Mutant: everything, whatever the user has chosen.
RefreshAll ==
  /\ refreshes < MaxRefreshes /\ refreshes' = refreshes + 1 /\ Room(2)
  /\ asked' = Asking(Asking(asked, Query("days", Unset, "none")),
                     Query("all", Everything, "none"))
  /\ UNCHANGED <<setting, dbs, page, spoilt, typed, crossed, clicks, accidents>>

Refresh ==
  /\ refreshes < MaxRefreshes /\ refreshes' = refreshes + 1 /\ Room(2)
  /\ LET two == Asking(asked, Query("days", Unset, "none"))
     IN  IF period = Unset
         THEN /\ asked' = Asking(two, Query("all", Everything, "none"))
              /\ UNCHANGED <<period, profile>>
         ELSE /\ period' = inputs
              /\ asked' = Asking(Overtaken(two, {inputs}), Query("again", inputs, "none"))
              /\ profile' = StillShown({inputs}, "refreshed")
  /\ UNCHANGED <<setting, dbs, days, cur, inputs, stepSize, chart, stats, button,
                 spoilt, typed, crossed, clicks, accidents>>

-----------------------------------------------------------------------------
(* Answers.  What a request read is what the database was at some moments   *)
(* between asking and now, for two SELECTs at two moments.                  *)

(* /api/summary, and statBlock.                                             *)
StatsOf(r, i, j) ==
  LET range == Window(zone, r.about)
  IN  [about |-> r.about, seen |-> <<i, j>>,
       summary |-> Summary(dbs[i], range), energy |-> DayEnergy(zone, dbs[j], range)]

(* /api/days, /api/day and /api/profile                                     *)
KnownDays(i) == DOMAIN DaysWithData(zone, dbs[i], Everything)

DayOf(date, i, j) ==
  LET range == DayBounds(zone, date)
  IN  [date |-> date, axis |-> range, seen |-> <<i, j>>,
       series |-> Rows(dbs[i], range), meta |-> Summary(dbs[j], range),
       prev |-> Neighbours(date, -1) # {}, next |-> Neighbours(date, 1) # {}]

ProfileOf(r, i) ==
  [about |-> r.about, excuse |-> r.excuse, seen |-> <<i, i>>,
   slots |-> AverageProfile(zone, dbs[i], Window(zone, r.about.period), r.about.step)]

(* loadAll fills the inputs, if there is anything.                          *)
WrittenOut(summary) ==
  [f |-> DateOf(zone, summary.first), t |-> DateOf(zone, summary.last)]
Filled(summary) ==
  IF summary.buckets = 0 THEN inputs ELSE WrittenOut(summary)

(* dropProfile, for a call that leaves the period.  The others leave what   *)
(* is shown.                                                                *)
\* Mutant: it is forgotten.
GraphStays(call, filled) == profile
GraphAfter(call, filled) ==
  CASE call \in {"period", "reset"} -> Unset
    [] call = "all" /\ period = Unset -> StillShown({Everything, filled}, "refreshed")
    [] OTHER -> profile

ShowSummary(k, i, j) ==
  LET r == asked["stats"][k]
      answer == StatsOf(r, i, j)
      filled == Filled(answer.summary)
      all == r.call \in {"all", "reset"}
      left == Without("stats", k)
  IN  /\ stats' = answer
      /\ inputs' = IF all THEN filled ELSE inputs
      /\ asked' = IF all /\ period = Unset THEN Overtaken(left, {Everything, filled}) ELSE left
      /\ profile' = GraphAfter(r.call, filled)
      /\ typed' = (typed /\ ~(all /\ period = Unset /\ answer.summary.buckets > 0))
      /\ UNCHANGED <<days, cur, period, stepSize, chart, button>>

(* loadDays ends with loadDay of the last day.                              *)
\* Mutant: the day that is shown stays, and is not painted again.
ShowDaysOnly(k, i) ==
  LET known == KnownDays(i)
  IN  /\ days' = known
      /\ IF known = {} \/ cur # Unset THEN asked' = Without("days", k) /\ UNCHANGED cur
         ELSE LoadDay(Max(known), Without("days", k))
      /\ UNCHANGED <<period, inputs, stepSize, chart, stats, profile, button, typed>>

ShowDays(k, i) ==
  LET known == KnownDays(i)
  IN  /\ days' = known
      /\ IF known = {} THEN asked' = Without("days", k) /\ UNCHANGED cur
         ELSE LoadDay(Max(known), Without("days", k))
      /\ UNCHANGED <<period, inputs, stepSize, chart, stats, profile, button, typed>>

(* The rest of loadDay.                                                     *)
ShowDay(k, i, j) ==
  /\ chart' = DayOf(asked["day"][k].about, i, j)
  /\ asked' = Without("day", k)
  /\ UNCHANGED <<days, cur, period, inputs, stepSize, stats, profile, button, typed>>

(* The rest of loadProfile.                                                 *)
ShowProfile(k, i) ==
  /\ profile' = ProfileOf(asked["profile"][k], i)
  /\ button' = TRUE
  /\ asked' = Without("profile", k)
  /\ UNCHANGED <<days, cur, period, inputs, stepSize, chart, stats, typed>>

Answer(panel, k) ==
  /\ \E i \in asked[panel][k].since..Len(dbs), j \in asked[panel][k].since..Len(dbs) :
       /\ i <= j
       /\ \/ panel = "stats" /\ ShowSummary(k, i, j)
          \/ panel = "days" /\ i = j /\ ShowDays(k, i)
          \/ panel = "day" /\ ShowDay(k, i, j)
          \/ panel = "profile" /\ i = j /\ ShowProfile(k, i)
  /\ spoilt' = IF asked[panel][k].late THEN spoilt \cup {panel} ELSE spoilt \ {panel}
  /\ UNCHANGED <<setting, dbs, crossed, counters>>

(* The fetch fails.  Only loadProfile expects it; the others end there, and *)
(* what they would have done is not done.                                   *)
\* Mutant: loadProfile does not expect it either.
FailSilently(panel, k) ==
  LET r == asked[panel][k]
  IN  /\ Accident
      /\ asked' = Without(panel, k)
      /\ profile' = IF r.call \in {"period", "reset"} THEN StillShown({}, "undropped") ELSE profile
      /\ spoilt' = IF r.late THEN spoilt ELSE spoilt \cup {panel}
      /\ UNCHANGED <<setting, dbs, days, cur, period, inputs, stepSize, chart, stats,
                     button, typed, crossed, clicks, refreshes>>

Fail(panel, k) ==
  LET r == asked[panel][k]
  IN  /\ Accident
      /\ asked' = Without(panel, k)
      /\ button' = (button \/ panel = "profile")
      /\ profile' = IF r.call \in {"period", "reset"} THEN StillShown({}, "undropped") ELSE profile
      /\ spoilt' = IF r.late THEN spoilt ELSE spoilt \cup {panel}
      /\ UNCHANGED <<setting, dbs, days, cur, period, inputs, stepSize, chart, stats,
                     typed, crossed, clicks, refreshes>>

PageNext ==
  \/ \E b \in NewBuckets, w \in Watts : Record(b, w)
  \/ \E d \in Offered : PickDay(d)
  \/ \E n \in {-1, 1} : StepDay(n)
  \/ \E p \in Periods : TypePeriod(p)
  \/ Average \/ Reset \/ Graph
  \/ \E size \in Steps : ChooseStep(size)
  \/ Refresh
  \/ \E p \in Panels : \E k \in DOMAIN asked[p] : Answer(p, k) \/ Fail(p, k)

PageSpec == PageInit /\ [][PageNext]_pageVars

-----------------------------------------------------------------------------
Tables == UNION {[bs -> Nat] : bs \in SUBSET Int}
Spans == [f : Int, t : Int]
Calls == {"all", "reset", "period", "again", "days", "day", "profile"}
Requests == [call : Calls,
             about : Int \cup Spans \cup {Everything, Unset}
                       \cup [period : Spans \cup {Everything}, step : Steps],
             excuse : Excuses, since : Nat \ {0}, late : BOOLEAN]

PageTypeOK ==
  /\ zone \in Zones /\ focus \in DOMAIN Half
  /\ dbs \in Seq(Tables) /\ asked \in [Panels -> Seq(Requests)]
  /\ days \subseteq Int /\ cur \in Int \cup {Unset}
  /\ period \in Spans \cup {Unset} /\ inputs \in Spans \cup {Unset}
  /\ stepSize \in Steps /\ {button, typed, crossed} \subseteq BOOLEAN
  /\ spoilt \subseteq Panels
  /\ {clicks, refreshes, accidents} \subseteq Nat

OfDates(f, t, i) ==
  Restrict(dbs[i], {b \in DOMAIN dbs[i] : DateOf(zone, b) \in f..t})

(* When nothing is awaited for it, the day panel shows the selected day,    *)
(* with buttons that lead where the list does, if there is a list, unless   *)
(* an answer was lost or overtaken by a later one.  What it shows is that   *)
(* local day, as long as it is that day, and the line under it sums up what *)
(* the chart draws unless the recorder wrote between the two SELECTs        *)
(* (loadDay, /api/day).                                                     *)
DayIsShown ==
  chart # Unset =>
    /\ ~Pending("day") /\ "day" \notin spoilt =>
         /\ chart.date = cur
         /\ days # {} =>
              /\ chart.prev = (\E d \in days : d < cur /\ cur \in days)
              /\ chart.next = (\E d \in days : d > cur /\ cur \in days)
    /\ chart.series = OfDates(chart.date, chart.date, chart.seen[1])
    /\ \A b \in chart.axis.start - 1..chart.axis.end :
         (b \in chart.axis.start..chart.axis.end - 1) = (DateOf(zone, b) = chart.date)
    /\ chart.seen[1] = chart.seen[2] =>
         /\ chart.meta.buckets = Cardinality(DOMAIN chart.series)
         /\ chart.meta.buckets > 0 => chart.meta.total = Total(chart.series)

(* The statistics, while nothing is awaited for them and no answer was lost *)
(* or overtaken, are of the period that was chosen, and the profile's       *)
(* button is disabled only while an answer is awaited.                      *)
StatsSettled == ~Pending("stats") /\ "stats" \notin spoilt /\ stats # Unset
StatsBelongToPeriod ==
  /\ button \/ Pending("profile")
  /\ StatsSettled => stats.about = IF period = Unset THEN Everything ELSE period

(* The graph next to them is of the same period, which may be spelled out,  *)
(* with the exceptions of Excuses: among them the graph that was under way  *)
(* while the period changed, which dropProfile does not reach.              *)
SamePeriod(p) ==
  \/ p = stats.about
  \/ stats.about = Everything /\ stats.summary.buckets = 0
  \/ stats.about = Everything /\ p = WrittenOut(stats.summary)
GraphIsOfPeriod ==
  StatsSettled /\ profile # Unset /\ profile.excuse = "none" => SamePeriod(profile.about.period)

(* "Showing it next to a different period would be a lie": without one of   *)
(* the excuses, the graph folds the very buckets that the statistics count; *)
(* with or without, each point counts its days once, over a change of the   *)
(* clock (dropProfile, average_profile).                                    *)
GraphBelongsToPeriod ==
  /\ StatsBelongToPeriod /\ GraphIsOfPeriod
  /\ profile # Unset =>
       \A s \in DOMAIN profile.slots :
         LET rows == IF profile.about.period = Everything THEN dbs[profile.seen[1]]
                     ELSE OfDates(profile.about.period.f, profile.about.period.t, profile.seen[1])
             own == {b \in DOMAIN rows : TimeOf(zone, b) \in s..s + profile.about.step - 1}
         IN  /\ profile.slots[s].days = Cardinality({DateOf(zone, b) : b \in own})
             /\ profile.slots[s].n = Cardinality(own)
  /\ StatsSettled /\ profile # Unset /\ profile.excuse = "none"
     /\ profile.seen = stats.seen =>
       /\ Total([s \in DOMAIN profile.slots |-> profile.slots[s].n]) = stats.summary.buckets
       /\ stats.summary.buckets > 0 =>
            /\ Total([s \in DOMAIN profile.slots |-> profile.slots[s].total]) = stats.summary.total
            /\ stats.energy.total = stats.summary.total

(* The refresh does not "silently widen" the period: the inputs, which the  *)
(* next refresh will take it from, hold what was chosen, unless the user is *)
(* typing another one, or pressed Average while a loadAll was still under   *)
(* way, whose answer then fills them (refresh, loadAll, loadPeriod).        *)
RefreshKeepsThePeriod ==
  period # Unset /\ ~typed /\ ~crossed => inputs = period
=============================================================================
