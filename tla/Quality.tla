------------------------------ MODULE Quality -------------------------------
(***************************************************************************)
(* Data quality, from the rolling windows of S1 (mdg.quality_monitor) to   *)
(* the scores, episodes and alerts of S8 (dqm.quality_engine, dqm.main).   *)
(*                                                                         *)
(* Time is counted in units of S1's staleness budget.  Of what S1 reports, *)
(* gap_events and out_of_order_events are always 0, since the normalizer   *)
(* never gives a quote those qualities, and S2 lists no cross_events: they *)
(* add no penalty here either.                                             *)
(***************************************************************************)
EXTENDS Integers, Sequences, FiniteSets, SequencesExt, Subsequences

CONSTANTS
  SymbolOrder,     \* the canonical symbols in sorting order, each once
  QuoteAges,       \* the ages in ms quotes can have on arrival
  WindowSpan,      \* _window_seconds, in units of time
  SilentBudget,    \* thresholds.max_silent_ms, in units of time
  StaleWarn, StaleCrit,   \* stale_pct_warn and stale_pct_crit
  AgeBudget,       \* thresholds.max_staleness_ms
  GapWeight, StaleWeight,
  DegradedBelow, RecoveredAtOrAbove,   \* the hysteresis band
  MaxDegradations, \* alerting.max_degradations
  BookVenues,      \* how many books of a symbol S2 can list
  WindowQuotes,    \* bound: quotes of one window
  MaxAge,          \* bound: older is as old
  MaxEpisodes      \* bound: episodes

Symbols == Range(SymbolOrder)

ValidQualityConfig ==
  /\ SilentBudget \in Nat \ {0} /\ AgeBudget \in Nat \ {0}
  /\ StaleWarn \in 0..100 /\ StaleCrit \in 1..100 /\ StaleWarn <= StaleCrit
  /\ GapWeight \in Nat \ {0} /\ StaleWeight \in Nat \ {0}
  /\ DegradedBelow \in 0..99 /\ RecoveredAtOrAbove \in 1..100
  /\ DegradedBelow < RecoveredAtOrAbove
  /\ MaxDegradations \in Nat \ {0}

ASSUME QualityAssumption ==
  /\ ValidQualityConfig
  /\ SymbolOrder \in Seq(Symbols)
  /\ \A i, j \in 1..Len(SymbolOrder) : SymbolOrder[i] = SymbolOrder[j] => i = j
  /\ QuoteAges \subseteq Nat /\ WindowSpan \in Nat \ {0}
  /\ SilentBudget < MaxAge /\ WindowSpan < MaxAge
  /\ BookVenues \in Nat /\ WindowQuotes \in Nat /\ MaxAge \in Nat /\ MaxEpisodes \in Nat

VARIABLES
  windows,     \* S1: symbol -> its window, or NoWindow
  breaches,    \* S1: symbol -> whether its silence is already counted
  books,       \* S2: symbol -> how many of its books are stale, -1 when S2 lists none (external)
  quality,     \* S8: symbol -> its SymbolQuality
  degradations,\* S8: the episodes that are kept, oldest first
  nextDegradation, \* S8: the number of the next episode
  pass,        \* S8: where the loop is, the feed report it holds, the alerts it has to send
  alerts,      \* S10: the ids of the alerts that came, in order (external)
  tried        \* history: ids the loop has tried to send

s8Vars == <<quality, degradations, nextDegradation, pass, alerts, tried>>
qualityVars == <<windows, breaches, books, s8Vars>>

NoWindow == [quotes |-> -1, stale |-> 0, worst |-> 0, silent |-> 0, span |-> 0]
Tracked(s) == windows[s] # NoWindow
NoReport == [s \in {} |-> 0]

\* Scored for the first time a symbol leaves UNKNOWN; until then S8 does not know it.
SymbolQuality == [state : {"UNKNOWN", "OK", "DEGRADED"}, feed_silent : BOOLEAN]
Unscored == [state |-> "UNKNOWN", feed_silent |-> FALSE]

QualityInit ==
  /\ windows = [s \in Symbols |-> NoWindow] /\ breaches = [s \in Symbols |-> FALSE]
  /\ books = [s \in Symbols |-> -1]
  /\ quality = [s \in Symbols |-> Unscored]
  /\ degradations = <<>> /\ nextDegradation = 1
  /\ pass = [at |-> "idle", feed |-> NoReport, send |-> <<>>]
  /\ alerts = <<>> /\ tried = {}

---------------------------------------------------------------------------
(* S1: QualityMonitor. *)

AtMost(a, b) == IF a < b THEN a ELSE b
AtLeast(a, b) == IF a > b THEN a ELSE b

\* The normalizer's flag for a quote, with the default budgets of S1.
DataQuality(age) == IF age > 500 THEN "STALE" ELSE IF age > 100 THEN "STALE_WARN" ELSE "FRESH"

\* QualityMetrics.record.
WithQuote(metrics, age) ==
  [metrics EXCEPT !.quotes = @ + 1,
                  !.stale = @ + (IF DataQuality(age) = "FRESH" THEN 0 ELSE 1),
                  !.worst = AtLeast(@, age)]

\* A window begins with the first quote of its symbol.
ObserveQuote(s, age) ==
  LET old == IF Tracked(s) THEN windows[s] ELSE [NoWindow EXCEPT !.quotes = 0]
  IN /\ old.quotes < WindowQuotes
     /\ windows' = [windows EXCEPT ![s] =
          [WithQuote(old, age) EXCEPT !.silent = 0]]
     /\ breaches' = [breaches EXCEPT ![s] = FALSE]
     /\ UNCHANGED <<books, s8Vars>>

\* The sweep counts a silence once and starts a new window after the span.
Sweep ==
  /\ breaches' = [s \in Symbols |-> breaches[s] \/ (Tracked(s) /\ windows[s].silent > 1)]
  /\ windows' = [s \in Symbols |->
       IF Tracked(s) /\ windows[s].span > WindowSpan
         THEN [windows[s] EXCEPT !.quotes = 0, !.stale = 0, !.worst = 0, !.span = 0]
         ELSE windows[s]]
  /\ UNCHANGED <<books, s8Vars>>

\* POST /resync.
ResetWindows ==
  /\ windows' = [s \in Symbols |-> NoWindow]
  /\ breaches' = [s \in Symbols |-> FALSE]
  /\ UNCHANGED <<books, s8Vars>>

TimePasses ==
  /\ windows' = [s \in Symbols |->
       IF Tracked(s) THEN [windows[s] EXCEPT !.silent = AtMost(@ + 1, MaxAge), !.span = AtMost(@ + 1, MaxAge)]
       ELSE windows[s]]
  /\ windows' # windows
  /\ UNCHANGED <<breaches, books, s8Vars>>

\* S2 registers, loses and regains books (external).
BooksChange(s, n) ==
  /\ books' = [books EXCEPT ![s] = n]
  /\ UNCHANGED <<windows, breaches, s8Vars>>

---------------------------------------------------------------------------
(* S8: the score. *)

\* FeedMetrics.from_dict, of a row that lists all fields.
FeedMetrics(s) ==
  [quotes |-> windows[s].quotes, stale |-> windows[s].stale, worst |-> windows[s].worst,
   silent |-> windows[s].silent > SilentBudget]

\* int(x * weight) of a percentage above the warning budget, and the percentage below the
\* critical one.
StalePenalty(m) ==
  IF m.quotes = 0 THEN 0
  ELSE IF 100 * m.stale > StaleCrit * m.quotes
    THEN ((100 * m.stale - StaleWarn * m.quotes) * StaleWeight) \div m.quotes
  ELSE IF 100 * m.stale > StaleWarn * m.quotes THEN (100 * m.stale) \div m.quotes
  ELSE 0

AgePenalty(m) == IF m.worst > AgeBudget THEN (m.worst - AgeBudget) \div 50 + 2 ELSE 0

\* Mutant: a window without quotes costs nothing.
FeedPenalty_EmptyIsGood(m) ==
  IF m.quotes = 0 THEN 0
  ELSE (IF m.silent THEN 10 * GapWeight ELSE 0) + StalePenalty(m) + AgePenalty(m)

\* What S1's part of the report costs: silence, stale quotes, the worst age.
FeedPenalty(m) ==
  (IF m.silent THEN 10 * GapWeight ELSE 0) + StalePenalty(m) + AgePenalty(m)

\* GET /quality, as what a symbol costs and whether it is silent.
Report ==
  [s \in {t \in Symbols : Tracked(t)} |->
     [cost |-> FeedPenalty(FeedMetrics(s)), silent |-> FeedMetrics(s).silent]]

\* BookHealthRow.from_dict, of each book that S2 lists.
Rows ==
  {[symbol |-> s, venue |-> v, health |-> IF v <= books[s] THEN "STALE" ELSE "EMPTY"] :
     s \in {t \in Symbols : books[t] >= 0}, v \in 1..BookVenues}

Scored(feed, rows) == DOMAIN feed \cup {r.symbol : r \in rows}

StaleVenues(s, rows) == {r.venue : r \in {q \in rows : q.symbol = s /\ q.health = "STALE"}}

Score(s, feed, rows) ==
  AtLeast(0, 100 - ((IF s \in DOMAIN feed THEN feed[s].cost ELSE 0)
                    + 15 * Cardinality(StaleVenues(s, rows))))

NewState(state, score) ==
  IF state = "DEGRADED"
    THEN IF score >= RecoveredAtOrAbove THEN "OK" ELSE "DEGRADED"
    ELSE IF score < DegradedBelow THEN "DEGRADED" ELSE "OK"

\* What is persisted; a symbol in neither answer keeps what it had.
Persisted(s, feed, rows) ==
  IF s \notin Scored(feed, rows) THEN quality[s]
  ELSE [state |-> NewState(quality[s].state, Score(s, feed, rows)),
        feed_silent |-> s \in DOMAIN feed /\ feed[s].silent]

SeverityFor(score) == IF score < 40 THEN "CRITICAL" ELSE IF score < 60 THEN "MAJOR" ELSE "MINOR"

DegradationEvent(id, s, state, score) ==
  [id |-> id, symbol |-> s,
   kind |-> IF state = "DEGRADED" THEN "DEGRADED" ELSE "RECOVERED",
   severity |-> IF state = "DEGRADED" THEN SeverityFor(score) ELSE "MINOR"]

\* The episodes of one pass, in sorting order.  A symbol that was UNKNOWN and is
\* found OK counts as recovered.
EpisodesOf(feed, rows) ==
  LET changed == Picked(SymbolOrder,
                        {i \in DOMAIN SymbolOrder :
                           Persisted(SymbolOrder[i], feed, rows).state # quality[SymbolOrder[i]].state})
  IN
  [k \in DOMAIN changed |->
     LET after == Persisted(changed[k], feed, rows) IN
     DegradationEvent(nextDegradation + k - 1, changed[k], after.state,
                      Score(changed[k], feed, rows))]

\* Mutant: the oldest episodes are kept.
Retained_Oldest(log) == SubSeq(log, 1, AtMost(Len(log), MaxDegradations))

Retained(log) == SubSeq(log, AtLeast(1, Len(log) - MaxDegradations + 1), Len(log))

---------------------------------------------------------------------------
(* S8: QualityRuntime.aggregate_once.  A failed request stands for no      *)
(* report or no rows, and with neither nothing is scored.                  *)

\* _request: the answer, or one exception for whatever went wrong.
Requested(answer, nothing) == {answer, nothing}

PullFeed ==
  /\ pass.at = "idle"
  /\ \E feed \in Requested(Report, NoReport) :
       pass' = [pass EXCEPT !.at = "books", !.feed = feed]
  /\ UNCHANGED <<windows, breaches, books, quality, degradations, nextDegradation, alerts, tried>>

\* Mutant: recoveries are sent as well.
ToSend_All(episodes) == [k \in DOMAIN episodes |-> episodes[k].id]

ToSend(episodes) ==
  LET bad == Picked(episodes, {i \in DOMAIN episodes : episodes[i].kind = "DEGRADED"})
  IN [k \in DOMAIN bad |-> bad[k].id]

IngestAndScore(rows, episodes) ==
  /\ pass.at = "books"
  /\ nextDegradation + Len(episodes) <= MaxEpisodes + 1
  /\ quality' = [s \in Symbols |-> Persisted(s, pass.feed, rows)]
  /\ degradations' = Retained(degradations \o episodes)
  /\ nextDegradation' = nextDegradation + Len(episodes)
  /\ pass' = [at |-> IF ToSend(episodes) = <<>> THEN "idle" ELSE "send",
              feed |-> NoReport, send |-> ToSend(episodes)]
  /\ UNCHANGED <<windows, breaches, books, alerts, tried>>

PullBooks ==
  \E rows \in Requested(Rows, {}) :
    \E episodes \in {EpisodesOf(pass.feed, rows)} : IngestAndScore(rows, episodes)

\* send_degradation never raises: an alert that failed may still have reached S10.
SendDegradation(id) == {Append(alerts, id), alerts}

\* _fan_out: one attempt for each.
FanOut ==
  /\ pass.at = "send"
  /\ alerts' \in SendDegradation(Head(pass.send))
  /\ tried' = tried \cup {Head(pass.send)}
  /\ pass' = [pass EXCEPT !.send = Tail(@), !.at = IF Len(pass.send) = 1 THEN "idle" ELSE "send"]
  /\ UNCHANGED <<windows, breaches, books, quality, degradations, nextDegradation>>

QualityNext ==
  \/ \E s \in Symbols, age \in QuoteAges : ObserveQuote(s, age)
  \/ Sweep \/ ResetWindows \/ TimePasses
  \/ \E s \in Symbols, n \in -1..BookVenues : BooksChange(s, n)
  \/ PullFeed \/ PullBooks \/ FanOut

\* The loop goes on, and S1 answers from time to time.
FeedAnswers == PullFeed /\ pass'.feed = Report
PassGoesOn == PullFeed \/ PullBooks \/ FanOut
QualityFairness == WF_qualityVars(PassGoesOn) /\ SF_qualityVars(FeedAnswers)

QualitySpec == QualityInit /\ [][QualityNext]_qualityVars /\ QualityFairness

---------------------------------------------------------------------------
(* The read views. *)

Known == {s \in Symbols : quality[s].state # "UNKNOWN"}
InState(state) == {s \in Known : quality[s].state = state}

\* summary.
Summary ==
  [symbols_total |-> Cardinality(Known),
   counts |-> [state \in {"OK", "DEGRADED"} |-> Cardinality(InState(state))],
   degraded_symbols |-> InState("DEGRADED")]

\* gaps: the symbols whose feed was silent when they were scored last.
Gaps == {[symbol |-> s, kind |-> "FEED_SILENCE"] : s \in {t \in Known : quality[t].feed_silent}}

\* degradations, of one kind: newest first.
Degradations(kind) ==
  Reverse(Picked(degradations, {i \in DOMAIN degradations : degradations[i].kind = kind}))

---------------------------------------------------------------------------
(* Properties. *)

\* The kept episodes of a symbol alternate and the last one says what state it is in,
\* whatever was dropped and whichever upstream failed; a page of one kind lists them
\* newest first; and a feed that GET /gaps calls silent is one that GET /quality calls
\* degraded, as long as silence alone costs more than the band leaves
\* (quality_engine.py:173-239, 249, 291, 329).
EpisodesAlternate ==
  /\ \A s \in Symbols :
       LET mine == Picked(degradations, {i \in DOMAIN degradations : degradations[i].symbol = s}) IN
       /\ \A k \in 1..(Len(mine) - 1) : mine[k].kind # mine[k + 1].kind
       /\ mine # <<>> => (Last(mine).kind = "DEGRADED" <=> s \in Summary.degraded_symbols)
  /\ \A kind \in {"DEGRADED", "RECOVERED"} :
       \A j, k \in DOMAIN Degradations(kind) :
         j < k => Degradations(kind)[j].id > Degradations(kind)[k].id
  /\ AtLeast(0, 100 - 10 * GapWeight) < DegradedBelow =>
       {g.symbol : g \in Gaps} \subseteq Summary.degraded_symbols
  /\ Summary.counts["OK"] + Summary.counts["DEGRADED"] = Summary.symbols_total

\* S10 gets every degradation at most once and in the order of the episodes, a
\* recovery never, and each degradation was tried or is about to be
\* (dqm/main.py:158-163).
AlertsAreEpisodes ==
  LET kept == {e.id : e \in {d \in Range(degradations) : d.kind = "DEGRADED"}}
      recovered == {e.id : e \in {d \in Range(degradations) : d.kind = "RECOVERED"}}
  IN /\ \A j, k \in DOMAIN alerts : j < k => alerts[j] < alerts[k]
     /\ Range(alerts) \cap recovered = {}
     /\ kept \subseteq tried \cup Range(pass.send)

Exhausted == nextDegradation + Len(SymbolOrder) > MaxEpisodes + 1

\* A symbol whose feed stays silent is found DEGRADED over and over, also while
\* S1 answers only now and then (dqm/main.py:134-156, quality_engine.py:135-189),
\* until the bound on episodes stops the loop.
SilenceIsFound ==
  \A s \in Symbols :
    <>[](Tracked(s) /\ windows[s].silent > SilentBudget) => []<>(quality[s].state = "DEGRADED" \/ Exhausted)

===========================================================================
