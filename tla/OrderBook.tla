----------------------------- MODULE OrderBook -----------------------------
(***************************************************************************)
(* S1's recent quotes of one symbol and S2, which polls them and keeps the *)
(* book: mdg GatewayRuntime._remember_recent and GET /history/{symbol},    *)
(* obb BookBuilderRuntime.ingest_once, BookEngine.apply_quote and the      *)
(* cached views of OrderBook, which HTTP threads read (GET /book, GET      *)
(* /tob) while the ingest thread changes the book.                         *)
(*                                                                         *)
(* One venue, a book that is registered.  Prices are ranks; of the events  *)
(* of a book the top change is kept, those about quantities are left out.  *)
(* S1 has no snapshot route, so a rebuild always fails, no book is ever    *)
(* HEALTHY and the staleness sweep has nothing to mark.                    *)
(***************************************************************************)
EXTENDS Integers, Sequences, FiniteSets, SequencesExt, FiniteSetsExt, Subsequences

CONSTANTS
  QuoteKinds, \* quotes a venue may send: [act, side, px, qty]
  Readers,    \* HTTP threads of S2
  RecentMax,  \* S1 keeps so many quotes of a symbol
  AnswerMax,  \* limit of one poll
  MaxQuotes   \* bound: quotes published

\* Both limits are constants of the code: 512 quotes are kept, 256 are asked for.
ASSUME BookAssumption == RecentMax \in Nat \ {0} /\ AnswerMax \in Nat \ {0} /\ MaxQuotes \in Nat

VARIABLES
  published,  \* number of quotes so far
  clock,      \* S1's receive time of the last quote
  recent,     \* S1: the quotes kept, each with its number n and its time rt
  cursor,     \* S2: _last_poll_ns
  todo,       \* S2: the quotes of the answer still to apply
  newCursor,  \* S2: what the cursor becomes after them
  levels,     \* S2: side -> price -> quantity
  views,      \* S2: side -> the prices of the cached sorted view, or NoView
  unchecked,  \* S2: a quote is in the book and its checks are still to run
  top,        \* S2: _prev_tob, best bid and best ask; <<>> when there is none
  changes,    \* number of TOP_CHANGE events
  reader,     \* thread -> the view it computed and has not stored
  stats,      \* messages_applied, orphan_deletes and cross_events
  applied,    \* history: number of a quote -> times applied
  shown,      \* history: numbers in the answers S2 got, but for those at or below the cursor
  ties,       \* history: numbers of quotes received at the same time as the one before
  overlapped  \* history: a reader stored a view computed before an update

bookVars == <<published, clock, recent, cursor, todo, newCursor, levels, views, unchecked,
              top, changes, reader, stats, applied, shown, ties, overlapped>>

Sides == {"BID", "ASK"}
NoView == {0}   \* 0 is no price
NoReader == [side |-> "none", view |-> {}, at |-> 0]
NoLevels == [p \in {} |-> 0]

\* best_bid, best_ask of a view; 0 when the side is empty.
BestOf(side, prices) == IF prices = {} THEN 0 ELSE IF side = "BID" THEN Max(prices) ELSE Min(prices)

BookInit ==
  /\ published = 0 /\ clock = 1 /\ recent = <<>>
  /\ cursor = 0 /\ todo = <<>> /\ newCursor = 0
  /\ levels = [s \in Sides |-> NoLevels]
  /\ views = [s \in Sides |-> NoView]
  /\ unchecked = FALSE
  /\ top = <<>> /\ changes = 0
  /\ reader = [r \in Readers |-> NoReader]
  /\ stats = [messages |-> 0, orphans |-> 0, crosses |-> 0]
  /\ applied = [n \in 1..MaxQuotes |-> 0]
  /\ shown = {} /\ ties = {} /\ overlapped = FALSE

---------------------------------------------------------------------------
(* S1 *)

\* poll_once: the newest RecentMax quotes are kept.  The receive time is a clock that may
\* not have moved since the last quote.
PublishQuote(q) ==
  /\ published < MaxQuotes
  /\ published' = published + 1
  /\ \E t \in {clock, clock + 1} :
       /\ clock' = t
       /\ ties' = IF t = clock /\ published > 0 THEN ties \cup {published + 1} ELSE ties
       /\ LET all == Append(recent, [n |-> published + 1, rt |-> t, q |-> q]) IN
          recent' = SubSeq(all, Max({1, Len(all) - RecentMax + 1}), Len(all))
  /\ UNCHANGED <<cursor, todo, newCursor, levels, views, unchecked, top, changes, reader,
                 stats, applied, shown, overlapped>>

\* quote_history: the newest of them.
Answer == SubSeq(recent, Max({1, Len(recent) - AnswerMax + 1}), Len(recent))

---------------------------------------------------------------------------
(* The ingest thread of S2 *)

\* Mutant: quotes with the time of the cursor are taken again.
Fresh_FromTheCursor(answer) == Picked(answer, {i \in DOMAIN answer : answer[i].rt >= cursor})

\* What is newer than the cursor.
Fresh(answer) == Picked(answer, {i \in DOMAIN answer : answer[i].rt > cursor})

\* The newest time of the answer.
NextCursor(answer) == Max({answer[i].rt : i \in DOMAIN answer})

\* A poll whose answer has something fresh; one that has nothing, or fails, does nothing.
PollQuotes ==
  /\ todo = <<>> /\ ~unchecked
  /\ Fresh(Answer) # <<>>
  /\ todo' = Fresh(Answer)
  /\ newCursor' = NextCursor(Answer)
  /\ shown' = shown \cup {e.n : e \in {x \in Range(Answer) : x.rt > cursor}}
  /\ UNCHANGED <<published, clock, recent, cursor, levels, views, unchecked, top, changes,
                 reader, stats, applied, ties, overlapped>>

With(side, p, qty) ==
  [x \in DOMAIN levels[side] \cup {p} |-> IF x = p THEN qty ELSE levels[side][x]]
Without(side, p) == [x \in DOMAIN levels[side] \ {p} |-> levels[side][x]]

\* What one quote does to its side: N and M set the level, D removes it, the executions
\* E, B and O reduce a level that is there and remove it at zero.
LevelsAfter(q) ==
  LET left == levels[q.side][q.px] - q.qty IN
  CASE q.act \in {"N", "M"} -> With(q.side, q.px, q.qty)
    [] q.act = "D"          -> Without(q.side, q.px)
    [] OTHER -> IF q.px \notin DOMAIN levels[q.side] THEN levels[q.side]
                ELSE IF left > 0 THEN With(q.side, q.px, left) ELSE Without(q.side, q.px)

\* Mutant: only the cache of the bids is dropped.
ViewsAfter_BidsOnly(side) == [views EXCEPT !["BID"] = NoView]

\* _invalidate_caches, after the change.
ViewsAfter(side) == [s \in Sides |-> NoView]

\* The first half of apply_quote: the change and the dropping of the caches.  A side of
\* LAST leaves the book alone.
ApplyQuote ==
  /\ todo # <<>> /\ ~unchecked
  /\ LET e == Head(todo) IN
     /\ applied' = [applied EXCEPT ![e.n] = @ + 1]
     /\ IF e.q.side \notin Sides
        THEN /\ UNCHANGED <<levels, views, unchecked, stats>>
             /\ todo' = Tail(todo)
             /\ cursor' = IF Len(todo) = 1 THEN newCursor ELSE cursor
        ELSE /\ levels' = [levels EXCEPT ![e.q.side] = LevelsAfter(e.q)]
             /\ views' = ViewsAfter(e.q.side)
             /\ stats' = [stats EXCEPT !.messages = @ + 1,
                            !.orphans = IF e.q.act = "D" /\ e.q.px \notin DOMAIN levels[e.q.side]
                                        THEN @ + 1 ELSE @]
             /\ unchecked' = TRUE
             /\ UNCHANGED <<todo, cursor>>
  /\ UNCHANGED <<published, clock, recent, newCursor, top, changes, reader, shown, ties, overlapped>>

\* What the cached views tell, computed where there is none.
View(side) == IF views[side] = NoView THEN DOMAIN levels[side] ELSE views[side]
TopOfBook == <<BestOf("BID", View("BID")), BestOf("ASK", View("ASK"))>>

\* The second half: _check_cross and _detect_material_changes on the views.
CheckBook ==
  /\ unchecked
  /\ unchecked' = FALSE
  /\ views' = [s \in Sides |-> View(s)]
  /\ top' = TopOfBook
  /\ changes' = IF top # <<>> /\ top # TopOfBook THEN changes + 1 ELSE changes
  /\ stats' = [stats EXCEPT !.crosses =
       IF 0 \notin Range(TopOfBook) /\ TopOfBook[1] >= TopOfBook[2] THEN @ + 1 ELSE @]
  /\ todo' = Tail(todo)
  /\ cursor' = IF Len(todo) = 1 THEN newCursor ELSE cursor
  /\ UNCHANGED <<published, clock, recent, newCursor, levels, reader, applied, shown, ties, overlapped>>

---------------------------------------------------------------------------
(* HTTP threads: sorted_bids and sorted_asks without a lock *)

ComputeView(r, side) ==
  /\ reader[r] = NoReader /\ views[side] = NoView
  /\ reader' = [reader EXCEPT ![r] =
       [side |-> side, view |-> DOMAIN levels[side], at |-> stats.messages]]
  /\ UNCHANGED <<published, clock, recent, cursor, todo, newCursor, levels, views, unchecked,
                 top, changes, stats, applied, shown, ties, overlapped>>

StoreView(r) ==
  /\ reader[r] # NoReader
  /\ views' = [views EXCEPT ![reader[r].side] = reader[r].view]
  /\ overlapped' = (overlapped \/ reader[r].at # stats.messages)
  /\ reader' = [reader EXCEPT ![r] = NoReader]
  /\ UNCHANGED <<published, clock, recent, cursor, todo, newCursor, levels, unchecked,
                 top, changes, stats, applied, shown, ties>>

BookNext ==
  \/ \E q \in QuoteKinds : PublishQuote(q)
  \/ PollQuotes \/ ApplyQuote \/ CheckBook
  \/ \E r \in Readers : StoreView(r) \/ \E s \in Sides : ComputeView(r, s)

BookSpec == BookInit /\ [][BookNext]_bookVars

---------------------------------------------------------------------------
\* The cursor (obb/main.py:171) neither repeats nor skips: a quote that an answer shows
\* beyond the cursor is applied exactly once, and a quote S1 would still answer with that
\* lies behind the cursor was applied, unless it came at the same time as the one before it.
ShownIsAppliedOnce ==
  /\ \A n \in 1..published : applied[n] <= 1
  /\ todo = <<>> => \A n \in shown : applied[n] = 1
  /\ todo = <<>> => \A i \in DOMAIN Answer :
                      Answer[i].rt <= cursor =>
                        applied[Answer[i].n] = 1 \/ Answer[i].n \in ties

\* "Sorted views are computed on demand and cached until the next mutation invalidates
\* them" (obb/models.py:112), and the top the engine compares with is the top of the book:
\* true as long as no reader stored a view it had computed before an update.
ViewsAreCurrent ==
  ~overlapped =>
    /\ \A s \in Sides : views[s] \in {NoView, DOMAIN levels[s]}
    /\ top # <<>> /\ ~unchecked =>
         top = <<BestOf("BID", DOMAIN levels["BID"]), BestOf("ASK", DOMAIN levels["ASK"])>>

===========================================================================
