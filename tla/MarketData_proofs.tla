-------------------------- MODULE MarketData_proofs --------------------------
(***************************************************************************)
(* The parts of the market data path, each on its own: the feeds of S1 and *)
(* its quote buffer, the book of S2 and a live stream of the dashboard.    *)
(***************************************************************************)
EXTENDS QuoteRing, OrderBook, LiveStream, FeedGateway, Induction,
        FiniteSetTheorems, SequenceTheorems, TLAPS

---------------------------------------------------------------------------
(***************************************************************************)
(* The cached views of a book, for any set of quotes, any number of reader *)
(* threads and any window: a cached view is the view of the levels, and    *)
(* the top of the book is the top of the levels, for as long as no reader  *)
(* has stored a view it computed before an update.                         *)
(*                                                                         *)
(* The count of messages is the clock of the argument: a reader whose view *)
(* was computed at the present count holds the present view, and every     *)
(* change of the levels moves the count past every reader.                 *)
(***************************************************************************)

\* What a reader thread holds, at the count of messages it noted.
ReaderInv ==
  /\ reader = [r \in Readers |-> reader[r]]
  /\ \A r \in Readers :
       /\ reader[r].at \in Nat /\ reader[r].at <= stats.messages
       /\ reader[r] # NoReader =>
            /\ reader[r].side \in Sides
            /\ reader[r].at = stats.messages => reader[r].view = DOMAIN levels[reader[r].side]

BookType ==
  /\ levels = [s \in Sides |-> levels[s]]
  /\ views = [s \in Sides |-> views[s]]
  /\ stats = [messages |-> stats.messages, orphans |-> stats.orphans, crosses |-> stats.crosses]
  /\ stats.messages \in Nat
  /\ unchecked \in BOOLEAN /\ overlapped \in BOOLEAN

BookInv == BookType /\ ReaderInv /\ ViewsAreCurrent

---------------------------------------------------------------------------
LEMMA InitBook == BookInit => BookInv
<1> SUFFICES ASSUME BookInit PROVE BookInv
  OBVIOUS
<1>1. BookType
  BY DEF BookInit, BookType
<1>2. ReaderInv
  BY DEF BookInit, ReaderInv, NoReader
<1>3. ViewsAreCurrent
  BY DEF BookInit, ViewsAreCurrent
<1> QED BY <1>1, <1>2, <1>3 DEF BookInv

\* The levels change, and so does the count: no view that a reader holds is of now.
LEMMA ApplyQuoteBook ==
  ASSUME BookInv, ApplyQuote
  PROVE  BookInv'
<1>0. reader' = reader /\ top' = top /\ overlapped' = overlapped /\ ~unchecked
  BY DEF ApplyQuote
<1> DEFINE e == Head(todo)
<1>1. CASE e.q.side \notin Sides
  <2>1. levels' = levels /\ views' = views /\ unchecked' = unchecked /\ stats' = stats
    BY <1>1 DEF ApplyQuote
  <2> QED BY <1>0, <2>1 DEF BookInv, BookType, ReaderInv, ViewsAreCurrent
<1>2. CASE e.q.side \in Sides
  <2>1. /\ levels' = [levels EXCEPT ![e.q.side] = LevelsAfter(e.q)]
        /\ views' = ViewsAfter(e.q.side)
        /\ unchecked' = TRUE
        /\ stats' = [stats EXCEPT !.messages = @ + 1,
                       !.orphans = IF e.q.act = "D" /\ e.q.px \notin DOMAIN levels[e.q.side]
                                   THEN @ + 1 ELSE @]
    BY <1>2 DEF ApplyQuote
  <2>2. stats'.messages = stats.messages + 1
    BY <2>1 DEF BookInv, BookType
  <2>3. BookType'
    <3>1. levels' = [s \in Sides |-> levels'[s]]
      BY <2>1 DEF BookInv, BookType
    <3>2. views' = [s \in Sides |-> views'[s]]
      BY <2>1 DEF ViewsAfter
    <3>3. stats' = [messages |-> stats'.messages, orphans |-> stats'.orphans,
                    crosses |-> stats'.crosses]
      BY <2>1 DEF BookInv, BookType
    <3>4. stats'.messages \in Nat /\ unchecked' \in BOOLEAN /\ overlapped' \in BOOLEAN
      BY <1>0, <2>1, <2>2 DEF BookInv, BookType
    <3> QED BY Zenon, <3>1, <3>2, <3>3, <3>4 DEF BookType
  <2>4. ReaderInv'
    BY <1>0, <2>2 DEF BookInv, BookType, ReaderInv
  <2>5. ViewsAreCurrent'
    BY <2>1 DEF ViewsAreCurrent, ViewsAfter
  <2> QED BY <2>3, <2>4, <2>5 DEF BookInv
<1> QED BY <1>1, <1>2

\* A cached view is the view of the levels, so what the checks look at is the book.
LEMMA CheckBookBook ==
  ASSUME BookInv, CheckBook
  PROVE  BookInv'
<1>0. /\ levels' = levels /\ reader' = reader /\ overlapped' = overlapped
      /\ unchecked' = FALSE /\ top' = TopOfBook
      /\ views' = [s \in Sides |-> View(s)]
  BY DEF CheckBook
<1>1. stats'.messages = stats.messages /\ BookType'
  BY <1>0 DEF CheckBook, BookInv, BookType
<1>2. ReaderInv'
  BY <1>0, <1>1 DEF BookInv, ReaderInv
<1>3. ASSUME ~overlapped, NEW s \in Sides PROVE View(s) = DOMAIN levels[s]
  BY <1>3 DEF BookInv, ViewsAreCurrent, View
<1>4. ViewsAreCurrent'
  BY <1>0, <1>3 DEF ViewsAreCurrent, TopOfBook, Sides
<1> QED BY <1>1, <1>2, <1>4 DEF BookInv

LEMMA ComputeViewBook ==
  ASSUME BookInv, NEW r \in Readers, NEW s \in Sides, ComputeView(r, s)
  PROVE  BookInv'
<1>0. /\ levels' = levels /\ views' = views /\ stats' = stats /\ top' = top
      /\ unchecked' = unchecked /\ overlapped' = overlapped
      /\ reader' = [reader EXCEPT ![r] =
           [side |-> s, view |-> DOMAIN levels[s], at |-> stats.messages]]
  BY DEF ComputeView
<1>1. BookType' /\ ViewsAreCurrent'
  BY <1>0 DEF BookInv, BookType, ViewsAreCurrent
<1>2. ReaderInv'
  <2>1. reader' = [t \in Readers |-> reader'[t]]
    BY <1>0 DEF BookInv, ReaderInv
  <2>2. reader'[r] = [side |-> s, view |-> DOMAIN levels[s], at |-> stats.messages]
    BY <1>0 DEF BookInv, ReaderInv
  <2>3. ASSUME NEW t \in Readers, t # r PROVE reader'[t] = reader[t]
    BY <1>0, <2>3 DEF BookInv, ReaderInv
  <2> QED BY <1>0, <2>1, <2>2, <2>3 DEF BookInv, BookType, ReaderInv
<1> QED BY <1>1, <1>2 DEF BookInv

\* A view stored at the count it was computed at is the view of the levels.
LEMMA StoreViewBook ==
  ASSUME BookInv, NEW r \in Readers, StoreView(r)
  PROVE  BookInv'
<1>0. /\ levels' = levels /\ stats' = stats /\ top' = top /\ unchecked' = unchecked
      /\ views' = [views EXCEPT ![reader[r].side] = reader[r].view]
      /\ overlapped' = (overlapped \/ reader[r].at # stats.messages)
      /\ reader' = [reader EXCEPT ![r] = NoReader]
      /\ reader[r].side \in Sides
  BY DEF StoreView, BookInv, ReaderInv
<1>1. BookType'
  BY <1>0 DEF BookInv, BookType
<1>2. ReaderInv'
  <2>1. reader' = [t \in Readers |-> reader'[t]]
    BY <1>0 DEF BookInv, ReaderInv
  <2>2. reader'[r] = NoReader /\ NoReader.at = 0
    BY <1>0 DEF BookInv, ReaderInv, NoReader
  <2>3. ASSUME NEW t \in Readers, t # r PROVE reader'[t] = reader[t]
    BY <1>0, <2>3 DEF BookInv, ReaderInv
  <2> QED BY <1>0, <2>1, <2>2, <2>3 DEF BookInv, BookType, ReaderInv
<1>3. ViewsAreCurrent'
  <2> SUFFICES ASSUME ~overlapped' PROVE ViewsAreCurrent'
    BY DEF ViewsAreCurrent
  <2>1. ~overlapped /\ reader[r].view = DOMAIN levels[reader[r].side]
    BY <1>0 DEF BookInv, ReaderInv, StoreView
  <2> QED BY <1>0, <2>1 DEF BookInv, BookType, ViewsAreCurrent
<1> QED BY <1>1, <1>2, <1>3 DEF BookInv

LEMMA NextBook == BookInv /\ [BookNext]_bookVars => BookInv'
<1> SUFFICES ASSUME BookInv, [BookNext]_bookVars PROVE BookInv'
  OBVIOUS
<1>1. ASSUME NEW q \in QuoteKinds, PublishQuote(q) PROVE BookInv'
  BY <1>1 DEF PublishQuote, BookInv, BookType, ReaderInv, ViewsAreCurrent
<1>2. ASSUME PollQuotes PROVE BookInv'
  BY <1>2 DEF PollQuotes, BookInv, BookType, ReaderInv, ViewsAreCurrent
<1>3. CASE UNCHANGED bookVars
  BY <1>3 DEF bookVars, BookInv, BookType, ReaderInv, ViewsAreCurrent
<1> QED BY <1>1, <1>2, <1>3, ApplyQuoteBook, CheckBookBook, ComputeViewBook, StoreViewBook
        DEF BookNext

LEMMA BookInvariant == BookSpec => []BookInv
  BY InitBook, NextBook, PTL DEF BookSpec

\* The cached views and the remembered top are those of the book, whatever the quotes and
\* however many threads read (models.py:130, book_engine.py): all that can put a stale view
\* there is a reader that stores what it computed before an update.
THEOREM ViewsCurrent == BookSpec => []ViewsAreCurrent
  BY BookInvariant, PTL DEF BookInv

---------------------------------------------------------------------------
(***************************************************************************)
(* The cursor of S2, for any quotes and any limits: what an answer shows   *)
(* beyond the cursor is applied once, and what lies behind the cursor has  *)
(* been, but for a quote received at the time of the one before it.        *)
(*                                                                         *)
(* The cursor that counts is the one the quotes in hand lead to.  Up to it *)
(* lie exactly the quotes that are applied or in hand, as far as S1 would  *)
(* still answer with them; the quotes in hand have rising numbers, and     *)
(* none of them is applied but one whose checks are still to run.          *)
(***************************************************************************)

QuoteEntry == [n : 1..MaxQuotes, rt : Nat \ {0}, q : QuoteKinds]

\* Where the cursor stands when the quotes in hand are applied.
Reach == IF todo = <<>> THEN cursor ELSE newCursor

InHand(n) == \E k \in 1..Len(todo) : todo[k].n = n
Taken(n) == applied[n] = 1 \/ InHand(n)

CursorType ==
  /\ published \in 0..MaxQuotes /\ clock \in Nat \ {0}
  /\ cursor \in Nat /\ newCursor \in Nat
  /\ cursor <= clock /\ newCursor <= clock
  /\ recent \in Seq(QuoteEntry) /\ todo \in Seq(QuoteEntry)
  /\ applied \in [1..MaxQuotes -> Nat]
  /\ unchecked \in BOOLEAN
  /\ published = 0 => cursor = 0 /\ todo = <<>>

\* S1 keeps the newest quotes.
RecentIsNewest ==
  /\ Len(recent) <= published
  /\ \A i \in 1..Len(recent) : recent[i].n = published - Len(recent) + i /\ recent[i].rt <= clock

\* No quote is applied twice, and none of those in hand is applied, but for the one whose
\* checks are still to run.
HandIsFresh ==
  /\ \A n \in 1..MaxQuotes : applied[n] <= 1 /\ (n > published => applied[n] = 0)
  /\ \A k \in 1..Len(todo) :
       todo[k].n <= published /\ applied[todo[k].n] = IF k = 1 /\ unchecked THEN 1 ELSE 0
  /\ \A k, l \in 1..Len(todo) : k < l => todo[k].n < todo[l].n
  /\ unchecked => todo # <<>>

ShownAreTaken == \A n \in shown : n \in 1..published /\ Taken(n)

\* The cursor separates what was taken from what was not.
CursorSeparates ==
  \A i \in 1..Len(recent) :
    /\ Taken(recent[i].n) => recent[i].rt <= Reach
    /\ i > Len(recent) - AnswerMax /\ recent[i].rt <= Reach =>
         Taken(recent[i].n) \/ recent[i].n \in ties

CursorInv == CursorType /\ RecentIsNewest /\ HandIsFresh /\ ShownAreTaken /\ CursorSeparates

---------------------------------------------------------------------------
LEMMA MaxOfTwo ==
  ASSUME NEW a \in Int, NEW b \in Int
  PROVE  Max({a, b}) \in {a, b} /\ Max({a, b}) >= a /\ Max({a, b}) >= b
<1>1. \E x \in {a, b} : \A y \in {a, b} : x >= y
  <2>1. CASE a >= b
    BY <2>1
  <2>2. CASE b >= a
    BY <2>2
  <2> QED BY <2>1, <2>2
<1>2. Max({a, b}) \in {a, b} /\ \A y \in {a, b} : Max({a, b}) >= y
  BY <1>1, Zenon DEF Max
<1> QED BY <1>2

LEMMA EntryFields ==
  ASSUME NEW e \in QuoteEntry
  PROVE  e.n \in 1..MaxQuotes /\ e.n \in Nat /\ e.rt \in Nat /\ e.rt > 0
<1>1. MaxQuotes \in Nat
  BY BookAssumption
<1> QED BY <1>1 DEF QuoteEntry

LEMMA EntriesFields ==
  ASSUME NEW s \in Seq(QuoteEntry)
  PROVE  /\ Len(s) \in Nat /\ DOMAIN s = 1..Len(s)
         /\ \A i \in 1..Len(s) : /\ s[i] \in QuoteEntry /\ s[i].n \in 1..MaxQuotes
                                 /\ s[i].n \in Nat /\ s[i].rt \in Nat /\ s[i].rt > 0
<1>1. Len(s) \in Nat /\ DOMAIN s = 1..Len(s)
  BY LenProperties
<1>2. \A i \in 1..Len(s) : s[i] \in QuoteEntry
  BY ElementOfSeq
<1> QED BY <1>1, <1>2, EntryFields

\* The newest m of a sequence: all but the first d.
LEMMA NewestOf ==
  ASSUME NEW S, NEW s \in Seq(S), NEW m \in Nat \ {0}
  PROVE  \E d \in 0..Len(s) :
           /\ d = IF Len(s) > m THEN Len(s) - m ELSE 0
           /\ SubSeq(s, Max({1, Len(s) - m + 1}), Len(s)) \in Seq(S)
           /\ Len(SubSeq(s, Max({1, Len(s) - m + 1}), Len(s))) = Len(s) - d
           /\ \A i \in 1..(Len(s) - d) :
                SubSeq(s, Max({1, Len(s) - m + 1}), Len(s))[i] = s[i + d]
<1>1. PICK n \in Nat : n = Len(s)
  BY LenProperties
<1> DEFINE first == Max({1, n - m + 1})
           d == IF n > m THEN n - m ELSE 0
<1>2. first = d + 1
  <2>1. /\ first \in {1, n - m + 1}
        /\ first >= 1 /\ first >= n - m + 1
    <3>1. 1 \in Int /\ n - m + 1 \in Int
      OBVIOUS
    <3> QED BY <3>1, MaxOfTwo
  <2> HIDE DEF first
  <2> QED BY <2>1
<1>3. d \in 0..n /\ d + 1 \in 1..(n + 1)
  OBVIOUS
<1> HIDE DEF d
<1> DEFINE r == SubSeq(s, d + 1, Len(s))
<1>4. /\ r \in Seq(S) /\ Len(r) = n - (d + 1) + 1
      /\ \A i \in 1..(n - (d + 1) + 1) : r[i] = s[(d + 1) + i - 1]
  BY <1>1, <1>3, EndOf
<1>5. r = SubSeq(s, Max({1, Len(s) - m + 1}), Len(s))
  BY <1>1, <1>2
<1> HIDE DEF r
<1>6. n - (d + 1) + 1 = n - d /\ \A i \in 1..(n - d) : (d + 1) + i - 1 = i + d
  BY <1>3
<1>7. Len(r) = n - d /\ \A i \in 1..(n - d) : r[i] = s[i + d]
  BY <1>4, <1>6
<1>8. d = IF n > m THEN n - m ELSE 0
  BY DEF d
<1> QED BY <1>1, <1>3, <1>4, <1>5, <1>7, <1>8

\* What S1 answers: the newest AnswerMax.
LEMMA AnswerFacts ==
  ASSUME CursorType
  PROVE  \E d \in 0..Len(recent) :
           /\ Answer \in Seq(QuoteEntry) /\ Len(Answer) = Len(recent) - d
           /\ \A i \in 1..Len(Answer) : Answer[i] = recent[i + d]
           /\ \A j \in 1..Len(recent) : j > Len(recent) - AnswerMax <=> j > d
<1>0. recent \in Seq(QuoteEntry) /\ AnswerMax \in Nat \ {0}
  BY BookAssumption DEF CursorType
<1>1. PICK d \in 0..Len(recent) :
        /\ d = IF Len(recent) > AnswerMax THEN Len(recent) - AnswerMax ELSE 0
        /\ Answer \in Seq(QuoteEntry) /\ Len(Answer) = Len(recent) - d
        /\ \A i \in 1..(Len(recent) - d) : Answer[i] = recent[i + d]
  BY Zenon, <1>0, NewestOf DEF Answer
<1>2. Len(recent) \in Nat
  BY <1>0, LenProperties
<1>3. \A j \in 1..Len(recent) : j > Len(recent) - AnswerMax <=> j > d
  BY <1>0, <1>1, <1>2
<1> QED BY <1>1, <1>3

\* As long as what is taken and where it ends stay the same, so does all that follows.
LEMMA CursorKept ==
  ASSUME CursorInv, CursorType', HandIsFresh',
         published' = published, clock' = clock, recent' = recent, ties' = ties, shown' = shown,
         Reach' = Reach, \A n \in 1..MaxQuotes : Taken(n)' <=> Taken(n)
  PROVE  CursorInv'
<1>1. RecentIsNewest'
  BY DEF CursorInv, RecentIsNewest
<1>2. \A i \in 1..Len(recent) : recent[i].n \in 1..MaxQuotes
  BY EntriesFields DEF CursorInv, CursorType
<1>3. published <= MaxQuotes /\ published \in Nat /\ MaxQuotes \in Nat
  BY BookAssumption DEF CursorInv, CursorType
<1>4. ShownAreTaken'
  <2> SUFFICES ASSUME NEW n \in shown PROVE n \in 1..published /\ Taken(n)'
    BY DEF ShownAreTaken
  <2>1. n \in 1..published /\ Taken(n)
    BY DEF CursorInv, ShownAreTaken
  <2>2. n \in 1..MaxQuotes
    BY <1>3, <2>1
  <2> QED BY <2>1, <2>2
<1>5. CursorSeparates'
  <2> SUFFICES ASSUME NEW i \in 1..Len(recent)
               PROVE  /\ Taken(recent[i].n)' => recent[i].rt <= Reach
                      /\ i > Len(recent) - AnswerMax /\ recent[i].rt <= Reach =>
                           Taken(recent[i].n)' \/ recent[i].n \in ties
    BY DEF CursorSeparates
  <2>1. PICK n \in 1..MaxQuotes : n = recent[i].n
    BY <1>2
  <2>2. Taken(recent[i].n)' <=> Taken(n)'
    BY <2>1 DEF Taken, InHand
  <2>3. Taken(n)' <=> Taken(recent[i].n)
    BY <2>1
  <2> QED BY <2>2, <2>3 DEF CursorInv, CursorSeparates
<1> QED BY <1>1, <1>4, <1>5 DEF CursorInv

LEMMA InitCursor == BookInit => CursorInv
<1> SUFFICES ASSUME BookInit PROVE CursorInv
  OBVIOUS
<1>0. MaxQuotes \in Nat /\ <<>> \in Seq(QuoteEntry) /\ Len(<<>>) = 0
  BY BookAssumption, EmptySeq
<1>1. CursorType
  <2>1. 0 \in 0..MaxQuotes /\ [n \in 1..MaxQuotes |-> 0] \in [1..MaxQuotes -> Nat]
    BY <1>0
  <2>2. 0 \in Nat /\ 1 \in Nat \ {0} /\ 0 <= 1 /\ FALSE \in BOOLEAN
    OBVIOUS
  <2> QED BY Zenon, <1>0, <2>1, <2>2 DEF BookInit, CursorType
<1>2. RecentIsNewest /\ CursorSeparates
  BY <1>0 DEF BookInit, RecentIsNewest, CursorSeparates
<1>3. HandIsFresh
  BY <1>0 DEF BookInit, HandIsFresh
<1>4. ShownAreTaken
  BY DEF BookInit, ShownAreTaken
<1> QED BY <1>1, <1>2, <1>3, <1>4 DEF CursorInv

\* A new quote is newer than the cursor, or it came at the time of the one before it.
LEMMA PublishCursor ==
  ASSUME CursorInv, NEW q \in QuoteKinds, PublishQuote(q)
  PROVE  CursorInv'
<1> PICK L : L = Len(recent)
  OBVIOUS
<1>0. /\ published < MaxQuotes /\ published' = published + 1
      /\ cursor' = cursor /\ todo' = todo /\ newCursor' = newCursor /\ unchecked' = unchecked
      /\ applied' = applied /\ shown' = shown
  BY DEF PublishQuote
<1>1. PICK t \in {clock, clock + 1} :
        /\ clock' = t
        /\ ties' = IF t = clock /\ published > 0 THEN ties \cup {published + 1} ELSE ties
        /\ LET all == Append(recent, [n |-> published + 1, rt |-> t, q |-> q]) IN
           recent' = SubSeq(all, Max({1, Len(all) - RecentMax + 1}), Len(all))
  BY DEF PublishQuote
<1>2. /\ published \in Nat /\ MaxQuotes \in Nat /\ clock \in Nat /\ clock > 0 /\ cursor \in Nat
      /\ newCursor \in Nat /\ cursor <= clock /\ newCursor <= clock
      /\ recent \in Seq(QuoteEntry) /\ todo \in Seq(QuoteEntry) /\ L \in Nat
      /\ RecentMax \in Nat \ {0} /\ AnswerMax \in Nat \ {0}
      /\ published = 0 => cursor = 0 /\ todo = <<>>
  BY BookAssumption, LenProperties DEF CursorInv, CursorType
<1> DEFINE e == [n |-> published + 1, rt |-> t, q |-> q]
           all == Append(recent, e)
<1>3. t \in Nat \ {0} /\ clock <= t /\ e \in QuoteEntry
  <2>1. t \in Nat \ {0} /\ clock <= t /\ published + 1 \in 1..MaxQuotes
    BY <1>0, <1>2
  <2> QED BY <2>1 DEF QuoteEntry
<1>4. e.n = published + 1 /\ e.rt = t
  OBVIOUS
<1> HIDE DEF e
<1>5. /\ all \in Seq(QuoteEntry) /\ Len(all) = L + 1
      /\ \A i \in 1..L : all[i] = recent[i]
      /\ all[L + 1] = e
  BY <1>2, <1>3, AppendProperties
<1>6. recent' = SubSeq(all, Max({1, Len(all) - RecentMax + 1}), Len(all))
  BY <1>1 DEF e
<1> HIDE DEF all
<1>6a. PICK d \in 0..Len(all) :
         /\ recent' \in Seq(QuoteEntry)
         /\ Len(recent') = Len(all) - d
         /\ \A i \in 1..(Len(all) - d) : recent'[i] = all[i + d]
  <2> DEFINE r == SubSeq(all, Max({1, Len(all) - RecentMax + 1}), Len(all))
  <2>1. all \in Seq(QuoteEntry) /\ RecentMax \in Nat \ {0}
    BY <1>2, <1>5
  <2>2. \E d \in 0..Len(all) :
          /\ d = IF Len(all) > RecentMax THEN Len(all) - RecentMax ELSE 0
          /\ r \in Seq(QuoteEntry)
          /\ Len(r) = Len(all) - d
          /\ \A i \in 1..(Len(all) - d) : r[i] = all[i + d]
    BY <2>1, NewestOf
  <2>3. recent' = r
    BY <1>6
  <2> HIDE DEF r
  <2> QED BY <2>2, <2>3
<1>7. /\ d \in 0..(L + 1)
      /\ recent' \in Seq(QuoteEntry)
      /\ Len(recent') = L + 1 - d
      /\ \A i \in 1..(L + 1 - d) : recent'[i] = all[i + d]
  BY <1>5, <1>6a
<1>8. /\ \A n \in Int : Taken(n)' <=> Taken(n)
      /\ Reach' = Reach
  BY <1>0 DEF Taken, InHand, Reach
<1>9. Reach \in Nat /\ Reach <= clock /\ (published = 0 => Reach = 0)
  BY <1>2 DEF Reach
<1>10. ~Taken(published + 1)
  <2>1. applied[published + 1] = 0
    <3>1. published + 1 \in 1..MaxQuotes /\ published + 1 > published
      BY <1>0, <1>2
    <3> QED BY <3>1 DEF CursorInv, HandIsFresh
  <2>2. \A k \in 1..Len(todo) : todo[k].n <= published
    BY DEF CursorInv, HandIsFresh
  <2>3. ~(published + 1 <= published)
    BY <1>2
  <2> QED BY <2>1, <2>2, <2>3 DEF Taken, InHand
<1>11. CursorType'
  <2>1. published' \in 0..MaxQuotes /\ published' # 0 /\ clock' \in Nat \ {0}
    BY <1>0, <1>1, <1>2, <1>3
  <2>2. cursor' <= clock' /\ newCursor' <= clock'
    BY <1>0, <1>1, <1>2, <1>3
  <2> QED BY <1>0, <1>7, <2>1, <2>2 DEF CursorInv, CursorType
<1> PICK M : M = Len(recent')
  OBVIOUS
<1>11a. M = L + 1 - d /\ M \in Nat
  BY <1>2, <1>7
<1>12. ASSUME NEW i \in 1..M
       PROVE  \/ /\ i + d \in 1..L /\ recent'[i] = recent[i + d]
              \/ /\ i + d = L + 1 /\ recent'[i] = e
  <2>1. i + d \in 1..(L + 1) /\ i \in 1..(L + 1 - d)
    BY <1>2, <1>11a
  <2>2. recent'[i] = all[i + d]
    BY <1>7, <2>1
  <2>3. i + d \in 1..L \/ i + d = L + 1
    BY <1>2, <2>1
  <2> QED BY <1>5, <2>2, <2>3
<1>13. \A i \in 1..L : /\ recent[i].n = published - L + i /\ recent[i].rt <= clock
                       /\ recent[i].rt \in Nat /\ recent[i].n \in 1..MaxQuotes
  BY <1>2, EntriesFields DEF CursorInv, RecentIsNewest
<1>14. L <= published /\ L \in Nat
  BY <1>2 DEF CursorInv, RecentIsNewest
<1>15. RecentIsNewest'
  <2>1. M <= published'
    BY <1>0, <1>2, <1>14, <1>11a
  <2>2. ASSUME NEW i \in 1..M
        PROVE  recent'[i].n = published' - M + i /\ recent'[i].rt <= clock'
    <3>0. published' - M + i = published - L + (i + d)
      BY <1>0, <1>2, <1>14, <1>11a
    <3>1. CASE i + d \in 1..L /\ recent'[i] = recent[i + d]
      <4>1. /\ recent[i + d].n = published - L + (i + d)
            /\ recent[i + d].rt \in Nat /\ recent[i + d].rt <= clock
        BY <1>13, <3>1
      <4>2. recent[i + d].rt <= t
        BY <1>2, <1>3, <4>1
      <4> QED BY <1>1, <3>0, <3>1, <4>1, <4>2
    <3>2. CASE i + d = L + 1 /\ recent'[i] = e
      <4>1. published - L + (i + d) = published + 1
        BY <1>2, <1>14, <3>2
      <4>2. t <= t
        BY <1>3
      <4> QED BY <1>1, <1>4, <3>0, <3>2, <4>1, <4>2
    <3> QED BY <1>12, <3>1, <3>2
  <2> QED BY <2>1, <2>2 DEF RecentIsNewest
<1>16. HandIsFresh'
  <2>1. \A n \in 1..MaxQuotes : applied[n] <= 1 /\ (n > published + 1 => applied[n] = 0)
    <3>1. \A n \in 1..MaxQuotes : n > published + 1 => n > published
      BY <1>2
    <3> QED BY <3>1 DEF CursorInv, HandIsFresh
  <2>2. \A k \in 1..Len(todo) : todo[k].n <= published + 1
    <3>1. \A k \in 1..Len(todo) : todo[k].n \in Nat /\ todo[k].n <= published
      BY <1>2, EntriesFields DEF CursorInv, HandIsFresh
    <3> QED BY <1>2, <3>1
  <2> QED BY <1>0, <2>1, <2>2 DEF CursorInv, HandIsFresh
<1>17. ShownAreTaken'
  <2> SUFFICES ASSUME NEW n \in shown PROVE n \in 1..(published + 1) /\ Taken(n)'
    BY <1>0 DEF ShownAreTaken
  <2>1. n \in 1..published /\ Taken(n)
    BY DEF CursorInv, ShownAreTaken
  <2> QED BY <1>2, <1>8, <2>1
<1>18. CursorSeparates'
  <2> SUFFICES ASSUME NEW i \in 1..M
               PROVE  /\ Taken(recent[i].n)' => recent'[i].rt <= Reach'
                      /\ i > M - AnswerMax /\ recent'[i].rt <= Reach' =>
                           Taken(recent[i].n)' \/ recent'[i].n \in ties'
    BY DEF CursorSeparates
  <2>1. CASE i + d \in 1..L /\ recent'[i] = recent[i + d]
    <3>1. recent[i + d].n \in Int
      BY <1>13, <2>1
    <3>2. Taken(recent[i].n)' <=> Taken(recent[i + d].n)
      BY <1>0, <2>1 DEF Taken, InHand
    <3>3. /\ Taken(recent[i + d].n) => recent[i + d].rt <= Reach
          /\ i + d > L - AnswerMax /\ recent[i + d].rt <= Reach =>
               Taken(recent[i + d].n) \/ recent[i + d].n \in ties
      BY <2>1 DEF CursorInv, CursorSeparates
    <3>4. i > M - AnswerMax => i + d > L - AnswerMax
      BY <1>2, <1>14, <1>11a
    <3>5. recent[i + d].n \in ties => recent[i + d].n \in ties'
      BY <1>1
    <3> QED BY <1>8, <2>1, <3>2, <3>3, <3>4, <3>5
  <2>2. CASE i + d = L + 1 /\ recent'[i] = e
    <3>1. ~Taken(recent[i].n)'
      BY <1>0, <1>4, <1>10, <2>2 DEF Taken, InHand
    <3>2. e.rt <= Reach => e.n \in ties'
      <4> SUFFICES ASSUME t <= Reach PROVE published + 1 \in ties'
        BY <1>4
      <4>1. t = clock /\ published > 0
        BY <1>1, <1>2, <1>3, <1>9
      <4> QED BY <1>1, <4>1
    <3> QED BY <1>8, <2>2, <3>1, <3>2
  <2> QED BY <1>12, <2>1, <2>2
<1> QED BY <1>11, <1>15, <1>16, <1>17, <1>18 DEF CursorInv

\* With nothing in hand, an answer gives what is newer than the cursor, and the cursor it
\* leads to is its newest time.
LEMMA PollCursor ==
  ASSUME CursorInv, PollQuotes
  PROVE  CursorInv'
<1>0. /\ todo = <<>> /\ unchecked = FALSE /\ Reach = cursor
      /\ published' = published /\ clock' = clock /\ recent' = recent /\ cursor' = cursor
      /\ unchecked' = unchecked /\ applied' = applied /\ ties' = ties
  BY DEF PollQuotes, CursorInv, CursorType, Reach
<1>1. /\ Fresh(Answer) # <<>> /\ todo' = Fresh(Answer) /\ newCursor' = NextCursor(Answer)
      /\ shown' = shown \cup {x.n : x \in {y \in Range(Answer) : y.rt > cursor}}
  BY DEF PollQuotes
<1>2. /\ published \in Nat /\ MaxQuotes \in Nat /\ published <= MaxQuotes /\ clock \in Nat \ {0}
      /\ cursor \in Nat /\ cursor <= clock /\ recent \in Seq(QuoteEntry)
      /\ applied \in [1..MaxQuotes -> Nat]
  BY BookAssumption DEF CursorInv, CursorType
<1> PICK L : L = Len(recent)
  OBVIOUS
<1>2a. L \in Nat /\ L <= published
  BY <1>2, LenProperties DEF CursorInv, RecentIsNewest
<1>3. /\ L \in Nat /\ L <= published
      /\ \A j \in 1..L : /\ recent[j].n = published - L + j /\ recent[j].n \in 1..MaxQuotes
                         /\ recent[j].rt \in Nat /\ recent[j].rt <= clock
  BY <1>2, EntriesFields DEF CursorInv, RecentIsNewest
<1>4. PICK d \in 0..L :
        /\ Answer \in Seq(QuoteEntry) /\ Len(Answer) = L - d
        /\ \A i \in 1..Len(Answer) : Answer[i] = recent[i + d]
        /\ \A j \in 1..L : j > L - AnswerMax <=> j > d
  BY AnswerFacts DEF CursorInv
<1> PICK A : A = Answer
  OBVIOUS
<1>4a. L - d \in Nat
  BY <1>2a
<1> PICK m : m \in Nat /\ m = L - d
  BY <1>4a
<1>5. /\ A \in Seq(QuoteEntry) /\ Len(A) = m /\ DOMAIN A = 1..m
      /\ \A i \in 1..m : i + d \in 1..L /\ A[i] = recent[i + d]
  <2>1. A \in Seq(QuoteEntry) /\ Len(A) = m
    BY <1>4
  <2>2. DOMAIN A = 1..m
    BY <2>1, LenProperties
  <2>3. \A i \in 1..m : i + d \in 1..L
    BY <1>2a
  <2>4. \A i \in 1..m : A[i] = recent[i + d]
    BY <1>4, <2>1
  <2> QED BY <2>1, <2>2, <2>3, <2>4
<1>6. \A i \in 1..m : /\ A[i].n = published - L + (i + d) /\ A[i].n \in 1..MaxQuotes
                      /\ A[i].n <= published /\ A[i].rt \in Nat /\ A[i].rt <= clock
  <2> SUFFICES ASSUME NEW i \in 1..m
               PROVE  /\ A[i].n = published - L + (i + d) /\ A[i].n \in 1..MaxQuotes
                      /\ A[i].n <= published /\ A[i].rt \in Nat /\ A[i].rt <= clock
    OBVIOUS
  <2>1. PICK j \in 1..L : j = i + d /\ A[i] = recent[j]
    BY <1>5
  <2>2. published - L + j <= published
    BY <1>2, <1>3
  <2> QED BY <1>3, <2>1, <2>2
<1> PICK at : at = {i \in 1..m : A[i].rt > cursor}
  OBVIOUS
<1>7. todo' = Picked(A, at)
  BY <1>1, <1>5 DEF Fresh
<1>8. at \in SUBSET (1..Len(A)) /\ \A i \in at : i \in 1..m /\ A[i].rt > cursor
  BY <1>5
<1>9. todo' \in Seq(QuoteEntry)
  BY <1>5, <1>7, <1>8, PickedOf
<1> PICK K : K = Len(todo')
  OBVIOUS
<1>10. K \in Nat /\ K > 0
  <2>1. K \in Nat /\ todo' # <<>>
    BY <1>1, <1>9, LenProperties
  <2> QED BY <1>9, <2>1, EmptySeq
<1>11. PICK pos \in [1..K -> at] :
         /\ \A k \in 1..K : todo'[k] = A[pos[k]]
         /\ \A k, l \in 1..K : k < l => pos[k] < pos[l]
         /\ \A i \in at : \E k \in 1..K : pos[k] = i
  <2>1. A \in Seq(QuoteEntry) /\ at \in SUBSET (1..Len(A))
    BY <1>5, <1>8
  <2>2. InOrder(todo', A, at)
    BY <1>7, <2>1, PickedInOrder
  <2>3. \E pos \in [1..K -> at] :
          /\ \A k \in 1..K : todo'[k] = A[pos[k]]
          /\ \A k, l \in 1..K : k < l => pos[k] < pos[l]
          /\ \A i \in at : \E k \in 1..K : pos[k] = i
    <3> PICK P : P = todo'
      OBVIOUS
    <3>1. InOrder(P, A, at) /\ K = Len(P)
      BY <2>2
    <3>2. \E pos \in [1..K -> at] :
            /\ \A k \in 1..K : P[k] = A[pos[k]]
            /\ \A k, l \in 1..K : k < l => pos[k] < pos[l]
            /\ \A i \in at : \E k \in 1..K : pos[k] = i
      BY SMTT(30), <3>1 DEF InOrder
    <3> QED BY <3>2
  <2> QED BY <2>3
<1>12. \A k \in 1..K : /\ pos[k] \in 1..m /\ todo'[k] = A[pos[k]] /\ A[pos[k]].rt > cursor
  BY <1>8, <1>11
<1>13. \A i \in 1..m : A[i].rt > cursor => \E k \in 1..K : todo'[k] = A[i]
  <2> SUFFICES ASSUME NEW i \in 1..m, A[i].rt > cursor PROVE \E k \in 1..K : todo'[k] = A[i]
    OBVIOUS
  <2>1. PICK k \in 1..K : pos[k] = i
    BY <1>11
  <2> QED BY <1>12, <2>1
<1>14. /\ newCursor' \in Nat /\ newCursor' <= clock
       /\ \A i \in 1..m : A[i].rt <= newCursor'
  <2> DEFINE S == {A[i].rt : i \in 1..m}
  <2>1. newCursor' = Max(S)
    BY <1>1, <1>5 DEF NextCursor
  <2>2. S \in SUBSET Int /\ S # {}
    <3>1. 1 \in 1..K
      BY <1>10
    <3>2. A[pos[1]].rt \in S
      BY <1>12, <3>1
    <3>3. \A i \in 1..m : A[i].rt \in Int
      BY <1>6
    <3> QED BY <3>2, <3>3
  <2>3. IsFiniteSet(S)
    <3>1. IsFiniteSet(1..m)
      BY FirstPositions
    <3> DEFINE f == [i \in 1..m |-> A[i].rt]
    <3>2. f \in Surjection(1..m, S)
      BY DEF Surjection
    <3> HIDE DEF f, S
    <3> QED BY <3>1, <3>2, FS_Surjection
  <2>4. \E x \in S : \A y \in S : x >= y
    BY <2>2, <2>3, LargestOf
  <2>5. Max(S) \in S /\ \A y \in S : Max(S) >= y
    BY <2>4, Zenon DEF Max
  <2>6. PICK i \in 1..m : newCursor' = A[i].rt
    BY <2>1, <2>5
  <2>7. \A k \in 1..m : A[k].rt \in S
    OBVIOUS
  <2>8. \A k \in 1..m : newCursor' >= A[k].rt
    BY <2>1, <2>5, <2>7
  <2> QED BY <1>6, <2>6, <2>8
<1>15. cursor < newCursor' /\ Reach' = newCursor'
  <2>1. 1 \in 1..K
    BY <1>10
  <2>2. A[pos[1]].rt > cursor /\ A[pos[1]].rt <= newCursor' /\ A[pos[1]].rt \in Nat
    BY <1>6, <1>12, <1>14, <2>1
  <2>3. todo' # <<>>
    BY <1>1
  <2> QED BY <1>2, <1>14, <2>2, <2>3 DEF Reach
<1>16. published # 0
  <2>1. 1 \in 1..K
    BY <1>10
  <2>2. pos[1] \in 1..m /\ m <= L
    BY <1>3, <1>12, <2>1
  <2> QED BY <1>3, <2>2
<1>17. CursorType'
  BY <1>0, <1>9, <1>14, <1>16 DEF CursorInv, CursorType
<1>18. RecentIsNewest'
  BY <1>0 DEF CursorInv, RecentIsNewest
<1>19. \A n : ~InHand(n)
  BY <1>0, EmptySeq DEF InHand
<1>20. HandIsFresh'
  <2>1. ASSUME NEW k \in 1..K PROVE todo'[k].n <= published /\ applied[todo'[k].n] = 0
    <3>1. PICK i \in 1..m : i = pos[k] /\ todo'[k] = A[i] /\ A[i].rt > cursor
      BY <1>12
    <3>2. PICK j \in 1..L : j = i + d /\ A[i] = recent[j]
      BY <1>5
    <3>3. ~(recent[j].rt <= cursor)
      <4>1. recent[j].rt > cursor /\ recent[j].rt \in Nat
        BY <1>3, <3>1, <3>2
      <4> QED BY <1>2, <4>1
    <3>4. ~Taken(recent[j].n)
      BY <1>0, <3>3 DEF CursorInv, CursorSeparates
    <3>5. applied[recent[j].n] # 1
      BY <3>4 DEF Taken
    <3>6. applied[recent[j].n] \in Nat /\ applied[recent[j].n] <= 1
      BY <1>2, <1>3 DEF CursorInv, HandIsFresh
    <3>7. applied[recent[j].n] = 0
      BY <3>5, <3>6
    <3>8. A[i].n <= published
      BY <1>6
    <3> QED BY <3>1, <3>2, <3>7, <3>8
  <2>2. ASSUME NEW k \in 1..K, NEW l \in 1..K, k < l PROVE todo'[k].n < todo'[l].n
    <3>1. pos[k] \in 1..m /\ pos[l] \in 1..m /\ pos[k] < pos[l]
      BY <1>11, <1>12, <2>2
    <3>2. /\ todo'[k].n = published - L + (pos[k] + d)
          /\ todo'[l].n = published - L + (pos[l] + d)
      BY <1>6, <1>12, <3>1
    <3> QED BY <1>2, <1>3, <3>1, <3>2
  <2>3. \A n \in 1..MaxQuotes : applied[n] <= 1 /\ (n > published => applied[n] = 0)
    BY DEF CursorInv, HandIsFresh
  <2> QED BY <1>0, <2>1, <2>2, <2>3 DEF HandIsFresh
<1>21. ShownAreTaken'
  <2> SUFFICES ASSUME NEW n \in shown' PROVE n \in 1..published /\ Taken(n)'
    BY <1>0 DEF ShownAreTaken
  <2>1. CASE n \in shown
    BY <1>0, <1>19, <2>1 DEF CursorInv, ShownAreTaken, Taken
  <2>2. CASE n \in {x.n : x \in {y \in Range(Answer) : y.rt > cursor}}
    <3>1. PICK i \in 1..m : n = A[i].n /\ A[i].rt > cursor
      BY <1>5, <2>2 DEF Range
    <3>2. \E k \in 1..K : todo'[k].n = n
      BY <1>13, <3>1
    <3>3. n \in 1..MaxQuotes /\ n <= published
      BY <1>6, <3>1
    <3>4. n \in 1..published
      BY <1>2, <3>3
    <3> QED BY <3>2, <3>4 DEF Taken, InHand
  <2> QED BY <1>1, <2>1, <2>2
<1>22. CursorSeparates'
  <2> SUFFICES ASSUME NEW j \in 1..L
               PROVE  /\ Taken(recent[j].n)' => recent[j].rt <= newCursor'
                      /\ j > L - AnswerMax /\ recent[j].rt <= newCursor' =>
                           Taken(recent[j].n)' \/ recent[j].n \in ties
    BY <1>0, <1>15 DEF CursorSeparates
  <2>0. Taken(recent[j].n)' <=> applied[recent[j].n] = 1 \/ \E k \in 1..K : todo'[k].n = recent[j].n
    BY <1>0 DEF Taken, InHand
  <2>1. applied[recent[j].n] = 1 => recent[j].rt <= newCursor'
    <3>1. applied[recent[j].n] = 1 => recent[j].rt <= cursor
      BY <1>0 DEF CursorInv, CursorSeparates, Taken
    <3>2. recent[j].rt \in Nat /\ cursor \in Nat /\ newCursor' \in Nat /\ cursor < newCursor'
      BY <1>2, <1>3, <1>14, <1>15
    <3> QED BY <3>1, <3>2
  <2>2. ASSUME NEW k \in 1..K, todo'[k].n = recent[j].n PROVE recent[j].rt <= newCursor'
    <3>1. pos[k] \in 1..m /\ todo'[k] = A[pos[k]]
      BY <1>12
    <3>2. pos[k] + d = j
      <4>1. A[pos[k]].n = published - L + (pos[k] + d)
        BY <1>6, <3>1
      <4>2. recent[j].n = published - L + j
        BY <1>3
      <4>3. published - L + (pos[k] + d) = published - L + j
        BY <2>2, <3>1, <4>1, <4>2
      <4>4. PICK i \in Int : i = pos[k]
        BY <3>1
      <4>5. j \in Int /\ d \in Int /\ published \in Int /\ L \in Int
        BY <1>2, <1>2a
      <4>6. published - L + (i + d) = published - L + j
        BY <4>3, <4>4
      <4>7. i + d = j
        <5> HIDE <4>3
        <5> QED BY <4>5, <4>6
      <4> QED BY <4>4, <4>7
    <3> QED BY <1>5, <1>14, <3>1, <3>2
  <2>3. ASSUME j > L - AnswerMax, recent[j].rt <= newCursor'
        PROVE  Taken(recent[j].n)' \/ recent[j].n \in ties
    <3>1. CASE recent[j].rt <= cursor
      <4>1. Taken(recent[j].n) \/ recent[j].n \in ties
        BY <1>0, <2>3, <3>1 DEF CursorInv, CursorSeparates
      <4> QED BY <1>19, <2>0, <4>1 DEF Taken
    <3>2. CASE recent[j].rt > cursor
      <4>1. j > d
        BY <1>4, <2>3
      <4>2. PICK i \in 1..m : i + d = j
        BY <1>3, <4>1
      <4>3. A[i] = recent[j]
        BY <1>5, <4>2
      <4> QED BY <1>13, <2>0, <3>2, <4>3
    <3> QED BY SMTT(30), <1>2, <1>3, <3>1, <3>2
  <2> QED BY <2>0, <2>1, <2>2, <2>3
<1> QED BY <1>17, <1>18, <1>20, <1>21, <1>22 DEF CursorInv

\* The first quote in hand is done with: it is applied, and the cursor moves with the last.
LEMMA ConsumeCursor ==
  ASSUME CursorInv, todo # <<>>, todo' = Tail(todo), newCursor' = newCursor,
         cursor' = IF Len(todo) = 1 THEN newCursor ELSE cursor,
         applied' = IF unchecked THEN applied ELSE [applied EXCEPT ![Head(todo).n] = @ + 1],
         unchecked' = FALSE, UNCHANGED <<published, clock, recent, shown, ties>>
  PROVE  CursorInv'
<1> PICK K : K = Len(todo)
  OBVIOUS
<1> PICK h : h = todo[1].n
  OBVIOUS
<1>0. /\ todo \in Seq(QuoteEntry) /\ applied \in [1..MaxQuotes -> Nat] /\ MaxQuotes \in Nat
      /\ published \in Nat /\ unchecked \in BOOLEAN /\ newCursor \in Nat
  BY BookAssumption DEF CursorInv, CursorType
<1>1. K \in Nat /\ K > 0 /\ Head(todo) = todo[1] /\ h \in 1..MaxQuotes
  <2>1. K \in Nat /\ Head(todo) = todo[1]
    BY <1>0, LenProperties
  <2>2. K > 0
    BY <1>0, <2>1, EmptySeq
  <2>3. 1 \in 1..K
    BY <2>1, <2>2
  <2> QED BY <1>0, <2>1, <2>2, <2>3, EntriesFields
<1>2. /\ todo' \in Seq(QuoteEntry) /\ Len(todo') = K - 1
      /\ \A k \in 1..(K - 1) : todo'[k] = todo[k + 1]
  BY <1>0, HeadTailProperties
<1>3. /\ applied[h] = IF unchecked THEN 1 ELSE 0
      /\ \A k \in 1..K : k # 1 => applied[todo[k].n] = 0
      /\ \A k \in 1..K : todo[k].n <= published
      /\ \A k, l \in 1..K : k < l => todo[k].n < todo[l].n
  BY <1>1 DEF CursorInv, HandIsFresh
<1>4. \A k \in 1..K : todo[k].n \in 1..MaxQuotes /\ todo[k].n \in Nat
  BY <1>0, EntriesFields
<1>5. \A k \in 1..K : k # 1 => todo[k].n # h
  <2>1. \A k \in 1..K : k # 1 => 1 < k
    BY <1>1
  <2>2. \A k \in 1..K : 1 < k => h < todo[k].n
    BY <1>1, <1>3
  <2> QED BY <1>1, <1>4, <2>1, <2>2
<1>6. /\ applied' \in [1..MaxQuotes -> Nat] /\ applied'[h] = 1
      /\ \A n \in 1..MaxQuotes : n # h => applied'[n] = applied[n]
  <2>1. CASE unchecked
    BY <1>0, <1>3, <2>1
  <2>2. CASE ~unchecked
    <3>1. applied' = [applied EXCEPT ![h] = @ + 1] /\ applied[h] = 0
      BY <1>1, <1>3, <2>2
    <3> QED BY <1>0, <1>1, <3>1
  <2> QED BY <2>1, <2>2
<1>7. ASSUME NEW n \in 1..MaxQuotes PROVE Taken(n)' <=> Taken(n)
  <2>1. CASE n = h
    <3>1. Taken(n)'
      BY <1>6, <2>1 DEF Taken
    <3>2. 1 \in 1..K
      BY <1>1
    <3> QED BY <2>1, <3>1, <3>2 DEF Taken, InHand
  <2>2. CASE n # h
    <3>1. InHand(n)' => InHand(n)
      <4>1. \A k \in 1..(K - 1) : k + 1 \in 1..K
        BY <1>1
      <4> QED BY <1>2, <4>1 DEF InHand
    <3>2. InHand(n) => InHand(n)'
      <4> SUFFICES ASSUME NEW k \in 1..K, todo[k].n = n PROVE InHand(n)'
        BY DEF InHand
      <4>1. k - 1 \in 1..(K - 1) /\ (k - 1) + 1 = k
        BY <1>1, <2>2
      <4>2. todo'[k - 1] = todo[k]
        BY <1>2, <4>1
      <4> QED BY <1>2, <4>1, <4>2 DEF InHand
    <3> QED BY <1>6, <2>2, <3>1, <3>2 DEF Taken
  <2> QED BY <2>1, <2>2
<1>8. K = 1 <=> todo' = <<>>
  <2>1. todo' = <<>> <=> Len(todo') = 0
    BY <1>2, EmptySeq
  <2> QED BY <1>1, <1>2, <2>1
<1>9. Reach' = Reach
  BY <1>8 DEF Reach
<1>10. CursorType'
  <2>1. /\ cursor' \in Nat /\ cursor' <= clock /\ FALSE \in BOOLEAN
        /\ published = 0 => cursor' = 0 /\ todo' = <<>>
    BY DEF CursorInv, CursorType
  <2> QED BY <1>2, <1>6, <2>1 DEF CursorInv, CursorType
<1>11. HandIsFresh'
  <2>1. ASSUME NEW n \in 1..MaxQuotes PROVE applied'[n] <= 1 /\ (n > published => applied'[n] = 0)
    <3>1. CASE n = h
      <4>1. h <= published
        BY <1>1, <1>3
      <4>2. ~(h > published)
        BY <1>0, <1>1, <4>1
      <4> QED BY <1>6, <3>1, <4>2
    <3>2. CASE n # h
      BY <1>6, <3>2 DEF CursorInv, HandIsFresh
    <3> QED BY <3>1, <3>2
  <2>2. ASSUME NEW k \in 1..(K - 1) PROVE todo'[k].n <= published /\ applied'[todo'[k].n] = 0
    <3>1. k + 1 \in 1..K /\ k + 1 # 1 /\ todo'[k] = todo[k + 1]
      BY <1>1, <1>2
    <3> QED BY <1>3, <1>4, <1>5, <1>6, <3>1
  <2>3. ASSUME NEW k \in 1..(K - 1), NEW l \in 1..(K - 1), k < l PROVE todo'[k].n < todo'[l].n
    <3>1. k + 1 \in 1..K /\ l + 1 \in 1..K /\ k + 1 < l + 1
      BY <1>1, <2>3
    <3> QED BY <1>2, <1>3, <3>1
  <2>4. Len(todo') = K - 1
    BY <1>2
  <2> QED BY <2>1, <2>2, <2>3, <2>4 DEF HandIsFresh
<1> QED BY <1>7, <1>9, <1>10, <1>11, CursorKept

\* A quote that is put in the book stays in hand until its checks have run.
LEMMA ApplyCursor ==
  ASSUME CursorInv, ApplyQuote
  PROVE  CursorInv'
<1>0. /\ todo # <<>> /\ unchecked = FALSE /\ newCursor' = newCursor
      /\ applied' = [applied EXCEPT ![Head(todo).n] = @ + 1]
      /\ UNCHANGED <<published, clock, recent, shown, ties>>
  BY DEF ApplyQuote, CursorInv, CursorType
<1>1. CASE Head(todo).q.side \notin Sides
  <2>1. /\ todo' = Tail(todo) /\ cursor' = IF Len(todo) = 1 THEN newCursor ELSE cursor
        /\ unchecked' = FALSE
    BY <1>0, <1>1 DEF ApplyQuote
  <2> QED BY <1>0, <2>1, ConsumeCursor
<1>2. CASE Head(todo).q.side \in Sides
  <2>1. todo' = todo /\ cursor' = cursor /\ unchecked' = TRUE
    BY <1>2 DEF ApplyQuote
  <2> PICK K : K = Len(todo)
    OBVIOUS
  <2> PICK h : h = todo[1].n
    OBVIOUS
  <2>2. todo \in Seq(QuoteEntry) /\ applied \in [1..MaxQuotes -> Nat]
    BY DEF CursorInv, CursorType
  <2>3. K \in Nat /\ K > 0 /\ Head(todo) = todo[1] /\ h \in 1..MaxQuotes /\ h \in Nat
    <3>1. K \in Nat /\ Head(todo) = todo[1]
      BY <2>2, LenProperties
    <3>2. K > 0
      BY <1>0, <2>2, <3>1, EmptySeq
    <3> QED BY <2>2, <3>1, <3>2, EntriesFields
  <2>4. /\ \A k \in 1..K : todo[k].n <= published /\ applied[todo[k].n] = 0
        /\ \A k, l \in 1..K : k < l => todo[k].n < todo[l].n
    BY <1>0 DEF CursorInv, HandIsFresh
  <2>5. /\ applied' \in [1..MaxQuotes -> Nat] /\ applied'[h] = 1
        /\ \A n \in 1..MaxQuotes : n # h => applied'[n] = applied[n]
    <3>0. 1 \in 1..K
      BY <2>3
    <3>1. applied' = [applied EXCEPT ![h] = @ + 1] /\ applied[h] = 0
      BY <1>0, <2>3, <2>4, <3>0
    <3> QED BY <2>2, <2>3, <3>1
  <2>6. InHand(h)
    BY <2>3 DEF InHand
  <2>7. \A n \in 1..MaxQuotes : Taken(n)' <=> Taken(n)
    BY <2>1, <2>5, <2>6 DEF Taken, InHand
  <2>8. Reach' = Reach
    BY <1>0, <2>1 DEF Reach
  <2>9. CursorType'
    BY <1>0, <2>1, <2>5 DEF CursorInv, CursorType
  <2>10. HandIsFresh'
    <3>1. ASSUME NEW n \in 1..MaxQuotes
          PROVE  applied'[n] <= 1 /\ (n > published => applied'[n] = 0)
      <4>1. CASE n = h
        <5>1. ~(h > published)
          <6>1. h <= published /\ published \in Nat
            BY <2>3, <2>4 DEF CursorInv, CursorType
          <6> QED BY <2>3, <6>1
        <5> QED BY <2>5, <4>1, <5>1
      <4>2. CASE n # h
        BY <2>5, <4>2 DEF CursorInv, HandIsFresh
      <4> QED BY <4>1, <4>2
    <3>2. ASSUME NEW k \in 1..K PROVE applied'[todo[k].n] = IF k = 1 THEN 1 ELSE 0
      <4>1. CASE k = 1
        BY <2>5, <4>1
      <4>2. CASE k # 1
        <5>1. 1 < k /\ 1 \in 1..K
          BY <2>3, <4>2
        <5>2. h < todo[k].n /\ todo[k].n \in 1..MaxQuotes /\ todo[k].n \in Nat
          BY <2>2, <2>4, <5>1, EntriesFields
        <5>3. todo[k].n # h
          BY <2>3, <5>2
        <5> QED BY <2>4, <2>5, <4>2, <5>2, <5>3
      <4> QED BY <4>1, <4>2
    <3> QED BY <1>0, <2>1, <2>4, <3>1, <3>2 DEF HandIsFresh
  <2> QED BY <1>0, <2>7, <2>8, <2>9, <2>10, CursorKept
<1> QED BY <1>1, <1>2

LEMMA CheckCursor ==
  ASSUME CursorInv, CheckBook
  PROVE  CursorInv'
<1>1. /\ unchecked /\ unchecked' = FALSE /\ applied' = applied /\ newCursor' = newCursor
      /\ todo' = Tail(todo) /\ cursor' = IF Len(todo) = 1 THEN newCursor ELSE cursor
      /\ UNCHANGED <<published, clock, recent, shown, ties>>
  BY DEF CheckBook
<1>2. todo # <<>>
  BY <1>1 DEF CursorInv, HandIsFresh
<1> QED BY <1>1, <1>2, ConsumeCursor

LEMMA NextCursorInv == CursorInv /\ [BookNext]_bookVars => CursorInv'
<1> SUFFICES ASSUME CursorInv, [BookNext]_bookVars PROVE CursorInv'
  OBVIOUS
<1> DEFINE cursorVars == <<published, clock, recent, cursor, todo, newCursor, unchecked,
                           applied, shown, ties>>
<1>1. ASSUME UNCHANGED cursorVars PROVE CursorInv'
  BY <1>1 DEF CursorInv, CursorType, RecentIsNewest, HandIsFresh, ShownAreTaken,
              CursorSeparates, Taken, InHand, Reach
<1>2. ASSUME NEW r \in Readers, NEW s \in Sides, ComputeView(r, s) PROVE UNCHANGED cursorVars
  BY <1>2 DEF ComputeView
<1>3. ASSUME NEW r \in Readers, StoreView(r) PROVE UNCHANGED cursorVars
  BY <1>3 DEF StoreView
<1>4. UNCHANGED bookVars => UNCHANGED cursorVars
  BY DEF bookVars
<1> HIDE DEF cursorVars
<1> QED BY <1>1, <1>2, <1>3, <1>4, PublishCursor, PollCursor, ApplyCursor, CheckCursor
        DEF BookNext

\* The cursor of the book builder neither repeats nor skips (obb/main.py:171), whatever is
\* published and whatever the limits: all it can miss is a quote that S1 received at the same
\* nanosecond as the one before it, and one that fell out of the window before a poll.
THEOREM CursorIsExact == BookSpec => []ShownIsAppliedOnce
<1>1. CursorInv => ShownIsAppliedOnce
  <2> SUFFICES ASSUME CursorInv PROVE ShownIsAppliedOnce
    OBVIOUS
  <2>1. \A n \in 1..published : applied[n] <= 1
    <3>1. \A n \in 1..published : n \in 1..MaxQuotes
      BY BookAssumption DEF CursorInv, CursorType
    <3> QED BY <3>1 DEF CursorInv, HandIsFresh
  <2>2. ASSUME todo = <<>>, NEW n, Taken(n) PROVE applied[n] = 1
    <3>1. ~InHand(n)
      BY <2>2, EmptySeq DEF InHand
    <3> QED BY <2>2, <3>1 DEF Taken
  <2>3. todo = <<>> => \A n \in shown : applied[n] = 1
    BY <2>2 DEF CursorInv, ShownAreTaken
  <2>4. ASSUME todo = <<>>, NEW i \in DOMAIN Answer, Answer[i].rt <= cursor
        PROVE  applied[Answer[i].n] = 1 \/ Answer[i].n \in ties
    <3>1. PICK d \in 0..Len(recent) :
            /\ Answer \in Seq(QuoteEntry) /\ Len(Answer) = Len(recent) - d
            /\ \A k \in 1..Len(Answer) : Answer[k] = recent[k + d]
            /\ \A j \in 1..Len(recent) : j > Len(recent) - AnswerMax <=> j > d
      BY AnswerFacts DEF CursorInv
    <3>2. i \in 1..Len(Answer) /\ Len(recent) \in Nat
      BY <3>1, LenProperties DEF CursorInv, CursorType
    <3>3. PICK j \in 1..Len(recent) : j = i + d /\ j > d /\ Answer[i] = recent[j]
      BY <3>1, <3>2
    <3>4. j > Len(recent) - AnswerMax
      BY <3>1, <3>3
    <3>5. recent[j].rt <= Reach
      BY <2>4, <3>3 DEF Reach
    <3>6. Taken(recent[j].n) \/ recent[j].n \in ties
      BY <3>4, <3>5 DEF CursorInv, CursorSeparates
    <3> QED BY <2>2, <2>4, <3>3, <3>6
  <2> QED BY <2>1, <2>3, <2>4 DEF ShownIsAppliedOnce
<1> QED BY InitCursor, NextCursorInv, <1>1, PTL DEF BookSpec

---------------------------------------------------------------------------
(***************************************************************************)
(* The hello of a live stream, for any sources, queue and outages: one     *)
(* that did not time out names exactly the sources whose first poll        *)
(* succeeded, although the pollers count themselves without a lock.        *)
(*                                                                         *)
(* A poller adds one to a count it read earlier, so the count may lose     *)
(* pollers; but it never runs ahead of those that have written it, and     *)
(* reaches the number of sources only when all of them have.               *)
(***************************************************************************)

\* The pollers that have written the count.
Counted == {s \in Sources : ~poller[s].first /\ poller[s].at # "count"}

PollerType(p) ==
  /\ DOMAIN p = {"at", "left", "first", "ok", "count"}
  /\ p.first \in BOOLEAN /\ p.ok \in BOOLEAN /\ p.count \in Nat

HelloType ==
  /\ poller = [s \in Sources |-> poller[s]] /\ \A s \in Sources : PollerType(poller[s])
  /\ reachable \subseteq Sources /\ reachableCount \in Nat /\ reachableDone \in BOOLEAN
  /\ DOMAIN handler = {"at", "hello", "complete"} /\ handler.complete \in BOOLEAN

\* What a poller has done of its first poll, and what it has told of it.
FirstPoll(s) ==
  /\ poller[s].at = "list" => poller[s].first
  /\ poller[s].at = "count" => ~poller[s].first /\ poller[s].count <= Cardinality(Counted)
  /\ poller[s].first => s \notin reachable
  /\ ~poller[s].first => (poller[s].ok <=> s \in reachable)

HelloInv ==
  /\ HelloType
  /\ \A s \in Sources : FirstPoll(s)
  /\ reachableCount <= Cardinality(Counted)
  /\ reachableDone => Counted = Sources
  /\ handler.complete => reachableDone /\ handler.hello = reachable

---------------------------------------------------------------------------
LEMMA CountedFinite == IsFiniteSet(Counted) /\ Cardinality(Counted) \in Nat
  BY LiveAssumption, FS_Subset, FS_CardinalityType DEF Counted

LEMMA InitHello == LiveInit => HelloInv
<1> SUFFICES ASSUME LiveInit PROVE HelloInv
  OBVIOUS
<1>1. HelloType
  BY DEF LiveInit, HelloType, PollerType
<1>2. Counted = {} /\ Cardinality(Counted) \in Nat
  BY CountedFinite DEF LiveInit, Counted
<1>3. \A s \in Sources : FirstPoll(s)
  BY DEF LiveInit, FirstPoll
<1> QED BY <1>1, <1>2, <1>3 DEF HelloInv, LiveInit

\* A step of one poller that neither lists nor counts, and of the others nothing.
LEMMA PollerMoves ==
  ASSUME HelloInv, NEW s \in Sources, UNCHANGED <<helloVars, handler>>,
         poller' = [t \in Sources |-> poller'[t]], PollerType(poller'[s]),
         poller'[s].first = poller[s].first, poller[s].at # "count", poller'[s].at # "count",
         ~poller[s].first => poller'[s].ok = poller[s].ok,
         poller'[s].at = "list" => poller[s].first,
         \A t \in Sources : t # s => poller'[t] = poller[t]
  PROVE  HelloInv'
<1>1. Counted' = Counted
  BY DEF Counted
<1>2. HelloType'
  BY DEF HelloInv, HelloType, helloVars
<1>3. ASSUME NEW t \in Sources PROVE FirstPoll(t)'
  <2>1. FirstPoll(t) /\ FirstPoll(s)
    BY DEF HelloInv
  <2>2. CASE t = s
    BY <1>1, <2>1, <2>2 DEF FirstPoll, helloVars
  <2>3. CASE t # s
    BY <1>1, <2>1, <2>3 DEF FirstPoll, helloVars
  <2> QED BY <2>2, <2>3
<1> QED BY <1>1, <1>2, <1>3 DEF HelloInv, helloVars

LEMMA PollAnswersHello ==
  ASSUME HelloInv, NEW s \in Sources, PollAnswers(s)
  PROVE  HelloInv'
<1> DEFINE left == FramesOf(s, FilterNew(s, ListedBy(s)))
<1>1. /\ poller[s].at = "poll"
      /\ poller' = [poller EXCEPT
           ![s].at = IF poller[s].first THEN "list" ELSE OfferOrPoll(left),
           ![s].ok = @ \/ poller[s].first,
           ![s].left = left]
      /\ UNCHANGED <<helloVars, handler>>
  BY DEF PollAnswers
<1> HIDE DEF left
<1>2. OfferOrPoll(left) \in {"poll", "offer"}
  BY DEF OfferOrPoll
<1>3. /\ poller' = [t \in Sources |-> poller'[t]]
      /\ \A t \in Sources : t # s => poller'[t] = poller[t]
      /\ poller'[s].at = IF poller[s].first THEN "list" ELSE OfferOrPoll(left)
      /\ poller'[s].ok = (poller[s].ok \/ poller[s].first)
      /\ poller'[s].first = poller[s].first /\ PollerType(poller'[s])
  BY <1>1 DEF HelloInv, HelloType, PollerType
<1>4. ~poller[s].first => poller'[s].ok = poller[s].ok
  BY <1>3 DEF HelloInv, HelloType, PollerType
<1>5. poller'[s].at # "count" /\ (poller'[s].at = "list" => poller[s].first)
  BY <1>2, <1>3
<1> QED BY <1>1, <1>3, <1>4, <1>5, PollerMoves

LEMMA OfferHello ==
  ASSUME HelloInv, NEW s \in Sources,
         PollFails(s) \/ Put(s) \/ DropOldest(s) \/ GiveUp(s) \/ EndPoller(s)
  PROVE  HelloInv'
<1>1. /\ poller[s].at # "count" /\ UNCHANGED <<helloVars, handler>>
      /\ \E at, left :
           /\ at # "count" /\ (at = "list" => poller[s].first)
           /\ \/ poller' = [poller EXCEPT ![s].at = at]
              \/ poller' = [poller EXCEPT ![s].at = at, ![s].left = left]
              \/ poller' = [poller EXCEPT ![s].left = left, ![s].at = at]
  BY DEF PollFails, Put, DropOldest, GiveUp, EndPoller, Offering, Offered, OfferOrPoll
<1>2. PICK at, left :
           /\ at # "count" /\ (at = "list" => poller[s].first)
           /\ \/ poller' = [poller EXCEPT ![s].at = at]
              \/ poller' = [poller EXCEPT ![s].at = at, ![s].left = left]
              \/ poller' = [poller EXCEPT ![s].left = left, ![s].at = at]
  BY <1>1
<1>3. /\ poller' = [t \in Sources |-> poller'[t]]
      /\ \A t \in Sources : t # s => poller'[t] = poller[t]
  BY <1>2 DEF HelloInv, HelloType
<1>4. PICK new : /\ poller'[s] = new
                 /\ \/ new = [poller[s] EXCEPT !.at = at]
                    \/ new = [poller[s] EXCEPT !.at = at, !.left = left]
                    \/ new = [poller[s] EXCEPT !.left = left, !.at = at]
  BY <1>2 DEF HelloInv, HelloType
<1>5. /\ new.at = at /\ new.ok = poller[s].ok /\ new.first = poller[s].first
      /\ new.count = poller[s].count /\ DOMAIN new = DOMAIN poller[s]
  BY <1>4 DEF HelloInv, HelloType, PollerType
<1>6. PollerType(poller'[s])
  BY <1>4, <1>5 DEF HelloInv, HelloType, PollerType
<1> QED BY <1>1, <1>2, <1>3, <1>4, <1>5, <1>6, PollerMoves

\* The poller that lists itself reads a count that is not ahead of those that wrote it.
LEMMA ListHello ==
  ASSUME HelloInv, NEW s \in Sources, List(s)
  PROVE  HelloInv'
<1>1. /\ poller[s].at = "list" /\ poller[s].first
      /\ reachable' = IF poller[s].ok THEN reachable \cup {s} ELSE reachable
      /\ poller' = [poller EXCEPT ![s].at = "count", ![s].first = FALSE, ![s].count = reachableCount]
      /\ UNCHANGED <<reachableCount, reachableDone, handler>>
  BY DEF List, HelloInv, FirstPoll
<1>2. /\ poller' = [t \in Sources |-> poller'[t]]
      /\ \A t \in Sources : t # s => poller'[t] = poller[t]
      /\ poller'[s].at = "count" /\ poller'[s].first = FALSE
      /\ poller'[s].count = reachableCount /\ poller'[s].ok = poller[s].ok
      /\ PollerType(poller'[s])
  BY <1>1 DEF HelloInv, HelloType, PollerType
<1>3. Counted' = Counted
  BY ZenonT(60), <1>1, <1>2 DEF Counted
<1>4. HelloType'
  BY <1>1, <1>2 DEF HelloInv, HelloType
<1>5. s \notin Counted /\ ~reachableDone
  BY <1>1 DEF HelloInv, Counted
<1>6. ASSUME NEW t \in Sources PROVE FirstPoll(t)'
  <2>1. FirstPoll(t) /\ FirstPoll(s) /\ reachableCount <= Cardinality(Counted)
    BY DEF HelloInv
  <2>2. CASE t = s
    BY <1>1, <1>2, <1>3, <2>1, <2>2 DEF FirstPoll
  <2>3. CASE t # s
    BY <1>1, <1>2, <1>3, <2>1, <2>3 DEF FirstPoll
  <2> QED BY <2>2, <2>3
<1> QED BY <1>1, <1>3, <1>4, <1>5, <1>6 DEF HelloInv

\* The count it writes is at most one more than those that wrote it before: it is itself one.
LEMMA CountHello ==
  ASSUME HelloInv, NEW s \in Sources, Count(s)
  PROVE  HelloInv'
<1>1. /\ poller[s].at = "count" /\ ~poller[s].first /\ poller[s].count <= Cardinality(Counted)
      /\ reachableCount' = poller[s].count + 1
      /\ reachableDone' = (reachableDone \/ reachableCount' = Cardinality(Sources))
      /\ poller' = [poller EXCEPT ![s].at = OfferOrPoll(poller[s].left)]
      /\ UNCHANGED <<reachable, handler>>
  BY DEF Count, HelloInv, FirstPoll
<1>2. OfferOrPoll(poller[s].left) \in {"poll", "offer"}
  BY DEF OfferOrPoll
<1>3. /\ poller' = [t \in Sources |-> poller'[t]]
      /\ \A t \in Sources : t # s => poller'[t] = poller[t]
      /\ poller'[s].at \in {"poll", "offer"} /\ poller'[s].first = poller[s].first
      /\ poller'[s].ok = poller[s].ok /\ PollerType(poller'[s])
  BY <1>1, <1>2 DEF HelloInv, HelloType, PollerType
<1>4. Counted' = Counted \cup {s} /\ s \notin Counted
  BY <1>1, <1>3 DEF Counted
<1>5. /\ Cardinality(Counted') = Cardinality(Counted) + 1 /\ Cardinality(Counted) \in Nat
      /\ IsFiniteSet(Counted')
  BY <1>4, CountedFinite, FS_AddElement
<1>6. poller[s].count \in Nat /\ reachableCount' \in Nat /\ reachableCount' <= Cardinality(Counted')
  BY <1>1, <1>5 DEF HelloInv, HelloType, PollerType
<1>7. HelloType'
  BY <1>1, <1>3, <1>6 DEF HelloInv, HelloType
<1>8. ASSUME NEW t \in Sources PROVE FirstPoll(t)'
  <2>1. FirstPoll(t) /\ FirstPoll(s) /\ PollerType(poller[t])
    BY DEF HelloInv, HelloType
  <2>2. CASE t = s
    BY <1>1, <1>3, <2>1, <2>2 DEF FirstPoll
  <2>3. CASE t # s
    BY <1>1, <1>3, <1>5, <2>1, <2>3 DEF FirstPoll, PollerType
  <2> QED BY <2>2, <2>3
<1>9. ASSUME reachableDone' PROVE Counted' = Sources
  <2>1. CASE reachableDone
    BY <1>4, <2>1 DEF HelloInv
  <2>2. CASE reachableCount' = Cardinality(Sources)
    <3>1. Counted' \subseteq Sources /\ IsFiniteSet(Sources) /\ Cardinality(Sources) \in Nat
      BY LiveAssumption, FS_CardinalityType DEF Counted
    <3>2. Cardinality(Counted') <= Cardinality(Sources)
      BY <3>1, FS_Subset
    <3>3. Cardinality(Counted') = Cardinality(Sources)
      BY <1>5, <1>6, <2>2, <3>1, <3>2
    <3> QED BY <3>1, <3>3, FS_Subset
  <2> QED BY <1>1, <1>9, <2>1, <2>2
<1>10. handler'.complete => reachableDone' /\ handler'.hello = reachable'
  BY <1>1 DEF HelloInv
<1> QED BY <1>6, <1>7, <1>8, <1>9, <1>10 DEF HelloInv

LEMMA NextHello == HelloInv /\ [LiveNext]_liveVars => HelloInv'
<1> SUFFICES ASSUME HelloInv, [LiveNext]_liveVars PROVE HelloInv'
  OBVIOUS
<1>0. ASSUME UNCHANGED <<poller, helloVars>>, handler'.complete = handler.complete,
             handler'.hello = handler.hello, DOMAIN handler' = DOMAIN handler
      PROVE  HelloInv'
  <2>1. Counted' = Counted
    BY <1>0 DEF Counted
  <2> QED BY <1>0, <2>1 DEF HelloInv, HelloType, FirstPoll, helloVars
<1>1. ASSUME NEW s \in Sources, Happens(s) \/ Outage(s) \/ Recovers(s) PROVE HelloInv'
  BY <1>0, <1>1 DEF Happens, Outage, Recovers
<1>2. ASSUME NEW s \in Sources, PollerStep(s) PROVE HelloInv'
  BY <1>2, PollAnswersHello, OfferHello, ListHello, CountHello DEF PollerStep
<1>3. CASE Hello
  <2>1. PICK complete \in {reachableDone, FALSE} :
          handler' = [at |-> "streaming", hello |-> reachable, complete |-> complete]
    BY <1>3 DEF Hello
  <2>2. UNCHANGED <<poller, helloVars>>
    BY <1>3 DEF Hello
  <2>3. /\ handler'.complete = complete /\ handler'.hello = reachable
        /\ DOMAIN handler' = {"at", "hello", "complete"}
    BY <2>1
  <2>4. Counted' = Counted /\ reachableDone \in BOOLEAN
    BY <2>2 DEF Counted, HelloInv, HelloType
  <2> QED BY <2>2, <2>3, <2>4 DEF HelloInv, HelloType, FirstPoll, helloVars
<1>4. CASE Close
  <2>1. handler' = [handler EXCEPT !.at = "closed"] /\ UNCHANGED <<poller, helloVars>>
    BY <1>4 DEF Close
  <2>2. /\ handler'.complete = handler.complete /\ handler'.hello = handler.hello
        /\ DOMAIN handler' = DOMAIN handler
    BY <2>1 DEF HelloInv, HelloType
  <2> QED BY <1>0, <2>1, <2>2
<1>5. ASSUME NEW frame \in Range(queue), WriteFrame(frame) PROVE HelloInv'
  BY <1>0, <1>5 DEF WriteFrame
<1>6. CASE UNCHANGED liveVars
  BY <1>0, <1>6 DEF liveVars
<1> QED BY <1>1, <1>2, <1>3, <1>4, <1>5, <1>6 DEF LiveNext

LEMMA HelloInvariant == LiveSpec => []HelloInv
  BY InitHello, NextHello, PTL DEF LiveSpec

\* A hello that did not time out is complete, however the unlocked counting interleaves
\* (live.py:273).
THEOREM HelloComplete == LiveSpec => []HelloIsComplete
<1>1. HelloInv => HelloIsComplete
  BY DEF HelloInv, FirstPoll, Counted, HelloIsComplete
<1> QED BY <1>1, HelloInvariant, PTL

---------------------------------------------------------------------------
(***************************************************************************)
(* What a poller tells of its source, for any sources, window and timing.  *)
(*                                                                         *)
(* Told is what was offered and what is left to offer, so that offering a  *)
(* frame does not change it: it grows only when a poll answers or fails.   *)
(* The invariant says that the flag of the source is what Told ends with,  *)
(* and that an event in it is behind the marker, or seen, so that the next *)
(* answer cannot pass it on again.  For cfgs, whose answer is passed on as *)
(* it is, the log's numbering does what the filter does for the others.    *)
(***************************************************************************)
Event == [id : Nat, nth : Nat]
FramesBy(s) == [src : {s}, kind : {"degraded", "recovered", "data"}, event : Event]

\* What a poller has said and is about to say of its source.
Told(s) == offered[s] \o poller[s].left

UpstreamType ==
  /\ upstream = [s \in Sources |-> upstream[s]]
  /\ \A s \in Sources :
       /\ DOMAIN upstream[s] = {"log", "up"} /\ upstream[s].log \in Seq(Event)
       /\ s = "cfgs" => \A i \in 1..Len(upstream[s].log) : upstream[s].log[i].id = i

\* A poller has frames to offer exactly when it offers them, but for the first poll, which
\* is counted before.
TalkType ==
  /\ offered = [s \in Sources |-> offered[s]] /\ marker \in [Sources -> Nat]
  /\ seen = [s \in Sources |-> seen[s]] /\ degraded \in [Sources -> BOOLEAN]
  /\ \A s \in Sources :
       /\ offered[s] \in Seq(FramesBy(s)) /\ poller[s].left \in Seq(FramesBy(s))
       /\ poller[s].at \in {"poll", "done"} => poller[s].left = <<>>
       /\ Offering(s) => poller[s].left # <<>>

\* The source is degraded after the first k frames of t.
DownAfter(t, k) ==
  \E i \in 1..k : t[i].kind = "degraded" /\ \A j \in (i + 1)..k : t[j].kind # "recovered"

Alternates(t, down) ==
  /\ \A k \in 1..Len(t) : DownAfter(t, k - 1) <=> t[k].kind = "recovered"
  /\ down <=> DownAfter(t, Len(t))

\* What has been passed on is behind the marker, or seen.
IsBehind(s, id) == IF s = "altsvc" THEN id \in seen[s] ELSE id <= marker[s]

DataIn(t, ids) ==
  /\ \A i \in 1..Len(t) : t[i].kind = "data" => t[i].event.id \in ids
  /\ \A i, j \in 1..Len(t) :
       i # j /\ t[i].kind = "data" /\ t[j].kind = "data" => t[i].event.id # t[j].event.id

DataOnce(s, t) ==
  /\ \A i \in 1..Len(t) : t[i].kind = "data" => IsBehind(s, t[i].event.id)
  /\ \A i, j \in 1..Len(t) :
       i # j /\ t[i].kind = "data" /\ t[j].kind = "data" => t[i].event.id # t[j].event.id

TalkInv ==
  /\ UpstreamType /\ TalkType
  /\ \A s \in Sources : Alternates(Told(s), degraded[s]) /\ DataOnce(s, Told(s))
---------------------------------------------------------------------------
(* What an answer lists, and what of it is new *)

LEMMA LogFacts ==
  ASSUME NEW log \in Seq(Event)
  PROVE  /\ Len(log) \in Nat /\ DOMAIN log = 1..Len(log)
         /\ \A i \in 1..Len(log) : log[i] \in Event /\ log[i].id \in Nat
<1>1. Len(log) \in Nat /\ DOMAIN log = 1..Len(log)
  BY LenProperties
<1>2. \A i \in 1..Len(log) : log[i] \in Event
  BY ElementOfSeq
<1>3. \A e \in Event : e.id \in Nat
  BY DEF Event
<1> QED BY <1>1, <1>2, <1>3

LEMMA ReverseOf ==
  ASSUME NEW S, NEW s \in Seq(S)
  PROVE  Reverse(s) \in Seq(S)
<1> PICK n \in Nat : n = Len(s)
  BY LenProperties
<1>1. \A i \in 1..n : (n - i) + 1 \in 1..n
  OBVIOUS
<1>2. \A i \in 1..n : s[i] \in S
  BY ElementOfSeq
<1>3. \A i \in 1..n : s[(n - i) + 1] \in S
  BY <1>1, <1>2
<1>4. Reverse(s) = [i \in 1..n |-> s[(n - i) + 1]]
  BY DEF Reverse
<1> QED BY <1>3, <1>4

\* An answer lists events of the log; that of cfgs those behind the marker, each once.
LEMMA ListedFacts ==
  ASSUME UpstreamType, NEW s \in Sources
  PROVE  /\ ListedBy(s) \in Seq(Event)
         /\ s = "cfgs" =>
              /\ \A i \in 1..Len(ListedBy(s)) : ListedBy(s)[i].id > marker[s]
              /\ \A i, j \in 1..Len(ListedBy(s)) : i # j => ListedBy(s)[i].id # ListedBy(s)[j].id
<1> PICK log : log = upstream[s].log
  OBVIOUS
<1> PICK n : n = Len(log)
  OBVIOUS
<1>1. log \in Seq(Event) /\ n \in Nat /\ DOMAIN log = 1..n
  BY LogFacts DEF UpstreamType
<1> DEFINE window == IF n <= LiveWindow THEN log ELSE SubSeq(log, n - LiveWindow + 1, n)
<1>2. window \in Seq(Event)
  <2>1. CASE n <= LiveWindow
    BY <1>1, <2>1
  <2>2. CASE ~(n <= LiveWindow)
    <3>1. n - LiveWindow + 1 \in 1..(n + 1)
      BY <1>1, <2>2, LiveAssumption
    <3>2. SubSeq(log, n - LiveWindow + 1, Len(log)) \in Seq(Event)
      BY <1>1, <3>1, EndOf
    <3> QED BY <2>2, <3>2
  <2> QED BY <2>1, <2>2
<1>3. ListedBy(s) = CASE s = "obb" -> window
                      [] s = "cfgs" -> Picked(log, {i \in DOMAIN log : log[i].id > marker[s]})
                      [] OTHER -> Reverse(window)
  BY DEF ListedBy
<1> HIDE DEF window
<1>4. CASE s = "obb"
  BY <1>2, <1>3, <1>4
<1>5. CASE s = "cfgs"
  <2> PICK at : at = {i \in DOMAIN log : log[i].id > marker[s]}
    OBVIOUS
  <2>1. ListedBy(s) = Picked(log, at) /\ at \in SUBSET (1..Len(log))
    BY <1>1, <1>3, <1>5
  <2>7. Picked(log, at) \in Seq(Event)
    BY <1>1, <2>1, PickedOf
  <2>8. InOrder(Picked(log, at), log, at)
    BY <1>1, <2>1, PickedInOrder
  <2>2. ListedBy(s) \in Seq(Event) /\ InOrder(ListedBy(s), log, at)
    BY <2>1, <2>7, <2>8
  <2> PICK l : l = ListedBy(s)
    OBVIOUS
  <2> PICK m : m = Len(l)
    OBVIOUS
  <2>3. m \in Nat
    BY <2>2, LenProperties
  <2>4. PICK pos \in [1..m -> at] :
          /\ \A k \in 1..m : l[k] = log[pos[k]]
          /\ \A k, j \in 1..m : k < j => pos[k] < pos[j]
    BY SMTT(30), <2>2 DEF InOrder
  <2>5. \A k \in 1..m : pos[k] \in 1..n /\ log[pos[k]].id > marker[s] /\ log[pos[k]].id = pos[k]
    BY <1>1, <1>5, <2>4 DEF UpstreamType
  <2>6. ASSUME NEW k \in 1..m, NEW j \in 1..m, k # j PROVE l[k].id # l[j].id
    <3>1. k < j \/ j < k
      BY <2>3, <2>6
    <3>2. pos[k] \in Int /\ pos[j] \in Int /\ (pos[k] < pos[j] \/ pos[j] < pos[k])
      BY <2>4, <2>5, <3>1
    <3>3. pos[k] # pos[j]
      BY <3>2
    <3> QED BY <2>4, <2>5, <3>3
  <2> QED BY <2>2, <2>4, <2>5, <2>6
<1>6. CASE s \notin {"obb", "cfgs"}
  BY <1>2, <1>3, <1>6, ReverseOf
<1> QED BY <1>4, <1>5, <1>6

\* Events of an answer whose ids are not among the old, each id once.
NewOf(p, answer, Old) ==
  /\ p \in Seq(Event)
  /\ \A k \in 1..Len(p) : p[k].id \notin Old /\ \E i \in 1..Len(answer) : p[k] = answer[i]
  /\ \A k, l \in 1..Len(p) : k # l => p[k].id # p[l].id

LEMMA PickedAreNew ==
  ASSUME NEW answer \in Seq(Event), NEW at \in SUBSET (1..Len(answer)), NEW Old,
         \A i \in at : answer[i].id \notin Old,
         \A i \in at : \A j \in 1..(i - 1) : answer[i].id # answer[j].id
  PROVE  NewOf(Picked(answer, at), answer, Old)
<1> PICK n \in Nat : n = Len(answer)
  BY LenProperties
<1> PICK p : p = Picked(answer, at)
  OBVIOUS
<1> PICK m : m = Len(p)
  OBVIOUS
<1>1. p \in Seq(Event) /\ m \in Nat /\ InOrder(p, answer, at)
  BY PickedOf, PickedInOrder
<1>2. PICK pos \in [1..m -> at] :
        /\ \A k \in 1..m : p[k] = answer[pos[k]]
        /\ \A k, l \in 1..m : k < l => pos[k] < pos[l]
  BY <1>1 DEF InOrder
<1>3. \A k \in 1..m : pos[k] \in at /\ pos[k] \in 1..n
  BY <1>2
<1>4. ASSUME NEW k \in 1..m, NEW l \in 1..m, k < l PROVE p[k].id # p[l].id
  <2>1. pos[k] \in 1..(pos[l] - 1)
    BY <1>2, <1>3, <1>4
  <2>2. answer[pos[l]].id # answer[pos[k]].id
    BY <1>3, <2>1
  <2> QED BY <1>2, <2>2
<1>5. ASSUME NEW k \in 1..m, NEW l \in 1..m, k # l PROVE p[k].id # p[l].id
  <2>1. k < l \/ l < k
    BY <1>1, <1>5
  <2> QED BY <1>4, <2>1
<1>6. \A k \in 1..m : p[k].id \notin Old /\ \E i \in 1..n : p[k] = answer[i]
  BY <1>2, <1>3
<1>7. NewOf(p, answer, Old)
  BY <1>1, <1>5, <1>6 DEF NewOf
<1> QED BY <1>7

\* What is passed on of an answer: events of it that are neither behind the marker nor seen.
AreNew(s, answer, new) ==
  /\ new \in Seq(Event)
  /\ \A i \in 1..Len(new) : /\ ~IsBehind(s, new[i].id)
                            /\ \E j \in 1..Len(answer) : new[i] = answer[j]
  /\ \A i, j \in 1..Len(new) : i # j => new[i].id # new[j].id

LEMMA NewFacts ==
  ASSUME UpstreamType, TalkType, NEW s \in Sources, NEW answer, answer = ListedBy(s),
         NEW new, new = FilterNew(s, answer)
  PROVE  AreNew(s, answer, new)
<1> PICK n : n = Len(answer)
  OBVIOUS
<1>1. answer \in Seq(Event)
  BY ListedFacts
<1>2. /\ n \in Nat /\ DOMAIN answer = 1..n
      /\ \A i \in 1..n : answer[i].id \in Nat
  BY <1>1, LogFacts
<1>3. marker[s] \in Nat
  BY DEF TalkType
<1>4. CASE s = "cfgs"
  <2>1. new = answer
    BY <1>4 DEF FilterNew
  <2>2. \A i \in 1..n : answer[i].id > marker[s]
    BY <1>4, ListedFacts
  <2>3. \A i \in 1..n : ~(answer[i].id <= marker[s])
    BY <1>2, <1>3, <2>2
  <2>4. \A i \in 1..n : ~IsBehind(s, answer[i].id)
    BY <1>4, <2>3 DEF IsBehind
  <2>5. \A i, j \in 1..n : i # j => answer[i].id # answer[j].id
    BY <1>4, ListedFacts
  <2> QED BY <1>1, <2>1, <2>4, <2>5 DEF AreNew
<1>5. CASE s = "altsvc"
  <2> PICK at : at = {i \in DOMAIN answer :
                        answer[i].id \notin seen[s] /\ \A j \in 1..(i - 1) : answer[i].id # answer[j].id}
    OBVIOUS
  <2>1. new = Picked(answer, at)
    BY <1>5 DEF FilterNew, Unseen
  <2>2. /\ at \in SUBSET (1..n) /\ \A i \in at : answer[i].id \notin seen[s]
        /\ \A i \in at : \A j \in 1..(i - 1) : answer[i].id # answer[j].id
    BY <1>2
  <2>3. NewOf(new, answer, seen[s])
    BY <1>1, <2>1, <2>2, PickedAreNew
  <2> QED BY <1>5, <2>3 DEF IsBehind, NewOf, AreNew
<1>6. CASE s \notin {"cfgs", "altsvc"}
  <2> PICK at : at = {i \in DOMAIN answer :
                        answer[i].id > marker[s] /\ \A j \in 1..(i - 1) : answer[i].id > answer[j].id}
    OBVIOUS
  <2> PICK Old : Old = {id \in Nat : id <= marker[s]}
    OBVIOUS
  <2>1. new = Picked(answer, at)
    BY <1>6 DEF FilterNew, Rising
  <2>2. at \in SUBSET (1..n)
    BY <1>2
  <2>3. \A i \in at : answer[i].id \notin Old
    BY <1>2, <1>3
  <2>4. \A i \in at : \A j \in 1..(i - 1) : answer[i].id # answer[j].id
    <3> SUFFICES ASSUME NEW i \in at, NEW j \in 1..(i - 1) PROVE answer[i].id # answer[j].id
      OBVIOUS
    <3>1. i \in 1..n /\ j \in 1..n
      BY <1>2
    <3>2. answer[i].id > answer[j].id
      OBVIOUS
    <3>3. answer[i].id \in Nat /\ answer[j].id \in Nat
      BY <1>2, <3>1
    <3> QED BY <3>2, <3>3
  <2>5. NewOf(new, answer, Old)
    BY <1>1, <2>1, <2>2, <2>3, <2>4, PickedAreNew
  <2>6. \A k \in 1..Len(new) : new[k].id \in Nat
    BY <1>2, <2>5 DEF NewOf
  <2>7. \A k \in 1..Len(new) : ~(new[k].id <= marker[s])
    BY <2>5, <2>6 DEF NewOf
  <2> QED BY <1>6, <2>5, <2>7 DEF IsBehind, NewOf, AreNew
<1> QED BY <1>4, <1>5, <1>6

\* Afterwards the whole answer is behind the marker, or seen.
LEMMA BehindAfter ==
  ASSUME UpstreamType, TalkType, NEW s \in Sources, PollAnswers(s),
         NEW answer, answer = ListedBy(s)
  PROVE  /\ marker' \in [Sources -> Nat] /\ seen' = [t \in Sources |-> seen'[t]]
         /\ \A t \in Sources : t # s => marker'[t] = marker[t] /\ seen'[t] = seen[t]
         /\ \A id \in Nat : IsBehind(s, id) => IsBehind(s, id)'
         /\ \A j \in 1..Len(answer) : IsBehind(s, answer[j].id)'
<1> PICK n : n = Len(answer)
  OBVIOUS
<1>1. answer \in Seq(Event)
  BY ListedFacts
<1>2. /\ n \in Nat /\ DOMAIN answer = 1..n
      /\ \A i \in 1..n : answer[i].id \in Nat
  BY <1>1, LogFacts
<1> PICK ids : ids = {answer[i].id : i \in 1..n}
  OBVIOUS
<1>3. {e.id : e \in Range(answer)} = ids
  BY <1>2 DEF Range
<1>4. /\ marker' = [marker EXCEPT ![s] = IF s = "altsvc" THEN @ ELSE Max({@} \cup ids)]
      /\ seen' = [seen EXCEPT ![s] = IF s = "altsvc" THEN @ \cup ids ELSE @]
  BY <1>3 DEF PollAnswers
<1>5. /\ Max({marker[s]} \cup ids) \in Nat /\ marker[s] \in Nat
      /\ \A k \in {marker[s]} \cup ids : Max({marker[s]} \cup ids) >= k
  <2> PICK T : T = {marker[s]} \cup ids
    OBVIOUS
  <2>0. marker[s] \in Nat
    BY DEF TalkType
  <2>1. T \in SUBSET Nat /\ T \in SUBSET Int /\ T # {}
    BY <1>2, <2>0
  <2>2. IsFiniteSet(ids)
    <3> DEFINE f == [i \in 1..n |-> answer[i].id]
    <3>1. f \in Surjection(1..n, ids)
      BY DEF Surjection
    <3>2. IsFiniteSet(1..n)
      BY <1>2, FirstPositions
    <3> HIDE DEF f
    <3> QED BY <3>1, <3>2, FS_Surjection
  <2>3. IsFiniteSet(T)
    <3>1. T = ids \cup {marker[s]}
      OBVIOUS
    <3>2. IsFiniteSet(ids \cup {marker[s]})
      BY <2>2, FS_AddElement
    <3> QED BY <3>1, <3>2
  <2>4. \E m \in T : \A k \in T : m >= k
    BY <2>1, <2>3, LargestOf
  <2>5. Max(T) \in T /\ \A k \in T : Max(T) >= k
    BY <2>4, Zenon DEF Max
  <2> QED BY <2>0, <2>1, <2>5
<1> HIDE DEF Max
<1>6. /\ marker' \in [Sources -> Nat] /\ seen' = [t \in Sources |-> seen'[t]]
      /\ \A t \in Sources : t # s => marker'[t] = marker[t] /\ seen'[t] = seen[t]
      /\ marker'[s] = IF s = "altsvc" THEN marker[s] ELSE Max({marker[s]} \cup ids)
      /\ seen'[s] = IF s = "altsvc" THEN seen[s] \cup ids ELSE seen[s]
  BY <1>4, <1>5 DEF TalkType
<1>7. ASSUME NEW id \in Nat, IsBehind(s, id) PROVE IsBehind(s, id)'
  <2>1. CASE s = "altsvc"
    BY <1>6, <1>7, <2>1 DEF IsBehind
  <2>2. CASE s # "altsvc"
    <3>1. marker[s] \in {marker[s]} \cup ids
      OBVIOUS
    <3>2. marker'[s] >= marker[s] /\ marker[s] \in Nat /\ marker'[s] \in Nat
      BY <1>5, <1>6, <2>2, <3>1
    <3>3. id <= marker[s]
      BY <1>7, <2>2 DEF IsBehind
    <3>4. id \in Nat
      BY <1>7
    <3> QED BY <2>2, <3>2, <3>3, <3>4 DEF IsBehind
  <2> QED BY <2>1, <2>2
<1>8. ASSUME NEW j \in 1..n PROVE IsBehind(s, answer[j].id)'
  <2>1. PICK id \in Nat : id = answer[j].id /\ id \in ids
    BY <1>2
  <2>2. CASE s = "altsvc"
    <3>1. id \in seen'[s]
      BY <1>6, <2>1, <2>2
    <3> QED BY <2>1, <2>2, <3>1 DEF IsBehind
  <2>3. CASE s # "altsvc"
    <3>1. id <= marker'[s]
      <4>1. marker'[s] >= id /\ marker'[s] \in Nat
        BY <1>5, <1>6, <2>1, <2>3
      <4> QED BY <4>1
    <3> QED BY <2>1, <2>3, <3>1 DEF IsBehind
  <2> QED BY <2>2, <2>3
<1> QED BY <1>6, <1>7, <1>8

---------------------------------------------------------------------------
(* What is added to what a source was told of *)

LEMMA DownInPart ==
  ASSUME NEW S, NEW t \in Seq(S), NEW u \in Seq(S), NEW n \in Nat, n = Len(t), NEW k \in 0..n
  PROVE  DownAfter(t \o u, k) <=> DownAfter(t, k)
<1>1. \A i \in 1..n : (t \o u)[i] = t[i]
  BY ConcatOf
<1>2. \A i \in 1..k : i \in 1..n /\ \A j \in (i + 1)..k : j \in 1..n
  OBVIOUS
<1> QED BY <1>1, <1>2 DEF DownAfter

\* Data, after the word that the source is back when it was down.
LEMMA AnswerAlternates ==
  ASSUME NEW S, NEW t \in Seq(S), NEW u \in Seq(S), NEW b \in {0, 1}, NEW m \in Nat,
         Len(u) = b + m, b = 1 => u[1].kind = "recovered",
         \A i \in 1..m : u[b + i].kind = "data",
         Alternates(t, b = 1)
  PROVE  Alternates(t \o u, FALSE)
<1> PICK n \in Nat : n = Len(t)
  BY LenProperties
<1> PICK v : v = t \o u
  OBVIOUS
<1>1. /\ Len(v) = n + (b + m)
      /\ \A i \in 1..n : v[i] = t[i]
      /\ \A i \in 1..(b + m) : v[n + i] = u[i]
  BY ConcatOf
<1>2. \A k \in 0..n : DownAfter(v, k) <=> DownAfter(t, k)
  BY DownInPart
<1>3. /\ \A k \in 1..n : DownAfter(t, k - 1) <=> t[k].kind = "recovered"
      /\ b = 1 <=> DownAfter(t, n)
  BY DEF Alternates
<1>4. b = 1 => v[n + 1].kind = "recovered"
  <2>1. b = 1 => 1 \in 1..(b + m)
    OBVIOUS
  <2> QED BY <1>1, <2>1
<1>5. ASSUME NEW k \in (n + b + 1)..(n + b + m) PROVE v[k].kind = "data"
  <2>1. PICK i \in 1..m : k = n + (b + i)
    <3>1. k - n - b \in 1..m /\ k = n + (b + (k - n - b))
      OBVIOUS
    <3> QED BY <3>1
  <2>2. b + i \in 1..(b + m)
    OBVIOUS
  <2>3. v[n + (b + i)] = u[b + i]
    BY <1>1, <2>2
  <2> QED BY <2>1, <2>3
<1>6. ASSUME NEW k \in (n + b)..(n + b + m), DownAfter(v, k) PROVE FALSE
  <2>1. PICK i \in 1..k : v[i].kind = "degraded" /\ \A j \in (i + 1)..k : v[j].kind # "recovered"
    BY <1>6 DEF DownAfter
  <2>2. ~(i \in (n + b + 1)..(n + b + m))
    BY <1>5, <2>1
  <2>3. ~(b = 1 /\ i = n + 1)
    BY <1>4, <2>1
  <2>4. i \in 1..n
    BY <2>2, <2>3
  <2>5. CASE b = 1
    <3>1. n + 1 \in (i + 1)..k
      BY <2>4, <2>5
    <3> QED BY <1>4, <2>1, <2>5, <3>1
  <2>6. CASE b = 0
    <3>1. \A j \in (i + 1)..n : j \in (i + 1)..k
      BY <2>6
    <3>2. \A j \in (i + 1)..n : v[j].kind # "recovered"
      BY <2>1, <3>1
    <3>3. DownAfter(v, n)
      BY <2>1, <2>4, <3>2 DEF DownAfter
    <3>4. n \in 0..n
      OBVIOUS
    <3> QED BY <1>2, <1>3, <2>6, <3>3, <3>4
  <2> QED BY <2>5, <2>6
<1>7. ASSUME NEW k \in 1..(n + (b + m)) PROVE DownAfter(v, k - 1) <=> v[k].kind = "recovered"
  <2>1. CASE k \in 1..n
    <3>1. k - 1 \in 0..n
      BY <2>1
    <3> QED BY <1>1, <1>2, <1>3, <2>1, <3>1
  <2>2. CASE k = n + 1 /\ b = 1
    <3>1. k - 1 = n /\ n \in 0..n
      BY <2>2
    <3> QED BY <1>2, <1>3, <1>4, <2>2, <3>1
  <2>3. CASE k \in (n + b + 1)..(n + b + m)
    <3>1. k - 1 \in (n + b)..(n + b + m)
      BY <2>3
    <3> QED BY <1>5, <1>6, <2>3, <3>1
  <2>4. k \in 1..n \/ (k = n + 1 /\ b = 1) \/ k \in (n + b + 1)..(n + b + m)
    OBVIOUS
  <2> QED BY <2>1, <2>2, <2>3, <2>4
<1>8. ~DownAfter(v, n + (b + m))
  <2>1. n + (b + m) \in (n + b)..(n + b + m)
    OBVIOUS
  <2> QED BY <1>6, <2>1
<1> QED BY <1>1, <1>7, <1>8 DEF Alternates

\* The word that the source is down.
LEMMA FailureAlternates ==
  ASSUME NEW S, NEW t \in Seq(S), NEW f \in S, f.kind = "degraded", Alternates(t, FALSE)
  PROVE  Alternates(t \o <<f>>, TRUE)
<1> PICK n \in Nat : n = Len(t)
  BY LenProperties
<1> PICK v : v = t \o <<f>>
  OBVIOUS
<1>0. <<f>> \in Seq(S) /\ Len(<<f>>) = 1 /\ <<f>>[1] = f
  OBVIOUS
<1>1. /\ Len(v) = n + 1 /\ v[n + 1] = f
      /\ \A i \in 1..n : v[i] = t[i]
  BY <1>0, ConcatOf
<1>2. \A k \in 0..n : DownAfter(v, k) <=> DownAfter(t, k)
  BY <1>0, DownInPart
<1>3. /\ \A k \in 1..n : DownAfter(t, k - 1) <=> t[k].kind = "recovered"
      /\ ~DownAfter(t, n)
  BY DEF Alternates
<1>4. DownAfter(v, n + 1)
  <2>1. n + 1 \in 1..(n + 1) /\ \A j \in ((n + 1) + 1)..(n + 1) : FALSE
    OBVIOUS
  <2> QED BY <1>1, <2>1 DEF DownAfter
<1>5. ASSUME NEW k \in 1..(n + 1) PROVE DownAfter(v, k - 1) <=> v[k].kind = "recovered"
  <2>1. CASE k \in 1..n
    <3>1. k - 1 \in 0..n
      BY <2>1
    <3> QED BY <1>1, <1>2, <1>3, <2>1, <3>1
  <2>2. CASE k = n + 1
    <3>1. k - 1 = n /\ n \in 0..n
      BY <2>2
    <3> QED BY <1>1, <1>2, <1>3, <2>2, <3>1
  <2> QED BY <2>1, <2>2
<1> QED BY <1>1, <1>4, <1>5 DEF Alternates

\* Data that is not behind the marker, or seen, and will be.
LEMMA DataMore ==
  ASSUME NEW s \in Sources, NEW t \in Seq(FramesBy(s)), NEW u \in Seq(FramesBy(s)),
         NEW v, v = t \o u, DataOnce(s, t), NEW B,
         \A id \in Nat : IsBehind(s, id) => id \in B,
         \A i \in 1..Len(u) : u[i].kind = "data" =>
           ~IsBehind(s, u[i].event.id) /\ u[i].event.id \in B,
         \A i, j \in 1..Len(u) :
           i # j /\ u[i].kind = "data" /\ u[j].kind = "data" => u[i].event.id # u[j].event.id
  PROVE  DataIn(v, B)
<1> PICK n \in Nat : n = Len(t)
  BY LenProperties
<1> PICK m \in Nat : m = Len(u)
  BY LenProperties
<1>1. /\ Len(v) = n + m
      /\ \A i \in 1..n : v[i] = t[i]
      /\ \A i \in 1..m : v[n + i] = u[i]
  BY ConcatOf
<1>2. \A i \in 1..n : t[i].event.id \in Nat
  <2>1. \A i \in 1..n : t[i] \in FramesBy(s)
    BY ElementOfSeq
  <2>2. \A f \in FramesBy(s) : f.event.id \in Nat
    BY DEF FramesBy, Event
  <2> QED BY <2>1, <2>2
<1>3. ASSUME NEW i \in 1..(n + m), ~(i \in 1..n) PROVE \E k \in 1..m : i = n + k
  <2>1. i - n \in 1..m /\ i = n + (i - n)
    BY <1>3
  <2> QED BY <2>1
<1>4. \A i \in 1..n : t[i].kind = "data" => IsBehind(s, t[i].event.id)
  BY DEF DataOnce
<1>5. \A i, j \in 1..n :
        i # j /\ t[i].kind = "data" /\ t[j].kind = "data" => t[i].event.id # t[j].event.id
  BY DEF DataOnce
<1>6. ASSUME NEW i \in 1..(n + m), v[i].kind = "data" PROVE v[i].event.id \in B
  <2>1. CASE i \in 1..n
    <3>1. t[i].event.id \in B
      BY <1>1, <1>2, <1>4, <1>6, <2>1
    <3> QED BY <1>1, <2>1, <3>1
  <2>2. CASE ~(i \in 1..n)
    <3>1. PICK k \in 1..m : i = n + k
      BY <1>3, <2>2
    <3>2. v[i] = u[k]
      BY <1>1, <3>1
    <3>3. u[k].event.id \in B
      BY <1>6, <3>2
    <3> QED BY <3>2, <3>3
  <2> QED BY <2>1, <2>2
<1>7. ASSUME NEW i \in 1..n, NEW k \in 1..m, t[i].kind = "data", u[k].kind = "data"
      PROVE  t[i].event.id # u[k].event.id
  <2>1. IsBehind(s, t[i].event.id) /\ ~IsBehind(s, u[k].event.id)
    BY <1>4, <1>7
  <2> QED BY <2>1 DEF IsBehind
<1>8. ASSUME NEW i \in 1..(n + m), NEW j \in 1..(n + m), i # j,
             v[i].kind = "data", v[j].kind = "data"
      PROVE  v[i].event.id # v[j].event.id
  <2>1. CASE i \in 1..n /\ j \in 1..n
    BY <1>1, <1>5, <1>8, <2>1
  <2>2. CASE i \in 1..n /\ ~(j \in 1..n)
    <3>1. PICK k \in 1..m : j = n + k
      BY <1>3, <2>2
    <3> QED BY <1>1, <1>7, <1>8, <2>2, <3>1
  <2>3. CASE ~(i \in 1..n) /\ j \in 1..n
    <3>1. PICK k \in 1..m : i = n + k
      BY <1>3, <2>3
    <3>2. v[i] = u[k] /\ v[j] = t[j]
      BY <1>1, <2>3, <3>1
    <3>3. t[j].event.id # u[k].event.id
      BY <1>7, <1>8, <2>3, <3>2
    <3> QED BY <3>2, <3>3
  <2>4. CASE ~(i \in 1..n) /\ ~(j \in 1..n)
    <3>1. PICK k \in 1..m : i = n + k
      BY <1>3, <2>4
    <3>2. PICK l \in 1..m : j = n + l
      BY <1>3, <2>4
    <3>3. k # l /\ v[i] = u[k] /\ v[j] = u[l]
      BY <1>1, <1>8, <3>1, <3>2
    <3> QED BY <1>8, <3>3
  <2> QED BY <2>1, <2>2, <2>3, <2>4
<1> QED BY <1>1, <1>6, <1>8 DEF DataIn

\* The frames of an answer: b of them say that the source is back, the others are the data.
FramesAre(u, s, new, b, m) ==
  /\ u \in Seq(FramesBy(s)) /\ m \in Nat /\ b \in {0, 1} /\ Len(u) = b + m
  /\ b = 1 => u[1].kind = "recovered"
  /\ \A i \in 1..m : u[b + i].kind = "data" /\ u[b + i].event = new[i]

LEMMA FramesFacts ==
  ASSUME TalkType, NEW s \in Sources, NEW new \in Seq(Event), NEW u, u = FramesOf(s, new),
         NEW b, b = IF degraded[s] THEN 1 ELSE 0, NEW m, m = Len(new)
  PROVE  FramesAre(u, s, new, b, m)
<1>0. m \in Nat /\ DOMAIN new = 1..m /\ \A i \in 1..m : new[i] \in Event
  BY LenProperties, ElementOfSeq
<1> PICK d : d = DataFrames(s, new)
  OBVIOUS
<1>1. d = [i \in 1..m |-> [src |-> s, kind |-> "data", event |-> new[i]]]
  BY <1>0 DEF DataFrames, Frame
<1>2. d \in Seq(FramesBy(s)) /\ Len(d) = m
  <2>1. \A i \in 1..m : [src |-> s, kind |-> "data", event |-> new[i]] \in FramesBy(s)
    BY <1>0 DEF FramesBy
  <2> QED BY <1>0, <1>1, <2>1
<1>3. \A i \in 1..m : d[i].kind = "data" /\ d[i].event = new[i]
  BY <1>1
<1>4. CASE degraded[s]
  <2> PICK r : r = [src |-> s, kind |-> "recovered", event |-> NoEvent]
    OBVIOUS
  <2>1. u = <<r>> \o d
    BY <1>4 DEF FramesOf, Frame
  <2>2. r \in FramesBy(s) /\ r.kind = "recovered"
    BY DEF FramesBy, NoEvent, Event
  <2>3. <<r>> \in Seq(FramesBy(s)) /\ Len(<<r>>) = 1 /\ <<r>>[1] = r
    BY <2>2
  <2>4. /\ u \in Seq(FramesBy(s)) /\ Len(u) = 1 + m /\ u[1] = r
        /\ \A i \in 1..m : u[1 + i] = d[i]
    BY <1>2, <2>1, <2>3, ConcatOf
  <2> QED BY <1>0, <1>3, <1>4, <2>2, <2>4 DEF FramesAre
<1>5. CASE ~degraded[s]
  <2>1. u = <<>> \o d
    BY <1>5 DEF FramesOf
  <2>2. u = d
    BY <1>2, <2>1, ConcatEmptySeq
  <2>3. \A i \in 1..m : 0 + i = i
    OBVIOUS
  <2> QED BY <1>0, <1>2, <1>3, <1>5, <2>2, <2>3 DEF FramesAre
<1> QED BY <1>4, <1>5

---------------------------------------------------------------------------
(* The steps *)

LEMMA InitTalk == LiveInit => TalkInv
<1> SUFFICES ASSUME LiveInit PROVE TalkInv
  OBVIOUS
<1>0. <<>> \in Seq(Event) /\ \A s \in Sources : <<>> \in Seq(FramesBy(s))
  OBVIOUS
<1>1. UpstreamType
  <2>1. \A s \in Sources : upstream[s] = [log |-> <<>>, up |-> TRUE]
    BY DEF LiveInit
  <2>2. \A s \in Sources : DOMAIN upstream[s] = {"log", "up"} /\ upstream[s].log = <<>>
    BY <2>1
  <2>3. \A i \in 1..Len(<<>>) : FALSE
    OBVIOUS
  <2>4. upstream = [s \in Sources |-> upstream[s]]
    BY DEF LiveInit
  <2> QED BY <1>0, <2>2, <2>3, <2>4 DEF UpstreamType
<1>2. TalkType
  BY <1>0 DEF LiveInit, TalkType, Offering
<1>3. ASSUME NEW s \in Sources PROVE Alternates(Told(s), degraded[s]) /\ DataOnce(s, Told(s))
  <2>1. offered[s] = <<>> /\ poller[s].left = <<>> /\ degraded[s] = FALSE
    BY DEF LiveInit
  <2>2. Told(s) = <<>>
    BY <1>0, <2>1, ConcatEmptySeq DEF Told
  <2>3. Len(<<>>) = 0
    OBVIOUS
  <2> QED BY <2>1, <2>2, <2>3 DEF Alternates, DownAfter, DataOnce
<1> QED BY <1>1, <1>2, <1>3 DEF TalkInv

\* Whoever was told nothing new, of a source that has not changed, was told as before.
LEMMA TalkKept ==
  ASSUME TalkInv, NEW s \in Sources, marker'[s] = marker[s], seen'[s] = seen[s],
         degraded'[s] = degraded[s], Told(s)' = Told(s)
  PROVE  Alternates(Told(s), degraded[s])' /\ DataOnce(s, Told(s))'
<1> PICK t : t = Told(s)
  OBVIOUS
<1>1. Alternates(t, degraded[s]) /\ DataOnce(s, t)
  BY DEF TalkInv
<1>2. DataOnce(s, t)'
  BY <1>1 DEF DataOnce, IsBehind
<1> QED BY <1>1, <1>2 DEF DataOnce, IsBehind

\* A frame that is offered leaves what was said and what is left to say as they are together.
LEMMA OfferedTalk ==
  ASSUME HelloType, TalkInv, NEW s \in Sources, Offering(s), Offered(s),
         UNCHANGED <<upstream, pollVars>>
  PROVE  TalkInv'
<1> PICK left : left = poller[s].left
  OBVIOUS
<1> PICK o : o = offered[s]
  OBVIOUS
<1>1. left \in Seq(FramesBy(s)) /\ left # <<>> /\ o \in Seq(FramesBy(s))
  BY DEF TalkInv, TalkType
<1>2. /\ Head(left) \in FramesBy(s) /\ Tail(left) \in Seq(FramesBy(s))
      /\ Append(o, Head(left)) \in Seq(FramesBy(s))
  BY <1>1, HeadTailProperties, AppendProperties
<1> PICK at : at = IF poller[s].first THEN "list" ELSE OfferOrPoll(Tail(left))
  OBVIOUS
<1>3. /\ offered' = [offered EXCEPT ![s] = Append(o, Head(left))]
      /\ poller' = [poller EXCEPT ![s].left = Tail(left), ![s].at = at]
  BY DEF Offered
<1>4. /\ offered' = [r \in Sources |-> offered'[r]]
      /\ offered'[s] = Append(o, Head(left))
      /\ \A r \in Sources : r # s => offered'[r] = offered[r] /\ poller'[r] = poller[r]
      /\ poller'[s].left = Tail(left) /\ poller'[s].at = at
  BY <1>3 DEF HelloType, PollerType, TalkInv, TalkType
<1>5. /\ at \notin {"again", "done"}
      /\ at = "poll" => Tail(left) = <<>>
      /\ at = "offer" => Tail(left) # <<>>
  BY DEF OfferOrPoll
<1>6. \A r \in Sources : Told(r)' = Told(r)
  <2>1. Told(s)' = Told(s)
    BY ZenonT(30), <1>1, <1>4, HandedOver DEF Told
  <2> QED BY <1>4, <2>1 DEF Told
<1>7. UpstreamType'
  BY DEF TalkInv, UpstreamType
<1>8. TalkType'
  <2>1. ASSUME NEW r \in Sources
        PROVE  /\ offered'[r] \in Seq(FramesBy(r)) /\ poller'[r].left \in Seq(FramesBy(r))
               /\ poller'[r].at \in {"poll", "done"} => poller'[r].left = <<>>
               /\ Offering(r)' => poller'[r].left # <<>>
    <3>1. CASE r = s
      BY <1>2, <1>4, <1>5, <3>1 DEF Offering
    <3>2. CASE r # s
      BY <1>4, <3>2 DEF TalkInv, TalkType, Offering
    <3> QED BY <3>1, <3>2
  <2> QED BY <1>4, <2>1 DEF TalkInv, TalkType, pollVars
<1> QED BY <1>6, <1>7, <1>8, TalkKept DEF TalkInv, pollVars

\* A poller that moves and says nothing.
LEMMA QuietTalk ==
  ASSUME HelloType, TalkInv, NEW s \in Sources, UNCHANGED <<upstream, pollVars, offered>>,
         \A r \in Sources : poller'[r].left = poller[r].left,
         \A r \in Sources : r # s => poller'[r].at = poller[r].at,
         \/ poller'[s].at \in {"poll", "offer"} /\ poller'[s].at = OfferOrPoll(poller[s].left)
         \/ poller'[s].at = "count"
         \/ poller'[s].at = "again" /\ poller[s].at = "offer"
         \/ poller'[s].at = "done" /\ poller[s].at = "poll"
  PROVE  TalkInv'
<1>1. \A r \in Sources : Told(r)' = Told(r)
  BY DEF Told
<1>2. UpstreamType'
  BY DEF TalkInv, UpstreamType
<1>3. TalkType'
  BY DEF TalkInv, TalkType, Offering, OfferOrPoll, pollVars
<1> QED BY <1>1, <1>2, <1>3, TalkKept DEF TalkInv, pollVars

LEMMA MovesTalk ==
  ASSUME HelloType, TalkInv, NEW s \in Sources, List(s) \/ Count(s) \/ DropOldest(s) \/ EndPoller(s)
  PROVE  TalkInv'
<1>0. UNCHANGED <<upstream, pollVars, offered>>
  BY DEF List, Count, DropOldest, EndPoller, offerVars
<1>1. OfferOrPoll(poller[s].left) \in {"poll", "offer"}
  BY DEF OfferOrPoll
<1>2. CASE List(s)
  <2>1. poller' = [poller EXCEPT ![s].at = "count", ![s].first = FALSE, ![s].count = reachableCount]
    BY <1>2 DEF List
  <2>2. /\ \A r \in Sources : poller'[r].left = poller[r].left
        /\ \A r \in Sources : r # s => poller'[r].at = poller[r].at
        /\ poller'[s].at = "count"
    BY <2>1 DEF HelloType, PollerType
  <2> QED BY <1>0, <2>2, QuietTalk
<1>3. ASSUME NEW at, poller' = [poller EXCEPT ![s].at = at]
      PROVE  /\ \A r \in Sources : poller'[r].left = poller[r].left
             /\ \A r \in Sources : r # s => poller'[r].at = poller[r].at
             /\ poller'[s].at = at
  BY <1>3 DEF HelloType, PollerType
<1>4. CASE Count(s)
  <2>1. poller' = [poller EXCEPT ![s].at = OfferOrPoll(poller[s].left)]
    BY <1>4 DEF Count
  <2>2. /\ \A r \in Sources : poller'[r].left = poller[r].left
        /\ \A r \in Sources : r # s => poller'[r].at = poller[r].at
        /\ poller'[s].at = OfferOrPoll(poller[s].left)
    BY <1>3, <2>1
  <2> QED BY <1>0, <1>1, <2>2, QuietTalk
<1>5. CASE DropOldest(s)
  <2>1. poller[s].at = "offer" /\ poller' = [poller EXCEPT ![s].at = "again"]
    BY <1>5 DEF DropOldest
  <2>2. /\ \A r \in Sources : poller'[r].left = poller[r].left
        /\ \A r \in Sources : r # s => poller'[r].at = poller[r].at
        /\ poller'[s].at = "again"
    BY <1>3, <2>1
  <2> QED BY <1>0, <2>1, <2>2, QuietTalk
<1>6. CASE EndPoller(s)
  <2>1. poller[s].at = "poll" /\ poller' = [poller EXCEPT ![s].at = "done"]
    BY <1>6 DEF EndPoller
  <2>2. /\ \A r \in Sources : poller'[r].left = poller[r].left
        /\ \A r \in Sources : r # s => poller'[r].at = poller[r].at
        /\ poller'[s].at = "done"
    BY <1>3, <2>1
  <2> QED BY <1>0, <2>1, <2>2, QuietTalk
<1> QED BY <1>2, <1>4, <1>5, <1>6

LEMMA SameData ==
  ASSUME NEW s, NEW t, DataOnce(s, t)', Told(s)' = t
  PROVE  DataOnce(s, Told(s))'
BY DEF DataOnce, IsBehind

\* A poller that has nothing left to say and finds new words.
LEMMA SpeaksTalk ==
  ASSUME HelloType, TalkInv, NEW s \in Sources, poller[s].at = "poll",
         UNCHANGED <<upstream, offered>>,
         \A r \in Sources : r # s =>
           /\ poller'[r] = poller[r] /\ marker'[r] = marker[r] /\ seen'[r] = seen[r]
           /\ degraded'[r] = degraded[r],
         NEW u \in Seq(FramesBy(s)), poller'[s].left = u,
         poller'[s].at \in {"poll", "done"} => u = <<>>, Offering(s)' => u # <<>>,
         marker' \in [Sources -> Nat], seen' = [r \in Sources |-> seen'[r]],
         degraded' \in [Sources -> BOOLEAN],
         NEW t, t = offered[s] \o u, Alternates(t, degraded'[s]), DataOnce(s, t)'
  PROVE  TalkInv'
<1>1. UpstreamType'
  BY DEF TalkInv, UpstreamType
<1>2. TalkType'
  <2>1. ASSUME NEW r \in Sources
        PROVE  /\ offered'[r] \in Seq(FramesBy(r)) /\ poller'[r].left \in Seq(FramesBy(r))
               /\ poller'[r].at \in {"poll", "done"} => poller'[r].left = <<>>
               /\ Offering(r)' => poller'[r].left # <<>>
    <3>1. CASE r = s
      BY <3>1 DEF TalkInv, TalkType
    <3>2. CASE r # s
      BY <3>2 DEF TalkInv, TalkType, Offering
    <3> QED BY <3>1, <3>2
  <2> QED BY <2>1 DEF TalkInv, TalkType
<1>3. Alternates(Told(s), degraded[s])' /\ DataOnce(s, Told(s))'
  <2>1. Told(s)' = t
    BY DEF Told
  <2>2. Alternates(Told(s), degraded[s])'
    BY <2>1
  <2>3. DataOnce(s, Told(s))'
    BY <2>1, SameData
  <2> QED BY <2>2, <2>3
<1>4. ASSUME NEW r \in Sources, r # s PROVE Alternates(Told(r), degraded[r])' /\ DataOnce(r, Told(r))'
  <2>1. Told(r)' = Told(r)
    BY <1>4 DEF Told
  <2> QED BY <1>4, <2>1, TalkKept
<1> QED BY <1>1, <1>2, <1>3, <1>4 DEF TalkInv

LEMMA PollFailsTalk ==
  ASSUME HelloType, TalkInv, NEW s \in Sources, PollFails(s)
  PROVE  TalkInv'
<1> PICK f : f = [src |-> s, kind |-> "degraded", event |-> NoEvent]
  OBVIOUS
<1> PICK o : o = offered[s]
  OBVIOUS
<1>1. /\ poller[s].at = "poll" /\ ~degraded[s]
      /\ degraded' = [degraded EXCEPT ![s] = TRUE]
      /\ poller' = [poller EXCEPT ![s].at = "offer", ![s].left = <<f>>]
      /\ UNCHANGED <<upstream, marker, seen, offered>>
  BY DEF PollFails, Frame, offerVars
<1>2. f \in FramesBy(s) /\ f.kind = "degraded" /\ f.kind # "data"
  BY DEF FramesBy, NoEvent, Event
<1>3. /\ poller'[s].at = "offer" /\ poller'[s].left = <<f>>
      /\ \A r \in Sources : r # s => poller'[r] = poller[r]
  BY <1>1 DEF HelloType, PollerType
<1>4. /\ degraded' \in [Sources -> BOOLEAN] /\ degraded'[s] = TRUE
      /\ \A r \in Sources : r # s => degraded'[r] = degraded[r]
  BY <1>1 DEF TalkInv, TalkType
<1>5. Told(s) = o /\ o \in Seq(FramesBy(s)) /\ Alternates(o, FALSE) /\ DataOnce(s, o)
  <2>1. poller[s].left = <<>> /\ o \in Seq(FramesBy(s)) /\ degraded[s] = FALSE
    BY <1>1 DEF TalkInv, TalkType
  <2>2. Told(s) = o
    BY <2>1, ConcatEmptySeq DEF Told
  <2> QED BY <2>1, <2>2 DEF TalkInv
<1>10. PICK t : t = o \o <<f>>
  OBVIOUS
<1>6. Alternates(t, TRUE)
  BY <1>2, <1>5, <1>10, FailureAlternates
<1>7. <<f>> \in Seq(FramesBy(s)) /\ <<f>> # <<>> /\ Len(<<f>>) = 1 /\ <<f>>[1] = f
  BY <1>2
<1>8. DataOnce(s, t)'
  <2>1. \A i \in 1..Len(<<f>>) : <<f>>[i].kind # "data"
    BY <1>2, <1>7
  <2> PICK B : B = IF s = "altsvc" THEN seen'[s] ELSE {id \in Int : id <= marker'[s]}
    OBVIOUS
  <2>2. \A id \in Nat : IsBehind(s, id) => id \in B
    BY <1>1 DEF IsBehind
  <2>3. PICK u : u = <<f>>
    OBVIOUS
  <2>4. /\ u \in Seq(FramesBy(s)) /\ t = o \o u
        /\ \A i \in 1..Len(u) : u[i].kind # "data"
    BY <1>7, <1>10, <2>1, <2>3
  <2>5. DataIn(t, B)
    BY <1>5, <2>2, <2>4, DataMore
  <2> QED BY <2>5 DEF DataIn, DataOnce, IsBehind
<1>9. seen' = [r \in Sources |-> seen'[r]] /\ marker' \in [Sources -> Nat]
  BY <1>1 DEF TalkInv, TalkType
<1> QED BY <1>1, <1>3, <1>4, <1>6, <1>7, <1>8, <1>9, <1>10, SpeaksTalk

LEMMA PollAnswersTalk ==
  ASSUME HelloType, TalkInv, NEW s \in Sources, PollAnswers(s)
  PROVE  TalkInv'
<1>20. PICK o : o = offered[s]
  OBVIOUS
<1>21. PICK answer : answer = ListedBy(s)
  OBVIOUS
<1>22. PICK new : new = FilterNew(s, answer)
  OBVIOUS
<1>23. PICK u : u = FramesOf(s, new)
  OBVIOUS
<1>24. PICK b : b = IF degraded[s] THEN 1 ELSE 0
  OBVIOUS
<1>25. PICK m : m = Len(new)
  OBVIOUS
<1>0. UpstreamType /\ TalkType
  BY DEF TalkInv
<1>1. /\ poller[s].at = "poll"
      /\ degraded' = [degraded EXCEPT ![s] = FALSE]
      /\ poller' = [poller EXCEPT
           ![s].at = IF poller[s].first THEN "list" ELSE OfferOrPoll(u),
           ![s].ok = @ \/ poller[s].first,
           ![s].left = u]
      /\ UNCHANGED <<upstream, offered>>
  BY <1>21, <1>22, <1>23 DEF PollAnswers, offerVars
<1>2. /\ poller'[s].at = IF poller[s].first THEN "list" ELSE OfferOrPoll(u)
      /\ poller'[s].left = u
      /\ \A r \in Sources : r # s => poller'[r] = poller[r]
  BY <1>1 DEF HelloType, PollerType
<1>3. (poller'[s].at \in {"poll", "done"} => u = <<>>) /\ (Offering(s)' => u # <<>>)
  BY <1>2 DEF OfferOrPoll, Offering
<1>4. /\ degraded' \in [Sources -> BOOLEAN] /\ degraded'[s] = FALSE
      /\ \A r \in Sources : r # s => degraded'[r] = degraded[r]
  BY <1>0, <1>1 DEF TalkType
<1>5. /\ o \in Seq(FramesBy(s)) /\ Alternates(o, b = 1) /\ DataOnce(s, o)
  <2>1. poller[s].left = <<>> /\ o \in Seq(FramesBy(s)) /\ degraded[s] \in BOOLEAN
    BY <1>0, <1>1, <1>20 DEF TalkType
  <2>2. Told(s) = o
    BY <1>20, <2>1, ConcatEmptySeq DEF Told
  <2>3. Alternates(o, degraded[s]) /\ DataOnce(s, o)
    BY <2>2 DEF TalkInv
  <2>4. degraded[s] <=> b = 1
    BY <1>24
  <2> QED BY <2>1, <2>3, <2>4 DEF Alternates
<1>6. /\ new \in Seq(Event)
      /\ \A i \in 1..m : /\ ~IsBehind(s, new[i].id)
                         /\ \E j \in 1..Len(answer) : new[i] = answer[j]
      /\ \A i, j \in 1..m : i # j => new[i].id # new[j].id
  <2>1. AreNew(s, answer, new)
    BY <1>0, <1>21, <1>22, NewFacts
  <2> QED BY <1>25, <2>1 DEF AreNew
<1>7. /\ u \in Seq(FramesBy(s)) /\ m \in Nat /\ b \in {0, 1} /\ Len(u) = b + m
      /\ b = 1 => u[1].kind = "recovered"
      /\ \A i \in 1..m : u[b + i].kind = "data" /\ u[b + i].event = new[i]
  BY <1>0, <1>6, <1>23, <1>24, <1>25, FramesFacts DEF FramesAre
<1>14. PICK t : t = o \o u
  OBVIOUS
<1>8. Alternates(t, FALSE)
  BY <1>5, <1>7, <1>14, AnswerAlternates
<1>9. /\ marker' \in [Sources -> Nat] /\ seen' = [r \in Sources |-> seen'[r]]
      /\ \A r \in Sources : r # s => marker'[r] = marker[r] /\ seen'[r] = seen[r]
      /\ \A id \in Nat : IsBehind(s, id) => IsBehind(s, id)'
      /\ \A j \in 1..Len(answer) : IsBehind(s, answer[j].id)'
  BY <1>0, <1>21, BehindAfter
<1>10. \A i \in 1..Len(u) : u[i].kind = "data" => \E k \in 1..m : i = b + k
  <2> SUFFICES ASSUME NEW i \in 1..(b + m), u[i].kind = "data" PROVE \E k \in 1..m : i = b + k
    BY <1>7
  <2>1. i - b \in 1..m
    <3>1. ~(b = 1 /\ i = 1)
      BY <1>7
    <3> QED BY <1>7, <3>1
  <2>2. i = b + (i - b)
    BY <1>7
  <2> QED BY <2>1, <2>2
<1>11. ASSUME NEW i \in 1..Len(u), u[i].kind = "data"
       PROVE  ~IsBehind(s, u[i].event.id) /\ IsBehind(s, u[i].event.id)'
  <2>1. PICK k \in 1..m : i = b + k /\ u[i].event = new[k]
    <3>1. PICK k \in 1..m : i = b + k
      BY <1>10, <1>11
    <3> QED BY <1>7, <3>1
  <2>2. ~IsBehind(s, new[k].id)
    BY <1>6
  <2>3. PICK j \in 1..Len(answer) : new[k] = answer[j]
    BY <1>6
  <2>4. IsBehind(s, answer[j].id)'
    BY <1>9
  <2> QED BY <2>1, <2>2, <2>3, <2>4 DEF IsBehind
<1>12. ASSUME NEW i \in 1..Len(u), NEW j \in 1..Len(u), i # j,
              u[i].kind = "data", u[j].kind = "data"
       PROVE  u[i].event.id # u[j].event.id
  <2>1. PICK k \in 1..m : i = b + k /\ u[i].event = new[k]
    <3>1. PICK k \in 1..m : i = b + k
      BY <1>10, <1>12
    <3> QED BY <1>7, <3>1
  <2>2. PICK l \in 1..m : j = b + l /\ u[j].event = new[l]
    <3>1. PICK l \in 1..m : j = b + l
      BY <1>10, <1>12
    <3> QED BY <1>7, <3>1
  <2>3. k # l
    BY <1>12, <2>1, <2>2
  <2> QED BY <1>6, <2>1, <2>2, <2>3
<1>13. DataOnce(s, t)'
  <2> PICK B : B = IF s = "altsvc" THEN seen'[s] ELSE {id \in Int : id <= marker'[s]}
    OBVIOUS
  <2>0. \A id \in Nat : IsBehind(s, id)' => id \in B
    BY DEF IsBehind
  <2>1. \A i \in 1..Len(u) : u[i].kind = "data" =>
          ~IsBehind(s, u[i].event.id) /\ u[i].event.id \in B
    <3>1. ASSUME NEW i \in 1..Len(u), u[i].kind = "data"
          PROVE  ~IsBehind(s, u[i].event.id) /\ u[i].event.id \in B
      <4>1. ~IsBehind(s, u[i].event.id) /\ IsBehind(s, u[i].event.id)'
        BY <1>11, <3>1
      <4>2. u[i].event.id \in Nat
        <5>1. u[i] \in FramesBy(s)
          BY <1>7, ElementOfSeq
        <5> QED BY <5>1 DEF FramesBy, Event
      <4> QED BY <2>0, <4>1, <4>2 DEF IsBehind
    <3> QED BY <3>1
  <2>2. \A i, j \in 1..Len(u) :
          i # j /\ u[i].kind = "data" /\ u[j].kind = "data" => u[i].event.id # u[j].event.id
    BY <1>12
  <2>3. \A id \in Nat : IsBehind(s, id) => id \in B
    BY <1>9, <2>0 DEF IsBehind
  <2>4. o \in Seq(FramesBy(s)) /\ u \in Seq(FramesBy(s)) /\ DataOnce(s, o)
    BY <1>5, <1>7
  <2>5. DataIn(t, B)
    BY <1>14, <2>1, <2>2, <2>3, <2>4, DataMore
  <2> QED BY <2>5 DEF DataIn, DataOnce, IsBehind
<1> QED BY <1>1, <1>20, <1>2, <1>3, <1>4, <1>7, <1>8, <1>9, <1>13, <1>14, SpeaksTalk

\* The log of an upstream grows: cfgs numbers its changes one after another.
LEMMA HappensTalk ==
  ASSUME HelloType, TalkInv, NEW s \in Sources, Happens(s)
  PROVE  TalkInv'
<1> PICK log : log = upstream[s].log
  OBVIOUS
<1> PICK n : n = Len(log)
  OBVIOUS
<1>0. /\ log \in Seq(Event) /\ n \in Nat /\ \A i \in 1..n : log[i].id \in Nat
      /\ s = "cfgs" => \A i \in 1..n : log[i].id = i
  BY LogFacts DEF TalkInv, UpstreamType
<1>1. PICK id \in NextIds(s) :
        upstream' = [upstream EXCEPT ![s].log = Append(log, [id |-> id, nth |-> n + 1])]
  BY DEF Happens
<1>2. UNCHANGED <<pollVars, poller, offered>>
  BY DEF Happens, offerVars
<1>3. id \in Nat /\ (s = "cfgs" => id = n + 1)
  <2> PICK last : last = IF log = <<>> THEN 0 ELSE Last(log).id
    OBVIOUS
  <2>1. last \in Nat
    <3>1. CASE log = <<>>
      BY <3>1
    <3>2. CASE log # <<>>
      <4>1. n \in 1..n
        BY <1>0, <3>2, EmptySeq
      <4> QED BY <1>0, <3>2, <4>1 DEF Last
    <3> QED BY <3>1, <3>2
  <2>2. NextIds(s) = CASE s = "obb" -> {last + 1} \cup (IF log = <<>> THEN {} ELSE {last})
                       [] s = "audl" -> {n}
                       [] s = "cfgs" -> {n + 1}
                       [] OTHER -> 1..(last + 1)
    BY DEF NextIds
  <2>3. CASE s = "obb"
    BY <2>1, <2>2, <2>3
  <2>4. CASE s = "audl"
    BY <1>0, <2>2, <2>4
  <2>5. CASE s = "cfgs"
    BY <1>0, <2>2, <2>5
  <2>6. CASE s \notin {"obb", "audl", "cfgs"}
    <3>1. NextIds(s) = 1..(last + 1)
      BY <2>2, <2>6
    <3> QED BY <2>1, <2>6, <3>1
  <2> QED BY <2>3, <2>4, <2>5, <2>6
<1> PICK e : e = [id |-> id, nth |-> n + 1]
  OBVIOUS
<1> PICK more : more = Append(log, e)
  OBVIOUS
<1>4. e \in Event /\ e.id = id
  BY <1>0, <1>3 DEF Event
<1>5. /\ more \in Seq(Event) /\ Len(more) = n + 1 /\ more[n + 1] = e
      /\ \A i \in 1..n : more[i] = log[i]
  BY <1>0, <1>4, AppendProperties
<1>6. /\ upstream' = [r \in Sources |-> upstream'[r]]
      /\ upstream'[s].log = more /\ DOMAIN upstream'[s] = {"log", "up"}
      /\ \A r \in Sources : r # s => upstream'[r] = upstream[r]
  BY <1>1 DEF TalkInv, UpstreamType
<1>7. UpstreamType'
  <2>1. ASSUME s = "cfgs", NEW i \in 1..(n + 1) PROVE more[i].id = i
    <3>1. CASE i \in 1..n
      BY <1>0, <1>5, <2>1, <3>1
    <3>2. CASE i = n + 1
      BY <1>3, <1>4, <1>5, <2>1, <3>2
    <3> QED BY <1>0, <3>1, <3>2
  <2>2. ASSUME NEW r \in Sources
        PROVE  /\ DOMAIN upstream'[r] = {"log", "up"} /\ upstream'[r].log \in Seq(Event)
               /\ r = "cfgs" => \A i \in 1..Len(upstream'[r].log) : upstream'[r].log[i].id = i
    <3>1. CASE r = s
      BY <1>5, <1>6, <2>1, <3>1
    <3>2. CASE r # s
      BY <1>6, <3>2 DEF TalkInv, UpstreamType
    <3> QED BY <3>1, <3>2
  <2> QED BY <1>6, <2>2 DEF UpstreamType
<1>8. TalkType' /\ \A r \in Sources : Told(r)' = Told(r)
  BY <1>2 DEF TalkInv, TalkType, Offering, Told, pollVars
<1> QED BY <1>2, <1>7, <1>8, TalkKept DEF TalkInv, pollVars

LEMMA NextTalk == HelloType /\ TalkInv /\ [LiveNext]_liveVars => TalkInv'
<1> SUFFICES ASSUME HelloType, TalkInv, [LiveNext]_liveVars PROVE TalkInv'
  OBVIOUS
<1>1. ASSUME UNCHANGED <<pollVars, poller, offered>>, UpstreamType' PROVE TalkInv'
  <2>1. TalkType' /\ \A r \in Sources : Told(r)' = Told(r)
    BY <1>1 DEF TalkInv, TalkType, Offering, Told, pollVars
  <2> QED BY <1>1, <2>1, TalkKept DEF TalkInv, pollVars
<1>2. ASSUME UNCHANGED <<upstream, pollVars, poller, offered>> PROVE TalkInv'
  BY <1>1, <1>2 DEF TalkInv, UpstreamType
<1>3. ASSUME NEW s \in Sources, Outage(s) \/ Recovers(s) PROVE TalkInv'
  <2>1. PICK up : upstream' = [upstream EXCEPT ![s].up = up]
    BY <1>3 DEF Outage, Recovers
  <2>2. UNCHANGED <<pollVars, poller, offered>>
    BY <1>3 DEF Outage, Recovers, offerVars
  <2>3. UpstreamType'
    BY <2>1 DEF TalkInv, UpstreamType
  <2> QED BY <1>1, <2>2, <2>3
<1>4. ASSUME NEW s \in Sources, Put(s) \/ GiveUp(s) PROVE TalkInv'
  <2>1. Offering(s) /\ Offered(s) /\ UNCHANGED <<upstream, pollVars>>
    BY <1>4 DEF Put, GiveUp, Offering
  <2> QED BY <2>1, OfferedTalk
<1>5. ASSUME NEW s \in Sources, PollerStep(s) PROVE TalkInv'
  BY <1>4, <1>5, PollAnswersTalk, PollFailsTalk, MovesTalk DEF PollerStep
<1>6. CASE Hello \/ Close
  BY <1>2, <1>6 DEF Hello, Close, offerVars
<1>7. ASSUME NEW frame \in Range(queue), WriteFrame(frame) PROVE TalkInv'
  BY <1>2, <1>7 DEF WriteFrame
<1>8. CASE UNCHANGED liveVars
  BY <1>2, <1>8 DEF liveVars, offerVars
<1> QED BY <1>3, <1>5, <1>6, <1>7, <1>8, HappensTalk DEF LiveNext


LEMMA TalkInvariant == LiveSpec => [](HelloInv /\ TalkInv)
<1>1. HelloInv /\ TalkInv /\ [LiveNext]_liveVars => HelloInv' /\ TalkInv'
  BY NextHello, NextTalk DEF HelloInv
<1> QED BY <1>1, InitHello, InitTalk, PTL DEF LiveSpec

\* The kinds of what a source was told of, as the property reads them.
Kinds(s) == [k \in DOMAIN Told(s) |-> Told(s)[k].kind]
DownIn(told, k) ==
  \E i \in 1..k : told[i] = "degraded" /\ \A j \in (i + 1)..k : told[j] # "recovered"

\* No data of a source is passed on while it is said to be down, and every failure and
\* every return is said once (live.py:241-271).
THEOREM DataOnlyWhenUp == LiveSpec => []AnnouncedBeforeData
<1>1. ASSUME TalkInv PROVE AnnouncedBeforeData
  <2> SUFFICES ASSUME NEW s \in Sources
               PROVE  /\ \A k \in DOMAIN Kinds(s) : DownIn(Kinds(s), k - 1) <=> Kinds(s)[k] = "recovered"
                      /\ degraded[s] <=> DownIn(Kinds(s), Len(Kinds(s)))
    BY DEF AnnouncedBeforeData, Kinds, DownIn, Told
  <2> PICK t : t = Told(s)
    OBVIOUS
  <2> PICK told : told = Kinds(s)
    OBVIOUS
  <2> PICK n : n = Len(t)
    OBVIOUS
  <2>1. t \in Seq(FramesBy(s))
    <3>1. offered[s] \in Seq(FramesBy(s)) /\ poller[s].left \in Seq(FramesBy(s))
      BY <1>1 DEF TalkInv, TalkType
    <3>2. PICK m \in Nat : m = Len(offered[s])
      BY <3>1, LenProperties
    <3> QED BY <3>1, <3>2, ConcatOf DEF Told
  <2>2. n \in Nat /\ DOMAIN t = 1..n
    BY <2>1, LenProperties
  <2>3. DOMAIN told = 1..n /\ Len(told) = n /\ \A k \in 1..n : told[k] = t[k].kind
    <3>1. told = [k \in 1..n |-> t[k].kind]
      BY <2>2 DEF Kinds
    <3> QED BY <2>2, <3>1
  <2>4. /\ \A k \in 1..n : DownAfter(t, k - 1) <=> t[k].kind = "recovered"
        /\ degraded[s] <=> DownAfter(t, n)
    BY <1>1 DEF TalkInv, Alternates
  <2>5. ASSUME NEW k \in 0..n PROVE DownAfter(t, k) <=> DownIn(told, k)
    <3>1. \A i \in 1..k : i \in 1..n /\ \A j \in (i + 1)..k : j \in 1..n
      BY <2>2
    <3>2. ASSUME NEW i \in 1..k
          PROVE  /\ told[i] = t[i].kind
                 /\ (\A j \in (i + 1)..k : told[j] # "recovered")
                      <=> (\A j \in (i + 1)..k : t[j].kind # "recovered")
      BY <2>3, <3>1
    <3> QED BY <3>2 DEF DownAfter, DownIn
  <2>6. n \in 0..n /\ \A k \in 1..n : k - 1 \in 0..n
    BY <2>2
  <2>7. ASSUME NEW k \in 1..n PROVE DownIn(told, k - 1) <=> told[k] = "recovered"
    BY <2>3, <2>4, <2>5, <2>6
  <2>8. degraded[s] <=> DownIn(told, n)
    BY <2>4, <2>5, <2>6
  <2> QED BY <2>3, <2>7, <2>8
<1> QED BY <1>1, TalkInvariant, PTL

\* Answers of a source overlap, but no event of it is passed on twice, for any window and
\* any timing of the polls (live_sources.py:167-292).
THEOREM NothingTwice == LiveSpec => []ForwardedOnce
<1>1. ASSUME TalkInv PROVE ForwardedOnce
  <2> SUFFICES ASSUME NEW s \in Sources, NEW t, t = Told(s)
               PROVE  \A i, j \in DOMAIN t :
                        i # j /\ t[i].kind = "data" /\ t[j].kind = "data" =>
                          t[i].event.id # t[j].event.id
    BY DEF ForwardedOnce, Told
  <2>1. t \in Seq(FramesBy(s))
    <3>1. offered[s] \in Seq(FramesBy(s)) /\ poller[s].left \in Seq(FramesBy(s))
      BY <1>1 DEF TalkInv, TalkType
    <3>2. PICK m \in Nat : m = Len(offered[s])
      BY <3>1, LenProperties
    <3> QED BY <3>1, <3>2, ConcatOf DEF Told
  <2>2. DOMAIN t = 1..Len(t)
    BY <2>1, LenProperties
  <2>3. DataOnce(s, t)
    BY <1>1 DEF TalkInv
  <2> QED BY <2>2, <2>3 DEF DataOnce
<1> QED BY <1>1, TalkInvariant, PTL
---------------------------------------------------------------------------
(* The queue between the pollers and the handler *)

PlacedFrame ==
  [src : Sources, kind : {"degraded", "recovered", "data"}, event : Event, place : Nat]

\* Where the frame of source s with place p is, when q waits, w is written and lost is shed.
QueuedIn(q, s, p) == \E i \in 1..Len(q) : q[i].src = s /\ q[i].place = p
StreamedIn(w, p) == \E i \in 1..Len(w) : w[i].place = p
LostIn(lost, s, p) == \E f \in lost : f.src = s /\ f.place = p

PlacedAll(count, q, w, lost) ==
  /\ count \in [Sources -> Nat] /\ q \in Seq(PlacedFrame) /\ lost \subseteq PlacedFrame
  /\ w \in [Sources -> Seq(PlacedFrame)]

\* The places of a source rise in what is written and in what waits behind it.
Ordered(q, w) ==
  /\ \A i, j \in 1..Len(q) : i < j /\ q[i].src = q[j].src => q[i].place < q[j].place
  /\ \A s \in Sources :
       /\ \A i, j \in 1..Len(w[s]) : i < j => w[s][i].place < w[s][j].place
       /\ \A i \in 1..Len(w[s]), j \in 1..Len(q) : q[j].src = s => w[s][i].place < q[j].place

\* What was offered is in one of the three, and nothing else is.
Somewhere(count, q, w, lost) ==
  \A s \in Sources, p \in Nat :
    /\ p \in 1..count[s] <=> StreamedIn(w[s], p) \/ QueuedIn(q, s, p) \/ LostIn(lost, s, p)
    /\ ~(LostIn(lost, s, p) /\ (StreamedIn(w[s], p) \/ QueuedIn(q, s, p)))

IsFifo(count, q, w, lost) ==
  PlacedAll(count, q, w, lost) /\ Ordered(q, w) /\ Somewhere(count, q, w, lost)

FifoInv == IsFifo([s \in Sources |-> Len(offered[s])], queue, streamed, shed)

Grown(r, q, f, n) ==
  /\ Len(r) = n + 1 /\ r[n + 1] = f
  /\ \A i \in 1..n : r[i] = q[i]
  /\ \A i \in 1..(n + 1) : i \in 1..n \/ i = n + 1
  /\ \A s, p : QueuedIn(r, s, p) <=> QueuedIn(q, s, p) \/ (f.src = s /\ f.place = p)
  /\ \A p : StreamedIn(r, p) <=> StreamedIn(q, p) \/ f.place = p

Shrunk(r, q, f, n) ==
  /\ Len(r) = n - 1 /\ f = q[1] /\ 1 \in 1..n
  /\ \A i \in 1..(n - 1) : i + 1 \in 1..n /\ r[i] = q[i + 1]
  /\ \A s, p : QueuedIn(q, s, p) <=> QueuedIn(r, s, p) \/ (f.src = s /\ f.place = p)

\* One frame more at the end.
LEMMA QueueGrows ==
  ASSUME NEW S, NEW q \in Seq(S), NEW f \in S, NEW n \in Nat, n = Len(q), NEW r, r = Append(q, f)
  PROVE  r \in Seq(S) /\ Grown(r, q, f, n)
<1>1. r \in Seq(S) /\ Len(r) = n + 1 /\ r[n + 1] = f /\ \A i \in 1..n : r[i] = q[i]
  BY AppendProperties
<1>2. /\ \A i \in 1..(n + 1) : i \in 1..n \/ i = n + 1
      /\ \A i \in 1..n : i \in 1..(n + 1)
      /\ n + 1 \in 1..(n + 1)
  OBVIOUS
<1>3. ASSUME NEW s, NEW p
      PROVE  QueuedIn(r, s, p) <=> QueuedIn(q, s, p) \/ (f.src = s /\ f.place = p)
  BY <1>1, <1>2 DEF QueuedIn
<1>4. ASSUME NEW p PROVE StreamedIn(r, p) <=> StreamedIn(q, p) \/ f.place = p
  BY <1>1, <1>2 DEF StreamedIn
<1> QED BY <1>1, <1>2, <1>3, <1>4 DEF Grown

\* One frame less at the front.
LEMMA QueueShrinks ==
  ASSUME NEW S, NEW q \in Seq(S), q # <<>>, NEW n \in Nat, n = Len(q), NEW f, f = Head(q),
         NEW r, r = Tail(q)
  PROVE  r \in Seq(S) /\ f \in S /\ Shrunk(r, q, f, n)
<1>1. /\ r \in Seq(S) /\ Len(r) = n - 1 /\ f \in S /\ f = q[1]
      /\ \A i \in 1..(n - 1) : r[i] = q[i + 1]
  BY HeadTailProperties, EmptySeq
<1>2. 1 \in 1..n /\ (\A i \in 1..(n - 1) : i + 1 \in 1..n)
  BY EmptySeq
<1>3. \A i \in 1..n : i = 1 \/ \E j \in 1..(n - 1) : i = j + 1
  <2> SUFFICES ASSUME NEW i \in 1..n, i # 1 PROVE \E j \in 1..(n - 1) : i = j + 1
    OBVIOUS
  <2>1. i - 1 \in 1..(n - 1) /\ i = (i - 1) + 1
    OBVIOUS
  <2> QED BY <2>1
<1>4. ASSUME NEW s, NEW p
      PROVE  QueuedIn(q, s, p) <=> QueuedIn(r, s, p) \/ (f.src = s /\ f.place = p)
  <2>1. ASSUME NEW i \in 1..n, q[i].src = s, q[i].place = p
        PROVE  QueuedIn(r, s, p) \/ (f.src = s /\ f.place = p)
    <3>1. CASE i = 1
      BY <1>1, <2>1, <3>1
    <3>2. CASE i # 1
      <4>1. PICK j \in 1..(n - 1) : i = j + 1
        BY <1>3, <3>2
      <4>2. r[j] = q[i]
        BY <1>1, <4>1
      <4> QED BY <1>1, <2>1, <4>2 DEF QueuedIn
    <3> QED BY <3>1, <3>2
  <2>2. ASSUME NEW j \in 1..(n - 1), r[j].src = s, r[j].place = p PROVE QueuedIn(q, s, p)
    <3>1. j + 1 \in 1..n /\ r[j] = q[j + 1]
      BY <1>1, <1>2
    <3> QED BY <2>2, <3>1 DEF QueuedIn
  <2> QED BY <1>1, <1>2, <2>1, <2>2 DEF QueuedIn
<1> QED BY <1>1, <1>2, <1>4 DEF Shrunk

LEMMA PlacedFacts ==
  ASSUME NEW f \in PlacedFrame
  PROVE  f.src \in Sources /\ f.place \in Nat
BY DEF PlacedFrame

\* A frame that is offered comes after all that were, and is put last.
LEMMA FifoPut ==
  ASSUME NEW c, NEW q, NEW w, NEW l, IsFifo(c, q, w, l), NEW s \in Sources,
         NEW f \in PlacedFrame, f.src = s, f.place = c[s] + 1,
         NEW d, d = [c EXCEPT ![s] = c[s] + 1], NEW r, r = Append(q, f)
  PROVE  IsFifo(d, r, w, l)
<1> PICK n : n = Len(q)
  OBVIOUS
<1>1. PlacedAll(c, q, w, l) /\ Ordered(q, w) /\ Somewhere(c, q, w, l)
  BY DEF IsFifo
<1>2. q \in Seq(PlacedFrame) /\ n \in Nat /\ \A i \in 1..n : q[i] \in PlacedFrame
  BY <1>1, LenProperties, ElementOfSeq DEF PlacedAll
<1>3. /\ r \in Seq(PlacedFrame) /\ Len(r) = n + 1 /\ r[n + 1] = f
      /\ \A i \in 1..n : r[i] = q[i]
      /\ \A i \in 1..(n + 1) : i \in 1..n \/ i = n + 1
      /\ \A t, p : QueuedIn(r, t, p) <=> QueuedIn(q, t, p) \/ (f.src = t /\ f.place = p)
  <2>1. r \in Seq(PlacedFrame) /\ Grown(r, q, f, n)
    BY <1>2, QueueGrows
  <2> QED BY <2>1 DEF Grown
<1>4. /\ d \in [Sources -> Nat] /\ d[s] = c[s] + 1 /\ c[s] \in Nat
      /\ \A t \in Sources : t # s => d[t] = c[t]
  BY <1>1 DEF PlacedAll
<1>5. PlacedAll(d, r, w, l)
  BY <1>1, <1>3, <1>4 DEF PlacedAll
<1>6. \A p \in Nat : StreamedIn(w[s], p) \/ QueuedIn(q, s, p) \/ LostIn(l, s, p) => p < c[s] + 1
  BY <1>1, <1>4 DEF Somewhere
<1>7. Ordered(r, w)
  <2>1. ASSUME NEW i \in 1..n, q[i].src = s PROVE q[i].place < c[s] + 1
    <3>1. q[i].place \in Nat /\ QueuedIn(q, s, q[i].place)
      BY <1>2, <2>1, PlacedFacts DEF QueuedIn
    <3> QED BY <1>6, <3>1
  <2>2. ASSUME NEW i \in 1..Len(w[s]) PROVE w[s][i].place < c[s] + 1
    <3>1. w[s][i].place \in Nat /\ StreamedIn(w[s], w[s][i].place)
      <4>1. w[s] \in Seq(PlacedFrame)
        BY <1>1 DEF PlacedAll
      <4>2. w[s][i] \in PlacedFrame
        BY <4>1, ElementOfSeq
      <4> QED BY <4>2, PlacedFacts DEF StreamedIn
    <3> QED BY <1>6, <3>1
  <2>3. ASSUME NEW i \in 1..(n + 1), NEW j \in 1..(n + 1), i < j, r[i].src = r[j].src
        PROVE  r[i].place < r[j].place
    <3>1. i \in 1..n
      BY <1>2, <2>3
    <3>2. CASE j \in 1..n
      BY <1>1, <1>2, <1>3, <2>3, <3>1, <3>2 DEF Ordered
    <3>3. CASE j = n + 1
      BY <1>3, <2>1, <2>3, <3>1, <3>3
    <3> QED BY <1>3, <3>2, <3>3
  <2>4. ASSUME NEW t \in Sources, NEW i \in 1..Len(w[t]), NEW j \in 1..(n + 1), r[j].src = t
        PROVE  w[t][i].place < r[j].place
    <3>1. CASE j \in 1..n
      BY <1>1, <1>2, <1>3, <2>4, <3>1 DEF Ordered
    <3>2. CASE j = n + 1
      BY <1>3, <2>2, <2>4, <3>2
    <3> QED BY <1>3, <3>1, <3>2
  <2>5. \A t \in Sources : \A i, j \in 1..Len(w[t]) : i < j => w[t][i].place < w[t][j].place
    BY <1>1 DEF Ordered
  <2> QED BY <1>3, <2>3, <2>4, <2>5 DEF Ordered
<1>8. Somewhere(d, r, w, l)
  <2> SUFFICES ASSUME NEW t \in Sources, NEW p \in Nat
               PROVE  /\ p \in 1..d[t] <=> StreamedIn(w[t], p) \/ QueuedIn(r, t, p) \/ LostIn(l, t, p)
                      /\ ~(LostIn(l, t, p) /\ (StreamedIn(w[t], p) \/ QueuedIn(r, t, p)))
    BY DEF Somewhere
  <2>1. /\ p \in 1..c[t] <=> StreamedIn(w[t], p) \/ QueuedIn(q, t, p) \/ LostIn(l, t, p)
        /\ ~(LostIn(l, t, p) /\ (StreamedIn(w[t], p) \/ QueuedIn(q, t, p)))
    BY <1>1 DEF Somewhere
  <2>2. QueuedIn(r, t, p) <=> QueuedIn(q, t, p) \/ (t = s /\ p = c[s] + 1)
    BY <1>3
  <2>3. CASE t = s
    <3>1. p \in 1..d[t] <=> p \in 1..c[t] \/ p = c[s] + 1
      BY <1>4, <2>3
    <3>2. p = c[s] + 1 => ~LostIn(l, t, p)
      BY <1>4, <1>6, <2>3
    <3> QED BY <2>1, <2>2, <2>3, <3>1, <3>2
  <2>4. CASE t # s
    BY <1>4, <2>1, <2>2, <2>4
  <2> QED BY <2>3, <2>4
<1> QED BY <1>5, <1>7, <1>8 DEF IsFifo

\* A frame that finds no room is shed, and is known to no one else.
LEMMA FifoGivenUp ==
  ASSUME NEW c, NEW q, NEW w, NEW l, IsFifo(c, q, w, l), NEW s \in Sources,
         NEW f \in PlacedFrame, f.src = s, f.place = c[s] + 1,
         NEW d, d = [c EXCEPT ![s] = c[s] + 1], NEW m, m = l \cup {f}
  PROVE  IsFifo(d, q, w, m)
<1>1. PlacedAll(c, q, w, l) /\ Ordered(q, w) /\ Somewhere(c, q, w, l)
  BY DEF IsFifo
<1>2. /\ d \in [Sources -> Nat] /\ d[s] = c[s] + 1 /\ c[s] \in Nat
      /\ \A t \in Sources : t # s => d[t] = c[t]
  BY <1>1 DEF PlacedAll
<1>3. PlacedAll(d, q, w, m)
  BY <1>1, <1>2 DEF PlacedAll
<1>4. \A p \in Nat : StreamedIn(w[s], p) \/ QueuedIn(q, s, p) => p < c[s] + 1
  BY <1>1, <1>2 DEF Somewhere
<1>5. Somewhere(d, q, w, m)
  <2> SUFFICES ASSUME NEW t \in Sources, NEW p \in Nat
               PROVE  /\ p \in 1..d[t] <=> StreamedIn(w[t], p) \/ QueuedIn(q, t, p) \/ LostIn(m, t, p)
                      /\ ~(LostIn(m, t, p) /\ (StreamedIn(w[t], p) \/ QueuedIn(q, t, p)))
    BY DEF Somewhere
  <2>1. /\ p \in 1..c[t] <=> StreamedIn(w[t], p) \/ QueuedIn(q, t, p) \/ LostIn(l, t, p)
        /\ ~(LostIn(l, t, p) /\ (StreamedIn(w[t], p) \/ QueuedIn(q, t, p)))
    BY <1>1 DEF Somewhere
  <2>2. LostIn(m, t, p) <=> LostIn(l, t, p) \/ (t = s /\ p = c[s] + 1)
    BY DEF LostIn
  <2>3. CASE t = s
    <3>1. p \in 1..d[t] <=> p \in 1..c[t] \/ p = c[s] + 1
      BY <1>2, <2>3
    <3>2. p = c[s] + 1 => ~(StreamedIn(w[t], p) \/ QueuedIn(q, t, p))
      BY <1>2, <1>4, <2>3
    <3> QED BY <2>1, <2>2, <2>3, <3>1, <3>2
  <2>4. CASE t # s
    BY <1>2, <2>1, <2>2, <2>4
  <2> QED BY <2>3, <2>4
<1> QED BY <1>1, <1>3, <1>5 DEF IsFifo

\* What is left of a queue is in order, and its first frame is found nowhere else.
LEMMA OrderedTail ==
  ASSUME NEW q, NEW w, Ordered(q, w), NEW n \in Nat, n = Len(q), NEW r, Len(r) = n - 1,
         \A i \in 1..(n - 1) : i + 1 \in 1..n /\ r[i] = q[i + 1]
  PROVE  Ordered(r, w)
<1>1. ASSUME NEW i \in 1..(n - 1), NEW j \in 1..(n - 1), i < j, r[i].src = r[j].src
      PROVE  r[i].place < r[j].place
  <2>1. /\ i + 1 \in 1..n /\ j + 1 \in 1..n
        /\ r[i] = q[i + 1] /\ r[j] = q[j + 1]
    OBVIOUS
  <2>2. i + 1 < j + 1
    BY <1>1
  <2> QED BY <1>1, <2>1, <2>2 DEF Ordered
<1>2. ASSUME NEW s \in Sources, NEW i \in 1..Len(w[s]), NEW j \in 1..(n - 1), r[j].src = s
      PROVE  w[s][i].place < r[j].place
  <2>1. j + 1 \in 1..n /\ r[j] = q[j + 1]
    OBVIOUS
  <2> QED BY <1>2, <2>1 DEF Ordered
<1>3. \A s \in Sources : \A i, j \in 1..Len(w[s]) : i < j => w[s][i].place < w[s][j].place
  BY DEF Ordered
<1> QED BY <1>1, <1>2, <1>3 DEF Ordered

LEMMA FirstIsAlone ==
  ASSUME NEW c, NEW q, NEW w, NEW l, PlacedAll(c, q, w, l), Ordered(q, w), NEW n \in Nat,
         n = Len(q), NEW r, NEW f, Shrunk(r, q, f, n),
         NEW t \in Sources, NEW p \in Nat, f.src = t, f.place = p
  PROVE  ~StreamedIn(w[t], p) /\ ~QueuedIn(r, t, p)
<1>0. /\ 1 \in 1..n /\ q[1] = f /\ Len(r) = n - 1
      /\ \A i \in 1..(n - 1) : i + 1 \in 1..n /\ r[i] = q[i + 1]
  BY DEF Shrunk
<1>1. ASSUME NEW i \in 1..Len(w[t]) PROVE w[t][i].place < p
  BY <1>0 DEF Ordered
<1>2. ASSUME NEW j \in 1..(n - 1), r[j].src = t PROVE p < r[j].place
  <2>1. j + 1 \in 1..n /\ r[j] = q[j + 1]
    BY <1>0
  <2>2. 1 < j + 1
    OBVIOUS
  <2> QED BY <1>0, <1>2, <2>1, <2>2 DEF Ordered
<1> QED BY <1>0, <1>1, <1>2 DEF StreamedIn, QueuedIn

\* The oldest frame of a full queue is shed: it was waiting, and waits no more.
LEMMA FifoDropped ==
  ASSUME NEW c, NEW q, NEW w, NEW l, IsFifo(c, q, w, l), q # <<>>,
         NEW f, f = Head(q), NEW r, r = Tail(q), NEW m, m = l \cup {f}
  PROVE  IsFifo(c, r, w, m)
<1> PICK n : n = Len(q)
  OBVIOUS
<1>1. PlacedAll(c, q, w, l) /\ Ordered(q, w) /\ Somewhere(c, q, w, l)
  BY DEF IsFifo
<1>2. q \in Seq(PlacedFrame) /\ n \in Nat
  BY <1>1, LenProperties DEF PlacedAll
<1>3. /\ r \in Seq(PlacedFrame) /\ f \in PlacedFrame /\ f = q[1] /\ 1 \in 1..n
      /\ Len(r) = n - 1
      /\ \A i \in 1..(n - 1) : i + 1 \in 1..n /\ r[i] = q[i + 1]
      /\ \A t, p : QueuedIn(q, t, p) <=> QueuedIn(r, t, p) \/ (f.src = t /\ f.place = p)
      /\ Shrunk(r, q, f, n)
  <2>1. r \in Seq(PlacedFrame) /\ f \in PlacedFrame /\ Shrunk(r, q, f, n)
    BY <1>2, QueueShrinks
  <2> QED BY <2>1 DEF Shrunk
<1>4. PlacedAll(c, r, w, m)
  BY <1>1, <1>3 DEF PlacedAll
<1>5. Ordered(r, w)
  BY <1>1, <1>2, <1>3, OrderedTail
<1>6. Somewhere(c, r, w, m)
  <2> SUFFICES ASSUME NEW t \in Sources, NEW p \in Nat
               PROVE  /\ p \in 1..c[t] <=> StreamedIn(w[t], p) \/ QueuedIn(r, t, p) \/ LostIn(m, t, p)
                      /\ ~(LostIn(m, t, p) /\ (StreamedIn(w[t], p) \/ QueuedIn(r, t, p)))
    BY DEF Somewhere
  <2>1. /\ p \in 1..c[t] <=> StreamedIn(w[t], p) \/ QueuedIn(q, t, p) \/ LostIn(l, t, p)
        /\ ~(LostIn(l, t, p) /\ (StreamedIn(w[t], p) \/ QueuedIn(q, t, p)))
    BY <1>1 DEF Somewhere
  <2>2. LostIn(m, t, p) <=> LostIn(l, t, p) \/ (f.src = t /\ f.place = p)
    BY DEF LostIn
  <2>3. QueuedIn(q, t, p) <=> QueuedIn(r, t, p) \/ (f.src = t /\ f.place = p)
    BY <1>3
  <2>4. ASSUME f.src = t, f.place = p PROVE ~StreamedIn(w[t], p) /\ ~QueuedIn(r, t, p)
    BY <1>1, <1>2, <1>3, <2>4, FirstIsAlone
  <2> QED BY <2>1, <2>2, <2>3, <2>4
<1> QED BY <1>4, <1>5, <1>6 DEF IsFifo

\* The oldest frame is written: it waits no more, and comes after what was written before.
LEMMA FifoWritten ==
  ASSUME NEW c, NEW q, NEW w, NEW l, IsFifo(c, q, w, l), q # <<>>,
         NEW f, f = Head(q), NEW r, r = Tail(q), NEW s, s = f.src,
         NEW v, v = [w EXCEPT ![s] = Append(w[s], f)]
  PROVE  IsFifo(c, r, v, l)
<1> PICK n : n = Len(q)
  OBVIOUS
<1>1. PlacedAll(c, q, w, l) /\ Ordered(q, w) /\ Somewhere(c, q, w, l)
  BY DEF IsFifo
<1>2. q \in Seq(PlacedFrame) /\ n \in Nat
  BY <1>1, LenProperties DEF PlacedAll
<1>3. /\ r \in Seq(PlacedFrame) /\ f \in PlacedFrame /\ f = q[1] /\ 1 \in 1..n
      /\ Len(r) = n - 1
      /\ \A i \in 1..(n - 1) : i + 1 \in 1..n /\ r[i] = q[i + 1]
      /\ \A t, p : QueuedIn(q, t, p) <=> QueuedIn(r, t, p) \/ (f.src = t /\ f.place = p)
      /\ Shrunk(r, q, f, n)
  <2>1. r \in Seq(PlacedFrame) /\ f \in PlacedFrame /\ Shrunk(r, q, f, n)
    BY <1>2, QueueShrinks
  <2> QED BY <2>1 DEF Shrunk
<1>4. s \in Sources
  BY <1>3, PlacedFacts
<1>5. PICK old : old = w[s]
  OBVIOUS
<1>6. PICK new : new = Append(old, f)
  OBVIOUS
<1>7. PICK k : k = Len(old)
  OBVIOUS
<1>8. old \in Seq(PlacedFrame) /\ k \in Nat
  BY <1>1, <1>4, <1>5, <1>7, LenProperties DEF PlacedAll
<1>9. new \in Seq(PlacedFrame) /\ Grown(new, old, f, k)
  BY <1>3, <1>6, <1>7, <1>8, QueueGrows
<1>10. /\ v \in [Sources -> Seq(PlacedFrame)] /\ v[s] = new
       /\ \A t \in Sources : t # s => v[t] = w[t]
  BY <1>1, <1>4, <1>5, <1>6, <1>9 DEF PlacedAll
<1>11. PlacedAll(c, r, v, l)
  BY <1>1, <1>3, <1>10 DEF PlacedAll
<1>12. Ordered(r, w)
  BY <1>1, <1>2, <1>3, OrderedTail
<1>13. Ordered(r, v)
  <2>1. /\ \A i, j \in 1..k : i < j => old[i].place < old[j].place
        /\ \A i \in 1..k : old[i].place < f.place
    BY <1>1, <1>3, <1>4, <1>5, <1>7 DEF Ordered
  <2>2. ASSUME NEW i \in 1..(k + 1), NEW j \in 1..(k + 1), i < j
        PROVE  new[i].place < new[j].place
    <3>1. i \in 1..k
      BY <1>8, <2>2
    <3>2. CASE j \in 1..k
      BY <1>9, <2>1, <2>2, <3>1, <3>2 DEF Grown
    <3>3. CASE j = k + 1
      BY <1>9, <2>1, <3>1, <3>3 DEF Grown
    <3> QED BY <1>9, <3>2, <3>3 DEF Grown
  <2>3. ASSUME NEW i \in 1..(k + 1), NEW j \in 1..(n - 1), r[j].src = s
        PROVE  new[i].place < r[j].place
    <3>1. CASE i \in 1..k
      BY <1>3, <1>4, <1>5, <1>7, <1>9, <1>12, <2>3, <3>1 DEF Grown, Ordered
    <3>2. CASE i = k + 1
      <4>1. j + 1 \in 1..n /\ r[j] = q[j + 1] /\ 1 < j + 1
        BY <1>3
      <4>2. f.place < q[j + 1].place
        BY <1>1, <1>3, <2>3, <4>1 DEF Ordered
      <4> QED BY <1>9, <3>2, <4>1, <4>2 DEF Grown
    <3> QED BY <1>9, <3>1, <3>2 DEF Grown
  <2>4. Len(new) = k + 1
    BY <1>9 DEF Grown
  <2>5. ASSUME NEW t \in Sources
        PROVE  /\ \A i, j \in 1..Len(v[t]) : i < j => v[t][i].place < v[t][j].place
               /\ \A i \in 1..Len(v[t]), j \in 1..Len(r) :
                    r[j].src = t => v[t][i].place < r[j].place
    <3>1. CASE t = s
      <4>1. v[t] = new /\ Len(v[t]) = k + 1 /\ Len(r) = n - 1
        BY <1>3, <1>10, <2>4, <3>1
      <4>2. \A i, j \in 1..(k + 1) : i < j => new[i].place < new[j].place
        BY <2>2
      <4>3. \A i \in 1..(k + 1), j \in 1..(n - 1) : r[j].src = t => new[i].place < r[j].place
        BY <2>3, <3>1
      <4> QED BY <4>1, <4>2, <4>3
    <3>2. CASE t # s
      <4>1. v[t] = w[t]
        BY <1>10, <3>2
      <4> QED BY <1>12, <4>1 DEF Ordered
    <3> QED BY <3>1, <3>2
  <2> QED BY <1>12, <2>5 DEF Ordered
<1>14. Somewhere(c, r, v, l)
  <2> SUFFICES ASSUME NEW t \in Sources, NEW p \in Nat
               PROVE  /\ p \in 1..c[t] <=> StreamedIn(v[t], p) \/ QueuedIn(r, t, p) \/ LostIn(l, t, p)
                      /\ ~(LostIn(l, t, p) /\ (StreamedIn(v[t], p) \/ QueuedIn(r, t, p)))
    BY DEF Somewhere
  <2>1. /\ p \in 1..c[t] <=> StreamedIn(w[t], p) \/ QueuedIn(q, t, p) \/ LostIn(l, t, p)
        /\ ~(LostIn(l, t, p) /\ (StreamedIn(w[t], p) \/ QueuedIn(q, t, p)))
    BY <1>1 DEF Somewhere
  <2>2. StreamedIn(v[t], p) <=> StreamedIn(w[t], p) \/ (t = s /\ f.place = p)
    BY <1>5, <1>9, <1>10 DEF Grown
  <2>3. QueuedIn(q, t, p) <=> QueuedIn(r, t, p) \/ (t = s /\ f.place = p)
    BY <1>3
  <2> QED BY <2>1, <2>2, <2>3
<1> QED BY <1>11, <1>13, <1>14 DEF IsFifo

LEMMA InitFifo == LiveInit => FifoInv
<1> SUFFICES ASSUME LiveInit PROVE FifoInv
  OBVIOUS
<1>1. /\ offered = [s \in Sources |-> <<>>] /\ streamed = [s \in Sources |-> <<>>]
      /\ queue = <<>> /\ shed = {}
  BY DEF LiveInit
<1>2. PICK c : c = [s \in Sources |-> Len(offered[s])]
  OBVIOUS
<1>3. c \in [Sources -> Nat] /\ \A s \in Sources : c[s] = 0 /\ streamed[s] = <<>>
  BY <1>1, <1>2
<1>4. <<>> \in Seq(PlacedFrame) /\ Len(<<>>) = 0
  OBVIOUS
<1>5. PlacedAll(c, queue, streamed, shed)
  BY <1>1, <1>3, <1>4 DEF PlacedAll
<1>6. Ordered(queue, streamed)
  BY <1>1, <1>3, <1>4 DEF Ordered
<1>7. Somewhere(c, queue, streamed, shed)
  BY <1>1, <1>3, <1>4 DEF Somewhere, StreamedIn, QueuedIn, LostIn
<1> QED BY <1>2, <1>5, <1>6, <1>7 DEF FifoInv, IsFifo

\* A frame that is offered has the place after all that were.
LEMMA OfferedPlace ==
  ASSUME TalkInv, NEW s \in Sources, Offering(s), Offered(s), NEW f, f = Placed(Head(poller[s].left)),
         NEW c, c = [r \in Sources |-> Len(offered[r])]
  PROVE  /\ f \in PlacedFrame /\ f.src = s /\ f.place = c[s] + 1
         /\ [r \in Sources |-> Len(offered'[r])] = [c EXCEPT ![s] = c[s] + 1]
<1> PICK h : h = Head(poller[s].left)
  OBVIOUS
<1>1. h \in FramesBy(s)
  <2>1. poller[s].left \in Seq(FramesBy(s)) /\ poller[s].left # <<>>
    BY DEF TalkInv, TalkType
  <2> QED BY <2>1, HeadTailProperties
<1>2. h.src = s /\ h.kind \in {"degraded", "recovered", "data"} /\ h.event \in Event
  BY <1>1 DEF FramesBy
<1>3. PICK o : o = offered[s]
  OBVIOUS
<1>4. o \in Seq(FramesBy(s)) /\ offered = [r \in Sources |-> offered[r]]
  BY <1>3 DEF TalkInv, TalkType
<1>5. Len(o) \in Nat /\ Len(Append(o, h)) = Len(o) + 1
  BY <1>1, <1>4, LenProperties, AppendProperties
<1>6. f = [src |-> s, kind |-> h.kind, event |-> h.event, place |-> Len(o) + 1]
  BY <1>2, <1>3 DEF Placed
<1>7. f \in PlacedFrame
  BY <1>2, <1>5, <1>6 DEF PlacedFrame
<1>8. offered' = [offered EXCEPT ![s] = Append(o, h)]
  BY <1>3 DEF Offered
<1>9. /\ offered'[s] = Append(o, h)
      /\ \A r \in Sources : r # s => offered'[r] = offered[r]
  BY <1>4, <1>8
<1>10. [r \in Sources |-> Len(offered'[r])] = [c EXCEPT ![s] = c[s] + 1]
  BY <1>3, <1>5, <1>9
<1> QED BY <1>3, <1>6, <1>7, <1>10

LEMMA NextFifo == TalkInv /\ FifoInv /\ [LiveNext]_liveVars => FifoInv'
<1> SUFFICES ASSUME TalkInv, FifoInv, [LiveNext]_liveVars PROVE FifoInv'
  OBVIOUS
<1>0. PICK c : c = [s \in Sources |-> Len(offered[s])]
  OBVIOUS
<1>1. IsFifo(c, queue, streamed, shed)
  BY <1>0 DEF FifoInv
<1>2. ASSUME IsFifo([s \in Sources |-> Len(offered'[s])], queue', streamed', shed') PROVE FifoInv'
  BY <1>2 DEF FifoInv, IsFifo, PlacedAll, Ordered, Somewhere, StreamedIn, QueuedIn, LostIn
<1>3. ASSUME UNCHANGED <<queue, offerVars>> PROVE FifoInv'
  <2>1. [s \in Sources |-> Len(offered'[s])] = c
    BY <1>0, <1>3 DEF offerVars
  <2> QED BY <1>1, <1>2, <1>3, <2>1 DEF offerVars
<1>4. ASSUME NEW s \in Sources, Put(s) PROVE FifoInv'
  <2>1. PICK f : f = Placed(Head(poller[s].left))
    OBVIOUS
  <2>2. PICK d : d = [c EXCEPT ![s] = c[s] + 1]
    OBVIOUS
  <2>3. PICK r : r = Append(queue, f)
    OBVIOUS
  <2>4. /\ Offering(s) /\ Offered(s) /\ queue' = r
        /\ streamed' = streamed /\ shed' = shed
    BY <1>4, <2>1, <2>3 DEF Put
  <2>5. /\ f \in PlacedFrame /\ f.src = s /\ f.place = c[s] + 1
        /\ [t \in Sources |-> Len(offered'[t])] = d
    BY <1>0, <2>1, <2>2, <2>4, OfferedPlace
  <2>6. IsFifo(d, r, streamed, shed)
    BY ZenonT(30), <1>1, <2>2, <2>3, <2>5, FifoPut
  <2> QED BY <1>2, <2>4, <2>5, <2>6
<1>5. ASSUME NEW s \in Sources, GiveUp(s) PROVE FifoInv'
  <2>1. PICK f : f = Placed(Head(poller[s].left))
    OBVIOUS
  <2>2. PICK d : d = [c EXCEPT ![s] = c[s] + 1]
    OBVIOUS
  <2>3. PICK m : m = shed \cup {f}
    OBVIOUS
  <2>4. /\ Offering(s) /\ Offered(s) /\ shed' = m
        /\ streamed' = streamed /\ queue' = queue
    BY <1>5, <2>1, <2>3 DEF GiveUp, Offering
  <2>5. /\ f \in PlacedFrame /\ f.src = s /\ f.place = c[s] + 1
        /\ [t \in Sources |-> Len(offered'[t])] = d
    BY <1>0, <2>1, <2>2, <2>4, OfferedPlace
  <2>6. IsFifo(d, queue, streamed, m)
    <3>1. /\ f \in PlacedFrame /\ f.src = s /\ f.place = c[s] + 1
      BY <2>5
    <3> QED BY <1>1, <2>2, <2>3, <3>1, FifoGivenUp
  <2> QED BY <1>2, <2>4, <2>5, <2>6
<1>6. ASSUME NEW s \in Sources, DropOldest(s) PROVE FifoInv'
  <2>1. PICK f : f = Head(queue)
    OBVIOUS
  <2>2. PICK r : r = Tail(queue)
    OBVIOUS
  <2>3. PICK m : m = shed \cup {f}
    OBVIOUS
  <2>4. /\ queue' = r /\ shed' = m /\ streamed' = streamed /\ offered' = offered
        /\ Len(queue) = QueueSize
    BY <1>6, <2>1, <2>2, <2>3 DEF DropOldest
  <2>5. queue # <<>>
    <3>1. QueueSize # 0
      BY LiveAssumption
    <3> QED BY <2>4, <3>1
  <2>6. IsFifo(c, r, streamed, m)
    BY <1>1, <2>1, <2>2, <2>3, <2>5, FifoDropped
  <2>7. [s_1 \in Sources |-> Len(offered'[s_1])] = c
    BY <1>0, <2>4
  <2> QED BY <1>2, <2>4, <2>6, <2>7
<1>7. ASSUME NEW frame \in Range(queue), WriteFrame(frame) PROVE FifoInv'
  <2>1. PICK f : f = Head(queue)
    OBVIOUS
  <2>2. PICK r : r = Tail(queue)
    OBVIOUS
  <2>3. PICK s : s = f.src
    OBVIOUS
  <2>4. PICK v : v = [streamed EXCEPT ![s] = Append(streamed[s], f)]
    OBVIOUS
  <2>5. /\ queue # <<>> /\ queue' = r /\ streamed' = v /\ shed' = shed /\ offered' = offered
    BY <1>7, <2>1, <2>2, <2>3, <2>4 DEF WriteFrame
  <2>6. IsFifo(c, r, v, shed)
    BY <1>1, <2>1, <2>2, <2>3, <2>4, <2>5, FifoWritten
  <2>7. [t \in Sources |-> Len(offered'[t])] = c
    BY <1>0, <2>5
  <2> QED BY <1>2, <2>5, <2>6, <2>7
<1>8. ASSUME NEW s \in Sources, PollerStep(s) PROVE FifoInv'
  <2>1. CASE PollAnswers(s) \/ PollFails(s) \/ List(s) \/ Count(s) \/ EndPoller(s)
    BY <1>3, <2>1 DEF PollAnswers, PollFails, List, Count, EndPoller
  <2> QED BY <1>4, <1>5, <1>6, <1>8, <2>1 DEF PollerStep
<1>9. ASSUME NEW s \in Sources, Happens(s) \/ Outage(s) \/ Recovers(s) PROVE FifoInv'
  BY <1>3, <1>9 DEF Happens, Outage, Recovers
<1>10. CASE Hello \/ Close
  BY <1>3, <1>10 DEF Hello, Close, offerVars
<1>11. CASE UNCHANGED liveVars
  BY <1>3, <1>11 DEF liveVars
<1> QED BY <1>7, <1>8, <1>9, <1>10, <1>11 DEF LiveNext

LEMMA FifoInvariant == LiveSpec => []FifoInv
<1>1. LiveInit => FifoInv
  BY InitFifo
<1>2. TalkInv /\ FifoInv /\ [LiveNext]_liveVars => FifoInv'
  BY NextFifo
<1> QED BY <1>1, <1>2, TalkInvariant, PTL DEF LiveSpec

\* What the client has of a source or will get of it, and what it will not.
Mine(s) == streamed[s] \o Picked(queue, {i \in DOMAIN queue : queue[i].src = s})
LostOf(s) == {f.place : f \in {g \in shed : g.src = s}}

\* A frame a poller has offered is written, waits or was shed, exactly one of them, and the
\* client gets the frames of a source in the order they were offered, for any queue size,
\* any pollers and any interleaving of them with the handler (live.py:223-239).
THEOREM StreamKeepsOrder == LiveSpec => []StreamIsFifo
<1>1. ASSUME TalkInv, FifoInv PROVE StreamIsFifo
  <2> SUFFICES ASSUME NEW s \in Sources,
                      NEW mine, mine = Mine(s), NEW lost, lost = LostOf(s)
               PROVE  /\ \A i, j \in DOMAIN mine : i < j => mine[i].place < mine[j].place
                      /\ {f.place : f \in Range(mine)} \cup lost = 1..Len(offered[s])
                      /\ {f.place : f \in Range(mine)} \cap lost = {}
    BY DEF StreamIsFifo, Mine, LostOf
  <2>1. PICK w : w = streamed[s]
    OBVIOUS
  <2>2. PICK at : at = {i \in DOMAIN queue : queue[i].src = s}
    OBVIOUS
  <2>3. PICK p : p = Picked(queue, at)
    OBVIOUS
  <2>4. PICK c : c = [r \in Sources |-> Len(offered[r])]
    OBVIOUS
  <2>5. /\ PlacedAll(c, queue, streamed, shed) /\ Ordered(queue, streamed)
        /\ Somewhere(c, queue, streamed, shed)
    BY <1>1, <2>4 DEF FifoInv, IsFifo
  <2>6. /\ w \in Seq(PlacedFrame) /\ queue \in Seq(PlacedFrame) /\ shed \subseteq PlacedFrame
        /\ c[s] = Len(offered[s]) /\ c[s] \in Nat
    BY <2>1, <2>4, <2>5 DEF PlacedAll
  <2>7. PICK n : n = Len(w)
    OBVIOUS
  <2>8. PICK m : m = Len(p)
    OBVIOUS
  <2>9. at \in SUBSET (1..Len(queue)) /\ DOMAIN queue = 1..Len(queue)
    BY <2>2, <2>6, LenProperties
  <2>10. p \in Seq(PlacedFrame) /\ n \in Nat /\ m \in Nat
    <3>1. p \in Seq(PlacedFrame)
      BY <2>3, <2>6, <2>9, PickedOf
    <3> QED BY <2>6, <2>7, <2>8, <3>1, LenProperties
  <2>11. /\ mine \in Seq(PlacedFrame) /\ Len(mine) = n + m
         /\ \A i \in 1..n : mine[i] = w[i]
         /\ \A i \in 1..m : mine[n + i] = p[i]
    BY SMTT(30), <2>1, <2>2, <2>3, <2>6, <2>7, <2>8, <2>10, ConcatOf DEF Mine
  <2>12. PICK pos \in [1..m -> at] :
           /\ \A k \in 1..m : p[k] = queue[pos[k]]
           /\ \A k, l \in 1..m : k < l => pos[k] < pos[l]
           /\ \A i \in at : \E k \in 1..m : pos[k] = i
    <3>1. InOrder(p, queue, at)
      BY <2>3, <2>6, <2>9, PickedInOrder
    <3> QED BY <2>8, <3>1 DEF InOrder
  <2>13. \A k \in 1..m : pos[k] \in 1..Len(queue) /\ p[k] = queue[pos[k]] /\ p[k].src = s
    BY <2>2, <2>9, <2>12
  <2>14. \A i \in 1..(n + m) : i \in 1..n \/ \E k \in 1..m : i = n + k
    <3> SUFFICES ASSUME NEW i \in 1..(n + m), i \notin 1..n PROVE \E k \in 1..m : i = n + k
      OBVIOUS
    <3>1. i - n \in 1..m /\ i = n + (i - n)
      BY <2>10
    <3> QED BY <3>1
  <2>15. DOMAIN mine = 1..(n + m)
    BY <2>11, LenProperties
  <2>16. ASSUME NEW i \in 1..(n + m), NEW j \in 1..(n + m), i < j
         PROVE  mine[i].place < mine[j].place
    <3>1. CASE i \in 1..n /\ j \in 1..n
      <4>1. w[i].place < w[j].place
        BY <2>1, <2>5, <2>7, <2>16, <3>1 DEF Ordered
      <4> QED BY <2>11, <3>1, <4>1
    <3>2. CASE i \in 1..n /\ j \notin 1..n
      <4>1. PICK k \in 1..m : j = n + k
        BY <2>14, <3>2
      <4>2. w[i].place < queue[pos[k]].place
        BY <2>1, <2>5, <2>7, <2>13, <3>2 DEF Ordered
      <4> QED BY <2>11, <2>13, <3>2, <4>1, <4>2
    <3>3. CASE i \notin 1..n
      <4>1. PICK k \in 1..m : i = n + k
        BY <2>14, <3>3
      <4>2. j \notin 1..n
        BY <2>10, <2>16, <3>3
      <4>3. PICK l \in 1..m : j = n + l
        BY <2>14, <4>2
      <4>4. k < l
        BY <2>10, <2>16, <4>1, <4>3
      <4>5. pos[k] < pos[l]
        BY <2>12, <4>4
      <4>6. queue[pos[k]].place < queue[pos[l]].place
        BY <2>5, <2>13, <4>5 DEF Ordered
      <4> QED BY <2>11, <2>13, <4>1, <4>3, <4>6
    <3> QED BY <3>1, <3>2, <3>3
  <2>17. \A x \in Nat : (\E i \in 1..(n + m) : mine[i].place = x)
            <=> StreamedIn(w, x) \/ QueuedIn(queue, s, x)
    <3> SUFFICES ASSUME NEW x \in Nat
                 PROVE  (\E i \in 1..(n + m) : mine[i].place = x)
                          <=> StreamedIn(w, x) \/ QueuedIn(queue, s, x)
      OBVIOUS
    <3>1. ASSUME NEW i \in 1..(n + m), mine[i].place = x
          PROVE  StreamedIn(w, x) \/ QueuedIn(queue, s, x)
      <4>1. CASE i \in 1..n
        BY <2>7, <2>11, <3>1, <4>1 DEF StreamedIn
      <4>2. CASE i \notin 1..n
        <5>1. PICK k \in 1..m : i = n + k
          BY <2>14, <4>2
        <5> QED BY <2>11, <2>13, <3>1, <5>1 DEF QueuedIn
      <4> QED BY <4>1, <4>2
    <3>2. ASSUME NEW i \in 1..n, w[i].place = x PROVE \E k \in 1..(n + m) : mine[k].place = x
      <4>1. i \in 1..(n + m)
        BY <2>10
      <4> QED BY <2>11, <3>2, <4>1
    <3>3. ASSUME NEW i \in 1..Len(queue), queue[i].src = s, queue[i].place = x
          PROVE  \E k \in 1..(n + m) : mine[k].place = x
      <4>1. i \in at
        BY <2>2, <2>9, <3>3
      <4>2. PICK k \in 1..m : pos[k] = i
        BY <2>12, <4>1
      <4>3. n + k \in 1..(n + m)
        BY <2>10
      <4>4. mine[n + k] = queue[i]
        BY <2>11, <2>13, <4>2
      <4> QED BY <3>3, <4>3, <4>4
    <3> QED BY <2>7, <3>1, <3>2, <3>3 DEF StreamedIn, QueuedIn
  <2>18. {f.place : f \in Range(mine)} = {mine[i].place : i \in 1..(n + m)}
    BY <2>15 DEF Range
  <2>19. ASSUME NEW i \in 1..(n + m) PROVE mine[i].place \in Nat
    <3>1. mine[i] \in PlacedFrame
      BY <2>11, ElementOfSeq
    <3> QED BY <3>1, PlacedFacts
  <2>20. \A x \in lost : x \in Nat
    BY <2>6, PlacedFacts DEF LostOf
  <2>21. \A x : x \in lost <=> LostIn(shed, s, x)
    BY DEF LostOf, LostIn
  <2>22. \A x \in Nat :
           /\ x \in 1..Len(offered[s])
                <=> StreamedIn(w, x) \/ QueuedIn(queue, s, x) \/ LostIn(shed, s, x)
           /\ ~(LostIn(shed, s, x) /\ (StreamedIn(w, x) \/ QueuedIn(queue, s, x)))
    BY <2>1, <2>5, <2>6 DEF Somewhere
  <2>23. PICK got : got = {mine[i].place : i \in 1..(n + m)}
    OBVIOUS
  <2>24. \A x \in got : x \in Nat
    BY <2>19, <2>23
  <2>25. \A x \in Nat : x \in got <=> StreamedIn(w, x) \/ QueuedIn(queue, s, x)
    BY <2>17, <2>23
  <2>26. \A x \in 1..Len(offered[s]) : x \in Nat
    BY <2>6
  <2>27. got \cup lost = 1..Len(offered[s]) /\ got \cap lost = {}
    BY <2>20, <2>21, <2>22, <2>24, <2>25, <2>26
  <2> QED BY <2>15, <2>16, <2>18, <2>23, <2>27
<1> QED BY <1>1, TalkInvariant, FifoInvariant, PTL

---------------------------------------------------------------------------
(***************************************************************************)
(* Losses of the market data gateway, for any venues, any length of their  *)
(* sockets and any faults: a quote the gateway has read and not normalised *)
(* is one its tracker has reported as missing, or has yet to come to.      *)
(*                                                                         *)
(* What carries the argument is that a tracker never passes a number in    *)
(* silence; how the batch was lost plays no part.  The rest is types: what *)
(* is in the batch came off the wire of the venue it is filed under.       *)
(***************************************************************************)

Message == Feeds \X Int

FeedType ==
  /\ wire \in [Feeds -> Seq(Int)]
  /\ sent \in [Feeds -> Nat]
  /\ batch \in Seq(Message)
  /\ loop \in [at : {"boot", "poll", "emit"}, next : DOMAIN Venues]
  /\ loop.at = "emit" => batch # <<>>
  /\ trackers \in [Feeds -> Int]
  /\ received \in [Feeds -> SUBSET Int]
  /\ emitted \in [Feeds -> SUBSET Int]
  /\ jumped \in [Feeds -> SUBSET Int]

\* A tracker has seen every number up to its own, or has reported it.
NoneInSilence ==
  \A v \in Feeds : \A n \in 1..trackers[v] : n \in emitted[v] \cup jumped[v]

OnlyQuotesAreReceived == \A v \in Feeds : \A n \in received[v] : n > 0

FeedInv == FeedType /\ NoneInSilence /\ OnlyQuotesAreReceived

---------------------------------------------------------------------------
LEMMA VenuesFacts ==
  /\ Venues \in Seq(Feeds) /\ Len(Venues) \in Nat \ {0} /\ DOMAIN Venues = 1..Len(Venues)
  /\ \A i \in DOMAIN Venues : Venues[i] \in Feeds
<1>1. Venues \in Seq(Feeds) /\ Venues # <<>>
  BY FeedAssumption DEF ValidFeedConfig
<1> QED BY <1>1, EmptySeq, LenProperties

\* A wire that is written: its venue need not be known to be one of the feeds.
LEMMA WireType ==
  ASSUME wire \in [Feeds -> Seq(Int)], NEW c, NEW s \in Seq(Int),
         wire' = [wire EXCEPT ![c] = s]
  PROVE  wire' \in [Feeds -> Seq(Int)]
<1>1. wire' = [u \in Feeds |-> IF u = c THEN s ELSE wire[u]]
  OBVIOUS
<1>2. \A u \in Feeds : (IF u = c THEN s ELSE wire[u]) \in Seq(Int)
  OBVIOUS
<1> HIDE DEF Feeds
<1> QED BY <1>1, <1>2

LEMMA InitFeed == FeedInit => FeedInv
<1> SUFFICES ASSUME FeedInit PROVE FeedInv
  OBVIOUS
<1>1. FeedType
  BY VenuesFacts DEF FeedInit, FeedType
<1>2. NoneInSilence /\ OnlyQuotesAreReceived
  BY DEF FeedInit, NoneInSilence, OnlyQuotesAreReceived
<1> QED BY <1>1, <1>2 DEF FeedInv

\* The end of a venue's turn: the loop emits only a batch that is not empty.
LEMMA AdvanceType ==
  ASSUME FeedInv, loop.at # "emit", batch' \in Seq(Message), Advance(batch')
  PROVE  /\ loop' \in [at : {"boot", "poll", "emit"}, next : DOMAIN Venues]
         /\ loop'.at = "emit" => batch' # <<>>
<1>1. loop \in [at : {"boot", "poll", "emit"}, next : DOMAIN Venues]
  BY DEF FeedInv, FeedType
<1>2. CASE loop.next < Len(Venues)
  <2>1. loop' = [loop EXCEPT !.next = @ + 1]
    BY <1>2 DEF Advance
  <2>2. loop.next + 1 \in DOMAIN Venues
    BY <1>1, <1>2, VenuesFacts
  <2> QED BY <1>1, <2>1, <2>2
<1>3. CASE ~(loop.next < Len(Venues))
  <2>1. loop' = [at |-> IF batch' = <<>> THEN "poll" ELSE "emit", next |-> 1]
    BY <1>3 DEF Advance
  <2> QED BY <2>1, VenuesFacts
<1> QED BY <1>2, <1>3

LEMMA AbandonType ==
  ASSUME Abandon
  PROVE  /\ batch' \in Seq(Message)
         /\ loop' \in [at : {"boot", "poll", "emit"}, next : DOMAIN Venues]
         /\ loop'.at = "emit" => batch' # <<>>
BY VenuesFacts DEF Abandon

\* What the trackers have seen changes with Emit and Resync only.
LEMMA Undisturbed ==
  ASSUME FeedInv, UNCHANGED <<trackers, emitted, jumped>>
  PROVE  NoneInSilence'
BY DEF FeedInv, NoneInSilence

\* A chunk of frames read off the wire.
LEMMA PollFramesFeed ==
  ASSUME FeedInv, PollFrames
  PROVE  FeedInv'
<1> DEFINE v == Current
<1>1. loop.at = "poll" /\ v \in Feeds
  BY VenuesFacts DEF PollFrames, Polling, Current, FeedInv, FeedType
<1>2. UNCHANGED <<sent, trackers, emitted, jumped>>
  BY DEF PollFrames
<1> HIDE DEF v
<1>3. PICK n \in 1..Len(wire[v]) :
        LET frames == SubSeq(wire[v], 1, n) IN
        /\ wire' = [wire EXCEPT ![v] = IF Contains(frames, Oversize) THEN <<>>
                                       ELSE SubSeq(@, n + 1, Len(@))]
        /\ received' = [received EXCEPT ![v] = @ \cup {f \in Range(frames) : f > 0}]
        /\ IF Contains(frames, Oversize) THEN Advance(batch) /\ UNCHANGED batch
           ELSE IF Contains(frames, Malformed) THEN Abandon
           ELSE LET more == batch \o [i \in DOMAIN frames |-> <<v, frames[i]>>] IN
                batch' = more /\ Advance(more)
  BY DEF PollFrames, v
<1> DEFINE frames == SubSeq(wire[v], 1, n)
<1>4. frames \in Seq(Int) /\ SubSeq(wire[v], n + 1, Len(wire[v])) \in Seq(Int)
  BY <1>1 DEF FeedInv, FeedType
<1> HIDE DEF frames
<1>5. wire' \in [Feeds -> Seq(Int)]
  <2>1. wire[v] \in Seq(Int) /\ wire \in [Feeds -> Seq(Int)]
    BY <1>1 DEF FeedInv, FeedType
  <2>2. PICK s \in Seq(Int) : wire' = [wire EXCEPT ![v] = s]
    <3>1. CASE Contains(frames, Oversize)
      BY <1>3, <3>1, EmptySeq DEF frames
    <3>2. CASE ~Contains(frames, Oversize)
      BY <1>3, <1>4, <3>2 DEF frames
    <3> QED BY <3>1, <3>2
  <2> QED BY <2>1, <2>2, WireType
<1>6. received' \in [Feeds -> SUBSET Int] /\ OnlyQuotesAreReceived'
  <2>1. Range(frames) \subseteq Int
    BY <1>4 DEF Range
  <2>2. received' = [received EXCEPT ![v] = @ \cup {f \in Range(frames) : f > 0}]
    BY <1>3 DEF frames
  <2> QED BY <1>1, <2>1, <2>2 DEF FeedInv, FeedType, OnlyQuotesAreReceived
<1>7. /\ batch' \in Seq(Message)
      /\ loop' \in [at : {"boot", "poll", "emit"}, next : DOMAIN Venues]
      /\ loop'.at = "emit" => batch' # <<>>
  <2>0. batch \in Seq(Message) /\ loop.at # "emit"
    BY <1>1 DEF FeedInv, FeedType
  <2>1. CASE Contains(frames, Oversize)
    <3>1. batch' = batch /\ Advance(batch')
      BY <1>3, <2>1 DEF frames
    <3> QED BY <2>0, <3>1, AdvanceType
  <2>2. CASE ~Contains(frames, Oversize) /\ Contains(frames, Malformed)
    <3>1. Abandon
      BY <1>3, <2>2 DEF frames
    <3> QED BY <3>1, AbandonType
  <2>3. CASE ~Contains(frames, Oversize) /\ ~Contains(frames, Malformed)
    <3> DEFINE tagged == [i \in DOMAIN frames |-> <<v, frames[i]>>]
    <3>1. batch' = batch \o tagged /\ Advance(batch')
      BY <1>3, <2>3 DEF frames
    <3>2. tagged \in Seq(Message)
      <4>1. DOMAIN frames = 1..Len(frames) /\ Len(frames) \in Nat
        BY <1>4, LenProperties
      <4>2. \A i \in 1..Len(frames) : <<v, frames[i]>> \in Message
        BY <1>1, <1>4 DEF Message
      <4>3. tagged \in [1..Len(frames) -> Message]
        BY <4>1, <4>2
      <4> QED BY <4>1, <4>3, SeqDef
    <3> HIDE DEF tagged
    <3>3. batch' \in Seq(Message)
      BY <2>0, <3>1, <3>2, ConcatProperties
    <3> QED BY <2>0, <3>1, <3>3, AdvanceType
  <2> QED BY <2>1, <2>2, <2>3
<1>8. FeedType'
  BY <1>2, <1>5, <1>6, <1>7 DEF FeedInv, FeedType
<1> QED BY <1>2, <1>6, <1>8, Undisturbed DEF FeedInv

\* A message of the batch is normalised: the numbers its tracker skips are reported.
LEMMA EmitFeed ==
  ASSUME FeedInv, Emit
  PROVE  FeedInv'
<1> DEFINE v == Head(batch)[1]
           seq == Head(batch)[2]
<1>0. /\ loop.at = "emit" /\ batch' = Tail(batch) /\ UNCHANGED <<wire, sent, received>>
      /\ loop' = IF Len(batch) = 1 THEN [at |-> "poll", next |-> 1] ELSE loop
      /\ IF seq = Heartbeat THEN UNCHANGED <<trackers, gaps, jumped, emitted>>
         ELSE /\ Observe(v, seq)
              /\ emitted' = [emitted EXCEPT ![v] = @ \cup {seq}]
  BY DEF Emit
<1>1. batch \in Seq(Message) /\ batch # <<>>
  BY <1>0 DEF FeedInv, FeedType
<1>2. v \in Feeds /\ seq \in Int
  BY <1>1, HeadTailProperties DEF Message
<1>3. batch' \in Seq(Message) /\ Len(batch') = Len(batch) - 1
  BY <1>0, <1>1, HeadTailProperties
<1>4. /\ loop' \in [at : {"boot", "poll", "emit"}, next : DOMAIN Venues]
      /\ loop'.at = "emit" => batch' # <<>>
  <2>1. loop \in [at : {"boot", "poll", "emit"}, next : DOMAIN Venues]
    BY DEF FeedInv, FeedType
  <2>2. CASE Len(batch) = 1
    BY <1>0, <2>2, VenuesFacts
  <2>3. CASE Len(batch) # 1
    <3>1. Len(batch') # 0
      BY <1>1, <1>3, <2>3, LenProperties
    <3> QED BY <1>0, <2>1, <2>3, <3>1
  <2> QED BY <2>2, <2>3
<1>5. /\ trackers \in [Feeds -> Int] /\ emitted \in [Feeds -> SUBSET Int]
      /\ jumped \in [Feeds -> SUBSET Int]
  BY DEF FeedInv, FeedType
<1> HIDE DEF v, seq
<1>6. CASE seq = Heartbeat
  <2>1. UNCHANGED <<trackers, jumped, emitted>>
    BY <1>0, <1>6
  <2>2. FeedType'
    BY <1>0, <1>3, <1>4, <2>1 DEF FeedInv, FeedType
  <2> QED BY <1>0, <2>1, <2>2, Undisturbed DEF FeedInv, OnlyQuotesAreReceived
<1>7. CASE seq # Heartbeat
  <2>1. /\ trackers' = [trackers EXCEPT ![v] = Max({@, seq})]
        /\ jumped' = [jumped EXCEPT ![v] = @ \cup (trackers[v] + 1)..(seq - 1)]
        /\ emitted' = [emitted EXCEPT ![v] = @ \cup {seq}]
    BY <1>0, <1>7 DEF Observe
  <2>2. trackers[v] \in Int /\ trackers'[v] \in {trackers[v], seq}
    BY <1>2, <1>5, <2>1, MaxOfTwo
  <2>3. /\ trackers' \in [Feeds -> Int] /\ emitted' \in [Feeds -> SUBSET Int]
        /\ jumped' \in [Feeds -> SUBSET Int]
        /\ jumped'[v] = jumped[v] \cup (trackers[v] + 1)..(seq - 1)
        /\ emitted'[v] = emitted[v] \cup {seq}
        /\ \A u \in Feeds \ {v} : trackers'[u] = trackers[u] /\ jumped'[u] = jumped[u]
                                  /\ emitted'[u] = emitted[u]
    BY <1>2, <1>5, <2>1, <2>2
  <2>4. FeedType'
    BY <1>0, <1>3, <1>4, <2>3 DEF FeedInv, FeedType
  <2>5. ASSUME NEW n \in 1..trackers'[v] PROVE n \in emitted'[v] \cup jumped'[v]
    <3>1. CASE n \in 1..trackers[v]
      BY <1>2, <2>3, <3>1 DEF FeedInv, NoneInSilence
    <3>2. CASE n \notin 1..trackers[v]
      <4>1. trackers'[v] = seq /\ (n = seq \/ n \in (trackers[v] + 1)..(seq - 1))
        BY <1>2, <2>2, <2>5, <3>2
      <4> QED BY <2>3, <4>1
    <3> QED BY <3>1, <3>2
  <2>6. NoneInSilence'
    BY <1>2, <2>3, <2>5 DEF FeedInv, NoneInSilence
  <2> QED BY <1>0, <2>4, <2>6 DEF FeedInv, OnlyQuotesAreReceived
<1> QED BY <1>6, <1>7

LEMMA NextFeed == FeedInv /\ [FeedNext]_feedVars => FeedInv'
<1> SUFFICES ASSUME FeedInv, [FeedNext]_feedVars PROVE FeedInv'
  OBVIOUS
\* A step that reads and normalises nothing keeps the invariant if it keeps the types
\* of what it writes: the wires, and the batch with the place of the loop.
<1>0. ASSUME UNCHANGED <<trackers, received, emitted, jumped>>,
             wire' \in [Feeds -> Seq(Int)], sent' \in [Feeds -> Nat],
             batch' \in Seq(Message),
             loop' \in [at : {"boot", "poll", "emit"}, next : DOMAIN Venues],
             loop'.at = "emit" => batch' # <<>>
      PROVE  FeedInv'
  <2>1. FeedType'
    BY <1>0 DEF FeedInv, FeedType
  <2> QED BY <1>0, <2>1, Undisturbed DEF FeedInv, OnlyQuotesAreReceived
<1>1. ASSUME NEW v \in Feeds, VenueQuotes(v) PROVE FeedInv'
  <2>1. wire' \in [Feeds -> Seq(Int)] /\ sent' \in [Feeds -> Nat]
    <3>1. wire \in [Feeds -> Seq(Int)] /\ sent \in [Feeds -> Nat]
      BY DEF FeedInv, FeedType
    <3>2. sent' = [sent EXCEPT ![v] = @ + 1]
      BY <1>1 DEF VenueQuotes
    <3>3. wire' = wire \/ wire' = [wire EXCEPT ![v] = Append(wire[v], sent[v] + 1)]
      BY <1>1 DEF VenueQuotes
    <3>4. Append(wire[v], sent[v] + 1) \in Seq(Int)
      BY <3>1, AppendProperties
    <3>5. sent' \in [Feeds -> Nat]
      BY <3>1, <3>2
    <3> QED BY <3>1, <3>3, <3>4, <3>5, WireType
  <2> QED BY <1>0, <1>1, <2>1 DEF VenueQuotes, FeedInv, FeedType
<1>2. ASSUME NEW v \in Feeds, NEW f \in {Heartbeat, Malformed, Oversize} \cup 1..sent[v],
             VenueSends(v, f)
      PROVE  FeedInv'
  <2>1. f \in Int
    BY <1>2 DEF Heartbeat, Malformed, Oversize
  <2>2. wire' \in [Feeds -> Seq(Int)]
    BY <1>2, <2>1 DEF VenueSends, FeedInv, FeedType
  <2> QED BY <1>0, <1>2, <2>2 DEF VenueSends, FeedInv, FeedType
<1>3. ASSUME NEW v \in Feeds, VenueDrops(v) PROVE FeedInv'
  BY <1>0, <1>3 DEF VenueDrops, FeedInv, FeedType
<1>4. ASSUME Connected \/ ConnectFailed PROVE FeedInv'
  <2>1. /\ wire' = [wire EXCEPT ![Current] = <<>>] /\ batch' = batch /\ Advance(batch')
        /\ loop.at # "emit" /\ UNCHANGED <<sent, trackers, received, emitted, jumped>>
    BY <1>4 DEF Connected, ConnectFailed, Connecting
  <2>2. wire' \in [Feeds -> Seq(Int)]
    BY <2>1, EmptySeq, WireType DEF FeedInv, FeedType
  <2>3. batch' \in Seq(Message) /\ sent' \in [Feeds -> Nat]
    BY <2>1 DEF FeedInv, FeedType
  <2> QED BY <1>0, <2>1, <2>2, <2>3, AdvanceType
<1>5. ASSUME AuthRejected \/ PollNothing \/ PollTimesOut \/ PollEndOfStream PROVE FeedInv'
  <2>1. /\ wire' = wire /\ batch' = batch /\ Advance(batch')
        /\ loop.at # "emit" /\ UNCHANGED <<sent, trackers, received, emitted, jumped>>
    BY <1>5 DEF AuthRejected, PollNothing, PollTimesOut, PollEndOfStream, Connecting, Polling
  <2>2. wire' \in [Feeds -> Seq(Int)] /\ batch' \in Seq(Message) /\ sent' \in [Feeds -> Nat]
    BY <2>1 DEF FeedInv, FeedType
  <2> QED BY <1>0, <2>1, <2>2, AdvanceType
<1>6. ASSUME SubscriptionRejected \/ PollReset PROVE FeedInv'
  <2>1. Abandon /\ UNCHANGED <<sent, trackers, received, emitted, jumped>>
    BY <1>6 DEF SubscriptionRejected, PollReset
  <2>2. \/ wire' = wire
        \/ wire' = [wire EXCEPT ![Current] = <<>>]
        \/ wire' = [u \in Feeds |-> <<>>]
    BY <1>6 DEF SubscriptionRejected, PollReset, RestartedProcess
  <2>3. wire' \in [Feeds -> Seq(Int)]
    <3>1. wire \in [Feeds -> Seq(Int)] /\ <<>> \in Seq(Int)
      BY EmptySeq DEF FeedInv, FeedType
    <3>2. CASE wire' = wire
      BY <3>1, <3>2
    <3>3. CASE wire' = [wire EXCEPT ![Current] = <<>>]
      BY <3>1, <3>3, WireType
    <3>4. CASE wire' = [u \in Feeds |-> <<>>]
      BY <3>1, <3>4
    <3> QED BY <2>2, <3>2, <3>3, <3>4
  <2>4. sent' \in [Feeds -> Nat]
    BY <2>1 DEF FeedInv, FeedType
  <2> QED BY <1>0, <2>1, <2>3, <2>4, AbandonType
<1>7. ASSUME Resync PROVE FeedInv'
  <2>1. /\ trackers' = [v \in Feeds |-> 0]
        /\ UNCHANGED <<wire, sent, loop, batch, received, emitted, jumped>>
    BY <1>7 DEF Resync
  <2>2. FeedType' /\ OnlyQuotesAreReceived'
    BY <2>1 DEF FeedInv, FeedType, OnlyQuotesAreReceived
  <2>3. NoneInSilence'
    BY <2>1 DEF NoneInSilence
  <2> QED BY <2>2, <2>3 DEF FeedInv
<1>8. ASSUME UNCHANGED feedVars PROVE FeedInv'
  BY <1>0, <1>8 DEF feedVars, FeedInv, FeedType
<1> QED
  BY <1>1, <1>2, <1>3, <1>4, <1>5, <1>6, <1>7, <1>8, PollFramesFeed, EmitFeed
  DEF FeedNext, Loop

\* What the gateway loses of the quotes it has read shows as a gap in their numbers
\* (feed_client.py:484, models.py:230).
THEOREM LossShows == FeedSpec => []LossIsSeenAsGap
<1>1. FeedInv => LossIsSeenAsGap
  <2> SUFFICES ASSUME FeedInv, NEW v \in Feeds, NEW n \in received[v] \ emitted[v]
               PROVE  n > trackers[v] \/ n \in jumped[v]
    BY DEF LossIsSeenAsGap
  <2>1. n \in Int /\ n > 0 /\ trackers[v] \in Int
    BY DEF FeedInv, FeedType, OnlyQuotesAreReceived
  <2>2. n \in 1..trackers[v] => n \in emitted[v] \cup jumped[v]
    BY DEF FeedInv, NoneInSilence
  <2> QED BY <2>1, <2>2
<1> QED BY InitFeed, NextFeed, <1>1, PTL DEF FeedSpec

---------------------------------------------------------------------------
(***************************************************************************)
(* The quote buffer of S1, for any capacity, any number of draining        *)
(* threads and any interleaving of their unlocked reads with the           *)
(* producer's unlocked stores: nothing published is lost uncounted.        *)
(*                                                                         *)
(* Every slot is located by how far the head is ahead of it, which says    *)
(* which item it holds: the unread slots hold the newest items, in order,  *)
(* and a slot that is held holds an older one, until it is lapped.         *)
(***************************************************************************)

\* How many slots the head is ahead of the tail, and of a slot.
Waiting == IF head >= tail THEN head - tail ELSE head - tail + Capacity
Behind(s) == IF head > s THEN head - s ELSE head - s + Capacity

Busy == {c \in Consumers : drains[c].at \in {"read", "clear"}}

\* What a busy consumer hands out.
ItemOf(c) == IF drains[c].at = "read" THEN items[drains[c].slot] ELSE drains[c].item

RingType ==
  /\ items \in [Slots -> Nat]
  /\ head \in Slots /\ tail \in Slots
  /\ written \in Nat /\ dropped \in Nat
  /\ producer \in {"idle", "store", "publish"}
  /\ drains \in [Consumers -> [at : {"idle", "read", "clear"}, slot : Slots, item : Nat, count : Nat]]
  /\ lapped \in BOOLEAN

\* The unread slots hold the newest items, and there is room for the one on its way.
UnreadAreNewest ==
  /\ Waiting <= written
  /\ producer # "idle" => Waiting <= Capacity - 2
  /\ \A s \in Slots : Behind(s) <= Waiting => items[s] = written + 1 - Behind(s)
  /\ producer = "publish" => items[head] = written + 1

\* A slot that is held has left the unread ones, holds the item it held then, is held by
\* one consumer, and is not the one just stored.
HeldAreOlder ==
  /\ \A c \in Busy :
       LET s == drains[c].slot IN
       /\ Waiting < Behind(s) /\ Behind(s) <= written
       /\ ItemOf(c) = written + 1 - Behind(s)
       /\ producer = "publish" => s # head
  /\ \A c, d \in Busy : c # d => drains[c].slot # drains[d].slot

\* What is no longer unread is in one of three places, and nothing is in two.
GoneIsAccounted ==
  /\ dropped = Cardinality(overflowed)
  /\ 1..(written - Waiting) = {ItemOf(c) : c \in Busy} \cup delivered \cup overflowed
  /\ delivered \cap overflowed = {}
  /\ \A c \in Busy : ItemOf(c) \notin delivered \cup overflowed

RingInv == RingType /\ (~lapped => UnreadAreNewest /\ HeldAreOlder /\ GoneIsAccounted)

---------------------------------------------------------------------------
LEMMA CapacityType == Capacity \in Nat /\ Slots = 0..(Capacity - 1)
BY RingAssumption DEF Slots

LEMMA ModOnce ==
  ASSUME NEW c \in Nat \ {0}, NEW x \in Int
  PROVE  /\ 0 <= x /\ x < c => x % c = x
         /\ c <= x /\ x < 2 * c => x % c = x - c
         /\ -c <= x /\ x < 0 => x % c = x + c
OBVIOUS

LEMMA AfterIs ==
  ASSUME Capacity > 1, NEW s \in Slots
  PROVE  After(s) = IF s = Capacity - 1 THEN 0 ELSE s + 1
<1>1. Capacity \in Nat \ {0} /\ s + 1 \in Int /\ 0 <= s + 1 /\ s + 1 <= Capacity
  BY CapacityType
<1>2. s + 1 < Capacity => (s + 1) % Capacity = s + 1
  BY <1>1, ModOnce
<1>3. s + 1 = Capacity => (s + 1) % Capacity = 0
  BY <1>1, ModOnce
<1> QED BY <1>1, <1>2, <1>3, CapacityType DEF After

LEMMA BehindType ==
  ASSUME RingType
  PROVE  /\ Waiting \in 0..(Capacity - 1)
         /\ \A s \in Slots : Behind(s) \in 1..Capacity
         /\ \A s, u \in Slots : Behind(s) = Behind(u) => s = u
         /\ Waiting > 0 => Behind(tail) = Waiting
         /\ Waiting = 0 <=> tail = head
BY CapacityType DEF RingType, Waiting, Behind

LEMMA InitRing == Capacity > 1 /\ RingInit => RingInv
<1> SUFFICES ASSUME Capacity > 1, RingInit PROVE RingInv
  OBVIOUS
<1>1. RingType
  <2>1. 0 \in Slots /\ 0 \in Nat
    BY CapacityType
  <2>2. items \in [Slots -> Nat] /\ head \in Slots /\ tail \in Slots
    BY <2>1 DEF RingInit
  <2>3. drains \in [Consumers -> [at : {"idle", "read", "clear"}, slot : Slots, item : Nat, count : Nat]]
    BY <2>1 DEF RingInit, Idle
  <2> QED BY <2>1, <2>2, <2>3 DEF RingInit, RingType
<1>2. Waiting = 0 /\ Busy = {} /\ written = 0 /\ dropped = 0 /\ delivered = {} /\ overflowed = {}
      /\ producer = "idle"
  BY DEF RingInit, Waiting, Busy, Idle
<1>3. UnreadAreNewest
  BY <1>1, <1>2, BehindType DEF UnreadAreNewest
<1>4. HeldAreOlder
  BY <1>2 DEF HeldAreOlder
<1>5. GoneIsAccounted
  BY <1>2, FS_EmptySet DEF GoneIsAccounted
<1> QED BY <1>1, <1>3, <1>4, <1>5 DEF RingInv

\* How the head and the tail move.
LEMMA TailMoves ==
  ASSUME Capacity > 1, RingType, tail' = After(tail), head' = head, tail # head
  PROVE  /\ Waiting' = Waiting - 1
         /\ \A s : Behind(s)' = Behind(s)
<1>1. Capacity \in Nat /\ head \in 0..(Capacity - 1) /\ tail \in 0..(Capacity - 1)
  BY CapacityType DEF RingType
<1>2. tail' = IF tail = Capacity - 1 THEN 0 ELSE tail + 1
  BY AfterIs DEF RingType
<1> QED BY <1>1, <1>2 DEF Waiting, Behind

LEMMA HeadMoves ==
  ASSUME Capacity > 1, RingType, head' = After(head), tail' = tail, Waiting <= Capacity - 2
  PROVE  /\ Waiting' = Waiting + 1
         /\ \A s \in Slots : Behind(s)' = IF s = head THEN 1 ELSE Behind(s) + 1
<1>1. Capacity \in Nat /\ head \in 0..(Capacity - 1) /\ tail \in 0..(Capacity - 1)
      /\ Slots = 0..(Capacity - 1)
  BY CapacityType DEF RingType
<1>2. head' = IF head = Capacity - 1 THEN 0 ELSE head + 1
  BY AfterIs DEF RingType
<1>3. Waiting' = Waiting + 1
  BY <1>1, <1>2 DEF Waiting
<1>4. ASSUME NEW s \in Slots
      PROVE  Behind(s)' = IF s = head THEN 1 ELSE Behind(s) + 1
  BY <1>1, <1>2 DEF Behind
<1> QED BY <1>3, <1>4

\* What the accounting of an inductive state gives.
LEMMA GoneFacts ==
  ASSUME RingType, UnreadAreNewest, GoneIsAccounted
  PROVE  /\ Waiting \in Nat /\ written - Waiting \in Nat
         /\ overflowed \subseteq 1..(written - Waiting) /\ IsFiniteSet(overflowed)
         /\ delivered \subseteq 1..(written - Waiting) /\ IsFiniteSet(delivered)
<1>1. Waiting \in Nat /\ written - Waiting \in Nat
  BY SMTT(30), BehindType, CapacityType DEF RingType, UnreadAreNewest
<1>2. IsFiniteSet(1..(written - Waiting))
  <2>1. written - Waiting \in Int /\ 1 \in Int
    BY <1>1
  <2> QED BY <2>1, FS_Interval
<1>3. overflowed \subseteq 1..(written - Waiting) /\ delivered \subseteq 1..(written - Waiting)
  BY DEF GoneIsAccounted
<1> QED BY <1>1, <1>2, <1>3, FS_Subset

LEMMA MakeRoomRing ==
  ASSUME Capacity > 1, RingInv, MakeRoom
  PROVE  RingInv'
<1>0. /\ RingType /\ lapped' = lapped /\ UNCHANGED <<head, written, drains, delivered>>
      /\ producer = "idle" /\ producer' = "store" /\ Busy' = Busy
  BY DEF RingInv, MakeRoom, Busy
<1>1. /\ Capacity \in Nat /\ Slots = 0..(Capacity - 1) /\ head \in Slots /\ tail \in Slots
      /\ After(head) = IF head = Capacity - 1 THEN 0 ELSE head + 1
  BY <1>0, CapacityType, AfterIs DEF RingType
<1>2. After(head) = tail <=> Waiting = Capacity - 1
  BY <1>1 DEF Waiting
<1>3. CASE After(head) # tail
  <2>1. UNCHANGED <<items, overflowed, tail, dropped>>
    BY <1>3 DEF MakeRoom
  <2>2. /\ Waiting' = Waiting /\ (\A s : Behind(s)' = Behind(s)) /\ (\A c : ItemOf(c)' = ItemOf(c))
    BY <1>0, <2>1 DEF Waiting, Behind, ItemOf
  <2>3. RingType'
    BY <1>0, <2>1 DEF RingType
  <2>4. Waiting <= Capacity - 2
    BY <1>0, <1>1, <1>2, <1>3, BehindType
  <2>5. ASSUME ~lapped PROVE UnreadAreNewest' /\ HeldAreOlder' /\ GoneIsAccounted'
    <3>1. UnreadAreNewest'
      BY <1>0, <2>1, <2>2, <2>4, <2>5 DEF RingInv, UnreadAreNewest
    <3>2. HeldAreOlder'
      BY <1>0, <2>2, <2>5 DEF RingInv, HeldAreOlder
    <3>3. GoneIsAccounted'
      BY <1>0, <2>1, <2>2, <2>5 DEF RingInv, GoneIsAccounted
    <3> QED BY <3>1, <3>2, <3>3
  <2> QED BY <1>0, <2>3, <2>5 DEF RingInv
<1>4. CASE After(head) = tail
  <2>1. /\ items' = [items EXCEPT ![tail] = 0] /\ tail' = After(tail) /\ dropped' = dropped + 1
        /\ overflowed' = overflowed \cup ({items[tail]} \ {0})
    BY <1>4 DEF MakeRoom
  <2>2. Waiting = Capacity - 1 /\ Waiting > 0 /\ tail # head
    BY <1>0, <1>1, <1>2, <1>4, BehindType
  <2>3. Waiting' = Waiting - 1 /\ \A s : Behind(s)' = Behind(s)
    BY <1>0, <2>1, <2>2, TailMoves
  <2>4. After(tail) \in Slots
    BY <1>1, AfterIs
  <2>5. RingType'
    <3>1. items' \in [Slots -> Nat]
      BY <1>0, <2>1 DEF RingType
    <3> QED BY <1>0, <2>1, <2>4, <3>1 DEF RingType
  <2>6. ASSUME ~lapped PROVE UnreadAreNewest' /\ HeldAreOlder' /\ GoneIsAccounted'
    <3>0. UnreadAreNewest /\ HeldAreOlder /\ GoneIsAccounted
      BY <2>6 DEF RingInv
    <3>1. /\ Behind(tail) = Waiting /\ Waiting \in Nat
          /\ \A s \in Slots : Behind(s) \in 1..Capacity /\ (Behind(s) = Waiting => s = tail)
      BY <1>0, <1>1, <2>2, BehindType
    <3>2. /\ \A s \in Slots \ {tail} : items'[s] = items[s]
          /\ items[tail] = written + 1 - Waiting /\ items[tail] > 0
      <4>1. items \in [Slots -> Nat] /\ written \in Nat
        BY <1>0 DEF RingType
      <4>2. Waiting <= written /\ items[tail] = written + 1 - Behind(tail)
        BY <1>1, <3>0, <3>1 DEF UnreadAreNewest
      <4> QED BY <1>1, <2>1, <3>1, <4>1, <4>2
    <3>3. UnreadAreNewest'
      <4>1. Waiting' <= written' /\ Waiting' <= Capacity - 2
        <5>1. Waiting <= written /\ written \in Nat
          BY <1>0, <3>0 DEF UnreadAreNewest, RingType
        <5> QED BY <1>0, <1>1, <2>2, <2>3, <3>1, <5>1
      <4>2. ASSUME NEW s \in Slots, Behind(s) <= Waiting - 1
            PROVE  items'[s] = written + 1 - Behind(s)
        <5>1. Behind(s) <= Waiting /\ s # tail
          BY <3>1, <4>2
        <5> QED BY <3>0, <3>2, <5>1 DEF UnreadAreNewest
      <4> QED BY <1>0, <2>3, <4>1, <4>2 DEF UnreadAreNewest
    <3>4. \A c \in Busy : drains[c].slot \in Slots \ {tail} /\ ItemOf(c)' = ItemOf(c)
      <4> SUFFICES ASSUME NEW c \in Busy PROVE drains[c].slot \in Slots \ {tail} /\ ItemOf(c)' = ItemOf(c)
        OBVIOUS
      <4>1. drains[c].slot \in Slots
        BY <1>0 DEF RingType, Busy
      <4>2. Waiting < Behind(drains[c].slot)
        BY <3>0 DEF HeldAreOlder
      <4>3. drains[c].slot # tail
        BY <3>1, <4>2
      <4> QED BY <1>0, <3>2, <4>1, <4>3 DEF ItemOf
    <3>5. HeldAreOlder'
      <4>1. ASSUME NEW c \in Busy
            PROVE  /\ Waiting' < Behind(drains[c].slot) /\ Behind(drains[c].slot) <= written
                   /\ ItemOf(c) = written + 1 - Behind(drains[c].slot)
        BY <2>3, <3>0, <3>1, <3>4 DEF HeldAreOlder
      <4>2. \A c, d \in Busy : c # d => drains[c].slot # drains[d].slot
        BY <3>0 DEF HeldAreOlder
      <4> QED BY <1>0, <2>3, <3>4, <4>1, <4>2 DEF HeldAreOlder
    <3>6. GoneIsAccounted'
      <4> DEFINE w == items[tail]
      <4>1. /\ written - Waiting \in Nat /\ overflowed \subseteq 1..(written - Waiting)
            /\ IsFiniteSet(overflowed) /\ delivered \subseteq 1..(written - Waiting)
        BY <1>0, <3>0, GoneFacts
      <4>2. overflowed' = overflowed \cup {w} /\ w = written - Waiting + 1 /\ written \in Nat
        BY <1>0, <2>1, <3>2, <3>1 DEF RingType
      <4>3. w \notin 1..(written - Waiting) /\ written' - Waiting' = w /\ w \in Nat
        BY <1>0, <2>3, <3>1, <4>1, <4>2
      <4>4. 1..w = 1..(written - Waiting) \cup {w}
        BY <4>1, <4>2
      <4>5. dropped' = Cardinality(overflowed')
        <5>1. w \notin overflowed
          BY <4>1, <4>3
        <5>2. Cardinality(overflowed \cup {w}) = Cardinality(overflowed) + 1
          BY <4>1, <5>1, FS_AddElement
        <5>3. dropped = Cardinality(overflowed)
          BY <3>0 DEF GoneIsAccounted
        <5> QED BY <2>1, <4>2, <5>2, <5>3
      <4>6. {ItemOf(c) : c \in Busy}' = {ItemOf(c) : c \in Busy}
        BY <1>0, <3>4
      <4>7. 1..(written' - Waiting') = {ItemOf(c) : c \in Busy} \cup delivered \cup overflowed'
        BY <3>0, <4>2, <4>3, <4>4 DEF GoneIsAccounted
      <4>8. \A c \in Busy : ItemOf(c) \in 1..(written - Waiting) /\ ItemOf(c) # w
        BY <3>0, <4>3 DEF GoneIsAccounted
      <4>9. delivered \cap overflowed' = {} /\ \A c \in Busy : ItemOf(c) \notin delivered \cup overflowed'
        BY <3>0, <4>1, <4>2, <4>3, <4>8 DEF GoneIsAccounted
      <4> QED BY <1>0, <3>4, <4>5, <4>6, <4>7, <4>9 DEF GoneIsAccounted
    <3> QED BY <3>3, <3>5, <3>6
  <2> QED BY <1>0, <2>5, <2>6 DEF RingInv
<1> QED BY <1>3, <1>4

LEMMA StoreRing ==
  ASSUME Capacity > 1, RingInv, Store
  PROVE  RingInv'
<1>0. /\ RingType /\ producer = "store" /\ producer' = "publish"
      /\ items' = [items EXCEPT ![head] = written + 1]
      /\ lapped' = (lapped \/ \E c \in Consumers : Holds(c, head))
      /\ UNCHANGED <<head, tail, written, dropped, drains, delivered, overflowed>>
      /\ Busy' = Busy
  BY DEF RingInv, Store, Busy
<1>1. Waiting' = Waiting /\ \A s : Behind(s)' = Behind(s)
  BY <1>0 DEF Waiting, Behind
<1>2. /\ items' \in [Slots -> Nat] /\ items'[head] = written + 1 /\ lapped' \in BOOLEAN
      /\ \A s \in Slots \ {head} : items'[s] = items[s]
  BY <1>0 DEF RingType
<1>3. RingType'
  BY <1>0, <1>2 DEF RingType
<1>4. ASSUME ~lapped' PROVE UnreadAreNewest' /\ HeldAreOlder' /\ GoneIsAccounted'
  <2>0. UnreadAreNewest /\ HeldAreOlder /\ GoneIsAccounted
    BY <1>0, <1>4 DEF RingInv
  <2>1. \A c \in Busy : drains[c].slot \in Slots \ {head} /\ ItemOf(c)' = ItemOf(c)
    <3>1. \A c \in Busy : drains[c].slot # head
      BY <1>0, <1>4 DEF Busy, Holds
    <3>2. \A c \in Busy : drains[c].slot \in Slots
      BY <1>0 DEF RingType, Busy
    <3> QED BY <1>0, <1>2, <3>1, <3>2 DEF ItemOf
  <2>2. Behind(head) = Capacity /\ Capacity \in Nat /\ Waiting \in Nat /\ Waiting <= Capacity - 2
    <3>1. Waiting <= Capacity - 2
      BY <1>0, <2>0 DEF UnreadAreNewest
    <3> QED BY <1>0, <3>1, CapacityType, BehindType DEF Behind, RingType
  <2>3. UnreadAreNewest'
    <3>1. ASSUME NEW s \in Slots, Behind(s) <= Waiting PROVE items'[s] = written + 1 - Behind(s)
      <4>1. s # head
        BY <2>2, <3>1
      <4> QED BY <1>2, <2>0, <3>1, <4>1 DEF UnreadAreNewest
    <3>2. Waiting <= written
      BY <2>0 DEF UnreadAreNewest
    <3> QED BY <1>0, <1>1, <1>2, <2>2, <3>1, <3>2 DEF UnreadAreNewest
  <2>4. HeldAreOlder'
    BY <1>0, <1>1, <2>0, <2>1 DEF HeldAreOlder
  <2>5. {ItemOf(c) : c \in Busy}' = {ItemOf(c) : c \in Busy}
    BY <1>0, <2>1
  <2>6. GoneIsAccounted'
    BY <1>0, <1>1, <2>0, <2>1, <2>5 DEF GoneIsAccounted
  <2> QED BY <2>3, <2>4, <2>6
<1> QED BY <1>3, <1>4 DEF RingInv

LEMMA PublishRing ==
  ASSUME Capacity > 1, RingInv, Publish
  PROVE  RingInv'
<1>0. /\ RingType /\ producer = "publish" /\ producer' = "idle"
      /\ head' = After(head) /\ written' = written + 1
      /\ UNCHANGED <<items, tail, dropped, drains, delivered, overflowed, lapped>>
      /\ Busy' = Busy /\ \A c : ItemOf(c)' = ItemOf(c)
  BY DEF RingInv, Publish, Busy, ItemOf
<1>1. After(head) \in Slots
  BY SMTT(30), <1>0, CapacityType, AfterIs DEF RingType
<1>2. RingType'
  BY <1>0, <1>1 DEF RingType
<1>3. ASSUME ~lapped PROVE UnreadAreNewest' /\ HeldAreOlder' /\ GoneIsAccounted'
  <2>0. UnreadAreNewest /\ HeldAreOlder /\ GoneIsAccounted /\ written \in Nat
    BY <1>0, <1>3 DEF RingInv, RingType
  <2>1. Waiting <= Capacity - 2
    BY <1>0, <2>0 DEF UnreadAreNewest
  <2>2. /\ Waiting' = Waiting + 1
        /\ \A s \in Slots : Behind(s)' = IF s = head THEN 1 ELSE Behind(s) + 1
    BY <1>0, <2>1, HeadMoves
  <2>3. /\ Waiting \in Nat /\ Waiting <= written /\ Capacity \in Nat
        /\ \A s \in Slots : Behind(s) \in 1..Capacity
    BY <1>0, <2>0, BehindType, CapacityType DEF UnreadAreNewest
  <2>4. UnreadAreNewest'
    <3>1. ASSUME NEW s \in Slots, Behind(s)' <= Waiting' PROVE items[s] = written' + 1 - Behind(s)'
      <4>1. CASE s = head
        BY <1>0, <2>0, <2>2, <4>1 DEF UnreadAreNewest
      <4>2. CASE s # head
        <5>1. Behind(s)' = Behind(s) + 1 /\ Behind(s) <= Waiting
          BY <2>2, <2>3, <3>1, <4>2
        <5>2. items[s] = written + 1 - Behind(s)
          BY <2>0, <5>1 DEF UnreadAreNewest
        <5> QED BY <1>0, <2>0, <2>3, <5>1, <5>2
      <4> QED BY <4>1, <4>2
    <3>2. Waiting' <= written'
      BY <1>0, <2>0, <2>2, <2>3
    <3> QED BY <1>0, <3>1, <3>2 DEF UnreadAreNewest
  <2>5. HeldAreOlder'
    <3>1. ASSUME NEW c \in Busy
          PROVE  LET s == drains[c].slot IN
                 /\ Waiting' < Behind(s)' /\ Behind(s)' <= written'
                 /\ ItemOf(c) = written' + 1 - Behind(s)'
      <4>0. PICK s \in Slots : s = drains[c].slot
        BY <1>0 DEF RingType, Busy
      <4>1. s # head
        BY <1>0, <2>0, <4>0 DEF HeldAreOlder
      <4>2. Waiting < Behind(s) /\ Behind(s) <= written /\ ItemOf(c) = written + 1 - Behind(s)
        BY <2>0, <4>0 DEF HeldAreOlder
      <4>3. Behind(s)' = Behind(s) + 1 /\ Behind(s) \in Int
        BY <2>2, <2>3, <4>1
      <4>4. Waiting' < Behind(s)' /\ Behind(s)' <= written' /\ ItemOf(c) = written' + 1 - Behind(s)'
        BY <1>0, <2>0, <2>2, <2>3, <4>2, <4>3
      <4>5. Behind(drains[c].slot)' = Behind(s)'
        BY <1>0, <4>0 DEF Behind
      <4> QED BY <4>4, <4>5
    <3>2. \A c, d \in Busy : c # d => drains[c].slot # drains[d].slot
      BY <2>0 DEF HeldAreOlder
    <3> QED BY <1>0, <3>1, <3>2 DEF HeldAreOlder
  <2>6. GoneIsAccounted'
    <3>1. written' - Waiting' = written - Waiting
      BY <1>0, <2>0, <2>2, <2>3
    <3>2. {ItemOf(c) : c \in Busy}' = {ItemOf(c) : c \in Busy}
      BY <1>0
    <3> QED BY <1>0, <2>0, <3>1, <3>2 DEF GoneIsAccounted
  <2> QED BY <2>4, <2>5, <2>6
<1> QED BY <1>0, <1>2, <1>3 DEF RingInv

LEMMA ReserveRing ==
  ASSUME Capacity > 1, RingInv, NEW c \in Consumers, Reserve(c)
  PROVE  RingInv'
<1>0. /\ RingType /\ drains[c].at = "idle" /\ tail # head /\ tail' = After(tail) /\ head' = head
      /\ drains' = [drains EXCEPT ![c].at = "read", ![c].slot = tail]
      /\ UNCHANGED <<items, head, written, dropped, producer, delivered, overflowed, lapped>>
  BY DEF RingInv, Reserve
<1>1. tail \in Slots /\ After(tail) \in Slots
  BY <1>0, CapacityType, AfterIs DEF RingType
<1>2. /\ drains' \in [Consumers -> [at : {"idle", "read", "clear"}, slot : Slots, item : Nat, count : Nat]]
      /\ drains'[c].at = "read" /\ drains'[c].slot = tail
      /\ \A d \in Consumers \ {c} : drains'[d] = drains[d]
  BY <1>0, <1>1 DEF RingType
<1>3. RingType'
  BY <1>0, <1>1, <1>2 DEF RingType
<1>4. Waiting' = Waiting - 1 /\ \A s : Behind(s)' = Behind(s)
  BY <1>0, TailMoves
<1>5. Busy' = Busy \cup {c} /\ c \notin Busy
  BY <1>0, <1>2 DEF Busy
<1>6. ASSUME ~lapped PROVE UnreadAreNewest' /\ HeldAreOlder' /\ GoneIsAccounted'
  <2>0. UnreadAreNewest /\ HeldAreOlder /\ GoneIsAccounted /\ written \in Nat
    BY <1>0, <1>6 DEF RingInv, RingType
  <2>1. /\ Waiting \in Nat /\ Waiting > 0 /\ Behind(tail) = Waiting /\ Waiting <= written
        /\ Capacity \in Nat /\ \A s \in Slots : Behind(s) \in 1..Capacity
    BY <1>0, <2>0, BehindType, CapacityType DEF UnreadAreNewest
  <2>2. items[tail] = written + 1 - Waiting
    BY <1>1, <2>0, <2>1 DEF UnreadAreNewest
  <2>3. /\ \A d \in Busy : ItemOf(d)' = ItemOf(d) /\ drains'[d].slot = drains[d].slot
        /\ ItemOf(c)' = written + 1 - Waiting
    <3>1. \A d \in Busy : d # c /\ d \in Consumers
      BY <1>5 DEF Busy
    <3> QED BY <1>0, <1>2, <2>2, <3>1 DEF ItemOf
  <2>4. UnreadAreNewest'
    <3>1. ASSUME NEW s \in Slots, Behind(s) <= Waiting - 1 PROVE items[s] = written + 1 - Behind(s)
      <4>1. Behind(s) <= Waiting
        BY <2>1, <3>1
      <4> QED BY <2>0, <4>1 DEF UnreadAreNewest
    <3>2. Waiting - 1 <= written /\ (Waiting <= Capacity - 2 => Waiting - 1 <= Capacity - 2)
      BY <2>0, <2>1
    <3> QED BY <1>0, <1>4, <2>0, <3>1, <3>2 DEF UnreadAreNewest
  <2>5. HeldAreOlder'
    <3>1. ASSUME NEW d \in Busy
          PROVE  /\ Waiting - 1 < Behind(drains[d].slot) /\ Behind(drains[d].slot) <= written
                 /\ ItemOf(d) = written + 1 - Behind(drains[d].slot)
                 /\ producer = "publish" => drains[d].slot # head
                 /\ drains[d].slot # tail
      <4>1. drains[d].slot \in Slots
        BY <1>0 DEF RingType, Busy
      <4>2. /\ Waiting < Behind(drains[d].slot) /\ Behind(drains[d].slot) <= written
            /\ ItemOf(d) = written + 1 - Behind(drains[d].slot)
            /\ producer = "publish" => drains[d].slot # head
        BY <2>0 DEF HeldAreOlder
      <4> QED BY <2>1, <4>1, <4>2
    <3>2. ASSUME NEW d \in Busy'
          PROVE  \E s \in Slots :
                   /\ drains'[d].slot = s /\ Waiting' < Behind(s) /\ Behind(s) <= written
                   /\ ItemOf(d)' = written + 1 - Behind(s)
                   /\ producer = "publish" => s # head
      <4>1. CASE d = c
        BY <1>0, <1>1, <1>2, <1>4, <2>1, <2>3, <4>1
      <4>2. CASE d # c
        <5>1. d \in Busy /\ drains[d].slot \in Slots
          BY <1>0, <1>5, <4>2 DEF RingType, Busy
        <5> QED BY <1>4, <2>3, <3>1, <5>1
      <4> QED BY <4>1, <4>2
    <3>3. ASSUME NEW d \in Busy', NEW e \in Busy', d # e PROVE drains'[d].slot # drains'[e].slot
      <4>1. \A x \in Busy : drains'[x].slot = drains[x].slot /\ drains[x].slot # tail
        BY <2>3, <3>1
      <4>2. \A x, y \in Busy : x # y => drains[x].slot # drains[y].slot
        BY <2>0 DEF HeldAreOlder
      <4> QED BY <1>2, <1>5, <3>3, <4>1, <4>2
    <3>4. ASSUME NEW d \in Busy'
          PROVE  /\ Waiting' < Behind(drains[d].slot)' /\ Behind(drains[d].slot)' <= written
                 /\ ItemOf(d)' = written + 1 - Behind(drains[d].slot)'
                 /\ producer = "publish" => drains'[d].slot # head
      <4>1. PICK s \in Slots :
              /\ drains'[d].slot = s /\ Waiting' < Behind(s) /\ Behind(s) <= written
              /\ ItemOf(d)' = written + 1 - Behind(s)
              /\ producer = "publish" => s # head
        BY <3>2
      <4>2. Behind(drains[d].slot)' = Behind(s)
        BY <1>0, <4>1 DEF Behind
      <4> QED BY <4>1, <4>2
    <3> QED BY <1>0, <3>3, <3>4 DEF HeldAreOlder
  <2>6. GoneIsAccounted'
    <3> DEFINE w == written + 1 - Waiting
    <3>1. /\ written - Waiting \in Nat /\ overflowed \subseteq 1..(written - Waiting)
          /\ delivered \subseteq 1..(written - Waiting)
      BY <1>0, <2>0, GoneFacts
    <3>2. w = (written - Waiting) + 1 /\ written' - Waiting' = w /\ w \notin 1..(written - Waiting)
          /\ 1..w = 1..(written - Waiting) \cup {w}
      BY <1>0, <1>4, <2>0, <2>1, <3>1
    <3>3. {ItemOf(d) : d \in Busy}' = {ItemOf(d) : d \in Busy} \cup {w}
      BY <1>5, <2>3
    <3>4. \A d \in Busy' : ItemOf(d)' \notin delivered \cup overflowed
      BY <1>5, <2>0, <2>3, <3>1, <3>2 DEF GoneIsAccounted
    <3> HIDE DEF w
    <3>5. 1..(written' - Waiting') = {ItemOf(d) : d \in Busy}' \cup delivered \cup overflowed
      BY <2>0, <3>2, <3>3 DEF GoneIsAccounted
    <3> QED BY <1>0, <2>0, <3>4, <3>5 DEF GoneIsAccounted
  <2> QED BY <2>4, <2>5, <2>6
<1> QED BY <1>0, <1>3, <1>6 DEF RingInv

\* A step of consumers that moves neither the slots nor what they have in hand.
LEMMA HandsUnmoved ==
  ASSUME RingInv, UNCHANGED <<items, head, tail, written, dropped, producer, delivered, overflowed, lapped>>,
         drains' \in [Consumers -> [at : {"idle", "read", "clear"}, slot : Slots, item : Nat, count : Nat]],
         Busy' = Busy, \A d \in Busy : ItemOf(d)' = ItemOf(d) /\ drains'[d].slot = drains[d].slot
  PROVE  RingInv'
<1>1. Waiting' = Waiting /\ \A s : Behind(s)' = Behind(s)
  BY DEF Waiting, Behind
<1>2. RingType'
  BY DEF RingInv, RingType
<1>3. ASSUME ~lapped PROVE UnreadAreNewest' /\ HeldAreOlder' /\ GoneIsAccounted'
  <2>1. UnreadAreNewest'
    BY <1>1, <1>3 DEF RingInv, UnreadAreNewest
  <2>2. \A d \in Busy : Behind(drains[d].slot)' = Behind(drains[d].slot)
    BY DEF Behind
  <2>3. HeldAreOlder'
    BY <1>1, <1>3, <2>2 DEF RingInv, HeldAreOlder
  <2>4. {ItemOf(d) : d \in Busy}' = {ItemOf(d) : d \in Busy}
    OBVIOUS
  <2>5. GoneIsAccounted'
    BY <1>1, <1>3, <2>4 DEF RingInv, GoneIsAccounted
  <2> QED BY <2>1, <2>3, <2>5
<1> QED BY <1>2, <1>3 DEF RingInv

LEMMA ReadRing ==
  ASSUME RingInv, NEW c \in Consumers, Read(c)
  PROVE  RingInv'
<1>0. /\ RingType /\ drains[c].at = "read"
      /\ drains' = [drains EXCEPT ![c].at = "clear", ![c].item = items[drains[c].slot]]
      /\ UNCHANGED <<items, head, tail, written, dropped, producer, delivered, overflowed, lapped>>
  BY DEF RingInv, Read
<1>1. items[drains[c].slot] \in Nat
  BY <1>0 DEF RingType
<1>2. /\ drains' \in [Consumers -> [at : {"idle", "read", "clear"}, slot : Slots, item : Nat, count : Nat]]
      /\ drains'[c].at = "clear" /\ drains'[c].slot = drains[c].slot
      /\ drains'[c].item = items[drains[c].slot]
      /\ \A d \in Consumers \ {c} : drains'[d] = drains[d]
  BY <1>0, <1>1 DEF RingType
<1>3. Busy' = Busy
  BY <1>0, <1>2 DEF Busy
<1>4. \A d \in Busy : ItemOf(d)' = ItemOf(d) /\ drains'[d].slot = drains[d].slot
  BY <1>0, <1>2 DEF ItemOf, Busy
<1> QED BY <1>0, <1>2, <1>3, <1>4, HandsUnmoved

LEMMA ReturnRing ==
  ASSUME Capacity > 1, RingInv, NEW c \in Consumers, Return(c)
  PROVE  RingInv'
<1>0. /\ RingType /\ drains[c].at = "idle" /\ drains' = [drains EXCEPT ![c] = Idle]
      /\ UNCHANGED <<items, head, tail, written, dropped, producer, delivered, overflowed, lapped>>
  BY DEF RingInv, Return
<1>1. Idle \in [at : {"idle", "read", "clear"}, slot : Slots, item : Nat, count : Nat] /\ Idle.at = "idle"
  BY CapacityType DEF Idle
<1>2. /\ drains' \in [Consumers -> [at : {"idle", "read", "clear"}, slot : Slots, item : Nat, count : Nat]]
      /\ drains'[c].at = "idle" /\ \A d \in Consumers \ {c} : drains'[d] = drains[d]
  BY <1>0, <1>1 DEF RingType
<1>3. Busy' = Busy /\ \A d \in Busy : d \in Consumers \ {c}
  BY <1>0, <1>2 DEF Busy
<1>4. \A d \in Busy : ItemOf(d)' = ItemOf(d) /\ drains'[d].slot = drains[d].slot
  BY <1>0, <1>2, <1>3 DEF ItemOf
<1> QED BY <1>0, <1>2, <1>3, <1>4, HandsUnmoved

LEMMA ClearRing ==
  ASSUME Capacity > 1, RingInv, NEW c \in Consumers, Clear(c)
  PROVE  RingInv'
<1> DEFINE w == drains[c].item
           u == drains[c].slot
           left == IF w # 0 /\ drains[c].count + 1 = MaxItems THEN Idle
                   ELSE [Idle EXCEPT !.count = IF w = 0 THEN drains[c].count ELSE drains[c].count + 1]
<1>0. /\ RingType /\ drains[c].at = "clear"
      /\ items' = [items EXCEPT ![u] = 0]
      /\ delivered' = delivered \cup ({w} \ {0})
      /\ drains' = [drains EXCEPT ![c] = left]
      /\ UNCHANGED <<head, tail, written, dropped, producer, overflowed, lapped>>
  BY DEF RingInv, Clear
<1>1. u \in Slots /\ w \in Nat /\ drains[c].count \in Nat
  BY <1>0 DEF RingType
<1>2. left \in [at : {"idle", "read", "clear"}, slot : Slots, item : Nat, count : Nat] /\ left.at = "idle"
  BY <1>1, CapacityType DEF Idle
<1> HIDE DEF left
<1>3. /\ drains' \in [Consumers -> [at : {"idle", "read", "clear"}, slot : Slots, item : Nat, count : Nat]]
      /\ drains'[c].at = "idle" /\ \A d \in Consumers \ {c} : drains'[d] = drains[d]
      /\ items' \in [Slots -> Nat] /\ \A s \in Slots \ {u} : items'[s] = items[s]
  BY <1>0, <1>1, <1>2 DEF RingType
<1>4. RingType'
  BY <1>0, <1>3 DEF RingType
<1>5. Waiting' = Waiting /\ \A s : Behind(s)' = Behind(s)
  BY <1>0 DEF Waiting, Behind
<1>6. c \in Busy /\ Busy' = Busy \ {c}
  BY <1>0, <1>3 DEF Busy
<1>7. ASSUME ~lapped PROVE UnreadAreNewest' /\ HeldAreOlder' /\ GoneIsAccounted'
  <2>0. UnreadAreNewest /\ HeldAreOlder /\ GoneIsAccounted /\ written \in Nat
    BY <1>0, <1>7 DEF RingInv, RingType
  <2>1. /\ Waiting < Behind(u) /\ Behind(u) <= written /\ w = written + 1 - Behind(u)
        /\ (producer = "publish" => u # head) /\ ItemOf(c) = w
    BY <1>0, <1>6, <2>0 DEF HeldAreOlder, ItemOf
  <2>2. /\ Waiting \in Nat /\ \A s \in Slots : Behind(s) \in 1..Capacity
        /\ Capacity \in Nat /\ \A s, t \in Slots : Behind(s) = Behind(t) => s = t
    BY <1>0, BehindType, CapacityType
  <2>3. w > 0
    BY <1>1, <2>0, <2>1, <2>2
  <2>4. \A d \in Busy \ {c} : /\ drains'[d] = drains[d] /\ drains[d].slot \in Slots \ {u}
                              /\ ItemOf(d)' = ItemOf(d)
    <3>1. \A d \in Busy \ {c} : d \in Consumers /\ drains[d].slot \in Slots
      BY <1>0 DEF RingType, Busy
    <3>2. \A d \in Busy \ {c} : drains[d].slot # u
      BY <1>6, <2>0 DEF HeldAreOlder
    <3> QED BY <1>3, <3>1, <3>2 DEF ItemOf
  <2>5. UnreadAreNewest'
    <3>1. \A s \in Slots : Behind(s) <= Waiting => s # u
      BY <1>1, <2>1, <2>2
    <3>2. producer = "publish" => items'[head] = items[head]
      BY <1>0, <1>3, <2>1 DEF RingType
    <3> QED BY <1>0, <1>3, <1>5, <2>0, <3>1, <3>2 DEF UnreadAreNewest
  <2>6. HeldAreOlder'
    <3>1. \A d \in Busy \ {c} : Behind(drains[d].slot)' = Behind(drains[d].slot)
      BY <1>0, <2>4 DEF Behind
    <3> QED BY <1>0, <1>5, <1>6, <2>0, <2>4, <3>1 DEF HeldAreOlder
  <2>7. GoneIsAccounted'
    <3>1. \A d \in Busy \ {c} : ItemOf(d) # w
      <4> SUFFICES ASSUME NEW d \in Busy \ {c} PROVE ItemOf(d) # w
        OBVIOUS
      <4>1. PICK s \in Slots : s = drains[d].slot /\ s # u
        BY <2>4
      <4>2. ItemOf(d) = written + 1 - Behind(s)
        BY <2>0, <4>1 DEF HeldAreOlder
      <4>3. Behind(s) # Behind(u) /\ Behind(s) \in Int /\ Behind(u) \in Int
        BY <1>1, <2>2, <4>1
      <4> QED BY <2>0, <2>1, <4>2, <4>3
    <3>2. {ItemOf(d) : d \in Busy} = {ItemOf(d) : d \in Busy \ {c}} \cup {w}
      BY <1>6, <2>1
    <3>3. {ItemOf(d) : d \in Busy}' = {ItemOf(d) : d \in Busy \ {c}}
      BY <1>6, <2>4
    <3>4. delivered' = delivered \cup {w}
      BY <1>0, <2>3
    <3>5. w \notin overflowed /\ delivered' \cap overflowed = {}
      BY <1>6, <2>0, <2>1, <3>4 DEF GoneIsAccounted
    <3>6. \A d \in Busy' : ItemOf(d)' \notin delivered' \cup overflowed
      BY <1>6, <2>0, <2>4, <3>1, <3>4 DEF GoneIsAccounted
    <3> HIDE DEF w
    <3>7. 1..(written - Waiting) = {ItemOf(d) : d \in Busy}' \cup delivered' \cup overflowed
      BY <2>0, <3>2, <3>3, <3>4 DEF GoneIsAccounted
    <3> QED BY <1>0, <1>5, <2>0, <3>5, <3>6, <3>7 DEF GoneIsAccounted
  <2> QED BY <2>5, <2>6, <2>7
<1> QED BY <1>0, <1>4, <1>7 DEF RingInv

LEMMA NextRing == Capacity > 1 /\ RingInv /\ [RingNext]_ringVars => RingInv'
<1> SUFFICES ASSUME Capacity > 1, RingInv, [RingNext]_ringVars PROVE RingInv'
  OBVIOUS
<1>1. CASE UNCHANGED ringVars
  <2>1. Busy' = Busy /\ \A d : ItemOf(d)' = ItemOf(d) /\ drains'[d] = drains[d]
    BY <1>1 DEF ringVars, Busy, ItemOf
  <2>2. drains' \in [Consumers -> [at : {"idle", "read", "clear"}, slot : Slots, item : Nat, count : Nat]]
    BY <1>1 DEF ringVars, RingInv, RingType
  <2> QED BY <1>1, <2>1, <2>2, HandsUnmoved DEF ringVars
<1> QED
  BY <1>1, MakeRoomRing, StoreRing, PublishRing, ReserveRing, ReadRing, ClearRing, ReturnRing
  DEF RingNext, Write, Drain

---------------------------------------------------------------------------
\* What the unread slots show is a stretch of the newest items.
LEMMA ReadableIs ==
  ASSUME Capacity > 1, RingType, UnreadAreNewest
  PROVE  Readable = (written - Waiting + 1)..written
<1>1. /\ Capacity \in Nat \ {0} /\ head \in 0..(Capacity - 1) /\ tail \in 0..(Capacity - 1)
      /\ Slots = 0..(Capacity - 1) /\ written \in Nat /\ Waiting \in Nat /\ Waiting <= Capacity - 1
  BY BehindType, CapacityType DEF RingType
<1>2. (head - tail) % Capacity = Waiting
  <2> DEFINE x == head - tail
  <2>1. x \in Int /\ x < Capacity /\ -Capacity <= x /\ Waiting = IF 0 <= x THEN x ELSE x + Capacity
    BY <1>1 DEF Waiting
  <2> HIDE DEF x
  <2>2. x % Capacity = IF 0 <= x THEN x ELSE x + Capacity
    <3>1. CASE 0 <= x
      BY <1>1, <2>1, <3>1, ModOnce
    <3>2. CASE x < 0
      BY <1>1, <2>1, <3>2, ModOnce
    <3> QED BY <2>1, <3>1, <3>2
  <2> QED BY <2>1, <2>2 DEF x
<1>3. ASSUME NEW k \in 0..(Waiting - 1)
      PROVE  items[(tail + k) % Capacity] = written - Waiting + 1 + k
  <2> DEFINE x == tail + k
             s == x % Capacity
  <2>0. x \in Int /\ 0 <= x /\ x < 2 * Capacity
    BY <1>1
  <2> HIDE DEF x
  <2>1. s = IF x < Capacity THEN x ELSE x - Capacity
    <3>1. CASE x < Capacity
      BY <1>1, <2>0, <3>1, ModOnce
    <3>2. CASE Capacity <= x
      BY <1>1, <2>0, <3>2, ModOnce
    <3> QED BY <1>1, <2>0, <3>1, <3>2
  <2> HIDE DEF s
  <2>2. s \in Slots /\ Behind(s) = Waiting - k
    BY <1>1, <2>1 DEF Waiting, Behind, x
  <2>3. items[s] = written + 1 - Behind(s)
    BY <1>1, <2>2 DEF UnreadAreNewest
  <2>4. (tail + k) % Capacity = s
    BY DEF s, x
  <2> QED BY <1>1, <2>2, <2>3, <2>4
<1>4. Readable = {items[(tail + k) % Capacity] : k \in 0..(Waiting - 1)}
  BY <1>2 DEF Readable
<1>5. Readable = {written - Waiting + 1 + k : k \in 0..(Waiting - 1)}
  BY <1>3, <1>4
<1>6. ASSUME NEW n \in (written - Waiting + 1)..written
      PROVE  \E k \in 0..(Waiting - 1) : n = written - Waiting + 1 + k
  <2>1. n - (written - Waiting + 1) \in 0..(Waiting - 1)
        /\ n = written - Waiting + 1 + (n - (written - Waiting + 1))
    BY <1>1
  <2> QED BY <2>1
<1>7. \A k \in 0..(Waiting - 1) : written - Waiting + 1 + k \in (written - Waiting + 1)..written
  BY <1>1
<1> QED BY <1>5, <1>6, <1>7

\* "The dropped count is exposed for backpressure metrics" (ring_buffer.py:17): in a shard
\* of two slots or more every item published is readable, in hand, handed out once, or
\* counted as dropped, and nothing is in two of these places, until the producer comes
\* round to a slot a consumer is still emptying (ring_buffer.py:51-63, 76-90).
THEOREM NothingLost ==
  ASSUME Capacity > 1
  PROVE  RingSpec => []NothingLostUncounted
<1>1. RingInv => NothingLostUncounted
  <2> SUFFICES ASSUME RingInv, ~lapped
               PROVE  /\ dropped = Cardinality(overflowed)
                      /\ 1..written = Readable \cup InFlight \cup delivered \cup overflowed
                      /\ written = Cardinality(Readable) + Cardinality(InFlight)
                                     + Cardinality(delivered) + Cardinality(overflowed)
    BY DEF NothingLostUncounted
  <2> DEFINE n == written - Waiting
  <2>0. RingType /\ UnreadAreNewest /\ GoneIsAccounted
    BY DEF RingInv
  <2>1. /\ n \in Nat /\ Waiting \in Nat /\ written \in Nat
        /\ IsFiniteSet(overflowed) /\ IsFiniteSet(delivered)
    BY <2>0, GoneFacts DEF RingType
  <2>2. InFlight = {ItemOf(c) : c \in Busy}
    BY DEF InFlight, ItemOf, Busy
  <2>3. /\ 1..n = InFlight \cup delivered \cup overflowed
        /\ delivered \cap overflowed = {} /\ InFlight \cap (delivered \cup overflowed) = {}
    BY <2>0, <2>2 DEF GoneIsAccounted
  <2>4. Readable = (n + 1)..written
    BY <2>0, ReadableIs
  <2>5. 1..written = 1..n \cup (n + 1)..written
    BY <2>1
  <2>6. IsFiniteSet(1..n) /\ Cardinality(1..n) = n
    <3>1. 1 \in Int /\ n \in Int
      BY <2>1
    <3> HIDE DEF n
    <3> QED BY <2>1, <3>1, FS_Interval
  <2>7. Cardinality(Readable) = written - n
    <3>1. n + 1 \in Int /\ written \in Int /\ n \in Int /\ n <= written
      BY <2>1
    <3> HIDE DEF n
    <3>2. Cardinality((n + 1)..written) = IF n + 1 > written THEN 0 ELSE written - (n + 1) + 1
      BY <3>1, FS_Interval
    <3>3. Cardinality((n + 1)..written) = written - n
      BY <3>1, <3>2
    <3> QED BY <2>4, <3>3
  <2>8. Cardinality(1..n) = Cardinality(InFlight) + Cardinality(delivered) + Cardinality(overflowed)
        /\ Cardinality(InFlight) \in Nat /\ Cardinality(delivered) \in Nat /\ Cardinality(overflowed) \in Nat
    <3>1. IsFiniteSet(InFlight)
      BY <2>3, <2>6, FS_Subset
    <3>2. IsFiniteSet(delivered \cup overflowed)
          /\ Cardinality(delivered \cup overflowed)
               = Cardinality(delivered) + Cardinality(overflowed) - Cardinality(delivered \cap overflowed)
      BY <2>1, FS_Union
    <3>3. Cardinality(InFlight \cup (delivered \cup overflowed))
            = Cardinality(InFlight) + Cardinality(delivered \cup overflowed)
               - Cardinality(InFlight \cap (delivered \cup overflowed))
      BY <3>1, <3>2, FS_Union
    <3>4. InFlight \cup (delivered \cup overflowed) = 1..n
      BY <2>3
    <3>5. /\ Cardinality(InFlight) \in Nat /\ Cardinality(delivered) \in Nat
          /\ Cardinality(overflowed) \in Nat
      BY <2>1, <3>1, FS_CardinalityType
    <3>6. /\ Cardinality(delivered \cap overflowed) = 0
          /\ Cardinality(InFlight \cap (delivered \cup overflowed)) = 0
      BY <2>3, FS_EmptySet
    <3>7. Cardinality(1..n) = Cardinality(InFlight) + Cardinality(delivered \cup overflowed)
                               - Cardinality(InFlight \cap (delivered \cup overflowed))
      BY <3>3, <3>4
    <3> QED BY <3>2, <3>5, <3>6, <3>7
  <2> HIDE DEF n
  <2>9. dropped = Cardinality(overflowed)
    BY <2>0 DEF GoneIsAccounted
  <2>10. 1..written = Readable \cup InFlight \cup delivered \cup overflowed
    BY <2>3, <2>4, <2>5
  <2>11. n \in Int /\ Cardinality(Readable) \in Int /\ written \in Int
    BY <2>1, <2>7
  <2> HIDE DEF n
  <2>12. written = Cardinality(Readable) + Cardinality(InFlight) + Cardinality(delivered)
                    + Cardinality(overflowed)
    BY <2>6, <2>7, <2>8, <2>11
  <2> QED BY <2>9, <2>10, <2>12
<1>2. RingInit => RingInv
  BY InitRing
<1>3. RingInv /\ [RingNext]_ringVars => RingInv'
  BY NextRing
<1> QED BY <1>1, <1>2, <1>3, PTL DEF RingSpec

===========================================================================
