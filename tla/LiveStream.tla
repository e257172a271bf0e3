----------------------------- MODULE LiveStream -----------------------------
(***************************************************************************)
(* One /live/stream of the dashboard (dash.live, dash.live_sources): a     *)
(* poller thread per source, a bounded queue they share, and the handler   *)
(* thread, which alone writes to the client.                               *)
(*                                                                         *)
(* An upstream event has the id its source is told apart by (a time for    *)
(* obb, a sequence number for audl and cfgs, an alert id for altsvc) and,  *)
(* for the properties, its place in the upstream's log.  A frame is an     *)
(* envelope, and place is its place among all that its poller has offered. *)
(***************************************************************************)
EXTENDS Integers, Sequences, FiniteSets, SequencesExt, FiniteSetsExt, Subsequences

CONSTANTS
  Sources,          \* subscribed sources, of obb, audl, cfgs and altsvc
  QueueSize,        \* cfg.queue_maxsize
  LiveWindow,       \* how many events one answer lists
  MaxLog,           \* bound: events of all upstreams together
  MaxOutages        \* bound: upstreams going down

ASSUME LiveAssumption ==
  /\ Sources \subseteq {"obb", "audl", "cfgs", "altsvc"} /\ IsFiniteSet(Sources)
  /\ QueueSize \in Nat \ {0} /\ LiveWindow \in Nat \ {0}
  /\ MaxLog \in Nat /\ MaxOutages \in Nat

VARIABLES
  upstream,   \* source -> its log, and whether it answers (external)
  outages,
  marker,     \* source -> _last_ts, _last or _since
  seen,       \* source -> _seen of altsvc
  degraded,   \* source -> _degraded
  poller,     \* source -> where its thread is, the frames left to offer, first, the count it read
  queue,
  reachable, reachableCount, reachableDone,
  handler,    \* where the handler thread is, and the hello it wrote
  stop,
  offered,    \* history: source -> frames offered so far, oldest first
  streamed,   \* history: source -> its frames the client got, oldest first
  shed        \* history: frames the full queue cost

pollVars == <<marker, seen, degraded>>
helloVars == <<reachable, reachableCount, reachableDone>>
offerVars == <<offered, streamed, shed>>
liveVars == <<upstream, outages, pollVars, poller, queue, helloVars, handler, stop, offerVars>>

LiveInit ==
  /\ upstream = [s \in Sources |-> [log |-> <<>>, up |-> TRUE]]
  /\ outages = 0
  /\ marker = [s \in Sources |-> 0] /\ seen = [s \in Sources |-> {}]
  /\ degraded = [s \in Sources |-> FALSE]
  /\ poller = [s \in Sources |->
                 [at |-> "poll", left |-> <<>>, first |-> TRUE, ok |-> FALSE, count |-> 0]]
  /\ queue = <<>>
  /\ reachable = {} /\ reachableCount = 0 /\ reachableDone = FALSE
  /\ handler = [at |-> "waiting", hello |-> {}, complete |-> FALSE]
  /\ stop = FALSE
  /\ offered = [s \in Sources |-> <<>>] /\ streamed = [s \in Sources |-> <<>>] /\ shed = {}

---------------------------------------------------------------------------
(* Upstreams (external).  obb stamps all the events of one quote with one  *)
(* time, audl numbers from 0 and cfgs from 1, and an alert comes back when *)
(* it escalates.                                                           *)

NextIds(s) ==
  LET log == upstream[s].log
      last == IF log = <<>> THEN 0 ELSE Last(log).id
  IN CASE s = "obb" -> {last + 1} \cup (IF log = <<>> THEN {} ELSE {last})
       [] s = "audl" -> {Len(log)}
       [] s = "cfgs" -> {Len(log) + 1}
       [] OTHER -> 1..(last + 1)

Happens(s) ==
  /\ ~stop /\ MapThenSumSet(LAMBDA u : Len(upstream[u].log), Sources) < MaxLog
  /\ \E id \in NextIds(s) :
       upstream' = [upstream EXCEPT ![s].log = Append(@, [id |-> id, nth |-> Len(@) + 1])]
  /\ UNCHANGED <<outages, pollVars, poller, queue, helloVars, handler, stop, offerVars>>

Outage(s) ==
  /\ ~stop /\ outages < MaxOutages /\ upstream[s].up
  /\ outages' = outages + 1
  /\ upstream' = [upstream EXCEPT ![s].up = FALSE]
  /\ UNCHANGED <<pollVars, poller, queue, helloVars, handler, stop, offerVars>>

Recovers(s) ==
  /\ ~stop /\ ~upstream[s].up
  /\ upstream' = [upstream EXCEPT ![s].up = TRUE]
  /\ UNCHANGED <<outages, pollVars, poller, queue, helloVars, handler, stop, offerVars>>

\* What the source answers: obb lists its latest events oldest first, audl and
\* altsvc newest first, cfgs all those behind the marker.
ListedBy(s) ==
  LET log == upstream[s].log
      latest == SubSeq(log, Len(log) - LiveWindow + 1, Len(log))
      window == IF Len(log) <= LiveWindow THEN log ELSE latest
  IN CASE s = "obb" -> window
       [] s = "cfgs" -> Picked(log, {i \in DOMAIN log : log[i].id > marker[s]})
       [] OTHER -> Reverse(window)

---------------------------------------------------------------------------
(* Source.filter_new: a running maximum for obb and audl, the answer as it *)
(* is for cfgs, the ids not seen before for altsvc.                        *)

Rising(answer, from) ==
  Picked(answer, {i \in DOMAIN answer :
                    answer[i].id > from /\ \A j \in 1..(i - 1) : answer[i].id > answer[j].id})

Unseen(answer, known) ==
  Picked(answer, {i \in DOMAIN answer :
                    answer[i].id \notin known /\ \A j \in 1..(i - 1) : answer[i].id # answer[j].id})

\* Mutant: the answer is compared with itself, not with what was passed on before.
FilterNew_WithinAnswer(s, answer) ==
  IF s = "altsvc" THEN Unseen(answer, {}) ELSE Rising(answer, 0)

FilterNew(s, answer) ==
  CASE s = "cfgs" -> answer
    [] s = "altsvc" -> Unseen(answer, seen[s])
    [] OTHER -> Rising(answer, marker[s])

Frame(s, kind, event) == [src |-> s, kind |-> kind, event |-> event]
NoEvent == [id |-> 0, nth |-> 0]

DataFrames(s, events) == [i \in DOMAIN events |-> Frame(s, "data", events[i])]

---------------------------------------------------------------------------
(* LiveSession._poll_loop. *)

\* Mutant: the payloads go out before the source is announced to be back.
FramesOf_DataFirst(s, new) ==
  DataFrames(s, new) \o (IF degraded[s] THEN <<Frame(s, "recovered", NoEvent)>> ELSE <<>>)

FramesOf(s, new) ==
  (IF degraded[s] THEN <<Frame(s, "recovered", NoEvent)>> ELSE <<>>) \o DataFrames(s, new)

\* Where the thread goes on: between two polls it only waits for the stop flag.
OfferOrPoll(left) == IF left = <<>> THEN "poll" ELSE "offer"

\* poll_once succeeds.  The marker ends at the largest id of the answer.
PollAnswers(s) ==
  LET answer == ListedBy(s)
      ids == {e.id : e \in Range(answer)}
      left == FramesOf(s, FilterNew(s, answer))
  IN /\ ~stop /\ poller[s].at = "poll" /\ upstream[s].up
     /\ marker' = [marker EXCEPT ![s] = IF s = "altsvc" THEN @ ELSE Max({@} \cup ids)]
     /\ seen' = [seen EXCEPT ![s] = IF s = "altsvc" THEN @ \cup ids ELSE @]
     /\ degraded' = [degraded EXCEPT ![s] = FALSE]
     /\ poller' = [poller EXCEPT
          ![s].at = IF poller[s].first THEN "list" ELSE OfferOrPoll(left),
          ![s].ok = @ \/ poller[s].first,
          ![s].left = left]
     /\ UNCHANGED <<upstream, outages, queue, helloVars, handler, stop, offerVars>>

\* SourceTransportError: announced the first time.
PollFails(s) ==
  /\ ~stop /\ poller[s].at = "poll" /\ ~upstream[s].up
  /\ ~degraded[s]   \* or nothing changes
  /\ degraded' = [degraded EXCEPT ![s] = TRUE]
  /\ poller' = [poller EXCEPT ![s].at = "offer", ![s].left = <<Frame(s, "degraded", NoEvent)>>]
  /\ UNCHANGED <<upstream, outages, marker, seen, queue, helloVars, handler, stop, offerVars>>

\* _first_poll_done, whose count is read and written without a lock.
List(s) ==
  /\ poller[s].at = "list"
  /\ reachable' = IF poller[s].ok THEN reachable \cup {s} ELSE reachable
  /\ poller' = [poller EXCEPT ![s].at = "count", ![s].first = FALSE, ![s].count = reachableCount]
  /\ UNCHANGED <<upstream, outages, pollVars, queue, reachableCount, reachableDone, handler, stop, offerVars>>

\* Mutant: the first poller to be counted ends the wait.
Count_FirstIsEnough(s) ==
  /\ poller[s].at = "count"
  /\ reachableCount' = poller[s].count + 1
  /\ reachableDone' = TRUE
  /\ poller' = [poller EXCEPT ![s].at = OfferOrPoll(poller[s].left)]
  /\ UNCHANGED <<upstream, outages, pollVars, queue, reachable, handler, stop, offerVars>>

Count(s) ==
  /\ poller[s].at = "count"
  /\ reachableCount' = poller[s].count + 1
  /\ reachableDone' = (reachableDone \/ reachableCount' = Cardinality(Sources))
  /\ poller' = [poller EXCEPT ![s].at = OfferOrPoll(poller[s].left)]
  /\ UNCHANGED <<upstream, outages, pollVars, queue, reachable, handler, stop, offerVars>>

Placed(frame) == [src |-> frame.src, kind |-> frame.kind, event |-> frame.event,
                  place |-> Len(offered[frame.src]) + 1]
Offering(s) == poller[s].at \in {"offer", "again"}
Offered(s) ==
  /\ offered' = [offered EXCEPT ![s] = Append(@, Head(poller[s].left))]
  /\ poller' = [poller EXCEPT ![s].left = Tail(@),
                              ![s].at = IF poller[s].first THEN "list" ELSE OfferOrPoll(Tail(poller[s].left))]

\* _enqueue: there is room, at once or after a frame was dropped.
Put(s) ==
  /\ Offering(s) /\ Len(queue) < QueueSize
  /\ queue' = Append(queue, Placed(Head(poller[s].left)))
  /\ Offered(s)
  /\ UNCHANGED <<upstream, outages, pollVars, helloVars, handler, stop, streamed, shed>>

\* Mutant: the frame is not put once there is room for it.
DropOldest_NoSecondPut(s) ==
  /\ poller[s].at = "offer" /\ Len(queue) = QueueSize
  /\ queue' = Tail(queue)
  /\ shed' = shed \cup {Head(queue)}
  /\ Offered(s)
  /\ UNCHANGED <<upstream, outages, pollVars, helloVars, handler, stop, streamed>>

\* queue.Full: get_nowait, unless the handler or another poller has emptied it.
DropOldest(s) ==
  /\ poller[s].at = "offer" /\ Len(queue) = QueueSize
  /\ queue' = Tail(queue)
  /\ shed' = shed \cup {Head(queue)}
  /\ poller' = [poller EXCEPT ![s].at = "again"]
  /\ UNCHANGED <<upstream, outages, pollVars, helloVars, handler, stop, offered, streamed>>

\* Full again: another poller took the room, and this frame is lost.
GiveUp(s) ==
  /\ poller[s].at = "again" /\ Len(queue) = QueueSize
  /\ shed' = shed \cup {Placed(Head(poller[s].left))}
  /\ Offered(s)
  /\ UNCHANGED <<upstream, outages, pollVars, queue, helloVars, handler, stop, streamed>>

\* The loop tests the stop flag.
EndPoller(s) ==
  /\ poller[s].at = "poll" /\ stop
  /\ poller' = [poller EXCEPT ![s].at = "done"]
  /\ UNCHANGED <<upstream, outages, pollVars, queue, helloVars, handler, stop, offerVars>>

PollerStep(s) ==
  \/ PollAnswers(s) \/ PollFails(s) \/ List(s) \/ Count(s)
  \/ Put(s) \/ DropOldest(s) \/ GiveUp(s) \/ EndPoller(s)

---------------------------------------------------------------------------
(* serve_stream. *)

\* wait_hello returns: every first poll is counted, or the wait has timed out.
Hello ==
  /\ handler.at = "waiting"
  /\ \E complete \in {reachableDone, FALSE} :
       handler' = [at |-> "streaming", hello |-> reachable, complete |-> complete]
  /\ UNCHANGED <<upstream, outages, pollVars, poller, queue, helloVars, stop, offerVars>>

\* drain, and the frame is written.  Keepalives carry nothing and are left out.
WriteFrame(frame) ==
  /\ handler.at = "streaming" /\ queue # <<>> /\ frame = Head(queue)
  /\ queue' = Tail(queue)
  /\ streamed' = [streamed EXCEPT ![frame.src] = Append(@, frame)]
  /\ UNCHANGED <<upstream, outages, pollVars, poller, helloVars, handler, stop, offered, shed>>

\* The client is gone, before or after hello, or max_age_s is over: stop the pollers.
Close ==
  /\ handler.at # "closed"
  /\ handler' = [handler EXCEPT !.at = "closed"]
  /\ stop' = TRUE
  /\ UNCHANGED <<upstream, outages, pollVars, poller, queue, helloVars, offered, streamed, shed>>

LiveNext ==
  \/ \E s \in Sources : Happens(s) \/ Outage(s) \/ Recovers(s) \/ PollerStep(s)
  \/ Hello \/ Close
  \/ \E frame \in Range(queue) : WriteFrame(frame)

LiveSpec == LiveInit /\ [][LiveNext]_liveVars

---------------------------------------------------------------------------
(* Properties. *)

\* A hello that did not wait in vain names exactly the sources whose first
\* poll succeeded, although the pollers count themselves without a lock: the
\* count can lose a poller, never invent one (live.py:273-278).
HelloIsComplete ==
  handler.complete =>
    \A s \in Sources : ~poller[s].first /\ (poller[s].ok <=> s \in handler.hello)

\* What a poller has said and is about to say of its source alternates: it goes
\* degraded, comes back, and sends no data in between, and the flag of the
\* source says the same (live.py:241-271).
AnnouncedBeforeData ==
  \A s \in Sources :
    LET told == [k \in DOMAIN (offered[s] \o poller[s].left) |-> (offered[s] \o poller[s].left)[k].kind]
        down(k) == \E i \in 1..k : told[i] = "degraded" /\ \A j \in (i + 1)..k : told[j] # "recovered"
    IN /\ \A k \in DOMAIN told : down(k - 1) <=> told[k] = "recovered"
       /\ degraded[s] <=> down(Len(told))

\* A frame that was offered is written, waiting, or was dropped for want of
\* room, and the client gets the frames of one source in the order its poller
\* offered them (live.py:223-239).
StreamIsFifo ==
  \A s \in Sources :
    LET mine == streamed[s] \o Picked(queue, {i \in DOMAIN queue : queue[i].src = s})
        lost == {f.place : f \in {g \in shed : g.src = s}}
    IN /\ \A i, j \in DOMAIN mine : i < j => mine[i].place < mine[j].place
       /\ {f.place : f \in Range(mine)} \cup lost = 1..Len(offered[s])
       /\ {f.place : f \in Range(mine)} \cap lost = {}

\* Answers overlap, yet nothing is passed on twice (live_sources.py:167-292).
ForwardedOnce ==
  \A s \in Sources :
    LET told == offered[s] \o poller[s].left
    IN \A i, j \in DOMAIN told :
         i # j /\ told[i].kind = "data" /\ told[j].kind = "data" =>
           told[i].event.id # told[j].event.id

\* What the plan says of audl, "emit events with event_id greater than last
\* seen" (PLAN.md:212): no event up to the marker was skipped, but for the one
\* numbered 0.  Events that no answer listed any more are not counted.
ListedIsForwarded ==
  \A s \in Sources \ {"altsvc"} :
    Len(upstream[s].log) <= LiveWindow =>
      \A e \in Range(upstream[s].log) :
        0 < e.id /\ e.id <= marker[s] =>
          \E f \in Range(offered[s] \o poller[s].left) : f.kind = "data" /\ f.event = e

===========================================================================
