---------------------------- MODULE FeedGateway ----------------------------
(***************************************************************************)
(* The hot loop of S1: mdg.feed_client (FeedClient, VenueConnection), the  *)
(* sequence trackers of mdg.normalizer and GatewayRuntime.poll_once.       *)
(*                                                                         *)
(* One thread connects the venues by priority, then polls them in the      *)
(* order of the configuration, gathers a batch, and normalises the batch   *)
(* message by message.  An exception in the polling loses the batch and    *)
(* the loop goes on.  A venue numbers its messages 1, 2, ... over all its  *)
(* sessions; one venue carries one symbol.  A frame is the number of a     *)
(* quote, Heartbeat, Malformed (a quote that does not parse) or Oversize   *)
(* (a length above 1 MiB).                                                 *)
(***************************************************************************)
EXTENDS Integers, Sequences, FiniteSets, SequencesExt, FiniteSetsExt

CONSTANTS
  Venues,     \* sequence of venues, in the order of the configuration
  Priority,   \* venue -> its priority: the lowest connects first
  Blocking,   \* recv waits for data (SocketTransport after set_blocking)
  MaxSeq,     \* bound: quotes a venue numbers
  MaxPending, \* bound: frames waiting in a socket
  MaxFaults   \* bound: refusals, closings, resets, bad or lost frames, silences, resyncs

Feeds == Range(Venues)

\* validate_config: no venue twice in the feed table, no negative priority.
ValidFeedConfig ==
  /\ Venues \in Seq(Feeds) /\ IsInjective(Venues)
  /\ Priority \in [Feeds -> Nat]

ASSUME FeedAssumption ==
  /\ ValidFeedConfig /\ Venues # <<>> /\ Blocking \in BOOLEAN
  /\ MaxSeq \in Nat /\ MaxPending \in Nat /\ MaxFaults \in Nat

VARIABLES
  status,     \* venue -> VenueStatus
  failures,   \* venue -> _consecutive_failures
  open,       \* venue -> it holds a transport
  peer,       \* venue -> the far end of the transport: "up", "closed", "reset"
  wire,       \* venue -> frames sent and not received
  sent,       \* venue -> the last number the venue gave a quote
  loop,       \* where the thread is: "boot", "poll" or "emit", and at which venue
  batch,      \* what this round of poll_all has gathered
  trackers,   \* venue -> last_seq_no; 0 when there is no tracker
  gaps,       \* venue -> gap_count, total_gaps and max_gap_size_seen
  faults,
  received,   \* history: venue -> numbers read off the socket
  emitted,    \* history: venue -> numbers normalised
  jumped      \* history: venue -> numbers in gaps a tracker reported

feedVars == <<status, failures, open, peer, wire, sent, loop, batch, trackers, gaps,
              faults, received, emitted, jumped>>

Heartbeat == 0
Malformed == -1
Oversize == -2

\* sorted(..., key=priority), stable.
BootOrder ==
  SortSeq([i \in DOMAIN Venues |-> <<Priority[Venues[i]], i>>],
          LAMBDA a, b : a[1] < b[1] \/ (a[1] = b[1] /\ a[2] < b[2]))

Current == IF loop.at = "boot" THEN Venues[BootOrder[loop.next][2]] ELSE Venues[loop.next]

NoGaps == [count |-> 0, total |-> 0, max |-> 0]

FeedInit ==
  /\ status = [v \in Feeds |-> "DISCONNECTED"]
  /\ failures = [v \in Feeds |-> 0]
  /\ open = [v \in Feeds |-> FALSE]
  /\ peer = [v \in Feeds |-> "closed"]
  /\ wire = [v \in Feeds |-> <<>>]
  /\ sent = [v \in Feeds |-> 0]
  /\ loop = [at |-> "boot", next |-> 1]
  /\ batch = <<>>
  /\ trackers = [v \in Feeds |-> 0]
  /\ gaps = [v \in Feeds |-> NoGaps]
  /\ faults = 0
  /\ received = [v \in Feeds |-> {}]
  /\ emitted = [v \in Feeds |-> {}]
  /\ jumped = [v \in Feeds |-> {}]

Fault == faults < MaxFaults /\ faults' = faults + 1

---------------------------------------------------------------------------
(* The venues, as the mock venue simulates them (mdg.mock_feed). *)

Live(v) == open[v] /\ peer[v] = "up"

\* The next quote.  A venue may drop it or keep it for later, and without a session
\* nobody receives it.
VenueQuotes(v) ==
  /\ sent[v] < MaxSeq
  /\ sent' = [sent EXCEPT ![v] = @ + 1]
  /\ \/ /\ Live(v) /\ Len(wire[v]) < MaxPending
        /\ wire' = [wire EXCEPT ![v] = Append(@, sent[v] + 1)]
        /\ UNCHANGED faults
     \/ Live(v) /\ Fault /\ UNCHANGED wire
     \/ ~Live(v) /\ UNCHANGED <<wire, faults>>
  /\ UNCHANGED <<status, failures, open, peer, loop, batch, trackers, gaps,
                 received, emitted, jumped>>

\* Heartbeats go on for ever; an old quote that comes late or again and bad frames are
\* faults.
VenueSends(v, frame) ==
  /\ Live(v) /\ Len(wire[v]) < MaxPending
  /\ wire' = [wire EXCEPT ![v] = Append(@, frame)]
  /\ IF frame = Heartbeat THEN UNCHANGED faults ELSE Fault
  /\ UNCHANGED <<status, failures, open, peer, sent, loop, batch, trackers, gaps,
                 received, emitted, jumped>>

VenueDrops(v) ==
  /\ Live(v) /\ Fault
  /\ \E end \in {"closed", "reset"} : peer' = [peer EXCEPT ![v] = end]
  /\ UNCHANGED <<status, failures, open, wire, sent, loop, batch, trackers, gaps,
                 received, emitted, jumped>>

---------------------------------------------------------------------------
(* The loop. *)

\* The next venue of the round; after the last one the batch is emitted, or there is
\* nothing to emit and the next round begins.
Advance(pending) ==
  loop' = IF loop.next < Len(Venues) THEN [loop EXCEPT !.next = @ + 1]
          ELSE [at |-> IF pending = <<>> THEN "poll" ELSE "emit", next |-> 1]

\* An exception leaves poll_all, and what the round had gathered is lost.  At boot it
\* leaves main() instead and the process is started again.
Abandon ==
  /\ batch' = <<>>
  /\ loop' = [at |-> IF loop.at = "boot" THEN "boot" ELSE "poll", next |-> 1]

RestartedProcess ==
  /\ status' = [v \in Feeds |-> "DISCONNECTED"]
  /\ failures' = [v \in Feeds |-> 0]
  /\ open' = [v \in Feeds |-> FALSE]
  /\ peer' = [v \in Feeds |-> "closed"]
  /\ wire' = [v \in Feeds |-> <<>>]

\* Mutant: only suspect connections are tried again.
Retried_SuspectOnly(v) == status[v] = "SUSPECT"

\* poll_all tries again the venues that are suspect or failed to connect.
Retried(v) == status[v] = "SUSPECT" \/ (status[v] = "RECONNECTING" /\ failures[v] > 0)

Connecting == loop.at = "boot" \/ (loop.at = "poll" /\ Retried(Current))

\* try_connect reached the end of the handshake.
Connected ==
  /\ Connecting
  /\ status' = [status EXCEPT ![Current] = "STREAMING"]
  /\ failures' = [failures EXCEPT ![Current] = 0]
  /\ open' = [open EXCEPT ![Current] = TRUE]
  /\ peer' = [peer EXCEPT ![Current] = "up"]
  /\ wire' = [wire EXCEPT ![Current] = <<>>]
  /\ Advance(batch)
  /\ UNCHANGED <<sent, batch, trackers, gaps, faults, received, emitted, jumped>>

\* Refused, or no answer in time: _register_failure.
ConnectFailed ==
  /\ Connecting /\ Fault
  /\ status' = [status EXCEPT ![Current] = "RECONNECTING"]
  /\ failures' = [failures EXCEPT ![Current] = @ + 1]
  /\ open' = [open EXCEPT ![Current] = FALSE]
  /\ wire' = [wire EXCEPT ![Current] = <<>>]
  /\ Advance(batch)
  /\ UNCHANGED <<peer, sent, batch, trackers, gaps, received, emitted, jumped>>

\* The venue rejects the credentials: FeedAuthError, caught by both callers.
AuthRejected ==
  /\ Connecting /\ Fault
  /\ status' = [status EXCEPT ![Current] = "DEAD"]
  /\ Advance(batch)
  /\ UNCHANGED <<failures, open, peer, wire, sent, batch, trackers, gaps,
                 received, emitted, jumped>>

\* The venue rejects the symbols: FeedProtocolError, caught by neither.
SubscriptionRejected ==
  /\ Connecting /\ Fault
  /\ Abandon
  /\ IF loop.at = "boot" THEN RestartedProcess
     ELSE /\ status' = [status EXCEPT ![Current] = "SUBSCRIBING"]
          /\ UNCHANGED <<failures, open, peer, wire>>
  /\ UNCHANGED <<sent, trackers, gaps, received, emitted, jumped>>

Polling == loop.at = "poll" /\ ~Retried(Current)

Streams(v) == status[v] = "STREAMING" /\ open[v]

\* poll of a connection that does not stream.
PollNothing ==
  /\ Polling /\ ~Streams(Current)
  /\ Advance(batch)
  /\ UNCHANGED <<status, failures, open, peer, wire, sent, batch, trackers, gaps, faults,
                 received, emitted, jumped>>

\* recv timed out: within the heartbeat budget, or beyond it.
PollTimesOut ==
  /\ Polling /\ Streams(Current) /\ ~Blocking
  /\ peer[Current] = "up" /\ wire[Current] = <<>>
  /\ \/ UNCHANGED <<status, faults>>
     \/ Fault /\ status' = [status EXCEPT ![Current] = "SUSPECT"]
  /\ Advance(batch)
  /\ UNCHANGED <<failures, open, peer, wire, sent, batch, trackers, gaps,
                 received, emitted, jumped>>

\* recv answered with no bytes.
PollEndOfStream ==
  /\ Polling /\ Streams(Current)
  /\ peer[Current] = "closed" /\ wire[Current] = <<>>
  /\ status' = [status EXCEPT ![Current] = "DISCONNECTED"]
  /\ open' = [open EXCEPT ![Current] = FALSE]
  /\ Advance(batch)
  /\ UNCHANGED <<failures, peer, wire, sent, batch, trackers, gaps, faults,
                 received, emitted, jumped>>

\* recv raised: what was in the socket is gone and the next recv answers with no bytes.
PollReset ==
  /\ Polling /\ Streams(Current) /\ peer[Current] = "reset"
  /\ peer' = [peer EXCEPT ![Current] = "closed"]
  /\ wire' = [wire EXCEPT ![Current] = <<>>]
  /\ Abandon
  /\ UNCHANGED <<status, failures, open, sent, trackers, gaps, faults,
                 received, emitted, jumped>>

\* recv answered with some of the frames that wait.  An oversize frame closes the
\* connection and voids the chunk; a malformed one raises; the others join the batch.
PollFrames ==
  /\ Polling /\ Streams(Current) /\ peer[Current] # "reset"
  /\ \E n \in 1..Len(wire[Current]) :
       LET frames == SubSeq(wire[Current], 1, n) IN
       /\ wire' = [wire EXCEPT ![Current] = IF Contains(frames, Oversize) THEN <<>>
                                            ELSE SubSeq(@, n + 1, Len(@))]
       /\ received' = [received EXCEPT ![Current] = @ \cup {f \in Range(frames) : f > 0}]
       /\ status' = [status EXCEPT ![Current] =
                       IF Contains(frames, Oversize) THEN "DISCONNECTED" ELSE @]
       /\ open' = [open EXCEPT ![Current] = ~Contains(frames, Oversize)]
       /\ IF Contains(frames, Oversize) THEN Advance(batch) /\ UNCHANGED batch
          ELSE IF Contains(frames, Malformed) THEN Abandon
          ELSE LET more == batch \o [i \in DOMAIN frames |-> <<Current, frames[i]>>] IN
               batch' = more /\ Advance(more)
  /\ UNCHANGED <<failures, peer, sent, trackers, gaps, faults, emitted, jumped>>

\* Mutant: a gap of one is taken for order.
Observe_GapOfOne(v, seq) ==
  LET delta == seq - (trackers[v] + 1) IN
  /\ trackers' = [trackers EXCEPT ![v] = Max({@, seq})]
  /\ gaps' = [gaps EXCEPT ![v] =
       [count |-> IF delta = 0 THEN @.count ELSE @.count + 1,
        total |-> IF delta > 1 THEN @.total + 1 ELSE @.total,
        max   |-> Max({@.max, delta})]]
  /\ jumped' = IF delta > 1
               THEN [jumped EXCEPT ![v] = @ \cup (trackers[v] + 1)..(seq - 1)] ELSE jumped

\* SequenceTracker.observe.
Observe(v, seq) ==
  LET delta == seq - (trackers[v] + 1) IN
  /\ trackers' = [trackers EXCEPT ![v] = Max({@, seq})]
  /\ gaps' = [gaps EXCEPT ![v] =
       [count |-> IF delta = 0 THEN @.count ELSE @.count + 1,
        total |-> IF delta > 0 THEN @.total + 1 ELSE @.total,
        max   |-> Max({@.max, delta})]]
  /\ jumped' = [jumped EXCEPT ![v] = @ \cup (trackers[v] + 1)..(seq - 1)]

\* One message of the batch: a heartbeat is passed over, a quote is normalised and
\* distributed.
Emit ==
  /\ loop.at = "emit"
  /\ LET msg == Head(batch) IN
     IF msg[2] = Heartbeat THEN UNCHANGED <<trackers, gaps, jumped, emitted>>
     ELSE /\ Observe(msg[1], msg[2])
          /\ emitted' = [emitted EXCEPT ![msg[1]] = @ \cup {msg[2]}]
  /\ batch' = Tail(batch)
  /\ loop' = IF Len(batch) = 1 THEN [at |-> "poll", next |-> 1] ELSE loop
  /\ UNCHANGED <<status, failures, open, peer, wire, sent, faults, received>>

\* POST /resync on an HTTP thread: the trackers are dropped.
Resync ==
  /\ Fault
  /\ trackers' = [v \in Feeds |-> 0]
  /\ gaps' = [v \in Feeds |-> NoGaps]
  /\ UNCHANGED <<status, failures, open, peer, wire, sent, loop, batch, faults, received,
                 emitted, jumped>>

Loop == \/ Connected \/ ConnectFailed \/ AuthRejected \/ SubscriptionRejected
        \/ PollNothing \/ PollTimesOut \/ PollEndOfStream \/ PollReset \/ PollFrames \/ Emit

FeedNext ==
  \/ Loop \/ Resync
  \/ \E v \in Feeds :
       \/ VenueQuotes(v) \/ VenueDrops(v)
       \/ \E f \in {Heartbeat, Malformed, Oversize} \cup 1..sent[v] : VenueSends(v, f)

\* The loop runs for ever, and a live venue keeps sending heartbeats.
FeedFairness == WF_feedVars(Loop) /\ \A v \in Feeds : WF_feedVars(VenueSends(v, Heartbeat))

FeedSpec == FeedInit /\ [][FeedNext]_feedVars /\ FeedFairness

---------------------------------------------------------------------------
\* Whatever the gateway itself loses of the quotes it has read (a batch that an exception
\* of another venue threw away, a chunk with an oversize frame) shows up as a sequence gap
\* once the venue's next quote is normalised (feed_client.py:484, models.py:230).
LossIsSeenAsGap ==
  \A v \in Feeds : \A n \in received[v] \ emitted[v] : n > trackers[v] \/ n \in jumped[v]

\* A venue that is suspect or could not be reached is brought back, as long as it accepts
\* in the end, whatever the other venues do: it streams, or the venue rejected it
\* (feed_client.py:491, "auto-reconnect suspects").
SuspectComesBack ==
  \A v \in Feeds : status[v] \in {"SUSPECT", "RECONNECTING"}
                     ~> status[v] \in {"STREAMING", "DEAD", "SUBSCRIBING"}

===========================================================================
