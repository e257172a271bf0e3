----------------------------- MODULE AuditChain -----------------------------
(***************************************************************************)
(* The hash-chained log of S13 (audl.audit_engine): threads that append,   *)
(* and threads that verify one record without the lock.                    *)
(*                                                                         *)
(* A content hash is taken to be perfect: the hash of a record is its      *)
(* prev_hash with the record's own content at the end, and the empty       *)
(* sequence is EMPTY_HASH.  The content of a record is its id, which the   *)
(* log never uses twice.  A body is the record of the fields it has, and   *)
(* its data is known by its depth and the sorts of its leaves.             *)
(***************************************************************************)
EXTENDS Integers, Sequences, FiniteSets, SequencesExt, Subsequences

CONSTANTS
  Writers, Verifiers,   \* HTTP threads
  Bodies,                  \* what is posted to /events
  MaxDataDepth,
  MaxKept, MaxVerifyDepth, \* chain.max_events, chain.max_verify_depth
  Window, MaxKeys,         \* dedup.window_ns, dedup.max_keys
  MaxAppends, MaxClock     \* bounds

\* validate_config.
ValidAuditConfig ==
  /\ MaxKept \in Nat \ {0} /\ MaxVerifyDepth \in Nat \ {0}
  /\ Window \in Nat /\ MaxKeys \in Nat \ {0}

ASSUME AuditAssumption ==
  /\ ValidAuditConfig
  /\ MaxDataDepth \in Nat /\ MaxAppends \in Nat /\ MaxClock \in Nat
  /\ "nobody" \notin Writers

VARIABLES
  clock,
  records,     \* the chain, oldest first
  lastHash, nextId,
  dedup,       \* entries [key, id, ts] in insertion order
  counts,      \* appended and evicted
  holder,      \* the writer inside append's critical section after clearing, or "nobody"
  writer,      \* writer -> its key and the time it read; "idle" otherwise
  cleared,     \* what the writer that clears the chain will put back
  verifier,    \* verifier -> its record, the index it found, and the verdict
  latest,      \* history: the latest time an append has used
  late,        \* history: ids appended with a time older than that
  dropped      \* history: ids whose key the dedup memory dropped for want of room

chainVars == <<records, lastHash, nextId, dedup>>
auditVars == <<clock, chainVars, counts, holder, writer, cleared, verifier, latest, late, dropped>>

EmptyHash == <<>>
HashOf(id, prev) == Append(prev, id)

NoCounts == [appended |-> 0, evicted |-> 0]
IdleWriter == [at |-> "idle", key |-> <<>>, now |-> 0]
IdleVerifier == [at |-> "idle", record |-> [id |-> -1, key |-> <<>>, ts |-> 0, prev |-> <<>>, hash |-> <<>>],
                 index |-> 0, evictions |-> 0, verdict |-> "none"]

AuditInit ==
  /\ clock = 0
  /\ records = <<>> /\ lastHash = EmptyHash /\ nextId = 0 /\ dedup = <<>>
  /\ counts = NoCounts
  /\ holder = "nobody" /\ cleared = <<>>
  /\ writer = [w \in Writers |-> IdleWriter]
  /\ verifier = [v \in Verifiers |-> IdleVerifier]
  /\ latest = 0 /\ late = {} /\ dropped = {}

Tick ==
  /\ clock < MaxClock
  /\ clock' = clock + 1
  /\ UNCHANGED <<chainVars, counts, holder, writer, cleared, verifier, latest, late, dropped>>

---------------------------------------------------------------------------
(* append. *)

\* _validate_data: not too deep, and its leaves survive a round trip.
ValidData(data) ==
  /\ data.depth <= MaxDataDepth
  /\ data.leaves \subseteq {"short string", "finite number", "boolean", "null"}

\* validate_event_body: the log stamps the time itself.
ValidEventBody(body) ==
  /\ {"source", "kind", "actor"} \subseteq DOMAIN body
  /\ "" \notin {body.source, body.kind, body.actor}
  /\ "ts_ns" \notin DOMAIN body
  /\ "data" \in DOMAIN body => ValidData(body.data)

\* By which a retry is recognised, whoever the actor is.
DedupKey(body) ==
  <<body.source, body.kind, IF "data" \in DOMAIN body THEN body.data ELSE <<>> >>

\* A valid body: the time is read before the lock is taken.
ReadTime(w, k) ==
  /\ writer[w].at = "idle"
  /\ writer' = [writer EXCEPT ![w] = [at |-> "timed", key |-> k, now |-> clock]]
  /\ UNCHANGED <<clock, chainVars, counts, holder, cleared, verifier, latest, late, dropped>>

\* POST /events; a body that is not valid is refused.
PostEvent(w, body) == ValidEventBody(body) /\ ReadTime(w, DedupKey(body))

\* Mutant: an entry expires when the window is reached, not when it is exceeded.
Pruned_AtTheEdge(now) == Picked(dedup, {i \in DOMAIN dedup : now - dedup[i].ts < Window})

Later(now) == IF now > latest THEN now ELSE latest

\* _prune_dedup.
Pruned(now) == Picked(dedup, {i \in DOMAIN dedup : now - dedup[i].ts <= Window})

\* The kept original of a retry, as a set of at most one record.
Original(k, now) ==
  {i \in DOMAIN records :
     \E d \in Range(Pruned(now)) : d.key = k /\ d.id = records[i].id}

\* Mutant: every record hangs on the empty hash.
Rechained_Unlinked(s) ==
  [i \in DOMAIN s |-> [s[i] EXCEPT !.prev = EmptyHash, !.hash = HashOf(s[i].id, EmptyHash)]]

\* _rechain_after_eviction: the records hash from the new head on.
Rechained(s) ==
  [i \in DOMAIN s |-> [s[i] EXCEPT !.prev = [j \in 1..(i - 1) |-> s[j].id],
                                   !.hash = HashOf(s[i].id, [j \in 1..(i - 1) |-> s[j].id])]]

\* A fresh key goes to the end, a key that is still there keeps its place.
Remembered(entries, entry) ==
  LET same == {i \in DOMAIN entries : entries[i].key = entry.key} IN
  IF same = {} THEN Append(entries, entry)
  ELSE [i \in DOMAIN entries |-> IF i \in same THEN entry ELSE entries[i]]

\* The new record, linked to the tail of a chain that has room for it.
Link(w, chain, tail) ==
  LET k == writer[w].key
      now == writer[w].now
      known == Remembered(Pruned(now), [key |-> k, id |-> nextId, ts |-> now]) IN
  /\ nextId < MaxAppends
  /\ records' = Append(chain, [id |-> nextId, key |-> k, ts |-> now,
                               prev |-> tail, hash |-> HashOf(nextId, tail)])
  /\ lastHash' = HashOf(nextId, tail)
  /\ nextId' = nextId + 1
  /\ dedup' = IF Len(known) > MaxKeys THEN Tail(known) ELSE known
  /\ dropped' = dropped \cup (IF Len(known) > MaxKeys THEN {known[1].id} ELSE {})
  /\ latest' = Later(now)
  /\ late' = late \cup (IF now < latest THEN {nextId} ELSE {})
  /\ writer' = [writer EXCEPT ![w] = IdleWriter]

\* append under the lock: a retry of what is kept is answered with the original.
AppendDuplicate(w) ==
  /\ writer[w].at = "timed" /\ holder = "nobody"
  /\ Original(writer[w].key, writer[w].now) # {}
  /\ dedup' = Pruned(writer[w].now)
  /\ latest' = Later(writer[w].now)
  /\ writer' = [writer EXCEPT ![w] = IdleWriter]
  /\ UNCHANGED <<clock, counts, records, lastHash, nextId, holder, cleared, verifier, late, dropped>>

IsFresh(w) ==
  /\ writer[w].at = "timed" /\ holder = "nobody"
  /\ Original(writer[w].key, writer[w].now) = {}

\* There is room.
AppendFresh(w) ==
  /\ IsFresh(w) /\ Len(records) < MaxKept
  /\ Link(w, records, lastHash)
  /\ counts' = [counts EXCEPT !.appended = @ + 1]
  /\ UNCHANGED <<clock, holder, cleared, verifier>>

\* There is none: the oldest record goes, and the dictionary is emptied before the
\* re-chained survivors are put back, which a thread without the lock can see.
EvictOldest(w) ==
  /\ IsFresh(w) /\ Len(records) >= MaxKept /\ nextId < MaxAppends
  /\ holder' = w
  /\ cleared' = Rechained(Tail(records))
  /\ records' = <<>>
  /\ counts' = [counts EXCEPT !.evicted = @ + 1]
  /\ UNCHANGED <<clock, lastHash, nextId, dedup, writer, verifier, latest, late, dropped>>

AppendAfterEviction(w) ==
  /\ holder = w
  /\ Link(w, cleared, IF cleared = <<>> THEN EmptyHash ELSE Last(cleared).hash)
  /\ holder' = "nobody" /\ cleared' = <<>>
  /\ counts' = [counts EXCEPT !.appended = @ + 1]
  /\ UNCHANGED <<clock, verifier>>

---------------------------------------------------------------------------
(* GET /verify/{event_id}: the record is fetched under the lock, and its    *)
(* place and predecessor are looked up without it.                          *)

VerifyFetch(v) ==
  /\ verifier[v].at = "idle" /\ holder = "nobody"
  /\ \E i \in DOMAIN records :
       verifier' = [verifier EXCEPT ![v] =
         [at |-> "fetched", record |-> records[i], index |-> 0,
          evictions |-> counts.evicted, verdict |-> "none"]]
  /\ UNCHANGED <<clock, chainVars, counts, holder, writer, cleared, latest, late, dropped>>

\* _index_of.
VerifyLocate(v) ==
  /\ verifier[v].at = "fetched"
  /\ LET found == {i \in DOMAIN records : records[i].id = verifier[v].record.id}
         r == verifier[v].record IN
     verifier' = [verifier EXCEPT ![v] =
       IF r.hash # HashOf(r.id, r.prev) \/ found = {}
       THEN [@ EXCEPT !.at = "done", !.verdict = "bad"]
       ELSE [@ EXCEPT !.at = "located", !.index = CHOOSE i \in found : TRUE]]
  /\ UNCHANGED <<clock, chainVars, counts, holder, writer, cleared, latest, late, dropped>>

\* The link to the record now before that place; a place that is gone is an error.
VerifyLink(v) ==
  /\ verifier[v].at = "located"
  /\ LET i == verifier[v].index
         verdict == IF i = 1
                    THEN IF verifier[v].record.prev = EmptyHash THEN "ok" ELSE "bad"
                    ELSE IF i - 1 \notin DOMAIN records THEN "error"
                    ELSE IF verifier[v].record.prev = records[i - 1].hash THEN "ok" ELSE "bad" IN
     verifier' = [verifier EXCEPT ![v].at = "done", ![v].verdict = verdict]
  /\ UNCHANGED <<clock, chainVars, counts, holder, writer, cleared, latest, late, dropped>>

VerifyReturn(v) ==
  /\ verifier[v].at = "done"
  /\ verifier' = [verifier EXCEPT ![v] = IdleVerifier]
  /\ UNCHANGED <<clock, chainVars, counts, holder, writer, cleared, latest, late, dropped>>

AuditNext ==
  \/ Tick
  \/ \E w \in Writers :
       \/ \E body \in Bodies : PostEvent(w, body)
       \/ AppendDuplicate(w) \/ AppendFresh(w) \/ EvictOldest(w) \/ AppendAfterEviction(w)
  \/ \E v \in Verifiers :
       VerifyFetch(v) \/ VerifyLocate(v) \/ VerifyLink(v) \/ VerifyReturn(v)

AuditSpec == AuditInit /\ [][AuditNext]_auditVars

---------------------------------------------------------------------------
Faulty(chain, i) ==
  \/ chain[i].hash # HashOf(chain[i].id, chain[i].prev)
  \/ chain[i].prev # IF i = 1 THEN EmptyHash ELSE chain[i - 1].hash

\* What a verification answers; first_bad_index is 0 when no fault was met.
VerifyReport(length, first, truncated) ==
  [intact |-> first = 0 /\ ~truncated, chain_length |-> length, first_bad_index |-> first,
   truncated |-> truncated]

\* verify_chain: it walks a snapshot from the head, to a depth, up to the first fault.
VerifyChain(chain) ==
  LET bad == {i \in DOMAIN chain : i <= MaxVerifyDepth /\ Faulty(chain, i)} IN
  IF bad = {} THEN VerifyReport(Len(chain), 0, Len(chain) > MaxVerifyDepth)
  ELSE VerifyReport(Len(chain), CHOOSE i \in bad : \A j \in bad : i <= j, FALSE)

\* GET /stats: what is taken under the lock.
Stats == [chain_length |-> Len(records), appended |-> counts.appended, evicted |-> counts.evicted,
          tail_hash |-> lastHash]

\* GET /events/{event_id}: an id that is not kept was evicted when the oldest kept one is newer.
SaysEvicted(id) == records # <<>> /\ records[1].id > id

\* Outside the critical section the chain verifies from its head to its tail, through every
\* eviction and re-chaining, unless the walk is cut short, and the next record will hang on
\* its last hash (audit_engine.py:258, 369).
Verifies ==
  LET report == VerifyChain(records) IN
  /\ report.intact \/ report.truncated
  /\ Stats.tail_hash = IF records = <<>> THEN EmptyHash ELSE Last(records).hash

\* What is kept are the newest records, without a hole in their ids; the counters of the
\* status page explain them, and an id that was given out and is not kept is answered as
\* evicted (audit_engine.py:202, 253, controller.py:152).
KeptAreTheNewest ==
  /\ Stats.appended - Stats.evicted = Stats.chain_length
  /\ \A i \in DOMAIN records : records[i].id = nextId - Len(records) + i - 1
  /\ \A id \in 0..(nextId - 1) : SaysEvicted(id) <=> \A i \in DOMAIN records : records[i].id # id

ChainIsIntact == holder = "nobody" => Verifies /\ KeptAreTheNewest

\* A retry within the window of what is kept is never chained again, unless the dedup
\* memory had to drop the key, or the retry's time is older than one the log already went
\* by: the time is read before the lock (audit_engine.py:179, 181).
RetryIsFolded ==
  \A i, j \in DOMAIN records :
    i < j /\ records[i].key = records[j].key =>
      records[j].ts - records[i].ts > Window \/ records[i].id \in dropped \/ records[j].id \in late

\* A record the log holds is reported as tampered with, or the verification fails, only
\* when an eviction re-chained the log between its steps (audit_engine.py:355, 359).
BadVerdictMeansEviction ==
  \A v \in Verifiers :
    verifier[v].verdict \in {"bad", "error"} => verifier[v].evictions < counts.evicted

===========================================================================
