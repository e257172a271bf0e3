----------------------------- MODULE ConfigStore -----------------------------
(***************************************************************************)
(* The configuration store of S11 (cfgs.config_store) and the clients that *)
(* follow one service through its long poll.                               *)
(*                                                                         *)
(* Every operation holds the one lock.  Services and flags are names; a    *)
(* document gives some of its keys a value.  A change event is known by    *)
(* its number, its kind, the name it is filed under and the revision it    *)
(* carries.                                                                *)
(***************************************************************************)
EXTENDS Integers, Sequences, SequencesExt, FiniteSetsExt, Subsequences

CONSTANTS
  Names,        \* names of services and flags
  Watched,      \* the service the followers follow
  Envs,         \* environments
  DefaultEnv,   \* cfg.overrides.default_env
  Keys,         \* keys of the documents
  Payloads,     \* the documents that clients put
  Partials,     \* the documents that clients set as overrides
  Values,       \* values of keys and flags
  None,         \* no value, no document, no flag
  MaxServices, MaxRevisions, MaxEvents, MaxFlags, MaxFlagHistory,   \* the store's limits
  Followers,
  MaxChanges    \* bound: recorded changes

Documents == [Keys -> Values \cup {None}]

\* validate_config: what the store's limits must satisfy for the service to start.
ValidStoreConfig ==
  /\ DefaultEnv \in Envs
  /\ \A limit \in {MaxServices, MaxRevisions, MaxEvents, MaxFlags, MaxFlagHistory} :
       limit \in Nat \ {0}

ASSUME ConfigAssumption ==
  /\ ValidStoreConfig
  /\ Watched \in Names /\ None \notin Values /\ None \notin Documents
  /\ Payloads \subseteq Documents /\ Partials \subseteq Documents /\ MaxChanges \in Nat

VARIABLES
  blobs,      \* name -> its current blob; revision 0 when there is none
  revisions,  \* name -> the prior revisions that are kept, oldest first
  overrides,  \* name -> environment -> override
  flags,      \* name -> its value and the values its history keeps
  changes,    \* the change log, oldest first
  nextSeq,    \* the number of the next change
  seqOf,      \* name -> the number of its last change
  totals,     \* upserts_total, overrides_set_total, overrides_cleared_total, flag_changes_total
  follower    \* follower -> where it is, the number it has seen, the configuration it runs with

storeVars == <<blobs, revisions, overrides, flags>>
logVars == <<changes, nextSeq, seqOf>>
configVars == <<storeVars, logVars, totals, follower>>

NoBlob == [revision |-> 0, payload |-> None, env |-> DefaultEnv]

Blob == [revision : Nat, payload : Documents \cup {None}, env : Envs]
Change == [seq : Nat, kind : {"config_update", "override_set", "override_clear", "flag_change"},
           name : Names, revision : Nat]
FlagState == [value : Values \cup {None}, history : Seq(Values)]

\* The last n elements of a list the code trims with del xs[: len(xs) - n].
Newest(s, n) == IF Len(s) > n THEN SubSeq(s, Len(s) - n + 1, Len(s)) ELSE s

Stored == {s \in Names : blobs[s].revision > 0}
\* list_overrides(): the environments that have one.
ListOverrides(s) == {e \in Envs : overrides[s][e] # None}
Flagged == {f \in Names : flags[f].value # None}

\* deep_merge: the override's values replace those of the base, key by key.
DeepMerge(base, partial) ==
  IF partial = None THEN base
  ELSE [k \in Keys |-> IF partial[k] # None THEN partial[k] ELSE base[k]]

\* get(): the payload under the override of the blob's environment; an unknown service has none.
Effective(s) ==
  IF s \in Stored THEN DeepMerge(blobs[s].payload, overrides[s][blobs[s].env]) ELSE None

ConfigInit ==
  /\ blobs = [s \in Names |-> NoBlob]
  /\ revisions = [s \in Names |-> <<>>]
  /\ overrides = [s \in Names |-> [e \in Envs |-> None]]
  /\ flags = [f \in Names |-> [value |-> None, history |-> <<>>]]
  /\ changes = <<>> /\ nextSeq = 1 /\ seqOf = [s \in Names |-> 0]
  /\ totals = [upserts |-> 0, sets |-> 0, clears |-> 0, flags |-> 0]
  /\ follower = [w \in Followers |-> [at |-> "idle", since |-> 0, config |-> None]]

---------------------------------------------------------------------------
(* The operations that change the store. *)

\* _record_change and notify_all; revision is that of the blob the event is about.
RecordChange(kind, name, revision) ==
  /\ nextSeq <= MaxChanges
  /\ changes' = Newest(Append(changes, [seq |-> nextSeq, kind |-> kind, name |-> name,
                                        revision |-> revision]), MaxEvents)
  /\ nextSeq' = nextSeq + 1
  /\ seqOf' = [seqOf EXCEPT ![name] = nextSeq]

\* Mutant: the revision that is replaced is dropped and the one before it kept twice.
Upsert_KeepsNewRevision(s, payload, env) ==
  /\ s \in Stored \/ Cardinality(Stored) < MaxServices
  /\ LET revision == blobs[s].revision + 1 IN
     /\ blobs' = [blobs EXCEPT ![s] = [revision |-> revision, payload |-> payload,
                                       env |-> IF env = None THEN @.env ELSE env]]
     /\ revisions' = IF s \in Stored
                     THEN [revisions EXCEPT ![s] = Newest(Append(@, revision), MaxRevisions)]
                     ELSE revisions
     /\ RecordChange("config_update", s, revision)
  /\ totals' = [totals EXCEPT !.upserts = @ + 1]
  /\ UNCHANGED <<overrides, flags, follower>>

\* upsert; a full store refuses a new service and changes nothing.
Upsert(s, payload, env) ==
  /\ s \in Stored \/ Cardinality(Stored) < MaxServices
  /\ LET revision == blobs[s].revision + 1 IN
     /\ blobs' = [blobs EXCEPT ![s] = [revision |-> revision, payload |-> payload,
                                       env |-> IF env = None THEN @.env ELSE env]]
     /\ revisions' = IF s \in Stored
                     THEN [revisions EXCEPT ![s] = Newest(Append(@, blobs[s].revision), MaxRevisions)]
                     ELSE revisions
     /\ RecordChange("config_update", s, revision)
  /\ totals' = [totals EXCEPT !.upserts = @ + 1]
  /\ UNCHANGED <<overrides, flags, follower>>

\* set_override; the service need not be known.
SetOverride(s, env, value) ==
  /\ overrides' = [overrides EXCEPT ![s][env] = value]
  /\ RecordChange("override_set", s, blobs[s].revision)
  /\ totals' = [totals EXCEPT !.sets = @ + 1]
  /\ UNCHANGED <<blobs, revisions, flags, follower>>

\* Mutant: an event is recorded only while overrides of the service are left.
ClearOverride_SilentWhenLast(s, envs) ==
  LET cleared == envs \cap ListOverrides(s) IN
  /\ cleared # {}
  /\ overrides' = [overrides EXCEPT ![s] = [e \in Envs |-> IF e \in cleared THEN None ELSE @[e]]]
  /\ IF ListOverrides(s) # cleared
     THEN RecordChange("override_clear", s, blobs[s].revision) ELSE UNCHANGED logVars
  /\ totals' = [totals EXCEPT !.clears = @ + 1]
  /\ UNCHANGED <<blobs, revisions, flags, follower>>

\* clear_override, of one environment or of all; with nothing to clear nothing happens.
ClearOverride(s, envs) ==
  LET cleared == envs \cap ListOverrides(s) IN
  /\ cleared # {}
  /\ overrides' = [overrides EXCEPT ![s] = [e \in Envs |-> IF e \in cleared THEN None ELSE @[e]]]
  /\ RecordChange("override_clear", s, blobs[s].revision)
  /\ totals' = [totals EXCEPT !.clears = @ + 1]
  /\ UNCHANGED <<blobs, revisions, flags, follower>>

\* set_flag; the event is filed under the flag's name.
SetFlag(f, value) ==
  /\ f \in Flagged \/ Cardinality(Flagged) < MaxFlags
  /\ flags' = [flags EXCEPT ![f] = [value |-> value,
                                    history |-> Newest(Append(@.history, value), MaxFlagHistory)]]
  /\ RecordChange("flag_change", f, 0)
  /\ totals' = [totals EXCEPT !.flags = @ + 1]
  /\ UNCHANGED <<blobs, revisions, overrides, follower>>

---------------------------------------------------------------------------
(* The handlers.  One that is refused for its body changes nothing.  After the *)
(* store's lock they post an audit event and an alert, and a failure of either *)
(* is swallowed: no state here depends on it.                                  *)

\* PUT /config/{service}: the body, or its "payload" field, is the document.
PutConfig(s, body) == body # None /\ Upsert(s, body.payload, body.env)

\* POST /overrides: both the service and the override are required.
PostOverride(body) ==
  /\ body.service # None /\ body.override # None
  /\ SetOverride(body.service, IF body.env = None THEN DefaultEnv ELSE body.env, body.override)

\* DELETE /overrides: without an environment all are cleared.
DeleteOverride(body) ==
  /\ body.service # None
  /\ ClearOverride(body.service, IF body.env = None THEN Envs ELSE {body.env})

\* PUT /flags/{name}: a value is required.
PutFlag(f, body) == body # None /\ SetFlag(f, body.value)

\* What the audit client posts for each of them.
AuditPost == [action |-> "change", actor |-> "config-service", source_service |-> "config-service",
              detail |-> "a change"]

---------------------------------------------------------------------------
(* What the read handlers answer. *)

\* GET /versions: the revisions of a service, the current one last.
Versions(s) == Append(revisions[s], blobs[s].revision)

\* GET /changes: of the events after since, the last limit.
ChangesSince(since, limit) ==
  Newest(Picked(changes, {i \in DOMAIN changes : changes[i].seq > since}), limit)

\* GET /stats: latest_seq is the number of the last event that is kept.
StatsView ==
  [services_tracked |-> Cardinality(Stored),
   overrides_active |-> Cardinality({x \in Names \X Envs : overrides[x[1]][x[2]] # None}),
   flags |-> Cardinality(Flagged),
   change_events |-> Len(changes),
   latest_seq |-> IF changes = <<>> THEN 0 ELSE Last(changes).seq]

---------------------------------------------------------------------------
(* wait_for_change, and a client that runs with what it last read. *)

NewsFor(since) == {c \in Range(changes) : c.seq > since /\ c.name = Watched}

\* The client (external) asks for what is newer than what it has seen.
Ask(w) ==
  /\ follower[w].at = "idle"
  /\ follower' = [follower EXCEPT ![w].at = "waiting"]
  /\ UNCHANGED <<storeVars, logVars, totals>>

\* Mutant: only a notification after the call wakes the waiter, not an event before it.
Wake_ByNextEvent(w) ==
  /\ follower[w].at = "waiting"
  /\ Cardinality(NewsFor(follower[w].since)) > 1
  /\ follower' = [follower EXCEPT ![w].at = "told", ![w].since = seqOf[Watched]]
  /\ UNCHANGED <<storeVars, logVars, totals>>

\* The wait finds an event: latest_seq is the number of the service's last one.
Wake(w) ==
  /\ follower[w].at = "waiting"
  /\ NewsFor(follower[w].since) # {}
  /\ follower' = [follower EXCEPT ![w].at = "told", ![w].since = seqOf[Watched]]
  /\ UNCHANGED <<storeVars, logVars, totals>>

\* The deadline passes without one: changed is false and the client asks again.
TimeOut(w) ==
  /\ follower[w].at = "waiting"
  /\ NewsFor(follower[w].since) = {}
  /\ follower' = [follower EXCEPT ![w].at = "idle"]
  /\ UNCHANGED <<storeVars, logVars, totals>>

\* The client (external) answers a change with GET /config/{service}.
Reread(w) ==
  /\ follower[w].at = "told"
  /\ follower' = [follower EXCEPT ![w].at = "idle", ![w].config = Effective(Watched)]
  /\ UNCHANGED <<storeVars, logVars, totals>>

Follow(w) == Ask(w) \/ Wake(w) \/ TimeOut(w) \/ Reread(w)

ConfigNext ==
  \/ \E s \in Names, e \in Envs \cup {None} :
       \/ \E doc \in Payloads : PutConfig(s, [payload |-> doc, env |-> e])
       \/ \E doc \in Partials : PostOverride([service |-> s, env |-> e, override |-> doc])
       \/ DeleteOverride([service |-> s, env |-> e])
  \/ \E f \in Names, v \in Values : PutFlag(f, [value |-> v])
  \/ \E w \in Followers : Follow(w)

\* A waiting call re-checks in slices of poll_granularity_ms; the client keeps asking.
ConfigSpec ==
  ConfigInit /\ [][ConfigNext]_configVars /\ \A w \in Followers : WF_configVars(Follow(w))

---------------------------------------------------------------------------
ConfigTypeOK ==
  /\ blobs \in [Names -> Blob]
  /\ revisions \in [Names -> Seq(Nat)]
  /\ overrides \in [Names -> [Envs -> Documents \cup {None}]]
  /\ flags \in [Names -> FlagState]
  /\ changes \in Seq(Change) /\ nextSeq \in Nat \ {0} /\ seqOf \in [Names -> Nat]
  /\ totals \in [upserts : Nat, sets : Nat, clears : Nat, flags : Nat]

\* The change log names every change once and in order: the numbers of what it keeps run
\* without a hole up to the last one given, as many as the counters say, and each name's
\* last number is that of its newest event (config_store.py:82).  The log and what GET /stats
\* says of it agree, and a client that reads all pages misses none of what is kept.
LogIsDense ==
  /\ totals.upserts + totals.sets + totals.clears + totals.flags = nextSeq - 1
  /\ StatsView.latest_seq = nextSeq - 1
  /\ ChangesSince(nextSeq - 1 - Len(changes), MaxEvents) = changes
  /\ \A i \in DOMAIN changes : changes[i].seq = nextSeq - 1 - Len(changes) + i
  /\ \A i \in DOMAIN changes :
       \/ seqOf[changes[i].name] = changes[i].seq
       \/ \E j \in (i + 1)..Len(changes) : changes[j].name = changes[i].name

\* An operator can go back step by step: the kept revisions of a service and its current
\* one are consecutive, and the newest update the log keeps of it is its current revision
\* (config_store.py:128).
RevisionsAreConsecutive ==
  \A s \in Names :
    /\ \A i \in DOMAIN revisions[s] :
         Versions(s)[i + 1] = Versions(s)[i] + 1
    /\ \A i \in DOMAIN changes :
         LET c == changes[i] IN
         c.kind = "config_update" /\ c.name = s =>
           \/ c.revision = blobs[s].revision
           \/ \E j \in (i + 1)..Len(changes) :
                changes[j].kind = "config_update" /\ changes[j].name = s
                  /\ changes[j].revision = c.revision + 1

\* Both records an operator relies on are without holes.
HistoriesAreDense == LogIsDense /\ RevisionsAreConsecutive

\* Events of other names have pushed the last event of the service out of the log.
Forgotten == changes # <<>> /\ changes[1].seq > seqOf[Watched]

\* A client that re-reads the configuration after each change it is told of runs with the
\* effective one, unless a change it has not been told of is waiting for it; what it can
\* miss is a change the bounded log forgot first (config_store.py:338).
FollowerIsCurrent ==
  \A w \in Followers :
    \/ follower[w].config = Effective(Watched)
    \/ follower[w].at = "told"
    \/ NewsFor(follower[w].since) # {}
    \/ Forgotten

\* The long poll tells it: whenever it does not run with the effective configuration it
\* comes to do so, or the log forgets the change (config_store.py:359).
FollowerCatchesUp ==
  \A w \in Followers : follower[w].config # Effective(Watched)
                         ~> follower[w].config = Effective(Watched) \/ Forgotten

===========================================================================
