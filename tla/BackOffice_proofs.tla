-------------------------- MODULE BackOffice_proofs --------------------------
(***************************************************************************)
(* The services beside the trading path, each on its own: the              *)
(* configuration store, the audit log, the settlement runs and the data    *)
(* quality monitor.                                                        *)
(***************************************************************************)
EXTENDS ConfigStore, AuditChain, Settlement, Quality, Induction, SequenceTheorems, FiniteSetTheorems,
        TLAPS

---------------------------------------------------------------------------
(***************************************************************************)
(* The followers of the configuration store, for any names, environments,  *)
(* documents, limits and number of followers: one that is not told of a    *)
(* change runs with the effective configuration, or the change waits for   *)
(* it in the log, or the bounded log has forgotten it.                     *)
(*                                                                         *)
(* The number of a service's last change stands for the change: it moves   *)
(* whenever the effective configuration does, past what every follower has *)
(* seen, and the log holds that change for as long as its numbers reach    *)
(* back to it.                                                             *)
(***************************************************************************)

Entries == [seq : Nat, kind : {"config_update", "override_set", "override_clear", "flag_change"},
            name : Names, revision : Nat]

\* The number of the last change the log has forgotten.
Gone == nextSeq - 1 - Len(changes)

LogType ==
  /\ changes \in Seq(Entries) /\ nextSeq \in Nat \ {0}
  /\ seqOf \in [Names -> Nat]

\* The numbers of the log run without a hole to the last one given, and what the last
\* number of the service points at, if it is there, is a change of the service.
LogInv ==
  /\ LogType
  /\ Gone >= 0 /\ (nextSeq > 1 => Len(changes) > 0)
  /\ \A i \in 1..Len(changes) : changes[i].seq = Gone + i
  /\ \A s \in Names : seqOf[s] < nextSeq
  /\ seqOf[Watched] > Gone => changes[seqOf[Watched] - Gone].name = Watched

StoreType ==
  /\ blobs = [s \in Names |-> blobs[s]] /\ \A s \in Names : blobs[s].revision \in Nat
  /\ overrides = [s \in Names |-> overrides[s]]

\* A follower that is not told runs with the effective configuration or has not seen the
\* last change of the service.
Followed(w) ==
  /\ follower[w].since \in Nat /\ follower[w].since < nextSeq
  /\ DOMAIN follower[w] = {"at", "since", "config"}
  /\ \/ follower[w].config = Effective(Watched)
     \/ follower[w].at = "told"
     \/ follower[w].since < seqOf[Watched]

FollowInv ==
  /\ LogInv /\ StoreType
  /\ follower = [w \in Followers |-> follower[w]]
  /\ \A w \in Followers : Followed(w)

---------------------------------------------------------------------------
\* What the trimming of a list leaves.
LEMMA NewestOf ==
  ASSUME NEW S, NEW s \in Seq(S), NEW n \in Nat \ {0}
  PROVE  /\ Newest(s, n) \in Seq(S) /\ Len(Newest(s, n)) \in Nat
         /\ Len(Newest(s, n)) = IF Len(s) > n THEN n ELSE Len(s)
         /\ \A i \in 1..Len(Newest(s, n)) : Newest(s, n)[i] = s[Len(s) - Len(Newest(s, n)) + i]
<1>0. Len(s) \in Nat /\ \A i \in 1..Len(s) : s[i] \in S
  BY LenProperties, ElementOfSeq
<1>1. CASE Len(s) > n
  <2> DEFINE m == Len(s) - n + 1
  <2>1. m \in Int /\ \A i \in m..Len(s) : s[i] \in S
    BY <1>0, <1>1
  <2>2. /\ SubSeq(s, m, Len(s)) \in Seq(S)
        /\ Len(SubSeq(s, m, Len(s))) = IF m <= Len(s) THEN Len(s) - m + 1 ELSE 0
        /\ \A i \in 1..(Len(s) - m + 1) : SubSeq(s, m, Len(s))[i] = s[m + i - 1]
    BY <1>0, <2>1, SubSeqProperties
  <2>3. Newest(s, n) = SubSeq(s, m, Len(s))
    BY <1>1 DEF Newest
  <2> HIDE DEF Newest
  <2> QED BY <1>0, <1>1, <2>2, <2>3
<1>2. CASE ~(Len(s) > n)
  BY <1>0, <1>2 DEF Newest
<1> QED BY <1>1, <1>2

\* What is recorded of a change.
Event(kind, name, revision) == [seq |-> nextSeq, kind |-> kind, name |-> name, revision |-> revision]

\* The log after it: it comes to the end, and what was at the head may go.
Extended(log, new, after) ==
  /\ after \in Seq(Entries) /\ Len(after) \in 1..(Len(log) + 1) /\ Len(after) <= MaxEvents
  /\ \A i \in 1..Len(after) : after[i] = Append(log, new)[Len(log) + 1 - Len(after) + i]

LEMMA RecordedTail ==
  ASSUME LogInv, NEW name \in Names, NEW revision \in Nat,
         NEW kind \in {"config_update", "override_set", "override_clear", "flag_change"},
         RecordChange(kind, name, revision)
  PROVE  Extended(changes, Event(kind, name, revision), changes')
<1> DEFINE new == Event(kind, name, revision)
           all == Append(changes, new)
           n == Len(changes)
           log == Newest(all, MaxEvents)
           kept == Len(changes')
<1>0. /\ changes \in Seq(Entries) /\ n \in Nat /\ nextSeq \in Nat /\ MaxEvents \in Nat \ {0}
      /\ changes' = log
  BY LenProperties, ConfigAssumption DEF LogInv, LogType, ValidStoreConfig, RecordChange, Event
<1>1. all \in Seq(Entries) /\ Len(all) = n + 1
  <2>1. new \in Entries
    BY <1>0 DEF Entries, Event
  <2> QED BY <1>0, <2>1, AppendProperties
<1> HIDE DEF all
<1>2. /\ log \in Seq(Entries) /\ Len(log) \in Nat
      /\ Len(log) = IF Len(all) > MaxEvents THEN MaxEvents ELSE Len(all)
      /\ \A i \in 1..Len(log) : log[i] = all[Len(all) - Len(log) + i]
  BY <1>0, <1>1, NewestOf
<1>3. kept = Len(log)
  BY <1>0
<1> HIDE DEF log, n, kept
<1>4. kept \in 1..(n + 1) /\ kept <= MaxEvents
  BY <1>0, <1>1, <1>2, <1>3
<1>5. ASSUME NEW i \in 1..kept PROVE changes'[i] = all[n + 1 - kept + i]
  <2>1. log[i] = all[Len(all) - Len(log) + i]
    BY <1>2, <1>3
  <2>2. Len(all) - Len(log) + i = n + 1 - kept + i
    BY <1>0, <1>1, <1>3, <1>4
  <2> QED BY <1>0, <2>1, <2>2
<1> QED BY <1>0, <1>1, <1>2, <1>4, <1>5 DEF all, n, kept, Extended

\* The log after a change of a name that there is, recorded with any revision.
LEMMA RecordChangeLog ==
  ASSUME LogInv, NEW name \in Names, NEW revision \in Nat,
         NEW kind \in {"config_update", "override_set", "override_clear", "flag_change"},
         RecordChange(kind, name, revision)
  PROVE  /\ LogInv' /\ nextSeq' = nextSeq + 1 /\ seqOf'[name] = nextSeq
         /\ \A s \in Names : s # name => seqOf'[s] = seqOf[s]
<1>0. PICK new \in Entries : new = Event(kind, name, revision)
  BY DEF LogInv, LogType, Entries, Event
<1> DEFINE all == Append(changes, new)
           n == Len(changes)
           kept == Len(changes')
<1>1. /\ changes \in Seq(Entries) /\ nextSeq \in Nat \ {0} /\ seqOf \in [Names -> Nat]
      /\ n \in Nat /\ Gone \in Nat /\ Gone = nextSeq - 1 - n
      /\ nextSeq' = nextSeq + 1 /\ seqOf' = [seqOf EXCEPT ![name] = nextSeq]
      /\ Watched \in Names /\ new.seq = nextSeq /\ new.name = name
  BY <1>0, LenProperties, ConfigAssumption DEF LogInv, LogType, Gone, RecordChange, Event
<1>3. Len(all) = n + 1 /\ (\A i \in 1..n : all[i] = changes[i]) /\ all[n + 1] = new
  BY <1>1, AppendProperties
<1>5. /\ changes' \in Seq(Entries) /\ kept \in 1..(n + 1)
      /\ \A i \in 1..kept : changes'[i] = all[n + 1 - kept + i]
  <2>1. Extended(changes, new, changes')
    BY <1>0, RecordedTail
  <2> QED BY <2>1 DEF Extended
<1> HIDE DEF all
<1>4. ASSUME NEW i \in 1..(n + 1)
      PROVE  all[i].seq = Gone + i
  <2>1. CASE i \in 1..n
    BY <1>3, <2>1 DEF LogInv
  <2>2. CASE i = n + 1
    <3> HIDE DEF n
    <3>1. Gone + (n + 1) = nextSeq
      BY <1>1
    <3> QED BY <1>1, <1>3, <2>2, <3>1
  <2> QED BY <1>1, <2>1, <2>2
<1>6. Gone' = nextSeq - kept /\ Gone' >= 0 /\ Gone' = Gone + (n + 1 - kept)
  BY <1>1, <1>5 DEF Gone
<1> HIDE DEF kept
<1>7. \A i \in 1..kept : changes'[i].seq = Gone' + i
  <2> SUFFICES ASSUME NEW i \in 1..kept PROVE changes'[i].seq = Gone' + i
    OBVIOUS
  <2>1. n + 1 - kept + i \in 1..(n + 1)
    BY <1>1, <1>5
  <2>2. changes'[i].seq = Gone + (n + 1 - kept + i)
    BY <1>4, <1>5, <2>1
  <2> QED BY SMTT(30), <1>1, <1>5, <1>6, <2>2
<1>8. \A s \in Names : seqOf'[s] = (IF s = name THEN nextSeq ELSE seqOf[s]) /\ seqOf'[s] < nextSeq'
  <2>1. ASSUME NEW s \in Names PROVE seqOf[s] \in Nat /\ seqOf[s] < nextSeq
    BY <1>1 DEF LogInv
  <2>2. ASSUME NEW s \in Names PROVE seqOf'[s] = IF s = name THEN nextSeq ELSE seqOf[s]
    BY <1>1
  <2>3. ASSUME NEW s \in Names PROVE seqOf'[s] < nextSeq'
    <3>1. nextSeq \in Nat /\ nextSeq' = nextSeq + 1
      BY <1>1
    <3>2. CASE s = name
      BY <2>2, <3>1, <3>2
    <3>3. CASE s # name
      BY <2>1, <2>2, <3>1, <3>3
    <3> QED BY <3>2, <3>3
  <2> QED BY <2>2, <2>3
<1>9. seqOf'[Watched] > Gone' => changes'[seqOf'[Watched] - Gone'].name = Watched
  <2> SUFFICES ASSUME seqOf'[Watched] > Gone'
               PROVE  changes'[seqOf'[Watched] - Gone'].name = Watched
    OBVIOUS
  <2> DEFINE i == seqOf'[Watched] - Gone'
  <2>1. i \in 1..kept /\ n + 1 - kept + i = seqOf'[Watched] - Gone
    <3> DEFINE s == seqOf'[Watched]
    <3>1. s \in Nat /\ s < nextSeq + 1 /\ s > Gone'
      BY <1>1, <1>8
    <3>2. n \in Int /\ kept \in Int /\ nextSeq \in Int /\ Gone \in Int
      BY <1>1, <1>5
    <3>3. Gone' = nextSeq - kept /\ Gone' = Gone + (n + 1 - kept)
      BY <1>6
    <3> HIDE DEF s, n
    <3>4. i = s - nextSeq + kept
      BY <3>1, <3>2, <3>3 DEF s
    <3>5. i >= 1 /\ i \in Int
      BY <3>1, <3>2, <3>3, <3>4 DEF s
    <3>6. i <= kept
      BY <3>1, <3>2, <3>4
    <3>7. n + 1 - kept + i = s - Gone
      BY <3>1, <3>2, <3>3, <3>4
    <3> QED BY <3>2, <3>5, <3>6, <3>7 DEF s
  <2>2. changes'[i] = all[seqOf'[Watched] - Gone]
    BY <1>5, <2>1
  <2>3. CASE Watched = name
    BY <1>1, <1>3, <1>8, <2>2, <2>3
  <2>4. CASE Watched # name
    <3>1. seqOf'[Watched] = seqOf[Watched] /\ seqOf[Watched] \in Nat /\ seqOf[Watched] < nextSeq
      BY <1>1, <1>8, <2>4 DEF LogInv
    <3>2. seqOf[Watched] > Gone /\ seqOf[Watched] - Gone \in 1..n
      BY SMTT(60), <1>1, <1>5, <1>6, <3>1
    <3> QED BY <1>3, <2>2, <3>1, <3>2 DEF LogInv
  <2> QED BY <2>3, <2>4
<1>10. seqOf' \in [Names -> Nat] /\ nextSeq' \in Nat \ {0}
  BY <1>1
<1>11. LogType'
  BY <1>5, <1>10 DEF LogType
<1>12. LogInv'
  <2>1. Gone' >= 0 /\ \A s \in Names : seqOf'[s] < nextSeq'
    BY <1>6, <1>8
  <2>2. kept > 0
    BY <1>1, <1>5
  <2>3. Len(changes') > 0 /\ \A i \in 1..Len(changes') : changes'[i].seq = Gone' + i
    BY <1>7, <2>2 DEF kept
  <2> QED BY <1>9, <1>11, <2>1, <2>3 DEF LogInv
<1>13. nextSeq' = nextSeq + 1 /\ seqOf'[name] = nextSeq /\ \A s \in Names : s # name => seqOf'[s] = seqOf[s]
  BY <1>1, <1>8
<1> QED BY <1>12, <1>13

---------------------------------------------------------------------------
LEMMA InitFollow == ConfigInit => FollowInv
<1> SUFFICES ASSUME ConfigInit PROVE FollowInv
  OBVIOUS
<1>1. LogInv
  BY EmptySeq, ConfigAssumption DEF ConfigInit, LogInv, LogType, Gone
<1>2. StoreType
  BY DEF ConfigInit, StoreType, NoBlob
<1>3. Effective(Watched) = None
  BY ConfigAssumption DEF ConfigInit, Effective, Stored, NoBlob
<1>4. \A w \in Followers : Followed(w)
  BY <1>3 DEF ConfigInit, Followed
<1> QED BY <1>1, <1>2, <1>4 DEF ConfigInit, FollowInv

\* A recorded change leaves every follower behind, or told, or the configuration as it was.
LEMMA RecordedFollow ==
  ASSUME FollowInv, NEW name \in Names, NEW revision \in Nat,
         NEW kind \in {"config_update", "override_set", "override_clear", "flag_change"},
         RecordChange(kind, name, revision), follower' = follower, StoreType',
         name # Watched => Effective(Watched)' = Effective(Watched)
  PROVE  FollowInv'
<1>1. /\ LogInv' /\ nextSeq' = nextSeq + 1 /\ seqOf'[name] = nextSeq
      /\ \A s \in Names : s # name => seqOf'[s] = seqOf[s]
  BY RecordChangeLog DEF FollowInv
<1>2. nextSeq \in Nat /\ Watched \in Names
  BY ConfigAssumption DEF FollowInv, LogInv, LogType
<1>3. ASSUME NEW w \in Followers PROVE Followed(w)'
  <2>1. Followed(w)
    BY DEF FollowInv
  <2>2. CASE name = Watched
    BY <1>1, <1>2, <2>1, <2>2 DEF Followed
  <2>3. CASE name # Watched
    BY <1>1, <1>2, <2>1, <2>3 DEF Followed
  <2> QED BY <2>2, <2>3
<1> QED BY <1>1, <1>3 DEF FollowInv

\* The effective configuration of a service is that of its blob and its overrides.
LEMMA EffectiveSame ==
  ASSUME blobs'[Watched] = blobs[Watched], overrides'[Watched] = overrides[Watched]
  PROVE  Effective(Watched)' = Effective(Watched)
  BY ConfigAssumption DEF Effective, Stored

LEMMA UpsertFollow ==
  ASSUME FollowInv, NEW s \in Names, NEW payload, NEW env, Upsert(s, payload, env)
  PROVE  FollowInv'
<1> DEFINE revision == blobs[s].revision + 1
<1>1. /\ blobs' = [blobs EXCEPT ![s] = [revision |-> revision, payload |-> payload,
                                        env |-> IF env = None THEN blobs[s].env ELSE env]]
      /\ RecordChange("config_update", s, revision) /\ overrides' = overrides
      /\ follower' = follower
  BY DEF Upsert
<1>2. revision \in Nat
  BY DEF FollowInv, StoreType
<1>3. \A t \in Names : blobs'[t].revision = (IF t = s THEN revision ELSE blobs[t].revision)
  BY <1>1 DEF FollowInv, StoreType
<1>4. StoreType'
  <2>1. blobs' = [t \in Names |-> blobs'[t]]
    BY <1>1 DEF FollowInv, StoreType
  <2> QED BY <1>1, <1>2, <1>3, <2>1 DEF FollowInv, StoreType
<1>5. s # Watched => Effective(Watched)' = Effective(Watched)
  BY <1>1, EffectiveSame, ConfigAssumption DEF FollowInv, StoreType
<1> HIDE DEF revision
<1> QED BY <1>1, <1>2, <1>4, <1>5, RecordedFollow

LEMMA OverridesFollow ==
  ASSUME FollowInv, NEW s \in Names, NEW entry, NEW kind \in {"override_set", "override_clear"},
         overrides' = [overrides EXCEPT ![s] = entry],
         RecordChange(kind, s, blobs[s].revision), UNCHANGED <<blobs, follower>>
  PROVE  FollowInv'
<1>1. blobs[s].revision \in Nat
  BY DEF FollowInv, StoreType
<1>2. StoreType'
  <2>1. overrides' = [t \in Names |-> overrides'[t]]
    BY DEF FollowInv, StoreType
  <2> QED BY <2>1 DEF FollowInv, StoreType
<1>3. s # Watched => Effective(Watched)' = Effective(Watched)
  BY EffectiveSame, ConfigAssumption DEF FollowInv, StoreType
<1> QED BY <1>1, <1>2, <1>3, RecordedFollow

LEMMA SetOverrideFollow ==
  ASSUME FollowInv, NEW s \in Names, NEW env, NEW value, SetOverride(s, env, value)
  PROVE  FollowInv'
<1>1. overrides' = [overrides EXCEPT ![s] = [overrides[s] EXCEPT ![env] = value]]
  BY DEF SetOverride
<1>2. RecordChange("override_set", s, blobs[s].revision) /\ UNCHANGED <<blobs, follower>>
  BY DEF SetOverride
<1> QED BY <1>1, <1>2, OverridesFollow

LEMMA ClearOverrideFollow ==
  ASSUME FollowInv, NEW s \in Names, NEW envs, ClearOverride(s, envs)
  PROVE  FollowInv'
<1> DEFINE gone == envs \cap ListOverrides(s)
           entry == [e \in Envs |-> IF e \in gone THEN None ELSE overrides[s][e]]
<1>1. overrides' = [overrides EXCEPT ![s] = entry]
  BY DEF ClearOverride
<1>2. RecordChange("override_clear", s, blobs[s].revision) /\ UNCHANGED <<blobs, follower>>
  BY DEF ClearOverride
<1> HIDE DEF entry
<1> QED BY <1>1, <1>2, OverridesFollow

LEMMA SetFlagFollow ==
  ASSUME FollowInv, NEW f \in Names, NEW value, SetFlag(f, value)
  PROVE  FollowInv'
<1>1. RecordChange("flag_change", f, 0) /\ UNCHANGED <<blobs, overrides, follower>>
  BY DEF SetFlag
<1>2. StoreType'
  BY <1>1 DEF FollowInv, StoreType
<1>3. Effective(Watched)' = Effective(Watched)
  BY <1>1, EffectiveSame
<1> QED BY <1>1, <1>2, <1>3, RecordedFollow

\* A follower that reads has the configuration; one that is told has seen the last change.
LEMMA FollowFollow ==
  ASSUME FollowInv, NEW w \in Followers, Follow(w)
  PROVE  FollowInv'
<1>0. UNCHANGED <<storeVars, logVars>>
  BY DEF Follow, Ask, Wake, TimeOut, Reread
<1>1. Effective(Watched)' = Effective(Watched) /\ LogInv' /\ StoreType'
  BY <1>0, EffectiveSame DEF storeVars, logVars, FollowInv, LogInv, LogType, Gone, StoreType
<1>2. seqOf[Watched] \in Nat /\ seqOf[Watched] < nextSeq
  BY ConfigAssumption DEF FollowInv, LogInv, LogType
<1>3. Followed(w) /\ follower = [v \in Followers |-> follower[v]]
  BY DEF FollowInv
<1>4. Followed(w)'
  <2>1. CASE Ask(w) \/ TimeOut(w)
    <3>1. \/ follower' = [follower EXCEPT ![w].at = "waiting"] /\ follower[w].at # "told"
          \/ follower' = [follower EXCEPT ![w].at = "idle"] /\ follower[w].at # "told"
      BY <2>1 DEF Ask, TimeOut
    <3>2. /\ follower'[w].since = follower[w].since /\ follower'[w].config = follower[w].config
          /\ DOMAIN follower'[w] = DOMAIN follower[w] /\ follower[w].at # "told"
      BY <1>3, <3>1 DEF Followed
    <3> QED BY <1>0, <1>1, <1>3, <3>2 DEF Followed, logVars
  <2>2. CASE Wake(w)
    <3>1. follower' = [follower EXCEPT ![w].at = "told", ![w].since = seqOf[Watched]]
      BY <2>2 DEF Wake
    <3>2. /\ follower'[w].since = seqOf[Watched] /\ follower'[w].at = "told"
          /\ DOMAIN follower'[w] = DOMAIN follower[w]
      BY <1>3, <3>1 DEF Followed
    <3> QED BY <1>0, <1>2, <1>3, <3>2 DEF Followed, logVars
  <2>3. CASE Reread(w)
    <3>1. follower' = [follower EXCEPT ![w].at = "idle", ![w].config = Effective(Watched)]
      BY <2>3 DEF Reread
    <3>2. /\ follower'[w].since = follower[w].since /\ follower'[w].config = Effective(Watched)
          /\ DOMAIN follower'[w] = DOMAIN follower[w]
      BY <1>3, <3>1 DEF Followed
    <3> QED BY <1>0, <1>1, <1>3, <3>2 DEF Followed, logVars
  <2> QED BY <2>1, <2>2, <2>3 DEF Follow
<1>5. /\ follower' = [v \in Followers |-> follower'[v]]
      /\ \A v \in Followers : v # w => follower'[v] = follower[v]
  BY <1>3 DEF Follow, Ask, Wake, TimeOut, Reread
<1>6. ASSUME NEW v \in Followers, v # w PROVE Followed(v)'
  BY <1>0, <1>1, <1>5, <1>6 DEF FollowInv, Followed, logVars
<1> QED BY <1>1, <1>4, <1>5, <1>6 DEF FollowInv

LEMMA NextFollow == FollowInv /\ [ConfigNext]_configVars => FollowInv'
<1> SUFFICES ASSUME FollowInv, [ConfigNext]_configVars PROVE FollowInv'
  OBVIOUS
<1>1. ASSUME NEW s \in Names, NEW e \in Envs \cup {None}, NEW doc \in Payloads,
             PutConfig(s, [payload |-> doc, env |-> e])
      PROVE  FollowInv'
  BY <1>1, UpsertFollow DEF PutConfig
<1>2. ASSUME NEW s \in Names, NEW e \in Envs \cup {None}, NEW doc \in Partials,
             PostOverride([service |-> s, env |-> e, override |-> doc])
      PROVE  FollowInv'
  BY <1>2, SetOverrideFollow DEF PostOverride
<1>3. ASSUME NEW s \in Names, NEW e \in Envs \cup {None},
             DeleteOverride([service |-> s, env |-> e])
      PROVE  FollowInv'
  BY <1>3, ClearOverrideFollow DEF DeleteOverride
<1>4. ASSUME NEW f \in Names, NEW v \in Values, PutFlag(f, [value |-> v])
      PROVE  FollowInv'
  BY <1>4, SetFlagFollow DEF PutFlag
<1>5. ASSUME UNCHANGED configVars PROVE FollowInv'
  <2>1. Effective(Watched)' = Effective(Watched)
    BY <1>5, EffectiveSame DEF configVars, storeVars
  <2> QED BY <1>5, <2>1 DEF configVars, storeVars, logVars, FollowInv, LogInv, LogType, Gone,
                              StoreType, Followed
<1> QED BY <1>1, <1>2, <1>3, <1>4, <1>5, FollowFollow DEF ConfigNext

LEMMA FollowInvariant == ConfigSpec => []FollowInv
  BY InitFollow, NextFollow, PTL DEF ConfigSpec

\* A client that follows the long poll runs with the effective configuration of its service,
\* unless it is being told of a change, or one waits for it, or the log forgot it first
\* (config_store.py:338, 359).
THEOREM FollowersAreCurrent == ConfigSpec => []FollowerIsCurrent
<1>1. FollowInv => FollowerIsCurrent
  <2> SUFFICES ASSUME FollowInv, NEW w \in Followers,
                      follower[w].config # Effective(Watched), follower[w].at # "told",
                      ~Forgotten
               PROVE  NewsFor(follower[w].since) # {}
    BY DEF FollowerIsCurrent
  <2> DEFINE last == seqOf[Watched]
             i == last - Gone
  <2>0. /\ changes \in Seq(Entries) /\ Len(changes) \in Nat /\ DOMAIN changes = 1..Len(changes)
        /\ nextSeq \in Nat \ {0} /\ last \in Nat /\ last < nextSeq /\ follower[w].since \in Nat
        /\ Gone = nextSeq - 1 - Len(changes)
    BY LenProperties, ConfigAssumption DEF FollowInv, LogInv, LogType, Followed, Gone
  <2>1. follower[w].since < last
    BY DEF FollowInv, Followed
  <2>2. Len(changes) > 0 /\ changes[1].seq = Gone + 1
    BY <2>0, <2>1 DEF FollowInv, LogInv
  <2>3. last > Gone
    BY <2>0, <2>2, EmptySeq DEF Forgotten
  <2>4. i \in 1..Len(changes) /\ changes[i].seq = last /\ changes[i].name = Watched
    <3>1. i \in 1..Len(changes)
      BY <2>0, <2>3
    <3> QED BY <2>0, <2>3, <3>1 DEF FollowInv, LogInv
  <2>5. changes[i] \in Range(changes)
    BY <2>0, <2>4 DEF Range
  <2> QED BY <2>1, <2>4, <2>5 DEF NewsFor
<1> QED BY <1>1, FollowInvariant, PTL

---------------------------------------------------------------------------
(***************************************************************************)
(* The two records an operator relies on, for any limits: the change log   *)
(* and the kept revisions.  Each is the end of a history without holes,    *)
(* and stays so when its head is cut off: what an event points at lies     *)
(* behind it.                                                              *)
(***************************************************************************)

\* An event carries the last number of its name, or a later one of the name follows.
LastNumbers ==
  \A i \in 1..Len(changes) :
    \/ seqOf[changes[i].name] = changes[i].seq
    \/ \E j \in (i + 1)..Len(changes) : changes[j].name = changes[i].name

IsUpdate(i) == changes[i].kind = "config_update"

\* An update carries the current revision, or the update to the next one follows.
UpdatesFollow ==
  \A i \in 1..Len(changes) : IsUpdate(i) =>
    \/ changes[i].revision = blobs[changes[i].name].revision
    \/ \E j \in (i + 1)..Len(changes) :
         /\ IsUpdate(j) /\ changes[j].name = changes[i].name
         /\ changes[j].revision = changes[i].revision + 1

LogDense == Len(changes) <= MaxEvents /\ LastNumbers /\ UpdatesFollow

\* The numbers right before r, in order.
RunUpTo(list, r) == list \in Seq(Nat) /\ \A i \in 1..Len(list) : list[i] = r - Len(list) + i - 1

\* The kept revisions of a service are those before the current one.
RevisionsKept(s) ==
  /\ RunUpTo(revisions[s], blobs[s].revision)
  /\ blobs[s].revision = 0 => revisions[s] = <<>>

ChangesCounted ==
  /\ totals \in [upserts : Nat, sets : Nat, clears : Nat, flags : Nat]
  /\ totals.upserts + totals.sets + totals.clears + totals.flags = nextSeq - 1

DenseInv ==
  /\ LogDense /\ ChangesCounted
  /\ revisions = [s \in Names |-> revisions[s]] /\ \A s \in Names : RevisionsKept(s)

\* What a step does to the revision of a name it records an update of, or another change.
Revised(kind, name, revision) ==
  IF kind = "config_update"
  THEN /\ revision = blobs[name].revision + 1 /\ blobs'[name].revision = revision
       /\ \A s \in Names : s # name => blobs'[s].revision = blobs[s].revision
  ELSE \A s \in Names : blobs'[s].revision = blobs[s].revision

LEMMA RecordedDense ==
  ASSUME LogInv, LogDense, NEW name \in Names, NEW revision \in Nat,
         NEW kind \in {"config_update", "override_set", "override_clear", "flag_change"},
         RecordChange(kind, name, revision), Revised(kind, name, revision)
  PROVE  LogDense'
<1> DEFINE new == Event(kind, name, revision)
           all == Append(changes, new)
           n == Len(changes)
           m == Len(changes')
           shift == n + 1 - m
<1>1. /\ changes \in Seq(Entries) /\ n \in Nat /\ nextSeq \in Nat /\ seqOf \in [Names -> Nat]
      /\ seqOf' = [seqOf EXCEPT ![name] = nextSeq] /\ \A i \in 1..n : changes[i].name \in Names
      /\ new.seq = nextSeq /\ new.name = name /\ new.kind = kind /\ new.revision = revision
  <2>1. /\ changes \in Seq(Entries) /\ n \in Nat /\ nextSeq \in Nat /\ seqOf \in [Names -> Nat]
        /\ seqOf' = [seqOf EXCEPT ![name] = nextSeq]
    BY LenProperties DEF LogInv, LogType, RecordChange
  <2>2. \A i \in 1..n : changes[i].name \in Names
    <3>1. \A i \in 1..n : changes[i] \in Entries
      BY <2>1, ElementOfSeq
    <3> QED BY <3>1 DEF Entries
  <2>3. new.seq = nextSeq /\ new.name = name /\ new.kind = kind /\ new.revision = revision
    BY DEF Event
  <2> QED BY <2>1, <2>2, <2>3
<1>2. Extended(changes, new, changes')
  BY RecordedTail
<1> HIDE DEF new
<1>3. (\A i \in 1..n : all[i] = changes[i]) /\ all[n + 1] = new
  BY <1>1, AppendProperties
<1>4. /\ m \in 1..(n + 1) /\ m <= MaxEvents /\ shift \in 0..n
      /\ \A i \in 1..m : changes'[i] = all[shift + i]
  <2>1. /\ m \in 1..(n + 1) /\ m <= MaxEvents
        /\ \A i \in 1..m : changes'[i] = all[n + 1 - m + i]
    BY <1>2 DEF Extended
  <2>2. m \in Int /\ n \in Int
    BY <1>1, <2>1
  <2> HIDE DEF m, n
  <2>3. shift \in 0..n
    BY <2>1, <2>2
  <2> QED BY <2>1, <2>3
<1>5. changes'[m] = new
  BY <1>1, <1>3, <1>4
<1> HIDE DEF all, n, m
<1>6. \A i \in 1..(m - 1) : shift + i \in 1..n /\ changes'[i] = changes[shift + i]
  BY <1>1, <1>3, <1>4
<1>7. \A j \in (shift + 1)..n : j - shift \in 1..(m - 1) /\ changes'[j - shift] = changes[j]
  <2> SUFFICES ASSUME NEW j \in (shift + 1)..n
               PROVE  j - shift \in 1..(m - 1) /\ changes'[j - shift] = changes[j]
    OBVIOUS
  <2>1. j - shift \in 1..(m - 1) /\ shift + (j - shift) = j
    BY <1>1, <1>4
  <2> QED BY <1>6, <2>1
<1>0. n \in Int /\ m \in Int /\ m >= 1 /\ shift \in Int /\ shift = n + 1 - m
  BY <1>1, <1>4
<1> HIDE DEF shift
<1>8. ASSUME NEW i \in 1..m
      PROVE  \/ seqOf'[changes'[i].name] = changes'[i].seq
             \/ \E j \in (i + 1)..m : changes'[j].name = changes'[i].name
  <2>1. CASE i = m
    BY <1>1, <1>5, <2>1
  <2>2. CASE i # m
    <3> DEFINE k == shift + i
    <3>1. i \in 1..(m - 1) /\ m \in (i + 1)..m
      BY <1>0, <2>2
    <3>2. k \in 1..n /\ changes'[i] = changes[k]
      BY <1>6, <3>1
    <3>3. CASE seqOf[changes[k].name] = changes[k].seq
      <4>1. CASE changes[k].name = name
        BY <1>1, <1>5, <3>1, <3>2, <4>1
      <4>2. CASE changes[k].name # name
        BY <1>1, <3>2, <3>3, <4>2
      <4> QED BY <4>1, <4>2
    <3>4. ASSUME NEW j \in (k + 1)..n, changes[j].name = changes[k].name
          PROVE  \E l \in (i + 1)..m : changes'[l].name = changes'[i].name
      <4>1. j \in (shift + 1)..n /\ j - shift \in (i + 1)..m
        BY <1>0, <3>1
      <4> QED BY <1>7, <3>2, <3>4, <4>1
    <3> QED BY <3>2, <3>3, <3>4 DEF LogDense, LastNumbers, n
  <2> QED BY <2>1, <2>2
<1>9. ASSUME NEW i \in 1..m, changes'[i].kind = "config_update"
      PROVE  \/ changes'[i].revision = blobs'[changes'[i].name].revision
             \/ \E j \in (i + 1)..m :
                  /\ changes'[j].kind = "config_update" /\ changes'[j].name = changes'[i].name
                  /\ changes'[j].revision = changes'[i].revision + 1
  <2>1. CASE i = m
    BY <1>1, <1>5, <1>9, <2>1 DEF Revised
  <2>2. CASE i # m
    <3> DEFINE k == shift + i
    <3>1. i \in 1..(m - 1) /\ m \in (i + 1)..m
      BY <1>0, <2>2
    <3>2. k \in 1..n /\ changes'[i] = changes[k] /\ changes[k].name \in Names
      BY <1>1, <1>6, <3>1
    <3>3. CASE changes[k].revision = blobs[changes[k].name].revision
      <4>1. CASE kind = "config_update" /\ changes[k].name = name
        <5>1. changes'[m].kind = "config_update" /\ changes'[m].name = changes'[i].name
          BY <1>1, <1>5, <3>2, <4>1
        <5>2. changes'[m].revision = changes'[i].revision + 1
          BY <1>1, <1>5, <3>2, <3>3, <4>1 DEF Revised
        <5> QED BY <3>1, <5>1, <5>2
      <4>2. CASE ~(kind = "config_update" /\ changes[k].name = name)
        <5>1. blobs'[changes[k].name].revision = blobs[changes[k].name].revision
          BY <3>2, <4>2 DEF Revised
        <5> QED BY <3>2, <3>3, <5>1
      <4> QED BY <4>1, <4>2
    <3>4. ASSUME NEW j \in (k + 1)..n, changes[j].kind = "config_update",
                 changes[j].name = changes[k].name,
                 changes[j].revision = changes[k].revision + 1
          PROVE  \E l \in (i + 1)..m :
                   /\ changes'[l].kind = "config_update" /\ changes'[l].name = changes'[i].name
                   /\ changes'[l].revision = changes'[i].revision + 1
      <4>1. j \in (shift + 1)..n /\ j - shift \in (i + 1)..m
        BY <1>0, <3>1
      <4> QED BY <1>7, <3>2, <3>4, <4>1
    <3> QED BY <1>9, <3>2, <3>3, <3>4 DEF LogDense, UpdatesFollow, IsUpdate, n
  <2> QED BY <2>1, <2>2
<1> QED BY <1>4, <1>8, <1>9 DEF LogDense, LastNumbers, UpdatesFollow, IsUpdate, m

LEMMA InitDense == ConfigInit => DenseInv
<1> SUFFICES ASSUME ConfigInit PROVE DenseInv
  OBVIOUS
<1>1. changes = <<>> /\ Len(changes) = 0 /\ MaxEvents \in Nat
  BY EmptySeq, ConfigAssumption DEF ConfigInit, ValidStoreConfig
<1>2. LogDense
  BY <1>1 DEF LogDense, LastNumbers, UpdatesFollow
<1>3. ChangesCounted
  BY DEF ConfigInit, ChangesCounted
<1>4. revisions = [s \in Names |-> <<>>]
  BY DEF ConfigInit
<1>5. ASSUME NEW s \in Names PROVE RevisionsKept(s)
  BY <1>4, EmptySeq DEF RevisionsKept, RunUpTo
<1> QED BY <1>2, <1>3, <1>4, <1>5 DEF DenseInv

\* The revisions that are kept when a revision is replaced by the next one.
LEMMA RevisionsAfter ==
  ASSUME NEW r \in Nat, NEW before, RunUpTo(before, r)
  PROVE  RunUpTo(Newest(Append(before, r), MaxRevisions), r + 1)
<1>1. PICK n \in Nat : n = Len(before)
  BY LenProperties DEF RunUpTo
<1> DEFINE all == Append(before, r)
           after == Newest(all, MaxRevisions)
<1>2. /\ all \in Seq(Nat) /\ Len(all) = n + 1
      /\ \A i \in 1..n : all[i] = before[i]
      /\ all[n + 1] = r
  BY <1>1, AppendProperties DEF RunUpTo
<1> HIDE DEF all
<1>3. ASSUME NEW i \in 1..(n + 1) PROVE all[i] = r - n + i - 1
  <2>1. CASE i \in 1..n
    BY <1>1, <1>2, <2>1 DEF RunUpTo
  <2>2. CASE i = n + 1
    BY <1>2, <2>2
  <2> QED BY <2>1, <2>2
<1>4. MaxRevisions \in Nat \ {0}
  BY ConfigAssumption DEF ValidStoreConfig
<1>5. /\ after \in Seq(Nat) /\ Len(after) \in Nat
      /\ Len(after) = IF Len(all) > MaxRevisions THEN MaxRevisions ELSE Len(all)
      /\ \A i \in 1..Len(after) : after[i] = all[Len(all) - Len(after) + i]
  BY <1>2, <1>4, NewestOf
<1> HIDE DEF after
<1>6. ASSUME NEW i \in 1..Len(after) PROVE after[i] = (r + 1) - Len(after) + i - 1
  <2>1. PICK m \in Nat : m = Len(after)
    BY <1>5
  <2>2. m <= n + 1
    BY <1>2, <1>4, <1>5, <2>1
  <2>3. (n + 1) - m + i \in 1..(n + 1) /\ after[i] = all[(n + 1) - m + i]
    BY SMTT(30), <1>2, <1>5, <2>1, <2>2
  <2>4. after[i] = r - n + ((n + 1) - m + i) - 1
    BY <1>3, <2>3
  <2> QED BY <2>1, <2>4
<1> QED BY <1>5, <1>6 DEF RunUpTo, after, all

LEMMA SameRevisions ==
  ASSUME NEW s \in Names, RevisionsKept(s), revisions'[s] = revisions[s],
         blobs'[s].revision = blobs[s].revision
  PROVE  RevisionsKept(s)'
  BY DEF RevisionsKept

LEMMA UpsertDense ==
  ASSUME FollowInv, DenseInv, NEW s \in Names, NEW payload, NEW env, Upsert(s, payload, env)
  PROVE  DenseInv'
<1> DEFINE r == blobs[s].revision
<1>1. /\ blobs' = [blobs EXCEPT ![s] = [revision |-> r + 1, payload |-> payload,
                                        env |-> IF env = None THEN blobs[s].env ELSE env]]
      /\ RecordChange("config_update", s, r + 1)
      /\ totals' = [totals EXCEPT !.upserts = @ + 1]
      /\ revisions' = IF s \in Stored
                      THEN [revisions EXCEPT ![s] = Newest(Append(revisions[s], r), MaxRevisions)]
                      ELSE revisions
  BY DEF Upsert
<1>2. /\ r \in Nat /\ blobs'[s].revision = r + 1
      /\ \A t \in Names : t # s => blobs'[t].revision = blobs[t].revision
  BY <1>1 DEF FollowInv, StoreType
<1>3. Revised("config_update", s, r + 1)
  BY <1>2 DEF Revised
<1>4. LogDense'
  <2>1. PICK next \in Nat : next = r + 1
    BY <1>2
  <2>2. RecordChange("config_update", s, next) /\ Revised("config_update", s, next)
    BY <1>1, <1>3, <2>1
  <2>3. LogInv /\ LogDense
    BY DEF FollowInv, DenseInv
  <2> QED BY <2>2, <2>3, RecordedDense
<1>5. ChangesCounted'
  <2>1. totals' = [totals EXCEPT !.upserts = @ + 1] /\ nextSeq' = nextSeq + 1 /\ nextSeq \in Nat
    BY <1>1 DEF RecordChange, FollowInv, LogInv, LogType
  <2>2. ChangesCounted
    BY DEF DenseInv
  <2> QED BY <2>1, <2>2 DEF ChangesCounted
<1>6. revisions' = [t \in Names |-> revisions'[t]] /\ \A t \in Names : t # s => revisions'[t] = revisions[t]
  BY <1>1 DEF DenseInv
<1>7. ASSUME NEW t \in Names, t # s PROVE RevisionsKept(t)'
  BY <1>2, <1>6, <1>7, SameRevisions DEF DenseInv
<1>8. RevisionsKept(s)'
  <2>1. RevisionsKept(s)
    BY DEF DenseInv
  <2>2. CASE s \in Stored
    <3>1. revisions'[s] = Newest(Append(revisions[s], r), MaxRevisions)
      BY <1>1, <2>2 DEF DenseInv
    <3>2. RunUpTo(Newest(Append(revisions[s], r), MaxRevisions), r + 1)
      BY <1>2, <2>1, RevisionsAfter DEF RevisionsKept
    <3> QED BY <1>2, <3>1, <3>2 DEF RevisionsKept
  <2>3. CASE s \notin Stored
    <3>1. r = 0 /\ revisions'[s] = <<>> /\ Len(revisions'[s]) = 0
      BY <1>1, <1>2, <2>1, <2>3, EmptySeq DEF Stored, RevisionsKept, RunUpTo
    <3> QED BY <1>2, <3>1, EmptySeq DEF RevisionsKept, RunUpTo
  <2> QED BY <2>2, <2>3
<1> QED BY <1>4, <1>5, <1>6, <1>7, <1>8 DEF DenseInv

\* A change of an override or of a flag.
LEMMA OtherDense ==
  ASSUME FollowInv, DenseInv, NEW name \in Names, NEW revision \in Nat,
         NEW kind \in {"override_set", "override_clear", "flag_change"},
         RecordChange(kind, name, revision), UNCHANGED <<blobs, revisions>>,
         ChangesCounted'
  PROVE  DenseInv'
<1>1. Revised(kind, name, revision)
  BY DEF Revised
<1>2. LogDense'
  BY <1>1, RecordedDense DEF FollowInv, DenseInv
<1>3. ASSUME NEW s \in Names PROVE RevisionsKept(s)'
  BY SameRevisions DEF DenseInv
<1> QED BY <1>2, <1>3 DEF DenseInv

LEMMA NextDense == FollowInv /\ DenseInv /\ [ConfigNext]_configVars => DenseInv'
<1> SUFFICES ASSUME FollowInv, DenseInv, [ConfigNext]_configVars PROVE DenseInv'
  OBVIOUS
<1>0. /\ \A s \in Names : blobs[s].revision \in Nat
      /\ totals \in [upserts : Nat, sets : Nat, clears : Nat, flags : Nat] /\ nextSeq \in Nat
      /\ totals.upserts + totals.sets + totals.clears + totals.flags = nextSeq - 1
  BY DEF FollowInv, StoreType, LogInv, LogType, DenseInv, ChangesCounted
<1>1. ASSUME NEW s \in Names, NEW e \in Envs \cup {None}, NEW doc \in Payloads,
             PutConfig(s, [payload |-> doc, env |-> e])
      PROVE  DenseInv'
  BY <1>1, UpsertDense DEF PutConfig
<1>2. ASSUME NEW s \in Names, NEW e \in Envs \cup {None}, NEW doc \in Partials,
             PostOverride([service |-> s, env |-> e, override |-> doc])
      PROVE  DenseInv'
  <2>1. /\ RecordChange("override_set", s, blobs[s].revision) /\ UNCHANGED <<blobs, revisions>>
        /\ totals' = [totals EXCEPT !.sets = @ + 1]
    BY <1>2 DEF PostOverride, SetOverride
  <2>2. ChangesCounted'
    BY <1>0, <2>1 DEF ChangesCounted, RecordChange
  <2> QED BY <1>0, <2>1, <2>2, OtherDense
<1>3. ASSUME NEW s \in Names, NEW e \in Envs \cup {None},
             DeleteOverride([service |-> s, env |-> e])
      PROVE  DenseInv'
  <2>1. /\ RecordChange("override_clear", s, blobs[s].revision) /\ UNCHANGED <<blobs, revisions>>
        /\ totals' = [totals EXCEPT !.clears = @ + 1]
    BY <1>3 DEF DeleteOverride, ClearOverride
  <2>2. ChangesCounted'
    BY <1>0, <2>1 DEF ChangesCounted, RecordChange
  <2> QED BY <1>0, <2>1, <2>2, OtherDense
<1>4. ASSUME NEW f \in Names, NEW v \in Values, PutFlag(f, [value |-> v])
      PROVE  DenseInv'
  <2>1. /\ RecordChange("flag_change", f, 0) /\ UNCHANGED <<blobs, revisions>>
        /\ totals' = [totals EXCEPT !.flags = @ + 1]
    BY <1>4 DEF PutFlag, SetFlag
  <2>2. ChangesCounted'
    BY <1>0, <2>1 DEF ChangesCounted, RecordChange
  <2> QED BY <1>0, <2>1, <2>2, OtherDense
<1>5. ASSUME UNCHANGED <<storeVars, logVars, totals>> PROVE DenseInv'
  <2>1. UNCHANGED <<blobs, revisions, changes, nextSeq, seqOf, totals>>
    BY <1>5 DEF storeVars, logVars
  <2>2. LogDense' /\ ChangesCounted'
    BY <2>1 DEF DenseInv, LogDense, LastNumbers, UpdatesFollow, IsUpdate, ChangesCounted
  <2>3. \A s \in Names : RevisionsKept(s)'
    BY <2>1, SameRevisions DEF DenseInv
  <2> QED BY <2>1, <2>2, <2>3 DEF DenseInv
<1>6. ASSUME NEW w \in Followers, Follow(w) PROVE DenseInv'
  BY <1>5, <1>6 DEF Follow, Ask, Wake, TimeOut, Reread
<1>7. ASSUME UNCHANGED configVars PROVE DenseInv'
  BY <1>5, <1>7 DEF configVars
<1> QED BY <1>1, <1>2, <1>3, <1>4, <1>6, <1>7 DEF ConfigNext

LEMMA DenseInvariant == ConfigSpec => []DenseInv
  BY InitDense, NextDense, FollowInvariant, PTL DEF ConfigSpec

\* The change log names every change once and in order and is all a client pages through, and
\* the kept revisions of a service lead step by step to the current one
\* (config_store.py:82, 128).
THEOREM HistoriesDense == ConfigSpec => []HistoriesAreDense
<1>1. ASSUME FollowInv, DenseInv PROVE LogIsDense
  <2> DEFINE n == Len(changes)
  <2>1. /\ changes \in Seq(Entries) /\ n \in Nat /\ DOMAIN changes = 1..n /\ nextSeq \in Nat \ {0}
        /\ Gone = nextSeq - 1 - n /\ (nextSeq > 1 => n > 0) /\ MaxEvents \in Nat /\ n <= MaxEvents
        /\ \A i \in 1..n : changes[i].seq = Gone + i
    BY <1>1, LenProperties, ConfigAssumption
    DEF FollowInv, LogInv, LogType, Gone, DenseInv, LogDense, ValidStoreConfig
  <2>2. StatsView.latest_seq = nextSeq - 1
    <3>1. StatsView.latest_seq = IF changes = <<>> THEN 0 ELSE Last(changes).seq
      BY Zenon DEF StatsView
    <3>2. CASE changes = <<>>
      BY <2>1, <3>1, <3>2, EmptySeq
    <3>3. CASE changes # <<>>
      <4>1. n \in 1..n /\ Last(changes) = changes[n]
        BY <2>1, <3>3, EmptySeq DEF Last
      <4> HIDE DEF n
      <4> QED BY <2>1, <3>1, <3>3, <4>1
    <3> QED BY <3>2, <3>3
  <2>3. ChangesSince(nextSeq - 1 - Len(changes), MaxEvents) = changes
    <3>1. {i \in DOMAIN changes : changes[i].seq > nextSeq - 1 - Len(changes)} = 1..Len(changes)
      <4> HIDE DEF n
      <4>1. \A i \in 1..n : changes[i].seq > nextSeq - 1 - n
        BY <2>1
      <4> QED BY <2>1, <4>1 DEF n
    <3>2. Picked(changes, 1..Len(changes)) = changes
      BY <2>1, PickedAll
    <3>3. Newest(changes, MaxEvents) = changes
      BY <2>1 DEF Newest
    <3> QED BY <3>1, <3>2, <3>3 DEF ChangesSince
  <2>4. \A i \in DOMAIN changes : changes[i].seq = nextSeq - 1 - Len(changes) + i
    BY <2>1
  <2> QED BY <1>1, <2>1, <2>2, <2>3, <2>4 DEF LogIsDense, DenseInv, LogDense, LastNumbers, ChangesCounted
<1>2. ASSUME FollowInv, DenseInv, NEW s \in Names
      PROVE  /\ \A i \in DOMAIN revisions[s] : Versions(s)[i + 1] = Versions(s)[i] + 1
             /\ \A i \in DOMAIN changes :
                  LET c == changes[i] IN
                  c.kind = "config_update" /\ c.name = s =>
                    \/ c.revision = blobs[s].revision
                    \/ \E j \in (i + 1)..Len(changes) :
                         changes[j].kind = "config_update" /\ changes[j].name = s
                           /\ changes[j].revision = c.revision + 1
  <2>1. PICK n \in Nat : n = Len(revisions[s])
    BY <1>2, LenProperties DEF DenseInv, RevisionsKept, RunUpTo
  <2>2. PICK r \in Nat : r = blobs[s].revision
    BY <1>2 DEF FollowInv, StoreType
  <2>3. /\ revisions[s] \in Seq(Nat) /\ DOMAIN revisions[s] = 1..n
        /\ \A i \in 1..n : revisions[s][i] = r - n + i - 1
    BY <1>2, <2>1, <2>2, LenProperties DEF DenseInv, RevisionsKept, RunUpTo
  <2>4. /\ \A i \in 1..n : Versions(s)[i] = revisions[s][i]
        /\ Versions(s)[n + 1] = r
    BY <2>1, <2>2, <2>3, AppendProperties DEF Versions
  <2>5. ASSUME NEW i \in 1..n PROVE Versions(s)[i + 1] = Versions(s)[i] + 1
    <3>1. Versions(s)[i] = r - n + i - 1
      BY <2>3, <2>4
    <3>2. CASE i + 1 \in 1..n
      BY <2>3, <2>4, <3>1, <3>2
    <3>3. CASE i = n
      BY <2>4, <3>1, <3>3
    <3> QED BY <3>2, <3>3
  <2>6. DOMAIN changes = 1..Len(changes)
    BY <1>2, LenProperties DEF FollowInv, LogInv, LogType
  <2> QED BY <1>2, <2>3, <2>5, <2>6 DEF DenseInv, LogDense, UpdatesFollow, IsUpdate
<1>3. FollowInv /\ DenseInv => HistoriesAreDense
  BY <1>1, <1>2 DEF HistoriesAreDense, RevisionsAreConsecutive
<1> QED BY <1>3, FollowInvariant, DenseInvariant, PTL

---------------------------------------------------------------------------
(***************************************************************************)
(* The hash chain of the audit log, for any number of writers and readers, *)
(* any bodies and any capacity: outside the critical section of append the *)
(* kept records verify from head to tail, are the newest without a hole in *)
(* their ids, and the counters explain them, through every eviction and    *)
(* re-chaining.                                                            *)
(*                                                                         *)
(* Inside the critical section the chain is what the writer that emptied   *)
(* the dictionary will put back: Held is the one or the other, and is      *)
(* sound in every state.                                                   *)
(***************************************************************************)

KeySet == {DedupKey(body) : body \in Bodies} \cup {<<>>}
Records == [id : Nat, key : KeySet, ts : Nat, prev : Seq(Nat), hash : Seq(Nat)]

AuditType ==
  /\ clock \in Nat /\ nextId \in Nat /\ lastHash \in Seq(Nat)
  /\ records \in Seq(Records) /\ cleared \in Seq(Records)
  /\ counts \in [appended : Nat, evicted : Nat]
  /\ holder \in Writers \cup {"nobody"}
  /\ writer \in [Writers -> [at : {"idle", "timed"}, key : KeySet, now : Nat]]

TailHash(chain) == IF chain = <<>> THEN EmptyHash ELSE chain[Len(chain)].hash

\* Every record hashes its content and hangs on the one before it.
Linked(chain) == \A i \in 1..Len(chain) : ~Faulty(chain, i)

\* A chain that holds the newest records, as many as the counters say.
NoneMissing(chain) ==
  /\ Len(chain) <= nextId
  /\ counts.appended - counts.evicted = Len(chain)
  /\ \A i \in 1..Len(chain) : chain[i].id = nextId - Len(chain) + i - 1

Held == IF holder = "nobody" THEN records ELSE cleared

ChainInv ==
  /\ AuditType
  /\ Linked(Held) /\ NoneMissing(Held)
  /\ holder = "nobody" => lastHash = TailHash(records) /\ (records = <<>> => nextId = 0)

---------------------------------------------------------------------------
(* Lemmas about chains. *)

LEMMA ChainElements ==
  ASSUME NEW chain \in Seq(Records)
  PROVE  /\ Len(chain) \in Nat /\ DOMAIN chain = 1..Len(chain)
         /\ chain # <<>> <=> Len(chain) > 0
         /\ \A i \in 1..Len(chain) :
              /\ chain[i] \in Records /\ chain[i].id \in Nat
              /\ chain[i].prev \in Seq(Nat) /\ chain[i].hash \in Seq(Nat)
<1>1. Len(chain) \in Nat /\ DOMAIN chain = 1..Len(chain)
  BY LenProperties
<1>2. \A i \in 1..Len(chain) : chain[i] \in Records
  BY ElementOfSeq
<1>3. chain # <<>> <=> Len(chain) > 0
  BY <1>1, EmptySeq
<1> QED BY <1>1, <1>2, <1>3 DEF Records

\* The ids of the first n records.
Ids(chain, n) == [j \in 1..n |-> chain[j].id]

LEMMA IdsInOrder ==
  ASSUME NEW chain \in Seq(Records), NEW n \in 0..Len(chain)
  PROVE  Ids(chain, n) \in Seq(Nat) /\ Len(Ids(chain, n)) = n
<1>1. n \in Nat /\ \A j \in 1..n : chain[j].id \in Nat
  BY ChainElements
<1>2. Ids(chain, n) \in [1..n -> Nat]
  BY <1>1 DEF Ids
<1>3. Ids(chain, n) \in Seq(Nat)
  BY <1>1, <1>2, SeqDef
<1>4. DOMAIN Ids(chain, n) = 1..n /\ DOMAIN Ids(chain, n) = 1..Len(Ids(chain, n))
  BY <1>2, <1>3, LenProperties
<1>5. Len(Ids(chain, n)) \in Nat
  BY <1>3, LenProperties
<1> QED BY <1>1, <1>3, <1>4, <1>5

\* The ids up to a record are those before it with its own at the end.
LEMMA IdsGrow ==
  ASSUME NEW chain \in Seq(Records), NEW n \in 1..Len(chain)
  PROVE  HashOf(chain[n].id, Ids(chain, n - 1)) = Ids(chain, n)
<1> DEFINE short == Ids(chain, n - 1)
           long == Ids(chain, n)
<1>0. n \in Nat /\ n \in 0..Len(chain) /\ n - 1 \in 0..Len(chain) /\ chain[n].id \in Nat
  BY ChainElements
<1>1. short \in Seq(Nat) /\ Len(short) = n - 1 /\ long \in Seq(Nat) /\ Len(long) = n
  BY <1>0, IdsInOrder
<1>2. \A i \in 1..n : long[i] = chain[i].id
  BY DEF Ids
<1>3. \A i \in 1..(n - 1) : short[i] = chain[i].id
  BY DEF Ids
<1> HIDE DEF short, long
<1>4. /\ Append(short, chain[n].id) \in Seq(Nat) /\ Len(Append(short, chain[n].id)) = n
      /\ \A i \in 1..n : Append(short, chain[n].id)[i] = long[i]
  <2>1. /\ Append(short, chain[n].id) \in Seq(Nat)
        /\ Len(Append(short, chain[n].id)) = Len(short) + 1
        /\ \A i \in 1..Len(short) : Append(short, chain[n].id)[i] = short[i]
        /\ Append(short, chain[n].id)[Len(short) + 1] = chain[n].id
    BY <1>0, <1>1, AppendProperties
  <2>2. ASSUME NEW i \in 1..n PROVE Append(short, chain[n].id)[i] = long[i]
    <3>1. CASE i \in 1..Len(short)
      BY <1>0, <1>1, <1>2, <1>3, <2>1, <3>1
    <3>2. CASE i = n
      BY <1>0, <1>1, <1>2, <2>1, <3>2
    <3> QED BY <1>0, <1>1, <3>1, <3>2
  <2> QED BY <1>0, <1>1, <2>1, <2>2
<1>5. Append(short, chain[n].id) = long
  BY <1>1, <1>4, SeqEqual
<1> QED BY <1>5 DEF HashOf, short, long

\* _rechain_after_eviction returns a chain of the same records that verifies.
LEMMA RechainedIsLinked ==
  ASSUME NEW chain \in Seq(Records)
  PROVE  /\ Rechained(chain) \in Seq(Records) /\ Len(Rechained(chain)) = Len(chain)
         /\ \A i \in 1..Len(chain) : /\ Rechained(chain)[i].id = chain[i].id
                                     /\ Rechained(chain)[i].key = chain[i].key
                                     /\ Rechained(chain)[i].ts = chain[i].ts
         /\ Linked(Rechained(chain))
<1> DEFINE again == Rechained(chain)
<1>0. DOMAIN chain = 1..Len(chain) /\ Len(chain) \in Nat
  BY ChainElements
<1>1. ASSUME NEW i \in 1..Len(chain)
      PROVE  /\ again[i].id = chain[i].id /\ again[i].key = chain[i].key /\ again[i].ts = chain[i].ts
             /\ again[i].prev = Ids(chain, i - 1) /\ again[i].hash = Ids(chain, i)
             /\ again[i].hash = HashOf(again[i].id, again[i].prev)
             /\ again[i] \in Records
  <2>0. i \in 0..Len(chain) /\ i - 1 \in 0..Len(chain)
    BY <1>0
  <2>1. chain[i] \in Records /\ Ids(chain, i - 1) \in Seq(Nat) /\ Ids(chain, i) \in Seq(Nat)
    BY <2>0, IdsInOrder, ChainElements
  <2>2. HashOf(chain[i].id, Ids(chain, i - 1)) = Ids(chain, i)
    BY IdsGrow
  <2>3. again[i] = [chain[i] EXCEPT !.prev = Ids(chain, i - 1), !.hash = Ids(chain, i)]
    BY <1>0, <2>2 DEF Rechained, Ids
  <2> HIDE DEF again
  <2> QED BY <2>1, <2>2, <2>3 DEF Records
<1>2. again \in Seq(Records) /\ Len(again) = Len(chain)
  <2>1. again = [i \in 1..Len(chain) |-> again[i]]
    BY <1>0 DEF Rechained
  <2> HIDE DEF again
  <2>2. again \in [1..Len(chain) -> Records]
    BY <1>1, <2>1
  <2>3. again \in Seq(Records)
    BY <1>0, <2>2, SeqDef
  <2> QED BY <1>0, <2>2, <2>3, LenProperties
<1> HIDE DEF again
<1>3. Linked(again)
  <2> SUFFICES ASSUME NEW i \in 1..Len(chain) PROVE ~Faulty(again, i)
    BY <1>2 DEF Linked
  <2>1. CASE i = 1
    <3>1. Ids(chain, 0) \in Seq(Nat) /\ Len(Ids(chain, 0)) = 0
      BY IdsInOrder, <1>0
    <3>2. Ids(chain, 0) = <<>>
      BY <3>1, EmptySeq
    <3> QED BY <1>1, <2>1, <3>2 DEF Faulty, EmptyHash
  <2>2. CASE i # 1
    <3>1. i - 1 \in 1..Len(chain) /\ again[i - 1].hash = Ids(chain, i - 1)
      BY <1>0, <1>1, <2>2
    <3> QED BY <1>1, <2>2, <3>1 DEF Faulty
  <2> QED BY <2>1, <2>2
<1> QED BY <1>1, <1>2, <1>3 DEF again

\* The new record hangs on the tail of a sound chain and makes it a sound one.
LEMMA LinkKeeps ==
  ASSUME AuditType, NEW w \in Writers, NEW chain \in Seq(Records), Linked(chain), NoneMissing(chain),
         Link(w, chain, TailHash(chain)), holder' = "nobody", cleared' \in Seq(Records),
         counts' = [counts EXCEPT !.appended = @ + 1], clock' = clock
  PROVE  ChainInv'
<1> DEFINE n == Len(chain)
           new == [id |-> nextId, key |-> writer[w].key, ts |-> writer[w].now,
                   prev |-> TailHash(chain), hash |-> HashOf(nextId, TailHash(chain))]
<1>0. counts \in [appended : Nat, evicted : Nat] /\ nextId \in Nat
  BY DEF AuditType
<1>1. /\ records' = Append(chain, new) /\ lastHash' = new.hash /\ nextId' = nextId + 1
      /\ writer' = [writer EXCEPT ![w] = IdleWriter]
  BY DEF Link
<1>2. TailHash(chain) \in Seq(Nat) /\ new.hash \in Seq(Nat) /\ n \in Nat
  <2>1. TailHash(chain) \in Seq(Nat) /\ n \in Nat
    BY EmptySeq, ChainElements DEF TailHash, EmptyHash
  <2> QED BY <2>1, AppendProperties DEF HashOf, AuditType
<1>3. new \in Records
  BY <1>2 DEF AuditType, Records
<1>9. new.id = nextId /\ new.prev = TailHash(chain) /\ new.hash = HashOf(new.id, new.prev)
  OBVIOUS
<1> HIDE DEF new
<1>4. /\ records' \in Seq(Records) /\ Len(records') = n + 1
      /\ records'[n + 1] = new /\ \A i \in 1..n : records'[i] = chain[i]
  BY <1>1, <1>2, <1>3, AppendProperties
<1>5. AuditType'
  <2>1. IdleWriter \in [at : {"idle", "timed"}, key : KeySet, now : Nat]
    BY DEF IdleWriter, KeySet
  <2>2. writer' \in [Writers -> [at : {"idle", "timed"}, key : KeySet, now : Nat]]
    BY <1>1, <2>1 DEF AuditType
  <2>3. counts' \in [appended : Nat, evicted : Nat]
    BY <1>0
  <2>4. clock' \in Nat /\ nextId' \in Nat /\ lastHash' \in Seq(Nat)
    BY SMTT(30), <1>0, <1>1, <1>2 DEF AuditType
  <2> QED BY <1>4, <2>2, <2>3, <2>4 DEF AuditType
<1>6. Linked(records')
  <2> SUFFICES ASSUME NEW i \in 1..(n + 1) PROVE ~Faulty(records', i)
    BY <1>4 DEF Linked
  <2>1. CASE i <= n
    BY SMTT(30), <1>2, <1>4, <2>1 DEF Linked, Faulty
  <2>2. CASE i = n + 1
    <3>1. new.prev = IF n + 1 = 1 THEN EmptyHash ELSE chain[n].hash
      BY <1>2, <1>9, ChainElements DEF TailHash
    <3>2. n # 0 => records'[n].hash = chain[n].hash
      BY <1>2, <1>4
    <3> QED BY <1>2, <1>4, <1>9, <2>2, <3>1, <3>2 DEF Faulty
  <2> QED BY <1>2, <2>1, <2>2
<1>7. NoneMissing(records)'
  <2>1. counts'.appended = counts.appended + 1 /\ counts'.evicted = counts.evicted
    BY <1>0
  <2>2. ASSUME NEW i \in 1..(n + 1) PROVE records'[i].id = nextId' - (n + 1) + i - 1
    <3>0. nextId \in Nat /\ \A j \in 1..n : chain[j].id = nextId - n + j - 1
      BY DEF NoneMissing, AuditType
    <3>1. CASE i \in 1..n
      BY <1>1, <1>2, <1>4, <3>0, <3>1
    <3>2. CASE i = n + 1
      BY <1>1, <1>2, <1>4, <1>9, <3>0, <3>2
    <3> QED BY <1>2, <3>1, <3>2
  <2>3. Len(records') = n + 1 /\ n <= nextId /\ counts.appended - counts.evicted = n
    BY <1>4 DEF NoneMissing
  <2>4. Len(records') <= nextId' /\ counts'.appended - counts'.evicted = Len(records')
    BY <1>0, <1>1, <1>2, <2>1, <2>3
  <2> QED BY <2>2, <2>3, <2>4 DEF NoneMissing
<1>8. lastHash' = TailHash(records)' /\ records' # <<>>
  BY <1>1, <1>2, <1>4, EmptySeq DEF TailHash
<1> QED BY <1>5, <1>6, <1>7, <1>8 DEF ChainInv, Held

---------------------------------------------------------------------------
LEMMA InitChain == AuditInit => ChainInv
<1> SUFFICES ASSUME AuditInit PROVE ChainInv
  OBVIOUS
<1>1. AuditType
  BY EmptySeq DEF AuditInit, AuditType, NoCounts, IdleWriter, EmptyHash, KeySet
<1>2. Linked(Held) /\ NoneMissing(Held) /\ lastHash = TailHash(records)
  BY EmptySeq DEF AuditInit, Linked, NoneMissing, Held, TailHash, NoCounts
<1> QED BY <1>1, <1>2 DEF ChainInv, AuditInit

\* The oldest record goes: what is cleared holds the others, re-chained.
LEMMA EvictOldestChain ==
  ASSUME ChainInv, NEW w \in Writers, EvictOldest(w)
  PROVE  ChainInv'
<1> DEFINE rest == Tail(records)
<1>1. /\ holder = "nobody" /\ holder' = w /\ w # "nobody" /\ cleared' = Rechained(rest)
      /\ records' = <<>> /\ counts' = [counts EXCEPT !.evicted = @ + 1]
      /\ clock' = clock /\ lastHash' = lastHash /\ nextId' = nextId /\ writer' = writer
  BY AuditAssumption DEF EvictOldest, IsFresh
<1>2. records \in Seq(Records) /\ records # <<>> /\ Len(records) \in Nat
  <2>1. records \in Seq(Records) /\ Len(records) >= MaxKept /\ MaxKept \in Nat \ {0}
    BY AuditAssumption DEF ChainInv, AuditType, EvictOldest, ValidAuditConfig
  <2> QED BY <2>1, ChainElements
<1>3. /\ rest \in Seq(Records) /\ Len(rest) = Len(records) - 1
      /\ \A i \in 1..Len(rest) : rest[i] = records[i + 1]
  BY <1>2, HeadTailProperties
<1> HIDE DEF rest
<1>4. /\ cleared' \in Seq(Records) /\ Len(cleared') = Len(records) - 1 /\ Linked(cleared')
      /\ \A i \in 1..(Len(records) - 1) : cleared'[i].id = records[i + 1].id
  BY <1>1, <1>2, <1>3, RechainedIsLinked DEF Linked
<1>5. AuditType'
  <2>0. counts \in [appended : Nat, evicted : Nat]
    BY DEF ChainInv, AuditType
  <2>1. counts' \in [appended : Nat, evicted : Nat] /\ records' \in Seq(Records)
    BY <1>1, <2>0, EmptySeq
  <2> QED BY <1>1, <1>4, <2>1 DEF ChainInv, AuditType
<1>6. NoneMissing(cleared)'
  <2>1. NoneMissing(records) /\ counts \in [appended : Nat, evicted : Nat] /\ nextId \in Nat
    BY <1>1 DEF ChainInv, AuditType, Held
  <2>2. counts'.appended = counts.appended /\ counts'.evicted = counts.evicted + 1
    BY <1>1, <2>1
  <2>3. \A i \in 1..(Len(records) - 1) : i + 1 \in 1..Len(records)
    BY <1>2
  <2>4. Len(cleared') <= nextId' /\ counts'.appended - counts'.evicted = Len(cleared')
    BY <1>1, <1>2, <1>4, <2>1, <2>2 DEF NoneMissing
  <2>5. ASSUME NEW i \in 1..Len(cleared') PROVE cleared'[i].id = nextId' - Len(cleared') + i - 1
    <3>1. records[i + 1].id = nextId - Len(records) + (i + 1) - 1
      BY <1>4, <2>1, <2>3 DEF NoneMissing
    <3> QED BY <1>1, <1>2, <1>4, <2>1, <3>1
  <2> QED BY <2>4, <2>5 DEF NoneMissing
<1> QED BY <1>1, <1>4, <1>5, <1>6 DEF ChainInv, Held

LEMMA NextChain == ChainInv /\ [AuditNext]_auditVars => ChainInv'
<1> SUFFICES ASSUME ChainInv, [AuditNext]_auditVars PROVE ChainInv'
  OBVIOUS
<1>0. ASSUME UNCHANGED <<records, cleared, holder, nextId, lastHash, counts>>, AuditType'
      PROVE  ChainInv'
  BY <1>0 DEF ChainInv, Held, NoneMissing
<1>1. CASE Tick
  BY <1>0, <1>1 DEF Tick, ChainInv, AuditType, chainVars
<1>2. ASSUME NEW w \in Writers, NEW body \in Bodies, PostEvent(w, body) PROVE ChainInv'
  <2>1. DedupKey(body) \in KeySet
    BY DEF KeySet
  <2>2. AuditType'
    BY <1>2, <2>1 DEF PostEvent, ReadTime, ChainInv, AuditType, chainVars
  <2> QED BY <1>0, <1>2, <2>2 DEF PostEvent, ReadTime, chainVars
<1>3. ASSUME NEW w \in Writers, AppendDuplicate(w) PROVE ChainInv'
  <2>1. AuditType'
    BY <1>3 DEF AppendDuplicate, ChainInv, AuditType, IdleWriter, KeySet
  <2> QED BY <1>0, <1>3, <2>1 DEF AppendDuplicate
<1>4. ASSUME NEW w \in Writers, AppendFresh(w) PROVE ChainInv'
  <2>1. /\ holder = "nobody" /\ holder' = "nobody" /\ lastHash = TailHash(records)
        /\ cleared' = cleared /\ clock' = clock /\ Link(w, records, TailHash(records))
        /\ counts' = [counts EXCEPT !.appended = @ + 1]
    BY <1>4 DEF AppendFresh, IsFresh, ChainInv
  <2> QED BY <2>1, LinkKeeps DEF ChainInv, AuditType, Held
<1>5. ASSUME NEW w \in Writers, AppendAfterEviction(w) PROVE ChainInv'
  <2>1. holder # "nobody" /\ cleared \in Seq(Records)
    BY <1>5, AuditAssumption DEF AppendAfterEviction, ChainInv, AuditType
  <2>2. TailHash(cleared) = IF cleared = <<>> THEN EmptyHash ELSE Last(cleared).hash
    BY DEF TailHash, Last
  <2>3. /\ holder' = "nobody" /\ cleared' = <<>> /\ clock' = clock
        /\ Link(w, cleared, TailHash(cleared)) /\ counts' = [counts EXCEPT !.appended = @ + 1]
    BY <1>5, <2>2 DEF AppendAfterEviction
  <2>4. cleared' \in Seq(Records)
    BY <2>3, EmptySeq
  <2> QED BY <2>1, <2>3, <2>4, LinkKeeps DEF ChainInv, Held
<1>6. ASSUME NEW v \in Verifiers,
             VerifyFetch(v) \/ VerifyLocate(v) \/ VerifyLink(v) \/ VerifyReturn(v)
      PROVE  ChainInv'
  <2>1. UNCHANGED <<clock, chainVars, counts, holder, writer, cleared>>
    BY <1>6 DEF VerifyFetch, VerifyLocate, VerifyLink, VerifyReturn
  <2> QED BY <1>0, <2>1 DEF ChainInv, AuditType, chainVars
<1>7. CASE UNCHANGED auditVars
  BY <1>0, <1>7 DEF auditVars, chainVars, ChainInv, AuditType
<1> QED BY <1>1, <1>2, <1>3, <1>4, <1>5, <1>6, <1>7, EvictOldestChain DEF AuditNext

LEMMA ChainInvariant == AuditSpec => []ChainInv
  BY InitChain, NextChain, PTL DEF AuditSpec

\* The chain verifies, holds the newest records and explains the counters whenever no
\* writer is inside append's critical section (audit_engine.py:202, 258, 369).
THEOREM ChainIntact == AuditSpec => []ChainIsIntact
<1>1. ChainInv => ChainIsIntact
  <2> SUFFICES ASSUME ChainInv, holder = "nobody" PROVE Verifies /\ KeptAreTheNewest
    BY DEF ChainIsIntact
  <2>0. /\ records \in Seq(Records) /\ DOMAIN records = 1..Len(records) /\ Len(records) \in Nat
        /\ Linked(records) /\ NoneMissing(records) /\ nextId \in Nat
        /\ counts.appended \in Nat /\ counts.evicted \in Nat
    BY LenProperties DEF ChainInv, AuditType, Held
  <2>1. Verifies
    <3>1. {i \in DOMAIN records : i <= MaxVerifyDepth /\ Faulty(records, i)} = {}
      BY <2>0 DEF Linked
    <3>2. VerifyChain(records) = VerifyReport(Len(records), 0, Len(records) > MaxVerifyDepth)
      BY <3>1 DEF VerifyChain
    <3>3. VerifyChain(records).intact \/ VerifyChain(records).truncated
      <4> DEFINE long == Len(records) > MaxVerifyDepth
      <4>1. long \in BOOLEAN
        OBVIOUS
      <4>2. VerifyChain(records) = [intact |-> 0 = 0 /\ ~long, chain_length |-> Len(records),
                                    first_bad_index |-> 0, truncated |-> long]
        BY <3>2 DEF VerifyReport
      <4>3. VerifyChain(records).intact = (0 = 0 /\ ~long) /\ VerifyChain(records).truncated = long
        BY <4>2
      <4> QED BY <4>1, <4>3
    <3>4. Stats.tail_hash = IF records = <<>> THEN EmptyHash ELSE Last(records).hash
      BY DEF Stats, ChainInv, TailHash, Last
    <3> QED BY <3>3, <3>4 DEF Verifies
  <2>2. KeptAreTheNewest
    <3>1. Stats.appended - Stats.evicted = Stats.chain_length
      BY <2>0 DEF NoneMissing, Stats
    <3>2. ASSUME NEW id \in 0..(nextId - 1)
          PROVE  SaysEvicted(id) <=> \A i \in DOMAIN records : records[i].id # id
      <4>1. records # <<>> /\ Len(records) >= 1
        BY <2>0, <3>2, EmptySeq DEF ChainInv
      <4>2. CASE id < nextId - Len(records)
        BY <2>0, <4>1, <4>2 DEF NoneMissing, SaysEvicted
      <4>3. CASE id >= nextId - Len(records)
        <5> DEFINE i == id - (nextId - Len(records)) + 1
        <5>0. /\ nextId - Len(records) \in Int /\ id \in Int /\ id <= nextId - 1
              /\ \A j \in 1..Len(records) : records[j].id = nextId - Len(records) + j - 1
          BY <2>0 DEF NoneMissing
        <5>1. i \in 1..Len(records)
          <6>1. Len(records) \in Nat /\ nextId \in Int
            BY <2>0
          <6>2. i \in Int /\ i = id - nextId + Len(records) + 1
            BY <5>0, <6>1
          <6>3. 1 <= i
            BY <4>3, <5>0, <6>1
          <6>4. i <= Len(records)
            BY <5>0, <6>1, <6>2
          <6> QED BY <6>1, <6>2, <6>3, <6>4
        <5>2. i \in DOMAIN records /\ records[i].id = id
          <6>1. i \in DOMAIN records
            BY <2>0, <5>1
          <6>2. records[i].id = nextId - Len(records) + i - 1
            BY <5>0, <5>1
          <6>3. nextId - Len(records) + i - 1 = id
            BY <5>0
          <6> QED BY <6>1, <6>2, <6>3
        <5>3. ~SaysEvicted(id)
          <6>1. records[1].id = nextId - Len(records)
            BY <4>1, <5>0
          <6> QED BY <4>3, <5>0, <6>1 DEF SaysEvicted
        <5> HIDE DEF i
        <5> QED BY <5>2, <5>3
      <4> QED BY <2>0, <4>2, <4>3
    <3> QED BY <2>0, <3>1, <3>2 DEF KeptAreTheNewest, NoneMissing
  <2> QED BY <2>1, <2>2
<1> QED BY <1>1, ChainInvariant, PTL

---------------------------------------------------------------------------
(***************************************************************************)
(* The verifications of the audit log, which work without the lock: each   *)
(* one carries the number of evictions there had been when it fetched its  *)
(* record.  Until that number moves the record stays where it is, so the   *)
(* verification has nothing to complain about.                             *)
(***************************************************************************)

\* What a verification remembers, with the evictions there had been when it fetched.
VerifierType(v) ==
  /\ DOMAIN verifier[v] = {"at", "record", "index", "evictions", "verdict"}
  /\ verifier[v].at \in {"idle", "fetched", "located", "done"}
  /\ verifier[v].evictions \in Nat /\ verifier[v].evictions <= counts.evicted

\* The record is where the verification found it, or somewhere when it has not looked yet.
InPlace(v) ==
  /\ holder = "nobody"
  /\ verifier[v].at = "fetched" => \E i \in 1..Len(records) : records[i] = verifier[v].record
  /\ verifier[v].at = "located" =>
       verifier[v].index \in 1..Len(records) /\ records[verifier[v].index] = verifier[v].record

\* Until an eviction, a verification finds what it fetched and has nothing to complain about.
Honest(v) ==
  \/ verifier[v].evictions < counts.evicted
  \/ /\ verifier[v].verdict \notin {"bad", "error"}
     /\ verifier[v].at # "idle" => InPlace(v)

VerifyInv ==
  /\ ChainInv
  /\ verifier = [v \in Verifiers |-> verifier[v]]
  /\ \A v \in Verifiers : VerifierType(v) /\ Honest(v)

LEMMA InitVerify == AuditInit => VerifyInv
<1> SUFFICES ASSUME AuditInit PROVE VerifyInv
  OBVIOUS
<1>1. ASSUME NEW v \in Verifiers PROVE VerifierType(v) /\ Honest(v)
  BY DEF AuditInit, VerifierType, Honest, IdleVerifier, NoCounts
<1> QED BY <1>1, InitChain DEF VerifyInv, AuditInit

\* The ids of a sound chain tell its places.
LEMMA IdsTellPlaces ==
  ASSUME ChainInv, holder = "nobody"
  PROVE  /\ records \in Seq(Records) /\ Len(records) \in Nat /\ DOMAIN records = 1..Len(records)
         /\ \A i \in 1..Len(records) : ~Faulty(records, i)
         /\ \A i, j \in 1..Len(records) : records[i].id = records[j].id => i = j
<1>1. /\ records \in Seq(Records) /\ Len(records) \in Nat /\ DOMAIN records = 1..Len(records)
      /\ Linked(records) /\ NoneMissing(records) /\ nextId \in Nat
  BY ChainElements DEF ChainInv, Held, AuditType
<1>2. ASSUME NEW i \in 1..Len(records), NEW j \in 1..Len(records), records[i].id = records[j].id
      PROVE  i = j
  <2> DEFINE n == Len(records)
             last == nextId
  <2>1. n \in Nat /\ last \in Nat /\ i \in Int /\ j \in Int
    BY <1>1
  <2>2. records[i].id = last - n + i - 1 /\ records[j].id = last - n + j - 1
    BY <1>1 DEF NoneMissing
  <2>3. last - n + i - 1 = last - n + j - 1
    BY <1>2, <2>2
  <2> HIDE DEF n, last
  <2> QED BY <2>1, <2>3
<1> QED BY <1>1, <1>2 DEF Linked

\* What appends and evicts leaves every verification as it was; an eviction is counted, and
\* without one what is kept stays where it is.
LEMMA AppendVerify ==
  ASSUME VerifyInv, ChainInv', verifier' = verifier,
         \/ counts'.evicted = counts.evicted + 1
         \/ /\ counts'.evicted = counts.evicted
            /\ \/ holder # "nobody"
               \/ /\ holder' = "nobody"
                  /\ Len(records') >= Len(records)
                  /\ \A i \in 1..Len(records) : records'[i] = records[i]
  PROVE  VerifyInv'
<1>0. counts.evicted \in Nat /\ counts'.evicted \in Nat /\ counts.evicted <= counts'.evicted
  BY SMTT(30) DEF VerifyInv, ChainInv, AuditType
<1>1. ASSUME NEW v \in Verifiers PROVE VerifierType(v)' /\ Honest(v)'
  <2>0. VerifierType(v) /\ Honest(v)
    BY DEF VerifyInv
  <2>1. VerifierType(v)'
    BY <1>0, <2>0 DEF VerifierType
  <2>2. CASE verifier[v].evictions < counts'.evicted
    BY <2>1, <2>2 DEF Honest
  <2>3. CASE ~(verifier[v].evictions < counts'.evicted)
    <3>1. /\ counts'.evicted = counts.evicted /\ verifier[v].evictions = counts.evicted
          /\ verifier[v].verdict \notin {"bad", "error"}
          /\ verifier[v].at # "idle" => InPlace(v)
      BY <1>0, <2>0, <2>3 DEF VerifierType, Honest
    <3>2. CASE verifier[v].at = "idle"
      BY <2>1, <3>1, <3>2 DEF Honest
    <3>3. CASE verifier[v].at # "idle"
      <4>1. holder = "nobody" /\ InPlace(v)
        BY <3>1, <3>3 DEF InPlace
      <4>0. ~(counts'.evicted = counts.evicted + 1)
        BY <1>0, <3>1
      <4>2. /\ holder' = "nobody" /\ Len(records') >= Len(records)
            /\ \A i \in 1..Len(records) : records'[i] = records[i]
        BY <4>0, <4>1
      <4>3. Len(records) \in Nat /\ Len(records') \in Nat
        BY LenProperties DEF VerifyInv, ChainInv, AuditType
      <4>4. \A i \in 1..Len(records) : i \in 1..Len(records') /\ records'[i] = records[i]
        BY <4>2, <4>3
      <4>5. InPlace(v)'
        BY <4>1, <4>2, <4>4 DEF InPlace
      <4> QED BY <2>1, <3>1, <4>5 DEF Honest
    <3> QED BY <3>2, <3>3
  <2> QED BY <2>1, <2>2, <2>3
<1> QED BY <1>1 DEF VerifyInv

\* A step of one verification that leaves the log as it is.
LEMMA OneVerifies ==
  ASSUME VerifyInv, NEW v \in Verifiers, NEW now, verifier' = [verifier EXCEPT ![v] = now],
         UNCHANGED <<clock, chainVars, counts, holder, writer, cleared>>,
         VerifierType(v)', Honest(v)'
  PROVE  VerifyInv'
<1>1. ChainInv'
  BY DEF VerifyInv, ChainInv, AuditType, chainVars, Held, NoneMissing
<1>2. ASSUME NEW u \in Verifiers, u # v PROVE VerifierType(u)' /\ Honest(u)'
  <2>1. verifier'[u] = verifier[u] /\ VerifierType(u) /\ Honest(u)
    BY <1>2 DEF VerifyInv
  <2> QED BY <2>1 DEF VerifierType, Honest, InPlace, chainVars
<1>3. verifier' = [u \in Verifiers |-> verifier'[u]]
  BY DEF VerifyInv
<1> QED BY <1>1, <1>2, <1>3 DEF VerifyInv

LEMMA FetchVerify ==
  ASSUME VerifyInv, NEW v \in Verifiers, VerifyFetch(v)
  PROVE  VerifyInv'
<1>1. PICK i \in DOMAIN records :
        verifier' = [verifier EXCEPT ![v] =
          [at |-> "fetched", record |-> records[i], index |-> 0,
           evictions |-> counts.evicted, verdict |-> "none"]]
  BY DEF VerifyFetch
<1>2. UNCHANGED <<clock, chainVars, counts, holder, writer, cleared>> /\ holder = "nobody"
  BY DEF VerifyFetch
<1>3. DOMAIN records = 1..Len(records) /\ counts.evicted \in Nat
  BY LenProperties DEF VerifyInv, ChainInv, AuditType
<1>4. verifier'[v] = [at |-> "fetched", record |-> records[i], index |-> 0,
                      evictions |-> counts.evicted, verdict |-> "none"]
  BY <1>1 DEF VerifyInv
<1>5. VerifierType(v)' /\ Honest(v)'
  BY <1>2, <1>3, <1>4 DEF VerifierType, Honest, InPlace, chainVars
<1> QED BY <1>1, <1>2, <1>5, OneVerifies

LEMMA LocateVerify ==
  ASSUME VerifyInv, NEW v \in Verifiers, VerifyLocate(v)
  PROVE  VerifyInv'
<1> DEFINE r == verifier[v].record
           found == {i \in DOMAIN records : records[i].id = r.id}
           bad == [verifier[v] EXCEPT !.at = "done", !.verdict = "bad"]
           there == [verifier[v] EXCEPT !.at = "located", !.index = CHOOSE i \in found : TRUE]
           now == IF r.hash # HashOf(r.id, r.prev) \/ found = {} THEN bad ELSE there
<1>1. /\ verifier' = [verifier EXCEPT ![v] = now] /\ verifier[v].at = "fetched"
      /\ UNCHANGED <<clock, chainVars, counts, holder, writer, cleared>>
  BY DEF VerifyLocate
<1>2. VerifierType(v) /\ Honest(v) /\ verifier'[v] = now
  BY <1>1 DEF VerifyInv
<1> HIDE DEF found
<1>3. /\ now.at \in {"located", "done"} /\ now.evictions = verifier[v].evictions
      /\ DOMAIN now = DOMAIN verifier[v]
  BY <1>2 DEF VerifierType
<1>4. VerifierType(v)'
  BY <1>1, <1>2, <1>3 DEF VerifierType
<1>5. Honest(v)'
  <2>1. CASE verifier[v].evictions < counts.evicted
    BY <1>1, <1>2, <1>3, <2>1 DEF Honest
  <2>2. CASE ~(verifier[v].evictions < counts.evicted)
    <3>1. InPlace(v) /\ verifier[v].verdict \notin {"bad", "error"} /\ holder = "nobody"
      BY <1>1, <1>2, <2>2 DEF Honest, InPlace
    <3>2. PICK k \in 1..Len(records) : records[k] = r
      BY <1>1, <3>1 DEF InPlace
    <3>3. /\ DOMAIN records = 1..Len(records) /\ ~Faulty(records, k)
          /\ \A i, j \in 1..Len(records) : records[i].id = records[j].id => i = j
      BY <3>1, IdsTellPlaces DEF VerifyInv
    <3>4. r.hash = HashOf(r.id, r.prev) /\ found = {k}
      BY <3>2, <3>3 DEF Faulty, found
    <3>5. now = there /\ (CHOOSE i \in found : TRUE) = k
      BY <3>4
    <3>6. now.at = "located" /\ now.index = k /\ now.record = r /\ now.verdict = verifier[v].verdict
      BY <1>2, <3>5 DEF VerifierType
    <3> HIDE DEF now
    <3> QED BY <1>1, <1>2, <3>1, <3>2, <3>6 DEF Honest, InPlace, chainVars
  <2> QED BY <2>1, <2>2
<1> HIDE DEF now
<1> QED BY <1>1, <1>4, <1>5, OneVerifies

LEMMA LinkVerify ==
  ASSUME VerifyInv, NEW v \in Verifiers, VerifyLink(v)
  PROVE  VerifyInv'
<1> DEFINE i == verifier[v].index
           verdict == IF i = 1
                      THEN IF verifier[v].record.prev = EmptyHash THEN "ok" ELSE "bad"
                      ELSE IF i - 1 \notin DOMAIN records THEN "error"
                      ELSE IF verifier[v].record.prev = records[i - 1].hash THEN "ok" ELSE "bad"
           now == [verifier[v] EXCEPT !.at = "done", !.verdict = verdict]
<1>1. /\ verifier' = [verifier EXCEPT ![v].at = "done", ![v].verdict = verdict]
      /\ verifier[v].at = "located"
      /\ UNCHANGED <<clock, chainVars, counts, holder, writer, cleared>>
  BY DEF VerifyLink
<1> HIDE DEF verdict
<1>2. VerifierType(v) /\ Honest(v) /\ verifier' = [verifier EXCEPT ![v] = now]
  BY <1>1 DEF VerifyInv
<1>3. verifier'[v] = now
  BY <1>2 DEF VerifyInv
<1>4. /\ now.at = "done" /\ now.verdict = verdict /\ now.evictions = verifier[v].evictions
      /\ DOMAIN now = DOMAIN verifier[v]
  BY <1>2 DEF VerifierType
<1>5. VerifierType(v)'
  BY <1>1, <1>2, <1>3, <1>4 DEF VerifierType
<1>6. Honest(v)'
  <2>1. CASE verifier[v].evictions < counts.evicted
    BY <1>1, <1>3, <1>4, <2>1 DEF Honest
  <2>2. CASE ~(verifier[v].evictions < counts.evicted)
    <3>1. InPlace(v) /\ holder = "nobody"
      BY <1>1, <1>2, <2>2 DEF Honest, InPlace
    <3>2. i \in 1..Len(records) /\ records[i] = verifier[v].record
      BY <1>1, <3>1 DEF InPlace
    <3>3. DOMAIN records = 1..Len(records) /\ Len(records) \in Nat /\ ~Faulty(records, i)
      BY <3>1, <3>2, IdsTellPlaces DEF VerifyInv
    <3>4. verdict = "ok"
      BY <3>2, <3>3 DEF Faulty, verdict
    <3> HIDE DEF now
    <3> QED BY <1>1, <1>3, <1>4, <3>1, <3>4 DEF Honest, InPlace, chainVars
  <2> QED BY <2>1, <2>2
<1> HIDE DEF now
<1> QED BY <1>1, <1>2, <1>5, <1>6, OneVerifies

LEMMA ReturnVerify ==
  ASSUME VerifyInv, NEW v \in Verifiers, VerifyReturn(v)
  PROVE  VerifyInv'
<1>1. /\ verifier' = [verifier EXCEPT ![v] = IdleVerifier]
      /\ UNCHANGED <<clock, chainVars, counts, holder, writer, cleared>>
  BY DEF VerifyReturn
<1>2. verifier'[v] = IdleVerifier /\ counts.evicted \in Nat
  BY <1>1 DEF VerifyInv, ChainInv, AuditType
<1>3. VerifierType(v)' /\ Honest(v)'
  BY <1>1, <1>2 DEF VerifierType, Honest, IdleVerifier
<1> QED BY <1>1, <1>3, OneVerifies

LEMMA NextVerify == VerifyInv /\ [AuditNext]_auditVars => VerifyInv'
<1> SUFFICES ASSUME VerifyInv, [AuditNext]_auditVars PROVE VerifyInv'
  OBVIOUS
<1>0. ChainInv' /\ counts \in [appended : Nat, evicted : Nat] /\ records \in Seq(Records)
  BY NextChain DEF VerifyInv, ChainInv, AuditType
<1>1. ASSUME UNCHANGED <<records, counts, holder, verifier>> PROVE VerifyInv'
  <2>1. holder' = holder /\ Len(records') >= Len(records)
    BY <1>0, <1>1, LenProperties
  <2> QED BY <1>0, <1>1, <2>1, AppendVerify
<1>2. CASE Tick
  BY <1>1, <1>2 DEF Tick, chainVars
<1>3. ASSUME NEW w \in Writers,
             AppendDuplicate(w) \/ \E body \in Bodies : PostEvent(w, body)
      PROVE  VerifyInv'
  BY <1>1, <1>3 DEF AppendDuplicate, PostEvent, ReadTime, chainVars
<1>4. ASSUME NEW w \in Writers, AppendFresh(w) PROVE VerifyInv'
  <2> DEFINE new == [id |-> nextId, key |-> writer[w].key, ts |-> writer[w].now,
                     prev |-> lastHash, hash |-> HashOf(nextId, lastHash)]
  <2>1. /\ records' = Append(records, new) /\ holder' = holder /\ holder = "nobody"
        /\ verifier' = verifier /\ counts' = [counts EXCEPT !.appended = @ + 1]
    BY <1>4 DEF AppendFresh, IsFresh, Link
  <2> HIDE DEF new
  <2>2. counts'.evicted = counts.evicted
    BY <1>0, <2>1
  <2>3. \A i \in 1..Len(records) : records'[i] = records[i]
    BY <1>0, <2>1
  <2>4. Len(records) \in Nat /\ Len(records') = Len(records) + 1
    BY <1>0, <2>1, LenProperties
  <2>5. Len(records') >= Len(records)
    BY <2>4
  <2> QED BY <1>0, <2>1, <2>2, <2>3, <2>5, AppendVerify
<1>5. ASSUME NEW w \in Writers, EvictOldest(w) PROVE VerifyInv'
  <2>1. counts' = [counts EXCEPT !.evicted = @ + 1] /\ verifier' = verifier
    BY <1>5 DEF EvictOldest
  <2>2. counts'.evicted = counts.evicted + 1
    BY <1>0, <2>1
  <2> QED BY <1>0, <2>1, <2>2, AppendVerify
<1>6. ASSUME NEW w \in Writers, AppendAfterEviction(w) PROVE VerifyInv'
  <2>1. /\ counts' = [counts EXCEPT !.appended = @ + 1] /\ verifier' = verifier
        /\ holder # "nobody"
    BY <1>6, AuditAssumption DEF AppendAfterEviction
  <2>2. counts'.evicted = counts.evicted
    BY <1>0, <2>1
  <2> QED BY <1>0, <2>1, <2>2, AppendVerify
<1>7. ASSUME NEW v \in Verifiers,
             VerifyFetch(v) \/ VerifyLocate(v) \/ VerifyLink(v) \/ VerifyReturn(v)
      PROVE  VerifyInv'
  BY <1>7, FetchVerify, LocateVerify, LinkVerify, ReturnVerify
<1>8. CASE UNCHANGED auditVars
  BY <1>1, <1>8 DEF auditVars, chainVars
<1> QED BY <1>2, <1>3, <1>4, <1>5, <1>6, <1>7, <1>8 DEF AuditNext

\* A verification calls a record the log holds bad, or fails, only when an eviction has
\* re-chained the log since it fetched the record (audit_engine.py:355, 359).
THEOREM BadMeansEviction == AuditSpec => []BadVerdictMeansEviction
<1>1. VerifyInv => BadVerdictMeansEviction
  BY DEF VerifyInv, Honest, BadVerdictMeansEviction
<1>2. AuditSpec => []VerifyInv
  BY InitVerify, NextVerify, PTL DEF AuditSpec
<1> QED BY <1>1, <1>2, PTL

---------------------------------------------------------------------------
(***************************************************************************)
(* What is kept of a retry, for any number of writers and any window and   *)
(* memory: the log chains a key again only when the window is over.        *)
(*                                                                         *)
(* The dedup memory explains every record the log holds: its entry is      *)
(* there with the record's own id and time, or it was dropped for want of  *)
(* room, or the log went by a time that is past its window.  A writer      *)
(* inside the critical section has found no such entry, and none is made   *)
(* before it leaves.                                                       *)
(***************************************************************************)

DedupEntries == [key : KeySet, id : Nat, ts : Nat]

KnownIn(r, entries) ==
  \E n \in 1..Len(entries) :
    entries[n].key = r.key /\ entries[n].id = r.id /\ entries[n].ts = r.ts

Explained(r, entries, gone, now) == r.id \in gone \/ KnownIn(r, entries) \/ now - r.ts > Window

AllExplained(chain, entries, gone, now) ==
  \A i \in 1..Len(chain) : Explained(chain[i], entries, gone, now)

\* No entry of a key that is within the window is of a record of the chain.
NoOriginal(chain, entries, k, now) ==
  \A i \in 1..Len(chain), n \in 1..Len(entries) :
    entries[n].key = k /\ entries[n].id = chain[i].id => now - entries[n].ts > Window

Folded(chain, gone, behind) ==
  \A i, j \in 1..Len(chain) :
    i < j /\ chain[i].key = chain[j].key =>
      chain[j].ts - chain[i].ts > Window \/ chain[i].id \in gone \/ chain[j].id \in behind

FoldInv ==
  /\ dedup \in Seq(DedupEntries) /\ latest \in Nat
  /\ AllExplained(Held, dedup, dropped, latest) /\ Folded(Held, dropped, late)
  /\ holder # "nobody" =>
       /\ records = <<>> /\ writer[holder].at = "timed"
       /\ NoOriginal(cleared, dedup, writer[holder].key, writer[holder].now)

---------------------------------------------------------------------------
(* The dedup memory: what it forgets in time, what it takes in, what it    *)
(* has no room for.                                                        *)

LEMMA EntryTypes ==
  ASSUME NEW entries \in Seq(DedupEntries), NEW n \in 1..Len(entries)
  PROVE  entries[n].key \in KeySet /\ entries[n].id \in Nat /\ entries[n].ts \in Nat
<1>1. entries[n] \in DedupEntries
  BY ElementOfSeq
<1> QED BY <1>1 DEF DedupEntries

LEMMA PrunedEntries ==
  ASSUME dedup \in Seq(DedupEntries), NEW now \in Nat
  PROVE  /\ Pruned(now) \in Seq(DedupEntries)
         /\ \A k \in 1..Len(Pruned(now)) :
              \E n \in 1..Len(dedup) : Pruned(now)[k] = dedup[n] /\ now - dedup[n].ts <= Window
         /\ \A n \in 1..Len(dedup) :
              now - dedup[n].ts <= Window => \E k \in 1..Len(Pruned(now)) : Pruned(now)[k] = dedup[n]
<1> DEFINE at == {n \in DOMAIN dedup : now - dedup[n].ts <= Window}
<1>1. at \in SUBSET (1..Len(dedup)) /\ DOMAIN dedup = 1..Len(dedup)
  BY LenProperties
<1>2. Pruned(now) = Picked(dedup, at)
  BY DEF Pruned
<1>3. \A n \in 1..Len(dedup) : n \in at <=> now - dedup[n].ts <= Window
  BY <1>1
<1> HIDE DEF at
<1>4. /\ Picked(dedup, at) \in Seq(DedupEntries)
      /\ \A k \in 1..Len(Picked(dedup, at)) : \E n \in at : Picked(dedup, at)[k] = dedup[n]
      /\ \A n \in at : \E k \in 1..Len(Picked(dedup, at)) : Picked(dedup, at)[k] = dedup[n]
  BY <1>1, PickedOf
<1> DEFINE p == Picked(dedup, at)
<1> HIDE DEF p
<1>5. ASSUME NEW k \in 1..Len(p)
      PROVE  \E n \in 1..Len(dedup) : p[k] = dedup[n] /\ now - dedup[n].ts <= Window
  <2>1. PICK n \in at : p[k] = dedup[n]
    BY <1>4 DEF p
  <2> QED BY <1>1, <1>3, <2>1
<1>6. ASSUME NEW n \in 1..Len(dedup), now - dedup[n].ts <= Window
      PROVE  \E k \in 1..Len(p) : p[k] = dedup[n]
  BY <1>3, <1>4, <1>6 DEF p
<1>7. p \in Seq(DedupEntries) /\ Pruned(now) = p
  BY <1>2, <1>4 DEF p
<1> QED BY <1>5, <1>6, <1>7

\* A record keeps its explanation when the memory is pruned at a time the log goes by.
LEMMA PruningExplains ==
  ASSUME dedup \in Seq(DedupEntries), latest \in Nat, NEW now \in Nat, NEW r \in Records,
         Explained(r, dedup, dropped, latest)
  PROVE  Explained(r, Pruned(now), dropped, Later(now))
<1>0. /\ Later(now) \in Nat /\ Later(now) >= now /\ Later(now) >= latest
      /\ Window \in Nat /\ r.ts \in Nat
  BY AuditAssumption DEF Later, ValidAuditConfig, Records
<1>1. CASE latest - r.ts > Window
  BY <1>0, <1>1 DEF Explained
<1>2. CASE KnownIn(r, dedup)
  <2>1. PICK n \in 1..Len(dedup) :
               dedup[n].key = r.key /\ dedup[n].id = r.id /\ dedup[n].ts = r.ts
    BY <1>2 DEF KnownIn
  <2>2. CASE now - r.ts <= Window
    <3>1. PICK k \in 1..Len(Pruned(now)) : Pruned(now)[k] = dedup[n]
      BY <2>1, <2>2, PrunedEntries
    <3> QED BY <2>1, <3>1 DEF Explained, KnownIn
  <2>3. CASE ~(now - r.ts <= Window)
    BY <1>0, <2>3 DEF Explained
  <2> QED BY <2>2, <2>3
<1> QED BY <1>1, <1>2 DEF Explained

\* A fresh key's writer found no entry of what is kept.
LEMMA FreshHasNone ==
  ASSUME dedup \in Seq(DedupEntries), records \in Seq(Records), NEW k \in KeySet, NEW now \in Nat,
         Original(k, now) = {}
  PROVE  NoOriginal(records, dedup, k, now)
<1> SUFFICES ASSUME NEW i \in 1..Len(records), NEW n \in 1..Len(dedup),
                    dedup[n].key = k, dedup[n].id = records[i].id
             PROVE  now - dedup[n].ts > Window
  BY DEF NoOriginal
<1> SUFFICES ASSUME now - dedup[n].ts <= Window PROVE FALSE
  BY EntryTypes, AuditAssumption DEF ValidAuditConfig
<1>1. PICK m \in 1..Len(Pruned(now)) : Pruned(now)[m] = dedup[n]
  BY PrunedEntries
<1>2. DOMAIN Pruned(now) = 1..Len(Pruned(now)) /\ DOMAIN records = 1..Len(records)
  BY PrunedEntries, LenProperties
<1>3. dedup[n] \in Range(Pruned(now))
  BY <1>1, <1>2 DEF Range
<1>4. i \in Original(k, now)
  BY <1>2, <1>3 DEF Original
<1> QED BY <1>4

\* An entry is taken in at the place of its key, or at the end.
LEMMA RememberedEntries ==
  ASSUME NEW entries \in Seq(DedupEntries), NEW entry \in DedupEntries
  PROVE  /\ Remembered(entries, entry) \in Seq(DedupEntries)
         /\ \E n \in 1..Len(Remembered(entries, entry)) : Remembered(entries, entry)[n] = entry
         /\ \A i \in 1..Len(entries) : entries[i].key # entry.key =>
              \E n \in 1..Len(Remembered(entries, entry)) : Remembered(entries, entry)[n] = entries[i]
<1> DEFINE same == {i \in DOMAIN entries : entries[i].key = entry.key}
           after == Remembered(entries, entry)
<1>1. Len(entries) \in Nat /\ DOMAIN entries = 1..Len(entries)
  BY LenProperties
<1>2. CASE same = {}
  <2>1. after = Append(entries, entry)
    BY <1>2 DEF Remembered
  <2>2. /\ after \in Seq(DedupEntries) /\ Len(after) = Len(entries) + 1
        /\ after[Len(entries) + 1] = entry
        /\ \A i \in 1..Len(entries) : after[i] = entries[i]
    BY <2>1, AppendProperties
  <2> HIDE DEF after
  <2>3. Len(entries) + 1 \in 1..Len(after) /\ \A i \in 1..Len(entries) : i \in 1..Len(after)
    BY <1>1, <2>2
  <2> QED BY <2>2, <2>3 DEF after
<1>3. CASE same # {}
  <2>1. after = [i \in DOMAIN entries |-> IF i \in same THEN entry ELSE entries[i]]
    BY <1>3 DEF Remembered
  <2> HIDE DEF after
  <2>2. \A i \in 1..Len(entries) :
          /\ after[i] = IF entries[i].key = entry.key THEN entry ELSE entries[i]
          /\ after[i] \in DedupEntries
    BY <1>1, <2>1, ElementOfSeq
  <2>3. after \in Seq(DedupEntries) /\ Len(after) = Len(entries)
    <3>1. PICK n \in Nat : n = Len(entries)
      BY <1>1
    <3>2. after \in [1..n -> DedupEntries]
      BY <1>1, <2>1, <2>2, <3>1
    <3> QED BY <3>1, <3>2
  <2>4. PICK i \in 1..Len(entries) : entries[i].key = entry.key
    BY <1>1, <1>3
  <2> QED BY <2>2, <2>3, <2>4 DEF after
<1> QED BY <1>2, <1>3

LEMMA ForgetsTheFirst ==
  ASSUME NEW entries \in Seq(DedupEntries), Len(entries) > MaxKeys, NEW r, KnownIn(r, entries)
  PROVE  r.id = entries[1].id \/ KnownIn(r, Tail(entries))
<1>0. Len(entries) \in Nat /\ entries # <<>>
  BY AuditAssumption, LenProperties, EmptySeq DEF ValidAuditConfig
<1>1. PICK n \in 1..Len(entries) :
             entries[n].key = r.key /\ entries[n].id = r.id /\ entries[n].ts = r.ts
  BY DEF KnownIn
<1>2. CASE n = 1
  BY <1>1, <1>2
<1>3. CASE n # 1
  <2>1. /\ Len(Tail(entries)) = Len(entries) - 1
        /\ \A i \in 1..Len(Tail(entries)) : Tail(entries)[i] = entries[i + 1]
    BY <1>0, HeadTailProperties
  <2>2. n - 1 \in 1..(Len(entries) - 1) /\ (n - 1) + 1 = n
    BY <1>0, <1>3
  <2>3. Tail(entries)[n - 1] = entries[n]
    BY <2>1, <2>2
  <2> QED BY <1>1, <2>1, <2>2, <2>3 DEF KnownIn
<1> QED BY <1>2, <1>3

---------------------------------------------------------------------------
LEMMA InitFold == AuditInit => FoldInv
<1> SUFFICES ASSUME AuditInit PROVE FoldInv
  OBVIOUS
<1>1. Held = <<>> /\ dedup \in Seq(DedupEntries) /\ latest \in Nat /\ holder = "nobody"
  BY EmptySeq DEF AuditInit, Held
<1> QED BY <1>1, EmptySeq DEF FoldInv, AllExplained, Folded

\* The record that is linked has its own entry, leaves the others their explanation, and is
\* chained after one of its key only if the window is over.
LEMMA LinkFolds ==
  ASSUME AuditType, dedup \in Seq(DedupEntries), latest \in Nat, NEW w \in Writers,
         NEW chain \in Seq(Records), NEW tail \in Seq(Nat), Link(w, chain, tail),
         AllExplained(chain, dedup, dropped, latest), Folded(chain, dropped, late),
         NoOriginal(chain, dedup, writer[w].key, writer[w].now)
  PROVE  /\ dedup' \in Seq(DedupEntries) /\ latest' \in Nat
         /\ AllExplained(records', dedup', dropped', latest') /\ Folded(records', dropped', late')
<1> DEFINE n == Len(chain)
           k == writer[w].key
           now == writer[w].now
           new == [id |-> nextId, key |-> k, ts |-> now, prev |-> tail, hash |-> HashOf(nextId, tail)]
           entry == [key |-> k, id |-> nextId, ts |-> now]
           known == Remembered(Pruned(now), entry)
<1>0. /\ n \in Nat /\ k \in KeySet /\ now \in Nat /\ nextId \in Nat /\ Window \in Nat
      /\ \A i \in 1..n : chain[i] \in Records
  BY ChainElements, AuditAssumption DEF AuditType, ValidAuditConfig
<1>1. /\ records' = Append(chain, new)
      /\ dedup' = IF Len(known) > MaxKeys THEN Tail(known) ELSE known
      /\ dropped' = dropped \cup (IF Len(known) > MaxKeys THEN {known[1].id} ELSE {})
      /\ latest' = Later(now) /\ late' = late \cup (IF now < latest THEN {nextId} ELSE {})
  BY DEF Link
<1>2. new \in Records /\ new.id = nextId /\ new.key = k /\ new.ts = now
  BY <1>0, AppendProperties DEF Records, HashOf
<1>3. entry \in DedupEntries /\ entry.key = k /\ entry.id = nextId /\ entry.ts = now
  BY <1>0 DEF DedupEntries
<1> HIDE DEF new, entry
<1>4. /\ Len(records') = n + 1 /\ records'[n + 1] = new
      /\ \A i \in 1..n : records'[i] = chain[i]
  BY <1>0, <1>1, <1>2, AppendProperties
<1>5. Pruned(now) \in Seq(DedupEntries)
  BY <1>0, PrunedEntries
<1>6. /\ known \in Seq(DedupEntries)
      /\ \E m \in 1..Len(known) : known[m] = entry
      /\ \A i \in 1..Len(Pruned(now)) : Pruned(now)[i].key # k =>
           \E m \in 1..Len(known) : known[m] = Pruned(now)[i]
  BY <1>3, <1>5, RememberedEntries
<1> HIDE DEF known
<1>7. dedup' \in Seq(DedupEntries) /\ latest' \in Nat
  <2>1. CASE Len(known) > MaxKeys
    <3>1. known # <<>>
      BY <1>6, <2>1, AuditAssumption, EmptySeq DEF ValidAuditConfig
    <3> QED BY <1>0, <1>1, <1>6, <2>1, <3>1, HeadTailProperties DEF Later
  <2>2. CASE ~(Len(known) > MaxKeys)
    BY <1>0, <1>1, <1>6, <2>2 DEF Later
  <2> QED BY <2>1, <2>2
<1>8. ASSUME NEW r, KnownIn(r, known) PROVE Explained(r, dedup', dropped', latest')
  BY <1>1, <1>6, <1>8, ForgetsTheFirst DEF Explained
<1>9. AllExplained(records', dedup', dropped', latest')
  <2>1. Explained(new, dedup', dropped', latest')
    BY <1>2, <1>3, <1>6, <1>8 DEF KnownIn
  <2>2. ASSUME NEW i \in 1..n PROVE Explained(chain[i], dedup', dropped', latest')
    <3>1. Explained(chain[i], Pruned(now), dropped, latest')
      BY <1>0, <1>1, PruningExplains DEF AllExplained
    <3>2. CASE KnownIn(chain[i], Pruned(now))
      <4>1. PICK j \in 1..Len(Pruned(now)) : /\ Pruned(now)[j].key = chain[i].key
                                             /\ Pruned(now)[j].id = chain[i].id
                                             /\ Pruned(now)[j].ts = chain[i].ts
        BY <3>2 DEF KnownIn
      <4>2. Pruned(now)[j].key # k
        <5>1. PICK m \in 1..Len(dedup) : Pruned(now)[j] = dedup[m] /\ now - dedup[m].ts <= Window
          BY <1>0, PrunedEntries
        <5>2. dedup[m].ts \in Nat
          BY EntryTypes
        <5> QED BY <1>0, <4>1, <5>1, <5>2 DEF NoOriginal
      <4>3. PICK m \in 1..Len(known) : known[m] = Pruned(now)[j]
        BY <1>6, <4>2
      <4>4. KnownIn(chain[i], known)
        BY <4>1, <4>3 DEF KnownIn
      <4> QED BY <1>8, <4>4
    <3>3. CASE ~KnownIn(chain[i], Pruned(now))
      BY <1>1, <3>1, <3>3 DEF Explained
    <3> QED BY <3>2, <3>3
  <2>3. \A i \in 1..(n + 1) : i \in 1..n \/ i = n + 1
    BY <1>0
  <2> QED BY <1>4, <2>1, <2>2, <2>3 DEF AllExplained
<1>10. ASSUME NEW i \in 1..n, chain[i].key = k
       PROVE  now - chain[i].ts > Window \/ chain[i].id \in dropped \/ nextId \in late'
  <2>0. chain[i].ts \in Nat
    BY <1>0 DEF Records
  <2>1. Explained(chain[i], dedup, dropped, latest)
    BY DEF AllExplained
  <2>2. CASE KnownIn(chain[i], dedup)
    BY <1>10, <2>2 DEF KnownIn, NoOriginal
  <2>3. CASE latest - chain[i].ts > Window
    <3>1. CASE now < latest
      BY <1>1, <3>1
    <3>2. CASE ~(now < latest)
      BY <1>0, <2>0, <2>3, <3>2
    <3> QED BY <3>1, <3>2
  <2> QED BY <2>1, <2>2, <2>3 DEF Explained
<1>11. Folded(records', dropped', late')
  <2> SUFFICES ASSUME NEW i \in 1..(n + 1), NEW j \in 1..(n + 1),
                      i < j, records'[i].key = records'[j].key
               PROVE  \/ records'[j].ts - records'[i].ts > Window
                      \/ records'[i].id \in dropped' \/ records'[j].id \in late'
    BY <1>4 DEF Folded
  <2>1. i \in 1..n /\ (j \in 1..n \/ j = n + 1)
    BY <1>0
  <2>2. CASE j \in 1..n
    BY <1>1, <1>4, <2>1, <2>2 DEF Folded
  <2>3. CASE j = n + 1
    BY <1>1, <1>2, <1>4, <1>10, <2>1, <2>3
  <2> QED BY <2>1, <2>2, <2>3
<1> QED BY <1>7, <1>9, <1>11

\* The oldest record goes: the others keep their ids, keys and times.
LEMMA EvictOldestFolds ==
  ASSUME ChainInv, FoldInv, NEW w \in Writers, EvictOldest(w)
  PROVE  FoldInv'
<1> DEFINE rest == Tail(records)
           n == Len(rest)
<1>1. /\ holder = "nobody" /\ holder' = w /\ w # "nobody" /\ cleared' = Rechained(rest)
      /\ records' = <<>> /\ writer[w].at = "timed" /\ Original(writer[w].key, writer[w].now) = {}
      /\ UNCHANGED <<dedup, writer, latest, late, dropped>>
  BY AuditAssumption DEF EvictOldest, IsFresh
<1>2. /\ records \in Seq(Records) /\ records # <<>> /\ Len(records) \in Nat
      /\ writer[w].key \in KeySet /\ writer[w].now \in Nat
  <2>1. records \in Seq(Records) /\ Len(records) >= MaxKept /\ MaxKept \in Nat \ {0}
    BY AuditAssumption DEF ChainInv, AuditType, EvictOldest, ValidAuditConfig
  <2> QED BY <2>1, ChainElements DEF ChainInv, AuditType
<1>3. /\ rest \in Seq(Records) /\ n \in Nat /\ n = Len(records) - 1 /\ DOMAIN rest = 1..n
      /\ \A i \in 1..n : rest[i] = records[i + 1] /\ rest[i] \in Records
  BY <1>2, HeadTailProperties, ChainElements
<1> HIDE DEF rest, n
<1>4. Len(cleared') = n /\ \A i \in 1..n : cleared'[i].id = records[i + 1].id
                                          /\ cleared'[i].key = records[i + 1].key
                                          /\ cleared'[i].ts = records[i + 1].ts
  BY <1>1, <1>3, RechainedIsLinked
<1>5. \A i \in 1..n : i + 1 \in 1..Len(records)
  BY <1>2, <1>3
<1>6. NoOriginal(records, dedup, writer[w].key, writer[w].now)
  BY <1>1, <1>2, FreshHasNone DEF FoldInv
<1>7. AllExplained(records, dedup, dropped, latest) /\ Folded(records, dropped, late)
  BY <1>1 DEF FoldInv, Held
<1>8. AllExplained(cleared', dedup', dropped', latest')
  BY SMTT(30), <1>1, <1>4, <1>5, <1>7 DEF AllExplained, Explained, KnownIn
<1>9. Folded(cleared', dropped', late')
  <2> SUFFICES ASSUME NEW i \in 1..n, NEW j \in 1..n, i < j, cleared'[i].key = cleared'[j].key
               PROVE  \/ cleared'[j].ts - cleared'[i].ts > Window
                      \/ cleared'[i].id \in dropped' \/ cleared'[j].id \in late'
    BY <1>4 DEF Folded
  <2>1. i + 1 \in 1..Len(records) /\ j + 1 \in 1..Len(records) /\ i + 1 < j + 1
    BY <1>2, <1>3
  <2> QED BY <1>1, <1>4, <1>7, <2>1 DEF Folded
<1>10. NoOriginal(cleared', dedup', writer'[w].key, writer'[w].now)
  <2>1. NoOriginal(cleared', dedup, writer[w].key, writer[w].now)
    <3> SUFFICES ASSUME NEW i \in 1..n, NEW m \in 1..Len(dedup),
                        dedup[m].key = writer[w].key, dedup[m].id = cleared'[i].id
                 PROVE  writer[w].now - dedup[m].ts > Window
      BY <1>4 DEF NoOriginal
    <3>1. i + 1 \in 1..Len(records) /\ dedup[m].id = records[i + 1].id
      BY <1>4, <1>5
    <3> QED BY <1>6, <3>1 DEF NoOriginal
  <2> QED BY <1>1, <2>1
<1> QED BY <1>1, <1>8, <1>9, <1>10 DEF FoldInv, Held

LEMMA NextFold == ChainInv /\ FoldInv /\ [AuditNext]_auditVars => FoldInv'
<1> SUFFICES ASSUME ChainInv, FoldInv, [AuditNext]_auditVars PROVE FoldInv'
  OBVIOUS
<1>0. ASSUME UNCHANGED <<records, cleared, holder, dedup, latest, late, dropped>>,
             holder # "nobody" => writer'[holder] = writer[holder]
      PROVE  FoldInv'
  BY <1>0 DEF FoldInv, Held
<1>1. CASE Tick
  BY <1>0, <1>1 DEF Tick, chainVars
<1>2. ASSUME NEW w \in Writers, NEW body \in Bodies, PostEvent(w, body) PROVE FoldInv'
  <2>1. /\ UNCHANGED <<records, cleared, holder, dedup, latest, late, dropped>>
        /\ writer[w].at = "idle"
        /\ writer' = [writer EXCEPT ![w] = [at |-> "timed", key |-> DedupKey(body), now |-> clock]]
    BY <1>2 DEF PostEvent, ReadTime, chainVars
  <2>2. holder # "nobody" => holder # w
    BY <2>1 DEF FoldInv
  <2>3. holder # "nobody" => writer'[holder] = writer[holder]
    BY <2>1, <2>2 DEF ChainInv, AuditType
  <2> QED BY <1>0, <2>1, <2>3
<1>3. ASSUME NEW w \in Writers, AppendDuplicate(w) PROVE FoldInv'
  <2>1. /\ holder = "nobody" /\ UNCHANGED <<holder, records, late, dropped>>
        /\ dedup' = Pruned(writer[w].now) /\ latest' = Later(writer[w].now)
    BY <1>3 DEF AppendDuplicate
  <2>2. writer[w].now \in Nat /\ records \in Seq(Records) /\ dedup \in Seq(DedupEntries) /\ latest \in Nat
    BY DEF ChainInv, AuditType, FoldInv
  <2>3. dedup' \in Seq(DedupEntries) /\ latest' \in Nat
    BY <2>1, <2>2, PrunedEntries DEF Later
  <2>4. AllExplained(records, dedup, dropped, latest) /\ Folded(records, dropped, late)
    BY <2>1 DEF FoldInv, Held
  <2>5. ASSUME NEW i \in 1..Len(records) PROVE Explained(records[i], dedup', dropped, latest')
    BY <2>1, <2>2, <2>4, ChainElements, PruningExplains DEF AllExplained
  <2> QED BY <2>1, <2>3, <2>4, <2>5 DEF FoldInv, Held, AllExplained
<1>4. ASSUME NEW w \in Writers, AppendFresh(w) PROVE FoldInv'
  <2>1. /\ holder = "nobody" /\ holder' = "nobody" /\ Link(w, records, lastHash)
        /\ Original(writer[w].key, writer[w].now) = {}
    BY <1>4 DEF AppendFresh, IsFresh
  <2>2. /\ AuditType /\ records \in Seq(Records) /\ lastHash \in Seq(Nat)
        /\ writer[w].key \in KeySet /\ writer[w].now \in Nat
        /\ dedup \in Seq(DedupEntries) /\ latest \in Nat
        /\ AllExplained(records, dedup, dropped, latest) /\ Folded(records, dropped, late)
    BY <2>1 DEF ChainInv, AuditType, FoldInv, Held
  <2>3. NoOriginal(records, dedup, writer[w].key, writer[w].now)
    BY <2>1, <2>2, FreshHasNone
  <2>4. /\ dedup' \in Seq(DedupEntries) /\ latest' \in Nat
        /\ AllExplained(records', dedup', dropped', latest') /\ Folded(records', dropped', late')
    BY <2>1, <2>2, <2>3, LinkFolds
  <2> QED BY <2>1, <2>4 DEF FoldInv, Held
<1>5. ASSUME NEW w \in Writers, AppendAfterEviction(w) PROVE FoldInv'
  <2> DEFINE tail == IF cleared = <<>> THEN EmptyHash ELSE Last(cleared).hash
  <2>1. holder = w /\ w # "nobody" /\ holder' = "nobody" /\ Link(w, cleared, tail)
    BY <1>5, AuditAssumption DEF AppendAfterEviction
  <2>2. /\ AuditType /\ cleared \in Seq(Records) /\ dedup \in Seq(DedupEntries) /\ latest \in Nat
        /\ AllExplained(cleared, dedup, dropped, latest) /\ Folded(cleared, dropped, late)
        /\ NoOriginal(cleared, dedup, writer[w].key, writer[w].now)
    BY <2>1 DEF ChainInv, AuditType, FoldInv, Held
  <2>3. tail \in Seq(Nat)
    BY <2>2, ChainElements, EmptySeq DEF EmptyHash, Last
  <2> HIDE DEF tail
  <2>4. /\ dedup' \in Seq(DedupEntries) /\ latest' \in Nat
        /\ AllExplained(records', dedup', dropped', latest') /\ Folded(records', dropped', late')
    BY <2>1, <2>2, <2>3, LinkFolds
  <2> QED BY <2>1, <2>4 DEF FoldInv, Held
<1>6. ASSUME NEW v \in Verifiers,
             VerifyFetch(v) \/ VerifyLocate(v) \/ VerifyLink(v) \/ VerifyReturn(v)
      PROVE  FoldInv'
  BY <1>0, <1>6 DEF VerifyFetch, VerifyLocate, VerifyLink, VerifyReturn, chainVars
<1>7. CASE UNCHANGED auditVars
  BY <1>0, <1>7 DEF auditVars, chainVars
<1> QED BY <1>1, <1>2, <1>3, <1>4, <1>5, <1>6, <1>7, EvictOldestFolds DEF AuditNext

\* A retry within the window of what is kept is never chained again, unless the memory had
\* to drop its key or its time is older than one the log already went by
\* (audit_engine.py:179, 181).
THEOREM RetriesAreFolded == AuditSpec => []RetryIsFolded
<1>1. ChainInv /\ FoldInv => RetryIsFolded
  <2> SUFFICES ASSUME ChainInv, FoldInv PROVE RetryIsFolded
    OBVIOUS
  <2>1. DOMAIN records = 1..Len(records)
    BY LenProperties DEF ChainInv, AuditType
  <2>2. CASE holder = "nobody"
    BY <2>1, <2>2 DEF FoldInv, Held, Folded, RetryIsFolded
  <2>3. CASE holder # "nobody"
    BY <2>3 DEF FoldInv, RetryIsFolded
  <2> QED BY <2>2, <2>3
<1>2. AuditSpec => []FoldInv
  BY InitFold, NextFold, ChainInvariant, PTL DEF AuditSpec
<1> QED BY <1>1, <1>2, ChainInvariant, PTL

---------------------------------------------------------------------------
(***************************************************************************)
(* The seal of a settled day, for any number of days, submissions,         *)
(* positions and ingesters: once a run is finalized nothing changes it, so *)
(* the content hash of its report verifies for ever.                       *)
(***************************************************************************)

\* A run is what NoRun is made of, and a sealed one carries the digest of its content.
SealedRun(run) ==
  /\ DOMAIN run = {"opened", "finalized", "fills", "lines", "revisions", "seal"}
  /\ run.finalized \in BOOLEAN
  /\ run.finalized => run.seal = SealDigest(run)

SealInv ==
  /\ runs = [d \in Days |-> runs[d]]
  /\ \A d \in Days : SealedRun(runs[d])

---------------------------------------------------------------------------
LEMMA InitSeal == SettleInit => SealInv
<1>1. SealedRun(NoRun)
  BY DEF SealedRun, NoRun
<1> QED BY <1>1 DEF SettleInit, SealInv

\* A submission, with or without a conflict, leaves a sealed run alone and seals none.
LEMMA SettledKeepsSeal ==
  ASSUME NEW run, NEW fills, NEW lines, SealedRun(run)
  PROVE  SealedRun(Settled(run, fills, lines))
<1>1. CASE run.finalized
  BY <1>1 DEF Settled
<1>2. CASE ~run.finalized
  <2> DEFINE taken == Taken(run, fills)
             bare == [run EXCEPT !.opened = TRUE, !.fills = taken.fills]
             whole == [run EXCEPT !.opened = TRUE, !.fills = taken.fills,
                         !.lines = Replaced(@, lines),
                         !.revisions = Recorded(@, [action |-> "settle", added |-> taken.added])]
  <2>1. Settled(run, fills, lines) = IF taken.conflict THEN bare ELSE whole
    BY <1>2 DEF Settled
  <2> HIDE DEF taken
  <2>2. ~bare.finalized /\ DOMAIN bare = DOMAIN run
    BY <1>2 DEF SealedRun
  <2>3. ~whole.finalized /\ DOMAIN whole = DOMAIN run
    BY <1>2 DEF SealedRun
  <2>4. SealedRun(bare) /\ SealedRun(whole)
    BY <2>2, <2>3 DEF SealedRun
  <2> QED BY <2>1, <2>4
<1> QED BY <1>1, <1>2 DEF SealedRun

LEMMA SettleRunSeal ==
  ASSUME SealInv, NEW d, NEW fills, NEW lines, SettleRun(d, fills, lines)
  PROVE  SealInv'
<1>1. runs' = [runs EXCEPT ![d] = Settled(runs[d], fills, lines)]
  BY DEF SettleRun
<1>2. ASSUME NEW c \in Days PROVE SealedRun(runs'[c])
  BY <1>1, <1>2, SettledKeepsSeal DEF SealInv
<1>3. runs' = [c \in Days |-> runs'[c]]
  BY <1>1 DEF SealInv
<1> QED BY <1>2, <1>3 DEF SealInv

LEMMA NextSeal == SealInv /\ [SettleNext]_settleVars => SealInv'
<1> SUFFICES ASSUME SealInv, [SettleNext]_settleVars PROVE SealInv'
  OBVIOUS
<1>0. ASSUME UNCHANGED runs PROVE SealInv'
  BY <1>0 DEF SealInv
<1>1. CASE Midnight
  BY <1>0, <1>1 DEF Midnight
<1>2. ASSUME NEW d \in Days, Finalize(d) PROVE SealInv'
  <2>1. runs' = [runs EXCEPT ![d].finalized = TRUE, ![d].seal = SealDigest(runs[d]),
                             ![d].revisions = Recorded(@, [action |-> "finalize", added |-> 0])]
    BY <1>2 DEF Finalize
  <2>2. SealedRun(runs'[d])
    <3> DEFINE run == runs[d]
    <3>1. /\ runs'[d].finalized = TRUE /\ DOMAIN runs'[d] = DOMAIN run
          /\ runs'[d].fills = run.fills /\ runs'[d].lines = run.lines
          /\ runs'[d].seal = SealDigest(run)
      BY <2>1 DEF SealInv, SealedRun
    <3> QED BY <3>1 DEF SealInv, SealedRun, SealDigest
  <2>3. ASSUME NEW c \in Days, c # d PROVE runs'[c] = runs[c]
    BY <2>1, <2>3 DEF SealInv
  <2>4. runs' = [c \in Days |-> runs'[c]]
    BY <2>1 DEF SealInv
  <2> QED BY <2>2, <2>3, <2>4 DEF SealInv
<1>3. ASSUME NEW d \in Days, NEW p \in Posts, Settle(d, p) PROVE SealInv'
  BY <1>3, SettleRunSeal DEF Settle, Days
<1>4. ASSUME NEW s \in Range(Listing), PositionMoves(s) PROVE SealInv'
  BY <1>0, <1>4 DEF PositionMoves
<1>5. ASSUME NEW g \in Ingesters, Ingest(g) PROVE SealInv'
  <2>1. CASE Pull(g) \/ Stamp(g)
    BY <1>0, <2>1 DEF Pull, Stamp
  <2>2. CASE IngestRows(g)
    <3> DEFINE pulled == ingest[g].rows
               rows == Picked(pulled, {i \in DOMAIN pulled : pulled[i].qty # 0})
               fills == [i \in DOMAIN rows |-> Synthetic(rows[i], ingest[g].day)]
    <3>1. UNCHANGED runs \/ SettleRun(today, fills, <<>>)
      BY <2>2 DEF IngestRows
    <3> HIDE DEF fills
    <3> QED BY <1>0, <3>1, SettleRunSeal
  <2> QED BY <1>5, <2>1, <2>2 DEF Ingest
<1>6. CASE UNCHANGED settleVars
  BY <1>0, <1>6 DEF settleVars
<1> QED BY <1>1, <1>2, <1>3, <1>4, <1>5, <1>6 DEF SettleNext

LEMMA SealInvariant == SettleSpec => []SealInv
  BY InitSeal, NextSeal, PTL DEF SettleSpec

\* The report of a sealed day verifies for ever, whatever is submitted, pulled or refused
\* after it (settlement_engine.py:96, 249).
THEOREM SealsVerify == SettleSpec => []SealVerifies
<1>1. SealInv => SealVerifies
  BY DEF SealInv, SealedRun, SealVerifies, ReportOf, RunSummary
<1> QED BY <1>1, SealInvariant, PTL

---------------------------------------------------------------------------
(***************************************************************************)
(* Settling once, for any positions, submissions and ingesters: a run nets *)
(* one day-close fill of a symbol, however often the positions are pulled. *)
(* The id of such a fill names its day and symbol, and no two fills of a   *)
(* run have the same id; what breaks it is an ingest that reads the date   *)
(* on both sides of midnight, and the run it settles is marked.            *)
(***************************************************************************)

RowRecords == [symbol : Range(Listing), qty : Int, px : Nat]

FillRecords ==
  [id : FillIds \cup (Days \X Range(Listing) \X {0}), venue : Venues \cup {Internal},
   symbol : Range(Listing), side : Sides, px : Nat, qty : Nat, fee : Nat]

LineRecords == [venue : Venues, symbol : Range(Listing), side : Sides, px : Nat, qty : Nat]

\* The fills the run of a day may have, when the runs in s are marked; nobody else has the
\* venue of the pull.
FillsOf(d, s) ==
  {f \in FillRecords :
     Internal \notin Venues /\ f.venue = Internal /\ d \notin s => f.id = <<d, f.symbol, 0>>}

DistinctIds(fills) == \A i, j \in 1..Len(fills) : fills[i].id = fills[j].id => i = j

RunOnce(run, F) ==
  /\ DOMAIN run = {"opened", "finalized", "fills", "lines", "revisions", "seal"}
  /\ run.fills \in Seq(F) /\ DistinctIds(run.fills)
  /\ run.lines \in Seq(LineRecords)

\* An ingester on a day.
IngestType(i, t) ==
  /\ i \in [at : {"idle", "pulled", "stamped"}, rows : Seq(RowRecords), day : Nat]
  /\ i.at = "stamped" => i.day \in 1..t

OnceInv ==
  /\ today \in Days /\ book \in [Range(Listing) -> BookRows]
  /\ ingest = [g \in Ingesters |-> ingest[g]] /\ \A g \in Ingesters : IngestType(ingest[g], today)
  /\ runs = [d \in Days |-> runs[d]] /\ \A d \in Days : RunOnce(runs[d], FillsOf(d, straddled))

---------------------------------------------------------------------------
\* A submission, fill by fill

AccOnce(acc, F) ==
  /\ DOMAIN acc = {"fills", "added", "conflict"}
  /\ acc.fills \in Seq(F) /\ DistinctIds(acc.fills)

LEMMA TakeOnce ==
  ASSUME NEW F, NEW acc, AccOnce(acc, F), NEW fill \in F
  PROVE  AccOnce(Take(acc, fill), F)
<1> DEFINE same == {i \in DOMAIN acc.fills : acc.fills[i].id = fill.id}
           more == [acc EXCEPT !.fills = Append(@, fill), !.added = @ + 1]
           bad == [acc EXCEPT !.conflict = TRUE]
<1>1. PICK n \in Nat : n = Len(acc.fills) /\ DOMAIN acc.fills = 1..n
  BY LenProperties DEF AccOnce
<1>2. Take(acc, fill) = acc \/ Take(acc, fill) = bad \/ (same = {} /\ Take(acc, fill) = more)
  BY DEF Take
<1>3. AccOnce(bad, F)
  BY DEF AccOnce
<1>4. ASSUME same = {} PROVE AccOnce(more, F)
  <2>1. more.fills = Append(acc.fills, fill) /\ DOMAIN more = DOMAIN acc
    BY DEF AccOnce
  <2> HIDE DEF more
  <2>2. /\ more.fills \in Seq(F) /\ Len(more.fills) = n + 1
        /\ \A i \in 1..n : more.fills[i] = acc.fills[i]
        /\ more.fills[n + 1] = fill
    BY <1>1, <2>1, AppendProperties DEF AccOnce
  <2>3. ASSUME NEW i \in 1..(n + 1), NEW j \in 1..(n + 1), more.fills[i].id = more.fills[j].id
        PROVE  i = j
    <3>1. \A k \in 1..n : acc.fills[k].id # fill.id
      BY <1>1, <1>4
    <3>2. i \in 1..n \/ i = n + 1
      OBVIOUS
    <3>3. j \in 1..n \/ j = n + 1
      OBVIOUS
    <3> QED BY <1>1, <2>2, <2>3, <3>1, <3>2, <3>3 DEF AccOnce, DistinctIds
  <2> QED BY <2>1, <2>2, <2>3 DEF AccOnce, DistinctIds
<1> HIDE DEF more, bad
<1> QED BY <1>2, <1>3, <1>4

LEMMA TakenOnce ==
  ASSUME NEW F, NEW run, run.fills \in Seq(F), DistinctIds(run.fills), NEW fills \in Seq(F)
  PROVE  Taken(run, fills).fills \in Seq(F) /\ DistinctIds(Taken(run, fills).fills)
<1>0. PICK n \in Nat : n = Len(fills)
  BY LenProperties
<1> DEFINE first == [fills |-> run.fills, added |-> 0, conflict |-> FALSE]
           IsTaken(g, m) == g = [k \in 0..m |-> IF k = 0 THEN first ELSE Take(g[k - 1], fills[k])]
           P == {m \in Nat : \E g : IsTaken(g, m)}
           taken == CHOOSE g : IsTaken(g, n)
<1>1. AccOnce(first, F)
  BY DEF AccOnce
<1> HIDE DEF first
<1>2. 0 \in P
  <2>1. IsTaken([k \in 0..0 |-> first], 0)
    OBVIOUS
  <2> QED BY <2>1
<1>3. ASSUME NEW m \in Nat, m \in P PROVE m + 1 \in P
  <2>1. PICK g : IsTaken(g, m)
    BY <1>3
  <2> DEFINE h == [k \in 0..(m + 1) |-> IF k = m + 1 THEN Take(g[m], fills[m + 1]) ELSE g[k]]
  <2>2. ASSUME NEW k \in 0..(m + 1)
        PROVE  h[k] = IF k = 0 THEN first ELSE Take(h[k - 1], fills[k])
    <3>1. CASE k = 0
      BY <2>1, <3>1
    <3>2. CASE k = m + 1
      <4>1. h[k] = Take(g[m], fills[k]) /\ h[k - 1] = g[m] /\ k # 0
        BY <3>2
      <4> QED BY <4>1
    <3>3. CASE k # 0 /\ k # m + 1
      <4>1. k \in 1..m /\ k \in 0..m /\ h[k] = g[k] /\ h[k - 1] = g[k - 1]
        BY <3>3
      <4> QED BY <2>1, <3>3, <4>1
    <3> QED BY <3>1, <3>2, <3>3
  <2>3. IsTaken(h, m + 1)
    BY <2>2
  <2> HIDE DEF h
  <2> QED BY <2>3
<1> HIDE DEF P
<1>4. n \in P
  BY <1>2, <1>3, NatByInduction
<1>5. IsTaken(taken, n)
  BY <1>4 DEF P
<1>6. Taken(run, fills) = taken[n]
  BY <1>0 DEF Taken, first
<1> HIDE DEF taken
<1> DEFINE Q == {m \in Nat : m <= n => AccOnce(taken[m], F)}
<1>7. 0 \in Q
  BY <1>1, <1>5
<1>8. ASSUME NEW m \in Nat, m \in Q PROVE m + 1 \in Q
  <2> SUFFICES ASSUME m + 1 <= n PROVE AccOnce(taken[m + 1], F)
    OBVIOUS
  <2>1. AccOnce(taken[m], F)
    BY <1>8
  <2>2. fills[m + 1] \in F
    BY <1>0, ElementOfSeq
  <2>3. taken[m + 1] = Take(taken[m], fills[m + 1])
    BY <1>5
  <2> QED BY <2>1, <2>2, <2>3, TakeOnce
<1> HIDE DEF Q
<1>9. n \in Q
  BY <1>7, <1>8, NatByInduction
<1> QED BY <1>6, <1>9 DEF Q, AccOnce

---------------------------------------------------------------------------
\* The runs

\* The statement of a run, with that of a submission.
LEMMA ReplacedLines ==
  ASSUME NEW L, NEW old \in Seq(L), NEW new \in Seq(L)
  PROVE  Replaced(old, new) \in Seq(L)
<1> DEFINE kept == {i \in DOMAIN old : old[i].venue \notin {l.venue : l \in Range(new)}}
<1>1. kept \in SUBSET (1..Len(old))
  BY LenProperties
<1>2. Replaced(old, new) = Picked(old, kept) \o new
  BY DEF Replaced
<1> HIDE DEF kept
<1>3. Picked(old, kept) \in Seq(L)
  BY <1>1, PickedOf
<1> QED BY <1>2, <1>3, ConcatProperties

\* A run of whose fills F are the kind, with a submission of such fills.
LEMMA SettledOnce ==
  ASSUME NEW F, NEW run, RunOnce(run, F), NEW fills \in Seq(F), NEW lines \in Seq(LineRecords)
  PROVE  RunOnce(Settled(run, fills, lines), F)
<1> DEFINE taken == Taken(run, fills)
           bare == [run EXCEPT !.opened = TRUE, !.fills = taken.fills]
           whole == [run EXCEPT !.opened = TRUE, !.fills = taken.fills,
                       !.lines = Replaced(@, lines),
                       !.revisions = Recorded(@, [action |-> "settle", added |-> taken.added])]
<1>1. Settled(run, fills, lines) \in {run, bare, whole}
  BY DEF Settled
<1>2. taken.fills \in Seq(F) /\ DistinctIds(taken.fills)
  BY TakenOnce DEF RunOnce
<1> HIDE DEF taken
<1>3. bare.fills = taken.fills /\ bare.lines = run.lines /\ DOMAIN bare = DOMAIN run
  BY DEF RunOnce
<1>4. whole.fills = taken.fills /\ whole.lines = Replaced(run.lines, lines) /\ DOMAIN whole = DOMAIN run
  BY DEF RunOnce
<1>5. Replaced(run.lines, lines) \in Seq(LineRecords)
  BY ReplacedLines DEF RunOnce
<1> HIDE DEF bare, whole
<1> QED BY <1>1, <1>2, <1>3, <1>4, <1>5 DEF RunOnce

\* A mark lets a run have more fills.
LEMMA MarkedOnce ==
  ASSUME NEW run, NEW d, NEW s, NEW t, s \subseteq t, RunOnce(run, FillsOf(d, s))
  PROVE  RunOnce(run, FillsOf(d, t))
<1>1. FillsOf(d, s) \subseteq FillsOf(d, t)
  BY DEF FillsOf
<1>2. PICK n \in Nat : n = Len(run.fills) /\ DOMAIN run.fills = 1..n
  BY LenProperties DEF RunOnce
<1>3. run.fills \in Seq(FillsOf(d, t))
  <2>1. \A i \in 1..n : run.fills[i] \in FillsOf(d, t)
    BY <1>1, <1>2, ElementOfSeq DEF RunOnce
  <2>2. run.fills = [i \in 1..n |-> run.fills[i]]
    BY <1>2 DEF RunOnce
  <2> QED BY <2>1, <2>2
<1> QED BY <1>3 DEF RunOnce

LEMMA SettleRunOnce ==
  ASSUME OnceInv, NEW s, straddled \subseteq s, straddled' = s, NEW d \in Days,
         NEW fills \in Seq(FillsOf(d, s)), NEW lines \in Seq(LineRecords), SettleRun(d, fills, lines)
  PROVE  /\ runs' = [c \in Days |-> runs'[c]]
         /\ \A c \in Days : RunOnce(runs'[c], FillsOf(c, s))
<1>1. /\ runs' = [runs EXCEPT ![d] = Settled(runs[d], fills, lines)]
      /\ runs = [c \in Days |-> runs[c]]
  BY DEF SettleRun, OnceInv
<1>2. ASSUME NEW c \in Days PROVE RunOnce(runs[c], FillsOf(c, s))
  BY MarkedOnce DEF OnceInv
<1>3. RunOnce(Settled(runs[d], fills, lines), FillsOf(d, s))
  BY <1>2, SettledOnce
<1> QED BY <1>1, <1>2, <1>3

LEMMA InitOnce == SettleInit => OnceInv
<1> SUFFICES ASSUME SettleInit PROVE OnceInv
  OBVIOUS
<1>1. today \in Days
  BY SettlementAssumption DEF SettleInit, Days
<1>2. ASSUME NEW g \in Ingesters PROVE IngestType(ingest[g], today)
  BY EmptySeq DEF SettleInit, IngestType, IdleIngest
<1>3. ASSUME NEW d \in Days PROVE RunOnce(runs[d], FillsOf(d, straddled))
  <2>1. runs[d] = NoRun
    BY DEF SettleInit
  <2> QED BY <2>1, EmptySeq DEF RunOnce, NoRun, DistinctIds
<1> QED BY <1>1, <1>2, <1>3 DEF SettleInit, OnceInv

\* What moves no run, day or mark.
LEMMA SameOnce ==
  ASSUME OnceInv, UNCHANGED <<runs, straddled>>, today' \in Days, today <= today',
         book' \in [Range(Listing) -> BookRows],
         ingest' = [g \in Ingesters |-> ingest'[g]],
         \A g \in Ingesters : ingest'[g] = ingest[g] \/ IngestType(ingest'[g], today')
  PROVE  OnceInv'
<1>0. \A i : i \in 1..today => i \in 1..today'
  BY DEF OnceInv, Days
<1>1. ASSUME NEW g \in Ingesters PROVE IngestType(ingest'[g], today')
  <2>1. IngestType(ingest[g], today)
    BY DEF OnceInv
  <2> QED BY <1>0, <2>1 DEF IngestType
<1> QED BY <1>1 DEF OnceInv

\* The fills a caller posts.
LEMMA PostedFills ==
  ASSUME NEW p \in Posts, NEW d, NEW s
  PROVE  [i \in DOMAIN p[1] |-> FillOfFields(p[1][i])] \in Seq(FillsOf(d, s))
<1>1. p[1] \in Seq(FillFields)
  BY SettlementAssumption
<1>2. PICK n \in Nat : n = Len(p[1]) /\ DOMAIN p[1] = 1..n
  BY <1>1
<1>3. ASSUME NEW i \in 1..n PROVE FillOfFields(p[1][i]) \in FillsOf(d, s)
  <2>1. p[1][i] \in FillFields
    BY <1>1, <1>2
  <2>2. FillOfFields(p[1][i]) \in FillRecords /\ FillOfFields(p[1][i]).venue \in Venues
    BY <2>1 DEF FillOfFields, FillFields, FillRecords
  <2> QED BY <2>2 DEF FillsOf
<1> QED BY <1>2, <1>3

LEMMA PostedLines ==
  ASSUME NEW p \in Posts
  PROVE  [i \in DOMAIN p[2] |-> LineOfFields(p[2][i])] \in Seq(LineRecords)
<1>1. p[2] \in Seq(LineFields)
  BY SettlementAssumption
<1>2. PICK n \in Nat : n = Len(p[2]) /\ DOMAIN p[2] = 1..n
  BY <1>1
<1>3. ASSUME NEW i \in 1..n PROVE LineOfFields(p[2][i]) \in LineRecords
  <2>1. p[2][i] \in LineFields
    BY <1>1, <1>2
  <2> QED BY <2>1 DEF LineOfFields, LineFields, LineRecords
<1> QED BY <1>2, <1>3

LEMMA SyntheticFill ==
  ASSUME NEW row \in RowRecords, NEW day \in Days, NEW d, NEW s, d \notin s => day = d
  PROVE  Synthetic(row, day) \in FillsOf(d, s)
<1>1. Synthetic(row, day) \in FillRecords
  BY DEF Synthetic, FillRecords, RowRecords, Sides
<1>2. Synthetic(row, day).id = <<day, Synthetic(row, day).symbol, 0>>
  BY DEF Synthetic
<1> QED BY <1>1, <1>2 DEF FillsOf

LEMMA IngestRowsOnce ==
  ASSUME OnceInv, NEW g \in Ingesters, IngestRows(g)
  PROVE  OnceInv'
<1> DEFINE pulled == ingest[g].rows
           day == ingest[g].day
           rows == Picked(pulled, {i \in DOMAIN pulled : pulled[i].qty # 0})
           fills == [i \in DOMAIN rows |-> Synthetic(rows[i], day)]
           s == straddled \cup (IF day < today THEN {today} ELSE {})
<1>1. /\ UNCHANGED runs \/ SettleRun(today, fills, <<>>)
      /\ straddled' = s /\ ingest' = [ingest EXCEPT ![g] = IdleIngest]
      /\ UNCHANGED <<today, book>> /\ ingest[g].at = "stamped"
  BY DEF IngestRows
<1>2. pulled \in Seq(RowRecords) /\ day \in 1..today /\ today \in Days /\ day \in Days
  <2>1. IngestType(ingest[g], today) /\ today \in Days
    BY DEF OnceInv
  <2>2. pulled \in Seq(RowRecords) /\ day \in 1..today
    BY <1>1, <2>1 DEF IngestType
  <2> HIDE DEF day, pulled
  <2> QED BY <2>1, <2>2, SettlementAssumption DEF Days
<1>3. fills \in Seq(FillsOf(today, s))
  <2>1. rows \in Seq(RowRecords)
    BY <1>2, PickedOf
  <2> HIDE DEF rows
  <2>2. PICK n \in Nat : n = Len(rows) /\ DOMAIN rows = 1..n
    BY <2>1
  <2>3. today \notin s => day = today
    BY <1>2 DEF Days
  <2> HIDE DEF s, day
  <2>4. ASSUME NEW i \in 1..n PROVE Synthetic(rows[i], day) \in FillsOf(today, s)
    <3>1. rows[i] \in RowRecords
      BY <2>1, <2>2
    <3> QED BY <1>2, <2>3, <3>1, SyntheticFill
  <2> QED BY <2>2, <2>4
<1> HIDE DEF fills, s
<1>4. /\ runs' = [c \in Days |-> runs'[c]]
      /\ \A c \in Days : RunOnce(runs'[c], FillsOf(c, s))
  <2>1. straddled \subseteq s
    BY DEF s
  <2>2. CASE UNCHANGED runs
    BY <2>1, <2>2, MarkedOnce DEF OnceInv
  <2>3. CASE SettleRun(today, fills, <<>>)
    BY <1>1, <1>2, <1>3, <2>1, <2>3, SettleRunOnce, EmptySeq
  <2> QED BY <1>1, <2>2, <2>3
<1>5. IngestType(IdleIngest, today)
  BY EmptySeq DEF IngestType, IdleIngest
<1>6. ingest' = [h \in Ingesters |-> ingest'[h]] /\ \A h \in Ingesters : IngestType(ingest'[h], today')
  BY <1>1, <1>5 DEF OnceInv
<1> QED BY <1>1, <1>4, <1>6 DEF OnceInv

LEMMA NextOnce == OnceInv /\ [SettleNext]_settleVars => OnceInv'
<1> SUFFICES ASSUME OnceInv, [SettleNext]_settleVars PROVE OnceInv'
  OBVIOUS
<1>0. /\ today \in Days /\ today \in Int /\ book \in [Range(Listing) -> BookRows]
      /\ ingest = [g \in Ingesters |-> ingest[g]] /\ runs = [d \in Days |-> runs[d]]
  BY SettlementAssumption DEF OnceInv, Days
<1>1. CASE Midnight
  BY <1>0, <1>1, SameOnce, SettlementAssumption DEF Midnight, Days
<1>2. ASSUME NEW d \in Days, Finalize(d) PROVE OnceInv'
  <2>1. /\ runs' = [runs EXCEPT ![d].finalized = TRUE, ![d].seal = SealDigest(runs[d]),
                             ![d].revisions = Recorded(@, [action |-> "finalize", added |-> 0])]
        /\ UNCHANGED <<today, book, ingest, straddled>>
    BY <1>2 DEF Finalize
  <2>2. RunOnce(runs[d], FillsOf(d, straddled))
    BY DEF OnceInv
  <2>3. /\ runs'[d].fills = runs[d].fills /\ runs'[d].lines = runs[d].lines
        /\ DOMAIN runs'[d] = DOMAIN runs[d]
    BY <1>0, <2>1, <2>2 DEF RunOnce
  <2>4. /\ runs' = [c \in Days |-> runs'[c]]
        /\ \A c \in Days : c # d => runs'[c] = runs[c]
    BY <1>0, <2>1
  <2>5. ASSUME NEW c \in Days PROVE RunOnce(runs'[c], FillsOf(c, straddled))
    BY <2>2, <2>3, <2>4 DEF OnceInv, RunOnce
  <2>6. \A g \in Ingesters : IngestType(ingest'[g], today')
    BY <2>1 DEF OnceInv
  <2> QED BY <1>0, <2>1, <2>4, <2>5, <2>6 DEF OnceInv
<1>3. ASSUME NEW d \in Days, NEW p \in Posts, Settle(d, p) PROVE OnceInv'
  <2> DEFINE fills == [i \in DOMAIN p[1] |-> FillOfFields(p[1][i])]
             lines == [i \in DOMAIN p[2] |-> LineOfFields(p[2][i])]
  <2>1. SettleRun(d, fills, lines) /\ UNCHANGED <<today, book, ingest, straddled>>
    BY <1>3 DEF Settle
  <2>2. fills \in Seq(FillsOf(d, straddled))
    BY PostedFills
  <2>5. lines \in Seq(LineRecords)
    BY PostedLines
  <2> HIDE DEF fills, lines
  <2>3. /\ runs' = [c \in Days |-> runs'[c]]
        /\ \A c \in Days : RunOnce(runs'[c], FillsOf(c, straddled))
    BY <2>1, <2>2, <2>5, SettleRunOnce
  <2>4. \A g \in Ingesters : IngestType(ingest'[g], today')
    BY <2>1 DEF OnceInv
  <2> QED BY <1>0, <2>1, <2>3, <2>4 DEF OnceInv
<1>4. ASSUME NEW s \in Range(Listing), PositionMoves(s) PROVE OnceInv'
  <2>1. PICK row \in BookRows : book' = [book EXCEPT ![s] = row]
    BY <1>4 DEF PositionMoves
  <2> QED BY <1>0, <1>4, <2>1, SameOnce DEF PositionMoves
<1>5. ASSUME NEW g \in Ingesters, Ingest(g) PROVE OnceInv'
  <2>0. IngestType(ingest[g], today)
    BY DEF OnceInv
  <2>1. CASE Pull(g)
    <3> DEFINE rows == [i \in DOMAIN Listing |-> [symbol |-> Listing[i], qty |-> book[Listing[i]][1],
                                                  px |-> book[Listing[i]][2]]]
    <3>1. /\ ingest' = [ingest EXCEPT ![g] = [at |-> "pulled", day |-> 0, rows |-> rows]]
          /\ UNCHANGED <<today, runs, book, straddled>>
      BY <2>1 DEF Pull
    <3>2. rows \in Seq(RowRecords)
      <4>1. PICK n \in Nat : n = Len(Listing) /\ DOMAIN Listing = 1..n
        BY SettlementAssumption
      <4>2. ASSUME NEW i \in 1..n
            PROVE  [symbol |-> Listing[i], qty |-> book[Listing[i]][1], px |-> book[Listing[i]][2]]
                     \in RowRecords
        <5>1. Listing[i] \in Range(Listing)
          BY <4>1 DEF Range
        <5>2. book[Listing[i]][1] \in Int /\ book[Listing[i]][2] \in Nat
          BY <1>0, <5>1, SettlementAssumption
        <5> QED BY <5>1, <5>2 DEF RowRecords
      <4> QED BY <4>1, <4>2
    <3> HIDE DEF rows
    <3>3. /\ ingest'[g] = [at |-> "pulled", day |-> 0, rows |-> rows]
          /\ ingest' = [h \in Ingesters |-> ingest'[h]]
          /\ \A h \in Ingesters : h # g => ingest'[h] = ingest[h]
      BY <1>0, <3>1
    <3>4. IngestType(ingest'[g], today')
      BY <3>2, <3>3 DEF IngestType
    <3> QED BY <1>0, <3>1, <3>3, <3>4, SameOnce
  <2>2. CASE Stamp(g)
    <3>1. /\ ingest' = [ingest EXCEPT ![g].at = "stamped", ![g].day = today]
          /\ UNCHANGED <<today, runs, book, straddled>>
      BY <2>2 DEF Stamp
    <3>2. /\ ingest' = [h \in Ingesters |-> ingest'[h]]
          /\ \A h \in Ingesters : h # g => ingest'[h] = ingest[h]
      BY <1>0, <3>1
    <3>3. IngestType(ingest'[g], today')
      <4>1. /\ ingest[g].rows \in Seq(RowRecords)
            /\ ingest[g] = [at |-> ingest[g].at, rows |-> ingest[g].rows, day |-> ingest[g].day]
        BY <2>0 DEF IngestType
      <4>2. ingest'[g] = [ingest[g] EXCEPT !.at = "stamped", !.day = today] /\ today' = today
        BY <1>0, <3>1
      <4>3. ingest'[g] = [at |-> "stamped", rows |-> ingest[g].rows, day |-> today]
        BY <4>1, <4>2
      <4>4. today \in Nat /\ today \in 1..today
        BY <1>0 DEF Days
      <4> QED BY <4>1, <4>2, <4>3, <4>4 DEF IngestType
    <3> QED BY <1>0, <3>1, <3>2, <3>3, SameOnce
  <2> QED BY <1>5, <2>1, <2>2, IngestRowsOnce DEF Ingest
<1>6. CASE UNCHANGED settleVars
  BY <1>0, <1>6, SameOnce DEF settleVars
<1> QED BY <1>1, <1>2, <1>3, <1>4, <1>5, <1>6 DEF SettleNext

LEMMA OnceInvariant == SettleSpec => []OnceInv
  BY InitOnce, NextOnce, PTL DEF SettleSpec

\* Repeated pulls settle a position once a day, whatever the position does in between, unless
\* an ingest straddles midnight; the fills posted by others are not booked under the venue
\* of the pull (settlement_engine.py:391, 429).
THEOREM SettledOncePerDay ==
  ASSUME Internal \notin Venues
  PROVE  SettleSpec => []PositionSettledOnce
<1>1. OnceInv => PositionSettledOnce
  <2> SUFFICES ASSUME OnceInv, NEW d \in Days \ straddled,
                      NEW i \in DOMAIN runs[d].fills, NEW j \in DOMAIN runs[d].fills,
                      runs[d].fills[i].venue = Internal, runs[d].fills[j].venue = Internal,
                      runs[d].fills[i].symbol = runs[d].fills[j].symbol
               PROVE  i = j
    BY DEF PositionSettledOnce
  <2> DEFINE fills == runs[d].fills
  <2>1. /\ fills \in Seq(FillsOf(d, straddled)) /\ DOMAIN fills = 1..Len(fills)
        /\ DistinctIds(fills)
    BY LenProperties DEF OnceInv, RunOnce
  <2> HIDE DEF fills
  <2>2. fills[i] \in FillsOf(d, straddled) /\ fills[j] \in FillsOf(d, straddled)
    BY <2>1, ElementOfSeq DEF fills
  <2>3. fills[i].id = fills[j].id
    BY <2>2 DEF FillsOf, fills
  <2> QED BY <2>1, <2>3 DEF DistinctIds, fills
<1> QED BY <1>1, OnceInvariant, PTL

---------------------------------------------------------------------------
(***************************************************************************)
(* The report of a day, for any fills and statement lines of any number of *)
(* symbols: both views of its cash are sums of the same amounts, by symbol *)
(* and in one go; and what only bought or only sold is as much as it nets, *)
(* so that equal quantities and averages leave nothing to differ.          *)
(***************************************************************************)

\* Fills or statement lines, as far as the sums go.
AreEntries(es) ==
  /\ es = [i \in 1..Len(es) |-> es[i]] /\ Len(es) \in Nat
  /\ \A i \in 1..Len(es) : es[i].side \in Sides /\ es[i].px \in Nat /\ es[i].qty \in Nat

SignedQuantities(es) == [i \in DOMAIN es |-> Signed(es[i].side, es[i].qty)]
Quantities(es) == [i \in DOMAIN es |-> es[i].qty]
Amounts(es) == [i \in DOMAIN es |-> Signed(es[i].side, es[i].px * es[i].qty)]

LEMMA Products == ASSUME NEW a \in Nat, NEW b \in Nat PROVE a * b \in Nat
  OBVIOUS

LEMMA ListsOfNumbers ==
  ASSUME NEW es, AreEntries(es)
  PROVE  /\ DOMAIN es = 1..Len(es)
         /\ SignedQuantities(es) \in Seq(Int) /\ Len(SignedQuantities(es)) = Len(es)
         /\ Quantities(es) \in Seq(Int) /\ Len(Quantities(es)) = Len(es)
         /\ Amounts(es) \in Seq(Int) /\ Len(Amounts(es)) = Len(es)
<1>1. PICK n \in Nat : n = Len(es)
  BY DEF AreEntries
<1>2. DOMAIN es = 1..n
  BY <1>1 DEF AreEntries
<1>3. ASSUME NEW i \in 1..n
      PROVE  /\ Signed(es[i].side, es[i].qty) \in Int /\ es[i].qty \in Int
             /\ Signed(es[i].side, es[i].px * es[i].qty) \in Int
  <2>1. es[i].px \in Nat /\ es[i].qty \in Nat
    BY <1>1 DEF AreEntries
  <2>2. es[i].px * es[i].qty \in Nat
    BY <2>1, Products
  <2> QED BY <2>1, <2>2 DEF Signed
<1>4. SignedQuantities(es) \in [1..n -> Int]
  BY <1>2, <1>3 DEF SignedQuantities
<1>5. Quantities(es) \in [1..n -> Int]
  BY <1>2, <1>3 DEF Quantities
<1>6. Amounts(es) \in [1..n -> Int]
  BY <1>2, <1>3 DEF Amounts
<1>7. ASSUME NEW f \in [1..n -> Int] PROVE f \in Seq(Int) /\ Len(f) = n
  OBVIOUS
<1> QED BY <1>1, <1>2, <1>4, <1>5, <1>6, <1>7

LEMMA FillsAreEntries ==
  ASSUME NEW fills \in Seq(FillRecords)
  PROVE  AreEntries(fills) /\ \A i \in 1..Len(fills) : fills[i].symbol \in Range(Listing)
<1>1. PICK n \in Nat : n = Len(fills)
  OBVIOUS
<1>2. \A i \in 1..n : fills[i] \in FillRecords
  BY <1>1, ElementOfSeq
<1>3. fills = [i \in 1..n |-> fills[i]]
  BY <1>1
<1> QED BY <1>1, <1>2, <1>3 DEF AreEntries, FillRecords

LEMMA LinesAreEntries ==
  ASSUME NEW lines \in Seq(LineRecords)
  PROVE  AreEntries(lines)
<1>1. PICK n \in Nat : n = Len(lines)
  OBVIOUS
<1>2. \A i \in 1..n : lines[i] \in LineRecords
  BY <1>1, ElementOfSeq
<1>3. lines = [i \in 1..n |-> lines[i]]
  BY <1>1
<1> QED BY <1>1, <1>2, <1>3 DEF AreEntries, LineRecords

LEMMA TotalsAre ==
  ASSUME NEW es, NEW at
  PROVE  /\ SideTotals(es, at).count = Cardinality(at)
         /\ SideTotals(es, at).net = SumAt(SignedQuantities(es), at)
         /\ SideTotals(es, at).gross = SumAt(Quantities(es), at)
         /\ SideTotals(es, at).notional = SumAt(Amounts(es), at)
  BY DEF SideTotals, SignedQuantities, Quantities, Amounts

\* A sum over nothing, and a sum over everything.
LEMMA SumOfNone ==
  ASSUME NEW s \in Seq(Int)
  PROVE  SumAt(s, {}) = 0
<1>1. PICK n \in Nat : n = Len(s)
  OBVIOUS
<1>2. \A k \in 1..n : Chosen(s, {})[k] = 0
  BY <1>1 DEF Chosen
<1>3. Total(Chosen(s, {}), n) = Total(Chosen(s, {}), 0)
  BY <1>2, TotalOfZeros
<1> QED BY <1>1, <1>3, SumAtIsTotal, TotalOfNone

LEMMA SumOfAll ==
  ASSUME NEW s \in Seq(Int)
  PROVE  SumAt(s, 1..Len(s)) = Total(s, Len(s))
<1>1. PICK n \in Nat : n = Len(s)
  OBVIOUS
<1>2. \A k \in 1..n : s[k] \in Int /\ Chosen(s, 1..n)[k] = s[k]
  BY <1>1, ElementOfSeq DEF Chosen
<1>3. Total(Chosen(s, 1..n), n) = Total(s, n)
  BY <1>2, TotalOfSame
<1> QED BY <1>1, <1>3, SumAtIsTotal

---------------------------------------------------------------------------
\* Cash

\* The fills of one symbol.
FillsIn(fills, symbol) == {i \in DOMAIN fills : fills[i].symbol = symbol}

\* Of the amounts w of n fills, c[j] are those of symbol j, with zeros, and t[j] their total.
SharesOf(t, c, w, fills, n, m) ==
  /\ \A j \in 1..m : \A k \in 1..n : c[j][k] = IF fills[k].symbol = Listing[j] THEN w[k] ELSE 0
  /\ \A j \in 1..m : t[j] = Total(c[j], n)

LEMMA TotalBySymbol ==
  ASSUME NEW n \in Nat, NEW m \in Nat, m = Len(Listing), NEW fills, NEW w, NEW c, NEW t,
         \A k \in 1..n : w[k] \in Int,
         \A k \in 1..n : fills[k].symbol \in Range(Listing), SharesOf(t, c, w, fills, n, m)
  PROVE  Total(t, m) = Total(w, n)
<1>0. DOMAIN Listing = 1..m
  BY SettlementAssumption
<1> DEFINE group == [k \in 1..n |-> CHOOSE j \in 1..m : Listing[j] = fills[k].symbol]
<1>1. ASSUME NEW k \in 1..n PROVE group[k] \in 1..m /\ Listing[group[k]] = fills[k].symbol
  <2>1. \E j \in 1..m : Listing[j] = fills[k].symbol
    BY <1>0 DEF Range
  <2> QED BY <2>1
<1>2. group \in [1..n -> 1..m]
  BY <1>1
<1> HIDE DEF group
<1>3. ASSUME NEW k \in 1..n, NEW j \in 1..m
      PROVE  group[k] = j <=> fills[k].symbol = Listing[j]
  <2>1. \A i, l \in 1..m : Listing[i] = Listing[l] => i = l
    BY <1>0, SettlementAssumption
  <2> QED BY <1>1, <2>1
<1>4. ASSUME NEW j \in 1..m, NEW k \in 1..n
      PROVE  c[j][k] = IF group[k] = j THEN w[k] ELSE 0
  BY <1>3 DEF SharesOf
<1>5. IsGrouped(t, c, w, group, n, m)
  BY <1>4 DEF IsGrouped, SharesOf
<1> QED BY <1>2, <1>5, TotalByGroup

LEMMA CashAgrees ==
  ASSUME NEW fills \in Seq(FillRecords), Len(NetPositions(fills)) < MaxRows
  PROVE  CashSummary(fills).net_cash
           = SumAt([i \in DOMAIN NetPositions(fills) |-> NetPositions(fills)[i].flow],
                   DOMAIN NetPositions(fills)) - CashSummary(fills).fees
<1> DEFINE w == Amounts(fills)
           all == [j \in DOMAIN Listing |-> NetPosition(fills, Listing[j])]
           kept == {j \in DOMAIN all : all[j].fill_count > 0 /\ ~(all[j].net = 0 /\ all[j].flow = 0)}
           rows == Picked(all, kept)
           d == [j \in DOMAIN all |-> all[j].flow]
           e == [k \in DOMAIN rows |-> rows[k].flow]
           c == [j \in DOMAIN Listing |-> Chosen(w, FillsIn(fills, Listing[j]))]
<1>1. PICK n \in Nat : n = Len(fills) /\ DOMAIN fills = 1..n
  BY LenProperties
<1>2. PICK m \in Nat : m = Len(Listing) /\ DOMAIN Listing = 1..m
  BY SettlementAssumption
<1>3. AreEntries(fills) /\ \A i \in 1..n : fills[i].symbol \in Range(Listing)
  BY <1>1, FillsAreEntries
<1>4. w \in Seq(Int) /\ Len(w) = n /\ \A k \in 1..n : w[k] \in Int
  <2>1. w \in Seq(Int) /\ Len(w) = n
    BY <1>1, <1>3, ListsOfNumbers
  <2> QED BY <2>1, ElementOfSeq
<1> HIDE DEF w
<1>5. ASSUME NEW j \in 1..m
      PROVE  /\ all[j].flow = -SumAt(w, FillsIn(fills, Listing[j]))
             /\ all[j].fill_count = Cardinality(FillsIn(fills, Listing[j]))
             /\ SumAt(w, FillsIn(fills, Listing[j])) = Total(c[j], n)
             /\ Total(c[j], n) \in Int
             /\ \A k \in 1..n : c[j][k] = IF fills[k].symbol = Listing[j] THEN w[k] ELSE 0
  <2> DEFINE at == FillsIn(fills, Listing[j])
  <2>1. all[j] = NetPosition(fills, Listing[j])
    BY <1>2
  <2>2. /\ NetPosition(fills, Listing[j]).flow = -SideTotals(fills, at).notional
        /\ NetPosition(fills, Listing[j]).fill_count = SideTotals(fills, at).count
    BY DEF NetPosition, FillsIn
  <2>3. c[j] = Chosen(w, at)
    BY <1>2
  <2>4. SumAt(w, at) = Total(Chosen(w, at), n) /\ SumAt(w, at) \in Int
    BY <1>4, SumAtIsTotal
  <2>5. \A k \in 1..n : k \in at <=> fills[k].symbol = Listing[j]
    BY <1>1 DEF FillsIn
  <2>6. \A k \in 1..n : Chosen(w, at)[k] = IF k \in at THEN w[k] ELSE 0
    BY <1>4 DEF Chosen
  <2> HIDE DEF at, all, c
  <2>7. all[j].flow = -SumAt(w, at) /\ all[j].fill_count = Cardinality(at)
    BY <2>1, <2>2, TotalsAre DEF w
  <2>8. \A k \in 1..n : c[j][k] = IF fills[k].symbol = Listing[j] THEN w[k] ELSE 0
    BY <2>3, <2>5, <2>6
  <2> QED BY <2>3, <2>4, <2>7, <2>8 DEF at
<1>6. \A j \in 1..m : \A k \in 1..n : c[j][k] = IF fills[k].symbol = Listing[j] THEN w[k] ELSE 0
  BY <1>5
<1>7. Total([j \in 1..m |-> Total(c[j], n)], m) = Total(w, n)
  <2> HIDE DEF c
  <2> DEFINE t == [j \in 1..m |-> Total(c[j], n)]
  <2>1. \A j \in 1..m : t[j] = Total(c[j], n)
    OBVIOUS
  <2> HIDE DEF t
  <2>2. SharesOf(t, c, w, fills, n, m)
    BY <1>6, <2>1 DEF SharesOf
  <2>3. Total(t, m) = Total(w, n)
    BY <1>2, <1>3, <1>4, <2>2, TotalBySymbol
  <2> QED BY <2>3 DEF t
<1>8. \A j \in 1..m : d[j] = -Total(c[j], n) /\ d[j] \in Int /\ d[j] = all[j].flow
  <2>1. DOMAIN all = 1..m
    BY <1>2
  <2>2. \A j \in 1..m : d[j] = all[j].flow
    BY <2>1
  <2> HIDE DEF d, all, c
  <2> QED BY <1>5, <2>2
<1>9. Total(d, m) = -Total(w, n)
  <2> DEFINE byGroup == [j \in 1..m |-> Total(c[j], n)]
  <2> HIDE DEF c
  <2>1. \A j \in 1..m : byGroup[j] \in Int /\ d[j] = -byGroup[j]
    BY <1>5, <1>8
  <2>2. Total(byGroup, m) = Total(w, n)
    BY <1>7
  <2> HIDE DEF byGroup, d
  <2>3. Total(d, m) = -Total(byGroup, m)
    BY <2>1, TotalOfNegated
  <2> QED BY <2>2, <2>3
<1>10. /\ InOrder(rows, all, kept) /\ Len(rows) \in Nat /\ DOMAIN rows = 1..Len(rows)
       /\ kept \subseteq 1..m /\ rows \in Seq({all[j] : j \in 1..m})
  <2>1. all \in Seq({all[j] : j \in 1..m}) /\ Len(all) = m /\ kept \in SUBSET (1..m)
    BY <1>2
  <2> HIDE DEF all, kept
  <2>2. InOrder(Picked(all, kept), all, kept)
    BY <2>1, PickedInOrder
  <2>3. Picked(all, kept) \in Seq({all[j] : j \in 1..m}) /\ Len(Picked(all, kept)) \in Nat
    BY <2>1, PickedOf
  <2> QED BY <2>1, <2>2, <2>3, LenProperties
<1>11. PICK r \in Nat : r = Len(rows) /\ DOMAIN rows = 1..r
  BY <1>10
<1> HIDE DEF rows, kept, all
<1>12. PICK pos \in [1..r -> kept] :
         /\ \A k \in 1..r : rows[k] = all[pos[k]]
         /\ \A k, l \in 1..r : k < l => pos[k] < pos[l]
         /\ \A i \in kept : \E k \in 1..r : pos[k] = i
  BY <1>10, <1>11 DEF InOrder
<1>13. ASSUME NEW j \in 1..m, d[j] # 0 PROVE j \in kept
  <2> HIDE DEF c, d
  <2>1. PICK at : at = FillsIn(fills, Listing[j])
    OBVIOUS
  <2>2. /\ all[j].flow = -SumAt(w, at) /\ all[j].fill_count = Cardinality(at)
        /\ all[j].flow = d[j]
    BY <1>5, <1>8, <2>1
  <2>3. at # {}
    <3> SUFFICES ASSUME at = {} PROVE FALSE
      OBVIOUS
    <3>1. SumAt(w, at) = 0
      BY <1>4, SumOfNone
    <3> QED BY <1>13, <2>2, <3>1
  <2>4. IsFiniteSet(at)
    <3>1. at \subseteq 1..n
      BY <1>1, <2>1 DEF FillsIn
    <3>2. IsFiniteSet(1..n)
      BY FS_Interval
    <3> QED BY <3>1, <3>2, FS_Subset
  <2>5. Cardinality(at) \in Nat \ {0}
    BY <2>3, <2>4, FS_CardinalityType, FS_EmptySet
  <2>6. j \in DOMAIN all
    BY <1>2 DEF all
  <2> QED BY <1>13, <2>2, <2>5, <2>6 DEF kept
<1>14. Total(e, r) = Total(d, m)
  <2>1. pos \in [1..r -> 1..m]
    BY <1>10, <1>12
  <2>2. ASSUME NEW k \in 1..r PROVE e[k] = d[pos[k]]
    <3>1. e[k] = rows[k].flow
      BY <1>11
    <3>2. rows[k] = all[pos[k]] /\ pos[k] \in 1..m
      BY <1>12, <2>1
    <3> QED BY <1>8, <3>1, <3>2
  <2>3. \A i \in 1..m : d[i] # 0 => \E k \in 1..r : pos[k] = i
    BY <1>12, <1>13
  <2>4. \A k \in 1..m : d[k] \in Int
    BY <1>8
  <2>5. \A k \in 1..r : e[k] = d[pos[k]]
    BY <2>2
  <2>6. \A k, l \in 1..r : k < l => pos[k] < pos[l]
    BY <1>12
  <2> HIDE DEF e, d
  <2>7. IsSelection(pos, d, e, r, m)
    BY <2>3, <2>5, <2>6 DEF IsSelection
  <2> QED BY <2>1, <2>4, <2>7, TotalOfPicked
<1>15. SumAt(e, DOMAIN rows) = Total(e, r)
  <2>1. ASSUME NEW k \in 1..r PROVE rows[k].flow \in Int
    <3>1. pos[k] \in 1..m /\ rows[k] = all[pos[k]]
      BY <1>10, <1>12
    <3> HIDE DEF d, c
    <3> QED BY <1>8, <3>1
  <2>2. e \in Seq(Int) /\ Len(e) = r
    BY <1>11, <2>1
  <2> HIDE DEF e
  <2> QED BY <1>11, <2>2, SumOfAll
<1>16. NetPositions(fills) = rows
  <2>1. NetPositions(fills) = IF Len(rows) > MaxRows THEN SubSeq(rows, 1, MaxRows) ELSE rows
    BY DEF NetPositions, rows, kept, all
  <2>3. ASSUME r > MaxRows PROVE Len(SubSeq(rows, 1, MaxRows)) = MaxRows
    BY <1>10, <1>11, <2>3, SettlementAssumption, SubSeqProperties DEF ValidSettlementConfig
  <2> QED BY <1>11, <2>1, <2>3, SettlementAssumption DEF ValidSettlementConfig
<1>17. CashSummary(fills).net_cash = -SumAt(w, DOMAIN fills) - CashSummary(fills).fees
  <2>1. CashSummary(fills).net_cash = -SideTotals(fills, DOMAIN fills).notional - CashSummary(fills).fees
    BY DEF CashSummary
  <2> QED BY <2>1, TotalsAre DEF w
<1>18. SumAt(w, DOMAIN fills) = Total(w, n)
  BY <1>1, <1>4, SumOfAll
<1> HIDE DEF d
<1> QED BY <1>9, <1>14, <1>15, <1>16, <1>17, <1>18 DEF e

LEMMA RunsAreTyped ==
  ASSUME OnceInv, NEW d \in Days
  PROVE  runs[d].fills \in Seq(FillRecords) /\ runs[d].lines \in Seq(LineRecords)
<1>1. RunOnce(runs[d], FillsOf(d, straddled))
  BY DEF OnceInv
<1> DEFINE fills == runs[d].fills
<1>2. fills \in Seq(FillsOf(d, straddled)) /\ runs[d].lines \in Seq(LineRecords)
  BY <1>1 DEF RunOnce
<1> HIDE DEF fills
<1>3. PICK n \in Nat : n = Len(fills) /\ fills = [i \in 1..n |-> fills[i]]
  BY <1>2
<1>4. \A i \in 1..n : fills[i] \in FillRecords
  BY <1>2, <1>3, ElementOfSeq DEF FillsOf
<1>5. fills \in Seq(FillRecords)
  <2>1. fills \in [1..n -> FillRecords]
    BY <1>3, <1>4
  <2> QED BY <2>1
<1> QED BY <1>2, <1>5 DEF fills

\* The flows of the net positions, less the fees, are the day's net cash, for any fills of any
\* symbols, as long as no row was cut (netting.py:131, 157).
THEOREM CashAddsUp == SettleSpec => []CashViewsAgree
<1>1. OnceInv => CashViewsAgree
  <2> SUFFICES ASSUME OnceInv, NEW d \in Days, Len(NetPositions(runs[d].fills)) < MaxRows
               PROVE  CashSummary(runs[d].fills).net_cash
                        = SumAt([i \in DOMAIN NetPositions(runs[d].fills) |->
                                   NetPositions(runs[d].fills)[i].flow],
                                DOMAIN NetPositions(runs[d].fills)) - CashSummary(runs[d].fills).fees
    BY DEF CashViewsAgree
  <2>1. runs[d].fills \in Seq(FillRecords)
    BY RunsAreTyped
  <2> QED BY <2>1, CashAgrees
<1> QED BY <1>1, OnceInvariant, PTL

---------------------------------------------------------------------------
\* Reconciliation

\* The totals of entries that are all of one side.
IsOneSided(side, t) ==
  /\ t.gross \in Nat /\ t.net = Signed(side, t.gross)
  /\ t.notional \in Int /\ Signed(side, t.notional) \in Nat
  /\ t.gross = 0 => t.notional = 0

\* One entry more on that side.
LEMMA OneMoreOfSide ==
  ASSUME NEW side \in Sides, NEW g \in Nat, NEW a \in Int, Signed(side, a) \in Nat,
         g = 0 => a = 0, NEW px \in Nat, NEW qty \in Nat
  PROVE  /\ Signed(side, g) + Signed(side, qty) = Signed(side, g + qty)
         /\ Signed(side, a + Signed(side, px * qty)) \in Nat
         /\ g + qty = 0 => a + Signed(side, px * qty) = 0
<1>1. PICK p \in Nat : p = px * qty
  BY Products
<1>2. qty = 0 => p = 0
  BY <1>1
<1>3. /\ Signed(side, g) + Signed(side, qty) = Signed(side, g + qty)
      /\ Signed(side, a + Signed(side, p)) \in Nat
      /\ g + qty = 0 => a + Signed(side, p) = 0
  BY <1>2 DEF Signed, Sides
<1> QED BY <1>1, <1>3

LEMMA OneSidedTotals ==
  ASSUME NEW es, AreEntries(es), NEW side \in Sides, NEW at,
         \A i \in 1..Len(es) : i \in at => es[i].side = side
  PROVE  IsOneSided(side, SideTotals(es, at))
<1>1. PICK n \in Nat : n = Len(es)
  BY DEF AreEntries
<1> DEFINE a == Chosen(SignedQuantities(es), at)
           b == Chosen(Quantities(es), at)
           c == Chosen(Amounts(es), at)
<1>2. \A k \in 1..n : a[k] \in Int /\ b[k] \in Int /\ c[k] \in Int
  BY <1>1, ListsOfNumbers, SumAtIsTotal
<1>3. ASSUME NEW k \in 1..n
      PROVE  /\ k \notin at => a[k] = 0 /\ b[k] = 0 /\ c[k] = 0
             /\ k \in at => /\ a[k] = Signed(side, es[k].qty) /\ b[k] = es[k].qty
                            /\ c[k] = Signed(side, es[k].px * es[k].qty)
             /\ es[k].px \in Nat /\ es[k].qty \in Nat
  <2>1. /\ Len(SignedQuantities(es)) = n /\ Len(Quantities(es)) = n /\ Len(Amounts(es)) = n
        /\ k \in DOMAIN es
    BY <1>1, ListsOfNumbers
  <2>2. /\ a[k] = IF k \in at THEN SignedQuantities(es)[k] ELSE 0
        /\ b[k] = IF k \in at THEN Quantities(es)[k] ELSE 0
        /\ c[k] = IF k \in at THEN Amounts(es)[k] ELSE 0
    BY <2>1 DEF Chosen
  <2>3. /\ SignedQuantities(es)[k] = Signed(es[k].side, es[k].qty)
        /\ Quantities(es)[k] = es[k].qty
        /\ Amounts(es)[k] = Signed(es[k].side, es[k].px * es[k].qty)
    BY <2>1 DEF SignedQuantities, Quantities, Amounts
  <2>4. es[k].px \in Nat /\ es[k].qty \in Nat /\ (k \in at => es[k].side = side)
    BY <1>1 DEF AreEntries
  <2> HIDE DEF a, b, c
  <2> QED BY <2>2, <2>3, <2>4
<1> HIDE DEF a, b, c
<1> DEFINE Sound(x, y, z) ==
             /\ y \in Nat /\ x = Signed(side, y) /\ z \in Int /\ Signed(side, z) \in Nat
             /\ y = 0 => z = 0
           P == {k \in Nat : k <= n => Sound(Total(a, k), Total(b, k), Total(c, k))}
<1>4. 0 \in P
  BY TotalOfNone DEF Signed
<1>5. ASSUME NEW k \in Nat, k \in P PROVE k + 1 \in P
  <2> SUFFICES ASSUME k + 1 <= n
               PROVE  Sound(Total(a, k + 1), Total(b, k + 1), Total(c, k + 1))
    OBVIOUS
  <2>1. \A i \in 1..(k + 1) : i \in 1..n
    OBVIOUS
  <2>2. Total(a, k + 1) = Total(a, k) + a[k + 1]
    <3>1. \A i \in 1..(k + 1) : a[i] \in Int
      BY <1>2, <2>1
    <3> QED BY <3>1, TotalOfMore
  <2>3. Total(b, k + 1) = Total(b, k) + b[k + 1]
    <3>1. \A i \in 1..(k + 1) : b[i] \in Int
      BY <1>2, <2>1
    <3> QED BY <3>1, TotalOfMore
  <2>4. Total(c, k + 1) = Total(c, k) + c[k + 1]
    <3>1. \A i \in 1..(k + 1) : c[i] \in Int
      BY <1>2, <2>1
    <3> QED BY <3>1, TotalOfMore
  <2>5. PICK g \in Nat, z \in Int : g = Total(b, k) /\ z = Total(c, k)
    BY <1>5
  <2>6. Total(a, k) = Signed(side, g) /\ Signed(side, z) \in Nat /\ (g = 0 => z = 0)
    BY <1>5, <2>5
  <2>7. CASE k + 1 \notin at
    <3>1. a[k + 1] = 0 /\ b[k + 1] = 0 /\ c[k + 1] = 0
      BY <1>3, <2>1, <2>7
    <3>2. Total(a, k + 1) = Signed(side, g) /\ Total(b, k + 1) = g /\ Total(c, k + 1) = z
      BY <2>2, <2>3, <2>4, <2>5, <2>6, <3>1 DEF Signed
    <3> QED BY <2>6, <3>2
  <2>8. CASE k + 1 \in at
    <3>1. PICK px \in Nat, qty \in Nat : px = es[k + 1].px /\ qty = es[k + 1].qty
      BY <1>3, <2>1
    <3>2. /\ a[k + 1] = Signed(side, qty) /\ b[k + 1] = qty
          /\ c[k + 1] = Signed(side, px * qty)
      BY <1>3, <2>1, <2>8, <3>1
    <3>3. PICK p : p = Signed(side, px * qty)
      OBVIOUS
    <3>4. /\ Signed(side, g) + Signed(side, qty) = Signed(side, g + qty)
          /\ Signed(side, z + p) \in Nat
          /\ g + qty = 0 => z + p = 0
      BY <2>6, <3>3, OneMoreOfSide
    <3>5. p \in Int
      BY <3>3, Products DEF Signed
    <3>6. /\ Total(a, k + 1) = Signed(side, g + qty) /\ Total(b, k + 1) = g + qty
          /\ Total(c, k + 1) = z + p
      BY <2>2, <2>3, <2>4, <2>5, <2>6, <3>2, <3>3, <3>4
    <3> QED BY <3>4, <3>5, <3>6
  <2> QED BY <2>7, <2>8
<1> HIDE DEF P
<1>6. n \in P
  BY <1>4, <1>5, NatByInduction
<1>7. Sound(Total(a, n), Total(b, n), Total(c, n))
  BY <1>6 DEF P
<1>8. /\ SideTotals(es, at).net = Total(a, n) /\ SideTotals(es, at).gross = Total(b, n)
      /\ SideTotals(es, at).notional = Total(c, n)
  BY <1>1, TotalsAre, ListsOfNumbers, SumAtIsTotal DEF a, b, c
<1> QED BY <1>7, <1>8 DEF IsOneSided

\* Equal quantities at equal averages, each of one side, are worth the same.
LEMMA SameQuantityAndAverage ==
  ASSUME NEW x \in Sides, NEW y \in Sides, NEW o, NEW t, IsOneSided(x, o), IsOneSided(y, t),
         o.net = t.net, ~AveragesDiffer(o, t)
  PROVE  o.notional = t.notional
<1>1. PICK go \in Nat, gt \in Nat, a \in Int, b \in Int :
        go = o.gross /\ gt = t.gross /\ a = o.notional /\ b = t.notional
  BY DEF IsOneSided
<1>2. /\ Signed(x, go) = Signed(y, gt) /\ Signed(x, a) \in Nat /\ Signed(y, b) \in Nat
      /\ (go = 0 => a = 0) /\ (gt = 0 => b = 0)
  BY <1>1 DEF IsOneSided
<1>3. PICK ma \in Nat, mb \in Nat : ma = Magnitude(a) /\ mb = Magnitude(b)
  BY DEF Magnitude
<1>4. ma * gt = mb * go
  BY <1>1, <1>3 DEF AveragesDiffer
<1>5. go = gt
  BY <1>2 DEF Signed, Sides
<1>6. CASE go = 0
  BY <1>1, <1>2, <1>5, <1>6
<1>7. CASE go # 0
  <2>1. x = y
    BY <1>2, <1>5, <1>7 DEF Signed, Sides
  <2>2. ma = mb
    BY <1>4, <1>5, <1>7
  <2> QED BY <1>1, <1>2, <1>3, <2>1, <2>2 DEF Signed, Magnitude, Sides
<1> QED BY <1>6, <1>7

\* The entries of a venue and symbol.
EntriesOf(es, venue, symbol) ==
  {i \in DOMAIN es : es[i].venue = venue /\ es[i].symbol = symbol}

\* Entries of which OneSided holds are of one side.
LEMMA OneSideOnly ==
  ASSUME NEW es, AreEntries(es), NEW venue, NEW symbol, OneSided(es, venue, symbol)
  PROVE  \E side \in Sides :
           \A i \in 1..Len(es) : i \in EntriesOf(es, venue, symbol) => es[i].side = side
<1> DEFINE S == {e.side : e \in {x \in Range(es) : x.venue = venue /\ x.symbol = symbol}}
<1>1. DOMAIN es = 1..Len(es)
  BY ListsOfNumbers
<1>2. ASSUME NEW i \in 1..Len(es), i \in EntriesOf(es, venue, symbol) PROVE es[i].side \in S
  BY <1>1, <1>2 DEF EntriesOf, Range
<1>3. ASSUME NEW i \in 1..Len(es) PROVE es[i].side \in Sides
  BY DEF AreEntries
<1>4. S \subseteq Sides
  BY <1>1, <1>3 DEF Range
<1>5. Cardinality(S) <= 1
  BY DEF OneSided
<1> HIDE DEF S
<1>6. "BUY" \notin S \/ "SELL" \notin S
  <2> SUFFICES ASSUME "BUY" \in S, "SELL" \in S PROVE FALSE
    OBVIOUS
  <2>1. S = {"BUY"} \cup {"SELL"}
    BY <1>4 DEF Sides
  <2>2. IsFiniteSet({"BUY"}) /\ Cardinality({"BUY"}) = 1
    BY FS_Singleton
  <2>3. Cardinality({"BUY"} \cup {"SELL"}) = Cardinality({"BUY"}) + 1
    BY <2>2, FS_AddElement
  <2> QED BY <1>5, <2>1, <2>2, <2>3
<1>7. PICK side \in Sides : S \subseteq {side}
  BY <1>4, <1>6 DEF Sides
<1> QED BY <1>2, <1>7

\* A venue and symbol that is not flagged, of entries that are there: the two agree.
LEMMA NotFlagged ==
  ASSUME NEW run, AreEntries(run.fills), AreEntries(run.lines), NEW venue, NEW symbol,
         QtyTolerance = 0,
         OneSided(run.fills, venue, symbol), OneSided(run.lines, venue, symbol),
         EntriesOf(run.fills, venue, symbol) # {} \/ EntriesOf(run.lines, venue, symbol) # {},
         KindOf(AggregateOf(run.fills, venue, symbol), AggregateOf(run.lines, venue, symbol)) = "none"
  PROVE  AggregateOf(run.fills, venue, symbol).notional = AggregateOf(run.lines, venue, symbol).notional
<1> DEFINE A == EntriesOf(run.fills, venue, symbol)
           B == EntriesOf(run.lines, venue, symbol)
<1>1. PICK o, t : o = SideTotals(run.fills, A) /\ t = SideTotals(run.lines, B)
  OBVIOUS
<1>2. AggregateOf(run.fills, venue, symbol) = o /\ AggregateOf(run.lines, venue, symbol) = t
  BY <1>1 DEF AggregateOf, EntriesOf
<1>3. PICK x \in Sides : \A i \in 1..Len(run.fills) : i \in A => run.fills[i].side = x
  BY OneSideOnly
<1>4. PICK y \in Sides : \A i \in 1..Len(run.lines) : i \in B => run.lines[i].side = y
  BY OneSideOnly
<1> HIDE DEF A, B
<1>5. IsOneSided(x, o) /\ IsOneSided(y, t)
  BY <1>1, <1>3, <1>4, OneSidedTotals
<1>6. o.count = Cardinality(A) /\ t.count = Cardinality(B)
  BY <1>1, TotalsAre
<1>7. Cardinality(A) # 0 \/ Cardinality(B) # 0
  <2>1. A \subseteq 1..Len(run.fills) /\ Len(run.fills) \in Int
    BY ListsOfNumbers DEF A, EntriesOf, AreEntries
  <2>2. B \subseteq 1..Len(run.lines) /\ Len(run.lines) \in Int
    BY ListsOfNumbers DEF B, EntriesOf, AreEntries
  <2>3. IsFiniteSet(A) /\ IsFiniteSet(B)
    <3>1. IsFiniteSet(1..Len(run.fills)) /\ IsFiniteSet(1..Len(run.lines))
      BY <2>1, <2>2, FS_Interval
    <3>2. IsFiniteSet(A)
      BY <2>1, <3>1, FS_Subset
    <3>3. IsFiniteSet(B)
      BY <2>2, <3>1, FS_Subset
    <3> QED BY <3>2, <3>3
  <2>4. A # {} \/ B # {}
    BY DEF A, B
  <2> QED BY <2>3, <2>4, FS_EmptySet
<1>8. ~(Magnitude(o.net - t.net) > 0) /\ ~AveragesDiffer(o, t)
  BY <1>2, <1>6, <1>7 DEF KindOf
<1>9. o.net = t.net
  <2>1. PICK p \in Int, q \in Int : p = o.net /\ q = t.net
    BY <1>5 DEF IsOneSided, Signed
  <2> QED BY <1>8, <2>1 DEF Magnitude
<1> QED BY <1>2, <1>5, <1>8, <1>9, SameQuantityAndAverage

\* What the report does not flag is worth the same on both sides, whatever the fills and the
\* statement, where each side only bought or only sold and no tolerance is given
\* (reconcile.py:150).
THEOREM ReconciledIsEqual == SettleSpec => []ReconciledIsWorthTheSame
<1>1. OnceInv => ReconciledIsWorthTheSame
  <2> SUFFICES ASSUME OnceInv, NEW d \in Days,
                      NEW e \in Range(runs[d].fills) \cup Range(runs[d].lines),
                      ~\E f \in MatchingReport(runs[d]) : f.venue = e.venue /\ f.symbol = e.symbol,
                      ~(QtyTolerance > 0),
                      OneSided(runs[d].fills, e.venue, e.symbol),
                      OneSided(runs[d].lines, e.venue, e.symbol)
               PROVE  AggregateOf(runs[d].fills, e.venue, e.symbol).notional
                        = AggregateOf(runs[d].lines, e.venue, e.symbol).notional
    BY DEF ReconciledIsWorthTheSame
  <2>1. PICK run : run = runs[d]
    OBVIOUS
  <2>2. AreEntries(run.fills) /\ AreEntries(run.lines)
    BY <2>1, RunsAreTyped, FillsAreEntries, LinesAreEntries
  <2>3. QtyTolerance = 0
    BY SettlementAssumption DEF ValidSettlementConfig
  <2>4. EntriesOf(run.fills, e.venue, e.symbol) # {} \/ EntriesOf(run.lines, e.venue, e.symbol) # {}
    BY <2>1 DEF EntriesOf, Range
  <2> DEFINE o == AggregateOf(run.fills, e.venue, e.symbol)
             t == AggregateOf(run.lines, e.venue, e.symbol)
  <2>5. KindOf(o, t) = "none"
    <3> SUFFICES ASSUME KindOf(o, t) # "none" PROVE FALSE
      OBVIOUS
    <3>1. PICK k : k = <<e.venue, e.symbol>>
      OBVIOUS
    <3>2. k[1] = e.venue /\ k[2] = e.symbol
      BY <3>1
    <3>3. k \in {<<x.venue, x.symbol>> : x \in Range(run.fills) \cup Range(run.lines)}
      BY <2>1, <3>1
    <3> DEFINE f == Discrepancy(KindOf(o, t), e.venue, e.symbol, o, t)
    <3>4. f \in MatchingReport(run)
      BY <3>2, <3>3 DEF MatchingReport
    <3>5. f.venue = e.venue /\ f.symbol = e.symbol
      BY DEF Discrepancy
    <3> HIDE DEF f
    <3> QED BY <2>1, <3>4, <3>5
  <2>6. OneSided(run.fills, e.venue, e.symbol) /\ OneSided(run.lines, e.venue, e.symbol)
    BY <2>1
  <2> HIDE DEF o, t
  <2>7. o.notional = t.notional
    BY <2>2, <2>3, <2>4, <2>5, <2>6, NotFlagged DEF o, t
  <2> QED BY <2>1, <2>7 DEF o, t
<1> QED BY <1>1, OnceInvariant, PTL

---------------------------------------------------------------------------
(***************************************************************************)
(* The log of S8, for any symbols, budgets, weights and bound on the log,  *)
(* any quotes and books, and any upstream that fails: the kept episodes of *)
(* a symbol alternate and the last says its state, and the alerts follow   *)
(* the log.                                                                *)
(*                                                                         *)
(* What carries the argument is stated of the log before and after it is   *)
(* cut: two episodes of a symbol with none of it between them differ, and  *)
(* one with none of it behind says the state; a pass adds at most one      *)
(* episode of a symbol, and only where the state changes, and a cut takes  *)
(* the oldest away.  The alerts that came, the alerts in hand and the      *)
(* number of the next episode rise in this order.                          *)
(***************************************************************************)

\* What a window is made of once there is one, and what a report says of it.
WindowType(w) == w \in [quotes : Nat, stale : Nat, worst : Nat, silent : Nat, span : Nat]
Episode ==
  [id : Nat, symbol : Symbols, kind : {"DEGRADED", "RECOVERED"},
   severity : {"CRITICAL", "MAJOR", "MINOR"}]

\* A silent feed costs what silence costs, and more.
FeedType(feed) ==
  \A s \in DOMAIN feed :
    /\ s \in Symbols /\ feed[s].cost \in Nat /\ feed[s].silent \in BOOLEAN
    /\ feed[s].silent => feed[s].cost >= 10 * GapWeight

QualityType ==
  /\ windows = [s \in Symbols |-> windows[s]]
  /\ \A s \in Symbols : windows[s] = NoWindow \/ WindowType(windows[s])
  /\ quality \in [Symbols -> SymbolQuality]
  /\ degradations \in Seq(Episode) /\ nextDegradation \in Nat
  /\ pass = [at |-> pass.at, feed |-> pass.feed, send |-> pass.send]
  /\ FeedType(pass.feed) /\ pass.send \in Seq(Nat) /\ (pass.at = "send" <=> pass.send # <<>>)
  /\ alerts \in Seq(Nat)

\* The state an episode says its symbol is in.
Says(e) == IF e.kind = "DEGRADED" THEN "DEGRADED" ELSE "OK"

\* Episodes of a symbol that follow one another differ, and the last one says its state.
NoneBetween(log, i, j) == \A k \in (i + 1)..(j - 1) : log[k].symbol # log[i].symbol
Alternating(log, state) ==
  /\ \A i, j \in 1..Len(log) :
       i < j /\ log[i].symbol = log[j].symbol /\ NoneBetween(log, i, j) => log[i].kind # log[j].kind
  /\ \A i \in 1..Len(log) :
       NoneBetween(log, i, Len(log) + 1) => Says(log[i]) = state[log[i].symbol]

Numbered(log, next) ==
  /\ \A i, j \in 1..Len(log) : i < j => log[i].id < log[j].id
  /\ \A i \in 1..Len(log) : log[i].id < next

States == [s \in Symbols |-> quality[s].state]

SilenceShows ==
  AtLeast(0, 100 - 10 * GapWeight) < DegradedBelow =>
    \A s \in Symbols : quality[s].feed_silent => quality[s].state = "DEGRADED"

\* What S10 got and will get: rising numbers of degradations.
AlertsRise(got, send, next) ==
  /\ \A i, j \in 1..Len(got) : i < j => got[i] < got[j]
  /\ \A i, j \in 1..Len(send) : i < j => send[i] < send[j]
  /\ \A i \in 1..Len(got), j \in 1..Len(send) : got[i] < send[j]
  /\ \A i \in 1..Len(got) : got[i] < next
  /\ \A i \in 1..Len(send) : send[i] < next

AlertsKnown(log, got, send, done) ==
  \A i \in 1..Len(log) :
    /\ log[i].kind = "DEGRADED" => log[i].id \in done \/ \E j \in 1..Len(send) : send[j] = log[i].id
    /\ log[i].kind = "RECOVERED" =>
         /\ \A j \in 1..Len(got) : got[j] # log[i].id
         /\ \A j \in 1..Len(send) : send[j] # log[i].id

QualityInv ==
  /\ QualityType
  /\ Alternating(degradations, States) /\ Numbered(degradations, nextDegradation)
  /\ SilenceShows
  /\ AlertsRise(alerts, pass.send, nextDegradation)
  /\ AlertsKnown(degradations, alerts, pass.send, tried)
---------------------------------------------------------------------------
(* What a symbol costs, and what its score makes of it *)

\* What is used of the configuration.
LEMMA ConfigFacts ==
  /\ SilentBudget \in Nat /\ AgeBudget \in Nat /\ StaleWarn \in Nat /\ StaleCrit \in Nat
  /\ StaleWarn <= StaleCrit /\ GapWeight \in Nat /\ StaleWeight \in Nat
  /\ DegradedBelow \in Nat /\ RecoveredAtOrAbove \in Nat /\ DegradedBelow < RecoveredAtOrAbove
  /\ MaxDegradations \in Nat \ {0} /\ BookVenues \in Nat /\ MaxAge \in Nat
BY QualityAssumption DEF ValidQualityConfig

LEMMA Quotient ==
  ASSUME NEW a \in Nat, NEW b \in Nat, b # 0
  PROVE  a \div b \in Nat
OBVIOUS

LEMMA Product == ASSUME NEW a \in Nat, NEW b \in Nat PROVE a * b \in Nat
OBVIOUS

LEMMA PenaltyFacts ==
  ASSUME NEW m, m.quotes \in Nat, m.stale \in Nat, m.worst \in Nat, m.silent \in BOOLEAN
  PROVE  FeedPenalty(m) \in Nat /\ (m.silent => FeedPenalty(m) >= 10 * GapWeight)
<1>1. StalePenalty(m) \in Nat
  <2>1. CASE m.quotes = 0
    BY <2>1 DEF StalePenalty
  <2>2. CASE m.quotes # 0 /\ 100 * m.stale > StaleCrit * m.quotes
    <3>1. StaleCrit * m.quotes >= StaleWarn * m.quotes
      BY ConfigFacts
    <3>2. StaleCrit * m.quotes \in Nat /\ StaleWarn * m.quotes \in Nat
      BY ConfigFacts, Product
    <3>3. 100 * m.stale - StaleWarn * m.quotes \in Nat
      BY <2>2, <3>1, <3>2
    <3>4. (100 * m.stale - StaleWarn * m.quotes) * StaleWeight \in Nat
      BY <3>3, ConfigFacts, Product
    <3>5. ((100 * m.stale - StaleWarn * m.quotes) * StaleWeight) \div m.quotes \in Nat
      BY <2>2, <3>4, Quotient
    <3> QED BY <2>2, <3>5 DEF StalePenalty
  <2>3. CASE m.quotes # 0 /\ ~(100 * m.stale > StaleCrit * m.quotes)
    <3>1. 100 * m.stale \in Nat
      OBVIOUS
    <3>2. (100 * m.stale) \div m.quotes \in Nat
      BY <2>3, <3>1, Quotient
    <3> QED BY <2>3, <3>2 DEF StalePenalty
  <2> QED BY <2>1, <2>2, <2>3
<1>2. AgePenalty(m) \in Nat
  <2>1. CASE m.worst > AgeBudget
    <3>1. m.worst - AgeBudget \in Nat
      BY <2>1, ConfigFacts
    <3>2. (m.worst - AgeBudget) \div 50 \in Nat
      BY <3>1, Quotient
    <3> QED BY <2>1, <3>2 DEF AgePenalty
  <2>2. CASE ~(m.worst > AgeBudget)
    BY <2>2 DEF AgePenalty
  <2> QED BY <2>1, <2>2
<1> QED BY <1>1, <1>2, ConfigFacts DEF FeedPenalty

LEMMA ReportType ==
  ASSUME QualityType
  PROVE  FeedType(Report) /\ FeedType(NoReport)
<1>1. FeedType(NoReport)
  BY DEF FeedType, NoReport
<1>2. ASSUME NEW s \in Symbols, Tracked(s)
      PROVE  /\ FeedPenalty(FeedMetrics(s)) \in Nat /\ FeedMetrics(s).silent \in BOOLEAN
             /\ FeedMetrics(s).silent => FeedPenalty(FeedMetrics(s)) >= 10 * GapWeight
  <2>1. WindowType(windows[s])
    BY <1>2 DEF QualityType, Tracked
  <2>2. PICK m : m = FeedMetrics(s)
    OBVIOUS
  <2>3. m.quotes \in Nat /\ m.stale \in Nat /\ m.worst \in Nat /\ m.silent \in BOOLEAN
    BY <2>1, <2>2, ConfigFacts DEF WindowType, FeedMetrics
  <2> QED BY <2>2, <2>3, PenaltyFacts
<1>3. DOMAIN Report = {t \in Symbols : Tracked(t)}
  BY DEF Report
<1>4. ASSUME NEW s \in DOMAIN Report
      PROVE  /\ s \in Symbols /\ Tracked(s) /\ Report[s].cost = FeedPenalty(FeedMetrics(s))
             /\ Report[s].silent = FeedMetrics(s).silent
  BY <1>3 DEF Report
<1>5. FeedType(Report)
  BY <1>2, <1>4 DEF FeedType
<1> QED BY <1>1, <1>5

\* What a request for the books can bring.
IsRows(rows) == rows = Rows \/ rows = {}

LEMMA ScoreFacts ==
  ASSUME NEW feed, FeedType(feed), NEW rows, IsRows(rows), NEW s \in Symbols
  PROVE  /\ Score(s, feed, rows) \in Nat
         /\ s \in DOMAIN feed /\ feed[s].silent => Score(s, feed, rows) <= AtLeast(0, 100 - 10 * GapWeight)
<1>1. PICK stale : stale = Cardinality(StaleVenues(s, rows))
  OBVIOUS
<1>2. stale \in Nat
  <2>1. StaleVenues(s, rows) \subseteq 1..BookVenues
    <3>1. \A r \in rows : r.venue \in 1..BookVenues
      BY DEF IsRows, Rows
    <3> QED BY <3>1 DEF StaleVenues
  <2>2. IsFiniteSet(1..BookVenues)
    BY ConfigFacts, FirstPositions
  <2>3. IsFiniteSet(StaleVenues(s, rows))
    BY <2>1, <2>2, FS_Subset
  <2> QED BY <1>1, <2>3, FS_CardinalityType
<1>3. PICK cost : cost = IF s \in DOMAIN feed THEN feed[s].cost ELSE 0
  OBVIOUS
<1>4. cost \in Nat /\ (s \in DOMAIN feed /\ feed[s].silent => cost >= 10 * GapWeight)
  BY <1>3 DEF FeedType
<1>5. Score(s, feed, rows) = AtLeast(0, 100 - (cost + 15 * stale))
  BY <1>1, <1>3 DEF Score
<1>6. ASSUME NEW g \in Nat, cost >= g PROVE AtLeast(0, 100 - (cost + 15 * stale)) <= AtLeast(0, 100 - g)
  BY <1>2, <1>4, <1>6 DEF AtLeast
<1>7. AtLeast(0, 100 - (cost + 15 * stale)) \in Nat /\ 10 * GapWeight \in Nat
  BY <1>2, <1>4, ConfigFacts DEF AtLeast
<1> QED BY <1>4, <1>5, <1>6, <1>7

LEMMA PersistedFacts ==
  ASSUME QualityType, SilenceShows, NEW feed, FeedType(feed), NEW rows, IsRows(rows), NEW s \in Symbols
  PROVE  /\ Persisted(s, feed, rows) \in SymbolQuality
         /\ Persisted(s, feed, rows).state # quality[s].state => Persisted(s, feed, rows).state \in {"OK", "DEGRADED"}
         /\ AtLeast(0, 100 - 10 * GapWeight) < DegradedBelow /\ Persisted(s, feed, rows).feed_silent =>
              Persisted(s, feed, rows).state = "DEGRADED"
<1>1. CASE s \notin Scored(feed, rows)
  <2>1. Persisted(s, feed, rows) = quality[s] /\ quality[s] \in SymbolQuality
    BY <1>1 DEF Persisted, QualityType
  <2> QED BY <2>1 DEF SilenceShows
<1>2. CASE s \in Scored(feed, rows)
  <2>1. PICK score : score = Score(s, feed, rows)
    OBVIOUS
  <2>2. PICK p : p = Persisted(s, feed, rows)
    OBVIOUS
  <2>3. p = [state |-> NewState(quality[s].state, score), feed_silent |-> s \in DOMAIN feed /\ feed[s].silent]
    BY <1>2, <2>1, <2>2 DEF Persisted
  <2>4. p.state = NewState(quality[s].state, score) /\ (p.feed_silent <=> s \in DOMAIN feed /\ feed[s].silent)
    BY <2>3
  <2>5. p.state \in {"OK", "DEGRADED"}
    BY <2>4 DEF NewState
  <2>6. (s \in DOMAIN feed /\ feed[s].silent) \in BOOLEAN
    OBVIOUS
  <2>7. p \in SymbolQuality
    BY <2>3, <2>4, <2>5, <2>6 DEF SymbolQuality
  <2>8. ASSUME AtLeast(0, 100 - 10 * GapWeight) < DegradedBelow, s \in DOMAIN feed, feed[s].silent
        PROVE  p.state = "DEGRADED"
    <3>1. PICK g : g = AtLeast(0, 100 - 10 * GapWeight)
      OBVIOUS
    <3>2. g \in Int /\ g < DegradedBelow
      BY <2>8, <3>1, ConfigFacts DEF AtLeast
    <3>3. score \in Nat /\ score <= g
      BY <2>1, <2>8, <3>1, ScoreFacts
    <3>4. score < DegradedBelow /\ ~(score >= RecoveredAtOrAbove)
      BY <3>2, <3>3, ConfigFacts
    <3> QED BY <2>4, <3>4 DEF NewState
  <2> QED BY <2>2, <2>4, <2>5, <2>7, <2>8
<1> QED BY <1>1, <1>2
---------------------------------------------------------------------------
(* The episodes that are kept *)

\* What one pass adds: one episode of each symbol whose state changes, numbered on.
IsPassOf(eps, next, before, after) ==
  /\ eps \in Seq(Episode)
  /\ \A k \in 1..Len(eps) : eps[k].id = next + k - 1
  /\ \A k \in 1..Len(eps) :
       Says(eps[k]) = after[eps[k].symbol] /\ before[eps[k].symbol] # after[eps[k].symbol]
  /\ \A k, l \in 1..Len(eps) : k # l => eps[k].symbol # eps[l].symbol
  /\ \A s \in Symbols : before[s] # after[s] => \E k \in 1..Len(eps) : eps[k].symbol = s

LEMMA LessAndLess ==
  ASSUME NEW a \in Nat, NEW b \in Nat, NEW c \in Int, a < b, b <= c
  PROVE  a < c
OBVIOUS

LEMMA LogGrows ==
  ASSUME NEW log \in Seq(Episode), NEW before, Alternating(log, before), NEW next \in Nat,
         Numbered(log, next), NEW eps, NEW after, IsPassOf(eps, next, before, after),
         NEW v, v = log \o eps
  PROVE  Alternating(v, after) /\ Numbered(v, next + Len(eps))
<1>1. PICK n : n = Len(log)
  OBVIOUS
<1>2. PICK m : m = Len(eps)
  OBVIOUS
<1>3. eps \in Seq(Episode) /\ n \in Nat /\ m \in Nat
  BY <1>1, <1>2, LenProperties DEF IsPassOf
<1>4. /\ Len(v) = n + m
      /\ \A i \in 1..n : v[i] = log[i]
      /\ \A i \in 1..m : v[n + i] = eps[i]
  BY <1>1, <1>2, <1>3, ConcatOf
<1>5. /\ \A i \in 1..n : log[i].symbol \in Symbols /\ log[i].id \in Nat
      /\ \A k \in 1..m : eps[k].symbol \in Symbols
  <2>1. \A e \in Episode : e.symbol \in Symbols /\ e.id \in Nat
    BY DEF Episode
  <2>2. (\A i \in 1..n : log[i] \in Episode) /\ (\A k \in 1..m : eps[k] \in Episode)
    BY <1>1, <1>2, <1>3, ElementOfSeq
  <2> QED BY <2>1, <2>2
<1>6. ASSUME NEW i \in 1..(n + m), i \notin 1..n PROVE \E k \in 1..m : i = n + k
  <2>1. i - n \in 1..m /\ i = n + (i - n)
    BY <1>3, <1>6
  <2> QED BY <2>1
<1>7. /\ \A k \in 1..m : eps[k].id = next + k - 1
      /\ \A k \in 1..m :
           Says(eps[k]) = after[eps[k].symbol] /\ before[eps[k].symbol] # after[eps[k].symbol]
      /\ \A k, l \in 1..m : k # l => eps[k].symbol # eps[l].symbol
      /\ \A s \in Symbols : before[s] # after[s] => \E k \in 1..m : eps[k].symbol = s
  BY <1>2 DEF IsPassOf
<1>8. /\ \A i, j \in 1..n : i < j => log[i].id < log[j].id
      /\ \A i \in 1..n : log[i].id < next
  BY <1>1 DEF Numbered
<1>9. Numbered(v, next + m)
  <2>1. ASSUME NEW i \in 1..(n + m) PROVE v[i].id < next + m /\ (i \notin 1..n => v[i].id >= next)
    <3>1. CASE i \in 1..n
      BY SMTT(30), <1>3, <1>4, <1>5, <1>8, <3>1
    <3>2. CASE i \notin 1..n
      <4>1. PICK k \in 1..m : i = n + k
        BY <1>6, <3>2
      <4>2. v[i].id = next + k - 1
        BY <1>4, <1>7, <4>1
      <4>3. k \in Int /\ 1 <= k /\ k <= m
        BY <1>3
      <4> QED BY <1>3, <4>2, <4>3
    <3> QED BY <3>1, <3>2
  <2>2. ASSUME NEW i \in 1..(n + m), NEW j \in 1..(n + m), i < j PROVE v[i].id < v[j].id
    <3>1. CASE j \in 1..n
      <4>1. i \in 1..n
        BY <1>3, <2>2, <3>1
      <4> QED BY <1>4, <1>8, <2>2, <3>1, <4>1
    <3>2. CASE j \notin 1..n
      <4>1. PICK l \in 1..m : j = n + l
        BY <1>6, <3>2
      <4>2. v[j].id = next + l - 1
        BY <1>4, <1>7, <4>1
      <4>3. CASE i \in 1..n
        <5>1. v[i].id \in Nat /\ v[i].id < next
          BY <1>4, <1>5, <1>8, <4>3
        <5>2. l \in Int /\ 1 <= l
          BY <1>3
        <5>3. v[j].id \in Int /\ next <= v[j].id
          BY <4>2, <5>2
        <5> QED BY <5>1, <5>3, LessAndLess
      <4>4. CASE i \notin 1..n
        <5>1. PICK k \in 1..m : i = n + k
          BY <1>6, <4>4
        <5>2. v[i].id = next + k - 1
          BY <1>4, <1>7, <5>1
        <5>3. k < l
          BY <1>3, <2>2, <4>1, <5>1
        <5>4. k \in Int /\ l \in Int
          OBVIOUS
        <5> QED BY <4>2, <5>2, <5>3, <5>4
      <4> QED BY <4>3, <4>4
    <3> QED BY <3>1, <3>2
  <2> QED BY <1>4, <2>1, <2>2 DEF Numbered
<1>10. /\ \A i, j \in 1..n :
            i < j /\ log[i].symbol = log[j].symbol /\ NoneBetween(log, i, j) => log[i].kind # log[j].kind
       /\ \A i \in 1..n : NoneBetween(log, i, n + 1) => Says(log[i]) = before[log[i].symbol]
  BY <1>1 DEF Alternating
<1>14. ASSUME NEW i \in 1..n, NEW j \in 1..(n + m + 1), i < j, NoneBetween(v, i, j),
              NEW l \in 1..(n + 1), l <= j
       PROVE  NoneBetween(log, i, l)
  <2>1. \A k \in (i + 1)..(l - 1) : k \in (i + 1)..(j - 1) /\ k \in 1..n
    BY <1>3, <1>14
  <2>2. \A k \in (i + 1)..(l - 1) : v[k].symbol # v[i].symbol
    BY <1>14, <2>1 DEF NoneBetween
  <2> QED BY <1>4, <2>1, <2>2 DEF NoneBetween
<1>11. ASSUME NEW i \in 1..(n + m), NEW j \in 1..(n + m), i < j, v[i].symbol = v[j].symbol,
              NoneBetween(v, i, j)
       PROVE  v[i].kind # v[j].kind
  <2>1. CASE j \in 1..n
    <3>1. i \in 1..n /\ j \in 1..(n + m + 1) /\ j \in 1..(n + 1) /\ j <= j
      BY <1>3, <1>11, <2>1
    <3>2. NoneBetween(log, i, j)
      BY <1>11, <1>14, <3>1
    <3>3. v[i] = log[i] /\ v[j] = log[j]
      BY <1>4, <2>1, <3>1
    <3> QED BY <1>10, <1>11, <2>1, <3>1, <3>2, <3>3
  <2>2. CASE i \in 1..n /\ j \notin 1..n
    <3>1. PICK l \in 1..m : j = n + l
      BY <1>6, <2>2
    <3>2. v[i] = log[i] /\ v[j] = eps[l]
      BY <1>4, <2>2, <3>1
    <3>3. j \in 1..(n + m + 1) /\ n + 1 \in 1..(n + 1) /\ n + 1 <= j
      BY <1>3, <2>2, <3>1
    <3>4. NoneBetween(log, i, n + 1)
      BY <1>11, <1>14, <2>2, <3>3
    <3>5. Says(log[i]) = before[log[i].symbol]
      BY <1>10, <2>2, <3>4
    <3>6. Says(eps[l]) # Says(log[i])
      BY <1>7, <1>11, <3>2, <3>5
    <3> QED BY <3>2, <3>6 DEF Says
  <2>3. CASE i \notin 1..n
    <3>1. j \notin 1..n
      BY <1>3, <1>11, <2>3
    <3>2. PICK k \in 1..m : i = n + k
      BY <1>6, <2>3
    <3>3. PICK l \in 1..m : j = n + l
      BY <1>6, <3>1
    <3>4. k # l /\ v[i] = eps[k] /\ v[j] = eps[l]
      BY <1>3, <1>4, <1>11, <3>2, <3>3
    <3> QED BY <1>7, <1>11, <3>4
  <2> QED BY <2>1, <2>2, <2>3
<1>12. ASSUME NEW i \in 1..(n + m), NoneBetween(v, i, n + m + 1)
       PROVE  Says(v[i]) = after[v[i].symbol]
  <2>1. CASE i \in 1..n
    <3>1. v[i] = log[i]
      BY <1>4, <2>1
    <3>2. n + m + 1 \in 1..(n + m + 1) /\ i < n + m + 1 /\ n + 1 \in 1..(n + 1) /\ n + 1 <= n + m + 1
      BY <1>3, <2>1
    <3>3. NoneBetween(log, i, n + 1)
      BY <1>12, <1>14, <2>1, <3>2
    <3>4. Says(log[i]) = before[log[i].symbol]
      BY <1>10, <2>1, <3>3
    <3>5. ASSUME NEW k \in 1..m PROVE eps[k].symbol # log[i].symbol
      <4>1. n + k \in (i + 1)..((n + m + 1) - 1)
        BY <1>3, <2>1
      <4> QED BY <1>4, <1>12, <3>1, <4>1 DEF NoneBetween
    <3> QED BY <1>5, <1>7, <2>1, <3>1, <3>4, <3>5
  <2>2. CASE i \notin 1..n
    <3>1. PICK k \in 1..m : i = n + k
      BY <1>6, <2>2
    <3> QED BY <1>4, <1>7, <3>1
  <2> QED BY <2>1, <2>2
<1>13. Alternating(v, after)
  <2>1. Len(v) = n + m /\ Len(v) + 1 = n + m + 1
    BY <1>4
  <2>2. \A i, j \in 1..Len(v) :
          i < j /\ v[i].symbol = v[j].symbol /\ NoneBetween(v, i, j) => v[i].kind # v[j].kind
    BY <1>11, <2>1
  <2>3. \A i \in 1..Len(v) : NoneBetween(v, i, Len(v) + 1) => Says(v[i]) = after[v[i].symbol]
    BY <1>12, <2>1
  <2> QED BY <2>2, <2>3 DEF Alternating
<1> QED BY <1>2, <1>9, <1>13

\* The newest of them are the end of the log.
IsEnd(r, log, gone) ==
  /\ gone \in 0..Len(log) /\ Len(r) = Len(log) - gone
  /\ \A i \in 1..Len(r) : r[i] = log[gone + i]

LEMMA RetainedFacts ==
  ASSUME NEW log \in Seq(Episode), NEW r, r = Retained(log)
  PROVE  r \in Seq(Episode) /\ \E gone : IsEnd(r, log, gone)
<1>1. PICK n : n = Len(log)
  OBVIOUS
<1>2. PICK first : first = AtLeast(1, n - MaxDegradations + 1)
  OBVIOUS
<1>3. n \in Nat /\ first \in 1..(n + 1)
  BY <1>1, <1>2, LenProperties, ConfigFacts DEF AtLeast
<1>4. r = SubSeq(log, first, n)
  BY <1>1, <1>2 DEF Retained
<1>5. /\ r \in Seq(Episode) /\ Len(r) = n - first + 1
      /\ \A i \in 1..(n - first + 1) : r[i] = log[first + i - 1]
  BY <1>1, <1>3, <1>4, EndOf
<1>6. PICK d : d = first - 1
  OBVIOUS
<1>7. d \in 0..n /\ n - first + 1 = n - d
  BY <1>3, <1>6
<1>8. \A i \in 1..(n - d) : first + i - 1 = d + i
  BY <1>3, <1>6
<1>9. IsEnd(r, log, d)
  BY <1>1, <1>5, <1>7, <1>8 DEF IsEnd
<1> QED BY <1>5, <1>9

LEMMA EndKeeps ==
  ASSUME NEW log \in Seq(Episode), NEW state, NEW next, Alternating(log, state),
         Numbered(log, next), NEW r, NEW d, IsEnd(r, log, d)
  PROVE  Alternating(r, state) /\ Numbered(r, next)
<1>1. PICK n : n = Len(log)
  OBVIOUS
<1>2. /\ n \in Nat /\ d \in 0..n /\ Len(r) = n - d
      /\ \A i \in 1..(n - d) : r[i] = log[d + i]
  BY <1>1, LenProperties DEF IsEnd
<1>3. /\ \A i \in 1..(n - d) : d + i \in 1..n
      /\ \A i, j \in 1..(n - d) : i < j => d + i < d + j
  BY <1>2
<1>4. Numbered(r, next)
  BY <1>1, <1>2, <1>3 DEF Numbered
<1>8. ASSUME NEW i \in 1..(n - d), NEW j \in 1..(n - d + 1), NoneBetween(r, i, j)
      PROVE  NoneBetween(log, d + i, d + j)
  <2>1. ASSUME NEW k \in ((d + i) + 1)..((d + j) - 1) PROVE log[k].symbol # log[d + i].symbol
    <3>1. k - d \in (i + 1)..(j - 1) /\ k - d \in 1..(n - d) /\ d + (k - d) = k
      BY <1>2
    <3>2. r[k - d].symbol # r[i].symbol
      BY <1>8, <3>1 DEF NoneBetween
    <3> QED BY <1>2, <3>1, <3>2
  <2> QED BY <2>1 DEF NoneBetween
<1>5. ASSUME NEW i \in 1..(n - d), NEW j \in 1..(n - d), i < j, r[i].symbol = r[j].symbol,
             NoneBetween(r, i, j)
      PROVE  r[i].kind # r[j].kind
  <2>1. NoneBetween(log, d + i, d + j)
    <3>1. j \in 1..(n - d + 1)
      BY <1>2
    <3> QED BY <1>5, <1>8, <3>1
  <2> QED BY <1>1, <1>2, <1>3, <1>5, <2>1 DEF Alternating
<1>6. ASSUME NEW i \in 1..(n - d), NoneBetween(r, i, n - d + 1)
      PROVE  Says(r[i]) = state[r[i].symbol]
  <2>1. NoneBetween(log, d + i, n + 1)
    <3>1. n - d + 1 \in 1..(n - d + 1) /\ d + (n - d + 1) = n + 1
      BY <1>2
    <3> QED BY <1>6, <1>8, <3>1
  <2> QED BY <1>1, <1>2, <1>3, <1>6, <2>1 DEF Alternating
<1>7. Alternating(r, state)
  BY <1>2, <1>5, <1>6 DEF Alternating
<1> QED BY <1>4, <1>7

\* The states of the symbols when a pass is through.
AfterPass(feed, rows) == [s \in Symbols |-> Persisted(s, feed, rows).state]

LEMMA OrderFacts ==
  /\ SymbolOrder \in Seq(Symbols) /\ Len(SymbolOrder) \in Nat
  /\ \A i \in 1..Len(SymbolOrder) : SymbolOrder[i] \in Symbols
  /\ \A i, j \in 1..Len(SymbolOrder) : SymbolOrder[i] = SymbolOrder[j] => i = j
  /\ \A s \in Symbols : \E i \in 1..Len(SymbolOrder) : SymbolOrder[i] = s
<1>1. SymbolOrder \in Seq(Symbols)
  BY QualityAssumption
<1>2. Len(SymbolOrder) \in Nat /\ DOMAIN SymbolOrder = 1..Len(SymbolOrder)
  BY <1>1, LenProperties
<1>3. \A i \in 1..Len(SymbolOrder) : SymbolOrder[i] \in Symbols
  BY <1>1, ElementOfSeq
<1>4. \A s \in Symbols : \E i \in 1..Len(SymbolOrder) : SymbolOrder[i] = s
  BY <1>2 DEF Symbols, Range
<1>5. \A i, j \in 1..Len(SymbolOrder) : SymbolOrder[i] = SymbolOrder[j] => i = j
  BY QualityAssumption
<1> QED BY <1>1, <1>2, <1>3, <1>4, <1>5

\* The episodes of a pass are those of the symbols whose state it changes, in sorting order.
LEMMA PassFacts ==
  ASSUME QualityType, SilenceShows, NEW feed, FeedType(feed), NEW rows, IsRows(rows),
         NEW eps, eps = EpisodesOf(feed, rows)
  PROVE  IsPassOf(eps, nextDegradation, States, AfterPass(feed, rows))
<1>1. PICK at : at = {i \in DOMAIN SymbolOrder :
                        Persisted(SymbolOrder[i], feed, rows).state # quality[SymbolOrder[i]].state}
  OBVIOUS
<1>2. PICK changed : changed = Picked(SymbolOrder, at)
  OBVIOUS
<1>3. at \in SUBSET (1..Len(SymbolOrder))
  BY <1>1, OrderFacts
<1>4. changed \in Seq(Symbols) /\ InOrder(changed, SymbolOrder, at)
  <2>1. changed \in Seq(Symbols)
    BY <1>2, <1>3, OrderFacts, PickedOf
  <2> QED BY <1>2, <1>3, <2>1, OrderFacts, PickedInOrder
<1>5. PICK m : m = Len(changed)
  OBVIOUS
<1>6. m \in Nat /\ DOMAIN changed = 1..m /\ \A k \in 1..m : changed[k] \in Symbols
  BY <1>4, <1>5, LenProperties, ElementOfSeq
<1>7. PICK pos \in [1..m -> at] :
        /\ \A k \in 1..m : changed[k] = SymbolOrder[pos[k]]
        /\ \A k, l \in 1..m : k < l => pos[k] < pos[l]
        /\ \A i \in at : \E k \in 1..m : pos[k] = i
  BY <1>4, <1>5 DEF InOrder
<1>8. eps = [k \in 1..m |->
              DegradationEvent(nextDegradation + k - 1, changed[k], Persisted(changed[k], feed, rows).state,
                               Score(changed[k], feed, rows))]
  BY <1>1, <1>2, <1>6 DEF EpisodesOf
<1>9. ASSUME NEW id \in Nat, NEW s \in Symbols, NEW state, NEW score
      PROVE  /\ DegradationEvent(id, s, state, score) \in Episode
             /\ DegradationEvent(id, s, state, score).id = id
             /\ DegradationEvent(id, s, state, score).symbol = s
             /\ Says(DegradationEvent(id, s, state, score)) = IF state = "DEGRADED" THEN "DEGRADED" ELSE "OK"
  BY DEF DegradationEvent, Episode, Says, SeverityFor
<1>10. \A k \in 1..m : nextDegradation + k - 1 \in Nat
  BY <1>6 DEF QualityType
<1>11. ASSUME NEW k \in 1..m
       PROVE  /\ eps[k] \in Episode /\ eps[k].id = nextDegradation + k - 1 /\ eps[k].symbol = changed[k]
              /\ Says(eps[k]) = IF Persisted(changed[k], feed, rows).state = "DEGRADED"
                                  THEN "DEGRADED" ELSE "OK"
  BY <1>6, <1>8, <1>9, <1>10
<1>12. eps \in Seq(Episode) /\ Len(eps) = m
  BY <1>6, <1>8, <1>11
<1>13. ASSUME NEW k \in 1..m
       PROVE  Persisted(changed[k], feed, rows).state # quality[changed[k]].state
  <2>1. pos[k] \in at
    BY <1>7
  <2> QED BY <1>1, <1>7, <2>1
<1>14. ASSUME NEW k \in 1..m
       PROVE  /\ Says(eps[k]) = AfterPass(feed, rows)[eps[k].symbol]
              /\ States[eps[k].symbol] # AfterPass(feed, rows)[eps[k].symbol]
  <2>1. Persisted(changed[k], feed, rows).state \in {"OK", "DEGRADED"}
    BY <1>6, <1>13, PersistedFacts
  <2> QED BY <1>6, <1>11, <1>13, <2>1 DEF AfterPass, States
<1>15. ASSUME NEW k \in 1..m, NEW l \in 1..m, k # l PROVE changed[k] # changed[l]
  <2>1. k < l \/ l < k
    BY <1>6, <1>15
  <2>2. pos[k] \in 1..Len(SymbolOrder) /\ pos[l] \in 1..Len(SymbolOrder)
    BY <1>3, <1>7
  <2>3. pos[k] < pos[l] \/ pos[l] < pos[k]
    BY <1>7, <2>1
  <2>4. pos[k] # pos[l]
    BY <2>2, <2>3, OrderFacts
  <2>5. SymbolOrder[pos[k]] # SymbolOrder[pos[l]]
    BY <2>2, <2>4, OrderFacts
  <2> QED BY <1>7, <2>5
<1>16. ASSUME NEW s \in Symbols, States[s] # AfterPass(feed, rows)[s]
       PROVE  \E k \in 1..m : changed[k] = s
  <2>1. PICK i \in 1..Len(SymbolOrder) : SymbolOrder[i] = s
    BY OrderFacts
  <2>2. DOMAIN SymbolOrder = 1..Len(SymbolOrder)
    BY OrderFacts, LenProperties
  <2>3. i \in at
    BY <1>1, <1>16, <2>1, <2>2 DEF States, AfterPass
  <2> QED BY <1>7, <2>1, <2>3
<1> QED BY <1>11, <1>12, <1>14, <1>15, <1>16 DEF IsPassOf

\* What a pass sends: its degradations, in their order.
SendsOf(send, eps, next) ==
  /\ send \in Seq(Nat)
  /\ \A i, j \in 1..Len(send) : i < j => send[i] < send[j]
  /\ \A i \in 1..Len(send) : next <= send[i] /\ send[i] < next + Len(eps)
  /\ \A i \in 1..Len(send) : \E k \in 1..Len(eps) : eps[k].kind = "DEGRADED" /\ send[i] = eps[k].id
  /\ \A k \in 1..Len(eps) : eps[k].kind = "DEGRADED" => \E i \in 1..Len(send) : send[i] = eps[k].id

LEMMA SendFacts ==
  ASSUME NEW next \in Nat, NEW before, NEW after, NEW eps, IsPassOf(eps, next, before, after),
         NEW send, send = ToSend(eps)
  PROVE  SendsOf(send, eps, next)
<1>1. PICK n : n = Len(eps)
  OBVIOUS
<1>2. eps \in Seq(Episode) /\ \A k \in 1..n : eps[k].id = next + k - 1
  BY <1>1 DEF IsPassOf
<1>3. n \in Nat /\ DOMAIN eps = 1..n
  BY <1>1, <1>2, LenProperties
<1>4. PICK at : at = {i \in DOMAIN eps : eps[i].kind = "DEGRADED"}
  OBVIOUS
<1>5. PICK bad : bad = Picked(eps, at)
  OBVIOUS
<1>6. at \in SUBSET (1..Len(eps))
  BY <1>1, <1>3, <1>4
<1>7. bad \in Seq(Episode) /\ InOrder(bad, eps, at)
  <2>1. bad \in Seq(Episode)
    BY <1>2, <1>5, <1>6, PickedOf
  <2> QED BY <1>2, <1>5, <1>6, <2>1, PickedInOrder
<1>8. PICK m : m = Len(bad)
  OBVIOUS
<1>9. m \in Nat /\ DOMAIN bad = 1..m
  BY <1>7, <1>8, LenProperties
<1>10. PICK pos \in [1..m -> at] :
         /\ \A k \in 1..m : bad[k] = eps[pos[k]]
         /\ \A k, l \in 1..m : k < l => pos[k] < pos[l]
         /\ \A i \in at : \E k \in 1..m : pos[k] = i
  BY <1>7, <1>8 DEF InOrder
<1>11. send = [k \in 1..m |-> bad[k].id]
  BY <1>4, <1>5, <1>9 DEF ToSend
<1>12. ASSUME NEW k \in 1..m
       PROVE  /\ pos[k] \in 1..n /\ eps[pos[k]].kind = "DEGRADED"
              /\ send[k] = next + pos[k] - 1 /\ send[k] = eps[pos[k]].id
  <2>1. pos[k] \in at
    BY <1>10
  <2>2. pos[k] \in 1..n /\ eps[pos[k]].kind = "DEGRADED"
    BY <1>3, <1>4, <2>1
  <2> QED BY <1>2, <1>10, <1>11, <2>2
<1>13. ASSUME NEW k \in 1..m
       PROVE  send[k] \in Nat /\ next <= send[k] /\ send[k] < next + n
  <2>1. PICK p \in 1..n : p = pos[k]
    BY <1>12
  <2>2. send[k] = next + p - 1
    BY <1>12, <2>1
  <2> QED BY <1>3, <2>2
<1>14. send \in Seq(Nat) /\ Len(send) = m
  BY <1>9, <1>11, <1>13
<1>15. ASSUME NEW k \in 1..m, NEW l \in 1..m, k < l PROVE send[k] < send[l]
  <2>1. PICK p \in 1..n : p = pos[k]
    BY <1>12
  <2>2. PICK q \in 1..n : q = pos[l]
    BY <1>12
  <2>3. p < q
    BY <1>10, <1>15, <2>1, <2>2
  <2>4. send[k] = next + p - 1 /\ send[l] = next + q - 1
    BY <1>12, <2>1, <2>2
  <2>5. next + p - 1 < next + q - 1
    BY <2>3
  <2> QED BY <2>4, <2>5
<1>16. ASSUME NEW k \in 1..n, eps[k].kind = "DEGRADED" PROVE \E i \in 1..m : send[i] = eps[k].id
  <2>1. k \in at
    BY <1>3, <1>4, <1>16
  <2>2. PICK i \in 1..m : pos[i] = k
    BY <1>10, <2>1
  <2> QED BY <1>12, <2>2
<1>17. \A i \in 1..m : \E k \in 1..n : eps[k].kind = "DEGRADED" /\ send[i] = eps[k].id
  BY <1>12
<1> QED BY <1>1, <1>13, <1>14, <1>15, <1>16, <1>17 DEF SendsOf
---------------------------------------------------------------------------
(* The steps *)

LEMMA InitQuality == QualityInit => QualityInv
<1> SUFFICES ASSUME QualityInit PROVE QualityInv
  OBVIOUS
<1>1. /\ windows = [s \in Symbols |-> NoWindow] /\ quality = [s \in Symbols |-> Unscored]
      /\ degradations = <<>> /\ nextDegradation = 1 /\ alerts = <<>> /\ tried = {}
      /\ pass = [at |-> "idle", feed |-> NoReport, send |-> <<>>]
  BY DEF QualityInit
<1>2. <<>> \in Seq(Episode) /\ <<>> \in Seq(Nat) /\ \A i \in 1..Len(<<>>) : FALSE
  OBVIOUS
<1>3. pass.at = "idle" /\ pass.feed = NoReport /\ pass.send = <<>>
  BY <1>1
<1>4. Unscored \in SymbolQuality /\ Unscored.feed_silent = FALSE
  BY DEF Unscored, SymbolQuality
<1>5. FeedType(NoReport)
  BY DEF FeedType, NoReport
<1>6. QualityType
  <2>1. windows = [s \in Symbols |-> windows[s]] /\ \A s \in Symbols : windows[s] = NoWindow
    BY <1>1
  <2>2. quality \in [Symbols -> SymbolQuality]
    BY <1>1, <1>4
  <2>3. pass = [at |-> pass.at, feed |-> pass.feed, send |-> pass.send]
    BY <1>1
  <2>4. degradations \in Seq(Episode) /\ alerts \in Seq(Nat) /\ pass.send \in Seq(Nat) /\ nextDegradation \in Nat
    BY <1>1, <1>2, <1>3
  <2>5. FeedType(pass.feed) /\ (pass.at = "send" <=> pass.send # <<>>)
    BY <1>3, <1>5
  <2> QED BY <2>1, <2>2, <2>3, <2>4, <2>5 DEF QualityType
<1>7. Alternating(degradations, States) /\ Numbered(degradations, nextDegradation)
  BY <1>1, <1>2 DEF Alternating, Numbered
<1>8. SilenceShows
  BY <1>1, <1>4 DEF SilenceShows
<1>9. AlertsRise(alerts, pass.send, nextDegradation) /\ AlertsKnown(degradations, alerts, pass.send, tried)
  BY <1>1, <1>2, <1>3 DEF AlertsRise, AlertsKnown
<1> QED BY <1>6, <1>7, <1>8, <1>9 DEF QualityInv

\* The windows of S1 and the books of S2 move under S8, which looks at them when it pulls.
LEMMA WindowsMove ==
  ASSUME QualityInv, UNCHANGED s8Vars, windows' = [s \in Symbols |-> windows'[s]],
         \A s \in Symbols : windows'[s] = NoWindow \/ WindowType(windows'[s])
  PROVE  QualityInv'
BY DEF QualityInv, QualityType, States, SilenceShows, FeedType, s8Vars

LEMMA WindowSteps ==
  ASSUME QualityInv,
         \/ \E s \in Symbols, age \in QuoteAges : ObserveQuote(s, age)
         \/ Sweep \/ ResetWindows \/ TimePasses
         \/ \E s \in Symbols, n \in -1..BookVenues : BooksChange(s, n)
  PROVE  QualityInv'
<1>0. /\ windows = [s \in Symbols |-> windows[s]]
      /\ \A s \in Symbols : windows[s] = NoWindow \/ WindowType(windows[s])
  BY DEF QualityInv, QualityType
<1>1. ASSUME NEW s \in Symbols, NEW age \in QuoteAges, ObserveQuote(s, age) PROVE QualityInv'
  <2>1. PICK old : old = IF Tracked(s) THEN windows[s] ELSE [NoWindow EXCEPT !.quotes = 0]
    OBVIOUS
  <2>2. WindowType(old)
    <3>1. CASE Tracked(s)
      BY <1>0, <2>1, <3>1 DEF Tracked
    <3>2. CASE ~Tracked(s)
      BY <2>1, <3>2 DEF NoWindow, WindowType
    <3> QED BY <3>1, <3>2
  <2>3. PICK new : new = [WithQuote(old, age) EXCEPT !.silent = 0]
    OBVIOUS
  <2>4. age \in Nat
    BY QualityAssumption
  <2>5. new = [quotes |-> old.quotes + 1,
               stale |-> old.stale + (IF DataQuality(age) = "FRESH" THEN 0 ELSE 1),
               worst |-> AtLeast(old.worst, age), silent |-> 0, span |-> old.span]
    BY <2>2, <2>3 DEF WithQuote, WindowType
  <2>6. WindowType(new)
    BY <2>2, <2>4, <2>5 DEF WindowType, AtLeast
  <2>7. windows' = [windows EXCEPT ![s] = new] /\ UNCHANGED s8Vars
    BY <1>1, <2>1, <2>3 DEF ObserveQuote
  <2>8. /\ windows' = [t \in Symbols |-> windows'[t]]
        /\ \A t \in Symbols : windows'[t] = NoWindow \/ WindowType(windows'[t])
    BY <1>0, <2>6, <2>7
  <2> QED BY <2>7, <2>8, WindowsMove
<1>2. CASE Sweep
  <2>1. /\ windows' = [s \in Symbols |->
             IF Tracked(s) /\ windows[s].span > WindowSpan
               THEN [windows[s] EXCEPT !.quotes = 0, !.stale = 0, !.worst = 0, !.span = 0]
               ELSE windows[s]]
        /\ UNCHANGED s8Vars
    BY <1>2 DEF Sweep
  <2>2. ASSUME NEW w, WindowType(w)
        PROVE  WindowType([w EXCEPT !.quotes = 0, !.stale = 0, !.worst = 0, !.span = 0])
    BY <2>2 DEF WindowType
  <2>3. ASSUME NEW s \in Symbols PROVE windows'[s] = NoWindow \/ WindowType(windows'[s])
    BY <1>0, <2>1, <2>2 DEF Tracked
  <2>4. windows' = [s \in Symbols |-> windows'[s]]
    BY <2>1
  <2> QED BY <2>1, <2>3, <2>4, WindowsMove
<1>3. CASE ResetWindows
  <2>1. windows' = [s \in Symbols |-> NoWindow] /\ UNCHANGED s8Vars
    BY <1>3 DEF ResetWindows
  <2> QED BY <2>1, WindowsMove
<1>4. CASE TimePasses
  <2>1. /\ windows' = [s \in Symbols |->
             IF Tracked(s)
               THEN [windows[s] EXCEPT !.silent = AtMost(@ + 1, MaxAge), !.span = AtMost(@ + 1, MaxAge)]
               ELSE windows[s]]
        /\ UNCHANGED s8Vars
    BY <1>4 DEF TimePasses
  <2>2. ASSUME NEW w, WindowType(w)
        PROVE  WindowType([w EXCEPT !.silent = AtMost(@ + 1, MaxAge), !.span = AtMost(@ + 1, MaxAge)])
    <3>1. PICK x \in Nat : x = AtMost(w.silent + 1, MaxAge)
      BY <2>2, ConfigFacts DEF WindowType, AtMost
    <3>2. PICK y \in Nat : y = AtMost(w.span + 1, MaxAge)
      BY <2>2, ConfigFacts DEF WindowType, AtMost
    <3>3. WindowType([w EXCEPT !.silent = x, !.span = y])
      BY <2>2 DEF WindowType
    <3>4. [w EXCEPT !.silent = AtMost(@ + 1, MaxAge), !.span = AtMost(@ + 1, MaxAge)] =
            [w EXCEPT !.silent = x, !.span = y]
      BY <2>2, <3>1, <3>2 DEF WindowType
    <3> QED BY <3>3, <3>4
  <2>3. ASSUME NEW s \in Symbols PROVE windows'[s] = NoWindow \/ WindowType(windows'[s])
    BY <1>0, <2>1, <2>2 DEF Tracked
  <2>4. windows' = [s \in Symbols |-> windows'[s]]
    BY <2>1
  <2> QED BY <2>1, <2>3, <2>4, WindowsMove
<1>5. ASSUME NEW s \in Symbols, NEW n \in -1..BookVenues, BooksChange(s, n) PROVE QualityInv'
  <2>1. UNCHANGED <<windows, s8Vars>>
    BY <1>5 DEF BooksChange
  <2> QED BY <1>0, <2>1, WindowsMove
<1> QED BY <1>1, <1>2, <1>3, <1>4, <1>5

LEMMA PullFeedKeeps ==
  ASSUME QualityInv, PullFeed
  PROVE  QualityInv'
<1>1. PICK feed \in {Report, NoReport} : pass' = [pass EXCEPT !.at = "books", !.feed = feed]
  BY DEF PullFeed, Requested
<1>2. /\ pass.at = "idle"
      /\ UNCHANGED <<windows, quality, degradations, nextDegradation, alerts, tried>>
  BY DEF PullFeed
<1>3. QualityType
  BY DEF QualityInv
<1>4. FeedType(feed)
  BY <1>1, <1>3, ReportType
<1>5. pass'.at = "books" /\ pass'.feed = feed /\ pass'.send = pass.send
      /\ pass' = [at |-> pass'.at, feed |-> pass'.feed, send |-> pass'.send]
  BY <1>1, <1>3 DEF QualityType
<1>6. FeedType(pass.feed)' /\ (pass.send = <<>>)
  <2>1. FeedType(pass.feed)'
    BY <1>4, <1>5 DEF FeedType
  <2> QED BY <1>2, <1>3, <2>1 DEF QualityType
<1>7. QualityType'
  BY <1>2, <1>3, <1>5, <1>6 DEF QualityType
<1> QED BY <1>2, <1>5, <1>7 DEF QualityInv, SilenceShows, States

LEMMA KnownGrows ==
  ASSUME NEW log \in Seq(Episode), NEW got, NEW done, NEW next \in Nat,
         AlertsKnown(log, got, <<>>, done), Numbered(log, next), AlertsRise(got, <<>>, next),
         got \in Seq(Nat), NEW before, NEW after, NEW eps, IsPassOf(eps, next, before, after),
         NEW send, SendsOf(send, eps, next), NEW v, v = log \o eps
  PROVE  AlertsKnown(v, got, send, done)
<1>1. PICK n : n = Len(log)
  OBVIOUS
<1>2. PICK m : m = Len(eps)
  OBVIOUS
<1>3. eps \in Seq(Episode) /\ n \in Nat /\ m \in Nat
  BY <1>1, <1>2, LenProperties DEF IsPassOf
<1>4. /\ Len(v) = n + m
      /\ \A i \in 1..n : v[i] = log[i]
      /\ \A i \in 1..m : v[n + i] = eps[i]
  BY <1>1, <1>2, <1>3, ConcatOf
<1>5. /\ \A i \in 1..n : log[i].id \in Nat /\ log[i].id < next
      /\ \A k \in 1..m : eps[k].id = next + k - 1
  <2>1. \A e \in Episode : e.id \in Nat
    BY DEF Episode
  <2>2. \A i \in 1..n : log[i] \in Episode
    BY <1>1, ElementOfSeq
  <2> QED BY <1>1, <1>2, <2>1, <2>2 DEF Numbered, IsPassOf
<1>6. \A j \in 1..Len(got) : got[j] \in Nat /\ got[j] < next
  BY ElementOfSeq DEF AlertsRise
<1>7. ASSUME NEW i \in 1..n
      PROVE  /\ v[i].kind = "DEGRADED" => v[i].id \in done
             /\ v[i].kind = "RECOVERED" => /\ \A j \in 1..Len(got) : got[j] # v[i].id
                                           /\ \A j \in 1..Len(send) : send[j] # v[i].id
  <2>1. \A j \in 1..Len(<<>>) : FALSE
    OBVIOUS
  <2>2. /\ log[i].kind = "DEGRADED" => log[i].id \in done
        /\ log[i].kind = "RECOVERED" => \A j \in 1..Len(got) : got[j] # log[i].id
    BY <1>1, <2>1 DEF AlertsKnown
  <2>3. ASSUME NEW j \in 1..Len(send) PROVE send[j] # log[i].id
    <3>1. send[j] \in Nat /\ next <= send[j]
      BY ElementOfSeq DEF SendsOf
    <3>2. log[i].id \in Nat /\ log[i].id < next
      BY <1>5
    <3>3. log[i].id < send[j]
      BY <3>1, <3>2, LessAndLess
    <3> QED BY <3>2, <3>3
  <2> QED BY <1>4, <2>2, <2>3
<1>8. ASSUME NEW k \in 1..m
      PROVE  /\ eps[k].kind = "DEGRADED" => \E j \in 1..Len(send) : send[j] = eps[k].id
             /\ eps[k].kind = "RECOVERED" => /\ \A j \in 1..Len(got) : got[j] # eps[k].id
                                             /\ \A j \in 1..Len(send) : send[j] # eps[k].id
  <2>1. eps[k].kind = "DEGRADED" => \E j \in 1..Len(send) : send[j] = eps[k].id
    BY <1>2 DEF SendsOf
  <2>2. ASSUME NEW j \in 1..Len(got) PROVE got[j] # eps[k].id
    <3>1. got[j] \in Nat /\ got[j] < next
      BY <1>6
    <3>2. eps[k].id = next + k - 1 /\ eps[k].id \in Int /\ next <= eps[k].id
      BY <1>3, <1>5
    <3>3. got[j] < eps[k].id
      BY <3>1, <3>2, LessAndLess
    <3> QED BY <3>1, <3>3
  <2>3. ASSUME eps[k].kind = "RECOVERED", NEW j \in 1..Len(send), send[j] = eps[k].id PROVE FALSE
    <3>1. PICK l \in 1..m : eps[l].kind = "DEGRADED" /\ send[j] = eps[l].id
      BY <1>2 DEF SendsOf
    <3>2. eps[k].id = next + k - 1 /\ eps[l].id = next + l - 1
      BY <1>5
    <3>3. next + k - 1 = next + l - 1
      BY <2>3, <3>1, <3>2
    <3>4. k = l
      BY <3>3
    <3> QED BY <2>3, <3>1, <3>4
  <2> QED BY <2>1, <2>2, <2>3
<1>9. ASSUME NEW i \in 1..(n + m), i \notin 1..n PROVE \E k \in 1..m : i = n + k
  <2>1. i - n \in 1..m /\ i = n + (i - n)
    BY <1>3, <1>9
  <2> QED BY <2>1
<1>10. ASSUME NEW i \in 1..(n + m)
       PROVE  /\ v[i].kind = "DEGRADED" => v[i].id \in done \/ \E j \in 1..Len(send) : send[j] = v[i].id
              /\ v[i].kind = "RECOVERED" => /\ \A j \in 1..Len(got) : got[j] # v[i].id
                                            /\ \A j \in 1..Len(send) : send[j] # v[i].id
  <2>1. CASE i \in 1..n
    BY <1>7, <2>1
  <2>2. CASE i \notin 1..n
    <3>1. PICK k \in 1..m : i = n + k
      BY <1>9, <2>2
    <3>2. v[i] = eps[k]
      BY <1>4, <3>1
    <3> QED BY <1>8, <3>2
  <2> QED BY <2>1, <2>2
<1> QED BY <1>4, <1>10 DEF AlertsKnown

\* What is true of all of a log is true of its end.
LEMMA EndKnown ==
  ASSUME NEW log, NEW got, NEW send, NEW done, AlertsKnown(log, got, send, done),
         NEW r, NEW d, IsEnd(r, log, d), Len(log) \in Nat
  PROVE  AlertsKnown(r, got, send, done)
<1>1. d \in 0..Len(log) /\ Len(r) = Len(log) - d /\ \A i \in 1..Len(r) : r[i] = log[d + i]
  BY DEF IsEnd
<1>2. \A i \in 1..Len(r) : d + i \in 1..Len(log)
  BY <1>1
<1> QED BY SMTT(30), <1>1, <1>2 DEF AlertsKnown

LEMMA PullBooksKeeps ==
  ASSUME QualityInv, PullBooks
  PROVE  QualityInv'
<1>1. PICK rows \in {Rows, {}} : IngestAndScore(rows, EpisodesOf(pass.feed, rows))
  BY DEF PullBooks, Requested
<1>2. PICK feed : feed = pass.feed
  OBVIOUS
<1>3. PICK eps : eps = EpisodesOf(feed, rows)
  OBVIOUS
<1>4. PICK send : send = ToSend(eps)
  OBVIOUS
<1>5. PICK v : v = degradations \o eps
  OBVIOUS
<1>6. PICK r : r = Retained(v)
  OBVIOUS
<1>7. PICK after : after = AfterPass(feed, rows)
  OBVIOUS
<1>8. /\ pass.at = "books" /\ quality' = [s \in Symbols |-> Persisted(s, feed, rows)]
      /\ degradations' = r /\ nextDegradation' = nextDegradation + Len(eps)
      /\ pass' = [at |-> IF send = <<>> THEN "idle" ELSE "send", feed |-> NoReport, send |-> send]
      /\ UNCHANGED <<windows, alerts, tried>>
  BY <1>1, <1>2, <1>3, <1>4, <1>5, <1>6 DEF IngestAndScore
<1>9. /\ QualityType /\ SilenceShows /\ FeedType(feed) /\ IsRows(rows)
      /\ degradations \in Seq(Episode) /\ nextDegradation \in Nat /\ alerts \in Seq(Nat)
      /\ pass.send = <<>>
  BY <1>1, <1>2, <1>8 DEF QualityInv, QualityType, IsRows
<1>10. IsPassOf(eps, nextDegradation, States, after)
  BY <1>3, <1>7, <1>9, PassFacts
<1>11. SendsOf(send, eps, nextDegradation)
  BY <1>4, <1>9, <1>10, SendFacts
<1>12. Alternating(v, after) /\ Numbered(v, nextDegradation + Len(eps))
  BY <1>5, <1>9, <1>10, LogGrows DEF QualityInv
<1>13. AlertsKnown(v, alerts, send, tried)
  <2>1. /\ AlertsKnown(degradations, alerts, <<>>, tried) /\ Numbered(degradations, nextDegradation)
        /\ AlertsRise(alerts, <<>>, nextDegradation)
    BY <1>9 DEF QualityInv
  <2> QED BY <1>5, <1>9, <1>10, <1>11, <2>1, KnownGrows
<1>14. v \in Seq(Episode) /\ Len(v) \in Nat /\ Len(eps) \in Nat
  <2>1. eps \in Seq(Episode)
    BY <1>10 DEF IsPassOf
  <2>2. PICK n \in Nat : n = Len(degradations)
    BY <1>9, LenProperties
  <2>3. v \in Seq(Episode)
    BY <1>5, <1>9, <2>1, <2>2, ConcatOf
  <2> QED BY <2>1, <2>3, LenProperties
<1>15. PICK d : r \in Seq(Episode) /\ IsEnd(r, v, d)
  BY <1>6, <1>14, RetainedFacts
<1>16. Alternating(r, after) /\ Numbered(r, nextDegradation + Len(eps))
  BY <1>12, <1>14, <1>15, EndKeeps
<1>17. AlertsKnown(r, alerts, send, tried)
  BY <1>13, <1>14, <1>15, EndKnown
<1>18. States' = after
  <2>1. \A s \in Symbols : quality'[s].state = Persisted(s, feed, rows).state
    BY <1>8
  <2> QED BY <1>7, <2>1 DEF States, AfterPass
<1>19. /\ pass'.at = (IF send = <<>> THEN "idle" ELSE "send")
       /\ pass'.feed = NoReport /\ pass'.send = send
       /\ pass' = [at |-> pass'.at, feed |-> pass'.feed, send |-> pass'.send]
  BY <1>8
<1>20. /\ quality' \in [Symbols -> SymbolQuality]
       /\ AtLeast(0, 100 - 10 * GapWeight) < DegradedBelow =>
            \A s \in Symbols : quality'[s].feed_silent => quality'[s].state = "DEGRADED"
  <2>1. ASSUME NEW s \in Symbols
        PROVE  /\ Persisted(s, feed, rows) \in SymbolQuality
               /\ AtLeast(0, 100 - 10 * GapWeight) < DegradedBelow /\ Persisted(s, feed, rows).feed_silent =>
                    Persisted(s, feed, rows).state = "DEGRADED"
    BY <1>9, PersistedFacts
  <2> QED BY <1>8, <2>1
<1>21. SilenceShows'
  BY <1>20 DEF SilenceShows
<1>22. QualityType'
  <2>1. FeedType(pass.feed)'
    BY <1>19 DEF FeedType, NoReport
  <2>2. pass'.send \in Seq(Nat) /\ (pass'.at = "send" <=> pass'.send # <<>>)
    BY <1>11, <1>19 DEF SendsOf
  <2>3. nextDegradation' \in Nat
    BY <1>8, <1>9, <1>14
  <2> QED BY <1>8, <1>9, <1>15, <1>19, <1>20, <2>1, <2>2, <2>3 DEF QualityType
<1>23. AlertsRise(alerts, send, nextDegradation + Len(eps))
  <2>1. /\ \A i, j \in 1..Len(alerts) : i < j => alerts[i] < alerts[j]
        /\ \A i \in 1..Len(alerts) : alerts[i] \in Nat /\ alerts[i] < nextDegradation
    BY <1>9, ElementOfSeq DEF QualityInv, AlertsRise
  <2>2. /\ \A i, j \in 1..Len(send) : i < j => send[i] < send[j]
        /\ \A i \in 1..Len(send) :
             send[i] \in Nat /\ nextDegradation <= send[i] /\ send[i] < nextDegradation + Len(eps)
    BY <1>11, ElementOfSeq DEF SendsOf
  <2>3. ASSUME NEW i \in 1..Len(alerts), NEW j \in 1..Len(send) PROVE alerts[i] < send[j]
    BY <1>9, <2>1, <2>2, LessAndLess
  <2>4. ASSUME NEW i \in 1..Len(alerts) PROVE alerts[i] < nextDegradation + Len(eps)
    <3>1. nextDegradation <= nextDegradation + Len(eps) /\ nextDegradation + Len(eps) \in Int
      BY <1>9, <1>14
    <3> QED BY <1>9, <2>1, <3>1, LessAndLess
  <2> QED BY <2>1, <2>2, <2>3, <2>4 DEF AlertsRise
<1>24. AlertsRise(alerts, pass.send, nextDegradation)' /\ AlertsKnown(degradations, alerts, pass.send, tried)'
  BY <1>8, <1>17, <1>19, <1>23 DEF AlertsRise, AlertsKnown
<1>25. Alternating(degradations, States)' /\ Numbered(degradations, nextDegradation)'
  BY <1>8, <1>16, <1>18 DEF Alternating, Numbered, NoneBetween, Says
<1> QED BY <1>21, <1>22, <1>24, <1>25 DEF QualityInv

\* The alert of the next degradation is tried, and S10 may get it.
LEMMA FanOutKeeps ==
  ASSUME QualityInv, FanOut
  PROVE  QualityInv'
<1>1. PICK send : send = pass.send
  OBVIOUS
<1>2. PICK h : h = Head(send)
  OBVIOUS
<1>3. PICK left : left = Tail(send)
  OBVIOUS
<1>4. PICK got : got = alerts
  OBVIOUS
<1>5. PICK n : n = Len(send)
  OBVIOUS
<1>6. PICK m : m = Len(got)
  OBVIOUS
<1>7. /\ pass.at = "send" /\ alerts' \in {Append(got, h), got} /\ tried' = tried \cup {h}
      /\ pass' = [pass EXCEPT !.send = Tail(@), !.at = IF Len(pass.send) = 1 THEN "idle" ELSE "send"]
      /\ UNCHANGED <<windows, quality, degradations, nextDegradation>>
  BY <1>1, <1>2, <1>4 DEF FanOut, SendDegradation
<1>8. QualityType /\ got \in Seq(Nat) /\ send \in Seq(Nat) /\ send # <<>>
  BY <1>1, <1>4, <1>7 DEF QualityInv, QualityType
<1>9. m \in Nat /\ n \in Nat \ {0}
  BY <1>5, <1>6, <1>8, LenProperties, EmptySeq
<1>10. /\ h \in Nat /\ h = send[1] /\ left \in Seq(Nat) /\ Len(left) = n - 1
       /\ \A i \in 1..(n - 1) : left[i] = send[i + 1]
  BY <1>2, <1>3, <1>5, <1>8, HeadTailProperties
<1>11. /\ pass'.at = (IF n = 1 THEN "idle" ELSE "send")
       /\ pass'.feed = pass.feed /\ pass'.send = left
       /\ pass' = [at |-> pass'.at, feed |-> pass'.feed, send |-> pass'.send]
  BY <1>1, <1>3, <1>5, <1>7, <1>8 DEF QualityType
<1>12. left = <<>> <=> n = 1
  BY <1>9, <1>10, EmptySeq
<1>13. PICK more : more = alerts'
  OBVIOUS
<1>14. /\ more \in Seq(Nat)
       /\ \/ more = got
          \/ /\ Len(more) = m + 1 /\ more[m + 1] = h
             /\ \A i \in 1..m : more[i] = got[i]
  <2>1. CASE more = got
    BY <1>8, <2>1
  <2>2. CASE more = Append(got, h)
    BY <1>6, <1>8, <1>10, <2>2, AppendProperties
  <2> QED BY <1>7, <1>13, <2>1, <2>2
<1>15. /\ \A i, j \in 1..m : i < j => got[i] < got[j]
       /\ \A i, j \in 1..n : i < j => send[i] < send[j]
       /\ \A i \in 1..m, j \in 1..n : got[i] < send[j]
       /\ \A i \in 1..m : got[i] < nextDegradation
       /\ \A i \in 1..n : send[i] < nextDegradation
  BY <1>1, <1>4, <1>5, <1>6 DEF QualityInv, AlertsRise
<1>16. 1 \in 1..n /\ \A i \in 1..(n - 1) : i + 1 \in 1..n /\ 1 < i + 1
  BY <1>9
<1>17. \A i \in 1..(m + 1) : i \in 1..m \/ i = m + 1
  BY <1>9
<1>18. /\ \A i, j \in 1..(n - 1) : i < j => left[i] < left[j]
       /\ \A i \in 1..(n - 1) : left[i] < nextDegradation /\ h < left[i]
       /\ \A i \in 1..m, j \in 1..(n - 1) : got[i] < left[j]
  <2>1. ASSUME NEW i \in 1..(n - 1), NEW j \in 1..(n - 1), i < j PROVE left[i] < left[j]
    <3>1. i + 1 < j + 1
      BY <2>1
    <3> QED BY <1>10, <1>15, <1>16, <3>1
  <2> QED BY <1>10, <1>15, <1>16, <2>1
<1>19. AlertsRise(more, left, nextDegradation)
  <2>1. CASE more = got
    BY <1>6, <1>10, <1>15, <1>18, <2>1 DEF AlertsRise
  <2>2. CASE more # got
    <3>1. /\ Len(more) = m + 1 /\ more[m + 1] = h
          /\ \A i \in 1..m : more[i] = got[i]
      BY <1>14, <2>2
    <3>2. ASSUME NEW i \in 1..(m + 1), NEW j \in 1..(m + 1), i < j PROVE more[i] < more[j]
      <4>1. i \in 1..m
        BY <1>9, <3>2
      <4> QED BY <1>10, <1>15, <1>16, <1>17, <3>1, <3>2, <4>1
    <3>3. \A i \in 1..(m + 1), j \in 1..(n - 1) : more[i] < left[j]
      BY <1>17, <1>18, <3>1
    <3>4. \A i \in 1..(m + 1) : more[i] < nextDegradation
      BY <1>10, <1>15, <1>16, <1>17, <3>1
    <3> QED BY <1>10, <1>18, <3>1, <3>2, <3>3, <3>4 DEF AlertsRise
  <2> QED BY <2>1, <2>2
<1>20. AlertsKnown(degradations, more, left, tried')
  <2> SUFFICES ASSUME NEW i \in 1..Len(degradations)
               PROVE  /\ degradations[i].kind = "DEGRADED" =>
                           \/ degradations[i].id \in tried'
                           \/ \E j \in 1..Len(left) : left[j] = degradations[i].id
                      /\ degradations[i].kind = "RECOVERED" =>
                           /\ \A j \in 1..Len(more) : more[j] # degradations[i].id
                           /\ \A j \in 1..Len(left) : left[j] # degradations[i].id
    BY DEF AlertsKnown
  <2>1. PICK id : id = degradations[i].id
    OBVIOUS
  <2>2. /\ degradations[i].kind = "DEGRADED" => id \in tried \/ \E j \in 1..n : send[j] = id
        /\ degradations[i].kind = "RECOVERED" => \A j \in 1..m : got[j] # id
        /\ degradations[i].kind = "RECOVERED" => \A j \in 1..n : send[j] # id
    BY <1>1, <1>4, <1>5, <1>6, <2>1 DEF QualityInv, AlertsKnown
  <2>3. ASSUME NEW j \in 1..n, send[j] = id
        PROVE  id \in tried' \/ \E k \in 1..(n - 1) : left[k] = id
    <3>1. CASE j = 1
      BY <1>7, <1>10, <2>3, <3>1
    <3>2. CASE j # 1
      <4>1. j - 1 \in 1..(n - 1) /\ (j - 1) + 1 = j
        BY <1>9, <3>2
      <4>2. left[j - 1] = id
        BY <1>10, <2>3, <4>1
      <4> QED BY <4>1, <4>2
    <3> QED BY <3>1, <3>2
  <2>4. degradations[i].kind = "RECOVERED" => \A j \in 1..(n - 1) : left[j] # id
    <3> SUFFICES ASSUME degradations[i].kind = "RECOVERED", NEW j \in 1..(n - 1) PROVE left[j] # id
      OBVIOUS
    <3>1. \A k \in 1..n : send[k] # id
      BY ONLY <2>2, degradations[i].kind = "RECOVERED"
    <3>2. j + 1 \in 1..n /\ left[j] = send[j + 1]
      BY <1>10, <1>16
    <3> QED BY <3>1, <3>2
  <2>5. degradations[i].kind = "RECOVERED" => \A j \in 1..Len(more) : more[j] # id
    <3> SUFFICES ASSUME degradations[i].kind = "RECOVERED", NEW j \in 1..Len(more) PROVE more[j] # id
      OBVIOUS
    <3>0. \A k \in 1..n : send[k] # id
      BY ONLY <2>2, degradations[i].kind = "RECOVERED"
    <3>1. h # id
      BY <1>10, <1>16, <3>0
    <3>2. CASE more = got
      BY <1>6, <2>2, <3>2
    <3>3. CASE more # got
      <4>1. Len(more) = m + 1 /\ more[m + 1] = h /\ \A k \in 1..m : more[k] = got[k]
        BY <1>14, <3>3
      <4>2. j \in 1..m \/ j = m + 1
        BY <1>17, <4>1
      <4> QED BY <2>2, <3>1, <4>1, <4>2
    <3> QED BY <3>2, <3>3
  <2>6. id \in tried => id \in tried'
    BY <1>7
  <2> QED BY <1>10, <2>1, <2>2, <2>3, <2>4, <2>5, <2>6
<1>21. QualityType'
  <2>1. FeedType(pass.feed)'
    BY <1>8, <1>11 DEF QualityType, FeedType
  <2>2. pass'.send \in Seq(Nat) /\ (pass'.at = "send" <=> pass'.send # <<>>)
    BY <1>10, <1>11, <1>12
  <2>3. alerts' \in Seq(Nat)
    BY <1>13, <1>14
  <2>4. /\ windows' = [s \in Symbols |-> windows'[s]]
        /\ \A s \in Symbols : windows'[s] = NoWindow \/ WindowType(windows'[s])
    BY <1>7, <1>8 DEF QualityType
  <2>5. /\ quality' \in [Symbols -> SymbolQuality]
        /\ degradations' \in Seq(Episode) /\ nextDegradation' \in Nat
    BY <1>7, <1>8 DEF QualityType
  <2>6. pass' = [at |-> pass'.at, feed |-> pass'.feed, send |-> pass'.send]
    BY <1>11
  <2> QED BY <2>1, <2>2, <2>3, <2>4, <2>5, <2>6 DEF QualityType
<1>22. AlertsRise(alerts, pass.send, nextDegradation)' /\ AlertsKnown(degradations, alerts, pass.send, tried)'
  <2>1. UNCHANGED <<degradations, nextDegradation>>
    BY <1>7
  <2>2. pass'.send = left /\ alerts' = more
    BY <1>11, <1>13
  <2> QED BY <1>19, <1>20, <2>1, <2>2 DEF AlertsRise, AlertsKnown
<1> QED BY <1>7, <1>21, <1>22 DEF QualityInv, SilenceShows, States

LEMMA NextQuality == QualityInv /\ [QualityNext]_qualityVars => QualityInv'
<1> SUFFICES ASSUME QualityInv, [QualityNext]_qualityVars PROVE QualityInv'
  OBVIOUS
<1>1. CASE UNCHANGED qualityVars
  BY <1>1, WindowsMove DEF qualityVars, QualityInv, QualityType
<1> QED BY <1>1, WindowSteps, PullFeedKeeps, PullBooksKeeps, FanOutKeeps DEF QualityNext

LEMMA QualityInvariant == QualitySpec => []QualityInv
BY InitQuality, NextQuality, PTL DEF QualitySpec

---------------------------------------------------------------------------
(* What the pages and S10 see *)

LEMMA ReversedAt ==
  ASSUME NEW s, NEW n \in Nat, n = Len(s)
  PROVE  /\ DOMAIN Reverse(s) = 1..n
         /\ \A i \in 1..n : Reverse(s)[i] = s[(n - i) + 1]
BY DEF Reverse

LEMMA MineAlternate ==
  ASSUME QualityInv, NEW s \in Symbols, NEW at,
         at = {i \in DOMAIN degradations : degradations[i].symbol = s},
         NEW mine, mine = Picked(degradations, at)
  PROVE  /\ \A k \in 1..(Len(mine) - 1) : mine[k].kind # mine[k + 1].kind
         /\ mine # <<>> => (mine[Len(mine)].kind = "DEGRADED" <=> quality[s].state = "DEGRADED")
<1>1. PICK n : n = Len(degradations)
  OBVIOUS
<1>2. /\ degradations \in Seq(Episode) /\ n \in Nat /\ DOMAIN degradations = 1..n
      /\ Alternating(degradations, States)
  BY <1>1, LenProperties DEF QualityInv, QualityType
<1>3. at \in SUBSET (1..n) /\ \A i \in 1..n : i \in at <=> degradations[i].symbol = s
  BY <1>2
<1>4. mine \in Seq(Episode) /\ InOrder(mine, degradations, at)
  <2>1. mine \in Seq(Episode)
    BY <1>1, <1>2, <1>3, PickedOf
  <2> QED BY <1>1, <1>2, <1>3, <2>1, PickedInOrder
<1>5. PICK m \in Nat : m = Len(mine)
  BY <1>4, LenProperties
<1>6. PICK pos \in [1..m -> at] :
        /\ \A k \in 1..m : mine[k] = degradations[pos[k]]
        /\ \A k, l \in 1..m : k < l => pos[k] < pos[l]
        /\ \A i \in at : \E k \in 1..m : pos[k] = i
  BY ONLY <1>4, <1>5 DEF InOrder
<1>7. \A k \in 1..m : pos[k] \in 1..n /\ degradations[pos[k]].symbol = s
  BY <1>3, <1>6
<1>8. ASSUME NEW k \in 1..(m - 1) PROVE mine[k].kind # mine[k + 1].kind
  <2>1. k \in 1..m /\ k + 1 \in 1..m /\ k < k + 1
    BY <1>5, <1>8
  <2>2. ASSUME NEW i \in (pos[k] + 1)..(pos[k + 1] - 1) PROVE degradations[i].symbol # s
    <3>1. pos[k] \in 1..n /\ pos[k + 1] \in 1..n /\ i \in 1..n /\ pos[k] < i /\ i < pos[k + 1]
      BY <1>2, <1>7, <2>1, <2>2
    <3> SUFFICES ASSUME degradations[i].symbol = s PROVE FALSE
      OBVIOUS
    <3>2. PICK l \in 1..m : pos[l] = i
      BY <1>3, <1>6, <3>1
    <3>3. ~(l <= k) /\ ~(k + 1 <= l)
      <4>1. CASE l < k
        <5>1. i < pos[k]
          BY <1>6, <2>1, <3>2, <4>1
        <5> QED BY <3>1, <5>1
      <4>2. CASE k + 1 < l
        <5>1. pos[k + 1] < i
          BY <1>6, <2>1, <3>2, <4>2
        <5> QED BY <3>1, <5>1
      <4>3. l # k /\ l # k + 1
        BY <3>1, <3>2
      <4> QED BY <4>1, <4>2, <4>3
    <3> QED BY <1>5, <2>1, <3>3
  <2>3. NoneBetween(degradations, pos[k], pos[k + 1])
    BY <1>7, <2>1, <2>2 DEF NoneBetween
  <2>4. /\ pos[k] \in 1..n /\ pos[k + 1] \in 1..n /\ pos[k] < pos[k + 1]
        /\ degradations[pos[k]].symbol = degradations[pos[k + 1]].symbol
    BY <1>6, <1>7, <2>1
  <2>5. degradations[pos[k]].kind # degradations[pos[k + 1]].kind
    BY <1>1, <1>2, <2>3, <2>4 DEF Alternating
  <2> QED BY <1>6, <2>1, <2>5
<1>9. ASSUME mine # <<>> PROVE mine[m].kind = "DEGRADED" <=> quality[s].state = "DEGRADED"
  <2>1. m \in 1..m
    BY <1>4, <1>5, <1>9, EmptySeq
  <2>2. ASSUME NEW i \in (pos[m] + 1)..((n + 1) - 1) PROVE degradations[i].symbol # s
    <3>1. pos[m] \in 1..n /\ i \in 1..n /\ pos[m] < i
      BY <1>2, <1>7, <2>1, <2>2
    <3> SUFFICES ASSUME degradations[i].symbol = s PROVE FALSE
      OBVIOUS
    <3>2. PICK l \in 1..m : pos[l] = i
      BY <1>3, <1>6, <3>1
    <3>3. CASE l = m
      BY <3>1, <3>2, <3>3
    <3>4. CASE l < m
      <4>1. i < pos[m]
        BY <1>6, <2>1, <3>2, <3>4
      <4> QED BY <3>1, <4>1
    <3> QED BY <1>5, <3>3, <3>4
  <2>3. NoneBetween(degradations, pos[m], n + 1)
    BY <1>7, <2>1, <2>2 DEF NoneBetween
  <2>4. pos[m] \in 1..n /\ degradations[pos[m]].symbol = s /\ mine[m] = degradations[pos[m]]
    BY <1>6, <1>7, <2>1
  <2>5. Says(mine[m]) = States[s]
    BY <1>1, <1>2, <2>3, <2>4 DEF Alternating
  <2> QED BY <2>5 DEF Says, States
<1> QED BY <1>5, <1>8, <1>9

\* Newest first: the numbers of a page of one kind fall.
LEMMA PagesFall ==
  ASSUME QualityInv, NEW kind
  PROVE  \A j, k \in DOMAIN Degradations(kind) :
           j < k => Degradations(kind)[j].id > Degradations(kind)[k].id
<1>1. PICK n : n = Len(degradations)
  OBVIOUS
<1>2. PICK at : at = {i \in DOMAIN degradations : degradations[i].kind = kind}
  OBVIOUS
<1>3. PICK p : p = Picked(degradations, at)
  OBVIOUS
<1>4. /\ degradations \in Seq(Episode) /\ n \in Nat /\ DOMAIN degradations = 1..n
      /\ Numbered(degradations, nextDegradation)
  BY <1>1, LenProperties DEF QualityInv, QualityType
<1>5. at \in SUBSET (1..n)
  BY <1>2, <1>4
<1>6. p \in Seq(Episode) /\ InOrder(p, degradations, at)
  <2>1. p \in Seq(Episode)
    BY <1>1, <1>3, <1>4, <1>5, PickedOf
  <2> QED BY <1>1, <1>3, <1>4, <1>5, <2>1, PickedInOrder
<1>7. PICK m \in Nat : m = Len(p)
  BY <1>6, LenProperties
<1>8. PICK pos \in [1..m -> at] :
        /\ \A k \in 1..m : p[k] = degradations[pos[k]]
        /\ \A k, l \in 1..m : k < l => pos[k] < pos[l]
        /\ \A i \in at : \E k \in 1..m : pos[k] = i
  BY <1>6, <1>7 DEF InOrder
<1>9. PICK page : page = Degradations(kind)
  OBVIOUS
<1>10. DOMAIN page = 1..m /\ \A i \in 1..m : page[i] = p[(m - i) + 1]
  BY <1>2, <1>3, <1>7, <1>9, ReversedAt DEF Degradations
<1>11. ASSUME NEW j \in 1..m, NEW k \in 1..m, j < k PROVE page[j].id > page[k].id
  <2>0. (m - j) + 1 \in 1..m /\ (m - k) + 1 \in 1..m /\ (m - k) + 1 < (m - j) + 1
    BY <1>7, <1>11
  <2>1. PICK a \in 1..m : a = (m - j) + 1
    BY <2>0
  <2>2. PICK b \in 1..m : b = (m - k) + 1
    BY <2>0
  <2>3. b < a
    BY <2>0, <2>1, <2>2
  <2>4. pos[b] \in 1..n /\ pos[a] \in 1..n /\ pos[b] < pos[a]
    BY <1>5, <1>8, <2>3
  <2>5. degradations[pos[b]].id < degradations[pos[a]].id
    BY <1>1, <1>4, <2>4 DEF Numbered
  <2>6. page[j] = degradations[pos[a]] /\ page[k] = degradations[pos[b]]
    BY <1>8, <1>10, <2>1, <2>2
  <2>7. degradations[pos[a]].id \in Nat /\ degradations[pos[b]].id \in Nat
    <3>1. degradations[pos[a]] \in Episode /\ degradations[pos[b]] \in Episode
      BY <1>1, <1>4, <2>4, ElementOfSeq
    <3> QED BY <3>1 DEF Episode
  <2> QED BY <2>5, <2>6, <2>7
<1> QED BY <1>9, <1>10, <1>11

\* Who is known is in one of two states.
LEMMA CountsAddUp ==
  ASSUME QualityType
  PROVE  Summary.counts["OK"] + Summary.counts["DEGRADED"] = Summary.symbols_total
<1>1. PICK ok : ok = InState("OK")
  OBVIOUS
<1>2. PICK bad : bad = InState("DEGRADED")
  OBVIOUS
<1>3. \A s \in Symbols : quality[s].state \in {"UNKNOWN", "OK", "DEGRADED"}
  BY DEF QualityType, SymbolQuality
<1>4. Known = ok \cup bad /\ ok \cap bad = {} /\ ok \subseteq Symbols /\ bad \subseteq Symbols
  BY <1>1, <1>2, <1>3 DEF Known, InState
<1>5. IsFiniteSet(Symbols)
  <2>1. PICK n \in Nat : n = Len(SymbolOrder)
    BY OrderFacts
  <2>2. PICK f : f = [i \in 1..n |-> SymbolOrder[i]]
    OBVIOUS
  <2>3. f \in Surjection(1..n, Symbols)
    <3>1. f \in [1..n -> Symbols]
      BY <2>1, <2>2, OrderFacts
    <3>2. \A s \in Symbols : \E i \in 1..n : f[i] = s
      BY <2>1, <2>2, OrderFacts
    <3> QED BY <3>1, <3>2 DEF Surjection
  <2>4. IsFiniteSet(1..n)
    BY FirstPositions
  <2> QED BY <2>3, <2>4, FS_Surjection
<1>6. IsFiniteSet(ok) /\ IsFiniteSet(bad)
  BY <1>4, <1>5, FS_Subset
<1>7. /\ Cardinality(ok) \in Nat /\ Cardinality(bad) \in Nat /\ Cardinality(ok \cap bad) = 0
      /\ Cardinality(ok \cup bad) = Cardinality(ok) + Cardinality(bad) - Cardinality(ok \cap bad)
  BY <1>4, <1>6, FS_CardinalityType, FS_Union, FS_EmptySet
<1>8. /\ Summary.counts["OK"] = Cardinality(ok) /\ Summary.counts["DEGRADED"] = Cardinality(bad)
      /\ Summary.symbols_total = Cardinality(Known)
  BY <1>1, <1>2 DEF Summary
<1> QED BY <1>4, <1>7, <1>8

LEMMA EpisodesFromInv == QualityInv => EpisodesAlternate
<1> SUFFICES ASSUME QualityInv PROVE EpisodesAlternate
  OBVIOUS
<1>1. /\ QualityType /\ SilenceShows /\ degradations \in Seq(Episode)
      /\ \A s \in Symbols : quality[s] \in SymbolQuality
  BY DEF QualityInv, QualityType
<1>2. Summary.degraded_symbols = {s \in Symbols : quality[s].state = "DEGRADED"}
  BY DEF Summary, InState, Known
<1>3. ASSUME NEW s \in Symbols, NEW mine,
             mine = Picked(degradations, {i \in DOMAIN degradations : degradations[i].symbol = s})
      PROVE  /\ \A k \in 1..(Len(mine) - 1) : mine[k].kind # mine[k + 1].kind
             /\ mine # <<>> => (Last(mine).kind = "DEGRADED" <=> s \in Summary.degraded_symbols)
  <2>1. /\ \A k \in 1..(Len(mine) - 1) : mine[k].kind # mine[k + 1].kind
        /\ mine # <<>> => (mine[Len(mine)].kind = "DEGRADED" <=> quality[s].state = "DEGRADED")
    BY <1>3, MineAlternate
  <2>2. Last(mine) = mine[Len(mine)]
    BY DEF Last
  <2>3. s \in Summary.degraded_symbols <=> quality[s].state = "DEGRADED"
    BY <1>2
  <2> QED BY <2>1, <2>2, <2>3
<1>4. AtLeast(0, 100 - 10 * GapWeight) < DegradedBelow =>
        {g.symbol : g \in Gaps} \subseteq Summary.degraded_symbols
  <2> SUFFICES ASSUME AtLeast(0, 100 - 10 * GapWeight) < DegradedBelow, NEW g \in Gaps
               PROVE  g.symbol \in Summary.degraded_symbols
    OBVIOUS
  <2>1. PICK s \in Symbols : g.symbol = s /\ quality[s].feed_silent
    BY DEF Gaps, Known
  <2>2. quality[s].state = "DEGRADED"
    BY <1>1, <2>1 DEF SilenceShows
  <2> QED BY <1>2, <2>1, <2>2
<1>5. \A kind \in {"DEGRADED", "RECOVERED"} :
        \A j, k \in DOMAIN Degradations(kind) :
          j < k => Degradations(kind)[j].id > Degradations(kind)[k].id
  BY PagesFall
<1>6. Summary.counts["OK"] + Summary.counts["DEGRADED"] = Summary.symbols_total
  BY <1>1, CountsAddUp
<1> QED BY <1>3, <1>4, <1>5, <1>6 DEF EpisodesAlternate

\* The log of S8 tells the truth: for every bound on the log, any weights and budgets, any
\* order of quotes, sweeps, resets and books, and any upstream that fails, the kept
\* episodes of a symbol alternate and the last says its state, a page lists the newest
\* first, a silent feed is a degraded symbol, and the counts of the summary add up
\* (quality_engine.py:135-239, 249, 291, 329; dqm/main.py:134-163).
THEOREM LogSaysTheState == QualitySpec => []EpisodesAlternate
BY QualityInvariant, EpisodesFromInv, PTL

LEMMA AlertsFromInv == QualityInv => AlertsAreEpisodes
<1> SUFFICES ASSUME QualityInv PROVE AlertsAreEpisodes
  OBVIOUS
<1> DEFINE kept == {e.id : e \in {d \in Range(degradations) : d.kind = "DEGRADED"}}
           recovered == {e.id : e \in {d \in Range(degradations) : d.kind = "RECOVERED"}}
<1>1. /\ degradations \in Seq(Episode) /\ alerts \in Seq(Nat) /\ pass.send \in Seq(Nat)
      /\ AlertsRise(alerts, pass.send, nextDegradation)
      /\ AlertsKnown(degradations, alerts, pass.send, tried)
  BY DEF QualityInv, QualityType
<1>2. /\ DOMAIN degradations = 1..Len(degradations) /\ DOMAIN alerts = 1..Len(alerts)
      /\ DOMAIN pass.send = 1..Len(pass.send)
  BY <1>1, LenProperties
<1>3. \A j, k \in DOMAIN alerts : j < k => alerts[j] < alerts[k]
  BY <1>1, <1>2 DEF AlertsRise
<1>4. ASSUME NEW x \in Range(alerts), x \in recovered PROVE FALSE
  <2>1. PICK j \in 1..Len(alerts) : x = alerts[j]
    BY <1>2 DEF Range
  <2>2. PICK i \in 1..Len(degradations) : degradations[i].kind = "RECOVERED" /\ x = degradations[i].id
    BY <1>2, <1>4 DEF Range
  <2>3. \A k \in 1..Len(alerts) : alerts[k] # degradations[i].id
    BY <1>1, <2>2 DEF AlertsKnown
  <2> QED BY <2>1, <2>2, <2>3
<1>5. ASSUME NEW x \in kept PROVE x \in tried \cup Range(pass.send)
  <2>1. PICK i \in 1..Len(degradations) : degradations[i].kind = "DEGRADED" /\ x = degradations[i].id
    BY <1>2 DEF Range
  <2>2. x \in tried \/ \E j \in 1..Len(pass.send) : pass.send[j] = x
    BY <1>1, <2>1 DEF AlertsKnown
  <2> QED BY <1>2, <2>2 DEF Range
<1> HIDE DEF kept, recovered
<1>6. Range(alerts) \cap recovered = {} /\ kept \subseteq tried \cup Range(pass.send)
  BY <1>4, <1>5
<1> QED BY <1>3, <1>6 DEF AlertsAreEpisodes, kept, recovered

\* S10 is told of degradations in their order and at most once, of recoveries never, and
\* none that the log still holds is forgotten, however many passes fail to reach it
\* (quality_engine.py:191-239, dqm/main.py:158-172).
THEOREM AlertsFollowTheLog == QualitySpec => []AlertsAreEpisodes
BY QualityInvariant, AlertsFromInv, PTL

===========================================================================
