---------------------------- MODULE MCBackOffice ----------------------------
(***************************************************************************)
(* The services behind the trading path, which share no variable, checked  *)
(* in one run: each behaviour is one of the configuration store and its    *)
(* followers, of the audit log and its threads, or of the settlement runs. *)
(***************************************************************************)
EXTENDS ConfigStore, AuditChain, Settlement

VARIABLE part   \* which of the three moves; chosen in the initial state

mcVars == <<configVars, auditVars, settleVars, part>>

\* A document of one key, and an override that gives the other a value.
MCPayloads == {[k \in Keys |-> IF k = "limit" THEN x ELSE None] : x \in Values}
MCPartials == {[k \in Keys |-> IF k = "rate" THEN x ELSE None] : x \in Values}

\* Two events, and what the configuration service posts.
MCBodies ==
  {[source |-> "rkm", kind |-> "k", actor |-> "a",
    data |-> [depth |-> d, leaves |-> {"short string"}]] : d \in 0..1} \cup {AuditPost}

\* The log accepts nothing that the audit client of S11 posts (cfgs/clients.py:82).
ASSUME NoConfigAudit == ~ValidEventBody(AuditPost)

MCFill(id, side, px) == <<<<0, id, 0>>, "V", "A", side, px, 1, 1>>

MCFillIds == {<<0, "f1", 0>>, <<0, "f2", 0>>}

\* A buy; a sale with a restated buy behind it; a statement line of either side.
MCPosts == {
  << <<MCFill("f1", "BUY", 1)>>, <<>> >>,
  << <<MCFill("f2", "SELL", 1), MCFill("f1", "BUY", 2)>>, <<>> >>,
  << <<>>, <<<<"V", "A", "BUY", 1, 1>>>> >>,
  << <<>>, <<<<"V", "A", "SELL", 1, 1>>>> >>}

MCListing == <<"A">>

MCBookRows == {<<0, 0>>, <<-2, 1>>, <<1, 1>>}

MCInit ==
  /\ ConfigInit /\ AuditInit /\ SettleInit
  /\ part \in {"config", "audit", "settle"}
  /\ part # "settle" => book = [s \in {"A"} |-> <<0, 0>>]   \* one state of what does not move

\* Only that part moves.
OnlyConfig == UNCHANGED <<auditVars, settleVars, part>>
OnlyAudit == UNCHANGED <<configVars, settleVars, part>>
OnlySettle == UNCHANGED <<configVars, auditVars, part>>

MCNext ==
  \/ part = "config" /\ ConfigNext /\ OnlyConfig
  \/ part = "audit" /\ AuditNext /\ OnlyAudit
  \/ part = "settle" /\ SettleNext /\ OnlySettle

\* The fairness of the followers, vacuous where their part does not move.
MCSpec ==
  /\ MCInit /\ [][MCNext]_mcVars
  /\ \A w \in Followers : WF_mcVars(part = "config" /\ Follow(w) /\ OnlyConfig)

===========================================================================
