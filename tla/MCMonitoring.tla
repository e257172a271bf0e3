---------------------------- MODULE MCMonitoring ----------------------------
(***************************************************************************)
(* The feeds of S1 and the quality monitors of S1 and S8, which share no   *)
(* variable here, checked in one run: each behaviour is one of the two.    *)
(***************************************************************************)
EXTENDS FeedGateway, Quality

VARIABLE part   \* which of the two moves; chosen in the initial state

mcVars == <<feedVars, qualityVars, part>>

MCVenues == <<"EUREX", "CME">>
MCPriority == [v \in Range(MCVenues) |-> IF v = "EUREX" THEN 2 ELSE 1]

MCSymbols == <<"A">>

MCInit ==
  /\ FeedInit /\ QualityInit
  /\ part \in {"feed", "quality"}

OnlyFeed == UNCHANGED <<qualityVars, part>>
OnlyQuality == UNCHANGED <<feedVars, part>>

MCNext ==
  \/ part = "feed" /\ FeedNext /\ OnlyFeed
  \/ part = "quality" /\ QualityNext /\ OnlyQuality

\* The steps that the fairness of the two parts keeps going; since one part moves, the
\* fairness of the union is that of the parts.
KeepsGoing ==
  \/ part = "feed" /\ Loop /\ OnlyFeed
  \/ part = "quality" /\ PassGoesOn /\ OnlyQuality

MCSpec ==
  /\ MCInit /\ [][MCNext]_mcVars
  /\ WF_mcVars(KeepsGoing) /\ SF_mcVars(part = "quality" /\ FeedAnswers /\ OnlyQuality)
  /\ \A v \in Feeds : WF_mcVars(part = "feed" /\ VenueSends(v, Heartbeat) /\ OnlyFeed)

===========================================================================
