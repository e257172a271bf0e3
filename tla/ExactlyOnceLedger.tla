------------------------- MODULE ExactlyOnceLedger ------------------------
(***************************************************************************)
(* What S6 promises about the fills of S4 (posk/config.py:6-7, README.md:  *)
(* "exactly-once S4 fill ingestion"): a fill is booked after it has been   *)
(* reported, no fill is booked twice, and the net quantity of a symbol is  *)
(* moved by booked fills alone.                                            *)
(*                                                                         *)
(* The ledger lives in memory.  When its process dies it forgets what it   *)
(* has booked and may book it again, from nothing.                         *)
(***************************************************************************)
EXTENDS Integers

CONSTANTS
  Reports,  \* every report the gateway may make
  Symbols

VARIABLES
  reported,  \* fills the gateway has reported
  booked,    \* fills the running ledger has booked
  net        \* symbol -> lots

vars == <<reported, booked, net>>

Flat == [s \in Symbols |-> 0]

Lots(r) == IF r.fill.side = "BUY" THEN r.fill.qty ELSE -r.fill.qty

Init == reported = {} /\ booked = {} /\ net = Flat

Report(r) ==
  /\ r \notin reported
  /\ reported' = reported \cup {r}
  /\ UNCHANGED <<booked, net>>

Book(r) ==
  /\ r \in reported \ booked
  /\ booked' = booked \cup {r}
  /\ net' = [net EXCEPT ![r.fill.symbol] = @ + Lots(r)]
  /\ UNCHANGED reported

Forget ==
  /\ booked' = {}
  /\ net' = Flat
  /\ UNCHANGED reported

Next ==
  \/ \E r \in Reports : Report(r) \/ Book(r)
  \/ Forget

Spec == Init /\ [][Next]_vars

===========================================================================
