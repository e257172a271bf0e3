-------------------------- MODULE MCFillPipeline --------------------------
(***************************************************************************)
(* Instances of the fill pipeline for TLC.                                 *)
(***************************************************************************)
EXTENDS FillPipeline, TLC

CONSTANTS o1, o2, ES

\* A buy and a sell of one symbol at two prices.
MCIntents ==
  { [id |-> o1, symbol |-> ES, side |-> "BUY", qty |-> 2, price |-> 1],
    [id |-> o2, symbol |-> ES, side |-> "SELL", qty |-> 1, price |-> 2] }

===========================================================================
