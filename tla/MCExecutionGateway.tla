------------------------ MODULE MCExecutionGateway ------------------------
(***************************************************************************)
(* Instances of the execution gateway for TLC.                             *)
(***************************************************************************)
EXTENDS ExecutionGateway, TLC

CONSTANTS o1, o2, ES

\* Two orders for one symbol, one of them also re-sent with another quantity,
\* and one intent the validation refuses.
MCIntents ==
  { [id |-> o1, symbol |-> ES, side |-> "BUY", qty |-> 1, price |-> 1],
    [id |-> o1, symbol |-> ES, side |-> "BUY", qty |-> 2, price |-> 1],
    [id |-> o2, symbol |-> ES, side |-> "SELL", qty |-> 1, price |-> 1],
    [id |-> o2, symbol |-> ES, side |-> "SELL", qty |-> 3, price |-> 1] }

\* Threads are interchangeable; no run of this module checks liveness.
ThreadSymmetry == Permutations(Threads)

===========================================================================
