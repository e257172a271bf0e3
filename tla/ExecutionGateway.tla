------------------------- MODULE ExecutionGateway -------------------------
(***************************************************************************)
(* S4, the execution gateway: services/execution-gateway/src/core.rs.      *)
(*                                                                         *)
(* An OrderManager is shared by one thread per HTTP connection.  Its four  *)
(* fields (orders, fills, next_fill_seq, stats) have a mutex EACH, and a   *)
(* request takes them one after the other, so a submission is a sequence   *)
(* of atomic steps between which other requests run:                       *)
(*                                                                         *)
(*   Submit --rejected--> CountReject --------------------------+          *)
(*      |                                                       v          *)
(*      +--accepted--> TakeSeq -> PushFill -> CountEmitted      |          *)
(*                                 -> CountFilled -> InsertOrder -> idle   *)
(*                                                                         *)
(* All the state is in memory: Restart forgets every order and every fill  *)
(* and starts numbering fills at 1 again.                                  *)
(***************************************************************************)
EXTENDS Integers, Sequences, FiniteSets

CONSTANTS
  Threads,        \* connection threads that may be inside the manager at once
  Intents,        \* the order intents clients may post: records, see Intent
  OrderIds, Symbols,
  MaxOrderQty,    \* lifecycle.max_order_qty
  MinPrice,       \* lifecycle.min_price
  FillsRetained,  \* lifecycle.fills_retained
  VenueVerdicts,  \* what venue_rejects() may return: {FALSE} at rate 0
  ModifyQtys,     \* quantities a PATCH may ask for
  NoOrder,        \* what an idle thread holds
  MaxFills,       \* bound: fills ever emitted, all incarnations together
  MaxRejects,     \* bound: submissions rejected per incarnation
  MaxRestarts     \* bound: restarts of the process

Sides == {"BUY", "SELL"}

Intent == [id : OrderIds, symbol : Symbols, side : Sides, qty : Int, price : Int]

ASSUME IntentsAssumption  == Intents \subseteq Intent
ASSUME RetainedAssumption == FillsRetained \in Nat \ {0}
ASSUME VerdictsAssumption == VenueVerdicts \subseteq BOOLEAN /\ VenueVerdicts # {}
ASSUME CapsAssumption     == MaxOrderQty \in Nat \ {0} /\ MinPrice \in Int
ASSUME ModifyAssumption   == ModifyQtys \subseteq Int
ASSUME BoundsAssumption   == MaxFills \in Nat /\ MaxRejects \in Nat /\ MaxRestarts \in Nat

VARIABLES
  orders,       \* id -> order, for the ids submitted so far (HashMap)
  fills,        \* the retained fills, in push order (Vec)
  nextFillSeq,  \* the counter behind the FILL-xxxxxxxx ids
  stats,        \* the counters of Stats that some code updates
  pc,           \* thread -> the step of submit() it is about to take
  held,         \* thread -> the order it is submitting
  ticket,       \* thread -> the fill sequence number it has drawn
  restarts,     \* incarnation of the process
  log           \* history: every fill ever pushed, never trimmed, with its incarnation

vars == <<orders, fills, nextFillSeq, stats, pc, held, ticket, restarts, log>>

---------------------------------------------------------------------------
\* Orders and fills

OrderStates == {"NEW", "PARTIALLY_FILLED", "FILLED", "CANCELED", "REJECTED"}

IsOpen(state) == state \in {"NEW", "PARTIALLY_FILLED"}

Order == [intent : Intent, filled : Int, state : OrderStates]

ASSUME NoOrderAssumption == NoOrder \notin Order

Fill == [id : Nat \ {0}, order : OrderIds, symbol : Symbols, side : Sides,
         qty : Int, price : Int]

\* The intent's order once the venue has decided: submit() rejects or fills it
\* while it is still a local variable of the request.
RejectedOrder(i) == [intent |-> i, filled |-> 0, state |-> "REJECTED"]
FilledOrder(i)   == [intent |-> i, filled |-> i.qty, state |-> "FILLED"]

FillOf(seq, i) == [id |-> seq, order |-> i.id, symbol |-> i.symbol, side |-> i.side,
                   qty |-> i.qty, price |-> i.price]

\* The checks submit() makes before it touches any shared state.
Acceptable(i) ==
  /\ i.qty >= 1
  /\ i.qty <= MaxOrderQty
  /\ i.price >= MinPrice

\* Mutant: the wrong end of the window is dropped.
PushRetained_DropsTheNewest(seq, f) ==
  LET pushed == Append(seq, f)
  IN  IF Len(pushed) > FillsRetained THEN SubSeq(pushed, 1, FillsRetained) ELSE pushed

\* push, then drop from the front while more than fills_retained are kept.
PushRetained(seq, f) ==
  LET pushed == Append(seq, f)
  IN  IF Len(pushed) > FillsRetained THEN Tail(pushed) ELSE pushed

NoStats == [filled |-> 0, rejected |-> 0, canceled |-> 0, modified |-> 0, emitted |-> 0]

Bump(counter) == [stats EXCEPT ![counter] = @ + 1]

\* HashMap::insert: the map with the key set, whatever it held for it before.
Put(map, key, value) ==
  [k \in DOMAIN map \cup {key} |-> IF k = key THEN value ELSE map[k]]

---------------------------------------------------------------------------
Init ==
  /\ orders = <<>>
  /\ fills = <<>>
  /\ nextFillSeq = 1
  /\ stats = NoStats
  /\ pc = [t \in Threads |-> "idle"]
  /\ held = [t \in Threads |-> NoOrder]
  /\ ticket = [t \in Threads |-> 0]
  /\ restarts = 0
  /\ log = <<>>

\* Threads that will still push a fill.
Filling == {t \in Threads : pc[t] \in {"takeSeq", "pushFill"}}

Goto(t, from, to) == pc[t] = from /\ pc' = [pc EXCEPT ![t] = to]

\* Mutant: an accepted order is taken for filled without record_fill.
Submit_RecordsNoFill(t, i) ==
  /\ Acceptable(i)
  /\ Goto(t, "idle", "insertOrder")
  /\ held' = [held EXCEPT ![t] = FilledOrder(i)]
  /\ UNCHANGED <<orders, fills, nextFillSeq, stats, ticket, restarts, log>>

\* Mutant: the order is filled but its state is left NEW.
Submit_LeavesOrderNew(t, i) ==
  /\ Acceptable(i)
  /\ Len(log) + Cardinality(Filling) < MaxFills
  /\ Goto(t, "idle", "takeSeq")
  /\ held' = [held EXCEPT ![t] = [FilledOrder(i) EXCEPT !.state = "NEW"]]
  /\ UNCHANGED <<orders, fills, nextFillSeq, stats, ticket, restarts, log>>

\* POST /orders: parse, validate, ask the venue.  Nothing shared is written yet.
Submit(t, i) ==
  /\ Acceptable(i)
  /\ \E rejected \in VenueVerdicts :
       IF rejected
       THEN /\ stats.rejected + Cardinality({u \in Threads : pc[u] = "countReject"})
                 < MaxRejects
            /\ Goto(t, "idle", "countReject")
            /\ held' = [held EXCEPT ![t] = RejectedOrder(i)]
       ELSE /\ Len(log) + Cardinality(Filling) < MaxFills
            /\ Goto(t, "idle", "takeSeq")
            /\ held' = [held EXCEPT ![t] = FilledOrder(i)]
  /\ UNCHANGED <<orders, fills, nextFillSeq, stats, ticket, restarts, log>>

CountReject(t) ==
  /\ Goto(t, "countReject", "insertOrder")
  /\ stats' = Bump("rejected")
  /\ UNCHANGED <<orders, fills, nextFillSeq, held, ticket, restarts, log>>

\* Mutant: the number is read under the lock and not advanced there.
TakeSeq_NotAdvanced(t) ==
  /\ Goto(t, "takeSeq", "pushFill")
  /\ ticket' = [ticket EXCEPT ![t] = nextFillSeq]
  /\ UNCHANGED <<orders, fills, nextFillSeq, stats, held, restarts, log>>

\* record_fill, first lock: draw the sequence number.
TakeSeq(t) ==
  /\ Goto(t, "takeSeq", "pushFill")
  /\ ticket' = [ticket EXCEPT ![t] = nextFillSeq]
  /\ nextFillSeq' = nextFillSeq + 1
  /\ UNCHANGED <<orders, fills, stats, held, restarts, log>>

\* record_fill, second lock: push the fill and trim the retained window.
PushFill(t) ==
  LET f == FillOf(ticket[t], held[t].intent) IN
  /\ Goto(t, "pushFill", "countEmitted")
  /\ fills' = PushRetained(fills, f)
  /\ log' = Append(log, [fill |-> f, epoch |-> restarts])
  /\ UNCHANGED <<orders, nextFillSeq, stats, held, ticket, restarts>>

CountEmitted(t) ==
  /\ Goto(t, "countEmitted", "countFilled")
  /\ stats' = Bump("emitted")
  /\ UNCHANGED <<orders, fills, nextFillSeq, held, ticket, restarts, log>>

CountFilled(t) ==
  /\ Goto(t, "countFilled", "insertOrder")
  /\ stats' = Bump("filled")
  /\ UNCHANGED <<orders, fills, nextFillSeq, held, ticket, restarts, log>>

\* The last step of submit(), on both branches: the order becomes visible.  An
\* entry with the same id is overwritten.
InsertOrder(t) ==
  /\ Goto(t, "insertOrder", "idle")
  /\ orders' = Put(orders, held[t].intent.id, held[t])
  /\ held' = [held EXCEPT ![t] = NoOrder]
  /\ UNCHANGED <<fills, nextFillSeq, stats, ticket, restarts, log>>

\* PATCH /orders/{id}.  Refused unless the order is open, and unless the new
\* quantity exceeds what is filled.
Modify(id, qty) ==
  /\ id \in DOMAIN orders
  /\ LET accepted == IsOpen(orders[id].state) /\ qty >= 1 /\ qty > orders[id].filled IN
     /\ orders' = IF accepted THEN [orders EXCEPT ![id].intent.qty = qty] ELSE orders
     /\ stats' = IF accepted THEN Bump("modified") ELSE stats
  /\ UNCHANGED <<fills, nextFillSeq, pc, held, ticket, restarts, log>>

\* DELETE /orders/{id}.  Refused unless the order is open.
Cancel(id) ==
  /\ id \in DOMAIN orders
  /\ LET accepted == IsOpen(orders[id].state) IN
     /\ orders' = IF accepted THEN [orders EXCEPT ![id].state = "CANCELED"] ELSE orders
     /\ stats' = IF accepted THEN Bump("canceled") ELSE stats
  /\ UNCHANGED <<fills, nextFillSeq, pc, held, ticket, restarts, log>>

\* The process dies and is started again: OrderManager::new.
Restart ==
  /\ restarts < MaxRestarts
  /\ restarts' = restarts + 1
  /\ orders' = <<>>
  /\ fills' = <<>>
  /\ nextFillSeq' = 1
  /\ stats' = NoStats
  /\ pc' = [t \in Threads |-> "idle"]
  /\ held' = [t \in Threads |-> NoOrder]
  /\ ticket' = [t \in Threads |-> 0]
  /\ UNCHANGED log

SubmitStep(t) ==
  \/ \E i \in Intents : Submit(t, i)
  \/ CountReject(t)
  \/ TakeSeq(t)
  \/ PushFill(t)
  \/ CountEmitted(t)
  \/ CountFilled(t)
  \/ InsertOrder(t)

Next ==
  \/ \E t \in Threads : SubmitStep(t)
  \/ \E id \in OrderIds, qty \in ModifyQtys : Modify(id, qty)
  \/ \E id \in OrderIds : Cancel(id)
  \/ Restart

Spec == Init /\ [][Next]_vars

---------------------------------------------------------------------------
\* Properties

Steps == {"idle", "takeSeq", "pushFill", "countEmitted", "countFilled",
          "countReject", "insertOrder"}

TypeOK ==
  /\ \E ids \in SUBSET OrderIds : orders \in [ids -> Order]
  /\ fills \in Seq(Fill)
  /\ nextFillSeq \in Nat \ {0}
  /\ stats \in [filled : Nat, rejected : Nat, canceled : Nat, modified : Nat, emitted : Nat]
  /\ pc \in [Threads -> Steps]
  /\ held \in [Threads -> Order \cup {NoOrder}]
  /\ ticket \in [Threads -> Nat]
  /\ restarts \in Nat
  /\ log \in Seq([fill : Fill, epoch : Nat])

\* The entries of the history pushed by the running process.
Current == {n \in DOMAIN log : log[n].epoch = restarts}

At(step) == {t \in Threads : pc[t] = step}

\* Two fills the same process reports never share an id, although the id is
\* drawn under one mutex and the fill pushed under another (core.rs:224-245).
\* S5, S6 and S14 all tell fills apart by id alone.
UniqueFillIds ==
  \A m, n \in DOMAIN log :
    m # n /\ log[m].epoch = log[n].epoch => log[m].fill.id # log[n].fill.id

\* What GET /fills can see is exactly the most recent fills_retained pushes, in
\* push order: trimming never drops a fill newer than one it keeps (core.rs:240-244).
RetainedAreTheNewest ==
  /\ Len(fills) <= FillsRetained
  /\ Len(fills) < FillsRetained => Len(fills) = Cardinality(Current)
  /\ \A k \in DOMAIN fills :
       LET n == Len(log) - Len(fills) + k
       IN  n \in Current /\ fills[k] = log[n].fill

\* Whoever reads an order as FILLED finds its fill already reported: record_fill
\* precedes the insertion into the order map (core.rs:84-87).
FilledOrderIsReported ==
  \A id \in DOMAIN orders :
    orders[id].state = "FILLED" =>
      \E n \in Current : log[n].fill.order = id /\ log[n].fill.qty = orders[id].filled

\* The gateway fills or rejects every order before it becomes visible, so no
\* order is ever open: PATCH and DELETE always answer EXG-202, and the risk
\* manager's flatten and its open-order cap never find anything (core.rs:72-88).
NoOrderIsEverOpen ==
  \A id \in DOMAIN orders : ~IsOpen(orders[id].state)

===========================================================================
