---------------------- MODULE ExecutionGateway_proofs ---------------------
(***************************************************************************)
(* What the execution gateway keeps true for any number of threads, orders *)
(* and fills: its types, that no order is ever open, that no fill id is    *)
(* reported twice by one process, that a filled order is a reported one,   *)
(* and that the retained window shows the newest fills.                    *)
(*                                                                         *)
(* None of these is inductive by itself.  A thread carries the order it is *)
(* submitting and the sequence number it has drawn from one critical       *)
(* section to the next, so the invariant has to say what they may be.      *)
(***************************************************************************)
EXTENDS ExecutionGateway, SequenceTheorems, FiniteSetTheorems, TLAPS

\* A thread inside submit() carries an order, and one that has been decided.
CarriesClosedOrder ==
  \A t \in Threads : pc[t] # "idle" => held[t] \in Order /\ ~IsOpen(held[t].state)

\* A thread about to push has drawn a number, below the counter.
TicketsAreDrawn ==
  \A t \in At("pushFill") : ticket[t] \in 1..(nextFillSeq - 1)

TInv == TypeOK /\ CarriesClosedOrder /\ TicketsAreDrawn /\ NoOrderIsEverOpen

\* No two threads have drawn the same number.
TicketsAreDistinct ==
  \A t, u \in At("pushFill") : t # u => ticket[t] # ticket[u]

\* What the running process has pushed is below the counter and not drawn again.
PushedIsUsedUp ==
  /\ \A n \in DOMAIN log : log[n].epoch <= restarts
  /\ \A n \in Current :
       /\ log[n].fill.id < nextFillSeq
       /\ \A t \in At("pushFill") : ticket[t] # log[n].fill.id

IInv == TInv /\ TicketsAreDistinct /\ PushedIsUsedUp /\ UniqueFillIds

LogEntry == [fill : Fill, epoch : Nat]

---------------------------------------------------------------------------
\* Lemmas about the operators

LEMMA FillOfType ==
  ASSUME NEW seq \in Nat \ {0}, NEW i \in Intent
  PROVE  FillOf(seq, i) \in Fill
BY DEF FillOf, Fill, Intent

LEMMA PushRetainedType ==
  ASSUME NEW s \in Seq(Fill), NEW f \in Fill
  PROVE  PushRetained(s, f) \in Seq(Fill)
<1>1. Append(s, f) \in Seq(Fill) /\ Append(s, f) # <<>>
  BY AppendProperties
<1>2. Tail(Append(s, f)) \in Seq(Fill)
  BY <1>1, HeadTailProperties
<1> QED BY <1>1, <1>2 DEF PushRetained

LEMMA DecidedOrder ==
  ASSUME NEW i \in Intent
  PROVE  /\ RejectedOrder(i) \in Order /\ ~IsOpen(RejectedOrder(i).state)
         /\ FilledOrder(i) \in Order /\ ~IsOpen(FilledOrder(i).state)
BY DEF RejectedOrder, FilledOrder, Order, OrderStates, IsOpen, Intent

LEMMA BumpType ==
  ASSUME TypeOK, NEW c \in {"filled", "rejected", "canceled", "modified", "emitted"}
  PROVE  Bump(c) \in [filled : Nat, rejected : Nat, canceled : Nat, modified : Nat,
                      emitted : Nat]
<1>1. stats \in [filled : Nat, rejected : Nat, canceled : Nat, modified : Nat, emitted : Nat]
  BY DEF TypeOK
<1>2. CASE c = "filled"
  BY <1>1, <1>2 DEF Bump
<1>3. CASE c = "rejected"
  BY <1>1, <1>3 DEF Bump
<1>4. CASE c = "canceled"
  BY <1>1, <1>4 DEF Bump
<1>5. CASE c = "modified"
  BY <1>1, <1>5 DEF Bump
<1>6. CASE c = "emitted"
  BY <1>1, <1>6 DEF Bump
<1> QED BY <1>2, <1>3, <1>4, <1>5, <1>6

\* Inserting an order keeps the map a map from order ids to orders.
LEMMA InsertType ==
  ASSUME TypeOK, NEW o \in Order
  PROVE  \E ids \in SUBSET OrderIds : Put(orders, o.intent.id, o) \in [ids -> Order]
<1>1. PICK ids \in SUBSET OrderIds : orders \in [ids -> Order]
  BY DEF TypeOK
<1>2. o.intent.id \in OrderIds
  BY DEF Order, Intent
<1>3. Put(orders, o.intent.id, o) \in [ids \cup {o.intent.id} -> Order]
  BY <1>1 DEF Put
<1> QED BY <1>2, <1>3

---------------------------------------------------------------------------
\* Types, and what a thread carries

LEMMA InitTInv == Init => TInv
<1> SUFFICES ASSUME Init PROVE TInv
  OBVIOUS
<1> USE DEF Init
<1>1. TypeOK
  <2>1. orders \in [{} -> Order] /\ {} \in SUBSET OrderIds
    OBVIOUS
  <2>2. fills \in Seq(Fill) /\ log \in Seq([fill : Fill, epoch : Nat])
    OBVIOUS
  <2> QED BY <2>1, <2>2 DEF TypeOK, NoStats, Steps
<1>2. CarriesClosedOrder /\ TicketsAreDrawn /\ NoOrderIsEverOpen
  BY DEF CarriesClosedOrder, TicketsAreDrawn, At, NoOrderIsEverOpen
<1> QED BY <1>1, <1>2 DEF TInv

LEMMA NextTInv == TInv /\ [Next]_vars => TInv'
<1> SUFFICES ASSUME TInv, [Next]_vars PROVE TInv'
  OBVIOUS
<1> USE DEF TInv
<1>1. ASSUME NEW t \in Threads, NEW i \in Intents, Submit(t, i) PROVE TInv'
  <2>0. i \in Intent
    BY IntentsAssumption
  <2>1. PICK o \in Order, to \in {"countReject", "takeSeq"} :
          ~IsOpen(o.state) /\ Goto(t, "idle", to) /\ held' = [held EXCEPT ![t] = o]
    BY <1>1, <2>0, DecidedOrder DEF Submit
  <2>2. UNCHANGED <<orders, fills, nextFillSeq, stats, ticket, restarts, log>>
    BY <1>1 DEF Submit
  <2>3. TypeOK'
    BY <2>1, <2>2 DEF TypeOK, Goto, Steps
  <2>4. CarriesClosedOrder' /\ TicketsAreDrawn'
    BY <2>1, <2>2 DEF CarriesClosedOrder, TicketsAreDrawn, At, Goto, TypeOK
  <2>5. NoOrderIsEverOpen'
    BY <2>2 DEF NoOrderIsEverOpen
  <2> QED BY <2>3, <2>4, <2>5
<1>2. ASSUME NEW t \in Threads, CountReject(t) PROVE TInv'
  <2>1. TypeOK'
    BY <1>2, BumpType DEF CountReject, TypeOK, Goto, Steps
  <2>2. CarriesClosedOrder' /\ TicketsAreDrawn' /\ NoOrderIsEverOpen'
    BY <1>2 DEF CountReject, CarriesClosedOrder, TicketsAreDrawn, At, Goto, TypeOK,
                NoOrderIsEverOpen
  <2> QED BY <2>1, <2>2
<1>3. ASSUME NEW t \in Threads, TakeSeq(t) PROVE TInv'
  <2>1. TypeOK'
    BY <1>3 DEF TakeSeq, TypeOK, Goto, Steps
  <2>2. CarriesClosedOrder' /\ NoOrderIsEverOpen'
    BY <1>3 DEF TakeSeq, CarriesClosedOrder, Goto, TypeOK, NoOrderIsEverOpen
  <2>3. TicketsAreDrawn'
    BY <1>3 DEF TakeSeq, TicketsAreDrawn, At, Goto, TypeOK
  <2> QED BY <2>1, <2>2, <2>3
<1>4. ASSUME NEW t \in Threads, PushFill(t) PROVE TInv'
  <2> DEFINE f == FillOf(ticket[t], held[t].intent)
  <2>1. f \in Fill
    <3>1. held[t].intent \in Intent
      BY <1>4 DEF PushFill, Goto, CarriesClosedOrder, Order
    <3>2. ticket[t] \in Nat \ {0}
      BY <1>4 DEF PushFill, Goto, TicketsAreDrawn, At, TypeOK
    <3> QED BY <3>1, <3>2, FillOfType
  <2>2. fills' \in Seq(Fill)
    BY <1>4, <2>1, PushRetainedType DEF PushFill, TypeOK
  <2>3. log' \in Seq([fill : Fill, epoch : Nat])
    BY <1>4, <2>1 DEF PushFill, TypeOK
  <2>4. TypeOK'
    BY <1>4, <2>2, <2>3 DEF PushFill, TypeOK, Goto, Steps
  <2>5. CarriesClosedOrder' /\ TicketsAreDrawn' /\ NoOrderIsEverOpen'
    BY <1>4 DEF PushFill, CarriesClosedOrder, TicketsAreDrawn, At, Goto, TypeOK,
                NoOrderIsEverOpen
  <2> QED BY <2>4, <2>5
<1>5. ASSUME NEW t \in Threads, CountEmitted(t) PROVE TInv'
  <2>1. TypeOK'
    BY <1>5, BumpType DEF CountEmitted, TypeOK, Goto, Steps
  <2>2. CarriesClosedOrder' /\ TicketsAreDrawn' /\ NoOrderIsEverOpen'
    BY <1>5 DEF CountEmitted, CarriesClosedOrder, TicketsAreDrawn, At, Goto, TypeOK,
                NoOrderIsEverOpen
  <2> QED BY <2>1, <2>2
<1>6. ASSUME NEW t \in Threads, CountFilled(t) PROVE TInv'
  <2>1. TypeOK'
    BY <1>6, BumpType DEF CountFilled, TypeOK, Goto, Steps
  <2>2. CarriesClosedOrder' /\ TicketsAreDrawn' /\ NoOrderIsEverOpen'
    BY <1>6 DEF CountFilled, CarriesClosedOrder, TicketsAreDrawn, At, Goto, TypeOK,
                NoOrderIsEverOpen
  <2> QED BY <2>1, <2>2
<1>7. ASSUME NEW t \in Threads, InsertOrder(t) PROVE TInv'
  <2>1. held[t] \in Order /\ ~IsOpen(held[t].state)
    BY <1>7 DEF InsertOrder, Goto, CarriesClosedOrder
  <2>2. \E ids \in SUBSET OrderIds : orders' \in [ids -> Order]
    BY <1>7, <2>1, InsertType DEF InsertOrder
  <2>3. TypeOK'
    BY <1>7, <2>2 DEF InsertOrder, TypeOK, Goto, Steps
  <2>4. CarriesClosedOrder' /\ TicketsAreDrawn'
    BY <1>7 DEF InsertOrder, CarriesClosedOrder, TicketsAreDrawn, At, Goto, TypeOK
  <2>5. NoOrderIsEverOpen'
    BY <1>7, <2>1 DEF InsertOrder, NoOrderIsEverOpen, Put, TypeOK
  <2> QED BY <2>3, <2>4, <2>5
<1>8. ASSUME NEW id \in OrderIds, NEW qty \in ModifyQtys, Modify(id, qty) PROVE TInv'
  <2>1. UNCHANGED <<orders, stats, fills, nextFillSeq, pc, held, ticket, restarts, log>>
    BY <1>8 DEF Modify, NoOrderIsEverOpen
  <2> QED BY <2>1 DEF TypeOK, CarriesClosedOrder, TicketsAreDrawn, At, NoOrderIsEverOpen
<1>9. ASSUME NEW id \in OrderIds, Cancel(id) PROVE TInv'
  <2>1. UNCHANGED <<orders, stats, fills, nextFillSeq, pc, held, ticket, restarts, log>>
    BY <1>9 DEF Cancel, NoOrderIsEverOpen
  <2> QED BY <2>1 DEF TypeOK, CarriesClosedOrder, TicketsAreDrawn, At, NoOrderIsEverOpen
<1>10. ASSUME Restart PROVE TInv'
  <2>1. orders' \in [{} -> Order] /\ {} \in SUBSET OrderIds
    BY <1>10 DEF Restart
  <2>2. fills' \in Seq(Fill) /\ log' \in Seq([fill : Fill, epoch : Nat])
    BY <1>10 DEF Restart, TypeOK
  <2>5. pc' \in [Threads -> Steps] /\ held' \in [Threads -> Order \cup {NoOrder}]
    BY <1>10 DEF Restart, Steps
  <2>6. ticket' \in [Threads -> Nat] /\ nextFillSeq' \in Nat \ {0} /\ restarts' \in Nat
    BY <1>10 DEF Restart, TypeOK
  <2>7. stats' \in [filled : Nat, rejected : Nat, canceled : Nat, modified : Nat, emitted : Nat]
    BY <1>10 DEF Restart, NoStats
  <2>3. TypeOK'
    BY <2>1, <2>2, <2>5, <2>6, <2>7 DEF TypeOK
  <2>4. CarriesClosedOrder' /\ TicketsAreDrawn' /\ NoOrderIsEverOpen'
    BY <1>10 DEF Restart, CarriesClosedOrder, TicketsAreDrawn, At, NoOrderIsEverOpen
  <2> QED BY <2>3, <2>4
<1>11. CASE UNCHANGED vars
  BY <1>11 DEF vars, TypeOK, CarriesClosedOrder, TicketsAreDrawn, At, NoOrderIsEverOpen
<1> QED
  BY <1>1, <1>2, <1>3, <1>4, <1>5, <1>6, <1>7, <1>8, <1>9, <1>10, <1>11 DEF Next, SubmitStep

\* Every value the gateway computes has its type, whatever the intents and threads
\* (core.rs:53-256).
THEOREM TypeCorrect == Spec => []TypeOK
<1>1. TInv => TypeOK
  BY DEF TInv
<1> QED BY InitTInv, NextTInv, <1>1, PTL DEF Spec

\* No order is ever visible in an open state, so PATCH and DELETE never succeed
\* (core.rs:72-88, 92-145).
THEOREM NeverOpen == Spec => []NoOrderIsEverOpen
<1>1. TInv => NoOrderIsEverOpen
  BY DEF TInv
<1> QED BY InitTInv, NextTInv, <1>1, PTL DEF Spec

---------------------------------------------------------------------------
\* Fill ids

LEMMA LogEntries ==
  ASSUME TypeOK, NEW n \in DOMAIN log
  PROVE  log[n].fill.id \in Nat \ {0} /\ log[n].epoch \in Nat
<1>1. log \in Seq(LogEntry) /\ n \in 1..Len(log)
  BY DEF TypeOK, LogEntry
<1>2. log[n] \in LogEntry
  BY <1>1, ElementOfSeq
<1> QED BY <1>2 DEF LogEntry, Fill

\* A step that draws no number, pushes nothing and brings no thread to pushFill
\* cannot disturb the ids.
LEMMA IdsUndisturbed ==
  ASSUME IInv, UNCHANGED <<nextFillSeq, ticket, restarts, log>>,
         At("pushFill")' \subseteq At("pushFill")
  PROVE  TicketsAreDistinct' /\ PushedIsUsedUp' /\ UniqueFillIds'
BY DEF IInv, TicketsAreDistinct, PushedIsUsedUp, UniqueFillIds, Current

\* The number drawn is above every number drawn or pushed before.
LEMMA TakeSeqIds ==
  ASSUME IInv, NEW t \in Threads, TakeSeq(t)
  PROVE  TicketsAreDistinct' /\ PushedIsUsedUp' /\ UniqueFillIds'
<1>1. At("pushFill")' = At("pushFill") \cup {t}
  BY DEF TakeSeq, Goto, At, IInv, TInv, TypeOK
<1>2. /\ \A u \in At("pushFill") : ticket[u] < nextFillSeq /\ u # t
      /\ ticket' = [ticket EXCEPT ![t] = nextFillSeq] /\ nextFillSeq' = nextFillSeq + 1
      /\ ticket \in [Threads -> Nat] /\ nextFillSeq \in Nat
      /\ UNCHANGED <<restarts, log>>
  BY DEF TakeSeq, Goto, At, IInv, TInv, TypeOK, TicketsAreDrawn
<1>3. TicketsAreDistinct'
  BY <1>1, <1>2 DEF TicketsAreDistinct, IInv, At
<1>4. PushedIsUsedUp'
  <2>1. \A n \in DOMAIN log : log[n].epoch <= restarts
    BY DEF IInv, PushedIsUsedUp
  <2>2. Current' = Current
    BY <1>2 DEF Current
  <2>3. \A n \in Current : log[n].fill.id \in Nat
    BY LogEntries DEF IInv, TInv, Current
  <2>4. \A n \in Current : /\ log[n].fill.id < nextFillSeq
                           /\ \A u \in At("pushFill") : ticket[u] # log[n].fill.id
    BY DEF IInv, PushedIsUsedUp
  <2>5. \A n \in Current : log[n].fill.id < nextFillSeq'
    BY <1>2, <2>3, <2>4
  <2>6. \A n \in Current, u \in At("pushFill") \cup {t} : ticket'[u] # log[n].fill.id
    BY <1>2, <2>3, <2>4 DEF At
  <2> QED BY <1>1, <1>2, <2>1, <2>2, <2>5, <2>6 DEF PushedIsUsedUp
<1>5. UniqueFillIds'
  BY <1>2 DEF UniqueFillIds, IInv
<1> QED BY <1>3, <1>4, <1>5

\* The number pushed is the thread's own: drawn by no other thread and not yet
\* in the history of this process.
LEMMA PushFillIds ==
  ASSUME IInv, NEW t \in Threads, PushFill(t)
  PROVE  TicketsAreDistinct' /\ PushedIsUsedUp' /\ UniqueFillIds'
<1> DEFINE e == [fill |-> FillOf(ticket[t], held[t].intent), epoch |-> restarts]
           last == Len(log) + 1
<1>1. t \in At("pushFill") /\ At("pushFill")' = At("pushFill") \ {t}
  BY DEF PushFill, Goto, At, IInv, TInv, TypeOK
<1>2. UNCHANGED <<nextFillSeq, ticket, restarts>> /\ log' = Append(log, e)
  BY DEF PushFill
<1>3. log \in Seq(LogEntry) /\ restarts \in Nat
  BY DEF IInv, TInv, TypeOK, LogEntry
<1>4. /\ DOMAIN log' = DOMAIN log \cup {last} /\ last \notin DOMAIN log
      /\ \A n \in DOMAIN log : log'[n] = log[n]
      /\ log'[last] = e
  <2> HIDE DEF e
  <2> QED BY <1>2, <1>3
<1>5. e.epoch = restarts /\ e.fill.id = ticket[t]
  BY DEF FillOf
<1>6. Current' = Current \cup {last}
  BY <1>2, <1>4, <1>5 DEF Current
<1>7. ticket[t] < nextFillSeq
  BY <1>1 DEF IInv, TInv, TypeOK, TicketsAreDrawn
<1>8. TicketsAreDistinct'
  BY <1>1, <1>2 DEF TicketsAreDistinct, IInv
<1>9. PushedIsUsedUp'
  <2> HIDE DEF e, last
  <2>1. \A n \in DOMAIN log' : log'[n].epoch <= restarts'
    BY <1>2, <1>3, <1>4, <1>5 DEF IInv, PushedIsUsedUp
  <2>2. \A n \in Current : /\ log'[n].fill.id < nextFillSeq'
                           /\ \A u \in At("pushFill")' : ticket'[u] # log'[n].fill.id
    BY <1>1, <1>2, <1>4 DEF IInv, PushedIsUsedUp, Current
  <2>3. /\ log'[last].fill.id < nextFillSeq'
        /\ \A u \in At("pushFill")' : ticket'[u] # log'[last].fill.id
    BY <1>1, <1>2, <1>4, <1>5, <1>7 DEF IInv, TicketsAreDistinct
  <2> QED BY <1>6, <2>1, <2>2, <2>3 DEF PushedIsUsedUp
<1>10. UniqueFillIds'
  <2> HIDE DEF e, last
  <2>1. ASSUME NEW n \in DOMAIN log, log[n].epoch = restarts
        PROVE  log'[n].fill.id # log'[last].fill.id
    BY <1>1, <1>4, <1>5, <2>1 DEF IInv, PushedIsUsedUp, Current
  <2>2. ASSUME NEW m \in DOMAIN log, NEW n \in DOMAIN log, m # n,
               log'[m].epoch = log'[n].epoch
        PROVE  log'[m].fill.id # log'[n].fill.id
    BY <1>4, <2>2 DEF IInv, UniqueFillIds
  <2> QED BY <1>4, <1>5, <2>1, <2>2 DEF UniqueFillIds
<1> QED BY <1>8, <1>9, <1>10

LEMMA NextIInv == IInv /\ [Next]_vars => IInv'
<1> SUFFICES ASSUME IInv, [Next]_vars PROVE IInv'
  OBVIOUS
<1>0. TInv'
  BY NextTInv DEF IInv
<1> DEFINE Ids == TicketsAreDistinct /\ PushedIsUsedUp /\ UniqueFillIds
<1>1. ASSUME NEW t \in Threads, SubmitStep(t) PROVE Ids'
  <2>1. CASE TakeSeq(t)
    BY <2>1, TakeSeqIds
  <2>2. CASE PushFill(t)
    BY <2>2, PushFillIds
  <2>3. ASSUME NEW i \in Intents, Submit(t, i) PROVE Ids'
    BY <2>3, IdsUndisturbed DEF Submit, Goto, At, IInv, TInv, TypeOK
  <2>4. CASE CountReject(t)
    BY <2>4, IdsUndisturbed DEF CountReject, Goto, At, IInv, TInv, TypeOK
  <2>5. CASE CountEmitted(t)
    BY <2>5, IdsUndisturbed DEF CountEmitted, Goto, At, IInv, TInv, TypeOK
  <2>6. CASE CountFilled(t)
    BY <2>6, IdsUndisturbed DEF CountFilled, Goto, At, IInv, TInv, TypeOK
  <2>7. CASE InsertOrder(t)
    BY <2>7, IdsUndisturbed DEF InsertOrder, Goto, At, IInv, TInv, TypeOK
  <2> QED BY <1>1, <2>1, <2>2, <2>3, <2>4, <2>5, <2>6, <2>7 DEF SubmitStep
<1>2. ASSUME NEW id \in OrderIds, NEW qty \in ModifyQtys, Modify(id, qty) PROVE Ids'
  BY <1>2, IdsUndisturbed DEF Modify, At
<1>3. ASSUME NEW id \in OrderIds, Cancel(id) PROVE Ids'
  BY <1>3, IdsUndisturbed DEF Cancel, At
<1>4. ASSUME Restart PROVE Ids'
  <2>1. At("pushFill")' = {}
    BY <1>4 DEF Restart, At
  <2>2. \A n \in DOMAIN log : log[n].epoch < restarts' /\ log[n].epoch <= restarts'
    BY SMTT(30), <1>4, LogEntries DEF Restart, IInv, TInv, TypeOK, PushedIsUsedUp
  <2>3. log' = log
    BY <1>4 DEF Restart
  <2>4. Current' = {}
    <3>1. \A n \in DOMAIN log : log[n].epoch # restarts'
      BY <1>4, <2>2 DEF Restart, IInv, TInv, TypeOK
    <3> QED BY <2>3, <3>1 DEF Current
  <2> QED BY <2>1, <2>2, <2>3, <2>4 DEF TicketsAreDistinct, PushedIsUsedUp, UniqueFillIds,
                                        IInv
<1>5. ASSUME UNCHANGED vars PROVE Ids'
  BY <1>5, IdsUndisturbed DEF vars, At
<1> QED BY <1>0, <1>1, <1>2, <1>3, <1>4, <1>5 DEF Next, IInv

LEMMA InitIInv == Init => IInv
<1> SUFFICES ASSUME Init PROVE IInv
  OBVIOUS
<1>1. TicketsAreDistinct /\ PushedIsUsedUp /\ UniqueFillIds
  BY DEF Init, TicketsAreDistinct, PushedIsUsedUp, UniqueFillIds, Current, At
<1> QED BY <1>1, InitTInv DEF IInv

\* Two fills one process reports never share an id, however the submissions
\* interleave between the mutex of the counter and that of the list
\* (core.rs:224-245).
THEOREM UniqueIds == Spec => []UniqueFillIds
<1>1. IInv => UniqueFillIds
  BY DEF IInv
<1> QED BY <1>1, InitIInv, NextIInv, PTL DEF Spec

---------------------------------------------------------------------------
\* A filled order is reported before it is visible

\* The running process has reported the fill of an order.
IsReported(o) == \E n \in Current : log[n].fill.order = o.intent.id /\ log[n].fill.qty = o.filled

\* What the order a thread carries still lacks.
CarriesReported ==
  \A t \in Threads :
    /\ pc[t] \in {"takeSeq", "pushFill"} => held[t].filled = held[t].intent.qty
    /\ pc[t] \in {"countEmitted", "countFilled"} => IsReported(held[t])
    /\ pc[t] = "countReject" => held[t].state = "REJECTED"
    /\ pc[t] = "insertOrder" /\ held[t].state = "FILLED" => IsReported(held[t])

RInv == IInv /\ CarriesReported /\ FilledOrderIsReported

\* A process that goes on forgets no report.
LEMMA ReportsStay ==
  ASSUME IInv, UNCHANGED restarts,
         \/ UNCHANGED log
         \/ \E e \in LogEntry : log' = Append(log, e)
  PROVE  \A o : IsReported(o) => IsReported(o)'
<1>1. CASE UNCHANGED log
  BY <1>1 DEF IsReported, Current
<1>2. ASSUME NEW e \in LogEntry, log' = Append(log, e)
      PROVE  \A o : IsReported(o) => IsReported(o)'
  <2>1. log \in Seq(LogEntry)
    BY DEF IInv, TInv, TypeOK, LogEntry
  <2>2. DOMAIN log \subseteq DOMAIN log' /\ \A n \in DOMAIN log : log'[n] = log[n]
    BY <1>2, <2>1
  <2>3. \A n \in Current : n \in Current' /\ log'[n] = log[n]
    BY <2>2 DEF Current
  <2> QED BY <2>3 DEF IsReported
<1> QED BY <1>1, <1>2

\* A step of one thread that keeps the order it carries and the reports.
LEMMA StepKeepsReports ==
  ASSUME RInv, NEW t \in Threads, UNCHANGED <<held, log, restarts>>,
         pc' = [pc EXCEPT ![t] = pc'[t]],
         \/ pc[t] = "takeSeq" /\ pc'[t] = "pushFill"
         \/ pc[t] = "countEmitted" /\ pc'[t] = "countFilled"
         \/ pc[t] \in {"countFilled", "countReject"} /\ pc'[t] = "insertOrder"
  PROVE  CarriesReported'
<1>1. \A o : IsReported(o)' <=> IsReported(o)
  BY DEF IsReported, Current
<1>2. \A u \in Threads : u # t => pc'[u] = pc[u]
  BY DEF RInv, IInv, TInv, TypeOK
<1> QED BY <1>1, <1>2 DEF RInv, CarriesReported

LEMMA PushFillReports ==
  ASSUME RInv, NEW t \in Threads, PushFill(t)
  PROVE  CarriesReported' /\ FilledOrderIsReported'
<1> DEFINE e == [fill |-> FillOf(ticket[t], held[t].intent), epoch |-> restarts]
           last == Len(log) + 1
<1>1. /\ pc[t] = "pushFill" /\ pc' = [pc EXCEPT ![t] = "countEmitted"]
      /\ UNCHANGED <<orders, held, restarts>> /\ log' = Append(log, e)
      /\ held[t].filled = held[t].intent.qty
  BY DEF PushFill, Goto, RInv, CarriesReported
<1>2. e \in LogEntry /\ log \in Seq(LogEntry)
  <2>1. held[t].intent \in Intent
    BY <1>1 DEF RInv, IInv, TInv, CarriesClosedOrder, Order
  <2>2. ticket[t] \in Nat \ {0} /\ restarts \in Nat
    BY <1>1 DEF RInv, IInv, TInv, TicketsAreDrawn, At, TypeOK
  <2> QED BY <2>1, <2>2, FillOfType DEF LogEntry, RInv, IInv, TInv, TypeOK
<1>3. e.epoch = restarts /\ e.fill.order = held[t].intent.id /\ e.fill.qty = held[t].intent.qty
  BY DEF FillOf
<1> HIDE DEF e
<1>4. last \in DOMAIN log' /\ log'[last] = e
  BY <1>1, <1>2
<1>5. IsReported(held[t])'
  BY <1>1, <1>3, <1>4 DEF IsReported, Current
<1>6. \A o : IsReported(o) => IsReported(o)'
  BY <1>1, <1>2, ReportsStay DEF RInv
<1>7. \A u \in Threads : u # t => pc'[u] = pc[u]
  BY <1>1 DEF RInv, IInv, TInv, TypeOK
<1>8. CarriesReported'
  <2> SUFFICES ASSUME NEW u \in Threads
               PROVE  /\ pc'[u] \in {"takeSeq", "pushFill"} => held'[u].filled = held'[u].intent.qty
                      /\ pc'[u] \in {"countEmitted", "countFilled"} => IsReported(held[u])'
                      /\ pc'[u] = "countReject" => held'[u].state = "REJECTED"
                      /\ pc'[u] = "insertOrder" /\ held'[u].state = "FILLED" => IsReported(held[u])'
    BY DEF CarriesReported
  <2>1. CASE u = t
    BY <1>1, <1>5, <2>1 DEF RInv, IInv, TInv, TypeOK
  <2>2. CASE u # t
    BY <1>1, <1>6, <1>7, <2>2 DEF RInv, CarriesReported, IsReported
  <2> QED BY <2>1, <2>2
<1>9. FilledOrderIsReported'
  <2> SUFFICES ASSUME NEW id \in DOMAIN orders', orders'[id].state = "FILLED"
               PROVE  \E n \in Current' : log'[n].fill.order = id
                                          /\ log'[n].fill.qty = orders'[id].filled
    BY DEF FilledOrderIsReported
  <2>1. PICK n \in Current : log[n].fill.order = id /\ log[n].fill.qty = orders[id].filled
    BY <1>1 DEF RInv, FilledOrderIsReported
  <2>2. n \in Current' /\ log'[n] = log[n]
    BY <1>1, <1>2 DEF Current
  <2> QED BY <1>1, <2>1, <2>2
<1> QED BY <1>8, <1>9

LEMMA InsertOrderReports ==
  ASSUME RInv, NEW t \in Threads, InsertOrder(t)
  PROVE  CarriesReported' /\ FilledOrderIsReported'
<1>1. /\ pc[t] = "insertOrder" /\ pc' = [pc EXCEPT ![t] = "idle"]
      /\ held' = [held EXCEPT ![t] = NoOrder] /\ UNCHANGED <<log, restarts>>
      /\ orders' = Put(orders, held[t].intent.id, held[t])
  BY DEF InsertOrder, Goto
<1>2. \A o : IsReported(o)' <=> IsReported(o)
  BY <1>1 DEF IsReported, Current
<1>3. /\ \A u \in Threads : u # t => pc'[u] = pc[u] /\ held'[u] = held[u]
      /\ pc'[t] = "idle"
  BY <1>1 DEF RInv, IInv, TInv, TypeOK
<1>4. CarriesReported'
  <2> SUFFICES ASSUME NEW u \in Threads
               PROVE  /\ pc'[u] \in {"takeSeq", "pushFill"} => held'[u].filled = held'[u].intent.qty
                      /\ pc'[u] \in {"countEmitted", "countFilled"} => IsReported(held[u])'
                      /\ pc'[u] = "countReject" => held'[u].state = "REJECTED"
                      /\ pc'[u] = "insertOrder" /\ held'[u].state = "FILLED" => IsReported(held[u])'
    BY DEF CarriesReported
  <2>1. CASE u = t
    BY <1>3, <2>1
  <2>2. CASE u # t
    <3>1. IsReported(held[u])' <=> IsReported(held[u])
      BY <1>1, <1>3, <2>2 DEF IsReported, Current
    <3> QED BY <1>3, <2>2, <3>1 DEF RInv, CarriesReported
  <2> QED BY <2>1, <2>2
<1>5. FilledOrderIsReported'
  <2> SUFFICES ASSUME NEW id \in DOMAIN orders', orders'[id].state = "FILLED"
               PROVE  \E n \in Current' : log'[n].fill.order = id
                                          /\ log'[n].fill.qty = orders'[id].filled
    BY DEF FilledOrderIsReported
  <2>1. Current' = Current
    BY <1>1 DEF Current
  <2>2. CASE id = held[t].intent.id
    <3>1. orders'[id] = held[t] /\ IsReported(held[t])
      BY <1>1, <2>2 DEF Put, RInv, CarriesReported
    <3> QED BY <1>1, <2>1, <2>2, <3>1 DEF IsReported
  <2>3. CASE id # held[t].intent.id
    <3>1. id \in DOMAIN orders /\ orders'[id] = orders[id]
      BY <1>1, <2>3 DEF Put
    <3> QED BY <1>1, <2>1, <3>1 DEF RInv, FilledOrderIsReported
  <2> QED BY <2>2, <2>3
<1> QED BY <1>4, <1>5

LEMMA NextRInv == RInv /\ [Next]_vars => RInv'
<1> SUFFICES ASSUME RInv, [Next]_vars PROVE RInv'
  OBVIOUS
<1>0. IInv'
  BY NextIInv DEF RInv
<1> DEFINE Reports == CarriesReported /\ FilledOrderIsReported
<1>1. ASSUME UNCHANGED <<orders, log, restarts>> PROVE FilledOrderIsReported'
  BY <1>1 DEF RInv, FilledOrderIsReported, Current
<1>2. ASSUME UNCHANGED <<orders, pc, held, log, restarts>> PROVE Reports'
  <2>1. CarriesReported'
    BY <1>2 DEF RInv, CarriesReported, IsReported, Current
  <2> QED BY <1>1, <1>2, <2>1
<1>3. ASSUME NEW t \in Threads, NEW i \in Intents, Submit(t, i) PROVE Reports'
  <2>1. /\ pc[t] = "idle" /\ UNCHANGED <<orders, log, restarts>>
        /\ \/ /\ pc' = [pc EXCEPT ![t] = "countReject"]
              /\ held' = [held EXCEPT ![t] = RejectedOrder(i)]
           \/ /\ pc' = [pc EXCEPT ![t] = "takeSeq"]
              /\ held' = [held EXCEPT ![t] = FilledOrder(i)]
    BY <1>3 DEF Submit, Goto
  <2>2. \A u \in Threads : u # t => pc'[u] = pc[u] /\ held'[u] = held[u]
    BY <2>1 DEF RInv, IInv, TInv, TypeOK
  <2>3. \/ pc'[t] = "countReject" /\ held'[t].state = "REJECTED"
        \/ pc'[t] = "takeSeq" /\ held'[t].filled = held'[t].intent.qty
    BY <2>1 DEF RInv, IInv, TInv, TypeOK, RejectedOrder, FilledOrder
  <2>4. \A u \in Threads : u # t => (IsReported(held[u])' <=> IsReported(held[u]))
    BY <2>1, <2>2 DEF IsReported, Current
  <2>5. CarriesReported'
    BY <2>2, <2>3, <2>4 DEF RInv, CarriesReported
  <2> QED BY <1>1, <2>1, <2>5
<1>4. ASSUME NEW t \in Threads, CountReject(t) \/ TakeSeq(t) \/ CountEmitted(t) \/ CountFilled(t)
      PROVE  Reports'
  <2>1. /\ UNCHANGED <<orders, held, log, restarts>>
        /\ pc' = [pc EXCEPT ![t] = pc'[t]]
        /\ \/ pc[t] = "takeSeq" /\ pc'[t] = "pushFill"
           \/ pc[t] = "countEmitted" /\ pc'[t] = "countFilled"
           \/ pc[t] \in {"countFilled", "countReject"} /\ pc'[t] = "insertOrder"
    BY <1>4 DEF CountReject, TakeSeq, CountEmitted, CountFilled, Goto, RInv, IInv, TInv, TypeOK
  <2> QED BY <1>1, <2>1, StepKeepsReports
<1>5. ASSUME NEW id \in OrderIds, NEW qty \in ModifyQtys, Modify(id, qty) PROVE Reports'
  BY <1>2, <1>5 DEF Modify, RInv, IInv, TInv, NoOrderIsEverOpen
<1>6. ASSUME NEW id \in OrderIds, Cancel(id) PROVE Reports'
  BY <1>2, <1>6 DEF Cancel, RInv, IInv, TInv, NoOrderIsEverOpen
<1>7. ASSUME Restart PROVE Reports'
  <2>1. \A t \in Threads : pc'[t] = "idle"
    BY <1>7 DEF Restart
  <2>2. DOMAIN orders' = {}
    BY <1>7 DEF Restart
  <2> QED BY <2>1, <2>2 DEF CarriesReported, FilledOrderIsReported
<1>8. ASSUME UNCHANGED vars PROVE Reports'
  BY <1>2, <1>8 DEF vars
<1> QED
  BY <1>0, <1>3, <1>4, <1>5, <1>6, <1>7, <1>8, PushFillReports, InsertOrderReports
  DEF Next, SubmitStep, RInv

\* Whoever reads an order as filled finds its fill reported, in every interleaving of the
\* five critical sections of a submission (core.rs:84-87, 224-248).
THEOREM FilledIsReported == Spec => []FilledOrderIsReported
<1>1. Init => RInv
  <2> SUFFICES ASSUME Init PROVE RInv
    OBVIOUS
  <2>1. CarriesReported /\ FilledOrderIsReported
    BY DEF Init, CarriesReported, FilledOrderIsReported
  <2> QED BY <2>1, InitIInv DEF RInv
<1>2. RInv => FilledOrderIsReported
  BY DEF RInv
<1> QED BY <1>1, <1>2, NextRInv, PTL DEF Spec

---------------------------------------------------------------------------
\* What the window of retained fills shows

\* As long as the window has room it holds everything this process has pushed,
\* which is the end of the history: the entries before it are of earlier ones.
WindowIsCurrent ==
  /\ Len(fills) <= FillsRetained /\ Len(fills) <= Len(log)
  /\ \A k \in DOMAIN fills : fills[k] = log[Len(log) - Len(fills) + k].fill
  /\ (Len(log) - Len(fills) + 1)..Len(log) \subseteq Current
  /\ Len(fills) < FillsRetained => Current = (Len(log) - Len(fills) + 1)..Len(log)

WInv == IInv /\ WindowIsCurrent

LEMMA InitWInv == Init => WInv
<1> SUFFICES ASSUME Init PROVE WInv
  OBVIOUS
<1>1. fills = <<>> /\ log = <<>> /\ Current = {}
  BY DEF Init, Current
<1>2. WindowIsCurrent
  BY <1>1, RetainedAssumption DEF WindowIsCurrent
<1> QED BY <1>2, InitIInv DEF WInv

LEMMA WindowIsNewest == WInv => RetainedAreTheNewest
<1> SUFFICES ASSUME WInv PROVE RetainedAreTheNewest
  OBVIOUS
<1> DEFINE n == Len(log)
           w == Len(fills)
<1>1. log \in Seq(LogEntry) /\ fills \in Seq(Fill)
  BY DEF WInv, IInv, TInv, TypeOK, LogEntry
<1>2. n \in Nat /\ w \in Nat /\ w <= n /\ DOMAIN fills = 1..w
  BY <1>1, LenProperties DEF WInv, WindowIsCurrent
<1>3. ASSUME w < FillsRetained PROVE w = Cardinality(Current)
  <2>1. Current = (n - w + 1)..n
    BY <1>3 DEF WInv, WindowIsCurrent
  <2>2. (n - w + 1) \in Int /\ n \in Int
    BY <1>2
  <2> HIDE DEF n, w
  <2>3. Cardinality((n - w + 1)..n) = IF (n - w + 1) > n THEN 0 ELSE n - (n - w + 1) + 1
    BY <2>2, FS_Interval
  <2> QED BY <1>2, <2>1, <2>3
<1>4. ASSUME NEW k \in DOMAIN fills
      PROVE  (n - w + k) \in Current /\ fills[k] = log[n - w + k].fill
  <2>1. (n - w + k) \in (n - w + 1)..n
    BY <1>2, <1>4
  <2> QED BY <1>4, <2>1 DEF WInv, WindowIsCurrent
<1> QED BY <1>3, <1>4 DEF WInv, WindowIsCurrent, RetainedAreTheNewest

LEMMA PushFillWindow ==
  ASSUME WInv, NEW t \in Threads, PushFill(t)
  PROVE  WindowIsCurrent'
<1> DEFINE f == FillOf(ticket[t], held[t].intent)
           e == [fill |-> f, epoch |-> restarts]
           n == Len(log)
           w == Len(fills)
<1>1. /\ fills' = PushRetained(fills, f) /\ log' = Append(log, e) /\ UNCHANGED restarts
      /\ pc[t] = "pushFill"
  BY DEF PushFill, Goto
<1>2. f \in Fill /\ restarts \in Nat /\ FillsRetained \in Nat \ {0}
  <2>1. held[t].intent \in Intent
    BY <1>1 DEF WInv, IInv, TInv, CarriesClosedOrder, Order
  <2>2. ticket[t] \in Nat \ {0}
    BY <1>1 DEF WInv, IInv, TInv, TicketsAreDrawn, At, TypeOK
  <2> QED BY <2>1, <2>2, FillOfType, RetainedAssumption DEF WInv, IInv, TInv, TypeOK
<1>3. e \in LogEntry /\ e.fill = f /\ e.epoch = restarts
  BY <1>2 DEF LogEntry
<1> HIDE DEF f, e
<1>4. log \in Seq(LogEntry) /\ fills \in Seq(Fill) /\ n \in Nat /\ w \in Nat
  BY LenProperties DEF WInv, IInv, TInv, TypeOK, LogEntry
<1>5. /\ Len(log') = n + 1 /\ DOMAIN log' = 1..(n + 1) /\ log'[n + 1] = e
      /\ \A i \in 1..n : log'[i] = log[i]
  BY <1>1, <1>3, <1>4
<1>6. Current' = Current \cup {n + 1} /\ Current \subseteq 1..n
  BY <1>1, <1>3, <1>4, <1>5 DEF Current
<1>7. /\ w <= FillsRetained /\ w <= n
      /\ \A k \in 1..w : fills[k] = log[n - w + k].fill
      /\ (n - w + 1)..n \subseteq Current
      /\ w < FillsRetained => Current = (n - w + 1)..n
  BY <1>4 DEF WInv, WindowIsCurrent
<1>8. CASE w < FillsRetained
  <2>1. /\ Len(fills') = w + 1 /\ DOMAIN fills' = 1..(w + 1) /\ fills'[w + 1] = f
        /\ \A k \in 1..w : fills'[k] = fills[k]
    BY <1>1, <1>2, <1>4, <1>8 DEF PushRetained
  <2>2. \A k \in 1..(w + 1) : fills'[k] = log'[(n + 1) - (w + 1) + k].fill
    <3> TAKE k \in 1..(w + 1)
    <3>1. CASE k = w + 1
      BY <1>3, <1>4, <1>5, <1>7, <2>1, <3>1
    <3>2. CASE k \in 1..w
      <4>1. (n - w + k) \in 1..n /\ (n + 1) - (w + 1) + k = n - w + k
        BY <1>4, <1>7, <3>2
      <4> QED BY <1>5, <1>7, <2>1, <3>2, <4>1
    <3> QED BY <1>4, <3>1, <3>2
  <2>3. Current' = ((n + 1) - (w + 1) + 1)..(n + 1)
    BY <1>4, <1>6, <1>7, <1>8
  <2> QED BY SMTT(30), <1>2, <1>4, <1>5, <1>7, <1>8, <2>1, <2>2, <2>3 DEF WindowIsCurrent
<1>9. CASE w = FillsRetained
  <2>1. /\ Len(fills') = w /\ DOMAIN fills' = 1..w
        /\ \A k \in 1..w : fills'[k] = Append(fills, f)[k + 1]
    BY <1>1, <1>2, <1>4, <1>9 DEF PushRetained
  <2>2. \A k \in 1..w : fills'[k] = log'[(n + 1) - w + k].fill
    <3> TAKE k \in 1..w
    <3>1. CASE k = w
      BY <1>3, <1>4, <1>5, <2>1, <3>1
    <3>2. CASE k < w
      <4>1. fills'[k] = fills[k + 1] /\ k + 1 \in 1..w
        BY <1>2, <1>4, <2>1, <3>2
      <4>2. (n - w + (k + 1)) \in 1..n /\ (n + 1) - w + k = n - w + (k + 1)
        BY <1>4, <1>7, <4>1
      <4> QED BY <1>5, <1>7, <4>1, <4>2
    <3> QED BY <1>4, <3>1, <3>2
  <2>3. ((n + 1) - w + 1)..(n + 1) \subseteq Current'
    <3> SUFFICES ASSUME NEW j \in ((n + 1) - w + 1)..(n + 1) PROVE j \in Current'
      OBVIOUS
    <3>1. CASE j = n + 1
      BY <1>6, <3>1
    <3>2. CASE j \in (n - w + 1)..n
      BY <1>6, <1>7, <3>2
    <3> QED BY <1>4, <3>1, <3>2
  <2> QED BY SMTT(30), <1>2, <1>4, <1>5, <1>7, <1>9, <2>1, <2>2, <2>3 DEF WindowIsCurrent
<1> QED BY <1>2, <1>4, <1>7, <1>8, <1>9

LEMMA NextWInv == WInv /\ [Next]_vars => WInv'
<1> SUFFICES ASSUME WInv, [Next]_vars PROVE WInv'
  OBVIOUS
<1>0. IInv'
  BY NextIInv DEF WInv
<1>1. ASSUME UNCHANGED <<fills, log, restarts>> PROVE WindowIsCurrent'
  BY <1>1 DEF WInv, WindowIsCurrent, Current
<1>2. ASSUME Restart PROVE WindowIsCurrent'
  <2>1. /\ fills' = <<>> /\ log' = log /\ restarts' = restarts + 1
        /\ log \in Seq(LogEntry) /\ restarts \in Nat
    BY <1>2 DEF Restart, WInv, IInv, TInv, TypeOK, LogEntry
  <2>2. Current' = {}
    BY <2>1 DEF Current, WInv, IInv, PushedIsUsedUp, LogEntry
  <2>3. Len(log) \in Nat /\ (Len(log) - 0 + 1)..Len(log) = {}
    BY <2>1, LenProperties
  <2> QED BY <2>1, <2>2, <2>3, RetainedAssumption DEF WindowIsCurrent
<1>3. ASSUME NEW t \in Threads, NEW i \in Intents, Submit(t, i) PROVE WindowIsCurrent'
  BY <1>1, <1>3 DEF Submit
<1>4. ASSUME NEW t \in Threads, SubmitStep(t) PROVE WindowIsCurrent'
  BY <1>1, <1>3, <1>4, PushFillWindow
  DEF SubmitStep, CountReject, TakeSeq, CountEmitted, CountFilled, InsertOrder
<1>5. ASSUME NEW id \in OrderIds, Cancel(id) PROVE WindowIsCurrent'
  BY <1>1, <1>5 DEF Cancel
<1>6. ASSUME NEW id \in OrderIds, NEW qty \in ModifyQtys, Modify(id, qty)
      PROVE  WindowIsCurrent'
  BY <1>1, <1>6 DEF Modify
<1>7. ASSUME UNCHANGED vars PROVE WindowIsCurrent'
  BY <1>1, <1>7 DEF vars
<1> QED
  BY <1>0, <1>2, <1>3, <1>4, <1>5, <1>6, <1>7 DEF Next, WInv

\* Trimming the fill log never drops a fill newer than one it keeps, whatever the
\* order in which threads draw their numbers and push (core.rs:240-244).
THEOREM RetainedNewest == Spec => []RetainedAreTheNewest
  BY InitWInv, WindowIsNewest, NextWInv, PTL DEF Spec

---------------------------------------------------------------------------
\* What a step reports

\* A thread that is going to push carries the order of a client.
HeldIsPosted == \A t \in Filling : held[t].intent \in Intents

\* Every number drawn is pushed or about to be, so the bound on the fills is one on
\* the numbers.
DrawsAreCounted ==
  /\ IsFiniteSet(Filling)
  /\ Len(log) + Cardinality(Filling) <= MaxFills
  /\ nextFillSeq <= Len(log) + Cardinality(At("pushFill")) + 1
  /\ restarts <= MaxRestarts

PInv == WInv /\ HeldIsPosted /\ DrawsAreCounted

\* The facts about sizes that the steps need.
LEMMA CountFacts ==
  ASSUME PInv
  PROVE  /\ Len(log) \in Nat /\ nextFillSeq \in Nat /\ restarts \in Nat
         /\ At("pushFill") \subseteq Filling /\ Filling \subseteq Threads
         /\ IsFiniteSet(Filling) /\ Cardinality(Filling) \in Nat
         /\ IsFiniteSet(At("pushFill")) /\ Cardinality(At("pushFill")) \in Nat
         /\ Cardinality(At("pushFill")) <= Cardinality(Filling)
<1>1. Len(log) \in Nat /\ nextFillSeq \in Nat /\ restarts \in Nat
  BY LenProperties DEF PInv, WInv, IInv, TInv, TypeOK
<1>2. At("pushFill") \subseteq Filling /\ Filling \subseteq Threads
  BY DEF At, Filling
<1>3. IsFiniteSet(Filling)
  BY DEF PInv, DrawsAreCounted
<1> QED BY <1>1, <1>2, <1>3, FS_Subset, FS_CardinalityType

LEMMA InitPInv == Init => PInv
<1> SUFFICES ASSUME Init PROVE PInv
  OBVIOUS
<1>1. WInv
  BY InitWInv
<1>2. Filling = {} /\ At("pushFill") = {}
  BY DEF Init, Filling, At
<1>3. /\ IsFiniteSet(Filling) /\ Cardinality(Filling) = 0 /\ Cardinality(At("pushFill")) = 0
      /\ Len(log) = 0 /\ nextFillSeq = 1 /\ restarts = 0
  BY <1>2, FS_EmptySet DEF Init
<1>4. HeldIsPosted /\ DrawsAreCounted
  BY <1>2, <1>3, BoundsAssumption DEF HeldIsPosted, DrawsAreCounted
<1> QED BY <1>1, <1>4 DEF PInv

\* An accepted order takes one of the places left.
LEMMA SubmitDraws ==
  ASSUME PInv, NEW t \in Threads, NEW i \in Intents, Submit(t, i)
  PROVE  HeldIsPosted' /\ DrawsAreCounted'
<1>0. UNCHANGED <<nextFillSeq, restarts, log>> /\ pc \in [Threads -> Steps]
      /\ held = [u \in Threads |-> held[u]]
  BY DEF Submit, PInv, WInv, IInv, TInv, TypeOK
<1>1. CASE pc' = [pc EXCEPT ![t] = "countReject"] /\ held' = [held EXCEPT ![t] = RejectedOrder(i)]
  <2>1. Filling' = Filling /\ At("pushFill")' = At("pushFill") /\ t \notin Filling
    BY <1>0, <1>1 DEF Submit, Goto, Filling, At
  <2> QED BY <1>0, <1>1, <2>1 DEF PInv, HeldIsPosted, DrawsAreCounted, Filling
<1>2. CASE /\ Len(log) + Cardinality(Filling) < MaxFills
           /\ pc' = [pc EXCEPT ![t] = "takeSeq"] /\ held' = [held EXCEPT ![t] = FilledOrder(i)]
  <2>1. Filling' = Filling \cup {t} /\ At("pushFill")' = At("pushFill") /\ t \notin Filling
    BY <1>0, <1>2 DEF Submit, Goto, Filling, At
  <2>2. IsFiniteSet(Filling') /\ Cardinality(Filling') = Cardinality(Filling) + 1
    BY <2>1, CountFacts, FS_AddElement
  <2>3. HeldIsPosted'
    BY <1>0, <1>2, <2>1 DEF PInv, HeldIsPosted, FilledOrder, Filling
  <2>4. DrawsAreCounted'
    BY <1>0, <1>2, <2>1, <2>2, CountFacts, BoundsAssumption DEF PInv, DrawsAreCounted
  <2> QED BY <2>3, <2>4
<1> QED BY <1>1, <1>2 DEF Submit, Goto

LEMMA TakeSeqDraws ==
  ASSUME PInv, NEW t \in Threads, TakeSeq(t)
  PROVE  HeldIsPosted' /\ DrawsAreCounted'
<1>1. /\ Filling' = Filling /\ At("pushFill")' = At("pushFill") \cup {t} /\ t \notin At("pushFill")
      /\ nextFillSeq' = nextFillSeq + 1 /\ UNCHANGED <<held, restarts, log>>
  BY DEF TakeSeq, Goto, Filling, At, PInv, WInv, IInv, TInv, TypeOK
<1>2. Cardinality(At("pushFill")') = Cardinality(At("pushFill")) + 1
  BY <1>1, CountFacts, FS_AddElement
<1> QED BY <1>1, <1>2, CountFacts DEF PInv, HeldIsPosted, DrawsAreCounted

LEMMA PushFillDraws ==
  ASSUME PInv, NEW t \in Threads, PushFill(t)
  PROVE  HeldIsPosted' /\ DrawsAreCounted'
<1>1. /\ Filling' = Filling \ {t} /\ At("pushFill")' = At("pushFill") \ {t}
      /\ t \in At("pushFill") /\ t \in Filling
      /\ UNCHANGED <<held, restarts, nextFillSeq>>
  BY DEF PushFill, Goto, Filling, At, PInv, WInv, IInv, TInv, TypeOK
<1>2. Len(log') = Len(log) + 1
  BY AppendProperties DEF PushFill, PInv, WInv, IInv, TInv, TypeOK
<1>3. /\ IsFiniteSet(Filling') /\ Cardinality(Filling') = Cardinality(Filling) - 1
      /\ Cardinality(At("pushFill")') = Cardinality(At("pushFill")) - 1
  BY <1>1, CountFacts, FS_RemoveElement
<1> QED BY SMTT(30), <1>1, <1>2, <1>3, CountFacts, BoundsAssumption DEF PInv, HeldIsPosted, DrawsAreCounted

LEMMA NextPInv == PInv /\ [Next]_vars => PInv'
<1> SUFFICES ASSUME PInv, [Next]_vars PROVE PInv'
  OBVIOUS
<1>0. WInv'
  BY NextWInv DEF PInv
<1> DEFINE Draws == HeldIsPosted /\ DrawsAreCounted
<1>1. ASSUME Filling' = Filling, At("pushFill")' = At("pushFill"),
             \A t \in Filling : held'[t] = held[t], UNCHANGED <<nextFillSeq, restarts, log>>
      PROVE  Draws'
  BY <1>1 DEF PInv, HeldIsPosted, DrawsAreCounted
<1>2. ASSUME NEW t \in Threads, SubmitStep(t) PROVE Draws'
  <2>1. CASE \E i \in Intents : Submit(t, i)
    BY <2>1, SubmitDraws
  <2>2. CASE TakeSeq(t)
    BY <2>2, TakeSeqDraws
  <2>3. CASE PushFill(t)
    BY <2>3, PushFillDraws
  <2>4. CASE CountReject(t)
    BY <1>1, <2>4 DEF CountReject, Goto, Filling, At, PInv, WInv, IInv, TInv, TypeOK
  <2>5. CASE CountEmitted(t)
    BY <1>1, <2>5 DEF CountEmitted, Goto, Filling, At, PInv, WInv, IInv, TInv, TypeOK
  <2>6. CASE CountFilled(t)
    BY <1>1, <2>6 DEF CountFilled, Goto, Filling, At, PInv, WInv, IInv, TInv, TypeOK
  <2>7. CASE InsertOrder(t)
    BY <1>1, <2>7 DEF InsertOrder, Goto, Filling, At, PInv, WInv, IInv, TInv, TypeOK
  <2> QED BY <1>2, <2>1, <2>2, <2>3, <2>4, <2>5, <2>6, <2>7 DEF SubmitStep
<1>3. ASSUME NEW id \in OrderIds, NEW qty \in ModifyQtys, Modify(id, qty) PROVE Draws'
  BY <1>1, <1>3 DEF Modify, Filling, At
<1>4. ASSUME NEW id \in OrderIds, Cancel(id) PROVE Draws'
  BY <1>1, <1>4 DEF Cancel, Filling, At
<1>5. ASSUME Restart PROVE Draws'
  <2>1. /\ Filling' = {} /\ IsFiniteSet(Filling') /\ Cardinality(Filling') = 0
        /\ Cardinality(At("pushFill")') = 0
    <3>1. Filling' = {} /\ At("pushFill")' = {}
      BY <1>5 DEF Restart, Filling, At
    <3> QED BY <3>1, FS_EmptySet
  <2>2. /\ nextFillSeq' = 1 /\ restarts' = restarts + 1 /\ restarts < MaxRestarts /\ log' = log
    BY <1>5 DEF Restart
  <2>3. Len(log) <= MaxFills
    BY CountFacts, BoundsAssumption DEF PInv, DrawsAreCounted
  <2> QED BY <2>1, <2>2, <2>3, CountFacts, BoundsAssumption DEF HeldIsPosted, DrawsAreCounted
<1>6. ASSUME UNCHANGED vars PROVE Draws'
  BY <1>1, <1>6 DEF vars, Filling, At
<1> QED BY <1>0, <1>2, <1>3, <1>4, <1>5, <1>6 DEF Next, PInv

\* A step leaves the history alone or appends one report that is not in it: the fill
\* of a posted order with a number within the bound, in the name of the running process.
LEMMA StepReports ==
  ASSUME PInv, [Next]_vars
  PROVE  \/ UNCHANGED log
         \/ \E seq \in 1..MaxFills, i \in Intents :
              LET e == [fill |-> FillOf(seq, i), epoch |-> restarts] IN
              /\ log' = Append(log, e) /\ e.epoch \in 0..MaxRestarts
              /\ \A n \in DOMAIN log : log[n] # e
<1>1. ASSUME NEW t \in Threads, PushFill(t)
      PROVE  \E seq \in 1..MaxFills, i \in Intents :
               LET e == [fill |-> FillOf(seq, i), epoch |-> restarts] IN
               /\ log' = Append(log, e) /\ e.epoch \in 0..MaxRestarts
               /\ \A n \in DOMAIN log : log[n] # e
  <2> DEFINE i == held[t].intent
             e == [fill |-> FillOf(ticket[t], i), epoch |-> restarts]
  <2>1. t \in At("pushFill") /\ t \in Filling /\ log' = Append(log, e)
    BY <1>1 DEF PushFill, Goto, At, Filling
  <2>2. i \in Intents
    BY <2>1 DEF PInv, HeldIsPosted
  <2>3. ticket[t] \in 1..MaxFills
    <3>1. ticket[t] \in Nat /\ 1 <= ticket[t] /\ ticket[t] <= nextFillSeq - 1
      BY <2>1, CountFacts DEF PInv, WInv, IInv, TInv, TicketsAreDrawn
    <3>2. nextFillSeq - 1 <= MaxFills
      BY CountFacts, BoundsAssumption DEF PInv, DrawsAreCounted
    <3> QED BY <3>1, <3>2, CountFacts, BoundsAssumption
  <2>4. restarts \in 0..MaxRestarts
    BY CountFacts, BoundsAssumption DEF PInv, DrawsAreCounted
  <2>5. ASSUME NEW n \in DOMAIN log PROVE log[n] # e
    <3>1. log[n].epoch = restarts => log[n].fill.id # ticket[t]
      BY <2>1 DEF PInv, WInv, IInv, PushedIsUsedUp, Current
    <3> QED BY <3>1 DEF FillOf
  <2> QED BY <2>1, <2>2, <2>3, <2>4, <2>5
<1>2. ASSUME Next, \A t \in Threads : ~PushFill(t) PROVE UNCHANGED log
  BY <1>2 DEF Next, SubmitStep, Submit, CountReject, TakeSeq, CountEmitted, CountFilled,
              InsertOrder, Modify, Cancel, Restart
<1> QED BY <1>1, <1>2 DEF vars

===========================================================================
