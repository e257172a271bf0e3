----------------------------- MODULE QuoteRing ----------------------------
(***************************************************************************)
(* One shard of the quote buffer of S1: mdg.ring_buffer.RingBuffer, with   *)
(* the poll loop as its producer (write) and HTTP threads as its consumers *)
(* (GET /quotes/{symbol} calls drain).                                     *)
(*                                                                         *)
(* The lock guards the tail only.  The producer stores the item and        *)
(* publishes the head after the lock; a consumer reserves a slot under the *)
(* lock and reads and clears it after.  Each of these is a step.  Items    *)
(* are numbered in the order they are written; 0 is an empty slot.         *)
(***************************************************************************)
EXTENDS Integers, FiniteSets

CONSTANTS
  Capacity,   \* a power of two
  Consumers,  \* threads that drain
  MaxItems,   \* the limit of a drain
  MaxWrites   \* bound: items written

IsPowerOfTwo(n) == \E k \in 0..n : n = 2^k

ASSUME RingAssumption ==
  /\ Capacity \in Nat /\ IsPowerOfTwo(Capacity)
  /\ MaxItems \in Nat \ {0} /\ MaxWrites \in Nat

VARIABLES
  items,      \* slot -> item
  head, tail, \* next slot to write, oldest unread slot
  written,    \* _total_written: items published
  dropped,    \* _dropped: overflow counter
  producer,   \* where write is: "idle", "store", "publish"
  drains,     \* consumer -> where its drain is
  delivered,  \* history: what drains have handed out
  overflowed, \* history: the items dropped to make room
  lapped      \* history: a slot was written while a consumer held it

ringVars == <<items, head, tail, written, dropped, producer, drains, delivered, overflowed, lapped>>

Slots == 0..(Capacity - 1)

After(slot) == (slot + 1) % Capacity

\* A drain: the slot it holds, the item it took from it, and how many it has.
Idle == [at |-> "idle", slot |-> 0, item |-> 0, count |-> 0]

Holds(c, slot) == drains[c].at \in {"read", "clear"} /\ drains[c].slot = slot

RingInit ==
  /\ items = [s \in Slots |-> 0]
  /\ head = 0 /\ tail = 0
  /\ written = 0 /\ dropped = 0
  /\ producer = "idle"
  /\ drains = [c \in Consumers |-> Idle]
  /\ delivered = {} /\ overflowed = {} /\ lapped = FALSE

\* Mutant: the slot of the dropped item is cleared and the tail left where it is.
MakeRoom_KeepsTail ==
  /\ producer = "idle" /\ written < MaxWrites
  /\ producer' = "store"
  /\ IF After(head) = tail
     THEN /\ items' = [items EXCEPT ![tail] = 0]
          /\ overflowed' = overflowed \cup ({items[tail]} \ {0})
          /\ dropped' = dropped + 1
     ELSE UNCHANGED <<items, overflowed, dropped>>
  /\ UNCHANGED <<head, tail, written, drains, delivered, lapped>>

\* write, under the lock: a full buffer loses its oldest item.
MakeRoom ==
  /\ producer = "idle" /\ written < MaxWrites
  /\ producer' = "store"
  /\ IF After(head) = tail
     THEN /\ items' = [items EXCEPT ![tail] = 0]
          /\ overflowed' = overflowed \cup ({items[tail]} \ {0})
          /\ tail' = After(tail)
          /\ dropped' = dropped + 1
     ELSE UNCHANGED <<items, overflowed, tail, dropped>>
  /\ UNCHANGED <<head, written, drains, delivered, lapped>>

Store ==
  /\ producer = "store"
  /\ items' = [items EXCEPT ![head] = written + 1]
  /\ lapped' = (lapped \/ \E c \in Consumers : Holds(c, head))
  /\ producer' = "publish"
  /\ UNCHANGED <<head, tail, written, dropped, drains, delivered, overflowed>>

Publish ==
  /\ producer = "publish"
  /\ head' = After(head)
  /\ written' = written + 1
  /\ producer' = "idle"
  /\ UNCHANGED <<items, tail, dropped, drains, delivered, overflowed, lapped>>

Write == MakeRoom \/ Store \/ Publish

\* Mutant: the lock is released before the tail is moved past the slot.
Reserve_SharesTheSlot(c) ==
  /\ drains[c].at = "idle" /\ tail # head
  /\ drains' = [drains EXCEPT ![c].at = "read", ![c].slot = tail]
  /\ tail' = IF \E d \in Consumers \ {c} : Holds(d, tail) THEN tail ELSE After(tail)
  /\ UNCHANGED <<items, head, written, dropped, producer, delivered, overflowed, lapped>>

\* drain, under the lock: the oldest unread slot is taken.
Reserve(c) ==
  /\ drains[c].at = "idle" /\ tail # head
  /\ drains' = [drains EXCEPT ![c].at = "read", ![c].slot = tail]
  /\ tail' = After(tail)
  /\ UNCHANGED <<items, head, written, dropped, producer, delivered, overflowed, lapped>>

Read(c) ==
  /\ drains[c].at = "read"
  /\ drains' = [drains EXCEPT ![c].at = "clear", ![c].item = items[drains[c].slot]]
  /\ UNCHANGED <<items, head, tail, written, dropped, producer, delivered, overflowed, lapped>>

\* The slot is emptied whatever is in it by now; a slot found empty is skipped.
Clear(c) ==
  LET d == drains[c] IN
  /\ d.at = "clear"
  /\ items' = [items EXCEPT ![d.slot] = 0]
  /\ delivered' = delivered \cup ({d.item} \ {0})
  /\ drains' = [drains EXCEPT ![c] =
       IF d.item # 0 /\ d.count + 1 = MaxItems THEN Idle
       ELSE [Idle EXCEPT !.count = IF d.item = 0 THEN d.count ELSE d.count + 1]]
  /\ UNCHANGED <<head, tail, written, dropped, producer, overflowed, lapped>>

\* drain returns when there is nothing left to take.
Return(c) ==
  /\ drains[c].at = "idle" /\ drains[c].count > 0 /\ tail = head
  /\ drains' = [drains EXCEPT ![c] = Idle]
  /\ UNCHANGED <<items, head, tail, written, dropped, producer, delivered, overflowed, lapped>>

Drain(c) == Reserve(c) \/ Read(c) \/ Clear(c) \/ Return(c)

RingNext == Write \/ \E c \in Consumers : Drain(c)

RingSpec == RingInit /\ [][RingNext]_ringVars

---------------------------------------------------------------------------
\* The slots between the tail and the head, as consumers see them.
Readable == {items[(tail + k) % Capacity] : k \in 0..(((head - tail) % Capacity) - 1)}

\* What a consumer has reserved and not handed out yet.
InFlight == {IF drains[c].at = "read" THEN items[drains[c].slot] ELSE drains[c].item :
               c \in {d \in Consumers : drains[d].at \in {"read", "clear"}}}

\* "The dropped count is exposed for backpressure metrics" (ring_buffer.py:17): every item
\* published is still readable, being handed out, handed out once, or counted as dropped,
\* and nothing is in two of these places, as long as the producer has not come round to a
\* slot a consumer was still emptying (ring_buffer.py:60-61 against 85-86).
NothingLostUncounted ==
  ~lapped =>
    /\ dropped = Cardinality(overflowed)
    /\ 1..written = Readable \cup InFlight \cup delivered \cup overflowed
    /\ written = Cardinality(Readable) + Cardinality(InFlight) + Cardinality(delivered)
                   + Cardinality(overflowed)

===========================================================================
