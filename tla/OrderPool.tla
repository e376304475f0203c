----------------------------- MODULE OrderPool -----------------------------
(***************************************************************************)
(* The slab of order nodes and the price levels threaded through it: each  *)
(* level is a doubly linked FIFO of handles, and the nodes that hold no    *)
(* order form a free list over the same `next` field                       *)
(* (src/src/core/order_pool.cpp, price_level.cpp).                         *)
(***************************************************************************)
EXTENDS Integers, Sequences, FiniteSetsExt

CONSTANTS
  Levels,       \* price levels
  Quantities,   \* remaining quantities an order may rest with
  MaxNodes,     \* bound: nodes the model lets the slab grow to
  kNullHandle

ASSUME PoolAssumption ==
  /\ Quantities \subseteq Nat \ {0} /\ MaxNodes \in Nat
  /\ kNullHandle \notin Nat

VARIABLES
  nodes_,       \* handle -> remaining quantity of its order, prev and next
  free_head_,
  live_,
  high_water_mark_,
  level,        \* each level's head_, tail_, total_quantity_, order_count_
  fifo,         \* history: each level's handles, oldest first
  freed         \* history: the released handles, latest first

poolVars == <<nodes_, free_head_, live_, high_water_mark_, level, fifo, freed>>

Handles == DOMAIN nodes_

EmptyLevel == [head_ |-> kNullHandle, tail_ |-> kNullHandle,
               total_quantity_ |-> 0, order_count_ |-> 0]

PoolInit ==
  /\ nodes_ = [h \in {} |-> EmptyLevel]
  /\ free_head_ = kNullHandle /\ live_ = 0 /\ high_water_mark_ = 0
  /\ level = [l \in Levels |-> EmptyLevel]
  /\ fifo = [l \in Levels |-> << >>] /\ freed = << >>

-----------------------------------------------------------------------------
\* acquire(): the handle it hands out, from the free list or a new node.
Acquired == IF free_head_ # kNullHandle THEN free_head_ ELSE Cardinality(Handles)

\* push_back(), on the nodes: the new node behind the level's tail.
Linked(l, h, qty) ==
  LET tail == level[l].tail_
  IN  [i \in Handles \cup {h} |->
         IF i = h THEN [remaining |-> qty, prev |-> tail, next |-> kNullHandle]
         ELSE IF i = tail THEN [nodes_[i] EXCEPT !.next = h]
         ELSE nodes_[i]]

\* OrderBook::rest: acquire a node and push it to the back of a level.
rest(l, qty) ==
  LET h == Acquired
  IN  /\ h < MaxNodes
      /\ nodes_' = Linked(l, h, qty)
      /\ free_head_' = IF h \in Handles THEN nodes_[h].next ELSE kNullHandle
      /\ freed' = IF h \in Handles THEN Tail(freed) ELSE freed
      /\ live_' = live_ + 1
      /\ high_water_mark_' = Max({high_water_mark_, live_ + 1})
      /\ level' = [level EXCEPT
                     ![l].head_ = IF @ = kNullHandle THEN h ELSE @,
                     ![l].tail_ = h,
                     ![l].total_quantity_ = @ + qty,
                     ![l].order_count_ = @ + 1]
      /\ fifo' = [fifo EXCEPT ![l] = Append(@, h)]

Unlinked_forward(h) ==
  [i \in Handles |->
     IF i = h THEN [nodes_[i] EXCEPT !.prev = kNullHandle, !.next = free_head_]
     ELSE IF i = nodes_[h].prev THEN [nodes_[i] EXCEPT !.next = nodes_[h].next]
     ELSE nodes_[i]]

Unlinked_unlisted(h) ==
  [i \in Handles |->
     IF i = h THEN [nodes_[i] EXCEPT !.prev = kNullHandle, !.next = kNullHandle]
     ELSE IF i = nodes_[h].prev THEN [nodes_[i] EXCEPT !.next = nodes_[h].next]
     ELSE IF i = nodes_[h].next THEN [nodes_[i] EXCEPT !.prev = nodes_[h].prev]
     ELSE nodes_[i]]

\* unlink(), on the nodes, and release(): the neighbours are joined and the
\* node goes to the front of the free list.
Unlinked(h) ==
  [i \in Handles |->
     IF i = h THEN [nodes_[i] EXCEPT !.prev = kNullHandle, !.next = free_head_]
     ELSE IF i = nodes_[h].prev THEN [nodes_[i] EXCEPT !.next = nodes_[h].next]
     ELSE IF i = nodes_[h].next THEN [nodes_[i] EXCEPT !.prev = nodes_[h].prev]
     ELSE nodes_[i]]

At(l, h) == \E i \in 1 .. Len(fifo[l]) : fifo[l][i] = h

\* drop_resting() and cancel(): unlink the node, wherever it is in its level,
\* and release it.  A level left empty is erased, which resets it.
drop_resting(l, h) ==
  LET node == nodes_[h]
  IN  /\ At(l, h)
      /\ nodes_' = Unlinked(h)
      /\ free_head_' = h /\ freed' = <<h>> \o freed
      /\ live_' = live_ - 1
      /\ level' = [level EXCEPT
                     ![l].head_ = IF node.prev = kNullHandle THEN node.next ELSE @,
                     ![l].tail_ = IF node.next = kNullHandle THEN node.prev ELSE @,
                     ![l].total_quantity_ = @ - node.remaining,
                     ![l].order_count_ = @ - 1]
      /\ fifo' = [fifo EXCEPT ![l] = SelectSeq(@, LAMBDA i : i # h)]
      /\ UNCHANGED high_water_mark_

\* A partial fill or a smaller amendment: the order shrinks, and reduce() on
\* its level.  Reducing an order to nothing drops it, which is drop_resting()
\* above: the two subtractions add up to its remaining quantity.
reduce(l, h, qty) ==
  /\ At(l, h) /\ qty < nodes_[h].remaining
  /\ nodes_' = [nodes_ EXCEPT ![h].remaining = @ - qty]
  /\ level' = [level EXCEPT ![l].total_quantity_ = @ - qty]
  /\ UNCHANGED <<free_head_, live_, high_water_mark_, fifo, freed>>

-----------------------------------------------------------------------------
(* Properties.                                                             *)

\* The i-th of a chain of handles, and the null handle off either end.
Nth(chain, i) == IF i \in 1 .. Len(chain) THEN chain[i] ELSE kNullHandle

\* A level's links spell out exactly its queue, oldest first, in both
\* directions, however orders joined and left it, and its incremental totals
\* are those of the queue.  The assertions of unlink() about head_ and tail_
\* are instances.
LinksSpellTheQueue ==
  \A l \in Levels :
    /\ level[l].head_ = Nth(fifo[l], 1)
    /\ level[l].tail_ = Nth(fifo[l], Len(fifo[l]))
    /\ \A i \in 1 .. Len(fifo[l]) : /\ nodes_[fifo[l][i]].next = Nth(fifo[l], i + 1)
                                    /\ nodes_[fifo[l][i]].prev = Nth(fifo[l], i - 1)
    /\ level[l].order_count_ = Len(fifo[l])
    /\ level[l].total_quantity_ =
         MapThenSumSet(LAMBDA i : nodes_[fifo[l][i]].remaining, 1 .. Len(fifo[l]))

\* The free list holds the released nodes and nothing else: no node is in it
\* and in a level, none is lost, so live_ is what the levels hold.
SlabIsPartitioned ==
  /\ free_head_ = Nth(freed, 1)
  /\ \A i \in 1 .. Len(freed) : nodes_[freed[i]].next = Nth(freed, i + 1)
  /\ live_ + Len(freed) = Cardinality(Handles)
  /\ \A h \in Handles :
       Cardinality({l \in Levels : At(l, h)})
         + Cardinality({i \in 1 .. Len(freed) : freed[i] = h}) = 1

=============================================================================
