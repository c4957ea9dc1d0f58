------------------------------- MODULE BidAsk -------------------------------
(***************************************************************************)
(* One market of the matching engine: BidAsk (bid_ask.hpp) over two        *)
(* OrderBooks (order_book.hpp) of PriceLevels (price_level.hpp).  One      *)
(* pinned thread runs it; it takes one order at a time, sweeps the         *)
(* opposite book level by level and maker by maker, and rests or cancels   *)
(* what is left.  A step is one call of executeOrder or CancelOrder, one   *)
(* turn of the outer (level) loop, or one turn of the inner (maker) loop,  *)
(* with every report and book update it pushes.                            *)
(*                                                                         *)
(* A level is the sequence of the ids of its resting orders; the price map *)
(* and the skip list of an OrderBook hold exactly the non-empty levels.    *)
(* Orders carry the id the gateway gave them, unique and increasing.       *)
(***************************************************************************)
EXTENDS Integers, Sequences, FiniteSets, Functions

CONSTANTS
    Prices,         \* the prices orders carry
    IntMin, IntMax, \* INT64_MIN and INT64_MAX: no best price known yet
    Clients,
    Inputs,         \* the orders clients send, without their id
    MaxOrders,      \* bound: how many orders are executed
    NodePoolSize,   \* MeOrderNodePoolSize
    LevelPoolSize,  \* MePriceLevelPoolSize
    U32,            \* 2^32: the width of Depth and of a traded amount
    RightSide       \* TRUE: a cancel names the side its order rests on

Sides == {"BUY", "SELL"}
Types == {"LIMIT", "MARKET"}
Ids == 1..MaxOrders

Request == [client : Clients, side : Sides, type : Types, price : Prices, amount : Nat]
Order == [id : Ids, client : Clients, side : Sides, type : Types, price : Prices, amount : Nat]
NoOrder == [id |-> 0, amount |-> 0]

ASSUME PriceAssumption ==
    /\ IntMin \in Int /\ IntMax \in Int
    /\ Prices \subseteq IntMin..IntMax
ASSUME InputAssumption == Inputs \subseteq Request
ASSUME BoundAssumption == MaxOrders \in Nat /\ U32 \in Nat \ {0}

VARIABLES
    book,       \* Bid and Ask: side -> price -> ids of the level, oldest first
    total,      \* TotalAmount of each level, a uint64
    node,       \* what the OrderNode of each resting order holds
    orderMap,   \* OrderMap: the ids a cancel can find
    unlinked,   \* ids whose node went back to the pool while still in a level
    best,       \* BestBidPrice and BestAskPrice, the cached best prices
    pc,         \* idle, sweep (outer loop), match (inner loop) or halted
    taker,      \* the order being executed, or the last one executed
    level,      \* the price of bestLevel while in the inner loop
    totalLocked,
    nextId,     \* the id of the next order
    lost,       \* orders thrown away because the node pool was empty
    reports,    \* the OrderStateReports pushed by the last step
    updates     \* the OrderBookUpdates pushed by the last step

bookVars == <<book, total, node, orderMap>>
vars == <<bookVars, unlinked, best, pc, taker, level, totalLocked, nextId, lost,
          reports, updates>>

Opp(side) == IF side = "BUY" THEN "SELL" ELSE "BUY"

\* Price p is strictly better than q for a resting order of this side.
Better(side, p, q) == IF side = "BUY" THEN p > q ELSE p < q

Levels(side) == {p \in Prices : book[side][p] # <<>>}

\* Mutant: one comparator for both books (std::less).
IsBestLevelLess(side, p) == p \in Levels(side) /\ \A q \in Levels(side) : p <= q

\* BestPricesMap.GetHead
IsBestLevel(side, p) ==
    p \in Levels(side) /\ \A q \in Levels(side) : ~Better(side, q, p)

Resting == {i \in Ids : \E s \in Sides : \E p \in Prices : i \in Range(book[s][p])}

Init ==
    /\ book = [s \in Sides |-> [p \in Prices |-> <<>>]]
    /\ total = [s \in Sides |-> [p \in Prices |-> 0]]
    /\ node = [i \in Ids |-> NoOrder] /\ orderMap = {} /\ unlinked = {}
    /\ best = [s \in Sides |-> IF s = "BUY" THEN IntMin ELSE IntMax]
    /\ pc = "idle" /\ taker = NoOrder /\ level = 0 /\ totalLocked = 0
    /\ nextId = 1 /\ lost = {}
    /\ reports = <<>> /\ updates = <<>>

-----------------------------------------------------------------------------
(* Reports and updates *)

\* FillReport; a buy moves the traded asset in and cash (asset 0) out, a sell
\* the other way round.
Report(order, bought, sold, attempt, state) ==
    [client |-> order.client, id |-> order.id, side |-> order.side,
     bought |-> bought, sold |-> sold, attempt |-> attempt, state |-> state]

FillState(left) == IF left > 0 THEN "PARTIAL_FILL" ELSE "FILL"

\* Mutants: the seller is credited the quantity; the reservation of the asset is
\* released in cash.
SellLegUnpriced(order, t, p, left) == Report(order, t, -t, -t, FillState(left))
SellLegCash(order, t, p, left) == Report(order, t * p, -t, -(t * p), FillState(left))

\* The leg of a buyer and of a seller who trade t at price p.
BuyLeg(order, t, p, left) == Report(order, t, -(t * p), -(t * p), FillState(left))
SellLeg(order, t, p, left) == Report(order, t * p, -t, -t, FillState(left))

\* FillBuyOrder and FillSellOrder push the taker's leg first.
Legs(maker, t, p, takerLeft, makerLeft) ==
    IF taker.side = "BUY"
      THEN <<BuyLeg(taker, t, p, takerLeft), SellLeg(maker, t, p, makerLeft)>>
      ELSE <<SellLeg(taker, t, p, takerLeft), BuyLeg(maker, t, p, makerLeft)>>

\* What an order of this size reserves: cash for a buy, the asset for a sell.
Reserve(order) == IF order.side = "BUY" THEN order.amount * order.price ELSE order.amount

\* FillUpdate narrows the level's uint64 total to the uint32 Depth.
Update(side, p, levelTotal) == [side |-> side, price |-> p, depth |-> levelTotal % U32]

-----------------------------------------------------------------------------
(* OrderBook *)

\* TotalAmount += delta on a uint64.
AddTotal(side, p, delta) == (total[side][p] + delta) % (U32 * U32)

\* Mutant: the sign is lost.
TradedNotNegated(t) == t

\* IncTotalAmount(-tradedAmount): the uint32 is negated before it is widened.
NegatedTraded(t) == (U32 - t) % U32

\* PriceLevel::DeleteOrder on the list: the neighbours are linked to each other.
Unlink(ids, id) ==
    LET at == CHOOSE i \in DOMAIN ids : ids[i] = id
    IN  [i \in 1..Len(ids) - 1 |-> IF i < at THEN ids[i] ELSE ids[i + 1]]

\* Mutant: OrderMap.DeleteNode is forgotten.
DeleteOrderKeepsId(order, levelTotal) ==
    LET s == order.side
        p == order.price
        left == Unlink(book[s][p], order.id)
    IN  /\ book' = [book EXCEPT ![s][p] = left]
        /\ total' = [total EXCEPT ![s][p] = IF left = <<>> THEN 0 ELSE levelTotal]
        /\ node' = [node EXCEPT ![order.id] = NoOrder]
        /\ UNCHANGED orderMap

\* OrderBook::DeleteOrder of a resting order: the map, the list and the total
\* forget it, its node goes back to the pool, and an empty level leaves the book
\* (ClearPriceLevel resets it when it is reused).
DeleteOrder(order, levelTotal) ==
    LET s == order.side
        p == order.price
        left == Unlink(book[s][p], order.id)
    IN  /\ book' = [book EXCEPT ![s][p] = left]
        /\ total' = [total EXCEPT ![s][p] = IF left = <<>> THEN 0 ELSE levelTotal]
        /\ orderMap' = orderMap \ {order.id}
        /\ node' = [node EXCEPT ![order.id] = NoOrder]

NodesLeft == Cardinality(Resting) < NodePoolSize
LevelsLeft == Cardinality(Levels("BUY")) + Cardinality(Levels("SELL")) < LevelPoolSize

\* Mutant: the cached price is not improved.
NewBestForgotten(cached, side, p) == cached

\* BestBidPrice = max(BestBidPrice, Price), BestAskPrice = min(BestAskPrice, Price)
NewBest(cached, side, p) ==
    [cached EXCEPT ![side] = IF Better(side, p, @) THEN p ELSE @]

\* AddBuyLimitOrder and AddSellLimitOrder, which end executeOrder: an empty node
\* pool drops the order without a report, an empty level pool terminates the
\* process (nothing it holds matters any more).
\* cached is the pair of best prices the caller leaves behind.
AddLimitOrder(order, cached) ==
    LET s == order.side
        p == order.price
        isNew == book[s][p] = <<>>
    IN  \/ /\ ~NodesLeft
           /\ lost' = lost \cup {order.id}
           /\ pc' = "idle" /\ best' = cached
           /\ reports' = <<>> /\ updates' = <<>>
           /\ UNCHANGED bookVars
        \/ /\ NodesLeft /\ isNew /\ ~LevelsLeft
           /\ pc' = "halted" /\ best' = cached
           /\ reports' = <<>> /\ updates' = <<>>
           /\ UNCHANGED <<bookVars, lost>>
        \/ /\ NodesLeft /\ (isNew => LevelsLeft)
           /\ best' = NewBest(cached, s, p)
           /\ node' = [node EXCEPT ![order.id] = order]
           /\ orderMap' = orderMap \cup {order.id}
           /\ book' = [book EXCEPT ![s][p] = Append(@, order.id)]
           /\ total' = [total EXCEPT ![s][p] = IF isNew THEN order.amount
                                               ELSE AddTotal(s, p, order.amount)]
           /\ reports' = <<Report(order, 0, 0, Reserve(order), "ADD")>>
           /\ updates' = <<Update(s, p, total'[s][p])>>
           /\ pc' = "idle"
           /\ UNCHANGED lost

-----------------------------------------------------------------------------
(* executeOrder *)

\* Price p of the opposite book is within the order's limit.
Within(order, p) == IF order.side = "BUY" THEN p <= order.price ELSE p >= order.price

\* Mutant: an order at the best price is not marketable.
IsMarketableStrict(order) ==
    order.type = "MARKET" \/ Better(order.side, order.price, best[Opp(order.side)])

\* A limit order is compared with the cached opposite price, not with the book.
IsMarketable(order) == order.type = "MARKET" \/ Within(order, best[Opp(order.side)])

WithId(input, id) ==
    [id |-> id, client |-> input.client, side |-> input.side, type |-> input.type,
     price |-> input.price, amount |-> input.amount]

executeOrder(input) ==
    LET order == WithId(input, nextId)
    IN  /\ pc = "idle" /\ nextId <= MaxOrders
        /\ nextId' = nextId + 1
        /\ taker' = order
        /\ \/ /\ IsMarketable(order)
              /\ pc' = "sweep" /\ totalLocked' = Reserve(order)
              /\ reports' = <<>> /\ updates' = <<>>
              /\ UNCHANGED <<bookVars, best, lost>>
           \/ /\ ~IsMarketable(order)
              /\ AddLimitOrder(order, best)
              /\ UNCHANGED totalLocked
        /\ UNCHANGED <<unlinked, level>>


\* The outer loop finds a level the order may trade with.  The test of the
\* level's price against order.Price is made for market orders too.
EnterLevel(p) ==
    /\ pc = "sweep" /\ taker.amount > 0 /\ IsMarketable(taker)
    /\ IsBestLevel(Opp(taker.side), p)
    /\ Within(taker, p)
    /\ best' = [best EXCEPT ![Opp(taker.side)] = p]
    /\ level' = p /\ pc' = "match"
    /\ reports' = <<>> /\ updates' = <<>>
    /\ UNCHANGED <<bookVars, unlinked, taker, totalLocked, nextId, lost>>

\* Mutant: an unfilled market order ends without a report.
RemainderSilent(cached) ==
    \/ /\ taker.amount = 0 \/ taker.type = "MARKET"
       /\ pc' = "idle" /\ best' = cached
       /\ reports' = <<>> /\ updates' = <<>>
       /\ UNCHANGED <<bookVars, lost>>
    \/ /\ taker.amount > 0 /\ taker.type = "LIMIT"
       /\ AddLimitOrder(taker, cached)

\* What follows the outer loop: an unfilled limit order rests, an unfilled
\* market order is cancelled and what is left of its reservation released.
Remainder(cached) ==
    \/ /\ taker.amount = 0
       /\ pc' = "idle" /\ best' = cached
       /\ reports' = <<>> /\ updates' = <<>>
       /\ UNCHANGED <<bookVars, lost>>
    \/ /\ taker.amount > 0 /\ taker.type = "LIMIT"
       /\ AddLimitOrder(taker, cached)
    \/ /\ taker.amount > 0 /\ taker.type = "MARKET"
       /\ pc' = "idle" /\ best' = cached
       /\ reports' = <<Report(taker, 0, 0, -totalLocked, "CANCEL")>>
       /\ updates' = <<>>
       /\ UNCHANGED <<bookVars, lost>>

\* The outer loop ends: filled, no longer marketable, no level left, or the
\* best level is beyond the order's price (then it is cached first).
LeaveLoop ==
    /\ pc = "sweep"
    /\ LET opp == Opp(taker.side)
       IN  \/ /\ taker.amount = 0 \/ ~IsMarketable(taker) \/ Levels(opp) = {}
              /\ Remainder(best)
           \/ /\ taker.amount > 0 /\ IsMarketable(taker)
              /\ \E p \in Prices :
                   /\ IsBestLevel(opp, p) /\ ~Within(taker, p)
                   /\ Remainder([best EXCEPT ![opp] = p])
    /\ taker' = NoOrder /\ level' = 0 /\ totalLocked' = 0
    /\ UNCHANGED <<unlinked, nextId>>

\* Mutant: the maker's amount is traded whatever the taker still wants.
TradedAmountOfMaker(orderAmount, offerAmount) == offerAmount

TradedAmount(orderAmount, offerAmount) ==
    IF orderAmount < offerAmount THEN orderAmount ELSE offerAmount

\* One turn of the inner loop: the taker trades with the oldest order of the
\* level at its price; a maker with nothing left is deleted.
Match ==
    LET opp == Opp(taker.side)
        id == Head(book[opp][level])
        maker == node[id]
        t == TradedAmount(taker.amount, maker.amount)
        takerLeft == taker.amount - t
        makerLeft == maker.amount - t
        levelTotal == AddTotal(opp, level, NegatedTraded(t))
    IN  /\ pc = "match"
        /\ taker' = [taker EXCEPT !.amount = takerLeft]
        /\ totalLocked' = totalLocked - IF taker.side = "BUY" THEN t * level ELSE t
        /\ reports' = Legs(maker, t, level, takerLeft, makerLeft)
        /\ updates' = <<Update(opp, level, levelTotal)>>
        /\ \/ makerLeft = 0 /\ DeleteOrder(maker, levelTotal)
           \/ /\ makerLeft > 0
              /\ node' = [node EXCEPT ![id].amount = makerLeft]
              /\ total' = [total EXCEPT ![opp][level] = levelTotal]
              /\ UNCHANGED <<book, orderMap>>
        /\ pc' = IF takerLeft > 0 /\ IsMarketable(taker) /\ book'[opp][level] # <<>>
                   THEN "match" ELSE "sweep"
        /\ UNCHANGED <<unlinked, best, level, nextId, lost>>

-----------------------------------------------------------------------------
(* CancelOrder *)

CanCancel(client, id) == id \in orderMap /\ node[id].client = client

\* The report of a cancel names the side of the request.
CancelReport(order, side) ==
    Report([order EXCEPT !.side = side], 0, 0,
           IF side = "BUY" THEN order.amount * order.price ELSE order.amount, "CANCEL")

RejectCancel(client, id) ==
    /\ pc = "idle" /\ ~CanCancel(client, id)
    /\ reports' = <<[client |-> client, id |-> 0, side |-> "none",
                     bought |-> 0, sold |-> 0, attempt |-> 0, state |-> "REJECT"]>>
    /\ updates' = <<>>
    /\ UNCHANGED <<bookVars, unlinked, best, pc, taker, level, totalLocked, nextId, lost>>


CancelOrder(client, id) ==
    LET order == node[id]
        s == order.side
        p == order.price
    IN  /\ pc = "idle" /\ CanCancel(client, id)
        /\ reports' = <<CancelReport(order, s)>>
        /\ DeleteOrder(order, AddTotal(s, p, (U32 * U32) - order.amount))
        /\ updates' = <<Update(s, p, total'[s][p])>>
        /\ UNCHANGED <<unlinked, best, pc, taker, level, totalLocked, nextId, lost>>

\* The request names the other side.  OrderMap is shared, so the order is found;
\* the other book has no level at its price, so its node goes back to the pool
\* and stays linked where it rests.  The program is not followed any further.
CancelOtherSide(client, id) ==
    LET order == node[id]
        s == Opp(order.side)
    IN  /\ pc = "idle" /\ ~RightSide /\ CanCancel(client, id)
        /\ order.price \notin Levels(s)
        /\ reports' = <<CancelReport(order, s)>>
        /\ orderMap' = orderMap \ {id}
        /\ unlinked' = unlinked \cup {id}
        /\ updates' = <<Update(s, order.price, 0)>>
        /\ pc' = "halted"
        /\ UNCHANGED <<book, total, node, best, taker, level, totalLocked, nextId, lost>>

-----------------------------------------------------------------------------
Next ==
    \/ \E input \in Inputs : executeOrder(input)
    \/ \E p \in Prices : EnterLevel(p)
    \/ LeaveLoop
    \/ Match
    \/ \E client \in Clients, id \in Ids :
         \/ RejectCancel(client, id)
         \/ CancelOrder(client, id)
         \/ CancelOtherSide(client, id)

Spec == Init /\ [][Next]_vars

-----------------------------------------------------------------------------
(* Properties *)

\* Every variable holds a value of its type.
TypeOK ==
    /\ book \in [Sides -> [Prices -> Seq(Ids)]]
    /\ total \in [Sides -> [Prices -> Nat]]
    /\ node \in [Ids -> Order \cup {NoOrder}]
    /\ orderMap \subseteq Ids /\ unlinked \subseteq Ids /\ lost \subseteq Ids
    /\ best \in [Sides -> Int]
    /\ pc \in {"idle", "sweep", "match", "halted"}
    /\ taker \in Order \cup {NoOrder}
    /\ pc \in {"sweep", "match"} => taker \in Order
    /\ level \in Prices \cup {0} /\ totalLocked \in Int
    /\ nextId \in Nat \ {0}

\* The cached best prices are bounds: no resting ask is below BestAskPrice and no
\* resting bid above BestBidPrice.  They may be stale (a cancel or a sweep that
\* empties a level does not move them), but only in the direction that makes
\* IsMarketable look into the book.
CachedBestIsBound ==
    \A s \in Sides : \A p \in Levels(s) : ~Better(s, p, best[s])

\* The book is never crossed or locked: every bid is below every ask, also
\* between the steps of a sweep.
Uncrossed == \A b \in Levels("BUY"), a \in Levels("SELL") : b < a

\* A cancel finds exactly the resting orders, each of which is in the level of
\* its node's side and price; within a level the orders are in arrival order.
OrderMapExact ==
    /\ unlinked = {} => orderMap = Resting
    /\ \A s \in Sides, p \in Prices : \A i \in DOMAIN book[s][p] :
         /\ node[book[s][p][i]].side = s /\ node[book[s][p][i]].price = p
         /\ \A j \in DOMAIN book[s][p] : i < j => book[s][p][i] < book[s][p][j]

\* Price-time priority: a resting order that trades has the best price of its
\* side and came before every other order at that price.
PriceTimePriority ==
    [][\A i \in orderMap :
         (pc = "match" /\ node'[i] # node[i])
           => \A j \in orderMap \ {i} :
                node[j].side = node[i].side
                  => \/ Better(node[i].side, node[i].price, node[j].price)
                     \/ node[i].price = node[j].price /\ i < j]_vars

\* Nobody trades through a limit: in every fill the buyer pays at most the price
\* of its order, the seller gets at least the price of its own.
LimitOf(id) == IF id = taker.id THEN taker.price ELSE node[id].price

\* PROTOCOL.md: SoldAttemptDelta is "Positive on ADD (reserve), negative on fills
\* and cancels (release)".
CancelReleases ==
    \A k \in DOMAIN reports : reports[k].state = "CANCEL" => reports[k].attempt <= 0

\* PROTOCOL.md: a CANCEL report means "Remainder removed".
CancelRemoves ==
    \A k \in DOMAIN reports : reports[k].state = "CANCEL" => reports[k].id \notin Resting

\* PROTOCOL.md: the price is "Ignored for matching on MARKET sells", so one that
\* ends with a quantity left has emptied the bid book.
MarketSellIgnoresPrice ==
    [][pc = "sweep" /\ pc' = "idle" /\ taker.type = "MARKET" /\ taker.side = "SELL"
         => taker.amount = 0 \/ Levels("BUY") = {}]_vars
=============================================================================
