---------------------------- MODULE EngineFeeds ----------------------------
(***************************************************************************)
(* The engine of BidAsk together with the readers of its two multicast     *)
(* feeds, who see only the reports and the book updates: a market-data     *)
(* client that rebuilds the book, a trader who tracks the live quantity of *)
(* each order, and the gateway, which reserves funds when it accepts an    *)
(* order (order_risk_check.hpp) and moves the reservation by the attempt   *)
(* delta of every report but ADD (client_states_writer.hpp).  Delivery is  *)
(* lossless and immediate here; the emitters and receivers are separate    *)
(* components.                                                             *)
(***************************************************************************)
EXTENDS BidAsk, SequencesExt

VARIABLES
    feed,       \* the book rebuilt from the updates: book[Side][Price] = Depth
    open,       \* the quantity each order's owner believes is live
    reserved    \* the gateway's net reservation for each order

feedVars == <<feed, open, reserved>>
allVars == <<vars, feedVars>>

FeedInit ==
    /\ Init
    /\ feed = [s \in Sides |-> [p \in Prices |-> 0]]
    /\ open = [i \in Ids |-> 0] /\ reserved = [i \in Ids |-> 0]

\* The order the gateway accepted and sent, if this step executes a new one.
Accepted == IF nextId' # nextId THEN taker' ELSE NoOrder

Traded(r) == IF r.side = "BUY" THEN r.bought ELSE -r.sold

ApplyUpdate(f, u) == [f EXCEPT ![u.side][u.price] = u.depth]

ApplyToOpen(f, r) ==
    [f EXCEPT ![r.id] = IF r.state = "CANCEL" THEN 0 ELSE @ - Traded(r)]

\* Handle(OrderStateReport *): the attempt delta of an ADD counts as 0.
ApplyToReserved(f, r) ==
    [f EXCEPT ![r.id] = @ + IF r.state = "ADD" THEN 0 ELSE r.attempt]

Readers ==
    LET known == SelectSeq(reports', LAMBDA r : r.state # "REJECT")
        a == Accepted
    IN  /\ feed' = FoldLeft(ApplyUpdate, feed, updates')
        /\ open' = FoldLeft(ApplyToOpen,
                            IF a = NoOrder THEN open ELSE [open EXCEPT ![a.id] = a.amount],
                            known)
        /\ reserved' = FoldLeft(ApplyToReserved,
                            IF a = NoOrder THEN reserved
                                           ELSE [reserved EXCEPT ![a.id] = Reserve(a)],
                            known)

FeedNext == Next /\ Readers

FeedSpec == FeedInit /\ [][FeedNext]_allVars

-----------------------------------------------------------------------------
(* Properties *)

Amounts(s, p) == [i \in DOMAIN book[s][p] |-> node[book[s][p][i]].amount]
Depth(s, p) == FoldLeft(LAMBDA x, y : x + y, 0, Amounts(s, p))

\* TotalAmount agrees with the resting amounts modulo 2^32 in every state: the
\* 64-bit total itself does not (each trade adds 2^32 to it), so every use of it
\* must narrow it, as FillUpdate does.
TotalsAgree ==
    \A s \in Sides : \A p \in Levels(s) : total[s][p] % U32 = Depth(s, p) % U32

\* The updates alone rebuild the book: each level of the feed shows the
\* quantity that rests there, and levels that are gone show none.
FeedRebuildsBook ==
    \A s \in Sides, p \in Prices : feed[s][p] = Depth(s, p)

\* The reports alone tell each owner what is live: between orders, the open
\* quantity is what rests in the book, or nothing; the exception is an order
\* the engine dropped without a report because its node pool was empty.
ReportsTellOpen ==
    pc # "halted" => \A i \in Ids \ lost :
        open[i] = IF i \in Resting THEN node[i].amount
                  ELSE IF i = taker.id /\ pc \in {"sweep", "match"} THEN taker.amount ELSE 0

\* Every fill is two-sided: over the reports of a step, what buyers receive
\* sellers give, in the asset and in cash.
Sum(f(_), seq) == FoldLeft(LAMBDA x, r : x + f(r), 0, seq)
Asset(r) == IF r.side = "BUY" THEN r.bought ELSE r.sold
Cash(r) == IF r.side = "BUY" THEN r.sold ELSE r.bought
FillsBalance == Sum(Asset, reports) = 0 /\ Sum(Cash, reports) = 0

\* The gateway never holds less in reserve than a live order can still spend,
\* through every partial fill, price improvement and resting remainder.
LiveQuantity(i) ==
    IF i \in Resting THEN Reserve(node[i])
    ELSE IF i = taker.id /\ pc \in {"sweep", "match"} THEN Reserve(taker) ELSE 0
NeverUnderReserved == \A i \in Ids : reserved[i] >= LiveQuantity(i)

\* ARCHITECTURE.md: what price improvement leaves reserved "is released only for
\* MARKET orders (via the trailing CANCEL report)", so nothing stays reserved
\* for a market order that is done.
MarketReleasesAll ==
    [][pc = "sweep" /\ pc' = "idle" /\ taker.type = "MARKET"
         => reserved'[taker.id] = 0]_allVars
=============================================================================
