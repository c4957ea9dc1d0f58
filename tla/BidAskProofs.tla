---------------------------- MODULE BidAskProofs ----------------------------
(***************************************************************************)
(* The book of one market is never crossed and its cached best prices are  *)
(* bounds, for all prices, clients, orders and pool sizes.                 *)
(***************************************************************************)
EXTENDS BidAsk, SequenceTheorems, TLAPS

SortedSeq(s) == \A j, k \in 1..Len(s) : j < k => s[j] < s[k]

(***************************************************************************)
(* The lists, the nodes and OrderMap agree: a list entry has the node of   *)
(* an order of that side and price, lists are in arrival order, and the    *)
(* map holds only listed orders (all of them, unless a cancel named the    *)
(* wrong side).                                                            *)
(***************************************************************************)
Home(order, i, s, p) ==
    order \in Order /\ order.id = i /\ order.side = s /\ order.price = p

ListedNodes ==
    \A s \in Sides, p \in Prices : \A k \in 1..Len(book[s][p]) :
        Home(node[book[s][p][k]], book[s][p][k], s, p)

Sorted == \A s \in Sides, p \in Prices : SortedSeq(book[s][p])

MapIsListed ==
    \A i \in orderMap :
        /\ node[i] \in Order
        /\ \E k \in 1..Len(book[node[i].side][node[i].price]) :
             book[node[i].side][node[i].price][k] = i

ListedIsMapped ==
    unlinked = {} =>
        \A s \in Sides, p \in Prices : \A k \in 1..Len(book[s][p]) :
            book[s][p][k] \in orderMap

Linked == ListedNodes /\ Sorted /\ MapIsListed /\ ListedIsMapped

\* A new order is younger than everything that rests.
Fresh ==
    \A s \in Sides, p \in Prices : \A k \in 1..Len(book[s][p]) :
        /\ book[s][p][k] < nextId
        /\ pc \in {"sweep", "match"} => book[s][p][k] < taker.id

Sweeping == pc \in {"sweep", "match"} => taker \in Order /\ taker.id < nextId

\* In the inner loop the level is the best one, within the limit, and cached.
Matching ==
    pc = "match" =>
        /\ level \in Prices /\ IsBestLevel(Opp(taker.side), level)
        /\ best[Opp(taker.side)] = level /\ Within(taker, level)

IInv == TypeOK /\ Linked /\ Fresh /\ Sweeping /\ Matching /\ CachedBestIsBound /\ Uncrossed

BookTypes ==
    /\ book \in [Sides -> [Prices -> Seq(Ids)]]
    /\ total \in [Sides -> [Prices -> Nat]]
    /\ node \in [Ids -> Order \cup {NoOrder}]
    /\ orderMap \subseteq Ids

\* Prices are integers.
LEMMA PriceInt == \A p \in Prices : p \in Int
  BY PriceAssumption

\* Order ids are positive integers.
LEMMA IdNat == \A i \in Ids : i \in Nat /\ i \in Int
  BY BoundAssumption DEF Ids

\* Steps that leave the book alone keep lists, nodes and map in agreement.
LEMMA SameBook ==
  ASSUME Linked, UNCHANGED <<book, node, orderMap, unlinked>>
  PROVE  Linked'
  <1>1. ListedNodes'
    BY Zenon DEF Linked, ListedNodes
  <1>2. Sorted'
    BY DEF Linked, Sorted, SortedSeq
  <1>3. MapIsListed'
    BY DEF Linked, MapIsListed
  <1>4. ListedIsMapped'
    BY DEF Linked, ListedIsMapped
  <1> QED  BY <1>1, <1>2, <1>3, <1>4 DEF Linked

\* The book's own order decides whether it is crossed.
LEMMA SameUncrossed ==
  ASSUME Uncrossed, UNCHANGED book
  PROVE  Uncrossed'
  BY DEF Uncrossed, Levels

\* An order that IsMarketable turns away has no opposite level within reach:
\* the cached price it was compared with bounds them all.
LEMMA OutOfReach ==
  ASSUME CachedBestIsBound, best \in [Sides -> Int], NEW order,
         order.side \in Sides, order.price \in Int, ~IsMarketable(order)
  PROVE  \A q \in Levels(Opp(order.side)) : ~Within(order, q)
  <1> DEFINE opp == Opp(order.side)
  <1> SUFFICES ASSUME NEW q \in Levels(opp) PROVE ~Within(order, q)
    OBVIOUS
  <1>1. opp \in Sides
    BY DEF Opp, Sides
  <1>2. ~Within(order, best[opp])
    BY DEF IsMarketable
  <1>3. q \in Int /\ best[opp] \in Int
    BY <1>1, PriceInt DEF Levels
  <1>4. ~Better(opp, q, best[opp])
    BY <1>1 DEF CachedBestIsBound
  <1> QED  BY <1>2, <1>3, <1>4 DEF Within, Better, Opp, Sides

-----------------------------------------------------------------------------
(* Lists *)

\* Unlinking an entry of a sorted list leaves the other entries, in order.
LEMMA UnlinkProperties ==
  ASSUME NEW ids \in Seq(Ids), SortedSeq(ids), NEW at \in 1..Len(ids)
  PROVE  LET u == Unlink(ids, ids[at])
         IN  /\ u \in Seq(Ids) /\ SortedSeq(u) /\ Len(u) = Len(ids) - 1
             /\ \A k \in 1..Len(u) : \E j \in 1..Len(ids) : j # at /\ u[k] = ids[j]
             /\ \A j \in 1..Len(ids) : j # at => \E k \in 1..Len(u) : u[k] = ids[j]
  <1> DEFINE c == CHOOSE i \in DOMAIN ids : ids[i] = ids[at]
             u == [i \in 1..Len(ids) - 1 |-> IF i < at THEN ids[i] ELSE ids[i + 1]]
  <1>1. DOMAIN ids = 1..Len(ids) /\ Len(ids) \in Nat
    OBVIOUS
  <1>2. \A i \in 1..Len(ids) : ids[i] \in Ids /\ ids[i] \in Int
    BY BoundAssumption DEF Ids
  <1>3. c \in DOMAIN ids /\ ids[c] = ids[at]
    BY <1>1
  <1>4. c = at
    <2> HIDE DEF c
    <2> QED  BY <1>1, <1>2, <1>3 DEF SortedSeq
  <1>5. Unlink(ids, ids[at]) = u
    BY <1>4, Zenon DEF Unlink
  <1>6. u \in Seq(Ids) /\ Len(u) = Len(ids) - 1
    <2>1. Len(ids) - 1 \in Nat
      BY <1>1
    <2>2. \A i \in 1..Len(ids) - 1 : (IF i < at THEN ids[i] ELSE ids[i + 1]) \in Ids
      BY <1>1, <1>2
    <2> QED  BY <2>1, <2>2
  <1>7. \A k \in 1..Len(u) : u[k] = IF k < at THEN ids[k] ELSE ids[k + 1]
    BY <1>6
  <1> HIDE DEF u
  <1>8. SortedSeq(u)
    BY <1>1, <1>2, <1>6, <1>7, SMTT(30) DEF SortedSeq
  <1>9. \A k \in 1..Len(u) : \E j \in 1..Len(ids) : j # at /\ u[k] = ids[j]
    <2> TAKE k \in 1..Len(u)
    <2> DEFINE j == IF k < at THEN k ELSE k + 1
    <2>1. j \in 1..Len(ids) /\ j # at /\ u[k] = ids[j]
      BY <1>1, <1>6, <1>7
    <2> QED  BY <2>1
  <1>10. \A j \in 1..Len(ids) : j # at => \E k \in 1..Len(u) : u[k] = ids[j]
    <2> SUFFICES ASSUME NEW j \in 1..Len(ids), j # at
                 PROVE  \E k \in 1..Len(u) : u[k] = ids[j]
      OBVIOUS
    <2> DEFINE k == IF j < at THEN j ELSE j - 1
    <2>1. k \in 1..Len(u) /\ u[k] = ids[j]
      BY <1>1, <1>6, <1>7
    <2> QED  BY <2>1
  <1> QED  BY <1>5, <1>6, <1>8, <1>9, <1>10

-----------------------------------------------------------------------------
(* Deleting an order *)

\* OrderBook::DeleteOrder of a listed order keeps lists, nodes and map in
\* agreement and adds no entry to any level.
LEMMA DeleteKeepsLinked ==
  ASSUME BookTypes, Linked, NEW s \in Sides, NEW p \in Prices,
         NEW at \in 1..Len(book[s][p]), NEW t \in Nat,
         DeleteOrder(node[book[s][p][at]], t), unlinked' = unlinked
  PROVE  /\ BookTypes' /\ Linked'
         /\ \A r \in Sides, q \in Prices : \A k \in 1..Len(book'[r][q]) :
              \E j \in 1..Len(book[r][q]) : book'[r][q][k] = book[r][q][j]
         /\ \A r \in Sides, q \in Prices : <<r, q>> # <<s, p>> => book'[r][q] = book[r][q]
  <1> DEFINE id == book[s][p][at]
             u == Unlink(book[s][p], id)
  <1> USE DEF BookTypes
  <1>1. book[s][p] \in Seq(Ids) /\ id \in Ids /\ SortedSeq(book[s][p])
    BY DEF Linked, Sorted
  <1>2. node[id] \in Order /\ node[id].id = id /\ node[id].side = s /\ node[id].price = p
    <2>1. Home(node[id], id, s, p)
      BY Zenon DEF Linked, ListedNodes
    <2> QED  BY <2>1, Zenon DEF Home
  <1>3. /\ u \in Seq(Ids) /\ SortedSeq(u) /\ Len(u) = Len(book[s][p]) - 1
        /\ \A k \in 1..Len(u) : \E j \in 1..Len(book[s][p]) : j # at /\ u[k] = book[s][p][j]
        /\ \A j \in 1..Len(book[s][p]) : j # at => \E k \in 1..Len(u) : u[k] = book[s][p][j]
    BY <1>1, UnlinkProperties, Zenon
  <1> HIDE DEF u
  <1>4. /\ book' = [book EXCEPT ![s][p] = u]
        /\ total' = [total EXCEPT ![s][p] = IF u = <<>> THEN 0 ELSE t]
        /\ orderMap' = orderMap \ {id}
        /\ node' = [node EXCEPT ![id] = NoOrder]
    BY <1>2 DEF DeleteOrder, u
  <1>5. BookTypes'
    BY <1>1, <1>3, <1>4
  <1>6. /\ book'[s][p] = u
        /\ \A r \in Sides, q \in Prices : <<r, q>> # <<s, p>> => book'[r][q] = book[r][q]
    BY <1>4
  <1>7. \A r \in Sides, q \in Prices : \A k \in 1..Len(book'[r][q]) :
          \E j \in 1..Len(book[r][q]) :
            book'[r][q][k] = book[r][q][j] /\ book[r][q][j] # id
    <2> TAKE r \in Sides, q \in Prices
    <2> TAKE k \in 1..Len(book'[r][q])
    <2>1. CASE r = s /\ q = p
      <3>1. PICK j \in 1..Len(book[s][p]) : j # at /\ u[k] = book[s][p][j]
        BY <1>3, <1>6, <2>1, Zenon
      <3>2. book[s][p][j] # id
        <4>1. book[s][p][j] \in Ids /\ book[s][p][at] \in Ids
          BY <1>1
        <4>2. book[s][p][j] \in Int /\ book[s][p][at] \in Int
          BY <4>1, IdNat, Zenon
        <4>3. Len(book[s][p]) \in Nat
          BY <1>1
        <4>4. j < at \/ at < j
          BY <3>1, <4>3
        <4>5. book[s][p][j] < book[s][p][at] \/ book[s][p][at] < book[s][p][j]
          BY <1>1, <4>4 DEF SortedSeq
        <4> QED  BY <4>2, <4>5, SMTT(30)
      <3> QED  BY <1>6, <2>1, <3>1, <3>2, Zenon
    <2>2. CASE ~(r = s /\ q = p)
      <3>1. book'[r][q] = book[r][q]
        BY <1>6, <2>2
      <3>2. book[r][q][k] # id
        <4>1. Home(node[book[r][q][k]], book[r][q][k], r, q)
          BY <3>1, Zenon DEF Linked, ListedNodes
        <4> QED  BY <1>2, <2>2, <4>1, Zenon DEF Home
      <3> QED  BY <3>1, <3>2
    <2> QED  BY <2>1, <2>2, Zenon
  <1>8. \A i \in Ids : i # id => node'[i] = node[i]
    BY <1>4
  <1>9. ListedNodes'
    <2> SUFFICES ASSUME NEW r \in Sides, NEW q \in Prices, NEW k \in 1..Len(book'[r][q])
                 PROVE  Home(node'[book'[r][q][k]], book'[r][q][k], r, q)
      BY Zenon DEF ListedNodes
    <2>1. PICK j \in 1..Len(book[r][q]) :
            book'[r][q][k] = book[r][q][j] /\ book[r][q][j] # id
      BY <1>7
    <2>2. book[r][q][j] \in Ids
      OBVIOUS
    <2>3. Home(node[book[r][q][j]], book[r][q][j], r, q)
      BY Zenon DEF Linked, ListedNodes
    <2>4. node'[book[r][q][j]] = node[book[r][q][j]]
      BY <1>8, <2>1, <2>2, Zenon
    <2>5. Home(node'[book[r][q][j]], book[r][q][j], r, q)
      BY <2>3, <2>4, Zenon
    <2> QED  BY <2>1, <2>5, Zenon
  <1>10. Sorted'
    BY <1>3, <1>6, ZenonT(30) DEF Linked, Sorted
  <1>11. MapIsListed'
    <2> SUFFICES ASSUME NEW i \in orderMap'
                 PROVE  /\ node'[i] \in Order
                        /\ \E k \in 1..Len(book'[node'[i].side][node'[i].price]) :
                             book'[node'[i].side][node'[i].price][k] = i
      BY Zenon DEF MapIsListed
    <2>1. i \in orderMap /\ i # id /\ i \in Ids
      BY <1>4
    <2>2. node'[i] = node[i] /\ node[i] \in Order
      BY <1>8, <2>1 DEF Linked, MapIsListed
    <2> DEFINE r == node[i].side
               q == node[i].price
    <2>3. r \in Sides /\ q \in Prices
      BY <2>2, Zenon DEF Order
    <2>4. PICK j \in 1..Len(book[r][q]) : book[r][q][j] = i
      BY <2>1, Zenon DEF Linked, MapIsListed
    <2> HIDE DEF r, q
    <2>5. \E k \in 1..Len(book'[r][q]) : book'[r][q][k] = i
      <3>1. CASE r = s /\ q = p
        <4>1. j # at
          BY <2>1, <2>4, <3>1
        <4> QED  BY <1>3, <1>6, <2>4, <3>1, <4>1, Zenon
      <3>2. CASE ~(r = s /\ q = p)
        BY <1>6, <2>3, <2>4, <3>2, Zenon
      <3> QED  BY <3>1, <3>2
    <2> QED  BY <2>2, <2>5, Zenon DEF r, q
  <1>12. ListedIsMapped'
    <2> SUFFICES ASSUME unlinked = {}, NEW r \in Sides, NEW q \in Prices,
                        NEW k \in 1..Len(book'[r][q])
                 PROVE  book'[r][q][k] \in orderMap'
      BY DEF ListedIsMapped
    <2>1. PICK j \in 1..Len(book[r][q]) :
            book'[r][q][k] = book[r][q][j] /\ book[r][q][j] # id
      BY <1>7, Zenon
    <2>2. book[r][q][j] \in orderMap
      BY DEF Linked, ListedIsMapped
    <2> QED  BY <1>4, <2>1, <2>2, Zenon
  <1> QED  BY <1>5, <1>6, <1>7, <1>9, <1>10, <1>11, <1>12, SMTT(30) DEF Linked

\* A deletion empties levels and creates none.
LEMMA FewerLevels ==
  ASSUME BookTypes, BookTypes',
         \A r \in Sides, q \in Prices : \A k \in 1..Len(book'[r][q]) :
           \E j \in 1..Len(book[r][q]) : book'[r][q][k] = book[r][q][j]
  PROVE  \A r \in Sides : Levels(r)' \subseteq Levels(r)
  <1> SUFFICES ASSUME NEW r \in Sides, NEW q \in Prices, book'[r][q] # <<>>
               PROVE  book[r][q] # <<>>
    BY DEF Levels
  <1>1. book'[r][q] \in Seq(Ids) /\ book[r][q] \in Seq(Ids)
    BY DEF BookTypes
  <1>2. 1 \in 1..Len(book'[r][q])
    BY <1>1
  <1>3. PICK j \in 1..Len(book[r][q]) : TRUE
    BY <1>2
  <1> QED  BY <1>1, <1>3

-----------------------------------------------------------------------------
(* Resting an order *)

\* AddBuyLimitOrder and AddSellLimitOrder, of an order that is younger than
\* everything in the book and that no opposite level is within reach of.
LEMMA AddKeeps ==
  ASSUME BookTypes, Linked, Uncrossed, lost \subseteq Ids,
         NEW order \in Order, NEW cached \in [Sides -> Int],
         \A s \in Sides : \A p \in Levels(s) : ~Better(s, p, cached[s]),
         \A q \in Levels(Opp(order.side)) : ~Within(order, q),
         \A s \in Sides, p \in Prices : \A k \in 1..Len(book[s][p]) :
           book[s][p][k] < order.id,
         AddLimitOrder(order, cached), unlinked' = unlinked
  PROVE  /\ BookTypes' /\ Linked' /\ Uncrossed' /\ CachedBestIsBound'
         /\ lost' \subseteq Ids /\ best' \in [Sides -> Int] /\ pc' \in {"idle", "halted"}
         /\ \A s \in Sides, p \in Prices : \A k \in 1..Len(book'[s][p]) :
              book'[s][p][k] <= order.id
  <1> DEFINE s == order.side
             p == order.price
             Goal == /\ BookTypes' /\ Linked' /\ Uncrossed' /\ CachedBestIsBound'
                     /\ lost' \subseteq Ids /\ best' \in [Sides -> Int]
                     /\ pc' \in {"idle", "halted"}
                     /\ \A r \in Sides, q \in Prices : \A k \in 1..Len(book'[r][q]) :
                          book'[r][q][k] <= order.id
  <1>1. s \in Sides /\ p \in Prices /\ order.id \in Ids /\ order.amount \in Nat
    BY DEF Order
  <1>2. \A r \in Sides, q \in Prices :
          /\ book[r][q] \in Seq(Ids)
          /\ \A k \in 1..Len(book[r][q]) : book[r][q][k] \in Ids /\ book[r][q][k] <= order.id
    <2> SUFFICES ASSUME NEW r \in Sides, NEW q \in Prices
                 PROVE  /\ book[r][q] \in Seq(Ids)
                        /\ \A k \in 1..Len(book[r][q]) :
                             book[r][q][k] \in Ids /\ book[r][q][k] <= order.id
      OBVIOUS
    <2>1. book[r][q] \in Seq(Ids)
      BY DEF BookTypes
    <2>2. ASSUME NEW k \in 1..Len(book[r][q])
          PROVE  book[r][q][k] \in Ids /\ book[r][q][k] <= order.id
      <3>1. book[r][q][k] \in Ids /\ book[r][q][k] < order.id
        BY <2>1
      <3>2. book[r][q][k] \in Int /\ order.id \in Int
        BY <1>1, <3>1, IdNat
      <3> QED  BY <3>1, <3>2
    <2> QED  BY <2>1, <2>2
  <1>3. CASE UNCHANGED bookVars /\ best' = cached /\ lost' \subseteq Ids
             /\ pc' \in {"idle", "halted"}
    <2>1. BookTypes' /\ Linked' /\ Uncrossed'
      <3>1. UNCHANGED <<book, total, node, orderMap, unlinked>>
        BY <1>3 DEF bookVars
      <3>2. BookTypes'
        BY <3>1 DEF BookTypes
      <3> QED  BY <3>1, <3>2, SameBook, SameUncrossed
    <2>2. CachedBestIsBound'
      BY <1>3 DEF bookVars, CachedBestIsBound, Levels
    <2> QED  BY <1>2, <1>3, <2>1, <2>2 DEF bookVars
  <1>4. ASSUME best' = NewBest(cached, s, p),
               node' = [node EXCEPT ![order.id] = order],
               orderMap' = orderMap \cup {order.id},
               book' = [book EXCEPT ![s][p] = Append(@, order.id)],
               total' = [total EXCEPT ![s][p] =
                           IF book[s][p] = <<>> THEN order.amount
                                                ELSE AddTotal(s, p, order.amount)],
               pc' = "idle", lost' = lost
        PROVE  Goal
    <2> DEFINE new == Append(book[s][p], order.id)
               n == Len(book[s][p])
    <2>1. /\ new \in Seq(Ids) /\ new # <<>> /\ Len(new) = n + 1 /\ n \in Nat
          /\ \A k \in 1..n : new[k] = book[s][p][k]
          /\ new[n + 1] = order.id
      BY <1>1, <1>2, AppendProperties, SMTT(30)
    <2>2. /\ book'[s][p] = new
          /\ \A r \in Sides, q \in Prices : ~(r = s /\ q = p) => book'[r][q] = book[r][q]
      BY <1>1, <1>4, Zenon DEF BookTypes
    <2> HIDE DEF new, n
    <2>3. \A i \in Ids : i # order.id => node'[i] = node[i]
      BY <1>4 DEF BookTypes
    <2>4. node'[order.id] = order
      BY <1>1, <1>4 DEF BookTypes
    <2>5. BookTypes'
      <3>1. book' \in [Sides -> [Prices -> Seq(Ids)]]
        BY <1>1, <1>4, <2>1, Zenon DEF BookTypes, new
      <3>2. AddTotal(s, p, order.amount) \in Nat
        <4>1. U32 * U32 \in Nat \ {0}
          BY BoundAssumption
        <4>2. total[s][p] + order.amount \in Nat
          BY <1>1 DEF BookTypes
        <4> QED  BY <4>1, <4>2 DEF AddTotal
      <3>3. total' \in [Sides -> [Prices -> Nat]]
        BY <1>1, <1>4, <3>2 DEF BookTypes
      <3>4. node' \in [Ids -> Order \cup {NoOrder}] /\ orderMap' \subseteq Ids
        BY <1>1, <1>4 DEF BookTypes
      <3> QED  BY <3>1, <3>3, <3>4 DEF BookTypes
    \* Every entry of the new lists is an old one, or the new order's.
    <2>6. \A r \in Sides, q \in Prices : \A k \in 1..Len(book'[r][q]) :
            \/ /\ k \in 1..Len(book[r][q]) /\ book'[r][q][k] = book[r][q][k]
               /\ book[r][q][k] # order.id /\ book[r][q][k] \in Ids
            \/ r = s /\ q = p /\ book'[r][q][k] = order.id
      <3> TAKE r \in Sides, q \in Prices
      <3> TAKE k \in 1..Len(book'[r][q])
      <3>1. \A j \in 1..Len(book[r][q]) : book[r][q][j] # order.id /\ book[r][q][j] \in Ids
        BY <1>1, <1>2, BoundAssumption DEF Ids
      <3>2. CASE r = s /\ q = p
        <4>1. book'[r][q] = new /\ n = Len(book[r][q]) /\ k \in 1..n + 1
          BY <2>1, <2>2, <3>2, Zenon DEF n
        <4>2. CASE k = n + 1
          BY <2>1, <3>2, <4>1, <4>2, Zenon
        <4>3. CASE k # n + 1
          <5>1. k \in 1..n
            BY <2>1, <4>1, <4>3
          <5> QED  BY <2>1, <3>1, <3>2, <4>1, <5>1, Zenon
        <4> QED  BY <4>2, <4>3, Zenon
      <3>3. CASE ~(r = s /\ q = p)
        BY <2>2, <3>1, <3>3
      <3> QED  BY <3>2, <3>3
    <2>7. ListedNodes'
      <3> SUFFICES ASSUME NEW r \in Sides, NEW q \in Prices, NEW k \in 1..Len(book'[r][q])
                   PROVE  Home(node'[book'[r][q][k]], book'[r][q][k], r, q)
        BY Zenon DEF ListedNodes
      <3>1. CASE /\ k \in 1..Len(book[r][q]) /\ book'[r][q][k] = book[r][q][k]
                 /\ book[r][q][k] # order.id /\ book[r][q][k] \in Ids
        <4>1. Home(node[book[r][q][k]], book[r][q][k], r, q)
          BY <3>1, Zenon DEF Linked, ListedNodes
        <4>2. node'[book[r][q][k]] = node[book[r][q][k]]
          BY <2>3, <3>1, Zenon
        <4>3. Home(node'[book[r][q][k]], book[r][q][k], r, q)
          BY <4>1, <4>2, Zenon
        <4> QED  BY <3>1, <4>3, Zenon
      <3>2. CASE r = s /\ q = p /\ book'[r][q][k] = order.id
        BY <2>4, <3>2, Zenon DEF Home
      <3> QED  BY <2>6, <3>1, <3>2, Zenon
    <2>8. Sorted'
      <3> SUFFICES ASSUME NEW r \in Sides, NEW q \in Prices PROVE SortedSeq(book'[r][q])
        BY DEF Sorted
      <3>1. SortedSeq(book[r][q])
        BY DEF Linked, Sorted
      <3>2. CASE r = s /\ q = p
        <4> SUFFICES ASSUME NEW j \in 1..Len(new), NEW k \in 1..Len(new), j < k
                     PROVE  new[j] < new[k]
          BY <2>2, <3>2, Zenon DEF SortedSeq
        <4>1. CASE k = n + 1
          <5>1. j \in 1..n /\ new[j] = book[s][p][j] /\ new[k] = order.id
            BY <2>1, <4>1
          <5> QED  BY <1>1, <5>1, Zenon DEF n
        <4>2. CASE k # n + 1
          BY <2>1, <3>1, <3>2, <4>2, SMTT(30) DEF n, SortedSeq
        <4> QED  BY <4>1, <4>2
      <3>3. CASE ~(r = s /\ q = p)
        BY <2>2, <3>1, <3>3
      <3> QED  BY <3>2, <3>3
    <2>9. MapIsListed'
      <3> SUFFICES ASSUME NEW i \in orderMap'
                   PROVE  /\ node'[i] \in Order
                          /\ \E k \in 1..Len(book'[node'[i].side][node'[i].price]) :
                               book'[node'[i].side][node'[i].price][k] = i
        BY DEF MapIsListed
      <3>1. CASE i = order.id
        <4>1. n + 1 \in 1..Len(book'[s][p]) /\ book'[s][p][n + 1] = i
          BY <2>1, <2>2, <3>1
        <4> QED  BY <2>4, <3>1, <4>1, Zenon
      <3>2. CASE i # order.id
        <4>1. i \in orderMap /\ i \in Ids
          BY <1>4, <3>2 DEF BookTypes
        <4>2. node'[i] = node[i] /\ node[i] \in Order
          BY <2>3, <3>2, <4>1, Zenon DEF Linked, MapIsListed
        <4> DEFINE r == node[i].side
                   q == node[i].price
        <4>3. r \in Sides /\ q \in Prices
          BY <4>2 DEF Order
        <4>4. PICK k \in 1..Len(book[r][q]) : book[r][q][k] = i
          BY <4>1, Zenon DEF Linked, MapIsListed
        <4> HIDE DEF r, q
        <4>5. k \in 1..Len(book'[r][q]) /\ book'[r][q][k] = i
          <5>1. CASE r = s /\ q = p
            BY <2>1, <2>2, <4>4, <5>1, SMTT(30) DEF n
          <5>2. CASE ~(r = s /\ q = p)
            BY <2>2, <4>3, <4>4, <5>2
          <5> QED  BY <5>1, <5>2
        <4> QED  BY <4>2, <4>5, Zenon DEF r, q
      <3> QED  BY <3>1, <3>2, Zenon
    <2>10. ListedIsMapped'
      <3> SUFFICES ASSUME unlinked = {}, NEW r \in Sides, NEW q \in Prices,
                          NEW k \in 1..Len(book'[r][q])
                   PROVE  book'[r][q][k] \in orderMap'
        BY DEF ListedIsMapped
      <3>1. CASE k \in 1..Len(book[r][q]) /\ book'[r][q][k] = book[r][q][k]
        <4>1. book[r][q][k] \in orderMap
          BY <3>1 DEF Linked, ListedIsMapped
        <4> QED  BY <1>4, <3>1, <4>1, SMTT(30)
      <3>2. CASE book'[r][q][k] = order.id
        BY <1>4, <3>2, SMTT(30)
      <3> QED  BY <2>6, <3>1, <3>2
    <2>11. \A r \in Sides : Levels(r)' \subseteq IF r = s THEN Levels(r) \cup {p} ELSE Levels(r)
      BY <2>2 DEF Levels
    <2>12. Uncrossed'
      BY <1>1, <2>11, PriceAssumption, SMTT(30) DEF Uncrossed, Within, Opp, Sides, Levels
    <2>13. CachedBestIsBound' /\ best' \in [Sides -> Int]
      <3>1. p \in Int
        BY <1>1, PriceInt
      <3>2. /\ best' \in [Sides -> Int]
            /\ best'[s] = IF Better(s, p, cached[s]) THEN p ELSE cached[s]
            /\ \A r \in Sides : r # s => best'[r] = cached[r]
        BY <1>1, <1>4, <3>1 DEF NewBest
      <3>3. ASSUME NEW r \in Sides, NEW q \in Levels(r)'
            PROVE  ~Better(r, q, best'[r])
        <4>1. q \in Prices
          BY DEF Levels
        <4>2. q \in Int /\ cached[r] \in Int
          BY <4>1, PriceInt
        <4>3. CASE r # s
          BY <2>11, <3>2, <4>3
        <4>4. CASE r = s
          <5>1. q = p \/ ~Better(s, q, cached[s])
            BY <2>11, <4>4
          <5>2. cached[s] \in Int
            BY <4>2, <4>4
          <5> QED  BY <3>1, <3>2, <4>2, <4>4, <5>1, <5>2 DEF Better
        <4> QED  BY <4>3, <4>4
      <3> QED  BY <3>2, <3>3 DEF CachedBestIsBound
    <2>14. \A r \in Sides, q \in Prices : \A k \in 1..Len(book'[r][q]) :
             book'[r][q][k] <= order.id
      <3> TAKE r \in Sides, q \in Prices
      <3> TAKE k \in 1..Len(book'[r][q])
      <3>1. CASE k \in 1..Len(book[r][q]) /\ book'[r][q][k] = book[r][q][k]
        BY <1>2, <3>1
      <3>2. CASE book'[r][q][k] = order.id
        BY <1>1, <3>2, BoundAssumption DEF Ids
      <3> QED  BY <2>6, <3>1, <3>2
    <2> QED  BY <1>4, <2>5, <2>7, <2>8, <2>9, <2>10, <2>12, <2>13, <2>14, Zenon DEF Linked
  <1>5. \/ UNCHANGED bookVars /\ best' = cached /\ lost' \subseteq Ids
           /\ pc' \in {"idle", "halted"}
        \/ /\ best' = NewBest(cached, s, p)
           /\ node' = [node EXCEPT ![order.id] = order]
           /\ orderMap' = orderMap \cup {order.id}
           /\ book' = [book EXCEPT ![s][p] = Append(@, order.id)]
           /\ total' = [total EXCEPT ![s][p] =
                           IF book[s][p] = <<>> THEN order.amount
                                                ELSE AddTotal(s, p, order.amount)]
           /\ pc' = "idle" /\ lost' = lost
    BY <1>1 DEF AddLimitOrder
  <1> QED  BY <1>3, <1>4, <1>5, Zenon

-----------------------------------------------------------------------------
(* The invariant is inductive *)

\* The empty book satisfies the invariant.
LEMMA InitIInv == Init => IInv
  <1> SUFFICES ASSUME Init PROVE IInv
    OBVIOUS
  <1>1. /\ book = [s \in Sides |-> [p \in Prices |-> <<>>]] /\ orderMap = {}
        /\ pc = "idle"
    BY DEF Init
  <1>2. \A s \in Sides, p \in Prices : book[s][p] = <<>>
    BY <1>1
  <1>3. TypeOK
    <2>1. NoOrder \in Order \cup {NoOrder} /\ <<>> \in Seq(Ids)
      OBVIOUS
    <2> QED  BY <2>1, PriceAssumption DEF Init, TypeOK
  <1>4. Linked /\ Fresh
    BY <1>1, <1>2 DEF Linked, ListedNodes, Sorted, SortedSeq, MapIsListed, ListedIsMapped, Fresh
  <1>5. \A s \in Sides : Levels(s) = {}
    BY <1>2 DEF Levels
  <1>6. CachedBestIsBound /\ Uncrossed
    BY <1>5 DEF CachedBestIsBound, Uncrossed, Sides
  <1> QED  BY <1>1, <1>3, <1>4, <1>6 DEF IInv, Sweeping, Matching

\* executeOrder: a marketable order starts its sweep, another one rests; the
\* cached opposite price is a bound, so nothing is within its reach.
LEMMA ExecuteKeeps ==
  ASSUME IInv, NEW input \in Inputs, executeOrder(input)
  PROVE  IInv'
  <1> DEFINE order == WithId(input, nextId)
  <1>1. input \in Request /\ nextId \in Ids /\ nextId \in Nat /\ pc = "idle"
    BY InputAssumption, BoundAssumption DEF executeOrder, IInv, TypeOK, Ids
  <1>2. order \in Order /\ order.id = nextId
    BY <1>1 DEF WithId, Request, Order
  <1>3. BookTypes /\ Linked /\ Uncrossed /\ CachedBestIsBound
    BY DEF IInv, TypeOK, BookTypes
  <1> HIDE DEF order
  <1>4. /\ nextId' = nextId + 1 /\ taker' = order /\ unlinked' = unlinked /\ level' = level
    BY DEF executeOrder, order
  <1>5. CASE /\ pc' = "sweep" /\ totalLocked' = Reserve(order)
             /\ UNCHANGED <<bookVars, best, lost>>
    <2> USE <1>5 DEF bookVars
    <2>1. Reserve(order) \in Int
      BY <1>2, PriceAssumption DEF Reserve, Order
    <2>2. TypeOK'
      BY <1>1, <1>2, <1>4, <2>1 DEF IInv, TypeOK
    <2>3. Linked' /\ Uncrossed' /\ CachedBestIsBound'
      <3>1. UNCHANGED <<book, node, orderMap, unlinked, best>>
        BY <1>4
      <3>2. CachedBestIsBound'
        BY <1>3, <3>1 DEF CachedBestIsBound, Levels
      <3> QED  BY <1>3, <3>1, <3>2, SameBook, SameUncrossed
    <2>4. Fresh'
      <3> SUFFICES ASSUME NEW s \in Sides, NEW p \in Prices, NEW k \in 1..Len(book[s][p])
                   PROVE  book[s][p][k] < nextId + 1 /\ book[s][p][k] < order.id
        BY <1>4 DEF Fresh
      <3>1. book[s][p][k] < nextId /\ book[s][p][k] \in Ids
        BY <1>3 DEF IInv, Fresh, BookTypes
      <3>2. book[s][p][k] \in Int
        BY <3>1, IdNat
      <3>3. book[s][p][k] < nextId + 1
        BY <1>1, <3>1, <3>2
      <3> QED  BY <1>2, <3>1, <3>3
    <2>5. Sweeping' /\ Matching'
      BY <1>1, <1>2, <1>4 DEF Sweeping, Matching
    <2> QED  BY <2>2, <2>3, <2>4, <2>5 DEF IInv
  <1>6. CASE ~IsMarketable(order) /\ AddLimitOrder(order, best) /\ UNCHANGED totalLocked
    <2>1. order.side \in Sides /\ order.price \in Int /\ best \in [Sides -> Int]
      <3>1. order.side \in Sides /\ order.price \in Prices
        BY <1>2 DEF Order
      <3>2. best \in [Sides -> Int]
        BY DEF IInv, TypeOK
      <3> QED  BY <3>1, <3>2, PriceInt
    <2>2. \A q \in Levels(Opp(order.side)) : ~Within(order, q)
      BY <1>3, <1>6, <2>1, OutOfReach
    <2>3. \A s \in Sides, p \in Prices : \A k \in 1..Len(book[s][p]) : book[s][p][k] < order.id
      BY <1>2 DEF IInv, Fresh
    <2>4. \A s \in Sides : \A p \in Levels(s) : ~Better(s, p, best[s])
      BY <1>3 DEF CachedBestIsBound
    <2>5. /\ BookTypes' /\ Linked' /\ Uncrossed' /\ CachedBestIsBound'
          /\ lost' \subseteq Ids /\ best' \in [Sides -> Int] /\ pc' \in {"idle", "halted"}
          /\ \A s \in Sides, p \in Prices : \A k \in 1..Len(book'[s][p]) :
               book'[s][p][k] <= order.id
      <3>1. lost \subseteq Ids
        BY DEF IInv, TypeOK
      <3> QED  BY <1>2, <1>3, <1>4, <1>6, <2>1, <2>2, <2>3, <2>4, <3>1, AddKeeps, Zenon
    <2>6. TypeOK'
      BY <1>1, <1>2, <1>4, <1>6, <2>5 DEF IInv, TypeOK, BookTypes
    <2>7. Fresh' /\ Sweeping' /\ Matching'
      <3>1. \A s \in Sides, p \in Prices : \A k \in 1..Len(book'[s][p]) :
              book'[s][p][k] < nextId + 1
        <4> SUFFICES ASSUME NEW s \in Sides, NEW p \in Prices, NEW k \in 1..Len(book'[s][p])
                     PROVE  book'[s][p][k] < nextId + 1
          OBVIOUS
        <4>1. book'[s][p][k] \in Ids /\ book'[s][p][k] <= nextId
          BY <1>2, <2>5 DEF BookTypes
        <4> QED  BY <1>1, <4>1, BoundAssumption DEF Ids
      <3> QED  BY <1>4, <2>5, <3>1 DEF Fresh, Sweeping, Matching
    <2> QED  BY <2>5, <2>6, <2>7 DEF IInv
  <1> QED  BY <1>5, <1>6 DEF executeOrder, order

\* LeaveLoop: what is left of a limit order rests, and again nothing is within
\* its reach, whichever way the loop ended.
LEMMA LeaveKeeps ==
  ASSUME IInv, LeaveLoop
  PROVE  IInv'
  <1> DEFINE opp == Opp(taker.side)
  <1>1. /\ taker \in Order /\ taker.id < nextId /\ pc = "sweep"
        /\ taker' = NoOrder /\ level' = 0 /\ totalLocked' = 0
        /\ unlinked' = unlinked /\ nextId' = nextId
    BY DEF LeaveLoop, IInv, Sweeping
  <1>2. BookTypes /\ Linked /\ Uncrossed /\ CachedBestIsBound /\ lost \subseteq Ids
    BY DEF IInv, TypeOK, BookTypes
  <1>3. /\ taker.side \in Sides /\ opp \in Sides /\ taker.price \in Int
        /\ taker.id \in Nat /\ nextId \in Nat \ {0} /\ best \in [Sides -> Int]
    <2>1. taker.side \in Sides /\ taker.price \in Prices /\ taker.id \in Ids
      BY <1>1 DEF Order
    <2>2. nextId \in Nat \ {0} /\ best \in [Sides -> Int]
      BY DEF IInv, TypeOK
    <2>3. taker.price \in Int /\ opp \in Sides
      BY <2>1, PriceInt DEF Opp, Sides
    <2>4. taker.id \in Nat
      BY <2>1, BoundAssumption DEF Ids
    <2> QED  BY <2>1, <2>2, <2>3, <2>4
  <1>4. \A s \in Sides, p \in Prices : \A k \in 1..Len(book[s][p]) : book[s][p][k] < taker.id
    BY <1>1 DEF IInv, Fresh
  \* The two ways out leave a bound behind and nothing within reach.
  <1>5. ASSUME NEW cached \in [Sides -> Int], Remainder(cached),
               \A s \in Sides : \A p \in Levels(s) : ~Better(s, p, cached[s]),
               taker.amount > 0 /\ taker.type = "LIMIT"
                 => \A q \in Levels(opp) : ~Within(taker, q)
        PROVE  IInv'
    <2>1. /\ BookTypes' /\ Linked' /\ Uncrossed' /\ CachedBestIsBound'
          /\ lost' \subseteq Ids /\ best' \in [Sides -> Int] /\ pc' \in {"idle", "halted"}
          /\ \A s \in Sides, p \in Prices : \A k \in 1..Len(book'[s][p]) :
               book'[s][p][k] <= taker.id
      <3>1. CASE taker.amount > 0 /\ taker.type = "LIMIT" /\ AddLimitOrder(taker, cached)
        BY <1>1, <1>2, <1>4, <1>5, <3>1, AddKeeps, Zenon
      <3>2. CASE pc' = "idle" /\ best' = cached /\ UNCHANGED <<bookVars, lost>>
        <4>1. BookTypes' /\ Linked' /\ Uncrossed'
          <5>1. UNCHANGED <<book, total, node, orderMap, unlinked>>
            BY <1>1, <3>2 DEF bookVars
          <5>2. BookTypes'
            BY <1>2, <5>1 DEF BookTypes
          <5> QED  BY <1>2, <5>1, <5>2, SameBook, SameUncrossed
        <4>2. CachedBestIsBound'
          BY <1>5, <3>2, Zenon DEF bookVars, CachedBestIsBound, Levels
        <4>3. \A s \in Sides, p \in Prices : \A k \in 1..Len(book'[s][p]) :
                book'[s][p][k] <= taker.id
          <5> SUFFICES ASSUME NEW s \in Sides, NEW p \in Prices, NEW k \in 1..Len(book[s][p])
                       PROVE  book[s][p][k] <= taker.id
            BY <3>2 DEF bookVars
          <5>1. book[s][p][k] \in Ids /\ book[s][p][k] < taker.id
            BY <1>2, <1>4 DEF BookTypes
          <5> QED  BY <1>3, <5>1, BoundAssumption, SMTT(30) DEF Ids
        <4> QED  BY <1>2, <1>5, <3>2, <4>1, <4>2, <4>3, Zenon
      <3> QED  BY <1>5, <3>1, <3>2, Zenon DEF Remainder
    <2>2. TypeOK'
      <3>1. unlinked \subseteq Ids
        BY DEF IInv, TypeOK
      <3>2. pc' \in {"idle", "sweep", "match", "halted"} /\ pc' \notin {"sweep", "match"}
        BY <2>1
      <3> QED  BY <1>1, <1>3, <2>1, <3>1, <3>2, SMTT(30) DEF TypeOK, BookTypes
    <2>3. Fresh' /\ Sweeping' /\ Matching'
      <3>1. \A s \in Sides, p \in Prices : \A k \in 1..Len(book'[s][p]) :
              book'[s][p][k] < nextId
        <4> SUFFICES ASSUME NEW s \in Sides, NEW p \in Prices, NEW k \in 1..Len(book'[s][p])
                     PROVE  book'[s][p][k] < nextId
          OBVIOUS
        <4>1. book'[s][p][k] \in Ids /\ book'[s][p][k] <= taker.id
          BY <2>1 DEF BookTypes
        <4> QED  BY <1>1, <1>3, <4>1, BoundAssumption, SMTT(30) DEF Ids
      <3> QED  BY <1>1, <2>1, <3>1, Zenon DEF Fresh, Sweeping, Matching
    <2> QED  BY <2>1, <2>2, <2>3 DEF IInv
  <1>6. CASE /\ taker.amount = 0 \/ ~IsMarketable(taker) \/ Levels(opp) = {}
             /\ Remainder(best)
    <2>1. taker.amount > 0 => \A q \in Levels(opp) : ~Within(taker, q)
      <3> SUFFICES ASSUME taker.amount > 0, NEW q \in Levels(opp)
                   PROVE  ~Within(taker, q)
        OBVIOUS
      <3>1. taker.amount # 0
        BY <1>1 DEF Order
      <3>2. ~IsMarketable(taker)
        BY <1>6, <3>1
      <3> QED  BY <1>2, <1>3, <3>2, OutOfReach
    <2>2. \A s \in Sides : \A q \in Levels(s) : ~Better(s, q, best[s])
      BY <1>2 DEF CachedBestIsBound
    <2> QED  BY <1>3, <1>5, <1>6, <2>1, <2>2
  <1>7. ASSUME NEW p \in Prices, IsBestLevel(opp, p), ~Within(taker, p),
               Remainder([best EXCEPT ![opp] = p])
        PROVE  IInv'
    <2> DEFINE cached == [best EXCEPT ![opp] = p]
    <2>1. cached \in [Sides -> Int] /\ p \in Int
      BY <1>3, PriceAssumption
    <2>2. \A s \in Sides : \A q \in Levels(s) : ~Better(s, q, cached[s])
      BY <1>2, <1>3, <1>7 DEF CachedBestIsBound, IsBestLevel
    <2>3. \A q \in Levels(opp) : ~Within(taker, q)
      BY <1>3, <1>7, <2>1, PriceAssumption
         DEF IsBestLevel, Within, Better, Opp, Sides, Levels
    <2> QED  BY <1>5, <1>7, <2>1, <2>2, <2>3, Zenon
  <1> QED  BY <1>6, <1>7, Zenon DEF LeaveLoop

\* EnterLevel: the cached price moves to the best level.
LEMMA EnterKeeps ==
  ASSUME IInv, NEW p \in Prices, EnterLevel(p)
  PROVE  IInv'
  <1> DEFINE opp == Opp(taker.side)
  <1>1. /\ pc = "sweep" /\ pc' = "match" /\ level' = p /\ best' = [best EXCEPT ![opp] = p]
        /\ IsBestLevel(opp, p) /\ Within(taker, p)
        /\ UNCHANGED <<book, total, node, orderMap, unlinked, taker, totalLocked, nextId, lost>>
    BY DEF EnterLevel, bookVars
  <1>2. taker \in Order /\ p \in Int /\ best \in [Sides -> Int] /\ opp \in Sides
    <2>1. taker \in Order /\ best \in [Sides -> Int]
      BY <1>1 DEF IInv, TypeOK
    <2> QED  BY <2>1, PriceAssumption DEF Opp, Sides
  <1>3. best'[opp] = p /\ best' \in [Sides -> Int]
        /\ \A s \in Sides : s # opp => best'[s] = best[s]
    BY <1>1, <1>2
  <1>4. TypeOK'
    BY <1>1, <1>2, <1>3 DEF IInv, TypeOK
  <1>5. Linked' /\ Uncrossed' /\ Fresh' /\ Sweeping'
    <2>1. Linked' /\ Uncrossed'
      BY <1>1, SameBook, SameUncrossed DEF IInv
    <2>2. Fresh'
      BY <1>1, Zenon DEF IInv, Fresh
    <2>3. Sweeping'
      BY <1>1 DEF IInv, Sweeping
    <2> QED  BY <2>1, <2>2, <2>3
  <1>6. Matching'
    BY <1>1, <1>3 DEF Matching, IsBestLevel, Levels, Within
  <1>7. CachedBestIsBound'
    <2> SUFFICES ASSUME NEW s \in Sides, NEW q \in Levels(s)
                 PROVE  ~Better(s, q, best'[s])
      BY <1>1, Zenon DEF CachedBestIsBound, Levels
    <2>1. CASE s = opp
      BY <1>1, <1>3, <2>1 DEF IsBestLevel
    <2>2. CASE s # opp
      BY <1>3, <2>2 DEF IInv, CachedBestIsBound
    <2> QED  BY <2>1, <2>2
  <1> QED  BY <1>4, <1>5, <1>6, <1>7 DEF IInv

\* With fewer entries in the book and the same cached prices, the facts about
\* prices and ages stay true.
LEMMA FewerKeeps ==
  ASSUME IInv, BookTypes', UNCHANGED <<best, nextId>>,
         \A r \in Sides, q \in Prices : \A k \in 1..Len(book'[r][q]) :
           \E j \in 1..Len(book[r][q]) : book'[r][q][k] = book[r][q][j]
  PROVE  /\ CachedBestIsBound' /\ Uncrossed'
         /\ \A r \in Sides : Levels(r)' \subseteq Levels(r)
         /\ \A r \in Sides, q \in Prices : \A k \in 1..Len(book'[r][q]) :
              /\ book'[r][q][k] < nextId
              /\ pc \in {"sweep", "match"} => book'[r][q][k] < taker.id
  <1>1. BookTypes
    BY DEF IInv, TypeOK, BookTypes
  <1>2. \A r \in Sides : Levels(r)' \subseteq Levels(r)
    BY <1>1, FewerLevels
  <1>3. CachedBestIsBound' /\ Uncrossed'
    BY <1>2 DEF IInv, CachedBestIsBound, Uncrossed, Sides
  <1>4. \A r \in Sides, q \in Prices : \A k \in 1..Len(book'[r][q]) :
          /\ book'[r][q][k] < nextId
          /\ pc \in {"sweep", "match"} => book'[r][q][k] < taker.id
    <2> TAKE r \in Sides, q \in Prices
    <2> TAKE k \in 1..Len(book'[r][q])
    <2>1. PICK j \in 1..Len(book[r][q]) : book'[r][q][k] = book[r][q][j]
      OBVIOUS
    <2> QED  BY <2>1 DEF IInv, Fresh
  <1> QED  BY <1>2, <1>3, <1>4

\* Match: the maker is the head of the best level; it is deleted or keeps its
\* place with a smaller amount.
LEMMA MatchKeeps ==
  ASSUME IInv, Match
  PROVE  IInv'
  <1> DEFINE opp == Opp(taker.side)
             id == Head(book[opp][level])
             maker == node[id]
             t == TradedAmount(taker.amount, maker.amount)
             takerLeft == taker.amount - t
             makerLeft == maker.amount - t
             levelTotal == AddTotal(opp, level, NegatedTraded(t))
             locked == totalLocked - IF taker.side = "BUY" THEN t * level ELSE t
  <1>1. /\ pc = "match" /\ taker \in Order /\ taker.id < nextId
        /\ level \in Prices /\ IsBestLevel(opp, level)
        /\ best[opp] = level /\ Within(taker, level)
    BY Zenon DEF Match, IInv, Sweeping, Matching
  <1>2. opp \in Sides /\ level \in Int /\ taker.amount \in Nat
    BY <1>1, PriceAssumption DEF Opp, Sides, Order
  <1>3. BookTypes /\ Linked /\ totalLocked \in Int
    BY DEF IInv, TypeOK, BookTypes
  <1>4. /\ book[opp][level] \in Seq(Ids) /\ 1 \in 1..Len(book[opp][level])
        /\ id = book[opp][level][1] /\ id \in Ids
    BY <1>1, <1>2, <1>3, SMTT(30) DEF BookTypes, IsBestLevel, Levels
  <1>5. maker \in Order /\ maker.id = id /\ maker.side = opp /\ maker.price = level
        /\ maker.amount \in Nat
    <2>1. maker \in Order /\ maker.id = id /\ maker.side = opp /\ maker.price = level
      <3> HIDE DEF opp
      <3>1. Home(node[book[opp][level][1]], book[opp][level][1], opp, level)
        BY <1>1, <1>2, <1>3, <1>4, Zenon DEF Linked, ListedNodes
      <3> HIDE DEF id
      <3> QED  BY <1>4, <3>1, Zenon DEF Home
    <2> QED  BY <2>1, Zenon DEF Order
  <1>6. t \in Nat /\ takerLeft \in Nat /\ makerLeft \in Nat
    <2> HIDE DEF maker
    <2> QED  BY <1>2, <1>5 DEF TradedAmount
  <1>7. levelTotal \in Nat
    <2>1. U32 * U32 \in Nat \ {0} /\ U32 \in Nat \ {0}
      BY BoundAssumption
    <2>2. NegatedTraded(t) \in Nat
      <3> HIDE DEF t
      <3> QED  BY <1>6, <2>1 DEF NegatedTraded
    <2>3. total[opp][level] \in Nat
      BY <1>1, <1>2, <1>3 DEF BookTypes
    <2> HIDE DEF t
    <2> QED  BY <2>1, <2>2, <2>3 DEF AddTotal
  <1>8. /\ taker' = [taker EXCEPT !.amount = takerLeft]
        /\ totalLocked' = locked
        /\ \/ makerLeft = 0 /\ DeleteOrder(maker, levelTotal)
           \/ /\ makerLeft > 0
              /\ node' = [node EXCEPT ![id].amount = makerLeft]
              /\ total' = [total EXCEPT ![opp][level] = levelTotal]
              /\ book' = book /\ orderMap' = orderMap
        /\ pc' \in {"match", "sweep"} /\ (pc' = "match" => book'[opp][level] # <<>>)
        /\ unlinked' = unlinked /\ best' = best /\ level' = level
        /\ nextId' = nextId /\ lost' = lost
    BY Zenon DEF Match
  <1>9. locked \in Int
    <2> HIDE DEF t
    <2>1. t * level \in Int /\ t \in Int
      BY <1>2, <1>6
    <2> QED  BY <1>3, <2>1
  <1> HIDE DEF t, takerLeft, makerLeft, levelTotal, locked, maker, id
  <1>10. /\ taker' \in Order /\ taker'.id = taker.id /\ taker'.side = taker.side
         /\ taker'.price = taker.price
    BY <1>1, <1>6, <1>8 DEF Order
  <1>11. /\ BookTypes' /\ Linked'
         /\ \A r \in Sides, q \in Prices : \A k \in 1..Len(book'[r][q]) :
              \E j \in 1..Len(book[r][q]) : book'[r][q][k] = book[r][q][j]
    <2>1. CASE DeleteOrder(maker, levelTotal)
      <3>1. maker = node[book[opp][level][1]]
        BY <1>4 DEF maker
      <3> QED  BY <1>1, <1>2, <1>3, <1>4, <1>7, <1>8, <2>1, <3>1, DeleteKeepsLinked, Zenon
    <2>2. CASE /\ node' = [node EXCEPT ![id].amount = makerLeft]
               /\ total' = [total EXCEPT ![opp][level] = levelTotal]
               /\ book' = book /\ orderMap' = orderMap
      <3>1. node' = [node EXCEPT ![id] = [maker EXCEPT !.amount = makerLeft]]
        BY <2>2 DEF maker
      <3> DEFINE rest == [maker EXCEPT !.amount = makerLeft]
      <3>2. rest \in Order /\ rest.id = maker.id /\ rest.side = maker.side
            /\ rest.price = maker.price
        BY <1>5, <1>6 DEF Order
      <3> HIDE DEF rest
      <3>3. node'[id] = rest /\ \A i \in Ids : i # id => node'[i] = node[i]
        BY <1>3, <1>4, <3>1 DEF BookTypes, rest
      <3>4. \A i \in Ids : node[i] \in Order
              => /\ node'[i] \in Order /\ node'[i].id = node[i].id
                 /\ node'[i].side = node[i].side /\ node'[i].price = node[i].price
        BY <3>2, <3>3 DEF maker
      <3>5. BookTypes'
        BY <1>1, <1>2, <1>3, <1>4, <1>7, <2>2, <3>1, <3>2, SMTT(30) DEF BookTypes, rest
      <3>6. ListedNodes'
        <4> SUFFICES ASSUME NEW r \in Sides, NEW q \in Prices, NEW k \in 1..Len(book[r][q])
                     PROVE  Home(node'[book[r][q][k]], book[r][q][k], r, q)
          BY <2>2, Zenon DEF ListedNodes
        <4>1. book[r][q][k] \in Ids
          BY <1>3 DEF BookTypes
        <4>2. Home(node[book[r][q][k]], book[r][q][k], r, q)
          BY <1>3, Zenon DEF Linked, ListedNodes
        <4> QED  BY <3>4, <4>1, <4>2, Zenon DEF Home
      <3>7. MapIsListed'
        <4> SUFFICES ASSUME NEW i \in orderMap
                     PROVE  /\ node'[i] \in Order
                            /\ \E k \in 1..Len(book[node'[i].side][node'[i].price]) :
                                 book[node'[i].side][node'[i].price][k] = i
          BY <2>2, Zenon DEF MapIsListed
        <4>1. i \in Ids
          BY <1>3 DEF BookTypes
        <4> QED  BY <1>3, <3>4, <4>1, Zenon DEF Linked, MapIsListed
      <3>8. Sorted' /\ ListedIsMapped'
        BY <1>3, <1>8, <2>2 DEF Linked, Sorted, ListedIsMapped
      <3> QED  BY <2>2, <3>5, <3>6, <3>7, <3>8 DEF Linked
    <2> QED  BY <1>8, <2>1, <2>2
  <1>12. /\ CachedBestIsBound' /\ Uncrossed'
         /\ \A r \in Sides : Levels(r)' \subseteq Levels(r)
         /\ \A r \in Sides, q \in Prices : \A k \in 1..Len(book'[r][q]) :
              /\ book'[r][q][k] < nextId
              /\ pc \in {"sweep", "match"} => book'[r][q][k] < taker.id
    BY <1>8, <1>11, FewerKeeps
  <1>13. TypeOK'
    <2>1. /\ unlinked \subseteq Ids /\ lost \subseteq Ids /\ best \in [Sides -> Int]
          /\ nextId \in Nat \ {0}
      BY DEF IInv, TypeOK
    <2> QED  BY <1>1, <1>8, <1>9, <1>10, <1>11, <2>1 DEF TypeOK, BookTypes
  <1>14. Fresh' /\ Sweeping'
    BY <1>1, <1>8, <1>10, <1>12 DEF Fresh, Sweeping
  <1>15. Matching'
    <2> SUFFICES ASSUME pc' = "match"
                 PROVE  /\ IsBestLevel(opp, level)' /\ Within(taker, level)'
      BY <1>1, <1>8, <1>10 DEF Matching
    <2>1. IsBestLevel(opp, level)'
      BY <1>1, <1>2, <1>8, <1>10, <1>12 DEF IsBestLevel, Levels
    <2>2. Within(taker, level)'
      BY <1>1, <1>8, <1>10 DEF Within
    <2> QED  BY <2>1, <2>2
  <1> QED  BY <1>11, <1>12, <1>13, <1>14, <1>15 DEF IInv

\* CancelOrder of a resting order.
LEMMA CancelKeeps ==
  ASSUME IInv, NEW client \in Clients, NEW id \in Ids, CancelOrder(client, id)
  PROVE  IInv'
  <1> DEFINE s == node[id].side
             p == node[id].price
             t == AddTotal(s, p, (U32 * U32) - node[id].amount)
  <1>1. /\ pc = "idle" /\ id \in orderMap /\ DeleteOrder(node[id], t)
        /\ UNCHANGED <<unlinked, best, pc, taker, level, totalLocked, nextId, lost>>
    BY Zenon DEF CancelOrder, CanCancel
  <1>2. BookTypes /\ Linked
    BY DEF IInv, TypeOK, BookTypes
  <1>3. node[id] \in Order /\ s \in Sides /\ p \in Prices /\ node[id].amount \in Nat
    <2>1. node[id] \in Order
      BY <1>1, <1>2 DEF Linked, MapIsListed
    <2> QED  BY <2>1 DEF Order
  <1>4. PICK at \in 1..Len(book[s][p]) : book[s][p][at] = id
    BY <1>1, <1>2, Zenon DEF Linked, MapIsListed
  <1>5. t \in Nat
    <2>1. U32 * U32 \in Nat \ {0}
      BY BoundAssumption
    <2>2. total[s][p] \in Nat
      BY <1>2, <1>3 DEF BookTypes
    <2>3. total[s][p] + ((U32 * U32) - node[id].amount) \in Int
      BY <1>3, <2>1, <2>2
    <2> QED  BY <2>1, <2>3 DEF AddTotal
  <1> HIDE DEF t, s, p
  <1>6. /\ BookTypes' /\ Linked'
        /\ \A r \in Sides, q \in Prices : \A k \in 1..Len(book'[r][q]) :
             \E j \in 1..Len(book[r][q]) : book'[r][q][k] = book[r][q][j]
    <2>1. DeleteOrder(node[book[s][p][at]], t) /\ unlinked' = unlinked
      BY <1>1, <1>4
    <2> QED  BY <1>2, <1>3, <1>4, <1>5, <2>1, DeleteKeepsLinked, Zenon
  <1>7. /\ CachedBestIsBound' /\ Uncrossed'
        /\ \A r \in Sides, q \in Prices : \A k \in 1..Len(book'[r][q]) :
             book'[r][q][k] < nextId
    BY <1>1, <1>6, FewerKeeps, Zenon
  <1>8. TypeOK'
    <2>1. /\ unlinked \subseteq Ids /\ lost \subseteq Ids /\ best \in [Sides -> Int]
          /\ nextId \in Nat \ {0} /\ taker \in Order \cup {NoOrder}
          /\ level \in Prices \cup {0} /\ totalLocked \in Int
      BY DEF IInv, TypeOK
    <2>2. BookTypes'
      BY <1>6, Zenon
    <2>3. /\ unlinked' = unlinked /\ lost' = lost /\ best' = best /\ nextId' = nextId
          /\ taker' = taker /\ level' = level /\ totalLocked' = totalLocked
          /\ pc' = "idle" /\ pc' \in {"idle", "sweep", "match", "halted"}
          /\ pc' \notin {"sweep", "match"}
      BY <1>1
    <2> QED  BY <2>1, <2>2, <2>3, Zenon DEF TypeOK, BookTypes
  <1>9. Fresh' /\ Sweeping' /\ Matching'
    BY <1>1, <1>7, Zenon DEF Fresh, Sweeping, Matching
  <1> QED  BY <1>6, <1>7, <1>8, <1>9 DEF IInv

\* The invariant does not look at the reports and updates of the last step.
LEMMA StutterKeeps ==
  ASSUME IInv, UNCHANGED <<book, total, node, orderMap, unlinked, best, pc, taker, level,
                           totalLocked, nextId, lost>>
  PROVE  IInv'
  <1>1. TypeOK'
    BY DEF IInv, TypeOK
  <1>2. Linked' /\ Fresh'
    <2>1. Linked'
      BY SameBook DEF IInv
    <2>2. Fresh'
      BY DEF IInv, Fresh
    <2> QED  BY <2>1, <2>2
  <1>3. Sweeping' /\ Matching'
    BY Zenon DEF IInv, Sweeping, Matching, IsBestLevel, Levels, Within
  <1>4. CachedBestIsBound' /\ Uncrossed'
    BY Zenon DEF IInv, CachedBestIsBound, Uncrossed, Levels
  <1> QED  BY <1>1, <1>2, <1>3, <1>4 DEF IInv

\* A rejected cancel changes nothing, and one that names the other side only
\* takes its order out of OrderMap.
LEMMA OtherCancelsKeep ==
  ASSUME IInv, NEW client \in Clients, NEW id \in Ids,
         RejectCancel(client, id) \/ CancelOtherSide(client, id)
  PROVE  IInv'
  <1>1. CASE RejectCancel(client, id)
    <2>1. UNCHANGED <<book, total, node, orderMap, unlinked, best, pc, taker, level,
                      totalLocked, nextId, lost>>
      BY <1>1 DEF RejectCancel, bookVars
    <2> QED  BY <2>1, StutterKeeps
  <1>2. CASE CancelOtherSide(client, id)
    <2>1. /\ orderMap' = orderMap \ {id} /\ unlinked' = unlinked \cup {id} /\ pc' = "halted"
          /\ UNCHANGED <<book, total, node, best, taker, level, totalLocked, nextId, lost>>
      BY <1>2 DEF CancelOtherSide
    <2>2. TypeOK'
      BY <2>1 DEF IInv, TypeOK
    <2>3. Linked'
      <3>1. Linked
        BY DEF IInv
      <3>2. ListedNodes' /\ Sorted'
        <4>1. book' = book /\ node' = node
          BY <2>1
        <4>2. ListedNodes'
          BY <3>1, <4>1, Zenon DEF Linked, ListedNodes
        <4>3. Sorted'
          BY <3>1, <4>1 DEF Linked, Sorted, SortedSeq
        <4> QED  BY <4>2, <4>3
      <3>3. MapIsListed'
        BY <2>1, <3>1, Zenon DEF Linked, MapIsListed
      <3>4. unlinked' # {}
        BY <2>1
      <3>5. ListedIsMapped'
        BY <3>4 DEF ListedIsMapped
      <3> QED  BY <3>2, <3>3, <3>5 DEF Linked
    <2>4. Fresh' /\ Sweeping' /\ Matching' /\ CachedBestIsBound' /\ Uncrossed'
      BY <2>1, Zenon DEF IInv, Fresh, Sweeping, Matching, CachedBestIsBound, Uncrossed, Levels
    <2> QED  BY <2>2, <2>3, <2>4 DEF IInv
  <1> QED  BY <1>1, <1>2

\* Every step of the engine keeps the invariant.
THEOREM NextIInv == IInv /\ [Next]_vars => IInv'
  <1> SUFFICES ASSUME IInv, [Next]_vars PROVE IInv'
    OBVIOUS
  <1>1. CASE UNCHANGED vars
    BY <1>1, StutterKeeps DEF vars, bookVars
  <1> QED  BY <1>1, ExecuteKeeps, EnterKeeps, LeaveKeeps, MatchKeeps, CancelKeeps,
              OtherCancelsKeep DEF Next

\* The engine always satisfies the inductive invariant.
THEOREM Invariance == Spec => []IInv
  BY InitIInv, NextIInv, PTL DEF Spec

\* Type correctness of the matching engine's state (bid_ask.hpp).
THEOREM TypeCorrect == Spec => []TypeOK
  BY Invariance, PTL DEF IInv

\* The book is never crossed or locked, also in the middle of a sweep, although
\* IsMarketable decides on a cached price that cancels and sweeps leave stale.
THEOREM NeverCrossed == Spec => []Uncrossed
  BY Invariance, PTL DEF IInv

\* The cached best prices err only in the direction that makes the engine look.
THEOREM CachedBestCorrect == Spec => []CachedBestIsBound
  BY Invariance, PTL DEF IInv

\* OrderMap holds exactly the resting orders as long as no cancel has named the
\* wrong side, nodes agree with the level that lists them, and every level is in
\* arrival order.
THEOREM OrderMapCorrect == Spec => []OrderMapExact
  <1>1. IInv => OrderMapExact
    <2> SUFFICES ASSUME IInv PROVE OrderMapExact
      OBVIOUS
    <2>1. BookTypes /\ Linked
      BY DEF IInv, TypeOK, BookTypes
    <2>2. \A s \in Sides, p \in Prices :
            DOMAIN book[s][p] = 1..Len(book[s][p]) /\ book[s][p] \in Seq(Ids)
      BY <2>1 DEF BookTypes
    <2>3. ASSUME unlinked = {} PROVE orderMap = Resting
      <3>1. ASSUME NEW i \in orderMap PROVE i \in Resting
        <4>1. i \in Ids /\ node[i] \in Order
          BY <2>1 DEF BookTypes, Linked, MapIsListed
        <4>2. node[i].side \in Sides /\ node[i].price \in Prices
          BY <4>1 DEF Order
        <4>3. PICK k \in 1..Len(book[node[i].side][node[i].price]) :
                book[node[i].side][node[i].price][k] = i
          BY <2>1 DEF Linked, MapIsListed
        <4>4. i \in Range(book[node[i].side][node[i].price])
          BY <2>2, <4>2, <4>3, Zenon DEF Range
        <4> QED  BY <4>1, <4>2, <4>4 DEF Resting
      <3>2. ASSUME NEW i \in Resting PROVE i \in orderMap
        <4>1. PICK s \in Sides, p \in Prices : i \in Range(book[s][p])
          BY DEF Resting
        <4>2. PICK k \in 1..Len(book[s][p]) : i = book[s][p][k]
          BY <2>2, <4>1 DEF Range
        <4> QED  BY <2>1, <2>3, <4>2 DEF Linked, ListedIsMapped
      <3> QED  BY <3>1, <3>2
    <2>4. \A s \in Sides, p \in Prices : \A i \in DOMAIN book[s][p] :
            /\ node[book[s][p][i]].side = s /\ node[book[s][p][i]].price = p
            /\ \A j \in DOMAIN book[s][p] : i < j => book[s][p][i] < book[s][p][j]
      <3> SUFFICES ASSUME NEW s \in Sides, NEW p \in Prices, NEW i \in DOMAIN book[s][p]
                   PROVE  /\ node[book[s][p][i]].side = s /\ node[book[s][p][i]].price = p
                          /\ \A j \in DOMAIN book[s][p] : i < j => book[s][p][i] < book[s][p][j]
        BY Zenon
      <3>1. i \in 1..Len(book[s][p]) /\ DOMAIN book[s][p] = 1..Len(book[s][p])
        BY <2>2, Zenon
      <3>2. Home(node[book[s][p][i]], book[s][p][i], s, p)
        BY <2>1, <3>1, Zenon DEF Linked, ListedNodes
      <3>3. SortedSeq(book[s][p])
        BY <2>1, Zenon DEF Linked, Sorted
      <3> QED  BY <3>1, <3>2, <3>3, Zenon DEF Home, SortedSeq
    <2> QED  BY <2>3, <2>4 DEF OrderMapExact
  <1> QED  BY <1>1, Invariance, PTL

-----------------------------------------------------------------------------
(* Price-time priority *)

\* An order that trades while it rests has the best price of its side and is
\* the oldest order there: the engine matches by price, then by arrival.
THEOREM PriceTime == Spec => PriceTimePriority
  <1> DEFINE Priority ==
               \A i \in orderMap :
                 (pc = "match" /\ node'[i] # node[i])
                   => \A j \in orderMap \ {i} :
                        node[j].side = node[i].side
                          => \/ Better(node[i].side, node[i].price, node[j].price)
                             \/ node[i].price = node[j].price /\ i < j
  <1>1. ASSUME IInv, Next PROVE Priority
    <2> SUFFICES ASSUME NEW i \in orderMap, pc = "match", node'[i] # node[i],
                        NEW j \in orderMap \ {i}, node[j].side = node[i].side
                 PROVE  \/ Better(node[i].side, node[i].price, node[j].price)
                        \/ node[i].price = node[j].price /\ i < j
      OBVIOUS
    <2> DEFINE opp == Opp(taker.side)
               id == Head(book[opp][level])
    <2>1. Match
      BY <1>1, Zenon DEF Next, executeOrder, EnterLevel, LeaveLoop, RejectCancel, CancelOrder,
                  CancelOtherSide
    <2>2. BookTypes /\ Linked /\ i \in Ids /\ j \in Ids
      BY <1>1 DEF IInv, TypeOK, BookTypes
    <2>3. level \in Prices /\ IsBestLevel(opp, level) /\ opp \in Sides
      BY <1>1, Zenon DEF IInv, Matching, Opp, Sides
    <2>4. book[opp][level] \in Seq(Ids) /\ id = book[opp][level][1]
          /\ 1 \in 1..Len(book[opp][level])
      BY <2>2, <2>3 DEF BookTypes, IsBestLevel, Levels
    <2>5. node[id].id = id /\ node[id].side = opp /\ node[id].price = level
      <3>1. ListedNodes
        BY <2>2 DEF Linked
      <3> HIDE DEF id, opp
      <3>2. Home(node[book[opp][level][1]], book[opp][level][1], opp, level)
        BY <2>3, <2>4, <3>1, Zenon DEF ListedNodes
      <3> QED  BY <2>4, <3>2, Zenon DEF Home
    <2> HIDE DEF id
    <2>6. i = id
      <3>1. \/ DeleteOrder(node[id], AddTotal(opp, level, NegatedTraded(
                             TradedAmount(taker.amount, node[id].amount))))
            \/ \E a : node' = [node EXCEPT ![id].amount = a]
        BY <2>1, Zenon DEF Match, id
      <3>2. \E x : node' = [node EXCEPT ![id] = x]
        BY <2>5, <3>1 DEF DeleteOrder
      <3> QED  BY <2>2, <3>2 DEF BookTypes
    <2>7. PICK k \in 1..Len(book[opp][node[j].price]) : book[opp][node[j].price][k] = j
      BY <2>2, <2>5, <2>6, SMTT(30) DEF Linked, MapIsListed
    <2>8. node[j] \in Order
      BY <2>2 DEF Linked, MapIsListed
    <2>9. node[j].price \in Prices
      BY <2>8, Zenon DEF Order
    <2>10. CASE node[j].price = level
      <3>1. k # 1
        BY <2>4, <2>6, <2>7, <2>10, Zenon
      <3>2. book[opp][level][1] < book[opp][level][k]
        BY <2>2, <2>3, <2>4, <2>7, <2>10, <3>1, SMTT(30) DEF Linked, Sorted, SortedSeq
      <3> QED  BY <2>4, <2>5, <2>6, <2>7, <2>10, <3>2, Zenon
    <2>11. CASE node[j].price # level
      <3>1. node[j].price \in Levels(opp)
        BY <2>2, <2>3, <2>7, <2>9 DEF Levels, BookTypes
      <3>2. ~Better(opp, node[j].price, level)
        BY <2>3, <3>1, Zenon DEF IsBestLevel
      <3>3. \A p, q \in Int : p # q /\ ~Better(opp, p, q) => Better(opp, q, p)
        BY DEF Better
      <3>4. Better(opp, level, node[j].price)
        BY <2>3, <2>9, <2>11, <3>2, <3>3, PriceInt, Zenon
      <3> QED  BY <2>5, <2>6, <3>4
    <2> QED  BY <2>10, <2>11, Zenon
  <1>2. IInv /\ [Next]_vars => [Priority]_vars
    BY <1>1
  <1> QED  BY <1>2, Invariance, PTL DEF Spec, PriceTimePriority
=============================================================================
