------------------------- MODULE ClientStatesProofs -------------------------
(***************************************************************************)
(* The triple buffer keeps every change exactly once, and a copy that      *)
(* overlaps at most one flush is consistent, for every number of positions *)
(* and every sequence of calls.                                            *)
(***************************************************************************)
EXTENDS ClientStates, TLAPS

SameHeader(x, y) == x.client = y.client /\ x.auth = y.auth /\ x.session = y.session

\* x is y plus the delta d, as balances.
IsPlus(x, y, d) == x.conf = y.conf + d.conf /\ x.att = y.att + d.att

\* The buffer that was published before.
Old == After(Work)

\* The previous buffer lags behind the published one by its own deltas.
OldLags ==
    \A p \in Positions : IsPlus(states[complete].pos[p], states[Old].pos[p], deltas[Old][p])

\* Outside a flush the next buffer has the published balances, and the deltas of
\* this generation are what separates those from the account.
Pending ==
    wPc # "carry" =>
        /\ SameHeader(states[Work], account)
        /\ \A p \in Positions :
             /\ states[Work].pos[p].asset = account.pos[p].asset
             /\ states[Work].pos[p].conf = states[complete].pos[p].conf
             /\ states[Work].pos[p].att = states[complete].pos[p].att
             /\ IsPlus(account.pos[p], states[complete].pos[p], deltas[complete][p])

Settled == wPc \in {"idle", "carry"} => states[complete] = account

NothingPending == wPc \in {"idle", "auth"} => \A p \in Positions : deltas[complete][p] = NoDelta

\* Inside a flush, the positions before carry have caught up, the others lag
\* behind the previous buffer by the deltas of the generation before it.
Carried ==
    wPc = "carry" =>
        \A p \in Positions :
            IF p < carry
              THEN states[Work].pos[p] = states[complete].pos[p] /\ deltas[complete][p] = NoDelta
              ELSE IsPlus(states[Old].pos[p], states[Work].pos[p], deltas[Work][p])

\* A reader that has met at most one flush reads a buffer nobody writes.
Reading ==
    /\ overlap = 0 => rIdx = complete
    /\ overlap = 1 => rIdx = Old
    /\ overlap <= 1 =>
         /\ states[rIdx] = snap
         /\ Header \notin rLeft => SameHeader(copy, snap)
         /\ \A p \in Positions \ rLeft : copy.pos[p] = snap.pos[p]

IInv == TypeOK /\ OldLags /\ Pending /\ Settled /\ NothingPending /\ Carried /\ Reading

-----------------------------------------------------------------------------
(* Records and indices *)

\* The three buffers are different.
LEMMA Rotation ==
  \A c \in Buffers :
    /\ After(c) \in Buffers /\ After(After(c)) \in Buffers
    /\ After(c) # c /\ After(After(c)) # c /\ After(After(c)) # After(c)
    /\ After(After(After(c))) = c
    /\ {c, After(c), After(After(c))} = {0, 1, 2}
  BY DEF Buffers, After

\* States with equal fields are equal.
LEMMA StateEqual ==
  \A x, y \in State :
    SameHeader(x, y) /\ (\A p \in Positions : x.pos[p] = y.pos[p]) => x = y
  <1> SUFFICES ASSUME NEW x \in State, NEW y \in State, SameHeader(x, y),
                      \A p \in Positions : x.pos[p] = y.pos[p]
               PROVE  x = y
    OBVIOUS
  <1>1. x.pos \in [Positions -> Position] /\ y.pos \in [Positions -> Position]
    BY DEF State
  <1>2. x.pos = y.pos
    BY <1>1
  <1> QED  BY <1>2 DEF State, SameHeader

\* So are positions.
LEMMA PositionEqual ==
  \A x, y \in Position : x.asset = y.asset /\ x.conf = y.conf /\ x.att = y.att => x = y
  BY DEF Position

\* The fields of the states and deltas have their types.
LEMMA Fieldwise ==
  ASSUME TypeOK, NEW b \in Buffers, NEW p \in Positions
  PROVE  /\ states[b] \in State /\ states[b].pos \in [Positions -> Position]
         /\ states[b].pos[p] \in Position
         /\ states[b].pos[p].asset \in Assets
         /\ states[b].pos[p].conf \in Int /\ states[b].pos[p].att \in Int
         /\ deltas[b][p] \in [conf : Int, att : Int]
         /\ deltas[b][p].conf \in Int /\ deltas[b][p].att \in Int
  <1>1. states[b] \in State /\ deltas[b][p] \in [conf : Int, att : Int]
    BY DEF TypeOK
  <1>2. states[b].pos \in [Positions -> Position]
    BY <1>1 DEF State
  <1>3. states[b].pos[p] \in Position
    BY <1>2
  <1> QED  BY <1>1, <1>2, <1>3 DEF Position

\* Adding a delta to a position yields a position of the same asset.
LEMMA AddToType ==
  \A x \in Position, d \in [conf : Int, att : Int] :
    /\ AddTo(x, d) \in Position /\ AddTo(x, d).asset = x.asset
    /\ IsPlus(AddTo(x, d), x, d)
  BY DEF AddTo, Position, IsPlus

-----------------------------------------------------------------------------
(* The initial state *)

\* The zeroed buffers of the constructor satisfy the invariant.
LEMMA InitIInv == Init => IInv
  <1> SUFFICES ASSUME Init PROVE IInv
    OBVIOUS
  <1>1. Fresh \in State /\ \A p \in Positions : Fresh.pos[p].conf = 0 /\ Fresh.pos[p].att = 0
    BY FreshAssumption DEF Fresh, State, Position
  <1>2. NoDelta \in [conf : Int, att : Int] /\ NoDelta.conf = 0 /\ NoDelta.att = 0
    BY DEF NoDelta
  <1>3. \A b \in Buffers : states[b] = Fresh /\ \A p \in Positions : deltas[b][p] = NoDelta
    BY DEF Init
  <1>4. TypeOK
    BY <1>1, <1>2, PositionsAssumption DEF Init, TypeOK, Buffers
  <1>5. complete \in Buffers /\ Work \in Buffers /\ Old \in Buffers
    BY Rotation, <1>4 DEF TypeOK, Work, Old
  <1>6. OldLags /\ Pending
    BY <1>1, <1>2, <1>3, <1>5 DEF Init, OldLags, Pending, IsPlus, SameHeader
  <1>7. Settled /\ NothingPending /\ Carried
    BY <1>3, <1>5 DEF Init, Settled, NothingPending, Carried
  <1>8. Reading
    BY <1>3, <1>5 DEF Init, Reading, SameHeader
  <1> QED  BY <1>4, <1>6, <1>7, <1>8 DEF IInv

-----------------------------------------------------------------------------
(* The calls *)

\* SetClientAssets adds the change to the deltas of the positions of its asset.
LEMMA AssetsKeep ==
  ASSUME IInv, NEW d \in Deltas, SetClientAssets(d)
  PROVE  IInv'
  <1>1. TypeOK /\ complete \in Buffers /\ Work \in Buffers /\ Old \in Buffers
        /\ Old # complete /\ Work # complete
    BY Rotation DEF IInv, TypeOK, Work, Old
  <1>2. /\ wPc \in {"idle", "assets"} /\ wPc' = "assets"
        /\ UNCHANGED <<states, complete, carry, flushes, rIdx, rLeft, copy, snap, overlap>>
        /\ Work' = Work /\ Old' = Old /\ calls' = calls + 1
    BY DEF SetClientAssets, rVars, Work, Old
  <1>3. d \in Position /\ d.conf \in Int /\ d.att \in Int
    BY InputAssumption DEF Position
  <1> DEFINE hit(p) == states[Work].pos[p].asset = d.asset
             newDelta == [p \in Positions |-> IF hit(p) THEN Plus(deltas[complete][p], d)
                                              ELSE deltas[complete][p]]
             newPos == [p \in Positions |-> IF account.pos[p].asset = d.asset
                                              THEN AddTo(account.pos[p], d) ELSE account.pos[p]]
  <1>4. deltas' = [deltas EXCEPT ![complete] = newDelta]
        /\ account' = [account EXCEPT !.pos = newPos]
    BY DEF SetClientAssets
  <1>5. \A p \in Positions : Plus(deltas[complete][p], d) \in [conf : Int, att : Int]
    BY <1>1, <1>3, Fieldwise DEF Plus
  <1>6. newDelta \in [Positions -> [conf : Int, att : Int]]
    BY <1>1, <1>5, Fieldwise
  <1>7. /\ account \in State /\ account.pos \in [Positions -> Position]
        /\ \A p \in Positions : account.pos[p] \in Position
    BY <1>1 DEF TypeOK, State
  <1>8. newPos \in [Positions -> Position]
    <2>1. \A p \in Positions : AddTo(account.pos[p], d) \in Position
      BY <1>3, <1>7 DEF AddTo, Position
    <2> QED  BY <1>7, <2>1
  <1> HIDE DEF newDelta, newPos
  <1>9. /\ account' \in State /\ SameHeader(account', account) /\ account'.pos = newPos
    BY <1>4, <1>7, <1>8 DEF State, SameHeader
  <1>10. TypeOK'
    BY <1>1, <1>2, <1>4, <1>6, <1>9 DEF TypeOK
  <1>11. deltas'[complete] = newDelta /\ deltas'[Old] = deltas[Old]
    BY <1>1, <1>4 DEF TypeOK
  <1>12. OldLags'
    BY <1>2, <1>11 DEF IInv, OldLags
  <1>13. Pending'
    <2>1. ASSUME NEW p \in Positions
          PROVE  /\ states[Work].pos[p].asset = account'.pos[p].asset
                 /\ IsPlus(account'.pos[p], states[complete].pos[p], newDelta[p])
      <3>1. /\ states[Work].pos[p].asset = account.pos[p].asset
            /\ IsPlus(account.pos[p], states[complete].pos[p], deltas[complete][p])
        BY <1>2 DEF IInv, Pending
      <3>2. CASE hit(p)
        <4>1. newDelta[p] = Plus(deltas[complete][p], d)
              /\ account'.pos[p] = AddTo(account.pos[p], d)
          BY <1>9, <3>1, <3>2, Zenon DEF newDelta, newPos
        <4>2. /\ states[complete].pos[p].conf \in Int /\ states[complete].pos[p].att \in Int
              /\ deltas[complete][p].conf \in Int /\ deltas[complete][p].att \in Int
          BY <1>1, Fieldwise
        <4> QED  BY <1>3, <3>1, <4>1, <4>2 DEF IsPlus, AddTo, Plus
      <3>3. CASE ~hit(p)
        BY <1>9, <3>1, <3>3 DEF newDelta, newPos
      <3> QED  BY <3>2, <3>3
    <2>2. SameHeader(states[Work], account')
      BY <1>2, <1>9 DEF IInv, Pending, SameHeader
    <2>3. \A p \in Positions :
            /\ states[Work].pos[p].conf = states[complete].pos[p].conf
            /\ states[Work].pos[p].att = states[complete].pos[p].att
      BY <1>2 DEF IInv, Pending
    <2> QED  BY <1>2, <1>11, <2>1, <2>2, <2>3 DEF Pending
  <1>14. Settled' /\ NothingPending' /\ Carried'
    BY <1>2 DEF Settled, NothingPending, Carried
  <1>15. Reading'
    BY <1>2 DEF IInv, Reading
  <1> QED  BY <1>10, <1>12, <1>13, <1>14, <1>15 DEF IInv

\* SetClientState records the snapshot as a difference with the published buffer.
LEMMA StateKeeps ==
  ASSUME IInv, NEW r \in Snapshots, SetClientState(r)
  PROVE  IInv'
  <1>1. TypeOK /\ complete \in Buffers /\ Work \in Buffers /\ Old \in Buffers
        /\ Old # complete /\ Work # complete /\ Old # Work
    BY Rotation DEF IInv, TypeOK, Work, Old
  <1>2. /\ wPc = "idle" /\ wPc' = "state"
        /\ UNCHANGED <<complete, carry, calls, flushes, rIdx, rLeft, copy, snap, overlap>>
        /\ Work' = Work /\ Old' = Old
    BY DEF SetClientState, rVars, Work, Old
  <1> DEFINE w == states[Work]
             newPos == [p \in Positions |-> [asset |-> r.pos[p].asset,
                                             conf |-> w.pos[p].conf, att |-> w.pos[p].att]]
             newState == [client |-> r.client, auth |-> 1, session |-> w.session + 1,
                          pos |-> newPos]
             newDelta == [p \in Positions |->
                            [conf |-> r.pos[p].conf - states[complete].pos[p].conf,
                             att |-> r.pos[p].att - states[complete].pos[p].att]]
             newAccount == [client |-> r.client, auth |-> 1,
                            session |-> account.session + 1, pos |-> r.pos]
  <1>3. /\ states' = [states EXCEPT ![Work] = newState]
        /\ deltas' = [deltas EXCEPT ![complete] = newDelta]
        /\ account' = newAccount
    BY DEF SetClientState
  <1>4. /\ r.client \in Clients /\ r.pos \in [Positions -> Position]
        /\ \A p \in Positions : /\ r.pos[p] \in Position /\ r.pos[p].asset \in Assets
                                /\ r.pos[p].conf \in Int /\ r.pos[p].att \in Int
    BY InputAssumption DEF Position
  <1>5. w \in State /\ w.session \in Nat /\ account.session \in Nat
    BY <1>1 DEF TypeOK, State
  <1>6. newPos \in [Positions -> Position]
    <2>1. \A p \in Positions : [asset |-> r.pos[p].asset, conf |-> w.pos[p].conf,
                                att |-> w.pos[p].att] \in Position
      BY <1>1, <1>4, Fieldwise DEF Position
    <2> QED  BY <2>1
  <1>7. newDelta \in [Positions -> [conf : Int, att : Int]]
    <2>1. \A p \in Positions : /\ r.pos[p].conf - states[complete].pos[p].conf \in Int
                               /\ r.pos[p].att - states[complete].pos[p].att \in Int
      BY <1>1, <1>4, Fieldwise
    <2> QED  BY <2>1
  <1>8. \A p \in Positions :
          /\ newPos[p].asset = r.pos[p].asset
          /\ newPos[p].conf = w.pos[p].conf /\ newPos[p].att = w.pos[p].att
          /\ newDelta[p].conf = r.pos[p].conf - states[complete].pos[p].conf
          /\ newDelta[p].att = r.pos[p].att - states[complete].pos[p].att
    OBVIOUS
  <1> HIDE DEF newPos, newDelta
  <1>9. newState \in State /\ newAccount \in State
    BY <1>4, <1>5, <1>6 DEF State
  <1>10. SameHeader(newState, newAccount)
    <2>1. SameHeader(w, account)
      BY <1>2 DEF IInv, Pending
    <2> QED  BY <2>1 DEF SameHeader
  <1>11. newState.pos = newPos /\ newAccount.pos = r.pos
    OBVIOUS
  <1> HIDE DEF newState, newAccount, w
  <1>12. TypeOK'
    BY <1>1, <1>2, <1>3, <1>7, <1>9 DEF TypeOK
  <1>13. /\ states'[Work] = newState /\ states'[complete] = states[complete]
         /\ states'[Old] = states[Old]
         /\ deltas'[complete] = newDelta /\ deltas'[Old] = deltas[Old]
    BY <1>1, <1>3 DEF TypeOK
  <1>14. OldLags'
    BY <1>2, <1>13 DEF IInv, OldLags
  <1>15. Pending'
    <2>1. ASSUME NEW p \in Positions
          PROVE  /\ newPos[p].asset = r.pos[p].asset
                 /\ newPos[p].conf = states[complete].pos[p].conf
                 /\ newPos[p].att = states[complete].pos[p].att
                 /\ IsPlus(r.pos[p], states[complete].pos[p], newDelta[p])
      <3>1. /\ w.pos[p].conf = states[complete].pos[p].conf
            /\ w.pos[p].att = states[complete].pos[p].att
        BY <1>2 DEF IInv, Pending, w
      <3>2. states[complete].pos[p].conf \in Int /\ states[complete].pos[p].att \in Int
        BY <1>1, Fieldwise
      <3> QED  BY <1>4, <1>8, <3>1, <3>2 DEF IsPlus
    <2> QED  BY <1>2, <1>3, <1>10, <1>11, <1>13, <2>1 DEF Pending
  <1>16. Settled' /\ NothingPending' /\ Carried'
    BY <1>2 DEF Settled, NothingPending, Carried
  <1>17. Reading'
    <2>1. overlap <= 1 => rIdx \in {complete, Old}
      BY <1>1 DEF IInv, TypeOK, Reading
    <2> QED  BY <1>2, <1>13, <2>1 DEF IInv, Reading
  <1> QED  BY <1>12, <1>14, <1>15, <1>16, <1>17 DEF IInv

\* SetAuthStatus writes the next buffer only.
LEMMA AuthKeeps ==
  ASSUME IInv, SetAuthStatus(0)
  PROVE  IInv'
  <1>1. TypeOK /\ complete \in Buffers /\ Work \in Buffers /\ Old \in Buffers
        /\ Old # complete /\ Work # complete /\ Old # Work
    BY Rotation DEF IInv, TypeOK, Work, Old
  <1>2. /\ wPc = "idle" /\ wPc' = "auth"
        /\ UNCHANGED <<deltas, complete, carry, calls, flushes, rIdx, rLeft, copy, snap, overlap>>
        /\ Work' = Work /\ Old' = Old
        /\ states' = [states EXCEPT ![Work].auth = 0]
        /\ account' = [account EXCEPT !.auth = 0]
    BY DEF SetAuthStatus, rVars, Work, Old
  <1>3. states[Work] \in State /\ account \in State
    BY <1>1 DEF TypeOK
  <1>4. /\ states'[Work] = [states[Work] EXCEPT !.auth = 0]
        /\ states'[complete] = states[complete] /\ states'[Old] = states[Old]
    BY <1>1, <1>2 DEF TypeOK
  <1>5. /\ [states[Work] EXCEPT !.auth = 0] \in State /\ account' \in State
        /\ states'[Work].pos = states[Work].pos /\ account'.pos = account.pos
    BY <1>2, <1>3, <1>4 DEF State
  <1>6. SameHeader(states'[Work], account')
    <2>1. SameHeader(states[Work], account)
      BY <1>2 DEF IInv, Pending
    <2> QED  BY <1>2, <1>3, <1>4, <2>1 DEF SameHeader, State
  <1>7. TypeOK'
    <2>1. states' \in [Buffers -> State]
      BY <1>1, <1>2, <1>5 DEF TypeOK
    <2> QED  BY <1>1, <1>2, <1>5, <2>1 DEF TypeOK
  <1>8. OldLags'
    BY <1>2, <1>4 DEF IInv, OldLags
  <1>9. Pending'
    BY <1>2, <1>4, <1>5, <1>6 DEF IInv, Pending
  <1>10. Settled' /\ NothingPending' /\ Carried'
    BY <1>2 DEF IInv, Settled, NothingPending, Carried
  <1>11. Reading'
    <2>1. overlap <= 1 => rIdx \in {complete, Old}
      BY <1>1 DEF IInv, TypeOK, Reading
    <2> QED  BY <1>2, <1>4, <2>1 DEF IInv, Reading
  <1> QED  BY <1>7, <1>8, <1>9, <1>10, <1>11 DEF IInv

-----------------------------------------------------------------------------
(* The flush *)

\* The next buffer plus this generation's deltas is the account, and becomes the
\* published one; the buffer published before becomes the previous one.
LEMMA PublishKeeps ==
  ASSUME IInv, Publish
  PROVE  IInv'
  <1>1. TypeOK /\ complete \in Buffers /\ Work \in Buffers /\ Old \in Buffers
        /\ Old # complete /\ Work # complete /\ Old # Work /\ After(Old) = complete
    BY Rotation DEF IInv, TypeOK, Work, Old
  <1>2. /\ wPc # "carry" /\ wPc' = "carry" /\ carry' = 1 /\ calls' = 0
        /\ flushes' = flushes + 1 /\ overlap' = overlap + 1 /\ complete' = Work
        /\ UNCHANGED <<deltas, account, rIdx, rLeft, copy, snap>>
    BY DEF Publish, rVars
  <1>3. Work' = Old /\ Old' = complete
    BY <1>1, <1>2 DEF Work, Old
  <1> DEFINE newPos == [p \in Positions |-> AddTo(states[Work].pos[p], deltas[complete][p])]
  <1>4. states' = [states EXCEPT ![Work].pos = newPos]
    BY DEF Publish
  <1>5. \A p \in Positions :
          /\ AddTo(states[Work].pos[p], deltas[complete][p]) \in Position
          /\ AddTo(states[Work].pos[p], deltas[complete][p]).asset = states[Work].pos[p].asset
          /\ IsPlus(AddTo(states[Work].pos[p], deltas[complete][p]),
                    states[Work].pos[p], deltas[complete][p])
    BY <1>1, Fieldwise, AddToType
  <1>6. newPos \in [Positions -> Position]
    BY <1>5
  <1>7. \A p \in Positions : newPos[p] = AddTo(states[Work].pos[p], deltas[complete][p])
    OBVIOUS
  <1> HIDE DEF newPos
  <1>8. /\ states'[Work] = [states[Work] EXCEPT !.pos = newPos]
        /\ states'[complete] = states[complete] /\ states'[Old] = states[Old]
    BY <1>1, <1>4 DEF TypeOK
  <1>9. /\ states'[Work] \in State /\ states'[Work].pos = newPos
        /\ SameHeader(states'[Work], states[Work])
    BY <1>1, <1>6, <1>8, Zenon DEF TypeOK, State, SameHeader
  <1>10. TypeOK'
    <2>1. states' \in [Buffers -> State]
      BY <1>1, <1>4, <1>8, <1>9 DEF TypeOK
    <2> QED  BY <1>1, <1>2, <2>1, PositionsAssumption DEF TypeOK
  <1>11. \A p \in Positions :
            /\ newPos[p] = account.pos[p]
            /\ IsPlus(newPos[p], states[complete].pos[p], deltas[complete][p])
    <2> TAKE p \in Positions
    <2>1. /\ states[Work].pos[p].asset = account.pos[p].asset
          /\ states[Work].pos[p].conf = states[complete].pos[p].conf
          /\ states[Work].pos[p].att = states[complete].pos[p].att
          /\ IsPlus(account.pos[p], states[complete].pos[p], deltas[complete][p])
      BY <1>2 DEF IInv, Pending
    <2>2. IsPlus(newPos[p], states[complete].pos[p], deltas[complete][p])
      BY <1>5, <1>7, <2>1 DEF IsPlus
    <2>3. /\ newPos[p].asset = account.pos[p].asset
          /\ newPos[p].conf = account.pos[p].conf /\ newPos[p].att = account.pos[p].att
      BY <1>5, <1>7, <2>1, <2>2 DEF IsPlus
    <2>4. newPos[p] \in Position /\ account.pos[p] \in Position
      BY <1>1, <1>6 DEF TypeOK, State
    <2> QED  BY <2>2, <2>3, <2>4, PositionEqual
  <1>12. OldLags'
    BY <1>2, <1>3, <1>8, <1>9, <1>11 DEF OldLags
  <1>13. Settled'
    <2>1. SameHeader(states'[Work], account)
      BY <1>2, <1>9 DEF IInv, Pending, SameHeader
    <2>2. states'[Work] = account
      BY <1>1, <1>9, <1>11, <2>1, StateEqual, Zenon DEF TypeOK
    <2> QED  BY <1>2, <2>2 DEF Settled
  <1>14. Pending' /\ NothingPending'
    BY <1>2 DEF Pending, NothingPending
  <1>15. Carried'
    <2>1. \A p \in Positions : ~(p < 1)
      BY DEF Positions
    <2>2. \A p \in Positions : IsPlus(states[complete].pos[p], states[Old].pos[p], deltas[Old][p])
      BY DEF IInv, OldLags
    <2> QED  BY <1>2, <1>3, <1>8, <2>1, <2>2 DEF Carried
  <1>16. Reading'
    <2>1. overlap \in Nat
      BY <1>1 DEF TypeOK
    <2>2. CASE overlap = 0
      BY <1>2, <1>3, <1>8, <2>2 DEF IInv, Reading
    <2>3. CASE overlap # 0
      <3>1. ~(overlap' <= 1) /\ overlap' # 0 /\ overlap' # 1
        BY <1>2, <2>1, <2>3
      <3> QED  BY <3>1 DEF Reading
    <2> QED  BY <2>2, <2>3
  <1> QED  BY <1>10, <1>12, <1>13, <1>14, <1>15, <1>16 DEF IInv

\* One position of the oldest buffer catches up with the published one.
LEMMA CarryKeeps ==
  ASSUME IInv, CarryPosition
  PROVE  IInv'
  <1>1. TypeOK /\ complete \in Buffers /\ Work \in Buffers /\ Old \in Buffers
        /\ Old # complete /\ Work # complete /\ Old # Work
        /\ {complete, Work, Old} = {0, 1, 2}
    BY Rotation, Zenon DEF IInv, TypeOK, Work, Old
  <1> DEFINE q == carry
             cleared == [deltas EXCEPT ![complete][q] = NoDelta]
             sum == Plus(Plus(cleared[0][q], cleared[1][q]), cleared[2][q])
             x == states[Work].pos[q]
             newPosition == [asset |-> states[complete].pos[q].asset,
                             conf |-> x.conf + sum.conf, att |-> x.att + sum.att]
  <1>2. /\ wPc = "carry" /\ q \in Positions /\ carry' = q + 1 /\ deltas' = cleared
        /\ states' = [states EXCEPT ![Work].pos[q] = newPosition]
        /\ UNCHANGED <<complete, wPc, calls, flushes, account, rIdx, rLeft, copy, snap, overlap>>
        /\ Work' = Work /\ Old' = Old
    BY DEF CarryPosition, rVars, Work, Old
  <1>3. /\ cleared \in [Buffers -> [Positions -> [conf : Int, att : Int]]]
        /\ cleared[complete][q] = NoDelta
        /\ \A p \in Positions \ {q} : cleared[complete][p] = deltas[complete][p]
        /\ cleared[Work] = deltas[Work] /\ cleared[Old] = deltas[Old]
    BY <1>1, <1>2 DEF TypeOK, NoDelta
  <1>4. /\ sum.conf = deltas[Work][q].conf + deltas[Old][q].conf
        /\ sum.att = deltas[Work][q].att + deltas[Old][q].att
    <2>1. /\ cleared[complete][q].conf = 0 /\ cleared[complete][q].att = 0
          /\ deltas[Work][q].conf \in Int /\ deltas[Work][q].att \in Int
          /\ deltas[Old][q].conf \in Int /\ deltas[Old][q].att \in Int
      BY <1>1, <1>2, <1>3, Fieldwise DEF NoDelta
    <2>2. /\ sum.conf = cleared[0][q].conf + cleared[1][q].conf + cleared[2][q].conf
          /\ sum.att = cleared[0][q].att + cleared[1][q].att + cleared[2][q].att
      BY DEF Plus
    <2> HIDE DEF cleared, sum
    <2>3. \/ complete = 0 /\ Work = 1 /\ Old = 2
          \/ complete = 1 /\ Work = 2 /\ Old = 0
          \/ complete = 2 /\ Work = 0 /\ Old = 1
      BY <1>1 DEF Work, Old, After, Buffers
    <2> QED  BY <1>3, <2>1, <2>2, <2>3
  <1> HIDE DEF cleared, sum
  <1>5. newPosition = states[complete].pos[q]
    <2>1. /\ IsPlus(states[complete].pos[q], states[Old].pos[q], deltas[Old][q])
          /\ IsPlus(states[Old].pos[q], states[Work].pos[q], deltas[Work][q])
      <3>1. ~(q < carry)
        BY <1>1 DEF TypeOK
      <3> QED  BY <1>2, <3>1 DEF IInv, OldLags, Carried
    <2>2. /\ x.conf \in Int /\ x.att \in Int
          /\ deltas[Work][q].conf \in Int /\ deltas[Work][q].att \in Int
          /\ deltas[Old][q].conf \in Int /\ deltas[Old][q].att \in Int
      BY <1>1, <1>2, Fieldwise
    <2>3. /\ x.conf + sum.conf = states[complete].pos[q].conf
          /\ x.att + sum.att = states[complete].pos[q].att
      BY <1>4, <2>1, <2>2 DEF IsPlus
    <2>4. states[complete].pos[q] \in Position
      BY <1>1, <1>2, Fieldwise
    <2> QED  BY <2>3, <2>4 DEF Position
  <1> HIDE DEF newPosition, x
  <1>6. states'[complete] = states[complete] /\ states'[Old] = states[Old]
    BY <1>1, <1>2 DEF TypeOK
  <1>7. /\ states'[Work] \in State
        /\ states'[Work].pos[q] = states[complete].pos[q]
        /\ \A p \in Positions \ {q} : states'[Work].pos[p] = states[Work].pos[p]
        /\ states' \in [Buffers -> State]
    <2>1. /\ states[Work] \in State /\ states[Work].pos \in [Positions -> Position]
          /\ states[complete].pos[q] \in Position
      BY <1>1, <1>2, Fieldwise
    <2> DEFINE np == [states[Work].pos EXCEPT ![q] = newPosition]
    <2>2. states' = [states EXCEPT ![Work] = [states[Work] EXCEPT !.pos = np]]
      BY <1>1, <1>2 DEF TypeOK
    <2>3. np \in [Positions -> Position] /\ np[q] = newPosition
          /\ \A p \in Positions \ {q} : np[p] = states[Work].pos[p]
      BY <1>2, <1>5, <2>1
    <2> HIDE DEF np
    <2>4. /\ [states[Work] EXCEPT !.pos = np] \in State
          /\ [states[Work] EXCEPT !.pos = np].pos = np
      BY <2>1, <2>3 DEF State
    <2>5. states'[Work] = [states[Work] EXCEPT !.pos = np] /\ states' \in [Buffers -> State]
      BY <1>1, <2>2, <2>4 DEF TypeOK
    <2> QED  BY <1>5, <2>3, <2>4, <2>5
  <1>8. TypeOK'
    <2>1. carry' \in 1..MaxPositions + 1
      BY <1>2, PositionsAssumption DEF Positions
    <2> QED  BY <1>1, <1>2, <1>3, <1>7, <2>1 DEF TypeOK
  <1>9. OldLags'
    BY <1>2, <1>3, <1>6, Zenon DEF IInv, OldLags
  <1>10. Pending' /\ NothingPending'
    BY <1>2 DEF Pending, NothingPending
  <1>11. Settled'
    BY <1>2, <1>6 DEF IInv, Settled
  <1>12. Carried'
    <2> SUFFICES ASSUME NEW p \in Positions
                 PROVE  IF p < q + 1
                          THEN /\ states'[Work].pos[p] = states[complete].pos[p]
                               /\ cleared[complete][p] = NoDelta
                          ELSE IsPlus(states[Old].pos[p], states'[Work].pos[p], cleared[Work][p])
      BY <1>2, <1>6, Zenon DEF Carried
    <2>1. q \in Int /\ p \in Int
      BY <1>2 DEF Positions
    <2>2. CASE p = q
      BY <1>3, <1>7, <2>1, <2>2
    <2>3. CASE p # q
      <3>1. (p < q + 1) <=> (p < q)
        BY <2>1, <2>3
      <3>2. IF p < q THEN states[Work].pos[p] = states[complete].pos[p]
                          /\ deltas[complete][p] = NoDelta
                     ELSE IsPlus(states[Old].pos[p], states[Work].pos[p], deltas[Work][p])
        BY <1>2 DEF IInv, Carried
      <3> HIDE DEF q
      <3> QED  BY <1>3, <1>7, <2>3, <3>1, <3>2
    <2> QED  BY <2>2, <2>3
  <1>13. Reading'
    <2>1. overlap <= 1 => rIdx \in {complete, Old}
      BY <1>1 DEF IInv, TypeOK, Reading
    <2> QED  BY <1>2, <1>6, <2>1 DEF IInv, Reading
  <1> QED  BY <1>8, <1>9, <1>10, <1>11, <1>12, <1>13 DEF IInv

\* The identity and the session follow the positions, and the flush is over.
LEMMA HeaderKeeps ==
  ASSUME IInv, CarryHeader
  PROVE  IInv' /\ states'[Work] = states[complete]
  <1>1. TypeOK /\ complete \in Buffers /\ Work \in Buffers /\ Old \in Buffers
        /\ Old # complete /\ Work # complete /\ Old # Work
    BY Rotation DEF IInv, TypeOK, Work, Old
  <1> DEFINE new == [client |-> states[complete].client, auth |-> states[complete].auth,
                     session |-> states[complete].session, pos |-> states[Work].pos]
  <1>2. /\ wPc = "carry" /\ wPc' = "idle" /\ carry \notin Positions
        /\ states' = [states EXCEPT ![Work] = new]
        /\ UNCHANGED <<deltas, complete, carry, calls, flushes, account, rIdx, rLeft, copy, snap,
                       overlap>>
        /\ Work' = Work /\ Old' = Old
    BY DEF CarryHeader, rVars, Work, Old
  <1>3. \A p \in Positions : p < carry
    BY <1>1, <1>2, PositionsAssumption DEF TypeOK, Positions
  <1>4. \A p \in Positions : /\ states[Work].pos[p] = states[complete].pos[p]
                             /\ deltas[complete][p] = NoDelta
    BY <1>2, <1>3 DEF IInv, Carried
  <1>5. new \in State /\ SameHeader(new, states[complete]) /\ new.pos = states[Work].pos
    BY <1>1 DEF TypeOK, State, SameHeader
  <1> HIDE DEF new
  <1>6. new = states[complete]
    <2>1. states[complete] \in State
      BY <1>1 DEF TypeOK
    <2>2. \A p \in Positions : new.pos[p] = states[complete].pos[p]
      BY <1>4, <1>5
    <2> QED  BY <1>5, <2>1, <2>2, StateEqual
  <1>7. /\ states'[Work] = states[complete] /\ states'[complete] = states[complete]
        /\ states'[Old] = states[Old] /\ states' \in [Buffers -> State]
    BY <1>1, <1>2, <1>5, <1>6 DEF TypeOK
  <1>8. states[complete] = account
    BY <1>2 DEF IInv, Settled
  <1>9. TypeOK'
    BY <1>1, <1>2, <1>7 DEF TypeOK
  <1>10. OldLags'
    BY <1>2, <1>7 DEF IInv, OldLags
  <1>11. Pending'
    <2>1. \A p \in Positions : IsPlus(account.pos[p], account.pos[p], deltas[complete][p])
      <3> TAKE p \in Positions
      <3>1. account.pos[p].conf \in Int /\ account.pos[p].att \in Int
        BY <1>1, <1>8, Fieldwise
      <3> QED  BY <1>4, <3>1 DEF IsPlus, NoDelta
    <2> QED  BY <1>2, <1>7, <1>8, <2>1 DEF Pending, SameHeader
  <1>12. Settled' /\ NothingPending' /\ Carried'
    BY <1>2, <1>4, <1>7, <1>8 DEF Settled, NothingPending, Carried
  <1>13. Reading'
    <2>1. overlap <= 1 => rIdx \in {complete, Old}
      BY <1>1 DEF IInv, TypeOK, Reading
    <2> QED  BY <1>2, <1>7, <2>1 DEF IInv, Reading
  <1> QED  BY <1>7, <1>9, <1>10, <1>11, <1>12, <1>13 DEF IInv

-----------------------------------------------------------------------------
(* The reader *)

\* A copy starts at the published buffer.
LEMMA LoadKeeps ==
  ASSUME IInv, LoadComplete
  PROVE  IInv'
  <1>1. /\ TypeOK /\ complete \in Buffers /\ states[complete] \in State
    BY DEF IInv, TypeOK
  <1>2. /\ rIdx' = complete /\ rLeft' = Fields /\ snap' = states[complete] /\ overlap' = 0
        /\ UNCHANGED <<states, deltas, complete, wPc, carry, calls, flushes, account, copy>>
        /\ Work' = Work /\ Old' = Old
    BY DEF LoadComplete, wVars, Work, Old
  <1>3. TypeOK'
    BY <1>1, <1>2 DEF TypeOK
  <1>4. OldLags' /\ Pending' /\ Settled' /\ NothingPending' /\ Carried'
    BY <1>2 DEF IInv, OldLags, Pending, Settled, NothingPending, Carried
  <1>5. Reading'
    BY <1>2 DEF Reading, Fields
  <1> QED  BY <1>3, <1>4, <1>5 DEF IInv

\* A field is copied from the buffer the reader chose.
LEMMA CopyKeeps ==
  ASSUME IInv, NEW f \in Fields, CopyField(f)
  PROVE  IInv'
  <1>1. /\ TypeOK /\ states[rIdx] \in State /\ copy \in State
    BY DEF IInv, TypeOK
  <1>2. /\ f \in rLeft /\ rLeft' = rLeft \ {f}
        /\ UNCHANGED <<states, deltas, complete, wPc, carry, calls, flushes, account, rIdx, snap,
                       overlap>>
        /\ Work' = Work /\ Old' = Old
    BY DEF CopyField, wVars, Work, Old
  <1>3. copy.pos \in [Positions -> Position] /\ states[rIdx].pos \in [Positions -> Position]
    BY <1>1 DEF State
  <1>4. OldLags' /\ Pending' /\ Settled' /\ NothingPending' /\ Carried'
    BY <1>2 DEF IInv, OldLags, Pending, Settled, NothingPending, Carried
  <1>5. Header \notin Positions
    BY DEF Header, Positions
  <1>6. CASE f = Header
    <2>1. /\ copy' \in State /\ SameHeader(copy', states[rIdx]) /\ copy'.pos = copy.pos
      BY <1>1, <1>6 DEF CopyField, State, SameHeader
    <2>2. TypeOK'
      BY <1>1, <1>2, <2>1 DEF TypeOK
    <2>3. Reading'
      BY <1>2, <1>5, <1>6, <2>1 DEF IInv, Reading
    <2> QED  BY <1>4, <2>2, <2>3 DEF IInv
  <1>7. CASE f # Header
    <2>1. f \in Positions
      BY <1>7 DEF Fields
    <2> DEFINE np == [copy.pos EXCEPT ![f] = states[rIdx].pos[f]]
    <2>2. copy' = [copy EXCEPT !.pos = np]
      BY <1>1, <1>7 DEF CopyField
    <2>3. /\ np \in [Positions -> Position] /\ np[f] = states[rIdx].pos[f]
          /\ \A p \in Positions \ {f} : np[p] = copy.pos[p]
      BY <1>3, <2>1
    <2> HIDE DEF np
    <2>4. copy' \in State /\ SameHeader(copy', copy) /\ copy'.pos = np
      BY <1>1, <2>2, <2>3 DEF State, SameHeader
    <2>5. TypeOK'
      BY <1>1, <1>2, <2>4 DEF TypeOK
    <2>6. Reading'
      <3>1. overlap <= 1 => \A p \in Positions \ (rLeft \ {f}) : np[p] = snap.pos[p]
        BY <2>1, <2>3 DEF IInv, Reading
      <3>2. overlap <= 1 => (Header \notin rLeft \ {f} => SameHeader(copy', snap))
        BY <1>7, <2>4 DEF IInv, Reading, SameHeader
      <3> QED  BY <1>2, <2>4, <3>1, <3>2 DEF IInv, Reading
    <2> QED  BY <1>4, <2>5, <2>6 DEF IInv
  <1> QED  BY <1>6, <1>7

-----------------------------------------------------------------------------
(* The theorems *)

\* Every step of the writer and of the reader keeps the inductive invariant.
THEOREM NextIInv == IInv /\ [Next]_vars => IInv'
  <1> SUFFICES ASSUME IInv, [Next]_vars PROVE IInv'
    OBVIOUS
  <1>1. ASSUME NEW d \in Deltas, SetClientAssets(d) PROVE IInv'
    BY <1>1, AssetsKeep
  <1>2. ASSUME NEW r \in Snapshots, SetClientState(r) PROVE IInv'
    BY <1>2, StateKeeps
  <1>3. CASE SetAuthStatus(0)
    BY <1>3, AuthKeeps
  <1>4. CASE Publish
    BY <1>4, PublishKeeps
  <1>5. CASE CarryPosition
    BY <1>5, CarryKeeps
  <1>6. CASE CarryHeader
    BY <1>6, HeaderKeeps
  <1>7. CASE LoadComplete
    BY <1>7, LoadKeeps
  <1>8. ASSUME NEW f \in Fields, CopyField(f) PROVE IInv'
    BY <1>8, CopyKeeps
  <1>9. CASE UNCHANGED vars
    <2>1. UNCHANGED <<states, deltas, complete, wPc, carry, calls, flushes, account, rIdx, rLeft,
                      copy, snap, overlap>> /\ Work' = Work /\ Old' = Old
      BY <1>9 DEF vars, wVars, rVars, Work, Old
    <2> QED  BY <2>1 DEF IInv, TypeOK, OldLags, Pending, Settled, NothingPending, Carried, Reading
  <1> QED  BY <1>1, <1>2, <1>3, <1>4, <1>5, <1>6, <1>7, <1>8, <1>9 DEF Next

\* The inductive invariant holds in every reachable state.
THEOREM Invariance == Spec => []IInv
  <1> QED  BY InitIInv, NextIInv, PTL DEF Spec

\* The buffers, the deltas and the reader's copy always have their types.
THEOREM TypeCorrect == Spec => []TypeOK
  <1>1. IInv => TypeOK
    BY DEF IInv
  <1> QED  BY <1>1, Invariance, PTL

\* The deltas of FlushTripleBuffer lose no change and count none twice.
THEOREM NothingLost == Spec => []PublishedIsAccount
  <1>1. IInv => PublishedIsAccount
    BY DEF IInv, Settled, PublishedIsAccount
  <1> QED  BY <1>1, Invariance, PTL

\* After every flush the buffer written next equals the published one.
THEOREM CatchesUp == Spec => []WorkCatchesUp
  <1>1. IInv => WorkCatchesUp
    <2> SUFFICES ASSUME IInv, wPc = "idle" PROVE states[Work] = states[complete]
      BY DEF WorkCatchesUp
    <2>1. complete \in Buffers /\ Work \in Buffers /\ TypeOK /\ states[complete] = account
      BY Rotation DEF IInv, TypeOK, Work, Settled
    <2>2. SameHeader(states[Work], states[complete])
      BY <2>1 DEF IInv, Pending
    <2>3. \A p \in Positions : states[Work].pos[p] = states[complete].pos[p]
      <3> TAKE p \in Positions
      <3>1. /\ states[Work].pos[p].asset = states[complete].pos[p].asset
            /\ states[Work].pos[p].conf = states[complete].pos[p].conf
            /\ states[Work].pos[p].att = states[complete].pos[p].att
        BY <2>1 DEF IInv, Pending
      <3>2. states[Work].pos[p] \in Position /\ states[complete].pos[p] \in Position
        BY <2>1, Fieldwise
      <3> QED  BY <3>1, <3>2, PositionEqual
    <2>4. states[Work] \in State /\ states[complete] \in State
      BY <2>1 DEF TypeOK
    <2> QED  BY <2>2, <2>3, <2>4, StateEqual
  <1> QED  BY <1>1, Invariance, PTL

\* GetClientState returns a published state when at most one flush overlaps it.
THEOREM CopyConsistent == Spec => []CopyIsConsistent
  <1>1. IInv => CopyIsConsistent
    <2> SUFFICES ASSUME IInv, rLeft = {}, overlap <= 1 PROVE copy = snap
      BY DEF CopyIsConsistent
    <2>1. SameHeader(copy, snap) /\ \A p \in Positions : copy.pos[p] = snap.pos[p]
      BY DEF IInv, Reading
    <2>2. copy \in State /\ snap \in State
      BY DEF IInv, TypeOK
    <2> QED  BY <2>1, <2>2, StateEqual
  <1> QED  BY <1>1, Invariance, PTL

\* No call writes the published buffer; only the flush replaces it.
THEOREM Untouched == Spec => PublishedUntouched
  <1>1. TypeOK /\ [Next]_vars => [complete' = complete => states'[complete] = states[complete]]_vars
    <2> SUFFICES ASSUME TypeOK, Next PROVE complete' = complete => states'[complete] = states[complete]
      BY DEF vars
    <2>1. complete \in Buffers /\ Work \in Buffers /\ Work # complete
      BY Rotation DEF TypeOK, Work
    <2>2. ASSUME NEW d \in Deltas, SetClientAssets(d) PROVE states' = states
      BY <2>2 DEF SetClientAssets
    <2>3. ASSUME NEW r \in Snapshots, SetClientState(r) PROVE states'[complete] = states[complete]
      BY <2>1, <2>3 DEF SetClientState, TypeOK
    <2>4. CASE SetAuthStatus(0)
      BY <2>1, <2>4 DEF SetAuthStatus, TypeOK
    <2>5. CASE Publish
      BY <2>1, <2>5 DEF Publish
    <2>6. CASE CarryPosition
      BY <2>1, <2>6 DEF CarryPosition, TypeOK
    <2>7. CASE CarryHeader
      BY <2>1, <2>7 DEF CarryHeader, TypeOK
    <2>8. CASE LoadComplete
      BY <2>8 DEF LoadComplete, wVars
    <2>9. ASSUME NEW f \in Fields, CopyField(f) PROVE states' = states
      BY <2>9 DEF CopyField, wVars
    <2> QED  BY <2>2, <2>3, <2>4, <2>5, <2>6, <2>7, <2>8, <2>9 DEF Next
  <1> QED  BY <1>1, TypeCorrect, PTL DEF Spec, PublishedUntouched
=============================================================================
