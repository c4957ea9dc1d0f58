---------------------------- MODULE ClientStates ----------------------------
(***************************************************************************)
(* The gateway's triple-buffered state of one connection (order_gateway/   *)
(* include/client_states.hpp).  The states-writer thread changes the next  *)
(* buffer and a set of deltas, then flushes; the risk thread copies the    *)
(* published buffer out without a lock.  The store of Complete, the carry  *)
(* of each position into the buffer written next, and the read of each     *)
(* field are steps of their own, so a slow reader meets a writer that has  *)
(* come round.  ClientStatesWriter calls SetClientAssets any number of     *)
(* times, or SetClientState once, or SetAuthStatus once, and then flushes. *)
(***************************************************************************)
EXTENDS Integers

CONSTANTS
    MaxPositions,
    Assets,
    Clients,
    Deltas,        \* the [asset, conf, att] changes reports make
    Snapshots,     \* the account service's responses: [client, pos]
    NoAsset,       \* AssetId 0 of a fresh state
    NoClient,      \* ClientId 0 of a fresh state
    MaxCalls,      \* the SetClientAssets calls of one batch of reports
    MaxFlushes     \* bound: how many times the writer flushes

Positions == 1..MaxPositions
Position == [asset : Assets, conf : Int, att : Int]
State == [client : Clients, auth : {0, 1}, session : Nat, pos : [Positions -> Position]]

ASSUME PositionsAssumption == MaxPositions \in Nat \ {0}
ASSUME FreshAssumption == NoAsset \in Assets /\ NoClient \in Clients
ASSUME InputAssumption ==
    /\ Deltas \subseteq Position
    /\ Snapshots \subseteq [client : Clients, pos : [Positions -> Position]]

VARIABLES
    states,    \* States1, States2, States3
    deltas,    \* Deltas: what each generation added, by position
    complete,  \* which buffer is published
    wPc,       \* the writer: idle, the call it made, or carry (inside a flush)
    carry,     \* the position the flush copies next
    calls,     \* the SetClientAssets calls since the last flush
    flushes,   \* how many flushes have published
    account,   \* what the calls so far amount to
    rIdx,      \* the reader: the value of Complete it loaded,
    rLeft,     \*   the fields it has still to copy,
    copy,      \*   what it copied,
    snap,      \*   what was published when it loaded Complete,
    overlap    \*   and how many flushes published since

wVars == <<states, deltas, complete, wPc, carry, calls, flushes, account>>
rVars == <<rIdx, rLeft, copy, snap>>
vars == <<wVars, rVars, overlap>>

Buffers == 0..2
Header == 0
Fields == Positions \cup {Header}
NoDelta == [conf |-> 0, att |-> 0]
Fresh ==
    [client |-> NoClient, auth |-> 0, session |-> 0,
     pos |-> [p \in Positions |-> [asset |-> NoAsset, conf |-> 0, att |-> 0]]]

\* complete == 2 ? 0 : complete + 1, and which buffer the writer fills next.
After(c) == IF c = 2 THEN 0 ELSE c + 1
Work == After(complete)

Init ==
    /\ states = [b \in Buffers |-> Fresh]
    /\ deltas = [b \in Buffers |-> [p \in Positions |-> NoDelta]]
    /\ complete = 0 /\ wPc = "idle" /\ carry = 1 /\ calls = 0 /\ flushes = 0
    /\ account = Fresh
    /\ rIdx = 0 /\ rLeft = {} /\ copy = Fresh /\ snap = Fresh /\ overlap = 0

-----------------------------------------------------------------------------
(* The writer thread *)

Plus(x, d) == [conf |-> x.conf + d.conf, att |-> x.att + d.att]
AddTo(position, d) ==
    [asset |-> position.asset, conf |-> position.conf + d.conf, att |-> position.att + d.att]

\* The change is added to the delta of every position of that asset.
SetClientAssets(d) ==
    /\ wPc \in {"idle", "assets"} /\ calls < MaxCalls /\ flushes < MaxFlushes
    /\ calls' = calls + 1
    /\ wPc' = "assets"
    /\ deltas' = [deltas EXCEPT ![complete] =
                    [p \in Positions |->
                       IF states[Work].pos[p].asset = d.asset THEN Plus(@[p], d) ELSE @[p]]]
    /\ account' = [account EXCEPT !.pos =
                    [p \in Positions |->
                       IF @[p].asset = d.asset THEN AddTo(@[p], d) ELSE @[p]]]
    /\ UNCHANGED <<states, complete, carry, flushes, rVars, overlap>>

\* A snapshot replaces the state: its difference with the published buffer
\* overwrites the delta of this generation.
SetClientState(response) ==
    /\ wPc = "idle" /\ flushes < MaxFlushes
    /\ wPc' = "state"
    /\ states' = [states EXCEPT ![Work] =
                    [client |-> response.client, auth |-> 1, session |-> @.session + 1,
                     pos |-> [p \in Positions |->
                                [asset |-> response.pos[p].asset,
                                 conf |-> @.pos[p].conf, att |-> @.pos[p].att]]]]
    /\ deltas' = [deltas EXCEPT ![complete] =
                    [p \in Positions |->
                       [conf |-> response.pos[p].conf - states[complete].pos[p].conf,
                        att |-> response.pos[p].att - states[complete].pos[p].att]]]
    /\ account' = [client |-> response.client, auth |-> 1,
                   session |-> account.session + 1, pos |-> response.pos]
    /\ UNCHANGED <<complete, carry, calls, flushes, rVars, overlap>>

\* Mutant: written in place.
SetAuthStatusInPlace(auth) ==
    /\ wPc = "idle" /\ flushes < MaxFlushes
    /\ wPc' = "auth"
    /\ states' = [states EXCEPT ![complete].auth = auth]
    /\ account' = [account EXCEPT !.auth = auth]
    /\ UNCHANGED <<deltas, complete, carry, calls, flushes, rVars, overlap>>

SetAuthStatus(auth) ==
    /\ wPc = "idle" /\ flushes < MaxFlushes
    /\ wPc' = "auth"
    /\ states' = [states EXCEPT ![Work].auth = auth]
    /\ account' = [account EXCEPT !.auth = auth]
    /\ UNCHANGED <<deltas, complete, carry, calls, flushes, rVars, overlap>>

\* Mutant: the index that is stored does not wrap.
PublishUnwrapped ==
    /\ wPc \in {"assets", "state", "auth"}
    /\ states' = [states EXCEPT ![Work].pos =
                    [p \in Positions |-> AddTo(@[p], deltas[complete][p])]]
    /\ complete' = complete + 1
    /\ wPc' = "carry" /\ carry' = 1 /\ calls' = 0 /\ flushes' = flushes + 1
    /\ overlap' = overlap + 1
    /\ UNCHANGED <<deltas, account, rVars>>

\* FlushTripleBuffer up to the store of Complete: the deltas of this generation
\* are folded into the next buffer, which becomes the published one.
Publish ==
    /\ wPc \in {"assets", "state", "auth"}
    /\ states' = [states EXCEPT ![Work].pos =
                    [p \in Positions |-> AddTo(@[p], deltas[complete][p])]]
    /\ complete' = Work
    /\ wPc' = "carry" /\ carry' = 1 /\ calls' = 0 /\ flushes' = flushes + 1
    /\ overlap' = overlap + 1
    /\ UNCHANGED <<deltas, account, rVars>>

\* Mutants: the oldest deltas are not cleared; only the last generation is added.
CarryPositionKeepsOld ==
    LET p == carry
        sum == Plus(Plus(deltas[0][p], deltas[1][p]), deltas[2][p])
    IN  /\ wPc = "carry" /\ p \in Positions
        /\ states' = [states EXCEPT ![Work].pos[p] =
                        [AddTo(@, sum) EXCEPT !.asset = states[complete].pos[p].asset]]
        /\ carry' = p + 1
        /\ UNCHANGED <<deltas, complete, wPc, calls, flushes, account, rVars, overlap>>
CarryPositionLast ==
    LET p == carry
    IN  /\ wPc = "carry" /\ p \in Positions
        /\ deltas' = [deltas EXCEPT ![complete][p] = NoDelta]
        /\ states' = [states EXCEPT ![Work].pos[p] =
                        [AddTo(@, deltas[After(Work)][p])
                           EXCEPT !.asset = states[complete].pos[p].asset]]
        /\ carry' = p + 1
        /\ UNCHANGED <<complete, wPc, calls, flushes, account, rVars, overlap>>

\* The rest of FlushTripleBuffer, one position at a time: the oldest buffer is
\* brought up to date with the deltas of the two generations it has missed.
CarryPosition ==
    LET p == carry
        cleared == [deltas EXCEPT ![complete][p] = NoDelta]
        sum == Plus(Plus(cleared[0][p], cleared[1][p]), cleared[2][p])
    IN  /\ wPc = "carry" /\ p \in Positions
        /\ deltas' = cleared
        /\ states' = [states EXCEPT ![Work].pos[p] =
                        [asset |-> states[complete].pos[p].asset,
                         conf |-> @.conf + sum.conf, att |-> @.att + sum.att]]
        /\ carry' = p + 1
        /\ UNCHANGED <<complete, wPc, calls, flushes, account, rVars, overlap>>

CarryHeader ==
    /\ wPc = "carry" /\ carry \notin Positions
    /\ states' = [states EXCEPT ![Work] =
                    [client |-> states[complete].client, auth |-> states[complete].auth,
                     session |-> states[complete].session, pos |-> @.pos]]
    /\ wPc' = "idle"
    /\ UNCHANGED <<deltas, complete, carry, calls, flushes, account, rVars, overlap>>

-----------------------------------------------------------------------------
(* The reader: GetClientState copies the published buffer, in no fixed order *)

\* Mutant: the wrong buffer is selected.
LoadCompleteNext ==
    /\ rLeft = {}
    /\ rIdx' = Work /\ rLeft' = Fields /\ snap' = states[complete] /\ overlap' = 0
    /\ UNCHANGED <<wVars, copy>>

LoadComplete ==
    /\ rLeft = {}
    /\ rIdx' = complete /\ rLeft' = Fields /\ snap' = states[complete] /\ overlap' = 0
    /\ UNCHANGED <<wVars, copy>>

CopyField(f) ==
    /\ f \in rLeft
    /\ rLeft' = rLeft \ {f}
    /\ copy' = IF f = Header
                 THEN [client |-> states[rIdx].client, auth |-> states[rIdx].auth,
                       session |-> states[rIdx].session, pos |-> copy.pos]
                 ELSE [copy EXCEPT !.pos[f] = states[rIdx].pos[f]]
    /\ UNCHANGED <<wVars, rIdx, snap, overlap>>

-----------------------------------------------------------------------------
Next ==
    \/ \E d \in Deltas : SetClientAssets(d)
    \/ \E r \in Snapshots : SetClientState(r)
    \/ SetAuthStatus(0)
    \/ Publish \/ CarryPosition \/ CarryHeader
    \/ LoadComplete
    \/ \E f \in Fields : CopyField(f)

Spec == Init /\ [][Next]_vars

-----------------------------------------------------------------------------
(* Properties *)

\* Every variable holds a value of its type.
TypeOK ==
    /\ states \in [Buffers -> State]
    /\ deltas \in [Buffers -> [Positions -> [conf : Int, att : Int]]]
    /\ complete \in Buffers
    /\ wPc \in {"idle", "assets", "state", "auth", "carry"}
    /\ carry \in 1..MaxPositions + 1 /\ calls \in Nat /\ flushes \in Nat
    /\ account \in State
    /\ rIdx \in Buffers /\ rLeft \subseteq Fields /\ copy \in State /\ snap \in State
    /\ overlap \in Nat

\* The deltas lose nothing and count nothing twice: whenever no call waits for a
\* flush, the published buffer is exactly what all the calls so far amount to.
PublishedIsAccount == wPc \in {"idle", "carry"} => states[complete] = account

\* After a flush the buffer written next has caught up with the published one,
\* although it missed the writes of two generations.
WorkCatchesUp == wPc = "idle" => states[Work] = states[complete]

\* The published buffer is never written in place: what a call changes is
\* invisible until the flush (test SetClientStateIsInvisibleUntilFlush).
PublishedUntouched == [][complete' = complete => states'[complete] = states[complete]]_vars

\* A copy during which the writer published at most once is a state that was
\* published, not a mix of two; only two flushes within one copy can tear it.
CopyIsConsistent == rLeft = {} /\ overlap <= 1 => copy = snap
=============================================================================
