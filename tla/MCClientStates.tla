--------------------------- MODULE MCClientStates ---------------------------
(* Two positions, cash and one asset; a report of each kind, two accounts. *)
EXTENDS ClientStates

MCDeltas ==
    {[asset |-> "cash", conf |-> -2, att |-> -2],
     [asset |-> "share", conf |-> 1, att |-> 0]}

MCSnapshots ==
    {[client |-> "c1", pos |-> <<[asset |-> "cash", conf |-> 5, att |-> 0],
                                 [asset |-> "share", conf |-> 3, att |-> 1]>>],
     [client |-> "c2", pos |-> <<[asset |-> "share", conf |-> 1, att |-> 0],
                                 [asset |-> "cash", conf |-> 7, att |-> 4]>>]}
=============================================================================
