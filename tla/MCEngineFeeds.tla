------------------------------ MODULE MCEngineFeeds ------------------------------
(* Small markets for TLC. *)
EXTENDS EngineFeeds

CONSTANTS InputAmounts, InputTypes, InputClients

MCInputs ==
    {r \in [client : InputClients, side : Sides, type : InputTypes,
            price : Prices, amount : InputAmounts] : TRUE}
=============================================================================
