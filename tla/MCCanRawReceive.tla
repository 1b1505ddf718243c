--------------------------- MODULE MCCanRawReceive ---------------------------
(* Two bits of an identifier, arrays of up to two filters, and a frame of   *)
(* each kind.                                                               *)
EXTENDS CanRawReceive

Some == [id |-> {"x"}, mask |-> {"x", "y"}]

MCFilterOf ==
    [none |-> <<>>, all |-> <<DefaultFilter>>, some |-> <<Some>>,
     grown |-> <<Some, DefaultFilter>>]

MCValues ==
    [canFilter              |-> DOMAIN MCFilterOf,
     errorFilterMask        |-> {"noErrors", "allErrors"},
     loopback               |-> {"Disabled", "Enabled"},
     receiveOwnMessages     |-> {"Disabled", "Enabled"},
     flexibleDataRateFrames |-> {"Disabled", "Enabled", "Undefined"}]

MCDefault ==
    [canFilter |-> "all", errorFilterMask |-> "noErrors", loopback |-> "Enabled",
     receiveOwnMessages |-> "Disabled", flexibleDataRateFrames |-> "Disabled"]

MCFrames ==
    {[id |-> {"x"}, kind |-> "bus"], [id |-> {"y"}, kind |-> "bus"],
     [id |-> {"x"}, kind |-> "own"], [id |-> {}, kind |-> "error"]}
=============================================================================
