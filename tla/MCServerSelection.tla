------------------------- MODULE MCServerSelection -------------------------
(***************************************************************************)
(* The instance of ServerSelection that TLC checks: networks with three    *)
(* servers, one and none, which answer within an attempt, at its limit, or *)
(* past it.                                                                *)
(***************************************************************************)
EXTENDS ServerSelection

MCServers == [main |-> <<"a", "b", "c">>, test |-> <<"t">>, regtest |-> <<>>]
=============================================================================
