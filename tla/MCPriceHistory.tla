--------------------------- MODULE MCPriceHistory ---------------------------
(* One cell of one day, where a cent moves the price by exactly the         *)
(* threshold, and one of three days, where the quotient is rounded.         *)
EXTENDS PriceHistory, TLC

CONSTANTS k1, k3
MCDays == (k1 :> 1) @@ (k3 :> 3)
=============================================================================
