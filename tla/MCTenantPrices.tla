--------------------------- MODULE MCTenantPrices ----------------------------
(* Two tuples, the first with two categories that may share a code.         *)
EXTENDS TenantPrices, TLC

CONSTANTS x, y, economy, compact, small, large

X1 == [tuple |-> x, key |-> "X1"]
X2 == [tuple |-> x, key |-> "X2"]
Y1 == [tuple |-> y, key |-> "Y1"]
MCCategories == {X1, X2, Y1}
MCCodesOf == (X1 :> {economy} @@ X2 :> {economy, compact, Missing} @@ Y1 :> {economy})
MCConfigs ==
    {[tuples |-> {x, y}, mappings |-> {<<small, X1>>, <<large, X2>>}],
     [tuples |-> {x}, mappings |-> {<<small, X1>>, <<small, X2>>}]}
MCCalendars ==
    {{[from |-> 1, to |-> 3, rep |-> 2]},
     {[from |-> 1, to |-> 1, rep |-> 1], [from |-> 2, to |-> 3, rep |-> 3]},
     {[from |-> 1, to |-> 2, rep |-> 2]}}
MCListings == {MCCategories, {X1, Y1}}
MCPages ==
    {(X1 :> <<1000, 1500, 1502>> @@ X2 :> <<1203, Missing, 1400>> @@ Y1 :> <<1101, 1500, 1600>>)}
MCRanges == {<<1, 3>>, <<2, 2>>, <<3, 1>>}
=============================================================================
