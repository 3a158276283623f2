--------------------------- MODULE MCCrossTariff -----------------------------
(* Three providers with one office each in one market.                      *)
EXTENDS CrossTariff, TLC

CONSTANTS a, b, c, economy, airport

MCMarket == <<a, b, c>>
MCProviderOf == ("a1" :> a @@ "b1" :> b @@ "c1" :> c)
MCMarketOf == ("a1" :> airport @@ "b1" :> airport @@ "c1" :> airport)
MCCategories ==
    {[office |-> "a1", key |-> "A", code |-> economy],
     [office |-> "b1", key |-> "B", code |-> economy],
     [office |-> "c1", key |-> "C", code |-> economy]}
MCCalendars ==
    {{[from |-> 1, to |-> 2, rep |-> 2]},
     {[from |-> 1, to |-> 1, rep |-> 1], [from |-> 2, to |-> 2, rep |-> 2]}}
MCListings == {{a, b, c}, {b, c}}
MCRanges == {<<0, 0>>, <<1, 1>>, <<2, 0>>, <<2, 1>>}
MCTotals == {10 * Euro, 29 * Euro}
Rule(op, val, mode, floor, ceiling) ==
    [op |-> op, val |-> val, mode |-> mode, floor |-> floor, ceiling |-> ceiling]
Formula(radar, master, base, round, rule, override, muted) ==
    [radar |-> radar, master |-> master, base |-> base, round |-> round,
     rule |-> rule, overrides |-> economy :> override, muted |-> muted]
MCFormulas ==
    {Formula({a, b, c}, a, "avg", "0.99", Rule("add", 5, "pct", "none", "max"), Missing, {}),
     Formula({a, b}, b, "max", "0.50", Rule("sub", 20, "abs", "cost", "max"), Missing, {economy}),
     Formula({b, c}, c, "min", "1", Rule("add", 5, "pct", "none", "none"),
             Rule("sub", 30, "pct", "auto", "none"), {})}
=============================================================================
