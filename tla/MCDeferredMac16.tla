--------------------------- MODULE MCDeferredMac16 ---------------------------
(* Three banks in one group, with symbolic data: a tile or a sum is the    *)
(* tuple of what it was computed from.                                     *)
EXTENDS DeferredMac16, Sequences

MCBanks == {0, 1, 2}
MCGroupOf == [b \in MCBanks |-> 0]
MCEwmulMap == [g \in {0} |-> [src_a |-> 0, src_b |-> 1, dest |-> 2]]
MCGprValue == [g \in {0} |-> <<"gpr", g>>]
MCZero == <<"zero">>
MCZeroSum == <<"sum">>
MCRandomFill(b, r, c) == <<"random", b, r, c>>
MCLane(tile, b) == IF tile = MCZero THEN MCZeroSum ELSE <<"sum", tile, b>>
MCLaneTile(v) == IF v = MCZeroSum THEN MCZero ELSE <<"lane0", v>>
MCSplatTile(v) == IF v = MCZeroSum THEN MCZero ELSE <<"splat", v>>
MCMacStep(old, first, b, w, v) ==
  IF first THEN <<"sum", b, w, v>> ELSE Append(old, <<w, v>>)
MCActivate(t, v) == <<"af", t, v>>
MCEwMul(a, b) == <<"product", a, b>>
=============================================================================
