---------------------------- MODULE MCEvmUpgrade ----------------------------
EXTENDS EvmUpgrade

Eth(n) == <<"ethereum", n>>

\* Names a chain's ExtraEIPs may hold: EIPs newer than London, the London
\* ones again, a well-formed unregistered name and two malformed ones.
MCNames == {Eth("3198"), Eth("3529"), Eth("3855"), Eth("5656"), Eth("9999"),
            <<"ethereum5656">>, Eth("mcopy")}

MCLists == BoundedSeq(MCNames, 2)

MCNumerals == {"1344", "1884", "2200", "2929", "3198", "3529", "3855", "5656", "9999"}
====
