--------------------------- MODULE MCEipActivators ---------------------------
EXTENDS EipActivators

Eth(n) == <<"ethereum", n>>

\* Every registered name and a well-formed unregistered one.
MCNames == {Eth("1344"), Eth("1884"), Eth("2200"), Eth("2929"), Eth("3198"),
            Eth("3529"), Eth("3855"), Eth("5656"), Eth("9999")}

\* ExtraEIPs lists of up to two names, in any order.
MCLists == BoundedSeq(MCNames, 2)

MCNumerals == {"1344", "1884", "2200", "2929", "3198", "3529", "3855", "5656", "9999"}
====
