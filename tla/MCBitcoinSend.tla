--------------------------- MODULE MCBitcoinSend ----------------------------
(* A small instance of BitcoinSend: a large and a small segwit coin and a      *)
(* taproot coin; amounts that match coins exactly, leave dust, leave change.   *)
EXTENDS BitcoinSend

Coin(id, value, type) == [id |-> id, value |-> value, type |-> type, from |-> 0]

MCCoins == {Coin(1, 50000, "p2wpkh"), Coin(2, 3000, "p2wpkh"), Coin(3, 9000, "p2tr")}

Ask1(target, rate, recType) ==
    [tool |-> "send", target |-> target, rate |-> rate, recType |-> recType,
     own |-> FALSE, rbf |-> FALSE, override |-> FALSE]

MCSends ==
    {Ask1(9100, Nothing, "p2wpkh"), Ask1(47100, Nothing, "p2tr"),
     [Ask1(2600, Nothing, "p2wpkh") EXCEPT !.own = TRUE, !.rbf = TRUE],
     [Ask1(47100, 200, "p2wpkh") EXCEPT !.override = TRUE]}
=============================================================================
