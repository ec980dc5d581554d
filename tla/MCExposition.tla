---------------------------- MODULE MCExposition ----------------------------
(* Two properties, one with a blank address, in every order and with one of *)
(* them twice; answers that are empty, out of order, repeat an hour or have *)
(* dates that do not parse.                                                 *)
EXTENDS Exposition

TwoIds == {"h", "c"}
Home == [id |-> "h", address |-> "1 Main St"]
Cabin == [id |-> "c", address |-> ""]
SomeListings == {<<>>, <<Home, Cabin>>, <<Cabin, Home>>, <<Home, Home>>}

B(t, v) == [time |-> t, kWh |-> v]
SomeAnswers == {<<>>, <<B(0, 4)>>, <<B(1, 1), B(2, 0)>>,
                <<B(2, 2), B(1, 3), B(2, 1), B(0, 4)>>}

SomeTables == {[i \in TwoIds |-> "none"], [i \in TwoIds |-> IF i = "h" THEN "serial" ELSE "noSerial"]}

=============================================================================
