---------------------------------- MODULE MCLink ---------------------------------
(* Three ports in a row; the process of the last one waits for its events.    *)
EXTENDS SideLink

MCDistances == [p \in 0 .. 2 |-> [q \in 0 .. 2 |-> IF p < q THEN q - p ELSE p - q]]

MCReceivers == [p \in 0 .. 2 |-> IF p = 0 THEN {{2}} ELSE {{}}]

\* Every event, with others that are simultaneous with it or that are put off as well.
MCAwaited == {<<"ACTIVITY", "BOT", "BMP">>, <<"SILENCE", "EOT", "EMP">>, <<"COLLISION", "EOJ">>,
              <<"ANYEVENT", "BOJ">>}
=============================================================================
