---------------------------- MODULE MCDMAEvents ----------------------------
EXTENDS DMAEvents
MCSize == [f \in Fields |-> IF f = "tag" THEN 2 ELSE 4]
OneTag == [f \in Fields |-> 1]
MCUnmapped == {<<"none", "none">>}
Bells == {<<"read", "tag">>, <<"write", "tag">>}
BellsAndEnable == Bells \cup {Enable}
Statuses == {Status("read"), Status("write")}
WriteBasics == {Enable, <<"read", "len">>, <<"read", "tag">>, <<"none", "none">>}
ReadBasics == {Enable, Status("read"), <<"read", "len">>, <<"none", "none">>} \cup ({"count"} \X Streams)
ReadStatus == {Status("read")}
=============================================================================
