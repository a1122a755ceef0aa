-------------------------- MODULE MCDoorbellEvents --------------------------
EXTENDS DoorbellEvents
CONSTANTS cap
MCConstVal == [r \in {cap} |-> 1]
=============================================================================
