----------------------------- MODULE MCNVMeTop -----------------------------
EXTENDS NVMeTopProps
CONSTANTS cap
MCConstVal == [r \in {cap} |-> 1]
=============================================================================
