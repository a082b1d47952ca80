---------------------------- MODULE MCPunchSync ----------------------------
EXTENDS PunchSync
MCRanges == {[from |-> 0, to |-> 1]}
=============================================================================
