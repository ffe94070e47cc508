------------------------------ MODULE MC_Tmsg -------------------------------
EXTENDS TmsgProps
=============================================================================
