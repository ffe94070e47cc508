------------------------------ MODULE MC_Quota ------------------------------
EXTENDS QuotaPass

\* The quotas of the shipped configuration.
ThirtyEach == [f \in Folder |-> 30]
=============================================================================
