------------------------------ MODULE MC_Mount ------------------------------
EXTENDS MountProps
=============================================================================
