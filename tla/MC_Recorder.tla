----------------------------- MODULE MC_Recorder -----------------------------
EXTENDS RecorderProps
=============================================================================
