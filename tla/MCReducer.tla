------------------------------ MODULE MCReducer -----------------------------
EXTENDS ReducerProtocol
=============================================================================
