----------------------------- MODULE MCRealtimeBus -----------------------------
EXTENDS RealtimeBus, TLC

\* Each subscriber brings a callback of its own.
OwnCallback == [s \in Subscribers |-> s]
=============================================================================
