---------------------------- MODULE MCServerProcess ----------------------------
(* An instance of ServerProcess for TLC. *)
EXTENDS ServerProcess, TLC

\* Streams, channels, requests and rows are interchangeable.
Symmetry ==
  UNION {Permutations(S) : S \in {Handlers, Channels, Requests, Rows}}
=============================================================================
