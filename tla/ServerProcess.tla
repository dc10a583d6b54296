----------------------------- MODULE ServerProcess -----------------------------
(***************************************************************************)
(* The two halves of the server's process that requests share: mutations   *)
(* of a resource's rows, and the publishers with the event streams.  A     *)
(* mutation hands the publisher its event and looks at nothing of it, so   *)
(* one of the two moves in a behavior; any stream may be open when an      *)
(* event is published.                                                     *)
(***************************************************************************)
EXTENDS RealtimeServer, ResourceMutations

VARIABLE half    \* the half that moves

process == <<half, serverVars, vars>>

\* A half at rest has one value.
TableRests == adapter = (CHOOSE a \in Adapters : TRUE) /\ \A r \in Rows : table[r] = "live"

ProcessInit ==
  /\ half \in {"mutations", "streams"}
  /\ ServerInit
  /\ Init /\ (half = "mutations" \/ TableRests)

ProcessNext ==
  /\ UNCHANGED half
  /\ \/ half = "mutations" /\ Next /\ UNCHANGED serverVars
     \/ half = "streams" /\ ServerNext /\ UNCHANGED vars

ProcessSpec == ProcessInit /\ [][ProcessNext]_process
=============================================================================
