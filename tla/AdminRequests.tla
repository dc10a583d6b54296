------------------------------ MODULE AdminRequests -----------------------------
(***************************************************************************)
(* A request to the admin on its way through the server: how its context   *)
(* is resolved and admitted, which page or route its address leads to, and *)
(* what a surface of a resource then reads and shows.  The three meet in   *)
(* nothing but the surface's name: one piece moves in a behavior and the   *)
(* others rest.                                                            *)
(***************************************************************************)
EXTENDS ReadSurfaces, RouteGraph, RequestAdmission

VARIABLE piece    \* the piece that moves

requests == <<piece, vars, routes, admission>>

\* A piece at rest has one value; the resource at rest is closed to the caller.
ReadsRest ==
  /\ config = CHOOSE c \in Configs : ~c.role
  /\ db = CHOOSE d \in Databases : TRUE
  /\ readable = Fields
RoutesRest == site = CHOOSE s \in Sites : TRUE
AdmissionRests ==
  /\ driver = "none"
  /\ rateKey = CHOOSE k \in [Arrivals -> Keys] : TRUE

RequestsInit ==
  /\ piece \in {"admission", "routes", "surfaces"}
  /\ Init /\ (piece = "surfaces" \/ ReadsRest)
  /\ RoutesInit /\ (piece = "routes" \/ RoutesRest)
  /\ AdmissionInit /\ (piece = "admission" \/ AdmissionRests)

Admitting(A) ==
  piece = "admission" /\ A /\ UNCHANGED <<piece, vars, routes>>

RequestsNext ==
  \/ piece = "surfaces" /\ Next /\ UNCHANGED <<piece, routes, admission>>
  \/ piece = "routes" /\ RoutesNext /\ UNCHANGED <<piece, vars, admission>>
  \/ Admitting(AdmissionNext)

\* The fairness of RequestAdmission; nothing else has to happen.
RequestsFairness ==
  /\ WF_requests(Admitting(Tick))
  /\ \A r \in Arrivals : WF_requests(Admitting(Advance(r)))

RequestsSpec == RequestsInit /\ [][RequestsNext]_requests /\ RequestsFairness
=============================================================================
