----------------------------- MODULE DrawerSession -----------------------------
(***************************************************************************)
(* The record drawer: the URL names the open record, an effect fetches its *)
(* payload for every change of record and after every action, and the      *)
(* footer offers the payload's actions for the record the URL names.       *)
(*                                                                         *)
(* A cleaned-up effect aborts its fetch, which ends it silently, except    *)
(* that the body of an error response is read under a catch of its own: an *)
(* abort in the middle of it surfaces as an error all the same, after the  *)
(* next effect has begun.  A change of the URL, the render and the effect  *)
(* are one step.                                                           *)
(***************************************************************************)
EXTENDS Integers

CONSTANTS
  Records,      \* resource:id pairs
  NoRecord,     \* the drawer is closed, nothing is shown
  MaxVersion,   \* bound: changes of a record on the server
  MaxPosts      \* bound: actions in flight

ASSUME NoRecordAssumption == NoRecord \notin Records

VARIABLES
  opened,     \* the record the URL names
  fetching,   \* the live fetch: its record, how far it is, what it read
  payload,    \* the record and version shown
  error,      \* the record whose failure is shown
  loading,
  posts,      \* actions in flight: their record, whether the button that sent
              \* them is still mounted, whether the server has done them
  version,    \* each record on the server
  known       \* history: the version when the operator's last action succeeded

drawer == <<opened, fetching, payload, error, loading, posts, version, known>>

NoFetch == [record |-> NoRecord, at |-> "none", version |-> 0]
NoPayload == [record |-> NoRecord, version |-> 0]

DrawerTypeOK ==
  /\ opened \in Records \cup {NoRecord}
  /\ fetching \in [record : Records \cup {NoRecord}, version : 0..MaxVersion,
                   at : {"none", "sent", "answered", "refused"}]
  /\ payload \in [record : Records \cup {NoRecord}, version : 0..MaxVersion]
  /\ error \in Records \cup {NoRecord}
  /\ loading \in BOOLEAN
  /\ posts \subseteq [id : 1..MaxPosts, record : Records, mounted : BOOLEAN, done : BOOLEAN]
  /\ version \in [Records -> 0..MaxVersion]
  /\ known \in [Records -> 0..MaxVersion]

DrawerInit ==
  /\ opened = NoRecord /\ fetching = NoFetch /\ payload = NoPayload
  /\ error = NoRecord /\ loading = FALSE /\ posts = {}
  /\ version = [r \in Records |-> 0]
  /\ known = [r \in Records |-> 0]

-----------------------------------------------------------------------------
(* The effect on the record and reloadKey *)

\* Faulty: a fetch under way serves the reload too.
JoinFetch(r) ==
  IF fetching.record = r
  THEN UNCHANGED <<fetching, error, loading>>
  ELSE /\ fetching' = [record |-> r, at |-> "sent", version |-> 0]
       /\ error' = NoRecord
       /\ loading' = TRUE

\* The old fetch is aborted and a new one sent; the error body of the old one
\* turns into an error right after.
Refetch(r) ==
  /\ fetching' = [record |-> r, at |-> "sent", version |-> 0]
  /\ IF fetching.at = "refused"
     THEN error' = fetching.record /\ loading' = FALSE
     ELSE error' = NoRecord /\ loading' = TRUE

\* A click on a row, a link, Back or Forward: another record, or the same one
\* after the drawer was closed.  What is shown stays until the answer.
Open(r) ==
  /\ opened # r
  /\ opened' = r
  /\ Refetch(r)
  /\ UNCHANGED <<payload, posts, version, known>>

\* Closing drops the payload, and with it the buttons of the footer.
Close ==
  /\ opened # NoRecord
  /\ opened' = NoRecord
  /\ fetching' = NoFetch
  /\ payload' = NoPayload
  /\ IF fetching.at = "refused"
     THEN error' = fetching.record /\ loading' = FALSE
     ELSE error' = NoRecord /\ UNCHANGED loading
  /\ posts' = {[p EXCEPT !.mounted = FALSE] : p \in posts}
  /\ UNCHANGED <<version, known>>

\* The server answers with the row it reads now, or refuses.
Serve ==
  /\ fetching.at = "sent"
  /\ \/ fetching' = [fetching EXCEPT !.at = "answered", !.version = version[fetching.record]]
     \/ fetching' = [fetching EXCEPT !.at = "refused"]
  /\ UNCHANGED <<opened, payload, error, loading, posts, version, known>>

Receive ==
  /\ fetching.at = "answered"
  /\ payload' = [record |-> fetching.record, version |-> fetching.version]
  /\ loading' = FALSE
  /\ fetching' = NoFetch
  /\ UNCHANGED <<opened, error, posts, version, known>>

\* The body of the error response has been read, or the network failed.
Fail ==
  /\ fetching.at \in {"sent", "refused"}
  /\ error' = fetching.record
  /\ loading' = FALSE
  /\ fetching' = NoFetch
  /\ UNCHANGED <<opened, payload, posts, version, known>>

-----------------------------------------------------------------------------
(* ActionButton *)

\* One button, whose state outlives a change of record as long as the payload
\* shown has its key: disabled while its own POST is in flight, and sending to
\* the record of the URL.
Offered == payload.record # NoRecord /\ opened # NoRecord

Post ==
  /\ Offered
  /\ ~\E p \in posts : p.mounted
  /\ \E i \in 1..MaxPosts \ {p.id : p \in posts} :
       posts' = posts \cup
         {[id |-> i, record |-> opened, mounted |-> TRUE, done |-> FALSE]}
  /\ UNCHANGED <<opened, fetching, payload, error, loading, version, known>>

\* The action's handler changes the row.
Handle(p) ==
  /\ ~p.done
  /\ version[p.record] < MaxVersion
  /\ version' = [version EXCEPT ![p.record] = @ + 1]
  /\ posts' = (posts \ {p}) \cup {[p EXCEPT !.done = TRUE]}
  /\ UNCHANGED <<opened, fetching, payload, error, loading, known>>

\* A successful answer that refreshes: onActionSuccess counts reloadKey up,
\* which refetches whatever record is open by then.
Succeed(p) ==
  /\ p.done
  /\ posts' = posts \ {p}
  /\ known' = [known EXCEPT ![p.record] = version[p.record]]
  /\ IF opened = NoRecord
     THEN UNCHANGED <<fetching, error, loading>>
     ELSE Refetch(opened)
  /\ UNCHANGED <<opened, payload, version>>

\* refresh: false, a redirect elsewhere, a failure or field errors: no refetch.
EndQuietly(p) ==
  /\ posts' = posts \ {p}
  /\ UNCHANGED <<opened, fetching, payload, error, loading, version, known>>

\* Somebody else changes a record.
Elsewhere(r) ==
  /\ version[r] < MaxVersion
  /\ version' = [version EXCEPT ![r] = @ + 1]
  /\ UNCHANGED <<opened, fetching, payload, error, loading, posts, known>>

DrawerNext ==
  \/ \E r \in Records : Open(r) \/ Elsewhere(r)
  \/ \E p \in posts : Handle(p) \/ Succeed(p) \/ EndQuietly(p)
  \/ Close \/ Serve \/ Receive \/ Fail \/ Post

DrawerSpec == DrawerInit /\ [][DrawerNext]_drawer

-----------------------------------------------------------------------------
(* Properties *)

Settled == opened # NoRecord /\ ~loading /\ error = NoRecord

\* However records are opened, left and reopened while answers are late, a drawer
\* that neither loads nor reports an error shows the record of the URL, at least
\* as new as the operator's own actions left it.
SettledShowsTheRecord ==
  Settled => payload.record = opened /\ payload.version >= known[opened]
=============================================================================
