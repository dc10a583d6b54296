---------------------------- MODULE AdminPageProofs ----------------------------
(***************************************************************************)
(* What each piece of a page promises, for any records, values, texts and  *)
(* queries and any number of answers on their way.  Each piece has an      *)
(* invariant of its own; the page's is their conjunction, because a step   *)
(* of one piece leaves the others' variables alone.                        *)
(***************************************************************************)
EXTENDS AdminPage, LiveChannelPoolProofs, SequenceTheorems, WellFoundedInduction

(* The drawer.  The fetch under way is for the record of the URL; what it has *)
(* read is as new as the operator knows; without one the payload is.          *)

DrawerTypes ==
  /\ opened \in Records \cup {NoRecord}
  /\ fetching \in [record : Records \cup {NoRecord}, version : Nat,
                   at : {"none", "sent", "answered", "refused"}]
  /\ payload \in [record : Records \cup {NoRecord}, version : Nat]
  /\ error \in Records \cup {NoRecord} /\ loading \in BOOLEAN
  /\ posts \subseteq [id : 1..MaxPosts, record : Records, mounted : BOOLEAN, done : BOOLEAN]
  /\ version \in [Records -> Nat] /\ known \in [Records -> Nat]
  /\ \A r \in Records : known[r] <= version[r]

FetchIsWanted ==
  fetching.at # "none" =>
    /\ opened \in Records /\ fetching.record = opened
    /\ loading \/ error # NoRecord
    /\ fetching.at = "answered" => known[opened] <= fetching.version

ShownOrExcused ==
  opened # NoRecord /\ fetching.at = "none" /\ error = NoRecord =>
    payload.record = opened /\ known[opened] <= payload.version

DrawerInv == DrawerTypes /\ FetchIsWanted /\ ShownOrExcused

LEMMA InitDrawer == DrawerInit => DrawerInv
  <1> SUFFICES ASSUME DrawerInit PROVE DrawerInv
    OBVIOUS
  <1>1. /\ NoFetch \in [record : Records \cup {NoRecord}, version : Nat,
                       at : {"none", "sent", "answered", "refused"}]
        /\ NoPayload \in [record : Records \cup {NoRecord}, version : Nat]
        /\ NoFetch.at = "none"
    BY DEF NoFetch, NoPayload
  <1>2. DrawerTypes
    <2>1. version \in [Records -> Nat] /\ known \in [Records -> Nat]
          /\ \A r \in Records : known[r] <= version[r]
      BY DEF DrawerInit
    <2> QED
      BY <1>1, <2>1 DEF DrawerInit, DrawerTypes
  <1> QED
    BY <1>1, <1>2 DEF DrawerInit, DrawerInv, FetchIsWanted, ShownOrExcused

Posts == [id : 1..MaxPosts, record : Records, mounted : BOOLEAN, done : BOOLEAN]

\* A flag of an action in flight changes, and it stays one.
LEMMA PostKeepsType ==
  ASSUME NEW p \in Posts
  PROVE  [p EXCEPT !.mounted = FALSE] \in Posts /\ [p EXCEPT !.done = TRUE] \in Posts
  BY DEF Posts

\* A fetch anew shows nothing, and hides an error or shows that of the old one.
LEMMA RefetchKeeps ==
  ASSUME DrawerInv, NEW r \in Records, Refetch(r)
  PROVE  /\ fetching' \in [record : Records \cup {NoRecord}, version : Nat,
                           at : {"none", "sent", "answered", "refused"}]
         /\ fetching'.at = "sent" /\ fetching'.record = r
         /\ error' \in Records \cup {NoRecord} /\ loading' \in BOOLEAN
         /\ loading' \/ error' # NoRecord
  <1>1. fetching.at = "refused" => fetching.record \in Records
    BY DEF DrawerInv, FetchIsWanted
  <1>2. fetching' = [record |-> r, at |-> "sent", version |-> 0]
    BY DEF Refetch
  <1>3. /\ error' \in Records \cup {NoRecord} /\ loading' \in BOOLEAN
        /\ loading' \/ error' # NoRecord
    <2>1. CASE fetching.at = "refused"
      BY <1>1, <2>1, NoRecordAssumption DEF Refetch
    <2>2. CASE fetching.at # "refused"
      BY <2>2 DEF Refetch
    <2> QED BY <2>1, <2>2
  <1> QED BY <1>2, <1>3

LEMMA StepDrawer == DrawerInv /\ [DrawerNext]_drawer => DrawerInv'
  <1> SUFFICES ASSUME DrawerInv, [DrawerNext]_drawer PROVE DrawerInv'
    OBVIOUS
  <1> USE NoRecordAssumption
      DEF DrawerInv, DrawerTypes, FetchIsWanted, ShownOrExcused
  <1>1. ASSUME NEW r \in Records, Open(r) PROVE DrawerInv'
    BY <1>1, RefetchKeeps DEF Open
  <1>2. CASE Close
    <2>1. posts' \subseteq Posts
      <3>1. posts \subseteq Posts
        BY DEF Posts
      <3>2. posts' = {[p EXCEPT !.mounted = FALSE] : p \in posts}
        BY <1>2 DEF Close
      <3> QED BY <3>1, <3>2, PostKeepsType
    <2>2. error' \in Records \cup {NoRecord} /\ loading' \in BOOLEAN
      BY <1>2 DEF Close
    <2>3. /\ fetching' \in [record : Records \cup {NoRecord}, version : Nat,
                            at : {"none", "sent", "answered", "refused"}]
          /\ payload' \in [record : Records \cup {NoRecord}, version : Nat]
          /\ fetching'.at = "none" /\ opened' = NoRecord
      BY <1>2 DEF Close, NoFetch, NoPayload
    <2>4. version' = version /\ known' = known
      BY <1>2 DEF Close
    <2> QED
      BY <2>1, <2>2, <2>3, <2>4 DEF Posts
  <1>3. CASE Serve
    BY <1>3 DEF Serve
  <1>4. CASE Receive
    BY <1>4 DEF Receive, NoFetch
  <1>5. CASE Fail
    BY <1>5 DEF Fail, NoFetch
  <1>6. CASE Post
    <2>1. posts' \subseteq Posts
      <3>1. opened \in Records
        BY <1>6 DEF Post, Offered
      <3>2. PICK i \in 1..MaxPosts :
              posts' = posts \cup
                {[id |-> i, record |-> opened, mounted |-> TRUE, done |-> FALSE]}
        BY <1>6 DEF Post
      <3>3. [id |-> i, record |-> opened, mounted |-> TRUE, done |-> FALSE] \in Posts
        BY <3>1 DEF Posts
      <3>4. posts \subseteq Posts
        BY DEF Posts
      <3> QED BY <3>2, <3>3, <3>4
    <2> QED
      BY <1>6, <2>1 DEF Post, Posts
  <1>7. ASSUME NEW p \in posts, Handle(p) PROVE DrawerInv'
    <2>1. posts' \subseteq Posts
      BY <1>7, PostKeepsType DEF Handle, Posts
    <2>2. p.record \in Records
      OBVIOUS
    <2>3. version' \in [Records -> Nat] /\ \A r \in Records : known[r] <= version'[r]
      BY <1>7, <2>2 DEF Handle
    <2> QED
      BY <1>7, <2>1, <2>3 DEF Handle, Posts
  <1>8. ASSUME NEW p \in posts, Succeed(p) PROVE DrawerInv'
    <2>1. p.record \in Records
      OBVIOUS
    <2>2. known' \in [Records -> Nat] /\ \A r \in Records : known'[r] <= version[r]
      BY <1>8, <2>1 DEF Succeed
    <2>3. posts' \subseteq Posts /\ version' = version /\ opened' = opened /\ payload' = payload
      BY <1>8 DEF Succeed, Posts
    <2>4. CASE opened = NoRecord
      <3>1. fetching' = fetching /\ error' = error /\ loading' = loading
        BY <1>8, <2>4 DEF Succeed
      <3> QED BY <2>2, <2>3, <2>4, <3>1 DEF Posts
    <2>5. CASE opened # NoRecord
      <3>1. Refetch(opened)
        BY <1>8, <2>5 DEF Succeed
      <3>2. opened \in Records
        BY <2>5
      <3> HIDE DEF Refetch
      <3> QED BY <2>2, <2>3, <3>1, <3>2, RefetchKeeps DEF Posts
    <2> QED BY <2>4, <2>5
  <1>9. ASSUME NEW p \in posts, EndQuietly(p) PROVE DrawerInv'
    <2>1. posts' \subseteq Posts
      BY <1>9 DEF EndQuietly, Posts
    <2> QED
      BY <1>9, <2>1 DEF EndQuietly, Posts
  <1>10. ASSUME NEW r \in Records, Elsewhere(r) PROVE DrawerInv'
    <2>1. version' \in [Records -> Nat] /\ \A s \in Records : known[s] <= version'[s]
      BY <1>10 DEF Elsewhere
    <2> QED
      BY <1>10, <2>1 DEF Elsewhere
  <1>11. CASE UNCHANGED drawer
    BY <1>11 DEF drawer
  <1> QED
    BY <1>1, <1>2, <1>3, <1>4, <1>5, <1>6, <1>7, <1>8, <1>9, <1>10, <1>11 DEF DrawerNext

-----------------------------------------------------------------------------
(* The cell.  A draft that nobody touched is the prop, in edit mode too, *)
(* until a refresh moves the prop.                                       *)

CellInv ==
  /\ editing \in BOOLEAN /\ typed \in BOOLEAN /\ moved \in BOOLEAN
  /\ blind = FALSE
  /\ ~editing \/ (~typed /\ ~moved) => draft = prop

LEMMA InitCell == CellInit => CellInv
  BY DEF CellInit, CellInv

LEMMA StepCell == CellInv /\ [CellNext]_cell => CellInv'
  <1> SUFFICES ASSUME CellInv, [CellNext]_cell PROVE CellInv'
    OBVIOUS
  <1> USE DEF CellInv
  <1>1. ASSUME NEW v \in Values, Type(v) \/ WriteElsewhere(v) PROVE CellInv'
    BY <1>1 DEF Type, WriteElsewhere
  <1>2. CASE Edit \/ Leave \/ Cancel
    BY <1>2 DEF Edit, Leave, Cancel
  <1>3. CASE Save
    BY <1>3 DEF Save
  <1>4. CASE Store
    BY <1>4 DEF Store
  <1>5. CASE Finish
    BY <1>5 DEF Finish, DraftAfter
  <1>6. CASE Refresh
    BY <1>6 DEF Refresh, DraftAfter
  <1>7. CASE UNCHANGED cell
    BY <1>7 DEF cell
  <1> QED
    BY <1>1, <1>2, <1>3, <1>4, <1>5, <1>6, <1>7 DEF CellNext

-----------------------------------------------------------------------------
(* The list.  A search that was not superseded is on its way to the URL or in it. *)

ListInv ==
  /\ url \in Url /\ navigation \subseteq Url /\ box \in Texts
  /\ armed \in BOOLEAN /\ discarded \in BOOLEAN
  /\ armed <=> box # lastApplied
  /\ \A m, n \in navigation : m = n
  /\ ~discarded => lastApplied = url.q \/ \E n \in navigation : n.q = lastApplied

LEMMA InitList == ListInit => ListInv
  BY DEF ListInit, ListInv, Url

\* A write of the URL from elsewhere: the search it supersedes is marked.
LEMMA OvertakeKeepsList ==
  ASSUME ListInv, NEW target \in Url, Overtake(target)
  PROVE  ListInv'
  BY DEF ListInv, Overtake, Navigate, Searching

LEMMA StepList == ListInv /\ [ListNext]_list => ListInv'
  <1> SUFFICES ASSUME ListInv, [ListNext]_list PROVE ListInv'
    OBVIOUS
  <1>1. ASSUME NEW text \in Texts, TypeSearch(text) PROVE ListInv'
    BY <1>1 DEF ListInv, TypeSearch
  <1>2. CASE \/ \E f \in Filters : SetFilter(f)
             \/ \E p \in 1..MaxPage : SetPage(p)
             \/ \E target \in Url : Visit(target)
    <2>1. PICK target \in Url : Overtake(target)
      <3>1. url \in Url
        BY DEF ListInv
      <3>2. \A p \in 1..MaxPage : [url EXCEPT !.page = p] \in Url
        BY <3>1 DEF Url
      <3>3. \A f \in Filters, p \in 1..MaxPage : [url EXCEPT !.filter = f, !.page = p] \in Url
        BY <3>1 DEF Url
      <3>4. {1, url.page} \subseteq 1..MaxPage
        BY <3>1, MaxPageAssumption DEF Url
      <3> QED BY <1>2, <3>2, <3>3, <3>4 DEF SetFilter, SetPage, Visit
    <2> QED BY <2>1, OvertakeKeepsList
  <1>3. CASE Debounce
    <2>1. /\ armed' = FALSE /\ discarded' = FALSE /\ box' = box /\ lastApplied' = box
      BY <1>3 DEF Debounce
    <2>2. PICK target \in Url : navigation' = {target} /\ target.q = box
      <3>1. url \in Url
        BY DEF ListInv
      <3>2. [url EXCEPT !.q = box, !.page = 1].q = box
        BY <3>1 DEF Url
      <3>3. [url EXCEPT !.q = box, !.page = 1] \in Url
        <4>1. box \in Texts /\ 1 \in 1..MaxPage
          BY MaxPageAssumption DEF ListInv
        <4>2. [url EXCEPT !.q = box] \in Url
          BY <3>1, <4>1 DEF Url
        <4> QED BY <4>1, <4>2 DEF Url
      <3> QED BY <1>3, <3>2, <3>3 DEF Debounce, Navigate
    <2>3. url' \in Url
      BY <1>3 DEF Debounce, ListInv
    <2> QED BY <2>1, <2>2, <2>3 DEF ListInv
  <1>4. CASE Commit
    <2>1. PICK n \in navigation :
            /\ url' = n /\ navigation' = {}
            /\ box' = IF Adopts(n.q) THEN n.q ELSE box
            /\ lastApplied' = IF Adopts(n.q) THEN n.q ELSE lastApplied
            /\ armed' = (box' # lastApplied')
            /\ discarded' = discarded
      BY <1>4 DEF Commit
    <2>2. armed' \in BOOLEAN /\ (armed' <=> box' # lastApplied')
      BY <2>1
    <2>3. ~discarded => lastApplied' = url'.q
      BY <2>1 DEF ListInv, Adopts
    <2> QED BY <2>1, <2>2, <2>3 DEF ListInv, Url
  <1>5. CASE UNCHANGED list
    BY <1>5 DEF ListInv, list
  <1> QED
    BY <1>1, <1>2, <1>3, <1>4, <1>5 DEF ListNext

-----------------------------------------------------------------------------
(* The picker.  One load at most is in force, and it is for the query in the box. *)

PickerInv ==
  /\ {isOpen, busy, failed, debounce} \subseteq BOOLEAN
  /\ loads \subseteq [id : 1..MaxLoads, query : Queries, live : BOOLEAN]
  /\ query \in Queries
  /\ debounce => isOpen /\ busy /\ \A l \in loads : ~l.live
  /\ \A l \in loads : l.live => isOpen /\ busy /\ l.query = query
  /\ \A l, m \in loads : l.live /\ m.live => l = m
  /\ ListAnswersTheQuery

LEMMA InitPicker == PickerInit => PickerInv
  BY QueryAssumption DEF PickerInit, PickerInv, ListAnswersTheQuery

LEMMA CancelledAreDead ==
  ASSUME PickerInv
  PROVE  /\ Cancelled \subseteq [id : 1..MaxLoads, query : Queries, live : BOOLEAN]
         /\ \A l \in Cancelled : ~l.live
  BY DEF Cancelled, PickerInv

LEMMA StepPicker == PickerInv /\ [PickerNext]_picker => PickerInv'
  <1> SUFFICES ASSUME PickerInv, [PickerNext]_picker PROVE PickerInv'
    OBVIOUS
  <1> USE DEF PickerInv, ListAnswersTheQuery
  <1>1. ASSUME NEW q \in Queries, Search(q) PROVE PickerInv'
    BY <1>1, CancelledAreDead DEF Search, Restart
  <1>2. CASE OpenPicker
    BY <1>2, CancelledAreDead DEF OpenPicker, Restart
  <1>3. CASE ClosePicker
    BY <1>3, CancelledAreDead DEF ClosePicker
  <1>4. CASE Load
    <2>1. PICK i \in 1..MaxLoads :
            loads' = loads \cup {[id |-> i, query |-> query, live |-> TRUE]}
      BY <1>4 DEF Load
    <2> DEFINE begun == [id |-> i, query |-> query, live |-> TRUE]
    <2>2. begun \in [id : 1..MaxLoads, query : Queries, live : BOOLEAN] /\ begun.query = query
      OBVIOUS
    <2>3. \A l \in loads : ~l.live
      BY <1>4 DEF Load
    <2>4. /\ debounce /\ debounce' = FALSE
          /\ UNCHANGED <<isOpen, query, opts, busy, failed>>
      BY <1>4 DEF Load
    <2> HIDE DEF begun
    <2>5. loads' = loads \cup {begun}
      BY <2>1 DEF begun
    <2> QED BY <2>2, <2>3, <2>4, <2>5
  <1>5. ASSUME NEW l \in loads, Loaded(l) PROVE PickerInv'
    BY <1>5 DEF Loaded
  <1>6. ASSUME NEW l \in loads, LoadFails(l) PROVE PickerInv'
    BY <1>6 DEF LoadFails
  <1>7. CASE UNCHANGED picker
    BY <1>7 DEF picker
  <1> QED
    BY <1>1, <1>2, <1>3, <1>4, <1>5, <1>6, <1>7 DEF PickerNext

-----------------------------------------------------------------------------
(* The table.  The row under the cursor is the one it was put on, unless rows  *)
(* between two ends that stayed have moved.                                    *)

TableInv ==
  /\ rows \in Seq(Rows) /\ cursor \in 0..Len(rows)
  /\ CursorKeepsItsRow

LEMMA RowListsAreSequences == RowLists \subseteq Seq(Rows)
  <1> SUFFICES ASSUME NEW s \in RowLists PROVE s \in Seq(Rows)
    OBVIOUS
  <1>1. PICK n \in 0..PageSize : s \in [1..n -> Rows]
    BY DEF RowLists, SeqOf
  <1>2. n \in Nat
    BY PageSizeAssumption
  <1> QED BY <1>1, <1>2, SeqDef

LEMMA InitTable == TableInit => TableInv
  BY RowListsAreSequences DEF TableInit, TableInv, CursorKeepsItsRow

\* A position the operator moves the cursor to holds the row it is put on.
LEMMA PointKeepsTable ==
  ASSUME TableInv, NEW i \in 0..Len(rows), PointAt(i)
  PROVE  TableInv'
  BY DEF TableInv, CursorKeepsItsRow, PointAt

LEMMA StepTable == TableInv /\ [TableNext]_table => TableInv'
  <1> SUFFICES ASSUME TableInv, [TableNext]_table PROVE TableInv'
    OBVIOUS
  <1>1. CASE RowsChange
    <2>1. PICK new \in RowLists : Show(new)
      BY <1>1 DEF RowsChange
    <2>2. new \in Seq(Rows) /\ rows' = new
      BY <2>1, RowListsAreSequences DEF Show
    <2>3. CASE SameRows(rows, new)
      <3>1. Len(rows') = Len(rows) /\ cursor' = cursor /\ pointed' = pointed
        BY <2>1, <2>2, <2>3 DEF Show, SameRows
      <3>2. CASE cursor = 0
        BY <2>2, <3>1, <3>2 DEF TableInv, CursorKeepsItsRow
      <3>3. CASE cursor # 0
        <4>1. rows # <<>> /\ Len(rows) \in Nat
          BY <3>3 DEF TableInv
        <4>2. rows'[1] = rows[1] /\ rows'[Len(rows)] = rows[Len(rows)]
          BY <2>2, <2>3, <4>1 DEF SameRows
        <4> QED BY <2>2, <3>1, <3>3, <4>1, <4>2 DEF TableInv, CursorKeepsItsRow
      <3> QED BY <3>2, <3>3
    <2>4. CASE ~SameRows(rows, new)
      BY <2>1, <2>2, <2>4 DEF Show, TableInv, CursorKeepsItsRow
    <2> QED BY <2>3, <2>4
  <1>2. CASE Resize \/ ToggleRow \/ ToggleAll \/ ClearSelection \/ RunBulk \/ BulkAnswered
    BY <1>2 DEF Resize, ToggleRow, ToggleAll, ClearSelection, Select, RunBulk,
                BulkAnswered, TableInv, CursorKeepsItsRow
  <1>3. CASE \/ Focus \/ CursorDown \/ CursorUp \/ CursorToFirst \/ CursorToLast
             \/ ClickRow \/ LeaveRow
    <2>1. PICK i \in 0..Len(rows) : PointAt(i)
      BY <1>3 DEF Focus, CursorDown, CursorUp, CursorToFirst, CursorToLast, ClickRow,
                  LeaveRow, InTable, TableInv
    <2> QED BY <2>1, PointKeepsTable
  <1>4. CASE UNCHANGED table
    BY <1>4 DEF table, TableInv, CursorKeepsItsRow
  <1> QED BY <1>1, <1>2, <1>3, <1>4 DEF TableNext

-----------------------------------------------------------------------------
(* The buttons of actions.  A form that is waiting waits for a run that was    *)
(* sent from it.  A run that is not marked as taken was remounted, or another  *)
(* was pressed beside it; buttons in a menu only are pressed one at a time.    *)

MenuTypes ==
  /\ kind \in Kinds /\ actions \in [Actions -> [inline : BOOLEAN, asks : Asked]]
  /\ pending \subseteq Actions /\ dialog \in Dialogs
  /\ sent \subseteq Sent /\ \A r, s \in sent : r.id = s.id => r = s

FormWaits ==
  /\ dialog # NoDialog => dialog.action \in Actions /\ dialog.asks # "nothing"
  /\ dialog.run # 0 =>
       /\ dialog.asks = "form"
       /\ \E r \in sent : /\ r.id = dialog.run /\ r.form /\ ~r.remounted
                          /\ r.action = dialog.action

Taken ==
  \A r \in sent : r.remounted \/ r.action \in pending \/ (Shared /\ r.beside)

InMenus == Shared /\ \A a \in Actions : ~actions[a].inline

OneAtATime ==
  InMenus =>
    /\ \A r \in sent : ~r.remounted => r.action \in pending
    /\ \A r, s \in sent : ~r.remounted /\ ~s.remounted => r = s
    /\ dialog # NoDialog /\ dialog.run = 0 => pending = {}

OnePerAction ==
  ~Shared =>
    /\ \A r, s \in sent : ~r.remounted /\ ~s.remounted /\ r.action = s.action => r = s
    /\ dialog # NoDialog /\ dialog.run = 0 => dialog.action \notin pending

SeesOthers == \A r, s \in sent : r # s => r.beside

MenuInv ==
  MenuTypes /\ FormWaits /\ Taken /\ OneAtATime /\ OnePerAction /\ SeesOthers

LEMMA InitMenu == MenuInit => MenuInv
  <1> SUFFICES ASSUME MenuInit PROVE MenuInv
    OBVIOUS
  <1>1. NoDialog \in Dialogs /\ NoDialog.run = 0
    BY MaxRunsAssumption DEF NoDialog, Dialogs, Asked
  <1>2. dialog = NoDialog /\ sent = {}
    BY DEF MenuInit
  <1>3. MenuTypes
    <2>1. /\ kind \in Kinds /\ actions \in [Actions -> [inline : BOOLEAN, asks : Asked]]
          /\ pending \subseteq Actions
      BY DEF MenuInit
    <2> QED BY <1>1, <1>2, <2>1 DEF MenuTypes
  <1>4. FormWaits /\ Taken /\ OneAtATime /\ OnePerAction /\ SeesOthers
    BY <1>1, <1>2 DEF FormWaits, Taken, OneAtATime, OnePerAction, SeesOthers
  <1> QED BY <1>3, <1>4 DEF MenuInv

\* A run is another's shadow when it differs in what ran beside it only.
Shadows(s, r) ==
  /\ s.id = r.id /\ s.action = r.action /\ s.form = r.form
  /\ s.remounted = r.remounted /\ s.beside

\* What a run that begins leaves of the others, and what it is.
LEMMA BegunRuns ==
  ASSUME MenuInv, NEW a \in Actions, NEW f \in BOOLEAN, NEW i \in FreeIds, Begin(a, f, i)
  PROVE  /\ sent' \subseteq Sent /\ \A r, s \in sent' : r.id = s.id => r = s
         /\ \A r \in sent : \E s \in sent' : Shadows(s, r)
         /\ \E n \in sent' : /\ n.id = i /\ n.form = f /\ n.action = a /\ ~n.remounted
                             /\ sent # {} => n.beside
                             /\ \A s \in sent' \ {n} : \E r \in sent : Shadows(s, r)
  <1> DEFINE With(r) == [r EXCEPT !.beside = TRUE]
  <1>1. PICK o \in Outcomes :
          sent' = {With(r) : r \in sent} \cup
                    {[id |-> i, action |-> a, form |-> f, beside |-> sent # {},
                      remounted |-> FALSE, outcome |-> o]}
    BY DEF Begin
  <1> DEFINE n == [id |-> i, action |-> a, form |-> f, beside |-> sent # {},
                   remounted |-> FALSE, outcome |-> o]
  <1>2. ASSUME NEW r \in sent
        PROVE  With(r) \in Sent /\ Shadows(With(r), r) /\ r.id # i
    <2>1. r \in Sent
      BY DEF MenuInv, MenuTypes
    <2>2. r.id # i
      BY DEF FreeIds
    <2> QED BY <2>1, <2>2 DEF Sent, Shadows
  <1>3. /\ n \in Sent /\ n.id = i /\ n.form = f /\ n.action = a /\ ~n.remounted
        /\ sent # {} => n.beside
    BY DEF Sent, FreeIds
  <1>4. \A r, s \in sent : r.id = s.id => r = s
    BY DEF MenuInv, MenuTypes
  <1> HIDE DEF With, n
  <1>5. sent' = {With(r) : r \in sent} \cup {n}
    BY <1>1 DEF n
  <1>6. n \in sent' /\ \A s \in sent' \ {n} : \E r \in sent : s = With(r)
    BY <1>5
  <1>7. sent' \subseteq Sent
    BY <1>2, <1>3, <1>5
  <1>8. \A r, s \in sent' : r.id = s.id => r = s
    BY <1>2, <1>3, <1>4, <1>6 DEF Shadows
  <1>9. \A r \in sent : \E s \in sent' : Shadows(s, r)
    BY <1>2, <1>5
  <1>10. \A s \in sent' \ {n} : \E r \in sent : Shadows(s, r)
    BY <1>2, <1>6
  <1> QED BY <1>3, <1>6, <1>7, <1>8, <1>9, <1>10

LEMMA BegunKeeps ==
  ASSUME MenuInv, NEW a \in Actions, NEW f \in BOOLEAN, NEW i \in FreeIds, Begin(a, f, i),
         \/ /\ f
            /\ dialog' = [asks |-> "form", action |-> a, run |-> i, errors |-> dialog.errors]
         \/ dialog' = NoDialog,
         InMenus => pending = {}, ~Shared => a \notin pending, UNCHANGED <<kind, actions>>
  PROVE  MenuInv'
  <1>1. /\ kind \in Kinds /\ actions \in [Actions -> [inline : BOOLEAN, asks : Asked]]
        /\ pending \subseteq Actions /\ dialog \in Dialogs /\ i \in 1..MaxRuns
    BY DEF MenuInv, MenuTypes, FreeIds, Ids
  <1>2. pending' = (IF Shared THEN {a} ELSE pending \cup {a})
    BY DEF Begin
  <1>3. dialog' \in Dialogs
    BY <1>1, MaxRunsAssumption DEF Dialogs, NoDialog, Asked
  <1>4. PICK n \in sent' : /\ n.id = i /\ n.form = f /\ n.action = a /\ ~n.remounted
                           /\ sent # {} => n.beside
                           /\ \A s \in sent' \ {n} : \E r \in sent : Shadows(s, r)
    BY BegunRuns
  <1>5. MenuTypes'
    BY <1>1, <1>2, <1>3, BegunRuns DEF MenuTypes
  <1>6. FormWaits'
    BY <1>1, <1>4 DEF FormWaits, NoDialog
  <1>7. Shared' = Shared /\ InMenus' = InMenus
    BY DEF Shared, InMenus
  <1>8. Taken'
    <2> SUFFICES ASSUME NEW s \in sent'
                 PROVE  s.remounted \/ s.action \in pending' \/ (Shared /\ s.beside)
      BY <1>7 DEF Taken
    <2>1. CASE s = n
      BY <1>2, <1>4, <2>1
    <2>2. CASE s # n
      <3>1. PICK r \in sent : Shadows(s, r)
        BY <1>4, <2>2
      <3> QED BY <1>2, <3>1 DEF Shadows, MenuInv, Taken
    <2> QED BY <2>1, <2>2
  <1>9. OneAtATime'
    <2> SUFFICES ASSUME InMenus PROVE OneAtATime'
      BY <1>7 DEF OneAtATime
    <2>1. \A r \in sent : r.remounted
      BY DEF MenuInv, OneAtATime
    <2>2. \A s \in sent' \ {n} : s.remounted
      BY <1>4, <2>1 DEF Shadows
    <2>3. dialog' # NoDialog => dialog'.run # 0
      BY <1>1
    <2> QED BY <1>2, <1>4, <2>2, <2>3 DEF OneAtATime, InMenus, NoDialog
  <1>10. OnePerAction'
    <2> SUFFICES ASSUME ~Shared PROVE OnePerAction'
      BY <1>7 DEF OnePerAction
    <2>1. \A r \in sent : r.action = a => r.remounted
      BY DEF MenuInv, Taken
    <2>2. \A s \in sent' : s.action = a /\ ~s.remounted => s = n
      BY <1>4, <2>1 DEF Shadows
    <2>3. \A r, s \in sent : ~r.remounted /\ ~s.remounted /\ r.action = s.action => r = s
      BY DEF MenuInv, OnePerAction
    <2>4. \A r, s \in sent' : r.id = s.id => r = s
      BY BegunRuns
    <2>5. ASSUME NEW r \in sent', NEW s \in sent',
                 ~r.remounted, ~s.remounted, r.action = s.action
          PROVE  r = s
      <3>1. CASE r.action = a
        BY <2>2, <2>5, <3>1
      <3>2. CASE r.action # a
        <4>1. PICK q \in sent, t \in sent : Shadows(r, q) /\ Shadows(s, t)
          BY <1>4, <2>5, <3>2
        <4>2. q = t
          BY <2>3, <2>5, <4>1 DEF Shadows
        <4> QED BY <2>4, <4>1, <4>2 DEF Shadows
      <3> QED BY <3>1, <3>2
    <2>6. dialog' # NoDialog => dialog'.run # 0
      BY <1>1
    <2> QED BY <1>7, <2>5, <2>6 DEF OnePerAction
  <1>11. SeesOthers'
    <2>1. \A s \in sent' \ {n} : s.beside /\ sent # {}
      BY <1>4 DEF Shadows
    <2> QED BY <1>4, <2>1 DEF SeesOthers
  <1> QED BY <1>5, <1>6, <1>8, <1>9, <1>10, <1>11 DEF MenuInv

\* The dialog that waits for a run is the form of its action.
LEMMA FormIsOfItsRun ==
  ASSUME MenuInv, NEW r \in sent, SentFrom(r)
  PROVE  r.form /\ dialog.asks = "form" /\ dialog.action = r.action /\ dialog # NoDialog
  <1>1. r \in Sent /\ \A s \in sent : s.id = r.id => s = r
    BY DEF MenuInv, MenuTypes
  <1>2. dialog.run = r.id /\ dialog.run # 0 /\ r.form
    BY <1>1, MaxRunsAssumption DEF SentFrom, Sent, Ids
  <1> QED BY <1>1, <1>2 DEF MenuInv, FormWaits, NoDialog

\* It was not mounted anew.
LEMMA SentIsMounted ==
  ASSUME MenuInv, NEW r \in sent, SentFrom(r)
  PROVE  ~r.remounted
  <1>1. r \in Sent /\ \A s \in sent : s.id = r.id => s = r
    BY DEF MenuInv, MenuTypes
  <1>2. dialog.run = r.id /\ dialog.run # 0
    BY <1>1, MaxRunsAssumption DEF SentFrom, Sent, Ids
  <1> QED BY <1>1, <1>2 DEF MenuInv, FormWaits

LEMMA StepMenu == MenuInv /\ [MenuNext]_menu => MenuInv'
  <1> SUFFICES ASSUME MenuInv, [MenuNext]_menu PROVE MenuInv'
    OBVIOUS
  <1>0. /\ kind \in Kinds /\ actions \in [Actions -> [inline : BOOLEAN, asks : Asked]]
        /\ pending \subseteq Actions /\ dialog \in Dialogs
        /\ sent \subseteq Sent /\ \A r, s \in sent : r.id = s.id => r = s
    BY DEF MenuInv, MenuTypes
  <1>1. ASSUME NEW a \in Actions, Click(a) PROVE MenuInv'
    <2>1. (InMenus => pending = {}) /\ a \notin pending
      BY <1>1 DEF Click, Enabled, InMenus
    <2>2. CASE actions[a].asks = "nothing"
      <3>1. PICK i \in FreeIds : Begin(a, FALSE, i)
        BY <1>1, <2>2 DEF Click
      <3>2. dialog' = NoDialog /\ UNCHANGED <<kind, actions>>
        BY <1>1, <2>2 DEF Click
      <3> QED BY <2>1, <3>1, <3>2, BegunKeeps
    <2>3. CASE actions[a].asks # "nothing"
      <3>1. /\ dialog' = [asks |-> actions[a].asks, action |-> a, run |-> 0, errors |-> "none"]
            /\ UNCHANGED <<kind, actions, pending, sent>>
        BY <1>1, <2>3 DEF Click, NoDialog
      <3>2. actions[a].asks \in Asked
        BY <1>0
      <3>3. MenuTypes'
        <4>1. dialog' \in Dialogs
          BY <3>1, <3>2, MaxRunsAssumption DEF Dialogs
        <4> QED BY <1>0, <3>1, <4>1 DEF MenuTypes
      <3>4. FormWaits'
        BY <2>3, <3>1 DEF FormWaits
      <3>5. Taken' /\ OneAtATime'
        BY <2>1, <3>1 DEF MenuInv, Taken, OneAtATime, InMenus, Shared
      <3>6. OnePerAction' /\ SeesOthers'
        BY <2>1, <3>1 DEF MenuInv, OnePerAction, SeesOthers, Shared
      <3> QED BY <3>3, <3>4, <3>5, <3>6 DEF MenuInv
    <2> QED BY <2>2, <2>3
  <1>2. CASE Confirm
    <2>1. PICK i \in FreeIds : Begin(dialog.action, FALSE, i)
      BY <1>2 DEF Confirm
    <2>2. /\ dialog # NoDialog /\ dialog.run = 0 /\ dialog.action \in Actions
          /\ dialog' = NoDialog /\ UNCHANGED <<kind, actions>>
      BY <1>2 DEF Confirm, MenuInv, FormWaits, NoDialog
    <2>3. (InMenus => pending = {}) /\ (~Shared => dialog.action \notin pending)
      BY <2>2 DEF MenuInv, OneAtATime, OnePerAction
    <2> QED BY <2>1, <2>2, <2>3, BegunKeeps
  <1>3. CASE Submit
    <2>1. PICK i \in FreeIds :
            Begin(dialog.action, TRUE, i) /\ dialog' = [dialog EXCEPT !.run = i]
      BY <1>3 DEF Submit
    <2>2. /\ dialog # NoDialog /\ dialog.run = 0 /\ dialog.action \in Actions
          /\ dialog.asks = "form" /\ UNCHANGED <<kind, actions>>
      BY <1>3 DEF Submit, MenuInv, FormWaits, NoDialog
    <2>3. (InMenus => pending = {}) /\ (~Shared => dialog.action \notin pending)
      BY <2>2 DEF MenuInv, OneAtATime, OnePerAction
    <2>4. dialog' = [asks |-> "form", action |-> dialog.action, run |-> i,
                     errors |-> dialog.errors]
      BY <1>0, <2>1, <2>2 DEF Dialogs
    <2> QED BY <2>1, <2>2, <2>3, <2>4, BegunKeeps
  <1>4. CASE Dismiss
    <2>1. dialog' = NoDialog /\ UNCHANGED <<kind, actions, pending, sent>>
      BY <1>4 DEF Dismiss
    <2>2. MenuTypes'
      <3>1. dialog' \in Dialogs
        BY <2>1, MaxRunsAssumption DEF Dialogs, NoDialog, Asked
      <3> QED BY <1>0, <2>1, <3>1 DEF MenuTypes
    <2>3. FormWaits'
      BY <2>1 DEF FormWaits, NoDialog
    <2>4. Taken' /\ OneAtATime'
      BY <2>1 DEF MenuInv, Taken, OneAtATime, InMenus, Shared
    <2>5. OnePerAction' /\ SeesOthers'
      BY <2>1 DEF MenuInv, OnePerAction, SeesOthers, Shared
    <2> QED BY <2>2, <2>3, <2>4, <2>5 DEF MenuInv
  <1>5. CASE RemountMenu
    <2>1. dialog' = NoDialog /\ pending' = {} /\ UNCHANGED <<kind, actions>>
      BY <1>5 DEF RemountMenu
    <2>2. /\ sent' \subseteq Sent /\ \A r, s \in sent' : r.id = s.id => r = s
          /\ \A s \in sent' : s.remounted
          /\ \A r, s \in sent' : r # s => r.beside
      <3> DEFINE Gone(r) == [r EXCEPT !.remounted = TRUE]
      <3>1. \A r \in sent : /\ Gone(r) \in Sent /\ Gone(r).id = r.id /\ Gone(r).remounted
                            /\ Gone(r).beside = r.beside
        BY <1>0 DEF Sent
      <3>2. sent' = {Gone(r) : r \in sent}
        BY <1>5 DEF RemountMenu
      <3>3. \A r, s \in sent : r # s => r.beside
        BY DEF MenuInv, SeesOthers
      <3> HIDE DEF Gone
      <3> QED BY <1>0, <3>1, <3>2, <3>3
    <2>3. MenuTypes'
      <3>1. dialog' \in Dialogs
        BY <2>1, MaxRunsAssumption DEF Dialogs, NoDialog, Asked
      <3> QED BY <1>0, <2>1, <2>2, <3>1 DEF MenuTypes
    <2>4. FormWaits'
      BY <2>1 DEF FormWaits, NoDialog
    <2>5. Taken' /\ OneAtATime' /\ OnePerAction' /\ SeesOthers'
      BY <2>1, <2>2 DEF Taken, OneAtATime, OnePerAction, SeesOthers
    <2> QED BY <2>3, <2>4, <2>5 DEF MenuInv
  <1>6. ASSUME NEW r \in sent, Answer(r) PROVE MenuInv'
    <2>1. /\ sent' = sent \ {r} /\ UNCHANGED <<kind, actions>>
          /\ Shared' = Shared /\ InMenus' = InMenus
      BY <1>6 DEF Answer, Shared, InMenus
    <2>4. SeesOthers'
      BY <2>1 DEF MenuInv, SeesOthers
    <2>2. CASE r.remounted
      <3>1. UNCHANGED <<pending, dialog>>
        BY <1>6, <2>2 DEF Answer
      <3>2. MenuTypes'
        BY <1>0, <2>1, <3>1 DEF MenuTypes
      <3>3. FormWaits'
        BY <2>1, <2>2, <3>1 DEF MenuInv, FormWaits
      <3>4. Taken' /\ OneAtATime' /\ OnePerAction'
        BY <2>1, <3>1 DEF MenuInv, Taken, OneAtATime, OnePerAction
      <3> QED BY <2>4, <3>2, <3>3, <3>4 DEF MenuInv
    <2>3. CASE ~r.remounted
      <3>1. /\ pending' = (IF Shared THEN {} ELSE pending \ {r.action})
            /\ dialog' = DialogAfter(r)
        BY <1>6, <2>3 DEF Answer
      <3>2. \/ dialog' = NoDialog
            \/ SentFrom(r) /\ \E e \in {"shown", "hidden"} :
                 dialog' = [dialog EXCEPT !.run = 0, !.errors = e]
            \/ dialog' = dialog /\ ~SentFrom(r)
        <4>1. CASE WithIssues(r) /\ SentFrom(r)
          BY <3>1, <4>1 DEF DialogAfter, ErrorsShown
        <4>2. CASE ~WithIssues(r) /\ SentFrom(r)
          <5>1. r.form /\ dialog.asks = "form" /\ dialog.action = r.action
            BY <4>2, FormIsOfItsRun
          <5> QED BY <3>1, <4>2, <5>1 DEF DialogAfter
        <4>3. CASE ~SentFrom(r)
          BY <3>1, <4>3 DEF DialogAfter
        <4> QED BY <4>1, <4>2, <4>3
      <3>3. MenuTypes'
        <4>1. NoDialog \in Dialogs
          BY MaxRunsAssumption DEF Dialogs, NoDialog, Asked
        <4>2. dialog' \in Dialogs
          <5>1. ASSUME NEW e \in {"shown", "hidden"}
                PROVE  [dialog EXCEPT !.run = 0, !.errors = e] \in Dialogs
            <6>1. 0 \in 0..MaxRuns
              BY MaxRunsAssumption
            <6>2. dialog \in Dialogs
              BY <1>0
            <6> QED BY <6>1, <6>2 DEF Dialogs
          <5> QED BY <1>0, <3>2, <4>1, <5>1
        <4>3. pending' \subseteq Actions
          BY <1>0, <3>1
        <4> QED BY <1>0, <2>1, <4>2, <4>3 DEF MenuTypes
      <3>4. FormWaits'
        <4>1. CASE dialog' = NoDialog
          BY <4>1 DEF FormWaits, NoDialog
        <4>2. CASE SentFrom(r) /\ \E e \in {"shown", "hidden"} :
                     dialog' = [dialog EXCEPT !.run = 0, !.errors = e]
          <5>1. dialog # NoDialog
            BY <4>2, FormIsOfItsRun
          <5> QED BY <1>0, <4>2, <5>1 DEF MenuInv, FormWaits, Dialogs
        <4>3. CASE dialog' = dialog /\ ~SentFrom(r)
          BY <2>1, <4>3 DEF MenuInv, FormWaits, SentFrom
        <4> QED BY <3>2, <4>1, <4>2, <4>3
      <3>5. Taken'
        <4> SUFFICES ASSUME NEW s \in sent, s # r
                     PROVE  s.remounted \/ s.action \in pending' \/ (Shared /\ s.beside)
          BY <2>1 DEF Taken
        <4>1. s.beside
          BY DEF MenuInv, SeesOthers
        <4>2. ~Shared /\ ~s.remounted => s.action # r.action /\ s.action \in pending
          BY <2>3 DEF MenuInv, OnePerAction, Taken
        <4> QED BY <3>1, <4>1, <4>2
      <3>6. OneAtATime'
        <4> SUFFICES ASSUME InMenus PROVE OneAtATime'
          BY <2>1 DEF OneAtATime
        <4>1. pending' = {}
          BY <3>1 DEF InMenus
        <4>2. \A s \in sent' : s.remounted
          BY <2>1, <2>3 DEF MenuInv, OneAtATime
        <4> QED BY <4>1, <4>2 DEF OneAtATime
      <3>7. OnePerAction'
        <4> SUFFICES ASSUME ~Shared PROVE OnePerAction'
          BY <2>1 DEF OnePerAction
        <4>1. pending' = pending \ {r.action}
          BY <3>1
        <4>2. dialog' # NoDialog => dialog'.action = dialog.action
          BY <1>0, <3>2 DEF Dialogs
        <4>3. dialog' # NoDialog /\ dialog'.run = 0 => dialog'.action \notin pending'
          <5>1. CASE SentFrom(r)
            BY <4>1, <4>2, <5>1, FormIsOfItsRun
          <5>2. CASE ~SentFrom(r)
            BY <3>2, <4>1, <5>2 DEF MenuInv, OnePerAction
          <5> QED BY <5>1, <5>2
        <4> QED BY <2>1, <4>3 DEF MenuInv, OnePerAction
      <3> QED BY <2>4, <3>3, <3>4, <3>5, <3>6, <3>7 DEF MenuInv
    <2> QED BY <2>2, <2>3
  <1>7. CASE UNCHANGED menu
    BY <1>7 DEF menu, MenuInv, MenuTypes, FormWaits, Taken, OneAtATime, OnePerAction,
                SeesOthers, InMenus, Shared
  <1> QED BY <1>1, <1>2, <1>3, <1>4, <1>5, <1>6, <1>7 DEF MenuNext

\* Only its answer ends a run.
LEMMA OnlyAnswersEnd ==
  ASSUME MenuInv, MenuNext, NEW r \in sent, Ends(r)
  PROVE  Answer(r)
  <1>1. ASSUME NEW a \in Actions, NEW f \in BOOLEAN, NEW i \in FreeIds, Begin(a, f, i)
        PROVE  FALSE
    BY <1>1, BegunRuns DEF Ends, Shadows
  <1>2. ASSUME NEW a \in Actions, Click(a) PROVE FALSE
    <2>1. sent' # sent
      BY DEF Ends
    <2> QED BY <1>1, <1>2, <2>1 DEF Click
  <1>3. CASE Confirm \/ Submit
    <2>1. dialog.action \in Actions
      <3>1. dialog.asks \in {"confirm", "form"}
        BY <1>3 DEF Confirm, Submit
      <3>2. dialog # NoDialog
        BY <3>1 DEF NoDialog
      <3> QED BY <3>2 DEF MenuInv, FormWaits
    <2> QED BY <1>1, <1>3, <2>1 DEF Confirm, Submit
  <1>4. CASE Dismiss
    BY <1>4 DEF Dismiss, Ends
  <1>5. CASE RemountMenu
    <2>1. [r EXCEPT !.remounted = TRUE] \in sent'
      BY <1>5 DEF RemountMenu
    <2>2. [r EXCEPT !.remounted = TRUE].id = r.id
      BY DEF MenuInv, MenuTypes, Sent
    <2> QED BY <2>1, <2>2 DEF Ends
  <1>6. ASSUME NEW q \in sent, Answer(q) PROVE Answer(r)
    <2>1. q = r
      BY <1>6 DEF Answer, Ends
    <2> QED BY <1>6, <2>1
  <1> QED BY <1>2, <1>3, <1>4, <1>5, <1>6 DEF MenuNext

LEMMA MenuTells ==
  ASSUME MenuInv, MenuNext
  PROVE  OutcomeIsDelivered /\ PressedOnce /\ TypedIsKept
  <1>1. OutcomeIsDelivered
    <2> SUFFICES ASSUME NEW r \in sent, Ends(r)
                 PROVE  IF WithIssues(r)
                        THEN SentFrom(r) =>
                               /\ dialog' = [dialog EXCEPT !.run = 0, !.errors = dialog'.errors]
                               /\ dialog'.errors = "shown" \/ r.outcome = "foreign"
                        ELSE told' = r.id \/ (r.outcome = "quiet" /\ kind = "own")
      BY DEF OutcomeIsDelivered
    <2>1. Answer(r)
      BY OnlyAnswersEnd
    <2>2. CASE ~WithIssues(r)
      BY <2>1, <2>2 DEF Answer, TellsOf, Shared
    <2>3. ASSUME WithIssues(r), SentFrom(r)
          PROVE  /\ dialog' = [dialog EXCEPT !.run = 0, !.errors = dialog'.errors]
                 /\ dialog'.errors = "shown" \/ r.outcome = "foreign"
      <3>1. dialog' = ErrorsShown(r)
        <4>1. ~r.remounted
          BY <2>3, SentIsMounted
        <4> QED BY <2>1, <2>3, <4>1 DEF Answer, DialogAfter
      <3>2. dialog'.errors = IF r.outcome = "issues" THEN "shown" ELSE "hidden"
        BY <3>1 DEF ErrorsShown, MenuInv, MenuTypes, Dialogs
      <3>3. r.outcome \in {"issues", "foreign"}
        BY <2>3 DEF WithIssues
      <3> QED BY <3>1, <3>2, <3>3 DEF ErrorsShown
    <2> QED BY <2>2, <2>3
  <1>2. PressedOnce
    <2> SUFFICES ASSUME NEW r \in sent, Enabled(r.action), ~r.remounted
                 PROVE  Shared /\ r.beside /\ \E a \in Actions : actions[a].inline
      BY DEF PressedOnce
    <2>1. r.action \notin pending
      BY DEF Enabled
    <2>2. Shared /\ r.beside
      BY <2>1 DEF MenuInv, Taken
    <2>3. ~InMenus
      BY <2>1 DEF MenuInv, OneAtATime
    <2> QED BY <2>2, <2>3 DEF InMenus
  <1>3. TypedIsKept
    <2> SUFFICES ASSUME NEW r \in sent, Ends(r), dialog.asks = "form", ~SentFrom(r)
                 PROVE  dialog'.asks = "form" \/ (Shared /\ r.form)
      BY DEF TypedIsKept
    <2>1. Answer(r)
      BY OnlyAnswersEnd
    <2>2. CASE dialog' = dialog
      BY <2>2
    <2>3. CASE dialog' # dialog
      <3>1. /\ ~r.remounted /\ r.form /\ dialog.asks = "form"
            /\ Shared \/ dialog.action = r.action
        BY <2>1, <2>3 DEF Answer, DialogAfter
      <3>2. Shared
        <4> SUFFICES ASSUME ~Shared, dialog.action = r.action PROVE FALSE
          BY <3>1
        <4>1. r.action \in pending
          BY <3>1 DEF MenuInv, Taken
        <4>2. dialog # NoDialog
          BY DEF NoDialog
        <4>3. dialog.run # 0
          BY <4>1, <4>2 DEF MenuInv, OnePerAction
        <4>4. PICK q \in sent : q.id = dialog.run /\ q.form /\ ~q.remounted
                                /\ q.action = dialog.action
          BY <4>3 DEF MenuInv, FormWaits
        <4>5. q = r
          BY <3>1, <4>4 DEF MenuInv, OnePerAction
        <4> QED BY <4>4, <4>5 DEF SentFrom
      <3> QED BY <3>1, <3>2
    <2> QED BY <2>2, <2>3
  <1> QED BY <1>1, <1>2, <1>3

-----------------------------------------------------------------------------
(* The form.  A field goes to the browser as a text and comes back as one; what    *)
(* becomes of it is a fact about its column and control, one lemma for each kind of *)
(* column.  The invariant says what each control holds on the way.                 *)

\* What the server makes of a field whose control holds a text.
Decoded(s, text) == coerceRowByColumns(s, readFormValues(s, Posted(s, text)))
\* The text a control is given.
Default(s, v) == IF Rendered(s) /\ s.read THEN TextOf(v) ELSE Blank

\* The members of Holds, one way to be one by one.
Held(s, v) ==
  \/ v = Null /\ s.nullable
  \/ v = Blank /\ s.column = "string"
  \/ v \in {True, False} /\ s.column = "boolean"
  \/ v = NoItems /\ s.column \in {"json", "array"}
  \/ \E k \in Filled(s), c \in Contents : v = Of(k, c)

LEMMA HoldsIsHeld == \A s, v : v \in Holds(s) <=> Held(s, v)
  BY DEF Holds, Held

\* The fields SavingIsTrue lets a form be refused for, besides those not to be written.
Refusable(s) ==
  \/ declared /\ s.column \in {"boolean", "array"} /\ s.hidden = "decidedNot"
  \/ ~declared /\ s.column = "array"

\* What is read back is left out, or fits the column and may be held by it, or is
\* refused where it may be.
Decodes(s, d) == d = Absent \/ IF inferSchema(s, d) THEN Held(s, d) ELSE Refusable(s)

\* What LeftAlone and TakenOver say of one field.
Keeps(s, v, d) ==
  \/ d = Absent \/ d = v
  \/ Rendered(s) /\ ~Presentable(s, v)
  \/ declared /\ s.role = "lacks"

Takes(s, w, d) ==
  \/ d = w
  \/ w.is = "object" /\ d = Of("json", w.of)
  \/ w.is = "lines" /\ d = Of("crlf", w.of)
  \/ w.is = "list" /\ d = Of("jsonlist", w.of) /\ declared /\ s.hidden = "decidedNot"
  \/ d = Absent /\ w = Null /\ ~s.nullable
  \/ d = Absent /\ w = False /\ declared /\ s.hidden = "decidedNot"

-----------------------------------------------------------------------------
(* Texts: strings and choices *)

TextColumns == {"string", "enum"}
TextKinds == {"blank", "plain", "lines", "joined", "crlf"}

LEMMA TextControls ==
  ASSUME NEW s \in FieldConfig, s.column \in TextColumns, declared \in BOOLEAN
  PROVE  /\ ControlOf(s) \in {"text", "textarea", "select", "radio", "reference"}
         /\ s.column = "enum" => ControlOf(s) \in {"select", "radio"}
         /\ renderedFieldShapes(s) \in {"none", "text"}
         /\ Rendered(s) /\ renderedFieldShapes(s) = "none" => ~declared \/ s.hidden = "decidedNot"
         /\ declared /\ renderedFieldShapes(s) = "text" => Rendered(s) \/ s.role = "lacks"
  <1>1. /\ ControlOf(s) \in {"text", "textarea", "select", "radio", "reference"}
        /\ s.column = "enum" => ControlOf(s) \in {"select", "radio"}
    BY SMT DEF FieldConfig, ControlOf, inputTypeFor, Fitting, TextColumns
  <1>2. renderedFieldShapes(s) \in {"none", "text"}
    BY SMT DEF FieldConfig, renderedFieldShapes, Fitting, TextColumns
  <1>3. /\ Rendered(s) /\ renderedFieldShapes(s) = "none" => ~declared \/ s.hidden = "decidedNot"
        /\ declared /\ renderedFieldShapes(s) = "text" => Rendered(s) \/ s.role = "lacks"
    BY SMT DEF FieldConfig, renderedFieldShapes, Rendered, TextColumns
  <1> QED BY <1>1, <1>2, <1>3

\* What a browser posts of a text, by the control.
LEMMA TextPosted ==
  ASSUME NEW s \in FieldConfig, s.column \in TextColumns, declared \in BOOLEAN, Rendered(s),
         NEW k \in TextKinds, NEW c, k = "blank" <=> c = NoContent
  PROVE  LET p == Posted(s, Of(k, c)) IN
         \/ p = Of(k, c) /\ k # "lines" /\ (ControlOf(s) = "text" => k # "crlf")
              /\ (ControlOf(s) \in {"select", "radio"} => ReadOnly(s) \/ k \in {"blank", "plain"})
         \/ p = Of("joined", c) /\ ControlOf(s) = "text" /\ k \in {"lines", "crlf"}
         \/ p = Of("crlf", c) /\ k = "lines" /\ (ControlOf(s) \in {"select", "radio"} => ReadOnly(s))
         \/ /\ (p = Blank /\ ControlOf(s) = "select") \/ (p = Absent /\ ControlOf(s) = "radio")
            /\ k = "blank" \/ (k # "plain" /\ ~ReadOnly(s)) \/ (k = "plain" /\ c \notin s.options)
  <1>1. ControlOf(s) \in {"text", "textarea", "select", "radio", "reference"}
    BY TextControls
  <1> QED
  BY <1>1, SMT DEF Posted, Shown, Of, TextKinds, Blank, Absent

\* A blank read back: null, or nothing where there is no null.
BlankAs(s) == IF s.nullable THEN Null ELSE Absent

LEMMA TextRead ==
  ASSUME NEW s \in FieldConfig, s.column \in TextColumns, declared \in BOOLEAN,
         NEW k \in TextKinds, NEW c, k = "blank" <=> c = NoContent
  PROVE  coerceRowByColumns(s, readFormValues(s, Of(k, c))) =
           IF k # "blank" THEN Of(k, c) ELSE BlankAs(s)
  <1>1. readFormValues(s, Of(k, c)) = Of(k, c)
    BY TextControls, SMT DEF readFormValues, Of, TextKinds, Absent
  <1> QED BY <1>1, SMT DEF coerceRowByColumns, Of, TextKinds, TextColumns, Blank, Null,
           Absent, BlankAs

LEMMA BlankDecodes ==
  ASSUME NEW s
  PROVE  /\ coerceRowByColumns(s, Blank) = BlankAs(s)
         /\ coerceRowByColumns(s, Absent) = Absent
         /\ renderedFieldShapes(s) \in {"none", "text", "number"} =>
              /\ readFormValues(s, Blank) = Blank
              /\ readFormValues(s, Absent) = IF renderedFieldShapes(s) = "none" THEN Absent ELSE Blank
  <1>1. coerceRowByColumns(s, Blank) = BlankAs(s)
    BY DEF coerceRowByColumns, BlankAs
  <1>2. coerceRowByColumns(s, Absent) = Absent
    BY SMT DEF coerceRowByColumns, Absent, Blank, Of, IsText
  <1>3. ASSUME renderedFieldShapes(s) \in {"none", "text", "number"}
        PROVE  /\ readFormValues(s, Blank) = Blank
               /\ readFormValues(s, Absent) = IF renderedFieldShapes(s) = "none" THEN Absent ELSE Blank
    BY <1>3, SMT DEF readFormValues, Of, Blank, Absent
  <1> QED BY <1>1, <1>2, <1>3

LEMMA NothingDecodes ==
  ASSUME NEW s, NEW d, d \in {BlankAs(s), Absent}
  PROVE  Decodes(s, d)
  BY DEF Decodes, inferSchema, Held, BlankAs

\* A field that is not rendered posts nothing, which the route may take for a blank
\* only where it does not know that the role withheld it.
LEMMA WithheldKeeps ==
  ASSUME NEW s \in FieldConfig, declared \in BOOLEAN, ~Rendered(s), NEW v, NEW text
  PROVE  LET d == Decoded(s, text) IN Decodes(s, d) /\ Keeps(s, v, d)
  <1> DEFINE d == Decoded(s, text)
             shape == renderedFieldShapes(s)
  <1>1. d = coerceRowByColumns(s, readFormValues(s, Absent))
    BY DEF Decoded, Posted
  <1>2. declared /\ (shape # "none" => s.role = "lacks")
    BY SMT DEF renderedFieldShapes, Rendered, FieldConfig
  <1>3. \/ shape \in {"none", "text", "number"}
        \/ shape = "list" /\ s.column \in {"json", "array"}
        \/ shape = "boolean" /\ s.column = "boolean"
    <2>1. /\ s.control = "tags" => s.column \in {"json", "array"}
          /\ s.control = "checkbox" => s.column = "boolean"
      BY SMT DEF FieldConfig, Fitting, Columns
    <2> QED BY <1>2, <2>1, SMT DEF renderedFieldShapes
  <1>4. CASE shape \in {"none", "text", "number"}
    <2>1. d \in {BlankAs(s), Absent} /\ (shape = "none" => d = Absent)
      BY <1>1, <1>4, BlankDecodes
    <2> HIDE DEF d
    <2>2. Decodes(s, d) /\ Keeps(s, v, d)
      BY <1>2, <2>1, NothingDecodes DEF Keeps
    <2> QED BY <2>2 DEF d
  <1>5. CASE shape = "list" /\ s.column \in {"json", "array"}
    <2>1. readFormValues(s, Absent) = NoItems
      BY <1>5, SMT DEF readFormValues, Of, Absent, Blank, NoItems
    <2>2. coerceRowByColumns(s, NoItems) = NoItems
      BY SMT DEF coerceRowByColumns, NoItems, Of, Blank, IsText
    <2>3. inferSchema(s, NoItems)
      <3>1. NoItems.is = "list" /\ NoItems # Null /\ NoItems # Invalid
        BY SMT DEF NoItems, Of, Null, Invalid
      <3> QED BY <1>5, <3>1 DEF inferSchema
    <2>4. Held(s, NoItems)
      BY <1>5 DEF Held
    <2> QED BY <1>1, <1>2, <1>5, <2>1, <2>2, <2>3, <2>4 DEF Decodes, Keeps
  <1>6. CASE shape = "boolean" /\ s.column = "boolean"
    <2>1. readFormValues(s, Absent) = False
      BY <1>6, SMT DEF readFormValues, Of, Absent, Blank, On, False
    <2>2. coerceRowByColumns(s, False) = False
      BY SMT DEF coerceRowByColumns, False, Of, Blank, IsText
    <2>3. inferSchema(s, False)
      BY <1>6, SMT DEF inferSchema, False, True, Of, Null
    <2>4. Held(s, False)
      BY <1>6 DEF Held
    <2> QED BY <1>1, <1>2, <1>6, <2>1, <2>2, <2>3, <2>4 DEF Decodes, Keeps
  <1> QED BY <1>3, <1>4, <1>5, <1>6

\* Of what a text column is written, what may be read back, and what it then holds.
LEMMA TextHeld ==
  ASSUME NEW s \in FieldConfig, s.column \in TextColumns, declared \in BOOLEAN,
         NoContent \notin Contents, NEW v, Held(s, v)
  PROVE  \/ v = Null /\ s.nullable
         \/ \E k \in TextKinds, c \in Contents \cup {NoContent} :
              /\ v = Of(k, c) /\ (k = "blank" <=> c = NoContent)
              /\ k = "blank" => s.column = "string"
              /\ k # "blank" => k \in Filled(s)
  <1>1. CASE v = Null \/ v \in {True, False} \/ v = NoItems
    BY <1>1, SMT DEF Held, Filled, TextColumns, TextKinds, Of, Null, Blank, True, False,
       NoItems
  <1>2. CASE v = Blank /\ s.column = "string"
    BY <1>2 DEF Blank, TextKinds
  <1>3. CASE \E k \in Filled(s), c \in Contents : v = Of(k, c)
    <2>1. Filled(s) \subseteq TextKinds \ {"blank"}
      BY SMT DEF Filled, TextColumns, TextKinds
    <2> QED BY <1>3, <2>1
  <1> QED BY <1>1, <1>2, <1>3 DEF Held

\* The way of a text there and back.
LEMMA TextOutcome ==
  ASSUME NEW s \in FieldConfig, s.column \in TextColumns, declared \in BOOLEAN, Rendered(s),
         NoContent \notin Contents,
         NEW k \in TextKinds, NEW c \in Contents \cup {NoContent},
         k = "blank" <=> c = NoContent
  PROVE  LET d == Decoded(s, Of(k, c)) IN
         \/ d = Of(k, c) /\ k \notin {"blank", "lines"} /\ (ControlOf(s) = "text" => k # "crlf")
              /\ (ControlOf(s) \in {"select", "radio"} => ReadOnly(s) \/ k = "plain")
         \/ d = Of("joined", c) /\ ControlOf(s) = "text" /\ k \in {"lines", "crlf"}
         \/ d = Of("crlf", c) /\ k = "lines" /\ (ControlOf(s) \in {"select", "radio"} => ReadOnly(s))
         \/ /\ \/ d = Null /\ s.nullable
               \/ d = Absent /\ (~s.nullable \/ ControlOf(s) = "radio")
            /\ \/ k = "blank"
               \/ /\ ControlOf(s) \in {"select", "radio"}
                  /\ (k # "plain" /\ ~ReadOnly(s)) \/ (k = "plain" /\ c \notin s.options)
  <1> DEFINE p == Posted(s, Of(k, c))
             back(q) == coerceRowByColumns(s, readFormValues(s, q))
  <1>1. back(Of(k, c)) = IF k # "blank" THEN Of(k, c) ELSE BlankAs(s)
    BY TextRead
  <1>2. c # NoContent => back(Of("joined", c)) = Of("joined", c) /\ back(Of("crlf", c)) = Of("crlf", c)
    BY TextRead DEF TextKinds
  <1>3. back(Blank) = BlankAs(s)
    BY BlankDecodes, TextControls
  <1>4. back(Absent) \in {BlankAs(s), Absent}
    BY TextControls, BlankDecodes
  <1>5. \/ p = Of(k, c) /\ k # "lines" /\ (ControlOf(s) = "text" => k # "crlf")
              /\ (ControlOf(s) \in {"select", "radio"} => ReadOnly(s) \/ k \in {"blank", "plain"})
        \/ p = Of("joined", c) /\ ControlOf(s) = "text" /\ k \in {"lines", "crlf"}
        \/ p = Of("crlf", c) /\ k = "lines" /\ (ControlOf(s) \in {"select", "radio"} => ReadOnly(s))
        \/ /\ (p = Blank /\ ControlOf(s) = "select") \/ (p = Absent /\ ControlOf(s) = "radio")
           /\ k = "blank" \/ (k # "plain" /\ ~ReadOnly(s)) \/ (k = "plain" /\ c \notin s.options)
    BY TextPosted
  <1>6. Decoded(s, Of(k, c)) = back(p)
    BY DEF Decoded
  <1> HIDE DEF p, back
  <1> QED BY <1>1, <1>2, <1>3, <1>4, <1>5, <1>6 DEF BlankAs

LEMMA TextsAreTexts ==
  ASSUME NEW k \in TextKinds, NEW c
  PROVE  IsText(Of(k, c)) /\ Of(k, c) # Null /\ Of(k, c) # Absent
  BY SMT DEF TextKinds, IsText, Of, Null, Absent

LEMMA FilledTexts ==
  ASSUME NEW s \in FieldConfig, s.column \in TextColumns
  PROVE  /\ Filled(s) \subseteq TextKinds \ {"blank"}
         /\ "lines" \in Filled(s) =>
              /\ ControlOf(s) = "text" => "joined" \in Filled(s)
              /\ (ControlOf(s) \in {"select", "radio"} => ReadOnly(s)) => "crlf" \in Filled(s)
         /\ "crlf" \in Filled(s) => "lines" \in Filled(s)
         /\ "joined" \in Filled(s) => ControlOf(s) = "text"
         /\ "crlf" \in Filled(s) => (ControlOf(s) \in {"select", "radio"} => ReadOnly(s))
  BY SMT DEF Filled, TextColumns, TextKinds

LEMMA TextDecodes ==
  ASSUME NEW s \in FieldConfig, s.column \in TextColumns, declared \in BOOLEAN,
         NoContent \notin Contents,
         NEW k \in TextKinds, NEW c \in Contents \cup {NoContent},
         k = "blank" <=> c = NoContent,
         k \in Filled(s) \cup {"blank"}, Rendered(s)
  PROVE  Decodes(s, Decoded(s, Of(k, c)))
  <1> DEFINE d == Decoded(s, Of(k, c))
  <1>1. CASE (d = Null /\ s.nullable) \/ d = Absent
    BY <1>1, NothingDecodes DEF BlankAs
  <1>2. ASSUME NEW j \in Filled(s), d = Of(j, c), c \in Contents
        PROVE  Decodes(s, d)
    <2>1. inferSchema(s, d)
      BY <1>2, TextsAreTexts, FilledTexts DEF inferSchema, TextColumns
    <2>2. Held(s, d)
      BY <1>2 DEF Held
    <2> QED BY <2>1, <2>2 DEF Decodes
  <1>3. k # "blank" => c \in Contents /\ k \in Filled(s)
    OBVIOUS
  <1>4. \/ d = Of(k, c) /\ k # "blank"
        \/ d = Of("joined", c) /\ ControlOf(s) = "text" /\ k \in {"lines", "crlf"}
        \/ d = Of("crlf", c) /\ k = "lines" /\ (ControlOf(s) \in {"select", "radio"} => ReadOnly(s))
        \/ (d = Null /\ s.nullable) \/ d = Absent
    BY TextOutcome
  <1> HIDE DEF d
  <1>5. (d = Null /\ s.nullable) \/ d = Absent \/ \E j \in Filled(s) : d = Of(j, c) /\ c \in Contents
    <2>1. CASE d = Of(k, c) /\ k # "blank"
      BY <1>3, <2>1
    <2>2. CASE d = Of("joined", c) /\ ControlOf(s) = "text" /\ k \in {"lines", "crlf"}
      <3>1. "joined" \in Filled(s)
        BY <1>3, <2>2, FilledTexts
      <3> QED BY <1>3, <2>2, <3>1
    <2>3. CASE d = Of("crlf", c) /\ k = "lines" /\ (ControlOf(s) \in {"select", "radio"} => ReadOnly(s))
      <3>1. "crlf" \in Filled(s)
        BY <1>3, <2>3, FilledTexts
      <3> QED BY <1>3, <2>3, <3>1
    <2> QED BY <1>4, <2>1, <2>2, <2>3
  <1> QED BY <1>1, <1>2, <1>5 DEF d

LEMMA TextKept ==
  ASSUME NEW s \in FieldConfig, s.column \in TextColumns, declared \in BOOLEAN,
         NoContent \notin Contents,
         Rendered(s), s.read,
         NEW k \in TextKinds, NEW c \in Contents \cup {NoContent},
         k = "blank" <=> c = NoContent,
         k \in Filled(s) \cup {"blank"}, Presentable(s, Of(k, c))
  PROVE  Decoded(s, Of(k, c)) \in {Of(k, c), Absent}
  <1> DEFINE d == Decoded(s, Of(k, c))
  <1>1. /\ k # "lines" /\ (k = "crlf" => ControlOf(s) # "text")
        /\ ControlOf(s) \in {"select", "radio"} /\ c \in Contents => c \in s.options
        /\ k = "blank" => ~s.nullable
    BY SMT DEF Presentable, Of, Blank
  <1>2. \/ d = Of(k, c)
        \/ d = Of("joined", c) /\ ControlOf(s) = "text" /\ k \in {"lines", "crlf"}
        \/ d = Of("crlf", c) /\ k = "lines"
        \/ d = Absent
        \/ /\ d = Null /\ s.nullable
           /\ \/ k = "blank"
              \/ /\ ControlOf(s) \in {"select", "radio"}
                 /\ (k # "plain" /\ ~ReadOnly(s)) \/ (k = "plain" /\ c \notin s.options)
    BY TextOutcome
  <1> HIDE DEF d
  <1>3. k \in Filled(s) => k \in {"plain", "lines", "joined", "crlf"}
    BY FilledTexts DEF TextKinds
  <1> QED BY <1>1, <1>2, <1>3, FilledTexts DEF d

LEMMA TextColumnsKeep ==
  ASSUME NEW s \in FieldConfig, s.column \in TextColumns, declared \in BOOLEAN,
         NoContent \notin Contents,
         NEW v, Held(s, v)
  PROVE  LET d == Decoded(s, Default(s, v)) IN Decodes(s, d) /\ Keeps(s, v, d)
  <1> DEFINE d == Decoded(s, Default(s, v))
  <1>1. CASE ~Rendered(s)
    BY <1>1, WithheldKeeps
  <1>2. CASE Rendered(s) /\ (v = Null \/ ~s.read)
    <2>1. Default(s, v) = Blank
      BY <1>2 DEF Default, TextOf, Null, True, Of, Blank
    <2>2. Decodes(s, Decoded(s, Blank))
      BY <1>2, TextDecodes DEF Blank, TextKinds
    <2>3. v = Null => d \in {Null, Absent}
      BY <1>2, <2>1, TextOutcome DEF Blank, TextKinds
    <2> QED BY <1>2, <2>1, <2>2, <2>3 DEF Keeps, Presentable
  <1>3. CASE Rendered(s) /\ v # Null /\ s.read
    <2>1. PICK k \in TextKinds, c \in Contents \cup {NoContent} :
              /\ v = Of(k, c) /\ (k = "blank" <=> c = NoContent)
              /\ k # "blank" => k \in Filled(s)
      BY <1>3, TextHeld
    <2>2. Default(s, v) = Of(k, c)
      BY <1>3, <2>1, SMT DEF Default, TextOf, Of, True, TextKinds
    <2>3. Decodes(s, Decoded(s, Of(k, c)))
      BY <1>3, <2>1, TextDecodes
    <2>4. Presentable(s, v) => Decoded(s, Of(k, c)) \in {Of(k, c), Absent}
      BY <1>3, <2>1, TextKept
    <2> QED BY <1>3, <2>1, <2>2, <2>3, <2>4 DEF Keeps
  <1> QED BY <1>1, <1>2, <1>3

LEMMA TextEntries ==
  ASSUME NEW s \in FieldConfig, s.column \in TextColumns, declared \in BOOLEAN,
         NEW e \in Entries(s)
  PROVE  \/ e.text = Blank /\ e.value = Null /\ ControlOf(s) # "radio"
         \/ \E k \in {"plain", "lines"}, c \in Contents :
              /\ e.text = Of(k, c) /\ e.value = Of(k, c)
              /\ k = "lines" => ControlOf(s) = "textarea"
              /\ ControlOf(s) \in {"select", "radio"} => c \in s.options
  <1>1. ControlOf(s) \in {"text", "textarea", "select", "radio", "reference"}
    BY TextControls
  <1>2. s.column # "number" /\ s.column # "date"
    BY DEF TextColumns
  <1>3. CASE ControlOf(s) \in {"text", "reference"}
    BY <1>2, <1>3, SMT DEF Entries, Of
  <1>4. CASE ControlOf(s) = "textarea"
    BY <1>2, <1>4, SMT DEF Entries, Of
  <1>5. CASE ControlOf(s) \in {"select", "radio"}
    BY <1>2, <1>5, SMT DEF Entries, Of
  <1> QED BY <1>1, <1>3, <1>4, <1>5

LEMMA TextColumnsTake ==
  ASSUME NEW s \in FieldConfig, s.column \in TextColumns, declared \in BOOLEAN,
         NoContent \notin Contents,
         Rendered(s), ~ReadOnly(s), NEW e \in Entries(s)
  PROVE  LET d == Decoded(s, e.text) IN Decodes(s, d) /\ Takes(s, e.value, d)
  <1>1. CASE e.text = Blank /\ e.value = Null /\ ControlOf(s) # "radio"
    <2>1. LET d == Decoded(s, Blank) IN (d = Null /\ s.nullable) \/ (d = Absent /\ ~s.nullable)
      <3>1. "blank" \in TextKinds /\ Blank = Of("blank", NoContent)
        BY DEF TextKinds, Blank
      <3> QED BY <1>1, <3>1, TextOutcome
    <2> QED BY <1>1, <2>1, NothingDecodes DEF Takes, BlankAs
  <1>2. ASSUME NEW k \in {"plain", "lines"}, NEW c \in Contents,
               e.text = Of(k, c), e.value = Of(k, c),
               k = "lines" => ControlOf(s) = "textarea",
               ControlOf(s) \in {"select", "radio"} => c \in s.options
        PROVE  LET d == Decoded(s, e.text) IN Decodes(s, d) /\ Takes(s, e.value, d)
    <2>1. k \in TextKinds /\ k \in Filled(s) /\ k # "blank" /\ c # NoContent
      BY <1>2, TextControls, SMT DEF TextKinds, Filled, TextColumns
    <2>2. Decodes(s, Decoded(s, Of(k, c)))
      BY <2>1, TextDecodes
    <2>3. \/ Decoded(s, Of(k, c)) = Of(k, c)
          \/ k = "lines" /\ Decoded(s, Of(k, c)) = Of("crlf", c)
      BY <1>2, <2>1, TextOutcome
    <2>4. Of(k, c).is = k /\ Of(k, c).of = c
      BY DEF Of
    <2> QED BY <1>2, <2>2, <2>3, <2>4 DEF Takes
  <1> QED BY <1>1, <1>2, TextEntries

(* Numbers *)

LEMMA NumberOutcome ==
  ASSUME NEW s \in FieldConfig, s.column = "number", declared \in BOOLEAN, Rendered(s),
         NoContent \notin Contents
  PROVE  /\ Decoded(s, Blank) = BlankAs(s)
         /\ \A c \in Contents : Decoded(s, Of("digits", c)) = Of("number", c)
  <1>1. /\ ControlOf(s) \in {"number", "text", "reference"}
        /\ renderedFieldShapes(s) \in {"none", "text", "number"}
    BY SMT DEF FieldConfig, ControlOf, inputTypeFor, Fitting, renderedFieldShapes
  <1>2. ASSUME NEW c \in Contents PROVE Decoded(s, Of("digits", c)) = Of("number", c)
    <2>1. Posted(s, Of("digits", c)) = Of("digits", c)
      BY <1>1, SMT DEF Posted, Shown, Of, Blank
    <2>2. readFormValues(s, Of("digits", c)) \in {Of("digits", c), Of("number", c)}
      BY <1>1, SMT DEF readFormValues, Of, Blank, Absent
    <2>3. coerceRowByColumns(s, Of("digits", c)) = Of("number", c)
      BY SMT DEF coerceRowByColumns, Of, Blank, IsText
    <2>4. coerceRowByColumns(s, Of("number", c)) = Of("number", c)
      BY SMT DEF coerceRowByColumns, Of, Blank, IsText
    <2> QED BY <2>1, <2>2, <2>3, <2>4 DEF Decoded
  <1>3. Posted(s, Blank) = Blank
    BY <1>1, SMT DEF Posted, Shown, Of, Blank
  <1>4. Decoded(s, Blank) = BlankAs(s)
    BY <1>1, <1>3, BlankDecodes DEF Decoded
  <1> QED BY <1>2, <1>4

LEMMA NumbersAreHeld ==
  ASSUME NEW s \in FieldConfig, s.column = "number", NEW c \in Contents
  PROVE  Decodes(s, Of("number", c)) /\ Of("number", c) # Null
  <1>1. inferSchema(s, Of("number", c)) /\ Of("number", c) # Null
    BY SMT DEF inferSchema, Of, Null
  <1>2. Held(s, Of("number", c))
    BY SMT DEF Held, Filled
  <1> QED BY <1>1, <1>2 DEF Decodes

LEMMA NumberColumnsKeep ==
  ASSUME NEW s \in FieldConfig, s.column = "number", declared \in BOOLEAN,
         NoContent \notin Contents,
         NEW v, Held(s, v)
  PROVE  LET d == Decoded(s, Default(s, v)) IN Decodes(s, d) /\ Keeps(s, v, d)
  <1>1. CASE ~Rendered(s)
    BY <1>1, WithheldKeeps
  <1>2. CASE Rendered(s) /\ (v = Null \/ ~s.read)
    <2>1. Default(s, v) = Blank
      BY <1>2 DEF Default, TextOf, Null, True, Of, Blank
    <2>2. Decoded(s, Blank) = BlankAs(s)
      BY <1>2, NumberOutcome
    <2> QED BY <1>2, <2>1, <2>2, NothingDecodes DEF Keeps, Presentable, BlankAs
  <1>3. CASE Rendered(s) /\ v # Null /\ s.read
    <2>1. PICK c \in Contents : v = Of("number", c)
      <3>1. Filled(s) = {"number"}
        BY SMT DEF Filled
      <3> QED BY <1>3, <3>1 DEF Held
    <2>2. Default(s, v) = Of("digits", c)
      BY <1>3, <2>1, SMT DEF Default, TextOf, Of, True
    <2>3. Decoded(s, Of("digits", c)) = v
      BY <1>3, <2>1, NumberOutcome
    <2> QED BY <2>1, <2>2, <2>3, NumbersAreHeld DEF Keeps
  <1> QED BY <1>1, <1>2, <1>3

LEMMA NumberColumnsTake ==
  ASSUME NEW s \in FieldConfig, s.column = "number", declared \in BOOLEAN,
         NoContent \notin Contents,
         Rendered(s), NEW e \in Entries(s)
  PROVE  LET d == Decoded(s, e.text) IN Decodes(s, d) /\ Takes(s, e.value, d)
  <1>1. \/ e.text = Blank /\ e.value = Null
        \/ \E c \in Contents : e.text = Of("digits", c) /\ e.value = Of("number", c)
    <2>1. ControlOf(s) \in {"number", "text", "reference"}
      BY SMT DEF FieldConfig, ControlOf, inputTypeFor, Fitting
    <2> QED BY <2>1, SMT DEF Entries, Of
  <1>2. CASE e.text = Blank /\ e.value = Null
    BY <1>2, NumberOutcome, NothingDecodes DEF Takes, BlankAs
  <1>3. ASSUME NEW c \in Contents, e.text = Of("digits", c), e.value = Of("number", c)
        PROVE  LET d == Decoded(s, e.text) IN Decodes(s, d) /\ Takes(s, e.value, d)
    BY <1>3, NumberOutcome, NumbersAreHeld DEF Takes
  <1> QED BY <1>1, <1>2, <1>3

-----------------------------------------------------------------------------
(* Dates *)

LEMMA DateOutcome ==
  ASSUME NEW s \in FieldConfig, s.column = "date", declared \in BOOLEAN, Rendered(s),
         NoContent \notin Contents
  PROVE  /\ ControlOf(s) \in {"datetime", "date", "text"}
         /\ Decoded(s, Blank) = BlankAs(s)
         /\ \A k \in {"iso", "local", "day"}, c \in Contents :
              Decoded(s, Of(k, c)) =
                IF \/ ControlOf(s) = "text"
                   \/ ControlOf(s) = "datetime" /\ k = "local"
                   \/ ControlOf(s) = "date" /\ k = "day"
                THEN Of("instant", c) ELSE BlankAs(s)
  <1>1. /\ ControlOf(s) \in {"datetime", "date", "text"}
        /\ renderedFieldShapes(s) \in {"none", "text"}
    BY SMT DEF FieldConfig, ControlOf, inputTypeFor, Fitting, renderedFieldShapes
  <1>2. Posted(s, Blank) = Blank
    BY <1>1, SMT DEF Posted, Shown, Of, Blank
  <1>3. Decoded(s, Blank) = BlankAs(s)
    BY <1>1, <1>2, BlankDecodes DEF Decoded
  <1>4. ASSUME NEW k \in {"iso", "local", "day"}, NEW c \in Contents
        PROVE  Decoded(s, Of(k, c)) =
                IF \/ ControlOf(s) = "text"
                   \/ ControlOf(s) = "datetime" /\ k = "local"
                   \/ ControlOf(s) = "date" /\ k = "day"
                THEN Of("instant", c) ELSE BlankAs(s)
    <2>1. Posted(s, Of(k, c)) =
                IF \/ ControlOf(s) = "text"
                   \/ ControlOf(s) = "datetime" /\ k = "local"
                   \/ ControlOf(s) = "date" /\ k = "day"
                THEN Of(k, c) ELSE Blank
      BY <1>1, SMT DEF Posted, Shown, Of, Blank
    <2>2. readFormValues(s, Of(k, c)) = Of(k, c)
      BY <1>1, SMT DEF readFormValues, Of, Blank, Absent
    <2>3. coerceRowByColumns(s, Of(k, c)) = Of("instant", c)
      BY SMT DEF coerceRowByColumns, Of, Blank, IsText
    <2> QED BY <1>1, <2>1, <2>2, <2>3, BlankDecodes DEF Decoded
  <1> QED BY <1>1, <1>3, <1>4

LEMMA InstantsAreHeld ==
  ASSUME NEW s \in FieldConfig, s.column = "date", NEW c \in Contents
  PROVE  Decodes(s, Of("instant", c))
  <1>1. inferSchema(s, Of("instant", c))
    BY SMT DEF inferSchema, Of, Null
  <1>2. Held(s, Of("instant", c))
    BY SMT DEF Held, Filled
  <1> QED BY <1>1, <1>2 DEF Decodes

LEMMA DateColumnsKeep ==
  ASSUME NEW s \in FieldConfig, s.column = "date", declared \in BOOLEAN,
         NoContent \notin Contents,
         NEW v, Held(s, v)
  PROVE  LET d == Decoded(s, Default(s, v)) IN Decodes(s, d) /\ Keeps(s, v, d)
  <1>1. CASE ~Rendered(s)
    BY <1>1, WithheldKeeps
  <1>2. CASE Rendered(s) /\ (v = Null \/ ~s.read)
    <2>1. Default(s, v) = Blank
      BY <1>2 DEF Default, TextOf, Null, True, Of, Blank
    <2>2. Decoded(s, Blank) = BlankAs(s)
      BY <1>2, DateOutcome
    <2> QED BY <1>2, <2>1, <2>2, NothingDecodes DEF Keeps, Presentable, BlankAs
  <1>3. CASE Rendered(s) /\ v # Null /\ s.read
    <2>1. PICK c \in Contents : v = Of("instant", c)
      <3>1. Filled(s) = {"instant"}
        BY SMT DEF Filled
      <3> QED BY <1>3, <3>1 DEF Held
    <2>2. Default(s, v) = Of("iso", c)
      BY <1>3, <2>1, SMT DEF Default, TextOf, Of, True
    <2>3. Decoded(s, Of("iso", c)) = IF ControlOf(s) = "text" THEN v ELSE BlankAs(s)
      BY <1>3, <2>1, DateOutcome
    <2>4. Presentable(s, v) => ControlOf(s) = "text"
      <3>1. v.is = "instant"
        BY <2>1 DEF Of
      <3> QED BY <1>3, <3>1, DateOutcome DEF Presentable
    <2> QED BY <1>3, <2>1, <2>2, <2>3, <2>4, InstantsAreHeld, NothingDecodes DEF Keeps
  <1> QED BY <1>1, <1>2, <1>3

LEMMA DateColumnsTake ==
  ASSUME NEW s \in FieldConfig, s.column = "date", declared \in BOOLEAN,
         NoContent \notin Contents,
         Rendered(s), NEW e \in Entries(s)
  PROVE  LET d == Decoded(s, e.text) IN Decodes(s, d) /\ Takes(s, e.value, d)
  <1>1. \/ e.text = Blank /\ e.value = Null
        \/ \E k \in {"iso", "local", "day"}, c \in Contents :
             /\ e.text = Of(k, c) /\ e.value = Of("instant", c)
             /\ \/ ControlOf(s) = "text"
                \/ ControlOf(s) = "datetime" /\ k = "local"
                \/ ControlOf(s) = "date" /\ k = "day"
    <2>1. ControlOf(s) \in {"datetime", "date", "text"}
      BY DateOutcome
    <2>2. CASE ControlOf(s) = "text"
      BY <2>2, SMT DEF Entries, Of
    <2>3. CASE ControlOf(s) = "datetime"
      BY <2>3, SMT DEF Entries, Of
    <2>4. CASE ControlOf(s) = "date"
      BY <2>4, SMT DEF Entries, Of
    <2> QED BY <2>1, <2>2, <2>3, <2>4
  <1>2. CASE e.text = Blank /\ e.value = Null
    BY <1>2, DateOutcome, NothingDecodes DEF Takes, BlankAs
  <1>3. ASSUME NEW k \in {"iso", "local", "day"}, NEW c \in Contents,
               e.text = Of(k, c), e.value = Of("instant", c),
               \/ ControlOf(s) = "text"
               \/ ControlOf(s) = "datetime" /\ k = "local"
               \/ ControlOf(s) = "date" /\ k = "day"
        PROVE  LET d == Decoded(s, e.text) IN Decodes(s, d) /\ Takes(s, e.value, d)
    BY <1>3, DateOutcome, InstantsAreHeld DEF Takes
  <1> QED BY <1>1, <1>2, <1>3

-----------------------------------------------------------------------------
(* Boxes *)

LEMMA BoxOutcome ==
  ASSUME NEW s \in FieldConfig, s.column = "boolean", declared \in BOOLEAN, Rendered(s)
  PROVE  /\ ControlOf(s) = "checkbox"
         /\ \/ Decoded(s, On) = True /\ Decoded(s, Blank) = False
            \/ /\ declared /\ s.hidden = "decidedNot"
               /\ Decoded(s, On) = Invalid /\ Decoded(s, Blank) = Absent
  <1>1. s.control = "checkbox" /\ ControlOf(s) = "checkbox"
    BY SMT DEF FieldConfig, ControlOf, inputTypeFor, Fitting
  <1>2. Posted(s, On) = On /\ Posted(s, Blank) = Absent
    BY <1>1, SMT DEF Posted, Shown, Of, On, Blank
  <1>3. \/ renderedFieldShapes(s) = "boolean"
        \/ renderedFieldShapes(s) = "none" /\ declared /\ s.hidden = "decidedNot"
    BY <1>1, SMT DEF renderedFieldShapes, Rendered
  <1>4. CASE renderedFieldShapes(s) = "boolean"
    <2>1. readFormValues(s, On) = True /\ readFormValues(s, Absent) = False
      BY <1>4, SMT DEF readFormValues, Of, Absent, Blank, On, True, False
    <2>2. coerceRowByColumns(s, True) = True /\ coerceRowByColumns(s, False) = False
      BY SMT DEF coerceRowByColumns, True, False, Of, Blank, IsText
    <2> QED BY <1>1, <1>2, <2>1, <2>2 DEF Decoded
  <1>5. CASE renderedFieldShapes(s) = "none" /\ declared /\ s.hidden = "decidedNot"
    <2>1. readFormValues(s, On) = On /\ readFormValues(s, Absent) = Absent
      BY <1>5, SMT DEF readFormValues
    <2>2. coerceRowByColumns(s, On) = Invalid
      BY SMT DEF coerceRowByColumns, On, Of, Blank, IsText, Invalid
    <2> QED BY <1>1, <1>2, <1>5, <2>1, <2>2, BlankDecodes DEF Decoded
  <1> QED BY <1>3, <1>4, <1>5

LEMMA BoxesDecode ==
  ASSUME NEW s \in FieldConfig, s.column = "boolean", declared \in BOOLEAN, Rendered(s),
         NEW text \in {On, Blank}
  PROVE  Decodes(s, Decoded(s, text))
  <1>1. /\ inferSchema(s, True) /\ inferSchema(s, False) /\ ~inferSchema(s, Invalid)
    BY SMT DEF inferSchema, True, False, Null, Invalid, Of
  <1>2. Held(s, True) /\ Held(s, False)
    BY DEF Held
  <1>3. declared /\ s.hidden = "decidedNot" => Refusable(s)
    BY DEF Refusable
  <1> QED BY <1>1, <1>2, <1>3, BoxOutcome DEF Decodes

LEMMA BoxColumnsKeep ==
  ASSUME NEW s \in FieldConfig, s.column = "boolean", declared \in BOOLEAN,
         NoContent \notin Contents,
         NEW v, Held(s, v)
  PROVE  LET d == Decoded(s, Default(s, v)) IN
         Decodes(s, d) /\ (d = Absent \/ inferSchema(s, d) => Keeps(s, v, d))
  <1>1. CASE ~Rendered(s)
    BY <1>1, WithheldKeeps
  <1>2. CASE Rendered(s)
    <2>1. v \in {Null, True, False}
      <3>1. Filled(s) = {}
        BY SMT DEF Filled
      <3> QED BY <3>1 DEF Held
    <2>2. Default(s, v) = IF s.read /\ v = True THEN On ELSE Blank
      BY <1>2, <2>1, SMT DEF Default, TextOf, True, False, Null, Of
    <2>3. ~inferSchema(s, Invalid) /\ Invalid # Absent
      BY SMT DEF inferSchema, True, False, Null, Invalid, Absent, Of
    <2>4. v = Null \/ ~s.read => ~Presentable(s, v)
      BY DEF Presentable
    <2>5. Decodes(s, Decoded(s, Default(s, v)))
      BY <1>2, <2>2, BoxesDecode
    <2> QED BY <1>2, <2>1, <2>2, <2>3, <2>4, <2>5, BoxOutcome DEF Keeps
  <1> QED BY <1>1, <1>2

LEMMA BoxColumnsTake ==
  ASSUME NEW s \in FieldConfig, s.column = "boolean", declared \in BOOLEAN,
         NoContent \notin Contents,
         Rendered(s), NEW e \in Entries(s)
  PROVE  LET d == Decoded(s, e.text) IN
         Decodes(s, d) /\ (d = Absent \/ inferSchema(s, d) => Takes(s, e.value, d))
  <1>1. (e.text = On /\ e.value = True) \/ (e.text = Blank /\ e.value = False)
    BY BoxOutcome, SMT DEF Entries
  <1>2. ~inferSchema(s, Invalid) /\ Invalid # Absent
    BY SMT DEF inferSchema, True, False, Null, Invalid, Absent, Of
  <1> QED BY <1>1, <1>2, BoxOutcome, BoxesDecode DEF Takes

-----------------------------------------------------------------------------
(* Structures and lists *)

Structured == {"json", "array"}

LEMMA StructureOutcome ==
  ASSUME NEW s \in FieldConfig, s.column \in Structured, declared \in BOOLEAN, Rendered(s),
         NoContent \notin Contents
  PROVE  /\ ControlOf(s) \in {"json", "tags", "text"}
         /\ s.column = "json" => ControlOf(s) # "text"
         /\ ControlOf(s) = "text" => ~declared
         /\ renderedFieldShapes(s) \in {"none", "text", "list"}
         /\ renderedFieldShapes(s) = "list" => ControlOf(s) = "tags"
         /\ ControlOf(s) = "tags" => renderedFieldShapes(s) = "list"
                                       \/ (declared /\ s.hidden = "decidedNot")
         /\ Decoded(s, Blank) = IF renderedFieldShapes(s) = "list" THEN NoItems ELSE BlankAs(s)
         /\ \A k \in {"plain", "json", "jsonlist"}, c \in Contents :
              Decoded(s, Of(k, c)) =
                IF renderedFieldShapes(s) # "list" THEN Of(k, c)
                ELSE IF k = "jsonlist" THEN Of("list", c) ELSE NoItems
  <1> DEFINE shape == renderedFieldShapes(s)
  <1>1. /\ ControlOf(s) \in {"json", "tags", "text"}
        /\ s.column = "json" => ControlOf(s) # "text"
        /\ ControlOf(s) = "text" => ~declared
        /\ ControlOf(s) = "tags" => declared
        /\ declared => ControlOf(s) = s.control
    BY SMT DEF FieldConfig, ControlOf, inputTypeFor, Fitting, Structured
  <1>2. /\ shape \in {"none", "text", "list"}
        /\ shape = "list" => ControlOf(s) = "tags"
        /\ ControlOf(s) = "tags" => shape = "list" \/ (declared /\ s.hidden = "decidedNot")
    BY <1>1, SMT DEF renderedFieldShapes, Rendered, Structured, FieldConfig
  <1>3. Posted(s, Blank) = Blank
    BY <1>1, SMT DEF Posted, Shown, Of, Blank
  <1>4. shape = "list" => readFormValues(s, Blank) = NoItems
    BY SMT DEF readFormValues, Of, Blank, Absent, NoItems
  <1>5. coerceRowByColumns(s, NoItems) = NoItems
    BY SMT DEF coerceRowByColumns, NoItems, Of, Blank, IsText
  <1>6. Decoded(s, Blank) = IF shape = "list" THEN NoItems ELSE BlankAs(s)
    BY <1>2, <1>3, <1>4, <1>5, BlankDecodes DEF Decoded
  <1>7. ASSUME NEW k \in {"plain", "json", "jsonlist"}, NEW c \in Contents
        PROVE  Decoded(s, Of(k, c)) =
                IF shape # "list" THEN Of(k, c)
                ELSE IF k = "jsonlist" THEN Of("list", c) ELSE NoItems
    <2>1. Posted(s, Of(k, c)) = Of(k, c)
      BY <1>1, SMT DEF Posted, Shown, Of, Blank
    <2>2. readFormValues(s, Of(k, c)) =
                IF shape # "list" THEN Of(k, c)
                ELSE IF k = "jsonlist" THEN Of("list", c) ELSE NoItems
      BY <1>2, SMT DEF readFormValues, Of, Blank, Absent
    <2>3. /\ coerceRowByColumns(s, Of(k, c)) = Of(k, c)
          /\ coerceRowByColumns(s, Of("list", c)) = Of("list", c)
      BY SMT DEF coerceRowByColumns, Of, Blank, Structured
    <2> QED BY <1>5, <2>1, <2>2, <2>3 DEF Decoded
  <1> QED BY <1>1, <1>2, <1>6, <1>7

LEMMA StructuresDecode ==
  ASSUME NEW s \in FieldConfig, s.column \in Structured
  PROVE  /\ Decodes(s, NoItems)
         /\ \A c \in Contents :
              /\ Decodes(s, Of("list", c))
              /\ s.column = "json" => Decodes(s, Of("json", c)) /\ Decodes(s, Of("jsonlist", c))
              /\ s.column = "array" => ~inferSchema(s, Of("jsonlist", c)) /\ ~inferSchema(s, Of("plain", c))
  <1>1. Decodes(s, NoItems)
    <2>1. NoItems.is = "list" /\ NoItems # Null /\ NoItems # Invalid
      BY SMT DEF NoItems, Of, Null, Invalid
    <2>2. inferSchema(s, NoItems)
      BY <2>1 DEF inferSchema, Structured
    <2>3. Held(s, NoItems)
      BY DEF Held, Structured
    <2> QED BY <2>2, <2>3 DEF Decodes
  <1>2. ASSUME NEW c \in Contents, NEW k \in {"list", "json", "jsonlist", "plain"}
        PROVE  /\ Of(k, c).is = k /\ Of(k, c) # Null /\ Of(k, c) # Invalid
               /\ k \in Filled(s) => Held(s, Of(k, c))
    <2>1. Of(k, c).is = k /\ Of(k, c) # Null /\ Of(k, c) # Invalid
      BY SMT DEF Of, Null, Invalid
    <2> QED BY <2>1 DEF Held
  <1>3. /\ "list" \in Filled(s)
        /\ s.column = "json" => {"json", "jsonlist"} \subseteq Filled(s)
    BY SMT DEF Filled, Structured
  <1>4. ASSUME NEW c \in Contents PROVE Decodes(s, Of("list", c))
    <2>1. inferSchema(s, Of("list", c))
      BY <1>2 DEF inferSchema, Structured
    <2> QED BY <1>2, <1>3, <2>1 DEF Decodes
  <1>5. ASSUME NEW c \in Contents, s.column = "json"
        PROVE  Decodes(s, Of("json", c)) /\ Decodes(s, Of("jsonlist", c))
    <2>1. inferSchema(s, Of("json", c)) /\ inferSchema(s, Of("jsonlist", c))
      BY <1>2, <1>5 DEF inferSchema
    <2> QED BY <1>2, <1>3, <1>5, <2>1 DEF Decodes
  <1>6. ASSUME NEW c \in Contents, s.column = "array"
        PROVE  ~inferSchema(s, Of("jsonlist", c)) /\ ~inferSchema(s, Of("plain", c))
    BY <1>2, <1>6 DEF inferSchema
  <1> QED BY <1>1, <1>4, <1>5, <1>6

LEMMA StructureColumnsKeep ==
  ASSUME NEW s \in FieldConfig, s.column \in Structured, declared \in BOOLEAN,
         NoContent \notin Contents,
         NEW v, Held(s, v)
  PROVE  LET d == Decoded(s, Default(s, v)) IN Decodes(s, d) /\ Keeps(s, v, d)
  <1>1. CASE ~Rendered(s)
    BY <1>1, WithheldKeeps
  <1>2. Rendered(s) => Decodes(s, Decoded(s, Blank))
    BY StructureOutcome, StructuresDecode, NothingDecodes
  <1>3. CASE Rendered(s) /\ (~s.read \/ v.is \in {"object", "list"})
    <2>1. Default(s, v) = Blank
      <3>1. v.is \in {"object", "list"} => v # True
        BY DEF True, Of
      <3> QED BY <1>3, <3>1, SMT DEF Default, TextOf
    <2>2. ~Presentable(s, v)
      BY <1>3 DEF Presentable
    <2> QED BY <1>2, <1>3, <2>1, <2>2 DEF Keeps
  <1>4. CASE Rendered(s) /\ s.read /\ v = Null
    <2>1. Default(s, v) = Blank
      BY <1>4 DEF Default, TextOf, Null, True, Of, Blank
    <2>2. ControlOf(s) # "tags" => Decoded(s, Blank) = BlankAs(s)
      BY <1>4, StructureOutcome
    <2>3. ControlOf(s) = "tags" => ~Presentable(s, v)
      BY DEF Presentable
    <2> QED BY <1>2, <1>4, <2>1, <2>2, <2>3 DEF Keeps, BlankAs
  <1>5. ASSUME Rendered(s), s.read, NEW k \in {"json", "jsonlist"}, NEW c \in Contents,
               v = Of(k, c),
               s.column = "json"
        PROVE  LET d == Decoded(s, Default(s, v)) IN Decodes(s, d) /\ Keeps(s, v, d)
    <2>1. Default(s, v) = Of(k, c)
      BY <1>5, SMT DEF Default, TextOf, Of, True
    <2>2. ControlOf(s) # "tags" => Decoded(s, Of(k, c)) = v
      BY <1>5, StructureOutcome
    <2>3. ControlOf(s) = "tags" => ~Presentable(s, v)
      BY DEF Presentable
    <2>4. Decodes(s, Decoded(s, Of(k, c)))
      BY <1>5, StructureOutcome, StructuresDecode
    <2> QED BY <1>5, <2>1, <2>2, <2>3, <2>4 DEF Keeps
  <1>6. \/ v = Null \/ v.is \in {"object", "list"}
        \/ s.column = "json" /\ \E k \in {"json", "jsonlist"}, c \in Contents : v = Of(k, c)
    <2>1. v = NoItems => v.is = "list"
      BY DEF NoItems, Of
    <2>2. /\ s.column = "json" => Filled(s) = {"object", "list", "json", "jsonlist"}
          /\ s.column = "array" => Filled(s) = {"list"}
      BY SMT DEF Filled
    <2>3. \A k, c : Of(k, c).is = k
      BY DEF Of
    <2> QED BY <2>1, <2>2, <2>3 DEF Held, Structured
  <1> QED BY <1>1, <1>3, <1>4, <1>5, <1>6

LEMMA StructureColumnsTake ==
  ASSUME NEW s \in FieldConfig, s.column \in Structured, declared \in BOOLEAN,
         NoContent \notin Contents,
         Rendered(s), NEW e \in Entries(s)
  PROVE  LET d == Decoded(s, e.text) IN
         Decodes(s, d) /\ (d = Absent \/ inferSchema(s, d) => Takes(s, e.value, d))
  <1>1. \/ ControlOf(s) = "text" /\ e.text = Blank /\ e.value = Null
        \/ ControlOf(s) = "text" /\ \E c \in Contents : e.text = Of("plain", c)
        \/ ControlOf(s) = "json" /\ \E c \in Contents : e.text = Of("json", c) /\ e.value = Of("object", c)
        \/ ControlOf(s) = "tags" /\ \E c \in Contents : e.text = Of("jsonlist", c) /\ e.value = Of("list", c)
    <2>1. ControlOf(s) \in {"json", "tags", "text"}
      BY StructureOutcome
    <2>2. CASE ControlOf(s) = "text"
      BY <2>2, SMT DEF Entries, Of, Structured
    <2>3. CASE ControlOf(s) = "json"
      BY <2>3, SMT DEF Entries, Of
    <2>4. CASE ControlOf(s) = "tags"
      BY <2>4, SMT DEF Entries, Of
    <2> QED BY <2>1, <2>2, <2>3, <2>4
  <1>2. CASE ControlOf(s) = "text" /\ e.text = Blank /\ e.value = Null
    <2>1. Decoded(s, Blank) = BlankAs(s)
      BY <1>2, StructureOutcome
    <2> QED BY <1>2, <2>1, NothingDecodes DEF Takes, BlankAs
  <1>3. ASSUME NEW c \in Contents, ControlOf(s) = "text", e.text = Of("plain", c)
        PROVE  LET d == Decoded(s, e.text) IN
               Decodes(s, d) /\ (d = Absent \/ inferSchema(s, d) => Takes(s, e.value, d))
    <2>1. Decoded(s, Of("plain", c)) = Of("plain", c) /\ s.column = "array" /\ ~declared
      BY <1>3, StructureOutcome DEF Structured
    <2>2. ~inferSchema(s, Of("plain", c)) /\ Of("plain", c) # Absent
      BY <2>1, StructuresDecode DEF Of, Absent
    <2> QED BY <1>3, <2>1, <2>2 DEF Decodes, Refusable
  <1>4. ASSUME NEW c \in Contents, ControlOf(s) = "json", e.text = Of("json", c),
               e.value = Of("object", c)
        PROVE  LET d == Decoded(s, e.text) IN Decodes(s, d) /\ Takes(s, e.value, d)
    <2>1. Decoded(s, Of("json", c)) = Of("json", c)
      BY <1>4, StructureOutcome
    <2>2. s.column = "json"
      <3>1. s.column = "array" => ControlOf(s) # "json"
        BY SMT DEF FieldConfig, ControlOf, inputTypeFor, Fitting
      <3> QED BY <1>4, <3>1 DEF Structured
    <2>3. e.value.is = "object" /\ e.value.of = c
      BY <1>4 DEF Of
    <2> QED BY <1>4, <2>1, <2>2, <2>3, StructuresDecode DEF Takes
  <1>5. ASSUME NEW c \in Contents, ControlOf(s) = "tags", e.text = Of("jsonlist", c),
               e.value = Of("list", c)
        PROVE  LET d == Decoded(s, e.text) IN
               Decodes(s, d) /\ (d = Absent \/ inferSchema(s, d) => Takes(s, e.value, d))
    <2>1. e.value.is = "list" /\ e.value.of = c /\ Of("jsonlist", c) # Absent
      BY <1>5 DEF Of, Absent
    <2>2. CASE renderedFieldShapes(s) = "list"
      <3>1. Decoded(s, e.text) = Of("list", c)
        BY <1>5, <2>2, StructureOutcome
      <3> QED BY <1>5, <3>1, StructuresDecode DEF Takes
    <2>3. CASE renderedFieldShapes(s) # "list"
      <3>1. Decoded(s, e.text) = Of("jsonlist", c) /\ declared /\ s.hidden = "decidedNot"
        BY <1>5, <2>3, StructureOutcome
      <3>2. CASE s.column = "json"
        BY <1>5, <2>1, <3>1, <3>2, StructuresDecode DEF Takes
      <3>3. CASE s.column = "array"
        BY <1>5, <2>1, <3>1, <3>3, StructuresDecode DEF Decodes, Refusable
      <3> QED BY <3>2, <3>3 DEF Structured
    <2> QED BY <2>2, <2>3
  <1> QED BY <1>1, <1>2, <1>3, <1>4, <1>5

-----------------------------------------------------------------------------
(* A field of any column *)

LEMMA FieldKeeps ==
  ASSUME NEW s \in FieldConfig, declared \in BOOLEAN, NoContent \notin Contents, NEW v,
         Held(s, v)
  PROVE  LET d == Decoded(s, Default(s, v)) IN
         Decodes(s, d) /\ (d = Absent \/ inferSchema(s, d) => Keeps(s, v, d))
  <1>1. s.column \in TextColumns \cup {"number", "date", "boolean"} \cup Structured
    BY DEF FieldConfig, Columns, TextColumns, Structured
  <1> QED BY <1>1, TextColumnsKeep, NumberColumnsKeep, DateColumnsKeep, BoxColumnsKeep,
             StructureColumnsKeep

LEMMA FieldTakes ==
  ASSUME NEW s \in FieldConfig, declared \in BOOLEAN, NoContent \notin Contents,
         Rendered(s), ~ReadOnly(s), NEW e \in Entries(s)
  PROVE  LET d == Decoded(s, e.text) IN
         Decodes(s, d) /\ (d = Absent \/ inferSchema(s, d) => Takes(s, e.value, d))
  <1>1. s.column \in TextColumns \cup {"number", "date", "boolean"} \cup Structured
    BY DEF FieldConfig, Columns, TextColumns, Structured
  <1> QED BY <1>1, TextColumnsTake, NumberColumnsTake, DateColumnsTake, BoxColumnsTake,
             StructureColumnsTake

-----------------------------------------------------------------------------
(* The form *)

FormTypes ==
  /\ form \in DOMAIN Forms
  /\ formStage \in {"closed", "open", "posted", "saved", "refused"}
  /\ DOMAIN record = FormFields /\ DOMAIN controls = FormFields /\ DOMAIN wish = FormFields

\* A control holds what was entered into it, or the default of what the record held
\* when the page was rendered, and still holds unless others wrote the field.
ControlTells(f) ==
  LET s == fields[f] IN
  IF wish[f] = Absent
  THEN \E v \in Holds(s) : controls[f] = Default(s, v) /\ (f \in elsewhere \/ v = record[f])
  ELSE Rendered(s) /\ ~ReadOnly(s) /\ \E e \in Entries(s) : controls[f] = e.text /\ wish[f] = e.value

RecordIsHeld == \A f \in FormFields : record[f] \in Holds(fields[f])
ControlsTell == formStage \in {"open", "posted"} => \A f \in FormFields : ControlTells(f)
BodyIsPosted ==
  formStage = "posted" => \A f \in FormFields : body[f] = Posted(fields[f], controls[f])

FormInv == FormTypes /\ RecordIsHeld /\ ControlsTell /\ BodyIsPosted /\ SavingIsTrue

\* What a field is does not change with the rest of the form's state.
LEMMA SameForm ==
  ASSUME form' = form
  PROVE  /\ declared' = declared /\ fields' = fields
         /\ \A s : Holds(s)' = Holds(s)
         /\ \A s, v : Default(s, v)' = Default(s, v)
         /\ \A s, t : Posted(s, t)' = Posted(s, t)
         /\ \A s : (Rendered(s)' <=> Rendered(s)) /\ (ReadOnly(s)' <=> ReadOnly(s))
         /\ \A s : Entries(s)' = Entries(s)
  <1>1. declared' = declared /\ fields' = fields
    BY DEF declared, fields
  <1>2. \A s : /\ ControlOf(s)' = ControlOf(s)
               /\ Rendered(s)' <=> Rendered(s)
               /\ ReadOnly(s)' <=> ReadOnly(s)
    BY <1>1 DEF ControlOf, Rendered, ReadOnly
  <1>3. \A s : Filled(s)' = Filled(s)
    BY <1>2 DEF Filled
  <1>4. \A s : Holds(s)' = Holds(s)
    BY <1>3 DEF Holds
  <1>5. \A s, v : Default(s, v)' = Default(s, v)
    BY <1>2 DEF Default
  <1>6. \A s, t : Shown(s, t)' = Shown(s, t)
    BY <1>2 DEF Shown
  <1>7. \A s, t : Posted(s, t)' = Posted(s, t)
    BY <1>2, <1>6 DEF Posted
  <1>8. \A s : Entries(s)' = Entries(s)
    BY <1>2 DEF Entries
  <1> QED BY <1>1, <1>2, <1>4, <1>5, <1>7, <1>8

LEMMA FieldsAreConfigured ==
  ASSUME form \in DOMAIN Forms
  PROVE  declared \in BOOLEAN /\ \A f \in FormFields : fields[f] \in FieldConfig
  <1>1. Forms[form] \in FormConfig
    BY FormsAssumption
  <1> QED BY <1>1 DEF FormConfig, declared, fields

\* What is written elsewhere may be held.
LEMMA StoredIsHeld ==
  ASSUME NEW s \in FieldConfig, NEW v \in Stored(s)
  PROVE  Held(s, v)
  <1>1. s.column \in Columns
    BY DEF FieldConfig
  <1>2. CASE s.column = "string"
    <2>1. \/ v = Null /\ s.nullable
          \/ v = Blank \/ \E k \in {"plain", "lines"}, c \in Contents : v = Of(k, c)
      BY <1>2 DEF Stored
    <2>2. {"plain", "lines"} \subseteq Filled(s)
      BY <1>2, SMT DEF Filled
    <2> QED BY <1>2, <2>1, <2>2 DEF Held
  <1>3. CASE s.column = "boolean"
    <2>1. (v = Null /\ s.nullable) \/ v \in {True, False}
      BY <1>3, SMT DEF Stored
    <2> QED BY <1>3, <2>1 DEF Held
  <1>4. ASSUME NEW k, \/ s.column = "enum" /\ k = "plain"
                      \/ s.column = "number" /\ k = "number"
                      \/ s.column = "date" /\ k = "instant"
                      \/ s.column = "json" /\ k = "object"
                      \/ s.column = "array" /\ k = "list"
        PROVE  Held(s, v)
    <2>1. (v = Null /\ s.nullable) \/ \E c \in Contents : v = Of(k, c)
      BY <1>4, SMT DEF Stored
    <2>2. k \in Filled(s)
      BY <1>4, SMT DEF Filled
    <2> QED BY <2>1, <2>2 DEF Held
  <1> QED BY <1>1, <1>2, <1>3, <1>4 DEF Columns

LEMMA InitForm == FormInit => FormInv
  <1> SUFFICES ASSUME FormInit PROVE FormInv
    OBVIOUS
  <1>1. form \in DOMAIN Forms /\ formStage = "closed"
    BY DEF FormInit
  <1>2. record \in [FormFields -> UNION {Stored(fields[f]) : f \in FormFields}]
        /\ \A f \in FormFields : record[f] \in Stored(fields[f])
    BY DEF FormInit, RecordsOf
  <1>3. RecordIsHeld
    BY <1>1, <1>2, FieldsAreConfigured, StoredIsHeld, HoldsIsHeld DEF RecordIsHeld
  <1>4. DOMAIN record = FormFields /\ DOMAIN controls = FormFields /\ DOMAIN wish = FormFields
    BY <1>2 DEF FormInit, NoneOf
  <1> QED BY <1>1, <1>3, <1>4 DEF FormInv, FormTypes, ControlsTell, BodyIsPosted,
           SavingIsTrue

\* What the server makes of what a field posts.
LEMMA InputOfField ==
  ASSUME FormInv, formStage = "posted", NEW f \in FormFields
  PROVE  /\ Decodes(fields[f], Input(f))
         /\ Input(f) = Absent \/ inferSchema(fields[f], Input(f)) =>
              IF wish[f] = Absent
              THEN (Rendered(fields[f]) /\ f \in elsewhere) \/ Keeps(fields[f], record[f], Input(f))
              ELSE Takes(fields[f], wish[f], Input(f))
  <1>1. fields[f] \in FieldConfig /\ declared \in BOOLEAN /\ NoContent \notin Contents
    BY FieldsAreConfigured, FormsAssumption DEF FormInv, FormTypes
  <1>2. Input(f) = Decoded(fields[f], controls[f])
    BY DEF Input, Decoded, FormInv, BodyIsPosted
  <1>3. ControlTells(f)
    BY DEF FormInv, ControlsTell
  <1>4. CASE wish[f] = Absent
    <2>1. PICK v \in Holds(fields[f]) :
            /\ controls[f] = Default(fields[f], v)
            /\ f \in elsewhere \/ v = record[f]
      BY <1>3, <1>4 DEF ControlTells
    <2>2. Held(fields[f], v)
      BY <2>1, HoldsIsHeld
    <2> QED BY <1>1, <1>2, <1>4, <2>1, <2>2, FieldKeeps, WithheldKeeps
  <1>5. CASE wish[f] # Absent
    <2>1. PICK e \in Entries(fields[f]) : controls[f] = e.text /\ wish[f] = e.value
      BY <1>3, <1>5 DEF ControlTells
    <2>2. Rendered(fields[f]) /\ ~ReadOnly(fields[f])
      BY <1>3, <1>5 DEF ControlTells
    <2> QED BY <1>1, <1>2, <1>5, <2>1, <2>2, FieldTakes
  <1> QED BY <1>4, <1>5

LEMMA PresentsTheSame ==
  ASSUME form' = form
  PROVE  \A s, v : Presentable(s, v)' <=> Presentable(s, v)
  BY SameForm DEF Presentable, ControlOf

\* Nothing taken from a control is what was put into it only where the field cannot
\* be cleared, or the box cannot be told from one that was not there.
LEMMA AbsentIsTaken ==
  ASSUME NEW s, NEW w, w # Absent, Takes(s, w, Absent)
  PROVE  (w = Null /\ ~s.nullable) \/ (w = False /\ declared /\ s.hidden = "decidedNot")
  BY SMT DEF Takes, Of, Absent

LEMMA AbsentIsNotHeld ==
  ASSUME NEW s \in FieldConfig
  PROVE  ~Held(s, Absent)
  <1>1. "absent" \notin Filled(s)
    BY SMT DEF Filled, FieldConfig, Columns
  <1>2. \A k, c : Absent = Of(k, c) => k = "absent"
    BY SMT DEF Absent, Of
  <1>3. Absent \notin {Null, Blank, True, False, NoItems}
    BY SMT DEF Absent, Of, Null, Blank, True, False, NoItems
  <1> QED BY <1>1, <1>2, <1>3 DEF Held

LEMMA SaveKeepsForm == FormInv /\ SaveForm => FormInv'
  <1> SUFFICES ASSUME FormInv, SaveForm PROVE FormInv'
    OBVIOUS
  <1> USE DEF FormTypes
  <1>1. /\ form' = form /\ elsewhere' = elsewhere /\ wish' = wish /\ controls' = controls
        /\ found' = record /\ formStage = "posted"
    BY DEF SaveForm
  <1>2. form \in DOMAIN Forms /\ DOMAIN record = FormFields
        /\ DOMAIN controls = FormFields /\ DOMAIN wish = FormFields
    BY DEF FormInv
  <1>3. declared' = declared /\ fields' = fields
        /\ (\A s : Rendered(s)' <=> Rendered(s)) /\ \A s : Holds(s)' = Holds(s)
    BY <1>1, SameForm
  <1>4. CASE /\ \A f \in FormFields : Accepts(f)
             /\ record' = [f \in FormFields |-> IF Input(f) = Absent THEN record[f] ELSE Input(f)]
             /\ formStage' = "saved"
    <2>1. ASSUME NEW f \in FormFields
          PROVE  /\ record'[f] \in Holds(fields[f])
                 /\ IF wish[f] = Absent
                    THEN \/ record'[f] = record[f]
                         \/ Rendered(fields[f]) /\ (f \in elsewhere \/ ~Presentable(fields[f], record[f]))
                         \/ declared /\ fields[f].role = "lacks"
                    ELSE \/ Takes(fields[f], wish[f], record'[f])
                         \/ record'[f] = record[f] /\ Takes(fields[f], wish[f], Absent)
      <3>1. Input(f) = Absent \/ inferSchema(fields[f], Input(f))
        BY <1>4 DEF Accepts
      <3>2. record'[f] = IF Input(f) = Absent THEN record[f] ELSE Input(f)
        BY <1>4
      <3>3. record[f] \in Holds(fields[f])
        BY DEF FormInv, RecordIsHeld
      <3>4. record'[f] \in Holds(fields[f])
        BY <1>1, <3>1, <3>2, <3>3, InputOfField, HoldsIsHeld DEF Decodes
      <3>5. IF wish[f] = Absent
            THEN (Rendered(fields[f]) /\ f \in elsewhere) \/ Keeps(fields[f], record[f], Input(f))
            ELSE Takes(fields[f], wish[f], Input(f))
        BY <1>1, <3>1, InputOfField
      <3>6. IF wish[f] = Absent
            THEN \/ record'[f] = record[f]
                 \/ Rendered(fields[f]) /\ (f \in elsewhere \/ ~Presentable(fields[f], record[f]))
                 \/ declared /\ fields[f].role = "lacks"
            ELSE \/ Takes(fields[f], wish[f], record'[f])
                 \/ record'[f] = record[f] /\ Takes(fields[f], wish[f], Absent)
        <4>1. CASE wish[f] = Absent
          BY <3>2, <3>5, <4>1 DEF Keeps
        <4>2. CASE wish[f] # Absent
          BY <3>2, <3>5, <4>2
        <4> QED BY <4>1, <4>2
      <3> QED BY <3>4, <3>6
    <2>2. RecordIsHeld'
      BY <1>3, <2>1 DEF RecordIsHeld
    <2>3. ASSUME NEW f \in FormFields, wish[f] = Absent PROVE LeftAlone(f)'
      BY <1>1, <1>3, <2>1, <2>3, PresentsTheSame DEF LeftAlone
    <2>4. ASSUME NEW f \in FormFields, wish[f] # Absent PROVE TakenOver(f)'
      <3>1. CASE Takes(fields[f], wish[f], record'[f]) /\ record'[f] # Absent
        BY <1>1, <1>3, <3>1 DEF TakenOver, Takes
      <3>2. CASE record'[f] = record[f] /\ Takes(fields[f], wish[f], Absent)
        BY <1>1, <1>3, <2>4, <3>2, AbsentIsTaken DEF TakenOver
      <3>3. record'[f] # Absent
        BY <1>2, <2>1, AbsentIsNotHeld, HoldsIsHeld, FieldsAreConfigured
      <3> QED BY <2>1, <2>4, <3>1, <3>2, <3>3
    <2>5. SavingIsTrue'
      BY <1>1, <1>4, <2>3, <2>4 DEF SavingIsTrue
    <2> QED BY <1>1, <1>2, <1>4, <2>2, <2>5 DEF FormInv, ControlsTell, BodyIsPosted
  <1>5. CASE /\ \E f \in FormFields : ~Accepts(f)
             /\ formStage' = "refused"
             /\ UNCHANGED record
    <2>1. PICK f \in FormFields : ~Accepts(f)
      BY <1>5
    <2>2. ~effectiveFieldPolicies(fields[f]) \/ Refusable(fields[f])
      BY <1>1, <2>1, InputOfField DEF Accepts, Decodes
    <2>3. SavingIsTrue'
      BY <1>1, <1>3, <1>5, <2>2 DEF SavingIsTrue, Refusable, effectiveFieldPolicies,
         ReadOnly
    <2>4. RecordIsHeld'
      BY <1>3, <1>5 DEF FormInv, RecordIsHeld
    <2> QED BY <1>1, <1>2, <1>5, <2>3, <2>4 DEF FormInv, ControlsTell, BodyIsPosted
  <1> QED BY <1>4, <1>5 DEF SaveForm

LEMMA EntriesHaveValues ==
  ASSUME NEW s \in FieldConfig, declared \in BOOLEAN, NEW e \in Entries(s)
  PROVE  e.value # Absent
  <1>1. ControlOf(s) \in Controls
    BY SMT DEF FieldConfig, ControlOf, inputTypeFor, Controls
  <1>2. CASE ControlOf(s) \in {"text", "reference", "textarea"}
    BY <1>2, SMT DEF Entries, Of, Absent, Null
  <1>3. CASE ControlOf(s) \in {"number", "datetime", "date", "select", "radio", "json", "tags"}
    BY <1>3, SMT DEF Entries, Of, Absent, Null
  <1>4. CASE ControlOf(s) = "checkbox"
    BY <1>4, SMT DEF Entries, Of, Absent, True, False
  <1> QED BY <1>1, <1>2, <1>3, <1>4 DEF Controls

LEMMA StepForm == FormInv /\ [FormNext]_editForm => FormInv'
  <1> SUFFICES ASSUME FormInv, [FormNext]_editForm PROVE FormInv'
    OBVIOUS
  <1>0. /\ form \in DOMAIN Forms /\ DOMAIN record = FormFields
        /\ DOMAIN controls = FormFields /\ DOMAIN wish = FormFields
        /\ formStage \in {"closed", "open", "posted", "saved", "refused"}
        /\ RecordIsHeld /\ ControlsTell /\ BodyIsPosted
    BY DEF FormInv, FormTypes
  <1>1. CASE RenderForm
    <2>1. /\ form' = form /\ record' = record /\ formStage' = "open"
          /\ controls' = [f \in FormFields |-> Default(fields[f], record[f])]
          /\ wish' = [f \in FormFields |-> Absent]
      BY <1>1 DEF RenderForm, NoneOf, Default
    <2>2. FormTypes'
      BY <1>0, <2>1 DEF FormTypes
    <2>3. RecordIsHeld'
      BY <1>0, <2>1, SameForm DEF RecordIsHeld
    <2>4. ASSUME NEW f \in FormFields PROVE ControlTells(f)'
      <3>1. record[f] \in Holds(fields[f])
        BY <1>0 DEF RecordIsHeld
      <3>2. controls'[f] = Default(fields[f], record'[f]) /\ wish'[f] = Absent
        BY <2>1
      <3> QED BY <2>1, <3>1, <3>2, SameForm DEF ControlTells
    <2> QED BY <2>1, <2>2, <2>3, <2>4 DEF FormInv, ControlsTell, BodyIsPosted, SavingIsTrue
  <1>2. CASE SubmitForm
    <2>1. /\ UNCHANGED <<form, record, controls, elsewhere, wish, found>>
          /\ formStage = "open" /\ formStage' = "posted"
          /\ body' = [f \in FormFields |-> Posted(fields[f], controls[f])]
      BY <1>2 DEF SubmitForm
    <2>2. FormTypes' /\ RecordIsHeld'
      BY <1>0, <2>1, SameForm DEF FormTypes, RecordIsHeld
    <2>3. ASSUME NEW f \in FormFields PROVE ControlTells(f)'
      <3>1. ControlTells(f)
        BY <1>0, <2>1 DEF ControlsTell
      <3> QED BY <2>1, <3>1, SameForm DEF ControlTells
    <2>4. BodyIsPosted'
      BY <2>1, SameForm DEF BodyIsPosted
    <2> QED BY <2>1, <2>2, <2>3, <2>4 DEF FormInv, ControlsTell, SavingIsTrue
  <1>3. CASE SaveForm
    BY <1>3, SaveKeepsForm
  <1>4. ASSUME NEW g \in FormFields, Enter(g) PROVE FormInv'
    <2>1. PICK e \in Entries(fields[g]) :
            /\ controls' = [controls EXCEPT ![g] = e.text]
            /\ wish' = [wish EXCEPT ![g] = e.value]
      BY <1>4 DEF Enter
    <2>2. /\ formStage = "open" /\ formStage' = "open"
          /\ Rendered(fields[g]) /\ ~ReadOnly(fields[g])
          /\ UNCHANGED <<form, record, body, elsewhere, found>>
      BY <1>4 DEF Enter
    <2>3. FormTypes' /\ RecordIsHeld'
      BY <1>0, <2>1, <2>2, SameForm DEF FormTypes, RecordIsHeld
    <2>4. ASSUME NEW f \in FormFields PROVE ControlTells(f)'
      <3>1. CASE f = g
        <4>1. e.value # Absent
          BY <1>0, EntriesHaveValues, FieldsAreConfigured
        <4>2. controls'[f] = e.text /\ wish'[f] = e.value
          BY <1>0, <2>1, <3>1
        <4> QED BY <2>2, <3>1, <4>1, <4>2, SameForm DEF ControlTells
      <3>2. CASE f # g
        <4>1. controls'[f] = controls[f] /\ wish'[f] = wish[f]
          BY <1>0, <2>1, <3>2
        <4>2. ControlTells(f)
          BY <1>0, <2>2 DEF ControlsTell
        <4> QED BY <2>2, <4>1, <4>2, SameForm DEF ControlTells
      <3> QED BY <3>1, <3>2
    <2> QED BY <2>2, <2>3, <2>4 DEF FormInv, ControlsTell, BodyIsPosted, SavingIsTrue
  <1>5. ASSUME NEW g \in FormFields, WriteUnderForm(g) PROVE FormInv'
    <2>1. PICK v \in Stored(fields[g]) : record' = [record EXCEPT ![g] = v]
      BY <1>5 DEF WriteUnderForm
    <2>2. /\ formStage \in {"open", "posted"} /\ elsewhere' = {g} /\ elsewhere = {}
          /\ UNCHANGED <<form, controls, body, formStage, wish, found>>
      BY <1>5 DEF WriteUnderForm
    <2>3. v \in Holds(fields[g])
      BY <1>0, StoredIsHeld, HoldsIsHeld, FieldsAreConfigured
    <2>4. RecordIsHeld'
      BY <1>0, <2>1, <2>2, <2>3, SameForm DEF RecordIsHeld
    <2>5. FormTypes'
      BY <1>0, <2>1, <2>2 DEF FormTypes
    <2>6. ASSUME NEW f \in FormFields PROVE ControlTells(f)'
      <3>1. ControlTells(f)
        BY <1>0, <2>2 DEF ControlsTell
      <3>2. f = g \/ record'[f] = record[f]
        BY <1>0, <2>1
      <3> QED BY <2>2, <3>1, <3>2, SameForm DEF ControlTells
    <2>7. BodyIsPosted'
      BY <1>0, <2>2, SameForm DEF BodyIsPosted
    <2> QED BY <2>2, <2>4, <2>5, <2>6, <2>7 DEF FormInv, ControlsTell, SavingIsTrue
  <1>6. CASE UNCHANGED editForm
    <2>1. UNCHANGED <<form, record, controls, body, formStage, elsewhere, wish, found>>
      BY <1>6 DEF editForm
    <2>2. FormTypes' /\ RecordIsHeld' /\ BodyIsPosted'
      BY <1>0, <2>1, SameForm DEF FormTypes, RecordIsHeld, BodyIsPosted
    <2>3. ControlsTell'
      BY <1>0, <2>1, SameForm DEF ControlsTell, ControlTells
    <2>4. SavingIsTrue'
      <3>1. \A f : (LeftAlone(f)' <=> LeftAlone(f)) /\ (TakenOver(f)' <=> TakenOver(f))
        BY <2>1, SameForm, PresentsTheSame DEF LeftAlone, TakenOver
      <3> QED BY <2>1, <3>1, SameForm DEF FormInv, SavingIsTrue, effectiveFieldPolicies,
               ReadOnly
    <2> QED BY <2>2, <2>3, <2>4 DEF FormInv
  <1> QED BY <1>1, <1>2, <1>3, <1>4, <1>5, <1>6 DEF FormNext

-----------------------------------------------------------------------------
(* The days.  DaysBefore is a recursive function: that there is one, that it *)
(* grows and that every day has a month are inductions, in the first-order   *)
(* form of a least counterexample.                                           *)

\* Well-founded induction in its first-order form, WFMin.
Below == OpToRel(<, Nat)

LEMMA BelowIsWellFounded == IsWellFoundedOn(Below, Nat)
  BY NatLessThanWellFounded DEF Below

LEMMA LeastExists ==
  ASSUME NEW S \in SUBSET Nat, S # {}
  PROVE  \E x \in S : \A y \in S : x =< y
  <1>1. \E x \in S : \A y \in S : ~ (<<y, x>> \in Below)
    BY BelowIsWellFounded, WFMin
  <1>2. \A x, y \in Nat : <<x, y>> \in Below <=> x < y
    BY DEF Below, OpToRel
  <1>3. PICK x \in S : \A y \in S : ~ (<<y, x>> \in Below)
    BY <1>1
  <1>4. \A y \in S : x =< y
    <2> SUFFICES ASSUME NEW y \in S, ~(x =< y) PROVE FALSE
      OBVIOUS
    <2>1. x \in Nat /\ y \in Nat /\ y < x
      OBVIOUS
    <2>2. <<y, x>> \in Below
      BY <1>2, <2>1
    <2> QED BY <1>3, <2>2
  <1> QED BY <1>4

End == Len(MonthLengths) + 1
NextMonth(f, m) == IF m = 1 THEN 0 ELSE f[m - 1] + MonthLengths[m - 1]
Counts(f, n) == f = [m \in 1..n |-> NextMonth(f, m)]

LEMMA EndIsNat == Len(MonthLengths) \in Nat /\ End \in Nat /\ End >= 1
  BY CalendarAssumption, LenProperties DEF End

LEMMA CountExists == \A n \in Nat : \E f : Counts(f, n)
  <1> SUFFICES ASSUME NEW m \in Nat, ~\E f : Counts(f, m) PROVE FALSE
    OBVIOUS
  <1> DEFINE Bad == {n \in Nat : ~\E f : Counts(f, n)}
  <1>1. PICK n \in Bad : \A k \in Bad : n <= k
    <2>1. Bad \in SUBSET Nat /\ Bad # {}
      OBVIOUS
    <2> HIDE DEF Bad
    <2> QED BY <2>1, LeastExists
  <1>2. n \in Nat /\ ~\E f : Counts(f, n)
    OBVIOUS
  <1>3. n # 0
    <2> SUFFICES ASSUME n = 0 PROVE FALSE
      OBVIOUS
    <2> DEFINE g == [i \in 1..0 |-> 0]
    <2>1. Counts(g, 0)
      BY DEF Counts
    <2> QED BY <1>2, <2>1
  <1>4. n - 1 \in Nat /\ n - 1 \notin Bad
    BY <1>1, <1>2, <1>3
  <1>5. PICK f : Counts(f, n - 1)
    BY <1>4
  <1> DEFINE g == [i \in 1..n |-> NextMonth(f, i)]
  <1>6. \A i \in 1..n : i # 1 => g[i - 1] = f[i - 1]
    <2> SUFFICES ASSUME NEW i \in 1..n, i # 1 PROVE g[i - 1] = f[i - 1]
      OBVIOUS
    <2>1. i - 1 \in 1..n /\ i - 1 \in 1..(n - 1)
      BY <1>2
    <2>2. f[i - 1] = NextMonth(f, i - 1)
      BY <1>5, <2>1 DEF Counts
    <2> QED BY <2>1, <2>2
  <1>7. g = [i \in 1..n |-> NextMonth(f, i)]
    OBVIOUS
  <1> HIDE DEF g
  <1>8. \A i \in 1..n : NextMonth(g, i) = NextMonth(f, i)
    BY <1>6 DEF NextMonth
  <1>9. Counts(g, n)
    BY <1>7, <1>8 DEF Counts
  <1> QED BY <1>2, <1>9

LEMMA DaysBeforeCounts ==
  /\ DOMAIN DaysBefore = 1..End
  /\ \A m \in 1..End : DaysBefore[m] = NextMonth(DaysBefore, m)
  <1>1. DaysBefore = CHOOSE f : f = [m \in 1..End |-> NextMonth(f, m)]
    BY DEF DaysBefore, NextMonth, End
  <1>2. \E f : f = [m \in 1..End |-> NextMonth(f, m)]
    BY CountExists, EndIsNat DEF Counts
  <1>3. DaysBefore = [m \in 1..End |-> NextMonth(DaysBefore, m)]
    BY <1>1, <1>2
  <1> HIDE DEF DaysBefore
  <1> QED BY <1>3

LEMMA LengthsAre == \A m \in Months : MonthLengths[m] \in Nat /\ MonthLengths[m] > 0
  BY CalendarAssumption, EndIsNat, ElementOfSeq DEF Months

LEMMA MonthsFollow ==
  \A m \in Months :
    m \in 1..End /\ m + 1 \in 1..End /\ DaysBefore[m + 1] = DaysBefore[m] + MonthLengths[m]
  <1> SUFFICES ASSUME NEW m \in Months
      PROVE  /\ m \in 1..End /\ m + 1 \in 1..End
             /\ DaysBefore[m + 1] = DaysBefore[m] + MonthLengths[m]
    OBVIOUS
  <1>1. m \in 1..End /\ m + 1 \in 1..End /\ m + 1 # 1 /\ (m + 1) - 1 = m
    BY EndIsNat DEF Months, End
  <1>2. DaysBefore[m + 1] = NextMonth(DaysBefore, m + 1)
    BY <1>1, DaysBeforeCounts
  <1> QED BY <1>1, <1>2 DEF NextMonth

\* Everything before a month is in the months before it.
Passed(n) ==
  /\ DaysBefore[n] \in Nat
  /\ \A m \in 1..(n - 1) : DaysBefore[m] \in Nat /\ DaysBefore[m] < DaysBefore[n]

LEMMA AllPassed == \A n \in 1..End : Passed(n)
  <1> SUFFICES ASSUME NEW m \in 1..End, ~Passed(m) PROVE FALSE
    OBVIOUS
  <1> DEFINE Bad == {n \in 1..End : ~Passed(n)}
  <1>1. PICK n \in Bad : \A k \in Bad : n <= k
    <2>1. Bad \in SUBSET Nat /\ Bad # {}
      BY EndIsNat
    <2> HIDE DEF Bad
    <2> QED BY <2>1, LeastExists
  <1>2. n \in 1..End /\ ~Passed(n)
    OBVIOUS
  <1>3. n # 1
    <2> SUFFICES ASSUME n = 1 PROVE FALSE
      OBVIOUS
    <2>1. DaysBefore[1] = 0
      BY <1>2, DaysBeforeCounts DEF NextMonth
    <2>2. \A i \in 1..(1 - 1) : FALSE
      OBVIOUS
    <2> QED BY <1>2, <2>1, <2>2 DEF Passed
  <1>4. n - 1 \in 1..End /\ n - 1 \notin Bad /\ n - 1 \in Months /\ (n - 1) + 1 = n
    BY <1>1, <1>2, <1>3, EndIsNat DEF Months, End
  <1>5. Passed(n - 1)
    BY <1>4
  <1>6. DaysBefore[n] = DaysBefore[n - 1] + MonthLengths[n - 1]
    BY <1>4, MonthsFollow
  <1>7. MonthLengths[n - 1] \in Nat /\ MonthLengths[n - 1] > 0
    BY <1>4, LengthsAre
  <1>8. \A i \in 1..(n - 1) : i = n - 1 \/ i \in 1..((n - 1) - 1)
    BY <1>2
  <1> HIDE DEF Bad
  <1> QED BY <1>2, <1>5, <1>6, <1>7, <1>8 DEF Passed

LEMMA DaysGrow ==
  /\ \A m \in 1..End : DaysBefore[m] \in Nat
  /\ \A m, n \in 1..End : m < n => DaysBefore[m] < DaysBefore[n]
  /\ DaysBefore[1] = 0
  <1>1. \A m \in 1..End : DaysBefore[m] \in Nat
    BY AllPassed DEF Passed
  <1>2. ASSUME NEW m \in 1..End, NEW n \in 1..End, m < n PROVE DaysBefore[m] < DaysBefore[n]
    <2>1. m \in 1..(n - 1)
      BY <1>2
    <2> QED BY <2>1, AllPassed DEF Passed
  <1>3. DaysBefore[1] = 0
    BY EndIsNat, DaysBeforeCounts DEF NextMonth
  <1> QED BY <1>1, <1>2, <1>3

LEMMA CalendarIs == Calendar = 1..DaysBefore[End] /\ DaysBefore[End] \in Nat
  BY DaysGrow, EndIsNat DEF Calendar, End

LEMMA MonthIs ==
  \A m \in Months :
    /\ DaysOf[m] = DaysBefore[m] + 1 .. DaysBefore[m] + MonthLengths[m]
    /\ DaysBefore[m] \in Nat /\ MonthLengths[m] \in Nat /\ MonthLengths[m] > 0
    /\ DaysOf[m] \subseteq Calendar
  <1> SUFFICES ASSUME NEW m \in Months
      PROVE  /\ DaysOf[m] = DaysBefore[m] + 1 .. DaysBefore[m] + MonthLengths[m]
             /\ DaysBefore[m] \in Nat /\ MonthLengths[m] \in Nat /\ MonthLengths[m] > 0
             /\ DaysOf[m] \subseteq Calendar
    OBVIOUS
  <1>1. m \in 1..End /\ m + 1 \in 1..End /\ DaysBefore[m + 1] = DaysBefore[m] + MonthLengths[m]
    BY MonthsFollow
  <1>2. DaysOf[m] = DaysBefore[m] + 1 .. DaysBefore[m] + MonthLengths[m]
    BY <1>1 DEF DaysOf
  <1>3. DaysBefore[m] \in Nat /\ DaysBefore[m + 1] \in Nat /\ DaysBefore[m + 1] <= DaysBefore[End]
    <2>1. m + 1 = End \/ m + 1 < End
      BY <1>1, EndIsNat
    <2>2. End \in 1..End
      BY EndIsNat
    <2> QED BY <1>1, <2>1, <2>2, DaysGrow
  <1> QED BY <1>1, <1>2, <1>3, LengthsAre, CalendarIs

LEMMA MonthsAreApart ==
  \A m, n \in Months, d \in Int : d \in DaysOf[m] /\ d \in DaysOf[n] => m = n
  <1> SUFFICES ASSUME NEW m \in Months, NEW n \in Months, NEW d \in Int,
                      d \in DaysOf[m], d \in DaysOf[n], m < n
      PROVE  FALSE
    BY DEF Months
  <1>1. m + 1 \in 1..End /\ n \in 1..End /\ DaysBefore[m + 1] = DaysBefore[m] + MonthLengths[m]
    BY MonthsFollow
  <1>2. m + 1 = n \/ m + 1 < n
    BY DEF Months
  <1>3. DaysBefore[m + 1] <= DaysBefore[n] /\ DaysBefore[m + 1] \in Nat /\ DaysBefore[n] \in Nat
    BY <1>1, <1>2, DaysGrow
  <1>4. /\ DaysOf[m] = DaysBefore[m] + 1 .. DaysBefore[m] + MonthLengths[m]
        /\ DaysOf[n] = DaysBefore[n] + 1 .. DaysBefore[n] + MonthLengths[n]
    BY MonthIs
  <1>5. d \in DaysOf[m] /\ d \in DaysOf[n]
    OBVIOUS
  <1>6. d <= DaysBefore[m + 1] /\ DaysBefore[n] + 1 <= d
    BY <1>1, <1>3, <1>4, <1>5
  <1> QED BY <1>3, <1>6

LEMMA EveryDayHasAMonth == \A d \in Calendar : \E m \in Months : d \in DaysOf[m]
  <1> SUFFICES ASSUME NEW d \in Calendar PROVE \E m \in Months : d \in DaysOf[m]
    OBVIOUS
  <1>1. d \in Int /\ 1 <= d /\ d <= DaysBefore[End]
    BY CalendarIs
  <1> DEFINE Later == {m \in 1..End : d <= DaysBefore[m]}
  <1>2. PICK n \in Later : \A k \in Later : n <= k
    <2>1. Later \in SUBSET Nat /\ End \in Later
      BY <1>1, EndIsNat
    <2> HIDE DEF Later
    <2> QED BY <2>1, LeastExists
  <1>3. n \in 1..End /\ d <= DaysBefore[n]
    OBVIOUS
  <1>4. n # 1
    BY <1>1, <1>3, DaysGrow
  <1>5. n - 1 \in Months /\ n - 1 \in 1..End /\ (n - 1) + 1 = n /\ n - 1 \notin Later
    BY <1>2, <1>3, <1>4, EndIsNat DEF Months, End
  <1>6. ~(d <= DaysBefore[n - 1]) /\ DaysBefore[n - 1] \in Nat
    BY <1>5, DaysGrow
  <1>7. DaysBefore[n] = DaysBefore[n - 1] + MonthLengths[n - 1]
    BY <1>5, MonthsFollow
  <1>8. d \in DaysOf[n - 1]
    BY <1>1, <1>3, <1>5, <1>6, <1>7, MonthIs
  <1> QED BY <1>5, <1>8

LEMMA MonthOfIs ==
  /\ \A d \in Calendar : MonthOf[d] \in Months /\ d \in DaysOf[MonthOf[d]]
  /\ \A m \in Months : \A d \in DaysOf[m] : MonthOf[d] = m
  <1>1. \A d \in Calendar : MonthOf[d] \in Months /\ d \in DaysOf[MonthOf[d]]
    BY EveryDayHasAMonth DEF MonthOf
  <1>2. ASSUME NEW m \in Months, NEW d \in DaysOf[m] PROVE MonthOf[d] = m
    <2>1. d \in Calendar /\ d \in Int
      BY MonthIs, CalendarIs
    <2> QED BY <1>1, <2>1, MonthsAreApart
  <1> QED BY <1>1, <1>2

-----------------------------------------------------------------------------
(* Instants.  The day of one is the number of whole days up to it. *)

LEMMA Division ==
  ASSUME NEW t \in Int, NEW n \in Nat \ {0}
  PROVE  t \div n \in Int /\ (t \div n) * n <= t /\ t < (t \div n) * n + n
  OBVIOUS

LEMMA Products ==
  ASSUME NEW a \in Int, NEW b \in Int, NEW n \in Nat \ {0}
  PROVE  /\ a <= b => a * n <= b * n
         /\ a < b => a * n + n <= b * n
  OBVIOUS

LEMMA DayAtIs ==
  ASSUME NEW t \in Int, NEW z \in Int
  PROVE  /\ DayAt(t, z) \in Int
         /\ \A a \in Int : a <= DayAt(t, z) <=> a * DayTicks <= t + z
         /\ \A a \in Int : DayAt(t, z) <= a <=> t + z < a * DayTicks + DayTicks
  <1>1. DayTicks \in Nat \ {0}
    BY CalendarAssumption
  <1> DEFINE d == DayAt(t, z)
  <1>2. d \in Int /\ d * DayTicks <= t + z /\ t + z < d * DayTicks + DayTicks
    BY <1>1, Division DEF DayAt
  <1> HIDE DEF d
  <1>3. ASSUME NEW a \in Int PROVE a <= d <=> a * DayTicks <= t + z
    <2>1. a * DayTicks \in Int /\ d * DayTicks \in Int
      BY <1>1, <1>2
    <2>2. CASE a <= d
      BY <1>1, <1>2, <2>1, <2>2, Products
    <2>3. CASE d < a
      BY <1>1, <1>2, <2>1, <2>3, Products
    <2> QED BY <1>2, <2>2, <2>3
  <1>4. ASSUME NEW a \in Int PROVE d <= a <=> t + z < a * DayTicks + DayTicks
    <2>1. a * DayTicks \in Int /\ d * DayTicks \in Int
      BY <1>1, <1>2
    <2>2. CASE d <= a
      BY <1>1, <1>2, <2>1, <2>2, Products
    <2>3. CASE a < d
      BY <1>1, <1>2, <2>1, <2>3, Products
    <2> QED BY <1>2, <2>2, <2>3
  <1> QED BY <1>2, <1>3, <1>4 DEF d

LEMMA DayAtGrows ==
  ASSUME NEW t \in Int, NEW z \in Int, NEW u \in Int, NEW y \in Int, t + z <= u + y
  PROVE  DayAt(t, z) <= DayAt(u, y)
  <1>1. DayTicks \in Int
    BY CalendarAssumption
  <1>2. DayAt(t, z) \in Int /\ DayAt(u, y) \in Int
    BY DayAtIs
  <1>3. DayAt(t, z) * DayTicks <= t + z
    BY <1>2, DayAtIs
  <1>4. DayAt(t, z) * DayTicks <= u + y
    <2>1. DayAt(t, z) * DayTicks \in Int
      BY <1>1, <1>2
    <2> QED BY <1>3, <2>1
  <1> QED BY <1>2, <1>4, DayAtIs

ClockTypes ==
  /\ zone \in Zones
  /\ now \in Int /\ FirstDay * DayTicks <= now /\ now <= FirstDay * DayTicks + MaxTicks

\* In any zone it is the day before the first one, or a later day of the calendar.
LEMMA DaysAreReached ==
  ASSUME ClockTypes, NEW z \in Zones \cup {0}
  PROVE  DayAt(now, z) \in Calendar /\ FirstDay - 1 <= DayAt(now, z)
  <1>1. /\ z \in Int /\ -DayTicks <= z /\ z <= DayTicks
        /\ FirstDay \in Int /\ DayTicks \in Nat \ {0} /\ MaxTicks \in Nat
    BY ReachAssumption, CalendarAssumption
  <1>2. /\ now \in Int /\ FirstDay * DayTicks \in Int
        /\ FirstDay * DayTicks <= now /\ now <= FirstDay * DayTicks + MaxTicks
    BY <1>1 DEF ClockTypes
  <1>3. (FirstDay - 1) * DayTicks <= now + z
    <2>1. (FirstDay - 1) * DayTicks = FirstDay * DayTicks - DayTicks
      BY <1>1
    <2> QED BY <1>1, <1>2, <2>1
  <1>4. DayAt(now, z) \in Int /\ FirstDay - 1 <= DayAt(now, z)
    <2>1. now \in Int /\ z \in Int /\ FirstDay - 1 \in Int
      BY <1>1, <1>2
    <2> QED BY <1>3, <2>1, DayAtIs
  <1>5. DayAt(now, z) <= DayAt(FirstDay * DayTicks + MaxTicks, DayTicks)
    <2>1. FirstDay * DayTicks + MaxTicks \in Int
      BY <1>1, <1>2
    <2>2. now + z <= (FirstDay * DayTicks + MaxTicks) + DayTicks
      BY <1>1, <1>2
    <2> QED BY <1>1, <1>2, <2>1, <2>2, DayAtGrows
  <1>6. DayAt(FirstDay * DayTicks + MaxTicks, DayTicks) \in 1..DaysBefore[End]
    BY ReachAssumption, CalendarIs
  <1>7. Week \in Nat /\ Week < FirstDay - 1
    BY ReachAssumption, CalendarAssumption
  <1> QED BY <1>1, <1>4, <1>5, <1>6, <1>7, CalendarIs

\* There is a month before it.
LEMMA MonthBefore ==
  ASSUME NEW d \in Calendar, FirstDay - 1 <= d
  PROVE  MonthOf[d] \in Months /\ d \in DaysOf[MonthOf[d]] /\ MonthOf[d] - 1 \in Months
  <1>1. MonthOf[d] \in Months /\ d \in DaysOf[MonthOf[d]]
    BY MonthOfIs
  <1>2. MonthOf[d] # 1
    <2> SUFFICES ASSUME MonthOf[d] = 1 PROVE FALSE
      OBVIOUS
    <2>1. 1 \in Months /\ DaysOf[1] = DaysBefore[1] + 1 .. DaysBefore[1] + MonthLengths[1]
      BY <1>1, MonthIs
    <2>2. MonthLengths[1] \in Nat /\ MonthLengths[1] < FirstDay - 1 /\ FirstDay \in Int
      BY <2>1, ReachAssumption, LengthsAre
    <2>3. d \in Int /\ d <= MonthLengths[1]
      BY <1>1, <2>1, <2>2, DaysGrow
    <2> QED BY <2>2, <2>3
  <1> QED BY <1>1, <1>2 DEF Months

\* The rows listed between two days are those of the days between.
LEMMA ListedAreBetween ==
  ASSUME NEW a \in Calendar, NEW b \in Calendar, NEW t \in Int
  PROVE  Listed(FromTo(a, b), t) <=> DayAt(t, 0) \in Int /\ a <= DayAt(t, 0) /\ DayAt(t, 0) <= b
  <1>1. a \in Int /\ b \in Int /\ a # NoDay /\ b # NoDay /\ DayTicks \in Nat \ {0}
    BY CalendarIs, CalendarAssumption
  <1>2. FromTo(a, b).from = a /\ FromTo(a, b).to = b
    BY DEF FromTo
  <1>3. /\ DayAt(t, 0) \in Int
        /\ a <= DayAt(t, 0) <=> a * DayTicks <= t + 0
        /\ DayAt(t, 0) <= b <=> t + 0 < b * DayTicks + DayTicks
    <2>1. 0 \in Int /\ a \in Int /\ b \in Int
      BY <1>1
    <2> QED BY <2>1, DayAtIs
  <1>4. a * DayTicks \in Int /\ b * DayTicks \in Int
    BY <1>1
  <1>5. Listed(FromTo(a, b), t) <=> a * DayTicks <= t /\ t <= b * DayTicks + (DayTicks - 1)
    BY <1>1, <1>2 DEF Listed, LowerBound, UpperBound
  <1> QED BY <1>1, <1>3, <1>4, <1>5

\* A preset means the days between its bounds.
Spans(range, days) ==
  \E a, b \in Calendar :
    a <= b /\ range = FromTo(a, b) /\ days = {d \in Calendar : a <= d /\ d <= b}

LEMMA PresetsAreMeant ==
  ASSUME ClockTypes, NEW p \in Presets
  PROVE  Spans(PresetRange(p), Meant(p))
  <1>1. Today \in Calendar /\ FirstDay - 1 <= Today
    BY DaysAreReached DEF Today, ClockTypes
  <1>2. \A d \in Calendar : d \in Int /\ 1 <= d /\ d <= DaysBefore[End]
    BY CalendarIs
  <1>3. /\ Week \in Nat \ {0} /\ Span \in Nat \ {0} /\ FirstDay \in Int
        /\ Week < FirstDay - 1 /\ Span < FirstDay - 1
    BY CalendarAssumption, ReachAssumption
  <1>4. CASE p = "today"
    <2>1. PresetRange(p) = FromTo(Today, Today) /\ Meant(p) = {Today}
      BY <1>4 DEF PresetRange, Meant
    <2>2. {Today} = {d \in Calendar : Today <= d /\ d <= Today}
      BY <1>1, <1>2
    <2> QED BY <1>1, <1>2, <2>1, <2>2 DEF Spans
  <1>5. ASSUME NEW n \in Nat \ {0}, n < FirstDay - 1
        PROVE  Spans(FromTo(Today - (n - 1), Today), {d \in Calendar : d <= Today /\ Today < d + n})
    <2>1. Today - (n - 1) \in Calendar /\ Today - (n - 1) <= Today
      BY <1>1, <1>2, <1>3, <1>5, CalendarIs
    <2>2. {d \in Calendar : d <= Today /\ Today < d + n}
            = {d \in Calendar : Today - (n - 1) <= d /\ d <= Today}
      BY <1>1, <1>2, <1>5
    <2> QED BY <1>1, <2>1, <2>2 DEF Spans
  <1>6. CASE p = "last7d"
    BY <1>3, <1>5, <1>6 DEF PresetRange, Meant
  <1>7. CASE p = "last30d"
    BY <1>3, <1>5, <1>7 DEF PresetRange, Meant
  <1> DEFINE m == MonthOf[Today]
  <1>8. m \in Months /\ Today \in DaysOf[m] /\ m - 1 \in Months
    BY <1>1, MonthBefore
  <1>9. /\ DaysOf[m] = DaysBefore[m] + 1 .. DaysBefore[m] + MonthLengths[m]
        /\ DaysOf[m - 1] = DaysBefore[m - 1] + 1 .. DaysBefore[m - 1] + MonthLengths[m - 1]
        /\ DaysBefore[m - 1] \in Nat /\ DaysBefore[m] = DaysBefore[m - 1] + MonthLengths[m - 1]
        /\ MonthLengths[m - 1] \in Nat /\ MonthLengths[m - 1] > 0
        /\ MonthLengths[m] \in Nat /\ MonthLengths[m] > 0
        /\ DaysOf[m] \subseteq Calendar /\ DaysOf[m - 1] \subseteq Calendar
    <2>1. m - 1 \in Int /\ (m - 1) + 1 = m
      BY <1>8 DEF Months
    <2>2. DaysBefore[(m - 1) + 1] = DaysBefore[m - 1] + MonthLengths[m - 1]
      BY <1>8, MonthsFollow
    <2> QED BY <1>8, <2>1, <2>2, MonthIs
  <1>10. CASE p = "thisMonth"
    <2> DEFINE a == DaysBefore[m] + 1
    <2>1. PresetRange(p) = FromTo(a, Today) /\ Meant(p) = {d \in DaysOf[m] : d <= Today}
      BY <1>10 DEF PresetRange, Meant, FromParts
    <2>2. a \in Calendar /\ a <= Today
      BY <1>8, <1>9
    <2>3. {d \in DaysOf[m] : d <= Today} = {d \in Calendar : a <= d /\ d <= Today}
      BY <1>2, <1>8, <1>9
    <2> QED BY <1>1, <2>1, <2>2, <2>3 DEF Spans
  <1>11. CASE p = "lastMonth"
    <2> DEFINE a == DaysBefore[m - 1] + 1
               b == DaysBefore[m] + 0
    <2>1. PresetRange(p) = FromTo(a, b) /\ Meant(p) = DaysOf[m - 1]
      BY <1>11 DEF PresetRange, Meant, FromParts
    <2>2. a \in Calendar /\ b \in Calendar /\ a <= b
      BY <1>9
    <2>3. DaysOf[m - 1] = {d \in Calendar : a <= d /\ d <= b}
      BY <1>2, <1>9
    <2> QED BY <2>1, <2>2, <2>3 DEF Spans
  <1> QED BY <1>4, <1>6, <1>7, <1>10, <1>11 DEF Presets

\* The rows of a dashboard's range are of days of the calendar, in any zone.
LEMMA BucketsAreThere == ClockTypes => EveryRowHasItsBucket
  <1> SUFFICES ASSUME ClockTypes, NEW p \in DashboardPresets, NEW tz \in Zones,
                      NEW t \in DashboardRange(p).from..DashboardRange(p).to
      PROVE  DayAt(t, tz) \in Buckets(DashboardRange(p), tz)
    BY DEF EveryRowHasItsBucket
  <1> DEFINE range == DashboardRange(p)
             utcToday == DayAt(now, 0)
             m == MonthOf[utcToday]
             low == range.from
             high == range.to
  <1>1. /\ tz \in Int /\ -DayTicks <= tz /\ tz <= DayTicks
        /\ FirstDay \in Int /\ DayTicks \in Nat \ {0} /\ MaxTicks \in Nat
        /\ Week \in Nat \ {0} /\ Span \in Nat \ {0} /\ MonthLengths[1] < FirstDay - 1
        /\ Week < FirstDay - 1 /\ Span < FirstDay - 1
    BY ReachAssumption, CalendarAssumption
  <1>2. /\ now \in Int /\ FirstDay * DayTicks \in Int /\ FirstDay * DayTicks <= now
    BY <1>1 DEF ClockTypes
  <1>3. utcToday \in Calendar /\ utcToday \in Int /\ FirstDay - 1 <= utcToday
    BY DaysAreReached, CalendarIs
  <1>4. utcToday * DayTicks \in Int /\ utcToday * DayTicks <= now
    <2>1. 0 \in Int
      OBVIOUS
    <2>2. utcToday * DayTicks <= now + 0
      BY <1>2, <1>3, <2>1, DayAtIs
    <2> QED BY <1>1, <1>2, <1>3, <2>2
  <1>5. FirstDay <= utcToday
    <2>1. FirstDay * DayTicks <= now + 0 /\ 0 \in Int
      BY <1>2
    <2> QED BY <1>1, <1>2, <2>1, DayAtIs
  <1>6. DayTicks + DayTicks <= low /\ low \in Int /\ high \in Int /\ high <= now
    <2>1. \A n \in Int : 2 <= n => n * DayTicks \in Int /\ DayTicks + DayTicks <= n * DayTicks
      <3> SUFFICES ASSUME NEW n \in Int, 2 <= n
          PROVE  n * DayTicks \in Int /\ DayTicks + DayTicks <= n * DayTicks
        OBVIOUS
      <3>1. 2 * DayTicks <= n * DayTicks
        BY <1>1, Products
      <3> QED BY <1>1, <3>1
    <2>2. CASE p = "today"
      <3>1. range = FromTo(utcToday * DayTicks, now)
        BY <2>2 DEF DashboardRange, LowerBound
      <3> QED BY <1>1, <1>2, <1>3, <1>4, <1>5, <2>1, <3>1 DEF FromTo
    <2>3. CASE p = "yesterday"
      <3>1. range = FromTo((utcToday - 1) * DayTicks, (utcToday - 1) * DayTicks + (DayTicks - 1))
        BY <2>3 DEF DashboardRange, LowerBound, UpperBound
      <3>2. utcToday - 1 \in Int /\ 2 <= utcToday - 1
        BY <1>1, <1>3, <1>5
      <3>3. (utcToday - 1) * DayTicks = utcToday * DayTicks - DayTicks
        BY <1>1, <1>3
      <3> QED BY <1>1, <1>2, <1>4, <2>1, <3>1, <3>2, <3>3 DEF FromTo
    <2>4. ASSUME NEW n \in Nat, n < FirstDay - 1
          PROVE  now - n * DayTicks \in Int /\ DayTicks + DayTicks <= now - n * DayTicks
      <3>1. (FirstDay - n) * DayTicks = FirstDay * DayTicks - n * DayTicks /\ n * DayTicks \in Int
        BY <1>1
      <3>2. FirstDay - n \in Int /\ 2 <= FirstDay - n
        BY <1>1, <2>4
      <3> QED BY <1>1, <1>2, <2>1, <3>1, <3>2
    <2>5. CASE p = "last7d"
      <3>1. range = FromTo(now - Week * DayTicks, now)
        BY <2>5 DEF DashboardRange
      <3> QED BY <1>1, <1>2, <2>4, <3>1 DEF FromTo
    <2>6. CASE p = "last30d"
      <3>1. range = FromTo(now - Span * DayTicks, now)
        BY <2>6 DEF DashboardRange
      <3> QED BY <1>1, <1>2, <2>4, <3>1 DEF FromTo
    <2>7. CASE p = "MTD"
      <3>1. range = FromTo((DaysBefore[m] + 1) * DayTicks, now)
        BY <2>7 DEF DashboardRange, LowerBound, FromParts
      <3>2. m \in Months /\ m - 1 \in Months
        BY <1>3, MonthBefore
      <3>3. DaysBefore[m] \in Nat /\ 1 <= DaysBefore[m]
        <4>1. m \in 1..End /\ 1 \in 1..End /\ 1 < m
          BY <3>2, MonthsFollow, EndIsNat DEF Months
        <4> QED BY <4>1, DaysGrow
      <3> QED BY <1>1, <1>2, <2>1, <3>1, <3>3 DEF FromTo
    <2> QED BY <2>2, <2>3, <2>5, <2>6, <2>7 DEF DashboardPresets
  <1> HIDE DEF low, high, range
  <1>7. t \in Int /\ low <= t /\ t <= high
    BY <1>6 DEF low, high, range
  <1>8. /\ DayAt(low, tz) <= DayAt(t, tz) /\ DayAt(t, tz) <= DayAt(high, tz)
        /\ DayAt(high, tz) <= DayAt(now, tz)
    <2>1. low + tz <= t + tz /\ t + tz <= high + tz /\ high + tz <= now + tz
      BY <1>1, <1>2, <1>6, <1>7
    <2> QED BY <1>1, <1>2, <1>6, <1>7, <2>1, DayAtGrows
  <1>9. /\ DayAt(low, tz) \in Int /\ DayAt(t, tz) \in Int /\ DayAt(high, tz) \in Int
        /\ 1 <= DayAt(low, tz)
    <2>1. /\ 1 * DayTicks <= low + tz
          /\ 1 \in Int /\ tz \in Int /\ low \in Int /\ t \in Int /\ high \in Int
      BY <1>1, <1>6, <1>7
    <2> QED BY <2>1, DayAtIs
  <1>10. DayAt(now, tz) \in Calendar
    BY DaysAreReached
  <1>11. DayAt(t, tz) \in Calendar
    BY <1>8, <1>9, <1>10, CalendarIs
  <1> QED BY <1>8, <1>11 DEF Buckets, Between, low, high, range

-----------------------------------------------------------------------------
(* The popover.  A range that is not a link's spans the days asked for, and   *)
(* the keyboard, which goes a week or a month at a time, pulls the two months *)
(* shown along with it.                                                       *)

DatesTypes ==
  /\ ClockTypes
  /\ value \in Ranges /\ picked \in Ranges
  /\ month \in Months /\ focused \in Calendar
  /\ calendarOpen => month + 1 \in Months

\* The months that are rendered, displayed or not.
DaysCounted == DaysCountedFrom(month)
DayIsCounted == calendarOpen => focused \in DaysCounted \/ adrift # "no"

LEMMA ReachIsCounted == DayIsCounted <=> DayIsInReach
  BY DEF DayIsCounted, DayIsInReach, DaysCounted, DaysCountedFrom, DaysShown, DaysShownFrom

DatesInv == DatesTypes /\ RowsAreOfTheDays /\ DayIsCounted

\* Two months beside each other are the days from the first's beginning to the second's end.
LEMMA ShownAre ==
  ASSUME NEW m \in Months, m + 1 \in Months
  PROVE  /\ DaysCountedFrom(m)
              = DaysBefore[m] + 1 .. DaysBefore[m] + (MonthLengths[m] + MonthLengths[m + 1])
         /\ DaysBefore[m + 1] = DaysBefore[m] + MonthLengths[m]
  <1>1. /\ DaysOf[m] = DaysBefore[m] + 1 .. DaysBefore[m] + MonthLengths[m]
        /\ DaysOf[m + 1] = DaysBefore[m + 1] + 1 .. DaysBefore[m + 1] + MonthLengths[m + 1]
        /\ DaysBefore[m] \in Nat /\ MonthLengths[m] \in Nat /\ MonthLengths[m + 1] \in Nat
    BY MonthIs
  <1>2. DaysBefore[m + 1] = DaysBefore[m] + MonthLengths[m]
    BY MonthsFollow
  <1> QED BY <1>1, <1>2 DEF DaysCountedFrom

\* The window that the keyboard moves: it shows a day it has, or one of the months beside.
LEMMA WindowShows ==
  ASSUME DatesTypes, calendarOpen, NEW next \in Calendar,
         WindowFor(next) \in 1..Len(MonthLengths) - 1,
         \/ next \in DaysCounted
         \/ month - 1 \in Months /\ next \in DaysOf[month - 1]
         \/ month + 2 \in Months /\ next \in DaysOf[month + 2]
  PROVE  next \in DaysCountedFrom(WindowFor(next))
  <1>1. month \in Months /\ month + 1 \in Months /\ month \in Int /\ next \in Int
    BY CalendarIs DEF DatesTypes, Months
  <1>2. /\ DaysCounted = DaysBefore[month] + 1
                         .. DaysBefore[month] + (MonthLengths[month] + MonthLengths[month + 1])
        /\ DaysBefore[month + 1] = DaysBefore[month] + MonthLengths[month]
        /\ DaysBefore[month] \in Nat /\ MonthLengths[month] \in Nat /\ MonthLengths[month + 1] \in Nat
    BY <1>1, ShownAre, MonthIs DEF DaysCounted
  <1>3. DaysBefore[month + 2] = DaysBefore[month] + (MonthLengths[month] + MonthLengths[month + 1])
    <2>1. /\ DaysBefore[(month + 1) + 1] = DaysBefore[month + 1] + MonthLengths[month + 1]
          /\ (month + 1) + 1 = month + 2
      BY <1>1, MonthsFollow
    <2> QED BY <1>2, <2>1
  <1>4. CASE next \in DaysCounted
    <2>1. WindowFor(next) = month
      BY <1>1, <1>2, <1>3, <1>4 DEF WindowFor, FromParts
    <2> QED BY <1>4, <2>1 DEF DaysCounted
  <1>5. CASE month - 1 \in Months /\ next \in DaysOf[month - 1]
    <2>1. /\ DaysOf[month - 1]
                = DaysBefore[month - 1] + 1 .. DaysBefore[month - 1] + MonthLengths[month - 1]
          /\ DaysBefore[month - 1] \in Nat /\ MonthLengths[month - 1] \in Nat
          /\ DaysBefore[(month - 1) + 1] = DaysBefore[month - 1] + MonthLengths[month - 1]
          /\ (month - 1) + 1 = month
      <3>1. DaysBefore[(month - 1) + 1] = DaysBefore[month - 1] + MonthLengths[month - 1]
        BY <1>5, MonthsFollow
      <3>2. (month - 1) + 1 = month
        BY <1>1
      <3> QED BY <1>5, <3>1, <3>2, MonthIs
    <2>2. next < DaysBefore[month] + 1
      BY <1>1, <1>5, <2>1
    <2>3. WindowFor(next) = month - 1
      BY <2>2 DEF WindowFor, FromParts
    <2> QED BY <1>5, <2>3 DEF DaysCountedFrom
  <1>6. CASE month + 2 \in Months /\ next \in DaysOf[month + 2]
    <2>1. /\ DaysOf[month + 2]
                = DaysBefore[month + 2] + 1 .. DaysBefore[month + 2] + MonthLengths[month + 2]
          /\ DaysBefore[month + 2] \in Nat /\ MonthLengths[month + 2] \in Nat
      BY <1>6, MonthIs
    <2>2. next > DaysBefore[month + 2] + 0 /\ ~(next < DaysBefore[month] + 1)
      <3>1. next \in DaysBefore[month + 2] + 1 .. DaysBefore[month + 2] + MonthLengths[month + 2]
        BY <1>6, <2>1
      <3>2. next >= DaysBefore[month + 2] + 1
        BY <1>1, <2>1, <3>1
      <3>3. DaysBefore[month] <= DaysBefore[month + 2]
        BY <1>2, <1>3
      <3> QED BY <1>1, <1>2, <2>1, <3>2, <3>3
    <2>3. WindowFor(next) = month + 1
      BY <2>2 DEF WindowFor, FromParts
    <2>4. (month + 1) + 1 = month + 2
      BY <1>1
    <2> QED BY <1>6, <2>3, <2>4 DEF DaysCountedFrom
  <1> QED BY <1>4, <1>5, <1>6

\* Where the window comes to show a day it did not.
InSight(next) ==
  \/ next \in DaysCounted
  \/ month - 1 \in Months /\ next \in DaysOf[month - 1]
  \/ month + 2 \in Months /\ next \in DaysOf[month + 2]

LEMMA NearIsInSight ==
  ASSUME DatesTypes, calendarOpen, focused \in DaysCounted, NEW next \in Calendar,
         focused - Week <= next, next <= focused + Week
  PROVE  InSight(next)
  <1>1. /\ month \in Months /\ month + 1 \in Months /\ month \in Int
        /\ next \in Int /\ focused \in Int /\ Week \in Nat
    BY CalendarIs, CalendarAssumption DEF DatesTypes, Months
  <1>2. /\ DaysCounted = DaysBefore[month] + 1
                         .. DaysBefore[month] + (MonthLengths[month] + MonthLengths[month + 1])
        /\ DaysBefore[month + 1] = DaysBefore[month] + MonthLengths[month]
        /\ DaysBefore[month] \in Nat /\ MonthLengths[month] \in Nat /\ MonthLengths[month + 1] \in Nat
    BY <1>1, ShownAre, MonthIs DEF DaysCounted
  <1>3. DaysBefore[month + 2] = DaysBefore[month] + (MonthLengths[month] + MonthLengths[month + 1])
    <2>1. /\ DaysBefore[(month + 1) + 1] = DaysBefore[month + 1] + MonthLengths[month + 1]
          /\ (month + 1) + 1 = month + 2
      BY <1>1, MonthsFollow
    <2> QED BY <1>2, <2>1
  <1>4. DaysBefore[month] + 1 <= focused /\ focused <= DaysBefore[month + 2]
    BY <1>1, <1>2, <1>3
  <1>5. 1 <= next /\ next <= DaysBefore[End]
    BY <1>1, CalendarIs
  <1>6. CASE next <= DaysBefore[month]
    <2>1. month # 1
      BY <1>1, <1>5, <1>6, DaysGrow
    <2>2. month - 1 \in Months /\ (month - 1) + 1 = month
      BY <1>1, <2>1 DEF Months
    <2>3. /\ DaysOf[month - 1]
                = DaysBefore[month - 1] + 1 .. DaysBefore[month - 1] + MonthLengths[month - 1]
          /\ DaysBefore[month - 1] \in Nat /\ MonthLengths[month - 1] \in Nat
          /\ DaysBefore[month] = DaysBefore[month - 1] + MonthLengths[month - 1]
          /\ Week <= MonthLengths[month - 1]
      <3>1. DaysBefore[(month - 1) + 1] = DaysBefore[month - 1] + MonthLengths[month - 1]
        BY <2>2, MonthsFollow
      <3> QED BY <2>2, <3>1, MonthIs, ReachAssumption
    <2>4. next \in DaysOf[month - 1]
      BY <1>1, <1>4, <1>6, <2>3
    <2> QED BY <2>2, <2>4 DEF InSight
  <1>7. CASE DaysBefore[month] < next /\ next <= DaysBefore[month + 2]
    BY <1>1, <1>2, <1>3, <1>7 DEF InSight
  <1>8. CASE DaysBefore[month + 2] < next
    <2>1. month + 2 # End
      BY <1>1, <1>2, <1>3, <1>5, <1>8
    <2>2. month + 2 \in Months
      BY <1>1, <2>1, EndIsNat DEF Months, End
    <2>3. /\ DaysOf[month + 2]
                = DaysBefore[month + 2] + 1 .. DaysBefore[month + 2] + MonthLengths[month + 2]
          /\ DaysBefore[month + 2] \in Nat /\ MonthLengths[month + 2] \in Nat
          /\ Week <= MonthLengths[month + 2]
      BY <2>2, MonthIs, ReachAssumption
    <2>4. next \in DaysOf[month + 2]
      BY <1>1, <1>4, <1>8, <2>3
    <2> QED BY <2>2, <2>4 DEF InSight
  <1> QED BY <1>1, <1>2, <1>3, <1>6, <1>7, <1>8

\* PageUp and PageDown to a date that the month beside has.
LEMMA BesideIsInSight ==
  ASSUME DatesTypes, calendarOpen, focused \in DaysCounted, NEW step \in {-1, 1},
         MonthOf[focused] + step \in Months,
         DateOf(focused) <= MonthLengths[MonthOf[focused] + step]
  PROVE  InSight(FromParts(MonthOf[focused] + step, DateOf(focused)))
  <1> DEFINE m == MonthOf[focused]
             b == m + step
             next == FromParts(b, DateOf(focused))
  <1>1. month \in Months /\ month + 1 \in Months /\ month \in Int /\ focused \in Int /\ focused \in Calendar
    BY CalendarIs DEF DatesTypes, Months
  <1>2. m = month \/ m = month + 1
    BY <1>1, MonthOfIs DEF DaysCounted, DaysCountedFrom
  <1>3. m \in Months /\ focused \in DaysOf[m] /\ b \in Months
    BY <1>1, MonthOfIs
  <1>4. /\ DaysOf[m] = DaysBefore[m] + 1 .. DaysBefore[m] + MonthLengths[m]
        /\ DaysOf[b] = DaysBefore[b] + 1 .. DaysBefore[b] + MonthLengths[b]
        /\ DaysBefore[m] \in Nat /\ MonthLengths[m] \in Nat
        /\ DaysBefore[b] \in Nat /\ MonthLengths[b] \in Nat
    BY <1>3, MonthIs
  <1>5. DateOf(focused) = focused - DaysBefore[m] /\ next = DaysBefore[b] + DateOf(focused)
    BY DEF DateOf, FromParts
  <1>6. 1 <= DateOf(focused) /\ DateOf(focused) \in Int /\ DateOf(focused) <= MonthLengths[b]
    BY <1>1, <1>3, <1>4, <1>5
  <1>7. next \in DaysOf[b]
    BY <1>4, <1>5, <1>6
  <1>8. b = month - 1 \/ b = month \/ b = month + 1 \/ b = month + 2
    BY <1>1, <1>2
  <1> HIDE DEF b, next
  <1>9. InSight(next)
    BY <1>3, <1>7, <1>8 DEF InSight, DaysCounted, DaysCountedFrom
  <1> QED BY <1>9 DEF next, b

LEMMA RowsStay ==
  RowsAreOfTheDays /\ value' = value /\ asked' = asked => RowsAreOfTheDays'
  BY DEF RowsAreOfTheDays

LEMMA MoveKeeps ==
  ASSUME DatesInv, NEW next, NEW how, Move(next, how),
         how = "no" /\ focused \in DaysCounted => InSight(next)
  PROVE  DatesInv'
  <1> DEFINE w == WindowFor(next)
  <1>1. /\ calendarOpen /\ next \in Calendar /\ w \in 1..Len(MonthLengths) - 1
        /\ focused' = next /\ month' = w
        /\ calendarOpen' = calendarOpen /\ value' = value /\ picked' = picked /\ asked' = asked
        /\ zone' = zone /\ now' = now
        /\ adrift' = IF next \in DaysCountedFrom(w) THEN "no"
                     ELSE IF adrift = "no" THEN how ELSE adrift
    BY DEF Move
  <1>2. w \in Months /\ w + 1 \in Months
    BY <1>1, EndIsNat DEF Months
  <1>3. DatesTypes'
    BY <1>1, <1>2 DEF DatesInv, DatesTypes, ClockTypes
  <1>4. RowsAreOfTheDays'
    BY <1>1, RowsStay DEF DatesInv
  <1>5. InSight(next) => next \in DaysCountedFrom(w)
    BY <1>1, WindowShows DEF DatesInv, InSight
  <1>6. focused \in DaysCounted \/ adrift # "no"
    BY <1>1 DEF DatesInv, DayIsCounted
  <1> HIDE DEF w
  <1>7. next \in DaysCountedFrom(w) \/ adrift' # "no"
    BY <1>1, <1>5, <1>6
  <1>8. DayIsCounted'
    BY <1>1, <1>7 DEF DayIsCounted, DaysCounted
  <1> QED BY <1>3, <1>4, <1>8 DEF DatesInv

LEMMA CommitKeeps ==
  ASSUME DatesInv, NEW range, NEW days, CommitRange(range, days),
         Spans(range, days) \/ (range = NoRange /\ days = {})
  PROVE  DatesInv'
  <1>1. /\ picked' = range /\ value' = range /\ calendarOpen' = FALSE /\ asked' = days
        /\ zone' = zone /\ now' = now /\ month' = month /\ focused' = focused /\ adrift' = adrift
    BY DEF CommitRange
  <1>2. range \in Ranges
    BY DEF Spans, FromTo, NoRange, Ranges
  <1>3. DatesTypes'
    BY <1>1, <1>2 DEF DatesInv, DatesTypes, ClockTypes
  <1>4. DayIsCounted'
    BY <1>1 DEF DayIsCounted
  <1>5. ASSUME NEW t \in Int
        PROVE  Listed(range, t) <=> days = {} \/ DayAt(t, 0) \in days
    <2>1. CASE Spans(range, days)
      <3>1. PICK a \in Calendar, b \in Calendar :
              a <= b /\ range = FromTo(a, b) /\ days = {d \in Calendar : a <= d /\ d <= b}
        BY <2>1 DEF Spans
      <3>2. a \in days
        BY <3>1, CalendarIs
      <3>3. Listed(range, t) <=> DayAt(t, 0) \in Int /\ a <= DayAt(t, 0) /\ DayAt(t, 0) <= b
        BY <3>1, ListedAreBetween
      <3>4. DayAt(t, 0) \in Int /\ a <= DayAt(t, 0) /\ DayAt(t, 0) <= b => DayAt(t, 0) \in Calendar
        BY CalendarIs
      <3>5. DayAt(t, 0) \in Int
        <4>1. 0 \in Int
          OBVIOUS
        <4> QED BY <4>1, DayAtIs
      <3> QED BY <3>1, <3>2, <3>3, <3>4, <3>5
    <2>2. CASE range = NoRange /\ days = {}
      BY <2>2 DEF NoRange, Listed
    <2> QED BY <2>1, <2>2
  <1>6. RowsAreOfTheDays'
    <2>1. \A t \in 0..(LowerBound(DaysBefore[End]) + DayTicks) : t \in Int
      OBVIOUS
    <2> QED BY <1>1, <1>5, <2>1 DEF RowsAreOfTheDays, End
  <1> QED BY <1>3, <1>4, <1>6 DEF DatesInv

LEMMA InitDates == DatesInit => DatesInv
  <1> SUFFICES ASSUME DatesInit PROVE DatesInv
    OBVIOUS
  <1>1. ClockTypes
    <2>1. FirstDay * DayTicks \in Int /\ MaxTicks \in Nat
      BY ReachAssumption, CalendarAssumption
    <2> QED BY <2>1 DEF DatesInit, ClockTypes
  <1>2. Today \in Calendar
    BY <1>1, DaysAreReached DEF Today, ClockTypes
  <1>3. DatesTypes
    BY <1>1, <1>2, MonthOfIs DEF DatesInit, DatesTypes, NoRange, Ranges
  <1>4. RowsAreOfTheDays
    BY DEF DatesInit, RowsAreOfTheDays, NoRange, Listed
  <1> QED BY <1>3, <1>4 DEF DatesInit, DatesInv, DayIsCounted

LEMMA OpenKeeps == DatesInv /\ OpenCalendar => DatesInv'
  <1> SUFFICES ASSUME DatesInv, OpenCalendar PROVE DatesInv'
    OBVIOUS
  <1>1. Anchor \in Calendar
    <2>1. Today \in Calendar
      BY DaysAreReached DEF Today, DatesInv, DatesTypes, ClockTypes
    <2>2. value.from \in Calendar \cup {NoDay}
      BY DEF DatesInv, DatesTypes, Ranges
    <2> QED BY <2>1, <2>2 DEF Anchor
  <1>2. /\ MonthOf[Anchor] \in Months /\ MonthOf[Anchor] + 1 \in Months
        /\ Anchor \in DaysOf[MonthOf[Anchor]]
    BY <1>1, MonthOfIs, EndIsNat DEF OpenCalendar, Months
  <1>3. /\ picked' = value /\ month' = MonthOf[Anchor] /\ focused' = Anchor
        /\ zone' = zone /\ now' = now /\ value' = value /\ asked' = asked
    BY DEF OpenCalendar
  <1> HIDE DEF Anchor
  <1>4. DatesTypes'
    BY <1>1, <1>2, <1>3 DEF DatesInv, DatesTypes, ClockTypes
  <1>5. DayIsCounted'
    BY <1>2, <1>3 DEF DayIsCounted, DaysCounted, DaysCountedFrom
  <1> QED BY <1>3, <1>4, <1>5, RowsStay DEF DatesInv

LEMMA PickFirstKeeps == \A d \in Calendar : DatesInv /\ PickFirst(d) => DatesInv'
  <1> SUFFICES ASSUME NEW d \in Calendar, DatesInv, PickFirst(d) PROVE DatesInv'
    OBVIOUS
  <1>1. /\ picked' = FromTo(d, NoDay) /\ zone' = zone /\ now' = now /\ value' = value
        /\ calendarOpen' = calendarOpen /\ month' = month /\ focused' = focused
        /\ asked' = asked /\ adrift' = adrift
    BY DEF PickFirst
  <1>2. FromTo(d, NoDay) \in Ranges
    BY DEF FromTo, Ranges
  <1>3. DatesTypes'
    BY <1>1, <1>2 DEF DatesInv, DatesTypes, ClockTypes
  <1>4. DayIsCounted'
    BY <1>1 DEF DatesInv, DayIsCounted, DaysCounted
  <1> QED BY <1>1, <1>3, <1>4, RowsStay DEF DatesInv

\* Whichever was picked first, the range is from the earlier day to the later.
LEMMA PickSecondKeeps == \A d \in Calendar : DatesInv /\ PickSecond(d) => DatesInv'
  <1> SUFFICES ASSUME NEW d \in Calendar, DatesInv, PickSecond(d) PROVE DatesInv'
    OBVIOUS
  <1> DEFINE f == picked.from
             days == Between(f, d) \cup Between(d, f)
  <1>1. CommitRange(Ordered(f, d), days) /\ f # NoDay
    BY DEF PickSecond
  <1>2. f \in Calendar
    BY <1>1 DEF DatesInv, DatesTypes, Ranges
  <1>3. \A n \in Calendar : n \in Int
    BY CalendarIs
  <1> HIDE DEF f
  <1>4. CASE d < f
    <2>1. Ordered(f, d) = FromTo(d, f)
      BY <1>4 DEF Ordered
    <2>2. days = {n \in Calendar : d <= n /\ n <= f}
      BY <1>2, <1>3, <1>4 DEF Between
    <2>3. d <= f
      BY <1>2, <1>3, <1>4
    <2> QED BY <1>1, <1>2, <2>1, <2>2, <2>3, CommitKeeps DEF Spans
  <1>5. CASE ~(d < f)
    <2>1. Ordered(f, d) = FromTo(f, d)
      BY <1>5 DEF Ordered
    <2>2. days = {n \in Calendar : f <= n /\ n <= d}
      BY <1>2, <1>3, <1>5 DEF Between
    <2>3. f <= d
      BY <1>2, <1>3, <1>5
    <2> QED BY <1>1, <1>2, <2>1, <2>2, <2>3, CommitKeeps DEF Spans
  <1> QED BY <1>4, <1>5

LEMMA PageKeeps == \A step \in {-1, 1} : DatesInv /\ PageMonths(step) => DatesInv'
  <1> SUFFICES ASSUME NEW step \in {-1, 1}, DatesInv, PageMonths(step) PROVE DatesInv'
    OBVIOUS
  <1> DEFINE m == month + step
  <1>1. m \in Months /\ m + 1 \in Months
    BY EndIsNat DEF PageMonths, DatesInv, DatesTypes, Months
  <1>2. /\ month' = m /\ zone' = zone /\ now' = now /\ value' = value /\ picked' = picked
        /\ calendarOpen' = calendarOpen /\ focused' = focused /\ asked' = asked
        /\ adrift' = IF focused \in DaysCountedFrom(m) THEN "no" ELSE "paged"
    BY DEF PageMonths
  <1> HIDE DEF m
  <1>3. DatesTypes'
    BY <1>1, <1>2 DEF DatesInv, DatesTypes, ClockTypes
  <1>4. DayIsCounted'
    BY <1>2 DEF DayIsCounted, DaysCounted
  <1> QED BY <1>2, <1>3, <1>4, RowsStay DEF DatesInv

\* The arrows, Home and End: no further than a week.
LEMMA NearKeeps ==
  ASSUME DatesInv, NEW next, Move(next, "no"), focused - Week <= next, next <= focused + Week
  PROVE  DatesInv'
  <1>1. next \in Calendar /\ calendarOpen
    BY DEF Move
  <1>2. focused \in DaysCounted => InSight(next)
    BY <1>1, NearIsInSight DEF DatesInv
  <1> QED BY <1>2, MoveKeeps

LEMMA KeysKeep ==
  ASSUME DatesInv
  PROVE  /\ \A step \in {-1, 1, -Week, Week} : Arrow(step) => DatesInv'
         /\ HomeKey => DatesInv'
         /\ EndKey => DatesInv'
         /\ \A step \in {-1, 1} : PageKey(step) => DatesInv'
  <1>1. Week \in Nat \ {0} /\ focused \in Calendar /\ focused \in Int
    BY CalendarAssumption, CalendarIs DEF DatesInv, DatesTypes
  <1>2. ASSUME NEW step \in {-1, 1, -Week, Week}, Arrow(step) PROVE DatesInv'
    <2>1. focused - Week <= focused + step /\ focused + step <= focused + Week
      BY <1>1
    <2> QED BY <1>2, <2>1, NearKeeps DEF Arrow
  <1>3. Weekday(focused) \in Int /\ 0 <= Weekday(focused) /\ Weekday(focused) < Week
    BY <1>1 DEF Weekday
  <1>4. ASSUME HomeKey PROVE DatesInv'
    <2>1. focused - Week <= focused - Weekday(focused) /\ focused - Weekday(focused) <= focused + Week
      BY <1>1, <1>3
    <2> QED BY <1>4, <2>1, NearKeeps DEF HomeKey
  <1>5. ASSUME EndKey PROVE DatesInv'
    <2>1. /\ focused - Week <= focused + (Week - 1) - Weekday(focused)
          /\ focused + (Week - 1) - Weekday(focused) <= focused + Week
      BY <1>1, <1>3
    <2> QED BY <1>5, <2>1, NearKeeps DEF EndKey
  <1>6. ASSUME NEW step \in {-1, 1}, PageKey(step) PROVE DatesInv'
    <2> DEFINE b == MonthOf[focused] + step
               how == IF DateOf(focused) > MonthLengths[b] THEN "leapt" ELSE "no"
    <2>1. b \in Months /\ Move(FromParts(b, DateOf(focused)), how)
      BY <1>6 DEF PageKey
    <2>2. DateOf(focused) \in Int /\ MonthLengths[b] \in Int
      <3>1. MonthOf[focused] \in Months
        BY <1>1, MonthOfIs
      <3> QED BY <1>1, <2>1, <3>1, MonthIs DEF DateOf
    <2>3. how = "no" => DateOf(focused) <= MonthLengths[b]
      BY <2>2
    <2>4. calendarOpen
      BY <2>1 DEF Move
    <2> HIDE DEF how
    <2>5. how = "no" /\ focused \in DaysCounted => InSight(FromParts(b, DateOf(focused)))
      BY <2>1, <2>3, <2>4, BesideIsInSight DEF DatesInv
    <2> HIDE DEF b
    <2> QED BY <2>1, <2>5, MoveKeeps
  <1> QED BY <1>2, <1>4, <1>5, <1>6

LEMMA StepDates == DatesInv /\ [DatesNext]_dates => DatesInv'
  <1> SUFFICES ASSUME DatesInv, [DatesNext]_dates PROVE DatesInv'
    OBVIOUS
  <1>1. CASE OpenCalendar
    BY <1>1, OpenKeeps
  <1>2. CASE DismissCalendar
    <2>1. RowsAreOfTheDays'
      BY <1>2, RowsStay DEF DismissCalendar, DatesInv
    <2> QED BY <1>2, <2>1 DEF DismissCalendar, DatesInv, DatesTypes, ClockTypes, DayIsCounted
  <1>3. CASE ClearRange \/ ClearRangeInside
    BY <1>3, CommitKeeps DEF ClearRange, ClearRangeInside
  <1>4. ASSUME NEW d \in Calendar, PickFirst(d) \/ PickSecond(d) PROVE DatesInv'
    BY <1>4, PickFirstKeeps, PickSecondKeeps
  <1>5. ASSUME NEW p \in Presets, PickPreset(p) PROVE DatesInv'
    <2>1. Spans(PresetRange(p), Meant(p))
      BY PresetsAreMeant DEF DatesInv, DatesTypes
    <2> QED BY <1>5, <2>1, CommitKeeps DEF PickPreset
  <1>6. ASSUME NEW step \in {-1, 1}, PageMonths(step) \/ PageKey(step) PROVE DatesInv'
    BY <1>6, PageKeeps, KeysKeep
  <1>7. ASSUME NEW step \in {-1, 1, -Week, Week}, Arrow(step) PROVE DatesInv'
    BY <1>7, KeysKeep
  <1>8. CASE HomeKey \/ EndKey
    BY <1>8, KeysKeep
  <1>9. CASE TabIn \/ UNCHANGED dates
    <2>1. /\ zone' = zone /\ now' = now /\ value' = value /\ picked' = picked /\ month' = month
          /\ calendarOpen' = calendarOpen /\ focused' = focused /\ asked' = asked /\ adrift' = adrift
      BY <1>9 DEF TabIn, dates
    <2>2. DatesTypes' /\ DayIsCounted'
      BY <2>1 DEF DatesInv, DatesTypes, ClockTypes, DayIsCounted, DaysCounted
    <2> QED BY <2>1, <2>2, RowsStay DEF DatesInv
  <1>10. ASSUME NEW link \in Links, Arrive(link) PROVE DatesInv'
    <2>1. /\ value' = link /\ asked' = NoDay /\ link \in Ranges
          /\ zone' = zone /\ now' = now /\ picked' = picked /\ month' = month
          /\ calendarOpen' = calendarOpen /\ focused' = focused /\ adrift' = adrift
      BY <1>10, ReachAssumption DEF Arrive
    <2>2. DatesTypes' /\ DayIsCounted' /\ RowsAreOfTheDays'
      BY <2>1 DEF DatesInv, DatesTypes, ClockTypes, DayIsCounted, DaysCounted, RowsAreOfTheDays
    <2> QED BY <2>2 DEF DatesInv
  <1>11. CASE ResizeCalendar
    <2>1. /\ zone' = zone /\ now' = now /\ value' = value /\ picked' = picked /\ month' = month
          /\ calendarOpen' = calendarOpen /\ focused' = focused /\ asked' = asked /\ adrift' = adrift
      BY <1>11 DEF ResizeCalendar
    <2>2. DatesTypes' /\ DayIsCounted'
      BY <2>1 DEF DatesInv, DatesTypes, ClockTypes, DayIsCounted, DaysCounted
    <2> QED BY <2>1, <2>2, RowsStay DEF DatesInv
  <1>12. CASE Pass
    <2>1. /\ zone' = zone /\ value' = value /\ picked' = picked /\ month' = month
          /\ calendarOpen' = calendarOpen /\ focused' = focused /\ asked' = asked /\ adrift' = adrift
      BY <1>12 DEF Pass
    <2>2. ClockTypes'
      <3>1. FirstDay * DayTicks \in Int /\ MaxTicks \in Nat
        BY ReachAssumption, CalendarAssumption
      <3> QED BY <1>12, <2>1, <3>1 DEF Pass, DatesInv, DatesTypes, ClockTypes
    <2>3. DatesTypes' /\ DayIsCounted'
      BY <2>1, <2>2 DEF DatesInv, DatesTypes, DayIsCounted, DaysCounted
    <2> QED BY <2>1, <2>3, RowsStay DEF DatesInv
  <1> QED BY <1>1, <1>2, <1>3, <1>4, <1>5, <1>6, <1>7, <1>8, <1>9, <1>10, <1>11, <1>12 DEF DatesNext

LEMMA DatesTell == DatesInv => RangesAreTold
  BY BucketsAreThere, ReachIsCounted DEF DatesInv, DatesTypes, RangesAreTold

-----------------------------------------------------------------------------
(* The page *)

PageInv ==
  /\ PoolInv /\ DrawerInv /\ CellInv /\ ListInv /\ TableInv /\ PickerInv /\ MenuInv
  /\ FormInv /\ DatesInv

\* Whichever piece moves, the others rest.
THEOREM PageInvariance == PageSpec => []PageInv
  <1>1. PageInit => PageInv
    BY InitPoolInv, InitDrawer, InitCell, InitList, InitTable, InitPicker,
       InitMenu, InitForm, InitDates
    DEF PageInit, PageInv
  <1>2. [PageNext]_page =>
          [Next]_vars /\ [DrawerNext]_drawer /\ [CellNext]_cell /\ [ListNext]_list
            /\ [TableNext]_table /\ [PickerNext]_picker /\ [MenuNext]_menu
            /\ [FormNext]_editForm /\ [DatesNext]_dates
    BY DEF PageNext, page
  <1>3. PageInv /\ [PageNext]_page => PageInv'
    BY <1>2, StepPoolInv, StepDrawer, StepCell, StepList, StepTable, StepPicker,
       StepMenu, StepForm, StepDates
    DEF PageInv
  <1> QED
    BY <1>1, <1>3, PTL DEF PageSpec

\* However answers are late, superseded or aborted, a drawer at rest without an
\* error shows the record of the URL, no staler than the operator's own actions.
THEOREM DrawerIsTrue == PageSpec => []SettledShowsTheRecord
  <1>1. PageInv => SettledShowsTheRecord
    BY NoRecordAssumption
    DEF PageInv, DrawerInv, DrawerTypes, FetchIsWanted, ShownOrExcused,
        SettledShowsTheRecord, Settled
  <1> QED BY <1>1, PageInvariance, PTL

\* A cell that is opened and left sends nothing that nobody typed, unless a refresh
\* moved its value meanwhile.
THEOREM CellIsQuiet == PageSpec => []UntypedWritesNothing
  <1>1. PageInv => UntypedWritesNothing
    BY DEF PageInv, CellInv, UntypedWritesNothing
  <1> QED BY <1>1, PageInvariance, PTL

\* The box and the list part only where a search was superseded on its way.
THEOREM BoxIsTrue == PageSpec => []BoxTellsTheSearch
  <1>1. PageInv => BoxTellsTheSearch
    BY DEF PageInv, ListInv, BoxTellsTheSearch
  <1> QED BY <1>1, PageInvariance, PTL

\* No option of an earlier text can be picked.
THEOREM PickerIsTrue == PageSpec => []ListAnswersTheQuery
  <1>1. PageInv => ListAnswersTheQuery
    BY DEF PageInv, PickerInv
  <1> QED BY <1>1, PageInvariance, PTL

\* However often its rows were refreshed, the cursor is on the row it was put on,
\* unless both ends of the page stayed and rows between them moved.
THEOREM CursorIsTrue == PageSpec => []CursorKeepsItsRow
  <1>1. PageInv => CursorKeepsItsRow
    BY DEF PageInv, TableInv
  <1> QED BY <1>1, PageInvariance, PTL

\* Whoever runs an action learns how it ended, presses it once while it runs, and
\* loses no form to another's answer, with the exceptions the parts name.
THEOREM ActionsAreHeard == PageSpec => ActionsAreTold
  <1>1. PageInv /\ [PageNext]_page => [OutcomeIsDelivered /\ PressedOnce /\ TypedIsKept]_menu
    <2>1. [PageNext]_page => [MenuNext]_menu
      BY DEF PageNext, page
    <2>2. MenuInv /\ [MenuNext]_menu => [OutcomeIsDelivered /\ PressedOnce /\ TypedIsKept]_menu
      BY MenuTells
    <2> QED BY <2>1, <2>2 DEF PageInv
  <1> QED BY <1>1, PageInvariance, PTL DEF PageSpec, ActionsAreTold

\* A saved form wrote what the operator saw and entered, for any fields, columns,
\* controls, guards and contents, up to the exceptions the property names.
THEOREM FormIsTrue == PageSpec => []SavingIsTrue
  <1>1. PageInv => SavingIsTrue
    BY DEF PageInv, FormInv
  <1> QED BY <1>1, PageInvariance, PTL

\* The list has the rows of the days picked, the days can be reached with Tab but
\* where the parts name it, and a chart has a place for every row of its range: for
\* any calendar, week, zones and time of day.
THEOREM RangesAreTrue == PageSpec => []RangesAreTold
  <1>1. PageInv => RangesAreTold
    BY DatesTell DEF PageInv
  <1> QED BY <1>1, PageInvariance, PTL
=============================================================================
