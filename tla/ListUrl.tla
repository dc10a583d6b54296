-------------------------------- MODULE ListUrl --------------------------------
(***************************************************************************)
(* The list's state lives in the URL: useAdminTable builds every next URL  *)
(* from the committed one, and the search box keeps a draft it applies     *)
(* after a debounce.  The router runs one navigation at a time: a newer    *)
(* one discards the one that is pending.                                   *)
(*                                                                         *)
(* Timers have no durations; effects that follow a change of state are     *)
(* part of the step.  perPage and sort are parameters like a filter.       *)
(***************************************************************************)
EXTENDS Integers

CONSTANTS
  Texts,       \* what is searched for, the empty search included
  NoText,      \* the empty search
  Filters,     \* settings of the filters, none included
  MaxPage      \* bound: pages of the list

ASSUME NoTextAssumption == NoText \in Texts
ASSUME MaxPageAssumption == MaxPage \in Nat \ {0}

VARIABLES
  url,          \* the committed search parameters
  navigation,   \* the pending ones, at most one
  box,          \* draft: the text in the search box
  lastApplied,  \* the last search sent to the URL, or adopted from it
  armed,        \* the debounce timer is pending
  discarded     \* history: a search on its way to the URL was superseded

list == <<url, navigation, box, lastApplied, armed, discarded>>

Url == [q : Texts, filter : Filters, page : 1..MaxPage]

ListTypeOK ==
  /\ url \in Url
  /\ navigation \subseteq Url
  /\ box \in Texts /\ lastApplied \in Texts
  /\ armed \in BOOLEAN /\ discarded \in BOOLEAN

ListInit ==
  /\ url \in Url
  /\ navigation = {}
  /\ box = url.q /\ lastApplied = url.q
  /\ armed = FALSE /\ discarded = FALSE

-----------------------------------------------------------------------------
Searching == \E n \in navigation : n.q = lastApplied /\ n.q # url.q

\* Any write of the URL: the pending navigation, if any, is discarded.
Navigate(target) == navigation' = {target}

\* A write that does not come from the search box.
Overtake(target) ==
  /\ Navigate(target)
  /\ discarded' = (discarded \/ (Searching /\ target.q # lastApplied))
  /\ UNCHANGED <<url, box, lastApplied, armed>>

\* setFilter, setSort, clearFilters, setPageSize: from the committed parameters;
\* setSort and clearFilters keep the page.
SetFilter(f) ==
  \E p \in {1, url.page} : Overtake([url EXCEPT !.filter = f, !.page = p])

SetPage(p) == Overtake([url EXCEPT !.page = p])

\* A saved view, Back or Forward: any URL of this list.
Visit(target) == Overtake(target)

\* Typing, or the Clear button.
TypeSearch(text) ==
  /\ box' = text
  /\ armed' = (text # lastApplied)
  /\ UNCHANGED <<url, navigation, lastApplied, discarded>>

Debounce ==
  /\ armed
  /\ armed' = FALSE
  /\ lastApplied' = box
  /\ discarded' = FALSE
  /\ Navigate([url EXCEPT !.q = box, !.page = 1])
  /\ UNCHANGED <<url, box>>

\* Faulty: the URL is read when the box is mounted only.
AdoptsNever(q) == FALSE

\* The first effect: a search that came from elsewhere is adopted.
Adopts(q) == q # url.q /\ q # lastApplied

\* The pending navigation is committed and the page renders its URL.
Commit ==
  \E n \in navigation :
    /\ url' = n
    /\ navigation' = {}
    /\ box' = IF Adopts(n.q) THEN n.q ELSE box
    /\ lastApplied' = IF Adopts(n.q) THEN n.q ELSE lastApplied
    /\ armed' = (box' # lastApplied')
    /\ UNCHANGED discarded

ListNext ==
  \/ \E text \in Texts : TypeSearch(text)
  \/ \E f \in Filters : SetFilter(f)
  \/ \E p \in 1..MaxPage : SetPage(p)
  \/ \E target \in Url : Visit(target)
  \/ Debounce \/ Commit

ListSpec == ListInit /\ [][ListNext]_list

-----------------------------------------------------------------------------
\* When nothing is pending the list is searched for what the box says, unless a
\* filter, a page or a link overtook the search: then the box keeps a text the
\* list was never asked for.
BoxTellsTheSearch ==
  ~armed /\ navigation = {} /\ ~discarded => box = url.q
=============================================================================
