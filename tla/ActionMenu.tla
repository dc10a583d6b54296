------------------------------ MODULE ActionMenu -------------------------------
(***************************************************************************)
(* The buttons that run actions: of a row, of a dashboard, of a selection, *)
(* and those with a state of their own (in the drawer's footer, Restore).  *)
(* An action is run at once, after a confirmation, or with the values of a *)
(* form; a dialog covers the page, and the operator may dismiss it while   *)
(* its action is under way.  Several buttons share one `pending`.          *)
(***************************************************************************)
EXTENDS Integers

CONSTANTS
  Actions,
  NoAction,
  MaxRuns    \* bound: actions under way

ASSUME NoActionAssumption == NoAction \notin Actions
ASSUME MaxRunsAssumption == MaxRuns \in Nat

VARIABLES
  kind,      \* whose buttons these are
  actions,   \* where each action is placed, and what is asked before it runs
  pending,   \* the actions taken for running
  dialog,    \* the dialog shown: its action, its run if one was sent, its errors
  sent,      \* the runs under way
  told       \* the run that the newest toast, download or page tells of, 0 for none

menu == <<kind, actions, pending, dialog, sent, told>>

Kinds == {"row", "dashboard", "bulk", "own"}
Asked == {"nothing", "confirm", "form"}
Ids == 1..MaxRuns

NoDialog == [asks |-> "nothing", action |-> NoAction, run |-> 0, errors |-> "none"]
Dialogs == [asks : Asked, action : Actions \cup {NoAction}, run : 0..MaxRuns,
            errors : {"none", "shown", "hidden"}]

\* What the server answers: "quiet" is done without a message and without a refresh;
\* "issues" name a field of the form, "foreign" ones a key that it does not show,
\* which an inputSchema may have.
Outcomes == {"done", "quiet", "failed", "issues", "foreign"}
WithIssues(r) == r.outcome \in {"issues", "foreign"}

\* A run: whether it was sent from a form, whether another ran beside it, whether
\* its button was mounted anew, and how it will end.
Sent == [id : Ids, action : Actions, form : BOOLEAN, beside : BOOLEAN,
         remounted : BOOLEAN, outcome : Outcomes]

MenuTypeOK ==
  /\ kind \in Kinds
  /\ actions \in [Actions -> [inline : BOOLEAN, asks : Asked]]
  /\ pending \subseteq Actions /\ dialog \in Dialogs
  /\ sent \subseteq Sent /\ told \in 0..MaxRuns

\* A selection's actions are in a menu, a row's may be.
MenuInit ==
  /\ kind \in Kinds
  /\ actions \in [Actions -> [inline : BOOLEAN, asks : Asked]]
  /\ \A a \in Actions : /\ kind = "bulk" => ~actions[a].inline
                        /\ kind \in {"dashboard", "own"} => actions[a].inline
  /\ pending = {} /\ dialog = NoDialog /\ sent = {} /\ told = 0

-----------------------------------------------------------------------------
(* The buttons *)

Shared == kind # "own"

\* Faulty: the menu opens unless one of its own actions is running.
EnabledByKey(a) == a \notin pending

\* A button waits for its own action; the menu for any.
Enabled(a) == IF actions[a].inline THEN a \notin pending ELSE pending = {}

Begin(a, fromForm, id) ==
  /\ pending' = IF Shared THEN {a} ELSE pending \cup {a}
  /\ \E outcome \in Outcomes :
       sent' = {[r EXCEPT !.beside = TRUE] : r \in sent} \cup
                 {[id |-> id, action |-> a, form |-> fromForm, beside |-> sent # {},
                   remounted |-> FALSE, outcome |-> outcome]}
  /\ told' = 0

FreeIds == Ids \ {r.id : r \in sent}

Click(a) ==
  /\ dialog = NoDialog /\ Enabled(a)
  /\ IF actions[a].asks = "nothing"
     THEN /\ \E id \in FreeIds : Begin(a, FALSE, id)
          /\ UNCHANGED dialog
     ELSE /\ dialog' = [NoDialog EXCEPT !.asks = actions[a].asks, !.action = a]
          /\ UNCHANGED <<pending, sent, told>>
  /\ UNCHANGED <<kind, actions>>

Confirm ==
  /\ dialog.asks = "confirm"
  /\ \E id \in FreeIds : Begin(dialog.action, FALSE, id)
  /\ dialog' = NoDialog
  /\ UNCHANGED <<kind, actions>>

Submit ==
  /\ dialog.asks = "form" /\ dialog.run = 0
  /\ \E id \in FreeIds :
       Begin(dialog.action, TRUE, id) /\ dialog' = [dialog EXCEPT !.run = id]
  /\ UNCHANGED <<kind, actions>>

\* Escape or a press beside the dialog; Cancel waits for the answer, they do not.
Dismiss ==
  /\ dialog # NoDialog
  /\ dialog' = NoDialog
  /\ UNCHANGED <<kind, actions, pending, sent, told>>

\* The buttons' row, or the drawer, goes and comes back.
RemountMenu ==
  /\ dialog' = NoDialog /\ pending' = {}
  /\ sent' = {[r EXCEPT !.remounted = TRUE] : r \in sent}
  /\ UNCHANGED <<kind, actions, told>>

-----------------------------------------------------------------------------
(* The answer *)

\* The dialog shown is the one that the run was sent from.
SentFrom(r) == r.form /\ dialog.run = r.id

ErrorsShown(r) == [dialog EXCEPT !.run = 0,
                     !.errors = IF r.outcome = "issues" THEN "shown" ELSE "hidden"]

\* Faulty: whatever was answered, the form is done.
DialogAfterAny(r) ==
  IF r.form /\ dialog.asks = "form" /\ (Shared \/ dialog.action = r.action)
  THEN NoDialog ELSE dialog

\* Faulty: every run closes the form.
DialogAfterRun(r) ==
  IF ~WithIssues(r) THEN NoDialog ELSE IF SentFrom(r) THEN ErrorsShown(r) ELSE dialog

\* With issues the dialog stays, if it is still there to show them; without, what
\* was a form's run closes the form that is open, and which one that is is asked by
\* buttons with a state of their own only.
DialogAfter(r) ==
  IF WithIssues(r) /\ SentFrom(r) THEN ErrorsShown(r)
  ELSE IF /\ ~WithIssues(r) /\ r.form /\ dialog.asks = "form"
          /\ Shared \/ dialog.action = r.action
  THEN NoDialog ELSE dialog

\* Only buttons with a state of their own have no message for every success.
TellsOf(r) ==
  IF WithIssues(r) \/ (r.outcome = "quiet" /\ ~Shared) THEN 0 ELSE r.id

\* A remounted button's old self ends unseen.
Answer(r) ==
  /\ told' = TellsOf(r)
  /\ IF r.remounted THEN UNCHANGED <<pending, dialog>>
     ELSE /\ pending' = IF Shared THEN {} ELSE pending \ {r.action}
          /\ dialog' = DialogAfter(r)
  /\ sent' = sent \ {r}
  /\ UNCHANGED <<kind, actions>>

MenuNext ==
  \/ \E a \in Actions : Click(a)
  \/ Confirm \/ Submit \/ Dismiss \/ RemountMenu
  \/ \E r \in sent : Answer(r)

MenuSpec == MenuInit /\ [][MenuNext]_menu

-----------------------------------------------------------------------------
(* Properties *)

Ends(r) == \A s \in sent' : s.id # r.id

\* "Returns field errors for a form dialog to render, or `null` when the outcome
\* was already delivered": who ran an action learns how it ended.  Issues are in the
\* form it was sent from, unless that was dismissed meanwhile, there was none, or
\* they are of a key it does not show; any other end is told, but for a quiet one of
\* a button with a state of its own.
OutcomeIsDelivered ==
  \A r \in sent : Ends(r) =>
    IF WithIssues(r)
    THEN SentFrom(r) => /\ dialog' = [dialog EXCEPT !.run = 0, !.errors = dialog'.errors]
                        /\ dialog'.errors = "shown" \/ r.outcome = "foreign"
    ELSE told' = r.id \/ (r.outcome = "quiet" /\ kind = "own")

\* A button does not run its action again while it runs, but for buttons that share
\* their `pending` with another that was pressed meanwhile, and those that went and
\* came back.
PressedOnce ==
  \A r \in sent : Enabled(r.action) =>
    r.remounted \/ (Shared /\ r.beside /\ \E a \in Actions : actions[a].inline)

\* What is typed into a form stays until the operator sends or dismisses it: an
\* answer closes the form it is for; only the run of a form that was dismissed
\* before closes another.
TypedIsKept ==
  \A r \in sent : Ends(r) /\ dialog.asks = "form" =>
    dialog'.asks = "form" \/ SentFrom(r) \/ (Shared /\ r.form)

\* Every action is told, pressed once, and leaves the other forms alone.
ActionsAreTold == [][OutcomeIsDelivered /\ PressedOnce /\ TypedIsKept]_menu
=============================================================================
