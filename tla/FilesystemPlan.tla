----------------------------- MODULE FilesystemPlan -----------------------------
(***************************************************************************)
(* The scaffolding transaction of the CLI: init, new, eject and doctor     *)
(* --fix plan every file first (createFilesystemPlan), then write the      *)
(* changes one by one and roll the written ones back when a write fails    *)
(* (applyFilesystemPlan).  The plan is a snapshot: init even waits for     *)
(* "Apply these changes?" after it.                                        *)
(*                                                                         *)
(* Files are numbered in the order of the intents.  A write goes to a      *)
(* temporary file that is renamed, so it takes effect at once or, when it  *)
(* fails, not at all.  Editors and other runs of the CLI write meanwhile,  *)
(* and a run may be killed.                                                *)
(***************************************************************************)
EXTENDS Integers, FiniteSetsExt

CONSTANTS
  Runs,        \* runs of a mutating command
  NFiles,      \* files in question
  Commands,    \* what the commands want of the files: [Files -> Intents]
  Absent,      \* no such file
  MaxFaults,   \* bound on failing file operations and killed runs
  MaxEdits     \* bound on changes by somebody else

\* No intent; FileIntent without flags, with `overwrite`, with `expectedContent`.
Intents == {"none", "plain", "force", "edit"}
Files == 1..NFiles

ASSUME FilesAssumption == NFiles \in Nat \ {0}
ASSUME CommandsAssumption == Commands \subseteq [Files -> Intents]
ASSUME BoundsAssumption == MaxFaults \in Nat /\ MaxEdits \in Nat

VARIABLES
  disk,      \* the content of each file
  pc,        \* where each run is
  intent,    \* per run and file: what it wants of it
  source,    \* the contents an edit starts from
  kind,      \* per run and file: the kind of the planned operation
  seen,      \* previousContent
  at,        \* the file it plans next
  applied,   \* files written and not rolled back
  known,     \* history: files nobody else has changed since it planned them
  faults, edits

plan == <<intent, source, kind, seen, at>>
vars == <<disk, pc, plan, applied, known, faults, edits>>

\* Nobody's work is lost with these; the rest is somebody's.
Foreign == {"old", "edited"} \cup Runs
Contents == {Absent, "generated"} \cup Foreign

ASSUME AbsentAssumption == Absent \notin {"generated"} \cup Foreign

\* Generated content is the same in every run, an edited file bears its run.
Content(p, f) == IF intent[p][f] = "edit" THEN p ELSE "generated"

Ended == {"done", "refused", "failed", "halfway", "dead"}

TypeOK ==
  /\ disk \in [Files -> Contents]
  /\ pc \in [Runs -> {"idle", "plan", "write", "rollback"} \cup Ended]
  /\ intent \in [Runs -> [Files -> Intents]]
  /\ {source[p] : p \in Runs} \cup {seen[p] : p \in Runs} \subseteq [Files -> Contents]
  /\ kind \in [Runs -> [Files -> {"create", "modify", "skip", "conflict"}]]
  /\ at \in [Runs -> Files]
  /\ {applied[p] : p \in Runs} \cup {known[p] : p \in Runs} \subseteq SUBSET Files
  /\ faults \in 0..MaxFaults /\ edits \in 0..MaxEdits

Init ==
  /\ disk \in [Files -> {Absent, "old"}]
  /\ pc = [p \in Runs |-> "idle"]
  /\ intent = [p \in Runs |-> [f \in Files |-> "none"]]
  /\ source = [p \in Runs |-> [f \in Files |-> Absent]] /\ seen = source
  /\ kind = [p \in Runs |-> [f \in Files |-> "skip"]]
  /\ at = [p \in Runs |-> 1]
  /\ applied = [p \in Runs |-> {}] /\ known = applied
  /\ faults = 0 /\ edits = 0

Goto(p, place) == pc' = [pc EXCEPT ![p] = place]

Fault == faults < MaxFaults /\ faults' = faults + 1

\* File f changes; its planned state is stale for every run but p's own.
Put(p, f, content) ==
  /\ disk' = [disk EXCEPT ![f] = content]
  /\ known' = [q \in Runs |-> IF q = p THEN known[q] ELSE known[q] \ {f}]

-----------------------------------------------------------------------------
(* createFilesystemPlan *)

\* The command makes up its intents; eject and new read the file they edit.
Start(p) ==
  /\ pc[p] = "idle"
  /\ \E i \in Commands :
       /\ \A f \in Files : i[f] = "edit" => disk[f] # Absent
       /\ intent' = [intent EXCEPT ![p] = i]
       /\ source' = [source EXCEPT ![p] =
                       [f \in Files |-> IF i[f] = "edit" THEN disk[f] ELSE Absent]]
  /\ Goto(p, "plan")
  /\ UNCHANGED <<disk, kind, seen, at, applied, known, faults, edits>>

\* Faulty: an existing file is replaced, whoever wrote it.
KindReplacing(p, f) ==
  CASE intent[p][f] = "none"   -> "skip"
    [] disk[f] = Absent        -> "create"
    [] disk[f] = Content(p, f) -> "skip"
    [] OTHER                   -> "modify"

\* The operation planned for f, by what is on disk now.
Kind(p, f) ==
  IF intent[p][f] = "none" \/ disk[f] = Content(p, f) THEN "skip"
  ELSE IF disk[f] = Absent THEN "create"
  ELSE IF intent[p][f] = "force" \/ (intent[p][f] = "edit" /\ disk[f] = source[p][f])
  THEN "modify"
  ELSE "conflict"

\* Faulty: conflicts are skipped over.
AfterPlanRegardless(p) == Goto(p, "write")

\* assertPlanHasNoConflicts, and the commands' own checks before it.
AfterPlan(p) ==
  Goto(p, IF \E f \in Files : kind'[p][f] = "conflict" THEN "refused" ELSE "write")

\* One file is read and classified; a read may fail.
Classify(p) ==
  /\ pc[p] = "plan"
  /\ LET f == at[p] IN
     \/ /\ kind' = [kind EXCEPT ![p][f] = Kind(p, f)]
        /\ seen' = [seen EXCEPT ![p][f] = disk[f]]
        /\ known' = [known EXCEPT ![p] = @ \cup {f}]
        /\ IF f = NFiles
           THEN AfterPlan(p) /\ UNCHANGED at
           ELSE at' = [at EXCEPT ![p] = f + 1] /\ UNCHANGED pc
        /\ UNCHANGED faults
     \/ Fault /\ Goto(p, "failed") /\ UNCHANGED <<kind, seen, at, known>>
  /\ UNCHANGED <<disk, intent, source, applied, edits>>

\* --dry-run, or the user declines.
Decline(p) ==
  /\ pc[p] = "write" /\ applied[p] = {}
  /\ Goto(p, "refused")
  /\ UNCHANGED <<disk, plan, applied, known, faults, edits>>

-----------------------------------------------------------------------------
(* applyFilesystemPlan *)

Changes(p) == {f \in Files : kind[p][f] \in {"create", "modify"}}
Todo(p) == Changes(p) \ applied[p]

\* Faulty: writes in place, so that a failing write truncates the file.
WriteInPlace(p, f) ==
  \/ /\ Put(p, f, Content(p, f))
     /\ applied' = [applied EXCEPT ![p] = @ \cup {f}]
     /\ UNCHANGED <<pc, faults>>
  \/ /\ Fault /\ Goto(p, "rollback")
     /\ Put(p, f, "truncated") /\ UNCHANGED applied

\* atomicWrite of the next file.
AtomicWrite(p, f) ==
  \/ /\ Put(p, f, Content(p, f))
     /\ applied' = [applied EXCEPT ![p] = @ \cup {f}]
     /\ UNCHANGED <<pc, faults>>
  \/ /\ Fault /\ Goto(p, "rollback")
     /\ UNCHANGED <<disk, known, applied>>

Write(p) ==
  /\ pc[p] = "write" /\ Todo(p) # {}
  /\ AtomicWrite(p, Min(Todo(p)))
  /\ UNCHANGED <<plan, edits>>

Finish(p) ==
  /\ pc[p] = "write" /\ Todo(p) = {}
  /\ Goto(p, "done")
  /\ UNCHANGED <<disk, plan, applied, known, faults, edits>>

\* Faulty: in the order in which they were written.
NextUndoneForward(p) == Min(applied[p])

NextUndone(p) == Max(applied[p])

\* The written files, last one first, are removed or get their content back; a
\* failure ends the loop.
Rollback(p) ==
  /\ pc[p] = "rollback" /\ applied[p] # {}
  /\ LET f == NextUndone(p) IN
     \/ /\ Put(p, f, IF kind[p][f] = "create" THEN Absent ELSE seen[p][f])
        /\ applied' = [applied EXCEPT ![p] = @ \ {f}]
        /\ UNCHANGED <<pc, faults>>
     \/ Fault /\ Goto(p, "halfway") /\ UNCHANGED <<disk, known, applied>>
  /\ UNCHANGED <<plan, edits>>

Rethrow(p) ==
  /\ pc[p] = "rollback" /\ applied[p] = {}
  /\ Goto(p, "failed")
  /\ UNCHANGED <<disk, plan, applied, known, faults, edits>>

Kill(p) ==
  /\ pc[p] \in {"write", "rollback"}
  /\ Fault /\ Goto(p, "dead")
  /\ UNCHANGED <<disk, plan, applied, known, edits>>

\* An editor, a formatter or a checkout changes or removes a file.
SomebodyEdits(f) ==
  /\ edits < MaxEdits /\ edits' = edits + 1
  /\ \E content \in {"edited", Absent} \ {disk[f]} :
       disk' = [disk EXCEPT ![f] = content]
  /\ known' = [p \in Runs |-> known[p] \ {f}]
  /\ UNCHANGED <<pc, plan, applied, faults>>

Next ==
  \/ \E p \in Runs :
       \/ Start(p) \/ Classify(p) \/ Decline(p)
       \/ Write(p) \/ Finish(p) \/ Rollback(p) \/ Rethrow(p) \/ Kill(p)
  \/ \E f \in Files : SomebodyEdits(f)

-----------------------------------------------------------------------------
(* Properties *)

\* "A later failure restores earlier files instead of leaving a half-written
\* scaffold": a run that ends without having written holds no change, one that
\* ends well holds all of its own, in every file that was left to it.  However a
\* run ends, killed or with a failing roll-back, what stays is a prefix of its
\* changes: the configuration, which eject edits last, never refers to a page
\* that is not there.
OutcomeIsTrue ==
  \A p \in Runs : \A f \in known[p] :
    /\ pc[p] \in {"failed", "refused"} => disk[f] = seen[p][f]
    /\ pc[p] = "done" /\ intent[p][f] # "none" => disk[f] = Content(p, f)
    /\ \A g \in known[p] \cap Changes(p) :
         f \in Changes(p) /\ f < g /\ disk[g] = Content(p, g) => disk[f] = Content(p, f)

Allowed(p, f) ==
  \/ intent[p][f] = "force"
  \/ intent[p][f] = "edit" /\ disk[f] = source[p][f]

\* A run replaces somebody's file only where it was told to or found the content
\* it had started from, if nobody changed the file after it was planned.
ReplacesWhatItPlanned ==
  [][\A p \in Runs : \A f \in applied'[p] \ applied[p] :
       f \in known[p] /\ disk[f] \in Foreign => Allowed(p, f)]_vars
=============================================================================
