--------------------------- MODULE CliCommandsProofs ---------------------------
(***************************************************************************)
(* What `flowpanel migrate` leaves in the database, what a scaffolding run *)
(* reports of the files, what is left of a project between commands, and   *)
(* where a file is cut into statements, for any number of processes,       *)
(* migrations, runs, files and resources, any failures, kills and changes  *)
(* by others, and any texts.                                               *)
(***************************************************************************)
EXTENDS CliCommands, SequenceTheorems, WellFoundedInduction, TLAPS

(* flowpanel migrate *)

CommandTypes ==
  /\ stage \in [Processes -> {"list", "file", "mark"} \cup Exited]
  /\ listed \in [Processes -> SUBSET Migrations]
  /\ place \in [Processes -> Nat]
  /\ ran \in [Migrations -> Nat]
  /\ marked \in SUBSET Migrations
  /\ rejections \in Nat

\* A process is past the files before its own, all of them marked; what it listed
\* still is.
WalkIsOrdered ==
  \A p \in Processes :
    /\ listed[p] \subseteq marked
    /\ stage[p] = "list" => place[p] = 1
    /\ stage[p] \in {"file", "mark"} =>
         place[p] \in Migrations /\ \A e \in Migrations : e < place[p] => e \in marked
    /\ stage[p] = "mark" => ~Transactional /\ ran[place[p]] >= 1
    /\ stage[p] = "done" => marked = Migrations

AtMark(p, f) == stage[p] = "mark" /\ place[p] = f

\* All runs of a file but one are owed to a rejection or a kill, and that one is
\* marked or about to be.
RunsAreOwed ==
  ~Legacy =>
    \A f \in Migrations :
      \/ ran[f] <= rejections
      \/ /\ ran[f] <= rejections + 1
         /\ f \in marked \/ \E q \in Processes : AtMark(q, f)

DatabaseIsOrdered ==
  /\ \A f \in marked : ran[f] >= 1
  /\ \A f, e \in Migrations : (f \in marked \/ ran[f] >= 1) /\ e < f => e \in marked
  /\ Transactional => \A f \in Migrations : ran[f] = IF f \in marked THEN 1 ELSE 0

CommandInv == CommandTypes /\ WalkIsOrdered /\ RunsAreOwed /\ DatabaseIsOrdered

LEMMA InitCommand == CommandInit => CommandInv
  BY MigrationsAssumption
  DEF CommandInit, CommandInv, CommandTypes, WalkIsOrdered, RunsAreOwed, DatabaseIsOrdered,
      Migrations, Exited

\* A process that has its file marked goes on to the next.
LEMMA AdvanceKeepsWalk ==
  ASSUME CommandInv, NEW p \in Processes, stage[p] \in {"file", "mark"},
         marked' = marked \cup {place[p]}, Advance(p), listed' = listed, adapter' = adapter,
         rejections' = rejections, ran' \in [Migrations -> Nat],
         \A f \in Migrations : ran'[f] >= ran[f]
  PROVE  CommandTypes' /\ WalkIsOrdered'
  <1> USE DEF CommandInv, Migrations, Exited
  <1>1. place[p] \in Migrations /\ \A e \in Migrations : e < place[p] => e \in marked
    BY DEF WalkIsOrdered
  <1>2. CommandTypes'
    <2>1. stage' \in [Processes -> {"list", "file", "mark"} \cup Exited]
      BY DEF CommandTypes, Advance, Proceed
    <2>2. place' \in [Processes -> Nat]
      BY DEF CommandTypes, Advance
    <2>3. marked' \in SUBSET Migrations /\ listed' \in [Processes -> SUBSET Migrations]
          /\ rejections' \in Nat
      BY <1>1 DEF CommandTypes
    <2> QED BY <2>1, <2>2, <2>3 DEF CommandTypes
  <1>3. \A e \in Migrations : e < place'[p] => e \in marked'
    BY <1>1, MigrationsAssumption DEF CommandTypes, Advance
  <1>4. place[p] # NMigrations => place'[p] \in Migrations
    BY <1>1, MigrationsAssumption DEF CommandTypes, Advance
  <1>5. stage'[p] = "done" => marked' = Migrations
    <2> SUFFICES ASSUME stage'[p] = "done", NEW e \in Migrations PROVE e \in marked'
      BY <1>2 DEF CommandTypes
    <2>1. place[p] = NMigrations
      BY DEF Advance, Proceed, CommandTypes
    <2> QED BY <2>1, <1>3, MigrationsAssumption DEF Advance, CommandTypes
  <1>6. WalkIsOrdered'
    <2> SUFFICES ASSUME NEW q \in Processes
                 PROVE  /\ listed'[q] \subseteq marked'
                        /\ stage'[q] = "list" => place'[q] = 1
                        /\ stage'[q] \in {"file", "mark"} =>
                             /\ place'[q] \in Migrations
                             /\ \A e \in Migrations : e < place'[q] => e \in marked'
                        /\ stage'[q] = "mark" => ~Transactional' /\ ran'[place'[q]] >= 1
                        /\ stage'[q] = "done" => marked' = Migrations
      BY DEF WalkIsOrdered
    <2>1. CASE q = p
      <3>1. stage'[p] \in {"done", "file"} /\ (stage'[p] = "file" => place[p] # NMigrations)
        BY DEF Advance, Proceed, CommandTypes
      <3> QED BY <2>1, <3>1, <1>3, <1>4, <1>5 DEF WalkIsOrdered
    <2>2. CASE q # p
      <3>1. stage'[q] = stage[q] /\ place'[q] = place[q]
        BY <2>2 DEF Advance, Proceed, CommandTypes
      <3>2. stage[q] = "mark" => ran'[place[q]] >= 1
        BY DEF WalkIsOrdered, CommandTypes
      <3>3. stage[q] = "done" => marked' = Migrations
        BY <1>1 DEF WalkIsOrdered
      <3> QED BY <3>1, <3>2, <3>3 DEF WalkIsOrdered, Transactional
    <2> QED BY <2>1, <2>2
  <1> QED BY <1>2, <1>6

\* A process stops where it is.
LEMMA StopKeepsWalk ==
  ASSUME CommandInv, NEW p \in Processes, NEW to \in {"exit", "dead"},
         Proceed(p, to), place' = place, listed' = listed, adapter' = adapter,
         marked' \in SUBSET Migrations, marked \subseteq marked', rejections' \in Nat,
         ran' \in [Migrations -> Nat], \A f \in Migrations : ran'[f] >= ran[f]
  PROVE  CommandTypes' /\ WalkIsOrdered'
  <1>1. CommandTypes'
    BY DEF CommandInv, CommandTypes, Proceed, Exited
  <1>2. \A f \in Migrations : ran[f] \in Nat /\ ran'[f] \in Nat
    BY DEF CommandInv, CommandTypes
  <1>3. WalkIsOrdered'
    <2> SUFFICES ASSUME NEW q \in Processes
                 PROVE  /\ listed'[q] \subseteq marked'
                        /\ stage'[q] = "list" => place'[q] = 1
                        /\ stage'[q] \in {"file", "mark"} =>
                             /\ place'[q] \in Migrations
                             /\ \A e \in Migrations : e < place'[q] => e \in marked'
                        /\ stage'[q] = "mark" => ~Transactional' /\ ran'[place'[q]] >= 1
                        /\ stage'[q] = "done" => marked' = Migrations
      BY DEF WalkIsOrdered
    <2>1. stage'[q] = to \/ stage'[q] = stage[q]
      BY DEF Proceed, CommandInv, CommandTypes
    <2>2. stage[q] = "mark" => ~Transactional /\ ran'[place[q]] >= 1
      BY <1>2 DEF CommandInv, WalkIsOrdered
    <2> QED BY <2>1, <2>2 DEF CommandInv, WalkIsOrdered, Transactional
  <1> QED BY <1>1, <1>3

\* What a step of p owes for the runs: the other processes are where they were.
LEMMA RunsStayOwed ==
  ASSUME CommandInv, NEW p \in Processes, adapter' = adapter,
         rejections' \in Nat, rejections <= rejections', marked \subseteq marked',
         \A q \in Processes \ {p} : stage'[q] = stage[q] /\ place'[q] = place[q],
         \A f \in Migrations :
           \/ ran'[f] <= rejections'
           \/ ran'[f] <= rejections' + 1 /\ (f \in marked' \/ AtMark(p, f)')
           \/ ran'[f] = ran[f] /\ ~AtMark(p, f)
  PROVE  RunsAreOwed'
  <1> SUFFICES ASSUME ~Legacy, NEW f \in Migrations
               PROVE  \/ ran'[f] <= rejections'
                      \/ /\ ran'[f] <= rejections' + 1
                         /\ f \in marked' \/ \E q \in Processes : AtMark(q, f)'
    BY DEF RunsAreOwed, Legacy
  <1>1. CASE ran'[f] = ran[f] /\ ~AtMark(p, f)
    <2>1. CASE ran[f] <= rejections
      BY <1>1, <2>1 DEF CommandInv, CommandTypes
    <2>2. CASE ran[f] <= rejections + 1 /\ f \in marked
      BY <1>1, <2>2 DEF CommandInv, CommandTypes
    <2>3. ASSUME ran[f] <= rejections + 1, NEW q \in Processes, AtMark(q, f)
          PROVE  ran'[f] <= rejections' + 1 /\ AtMark(q, f)'
      <3>1. q # p
        BY <1>1, <2>3
      <3> QED BY <1>1, <2>3, <3>1 DEF AtMark, CommandInv, CommandTypes
    <2> QED BY <2>1, <2>2, <2>3 DEF CommandInv, RunsAreOwed
  <1> QED BY <1>1

\* File and marker in one step.
LEMMA OneStepKeeps ==
  ASSUME CommandInv, NEW p \in Processes, stage[p] = "file", OneStep(p),
         AdapterApplies(place[p]), adapter' = adapter
  PROVE  /\ marked' = marked \cup {place[p]}
         /\ ran' \in [Migrations -> Nat] /\ \A f \in Migrations : ran'[f] >= ran[f]
         /\ \A f \in Migrations : ran'[f] = ran[f] \/ (ran'[f] = 1 /\ f \in marked')
         /\ DatabaseIsOrdered'
  <1> DEFINE n == place[p]
  <1>1. n \in Migrations /\ \A e \in Migrations : e < n => e \in marked
    BY DEF CommandInv, WalkIsOrdered
  <1>2. CASE n \in marked
    <2>1. ran' = ran /\ marked' = marked /\ marked = marked \cup {n}
      BY <1>2 DEF AdapterApplies
    <2>2. \A f \in Migrations : ran[f] >= ran[f]
      BY DEF CommandInv, CommandTypes
    <2> QED BY <2>1, <2>2 DEF CommandInv, CommandTypes, DatabaseIsOrdered, Transactional
  <1>3. CASE n \notin marked
    <2>1. ran' = [ran EXCEPT ![n] = ran[n] + 1] /\ marked' = marked \cup {n}
      BY <1>3 DEF AdapterApplies
    <2>2. Transactional /\ ran[n] = 0
      BY <1>1, <1>3 DEF OneStep, CommandInv, DatabaseIsOrdered
    <2>3. ran' \in [Migrations -> Nat]
      <3>1. ran[n] + 1 \in Nat
        BY <2>2
      <3> QED BY <2>1, <3>1 DEF CommandInv, CommandTypes
    <2>4. \A f \in Migrations : ran'[f] = IF f = n THEN 1 ELSE ran[f]
      BY <2>1, <2>2, <1>1 DEF CommandInv, CommandTypes
    <2>5. \A f \in Migrations : ran'[f] = IF f \in marked' THEN 1 ELSE 0
      BY <2>1, <2>2, <2>4, <1>1 DEF CommandInv, DatabaseIsOrdered
    <2>6. \A f \in marked' : f \in Migrations
      BY <2>1, <1>1 DEF CommandInv, CommandTypes
    <2>7. \A f, e \in Migrations : f \in marked' /\ e < f => e \in marked'
      BY <2>1, <1>1 DEF CommandInv, DatabaseIsOrdered
    <2>8. \A f \in Migrations : ran'[f] >= ran[f]
      BY <2>2, <2>4 DEF CommandInv, CommandTypes
    <2>9. DatabaseIsOrdered'
      BY <2>5, <2>6, <2>7 DEF DatabaseIsOrdered
    <2>10. \A f \in Migrations : ran'[f] = ran[f] \/ (ran'[f] = 1 /\ f \in marked')
      BY <2>1, <2>4
    <2> QED BY <2>1, <2>3, <2>8, <2>9, <2>10
  <1> QED BY <1>2, <1>3

LEMMA ApplyKeeps ==
  ASSUME CommandInv, NEW p \in Processes, Apply(p), adapter' = adapter
  PROVE  CommandInv'
  <1>1. stage[p] = "file" /\ OneStep(p) /\ listed' = listed /\ place[p] \in Migrations
        /\ rejections' \in Nat /\ rejections <= rejections'
    BY DEF Apply, Answered, Rejected, CommandInv, CommandTypes, WalkIsOrdered
  <1>2. \A f : ~AtMark(p, f)
    BY <1>1 DEF AtMark
  <1>3. \A q \in Processes \ {p} : stage'[q] = stage[q] /\ place'[q] = place[q]
    BY DEF Apply, Advance, Proceed, CommandInv, CommandTypes
  <1>4. marked \in SUBSET Migrations /\ \A f \in Migrations : ran[f] >= ran[f] /\ ran[f] \in Nat
    BY DEF CommandInv, CommandTypes
  <1>5. CASE AdapterApplies(place[p])
    <2>1. /\ marked' = marked \cup {place[p]} /\ DatabaseIsOrdered'
          /\ ran' \in [Migrations -> Nat] /\ \A f \in Migrations : ran'[f] >= ran[f]
          /\ \A f \in Migrations : ran'[f] = ran[f] \/ (ran'[f] = 1 /\ f \in marked')
      BY <1>1, <1>5, OneStepKeeps
    <2>2. CommandTypes' /\ WalkIsOrdered'
      <3>1. CASE Answered /\ Advance(p)
        BY <1>1, <2>1, <3>1, AdvanceKeepsWalk DEF Answered
      <3>2. CASE Proceed(p, "exit") /\ place' = place
        BY <1>1, <1>4, <2>1, <3>2, StopKeepsWalk
      <3> QED BY <3>1, <3>2 DEF Apply
    <2>3. \A f \in Migrations : ran'[f] = 1 => ran'[f] <= rejections' + 1
      BY <1>1
    <2>4. RunsAreOwed'
      BY <1>1, <1>2, <1>3, <2>1, <2>3, RunsStayOwed
    <2> QED BY <2>1, <2>2, <2>4 DEF CommandInv
  <1>6. CASE UNCHANGED <<ran, marked, place>> /\ Proceed(p, "exit")
    <2>1. CommandTypes' /\ WalkIsOrdered'
      BY <1>1, <1>4, <1>6, StopKeepsWalk DEF CommandInv, CommandTypes
    <2>2. RunsAreOwed'
      BY <1>1, <1>2, <1>3, <1>6, RunsStayOwed
    <2> QED BY <1>6, <2>1, <2>2 DEF CommandInv, DatabaseIsOrdered, Transactional
  <1> QED BY <1>5, <1>6 DEF Apply

\* The SQL alone: its file comes after marked ones, and nobody else is at its marker.
LEMMA RunKeeps ==
  ASSUME CommandInv, NEW p \in Processes, RunSql(p), adapter' = adapter
  PROVE  CommandInv'
  <1> DEFINE n == place[p]
  <1>1. /\ stage[p] = "file" /\ ~Transactional /\ n \in Migrations
        /\ \A e \in Migrations : e < n => e \in marked
        /\ UNCHANGED <<listed, place, marked>>
        /\ rejections \in Nat /\ rejections' \in Nat /\ rejections <= rejections'
    BY DEF RunSql, Answered, Rejected, CommandInv, CommandTypes, WalkIsOrdered
  <1>2. \A f : ~AtMark(p, f)
    BY <1>1 DEF AtMark
  <1>3. \A q \in Processes \ {p} : stage'[q] = stage[q] /\ place'[q] = place[q]
    BY <1>1 DEF RunSql, Proceed, CommandInv, CommandTypes
  <1>4. marked \in SUBSET Migrations /\ \A f \in Migrations : ran[f] \in Nat
    BY DEF CommandInv, CommandTypes
  <1>5. CASE ran' = [ran EXCEPT ![n] = ran[n] + 1] /\ MayRun(p)
                /\ ((Answered /\ Proceed(p, "mark")) \/ (Rejected /\ Proceed(p, "exit")))
    <2>1. /\ ran' \in [Migrations -> Nat]
          /\ \A f \in Migrations : ran'[f] = IF f = n THEN ran[n] + 1 ELSE ran[f]
      BY <1>1, <1>4, <1>5 DEF CommandInv, CommandTypes
    <2>2. \A f \in Migrations : ran'[f] >= ran[f]
      BY <1>4, <2>1
    <2>3. DatabaseIsOrdered'
      BY <1>1, <1>4, <2>1, <2>2 DEF CommandInv, DatabaseIsOrdered, Transactional
    <2>4. CommandTypes' /\ WalkIsOrdered'
      <3>1. CASE Proceed(p, "exit")
        BY <1>1, <1>4, <2>1, <2>2, <3>1, StopKeepsWalk
      <3>2. CASE Proceed(p, "mark")
        <4>1. CommandTypes'
          BY <1>1, <2>1, <3>2 DEF Proceed, CommandInv, CommandTypes
        <4>2. ran'[n] >= 1
          BY <1>1, <1>4, <2>1
        <4>3. \A f \in Migrations : ran[f] >= 1 => ran'[f] >= 1
          BY <1>4, <2>1, <2>2
        <4>4. WalkIsOrdered'
          BY <1>1, <3>2, <4>2, <4>3
          DEF Proceed, CommandInv, CommandTypes, WalkIsOrdered, Transactional
        <4> QED BY <4>1, <4>4
      <3> QED BY <1>5, <3>1, <3>2
    <2>5. RunsAreOwed'
      <3>1. CASE Legacy
        BY <3>1 DEF RunsAreOwed, Legacy
      <3>2. CASE ~Legacy
        <4>1. n \notin marked /\ \A q \in Processes : ~AtMark(q, n)
          BY <1>5, <3>2 DEF MayRun, AtMark
        <4>2. ran[n] <= rejections
          BY <1>1, <3>2, <4>1 DEF CommandInv, RunsAreOwed
        <4>3. ran'[n] <= rejections' \/ (ran'[n] <= rejections' + 1 /\ AtMark(p, n)')
          <5>1. CASE Answered /\ Proceed(p, "mark")
            BY <1>1, <1>4, <2>1, <4>2, <5>1 DEF Answered, Proceed, AtMark, CommandInv, CommandTypes
          <5>2. CASE Rejected
            BY <1>1, <1>4, <2>1, <4>2, <5>2 DEF Rejected
          <5> QED BY <1>5, <5>1, <5>2
        <4>4. \A f \in Migrations : f # n => ran'[f] = ran[f] /\ ~AtMark(p, f)
          BY <1>2, <2>1
        <4> QED BY <1>1, <1>3, <4>3, <4>4, RunsStayOwed
      <3> QED BY <3>1, <3>2
    <2> QED BY <2>3, <2>4, <2>5 DEF CommandInv
  <1>6. CASE ran' = ran /\ Proceed(p, "exit")
    <2>1. \A f \in Migrations : ran'[f] >= ran[f]
      BY <1>4, <1>6
    <2>2. CommandTypes' /\ WalkIsOrdered'
      BY <1>1, <1>4, <1>6, <2>1, StopKeepsWalk DEF CommandInv, CommandTypes
    <2>3. RunsAreOwed'
      BY <1>1, <1>2, <1>3, <1>6, RunsStayOwed
    <2> QED BY <1>1, <1>6, <2>2, <2>3 DEF CommandInv, DatabaseIsOrdered, Transactional
  <1> QED BY <1>5, <1>6 DEF RunSql, SqlTakesEffect

LEMMA MarkKeeps ==
  ASSUME CommandInv, NEW p \in Processes, MarkSql(p), adapter' = adapter
  PROVE  CommandInv'
  <1> DEFINE n == place[p]
  <1>1. /\ stage[p] = "mark" /\ ~Transactional /\ n \in Migrations /\ ran[n] >= 1
        /\ \A e \in Migrations : e < n => e \in marked
        /\ UNCHANGED <<listed, ran>>
        /\ rejections \in Nat /\ rejections' \in Nat /\ rejections <= rejections'
    BY DEF MarkSql, Answered, Rejected, CommandInv, CommandTypes, WalkIsOrdered
  <1>2. \A q \in Processes \ {p} : stage'[q] = stage[q] /\ place'[q] = place[q]
    BY DEF MarkSql, Advance, Proceed, CommandInv, CommandTypes
  <1>3. /\ marked \in SUBSET Migrations /\ ran \in [Migrations -> Nat]
        /\ \A f \in Migrations : ran[f] \in Nat /\ ran'[f] >= ran[f]
    BY <1>1 DEF CommandInv, CommandTypes
  <1>4. marked' \in {marked, marked \cup {n}}
    BY DEF MarkSql
  <1>5. DatabaseIsOrdered'
    BY <1>1, <1>3, <1>4 DEF CommandInv, DatabaseIsOrdered, Transactional
  <1>6. CommandTypes' /\ WalkIsOrdered'
    <2>1. CASE Proceed(p, "exit") /\ place' = place
      BY <1>1, <1>3, <1>4, <2>1, StopKeepsWalk
    <2>2. CASE Answered /\ Advance(p) /\ marked' = marked \cup {n}
      BY <1>1, <1>3, <2>2, AdvanceKeepsWalk DEF Answered
    <2> QED BY <2>1, <2>2 DEF MarkSql
  <1>7. RunsAreOwed'
    <2>1. CASE Legacy
      BY <2>1 DEF RunsAreOwed, Legacy
    <2>2. CASE ~Legacy
      <3>1. ran[n] <= rejections + 1
        BY <1>1, <1>3, <2>2 DEF CommandInv, RunsAreOwed
      <3>2. n \in marked' \/ rejections' = rejections + 1
        BY <1>4 DEF MarkSql, Rejected
      <3>3. ran'[n] <= rejections' \/ (ran'[n] <= rejections' + 1 /\ n \in marked')
        BY <1>1, <1>3, <3>1, <3>2
      <3>4. \A f \in Migrations : f # n => ran'[f] = ran[f] /\ ~AtMark(p, f)
        BY <1>1 DEF AtMark
      <3>5. marked \subseteq marked'
        BY <1>4
      <3> QED BY <1>1, <1>2, <3>3, <3>4, <3>5, RunsStayOwed
    <2> QED BY <2>1, <2>2
  <1> QED BY <1>5, <1>6, <1>7 DEF CommandInv

LEMMA StepCommand == CommandInv /\ [CommandNext]_command => CommandInv'
  <1> SUFFICES ASSUME CommandInv, [CommandNext]_command PROVE CommandInv'
    OBVIOUS
  <1>0. \A f \in Migrations : ran[f] \in Nat /\ ran[f] >= ran[f]
    BY DEF CommandInv, CommandTypes
  <1>1. ASSUME NEW p \in Processes, ListApplied(p), adapter' = adapter PROVE CommandInv'
    <2>1. CommandTypes'
      BY <1>1 DEF ListApplied, Answered, Rejected, Proceed, CommandInv, CommandTypes, Exited
    <2>2. WalkIsOrdered'
      BY <1>1, MigrationsAssumption
      DEF ListApplied, Proceed, CommandInv, CommandTypes, WalkIsOrdered, Transactional, Migrations
    <2>3. /\ \A q \in Processes \ {p} : stage'[q] = stage[q] /\ place'[q] = place[q]
          /\ \A f : ~AtMark(p, f)
          /\ ran' = ran /\ marked' = marked
          /\ rejections' \in Nat /\ rejections <= rejections'
      BY <1>1 DEF ListApplied, Answered, Rejected, Proceed, AtMark, CommandInv, CommandTypes
    <2>4. RunsAreOwed'
      BY <1>1, <2>3, RunsStayOwed
    <2> QED BY <1>1, <2>1, <2>2, <2>3, <2>4 DEF CommandInv, DatabaseIsOrdered, Transactional
  <1>2. ASSUME NEW p \in Processes, SkipApplied(p), adapter' = adapter PROVE CommandInv'
    <2>1. /\ stage[p] = "file" /\ marked' = marked /\ marked = marked \cup {place[p]}
          /\ ran' = ran /\ listed' = listed /\ rejections' = rejections /\ Advance(p)
      BY <1>2 DEF SkipApplied, Answered, CommandInv, CommandTypes, WalkIsOrdered
    <2>2. CommandTypes' /\ WalkIsOrdered'
      BY <1>0, <1>2, <2>1, AdvanceKeepsWalk DEF CommandInv, CommandTypes
    <2>3. /\ \A q \in Processes \ {p} : stage'[q] = stage[q] /\ place'[q] = place[q]
          /\ \A f : ~AtMark(p, f)
          /\ rejections' \in Nat /\ rejections <= rejections'
      BY <2>1 DEF Advance, Proceed, AtMark, CommandInv, CommandTypes
    <2>4. RunsAreOwed'
      BY <1>2, <2>1, <2>3, RunsStayOwed
    <2> QED BY <1>2, <2>1, <2>2, <2>4 DEF CommandInv, DatabaseIsOrdered, Transactional
  <1>3. ASSUME NEW p \in Processes, Apply(p) \/ RunSql(p) \/ MarkSql(p), adapter' = adapter
        PROVE  CommandInv'
    BY <1>3, ApplyKeeps, RunKeeps, MarkKeeps
  <1>4. ASSUME NEW p \in Processes, KillProcess(p), adapter' = adapter PROVE CommandInv'
    <2>1. /\ Proceed(p, "dead") /\ UNCHANGED <<listed, place, appliedNow, ran, marked>>
          /\ rejections \in Nat /\ rejections' = rejections + 1
      BY <1>4 DEF KillProcess, Rejected, CommandInv, CommandTypes
    <2>2. CommandTypes' /\ WalkIsOrdered'
      BY <1>0, <1>4, <2>1, StopKeepsWalk DEF CommandInv, CommandTypes
    <2>3. RunsAreOwed'
      <3>1. \A f \in Migrations : ~Legacy => ran'[f] <= rejections + 1
        BY <1>0, <2>1 DEF CommandInv, RunsAreOwed
      <3> QED BY <1>4, <2>1, <3>1 DEF RunsAreOwed, Legacy
    <2> QED BY <1>4, <2>1, <2>2, <2>3 DEF CommandInv, DatabaseIsOrdered, Transactional
  <1>5. CASE UNCHANGED command
    BY <1>5
    DEF command, CommandInv, CommandTypes, WalkIsOrdered, RunsAreOwed, AtMark, DatabaseIsOrdered,
        Legacy, Transactional
  <1> QED BY <1>1, <1>2, <1>3, <1>4, <1>5 DEF CommandNext

LEMMA CommandTells == CommandInv => InFileOrder
  <1> SUFFICES ASSUME CommandInv PROVE InFileOrder
    OBVIOUS
  <1>1. ~Legacy => \A f \in Migrations : ran[f] <= 1 + rejections
    BY DEF CommandInv, CommandTypes, RunsAreOwed
  <1> QED BY <1>1 DEF CommandInv, WalkIsOrdered, DatabaseIsOrdered, InFileOrder

\* Files are applied in order, however many processes walk over the same directory
\* and wherever they stop; once each where file and marker are one transaction, and
\* once more for a rejection or a kill on MySQL.
THEOREM FilesGoInOrder == CliSpec => []InFileOrder
  <1>1. CliInit => CommandInv
    BY InitCommand DEF CliInit
  <1>2. CommandInv /\ [CliNext]_cli => CommandInv'
    BY StepCommand DEF CliNext, cli
  <1> QED BY <1>1, <1>2, CommandTells, PTL DEF CliSpec

-----------------------------------------------------------------------------
(* The least and the largest element of a set of numbers.  That there is one *)
(* is well-founded induction in its first-order form, WFMin.                 *)

Below == OpToRel(<, Nat)

LEMMA BelowIsWellFounded == IsWellFoundedOn(Below, Nat)
  BY NatLessThanWellFounded DEF Below

LEMMA LeastExists ==
  ASSUME NEW S \in SUBSET Nat, S # {}
  PROVE  \E x \in S : \A y \in S : x =< y
  <1>1. \E x \in S : \A y \in S : ~ (<<y, x>> \in Below)
    BY BelowIsWellFounded, WFMin
  <1>2. \A x, y \in Nat : <<x, y>> \in Below <=> x < y
    BY DEF Below, OpToRel
  <1>3. PICK x \in S : \A y \in S : ~ (<<y, x>> \in Below)
    BY <1>1
  <1>4. \A y \in S : x =< y
    <2> SUFFICES ASSUME NEW y \in S, ~(x =< y) PROVE FALSE
      OBVIOUS
    <2>1. x \in Nat /\ y \in Nat /\ y < x
      OBVIOUS
    <2>2. <<y, x>> \in Below
      BY <1>2, <2>1
    <2> QED BY <1>3, <2>2
  <1> QED BY <1>4

LEMMA MinIsSmallest ==
  ASSUME NEW S \in SUBSET Nat, S # {}
  PROVE  Min(S) \in S /\ \A y \in S : Min(S) =< y
  BY LeastExists DEF Min

LEMMA MaxIsLargest ==
  ASSUME NEW N \in Nat, NEW S \in SUBSET (1..N), S # {}
  PROVE  Max(S) \in S /\ \A y \in S : Max(S) >= y
  <1>1. \E x \in S : \A y \in S : x >= y
    <2> DEFINE D == {N - x : x \in S}
    <2>1. D \subseteq Nat /\ D # {}
      <3>1. \A x \in S : x \in Nat /\ N - x \in Nat
        OBVIOUS
      <3>2. D \subseteq Nat
        BY <3>1
      <3>3. D # {}
        OBVIOUS
      <3> QED BY <3>2, <3>3
    <2> HIDE DEF D
    <2>2. PICK d \in D : \A e \in D : d =< e
      BY <2>1, LeastExists
    <2>3. PICK x \in S : d = N - x
      BY <2>2 DEF D
    <2>4. \A y \in S : N - y \in D
      BY DEF D
    <2>5. \A y \in S : N - x =< N - y
      BY <2>2, <2>3, <2>4
    <2> QED BY <2>5
  <1> QED BY <1>1 DEF Max

-----------------------------------------------------------------------------
(* The scaffolding transaction.  A run is disturbed by nobody in the files  *)
(* it knows: whoever changes one takes it out of what the others know.      *)

ScaffoldTypes ==
  /\ disk \in [Files -> Contents]
  /\ pc \in [Runs -> {"idle", "plan", "write", "rollback"} \cup Ended]
  /\ intent \in [Runs -> [Files -> Intents]]
  /\ source \in [Runs -> [Files -> Contents]] /\ seen \in [Runs -> [Files -> Contents]]
  /\ kind \in [Runs -> [Files -> {"create", "modify", "skip", "conflict"}]]
  /\ at \in [Runs -> Files]
  /\ applied \in [Runs -> SUBSET Files] /\ known \in [Runs -> SUBSET Files]

\* What a run has written is the first part of its changes.
WrittenInOrder(p) ==
  /\ applied[p] \subseteq Changes(p)
  /\ \A f, g \in Changes(p) : g \in applied[p] /\ f < g => f \in applied[p]

\* How far a run is, and what it can have written by then.
RunProgress(p) ==
  /\ pc[p] = "idle" => known[p] = {}
  /\ pc[p] \in {"idle", "plan", "refused", "failed"} => applied[p] = {}
  /\ pc[p] \in {"write", "done"} => \A f \in Files : kind[p][f] # "conflict"
  /\ pc[p] = "done" => Changes(p) \subseteq applied[p]

\* A known file holds what the run wrote, or what it saw.
KnownIsTrue(p) ==
  \A f \in known[p] : disk[f] = IF f \in applied[p] THEN Content(p, f) ELSE seen[p][f]

\* What was planned for a known file follows from what was seen of it.
PlanIsFounded(p) ==
  \A f \in known[p] :
    /\ kind[p][f] = "create" => seen[p][f] = Absent
    /\ kind[p][f] = "skip" /\ intent[p][f] # "none" => seen[p][f] = Content(p, f)
    /\ kind[p][f] \in {"create", "modify"} => seen[p][f] # Content(p, f)
    /\ kind[p][f] = "modify" =>
         intent[p][f] = "force" \/ (intent[p][f] = "edit" /\ seen[p][f] = source[p][f])

RunInv(p) == WrittenInOrder(p) /\ RunProgress(p) /\ KnownIsTrue(p) /\ PlanIsFounded(p)

ScaffoldInv == ScaffoldTypes /\ \A p \in Runs : RunInv(p)

LEMMA ScaffoldStarts == Init => ScaffoldInv
  <1> SUFFICES ASSUME Init PROVE ScaffoldInv
    OBVIOUS
  <1>1. 1 \in Files
    BY FilesAssumption DEF Files
  <1>2. ScaffoldTypes
    BY <1>1 DEF Init, ScaffoldTypes, Contents, Foreign, Ended, Intents
  <1>3. ASSUME NEW p \in Runs PROVE RunInv(p)
    BY DEF Init, RunInv, WrittenInOrder, RunProgress, KnownIsTrue, PlanIsFounded, Changes
  <1> QED BY <1>2, <1>3 DEF ScaffoldInv

\* A step of one run, or of somebody else, as the other runs see it.
Beside(p) ==
  /\ pc'[p] = pc[p] /\ intent'[p] = intent[p] /\ source'[p] = source[p]
  /\ kind'[p] = kind[p] /\ seen'[p] = seen[p] /\ applied'[p] = applied[p]
  /\ known'[p] \subseteq known[p] /\ \A f \in known'[p] : disk'[f] = disk[f]

LEMMA OtherRunsKeep ==
  ASSUME NEW p \in Runs, RunInv(p), Beside(p) PROVE RunInv(p)'
  BY DEF Beside, RunInv, WrittenInOrder, RunProgress, KnownIsTrue, PlanIsFounded, Changes, Content

\* Only a change of a file lets the others know less, and then not of that file.
LEMMA PutIsSeen ==
  ASSUME ScaffoldTypes, NEW p \in Runs, NEW f \in Files, NEW c \in Contents, Put(p, f, c)
  PROVE  /\ disk' \in [Files -> Contents] /\ known' \in [Runs -> SUBSET Files]
         /\ disk'[f] = c /\ \A g \in Files \ {f} : disk'[g] = disk[g]
         /\ known'[p] = known[p]
         /\ \A q \in Runs \ {p} : known'[q] \subseteq known[q] /\ f \notin known'[q]
  <1>1. \A q \in Runs : known[q] \subseteq Files
    BY DEF ScaffoldTypes
  <1> QED BY <1>1 DEF ScaffoldTypes, Put

LEMMA StartKeeps ==
  ASSUME ScaffoldInv, NEW p \in Runs, Start(p) PROVE ScaffoldInv'
  <1> USE DEF ScaffoldInv
  <1>1. PICK i \in Commands :
          /\ intent' = [intent EXCEPT ![p] = i]
          /\ source' = [source EXCEPT ![p] =
                          [f \in Files |-> IF i[f] = "edit" THEN disk[f] ELSE Absent]]
    BY DEF Start
  <1>2. i \in [Files -> Intents]
    BY CommandsAssumption
  <1>3. [f \in Files |-> IF i[f] = "edit" THEN disk[f] ELSE Absent] \in [Files -> Contents]
    BY DEF ScaffoldTypes, Contents
  <1>4. ScaffoldTypes'
    BY <1>1, <1>2, <1>3 DEF Start, ScaffoldTypes, Goto
  <1>5. RunInv(p)'
    BY DEF ScaffoldTypes, RunInv, Start, Goto, WrittenInOrder, RunProgress, KnownIsTrue,
           PlanIsFounded, Changes
  <1>6. ASSUME NEW q \in Runs \ {p} PROVE RunInv(q)'
    <2>1. Beside(q)
      BY DEF Start, Goto, ScaffoldTypes, Beside
    <2> QED BY <2>1, OtherRunsKeep
  <1> QED BY <1>4, <1>5, <1>6

LEMMA ClassifyKeeps ==
  ASSUME ScaffoldInv, NEW p \in Runs, Classify(p) PROVE ScaffoldInv'
  <1> USE DEF ScaffoldInv
  <1> DEFINE f == at[p]
  <1>1. f \in Files /\ RunInv(p) /\ pc[p] = "plan" /\ applied[p] = {}
    BY DEF ScaffoldTypes, Classify, RunInv, RunProgress
  <1>2. UNCHANGED <<disk, intent, source, applied>>
    BY DEF Classify
  <1>3. ASSUME NEW q \in Runs \ {p} PROVE RunInv(q)'
    <2>1. Beside(q)
      BY DEF Classify, AfterPlan, Goto, ScaffoldTypes, Beside
    <2> QED BY <2>1, OtherRunsKeep
  <1>4. CASE Goto(p, "failed") /\ UNCHANGED <<kind, seen, at, known>>
    <2>1. ScaffoldTypes'
      BY <1>2, <1>4 DEF ScaffoldTypes, Goto, Ended
    <2>2. RunInv(p)'
      BY <1>1, <1>2, <1>4 DEF ScaffoldTypes, Goto, RunInv, WrittenInOrder, RunProgress, KnownIsTrue,
         PlanIsFounded, Changes, Content
    <2> QED BY <1>3, <2>1, <2>2
  <1>5. CASE /\ kind' = [kind EXCEPT ![p][f] = Kind(p, f)]
             /\ seen' = [seen EXCEPT ![p][f] = disk[f]]
             /\ known' = [known EXCEPT ![p] = @ \cup {f}]
             /\ IF f = NFiles
                THEN AfterPlan(p) /\ UNCHANGED at
                ELSE at' = [at EXCEPT ![p] = f + 1] /\ UNCHANGED pc
    <2>1. Kind(p, f) \in {"create", "modify", "skip", "conflict"}
      BY DEF Kind
    <2>2. at' \in [Runs -> Files]
      <3>1. f # NFiles => f + 1 \in Files
        BY <1>1, FilesAssumption DEF Files
      <3> QED BY <1>5, <3>1 DEF ScaffoldTypes
    <2>3. \/ pc' = pc
          \/ pc' = [pc EXCEPT ![p] = "refused"]
          \/ pc' = [pc EXCEPT ![p] = "write"] /\ \A g \in Files : kind'[p][g] # "conflict"
      <3>1. AfterPlan(p) \/ UNCHANGED pc
        BY <1>5
      <3> QED BY <3>1 DEF AfterPlan, Goto
    <2>4. ScaffoldTypes'
      <3>1. pc' \in [Runs -> {"idle", "plan", "write", "rollback"} \cup Ended]
        BY <2>3 DEF ScaffoldTypes, Ended
      <3>2. kind' \in [Runs -> [Files -> {"create", "modify", "skip", "conflict"}]]
        BY <1>1, <1>5, <2>1 DEF ScaffoldTypes
      <3>3. seen' \in [Runs -> [Files -> Contents]] /\ known' \in [Runs -> SUBSET Files]
        BY <1>1, <1>5 DEF ScaffoldTypes
      <3> QED BY <1>2, <2>2, <3>1, <3>2, <3>3 DEF ScaffoldTypes
    <2>5. /\ kind'[p][f] = Kind(p, f) /\ seen'[p][f] = disk[f] /\ known'[p] = known[p] \cup {f}
          /\ \A g \in Files \ {f} : kind'[p][g] = kind[p][g] /\ seen'[p][g] = seen[p][g]
      BY <1>1, <1>5 DEF ScaffoldTypes
    <2>6. \A g \in Files : Content(p, g)' = Content(p, g)
      BY <1>2 DEF Content
    <2>7. WrittenInOrder(p)'
      BY <1>1, <1>2 DEF WrittenInOrder
    <2>8. RunProgress(p)'
      BY <1>1, <1>2, <2>3 DEF RunProgress, ScaffoldTypes
    <2>9. KnownIsTrue(p)'
      BY <1>1, <1>2, <2>5, <2>6 DEF RunInv, KnownIsTrue, ScaffoldTypes
    <2>10. PlanIsFounded(p)'
      <3> SUFFICES ASSUME NEW g \in known'[p]
                   PROVE  /\ kind'[p][g] = "create" => seen'[p][g] = Absent
                          /\ kind'[p][g] = "skip" /\ intent'[p][g] # "none" =>
                               seen'[p][g] = Content(p, g)'
                          /\ kind'[p][g] \in {"create", "modify"} => seen'[p][g] # Content(p, g)'
                          /\ kind'[p][g] = "modify" =>
                               \/ intent'[p][g] = "force"
                               \/ intent'[p][g] = "edit" /\ seen'[p][g] = source'[p][g]
        BY DEF PlanIsFounded
      <3>1. CASE g = f
        <4>1. kind'[p][g] = "create" => disk[f] = Absent
          BY <2>5, <3>1 DEF Kind
        <4> QED BY <1>1, <1>2, <2>5, <2>6, <3>1, <4>1 DEF Kind
      <3>2. CASE g # f
        <4>1. g \in known[p] /\ g \in Files
          BY <2>5, <3>2 DEF ScaffoldTypes
        <4> QED BY <1>1, <1>2, <2>5, <2>6, <3>2, <4>1 DEF RunInv, PlanIsFounded
      <3> QED BY <3>1, <3>2
    <2> QED BY <1>3, <2>4, <2>7, <2>8, <2>9, <2>10 DEF RunInv
  <1> QED BY <1>4, <1>5 DEF Classify

\* A run that stops where it is.
LEMMA EndKeeps ==
  ASSUME ScaffoldInv, NEW p \in Runs, NEW to \in Ended \cup {"rollback"}, Goto(p, to),
         UNCHANGED <<disk, plan, applied, known>>,
         to \in {"refused", "failed"} => applied[p] = {},
         to = "done" => pc[p] = "write" /\ Todo(p) = {}
  PROVE  ScaffoldInv'
  <1> USE DEF ScaffoldInv, plan
  <1>1. ScaffoldTypes'
    BY DEF ScaffoldTypes, Goto
  <1>2. RunInv(p)'
    <2>1. pc'[p] = to /\ RunInv(p) /\ pc'[p] \notin {"idle", "plan", "write"}
      BY DEF ScaffoldTypes, Goto, Ended
    <2> QED BY <2>1 DEF RunInv, WrittenInOrder, RunProgress, KnownIsTrue, PlanIsFounded, Changes,
               Content, Todo
  <1>3. ASSUME NEW q \in Runs \ {p} PROVE RunInv(q)'
    <2>1. Beside(q)
      BY DEF Goto, ScaffoldTypes, Beside
    <2> QED BY <2>1, OtherRunsKeep
  <1> QED BY <1>1, <1>2, <1>3

\* The next file to write is a change, and all changes before it are written.
LEMMA NextToWrite ==
  ASSUME ScaffoldTypes, NEW p \in Runs, Todo(p) # {}
  PROVE  /\ Min(Todo(p)) \in Todo(p) /\ Min(Todo(p)) \in Files
         /\ \A g \in Todo(p) : Min(Todo(p)) =< g
  <1>1. Todo(p) \in SUBSET Nat /\ Todo(p) \subseteq Files
    BY DEF Todo, Changes, Files
  <1> QED BY <1>1, MinIsSmallest

LEMMA NextToUndo ==
  ASSUME ScaffoldTypes, NEW p \in Runs, applied[p] # {}
  PROVE  /\ NextUndone(p) \in applied[p] /\ NextUndone(p) \in Files
         /\ \A g \in applied[p] : NextUndone(p) >= g
  <1>1. applied[p] \in SUBSET (1..NFiles) /\ NFiles \in Nat
    BY FilesAssumption DEF ScaffoldTypes, Files
  <1> QED BY <1>1, MaxIsLargest DEF NextUndone, Files

LEMMA WriteKeeps ==
  ASSUME ScaffoldInv, NEW p \in Runs, Write(p) PROVE ScaffoldInv'
  <1> USE DEF ScaffoldInv
  <1> DEFINE f == Min(Todo(p))
  <1>1. f \in Todo(p) /\ f \in Files /\ \A g \in Todo(p) : f =< g
    BY NextToWrite DEF Write
  <1>2. CASE Goto(p, "rollback") /\ UNCHANGED <<disk, applied, known>>
    BY <1>2, EndKeeps DEF Write, Ended
  <1>3. CASE /\ Put(p, f, Content(p, f))
             /\ applied' = [applied EXCEPT ![p] = @ \cup {f}]
             /\ UNCHANGED pc
    <2>1. UNCHANGED <<pc, intent, source, kind, seen, at>>
      BY <1>3 DEF Write, plan
    <2>2. Content(p, f) \in Contents
      BY DEF Content, Contents, Foreign
    <2>3. /\ disk' \in [Files -> Contents] /\ known' \in [Runs -> SUBSET Files]
          /\ disk'[f] = Content(p, f) /\ \A g \in Files \ {f} : disk'[g] = disk[g]
          /\ known'[p] = known[p]
          /\ \A q \in Runs \ {p} : known'[q] \subseteq known[q] /\ f \notin known'[q]
      BY <1>1, <1>3, <2>2, PutIsSeen
    <2>4. /\ applied'[p] = applied[p] \cup {f}
          /\ \A q \in Runs \ {p} : applied'[q] = applied[q]
          /\ applied' \in [Runs -> SUBSET Files]
      BY <1>1, <1>3 DEF ScaffoldTypes
    <2>5. ScaffoldTypes'
      BY <2>1, <2>3, <2>4 DEF ScaffoldTypes
    <2>6. ASSUME NEW q \in Runs \ {p} PROVE RunInv(q)'
      <3>1. known[q] \subseteq Files
        BY DEF ScaffoldTypes
      <3>2. Beside(q)
        BY <2>1, <2>3, <2>4, <3>1 DEF Beside
      <3> QED BY <3>2, OtherRunsKeep
    <2>7. pc[p] = "write" /\ RunInv(p)
      BY DEF Write
    <2>8. WrittenInOrder(p)'
      <3>1. f \in Changes(p) /\ \A g \in Changes(p) : g < f => g \in applied[p]
        BY <1>1 DEF Todo, Changes, Files
      <3>2. Changes(p)' = Changes(p)
        BY <2>1 DEF Changes
      <3> QED BY <2>4, <2>7, <3>1, <3>2 DEF RunInv, WrittenInOrder
    <2>9. RunProgress(p)'
      BY <2>1, <2>7 DEF RunInv, RunProgress
    <2>10. KnownIsTrue(p)' /\ PlanIsFounded(p)'
      <3>1. known[p] \subseteq Files /\ \A g \in Files : Content(p, g)' = Content(p, g)
        BY <2>1 DEF Content, ScaffoldTypes
      <3> QED BY <2>1, <2>3, <2>4, <2>7, <3>1 DEF RunInv, KnownIsTrue, PlanIsFounded
    <2> QED BY <2>5, <2>6, <2>8, <2>9, <2>10 DEF RunInv
  <1> QED BY <1>2, <1>3 DEF Write, AtomicWrite

LEMMA RollbackKeeps ==
  ASSUME ScaffoldInv, NEW p \in Runs, Rollback(p) PROVE ScaffoldInv'
  <1> USE DEF ScaffoldInv
  <1> DEFINE f == NextUndone(p)
             c == IF kind[p][f] = "create" THEN Absent ELSE seen[p][f]
  <1>1. f \in applied[p] /\ f \in Files /\ \A g \in applied[p] : f >= g
    BY NextToUndo DEF Rollback
  <1>2. CASE Goto(p, "halfway") /\ UNCHANGED <<disk, applied, known>>
    BY <1>2, EndKeeps DEF Rollback, Ended
  <1>3. CASE /\ Put(p, f, c)
             /\ applied' = [applied EXCEPT ![p] = @ \ {f}]
             /\ UNCHANGED pc
    <2>1. UNCHANGED <<pc, intent, source, kind, seen, at>>
      BY <1>3 DEF Rollback, plan
    <2>2. c \in Contents
      BY <1>1 DEF ScaffoldTypes, Contents
    <2>3. /\ disk' \in [Files -> Contents] /\ known' \in [Runs -> SUBSET Files]
          /\ disk'[f] = c /\ \A g \in Files \ {f} : disk'[g] = disk[g]
          /\ known'[p] = known[p]
          /\ \A q \in Runs \ {p} : known'[q] \subseteq known[q] /\ f \notin known'[q]
      BY <1>1, <1>3, <2>2, PutIsSeen
    <2>4. /\ applied'[p] = applied[p] \ {f}
          /\ \A q \in Runs \ {p} : applied'[q] = applied[q]
          /\ applied' \in [Runs -> SUBSET Files]
      BY <1>1, <1>3 DEF ScaffoldTypes
    <2>5. ScaffoldTypes'
      BY <2>1, <2>3, <2>4 DEF ScaffoldTypes
    <2>6. ASSUME NEW q \in Runs \ {p} PROVE RunInv(q)'
      <3>1. known[q] \subseteq Files
        BY DEF ScaffoldTypes
      <3>2. Beside(q)
        BY <2>1, <2>3, <2>4, <3>1 DEF Beside
      <3> QED BY <3>2, OtherRunsKeep
    <2>7. pc[p] = "rollback" /\ RunInv(p)
      BY DEF Rollback
    <2>8. WrittenInOrder(p)'
      <3>1. Changes(p)' = Changes(p)
        BY <2>1 DEF Changes
      <3>2. \A g \in applied'[p] : g < f
        BY <1>1, <2>4 DEF ScaffoldTypes, Files
      <3>3. \A g, h \in Changes(p) : h \in applied'[p] /\ g < h => g # f
        BY <1>1, <3>2 DEF Changes, Files
      <3> QED BY <2>4, <2>7, <3>1, <3>3 DEF RunInv, WrittenInOrder
    <2>9. RunProgress(p)'
      BY <2>1, <2>7 DEF RunInv, RunProgress
    <2>10. KnownIsTrue(p)' /\ PlanIsFounded(p)'
      <3>1. known[p] \subseteq Files /\ \A g \in Files : Content(p, g)' = Content(p, g)
        BY <2>1 DEF Content, ScaffoldTypes
      <3>2. f \in known[p] => c = seen[p][f]
        BY <2>7 DEF RunInv, PlanIsFounded
      <3> QED BY <2>1, <2>3, <2>4, <2>7, <3>1, <3>2 DEF RunInv, KnownIsTrue, PlanIsFounded
    <2> QED BY <2>5, <2>6, <2>8, <2>9, <2>10 DEF RunInv
  <1> QED BY <1>2, <1>3 DEF Rollback

LEMMA SomebodyKeeps ==
  ASSUME ScaffoldInv, NEW f \in Files, SomebodyEdits(f) PROVE ScaffoldInv'
  <1> USE DEF ScaffoldInv
  <1>1. PICK c \in {"edited", Absent} : disk' = [disk EXCEPT ![f] = c]
    BY DEF SomebodyEdits
  <1>2. /\ \A q \in Runs : known'[q] \subseteq known[q] /\ f \notin known'[q]
        /\ known' \in [Runs -> SUBSET Files]
        /\ \A g \in Files \ {f} : disk'[g] = disk[g]
    BY <1>1 DEF SomebodyEdits, ScaffoldTypes
  <1>3. ScaffoldTypes'
    BY <1>1, <1>2 DEF SomebodyEdits, plan, ScaffoldTypes, Contents, Foreign
  <1>4. ASSUME NEW q \in Runs PROVE RunInv(q)'
    <2>1. known[q] \subseteq Files
      BY DEF ScaffoldTypes
    <2>2. Beside(q)
      BY <1>2, <2>1 DEF Beside, SomebodyEdits, plan
    <2> QED BY <2>2, OtherRunsKeep
  <1> QED BY <1>3, <1>4

LEMMA ScaffoldStep == ScaffoldInv /\ [Next]_vars => ScaffoldInv'
  <1> SUFFICES ASSUME ScaffoldInv, [Next]_vars PROVE ScaffoldInv'
    OBVIOUS
  <1>1. ASSUME NEW p \in Runs, Decline(p) \/ Finish(p) \/ Rethrow(p) \/ Kill(p) PROVE ScaffoldInv'
    <2>1. CASE Decline(p)
      BY <2>1, EndKeeps DEF Decline, Ended
    <2>2. CASE Finish(p)
      BY <2>2, EndKeeps DEF Finish, Ended
    <2>3. CASE Rethrow(p)
      BY <2>3, EndKeeps DEF Rethrow, Ended
    <2>4. CASE Kill(p)
      BY <2>4, EndKeeps DEF Kill, Ended
    <2> QED BY <1>1, <2>1, <2>2, <2>3, <2>4
  <1>2. CASE UNCHANGED vars
    <2>1. \A p \in Runs : Beside(p)
      BY <1>2 DEF vars, plan, Beside
    <2>2. ScaffoldTypes'
      BY <1>2 DEF ScaffoldInv, ScaffoldTypes, vars, plan
    <2> QED BY <2>1, <2>2, OtherRunsKeep DEF ScaffoldInv
  <1> QED BY <1>1, <1>2, StartKeeps, ClassifyKeeps, WriteKeeps, RollbackKeeps, SomebodyKeeps DEF Next

\* What the invariant says of a run that has ended.
LEMMA OutcomesAreTrue == ScaffoldInv => OutcomeIsTrue
  <1> SUFFICES ASSUME ScaffoldInv, NEW p \in Runs, NEW f \in known[p]
               PROVE  /\ pc[p] \in {"failed", "refused"} => disk[f] = seen[p][f]
                      /\ pc[p] = "done" /\ intent[p][f] # "none" => disk[f] = Content(p, f)
                      /\ \A g \in known[p] \cap Changes(p) :
                           f \in Changes(p) /\ f < g /\ disk[g] = Content(p, g)
                             => disk[f] = Content(p, f)
    BY DEF OutcomeIsTrue
  <1>1. RunInv(p) /\ f \in Files /\ known[p] \subseteq Files
    BY DEF ScaffoldInv, ScaffoldTypes
  <1>2. kind[p][f] \in {"create", "modify", "skip", "conflict"}
    BY <1>1 DEF ScaffoldInv, ScaffoldTypes
  <1>3. pc[p] \in {"failed", "refused"} => disk[f] = seen[p][f]
    BY <1>1 DEF RunInv, RunProgress, KnownIsTrue
  <1>4. pc[p] = "done" /\ intent[p][f] # "none" => disk[f] = Content(p, f)
    <2> SUFFICES ASSUME pc[p] = "done", intent[p][f] # "none" PROVE disk[f] = Content(p, f)
      OBVIOUS
    <2>1. CASE f \in applied[p]
      BY <1>1, <2>1 DEF RunInv, KnownIsTrue
    <2>2. CASE f \notin applied[p]
      <3>1. kind[p][f] = "skip"
        BY <1>1, <1>2, <2>2 DEF RunInv, RunProgress, Changes
      <3> QED BY <1>1, <2>2, <3>1 DEF RunInv, KnownIsTrue, PlanIsFounded
    <2> QED BY <2>1, <2>2
  <1>5. ASSUME NEW g \in known[p] \cap Changes(p), f \in Changes(p), f < g, disk[g] = Content(p, g)
        PROVE  disk[f] = Content(p, f)
    <2>1. g \in applied[p]
      BY <1>1, <1>5 DEF RunInv, KnownIsTrue, PlanIsFounded, Changes
    <2>2. f \in applied[p]
      BY <1>1, <1>5, <2>1 DEF RunInv, WrittenInOrder
    <2> QED BY <1>1, <2>2 DEF RunInv, KnownIsTrue
  <1> QED BY <1>3, <1>4, <1>5

\* Only a write adds to what is applied, and its plan was founded.
LEMMA WritesAreAllowed ==
  ASSUME ScaffoldInv, [Next]_vars, NEW p \in Runs, NEW f \in applied'[p] \ applied[p],
         f \in known[p], disk[f] \in Foreign
  PROVE  Allowed(p, f)
  <1>1. Write(p) /\ f = Min(Todo(p))
    <2>1. ASSUME NEW q \in Runs, Write(q) PROVE Write(p) /\ f = Min(Todo(p))
      <3>1. \/ applied'[p] = applied[p]
            \/ p = q /\ applied'[p] = applied[p] \cup {Min(Todo(p))}
        BY <2>1 DEF ScaffoldInv, ScaffoldTypes, Write, AtomicWrite
      <3> QED BY <2>1, <3>1
    <2>2. ASSUME NEW q \in Runs, Rollback(q) PROVE FALSE
      BY <2>2 DEF ScaffoldInv, ScaffoldTypes, Rollback
    <2>3. applied' # applied
      OBVIOUS
    <2> QED BY <2>1, <2>2, <2>3
            DEF Next, vars, Start, Classify, Decline, Finish, Rethrow, Kill, SomebodyEdits
  <1>2. f \in Todo(p)
    BY <1>1, NextToWrite DEF ScaffoldInv, Write
  <1>3. RunInv(p) /\ disk[f] = seen[p][f]
    BY DEF ScaffoldInv, RunInv, KnownIsTrue
  <1>4. kind[p][f] # "create"
    BY <1>3, AbsentAssumption DEF RunInv, PlanIsFounded
  <1>5. kind[p][f] = "modify"
    BY <1>2, <1>4 DEF Todo, Changes
  <1> QED BY <1>3, <1>5 DEF RunInv, PlanIsFounded, Allowed

\* The inductive invariant of the scaffolding transaction holds throughout.
THEOREM ScaffoldInvariance == CliSpec => []ScaffoldInv
  <1>1. CliInit => ScaffoldInv
    BY ScaffoldStarts DEF CliInit
  <1>2. ScaffoldInv /\ [CliNext]_cli => ScaffoldInv'
    <2>1. [CliNext]_cli => [Next]_vars
      BY DEF CliNext, cli
    <2> QED BY <2>1, ScaffoldStep
  <1> QED BY <1>1, <1>2, PTL DEF CliSpec

\* A run that ends without having written holds no change, one that ends well
\* all of its own, and any run a first part of them.
THEOREM OutcomesAreTold == CliSpec => []OutcomeIsTrue
  BY ScaffoldInvariance, OutcomesAreTrue, PTL

\* A run replaces somebody's file only where it was told to or found the content
\* it had started from.
THEOREM ReplacementsAreAllowed == CliSpec => ReplacesWhatItPlanned
  <1> DEFINE Founded == \A p \in Runs : \A f \in applied'[p] \ applied[p] :
                          f \in known[p] /\ disk[f] \in Foreign => Allowed(p, f)
  <1>1. ScaffoldInv /\ [CliNext]_cli => [Founded]_vars
    <2>1. [CliNext]_cli => [Next]_vars
      BY DEF CliNext, cli
    <2>2. ScaffoldInv /\ [Next]_vars => Founded
      BY WritesAreAllowed
    <2> QED BY <2>1, <2>2
  <1> QED BY <1>1, ScaffoldInvariance, PTL DEF CliSpec, ReplacesWhatItPlanned

-----------------------------------------------------------------------------
(* The life of a project: what the commands and the users leave on disk.       *)

\* Where init looks for an auth module.

Places == ToSet(AuthPlaces)

HostIsTold == {"alias", "rootLayout", "provider", "pages"} \subseteq DOMAIN host

\* What the config says is in use.
ConfigIsTold ==
  Exists(Config) =>
    /\ DOMAIN files[Config] = {"admin", "api", "auth", "live", "ejected"}
    /\ files[Config].admin \in Mounts \cup {Dynamic}
    /\ files[Config].api \in Apis \cup {Dynamic}
    /\ files[Config].live \cup files[Config].ejected \subseteq Pieces

\* A project has one auth module where init looks, and what a template wrote is
\* the stub or the preset.
ModulesAreTold ==
  /\ \A v, w \in Places : Exists(Module(v)) /\ Exists(Module(w)) => v = w
  /\ \A where : Exists(Module(where)) /\ files[Module(where)] \in OfTemplates =>
       \/ where = StubFile /\ files[Module(where)] \in {"closed", "dev"}
       \/ where = SessionFile /\ files[Module(where)] = "preset"

\* Nobody but eject writes its pages.
PartsAreEjected ==
  \A name \in Pieces : \A f \in ToSet(PartsOf(name)) :
    Exists(f) => files[f] \in {"ejected", "edited"}

\* What the files of `init` hold, as far as they are there.
InitFiles(mount, api, preset) ==
  /\ \A f \in {Page(mount), Api(api), Sse(api), Css, Migration} :
       Exists(f) => files[f] = "generated"
  /\ Exists(Layout(mount)) => files[Layout(mount)] = IF host.rootLayout THEN "inner" ELSE "root"
  /\ preset /\ Exists(Module(SessionFile)) => files[Module(SessionFile)] = "preset"

ConfigOfInit(o, mount, api) ==
  [admin |-> mount, api |-> api, auth |-> AuthOf(o), live |-> {}, ejected |-> {}]

\* The same init finds its mount, page and session module again.
FindsItself(o, mount, api) ==
  /\ Exists(Config) /\ files[Config] = ConfigOfInit(o, mount, api)
  /\ ~Overlap(mount, api) /\ o.path \in {Missing, mount}
  /\ ForeignRoutes(mount) = {}
  /\ InitFiles(mount, api, Presets(o))
  /\ AuthResolves(o)

SettledFindsItself ==
  settled # Missing =>
    /\ settled \in InitOptions
    /\ \E mount \in Mounts, api \in Apis : FindsItself(settled, mount, api)

SetupInv ==
  /\ HostIsTold /\ ConfigIsTold /\ ModulesAreTold /\ PartsAreEjected
  /\ SettledFindsItself /\ PraiseIsTrue /\ EjectedHasPages

LEMMA KindsDiffer ==
  /\ Config[1] = "config" /\ Css[1] = "css" /\ Migration[1] = "migration"
  /\ \A x : /\ Page(x)[1] = "page" /\ Page(x)[2] = x
            /\ Layout(x)[1] = "layout" /\ Layout(x)[2] = x
            /\ Api(x)[1] = "api" /\ Api(x)[2] = x
            /\ Sse(x)[1] = "sse" /\ Sse(x)[2] = x
            /\ Module(x)[1] = "module" /\ Module(x)[2] = x
  /\ \A part, name : Ejected(part, name)[1] = part /\ Ejected(part, name)[2] = <<name>>
  BY DEF Config, Css, Migration, Page, Layout, Api, Sse, Module, Ejected

\* A file below src/ and the same below the root.
LEMMA SourceIsAbove ==
  \A s \in {<<"server", "lib", "auth">>, <<"server", "lib", "flowpanel-session">>,
            <<"lib", "auth">>, <<"auth">>} :
    /\ s \in Seq(Segments) /\ Head(s) # "src"
    /\ <<"src">> \o s \in Seq(Segments) /\ Head(<<"src">> \o s) = "src" /\ Tail(<<"src">> \o s) = s
  <1>1. \A s \in Seq(Segments) : /\ <<"src">> \o s \in Seq(Segments)
                                 /\ Head(<<"src">> \o s) = "src" /\ Tail(<<"src">> \o s) = s
    BY DEF Segments
  <1>2. /\ <<"server", "lib", "auth">> \in Seq(Segments)
        /\ <<"server", "lib", "flowpanel-session">> \in Seq(Segments)
        /\ <<"lib", "auth">> \in Seq(Segments) /\ <<"auth">> \in Seq(Segments)
    BY DEF Segments
  <1>3. /\ Head(<<"server", "lib", "auth">>) # "src"
        /\ Head(<<"server", "lib", "flowpanel-session">>) # "src"
        /\ Head(<<"lib", "auth">>) # "src" /\ Head(<<"auth">>) # "src"
    OBVIOUS
  <1> QED BY <1>1, <1>2, <1>3

LEMMA SourceIsPrefixed ==
  /\ <<"src">> \o <<"server", "lib", "auth">> = <<"src", "server", "lib", "auth">>
  /\ <<"src">> \o <<"lib", "auth">> = <<"src", "lib", "auth">>
  /\ <<"src">> \o <<"auth">> = <<"src", "auth">>
  /\ <<"src">> \o <<"server", "lib", "flowpanel-session">>
       = <<"src", "server", "lib", "flowpanel-session">>
  <1>1. \A s : s \in Seq(Segments) /\ s # <<>> /\ Head(s) = "src" => s = <<"src">> \o Tail(s)
    OBVIOUS
  <1>2. LET s == <<"src", "server", "lib", "auth">> IN
        s \in Seq(Segments) /\ s # <<>> /\ Head(s) = "src" /\ Tail(s) = <<"server", "lib", "auth">>
    BY DEF Segments
  <1>3. LET s == <<"src", "lib", "auth">> IN
        s \in Seq(Segments) /\ s # <<>> /\ Head(s) = "src" /\ Tail(s) = <<"lib", "auth">>
    BY DEF Segments
  <1>4. LET s == <<"src", "auth">> IN
        s \in Seq(Segments) /\ s # <<>> /\ Head(s) = "src" /\ Tail(s) = <<"auth">>
    BY DEF Segments
  <1>5. LET s == <<"src", "server", "lib", "flowpanel-session">> IN
        /\ s \in Seq(Segments) /\ s # <<>> /\ Head(s) = "src"
        /\ Tail(s) = <<"server", "lib", "flowpanel-session">>
    BY DEF Segments
  <1> QED BY <1>1, <1>2, <1>3, <1>4, <1>5

LEMMA PlacesAre ==
  /\ <<"server", "lib", "auth">> \in Places
  /\ \A w \in Places : \E s \in {<<"server", "lib", "auth">>, <<"lib", "auth">>, <<"auth">>} :
       (w = s \/ w = <<"src">> \o s) /\ <<"src">> \o s \in Places
  /\ <<"src">> \o <<"server", "lib", "auth">> \in Places
  /\ DOMAIN AuthPlaces = 1..5
  /\ \A w \in Places : \E i \in 1..5 : w = AuthPlaces[i]
  /\ \A i \in 1..5 : AuthPlaces[i] \in Places
  <1>1. DOMAIN AuthPlaces = 1..5
    BY DEF AuthPlaces
  <1>2. Places = {AuthPlaces[i] : i \in 1..5}
    BY <1>1 DEF Places, ToSet
  <1>3. /\ AuthPlaces[1] = <<"src", "server", "lib", "auth">>
        /\ AuthPlaces[2] = <<"src", "lib", "auth">>
        /\ AuthPlaces[3] = <<"server", "lib", "auth">>
        /\ AuthPlaces[4] = <<"lib", "auth">>
        /\ AuthPlaces[5] = <<"src", "auth">>
    BY DEF AuthPlaces
  <1>4. Places = {AuthPlaces[1], AuthPlaces[2], AuthPlaces[3], AuthPlaces[4], AuthPlaces[5]}
    BY <1>2
  <1> QED BY <1>1, <1>2, <1>3, <1>4, SourceIsPrefixed

LEMMA SessionIsNoPlace ==
  /\ <<"server", "lib", "flowpanel-session">> \notin Places
  /\ <<"src">> \o <<"server", "lib", "flowpanel-session">> \notin Places
  BY SourceIsPrefixed DEF Places, ToSet, AuthPlaces

LEMMA SpecifiersAreThere ==
  \A s \in Seq(Segments) : [alias |-> host.alias # "none", path |-> s] # Missing
  <1>1. \A b \in BOOLEAN, s \in Seq(Segments) : [alias |-> b, path |-> s] # Missing
    BY ProjectAssumption DEF Specifiers
  <1>2. (host.alias # "none") \in BOOLEAN
    OBVIOUS
  <1> QED BY <1>1, <1>2, Zenon

\* Under an alias of src/, the session module is below src/ like the stub.
LEMMA SpecifiersResolve ==
  /\ StubFile \in Places /\ SessionFile \notin Places
  /\ Resolve(GuessedAuth) = StubFile /\ AliasOf(StubFile) = GuessedAuth
  /\ Resolve(AliasOf(SessionFile)) = SessionFile
  /\ \A w \in Places : Resolve(AliasOf(w)) \in Places /\ AliasOf(w) # Missing
                       /\ AliasOf(w).alias = (host.alias # "none")
  /\ GuessedAuth # Missing /\ AliasOf(SessionFile) # Missing
  /\ GuessedAuth.alias = (host.alias # "none")
  /\ AliasOf(SessionFile).alias = (host.alias # "none")
  <1> DEFINE stub == <<"server", "lib", "auth">>
             session == <<"server", "lib", "flowpanel-session">>
             below == {stub, <<"lib", "auth">>, <<"auth">>}
  <1>1. StubFile \in Places /\ SessionFile \notin Places
    BY PlacesAre, SessionIsNoPlace DEF StubFile, SessionFile, UnderSource
  <1>2. \A s \in below \cup {session} :
          /\ s \in Seq(Segments) /\ Head(s) # "src"
          /\ <<"src">> \o s \in Seq(Segments) /\ Head(<<"src">> \o s) = "src"
          /\ Tail(<<"src">> \o s) = s
    BY SourceIsAbove
  <1>3. \A w \in Places : \E s \in below : (w = s \/ w = <<"src">> \o s) /\ <<"src">> \o s \in Places
    BY PlacesAre
  <1>4. stub \in below
    OBVIOUS
  <1> HIDE DEF below, stub, session
  <1>5. \A w \in Places : w \in Seq(Segments)
    BY <1>2, <1>3
  <1>6. CASE host.alias = "strip-src"
    <2> DEFINE specifier(s) == [alias |-> host.alias # "none", path |-> s]
    <2>4. \A s \in below \cup {session} :
            /\ UnderSource(s) = <<"src">> \o s
            /\ AliasOf(<<"src">> \o s) = specifier(s) /\ AliasOf(s) = specifier(s)
      BY <1>2, <1>6 DEF AliasOf, UnderSource
    <2>5. \A s : specifier(s).path = s /\ specifier(s).alias = (host.alias # "none")
      OBVIOUS
    <2>6. \A s : Resolve(specifier(s)) = <<"src">> \o s
      BY <1>6, <2>5 DEF Resolve
    <2>7. \A s \in Seq(Segments) : specifier(s) # Missing
      BY SpecifiersAreThere
    <2> HIDE DEF specifier
    <2>1. \A s \in below \cup {session} :
            /\ UnderSource(s) = <<"src">> \o s
            /\ AliasOf(<<"src">> \o s) = specifier(s) /\ AliasOf(s) = specifier(s)
            /\ specifier(s).alias = (host.alias # "none")
            /\ Resolve(specifier(s)) = <<"src">> \o s /\ specifier(s) # Missing
      BY <1>2, <2>4, <2>5, <2>6, <2>7
    <2>2. StubFile = <<"src">> \o stub /\ SessionFile = <<"src">> \o session
          /\ GuessedAuth = AliasOf(stub)
      BY <1>4, <2>1 DEF StubFile, SessionFile, GuessedAuth, stub, session
    <2>3. \A w \in Places : Resolve(AliasOf(w)) \in Places /\ AliasOf(w) # Missing
                          /\ AliasOf(w).alias = (host.alias # "none")
      BY <1>3, <1>6, <2>1
    <2> QED BY <1>1, <1>4, <1>6, <2>1, <2>2, <2>3
  <1>7. CASE host.alias # "strip-src"
    <2>3. \A s : UnderSource(s) = s /\ AliasOf(s) = [alias |-> host.alias # "none", path |-> s]
      BY <1>7 DEF AliasOf, UnderSource
    <2>4. \A s : AliasOf(s).path = s /\ AliasOf(s).alias = (host.alias # "none")
      BY <2>3
    <2>5. \A s \in Seq(Segments) : AliasOf(s) # Missing
      BY <2>3, SpecifiersAreThere
    <2>1. \A s \in Seq(Segments) :
            /\ UnderSource(s) = s
            /\ Resolve(AliasOf(s)) = s /\ AliasOf(s) # Missing
            /\ AliasOf(s).alias = (host.alias # "none")
      BY <1>7, <2>3, <2>4, <2>5 DEF Resolve
    <2>2. StubFile = stub /\ SessionFile = session /\ GuessedAuth = AliasOf(stub)
      BY <1>2, <1>4, <2>1 DEF StubFile, SessionFile, GuessedAuth, stub, session
    <2> QED BY <1>1, <1>2, <1>4, <1>5, <2>1, <2>2
  <1> QED BY <1>6, <1>7

\* DetectedAuth is the first module where init looks, if any.
DetectedIsFirst ==
  /\ (\A w \in Places : ~Exists(Module(w))) => DetectedAuth = Missing
  /\ (\E w \in Places : Exists(Module(w))) =>
       \E w \in Places : Exists(Module(w)) /\ DetectedAuth = AliasOf(w)

LEMMA DetectedIsThere == DetectedIsFirst
  <1> DEFINE found == {i \in DOMAIN AuthPlaces : Exists(Module(AuthPlaces[i]))}
             first == CHOOSE i \in found : \A j \in found : i <= j
  <1>1. (\A w \in Places : ~Exists(Module(w))) => found = {}
    BY PlacesAre
  <1>2. ASSUME NEW w \in Places, Exists(Module(w))
        PROVE  \E v \in Places : Exists(Module(v)) /\ DetectedAuth = AliasOf(v)
    <2>1. PICK i \in 1..5 : i \in found
      BY <1>2, PlacesAre
    <2>2. found \subseteq 1..5
      BY PlacesAre
    <2> HIDE DEF found
    <2>3. \E k \in found : \A j \in found : k <= j
      <3>1. CASE 1 \in found
        BY <2>2, <3>1
      <3>2. CASE 1 \notin found /\ 2 \in found
        BY <2>2, <3>2
      <3>3. CASE 1 \notin found /\ 2 \notin found /\ 3 \in found
        BY <2>2, <3>3
      <3>4. CASE 1 \notin found /\ 2 \notin found /\ 3 \notin found /\ 4 \in found
        BY <2>2, <3>4
      <3>5. CASE 1 \notin found /\ 2 \notin found /\ 3 \notin found /\ 4 \notin found
        BY <2>1, <2>2, <3>5
      <3> QED BY <3>1, <3>2, <3>3, <3>4, <3>5
    <2>4. first \in found
      BY <2>3
    <2>5. AuthPlaces[first] \in Places /\ Exists(Module(AuthPlaces[first]))
      BY <2>2, <2>4, PlacesAre DEF found
    <2>6. DetectedAuth = AliasOf(AuthPlaces[first])
      BY <2>1 DEF DetectedAuth, found
    <2> QED BY <2>5, <2>6
  <1> QED BY <1>1, <1>2 DEF DetectedAuth, DetectedIsFirst

\* What exports getSession is there; a module init wrote does.
LEMMA ExportsAreThere ==
  /\ \A x : "getSession" \in ExportsOf(x) => x # Missing /\ Exists(Module(Resolve(x)))
  /\ \A x : x # Missing /\ x.alias = (host.alias # "none")
            => ExportsOf(x) = Exports(ContentOf(Module(Resolve(x))))
  /\ \A c \in {"getSession", "closed", "dev", "preset"} : Exports(c) = {"getSession"}
  <1>1. "getSession" \notin Exports(Missing)
    BY ProjectAssumption DEF Exports, OfTemplates, OfOthers
  <1>2. \A x : "getSession" \in ExportsOf(x) => x # Missing /\ Exists(Module(Resolve(x)))
    BY <1>1 DEF ExportsOf, ContentOf
  <1>3. \A x : x # Missing /\ x.alias = (host.alias # "none")
              => ExportsOf(x) = Exports(ContentOf(Module(Resolve(x))))
    BY DEF ExportsOf
  <1> QED BY <1>2, <1>3 DEF Exports

\* With one auth module, it is the one detected.
LEMMA OneIsDetected ==
  ASSUME ModulesAreTold, NEW w \in Places, Exists(Module(w))
  PROVE  DetectedAuth = AliasOf(w) /\ DetectedAuth # Missing
  BY DetectedIsThere, SpecifiersResolve DEF ModulesAreTold, DetectedIsFirst

\* The auth modules are where they were and export the same.
SameModules ==
  /\ host'.alias = host.alias /\ host'.provider = host.provider
  /\ \A w \in Places :
       /\ Exists(Module(w))' <=> Exists(Module(w))
       /\ Exports(ContentOf(Module(w)))' = Exports(ContentOf(Module(w)))

LEMMA SameAlias ==
  ASSUME host'.alias = host.alias
  PROVE  /\ StubFile' = StubFile /\ SessionFile' = SessionFile /\ GuessedAuth' = GuessedAuth
         /\ \A x : AliasOf(x)' = AliasOf(x) /\ Resolve(x)' = Resolve(x)
  BY DEF StubFile, SessionFile, GuessedAuth, UnderSource, AliasOf, Resolve

LEMMA SameModulesSameAuth ==
  ASSUME SameModules, NEW o
  PROVE  /\ DetectedAuth' = DetectedAuth /\ AuthOf(o)' = AuthOf(o)
         /\ Presets(o)' <=> Presets(o)
         /\ Stubs(o)' <=> Stubs(o)
  <1>1. DetectedAuth' = DetectedAuth
    BY PlacesAre DEF SameModules, DetectedAuth, AliasOf
  <1>2. ExportsOf(DetectedAuth)' = ExportsOf(DetectedAuth)
    <2>1. CASE \A w \in Places : ~Exists(Module(w))
      BY <1>1, <2>1, DetectedIsThere DEF ExportsOf, DetectedIsFirst
    <2>2. CASE \E w \in Places : Exists(Module(w))
      <3>1. PICK w \in Places : DetectedAuth = AliasOf(w)
        BY <2>2, DetectedIsThere DEF DetectedIsFirst
      <3>2. /\ Resolve(DetectedAuth) \in Places /\ DetectedAuth # Missing
            /\ DetectedAuth.alias = (host.alias # "none")
        BY <3>1, SpecifiersResolve
      <3>3. Resolve(DetectedAuth)' = Resolve(DetectedAuth)
        BY <1>1 DEF SameModules, Resolve
      <3>4. /\ ExportsOf(DetectedAuth) = Exports(ContentOf(Module(Resolve(DetectedAuth))))
            /\ ExportsOf(DetectedAuth)' = Exports(ContentOf(Module(Resolve(DetectedAuth))))'
        BY <1>1, <3>2, <3>3 DEF SameModules, ExportsOf
      <3> QED BY <3>2, <3>3, <3>4 DEF SameModules
    <2> QED BY <2>1, <2>2
  <1>3. Presets(o)' <=> Presets(o)
    BY <1>2 DEF Presets, SameModules
  <1>4. AuthOf(o)' = AuthOf(o)
    BY <1>1, <1>3, SameAlias DEF AuthOf, SameModules
  <1> QED BY <1>1, <1>3, <1>4, SameAlias DEF Stubs, SameModules

\* A write that finds nothing else adds files and changes none.
Adds(entries) ==
  /\ \A f \in DOMAIN files : f \in DOMAIN files' /\ files'[f] = files[f]
  /\ \A f \in DOMAIN files' \ DOMAIN files : <<f, files'[f]>> \in entries

LEMMA WritesAdd ==
  ASSUME NEW entries, NEW some \in SUBSET entries, WriteEntries(some),
         \A e \in entries : /\ e = <<e[1], e[2]>>
                            /\ Exists(e[1]) => files[e[1]] = e[2]
  PROVE  Adds(entries) /\ DOMAIN files' = DOMAIN files \cup {e[1] : e \in some}
  <1>1. /\ DOMAIN files' = DOMAIN files \cup {e[1] : e \in some}
        /\ \A f \in DOMAIN files' :
             files'[f] = IF \E e \in some : e[1] = f
                         THEN (CHOOSE e \in some : e[1] = f)[2] ELSE files[f]
    BY DEF WriteEntries
  <1>2. ASSUME NEW f \in DOMAIN files', \E e \in some : e[1] = f
        PROVE  /\ <<f, files'[f]>> \in entries
               /\ f \in DOMAIN files => files'[f] = files[f]
    <2> DEFINE e == CHOOSE e \in some : e[1] = f
    <2>1. e \in some /\ e[1] = f
      BY <1>2
    <2>2. files'[f] = e[2]
      BY <1>1, <1>2
    <2>3. e = <<e[1], e[2]>> /\ (Exists(e[1]) => files[e[1]] = e[2]) /\ e \in entries
      BY <2>1
    <2> HIDE DEF e
    <2> QED BY <2>1, <2>2, <2>3 DEF Exists
  <1>3. ASSUME NEW f \in DOMAIN files', ~\E e \in some : e[1] = f
        PROVE  f \in DOMAIN files /\ files'[f] = files[f]
    BY <1>1, <1>3
  <1> QED BY <1>1, <1>2, <1>3 DEF Adds

LEMMA ToSetConcat ==
  \A S : \A s, t \in Seq(S) :
         /\ s \o t \in Seq(S) /\ ToSet(s \o t) = ToSet(s) \cup ToSet(t)
         /\ Len(s \o t) = Len(s) + Len(t)
         /\ \A i \in 1..Len(s) : (s \o t)[i] = s[i]
         /\ \A i \in 1..Len(t) : (s \o t)[Len(s) + i] = t[i]
         /\ Len(s \o t) >= Len(s) /\ (Len(s) >= 1 => (s \o t)[1] = s[1])
  <1> SUFFICES ASSUME NEW S, NEW s \in Seq(S), NEW t \in Seq(S)
               PROVE  /\ s \o t \in Seq(S) /\ ToSet(s \o t) = ToSet(s) \cup ToSet(t)
                      /\ Len(s \o t) = Len(s) + Len(t)
                      /\ \A i \in 1..Len(s) : (s \o t)[i] = s[i]
                      /\ \A i \in 1..Len(t) : (s \o t)[Len(s) + i] = t[i]
                      /\ Len(s \o t) >= Len(s) /\ (Len(s) >= 1 => (s \o t)[1] = s[1])
    OBVIOUS
  <1>1. /\ s \o t \in Seq(S) /\ Len(s \o t) = Len(s) + Len(t)
        /\ \A i \in 1..Len(s) : (s \o t)[i] = s[i]
        /\ \A i \in 1..Len(t) : (s \o t)[Len(s) + i] = t[i]
    OBVIOUS
  <1>2. ASSUME NEW i \in 1..Len(s \o t) PROVE (s \o t)[i] \in ToSet(s) \cup ToSet(t)
    <2>1. CASE i \in 1..Len(s)
      BY <1>1, <2>1 DEF ToSet
    <2>2. CASE i \notin 1..Len(s)
      <3>1. i - Len(s) \in 1..Len(t) /\ Len(s) + (i - Len(s)) = i
        BY <1>1, <2>2
      <3> QED BY <1>1, <3>1 DEF ToSet
    <2> QED BY <2>1, <2>2
  <1>3. \A i \in 1..Len(s) : s[i] \in ToSet(s \o t)
    BY <1>1 DEF ToSet
  <1>4. \A i \in 1..Len(t) : t[i] \in ToSet(s \o t)
    BY <1>1 DEF ToSet
  <1>5. DOMAIN s = 1..Len(s) /\ DOMAIN t = 1..Len(t) /\ DOMAIN (s \o t) = 1..Len(s \o t)
    BY <1>1
  <1>6. ToSet(s \o t) \subseteq ToSet(s) \cup ToSet(t)
    BY <1>2, <1>5 DEF ToSet
  <1>7. ToSet(s) \cup ToSet(t) \subseteq ToSet(s \o t)
    <2>1. ToSet(s) = {s[i] : i \in 1..Len(s)} /\ ToSet(t) = {t[i] : i \in 1..Len(t)}
      BY <1>5 DEF ToSet
    <2> QED BY <1>3, <1>4, <2>1
  <1>8. Len(s \o t) >= Len(s) /\ (Len(s) >= 1 => (s \o t)[1] = s[1])
    BY <1>1
  <1> QED BY <1>1, <1>6, <1>7, <1>8

InitEntries(o, mount, api) ==
  {<<Config, ConfigOfInit(o, mount, api)>>, <<Page(mount), "generated">>,
   <<Api(api), "generated">>, <<Sse(api), "generated">>,
   <<Css, "generated">>, <<Migration, "generated">>,
   <<Layout(mount), IF host.rootLayout THEN "inner" ELSE "root">>}
  \cup (IF Presets(o) THEN {<<Module(SessionFile), "preset">>}
        ELSE IF Stubs(o) THEN {<<Module(StubFile), IF o.devAuth THEN "dev" ELSE "closed">>}
        ELSE {})

LEMMA InitPlanIs ==
  ASSUME NEW o
  PROVE  /\ ToSet(InitPlan(o)) = InitEntries(o, MountOf(o), ApiOf)
         /\ InitPlan(o)[1] = <<Config, ConfigOfInit(o, MountOf(o), ApiOf)>>
         /\ Len(InitPlan(o)) \in Nat \ {0} /\ DOMAIN InitPlan(o) = 1..Len(InitPlan(o))
  <1> DEFINE S == InitEntries(o, MountOf(o), ApiOf)
             six == << <<Config, ConfigOfInit(o, MountOf(o), ApiOf)>>,
                       <<Page(MountOf(o)), "generated">>, <<Api(ApiOf), "generated">>,
                       <<Sse(ApiOf), "generated">>, <<Css, "generated">>,
                       <<Migration, "generated">> >>
             module == IF Presets(o) THEN << <<Module(SessionFile), "preset">> >>
                       ELSE IF Stubs(o)
                       THEN << <<Module(StubFile), IF o.devAuth THEN "dev" ELSE "closed">> >>
                       ELSE <<>>
             last == << <<Layout(MountOf(o)), IF host.rootLayout THEN "inner" ELSE "root">> >>
             of == IF Presets(o) THEN {<<Module(SessionFile), "preset">>}
                   ELSE IF Stubs(o)
                   THEN {<<Module(StubFile), IF o.devAuth THEN "dev" ELSE "closed">>}
                   ELSE {}
  <1>1. InitPlan(o) = (six \o module) \o last
    BY DEF InitPlan, ConfigOfInit
  <1>2. /\ six \in Seq(S) /\ Len(six) = 6 /\ six[1] = <<Config, ConfigOfInit(o, MountOf(o), ApiOf)>>
        /\ ToSet(six) = {six[1], six[2], six[3], six[4], six[5], six[6]}
    <2>1. /\ six \in Seq({six[1], six[2], six[3], six[4], six[5], six[6]})
          /\ Len(six) = 6 /\ DOMAIN six = 1..6
      OBVIOUS
    <2>2. {six[1], six[2], six[3], six[4], six[5], six[6]} \subseteq S
      BY DEF InitEntries
    <2> QED BY <2>1, <2>2 DEF ToSet
  <1>3. module \in Seq(S) /\ ToSet(module) = of
    BY DEF InitEntries, ToSet
  <1>4. last \in Seq(S) /\ Len(last) = 1 /\ ToSet(last) = {last[1]}
    BY DEF InitEntries, ToSet
  <1>5. S = {six[1], six[2], six[3], six[4], six[5], six[6], last[1]} \cup of
    BY DEF InitEntries
  <1> HIDE DEF S, six, module, last, of
  <1>6. /\ six \o module \in Seq(S) /\ ToSet(six \o module) = ToSet(six) \cup of
        /\ Len(six \o module) >= 6 /\ (six \o module)[1] = six[1]
    <2>1. /\ six \o module \in Seq(S) /\ ToSet(six \o module) = ToSet(six) \cup ToSet(module)
          /\ Len(six \o module) >= Len(six)
          /\ Len(six) >= 1 => (six \o module)[1] = six[1]
      <3>1. six \in Seq(S) /\ module \in Seq(S)
        BY <1>2, <1>3
      <3> QED BY ONLY <3>1, ToSetConcat
    <2> QED BY <1>2, <1>3, <2>1
  <1>7. /\ InitPlan(o) \in Seq(S)
        /\ ToSet(InitPlan(o)) = ToSet(six \o module) \cup ToSet(last)
        /\ Len(InitPlan(o)) >= 1 /\ InitPlan(o)[1] = (six \o module)[1]
    <2> DEFINE front == six \o module
    <2>1. front \in Seq(S) /\ Len(front) >= 6
      BY <1>6
    <2> HIDE DEF front
    <2>2. /\ front \o last \in Seq(S) /\ ToSet(front \o last) = ToSet(front) \cup ToSet(last)
          /\ Len(front \o last) >= Len(front) /\ Len(front \o last) \in Nat
          /\ Len(front) >= 1 => (front \o last)[1] = front[1]
      BY <1>4, <2>1, ToSetConcat
    <2> QED BY <1>1, <2>1, <2>2 DEF front
  <1>8. ToSet(InitPlan(o)) = S
    BY <1>2, <1>4, <1>5, <1>6, <1>7
  <1>9. Len(InitPlan(o)) \in Nat \ {0} /\ DOMAIN InitPlan(o) = 1..Len(InitPlan(o))
    BY <1>7
  <1> QED BY <1>2, <1>6, <1>7, <1>8, <1>9 DEF S

\* A URL under a mount that ends in one more segment.
LEMMA PrefixOfLonger ==
  ASSUME NEW S, NEW m \in Seq(S), NEW a \in Seq(S), NEW x, IsPrefix(m, a \o <<x>>)
  PROVE  IsPrefix(m, a) \/ IsPrefix(a, m)
  <1>1. \A s, t : /\ s \in Seq(S \cup {x}) /\ t \in Seq(S \cup {x})
                 => (IsPrefix(s, t) <=> /\ Len(s) <= Len(t)
                                        /\ \A i \in 1..Len(s) : s[i] = t[i])
    BY DEF IsPrefix
  <1>2. /\ m \in Seq(S \cup {x}) /\ a \in Seq(S \cup {x}) /\ a \o <<x>> \in Seq(S \cup {x})
        /\ Len(a \o <<x>>) = Len(a) + 1 /\ \A i \in 1..Len(a) : (a \o <<x>>)[i] = a[i]
        /\ Len(m) \in Nat /\ Len(a) \in Nat
    OBVIOUS
  <1>3. Len(m) <= Len(a) + 1 /\ \A i \in 1..Len(m) : m[i] = (a \o <<x>>)[i]
    BY <1>1, <1>2
  <1>4. CASE Len(m) <= Len(a)
    BY <1>1, <1>2, <1>3, <1>4
  <1>5. CASE Len(m) > Len(a)
    BY <1>1, <1>2, <1>3, <1>5
  <1> QED BY <1>2, <1>4, <1>5

LEMMA RoutesOfApi ==
  ASSUME NEW m \in Mounts, NEW a \in Apis, ~Overlap(m, a)
  PROVE  ~IsPrefix(m, a \o <<"[...route]">>) /\ ~IsPrefix(m, a \o <<"stream">>)
  <1>1. m \in Seq(ToSet(m) \cup ToSet(a)) /\ a \in Seq(ToSet(m) \cup ToSet(a))
    BY MountsAssumption
  <1> QED BY <1>1, PrefixOfLonger DEF Overlap

\* A command's own routes leave the mount free of others.
LEMMA RoutesStay ==
  ASSUME NEW m \in Mounts, NEW apis \in SUBSET Apis, \A a \in apis : ~Overlap(m, a),
         ForeignRoutes(m) = {}, host' = host,
         \A f \in DOMAIN files' \ DOMAIN files :
           \/ f = Page(m) \/ \E a \in apis : f \in {Api(a), Sse(a)}
           \/ f[1] \notin {"page", "api", "sse", "list"}
  PROVE  ForeignRoutes(m)' = {}
  <1> SUFFICES ASSUME NEW r \in Routes', IsPrefix(m, r[2]), r[1] # Page(m) PROVE FALSE
    BY DEF ForeignRoutes, RoutesUnder
  <1>1. r \notin Routes
    BY DEF ForeignRoutes, RoutesUnder
  <1>2. ASSUME NEW page \in host.pages, r = <<<<"own", page>>, page.route>> PROVE FALSE
    BY <1>1, <1>2 DEF Routes
  <1>3. ASSUME NEW x \in Mounts, Exists(Page(x))', r = <<Page(x), x \o <<"[[...slug]]">>>> PROVE FALSE
    <2>1. ~Exists(Page(x))
      BY <1>1, <1>3 DEF Routes
    <2>2. Page(x) = Page(m)
      BY <1>3, <2>1, KindsDiffer DEF Exists
    <2> QED BY <1>3, <2>2, KindsDiffer
  <1>4. ASSUME NEW x \in Apis, Exists(Api(x))', r = <<Api(x), x \o <<"[...route]">>>> PROVE FALSE
    <2>1. ~Exists(Api(x))
      BY <1>1, <1>4 DEF Routes
    <2>2. x \in apis
      BY <1>4, <2>1, KindsDiffer DEF Exists
    <2> QED BY <1>4, <2>2, RoutesOfApi
  <1>5. ASSUME NEW x \in Apis, Exists(Sse(x))', r = <<Sse(x), x \o <<"stream">>>> PROVE FALSE
    <2>1. ~Exists(Sse(x))
      BY <1>1, <1>5 DEF Routes
    <2>2. x \in apis
      BY <1>5, <2>1, KindsDiffer DEF Exists
    <2> QED BY <1>5, <2>2, RoutesOfApi
  <1>6. ASSUME NEW name \in Pieces, Exists(Ejected("list", name))',
               r = <<Ejected("list", name), <<"admin", name>>>>
        PROVE  FALSE
    <2>1. ~Exists(Ejected("list", name))
      BY <1>1, <1>6 DEF Routes
    <2> QED BY <1>6, <2>1, KindsDiffer DEF Exists
  <1>7. \/ \E page \in host.pages : r = <<<<"own", page>>, page.route>>
        \/ \E x \in Mounts : Exists(Page(x))' /\ r = <<Page(x), x \o <<"[[...slug]]">>>>
        \/ \E x \in Apis : Exists(Api(x))' /\ r = <<Api(x), x \o <<"[...route]">>>>
        \/ \E x \in Apis : Exists(Sse(x))' /\ r = <<Sse(x), x \o <<"stream">>>>
        \/ \E name \in Pieces : /\ Exists(Ejected("list", name))'
                                /\ r = <<Ejected("list", name), <<"admin", name>>>>
    BY DEF Routes
  <1> QED BY <1>2, <1>3, <1>4, <1>5, <1>6, <1>7

\* A free mount is one where init finds no conflict, if its page is its own.
LEMMA FreeMounts ==
  ASSUME NEW m
  PROVE  /\ Conflicts(m) = {} => ForeignRoutes(m) = {}
         /\ ForeignRoutes(m) = {} /\ (Exists(Page(m)) => files[Page(m)] = "generated")
              => Conflicts(m) = {}
  <1>1. Conflicts(m) = {} => ForeignRoutes(m) = {}
    BY DEF Conflicts, ForeignRoutes, RoutesUnder
  <1>2. ASSUME ForeignRoutes(m) = {}, Exists(Page(m)) => files[Page(m)] = "generated"
        PROVE  Conflicts(m) = {}
    <2>1. CASE Exists(Page(m))
      BY <1>2, <2>1 DEF Conflicts, ForeignRoutes, ContentOf
    <2>2. CASE ~Exists(Page(m))
      <3>1. \A r \in Routes : r[1] # Page(m)
        <4> SUFFICES ASSUME NEW r \in Routes, r[1] = Page(m) PROVE FALSE
          OBVIOUS
        <4>1. r[1][1] = "page" /\ r[1][2] = m
          BY KindsDiffer
        <4>2. ~\E x \in Mounts : Exists(Page(x)) /\ r = <<Page(x), x \o <<"[[...slug]]">>>>
          BY <2>2, <4>1, KindsDiffer
        <4>3. \A page : r # <<<<"own", page>>, page.route>>
          BY <4>1
        <4>4. \A x : /\ r # <<Api(x), x \o <<"[...route]">>>>
                     /\ r # <<Sse(x), x \o <<"stream">>>>
                     /\ r # <<Ejected("list", x), <<"admin", x>>>>
          BY <4>1, KindsDiffer
        <4> QED BY <4>2, <4>3, <4>4 DEF Routes
      <3>2. RoutesUnder(m, {}) = {}
        BY <1>2, <3>1 DEF ForeignRoutes, RoutesUnder
      <3> QED BY <2>2, <3>1, <3>2, <1>2 DEF Conflicts, RoutesUnder, ForeignRoutes
    <2> QED BY <2>1, <2>2
  <1> QED BY <1>1, <1>2

\* init gives a free mount that is no part of the API's.
LEMMA InitMounts ==
  ASSUME ConfigIsTold, NEW o \in InitOptions, InitAdmits(o)
  PROVE  /\ MountOf(o) \in Mounts /\ ApiOf \in Apis /\ ~Overlap(MountOf(o), ApiOf)
         /\ o.path \in {Missing, MountOf(o)} /\ ForeignRoutes(MountOf(o)) = {}
  <1>1. Configured.admin \in Mounts \cup {Dynamic} /\ Configured.api \in Apis \cup {Dynamic, Missing}
    BY MountsAssumption DEF Configured, ConfigIsTold
  <1>2. Wanted(o) \in Mounts /\ ApiOf \in Apis /\ (o.path # Missing => Wanted(o) = o.path)
    BY <1>1, MountsAssumption, ProjectAssumption DEF Wanted, ApiOf, InitAdmits, Static
  <1>3. ForeignRoutes(MountOf(o)) = {}
    BY FreeMounts DEF InitAdmits
  <1>4. CASE MountOf(o) = Wanted(o)
    BY <1>2, <1>3, <1>4 DEF InitAdmits
  <1>5. CASE MountOf(o) # Wanted(o)
    <2>1. MountOf(o) = FallbackAdmin /\ o.path = Missing /\ ~Exists(Config)
      BY <1>5 DEF MountOf
    <2>2. ApiOf = DefaultApi
      BY <2>1 DEF ApiOf, Configured
    <2>3. ~Overlap(FallbackAdmin, DefaultApi)
      <3>1. FallbackAdmin[1] # DefaultApi[1] /\ Len(FallbackAdmin) = 1 /\ Len(DefaultApi) = 2
        BY DEF FallbackAdmin, DefaultApi
      <3>2. /\ FallbackAdmin \in Seq({"flowpanel", "api"}) /\ DefaultApi \in Seq({"flowpanel", "api"})
        BY DEF FallbackAdmin, DefaultApi
      <3>3. \A s, t \in Seq({"flowpanel", "api"}) :
              IsPrefix(s, t) /\ Len(s) >= 1 => s[1] = t[1]
        BY DEF IsPrefix
      <3> QED BY <3>1, <3>2, <3>3 DEF Overlap
    <2> QED BY <1>2, <1>3, <2>1, <2>2, <2>3, MountsAssumption
  <1> QED BY <1>4, <1>5

\* What init writes, all of it or a first part with the config in it.
LEMMA InitAdds ==
  ASSUME NEW o, InitWrites(o)
  PROVE  LET entries == InitEntries(o, MountOf(o), ApiOf) IN
         /\ Adds(entries)
         /\ Config \in DOMAIN files' /\ files'[Config] = ConfigOfInit(o, MountOf(o), ApiOf)
         /\ WriteAll(InitPlan(o)) => \A e \in entries : e[1] \in DOMAIN files'
         /\ \A e \in entries : Exists(e[1]) => files[e[1]] = e[2]
  <1> DEFINE entries == InitEntries(o, MountOf(o), ApiOf)
  <1>1. ToSet(InitPlan(o)) = entries /\ <<Config, ConfigOfInit(o, MountOf(o), ApiOf)>> \in entries
        /\ InitPlan(o)[1] = <<Config, ConfigOfInit(o, MountOf(o), ApiOf)>>
        /\ Len(InitPlan(o)) \in Nat \ {0} /\ DOMAIN InitPlan(o) = 1..Len(InitPlan(o))
    BY InitPlanIs DEF InitEntries
  <1>2. \A e \in entries : e = <<e[1], e[2]>>
    BY DEF InitEntries
  <1>3. \A e \in entries : Exists(e[1]) => files[e[1]] = e[2]
    BY <1>1 DEF InitWrites, InitApplies, Blocked, Differs, ContentOf
  <1>4. \A c : <<Config, c>> \in entries => c = ConfigOfInit(o, MountOf(o), ApiOf)
    BY KindsDiffer DEF InitEntries
  <1>5. PICK some \in SUBSET entries :
          /\ WriteEntries(some) /\ <<Config, ConfigOfInit(o, MountOf(o), ApiOf)>> \in some
          /\ WriteAll(InitPlan(o)) => \A e \in entries : e[1] \in DOMAIN files'
    <2>1. CASE WriteAll(InitPlan(o))
      <3>1. WriteEntries(entries)
        BY <1>1, <2>1 DEF WriteAll
      <3>2. \A e \in entries : e[1] \in DOMAIN files'
        BY <3>1 DEF WriteEntries
      <3> QED BY <1>1, <3>1, <3>2
    <2>2. CASE ~WriteAll(InitPlan(o))
      <3>1. WriteSome(InitPlan(o))
        BY <2>2 DEF InitWrites
      <3>2. PICK n \in 1..Len(InitPlan(o)) : WriteEntries({InitPlan(o)[i] : i \in 1..n})
        BY <3>1 DEF WriteSome
      <3>3. {InitPlan(o)[i] : i \in 1..n} \subseteq entries
        BY <1>1 DEF ToSet
      <3>4. InitPlan(o)[1] \in {InitPlan(o)[i] : i \in 1..n}
        BY <1>1
      <3> QED BY <1>1, <2>2, <3>2, <3>3, <3>4
    <2> QED BY <2>1, <2>2
  <1> HIDE DEF entries
  <1>6. Adds(entries) /\ DOMAIN files' = DOMAIN files \cup {e[1] : e \in some}
    BY <1>2, <1>3, <1>5, WritesAdd
  <1>7. Config \in DOMAIN files' /\ files'[Config] = ConfigOfInit(o, MountOf(o), ApiOf)
    <2>1. Config \in DOMAIN files'
      BY <1>5, <1>6
    <2>2. CASE Exists(Config)
      BY <1>1, <1>3, <1>6, <2>2 DEF Adds, Exists
    <2>3. CASE ~Exists(Config)
      <3>1. <<Config, files'[Config]>> \in entries
        BY <1>6, <2>1, <2>3 DEF Adds, Exists
      <3> QED BY <1>4, <2>1, <3>1
    <2> QED BY <2>1, <2>2, <2>3
  <1> QED BY <1>3, <1>5, <1>6, <1>7 DEF entries

\* A module that init adds.
LEMMA InitAddsModules ==
  ASSUME NEW o, NEW mount, NEW api, Adds(InitEntries(o, mount, api)),
         NEW where, Module(where) \in DOMAIN files' \ DOMAIN files
  PROVE  \/ Presets(o) /\ where = SessionFile /\ files'[Module(where)] = "preset"
         \/ /\ ~Presets(o) /\ Stubs(o) /\ where = StubFile
            /\ files'[Module(where)] \in {"closed", "dev"}
  <1>1. <<Module(where), files'[Module(where)]>> \in InitEntries(o, mount, api)
    BY DEF Adds
  <1>2. \/ /\ Presets(o)
           /\ <<Module(where), files'[Module(where)]>> = <<Module(SessionFile), "preset">>
        \/ /\ ~Presets(o) /\ Stubs(o)
           /\ <<Module(where), files'[Module(where)]>> =
                <<Module(StubFile), IF o.devAuth THEN "dev" ELSE "closed">>
    BY <1>1, KindsDiffer DEF InitEntries
  <1> QED BY <1>2, KindsDiffer

LEMMA InitKeepsModules ==
  ASSUME ModulesAreTold, NEW o, NEW mount, NEW api, Adds(InitEntries(o, mount, api)), host' = host
  PROVE  ModulesAreTold'
  <1>1. StubFile' = StubFile /\ SessionFile' = SessionFile
    BY SameAlias
  <1>2. ASSUME NEW v \in Places, NEW w \in Places, Exists(Module(v))', Exists(Module(w))'
        PROVE  v = w
    <2>1. ASSUME NEW x \in Places, Exists(Module(x))', ~Exists(Module(x))
          PROVE  x = StubFile /\ \A y \in Places : ~Exists(Module(y))
      <3>1. ~Presets(o) /\ Stubs(o) /\ x = StubFile
        BY <2>1, InitAddsModules, SpecifiersResolve DEF Exists
      <3>2. \A y \in Places : ~Exists(Module(y))
        BY <3>1, OneIsDetected DEF Stubs
      <3> QED BY <3>1, <3>2
    <2> QED BY <1>2, <2>1 DEF ModulesAreTold
  <1>3. ASSUME NEW where, Exists(Module(where))', files'[Module(where)] \in OfTemplates
        PROVE  \/ where = StubFile /\ files'[Module(where)] \in {"closed", "dev"}
               \/ where = SessionFile /\ files'[Module(where)] = "preset"
    <2>1. CASE Exists(Module(where))
      BY <1>3, <2>1 DEF Adds, Exists, ModulesAreTold
    <2>2. CASE ~Exists(Module(where))
      BY <1>3, <2>2, InitAddsModules DEF Exists
    <2> QED BY <2>1, <2>2
  <1> QED BY <1>1, <1>2, <1>3 DEF ModulesAreTold

\* After init the same command line finds the same session module, and its getSession.
LEMMA InitSettlesAuth ==
  ASSUME ModulesAreTold, NEW o, NEW mount, NEW api, Adds(InitEntries(o, mount, api)),
         host' = host, AuthResolves(o)
  PROVE  /\ AuthOf(o)' = AuthOf(o) /\ AuthResolves(o)' /\ (Presets(o)' <=> Presets(o))
         /\ (\A e \in InitEntries(o, mount, api) : e[1] \in DOMAIN files')
              /\ (Presets(o) /\ Exists(Module(SessionFile))
                    => files[Module(SessionFile)] = "preset")
              => "getSession" \in ExportsOf(AuthOf(o))'
  <1>0. /\ StubFile' = StubFile /\ SessionFile' = SessionFile /\ GuessedAuth' = GuessedAuth
        /\ \A x : AliasOf(x)' = AliasOf(x) /\ Resolve(x)' = Resolve(x)
    BY SameAlias
  <1>1. ASSUME NEW x, "getSession" \in ExportsOf(x)
        PROVE  "getSession" \in ExportsOf(x)'
    <2>1. x # Missing /\ Exists(Module(Resolve(x)))
      BY <1>1, ExportsAreThere
    <2>2. ContentOf(Module(Resolve(x)))' = ContentOf(Module(Resolve(x)))
      BY <1>0, <2>1 DEF Adds, ContentOf, Exists
    <2> QED BY <1>0, <1>1, <2>1, <2>2 DEF ExportsOf
  <1>2. CASE Stubs(o) /\ Exists(Module(StubFile))'
    <2>1. ~Presets(o) /\ DetectedAuth = Missing /\ AuthOf(o) = GuessedAuth
      BY <1>2 DEF Stubs
    <2>2. ~Exists(Module(StubFile))
      BY <2>1, OneIsDetected, SpecifiersResolve
    <2>3. files'[Module(StubFile)] \in {"closed", "dev"}
      BY <1>0, <1>2, <2>1, <2>2, InitAddsModules DEF Exists
    <2>4. ModulesAreTold'
      BY InitKeepsModules
    <2>5. DetectedAuth' = GuessedAuth
      <3>1. DetectedIsFirst'
        BY DetectedIsThere, PTL
      <3>2. StubFile \in Places /\ AliasOf(StubFile) = GuessedAuth
        BY SpecifiersResolve
      <3> QED BY <1>0, <1>2, <2>4, <3>1, <3>2 DEF ModulesAreTold, DetectedIsFirst
    <2>6. "getSession" \in ExportsOf(GuessedAuth)'
      <3>1. /\ Resolve(GuessedAuth) = StubFile /\ GuessedAuth # Missing
            /\ GuessedAuth.alias = (host.alias # "none")
        BY SpecifiersResolve
      <3>2. ContentOf(Module(Resolve(GuessedAuth)))' \in {"closed", "dev"}
        BY <1>0, <1>2, <2>3, <3>1 DEF ContentOf
      <3>3. GuessedAuth'.alias => host'.alias # "none"
        BY <1>0, <3>1
      <3> QED BY <1>0, <3>1, <3>2, <3>3, ExportsAreThere DEF ExportsOf
    <2>7. ~Presets(o)'
      BY <1>0, <2>5, <2>6 DEF Presets
    <2>8. AuthOf(o)' = GuessedAuth
      <3>1. o.auth # Missing => o.auth = GuessedAuth
        BY <2>1 DEF AuthOf
      <3>2. GuessedAuth # Missing
        BY SpecifiersResolve
      <3> QED BY <2>5, <2>7, <3>1, <3>2 DEF AuthOf
    <2>9. AuthResolves(o)' /\ "getSession" \in ExportsOf(AuthOf(o))'
      BY <1>0, <2>6, <2>8 DEF AuthResolves
    <2> QED BY <2>1, <2>7, <2>8, <2>9
  <1>3. CASE ~(Stubs(o) /\ Exists(Module(StubFile))')
    <2>1. SameModules
      <3> SUFFICES ASSUME NEW w \in Places
                   PROVE  /\ Exists(Module(w))' <=> Exists(Module(w))
                          /\ Exports(ContentOf(Module(w)))' = Exports(ContentOf(Module(w)))
        BY DEF SameModules
      <3>1. Exists(Module(w))' => Exists(Module(w))
        BY <1>0, <1>3, InitAddsModules, SpecifiersResolve DEF Exists
      <3>2. Exists(Module(w)) => Exists(Module(w))' /\ ContentOf(Module(w))' = ContentOf(Module(w))
        BY DEF Adds, Exists, ContentOf
      <3>3. ~Exists(Module(w)) => ContentOf(Module(w))' = ContentOf(Module(w))
        BY <3>1 DEF ContentOf
      <3> QED BY <3>1, <3>2, <3>3 DEF Exports
    <2>2. AuthOf(o)' = AuthOf(o) /\ (Presets(o)' <=> Presets(o)) /\ (Stubs(o)' <=> Stubs(o))
      BY <2>1, SameModulesSameAuth
    <2>3. "getSession" \in ExportsOf(AuthOf(o)) => "getSession" \in ExportsOf(AuthOf(o))'
      <3>1. \A x : AuthOf(o)' = x => ExportsOf(AuthOf(o))' = ExportsOf(x)'
        BY DEF ExportsOf
      <3> QED BY <1>1, <2>2, <3>1
    <2>4. AuthResolves(o)'
      BY <2>2, <2>3 DEF AuthResolves
    <2>5. ASSUME \A e \in InitEntries(o, mount, api) : e[1] \in DOMAIN files',
                 Presets(o) /\ Exists(Module(SessionFile))
                   => files[Module(SessionFile)] = "preset"
          PROVE  "getSession" \in ExportsOf(AuthOf(o))'
      <3>1. CASE Presets(o)
        <4>1. AuthOf(o) = AliasOf(SessionFile)
          BY <3>1 DEF Presets, AuthOf
        <4>2. Module(SessionFile) \in DOMAIN files'
          <5>1. <<Module(SessionFile), "preset">> \in InitEntries(o, mount, api)
            BY <3>1 DEF InitEntries
          <5> QED BY <2>5, <5>1
        <4>3. files'[Module(SessionFile)] = "preset"
          BY <2>5, <3>1, <4>2, InitAddsModules DEF Adds, Exists
        <4>4. /\ Resolve(AliasOf(SessionFile)) = SessionFile /\ AliasOf(SessionFile) # Missing
              /\ AliasOf(SessionFile).alias = (host.alias # "none")
          BY SpecifiersResolve
        <4>5. ContentOf(Module(SessionFile))' = "preset"
          BY <1>0, <4>2, <4>3 DEF ContentOf, Exists
        <4> QED BY <1>0, <2>2, <4>1, <4>4, <4>5, ExportsAreThere DEF ExportsOf
      <3>2. CASE ~Presets(o) /\ Stubs(o)
        <4>1. <<Module(StubFile), IF o.devAuth THEN "dev" ELSE "closed">>
                \in InitEntries(o, mount, api)
          BY <3>2 DEF InitEntries
        <4>2. Module(StubFile) \in DOMAIN files'
          BY <2>5, <4>1
        <4> QED BY <1>0, <1>3, <3>2, <4>2 DEF Exists
      <3>3. CASE ~Presets(o) /\ ~Stubs(o)
        BY <2>3, <3>3 DEF AuthResolves
      <3> QED BY <3>1, <3>2, <3>3
    <2> QED BY <2>2, <2>4, <2>5
  <1> QED BY <1>2, <1>3

LEMMA PartsAre ==
  /\ \A name : Ejected("list", name) \in ToSet(PartsOf(name))
  /\ \A name : \A f \in ToSet(PartsOf(name)) :
       f[1] \in {"list", "views", "actions"} /\ f[2] = <<name>>
  /\ \A name : PartsOf(name) \in Seq(ToSet(PartsOf(name)))
  <1> SUFFICES ASSUME NEW name
               PROVE  /\ Ejected("list", name) \in ToSet(PartsOf(name))
                      /\ \A f \in ToSet(PartsOf(name)) :
                           f[1] \in {"list", "views", "actions"} /\ f[2] = <<name>>
                      /\ PartsOf(name) \in Seq(ToSet(PartsOf(name)))
    OBVIOUS
  <1>1. \A x, y, z : /\ ToSet(<<x>>) = {x} /\ ToSet(<<x, y, z>>) = {x, y, z}
                     /\ <<x>> \in Seq({x}) /\ <<x, y, z>> \in Seq({x, y, z})
    BY DEF ToSet
  <1>2. CASE PartsOf(name) = <<Ejected("list", name)>>
    <2>1. ToSet(PartsOf(name)) = {Ejected("list", name)}
      BY <1>1, <1>2
    <2> QED BY <1>1, <1>2, <2>1, KindsDiffer
  <1>3. CASE PartsOf(name) =
               <<Ejected("list", name), Ejected("views", name), Ejected("actions", name)>>
    <2>1. ToSet(PartsOf(name)) =
            {Ejected("list", name), Ejected("views", name), Ejected("actions", name)}
      BY <1>1, <1>3
    <2> QED BY <1>1, <1>3, <2>1, KindsDiffer
  <1> QED BY <1>2, <1>3 DEF PartsOf

\* What init writes is in place.
LEMMA InitFilesHold ==
  ASSUME NEW o, NEW mount, NEW api, Adds(InitEntries(o, mount, api)), host' = host,
         Presets(o)' <=> Presets(o),
         \A e \in InitEntries(o, mount, api) : Exists(e[1]) => files[e[1]] = e[2]
  PROVE  InitFiles(mount, api, Presets(o))'
  <1> DEFINE entries == InitEntries(o, mount, api)
             layout == IF host.rootLayout THEN "inner" ELSE "root"
  <1>1. ASSUME NEW f, NEW c, <<f, c>> \in entries, f \in DOMAIN files',
               \A d : <<f, d>> \in entries => d = c
        PROVE  files'[f] = c
    <2>1. CASE Exists(f)
      <3>1. files[f] = c
        BY <1>1, <2>1
      <3> QED BY <2>1, <3>1 DEF Adds, Exists
    <2>2. CASE ~Exists(f)
      <3>1. <<f, files'[f]>> \in entries
        BY <1>1, <2>2 DEF Adds, Exists
      <3> QED BY <1>1, <3>1
    <2> QED BY <2>1, <2>2
  <1>2. \A f \in {Page(mount), Api(api), Sse(api), Css, Migration} :
          <<f, "generated">> \in entries /\ \A d : <<f, d>> \in entries => d = "generated"
    BY KindsDiffer DEF InitEntries
  <1>3. /\ <<Layout(mount), layout>> \in entries
        /\ \A d : <<Layout(mount), d>> \in entries => d = layout
    BY KindsDiffer DEF InitEntries
  <1>4. Presets(o) => /\ <<Module(SessionFile), "preset">> \in entries
                      /\ \A d : <<Module(SessionFile), d>> \in entries => d = "preset"
    BY KindsDiffer DEF InitEntries
  <1>5. SessionFile' = SessionFile
    BY SameAlias
  <1> HIDE DEF entries
  <1>6. \A f \in {Page(mount), Api(api), Sse(api), Css, Migration} :
          f \in DOMAIN files' => files'[f] = "generated"
    BY <1>1, <1>2
  <1>7. Layout(mount) \in DOMAIN files' => files'[Layout(mount)] = layout
    BY <1>1, <1>3
  <1>8. Presets(o) /\ Module(SessionFile) \in DOMAIN files' => files'[Module(SessionFile)] = "preset"
    BY <1>1, <1>4
  <1> QED BY <1>5, <1>6, <1>7, <1>8 DEF InitFiles, Exists

LEMMA InitKeeps ==
  ASSUME SetupInv, NEW o \in InitOptions, InitWrites(o) PROVE SetupInv'
  <1>0. PICK mount, api : mount = MountOf(o) /\ api = ApiOf
    OBVIOUS
  <1> DEFINE entries == InitEntries(o, mount, api)
  <1>1. /\ mount \in Mounts /\ api \in Apis /\ ~Overlap(mount, api)
        /\ o.path \in {Missing, mount} /\ ForeignRoutes(mount) = {} /\ AuthResolves(o)
    BY <1>0, InitMounts DEF SetupInv, InitWrites, InitApplies, InitAdmits
  <1>2. /\ Adds(entries)
        /\ Config \in DOMAIN files' /\ files'[Config] = ConfigOfInit(o, mount, api)
        /\ WriteAll(InitPlan(o)) => \A e \in entries : e[1] \in DOMAIN files'
        /\ \A e \in entries : Exists(e[1]) => files[e[1]] = e[2]
    BY <1>0, InitAdds
  <1>3. host' = host /\ settled' = o
    BY DEF InitWrites
  <1>4. \A f \in DOMAIN files' \ DOMAIN files :
          \/ f \in {Page(mount), Api(api), Sse(api), Config, Css, Migration, Layout(mount)}
          \/ f[1] = "module"
    <2>1. \A f, c : <<f, c>> \in entries =>
            \/ f \in {Page(mount), Api(api), Sse(api), Config, Css, Migration, Layout(mount)}
            \/ f[1] = "module"
      BY KindsDiffer DEF InitEntries
    <2> HIDE DEF entries
    <2> QED BY <1>2, <2>1 DEF Adds
  <1> HIDE DEF entries
  <1>5. ModulesAreTold'
    BY <1>2, <1>3, InitKeepsModules DEF SetupInv, entries
  <1>6. /\ AuthOf(o)' = AuthOf(o) /\ AuthResolves(o)' /\ (Presets(o)' <=> Presets(o))
        /\ (\A e \in entries : e[1] \in DOMAIN files')
              /\ (Presets(o) /\ Exists(Module(SessionFile)) => files[Module(SessionFile)] = "preset")
              => "getSession" \in ExportsOf(AuthOf(o))'
    BY <1>1, <1>2, <1>3, InitSettlesAuth DEF SetupInv, entries
  <1>7. ForeignRoutes(mount)' = {}
    <2>1. \A f \in DOMAIN files' \ DOMAIN files :
            \/ f = Page(mount) \/ \E x \in {api} : f \in {Api(x), Sse(x)}
            \/ f[1] \notin {"page", "api", "sse", "list"}
      BY <1>4, KindsDiffer
    <2>2. {api} \in SUBSET Apis /\ \A x \in {api} : ~Overlap(mount, x)
      BY <1>1
    <2> QED BY <1>1, <1>3, <2>1, <2>2, RoutesStay
  <1>8. InitFiles(mount, api, Presets(o))'
    BY <1>2, <1>3, <1>6, InitFilesHold DEF entries
  <1>9. files'[Config] = ConfigOfInit(o, mount, api)'
    BY <1>2, <1>6 DEF ConfigOfInit
  <1>10. SettledFindsItself'
    <2>1. FindsItself(o, mount, api)'
      BY <1>1, <1>2, <1>6, <1>7, <1>8, <1>9 DEF FindsItself, Exists, Overlap
    <2> QED BY <1>1, <1>3, <2>1 DEF SettledFindsItself
  <1>11. ConfigIsTold'
    BY <1>1, <1>2 DEF ConfigIsTold, ConfigOfInit
  <1>12. PartsAreEjected'
    <2> SUFFICES ASSUME NEW name \in Pieces, NEW f \in ToSet(PartsOf(name)), f \in DOMAIN files'
                 PROVE  files'[f] \in {"ejected", "edited"}
      BY DEF PartsAreEjected, Exists, PartsOf
    <2>1. f \in DOMAIN files
      BY <1>4, PartsAre, KindsDiffer
    <2> QED BY <1>2, <2>1 DEF SetupInv, PartsAreEjected, Adds, Exists
  <1>13. EjectedHasPages'
    BY <1>2 DEF EjectedHasPages, ConfigOfInit
  <1>14. PraiseIsTrue'
    <2> SUFFICES ASSUME praise' # "none" PROVE PraiseIsTrue'
      BY DEF PraiseIsTrue
    <2>1. WriteAll(InitPlan(o))
      BY DEF InitWrites, Claims
    <2>2. \A e \in entries : e[1] \in DOMAIN files'
      BY <1>2, <2>1
    <2>3. {Page(mount), Api(api), Sse(api), Migration, Layout(mount), Css} \subseteq DOMAIN files'
      <3>1. /\ <<Page(mount), "generated">> \in entries /\ <<Api(api), "generated">> \in entries
            /\ <<Sse(api), "generated">> \in entries /\ <<Migration, "generated">> \in entries
            /\ <<Css, "generated">> \in entries
            /\ <<Layout(mount), IF host.rootLayout THEN "inner" ELSE "root">> \in entries
        BY DEF entries, InitEntries
      <3>2. \A f, c : <<f, c>> \in entries => f \in DOMAIN files'
        BY <2>2
      <3> QED BY <3>1, <3>2
    <2>4. Presets(o) /\ Exists(Module(SessionFile)) => files[Module(SessionFile)] = "preset"
      <3>1. Presets(o) => <<Module(SessionFile), "preset">> \in entries
        BY DEF entries, InitEntries
      <3>2. \A f, c : <<f, c>> \in entries => (Exists(f) => files[f] = c)
        BY <1>2
      <3> QED BY <3>1, <3>2
    <2>5. "getSession" \in ExportsOf(AuthOf(o))'
      BY <1>6, <2>2, <2>4
    <2>6. /\ files'[Config].admin = mount /\ files'[Config].api = api
          /\ files'[Config].auth = AuthOf(o)'
      BY <1>9 DEF ConfigOfInit
    <2>7. ExportsOf(files[Config].auth)' = ExportsOf(AuthOf(o))'
      BY <2>6 DEF ExportsOf, Resolve
    <2>8. ForeignRoutes(files[Config].admin)' = ForeignRoutes(mount)'
      BY <2>6 DEF ForeignRoutes, RoutesUnder
    <2> QED BY <1>2, <1>7, <2>3, <2>5, <2>6, <2>7, <2>8 DEF PraiseIsTrue, Exists
  <1>15. HostIsTold'
    BY <1>3 DEF SetupInv, HostIsTold
  <1> QED BY <1>5, <1>10, <1>11, <1>12, <1>13, <1>14, <1>15 DEF SetupInv

\* Where nothing is written, only what a command claims can be wrong.
LEMMA NothingWrittenKeeps ==
  ASSUME SetupInv, UNCHANGED <<host, files, settled>>, PraiseIsTrue' PROVE SetupInv'
  <1>1. HostIsTold' /\ ConfigIsTold' /\ PartsAreEjected' /\ EjectedHasPages'
    BY DEF SetupInv, HostIsTold, ConfigIsTold, PartsAreEjected, EjectedHasPages, Exists
  <1>2. ModulesAreTold'
    BY SameAlias DEF SetupInv, ModulesAreTold, Exists
  <1>3. SameModules
    BY DEF SameModules, Exists, ContentOf, Exports
  <1>4. ASSUME NEW o, NEW mount, NEW api, FindsItself(o, mount, api)
        PROVE  FindsItself(o, mount, api)'
    <2>1. AuthOf(o)' = AuthOf(o) /\ (Presets(o)' <=> Presets(o)) /\ (Stubs(o)' <=> Stubs(o))
      BY <1>3, SameModulesSameAuth
    <2>2. ConfigOfInit(o, mount, api)' = ConfigOfInit(o, mount, api)
      BY <2>1 DEF ConfigOfInit
    <2>3. ExportsOf(AuthOf(o))' = ExportsOf(AuthOf(o))
      BY <2>1 DEF ExportsOf, Resolve, ContentOf, Exists
    <2>4. ForeignRoutes(mount)' = ForeignRoutes(mount)
      BY DEF ForeignRoutes, RoutesUnder, Routes, Exists
    <2>5. InitFiles(mount, api, Presets(o))'
      BY <1>4, <2>1, SameAlias DEF FindsItself, InitFiles, Exists
    <2>6. AuthResolves(o)'
      BY <1>4, <2>1, <2>3 DEF FindsItself, AuthResolves
    <2> QED BY <1>4, <2>2, <2>4, <2>5, <2>6 DEF FindsItself, Exists
  <1>5. SettledFindsItself'
    BY <1>4 DEF SetupInv, SettledFindsItself
  <1> QED BY <1>1, <1>2, <1>5 DEF SetupInv

LEMMA FixableAre ==
  ASSUME NEW path
  PROVE  /\ ToSet(Fixable(path)) =
              (IF Static(Configured.api) THEN {Api(Configured.api), Sse(Configured.api)} ELSE {})
              \cup {Migration}
              \cup (IF Static(MountAt(path)) /\ ForeignRoutes(MountAt(path)) = {}
                    THEN {Page(MountAt(path))} ELSE {})
         /\ DOMAIN Fixable(path) = 1..Len(Fixable(path)) /\ Len(Fixable(path)) \in Nat
  <1> DEFINE routes == IF Static(Configured.api)
                       THEN <<Api(Configured.api), Sse(Configured.api)>> ELSE <<>>
             migration == <<Migration>>
             page == IF Static(MountAt(path)) /\ ForeignRoutes(MountAt(path)) = {}
                     THEN <<Page(MountAt(path))>> ELSE <<>>
             S == {Api(Configured.api), Sse(Configured.api), Migration, Page(MountAt(path))}
  <1>1. Fixable(path) = (routes \o migration) \o page
    BY DEF Fixable
  <1>2. \A x, y : /\ ToSet(<<x>>) = {x} /\ ToSet(<<x, y>>) = {x, y}
                  /\ <<x>> \in Seq({x}) /\ <<x, y>> \in Seq({x, y})
    BY DEF ToSet
  <1>3. ToSet(<<>>) = {} /\ <<>> \in Seq(S)
    BY DEF ToSet
  <1>4. \A x \in S, y \in S : <<x>> \in Seq(S) /\ <<x, y>> \in Seq(S)
    OBVIOUS
  <1>5. /\ Api(Configured.api) \in S /\ Sse(Configured.api) \in S /\ Migration \in S
        /\ Page(MountAt(path)) \in S
    OBVIOUS
  <1> HIDE DEF S
  <1>6. /\ routes \in Seq(S) /\ migration \in Seq(S) /\ page \in Seq(S)
        /\ ToSet(routes) = IF Static(Configured.api)
                           THEN {Api(Configured.api), Sse(Configured.api)} ELSE {}
        /\ ToSet(migration) = {Migration}
        /\ ToSet(page) = IF Static(MountAt(path)) /\ ForeignRoutes(MountAt(path)) = {}
                         THEN {Page(MountAt(path))} ELSE {}
    BY <1>2, <1>3, <1>4, <1>5
  <1> DEFINE front == routes \o migration
  <1> HIDE DEF routes, migration, page
  <1>7. front \in Seq(S) /\ ToSet(front) = ToSet(routes) \cup ToSet(migration)
    BY <1>6, ToSetConcat
  <1> HIDE DEF front
  <1>8. front \o page \in Seq(S) /\ ToSet(front \o page) = ToSet(front) \cup ToSet(page)
    <2>1. front \in Seq(S) /\ page \in Seq(S)
      BY <1>6, <1>7
    <2> QED BY ONLY <2>1, ToSetConcat
  <1>9. Fixable(path) = front \o page
    BY <1>1 DEF front
  <1>10. DOMAIN Fixable(path) = 1..Len(Fixable(path)) /\ Len(Fixable(path)) \in Nat
    BY <1>8, <1>9
  <1> QED BY <1>6, <1>7, <1>8, <1>9, <1>10

\* What doctor adds is generated; what is there stays.
LEMMA RepairsAdd ==
  ASSUME NEW path, DoctorFixes(path)
  PROVE  /\ Adds({<<f, "generated">> : f \in ToSet(Fixable(path))})
         /\ WriteAll(Repairs(path)) => ToSet(Fixable(path)) \subseteq DOMAIN files'
  <1> DEFINE content(f) == IF Exists(f) THEN files[f] ELSE "generated"
             entries == {<<f, content(f)>> : f \in ToSet(Fixable(path))}
  <1>1. DOMAIN Repairs(path) = 1..Len(Fixable(path)) /\ Len(Fixable(path)) \in Nat
        /\ \A i \in 1..Len(Fixable(path)) :
             Repairs(path)[i] = <<Fixable(path)[i], content(Fixable(path)[i])>>
    BY FixableAre DEF Repairs
  <1>2. ToSet(Repairs(path)) = entries
    <2>1. ToSet(Fixable(path)) = {Fixable(path)[i] : i \in 1..Len(Fixable(path))}
      BY FixableAre DEF ToSet
    <2>2. ToSet(Repairs(path)) = {Repairs(path)[i] : i \in 1..Len(Fixable(path))}
      BY <1>1 DEF ToSet
    <2> HIDE DEF content
    <2> QED BY <1>1, <2>1, <2>2
  <1>3. PICK some \in SUBSET entries :
          /\ WriteEntries(some)
          /\ WriteAll(Repairs(path)) => ToSet(Fixable(path)) \subseteq DOMAIN files'
    <2>1. CASE WriteAll(Repairs(path))
      <3>1. WriteEntries(entries)
        BY <1>2, <2>1 DEF WriteAll
      <3>2. ToSet(Fixable(path)) \subseteq DOMAIN files'
        <4> SUFFICES ASSUME NEW f \in ToSet(Fixable(path)) PROVE f \in DOMAIN files'
          OBVIOUS
        <4>1. <<f, content(f)>> \in entries /\ <<f, content(f)>>[1] = f
          OBVIOUS
        <4> HIDE DEF entries
        <4> QED BY <3>1, <4>1 DEF WriteEntries
      <3> QED BY <3>1, <3>2
    <2>2. CASE ~WriteAll(Repairs(path))
      <3>1. WriteSome(Repairs(path))
        BY <2>2 DEF DoctorFixes
      <3>2. PICK n \in 1..Len(Repairs(path)) : WriteEntries({Repairs(path)[i] : i \in 1..n})
        BY <3>1 DEF WriteSome
      <3>3. Len(Repairs(path)) = Len(Fixable(path))
        BY <1>1 DEF Repairs
      <3>4. {Repairs(path)[i] : i \in 1..n} \subseteq ToSet(Repairs(path))
        BY <1>1, <3>3 DEF ToSet
      <3> QED BY <1>2, <2>2, <3>2, <3>4
    <2> QED BY <2>1, <2>2
  <1>4. \A e \in entries : e = <<e[1], e[2]>> /\ (Exists(e[1]) => files[e[1]] = e[2])
    OBVIOUS
  <1>5. Adds(entries)
    <2> HIDE DEF entries
    <2> QED BY <1>3, <1>4, WritesAdd
  <1>6. ASSUME NEW f \in DOMAIN files' \ DOMAIN files
        PROVE  <<f, files'[f]>> \in {<<g, "generated">> : g \in ToSet(Fixable(path))}
    <2>1. <<f, files'[f]>> \in entries
      BY <1>5 DEF Adds
    <2>2. PICK g \in ToSet(Fixable(path)) : <<f, files'[f]>> = <<g, content(g)>>
      BY <2>1
    <2> QED BY <2>2 DEF Exists
  <1> QED BY <1>3, <1>5, <1>6 DEF Adds

\* The session module of a settled init, as long as what exports getSession does.
LEMMA AuthStays ==
  ASSUME SameModules, NEW o, AuthResolves(o),
         \A where : "getSession" \in Exports(ContentOf(Module(where)))
                     => "getSession" \in Exports(ContentOf(Module(where)))'
  PROVE  /\ AuthResolves(o)' /\ AuthOf(o)' = AuthOf(o) /\ (Presets(o)' <=> Presets(o))
         /\ \A mount, api : ConfigOfInit(o, mount, api)' = ConfigOfInit(o, mount, api)
  <1>1. AuthOf(o)' = AuthOf(o) /\ (Presets(o)' <=> Presets(o)) /\ (Stubs(o)' <=> Stubs(o))
    BY SameModulesSameAuth
  <1>2. \A mount, api : ConfigOfInit(o, mount, api)' = ConfigOfInit(o, mount, api)
    BY <1>1 DEF ConfigOfInit
  <1>3. host'.alias = host.alias
    BY DEF SameModules
  <1>4. ASSUME NEW x, "getSession" \in ExportsOf(x), AuthOf(o)' = x
        PROVE  "getSession" \in ExportsOf(AuthOf(o))'
    <2>1. Resolve(x)' = Resolve(x)
      BY <1>3, SameAlias
    <2>2. "getSession" \in Exports(ContentOf(Module(Resolve(x))))
      BY <1>4 DEF ExportsOf
    <2>3. "getSession" \in Exports(ContentOf(Module(Resolve(x))))'
      BY <2>1, <2>2
    <2> QED BY <1>3, <1>4, <2>1, <2>3 DEF ExportsOf
  <1>5. AuthResolves(o)'
    BY <1>1, <1>4 DEF AuthResolves
  <1> QED BY <1>1, <1>2, <1>5

LEMMA DoctorKeeps ==
  ASSUME SetupInv, NEW path \in DoctorPaths, DoctorFixes(path) PROVE SetupInv'
  <1>0. PICK m, a : m = MountAt(path) /\ a = Configured.api
    OBVIOUS
  <1>1. /\ Exists(Config) /\ m \in Mounts
        /\ Static(a) => a \in Apis /\ ~Overlap(m, a)
    <2>1. ~FixRefused(path)
      BY DEF DoctorFixes
    <2>2. Configured.admin \in Mounts \cup {Dynamic} /\ Configured.api \in Apis \cup {Dynamic, Missing}
      BY MountsAssumption DEF Configured, SetupInv, ConfigIsTold
    <2> QED BY <1>0, <2>1, <2>2, ProjectAssumption DEF FixRefused, MountAt, Static
  <1>2. /\ \A f \in DOMAIN files : f \in DOMAIN files' /\ files'[f] = files[f]
        /\ \A f \in DOMAIN files' \ DOMAIN files :
             /\ files'[f] = "generated"
             /\ f = Migration \/ f = Page(m) \/ (Static(a) /\ f \in {Api(a), Sse(a)})
    <2>1. \A f \in ToSet(Fixable(path)) :
            f = Migration \/ f = Page(m) \/ (Static(a) /\ f \in {Api(a), Sse(a)})
      BY <1>0, FixableAre
    <2> QED BY <2>1, RepairsAdd DEF Adds
  <1>3. host' = host
    BY DEF DoctorFixes
  <1>4. \A f \in DOMAIN files' \ DOMAIN files :
          f[1] \notin {"config", "module", "layout", "css", "list", "views", "actions"}
    BY <1>2, KindsDiffer
  <1>5. Config \in DOMAIN files' /\ files'[Config] = files[Config]
    BY <1>1, <1>2 DEF Exists
  <1>6. \A where : /\ Module(where) \in DOMAIN files' <=> Module(where) \in DOMAIN files
                   /\ Module(where) \in DOMAIN files => files'[Module(where)] = files[Module(where)]
    BY <1>2, <1>4, KindsDiffer
  <1>7. SameModules /\ \A where : ContentOf(Module(where))' = ContentOf(Module(where))
    <2>1. \A where : /\ Exists(Module(where))' <=> Exists(Module(where))
                     /\ ContentOf(Module(where))' = ContentOf(Module(where))
      <3> SUFFICES ASSUME NEW where
                   PROVE  /\ Exists(Module(where))' <=> Exists(Module(where))
                          /\ ContentOf(Module(where))' = ContentOf(Module(where))
        OBVIOUS
      <3>1. /\ Module(where) \in DOMAIN files' <=> Module(where) \in DOMAIN files
            /\ Module(where) \in DOMAIN files => files'[Module(where)] = files[Module(where)]
        BY <1>6
      <3> QED BY <3>1 DEF Exists, ContentOf
    <2>2. \A where : Exports(ContentOf(Module(where)))' = Exports(ContentOf(Module(where)))
      BY <2>1
    <2> QED BY <1>3, <2>1, <2>2 DEF SameModules
  <1>8. ConfigIsTold' /\ ModulesAreTold'
    <2>1. ConfigIsTold'
      BY <1>1, <1>5 DEF SetupInv, ConfigIsTold
    <2>2. ModulesAreTold'
      <3>1. \A where : /\ Exists(Module(where))' <=> Exists(Module(where))
                       /\ Exists(Module(where)) => files'[Module(where)] = files[Module(where)]
        BY <1>6 DEF Exists
      <3>2. StubFile' = StubFile /\ SessionFile' = SessionFile
        BY <1>3, SameAlias
      <3>3. \A v, w \in Places : Exists(Module(v))' /\ Exists(Module(w))' => v = w
        BY <3>1 DEF SetupInv, ModulesAreTold
      <3>4. ASSUME NEW where, Exists(Module(where))', files'[Module(where)] \in OfTemplates
            PROVE  \/ where = StubFile /\ files'[Module(where)] \in {"closed", "dev"}
                   \/ where = SessionFile /\ files'[Module(where)] = "preset"
        BY <3>1, <3>4 DEF SetupInv, ModulesAreTold
      <3> QED BY <3>2, <3>3, <3>4 DEF ModulesAreTold
    <2> QED BY <2>1, <2>2
  <1>9. PartsAreEjected' /\ EjectedHasPages'
    <2>1. ASSUME NEW name \in Pieces, NEW f \in ToSet(PartsOf(name)), Exists(f)'
          PROVE  files'[f] \in {"ejected", "edited"}
      <3>1. Exists(f)
        BY <1>4, <2>1, PartsAre DEF Exists
      <3> QED BY <1>2, <3>1 DEF SetupInv, PartsAreEjected, Exists
    <2>2. EjectedHasPages'
      BY <1>1, <1>2, <1>5 DEF SetupInv, EjectedHasPages, Exists, PartsOf
    <2> QED BY <2>1, <2>2 DEF PartsAreEjected, PartsOf
  <1>10. ForeignRoutes(m) = {} => ForeignRoutes(m)' = {}
    <2> DEFINE apis == {x \in Apis : x = a /\ Static(a)}
    <2>1. \A f \in DOMAIN files' \ DOMAIN files :
            \/ f = Page(m) \/ \E x \in apis : f \in {Api(x), Sse(x)}
            \/ f[1] \notin {"page", "api", "sse", "list"}
      BY <1>1, <1>2, KindsDiffer
    <2>2. apis \in SUBSET Apis /\ \A x \in apis : ~Overlap(m, x)
      BY <1>1
    <2> HIDE DEF apis
    <2> QED BY <1>1, <1>3, <2>1, <2>2, RoutesStay
  <1>11. SettledFindsItself'
    <2> SUFFICES ASSUME settled' # Missing PROVE SettledFindsItself'
      BY DEF SettledFindsItself
    <2>1. PICK o : settled' = o /\ settled = o /\ o # Missing /\ path \in {Missing, Configured.admin}
      BY DEF DoctorFixes
    <2>2. PICK mount \in Mounts, api \in Apis : FindsItself(o, mount, api)
      BY <2>1 DEF SetupInv, SettledFindsItself
    <2>3. mount = m /\ api = a
      BY <1>0, <2>1, <2>2, ProjectAssumption
         DEF FindsItself, ConfigOfInit, Configured, MountAt
    <2>4. \A where : "getSession" \in Exports(ContentOf(Module(where)))
                     => "getSession" \in Exports(ContentOf(Module(where)))'
      BY <1>7
    <2>5. /\ AuthResolves(o)' /\ (Presets(o)' <=> Presets(o))
          /\ ConfigOfInit(o, mount, api)' = ConfigOfInit(o, mount, api)
      BY <1>7, <2>2, <2>4, AuthStays DEF FindsItself
    <2>6. InitFiles(mount, api, Presets(o))'
      BY <1>2, <1>3, <2>2, <2>5, SameAlias, KindsDiffer DEF FindsItself, InitFiles, Exists
    <2>7. FindsItself(o, mount, api)'
      BY <1>5, <1>10, <2>2, <2>3, <2>5, <2>6 DEF FindsItself, Exists
    <2> QED BY <2>1, <2>2, <2>7 DEF SetupInv, SettledFindsItself
  <1>12. PraiseIsTrue'
    <2> SUFFICES ASSUME praise' # "none" PROVE PraiseIsTrue'
      BY DEF PraiseIsTrue
    <2>1. /\ WriteAll(Repairs(path)) /\ ~Ailing(path) /\ MountAt(path) = Configured.admin
          /\ praise' = "healthy"
      BY DEF DoctorFixes, Diagnoses, Claims
    <2>2. /\ Static(m) /\ Static(a) /\ ForeignRoutes(m) = {}
      BY <1>0, <2>1 DEF Ailing
    <2>3. {Api(a), Sse(a), Migration, Page(m)} \subseteq DOMAIN files'
      BY <1>0, <2>1, <2>2, FixableAre, RepairsAdd
    <2>4. files[Config].admin = m /\ files[Config].api = a
      BY <1>0, <1>1, <2>1, <2>2, ProjectAssumption DEF Configured, Static
    <2>5. ForeignRoutes(files[Config].admin)' = ForeignRoutes(m)'
      BY <1>5, <2>4 DEF ForeignRoutes, RoutesUnder
    <2> QED BY <1>5, <1>10, <2>1, <2>2, <2>3, <2>4, <2>5 DEF PraiseIsTrue, Exists
  <1>13. HostIsTold'
    BY <1>3 DEF SetupInv, HostIsTold
  <1> QED BY <1>8, <1>9, <1>11, <1>12, <1>13 DEF SetupInv

LEMMA SetupStarts == SetupInit => SetupInv
  <1> SUFFICES ASSUME NEW h \in Hosts, SetupFrom(h) PROVE SetupInv
    BY DEF SetupInit
  <1>1. /\ \A f \in DOMAIN files : f = Module(h.auth.where) /\ files[f] = h.auth.exports
        /\ settled = Missing /\ praise = "none"
    BY DEF SetupFrom
  <1>2. \A f \in DOMAIN files : f[1] = "module" /\ files[f] \notin OfTemplates
    BY <1>1, KindsDiffer, ProjectAssumption
  <1>3. HostIsTold
    BY DEF SetupFrom, HostIsTold
  <1>4. ConfigIsTold /\ EjectedHasPages
    BY <1>2, KindsDiffer DEF ConfigIsTold, EjectedHasPages, Exists
  <1>5. ModulesAreTold
    BY <1>1, <1>2, KindsDiffer DEF ModulesAreTold, Exists
  <1>6. PartsAreEjected
    BY <1>2, PartsAre DEF PartsAreEjected, Exists
  <1> QED BY <1>1, <1>3, <1>4, <1>5, <1>6 DEF SetupInv, SettledFindsItself, PraiseIsTrue

LEMMA UnsettledKeeps ==
  ASSUME settled' = Missing, praise' = "none", HostIsTold', ConfigIsTold', ModulesAreTold',
         PartsAreEjected', EjectedHasPages'
  PROVE  SetupInv'
  BY DEF SetupInv, SettledFindsItself, PraiseIsTrue

LEMMA SameModulesAreTold ==
  ASSUME ModulesAreTold, host'.alias = host.alias,
         \A where : Module(where) \in DOMAIN files' =>
           /\ Module(where) \in DOMAIN files
           /\ files'[Module(where)] \in OfTemplates => files'[Module(where)] = files[Module(where)]
  PROVE  ModulesAreTold'
  <1>1. StubFile' = StubFile /\ SessionFile' = SessionFile
    BY SameAlias
  <1>2. \A v, w \in Places : Exists(Module(v))' /\ Exists(Module(w))' => v = w
    BY DEF ModulesAreTold, Exists
  <1>3. ASSUME NEW where, Exists(Module(where))', files'[Module(where)] \in OfTemplates
        PROVE  \/ where = StubFile /\ files'[Module(where)] \in {"closed", "dev"}
               \/ where = SessionFile /\ files'[Module(where)] = "preset"
    BY <1>3 DEF ModulesAreTold, Exists
  <1> QED BY <1>1, <1>2, <1>3 DEF ModulesAreTold

LEMMA EntriesAreWritten ==
  ASSUME NEW some, WriteEntries(some)
  PROVE  /\ DOMAIN files' = DOMAIN files \cup {e[1] : e \in some}
         /\ \A f \in DOMAIN files' :
              \/ \E e \in some : e[1] = f /\ files'[f] = e[2]
              \/ (~\E e \in some : e[1] = f) /\ f \in DOMAIN files /\ files'[f] = files[f]
  <1>1. /\ DOMAIN files' = DOMAIN files \cup {e[1] : e \in some}
        /\ \A f \in DOMAIN files' :
             files'[f] = IF \E e \in some : e[1] = f
                         THEN (CHOOSE e \in some : e[1] = f)[2] ELSE files[f]
    BY DEF WriteEntries
  <1>2. ASSUME NEW f \in DOMAIN files', \E e \in some : e[1] = f
        PROVE  \E e \in some : e[1] = f /\ files'[f] = e[2]
    <2> DEFINE e == CHOOSE e \in some : e[1] = f
    <2>1. e \in some /\ e[1] = f
      BY <1>2
    <2>2. files'[f] = e[2]
      BY <1>1, <1>2
    <2> HIDE DEF e
    <2> QED BY <2>1, <2>2
  <1>3. \A f \in DOMAIN files' : (~\E e \in some : e[1] = f) =>
          f \in DOMAIN files /\ files'[f] = files[f]
    BY <1>1
  <1> QED BY <1>1, <1>2, <1>3

LEMMA OneIsWritten ==
  ASSUME NEW f, NEW c, WriteAll(<< <<f, c>> >>)
  PROVE  /\ DOMAIN files' = DOMAIN files \cup {f} /\ files'[f] = c
         /\ \A g \in DOMAIN files : g # f => files'[g] = files[g]
  <1>1. ToSet(<< <<f, c>> >>) = {<<f, c>>}
    BY DEF ToSet
  <1>2. WriteEntries({<<f, c>>})
    BY <1>1 DEF WriteAll
  <1> DEFINE some == {<<f, c>>}
  <1>3. /\ \A g : (\E e \in some : e[1] = g) <=> g = f
        /\ \A e \in some : e[2] = c
        /\ {e[1] : e \in some} = {f}
    OBVIOUS
  <1> HIDE DEF some
  <1>4. /\ DOMAIN files' = DOMAIN files \cup {e[1] : e \in some}
        /\ \A g \in DOMAIN files' :
             \/ \E e \in some : e[1] = g /\ files'[g] = e[2]
             \/ (~\E e \in some : e[1] = g) /\ g \in DOMAIN files /\ files'[g] = files[g]
    <2>1. WriteEntries(some)
      BY <1>2 DEF some
    <2> QED BY <2>1, EntriesAreWritten
  <1> QED BY <1>3, <1>4

LEMMA NewKeeps ==
  ASSUME SetupInv, NEW name \in Pieces, New(name) PROVE SetupInv'
  <1>1. PICK c : /\ c = [files[Config] EXCEPT !.live = files[Config].live \cup {name},
                                             !.ejected = files[Config].ejected]
                 /\ WriteAll(<< <<Config, c>> >>)
    BY DEF New, WithConfig
  <1>2. /\ Exists(Config) /\ settled' = Missing /\ praise' = "none" /\ host' = host
    BY DEF New, Claims
  <1>3. /\ DOMAIN files' = DOMAIN files /\ files'[Config] = c
        /\ \A f \in DOMAIN files : f # Config => files'[f] = files[f]
    BY <1>1, <1>2, OneIsWritten DEF Exists
  <1>4. /\ DOMAIN c = DOMAIN files[Config]
        /\ ConfigIsTold => /\ c.admin = files[Config].admin /\ c.api = files[Config].api
                           /\ c.live = files[Config].live \cup {name}
                           /\ c.ejected = files[Config].ejected
    BY <1>1, <1>2 DEF ConfigIsTold
  <1>5. ConfigIsTold' /\ HostIsTold'
    BY <1>2, <1>3, <1>4 DEF SetupInv, ConfigIsTold, HostIsTold, Exists
  <1>6. ModulesAreTold'
    BY <1>2, <1>3, KindsDiffer, SameModulesAreTold DEF SetupInv
  <1>7. PartsAreEjected'
    <2>1. \A name_1 \in Pieces : \A f \in ToSet(PartsOf(name_1)) : f # Config
      BY PartsAre, KindsDiffer
    <2> QED BY <1>3, <2>1 DEF SetupInv, PartsAreEjected, Exists, PartsOf
  <1>8. EjectedHasPages'
    BY <1>2, <1>3, <1>4 DEF SetupInv, EjectedHasPages, Exists, PartsOf
  <1> QED BY <1>2, <1>5, <1>6, <1>7, <1>8, UnsettledKeeps

LEMMA EjectPlanIs ==
  ASSUME NEW name
  PROVE  LET parts == PartsOf(name)
             writes == EjectPlan(name) IN
         /\ Len(parts) \in Nat /\ DOMAIN parts = 1..Len(parts) /\ Len(writes) = Len(parts) + 1
         /\ \A i \in 1..Len(parts) : writes[i] = <<parts[i], "ejected">>
         /\ writes[Len(parts) + 1] =
              <<Config, [files[Config] EXCEPT !.live = files[Config].live \ {name},
                                              !.ejected = files[Config].ejected \cup {name}]>>
         /\ DOMAIN writes = 1..(Len(parts) + 1)
  <1> DEFINE parts == PartsOf(name)
             c == [files[Config] EXCEPT !.live = files[Config].live \ {name},
                                        !.ejected = files[Config].ejected \cup {name}]
             pages == [i \in DOMAIN parts |-> <<parts[i], "ejected">>]
             config == << <<Config, c>> >>
             S == {pages[i] : i \in DOMAIN parts} \cup {<<Config, c>>}
  <1>1. EjectPlan(name) = pages \o config
    BY DEF EjectPlan, WithConfig
  <1>2. Len(parts) \in Nat /\ DOMAIN parts = 1..Len(parts)
    BY PartsAre
  <1>3. config \in Seq(S) /\ Len(config) = 1 /\ config[1] = <<Config, c>>
    OBVIOUS
  <1>4. /\ pages \in Seq(S) /\ Len(pages) = Len(parts)
        /\ \A i \in 1..Len(parts) : pages[i] = <<parts[i], "ejected">>
    BY <1>2
  <1> HIDE DEF parts, c, pages, config, S
  <1>5. /\ pages \o config \in Seq(S) /\ Len(pages \o config) = Len(pages) + Len(config)
        /\ \A i \in 1..Len(pages) : (pages \o config)[i] = pages[i]
        /\ \A i \in 1..Len(config) : (pages \o config)[Len(pages) + i] = config[i]
    <2>1. pages \in Seq(S) /\ config \in Seq(S)
      BY <1>3, <1>4
    <2> QED BY ONLY <2>1, ToSetConcat
  <1>6. EjectPlan(name) \in Seq(S) /\ Len(EjectPlan(name)) = Len(parts) + 1
    BY <1>1, <1>3, <1>4, <1>5
  <1>7. DOMAIN EjectPlan(name) = 1..(Len(parts) + 1)
    BY <1>6
  <1>8. EjectPlan(name)[Len(parts) + 1] = <<Config, c>>
    BY <1>1, <1>3, <1>4, <1>5
  <1>9. \A i \in 1..Len(parts) : EjectPlan(name)[i] = <<parts[i], "ejected">>
    BY <1>1, <1>4, <1>5
  <1> QED BY <1>2, <1>6, <1>7, <1>8, <1>9 DEF parts, c

\* The config comes last: with the entry commented out, all the pages are there.
LEMMA EjectAdds ==
  ASSUME NEW name, NEW force, Eject(name, force)
  PROVE  LET c == [files[Config] EXCEPT !.live = files[Config].live \ {name},
                                        !.ejected = files[Config].ejected \cup {name}] IN
         /\ DOMAIN files \subseteq DOMAIN files'
         /\ \A f \in DOMAIN files' :
              \/ f \in DOMAIN files /\ files'[f] = files[f]
              \/ f \in ToSet(PartsOf(name)) /\ files'[f] = "ejected"
              \/ f = Config /\ files'[f] = c /\ ToSet(PartsOf(name)) \subseteq DOMAIN files'
  <1> DEFINE parts == PartsOf(name)
             writes == EjectPlan(name)
             c == [files[Config] EXCEPT !.live = files[Config].live \ {name},
                                        !.ejected = files[Config].ejected \cup {name}]
  <1>1. /\ Len(parts) \in Nat /\ DOMAIN parts = 1..Len(parts) /\ Len(writes) = Len(parts) + 1
        /\ \A i \in 1..Len(parts) : writes[i] = <<parts[i], "ejected">>
        /\ writes[Len(parts) + 1] = <<Config, c>> /\ DOMAIN writes = 1..(Len(parts) + 1)
    BY EjectPlanIs
  <1>2. PICK n \in 1..(Len(parts) + 1) : WriteEntries({writes[i] : i \in 1..n})
    <2>1. CASE WriteAll(writes)
      <3>1. ToSet(writes) = {writes[i] : i \in 1..(Len(parts) + 1)}
        BY <1>1 DEF ToSet
      <3>2. Len(parts) + 1 \in 1..(Len(parts) + 1)
        BY <1>1
      <3> QED BY <2>1, <3>1, <3>2 DEF WriteAll
    <2>2. CASE ~WriteAll(writes)
      <3>1. WriteSome(writes)
        BY <2>2 DEF Eject
      <3> QED BY <1>1, <3>1 DEF WriteSome
    <2> QED BY <2>1, <2>2
  <1> DEFINE some == {writes[i] : i \in 1..n}
  <1>3. ToSet(parts) = {parts[i] : i \in 1..Len(parts)}
    BY <1>1 DEF ToSet
  <1> HIDE DEF c, writes, parts
  <1>4. \A e \in some :
          \/ e[1] \in ToSet(parts) /\ e[2] = "ejected"
          \/ e[1] = Config /\ e[2] = c /\ ToSet(parts) \subseteq {d[1] : d \in some}
    <2> SUFFICES ASSUME NEW i \in 1..n
                 PROVE  \/ writes[i][1] \in ToSet(parts) /\ writes[i][2] = "ejected"
                        \/ /\ writes[i][1] = Config /\ writes[i][2] = c
                           /\ ToSet(parts) \subseteq {d[1] : d \in some}
      OBVIOUS
    <2>1. CASE i \in 1..Len(parts)
      BY <1>1, <1>3, <2>1
    <2>2. CASE i \notin 1..Len(parts)
      <3>1. i = Len(parts) + 1 /\ n = Len(parts) + 1
        BY <1>1, <2>2
      <3>2. \A j \in 1..Len(parts) : writes[j] \in some /\ writes[j][1] = parts[j]
        BY <1>1, <3>1
      <3>3. ToSet(parts) \subseteq {d[1] : d \in some}
        BY <1>3, <3>2
      <3> QED BY <1>1, <3>1, <3>3
    <2> QED BY <2>1, <2>2
  <1>5. /\ DOMAIN files' = DOMAIN files \cup {e[1] : e \in some}
        /\ \A f \in DOMAIN files' :
             \/ \E e \in some : e[1] = f /\ files'[f] = e[2]
             \/ (~\E e \in some : e[1] = f) /\ f \in DOMAIN files /\ files'[f] = files[f]
    BY <1>2, EntriesAreWritten
  <1> HIDE DEF some
  <1> QED BY <1>4, <1>5 DEF c, parts

LEMMA EjectKeeps ==
  ASSUME SetupInv, NEW name \in Pieces, NEW force, Eject(name, force) PROVE SetupInv'
  <1>1. PICK c : c = [files[Config] EXCEPT !.live = files[Config].live \ {name},
                                           !.ejected = files[Config].ejected \cup {name}]
    OBVIOUS
  <1>2. /\ DOMAIN files \subseteq DOMAIN files'
        /\ \A f \in DOMAIN files' :
             \/ f \in DOMAIN files /\ files'[f] = files[f]
             \/ f \in ToSet(PartsOf(name)) /\ files'[f] = "ejected"
             \/ f = Config /\ files'[f] = c /\ ToSet(PartsOf(name)) \subseteq DOMAIN files'
    BY <1>1, EjectAdds
  <1>3. /\ Exists(Config) /\ settled' = Missing /\ praise' = "none" /\ host' = host
    BY DEF Eject, Claims, Declares
  <1>4. \A x \in Pieces : \A f \in ToSet(PartsOf(x)) : f # Config /\ f[1] # "module"
    BY PartsAre, KindsDiffer
  <1>5. /\ DOMAIN c = DOMAIN files[Config]
        /\ ConfigIsTold => /\ c.admin = files[Config].admin /\ c.api = files[Config].api
                           /\ c.live = files[Config].live \ {name}
                           /\ c.ejected = files[Config].ejected \cup {name}
    BY <1>1, <1>3 DEF ConfigIsTold
  <1>6. /\ Config \in DOMAIN files'
        /\ \/ files'[Config] = files[Config]
           \/ files'[Config] = c /\ ToSet(PartsOf(name)) \subseteq DOMAIN files'
    BY <1>2, <1>3, <1>4 DEF Exists
  <1>7. ConfigIsTold' /\ HostIsTold'
    BY <1>3, <1>5, <1>6 DEF SetupInv, ConfigIsTold, HostIsTold, Exists
  <1>8. ModulesAreTold'
    <2>1. \A where : Module(where) \in DOMAIN files' =>
                     /\ Module(where) \in DOMAIN files
                     /\ files'[Module(where)] = files[Module(where)]
      BY <1>2, <1>4, KindsDiffer
    <2> QED BY <1>3, <2>1, SameModulesAreTold DEF SetupInv
  <1>9. PartsAreEjected'
    BY <1>2, <1>4 DEF SetupInv, PartsAreEjected, Exists, PartsOf
  <1>10. EjectedHasPages'
    BY <1>2, <1>3, <1>5, <1>6 DEF SetupInv, EjectedHasPages, Exists, PartsOf
  <1> QED BY <1>3, <1>7, <1>8, <1>9, <1>10, UnsettledKeeps

LEMMA EjectLayoutKeeps ==
  ASSUME SetupInv, NEW force, EjectLayout(force) PROVE SetupInv'
  <1>1. /\ Exists(Config) /\ settled' = Missing /\ praise' = "none" /\ host' = host
    BY DEF EjectLayout, Claims
  <1>2. PICK layout : layout = Layout(DefaultAdmin)
    OBVIOUS
  <1>3. /\ DOMAIN files' = DOMAIN files \cup {layout}
        /\ \A f \in DOMAIN files : f # layout => files'[f] = files[f]
    BY <1>2, OneIsWritten DEF EjectLayout
  <1>4. /\ layout # Config /\ \A where : Module(where) # layout
        /\ \A name : layout \notin ToSet(PartsOf(name))
    BY <1>2, KindsDiffer, PartsAre
  <1>5. ConfigIsTold' /\ HostIsTold' /\ EjectedHasPages'
    BY <1>1, <1>3, <1>4 DEF SetupInv, ConfigIsTold, HostIsTold, EjectedHasPages, Exists, PartsOf
  <1>6. ModulesAreTold'
    BY <1>1, <1>3, <1>4, SameModulesAreTold DEF SetupInv
  <1>7. PartsAreEjected'
    BY <1>3, <1>4 DEF SetupInv, PartsAreEjected, Exists, PartsOf
  <1> QED BY <1>1, <1>5, <1>6, <1>7, UnsettledKeeps

\* What users do.

LEMMA EditFileKeeps ==
  ASSUME SetupInv, NEW f, EditFile(f) PROVE SetupInv'
  <1>1. /\ f # Config /\ settled' = Missing /\ praise' = "none" /\ host' = host
        /\ DOMAIN files' = DOMAIN files
        /\ \A g \in DOMAIN files : files'[g] = files[g] \/ (g = f /\ files'[g] = "edited")
    BY DEF EditFile, Change, Claims
  <1>2. ConfigIsTold' /\ HostIsTold' /\ EjectedHasPages'
    BY <1>1 DEF SetupInv, ConfigIsTold, HostIsTold, EjectedHasPages, Exists, PartsOf
  <1>3. ModulesAreTold'
    BY <1>1, SameModulesAreTold DEF SetupInv, OfTemplates
  <1>4. PartsAreEjected'
    BY <1>1 DEF SetupInv, PartsAreEjected, Exists, PartsOf
  <1> QED BY <1>1, <1>2, <1>3, <1>4, UnsettledKeeps

LEMMA RemountKeeps ==
  ASSUME SetupInv, NEW admin \in Mounts \cup {Dynamic}, NEW api \in Apis \cup {Dynamic},
         Remount(admin, api)
  PROVE  SetupInv'
  <1>1. PICK c : c = [[files[Config] EXCEPT !.admin = admin] EXCEPT !.api = api]
    OBVIOUS
  <1>2. /\ Exists(Config) /\ settled' = Missing /\ praise' = "none" /\ host' = host
        /\ DOMAIN files' = DOMAIN files
        /\ \A g \in DOMAIN files : g # Config => files'[g] = files[g]
    BY DEF Remount, Change, Claims
  <1>3. files'[Config] = c
    BY <1>1, <1>2 DEF Remount, Exists
  <1>4. /\ DOMAIN c = DOMAIN files[Config]
        /\ ConfigIsTold => /\ c.admin = admin /\ c.api = api
                           /\ c.live = files[Config].live /\ c.ejected = files[Config].ejected
    BY <1>1, <1>2 DEF ConfigIsTold
  <1>5. ConfigIsTold' /\ HostIsTold'
    BY <1>2, <1>3, <1>4 DEF SetupInv, ConfigIsTold, HostIsTold, Exists
  <1>6. ModulesAreTold'
    BY <1>2, <1>3, KindsDiffer, SameModulesAreTold DEF SetupInv
  <1>7. PartsAreEjected'
    <2>1. \A name \in Pieces : \A f \in ToSet(PartsOf(name)) : f # Config
      BY PartsAre, KindsDiffer
    <2> QED BY <1>2, <2>1 DEF SetupInv, PartsAreEjected, Exists, PartsOf
  <1>8. EjectedHasPages'
    BY <1>2, <1>3, <1>4 DEF SetupInv, EjectedHasPages, Exists, PartsOf
  <1> QED BY <1>2, <1>5, <1>6, <1>7, <1>8, UnsettledKeeps

LEMMA DeclareKeeps ==
  ASSUME SetupInv, NEW name \in Pieces, Declare(name) PROVE SetupInv'
  <1>1. PICK c : c = [files[Config] EXCEPT !.live = @ \cup {name}, !.ejected = @ \ {name}]
    OBVIOUS
  <1>2. /\ Exists(Config) /\ settled' = Missing /\ praise' = "none" /\ host' = host
        /\ DOMAIN files' = DOMAIN files \ ToSet(PartsOf(name))
        /\ \A g \in DOMAIN files' : g # Config => files'[g] = files[g]
    BY DEF Declare, Change, Claims
  <1>3. /\ \A x : \A f \in ToSet(PartsOf(x)) : f # Config /\ f[1] # "module"
        /\ \A x, y : \A f \in ToSet(PartsOf(x)) : f \in ToSet(PartsOf(y)) => x = y
    BY PartsAre, KindsDiffer
  <1>4. Config \in DOMAIN files' /\ files'[Config] = c
    <2>1. Config \in DOMAIN files \ ToSet(PartsOf(name))
      BY <1>2, <1>3 DEF Exists
    <2> QED BY <1>1, <2>1 DEF Declare
  <1>5. /\ DOMAIN c = DOMAIN files[Config]
        /\ ConfigIsTold => /\ c.admin = files[Config].admin /\ c.api = files[Config].api
                           /\ c.live = files[Config].live \cup {name}
                           /\ c.ejected = files[Config].ejected \ {name}
    BY <1>1, <1>2 DEF ConfigIsTold
  <1>6. ConfigIsTold' /\ HostIsTold'
    BY <1>2, <1>4, <1>5 DEF SetupInv, ConfigIsTold, HostIsTold, Exists
  <1>7. ModulesAreTold'
    BY <1>2, KindsDiffer, SameModulesAreTold DEF SetupInv
  <1>8. PartsAreEjected'
    BY <1>2, <1>3 DEF SetupInv, PartsAreEjected, Exists, PartsOf
  <1>9. EjectedHasPages'
    BY <1>2, <1>3, <1>4, <1>5 DEF SetupInv, EjectedHasPages, Exists, PartsOf
  <1> QED BY <1>2, <1>6, <1>7, <1>8, <1>9, UnsettledKeeps

LEMMA AddPageKeeps ==
  ASSUME SetupInv, NEW page, AddPage(page) PROVE SetupInv'
  <1>1. /\ settled' = Missing /\ praise' = "none" /\ files' = files
        /\ DOMAIN host' = DOMAIN host /\ host'.alias = host.alias
    BY DEF SetupInv, HostIsTold, AddPage, Change, Claims
  <1>2. HostIsTold' /\ ConfigIsTold' /\ EjectedHasPages' /\ PartsAreEjected'
    BY <1>1 DEF SetupInv, ConfigIsTold, HostIsTold, EjectedHasPages, PartsAreEjected, Exists, PartsOf
  <1>3. ModulesAreTold'
    BY <1>1, SameModulesAreTold DEF SetupInv
  <1> QED BY <1>1, <1>2, <1>3, UnsettledKeeps

\* Only what a module holds changes, not whether it exports getSession.
LEMMA ConnectSessionKeeps ==
  ASSUME SetupInv, NEW spot \in Places, ConnectSession(spot) PROVE SetupInv'
  <1>1. /\ settled' = settled /\ praise' = "none" /\ host' = host
        /\ Exists(Module(spot)) /\ files[Module(spot)] \in {"closed", "dev"}
        /\ DOMAIN files' = DOMAIN files /\ files'[Module(spot)] = "getSession"
        /\ \A g \in DOMAIN files : g # Module(spot) => files'[g] = files[g]
    <2>1. Exists(Module(spot)) /\ files[Module(spot)] \in {"closed", "dev"}
      BY ProjectAssumption DEF ConnectSession, ContentOf, OfTemplates
    <2> QED BY <2>1 DEF ConnectSession, Change, Claims, Exists
  <1>2. \A where : /\ Exists(Module(where))' <=> Exists(Module(where))
                   /\ Exports(ContentOf(Module(where)))' = Exports(ContentOf(Module(where)))
    <2> SUFFICES ASSUME NEW where
                 PROVE  /\ Exists(Module(where))' <=> Exists(Module(where))
                        /\ Exports(ContentOf(Module(where)))' = Exports(ContentOf(Module(where)))
      OBVIOUS
    <2>1. CASE where = spot
      <3>1. ContentOf(Module(where)) \in {"closed", "dev"} /\ ContentOf(Module(where))' = "getSession"
        BY <1>1, <2>1 DEF ContentOf, Exists
      <3> QED BY <1>1, <2>1, <3>1, ExportsAreThere DEF Exists
    <2>2. CASE where # spot
      <3>1. Module(where) # Module(spot)
        BY <2>2, KindsDiffer
      <3>2. ContentOf(Module(where))' = ContentOf(Module(where))
        BY <1>1, <3>1 DEF ContentOf, Exists
      <3> QED BY <1>1, <3>2 DEF Exists
    <2> QED BY <2>1, <2>2
  <1>3. SameModules
    BY <1>1, <1>2 DEF SameModules
  <1>4. HostIsTold' /\ ConfigIsTold' /\ EjectedHasPages' /\ PraiseIsTrue'
    BY <1>1, KindsDiffer
       DEF SetupInv, ConfigIsTold, HostIsTold, EjectedHasPages, PraiseIsTrue, Exists, PartsOf
  <1>5. PartsAreEjected'
    BY <1>1, PartsAre, KindsDiffer DEF SetupInv, PartsAreEjected, Exists, PartsOf
  <1>6. ModulesAreTold'
    BY <1>1, SameModulesAreTold DEF SetupInv, OfTemplates
  <1>7. SettledFindsItself'
    <2> SUFFICES ASSUME settled' # Missing PROVE SettledFindsItself'
      BY DEF SettledFindsItself
    <2>1. PICK o : settled' = o /\ settled = o /\ o # Missing
      BY <1>1
    <2>2. PICK mount \in Mounts, api \in Apis : FindsItself(o, mount, api)
      BY <2>1 DEF SetupInv, SettledFindsItself
    <2>3. \A where : "getSession" \in Exports(ContentOf(Module(where)))
                      => "getSession" \in Exports(ContentOf(Module(where)))'
      BY <1>2
    <2>4. /\ AuthResolves(o)' /\ (Presets(o)' <=> Presets(o))
          /\ ConfigOfInit(o, mount, api)' = ConfigOfInit(o, mount, api)
      BY <1>3, <2>2, <2>3, AuthStays DEF FindsItself
    <2>5. InitFiles(mount, api, Presets(o))'
      <3>1. SessionFile' = SessionFile /\ SessionFile # spot
        BY <1>1, SameAlias, SpecifiersResolve
      <3>2. \A f : f[1] # "module" \/ f[2] # spot =>
              /\ Exists(f)' <=> Exists(f)
              /\ Exists(f) => files'[f] = files[f]
        BY <1>1, KindsDiffer DEF Exists
      <3> QED BY <1>1, <2>2, <2>4, <3>1, <3>2, KindsDiffer DEF FindsItself, InitFiles
    <2>6. ForeignRoutes(mount)' = {}
      <3>1. DOMAIN files' \ DOMAIN files = {}
        BY <1>1
      <3> QED BY <1>1, <2>2, <3>1, RoutesStay DEF FindsItself
    <2>7. FindsItself(o, mount, api)'
      BY <1>1, <2>2, <2>4, <2>5, <2>6, KindsDiffer DEF FindsItself, Exists
    <2> QED BY <2>1, <2>2, <2>7 DEF SetupInv, SettledFindsItself
  <1> QED BY <1>4, <1>5, <1>6, <1>7 DEF SetupInv

\* A module deleted is the stub or the preset, which the same init writes again.
LEMMA DeleteKeepsAuth ==
  ASSUME ModulesAreTold, NEW f \in DOMAIN files, files[f] \in OfTemplates,
         files' = [other \in DOMAIN files \ {f} |-> files[other]], host' = host,
         NEW o, AuthResolves(o),
         ~(f = Module(StubFile) /\ host.provider = "clerk" /\ o.auth = Missing /\ ~o.devAuth),
         ~(o.auth \notin {Missing, GuessedAuth} /\ f = Module(Resolve(o.auth)))
  PROVE  AuthResolves(o)' /\ AuthOf(o)' = AuthOf(o) /\ (Presets(o)' <=> Presets(o))
  <1>1. /\ StubFile' = StubFile /\ SessionFile' = SessionFile /\ GuessedAuth' = GuessedAuth
        /\ \A x : AliasOf(x)' = AliasOf(x) /\ Resolve(x)' = Resolve(x)
    BY SameAlias
  <1>2. \A g : g # f => /\ Exists(g)' <=> Exists(g)
                        /\ ContentOf(g)' = ContentOf(g)
    BY DEF Exists, ContentOf
  <1>3. ASSUME NEW x, "getSession" \in ExportsOf(x), f # Module(Resolve(x))
        PROVE  "getSession" \in ExportsOf(x)'
    <2>1. ContentOf(Module(Resolve(x)))' = ContentOf(Module(Resolve(x)))
      BY <1>1, <1>2, <1>3
    <2> QED BY <1>1, <1>3, <2>1 DEF ExportsOf
  <1>4. CASE f = Module(StubFile)
    <2>1. Exists(f) /\ files[f] \in {"closed", "dev"} /\ ~Exists(f)'
      BY <1>4, SpecifiersResolve, KindsDiffer DEF ModulesAreTold, Exists
    <2>2. DetectedAuth = GuessedAuth /\ DetectedAuth # Missing
      BY <1>4, <2>1, OneIsDetected, SpecifiersResolve
    <2>3. DetectedAuth' = Missing
      <3>1. DetectedIsFirst'
        BY DetectedIsThere, PTL
      <3>2. \A w \in Places : ~Exists(Module(w))'
        BY <1>2, <1>4, <2>1, SpecifiersResolve DEF ModulesAreTold
      <3> QED BY <3>1, <3>2 DEF DetectedIsFirst
    <2>4. "getSession" \in ExportsOf(DetectedAuth)
      <3>1. ExportsOf(GuessedAuth) = Exports(ContentOf(Module(StubFile)))
        BY SpecifiersResolve, ExportsAreThere
      <3>2. ContentOf(Module(StubFile)) \in {"closed", "dev"}
        BY <1>4, <2>1 DEF ContentOf
      <3> QED BY <2>2, <3>1, <3>2, ExportsAreThere
    <2>5. ~Presets(o)
      BY <2>4 DEF Presets
    <2>6. ExportsOf(DetectedAuth)' = {}
      BY <2>3 DEF ExportsOf
    <2>7. ~Presets(o)'
      BY <1>4, <2>6 DEF Presets
    <2>8. AuthOf(o)' = AuthOf(o) /\ AuthOf(o) = IF o.auth # Missing THEN o.auth ELSE GuessedAuth
      BY <1>1, <2>2, <2>3, <2>5, <2>7 DEF AuthOf
    <2>9. AuthResolves(o)'
      <3>1. CASE AuthOf(o) = GuessedAuth
        BY <1>1, <2>3, <2>7, <2>8, <3>1 DEF AuthResolves, Stubs
      <3>2. CASE AuthOf(o) # GuessedAuth
        <4>1. AuthOf(o) = o.auth /\ o.auth \notin {Missing, GuessedAuth}
          BY <2>8, <3>2
        <4>2. "getSession" \in ExportsOf(o.auth) /\ f # Module(Resolve(o.auth))
          BY <2>5, <3>2, <4>1 DEF AuthResolves, Stubs
        <4>3. "getSession" \in ExportsOf(o.auth)'
          BY <1>3, <4>2
        <4>4. ExportsOf(AuthOf(o))' = ExportsOf(o.auth)'
          BY <2>8, <4>1 DEF ExportsOf, Resolve
        <4> QED BY <4>3, <4>4 DEF AuthResolves
      <3> QED BY <3>1, <3>2
    <2> QED BY <2>5, <2>7, <2>8, <2>9
  <1>5. CASE f # Module(StubFile)
    <2>1. \A w \in Places : f # Module(w)
      BY <1>5, SpecifiersResolve, KindsDiffer DEF ModulesAreTold, Exists
    <2>2. SameModules
      <3> SUFFICES ASSUME NEW w \in Places
                   PROVE  /\ Exists(Module(w))' <=> Exists(Module(w))
                          /\ Exports(ContentOf(Module(w)))' = Exports(ContentOf(Module(w)))
        BY DEF SameModules
      <3> QED BY <1>2, <2>1
    <2>3. AuthOf(o)' = AuthOf(o) /\ (Presets(o)' <=> Presets(o)) /\ (Stubs(o)' <=> Stubs(o))
      BY <2>2, SameModulesSameAuth
    <2>4. ASSUME ~Presets(o), "getSession" \in ExportsOf(AuthOf(o))
          PROVE  f # Module(Resolve(AuthOf(o)))
      <3>1. CASE AuthOf(o) = GuessedAuth
        BY <2>1, <3>1, SpecifiersResolve
      <3>2. CASE AuthOf(o) # GuessedAuth /\ o.auth # Missing
        BY <3>2 DEF AuthOf
      <3>3. CASE AuthOf(o) # GuessedAuth /\ o.auth = Missing
        <4>1. AuthOf(o) = DetectedAuth /\ DetectedAuth # Missing
          BY <2>4, <3>3 DEF AuthOf
        <4>2. PICK w \in Places : DetectedAuth = AliasOf(w)
          BY <4>1, DetectedIsThere DEF DetectedIsFirst
        <4> QED BY <2>1, <4>1, <4>2, SpecifiersResolve
      <3> QED BY <3>1, <3>2, <3>3
    <2>5. AuthResolves(o)'
      <3>1. CASE Presets(o) \/ Stubs(o)
        BY <2>3, <3>1 DEF AuthResolves
      <3>2. CASE ~Presets(o) /\ ~Stubs(o)
        <4>1. "getSession" \in ExportsOf(AuthOf(o))
          BY <3>2 DEF AuthResolves
        <4>2. PICK x : x = AuthOf(o)
          OBVIOUS
        <4>3. "getSession" \in ExportsOf(x)'
          BY <1>3, <2>4, <3>2, <4>1, <4>2
        <4>4. ExportsOf(AuthOf(o))' = ExportsOf(x)'
          BY <2>3, <4>2 DEF ExportsOf, Resolve
        <4> QED BY <4>3, <4>4 DEF AuthResolves
      <3> QED BY <3>1, <3>2
    <2> QED BY <2>3, <2>5
  <1> QED BY <1>4, <1>5

LEMMA DeleteKeeps ==
  ASSUME SetupInv, NEW f \in DOMAIN files, Delete(f) PROVE SetupInv'
  <1>1. /\ praise' = "none" /\ host' = host
        /\ f # Config => files[f] \in OfTemplates
        /\ files' = [other \in DOMAIN files \ {f} |-> files[other]]
        /\ settled' = IF TakesInitBack(f) THEN Missing ELSE settled
    BY DEF Delete, Change, Claims
  <1>2. DOMAIN files' = DOMAIN files \ {f} /\ \A g \in DOMAIN files' : files'[g] = files[g]
    BY <1>1
  <1>3. HostIsTold' /\ ConfigIsTold'
    BY <1>1, <1>2 DEF SetupInv, HostIsTold, ConfigIsTold, Exists
  <1>4. ModulesAreTold'
    BY <1>1, <1>2, SameModulesAreTold DEF SetupInv
  <1>5. PartsAreEjected'
    BY <1>2 DEF SetupInv, PartsAreEjected, Exists, PartsOf
  <1>6. EjectedHasPages'
    <2> SUFFICES ASSUME Config \in DOMAIN files', NEW name \in files'[Config].ejected,
                        NEW g \in ToSet(PartsOf(name))
                 PROVE  g \in DOMAIN files'
      BY DEF EjectedHasPages, Exists, PartsOf
    <2>1. Config \in DOMAIN files /\ f # Config /\ name \in files[Config].ejected
      BY <1>2
    <2>2. g \in DOMAIN files /\ name \in Pieces
      BY <2>1 DEF SetupInv, EjectedHasPages, ConfigIsTold, Exists
    <2>3. files[g] \in {"ejected", "edited"}
      BY <2>2 DEF SetupInv, PartsAreEjected, Exists
    <2> QED BY <1>1, <1>2, <2>1, <2>2, <2>3 DEF OfTemplates
  <1>7. SettledFindsItself'
    <2> SUFFICES ASSUME settled' # Missing PROVE SettledFindsItself'
      BY DEF SettledFindsItself
    <2>1. PICK o : settled' = o /\ settled = o /\ o # Missing /\ ~TakesInitBack(f)
      BY <1>1
    <2>2. PICK mount \in Mounts, api \in Apis : FindsItself(o, mount, api)
      BY <2>1 DEF SetupInv, SettledFindsItself
    <2>3. f # Config
      BY <2>1 DEF TakesInitBack
    <2>4. AuthResolves(o)' /\ AuthOf(o)' = AuthOf(o) /\ (Presets(o)' <=> Presets(o))
      <3>1. /\ ~(f = Module(StubFile) /\ host.provider = "clerk" /\ o.auth = Missing /\ ~o.devAuth)
            /\ ~(o.auth \notin {Missing, GuessedAuth} /\ f = Module(Resolve(o.auth)))
        BY <2>1 DEF TakesInitBack
      <3> QED BY <1>1, <2>2, <2>3, <3>1, DeleteKeepsAuth DEF SetupInv, FindsItself
    <2>5. ConfigOfInit(o, mount, api)' = ConfigOfInit(o, mount, api)
      BY <2>4 DEF ConfigOfInit
    <2>6. InitFiles(mount, api, Presets(o))'
      BY <1>1, <1>2, <2>2, <2>4, SameAlias DEF FindsItself, InitFiles, Exists
    <2>7. ForeignRoutes(mount)' = {}
      <3>1. DOMAIN files' \ DOMAIN files = {}
        BY <1>2
      <3> QED BY <1>1, <2>2, <3>1, RoutesStay DEF FindsItself
    <2>8. FindsItself(o, mount, api)'
      BY <1>2, <2>2, <2>3, <2>4, <2>5, <2>6, <2>7 DEF FindsItself, Exists
    <2> QED BY <2>1, <2>2, <2>8 DEF SetupInv, SettledFindsItself
  <1> QED BY <1>1, <1>3, <1>4, <1>5, <1>6, <1>7 DEF SetupInv, PraiseIsTrue

LEMMA DoctorLooksKeeps ==
  ASSUME SetupInv, NEW path, DoctorLooks(path) PROVE SetupInv'
  <1>1. UNCHANGED <<host, files, settled>>
    BY DEF DoctorLooks, NothingWritten
  <1>2. PraiseIsTrue'
    <2> SUFFICES ASSUME praise' # "none" PROVE PraiseIsTrue'
      BY DEF PraiseIsTrue
    <2>1. /\ ~Incomplete(path) /\ ~Ailing(path) /\ MountAt(path) = Configured.admin
          /\ praise' = "healthy"
      BY DEF DoctorLooks, Diagnoses, Claims
    <2>2. PICK m, a : m = MountAt(path) /\ a = Configured.api
      OBVIOUS
    <2>3. Exists(Config) /\ Static(m) /\ Static(a) /\ ForeignRoutes(m) = {}
      BY <2>1, <2>2 DEF Ailing
    <2>4. \A f \in {Api(a), Sse(a), Migration, Page(m)} : Exists(f)
      BY <2>1, <2>2, <2>3, FixableAre DEF Incomplete
    <2>5. files[Config].admin = m /\ files[Config].api = a
      BY <2>1, <2>2, <2>3, ProjectAssumption DEF Configured, Static
    <2>6. ForeignRoutes(files[Config].admin)' = ForeignRoutes(m)
      BY <1>1, <2>5 DEF ForeignRoutes, RoutesUnder, Routes, Exists
    <2> QED BY <1>1, <2>1, <2>3, <2>4, <2>5, <2>6 DEF PraiseIsTrue, Exists
  <1> QED BY <1>1, <1>2, NothingWrittenKeeps

LEMMA SetupStep == SetupInv /\ [SetupNext]_setup => SetupInv'
  <1> SUFFICES ASSUME SetupInv, [SetupNext]_setup PROVE SetupInv'
    OBVIOUS
  <1>1. ASSUME NEW o \in InitOptions, InitStops(o) PROVE SetupInv'
    <2>1. UNCHANGED <<host, files, settled>> /\ praise' = "none"
      BY <1>1 DEF InitStops, NothingWritten, Claims
    <2> QED BY <2>1, NothingWrittenKeeps DEF PraiseIsTrue
  <1>2. ASSUME UserChanges PROVE SetupInv'
    <2>1. ASSUME NEW version, Reinstall(version) PROVE SetupInv'
      <3>1. UNCHANGED <<host, files, settled>> /\ praise' = "none"
        BY <2>1 DEF Reinstall, Change, Claims
      <3> QED BY <3>1, NothingWrittenKeeps DEF PraiseIsTrue
    <2> QED BY <1>2, <2>1, DeleteKeeps, EditFileKeeps, ConnectSessionKeeps, RemountKeeps,
               DeclareKeeps, AddPageKeeps
            DEF UserChanges, Places
  <1>3. CASE UNCHANGED setup
    <2>1. UNCHANGED <<host, files, settled>> /\ praise' = praise
      BY <1>3 DEF setup
    <2>2. PraiseIsTrue'
      <3>1. \A m : ForeignRoutes(m)' = ForeignRoutes(m)
        BY <2>1 DEF ForeignRoutes, RoutesUnder, Routes, Exists
      <3>2. \A x : ExportsOf(x)' = ExportsOf(x)
        BY <2>1 DEF ExportsOf, Resolve, ContentOf, Exists
      <3> QED BY <2>1, <3>1, <3>2 DEF SetupInv, PraiseIsTrue, Exists
    <2> QED BY <2>1, <2>2, NothingWrittenKeeps
  <1> QED BY <1>1, <1>2, <1>3, InitKeeps, DoctorLooksKeeps, DoctorKeeps, NewKeeps, EjectKeeps,
             EjectLayoutKeeps
          DEF SetupNext

\* Another run of the same init has nothing in its way.
LEMMA SameInitApplies ==
  ASSUME SetupInv, KitFits, NEW o, NEW mount \in Mounts, NEW api \in Apis,
         FindsItself(o, mount, api)
  PROVE  InitApplies(o)
  <1>1. Exists(Config) /\ files[Config].admin = mount /\ files[Config].api = api
    BY DEF FindsItself, ConfigOfInit
  <1>2. Configured.admin = mount /\ Configured.api = api
    BY <1>1, ProjectAssumption DEF Configured
  <1>3. Wanted(o) = mount /\ MountOf(o) = mount /\ ApiOf = api /\ Static(mount) /\ Static(api)
    BY <1>1, <1>2, ProjectAssumption DEF FindsItself, Wanted, MountOf, ApiOf, Static
  <1>4. Conflicts(mount) = {}
    BY FreeMounts DEF FindsItself, InitFiles
  <1>5. InitAdmits(o)
    BY <1>3, <1>4 DEF InitAdmits, FindsItself
  <1>6. ASSUME NEW e \in InitEntries(o, mount, api), Exists(e[1]) PROVE files[e[1]] = e[2]
    <2>1. Stubs(o) => ~Exists(Module(StubFile))
      BY OneIsDetected, SpecifiersResolve DEF SetupInv, Stubs
    <2>2. \A f \in {Page(mount), Api(api), Sse(api), Css, Migration} :
            e = <<f, "generated">> => files[e[1]] = e[2]
      BY <1>6 DEF FindsItself, InitFiles
    <2>3. e = <<Config, ConfigOfInit(o, mount, api)>> => files[e[1]] = e[2]
      BY DEF FindsItself
    <2>4. e = <<Layout(mount), IF host.rootLayout THEN "inner" ELSE "root">> => files[e[1]] = e[2]
      BY <1>6 DEF FindsItself, InitFiles
    <2>5. Presets(o) /\ e = <<Module(SessionFile), "preset">> => files[e[1]] = e[2]
      BY <1>6 DEF FindsItself, InitFiles
    <2>6. ~(Stubs(o) /\ e = <<Module(StubFile), IF o.devAuth THEN "dev" ELSE "closed">>)
      BY <1>6, <2>1
    <2> QED BY <2>2, <2>3, <2>4, <2>5, <2>6 DEF InitEntries
  <1>7. ~Blocked(InitPlan(o))
    <2>1. ToSet(InitPlan(o)) = InitEntries(o, mount, api)
      BY <1>3, InitPlanIs
    <2> QED BY <1>6, <2>1 DEF Blocked, Differs, ContentOf
  <1> QED BY <1>5, <1>7 DEF InitApplies

LEMMA ProjectIsWhole == SetupInv => ProjectStaysWhole
  <1> SUFFICES ASSUME SetupInv, settled # Missing, KitFits, NEW again \in Again(settled)
               PROVE  InitApplies(again)
    BY DEF ProjectStaysWhole, RerunCompletes, SetupInv
  <1>1. PICK mount \in Mounts, api \in Apis : FindsItself(settled, mount, api)
    BY DEF SetupInv, SettledFindsItself
  <1>2. CASE again = settled
    BY <1>1, <1>2, SameInitApplies
  <1>3. CASE again # settled
    <2>1. /\ settled.devAuth /\ Exists(Module(StubFile))
          /\ again = [settled EXCEPT !.devAuth = FALSE]
      BY <1>3 DEF Again
    <2>2. again.path = settled.path /\ again.auth = settled.auth
      BY <2>1, ProjectAssumption DEF SetupInv, SettledFindsItself
    <2>3. DetectedAuth # Missing
      BY <2>1, OneIsDetected, SpecifiersResolve DEF SetupInv
    <2>4. ~Presets(settled) /\ ~Stubs(settled)
      BY <2>1, <2>3 DEF Presets, Stubs
    <2>5. "getSession" \in ExportsOf(AuthOf(settled))
      BY <1>1, <2>4 DEF FindsItself, AuthResolves
    <2>6. settled.auth = Missing => AuthOf(settled) = DetectedAuth
      BY <2>3, <2>4 DEF AuthOf
    <2>7. ~Presets(again)
      BY <2>2, <2>5, <2>6 DEF Presets
    <2>8. AuthOf(again) = AuthOf(settled)
      BY <2>2, <2>4, <2>7 DEF AuthOf
    <2>9. AuthResolves(again)
      BY <2>5, <2>8 DEF AuthResolves
    <2>10. FindsItself(again, mount, api)
      BY <1>1, <2>2, <2>4, <2>7, <2>8, <2>9 DEF FindsItself, InitFiles, ConfigOfInit
    <2> QED BY <2>10, SameInitApplies
  <1> QED BY <1>2, <1>3

\* The inductive invariant of a project holds throughout.
THEOREM SetupInvariance == CliSpec => []SetupInv
  <1>1. CliInit => SetupInv
    BY SetupStarts DEF CliInit
  <1>2. SetupInv /\ [CliNext]_cli => SetupInv'
    <2>1. [CliNext]_cli => [SetupNext]_setup
      BY DEF CliNext, cli
    <2> QED BY <2>1, SetupStep
  <1> QED BY <1>1, <1>2, PTL DEF CliSpec

\* The same init completes again whatever was killed, repaired, deleted or connected
\* since; a command's praise is true; an ejected piece has all its files.
THEOREM ProjectsStayWhole == CliSpec => []ProjectStaysWhole
  BY SetupInvariance, ProjectIsWhole, PTL

-----------------------------------------------------------------------------
(* Statements.  In a file without the constructs that the lexers are known *)
(* to read differently, both are in the same mode after every character,   *)
(* but for the words that only the database knows; so they cut at the same *)
(* semicolons, and what a statement holds for one it holds for the other.  *)

\* The modes a database's lexer can be in.
Modes(d) ==
  {Plain, Word, Line} \cup
  CASE d = "pg"     -> {Block(n) : n \in 1..MaxDepth} \cup {In(q) : q \in {"quote", "dquote"}}
                       \cup {Body(n) : n \in {2, 3}}
    [] d = "mysql"  -> {Block(1)} \cup {In(q) : q \in Quotes}
    [] d = "sqlite" -> {Block(1)} \cup {In(q) : q \in Quotes \cup {"open"}}

\* What the lexer of the code is in meanwhile.
CodeMode(m) == IF m = Word THEN Plain ELSE m

\* None of the Constructs is used by the characters x, y, z.
Common(d, m, x, y, z) ==
  /\ m[1] = "in" /\ x = "backslash" => d = "mysql" /\ m # In("tick")
  /\ d # "pg" /\ m[1] = "block" => ~(x = "slash" /\ y = "star")
  /\ d # "sqlite" /\ m \in Outside => x # "open"
  /\ m = In("open") => ~(x = "close" /\ y = "close")
  /\ m = Word => x # "dollar"
  /\ d # "pg" /\ m \in Outside /\ x = "dollar" =>
       y # "dollar" /\ ~(y = "letter" /\ z = "dollar")
  /\ d = "pg" /\ m \in Outside => x # "tick"

\* The characters of a rule are those that are read.
LEMMA PrefixIs ==
  ASSUME NEW x, NEW y, NEW z
  PROVE  /\ \A a : IsPrefix(<<a>>, <<x, y, z>>) <=> a = x
         /\ \A a, b : IsPrefix(<<a, b>>, <<x, y, z>>) <=> a = x /\ b = y
         /\ \A a, b, c : IsPrefix(<<a, b, c>>, <<x, y, z>>) <=> a = x /\ b = y /\ c = z
  <1> DEFINE t == <<x, y, z>>
  <1>1. ASSUME NEW a PROVE IsPrefix(<<a>>, t) <=> a = x
    <2>1. PICK S : S = {a, x, y, z}
      OBVIOUS
    <2>2. t \in Seq(S) /\ Len(t) = 3 /\ <<a>> \in Seq(S) /\ Len(<<a>>) = 1
      BY <2>1
    <2>3. /\ SubSeq(t, 1, 1) \in Seq(S) /\ Len(SubSeq(t, 1, 1)) = 1 /\ SubSeq(t, 1, 1)[1] = x
      BY <2>2, SubSeqProperties
    <2>4. SubSeq(<<a>>, 1, 1) \in Seq(S) /\ Len(SubSeq(<<a>>, 1, 1)) = 1
          /\ SubSeq(<<a>>, 1, 1)[1] = a
      BY <2>2, SubSeqProperties
    <2> QED BY <2>2, <2>3, <2>4 DEF IsPrefix
  <1>2. ASSUME NEW a, NEW b PROVE IsPrefix(<<a, b>>, t) <=> a = x /\ b = y
    <2>1. PICK S : S = {a, b, x, y, z}
      OBVIOUS
    <2>2. t \in Seq(S) /\ Len(t) = 3 /\ <<a, b>> \in Seq(S) /\ Len(<<a, b>>) = 2
      BY <2>1
    <2>3. /\ SubSeq(t, 1, 2) \in Seq(S) /\ Len(SubSeq(t, 1, 2)) = 2
          /\ SubSeq(t, 1, 2)[1] = x /\ SubSeq(t, 1, 2)[2] = y
      BY <2>2, SubSeqProperties
    <2>4. /\ SubSeq(<<a, b>>, 1, 2) \in Seq(S) /\ Len(SubSeq(<<a, b>>, 1, 2)) = 2
          /\ SubSeq(<<a, b>>, 1, 2)[1] = a /\ SubSeq(<<a, b>>, 1, 2)[2] = b
      BY <2>2, SubSeqProperties
    <2> QED BY <2>2, <2>3, <2>4 DEF IsPrefix
  <1>3. ASSUME NEW a, NEW b, NEW c PROVE IsPrefix(<<a, b, c>>, t) <=> a = x /\ b = y /\ c = z
    <2>1. PICK S : S = {a, b, c, x, y, z}
      OBVIOUS
    <2>2. t \in Seq(S) /\ Len(t) = 3 /\ <<a, b, c>> \in Seq(S) /\ Len(<<a, b, c>>) = 3
      BY <2>1
    <2>3. /\ SubSeq(t, 1, 3) \in Seq(S) /\ Len(SubSeq(t, 1, 3)) = 3
          /\ SubSeq(t, 1, 3)[1] = x /\ SubSeq(t, 1, 3)[2] = y /\ SubSeq(t, 1, 3)[3] = z
      BY <2>2, SubSeqProperties
    <2>4. PICK u : u = <<a, b, c>>
      OBVIOUS
    <2>5. /\ SubSeq(u, 1, 3) \in Seq(S) /\ Len(SubSeq(u, 1, 3)) = 3
          /\ SubSeq(u, 1, 3)[1] = a /\ SubSeq(u, 1, 3)[2] = b /\ SubSeq(u, 1, 3)[3] = c
      BY <2>2, <2>4, SubSeqProperties
    <2> QED BY <2>2, <2>3, <2>4, <2>5 DEF IsPrefix
  <1> QED BY <1>1, <1>2, <1>3

\* A rule applies in a mode to the characters that are read.
Applies(r, m, x, y, z) == m \in r.in /\ IsPrefix(r.sees, <<x, y, z>>)

\* What begins outside of everything begins inside of a word, but for the bodies.
OfOutside(r) == r.in = Outside \/ (Plain \notin r.in /\ Word \notin r.in)

\* A rule sees and takes a few characters.
Short(r) == Len(r.sees) \in 1..3 /\ r.takes \in 1..3

\* Line comments.
LEMMA LineRules ==
  ASSUME NEW d, NEW r \in LineComment(d)
  PROVE  OfOutside(r) /\ Short(r) /\ r.to \in {Plain, Line}
  BY DEF LineComment, OfOutside, Short, Rule, Line, Plain, Word, Outside

\* Comments.
LEMMA CommentRules ==
  ASSUME NEW r \in Comment
  PROVE  OfOutside(r) /\ Short(r) /\ r.to \in {Plain, Block(1)}
  BY DEF Comment, OfOutside, Short, Rule, Block, Plain, Word, Outside

\* Comments in comments.
LEMMA NestingRules ==
  ASSUME NEW r \in Nesting
  PROVE  /\ OfOutside(r) /\ Short(r)
         /\ \E n \in 1..MaxDepth : r.to = Block(n)
         /\ \E n \in 1..MaxDepth : r.in = {Block(n)} /\ (r.sees = <<"slash", "star">> \/ n # 1)
  <1>1. CASE \E n \in 1..MaxDepth - 1 : r = Rule({Block(n)}, <<"slash", "star">>, 2, Block(n + 1))
    BY <1>1, DepthAssumption DEF OfOutside, Short, Rule, Block, Plain, Word, Outside
  <1>2. CASE \E n \in 2..MaxDepth : r = Rule({Block(n)}, <<"star", "slash">>, 2, Block(n - 1))
    BY <1>2, DepthAssumption DEF OfOutside, Short, Rule, Block, Plain, Word, Outside
  <1> QED BY <1>1, <1>2 DEF Nesting

\* Of quotes and brackets.
LEMMA EnclosedRules ==
  ASSUME NEW open \in Chars, NEW close \in Chars, NEW r \in Enclosed(open, close)
  PROVE  /\ OfOutside(r) /\ Short(r) /\ r.to \in {Plain, In(open)}
         /\ \/ r.in = Outside /\ r.sees = <<open>>
            \/ r.in = {In(open)} /\ r.sees \in {<<close>>, <<close, close>>}
  BY DEF Enclosed, OfOutside, Short, Rule, In, Plain, Word, Outside

\* Escapes, inside of quotes.
LEMMA EscapeRules ==
  ASSUME NEW quotes, NEW r \in Escapes(quotes)
  PROVE  \E q \in quotes, c \in Chars :
           /\ r = Rule({In(q)}, <<"backslash", c>>, 2, In(q))
           /\ OfOutside(r) /\ Short(r)
  BY DEF Escapes, OfOutside, Short, Rule, In, Plain, Word, Outside

\* Bodies between dollar tags.
LEMMA BodyRules ==
  ASSUME NEW r \in Bodies({Plain})
  PROVE  /\ Short(r) /\ Word \notin r.in /\ r.sees \in Tags
         /\ \E n \in {2, 3} : \/ r.in = {Plain} /\ r.to = Body(n)
                              \/ r.in = {Body(n)} /\ r.to = Plain
  <1>1. PICK t \in Tags : \/ r = Rule({Plain}, t, Len(t), Body(Len(t)))
                          \/ r = Rule({Body(Len(t))}, t, Len(t), Plain)
    BY DEF Bodies
  <1>2. Len(t) \in {2, 3}
    BY DEF Tags
  <1>3. r.sees = t /\ r.takes = Len(t)
    BY <1>1 DEF Rule
  <1>4. Short(r) /\ r.sees \in Tags
    BY <1>2, <1>3 DEF Short
  <1>5. \/ r.in = {Plain} /\ r.to = Body(Len(t))
        \/ r.in = {Body(Len(t))} /\ r.to = Plain
    BY <1>1 DEF Rule
  <1>6. Word # Plain /\ Word # Body(Len(t))
    BY DEF Body, Plain, Word
  <1> QED BY <1>2, <1>4, <1>5, <1>6

\* Words.
LEMMA WordRules ==
  ASSUME NEW r \in Words
  PROVE  \/ r = Rule(Outside, <<"letter">>, 1, Word)
         \/ r = Rule({Word}, <<"dollar">>, 1, Word)
  BY DEF Words

\* Facts about the modes that the cases of the next lemmas turn on.
LEMMA ModesAre ==
  ASSUME NEW d \in Dialects, NEW m \in Modes(d)
  PROVE  /\ d \in {"pg", "mysql", "sqlite"}
         /\ Word # Plain
         /\ \A n : m = Block(n) => m[1] = "block" /\ m \notin Outside /\ (d # "pg" => n = 1)
         /\ \A q : m = In(q) => /\ m[1] = "in" /\ m \notin Outside
                                /\ d = "pg" => q \in {"quote", "dquote"}
                                /\ d = "mysql" => q \in Quotes
                                /\ d = "sqlite" => q \in Quotes \cup {"open"}
         /\ \A n : m = Body(n) => d = "pg" /\ m \notin Outside
         /\ CodeMode(m) = Plain <=> m \in Outside
         /\ m # Word => CodeMode(m) = m
  <1>1. d \in {"pg", "mysql", "sqlite"}
    BY DialectsAssumption
  <1>2. Word # Plain
    BY DEF Word, Plain
  <1>3. \A n : m = Block(n) => m[1] = "block" /\ m \notin Outside /\ (d # "pg" => n = 1)
    <2> SUFFICES ASSUME NEW n, m = Block(n)
                 PROVE  m[1] = "block" /\ m \notin Outside /\ (d # "pg" => n = 1)
      OBVIOUS
    <2>1. m[1] = "block" /\ m \notin Outside
      BY DEF Block, Outside, Plain, Word
    <2>2. d # "pg" => n = 1
      BY <1>1 DEF Modes, Block, In, Plain, Word, Line
    <2> QED BY <2>1, <2>2
  <1>4. ASSUME NEW q, m = In(q)
        PROVE  /\ m[1] = "in" /\ m \notin Outside
               /\ d = "pg" => q \in {"quote", "dquote"}
               /\ d = "mysql" => q \in Quotes
               /\ d = "sqlite" => q \in Quotes \cup {"open"}
    <2>1. m[1] = "in" /\ m \notin Outside
      BY <1>4 DEF In, Outside, Plain, Word
    <2>2. d = "pg" => q \in {"quote", "dquote"}
      BY <1>4 DEF Modes, Block, In, Plain, Word, Line, Body
    <2>3. d = "mysql" => q \in Quotes
      BY <1>4 DEF Modes, Block, In, Plain, Word, Line, Body
    <2>4. d = "sqlite" => q \in Quotes \cup {"open"}
      BY <1>4 DEF Modes, Block, In, Plain, Word, Line, Body
    <2> QED BY <2>1, <2>2, <2>3, <2>4
  <1>5. ASSUME NEW n, m = Body(n) PROVE d = "pg" /\ m \notin Outside
    BY <1>1, <1>5 DEF Modes, Block, In, Plain, Word, Line, Body, Outside
  <1>6. (CodeMode(m) = Plain <=> m \in Outside) /\ (m # Word => CodeMode(m) = m)
    BY <1>2 DEF CodeMode, Outside
  <1> QED BY <1>1, <1>2, <1>3, <1>4, <1>5, <1>6

\* A rule that begins outside of everything does so for both lexers.
LEMMA OutsideAlike ==
  ASSUME NEW d \in Dialects, NEW m \in Modes(d), NEW r, OfOutside(r)
  PROVE  m \in r.in <=> CodeMode(m) \in r.in
  BY ModesAre DEF OfOutside, CodeMode, Outside

\* Everything but the bodies.
LEMMA RulesOfOutside ==
  ASSUME NEW d,
         NEW r \in LineComment(d) \cup Comment \cup Nesting
                   \cup Quoted(Quotes) \cup Escapes(Quotes) \cup Brackets
  PROVE  OfOutside(r) /\ Short(r)
  <1>1. CASE r \in LineComment(d)
    BY <1>1, LineRules
  <1>2. CASE r \in Comment
    BY <1>2, CommentRules
  <1>3. CASE r \in Nesting
    BY <1>3, NestingRules
  <1>4. CASE r \in Quoted(Quotes)
    <2>1. PICK q \in Quotes : r \in Enclosed(q, q)
      BY <1>4 DEF Quoted
    <2>2. q \in Chars
      BY DEF Chars
    <2> QED BY <2>1, <2>2, EnclosedRules
  <1>5. CASE r \in Escapes(Quotes)
    BY <1>5, EscapeRules
  <1>6. CASE r \in Brackets
    <2>1. "open" \in Chars /\ "close" \in Chars
      BY DEF Chars
    <2> QED BY <1>6, <2>1, EnclosedRules DEF Brackets
  <1> QED BY <1>1, <1>2, <1>3, <1>4, <1>5, <1>6

\* The rules that the database has, the code has too, but for the words.
LEMMA ServerToCode ==
  ASSUME NEW d \in Dialects, NEW m \in Modes(d), NEW x, NEW y, NEW z, Common(d, m, x, y, z),
         ~(m \in Outside /\ x = "letter"),
         NEW r \in ServerRules[d], Applies(r, m, x, y, z)
  PROVE  r \in CodeRules[d] /\ Applies(r, CodeMode(m), x, y, z)
  <1>1. \/ r \in LineComment(d) \cup Comment
        \/ r \in Words
        \/ d = "pg" /\ r \in Nesting \cup Quoted(Quotes \ {"tick"}) \cup Bodies({Plain})
        \/ d = "mysql" /\ r \in Quoted(Quotes) \cup Escapes(Quotes \ {"tick"})
        \/ d = "sqlite" /\ r \in Quoted(Quotes) \cup Brackets
    BY ModesAre DEF ServerRules
  <1>2. CodeRules[d] = LineComment(d) \cup Comment \cup Nesting
                       \cup Quoted(Quotes) \cup Escapes(Quotes) \cup Brackets \cup Bodies({Plain})
    BY DEF CodeRules
  <1>3. r \notin Words
    <2> SUFFICES ASSUME r \in Words PROVE FALSE
      OBVIOUS
    <2>1. CASE r = Rule(Outside, <<"letter">>, 1, Word)
      BY <2>1, PrefixIs DEF Applies, Rule
    <2>2. CASE r = Rule({Word}, <<"dollar">>, 1, Word)
      BY <2>2, PrefixIs DEF Applies, Rule, Common
    <2> QED BY <2>1, <2>2, WordRules
  <1>4. /\ Quoted(Quotes \ {"tick"}) \subseteq Quoted(Quotes)
        /\ Escapes(Quotes \ {"tick"}) \subseteq Escapes(Quotes)
    BY DEF Quoted, Escapes
  <1>5. r \in CodeRules[d]
    BY <1>1, <1>2, <1>3, <1>4
  <1>6. CASE r \in Bodies({Plain})
    BY <1>5, <1>6, BodyRules, ModesAre DEF Applies
  <1>7. CASE r \notin Bodies({Plain})
    <2>1. OfOutside(r)
      BY <1>2, <1>5, <1>7, RulesOfOutside
    <2> QED BY <1>5, <2>1, OutsideAlike DEF Applies
  <1> QED BY <1>6, <1>7

\* Every pair of characters that begins with a backslash is an escape.
LEMMA EscapesOf ==
  ASSUME NEW quotes, NEW q \in quotes, NEW c \in Chars
  PROVE  Rule({In(q)}, <<"backslash", c>>, 2, In(q)) \in Escapes(quotes)
  BY DEF Escapes

\* Every rule of the code that applies, the database has too.
LEMMA CodeToServer ==
  ASSUME NEW d \in Dialects, NEW m \in Modes(d), NEW x, NEW y, NEW z, Common(d, m, x, y, z),
         NEW r \in CodeRules[d], Applies(r, CodeMode(m), x, y, z)
  PROVE  r \in ServerRules[d] /\ Applies(r, m, x, y, z)
  <1> DEFINE Outer == LineComment(d) \cup Comment \cup Nesting
                      \cup Quoted(Quotes) \cup Escapes(Quotes) \cup Brackets
  <1>1. r \in Outer \cup Bodies({Plain})
    BY DEF CodeRules
  <1>2. d \in {"pg", "mysql", "sqlite"}
    BY ModesAre
  <1>3. r \in Outer => Applies(r, m, x, y, z)
    BY RulesOfOutside, OutsideAlike DEF Applies
  <1>4. /\ LineComment(d) \cup Comment \subseteq ServerRules[d]
        /\ d = "pg" => Nesting \cup Quoted(Quotes \ {"tick"}) \cup Bodies({Plain})
                         \subseteq ServerRules[d]
        /\ d = "mysql" => Quoted(Quotes) \cup Escapes(Quotes \ {"tick"}) \subseteq ServerRules[d]
        /\ d = "sqlite" => Quoted(Quotes) \subseteq ServerRules[d]
        /\ d = "sqlite" => \A b \in Brackets : b.sees # <<"close", "close">> => b \in ServerRules[d]
    BY <1>2 DEF ServerRules
  <1>5. CASE r \in LineComment(d) \cup Comment
    BY <1>3, <1>4, <1>5
  <1>6. CASE r \in Nesting
    <2>1. PICK n \in 1..MaxDepth : r.in = {Block(n)} /\ (r.sees = <<"slash", "star">> \/ n # 1)
      BY <1>6, NestingRules
    <2>2. Applies(r, m, x, y, z) /\ m = Block(n)
      BY <1>3, <1>6, <2>1 DEF Applies
    <2>3. CASE d # "pg"
      <3>1. r.sees = <<"slash", "star">> /\ m[1] = "block"
        BY <2>1, <2>2, <2>3, ModesAre
      <3>2. x = "slash" /\ y = "star"
        BY <2>2, <3>1, PrefixIs DEF Applies
      <3> QED BY <2>3, <3>1, <3>2 DEF Common
    <2> QED BY <1>4, <1>6, <2>2, <2>3
  <1>7. CASE r \in Quoted(Quotes)
    <2>1. PICK q \in Quotes : r \in Enclosed(q, q)
      BY <1>7 DEF Quoted
    <2>2. Applies(r, m, x, y, z)
      BY <1>3, <1>7
    <2>3. CASE d = "pg" /\ q = "tick"
      <3>1. q \in Chars
        BY DEF Chars
      <3>2. \/ r.in = Outside /\ r.sees = <<"tick">>
            \/ r.in = {In("tick")}
        BY <2>1, <2>3, <3>1, EnclosedRules
      <3>3. m # In("tick")
        BY <2>3, ModesAre
      <3>4. m \in Outside /\ x = "tick"
        BY <2>2, <3>2, <3>3, PrefixIs DEF Applies
      <3> QED BY <2>3, <3>4 DEF Common
    <2>4. CASE d = "pg" /\ q # "tick"
      <3>1. r \in Quoted(Quotes \ {"tick"})
        BY <2>1, <2>4 DEF Quoted
      <3> QED BY <1>4, <2>2, <2>4, <3>1
    <2> QED BY <1>2, <1>4, <1>7, <2>2, <2>3, <2>4
  <1>8. CASE r \in Escapes(Quotes)
    <2>1. PICK q \in Quotes, c \in Chars : r = Rule({In(q)}, <<"backslash", c>>, 2, In(q))
      BY <1>8, EscapeRules
    <2>2. Applies(r, m, x, y, z)
      BY <1>3, <1>8
    <2>3. m = In(q) /\ x = "backslash"
      BY <2>1, <2>2, PrefixIs DEF Applies, Rule
    <2>4. d = "mysql" /\ q # "tick"
      BY <2>3, ModesAre DEF Common
    <2>5. q \in Quotes \ {"tick"}
      BY <2>4
    <2>6. r \in Escapes(Quotes \ {"tick"})
      BY ONLY <2>1, <2>5, EscapesOf
    <2> QED BY <1>4, <2>2, <2>4, <2>6
  <1>9. CASE r \in Brackets
    <2>1. /\ Applies(r, m, x, y, z)
          /\ \/ r.in = Outside /\ r.sees = <<"open">>
             \/ r.in = {In("open")} /\ r.sees \in {<<"close">>, <<"close", "close">>}
      <3>1. "open" \in Chars /\ "close" \in Chars
        BY DEF Chars
      <3> QED BY <1>3, <1>9, <3>1, EnclosedRules DEF Brackets
    <2>2. d = "sqlite"
      <3>1. CASE m \in Outside
        <4>1. r.sees = <<"open">>
          BY <2>1, <3>1, ModesAre DEF Applies
        <4>2. x = "open"
          BY <2>1, <4>1, PrefixIs DEF Applies
        <4> QED BY <3>1, <4>2 DEF Common
      <3>2. CASE m = In("open")
        BY <1>2, <3>2, ModesAre DEF Quotes
      <3> QED BY <2>1, <3>1, <3>2 DEF Applies
    <2>3. r.sees # <<"close", "close">>
      <3> SUFFICES ASSUME r.sees = <<"close", "close">> PROVE FALSE
        OBVIOUS
      <3>1. x = "close" /\ y = "close"
        BY <2>1, PrefixIs DEF Applies
      <3>2. m = In("open")
        BY <2>1 DEF Applies
      <3> QED BY <3>1, <3>2 DEF Common
    <2> QED BY <1>4, <1>9, <2>1, <2>2, <2>3
  <1>10. CASE r \in Bodies({Plain})
    <2>1. PICK n \in {2, 3} : \/ r.in = {Plain} /\ r.to = Body(n)
                              \/ r.in = {Body(n)} /\ r.to = Plain
      BY <1>10, BodyRules
    <2>2. CASE r.in = {Plain}
      <3>1. m \in Outside
        BY <2>2, ModesAre DEF Applies
      <3>2. x = "dollar" /\ (y = "dollar" \/ (y = "letter" /\ z = "dollar"))
        <4>1. r.sees \in Tags
          BY <1>10, BodyRules
        <4> QED BY <4>1, PrefixIs DEF Applies, Tags
      <3>3. d = "pg" /\ m = Plain
        BY <3>1, <3>2 DEF Common, Outside
      <3> QED BY <1>4, <1>10, <2>2, <3>3 DEF Applies
    <2>3. CASE r.in = {Body(n)}
      <3>1. CodeMode(m) = Body(n) /\ CodeMode(m) # Plain
        BY <2>3 DEF Applies, Body, Plain
      <3>2. m = Body(n)
        BY <3>1 DEF CodeMode
      <3>3. d = "pg"
        BY <3>2, ModesAre
      <3> QED BY <1>4, <1>10, <2>3, <3>2, <3>3 DEF Applies
    <2> QED BY <2>1, <2>2, <2>3
  <1> QED BY <1>1, <1>5, <1>6, <1>7, <1>8, <1>9, <1>10

\* Every rule has a few characters, and is one of the code's or for a word.
LEMMA RulesAreFew ==
  ASSUME NEW d \in Dialects, NEW r \in ServerRules[d] \cup CodeRules[d]
  PROVE  /\ Short(r) /\ r \in CodeRules[d] \cup Words
         /\ r \in CodeRules[d] => OfOutside(r) \/ r \in Bodies({Plain})
  <1>1. CodeRules[d] = LineComment(d) \cup Comment \cup Nesting
                       \cup Quoted(Quotes) \cup Escapes(Quotes) \cup Brackets \cup Bodies({Plain})
    BY DEF CodeRules
  <1>2. ServerRules[d] \subseteq CodeRules[d] \cup Words
    <2>1. /\ Quoted(Quotes \ {"tick"}) \subseteq Quoted(Quotes)
          /\ Escapes(Quotes \ {"tick"}) \subseteq Escapes(Quotes)
      BY DEF Quoted, Escapes
    <2>2. \/ ServerRules[d] \subseteq LineComment(d) \cup Comment \cup Words \cup Nesting
                                    \cup Quoted(Quotes \ {"tick"}) \cup Bodies({Plain})
          \/ ServerRules[d] \subseteq LineComment(d) \cup Comment \cup Words
                                    \cup Quoted(Quotes) \cup Escapes(Quotes \ {"tick"})
          \/ ServerRules[d] \subseteq LineComment(d) \cup Comment \cup Words
                                    \cup Quoted(Quotes) \cup Brackets
      BY DialectsAssumption DEF ServerRules
    <2> QED BY <1>1, <2>1, <2>2
  <1>3. r \in Words => Short(r)
    BY WordRules DEF Short, Rule
  <1> QED BY <1>1, <1>2, <1>3, RulesOfOutside, BodyRules

\* No rule of the code is for a letter.
LEMMA LettersPass ==
  ASSUME NEW d \in Dialects, NEW r \in CodeRules[d], NEW y, NEW z,
         NEW m \in Outside, Applies(r, m, "letter", y, z)
  PROVE  FALSE
  <1>1. \/ r \in LineComment(d)
        \/ r \in Comment
        \/ r \in Nesting \cup Escapes(Quotes)
        \/ r \in Quoted(Quotes) \cup Brackets
        \/ r \in Bodies({Plain})
    BY DEF CodeRules
  <1>2. CASE r \in LineComment(d)
    <2>1. m # Line
      BY DEF Line, Outside, Plain, Word
    <2>2. \/ r.sees = <<"hash">> \/ r.sees = <<"dash", "dash">>
          \/ \E c : r.sees = <<"dash", "dash", c>>
      BY <1>2, <2>1 DEF LineComment, Applies, Rule
    <2> QED BY <2>2, PrefixIs DEF Applies
  <1>3. CASE r \in Comment
    <2>1. m # Block(1)
      BY DEF Block, Outside, Plain, Word
    <2>2. r.sees = <<"slash", "star">>
      BY <1>3, <2>1 DEF Comment, Applies, Rule
    <2> QED BY <2>2, PrefixIs DEF Applies
  <1>4. CASE r \in Nesting \cup Escapes(Quotes)
    <2>1. (\E n : r.in = {Block(n)}) \/ (\E q : r.in = {In(q)})
      <3>1. CASE r \in Nesting
        BY <3>1, NestingRules
      <3>2. CASE r \in Escapes(Quotes)
        BY <3>2, EscapeRules DEF Rule
      <3> QED BY <1>4, <3>1, <3>2
    <2> QED BY <2>1 DEF Applies, Block, In, Outside, Plain, Word
  <1>5. CASE r \in Quoted(Quotes) \cup Brackets
    <2>1. PICK open \in Quotes \cup {"open"}, close \in Chars : r \in Enclosed(open, close)
      <3>1. CASE r \in Quoted(Quotes)
        BY <3>1 DEF Quoted, Chars
      <3>2. CASE r \in Brackets
        BY <3>2 DEF Brackets, Chars
      <3> QED BY <1>5, <3>1, <3>2
    <2>2. open \in Chars /\ open # "letter"
      BY DEF Chars, Quotes
    <2>3. m # In(open)
      BY DEF In, Outside, Plain, Word
    <2>4. r.sees = <<open>>
      BY <2>1, <2>2, <2>3, EnclosedRules DEF Applies
    <2> QED BY <2>2, <2>4, PrefixIs DEF Applies
  <1>6. CASE r \in Bodies({Plain})
    <2>1. r.sees \in Tags
      BY <1>6, BodyRules
    <2> QED BY <2>1, PrefixIs DEF Applies, Tags
  <1> QED BY <1>1, <1>2, <1>3, <1>4, <1>5, <1>6

\* Where a database's rule leads.
LEMMA ModesAreKept ==
  ASSUME NEW d \in Dialects, NEW r \in ServerRules[d]
  PROVE  r.to \in Modes(d) /\ (r \notin Words => r.to # Word)
  <1>1. \/ r \in LineComment(d)
        \/ r \in Comment
        \/ r \in Words
        \/ d = "pg" /\ r \in Nesting
        \/ d = "pg" /\ r \in Quoted(Quotes \ {"tick"})
        \/ d = "pg" /\ r \in Bodies({Plain})
        \/ d = "mysql" /\ r \in Escapes(Quotes \ {"tick"})
        \/ d # "pg" /\ r \in Quoted(Quotes)
        \/ d = "sqlite" /\ r \in Brackets
    BY DialectsAssumption DEF ServerRules
  <1>2. /\ d \in {"pg", "mysql", "sqlite"} /\ 1 \in 1..MaxDepth
        /\ {Plain, Word, Line, Block(1)} \subseteq Modes(d)
    BY DialectsAssumption, DepthAssumption DEF Modes
  <1>3. CASE r \in LineComment(d)
    BY <1>2, <1>3, LineRules DEF Plain, Line, Word
  <1>4. CASE r \in Comment
    BY <1>2, <1>4, CommentRules DEF Plain, Block, Word
  <1>5. CASE r \in Words
    BY <1>2, <1>5, WordRules DEF Rule
  <1>6. CASE d = "pg" /\ r \in Nesting
    <2>1. PICK n \in 1..MaxDepth : r.to = Block(n)
      BY <1>6, NestingRules
    <2>2. Block(n) # Word
      BY DEF Block, Word
    <2> QED BY <1>6, <2>1, <2>2 DEF Modes
  <1>7. CASE d = "pg" /\ r \in Quoted(Quotes \ {"tick"})
    <2>1. PICK q \in Quotes \ {"tick"} : r \in Enclosed(q, q)
      BY <1>7 DEF Quoted
    <2>2. q \in Chars /\ q \in {"quote", "dquote"} /\ In(q) # Word /\ Plain # Word
      BY DEF Chars, Quotes, In, Word, Plain
    <2>3. r.to \in {Plain, In(q)}
      BY <2>1, <2>2, EnclosedRules
    <2> QED BY <1>2, <1>7, <2>2, <2>3 DEF Modes
  <1>8. CASE d = "pg" /\ r \in Bodies({Plain})
    <2>1. PICK n \in {2, 3} : r.to \in {Plain, Body(n)}
      BY <1>8, BodyRules
    <2>2. Body(n) # Word /\ Plain # Word
      BY DEF Body, Word, Plain
    <2> QED BY <1>2, <1>8, <2>1, <2>2 DEF Modes
  <1>9. CASE d = "mysql" /\ r \in Escapes(Quotes \ {"tick"})
    <2>1. PICK q \in Quotes : r.to = In(q)
      BY <1>9, EscapeRules DEF Rule
    <2>2. In(q) # Word
      BY DEF In, Word
    <2> QED BY <1>9, <2>1, <2>2 DEF Modes
  <1>10. CASE d # "pg" /\ r \in Quoted(Quotes)
    <2>1. PICK q \in Quotes : r \in Enclosed(q, q)
      BY <1>10 DEF Quoted
    <2>2. q \in Chars /\ In(q) # Word /\ Plain # Word
      BY DEF Chars, In, Word, Plain
    <2>3. r.to \in {Plain, In(q)}
      BY <2>1, <2>2, EnclosedRules
    <2> QED BY <1>2, <1>10, <2>2, <2>3 DEF Modes
  <1>11. CASE d = "sqlite" /\ r \in Brackets
    <2>1. "open" \in Chars /\ "close" \in Chars /\ In("open") # Word /\ Plain # Word
      BY DEF Chars, In, Word, Plain
    <2>2. r.to \in {Plain, In("open")}
      BY <1>11, <2>1, EnclosedRules DEF Brackets
    <2> QED BY <1>2, <1>11, <2>1, <2>2 DEF Modes
  <1> QED BY <1>1, <1>3, <1>4, <1>5, <1>6, <1>7, <1>8, <1>9, <1>10, <1>11

\* Of the rules that fit there is a longest.
LEMMA LongestFits ==
  ASSUME NEW F, F # {}, \A r \in F : Short(r)
  PROVE  (CHOOSE r \in F : \A s \in F : Len(s.sees) <= Len(r.sees)) \in F
  <1>1. \A r \in F : Len(r.sees) = 1 \/ Len(r.sees) = 2 \/ Len(r.sees) = 3
    BY DEF Short
  <1>2. \E r \in F : \A s \in F : Len(s.sees) <= Len(r.sees)
    <2>1. ASSUME NEW r \in F, Len(r.sees) = 3
          PROVE  \A s \in F : Len(s.sees) <= Len(r.sees)
      <3> SUFFICES ASSUME NEW s \in F PROVE Len(s.sees) <= Len(r.sees)
        OBVIOUS
      <3>1. Len(s.sees) = 1 \/ Len(s.sees) = 2 \/ Len(s.sees) = 3
        BY <1>1
      <3>2. PICK a, b : a = Len(s.sees) /\ b = Len(r.sees)
        OBVIOUS
      <3>3. (a = 1 \/ a = 2 \/ a = 3) /\ b = 3
        BY <2>1, <3>1, <3>2
      <3>4. a <= b
        BY ONLY <3>3
      <3> QED BY <3>2, <3>4
    <2>2. ASSUME NEW r \in F, Len(r.sees) = 2, \A s \in F : Len(s.sees) # 3
          PROVE  \A s \in F : Len(s.sees) <= Len(r.sees)
      <3> SUFFICES ASSUME NEW s \in F PROVE Len(s.sees) <= Len(r.sees)
        OBVIOUS
      <3>1. Len(s.sees) = 1 \/ Len(s.sees) = 2
        BY <1>1, <2>2
      <3>2. PICK a, b : a = Len(s.sees) /\ b = Len(r.sees)
        OBVIOUS
      <3>3. (a = 1 \/ a = 2) /\ b = 2
        BY <2>2, <3>1, <3>2
      <3>4. a <= b
        BY ONLY <3>3
      <3> QED BY <3>2, <3>4
    <2>3. CASE \A r \in F : Len(r.sees) # 3 /\ Len(r.sees) # 2
      BY <1>1, <2>3
    <2> QED BY <2>1, <2>2, <2>3
  <1> QED BY <1>2

\* The constructs that a dialect's lexer reads otherwise than the code's: nested
\* comments are PostgreSQL's own, and the others have backticks too.
Unlike(d) == Constructs \ {IF d = "pg" THEN "nested" ELSE "backtick"}
NoneUnlike == \A d \in Dialects : Written \cap Unlike(d) = {}

\* What a file without them is not made of.
LEMMA NothingUsed ==
  ASSUME NoneUnlike, dialect \in Dialects, Uses \subseteq Written, Reading(server),
         NEW m \in Modes(dialect), server.mode = m, code.mode = CodeMode(m),
         NEW x, NEW y, NEW z, text = <<x, y, z>>
  PROVE  Common(dialect, m, x, y, z)
  <1>1. \A c \in Constructs : c \in Uses => c \notin Unlike(dialect)
    BY DEF NoneUnlike
  <1>2. /\ \A a, b : IsPrefix(<<a, b>>, text) <=> a = x /\ b = y
        /\ \A a, b, c : IsPrefix(<<a, b, c>>, text) <=> a = x /\ b = y /\ c = z
        /\ text[1] = x
    BY PrefixIs
  <1>3. m[1] = "in" /\ x = "backslash" => dialect = "mysql" /\ m # In("tick")
    <2> SUFFICES ASSUME m[1] = "in", x = "backslash", dialect # "mysql" \/ m = In("tick")
                 PROVE  FALSE
      OBVIOUS
    <2>1. "backslash" \in Uses
      BY <1>2 DEF Uses, Constructs
    <2> QED BY <1>1, <2>1 DEF Unlike, Constructs
  <1>4. dialect # "pg" /\ m[1] = "block" => ~(x = "slash" /\ y = "star")
    <2> SUFFICES ASSUME dialect # "pg", m[1] = "block", x = "slash", y = "star" PROVE FALSE
      OBVIOUS
    <2>1. "nested" \in Uses
      BY <1>2 DEF Uses, Constructs
    <2> QED BY <1>1, <2>1 DEF Unlike, Constructs
  <1>5. dialect # "sqlite" /\ m \in Outside => x # "open"
    <2> SUFFICES ASSUME dialect # "sqlite", m \in Outside, x = "open" PROVE FALSE
      OBVIOUS
    <2>1. "bracket" \in Uses
      BY <1>2 DEF Uses, Constructs
    <2> QED BY <1>1, <2>1 DEF Unlike, Constructs
  <1>6. m = In("open") => ~(x = "close" /\ y = "close")
    <2> SUFFICES ASSUME m = In("open"), x = "close", y = "close" PROVE FALSE
      OBVIOUS
    <2>1. "bracket" \in Uses
      BY <1>2 DEF Uses, Constructs
    <2> QED BY <1>1, <2>1 DEF Unlike, Constructs
  <1>7. m = Word => x # "dollar"
    <2> SUFFICES ASSUME m = Word, x = "dollar" PROVE FALSE
      OBVIOUS
    <2>1. "dollar" \in Uses
      BY <1>2 DEF Uses, Constructs
    <2> QED BY <1>1, <2>1 DEF Unlike, Constructs
  <1>8. dialect # "pg" /\ m \in Outside /\ x = "dollar" =>
          y # "dollar" /\ ~(y = "letter" /\ z = "dollar")
    <2> SUFFICES ASSUME dialect # "pg", m \in Outside, x = "dollar",
                        y = "dollar" \/ (y = "letter" /\ z = "dollar")
                 PROVE  FALSE
      OBVIOUS
    <2>1. \E t \in Tags : IsPrefix(t, text)
      BY <1>2 DEF Tags
    <2>2. code.mode = Plain
      BY ModesAre
    <2>3. "dollar" \in Uses
      BY <1>2, <2>1, <2>2 DEF Uses, Constructs
    <2> QED BY <1>1, <2>3 DEF Unlike, Constructs
  <1>9. dialect = "pg" /\ m \in Outside => x # "tick"
    <2> SUFFICES ASSUME dialect = "pg", m \in Outside, x = "tick" PROVE FALSE
      OBVIOUS
    <2>1. "backtick" \in Uses
      BY <1>2 DEF Uses, Constructs
    <2> QED BY <1>1, <2>1 DEF Unlike, Constructs
  <1> QED BY <1>3, <1>4, <1>5, <1>6, <1>7, <1>8, <1>9 DEF Common

\* What the code reads and what the database reads where a letter comes outside
\* of everything, and anywhere else.
Alike(d, m, x, c, s) ==
  /\ s.takes \in 1..3 /\ c.takes = s.takes
  /\ s.to \in Modes(d) /\ c.to = CodeMode(s.to)
  /\ IF m \in Outside /\ x = "letter"
     THEN c.sees = <<>> /\ c.to = Plain /\ s.sees = <<"letter">> /\ s.to = Word
     ELSE c = s /\ s.to # Word /\ (s.sees = <<>> => s.to = CodeMode(m))

LEMMA ReadAlike ==
  ASSUME dialect \in Dialects,
         NEW m \in Modes(dialect), server.mode = m, code.mode = CodeMode(m),
         NEW x, NEW y, NEW z, text = <<x, y, z>>, Common(dialect, m, x, y, z)
  PROVE  Alike(dialect, m, x, Reads(code, CodeRules[dialect]), Reads(server, ServerRules[dialect]))
  <1> DEFINE Longest(F) == CHOOSE r \in F : \A q \in F : Len(q.sees) <= Len(r.sees)
  <1>1. PICK d, C, S, c, s :
          /\ d = dialect
          /\ C = Fits(code, CodeRules[d]) /\ S = Fits(server, ServerRules[d])
          /\ c = Reads(code, CodeRules[d]) /\ s = Reads(server, ServerRules[d])
    OBVIOUS
  <1>2. /\ d \in Dialects /\ m \in Modes(d) /\ Common(d, m, x, y, z)
        /\ C = {r \in CodeRules[d] : Applies(r, CodeMode(m), x, y, z)}
        /\ S = {r \in ServerRules[d] : Applies(r, m, x, y, z)}
    BY <1>1 DEF Fits, Applies
  <1>3. Rule({}, <<>>, 1, CodeMode(m)) = Nothing(code)
        /\ Rule({}, <<>>, 1, CodeMode(m)) = Nothing(server)
    <2>1. CodeMode(m) # Word
      BY DEF CodeMode, Plain, Word
    <2> QED BY <2>1 DEF Nothing, CodeMode
  <1>4. /\ C = {} => c = Rule({}, <<>>, 1, CodeMode(m))
        /\ S = {} => s = Rule({}, <<>>, 1, CodeMode(m))
        /\ C # {} => c = Longest(C)
        /\ S # {} => s = Longest(S)
    BY <1>1, <1>3 DEF Reads
  <1>5. \A r \in C \cup S : Short(r)
    BY <1>2, RulesAreFew
  <1>6. (C # {} => c \in C) /\ (S # {} => s \in S)
    BY <1>4, <1>5, LongestFits
  <1> HIDE DEF Longest
  <1>7. CASE ~(m \in Outside /\ x = "letter")
    <2>1. C = S
      BY <1>2, <1>7, ServerToCode, CodeToServer
    <2>2. c = s
      BY <1>4, <2>1
    <2>3. CASE S = {}
      <3>1. s = Rule({}, <<>>, 1, CodeMode(m))
        BY <1>4, <2>3
      <3>2. /\ s.takes = 1 /\ s.sees = <<>> /\ s.to = CodeMode(m)
        BY <3>1 DEF Rule
      <3>3. CodeMode(m) \in Modes(d) /\ CodeMode(m) # Word /\ CodeMode(CodeMode(m)) = CodeMode(m)
        BY <1>2 DEF CodeMode, Modes, Plain, Word
      <3> QED BY <1>1, <1>7, <2>2, <3>2, <3>3 DEF Alike
    <2>4. CASE S # {}
      <3>1. s \in ServerRules[d] /\ s \in CodeRules[d] /\ Short(s)
        BY <1>2, <1>5, <1>6, <2>1, <2>4
      <3>2. s \notin Words
        <4>1. Applies(s, m, x, y, z)
          BY <1>2, <1>6, <2>4
        <4> QED BY <1>2, <1>7, <4>1, WordRules, PrefixIs DEF Applies, Rule, Common
      <3>3. s.to \in Modes(d) /\ s.to # Word
        BY <1>2, <3>1, <3>2, ModesAreKept
      <3>4. s.takes \in 1..3 /\ s.sees # <<>> /\ CodeMode(s.to) = s.to
        <4>1. Len(s.sees) # 0
          <5>1. PICK n : n = Len(s.sees)
            OBVIOUS
          <5>2. n \in 1..3
            BY <3>1, <5>1 DEF Short
          <5> QED BY <5>1, <5>2
        <4>2. s.sees # <<>>
          BY ONLY <4>1
        <4> QED BY <3>1, <3>3, <4>2 DEF Short, CodeMode
      <3> QED BY <1>1, <1>7, <2>2, <3>3, <3>4 DEF Alike
    <2> QED BY <2>3, <2>4
  <1>8. CASE m \in Outside /\ x = "letter"
    <2>1. C = {}
      <3> SUFFICES ASSUME NEW r \in C PROVE FALSE
        OBVIOUS
      <3>1. CodeMode(m) \in Outside /\ Applies(r, CodeMode(m), "letter", y, z)
        BY <1>2, <1>8 DEF CodeMode, Outside
      <3> QED BY <1>2, <3>1, LettersPass
    <2>2. PICK l : l = Rule(Outside, <<"letter">>, 1, Word)
      OBVIOUS
    <2>3. l \in ServerRules[d]
      BY <1>2, <2>2 DEF ServerRules, Words
    <2>4. Applies(l, m, x, y, z)
      BY <1>8, <2>2, PrefixIs DEF Applies, Rule
    <2>5. \A r \in S : r = l
      <3> SUFFICES ASSUME NEW r \in S PROVE r = l
        OBVIOUS
      <3>1. r \notin CodeRules[d]
        BY <1>2, <1>8, LettersPass
      <3>2. r \in Words
        BY <1>2, <3>1, RulesAreFew
      <3> QED BY <1>2, <1>8, <2>2, <3>2, WordRules, PrefixIs DEF Applies, Rule
    <2>6. s = l
      BY <1>2, <1>6, <2>3, <2>4, <2>5
    <2>7. /\ c.takes = 1 /\ c.sees = <<>> /\ c.to = Plain
      <3>1. CodeMode(m) = Plain
        BY <1>8, ModesAre
      <3> QED BY <1>4, <2>1, <3>1 DEF Rule
    <2>8. s.takes = 1 /\ s.sees = <<"letter">> /\ s.to = Word
      BY <2>2, <2>6 DEF Rule
    <2>9. Word \in Modes(d) /\ CodeMode(Word) = Plain
      BY DEF Modes, CodeMode
    <2> QED BY <1>1, <1>8, <2>7, <2>8, <2>9 DEF Alike
  <1> QED BY <1>7, <1>8

\* What a statement holds for the database, it holds for the code: a keyword is
\* syntax, syntax is a token, and code is a token or an executable comment.
MarksTell(c, s) ==
  /\ s.keyword => c.hasCode /\ c.syntax
  /\ c.syntax => s.token
  /\ c.hasCode => s.token \/ c.executable

MarkSet == [hasCode : BOOLEAN, hasDollarQuote : BOOLEAN, executable : BOOLEAN, syntax : BOOLEAN]
HoldSet == [keyword : BOOLEAN, token : BOOLEAN]

\* The invariant of the two lexers.
LexersAgree ==
  /\ dialect \in Dialects
  /\ text = <<text[1], text[2], text[3]>>
  /\ server \in [mode : Modes(dialect), skip : 0..2, holds : HoldSet]
  /\ code \in [mode : {CodeMode(server.mode)}, skip : {server.skip},
               marks : MarkSet, refused : BOOLEAN]
  /\ MarksTell(code.marks, server.holds)
  /\ differ = {}

\* The lexers start in step.
LEMMA InitSql == SqlInit => LexersAgree
  <1> SUFFICES ASSUME SqlInit PROVE LexersAgree
    OBVIOUS
  <1>1. text = <<text[1], text[2], text[3]>>
    BY DEF SqlInit
  <1>2. server \in [mode : Modes(dialect), skip : 0..2, holds : HoldSet]
    BY DEF SqlInit, Modes, FreshServer, HoldSet
  <1>3. CodeMode(Plain) = Plain
    BY DEF CodeMode
  <1>4. code \in [mode : {CodeMode(server.mode)}, skip : {server.skip},
                  marks : MarkSet, refused : BOOLEAN]
    BY <1>3 DEF SqlInit, FreshCode, MarkSet
  <1>5. MarksTell(code.marks, server.holds)
    BY DEF SqlInit, MarksTell, FreshCode, FreshServer
  <1> QED BY <1>1, <1>2, <1>4, <1>5 DEF LexersAgree, SqlInit

\* Nothing is lost and nothing is made up.
LEMMA NothingLost == LexersAgree => ~Dropped /\ ~Invented
  BY DEF LexersAgree, MarksTell, MarkSet, HoldSet, Dropped, Invented, Pushed

\* The marks of the next character.
LEMMA MarksKeep ==
  ASSUME LexersAgree,
         NEW c, NEW s, Alike(dialect, server.mode, text[1], c, s),
         NEW h, h = IF server.mode \notin Outside \/ s.to[1] \in {"line", "block"}
                       \/ (s.sees = <<>> /\ text[1] \in Blank)
                    THEN server.holds
                    ELSE [keyword |-> server.holds.keyword \/ text[1] = "letter", token |-> TRUE]
  PROVE  Marks(c) \in MarkSet /\ h \in HoldSet /\ MarksTell(Marks(c), h)
  <1>1. PICK n, a, b, x, m :
          /\ n = Marks(c) /\ a = code.marks /\ b = server.holds /\ x = text[1] /\ m = server.mode
    OBVIOUS
  <1>2. /\ m \in Modes(dialect) /\ dialect \in Dialects /\ code.mode = CodeMode(m)
        /\ a \in MarkSet /\ b \in HoldSet /\ MarksTell(a, b)
    BY <1>1 DEF LexersAgree
  <1>3. code.mode = Plain <=> m \in Outside
    BY <1>2, ModesAre
  <1>4. PICK plain \in BOOLEAN, bang \in BOOLEAN, opens \in BOOLEAN :
          /\ plain <=> c.sees = <<>> /\ m \in Outside /\ x \notin Blank
          /\ opens <=> m \in Outside /\ c.to[1] \in {"in", "body"}
          /\ n.hasCode <=> a.hasCode \/ plain \/ bang \/ opens
          /\ n.executable <=> a.executable \/ bang
          /\ n.syntax <=> a.syntax \/ plain
          /\ n \in MarkSet
    <2> DEFINE plain == c.sees = <<>> /\ code.mode = Plain /\ text[1] \notin Blank
               bang == c.to = Block(1) /\ code.mode = Plain /\ text[3] = "bang"
               opens == code.mode = Plain /\ c.to[1] \in {"in", "body"}
    <2>1. n = [hasCode |-> a.hasCode \/ plain \/ bang \/ opens,
               hasDollarQuote |-> a.hasDollarQuote \/ (opens /\ c.to[1] = "body"),
               executable |-> a.executable \/ bang,
               syntax |-> a.syntax \/ plain]
      BY <1>1 DEF Marks
    <2>2. n \in MarkSet
      BY <1>2, <2>1 DEF MarkSet
    <2>3. plain \in BOOLEAN /\ bang \in BOOLEAN /\ opens \in BOOLEAN
      OBVIOUS
    <2>4. /\ plain <=> c.sees = <<>> /\ m \in Outside /\ x \notin Blank
          /\ opens <=> m \in Outside /\ c.to[1] \in {"in", "body"}
      BY <1>1, <1>3
    <2>5. /\ n.hasCode <=> a.hasCode \/ plain \/ bang \/ opens
          /\ n.executable <=> a.executable \/ bang
          /\ n.syntax <=> a.syntax \/ plain
      <3> HIDE DEF plain, bang, opens
      <3> QED BY <2>1
    <2> HIDE DEF plain, bang, opens
    <2> QED BY <2>2, <2>3, <2>4, <2>5
  <1>5. Alike(dialect, m, x, c, s)
    BY <1>1
  <1>6. /\ h \in HoldSet
        /\ b.token => h.token
        /\ h.keyword => b.keyword \/ (m \in Outside /\ x = "letter")
        /\ m \in Outside /\ s.to[1] \notin {"line", "block"} /\ ~(s.sees = <<>> /\ x \in Blank)
             => h.token
    BY <1>1, <1>2 DEF HoldSet
  <1>7. plain => h.token
    <2> SUFFICES ASSUME plain PROVE h.token
      OBVIOUS
    <2>1. m \in Outside /\ x \notin Blank /\ c.sees = <<>>
      BY <1>4
    <2>2. s.to \in Outside
      BY <1>2, <1>5, <2>1, ModesAre DEF Alike, CodeMode, Outside
    <2>3. s.to[1] \notin {"line", "block"}
      BY <2>2 DEF Outside, Plain, Word
    <2> QED BY <1>6, <2>1, <2>3
  <1>8. opens => h.token
    <2> SUFFICES ASSUME opens PROVE h.token
      OBVIOUS
    <2>1. m \in Outside /\ c.to[1] \in {"in", "body"}
      BY <1>4
    <2>2. c.to # Plain
      BY <2>1 DEF Plain
    <2>3. c = s /\ s.sees # <<>>
      BY <1>2, <1>5, <2>1, <2>2 DEF Alike, CodeMode, Outside
    <2> QED BY <1>6, <2>1, <2>3
  <1>9. x = "letter" /\ m \in Outside => plain
    BY <1>4, <1>5 DEF Alike, Blank
  <1>10. MarksTell(n, h)
    BY <1>2, <1>4, <1>6, <1>7, <1>8, <1>9 DEF MarksTell
  <1> QED BY <1>1, <1>4, <1>6, <1>10

\* Both lexers have cut, or neither has.
LEMMA CutsAgree == LexersAgree => /\ Reading(code) <=> Reading(server)
                                  /\ Cuts(code) <=> Cuts(server)
                                  /\ Differences = {}
  <1> SUFFICES ASSUME LexersAgree
               PROVE  /\ Reading(code) <=> Reading(server)
                      /\ Cuts(code) <=> Cuts(server)
                      /\ Differences = {}
    OBVIOUS
  <1>1. Reading(code) <=> Reading(server)
    BY DEF LexersAgree, Reading
  <1>2. code.mode \in Outside <=> server.mode \in Outside
    BY ModesAre DEF LexersAgree, CodeMode, Outside
  <1>3. Cuts(code) <=> Cuts(server)
    BY <1>1, <1>2 DEF Cuts
  <1> QED BY <1>1, <1>3, NothingLost DEF Differences

\* A character leaves them in step.
LEMMA StepSql == NoneUnlike /\ LexersAgree /\ [SqlNext]_sql => LexersAgree'
  <1> SUFFICES ASSUME NoneUnlike, LexersAgree, [SqlNext]_sql PROVE LexersAgree'
    OBVIOUS
  <1>1. CASE UNCHANGED sql
    BY <1>1 DEF sql, LexersAgree
  <1>2. CASE Scan
    <2>1. /\ dialect' = dialect /\ differ' = {}
          /\ text' = <<text'[1], text'[2], text'[3]>>
      <3>1. PICK e : text' = <<text[2], text[3], e>>
        BY <1>2 DEF Scan
      <3>2. differ' = differ \cup Differences /\ dialect' = dialect
        BY <1>2 DEF Scan
      <3> QED BY <3>1, <3>2, CutsAgree DEF LexersAgree
    <2>2. PICK d, m, k, b, a, f :
            /\ d = dialect /\ m = server.mode /\ k = server.skip /\ b = server.holds
            /\ a = code.marks /\ f = code.refused
      OBVIOUS
    <2>3. /\ d \in Dialects /\ m \in Modes(d) /\ k \in 0..2 /\ b \in HoldSet
          /\ a \in MarkSet /\ f \in BOOLEAN /\ MarksTell(a, b)
          /\ server = [mode |-> m, skip |-> k, holds |-> b]
          /\ code = [mode |-> CodeMode(m), skip |-> k, marks |-> a, refused |-> f]
      BY <2>2 DEF LexersAgree
    <2>4. \E m2 \in Modes(d), k2 \in 0..2, b2 \in HoldSet, a2 \in MarkSet, f2 \in BOOLEAN :
            /\ MarksTell(a2, b2)
            /\ server' = [mode |-> m2, skip |-> k2, holds |-> b2]
            /\ code' = [mode |-> CodeMode(m2), skip |-> k2, marks |-> a2, refused |-> f2]
      <3>1. CASE k # 0
        <4>1. /\ code' = [code EXCEPT !.skip = k - 1] /\ server' = [server EXCEPT !.skip = k - 1]
          BY <1>2, <2>3, <3>1 DEF Scan, CodeReads, ServerReads, Reading
        <4>2. /\ server' = [mode |-> m, skip |-> k - 1, holds |-> b]
              /\ code' = [mode |-> CodeMode(m), skip |-> k - 1, marks |-> a, refused |-> f]
          BY <2>3, <4>1
        <4>3. k - 1 \in 0..2
          BY <2>3, <3>1
        <4> QED BY <2>3, <4>2, <4>3
      <3>2. CASE k = 0 /\ Cuts(server)
        <4>1. Reading(code) /\ Reading(server) /\ Cuts(code) /\ m \in Outside
          BY <2>2, <3>2, CutsAgree DEF Cuts
        <4>2. PICK f2 \in BOOLEAN : code' = [code EXCEPT !.marks = FreshCode, !.refused = f2]
          <5>1. code.refused \/ Refused(code.marks) \in BOOLEAN
            BY <2>3 DEF Refused
          <5> QED BY <1>2, <2>3, <4>1, <5>1 DEF Scan, CodeReads
        <4>3. server' = [server EXCEPT !.mode = Plain, !.holds = FreshServer]
          BY <1>2, <3>2, <4>1 DEF Scan, ServerReads
        <4>4. CodeMode(m) = CodeMode(Plain) /\ Plain \in Modes(d)
          BY <2>3, <4>1, ModesAre DEF CodeMode, Modes
        <4>5. /\ server' = [mode |-> Plain, skip |-> k, holds |-> FreshServer]
              /\ code' = [mode |-> CodeMode(Plain), skip |-> k, marks |-> FreshCode,
                          refused |-> f2]
          BY <2>3, <4>2, <4>3, <4>4
        <4>6. FreshServer \in HoldSet /\ FreshCode \in MarkSet /\ MarksTell(FreshCode, FreshServer)
          BY DEF FreshServer, FreshCode, HoldSet, MarkSet, MarksTell
        <4> QED BY <2>3, <4>4, <4>5, <4>6
      <3>3. CASE k = 0 /\ ~Cuts(server)
        <4>1. Reading(code) /\ Reading(server) /\ ~Cuts(code)
          BY <2>2, <3>3, CutsAgree DEF Reading
        <4>2. PICK c, s : /\ c = Reads(code, CodeRules[dialect])
                          /\ s = Reads(server, ServerRules[dialect])
          OBVIOUS
        <4>3. Alike(dialect, server.mode, text[1], c, s)
          <5>1. PICK x, y, z : text = <<x, y, z>> /\ x = text[1]
            BY DEF LexersAgree
          <5>2. /\ m \in Modes(dialect) /\ server.mode = m /\ code.mode = CodeMode(m)
                /\ dialect \in Dialects
            BY <2>2, <2>3
          <5>3. Common(dialect, m, x, y, z)
            BY <1>2, <4>1, <5>1, <5>2, NothingUsed DEF Scan
          <5> QED BY <2>2, <4>2, <5>1, <5>2, <5>3, ReadAlike
        <4>4. PICK h : h = IF server.mode \notin Outside \/ s.to[1] \in {"line", "block"}
                              \/ (s.sees = <<>> /\ text[1] \in Blank)
                           THEN server.holds
                           ELSE [keyword |-> server.holds.keyword \/ text[1] = "letter",
                                 token |-> TRUE]
          OBVIOUS
        <4>5. Marks(c) \in MarkSet /\ h \in HoldSet /\ MarksTell(Marks(c), h)
          BY <4>3, <4>4, MarksKeep
        <4>6. code' = [code EXCEPT !.mode = c.to, !.skip = c.takes - 1, !.marks = Marks(c)]
          BY <1>2, <4>1, <4>2 DEF Scan, CodeReads
        <4>7. server' = [server EXCEPT !.mode = s.to, !.skip = s.takes - 1, !.holds = h]
          BY <1>2, <3>3, <4>1, <4>2, <4>4 DEF Scan, ServerReads
        <4>8. /\ s.to \in Modes(d) /\ c.to = CodeMode(s.to) /\ c.takes = s.takes
              /\ s.takes - 1 \in 0..2
          BY <2>2, <4>3 DEF Alike
        <4>9. /\ server' = [mode |-> s.to, skip |-> s.takes - 1, holds |-> h]
              /\ code' = [mode |-> CodeMode(s.to), skip |-> s.takes - 1, marks |-> Marks(c),
                          refused |-> f]
          BY <2>3, <4>6, <4>7, <4>8
        <4> QED BY <2>3, <4>5, <4>8, <4>9
      <3> QED BY <2>3, <3>1, <3>2, <3>3
    <2> QED BY <2>1, <2>2, <2>4 DEF LexersAgree
  <1> QED BY <1>1, <1>2 DEF SqlNext

\* Nothing is open for one that is not open for the other.
LEMMA AgreedStatements == LexersAgree => StatementsAreTheServers
  <1> SUFFICES ASSUME LexersAgree PROVE StatementsAreTheServers
    OBVIOUS
  <1>1. Open(code) <=> Open(server)
    <2>1. code.mode = server.mode \/ (code.mode = Plain /\ server.mode = Word)
      BY DEF LexersAgree, CodeMode
    <2>2. Plain[1] \notin {"in", "body", "block"} /\ Word[1] \notin {"in", "body", "block"}
      BY DEF Plain, Word
    <2> QED BY <2>1, <2>2 DEF Open
  <1>2. differ = {}
    BY DEF LexersAgree
  <1> QED BY <1>1, <1>2, NothingLost DEF StatementsAreTheServers, Accepted

\* The two lexers stay in step in files without the constructs they read
\* differently, comments nested to any depth.
THEOREM LexersInvariance == NoneUnlike => (CliSpec => []LexersAgree)
  <1> SUFFICES ASSUME NoneUnlike PROVE CliSpec => []LexersAgree
    OBVIOUS
  <1>1. CliInit => LexersAgree
    BY InitSql DEF CliInit
  <1>2. LexersAgree /\ [CliNext]_cli => LexersAgree'
    <2>1. [CliNext]_cli => [SqlNext]_sql
      BY DEF CliNext, cli
    <2> QED BY <2>1, StepSql
  <1> QED BY <1>1, <1>2, PTL DEF CliSpec

\* splitSqlStatements cuts such a file where the database ends a statement and
\* nowhere else, drops none of its statements and makes none up, and refuses as
\* unterminated only what the database would find so.
THEOREM StatementsAreCut == NoneUnlike => (CliSpec => []StatementsAreTheServers)
  <1> SUFFICES ASSUME NoneUnlike PROVE CliSpec => []StatementsAreTheServers
    OBVIOUS
  <1> QED BY LexersInvariance, AgreedStatements, PTL
=============================================================================
