------------------------------ MODULE MigrationSql ------------------------------
(***************************************************************************)
(* A migration file is cut into statements by a lexer of FlowPanel's own   *)
(* (tokenizeMigrationSql) and each statement is sent by itself; the        *)
(* database has an idea of its own of what a quote or a comment is.  Both  *)
(* read the same text here, character by character, looking two characters *)
(* ahead; the text is whatever the user wrote, of any length.              *)
(*                                                                         *)
(* A lexer is a set of rules: in some modes, on seeing some characters, it *)
(* takes a number of them and is in another mode.  The longest rule that   *)
(* fits is applied; without one, a character is passed over.               *)
(***************************************************************************)
EXTENDS Integers, Sequences, SequencesExt

CONSTANTS
  Dialects,   \* of "pg", "mysql", "sqlite"
  Written,    \* the Constructs that users write
  MaxDepth    \* how deep comments are nested

\* What the two lexers do not read alike in every dialect.
Constructs == {"backslash", "nested", "bracket", "dollar", "backtick"}

ASSUME DialectsAssumption == Dialects \subseteq {"pg", "mysql", "sqlite"}
ASSUME WrittenAssumption == Written \subseteq Constructs
ASSUME DepthAssumption == MaxDepth \in Nat \ {0}

VARIABLES
  dialect,   \* the database
  text,      \* the next three characters of the file
  code,      \* the lexer of the code
  server,    \* the database's lexer
  differ     \* history: in what they have cut the file differently

sql == <<dialect, text, code, server, differ>>

Blank == {"space", "newline"}
Quotes == {"quote", "dquote", "tick"}
Chars == Blank \cup Quotes \cup
  {"letter", "semi", "dash", "hash", "slash", "star", "bang", "backslash", "open", "close", "dollar"}
Eof == "end"

\* The characters of a dialect's files; the rest reads like a letter everywhere.
Alphabet == [d \in Dialects |-> Chars \ (
  (IF d = "mysql" \/ "backslash" \in Written THEN {} ELSE {"backslash"}) \cup
  (IF d = "mysql" THEN {} ELSE {"hash"}) \cup
  (IF d = "pg" /\ "backtick" \notin Written THEN {"tick"} ELSE {}) \cup
  (IF d = "sqlite" \/ "bracket" \in Written THEN {} ELSE {"open", "close"}))]

\* The modes of a lexer.
Plain == <<"plain", 0>>
Word == <<"word", 0>>       \* after a letter: a dollar is part of the word
Line == <<"line", 0>>
Block(n) == <<"block", n>>  \* comments nested n deep
In(q) == <<"in", q>>        \* a literal or a name in quotes or brackets
Body(n) == <<"body", n>>    \* between two dollar tags of that length

Outside == {Plain, Word}
Tags == {<<"dollar", "dollar">>, <<"dollar", "letter", "dollar">>}

Rule(in, sees, takes, to) == [in |-> in, sees |-> sees, takes |-> takes, to |-> to]

-----------------------------------------------------------------------------
(* Rules of either lexer. *)

\* In MySQL two dashes begin a comment only before a blank or the end.
LineComment(d) ==
  {Rule({Line}, <<"newline">>, 1, Plain)} \cup
  (IF d = "mysql"
   THEN {Rule(Outside, <<"hash">>, 1, Line)} \cup
        {Rule(Outside, <<"dash", "dash", c>>, 2, Line) : c \in Blank \cup {Eof}}
   ELSE {Rule(Outside, <<"dash", "dash">>, 2, Line)})

Comment ==
  {Rule(Outside, <<"slash", "star">>, 2, Block(1)),
   Rule({Block(1)}, <<"star", "slash">>, 2, Plain)}

Nesting ==
  {Rule({Block(n)}, <<"slash", "star">>, 2, Block(n + 1)) : n \in 1..MaxDepth - 1} \cup
  {Rule({Block(n)}, <<"star", "slash">>, 2, Block(n - 1)) : n \in 2..MaxDepth}

\* From `open` to `close`, where a doubled `close` stands for one.
Enclosed(open, close) ==
  {Rule(Outside, <<open>>, 1, In(open)),
   Rule({In(open)}, <<close>>, 1, Plain),
   Rule({In(open)}, <<close, close>>, 2, In(open))}

Quoted(quotes) == UNION {Enclosed(q, q) : q \in quotes}
Escapes(quotes) == {Rule({In(q)}, <<"backslash", c>>, 2, In(q)) : q \in quotes, c \in Chars}
Brackets == Enclosed("open", "close")

\* A body begins outside of a word and ends with the same tag.
Bodies(in) ==
  UNION {{Rule(in, t, Len(t), Body(Len(t))), Rule({Body(Len(t))}, t, Len(t), Plain)} : t \in Tags}

\* Faulty: the option `mysqlComments` is not passed on.
CodeRulesOfPostgres == [d \in Dialects |->
  LineComment("pg") \cup Comment \cup Nesting
  \cup Quoted(Quotes) \cup Escapes(Quotes) \cup Brackets \cup Bodies({Plain})]

\* tokenizeMigrationSql, which knows no words.
CodeRules == [d \in Dialects |->
  LineComment(d) \cup Comment \cup Nesting
  \cup Quoted(Quotes) \cup Escapes(Quotes) \cup Brackets \cup Bodies({Plain})]

Words == {Rule(Outside, <<"letter">>, 1, Word), Rule({Word}, <<"dollar">>, 1, Word)}

\* The databases, as their manuals have it.
ServerRules == [d \in Dialects |->
  LineComment(d) \cup Comment \cup Words \cup
  CASE d = "pg"     -> Nesting \cup Quoted(Quotes \ {"tick"}) \cup Bodies({Plain})
    [] d = "mysql"  -> Quoted(Quotes) \cup Escapes(Quotes \ {"tick"})
    [] d = "sqlite" -> Quoted(Quotes) \cup
                       {r \in Brackets : r.sees # <<"close", "close">>}]

-----------------------------------------------------------------------------
(* Reading *)

Fits(lexer, rules) == {r \in rules : lexer.mode \in r.in /\ IsPrefix(r.sees, text)}

\* What a lexer makes of the next character: a rule, or nothing in particular.
Nothing(lexer) == Rule({}, <<>>, 1, IF lexer.mode = Word THEN Plain ELSE lexer.mode)
Reads(lexer, rules) ==
  LET fits == Fits(lexer, rules) IN
  IF fits = {} THEN Nothing(lexer)
  ELSE CHOOSE r \in fits : \A s \in fits : Len(s.sees) <= Len(r.sees)

Reading(lexer) == lexer.skip = 0

\* A semicolon outside of everything ends a statement.
Cuts(lexer) == Reading(lexer) /\ lexer.mode \in Outside /\ text[1] = "semi"

FreshCode == [hasCode |-> FALSE, hasDollarQuote |-> FALSE, executable |-> FALSE, syntax |-> FALSE]
FreshServer == [keyword |-> FALSE, token |-> FALSE]

\* The flags of the statement so far: hasCode, syntax and the two constructs.
Marks(r) ==
  LET plain == r.sees = <<>> /\ code.mode = Plain /\ text[1] \notin Blank
      bang == r.to = Block(1) /\ code.mode = Plain /\ text[3] = "bang"
      opens == code.mode = Plain /\ r.to[1] \in {"in", "body"}
  IN [hasCode |-> code.marks.hasCode \/ plain \/ bang \/ opens,
      hasDollarQuote |-> code.marks.hasDollarQuote \/ (opens /\ r.to[1] = "body"),
      executable |-> code.marks.executable \/ bang,
      syntax |-> code.marks.syntax \/ plain]

\* splitSqlStatements refuses some statements, and drops one that is all comment.
Refused(m) ==
  m.hasCode /\ \/ dialect = "mysql" /\ m.executable
               \/ dialect # "pg" /\ m.hasDollarQuote /\ ~(m.executable /\ ~m.syntax)
Pushed(m) == m.hasCode /\ ~(m.executable /\ ~m.syntax)

CodeReads ==
  LET r == Reads(code, CodeRules[dialect]) IN
  code' = IF ~Reading(code) THEN [code EXCEPT !.skip = @ - 1]
          ELSE IF Cuts(code)
          THEN [code EXCEPT !.marks = FreshCode, !.refused = @ \/ Refused(code.marks)]
          ELSE [code EXCEPT !.mode = r.to, !.skip = r.takes - 1, !.marks = Marks(r)]

ServerReads ==
  LET r == Reads(server, ServerRules[dialect])
      comment == r.to[1] \in {"line", "block"}
      blank == r.sees = <<>> /\ text[1] \in Blank IN
  server' = IF ~Reading(server) THEN [server EXCEPT !.skip = @ - 1]
            ELSE IF Cuts(server)
            THEN [server EXCEPT !.mode = Plain, !.holds = FreshServer]
            ELSE [server EXCEPT
                    !.mode = r.to, !.skip = r.takes - 1,
                    !.holds = IF server.mode \notin Outside \/ comment \/ blank THEN @
                              ELSE [keyword |-> @.keyword \/ text[1] = "letter", token |-> TRUE]]

\* A statement ends for both: either it is one, or there is nothing in it.
Dropped == server.holds.keyword /\ ~Pushed(code.marks)
Invented == Pushed(code.marks) /\ ~server.holds.token

Differences ==
  {d \in {"cut", "kept", "dropped"} :
     \/ d = "cut" /\ Cuts(code) /\ ~Cuts(server)
     \/ d = "kept" /\ Cuts(server) /\ ~Cuts(code)
     \/ d = "dropped" /\ Cuts(server) /\ Cuts(code) /\ (Dropped \/ Invented)}

\* The constructs the next characters use, by the database's reading.
Uses ==
  {c \in Constructs : Reading(server) /\
     \/ c = "backslash" /\ text[1] = "backslash" /\ server.mode[1] = "in"
        /\ (dialect # "mysql" \/ server.mode = In("tick"))
     \/ c = "nested" /\ dialect # "pg" /\ server.mode[1] = "block"
        /\ IsPrefix(<<"slash", "star">>, text)
     \/ c = "bracket" /\ dialect # "sqlite" /\ server.mode \in Outside /\ text[1] = "open"
     \/ c = "bracket" /\ server.mode = In("open") /\ IsPrefix(<<"close", "close">>, text)
     \/ c = "dollar" /\ server.mode = Word /\ text[1] = "dollar"
     \/ c = "dollar" /\ dialect # "pg" /\ code.mode = Plain /\ \E t \in Tags : IsPrefix(t, text)
     \/ c = "backtick" /\ dialect = "pg" /\ server.mode \in Outside /\ text[1] = "tick"}

TooDeep(lexer) ==
  Reading(lexer) /\ lexer.mode = Block(MaxDepth) /\ IsPrefix(<<"slash", "star">>, text)

Scan ==
  /\ text[1] # Eof /\ ~code.refused
  /\ Uses \subseteq Written
  /\ ~TooDeep(code) /\ ~TooDeep(server)
  /\ CodeReads
  /\ ServerReads
  /\ differ' = differ \cup Differences
  /\ \E c \in IF text[3] = Eof THEN {Eof} ELSE Alphabet[dialect] \cup {Eof} :
       text' = <<text[2], text[3], c>>
  /\ UNCHANGED dialect

SqlInit ==
  /\ dialect \in Dialects
  /\ text \in {t \in [1..3 -> Alphabet[dialect] \cup {Eof}] :
                 \A i \in 1..2 : t[i] = Eof => t[i + 1] = Eof}
  /\ code = [mode |-> Plain, skip |-> 0, marks |-> FreshCode, refused |-> FALSE]
  /\ server = [mode |-> Plain, skip |-> 0, holds |-> FreshServer]
  /\ differ = {}

SqlNext == Scan

\* The end of the file is the end of a statement, if nothing is open.
Open(lexer) == lexer.mode[1] \in {"in", "body", "block"}
Accepted == text[1] = Eof /\ ~Open(code) /\ ~code.refused /\ ~Refused(code.marks)

SqlSpec == SqlInit /\ [][SqlNext]_sql

-----------------------------------------------------------------------------
(* Properties *)

\* Refused already, or whatever the rest of the file.
Doomed == code.refused \/ (dialect # "pg" /\ code.marks.hasDollarQuote)

\* A file that is not refused is cut where the database ends a statement and
\* nowhere else, none of its statements is lost and none is made up; and it is
\* refused as unterminated only if the database would find it so.
StatementsAreTheServers ==
  /\ differ # {} => Doomed
  /\ Accepted => ~Dropped /\ ~Invented /\ ~Open(server)
  /\ text[1] = Eof /\ Open(code) => Open(server) \/ Doomed

\* splitSqlStatements: "without treating protected semicolons as statement
\* boundaries", of files the database reads to their end.
ProtectedStays == Accepted /\ ~Open(server) => "cut" \notin differ
=============================================================================
