------------------------------ MODULE Session ------------------------------
(***************************************************************************)
(* How statements get from the user to the engine (wackdb_cli, main.rs):   *)
(* the loop that reads lines and collects them until one ends in ";",      *)
(* .source, which cuts a file at every ";", and process_command, which     *)
(* parses what either hands over.                                          *)
(*                                                                         *)
(* The user is modelled too: someone with statements in mind, who writes   *)
(* them piece by piece, laid out in the many ways that mean the same.      *)
(* What arrives has to be what was meant.                                  *)
(***************************************************************************)
EXTENDS SqlParser, SequencesExt

CONSTANTS
    Statements,    \* results of ParseSql that a user may have in mind first
    Followers,     \* and later on
    Commands,      \* dot commands a user may have in mind
    Comments,      \* texts of comments
    MaxStatements, \* bound: statements per session
    MaxOdd         \* bound: unusual layouts and forgotten pieces per session

VARIABLES
    byFile,            \* TRUE: the user writes a file and runs it with .source
    running,           \* the loop goes on
    current_statement, \* lines collected so far
    line,              \* the line being written
    file,              \* the file being written, without this line
    answers,           \* what process_command made of each command, in order
    last, todo,        \* the piece just written, the pieces still to write
    goal,              \* the statement that is being written
    meant,             \* statements written to their end
    odd,               \* counter of the bound
    regular            \* nothing was written that the loop is known to misread

user == <<last, todo, goal, meant, odd, regular>>
program == <<byFile, running, current_statement, line, file, answers>>
vars == <<user, program>>

Nothing == [kind |-> "nothing"]
Slip == [kind |-> "slip"]      \* a statement with a piece forgotten

-----------------------------------------------------------------------------
(* The pieces a statement is written in.                                   *)

RECURSIVE Joined(_, _)
Joined(lists, between) ==
    IF Len(lists) <= 1 THEN IF lists = <<>> THEN <<>> ELSE lists[1]
    ELSE lists[1] \o between \o Joined(Tail(lists), between)

Numbers == {"1", "2"}
Value(v) == IF v[1] \in Numbers THEN v ELSE <<"'">> \o v \o <<"'">>

(* A column is written with the name its table goes by, if there is one.   *)
Column(by, column) == IF by = <<>> THEN column ELSE by \o <<".">> \o column

Where(conditions, by) ==
    LET word(c) == IF c.next_logic = "none" THEN <<>> ELSE << <<c.next_logic>> >> IN
    IF conditions = <<>> THEN <<>>
    ELSE << <<"where">> >> \o Joined([i \in DOMAIN conditions |->
             LET c == conditions[i] IN
             <<Column(by, c.left_col), <<c.operator>>, Value(c.right_val)>> \o word(c)], <<>>)

Table(name, alias) == IF alias = <<>> THEN <<name>> ELSE <<name, alias>>

(* Columns are written with the alias of the first table, columns behind   *)
(* ON with the names their tables go by.                                   *)
Written(s) ==
    CASE s.kind = "select" ->
           << <<"select">> >>
           \o Joined([i \in DOMAIN s.columns |-> <<Column(s.alias, s.columns[i])>>], << <<",">> >>)
           \o << <<"from">> >> \o Table(s.table, s.alias)
           \o Joined([i \in DOMAIN s.join |->
                LET j == s.join[i] IN
                << <<"join">> >> \o Table(j.table, j.alias)
                \o << <<"on">>, Column(IF s.alias = <<>> THEN s.table ELSE s.alias, j.left_col),
                      <<"=">>, Column(IF j.alias = <<>> THEN j.table ELSE j.alias, j.right_col) >>],
                <<>>)
           \o Where(s.where_clause, s.alias)
           \o IF s.order_by = <<>> THEN <<>> ELSE << <<"order">>, <<"by">>, s.order_by >>
      [] s.kind = "insert" ->
           << <<"insert">>, <<"into">>, s.table, <<"values">>, <<"(">> >>
           \o Joined([i \in DOMAIN s.values |-> <<Value(s.values[i])>>], << <<",">> >>)
           \o << <<")">> >>
      [] s.kind = "create" ->
           << <<"create">>, <<"table">> >>
           \o (IF s.if_not_exists THEN << <<"if">>, <<"not">>, <<"exists">> >> ELSE <<>>)
           \o << s.table, <<"(">> >>
           \o Joined([i \in DOMAIN s.columns |->
                         <<s.columns[i].name, s.columns[i].data_type>>], << <<",">> >>)
           \o << <<")">> >>
      [] s.kind = "drop" ->
           << <<"drop">>, <<"table">> >>
           \o (IF s.if_exists THEN << <<"if">>, <<"exists">> >> ELSE <<>>) \o <<s.table>>
      [] s.kind = "delete" ->
           << <<"delete">>, <<"from">>, s.table >> \o Where(s.where_clause, <<>>)
      [] s.kind = "meta" -> << <<".", s.command>> >>

-----------------------------------------------------------------------------
(* process_command *)

MetaCommands == {"help", "tables", "reset", "checkpoint", "demo"}

ProcessCommand(cmd) ==
    IF StartsWith(cmd, <<".">>)
    THEN IF Len(cmd) > 1 /\ cmd[2] \in MetaCommands THEN [kind |-> "meta", command |-> cmd[2]]
         ELSE Refused
    ELSE ParseSql(cmd)

Answered(results) ==
    /\ answers' = answers \o results
    /\ running' = \A n \in DOMAIN results : results[n] # Panic

(* One line of the loop.                                                   *)
ReadLine(read) ==
    LET trimmed == Trim(read)
        whole == current_statement \o read
        stmt == Trim(TrimEnd(";", Trim(whole))) IN
    IF current_statement = <<>> /\ trimmed = <<>>
    THEN UNCHANGED <<current_statement, answers, running>>
    ELSE IF current_statement = <<>> /\ trimmed = <<".", "exit">>
    THEN /\ running' = FALSE
         /\ answers' = Append(answers, [kind |-> "meta", command |-> "exit"])
         /\ UNCHANGED current_statement
    ELSE IF current_statement = <<>> /\ trimmed[1] = "."
    THEN Answered(<<ProcessCommand(trimmed)>>) /\ UNCHANGED current_statement
    ELSE IF Trim(whole)[Len(Trim(whole))] = ";"
    THEN Answered(<<ProcessCommand(stmt)>>) /\ current_statement' = <<>>
    ELSE current_statement' = whole /\ UNCHANGED <<answers, running>>

(* .source: commands up to the first that ends the process.                *)
RECURSIVE Sourced(_)
Sourced(stmts) ==
    IF stmts = <<>> THEN <<>>
    ELSE LET stmt == Trim(stmts[1])
             result == ProcessCommand(stmt) IN
         IF stmt = <<>> THEN Sourced(Tail(stmts))
         ELSE IF result = Panic THEN <<result>>
         ELSE <<result>> \o Sourced(Tail(stmts))

-----------------------------------------------------------------------------
(* Writing.  A layout stands before a piece: a space where one is needed,  *)
(* or something unusual that means the same.                               *)

Punctuation == {"(", ")", ",", "=", ">", "<", ">=", "<=", "!=", ";"}

(* VALUES is known by the blanks on both sides of it.                      *)
MayTouch(left, right) ==
    (left[1] \in Punctuation \/ right[1] \in Punctuation) /\ <<"values">> \notin {left, right}

LineBreaks == { <<"\n">> } \cup { <<"--">> \o c \o <<"\n">> : c \in Comments }
Usual(left, right) == IF MayTouch(left, right) THEN {<<>>} ELSE {<<" ">>}
Unusual(left, right) == (LineBreaks \cup {<<" ">>, <<" ", " ">>}) \ Usual(left, right)

(* Where comments are misread: a ";" at the end of a typed line, or        *)
(* anywhere in a file.                                                     *)
Misread(layout) ==
    IF byFile THEN \E i \in DOMAIN layout : layout[i] = ";"
    ELSE Len(layout) > 1 /\ layout[Len(layout)] = "\n" /\ layout[Len(layout) - 1] = ";"

(* The rest of the line, up to its break, is read; text begins the next.   *)
Put(layout, text) ==
    IF layout # <<>> /\ layout[Len(layout)] = "\n"
    THEN /\ line' = text
         /\ IF byFile THEN /\ file' = file \o line \o layout
                           /\ UNCHANGED <<running, current_statement, answers>>
            ELSE ReadLine(line \o layout) /\ UNCHANGED file
    ELSE line' = line \o layout \o text /\ UNCHANGED <<running, current_statement, answers, file>>

WritePiece(piece) ==
    /\ last' = piece
    /\ \/ /\ \E layout \in Usual(last, piece) : Put(layout, piece)
          /\ UNCHANGED <<odd, regular>>
       \/ /\ odd < MaxOdd
          /\ odd' = odd + 1
          /\ \E layout \in Unusual(last, piece) :
               Put(layout, piece) /\ regular' = (regular /\ ~Misread(layout))

Init ==
    /\ byFile \in BOOLEAN
    /\ running = TRUE
    /\ current_statement = <<>> /\ line = <<>> /\ file = <<>> /\ answers = <<>>
    /\ last = <<";">> /\ todo = <<>> /\ goal = Nothing /\ meant = <<>>
    /\ odd = 0 /\ regular = TRUE

Fresh == running /\ goal = Nothing /\ Len(meant) < MaxStatements

(* A statement is begun, on a line of its own or after blank lines and     *)
(* comments.                                                               *)
Begin(s) ==
    /\ Fresh
    /\ goal' = s
    /\ todo' = Tail(Written(s))
    /\ WritePiece(Written(s)[1])
    /\ UNCHANGED <<byFile, meant>>

(* A piece of it will be forgotten. *)
BeginWithSlip(s) ==
    /\ Fresh /\ odd < MaxOdd
    /\ \E n \in DOMAIN Written(s) : todo' = RemoveAt(Written(s), n) /\ todo' # <<>>
    /\ goal' = Slip
    /\ odd' = odd + 1
    /\ UNCHANGED <<program, last, meant, regular>>

Write ==
    /\ running /\ todo # <<>>
    /\ todo' = Tail(todo)
    /\ WritePiece(Head(todo))
    /\ UNCHANGED <<byFile, goal, meant>>

(* The end of a statement: ";" and the end of the line, or a comment, or   *)
(* the next statement on the same line.                                    *)
Finish ==
    /\ running /\ todo = <<>> /\ goal # Nothing /\ goal.kind # "meta"
    /\ goal' = Nothing
    /\ meant' = Append(meant, goal)
    /\ last' = <<";">>
    /\ \/ Put(<<";", "\n">>, <<>>) /\ UNCHANGED <<odd, regular>>
       \/ /\ odd < MaxOdd
          /\ odd' = odd + 1
          /\ \/ Put(<<" ", ";", " ", "\n">>, <<>>) /\ UNCHANGED regular
             \/ \E tail \in {<<";", " ">>} \cup { <<";">> \o comment : comment \in LineBreaks \ {<<"\n">>} } :
                  /\ Put(tail, <<>>)
                  /\ regular' = (regular /\ byFile /\ ~Misread(Tail(tail)))
    /\ UNCHANGED <<byFile, todo>>

(* A dot command ends with its line; in a file, with ";".  It has to be    *)
(* the first thing behind the statement before it, a comment is one too.   *)
(* .exit is a command of the loop.                                         *)
FinishCommand ==
    /\ running /\ goal.kind = "meta"
    /\ goal' = Nothing
    /\ meant' = Append(meant, goal)
    /\ last' = <<";">>
    /\ Put(IF byFile THEN <<";", "\n">> ELSE <<"\n">>, <<>>)
    /\ LET behind == Split(file \o line, ";") IN
       regular' = (regular /\ IF byFile THEN goal.command # "exit" /\ Trim(behind[Len(behind)])[1] = "."
                                 ELSE current_statement = <<>> /\ Trim(line)[1] = ".")
    /\ UNCHANGED <<byFile, todo, odd>>

(* .source: the file is done and run.                                      *)
Source ==
    /\ running /\ byFile /\ goal = Nothing /\ meant # <<>>
    /\ answers' = Sourced(Split(file \o line, ";"))
    /\ running' = FALSE
    /\ UNCHANGED <<user, byFile, current_statement, line, file>>

Chosen == (IF meant = <<>> THEN Statements ELSE Followers)
          \cup { [kind |-> "meta", command |-> c] : c \in Commands }

Next ==
    \/ \E s \in Chosen : Begin(s) \/ BeginWithSlip(s)
    \/ Write
    \/ Finish
    \/ FinishCommand
    \/ Source

Spec == Init /\ [][Next]_vars

-----------------------------------------------------------------------------
(* Every statement that was written is executed once, in order, as it was  *)
(* meant, and when its line ends (in a file: when the file is run),        *)
(* wherever it has line breaks, comments, blanks or none between its       *)
(* pieces, quoted "--" and quoted blanks in its values, and whatever       *)
(* became of a statement before it that has a piece missing, unless that   *)
(* ended the process.  (A comment at the end of a file has an answer of    *)
(* its own, an error.)                                                     *)
ExecutesAsMeant ==
    regular /\ (byFile => ~running) =>
        /\ \A n \in DOMAIN answers :
              IF n \in DOMAIN meant THEN answers[n] = meant[n] \/ meant[n] = Slip
              ELSE byFile /\ answers[n] = Refused
        /\ Len(answers) >= Len(meant) \/ Last(answers) = Panic

=============================================================================
