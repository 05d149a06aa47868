------------------------------- MODULE PgSchema -------------------------------
(***************************************************************************)
(* PgSchema of internal/converter.go, as scheme-converter uses it: a dump  *)
(* is read line by line by an automaton with four modes, complete objects  *)
(* are saved in a map, and the tables of the map are written in the order  *)
(* of their names.                                                         *)
(*                                                                         *)
(* A line is a record with a kind:                                         *)
(*   "table", "view"   CREATE TABLE / VIEW with a schema.name,             *)
(*   "endedView"       such a CREATE VIEW that ends with a semicolon,      *)
(*   "nodot"           a CREATE whose name has no schema,                  *)
(*   "bracket"         ")" and nothing else, once an encoding clause is    *)
(*                     cut off,                                            *)
(*   "semicolon"       ";" and nothing else,                               *)
(*   "endedText"       any other line that ends with a semicolon,          *)
(*   "text"            any other line,                                     *)
(*   "long"            a line beyond the limit of bufio.Scanner.           *)
(* The text of an object is the sequence of the places of its lines, which *)
(* stand for the lines as they are rewritten (the name in the first one,   *)
(* no encoding clause in the columns).                                     *)
(***************************************************************************)
EXTENDS Integers, Sequences, FiniteSets, SequencesExt

CONSTANTS Dumps,        \* the dumps considered
          Spelling,     \* Spelling[i]: the identifier i, as [text, quoted]; the
                        \*   numbers are in the order of the identifiers
          Chars,        \* the characters of identifiers
          MaxPgNameLen, \* 63 in the code
          HashLen,      \* 8 in the code
          Digest(_)     \* the first HashLen hexadecimal digits of the md5 of
                        \*   a text; other texts may have the same

LineKinds ==
  {"table", "view", "endedView", "nodot", "bracket", "semicolon", "endedText", "text", "long"}

WithSchema == {"table", "view", "endedView"}

(* A CREATE with a schema names two identifiers; identifiers that are     *)
(* spelled alike are the same.                                             *)
ASSUME SchemaAssumption ==
  /\ Spelling \in Seq([text : Seq(Chars), quoted : BOOLEAN]) /\ "underscore" \in Chars
  /\ \A i, j \in DOMAIN Spelling : Spelling[i] = Spelling[j] => i = j
  /\ MaxPgNameLen \in Nat /\ HashLen \in 0..MaxPgNameLen
  /\ Dumps \subseteq Seq([kind : LineKinds, name : Seq(Nat)])
  /\ \A d \in Dumps : \A i \in DOMAIN d :
       d[i].kind \in WithSchema =>
         d[i].name \in (DOMAIN Spelling) \X (DOMAIN Spelling)

VARIABLES dump,       \* the file that is read
          at,         \* the next line
          parseMode,  \* the mode of the automaton, or "end" or "fatal"
          current,    \* currentObjectType, currentSchema and -Name, currentText
          creations,  \* the saved texts, by type and name
          output      \* what formatOutPut has written

schemaVars == <<dump, at, parseMode, current, creations, output>>

NoObject == [type |-> "none", name |-> <<>>, text |-> <<>>]

(* Lines of a text that do not come from the dump. *)
StubPrimaryKey == 0
Semicolon      == -1

SchemaInit ==
  /\ dump \in Dumps
  /\ at = 1
  /\ parseMode = "empty"
  /\ current = NoObject
  /\ creations = [k \in {} |-> <<>>]
  /\ output = <<>>

(* c.input.Scan() has a line for parseLine in this mode. *)
Line(mode) ==
  /\ parseMode = mode
  /\ at <= Len(dump) /\ dump[at].kind # "long"
  /\ at' = at + 1
  /\ UNCHANGED <<dump, output>>

-----------------------------------------------------------------------------
(* A name is <<schema, name>>, two identifiers. *)
Separator == <<"underscore", "underscore", "underscore">>
Quotes(i) == IF Spelling[i].quoted THEN <<"quote">> ELSE <<>>
Raw(i)    == Quotes(i) \o Spelling[i].text \o Quotes(i)

(* strings.Trim takes the quotes off the name, and not off the schema. *)
Joined(n) == Raw(n[1]) \o Separator \o Spelling[n[2]].text

ASSUME DigestAssumption ==
  \A n \in (DOMAIN Spelling) \X (DOMAIN Spelling) :
    Digest(Joined(n)) \in Seq(Chars) /\ Len(Digest(Joined(n))) = HashLen

TooLong(n) == Len(Joined(n)) > MaxPgNameLen

(* Mutant of replaceSchemaAndName: a long name is cut and nothing more. *)
CutName(n) == SubSeq(Joined(n), 1, MaxPgNameLen)

replaceSchemaAndName(n) ==
  LET to == Joined(n)
  IN  IF TooLong(n) THEN SubSeq(to, 1, MaxPgNameLen - HashLen) \o Digest(to) ELSE to

-----------------------------------------------------------------------------
(* Mutant of NewText: the text goes on with what is left of the last one. *)
ContinuedText(lines) == current.text \o lines

NewText(lines) == lines

(* processLineEmpty. *)
StartTable ==
  /\ Line("empty") /\ dump[at].kind = "table"
  /\ parseMode' = "createTable"
  /\ current' = [type |-> "table", name |-> dump[at].name,
                 text |-> NewText(<<at, StubPrimaryKey>>)]
  /\ UNCHANGED creations

StartView ==
  /\ Line("empty") /\ dump[at].kind \in {"view", "endedView"}
  /\ parseMode' = "createView"
  /\ current' = [type |-> "view", name |-> dump[at].name, text |-> NewText(<<at>>)]
  /\ UNCHANGED creations

(* extractNames: log.Fatalf. *)
StartNoSchema ==
  /\ Line("empty") /\ dump[at].kind = "nodot"
  /\ parseMode' = "fatal"
  /\ UNCHANGED <<current, creations>>

SkipLine ==
  /\ Line("empty") /\ dump[at].kind \in {"bracket", "semicolon", "endedText", "text"}
  /\ UNCHANGED <<parseMode, current, creations>>

(* processLineCreateTable: only a line that is ")" ends the columns. *)
TableLine ==
  /\ Line("createTable")
  /\ current' = [current EXCEPT !.text = Append(@, at)]
  /\ parseMode' = IF dump[at].kind = "bracket" THEN "excludeSuffix" ELSE "createTable"
  /\ UNCHANGED creations

(* Mutant of SaveObject: the last object with a name stays. *)
SaveLast(text) ==
  /\ creations' = (<<current.type, current.name>> :> text) @@ creations
  /\ current' = NoObject

(* saveObject: the first object with a name stays; after a second one the  *)
(* current object is left as it is.                                        *)
SaveObject(text) ==
  LET key == <<current.type, current.name>>
  IN  IF key \in DOMAIN creations
      THEN /\ current' = [current EXCEPT !.text = text]
           /\ UNCHANGED creations
      ELSE /\ creations' = [k \in DOMAIN creations \cup {key} |->
                            IF k = key THEN text ELSE creations[k]]
           /\ current' = NoObject

(* processLineCreateTableExcludeSuffix: only a line that is ";" ends it. *)
SkipSuffix ==
  /\ Line("excludeSuffix") /\ dump[at].kind # "semicolon"
  /\ UNCHANGED <<parseMode, current, creations>>

EndTable ==
  /\ Line("excludeSuffix") /\ dump[at].kind = "semicolon"
  /\ SaveObject(Append(current.text, Semicolon))
  /\ parseMode' = "empty"

EndsWithSemicolon(i) == dump[i].kind \in {"endedView", "semicolon", "endedText"}

(* processLineCreateView.  Its first line is not tested for a semicolon. *)
ViewLine ==
  /\ Line("createView") /\ ~EndsWithSemicolon(at)
  /\ current' = [current EXCEPT !.text = Append(@, at)]
  /\ UNCHANGED <<parseMode, creations>>

EndView ==
  /\ Line("createView") /\ EndsWithSemicolon(at)
  /\ SaveObject(Append(current.text, at))
  /\ parseMode' = "empty"

-----------------------------------------------------------------------------
Precedes(n, m) == n[1] < m[1] \/ (n[1] = m[1] /\ n[2] < m[2])

(* The names one after the other, in the order of the identifiers. *)
Orders(names) ==
  {q \in [1..Cardinality(names) -> names] : \A i, j \in DOMAIN q : i < j => Precedes(q[i], q[j])}

TableNames == {k[2] : k \in {k \in DOMAIN creations : k[1] = "table"}}

(* formatOutPut, at the end of the file or at a line that is too long (the *)
(* error of the scanner is not looked at).  Views are not written.         *)
WriteTables ==
  /\ parseMode \notin {"end", "fatal"}
  /\ at <= Len(dump) => dump[at].kind = "long"
  /\ \E names \in Orders(TableNames) :
       output' = [i \in DOMAIN names |-> creations[<<"table", names[i]>>]]
  /\ parseMode' = "end"
  /\ UNCHANGED <<dump, at, current, creations>>

Stopped == parseMode \in {"end", "fatal"} /\ UNCHANGED schemaVars

SchemaNext ==
  \/ StartTable \/ StartView \/ StartNoSchema \/ SkipLine
  \/ TableLine \/ SkipSuffix \/ EndTable \/ ViewLine \/ EndView
  \/ WriteTables \/ Stopped

SchemaSpec == SchemaInit /\ [][SchemaNext]_schemaVars

-----------------------------------------------------------------------------
(* The reference: a dump is regular when each CREATE is complete before    *)
(* the next one.  For a table that is a line ")" and, after it, a line     *)
(* ";"; for a view a later line that ends with a semicolon.                *)
Headers == {i \in DOMAIN dump : dump[i].kind \in {"table", "view", "endedView", "nodot"}}

Statement(i) == {j \in DOMAIN dump : j > i /\ \A h \in Headers : h > i => j < h}

Complete(i) ==
  \/ /\ dump[i].kind = "table"
     /\ \E j, k \in Statement(i) : j < k /\ dump[j].kind = "bracket" /\ dump[k].kind = "semicolon"
  \/ /\ dump[i].kind = "view"
     /\ \E j \in Statement(i) : dump[j].kind \in {"semicolon", "endedText"}

Regular ==
  /\ \A i \in DOMAIN dump : dump[i].kind # "long"
  /\ \A i \in Headers : Complete(i)

TableText(i) ==
  LET close == CHOOSE j \in Statement(i) :
                 /\ dump[j].kind = "bracket"
                 /\ \A k \in Statement(i) : dump[k].kind = "bracket" => j <= k
  IN  <<i, StubPrimaryKey>> \o [n \in 1..(close - i) |-> i + n] \o <<Semicolon>>

FirstTables ==
  {i \in Headers : /\ dump[i].kind = "table"
                   /\ \A j \in Headers :
                        j < i /\ dump[j].kind = "table" => dump[j].name # dump[i].name}

(* From a regular dump every table is written, once, in the order of the   *)
(* names, with the columns of its first definition and nothing of the      *)
(* storage clauses or of any other statement around it.                    *)
TablesAreConverted ==
  parseMode = "end" /\ Regular =>
    /\ ToSet(output) = {TableText(i) : i \in FirstTables}
    /\ \A i, j \in DOMAIN output :
         i < j => Precedes(dump[output[i][1]].name, dump[output[j][1]].name)

Lines(text) == {i \in ToSet(text) : i > 0}

(* From any dump, regular or not, a saved text starts with the CREATE of   *)
(* its own name and has every line from there to its last one; no line is  *)
(* in two texts.  What is left in currentText after a second definition    *)
(* never reaches another object.                                           *)
TextsAreSegments ==
  \A k \in DOMAIN creations :
    LET text == creations[k]
    IN  /\ dump[text[1]].name = k[2]
        /\ Lines(text) = text[1]..(text[1] + Cardinality(Lines(text)) - 1)
        /\ \A l \in DOMAIN creations : k # l => Lines(text) \cap Lines(creations[l]) = {}

(* Two tables that are written get two names, unless one of them is too    *)
(* long and its digest is that of the other one, or what the other one     *)
(* ends with when that is short enough to be kept.  Left out are quotes    *)
(* and underscores, which the conversion confuses.                         *)
Plain(n) == \A k \in 1..2 : LET i == Spelling[n[k]] IN ~i.quoted /\ "underscore" \notin ToSet(i.text)

HashPart(text) == SubSeq(text, MaxPgNameLen - HashLen + 1, MaxPgNameLen)

Collide(n, m) ==
  /\ TooLong(n)
  /\ Digest(Joined(n)) = IF TooLong(m) THEN Digest(Joined(m)) ELSE HashPart(Joined(m))

TablesStayApart ==
  parseMode = "end" =>
    \A n, m \in {k \in TableNames : Plain(k)} :
      n # m /\ replaceSchemaAndName(n) = replaceSchemaAndName(m) => Collide(n, m) \/ Collide(m, n)
=============================================================================
