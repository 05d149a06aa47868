---------------------------- MODULE PgSchemaProofs ----------------------------
(***************************************************************************)
(* Proofs about the converter of PgSchema: whatever the dump, each saved   *)
(* text is one piece of it, under its own name, and the pieces are apart;  *)
(* the names of the tables are apart and are those queries ask for; and    *)
(* from a regular dump exactly its tables are written.                     *)
(***************************************************************************)
EXTENDS PgSchema, FiniteSetTheorems, SequenceTheorems, TLAPS

InObject == {"createTable", "excludeSuffix", "createView"}

(* A text whose lines are those from its first one up to a last one.       *)
IsSegment(text, first, last) ==
  /\ text \in Seq(Int) /\ text # <<>>
  /\ first \in Nat /\ last \in Nat /\ 0 < first /\ first <= last
  /\ text[1] = first
  /\ Lines(text) = first..last

(* The object that is read was begun after every saved one was ended; its  *)
(* lines go up to the last line that was read, or up to the line ")".      *)
CurrentInv ==
  parseMode \in InObject =>
    \E first, last \in Nat :
      /\ IsSegment(current.text, first, last)
      /\ dump[first].name = current.name
      /\ last < at
      /\ parseMode # "excludeSuffix" => last + 1 = at
      /\ \A k \in DOMAIN creations : \A i \in Lines(creations[k]) : i < first

SavedInv ==
  \A k \in DOMAIN creations :
    /\ \E first, last \in Nat :
         /\ IsSegment(creations[k], first, last)
         /\ dump[first].name = k[2]
         /\ last < at
    /\ \A l \in DOMAIN creations : k # l => Lines(creations[k]) \cap Lines(creations[l]) = {}

SegmentInv ==
  /\ at \in Nat /\ 0 < at
  /\ current = [type |-> current.type, name |-> current.name, text |-> current.text]
  /\ CurrentInv
  /\ SavedInv

LEMMA SegmentInit == SchemaInit => SegmentInv
  BY DEF SchemaInit, SegmentInv, CurrentInv, SavedInv, InObject, NoObject

(* Another line, or the semicolon, at the end of a text. *)
LEMMA LinesOfAppend ==
  ASSUME NEW text \in Seq(Int), text # <<>>, NEW i \in Int
  PROVE  /\ Append(text, i) \in Seq(Int) /\ Append(text, i) # <<>>
         /\ Append(text, i)[1] = text[1]
         /\ Lines(Append(text, i)) = Lines(text) \cup {j \in {i} : j > 0}
<1> DEFINE longer == Append(text, i)
<1>1. /\ longer \in Seq(Int) /\ Len(longer) = Len(text) + 1 /\ longer # <<>>
      /\ \A n \in 1..Len(text) : longer[n] = text[n]
      /\ longer[Len(text) + 1] = i
      /\ DOMAIN longer = 1..(Len(text) + 1) /\ DOMAIN text = 1..Len(text) /\ Len(text) \in Nat
  OBVIOUS
<1>2. Len(text) > 0
  OBVIOUS
<1> HIDE DEF longer
<1>3. DOMAIN longer = DOMAIN text \cup {Len(text) + 1}
  BY <1>1
<1>4. ToSet(longer) = ToSet(text) \cup {i}
  BY <1>1, <1>3 DEF ToSet
<1>5. longer[1] = text[1]
  BY <1>1, <1>2
<1>6. Lines(longer) = Lines(text) \cup {j \in {i} : j > 0}
  BY <1>4 DEF Lines
<1> QED
  BY <1>1, <1>5, <1>6 DEF longer

LEMMA SegmentGrows ==
  ASSUME NEW text, NEW first, NEW last, IsSegment(text, first, last)
  PROVE  /\ IsSegment(Append(text, last + 1), first, last + 1)
         /\ IsSegment(Append(text, Semicolon), first, last)
<1>1. /\ text \in Seq(Int) /\ text # <<>> /\ first \in Nat /\ last \in Nat /\ 0 < first /\ first <= last
      /\ Lines(text) = first..last /\ text[1] = first
  BY DEF IsSegment
<1>2. {j \in {last + 1} : j > 0} = {last + 1} /\ {j \in {Semicolon} : j > 0} = {}
  BY <1>1 DEF Semicolon
<1>3. Lines(Append(text, last + 1)) = (first..last) \cup {last + 1}
  BY <1>1, <1>2, LinesOfAppend
<1>4. (first..last) \cup {last + 1} = first..(last + 1)
  BY <1>1
<1>5. Semicolon \in Int
  BY DEF Semicolon
<1>6. Lines(Append(text, Semicolon)) = first..last
  BY <1>1, <1>2, <1>5, LinesOfAppend
<1>7. IsSegment(Append(text, last + 1), first, last + 1)
  <2>1. last + 1 \in Nat /\ last + 1 \in Int /\ first <= last + 1
    BY <1>1
  <2>2. /\ Append(text, last + 1) \in Seq(Int) /\ Append(text, last + 1) # <<>>
        /\ Append(text, last + 1)[1] = first
    BY <1>1, <2>1, LinesOfAppend
  <2> QED
    BY <1>1, <1>3, <1>4, <2>1, <2>2 DEF IsSegment
<1>8. IsSegment(Append(text, Semicolon), first, last)
  <2>1. /\ Append(text, Semicolon) \in Seq(Int) /\ Append(text, Semicolon) # <<>>
        /\ Append(text, Semicolon)[1] = first
    BY <1>1, <1>5, LinesOfAppend
  <2> QED
    BY <1>1, <1>6, <2>1 DEF IsSegment
<1> QED
  BY <1>7, <1>8

(* The first line of an object. *)
LEMMA SegmentStarts ==
  ASSUME NEW i \in Nat, 0 < i
  PROVE  IsSegment(<<i, StubPrimaryKey>>, i, i) /\ IsSegment(<<i>>, i, i)
<1> DEFINE table == <<i, 0>>
           view  == <<i>>
<1>1. /\ DOMAIN table = {1, 2} /\ table[1] = i /\ table[2] = 0 /\ table \in Seq(Int) /\ table # <<>>
      /\ DOMAIN view = {1} /\ view[1] = i /\ view \in Seq(Int) /\ view # <<>>
  OBVIOUS
<1> HIDE DEF table, view
<1>2. ToSet(table) = {i, 0} /\ ToSet(view) = {i}
  BY <1>1 DEF ToSet
<1>3. Lines(table) = {i} /\ Lines(view) = {i}
  BY <1>2 DEF Lines
<1>4. i..i = {i}
  OBVIOUS
<1>5. IsSegment(table, i, i) /\ IsSegment(view, i, i)
  BY <1>1, <1>3, <1>4 DEF IsSegment
<1> QED
  BY <1>5 DEF table, view, StubPrimaryKey

(* A step into an object. *)
LEMMA StartKeepsInv ==
  ASSUME SegmentInv, StartTable \/ StartView
  PROVE  SegmentInv'
<1>1. /\ at \in Nat /\ 0 < at /\ at' = at + 1 /\ UNCHANGED <<dump, creations>>
      /\ parseMode' \in {"createTable", "createView"}
      /\ current'.text \in {<<at, StubPrimaryKey>>, <<at>>}
      /\ current'.name = dump[at].name
      /\ current' = [type |-> current'.type, name |-> current'.name, text |-> current'.text]
  <2>1. CASE StartTable
    BY <2>1 DEF SegmentInv, StartTable, Line, NewText
  <2>2. CASE StartView
    BY <2>2 DEF SegmentInv, StartView, Line, NewText
  <2> QED
    BY <2>1, <2>2
<1>2. IsSegment(current'.text, at, at)
  BY <1>1, SegmentStarts
<1>3. \A k \in DOMAIN creations : \A i \in Lines(creations[k]) : i < at
  BY <1>1 DEF SegmentInv, SavedInv, IsSegment
<1>4. CurrentInv'
  BY <1>1, <1>2, <1>3 DEF CurrentInv
<1>5. SavedInv'
  <2>1. \A first, last \in Nat : last < at => last < at'
    BY <1>1
  <2> QED
    BY <1>1, <2>1 DEF SegmentInv, SavedInv
<1> QED
  BY <1>1, <1>4, <1>5 DEF SegmentInv

(* A line that goes on with an object, or with its storage clause. *)
LEMMA LineKeepsInv ==
  ASSUME SegmentInv, TableLine \/ ViewLine \/ SkipSuffix \/ SkipLine
  PROVE  SegmentInv'
<1>1. /\ at \in Nat /\ 0 < at /\ at' = at + 1 /\ UNCHANGED <<dump, creations>>
      /\ current'.name = current.name
      /\ current' = [type |-> current'.type, name |-> current'.name, text |-> current'.text]
  BY DEF SegmentInv, TableLine, ViewLine, SkipSuffix, SkipLine, Line
<1>2. SavedInv'
  <2>1. \A first, last \in Nat : last < at => last < at'
    BY <1>1
  <2> QED
    BY <1>1, <2>1 DEF SegmentInv, SavedInv
<1>3. CurrentInv'
  <2>1. CASE TableLine \/ ViewLine
    <3>1. /\ parseMode \in {"createTable", "createView"}
          /\ current'.text = Append(current.text, at)
      BY <2>1 DEF SegmentInv, TableLine, ViewLine, Line
    <3>2. PICK first, last \in Nat :
            /\ IsSegment(current.text, first, last) /\ dump[first].name = current.name
            /\ last + 1 = at
            /\ \A k \in DOMAIN creations : \A i \in Lines(creations[k]) : i < first
      BY <3>1 DEF SegmentInv, CurrentInv, InObject
    <3>3. IsSegment(current'.text, first, at) /\ at < at' /\ at + 1 = at'
      BY <1>1, <3>1, <3>2, SegmentGrows
    <3> QED
      BY <1>1, <3>2, <3>3 DEF CurrentInv
  <2>2. CASE SkipSuffix
    <3>1. parseMode = "excludeSuffix" /\ UNCHANGED <<parseMode, current>>
      BY <2>2 DEF SkipSuffix, Line
    <3>2. PICK first, last \in Nat :
            /\ IsSegment(current.text, first, last) /\ dump[first].name = current.name
            /\ last < at
            /\ \A k \in DOMAIN creations : \A i \in Lines(creations[k]) : i < first
      BY <3>1 DEF SegmentInv, CurrentInv, InObject
    <3>3. last < at'
      BY <1>1, <3>2
    <3> QED
      BY <1>1, <3>1, <3>2, <3>3 DEF CurrentInv
  <2>3. CASE SkipLine
    BY <2>3 DEF SkipLine, Line, CurrentInv, InObject
  <2> QED
    BY <2>1, <2>2, <2>3
<1> QED
  BY <1>1, <1>2, <1>3 DEF SegmentInv

(* The end of an object: it is saved under its name, or forgotten. *)
LEMMA SaveKeepsInv ==
  ASSUME SegmentInv, NEW text, SaveObject(text), parseMode' = "empty",
         at' = at + 1, UNCHANGED dump,
         NEW first \in Nat, NEW last \in Nat, IsSegment(text, first, last), last < at',
         dump[first].name = current.name,
         \A k \in DOMAIN creations : \A i \in Lines(creations[k]) : i < first
  PROVE  SegmentInv'
<1> DEFINE key == <<current.type, current.name>>
<1>0. at \in Nat /\ 0 < at /\ at' \in Nat /\ 0 < at'
      /\ \A n \in Nat : n < at => n < at'
  BY DEF SegmentInv
<1>1. CurrentInv'
  BY DEF CurrentInv, InObject
<1>2. current' = [type |-> current'.type, name |-> current'.name, text |-> current'.text]
  BY DEF SegmentInv, SaveObject, NoObject
<1>3. SavedInv'
  <2>1. CASE key \in DOMAIN creations
    <3>1. creations' = creations
      BY <2>1 DEF SaveObject
    <3> QED
      BY <1>0, <3>1 DEF SegmentInv, SavedInv
  <2>2. CASE key \notin DOMAIN creations
    <3>1. creations' = [k \in DOMAIN creations \cup {key} |->
                         IF k = key THEN text ELSE creations[k]]
      BY <2>2 DEF SaveObject
    <3>2. /\ DOMAIN creations' = DOMAIN creations \cup {key}
          /\ creations'[key] = text
          /\ \A k \in DOMAIN creations : creations'[k] = creations[k]
      BY <2>2, <3>1
    <3>3. key[2] = current.name
      OBVIOUS
    <3> HIDE DEF key
    <3>4. \A i \in Lines(text) : first <= i
      BY DEF IsSegment
    <3>5. \A k \in DOMAIN creations : Lines(creations[k]) \cap Lines(text) = {}
      <4> SUFFICES ASSUME NEW k \in DOMAIN creations, NEW i \in Lines(creations[k]), i \in Lines(text)
                   PROVE  FALSE
        OBVIOUS
      <4>1. i < first /\ first <= i /\ i \in Int
        BY <3>4 DEF IsSegment
      <4> QED
        BY <4>1
    <3>6. ASSUME NEW k \in DOMAIN creations'
          PROVE  \E f, l \in Nat : /\ IsSegment(creations'[k], f, l)
                                   /\ dump'[f].name = k[2] /\ l < at'
      <4>1. CASE k = key
        BY <3>2, <3>3, <4>1
      <4>2. CASE k \in DOMAIN creations
        <5>1. PICK f, l \in Nat : IsSegment(creations[k], f, l) /\ dump[f].name = k[2] /\ l < at
          BY <4>2 DEF SegmentInv, SavedInv
        <5> QED
          BY <1>0, <3>2, <4>2, <5>1
      <4> QED
        BY <3>2, <4>1, <4>2
    <3>7. ASSUME NEW k \in DOMAIN creations', NEW l \in DOMAIN creations', k # l
          PROVE  Lines(creations'[k]) \cap Lines(creations'[l]) = {}
      BY <3>2, <3>5, <3>7 DEF SegmentInv, SavedInv
    <3> QED
      BY <3>6, <3>7 DEF SavedInv
  <2> QED
    BY <2>1, <2>2
<1> QED
  BY <1>0, <1>1, <1>2, <1>3 DEF SegmentInv

LEMMA EndKeepsInv ==
  ASSUME SegmentInv, EndTable \/ EndView
  PROVE  SegmentInv'
<1>1. CASE EndTable
  <2>1. PICK first, last \in Nat :
          /\ IsSegment(current.text, first, last) /\ dump[first].name = current.name
          /\ last < at
          /\ \A k \in DOMAIN creations : \A i \in Lines(creations[k]) : i < first
    BY <1>1 DEF EndTable, Line, SegmentInv, CurrentInv, InObject
  <2>2. PICK text : text = Append(current.text, Semicolon)
    OBVIOUS
  <2>3. /\ IsSegment(text, first, last) /\ SaveObject(text) /\ parseMode' = "empty"
        /\ at' = at + 1 /\ UNCHANGED dump
    BY <1>1, <2>1, <2>2, SegmentGrows DEF EndTable, Line
  <2>4. last < at'
    BY <2>1, <2>3 DEF SegmentInv
  <2> QED
    BY <2>1, <2>3, <2>4, SaveKeepsInv
<1>2. CASE EndView
  <2>1. PICK first, last \in Nat :
          /\ IsSegment(current.text, first, last) /\ dump[first].name = current.name
          /\ last + 1 = at
          /\ \A k \in DOMAIN creations : \A i \in Lines(creations[k]) : i < first
    BY <1>2 DEF EndView, Line, SegmentInv, CurrentInv, InObject
  <2>2. PICK text : text = Append(current.text, last + 1)
    OBVIOUS
  <2>3. /\ IsSegment(text, first, last + 1) /\ SaveObject(text) /\ parseMode' = "empty"
        /\ at' = at + 1 /\ UNCHANGED dump
    BY <1>2, <2>1, <2>2, SegmentGrows DEF EndView, Line
  <2>4. last + 1 \in Nat /\ last + 1 < at'
    BY <2>1, <2>3
  <2> QED
    BY <2>1, <2>3, <2>4, SaveKeepsInv
<1> QED
  BY <1>1, <1>2

LEMMA SegmentInductive == SegmentInv /\ [SchemaNext]_schemaVars => SegmentInv'
<1> SUFFICES ASSUME SegmentInv, [SchemaNext]_schemaVars PROVE SegmentInv'
  OBVIOUS
<1>1. CASE StartTable \/ StartView
  BY <1>1, StartKeepsInv
<1>2. CASE TableLine \/ ViewLine \/ SkipSuffix \/ SkipLine
  BY <1>2, LineKeepsInv
<1>3. CASE EndTable \/ EndView
  BY <1>3, EndKeepsInv
<1>4. CASE StartNoSchema
  <2>1. /\ at \in Nat /\ 0 < at /\ at' = at + 1 /\ UNCHANGED <<dump, creations, current>>
        /\ parseMode' = "fatal" /\ \A n \in Nat : n < at => n < at'
    BY <1>4 DEF SegmentInv, StartNoSchema, Line
  <2> QED
    BY <2>1 DEF SegmentInv, CurrentInv, SavedInv, InObject
<1>5. CASE WriteTables
  <2>1. UNCHANGED <<at, dump, creations, current>> /\ parseMode' = "end"
    BY <1>5 DEF WriteTables
  <2> QED
    BY <2>1 DEF SegmentInv, CurrentInv, SavedInv, InObject
<1>6. CASE UNCHANGED schemaVars
  BY <1>6 DEF schemaVars, SegmentInv, CurrentInv, SavedInv
<1> QED
  BY <1>1, <1>2, <1>3, <1>4, <1>5, <1>6 DEF SchemaNext, Stopped

(* From any dump, regular or not, a saved text starts with the CREATE of   *)
(* its own name, has every line from there to its last one, and shares no  *)
(* line with another: nothing that is left over reaches another object.    *)
THEOREM SavedTextsAreSegments == SchemaSpec => []TextsAreSegments
<1>1. SegmentInv => TextsAreSegments
  <2> SUFFICES ASSUME SegmentInv, NEW k \in DOMAIN creations
               PROVE  /\ dump[creations[k][1]].name = k[2]
                      /\ Lines(creations[k]) = creations[k][1]
                           ..(creations[k][1] + Cardinality(Lines(creations[k])) - 1)
                      /\ \A l \in DOMAIN creations :
                           k # l => Lines(creations[k]) \cap Lines(creations[l]) = {}
    BY DEF TextsAreSegments
  <2>1. PICK first, last \in Nat : IsSegment(creations[k], first, last) /\ dump[first].name = k[2]
    BY DEF SegmentInv, SavedInv
  <2>2. creations[k][1] = first /\ Lines(creations[k]) = first..last /\ first <= last
    BY <2>1 DEF IsSegment
  <2>3. Cardinality(first..last) = last - first + 1
    BY <2>2, FS_Interval
  <2>4. first + (last - first + 1) - 1 = last
    OBVIOUS
  <2> QED
    BY <2>1, <2>2, <2>3, <2>4 DEF SegmentInv, SavedInv
<1> QED
  BY <1>1, SegmentInit, SegmentInductive, PTL DEF SchemaSpec

-----------------------------------------------------------------------------
(* The names.  Every saved object has the two identifiers of its CREATE.   *)
SchemaNames == (DOMAIN Spelling) \X (DOMAIN Spelling)

NamesInv ==
  /\ dump \in Dumps /\ at \in Nat /\ 0 < at
  /\ parseMode \in InObject => current.name \in SchemaNames
  /\ \A k \in DOMAIN creations : k[2] \in SchemaNames

LEMMA NamesInit == SchemaInit => NamesInv
  BY DEF SchemaInit, NamesInv, InObject

(* A CREATE with a schema has a name of two identifiers. *)
LEMMA HeaderHasName ==
  ASSUME NamesInv, at <= Len(dump), dump[at].kind \in WithSchema
  PROVE  dump[at].name \in SchemaNames
<1>1. dump \in Seq([kind : LineKinds, name : Seq(Nat)])
  BY SchemaAssumption DEF NamesInv
<1>2. Len(dump) \in Nat /\ DOMAIN dump = 1..Len(dump)
  BY <1>1
<1>3. at \in DOMAIN dump
  BY <1>2 DEF NamesInv
<1> QED
  BY <1>3, SchemaAssumption DEF NamesInv, SchemaNames

LEMMA SaveKeepsNames ==
  ASSUME NamesInv, current.name \in SchemaNames, NEW text, SaveObject(text)
  PROVE  \A k \in DOMAIN creations' : k[2] \in SchemaNames
<1> DEFINE key == <<current.type, current.name>>
<1>1. key[2] \in SchemaNames
  OBVIOUS
<1>2. DOMAIN creations' \subseteq DOMAIN creations \cup {key}
  BY DEF SaveObject
<1> QED
  BY <1>1, <1>2 DEF NamesInv

LEMMA NamesInductive == NamesInv /\ [SchemaNext]_schemaVars => NamesInv'
<1> SUFFICES ASSUME NamesInv, [SchemaNext]_schemaVars PROVE NamesInv'
  OBVIOUS
<1> DEFINE LineRead == dump' = dump /\ at' = at + 1
           Quiet    == parseMode' = parseMode \/ parseMode' \notin InObject
<1>1. CASE StartTable \/ StartView
  <2>1. at <= Len(dump) /\ dump[at].kind \in WithSchema
    BY <1>1, Zenon DEF StartTable, StartView, Line, WithSchema
  <2>2. dump[at].name \in SchemaNames
    BY <2>1, HeaderHasName
  <2>3. current'.name = dump[at].name
    <3>1. CASE StartTable
      <4>1. current' = [type |-> "table", name |-> dump[at].name,
                        text |-> NewText(<<at, StubPrimaryKey>>)]
        BY <3>1 DEF StartTable
      <4> QED
        BY <4>1
    <3>2. CASE StartView
      <4>1. current' = [type |-> "view", name |-> dump[at].name, text |-> NewText(<<at>>)]
        BY <3>2, Zenon DEF StartView
      <4> QED
        BY <4>1
    <3> QED
      BY <1>1, <3>1, <3>2
  <2>4. LineRead /\ creations' = creations
    BY <1>1, Zenon DEF StartTable, StartView, Line
  <2> QED
    BY <2>2, <2>3, <2>4 DEF NamesInv, SchemaNames
<1>2. CASE StartNoSchema \/ SkipLine \/ SkipSuffix
  <2>1. LineRead /\ creations' = creations /\ current' = current
    BY <1>2, Zenon DEF StartNoSchema, SkipLine, SkipSuffix, Line
  <2>2. Quiet
    BY <1>2, Zenon DEF StartNoSchema, SkipLine, SkipSuffix, InObject
  <2> QED
    BY <2>1, <2>2 DEF NamesInv, SchemaNames
<1>3. CASE TableLine \/ ViewLine
  <2>1. parseMode \in InObject
    BY <1>3, Zenon DEF TableLine, ViewLine, Line, InObject
  <2>2. current' = [current EXCEPT !.text = Append(@, at)]
    BY <1>3, Zenon DEF TableLine, ViewLine
  <2>3. LineRead /\ creations' = creations
    BY <1>3, Zenon DEF TableLine, ViewLine, Line
  <2>4. current'.name = current.name
    BY <2>2
  <2> QED
    BY <2>1, <2>3, <2>4 DEF NamesInv, SchemaNames
<1>4. CASE EndTable \/ EndView
  <2>1. PICK text : SaveObject(text)
    BY <1>4, Zenon DEF EndTable, EndView
  <2>2. parseMode \in InObject
    BY <1>4, Zenon DEF EndTable, EndView, Line, InObject
  <2>3. current.name \in SchemaNames
    BY <2>2 DEF NamesInv
  <2>4. \A k \in DOMAIN creations' : k[2] \in SchemaNames
    BY <2>1, <2>3, SaveKeepsNames
  <2>5. LineRead /\ parseMode' \notin InObject
    BY <1>4, Zenon DEF EndTable, EndView, Line, InObject
  <2> QED
    BY <2>4, <2>5 DEF NamesInv, SchemaNames
<1>5. CASE WriteTables
  BY <1>5 DEF WriteTables, NamesInv, InObject, SchemaNames
<1>6. CASE Stopped \/ UNCHANGED schemaVars
  BY <1>6 DEF Stopped, schemaVars, NamesInv, SchemaNames
<1> QED
  BY <1>1, <1>2, <1>3, <1>4, <1>5, <1>6 DEF SchemaNext

LEMMA TablesHaveNames == NamesInv => TableNames \subseteq SchemaNames
  BY DEF NamesInv, TableNames

LEMMA SpellingTypes ==
  ASSUME NEW n \in SchemaNames
  PROVE  /\ n[1] \in DOMAIN Spelling /\ n[2] \in DOMAIN Spelling
         /\ Spelling[n[1]] \in [text : Seq(Chars), quoted : BOOLEAN]
         /\ Spelling[n[2]] \in [text : Seq(Chars), quoted : BOOLEAN]
<1>1. n[1] \in DOMAIN Spelling /\ n[2] \in DOMAIN Spelling
  BY DEF SchemaNames
<1> DEFINE Identifiers == [text : Seq(Chars), quoted : BOOLEAN]
<1>2. Spelling \in Seq(Identifiers)
  BY SchemaAssumption
<1>3. \A i \in DOMAIN Spelling : Spelling[i] \in Identifiers
  <2> HIDE DEF Identifiers
  <2> QED
    BY <1>2
<1> QED
  BY <1>1, <1>3, Zenon

LEMMA PlainParts ==
  ASSUME NEW n, Plain(n)
  PROVE  /\ ~Spelling[n[1]].quoted /\ "underscore" \notin ToSet(Spelling[n[1]].text)
         /\ ~Spelling[n[2]].quoted /\ "underscore" \notin ToSet(Spelling[n[2]].text)
<1>1. 1 \in 1..2 /\ 2 \in 1..2
  OBVIOUS
<1>2. \A k \in 1..2 : ~Spelling[n[k]].quoted /\ "underscore" \notin ToSet(Spelling[n[k]].text)
  BY Zenon DEF Plain
<1> QED
  BY <1>1, <1>2, Zenon

(* Without quotes a schema is joined as it is spelled. *)
LEMMA UnquotedJoined ==
  ASSUME NEW n \in SchemaNames, ~Spelling[n[1]].quoted
  PROVE  Joined(n) = Spelling[n[1]].text \o Separator \o Spelling[n[2]].text
<1>1. Spelling[n[1]].text \in Seq(Chars)
  BY SpellingTypes
<1>2. <<>> \o Spelling[n[1]].text \o <<>> = Spelling[n[1]].text
  BY <1>1
<1> QED
  BY <1>2 DEF Joined, Raw, Quotes

(* A text with the separator in it is split in one way only, if what is in *)
(* front of it has no underscore.                                          *)
LEMMA SplitOnce ==
  ASSUME NEW a \in Seq(Chars), NEW b \in Seq(Chars),
         NEW c \in Seq(Chars), NEW d \in Seq(Chars),
         "underscore" \notin ToSet(a), "underscore" \notin ToSet(c),
         a \o Separator \o b = c \o Separator \o d
  PROVE  a = c /\ b = d
<1> DEFINE s == a \o Separator \o b
           t == c \o Separator \o d
<1>1. /\ Len(s) = Len(a) + 3 + Len(b)
      /\ s[Len(a) + 1] = "underscore"
      /\ \A i \in 1..Len(a) : s[i] = a[i]
      /\ \A i \in 1..Len(b) : s[Len(a) + 3 + i] = b[i]
  BY DEF Separator
<1>2. /\ Len(t) = Len(c) + 3 + Len(d)
      /\ t[Len(c) + 1] = "underscore"
      /\ \A i \in 1..Len(c) : t[i] = c[i]
      /\ \A i \in 1..Len(d) : t[Len(c) + 3 + i] = d[i]
  BY DEF Separator
<1>3. s = t
  OBVIOUS
<1>4. /\ \A i \in 1..Len(a) : a[i] # "underscore"
      /\ \A i \in 1..Len(c) : c[i] # "underscore"
  BY DEF ToSet
<1> HIDE DEF s, t
<1>5. ~(Len(a) < Len(c))
  <2> SUFFICES ASSUME Len(a) < Len(c) PROVE FALSE
    OBVIOUS
  <2>1. Len(a) + 1 \in 1..Len(c)
    OBVIOUS
  <2> QED
    BY <2>1, <1>1, <1>2, <1>3, <1>4
<1>6. ~(Len(c) < Len(a))
  <2> SUFFICES ASSUME Len(c) < Len(a) PROVE FALSE
    OBVIOUS
  <2>1. Len(c) + 1 \in 1..Len(a)
    OBVIOUS
  <2> QED
    BY <2>1, <1>1, <1>2, <1>3, <1>4
<1>7. Len(a) = Len(c) /\ Len(b) = Len(d)
  BY <1>1, <1>2, <1>3, <1>5, <1>6
<1>8. \A i \in 1..Len(a) : a[i] = c[i]
  BY <1>1, <1>2, <1>3, <1>7
<1>9. \A i \in 1..Len(b) : b[i] = d[i]
  BY <1>1, <1>2, <1>3, <1>7
<1>10. a = c
  BY <1>7, <1>8, SeqEqual
<1>11. b = d
  BY <1>7, <1>9, SeqEqual
<1> QED
  BY <1>10, <1>11

LEMMA JoinedApart ==
  ASSUME NEW n \in SchemaNames, NEW m \in SchemaNames, Plain(n), Plain(m),
         Joined(n) = Joined(m)
  PROVE  n = m
<1>1. Spelling[n[1]].text \o Separator \o Spelling[n[2]].text =
        Spelling[m[1]].text \o Separator \o Spelling[m[2]].text
  <2>1. ~Spelling[n[1]].quoted /\ ~Spelling[m[1]].quoted
    BY PlainParts
  <2> QED
    BY <2>1, UnquotedJoined
<1>2. /\ Spelling[n[1]].text = Spelling[m[1]].text
      /\ Spelling[n[2]].text = Spelling[m[2]].text
  <2> DEFINE a == Spelling[n[1]].text
             b == Spelling[n[2]].text
             c == Spelling[m[1]].text
             d == Spelling[m[2]].text
  <2>1. a \in Seq(Chars) /\ b \in Seq(Chars) /\ c \in Seq(Chars) /\ d \in Seq(Chars)
    BY SpellingTypes
  <2>2. "underscore" \notin ToSet(a) /\ "underscore" \notin ToSet(c)
    BY PlainParts
  <2>3. a \o Separator \o b = c \o Separator \o d
    BY <1>1
  <2>4. a = c /\ b = d
    <3> HIDE DEF a, b, c, d
    <3> QED
      BY <2>1, <2>2, <2>3, SplitOnce
  <2> QED
    BY <2>4
<1>3. /\ Spelling[n[1]].quoted = Spelling[m[1]].quoted
      /\ Spelling[n[2]].quoted = Spelling[m[2]].quoted
  <2>1. /\ ~Spelling[n[1]].quoted /\ ~Spelling[n[2]].quoted
        /\ ~Spelling[m[1]].quoted /\ ~Spelling[m[2]].quoted
    BY PlainParts
  <2>2. /\ Spelling[n[1]].quoted \in BOOLEAN /\ Spelling[n[2]].quoted \in BOOLEAN
        /\ Spelling[m[1]].quoted \in BOOLEAN /\ Spelling[m[2]].quoted \in BOOLEAN
    BY SpellingTypes
  <2> QED
    BY <2>1, <2>2
<1>4. Spelling[n[1]] = Spelling[m[1]] /\ Spelling[n[2]] = Spelling[m[2]]
  BY <1>2, <1>3, SpellingTypes
<1>5. n[1] = m[1] /\ n[2] = m[2]
  <2>1. \A i, j \in DOMAIN Spelling : Spelling[i] = Spelling[j] => i = j
    BY SchemaAssumption
  <2>2. /\ n[1] \in DOMAIN Spelling /\ n[2] \in DOMAIN Spelling
        /\ m[1] \in DOMAIN Spelling /\ m[2] \in DOMAIN Spelling
    BY SpellingTypes
  <2> QED
    BY <1>4, <2>1, <2>2, Zenon
<1> QED
  BY <1>5 DEF SchemaNames

(* A name that was cut ends with its digest. *)
LEMMA CutNameEnds ==
  ASSUME NEW n \in SchemaNames, Plain(n), TooLong(n)
  PROVE  HashPart(replaceSchemaAndName(n)) = Digest(Joined(n))
<1> DEFINE to   == Joined(n)
           kept == MaxPgNameLen - HashLen
           cut  == SubSeq(to, 1, kept)
           hash == Digest(to)
<1>1. to \in Seq(Chars) /\ Len(to) > MaxPgNameLen
  <2>1. Spelling[n[1]].text \in Seq(Chars) /\ Spelling[n[2]].text \in Seq(Chars)
    BY SpellingTypes
  <2>2. to = Spelling[n[1]].text \o Separator \o Spelling[n[2]].text
    BY PlainParts, UnquotedJoined
  <2>3. Separator \in Seq(Chars)
    BY SchemaAssumption DEF Separator
  <2>4. to \in Seq(Chars)
    <3> HIDE DEF to
    <3> QED
      BY <2>1, <2>2, <2>3, ConcatProperties
  <2> QED
    BY <2>4 DEF TooLong
<1>2. hash \in Seq(Chars) /\ Len(hash) = HashLen
  BY DigestAssumption DEF SchemaNames
<1>3. kept \in Nat /\ MaxPgNameLen \in Nat /\ HashLen \in Nat /\ kept + HashLen = MaxPgNameLen
  BY SchemaAssumption
<1>4. replaceSchemaAndName(n) = cut \o hash
  BY DEF replaceSchemaAndName
<1> HIDE DEF to, hash, kept
<1>5. cut \in Seq(Chars) /\ Len(cut) = kept
  BY <1>1, <1>3
<1>6. /\ cut \o hash \in Seq(Chars) /\ Len(cut \o hash) = MaxPgNameLen
      /\ \A i \in 1..HashLen : (cut \o hash)[kept + i] = hash[i]
  BY <1>2, <1>3, <1>5
<1>7. /\ HashPart(cut \o hash) \in Seq(Chars) /\ Len(HashPart(cut \o hash)) = HashLen
      /\ \A i \in 1..HashLen : HashPart(cut \o hash)[i] = (cut \o hash)[kept + i]
  <2> DEFINE s == cut \o hash
  <2>1. s \in Seq(Chars) /\ Len(s) = MaxPgNameLen
    BY <1>6
  <2>2. HashPart(s) = SubSeq(s, kept + 1, MaxPgNameLen)
    BY DEF HashPart, kept
  <2> HIDE DEF s, cut
  <2>3. \A i \in (kept + 1)..MaxPgNameLen : s[i] \in Chars
    BY <2>1, <1>3
  <2>4. /\ SubSeq(s, kept + 1, MaxPgNameLen) \in Seq(Chars)
        /\ Len(SubSeq(s, kept + 1, MaxPgNameLen)) = HashLen
        /\ \A i \in 1..HashLen : SubSeq(s, kept + 1, MaxPgNameLen)[i] = s[kept + i]
    BY <2>1, <2>3, <1>3, SubSeqProperties
  <2> QED
    BY <2>2, <2>4 DEF s
<1>8. HashPart(cut \o hash) = hash
  <2> DEFINE end == HashPart(cut \o hash)
  <2>1. end \in Seq(Chars) /\ Len(end) = Len(hash) /\ \A i \in 1..Len(end) : end[i] = hash[i]
    BY <1>2, <1>6, <1>7
  <2> HIDE DEF end
  <2> QED
    BY <1>2, <2>1, SeqEqual DEF end
<1> QED
  BY <1>4, <1>8 DEF hash, to

LEMMA MetNamesCollide ==
  ASSUME NEW n \in SchemaNames, NEW m \in SchemaNames, Plain(n), Plain(m), TooLong(n),
         replaceSchemaAndName(n) = replaceSchemaAndName(m)
  PROVE  Collide(n, m)
<1>1. HashPart(replaceSchemaAndName(m)) = Digest(Joined(n))
  BY CutNameEnds
<1>2. CASE TooLong(m)
  BY <1>1, <1>2, CutNameEnds DEF Collide
<1>3. CASE ~TooLong(m)
  BY <1>1, <1>3 DEF Collide, replaceSchemaAndName
<1> QED
  BY <1>2, <1>3

(* TablesStayApart: a joined name determines its two identifiers, and a    *)
(* name that was cut ends with its digest.                                 *)
THEOREM TablesHaveTheirOwnNames == SchemaSpec => []TablesStayApart
<1>1. NamesInv => TablesStayApart
  <2> SUFFICES ASSUME NamesInv, NEW n \in TableNames, NEW m \in TableNames,
                      Plain(n), Plain(m), n # m,
                      replaceSchemaAndName(n) = replaceSchemaAndName(m)
               PROVE  Collide(n, m) \/ Collide(m, n)
    BY DEF TablesStayApart
  <2>1. n \in SchemaNames /\ m \in SchemaNames
    BY TablesHaveNames
  <2>2. TooLong(n) \/ TooLong(m)
    <3> SUFFICES ASSUME ~TooLong(n), ~TooLong(m) PROVE FALSE
      OBVIOUS
    <3>1. Joined(n) = Joined(m)
      BY DEF replaceSchemaAndName
    <3> QED
      BY <2>1, <3>1, JoinedApart
  <2> QED
    BY <2>1, <2>2, MetNamesCollide
<1> QED
  BY <1>1, NamesInit, NamesInductive, PTL DEF SchemaSpec
-----------------------------------------------------------------------------
(* Regular dumps.  The text of a table, from its CREATE up to a line of    *)
(* its columns.                                                            *)
IsTableText(text, i, last) ==
  /\ text \in Seq(Int) /\ Len(text) = (last - i) + 2
  /\ text[1] = i /\ text[2] = StubPrimaryKey
  /\ \A n \in 1..(last - i) : text[n + 2] = i + n

(* Of the objects that begin before a line, the tables are saved, with the *)
(* text of the first one of each name, and nothing else is saved as one.   *)
SavedUpTo(limit) ==
  /\ \A h \in Headers : h < limit /\ dump[h].kind = "table" =>
       <<"table", dump[h].name>> \in DOMAIN creations
  /\ \A h \in FirstTables : h < limit => creations[<<"table", dump[h].name>>] = TableText(h)
  /\ \A k \in DOMAIN creations : k[1] = "table" =>
       \E h \in FirstTables : h < limit /\ dump[h].name = k[2]

(* The object that is read, and the lines between two others.              *)
Open(i, kind) ==
  /\ i \in Headers /\ i < at /\ dump[i].kind = kind
  /\ current.type = kind /\ current.name = dump[i].name
  /\ \A h \in Headers : i < h => at <= h
  /\ SavedUpTo(i)

NoneBetween(i, j, kinds) == \A k \in DOMAIN dump : i < k /\ k < j => dump[k].kind \notin kinds

InColumns == \E i \in Headers : /\ Open(i, "table") /\ NoneBetween(i, at, {"bracket"})
                                /\ IsTableText(current.text, i, at - 1)

InStorage == \E i \in Headers, c \in DOMAIN dump :
               /\ Open(i, "table") /\ i < c /\ c < at /\ dump[c].kind = "bracket"
               /\ NoneBetween(i, c, {"bracket"}) /\ NoneBetween(c, at, {"semicolon"})
               /\ IsTableText(current.text, i, c)

InView == \E i \in Headers : Open(i, "view") /\ NoneBetween(i, at, {"semicolon", "endedText"})

(* A line is read from the dump, which stays. *)
LEMMA DumpShape ==
  ASSUME NamesInv
  PROVE  /\ Len(dump) \in Nat /\ DOMAIN dump = 1..Len(dump) /\ at \in Nat /\ 0 < at
         /\ \A i \in DOMAIN dump : i \in Nat /\ 0 < i
         /\ \A i \in Headers : i \in DOMAIN dump /\ i \in Nat /\ 0 < i
<1>1. dump \in Seq([kind : LineKinds, name : Seq(Nat)])
  BY SchemaAssumption DEF NamesInv
<1>2. Len(dump) \in Nat /\ DOMAIN dump = 1..Len(dump)
  BY <1>1
<1>3. Headers \subseteq DOMAIN dump
  BY DEF Headers
<1> QED
  BY <1>2, <1>3 DEF NamesInv

LEMMA LineIsRead ==
  ASSUME NamesInv, NEW mode, Line(mode)
  PROVE  /\ parseMode = mode /\ at \in DOMAIN dump
         /\ at' = at + 1 /\ dump' = dump /\ output' = output
BY DumpShape DEF Line

LEMMA SameReference ==
  ASSUME dump' = dump
  PROVE  /\ Headers' = Headers /\ FirstTables' = FirstTables /\ (Regular <=> Regular')
         /\ \A i : TableText(i)' = TableText(i)
BY DEF Headers, FirstTables, Regular, Complete, Statement, TableText

LEMMA SameSaved ==
  ASSUME dump' = dump, creations' = creations, NEW limit
  PROVE  SavedUpTo(limit) <=> SavedUpTo(limit)'
BY SameReference DEF SavedUpTo

(* In a regular dump no CREATE stands within an object, nor the end of the *)
(* dump.                                                                   *)
LEMMA ObjectGoesOn ==
  ASSUME NamesInv, NEW i, i \in Headers, i < at, \A h \in Headers : i < h => at <= h,
         NEW j \in Statement(i), at <= j
  PROVE  at \in DOMAIN dump /\ at \notin Headers
<1>1. j \in DOMAIN dump /\ \A h \in Headers : h > i => j < h
  BY DEF Statement
<1>2. at <= Len(dump)
  BY <1>1, DumpShape
<1>3. at \notin Headers
  BY <1>1, DumpShape
<1> QED
  BY <1>2, <1>3, DumpShape

LEMMA StatementMembers ==
  ASSUME NamesInv, NEW i, i \in Headers, NEW j \in Statement(i)
  PROVE  j \in DOMAIN dump /\ j \in Nat /\ i \in Nat /\ i < j
<1>1. j \in DOMAIN dump /\ j > i
  BY DEF Statement
<1> QED
  BY <1>1, DumpShape

LEMMA TableIsComplete ==
  ASSUME Regular, NEW i, i \in Headers, dump[i].kind = "table"
  PROVE  \E j, k \in Statement(i) : j < k /\ dump[j].kind = "bracket" /\ dump[k].kind = "semicolon"
BY DEF Regular, Complete

LEMMA ColumnsGoOn ==
  ASSUME NamesInv, Regular, NEW i, Open(i, "table"), NoneBetween(i, at, {"bracket"})
  PROVE  at \in DOMAIN dump /\ at \notin Headers
<1>1. i \in Headers /\ i < at /\ dump[i].kind = "table" /\ \A h \in Headers : i < h => at <= h
  BY DEF Open
<1>2. PICK j \in Statement(i) : dump[j].kind = "bracket"
  BY <1>1, TableIsComplete
<1>3. j \in DOMAIN dump /\ j \in Nat /\ i < j
  BY <1>1, StatementMembers
<1>4. ~(j < at)
  BY <1>2, <1>3 DEF NoneBetween
<1>5. at <= j
  BY <1>3, <1>4, DumpShape
<1> QED
  BY <1>1, <1>5, ObjectGoesOn

LEMMA StorageGoesOn ==
  ASSUME NamesInv, Regular, NEW i, NEW c \in DOMAIN dump, Open(i, "table"),
         i < c, NoneBetween(i, c, {"bracket"}), NoneBetween(c, at, {"semicolon"})
  PROVE  at \in DOMAIN dump /\ at \notin Headers
<1>1. i \in Headers /\ i < at /\ dump[i].kind = "table" /\ \A h \in Headers : i < h => at <= h
  BY DEF Open
<1>2. PICK j \in Statement(i), k \in Statement(i) :
        j < k /\ dump[j].kind = "bracket" /\ dump[k].kind = "semicolon"
  BY <1>1, TableIsComplete
<1>3. j \in DOMAIN dump /\ j \in Nat /\ i < j /\ k \in DOMAIN dump /\ k \in Nat /\ c \in Nat
  BY <1>1, StatementMembers, DumpShape
<1>4. ~(j < c)
  BY <1>2, <1>3 DEF NoneBetween
<1>5. c < k
  BY <1>2, <1>3, <1>4
<1>6. ~(k < at)
  BY <1>2, <1>3, <1>5 DEF NoneBetween
<1>7. at <= k
  BY <1>3, <1>6, DumpShape
<1> QED
  BY <1>1, <1>7, ObjectGoesOn

LEMMA ViewGoesOn ==
  ASSUME NamesInv, Regular, NEW i, Open(i, "view"), NoneBetween(i, at, {"semicolon", "endedText"})
  PROVE  at \in DOMAIN dump /\ at \notin Headers
<1>1. i \in Headers /\ i < at /\ dump[i].kind = "view" /\ \A h \in Headers : i < h => at <= h
  BY DEF Open
<1>2. PICK j \in Statement(i) : dump[j].kind \in {"semicolon", "endedText"}
  BY <1>1 DEF Regular, Complete
<1>3. j \in DOMAIN dump /\ j \in Nat /\ i < j
  BY <1>1, StatementMembers
<1>4. ~(j < at)
  BY <1>2, <1>3 DEF NoneBetween
<1>5. at <= j
  BY <1>3, <1>4, DumpShape
<1> QED
  BY <1>1, <1>5, ObjectGoesOn

(* The text of a table is the one of the reference when its columns end    *)
(* with the first bracket after the CREATE.                                *)
LEMMA TextIsTheTables ==
  ASSUME NamesInv, NEW i, i \in Headers, NEW c \in DOMAIN dump, i < c,
         c < at, \A h \in Headers : i < h => at <= h,
         dump[c].kind = "bracket", NoneBetween(i, c, {"bracket"}),
         NEW text, IsTableText(text, i, c)
  PROVE  Append(text, Semicolon) = TableText(i)
<1> DEFINE IsClose(j) == /\ dump[j].kind = "bracket"
                         /\ \A k \in Statement(i) : dump[k].kind = "bracket" => j <= k
           close == CHOOSE j \in Statement(i) : IsClose(j)
           columns == [n \in 1..(c - i) |-> i + n]
           whole == <<i, StubPrimaryKey>> \o columns \o <<Semicolon>>
<1>0. i \in Nat /\ c \in Nat /\ at \in Nat /\ 0 < i
  BY DumpShape
<1>1. c \in Statement(i)
  <2>1. \A h \in Headers : h > i => c < h
    BY <1>0, DumpShape
  <2> QED
    BY <1>0, <2>1 DEF Statement
<1>2. \A k \in Statement(i) : dump[k].kind = "bracket" => c <= k
  <2> SUFFICES ASSUME NEW k \in Statement(i), dump[k].kind = "bracket" PROVE c <= k
    OBVIOUS
  <2>1. k \in DOMAIN dump /\ k \in Nat /\ i < k
    BY StatementMembers
  <2>2. ~(k < c)
    BY <2>1 DEF NoneBetween
  <2> QED
    BY <1>0, <2>1, <2>2
<1>3. close \in Statement(i) /\ IsClose(close)
  BY <1>1, <1>2
<1>4. close = c
  <2> HIDE DEF close
  <2>1. c <= close /\ close <= c /\ close \in Nat
    BY <1>1, <1>2, <1>3, StatementMembers
  <2> QED
    BY <1>0, <2>1
<1>5. TableText(i) = whole
  BY <1>4 DEF TableText
<1>6. /\ text \in Seq(Int) /\ Len(text) = (c - i) + 2 /\ text[1] = i /\ text[2] = 0
      /\ \A n \in 1..(c - i) : text[n + 2] = i + n
  BY DEF IsTableText, StubPrimaryKey
<1>7. columns \in Seq(Int) /\ Len(columns) = c - i /\ \A n \in 1..(c - i) : columns[n] = i + n
  <2>1. columns \in [1..(c - i) -> Int] /\ c - i \in Nat
    BY <1>0
  <2> QED
    BY <2>1, SeqDef
<1> HIDE DEF columns
<1>8. /\ whole \in Seq(Int) /\ Len(whole) = (c - i) + 3
      /\ whole[1] = i /\ whole[2] = 0 /\ whole[(c - i) + 3] = -1
      /\ \A n \in 1..(c - i) : whole[n + 2] = i + n
  BY <1>0, <1>7 DEF StubPrimaryKey, Semicolon
<1> DEFINE longer == Append(text, Semicolon)
<1>9. /\ longer \in Seq(Int) /\ Len(longer) = (c - i) + 3
      /\ longer[1] = i /\ longer[2] = 0 /\ longer[(c - i) + 3] = -1
      /\ \A n \in 1..(c - i) : longer[n + 2] = i + n
  BY <1>0, <1>6 DEF Semicolon
<1> HIDE DEF whole, longer
<1>10. \A m \in 1..((c - i) + 3) : m = 1 \/ m = 2 \/ m = (c - i) + 3 \/ (\E n \in 1..(c - i) : m = n + 2)
  <2> SUFFICES ASSUME NEW m \in 1..((c - i) + 3), m # 1, m # 2, m # (c - i) + 3
               PROVE  \E n \in 1..(c - i) : m = n + 2
    OBVIOUS
  <2>1. m - 2 \in 1..(c - i) /\ m = (m - 2) + 2
    BY <1>0
  <2> QED
    BY <2>1
<1>11. \A m \in 1..Len(longer) : longer[m] = whole[m]
  BY <1>8, <1>9, <1>10
<1>12. longer = whole
  BY <1>8, <1>9, <1>11, SeqEqual
<1> QED
  BY <1>5, <1>12 DEF longer

LEMMA TableTextGrows ==
  ASSUME NEW i \in Nat, NEW last \in Nat, i <= last, NEW text, IsTableText(text, i, last)
  PROVE  IsTableText(Append(text, last + 1), i, last + 1)
<1> DEFINE longer == Append(text, last + 1)
<1>1. /\ text \in Seq(Int) /\ Len(text) = (last - i) + 2 /\ text[1] = i /\ text[2] = StubPrimaryKey
      /\ \A n \in 1..(last - i) : text[n + 2] = i + n
  BY DEF IsTableText
<1>2. /\ longer \in Seq(Int) /\ Len(longer) = Len(text) + 1
      /\ \A m \in 1..Len(text) : longer[m] = text[m]
      /\ longer[Len(text) + 1] = last + 1
  BY <1>1
<1> HIDE DEF longer
<1>3. longer[1] = i /\ longer[2] = StubPrimaryKey /\ Len(longer) = ((last + 1) - i) + 2
  <2>1. 1 \in 1..Len(text) /\ 2 \in 1..Len(text)
    BY <1>1
  <2>2. Len(text) + 1 = ((last + 1) - i) + 2
    BY <1>1
  <2> QED
    BY <1>1, <1>2, <2>1, <2>2
<1>4. ASSUME NEW n \in 1..((last + 1) - i) PROVE longer[n + 2] = i + n
  <2>1. CASE n = (last + 1) - i
    BY <1>1, <1>2, <2>1
  <2>2. CASE n # (last + 1) - i
    <3>1. n \in 1..(last - i) /\ n + 2 \in 1..Len(text)
      BY <1>1, <2>2
    <3> QED
      BY <1>1, <1>2, <3>1
  <2> QED
    BY <2>1, <2>2
<1>5. IsTableText(longer, i, last + 1)
  BY <1>2, <1>3, <1>4 DEF IsTableText
<1> QED
  BY <1>5 DEF longer

(* Only the current object is saved, under a new name. *)
LEMMA SaveKeepsSaved ==
  ASSUME NamesInv, NEW i, NEW kind \in {"table", "view"}, Open(i, kind),
         at \in DOMAIN dump, at \notin Headers,
         NEW text, SaveObject(text), kind = "table" => text = TableText(i),
         NEW limit, limit = at + 1, dump' = dump
  PROVE  SavedUpTo(limit)'
<1> DEFINE key == <<current.type, current.name>>
<1>0. /\ i \in Headers /\ i < at /\ dump[i].kind = kind /\ i \in Nat /\ at \in Nat
      /\ key = <<kind, dump[i].name>> /\ SavedUpTo(i)
      /\ \A h \in Headers : h \in Nat
  BY DumpShape DEF Open
<1>1. \A h \in Headers : h < limit => h < i \/ h = i
  <2> SUFFICES ASSUME NEW h \in Headers, h < limit, ~(h < i), h # i PROVE FALSE
    OBVIOUS
  <2>1. h \in Nat /\ i < h /\ h <= at /\ h # at
    BY <1>0
  <2>2. at <= h
    BY <2>1 DEF Open
  <2> QED
    BY <1>0, <2>1, <2>2
<1>2. FirstTables \subseteq Headers /\ \A h \in FirstTables : dump[h].kind = "table"
  BY DEF FirstTables
<1>3. /\ \A h \in Headers : h < i /\ dump[h].kind = "table" => <<"table", dump[h].name>> \in DOMAIN creations
      /\ \A h \in FirstTables : h < i => creations[<<"table", dump[h].name>>] = TableText(h)
      /\ \A k \in DOMAIN creations : k[1] = "table" =>
           \E h \in FirstTables : h < i /\ dump[h].name = k[2]
  BY <1>0 DEF SavedUpTo
<1>4. \A h \in Nat : h < i => h < limit
  BY <1>0
<1>5. i < limit
  BY <1>0
<1>6. CASE key \in DOMAIN creations
  <2>1. creations' = creations
    BY <1>6 DEF SaveObject
  <2>2. kind = "table" => i \notin FirstTables
    <3> SUFFICES ASSUME kind = "table", i \in FirstTables PROVE FALSE
      OBVIOUS
    <3>1. key[1] = "table" /\ key[2] = dump[i].name
      BY <1>0
    <3>2. PICK h \in FirstTables : h < i /\ dump[h].name = dump[i].name
      BY <1>3, <1>6, <3>1
    <3> QED
      BY <1>2, <3>2 DEF FirstTables
  <2>3. SavedUpTo(limit)
    <3>1. ASSUME NEW h \in Headers, h < limit, dump[h].kind = "table"
          PROVE  <<"table", dump[h].name>> \in DOMAIN creations
      BY <1>0, <1>1, <1>3, <1>6, <3>1
    <3>2. ASSUME NEW h \in FirstTables, h < limit
          PROVE  creations[<<"table", dump[h].name>>] = TableText(h)
      <4>1. h # i
        BY <1>0, <1>2, <2>2
      <4>2. h < i
        BY <1>1, <1>2, <3>2, <4>1
      <4> QED
        BY <1>3, <4>2
    <3>3. ASSUME NEW k \in DOMAIN creations, k[1] = "table"
          PROVE  \E h \in FirstTables : h < limit /\ dump[h].name = k[2]
      <4>1. PICK h \in FirstTables : h < i /\ dump[h].name = k[2]
        BY <1>3, <3>3
      <4> QED
        BY <1>0, <1>2, <1>4, <4>1
    <3> QED
      BY <3>1, <3>2, <3>3 DEF SavedUpTo
  <2> QED
    BY <2>1, <2>3, SameReference DEF SavedUpTo
<1>7. CASE key \notin DOMAIN creations
  <2>1. creations' = [k \in DOMAIN creations \cup {key} |->
                       IF k = key THEN text ELSE creations[k]]
    BY <1>7 DEF SaveObject
  <2> HIDE DEF key
  <2>2. /\ DOMAIN creations' = DOMAIN creations \cup {key} /\ creations'[key] = text
        /\ \A k \in DOMAIN creations : k # key /\ creations'[k] = creations[k]
    BY <1>7, <2>1
  <2>3. kind = "table" => i \in FirstTables
    <3> SUFFICES ASSUME kind = "table",
                        NEW j \in Headers, j < i, dump[j].kind = "table", dump[j].name = dump[i].name
                 PROVE  FALSE
      BY <1>0 DEF FirstTables
    <3> QED
      BY <1>0, <1>3, <1>7
  <2>4. ASSUME NEW h \in Headers, h < limit, dump[h].kind = "table"
        PROVE  <<"table", dump[h].name>> \in DOMAIN creations'
    BY <1>0, <1>1, <1>3, <2>2, <2>4
  <2>5. ASSUME NEW h \in FirstTables, h < limit
        PROVE  creations'[<<"table", dump[h].name>>] = TableText(h)
    <3>1. CASE h = i
      BY <1>0, <1>2, <2>2, <3>1
    <3>2. CASE h < i
      <4>1. <<"table", dump[h].name>> \in DOMAIN creations
        BY <1>2, <1>3, <3>2
      <4> QED
        BY <1>3, <2>2, <3>2, <4>1
    <3> QED
      BY <1>1, <1>2, <2>5, <3>1, <3>2
  <2>6. ASSUME NEW k \in DOMAIN creations', k[1] = "table"
        PROVE  \E h \in FirstTables : h < limit /\ dump[h].name = k[2]
    <3>1. CASE k = key
      <4>1. key[1] = kind /\ key[2] = dump[i].name
        BY <1>0
      <4> QED
        BY <1>5, <2>3, <2>6, <3>1, <4>1
    <3>2. CASE k \in DOMAIN creations
      <4>1. PICK h \in FirstTables : h < i /\ dump[h].name = k[2]
        BY <1>3, <2>6, <3>2
      <4> QED
        BY <1>0, <1>2, <1>4, <4>1
    <3> QED
      BY <2>2, <3>1, <3>2
  <2> QED
    BY <2>4, <2>5, <2>6, SameReference DEF SavedUpTo
<1> QED
  BY <1>6, <1>7

(* The tables are written in the order of their names, each of them once.  *)
LEMMA OrdersCover ==
  ASSUME NamesInv, IsFiniteSet(TableNames), NEW names \in Orders(TableNames)
  PROVE  /\ \A i \in DOMAIN names : names[i] \in TableNames
         /\ \A n \in TableNames : \E i \in DOMAIN names : names[i] = n
         /\ \A i, j \in DOMAIN names : i < j => Precedes(names[i], names[j])
         /\ DOMAIN names = 1..Cardinality(TableNames)
<1> DEFINE size == Cardinality(TableNames)
<1>1. /\ names \in [1..size -> TableNames]
      /\ \A i, j \in DOMAIN names : i < j => Precedes(names[i], names[j])
  BY DEF Orders
<1>2. size \in Nat /\ IsFiniteSet(1..size) /\ Cardinality(1..size) = size
  BY FS_CardinalityType, FS_Interval
<1> HIDE DEF size
<1>3. ASSUME NEW n \in TableNames PROVE ~Precedes(n, n)
  <2>1. n \in SchemaNames
    BY TablesHaveNames
  <2>2. n[1] \in DOMAIN Spelling /\ n[2] \in DOMAIN Spelling /\ DOMAIN Spelling \subseteq Nat
    <3> DEFINE Identifiers == [text : Seq(Chars), quoted : BOOLEAN]
    <3>1. Spelling \in Seq(Identifiers)
      BY SchemaAssumption
    <3> HIDE DEF Identifiers
    <3>2. DOMAIN Spelling = 1..Len(Spelling) /\ Len(Spelling) \in Nat
      BY <3>1
    <3> QED
      BY <2>1, <3>2, SpellingTypes
  <2>3. n[1] \in Nat /\ n[2] \in Nat
    BY <2>2
  <2> QED
    BY <2>3 DEF Precedes
<1>4. \A i, j \in 1..size : names[i] = names[j] => i = j
  <2> SUFFICES ASSUME NEW i \in 1..size, NEW j \in 1..size, i # j, names[i] = names[j] PROVE FALSE
    OBVIOUS
  <2>1. i < j \/ j < i
    BY <1>2
  <2> QED
    BY <1>1, <1>3, <2>1
<1>5. names \in Injection(1..size, TableNames)
  BY <1>1, <1>4 DEF Injection, IsInjective
<1>6. names \in Surjection(1..size, TableNames)
  BY <1>2, <1>5, FS_Injection DEF size
<1> QED
  BY <1>1, <1>6 DEF Surjection, size

LEMMA WritingConverts ==
  ASSUME NamesInv, SegmentInv, Regular, SavedUpTo(at), WriteTables,
         IsFiniteSet(DOMAIN creations), \A k \in DOMAIN creations : k = <<k[1], k[2]>>
  PROVE  TablesAreConverted'
<1>1. /\ dump' = dump /\ creations' = creations
      /\ at <= Len(dump) => dump[at].kind = "long"
  BY DEF WriteTables
<1>2. PICK names \in Orders(TableNames) :
        output' = [i \in DOMAIN names |-> creations[<<"table", names[i]>>]]
  BY DEF WriteTables
<1>3. \A h \in Headers : h < at
  <2>1. at \notin DOMAIN dump
    BY <1>1 DEF Regular
  <2> QED
    BY <2>1, DumpShape
<1>4. IsFiniteSet(TableNames)
  <2> DEFINE tables == {k \in DOMAIN creations : k[1] = "table"}
  <2>1. IsFiniteSet(tables)
    BY FS_Subset
  <2>2. IsFiniteSet({k[2] : k \in tables})
    <3> DEFINE f == [k \in tables |-> k[2]]
    <3> HIDE DEF tables
    <3>1. f \in Surjection(tables, {k[2] : k \in tables})
      BY DEF Surjection
    <3> HIDE DEF f
    <3> QED
      BY <2>1, <3>1, FS_Surjection
  <2> QED
    BY <2>2 DEF TableNames
<1>5. /\ \A i \in DOMAIN names : names[i] \in TableNames
      /\ \A n \in TableNames : \E i \in DOMAIN names : names[i] = n
      /\ \A i, j \in DOMAIN names : i < j => Precedes(names[i], names[j])
  BY <1>4, OrdersCover
<1>6. \A n \in TableNames : <<"table", n>> \in DOMAIN creations
  BY DEF TableNames
<1>7. \A n \in TableNames :
        \E h \in FirstTables : dump[h].name = n /\ creations[<<"table", n>>] = TableText(h)
  <2> SUFFICES ASSUME NEW n \in TableNames
               PROVE  \E h \in FirstTables : dump[h].name = n /\ creations[<<"table", n>>] = TableText(h)
    OBVIOUS
  <2> DEFINE key == <<"table", n>>
  <2>1. key \in DOMAIN creations /\ key[1] = "table" /\ key[2] = n
    BY <1>6
  <2> HIDE DEF key
  <2>2. PICK h \in FirstTables : h < at /\ dump[h].name = n
    BY <2>1 DEF SavedUpTo
  <2> QED
    BY <2>2 DEF SavedUpTo
<1>8. \A h \in FirstTables : dump[h].name \in TableNames
  <2> SUFFICES ASSUME NEW h \in FirstTables PROVE dump[h].name \in TableNames
    OBVIOUS
  <2>1. h \in Headers /\ h < at /\ dump[h].kind = "table"
    BY <1>3 DEF FirstTables
  <2>2. <<"table", dump[h].name>> \in DOMAIN creations
    BY <2>1 DEF SavedUpTo
  <2> QED
    BY <2>2 DEF TableNames
<1>9. ToSet(output') = {TableText(i) : i \in FirstTables}
  <2>1. ToSet(output') = {creations[<<"table", names[i]>>] : i \in DOMAIN names}
    BY <1>2 DEF ToSet
  <2>2. ASSUME NEW i \in DOMAIN names
        PROVE  creations[<<"table", names[i]>>] \in {TableText(h) : h \in FirstTables}
    BY <1>5, <1>7
  <2>3. ASSUME NEW h \in FirstTables
        PROVE  \E i \in DOMAIN names : TableText(h) = creations[<<"table", names[i]>>]
    <3>1. creations[<<"table", dump[h].name>>] = TableText(h)
      <4>1. h < at
        BY <1>3 DEF FirstTables
      <4> QED
        BY <4>1 DEF SavedUpTo
    <3>2. PICK i \in DOMAIN names : names[i] = dump[h].name
      BY <1>5, <1>8
    <3> QED
      BY <3>1, <3>2
  <2> QED
    BY <2>1, <2>2, <2>3
<1>10. \A n \in TableNames : dump[creations[<<"table", n>>][1]].name = n
  <2> SUFFICES ASSUME NEW n \in TableNames PROVE dump[creations[<<"table", n>>][1]].name = n
    OBVIOUS
  <2> DEFINE key == <<"table", n>>
  <2>1. key \in DOMAIN creations /\ key[2] = n
    BY <1>6
  <2> HIDE DEF key
  <2>2. PICK first \in Nat, last \in Nat :
          IsSegment(creations[key], first, last) /\ dump[first].name = n
    BY <2>1 DEF SegmentInv, SavedInv
  <2>3. creations[key][1] = first
    BY <2>2 DEF IsSegment
  <2> QED
    BY <2>2, <2>3 DEF key
<1>11. \A i, j \in DOMAIN output' :
         i < j => Precedes(dump[output'[i][1]].name, dump[output'[j][1]].name)
  <2>1. DOMAIN output' = DOMAIN names
    BY <1>2
  <2>2. \A i \in DOMAIN names : dump[output'[i][1]].name = names[i]
    BY <1>2, <1>5, <1>10
  <2> QED
    BY <1>5, <2>1, <2>2
<1> QED
  BY <1>1, <1>9, <1>11, SameReference DEF TablesAreConverted

(* What is saved is a finite set of pairs. *)
KeysInv == IsFiniteSet(DOMAIN creations) /\ \A k \in DOMAIN creations : k = <<k[1], k[2]>>

LEMMA KeysKept ==
  ASSUME KeysInv, creations' = creations \/ \E text : SaveObject(text)
  PROVE  KeysInv'
<1>1. CASE creations' = creations
  BY <1>1 DEF KeysInv
<1>2. CASE \E text : SaveObject(text)
  <2> DEFINE key == <<current.type, current.name>>
  <2>1. key = <<key[1], key[2]>>
    OBVIOUS
  <2>2. DOMAIN creations' = DOMAIN creations \/ DOMAIN creations' = DOMAIN creations \cup {key}
    BY <1>2 DEF SaveObject
  <2> HIDE DEF key
  <2>3. IsFiniteSet(DOMAIN creations \cup {key})
    BY FS_AddElement DEF KeysInv
  <2> QED
    BY <2>1, <2>2, <2>3 DEF KeysInv
<1> QED
  BY <1>1, <1>2

(* The parts of the invariant a step into, within and out of an object      *)
(* establishes.                                                            *)
ModeInv ==
  Regular => /\ parseMode = "empty" => SavedUpTo(at)
             /\ parseMode = "createTable" => InColumns
             /\ parseMode = "excludeSuffix" => InStorage
             /\ parseMode = "createView" => InView

LEMMA StartIsOpen ==
  ASSUME NamesInv, SegmentInv, ModeInv, Regular, StartTable \/ StartView
  PROVE  ModeInv'
<1>1. /\ parseMode = "empty" /\ at \in DOMAIN dump /\ at' = at + 1 /\ dump' = dump
      /\ creations' = creations
  BY LineIsRead DEF StartTable, StartView
<1>2. at \in Nat /\ 0 < at /\ (\A h \in Headers : h \in Nat) /\ (\A k \in DOMAIN dump : k \in Nat)
  BY DumpShape
<1>3. PICK i : i = at
  OBVIOUS
<1>4. SavedUpTo(i)'
  BY <1>1, <1>3, SameSaved DEF ModeInv
<1>5. \A h \in Headers' : i < h => at' <= h
  BY <1>1, <1>2, <1>3, SameReference
<1>6. \A k \in DOMAIN dump : ~(i < k /\ k < at')
  BY <1>1, <1>2, <1>3
<1>7. i < at' /\ at' - 1 = i
  BY <1>1, <1>2, <1>3
<1>8. CASE StartTable
  <2>1. i \in Headers' /\ dump'[i].kind = "table"
    BY <1>1, <1>3, <1>8, SameReference DEF StartTable, Headers
  <2>2. current' = [type |-> "table", name |-> dump[i].name, text |-> <<i, StubPrimaryKey>>]
    BY <1>3, <1>8 DEF StartTable, NewText
  <2>3. Open(i, "table")'
    BY <1>1, <1>4, <1>5, <1>7, <2>1, <2>2 DEF Open
  <2>4. IsTableText(current'.text, i, i)
    BY <1>2, <1>3, <2>2 DEF IsTableText, StubPrimaryKey
  <2>5. parseMode' = "createTable"
    BY <1>8 DEF StartTable
  <2>6. InColumns'
    BY <1>1, <1>6, <1>7, <2>1, <2>3, <2>4 DEF InColumns, NoneBetween
  <2> QED
    BY <2>5, <2>6 DEF ModeInv
<1>9. CASE StartView
  <2>1. i \in Headers /\ dump[i].kind \in {"view", "endedView"}
    BY <1>1, <1>3, <1>9 DEF StartView, Headers
  <2>2. dump[i].kind = "view"
    BY <2>1 DEF Regular, Complete
  <2>3. i \in Headers'
    BY <1>1, <2>1, SameReference
  <2>4. current' = [type |-> "view", name |-> dump[i].name, text |-> <<i>>]
    BY <1>3, <1>9 DEF StartView, NewText
  <2>5. Open(i, "view")'
    BY <1>1, <1>4, <1>5, <1>7, <2>2, <2>3, <2>4 DEF Open
  <2>6. parseMode' = "createView"
    BY <1>9 DEF StartView
  <2>7. InView'
    BY <1>1, <1>6, <2>3, <2>5 DEF InView, NoneBetween
  <2> QED
    BY <2>6, <2>7 DEF ModeInv
<1> QED
  BY <1>8, <1>9

(* The object stays open when the next line is no CREATE. *)
LEMMA StaysOpen ==
  ASSUME NamesInv, NEW i, NEW kind, Open(i, kind), at \notin Headers,
         at' = at + 1, dump' = dump, creations' = creations,
         current'.type = current.type, current'.name = current.name
  PROVE  i \in Headers' /\ Open(i, kind)'
<1>1. i \in Headers /\ i < at /\ SavedUpTo(i) /\ \A h \in Headers : i < h => at <= h
  BY DEF Open
<1>2. at \in Nat /\ (\A h \in Headers : h \in Nat)
  BY DumpShape
<1>3. \A h \in Headers : i < h => at' <= h
  BY <1>1, <1>2
<1>4. i < at'
  BY <1>1, <1>2
<1> QED
  BY <1>1, <1>3, <1>4, SameReference, SameSaved DEF Open

LEMMA NoneGrows ==
  ASSUME NamesInv, NEW i, NEW kinds, NoneBetween(i, at, kinds), dump[at].kind \notin kinds,
         at' = at + 1, dump' = dump
  PROVE  NoneBetween(i, at, kinds)'
<1>1. \A k \in DOMAIN dump : k < at' => k < at \/ k = at
  BY DumpShape
<1> QED
  BY <1>1 DEF NoneBetween

LEMMA ColumnsContinue ==
  ASSUME NamesInv, SegmentInv, ModeInv, Regular, TableLine
  PROVE  ModeInv'
<1>1. /\ parseMode = "createTable" /\ at \in DOMAIN dump /\ at' = at + 1 /\ dump' = dump
      /\ creations' = creations
  BY LineIsRead DEF TableLine
<1>2. PICK i \in Headers : /\ Open(i, "table") /\ NoneBetween(i, at, {"bracket"})
                           /\ IsTableText(current.text, i, at - 1)
  BY <1>1 DEF ModeInv, InColumns
<1>3. at \notin Headers
  BY <1>2, ColumnsGoOn
<1>4. /\ current'.type = current.type /\ current'.name = current.name
      /\ current'.text = Append(current.text, at)
  BY DEF TableLine, SegmentInv
<1>5. i \in Headers' /\ Open(i, "table")'
  BY <1>1, <1>2, <1>3, <1>4, StaysOpen
<1>6. i < at /\ i \in Nat /\ at \in Nat
  BY <1>2, DumpShape DEF Open
<1>7. PICK c : c = at
  OBVIOUS
<1>8. IsTableText(current'.text, i, c)
  <2>1. at - 1 \in Nat /\ i <= at - 1 /\ (at - 1) + 1 = at
    BY <1>6
  <2>2. IsTableText(Append(current.text, (at - 1) + 1), i, (at - 1) + 1)
    BY <1>2, <1>6, <2>1, TableTextGrows
  <2> QED
    BY <1>4, <1>7, <2>1, <2>2
<1>9. CASE dump[at].kind # "bracket"
  <2>1. parseMode' = "createTable"
    BY <1>9 DEF TableLine
  <2>2. NoneBetween(i, at, {"bracket"})'
    BY <1>1, <1>2, <1>9, NoneGrows
  <2>3. at' - 1 = c
    BY <1>1, <1>6, <1>7
  <2>4. InColumns'
    BY <1>5, <1>8, <2>2, <2>3 DEF InColumns
  <2> QED
    BY <2>1, <2>4 DEF ModeInv
<1>10. CASE dump[at].kind = "bracket"
  <2>1. parseMode' = "excludeSuffix"
    BY <1>10 DEF TableLine
  <2>2. NoneBetween(i, c, {"bracket"})'
    BY <1>1, <1>2, <1>7 DEF NoneBetween
  <2>3. NoneBetween(c, at, {"semicolon"})'
    <3>1. \A k \in DOMAIN dump : ~(c < k /\ k < at')
      BY <1>1, <1>7, DumpShape
    <3> QED
      BY <1>1, <3>1 DEF NoneBetween
  <2>4. c \in DOMAIN dump' /\ i < c /\ c < at' /\ dump'[c].kind = "bracket"
    BY <1>1, <1>6, <1>7, <1>10
  <2>5. InStorage'
    BY <1>5, <1>8, <2>2, <2>3, <2>4 DEF InStorage
  <2> QED
    BY <2>1, <2>5 DEF ModeInv
<1> QED
  BY <1>9, <1>10

LEMMA StorageContinues ==
  ASSUME NamesInv, SegmentInv, ModeInv, Regular, SkipSuffix \/ EndTable
  PROVE  ModeInv'
<1>1. parseMode = "excludeSuffix" /\ at \in DOMAIN dump /\ at' = at + 1 /\ dump' = dump
  BY LineIsRead DEF SkipSuffix, EndTable
<1>2. PICK i \in Headers, c \in DOMAIN dump :
               /\ Open(i, "table") /\ i < c /\ c < at /\ dump[c].kind = "bracket"
               /\ NoneBetween(i, c, {"bracket"}) /\ NoneBetween(c, at, {"semicolon"})
               /\ IsTableText(current.text, i, c)
  BY <1>1 DEF ModeInv, InStorage
<1>3. at \notin Headers
  BY <1>2, StorageGoesOn
<1>4. CASE SkipSuffix
  <2>1. creations' = creations /\ current' = current /\ parseMode' = "excludeSuffix"
        /\ dump[at].kind # "semicolon"
    BY <1>1, <1>4 DEF SkipSuffix
  <2>2. i \in Headers' /\ Open(i, "table")'
    BY <1>1, <1>2, <1>3, <2>1, StaysOpen
  <2>3. NoneBetween(c, at, {"semicolon"})'
    BY <1>1, <1>2, <2>1, NoneGrows
  <2>4. NoneBetween(i, c, {"bracket"})'
    BY <1>1, <1>2 DEF NoneBetween
  <2>5. c < at'
    BY <1>1, <1>2, DumpShape
  <2>6. InStorage'
    BY <1>1, <1>2, <2>1, <2>2, <2>3, <2>4, <2>5 DEF InStorage
  <2> QED
    BY <2>1, <2>6 DEF ModeInv
<1>5. CASE EndTable
  <2>1. PICK text : text = Append(current.text, Semicolon)
    OBVIOUS
  <2>2. SaveObject(text) /\ parseMode' = "empty"
    BY <1>5, <2>1 DEF EndTable
  <2>3. text = TableText(i)
    <3>1. \A h \in Headers : i < h => at <= h
      BY <1>2 DEF Open
    <3> QED
      BY <1>2, <2>1, <3>1, TextIsTheTables
  <2>4. PICK limit : limit = at + 1
    OBVIOUS
  <2>5. SavedUpTo(limit)'
    BY <1>1, <1>2, <1>3, <2>2, <2>3, <2>4, SaveKeepsSaved
  <2>6. SavedUpTo(at)'
    BY <1>1, <2>4, <2>5
  <2> QED
    BY <2>2, <2>6 DEF ModeInv
<1> QED
  BY <1>4, <1>5

LEMMA ViewContinues ==
  ASSUME NamesInv, SegmentInv, ModeInv, Regular, ViewLine \/ EndView
  PROVE  ModeInv'
<1>1. parseMode = "createView" /\ at \in DOMAIN dump /\ at' = at + 1 /\ dump' = dump
  BY LineIsRead DEF ViewLine, EndView
<1>2. PICK i \in Headers : Open(i, "view") /\ NoneBetween(i, at, {"semicolon", "endedText"})
  BY <1>1 DEF ModeInv, InView
<1>3. at \notin Headers
  BY <1>2, ViewGoesOn
<1>4. CASE ViewLine
  <2>1. /\ creations' = creations /\ parseMode' = "createView"
        /\ current'.type = current.type /\ current'.name = current.name
    BY <1>1, <1>4 DEF ViewLine, SegmentInv
  <2>2. dump[at].kind \notin {"semicolon", "endedText"}
    BY <1>4 DEF ViewLine, EndsWithSemicolon
  <2>3. i \in Headers' /\ Open(i, "view")'
    BY <1>1, <1>2, <1>3, <2>1, StaysOpen
  <2>4. NoneBetween(i, at, {"semicolon", "endedText"})'
    BY <1>1, <1>2, <2>2, NoneGrows
  <2>5. InView'
    BY <2>3, <2>4 DEF InView
  <2> QED
    BY <2>1, <2>5 DEF ModeInv
<1>5. CASE EndView
  <2>1. PICK text : text = Append(current.text, at)
    OBVIOUS
  <2>2. SaveObject(text) /\ parseMode' = "empty"
    BY <1>5, <2>1 DEF EndView
  <2>3. PICK limit : limit = at + 1
    OBVIOUS
  <2>4. SavedUpTo(limit)'
    BY <1>1, <1>2, <1>3, <2>2, <2>3, SaveKeepsSaved
  <2>5. SavedUpTo(at)'
    BY <1>1, <2>3, <2>4
  <2> QED
    BY <2>2, <2>5 DEF ModeInv
<1> QED
  BY <1>4, <1>5

LEMMA LinesBetweenAreSkipped ==
  ASSUME NamesInv, ModeInv, Regular, SkipLine
  PROVE  ModeInv'
<1>1. /\ parseMode = "empty" /\ at \in DOMAIN dump /\ at' = at + 1 /\ dump' = dump
      /\ creations' = creations /\ parseMode' = "empty"
  BY LineIsRead DEF SkipLine
<1>2. at \notin Headers
  BY DEF SkipLine, Headers
<1>3. \A h \in Headers : h < at' <=> h < at
  BY <1>1, <1>2, DumpShape
<1>4. FirstTables \subseteq Headers
  BY DEF FirstTables
<1>5. SavedUpTo(at) => SavedUpTo(at)'
  BY <1>1, <1>3, <1>4, SameReference DEF SavedUpTo
<1> QED
  BY <1>1, <1>5 DEF ModeInv

ModesOnly == parseMode \in InObject \cup {"empty", "end", "fatal"}

LEMMA ModesOnlyInductive == ModesOnly /\ [SchemaNext]_schemaVars => ModesOnly'
BY DEF ModesOnly, InObject, SchemaNext, StartTable, StartView, StartNoSchema, SkipLine, TableLine,
       SkipSuffix, EndTable, ViewLine, EndView, WriteTables, Stopped, schemaVars, Line

LEMMA ModeInductive ==
  ASSUME NamesInv, SegmentInv, ModesOnly, ModeInv, KeysInv, TablesAreConverted,
         [SchemaNext]_schemaVars
  PROVE  ModeInv' /\ KeysInv' /\ TablesAreConverted'
<1>1. dump' = dump
  BY DEF SchemaNext, StartTable, StartView, StartNoSchema, SkipLine, TableLine, SkipSuffix,
         EndTable, ViewLine, EndView, WriteTables, Stopped, Line, schemaVars
<1>2. KeysInv'
  <2>1. creations' = creations \/ \E text : SaveObject(text)
    BY Zenon DEF SchemaNext, StartTable, StartView, StartNoSchema, SkipLine, TableLine,
         SkipSuffix, EndTable, ViewLine, EndView, WriteTables, Stopped, schemaVars
  <2> QED
    BY <2>1, KeysKept
<1>3. ~Regular => ModeInv' /\ TablesAreConverted'
  BY <1>1, SameReference DEF ModeInv, TablesAreConverted
<1> SUFFICES ASSUME Regular PROVE ModeInv' /\ TablesAreConverted'
  BY <1>2, <1>3
<1>4. CASE UNCHANGED schemaVars
  <2>1. UNCHANGED <<dump, at, parseMode, current, creations, output>>
    BY <1>4 DEF schemaVars
  <2>2. \A limit : SavedUpTo(limit) <=> SavedUpTo(limit)'
    BY <2>1, SameSaved
  <2>3. \A i, kind : Open(i, kind) <=> Open(i, kind)'
    BY <2>1, <2>2, SameReference DEF Open
  <2>4. \A i, j, kinds : NoneBetween(i, j, kinds) <=> NoneBetween(i, j, kinds)'
    BY <2>1 DEF NoneBetween
  <2>5. /\ (InColumns => InColumns') /\ (InStorage => InStorage') /\ (InView => InView')
        /\ (SavedUpTo(at) => SavedUpTo(at)')
    BY <2>1, <2>2, <2>3, <2>4, SameReference DEF InColumns, InStorage, InView
  <2>6. TablesAreConverted'
    BY <2>1, SameReference DEF TablesAreConverted
  <2> QED
    BY <2>1, <2>5, <2>6 DEF ModeInv
<1>5. CASE WriteTables
  <2>1. /\ parseMode' = "end" /\ parseMode \notin {"end", "fatal"}
        /\ at <= Len(dump) => dump[at].kind = "long"
    BY <1>5 DEF WriteTables
  <2>2. at \notin DOMAIN dump
    BY <2>1 DEF Regular
  <2>3. ~InColumns /\ ~InStorage /\ ~InView
    BY <2>2, ColumnsGoOn, StorageGoesOn, ViewGoesOn DEF InColumns, InStorage, InView
  <2>4. parseMode = "empty"
    BY <2>1, <2>3 DEF ModeInv, ModesOnly, InObject
  <2>5. TablesAreConverted'
    BY <1>5, <2>4, WritingConverts DEF ModeInv, KeysInv
  <2> QED
    BY <2>1, <2>5 DEF ModeInv
<1>6. ASSUME ~WriteTables, ~UNCHANGED schemaVars PROVE parseMode' # "end"
  BY <1>6 DEF SchemaNext, StartTable, StartView, StartNoSchema, SkipLine, TableLine, SkipSuffix,
              EndTable, ViewLine, EndView, Stopped, Line
<1>7. CASE StartNoSchema
  <2>1. parseMode' = "fatal"
    BY <1>7 DEF StartNoSchema
  <2> QED
    BY <2>1 DEF ModeInv, TablesAreConverted
<1>8. CASE StartTable \/ StartView \/ TableLine \/ SkipSuffix \/ EndTable \/ ViewLine
            \/ EndView \/ SkipLine
  <2>1. ModeInv'
    BY <1>8, StartIsOpen, ColumnsContinue, StorageContinues, ViewContinues, LinesBetweenAreSkipped
  <2> QED
    BY <1>4, <1>5, <1>6, <2>1 DEF TablesAreConverted
<1> QED
  BY <1>4, <1>5, <1>7, <1>8 DEF SchemaNext, Stopped

(* From a regular dump every table is written, once, in the order of the   *)
(* names, with the columns of its first definition and nothing else.       *)
THEOREM RegularDumpsAreConverted == SchemaSpec => []TablesAreConverted
<1>1. SchemaInit => ModeInv /\ KeysInv /\ TablesAreConverted
  <2> SUFFICES ASSUME SchemaInit PROVE ModeInv /\ KeysInv /\ TablesAreConverted
    OBVIOUS
  <2>1. DOMAIN creations = {} /\ at = 1 /\ parseMode = "empty"
    BY DEF SchemaInit
  <2>2. \A h \in Headers : ~(h < at)
    BY <2>1, NamesInit, DumpShape
  <2>3. SavedUpTo(at)
    BY <2>1, <2>2 DEF SavedUpTo, FirstTables
  <2> QED
    BY <2>1, <2>3, FS_EmptySet DEF ModeInv, KeysInv, TablesAreConverted
<1>2. SchemaInit => ModesOnly
  BY DEF SchemaInit, ModesOnly
<1>3. NamesInv /\ SegmentInv /\ ModesOnly /\ ModeInv /\ KeysInv /\ TablesAreConverted
        /\ [SchemaNext]_schemaVars => ModeInv' /\ KeysInv' /\ TablesAreConverted'
  BY ModeInductive
<1> QED
  BY <1>1, <1>2, <1>3, NamesInit, NamesInductive, SegmentInit, SegmentInductive,
     ModesOnlyInductive, PTL DEF SchemaSpec
=============================================================================
