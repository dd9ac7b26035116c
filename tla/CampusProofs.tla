---------------------------- MODULE CampusProofs ----------------------------
(***************************************************************************)
(* For any calls, timetables, imports, slots and limits.                   *)
(*   Timetables: an import is whole because at every moment of it what it  *)
(* has written and what it has left to write make up the import; what      *)
(* another call may break of it, or of the pointer, clashes with a call    *)
(* under way, and the first clash is remembered in crossed.                *)
(*   Bookings: for every slot, the bookings that are there and the calls   *)
(* that may still pass its check are together fewer than the limit and one *)
(* booking for each call.                                                  *)
(*   Weather: what a provider was sent and may still be sent fits its quota*)
(* as of the moment its bucket was last filled up; what a handler holds is *)
(* valid as long as it says, which it asks before it answers.              *)
(***************************************************************************)
EXTENDS Timetable, Bookings, Weather, Integers, FiniteSetTheorems, SequenceTheorems, TLAPS

(* Timetables *)
EditType ==
    [op : {"none", "create", "update", "activate", "delete", "course", "change", "import"},
     table : Tables \union {NoTable}, active : {"as is", "yes", "no"},
     at : {"none", "count", "document", "pointer", "clear", "list", "drop",
           "table", "look", "count courses", "put", "write"},
     source : {"absent", "local", "import"}, left : SUBSET Courses, more : BOOLEAN]

Edited == touched \union crossed

\* What a call is about, by its kind and its place.
PlaceOk(e) ==
    /\ e.op = "none" <=> e.at = "none"
    /\ e.active = "no" => e.op \in {"update", "delete"}
    /\ e.at = "count" => e.op \in {"create", "import"}
    /\ e.at = "document" => e.op \in {"create", "update", "import"}
    /\ e.at = "pointer" => e.op \in {"create", "update", "activate", "delete", "import"}
    /\ e.at = "clear" => e.op \in {"update", "delete"}
    /\ e.at \in {"list", "drop"} => e.op \in {"delete", "import"}
    /\ e.at = "table" => e.op = "delete"
    /\ e.at \in {"look", "count courses"} => e.op = "course"
    /\ e.at = "put" => e.op \in {"course", "change"}
    /\ e.at = "write" => e.op = "import"

EditOk(c) ==
    /\ PlaceOk(edit[c])
    /\ edit[c].op # "none" => edit[c].table \in Tables
    /\ edit[c].op = "update" => edit[c].source # "absent"
    /\ edit[c].op = "delete" => edit[c].active = "no" /\ edit[c].table \in Edited
    /\ edit[c].at = "write" => edit[c].left \subseteq 1..Imported

\* A call that is to point at a timetable finds it there; one that deletes it has
\* taken the pointer away.
PointOk(c) ==
    LET t == edit[c].table
    IN  /\ edit[c].at = "pointer" /\ edit[c].active = "yes" => Exists(t) \/ t \in crossed
        /\ edit[c].op = "delete" /\ edit[c].at \in {"list", "drop", "table"} =>
              pointer # t \/ t \in crossed

\* What an import has on disk and what it has left are the whole of it; while it
\* clears the courses of an earlier one, there are none but those of its last
\* page.  An import is whole when an update has read it.
ImportOk(c) ==
    LET t == edit[c].table
    IN  t \notin Edited =>
          /\ edit[c].op = "import" =>
                /\ edit[c].at # "pointer" => source[t] # "import"
                /\ edit[c].at = "drop" /\ ~edit[c].more => courses[t] = edit[c].left
                /\ edit[c].at = "count" => courses[t] = {}
                /\ edit[c].at = "write" => courses[t] \union edit[c].left = 1..Imported
                /\ edit[c].at = "document" => courses[t] = 1..Imported
          /\ edit[c].op = "update" /\ edit[c].source = "import" => courses[t] = 1..Imported

\* A timetable on which two calls clash is crossed.
ClashPart ==
    \A c, d \in TimetableCalls :
        c # d /\ Clash(edit[c], edit[d]) => edit[c].table \in crossed

EditPart == \A c \in TimetableCalls : EditOk(c) /\ PointOk(c) /\ ImportOk(c)

WholeInv == TimetableTypeOK /\ ClashPart /\ EditPart /\ TimetablesAreWhole

-----------------------------------------------------------------------------
LEMMA InitIsWhole == TimetableInit => WholeInv
<1> SUFFICES ASSUME TimetableInit PROVE WholeInv
  OBVIOUS
<1>1. TimetableTypeOK
  BY DEF TimetableInit, TimetableTypeOK, NoEdit, NewEdit
<1>2. ClashPart
  BY DEF TimetableInit, ClashPart, Clash, Disturbs, NoEdit, NewEdit
<1>3. EditPart
  BY DEF TimetableInit, EditPart, EditOk, PointOk, ImportOk, PlaceOk, NoEdit, NewEdit
<1>4. TimetablesAreWhole
  BY DEF TimetableInit, TimetablesAreWhole
<1> QED
  BY <1>1, <1>2, <1>3, <1>4 DEF WholeInv

\* A call goes on, and nothing else happens to the calls.
Moves(c, e) ==
    /\ edit'[c] = e /\ crossed' = crossed
    /\ \A d \in TimetableCalls \ {c} : edit'[d] = edit[d]
    /\ edit' \in [TimetableCalls -> EditType]

LEMMA MovesOn == ASSUME TimetableTypeOK, NEW c \in TimetableCalls, NEW e \in EditType,
                        EditGoesOn(c, e)
                 PROVE  Moves(c, e)
  BY DEF EditGoesOn, Moves, TimetableTypeOK, EditType

LEMMA MovesTo == ASSUME TimetableTypeOK, NEW c \in TimetableCalls, NEW place,
                        place \in {"document", "pointer", "clear", "list", "table",
                                   "count courses", "put"},
                        EditGoesTo(c, place)
                 PROVE  Moves(c, [edit[c] EXCEPT !.at = place])
<1>1. [edit[c] EXCEPT !.at = place] \in EditType
  BY DEF TimetableTypeOK, EditType
<1> QED
  BY <1>1, MovesOn DEF EditGoesTo

LEMMA MovesOff == ASSUME TimetableTypeOK, NEW c \in TimetableCalls, EditEnds(c)
                  PROVE  Moves(c, NoEdit)
<1>1. NoEdit \in EditType
  BY DEF NoEdit, NewEdit, EditType
<1> QED
  BY <1>1, MovesOn DEF EditEnds

LEMMA TypesByParts ==
    ASSUME TimetableTypeOK, edit' \in [TimetableCalls -> EditType],
           source' \in [Tables -> {"absent", "local", "import"}],
           courses' \in [Tables -> SUBSET Courses],
           pointer' \in Tables \union {NoTable}, touched' \subseteq Tables,
           crossed' \subseteq Tables
    PROVE  TimetableTypeOK'
  BY DEF TimetableTypeOK, EditType

\* Calls that go on or end clash no more than before.
LEMMA ClashesStay ==
    ASSUME ClashPart, NEW c \in TimetableCalls, NEW e, Moves(c, e),
           \/ e = NoEdit
           \/ e.op = edit[c].op /\ e.table = edit[c].table /\ e.active = edit[c].active
    PROVE  ClashPart'
<1>1. CASE e = NoEdit
  <2>1. \A f : ~Disturbs(NoEdit, f) /\ ~Disturbs(f, NoEdit)
    BY DEF Disturbs, NoEdit, NewEdit
  <2> QED
    BY <1>1, <2>1 DEF ClashPart, Clash, Moves
<1>2. CASE e.op = edit[c].op /\ e.table = edit[c].table /\ e.active = edit[c].active
  BY <1>2 DEF ClashPart, Clash, Disturbs, Moves
<1> QED
  BY <1>1, <1>2

\* What ends has nothing more to find.
LEMMA EndedIsOk == ASSUME NEW c, edit'[c] = NoEdit
                   PROVE  EditOk(c)' /\ PointOk(c)' /\ ImportOk(c)'
<1>1. NoEdit.op = "none" /\ NoEdit.at = "none" /\ NoEdit.active = "as is"
  BY DEF NoEdit, NewEdit
<1>2. EditOk(c)'
  BY <1>1 DEF EditOk, PlaceOk
<1>3. PointOk(c)' /\ ImportOk(c)'
  BY <1>1 DEF PointOk, ImportOk
<1> QED
  BY <1>2, <1>3

\* A step that changes no document.
LEMMA QuietStep ==
    ASSUME WholeInv, TimetableTypeOK', TablesStay, crossed \subseteq crossed',
           NEW c \in TimetableCalls, \A d \in TimetableCalls \ {c} : edit'[d] = edit[d],
           ClashPart', EditOk(c)', PointOk(c)', ImportOk(c)'
    PROVE  WholeInv'
<1>1. ASSUME NEW d \in TimetableCalls \ {c} PROVE EditOk(d)' /\ PointOk(d)' /\ ImportOk(d)'
  <2>1. EditOk(d) /\ PointOk(d) /\ ImportOk(d) /\ edit'[d] = edit[d]
    BY DEF WholeInv, EditPart
  <2>2. EditOk(d)'
    BY <2>1 DEF EditOk, TablesStay, Edited
  <2>3. PointOk(d)'
    BY <2>1 DEF PointOk, TablesStay, Exists
  <2>4. ImportOk(d)'
    BY <2>1 DEF ImportOk, TablesStay, Edited
  <2> QED
    BY <2>2, <2>3, <2>4
<1>2. TimetablesAreWhole'
  BY DEF WholeInv, TimetablesAreWhole, TablesStay, Exists
<1> QED
  BY <1>1, <1>2 DEF WholeInv, EditPart

LEMMA QuietMove ==
    ASSUME WholeInv, TablesStay, NEW c \in TimetableCalls, NEW e, Moves(c, e),
           e.op = edit[c].op, e.table = edit[c].table, e.active = edit[c].active,
           EditOk(c)', PointOk(c)', ImportOk(c)'
    PROVE  WholeInv'
<1>1. TimetableTypeOK'
  BY TypesByParts DEF WholeInv, TimetableTypeOK, TablesStay, Moves
<1>2. ClashPart'
  BY ClashesStay DEF WholeInv
<1> QED
  BY <1>1, <1>2, QuietStep DEF Moves

LEMMA QuietEnd == ASSUME WholeInv, TablesStay, NEW c \in TimetableCalls, EditEnds(c)
                  PROVE  WholeInv'
<1>1. Moves(c, NoEdit)
  BY MovesOff DEF WholeInv
<1>2. TimetableTypeOK'
  BY <1>1, TypesByParts DEF WholeInv, TimetableTypeOK, TablesStay, Moves
<1>3. ClashPart'
  BY <1>1, ClashesStay DEF WholeInv
<1> QED
  BY <1>1, <1>2, <1>3, QuietStep, EndedIsOk DEF Moves

\* A call that begins: a clash crosses the timetable.
LEMMA BeginStep ==
    ASSUME WholeInv, NEW c \in TimetableCalls, NEW e \in EditType, EditBegins(c, e),
           e.table \in Tables
    PROVE  /\ edit'[c] = e /\ \A d \in TimetableCalls \ {c} : edit'[d] = edit[d]
           /\ edit' \in [TimetableCalls -> EditType]
           /\ crossed \subseteq crossed' /\ crossed' \subseteq Tables
           /\ ClashPart'
<1>1. /\ edit'[c] = e /\ \A d \in TimetableCalls \ {c} : edit'[d] = edit[d]
      /\ edit' \in [TimetableCalls -> EditType]
  BY DEF EditBegins, WholeInv, TimetableTypeOK, EditType
<1>2. crossed \subseteq crossed' /\ crossed' \subseteq Tables
  BY DEF EditBegins, WholeInv, TimetableTypeOK
<1>3. ASSUME NEW d \in TimetableCalls, Clash(e, edit[d]) PROVE e.table \in crossed'
  BY <1>3 DEF EditBegins
<1>4. ClashPart'
  <2> SUFFICES ASSUME NEW a \in TimetableCalls, NEW b \in TimetableCalls, a # b,
                      Clash(edit'[a], edit'[b])
               PROVE  edit'[a].table \in crossed'
    BY DEF ClashPart, Clash, Disturbs
  <2>1. CASE a = c
    BY <1>1, <1>3, <2>1
  <2>2. CASE b = c
    BY <1>1, <1>3, <2>2 DEF Clash
  <2>3. CASE a # c /\ b # c
    BY <1>1, <1>2, <2>3 DEF WholeInv, ClashPart
  <2> QED
    BY <2>1, <2>2, <2>3
<1> QED
  BY <1>1, <1>2, <1>4

-----------------------------------------------------------------------------
(* One lemma for each action. *)

LEMMA EditIsTyped == ASSUME WholeInv, NEW c \in TimetableCalls
                     PROVE  /\ edit[c] \in EditType
                            /\ EditOk(c) /\ PointOk(c) /\ ImportOk(c)
  BY DEF WholeInv, TimetableTypeOK, EditType, EditPart

\* Calls that begin with a read.
LEMMA BeginQuiet ==
    ASSUME WholeInv, NEW c \in TimetableCalls, NEW e \in EditType, EditBegins(c, e), TablesStay,
           e.table \in Tables, EditOk(c)', PointOk(c)', ImportOk(c)'
    PROVE  WholeInv'
<1>1. /\ \A d \in TimetableCalls \ {c} : edit'[d] = edit[d]
      /\ edit' \in [TimetableCalls -> EditType]
      /\ crossed \subseteq crossed' /\ crossed' \subseteq Tables /\ ClashPart'
  BY BeginStep
<1>2. TimetableTypeOK'
  BY <1>1, TypesByParts DEF WholeInv, TimetableTypeOK, TablesStay
<1> QED
  BY <1>1, <1>2, QuietStep

LEMMA CreateBegins ==
    ASSUME WholeInv, NEW c \in TimetableCalls, NEW t \in Tables, NEW active \in {"as is", "yes"},
           BeginCreate(c, t, active)
    PROVE  WholeInv'
<1> DEFINE e == [op |-> "create", table |-> t, active |-> active, at |-> "count",
                 source |-> "absent", left |-> {}, more |-> FALSE]
<1>1. EditBegins(c, e) /\ e \in EditType /\ TablesStay
  BY DEF NewEdit, BeginCreate, EditType
<1>e. e.op = "create" /\ e.at = "count" /\ e.table = t /\ e.active # "no"
  OBVIOUS
<1> HIDE DEF e
<1>2. edit'[c] = e
  BY <1>1, <1>e, BeginStep
<1>3. EditOk(c)'
  BY <1>2, <1>e DEF EditOk, PlaceOk
<1>4. PointOk(c)' /\ ImportOk(c)'
  BY <1>2, <1>e DEF PointOk, ImportOk
<1> QED
  BY <1>1, <1>3, <1>4, <1>e, BeginQuiet

LEMMA UpdateBegins ==
    ASSUME WholeInv, NEW c \in TimetableCalls, NEW t \in Tables,
           NEW active \in {"as is", "yes", "no"}, BeginUpdate(c, t, active)
    PROVE  WholeInv'
<1> DEFINE n == NewEdit("update", t, active, "document")
           e == [n EXCEPT !.source = source[t]]
<1>n. n \in EditType /\ n.op = "update" /\ n.at = "document" /\ n.table = t
  BY DEF NewEdit, EditType
<1> HIDE DEF n
<1>e. e.op = "update" /\ e.at = "document" /\ e.table = t /\ e.source = source[t]
  BY <1>n DEF EditType
<1>1. EditBegins(c, e) /\ e \in EditType /\ TablesStay /\ source[t] # "absent"
  <2>1. source[t] \in {"absent", "local", "import"}
    BY DEF WholeInv, TimetableTypeOK
  <2>2. e \in EditType
    BY <1>n, <2>1 DEF EditType
  <2> QED
    BY <2>2 DEF BeginUpdate, Exists, n
<1> HIDE DEF e
<1>2a. edit'[c] = e /\ crossed \subseteq crossed'
  BY <1>1, <1>e, BeginStep
<1>2. /\ edit'[c].op = "update" /\ edit'[c].at = "document" /\ edit'[c].table = t
      /\ edit'[c].source = source[t] /\ crossed \subseteq crossed'
  BY <1>2a, <1>e
<1>3. t \notin Edited /\ source[t] = "import" => courses[t] = 1..Imported
  BY DEF WholeInv, TimetablesAreWhole, Edited
<1>4. EditOk(c)' /\ PointOk(c)'
  BY <1>1, <1>2 DEF EditOk, PointOk, PlaceOk
<1>5. ImportOk(c)'
  BY <1>1, <1>2, <1>3 DEF ImportOk, Edited, TablesStay
<1> QED
  BY <1>1, <1>4, <1>5, <1>e, BeginQuiet

LEMMA ActivateBegins ==
    ASSUME WholeInv, NEW c \in TimetableCalls, NEW t \in Tables, BeginActivate(c, t)
    PROVE  WholeInv'
<1> DEFINE e == [op |-> "activate", table |-> t, active |-> "yes", at |-> "pointer",
                 source |-> "absent", left |-> {}, more |-> FALSE]
<1>1. EditBegins(c, e) /\ e \in EditType /\ TablesStay /\ Exists(t)
  BY DEF NewEdit, BeginActivate, EditType
<1>e. e.op = "activate" /\ e.at = "pointer" /\ e.table = t /\ e.active = "yes"
  OBVIOUS
<1> HIDE DEF e
<1>2. edit'[c] = e
  BY <1>1, <1>e, BeginStep
<1>3. EditOk(c)'
  BY <1>2, <1>e DEF EditOk, PlaceOk
<1>4. PointOk(c)' /\ ImportOk(c)'
  BY <1>1, <1>2, <1>e DEF PointOk, ImportOk, Exists, TablesStay
<1> QED
  BY <1>1, <1>3, <1>4, <1>e, BeginQuiet

LEMMA CourseBegins ==
    ASSUME WholeInv, NEW c \in TimetableCalls, NEW t \in Tables, NEW i \in Courses,
           BeginCourse(c, t, i) \/ BeginChange(c, t, i)
    PROVE  WholeInv'
<1>1. ASSUME NEW op \in {"course", "change"}, NEW place \in {"look", "put"},
             op = "course" <=> place = "look", TablesStay,
             EditBegins(c, [NewEdit(op, t, "as is", place) EXCEPT !.left = {i}])
      PROVE  WholeInv'
  <2> DEFINE n == NewEdit(op, t, "as is", place)
             e == [n EXCEPT !.left = {i}]
  <2>n. n \in EditType /\ n.op = op /\ n.at = place /\ n.table = t /\ n.active = "as is"
    BY DEF NewEdit, EditType
  <2> HIDE DEF n
  <2>e. e.op = op /\ e.at = place /\ e.table = t /\ e.active = "as is" /\ e \in EditType
    BY <2>n DEF EditType
  <2>1. EditBegins(c, e)
    BY <1>1 DEF n
  <2> HIDE DEF e
  <2>2a. edit'[c] = e
    BY <2>1, <2>e, BeginStep
  <2>2. edit'[c].op = op /\ edit'[c].at = place /\ edit'[c].table = t
        /\ edit'[c].active = "as is"
    BY <2>2a, <2>e
  <2>3. EditOk(c)'
    BY <1>1, <2>2 DEF EditOk, PlaceOk
  <2>4. PointOk(c)' /\ ImportOk(c)'
    BY <1>1, <2>2 DEF PointOk, ImportOk
  <2> QED
    BY <1>1, <2>1, <2>3, <2>4, <2>e, BeginQuiet
<1> QED
  BY <1>1 DEF BeginCourse, BeginChange

\* A deletion edits the timetable from its beginning.
LEMMA DeleteBegins ==
    ASSUME WholeInv, NEW c \in TimetableCalls, NEW t \in Tables, BeginDelete(c, t)
    PROVE  WholeInv'
<1> DEFINE e == [op |-> "delete", table |-> t, active |-> "no", at |-> "pointer",
                 source |-> "absent", left |-> {}, more |-> FALSE]
<1>1. EditBegins(c, e) /\ e \in EditType /\ touched' = touched \union {t}
      /\ source' = source /\ courses' = courses /\ pointer' = pointer
  BY DEF NewEdit, BeginDelete, EditType
<1>2. /\ edit'[c] = e /\ \A d \in TimetableCalls \ {c} : edit'[d] = edit[d]
      /\ edit' \in [TimetableCalls -> EditType]
      /\ crossed \subseteq crossed' /\ crossed' \subseteq Tables /\ ClashPart'
  BY <1>1, BeginStep
<1>3. TimetableTypeOK'
  BY <1>1, <1>2, TypesByParts DEF WholeInv, TimetableTypeOK
<1>4. EditOk(c)' /\ PointOk(c)' /\ ImportOk(c)'
  BY <1>1, <1>2 DEF EditOk, PointOk, ImportOk, PlaceOk, Edited
<1>5. ASSUME NEW d \in TimetableCalls \ {c} PROVE EditOk(d)' /\ PointOk(d)' /\ ImportOk(d)'
  <2>1. EditOk(d)'
    BY <1>1, <1>2, EditIsTyped DEF EditOk, Edited
  <2>2. PointOk(d)'
    BY <1>1, <1>2, EditIsTyped DEF PointOk, Exists
  <2>3. ImportOk(d)'
    BY <1>1, <1>2, EditIsTyped DEF ImportOk, Edited
  <2> QED
    BY <2>1, <2>2, <2>3
<1>6. TimetablesAreWhole'
  BY <1>1, <1>2 DEF WholeInv, TimetablesAreWhole, Exists
<1> QED
  BY <1>2, <1>3, <1>4, <1>5, <1>6 DEF WholeInv, EditPart

\* An import forgets earlier edits: a call that was to rely on them clashes.
LEMMA ImportBegins ==
    ASSUME WholeInv, NEW c \in TimetableCalls, NEW t \in Tables, NEW active \in {"as is", "yes"},
           BeginImport(c, t, active)
    PROVE  WholeInv'
<1> DEFINE e == [op |-> "import", table |-> t, active |-> active, at |-> "list",
                 source |-> "absent", left |-> {}, more |-> FALSE]
<1>1. EditBegins(c, e) /\ e \in EditType /\ touched' = touched \ {t} /\ ~Exists(t)
      /\ source' = source /\ courses' = courses /\ pointer' = pointer
  BY DEF NewEdit, BeginImport, EditType
<1>2. /\ edit'[c] = e /\ \A d \in TimetableCalls \ {c} : edit'[d] = edit[d]
      /\ edit' \in [TimetableCalls -> EditType]
      /\ crossed \subseteq crossed' /\ crossed' \subseteq Tables /\ ClashPart'
  BY <1>1, BeginStep
<1>3. TimetableTypeOK'
  BY <1>1, <1>2, TypesByParts DEF WholeInv, TimetableTypeOK
<1>4. EditOk(c)' /\ PointOk(c)' /\ ImportOk(c)'
  <2>1. edit'[c].op = "import" /\ edit'[c].at = "list" /\ edit'[c].table = t
        /\ edit'[c].active # "no"
    <3>1. e.op = "import" /\ e.at = "list" /\ e.table = t /\ e.active # "no"
      OBVIOUS
    <3> HIDE DEF e
    <3> QED
      BY <1>2, <3>1
  <2>2. EditOk(c)'
    BY <2>1 DEF EditOk, PlaceOk
  <2>3. PointOk(c)' /\ ImportOk(c)'
    BY <1>1, <2>1 DEF PointOk, ImportOk, Exists
  <2> QED
    BY <2>2, <2>3
<1>5. ASSUME NEW d \in TimetableCalls \ {c} PROVE EditOk(d)' /\ PointOk(d)' /\ ImportOk(d)'
  <2>1. edit[d].table = t /\ edit[d].op \in {"delete", "import", "update"} => t \in crossed'
    <3>1. edit[d].table = t /\ edit[d].op \in {"delete", "import", "update"} => Clash(e, edit[d])
      BY DEF Clash, Disturbs
    <3>2. Clash(e, edit[d]) => e.table \in crossed'
      BY <1>1 DEF EditBegins
    <3> QED
      BY <3>1, <3>2
  <2>2. EditOk(d)'
    BY <1>1, <1>2, <2>1, EditIsTyped DEF EditOk, Edited
  <2>3. PointOk(d)'
    BY <1>1, <1>2, EditIsTyped DEF PointOk, Exists
  <2>4. ImportOk(d)'
    BY <1>1, <1>2, <2>1, EditIsTyped DEF ImportOk, Edited
  <2> QED
    BY <2>2, <2>3, <2>4
<1>6. TimetablesAreWhole'
  BY <1>1, <1>2 DEF WholeInv, TimetablesAreWhole, Exists
<1> QED
  BY <1>2, <1>3, <1>4, <1>5, <1>6 DEF WholeInv, EditPart

-----------------------------------------------------------------------------
\* A call that goes to another place keeps the rest.
LEMMA GoesKeeping ==
    ASSUME WholeInv, NEW c \in TimetableCalls, NEW place,
           place \in {"document", "pointer", "clear", "list", "table", "count courses", "put"},
           EditGoesTo(c, place)
    PROVE  /\ edit'[c].op = edit[c].op /\ edit'[c].table = edit[c].table
           /\ edit'[c].active = edit[c].active /\ edit'[c].source = edit[c].source
           /\ edit'[c].left = edit[c].left /\ edit'[c].at = place
           /\ Moves(c, edit'[c]) /\ crossed' = crossed
<1>1. Moves(c, [edit[c] EXCEPT !.at = place])
  BY MovesTo DEF WholeInv
<1>2. edit[c] \in EditType
  BY EditIsTyped
<1>3. edit'[c] = [edit[c] EXCEPT !.at = place]
  BY <1>1 DEF Moves
<1> QED
  BY <1>1, <1>2, <1>3 DEF Moves, EditType

LEMMA QuietGoes ==
    ASSUME WholeInv, TablesStay, NEW c \in TimetableCalls, NEW place,
           place \in {"document", "pointer", "clear", "list", "table", "count courses", "put"},
           EditGoesTo(c, place), EditOk(c)', PointOk(c)', ImportOk(c)'
    PROVE  WholeInv'
<1>1. /\ edit'[c].op = edit[c].op /\ edit'[c].table = edit[c].table
      /\ edit'[c].active = edit[c].active /\ Moves(c, edit'[c])
  BY GoesKeeping
<1> QED
  BY <1>1, QuietMove

LEMMA CountTablesInv ==
    ASSUME WholeInv, NEW c \in TimetableCalls, CountTables(c)
    PROVE  WholeInv'
<1>0. TablesStay /\ edit[c].at = "count" /\ edit[c] \in EditType
      /\ EditOk(c) /\ PointOk(c) /\ ImportOk(c)
  BY EditIsTyped DEF CountTables, EditAt
<1>1. CASE EditEnds(c)
  BY <1>0, <1>1, QuietEnd
<1>2. CASE edit[c].op = "create" /\ EditGoesTo(c, "document")
  <2>1. /\ edit'[c].op = "create" /\ edit'[c].table = edit[c].table
        /\ edit'[c].active = edit[c].active
        /\ edit'[c].at = "document" /\ crossed' = crossed
    BY <1>2, GoesKeeping
  <2>2. EditOk(c)'
    BY <1>0, <1>2, <2>1 DEF EditOk, PlaceOk
  <2>3. PointOk(c)' /\ ImportOk(c)'
    BY <2>1 DEF PointOk, ImportOk
  <2> QED
    BY <1>0, <1>2, <2>2, <2>3, QuietGoes
<1>3. CASE edit[c].op # "create"
           /\ EditGoesOn(c, [edit[c] EXCEPT !.at = "write", !.left = 1..Imported])
  <2> DEFINE e == [edit[c] EXCEPT !.at = "write", !.left = 1..Imported]
  <2>1. e \in EditType /\ e.op = edit[c].op /\ e.table = edit[c].table /\ e.active = edit[c].active
        /\ e.at = "write" /\ e.left = 1..Imported
    <3>1. 1..Imported \in SUBSET Courses
      BY TimetableAssumption DEF Courses, TimetableAssumption
    <3> QED
      BY <1>0, <3>1 DEF EditType
  <2> HIDE DEF e
  <2>2. Moves(c, e) /\ edit'[c] = e /\ crossed' = crossed
    BY <1>3, <2>1, MovesOn DEF e, WholeInv, Moves
  <2>3. edit[c].op = "import"
    BY <1>0, <1>3 DEF EditOk, PlaceOk
  <2>4. EditOk(c)'
    BY <1>0, <2>1, <2>2, <2>3 DEF EditOk, PlaceOk
  <2>5. PointOk(c)'
    BY <2>1, <2>2, <2>3 DEF PointOk
  <2>6. ImportOk(c)'
    BY <1>0, <2>1, <2>2, <2>3 DEF ImportOk, Edited, TablesStay
  <2> QED
    BY <1>0, <2>1, <2>2, <2>4, <2>5, <2>6, QuietMove
<1> QED
  BY <1>1, <1>2, <1>3 DEF CountTables

LEMMA ReadPointerInv ==
    ASSUME WholeInv, NEW c \in TimetableCalls, ReadPointer(c)
    PROVE  WholeInv'
<1>0. TablesStay /\ edit[c].at = "pointer" /\ edit[c].active = "no" /\ edit[c] \in EditType
      /\ EditOk(c) /\ PointOk(c) /\ ImportOk(c)
  BY EditIsTyped DEF ReadPointer, EditAt
<1>1. CASE EditEnds(c)
  BY <1>0, <1>1, QuietEnd
<1>2. CASE EditGoesTo(c, "clear")
  <2>1. /\ edit'[c].op = edit[c].op /\ edit'[c].table = edit[c].table
        /\ edit'[c].active = "no" /\ edit'[c].source = edit[c].source
        /\ edit'[c].at = "clear" /\ crossed' = crossed
    BY <1>0, <1>2, GoesKeeping
  <2>2. EditOk(c)'
    BY <1>0, <1>2, <2>1 DEF EditOk, PlaceOk, Edited, TablesStay
  <2>3. PointOk(c)' /\ ImportOk(c)'
    BY <1>0, <2>1 DEF EditOk, PlaceOk, PointOk, ImportOk, Edited, TablesStay
  <2> QED
    BY <1>0, <1>2, <2>2, <2>3, QuietGoes
<1>3. CASE edit[c].op = "delete" /\ pointer # edit[c].table /\ EditGoesTo(c, "list")
  <2>1. /\ edit'[c].op = "delete" /\ edit'[c].table = edit[c].table
        /\ edit'[c].active = "no"
        /\ edit'[c].at = "list" /\ crossed' = crossed
    BY <1>0, <1>3, GoesKeeping
  <2>2. EditOk(c)'
    BY <1>0, <1>3, <2>1 DEF EditOk, PlaceOk, Edited, TablesStay
  <2>3. PointOk(c)' /\ ImportOk(c)'
    BY <1>0, <1>3, <2>1 DEF PointOk, ImportOk, TablesStay
  <2> QED
    BY <1>0, <1>3, <2>2, <2>3, QuietGoes
<1> QED
  BY <1>1, <1>2, <1>3 DEF ReadPointer, AfterPointer, TableOf

LEMMA CourseLooks ==
    ASSUME WholeInv, NEW c \in TimetableCalls, LookForCourse(c) \/ CountCourses(c)
    PROVE  WholeInv'
<1>0. TablesStay /\ edit[c].at \in {"look", "count courses"} /\ edit[c] \in EditType
      /\ EditOk(c) /\ PointOk(c) /\ ImportOk(c)
  BY EditIsTyped DEF LookForCourse, CountCourses, EditAt
<1>1. edit[c].op = "course"
  BY <1>0 DEF EditOk, PlaceOk
<1>2. ASSUME NEW place \in {"count courses", "put"}, EditGoesTo(c, place) PROVE WholeInv'
  <2>1. /\ edit'[c].op = "course" /\ edit'[c].table = edit[c].table
        /\ edit'[c].active = edit[c].active
        /\ edit'[c].at = place /\ crossed' = crossed
    BY <1>1, <1>2, GoesKeeping
  <2>2. EditOk(c)'
    BY <1>0, <1>1, <2>1 DEF EditOk, PlaceOk
  <2>3. PointOk(c)' /\ ImportOk(c)'
    BY <2>1 DEF PointOk, ImportOk
  <2> QED
    BY <1>0, <1>2, <2>2, <2>3, QuietGoes
<1> QED
  BY <1>2 DEF LookForCourse, CountCourses

LEMMA CourseListed ==
    ASSUME NEW S \in SUBSET Courses, NEW i \in S, ~(Cardinality(S) >= CoursePage)
    PROVE  Cardinality({j \in S : j < i}) < CoursePage
<1>1. IsFiniteSet(Courses)
  BY FS_Interval, TimetableAssumption DEF Courses, TimetableAssumption
<1>2. IsFiniteSet(S) /\ Cardinality(S) \in Nat
  BY <1>1, FS_Subset, FS_CardinalityType
<1>3. /\ Cardinality({j \in S : j < i}) <= Cardinality(S)
      /\ IsFiniteSet({j \in S : j < i})
  BY <1>2, FS_Subset
<1>4. Cardinality({j \in S : j < i}) \in Nat
  BY <1>3, FS_CardinalityType
<1> QED
  BY <1>2, <1>3, <1>4, TimetableAssumption DEF TimetableAssumption

LEMMA ListCoursesInv ==
    ASSUME WholeInv, NEW c \in TimetableCalls, ListCourses(c)
    PROVE  WholeInv'
<1> DEFINE t == edit[c].table
           all == courses[t]
           page == {i \in all : Cardinality({j \in all : j < i}) < CoursePage}
           place == IF all = {} THEN AfterCourses(c) ELSE "drop"
           e == [edit[c] EXCEPT !.left = page, !.at = place,
                                !.more = Cardinality(all) >= CoursePage]
<1>0. TablesStay /\ edit[c].at = "list" /\ edit[c] \in EditType
      /\ EditOk(c) /\ PointOk(c) /\ ImportOk(c) /\ EditGoesOn(c, e)
  BY EditIsTyped DEF ListCourses, EditAt, TableOf
<1>1. edit[c].op \in {"delete", "import"} /\ t \in Tables /\ all \subseteq Courses
  BY <1>0 DEF EditOk, PlaceOk, WholeInv, TimetableTypeOK
<1>2. place \in {"table", "count", "drop"}
  BY DEF AfterCourses
<1>3. (Cardinality(all) >= CoursePage) \in BOOLEAN /\ page \subseteq Courses
  BY <1>1
<1>4. ~(Cardinality(all) >= CoursePage) => page = all
  BY <1>1, CourseListed
<1>5. /\ edit[c].op = "delete" => place \in {"table", "drop"}
      /\ edit[c].op = "import" => place \in {"count", "drop"} /\ (place = "count" => all = {})
  BY DEF AfterCourses
<1> HIDE DEF page, place
<1>6. /\ e \in EditType /\ e.op = edit[c].op /\ e.table = t /\ e.active = edit[c].active
      /\ e.source = edit[c].source
      /\ e.at = place /\ e.left = page /\ e.more = (Cardinality(all) >= CoursePage)
  BY <1>0, <1>2, <1>3 DEF EditType
<1> HIDE DEF e
<1>7. Moves(c, e) /\ edit'[c] = e /\ crossed' = crossed
  BY <1>0, <1>6, MovesOn DEF WholeInv, Moves
<1>8. EditOk(c)'
  BY <1>0, <1>1, <1>2, <1>5, <1>6, <1>7 DEF EditOk, PlaceOk, Edited, TablesStay
<1>9. PointOk(c)'
  BY <1>0, <1>1, <1>2, <1>6, <1>7 DEF PointOk, TablesStay
<1>10. ImportOk(c)'
  BY <1>0, <1>1, <1>4, <1>5, <1>6, <1>7 DEF ImportOk, Edited, TablesStay
<1> QED
  BY <1>0, <1>6, <1>7, <1>8, <1>9, <1>10, QuietMove

-----------------------------------------------------------------------------
(* Calls that write. *)

\* After a write a call goes on with what it is, or ends.
LEMMA AfterWrite ==
    ASSUME WholeInv, NEW c \in TimetableCalls, NEW e \in EditType, EditGoesOn(c, e),
           \/ e = NoEdit
           \/ e.op = edit[c].op /\ e.table = edit[c].table /\ e.active = edit[c].active
    PROVE  /\ edit'[c] = e /\ crossed' = crossed /\ ClashPart'
           /\ \A d \in TimetableCalls \ {c} : edit'[d] = edit[d]
           /\ edit' \in [TimetableCalls -> EditType]
<1>1. Moves(c, e)
  BY MovesOn DEF WholeInv
<1> QED
  BY <1>1, ClashesStay DEF WholeInv, Moves

LEMMA EndsOrGoes ==
    ASSUME WholeInv, NEW c \in TimetableCalls, NEW place \in {"pointer", "list"},
           EditEnds(c) \/ EditGoesTo(c, place)
    PROVE  /\ crossed' = crossed /\ ClashPart'
           /\ \A d \in TimetableCalls \ {c} : edit'[d] = edit[d]
           /\ edit' \in [TimetableCalls -> EditType]
           /\ \/ edit'[c] = NoEdit
              \/ /\ edit'[c].op = edit[c].op /\ edit'[c].table = edit[c].table
                 /\ edit'[c].active = edit[c].active /\ edit'[c].source = edit[c].source
                 /\ edit'[c].left = edit[c].left /\ edit'[c].at = place
                 /\ EditGoesTo(c, place)
<1>1. CASE EditEnds(c)
  <2>1. Moves(c, NoEdit)
    BY <1>1, MovesOff DEF WholeInv
  <2> QED
    BY <2>1, ClashesStay DEF WholeInv, Moves
<1>2. CASE EditGoesTo(c, place)
  <2>1. /\ edit'[c].op = edit[c].op /\ edit'[c].table = edit[c].table
        /\ edit'[c].active = edit[c].active /\ edit'[c].source = edit[c].source
        /\ edit'[c].left = edit[c].left /\ edit'[c].at = place
        /\ Moves(c, edit'[c]) /\ crossed' = crossed
    BY <1>2, GoesKeeping
  <2>2. ClashPart'
    BY <2>1, ClashesStay DEF WholeInv
  <2> QED
    BY <1>2, <2>1, <2>2 DEF Moves
<1> QED
  BY <1>1, <1>2

\* An import writes the document of a whole timetable, an update that of one it
\* has read.
LEMMA PutTableInv ==
    ASSUME WholeInv, NEW c \in TimetableCalls, PutTable(c)
    PROVE  WholeInv'
<1> DEFINE t == edit[c].table
           kind == CASE edit[c].op = "create" -> "local"
                     [] edit[c].op = "import" -> "import"
                     [] OTHER -> edit[c].source
<1>1. /\ source' = [source EXCEPT ![t] = kind]
      /\ courses' = courses /\ pointer' = pointer /\ touched' = touched
      /\ EditEnds(c) \/ EditGoesTo(c, "pointer")
      /\ edit[c].at = "document"
  BY DEF PutTable, TableOf, EditAt
<1>2. /\ crossed' = crossed /\ ClashPart'
      /\ \A d \in TimetableCalls \ {c} : edit'[d] = edit[d]
      /\ edit' \in [TimetableCalls -> EditType]
      /\ \/ edit'[c] = NoEdit
         \/ /\ edit'[c].op = edit[c].op /\ edit'[c].table = t
            /\ edit'[c].active = edit[c].active /\ edit'[c].source = edit[c].source
            /\ edit'[c].at = "pointer"
  BY <1>1, EndsOrGoes
<1>3. /\ edit[c] \in EditType /\ EditOk(c) /\ PointOk(c) /\ ImportOk(c)
      /\ edit[c].op \in {"create", "update", "import"} /\ t \in Tables
  BY <1>1, EditIsTyped DEF EditOk, PlaceOk
<1>4. /\ kind \in {"local", "import"}
      /\ kind = "import" => \/ edit[c].op = "import"
                            \/ edit[c].op = "update" /\ edit[c].source = "import"
  <2>1. edit[c].op = "create" => kind = "local"
    OBVIOUS
  <2>2. edit[c].op = "import" => kind = "import"
    OBVIOUS
  <2>3. edit[c].op = "update" => kind = edit[c].source
    OBVIOUS
  <2>4. edit[c].op = "update" => edit[c].source \in {"local", "import"}
    BY <1>3 DEF EditOk, EditType
  <2>5. edit[c].op \in {"create", "update", "import"}
    BY <1>3
  <2> HIDE DEF kind
  <2>6. CASE edit[c].op = "create"
    BY <2>1, <2>6
  <2>7. CASE edit[c].op = "import"
    BY <2>2, <2>7
  <2>8. CASE edit[c].op = "update"
    BY <2>3, <2>4, <2>8
  <2> QED
    BY <2>5, <2>6, <2>7, <2>8
<1> HIDE DEF kind
<1>5. /\ source'[t] = kind /\ source' \in [Tables -> {"absent", "local", "import"}]
      /\ \A u \in Tables \ {t} : source'[u] = source[u]
      /\ source'[t] # "absent"
  <2>1. source \in [Tables -> {"absent", "local", "import"}] /\ kind # "absent"
    BY <1>4 DEF WholeInv, TimetableTypeOK
  <2> QED
    BY <1>1, <1>3, <1>4, <2>1
<1>6. TimetableTypeOK'
  BY <1>1, <1>2, <1>5, TypesByParts DEF WholeInv, TimetableTypeOK
<1>7. t \notin Edited /\ kind = "import" => courses[t] = 1..Imported
  BY <1>1, <1>3, <1>4 DEF ImportOk
<1>8. EditOk(c)' /\ PointOk(c)' /\ ImportOk(c)'
  <2>1. CASE edit'[c] = NoEdit
    BY <2>1, EndedIsOk
  <2>2. CASE edit'[c] # NoEdit
    <3>1. EditOk(c)'
      BY <1>1, <1>2, <1>3, <2>2 DEF EditOk, PlaceOk, Edited
    <3>2. PointOk(c)'
      BY <1>2, <1>5, <2>2 DEF PointOk, Exists
    <3>3. ImportOk(c)'
      BY <1>1, <1>2, <1>3, <2>2 DEF ImportOk, Edited
    <3> QED
      BY <3>1, <3>2, <3>3
  <2> QED
    BY <2>1, <2>2
<1>9. ASSUME NEW d \in TimetableCalls \ {c} PROVE EditOk(d)' /\ PointOk(d)' /\ ImportOk(d)'
  <2>1. /\ EditOk(d) /\ PointOk(d) /\ ImportOk(d) /\ edit'[d] = edit[d]
        /\ edit[d].op # "none" => edit[d].table \in Tables
        /\ edit[d].op = "none" <=> edit[d].at = "none"
    BY <1>2, EditIsTyped DEF EditOk, PlaceOk
  <2>2. EditOk(d)'
    BY <1>1, <1>2, <2>1 DEF EditOk, Edited
  <2>3. PointOk(d)'
    <3>1. edit[d].table \in Tables /\ source[edit[d].table] # "absent"
             => source'[edit[d].table] # "absent"
      BY <1>5
    <3>2. edit[d].at = "pointer" => edit[d].table \in Tables
      BY <2>1
    <3> QED
      BY <1>1, <1>2, <2>1, <3>1, <3>2 DEF PointOk, Exists
  <2>4. ImportOk(d)'
    <3>1. edit[d].op = "import" /\ edit[d].table = t /\ t \notin Edited => kind # "import"
      <4>1. edit[d].op = "import" /\ edit[d].table = t /\ edit[c].op \in {"import", "update"}
               => t \in crossed
        BY DEF WholeInv, ClashPart, Clash, Disturbs
      <4> QED
        BY <1>4, <4>1 DEF Edited
    <3> QED
      BY <1>1, <1>2, <1>5, <2>1, <3>1 DEF ImportOk, Edited
  <2> QED
    BY <2>2, <2>3, <2>4
<1>10. TimetablesAreWhole'
  <2>1. pointer' # NoTable => Exists(pointer)' \/ pointer' \in crossed'
    BY <1>1, <1>2, <1>4, <1>5 DEF WholeInv, TimetablesAreWhole, TimetableTypeOK, Exists
  <2> QED
    BY <1>1, <1>2, <1>5, <1>7, <2>1 DEF WholeInv, TimetablesAreWhole, Edited
<1> QED
  BY <1>2, <1>6, <1>8, <1>9, <1>10 DEF WholeInv, EditPart

LEMMA PutPointerInv ==
    ASSUME WholeInv, NEW c \in TimetableCalls, PutPointer(c)
    PROVE  WholeInv'
<1> DEFINE t == edit[c].table
<1>1. /\ source' = source /\ courses' = courses /\ touched' = touched /\ pointer' = t
      /\ EditEnds(c) /\ edit[c].at = "pointer" /\ edit[c].active = "yes"
  BY DEF PutPointer, TableOf, EditAt
<1>2. /\ crossed' = crossed /\ ClashPart' /\ edit'[c] = NoEdit
      /\ \A d \in TimetableCalls \ {c} : edit'[d] = edit[d]
      /\ edit' \in [TimetableCalls -> EditType]
  <2>1. Moves(c, NoEdit)
    BY <1>1, MovesOff DEF WholeInv
  <2> QED
    BY <2>1, ClashesStay DEF WholeInv, Moves
<1>3. /\ EditOk(c) /\ PointOk(c) /\ ImportOk(c) /\ t \in Tables
  BY <1>1, EditIsTyped DEF EditOk, PlaceOk
<1>4. TimetableTypeOK'
  BY <1>1, <1>2, <1>3, TypesByParts DEF WholeInv, TimetableTypeOK
<1>5. ASSUME NEW d \in TimetableCalls \ {c} PROVE EditOk(d)' /\ PointOk(d)' /\ ImportOk(d)'
  <2>1. EditOk(d) /\ PointOk(d) /\ ImportOk(d) /\ edit'[d] = edit[d]
    BY <1>2, EditIsTyped
  <2>2. EditOk(d)' /\ ImportOk(d)'
    BY <1>1, <1>2, <2>1 DEF EditOk, ImportOk, Edited
  <2>3. edit[d].op = "delete" /\ edit[d].table = t => t \in crossed
    BY <1>1 DEF WholeInv, ClashPart, Clash, Disturbs
  <2>4. PointOk(d)'
    BY <1>1, <1>2, <2>1, <2>3 DEF PointOk, Exists
  <2> QED
    BY <2>2, <2>4
<1>6. TimetablesAreWhole'
  BY <1>1, <1>2, <1>3 DEF WholeInv, TimetablesAreWhole, PointOk, Exists
<1> QED
  BY <1>2, <1>4, <1>5, <1>6, EndedIsOk DEF WholeInv, EditPart

LEMMA DropPointerInv ==
    ASSUME WholeInv, NEW c \in TimetableCalls, DropPointer(c)
    PROVE  WholeInv'
<1>1. /\ source' = source /\ courses' = courses /\ touched' = touched /\ pointer' = NoTable
      /\ edit[c].at = "clear"
      /\ EditEnds(c) \/ EditGoesTo(c, "list")
      /\ EditGoesTo(c, "list") => edit[c].op = "delete" \/ EditEnds(c)
  BY DEF DropPointer, AfterPointer, EditAt
<1>2. /\ crossed' = crossed /\ ClashPart'
      /\ \A d \in TimetableCalls \ {c} : edit'[d] = edit[d]
      /\ edit' \in [TimetableCalls -> EditType]
      /\ \/ edit'[c] = NoEdit
         \/ /\ edit'[c].op = edit[c].op /\ edit'[c].table = edit[c].table
            /\ edit'[c].active = edit[c].active
            /\ edit'[c].at = "list" /\ EditGoesTo(c, "list")
  BY <1>1, EndsOrGoes
<1>3. EditOk(c) /\ PointOk(c) /\ ImportOk(c) /\ NoTable \notin Tables
  BY EditIsTyped, TimetableAssumption DEF TimetableAssumption
<1>4. TimetableTypeOK'
  BY <1>1, <1>2, TypesByParts DEF WholeInv, TimetableTypeOK
<1>5. EditOk(c)' /\ PointOk(c)' /\ ImportOk(c)'
  <2>1. CASE edit'[c] = NoEdit
    BY <2>1, EndedIsOk
  <2>2. CASE edit'[c] # NoEdit
    <3>0. edit[c].op = "delete"
      <4>1. EditEnds(c) => edit'[c] = NoEdit
        BY MovesOff DEF WholeInv, Moves
      <4> QED
        BY <1>1, <1>2, <2>2, <4>1
    <3>1. EditOk(c)'
      BY <1>1, <1>2, <1>3, <2>2, <3>0 DEF EditOk, PlaceOk, Edited
    <3>2. PointOk(c)' /\ ImportOk(c)'
      BY <1>1, <1>2, <1>3, <2>2, <3>0 DEF PointOk, ImportOk, EditOk
    <3> QED
      BY <3>1, <3>2
  <2> QED
    BY <2>1, <2>2
<1>6. ASSUME NEW d \in TimetableCalls \ {c} PROVE EditOk(d)' /\ PointOk(d)' /\ ImportOk(d)'
  <2>1. EditOk(d) /\ PointOk(d) /\ ImportOk(d) /\ edit'[d] = edit[d]
    BY <1>2, EditIsTyped
  <2>2. EditOk(d)' /\ ImportOk(d)'
    BY <1>1, <1>2, <2>1 DEF EditOk, ImportOk, Edited
  <2>3. PointOk(d)'
    BY <1>1, <1>2, <1>3, <2>1 DEF PointOk, Exists, EditOk
  <2> QED
    BY <2>2, <2>3
<1>7. TimetablesAreWhole'
  BY <1>1, <1>2 DEF WholeInv, TimetablesAreWhole
<1> QED
  BY <1>2, <1>4, <1>5, <1>6, <1>7 DEF WholeInv, EditPart

LEMMA DropTableInv ==
    ASSUME WholeInv, NEW c \in TimetableCalls, DropTable(c)
    PROVE  WholeInv'
<1> DEFINE t == edit[c].table
<1>1. /\ source' = [source EXCEPT ![t] = "absent"]
      /\ courses' = courses /\ touched' = touched /\ pointer' = pointer
      /\ EditEnds(c) /\ edit[c].at = "table"
  BY DEF DropTable, TableOf, EditAt
<1>2. /\ crossed' = crossed /\ ClashPart' /\ edit'[c] = NoEdit
      /\ \A d \in TimetableCalls \ {c} : edit'[d] = edit[d]
      /\ edit' \in [TimetableCalls -> EditType]
  <2>1. Moves(c, NoEdit)
    BY <1>1, MovesOff DEF WholeInv
  <2> QED
    BY <2>1, ClashesStay DEF WholeInv, Moves
<1>3. /\ EditOk(c) /\ PointOk(c) /\ edit[c].op = "delete" /\ t \in Tables
      /\ pointer # t \/ t \in crossed
  BY <1>1, EditIsTyped DEF EditOk, PlaceOk, PointOk
<1>4. /\ source'[t] = "absent" /\ source' \in [Tables -> {"absent", "local", "import"}]
      /\ \A u \in Tables \ {t} : source'[u] = source[u]
  BY <1>1, <1>3 DEF WholeInv, TimetableTypeOK
<1>5. TimetableTypeOK'
  BY <1>1, <1>2, <1>4, TypesByParts DEF WholeInv, TimetableTypeOK
<1>6. ASSUME NEW d \in TimetableCalls \ {c} PROVE EditOk(d)' /\ PointOk(d)' /\ ImportOk(d)'
  <2>1. /\ EditOk(d) /\ PointOk(d) /\ ImportOk(d) /\ edit'[d] = edit[d]
        /\ edit[d].op # "none" => edit[d].table \in Tables
        /\ edit[d].op = "none" <=> edit[d].at = "none"
    BY <1>2, EditIsTyped DEF EditOk, PlaceOk
  <2>2. EditOk(d)'
    BY <1>1, <1>2, <2>1 DEF EditOk, Edited
  <2>3. PointOk(d)'
    <3>1. edit[d].active = "yes" /\ edit[d].table = t => t \in crossed
      BY <1>3 DEF WholeInv, ClashPart, Clash, Disturbs
    <3>2. edit[d].at = "pointer" => edit[d].table \in Tables
      BY <2>1
    <3> QED
      BY <1>1, <1>2, <1>4, <2>1, <3>1, <3>2 DEF PointOk, Exists
  <2>4. ImportOk(d)'
    <3>1. edit[d].op = "import" => edit[d].table \in Tables
      BY <2>1
    <3> QED
      BY <1>1, <1>2, <1>4, <2>1, <3>1 DEF ImportOk, Edited
  <2> QED
    BY <2>2, <2>3, <2>4
<1>7. TimetablesAreWhole'
  BY <1>1, <1>2, <1>3, <1>4
  DEF WholeInv, TimetablesAreWhole, TimetableTypeOK, Exists
<1> QED
  BY <1>2, <1>5, <1>6, <1>7, EndedIsOk DEF WholeInv, EditPart

-----------------------------------------------------------------------------
\* The courses of a timetable change: another call that relies on them is on an
\* edited timetable, and so is the timetable.
LEMMA CourseStep ==
    ASSUME WholeInv, NEW c \in TimetableCalls, NEW t \in Tables, NEW S \in SUBSET Courses,
           source' = source, pointer' = pointer, courses' = [courses EXCEPT ![t] = S],
           crossed' = crossed, touched \subseteq touched', touched' \subseteq Tables,
           ClashPart', \A d \in TimetableCalls \ {c} : edit'[d] = edit[d],
           edit' \in [TimetableCalls -> EditType],
           EditOk(c)', PointOk(c)', ImportOk(c)',
           \/ t \in Edited'
           \/ /\ source[t] # "import"
              /\ \A d \in TimetableCalls \ {c} :
                    edit[d].table = t => edit[d].op \notin {"import", "update"}
    PROVE  WholeInv'
<1>1. /\ courses' \in [Tables -> SUBSET Courses]
      /\ \A u \in Tables \ {t} : courses'[u] = courses[u]
  BY DEF WholeInv, TimetableTypeOK
<1>2. TimetableTypeOK'
  BY <1>1, TypesByParts DEF WholeInv, TimetableTypeOK
<1>3. ASSUME NEW d \in TimetableCalls \ {c} PROVE EditOk(d)' /\ PointOk(d)' /\ ImportOk(d)'
  <2>1. /\ EditOk(d) /\ PointOk(d) /\ ImportOk(d) /\ edit'[d] = edit[d]
        /\ edit[d].op \in {"import", "update"} => edit[d].table \in Tables
    BY EditIsTyped DEF EditOk
  <2>2. EditOk(d)'
    BY <2>1 DEF EditOk, Edited
  <2>3. PointOk(d)'
    BY <2>1 DEF PointOk, Exists
  <2>4. ImportOk(d)'
    <3>1. CASE edit[d].table = t
      BY <2>1, <3>1 DEF ImportOk, Edited
    <3>2. CASE edit[d].table # t /\ edit[d].op \in {"import", "update"}
      BY <1>1, <2>1, <3>2 DEF ImportOk, Edited
    <3>3. CASE edit[d].op \notin {"import", "update"}
      BY <2>1, <3>3 DEF ImportOk
    <3> QED
      BY <3>1, <3>2, <3>3
  <2> QED
    BY <2>2, <2>3, <2>4
<1>4. TimetablesAreWhole'
  BY <1>1 DEF WholeInv, TimetablesAreWhole, Exists, Edited
<1> QED
  BY <1>2, <1>3, <1>4 DEF WholeInv, EditPart

\* A deletion drops courses of a timetable it has begun to edit, an import those
\* of one that is not there.
LEMMA DropCourseInv ==
    ASSUME WholeInv, NEW c \in TimetableCalls, NEW i \in Courses, DropCourse(c, i)
    PROVE  WholeInv'
<1> DEFINE t == edit[c].table
           place == IF edit[c].left = {i}
                    THEN IF edit[c].more THEN "list" ELSE AfterCourses(c) ELSE "drop"
           e == [edit[c] EXCEPT !.left = @ \ {i}, !.at = place]
<1>1. /\ courses' = [courses EXCEPT ![t] = @ \ {i}]
      /\ source' = source /\ touched' = touched /\ pointer' = pointer
      /\ EditGoesOn(c, e) /\ edit[c].at = "drop" /\ i \in edit[c].left
  BY DEF DropCourse, TableOf, EditAt, CourseInTurn, WithoutCourse
<1>2. /\ edit[c] \in EditType /\ EditOk(c) /\ PointOk(c) /\ ImportOk(c)
      /\ edit[c].op \in {"delete", "import"} /\ t \in Tables
  BY <1>1, EditIsTyped DEF EditOk, PlaceOk
<1>3. /\ edit[c].op = "delete" => place \in {"list", "table", "drop"}
      /\ edit[c].op = "import" => place \in {"list", "count", "drop"}
      /\ place \in {"table", "count"} => edit[c].left = {i} /\ ~edit[c].more
  BY DEF AfterCourses
<1> HIDE DEF place
<1>4. /\ e \in EditType /\ e.op = edit[c].op /\ e.table = t /\ e.active = edit[c].active
      /\ e.at = place /\ e.left = edit[c].left \ {i} /\ e.more = edit[c].more
  BY <1>2, <1>3 DEF EditType
<1> HIDE DEF e
<1>5. /\ edit'[c] = e /\ crossed' = crossed /\ ClashPart'
      /\ \A d \in TimetableCalls \ {c} : edit'[d] = edit[d]
      /\ edit' \in [TimetableCalls -> EditType]
  BY <1>1, <1>4, AfterWrite
<1>6. /\ courses[t] \ {i} \in SUBSET Courses
      /\ courses' = [courses EXCEPT ![t] = courses[t] \ {i}]
      /\ courses'[t] = courses[t] \ {i}
  BY <1>1, <1>2 DEF WholeInv, TimetableTypeOK
<1>7. EditOk(c)' /\ PointOk(c)'
  <2>1. EditOk(c)'
    BY <1>1, <1>2, <1>3, <1>4, <1>5 DEF EditOk, PlaceOk, Edited
  <2>2. PointOk(c)'
    BY <1>1, <1>2, <1>3, <1>4, <1>5 DEF PointOk
  <2> QED
    BY <2>1, <2>2
<1>8. ImportOk(c)'
  BY <1>1, <1>2, <1>3, <1>4, <1>5, <1>6 DEF ImportOk, Edited
<1>9. \/ t \in Edited'
      \/ /\ source[t] # "import"
         /\ \A d \in TimetableCalls \ {c} :
               edit[d].table = t => edit[d].op \notin {"import", "update"}
  <2>1. CASE edit[c].op = "delete"
    BY <1>1, <1>2, <1>5, <2>1 DEF EditOk, Edited
  <2>2. CASE edit[c].op = "import"
    <3>1. t \notin Edited => source[t] # "import"
      BY <1>1, <1>2, <2>2 DEF ImportOk
    <3>2. ASSUME NEW d \in TimetableCalls \ {c}, edit[d].table = t,
                 edit[d].op \in {"import", "update"}
          PROVE  t \in crossed
      BY <2>2, <3>2 DEF WholeInv, ClashPart, Clash, Disturbs
    <3> QED
      BY <1>1, <1>5, <3>1, <3>2 DEF Edited
  <2> QED
    BY <1>2, <2>1, <2>2
<1>10. touched \subseteq touched' /\ touched' \subseteq Tables
  BY <1>1 DEF WholeInv, TimetableTypeOK
<1> DEFINE S == courses[t] \ {i}
<1>11. S \in SUBSET Courses /\ courses' = [courses EXCEPT ![t] = S]
  BY <1>6
<1> HIDE DEF t, S
<1> QED
  BY <1>1, <1>2, <1>5, <1>7, <1>8, <1>9, <1>10, <1>11, CourseStep

LEMMA WriteCourseInv ==
    ASSUME WholeInv, NEW c \in TimetableCalls, NEW i \in Courses, WriteCourse(c, i)
    PROVE  WholeInv'
<1> DEFINE t == edit[c].table
           place == IF edit[c].left = {i} THEN "document" ELSE "write"
           e == [edit[c] EXCEPT !.left = @ \ {i}, !.at = place]
<1>1. /\ courses' = [courses EXCEPT ![t] = @ \union {i}]
      /\ source' = source /\ touched' = touched /\ pointer' = pointer
      /\ EditGoesOn(c, e) /\ edit[c].at = "write" /\ i \in edit[c].left
  BY DEF WriteCourse, TableOf, EditAt, CourseInTurn, WithoutCourse
<1>2. /\ edit[c] \in EditType /\ EditOk(c) /\ PointOk(c) /\ ImportOk(c)
      /\ edit[c].op = "import" /\ t \in Tables
  BY <1>1, EditIsTyped DEF EditOk, PlaceOk
<1>3. place \in {"document", "write"} /\ (place = "document" => edit[c].left = {i})
  OBVIOUS
<1> HIDE DEF place
<1>4. /\ e \in EditType /\ e.op = "import" /\ e.table = t /\ e.active = edit[c].active
      /\ e.at = place /\ e.left = edit[c].left \ {i}
  BY <1>2, <1>3 DEF EditType
<1> HIDE DEF e
<1>5. /\ edit'[c] = e /\ crossed' = crossed /\ ClashPart'
      /\ \A d \in TimetableCalls \ {c} : edit'[d] = edit[d]
      /\ edit' \in [TimetableCalls -> EditType]
  BY <1>1, <1>2, <1>4, AfterWrite
<1>6. /\ courses[t] \union {i} \in SUBSET Courses
      /\ courses' = [courses EXCEPT ![t] = courses[t] \union {i}]
      /\ courses'[t] = courses[t] \union {i}
  BY <1>1, <1>2 DEF WholeInv, TimetableTypeOK
<1>7. EditOk(c)' /\ PointOk(c)'
  <2>1. EditOk(c)'
    BY <1>1, <1>2, <1>3, <1>4, <1>5 DEF EditOk, PlaceOk
  <2>2. PointOk(c)'
    BY <1>3, <1>4, <1>5 DEF PointOk
  <2> QED
    BY <2>1, <2>2
<1>8. ImportOk(c)'
  <2>1. t \notin Edited => courses'[t] \union (edit[c].left \ {i}) = 1..Imported
    BY <1>1, <1>2, <1>6 DEF ImportOk
  <2>2. place = "document" => edit[c].left \ {i} = {}
    BY <1>3
  <2>3. t \notin Edited => source[t] # "import"
    BY <1>1, <1>2 DEF ImportOk
  <2> QED
    BY <1>1, <1>3, <1>4, <1>5, <2>1, <2>2, <2>3 DEF ImportOk, Edited
<1>9. \/ t \in Edited'
      \/ /\ source[t] # "import"
         /\ \A d \in TimetableCalls \ {c} :
               edit[d].table = t => edit[d].op \notin {"import", "update"}
  <2>1. t \notin Edited => source[t] # "import"
    BY <1>1, <1>2 DEF ImportOk
  <2>2. ASSUME NEW d \in TimetableCalls \ {c}, edit[d].table = t,
               edit[d].op \in {"import", "update"}
        PROVE  t \in crossed
    BY <1>2, <2>2 DEF WholeInv, ClashPart, Clash, Disturbs
  <2> QED
    BY <1>1, <1>5, <2>1, <2>2 DEF Edited
<1> QED
  BY <1>1, <1>2, <1>5, <1>6, <1>7, <1>8, <1>9, CourseStep DEF WholeInv, TimetableTypeOK

LEMMA PutCourseInv ==
    ASSUME WholeInv, NEW c \in TimetableCalls, NEW i \in Courses, PutCourse(c, i)
    PROVE  WholeInv'
<1> DEFINE t == edit[c].table
<1>1. /\ courses' = [courses EXCEPT ![t] = @ \union {i}] /\ touched' = touched \union {t}
      /\ source' = source /\ pointer' = pointer
      /\ EditEnds(c) /\ edit[c].at = "put"
  BY DEF PutCourse, TableOf, EditAt
<1>2. t \in Tables
  BY <1>1, EditIsTyped DEF EditOk, PlaceOk
<1>3. /\ crossed' = crossed /\ ClashPart' /\ edit'[c] = NoEdit
      /\ \A d \in TimetableCalls \ {c} : edit'[d] = edit[d]
      /\ edit' \in [TimetableCalls -> EditType]
  <2>1. Moves(c, NoEdit)
    BY <1>1, MovesOff DEF WholeInv
  <2> QED
    BY <2>1, ClashesStay DEF WholeInv, Moves
<1>4. /\ courses[t] \union {i} \in SUBSET Courses
      /\ courses' = [courses EXCEPT ![t] = courses[t] \union {i}]
      /\ touched \subseteq touched' /\ touched' \subseteq Tables /\ t \in Edited'
  BY <1>1, <1>2 DEF WholeInv, TimetableTypeOK, Edited
<1>5. EditOk(c)' /\ PointOk(c)' /\ ImportOk(c)'
  BY <1>3, EndedIsOk
<1> DEFINE S == courses[t] \union {i}
<1>6. S \in SUBSET Courses /\ courses' = [courses EXCEPT ![t] = S]
  BY <1>4
<1> HIDE DEF t, S
<1> QED
  BY <1>1, <1>2, <1>3, <1>4, <1>5, <1>6, CourseStep

LEMMA DeleteCourseInv ==
    ASSUME WholeInv, NEW t \in Tables, NEW i \in Courses, DeleteCourse(t, i)
    PROVE  WholeInv'
<1>1. /\ courses' = [courses EXCEPT ![t] = @ \ {i}] /\ touched' = touched \union {t}
      /\ source' = source /\ pointer' = pointer /\ edit' = edit /\ crossed' = crossed
  BY DEF DeleteCourse
<1>2. /\ courses' \in [Tables -> SUBSET Courses]
      /\ \A u \in Tables \ {t} : courses'[u] = courses[u]
  BY <1>1 DEF WholeInv, TimetableTypeOK
<1>3. TimetableTypeOK'
  BY <1>1, <1>2, TypesByParts DEF WholeInv, TimetableTypeOK, EditType
<1>4. ClashPart'
  BY <1>1 DEF WholeInv, ClashPart, Clash, Disturbs
<1>5. ASSUME NEW d \in TimetableCalls PROVE EditOk(d)' /\ PointOk(d)' /\ ImportOk(d)'
  <2>1. /\ EditOk(d) /\ PointOk(d) /\ ImportOk(d)
        /\ edit[d].op \in {"import", "update"} => edit[d].table \in Tables
    BY EditIsTyped DEF EditOk
  <2>2. EditOk(d)'
    BY <1>1, <2>1 DEF EditOk, Edited
  <2>3. PointOk(d)'
    BY <1>1, <2>1 DEF PointOk, Exists
  <2>4. ImportOk(d)'
    BY <1>1, <1>2, <2>1 DEF ImportOk, Edited
  <2> QED
    BY <2>2, <2>3, <2>4
<1>6. TimetablesAreWhole'
  BY <1>1, <1>2 DEF WholeInv, TimetablesAreWhole, Exists
<1> QED
  BY <1>3, <1>4, <1>5, <1>6 DEF WholeInv, EditPart

LEMMA TimetableStep == WholeInv /\ [TimetableNext]_timetableVars => WholeInv'
<1> SUFFICES ASSUME WholeInv, [TimetableNext]_timetableVars PROVE WholeInv'
  OBVIOUS
<1>1. ASSUME NEW c \in TimetableCalls,
             \/ CountTables(c) \/ PutTable(c) \/ PutPointer(c) \/ ReadPointer(c)
             \/ DropPointer(c) \/ ListCourses(c) \/ DropTable(c) \/ LookForCourse(c)
             \/ CountCourses(c) \/ EditFails(c)
      PROVE  WholeInv'
  BY <1>1, CountTablesInv, PutTableInv, PutPointerInv, ReadPointerInv, DropPointerInv,
     ListCoursesInv, DropTableInv, CourseLooks, QuietEnd DEF EditFails
<1>2. ASSUME NEW c \in TimetableCalls, NEW i \in Courses,
             DropCourse(c, i) \/ PutCourse(c, i) \/ WriteCourse(c, i)
      PROVE  WholeInv'
  BY <1>2, DropCourseInv, PutCourseInv, WriteCourseInv
<1>3. ASSUME NEW c \in TimetableCalls, NEW t \in Tables, NEW active \in {"as is", "yes"},
             BeginCreate(c, t, active) \/ BeginImport(c, t, active)
      PROVE  WholeInv'
  BY <1>3, CreateBegins, ImportBegins
<1>4. ASSUME NEW c \in TimetableCalls, NEW t \in Tables,
             \/ \E active \in {"as is", "yes", "no"} : BeginUpdate(c, t, active)
             \/ BeginActivate(c, t) \/ BeginDelete(c, t)
             \/ \E i \in Courses : BeginCourse(c, t, i) \/ BeginChange(c, t, i)
      PROVE  WholeInv'
  BY <1>4, UpdateBegins, ActivateBegins, DeleteBegins, CourseBegins
<1>5. CASE UNCHANGED timetableVars
  BY <1>5 DEF timetableVars, WholeInv, TimetableTypeOK, ClashPart, EditPart, EditOk, PointOk,
     ImportOk, TimetablesAreWhole, Exists, Edited
<1> QED
  BY <1>1, <1>2, <1>3, <1>4, <1>5, DeleteCourseInv DEF TimetableNext

\* Whatever calls of one user interleave and wherever they are cut off, the
\* pointer and the imports are whole but for what a call crossed.
THEOREM TimetablesStayWhole == TimetableSpec => []TimetablesAreWhole
<1>1. WholeInv => TimetablesAreWhole
  BY DEF WholeInv
<1> QED
  BY InitIsWhole, TimetableStep, <1>1, PTL DEF TimetableSpec

\* The documents, the pointer and the calls under way stay in their domains.
THEOREM TimetableTypesHold == TimetableSpec => []TimetableTypeOK
<1>1. WholeInv => TimetableTypeOK
  BY DEF WholeInv
<1> QED
  BY InitIsWhole, TimetableStep, <1>1, PTL DEF TimetableSpec
-----------------------------------------------------------------------------
(* Bookings *)

\* What counts now, and what of it a listing has still before it.
Live(slot) == {i \in BookingIds : Counted(i, slot, over)}
AheadOf(c) == {i \in Rest(c) : Counted(i, booking[c].slot, over)}

AddsTo(c, slot) == bookingKind \in {"courts", "agenda"} => booking[c].slot = slot

\* The calls that have passed their check, or will find less than n.
MayPass(slot, n) ==
    {c \in BookingCalls :
        /\ AddsTo(c, slot)
        /\ \/ booking[c].at \in {"seat", "put"}
           \/ /\ booking[c].at = "list"
              /\ booking[c].seen + Cardinality(AheadOf(c)) < n}

Margin(slot, n) ==
    Cardinality(Live(slot)) + Cardinality(MayPass(slot, n)) < n + Cardinality(BookingCalls)

\* What counts and the calls that may still add to it are bounded together, and
\* not only for the limit: of n there may be more when n is more.  So it stays
\* true when several bookings end at once, after a listing has passed over them.
MarginPart == \A slot \in Slots : \A n \in Nat : n >= Limit => Margin(slot, n)

\* The slots that are over are those of the clock that was read, or more; what
\* a call to cancel has read is still there.
CallPart ==
    \A c \in BookingCalls :
        /\ booking[c].now \subseteq over
        /\ booking[c].at = "cancel" => booking[c].id \in Documents

BookInv == BookingTypeOK /\ CallPart /\ MarginPart

LEMMA LimitIsNat == Limit \in Nat \ {0}
  BY BookingAssumption DEF BookingAssumption, Limit

LEMMA CallsAreFinite == ASSUME NEW S, S \subseteq BookingCalls
                        PROVE  /\ IsFiniteSet(S) /\ Cardinality(S) \in Nat
                               /\ Cardinality(BookingCalls) \in Nat
                               /\ Cardinality(S) <= Cardinality(BookingCalls)
<1>1. IsFiniteSet(BookingCalls)
  BY BookingAssumption DEF BookingAssumption
<1>2. IsFiniteSet(S) /\ Cardinality(S) <= Cardinality(BookingCalls)
  BY <1>1, FS_Subset
<1> QED
  BY <1>1, <1>2, FS_CardinalityType

LEMMA IdsAreFinite == ASSUME NEW S, S \subseteq BookingIds
                      PROVE  IsFiniteSet(S) /\ Cardinality(S) \in Nat
<1>1. IsFiniteSet(S)
  BY BookingAssumption, FS_Subset DEF BookingAssumption
<1> QED
  BY <1>1, FS_CardinalityType

LEMMA FewerIds == ASSUME NEW T, T \subseteq BookingIds, NEW S, S \subseteq T
                  PROVE  Cardinality(S) \in Nat /\ Cardinality(T) \in Nat
                         /\ Cardinality(S) <= Cardinality(T)
<1>1. IsFiniteSet(T)
  BY IdsAreFinite
<1> QED
  BY <1>1, IdsAreFinite, FS_Subset

LEMMA FewerCalls == ASSUME NEW T, T \subseteq BookingCalls, NEW S, S \subseteq T
                    PROVE  Cardinality(S) \in Nat /\ Cardinality(T) \in Nat
                           /\ Cardinality(S) <= Cardinality(T)
<1>1. IsFiniteSet(T)
  BY CallsAreFinite
<1> QED
  BY <1>1, CallsAreFinite, FS_Subset

\* A union has no more elements than its two parts.
LEMMA PartsOfIds == ASSUME NEW S, NEW T, S \subseteq BookingIds, T \subseteq BookingIds,
                           NEW U, U \subseteq S \union T
                    PROVE  /\ Cardinality(U) \in Nat /\ Cardinality(S) \in Nat
                           /\ Cardinality(T) \in Nat
                           /\ Cardinality(U) <= Cardinality(S) + Cardinality(T)
<1>1. IsFiniteSet(S) /\ IsFiniteSet(T) /\ Cardinality(S) \in Nat /\ Cardinality(T) \in Nat
  BY IdsAreFinite
<1>2. /\ Cardinality(S \union T) = Cardinality(S) + Cardinality(T) - Cardinality(S \intersect T)
      /\ S \union T \subseteq BookingIds /\ S \intersect T \subseteq BookingIds
  BY <1>1, FS_Union
<1>3. Cardinality(U) <= Cardinality(S \union T) /\ Cardinality(U) \in Nat
      /\ Cardinality(S \union T) \in Nat
  BY <1>2, FewerIds
<1>4. Cardinality(S \intersect T) \in Nat
  BY <1>2, IdsAreFinite
<1> QED
  BY <1>1, <1>2, <1>3, <1>4

LEMMA SetsAreIds == ASSUME BookingTypeOK
                    PROVE  /\ \A slot : Live(slot) \subseteq BookingIds
                           /\ \A c : AheadOf(c) \subseteq BookingIds
                           /\ \A slot, n : MayPass(slot, n) \subseteq BookingCalls
  BY DEF Live, AheadOf, Rest, Documents, MayPass

\* Nothing more counts, and no call may pass that might not before, beyond what
\* has gone.
LEMMA LessCounts ==
    ASSUME BookingTypeOK, BookingTypeOK', MarginPart, bookingKind' = bookingKind,
           NEW slot \in Slots, NEW n \in Nat, n >= Limit,
           Live(slot)' \subseteq Live(slot),
           \A d \in MayPass(slot, n)' :
              /\ booking'[d] = booking[d]
              /\ AheadOf(d) \subseteq AheadOf(d)' \union (Live(slot) \ Live(slot)')
    PROVE  Margin(slot, n)'
<1> DEFINE Gone == Live(slot) \ Live(slot)'
           r == Cardinality(Gone)
<1>1. Gone \subseteq BookingIds /\ r \in Nat /\ Live(slot) \subseteq BookingIds
  BY SetsAreIds, IdsAreFinite
<1>2. Cardinality(Live(slot)') = Cardinality(Live(slot)) - r
      /\ Cardinality(Live(slot)) \in Nat /\ Cardinality(Live(slot)') \in Nat
  <2>1. IsFiniteSet(Live(slot)) /\ IsFiniteSet(Live(slot)')
    BY <1>1, IdsAreFinite
  <2>2. Cardinality(Gone) = Cardinality(Live(slot)) - Cardinality(Live(slot) \intersect Live(slot)')
    BY <2>1, FS_Difference
  <2>3. Cardinality(Live(slot) \intersect Live(slot)') = Cardinality(Live(slot)')
    <3>1. Live(slot) \intersect Live(slot)' = Live(slot)'
      OBVIOUS
    <3> QED
      BY <3>1
  <2>4. Cardinality(Live(slot)) \in Nat /\ Cardinality(Live(slot)') \in Nat
    BY <2>1, FS_CardinalityType
  <2> HIDE DEF Gone
  <2> QED
    BY <2>2, <2>3, <2>4
<1>3. MayPass(slot, n)' \subseteq MayPass(slot, n + r)
  <2> SUFFICES ASSUME NEW d \in MayPass(slot, n)' PROVE d \in MayPass(slot, n + r)
    OBVIOUS
  <2>1. d \in BookingCalls /\ booking'[d] = booking[d] /\ (AddsTo(d, slot)' <=> AddsTo(d, slot))
    BY DEF MayPass, AddsTo
  <2>2. AddsTo(d, slot)
    BY <2>1 DEF MayPass
  <2>3. CASE booking[d].at \in {"seat", "put"}
    BY <2>1, <2>2, <2>3 DEF MayPass
  <2>4. CASE booking[d].at \notin {"seat", "put"}
    <3>1. booking[d].at = "list" /\ booking[d].seen + Cardinality(AheadOf(d)') < n
      BY <2>1, <2>4 DEF MayPass
    <3>2. AheadOf(d)' \subseteq BookingIds /\ AheadOf(d) \subseteq AheadOf(d)' \union Gone
      BY SetsAreIds DEF AheadOf, Rest, Documents
    <3>3. /\ Cardinality(AheadOf(d)) <= Cardinality(AheadOf(d)') + r
          /\ Cardinality(AheadOf(d)) \in Nat /\ Cardinality(AheadOf(d)') \in Nat
      BY <1>1, <3>2, PartsOfIds
    <3>4. booking[d].seen \in Nat
      BY <2>1 DEF BookingTypeOK
    <3> HIDE DEF r, Gone
    <3>5. booking[d].seen + Cardinality(AheadOf(d)) < n + r
      BY <1>1, <3>1, <3>3, <3>4
    <3> QED
      BY <2>1, <2>2, <3>1, <3>5 DEF MayPass
  <2> QED
    BY <2>3, <2>4
<1>4. /\ Cardinality(MayPass(slot, n)') \in Nat /\ Cardinality(MayPass(slot, n + r)) \in Nat
      /\ Cardinality(MayPass(slot, n)') <= Cardinality(MayPass(slot, n + r))
  BY <1>3, SetsAreIds, FewerCalls
<1>5. Margin(slot, n + r)
  BY <1>1, LimitIsNat DEF MarginPart
<1>6. Cardinality(BookingCalls) \in Nat
  BY CallsAreFinite
<1> HIDE DEF r, Gone
<1> QED
  BY <1>1, <1>2, <1>4, <1>5, <1>6 DEF Margin

LEMMA SameMargin ==
    ASSUME BookingTypeOK, BookingTypeOK', MarginPart,
           NEW slot \in Slots, NEW n \in Nat, n >= Limit,
           Live(slot)' = Live(slot), MayPass(slot, n)' \subseteq MayPass(slot, n)
    PROVE  Margin(slot, n)'
<1>1. Margin(slot, n)
  BY DEF MarginPart
<1>2. /\ Cardinality(MayPass(slot, n)') \in Nat /\ Cardinality(MayPass(slot, n)) \in Nat
      /\ Cardinality(MayPass(slot, n)') <= Cardinality(MayPass(slot, n))
  BY SetsAreIds, FewerCalls
<1>3. Cardinality(Live(slot)) \in Nat /\ Cardinality(BookingCalls) \in Nat
  BY SetsAreIds, IdsAreFinite, CallsAreFinite
<1> QED
  BY <1>1, <1>2, <1>3 DEF Margin

\* A call that gets no further towards its write changes no margin.
LEMMA StepOfOne ==
    ASSUME BookingTypeOK, BookingTypeOK', MarginPart, BookingsStay, NEW c \in BookingCalls,
           \A d \in BookingCalls \ {c} : booking'[d] = booking[d],
           \A slot \in Slots, n \in Nat :
              n >= Limit /\ c \in MayPass(slot, n)' => c \in MayPass(slot, n)
    PROVE  MarginPart'
<1> SUFFICES ASSUME NEW slot \in Slots, NEW n \in Nat, n >= Limit' PROVE Margin(slot, n)'
  BY DEF MarginPart
<1>0. n >= Limit /\ Documents' = Documents
  BY DEF BookingsStay, Limit, Documents
<1>1. Live(slot)' = Live(slot)
  BY <1>0 DEF Live, Counted, Timed, Confirmed, BookingsStay
<1>2. ASSUME NEW d \in BookingCalls \ {c}, d \in MayPass(slot, n)'
      PROVE  d \in MayPass(slot, n)
  <2>1. booking'[d] = booking[d]
    OBVIOUS
  <2>2. AheadOf(d)' = AheadOf(d)
    BY <1>0, <2>1 DEF AheadOf, Rest, Counted, Timed, Confirmed, BookingsStay
  <2> QED
    BY <1>2, <2>1, <2>2 DEF MayPass, AddsTo, BookingsStay
<1>3. MayPass(slot, n)' \subseteq MayPass(slot, n)
  BY <1>0, <1>2, SetsAreIds DEF MayPass
<1> QED
  BY <1>0, <1>1, <1>3, SameMargin

-----------------------------------------------------------------------------
LEMMA OthersStay == ASSUME BookingTypeOK, NEW c \in BookingCalls, NEW next, BookingGoesOn(c, next)
                    PROVE  /\ booking'[c] = next
                           /\ \A d \in BookingCalls \ {c} : booking'[d] = booking[d]
  BY DEF BookingGoesOn, BookingTypeOK

\* The members of a page come before all others.
LEMMA PageIsFirst ==
    ASSUME BookingTypeOK, NEW c \in BookingCalls, NEW last \in Page(c),
           NEW i \in Rest(c), i <= last
    PROVE  i \in Page(c)
<1>1. {j \in Rest(c) : j < i} \subseteq {j \in Rest(c) : j < last}
  <2>1. Rest(c) \subseteq Nat /\ i \in Nat /\ last \in Nat
    BY BookingAssumption DEF Rest, Page, Documents, BookingAssumption
  <2> QED
    BY <2>1
<1>2. {j \in Rest(c) : j < last} \subseteq BookingIds
  BY DEF Rest, Documents
<1>3. /\ Cardinality({j \in Rest(c) : j < i}) <= Cardinality({j \in Rest(c) : j < last})
      /\ Cardinality({j \in Rest(c) : j < i}) \in Nat /\ Cardinality({j \in Rest(c) : j < last}) \in Nat
  BY <1>1, <1>2, FewerIds
<1>4. Cardinality({j \in Rest(c) : j < last}) < BookingPage
  BY DEF Page
<1>5. BookingPage \in Nat
  BY BookingAssumption DEF BookingAssumption
<1>6. Cardinality({j \in Rest(c) : j < i}) < BookingPage
  BY <1>3, <1>4, <1>5
<1> QED
  BY <1>6 DEF Page

\* What a page counts counts now, or more.
LEMMA PageCounts ==
    ASSUME BookingTypeOK, CallPart, NEW c \in BookingCalls, NEW S,
           S \subseteq BookingIds, AheadOf(c) \subseteq S \union Page(c)
    PROVE  /\ booking[c].seen + Cardinality(AheadOf(c)) <= BookingsSeen(c) + Cardinality(S)
           /\ BookingsSeen(c) \in Nat /\ Cardinality(AheadOf(c)) \in Nat /\ Cardinality(S) \in Nat
           /\ booking[c].seen \in Nat
<1> DEFINE Found == {i \in Page(c) : Counted(i, booking[c].slot, booking[c].now)}
<1>1. Found \subseteq BookingIds
  BY DEF Page, Rest, Documents
<1>2. AheadOf(c) \subseteq S \union Found
  BY DEF AheadOf, CallPart, Counted, Timed, Confirmed
<1>3. booking[c].seen \in Nat
  BY DEF BookingTypeOK
<1>4. BookingsSeen(c) = booking[c].seen + Cardinality(Found)
  BY DEF BookingsSeen
<1>5. Cardinality(AheadOf(c)) <= Cardinality(S) + Cardinality(Found)
      /\ Cardinality(AheadOf(c)) \in Nat /\ Cardinality(S) \in Nat /\ Cardinality(Found) \in Nat
  BY <1>1, <1>2, PartsOfIds
<1> HIDE DEF Found
<1> QED
  BY <1>3, <1>4, <1>5

-----------------------------------------------------------------------------
LEMMA InitBooks == BookingInit => BookInv
<1> SUFFICES ASSUME BookingInit PROVE BookInv
  OBVIOUS
<1>1. BookingTypeOK
  BY DEF BookingInit, BookingTypeOK, Absent, NoCall
<1>2. CallPart
  BY DEF BookingInit, CallPart, NoCall
<1>3. ASSUME NEW slot \in Slots, NEW n \in Nat, n >= Limit PROVE Margin(slot, n)
  <2>1. Live(slot) = {} /\ MayPass(slot, n) = {}
    BY DEF BookingInit, Live, MayPass, Counted, Documents, Absent, NoCall
  <2>2. Cardinality({}) = 0 /\ Cardinality(BookingCalls) \in Nat
    BY FS_EmptySet, CallsAreFinite
  <2> QED
    BY <1>3, <2>1, <2>2, LimitIsNat DEF Margin
<1> QED
  BY <1>1, <1>2, <1>3 DEF BookInv, MarginPart

CallType == [at : {"none", "list", "seat", "put", "cancel"},
             slot : Slots \union {NoSlot}, id : BookingIds \union {0}, now : SUBSET Slots,
             after : BookingIds \union {0}, seen : Nat]

LEMMA NextCall ==
    ASSUME BookingTypeOK, NEW c \in BookingCalls, NEW next \in CallType, BookingGoesOn(c, next)
    PROVE  booking' \in [BookingCalls -> CallType]
  BY DEF BookingTypeOK, CallType, BookingGoesOn

LEMMA TypesOfBooks ==
    ASSUME BookInv, [BookingNext]_bookingVars PROVE BookingTypeOK'
<1> DEFINE Kept == bookingKind' = bookingKind /\ over' = over
                    /\ booked' \in [BookingIds -> [slot : Slots \union {NoSlot},
                                      status : {"absent", "confirmed", "cancelled"}]]
<1>0. /\ NoCall \in CallType /\ booking \in [BookingCalls -> CallType]
      /\ BookingsStay => Kept
  BY DEF NoCall, CallType, BookInv, BookingTypeOK, BookingsStay
<1>1. ASSUME Kept, NEW c \in BookingCalls, NEW next \in CallType, BookingGoesOn(c, next)
      PROVE  BookingTypeOK'
  <2>1. booking' \in [BookingCalls -> CallType]
    BY <1>1, NextCall DEF BookInv
  <2> QED
    BY <1>1, <2>1 DEF BookInv, BookingTypeOK, CallType
<1> HIDE DEF Kept
<1>2. ASSUME NEW slot \in Slots, SlotEnds(slot) PROVE BookingTypeOK'
  BY <1>2 DEF SlotEnds, BookInv, BookingTypeOK
<1>3. ASSUME NEW c \in BookingCalls, NEW slot \in Slots, BeginBooking(c, slot)
      PROVE  BookingTypeOK'
  <2>1. [NoCall EXCEPT !.at = "list", !.slot = slot, !.now = over] \in CallType
    BY DEF NoCall, CallType, BookInv, BookingTypeOK
  <2> QED
    BY <1>0, <1>1, <1>3, <2>1 DEF BeginBooking
<1>4. ASSUME NEW c \in BookingCalls, ListPage(c) PROVE BookingTypeOK'
  <2>1. BookingsSeen(c) \in Nat /\ Page(c) \subseteq BookingIds
    BY PageCounts, SetsAreIds DEF BookInv, Page, Rest, Documents
  <2>2. PICK last \in Page(c) :
           BookingGoesOn(c, [booking[c] EXCEPT !.after = last, !.seen = BookingsSeen(c)])
    BY <1>4 DEF ListPage
  <2>3. [booking[c] EXCEPT !.after = last, !.seen = BookingsSeen(c)] \in CallType
    BY <1>0, <2>1 DEF CallType
  <2> QED
    BY <1>0, <1>1, <1>4, <2>2, <2>3 DEF ListPage
<1>5. ASSUME NEW c \in BookingCalls, EndList(c) PROVE BookingTypeOK'
  <2>1. \A place \in {"seat", "put"} :
           [booking[c] EXCEPT !.at = place, !.after = 0, !.seen = 0] \in CallType
    BY <1>0 DEF CallType
  <2>2. (IF bookingKind = "seats" THEN "seat" ELSE "put") \in {"seat", "put"}
    OBVIOUS
  <2> QED
    BY <1>0, <1>1, <1>5, <2>1, <2>2 DEF EndList, BookingEnds
<1>6. ASSUME NEW c \in BookingCalls, CheckSeat(c) \/ BookingFails(c) PROVE BookingTypeOK'
  <2>1. [booking[c] EXCEPT !.at = "put"] \in CallType
    BY <1>0 DEF CallType
  <2> QED
    BY <1>0, <1>1, <1>6, <2>1 DEF CheckSeat, BookingFails, BookingEnds
<1>7. ASSUME NEW c \in BookingCalls, PutCancelled(c) PROVE BookingTypeOK'
  <2>1. Kept
    BY <1>7 DEF PutCancelled, BookInv, BookingTypeOK, Kept
  <2> QED
    BY <1>0, <1>1, <1>7, <2>1 DEF PutCancelled, BookingEnds
<1>8. ASSUME NEW c \in BookingCalls, NEW id \in BookingIds, PutBooking(c, id)
      PROVE  BookingTypeOK'
  <2>1. booking[c].slot \in Slots \union {NoSlot}
    BY <1>0 DEF CallType
  <2>2. Kept
    BY <1>8, <2>1 DEF PutBooking, BookInv, BookingTypeOK, Kept
  <2> QED
    BY <1>0, <1>1, <1>8, <2>2 DEF PutBooking, BookingEnds
<1>9. ASSUME NEW c \in BookingCalls, NEW id \in BookingIds, BeginCancel(c, id)
      PROVE  BookingTypeOK'
  <2>1. [NoCall EXCEPT !.at = "cancel", !.id = id] \in CallType
    BY DEF NoCall, CallType
  <2> QED
    BY <1>0, <1>1, <1>9, <2>1 DEF BeginCancel
<1>10. ASSUME UNCHANGED bookingVars PROVE BookingTypeOK'
  BY <1>10 DEF bookingVars, BookInv, BookingTypeOK
<1> QED
  BY <1>2, <1>3, <1>4, <1>5, <1>6, <1>7, <1>8, <1>9, <1>10 DEF BookingNext

LEMMA CallsOfBooks ==
    ASSUME BookInv, [BookingNext]_bookingVars PROVE CallPart'
<1>1. ASSUME NEW c \in BookingCalls, NEW next, BookingGoesOn(c, next),
             over \subseteq over', Documents \subseteq Documents',
             next.now \subseteq over, next.at = "cancel" => next.id \in Documents'
      PROVE  CallPart'
  <2>1. booking'[c] = next /\ \A d \in BookingCalls \ {c} : booking'[d] = booking[d]
    BY <1>1, OthersStay DEF BookInv
  <2> QED
    BY <1>1, <2>1 DEF BookInv, CallPart
<1>2. /\ NoCall.now \subseteq over /\ NoCall.at # "cancel"
      /\ \A c \in BookingCalls : booking[c].now \subseteq over
      /\ \A c \in BookingCalls : booking[c] \in CallType
      /\ BookingsStay => over \subseteq over' /\ Documents \subseteq Documents'
  BY DEF NoCall, BookInv, BookingTypeOK, CallPart, CallType, BookingsStay, Documents
<1>3. ASSUME NEW slot \in Slots, SlotEnds(slot) PROVE CallPart'
  BY <1>3 DEF SlotEnds, BookInv, CallPart, Documents
<1>4. ASSUME NEW c \in BookingCalls, NEW slot \in Slots, BeginBooking(c, slot)
      PROVE  CallPart'
  <2> DEFINE next == [NoCall EXCEPT !.at = "list", !.slot = slot, !.now = over]
  <2>1. next.now = over /\ next.at = "list"
    BY DEF NoCall
  <2> HIDE DEF next
  <2> QED
    BY <1>1, <1>2, <1>4, <2>1 DEF BeginBooking, next
<1>5. ASSUME NEW c \in BookingCalls, ListPage(c) PROVE CallPart'
  <2>1. PICK last \in Page(c) :
           BookingGoesOn(c, [booking[c] EXCEPT !.after = last, !.seen = BookingsSeen(c)])
    BY <1>5 DEF ListPage
  <2> DEFINE next == [booking[c] EXCEPT !.after = last, !.seen = BookingsSeen(c)]
  <2>2. next.now = booking[c].now /\ next.at = "list"
    BY <1>2, <1>5 DEF ListPage, BookingAt, CallType
  <2> HIDE DEF next
  <2> QED
    BY <1>1, <1>2, <1>5, <2>1, <2>2 DEF ListPage, next
<1>6. ASSUME NEW c \in BookingCalls, EndList(c) PROVE CallPart'
  <2>1. CASE BookingEnds(c)
    BY <1>1, <1>2, <1>6, <2>1 DEF EndList, BookingEnds
  <2>2. CASE ~BookingEnds(c)
    <3> DEFINE place == IF bookingKind = "seats" THEN "seat" ELSE "put"
               next == [booking[c] EXCEPT !.at = place, !.after = 0, !.seen = 0]
    <3>1. next.now = booking[c].now /\ next.at # "cancel"
      BY <1>2 DEF CallType
    <3>2. BookingGoesOn(c, next)
      BY <1>6, <2>2 DEF EndList
    <3> HIDE DEF next
    <3> QED
      BY <1>1, <1>2, <1>6, <3>1, <3>2 DEF EndList
  <2> QED
    BY <2>1, <2>2
<1>7. ASSUME NEW c \in BookingCalls, CheckSeat(c) \/ BookingFails(c) PROVE CallPart'
  <2>1. CASE BookingEnds(c)
    BY <1>1, <1>2, <1>7, <2>1 DEF CheckSeat, BookingFails, BookingEnds
  <2>2. CASE ~BookingEnds(c)
    <3> DEFINE next == [booking[c] EXCEPT !.at = "put"]
    <3>1. next.now = booking[c].now /\ next.at # "cancel"
      BY <1>2 DEF CallType
    <3>2. BookingGoesOn(c, next)
      BY <1>7, <2>2 DEF CheckSeat, BookingFails
    <3> HIDE DEF next
    <3> QED
      BY <1>1, <1>2, <1>7, <3>1, <3>2 DEF CheckSeat, BookingFails
  <2> QED
    BY <2>1, <2>2
<1>8. ASSUME NEW c \in BookingCalls, NEW id \in BookingIds, PutBooking(c, id)
      PROVE  CallPart'
  <2>1. Documents \subseteq Documents' /\ over' = over
    BY <1>8 DEF PutBooking, Documents, BookInv, BookingTypeOK
  <2> QED
    BY <1>1, <1>2, <1>8, <2>1 DEF PutBooking, BookingEnds
<1>9. ASSUME NEW c \in BookingCalls, PutCancelled(c) PROVE CallPart'
  <2>1. Documents \subseteq Documents' /\ over' = over
    BY <1>9 DEF PutCancelled, Documents, BookInv, BookingTypeOK
  <2> QED
    BY <1>1, <1>2, <1>9, <2>1 DEF PutCancelled, BookingEnds
<1>10. ASSUME NEW c \in BookingCalls, NEW id \in BookingIds, BeginCancel(c, id)
      PROVE  CallPart'
  <2> DEFINE next == [NoCall EXCEPT !.at = "cancel", !.id = id]
  <2>1. next.now = {} /\ next.id = id
    BY DEF NoCall
  <2>2. id \in Documents /\ Documents' = Documents
    BY <1>10 DEF BeginCancel, Documents, BookingsStay
  <2> HIDE DEF next
  <2> QED
    BY <1>1, <1>2, <1>10, <2>1, <2>2 DEF BeginCancel, next
<1>11. ASSUME UNCHANGED bookingVars PROVE CallPart'
  BY <1>11 DEF bookingVars, BookInv, CallPart, Documents
<1> QED
  BY <1>3, <1>4, <1>5, <1>6, <1>7, <1>8, <1>9, <1>10, <1>11 DEF BookingNext

\* A call that begins finds what counts now.
LEMMA BeginMargin ==
    ASSUME BookInv, BookingTypeOK', NEW c \in BookingCalls, NEW start \in Slots,
           BeginBooking(c, start)
    PROVE  MarginPart'
<1> SUFFICES ASSUME NEW slot \in Slots, NEW n \in Nat, n >= Limit' PROVE Margin(slot, n)'
  BY DEF MarginPart
<1>0. /\ n >= Limit /\ Documents' = Documents /\ bookingKind' = bookingKind
      /\ booked' = booked /\ over' = over
  BY DEF BeginBooking, BookingsStay, Limit, Documents
<1>1. Live(slot)' = Live(slot)
  BY <1>0 DEF Live, Counted, Timed, Confirmed
<1>2. /\ booking'[c] = [NoCall EXCEPT !.at = "list", !.slot = start, !.now = over]
      /\ \A d \in BookingCalls \ {c} : booking'[d] = booking[d]
  BY OthersStay DEF BookInv, BeginBooking
<1>3. CASE c \in MayPass(slot, n)'
  <2>1. booking'[c].at = "list" /\ booking'[c].seen = 0 /\ booking'[c].after = 0
        /\ booking'[c].slot = start
    BY <1>2 DEF NoCall
  <2>2. AddsTo(c, slot)' /\ Cardinality(AheadOf(c)') < n
    <3>1. AheadOf(c)' \subseteq BookingIds
      BY SetsAreIds DEF AheadOf, Rest, Documents
    <3>2. Cardinality(AheadOf(c)') \in Nat
      BY <3>1, IdsAreFinite
    <3> QED
      BY <1>3, <2>1, <3>2 DEF MayPass
  <2>3. Live(slot) \subseteq AheadOf(c)'
    <3> SUFFICES ASSUME NEW i \in Live(slot) PROVE i \in AheadOf(c)'
      OBVIOUS
    <3>1. i \in Documents /\ i \in Nat /\ i > 0
      BY BookingAssumption DEF BookingAssumption, Live, Counted, Documents
    <3>2. i \in Rest(c)'
      BY <1>0, <2>1, <3>1 DEF Rest
    <3>3. Counted(i, start, over)
      BY <1>0, <2>1, <2>2 DEF Live, AddsTo, Counted
    <3>4. Counted(i, start, over)'
      BY <1>0, <3>3 DEF Counted, Timed, Confirmed
    <3> QED
      BY <2>1, <3>2, <3>4 DEF AheadOf
  <2>4. AheadOf(c)' \subseteq BookingIds
    BY DEF AheadOf, Rest, Documents
  <2>5. /\ Cardinality(Live(slot)) <= Cardinality(AheadOf(c)')
        /\ Cardinality(Live(slot)) \in Nat /\ Cardinality(AheadOf(c)') \in Nat
    BY <2>3, <2>4, FewerIds
  <2>6. MayPass(slot, n)' \subseteq BookingCalls
    BY DEF MayPass
  <2>7. /\ Cardinality(MayPass(slot, n)') <= Cardinality(BookingCalls)
        /\ Cardinality(MayPass(slot, n)') \in Nat /\ Cardinality(BookingCalls) \in Nat
    BY <2>6, CallsAreFinite
  <2> QED
    BY <1>1, <2>2, <2>5, <2>7 DEF Margin
<1>4. CASE c \notin MayPass(slot, n)'
  <2>1. ASSUME NEW d \in MayPass(slot, n)' PROVE d \in MayPass(slot, n)
    <3>1. d \in BookingCalls \ {c} /\ booking'[d] = booking[d]
      BY <1>2, <1>4 DEF MayPass
    <3>2. AheadOf(d)' = AheadOf(d)
      BY <1>0, <3>1 DEF AheadOf, Rest, Counted, Timed, Confirmed
    <3> QED
      BY <1>0, <3>1, <3>2 DEF MayPass, AddsTo
  <2> QED
    BY <1>0, <1>1, <2>1, SameMargin DEF BookInv
<1> QED
  BY <1>3, <1>4

\* The pages of a listing make it no more likely to pass.
LEMMA ListMargin ==
    ASSUME BookInv, BookingTypeOK', NEW c \in BookingCalls, ListPage(c)
    PROVE  MarginPart'
<1>1. PICK last \in Page(c) :
         /\ \A i \in Page(c) : i <= last
         /\ BookingGoesOn(c, [booking[c] EXCEPT !.after = last, !.seen = BookingsSeen(c)])
  BY DEF ListPage
<1>2. booking[c] \in CallType /\ booking[c].at = "list"
  BY DEF BookInv, BookingTypeOK, CallType, ListPage, BookingAt
<1>3. /\ booking'[c] = [booking[c] EXCEPT !.after = last, !.seen = BookingsSeen(c)]
      /\ \A d \in BookingCalls \ {c} : booking'[d] = booking[d]
  BY <1>1, OthersStay DEF BookInv
<1>4. /\ booking'[c].at = "list" /\ booking'[c].slot = booking[c].slot
      /\ booking'[c].after = last /\ booking'[c].seen = BookingsSeen(c)
  BY <1>2, <1>3 DEF CallType
<1>5. /\ Documents' = Documents /\ bookingKind' = bookingKind /\ booked' = booked
      /\ over' = over
  BY DEF ListPage, BookingsStay, Documents
<1>6. AheadOf(c)' \subseteq BookingIds /\ AheadOf(c) \subseteq AheadOf(c)' \union Page(c)
  <2>1. ASSUME NEW i \in AheadOf(c), i \notin Page(c) PROVE i \in AheadOf(c)'
    <3>1. i \in Rest(c) /\ i \in Documents /\ Counted(i, booking[c].slot, over)
      BY DEF AheadOf, Rest
    <3>2. ~(i <= last)
      BY <2>1, <3>1, PageIsFirst DEF BookInv
    <3>3. i \in Nat /\ last \in Nat
      BY <3>1, BookingAssumption DEF BookingAssumption, Page, Rest, Documents
    <3>4. i \in Rest(c)'
      BY <1>4, <1>5, <3>1, <3>2, <3>3 DEF Rest
    <3>5. Counted(i, booking[c].slot, over)'
      BY <1>4, <1>5, <3>1 DEF Counted, Timed, Confirmed
    <3> QED
      BY <1>4, <3>4, <3>5 DEF AheadOf
  <2> QED
    BY <2>1 DEF AheadOf, Rest, Documents
<1>7. /\ booking[c].seen + Cardinality(AheadOf(c)) <= BookingsSeen(c) + Cardinality(AheadOf(c)')
      /\ BookingsSeen(c) \in Nat /\ Cardinality(AheadOf(c)) \in Nat /\ Cardinality(AheadOf(c)') \in Nat
      /\ booking[c].seen \in Nat
  BY <1>6, PageCounts DEF BookInv
<1>8. ASSUME NEW slot \in Slots, NEW n \in Nat, c \in MayPass(slot, n)'
      PROVE  c \in MayPass(slot, n)
  <2>1. AddsTo(c, slot) /\ BookingsSeen(c) + Cardinality(AheadOf(c)') < n
    BY <1>4, <1>5, <1>8 DEF MayPass, AddsTo
  <2>2. booking[c].seen + Cardinality(AheadOf(c)) < n
    BY <1>7, <2>1
  <2> QED
    BY <1>2, <2>1, <2>2 DEF MayPass
<1> QED
  BY <1>3, <1>8, StepOfOne DEF BookInv, ListPage

\* Only a call that finds less than the limit goes on to its write.
LEMMA EndListMargin ==
    ASSUME BookInv, BookingTypeOK', NEW c \in BookingCalls, EndList(c)
    PROVE  MarginPart'
<1>1. booking[c] \in CallType /\ booking[c].at = "list" /\ BookingsStay
  BY DEF BookInv, BookingTypeOK, CallType, EndList, BookingAt
<1>2. \A d \in BookingCalls \ {c} : booking'[d] = booking[d]
  BY OthersStay DEF BookInv, EndList, BookingEnds
<1>3. CASE BookingEnds(c)
  <2>1. booking'[c].at = "none"
    BY <1>3, OthersStay DEF BookingEnds, NoCall, BookInv
  <2> QED
    BY <1>1, <1>2, <2>1, StepOfOne DEF BookInv, MayPass
<1>4. CASE ~BookingEnds(c)
  <2> DEFINE place == IF bookingKind = "seats" THEN "seat" ELSE "put"
  <2>1. BookingsSeen(c) < Limit
    BY <1>4 DEF EndList, HasRoom
  <2>2. booking'[c] = [booking[c] EXCEPT !.at = place, !.after = 0, !.seen = 0]
    BY <1>4, OthersStay DEF EndList, BookInv
  <2>3. booking'[c].slot = booking[c].slot
    BY <1>1, <2>2 DEF CallType
  <2>4. AheadOf(c) \subseteq {} \union Page(c)
    <3>1. ASSUME NEW i \in Rest(c) PROVE i \in Page(c)
      <4>1. {j \in Rest(c) : j < i} \subseteq Rest(c) /\ Rest(c) \subseteq BookingIds
        BY DEF Rest, Documents
      <4>2. /\ Cardinality({j \in Rest(c) : j < i}) <= Cardinality(Rest(c))
            /\ Cardinality({j \in Rest(c) : j < i}) \in Nat /\ Cardinality(Rest(c)) \in Nat
        BY <4>1, FewerIds
      <4>3. Cardinality(Rest(c)) < BookingPage /\ BookingPage \in Nat
        BY BookingAssumption DEF EndList, BookingAssumption
      <4>4. Cardinality({j \in Rest(c) : j < i}) < BookingPage
        BY <4>2, <4>3
      <4> QED
        BY <4>4 DEF Page
    <3> QED
      BY <3>1 DEF AheadOf
  <2>5. /\ booking[c].seen + Cardinality(AheadOf(c)) <= BookingsSeen(c) + Cardinality({})
        /\ BookingsSeen(c) \in Nat /\ Cardinality(AheadOf(c)) \in Nat /\ booking[c].seen \in Nat
    BY <2>4, PageCounts DEF BookInv
  <2>6. booking[c].seen + Cardinality(AheadOf(c)) < Limit
    BY <2>1, <2>5, FS_EmptySet, LimitIsNat
  <2>7. ASSUME NEW slot \in Slots, NEW n \in Nat, n >= Limit, c \in MayPass(slot, n)'
        PROVE  c \in MayPass(slot, n)
    <3>1. AddsTo(c, slot)
      BY <1>1, <2>3, <2>7 DEF MayPass, AddsTo, BookingsStay
    <3>2. booking[c].seen + Cardinality(AheadOf(c)) < n
      BY <2>5, <2>6, <2>7, LimitIsNat
    <3> QED
      BY <1>1, <3>1, <3>2 DEF MayPass
  <2> QED
    BY <1>1, <1>2, <2>7, StepOfOne DEF BookInv
<1> QED
  BY <1>3, <1>4

\* A call that has passed its check may go on; one that ends or cancels passes
\* none.
LEMMA QuietMargin ==
    ASSUME BookInv, BookingTypeOK', NEW c \in BookingCalls,
           CheckSeat(c) \/ BookingFails(c) \/ \E id \in BookingIds : BeginCancel(c, id)
    PROVE  MarginPart'
<1>1. BookingsStay /\ \A d \in BookingCalls \ {c} : booking'[d] = booking[d]
  BY OthersStay DEF CheckSeat, BookingFails, BeginCancel, BookingEnds, BookInv
<1>2. booking[c] \in CallType
  BY DEF BookInv, BookingTypeOK, CallType
<1>3. CASE BookingEnds(c)
  <2>1. booking'[c].at = "none"
    BY <1>3, OthersStay DEF BookingEnds, NoCall, BookInv
  <2> QED
    BY <1>1, <2>1, StepOfOne DEF BookInv, MayPass
<1>4. CASE CheckSeat(c) /\ ~BookingEnds(c)
  <2>1. booking[c].at = "seat" /\ booking'[c] = [booking[c] EXCEPT !.at = "put"]
    BY <1>4, OthersStay DEF CheckSeat, BookingAt, BookInv
  <2>2. booking'[c].slot = booking[c].slot
    BY <1>2, <2>1 DEF CallType
  <2>3. ASSUME NEW slot \in Slots, NEW n \in Nat, c \in MayPass(slot, n)'
        PROVE  c \in MayPass(slot, n)
    BY <1>1, <2>1, <2>2, <2>3 DEF MayPass, AddsTo, BookingsStay
  <2> QED
    BY <1>1, <2>3, StepOfOne DEF BookInv
<1>5. ASSUME NEW id \in BookingIds, BeginCancel(c, id) PROVE MarginPart'
  <2>1. booking'[c].at = "cancel"
    <3>1. booking'[c] = [NoCall EXCEPT !.at = "cancel", !.id = id]
      BY <1>5, OthersStay DEF BeginCancel, BookInv
    <3> QED
      BY <3>1 DEF NoCall
  <2> QED
    BY <1>1, <2>1, StepOfOne DEF BookInv, MayPass
<1> QED
  BY <1>3, <1>4, <1>5 DEF BookingFails

\* A write takes the place of a call that may pass.
LEMMA PutMargin ==
    ASSUME BookInv, BookingTypeOK', NEW c \in BookingCalls, NEW id \in BookingIds,
           PutBooking(c, id)
    PROVE  MarginPart'
<1> SUFFICES ASSUME NEW slot \in Slots, NEW n \in Nat, n >= Limit' PROVE Margin(slot, n)'
  BY DEF MarginPart
<1>1. /\ n >= Limit /\ bookingKind' = bookingKind /\ over' = over /\ id \notin Documents
      /\ \A i \in BookingIds \ {id} : booked'[i] = booked[i]
      /\ booked'[id] = [slot |-> booking[c].slot, status |-> "confirmed"]
      /\ booking[c].at = "put"
  BY DEF PutBooking, Limit, Unused, BookingAt, BookInv, BookingTypeOK
<1>2. /\ booking'[c].at = "none"
      /\ \A d \in BookingCalls \ {c} : booking'[d] = booking[d]
  BY OthersStay DEF PutBooking, BookingEnds, NoCall, BookInv
<1>3. \A i \in Documents, s \in Slots \union {NoSlot} :
         Counted(i, s, over)' <=> Counted(i, s, over)
  BY <1>1 DEF Counted, Documents, Timed, Confirmed
<1>4. ASSUME NEW d \in MayPass(slot, n)' PROVE d \in MayPass(slot, n) \ {c}
  <2>1. d \in BookingCalls \ {c} /\ booking'[d] = booking[d]
    BY <1>2 DEF MayPass
  <2>2. Documents \subseteq Documents'
    BY <1>1 DEF Documents
  <2>3. booking[d].slot \in Slots \union {NoSlot} /\ booking[d].seen \in Nat
    BY <2>1 DEF BookInv, BookingTypeOK
  <2>4. AheadOf(d) \subseteq AheadOf(d)' /\ AheadOf(d)' \subseteq BookingIds
    BY <1>3, <2>1, <2>2, <2>3 DEF AheadOf, Rest, Documents
  <2>5. /\ Cardinality(AheadOf(d)) <= Cardinality(AheadOf(d)')
        /\ Cardinality(AheadOf(d)) \in Nat /\ Cardinality(AheadOf(d)') \in Nat
    BY <2>4, FewerIds
  <2>6. AddsTo(d, slot)
    BY <1>1, <2>1 DEF MayPass, AddsTo
  <2>7. CASE booking[d].at \in {"seat", "put"}
    BY <2>1, <2>6, <2>7 DEF MayPass
  <2>8. CASE booking[d].at \notin {"seat", "put"}
    <3>1. booking[d].at = "list" /\ booking[d].seen + Cardinality(AheadOf(d)') < n
      BY <2>1, <2>8 DEF MayPass
    <3>2. booking[d].seen + Cardinality(AheadOf(d)) < n
      BY <2>3, <2>5, <3>1
    <3> QED
      BY <2>1, <2>6, <3>1, <3>2 DEF MayPass
  <2> QED
    BY <2>7, <2>8
<1>5. Live(slot) \subseteq BookingIds /\ MayPass(slot, n) \subseteq BookingCalls
  BY SetsAreIds DEF BookInv
<1>6. Margin(slot, n)
  BY <1>1 DEF BookInv, MarginPart
<1>7. CASE AddsTo(c, slot)
  <2>1. c \in MayPass(slot, n)
    BY <1>1, <1>7 DEF MayPass
  <2>2. Live(slot)' \subseteq Live(slot) \union {id}
    BY <1>1, <1>3 DEF Live, Counted, Documents
  <2>3. Cardinality(Live(slot)') <= Cardinality(Live(slot)) + 1
        /\ Cardinality(Live(slot)) \in Nat /\ Cardinality(Live(slot)') \in Nat
    <3>1. {id} \subseteq BookingIds /\ Cardinality({id}) = 1
      BY FS_Singleton
    <3> QED
      BY <1>5, <2>2, <3>1, PartsOfIds
  <2>4. /\ Cardinality(MayPass(slot, n) \ {c}) = Cardinality(MayPass(slot, n)) - 1
        /\ Cardinality(MayPass(slot, n)) \in Nat
    <3>1. IsFiniteSet(MayPass(slot, n)) /\ Cardinality(MayPass(slot, n)) \in Nat
      BY <1>5, CallsAreFinite
    <3> QED
      BY <2>1, <3>1, FS_RemoveElement
  <2>5. /\ Cardinality(MayPass(slot, n)') <= Cardinality(MayPass(slot, n) \ {c})
        /\ Cardinality(MayPass(slot, n)') \in Nat
    BY <1>4, <1>5, FewerCalls
  <2>6. Cardinality(BookingCalls) \in Nat
    BY CallsAreFinite
  <2> QED
    BY <1>6, <2>3, <2>4, <2>5, <2>6 DEF Margin
<1>8. CASE ~AddsTo(c, slot)
  <2>1. Live(slot)' = Live(slot)
    BY <1>1, <1>3, <1>8 DEF Live, Counted, Documents, AddsTo
  <2> QED
    BY <1>1, <1>4, <2>1, SameMargin DEF BookInv
<1> QED
  BY <1>7, <1>8

LEMMA CancelMargin ==
    ASSUME BookInv, BookingTypeOK', NEW c \in BookingCalls, PutCancelled(c)
    PROVE  MarginPart'
<1> SUFFICES ASSUME NEW slot \in Slots, NEW n \in Nat, n >= Limit' PROVE Margin(slot, n)'
  BY DEF MarginPart
<1> DEFINE id == booking[c].id
<1>1. /\ n >= Limit /\ bookingKind' = bookingKind /\ over' = over /\ id \in Documents
      /\ booked' = [booked EXCEPT ![id].status = "cancelled"]
      /\ Documents' = Documents
  BY DEF PutCancelled, Limit, BookingAt, BookInv, BookingTypeOK, CallPart, Documents
<1>2. /\ booking'[c].at = "none"
      /\ \A d \in BookingCalls \ {c} : booking'[d] = booking[d]
  BY OthersStay DEF PutCancelled, BookingEnds, NoCall, BookInv
<1>3. /\ \A i \in BookingIds \ {id} : booked'[i] = booked[i]
      /\ booked'[id].slot = booked[id].slot /\ booked'[id].status = "cancelled"
      /\ id \in BookingIds
  BY <1>1 DEF BookInv, BookingTypeOK, Documents
<1>4. \A i \in BookingIds, s \in Slots \union {NoSlot} :
         /\ Counted(i, s, over)' => Counted(i, s, over)
         /\ i # id => (Counted(i, s, over)' <=> Counted(i, s, over))
         /\ ~Timed => (Counted(i, s, over)' <=> Counted(i, s, over))
  BY <1>1, <1>3 DEF Counted, Timed, Confirmed
<1>5. Live(slot)' \subseteq Live(slot)
  BY <1>1, <1>4 DEF Live
<1>6. ASSUME NEW d \in MayPass(slot, n)'
      PROVE  booking'[d] = booking[d]
             /\ AheadOf(d) \subseteq AheadOf(d)' \union (Live(slot) \ Live(slot)')
  <2>1. d \in BookingCalls \ {c} /\ booking'[d] = booking[d] /\ AddsTo(d, slot)
    BY <1>1, <1>2 DEF MayPass, AddsTo
  <2>2. PICK s \in Slots \union {NoSlot} : s = booking[d].slot /\ s = booking'[d].slot
    BY <2>1 DEF BookInv, BookingTypeOK
  <2>3. ASSUME NEW i \in AheadOf(d), i \notin AheadOf(d)' PROVE i \in Live(slot) \ Live(slot)'
    <3>1. i \in Rest(d) /\ i \in Rest(d)' /\ i \in BookingIds
      BY <1>1, <2>1 DEF AheadOf, Rest, Documents
    <3>2. Counted(i, s, over) /\ ~Counted(i, s, over)'
      BY <1>1, <2>1, <2>2, <2>3, <3>1 DEF AheadOf
    <3>3. i = id /\ Timed
      BY <1>4, <3>1, <3>2
    <3>4. i \in Live(slot)
      BY <2>1, <2>2, <3>1, <3>2 DEF Live, Counted, AddsTo
    <3>5. i \notin Live(slot)'
      BY <1>1, <1>3, <3>3 DEF Live, Counted, Timed, Confirmed
    <3> QED
      BY <3>4, <3>5
  <2> QED
    BY <2>1, <2>3
<1> QED
  BY <1>1, <1>5, <1>6, LessCounts DEF BookInv

LEMMA OverMargin ==
    ASSUME BookInv, BookingTypeOK', NEW end \in Slots, SlotEnds(end)
    PROVE  MarginPart'
<1> SUFFICES ASSUME NEW slot \in Slots, NEW n \in Nat, n >= Limit' PROVE Margin(slot, n)'
  BY DEF MarginPart
<1>1. /\ n >= Limit /\ bookingKind' = bookingKind /\ over' = over \union {end}
      /\ booked' = booked /\ booking' = booking /\ Documents' = Documents
  BY DEF SlotEnds, Limit, Documents
<1>2. Live(slot)' \subseteq Live(slot)
  BY <1>1 DEF Live, Counted, Timed, Confirmed
<1>3. ASSUME NEW d \in MayPass(slot, n)'
      PROVE  AheadOf(d) \subseteq AheadOf(d)' \union (Live(slot) \ Live(slot)')
  <2>1. AddsTo(d, slot)
    BY <1>1 DEF MayPass, AddsTo
  <2>2. ASSUME NEW i \in AheadOf(d), i \notin AheadOf(d)' PROVE i \in Live(slot) \ Live(slot)'
    <3>1. i \in Rest(d) /\ i \in Rest(d)' /\ i \in BookingIds
      BY <1>1 DEF AheadOf, Rest, Documents
    <3>2. Counted(i, booking[d].slot, over) /\ ~Counted(i, booking[d].slot, over)'
      BY <1>1, <2>2, <3>1 DEF AheadOf
    <3>3. i \in Live(slot)
      BY <2>1, <3>1, <3>2 DEF Live, Counted, AddsTo
    <3>4. i \notin Live(slot)'
      BY <1>1, <3>2, <3>3 DEF Live, Counted, Timed, Confirmed
    <3> QED
      BY <3>3, <3>4
  <2> QED
    BY <2>2
<1> QED
  BY <1>1, <1>2, <1>3, LessCounts DEF BookInv

LEMMA BooksStay == ASSUME BookInv, [BookingNext]_bookingVars PROVE BookInv'
<1>1. BookingTypeOK' /\ CallPart'
  BY TypesOfBooks, CallsOfBooks
<1>2. MarginPart'
  <2>1. CASE UNCHANGED bookingVars
    BY <2>1 DEF bookingVars, BookInv, MarginPart, Margin, Live, MayPass, AddsTo, AheadOf,
       Rest, Counted, Documents, Timed, Confirmed, Limit
  <2> QED
    BY <1>1, <2>1, BeginMargin, ListMargin, EndListMargin, QuietMargin, PutMargin,
       CancelMargin, OverMargin DEF BookingNext
<1> QED
  BY <1>1, <1>2 DEF BookInv

\* For any number of calls under way, pages, documents and limits: what a user
\* has exceeds the limit by no more than the calls there may be beside one.
THEOREM OverbookingStaysBounded == BookingSpec => []OverbookingIsBounded
<1>1. ASSUME BookInv PROVE OverbookingIsBounded
  <2> SUFFICES ASSUME NEW slot \in Slots
               PROVE  Cardinality(Live(slot)) < Limit + Cardinality(BookingCalls)
    BY DEF OverbookingIsBounded, Live
  <2>1. Margin(slot, Limit)
    BY <1>1, LimitIsNat DEF BookInv, MarginPart
  <2>2. Cardinality(MayPass(slot, Limit)) \in Nat /\ Cardinality(Live(slot)) \in Nat
        /\ Cardinality(BookingCalls) \in Nat
    BY <1>1, SetsAreIds, CallsAreFinite, IdsAreFinite DEF BookInv
  <2> QED
    BY <2>1, <2>2, LimitIsNat DEF Margin
<1> QED
  BY <1>1, InitBooks, BooksStay, PTL DEF BookingSpec

\* Bookings and calls under way stay in their domains.
THEOREM BookingTypesHold == BookingSpec => []BookingTypeOK
<1>1. BookInv => BookingTypeOK
  BY DEF BookInv
<1> QED
  BY <1>1, InitBooks, BooksStay, PTL DEF BookingSpec

-----------------------------------------------------------------------------
\* What a provider was sent and may still be sent is within its quota as of the
\* moment its bucket was last filled up.
QuotaInv ==
    /\ clock \in Nat
    /\ bucket \in [WeatherProviders -> [tokens : Nat, last : Nat]]
    /\ requestsSent \in [WeatherProviders -> Nat]
    /\ \A p \in WeatherProviders :
          /\ bucket[p].last <= clock
          /\ requestsSent[p] + bucket[p].tokens <= Burst + Rate * bucket[p].last

LEMMA RateGrows == ASSUME NEW a \in Nat, NEW b \in Nat, a <= b
                   PROVE  /\ Rate \in Nat /\ Rate * a \in Nat /\ Rate * b \in Nat
                          /\ Rate * (b - a) \in Nat
                          /\ Rate * b = Rate * a + Rate * (b - a)
<1>1. Rate \in Nat
  BY WeatherAssumption DEF WeatherAssumption
<1>2. PICK d \in Nat : b = a + d
  <2>1. b - a \in Nat /\ b = a + (b - a)
    OBVIOUS
  <2> QED
    BY <2>1
<1>3. Rate * (a + d) = Rate * a + Rate * d
  BY <1>1
<1>4. Rate * d \in Nat /\ Rate * a \in Nat
  BY <1>1
<1>5. b - a = d
  BY <1>2
<1> QED
  BY <1>1, <1>2, <1>3, <1>4, <1>5

LEMMA QuotaInit == WeatherInit => QuotaInv
<1>1. Burst \in Nat /\ Rate \in Nat
  BY WeatherAssumption DEF WeatherAssumption
<1>2. Rate * 0 = 0
  BY <1>1
<1> QED
  BY <1>1, <1>2 DEF WeatherInit, QuotaInv

LEMMA QuotaKept == ASSUME QuotaInv, bucket' = bucket, requestsSent' = requestsSent,
                          clock' \in Nat, clock <= clock'
                   PROVE  QuotaInv'
  BY DEF QuotaInv

LEMMA QuotaOfAttempt == ASSUME QuotaInv, NEW c \in WeatherCalls, Attempt(c) PROVE QuotaInv'
<1> DEFINE p == call[c].provider
<1>1. clock' = clock /\ clock \in Nat
  BY DEF Attempt, QuotaInv
<1>2. CASE UNCHANGED <<bucket, requestsSent>>
  BY <1>1, <1>2, QuotaKept
<1>3. ASSUME NEW n \in {0, 1}, n <= Refilled(p),
             bucket' = [bucket EXCEPT ![p] = [tokens |-> Refilled(p) - n, last |-> clock]],
             requestsSent' = [requestsSent EXCEPT ![p] = @ + n]
      PROVE  QuotaInv'
  <2>1. CASE p \notin WeatherProviders
    <3>1. bucket' = bucket /\ requestsSent' = requestsSent
      BY <1>3, <2>1 DEF QuotaInv
    <3> QED
      BY <1>1, <3>1, QuotaKept
  <2>2. CASE p \in WeatherProviders
    <3> DEFINE t == bucket[p].tokens
               l == bucket[p].last
    <3>1. t \in Nat /\ l \in Nat /\ l <= clock /\ requestsSent[p] \in Nat
          /\ requestsSent[p] + t <= Burst + Rate * l
      BY <2>2 DEF QuotaInv
    <3>2. Refilled(p) = IF t + Rate * (clock - l) > Burst THEN Burst ELSE t + Rate * (clock - l)
      BY DEF Refilled
    <3>3. /\ Rate * l \in Nat /\ Rate * clock \in Nat /\ Rate * (clock - l) \in Nat
          /\ Rate * clock = Rate * l + Rate * (clock - l)
      BY <1>1, <3>1, RateGrows
    <3>4. Burst \in Nat
      BY WeatherAssumption DEF WeatherAssumption
    <3> HIDE DEF t, l
    <3>5. /\ Refilled(p) \in Nat
          /\ requestsSent[p] + Refilled(p) <= Burst + Rate * clock
      BY <3>1, <3>2, <3>3, <3>4
    <3> HIDE DEF p
    <3>6. Refilled(p) - n \in Nat
      BY <1>3, <3>5
    <3>7. /\ bucket' \in [WeatherProviders -> [tokens : Nat, last : Nat]]
          /\ requestsSent' \in [WeatherProviders -> Nat]
      <4>1. requestsSent[p] + n \in Nat
        BY <3>1
      <4>2. [tokens |-> Refilled(p) - n, last |-> clock] \in [tokens : Nat, last : Nat]
        BY <1>1, <3>6
      <4> QED
        BY <1>3, <4>1, <4>2 DEF QuotaInv
    <3>8. /\ bucket'[p].last = clock /\ bucket'[p].tokens = Refilled(p) - n
          /\ requestsSent'[p] = requestsSent[p] + n
      BY <1>3, <2>2 DEF QuotaInv
    <3>9. requestsSent'[p] + bucket'[p].tokens <= Burst + Rate * clock
      BY <1>3, <3>1, <3>3, <3>4, <3>5, <3>8
    <3>10. \A q \in WeatherProviders \ {p} :
              bucket'[q] = bucket[q] /\ requestsSent'[q] = requestsSent[q]
      BY <1>3 DEF QuotaInv
    <3>11. ASSUME NEW q \in WeatherProviders
           PROVE  /\ bucket'[q].last <= clock'
                  /\ requestsSent'[q] + bucket'[q].tokens <= Burst + Rate * bucket'[q].last
      <4>1. CASE q = p
        BY <1>1, <3>8, <3>9, <4>1
      <4>2. CASE q # p
        BY <1>1, <3>10, <4>2 DEF QuotaInv
      <4> QED
        BY <4>1, <4>2
    <3> QED
      BY <1>1, <3>7, <3>11 DEF QuotaInv
  <2> QED
    BY <2>1, <2>2
<1>4. CASE /\ Refilled(p) < 1 /\ UNCHANGED requestsSent
           /\ bucket' = [bucket EXCEPT ![p] = [tokens |-> Refilled(p), last |-> clock]]
  <2>1. CASE p \notin WeatherProviders
    <3>1. bucket' = bucket /\ requestsSent' = requestsSent
      BY <1>4, <2>1 DEF QuotaInv
    <3> QED
      BY <1>1, <3>1, QuotaKept
  <2>2. CASE p \in WeatherProviders
    <3>1. Refilled(p) \in Nat
      <4>1. bucket[p].tokens \in Nat /\ bucket[p].last \in Nat /\ bucket[p].last <= clock
        BY <2>2 DEF QuotaInv
      <4>2. Rate * (clock - bucket[p].last) \in Nat /\ Burst \in Nat
        BY <1>1, <4>1, RateGrows, WeatherAssumption DEF WeatherAssumption
      <4> QED
        BY <4>1, <4>2 DEF Refilled
    <3>2. Refilled(p) - 0 = Refilled(p) /\ 0 <= Refilled(p)
      BY <3>1
    <3>3. requestsSent' = [requestsSent EXCEPT ![p] = @ + 0]
      BY <1>4, <2>2 DEF QuotaInv
    <3> QED
      BY <1>3, <1>4, <3>2, <3>3
  <2> QED
    BY <2>1, <2>2
<1>5. CASE /\ ~(Refilled(p) < 1)
           /\ bucket' = [bucket EXCEPT ![p] = [tokens |-> Refilled(p) - 1, last |-> clock]]
           /\ requestsSent' = [requestsSent EXCEPT ![p] = @ + 1]
  <2>1. CASE p \notin WeatherProviders
    <3>1. bucket' = bucket /\ requestsSent' = requestsSent
      BY <1>5, <2>1 DEF QuotaInv
    <3> QED
      BY <1>1, <3>1, QuotaKept
  <2>2. CASE p \in WeatherProviders
    <3>1. Refilled(p) \in Nat
      <4>1. bucket[p].tokens \in Nat /\ bucket[p].last \in Nat /\ bucket[p].last <= clock
        BY <2>2 DEF QuotaInv
      <4>2. Rate * (clock - bucket[p].last) \in Nat /\ Burst \in Nat
        BY <1>1, <4>1, RateGrows, WeatherAssumption DEF WeatherAssumption
      <4> QED
        BY <4>1, <4>2 DEF Refilled
    <3>2. 1 <= Refilled(p)
      BY <1>5, <3>1
    <3> QED
      BY <1>3, <1>5, <3>2
  <2> QED
    BY <2>1, <2>2
<1> QED
  BY <1>2, <1>4, <1>5 DEF Attempt, TokensTaken

LEMMA QuotaStep == ASSUME QuotaInv, WeatherNext PROVE QuotaInv'
<1>1. ASSUME NEW c \in WeatherCalls, Attempt(c) PROVE QuotaInv'
  BY <1>1, QuotaOfAttempt
<1>2. CASE Tick
  <2>1. bucket' = bucket /\ requestsSent' = requestsSent /\ clock' = clock + 1 /\ clock \in Nat
    BY <1>2 DEF Tick, clientVars, QuotaInv
  <2> QED
    BY <2>1, QuotaKept
<1>3. ASSUME ~Tick, ~\E c \in WeatherCalls : Attempt(c) PROVE QuotaInv'
  <2>1. bucket' = bucket /\ requestsSent' = requestsSent /\ clock' = clock /\ clock \in Nat
    BY <1>3 DEF WeatherNext, StartWeather, StopWeather, InvokeWeather, Expire, NextProvider,
                LastProvider, LookUp, Succeed, FailAttempt, clientVars, QuotaInv
  <2> QED
    BY <2>1, QuotaKept
<1> QED
  BY <1>1, <1>2, <1>3

\* However many calls share a provider and however often each is tried again,
\* the provider is sent no more than its quota (http.go:207-210).
THEOREM QuotasHold == WeatherSpec => []ProviderQuotaHolds
<1>1. ASSUME QuotaInv PROVE ProviderQuotaHolds
  <2>1. ASSUME NEW p \in WeatherProviders PROVE requestsSent[p] <= Burst + Rate * clock
    <3>1. /\ requestsSent[p] \in Nat /\ bucket[p].tokens \in Nat /\ bucket[p].last \in Nat
          /\ bucket[p].last <= clock /\ clock \in Nat
          /\ requestsSent[p] + bucket[p].tokens <= Burst + Rate * bucket[p].last
      BY <1>1 DEF QuotaInv
    <3>2. Rate * bucket[p].last \in Nat /\ Rate * clock \in Nat
          /\ Rate * (clock - bucket[p].last) \in Nat
          /\ Rate * clock = Rate * bucket[p].last + Rate * (clock - bucket[p].last)
      BY <3>1, RateGrows
    <3>3. Burst \in Nat
      BY WeatherAssumption DEF WeatherAssumption
    <3> QED
      BY <3>1, <3>2, <3>3
  <2> QED
    BY <2>1 DEF ProviderQuotaHolds
<1>2. ASSUME QuotaInv, UNCHANGED weatherVars PROVE QuotaInv'
  <2>1. bucket' = bucket /\ requestsSent' = requestsSent /\ clock' = clock /\ clock \in Nat
    BY <1>2 DEF weatherVars, QuotaInv
  <2> QED
    BY <1>2, <2>1, QuotaKept
<1> QED
  BY <1>1, <1>2, QuotaInit, QuotaStep, PTL DEF WeatherSpec

-----------------------------------------------------------------------------
\* A handler: what it merged is valid as long as it says, and what it answered
\* was valid when it answered.
Names == {"none"} \union WeatherProviders \union {r.source : r \in WeatherRequests}
Kinds == {"none", "location", "alerts", "current", "hourly"} \union DOMAIN Ttl
HandlerType ==
    [at : {"idle", "turn", "lookup", "ask", "wait"}, request : WeatherRequests \union {NoRequest},
     todo : Seq(Names), provider : Names, kind : Kinds, asks : Seq(Kinds), attempt : Nat,
     parts : SUBSET Nat, status : Nat, dead : BOOLEAN, answer : [at : Nat, parts : SUBSET Nat]]

HandlerOk(h) ==
    /\ h \in HandlerType
    /\ \A u \in h.parts : h.status <= u
    /\ \A u \in h.answer.parts : h.answer.at < u
    /\ h.at # "idle" => h.request \in WeatherRequests
    /\ h.at \in {"lookup", "ask", "wait"} => h.kind \in DOMAIN Ttl

\* The cache holds what its order names, each with the moment it expires.
ReadingsOk ==
    /\ readingsOrder \in Seq(DOMAIN readings)
    /\ \A key \in DOMAIN readings : readings[key] \in Nat

FreshInv ==
    /\ clock \in Nat
    /\ DOMAIN call = WeatherCalls /\ call = [c \in WeatherCalls |-> call[c]]
    /\ \A c \in WeatherCalls : HandlerOk(call[c])
    /\ ReadingsOk

LEMMA IdleTyped == /\ IdleHandler \in HandlerType
                   /\ IdleHandler.at = "idle" /\ IdleHandler.parts = {}
                   /\ IdleHandler.answer.parts = {}
<1>1. NoAnswer \in [at : Nat, parts : SUBSET Nat] /\ NoAnswer.parts = {}
  BY DEF NoAnswer
<1>2. <<>> \in Seq(Names) /\ <<>> \in Seq(Kinds) /\ {} \in SUBSET Nat /\ 0 \in Nat
      /\ "none" \in Names /\ "none" \in Kinds
  BY DEF Names, Kinds
<1>3. FALSE \in BOOLEAN
  BY Zenon
<1> HIDE DEF NoAnswer
<1>4. IdleHandler \in HandlerType
  BY <1>1, <1>2, <1>3 DEF IdleHandler, HandlerType
<1> QED
  BY <1>1, <1>4 DEF IdleHandler

LEMMA IdleIsOk == ASSUME NEW n \in Nat, NEW U \in SUBSET Nat, \A u \in U : n < u
                  PROVE  HandlerOk([IdleHandler EXCEPT !.answer = [at |-> n, parts |-> U]])
<1>1. [at |-> n, parts |-> U] \in [at : Nat, parts : SUBSET Nat]
  OBVIOUS
<1> HIDE DEF IdleHandler
<1> QED
  BY <1>1, IdleTyped DEF HandlerOk, HandlerType

\* One handler is given a state that is in order.
LEMMA HandlerSet ==
    ASSUME FreshInv, NEW c \in WeatherCalls, NEW h, HandlerOk(h), call' = [call EXCEPT ![c] = h],
           clock' = clock, ReadingsOk'
    PROVE  FreshInv'
<1>1. DOMAIN call' = WeatherCalls /\ call'[c] = h
      /\ \A d \in WeatherCalls \ {c} : call'[d] = call[d]
  BY DEF FreshInv
<1>2. call' = [d \in WeatherCalls |-> call'[d]]
  BY DEF FreshInv
<1>3. ASSUME NEW d \in WeatherCalls PROVE HandlerOk(call'[d])
  BY <1>1 DEF FreshInv
<1> QED
  BY <1>1, <1>2, <1>3 DEF FreshInv, HandlerOk

LEMMA FreshInit == WeatherInit => FreshInv
<1> SUFFICES ASSUME WeatherInit PROVE FreshInv
  OBVIOUS
<1>2. HandlerOk(IdleHandler)
  BY IdleTyped DEF HandlerOk
<1>3. ReadingsOk
  <2>1. DOMAIN readings = {} /\ readingsOrder = <<>>
    BY DEF WeatherInit
  <2> QED
    BY <2>1 DEF ReadingsOk
<1> QED
  BY <1>2, <1>3 DEF WeatherInit, FreshInv

LEMMA AnswersOk ==
    ASSUME FreshInv, NEW c \in WeatherCalls, NEW U \in SUBSET Nat, \A u \in U : clock < u,
           AnswersWith(c, U), clock' = clock, ReadingsOk'
    PROVE  FreshInv'
  BY IdleIsOk, HandlerSet DEF AnswersWith, FreshInv

\* Back in turn: nothing is asked, what was merged stays.
LEMMA TurnIsOk ==
    ASSUME NEW h, HandlerOk(h), h.at # "idle"
    PROVE  HandlerOk([h EXCEPT !.at = "turn", !.asks = <<>>, !.attempt = 0])
<1>1. <<>> \in Seq(Kinds)
  OBVIOUS
<1> QED
  BY <1>1 DEF HandlerOk, HandlerType

LEMMA FailsOk ==
    ASSUME FreshInv, NEW c \in WeatherCalls, call[c].at # "idle", FailsWith(c), clock' = clock,
           ReadingsOk'
    PROVE  FreshInv'
<1>1. CASE AnswersWith(c, {})
  BY <1>1, AnswersOk DEF FreshInv
<1>2. CASE call' = [call EXCEPT ![c].at = "turn", ![c].asks = <<>>, ![c].attempt = 0]
  <2> DEFINE h == [call[c] EXCEPT !.at = "turn", !.asks = <<>>, !.attempt = 0]
  <2>1. HandlerOk(call[c])
    BY DEF FreshInv
  <2>2. HandlerOk(h)
    BY <2>1, TurnIsOk
  <2>3. call' = [call EXCEPT ![c] = h]
    BY <1>2 DEF FreshInv
  <2> HIDE DEF h
  <2> QED
    BY <2>2, <2>3, HandlerSet
<1> QED
  BY <1>1, <1>2 DEF FailsWith

\* What is obtained is valid from now on, and what was merged no longer than it.
LEMMA ObtainsOk ==
    ASSUME FreshInv, NEW c \in WeatherCalls, call[c].at # "idle", NEW until \in Nat, clock < until,
           Obtains(c, until), clock' = clock,
           ReadingsOk'
    PROVE  FreshInv'
<1> DEFINE turned == [call[c] EXCEPT !.at = "turn", !.asks = <<>>, !.attempt = 0]
           m == MergedUntil(c, until)
           h == [turned EXCEPT !.status = m, !.parts = @ \union {until}]
<1>1. HandlerOk(turned) /\ HandlerOk(call[c])
  BY TurnIsOk DEF FreshInv
<1>2. CASE call' = [call EXCEPT ![c] = turned]
  <2> HIDE DEF turned
  <2> QED
    BY <1>1, <1>2, HandlerSet
<1>3. CASE AnswersWith(c, {until})
  <2>1. {until} \in SUBSET Nat /\ \A u \in {until} : clock < u
    OBVIOUS
  <2> QED
    BY <1>3, <2>1, AnswersOk
<1>4. CASE call' = [call EXCEPT ![c] = h]
  <2>1. turned.parts = call[c].parts /\ turned.parts \in SUBSET Nat /\ call[c].status \in Nat
        /\ turned \in HandlerType /\ call[c] \in HandlerType
    BY <1>1 DEF HandlerOk, HandlerType
  <2>2. m \in Nat /\ m <= until /\ \A u \in call[c].parts : u \in Nat /\ m <= u
    BY <1>1, <2>1 DEF MergedUntil, HandlerOk, HandlerType
  <2> HIDE DEF m, turned
  <2>3. h \in HandlerType /\ h.parts = call[c].parts \union {until} /\ h.status = m
        /\ h.at = turned.at /\ h.answer = turned.answer /\ h.request = turned.request
        /\ h.kind = turned.kind
    BY <2>1, <2>2 DEF HandlerType
  <2>4. HandlerOk(h)
    BY <1>1, <2>2, <2>3 DEF HandlerOk
  <2> HIDE DEF h
  <2> QED
    BY <1>4, <2>4, HandlerSet
<1> QED
  BY <1>2, <1>3, <1>4 DEF Obtains

LEMMA SourcesAreNames == ASSUME NEW r \in WeatherRequests PROVE ProvidersFor(r) \in Seq(Names)
<1>1. r.source \in Names /\ {"openmeteo", "xiaomi", "accuweather"} \subseteq Names
  BY DEF Names, WeatherProviders
<1>2. /\ <<r.source>> \in Seq(Names) /\ <<>> \in Seq(Names)
      /\ <<"xiaomi", "accuweather">> \in Seq(Names)
      /\ <<"openmeteo", "xiaomi", "accuweather">> \in Seq(Names)
  BY <1>1
<1> QED
  BY <1>2 DEF ProvidersFor

LEMMA KindsAreKinds ==
    ASSUME NEW r \in WeatherRequests, NEW p
    PROVE  KindAt(p, r.capability) \in (DOMAIN Ttl) \union {"none"}
  BY WeatherAssumption DEF WeatherAssumption, KindAt

LEMMA FreshOfInvoke ==
    ASSUME FreshInv, NEW c \in WeatherCalls, InvokeWeather(c) PROVE FreshInv'
<1>1. PICK r \in WeatherRequests :
         call' = [call EXCEPT ![c] = [IdleHandler EXCEPT
                    !.request = r, !.todo = ProvidersFor(r),
                    !.at = IF r.named THEN "lookup" ELSE "turn",
                    !.provider = IF r.named THEN "openmeteo" ELSE "none",
                    !.kind = IF r.named THEN "geocode" ELSE "none"]]
  BY DEF InvokeWeather
<1> DEFINE at == IF r.named THEN "lookup" ELSE "turn"
           provider == IF r.named THEN "openmeteo" ELSE "none"
           kind == IF r.named THEN "geocode" ELSE "none"
           h == [IdleHandler EXCEPT !.request = r, !.todo = ProvidersFor(r),
                    !.at = at, !.provider = provider, !.kind = kind]
<1>2. /\ at \in {"turn", "lookup"} /\ provider \in Names /\ kind \in Kinds
      /\ at = "lookup" => kind \in DOMAIN Ttl
  BY WeatherAssumption DEF WeatherAssumption, Names, Kinds, WeatherProviders
<1>3. ProvidersFor(r) \in Seq(Names)
  BY SourcesAreNames
<1>4. call' = [call EXCEPT ![c] = h]
  BY <1>1
<1> HIDE DEF at, provider, kind, IdleHandler
<1>5. HandlerOk(h)
  BY <1>2, <1>3, IdleTyped DEF HandlerOk, HandlerType
<1>6. clock' = clock /\ readings' = readings /\ readingsOrder' = readingsOrder
  BY DEF InvokeWeather, clientVars
<1> HIDE DEF h
<1> QED
  BY <1>4, <1>5, <1>6, HandlerSet DEF FreshInv, ReadingsOk

LEMMA FreshOfExpire == ASSUME FreshInv, NEW c \in WeatherCalls, Expire(c) PROVE FreshInv'
<1> DEFINE h == [call[c] EXCEPT !.dead = TRUE]
<1>1. HandlerOk(call[c])
  BY DEF FreshInv, ReadingsOk
<1>2. TRUE \in BOOLEAN
  BY Zenon
<1>3. HandlerOk(h)
  BY <1>1, <1>2 DEF HandlerOk, HandlerType
<1>4. call' = [call EXCEPT ![c] = h] /\ clock' = clock
      /\ readings' = readings /\ readingsOrder' = readingsOrder
  BY DEF Expire, clientVars, FreshInv
<1> HIDE DEF h
<1> QED
  BY <1>3, <1>4, HandlerSet DEF FreshInv, ReadingsOk

LEMMA FreshOfNext == ASSUME FreshInv, NEW c \in WeatherCalls, NextProvider(c) PROVE FreshInv'
<1> DEFINE p == Head(call[c].todo)
           kind == KindAt(p, call[c].request.capability)
           at == IF kind = "none" THEN "turn" ELSE "lookup"
           h == [call[c] EXCEPT !.todo = Tail(@), !.provider = p, !.kind = kind, !.at = at]
<1>1. HandlerOk(call[c]) /\ call[c].at = "turn" /\ call[c].todo # <<>>
  BY DEF FreshInv, NextProvider
<1>2. call[c].todo \in Seq(Names) /\ call[c].request \in WeatherRequests /\ call[c] \in HandlerType
  BY <1>1 DEF HandlerOk, HandlerType
<1>3. p \in Names /\ Tail(call[c].todo) \in Seq(Names)
  BY <1>1, <1>2
<1>4. kind \in (DOMAIN Ttl) \union {"none"}
  BY <1>2, KindsAreKinds
<1>5. kind \in Kinds /\ at \in {"turn", "lookup"} /\ (at = "lookup" => kind \in DOMAIN Ttl)
  BY <1>4 DEF Kinds
<1>6. call' = [call EXCEPT ![c] = h] /\ clock' = clock
      /\ readings' = readings /\ readingsOrder' = readingsOrder
  BY DEF NextProvider, clientVars, FreshInv
<1> HIDE DEF p, kind, at
<1>7. HandlerOk(h)
  BY <1>1, <1>2, <1>3, <1>5 DEF HandlerOk, HandlerType
<1> HIDE DEF h
<1> QED
  BY <1>6, <1>7, HandlerSet DEF FreshInv, ReadingsOk

LEMMA FreshOfLast == ASSUME FreshInv, NEW c \in WeatherCalls, LastProvider(c) PROVE FreshInv'
<1>1. HandlerOk(call[c]) /\ clock \in Nat /\ clock' = clock
      /\ readings' = readings /\ readingsOrder' = readingsOrder
  BY DEF FreshInv, ReadingsOk, LastProvider, clientVars
<1>2. call[c].parts \in SUBSET Nat /\ call[c].status \in Nat
      /\ (clock < call[c].status => \A u \in call[c].parts : clock < u)
  BY <1>1 DEF HandlerOk, HandlerType
<1> DEFINE U == IF call[c].parts # {} /\ clock < call[c].status THEN call[c].parts ELSE {}
<1>3. U \in SUBSET Nat /\ \A u \in U : clock < u
  BY <1>2
<1>4. CASE AnswersWith(c, U)
  <2> HIDE DEF U
  <2> QED
    BY <1>1, <1>3, <1>4, AnswersOk DEF FreshInv, ReadingsOk
<1>5. CASE AnswersWith(c, {})
  BY <1>1, <1>5, AnswersOk DEF FreshInv, ReadingsOk
<1> QED
  BY <1>4, <1>5 DEF LastProvider

LEMMA FreshOfLookUp == ASSUME FreshInv, NEW c \in WeatherCalls, LookUp(c) PROVE FreshInv'
<1> DEFINE r == call[c].request
           key == Key(r, call[c].provider, call[c].kind)
           asks == RequestsOf(r, call[c].provider, call[c].kind)
           h == [call[c] EXCEPT !.at = "ask", !.attempt = 0, !.asks = asks]
<1>1. HandlerOk(call[c]) /\ call[c].at = "lookup" /\ clock' = clock
      /\ readings' = readings /\ readingsOrder' = readingsOrder
      /\ clock \in Nat /\ ReadingsOk'
  BY DEF FreshInv, ReadingsOk, LookUp, clientVars
<1>2. CASE GetWeather(key)
  <2>1. readings[key] \in Nat /\ clock < readings[key]
    BY <1>2 DEF GetWeather, FreshInv, ReadingsOk
  <2>2. CASE Obtains(c, readings[key])
    <3> HIDE DEF key
    <3> QED
      BY <1>1, <2>1, <2>2, ObtainsOk
  <2>3. CASE FailsWith(c)
    BY <1>1, <2>3, FailsOk
  <2> QED
    BY <1>2, <2>2, <2>3 DEF LookUp
<1>3. CASE ~GetWeather(key)
  <2>1. call[c].kind \in Kinds /\ call[c] \in HandlerType
    BY <1>1 DEF HandlerOk, HandlerType
  <2>2. asks \in Seq(Kinds)
    <3>1. {"location", "alerts", "current", "hourly"} \subseteq Kinds
      BY DEF Kinds
    <3> HIDE DEF Kinds
    <3>2. <<call[c].kind>> \in Seq(Kinds) /\ <<>> \in Seq(Kinds) /\ <<"location">> \in Seq(Kinds)
          /\ <<"alerts">> \in Seq(Kinds) /\ <<"current", "hourly">> \in Seq(Kinds)
      BY <2>1, <3>1
    <3>3. \A s, t \in Seq(Kinds) : s \o t \in Seq(Kinds)
      OBVIOUS
    <3> QED
      BY <3>2, <3>3 DEF RequestsOf
  <2>3. call' = [call EXCEPT ![c] = h]
    BY <1>3 DEF LookUp, FreshInv
  <2> HIDE DEF asks
  <2>4. HandlerOk(h)
    BY <1>1, <2>1, <2>2 DEF HandlerOk, HandlerType
  <2> HIDE DEF h
  <2> QED
    BY <1>1, <2>3, <2>4, HandlerSet
<1> QED
  BY <1>2, <1>3

LEMMA FreshOfAttempt == ASSUME FreshInv, NEW c \in WeatherCalls, Attempt(c) PROVE FreshInv'
<1> DEFINE h == [call[c] EXCEPT !.at = "wait"]
<1>1. HandlerOk(call[c]) /\ call[c].at = "ask" /\ clock' = clock
      /\ readings' = readings /\ readingsOrder' = readingsOrder
      /\ ReadingsOk'
  BY DEF FreshInv, ReadingsOk, Attempt
<1>2. HandlerOk(h)
  BY <1>1 DEF HandlerOk, HandlerType
<1>3. CASE FailsWith(c)
  BY <1>1, <1>3, FailsOk
<1>4. CASE call' = [call EXCEPT ![c].at = "wait"]
  <2>1. call' = [call EXCEPT ![c] = h]
    BY <1>4 DEF FreshInv, ReadingsOk
  <2> HIDE DEF h
  <2> QED
    BY <1>1, <1>2, <2>1, HandlerSet
<1> QED
  BY <1>3, <1>4 DEF Attempt

LEMMA KeptIsOk ==
    ASSUME ReadingsOk, NEW key, NEW until \in Nat, KeepUntil(key, until) PROVE ReadingsOk'
<1> DEFINE order == IF key \in DOMAIN readings THEN readingsOrder ELSE Append(readingsOrder, key)
           kept == IF Overfull(order) THEN Tail(order) ELSE order
           S == (DOMAIN readings) \union {key}
<1>1. order \in Seq(S) /\ (Overfull(order) => order # <<>>)
  <2>1. readingsOrder \in Seq(S) /\ key \in S
    BY DEF ReadingsOk
  <2> HIDE DEF S
  <2>2. order \in Seq(S)
    BY <2>1
  <2> HIDE DEF order
  <2> QED
    BY <2>2, WeatherAssumption DEF Overfull, WeatherAssumption
<1>2. kept \in Seq(S)
  <2> HIDE DEF order, S
  <2> QED
    BY <1>1
<1>3. /\ readingsOrder' = kept
      /\ readings' = [k \in ToSet(kept) |-> IF k = key THEN until ELSE readings[k]]
  BY DEF KeepUntil
<1> HIDE DEF kept
<1>4. ToSet(kept) \subseteq S /\ kept \in Seq(ToSet(kept))
  <2> HIDE DEF S
  <2>1. \A i \in 1 .. Len(kept) : kept[i] \in S
    BY <1>2
  <2>2. \A i \in 1 .. Len(kept) : kept[i] \in ToSet(kept)
    BY <1>2 DEF ToSet
  <2>3. kept \in [1 .. Len(kept) -> ToSet(kept)] /\ Len(kept) \in Nat
    BY <1>2, <2>2
  <2>4. kept \in Seq(ToSet(kept))
    BY <2>3, SeqDef
  <2> QED
    BY <1>2, <2>1, <2>4 DEF ToSet
<1>5. ASSUME NEW k \in ToSet(kept) PROVE readings'[k] \in Nat
  BY <1>3, <1>4 DEF ReadingsOk
<1> QED
  BY <1>3, <1>4, <1>5 DEF ReadingsOk

LEMMA FreshOfSucceed == ASSUME FreshInv, NEW c \in WeatherCalls, Succeed(c) PROVE FreshInv'
<1> DEFINE r == call[c].request
           key == Key(r, call[c].provider, call[c].kind)
           until == clock + Ttl[call[c].kind]
           h == [call[c] EXCEPT !.at = "ask", !.asks = Tail(@), !.attempt = 0]
<1>1. HandlerOk(call[c]) /\ call[c].at = "wait" /\ clock' = clock /\ clock \in Nat /\ ReadingsOk
  BY DEF FreshInv, Succeed
<1>2. until \in Nat /\ clock < until
  BY <1>1, WeatherAssumption DEF HandlerOk, WeatherAssumption
<1> HIDE DEF until, key
<1>3. CASE /\ Len(call[c].asks) > 1
           /\ call' = [call EXCEPT ![c].at = "ask", ![c].asks = Tail(@), ![c].attempt = 0]
           /\ IF Head(call[c].asks) = "location"
              THEN KeepUntil(Key(r, "accuweather", "location"), clock + Ttl["geocode"])
              ELSE UNCHANGED <<readings, readingsOrder>>
  <2>1. HandlerOk(h)
    <3>1. call[c] \in HandlerType /\ Tail(call[c].asks) \in Seq(Kinds)
      BY <1>1, <1>3 DEF HandlerOk, HandlerType
    <3> QED
      BY <1>1, <3>1 DEF HandlerOk, HandlerType
  <2>2. call' = [call EXCEPT ![c] = h]
    BY <1>3 DEF FreshInv
  <2>3. ReadingsOk'
    <3>1. clock + Ttl["geocode"] \in Nat
      BY <1>1, WeatherAssumption DEF WeatherAssumption
    <3> QED
      BY <1>1, <1>3, <3>1, KeptIsOk DEF ReadingsOk
  <2> HIDE DEF h
  <2> QED
    BY <1>1, <2>1, <2>2, <2>3, HandlerSet
<1>4. CASE /\ KeepUntil(key, until)
           /\ Obtains(c, until) \/ FailsWith(c)
  <2>1. ReadingsOk'
    BY <1>1, <1>2, <1>4, KeptIsOk
  <2> QED
    BY <1>1, <1>2, <1>4, <2>1, ObtainsOk, FailsOk
<1> QED
  BY <1>3, <1>4 DEF Succeed, key, until

LEMMA FreshOfFail == ASSUME FreshInv, NEW c \in WeatherCalls, FailAttempt(c) PROVE FreshInv'
<1> DEFINE h == [call[c] EXCEPT !.at = "ask", !.attempt = @ + 1]
<1>1. HandlerOk(call[c]) /\ call[c].at = "wait" /\ clock' = clock /\ ReadingsOk'
  BY DEF FreshInv, FailAttempt, clientVars, ReadingsOk
<1>2. CASE FailsWith(c)
  BY <1>1, <1>2, FailsOk
<1>3. CASE call' = [call EXCEPT ![c].at = "ask", ![c].attempt = @ + 1]
  <2>1. HandlerOk(h)
    <3>1. call[c] \in HandlerType
      BY <1>1 DEF HandlerOk
    <3>2. call[c].attempt + 1 \in Nat
      BY <3>1 DEF HandlerType
    <3>3. h \in HandlerType /\ h.at = "ask" /\ h.parts = call[c].parts /\ h.status = call[c].status
          /\ h.answer = call[c].answer /\ h.request = call[c].request /\ h.kind = call[c].kind
      BY <3>1, <3>2 DEF HandlerType
    <3> HIDE DEF h
    <3> QED
      BY <1>1, <3>3 DEF HandlerOk
  <2>2. call' = [call EXCEPT ![c] = h]
    BY <1>3 DEF FreshInv
  <2> HIDE DEF h
  <2> QED
    BY <1>1, <2>1, <2>2, HandlerSet
<1> QED
  BY <1>2, <1>3 DEF FailAttempt

LEMMA FreshStep == ASSUME FreshInv, WeatherNext PROVE FreshInv'
<1>1. CASE StartWeather \/ StopWeather \/ Tick
  <2>1. clock' \in Nat /\ call' = call /\ readings' = readings /\ readingsOrder' = readingsOrder
    BY <1>1 DEF StartWeather, StopWeather, Tick, clientVars, FreshInv
  <2> QED
    BY <2>1 DEF FreshInv, HandlerOk, ReadingsOk
<1>2. ASSUME NEW c \in WeatherCalls,
             \/ InvokeWeather(c) \/ Expire(c) \/ NextProvider(c) \/ LastProvider(c)
             \/ LookUp(c) \/ Attempt(c) \/ Succeed(c) \/ FailAttempt(c)
      PROVE  FreshInv'
  BY <1>2, FreshOfInvoke, FreshOfExpire, FreshOfNext, FreshOfLast, FreshOfLookUp, FreshOfAttempt,
     FreshOfSucceed, FreshOfFail
<1> QED
  BY <1>1, <1>2 DEF WeatherNext

\* Whatever an answer holds was valid when the answer was given, for any number
\* of calls that share the cache, wait for providers and merge alerts of several
\* of them (wx/service.go, wx/cache.go).
THEOREM AnswersStayFresh == WeatherSpec => []AnswersAreFresh
<1>1. ASSUME FreshInv PROVE AnswersAreFresh
  BY <1>1 DEF FreshInv, HandlerOk, AnswersAreFresh
<1>2. ASSUME FreshInv, UNCHANGED weatherVars PROVE FreshInv'
  BY <1>2 DEF FreshInv, HandlerOk, ReadingsOk, weatherVars
<1> QED
  BY <1>1, <1>2, FreshInit, FreshStep, PTL DEF WeatherSpec

-----------------------------------------------------------------------------
\* The bounds of the weather package: a request is retried so often at most, a
\* bucket is never overfull, and the cache keeps each key once, as many as fit.
AttemptsPart == \A c \in WeatherCalls : call[c].attempt \in 0 .. MaxRetries
BucketsPart == \A p \in WeatherProviders : bucket[p].tokens <= Burst
CachePart ==
    /\ ToSet(readingsOrder) = DOMAIN readings
    /\ Len(readingsOrder) <= CacheCapacity
    /\ \A i, j \in 1 .. Len(readingsOrder) : readingsOrder[i] = readingsOrder[j] => i = j
BoundsInv ==
    /\ clock \in 0 .. MaxTime /\ invocations \in 0 .. MaxInvocations
    /\ host \in {"loading", "ready", "failed", "stopped"}
    /\ AttemptsPart /\ BucketsPart /\ CachePart

LEMMA AttemptsZero ==
    ASSUME FreshInv, AttemptsPart, NEW c \in WeatherCalls, NEW h,
           call' = [call EXCEPT ![c] = h], h.attempt \in 0 .. MaxRetries
    PROVE  AttemptsPart'
<1>1. DOMAIN call = WeatherCalls
  BY DEF FreshInv
<1> QED
  BY <1>1 DEF AttemptsPart

LEMMA AttemptsOfEnd ==
    ASSUME FreshInv, AttemptsPart, NEW c \in WeatherCalls,
           \/ \E U : AnswersWith(c, U)
           \/ FailsWith(c)
           \/ \E until : Obtains(c, until)
    PROVE  AttemptsPart'
<1>0. call[c] \in HandlerType /\ DOMAIN call = WeatherCalls /\ 0 \in 0 .. MaxRetries
      /\ IdleHandler \in HandlerType /\ IdleHandler.attempt = 0
  BY IdleTyped, WeatherAssumption DEF FreshInv, HandlerOk, WeatherAssumption, IdleHandler
<1> DEFINE turned == [call[c] EXCEPT !.at = "turn", !.asks = <<>>, !.attempt = 0]
<1>1. turned.attempt = 0
      /\ \A m, P : [turned EXCEPT !.status = m, !.parts = P].attempt = 0
  BY <1>0 DEF HandlerType
<1>2. ASSUME NEW U, AnswersWith(c, U) PROVE AttemptsPart'
  <2> DEFINE h == [IdleHandler EXCEPT !.answer = [at |-> clock, parts |-> U]]
  <2> HIDE DEF IdleHandler
  <2>1. h.attempt = 0
    BY <1>0 DEF HandlerType
  <2>2. call' = [call EXCEPT ![c] = h]
    BY <1>2 DEF AnswersWith
  <2> HIDE DEF h
  <2> QED
    BY <1>0, <2>1, <2>2, AttemptsZero
<1>3. CASE call' = [call EXCEPT ![c] = turned]
  <2> HIDE DEF turned
  <2> QED
    BY <1>0, <1>1, <1>3, AttemptsZero
<1>4. ASSUME FailsWith(c) PROVE AttemptsPart'
  <2>1. call' = [call EXCEPT ![c].at = "turn", ![c].asks = <<>>, ![c].attempt = 0]
        => call' = [call EXCEPT ![c] = turned]
    BY <1>0
  <2> QED
    BY <1>2, <1>3, <1>4, <2>1 DEF FailsWith
<1>5. ASSUME NEW until, Obtains(c, until) PROVE AttemptsPart'
  <2> DEFINE h == [turned EXCEPT !.status = MergedUntil(c, until),
                                 !.parts = turned.parts \union {until}]
  <2>1. h.attempt = 0
    BY <1>1
  <2>2. CASE call' = [call EXCEPT ![c] = h]
    <3> HIDE DEF h
    <3> QED
      BY <1>0, <2>1, <2>2, AttemptsZero
  <2> QED
    BY <1>2, <1>3, <1>5, <2>2 DEF Obtains
<1> QED
  BY <1>2, <1>4, <1>5

LEMMA AttemptsStep == ASSUME FreshInv, AttemptsPart, WeatherNext PROVE AttemptsPart'
<1>0. DOMAIN call = WeatherCalls /\ 0 \in 0 .. MaxRetries /\ MaxRetries \in Nat
      /\ \A c \in WeatherCalls : call[c] \in HandlerType
  BY WeatherAssumption DEF FreshInv, HandlerOk, WeatherAssumption
<1>1. CASE call' = call
  BY <1>1 DEF AttemptsPart
<1>2. ASSUME NEW c \in WeatherCalls, InvokeWeather(c) PROVE AttemptsPart'
  <2>1. PICK r \in WeatherRequests :
         call' = [call EXCEPT ![c] = [IdleHandler EXCEPT
                    !.request = r, !.todo = ProvidersFor(r),
                    !.at = IF r.named THEN "lookup" ELSE "turn",
                    !.provider = IF r.named THEN "openmeteo" ELSE "none",
                    !.kind = IF r.named THEN "geocode" ELSE "none"]]
    BY <1>2 DEF InvokeWeather
  <2>2. IdleHandler \in HandlerType /\ IdleHandler.attempt = 0
    BY IdleTyped DEF IdleHandler
  <2> HIDE DEF IdleHandler
  <2> QED
    BY <1>0, <2>1, <2>2 DEF AttemptsPart, HandlerType
<1>3. ASSUME NEW c \in WeatherCalls, Expire(c) \/ NextProvider(c) PROVE AttemptsPart'
  <2>1. CASE Expire(c)
    BY <1>0, <2>1 DEF Expire, AttemptsPart, HandlerType
  <2>2. CASE NextProvider(c)
    <3> DEFINE p == Head(call[c].todo)
               kind == KindAt(p, call[c].request.capability)
               at == IF kind = "none" THEN "turn" ELSE "lookup"
               h == [call[c] EXCEPT !.todo = Tail(@), !.provider = p, !.kind = kind, !.at = at]
    <3>1. call' = [call EXCEPT ![c] = h]
      BY <2>2 DEF NextProvider
    <3>2. h.attempt = call[c].attempt
      BY <1>0 DEF HandlerType
    <3> HIDE DEF h
    <3> QED
      BY <1>0, <3>1, <3>2 DEF AttemptsPart
  <2> QED
    BY <1>3, <2>1, <2>2
<1>4. ASSUME NEW c \in WeatherCalls, LastProvider(c) PROVE AttemptsPart'
  BY <1>4, AttemptsOfEnd DEF LastProvider
<1>5. ASSUME NEW c \in WeatherCalls, LookUp(c) PROVE AttemptsPart'
  <2>1. CASE FailsWith(c) \/ \E until : Obtains(c, until)
    BY <2>1, AttemptsOfEnd
  <2>2. ASSUME NEW q, call' = [call EXCEPT ![c].at = "ask", ![c].attempt = 0, ![c].asks = q]
        PROVE  AttemptsPart'
    BY <1>0, <2>2 DEF AttemptsPart, HandlerType
  <2> QED
    BY <1>5, <2>1, <2>2 DEF LookUp
<1>6. ASSUME NEW c \in WeatherCalls, Attempt(c) PROVE AttemptsPart'
  <2>1. CASE FailsWith(c)
    BY <2>1, AttemptsOfEnd
  <2>2. CASE call' = [call EXCEPT ![c].at = "wait"]
    BY <1>0, <2>2 DEF AttemptsPart, HandlerType
  <2> QED
    BY <1>6, <2>1, <2>2 DEF Attempt
<1>7. ASSUME NEW c \in WeatherCalls, Succeed(c) PROVE AttemptsPart'
  <2>1. CASE FailsWith(c) \/ \E until : Obtains(c, until)
    BY <2>1, AttemptsOfEnd
  <2>2. CASE call' = [call EXCEPT ![c].at = "ask", ![c].asks = Tail(@), ![c].attempt = 0]
    BY <1>0, <2>2 DEF AttemptsPart, HandlerType
  <2> QED
    BY <1>7, <2>1, <2>2 DEF Succeed
<1>8. ASSUME NEW c \in WeatherCalls, FailAttempt(c) PROVE AttemptsPart'
  <2>1. CASE FailsWith(c)
    BY <2>1, AttemptsOfEnd
  <2>2. CASE /\ call[c].attempt < MaxRetries
             /\ call' = [call EXCEPT ![c].at = "ask", ![c].attempt = @ + 1]
    <3>1. call[c].attempt + 1 \in 0 .. MaxRetries
      BY <1>0, <2>2 DEF AttemptsPart
    <3> QED
      BY <1>0, <2>2, <3>1 DEF AttemptsPart, HandlerType
  <2> QED
    BY <1>8, <2>1, <2>2 DEF FailAttempt
<1>9. CASE StartWeather \/ StopWeather \/ Tick
  BY <1>1, <1>9 DEF StartWeather, StopWeather, Tick
<1> QED
  BY <1>2, <1>3, <1>4, <1>5, <1>6, <1>7, <1>8, <1>9 DEF WeatherNext

LEMMA BucketsStep ==
    ASSUME QuotaInv, BucketsPart, WeatherNext PROVE BucketsPart'
<1>0. bucket \in [WeatherProviders -> [tokens : Nat, last : Nat]] /\ Burst \in Nat
  BY WeatherAssumption DEF QuotaInv, WeatherAssumption
<1>1. CASE bucket' = bucket
  BY <1>1 DEF BucketsPart
<1>2. ASSUME NEW p, NEW n \in {0, 1}, NEW l, Refilled(p) - n <= Burst,
             bucket' = [bucket EXCEPT ![p] = [tokens |-> Refilled(p) - n, last |-> l]]
      PROVE  BucketsPart'
  <2> DEFINE b == [tokens |-> Refilled(p) - n, last |-> l]
  <2>1. b.tokens <= Burst
    BY <1>2
  <2>2. bucket' = [bucket EXCEPT ![p] = b]
    BY <1>2
  <2> HIDE DEF b
  <2> QED
    BY <1>0, <2>1, <2>2 DEF BucketsPart
<1>3. ASSUME NEW c \in WeatherCalls, Attempt(c) PROVE BucketsPart'
  <2> DEFINE p == call[c].provider
  <2>1. CASE p \notin WeatherProviders
    <3>1. bucket' = bucket
      BY <1>0, <1>3, <2>1 DEF Attempt
    <3> QED
      BY <1>1, <3>1
  <2>2. CASE p \in WeatherProviders
    <3>1. Refilled(p) \in Nat /\ Refilled(p) <= Burst
      <4>1. bucket[p].tokens \in Nat /\ bucket[p].last \in Nat /\ bucket[p].last <= clock /\ clock \in Nat
        BY <2>2 DEF QuotaInv
      <4>2. Rate * (clock - bucket[p].last) \in Nat
        BY <4>1, RateGrows
      <4> QED
        BY <1>0, <4>1, <4>2 DEF Refilled
    <3>2. \A n \in {0, 1} : Refilled(p) - n <= Burst
      BY <1>0, <3>1
    <3>3. Refilled(p) - 0 = Refilled(p)
      BY <3>1
    <3>4. CASE bucket' = [bucket EXCEPT ![p] = [tokens |-> Refilled(p), last |-> clock]]
      BY <1>2, <3>2, <3>3, <3>4
    <3>5. CASE bucket' = [bucket EXCEPT ![p] = [tokens |-> Refilled(p) - 1, last |-> clock]]
      BY <1>2, <3>2, <3>5
    <3> HIDE DEF p
    <3> QED
      BY <1>1, <1>3, <3>4, <3>5 DEF Attempt, TokensTaken, p
  <2> QED
    BY <2>1, <2>2
<1>4. ASSUME ~\E c \in WeatherCalls : Attempt(c) PROVE BucketsPart'
  <2>1. bucket' = bucket
    BY <1>4 DEF WeatherNext, StartWeather, StopWeather, InvokeWeather, Expire, NextProvider,
                LastProvider, LookUp, Succeed, FailAttempt, Tick, clientVars
  <2> QED
    BY <1>1, <2>1
<1> QED
  BY <1>3, <1>4

\* Putting a key keeps each key once, and no more keys than fit.
LEMMA CacheOfPut ==
    ASSUME ReadingsOk, CachePart, NEW key, NEW until, KeepUntil(key, until) PROVE CachePart'
<1> DEFINE order == IF key \in DOMAIN readings THEN readingsOrder ELSE Append(readingsOrder, key)
           kept == IF Overfull(order) THEN Tail(order) ELSE order
           S == (DOMAIN readings) \union {key}
<1>0. CacheCapacity \in Nat \ {0}
  BY WeatherAssumption DEF WeatherAssumption
<1>1. /\ order \in Seq(S) /\ Len(order) <= CacheCapacity + 1
      /\ \A i, j \in 1 .. Len(order) : order[i] = order[j] => i = j
  <2>1. readingsOrder \in Seq(S) /\ key \in S
    BY DEF ReadingsOk
  <2>2. key \notin DOMAIN readings => \A i \in 1 .. Len(readingsOrder) : readingsOrder[i] # key
    BY <2>1 DEF CachePart, ToSet
  <2>3. Len(readingsOrder) \in Nat
    BY <2>1, LenProperties
  <2> HIDE DEF S
  <2>4. CASE key \in DOMAIN readings
    BY <1>0, <2>1, <2>3, <2>4 DEF CachePart
  <2>5. CASE key \notin DOMAIN readings
    <3>1. /\ order = Append(readingsOrder, key) /\ order \in Seq(S)
          /\ Len(order) = Len(readingsOrder) + 1 /\ order[Len(readingsOrder) + 1] = key
          /\ \A i \in 1 .. Len(readingsOrder) : order[i] = readingsOrder[i]
      BY <2>1, <2>5
    <3> HIDE DEF order
    <3>2. ASSUME NEW i \in 1 .. Len(order), NEW j \in 1 .. Len(order), order[i] = order[j]
          PROVE  i = j
      <4>1. \A k \in 1 .. Len(order) : k \in 1 .. Len(readingsOrder) \/ k = Len(readingsOrder) + 1
        BY <2>3, <3>1
      <4> QED
        BY <2>2, <2>3, <2>5, <3>1, <3>2, <4>1 DEF CachePart
    <3> QED
      BY <1>0, <2>3, <3>1, <3>2 DEF CachePart
  <2> QED
    BY <2>4, <2>5
<1>2. /\ readingsOrder' = kept
      /\ readings' = [k \in ToSet(kept) |-> IF k = key THEN until ELSE readings[k]]
  BY DEF KeepUntil
<1>3. /\ Len(kept) <= CacheCapacity
      /\ \A i, j \in 1 .. Len(kept) : kept[i] = kept[j] => i = j
  <2> HIDE DEF order, S
  <2>1. Len(order) \in Nat
    BY <1>1, LenProperties
  <2>2. CASE ~Overfull(order)
    BY <1>0, <1>1, <2>1, <2>2 DEF Overfull
  <2>3. CASE Overfull(order)
    <3>1. order # <<>> /\ Len(order) = CacheCapacity + 1
      BY <1>0, <1>1, <2>1, <2>3 DEF Overfull
    <3>2. /\ kept = Tail(order) /\ Len(kept) = CacheCapacity
          /\ \A i \in 1 .. Len(kept) : kept[i] = order[i + 1] /\ i + 1 \in 1 .. Len(order)
      BY <1>0, <1>1, <2>3, <3>1
    <3> HIDE DEF kept
    <3> QED
      BY <1>0, <1>1, <3>2
  <2> QED
    BY <2>2, <2>3
<1> HIDE DEF kept
<1> QED
  BY <1>2, <1>3 DEF CachePart

LEMMA CacheStep == ASSUME FreshInv, CachePart, WeatherNext PROVE CachePart'
<1>1. CASE readings' = readings /\ readingsOrder' = readingsOrder
  BY <1>1 DEF CachePart
<1>2. ASSUME NEW c \in WeatherCalls, Succeed(c) PROVE CachePart'
  <2>1. ReadingsOk
    BY DEF FreshInv
  <2>2. \/ readings' = readings /\ readingsOrder' = readingsOrder
        \/ \E key, until : KeepUntil(key, until)
    BY <1>2 DEF Succeed
  <2> QED
    BY <1>1, <2>1, <2>2, CacheOfPut
<1>3. ASSUME ~\E c \in WeatherCalls : Succeed(c) PROVE CachePart'
  BY <1>1, <1>3 DEF WeatherNext, StartWeather, StopWeather, InvokeWeather, Expire, NextProvider,
                    LastProvider, LookUp, Attempt, FailAttempt, Tick, clientVars
<1> QED
  BY <1>2, <1>3

LEMMA BoundsStep ==
    ASSUME FreshInv, QuotaInv, BoundsInv, [WeatherNext]_weatherVars PROVE BoundsInv'
<1>1. CASE UNCHANGED weatherVars
  BY <1>1 DEF weatherVars, BoundsInv, AttemptsPart, BucketsPart, CachePart
<1>2. CASE WeatherNext
  <2>1. AttemptsPart' /\ BucketsPart' /\ CachePart'
    BY <1>2, AttemptsStep, BucketsStep, CacheStep DEF BoundsInv
  <2>2. /\ clock' \in 0 .. MaxTime /\ invocations' \in 0 .. MaxInvocations
        /\ host' \in {"loading", "ready", "failed", "stopped"}
    <3>0. {MaxTime, MaxInvocations} \subseteq Nat
      BY WeatherAssumption DEF WeatherAssumption
    <3>1. CASE Tick \/ StartWeather \/ StopWeather
      BY <3>0, <3>1 DEF BoundsInv, StartWeather, StopWeather, Tick
    <3>2. ASSUME NEW c \in WeatherCalls, InvokeWeather(c)
          PROVE  /\ clock' \in 0 .. MaxTime /\ invocations' \in 0 .. MaxInvocations
                 /\ host' \in {"loading", "ready", "failed", "stopped"}
      <4>1. /\ clock' = clock /\ invocations' = invocations + 1 /\ host' = host
            /\ invocations < MaxInvocations
        BY <3>2 DEF InvokeWeather
      <4> QED
        BY <3>0, <4>1 DEF BoundsInv
    <3>3. ASSUME NEW c \in WeatherCalls,
                 \/ Expire(c) \/ NextProvider(c) \/ LastProvider(c) \/ LookUp(c) \/ Attempt(c)
                 \/ Succeed(c) \/ FailAttempt(c)
          PROVE  clock' = clock /\ invocations' = invocations /\ host' \in {host, "failed"}
      BY <3>3 DEF Expire, NextProvider, LastProvider, LookUp, Attempt, Succeed, FailAttempt
    <3> QED
      BY <1>2, <3>1, <3>2, <3>3 DEF WeatherNext, BoundsInv
  <2> QED
    BY <2>1, <2>2 DEF BoundsInv
<1> QED
  BY <1>1, <1>2

\* The order without repetition has as many entries as the cache.
LEMMA CacheIsCounted ==
    ASSUME ReadingsOk, CachePart PROVE Len(readingsOrder) = Cardinality(DOMAIN readings)
<1> DEFINE n == Len(readingsOrder)
<1>1. n \in Nat /\ readingsOrder \in [1 .. n -> DOMAIN readings]
  BY LenProperties DEF ReadingsOk
<1>2. readingsOrder \in Surjection(1 .. n, DOMAIN readings)
  BY <1>1 DEF CachePart, ToSet, Surjection
<1>3. readingsOrder \in Injection(1 .. n, DOMAIN readings)
  BY <1>1 DEF CachePart, Injection, IsInjective
<1>4. IsFiniteSet(1 .. n) /\ Cardinality(1 .. n) = n
  BY <1>1, FS_Interval
<1> QED
  BY <1>2, <1>3, <1>4, FS_Surjection

\* No request is retried more than MaxRetries times, no bucket holds more than
\* Burst tokens, and the cache holds at most CacheCapacity entries, each of them
\* once in its order (wx/http.go, wx/cache.go), however calls share them.
THEOREM WeatherTypesHold == WeatherSpec => []WeatherTypeOK
<1>1. WeatherInit => BoundsInv
  <2> SUFFICES ASSUME WeatherInit PROVE BoundsInv
    OBVIOUS
  <2>1. IdleHandler.attempt = 0
    BY DEF IdleHandler
  <2> HIDE DEF IdleHandler
  <2>2. CachePart
    BY WeatherAssumption DEF WeatherAssumption, WeatherInit, CachePart, ToSet
  <2>3. Burst \in Nat
    BY WeatherAssumption DEF WeatherAssumption
  <2> QED
    BY <2>1, <2>2, <2>3, WeatherAssumption
       DEF WeatherAssumption, WeatherInit, BoundsInv, AttemptsPart, BucketsPart
<1>2. FreshInv /\ QuotaInv /\ BoundsInv /\ [WeatherNext]_weatherVars => BoundsInv'
  BY BoundsStep
<1>3. FreshInv /\ QuotaInv /\ BoundsInv => WeatherTypeOK
  <2> SUFFICES ASSUME FreshInv, QuotaInv, BoundsInv PROVE WeatherTypeOK
    OBVIOUS
  <2>1. \A c \in WeatherCalls : call[c].at \in {"idle", "turn", "lookup", "ask", "wait"}
    BY DEF FreshInv, HandlerOk, HandlerType
  <2>2. \A p \in WeatherProviders : bucket[p].tokens \in 0 .. Burst /\ bucket[p].last \in 0 .. clock
    BY WeatherAssumption DEF WeatherAssumption, QuotaInv, BoundsInv, BucketsPart
  <2>3. Len(readingsOrder) = Cardinality(DOMAIN readings)
    BY CacheIsCounted DEF FreshInv, BoundsInv
  <2> QED
    BY <2>1, <2>2, <2>3 DEF BoundsInv, AttemptsPart, CachePart, WeatherTypeOK
<1>4. ASSUME FreshInv, UNCHANGED weatherVars PROVE FreshInv'
  BY <1>4 DEF FreshInv, HandlerOk, ReadingsOk, weatherVars
<1>5. ASSUME QuotaInv, UNCHANGED weatherVars PROVE QuotaInv'
  <2>1. bucket' = bucket /\ requestsSent' = requestsSent /\ clock' = clock /\ clock \in Nat
    BY <1>5 DEF weatherVars, QuotaInv
  <2> QED
    BY <1>5, <2>1, QuotaKept
<1> QED
  BY <1>1, <1>2, <1>3, <1>4, <1>5, FreshInit, FreshStep, QuotaInit, QuotaStep, PTL DEF WeatherSpec
=============================================================================
