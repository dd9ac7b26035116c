------------------------------ MODULE Timetable -------------------------------
(* The timetable app: documents for timetables, a collection of courses for *)
(* each, and one document that points at the active timetable.  The store   *)
(* has no transaction over several documents and no lock: a call is a       *)
(* series of reads and writes of single documents, any of which may be its  *)
(* last (the statement fails, the guest is cut off, the process dies), and  *)
(* calls of one user interleave, as each has a guest of its own.            *)
EXTENDS Naturals, FiniteSets

CONSTANTS Tables,         \* identifiers of timetables
          NoTable,
          TimetableCalls, \* calls of the user that may be under way at once
          Imported,       \* courses of an import: 1..Imported, in this order
          CoursePage,     \* documents of one page of a deletion
          MaxTables,      \* timetables of a user
          MaxCourses      \* courses of a timetable

ASSUME TimetableAssumption ==
    /\ NoTable \notin Tables
    /\ Imported \in Nat \ {0} /\ CoursePage \in Nat \ {0} /\ MaxTables \in Nat \ {0}
    /\ MaxCourses \in Nat /\ Imported <= MaxCourses

VARIABLES
    source,    \* [Tables -> absent | local | import]: the timetable documents
    courses,   \* [Tables -> SUBSET Courses]: also of timetables that are gone
    pointer,   \* the active timetable
    edit,      \* [TimetableCalls -> [op, table, active, at, source, left, more]]
    touched,   \* timetables edited or begun to be deleted since their import
    crossed    \* timetables one of whose deletions or imports another call crossed

timetableVars == <<source, courses, pointer, edit, touched, crossed>>

\* 0 is a course the user enters.
Courses == 0..Imported

\* A call: what it is, where it is, and what it still has to do.
NewEdit(op, t, active, place) ==
    [op |-> op, table |-> t, active |-> active, at |-> place,
     source |-> "absent", left |-> {}, more |-> FALSE]
NoEdit == NewEdit("none", NoTable, "as is", "none")

TimetableInit ==
    /\ source = [t \in Tables |-> "absent"]
    /\ courses = [t \in Tables |-> {}]
    /\ pointer = NoTable /\ touched = {} /\ crossed = {}
    /\ edit = [c \in TimetableCalls |-> NoEdit]

Exists(t) == source[t] # "absent"

\* A deletion crosses what points at the timetable or imports it, an import what
\* imports it as well or writes its document back.
Disturbs(e, f) ==
    \/ e.op = "delete" /\ (f.active = "yes" \/ f.op = "import")
    \/ e.op = "import" /\ f.op \in {"import", "update"}

Clash(e, f) == e.table = f.table /\ (Disturbs(e, f) \/ Disturbs(f, e))

-----------------------------------------------------------------------------
TableOf(c) == edit[c].table
EditAt(c, place) == edit[c].at = place

EditBegins(c, call) ==
    /\ edit[c] = NoEdit
    /\ edit' = [edit EXCEPT ![c] = call]
    /\ crossed' = IF \E d \in TimetableCalls : Clash(call, edit[d])
                  THEN crossed \union {call.table} ELSE crossed

EditGoesOn(c, call) == edit' = [edit EXCEPT ![c] = call] /\ UNCHANGED crossed
EditGoesTo(c, place) == EditGoesOn(c, [edit[c] EXCEPT !.at = place])
EditEnds(c) == EditGoesOn(c, NoEdit)
TablesStay == UNCHANGED <<source, courses, pointer, touched>>

CourseInTurn(c, i) == i \in edit[c].left /\ \A j \in edit[c].left : i <= j
WithoutCourse(c, i, last, place) ==
    [edit[c] EXCEPT !.left = @ \ {i}, !.at = IF edit[c].left = {i} THEN last ELSE place]

-----------------------------------------------------------------------------
(* Timetables and the pointer.  A call begins with a read. *)

BeginCreate(c, t, active) ==
    /\ ~Exists(t) /\ EditBegins(c, NewEdit("create", t, active, "count"))
    /\ TablesStay

BeginUpdate(c, t, active) ==
    /\ Exists(t)
    /\ EditBegins(c, [NewEdit("update", t, active, "document") EXCEPT !.source = source[t]])
    /\ TablesStay

BeginActivate(c, t) ==
    /\ Exists(t) /\ EditBegins(c, NewEdit("activate", t, "yes", "pointer"))
    /\ TablesStay

CountTables(c) ==
    /\ EditAt(c, "count")
    /\ IF Cardinality({t \in Tables : Exists(t)}) >= MaxTables
       THEN EditEnds(c)
       ELSE IF edit[c].op = "create"
       THEN EditGoesTo(c, "document")
       ELSE EditGoesOn(c, [edit[c] EXCEPT !.at = "write", !.left = 1..Imported])
    /\ TablesStay

\* The document of a timetable: a new one, the imported one, or the one that was
\* read, under its new name.  The pointer comes after it.
PutTable(c) ==
    /\ EditAt(c, "document")
    /\ source' = [source EXCEPT ![TableOf(c)] =
                    CASE edit[c].op = "create" -> "local"
                      [] edit[c].op = "import" -> "import"
                      [] OTHER -> edit[c].source]
    /\ IF edit[c].active = "as is" THEN EditEnds(c) ELSE EditGoesTo(c, "pointer")
    /\ UNCHANGED <<courses, pointer, touched>>

PutPointer(c) ==
    /\ EditAt(c, "pointer") /\ edit[c].active = "yes"
    /\ pointer' = TableOf(c) /\ EditEnds(c)
    /\ UNCHANGED <<source, courses, touched>>

\* An update that deactivates, and a deletion: the pointer is deleted if it was
\* found to be at this timetable.
AfterPointer(c) == IF edit[c].op = "delete" THEN EditGoesTo(c, "list") ELSE EditEnds(c)
ReadPointer(c) ==
    /\ EditAt(c, "pointer") /\ edit[c].active = "no"
    /\ IF pointer = TableOf(c) THEN EditGoesTo(c, "clear") ELSE AfterPointer(c)
    /\ TablesStay

DropPointer(c) ==
    /\ EditAt(c, "clear")
    /\ pointer' = NoTable /\ AfterPointer(c)
    /\ UNCHANGED <<source, courses, touched>>

-----------------------------------------------------------------------------
(* A deletion: the pointer, the courses, and the timetable at last. *)

\* Mutant of BeginDelete: the pointer is forgotten.
BeginDeleteAtCourses(c, t) ==
    /\ EditBegins(c, NewEdit("delete", t, "no", "list"))
    /\ touched' = touched \union {t}
    /\ UNCHANGED <<source, courses, pointer>>
BeginDelete(c, t) ==
    /\ EditBegins(c, NewEdit("delete", t, "no", "pointer"))
    /\ touched' = touched \union {t}
    /\ UNCHANGED <<source, courses, pointer>>

\* deleteCollection, of a deletion or of an import: a page is listed, its
\* documents are deleted one by one, and the next page is listed if it was full.
AfterCourses(c) == IF edit[c].op = "delete" THEN "table" ELSE "count"
ListCourses(c) ==
    /\ EditAt(c, "list")
    /\ LET all == courses[TableOf(c)]
           page == {i \in all : Cardinality({j \in all : j < i}) < CoursePage}
       IN  EditGoesOn(c, [edit[c] EXCEPT
                !.left = page,
                !.at = IF all = {} THEN AfterCourses(c) ELSE "drop",
                !.more = Cardinality(all) >= CoursePage])
    /\ TablesStay

DropCourse(c, i) ==
    /\ EditAt(c, "drop") /\ CourseInTurn(c, i)
    /\ courses' = [courses EXCEPT ![TableOf(c)] = @ \ {i}]
    /\ EditGoesOn(c, WithoutCourse(c, i, IF edit[c].more THEN "list" ELSE AfterCourses(c), "drop"))
    /\ UNCHANGED <<source, pointer, touched>>

DropTable(c) ==
    /\ EditAt(c, "table")
    /\ source' = [source EXCEPT ![TableOf(c)] = "absent"]
    /\ EditEnds(c)
    /\ UNCHANGED <<courses, pointer, touched>>

-----------------------------------------------------------------------------
(* Courses.  Only a call that creates one asks for the timetable. *)

BeginCourse(c, t, i) ==
    /\ Exists(t) /\ EditBegins(c, [NewEdit("course", t, "as is", "look") EXCEPT !.left = {i}])
    /\ TablesStay

LookForCourse(c) ==
    /\ EditAt(c, "look") /\ edit[c].left \intersect courses[TableOf(c)] = {}
    /\ EditGoesTo(c, "count courses")
    /\ TablesStay

CountCourses(c) ==
    /\ EditAt(c, "count courses") /\ Cardinality(courses[TableOf(c)]) < MaxCourses
    /\ EditGoesTo(c, "put")
    /\ TablesStay

BeginChange(c, t, i) ==
    /\ i \in courses[t]
    /\ EditBegins(c, [NewEdit("change", t, "as is", "put") EXCEPT !.left = {i}])
    /\ TablesStay

PutCourse(c, i) ==
    /\ EditAt(c, "put") /\ CourseInTurn(c, i)
    /\ courses' = [courses EXCEPT ![TableOf(c)] = @ \union {i}]
    /\ touched' = touched \union {TableOf(c)}
    /\ EditEnds(c)
    /\ UNCHANGED <<source, pointer>>

\* deleteCourse is one statement.
DeleteCourse(t, i) ==
    /\ i \in courses[t]
    /\ courses' = [courses EXCEPT ![t] = @ \ {i}]
    /\ touched' = touched \union {t}
    /\ UNCHANGED <<source, pointer, edit, crossed>>

-----------------------------------------------------------------------------
(* An import: what an interrupted one has left is cleared, then the courses *)
(* are written one by one, the timetable, and the pointer.                  *)

BeginImport(c, t, active) ==
    /\ ~Exists(t) /\ EditBegins(c, NewEdit("import", t, active, "list"))
    /\ touched' = touched \ {t}
    /\ UNCHANGED <<source, courses, pointer>>

WriteCourse(c, i) ==
    /\ EditAt(c, "write") /\ CourseInTurn(c, i)
    /\ courses' = [courses EXCEPT ![TableOf(c)] = @ \union {i}]
    /\ EditGoesOn(c, WithoutCourse(c, i, "document", "write"))
    /\ UNCHANGED <<source, pointer, touched>>

\* A call ends where it is: it refuses, or is cut off.
EditFails(c) == edit[c] # NoEdit /\ EditEnds(c) /\ TablesStay

TimetableNext ==
    \/ \E c \in TimetableCalls :
          \/ CountTables(c) \/ PutTable(c) \/ PutPointer(c) \/ ReadPointer(c)
          \/ DropPointer(c) \/ ListCourses(c) \/ DropTable(c) \/ LookForCourse(c)
          \/ CountCourses(c) \/ EditFails(c)
          \/ \E i \in Courses : DropCourse(c, i) \/ PutCourse(c, i) \/ WriteCourse(c, i)
          \/ \E t \in Tables :
                \/ \E active \in {"as is", "yes"} : BeginCreate(c, t, active)
                                                    \/ BeginImport(c, t, active)
                \/ \E active \in {"as is", "yes", "no"} : BeginUpdate(c, t, active)
                \/ BeginActivate(c, t) \/ BeginDelete(c, t)
                \/ \E i \in Courses : BeginCourse(c, t, i) \/ BeginChange(c, t, i)
    \/ \E t \in Tables, i \in Courses : DeleteCourse(t, i)

TimetableSpec == TimetableInit /\ [][TimetableNext]_timetableVars

-----------------------------------------------------------------------------
\* Every variable stays in its domain.
TimetableTypeOK ==
    /\ source \in [Tables -> {"absent", "local", "import"}]
    /\ courses \in [Tables -> SUBSET Courses]
    /\ pointer \in Tables \union {NoTable}
    /\ edit \in [TimetableCalls ->
                   [op : {"none", "create", "update", "activate", "delete", "course",
                          "change", "import"},
                    table : Tables \union {NoTable}, active : {"as is", "yes", "no"},
                    at : {"none", "count", "document", "pointer", "clear", "list", "drop",
                          "table", "look", "count courses", "put", "write"},
                    source : {"absent", "local", "import"},
                    left : SUBSET Courses, more : BOOLEAN]]
    /\ touched \subseteq Tables /\ crossed \subseteq Tables

\* Whatever calls interleave and wherever they are cut off: the pointer names a
\* timetable that exists, unless a call that was to point at it crossed one that
\* deleted it (app.go:332, 353-366: neither looks at the other), and an imported
\* timetable has all its courses and no others (app.go:547) unless its user has
\* edited it since, or an import of it crossed an update, a deletion or another
\* import of it (app.go:287-304, 499-553).
TimetablesAreWhole ==
    /\ pointer # NoTable => Exists(pointer) \/ pointer \in crossed
    /\ \A t \in Tables \ (touched \union crossed) :
          source[t] = "import" => courses[t] = 1..Imported
=============================================================================
