----------------------------- MODULE PackageStore -----------------------------
(* The documents of one Package in one App, behind the host functions       *)
(* ailuo.store: the system scope, which only a snapshot import writes, and  *)
(* the scope of one user.  Every operation is one transaction.  A guest     *)
(* reads a collection page by page; imports and other calls come between.   *)
EXTENDS Naturals, Sequences, FiniteSets

CONSTANTS DocIds,      \* document identifiers, numbered in their order
          Readers,     \* guest calls that read a collection
          Revisions,   \* revisions of the source
          NoRevision,  \* no snapshot has been imported
          SnapshotDocs,\* [Revisions -> SUBSET DocIds]: what a revision holds
          PageSize     \* documents of a page (200 in the code)

ASSUME PackageStoreAssumption ==
    /\ DocIds \subseteq Nat \ {0}
    /\ NoRevision \notin Revisions
    /\ SnapshotDocs \in [Revisions -> SUBSET DocIds]
    /\ \A rev \in Revisions : IsFiniteSet(SnapshotDocs[rev])
    /\ PageSize \in Nat \ {0}

VARIABLES
    snapshot,     \* the current revision
    systemDocs,   \* [DocIds -> revision its payload names; NoRevision: absent]
    userDocs,     \* the documents of the user
    trusted,      \* the snapshot is authoritative and has not expired
    reader,       \* [Readers -> state of the call]
    kept          \* [Readers -> user documents present ever since it began]

packageVars == <<snapshot, systemDocs, userDocs, trusted, reader, kept>>

Scopes == {"system", "user"}

\* A reader that has not begun.
Idle == [at |-> "idle", scope |-> "user", after |-> 0, revision |-> NoRevision,
         first |-> TRUE, got |-> <<>>]

PackageInit ==
    /\ snapshot = NoRevision
    /\ systemDocs = [d \in DocIds |-> NoRevision]
    /\ userDocs = {} /\ trusted = FALSE
    /\ reader = [r \in Readers |-> Idle]
    /\ kept = [r \in Readers |-> {}]

-----------------------------------------------------------------------------
\* An import replaces all documents of the system scope and the metadata at
\* once; a failing one leaves the old snapshot.  An older revision may return.
ReplaceSnapshot(rev) ==
    /\ snapshot' = rev
    /\ systemDocs' = [d \in DocIds |-> IF d \in SnapshotDocs[rev] THEN rev
                                       ELSE NoRevision]
    /\ trusted' \in BOOLEAN
    /\ UNCHANGED <<userDocs, reader, kept>>

SnapshotExpires ==
    /\ trusted /\ trusted' = FALSE
    /\ UNCHANGED <<snapshot, systemDocs, userDocs, reader, kept>>

\* A write of a guest: its Capability has an effect and carries its
\* idempotency key, and the document is the user's.
PutDocument(d) ==
    /\ userDocs' = userDocs \union {d}
    /\ UNCHANGED <<snapshot, systemDocs, trusted, reader, kept>>

DeleteDocument(d) ==
    /\ d \in userDocs
    /\ userDocs' = userDocs \ {d}
    /\ kept' = [r \in Readers |-> kept[r] \ {d}]
    /\ UNCHANGED <<snapshot, systemDocs, trusted, reader>>

-----------------------------------------------------------------------------
\* The first Limit identifiers of a set above a bound, in their order.
Beyond(ids, bound) == {d \in ids : d > bound}
FirstOf(ids) ==
    LET Rank(d) == Cardinality({e \in ids : e <= d})
        size == IF Cardinality(ids) < PageSize THEN Cardinality(ids) ELSE PageSize
    IN [i \in 1..size |-> CHOOSE d \in ids : Rank(d) = i]

PresentIn(scope) ==
    IF scope = "user" THEN userDocs
    ELSE {d \in DocIds : systemDocs[d] # NoRevision}

\* Mutant of NextPage: paging by the number of documents seen.
NextPageByOffset(state) ==
    LET ids == PresentIn(state.scope) IN
    FirstOf({d \in ids : Cardinality({e \in ids : e < d}) >= Len(state.got)})

\* Keyset paging: the documents behind the last one seen.
NextPage(state) == FirstOf(Beyond(PresentIn(state.scope), state.after))

StartRead(r, scope) ==
    /\ reader[r].at = "idle"
    /\ reader' = [reader EXCEPT ![r] = [Idle EXCEPT !.at = "paging",
                                                    !.scope = scope]]
    /\ kept' = [kept EXCEPT ![r] = userDocs]
    /\ UNCHANGED <<snapshot, systemDocs, userDocs, trusted>>

\* The user's scope has no snapshot; pages of the system scope must agree with
\* the first one, and so must each document.
SameRevision(state) ==
    state.scope = "system" =>
        /\ state.first \/ snapshot = state.revision
        /\ \A i \in DOMAIN NextPage(state) :
              systemDocs[NextPage(state)[i]] =
                 (IF state.first THEN snapshot ELSE state.revision)

\* Beyond the last page a system read is governed: there must be a snapshot,
\* and it must be authoritative and fresh.
Outcome(state) ==
    IF state.scope = "user" THEN "whole"
    ELSE IF snapshot # NoRevision /\ trusted THEN "whole" ELSE "refused"

ReadPage(r) ==
    LET state == reader[r]
        page == NextPage(state)
    IN /\ state.at = "paging" /\ SameRevision(state)
       /\ reader' = [reader EXCEPT ![r] =
             [state EXCEPT
                !.got = @ \o page,
                !.first = FALSE,
                !.revision = IF state.first /\ state.scope = "system"
                             THEN snapshot ELSE @,
                !.after = IF page = <<>> THEN @ ELSE page[Len(page)],
                !.at = IF Len(page) < PageSize THEN Outcome(state) ELSE @]]
       /\ UNCHANGED <<snapshot, systemDocs, userDocs, trusted, kept>>

\* ErrDataUnavailable; a failing statement ends the call as well.
ReadRefused(r) ==
    /\ reader[r].at = "paging"
    /\ reader' = [reader EXCEPT ![r].at = "refused", ![r].got = <<>>]
    /\ UNCHANGED <<snapshot, systemDocs, userDocs, trusted, kept>>

PackageNext ==
    \/ \E rev \in Revisions : ReplaceSnapshot(rev)
    \/ SnapshotExpires
    \/ \E d \in DocIds : PutDocument(d) \/ DeleteDocument(d)
    \/ \E r \in Readers : \/ \E scope \in Scopes : StartRead(r, scope)
                          \/ ReadPage(r) \/ ReadRefused(r)

PackageSpec == PackageInit /\ [][PackageNext]_packageVars

-----------------------------------------------------------------------------
\* Every variable stays in its domain.
PackageTypeOK ==
    /\ snapshot \in Revisions \union {NoRevision}
    /\ systemDocs \in [DocIds -> Revisions \union {NoRevision}]
    /\ userDocs \subseteq DocIds /\ trusted \in BOOLEAN
    /\ reader \in [Readers ->
          [at : {"idle", "paging", "whole", "refused"}, scope : Scopes,
           after : DocIds \union {0}, revision : Revisions \union {NoRevision},
           first : BOOLEAN, got : Seq(DocIds)]]
    /\ kept \in [Readers -> SUBSET DocIds]

Seen(r) == {reader[r].got[i] : i \in DOMAIN reader[r].got}
InOrder(s) == \A i, j \in DOMAIN s : i < j => s[i] < s[j]

\* A paged read is as good as one statement ("永不返回跨修订混合视图"): of the
\* system scope it returns exactly what one revision holds, whatever was
\* imported between its pages; of the user's scope it returns every document
\* that was there all the time, and none twice.
PagedReadIsWhole ==
    \A r \in Readers :
        reader[r].at = "whole" =>
            /\ InOrder(reader[r].got)
            /\ IF reader[r].scope = "user" THEN kept[r] \subseteq Seen(r)
               ELSE Seen(r) = SnapshotDocs[reader[r].revision]
=============================================================================
