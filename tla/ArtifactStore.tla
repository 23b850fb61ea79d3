--------------------------- MODULE ArtifactStore ---------------------------
(***************************************************************************)
(* One blob of the immutable artifact store (blocks/immutable_artifacts):  *)
(* its row, the references to it and its retirement marker in SQLite, and  *)
(* the file under its content-addressed name, shared by several Storage    *)
(* objects on one database and one root (processes, or threads each with a *)
(* Storage of its own; the threads of one Storage take turns and are one   *)
(* Storage here).                                                          *)
(*                                                                         *)
(* store_observation publishes the file and then commits its row; a        *)
(* rollback removes a file it linked.  prune_unreferenced_blob moves the   *)
(* file into a private quarantine, commits the deletion of the row with a  *)
(* retirement marker, and only then unlinks the file; when a step fails it *)
(* puts the file back, and the row with it, or deletes the row.  BEGIN     *)
(* IMMEDIATE lets one Storage write at a time, but holds nobody off the    *)
(* files before it begins and after it ends.                               *)
(*                                                                         *)
(* A file is an inode: in Intact the blob's bytes, else somebody else's.   *)
(* A commit may raise with or without effect; every file operation may     *)
(* fail; a process may die; an outsider may replace or remove the file at  *)
(* the canonical name.  The temporary file of a publication, the           *)
(* directories and the descriptors that pin them, and the undoing inside   *)
(* one failed rename are left out; so are reads, which change nothing.     *)
(***************************************************************************)
EXTENDS Naturals, FiniteSets

CONSTANTS
    Storages,     \* Storage objects on one database and one root
    Storers,      \* those that store the blob
    Pruners,      \* those that prune it
    Files,        \* inodes
    Intact,       \* inodes that hold the blob's bytes
    MaxCalls,     \* bound: calls a Storage makes
    MaxTampers,   \* bound: times an outsider touches the canonical name
    NoStorage,
    NoFile

ASSUME ActorsAssumption == Storers \subseteq Storages /\ Pruners \subseteq Storages
ASSUME IntactAssumption == Intact \subseteq Files
ASSUME NoStorageAssumption == NoStorage \notin Storages
ASSUME NoFileAssumption == NoFile \notin Files
ASSUME BoundsAssumption == MaxCalls \in Nat /\ MaxTampers \in Nat

VARIABLES
    db,       \* what SQLite has committed: the blob's row, references, marker
    txn,      \* what the open write transaction sees; db when there is none
    writer,   \* the Storage whose write transaction is open
    leaf,     \* the file at the canonical name
    aside,    \* files that have a name in some quarantine
    made,     \* inodes that were ever created
    call,     \* Storage -> where its call stands
    marks,    \* history: "tampered", "crashed", "reported" restore failures,
              \* and what rollbacks kept aside ("stranded")
    proved    \* history: the bytes were verified since the row was committed

vars == <<db, txn, writer, leaf, aside, made, call, marks, proved>>

\* refs: something references the digest; versions: its own versions and
\* observations do, and those are never removed.
Rows == [row : BOOLEAN, refs : BOOLEAN, versions : BOOLEAN, marker : BOOLEAN]

Steps == {"idle", "publish", "undo", "unlink", "undone", "record",
          "unpublish", "sort",
          "move", "inspect", "verify", "commit", "delete", "restore", "pin",
          "reinsert", "recommit", "reprove", "unmark", "audit", "retire",
          "abandon", "reread", "republish", "reundo", "reunlink", "settle",
          "discard", "putback"}

\* held: the file the call took, or is about to take, from the canonical name;
\* pinned: the canonical file a compensation holds open, or the file a failed
\* publication is to unlink again; linked: the file a store journaled.
Resting(calls) ==
    [at |-> "idle", held |-> NoFile, pinned |-> NoFile, linked |-> NoFile,
     calls |-> calls]

Init ==
    /\ leaf \in Intact \union {NoFile}
    /\ db \in [row : {leaf # NoFile}, refs : {FALSE}, versions : {FALSE},
               marker : IF leaf = NoFile THEN BOOLEAN ELSE {FALSE}]
    /\ txn = db
    /\ writer = NoStorage
    /\ aside = {}
    /\ made = {leaf} \ {NoFile}
    /\ call = [s \in Storages |-> Resting(0)]
    /\ marks = {}
    /\ proved = TRUE

At(s, step) == call[s].at = step

Moved(s, step) == call' = [call EXCEPT ![s].at = step]

\* The call returns or raises; either way its descriptors are closed.
Ended(s) == call' = [call EXCEPT ![s] = Resting(@.calls)]

Report == marks' = marks \union {"reported"}

\* BEGIN IMMEDIATE: a Storage that cannot get the lock raises in its first
\* step, which changes nothing, or fails where a transaction of a
\* compensation may fail.
Free == writer = NoStorage

Began(s, rows) == Free /\ writer' = s /\ txn' = rows

\* The open transaction becomes durable.
Committed ==
    /\ db' = txn
    /\ writer' = NoStorage
    /\ proved' = (proved /\ (db.row \/ ~txn.row))
    /\ UNCHANGED txn

RolledBack ==
    /\ txn' = db
    /\ writer' = NoStorage
    /\ UNCHANGED <<db, proved>>

\* A whole transaction in one step: nothing but the database takes part.
CommittedAlone(rows) ==
    /\ Free
    /\ db' = rows
    /\ txn' = rows
    /\ proved' = (proved /\ (db.row \/ ~rows.row))
    /\ UNCHANGED writer

Untouched == UNCHANGED <<db, txn, writer, proved>>
FilesUntouched == UNCHANGED <<leaf, aside, made>>

\* commit_execution_transaction: it commits; or raises with the transaction
\* pending, which it then rolls back; or raises although SQLite committed.
Commits(s, done, raised) ==
    \/ Committed /\ done
    \/ RolledBack /\ raised
    \/ Committed /\ raised

-----------------------------------------------------------------------------
\* store_observation.

StoreBegin(s) ==
    /\ s \in Storers
    /\ At(s, "idle")
    /\ call[s].calls < MaxCalls
    /\ Began(s, db)
    /\ call' = [call EXCEPT ![s].at = "publish", ![s].calls = @ + 1]
    /\ FilesUntouched
    /\ UNCHANGED <<db, marks, proved>>

\* _publish_blob finds the name taken by the same bytes, with or without a row.
Reuse(s) ==
    /\ At(s, "publish")
    /\ leaf \in Intact
    /\ proved' = TRUE
    /\ Moved(s, "record")
    /\ FilesUntouched
    /\ UNCHANGED <<db, txn, writer, marks>>

\* It links a verified temporary file there and journals it; with a row and no
\* file it raises blob.missing instead.
Link(s) ==
    /\ At(s, "publish")
    /\ leaf = NoFile
    /\ ~txn.row
    /\ \E f \in Intact \ made :
         /\ leaf' = f
         /\ made' = made \union {f}
         /\ call' = [call EXCEPT ![s].at = "record", ![s].linked = f]
    /\ Untouched
    /\ UNCHANGED <<aside, marks>>

\* It raises when its file is at the name already: the link took effect and
\* raised, its postcheck failed, or the journal did not take it.
LinkFails(s) ==
    /\ At(s, "publish")
    /\ leaf = NoFile
    /\ ~txn.row
    /\ \E f \in Intact \ made :
         /\ leaf' = f
         /\ made' = made \union {f}
         /\ \E journaled \in {f, NoFile} :
              call' = [call EXCEPT ![s].at = "undo", ![s].pinned = f,
                                   ![s].linked = journaled]
    /\ Untouched
    /\ UNCHANGED <<aside, marks>>

\* _unlink_pinned_leaf_if_identity, of the canonical name: its inode is
\* compared, and then whatever has the name is unlinked.  A second attempt by
\* the outer handler is no more than a late first one.
Checks(s, unlink, out) == (leaf = call[s].pinned /\ Moved(s, unlink)) \/ Moved(s, out)

Unlinks(s, out) == leaf' \in {leaf, NoFile} /\ Moved(s, out)

Undo(s) ==
    /\ At(s, "undo")
    /\ Checks(s, "unlink", "undone")
    /\ Untouched
    /\ FilesUntouched
    /\ UNCHANGED marks

Unlink(s) ==
    /\ At(s, "unlink")
    /\ Unlinks(s, "undone")
    /\ Untouched
    /\ UNCHANGED <<aside, made, marks>>

\* The journal is worked off, or there is nothing in it.
Unwind(s) == IF call[s].linked = NoFile THEN Ended(s) ELSE Moved(s, "unpublish")

\* _insert_metadata and the commit: the references, the row if it is missing,
\* and no marker.
StoreCommit(s) ==
    /\ At(s, "record")
    /\ \/ /\ db' = [row |-> TRUE, refs |-> TRUE, versions |-> TRUE,
                    marker |-> FALSE]
          /\ txn' = db'
          /\ proved' = (proved /\ db.row)
          /\ Ended(s)
       \/ /\ txn' = db
          /\ UNCHANGED <<db, proved>>
          /\ Unwind(s)
    /\ writer' = NoStorage
    /\ FilesUntouched
    /\ UNCHANGED marks

\* A conflict, missing bytes or any exception before the commit.
StoreFails(s) ==
    /\ At(s, "publish") \/ At(s, "undone") \/ At(s, "record")
    /\ RolledBack
    /\ Unwind(s)
    /\ FilesUntouched
    /\ UNCHANGED marks

\* The end of rollback_execution_transaction, after SQLite has rolled back:
\* whatever is at the journaled name goes into a quarantine.
Unpublish(s) ==
    /\ At(s, "unpublish")
    /\ \/ Ended(s) /\ UNCHANGED <<leaf, aside>>
       \/ /\ leaf # NoFile
          /\ leaf' = NoFile
          /\ aside' = aside \union {leaf}
          /\ call' = [call EXCEPT ![s].at = "sort", ![s].held = leaf]
    /\ Untouched
    /\ UNCHANGED <<made, marks>>

\* Fault: the name is taken over whatever is there.
RelinkedOver(s) ==
    /\ leaf' = call[s].held
    /\ aside' \in {aside, aside \ {call[s].held}}

\* The held file gets its canonical name back: entirely, or with its
\* quarantine name still there.
Relinked(s) ==
    /\ leaf = NoFile
    /\ leaf' = call[s].held
    /\ aside' \in {aside, aside \ {call[s].held}}

\* There the inode of the journal is unlinked; another one, and what could not
\* be unlinked, is linked back, or kept when the name is taken by now.
Sort(s) ==
    /\ At(s, "sort")
    /\ \/ /\ call[s].held = call[s].linked
          /\ aside' = aside \ {call[s].held}
          /\ UNCHANGED <<leaf, marks>>
       \/ Relinked(s) /\ UNCHANGED marks
       \/ /\ marks' = IF call[s].held = call[s].linked THEN marks
                      ELSE marks \union {"stranded"}
          /\ UNCHANGED <<leaf, aside>>
    /\ Ended(s)
    /\ Untouched
    /\ UNCHANGED made

\* A legacy table takes a reference to the digest: one statement of some other
\* Storage, which the triggers abort while the digest is retired.
AddReference ==
    /\ Free
    /\ ~db.marker
    /\ ~db.refs
    /\ CommittedAlone([db EXCEPT !.refs = TRUE])
    /\ FilesUntouched
    /\ UNCHANGED <<call, marks>>

\* The last legacy row moves on to another digest (add_document,
\* upsert_tracked_file).
DropReference ==
    /\ Free
    /\ db.refs
    /\ ~db.versions
    /\ CommittedAlone([db EXCEPT !.refs = FALSE])
    /\ FilesUntouched
    /\ UNCHANGED <<call, marks>>

-----------------------------------------------------------------------------
\* prune_unreferenced_blob: the transaction and the quarantine.

\* A call that finds no row, a reference or no file changes nothing.
PruneBegin(s) ==
    /\ s \in Pruners
    /\ At(s, "idle")
    /\ call[s].calls < MaxCalls
    /\ db.row
    /\ ~db.refs
    /\ leaf # NoFile
    /\ Began(s, [db EXCEPT !.marker = TRUE])
    /\ call' = [call EXCEPT ![s].at = "move", ![s].held = leaf,
                            ![s].calls = @ + 1]
    /\ FilesUntouched
    /\ UNCHANGED <<db, marks, proved>>

\* _quarantine_blob_file: the name goes into the quarantine in one rename.
MoveAside(s) ==
    /\ At(s, "move")
    /\ leaf = call[s].held
    /\ leaf' = NoFile
    /\ aside' = aside \union {leaf}
    /\ Moved(s, "verify")
    /\ Untouched
    /\ UNCHANGED <<made, marks>>

\* Another inode is at the name before anything was moved.
MoveRefused(s) ==
    /\ At(s, "move")
    /\ leaf # call[s].held
    /\ RolledBack
    /\ Ended(s)
    /\ FilesUntouched
    /\ UNCHANGED marks

\* The rename failed; or it took effect and raised, or took a replacement, and
\* what it took was linked back, or stayed in the quarantine.
MoveFails(s) ==
    /\ At(s, "move")
    /\ \/ UNCHANGED <<leaf, aside>>
       \/ /\ leaf # NoFile
          /\ leaf' = NoFile
          /\ aside' = aside \union {leaf}
    /\ call' = [call EXCEPT ![s].at = "inspect", ![s].held = NoFile]
    /\ Untouched
    /\ UNCHANGED <<made, marks>>

\* The outer handler, with nothing in the quarantine: the transaction is rolled
\* back only over verified bytes, else the row goes.
Inspect(s) ==
    /\ At(s, "inspect")
    /\ \/ leaf \in Intact /\ RolledBack /\ Ended(s)
       \/ /\ txn' = [txn EXCEPT !.row = FALSE]
          /\ Moved(s, "abandon")
          /\ UNCHANGED <<db, writer, proved>>
    /\ FilesUntouched
    /\ UNCHANGED marks

\* _verify_quarantined_blob before and after the row is deleted.
Verify(s) ==
    /\ At(s, "verify")
    /\ txn' = [txn EXCEPT !.row = FALSE]
    /\ (call[s].held \in Intact /\ Moved(s, "commit")) \/ Moved(s, "abandon")
    /\ FilesUntouched
    /\ UNCHANGED <<db, writer, proved, marks>>

PruneCommit(s) ==
    /\ At(s, "commit")
    /\ Commits(s, Moved(s, "delete"), Moved(s, "settle"))
    /\ FilesUntouched
    /\ UNCHANGED marks

\* _delete_quarantined_blob: once the candidate is unlinked the deletion
\* stands, also when the directory cannot be removed.
Delete(s) ==
    /\ At(s, "delete")
    /\ \/ aside' = aside \ {call[s].held} /\ Ended(s)
       \/ Moved(s, "restore") /\ UNCHANGED aside
    /\ Untouched
    /\ UNCHANGED <<leaf, made, marks>>

-----------------------------------------------------------------------------
\* The compensation of a deletion that is durable but not carried out.

\* _restore_quarantined_blob: a collision, and any failure, leaves the delete
\* durable.
Restore(s) ==
    /\ At(s, "restore")
    /\ \/ /\ Relinked(s)
          /\ (call[s].held \notin aside' /\ Moved(s, "pin")) \/ Ended(s)
       \/ Ended(s) /\ UNCHANGED <<leaf, aside>>
    /\ Untouched
    /\ UNCHANGED <<made, marks>>

\* _pin_canonical_blob.
Pin(s) ==
    /\ At(s, "pin")
    /\ \/ /\ leaf \in Intact
          /\ call' = [call EXCEPT ![s].at = "reinsert", ![s].pinned = leaf]
       \/ Moved(s, "audit")
    /\ Untouched
    /\ FilesUntouched
    /\ UNCHANGED marks

\* The row comes back, the marker stays: it fails when the row is there again.
Reinsert(s) ==
    /\ At(s, "reinsert")
    /\ \/ /\ ~db.row
          /\ leaf = call[s].pinned
          /\ Began(s, [db EXCEPT !.row = TRUE])
          /\ Moved(s, "recommit")
       \/ Moved(s, "audit") /\ UNCHANGED <<txn, writer>>
    /\ FilesUntouched
    /\ UNCHANGED <<db, proved, marks>>

Recommit(s) ==
    /\ At(s, "recommit")
    /\ Commits(s, Moved(s, "reprove"), Moved(s, "audit"))
    /\ FilesUntouched
    /\ UNCHANGED marks

\* Fault: the bytes are not looked at again.
ReproveNothing(s) ==
    /\ At(s, "reprove")
    /\ Moved(s, "unmark")
    /\ FilesUntouched
    /\ UNCHANGED <<db, txn, writer, proved, marks>>

\* _verify_pinned_canonical_blob, now that the row is durable.
Reprove(s) ==
    /\ At(s, "reprove")
    /\ \/ /\ leaf = call[s].pinned
          /\ proved' = TRUE
          /\ Moved(s, "unmark")
       \/ Moved(s, "audit") /\ UNCHANGED proved
    /\ FilesUntouched
    /\ UNCHANGED <<db, txn, writer, marks>>

Unmark(s) ==
    /\ At(s, "unmark")
    /\ \/ /\ CommittedAlone([db EXCEPT !.marker = FALSE])
          /\ Ended(s) \/ Moved(s, "audit")
       \/ Moved(s, "audit") /\ Untouched
    /\ FilesUntouched
    /\ UNCHANGED marks

\* A row without a marker over the pinned file is safe.
Safe(s) == ~db.marker /\ leaf = call[s].pinned /\ leaf # NoFile

\* The handler of a failed compensation.
Audit(s) ==
    /\ At(s, "audit")
    /\ \/ (db.row => Safe(s)) /\ Ended(s)
       \/ db.row /\ Moved(s, "retire")
    /\ Untouched
    /\ FilesUntouched
    /\ UNCHANGED marks

\* Fault: references are not looked at again.
RetireReferenced(s) ==
    /\ At(s, "retire")
    /\ Ended(s)
    /\ \/ /\ CommittedAlone([db EXCEPT !.row = FALSE, !.marker = TRUE])
          /\ UNCHANGED marks
       \/ Untouched /\ IF db.row THEN Report ELSE UNCHANGED marks
    /\ FilesUntouched

\* _retire_unrestorable_blob: a row that is referenced, or whose deletion
\* fails, stays and the caller is told retention.restore_failed.
Retire(s) ==
    /\ At(s, "retire")
    /\ Ended(s)
    /\ \/ /\ ~db.refs
          /\ CommittedAlone([db EXCEPT !.row = FALSE, !.marker = TRUE])
          /\ UNCHANGED marks
       \/ Untouched /\ IF db.row THEN Report ELSE UNCHANGED marks
    /\ FilesUntouched

-----------------------------------------------------------------------------
\* The reconciliation of a prune that failed before, or in, its commit.

\* _finalize_failed_retention commits the staged deletion all the same.
Abandon(s) ==
    /\ At(s, "abandon")
    /\ Moved(s, "reread")
    /\ Committed \/ RolledBack
    /\ FilesUntouched
    /\ UNCHANGED marks

\* Fault: the commit is trusted to have taken effect.
RereadNothing(s) ==
    /\ At(s, "reread")
    /\ Ended(s)
    /\ Untouched
    /\ FilesUntouched
    /\ UNCHANGED marks

Reread(s) ==
    /\ At(s, "reread")
    /\ IF ~db.row THEN Ended(s)
       ELSE Moved(s, IF call[s].held = NoFile THEN "retire" ELSE "republish")
    /\ Untouched
    /\ FilesUntouched
    /\ UNCHANGED marks

\* The bytes are read back from the quarantined file and published again,
\* outside any transaction and so outside the journal.
Republish(s) ==
    /\ At(s, "republish")
    /\ \/ /\ call[s].held \in Intact
          /\ \/ leaf \in Intact /\ UNCHANGED <<leaf, made>>
             \/ /\ leaf = NoFile
                /\ \E f \in Intact \ made : leaf' = f /\ made' = made \union {f}
          /\ Ended(s)
       \/ Moved(s, "retire") /\ UNCHANGED <<leaf, made>>
    /\ Untouched
    /\ UNCHANGED <<aside, marks>>

RepublishFails(s) ==
    /\ At(s, "republish")
    /\ call[s].held \in Intact
    /\ leaf = NoFile
    /\ \E f \in Intact \ made :
         /\ leaf' = f
         /\ made' = made \union {f}
         /\ call' = [call EXCEPT ![s].at = "reundo", ![s].pinned = f]
    /\ Untouched
    /\ UNCHANGED <<aside, marks>>

Reundo(s) ==
    /\ At(s, "reundo")
    /\ Checks(s, "reunlink", "retire")
    /\ Untouched
    /\ FilesUntouched
    /\ UNCHANGED marks

Reunlink(s) ==
    /\ At(s, "reunlink")
    /\ Unlinks(s, "retire")
    /\ Untouched
    /\ UNCHANGED <<aside, made, marks>>

\* Fault: it deletes the file before it asks.
SettleDiscarding(s) ==
    /\ At(s, "settle")
    /\ Moved(s, "discard")
    /\ Untouched
    /\ FilesUntouched
    /\ UNCHANGED marks

\* The outer handler after a commit that raised: is the deletion durable?
Settle(s) ==
    /\ At(s, "settle")
    /\ Moved(s, IF db.row THEN "putback" ELSE "discard")
    /\ Untouched
    /\ FilesUntouched
    /\ UNCHANGED marks

Discard(s) ==
    /\ At(s, "discard")
    /\ aside' \in {aside, aside \ {call[s].held}}
    /\ Ended(s)
    /\ Untouched
    /\ UNCHANGED <<leaf, made, marks>>

PutBack(s) ==
    /\ At(s, "putback")
    /\ \/ /\ Relinked(s)
          /\ (call[s].held \notin aside' /\ Ended(s)) \/ Moved(s, "retire")
       \/ Moved(s, "retire") /\ UNCHANGED <<leaf, aside>>
    /\ Untouched
    /\ UNCHANGED <<made, marks>>

-----------------------------------------------------------------------------
\* The world around the calls.

\* SQLite rolls back for a dead process; nobody works off its journal or looks
\* into its quarantine.
Crash(s) ==
    /\ ~At(s, "idle")
    /\ IF writer = s THEN RolledBack ELSE Untouched
    /\ Ended(s)
    /\ marks' = marks \union {"crashed"}
    /\ FilesUntouched

Tampers == Cardinality(made \ Intact)

\* An outsider puts a file of its own under the canonical name.
Tamper ==
    /\ Tampers < MaxTampers
    /\ leaf \in Intact \union {NoFile}
    /\ \E f \in Files \ (Intact \union made) :
         leaf' = f /\ made' = made \union {f}
    /\ marks' = marks \union {"tampered"}
    /\ Untouched
    /\ UNCHANGED <<aside, call>>

Store(s) ==
    StoreBegin(s) \/ Reuse(s) \/ Link(s) \/ LinkFails(s) \/ Undo(s) \/ Unlink(s)
        \/ StoreCommit(s) \/ StoreFails(s) \/ Unpublish(s) \/ Sort(s)

Prune(s) ==
    PruneBegin(s) \/ MoveAside(s) \/ MoveRefused(s) \/ MoveFails(s)
        \/ Inspect(s) \/ Verify(s) \/ PruneCommit(s) \/ Delete(s)

Compensate(s) ==
    Restore(s) \/ Pin(s) \/ Reinsert(s) \/ Recommit(s) \/ Reprove(s)
        \/ Unmark(s) \/ Audit(s) \/ Retire(s)

Reconcile(s) ==
    Abandon(s) \/ Reread(s) \/ Republish(s) \/ RepublishFails(s) \/ Reundo(s)
        \/ Reunlink(s) \/ Settle(s) \/ Discard(s) \/ PutBack(s)

Next ==
    \/ \E s \in Storages :
         Store(s) \/ Prune(s) \/ Compensate(s) \/ Reconcile(s) \/ Crash(s)
    \/ AddReference
    \/ DropReference
    \/ Tamper

Spec == Init /\ [][Next]_vars

-----------------------------------------------------------------------------
TypeOK ==
    /\ db \in Rows
    /\ txn \in Rows
    /\ writer \in Storages \union {NoStorage}
    /\ leaf \in Files \union {NoFile}
    /\ aside \subseteq Files
    /\ made \subseteq Files
    /\ call \in [Storages -> [at : Steps,
                              held : Files \union {NoFile},
                              pinned : Files \union {NoFile},
                              linked : Files \union {NoFile},
                              calls : 0..MaxCalls]]
    /\ marks \subseteq {"tampered", "crashed", "reported", "stranded"}
    /\ proved \in BOOLEAN

\* A file exists as long as it has a name.
HasName(f) == f = leaf \/ f \in aside

\* As long as a row is committed, its bytes exist under some name: in no
\* order of a prune's steps, failures and deaths are they unlinked under a row
\* that stays or comes back.
BytesSurvive ==
    db.row /\ "tampered" \notin marks =>
        \E f \in Intact : HasName(f)

\* When every call has returned, whatever failed in it, a committed row names
\* its bytes, unless a process died, the caller was told that it does not, or
\* a rollback could not put back what it had taken.
RowNamesBytes ==
    db.row /\ marks = {} /\ (\A s \in Storages : At(s, "idle")) => leaf \in Intact

\* A file that is not the store's is never removed or overwritten, wherever it
\* turns up between the store's own steps, but in one place: between the check
\* of a failed publication and its unlink.
OthersKept ==
    [][\A f \in made \ Intact : HasName(f) /\ ~HasName(f)' =>
            \E s \in Storages : Unlink(s) \/ Reunlink(s)]_vars

\* README.md:583, "cleanup replacement therefore fail without clobbering a
\* victim": a file that is not the store's is never removed or overwritten.
VictimsKept == \A f \in made \ Intact : HasName(f)

\* A digest under retirement is referenced by nobody: the references were
\* checked and the marker was set under one lock, and no reference gets in
\* before the bytes are back.
RetiredUnreferenced == db.marker => ~db.refs

\* A row that a failed prune put back stays under its marker until its bytes
\* were verified with the row durable.
MarkerOutlivesDoubt ==
    [][db.row /\ db.marker /\ db'.row /\ ~db'.marker => proved]_vars
=============================================================================
