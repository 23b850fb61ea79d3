------------------------ MODULE ArtifactStoreProofs ------------------------
(***************************************************************************)
(* Proofs about ArtifactStore: types, references and the files of others   *)
(* for any number of Storage objects; the bytes of a committed row under   *)
(* some name for one that stores and any number that prune, and under      *)
(* their own name for one of each; the marker of a row that came back for  *)
(* any number that store and one that prunes.                              *)
(***************************************************************************)
EXTENDS ArtifactStore, TLAPS

Call ==
    [at : Steps, held : Files \union {NoFile}, pinned : Files \union {NoFile},
     linked : Files \union {NoFile}, calls : 0..MaxCalls]

CallT == call \in [Storages -> Call]

\* TypeOK but for the calls.
RestT ==
    /\ db \in Rows /\ txn \in Rows /\ writer \in Storages \union {NoStorage}
    /\ leaf \in Files \union {NoFile} /\ aside \subseteq Files
    /\ made \subseteq Files
    /\ marks \subseteq {"tampered", "crashed", "reported", "stranded"}
    /\ proved \in BOOLEAN

LEMMA RestingFact ==
    ASSUME NEW n \in 0..MaxCalls
    PROVE  /\ Resting(n) \in Call
           /\ Resting(n).at = "idle"
           /\ Resting(n).held = NoFile
           /\ Resting(n).linked = NoFile
           /\ Resting(n).pinned = NoFile
  BY DEF Resting, Call, Steps

LEMMA EndedFact ==
    ASSUME CallT, NEW s \in Storages, Ended(s)
    PROVE  /\ CallT'
           /\ \A t \in Storages : t # s => call'[t] = call[t]
           /\ call'[s].at = "idle"
           /\ call'[s].held = NoFile
           /\ call'[s].linked = NoFile
  BY RestingFact DEF Ended, CallT, Call

LEMMA MovedFact ==
    ASSUME CallT, NEW s \in Storages, NEW step \in Steps, Moved(s, step)
    PROVE  /\ CallT'
           /\ \A t \in Storages : t # s => call'[t] = call[t]
           /\ call'[s].at = step
           /\ call'[s].held = call[s].held
           /\ call'[s].pinned = call[s].pinned
           /\ call'[s].linked = call[s].linked
  BY DEF Moved, CallT, Call

-----------------------------------------------------------------------------
(* The inductive invariant.                                                *)

LockedSteps == {"publish", "undo", "unlink", "undone", "record", "move",
                "inspect", "verify", "commit", "recommit", "abandon"}

StoreSteps == {"publish", "undo", "unlink", "undone", "record", "unpublish",
               "sort"}

\* Steps of a prune under the lock, before the loss of the row is committed.
TakingSteps == {"move", "inspect", "verify", "commit", "abandon"}

\* Steps that were reached over verified bytes.
VerifiedSteps == {"commit", "delete", "restore", "pin", "reinsert", "recommit",
                  "settle", "discard", "putback"}

\* The write lock has one holder, and what an open transaction sees differs
\* from the database only by its own doing.
Turns ==
    /\ \A s \in Storages : call[s].at \in LockedSteps => writer = s
    /\ writer = NoStorage => txn = db

\* References and retirement exclude each other, before and after a commit.
Exclusive ==
    /\ db.marker => ~db.refs
    /\ txn.marker => ~txn.refs

\* Only inodes with the blob's bytes are unlinked from a quarantine.
Unlinkable ==
    \A s \in Storages :
        /\ call[s].at \in VerifiedSteps => call[s].held \in Intact
        /\ call[s].linked \in Intact \union {NoFile}
        /\ call[s].linked # NoFile =>
               call[s].at \in {"undo", "unlink", "undone", "record",
                               "unpublish", "sort"}

\* Files come from somewhere, all from a store until an outsider comes.
Known ==
    /\ leaf \in made \union {NoFile}
    /\ aside \subseteq made
    /\ \A s \in Storages : /\ call[s].held \in made \union {NoFile}
                           /\ call[s].linked \in made \union {NoFile}
                           /\ call[s].at = "move" => call[s].held \in made
    /\ "tampered" \notin marks => made \subseteq Intact

Safety == TypeOK /\ Turns /\ Exclusive /\ Unlinkable /\ Known

\* What every step keeps, but the unlink of a failed publication.
Keeps == \A f \in made \ Intact : HasName(f) => HasName(f)'

\* One Storage stores, any number prune.
OneStorer == \A s, t \in Storers : s = t

Roles ==
    \A s \in Storages :
        /\ call[s].at \in StoreSteps => s \in Storers
        /\ call[s].at \notin StoreSteps \union {"idle"} => s \in Pruners

Staged ==
    /\ txn.refs = db.refs
    /\ \A s \in Storages :
        /\ call[s].at \in {"publish", "undo", "unlink", "undone", "record"} =>
              txn = db
        /\ call[s].at \in TakingSteps => db.row /\ ~db.refs
        /\ call[s].at \in {"commit", "abandon"} => ~txn.row
        /\ call[s].at = "recommit" => ~db.row

\* Steps from the durable deletion of an unreferenced row to its return.  One
\* call at a time is there, until the row comes back with a version of its own,
\* and then nobody takes it any more.
Returning == {"delete", "restore", "pin", "reinsert", "recommit"}

Lone ==
    /\ txn.versions = db.versions
    /\ db.versions => db.refs
    /\ \A s \in Storages : call[s].at \in Returning => ~db.row \/ db.versions
    /\ \A s, t \in Storages :
          s # t /\ call[s].at \in Returning /\ call[t].at \in Returning =>
              db.versions

\* Steps at which the held file is in its call's quarantine, and nobody else's.
Away == {"verify", "commit", "delete", "restore", "settle", "putback",
         "discard"}

Handling == Away \union {"sort"}

\* An inode with the blob's bytes that no call will touch any more: it was left
\* in a quarantine, and keeps its name there.
Left(f) ==
    /\ f \in aside
    /\ f # leaf
    /\ \A s \in Storages : /\ call[s].at \in Handling => call[s].held # f
                           /\ call[s].linked # f

Litter == \E f \in Intact : Left(f)

\* Until then, and without an outsider, the rest can be said.
Tidy == "tampered" \notin marks /\ ~Litter

\* No prune has to publish its bytes again: it holds them when it needs to.
Clean ==
    \A s \in Storages :
        /\ call[s].at \notin {"republish", "reundo", "reunlink"}
        /\ call[s].at \in {"inspect", "abandon", "reread"} =>
              call[s].held = NoFile

\* What a storer linked is its own, and no row names it before its commit.
Own ==
    \A s \in Storages :
        /\ call[s].linked # NoFile =>
              \A t \in Storages \ {s} : call[t].held # call[s].linked
        /\ call[s].at \in {"unpublish", "sort"} => call[s].linked # NoFile
        /\ call[s].at = "sort" => leaf # call[s].linked
        /\ call[s].at \in {"undone", "unpublish"} =>
              (leaf = call[s].linked /\ leaf # NoFile => ~db.row)
        /\ call[s].linked # NoFile /\ call[s].at = "record" =>
              leaf = call[s].linked /\ ~db.row

\* So is what it linked and is about to unlink.
OwnUndone ==
    \A s \in Storages : call[s].at \in {"undo", "unlink"} =>
        /\ ~db.row
        /\ leaf = call[s].pinned
        /\ leaf # NoFile
        /\ call[s].linked \in {NoFile, leaf}
        /\ \A t \in Storages \ {s} : call[t].held # leaf

\* The name has the bytes a store is about to commit a row over, and those a
\* compensation has put back, if a rollback is not just looking at them.
Sorted(f) == \E t \in Storages : call[t].at = "sort" /\ call[t].held = f

Kept ==
    \A s \in Storages :
        /\ call[s].at = "record" => leaf \in Intact
        /\ call[s].at \in {"pin", "reinsert", "recommit"} =>
              leaf = call[s].held \/ Sorted(call[s].held)

Loose ==
    /\ \A s \in Storages :
          call[s].at \in Handling =>
              call[s].held # leaf /\ call[s].held \in aside
    /\ \A s, t \in Storages :
          s # t /\ call[s].at \in Handling /\ call[t].at \in Handling =>
              call[s].held # call[t].held

\* What a call is about to unlink is not all that is left of a committed row.
Doomed(s, f) ==
    /\ f = call[s].held
    /\ \/ call[s].at \in {"delete", "discard"}
       \/ call[s].at = "sort" /\ f = call[s].linked

Spared ==
    db.row => \E f \in Intact : HasName(f) /\ \A s \in Storages : ~Doomed(s, f)

Survival ==
    /\ Safety /\ Roles /\ Staged /\ Lone
    /\ Tidy => Clean /\ Own /\ OwnUndone /\ Kept /\ Loose /\ Spared

-----------------------------------------------------------------------------
(* Each step preserves Safety, with any number of Storage objects.         *)

LEMMA StoreBeginSafety ==
    ASSUME Safety, NEW s \in Storages, StoreBegin(s)
    PROVE  Safety' /\ Keeps
<1>1. CallT
  BY DEF Safety, TypeOK, CallT, Call
<1>2. call' = [call EXCEPT ![s].at = "publish", ![s].calls = @ + 1]
  BY DEF StoreBegin
<1>3. /\ CallT'
      /\ \A t \in Storages : t # s => call'[t] = call[t]
      /\ call'[s].at = "publish"
      /\ call'[s].held = call[s].held
      /\ call'[s].linked = call[s].linked
  <2>1. call \in [Storages -> Call] /\ call[s] \in Call
    BY <1>1 DEF CallT
  <2>2. call[s].calls + 1 \in 0..MaxCalls
    BY <2>1, BoundsAssumption DEF StoreBegin, Call
  <2>. QED
    BY <1>2, <2>1, <2>2 DEF CallT, Call, Steps
<1>4. TypeOK'
  BY <1>1, <1>3, <1>3, IntactAssumption, NoFileAssumption
     DEF StoreBegin, Safety, TypeOK, Rows, At, Began, Free, FilesUntouched,
         CallT, Call
<1>5. Turns'
  BY <1>1, <1>3, NoStorageAssumption
     DEF StoreBegin, Safety, Turns, LockedSteps, At, Began, Free,
         FilesUntouched, CallT, Call
<1>6. Exclusive'
  BY
     DEF StoreBegin, Safety, TypeOK, Rows, Exclusive, Turns, At, Began, Free,
         FilesUntouched
<1>7. Unlinkable'
  BY <1>1, <1>3, IntactAssumption, NoFileAssumption
     DEF StoreBegin, Safety, Unlinkable, VerifiedSteps, At, Began, Free,
         FilesUntouched, CallT, Call
<1>8. Known'
  BY <1>1, <1>3, NoFileAssumption
     DEF StoreBegin, Safety, Known, At, Began, Free, FilesUntouched, CallT,
         Call
<1>9. Keeps
  BY NoFileAssumption
     DEF StoreBegin, Safety, TypeOK, Keeps, HasName, Unlinkable, Known,
         VerifiedSteps, At, Began, Free, FilesUntouched
<1>. QED
  BY <1>4, <1>5, <1>6, <1>7, <1>8, <1>9 DEF Safety

LEMMA ReuseSafety ==
    ASSUME Safety, NEW s \in Storages, Reuse(s)
    PROVE  Safety' /\ Keeps
<1>1. CallT
  BY DEF Safety, TypeOK, CallT, Call
<1>2. /\ CallT'
      /\ \A t \in Storages : t # s => call'[t] = call[t]
  BY <1>1, EndedFact, MovedFact, SMT DEF Reuse, Steps, CallT, Call
<1>3. TypeOK'
  BY <1>1, <1>2, EndedFact, MovedFact, IntactAssumption
     DEF Reuse, At, FilesUntouched, Safety, TypeOK, Known, CallT, Call, Steps
<1>4. Turns'
  BY <1>1, <1>2, EndedFact, MovedFact, NoStorageAssumption
     DEF Reuse, At, FilesUntouched, Safety, Turns, LockedSteps, Steps
<1>5. Exclusive'
  BY <1>1, <1>2, EndedFact, MovedFact
     DEF Reuse, At, FilesUntouched, Safety, Exclusive, Turns, LockedSteps,
         Steps
<1>6. Unlinkable'
  BY <1>1, <1>2, EndedFact, MovedFact, NoFileAssumption
     DEF Reuse, At, FilesUntouched, Safety, Unlinkable, VerifiedSteps, Steps
<1>7. Known'
  BY <1>1, <1>2, EndedFact, MovedFact, NoFileAssumption
     DEF Reuse, At, FilesUntouched, Safety, Known, Steps
<1>8. Keeps
  BY <1>1, <1>2, EndedFact, MovedFact, NoFileAssumption
     DEF Reuse, At, FilesUntouched, Safety, TypeOK, Keeps, HasName, Unlinkable,
         Known, VerifiedSteps, Steps
<1>. QED
  BY <1>3, <1>4, <1>5, <1>6, <1>7, <1>8 DEF Safety

LEMMA LinkSafety ==
    ASSUME Safety, NEW s \in Storages, Link(s)
    PROVE  Safety' /\ Keeps
<1>1. CallT
  BY DEF Safety, TypeOK, CallT, Call
<1>2. PICK f \in Intact \ made :
         /\ leaf' = f
         /\ made' = made \union {f}
         /\ call' = [call EXCEPT ![s].at = "record", ![s].linked = f]
  BY DEF Link
<1>3. /\ CallT'
      /\ \A t \in Storages : t # s => call'[t] = call[t]
      /\ call'[s].at = "record"
      /\ call'[s].held = call[s].held
      /\ call'[s].linked = f
  <2>1. call \in [Storages -> Call] /\ call[s] \in Call
    BY <1>1 DEF CallT
  <2>. QED
    BY <1>2, <2>1, IntactAssumption DEF CallT, Call, Steps
<1>4. TypeOK'
  BY <1>1, <1>2, <1>3, IntactAssumption, NoFileAssumption
     DEF Link, Safety, TypeOK, Rows, At, Untouched, CallT, Call
<1>5. Turns'
  BY <1>1, <1>2, <1>3, NoStorageAssumption
     DEF Link, Safety, Turns, LockedSteps, At, Untouched, CallT, Call
<1>6. Exclusive'
  BY DEF Link, Safety, TypeOK, Rows, Exclusive, Turns, At, Untouched
<1>7. Unlinkable'
  BY <1>1, <1>2, <1>3, IntactAssumption, NoFileAssumption
     DEF Link, Safety, Unlinkable, VerifiedSteps, At, Untouched, CallT, Call
<1>8. Known'
  BY <1>1, <1>2, <1>3, NoFileAssumption
     DEF Link, Safety, Known, At, Untouched, CallT, Call
<1>9. Keeps
  BY NoFileAssumption
     DEF Link, Safety, TypeOK, Keeps, HasName, Unlinkable, Known,
         VerifiedSteps, At, Untouched
<1>. QED
  BY <1>4, <1>5, <1>6, <1>7, <1>8, <1>9 DEF Safety

LEMMA LinkFailsSafety ==
    ASSUME Safety, NEW s \in Storages, LinkFails(s)
    PROVE  Safety' /\ Keeps
<1>1. CallT
  BY DEF Safety, TypeOK, CallT, Call
<1>2. PICK f \in Intact \ made :
         /\ leaf' = f
         /\ made' = made \union {f}
         /\ \E j \in {f, NoFile} :
              call' = [call EXCEPT ![s].at = "undo", ![s].pinned = f,
                                   ![s].linked = j]
  BY DEF LinkFails
<1>3. /\ CallT'
      /\ \A t \in Storages : t # s => call'[t] = call[t]
      /\ call'[s].at = "undo"
      /\ call'[s].held = call[s].held
      /\ call'[s].pinned = f
      /\ call'[s].linked \in {f, NoFile}
  <2>1. call \in [Storages -> Call] /\ call[s] \in Call
    BY <1>1 DEF CallT
  <2>2. PICK j \in {f, NoFile} :
           call' = [call EXCEPT ![s].at = "undo", ![s].pinned = f,
                                ![s].linked = j]
    BY <1>2
  <2>3. f \in Files /\ j \in Files \union {NoFile}
    BY IntactAssumption
  <2>4. /\ call'[s] = [call[s] EXCEPT !.at = "undo", !.pinned = f, !.linked = j]
        /\ \A t \in Storages : t # s => call'[t] = call[t]
        /\ DOMAIN call' = Storages /\ call' = [t \in Storages |-> call'[t]]
    BY <2>1, <2>2
  <2>5. call'[s] = [at |-> "undo", held |-> call[s].held, pinned |-> f,
                    linked |-> j, calls |-> call[s].calls]
    BY <2>1, <2>4 DEF Call
  <2>6. call'[s] \in Call
    BY <2>1, <2>3, <2>5 DEF Call, Steps
  <2>. QED
    BY <2>1, <2>4, <2>5, <2>6 DEF CallT
<1>4. TypeOK'
  <2>1. Untouched /\ aside' = aside /\ marks' = marks
    BY DEF LinkFails
  <2>2. RestT'
    BY <1>2, <2>1, IntactAssumption DEF Untouched, Safety, TypeOK, RestT
  <2>. QED
    BY <1>3, <2>2 DEF RestT, TypeOK, CallT, Call
<1>5. Turns'
  BY <1>1, <1>2, <1>3, NoStorageAssumption
     DEF LinkFails, Safety, Turns, LockedSteps, At, Untouched, CallT, Call
<1>6. Exclusive'
  BY DEF LinkFails, Safety, TypeOK, Rows, Exclusive, Turns, At, Untouched
<1>7. Unlinkable'
  BY <1>1, <1>2, <1>3, IntactAssumption, NoFileAssumption
     DEF LinkFails, Safety, Unlinkable, VerifiedSteps, At, Untouched, CallT,
         Call
<1>8. Known'
  BY <1>1, <1>2, <1>3, NoFileAssumption
     DEF LinkFails, Safety, Known, At, Untouched, CallT, Call
<1>9. Keeps
  BY NoFileAssumption
     DEF LinkFails, Safety, TypeOK, Keeps, HasName, Unlinkable, Known,
         VerifiedSteps, At, Untouched
<1>. QED
  BY <1>4, <1>5, <1>6, <1>7, <1>8, <1>9 DEF Safety

LEMMA UndoSafety ==
    ASSUME Safety, NEW s \in Storages, Undo(s)
    PROVE  Safety' /\ Keeps
<1>1. CallT
  BY DEF Safety, TypeOK, CallT, Call
<1>2. /\ CallT'
      /\ \A t \in Storages : t # s => call'[t] = call[t]
  BY <1>1, EndedFact, MovedFact, SMT DEF Undo, Checks, Steps, CallT, Call
<1>3. TypeOK'
  BY <1>1, <1>2, EndedFact, MovedFact, IntactAssumption
     DEF Undo, Checks, At, Untouched, FilesUntouched, Safety, TypeOK, Known,
         CallT, Call, Steps
<1>4. Turns'
  BY <1>1, <1>2, EndedFact, MovedFact, NoStorageAssumption
     DEF Undo, Checks, At, Untouched, FilesUntouched, Safety, Turns,
         LockedSteps, Steps
<1>5. Exclusive'
  BY <1>1, <1>2, EndedFact, MovedFact
     DEF Undo, Checks, At, Untouched, FilesUntouched, Safety, Exclusive, Turns,
         LockedSteps, Steps
<1>6. Unlinkable'
  BY <1>1, <1>2, EndedFact, MovedFact, NoFileAssumption
     DEF Undo, Checks, At, Untouched, FilesUntouched, Safety, Unlinkable,
         VerifiedSteps, Steps
<1>7. Known'
  BY <1>1, <1>2, EndedFact, MovedFact, NoFileAssumption
     DEF Undo, Checks, At, Untouched, FilesUntouched, Safety, Known, Steps
<1>8. Keeps
  BY <1>1, <1>2, EndedFact, MovedFact, NoFileAssumption
     DEF Undo, Checks, At, Untouched, FilesUntouched, Safety, TypeOK, Keeps,
         HasName, Unlinkable, Known, VerifiedSteps, Steps
<1>. QED
  BY <1>3, <1>4, <1>5, <1>6, <1>7, <1>8 DEF Safety

LEMMA UnlinkSafety ==
    ASSUME Safety, NEW s \in Storages, Unlink(s)
    PROVE  Safety'
<1>1. CallT
  BY DEF Safety, TypeOK, CallT, Call
<1>2. /\ CallT'
      /\ \A t \in Storages : t # s => call'[t] = call[t]
  BY <1>1, EndedFact, MovedFact, SMT DEF Unlink, Unlinks, Steps, CallT, Call
<1>3. TypeOK'
  BY <1>1, <1>2, EndedFact, MovedFact, IntactAssumption
     DEF Unlink, Unlinks, At, Untouched, Safety, TypeOK, Known, CallT, Call,
         Steps
<1>4. Turns'
  BY <1>1, <1>2, EndedFact, MovedFact, NoStorageAssumption
     DEF Unlink, Unlinks, At, Untouched, Safety, Turns, LockedSteps, Steps
<1>5. Exclusive'
  BY <1>1, <1>2, EndedFact, MovedFact
     DEF Unlink, Unlinks, At, Untouched, Safety, Exclusive, Turns, LockedSteps,
         Steps
<1>6. Unlinkable'
  BY <1>1, <1>2, EndedFact, MovedFact, NoFileAssumption
     DEF Unlink, Unlinks, At, Untouched, Safety, Unlinkable, VerifiedSteps,
         Steps
<1>7. Known'
  BY <1>1, <1>2, EndedFact, MovedFact, NoFileAssumption
     DEF Unlink, Unlinks, At, Untouched, Safety, Known, Steps
<1>. QED
  BY <1>3, <1>4, <1>5, <1>6, <1>7 DEF Safety

LEMMA StoreCommitSafety ==
    ASSUME Safety, NEW s \in Storages, StoreCommit(s)
    PROVE  Safety' /\ Keeps
<1>1. CallT
  BY DEF Safety, TypeOK, CallT, Call
<1>2. /\ CallT'
      /\ \A t \in Storages : t # s => call'[t] = call[t]
  BY <1>1, EndedFact, MovedFact, SMT
     DEF StoreCommit, Steps, Unwind, CallT, Call
<1>3. TypeOK'
  <2>1. /\ db' \in Rows
        /\ txn' \in Rows
        /\ proved' \in BOOLEAN
    <3>1. CASE /\ db' = [row |-> TRUE, refs |-> TRUE, versions |-> TRUE,
                          marker |-> FALSE]
                /\ txn' = db'
                /\ proved' = (proved /\ db.row)
      BY <3>1 DEF Safety, TypeOK, Rows
    <3>2. CASE txn' = db /\ UNCHANGED <<db, proved>>
      BY <3>2 DEF Safety, TypeOK
    <3>. QED
      BY <3>1, <3>2 DEF StoreCommit
  <2>2. /\ writer' = NoStorage
        /\ FilesUntouched
        /\ marks' = marks
    BY DEF StoreCommit
  <2>. QED
    BY <1>2, <2>1, <2>2 DEF Safety, TypeOK, FilesUntouched, CallT, Call
<1>4. Turns'
  BY <1>1, <1>2, EndedFact, MovedFact, NoStorageAssumption
     DEF StoreCommit, Safety, Turns, LockedSteps, At, FilesUntouched, Unwind,
         CallT, Call, Steps
<1>5. Exclusive'
  BY
     DEF StoreCommit, Safety, TypeOK, Rows, Exclusive, Turns, At,
         FilesUntouched, Unwind
<1>6. Unlinkable'
  BY <1>1, <1>2, EndedFact, MovedFact, IntactAssumption, NoFileAssumption
     DEF StoreCommit, Safety, Unlinkable, VerifiedSteps, At, FilesUntouched,
         Unwind, CallT, Call, Steps
<1>7. Known'
  BY <1>1, <1>2, EndedFact, MovedFact, NoFileAssumption
     DEF StoreCommit, Safety, Known, At, FilesUntouched, Unwind, CallT, Call,
         Steps
<1>8. Keeps
  BY NoFileAssumption
     DEF StoreCommit, Safety, TypeOK, Keeps, HasName, Unlinkable, Known,
         VerifiedSteps, At, FilesUntouched, Unwind
<1>. QED
  BY <1>3, <1>4, <1>5, <1>6, <1>7, <1>8 DEF Safety

LEMMA StoreFailsSafety ==
    ASSUME Safety, NEW s \in Storages, StoreFails(s)
    PROVE  Safety' /\ Keeps
<1>1. CallT
  BY DEF Safety, TypeOK, CallT, Call
<1>2. /\ CallT'
      /\ \A t \in Storages : t # s => call'[t] = call[t]
  BY <1>1, EndedFact, MovedFact, SMT
     DEF StoreFails, Steps, Unwind, CallT, Call
<1>3. TypeOK'
  BY <1>1, <1>2, EndedFact, MovedFact, IntactAssumption
     DEF StoreFails, At, RolledBack, FilesUntouched, Unwind, Safety, TypeOK,
         Known, CallT, Call, Steps
<1>4. Turns'
  BY <1>1, <1>2, EndedFact, MovedFact, NoStorageAssumption
     DEF StoreFails, At, RolledBack, FilesUntouched, Unwind, Safety, Turns,
         LockedSteps, Steps
<1>5. Exclusive'
  BY <1>1, <1>2, EndedFact, MovedFact
     DEF StoreFails, At, RolledBack, FilesUntouched, Unwind, Safety, Exclusive,
         Turns, LockedSteps, Steps
<1>6. Unlinkable'
  BY <1>1, <1>2, EndedFact, MovedFact, NoFileAssumption
     DEF StoreFails, At, RolledBack, FilesUntouched, Unwind, Safety,
         Unlinkable, VerifiedSteps, Steps
<1>7. Known'
  BY <1>1, <1>2, EndedFact, MovedFact, NoFileAssumption
     DEF StoreFails, At, RolledBack, FilesUntouched, Unwind, Safety, Known,
         Steps
<1>8. Keeps
  BY <1>1, <1>2, EndedFact, MovedFact, NoFileAssumption
     DEF StoreFails, At, RolledBack, FilesUntouched, Unwind, Safety, TypeOK,
         Keeps, HasName, Unlinkable, Known, VerifiedSteps, Steps
<1>. QED
  BY <1>3, <1>4, <1>5, <1>6, <1>7, <1>8 DEF Safety

LEMMA UnpublishSafety ==
    ASSUME Safety, NEW s \in Storages, Unpublish(s)
    PROVE  Safety' /\ Keeps
<1>1. CallT
  BY DEF Safety, TypeOK, CallT, Call
<1>2. /\ CallT'
      /\ \A t \in Storages : t # s => call'[t] = call[t]
  BY <1>1, EndedFact, MovedFact, SMT DEF Unpublish, Steps, CallT, Call
<1>3. \/ call'[s].at = "idle" /\ leaf' = leaf /\ aside' = aside
      \/ /\ leaf # NoFile /\ leaf' = NoFile
         /\ aside' = aside \union {leaf}
         /\ call'[s].at = "sort" /\ call'[s].held = leaf
         /\ call'[s].linked = call[s].linked
         /\ call'[s].pinned = call[s].pinned
  BY <1>1, EndedFact DEF Unpublish, CallT, Call
<1>4. TypeOK'
  BY <1>1, <1>2, <1>3, EndedFact, MovedFact, IntactAssumption
     DEF Unpublish, At, Untouched, Safety, TypeOK, Known, CallT, Call, Steps
<1>5. Turns'
  BY <1>1, <1>2, <1>3, EndedFact, MovedFact, NoStorageAssumption
     DEF Unpublish, At, Untouched, Safety, Turns, LockedSteps, Steps
<1>6. Exclusive'
  BY <1>1, <1>2, <1>3, EndedFact, MovedFact
     DEF Unpublish, At, Untouched, Safety, Exclusive, Turns, LockedSteps, Steps
<1>7. Unlinkable'
  BY <1>1, <1>2, <1>3, EndedFact, MovedFact, NoFileAssumption
     DEF Unpublish, At, Untouched, Safety, Unlinkable, VerifiedSteps, Steps
<1>8. Known'
  BY <1>1, <1>2, <1>3, EndedFact, MovedFact, NoFileAssumption
     DEF Unpublish, At, Untouched, Safety, Known, Steps
<1>9. Keeps
  BY <1>1, <1>2, <1>3, EndedFact, MovedFact, NoFileAssumption
     DEF Unpublish, At, Untouched, Safety, TypeOK, Keeps, HasName, Unlinkable,
         Known, VerifiedSteps, Steps
<1>. QED
  BY <1>4, <1>5, <1>6, <1>7, <1>8, <1>9 DEF Safety

LEMMA SortSafety ==
    ASSUME Safety, NEW s \in Storages, Sort(s)
    PROVE  Safety' /\ Keeps
<1>1. CallT
  BY DEF Safety, TypeOK, CallT, Call
<1>2. /\ CallT'
      /\ \A t \in Storages : t # s => call'[t] = call[t]
  BY <1>1, EndedFact, MovedFact, SMT DEF Sort, Steps, CallT, Call
<1>3. TypeOK'
  <2>1. RestT
    BY DEF Safety, TypeOK, RestT
  <2>2. call[s].held \in Files \union {NoFile}
    BY <1>1 DEF CallT, Call
  <2>3. /\ leaf' \in {leaf, call[s].held}
        /\ aside' \in {aside, aside \ {call[s].held}}
    BY DEF Sort, Relinked
  <2>4. marks' \in {marks, marks \union {"stranded"}}
    BY DEF Sort
  <2>5. RestT'
    BY <2>1, <2>2, <2>3, <2>4 DEF Sort, Untouched, RestT
  <2>. QED
    BY <1>2, <2>5 DEF RestT, TypeOK, CallT, Call
<1>4. Turns'
  BY <1>1, <1>2, EndedFact, MovedFact, NoStorageAssumption
     DEF Sort, At, Untouched, Relinked, Safety, Turns, LockedSteps, Steps
<1>5. Exclusive'
  BY <1>1, <1>2, EndedFact, MovedFact
     DEF Sort, At, Untouched, Relinked, Safety, Exclusive, Turns, LockedSteps,
         Steps
<1>6. Unlinkable'
  BY <1>1, <1>2, EndedFact, MovedFact, NoFileAssumption
     DEF Sort, At, Untouched, Relinked, Safety, Unlinkable, VerifiedSteps,
         Steps
<1>7. Known'
  BY <1>1, <1>2, EndedFact, MovedFact, NoFileAssumption
     DEF Sort, At, Untouched, Relinked, Safety, Known, Steps
<1>8. Keeps
  BY <1>1, <1>2, EndedFact, MovedFact, NoFileAssumption
     DEF Sort, At, Untouched, Relinked, Safety, TypeOK, Keeps, HasName,
         Unlinkable, Known, VerifiedSteps, Steps
<1>. QED
  BY <1>3, <1>4, <1>5, <1>6, <1>7, <1>8 DEF Safety

LEMMA PruneBeginSafety ==
    ASSUME Safety, NEW s \in Storages, PruneBegin(s)
    PROVE  Safety' /\ Keeps
<1>1. CallT
  BY DEF Safety, TypeOK, CallT, Call
<1>2. call' = [call EXCEPT ![s].at = "move", ![s].held = leaf,
                              ![s].calls = @ + 1]
  BY DEF PruneBegin
<1>3. /\ CallT'
      /\ \A t \in Storages : t # s => call'[t] = call[t]
      /\ call'[s].at = "move"
      /\ call'[s].held = leaf
      /\ call'[s].linked = call[s].linked
  <2>1. call \in [Storages -> Call] /\ call[s] \in Call
    BY <1>1 DEF CallT
  <2>2. call[s].calls + 1 \in 0..MaxCalls
    BY <2>1, BoundsAssumption DEF PruneBegin, Call
  <2>3. leaf \in Files \union {NoFile}
    BY DEF Safety, TypeOK
  <2>. QED
    BY <1>2, <2>1, <2>2, <2>3 DEF CallT, Call, Steps
<1>4. TypeOK'
  BY <1>1, <1>3, <1>3, IntactAssumption, NoFileAssumption
     DEF PruneBegin, Safety, TypeOK, Rows, At, Began, Free, FilesUntouched,
         CallT, Call
<1>5. Turns'
  BY <1>1, <1>3, NoStorageAssumption
     DEF PruneBegin, Safety, Turns, LockedSteps, At, Began, Free,
         FilesUntouched, CallT, Call
<1>6. Exclusive'
  BY
     DEF PruneBegin, Safety, TypeOK, Rows, Exclusive, Turns, At, Began, Free,
         FilesUntouched
<1>7. Unlinkable'
  BY <1>1, <1>3, IntactAssumption, NoFileAssumption
     DEF PruneBegin, Safety, Unlinkable, VerifiedSteps, At, Began, Free,
         FilesUntouched, CallT, Call
<1>8. Known'
  BY <1>1, <1>3, NoFileAssumption
     DEF PruneBegin, Safety, Known, At, Began, Free, FilesUntouched, CallT,
         Call
<1>9. Keeps
  BY NoFileAssumption
     DEF PruneBegin, Safety, TypeOK, Keeps, HasName, Unlinkable, Known,
         VerifiedSteps, At, Began, Free, FilesUntouched
<1>. QED
  BY <1>4, <1>5, <1>6, <1>7, <1>8, <1>9 DEF Safety

LEMMA MoveAsideSafety ==
    ASSUME Safety, NEW s \in Storages, MoveAside(s)
    PROVE  Safety' /\ Keeps
<1>1. CallT
  BY DEF Safety, TypeOK, CallT, Call
<1>2. /\ CallT'
      /\ \A t \in Storages : t # s => call'[t] = call[t]
  BY <1>1, EndedFact, MovedFact, SMT DEF MoveAside, Steps, CallT, Call
<1>3. TypeOK'
  BY <1>1, <1>2, IntactAssumption, NoFileAssumption
     DEF MoveAside, Safety, TypeOK, Rows, At, Untouched, CallT, Call, Steps,
         Known
<1>4. Turns'
  BY <1>1, <1>2, EndedFact, MovedFact, NoStorageAssumption
     DEF MoveAside, Safety, Turns, LockedSteps, At, Untouched, CallT, Call,
         Steps
<1>5. Exclusive'
  BY DEF MoveAside, Safety, TypeOK, Rows, Exclusive, Turns, At, Untouched
<1>6. Unlinkable'
  BY <1>1, <1>2, EndedFact, MovedFact, IntactAssumption, NoFileAssumption
     DEF MoveAside, Safety, Unlinkable, VerifiedSteps, At, Untouched, CallT,
         Call, Steps
<1>7. Known'
  BY <1>1, <1>2, EndedFact, MovedFact, NoFileAssumption
     DEF MoveAside, Safety, Known, At, Untouched, CallT, Call, Steps
<1>8. Keeps
  BY NoFileAssumption
     DEF MoveAside, Safety, TypeOK, Keeps, HasName, Unlinkable, Known,
         VerifiedSteps, At, Untouched
<1>. QED
  BY <1>3, <1>4, <1>5, <1>6, <1>7, <1>8 DEF Safety

LEMMA MoveRefusedSafety ==
    ASSUME Safety, NEW s \in Storages, MoveRefused(s)
    PROVE  Safety' /\ Keeps
<1>1. CallT
  BY DEF Safety, TypeOK, CallT, Call
<1>2. /\ CallT'
      /\ \A t \in Storages : t # s => call'[t] = call[t]
  BY <1>1, EndedFact, MovedFact, SMT DEF MoveRefused, Steps, CallT, Call
<1>3. TypeOK'
  BY <1>1, <1>2, EndedFact, MovedFact, IntactAssumption
     DEF MoveRefused, At, RolledBack, FilesUntouched, Safety, TypeOK, Known,
         CallT, Call, Steps
<1>4. Turns'
  BY <1>1, <1>2, EndedFact, MovedFact, NoStorageAssumption
     DEF MoveRefused, At, RolledBack, FilesUntouched, Safety, Turns,
         LockedSteps, Steps
<1>5. Exclusive'
  BY <1>1, <1>2, EndedFact, MovedFact
     DEF MoveRefused, At, RolledBack, FilesUntouched, Safety, Exclusive, Turns,
         LockedSteps, Steps
<1>6. Unlinkable'
  BY <1>1, <1>2, EndedFact, MovedFact, NoFileAssumption
     DEF MoveRefused, At, RolledBack, FilesUntouched, Safety, Unlinkable,
         VerifiedSteps, Steps
<1>7. Known'
  BY <1>1, <1>2, EndedFact, MovedFact, NoFileAssumption
     DEF MoveRefused, At, RolledBack, FilesUntouched, Safety, Known, Steps
<1>8. Keeps
  BY <1>1, <1>2, EndedFact, MovedFact, NoFileAssumption
     DEF MoveRefused, At, RolledBack, FilesUntouched, Safety, TypeOK, Keeps,
         HasName, Unlinkable, Known, VerifiedSteps, Steps
<1>. QED
  BY <1>3, <1>4, <1>5, <1>6, <1>7, <1>8 DEF Safety

LEMMA MoveFailsSafety ==
    ASSUME Safety, NEW s \in Storages, MoveFails(s)
    PROVE  Safety' /\ Keeps
<1>1. CallT
  BY DEF Safety, TypeOK, CallT, Call
<1>2. call' = [call EXCEPT ![s].at = "inspect", ![s].held = NoFile]
  BY DEF MoveFails
<1>3. /\ CallT'
      /\ \A t \in Storages : t # s => call'[t] = call[t]
      /\ call'[s].at = "inspect"
      /\ call'[s].held = NoFile
      /\ call'[s].linked = call[s].linked
  <2>1. call \in [Storages -> Call] /\ call[s] \in Call
    BY <1>1 DEF CallT
  <2>. QED
    BY <1>2, <2>1 DEF CallT, Call, Steps
<1>4. TypeOK'
  BY <1>1, <1>3, <1>3, IntactAssumption, NoFileAssumption
     DEF MoveFails, Safety, TypeOK, Rows, At, Untouched, CallT, Call
<1>5. Turns'
  BY <1>1, <1>3, NoStorageAssumption
     DEF MoveFails, Safety, Turns, LockedSteps, At, Untouched, CallT, Call
<1>6. Exclusive'
  BY DEF MoveFails, Safety, TypeOK, Rows, Exclusive, Turns, At, Untouched
<1>7. Unlinkable'
  BY <1>1, <1>3, IntactAssumption, NoFileAssumption
     DEF MoveFails, Safety, Unlinkable, VerifiedSteps, At, Untouched, CallT,
         Call
<1>8. Known'
  BY <1>1, <1>3, NoFileAssumption
     DEF MoveFails, Safety, Known, At, Untouched, CallT, Call
<1>9. Keeps
  BY NoFileAssumption
     DEF MoveFails, Safety, TypeOK, Keeps, HasName, Unlinkable, Known,
         VerifiedSteps, At, Untouched
<1>. QED
  BY <1>4, <1>5, <1>6, <1>7, <1>8, <1>9 DEF Safety

LEMMA InspectSafety ==
    ASSUME Safety, NEW s \in Storages, Inspect(s)
    PROVE  Safety' /\ Keeps
<1>1. CallT
  BY DEF Safety, TypeOK, CallT, Call
<1>2. /\ CallT'
      /\ \A t \in Storages : t # s => call'[t] = call[t]
  BY <1>1, EndedFact, MovedFact, SMT DEF Inspect, Steps, CallT, Call
<1>3. TypeOK'
  <2>1. RestT
    BY DEF Safety, TypeOK, RestT
  <2>2. RestT'
    BY <2>1 DEF RestT, Inspect, RolledBack, FilesUntouched, Rows
  <2>. QED  BY <1>2, <2>2 DEF TypeOK, RestT, CallT, Call
<1>4. Turns'
  BY <1>1, <1>2, EndedFact, MovedFact, NoStorageAssumption
     DEF Inspect, Safety, Turns, LockedSteps, At, RolledBack, FilesUntouched,
         CallT, Call, Steps
<1>5. Exclusive'
  BY
     DEF Inspect, Safety, TypeOK, Rows, Exclusive, Turns, At, RolledBack,
         FilesUntouched
<1>6. Unlinkable'
  BY <1>1, <1>2, EndedFact, MovedFact, IntactAssumption, NoFileAssumption
     DEF Inspect, Safety, Unlinkable, VerifiedSteps, At, RolledBack,
         FilesUntouched, CallT, Call, Steps
<1>7. Known'
  BY <1>1, <1>2, EndedFact, MovedFact, NoFileAssumption
     DEF Inspect, Safety, Known, At, RolledBack, FilesUntouched, CallT, Call,
         Steps
<1>8. Keeps
  BY NoFileAssumption
     DEF Inspect, Safety, TypeOK, Keeps, HasName, Unlinkable, Known,
         VerifiedSteps, At, RolledBack, FilesUntouched
<1>. QED
  BY <1>3, <1>4, <1>5, <1>6, <1>7, <1>8 DEF Safety

LEMMA VerifySafety ==
    ASSUME Safety, NEW s \in Storages, Verify(s)
    PROVE  Safety' /\ Keeps
<1>1. CallT
  BY DEF Safety, TypeOK, CallT, Call
<1>2. /\ CallT'
      /\ \A t \in Storages : t # s => call'[t] = call[t]
  BY <1>1, EndedFact, MovedFact, SMT DEF Verify, Steps, CallT, Call
<1>3. TypeOK'
  BY <1>1, <1>2, IntactAssumption, NoFileAssumption
     DEF Verify, Safety, TypeOK, Rows, At, FilesUntouched, CallT, Call, Steps
<1>4. Turns'
  BY <1>1, <1>2, EndedFact, MovedFact, NoStorageAssumption
     DEF Verify, Safety, Turns, LockedSteps, At, FilesUntouched, CallT, Call,
         Steps
<1>5. Exclusive'
  BY DEF Verify, Safety, TypeOK, Rows, Exclusive, Turns, At, FilesUntouched
<1>6. Unlinkable'
  BY <1>1, <1>2, EndedFact, MovedFact, IntactAssumption, NoFileAssumption
     DEF Verify, Safety, Unlinkable, VerifiedSteps, At, FilesUntouched, CallT,
         Call, Steps
<1>7. Known'
  BY <1>1, <1>2, EndedFact, MovedFact, NoFileAssumption
     DEF Verify, Safety, Known, At, FilesUntouched, CallT, Call, Steps
<1>8. Keeps
  BY NoFileAssumption
     DEF Verify, Safety, TypeOK, Keeps, HasName, Unlinkable, Known,
         VerifiedSteps, At, FilesUntouched
<1>. QED
  BY <1>3, <1>4, <1>5, <1>6, <1>7, <1>8 DEF Safety

LEMMA PruneCommitSafety ==
    ASSUME Safety, NEW s \in Storages, PruneCommit(s)
    PROVE  Safety' /\ Keeps
<1>1. CallT
  BY DEF Safety, TypeOK, CallT, Call
<1>2. /\ CallT'
      /\ \A t \in Storages : t # s => call'[t] = call[t]
  BY <1>1, EndedFact, MovedFact, SMT
     DEF PruneCommit, Steps, Commits, CallT, Call
<1>3. TypeOK'
  <2>1. /\ db' \in Rows /\ txn' \in Rows
        /\ writer' \in Storages \union {NoStorage}
        /\ proved' \in BOOLEAN
    BY DEF PruneCommit, Commits, Committed, RolledBack, Safety, TypeOK
  <2>2. UNCHANGED <<leaf, aside, made, marks>>
    BY DEF PruneCommit, FilesUntouched
  <2>. QED
    BY <1>2, <2>1, <2>2 DEF Safety, TypeOK, CallT, Call
<1>4. Turns'
  BY <1>1, <1>2, EndedFact, MovedFact, NoStorageAssumption
     DEF PruneCommit, At, Committed, RolledBack, FilesUntouched, Commits,
         Safety, Turns, LockedSteps, Steps
<1>5. Exclusive'
  BY <1>1, <1>2, EndedFact, MovedFact
     DEF PruneCommit, At, Committed, RolledBack, FilesUntouched, Commits,
         Safety, Exclusive, Turns, LockedSteps, Steps
<1>6. Unlinkable'
  BY <1>1, <1>2, EndedFact, MovedFact, NoFileAssumption
     DEF PruneCommit, At, Committed, RolledBack, FilesUntouched, Commits,
         Safety, Unlinkable, VerifiedSteps, Steps
<1>7. Known'
  BY <1>1, <1>2, EndedFact, MovedFact, NoFileAssumption
     DEF PruneCommit, At, Committed, RolledBack, FilesUntouched, Commits,
         Safety, Known, Steps
<1>8. Keeps
  BY <1>1, <1>2, EndedFact, MovedFact, NoFileAssumption
     DEF PruneCommit, At, Committed, RolledBack, FilesUntouched, Commits,
         Safety, TypeOK, Keeps, HasName, Unlinkable, Known, VerifiedSteps,
         Steps
<1>. QED
  BY <1>3, <1>4, <1>5, <1>6, <1>7, <1>8 DEF Safety

LEMMA DeleteSafety ==
    ASSUME Safety, NEW s \in Storages, Delete(s)
    PROVE  Safety' /\ Keeps
<1>1. CallT
  BY DEF Safety, TypeOK, CallT, Call
<1>2. /\ CallT'
      /\ \A t \in Storages : t # s => call'[t] = call[t]
  BY <1>1, EndedFact, MovedFact, SMT DEF Delete, Steps, CallT, Call
<1>3. TypeOK'
  BY <1>1, <1>2, EndedFact, MovedFact, IntactAssumption
     DEF Delete, At, Untouched, Safety, TypeOK, Known, CallT, Call, Steps
<1>4. Turns'
  BY <1>1, <1>2, EndedFact, MovedFact, NoStorageAssumption
     DEF Delete, At, Untouched, Safety, Turns, LockedSteps, Steps
<1>5. Exclusive'
  BY <1>1, <1>2, EndedFact, MovedFact
     DEF Delete, At, Untouched, Safety, Exclusive, Turns, LockedSteps, Steps
<1>6. Unlinkable'
  BY <1>1, <1>2, EndedFact, MovedFact, NoFileAssumption
     DEF Delete, At, Untouched, Safety, Unlinkable, VerifiedSteps, Steps
<1>7. Known'
  BY <1>1, <1>2, EndedFact, MovedFact, NoFileAssumption
     DEF Delete, At, Untouched, Safety, Known, Steps
<1>8. Keeps
  BY <1>1, <1>2, EndedFact, MovedFact, NoFileAssumption
     DEF Delete, At, Untouched, Safety, TypeOK, Keeps, HasName, Unlinkable,
         Known, VerifiedSteps, Steps
<1>. QED
  BY <1>3, <1>4, <1>5, <1>6, <1>7, <1>8 DEF Safety

LEMMA RestoreSafety ==
    ASSUME Safety, NEW s \in Storages, Restore(s)
    PROVE  Safety' /\ Keeps
<1>1. CallT
  BY DEF Safety, TypeOK, CallT, Call
<1>2. /\ CallT'
      /\ \A t \in Storages : t # s => call'[t] = call[t]
  BY <1>1, EndedFact, MovedFact, SMT DEF Restore, Steps, CallT, Call
<1>3. TypeOK'
  BY <1>1, <1>2, EndedFact, MovedFact, IntactAssumption
     DEF Restore, At, Untouched, Relinked, Safety, TypeOK, Known, CallT, Call,
         Steps
<1>4. Turns'
  BY <1>1, <1>2, EndedFact, MovedFact, NoStorageAssumption
     DEF Restore, At, Untouched, Relinked, Safety, Turns, LockedSteps, Steps
<1>5. Exclusive'
  BY <1>1, <1>2, EndedFact, MovedFact
     DEF Restore, At, Untouched, Relinked, Safety, Exclusive, Turns,
         LockedSteps, Steps
<1>6. Unlinkable'
  BY <1>1, <1>2, EndedFact, MovedFact, NoFileAssumption
     DEF Restore, At, Untouched, Relinked, Safety, Unlinkable, VerifiedSteps,
         Steps
<1>7. Known'
  BY <1>1, <1>2, EndedFact, MovedFact, NoFileAssumption
     DEF Restore, At, Untouched, Relinked, Safety, Known, Steps
<1>8. Keeps
  BY <1>1, <1>2, EndedFact, MovedFact, NoFileAssumption
     DEF Restore, At, Untouched, Relinked, Safety, TypeOK, Keeps, HasName,
         Unlinkable, Known, VerifiedSteps, Steps
<1>. QED
  BY <1>3, <1>4, <1>5, <1>6, <1>7, <1>8 DEF Safety

LEMMA PinSafety ==
    ASSUME Safety, NEW s \in Storages, Pin(s)
    PROVE  Safety' /\ Keeps
<1>1. CallT
  BY DEF Safety, TypeOK, CallT, Call
<1>2. /\ CallT'
      /\ \A t \in Storages : t # s => call'[t] = call[t]
  BY <1>1, EndedFact, MovedFact, SMT DEF Pin, Steps, CallT, Call
<1>3. \/ call'[s].at = "audit" /\ call'[s].held = call[s].held
         /\ call'[s].linked = call[s].linked
         /\ call'[s].pinned = call[s].pinned
      \/ /\ leaf \in Intact
         /\ call'[s].at = "reinsert" /\ call'[s].pinned = leaf
         /\ call'[s].linked = call[s].linked
         /\ call'[s].held = call[s].held
  BY <1>1, MovedFact DEF Pin, Steps, CallT, Call
<1>4. TypeOK'
  BY <1>1, <1>2, <1>3, EndedFact, MovedFact, IntactAssumption
     DEF Pin, At, Untouched, FilesUntouched, Safety, TypeOK, Known, CallT,
         Call, Steps
<1>5. Turns'
  BY <1>1, <1>2, <1>3, EndedFact, MovedFact, NoStorageAssumption
     DEF Pin, At, Untouched, FilesUntouched, Safety, Turns, LockedSteps, Steps
<1>6. Exclusive'
  BY <1>1, <1>2, <1>3, EndedFact, MovedFact
     DEF Pin, At, Untouched, FilesUntouched, Safety, Exclusive, Turns,
         LockedSteps, Steps
<1>7. Unlinkable'
  BY <1>1, <1>2, <1>3, EndedFact, MovedFact, NoFileAssumption
     DEF Pin, At, Untouched, FilesUntouched, Safety, Unlinkable, VerifiedSteps,
         Steps
<1>8. Known'
  BY <1>1, <1>2, <1>3, EndedFact, MovedFact, NoFileAssumption
     DEF Pin, At, Untouched, FilesUntouched, Safety, Known, Steps
<1>9. Keeps
  BY <1>1, <1>2, <1>3, EndedFact, MovedFact, NoFileAssumption
     DEF Pin, At, Untouched, FilesUntouched, Safety, TypeOK, Keeps, HasName,
         Unlinkable, Known, VerifiedSteps, Steps
<1>. QED
  BY <1>4, <1>5, <1>6, <1>7, <1>8, <1>9 DEF Safety

LEMMA ReinsertSafety ==
    ASSUME Safety, NEW s \in Storages, Reinsert(s)
    PROVE  Safety' /\ Keeps
<1>1. CallT
  BY DEF Safety, TypeOK, CallT, Call
<1>2. /\ CallT'
      /\ \A t \in Storages : t # s => call'[t] = call[t]
  BY <1>1, EndedFact, MovedFact, SMT DEF Reinsert, Steps, CallT, Call
<1>3. TypeOK'
  <2>1. RestT
    BY DEF Safety, TypeOK, RestT
  <2>2. RestT'
    BY <2>1 DEF RestT, Reinsert, Began, FilesUntouched, Rows
  <2>. QED  BY <1>2, <2>2 DEF TypeOK, RestT, CallT, Call
<1>4. Turns'
  BY <1>1, <1>2, EndedFact, MovedFact, NoStorageAssumption
     DEF Reinsert, Safety, Turns, LockedSteps, At, Began, Free, FilesUntouched,
         CallT, Call, Steps
<1>5. Exclusive'
  BY
     DEF Reinsert, Safety, TypeOK, Rows, Exclusive, Turns, At, Began, Free,
         FilesUntouched
<1>6. Unlinkable'
  BY <1>1, <1>2, EndedFact, MovedFact, IntactAssumption, NoFileAssumption
     DEF Reinsert, Safety, Unlinkable, VerifiedSteps, At, Began, Free,
         FilesUntouched, CallT, Call, Steps
<1>7. Known'
  BY <1>1, <1>2, EndedFact, MovedFact, NoFileAssumption
     DEF Reinsert, Safety, Known, At, Began, Free, FilesUntouched, CallT, Call,
         Steps
<1>8. Keeps
  BY NoFileAssumption
     DEF Reinsert, Safety, TypeOK, Keeps, HasName, Unlinkable, Known,
         VerifiedSteps, At, Began, Free, FilesUntouched
<1>. QED
  BY <1>3, <1>4, <1>5, <1>6, <1>7, <1>8 DEF Safety

LEMMA RecommitSafety ==
    ASSUME Safety, NEW s \in Storages, Recommit(s)
    PROVE  Safety' /\ Keeps
<1>1. CallT
  BY DEF Safety, TypeOK, CallT, Call
<1>2. /\ CallT'
      /\ \A t \in Storages : t # s => call'[t] = call[t]
  BY <1>1, EndedFact, MovedFact, SMT DEF Recommit, Steps, Commits, CallT, Call
<1>3. TypeOK'
  <2>1. /\ db' \in Rows /\ txn' \in Rows
        /\ writer' \in Storages \union {NoStorage}
        /\ proved' \in BOOLEAN
    BY DEF Recommit, Commits, Committed, RolledBack, Safety, TypeOK
  <2>2. UNCHANGED <<leaf, aside, made, marks>>
    BY DEF Recommit, FilesUntouched
  <2>. QED
    BY <1>2, <2>1, <2>2 DEF Safety, TypeOK, CallT, Call
<1>4. Turns'
  BY <1>1, <1>2, EndedFact, MovedFact, NoStorageAssumption
     DEF Recommit, At, Committed, RolledBack, FilesUntouched, Commits, Safety,
         Turns, LockedSteps, Steps
<1>5. Exclusive'
  BY <1>1, <1>2, EndedFact, MovedFact
     DEF Recommit, At, Committed, RolledBack, FilesUntouched, Commits, Safety,
         Exclusive, Turns, LockedSteps, Steps
<1>6. Unlinkable'
  BY <1>1, <1>2, EndedFact, MovedFact, NoFileAssumption
     DEF Recommit, At, Committed, RolledBack, FilesUntouched, Commits, Safety,
         Unlinkable, VerifiedSteps, Steps
<1>7. Known'
  BY <1>1, <1>2, EndedFact, MovedFact, NoFileAssumption
     DEF Recommit, At, Committed, RolledBack, FilesUntouched, Commits, Safety,
         Known, Steps
<1>8. Keeps
  BY <1>1, <1>2, EndedFact, MovedFact, NoFileAssumption
     DEF Recommit, At, Committed, RolledBack, FilesUntouched, Commits, Safety,
         TypeOK, Keeps, HasName, Unlinkable, Known, VerifiedSteps, Steps
<1>. QED
  BY <1>3, <1>4, <1>5, <1>6, <1>7, <1>8 DEF Safety

LEMMA ReproveSafety ==
    ASSUME Safety, NEW s \in Storages, Reprove(s)
    PROVE  Safety' /\ Keeps
<1>1. CallT
  BY DEF Safety, TypeOK, CallT, Call
<1>2. /\ CallT'
      /\ \A t \in Storages : t # s => call'[t] = call[t]
  BY <1>1, EndedFact, MovedFact, SMT DEF Reprove, Steps, CallT, Call
<1>3. TypeOK'
  <2>1. RestT
    BY DEF Safety, TypeOK, RestT
  <2>2. RestT'
    BY <2>1 DEF RestT, Reprove, FilesUntouched, Rows
  <2>. QED  BY <1>2, <2>2 DEF TypeOK, RestT, CallT, Call
<1>4. Turns'
  BY <1>1, <1>2, EndedFact, MovedFact, NoStorageAssumption
     DEF Reprove, Safety, Turns, LockedSteps, At, FilesUntouched, CallT, Call,
         Steps
<1>5. Exclusive'
  BY DEF Reprove, Safety, TypeOK, Rows, Exclusive, Turns, At, FilesUntouched
<1>6. Unlinkable'
  BY <1>1, <1>2, EndedFact, MovedFact, IntactAssumption, NoFileAssumption
     DEF Reprove, Safety, Unlinkable, VerifiedSteps, At, FilesUntouched, CallT,
         Call, Steps
<1>7. Known'
  BY <1>1, <1>2, EndedFact, MovedFact, NoFileAssumption
     DEF Reprove, Safety, Known, At, FilesUntouched, CallT, Call, Steps
<1>8. Keeps
  BY NoFileAssumption
     DEF Reprove, Safety, TypeOK, Keeps, HasName, Unlinkable, Known,
         VerifiedSteps, At, FilesUntouched
<1>. QED
  BY <1>3, <1>4, <1>5, <1>6, <1>7, <1>8 DEF Safety

LEMMA UnmarkSafety ==
    ASSUME Safety, NEW s \in Storages, Unmark(s)
    PROVE  Safety' /\ Keeps
<1>1. CallT
  BY DEF Safety, TypeOK, CallT, Call
<1>2. /\ CallT'
      /\ \A t \in Storages : t # s => call'[t] = call[t]
  BY <1>1, EndedFact, MovedFact, SMT DEF Unmark, Steps, CallT, Call
<1>3. TypeOK'
  <2>1. RestT
    BY DEF Safety, TypeOK, RestT
  <2>2. RestT'
    BY <2>1 DEF RestT, Unmark, CommittedAlone, Untouched, FilesUntouched, Rows
  <2>. QED  BY <1>2, <2>2 DEF TypeOK, RestT, CallT, Call
<1>9. call'[s].at \in {"idle", "audit"}
  BY <1>1, EndedFact, MovedFact DEF Unmark, Steps
<1>4. Turns'
  BY <1>2, <1>9, NoStorageAssumption
     DEF Unmark, Safety, Turns, LockedSteps, At, Free, CommittedAlone,
         Untouched
<1>5. Exclusive'
  BY
     DEF Unmark, Safety, TypeOK, Rows, Exclusive, Turns, At, Free,
         CommittedAlone, Untouched, FilesUntouched
<1>6. Unlinkable'
  BY <1>1, <1>2, EndedFact, MovedFact, IntactAssumption, NoFileAssumption
     DEF Unmark, Safety, Unlinkable, VerifiedSteps, At, Free, CommittedAlone,
         Untouched, FilesUntouched, CallT, Call, Steps
<1>7. Known'
  BY <1>1, <1>2, EndedFact, MovedFact, NoFileAssumption
     DEF Unmark, Safety, Known, At, Free, CommittedAlone, Untouched,
         FilesUntouched, CallT, Call, Steps
<1>8. Keeps
  BY NoFileAssumption
     DEF Unmark, Safety, TypeOK, Keeps, HasName, Unlinkable, Known,
         VerifiedSteps, At, Free, CommittedAlone, Untouched, FilesUntouched
<1>. QED
  BY <1>3, <1>4, <1>5, <1>6, <1>7, <1>8 DEF Safety

LEMMA AuditSafety ==
    ASSUME Safety, NEW s \in Storages, Audit(s)
    PROVE  Safety' /\ Keeps
<1>1. CallT
  BY DEF Safety, TypeOK, CallT, Call
<1>2. /\ CallT'
      /\ \A t \in Storages : t # s => call'[t] = call[t]
  BY <1>1, EndedFact, MovedFact, SMT DEF Audit, Steps, CallT, Call
<1>3. /\ call'[s].at \in {"idle", "retire"}
      /\ call'[s].held \in {NoFile, call[s].held}
      /\ call'[s].linked \in {NoFile, call[s].linked}
  BY <1>1, EndedFact, MovedFact DEF Audit, Steps
<1>4. UNCHANGED <<db, txn, writer, proved, leaf, aside, made, marks>>
  BY DEF Audit, Untouched, FilesUntouched
<1>5. TypeOK'
  <2>1. RestT
    BY DEF Safety, TypeOK, RestT
  <2>2. RestT'
    BY <1>4, <2>1 DEF RestT
  <2>. QED  BY <1>2, <2>2 DEF TypeOK, RestT, CallT, Call
<1>6. Turns' /\ Exclusive' /\ Keeps
  BY <1>2, <1>3, <1>4 DEF Safety, Turns, Exclusive, Keeps, HasName, LockedSteps
<1>7. Unlinkable' /\ Known'
  BY <1>2, <1>3, <1>4 DEF Audit, At, Safety, Unlinkable, Known, VerifiedSteps
<1>. QED
  BY <1>5, <1>6, <1>7 DEF Safety

LEMMA RetireSafety ==
    ASSUME Safety, NEW s \in Storages, Retire(s)
    PROVE  Safety' /\ Keeps
<1>1. CallT
  BY DEF Safety, TypeOK, CallT, Call
<1>2. /\ CallT'
      /\ \A t \in Storages : t # s => call'[t] = call[t]
  BY <1>1, EndedFact, MovedFact, SMT DEF Retire, Steps, CallT, Call
<1>3. TypeOK'
  <2>1. RestT
    BY DEF Safety, TypeOK, RestT
  <2>2. RestT'
    BY <2>1
       DEF RestT, Retire, CommittedAlone, Untouched, FilesUntouched, Report,
           Rows
  <2>. QED  BY <1>2, <2>2 DEF TypeOK, RestT, CallT, Call
<1>4. Turns'
  BY <1>1, <1>2, EndedFact, MovedFact, NoStorageAssumption
     DEF Retire, Safety, Turns, LockedSteps, At, Free, CommittedAlone,
         Untouched, FilesUntouched, Report, CallT, Call, Steps
<1>5. Exclusive'
  BY
     DEF Retire, Safety, TypeOK, Rows, Exclusive, Turns, At, Free,
         CommittedAlone, Untouched, FilesUntouched, Report
<1>6. Unlinkable'
  BY <1>1, <1>2, EndedFact, MovedFact, IntactAssumption, NoFileAssumption
     DEF Retire, Safety, Unlinkable, VerifiedSteps, At, Free, CommittedAlone,
         Untouched, FilesUntouched, Report, CallT, Call, Steps
<1>7. Known'
  BY <1>1, <1>2, EndedFact, MovedFact, NoFileAssumption
     DEF Retire, Safety, Known, At, Free, CommittedAlone, Untouched,
         FilesUntouched, Report, CallT, Call, Steps
<1>8. Keeps
  BY NoFileAssumption
     DEF Retire, Safety, TypeOK, Keeps, HasName, Unlinkable, Known,
         VerifiedSteps, At, Free, CommittedAlone, Untouched, FilesUntouched,
         Report
<1>. QED
  BY <1>3, <1>4, <1>5, <1>6, <1>7, <1>8 DEF Safety

LEMMA AbandonSafety ==
    ASSUME Safety, NEW s \in Storages, Abandon(s)
    PROVE  Safety' /\ Keeps
<1>1. CallT
  BY DEF Safety, TypeOK, CallT, Call
<1>2. /\ CallT'
      /\ \A t \in Storages : t # s => call'[t] = call[t]
  BY <1>1, EndedFact, MovedFact, SMT DEF Abandon, Steps, CallT, Call
<1>3. TypeOK'
  <2>1. RestT'
    BY DEF Abandon, Committed, RolledBack, FilesUntouched, Safety, TypeOK,
           Rows, RestT
  <2>. QED
    BY <1>2, <2>1 DEF RestT, TypeOK, CallT, Call
<1>4. Turns'
  BY <1>1, <1>2, EndedFact, MovedFact, NoStorageAssumption
     DEF Abandon, At, Committed, RolledBack, FilesUntouched, Safety, Turns,
         LockedSteps, Steps
<1>5. Exclusive'
  BY <1>1, <1>2, EndedFact, MovedFact
     DEF Abandon, At, Committed, RolledBack, FilesUntouched, Safety, Exclusive,
         Turns, LockedSteps, Steps
<1>6. Unlinkable'
  BY <1>1, <1>2, EndedFact, MovedFact, NoFileAssumption
     DEF Abandon, At, Committed, RolledBack, FilesUntouched, Safety,
         Unlinkable, VerifiedSteps, Steps
<1>7. Known'
  BY <1>1, <1>2, EndedFact, MovedFact, NoFileAssumption
     DEF Abandon, At, Committed, RolledBack, FilesUntouched, Safety, Known,
         Steps
<1>8. Keeps
  BY <1>1, <1>2, EndedFact, MovedFact, NoFileAssumption
     DEF Abandon, At, Committed, RolledBack, FilesUntouched, Safety, TypeOK,
         Keeps, HasName, Unlinkable, Known, VerifiedSteps, Steps
<1>. QED
  BY <1>3, <1>4, <1>5, <1>6, <1>7, <1>8 DEF Safety

LEMMA RereadSafety ==
    ASSUME Safety, NEW s \in Storages, Reread(s)
    PROVE  Safety' /\ Keeps
<1>1. CallT
  BY DEF Safety, TypeOK, CallT, Call
<1>2. /\ CallT'
      /\ \A t \in Storages : t # s => call'[t] = call[t]
  BY <1>1, EndedFact, MovedFact, SMT DEF Reread, Steps, CallT, Call
<1>3. TypeOK'
  BY <1>1, <1>2, EndedFact, MovedFact, IntactAssumption
     DEF Reread, At, Untouched, FilesUntouched, Safety, TypeOK, Known, CallT,
         Call, Steps
<1>4. Turns'
  BY <1>1, <1>2, EndedFact, MovedFact, NoStorageAssumption
     DEF Reread, At, Untouched, FilesUntouched, Safety, Turns, LockedSteps,
         Steps
<1>5. Exclusive'
  BY <1>1, <1>2, EndedFact, MovedFact
     DEF Reread, At, Untouched, FilesUntouched, Safety, Exclusive, Turns,
         LockedSteps, Steps
<1>6. Unlinkable'
  BY <1>1, <1>2, EndedFact, MovedFact, NoFileAssumption
     DEF Reread, At, Untouched, FilesUntouched, Safety, Unlinkable,
         VerifiedSteps, Steps
<1>7. Known'
  BY <1>1, <1>2, EndedFact, MovedFact, NoFileAssumption
     DEF Reread, At, Untouched, FilesUntouched, Safety, Known, Steps
<1>8. Keeps
  BY <1>1, <1>2, EndedFact, MovedFact, NoFileAssumption
     DEF Reread, At, Untouched, FilesUntouched, Safety, TypeOK, Keeps, HasName,
         Unlinkable, Known, VerifiedSteps, Steps
<1>. QED
  BY <1>3, <1>4, <1>5, <1>6, <1>7, <1>8 DEF Safety

LEMMA RepublishSafety ==
    ASSUME Safety, NEW s \in Storages, Republish(s)
    PROVE  Safety' /\ Keeps
<1>1. CallT
  BY DEF Safety, TypeOK, CallT, Call
<1>2. /\ CallT'
      /\ \A t \in Storages : t # s => call'[t] = call[t]
  BY <1>1, EndedFact, MovedFact, SMT DEF Republish, Steps, CallT, Call
<1>3. TypeOK'
  BY <1>1, <1>2, EndedFact, MovedFact, IntactAssumption
     DEF Republish, At, Untouched, Safety, TypeOK, Known, CallT, Call, Steps
<1>4. Turns'
  BY <1>1, <1>2, EndedFact, MovedFact, NoStorageAssumption
     DEF Republish, At, Untouched, Safety, Turns, LockedSteps, Steps
<1>5. Exclusive'
  BY <1>1, <1>2, EndedFact, MovedFact
     DEF Republish, At, Untouched, Safety, Exclusive, Turns, LockedSteps, Steps
<1>6. Unlinkable'
  BY <1>1, <1>2, EndedFact, MovedFact, NoFileAssumption
     DEF Republish, At, Untouched, Safety, Unlinkable, VerifiedSteps, Steps
<1>7. Known'
  BY <1>1, <1>2, EndedFact, MovedFact, NoFileAssumption
     DEF Republish, At, Untouched, Safety, Known, Steps
<1>8. Keeps
  BY <1>1, <1>2, EndedFact, MovedFact, NoFileAssumption
     DEF Republish, At, Untouched, Safety, TypeOK, Keeps, HasName, Unlinkable,
         Known, VerifiedSteps, Steps
<1>. QED
  BY <1>3, <1>4, <1>5, <1>6, <1>7, <1>8 DEF Safety

LEMMA RepublishFailsSafety ==
    ASSUME Safety, NEW s \in Storages, RepublishFails(s)
    PROVE  Safety' /\ Keeps
<1>1. CallT
  BY DEF Safety, TypeOK, CallT, Call
<1>2. PICK f \in Intact \ made :
         /\ leaf' = f
         /\ made' = made \union {f}
         /\ call' = [call EXCEPT ![s].at = "reundo", ![s].pinned = f]
  BY DEF RepublishFails
<1>3. /\ CallT'
      /\ \A t \in Storages : t # s => call'[t] = call[t]
      /\ call'[s].at = "reundo"
      /\ call'[s].held = call[s].held
      /\ call'[s].pinned = f
      /\ call'[s].linked = call[s].linked
  <2>1. call \in [Storages -> Call] /\ call[s] \in Call
    BY <1>1 DEF CallT
  <2>. QED
    BY <1>2, <2>1, IntactAssumption DEF CallT, Call, Steps
<1>4. TypeOK'
  BY <1>1, <1>2, <1>3, IntactAssumption, NoFileAssumption
     DEF RepublishFails, Safety, TypeOK, Rows, At, Untouched, CallT, Call
<1>5. Turns'
  BY <1>1, <1>2, <1>3, NoStorageAssumption
     DEF RepublishFails, Safety, Turns, LockedSteps, At, Untouched, CallT, Call
<1>6. Exclusive'
  BY DEF RepublishFails, Safety, TypeOK, Rows, Exclusive, Turns, At, Untouched
<1>7. Unlinkable'
  BY <1>1, <1>2, <1>3, IntactAssumption, NoFileAssumption
     DEF RepublishFails, Safety, Unlinkable, VerifiedSteps, At, Untouched,
         CallT, Call
<1>8. Known'
  BY <1>1, <1>2, <1>3, NoFileAssumption
     DEF RepublishFails, Safety, Known, At, Untouched, CallT, Call
<1>9. Keeps
  BY NoFileAssumption
     DEF RepublishFails, Safety, TypeOK, Keeps, HasName, Unlinkable, Known,
         VerifiedSteps, At, Untouched
<1>. QED
  BY <1>4, <1>5, <1>6, <1>7, <1>8, <1>9 DEF Safety

LEMMA ReundoSafety ==
    ASSUME Safety, NEW s \in Storages, Reundo(s)
    PROVE  Safety' /\ Keeps
<1>1. CallT
  BY DEF Safety, TypeOK, CallT, Call
<1>2. /\ CallT'
      /\ \A t \in Storages : t # s => call'[t] = call[t]
  BY <1>1, EndedFact, MovedFact, SMT DEF Reundo, Checks, Steps, CallT, Call
<1>3. TypeOK'
  BY <1>1, <1>2, EndedFact, MovedFact, IntactAssumption
     DEF Reundo, Checks, At, Untouched, FilesUntouched, Safety, TypeOK, Known,
         CallT, Call, Steps
<1>4. Turns'
  BY <1>1, <1>2, EndedFact, MovedFact, NoStorageAssumption
     DEF Reundo, Checks, At, Untouched, FilesUntouched, Safety, Turns,
         LockedSteps, Steps
<1>5. Exclusive'
  BY <1>1, <1>2, EndedFact, MovedFact
     DEF Reundo, Checks, At, Untouched, FilesUntouched, Safety, Exclusive,
         Turns, LockedSteps, Steps
<1>6. Unlinkable'
  BY <1>1, <1>2, EndedFact, MovedFact, NoFileAssumption
     DEF Reundo, Checks, At, Untouched, FilesUntouched, Safety, Unlinkable,
         VerifiedSteps, Steps
<1>7. Known'
  BY <1>1, <1>2, EndedFact, MovedFact, NoFileAssumption
     DEF Reundo, Checks, At, Untouched, FilesUntouched, Safety, Known, Steps
<1>8. Keeps
  BY <1>1, <1>2, EndedFact, MovedFact, NoFileAssumption
     DEF Reundo, Checks, At, Untouched, FilesUntouched, Safety, TypeOK, Keeps,
         HasName, Unlinkable, Known, VerifiedSteps, Steps
<1>. QED
  BY <1>3, <1>4, <1>5, <1>6, <1>7, <1>8 DEF Safety

LEMMA ReunlinkSafety ==
    ASSUME Safety, NEW s \in Storages, Reunlink(s)
    PROVE  Safety'
<1>1. CallT
  BY DEF Safety, TypeOK, CallT, Call
<1>2. /\ CallT'
      /\ \A t \in Storages : t # s => call'[t] = call[t]
  BY <1>1, EndedFact, MovedFact, SMT DEF Reunlink, Unlinks, Steps, CallT, Call
<1>3. TypeOK'
  BY <1>1, <1>2, EndedFact, MovedFact, IntactAssumption
     DEF Reunlink, Unlinks, At, Untouched, Safety, TypeOK, Known, CallT, Call,
         Steps
<1>4. Turns'
  BY <1>1, <1>2, EndedFact, MovedFact, NoStorageAssumption
     DEF Reunlink, Unlinks, At, Untouched, Safety, Turns, LockedSteps, Steps
<1>5. Exclusive'
  BY <1>1, <1>2, EndedFact, MovedFact
     DEF Reunlink, Unlinks, At, Untouched, Safety, Exclusive, Turns,
         LockedSteps, Steps
<1>6. Unlinkable'
  BY <1>1, <1>2, EndedFact, MovedFact, NoFileAssumption
     DEF Reunlink, Unlinks, At, Untouched, Safety, Unlinkable, VerifiedSteps,
         Steps
<1>7. Known'
  BY <1>1, <1>2, EndedFact, MovedFact, NoFileAssumption
     DEF Reunlink, Unlinks, At, Untouched, Safety, Known, Steps
<1>. QED
  BY <1>3, <1>4, <1>5, <1>6, <1>7 DEF Safety

LEMMA SettleSafety ==
    ASSUME Safety, NEW s \in Storages, Settle(s)
    PROVE  Safety' /\ Keeps
<1>1. CallT
  BY DEF Safety, TypeOK, CallT, Call
<1>2. /\ CallT'
      /\ \A t \in Storages : t # s => call'[t] = call[t]
  BY <1>1, EndedFact, MovedFact, SMT DEF Settle, Steps, CallT, Call
<1>3. TypeOK'
  BY <1>1, <1>2, EndedFact, MovedFact, IntactAssumption
     DEF Settle, At, Untouched, FilesUntouched, Safety, TypeOK, Known, CallT,
         Call, Steps
<1>4. Turns'
  BY <1>1, <1>2, EndedFact, MovedFact, NoStorageAssumption
     DEF Settle, At, Untouched, FilesUntouched, Safety, Turns, LockedSteps,
         Steps
<1>5. Exclusive'
  BY <1>1, <1>2, EndedFact, MovedFact
     DEF Settle, At, Untouched, FilesUntouched, Safety, Exclusive, Turns,
         LockedSteps, Steps
<1>6. Unlinkable'
  BY <1>1, <1>2, EndedFact, MovedFact, NoFileAssumption
     DEF Settle, At, Untouched, FilesUntouched, Safety, Unlinkable,
         VerifiedSteps, Steps
<1>7. Known'
  BY <1>1, <1>2, EndedFact, MovedFact, NoFileAssumption
     DEF Settle, At, Untouched, FilesUntouched, Safety, Known, Steps
<1>8. Keeps
  BY <1>1, <1>2, EndedFact, MovedFact, NoFileAssumption
     DEF Settle, At, Untouched, FilesUntouched, Safety, TypeOK, Keeps, HasName,
         Unlinkable, Known, VerifiedSteps, Steps
<1>. QED
  BY <1>3, <1>4, <1>5, <1>6, <1>7, <1>8 DEF Safety

LEMMA DiscardSafety ==
    ASSUME Safety, NEW s \in Storages, Discard(s)
    PROVE  Safety' /\ Keeps
<1>1. CallT
  BY DEF Safety, TypeOK, CallT, Call
<1>2. /\ CallT'
      /\ \A t \in Storages : t # s => call'[t] = call[t]
  BY <1>1, EndedFact, MovedFact, SMT DEF Discard, Steps, CallT, Call
<1>3. TypeOK'
  BY <1>1, <1>2, EndedFact, MovedFact, IntactAssumption
     DEF Discard, At, Untouched, Safety, TypeOK, Known, CallT, Call, Steps
<1>4. Turns'
  BY <1>1, <1>2, EndedFact, MovedFact, NoStorageAssumption
     DEF Discard, At, Untouched, Safety, Turns, LockedSteps, Steps
<1>5. Exclusive'
  BY <1>1, <1>2, EndedFact, MovedFact
     DEF Discard, At, Untouched, Safety, Exclusive, Turns, LockedSteps, Steps
<1>6. Unlinkable'
  BY <1>1, <1>2, EndedFact, MovedFact, NoFileAssumption
     DEF Discard, At, Untouched, Safety, Unlinkable, VerifiedSteps, Steps
<1>7. Known'
  BY <1>1, <1>2, EndedFact, MovedFact, NoFileAssumption
     DEF Discard, At, Untouched, Safety, Known, Steps
<1>8. Keeps
  BY <1>1, <1>2, EndedFact, MovedFact, NoFileAssumption
     DEF Discard, At, Untouched, Safety, TypeOK, Keeps, HasName, Unlinkable,
         Known, VerifiedSteps, Steps
<1>. QED
  BY <1>3, <1>4, <1>5, <1>6, <1>7, <1>8 DEF Safety

LEMMA PutBackSafety ==
    ASSUME Safety, NEW s \in Storages, PutBack(s)
    PROVE  Safety' /\ Keeps
<1>1. CallT
  BY DEF Safety, TypeOK, CallT, Call
<1>2. /\ CallT'
      /\ \A t \in Storages : t # s => call'[t] = call[t]
  BY <1>1, EndedFact, MovedFact, SMT DEF PutBack, Steps, CallT, Call
<1>3. TypeOK'
  BY <1>1, <1>2, EndedFact, MovedFact, IntactAssumption
     DEF PutBack, At, Untouched, Relinked, Safety, TypeOK, Known, CallT, Call,
         Steps
<1>4. Turns'
  BY <1>1, <1>2, EndedFact, MovedFact, NoStorageAssumption
     DEF PutBack, At, Untouched, Relinked, Safety, Turns, LockedSteps, Steps
<1>5. Exclusive'
  BY <1>1, <1>2, EndedFact, MovedFact
     DEF PutBack, At, Untouched, Relinked, Safety, Exclusive, Turns,
         LockedSteps, Steps
<1>6. Unlinkable'
  BY <1>1, <1>2, EndedFact, MovedFact, NoFileAssumption
     DEF PutBack, At, Untouched, Relinked, Safety, Unlinkable, VerifiedSteps,
         Steps
<1>7. Known'
  BY <1>1, <1>2, EndedFact, MovedFact, NoFileAssumption
     DEF PutBack, At, Untouched, Relinked, Safety, Known, Steps
<1>8. Keeps
  BY <1>1, <1>2, EndedFact, MovedFact, NoFileAssumption
     DEF PutBack, At, Untouched, Relinked, Safety, TypeOK, Keeps, HasName,
         Unlinkable, Known, VerifiedSteps, Steps
<1>. QED
  BY <1>3, <1>4, <1>5, <1>6, <1>7, <1>8 DEF Safety

LEMMA CrashSafety ==
    ASSUME Safety, NEW s \in Storages, Crash(s)
    PROVE  Safety' /\ Keeps
<1>1. CallT
  BY DEF Safety, TypeOK, CallT, Call
<1>2. /\ CallT'
      /\ \A t \in Storages : t # s => call'[t] = call[t]
  BY <1>1, EndedFact, MovedFact, SMT DEF Crash, Steps, CallT, Call
<1>3. TypeOK'
  BY <1>1, <1>2, EndedFact, MovedFact, IntactAssumption
     DEF Crash, At, RolledBack, Untouched, FilesUntouched, Safety, TypeOK,
         Known, CallT, Call, Steps
<1>4. Turns'
  BY <1>1, <1>2, EndedFact, MovedFact, NoStorageAssumption
     DEF Crash, At, RolledBack, Untouched, FilesUntouched, Safety, Turns,
         LockedSteps, Steps
<1>5. Exclusive'
  BY <1>1, <1>2, EndedFact, MovedFact
     DEF Crash, At, RolledBack, Untouched, FilesUntouched, Safety, Exclusive,
         Turns, LockedSteps, Steps
<1>6. Unlinkable'
  BY <1>1, <1>2, EndedFact, MovedFact, NoFileAssumption
     DEF Crash, At, RolledBack, Untouched, FilesUntouched, Safety, Unlinkable,
         VerifiedSteps, Steps
<1>7. Known'
  BY <1>1, <1>2, EndedFact, MovedFact, NoFileAssumption
     DEF Crash, At, RolledBack, Untouched, FilesUntouched, Safety, Known, Steps
<1>8. Keeps
  BY <1>1, <1>2, EndedFact, MovedFact, NoFileAssumption
     DEF Crash, At, RolledBack, Untouched, FilesUntouched, Safety, TypeOK,
         Keeps, HasName, Unlinkable, Known, VerifiedSteps, Steps
<1>. QED
  BY <1>3, <1>4, <1>5, <1>6, <1>7, <1>8 DEF Safety

LEMMA ReferenceSafety ==
    ASSUME Safety, AddReference \/ DropReference
    PROVE  Safety' /\ Keeps
<1>1. TypeOK' /\ Turns' /\ Exclusive'
  BY DEF AddReference, DropReference, Safety, TypeOK, Rows, Turns, Exclusive,
         Free, CommittedAlone, FilesUntouched
<1>2. Unlinkable' /\ Known' /\ Keeps
  BY DEF AddReference, DropReference, Safety, Unlinkable, Known, Keeps, HasName,
         FilesUntouched
<1>. QED
  BY <1>1, <1>2 DEF Safety

LEMMA TamperSafety ==
    ASSUME Safety, Tamper
    PROVE  Safety' /\ Keeps
<1>1. PICK f \in Files \ (Intact \union made) :
         leaf' = f /\ made' = made \union {f}
  BY DEF Tamper
<1>2. UNCHANGED <<db, txn, writer, proved, aside, call>>
  BY DEF Tamper, Untouched
<1>3. TypeOK'
  BY <1>1, <1>2 DEF Tamper, Safety, TypeOK
<1>4. Turns' /\ Exclusive' /\ Unlinkable'
  BY <1>2 DEF Safety, Turns, Exclusive, Unlinkable
<1>5. Known'
  BY <1>1, <1>2 DEF Tamper, Safety, Known
<1>6. Keeps
  BY <1>1, <1>2, NoFileAssumption DEF Tamper, Safety, TypeOK, Keeps, HasName
<1>. QED
  BY <1>3, <1>4, <1>5, <1>6 DEF Safety

LEMMA InitSafety == Init => Safety
<1>. SUFFICES ASSUME Init PROVE Safety
  OBVIOUS
<1>1. CallT /\ \A s \in Storages : call[s] = Resting(0)
  BY RestingFact, BoundsAssumption DEF Init, CallT
<1>2. TypeOK
  BY <1>1, IntactAssumption DEF Init, TypeOK, Rows, CallT, Call
<1>3. Turns /\ Unlinkable /\ Known
  BY <1>1, NoFileAssumption
     DEF Init, Turns, LockedSteps, Unlinkable, VerifiedSteps, Known, Resting
<1>4. Exclusive
  BY DEF Init, Rows, Exclusive
<1>. QED
  BY <1>2, <1>3, <1>4 DEF Safety

LEMMA NextSafety ==
    ASSUME Safety, [Next]_vars
    PROVE  /\ Safety'
           /\ Keeps \/ \E s \in Storages : Unlink(s) \/ Reunlink(s)
<1>1. CASE \E s \in Storages :
              Store(s) \/ Prune(s) \/ Compensate(s) \/ Reconcile(s) \/ Crash(s)
  <2>1. PICK s \in Storages :
            Store(s) \/ Prune(s) \/ Compensate(s) \/ Reconcile(s) \/ Crash(s)
    BY <1>1
  <2>2. CASE Store(s)
    BY <2>2, StoreBeginSafety, ReuseSafety, LinkSafety, LinkFailsSafety,
       UndoSafety, UnlinkSafety, StoreCommitSafety, StoreFailsSafety,
       UnpublishSafety, SortSafety DEF Store
  <2>3. CASE Prune(s)
    BY <2>3, PruneBeginSafety, MoveAsideSafety, MoveRefusedSafety,
       MoveFailsSafety, InspectSafety, VerifySafety, PruneCommitSafety,
       DeleteSafety DEF Prune
  <2>4. CASE Compensate(s)
    BY <2>4, RestoreSafety, PinSafety, ReinsertSafety, RecommitSafety,
       ReproveSafety, UnmarkSafety, AuditSafety, RetireSafety DEF Compensate
  <2>5. CASE Reconcile(s)
    BY <2>5, AbandonSafety, RereadSafety, RepublishSafety,
       RepublishFailsSafety, ReundoSafety, ReunlinkSafety, SettleSafety,
       DiscardSafety, PutBackSafety DEF Reconcile
  <2>. QED
    BY <2>1, <2>2, <2>3, <2>4, <2>5, CrashSafety
<1>2. CASE AddReference \/ DropReference
  BY <1>2, ReferenceSafety
<1>3. CASE Tamper
  BY <1>3, TamperSafety
<1>4. CASE UNCHANGED vars
  BY <1>4 DEF vars, Safety, TypeOK, Turns, Exclusive, Unlinkable, Known,
              Keeps, HasName
<1>. QED
  BY <1>1, <1>2, <1>3, <1>4 DEF Next

-----------------------------------------------------------------------------
(* What was left in a quarantine stays there.                              *)

LEMMA LeftAlone ==
    ASSUME NEW s \in Storages, NEW f \in Intact, Left(f),
           \A t \in Storages : t # s => call'[t] = call[t],
           f \in aside', f # leaf',
           call'[s].at \in Handling => call'[s].held # f,
           call'[s].linked # f
    PROVE  Left(f)'
BY DEF Left

LEMMA StoreLeft ==
    ASSUME Safety, NEW s \in Storages, Store(s), NEW f \in Intact, Left(f)
    PROVE  Left(f)'
<1>1. /\ CallT /\ f \in made /\ f \in aside /\ f # leaf /\ f # NoFile
      /\ call[s].linked # f
      /\ call[s].at \in Handling => call[s].held # f
  BY NoFileAssumption, IntactAssumption
     DEF Safety, TypeOK, CallT, Call, Known, Left
<1>2. CASE StoreBegin(s)
  <2>1. /\ \A t \in Storages : t # s => call'[t] = call[t]
        /\ call'[s].at = "publish" /\ call'[s].linked = call[s].linked
        /\ UNCHANGED <<leaf, aside>>
    BY <1>1, <1>2 DEF StoreBegin, FilesUntouched, CallT, Call
  <2>. QED
    BY <1>1, <2>1, LeftAlone DEF Handling, Away
<1>3. CASE Reuse(s)
  BY <1>1, <1>3, MovedFact, LeftAlone
     DEF Reuse, FilesUntouched, Steps, Handling, Away
<1>4. CASE Link(s) \/ LinkFails(s)
  <2>1. PICK g \in Intact \ made :
           /\ leaf' = g
           /\ \/ call' = [call EXCEPT ![s].at = "record", ![s].linked = g]
              \/ \E j \in {g, NoFile} :
                    call' = [call EXCEPT ![s].at = "undo", ![s].pinned = g,
                                         ![s].linked = j]
    BY <1>4 DEF Link, LinkFails
  <2>2. /\ \A t \in Storages : t # s => call'[t] = call[t]
        /\ call'[s].at \in {"record", "undo"}
        /\ call'[s].linked \in {g, NoFile}
    BY <1>1, <2>1 DEF CallT, Call
  <2>3. aside' = aside
    BY <1>4 DEF Link, LinkFails
  <2>. QED
    BY <1>1, <2>1, <2>2, <2>3, LeftAlone DEF Handling, Away
<1>5. CASE Undo(s)
  BY <1>1, <1>5, MovedFact, LeftAlone
     DEF Undo, Checks, FilesUntouched, Steps, Handling, Away
<1>6. CASE Unlink(s)
  BY <1>1, <1>6, MovedFact, LeftAlone
     DEF Unlink, Unlinks, Steps, Handling, Away
<1>7. CASE StoreCommit(s) \/ StoreFails(s)
  BY <1>1, <1>7, EndedFact, MovedFact, LeftAlone
     DEF StoreCommit, StoreFails, Unwind, FilesUntouched, Steps, Handling, Away
<1>8. CASE Unpublish(s)
  <2>1. /\ \A t \in Storages : t # s => call'[t] = call[t]
        /\ \/ call'[s].at = "idle" /\ call'[s].linked = NoFile
           \/ call'[s].held = leaf /\ call'[s].linked = call[s].linked
        /\ leaf' \in {leaf, NoFile}
        /\ aside \subseteq aside'
    BY <1>1, <1>8, EndedFact DEF Unpublish, CallT, Call
  <2>. QED
    BY <1>1, <2>1, LeftAlone DEF Handling, Away
<1>9. CASE Sort(s)
  <2>1. /\ \A t \in Storages : t # s => call'[t] = call[t]
        /\ call'[s].at = "idle" /\ call'[s].linked = NoFile
    BY <1>1, <1>9, EndedFact DEF Sort
  <2>2. /\ call[s].held # f
        /\ leaf' \in {leaf, call[s].held}
        /\ aside' \in {aside, aside \ {call[s].held}}
    BY <1>1, <1>9 DEF Sort, At, Relinked, Handling
  <2>. QED
    BY <1>1, <2>1, <2>2, LeftAlone DEF Handling, Away
<1>. QED
  BY <1>2, <1>3, <1>4, <1>5, <1>6, <1>7, <1>8, <1>9 DEF Store

LEMMA PruneLeft ==
    ASSUME Safety, NEW s \in Storages, Prune(s), NEW f \in Intact, Left(f)
    PROVE  Left(f)'
<1>1. /\ CallT /\ f \in aside /\ f # leaf /\ f # NoFile
      /\ call[s].linked # f
      /\ call[s].at \in Handling => call[s].held # f
  BY NoFileAssumption, IntactAssumption
     DEF Safety, TypeOK, CallT, Call, Left
<1>2. CASE PruneBegin(s)
  <2>1. /\ \A t \in Storages : t # s => call'[t] = call[t]
        /\ call'[s].at = "move" /\ call'[s].linked = call[s].linked
        /\ UNCHANGED <<leaf, aside>>
    BY <1>1, <1>2 DEF PruneBegin, FilesUntouched, CallT, Call
  <2>. QED
    BY <1>1, <2>1, LeftAlone DEF Handling, Away
<1>3. CASE MoveAside(s)
  BY <1>1, <1>3, MovedFact, LeftAlone DEF MoveAside, Steps
<1>4. CASE MoveRefused(s)
  BY <1>1, <1>4, EndedFact, LeftAlone DEF MoveRefused, FilesUntouched
<1>5. CASE MoveFails(s)
  <2>1. /\ \A t \in Storages : t # s => call'[t] = call[t]
        /\ call'[s].held = NoFile /\ call'[s].linked = call[s].linked
        /\ leaf' \in {leaf, NoFile}
        /\ aside \subseteq aside'
    BY <1>1, <1>5 DEF MoveFails, CallT, Call
  <2>. QED
    BY <1>1, <2>1, LeftAlone
<1>6. CASE Inspect(s)
  BY <1>1, <1>6, EndedFact, MovedFact, LeftAlone
     DEF Inspect, FilesUntouched, Steps, Handling, Away
<1>7. CASE Verify(s)
  BY <1>1, <1>7, MovedFact, LeftAlone
     DEF Verify, At, FilesUntouched, Steps, Handling, Away
<1>8. CASE PruneCommit(s)
  BY <1>1, <1>8, MovedFact, LeftAlone
     DEF PruneCommit, Commits, At, FilesUntouched, Steps, Handling, Away
<1>9. CASE Delete(s)
  BY <1>1, <1>9, EndedFact, MovedFact, LeftAlone
     DEF Delete, At, Steps, Handling, Away
<1>. QED
  BY <1>2, <1>3, <1>4, <1>5, <1>6, <1>7, <1>8, <1>9 DEF Prune

LEMMA CompensateLeft ==
    ASSUME Safety, NEW s \in Storages, Compensate(s), NEW f \in Intact, Left(f)
    PROVE  Left(f)'
<1>1. /\ CallT /\ f \in aside /\ f # leaf /\ f # NoFile
      /\ call[s].linked # f
      /\ call[s].at \in Handling => call[s].held # f
  BY NoFileAssumption, IntactAssumption
     DEF Safety, TypeOK, CallT, Call, Left
<1>2. CASE Restore(s)
  <2>1. /\ call[s].held # f
        /\ leaf' \in {leaf, call[s].held}
        /\ aside' \in {aside, aside \ {call[s].held}}
    BY <1>1, <1>2 DEF Restore, At, Relinked, Handling, Away
  <2>. QED
    BY <1>1, <1>2, <2>1, EndedFact, MovedFact, LeftAlone
       DEF Restore, Steps, Handling, Away
<1>3. CASE Pin(s)
  <2>1. /\ \A t \in Storages : t # s => call'[t] = call[t]
        /\ call'[s].at \in {"reinsert", "audit"}
        /\ call'[s].linked = call[s].linked
    BY <1>1, <1>3, MovedFact DEF Pin, Steps, CallT, Call
  <2>. QED
    BY <1>1, <1>3, <2>1, LeftAlone DEF Pin, FilesUntouched, Handling, Away
<1>4. CASE Reinsert(s) \/ Recommit(s) \/ Reprove(s)
  BY <1>1, <1>4, MovedFact, LeftAlone
     DEF Reinsert, Recommit, Reprove, Commits, FilesUntouched, Steps, Handling,
         Away
<1>5. CASE Unmark(s) \/ Audit(s) \/ Retire(s)
  BY <1>1, <1>5, EndedFact, MovedFact, LeftAlone
     DEF Unmark, Audit, Retire, FilesUntouched, Steps, Handling, Away
<1>. QED
  BY <1>2, <1>3, <1>4, <1>5 DEF Compensate

LEMMA ReconcileLeft ==
    ASSUME Safety, NEW s \in Storages, Reconcile(s), NEW f \in Intact, Left(f)
    PROVE  Left(f)'
<1>1. /\ CallT /\ f \in made /\ f \in aside /\ f # leaf /\ f # NoFile
      /\ call[s].linked # f
      /\ call[s].at \in Handling => call[s].held # f
  BY NoFileAssumption, IntactAssumption
     DEF Safety, TypeOK, CallT, Call, Known, Left
<1>2. CASE Abandon(s) \/ Reread(s)
  BY <1>1, <1>2, EndedFact, MovedFact, LeftAlone
     DEF Abandon, Reread, FilesUntouched, Steps, Handling, Away
<1>3. CASE Republish(s)
  BY <1>1, <1>3, EndedFact, MovedFact, LeftAlone
     DEF Republish, Steps, Handling, Away
<1>4. CASE RepublishFails(s)
  <2>1. PICK g \in Intact \ made :
           /\ leaf' = g
           /\ call' = [call EXCEPT ![s].at = "reundo", ![s].pinned = g]
    BY <1>4 DEF RepublishFails
  <2>2. /\ \A t \in Storages : t # s => call'[t] = call[t]
        /\ call'[s].at = "reundo" /\ call'[s].linked = call[s].linked
    BY <1>1, <2>1 DEF CallT, Call
  <2>. QED
    BY <1>1, <1>4, <2>1, <2>2, LeftAlone DEF RepublishFails, Handling, Away
<1>5. CASE Reundo(s) \/ Reunlink(s)
  BY <1>1, <1>5, MovedFact, LeftAlone
     DEF Reundo, Reunlink, Checks, Unlinks, FilesUntouched, Steps, Handling,
         Away
<1>6. CASE Settle(s) \/ Discard(s)
  BY <1>1, <1>6, EndedFact, MovedFact, LeftAlone
     DEF Settle, Discard, At, FilesUntouched, Steps, Handling, Away
<1>7. CASE PutBack(s)
  <2>1. /\ call[s].held # f
        /\ leaf' \in {leaf, call[s].held}
        /\ aside' \in {aside, aside \ {call[s].held}}
    BY <1>1, <1>7 DEF PutBack, At, Relinked, Handling, Away
  <2>. QED
    BY <1>1, <1>7, <2>1, EndedFact, MovedFact, LeftAlone
       DEF PutBack, Steps, Handling, Away
<1>. QED
  BY <1>2, <1>3, <1>4, <1>5, <1>6, <1>7 DEF Reconcile

LEMMA MarksStay ==
    ASSUME [Next]_vars
    PROVE  marks \subseteq marks'
<1>1. ASSUME NEW s \in Storages, Store(s) \/ Crash(s)
      PROVE  marks \subseteq marks'
  BY <1>1
     DEF Store, StoreBegin, Reuse, Link, LinkFails, Undo, Unlink, StoreCommit,
         StoreFails, Unpublish, Sort, Crash
<1>2. ASSUME NEW s \in Storages, Prune(s)
      PROVE  marks \subseteq marks'
  BY <1>2
     DEF Prune, PruneBegin, MoveAside, MoveRefused, MoveFails, Inspect, Verify,
         PruneCommit, Delete
<1>3. ASSUME NEW s \in Storages, Compensate(s)
      PROVE  marks \subseteq marks'
  BY <1>3
     DEF Compensate, Restore, Pin, Reinsert, Recommit, Reprove, Unmark, Audit,
         Retire, Report
<1>4. ASSUME NEW s \in Storages, Reconcile(s)
      PROVE  marks \subseteq marks'
  BY <1>4
     DEF Reconcile, Abandon, Reread, Republish, RepublishFails, Reundo,
         Reunlink, Settle, Discard, PutBack
<1>5. CASE AddReference \/ DropReference \/ Tamper \/ UNCHANGED vars
  BY <1>5 DEF AddReference, DropReference, Tamper, vars
<1>. QED
  BY <1>1, <1>2, <1>3, <1>4, <1>5 DEF Next

LEMMA LitterStays ==
    ASSUME Safety, [Next]_vars
    PROVE  Tidy' => Tidy
<1>1. ASSUME NEW f \in Intact, Left(f)
      PROVE  Left(f)'
  <2>1. CallT /\ f \in made /\ f # NoFile
    BY <1>1, NoFileAssumption, IntactAssumption
       DEF Safety, TypeOK, CallT, Call, Known, Left
  <2>2. ASSUME NEW s \in Storages, Crash(s)
        PROVE  Left(f)'
    BY <1>1, <2>1, <2>2, EndedFact, LeftAlone
       DEF Crash, FilesUntouched, Left, Handling, Away
  <2>3. CASE AddReference \/ DropReference \/ UNCHANGED vars
    BY <1>1, <2>3 DEF AddReference, DropReference, FilesUntouched, vars, Left
  <2>4. CASE Tamper
    BY <1>1, <2>1, <2>4 DEF Tamper, Left
  <2>. QED
    BY <1>1, <2>2, <2>3, <2>4, StoreLeft, PruneLeft, CompensateLeft,
       ReconcileLeft DEF Next
<1>. QED
  BY <1>1, MarksStay DEF Tidy, Litter

-----------------------------------------------------------------------------
(* Each step preserves Survival, with one Storage that stores and any      *)
(* number that prune: two that store break it (ArtifactStore_race.cfg).    *)

\* A file that its call lets go of in the quarantine is left there.
LEMMA GivenUp ==
    ASSUME Survival, Tidy' => Tidy, NEW s \in Storages,
           \A t \in Storages : t # s => call'[t] = call[t],
           call[s].at \in Handling,
           call'[s].at \notin Handling,
           call'[s].linked = NoFile,
           UNCHANGED <<leaf, aside>>
    PROVE  ~Tidy'
<1>. SUFFICES ASSUME Tidy'
              PROVE  FALSE
  OBVIOUS
<1>1. Own /\ Loose /\ Safety /\ "tampered" \notin marks
  BY DEF Survival, Tidy
<1>2. call[s].held \in aside /\ call[s].held # leaf
  BY <1>1 DEF Loose
<1>3. call[s].held \in Intact /\ call[s].held # NoFile
  BY <1>1, <1>2, NoFileAssumption, IntactAssumption DEF Safety, Known
<1>4. PICK f \in Intact : f = call[s].held
  BY <1>3
<1>5. /\ \A t \in Storages : t # s => call[t].linked # f
      /\ \A t \in Storages :
            t # s /\ call[t].at \in Handling => call[t].held # f
  BY <1>1, <1>3, <1>4 DEF Own, Loose
<1>6. Left(f)'
  BY <1>2, <1>3, <1>4, <1>5 DEF Left
<1>. QED
  BY <1>6 DEF Tidy, Litter

LEMMA StoreBeginSurvival ==
    ASSUME OneStorer, Survival, Safety', Tidy' => Tidy,
           NEW s \in Storages, StoreBegin(s)
    PROVE  Survival'
<1>1. CallT /\ Safety
  BY DEF Survival, Safety, TypeOK, CallT, Call
<1>2. call' = [call EXCEPT ![s].at = "publish", ![s].calls = @ + 1]
  BY DEF StoreBegin
<1>3. /\ \A t \in Storages : t # s => call'[t] = call[t]
      /\ call'[s].at = "publish"
      /\ call'[s].held = call[s].held
      /\ call'[s].linked = call[s].linked
  BY <1>1, <1>2 DEF CallT, Call
<1>4. /\ s \in Storers
      /\ call[s].at = "idle"
      /\ writer = NoStorage
      /\ writer' = s
      /\ txn' = db
      /\ UNCHANGED <<db, leaf, aside, made, marks>>
  BY DEF StoreBegin, At, Began, Free, FilesUntouched
<1>5. Roles'
  BY <1>1, <1>3, <1>4
     DEF Survival, Roles, StoreSteps
<1>6. Staged'
  BY <1>1, <1>3, <1>4, NoStorageAssumption
     DEF Survival, Safety, Turns, LockedSteps, TypeOK, Rows, Staged,
         TakingSteps
<1>7. Lone'
  BY <1>1, <1>3, <1>4, NoStorageAssumption
     DEF Survival, Safety, Turns, LockedSteps, TypeOK, Rows, Staged,
         TakingSteps, Lone, Returning
<1>8. Tidy' => Clean'
  BY <1>1, <1>3, <1>4
     DEF Survival, Clean
<1>9. Tidy' => Own'
  BY <1>1, <1>3, <1>4, NoFileAssumption
     DEF Survival, Safety, OneStorer, Roles, Staged, Own, OwnUndone, Kept,
         Sorted, Turns, Known, Unlinkable, StoreSteps, TakingSteps, LockedSteps
<1>10. Tidy' => OwnUndone'
  BY <1>1, <1>3, <1>4, NoFileAssumption
     DEF Survival, Safety, OneStorer, Roles, Staged, Own, OwnUndone, Kept,
         Sorted, Turns, Known, Unlinkable, StoreSteps, TakingSteps, LockedSteps
<1>11. Tidy' => Kept'
  BY <1>1, <1>3, <1>4, NoFileAssumption, IntactAssumption
     DEF Survival, Safety, OneStorer, Roles, Staged, Lone, Returning, Own,
         OwnUndone, Kept, Sorted, Turns, Known, Unlinkable, VerifiedSteps,
         StoreSteps, TakingSteps, LockedSteps
<1>12. Tidy' => Loose'
  BY <1>1, <1>3, <1>4, NoFileAssumption, IntactAssumption
     DEF Survival, Safety, Own, OwnUndone, Loose, Away, Handling, Known,
         Unlinkable, VerifiedSteps
<1>13. Tidy' => Spared'
  BY <1>1, <1>3, <1>4, NoFileAssumption, IntactAssumption
     DEF Survival, Safety, Staged, Lone, Own, OwnUndone, Kept, Sorted, Loose,
         Away, Handling, Spared, Doomed, HasName, Known, Unlinkable,
         VerifiedSteps, TakingSteps
<1>. QED
  BY <1>5, <1>6, <1>7, <1>8, <1>9, <1>10, <1>11, <1>12, <1>13
     DEF Survival

LEMMA ReuseSurvival ==
    ASSUME OneStorer, Survival, Safety', Tidy' => Tidy,
           NEW s \in Storages, Reuse(s)
    PROVE  Survival'
<1>1. CallT /\ Safety
  BY DEF Survival, Safety, TypeOK, CallT, Call
<1>2. /\ CallT'
      /\ \A t \in Storages : t # s => call'[t] = call[t]
  BY <1>1, EndedFact, MovedFact, SMT DEF Reuse, Steps, CallT, Call
<1>3. Roles'
  BY <1>1, <1>2, EndedFact, MovedFact
     DEF Reuse, At, FilesUntouched, Survival, Roles, StoreSteps, Steps
<1>4. Staged'
  BY <1>1, <1>2, EndedFact, MovedFact, NoStorageAssumption
     DEF Reuse, At, FilesUntouched, Survival, Safety, Turns, LockedSteps,
         TypeOK, Rows, Staged, TakingSteps, Steps
<1>5. Lone'
  BY <1>1, <1>2, EndedFact, MovedFact, NoStorageAssumption
     DEF Reuse, At, FilesUntouched, Survival, Safety, Turns, LockedSteps,
         TypeOK, Rows, Staged, TakingSteps, Lone, Returning, Steps
<1>6. Tidy' => Clean'
  BY <1>1, <1>2, EndedFact, MovedFact
     DEF Reuse, At, FilesUntouched, Survival, Clean, Steps
<1>7. Tidy' => Own'
  BY <1>1, <1>2, EndedFact, MovedFact, NoFileAssumption
     DEF Reuse, At, FilesUntouched, Survival, Safety, OneStorer, Roles, Staged,
         Own, OwnUndone, Kept, Sorted, Turns, Known, Unlinkable, StoreSteps,
         TakingSteps, LockedSteps, Steps
<1>8. Tidy' => OwnUndone'
  BY <1>1, <1>2, EndedFact, MovedFact, NoFileAssumption
     DEF Reuse, At, FilesUntouched, Survival, Safety, OneStorer, Roles, Staged,
         Own, OwnUndone, Kept, Sorted, Turns, Known, Unlinkable, StoreSteps,
         TakingSteps, LockedSteps, Steps
<1>9. Tidy' => Kept'
  BY <1>1, <1>2, EndedFact, MovedFact, NoFileAssumption, IntactAssumption
     DEF Reuse, At, FilesUntouched, Survival, Safety, OneStorer, Roles, Staged,
         Lone, Returning, Own, OwnUndone, Kept, Sorted, Turns, Known,
         Unlinkable, VerifiedSteps, StoreSteps, TakingSteps, LockedSteps, Steps
<1>10. Tidy' => Loose'
  BY <1>1, <1>2, EndedFact, MovedFact, NoFileAssumption, IntactAssumption
     DEF Reuse, At, FilesUntouched, Survival, Safety, Own, OwnUndone, Loose,
         Away, Handling, Known, Unlinkable, VerifiedSteps, Steps
<1>11. Tidy' => Spared'
  BY <1>1, <1>2, EndedFact, MovedFact, NoFileAssumption, IntactAssumption
     DEF Reuse, At, FilesUntouched, Survival, Safety, Staged, Lone, Own,
         OwnUndone, Kept, Sorted, Loose, Away, Handling, Spared, Doomed,
         HasName, Known, Unlinkable, VerifiedSteps, TakingSteps, Steps
<1>. QED
  BY <1>3, <1>4, <1>5, <1>6, <1>7, <1>8, <1>9, <1>10, <1>11
     DEF Survival

LEMMA LinkSurvival ==
    ASSUME OneStorer, Survival, Safety', Tidy' => Tidy,
           NEW s \in Storages, Link(s)
    PROVE  Survival'
<1>1. CallT /\ Safety
  BY DEF Survival, Safety, TypeOK, CallT, Call
<1>2. PICK f \in Intact \ made :
         /\ leaf' = f
         /\ made' = made \union {f}
         /\ call' = [call EXCEPT ![s].at = "record", ![s].linked = f]
  BY DEF Link
<1>3. /\ \A t \in Storages : t # s => call'[t] = call[t]
      /\ call'[s].at = "record"
      /\ call'[s].held = call[s].held
      /\ call'[s].linked = f
  BY <1>1, <1>2 DEF CallT, Call
<1>4. /\ call[s].at = "publish"
      /\ leaf = NoFile
      /\ ~txn.row
      /\ UNCHANGED <<db, txn, writer, aside, marks>>
  BY DEF Link, At, Untouched
<1>5. /\ f # NoFile
      /\ ~db.row
      /\ \A t \in Storages \ {s} :
            /\ call[t].at \notin StoreSteps
            /\ call[t].linked = NoFile
            /\ call[t].held # f
  BY <1>1, <1>2, <1>4, NoFileAssumption, IntactAssumption
     DEF Survival, Safety, OneStorer, Roles, Staged, Known, Unlinkable,
         VerifiedSteps, StoreSteps
<1>6. leaf' = f /\ f \in Intact
  BY <1>2
<1>7. Roles'
  BY <1>1, <1>3, <1>4, <1>5, <1>6
     DEF Survival, Roles, StoreSteps
<1>8. Staged'
  BY <1>1, <1>3, <1>4, <1>5, <1>6, NoStorageAssumption
     DEF Survival, Safety, Turns, LockedSteps, TypeOK, Rows, Staged,
         TakingSteps
<1>9. Lone'
  BY <1>1, <1>3, <1>4, <1>5, <1>6, NoStorageAssumption
     DEF Survival, Safety, Turns, LockedSteps, TypeOK, Rows, Staged,
         TakingSteps, Lone, Returning
<1>10. Tidy' => Clean'
  BY <1>1, <1>3, <1>4, <1>5, <1>6
     DEF Survival, Clean
<1>11. Tidy' => Own'
  BY <1>1, <1>3, <1>4, <1>5, <1>6, NoFileAssumption
     DEF Survival, Safety, OneStorer, Roles, Staged, Own, OwnUndone, Kept,
         Sorted, Turns, Known, Unlinkable, StoreSteps, TakingSteps, LockedSteps
<1>12. Tidy' => OwnUndone'
  BY <1>1, <1>3, <1>4, <1>5, <1>6, NoFileAssumption
     DEF Survival, Safety, OneStorer, Roles, Staged, Own, OwnUndone, Kept,
         Sorted, Turns, Known, Unlinkable, StoreSteps, TakingSteps, LockedSteps
<1>13. Tidy' => Kept'
  BY <1>1, <1>3, <1>4, <1>5, <1>6, NoFileAssumption, IntactAssumption
     DEF Survival, Safety, OneStorer, Roles, Staged, Lone, Returning, Own,
         OwnUndone, Kept, Sorted, Turns, Known, Unlinkable, VerifiedSteps,
         StoreSteps, TakingSteps, LockedSteps
<1>14. Tidy' => Loose'
  BY <1>1, <1>3, <1>4, <1>5, <1>6, NoFileAssumption, IntactAssumption
     DEF Survival, Safety, Own, OwnUndone, Loose, Away, Handling, Known,
         Unlinkable, VerifiedSteps
<1>15. Tidy' => Spared'
  BY <1>1, <1>3, <1>4, <1>5, <1>6, NoFileAssumption, IntactAssumption
     DEF Survival, Safety, Staged, Lone, Own, OwnUndone, Kept, Sorted, Loose,
         Away, Handling, Spared, Doomed, HasName, Known, Unlinkable,
         VerifiedSteps, TakingSteps
<1>. QED
  BY <1>7, <1>8, <1>9, <1>10, <1>11, <1>12, <1>13, <1>14, <1>15
     DEF Survival

LEMMA LinkFailsSurvival ==
    ASSUME OneStorer, Survival, Safety', Tidy' => Tidy,
           NEW s \in Storages, LinkFails(s)
    PROVE  Survival'
<1>1. CallT /\ Safety
  BY DEF Survival, Safety, TypeOK, CallT, Call
<1>2. PICK f \in Intact \ made :
         /\ leaf' = f
         /\ made' = made \union {f}
         /\ \E j \in {f, NoFile} :
              call' = [call EXCEPT ![s].at = "undo", ![s].pinned = f,
                                   ![s].linked = j]
  BY DEF LinkFails
<1>3. /\ \A t \in Storages : t # s => call'[t] = call[t]
      /\ call'[s].at = "undo" /\ call'[s].pinned = f
      /\ call'[s].held = call[s].held
      /\ call'[s].linked \in {f, NoFile}
  BY <1>1, <1>2 DEF CallT, Call
<1>4. /\ call[s].at = "publish"
      /\ leaf = NoFile
      /\ ~txn.row
      /\ UNCHANGED <<db, txn, writer, aside, marks>>
  BY DEF LinkFails, At, Untouched
<1>5. /\ f # NoFile
      /\ ~db.row
      /\ \A t \in Storages \ {s} :
            /\ call[t].at \notin StoreSteps
            /\ call[t].linked = NoFile
            /\ call[t].held # f
  BY <1>1, <1>2, <1>4, NoFileAssumption, IntactAssumption
     DEF Survival, Safety, OneStorer, Roles, Staged, Known, Unlinkable,
         VerifiedSteps, StoreSteps
<1>6. leaf' = f /\ f \in Intact
  BY <1>2
<1>7. Roles'
  BY <1>1, <1>3, <1>4, <1>5, <1>6
     DEF Survival, Roles, StoreSteps
<1>8. Staged'
  BY <1>1, <1>3, <1>4, <1>5, <1>6, NoStorageAssumption
     DEF Survival, Safety, Turns, LockedSteps, TypeOK, Rows, Staged,
         TakingSteps
<1>9. Lone'
  BY <1>1, <1>3, <1>4, <1>5, <1>6, NoStorageAssumption
     DEF Survival, Safety, Turns, LockedSteps, TypeOK, Rows, Staged,
         TakingSteps, Lone, Returning
<1>10. Tidy' => Clean'
  BY <1>1, <1>3, <1>4, <1>5, <1>6
     DEF Survival, Clean
<1>11. Tidy' => Own'
  BY <1>1, <1>3, <1>4, <1>5, <1>6, NoFileAssumption
     DEF Survival, Safety, OneStorer, Roles, Staged, Own, OwnUndone, Kept,
         Sorted, Turns, Known, Unlinkable, StoreSteps, TakingSteps, LockedSteps
<1>12. Tidy' => OwnUndone'
  BY <1>1, <1>3, <1>4, <1>5, <1>6, NoFileAssumption
     DEF Survival, Safety, OneStorer, Roles, Staged, Own, OwnUndone, Kept,
         Sorted, Turns, Known, Unlinkable, StoreSteps, TakingSteps, LockedSteps
<1>13. Tidy' => Kept'
  BY <1>1, <1>3, <1>4, <1>5, <1>6, NoFileAssumption, IntactAssumption
     DEF Survival, Safety, OneStorer, Roles, Staged, Lone, Returning, Own,
         OwnUndone, Kept, Sorted, Turns, Known, Unlinkable, VerifiedSteps,
         StoreSteps, TakingSteps, LockedSteps
<1>14. Tidy' => Loose'
  BY <1>1, <1>3, <1>4, <1>5, <1>6, NoFileAssumption, IntactAssumption
     DEF Survival, Safety, Own, OwnUndone, Loose, Away, Handling, Known,
         Unlinkable, VerifiedSteps
<1>15. Tidy' => Spared'
  BY <1>1, <1>3, <1>4, <1>5, <1>6, NoFileAssumption, IntactAssumption
     DEF Survival, Safety, Staged, Lone, Own, OwnUndone, Kept, Sorted, Loose,
         Away, Handling, Spared, Doomed, HasName, Known, Unlinkable,
         VerifiedSteps, TakingSteps
<1>. QED
  BY <1>7, <1>8, <1>9, <1>10, <1>11, <1>12, <1>13, <1>14, <1>15
     DEF Survival

LEMMA UndoSurvival ==
    ASSUME OneStorer, Survival, Safety', Tidy' => Tidy,
           NEW s \in Storages, Undo(s)
    PROVE  Survival'
<1>1. CallT /\ Safety
  BY DEF Survival, Safety, TypeOK, CallT, Call
<1>2. /\ CallT'
      /\ \A t \in Storages : t # s => call'[t] = call[t]
  BY <1>1, EndedFact, MovedFact, SMT DEF Undo, Checks, Steps, CallT, Call
<1>3. Roles'
  BY <1>1, <1>2, EndedFact, MovedFact
     DEF Undo, Checks, At, Untouched, FilesUntouched, Survival, Roles,
         StoreSteps, Steps
<1>4. Staged'
  BY <1>1, <1>2, EndedFact, MovedFact, NoStorageAssumption
     DEF Undo, Checks, At, Untouched, FilesUntouched, Survival, Safety, Turns,
         LockedSteps, TypeOK, Rows, Staged, TakingSteps, Steps
<1>5. Lone'
  BY <1>1, <1>2, EndedFact, MovedFact, NoStorageAssumption
     DEF Undo, Checks, At, Untouched, FilesUntouched, Survival, Safety, Turns,
         LockedSteps, TypeOK, Rows, Staged, TakingSteps, Lone, Returning, Steps
<1>6. Tidy' => Clean'
  BY <1>1, <1>2, EndedFact, MovedFact
     DEF Undo, Checks, At, Untouched, FilesUntouched, Survival, Clean, Steps
<1>7. Tidy' => Own'
  BY <1>1, <1>2, EndedFact, MovedFact, NoFileAssumption
     DEF Undo, Checks, At, Untouched, FilesUntouched, Survival, Safety,
         OneStorer, Roles, Staged, Own, OwnUndone, Kept, Sorted, Turns, Known,
         Unlinkable, StoreSteps, TakingSteps, LockedSteps, Steps
<1>8. Tidy' => OwnUndone'
  BY <1>1, <1>2, EndedFact, MovedFact, NoFileAssumption
     DEF Undo, Checks, At, Untouched, FilesUntouched, Survival, Safety,
         OneStorer, Roles, Staged, Own, OwnUndone, Kept, Sorted, Turns, Known,
         Unlinkable, StoreSteps, TakingSteps, LockedSteps, Steps
<1>9. Tidy' => Kept'
  BY <1>1, <1>2, EndedFact, MovedFact, NoFileAssumption, IntactAssumption
     DEF Undo, Checks, At, Untouched, FilesUntouched, Survival, Safety,
         OneStorer, Roles, Staged, Lone, Returning, Own, OwnUndone, Kept,
         Sorted, Turns, Known, Unlinkable, VerifiedSteps, StoreSteps,
         TakingSteps, LockedSteps, Steps
<1>10. Tidy' => Loose'
  BY <1>1, <1>2, EndedFact, MovedFact, NoFileAssumption, IntactAssumption
     DEF Undo, Checks, At, Untouched, FilesUntouched, Survival, Safety, Own,
         OwnUndone, Loose, Away, Handling, Known, Unlinkable, VerifiedSteps,
         Steps
<1>11. Tidy' => Spared'
  BY <1>1, <1>2, EndedFact, MovedFact, NoFileAssumption, IntactAssumption
     DEF Undo, Checks, At, Untouched, FilesUntouched, Survival, Safety, Staged,
         Lone, Own, OwnUndone, Kept, Sorted, Loose, Away, Handling, Spared,
         Doomed, HasName, Known, Unlinkable, VerifiedSteps, TakingSteps, Steps
<1>. QED
  BY <1>3, <1>4, <1>5, <1>6, <1>7, <1>8, <1>9, <1>10, <1>11
     DEF Survival

LEMMA UnlinkSurvival ==
    ASSUME OneStorer, Survival, Safety', Tidy' => Tidy,
           NEW s \in Storages, Unlink(s)
    PROVE  Survival'
<1>1. CallT /\ Safety
  BY DEF Survival, Safety, TypeOK, CallT, Call
<1>2. /\ CallT'
      /\ \A t \in Storages : t # s => call'[t] = call[t]
  BY <1>1, EndedFact, MovedFact, SMT DEF Unlink, Unlinks, Steps, CallT, Call
<1>3. Roles'
  BY <1>1, <1>2, EndedFact, MovedFact
     DEF Unlink, Unlinks, At, Untouched, Survival, Roles, StoreSteps, Steps
<1>4. Staged'
  BY <1>1, <1>2, EndedFact, MovedFact, NoStorageAssumption
     DEF Unlink, Unlinks, At, Untouched, Survival, Safety, Turns, LockedSteps,
         TypeOK, Rows, Staged, TakingSteps, Steps
<1>5. Lone'
  BY <1>1, <1>2, EndedFact, MovedFact, NoStorageAssumption
     DEF Unlink, Unlinks, At, Untouched, Survival, Safety, Turns, LockedSteps,
         TypeOK, Rows, Staged, TakingSteps, Lone, Returning, Steps
<1>6. Tidy' => Clean'
  BY <1>1, <1>2, EndedFact, MovedFact
     DEF Unlink, Unlinks, At, Untouched, Survival, Clean, Steps
<1>7. Tidy' => Own'
  BY <1>1, <1>2, EndedFact, MovedFact, NoFileAssumption
     DEF Unlink, Unlinks, At, Untouched, Survival, Safety, OneStorer, Roles,
         Staged, Own, OwnUndone, Kept, Sorted, Turns, Known, Unlinkable,
         StoreSteps, TakingSteps, LockedSteps, Steps
<1>8. Tidy' => OwnUndone'
  BY <1>1, <1>2, EndedFact, MovedFact, NoFileAssumption
     DEF Unlink, Unlinks, At, Untouched, Survival, Safety, OneStorer, Roles,
         Staged, Own, OwnUndone, Kept, Sorted, Turns, Known, Unlinkable,
         StoreSteps, TakingSteps, LockedSteps, Steps
<1>9. Tidy' => Kept'
  BY <1>1, <1>2, EndedFact, MovedFact, NoFileAssumption, IntactAssumption
     DEF Unlink, Unlinks, At, Untouched, Survival, Safety, OneStorer, Roles,
         Staged, Lone, Returning, Own, OwnUndone, Kept, Sorted, Turns, Known,
         Unlinkable, VerifiedSteps, StoreSteps, TakingSteps, LockedSteps, Steps
<1>10. Tidy' => Loose'
  BY <1>1, <1>2, EndedFact, MovedFact, NoFileAssumption, IntactAssumption
     DEF Unlink, Unlinks, At, Untouched, Survival, Safety, Own, OwnUndone,
         Loose, Away, Handling, Known, TypeOK, Steps
<1>11. Tidy' => Spared'
  BY <1>1, <1>2, EndedFact, MovedFact, NoFileAssumption, IntactAssumption
     DEF Unlink, Unlinks, At, Untouched, Survival, Safety, Staged, Lone, Own,
         OwnUndone, Kept, Sorted, Loose, Away, Handling, Spared, Doomed,
         HasName, Known, Unlinkable, VerifiedSteps, TakingSteps, Steps
<1>. QED
  BY <1>3, <1>4, <1>5, <1>6, <1>7, <1>8, <1>9, <1>10, <1>11
     DEF Survival

LEMMA StoreCommitSurvival ==
    ASSUME OneStorer, Survival, Safety', Tidy' => Tidy,
           NEW s \in Storages, StoreCommit(s)
    PROVE  Survival'
<1>1. CallT /\ Safety
  BY DEF Survival, Safety, TypeOK, CallT, Call
<1>2. /\ CallT'
      /\ \A t \in Storages : t # s => call'[t] = call[t]
  BY <1>1, EndedFact, MovedFact, SMT
     DEF StoreCommit, Steps, Unwind, CallT, Call
<1>3. Roles'
  BY <1>1, <1>2, EndedFact, MovedFact
     DEF StoreCommit, At, FilesUntouched, Unwind, Survival, Roles, StoreSteps,
         Steps
<1>4. Staged'
  BY <1>1, <1>2, EndedFact, MovedFact, NoStorageAssumption
     DEF StoreCommit, At, FilesUntouched, Unwind, Survival, Safety, Turns,
         LockedSteps, TypeOK, Rows, Staged, TakingSteps, Steps
<1>5. Lone'
  BY <1>1, <1>2, EndedFact, MovedFact, NoStorageAssumption
     DEF StoreCommit, At, FilesUntouched, Unwind, Survival, Safety, Turns,
         LockedSteps, TypeOK, Rows, Staged, TakingSteps, Lone, Returning, Steps
<1>6. Tidy' => Clean'
  BY <1>1, <1>2, EndedFact, MovedFact
     DEF StoreCommit, At, FilesUntouched, Unwind, Survival, Clean, Steps
<1>7. Tidy' => Own'
  BY <1>1, <1>2, EndedFact, MovedFact, NoFileAssumption
     DEF StoreCommit, At, FilesUntouched, Unwind, Survival, Safety, OneStorer,
         Roles, Staged, Own, OwnUndone, Kept, Sorted, Turns, Known, Unlinkable,
         StoreSteps, TakingSteps, LockedSteps, Steps
<1>8. Tidy' => OwnUndone'
  BY <1>1, <1>2, EndedFact, MovedFact, NoFileAssumption
     DEF StoreCommit, At, FilesUntouched, Unwind, Survival, Safety, OneStorer,
         Roles, Staged, Own, OwnUndone, Kept, Sorted, Turns, Known, Unlinkable,
         StoreSteps, TakingSteps, LockedSteps, Steps
<1>9. Tidy' => Kept'
  BY <1>1, <1>2, EndedFact, MovedFact, NoFileAssumption, IntactAssumption
     DEF StoreCommit, At, FilesUntouched, Unwind, Survival, Safety, OneStorer,
         Roles, Staged, Lone, Returning, Own, OwnUndone, Kept, Sorted, Turns,
         Known, Unlinkable, VerifiedSteps, StoreSteps, TakingSteps,
         LockedSteps, Steps
<1>10. Tidy' => Loose'
  BY <1>1, <1>2, EndedFact, MovedFact, NoFileAssumption, IntactAssumption
     DEF StoreCommit, At, FilesUntouched, Unwind, Survival, Safety, Own,
         OwnUndone, Loose, Away, Handling, Known, Unlinkable, VerifiedSteps,
         Steps
<1>11. Tidy' => Spared'
  BY <1>1, <1>2, EndedFact, MovedFact, NoFileAssumption, IntactAssumption
     DEF StoreCommit, At, FilesUntouched, Unwind, Survival, Safety, Staged,
         Lone, Own, OwnUndone, Kept, Sorted, Loose, Away, Handling, Spared,
         Doomed, HasName, Known, Unlinkable, VerifiedSteps, TakingSteps, Steps
<1>. QED
  BY <1>3, <1>4, <1>5, <1>6, <1>7, <1>8, <1>9, <1>10, <1>11
     DEF Survival

LEMMA StoreFailsSurvival ==
    ASSUME OneStorer, Survival, Safety', Tidy' => Tidy,
           NEW s \in Storages, StoreFails(s)
    PROVE  Survival'
<1>1. CallT /\ Safety
  BY DEF Survival, Safety, TypeOK, CallT, Call
<1>2. /\ CallT'
      /\ \A t \in Storages : t # s => call'[t] = call[t]
  BY <1>1, EndedFact, MovedFact, SMT
     DEF StoreFails, Steps, Unwind, CallT, Call
<1>3. Roles'
  BY <1>1, <1>2, EndedFact, MovedFact
     DEF StoreFails, At, RolledBack, FilesUntouched, Unwind, Survival, Roles,
         StoreSteps, Steps
<1>4. Staged'
  BY <1>1, <1>2, EndedFact, MovedFact, NoStorageAssumption
     DEF StoreFails, At, RolledBack, FilesUntouched, Unwind, Survival, Safety,
         Turns, LockedSteps, TypeOK, Rows, Staged, TakingSteps, Steps
<1>5. Lone'
  BY <1>1, <1>2, EndedFact, MovedFact, NoStorageAssumption
     DEF StoreFails, At, RolledBack, FilesUntouched, Unwind, Survival, Safety,
         Turns, LockedSteps, TypeOK, Rows, Staged, TakingSteps, Lone,
         Returning, Steps
<1>6. Tidy' => Clean'
  BY <1>1, <1>2, EndedFact, MovedFact
     DEF StoreFails, At, RolledBack, FilesUntouched, Unwind, Survival, Clean,
         Steps
<1>7. Tidy' => Own'
  BY <1>1, <1>2, EndedFact, MovedFact, NoFileAssumption
     DEF StoreFails, At, RolledBack, FilesUntouched, Unwind, Survival, Safety,
         OneStorer, Roles, Staged, Own, OwnUndone, Kept, Sorted, Turns, Known,
         Unlinkable, StoreSteps, TakingSteps, LockedSteps, Steps
<1>8. Tidy' => OwnUndone'
  BY <1>1, <1>2, EndedFact, MovedFact, NoFileAssumption
     DEF StoreFails, At, RolledBack, FilesUntouched, Unwind, Survival, Safety,
         OneStorer, Roles, Staged, Own, OwnUndone, Kept, Sorted, Turns, Known,
         Unlinkable, StoreSteps, TakingSteps, LockedSteps, Steps
<1>9. Tidy' => Kept'
  BY <1>1, <1>2, EndedFact, MovedFact, NoFileAssumption, IntactAssumption
     DEF StoreFails, At, RolledBack, FilesUntouched, Unwind, Survival, Safety,
         OneStorer, Roles, Staged, Lone, Returning, Own, OwnUndone, Kept,
         Sorted, Turns, Known, Unlinkable, VerifiedSteps, StoreSteps,
         TakingSteps, LockedSteps, Steps
<1>10. Tidy' => Loose'
  BY <1>1, <1>2, EndedFact, MovedFact, NoFileAssumption, IntactAssumption
     DEF StoreFails, At, RolledBack, FilesUntouched, Unwind, Survival, Safety,
         Own, OwnUndone, Loose, Away, Handling, Known, Unlinkable,
         VerifiedSteps, Steps
<1>11. Tidy' => Spared'
  BY <1>1, <1>2, EndedFact, MovedFact, NoFileAssumption, IntactAssumption
     DEF StoreFails, At, RolledBack, FilesUntouched, Unwind, Survival, Safety,
         Staged, Lone, Own, OwnUndone, Kept, Sorted, Loose, Away, Handling,
         Spared, Doomed, HasName, Known, Unlinkable, VerifiedSteps,
         TakingSteps, Steps
<1>. QED
  BY <1>3, <1>4, <1>5, <1>6, <1>7, <1>8, <1>9, <1>10, <1>11
     DEF Survival

LEMMA UnpublishSurvival ==
    ASSUME OneStorer, Survival, Safety', Tidy' => Tidy,
           NEW s \in Storages, Unpublish(s)
    PROVE  Survival'
<1>1. CallT /\ Safety
  BY DEF Survival, Safety, TypeOK, CallT, Call
<1>2. /\ CallT'
      /\ \A t \in Storages : t # s => call'[t] = call[t]
  BY <1>1, EndedFact, MovedFact, SMT DEF Unpublish, Steps, CallT, Call
<1>3. /\ call[s].at = "unpublish"
      /\ UNCHANGED <<db, txn, writer, marks>>
      /\ \/ /\ UNCHANGED <<leaf, aside>>
            /\ call'[s].at = "idle"
            /\ call'[s].held = NoFile
            /\ call'[s].linked = NoFile
         \/ /\ leaf' = NoFile
            /\ aside' = aside \union {leaf}
            /\ leaf # NoFile
            /\ call'[s].at = "sort"
            /\ call'[s].held = leaf
            /\ call'[s].linked = call[s].linked
  BY <1>1, EndedFact DEF Unpublish, At, Untouched, CallT, Call
<1>4. Roles'
  BY <1>1, <1>2, <1>3
     DEF Survival, Roles, StoreSteps, Steps
<1>5. Staged'
  BY <1>1, <1>2, <1>3, NoStorageAssumption
     DEF Survival, Safety, Turns, LockedSteps, TypeOK, Rows, Staged,
         TakingSteps, Steps
<1>6. Lone'
  BY <1>1, <1>2, <1>3, NoStorageAssumption
     DEF Survival, Safety, Turns, LockedSteps, TypeOK, Rows, Staged,
         TakingSteps, Lone, Returning, Steps
<1>7. Tidy' => Clean'
  BY <1>1, <1>2, <1>3
     DEF Survival, Clean, Steps
<1>8. Tidy' => Own'
  BY <1>1, <1>2, <1>3, NoFileAssumption
     DEF Survival, Safety, OneStorer, Roles, Staged, Own, OwnUndone, Kept,
         Sorted, Turns, Known, Unlinkable, StoreSteps, TakingSteps,
         LockedSteps, Steps
<1>9. Tidy' => OwnUndone'
  BY <1>1, <1>2, <1>3, NoFileAssumption
     DEF Survival, Safety, OneStorer, Roles, Staged, Own, OwnUndone, Kept,
         Sorted, Turns, Known, Unlinkable, StoreSteps, TakingSteps,
         LockedSteps, Steps
<1>10. Tidy' => Kept'
  BY <1>1, <1>2, <1>3, NoFileAssumption, IntactAssumption
     DEF Survival, Safety, OneStorer, Roles, Staged, Lone, Returning, Own,
         OwnUndone, Kept, Sorted, Turns, Known, Unlinkable, VerifiedSteps,
         StoreSteps, TakingSteps, LockedSteps, Steps
<1>11. Tidy' => Loose'
  <2>1. NoFile \notin aside
    BY <1>1, NoFileAssumption DEF Safety, TypeOK
  <2>. QED
    BY <1>2, <1>3, <2>1 DEF Survival, Loose, Away, Handling
<1>12. Tidy' => Spared'
  BY <1>1, <1>2, <1>3, NoFileAssumption, IntactAssumption
     DEF Survival, Safety, Staged, Lone, Own, OwnUndone, Kept, Sorted, Loose,
         Away, Handling, Spared, Doomed, HasName, Known, Unlinkable,
         VerifiedSteps, TakingSteps, Steps
<1>. QED
  BY <1>4, <1>5, <1>6, <1>7, <1>8, <1>9, <1>10, <1>11, <1>12
     DEF Survival

LEMMA SortSurvival ==
    ASSUME OneStorer, Survival, Safety', Tidy' => Tidy,
           NEW s \in Storages, Sort(s)
    PROVE  Survival'
<1>1. CallT /\ Safety
  BY DEF Survival, Safety, TypeOK, CallT, Call
<1>2. /\ CallT'
      /\ \A t \in Storages : t # s => call'[t] = call[t]
  BY <1>1, EndedFact, MovedFact, SMT DEF Sort, Steps, CallT, Call
<1>3. Roles'
  BY <1>1, <1>2, EndedFact, MovedFact
     DEF Sort, At, Untouched, Relinked, Survival, Roles, StoreSteps, Steps
<1>4. Staged'
  BY <1>1, <1>2, EndedFact, MovedFact, NoStorageAssumption
     DEF Sort, At, Untouched, Relinked, Survival, Safety, Turns, LockedSteps,
         TypeOK, Rows, Staged, TakingSteps, Steps
<1>5. Lone'
  <2>1. UNCHANGED <<db, txn>> /\ call'[s].at = "idle"
    BY <1>1, EndedFact DEF Sort, Untouched
  <2>. QED
    BY <1>2, <2>1 DEF Survival, Lone, Returning
<1>6. Tidy' => Clean'
  BY <1>1, <1>2, EndedFact, MovedFact
     DEF Sort, At, Untouched, Relinked, Survival, Clean, Steps
<1>7. Tidy' => Own'
  BY <1>1, <1>2, EndedFact, MovedFact, NoFileAssumption
     DEF Sort, At, Untouched, Relinked, Survival, Safety, OneStorer, Roles,
         Staged, Own, OwnUndone, Kept, Sorted, Turns, Known, Unlinkable,
         StoreSteps, TakingSteps, LockedSteps, Steps
<1>8. Tidy' => OwnUndone'
  BY <1>1, <1>2, EndedFact, MovedFact, NoFileAssumption
     DEF Sort, At, Untouched, Relinked, Survival, Safety, OneStorer, Roles,
         Staged, Own, OwnUndone, Kept, Sorted, Turns, Known, Unlinkable,
         StoreSteps, TakingSteps, LockedSteps, Steps
<1>9. Tidy' => Kept'
  <2>. SUFFICES ASSUME Tidy'
                PROVE  Kept'
    OBVIOUS
  <2>1. Own /\ Kept
    BY DEF Survival
  <2>2. call[s].at = "sort" /\ call'[s].at = "idle" /\ call'[s].linked = NoFile
    BY <1>1, EndedFact DEF Sort, At
  <2>3. \/ call[s].held = call[s].linked /\ leaf' = leaf
        \/ leaf = NoFile /\ leaf' = call[s].held
    <3>1. ~(UNCHANGED <<leaf, aside>>)
      BY <1>2, <2>2, GivenUp DEF Handling, Away
    <3>. QED
      BY <3>1 DEF Sort, Relinked
  <2>4. ASSUME NEW t \in Storages,
               call[t].at \in {"pin", "reinsert", "recommit"}
        PROVE  leaf' = call[t].held \/ Sorted(call[t].held)'
    <3>1. t # s /\ call[t].held # NoFile /\ call[t].held # call[s].linked
      BY <1>1, <2>1, <2>2, <2>4, NoFileAssumption, IntactAssumption
         DEF Own, Safety, Unlinkable, VerifiedSteps
    <3>2. CASE leaf = call[t].held
      BY <2>3, <3>1, <3>2
    <3>3. ASSUME NEW u \in Storages,
                 call[u].at = "sort" /\ call[u].held = call[t].held
          PROVE  leaf' = call[t].held \/ Sorted(call[t].held)'
      BY <1>2, <2>3, <3>1, <3>3 DEF Sorted
    <3>. QED
      BY <2>1, <2>4, <3>2, <3>3 DEF Kept, Sorted
  <2>5. \A t \in Storages \ {s} : call[t].at # "record"
    BY <2>2 DEF Survival, Roles, StoreSteps, OneStorer
  <2>6. \A t \in Storages \ {s} : call'[t] = call[t]
    BY <1>2
  <2>. QED
    BY <2>2, <2>4, <2>5, <2>6 DEF Kept, Sorted
<1>10. Tidy' => Loose'
  BY <1>1, <1>2, EndedFact, MovedFact, NoFileAssumption, IntactAssumption
     DEF Sort, At, Untouched, Relinked, Survival, Safety, Own, OwnUndone,
         Loose, Away, Handling, Known, Unlinkable, VerifiedSteps, Steps
<1>11. Tidy' => Spared'
  BY <1>1, <1>2, EndedFact, MovedFact, NoFileAssumption, IntactAssumption
     DEF Sort, At, Untouched, Relinked, Survival, Safety, Staged, Lone, Own,
         OwnUndone, Kept, Sorted, Loose, Away, Handling, Spared, Doomed,
         HasName, Known, Unlinkable, VerifiedSteps, TakingSteps, Steps
<1>. QED
  BY <1>3, <1>4, <1>5, <1>6, <1>7, <1>8, <1>9, <1>10, <1>11
     DEF Survival

LEMMA PruneBeginSurvival ==
    ASSUME OneStorer, Survival, Safety', Tidy' => Tidy,
           NEW s \in Storages, PruneBegin(s)
    PROVE  Survival'
<1>1. CallT /\ Safety
  BY DEF Survival, Safety, TypeOK, CallT, Call
<1>2. call' = [call EXCEPT ![s].at = "move", ![s].held = leaf,
                              ![s].calls = @ + 1]
  BY DEF PruneBegin
<1>3. /\ \A t \in Storages : t # s => call'[t] = call[t]
      /\ call'[s].at = "move"
      /\ call'[s].held = leaf
      /\ call'[s].linked = call[s].linked
  BY <1>1, <1>2 DEF CallT, Call
<1>4. /\ s \in Pruners
      /\ call[s].at = "idle"
      /\ db.row /\ ~db.refs
      /\ txn' = [db EXCEPT !.marker = TRUE]
      /\ writer = NoStorage
      /\ writer' = s
      /\ leaf # NoFile
      /\ UNCHANGED <<db, leaf, aside, made, marks>>
  BY DEF PruneBegin, At, Began, Free, FilesUntouched
<1>5. Roles'
  BY <1>1, <1>3, <1>4
     DEF Survival, Roles, StoreSteps
<1>6. Staged'
  BY <1>1, <1>3, <1>4, NoStorageAssumption
     DEF Survival, Safety, Turns, LockedSteps, TypeOK, Rows, Staged,
         TakingSteps
<1>7. Lone'
  BY <1>1, <1>3, <1>4, NoStorageAssumption
     DEF Survival, Safety, Turns, LockedSteps, TypeOK, Rows, Staged,
         TakingSteps, Lone, Returning
<1>8. Tidy' => Clean'
  BY <1>1, <1>3, <1>4
     DEF Survival, Clean
<1>9. Tidy' => Own'
  BY <1>1, <1>3, <1>4, NoFileAssumption
     DEF Survival, Safety, OneStorer, Roles, Staged, Own, OwnUndone, Kept,
         Sorted, Turns, Known, Unlinkable, StoreSteps, TakingSteps, LockedSteps
<1>10. Tidy' => OwnUndone'
  BY <1>1, <1>3, <1>4, NoFileAssumption
     DEF Survival, Safety, OneStorer, Roles, Staged, Own, OwnUndone, Kept,
         Sorted, Turns, Known, Unlinkable, StoreSteps, TakingSteps, LockedSteps
<1>11. Tidy' => Kept'
  BY <1>1, <1>3, <1>4, NoFileAssumption, IntactAssumption
     DEF Survival, Safety, OneStorer, Roles, Staged, Lone, Returning, Own,
         OwnUndone, Kept, Sorted, Turns, Known, Unlinkable, VerifiedSteps,
         StoreSteps, TakingSteps, LockedSteps
<1>12. Tidy' => Loose'
  BY <1>1, <1>3, <1>4, NoFileAssumption, IntactAssumption
     DEF Survival, Safety, Own, OwnUndone, Loose, Away, Handling, Known,
         Unlinkable, VerifiedSteps
<1>13. Tidy' => Spared'
  BY <1>1, <1>3, <1>4, NoFileAssumption, IntactAssumption
     DEF Survival, Safety, Staged, Lone, Own, OwnUndone, Kept, Sorted, Loose,
         Away, Handling, Spared, Doomed, HasName, Known, Unlinkable,
         VerifiedSteps, TakingSteps
<1>. QED
  BY <1>5, <1>6, <1>7, <1>8, <1>9, <1>10, <1>11, <1>12, <1>13
     DEF Survival

LEMMA MoveAsideSurvival ==
    ASSUME OneStorer, Survival, Safety', Tidy' => Tidy,
           NEW s \in Storages, MoveAside(s)
    PROVE  Survival'
<1>1. CallT /\ Safety
  BY DEF Survival, Safety, TypeOK, CallT, Call
<1>2. /\ CallT'
      /\ \A t \in Storages : t # s => call'[t] = call[t]
  BY <1>1, EndedFact, MovedFact, SMT DEF MoveAside, Steps, CallT, Call
<1>3. Roles'
  BY <1>1, <1>2, EndedFact, MovedFact
     DEF MoveAside, At, Untouched, Survival, Roles, StoreSteps, Steps
<1>4. Staged'
  BY <1>1, <1>2, EndedFact, MovedFact, NoStorageAssumption
     DEF MoveAside, At, Untouched, Survival, Safety, Turns, LockedSteps,
         TypeOK, Rows, Staged, TakingSteps, Steps
<1>5. Lone'
  BY <1>1, <1>2, EndedFact, MovedFact, NoStorageAssumption
     DEF MoveAside, At, Untouched, Survival, Safety, Turns, LockedSteps,
         TypeOK, Rows, Staged, TakingSteps, Lone, Returning, Steps
<1>6. Tidy' => Clean'
  BY <1>1, <1>2, EndedFact, MovedFact
     DEF MoveAside, At, Untouched, Survival, Clean, Steps
<1>7. Tidy' => Own'
  BY <1>1, <1>2, EndedFact, MovedFact, NoFileAssumption
     DEF MoveAside, At, Untouched, Survival, Safety, OneStorer, Roles, Staged,
         Own, OwnUndone, Kept, Sorted, Turns, Known, Unlinkable, StoreSteps,
         TakingSteps, LockedSteps, Steps
<1>8. Tidy' => OwnUndone'
  BY <1>1, <1>2, EndedFact, MovedFact, NoFileAssumption
     DEF MoveAside, At, Untouched, Survival, Safety, OneStorer, Roles, Staged,
         Own, OwnUndone, Kept, Sorted, Turns, Known, Unlinkable, StoreSteps,
         TakingSteps, LockedSteps, Steps
<1>9. Tidy' => Kept'
  BY <1>1, <1>2, EndedFact, MovedFact, NoFileAssumption, IntactAssumption
     DEF MoveAside, At, Untouched, Survival, Safety, OneStorer, Roles, Staged,
         Lone, Returning, Own, OwnUndone, Kept, Sorted, Turns, Known,
         Unlinkable, VerifiedSteps, StoreSteps, TakingSteps, LockedSteps, Steps
<1>10. Tidy' => Loose'
  <2>1. /\ leaf = call[s].held /\ leaf' = NoFile /\ aside' = aside \union {leaf}
        /\ call'[s].held = call[s].held
    BY <1>1, MovedFact DEF MoveAside, Steps
  <2>2. NoFile \notin aside /\ call[s].held # NoFile
    BY <1>1, NoFileAssumption DEF MoveAside, At, Safety, TypeOK, Known
  <2>. QED
    BY <1>2, <2>1, <2>2 DEF Survival, Loose, Away, Handling
<1>11. Tidy' => Spared'
  BY <1>1, <1>2, EndedFact, MovedFact, NoFileAssumption, IntactAssumption
     DEF MoveAside, At, Untouched, Survival, Safety, Staged, Lone, Own,
         OwnUndone, Kept, Sorted, Loose, Away, Handling, Spared, Doomed,
         HasName, Known, Unlinkable, VerifiedSteps, TakingSteps, Steps
<1>. QED
  BY <1>3, <1>4, <1>5, <1>6, <1>7, <1>8, <1>9, <1>10, <1>11
     DEF Survival

LEMMA MoveRefusedSurvival ==
    ASSUME OneStorer, Survival, Safety', Tidy' => Tidy,
           NEW s \in Storages, MoveRefused(s)
    PROVE  Survival'
<1>1. CallT /\ Safety
  BY DEF Survival, Safety, TypeOK, CallT, Call
<1>2. /\ CallT'
      /\ \A t \in Storages : t # s => call'[t] = call[t]
  BY <1>1, EndedFact, MovedFact, SMT DEF MoveRefused, Steps, CallT, Call
<1>3. Roles'
  BY <1>1, <1>2, EndedFact, MovedFact
     DEF MoveRefused, At, RolledBack, FilesUntouched, Survival, Roles,
         StoreSteps, Steps
<1>4. Staged'
  BY <1>1, <1>2, EndedFact, MovedFact, NoStorageAssumption
     DEF MoveRefused, At, RolledBack, FilesUntouched, Survival, Safety, Turns,
         LockedSteps, TypeOK, Rows, Staged, TakingSteps, Steps
<1>5. Lone'
  BY <1>1, <1>2, EndedFact, MovedFact, NoStorageAssumption
     DEF MoveRefused, At, RolledBack, FilesUntouched, Survival, Safety, Turns,
         LockedSteps, TypeOK, Rows, Staged, TakingSteps, Lone, Returning, Steps
<1>6. Tidy' => Clean'
  BY <1>1, <1>2, EndedFact, MovedFact
     DEF MoveRefused, At, RolledBack, FilesUntouched, Survival, Clean, Steps
<1>7. Tidy' => Own'
  BY <1>1, <1>2, EndedFact, MovedFact, NoFileAssumption
     DEF MoveRefused, At, RolledBack, FilesUntouched, Survival, Safety,
         OneStorer, Roles, Staged, Own, OwnUndone, Kept, Sorted, Turns, Known,
         Unlinkable, StoreSteps, TakingSteps, LockedSteps, Steps
<1>8. Tidy' => OwnUndone'
  BY <1>1, <1>2, EndedFact, MovedFact, NoFileAssumption
     DEF MoveRefused, At, RolledBack, FilesUntouched, Survival, Safety,
         OneStorer, Roles, Staged, Own, OwnUndone, Kept, Sorted, Turns, Known,
         Unlinkable, StoreSteps, TakingSteps, LockedSteps, Steps
<1>9. Tidy' => Kept'
  BY <1>1, <1>2, EndedFact, MovedFact, NoFileAssumption, IntactAssumption
     DEF MoveRefused, At, RolledBack, FilesUntouched, Survival, Safety,
         OneStorer, Roles, Staged, Lone, Returning, Own, OwnUndone, Kept,
         Sorted, Turns, Known, Unlinkable, VerifiedSteps, StoreSteps,
         TakingSteps, LockedSteps, Steps
<1>10. Tidy' => Loose'
  BY <1>1, <1>2, EndedFact, MovedFact, NoFileAssumption, IntactAssumption
     DEF MoveRefused, At, RolledBack, FilesUntouched, Survival, Safety, Own,
         OwnUndone, Loose, Away, Handling, Known, Unlinkable, VerifiedSteps,
         Steps
<1>11. Tidy' => Spared'
  BY <1>1, <1>2, EndedFact, MovedFact, NoFileAssumption, IntactAssumption
     DEF MoveRefused, At, RolledBack, FilesUntouched, Survival, Safety, Staged,
         Lone, Own, OwnUndone, Kept, Sorted, Loose, Away, Handling, Spared,
         Doomed, HasName, Known, Unlinkable, VerifiedSteps, TakingSteps, Steps
<1>. QED
  BY <1>3, <1>4, <1>5, <1>6, <1>7, <1>8, <1>9, <1>10, <1>11
     DEF Survival

LEMMA MoveFailsSurvival ==
    ASSUME OneStorer, Survival, Safety', Tidy' => Tidy,
           NEW s \in Storages, MoveFails(s)
    PROVE  Survival'
<1>1. CallT /\ Safety
  BY DEF Survival, Safety, TypeOK, CallT, Call
<1>2. call' = [call EXCEPT ![s].at = "inspect", ![s].held = NoFile]
  BY DEF MoveFails
<1>3. /\ \A t \in Storages : t # s => call'[t] = call[t]
      /\ call'[s].at = "inspect"
      /\ call'[s].held = NoFile
      /\ call'[s].linked = call[s].linked
  BY <1>1, <1>2 DEF CallT, Call
<1>4. /\ call[s].at = "move"
      /\ UNCHANGED <<db, txn, writer, made, marks>>
      /\ \/ UNCHANGED <<leaf, aside>>
         \/ leaf' = NoFile /\ aside' = aside \union {leaf}
  BY DEF MoveFails, At, Untouched
<1>5. Roles'
  BY <1>1, <1>3, <1>4
     DEF Survival, Roles, StoreSteps
<1>6. Staged'
  BY <1>1, <1>3, <1>4, NoStorageAssumption
     DEF Survival, Safety, Turns, LockedSteps, TypeOK, Rows, Staged,
         TakingSteps
<1>7. Lone'
  BY <1>1, <1>3, <1>4, NoStorageAssumption
     DEF Survival, Safety, Turns, LockedSteps, TypeOK, Rows, Staged,
         TakingSteps, Lone, Returning
<1>8. Tidy' => Clean'
  BY <1>1, <1>3, <1>4
     DEF Survival, Clean
<1>9. Tidy' => Own'
  BY <1>1, <1>3, <1>4, NoFileAssumption
     DEF Survival, Safety, OneStorer, Roles, Staged, Own, OwnUndone, Kept,
         Sorted, Turns, Known, Unlinkable, StoreSteps, TakingSteps, LockedSteps
<1>10. Tidy' => OwnUndone'
  BY <1>1, <1>3, <1>4, NoFileAssumption
     DEF Survival, Safety, OneStorer, Roles, Staged, Own, OwnUndone, Kept,
         Sorted, Turns, Known, Unlinkable, StoreSteps, TakingSteps, LockedSteps
<1>11. Tidy' => Kept'
  BY <1>1, <1>3, <1>4, NoFileAssumption, IntactAssumption
     DEF Survival, Safety, OneStorer, Roles, Staged, Lone, Returning, Own,
         OwnUndone, Kept, Sorted, Turns, Known, Unlinkable, VerifiedSteps,
         StoreSteps, TakingSteps, LockedSteps
<1>12. Tidy' => Loose'
  <2>1. NoFile \notin aside
    BY <1>1, NoFileAssumption DEF Safety, TypeOK
  <2>. QED
    BY <1>1, <1>3, <1>4, <2>1 DEF Survival, Loose, Away, Handling
<1>13. Tidy' => Spared'
  BY <1>1, <1>3, <1>4, NoFileAssumption, IntactAssumption
     DEF Survival, Safety, Staged, Lone, Own, OwnUndone, Kept, Sorted, Loose,
         Away, Handling, Spared, Doomed, HasName, Known, Unlinkable,
         VerifiedSteps, TakingSteps
<1>. QED
  BY <1>5, <1>6, <1>7, <1>8, <1>9, <1>10, <1>11, <1>12, <1>13
     DEF Survival

LEMMA InspectSurvival ==
    ASSUME OneStorer, Survival, Safety', Tidy' => Tidy,
           NEW s \in Storages, Inspect(s)
    PROVE  Survival'
<1>1. CallT /\ Safety
  BY DEF Survival, Safety, TypeOK, CallT, Call
<1>2. /\ CallT'
      /\ \A t \in Storages : t # s => call'[t] = call[t]
  BY <1>1, EndedFact, MovedFact, SMT DEF Inspect, Steps, CallT, Call
<1>3. Roles'
  BY <1>1, <1>2, EndedFact, MovedFact
     DEF Inspect, At, RolledBack, FilesUntouched, Survival, Roles, StoreSteps,
         Steps
<1>4. Staged'
  BY <1>1, <1>2, EndedFact, MovedFact, NoStorageAssumption
     DEF Inspect, At, RolledBack, FilesUntouched, Survival, Safety, Turns,
         LockedSteps, TypeOK, Rows, Staged, TakingSteps, Steps
<1>5. Lone'
  BY <1>1, <1>2, EndedFact, MovedFact, NoStorageAssumption
     DEF Inspect, At, RolledBack, FilesUntouched, Survival, Safety, Turns,
         LockedSteps, TypeOK, Rows, Staged, TakingSteps, Lone, Returning, Steps
<1>6. Tidy' => Clean'
  BY <1>1, <1>2, EndedFact, MovedFact
     DEF Inspect, At, RolledBack, FilesUntouched, Survival, Clean, Steps
<1>7. Tidy' => Own'
  BY <1>1, <1>2, EndedFact, MovedFact, NoFileAssumption
     DEF Inspect, At, RolledBack, FilesUntouched, Survival, Safety, OneStorer,
         Roles, Staged, Own, OwnUndone, Kept, Sorted, Turns, Known, Unlinkable,
         StoreSteps, TakingSteps, LockedSteps, Steps
<1>8. Tidy' => OwnUndone'
  BY <1>1, <1>2, EndedFact, MovedFact, NoFileAssumption
     DEF Inspect, At, RolledBack, FilesUntouched, Survival, Safety, OneStorer,
         Roles, Staged, Own, OwnUndone, Kept, Sorted, Turns, Known, Unlinkable,
         StoreSteps, TakingSteps, LockedSteps, Steps
<1>9. Tidy' => Kept'
  BY <1>1, <1>2, EndedFact, MovedFact, NoFileAssumption, IntactAssumption
     DEF Inspect, At, RolledBack, FilesUntouched, Survival, Safety, OneStorer,
         Roles, Staged, Lone, Returning, Own, OwnUndone, Kept, Sorted, Turns,
         Known, Unlinkable, VerifiedSteps, StoreSteps, TakingSteps,
         LockedSteps, Steps
<1>10. Tidy' => Loose'
  BY <1>1, <1>2, EndedFact, MovedFact, NoFileAssumption, IntactAssumption
     DEF Inspect, At, RolledBack, FilesUntouched, Survival, Safety, Own,
         OwnUndone, Loose, Away, Handling, Known, Unlinkable, VerifiedSteps,
         Steps
<1>11. Tidy' => Spared'
  BY <1>1, <1>2, EndedFact, MovedFact, NoFileAssumption, IntactAssumption
     DEF Inspect, At, RolledBack, FilesUntouched, Survival, Safety, Staged,
         Lone, Own, OwnUndone, Kept, Sorted, Loose, Away, Handling, Spared,
         Doomed, HasName, Known, Unlinkable, VerifiedSteps, TakingSteps, Steps
<1>. QED
  BY <1>3, <1>4, <1>5, <1>6, <1>7, <1>8, <1>9, <1>10, <1>11
     DEF Survival

LEMMA VerifySurvival ==
    ASSUME OneStorer, Survival, Safety', Tidy' => Tidy,
           NEW s \in Storages, Verify(s)
    PROVE  Survival'
<1>1. CallT /\ Safety
  BY DEF Survival, Safety, TypeOK, CallT, Call
<1>2. /\ CallT'
      /\ \A t \in Storages : t # s => call'[t] = call[t]
  BY <1>1, EndedFact, MovedFact, SMT DEF Verify, Steps, CallT, Call
<1>3. Roles'
  BY <1>1, <1>2, EndedFact, MovedFact
     DEF Verify, At, FilesUntouched, Survival, Roles, StoreSteps, Steps
<1>4. Staged'
  BY <1>1, <1>2, EndedFact, MovedFact, NoStorageAssumption
     DEF Verify, At, FilesUntouched, Survival, Safety, Turns, LockedSteps,
         TypeOK, Rows, Staged, TakingSteps, Steps
<1>5. Lone'
  <2>1. /\ txn'.versions = txn.versions /\ db' = db
        /\ call[s].at = "verify"
        /\ call'[s].at \in {"commit", "abandon"}
    BY <1>1, <1>2, EndedFact, MovedFact
       DEF Verify, At, Safety, TypeOK, Rows, Steps
  <2>. QED
    BY <1>2, <2>1 DEF Survival, Lone, Returning
<1>6. Tidy' => Clean'
  <2>1. /\ call[s].at = "verify" /\ call'[s].at \in {"commit", "abandon"}
        /\ call'[s].linked = NoFile
        /\ UNCHANGED <<leaf, aside>>
    BY <1>1, MovedFact DEF Verify, At, FilesUntouched, Safety, Unlinkable, Steps
  <2>2. Tidy' => call'[s].at # "abandon"
    BY <1>2, <2>1, GivenUp DEF Handling, Away
  <2>. QED
    BY <1>2, <2>1, <2>2 DEF Survival, Clean
<1>7. Tidy' => Own'
  BY <1>1, <1>2, EndedFact, MovedFact, NoFileAssumption
     DEF Verify, At, FilesUntouched, Survival, Safety, OneStorer, Roles,
         Staged, Own, OwnUndone, Kept, Sorted, Turns, Known, Unlinkable,
         StoreSteps, TakingSteps, LockedSteps, Steps
<1>8. Tidy' => OwnUndone'
  BY <1>1, <1>2, EndedFact, MovedFact, NoFileAssumption
     DEF Verify, At, FilesUntouched, Survival, Safety, OneStorer, Roles,
         Staged, Own, OwnUndone, Kept, Sorted, Turns, Known, Unlinkable,
         StoreSteps, TakingSteps, LockedSteps, Steps
<1>9. Tidy' => Kept'
  BY <1>1, <1>2, EndedFact, MovedFact, NoFileAssumption, IntactAssumption
     DEF Verify, At, FilesUntouched, Survival, Safety, OneStorer, Roles,
         Staged, Lone, Returning, Own, OwnUndone, Kept, Sorted, Turns, Known,
         Unlinkable, VerifiedSteps, StoreSteps, TakingSteps, LockedSteps, Steps
<1>10. Tidy' => Loose'
  BY <1>1, <1>2, EndedFact, MovedFact, NoFileAssumption, IntactAssumption
     DEF Verify, At, FilesUntouched, Survival, Safety, Own, OwnUndone, Loose,
         Away, Handling, Known, Unlinkable, VerifiedSteps, Steps
<1>11. Tidy' => Spared'
  BY <1>1, <1>2, EndedFact, MovedFact, NoFileAssumption, IntactAssumption
     DEF Verify, At, FilesUntouched, Survival, Safety, Staged, Lone, Own,
         OwnUndone, Kept, Sorted, Loose, Away, Handling, Spared, Doomed,
         HasName, Known, Unlinkable, VerifiedSteps, TakingSteps, Steps
<1>. QED
  BY <1>3, <1>4, <1>5, <1>6, <1>7, <1>8, <1>9, <1>10, <1>11
     DEF Survival

LEMMA PruneCommitSurvival ==
    ASSUME OneStorer, Survival, Safety', Tidy' => Tidy,
           NEW s \in Storages, PruneCommit(s)
    PROVE  Survival'
<1>1. CallT /\ Safety
  BY DEF Survival, Safety, TypeOK, CallT, Call
<1>2. /\ CallT'
      /\ \A t \in Storages : t # s => call'[t] = call[t]
  BY <1>1, EndedFact, MovedFact, SMT
     DEF PruneCommit, Steps, Commits, CallT, Call
<1>3. Roles'
  BY <1>1, <1>2, EndedFact, MovedFact
     DEF PruneCommit, At, Committed, RolledBack, FilesUntouched, Commits,
         Survival, Roles, StoreSteps, Steps
<1>4. Staged'
  BY <1>1, <1>2, EndedFact, MovedFact, NoStorageAssumption
     DEF PruneCommit, At, Committed, RolledBack, FilesUntouched, Commits,
         Survival, Safety, Turns, LockedSteps, TypeOK, Rows, Staged,
         TakingSteps, Steps
<1>5. Lone'
  BY <1>1, <1>2, EndedFact, MovedFact, NoStorageAssumption
     DEF PruneCommit, At, Committed, RolledBack, FilesUntouched, Commits,
         Survival, Safety, Turns, LockedSteps, TypeOK, Rows, Staged,
         TakingSteps, Lone, Returning, Steps
<1>6. Tidy' => Clean'
  BY <1>1, <1>2, EndedFact, MovedFact
     DEF PruneCommit, At, Committed, RolledBack, FilesUntouched, Commits,
         Survival, Clean, Steps
<1>7. Tidy' => Own'
  BY <1>1, <1>2, EndedFact, MovedFact, NoFileAssumption
     DEF PruneCommit, At, Committed, RolledBack, FilesUntouched, Commits,
         Survival, Safety, OneStorer, Roles, Staged, Own, OwnUndone, Kept,
         Sorted, Turns, Known, Unlinkable, StoreSteps, TakingSteps,
         LockedSteps, Steps
<1>8. Tidy' => OwnUndone'
  BY <1>1, <1>2, EndedFact, MovedFact, NoFileAssumption
     DEF PruneCommit, At, Committed, RolledBack, FilesUntouched, Commits,
         Survival, Safety, OneStorer, Roles, Staged, Own, OwnUndone, Kept,
         Sorted, Turns, Known, Unlinkable, StoreSteps, TakingSteps,
         LockedSteps, Steps
<1>9. Tidy' => Kept'
  BY <1>1, <1>2, EndedFact, MovedFact, NoFileAssumption, IntactAssumption
     DEF PruneCommit, At, Committed, RolledBack, FilesUntouched, Commits,
         Survival, Safety, OneStorer, Roles, Staged, Lone, Returning, Own,
         OwnUndone, Kept, Sorted, Turns, Known, Unlinkable, VerifiedSteps,
         StoreSteps, TakingSteps, LockedSteps, Steps
<1>10. Tidy' => Loose'
  BY <1>1, <1>2, EndedFact, MovedFact, NoFileAssumption, IntactAssumption
     DEF PruneCommit, At, Committed, RolledBack, FilesUntouched, Commits,
         Survival, Safety, Own, OwnUndone, Loose, Away, Handling, Known,
         Unlinkable, VerifiedSteps, Steps
<1>11. Tidy' => Spared'
  BY <1>1, <1>2, EndedFact, MovedFact, NoFileAssumption, IntactAssumption
     DEF PruneCommit, At, Committed, RolledBack, FilesUntouched, Commits,
         Survival, Safety, Staged, Lone, Own, OwnUndone, Kept, Sorted, Loose,
         Away, Handling, Spared, Doomed, HasName, Known, Unlinkable,
         VerifiedSteps, TakingSteps, Steps
<1>. QED
  BY <1>3, <1>4, <1>5, <1>6, <1>7, <1>8, <1>9, <1>10, <1>11
     DEF Survival

LEMMA DeleteSurvival ==
    ASSUME OneStorer, Survival, Safety', Tidy' => Tidy,
           NEW s \in Storages, Delete(s)
    PROVE  Survival'
<1>1. CallT /\ Safety
  BY DEF Survival, Safety, TypeOK, CallT, Call
<1>2. /\ CallT'
      /\ \A t \in Storages : t # s => call'[t] = call[t]
  BY <1>1, EndedFact, MovedFact, SMT DEF Delete, Steps, CallT, Call
<1>3. Roles'
  BY <1>1, <1>2, EndedFact, MovedFact
     DEF Delete, At, Untouched, Survival, Roles, StoreSteps, Steps
<1>4. Staged'
  BY <1>1, <1>2, EndedFact, MovedFact, NoStorageAssumption
     DEF Delete, At, Untouched, Survival, Safety, Turns, LockedSteps, TypeOK,
         Rows, Staged, TakingSteps, Steps
<1>5. Lone'
  BY <1>1, <1>2, EndedFact, MovedFact, NoStorageAssumption
     DEF Delete, At, Untouched, Survival, Safety, Turns, LockedSteps, TypeOK,
         Rows, Staged, TakingSteps, Lone, Returning, Steps
<1>6. Tidy' => Clean'
  BY <1>1, <1>2, EndedFact, MovedFact
     DEF Delete, At, Untouched, Survival, Clean, Steps
<1>7. Tidy' => Own'
  BY <1>1, <1>2, EndedFact, MovedFact, NoFileAssumption
     DEF Delete, At, Untouched, Survival, Safety, OneStorer, Roles, Staged,
         Own, OwnUndone, Kept, Sorted, Turns, Known, Unlinkable, StoreSteps,
         TakingSteps, LockedSteps, Steps
<1>8. Tidy' => OwnUndone'
  BY <1>1, <1>2, EndedFact, MovedFact, NoFileAssumption
     DEF Delete, At, Untouched, Survival, Safety, OneStorer, Roles, Staged,
         Own, OwnUndone, Kept, Sorted, Turns, Known, Unlinkable, StoreSteps,
         TakingSteps, LockedSteps, Steps
<1>9. Tidy' => Kept'
  BY <1>1, <1>2, EndedFact, MovedFact, NoFileAssumption, IntactAssumption
     DEF Delete, At, Untouched, Survival, Safety, OneStorer, Roles, Staged,
         Lone, Returning, Own, OwnUndone, Kept, Sorted, Turns, Known,
         Unlinkable, VerifiedSteps, StoreSteps, TakingSteps, LockedSteps, Steps
<1>10. Tidy' => Loose'
  BY <1>1, <1>2, EndedFact, MovedFact, NoFileAssumption, IntactAssumption
     DEF Delete, At, Untouched, Survival, Safety, Own, OwnUndone, Loose, Away,
         Handling, Known, Unlinkable, VerifiedSteps, Steps
<1>11. Tidy' => Spared'
  BY <1>1, <1>2, EndedFact, MovedFact, NoFileAssumption, IntactAssumption
     DEF Delete, At, Untouched, Survival, Safety, Staged, Lone, Own, OwnUndone,
         Kept, Sorted, Loose, Away, Handling, Spared, Doomed, HasName, Known,
         Unlinkable, VerifiedSteps, TakingSteps, Steps
<1>. QED
  BY <1>3, <1>4, <1>5, <1>6, <1>7, <1>8, <1>9, <1>10, <1>11
     DEF Survival

LEMMA RestoreSurvival ==
    ASSUME OneStorer, Survival, Safety', Tidy' => Tidy,
           NEW s \in Storages, Restore(s)
    PROVE  Survival'
<1>1. CallT /\ Safety
  BY DEF Survival, Safety, TypeOK, CallT, Call
<1>2. /\ CallT'
      /\ \A t \in Storages : t # s => call'[t] = call[t]
  BY <1>1, EndedFact, MovedFact, SMT DEF Restore, Steps, CallT, Call
<1>3. Roles'
  BY <1>1, <1>2, EndedFact, MovedFact
     DEF Restore, At, Untouched, Relinked, Survival, Roles, StoreSteps, Steps
<1>4. Staged'
  BY <1>1, <1>2, EndedFact, MovedFact, NoStorageAssumption
     DEF Restore, At, Untouched, Relinked, Survival, Safety, Turns,
         LockedSteps, TypeOK, Rows, Staged, TakingSteps, Steps
<1>5. Lone'
  BY <1>1, <1>2, EndedFact, MovedFact, NoStorageAssumption
     DEF Restore, At, Untouched, Relinked, Survival, Safety, Turns,
         LockedSteps, TypeOK, Rows, Staged, TakingSteps, Lone, Returning, Steps
<1>6. Tidy' => Clean'
  BY <1>1, <1>2, EndedFact, MovedFact
     DEF Restore, At, Untouched, Relinked, Survival, Clean, Steps
<1>7. Tidy' => Own'
  BY <1>1, <1>2, EndedFact, MovedFact, NoFileAssumption
     DEF Restore, At, Untouched, Relinked, Survival, Safety, OneStorer, Roles,
         Staged, Own, OwnUndone, Kept, Sorted, Turns, Known, Unlinkable,
         StoreSteps, TakingSteps, LockedSteps, Steps
<1>8. Tidy' => OwnUndone'
  BY <1>1, <1>2, EndedFact, MovedFact, NoFileAssumption
     DEF Restore, At, Untouched, Relinked, Survival, Safety, OneStorer, Roles,
         Staged, Own, OwnUndone, Kept, Sorted, Turns, Known, Unlinkable,
         StoreSteps, TakingSteps, LockedSteps, Steps
<1>9. Tidy' => Kept'
  BY <1>1, <1>2, EndedFact, MovedFact, NoFileAssumption, IntactAssumption
     DEF Restore, At, Untouched, Relinked, Survival, Safety, OneStorer, Roles,
         Staged, Lone, Returning, Own, OwnUndone, Kept, Sorted, Turns, Known,
         Unlinkable, VerifiedSteps, StoreSteps, TakingSteps, LockedSteps, Steps
<1>10. Tidy' => Loose'
  BY <1>1, <1>2, EndedFact, MovedFact, NoFileAssumption, IntactAssumption
     DEF Restore, At, Untouched, Relinked, Survival, Safety, Own, OwnUndone,
         Loose, Away, Handling, Known, Unlinkable, VerifiedSteps, Steps
<1>11. Tidy' => Spared'
  BY <1>1, <1>2, EndedFact, MovedFact, NoFileAssumption, IntactAssumption
     DEF Restore, At, Untouched, Relinked, Survival, Safety, Staged, Lone, Own,
         OwnUndone, Kept, Sorted, Loose, Away, Handling, Spared, Doomed,
         HasName, Known, Unlinkable, VerifiedSteps, TakingSteps, Steps
<1>. QED
  BY <1>3, <1>4, <1>5, <1>6, <1>7, <1>8, <1>9, <1>10, <1>11
     DEF Survival

LEMMA PinSurvival ==
    ASSUME OneStorer, Survival, Safety', Tidy' => Tidy,
           NEW s \in Storages, Pin(s)
    PROVE  Survival'
<1>1. CallT /\ Safety
  BY DEF Survival, Safety, TypeOK, CallT, Call
<1>2. /\ CallT'
      /\ \A t \in Storages : t # s => call'[t] = call[t]
  BY <1>1, EndedFact, MovedFact, SMT DEF Pin, Steps, CallT, Call
<1>3. /\ call[s].at = "pin"
      /\ call'[s].at \in {"reinsert", "audit"}
      /\ call'[s].held = call[s].held
      /\ call'[s].linked = call[s].linked
      /\ UNCHANGED <<db, txn, writer, leaf, aside, marks>>
  BY <1>1, MovedFact
     DEF Pin, At, Untouched, FilesUntouched, CallT, Call, Steps
<1>4. Roles'
  BY <1>1, <1>2, <1>3
     DEF Survival, Roles, StoreSteps, Steps
<1>5. Staged'
  BY <1>1, <1>2, <1>3, NoStorageAssumption
     DEF Survival, Safety, Turns, LockedSteps, TypeOK, Rows, Staged,
         TakingSteps, Steps
<1>6. Lone'
  BY <1>1, <1>2, <1>3, NoStorageAssumption
     DEF Survival, Safety, Turns, LockedSteps, TypeOK, Rows, Staged,
         TakingSteps, Lone, Returning, Steps
<1>7. Tidy' => Clean'
  BY <1>1, <1>2, <1>3
     DEF Survival, Clean, Steps
<1>8. Tidy' => Own'
  BY <1>1, <1>2, <1>3, NoFileAssumption
     DEF Survival, Safety, OneStorer, Roles, Staged, Own, OwnUndone, Kept,
         Sorted, Turns, Known, Unlinkable, StoreSteps, TakingSteps,
         LockedSteps, Steps
<1>9. Tidy' => OwnUndone'
  BY <1>1, <1>2, <1>3, NoFileAssumption
     DEF Survival, Safety, OneStorer, Roles, Staged, Own, OwnUndone, Kept,
         Sorted, Turns, Known, Unlinkable, StoreSteps, TakingSteps,
         LockedSteps, Steps
<1>10. Tidy' => Kept'
  BY <1>1, <1>2, <1>3, NoFileAssumption, IntactAssumption
     DEF Survival, Safety, OneStorer, Roles, Staged, Lone, Returning, Own,
         OwnUndone, Kept, Sorted, Turns, Known, Unlinkable, VerifiedSteps,
         StoreSteps, TakingSteps, LockedSteps, Steps
<1>11. Tidy' => Loose'
  BY <1>1, <1>2, <1>3, NoFileAssumption, IntactAssumption
     DEF Survival, Safety, Own, OwnUndone, Loose, Away, Handling, Known,
         Unlinkable, VerifiedSteps, Steps
<1>12. Tidy' => Spared'
  BY <1>1, <1>2, <1>3, NoFileAssumption, IntactAssumption
     DEF Survival, Safety, Staged, Lone, Own, OwnUndone, Kept, Sorted, Loose,
         Away, Handling, Spared, Doomed, HasName, Known, Unlinkable,
         VerifiedSteps, TakingSteps, Steps
<1>. QED
  BY <1>4, <1>5, <1>6, <1>7, <1>8, <1>9, <1>10, <1>11, <1>12
     DEF Survival

LEMMA ReinsertSurvival ==
    ASSUME OneStorer, Survival, Safety', Tidy' => Tidy,
           NEW s \in Storages, Reinsert(s)
    PROVE  Survival'
<1>1. CallT /\ Safety
  BY DEF Survival, Safety, TypeOK, CallT, Call
<1>2. /\ CallT'
      /\ \A t \in Storages : t # s => call'[t] = call[t]
  BY <1>1, EndedFact, MovedFact, SMT DEF Reinsert, Steps, CallT, Call
<1>3. Roles'
  BY <1>1, <1>2, EndedFact, MovedFact
     DEF Reinsert, At, Began, Free, FilesUntouched, Survival, Roles,
         StoreSteps, Steps
<1>4. Staged'
  BY <1>1, <1>2, EndedFact, MovedFact, NoStorageAssumption
     DEF Reinsert, At, Began, Free, FilesUntouched, Survival, Safety, Turns,
         LockedSteps, TypeOK, Rows, Staged, TakingSteps, Steps
<1>5. Lone'
  BY <1>1, <1>2, EndedFact, MovedFact, NoStorageAssumption
     DEF Reinsert, At, Began, Free, FilesUntouched, Survival, Safety, Turns,
         LockedSteps, TypeOK, Rows, Staged, TakingSteps, Lone, Returning, Steps
<1>6. Tidy' => Clean'
  BY <1>1, <1>2, EndedFact, MovedFact
     DEF Reinsert, At, Began, Free, FilesUntouched, Survival, Clean, Steps
<1>7. Tidy' => Own'
  BY <1>1, <1>2, EndedFact, MovedFact, NoFileAssumption
     DEF Reinsert, At, Began, Free, FilesUntouched, Survival, Safety,
         OneStorer, Roles, Staged, Own, OwnUndone, Kept, Sorted, Turns, Known,
         Unlinkable, StoreSteps, TakingSteps, LockedSteps, Steps
<1>8. Tidy' => OwnUndone'
  BY <1>1, <1>2, EndedFact, MovedFact, NoFileAssumption
     DEF Reinsert, At, Began, Free, FilesUntouched, Survival, Safety,
         OneStorer, Roles, Staged, Own, OwnUndone, Kept, Sorted, Turns, Known,
         Unlinkable, StoreSteps, TakingSteps, LockedSteps, Steps
<1>9. Tidy' => Kept'
  BY <1>1, <1>2, EndedFact, MovedFact, NoFileAssumption, IntactAssumption
     DEF Reinsert, At, Began, Free, FilesUntouched, Survival, Safety,
         OneStorer, Roles, Staged, Lone, Returning, Own, OwnUndone, Kept,
         Sorted, Turns, Known, Unlinkable, VerifiedSteps, StoreSteps,
         TakingSteps, LockedSteps, Steps
<1>10. Tidy' => Loose'
  BY <1>1, <1>2, EndedFact, MovedFact, NoFileAssumption, IntactAssumption
     DEF Reinsert, At, Began, Free, FilesUntouched, Survival, Safety, Own,
         OwnUndone, Loose, Away, Handling, Known, Unlinkable, VerifiedSteps,
         Steps
<1>11. Tidy' => Spared'
  BY <1>1, <1>2, EndedFact, MovedFact, NoFileAssumption, IntactAssumption
     DEF Reinsert, At, Began, Free, FilesUntouched, Survival, Safety, Staged,
         Lone, Own, OwnUndone, Kept, Sorted, Loose, Away, Handling, Spared,
         Doomed, HasName, Known, Unlinkable, VerifiedSteps, TakingSteps, Steps
<1>. QED
  BY <1>3, <1>4, <1>5, <1>6, <1>7, <1>8, <1>9, <1>10, <1>11
     DEF Survival

LEMMA RecommitSurvival ==
    ASSUME OneStorer, Survival, Safety', Tidy' => Tidy,
           NEW s \in Storages, Recommit(s)
    PROVE  Survival'
<1>1. CallT /\ Safety
  BY DEF Survival, Safety, TypeOK, CallT, Call
<1>2. /\ CallT'
      /\ \A t \in Storages : t # s => call'[t] = call[t]
  BY <1>1, EndedFact, MovedFact, SMT DEF Recommit, Steps, Commits, CallT, Call
<1>3. Roles'
  BY <1>1, <1>2, EndedFact, MovedFact
     DEF Recommit, At, Committed, RolledBack, FilesUntouched, Commits,
         Survival, Roles, StoreSteps, Steps
<1>4. Staged'
  BY <1>1, <1>2, EndedFact, MovedFact, NoStorageAssumption
     DEF Recommit, At, Committed, RolledBack, FilesUntouched, Commits,
         Survival, Safety, Turns, LockedSteps, TypeOK, Rows, Staged,
         TakingSteps, Steps
<1>5. Lone'
  BY <1>1, <1>2, EndedFact, MovedFact, NoStorageAssumption
     DEF Recommit, At, Committed, RolledBack, FilesUntouched, Commits,
         Survival, Safety, Turns, LockedSteps, TypeOK, Rows, Staged,
         TakingSteps, Lone, Returning, Steps
<1>6. Tidy' => Clean'
  BY <1>1, <1>2, EndedFact, MovedFact
     DEF Recommit, At, Committed, RolledBack, FilesUntouched, Commits,
         Survival, Clean, Steps
<1>7. Tidy' => Own'
  BY <1>1, <1>2, EndedFact, MovedFact, NoFileAssumption
     DEF Recommit, At, Committed, RolledBack, FilesUntouched, Commits,
         Survival, Safety, OneStorer, Roles, Staged, Own, OwnUndone, Kept,
         Sorted, Turns, Known, Unlinkable, StoreSteps, TakingSteps,
         LockedSteps, Steps
<1>8. Tidy' => OwnUndone'
  BY <1>1, <1>2, EndedFact, MovedFact, NoFileAssumption
     DEF Recommit, At, Committed, RolledBack, FilesUntouched, Commits,
         Survival, Safety, OneStorer, Roles, Staged, Own, OwnUndone, Kept,
         Sorted, Turns, Known, Unlinkable, StoreSteps, TakingSteps,
         LockedSteps, Steps
<1>9. Tidy' => Kept'
  BY <1>1, <1>2, EndedFact, MovedFact, NoFileAssumption, IntactAssumption
     DEF Recommit, At, Committed, RolledBack, FilesUntouched, Commits,
         Survival, Safety, OneStorer, Roles, Staged, Lone, Returning, Own,
         OwnUndone, Kept, Sorted, Turns, Known, Unlinkable, VerifiedSteps,
         StoreSteps, TakingSteps, LockedSteps, Steps
<1>10. Tidy' => Loose'
  BY <1>1, <1>2, EndedFact, MovedFact, NoFileAssumption, IntactAssumption
     DEF Recommit, At, Committed, RolledBack, FilesUntouched, Commits,
         Survival, Safety, Own, OwnUndone, Loose, Away, Handling, Known,
         Unlinkable, VerifiedSteps, Steps
<1>11. Tidy' => Spared'
  BY <1>1, <1>2, EndedFact, MovedFact, NoFileAssumption, IntactAssumption
     DEF Recommit, At, Committed, RolledBack, FilesUntouched, Commits,
         Survival, Safety, Staged, Lone, Own, OwnUndone, Kept, Sorted, Loose,
         Away, Handling, Spared, Doomed, HasName, Known, Unlinkable,
         VerifiedSteps, TakingSteps, Steps
<1>. QED
  BY <1>3, <1>4, <1>5, <1>6, <1>7, <1>8, <1>9, <1>10, <1>11
     DEF Survival

LEMMA ReproveSurvival ==
    ASSUME OneStorer, Survival, Safety', Tidy' => Tidy,
           NEW s \in Storages, Reprove(s)
    PROVE  Survival'
<1>1. CallT /\ Safety
  BY DEF Survival, Safety, TypeOK, CallT, Call
<1>2. /\ CallT'
      /\ \A t \in Storages : t # s => call'[t] = call[t]
  BY <1>1, EndedFact, MovedFact, SMT DEF Reprove, Steps, CallT, Call
<1>3. Roles'
  BY <1>1, <1>2, EndedFact, MovedFact
     DEF Reprove, At, FilesUntouched, Survival, Roles, StoreSteps, Steps
<1>4. Staged'
  BY <1>1, <1>2, EndedFact, MovedFact, NoStorageAssumption
     DEF Reprove, At, FilesUntouched, Survival, Safety, Turns, LockedSteps,
         TypeOK, Rows, Staged, TakingSteps, Steps
<1>5. Lone'
  <2>1. /\ UNCHANGED <<db, txn>>
        /\ call'[s].at \in {"unmark", "audit"}
    BY <1>1, MovedFact DEF Reprove, Steps
  <2>. QED
    BY <1>2, <2>1 DEF Survival, Lone, Returning
<1>6. Tidy' => Clean'
  BY <1>1, <1>2, EndedFact, MovedFact
     DEF Reprove, At, FilesUntouched, Survival, Clean, Steps
<1>7. Tidy' => Own'
  BY <1>1, <1>2, EndedFact, MovedFact, NoFileAssumption
     DEF Reprove, At, FilesUntouched, Survival, Safety, OneStorer, Roles,
         Staged, Own, OwnUndone, Kept, Sorted, Turns, Known, Unlinkable,
         StoreSteps, TakingSteps, LockedSteps, Steps
<1>8. Tidy' => OwnUndone'
  BY <1>1, <1>2, EndedFact, MovedFact, NoFileAssumption
     DEF Reprove, At, FilesUntouched, Survival, Safety, OneStorer, Roles,
         Staged, Own, OwnUndone, Kept, Sorted, Turns, Known, Unlinkable,
         StoreSteps, TakingSteps, LockedSteps, Steps
<1>9. Tidy' => Kept'
  BY <1>1, <1>2, EndedFact, MovedFact, NoFileAssumption, IntactAssumption
     DEF Reprove, At, FilesUntouched, Survival, Safety, OneStorer, Roles,
         Staged, Lone, Returning, Own, OwnUndone, Kept, Sorted, Turns, Known,
         Unlinkable, VerifiedSteps, StoreSteps, TakingSteps, LockedSteps, Steps
<1>10. Tidy' => Loose'
  BY <1>1, <1>2, EndedFact, MovedFact, NoFileAssumption, IntactAssumption
     DEF Reprove, At, FilesUntouched, Survival, Safety, Own, OwnUndone, Loose,
         Away, Handling, Known, Unlinkable, VerifiedSteps, Steps
<1>11. Tidy' => Spared'
  BY <1>1, <1>2, EndedFact, MovedFact, NoFileAssumption, IntactAssumption
     DEF Reprove, At, FilesUntouched, Survival, Safety, Staged, Lone, Own,
         OwnUndone, Kept, Sorted, Loose, Away, Handling, Spared, Doomed,
         HasName, Known, Unlinkable, VerifiedSteps, TakingSteps, Steps
<1>. QED
  BY <1>3, <1>4, <1>5, <1>6, <1>7, <1>8, <1>9, <1>10, <1>11
     DEF Survival

LEMMA UnmarkSurvival ==
    ASSUME OneStorer, Survival, Safety', Tidy' => Tidy,
           NEW s \in Storages, Unmark(s)
    PROVE  Survival'
<1>1. CallT /\ Safety
  BY DEF Survival, Safety, TypeOK, CallT, Call
<1>2. /\ CallT'
      /\ \A t \in Storages : t # s => call'[t] = call[t]
  BY <1>1, EndedFact, MovedFact, SMT DEF Unmark, Steps, CallT, Call
<1>3. /\ call[s].at = "unmark"
      /\ call'[s].at \in {"idle", "audit"}
      /\ call'[s].held \in {NoFile, call[s].held}
      /\ call'[s].linked \in {NoFile, call[s].linked}
      /\ db'.row = db.row /\ db'.refs = db.refs
      /\ db'.versions = db.versions
      /\ UNCHANGED <<leaf, aside, marks>>
      /\ \/ UNCHANGED <<db, txn, writer>>
         \/ writer = NoStorage /\ txn' = db' /\ UNCHANGED writer
  <2>1. CASE CommittedAlone([db EXCEPT !.marker = FALSE])
    <3>1. writer = NoStorage /\ txn' = db' /\ UNCHANGED writer
      BY <2>1 DEF CommittedAlone, Free
    <3>2. /\ db'.row = db.row /\ db'.refs = db.refs
          /\ db'.versions = db.versions
      BY <2>1 DEF CommittedAlone, Safety, TypeOK, Rows
    <3>. QED
      BY <1>1, EndedFact, MovedFact, <2>1, <3>1, <3>2
         DEF Unmark, At, FilesUntouched, Steps
  <2>2. CASE Untouched
    BY <1>1, EndedFact, MovedFact, <2>2
       DEF Unmark, At, Untouched, FilesUntouched, Steps
  <2>. QED
    BY <2>1, <2>2 DEF Unmark
<1>4. Roles'
  BY <1>1, <1>2, <1>3
     DEF Survival, Roles, StoreSteps, Steps
<1>5. Staged'
  BY <1>1, <1>2, <1>3, NoStorageAssumption
     DEF Survival, Safety, Turns, LockedSteps, TypeOK, Rows, Staged,
         TakingSteps, Steps
<1>6. Lone'
  BY <1>1, <1>2, <1>3, NoStorageAssumption
     DEF Survival, Safety, Turns, LockedSteps, TypeOK, Rows, Staged,
         TakingSteps, Lone, Returning, Steps
<1>7. Tidy' => Clean'
  BY <1>1, <1>2, <1>3
     DEF Survival, Clean, Steps
<1>8. Tidy' => Own'
  BY <1>1, <1>2, <1>3, NoFileAssumption
     DEF Survival, Safety, OneStorer, Roles, Staged, Own, OwnUndone, Kept,
         Sorted, Turns, Known, Unlinkable, StoreSteps, TakingSteps,
         LockedSteps, Steps
<1>9. Tidy' => OwnUndone'
  BY <1>1, <1>2, <1>3, NoFileAssumption
     DEF Survival, Safety, OneStorer, Roles, Staged, Own, OwnUndone, Kept,
         Sorted, Turns, Known, Unlinkable, StoreSteps, TakingSteps,
         LockedSteps, Steps
<1>10. Tidy' => Kept'
  BY <1>1, <1>2, <1>3, NoFileAssumption, IntactAssumption
     DEF Survival, Safety, OneStorer, Roles, Staged, Lone, Returning, Own,
         OwnUndone, Kept, Sorted, Turns, Known, Unlinkable, VerifiedSteps,
         StoreSteps, TakingSteps, LockedSteps, Steps
<1>11. Tidy' => Loose'
  BY <1>1, <1>2, <1>3, NoFileAssumption, IntactAssumption
     DEF Survival, Safety, Own, OwnUndone, Loose, Away, Handling, Known,
         Unlinkable, VerifiedSteps, Steps
<1>12. Tidy' => Spared'
  BY <1>1, <1>2, <1>3, NoFileAssumption, IntactAssumption
     DEF Survival, Safety, Staged, Lone, Own, OwnUndone, Kept, Sorted, Loose,
         Away, Handling, Spared, Doomed, HasName, Known, Unlinkable,
         VerifiedSteps, TakingSteps, Steps
<1>. QED
  BY <1>4, <1>5, <1>6, <1>7, <1>8, <1>9, <1>10, <1>11, <1>12
     DEF Survival

LEMMA AuditSurvival ==
    ASSUME OneStorer, Survival, Safety', Tidy' => Tidy,
           NEW s \in Storages, Audit(s)
    PROVE  Survival'
<1>1. CallT /\ Safety
  BY DEF Survival, Safety, TypeOK, CallT, Call
<1>2. /\ CallT'
      /\ \A t \in Storages : t # s => call'[t] = call[t]
  BY <1>1, EndedFact, MovedFact, SMT DEF Audit, Steps, CallT, Call
<1>3. Roles'
  BY <1>1, <1>2, EndedFact, MovedFact
     DEF Audit, At, Untouched, FilesUntouched, Survival, Roles, StoreSteps,
         Steps
<1>4. Staged'
  BY <1>1, <1>2, EndedFact, MovedFact, NoStorageAssumption
     DEF Audit, At, Untouched, FilesUntouched, Survival, Safety, Turns,
         LockedSteps, TypeOK, Rows, Staged, TakingSteps, Steps
<1>5. Lone'
  BY <1>1, <1>2, EndedFact, MovedFact, NoStorageAssumption
     DEF Audit, At, Untouched, FilesUntouched, Survival, Safety, Turns,
         LockedSteps, TypeOK, Rows, Staged, TakingSteps, Lone, Returning, Steps
<1>6. Tidy' => Clean'
  BY <1>1, <1>2, EndedFact, MovedFact
     DEF Audit, At, Untouched, FilesUntouched, Survival, Clean, Steps
<1>7. Tidy' => Own'
  BY <1>1, <1>2, EndedFact, MovedFact, NoFileAssumption
     DEF Audit, At, Untouched, FilesUntouched, Survival, Safety, OneStorer,
         Roles, Staged, Own, OwnUndone, Kept, Sorted, Turns, Known, Unlinkable,
         StoreSteps, TakingSteps, LockedSteps, Steps
<1>8. Tidy' => OwnUndone'
  BY <1>1, <1>2, EndedFact, MovedFact, NoFileAssumption
     DEF Audit, At, Untouched, FilesUntouched, Survival, Safety, OneStorer,
         Roles, Staged, Own, OwnUndone, Kept, Sorted, Turns, Known, Unlinkable,
         StoreSteps, TakingSteps, LockedSteps, Steps
<1>9. Tidy' => Kept'
  BY <1>1, <1>2, EndedFact, MovedFact, NoFileAssumption, IntactAssumption
     DEF Audit, At, Untouched, FilesUntouched, Survival, Safety, OneStorer,
         Roles, Staged, Lone, Returning, Own, OwnUndone, Kept, Sorted, Turns,
         Known, Unlinkable, VerifiedSteps, StoreSteps, TakingSteps,
         LockedSteps, Steps
<1>10. Tidy' => Loose'
  BY <1>1, <1>2, EndedFact, MovedFact, NoFileAssumption, IntactAssumption
     DEF Audit, At, Untouched, FilesUntouched, Survival, Safety, Own,
         OwnUndone, Loose, Away, Handling, Known, Unlinkable, VerifiedSteps,
         Steps
<1>11. Tidy' => Spared'
  BY <1>1, <1>2, EndedFact, MovedFact, NoFileAssumption, IntactAssumption
     DEF Audit, At, Untouched, FilesUntouched, Survival, Safety, Staged, Lone,
         Own, OwnUndone, Kept, Sorted, Loose, Away, Handling, Spared, Doomed,
         HasName, Known, Unlinkable, VerifiedSteps, TakingSteps, Steps
<1>. QED
  BY <1>3, <1>4, <1>5, <1>6, <1>7, <1>8, <1>9, <1>10, <1>11
     DEF Survival

LEMMA RetireSurvival ==
    ASSUME OneStorer, Survival, Safety', Tidy' => Tidy,
           NEW s \in Storages, Retire(s)
    PROVE  Survival'
<1>1. CallT /\ Safety
  BY DEF Survival, Safety, TypeOK, CallT, Call
<1>2. /\ CallT'
      /\ \A t \in Storages : t # s => call'[t] = call[t]
  BY <1>1, EndedFact, MovedFact, SMT DEF Retire, Steps, CallT, Call
<1>3. /\ call[s].at = "retire"
      /\ call'[s].at = "idle"
      /\ call'[s].held = NoFile
      /\ call'[s].linked = NoFile
      /\ (db'.row => db.row) /\ db'.refs = db.refs
      /\ db'.versions = db.versions
      /\ marks \subseteq marks' /\ marks' \subseteq marks \union {"reported"}
      /\ UNCHANGED <<leaf, aside>>
      /\ \/ UNCHANGED <<db, txn, writer>>
         \/ writer = NoStorage /\ txn' = db' /\ UNCHANGED writer
  <2>1. CASE CommittedAlone([db EXCEPT !.row = FALSE, !.marker = TRUE])
    <3>1. writer = NoStorage /\ txn' = db' /\ UNCHANGED writer
      BY <2>1 DEF CommittedAlone, Free
    <3>2. /\ ~db'.row /\ db'.refs = db.refs
          /\ db'.versions = db.versions
      BY <2>1 DEF CommittedAlone, Safety, TypeOK, Rows
    <3>. QED
      BY <1>1, EndedFact, MovedFact, <2>1, <3>1, <3>2
         DEF Retire, At, FilesUntouched, Steps, Report
  <2>2. CASE Untouched
    BY <1>1, EndedFact, MovedFact, <2>2
       DEF Retire, At, Untouched, FilesUntouched, Steps, Report
  <2>. QED
    BY <2>1, <2>2 DEF Retire
<1>4. Roles'
  BY <1>1, <1>2, <1>3
     DEF Survival, Roles, StoreSteps, Steps
<1>5. Staged'
  BY <1>1, <1>2, <1>3, NoStorageAssumption
     DEF Survival, Safety, Turns, LockedSteps, TypeOK, Rows, Staged,
         TakingSteps, Steps
<1>6. Lone'
  BY <1>1, <1>2, <1>3, NoStorageAssumption
     DEF Survival, Safety, Turns, LockedSteps, TypeOK, Rows, Staged,
         TakingSteps, Lone, Returning, Steps
<1>7. Tidy' => Clean'
  BY <1>1, <1>2, <1>3
     DEF Survival, Clean, Steps
<1>8. Tidy' => Own'
  BY <1>1, <1>2, <1>3, NoFileAssumption
     DEF Survival, Safety, OneStorer, Roles, Staged, Own, OwnUndone, Kept,
         Sorted, Turns, Known, Unlinkable, StoreSteps, TakingSteps,
         LockedSteps, Steps
<1>9. Tidy' => OwnUndone'
  BY <1>1, <1>2, <1>3, NoFileAssumption
     DEF Survival, Safety, OneStorer, Roles, Staged, Own, OwnUndone, Kept,
         Sorted, Turns, Known, Unlinkable, StoreSteps, TakingSteps,
         LockedSteps, Steps
<1>10. Tidy' => Kept'
  BY <1>1, <1>2, <1>3, NoFileAssumption, IntactAssumption
     DEF Survival, Safety, OneStorer, Roles, Staged, Lone, Returning, Own,
         OwnUndone, Kept, Sorted, Turns, Known, Unlinkable, VerifiedSteps,
         StoreSteps, TakingSteps, LockedSteps, Steps
<1>11. Tidy' => Loose'
  BY <1>1, <1>2, <1>3, NoFileAssumption, IntactAssumption
     DEF Survival, Safety, Own, OwnUndone, Loose, Away, Handling, Known,
         Unlinkable, VerifiedSteps, Steps
<1>12. Tidy' => Spared'
  BY <1>1, <1>2, <1>3, NoFileAssumption, IntactAssumption
     DEF Survival, Safety, Staged, Lone, Own, OwnUndone, Kept, Sorted, Loose,
         Away, Handling, Spared, Doomed, HasName, Known, Unlinkable,
         VerifiedSteps, TakingSteps, Steps
<1>. QED
  BY <1>4, <1>5, <1>6, <1>7, <1>8, <1>9, <1>10, <1>11, <1>12
     DEF Survival

LEMMA AbandonSurvival ==
    ASSUME OneStorer, Survival, Safety', Tidy' => Tidy,
           NEW s \in Storages, Abandon(s)
    PROVE  Survival'
<1>1. CallT /\ Safety
  BY DEF Survival, Safety, TypeOK, CallT, Call
<1>2. /\ CallT'
      /\ \A t \in Storages : t # s => call'[t] = call[t]
  BY <1>1, EndedFact, MovedFact, SMT DEF Abandon, Steps, CallT, Call
<1>3. Roles'
  BY <1>1, <1>2, EndedFact, MovedFact
     DEF Abandon, At, Committed, RolledBack, FilesUntouched, Survival, Roles,
         StoreSteps, Steps
<1>4. Staged'
  BY <1>1, <1>2, EndedFact, MovedFact, NoStorageAssumption
     DEF Abandon, At, Committed, RolledBack, FilesUntouched, Survival, Safety,
         Turns, LockedSteps, TypeOK, Rows, Staged, TakingSteps, Steps
<1>5. Lone'
  BY <1>1, <1>2, EndedFact, MovedFact, NoStorageAssumption
     DEF Abandon, At, Committed, RolledBack, FilesUntouched, Survival, Safety,
         Turns, LockedSteps, TypeOK, Rows, Staged, TakingSteps, Lone,
         Returning, Steps
<1>6. Tidy' => Clean'
  BY <1>1, <1>2, EndedFact, MovedFact
     DEF Abandon, At, Committed, RolledBack, FilesUntouched, Survival, Clean,
         Steps
<1>7. Tidy' => Own'
  BY <1>1, <1>2, EndedFact, MovedFact, NoFileAssumption
     DEF Abandon, At, Committed, RolledBack, FilesUntouched, Survival, Safety,
         OneStorer, Roles, Staged, Own, OwnUndone, Kept, Sorted, Turns, Known,
         Unlinkable, StoreSteps, TakingSteps, LockedSteps, Steps
<1>8. Tidy' => OwnUndone'
  BY <1>1, <1>2, EndedFact, MovedFact, NoFileAssumption
     DEF Abandon, At, Committed, RolledBack, FilesUntouched, Survival, Safety,
         OneStorer, Roles, Staged, Own, OwnUndone, Kept, Sorted, Turns, Known,
         Unlinkable, StoreSteps, TakingSteps, LockedSteps, Steps
<1>9. Tidy' => Kept'
  BY <1>1, <1>2, EndedFact, MovedFact, NoFileAssumption, IntactAssumption
     DEF Abandon, At, Committed, RolledBack, FilesUntouched, Survival, Safety,
         OneStorer, Roles, Staged, Lone, Returning, Own, OwnUndone, Kept,
         Sorted, Turns, Known, Unlinkable, VerifiedSteps, StoreSteps,
         TakingSteps, LockedSteps, Steps
<1>10. Tidy' => Loose'
  BY <1>1, <1>2, EndedFact, MovedFact, NoFileAssumption, IntactAssumption
     DEF Abandon, At, Committed, RolledBack, FilesUntouched, Survival, Safety,
         Own, OwnUndone, Loose, Away, Handling, Known, Unlinkable,
         VerifiedSteps, Steps
<1>11. Tidy' => Spared'
  BY <1>1, <1>2, EndedFact, MovedFact, NoFileAssumption, IntactAssumption
     DEF Abandon, At, Committed, RolledBack, FilesUntouched, Survival, Safety,
         Staged, Lone, Own, OwnUndone, Kept, Sorted, Loose, Away, Handling,
         Spared, Doomed, HasName, Known, Unlinkable, VerifiedSteps,
         TakingSteps, Steps
<1>. QED
  BY <1>3, <1>4, <1>5, <1>6, <1>7, <1>8, <1>9, <1>10, <1>11
     DEF Survival

LEMMA RereadSurvival ==
    ASSUME OneStorer, Survival, Safety', Tidy' => Tidy,
           NEW s \in Storages, Reread(s)
    PROVE  Survival'
<1>1. CallT /\ Safety
  BY DEF Survival, Safety, TypeOK, CallT, Call
<1>2. /\ CallT'
      /\ \A t \in Storages : t # s => call'[t] = call[t]
  <2>1. Ended(s) \/ Moved(s, "retire") \/ Moved(s, "republish")
    BY DEF Reread
  <2>. QED
    BY <1>1, <2>1, EndedFact, MovedFact DEF Steps
<1>3. Roles'
  BY <1>1, <1>2, EndedFact, MovedFact
     DEF Reread, At, Untouched, FilesUntouched, Survival, Roles, StoreSteps,
         Steps
<1>4. Staged'
  BY <1>1, <1>2, EndedFact, MovedFact, NoStorageAssumption
     DEF Reread, At, Untouched, FilesUntouched, Survival, Safety, Turns,
         LockedSteps, TypeOK, Rows, Staged, TakingSteps, Steps
<1>5. Lone'
  BY <1>1, <1>2, EndedFact, MovedFact, NoStorageAssumption
     DEF Reread, At, Untouched, FilesUntouched, Survival, Safety, Turns,
         LockedSteps, TypeOK, Rows, Staged, TakingSteps, Lone, Returning, Steps
<1>6. Tidy' => Clean'
  BY <1>1, <1>2, EndedFact, MovedFact
     DEF Reread, At, Untouched, FilesUntouched, Survival, Clean, Steps
<1>7. Tidy' => Own'
  BY <1>1, <1>2, EndedFact, MovedFact, NoFileAssumption
     DEF Reread, At, Untouched, FilesUntouched, Survival, Safety, OneStorer,
         Roles, Staged, Own, OwnUndone, Kept, Sorted, Turns, Known, Unlinkable,
         StoreSteps, TakingSteps, LockedSteps, Steps
<1>8. Tidy' => OwnUndone'
  BY <1>1, <1>2, EndedFact, MovedFact, NoFileAssumption
     DEF Reread, At, Untouched, FilesUntouched, Survival, Safety, OneStorer,
         Roles, Staged, Own, OwnUndone, Kept, Sorted, Turns, Known, Unlinkable,
         StoreSteps, TakingSteps, LockedSteps, Steps
<1>9. Tidy' => Kept'
  BY <1>1, <1>2, EndedFact, MovedFact, NoFileAssumption, IntactAssumption
     DEF Reread, At, Untouched, FilesUntouched, Survival, Safety, OneStorer,
         Roles, Staged, Lone, Returning, Own, OwnUndone, Kept, Sorted, Turns,
         Known, Unlinkable, VerifiedSteps, StoreSteps, TakingSteps,
         LockedSteps, Steps
<1>10. Tidy' => Loose'
  BY <1>1, <1>2, EndedFact, MovedFact, NoFileAssumption, IntactAssumption
     DEF Reread, At, Untouched, FilesUntouched, Survival, Safety, Own,
         OwnUndone, Loose, Away, Handling, Known, Unlinkable, VerifiedSteps,
         Steps
<1>11. Tidy' => Spared'
  BY <1>1, <1>2, EndedFact, MovedFact, NoFileAssumption, IntactAssumption
     DEF Reread, At, Untouched, FilesUntouched, Survival, Safety, Staged, Lone,
         Own, OwnUndone, Kept, Sorted, Loose, Away, Handling, Spared, Doomed,
         HasName, Known, Unlinkable, VerifiedSteps, TakingSteps, Steps
<1>. QED
  BY <1>3, <1>4, <1>5, <1>6, <1>7, <1>8, <1>9, <1>10, <1>11
     DEF Survival

LEMMA RepublishingSurvival ==
    ASSUME OneStorer, Survival, Safety', Tidy' => Tidy, NEW s \in Storages,
           Republish(s) \/ RepublishFails(s) \/ Reundo(s) \/ Reunlink(s)
    PROVE  Survival'
<1>1. CallT
  BY DEF Survival, Safety, TypeOK, CallT, Call
<1>2. /\ call[s].at \in {"republish", "reundo", "reunlink"}
      /\ UNCHANGED <<db, txn, writer>>
  BY DEF Republish, RepublishFails, Reundo, Reunlink, At, Untouched
<1>3. /\ \A t \in Storages : t # s => call'[t] = call[t]
      /\ call'[s].at \in {"idle", "retire", "reundo", "reunlink"}
  <2>1. CASE Republish(s)
    BY <1>1, <2>1, EndedFact, MovedFact DEF Republish, Steps
  <2>2. CASE RepublishFails(s)
    BY <1>1, <2>2 DEF RepublishFails, CallT, Call
  <2>3. CASE Reundo(s)
    BY <1>1, <2>3, MovedFact DEF Reundo, Checks, Steps
  <2>4. CASE Reunlink(s)
    BY <1>1, <2>4, MovedFact DEF Reunlink, Unlinks, Steps
  <2>. QED
    BY <2>1, <2>2, <2>3, <2>4
<1>4. ~Tidy'
  BY <1>2 DEF Survival, Clean
<1>5. Roles'
  BY <1>2, <1>3 DEF Survival, Roles, StoreSteps
<1>6. Staged'
  BY <1>2, <1>3 DEF Survival, Staged, TakingSteps
<1>7. Lone'
  BY <1>2, <1>3 DEF Survival, Lone, Returning
<1>. QED
  BY <1>4, <1>5, <1>6, <1>7 DEF Survival

LEMMA SettleSurvival ==
    ASSUME OneStorer, Survival, Safety', Tidy' => Tidy,
           NEW s \in Storages, Settle(s)
    PROVE  Survival'
<1>1. CallT /\ Safety
  BY DEF Survival, Safety, TypeOK, CallT, Call
<1>2. /\ CallT'
      /\ \A t \in Storages : t # s => call'[t] = call[t]
  BY <1>1, EndedFact, MovedFact, SMT DEF Settle, Steps, CallT, Call
<1>3. Roles'
  BY <1>1, <1>2, EndedFact, MovedFact
     DEF Settle, At, Untouched, FilesUntouched, Survival, Roles, StoreSteps,
         Steps
<1>4. Staged'
  BY <1>1, <1>2, EndedFact, MovedFact, NoStorageAssumption
     DEF Settle, At, Untouched, FilesUntouched, Survival, Safety, Turns,
         LockedSteps, TypeOK, Rows, Staged, TakingSteps, Steps
<1>5. Lone'
  BY <1>1, <1>2, EndedFact, MovedFact, NoStorageAssumption
     DEF Settle, At, Untouched, FilesUntouched, Survival, Safety, Turns,
         LockedSteps, TypeOK, Rows, Staged, TakingSteps, Lone, Returning, Steps
<1>6. Tidy' => Clean'
  BY <1>1, <1>2, EndedFact, MovedFact
     DEF Settle, At, Untouched, FilesUntouched, Survival, Clean, Steps
<1>7. Tidy' => Own'
  BY <1>1, <1>2, EndedFact, MovedFact, NoFileAssumption
     DEF Settle, At, Untouched, FilesUntouched, Survival, Safety, OneStorer,
         Roles, Staged, Own, OwnUndone, Kept, Sorted, Turns, Known, Unlinkable,
         StoreSteps, TakingSteps, LockedSteps, Steps
<1>8. Tidy' => OwnUndone'
  BY <1>1, <1>2, EndedFact, MovedFact, NoFileAssumption
     DEF Settle, At, Untouched, FilesUntouched, Survival, Safety, OneStorer,
         Roles, Staged, Own, OwnUndone, Kept, Sorted, Turns, Known, Unlinkable,
         StoreSteps, TakingSteps, LockedSteps, Steps
<1>9. Tidy' => Kept'
  BY <1>1, <1>2, EndedFact, MovedFact, NoFileAssumption, IntactAssumption
     DEF Settle, At, Untouched, FilesUntouched, Survival, Safety, OneStorer,
         Roles, Staged, Lone, Returning, Own, OwnUndone, Kept, Sorted, Turns,
         Known, Unlinkable, VerifiedSteps, StoreSteps, TakingSteps,
         LockedSteps, Steps
<1>10. Tidy' => Loose'
  BY <1>1, <1>2, EndedFact, MovedFact, NoFileAssumption, IntactAssumption
     DEF Settle, At, Untouched, FilesUntouched, Survival, Safety, Own,
         OwnUndone, Loose, Away, Handling, Known, Unlinkable, VerifiedSteps,
         Steps
<1>11. Tidy' => Spared'
  BY <1>1, <1>2, EndedFact, MovedFact, NoFileAssumption, IntactAssumption
     DEF Settle, At, Untouched, FilesUntouched, Survival, Safety, Staged, Lone,
         Own, OwnUndone, Kept, Sorted, Loose, Away, Handling, Spared, Doomed,
         HasName, Known, Unlinkable, VerifiedSteps, TakingSteps, Steps
<1>. QED
  BY <1>3, <1>4, <1>5, <1>6, <1>7, <1>8, <1>9, <1>10, <1>11
     DEF Survival

LEMMA DiscardSurvival ==
    ASSUME OneStorer, Survival, Safety', Tidy' => Tidy,
           NEW s \in Storages, Discard(s)
    PROVE  Survival'
<1>1. CallT /\ Safety
  BY DEF Survival, Safety, TypeOK, CallT, Call
<1>2. /\ CallT'
      /\ \A t \in Storages : t # s => call'[t] = call[t]
  BY <1>1, EndedFact, MovedFact, SMT DEF Discard, Steps, CallT, Call
<1>3. Roles'
  BY <1>1, <1>2, EndedFact, MovedFact
     DEF Discard, At, Untouched, Survival, Roles, StoreSteps, Steps
<1>4. Staged'
  BY <1>1, <1>2, EndedFact, MovedFact, NoStorageAssumption
     DEF Discard, At, Untouched, Survival, Safety, Turns, LockedSteps, TypeOK,
         Rows, Staged, TakingSteps, Steps
<1>5. Lone'
  BY <1>1, <1>2, EndedFact, MovedFact, NoStorageAssumption
     DEF Discard, At, Untouched, Survival, Safety, Turns, LockedSteps, TypeOK,
         Rows, Staged, TakingSteps, Lone, Returning, Steps
<1>6. Tidy' => Clean'
  BY <1>1, <1>2, EndedFact, MovedFact
     DEF Discard, At, Untouched, Survival, Clean, Steps
<1>7. Tidy' => Own'
  BY <1>1, <1>2, EndedFact, MovedFact, NoFileAssumption
     DEF Discard, At, Untouched, Survival, Safety, OneStorer, Roles, Staged,
         Own, OwnUndone, Kept, Sorted, Turns, Known, Unlinkable, StoreSteps,
         TakingSteps, LockedSteps, Steps
<1>8. Tidy' => OwnUndone'
  BY <1>1, <1>2, EndedFact, MovedFact, NoFileAssumption
     DEF Discard, At, Untouched, Survival, Safety, OneStorer, Roles, Staged,
         Own, OwnUndone, Kept, Sorted, Turns, Known, Unlinkable, StoreSteps,
         TakingSteps, LockedSteps, Steps
<1>9. Tidy' => Kept'
  BY <1>1, <1>2, EndedFact, MovedFact, NoFileAssumption, IntactAssumption
     DEF Discard, At, Untouched, Survival, Safety, OneStorer, Roles, Staged,
         Lone, Returning, Own, OwnUndone, Kept, Sorted, Turns, Known,
         Unlinkable, VerifiedSteps, StoreSteps, TakingSteps, LockedSteps, Steps
<1>10. Tidy' => Loose'
  BY <1>1, <1>2, EndedFact, MovedFact, NoFileAssumption, IntactAssumption
     DEF Discard, At, Untouched, Survival, Safety, Own, OwnUndone, Loose, Away,
         Handling, Known, Unlinkable, VerifiedSteps, Steps
<1>11. Tidy' => Spared'
  BY <1>1, <1>2, EndedFact, MovedFact, NoFileAssumption, IntactAssumption
     DEF Discard, At, Untouched, Survival, Safety, Staged, Lone, Own,
         OwnUndone, Kept, Sorted, Loose, Away, Handling, Spared, Doomed,
         HasName, Known, Unlinkable, VerifiedSteps, TakingSteps, Steps
<1>. QED
  BY <1>3, <1>4, <1>5, <1>6, <1>7, <1>8, <1>9, <1>10, <1>11
     DEF Survival

LEMMA PutBackSurvival ==
    ASSUME OneStorer, Survival, Safety', Tidy' => Tidy,
           NEW s \in Storages, PutBack(s)
    PROVE  Survival'
<1>1. CallT /\ Safety
  BY DEF Survival, Safety, TypeOK, CallT, Call
<1>2. /\ CallT'
      /\ \A t \in Storages : t # s => call'[t] = call[t]
  BY <1>1, EndedFact, MovedFact, SMT DEF PutBack, Steps, CallT, Call
<1>3. Roles'
  BY <1>1, <1>2, EndedFact, MovedFact
     DEF PutBack, At, Untouched, Relinked, Survival, Roles, StoreSteps, Steps
<1>4. Staged'
  BY <1>1, <1>2, EndedFact, MovedFact, NoStorageAssumption
     DEF PutBack, At, Untouched, Relinked, Survival, Safety, Turns,
         LockedSteps, TypeOK, Rows, Staged, TakingSteps, Steps
<1>5. Lone'
  BY <1>1, <1>2, EndedFact, MovedFact, NoStorageAssumption
     DEF PutBack, At, Untouched, Relinked, Survival, Safety, Turns,
         LockedSteps, TypeOK, Rows, Staged, TakingSteps, Lone, Returning, Steps
<1>6. Tidy' => Clean'
  BY <1>1, <1>2, EndedFact, MovedFact
     DEF PutBack, At, Untouched, Relinked, Survival, Clean, Steps
<1>7. Tidy' => Own'
  BY <1>1, <1>2, EndedFact, MovedFact, NoFileAssumption
     DEF PutBack, At, Untouched, Relinked, Survival, Safety, OneStorer, Roles,
         Staged, Own, OwnUndone, Kept, Sorted, Turns, Known, Unlinkable,
         StoreSteps, TakingSteps, LockedSteps, Steps
<1>8. Tidy' => OwnUndone'
  BY <1>1, <1>2, EndedFact, MovedFact, NoFileAssumption
     DEF PutBack, At, Untouched, Relinked, Survival, Safety, OneStorer, Roles,
         Staged, Own, OwnUndone, Kept, Sorted, Turns, Known, Unlinkable,
         StoreSteps, TakingSteps, LockedSteps, Steps
<1>9. Tidy' => Kept'
  BY <1>1, <1>2, EndedFact, MovedFact, NoFileAssumption, IntactAssumption
     DEF PutBack, At, Untouched, Relinked, Survival, Safety, OneStorer, Roles,
         Staged, Lone, Returning, Own, OwnUndone, Kept, Sorted, Turns, Known,
         Unlinkable, VerifiedSteps, StoreSteps, TakingSteps, LockedSteps, Steps
<1>10. Tidy' => Loose'
  BY <1>1, <1>2, EndedFact, MovedFact, NoFileAssumption, IntactAssumption
     DEF PutBack, At, Untouched, Relinked, Survival, Safety, Own, OwnUndone,
         Loose, Away, Handling, Known, Unlinkable, VerifiedSteps, Steps
<1>11. Tidy' => Spared'
  BY <1>1, <1>2, EndedFact, MovedFact, NoFileAssumption, IntactAssumption
     DEF PutBack, At, Untouched, Relinked, Survival, Safety, Staged, Lone, Own,
         OwnUndone, Kept, Sorted, Loose, Away, Handling, Spared, Doomed,
         HasName, Known, Unlinkable, VerifiedSteps, TakingSteps, Steps
<1>. QED
  BY <1>3, <1>4, <1>5, <1>6, <1>7, <1>8, <1>9, <1>10, <1>11
     DEF Survival

LEMMA CrashSurvival ==
    ASSUME OneStorer, Survival, Safety', Tidy' => Tidy,
           NEW s \in Storages, Crash(s)
    PROVE  Survival'
<1>1. CallT /\ Safety
  BY DEF Survival, Safety, TypeOK, CallT, Call
<1>2. /\ CallT'
      /\ \A t \in Storages : t # s => call'[t] = call[t]
  BY <1>1, EndedFact, MovedFact, SMT DEF Crash, Steps, CallT, Call
<1>3. Roles'
  BY <1>1, <1>2, EndedFact, MovedFact
     DEF Crash, At, RolledBack, Untouched, FilesUntouched, Survival, Roles,
         StoreSteps, Steps
<1>4. Staged'
  BY <1>1, <1>2, EndedFact, MovedFact, NoStorageAssumption
     DEF Crash, At, RolledBack, Untouched, FilesUntouched, Survival, Safety,
         Turns, LockedSteps, TypeOK, Rows, Staged, TakingSteps, Steps
<1>5. Lone'
  BY <1>1, <1>2, EndedFact, MovedFact, NoStorageAssumption
     DEF Crash, At, RolledBack, Untouched, FilesUntouched, Survival, Safety,
         Turns, LockedSteps, TypeOK, Rows, Staged, TakingSteps, Lone,
         Returning, Steps
<1>6. Tidy' => Clean'
  BY <1>1, <1>2, EndedFact, MovedFact
     DEF Crash, At, RolledBack, Untouched, FilesUntouched, Survival, Clean,
         Steps
<1>7. Tidy' => Own'
  BY <1>1, <1>2, EndedFact, MovedFact, NoFileAssumption
     DEF Crash, At, RolledBack, Untouched, FilesUntouched, Survival, Safety,
         OneStorer, Roles, Staged, Own, OwnUndone, Kept, Sorted, Turns, Known,
         Unlinkable, StoreSteps, TakingSteps, LockedSteps, Steps
<1>8. Tidy' => OwnUndone'
  BY <1>1, <1>2, EndedFact, MovedFact, NoFileAssumption
     DEF Crash, At, RolledBack, Untouched, FilesUntouched, Survival, Safety,
         OneStorer, Roles, Staged, Own, OwnUndone, Kept, Sorted, Turns, Known,
         Unlinkable, StoreSteps, TakingSteps, LockedSteps, Steps
<1>9. Tidy' => Kept'
  <2>. SUFFICES ASSUME Tidy'
                PROVE  Kept'
    OBVIOUS
  <2>1. Kept
    BY DEF Survival
  <2>2. /\ call'[s].at = "idle" /\ call'[s].linked = NoFile
        /\ UNCHANGED <<leaf, aside>>
    BY <1>1, EndedFact DEF Crash, FilesUntouched
  <2>3. call[s].at # "sort"
    BY <1>2, <2>2, GivenUp DEF Handling, Away
  <2>. QED
    BY <1>2, <2>1, <2>2, <2>3 DEF Kept, Sorted
<1>10. Tidy' => Loose'
  BY <1>1, <1>2, EndedFact, MovedFact, NoFileAssumption, IntactAssumption
     DEF Crash, At, RolledBack, Untouched, FilesUntouched, Survival, Safety,
         Own, OwnUndone, Loose, Away, Handling, Known, Unlinkable,
         VerifiedSteps, Steps
<1>11. Tidy' => Spared'
  BY <1>1, <1>2, EndedFact, MovedFact, NoFileAssumption, IntactAssumption
     DEF Crash, At, RolledBack, Untouched, FilesUntouched, Survival, Safety,
         Staged, Lone, Own, OwnUndone, Kept, Sorted, Loose, Away, Handling,
         Spared, Doomed, HasName, Known, Unlinkable, VerifiedSteps,
         TakingSteps, Steps
<1>. QED
  BY <1>3, <1>4, <1>5, <1>6, <1>7, <1>8, <1>9, <1>10, <1>11
     DEF Survival

LEMMA ReferenceSurvival ==
    ASSUME Survival, Safety', Tidy' => Tidy, AddReference \/ DropReference
    PROVE  Survival'
<1>1. /\ db'.row = db.row /\ db'.versions = db.versions
      /\ db.versions => db'.refs
      /\ txn' = db'
      /\ writer = NoStorage
      /\ UNCHANGED <<leaf, aside, made, call, marks>>
  BY DEF AddReference, DropReference, Free, CommittedAlone, FilesUntouched,
         Survival, Safety, TypeOK, Rows
<1>2. Roles' /\ Staged' /\ Lone'
  BY <1>1, NoStorageAssumption
     DEF Survival, Safety, Roles, Staged, Turns, LockedSteps, TakingSteps,
         Lone, Returning
<1>3. Tidy' => Clean' /\ Own' /\ OwnUndone' /\ Kept' /\ Loose'
  BY <1>1 DEF Survival, Clean, Own, OwnUndone, Kept, Sorted, Loose
<1>4. Tidy' => Spared'
  BY <1>1 DEF Survival, Spared, Doomed, HasName
<1>. QED
  BY <1>2, <1>3, <1>4 DEF Survival

LEMMA TamperSurvival ==
    ASSUME Survival, Safety', Tamper
    PROVE  Survival'
<1>1. "tampered" \in marks' /\ UNCHANGED <<db, txn, call>>
  BY DEF Tamper, Untouched
<1>2. ~Tidy'
  BY <1>1 DEF Tidy
<1>. QED
  BY <1>1, <1>2 DEF Survival, Roles, Staged, Lone

LEMMA InitSurvival == Init => Survival
<1>. SUFFICES ASSUME Init PROVE Survival
  OBVIOUS
<1>1. \A s \in Storages : call[s] = Resting(0)
  BY DEF Init
<1>2. txn = db /\ ~db.versions
  BY DEF Init
<1>3. Roles /\ Staged /\ Lone /\ Clean /\ Own /\ OwnUndone /\ Kept /\ Loose
  BY <1>1, <1>2
     DEF Roles, Staged, Lone, Clean, Own, OwnUndone, Kept, Loose, Resting,
         StoreSteps, TakingSteps, Returning, Away, Handling
<1>4. Spared
  BY <1>1, NoFileAssumption, IntactAssumption
     DEF Init, Spared, Doomed, HasName, Resting
<1>. QED
  BY <1>3, <1>4, InitSafety DEF Survival

LEMMA NextSurvival ==
    ASSUME OneStorer
    PROVE  Survival /\ [Next]_vars => Survival'
<1>. SUFFICES ASSUME Survival, [Next]_vars PROVE Survival'
  OBVIOUS
<1>0. Safety' /\ (Tidy' => Tidy)
  BY NextSafety, LitterStays DEF Survival
<1>1. CASE \E s \in Storages :
              Store(s) \/ Prune(s) \/ Compensate(s) \/ Reconcile(s) \/ Crash(s)
  <2>1. PICK s \in Storages :
            Store(s) \/ Prune(s) \/ Compensate(s) \/ Reconcile(s) \/ Crash(s)
    BY <1>1
  <2>2. CASE Store(s)
    BY <1>0, <2>2, StoreBeginSurvival, ReuseSurvival, LinkSurvival,
       LinkFailsSurvival, UndoSurvival, UnlinkSurvival, StoreCommitSurvival,
       StoreFailsSurvival, UnpublishSurvival, SortSurvival DEF Store
  <2>3. CASE Prune(s)
    BY <1>0, <2>3, PruneBeginSurvival, MoveAsideSurvival, MoveRefusedSurvival,
       MoveFailsSurvival, InspectSurvival, VerifySurvival,
       PruneCommitSurvival, DeleteSurvival DEF Prune
  <2>4. CASE Compensate(s)
    BY <1>0, <2>4, RestoreSurvival, PinSurvival, ReinsertSurvival,
       RecommitSurvival, ReproveSurvival, UnmarkSurvival, AuditSurvival,
       RetireSurvival DEF Compensate
  <2>5. CASE Reconcile(s)
    BY <1>0, <2>5, AbandonSurvival, RereadSurvival, RepublishingSurvival,
       SettleSurvival, DiscardSurvival, PutBackSurvival DEF Reconcile
  <2>. QED
    BY <1>0, <2>1, <2>2, <2>3, <2>4, <2>5, CrashSurvival
<1>2. CASE AddReference \/ DropReference
  BY <1>0, <1>2, ReferenceSurvival
<1>3. CASE Tamper
  BY <1>0, <1>3, TamperSurvival
<1>4. CASE UNCHANGED vars
  BY <1>0, <1>4 DEF vars, Survival, Roles, Staged, Lone, Clean, Own, OwnUndone,
                    Kept, Sorted, Loose, Spared, Doomed, HasName
<1>. QED
  BY <1>1, <1>2, <1>3, <1>4 DEF Next

-----------------------------------------------------------------------------
(* A committed row names its bytes when nobody is on the way to see to it: *)
(* for one Storage that stores and one that prunes, until one dies, reports *)
(* or leaves a file in a rollback's quarantine.                            *)

OnePruner == \A s, t \in Pruners : s = t

Unmarked == marks = {}

\* Steps that still answer for a committed row whose file is not at its name.
Mending == {"inspect", "verify", "commit", "abandon", "reread", "republish",
            "reundo", "reunlink", "retire", "settle", "putback"}

Mends(s) ==
    \/ call[s].at \in Mending
    \/ call[s].at = "sort" /\ call[s].held # call[s].linked

Named ==
    db.row /\ Unmarked /\ leaf \notin Intact => \E s \in Storages : Mends(s)

\* A prune comes here over a row that is committed, and stays so until it acts.
Reverting == {"republish", "reundo", "reunlink", "putback", "retire"}

Reverts(s) == call[s].at \in Reverting => db.row

\* What a storer linked is its own, and no row names it before its commit.
Owns(s) ==
    /\ call[s].linked # NoFile =>
          \A t \in Storages \ {s} : call[t].held # call[s].linked
    /\ call[s].at \in {"unpublish", "sort"} => call[s].linked # NoFile
    /\ call[s].at = "sort" => call[s].held # NoFile /\ leaf # call[s].linked
    /\ call[s].at \in {"undo", "unlink"} =>
          /\ ~db.row
          /\ leaf = call[s].pinned
          /\ leaf # NoFile
          /\ \A t \in Storages \ {s} : call[t].held # leaf
    /\ call[s].linked # NoFile /\ call[s].at \in {"record", "undone"} => ~db.row
    /\ call[s].at = "unpublish" /\ leaf = call[s].linked => ~db.row

\* The name has the bytes a store is about to commit a row over, unless a prune
\* is about to report them; and those a compensation has put back, unless a
\* rollback is just looking at them.
Backs(s) ==
    /\ call[s].at = "record" =>
          leaf \in Intact \/ \E t \in Storages : call[t].at = "retire"
    /\ call[s].at \in {"pin", "reinsert", "recommit"} =>
          leaf = call[s].held \/ Sorted(call[s].held)

Paired ==
    Unmarked => \A s \in Storages : Reverts(s) /\ Owns(s) /\ Backs(s)

\* A step that touches neither the file, the row nor a file of its own.
LEMMA QuietPaired ==
    ASSUME Paired, NEW s \in Storages,
           \A t \in Storages : t # s => call'[t] = call[t],
           Unmarked' => Unmarked,
           leaf' = leaf, db'.row = db.row,
           call'[s].held \in {call[s].held, NoFile},
           call[s].at \notin {"retire", "sort"},
           Reverts(s)', Owns(s)', Backs(s)'
    PROVE  Paired'
<1>. SUFFICES ASSUME Unmarked, NEW t \in Storages, t # s
              PROVE  Reverts(t)' /\ Owns(t)' /\ Backs(t)'
  BY DEF Paired
<1>1. Reverts(t) /\ Owns(t) /\ Backs(t) /\ call'[t] = call[t]
  BY DEF Paired
<1>2. Reverts(t)' /\ Owns(t)'
  BY <1>1 DEF Reverts, Owns
<1>3. Backs(t)'
  BY <1>1 DEF Backs, Sorted
<1>. QED
  BY <1>2, <1>3

LEMMA StorePaired ==
    ASSUME OneStorer, Survival, Paired, NEW s \in Storages, Store(s),
           Unmarked' => Unmarked
    PROVE  Paired'
<1>. SUFFICES ASSUME Unmarked'
              PROVE  \A t \in Storages : Reverts(t)' /\ Owns(t)' /\ Backs(t)'
  BY DEF Paired
<1>1. /\ CallT /\ NoFile \notin Intact /\ db \in Rows /\ NoFile \notin made
      /\ \A t \in Storages :
            /\ Reverts(t) /\ Owns(t) /\ Backs(t)
            /\ call[t].held \in made \union {NoFile}
            /\ call[t].at \in {"pin", "reinsert", "recommit"} =>
                  call[t].held # NoFile
  BY NoFileAssumption, IntactAssumption
     DEF Survival, Safety, TypeOK, CallT, Call, Paired, Known, Unlinkable,
         VerifiedSteps
<1>2. s \in Storers
  BY DEF Store, StoreBegin, Reuse, Link, LinkFails, Undo, Unlink, StoreCommit,
         StoreFails, Unpublish, Sort, At, Survival, Roles, StoreSteps
<1>3. \A t \in Storages \ {s} :
          call[t].at \notin StoreSteps /\ call[t].linked = NoFile
  BY <1>2 DEF OneStorer, Survival, Safety, Unlinkable, Roles, StoreSteps
\* The prune's part is kept.
<1>4. ASSUME \A t \in Storages : t # s => call'[t] = call[t],
             call'[s].at \in StoreSteps \union {"idle"},
             db.row => db'.row,
             \A t \in Storages \ {s} :
                call[t].at \in {"pin", "reinsert", "recommit"} =>
                   \/ leaf' = call[t].held
                   \/ \E u \in Storages : /\ call'[u].at = "sort"
                                          /\ call'[u].held = call[t].held,
             Owns(s)',
             call'[s].at = "record" =>
                \/ leaf' \in Intact
                \/ \E t \in Storages \ {s} : call[t].at = "retire"
      PROVE  \A t \in Storages : Reverts(t)' /\ Owns(t)' /\ Backs(t)'
  <2>1. Reverts(s)' /\ Owns(s)' /\ Backs(s)'
    BY <1>4 DEF Reverts, Backs, StoreSteps, Reverting
  <2>2. ASSUME NEW t \in Storages \ {s}
        PROVE  Reverts(t)' /\ Owns(t)' /\ Backs(t)'
    <3>1. Reverts(t)' /\ Owns(t)'
      BY <1>1, <1>3, <1>4 DEF Reverts, Owns, StoreSteps
    <3>2. Backs(t)'
      BY <1>1, <1>3, <1>4 DEF Backs, Sorted, StoreSteps
    <3>. QED
      BY <3>1, <3>2
  <2>. QED
    BY <2>1, <2>2
\* Where the name keeps its file, so does what a compensation put back.
<1>5. ASSUME leaf' = leaf, call[s].at # "sort",
             \A t \in Storages : t # s => call'[t] = call[t]
      PROVE  \A t \in Storages \ {s} :
                call[t].at \in {"pin", "reinsert", "recommit"} =>
                   \/ leaf' = call[t].held
                   \/ \E u \in Storages : /\ call'[u].at = "sort"
                                          /\ call'[u].held = call[t].held
  BY <1>1, <1>5 DEF Backs, Sorted
\* A free name means that a rollback has what was put back.
<1>6. ASSUME leaf = NoFile, call[s].at # "sort",
             NEW t \in Storages \ {s},
             call[t].at \in {"pin", "reinsert", "recommit"}
      PROVE  FALSE
  <2>1. PICK u \in Storages : call[u].at = "sort" /\ call[u].held = call[t].held
    BY <1>1, <1>6 DEF Backs, Sorted
  <2>. QED
    BY <1>3, <1>6, <2>1 DEF StoreSteps
<1>7. CASE StoreBegin(s)
  <2>1. /\ \A t \in Storages : t # s => call'[t] = call[t]
        /\ call[s].at = "idle" /\ call'[s].at = "publish"
        /\ call'[s].linked = NoFile
        /\ UNCHANGED <<db, leaf>>
    BY <1>1, <1>7
       DEF StoreBegin, At, FilesUntouched, CallT, Call, Survival, Safety,
           Unlinkable
  <2>2. Owns(s)'
    BY <2>1 DEF Owns
  <2>. QED
    BY <1>4, <1>5, <2>1, <2>2 DEF StoreSteps
<1>8. CASE Reuse(s)
  <2>1. /\ \A t \in Storages : t # s => call'[t] = call[t]
        /\ call[s].at = "publish" /\ call'[s].at = "record"
        /\ call'[s].linked = NoFile
        /\ UNCHANGED <<db, leaf>> /\ leaf \in Intact
    BY <1>1, <1>8, MovedFact
       DEF Reuse, At, FilesUntouched, Steps, Survival, Safety, Unlinkable
  <2>2. Owns(s)'
    BY <2>1 DEF Owns
  <2>. QED
    BY <1>4, <1>5, <2>1, <2>2 DEF StoreSteps
<1>9. CASE Link(s)
  <2>1. PICK f \in Intact \ made :
           /\ leaf' = f
           /\ call' = [call EXCEPT ![s].at = "record", ![s].linked = f]
    BY <1>9 DEF Link
  <2>2. /\ \A t \in Storages : t # s => call'[t] = call[t]
        /\ call'[s].at = "record" /\ call'[s].linked = f
        /\ call[s].at = "publish" /\ leaf = NoFile
        /\ ~db.row /\ db' = db
    BY <1>1, <1>9, <2>1
       DEF Link, At, Untouched, CallT, Call, Survival, Staged
  <2>3. Owns(s)'
    BY <1>1, <2>1, <2>2 DEF Owns
  <2>. QED
    BY <1>4, <1>6, <2>1, <2>2, <2>3 DEF StoreSteps
<1>10. CASE LinkFails(s)
  <2>1. PICK f \in Intact \ made :
           /\ leaf' = f
           /\ \E j \in {f, NoFile} :
                call' = [call EXCEPT ![s].at = "undo", ![s].pinned = f,
                                     ![s].linked = j]
    BY <1>10 DEF LinkFails
  <2>2. /\ \A t \in Storages : t # s => call'[t] = call[t]
        /\ call'[s].at = "undo" /\ call'[s].pinned = f
        /\ call'[s].linked \in {f, NoFile}
    BY <1>1, <2>1 DEF CallT, Call
  <2>3. call[s].at = "publish" /\ leaf = NoFile /\ ~db.row /\ db' = db
    BY <1>10 DEF LinkFails, At, Untouched, Survival, Staged
  <2>4. f # NoFile /\ \A t \in Storages \ {s} : call'[t].held # f
    BY <1>1, <2>2
  <2>5. Owns(s)'
    BY <2>1, <2>2, <2>3, <2>4 DEF Owns
  <2>. QED
    BY <1>4, <1>6, <2>1, <2>2, <2>3, <2>5 DEF StoreSteps
<1>11. CASE Undo(s)
  <2>1. /\ \A t \in Storages : t # s => call'[t] = call[t]
        /\ call[s].at = "undo" /\ call'[s].at \in {"unlink", "undone"}
        /\ call'[s].linked = call[s].linked
        /\ call'[s].pinned = call[s].pinned
        /\ UNCHANGED <<db, leaf>>
    BY <1>1, <1>11, MovedFact
       DEF Undo, Checks, At, Untouched, FilesUntouched, Steps
  <2>2. Owns(s)'
    BY <1>1, <2>1 DEF Owns
  <2>. QED
    BY <1>4, <1>5, <2>1, <2>2 DEF StoreSteps
<1>12. CASE Unlink(s)
  <2>1. /\ \A t \in Storages : t # s => call'[t] = call[t]
        /\ call[s].at = "unlink" /\ call'[s].at = "undone"
        /\ call'[s].linked = call[s].linked
        /\ db' = db /\ leaf' \in {leaf, NoFile}
    BY <1>1, <1>12, MovedFact DEF Unlink, Unlinks, At, Untouched, Steps
  <2>2. Owns(s)'
    BY <1>1, <2>1 DEF Owns
  <2>3. ASSUME NEW t \in Storages \ {s},
               call[t].at \in {"pin", "reinsert", "recommit"}
        PROVE  FALSE
    <3>1. leaf # call[t].held
      BY <1>1, <2>1 DEF Owns
    <3>2. PICK u \in Storages : call[u].at = "sort"
      BY <1>1, <2>3, <3>1 DEF Backs, Sorted
    <3>. QED
      BY <1>3, <2>1, <3>2 DEF StoreSteps
  <2>. QED
    BY <1>4, <2>1, <2>2, <2>3 DEF StoreSteps
<1>13. CASE StoreCommit(s)
  <2>1. /\ \A t \in Storages : t # s => call'[t] = call[t]
        /\ call[s].at = "record" /\ call'[s].at \in {"idle", "unpublish"}
        /\ call'[s].at = "unpublish" =>
              /\ call'[s].linked = call[s].linked /\ call[s].linked # NoFile
              /\ db' = db
        /\ call'[s].at = "idle" => call'[s].linked = NoFile
        /\ leaf' = leaf
    BY <1>1, <1>13, EndedFact, MovedFact
       DEF StoreCommit, Unwind, At, FilesUntouched, Steps
  <2>2. db.row => db'.row
    BY <1>13 DEF StoreCommit
  <2>3. Owns(s)'
    BY <1>1, <2>1 DEF Owns
  <2>. QED
    BY <1>4, <1>5, <2>1, <2>2, <2>3 DEF StoreSteps
<1>14. CASE StoreFails(s)
  <2>1. /\ \A t \in Storages : t # s => call'[t] = call[t]
        /\ call[s].at \in {"publish", "undone", "record"}
        /\ call'[s].at \in {"idle", "unpublish"}
        /\ call'[s].at = "unpublish" =>
              call'[s].linked = call[s].linked /\ call[s].linked # NoFile
        /\ call'[s].at = "idle" => call'[s].linked = NoFile
        /\ UNCHANGED <<db, leaf>>
    BY <1>1, <1>14, EndedFact, MovedFact
       DEF StoreFails, Unwind, At, RolledBack, FilesUntouched, Steps
  <2>2. Owns(s)'
    BY <1>1, <2>1 DEF Owns, Survival, Safety, Unlinkable
  <2>. QED
    BY <1>4, <1>5, <2>1, <2>2 DEF StoreSteps
<1>15. CASE Unpublish(s)
  <2>1. /\ \A t \in Storages : t # s => call'[t] = call[t]
        /\ call[s].at = "unpublish" /\ db' = db
        /\ \/ /\ leaf' = leaf /\ call'[s].at = "idle"
              /\ call'[s].linked = NoFile
           \/ /\ leaf # NoFile /\ leaf' = NoFile
              /\ call'[s].at = "sort" /\ call'[s].held = leaf
              /\ call'[s].linked = call[s].linked
    BY <1>1, <1>15, EndedFact DEF Unpublish, At, Untouched, CallT, Call
  <2>2. Owns(s)'
    BY <1>1, <2>1 DEF Owns
  <2>3. CASE leaf' = leaf
    BY <1>4, <1>5, <2>1, <2>2, <2>3 DEF StoreSteps
  <2>4. CASE leaf' = NoFile /\ call'[s].at = "sort" /\ call'[s].held = leaf
    <3>1. ASSUME NEW t \in Storages \ {s},
                 call[t].at \in {"pin", "reinsert", "recommit"}
          PROVE  call'[s].at = "sort" /\ call'[s].held = call[t].held
      BY <1>1, <1>3, <2>1, <2>4, <3>1 DEF Backs, Sorted, StoreSteps
    <3>. QED
      BY <1>4, <2>1, <2>2, <2>4, <3>1 DEF StoreSteps
  <2>. QED
    BY <2>1, <2>3, <2>4
<1>16. CASE Sort(s)
  <2>1. /\ \A t \in Storages : t # s => call'[t] = call[t]
        /\ call[s].at = "sort" /\ call'[s].at = "idle"
        /\ call'[s].linked = NoFile /\ db' = db
    BY <1>1, <1>16, EndedFact DEF Sort, At, Untouched
  <2>2. \/ call[s].held = call[s].linked /\ leaf' = leaf
        \/ leaf = NoFile /\ leaf' = call[s].held
    BY <1>16 DEF Sort, Relinked, Unmarked
  <2>3. Owns(s)'
    BY <2>1 DEF Owns
  <2>4. ASSUME NEW t \in Storages \ {s},
               call[t].at \in {"pin", "reinsert", "recommit"}
        PROVE  leaf' = call[t].held
    <3>1. leaf = call[t].held \/ call[s].held = call[t].held
      BY <1>1, <1>3, <2>4 DEF Backs, Sorted, StoreSteps
    <3>2. call[t].held # call[s].linked /\ call[t].held # NoFile
      BY <1>1, <2>1, <2>4 DEF Owns
    <3>. QED
      BY <2>2, <3>1, <3>2
  <2>. QED
    BY <1>4, <2>1, <2>3, <2>4 DEF StoreSteps
<1>. QED
  BY <1>7, <1>8, <1>9, <1>10, <1>11, <1>12, <1>13, <1>14, <1>15, <1>16 DEF Store

\* A step of the prune, with a store beside it.
LEMMA PrunerPaired ==
    ASSUME OneStorer, OnePruner, Survival, Paired,
           NEW s \in Storages, s \in Pruners,
           Unmarked' => Unmarked,
           \A t \in Storages : t # s => call'[t] = call[t],
           call[s].at \notin StoreSteps, call'[s].at \notin StoreSteps,
           call'[s].linked = NoFile,
           \/ call'[s].held \in {call[s].held, NoFile}
           \/ call'[s].held = leaf /\ db.row /\ writer = NoStorage,
           leaf' \in {leaf, call[s].held, NoFile} \/ leaf' \notin made,
           \/ leaf' = leaf
           \/ leaf = NoFile
           \/ writer = s
           \/ db.row /\ call'[s].at = "retire",
           db'.row => db.row \/ call[s].at = "recommit",
           db'.row # db.row => writer \in {s, NoStorage},
           call[s].at = "retire" => writer = NoStorage \/ ~Unmarked',
           Unmarked' => Reverts(s)' /\ Backs(s)'
    PROVE  Paired'
<1>. SUFFICES ASSUME Unmarked'
              PROVE  \A t \in Storages : Reverts(t)' /\ Owns(t)' /\ Backs(t)'
  BY DEF Paired
<1>1. Owns(s)'
  BY DEF Owns, StoreSteps
<1>2. ASSUME NEW t \in Storages, t # s
      PROVE  Reverts(t)' /\ Owns(t)' /\ Backs(t)'
  <2>1. /\ Owns(t) /\ Backs(t) /\ Reverts(s) /\ Backs(s)
        /\ call'[t] = call[t]
    BY <1>2 DEF Paired
  <2>2. call[t].at \in StoreSteps \union {"idle"}
    BY <1>2 DEF OnePruner, Survival, Roles
  <2>3. /\ call[t].linked \in made \union {NoFile}
        /\ call[t].at \in {"undo", "unlink", "undone", "record"} => writer = t
        /\ NoStorage # t
        /\ NoFile \notin made
    BY NoFileAssumption, NoStorageAssumption
       DEF Survival, Safety, TypeOK, Known, Turns, LockedSteps
  <2>4. \A u \in Storages \ {t} :
           call'[u].held \in {call[u].held, NoFile} \/
           (call'[u].held = leaf /\ db.row /\ writer = NoStorage)
    OBVIOUS
  <2>5. call[t].linked # NoFile =>
            \A u \in Storages \ {t} : call'[u].held # call[t].linked
    <3>1. SUFFICES ASSUME call[t].linked # NoFile,
                          call[s].held # call[t].linked,
                          call'[s].held = call[t].linked
                   PROVE  FALSE
      BY <1>2, <2>1 DEF Owns
    <3>2. leaf = call[t].linked /\ db.row /\ writer = NoStorage
      BY <3>1
    <3>3. call[t].at \in {"unpublish", "sort"}
      BY <2>3, <3>1, <3>2 DEF Survival, Safety, Unlinkable
    <3>. QED
      BY <2>1, <3>2, <3>3 DEF Owns
  <2>6. call[t].linked # NoFile => leaf' # call[t].linked \/ leaf' = leaf
    BY <1>2, <2>1, <2>3 DEF Owns
  <2>7. call[t].at \in {"undo", "unlink"} => leaf' = leaf
    BY <1>2, <2>1, <2>3 DEF Owns
  <2>8. call[t].at \in {"undo", "unlink", "undone", "record"} =>
            db'.row = db.row
    BY <1>2, <2>3
  <2>9. call[t].at = "unpublish" /\ leaf' = call[t].linked => ~db'.row
    <3>1. SUFFICES ASSUME call[t].at = "unpublish", leaf' = call[t].linked,
                          db'.row
                   PROVE  FALSE
      OBVIOUS
    <3>2. call[t].linked # NoFile /\ leaf = call[t].linked /\ ~db.row
      BY <2>1, <2>6, <3>1 DEF Owns
    <3>3. leaf # call[s].held /\ call[s].at = "recommit"
      BY <1>2, <2>1, <3>1, <3>2 DEF Owns
    <3>4. PICK u \in Storages : call[u].at = "sort"
      BY <2>1, <3>3 DEF Backs, Sorted
    <3>. QED
      BY <3>1, <3>4 DEF OneStorer, Survival, Roles, StoreSteps
  <2>10. Owns(t)'
    <3>1. call'[t].at = "sort" =>
              call'[t].held # NoFile /\ leaf' # call'[t].linked
      BY <2>1, <2>6 DEF Owns
    <3>2. call'[t].at \in {"undo", "unlink"} =>
              /\ ~db'.row
              /\ leaf' = call'[t].pinned
              /\ leaf' # NoFile
              /\ \A u \in Storages \ {t} : call'[u].held # leaf'
      <4>1. SUFFICES ASSUME call[t].at \in {"undo", "unlink"}
                     PROVE  /\ ~db'.row
                            /\ leaf' = call[t].pinned
                            /\ leaf' # NoFile
                            /\ \A u \in Storages \ {t} : call'[u].held # leaf'
        BY <2>1
      <4>2. /\ ~db'.row /\ leaf' = call[t].pinned /\ leaf' # NoFile
        BY <2>1, <2>7, <2>8, <4>1 DEF Owns
      <4>3. \A u \in Storages \ {t} : call'[u].held # leaf
        BY <2>1, <2>3, <2>4, <4>1 DEF Owns
      <4>. QED
        BY <2>7, <4>1, <4>2, <4>3
    <3>3. /\ call'[t].at \in {"unpublish", "sort"} => call'[t].linked # NoFile
          /\ (call'[t].linked # NoFile /\ call'[t].at \in {"record", "undone"}
                => ~db'.row)
      BY <2>1, <2>8 DEF Owns
    <3>. QED
      BY <2>1, <2>5, <2>9, <3>1, <3>2, <3>3 DEF Owns
  <2>11. Backs(t)'
    <3>1. call[t].at = "record" =>
              leaf' \in Intact \/ \E u \in Storages : call'[u].at = "retire"
      <4>1. SUFFICES ASSUME call[t].at = "record"
                     PROVE  leaf' \in Intact \/ call'[s].at = "retire"
        OBVIOUS
      <4>2. leaf \in Intact \/ call[s].at = "retire"
        BY <2>1, <2>2, <4>1, <1>2 DEF Backs, OnePruner, Survival, Roles,
                                      StoreSteps
      <4>3. call[s].at # "retire"
        BY <1>2, <2>3, <4>1
      <4>4. NoFile \notin Intact
        BY NoFileAssumption, IntactAssumption
      <4>. QED
        BY <1>2, <2>3, <4>1, <4>2, <4>3, <4>4
    <3>. QED
      BY <2>1, <2>2, <3>1 DEF Backs, StoreSteps
  <2>12. Reverts(t)'
    BY <2>1, <2>2 DEF Reverts, Reverting, StoreSteps
  <2>. QED
    BY <2>10, <2>11, <2>12
<1>. QED
  BY <1>1, <1>2

\* A compensation goes on over the file it put back.
LEMMA BacksKept ==
    ASSUME Paired, NEW s \in Storages,
           Unmarked' => Unmarked,
           \A t \in Storages : t # s => call'[t] = call[t],
           call[s].at \in {"pin", "reinsert", "recommit"},
           call'[s].at # "record",
           leaf' = leaf, call'[s].held = call[s].held
    PROVE  Unmarked' => Backs(s)'
<1>. SUFFICES ASSUME Unmarked
              PROVE  Backs(s)'
  OBVIOUS
<1>1. leaf = call[s].held \/ Sorted(call[s].held)
  BY DEF Paired, Backs
<1>2. Sorted(call[s].held) =>
          \E t \in Storages : /\ call'[t].at = "sort"
                              /\ call'[t].held = call[s].held
  BY DEF Sorted
<1>. QED
  BY <1>1, <1>2 DEF Backs, Sorted

LEMMA PrunePaired ==
    ASSUME OneStorer, OnePruner, Survival, Paired, NEW s \in Storages,
           Prune(s), Unmarked' => Unmarked
    PROVE  Paired'
<1>1. CallT /\ (call[s].at \notin StoreSteps => call[s].linked = NoFile)
  BY DEF Survival, Safety, TypeOK, CallT, Call, Unlinkable, StoreSteps
<1>2. s \in Pruners /\ call[s].at \notin StoreSteps
  BY DEF Prune, PruneBegin, MoveAside, MoveRefused, MoveFails, Inspect,
         Verify, PruneCommit, Delete, At, Survival, Roles, StoreSteps
<1>. DEFINE Others == \A t \in Storages : t # s => call'[t] = call[t]
<1>3. CASE PruneBegin(s)
  <2>1. /\ Others
        /\ call'[s].at = "move" /\ call'[s].linked = NoFile
        /\ call'[s].held = leaf
    BY <1>1, <1>2, <1>3 DEF PruneBegin, CallT, Call
  <2>2. /\ call[s].at = "idle" /\ db.row /\ writer = NoStorage
        /\ UNCHANGED <<db, leaf>>
    BY <1>3 DEF PruneBegin, At, Began, Free, FilesUntouched
  <2>. QED
    BY <1>2, <2>1, <2>2, PrunerPaired DEF StoreSteps, Reverts, Reverting, Backs
<1>4. CASE MoveAside(s) \/ MoveFails(s)
  <2>1. /\ Others
        /\ call'[s].at \in {"verify", "inspect"} /\ call'[s].linked = NoFile
        /\ call'[s].held \in {call[s].held, NoFile}
    BY <1>1, <1>2, <1>4, MovedFact DEF MoveAside, MoveFails, Steps, CallT, Call
  <2>2. /\ call[s].at = "move" /\ writer = s
        /\ leaf' \in {leaf, NoFile} /\ db' = db
    BY <1>4
       DEF MoveAside, MoveFails, At, Untouched, Survival, Safety, Turns,
           LockedSteps
  <2>. QED
    BY <1>2, <2>1, <2>2, PrunerPaired DEF StoreSteps, Reverts, Reverting, Backs
<1>5. CASE MoveRefused(s) \/ Inspect(s) \/ Verify(s)
  <2>1. /\ Others
        /\ call'[s].at \in {"idle", "abandon", "commit"}
        /\ call'[s].linked = NoFile
        /\ call'[s].held \in {call[s].held, NoFile}
    BY <1>1, <1>2, <1>5, EndedFact, MovedFact
       DEF MoveRefused, Inspect, Verify, Steps
  <2>2. /\ call[s].at \in {"move", "inspect", "verify"}
        /\ UNCHANGED <<db, leaf>>
    BY <1>5
       DEF MoveRefused, Inspect, Verify, At, RolledBack, FilesUntouched
  <2>. QED
    BY <1>2, <2>1, <2>2, PrunerPaired DEF StoreSteps, Reverts, Reverting, Backs
<1>6. CASE PruneCommit(s)
  <2>1. /\ Others
        /\ call'[s].at \in {"delete", "settle"} /\ call'[s].linked = NoFile
        /\ call'[s].held = call[s].held
    BY <1>1, <1>2, <1>6, MovedFact DEF PruneCommit, Commits, Steps
  <2>2. call[s].at = "commit" /\ writer = s /\ db.row /\ leaf' = leaf
    BY <1>6
       DEF PruneCommit, At, FilesUntouched, Survival, Staged, Safety, Turns,
           LockedSteps, TakingSteps
  <2>. QED
    BY <1>2, <2>1, <2>2, PrunerPaired DEF StoreSteps, Reverts, Reverting, Backs
<1>7. CASE Delete(s)
  <2>1. /\ Others
        /\ call'[s].at \in {"idle", "restore"} /\ call'[s].linked = NoFile
        /\ call'[s].held \in {call[s].held, NoFile}
    BY <1>1, <1>2, <1>7, EndedFact, MovedFact DEF Delete, Steps
  <2>2. call[s].at = "delete" /\ UNCHANGED <<db, leaf>>
    BY <1>7 DEF Delete, At, Untouched
  <2>. QED
    BY <1>2, <2>1, <2>2, PrunerPaired DEF StoreSteps, Reverts, Reverting, Backs
<1>. QED
  BY <1>3, <1>4, <1>5, <1>6, <1>7 DEF Prune

LEMMA CompensatePaired ==
    ASSUME OneStorer, OnePruner, Survival, Paired, NEW s \in Storages,
           Compensate(s), Unmarked' => Unmarked
    PROVE  Paired'
<1>1. CallT /\ (call[s].at \notin StoreSteps => call[s].linked = NoFile)
  BY DEF Survival, Safety, TypeOK, CallT, Call, Unlinkable, StoreSteps
<1>2. s \in Pruners /\ call[s].at \notin StoreSteps
  BY DEF Compensate, Restore, Pin, Reinsert, Recommit, Reprove, Unmark, Audit,
         Retire, At, Survival, Roles, StoreSteps
<1>. DEFINE Others == \A t \in Storages : t # s => call'[t] = call[t]
<1>3. CASE Restore(s)
  <2>1. /\ Others
        /\ \/ call'[s].at = "pin" /\ leaf' = call[s].held
           \/ call'[s].at = "idle"
        /\ call'[s].linked = NoFile
        /\ call'[s].held = call[s].held \/ call'[s].at = "idle"
        /\ call'[s].held \in {call[s].held, NoFile}
    BY <1>1, <1>2, <1>3, EndedFact, MovedFact DEF Restore, Relinked, Steps
  <2>2. /\ call[s].at = "restore" /\ db' = db
        /\ leaf' = leaf \/ (leaf = NoFile /\ leaf' = call[s].held)
    BY <1>3 DEF Restore, At, Untouched, Relinked
  <2>. QED
    BY <1>2, <2>1, <2>2, PrunerPaired DEF StoreSteps, Reverts, Reverting, Backs
<1>4. CASE Pin(s)
  <2>1. /\ Others
        /\ call'[s].at \in {"reinsert", "audit"}
        /\ call'[s].linked = NoFile /\ call'[s].held = call[s].held
    <3>1. CASE Moved(s, "audit")
      BY <1>1, <1>2, <3>1, MovedFact DEF Steps
    <3>2. CASE call' = [call EXCEPT ![s].at = "reinsert", ![s].pinned = leaf]
      BY <1>1, <1>2, <3>2 DEF CallT, Call
    <3>. QED
      BY <1>4, <3>1, <3>2 DEF Pin
  <2>2. call[s].at = "pin" /\ UNCHANGED <<db, leaf>>
    BY <1>4 DEF Pin, At, Untouched, FilesUntouched
  <2>3. Unmarked' => Backs(s)'
    BY <2>1, <2>2, BacksKept
  <2>. QED
    BY <1>2, <2>1, <2>2, <2>3, PrunerPaired DEF StoreSteps, Reverts, Reverting
<1>5. CASE Reinsert(s) \/ Reprove(s)
  <2>1. /\ Others
        /\ call'[s].at \in {"recommit", "audit", "unmark"}
        /\ call'[s].linked = NoFile /\ call'[s].held = call[s].held
        /\ call'[s].at = "recommit" => call[s].at = "reinsert"
    BY <1>1, <1>2, <1>5, MovedFact DEF Reinsert, Reprove, At, Steps
  <2>2. call[s].at \in {"reinsert", "reprove"} /\ UNCHANGED <<db, leaf>>
    BY <1>5 DEF Reinsert, Reprove, At, FilesUntouched
  <2>3. Unmarked' => Backs(s)'
    BY <2>1, <2>2, BacksKept DEF Backs
  <2>. QED
    BY <1>2, <2>1, <2>2, <2>3, PrunerPaired DEF StoreSteps, Reverts, Reverting
<1>6. CASE Recommit(s)
  <2>1. /\ Others
        /\ call'[s].at \in {"reprove", "audit"} /\ call'[s].linked = NoFile
        /\ call'[s].held = call[s].held
    BY <1>1, <1>2, <1>6, MovedFact DEF Recommit, Commits, Steps
  <2>2. call[s].at = "recommit" /\ writer = s /\ leaf' = leaf
    BY <1>6
       DEF Recommit, At, FilesUntouched, Survival, Safety, Turns, LockedSteps
  <2>. QED
    BY <1>2, <2>1, <2>2, PrunerPaired DEF StoreSteps, Reverts, Reverting, Backs
<1>7. CASE Unmark(s)
  <2>1. /\ Others
        /\ call'[s].at \in {"idle", "audit"} /\ call'[s].linked = NoFile
        /\ call'[s].held \in {call[s].held, NoFile}
    BY <1>1, <1>2, <1>7, EndedFact, MovedFact DEF Unmark, Steps
  <2>2. call[s].at = "unmark" /\ db'.row = db.row /\ leaf' = leaf
    BY <1>7
       DEF Unmark, At, Untouched, CommittedAlone, FilesUntouched, Survival,
           Safety, TypeOK, Rows
  <2>. QED
    BY <1>2, <2>1, <2>2, PrunerPaired DEF StoreSteps, Reverts, Reverting, Backs
<1>8. CASE Audit(s)
  <2>1. /\ Others
        /\ call'[s].at = "idle" \/ (call'[s].at = "retire" /\ db.row)
        /\ call'[s].linked = NoFile
        /\ call'[s].held \in {call[s].held, NoFile}
    BY <1>1, <1>2, <1>8, EndedFact, MovedFact DEF Audit, Steps
  <2>2. call[s].at = "audit" /\ UNCHANGED <<db, leaf>>
    BY <1>8 DEF Audit, At, Untouched, FilesUntouched
  <2>. QED
    BY <1>2, <2>1, <2>2, PrunerPaired DEF StoreSteps, Reverts, Reverting, Backs
<1>9. CASE Retire(s)
  <2>1. /\ Others
        /\ call'[s].at = "idle" /\ call'[s].linked = NoFile
        /\ call'[s].held = NoFile
    BY <1>1, <1>2, <1>9, EndedFact DEF Retire
  <2>2. /\ call[s].at = "retire" /\ leaf' = leaf
        /\ db'.row => db.row
        /\ db'.row # db.row => writer = NoStorage
    BY <1>9
       DEF Retire, At, CommittedAlone, Free, Untouched, FilesUntouched,
           Survival, Safety, TypeOK, Rows
  <2>3. writer = NoStorage \/ ~Unmarked'
    <3>1. Unmarked => db.row
      BY <2>2 DEF Paired, Reverts, Reverting
    <3>. QED
      BY <1>9, <3>1 DEF Retire, CommittedAlone, Free, Report, Unmarked
  <2>. QED
    BY <1>2, <2>1, <2>2, <2>3, PrunerPaired
       DEF StoreSteps, Reverts, Reverting, Backs
<1>. QED
  BY <1>3, <1>4, <1>5, <1>6, <1>7, <1>8, <1>9 DEF Compensate

LEMMA ReconcilePaired ==
    ASSUME OneStorer, OnePruner, Survival, Paired, NEW s \in Storages,
           Reconcile(s), Unmarked' => Unmarked
    PROVE  Paired'
<1>. SUFFICES ASSUME Unmarked
              PROVE  Paired'
  BY DEF Paired
<1>1. /\ CallT /\ (call[s].at \notin StoreSteps => call[s].linked = NoFile)
      /\ Reverts(s)
  BY DEF Survival, Safety, TypeOK, CallT, Call, Unlinkable, StoreSteps, Paired
<1>2. s \in Pruners /\ call[s].at \notin StoreSteps
  BY DEF Reconcile, Abandon, Reread, Republish, RepublishFails, Reundo,
         Reunlink, Settle, Discard, PutBack, At, Survival, Roles, StoreSteps
<1>. DEFINE Others == \A t \in Storages : t # s => call'[t] = call[t]
<1>3. CASE Abandon(s)
  <2>1. /\ Others
        /\ call'[s].at = "reread" /\ call'[s].linked = NoFile
        /\ call'[s].held = call[s].held
    BY <1>1, <1>2, <1>3, MovedFact DEF Abandon, Steps
  <2>2. call[s].at = "abandon" /\ writer = s /\ db.row /\ leaf' = leaf
    BY <1>3
       DEF Abandon, At, FilesUntouched, Survival, Staged, Safety, Turns,
           LockedSteps, TakingSteps
  <2>. QED
    BY <1>2, <2>1, <2>2, PrunerPaired DEF StoreSteps, Reverts, Reverting, Backs
<1>4. CASE Reread(s) \/ Settle(s) \/ Discard(s)
  <2>1. /\ Others
        /\ \/ call'[s].at \in {"idle", "discard"}
           \/ call'[s].at \in {"retire", "republish", "putback"} /\ db.row
        /\ call'[s].linked = NoFile
        /\ call'[s].held \in {call[s].held, NoFile}
    BY <1>1, <1>2, <1>4, EndedFact, MovedFact
       DEF Reread, Settle, Discard, Steps
  <2>2. /\ call[s].at \in {"reread", "settle", "discard"}
        /\ UNCHANGED <<db, leaf>>
    BY <1>4 DEF Reread, Settle, Discard, At, Untouched, FilesUntouched
  <2>. QED
    BY <1>2, <2>1, <2>2, PrunerPaired DEF StoreSteps, Reverts, Reverting, Backs
<1>5. CASE Republish(s)
  <2>1. /\ Others
        /\ call'[s].at \in {"idle", "retire"} /\ call'[s].linked = NoFile
        /\ call'[s].held \in {call[s].held, NoFile}
    BY <1>1, <1>2, <1>5, EndedFact, MovedFact DEF Republish, Steps
  <2>2. /\ call[s].at = "republish" /\ db' = db
        /\ leaf' = leaf \/ (leaf = NoFile /\ leaf' \notin made)
    BY <1>5 DEF Republish, At, Untouched
  <2>3. db.row
    BY <1>1, <2>2 DEF Reverts, Reverting
  <2>. QED
    BY <1>2, <2>1, <2>2, <2>3, PrunerPaired
       DEF StoreSteps, Reverts, Reverting, Backs
<1>6. CASE RepublishFails(s)
  <2>1. PICK f \in Intact \ made :
           /\ leaf' = f
           /\ call' = [call EXCEPT ![s].at = "reundo", ![s].pinned = f]
    BY <1>6 DEF RepublishFails
  <2>2. /\ Others
        /\ call'[s].at = "reundo" /\ call'[s].linked = NoFile
        /\ call'[s].held = call[s].held
    BY <1>1, <1>2, <2>1 DEF CallT, Call
  <2>3. call[s].at = "republish" /\ db' = db /\ leaf = NoFile
    BY <1>6 DEF RepublishFails, At, Untouched
  <2>4. db.row
    BY <1>1, <2>3 DEF Reverts, Reverting
  <2>. QED
    BY <1>2, <2>1, <2>2, <2>3, <2>4, PrunerPaired
       DEF StoreSteps, Reverts, Reverting, Backs
<1>7. CASE Reundo(s) \/ Reunlink(s)
  <2>1. /\ Others
        /\ call'[s].at \in {"reunlink", "retire"} /\ call'[s].linked = NoFile
        /\ call'[s].held = call[s].held
    BY <1>1, <1>2, <1>7, MovedFact
       DEF Reundo, Reunlink, Checks, Unlinks, Steps
  <2>2. /\ call[s].at \in {"reundo", "reunlink"} /\ db' = db
        /\ leaf' = leaf \/ (leaf' = NoFile /\ call'[s].at = "retire")
    BY <1>1, <1>7, MovedFact
       DEF Reundo, Reunlink, Unlinks, At, Untouched, FilesUntouched, Steps
  <2>3. db.row
    BY <1>1, <2>2 DEF Reverts, Reverting
  <2>. QED
    BY <1>2, <2>1, <2>2, <2>3, PrunerPaired
       DEF StoreSteps, Reverts, Reverting, Backs
<1>8. CASE PutBack(s)
  <2>1. /\ Others
        /\ call'[s].at \in {"idle", "retire"} /\ call'[s].linked = NoFile
        /\ call'[s].held \in {call[s].held, NoFile}
    BY <1>1, <1>2, <1>8, EndedFact, MovedFact DEF PutBack, Steps
  <2>2. /\ call[s].at = "putback" /\ db' = db
        /\ leaf' = leaf \/ (leaf = NoFile /\ leaf' = call[s].held)
    BY <1>8 DEF PutBack, At, Untouched, Relinked
  <2>3. db.row
    BY <1>1, <2>2 DEF Reverts, Reverting
  <2>. QED
    BY <1>2, <2>1, <2>2, <2>3, PrunerPaired
       DEF StoreSteps, Reverts, Reverting, Backs
<1>. QED
  BY <1>3, <1>4, <1>5, <1>6, <1>7, <1>8 DEF Reconcile

LEMMA NextPaired ==
    ASSUME OneStorer, OnePruner, Survival, Paired, [Next]_vars
    PROVE  Paired'
<1>1. Unmarked' => Unmarked
  BY MarksStay DEF Unmarked
<1>2. ASSUME NEW s \in Storages, Crash(s)
      PROVE  Paired'
  BY <1>2 DEF Crash, Paired, Unmarked
<1>3. CASE AddReference \/ DropReference \/ UNCHANGED vars
  <2>1. db'.row = db.row /\ UNCHANGED <<leaf, marks, call>>
    BY <1>3
       DEF AddReference, DropReference, CommittedAlone, FilesUntouched, vars,
           Survival, Safety, TypeOK, Rows
  <2>. QED
    BY <2>1 DEF Paired, Unmarked, Reverts, Owns, Backs, Sorted
<1>4. CASE Tamper
  BY <1>4 DEF Tamper, Paired, Unmarked
<1>. QED
  BY <1>1, <1>2, <1>3, <1>4, StorePaired, PrunePaired, CompensatePaired,
     ReconcilePaired DEF Next

\* A step that takes neither the file from its name nor a call off its duty.
LEMMA NamedKept ==
    ASSUME Named, NEW s \in Storages,
           \A t \in Storages : t # s => call'[t] = call[t],
           db'.row => db.row,
           Unmarked' => Unmarked,
           leaf \in Intact => leaf' \in Intact,
           Mends(s) => Mends(s)'
    PROVE  Named'
BY DEF Named, Mends

\* A step after which there is nothing to answer for, or somebody who does.
LEMMA NamedMended ==
    ASSUME NEW s \in Storages,
           \/ Mends(s)'
           \/ ~db'.row
           \/ leaf' \in Intact
           \/ ~Unmarked'
    PROVE  Named'
BY DEF Named, Mends

LEMMA StoreNamed ==
    ASSUME Survival, Paired, Named, NEW s \in Storages, Store(s),
           Unmarked' => Unmarked
    PROVE  Named'
<1>. SUFFICES ASSUME Unmarked', Unmarked
              PROVE  Named'
  BY DEF Named
<1>1. /\ CallT /\ NoFile \notin Intact
      /\ Owns(s) /\ Backs(s)
  BY NoFileAssumption, IntactAssumption
     DEF Survival, Safety, TypeOK, CallT, Call, Paired
<1>2. CASE StoreBegin(s)
  <2>1. /\ \A t \in Storages : t # s => call'[t] = call[t]
        /\ call[s].at = "idle"
        /\ UNCHANGED <<db, leaf>>
    BY <1>1, <1>2 DEF StoreBegin, At, FilesUntouched, CallT
  <2>. QED
    BY <2>1, NamedKept DEF Mends, Mending
<1>3. CASE Reuse(s) \/ Link(s) \/ LinkFails(s)
  <2>1. leaf' \in Intact
    BY <1>3 DEF Reuse, Link, LinkFails, FilesUntouched
  <2>. QED
    BY <2>1, NamedMended
<1>4. CASE Undo(s)
  <2>1. call[s].at = "undo" /\ UNCHANGED <<db, leaf>>
    BY <1>4 DEF Undo, At, Untouched, FilesUntouched
  <2>2. \A t \in Storages : t # s => call'[t] = call[t]
    BY <1>1, <1>4, MovedFact DEF Undo, Checks, Steps
  <2>. QED
    BY <2>1, <2>2, NamedKept DEF Mends, Mending
<1>5. CASE Unlink(s)
  <2>1. ~db'.row
    BY <1>1, <1>5 DEF Unlink, At, Untouched, Owns
  <2>. QED
    BY <2>1, NamedMended
<1>6. CASE StoreCommit(s)
  <2>1. /\ call[s].at = "record" /\ leaf' = leaf
        /\ \A t \in Storages : t # s => call'[t] = call[t]
    BY <1>1, <1>6, EndedFact, MovedFact
       DEF StoreCommit, Unwind, At, FilesUntouched, Steps
  <2>2. leaf' \in Intact \/ \E t \in Storages : call'[t].at = "retire"
    BY <1>1, <2>1 DEF Backs
  <2>. QED
    BY <2>2, NamedMended DEF Mends, Mending
<1>7. CASE StoreFails(s)
  <2>1. /\ call[s].at \in {"publish", "undone", "record"}
        /\ UNCHANGED <<db, leaf>>
    BY <1>7 DEF StoreFails, At, RolledBack, FilesUntouched
  <2>2. \A t \in Storages : t # s => call'[t] = call[t]
    BY <1>1, <1>7, EndedFact, MovedFact DEF StoreFails, Unwind, Steps
  <2>. QED
    BY <2>1, <2>2, NamedKept DEF Mends, Mending
<1>8. CASE Unpublish(s)
  <2>1. call[s].at = "unpublish" /\ db' = db
    BY <1>8 DEF Unpublish, At, Untouched
  <2>2. CASE Ended(s) /\ leaf' = leaf
    BY <1>1, <2>1, <2>2, EndedFact, NamedKept DEF Mends, Mending
  <2>3. CASE call' = [call EXCEPT ![s].at = "sort", ![s].held = leaf]
    <3>1. /\ call'[s].at = "sort" /\ call'[s].held = leaf
          /\ call'[s].linked = call[s].linked
      BY <1>1, <2>3 DEF CallT, Call
    <3>2. leaf = call[s].linked => ~db'.row
      BY <1>1, <2>1 DEF Owns
    <3>. QED
      BY <3>1, <3>2, NamedMended DEF Mends
  <2>. QED
    BY <1>8, <2>2, <2>3 DEF Unpublish
<1>9. CASE Sort(s)
  <2>1. call[s].at = "sort" /\ db' = db
    BY <1>9 DEF Sort, At, Untouched
  <2>2. \A t \in Storages : t # s => call'[t] = call[t]
    BY <1>1, <1>9, EndedFact DEF Sort
  <2>3. CASE Relinked(s)
    <3>1. call[s].held \in Intact
      BY <1>1, <2>1 DEF Owns, Survival, Safety, Known, Unmarked
    <3>. QED
      BY <2>3, <3>1, NamedMended DEF Relinked
  <2>4. CASE call[s].held = call[s].linked /\ leaf' = leaf
    BY <2>1, <2>2, <2>4, NamedKept DEF Mends, Mending
  <2>. QED
    BY <1>9, <2>3, <2>4 DEF Sort, Unmarked
<1>. QED
  BY <1>2, <1>3, <1>4, <1>5, <1>6, <1>7, <1>8, <1>9 DEF Store

LEMMA PruneNamed ==
    ASSUME Survival, Named, NEW s \in Storages, Prune(s),
           Unmarked' => Unmarked
    PROVE  Named'
<1>. SUFFICES ASSUME Unmarked', Unmarked
              PROVE  Named'
  BY DEF Named
<1>1. CallT /\ Safety /\ Staged
  BY DEF Survival, Safety, TypeOK, CallT, Call
<1>2. CASE PruneBegin(s)
  <2>1. /\ \A t \in Storages : t # s => call'[t] = call[t]
        /\ call[s].at = "idle"
        /\ UNCHANGED <<db, leaf>>
    BY <1>1, <1>2 DEF PruneBegin, At, FilesUntouched, CallT
  <2>. QED
    BY <2>1, NamedKept DEF Mends, Mending
<1>3. CASE MoveAside(s)
  <2>1. call'[s].at = "verify"
    BY <1>1, <1>3, MovedFact DEF MoveAside, Steps
  <2>. QED
    BY <2>1, NamedMended DEF Mends, Mending
<1>4. CASE MoveRefused(s)
  <2>1. call[s].at = "move" /\ UNCHANGED <<db, leaf>>
    BY <1>4 DEF MoveRefused, At, RolledBack, FilesUntouched
  <2>2. \A t \in Storages : t # s => call'[t] = call[t]
    BY <1>1, <1>4, EndedFact DEF MoveRefused
  <2>. QED
    BY <2>1, <2>2, NamedKept DEF Mends, Mending
<1>5. CASE MoveFails(s)
  <2>1. call'[s].at = "inspect"
    BY <1>1, <1>5 DEF MoveFails, CallT, Call
  <2>. QED
    BY <2>1, NamedMended DEF Mends, Mending
<1>6. CASE Inspect(s)
  <2>1. leaf' \in Intact \/ call'[s].at = "abandon"
    BY <1>1, <1>6, MovedFact DEF Inspect, FilesUntouched, Steps
  <2>. QED
    BY <2>1, NamedMended DEF Mends, Mending
<1>7. CASE Verify(s)
  <2>1. call'[s].at \in {"commit", "abandon"}
    BY <1>1, <1>7, MovedFact DEF Verify, Steps
  <2>. QED
    BY <2>1, NamedMended DEF Mends, Mending
<1>8. CASE PruneCommit(s)
  <2>1. ~db'.row \/ call'[s].at = "settle"
    BY <1>1, <1>8, MovedFact
       DEF PruneCommit, Commits, Committed, Staged, At, Steps
  <2>. QED
    BY <2>1, NamedMended DEF Mends, Mending
<1>9. CASE Delete(s)
  <2>1. call[s].at = "delete" /\ UNCHANGED <<db, leaf>>
    BY <1>9 DEF Delete, At, Untouched
  <2>2. \A t \in Storages : t # s => call'[t] = call[t]
    BY <1>1, <1>9, EndedFact, MovedFact DEF Delete, Steps
  <2>. QED
    BY <2>1, <2>2, NamedKept DEF Mends, Mending
<1>. QED
  BY <1>2, <1>3, <1>4, <1>5, <1>6, <1>7, <1>8, <1>9 DEF Prune

\* What a compensation leaves alone: names that are taken, and rows.
LEMMA CompensateNamed ==
    ASSUME Survival, Paired, Named, NEW s \in Storages, Compensate(s),
           Unmarked' => Unmarked
    PROVE  Named'
<1>. SUFFICES ASSUME Unmarked', Unmarked
              PROVE  Named'
  BY DEF Named
<1>1. /\ CallT /\ Safety /\ db \in Rows /\ txn \in Rows
      /\ NoFile \notin Intact
  BY NoFileAssumption, IntactAssumption
     DEF Survival, Safety, TypeOK, CallT, Call
<1>2. CASE Restore(s) \/ Pin(s) \/ Audit(s)
  <2>1. call[s].at \in {"restore", "pin", "audit"} /\ db' = db
    BY <1>2 DEF Restore, Pin, Audit, At, Untouched
  <2>2. \A t \in Storages : t # s => call'[t] = call[t]
    <3>1. CASE Restore(s)
      BY <1>1, <3>1, EndedFact, MovedFact DEF Restore, Steps
    <3>2. CASE Pin(s)
      BY <1>1, <3>2, MovedFact DEF Pin, Steps, CallT
    <3>3. CASE Audit(s)
      BY <1>1, <3>3, EndedFact, MovedFact DEF Audit, Steps
    <3>. QED
      BY <1>2, <3>1, <3>2, <3>3
  <2>3. leaf \in Intact => leaf' \in Intact
    BY <1>1, <1>2 DEF Restore, Pin, Audit, Relinked, FilesUntouched
  <2>. QED
    BY <2>1, <2>2, <2>3, NamedKept DEF Mends, Mending
<1>3. CASE Reinsert(s) \/ Reprove(s)
  <2>1. /\ call[s].at \in {"reinsert", "reprove"}
        /\ UNCHANGED <<db, leaf>>
    BY <1>3 DEF Reinsert, Reprove, At, FilesUntouched
  <2>2. \A t \in Storages : t # s => call'[t] = call[t]
    <3>1. CASE Reinsert(s)
      BY <1>1, <3>1, MovedFact DEF Reinsert, Steps
    <3>2. CASE Reprove(s)
      BY <1>1, <3>2, MovedFact DEF Reprove, Steps
    <3>. QED
      BY <1>3, <3>1, <3>2
  <2>. QED
    BY <2>1, <2>2, NamedKept DEF Mends, Mending
<1>4. CASE Recommit(s)
  <2>1. call[s].at = "recommit" /\ leaf' = leaf /\ call[s].held \in Intact
    BY <1>4
       DEF Recommit, At, FilesUntouched, Survival, Safety, Unlinkable,
           VerifiedSteps
  <2>2. \A t \in Storages : t # s => call'[t] = call[t]
    BY <1>1, <1>4, MovedFact DEF Recommit, Commits, Steps
  <2>3. CASE leaf = call[s].held
    BY <2>1, <2>3, NamedMended
  <2>4. CASE Sorted(call[s].held)
    <3>1. PICK t \in Storages :
             call[t].at = "sort" /\ call[t].held = call[s].held
      BY <2>4 DEF Sorted
    <3>2. Owns(t) /\ t # s
      BY <2>1, <3>1 DEF Paired
    <3>3. Mends(t)'
      BY <2>2, <3>1, <3>2 DEF Mends, Owns
    <3>. QED
      BY <3>3, NamedMended
  <2>. QED
    BY <2>1, <2>3, <2>4 DEF Paired, Backs
<1>5. CASE Unmark(s)
  <2>1. call[s].at = "unmark" /\ db'.row = db.row /\ UNCHANGED <<leaf>>
    BY <1>1, <1>5
       DEF Unmark, At, Untouched, CommittedAlone, FilesUntouched, Rows
  <2>2. \A t \in Storages : t # s => call'[t] = call[t]
    BY <1>1, <1>5, EndedFact, MovedFact DEF Unmark, Steps
  <2>. QED
    BY <2>1, <2>2, NamedKept DEF Mends, Mending
<1>6. CASE Retire(s)
  <2>1. ~db'.row \/ ~Unmarked'
    BY <1>1, <1>6
       DEF Retire, CommittedAlone, Untouched, Report, Rows, Unmarked
  <2>. QED
    BY <2>1, NamedMended
<1>. QED
  BY <1>2, <1>3, <1>4, <1>5, <1>6 DEF Compensate

LEMMA ReconcileNamed ==
    ASSUME Survival, Named, NEW s \in Storages, Reconcile(s),
           Unmarked' => Unmarked
    PROVE  Named'
<1>. SUFFICES ASSUME Unmarked', Unmarked
              PROVE  Named'
  BY DEF Named
<1>1. CallT /\ Safety
  BY DEF Survival, Safety, TypeOK, CallT, Call
<1>2. CASE Abandon(s)
  <2>1. call'[s].at = "reread"
    BY <1>1, <1>2, MovedFact DEF Abandon, Steps
  <2>. QED
    BY <2>1, NamedMended DEF Mends, Mending
<1>3. CASE Reread(s)
  <2>1. ~db'.row \/ call'[s].at \in {"retire", "republish"}
    BY <1>1, <1>3, MovedFact DEF Reread, Untouched, Steps
  <2>. QED
    BY <2>1, NamedMended DEF Mends, Mending
<1>4. CASE Republish(s)
  <2>1. leaf' \in Intact \/ call'[s].at = "retire"
    BY <1>1, <1>4, MovedFact DEF Republish, Steps
  <2>. QED
    BY <2>1, NamedMended DEF Mends, Mending
<1>5. CASE RepublishFails(s)
  <2>1. leaf' \in Intact
    BY <1>5 DEF RepublishFails
  <2>. QED
    BY <2>1, NamedMended
<1>6. CASE Reundo(s) \/ Reunlink(s)
  <2>1. call'[s].at \in {"reunlink", "retire"}
    BY <1>1, <1>6, MovedFact DEF Reundo, Reunlink, Checks, Unlinks, Steps
  <2>. QED
    BY <2>1, NamedMended DEF Mends, Mending
<1>7. CASE Settle(s)
  <2>1. ~db'.row \/ call'[s].at = "putback"
    BY <1>1, <1>7, MovedFact DEF Settle, Untouched, Steps
  <2>. QED
    BY <2>1, NamedMended DEF Mends, Mending
<1>8. CASE Discard(s)
  <2>1. call[s].at = "discard" /\ UNCHANGED <<db, leaf>>
    BY <1>8 DEF Discard, At, Untouched
  <2>2. \A t \in Storages : t # s => call'[t] = call[t]
    BY <1>1, <1>8, EndedFact DEF Discard
  <2>. QED
    BY <2>1, <2>2, NamedKept DEF Mends, Mending
<1>9. CASE PutBack(s)
  <2>1. call[s].held \in Intact
    BY <1>1, <1>9 DEF PutBack, At, Safety, Unlinkable, VerifiedSteps
  <2>2. leaf' \in Intact \/ call'[s].at = "retire"
    BY <1>1, <1>9, <2>1, MovedFact DEF PutBack, Relinked, Steps
  <2>. QED
    BY <2>2, NamedMended DEF Mends, Mending
<1>. QED
  BY <1>2, <1>3, <1>4, <1>5, <1>6, <1>7, <1>8, <1>9 DEF Reconcile

LEMMA NextNamed ==
    ASSUME Survival, Paired, Named, [Next]_vars
    PROVE  Named'
<1>1. Unmarked' => Unmarked
  BY MarksStay DEF Unmarked
<1>2. ASSUME NEW s \in Storages, Crash(s)
      PROVE  Named'
  BY <1>2 DEF Crash, Named, Unmarked
<1>3. CASE AddReference \/ DropReference \/ UNCHANGED vars
  <2>1. db'.row = db.row /\ UNCHANGED <<leaf, marks, call>>
    BY <1>3
       DEF AddReference, DropReference, CommittedAlone, FilesUntouched, vars,
           Survival, Safety, TypeOK, Rows
  <2>. QED
    BY <2>1 DEF Named, Unmarked, Mends
<1>4. CASE Tamper
  BY <1>4 DEF Tamper, Named, Unmarked
<1>. QED
  BY <1>1, <1>2, <1>3, <1>4, StoreNamed, PruneNamed, CompensateNamed,
     ReconcileNamed DEF Next

-----------------------------------------------------------------------------
(* The marker of a row that came back.  Any number may store, one prunes.  *)

\* What a call may count on where it stands: under the lock the rows are as it
\* left them, and it commits over verified bytes.
Stands(s) ==
    /\ call[s].at \notin StoreSteps \union {"idle"} => s \in Pruners
    /\ call[s].at \in {"publish", "record"} => txn = db
    /\ call[s].at \in {"commit", "abandon"} => ~txn.row
    /\ call[s].at = "recommit" => ~db.row
    /\ call[s].at = "record" /\ db.row => proved
    /\ call[s].at = "unmark" /\ db.row /\ db.marker => proved

Doubtless == \A s \in Storages : Stands(s)

\* A row loses its marker over verified bytes only.
Covered == db.row /\ db.marker /\ db'.row /\ ~db'.marker => proved

LEMMA OthersStand ==
    ASSUME OnePruner, Safety, Doubtless, NEW s \in Storages,
           \A t \in Storages : t # s => call'[t] = call[t],
           Stands(s)',
           \/ writer \in {s, NoStorage}
           \/ UNCHANGED <<db, txn>> /\ (proved => proved'),
           \/ s \in Pruners
           \/ db'.row /\ db'.marker =>
                 db.row /\ db.marker /\ (proved => proved')
    PROVE  Doubtless'
<1>. SUFFICES ASSUME NEW t \in Storages, t # s PROVE Stands(t)'
  BY DEF Doubtless
<1>1. Stands(t) /\ call'[t] = call[t]
  BY DEF Doubtless
<1>2. CASE call[t].at \in LockedSteps
  <2>1. UNCHANGED <<db, txn>> /\ (proved => proved')
    BY <1>2, NoStorageAssumption DEF Safety, Turns
  <2>. QED
    BY <1>1, <1>2, <2>1 DEF Stands, LockedSteps
<1>3. CASE call[t].at = "unmark"
  <2>1. t \in Pruners
    BY <1>1, <1>3 DEF Stands, StoreSteps
  <2>2. s \notin Pruners
    BY <2>1 DEF OnePruner
  <2>. QED
    BY <1>1, <1>3, <2>1, <2>2 DEF Stands
<1>4. CASE call[t].at \notin LockedSteps \union {"unmark"}
  BY <1>1, <1>4 DEF Stands, LockedSteps
<1>. QED
  BY <1>2, <1>3, <1>4

\* A step that leaves the rows alone, towards one that counts on nothing new.
LEMMA Plain ==
    ASSUME OnePruner, Safety, Doubtless, NEW s \in Storages,
           \A t \in Storages : t # s => call'[t] = call[t],
           UNCHANGED <<db, txn>>, proved => proved',
           call'[s].at \notin {"publish", "record", "commit", "abandon",
                               "recommit", "unmark"},
           call'[s].at \in StoreSteps \union {"idle"} \/ s \in Pruners
    PROVE  Doubtless' /\ Covered
<1>1. Stands(s)'
  BY DEF Stands
<1>2. Covered
  BY DEF Covered
<1>. QED
  BY <1>1, <1>2, OthersStand

LEMMA StoreDoubtless ==
    ASSUME OnePruner, Safety, Doubtless, NEW s \in Storages, Store(s)
    PROVE  Doubtless' /\ Covered
<1>1. CallT /\ db \in Rows /\ txn \in Rows /\ Stands(s)
  BY DEF Safety, TypeOK, CallT, Call, Doubtless
<1>2. CASE StoreBegin(s)
  <2>1. /\ \A t \in Storages : t # s => call'[t] = call[t]
        /\ call'[s].at = "publish"
        /\ txn' = db' /\ UNCHANGED <<db, proved>>
        /\ writer = NoStorage
    BY <1>1, <1>2 DEF StoreBegin, Began, Free, CallT, Call
  <2>2. Stands(s)' /\ Covered
    BY <2>1 DEF Stands, StoreSteps, Covered
  <2>. QED
    BY <2>1, <2>2, OthersStand
<1>3. CASE Reuse(s)
  <2>1. /\ \A t \in Storages : t # s => call'[t] = call[t]
        /\ call[s].at = "publish" /\ call'[s].at = "record"
        /\ UNCHANGED <<db, txn>> /\ proved'
    BY <1>1, <1>3, MovedFact DEF Reuse, At, Steps
  <2>2. Stands(s)' /\ Covered
    BY <1>1, <2>1 DEF Stands, StoreSteps, Covered
  <2>. QED
    BY <2>1, <2>2, OthersStand
<1>4. CASE Link(s)
  <2>1. /\ \A t \in Storages : t # s => call'[t] = call[t]
        /\ call[s].at = "publish" /\ call'[s].at = "record"
        /\ UNCHANGED <<db, txn, proved>> /\ ~txn.row
    BY <1>1, <1>4 DEF Link, At, Untouched, CallT, Call
  <2>2. Stands(s)' /\ Covered
    BY <1>1, <2>1 DEF Stands, StoreSteps, Covered
  <2>. QED
    BY <2>1, <2>2, OthersStand
<1>5. CASE StoreCommit(s)
  <2>1. /\ \A t \in Storages : t # s => call'[t] = call[t]
        /\ call'[s].at \in {"idle", "unpublish"}
    BY <1>1, <1>5, EndedFact, MovedFact DEF StoreCommit, Unwind, Steps
  <2>2. call[s].at = "record" /\ writer = s
    BY <1>5 DEF StoreCommit, At, Safety, Turns, LockedSteps
  <2>3. Stands(s)'
    BY <2>1 DEF Stands, StoreSteps
  <2>4. \/ ~db'.marker
        \/ db' = db /\ proved' = proved
    BY <1>5 DEF StoreCommit
  <2>5. Covered
    BY <1>1, <2>2, <2>4 DEF Covered, Stands
  <2>. QED
    BY <2>1, <2>2, <2>3, <2>4, <2>5, OthersStand
<1>6. CASE StoreFails(s)
  <2>1. /\ \A t \in Storages : t # s => call'[t] = call[t]
        /\ call'[s].at \in {"idle", "unpublish"}
    BY <1>1, <1>6, EndedFact, MovedFact DEF StoreFails, Unwind, Steps
  <2>2. call[s].at \in LockedSteps /\ UNCHANGED <<db, proved>>
    BY <1>6 DEF StoreFails, At, LockedSteps, RolledBack
  <2>3. writer = s
    BY <2>2 DEF Safety, Turns
  <2>4. Stands(s)' /\ Covered
    BY <2>1, <2>2 DEF Stands, StoreSteps, Covered
  <2>. QED
    BY <2>1, <2>2, <2>3, <2>4, OthersStand
<1>7. CASE LinkFails(s)
  <2>1. PICK f \in Intact \ made : \E j \in {f, NoFile} :
           call' = [call EXCEPT ![s].at = "undo", ![s].pinned = f,
                                ![s].linked = j]
    BY <1>7 DEF LinkFails
  <2>2. /\ \A t \in Storages : t # s => call'[t] = call[t]
        /\ call'[s].at = "undo"
    BY <1>1, <2>1 DEF CallT, Call
  <2>. QED
    BY <1>7, <2>2, Plain DEF LinkFails, Untouched, StoreSteps
<1>8. CASE Undo(s) \/ Unlink(s)
  <2>1. /\ \A t \in Storages : t # s => call'[t] = call[t]
        /\ call'[s].at \in {"unlink", "undone"}
        /\ UNCHANGED <<db, txn, proved>>
    BY <1>1, <1>8, MovedFact
       DEF Undo, Unlink, Checks, Unlinks, Untouched, Steps
  <2>. QED
    BY <2>1, Plain DEF StoreSteps
<1>9. CASE Unpublish(s)
  <2>1. /\ \A t \in Storages : t # s => call'[t] = call[t]
        /\ call'[s].at \in {"idle", "sort"}
        /\ UNCHANGED <<db, txn, proved>>
    BY <1>1, <1>9, EndedFact DEF Unpublish, Untouched, CallT, Call
  <2>. QED
    BY <2>1, Plain DEF StoreSteps
<1>10. CASE Sort(s)
  <2>1. /\ \A t \in Storages : t # s => call'[t] = call[t]
        /\ call'[s].at = "idle"
        /\ UNCHANGED <<db, txn, proved>>
    BY <1>1, <1>10, EndedFact DEF Sort, Untouched
  <2>. QED
    BY <2>1, Plain
<1>. QED
  BY <1>2, <1>3, <1>4, <1>5, <1>6, <1>7, <1>8, <1>9, <1>10 DEF Store

LEMMA PruneDoubtless ==
    ASSUME OnePruner, Safety, Doubtless, NEW s \in Storages, Prune(s)
    PROVE  Doubtless' /\ Covered
<1>1. CallT /\ db \in Rows /\ txn \in Rows /\ Stands(s)
  BY DEF Safety, TypeOK, CallT, Call, Doubtless
<1>2. CASE PruneBegin(s)
  <2>1. /\ \A t \in Storages : t # s => call'[t] = call[t]
        /\ call'[s].at = "move"
        /\ UNCHANGED <<db, proved>>
        /\ writer = NoStorage /\ s \in Pruners
    BY <1>1, <1>2 DEF PruneBegin, Began, Free, CallT, Call
  <2>2. Stands(s)' /\ Covered
    BY <2>1 DEF Stands, StoreSteps, Covered
  <2>. QED
    BY <2>1, <2>2, OthersStand
<1>3. CASE MoveAside(s)
  <2>1. /\ \A t \in Storages : t # s => call'[t] = call[t]
        /\ call[s].at = "move" /\ call'[s].at = "verify"
        /\ UNCHANGED <<db, txn, proved>>
    BY <1>1, <1>3, MovedFact DEF MoveAside, At, Untouched, Steps
  <2>. QED
    BY <1>1, <2>1, Plain DEF Stands, StoreSteps
<1>4. CASE MoveRefused(s)
  <2>1. /\ \A t \in Storages : t # s => call'[t] = call[t]
        /\ call'[s].at = "idle" /\ call[s].at = "move"
        /\ UNCHANGED <<db, proved>>
    BY <1>1, <1>4, EndedFact DEF MoveRefused, At, RolledBack
  <2>2. writer = s /\ s \in Pruners
    BY <1>1, <2>1 DEF Safety, Turns, LockedSteps, Stands, StoreSteps
  <2>3. Stands(s)' /\ Covered
    BY <2>1 DEF Stands, Covered
  <2>. QED
    BY <2>1, <2>2, <2>3, OthersStand
<1>5. CASE MoveFails(s)
  <2>1. /\ \A t \in Storages : t # s => call'[t] = call[t]
        /\ call[s].at = "move" /\ call'[s].at = "inspect"
        /\ UNCHANGED <<db, txn, proved>>
    BY <1>1, <1>5 DEF MoveFails, At, Untouched, CallT, Call
  <2>. QED
    BY <1>1, <2>1, Plain DEF Stands, StoreSteps
<1>6. CASE Inspect(s)
  <2>1. /\ \A t \in Storages : t # s => call'[t] = call[t]
        /\ call[s].at = "inspect" /\ UNCHANGED <<db, proved>>
        /\ \/ call'[s].at = "idle"
           \/ call'[s].at = "abandon" /\ ~txn'.row
    BY <1>1, <1>6, EndedFact, MovedFact
       DEF Inspect, At, RolledBack, Steps, Rows
  <2>2. writer = s /\ s \in Pruners
    BY <1>1, <2>1 DEF Safety, Turns, LockedSteps, Stands, StoreSteps
  <2>3. Stands(s)' /\ Covered
    BY <2>1, <2>2 DEF Stands, Covered
  <2>. QED
    BY <2>1, <2>2, <2>3, OthersStand
<1>7. CASE Verify(s)
  <2>1. /\ \A t \in Storages : t # s => call'[t] = call[t]
        /\ call[s].at = "verify" /\ UNCHANGED <<db, proved>>
        /\ call'[s].at \in {"commit", "abandon"} /\ ~txn'.row
    BY <1>1, <1>7, MovedFact DEF Verify, At, Steps, Rows
  <2>2. writer = s /\ s \in Pruners
    BY <1>1, <2>1 DEF Safety, Turns, LockedSteps, Stands, StoreSteps
  <2>3. Stands(s)' /\ Covered
    BY <2>1, <2>2 DEF Stands, Covered
  <2>. QED
    BY <2>1, <2>2, <2>3, OthersStand
<1>8. CASE PruneCommit(s)
  <2>1. /\ \A t \in Storages : t # s => call'[t] = call[t]
        /\ call[s].at = "commit" /\ call'[s].at \in {"delete", "settle"}
        /\ db' \in {db, txn}
    BY <1>1, <1>8, MovedFact
       DEF PruneCommit, Commits, Committed, RolledBack, At, Steps
  <2>2. writer = s /\ s \in Pruners /\ ~txn.row
    BY <1>1, <2>1 DEF Safety, Turns, LockedSteps, Stands, StoreSteps
  <2>3. Stands(s)' /\ Covered
    BY <2>1, <2>2 DEF Stands, Covered
  <2>. QED
    BY <2>1, <2>2, <2>3, OthersStand
<1>9. CASE Delete(s)
  <2>1. /\ \A t \in Storages : t # s => call'[t] = call[t]
        /\ call[s].at = "delete" /\ call'[s].at \in {"idle", "restore"}
        /\ UNCHANGED <<db, txn, proved>>
    BY <1>1, <1>9, EndedFact, MovedFact DEF Delete, At, Untouched, Steps
  <2>. QED
    BY <1>1, <2>1, Plain DEF Stands, StoreSteps
<1>. QED
  BY <1>2, <1>3, <1>4, <1>5, <1>6, <1>7, <1>8, <1>9 DEF Prune

LEMMA CompensateDoubtless ==
    ASSUME OnePruner, Safety, Doubtless, NEW s \in Storages, Compensate(s)
    PROVE  Doubtless' /\ Covered
<1>1. CallT /\ db \in Rows /\ txn \in Rows /\ Stands(s)
  BY DEF Safety, TypeOK, CallT, Call, Doubtless
<1>2. s \in Pruners
  BY <1>1 DEF Compensate, Restore, Pin, Reinsert, Recommit, Reprove, Unmark,
              Audit, Retire, At, Stands, StoreSteps
<1>3. CASE Restore(s)
  <2>1. /\ \A t \in Storages : t # s => call'[t] = call[t]
        /\ call'[s].at \in {"idle", "pin"}
        /\ UNCHANGED <<db, txn, proved>>
    BY <1>1, <1>3, EndedFact, MovedFact DEF Restore, Untouched, Steps
  <2>. QED
    BY <1>2, <2>1, Plain
<1>4. CASE Pin(s)
  <2>1. /\ \A t \in Storages : t # s => call'[t] = call[t]
        /\ call'[s].at \in {"reinsert", "audit"}
        /\ UNCHANGED <<db, txn, proved>>
    BY <1>1, <1>4, MovedFact DEF Pin, Untouched, Steps, CallT, Call
  <2>. QED
    BY <1>2, <2>1, Plain
<1>5. CASE Reinsert(s)
  <2>1. /\ \A t \in Storages : t # s => call'[t] = call[t]
        /\ UNCHANGED <<db, proved>>
        /\ \/ call'[s].at = "recommit" /\ ~db.row /\ writer = NoStorage
           \/ call'[s].at = "audit" /\ txn' = txn
    BY <1>1, <1>5, MovedFact DEF Reinsert, Began, Free, Steps
  <2>2. Stands(s)' /\ Covered
    BY <1>2, <2>1 DEF Stands, Covered
  <2>. QED
    BY <1>2, <2>1, <2>2, OthersStand
<1>6. CASE Recommit(s)
  <2>1. /\ \A t \in Storages : t # s => call'[t] = call[t]
        /\ call[s].at = "recommit" /\ call'[s].at \in {"reprove", "audit"}
    BY <1>1, <1>6, MovedFact DEF Recommit, Commits, At, Steps
  <2>2. writer = s /\ ~db.row
    BY <1>1, <2>1 DEF Safety, Turns, LockedSteps, Stands
  <2>3. Stands(s)' /\ Covered
    BY <1>2, <2>1, <2>2 DEF Stands, Covered
  <2>. QED
    BY <1>2, <2>1, <2>2, <2>3, OthersStand
<1>7. CASE Reprove(s)
  <2>1. /\ \A t \in Storages : t # s => call'[t] = call[t]
        /\ UNCHANGED <<db, txn>> /\ (proved => proved')
        /\ \/ call'[s].at = "unmark" /\ proved'
           \/ call'[s].at = "audit"
    BY <1>1, <1>7, MovedFact DEF Reprove, Steps
  <2>2. Stands(s)' /\ Covered
    BY <1>2, <2>1 DEF Stands, Covered
  <2>. QED
    BY <1>2, <2>1, <2>2, OthersStand
<1>8. CASE Unmark(s)
  <2>1. /\ \A t \in Storages : t # s => call'[t] = call[t]
        /\ call[s].at = "unmark" /\ call'[s].at \in {"idle", "audit"}
        /\ \/ writer = NoStorage
           \/ UNCHANGED <<db, txn, proved>>
    BY <1>1, <1>8, EndedFact, MovedFact
       DEF Unmark, At, CommittedAlone, Free, Untouched, Steps
  <2>2. Stands(s)' /\ Covered
    BY <1>1, <1>2, <2>1 DEF Stands, Covered
  <2>. QED
    BY <1>2, <2>1, <2>2, OthersStand
<1>9. CASE Audit(s)
  <2>1. /\ \A t \in Storages : t # s => call'[t] = call[t]
        /\ call'[s].at \in {"idle", "retire"}
        /\ UNCHANGED <<db, txn, proved>>
    BY <1>1, <1>9, EndedFact, MovedFact DEF Audit, Untouched, Steps
  <2>. QED
    BY <1>2, <2>1, Plain
<1>10. CASE Retire(s)
  <2>1. /\ \A t \in Storages : t # s => call'[t] = call[t]
        /\ call'[s].at = "idle"
        /\ \/ writer = NoStorage /\ ~db'.row
           \/ UNCHANGED <<db, txn, proved>>
    BY <1>1, <1>10, EndedFact
       DEF Retire, CommittedAlone, Free, Untouched, Rows
  <2>2. Stands(s)' /\ Covered
    BY <2>1 DEF Stands, Covered
  <2>. QED
    BY <1>2, <2>1, <2>2, OthersStand
<1>. QED
  BY <1>3, <1>4, <1>5, <1>6, <1>7, <1>8, <1>9, <1>10 DEF Compensate

LEMMA ReconcileDoubtless ==
    ASSUME OnePruner, Safety, Doubtless, NEW s \in Storages, Reconcile(s)
    PROVE  Doubtless' /\ Covered
<1>1. CallT /\ Stands(s)
  BY DEF Safety, TypeOK, CallT, Call, Doubtless
<1>2. s \in Pruners
  BY <1>1
     DEF Reconcile, Abandon, Reread, Republish, RepublishFails, Reundo,
         Reunlink, Settle, Discard, PutBack, At, Stands, StoreSteps
<1>3. CASE Abandon(s)
  <2>1. /\ \A t \in Storages : t # s => call'[t] = call[t]
        /\ call[s].at = "abandon" /\ call'[s].at = "reread"
        /\ db' \in {db, txn}
    BY <1>1, <1>3, MovedFact DEF Abandon, Committed, RolledBack, At, Steps
  <2>2. writer = s /\ ~txn.row
    BY <1>1, <2>1 DEF Safety, Turns, LockedSteps, Stands
  <2>3. Stands(s)' /\ Covered
    BY <1>2, <2>1, <2>2 DEF Stands, Covered
  <2>. QED
    BY <1>2, <2>1, <2>2, <2>3, OthersStand
<1>4. CASE Reread(s)
  <2>1. /\ \A t \in Storages : t # s => call'[t] = call[t]
        /\ call'[s].at \in {"idle", "retire", "republish"}
        /\ UNCHANGED <<db, txn, proved>>
    BY <1>1, <1>4, EndedFact, MovedFact DEF Reread, Untouched, Steps
  <2>. QED
    BY <1>2, <2>1, Plain
<1>5. CASE Republish(s)
  <2>1. /\ \A t \in Storages : t # s => call'[t] = call[t]
        /\ call'[s].at \in {"idle", "retire"}
        /\ UNCHANGED <<db, txn, proved>>
    BY <1>1, <1>5, EndedFact, MovedFact DEF Republish, Untouched, Steps
  <2>. QED
    BY <1>2, <2>1, Plain
<1>6. CASE Settle(s)
  <2>1. /\ \A t \in Storages : t # s => call'[t] = call[t]
        /\ call'[s].at \in {"putback", "discard"}
        /\ UNCHANGED <<db, txn, proved>>
    BY <1>1, <1>6, MovedFact DEF Settle, Untouched, Steps
  <2>. QED
    BY <1>2, <2>1, Plain
<1>7. CASE Discard(s)
  <2>1. /\ \A t \in Storages : t # s => call'[t] = call[t]
        /\ call'[s].at = "idle"
        /\ UNCHANGED <<db, txn, proved>>
    BY <1>1, <1>7, EndedFact DEF Discard, Untouched
  <2>. QED
    BY <1>2, <2>1, Plain
<1>8. CASE PutBack(s)
  <2>1. /\ \A t \in Storages : t # s => call'[t] = call[t]
        /\ call'[s].at \in {"idle", "retire"}
        /\ UNCHANGED <<db, txn, proved>>
    BY <1>1, <1>8, EndedFact, MovedFact DEF PutBack, Untouched, Steps
  <2>. QED
    BY <1>2, <2>1, Plain
<1>9. CASE RepublishFails(s)
  <2>1. PICK f \in Intact \ made :
           call' = [call EXCEPT ![s].at = "reundo", ![s].pinned = f]
    BY <1>9 DEF RepublishFails
  <2>2. /\ \A t \in Storages : t # s => call'[t] = call[t]
        /\ call'[s].at = "reundo"
    BY <1>1, <2>1 DEF CallT, Call
  <2>. QED
    BY <1>2, <1>9, <2>2, Plain DEF RepublishFails, Untouched
<1>10. CASE Reundo(s) \/ Reunlink(s)
  <2>1. /\ \A t \in Storages : t # s => call'[t] = call[t]
        /\ call'[s].at \in {"reunlink", "retire"}
        /\ UNCHANGED <<db, txn, proved>>
    BY <1>1, <1>10, MovedFact
       DEF Reundo, Reunlink, Checks, Unlinks, Untouched, Steps
  <2>. QED
    BY <1>2, <2>1, Plain
<1>. QED
  BY <1>3, <1>4, <1>5, <1>6, <1>7, <1>8, <1>9, <1>10 DEF Reconcile

LEMMA NextDoubtless ==
    ASSUME OnePruner
    PROVE  Safety /\ Doubtless /\ [Next]_vars => Doubtless' /\ Covered
<1>. SUFFICES ASSUME Safety, Doubtless, [Next]_vars PROVE Doubtless' /\ Covered
  OBVIOUS
<1>1. ASSUME NEW s \in Storages, Crash(s) PROVE Doubtless' /\ Covered
  <2>1. CallT
    BY DEF Safety, TypeOK, CallT, Call
  <2>2. /\ \A t \in Storages : t # s => call'[t] = call[t]
        /\ call'[s].at = "idle"
        /\ UNCHANGED <<db, proved>>
        /\ writer = s \/ txn' = txn
    BY <1>1, <2>1, EndedFact DEF Crash, RolledBack, Untouched
  <2>3. Stands(s)' /\ Covered
    BY <2>2 DEF Stands, Covered
  <2>. QED
    BY <2>2, <2>3, OthersStand
<1>2. CASE AddReference \/ DropReference
  <2>1. /\ db'.row = db.row /\ db'.marker = db.marker
        /\ (db.row => (proved <=> proved'))
        /\ writer = NoStorage /\ UNCHANGED call
    BY <1>2 DEF AddReference, DropReference, CommittedAlone, Free,
                FilesUntouched, Safety, TypeOK, Rows
  <2>2. \A s \in Storages : call[s].at \notin LockedSteps
    BY <2>1, NoStorageAssumption DEF Safety, Turns
  <2>. QED
    BY <2>1, <2>2 DEF Doubtless, Stands, LockedSteps, Covered
<1>3. CASE Tamper \/ UNCHANGED vars
  BY <1>3 DEF Tamper, Untouched, vars, Doubtless, Stands, Covered
<1>. QED
  BY <1>1, <1>2, <1>3, StoreDoubtless, PruneDoubtless, CompensateDoubtless,
     ReconcileDoubtless DEF Next

-----------------------------------------------------------------------------
(* The theorems.                                                           *)

\* Every variable keeps its type, whatever the calls, failures and deaths.
THEOREM TypeCorrect == Spec => []TypeOK
<1>1. Safety /\ [Next]_vars => Safety'
  BY NextSafety
<1>2. Spec => []Safety
  BY <1>1, InitSafety, PTL DEF Spec
<1>3. Safety => TypeOK
  BY DEF Safety
<1>. QED
  BY <1>2, <1>3, PTL

\* A retired digest is referenced by nobody, for any number of Storage objects
\* that store and prune: prune_unreferenced_blob sets the marker and checks the
\* references under one lock, and the triggers keep every reference out.
THEOREM RetirementExcludesReferences == Spec => []RetiredUnreferenced
<1>1. Safety /\ [Next]_vars => Safety'
  BY NextSafety
<1>2. Spec => []Safety
  BY <1>1, InitSafety, PTL DEF Spec
<1>3. Safety => RetiredUnreferenced
  BY DEF Safety, Exclusive, RetiredUnreferenced
<1>. QED
  BY <1>2, <1>3, PTL

\* No interleaving of stores, rollbacks, prunes and compensations takes the last
\* name from a file with other bytes than the blob's, or overwrites it, in any
\* step but the unlink of a failed publication: everything else moves a file
\* into a private quarantine first and looks at it there.
THEOREM OthersFilesSurvive == Spec => OthersKept
<1>1. Safety /\ [Next]_vars => Safety'
  BY NextSafety
<1>2. Spec => []Safety
  BY <1>1, InitSafety, PTL DEF Spec
<1>3. Safety /\ [Next]_vars =>
          [\A f \in made \ Intact : HasName(f) /\ ~HasName(f)' =>
               \E s \in Storages : Unlink(s) \/ Reunlink(s)]_vars
  BY NextSafety DEF Keeps
<1>. QED
  BY <1>2, <1>3, PTL DEF Spec, OthersKept

\* With one Storage that stores and any number that prune, a committed row has
\* its bytes under some name in every state, whatever fails and whoever dies.
THEOREM OneStorerKeepsBytes ==
    ASSUME OneStorer
    PROVE  Spec => []BytesSurvive
<1>1. Survival /\ [Next]_vars => Survival'
  BY NextSurvival
<1>2. Spec => []Survival
  BY <1>1, InitSurvival, PTL DEF Spec
<1>3. Survival => BytesSurvive
  BY DEF Survival, Tidy, Litter, Left, Spared, HasName, BytesSurvive
<1>. QED
  BY <1>2, <1>3, PTL

\* With one Storage that stores and one that prunes, a row names its bytes once
\* every call has returned, unless one died, reported restore_failed or left a
\* file in a rollback's quarantine: in every order and whatever else fails, a
\* step that leaves a row without its file is followed by one of the same call
\* that brings either back or says so.
THEOREM RowsNameTheirBytes ==
    ASSUME OneStorer, OnePruner
    PROVE  Spec => []RowNamesBytes
<1>1. Survival /\ Paired /\ Named /\ [Next]_vars =>
          Survival' /\ Paired' /\ Named'
  BY NextSurvival, NextPaired, NextNamed
<1>2. Init => Paired /\ Named
  <2>1. Init => \A s \in Storages : /\ call[s].at = "idle"
                                    /\ call[s].linked = NoFile
    BY DEF Init, Resting
  <2>2. Init => (db.row => leaf \in Intact)
    BY DEF Init
  <2>. QED
    BY <2>1, <2>2
       DEF Paired, Reverts, Reverting, Owns, Backs, Named
<1>3. Spec => [](Survival /\ Named)
  BY <1>1, <1>2, InitSurvival, PTL DEF Spec
<1>4. Named => RowNamesBytes
  BY DEF Named, Mends, Mending, Unmarked, At, RowNamesBytes
<1>. QED
  BY <1>3, <1>4, PTL

\* With one Storage that prunes and any number that store, a row loses its
\* marker over verified bytes only: a compensation looks at them again when the
\* row is durable, and a store that finds a row has read the bytes under it.
THEOREM MarkerCoversDoubt ==
    ASSUME OnePruner
    PROVE  Spec => MarkerOutlivesDoubt
<1>1. Safety /\ Doubtless /\ [Next]_vars => Doubtless' /\ Covered
  BY NextDoubtless
<1>2. Init => Doubtless
  <2>1. Init => \A s \in Storages : call[s].at = "idle"
    BY DEF Init, Resting
  <2>. QED
    BY <2>1 DEF Doubtless, Stands
<1>3. Covered <=> (db.row /\ db.marker /\ db'.row /\ ~db'.marker => proved)
  BY DEF Covered
<1>4. Safety /\ [Next]_vars => Safety'
  BY NextSafety
<1>5. Spec => [](Safety /\ Doubtless)
  BY <1>1, <1>2, <1>4, InitSafety, PTL DEF Spec
<1>. QED
  BY <1>1, <1>3, <1>5, PTL DEF Spec, MarkerOutlivesDoubt
=============================================================================
