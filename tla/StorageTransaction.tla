------------------------- MODULE StorageTransaction -------------------------
(***************************************************************************)
(* The execution transaction of one Storage shared by several threads      *)
(* (blocks/storage.py), with the files published inside it                 *)
(* (blocks/document.py) and the scopes that open and close it              *)
(* (tree_crawler, tree_bootstrap_workflow, immutable_artifacts and the     *)
(* ledger of agentic_orchestration).                                       *)
(*                                                                         *)
(* Every public method of Storage takes one turn on a condition variable   *)
(* and waits in it while another thread owns a transaction.  A transaction *)
(* nests by counting: only the outermost commit reaches SQLite, any        *)
(* rollback undoes all of it.  A file linked inside a transaction is       *)
(* journaled so that a rollback removes it; one that was already there is  *)
(* reused and never journaled.                                             *)
(*                                                                         *)
(* A row is <<its writer, the file its path names or NoFile>>.  Reads,     *)
(* directories of the journal and the rename protocol that removes a file  *)
(* are left out.                                                           *)
(***************************************************************************)
EXTENDS Naturals, FiniteSets

CONSTANTS
    Threads,        \* threads sharing the Storage
    Files,          \* content-addressed file names
    Rollbackers,    \* threads that call rollback on another's transaction
    MaxLevel,       \* bound: scopes a thread nests
    MaxBegins,      \* bound: scopes a thread ever opens
    NoThread,
    NoFile

ASSUME NoThreadAssumption == NoThread \notin Threads
ASSUME NoFileAssumption == NoFile \notin Files
ASSUME BoundsAssumption == MaxLevel \in Nat /\ MaxBegins \in Nat

VARIABLES
    depth,      \* _execution_transaction_depth
    owner,      \* _execution_transaction_owner
    open,       \* conn.in_transaction
    pending,    \* rows of SQLite's open transaction
    durable,    \* rows SQLite has committed
    journal,    \* _execution_created_paths
    disk,       \* files that exist under the download root
    kept,       \* history: files no rollback may remove any more
    client      \* thread -> where it stands

vars == <<depth, owner, open, pending, durable, journal, disk, kept, client>>

Items == Files \union {NoFile}
Rows == Threads \X Items

\* step: running, or inside condition.wait(); level: scopes entered; live: its
\* innermost scope still does the work it was opened for; doc: the file in
\* hand; stage: nothing in hand, linked and not handed over, or ready for its
\* row; or failed, when the thread has rolled back and the exception is on its
\* way through the enclosing scopes.
Idle(begun) ==
    [step |-> "run", level |-> 0, live |-> FALSE, doc |-> NoFile,
     stage |-> "none", begun |-> begun]

Init ==
    /\ depth = 0
    /\ owner = NoThread
    /\ open = FALSE
    /\ pending = {}
    /\ durable = {}
    /\ journal = {}
    /\ disk \in SUBSET Files
    /\ kept = disk
    /\ client = [t \in Threads |-> Idle(0)]

\* The wait condition every public method shares.
MayEnter(t) == depth = 0 \/ owner = t

Runs(t) == client[t].step = "run"

\* Fault: nobody is notified.
WokenNobody(c) == c

\* notify_all(): every thread waiting on the condition runs again.
Woken(c) == [t \in Threads |-> [c[t] EXCEPT !.step = "run"]]

RowOf(t) == <<t, client[t].doc>>

\* The document in hand is done with, or given up.
EmptyHanded(c, t) == [c EXCEPT ![t].doc = NoFile, ![t].stage = "none"]

\* t leaves scopes until `level` are left.
Unwound(c, t, level) ==
    [EmptyHanded(c, t) EXCEPT ![t].level = level, ![t].live = FALSE]

\* t's own file, linked and not yet handed to the journal: the publisher
\* removes it when an exception passes.
InHand(t) == IF client[t].stage = "linked" THEN {client[t].doc} ELSE {}

\* An exception passes out of t's innermost scope, to the enclosing one if
\* there is one.
Thrown(t) ==
    [Unwound(client, t, client[t].level - 1) EXCEPT
        ![t].stage = IF client[t].level > 1 THEN "failed" ELSE "none"]

\* t comes to the commit of its innermost scope: its work is done, or it is
\* the bootstrap workflow, which has recorded the failure of its one target
\* and written nothing since.
AtEnd(t) ==
    /\ client[t].level > 0
    /\ \/ client[t].stage = "none"
       \/ client[t].stage = "failed" /\ client[t].level = 1 /\ depth = 0

-----------------------------------------------------------------------------
\* A public method called while another thread owns the transaction.
Block(t) ==
    /\ Runs(t)
    /\ ~MayEnter(t)
    /\ client' = [client EXCEPT ![t].step = "waiting"]
    /\ UNCHANGED <<depth, owner, open, pending, durable, journal, disk, kept>>

\* begin_execution_transaction.  BEGIN IMMEDIATE raises, and changes nothing,
\* while the transaction of a failed autocommit is still open.
Begin(t) ==
    /\ Runs(t)
    /\ MayEnter(t)
    /\ client[t].stage = "none"
    /\ client[t].level < MaxLevel
    /\ client[t].begun < MaxBegins
    /\ depth = 0 => ~open
    /\ depth' = depth + 1
    /\ owner' = t
    /\ open' = TRUE
    /\ client' = [client EXCEPT ![t].level = @ + 1, ![t].live = TRUE,
                                ![t].begun = @ + 1]
    /\ UNCHANGED <<pending, durable, journal, disk, kept>>

\* Fault: a reused file is journaled as if it had been created.
PublishOwningReused(t, f) ==
    /\ Runs(t)
    /\ client[t].live
    /\ client[t].stage = "none"
    /\ disk' = disk \union {f}
    /\ client' = [client EXCEPT ![t].doc = f, ![t].stage = "linked"]
    /\ UNCHANGED <<depth, owner, open, pending, durable, journal, kept>>

\* _publish_governed_blob: a file already there is validated and reused; else
\* os.link puts it there, under no lock.
Publish(t, f) ==
    /\ Runs(t)
    /\ client[t].live
    /\ client[t].stage = "none"
    /\ disk' = disk \union {f}
    /\ client' = [client EXCEPT
                    ![t].doc = f,
                    ![t].stage = IF f \in disk THEN "ready" ELSE "linked"]
    /\ UNCHANGED <<depth, owner, open, pending, durable, journal, kept>>

\* register_execution_created_path: outside a transaction it returns early.
Register(t) ==
    /\ Runs(t)
    /\ client[t].stage = "linked"
    /\ MayEnter(t)
    /\ IF depth > 0
       THEN journal' = journal \union {client[t].doc} /\ UNCHANGED kept
       ELSE kept' = kept \union {client[t].doc} /\ UNCHANGED journal
    /\ client' = [client EXCEPT ![t].stage = "ready"]
    /\ UNCHANGED <<depth, owner, open, pending, durable, disk>>

\* Fault: the writer does not take its turn.
WriteUnserialized(t) ==
    /\ Runs(t)
    /\ client[t].stage \in {"none", "ready"}
    /\ IF depth > 0
       THEN /\ pending' = pending \union {RowOf(t)}
            /\ UNCHANGED <<open, durable>>
       ELSE /\ durable' = durable \union pending \union {RowOf(t)}
            /\ pending' = {}
            /\ open' = FALSE
    /\ client' = EmptyHanded(client, t)
    /\ UNCHANGED <<depth, owner, journal, disk, kept>>

\* A public writer such as add_document: its _commit() commits only outside
\* a transaction, with whatever an earlier failed write left open.
Write(t) ==
    /\ Runs(t)
    /\ client[t].stage \in {"none", "ready"}
    /\ MayEnter(t)
    /\ IF depth > 0
       THEN /\ pending' = pending \union {RowOf(t)}
            /\ UNCHANGED <<open, durable>>
       ELSE /\ durable' = durable \union pending \union {RowOf(t)}
            /\ pending' = {}
            /\ open' = FALSE
    /\ client' = EmptyHanded(client, t)
    /\ UNCHANGED <<depth, owner, journal, disk, kept>>

\* The writer raises and its caller goes on.  Inside a transaction the row is
\* missing; outside, the implicit transaction stays open, with the row if it
\* was the commit that failed.
WriteFails(t) ==
    /\ Runs(t)
    /\ client[t].stage \in {"none", "ready"}
    /\ MayEnter(t)
    /\ \/ UNCHANGED pending
       \/ depth = 0 /\ pending' = pending \union {RowOf(t)}
    /\ open' = TRUE
    /\ client' = EmptyHanded(client, t)
    /\ UNCHANGED <<depth, owner, durable, journal, disk, kept>>

\* The transaction is over and its files stay.
Released ==
    /\ depth' = 0
    /\ owner' = NoThread
    /\ open' = FALSE
    /\ pending' = {}
    /\ kept' = kept \union journal
    /\ journal' = {}

\* Fault: the commit of a nested scope reaches SQLite.
CommitNested(t) ==
    /\ Runs(t)
    /\ AtEnd(t)
    /\ MayEnter(t)
    /\ depth > 0
    /\ depth' = depth - 1
    /\ owner' = IF depth = 1 THEN NoThread ELSE owner
    /\ open' = FALSE
    /\ durable' = durable \union pending
    /\ pending' = {}
    /\ kept' = kept \union journal
    /\ journal' = {}
    /\ client' = Woken(Unwound(client, t, client[t].level - 1))
    /\ UNCHANGED disk

\* Fault: a commit with no transaction counts down all the same.
CommitUncounted(t) ==
    /\ Runs(t)
    /\ AtEnd(t)
    /\ depth = 0
    /\ depth' = depth - 1
    /\ client' = Unwound(client, t, client[t].level - 1)
    /\ UNCHANGED <<owner, open, pending, durable, journal, disk, kept>>

\* commit_execution_transaction.
Commit(t) ==
    /\ Runs(t)
    /\ AtEnd(t)
    /\ MayEnter(t)
    /\ LET after == Unwound(client, t, client[t].level - 1)
       IN  IF depth = 1
           THEN /\ Released
                /\ durable' = durable \union pending
                /\ client' = Woken(after)
           ELSE /\ depth' = IF depth = 0 THEN 0 ELSE depth - 1
                /\ client' = after
                /\ UNCHANGED <<owner, open, pending, durable, journal, kept>>
    /\ UNCHANGED disk

\* Fault: only SQLite rolls back, the published files stay.
RolledBackRowsOnly(t) ==
    /\ depth' = 0
    /\ owner' = NoThread
    /\ open' = FALSE
    /\ pending' = {}
    /\ journal' = {}
    /\ UNCHANGED <<durable, disk, kept>>

\* rollback_execution_transaction called by t.
RolledBack(t) ==
    /\ depth' = 0
    /\ owner' = NoThread
    /\ open' = FALSE
    /\ pending' = {}
    /\ disk' = disk \ (journal \union InHand(t))
    /\ journal' = {}
    /\ UNCHANGED <<durable, kept>>

\* The outermost conn.commit() raises.  With the transaction still pending it
\* is rolled back, files included.  Otherwise SQLite has ended it one way or
\* the other, and the files are kept.
CommitRaises(t) ==
    /\ Runs(t)
    /\ AtEnd(t)
    /\ depth = 1 /\ owner = t
    /\ \/ RolledBack(t)
       \/ /\ Released
          /\ durable' \in {durable, durable \union pending}
          /\ UNCHANGED disk
    /\ client' = Woken(Thrown(t))

\* A scope ends by an exception and its owner rolls everything back.  The
\* exception goes on through the enclosing scopes: each finds that the thread
\* owns nothing any more (Leave), or, in the bootstrap workflow, takes it for
\* the failure of the one target and commits nothing (Commit).
Abort(t) ==
    /\ Runs(t)
    /\ owner = t
    /\ RolledBack(t)
    /\ client' = Woken(Thrown(t))

\* Fault: the transaction is given up and its rows stay in SQLite's.
HandOffKeepingRows(t) ==
    /\ t \in Rollbackers
    /\ Runs(t)
    /\ ~MayEnter(t)
    /\ depth' = 0
    /\ owner' = NoThread
    /\ journal' = {}
    /\ client' = Woken(client)
    /\ UNCHANGED <<open, pending, durable, disk, kept>>

\* rollback_execution_transaction is the one method that does not wait.
HandOff(t) ==
    /\ t \in Rollbackers
    /\ Runs(t)
    /\ client[t].level = 0
    /\ ~MayEnter(t)
    /\ RolledBack(t)
    /\ client' = Woken(client)

\* Fault: the thread does not ask, and rolls back whatever there is.
LeaveRollingBack(t) ==
    /\ Runs(t)
    /\ client[t].level > 0
    /\ RolledBack(t)
    /\ client' = Woken(Unwound(client, t, 0))

\* A scope ends by an exception in a thread that owns nothing: it asks first
\* and leaves the transaction alone.
Leave(t) ==
    /\ Runs(t)
    /\ client[t].level > 0
    /\ owner # t
    /\ client[t].stage = "linked" => MayEnter(t)
    /\ disk' = disk \ InHand(t)
    /\ client' = Unwound(client, t, 0)
    /\ UNCHANGED <<depth, owner, open, pending, durable, journal, kept>>

\* The process dies and starts again on the same database and directory.
Crash ==
    /\ depth' = 0
    /\ owner' = NoThread
    /\ open' = FALSE
    /\ pending' = {}
    /\ journal' = {}
    /\ kept' = disk
    /\ client' = [t \in Threads |-> Idle(client[t].begun)]
    /\ UNCHANGED <<durable, disk>>

Next ==
    \/ \E t \in Threads :
           \/ Block(t) \/ Begin(t) \/ Register(t) \/ Write(t) \/ WriteFails(t)
           \/ Commit(t) \/ CommitRaises(t) \/ Abort(t)
           \/ HandOff(t) \/ Leave(t)
    \/ \E t \in Threads, f \in Files : Publish(t, f)
    \/ Crash

Spec == Init /\ [][Next]_vars

\* A crawl visits finitely many pages: a thread keeps working and, reaching
\* the end of a scope again and again, ends it.
Fairness ==
    \A t \in Threads :
        /\ WF_vars(Register(t))
        /\ WF_vars(Write(t))
        /\ SF_vars(Commit(t))

FairSpec == Spec /\ Fairness
-----------------------------------------------------------------------------
Client ==
    [step: {"run", "waiting"}, level: 0 .. MaxLevel, live: BOOLEAN,
     doc: Items, stage: {"none", "linked", "ready", "failed"},
     begun: 0 .. MaxBegins]

\* Types and ranges, the range of the depth among them: no commit counts it
\* below zero (storage.py:151-158), also the one that finds no transaction.
TypeOK ==
    /\ depth \in 0 .. MaxLevel
    /\ owner \in Threads \union {NoThread}
    /\ open \in BOOLEAN
    /\ pending \in SUBSET Rows
    /\ durable \in SUBSET Rows
    /\ journal \in SUBSET Files
    /\ disk \in SUBSET Files
    /\ kept \in SUBSET Files
    /\ client \in [Threads -> Client]

\* SQLite's one connection is shared, so only the turn-taking of the wrapper
\* (storage.py:55-69) keeps a writer's row out of another thread's
\* transaction: whatever is pending while a transaction is owned was written
\* by its owner, who is still inside as many scopes as the depth counts.
NoForeignWriteJoins ==
    depth > 0 =>
        /\ owner \in Threads
        /\ open
        /\ client[owner].level >= depth
        /\ \A row \in pending : row[1] = owner

\* No lost wake-up: once no transaction is owned, nobody is left waiting on
\* the condition; every way out of a transaction notifies
\* (storage.py:181, 189, 1462).
NoWaiterWhenFree == depth = 0 => \A t \in Threads : Runs(t)

\* A committed row never names a file that a rollback, its own thread's or
\* another's, has removed: a reused file is never journaled and a journaled
\* one is released before its row is durable (storage.py:184-187, 1421-1437;
\* tree_crawler.py:1336-1361).
CommittedFilesSurvive ==
    \A row \in durable : row[2] # NoFile => row[2] \in disk

\* A file that no commit, crash or publication outside a transaction has made
\* permanent is either journaled or still in its publisher's hands, so that
\* the exception that ends the scope can remove it (document.py:40-80).
NoOrphanFiles ==
    disk \subseteq kept \union journal \union UNION {InHand(t) : t \in Threads}

\* A transaction ends only by its owner's own step out of a scope, or with
\* the process: a failing thread that owns nothing asks before it rolls back
\* (agentic_orchestration.py:6293-6299; immutable_artifacts.py:408-413).
EndedByOwner ==
    [][\A t \in Threads :
           owner = t /\ owner' # t => client'[t].level < client[t].level]_vars

\* begin_execution_transaction's docstring (storage.py:138), "Defer all
\* execution writes until the governed traversal succeeds": no row of a thread
\* becomes durable while that thread is still inside a scope, neither by a
\* nested commit nor one by one after a rollback has ended the transaction.
WritesDeferred ==
    [][\A t \in Threads :
           client[t].level > 0 /\ client'[t].level > 0 =>
               \A row \in durable' \ durable : row[1] # t]_vars

\* A thread waiting for its turn gets one: the owner's scopes end and the end
\* wakes it (storage.py:61-68).
EveryWaiterWakes == \A t \in Threads : ~Runs(t) ~> Runs(t)

\* The whole machinery implements one atomic unit of work per owner.
Units ==
    INSTANCE UnitOfWork WITH
        busy <- [t \in Threads |-> owner = t],
        unit <- [t \in Threads |-> IF owner = t THEN pending ELSE {}],
        loose <- IF depth = 0 THEN pending ELSE {}

\* Refinement of UnitOfWork: rows become durable a whole unit at a time, from
\* one owner, never from a nested scope alone.
ImplementsUnits == Units!Spec
=============================================================================
