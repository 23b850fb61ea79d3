---------------------- MODULE StorageTransactionProofs ----------------------
(***************************************************************************)
(* Proofs about StorageTransaction for every set of threads and files and  *)
(* every nesting: the invariant behind its safety properties, what holds   *)
(* besides where no thread rolls another's transaction back, and that it   *)
(* implements UnitOfWork.                                                  *)
(***************************************************************************)
EXTENDS StorageTransaction, TLAPS

\* Whoever owns the transaction keeps SQLite's open, is inside at least as
\* many scopes as are counted, and wrote all of it; only others wait.
Turn ==
    /\ depth = 0 <=> owner = NoThread
    /\ depth > 0 => open /\ client[owner].level >= depth
    /\ depth > 0 => \A row \in pending : row[1] = owner
    /\ depth = 0 => journal = {}
    /\ pending # {} => open
    /\ \A t \in Threads : ~Runs(t) => depth > 0 /\ owner # t

\* A document is in hand only in a live scope, and one that is linked and not
\* yet handed over belongs to one thread and to neither journal nor kept.
Hands ==
    \A t \in Threads :
        /\ client[t].stage \in {"linked", "ready"} => client[t].live
        /\ client[t].live => client[t].level > 0
        /\ client[t].stage \in {"none", "failed"} => client[t].doc = NoFile
        /\ client[t].stage = "linked" =>
               client[t].doc \in disk \ (kept \union journal)
        /\ \A u \in Threads :
               (client[t].stage = "linked" /\ client[u].stage = "linked"
                   /\ client[t].doc = client[u].doc) => t = u

Journaled ==
    /\ journal \subseteq disk
    /\ kept \subseteq disk
    /\ journal \cap kept = {}

\* NoOrphanFiles, file by file.
Accounted ==
    \A f \in disk :
        \/ f \in kept \union journal
        \/ \E t \in Threads : client[t].stage = "linked" /\ client[t].doc = f

Inv == TypeOK /\ Turn /\ Hands /\ Journaled /\ Accounted

\* Where nobody rolls back for others, a live scope still has its transaction,
\* so the files its rows name are kept or its own to keep.
Unshared ==
    /\ \A t \in Threads : client[t].live => owner = t
    /\ \A t \in Threads :
           client[t].stage = "ready" => client[t].doc \in kept \union journal
    /\ \A row \in durable : row[2] # NoFile => row[2] \in kept
    /\ \A row \in pending : row[2] # NoFile => row[2] \in kept \union journal

\* And a thread still at work in a scope owns the transaction, in as many
\* scopes as are counted; rows that wait outside a transaction are of threads
\* that are in no scope.
Scoped ==
    /\ \A t \in Threads :
           client[t].level > 0 /\ client[t].stage # "failed" => owner = t
    /\ \A t \in Threads :
           owner = t => client[t].level = depth /\ client[t].stage # "failed"
    /\ depth = 0 => \A row \in pending : client[row[1]].level = 0

-----------------------------------------------------------------------------
(* How a step changes what the threads hold.                               *)

\* u stands where it stood, whether or not a notification woke it up.
Stays(u) ==
    /\ client'[u].level = client[u].level
    /\ client'[u].live = client[u].live
    /\ client'[u].doc = client[u].doc
    /\ client'[u].stage = client[u].stage

\* u holds nothing and its scope's work is over.
Emptied(u) ==
    /\ client'[u].doc = NoFile
    /\ client'[u].stage \in {"none", "failed"}
    /\ ~client'[u].live

LEMMA RecordFact ==
    ASSUME NEW c \in [Threads -> Client], NEW t \in Threads
    PROVE  /\ c[t].step \in {"run", "waiting"}
           /\ c[t].level \in 0 .. MaxLevel
           /\ c[t].live \in BOOLEAN
           /\ c[t].doc \in Items
           /\ c[t].stage \in {"none", "linked", "ready", "failed"}
           /\ c[t].begun \in 0 .. MaxBegins
<1> c[t] \in Client  OBVIOUS
<1> QED BY DEF Client

LEMMA EmptyHandedFact ==
    ASSUME NEW c \in [Threads -> Client], NEW t \in Threads
    PROVE  LET e == EmptyHanded(c, t)
           IN  /\ e \in [Threads -> Client]
               /\ \A u \in Threads : u # t => e[u] = c[u]
               /\ e[t].doc = NoFile /\ e[t].stage = "none"
               /\ e[t].live = c[t].live /\ e[t].level = c[t].level
               /\ e[t].step = c[t].step
<1> DEFINE r == [c[t] EXCEPT !.doc = NoFile, !.stage = "none"]
<1>1. NoFile \in Items  BY DEF Items
<1>2. c[t] \in Client  OBVIOUS
<1>3. r \in Client  BY <1>1, <1>2 DEF Client
<1>4. EmptyHanded(c, t) = [c EXCEPT ![t] = r]
  BY <1>2 DEF EmptyHanded, Client
<1>5. /\ r.doc = NoFile /\ r.stage = "none" /\ r.live = c[t].live
      /\ r.level = c[t].level /\ r.step = c[t].step
  BY <1>2 DEF Client
<1> HIDE DEF r
<1> QED BY <1>3, <1>4, <1>5

LEMMA UnwoundFact ==
    ASSUME NEW c \in [Threads -> Client], NEW t \in Threads,
           NEW level \in 0 .. MaxLevel
    PROVE  /\ Unwound(c, t, level) \in [Threads -> Client]
           /\ \A u \in Threads : u # t => Unwound(c, t, level)[u] = c[u]
           /\ Unwound(c, t, level)[t].doc = NoFile
           /\ Unwound(c, t, level)[t].stage = "none"
           /\ ~Unwound(c, t, level)[t].live
           /\ Unwound(c, t, level)[t].level = level
           /\ Unwound(c, t, level)[t].step = c[t].step
<1> DEFINE e == EmptyHanded(c, t)
           r == [e[t] EXCEPT !.level = level, !.live = FALSE]
<1>1. /\ e \in [Threads -> Client]
      /\ \A u \in Threads : u # t => e[u] = c[u]
      /\ e[t].doc = NoFile /\ e[t].stage = "none"
      /\ e[t].step = c[t].step
  BY EmptyHandedFact
<1>2. Unwound(c, t, level) =
          [e EXCEPT ![t].level = level, ![t].live = FALSE]
  BY DEF Unwound
<1> HIDE DEF e
<1>3. e[t] \in Client  BY <1>1
<1>4. Unwound(c, t, level) = [e EXCEPT ![t] = r]
  BY <1>1, <1>2, <1>3 DEF Client
<1>5. r \in Client  BY <1>3 DEF Client
<1>6. /\ r.doc = e[t].doc /\ r.stage = e[t].stage /\ ~r.live
      /\ r.level = level /\ r.step = e[t].step
  BY <1>3 DEF Client
<1> HIDE DEF r
<1> QED BY <1>1, <1>4, <1>5, <1>6

LEMMA WokenFact ==
    ASSUME NEW c \in [Threads -> Client]
    PROVE  LET w == Woken(c)
           IN  /\ w \in [Threads -> Client]
               /\ \A u \in Threads :
                     /\ w[u].step = "run"
                     /\ w[u].level = c[u].level /\ w[u].live = c[u].live
                     /\ w[u].doc = c[u].doc /\ w[u].stage = c[u].stage
<1>1. \A u \in Threads : c[u] \in Client  OBVIOUS
<1>2. \A u \in Threads :
          LET r == [c[u] EXCEPT !.step = "run"]
          IN  /\ r \in Client
              /\ r.step = "run" /\ r.level = c[u].level /\ r.live = c[u].live
              /\ r.doc = c[u].doc /\ r.stage = c[u].stage
  BY <1>1 DEF Client
<1>3. Woken(c) = [u \in Threads |-> [c[u] EXCEPT !.step = "run"]]
  BY DEF Woken
<1> QED BY <1>2, <1>3

\* Leaving scopes and being notified, together.
LEMMA LeftAndWoken ==
    ASSUME TypeOK, NEW t \in Threads, NEW level \in 0 .. MaxLevel,
           client' = Woken(Unwound(client, t, level))
    PROVE  /\ client' \in [Threads -> Client]
           /\ \A u \in Threads : client'[u].step = "run"
           /\ \A u \in Threads : u # t => Stays(u)
           /\ Emptied(t)
           /\ client'[t].level = level
<1> DEFINE c == Unwound(client, t, level)
<1>1. client \in [Threads -> Client]  BY DEF TypeOK
<1>2. /\ c \in [Threads -> Client]
      /\ \A u \in Threads : u # t => c[u] = client[u]
      /\ c[t].doc = NoFile /\ c[t].stage = "none"
      /\ ~c[t].live /\ c[t].level = level
  BY <1>1, UnwoundFact
<1>3. client' = Woken(c)  OBVIOUS
<1> HIDE DEF c
<1> QED BY <1>2, <1>3, WokenFact DEF Stays, Emptied

\* An exception out of a scope, and the notification.
LEMMA ThrownAndWoken ==
    ASSUME TypeOK, NEW t \in Threads, client[t].level > 0,
           client' = Woken(Thrown(t))
    PROVE  /\ client' \in [Threads -> Client]
           /\ \A u \in Threads : client'[u].step = "run"
           /\ \A u \in Threads : u # t => Stays(u)
           /\ Emptied(t)
           /\ client'[t].level = client[t].level - 1
           /\ client'[t].stage = IF client[t].level > 1 THEN "failed"
                                 ELSE "none"
<1> DEFINE level == client[t].level - 1
           c == Unwound(client, t, level)
           s == IF client[t].level > 1 THEN "failed" ELSE "none"
           r == [c[t] EXCEPT !.stage = s]
<1>1. /\ client \in [Threads -> Client]
      /\ client[t].level \in 0 .. MaxLevel
  BY RecordFact DEF TypeOK
<1>2. level \in 0 .. MaxLevel  BY <1>1, BoundsAssumption
<1>3. /\ c \in [Threads -> Client]
      /\ \A u \in Threads : u # t => c[u] = client[u]
      /\ c[t].doc = NoFile /\ ~c[t].live /\ c[t].level = level
  <2> HIDE DEF level
  <2> QED BY <1>1, <1>2, UnwoundFact
<1>4. Thrown(t) = [c EXCEPT ![t].stage = s]  BY DEF Thrown
<1> HIDE DEF c
<1>5. c[t] \in Client  BY <1>3
<1>6. Thrown(t) = [c EXCEPT ![t] = r]  BY <1>3, <1>4
<1>7. r \in Client  BY <1>5 DEF Client
<1>8. /\ r.doc = c[t].doc /\ r.stage = s /\ r.live = c[t].live
      /\ r.level = c[t].level
  BY <1>5 DEF Client
<1> HIDE DEF r, level
<1>9. /\ Thrown(t) \in [Threads -> Client]
      /\ \A u \in Threads : u # t => Thrown(t)[u] = client[u]
      /\ Thrown(t)[t].doc = NoFile /\ Thrown(t)[t].stage = s
      /\ ~Thrown(t)[t].live /\ Thrown(t)[t].level = level
  BY <1>3, <1>6, <1>7, <1>8
<1> DEFINE d == Thrown(t)
<1>10. client' = Woken(d) /\ s \in {"none", "failed"}  OBVIOUS
<1> HIDE DEF d, s
<1>11. /\ client' \in [Threads -> Client]
       /\ \A u \in Threads :
              /\ client'[u].step = "run"
              /\ client'[u].level = d[u].level /\ client'[u].live = d[u].live
              /\ client'[u].doc = d[u].doc /\ client'[u].stage = d[u].stage
  BY <1>9, <1>10, WokenFact DEF d
<1> QED BY <1>9, <1>10, <1>11 DEF d, Stays, Emptied, level, s

-----------------------------------------------------------------------------
(* The invariant holds at first and survives each action.                  *)

LEMMA InitInv ==
    ASSUME Init
    PROVE  Inv
<1>1. \A t \in Threads : client[t] = Idle(0)  BY DEF Init
<1>2. Idle(0) \in Client  BY BoundsAssumption DEF Idle, Client, Items
<1>3. TypeOK
  <2>1. client \in [Threads -> Client]
    <3> HIDE DEF Client
    <3> QED BY <1>2 DEF Init
  <2>2. 0 \in 0 .. MaxLevel  BY BoundsAssumption
  <2> QED BY <2>1, <2>2 DEF Init, TypeOK
<1>4. \A t \in Threads :
          /\ client[t].step = "run" /\ client[t].stage = "none"
          /\ client[t].doc = NoFile /\ ~client[t].live
  BY <1>1 DEF Idle
<1>5. Turn  BY <1>4 DEF Init, Turn, Runs
<1>6. Hands  BY <1>4 DEF Hands
<1>7. Journaled  BY DEF Init, Journaled
<1>8. Accounted  BY DEF Init, Accounted
<1> QED BY <1>3, <1>5, <1>6, <1>7, <1>8 DEF Inv

LEMMA BlockInv ==
    ASSUME Inv, NEW t \in Threads, Block(t)
    PROVE  Inv'
<1> USE DEF Inv
<1>1. client[t] \in Client /\ client \in [Threads -> Client]  BY DEF TypeOK
<1>2. [client[t] EXCEPT !.step = "waiting"] \in Client  BY <1>1 DEF Client
<1>3. client' = [client EXCEPT ![t] = [client[t] EXCEPT !.step = "waiting"]]
  BY DEF Block
<1>4. /\ client' \in [Threads -> Client]
      /\ \A u \in Threads : u # t => client'[u] = client[u]
      /\ Stays(t)
  BY <1>1, <1>2, <1>3 DEF Client, Stays
<1>5. TypeOK'  BY <1>4 DEF TypeOK, Block
<1>6. \A u \in Threads : Stays(u)  BY <1>4 DEF Stays
<1>7. depth # 0 /\ owner # t  BY DEF Block, MayEnter
<1>8. Turn'
  <2>1. depth \in Nat /\ depth > 0  BY <1>7, BoundsAssumption DEF TypeOK
  <2>2. owner \in Threads  BY <2>1 DEF TypeOK, Turn
  <2> QED BY <1>4, <1>6, <1>7, <2>1, <2>2 DEF Turn, Runs, Block, Stays
<1>9. Hands'  BY <1>6 DEF Hands, Block, Stays
<1>10. Journaled'  BY DEF Journaled, Block
<1>11. Accounted'  BY <1>6 DEF Accounted, Block, Stays
<1> QED BY <1>5, <1>8, <1>9, <1>10, <1>11

LEMMA BeginInv ==
    ASSUME Inv, NEW t \in Threads, Begin(t)
    PROVE  Inv'
<1> USE DEF Inv
<1> DEFINE r == [client[t] EXCEPT !.level = @ + 1, !.live = TRUE,
                                  !.begun = @ + 1]
<1>1. client[t] \in Client /\ client \in [Threads -> Client]  BY DEF TypeOK
<1>2. /\ client[t].level \in 0 .. MaxLevel /\ client[t].level < MaxLevel
      /\ client[t].begun \in 0 .. MaxBegins /\ client[t].begun < MaxBegins
      /\ client[t].stage = "none" /\ client[t].step = "run"
  BY <1>1 DEF Begin, Client, Runs
<1>3. r \in Client
  <2>1. /\ client[t].level + 1 \in 0 .. MaxLevel
        /\ client[t].begun + 1 \in 0 .. MaxBegins
    BY <1>2, BoundsAssumption
  <2> QED BY <1>1, <2>1 DEF Client
<1>4. client' = [client EXCEPT ![t] = r]  BY <1>1 DEF Begin
<1>5. /\ r.level = client[t].level + 1 /\ r.live
      /\ r.doc = client[t].doc /\ r.stage = "none" /\ r.step = "run"
  BY <1>1, <1>2 DEF Client
<1> HIDE DEF r
<1>6. /\ client' \in [Threads -> Client]
      /\ \A u \in Threads : u # t => client'[u] = client[u]
      /\ client'[t].level = client[t].level + 1 /\ client'[t].live
      /\ client'[t].doc = client[t].doc
      /\ client'[t].stage = "none" /\ client'[t].step = "run"
  BY <1>1, <1>3, <1>4, <1>5
<1>7. depth \in 0 .. MaxLevel /\ (depth = 0 \/ owner = t)
  BY DEF Begin, MayEnter, TypeOK
<1>8. depth <= client[t].level
  <2>1. CASE depth = 0  BY <1>2, <2>1, BoundsAssumption
  <2>2. CASE depth # 0
    <3>1. depth > 0 /\ owner = t  BY <1>7, <2>2, BoundsAssumption
    <3> QED BY <1>2, <1>7, <3>1, BoundsAssumption DEF Turn
  <2> QED BY <2>1, <2>2
<1>9. depth' \in 0 .. MaxLevel /\ depth' > 0 /\ depth' <= client'[t].level
  BY <1>2, <1>6, <1>7, <1>8, BoundsAssumption DEF Begin
<1>10. TypeOK'  BY <1>6, <1>9 DEF TypeOK, Begin
<1>11. Turn'
  <2>1. owner' = t /\ open' /\ pending' = pending /\ journal' = journal
    BY DEF Begin
  <2>2. \A row \in pending : row[1] = t
    <3>1. CASE depth = 0  BY <3>1 DEF Begin, Turn
    <3>2. CASE depth # 0  BY <1>7, <3>2, BoundsAssumption DEF Turn
    <3> QED BY <3>1, <3>2
  <2>3. \A u \in Threads : client'[u].step # "run" => u # t
    BY <1>6
  <2> QED BY <1>9, <2>1, <2>2, <2>3, NoThreadAssumption, BoundsAssumption
          DEF Turn, Runs
<1>12. Hands'
  <2>1. client'[t].level > 0  BY <1>2, <1>6
  <2> QED BY <1>2, <1>6, <2>1 DEF Hands, Begin
<1>13. Journaled'  BY DEF Journaled, Begin
<1>14. Accounted'
  BY <1>2, <1>6 DEF Accounted, Begin
<1> QED BY <1>10, <1>11, <1>12, <1>13, <1>14

LEMMA PublishInv ==
    ASSUME Inv, NEW t \in Threads, NEW f \in Files, Publish(t, f)
    PROVE  Inv'
<1> USE DEF Inv
<1> DEFINE s == IF f \in disk THEN "ready" ELSE "linked"
           r == [client[t] EXCEPT !.doc = f, !.stage = s]
<1>1. client[t] \in Client /\ client \in [Threads -> Client]  BY DEF TypeOK
<1>2. r \in Client  BY <1>1 DEF Client, Items
<1>3. client' = [client EXCEPT ![t] = r]  BY <1>1 DEF Publish
<1>4. /\ r.doc = f /\ r.stage = s /\ r.step = client[t].step
      /\ r.live = client[t].live /\ r.level = client[t].level
  BY <1>1 DEF Client
<1> HIDE DEF r
<1>5. /\ client' \in [Threads -> Client]
      /\ \A u \in Threads : u # t => client'[u] = client[u]
      /\ client'[t].doc = f /\ client'[t].stage = s
      /\ client'[t].step = client[t].step
      /\ client'[t].live = client[t].live
      /\ client'[t].level = client[t].level
  BY <1>1, <1>2, <1>3, <1>4
<1>6. client[t].live /\ client[t].stage = "none" /\ disk' = disk \union {f}
  BY DEF Publish
<1>7. TypeOK'  BY <1>5 DEF TypeOK, Publish
<1>8. Turn'
  <2>1. \A u \in Threads : client'[u].level = client[u].level
                           /\ client'[u].step = client[u].step
    BY <1>5
  <2>2. depth > 0 => owner \in Threads
    BY BoundsAssumption DEF TypeOK, Turn
  <2> QED BY <2>1, <2>2 DEF Turn, Runs, Publish
<1>9. Hands'  BY <1>5, <1>6, NoFileAssumption DEF Hands, Publish, Journaled
<1>10. Journaled'  BY DEF Journaled, Publish
<1>11. Accounted'  BY <1>5, <1>6 DEF Accounted, Publish
<1> QED BY <1>7, <1>8, <1>9, <1>10, <1>11

LEMMA RegisterInv ==
    ASSUME Inv, NEW t \in Threads, Register(t)
    PROVE  Inv'
<1> USE DEF Inv
<1> DEFINE f == client[t].doc
           r == [client[t] EXCEPT !.stage = "ready"]
<1>1. client[t] \in Client /\ client \in [Threads -> Client]  BY DEF TypeOK
<1>2. r \in Client  BY <1>1 DEF Client
<1>3. client' = [client EXCEPT ![t] = r]  BY <1>1 DEF Register
<1>4. /\ r.doc = f /\ r.stage = "ready" /\ r.step = client[t].step
      /\ r.live = client[t].live /\ r.level = client[t].level
  BY <1>1 DEF Client
<1> HIDE DEF r
<1>5. /\ client' \in [Threads -> Client]
      /\ \A u \in Threads : u # t => client'[u] = client[u]
      /\ client'[t].doc = f /\ client'[t].stage = "ready"
      /\ client'[t].step = client[t].step
      /\ client'[t].live = client[t].live
      /\ client'[t].level = client[t].level
  BY <1>1, <1>2, <1>3, <1>4
<1>6. client[t].stage = "linked" /\ f \in disk \ (kept \union journal)
  BY DEF Register, Hands
<1>7. disk \subseteq Files  BY DEF TypeOK
<1>8. \/ depth > 0 /\ journal' = journal \union {f} /\ kept' = kept
      \/ depth = 0 /\ journal' = journal /\ kept' = kept \union {f}
  BY BoundsAssumption DEF Register, TypeOK
<1>9. kept' \union journal' = kept \union journal \union {f}  BY <1>8
<1>10. TypeOK'
  <2>1. journal' \in SUBSET Files /\ kept' \in SUBSET Files
    BY <1>6, <1>7, <1>8 DEF TypeOK
  <2> QED BY <1>5, <2>1 DEF TypeOK, Register
<1>11. Turn'
  <2>1. \A u \in Threads : client'[u].level = client[u].level
                           /\ client'[u].step = client[u].step
    BY <1>5
  <2>2. depth > 0 => owner \in Threads
    BY BoundsAssumption DEF TypeOK, Turn
  <2>3. depth = 0 => journal' = journal  BY <1>8
  <2> HIDE DEF f
  <2> QED BY <2>1, <2>2, <2>3 DEF Turn, Runs, Register
<1>12. Hands'
  <2>1. disk' = disk  BY DEF Register
  <2> QED BY <1>5, <1>6, <1>9, <2>1 DEF Hands
<1>13. Journaled'  BY <1>6, <1>8 DEF Journaled, Register
<1>14. Accounted'
  <2>1. disk' = disk  BY DEF Register
  <2> QED BY <1>5, <1>9, <2>1 DEF Accounted
<1> QED BY <1>10, <1>11, <1>12, <1>13, <1>14

\* Handing over or giving up what t held; t held no linked file.
LEMMA HandedOverInv ==
    ASSUME Inv, NEW t \in Threads,
           client' = EmptyHanded(client, t), client[t].stage # "linked",
           UNCHANGED <<disk, kept, journal>>
    PROVE  /\ client' \in [Threads -> Client]
           /\ \A u \in Threads : /\ client'[u].level = client[u].level
                                 /\ client'[u].step = client[u].step
           /\ Hands' /\ Journaled' /\ Accounted'
<1> USE DEF Inv
<1>1. client \in [Threads -> Client]  BY DEF TypeOK
<1>2. /\ client' \in [Threads -> Client]
      /\ \A u \in Threads : u # t => client'[u] = client[u]
      /\ client'[t].doc = NoFile /\ client'[t].stage = "none"
      /\ client'[t].live = client[t].live
      /\ client'[t].level = client[t].level
      /\ client'[t].step = client[t].step
  BY <1>1, EmptyHandedFact
<1>3. Hands'  BY <1>2 DEF Hands
<1>4. Journaled'  BY DEF Journaled
<1>5. Accounted'  BY <1>2 DEF Accounted
<1> QED BY <1>2, <1>3, <1>4, <1>5

LEMMA RowOfFact ==
    ASSUME TypeOK, NEW t \in Threads
    PROVE  RowOf(t) \in Rows /\ RowOf(t)[1] = t
<1>1. client[t].doc \in Items  BY RecordFact DEF TypeOK
<1> QED BY <1>1 DEF RowOf, Rows

LEMMA WriteInv ==
    ASSUME Inv, NEW t \in Threads, Write(t)
    PROVE  Inv'
<1> USE DEF Inv
<1> DEFINE row == RowOf(t)
<1>1. row \in Rows /\ row[1] = t  BY RowOfFact
<1> HIDE DEF row
<1>2. /\ client' = EmptyHanded(client, t) /\ client[t].stage # "linked"
      /\ UNCHANGED <<depth, owner, journal, disk, kept>>
  BY DEF Write
<1>3. /\ client' \in [Threads -> Client]
      /\ \A u \in Threads : /\ client'[u].level = client[u].level
                            /\ client'[u].step = client[u].step
      /\ Hands' /\ Journaled' /\ Accounted'
  BY <1>2, HandedOverInv
<1>4. depth \in Nat /\ (depth > 0 => owner = t)
  BY BoundsAssumption DEF TypeOK, Write, MayEnter
<1>5. \/ /\ depth > 0 /\ pending' = pending \union {row}
         /\ open' = open /\ durable' = durable
      \/ /\ depth = 0 /\ durable' = durable \union pending \union {row}
         /\ pending' = {} /\ open' = FALSE
  BY <1>4 DEF Write, row
<1>6. TypeOK'  BY <1>1, <1>2, <1>3, <1>5 DEF TypeOK
<1>7. Turn'
  <2>1. CASE depth > 0
    <3>1. depth # 0 /\ owner = t /\ open  BY <1>4, <2>1 DEF Turn
    <3>2. pending' = pending \union {row} /\ open'  BY <1>5, <3>1
    <3>3. \A r \in pending' : r[1] = t  BY <1>1, <2>1, <3>1, <3>2 DEF Turn
    <3>4. client'[t].level >= depth  BY <1>3, <2>1, <3>1 DEF Turn
    <3> QED BY <1>2, <1>3, <2>1, <3>1, <3>2, <3>3, <3>4 DEF Turn, Runs
  <2>2. CASE depth = 0
    BY <1>2, <1>3, <1>5, <2>2 DEF Turn, Runs
  <2> QED BY <1>4, <2>1, <2>2
<1> QED BY <1>3, <1>6, <1>7

LEMMA WriteFailsInv ==
    ASSUME Inv, NEW t \in Threads, WriteFails(t)
    PROVE  Inv'
<1> USE DEF Inv
<1> DEFINE row == RowOf(t)
<1>1. row \in Rows /\ row[1] = t  BY RowOfFact
<1> HIDE DEF row
<1>2. /\ client' = EmptyHanded(client, t) /\ client[t].stage # "linked"
      /\ UNCHANGED <<depth, owner, durable, journal, disk, kept>>
      /\ open' = TRUE
  BY DEF WriteFails
<1>3. /\ client' \in [Threads -> Client]
      /\ \A u \in Threads : /\ client'[u].level = client[u].level
                            /\ client'[u].step = client[u].step
      /\ Hands' /\ Journaled' /\ Accounted'
  BY <1>2, HandedOverInv
<1>4. depth \in Nat /\ (depth > 0 => owner = t)
  BY BoundsAssumption DEF TypeOK, WriteFails, MayEnter
<1>5. \/ pending' = pending
      \/ depth = 0 /\ pending' = pending \union {row}
  BY DEF WriteFails, row
<1>6. TypeOK'  BY <1>1, <1>2, <1>3, <1>5 DEF TypeOK
<1>7. Turn'
  <2>1. CASE depth > 0
    BY <1>2, <1>3, <1>4, <1>5, <2>1 DEF Turn, Runs
  <2>2. CASE depth = 0
    BY <1>2, <1>3, <1>5, <2>2 DEF Turn, Runs
  <2> QED BY <1>4, <2>1, <2>2
<1> QED BY <1>3, <1>6, <1>7

\* The transaction is over: who held a file of it, and who is still inside a
\* scope, is left as the goal says.
LEMMA OverInv ==
    ASSUME Inv, NEW t \in Threads,
           client' \in [Threads -> Client],
           \A u \in Threads : client'[u].step = "run",
           \A u \in Threads : u # t => Stays(u),
           Emptied(t),
           depth' = 0, owner' = NoThread, pending' = {}, journal' = {},
           open' = FALSE, durable' \in SUBSET Rows,
           \/ kept' = kept \union journal /\ disk' = disk
              /\ client[t].stage # "linked"
           \/ kept' = kept /\ disk' = disk \ (journal \union InHand(t))
    PROVE  Inv'
<1> USE DEF Inv
<1>1. /\ client'[t].stage \in {"none", "failed"} /\ client'[t].doc = NoFile
      /\ ~client'[t].live
  BY DEF Emptied
<1>2. \A u \in Threads : u # t =>
          /\ client'[u].level = client[u].level
          /\ client'[u].live = client[u].live
          /\ client'[u].doc = client[u].doc
          /\ client'[u].stage = client[u].stage
  BY DEF Stays
<1>3. InHand(t) =
          IF client[t].stage = "linked" THEN {client[t].doc} ELSE {}
  BY DEF InHand
<1>4. TypeOK'
  <2>1. kept' \in SUBSET Files /\ disk' \in SUBSET Files  BY DEF TypeOK
  <2>2. 0 \in 0 .. MaxLevel  BY BoundsAssumption
  <2> QED BY <2>1, <2>2 DEF TypeOK
<1>5. Turn'  BY DEF Turn, Runs
<1>6. \A u \in Threads : u # t /\ client[u].stage = "linked" =>
          client[u].doc \in disk' \ (kept' \union journal')
  <2> TAKE u \in Threads
  <2> HAVE u # t /\ client[u].stage = "linked"
  <2>1. client[u].doc \in disk \ (kept \union journal)  BY DEF Hands
  <2>2. client[u].doc \notin InHand(t)
    BY <1>3 DEF Hands
  <2> QED BY <2>1, <2>2
<1>7. Hands'  BY <1>1, <1>2, <1>6 DEF Hands
<1>8. Journaled'
  <2>1. CASE kept' = kept \union journal /\ disk' = disk
    BY <2>1 DEF Journaled
  <2>2. CASE kept' = kept /\ disk' = disk \ (journal \union InHand(t))
    <3>1. InHand(t) \cap kept = {}  BY <1>3 DEF Hands
    <3> QED BY <2>2, <3>1 DEF Journaled
  <2> QED BY <2>1, <2>2
<1>9. Accounted'
  <2> SUFFICES ASSUME NEW f \in disk', f \notin kept' \union journal'
               PROVE  \E u \in Threads : client'[u].stage = "linked"
                                         /\ client'[u].doc = f
    BY DEF Accounted
  <2>1. f \in disk /\ f \notin kept \union journal /\ f \notin InHand(t)
    <3>1. CASE kept' = kept \union journal /\ disk' = disk
               /\ client[t].stage # "linked"
      BY <1>3, <3>1
    <3>2. CASE kept' = kept /\ disk' = disk \ (journal \union InHand(t))
      BY <3>2
    <3> QED BY <3>1, <3>2
  <2>2. PICK u \in Threads : client[u].stage = "linked" /\ client[u].doc = f
    BY <2>1 DEF Accounted
  <2>3. u # t  BY <1>3, <2>1, <2>2
  <2> QED BY <1>2, <2>2, <2>3
<1> QED BY <1>4, <1>5, <1>7, <1>8, <1>9

\* A thread that owns the transaction is inside a scope of it.
LEMMA OwnerInside ==
    ASSUME TypeOK, Turn, NEW t \in Threads, owner = t
    PROVE  depth > 0 /\ client[t].level > 0
<1>1. depth \in Nat /\ client[t].level \in Nat
  BY RecordFact, BoundsAssumption DEF TypeOK
<1>2. depth > 0  BY <1>1, NoThreadAssumption DEF Turn
<1> QED BY <1>1, <1>2 DEF Turn

LEMMA CommitInv ==
    ASSUME Inv, NEW t \in Threads, Commit(t)
    PROVE  Inv'
<1> USE DEF Inv
<1> DEFINE level == client[t].level - 1
<1>1. /\ client[t].level \in 0 .. MaxLevel /\ client[t].level > 0
      /\ client[t].stage # "linked" /\ disk' = disk
  BY RecordFact DEF Commit, AtEnd, TypeOK
<1>2. level \in 0 .. MaxLevel  BY <1>1, BoundsAssumption
<1>3. CASE depth = 1
  <2>1. /\ client' = Woken(Unwound(client, t, level)) /\ Released
        /\ durable' = durable \union pending
    BY <1>3 DEF Commit
  <2>2. durable' \in SUBSET Rows  BY <2>1 DEF TypeOK
  <2> HIDE DEF level
  <2> QED BY <1>1, <1>2, <2>1, <2>2, LeftAndWoken, OverInv DEF Released
<1>4. CASE depth # 1
  <2>1. /\ client' = Unwound(client, t, level)
        /\ depth' = IF depth = 0 THEN 0 ELSE depth - 1
        /\ UNCHANGED <<owner, open, pending, durable, journal, kept, disk>>
    BY <1>4 DEF Commit
  <2>2. client \in [Threads -> Client]  BY DEF TypeOK
  <2> HIDE DEF level
  <2>3. /\ client' \in [Threads -> Client]
        /\ \A u \in Threads : u # t => client'[u] = client[u]
        /\ client'[t].doc = NoFile /\ client'[t].stage = "none"
        /\ ~client'[t].live /\ client'[t].level = level
        /\ client'[t].step = client[t].step
    BY <1>2, <2>1, <2>2, UnwoundFact
  <2>4. depth \in 0 .. MaxLevel /\ (depth # 0 => owner = t)
    BY DEF TypeOK, Commit, MayEnter
  <2>5. depth' \in 0 .. MaxLevel /\ (depth' = 0 <=> depth = 0)
    BY <1>4, <2>1, <2>4, BoundsAssumption
  <2>6. TypeOK'  BY <2>1, <2>3, <2>5 DEF TypeOK
  <2>7. Turn'
    <3>1. CASE depth = 0
      BY <2>1, <2>3, <2>5, <3>1 DEF Turn, Runs
    <3>2. CASE depth # 0
      <4>1. depth > 0 /\ owner = t /\ depth' = depth - 1 /\ depth' > 0
        BY <1>4, <2>1, <2>4, <3>2, BoundsAssumption
      <4>2. client'[t].level >= depth'
        BY <1>1, <2>3, <2>4, <4>1, BoundsAssumption DEF Turn, level
      <4>3. \A u \in Threads : client'[u].step # "run" => u # t
        BY <2>3 DEF Commit, Runs
      <4> QED BY <2>1, <4>1, <4>2, <4>3, NoThreadAssumption DEF Turn, Runs
    <3> QED BY <3>1, <3>2
  <2>8. Hands'  BY <2>1, <2>3 DEF Hands
  <2>9. Journaled'  BY <2>1 DEF Journaled
  <2>10. Accounted'  BY <1>1, <2>1, <2>3 DEF Accounted
  <2> QED BY <2>6, <2>7, <2>8, <2>9, <2>10
<1> QED BY <1>3, <1>4

LEMMA CommitRaisesInv ==
    ASSUME Inv, NEW t \in Threads, CommitRaises(t)
    PROVE  Inv'
<1> USE DEF Inv
<1>1. /\ client[t].level \in 0 .. MaxLevel /\ client[t].level > 0
      /\ client[t].stage # "linked"
  BY RecordFact DEF CommitRaises, AtEnd, TypeOK
<1>2. client' = Woken(Thrown(t))  BY DEF CommitRaises
<1>4. /\ client' \in [Threads -> Client]
      /\ \A u \in Threads : client'[u].step = "run"
      /\ \A u \in Threads : u # t => Stays(u)
      /\ Emptied(t)
  BY <1>1, <1>2, ThrownAndWoken
<1>5. CASE RolledBack(t)
  <2>1. durable' \in SUBSET Rows  BY <1>5 DEF TypeOK, RolledBack
  <2> QED BY <1>4, <1>5, <2>1, OverInv DEF RolledBack
<1>6. CASE /\ Released
           /\ durable' \in {durable, durable \union pending}
           /\ UNCHANGED disk
  <2>1. durable' \in SUBSET Rows  BY <1>6 DEF TypeOK
  <2> QED BY <1>1, <1>4, <1>6, <2>1, OverInv DEF Released
<1> QED BY <1>5, <1>6 DEF CommitRaises

LEMMA AbortInv ==
    ASSUME Inv, NEW t \in Threads, Abort(t)
    PROVE  Inv'
<1> USE DEF Inv
<1>1. RolledBack(t) /\ owner = t /\ client' = Woken(Thrown(t))
  BY DEF Abort
<1>2. client[t].level > 0  BY <1>1, OwnerInside
<1>3. /\ client' \in [Threads -> Client]
      /\ \A u \in Threads : client'[u].step = "run"
      /\ \A u \in Threads : u # t => Stays(u)
      /\ Emptied(t)
  BY <1>1, <1>2, ThrownAndWoken
<1>4. durable' \in SUBSET Rows  BY <1>1 DEF TypeOK, RolledBack
<1> QED BY <1>1, <1>3, <1>4, OverInv DEF RolledBack

LEMMA HandOffInv ==
    ASSUME Inv, NEW t \in Threads, HandOff(t)
    PROVE  Inv'
<1> USE DEF Inv
<1>1. client \in [Threads -> Client] /\ client[t].level = 0
  BY DEF TypeOK, HandOff
<1>2. /\ ~client[t].live /\ client[t].stage \in {"none", "failed"}
      /\ client[t].doc = NoFile
  <2>1. client[t].stage \in {"none", "linked", "ready", "failed"}
    BY <1>1, RecordFact
  <2> QED BY <1>1, <2>1 DEF Hands
<1>3. client' = Woken(client) /\ RolledBack(t)  BY DEF HandOff
<1>4. /\ client' \in [Threads -> Client]
      /\ \A u \in Threads : client'[u].step = "run"
      /\ \A u \in Threads : Stays(u)
  BY <1>1, <1>3, WokenFact DEF Stays
<1>5. Emptied(t)  BY <1>2, <1>4 DEF Stays, Emptied
<1>6. durable' \in SUBSET Rows  BY <1>3 DEF TypeOK, RolledBack
<1> QED BY <1>3, <1>4, <1>5, <1>6, OverInv DEF RolledBack

LEMMA LeaveInv ==
    ASSUME Inv, NEW t \in Threads, Leave(t)
    PROVE  Inv'
<1> USE DEF Inv
<1>1. client \in [Threads -> Client] /\ 0 \in 0 .. MaxLevel
  BY BoundsAssumption DEF TypeOK
<1>2. /\ client' = Unwound(client, t, 0) /\ disk' = disk \ InHand(t)
      /\ UNCHANGED <<depth, owner, open, pending, durable, journal, kept>>
      /\ owner # t /\ client[t].step = "run"
  BY DEF Leave, Runs
<1>3. /\ client' \in [Threads -> Client]
      /\ \A u \in Threads : u # t => client'[u] = client[u]
      /\ client'[t].doc = NoFile /\ client'[t].stage = "none"
      /\ ~client'[t].live /\ client'[t].level = 0
      /\ client'[t].step = client[t].step
  BY <1>1, <1>2, UnwoundFact
<1>4. InHand(t) =
          IF client[t].stage = "linked" THEN {client[t].doc} ELSE {}
  BY DEF InHand
<1>5. TypeOK'  BY <1>2, <1>3 DEF TypeOK
<1>6. Turn'
  <2>1. depth \in Nat /\ (depth > 0 => owner \in Threads)
    BY BoundsAssumption DEF TypeOK, Turn
  <2>2. depth' > 0 => open' /\ client'[owner'].level >= depth'
    BY <1>2, <1>3, <2>1 DEF Turn
  <2> QED BY <1>2, <1>3, <2>1, <2>2 DEF Turn, Runs
<1>7. \A u \in Threads : u # t /\ client[u].stage = "linked" =>
          client[u].doc \in disk' \ (kept' \union journal')
  <2> TAKE u \in Threads
  <2> HAVE u # t /\ client[u].stage = "linked"
  <2>1. client[u].doc \in disk \ (kept \union journal)  BY DEF Hands
  <2>2. client[u].doc \notin InHand(t)  BY <1>4 DEF Hands
  <2> QED BY <1>2, <2>1, <2>2
<1>8. Hands'  BY <1>2, <1>3, <1>7 DEF Hands
<1>9. Journaled'
  <2>1. InHand(t) \cap (kept \union journal) = {}  BY <1>4 DEF Hands
  <2> QED BY <1>2, <2>1 DEF Journaled
<1>10. Accounted'
  <2> SUFFICES ASSUME NEW f \in disk', f \notin kept' \union journal'
               PROVE  \E u \in Threads : client'[u].stage = "linked"
                                         /\ client'[u].doc = f
    BY DEF Accounted
  <2>1. f \in disk /\ f \notin kept \union journal /\ f \notin InHand(t)
    BY <1>2
  <2>2. PICK u \in Threads : client[u].stage = "linked" /\ client[u].doc = f
    BY <2>1 DEF Accounted
  <2>3. u # t  BY <1>4, <2>1, <2>2
  <2> QED BY <1>3, <2>2, <2>3
<1> QED BY <1>5, <1>6, <1>8, <1>9, <1>10

LEMMA CrashInv ==
    ASSUME Inv, Crash
    PROVE  Inv'
<1> USE DEF Inv
<1>1. \A t \in Threads : client'[t] = Idle(client[t].begun)  BY DEF Crash
<1>2. \A t \in Threads : Idle(client[t].begun) \in Client
  <2> TAKE t \in Threads
  <2>1. client[t].begun \in 0 .. MaxBegins  BY RecordFact DEF TypeOK
  <2> QED BY <2>1, BoundsAssumption DEF Idle, Client, Items
<1>3. TypeOK'
  <2>1. client' \in [Threads -> Client]
    <3> HIDE DEF Client
    <3> QED BY <1>2 DEF Crash
  <2>2. 0 \in 0 .. MaxLevel  BY BoundsAssumption
  <2> QED BY <2>1, <2>2 DEF Crash, TypeOK
<1>4. \A t \in Threads :
          /\ client'[t].step = "run" /\ client'[t].stage = "none"
          /\ client'[t].doc = NoFile /\ ~client'[t].live
  <2> TAKE t \in Threads
  <2> DEFINE b == client[t].begun
  <2>1. client'[t] = Idle(b)  BY <1>1
  <2> HIDE DEF b
  <2>2. /\ Idle(b).step = "run" /\ Idle(b).stage = "none"
        /\ Idle(b).doc = NoFile /\ ~Idle(b).live
    BY DEF Idle
  <2> QED BY <2>1, <2>2
<1>5. Turn'  BY <1>4 DEF Crash, Turn, Runs
<1>6. Hands'  BY <1>4 DEF Hands
<1>7. Journaled'  BY DEF Crash, Journaled
<1>8. Accounted'  BY DEF Crash, Accounted
<1> QED BY <1>3, <1>5, <1>6, <1>7, <1>8

LEMMA StutterInv ==
    ASSUME Inv, UNCHANGED vars
    PROVE  Inv'
BY DEF Inv, TypeOK, Turn, Hands, Journaled, Accounted, Runs, vars

\* What one step of Next can be.
LEMMA Steps ==
    ASSUME Next
    PROVE  \/ \E t \in Threads :
                  \/ Block(t) \/ Begin(t) \/ Register(t) \/ Write(t)
                  \/ WriteFails(t) \/ Commit(t) \/ CommitRaises(t)
                  \/ Abort(t) \/ HandOff(t) \/ Leave(t)
           \/ \E t \in Threads, f \in Files : Publish(t, f)
           \/ Crash
BY DEF Next

LEMMA NextInv ==
    ASSUME Inv, [Next]_vars
    PROVE  Inv'
<1>1. CASE UNCHANGED vars  BY <1>1, StutterInv
<1>2. CASE Next
  <2>1. CASE Crash  BY <2>1, CrashInv
  <2>2. ASSUME NEW t \in Threads, NEW f \in Files, Publish(t, f)
        PROVE  Inv'
    BY <2>2, PublishInv
  <2>3. ASSUME NEW t \in Threads,
               \/ Block(t) \/ Begin(t) \/ Register(t) \/ Write(t)
               \/ WriteFails(t) \/ Commit(t) \/ CommitRaises(t)
               \/ Abort(t) \/ HandOff(t) \/ Leave(t)
        PROVE  Inv'
    BY <2>3, BlockInv, BeginInv, RegisterInv, WriteInv, WriteFailsInv,
       CommitInv, CommitRaisesInv, AbortInv, HandOffInv, LeaveInv
  <2> QED BY <1>2, <2>1, <2>2, <2>3, Steps
<1> QED BY <1>1, <1>2

\* The invariant, for every set of threads and files and any nesting: the
\* counted depth, the owner, SQLite's transaction, the journal and what the
\* threads hold always fit together (storage.py:55-191, 1421-1464).
THEOREM SpecInv == Spec => []Inv
<1>1. Init => Inv  BY InitInv
<1>2. Inv /\ [Next]_vars => Inv'  BY NextInv
<1> QED BY <1>1, <1>2, PTL DEF Spec

\* Every variable keeps its type.
THEOREM TypeCorrect == Spec => []TypeOK
<1>1. Inv => TypeOK  BY DEF Inv
<1> QED BY <1>1, SpecInv, PTL

\* A row pending in an owned transaction is its owner's, however many threads
\* write through the shared connection (storage.py:55-69).
THEOREM ForeignCorrect == Spec => []NoForeignWriteJoins
<1>1. Inv => NoForeignWriteJoins
  <2> SUFFICES ASSUME Inv, depth > 0
               PROVE  /\ owner \in Threads
                      /\ open
                      /\ client[owner].level >= depth
                      /\ \A row \in pending : row[1] = owner
    BY DEF NoForeignWriteJoins
  <2>1. depth # 0  BY BoundsAssumption DEF Inv, TypeOK
  <2> QED BY <2>1 DEF Inv, TypeOK, Turn
<1> QED BY <1>1, SpecInv, PTL

\* No thread is left waiting on the condition when no transaction is owned:
\* no wake-up is lost (storage.py:61-68, 181, 189, 1462).
THEOREM WaiterCorrect == Spec => []NoWaiterWhenFree
<1>1. Inv => NoWaiterWhenFree
  BY BoundsAssumption DEF Inv, Turn, NoWaiterWhenFree
<1> QED BY <1>1, SpecInv, PTL

\* A file no commit, crash or publication outside a transaction has made
\* permanent is in the journal or in its publisher's hands
\* (document.py:40-80).
THEOREM OrphanCorrect == Spec => []NoOrphanFiles
<1>1. Inv => NoOrphanFiles
  <2> SUFFICES ASSUME Inv, NEW f \in disk, f \notin kept \union journal
               PROVE  f \in UNION {InHand(t) : t \in Threads}
    BY DEF NoOrphanFiles
  <2>1. PICK t \in Threads : client[t].stage = "linked" /\ client[t].doc = f
    BY DEF Inv, Accounted
  <2>2. f \in InHand(t)  BY <2>1 DEF InHand
  <2> QED BY <2>2
<1> QED BY <1>1, SpecInv, PTL

-----------------------------------------------------------------------------
(* Where no thread rolls another's transaction back.                       *)

LEMMA InitUnshared ==
    ASSUME Init
    PROVE  Unshared
<1>1. \A t \in Threads : client[t] = Idle(0)  BY DEF Init
<1>2. \A t \in Threads : client[t].stage = "none" /\ ~client[t].live
  BY <1>1 DEF Idle
<1> QED BY <1>2 DEF Init, Unshared

\* A live scope's thread is alone with its transaction.
LEMMA AloneFact ==
    ASSUME Inv, Unshared, NEW t \in Threads, client[t].live
    PROVE  /\ owner = t /\ depth > 0
           /\ \A u \in Threads : client[u].live => u = t
           /\ \A u \in Threads :
                  client[u].stage \in {"linked", "ready"} => u = t
<1>1. owner = t /\ depth > 0
  BY OwnerInside DEF Inv, Unshared
<1> QED BY <1>1 DEF Inv, Hands, Unshared

\* The end of a transaction, as in OverInv, keeps Unshared: no other thread
\* had anything in hand.
LEMMA OverUnshared ==
    ASSUME Inv, Unshared, NEW t \in Threads, owner = t,
           \A u \in Threads : u # t => Stays(u),
           Emptied(t),
           pending' = {}, journal' = {},
           \/ kept' = kept \union journal
              /\ durable' \in {durable, durable \union pending}
           \/ kept' = kept /\ durable' = durable
    PROVE  Unshared'
<1>1. \A u \in Threads :
          u # t => ~client[u].live /\ client[u].stage # "ready"
  BY DEF Inv, Hands, Unshared
<1>2. \A u \in Threads : ~client'[u].live /\ client'[u].stage # "ready"
  BY <1>1 DEF Stays, Emptied
<1>3. \A row \in durable' : row[2] # NoFile => row[2] \in kept'
  BY DEF Unshared
<1> QED BY <1>2, <1>3 DEF Unshared

\* What a thread writes names a file that is kept or its own to keep.
LEMMA RowNamesKept ==
    ASSUME Inv, Unshared, NEW t \in Threads, client[t].stage # "linked"
    PROVE  RowOf(t)[2] # NoFile => RowOf(t)[2] \in kept \union journal
<1>1. client[t].stage \in {"none", "linked", "ready", "failed"}
  BY RecordFact DEF Inv, TypeOK
<1>2. RowOf(t)[2] = client[t].doc  BY DEF RowOf
<1> QED BY <1>1, <1>2 DEF Inv, Hands, Unshared

LEMMA BlockUnshared ==
    ASSUME Inv, Unshared, NEW t \in Threads, Block(t)
    PROVE  Unshared'
<1>1. client[t] \in Client /\ client \in [Threads -> Client]
  BY DEF Inv, TypeOK
<1>2. client' = [client EXCEPT ![t] = [client[t] EXCEPT !.step = "waiting"]]
  BY DEF Block
<1>3. \A u \in Threads : Stays(u)
  BY <1>1, <1>2 DEF Client, Stays
<1> QED BY <1>3 DEF Unshared, Block, Stays

LEMMA BeginUnshared ==
    ASSUME Inv, Unshared, NEW t \in Threads, Begin(t)
    PROVE  Unshared'
<1> DEFINE r == [client[t] EXCEPT !.level = @ + 1, !.live = TRUE,
                                  !.begun = @ + 1]
<1>1. client[t] \in Client /\ client \in [Threads -> Client]
  BY DEF Inv, TypeOK
<1>2. client' = [client EXCEPT ![t] = r]  BY <1>1 DEF Begin
<1>3. r.stage = client[t].stage  BY <1>1 DEF Client
<1> HIDE DEF r
<1>4. /\ \A u \in Threads : u # t => client'[u] = client[u]
      /\ client'[t].stage = "none"
  BY <1>1, <1>2, <1>3 DEF Begin
<1>5. \A u \in Threads : client[u].live => u = t
  <2>1. depth = 0 \/ owner = t  BY DEF Begin, MayEnter
  <2>2. CASE depth = 0
    BY <2>2, NoThreadAssumption DEF Inv, Turn, Unshared
  <2>3. CASE owner = t  BY <2>3 DEF Unshared
  <2> QED BY <2>1, <2>2, <2>3
<1> QED BY <1>4, <1>5 DEF Unshared, Begin

LEMMA PublishUnshared ==
    ASSUME Inv, Unshared, NEW t \in Threads, NEW f \in Files, Publish(t, f)
    PROVE  Unshared'
<1> DEFINE s == IF f \in disk THEN "ready" ELSE "linked"
           r == [client[t] EXCEPT !.doc = f, !.stage = s]
<1>1. client[t] \in Client /\ client \in [Threads -> Client]
  BY DEF Inv, TypeOK
<1>2. client' = [client EXCEPT ![t] = r]  BY <1>1 DEF Publish
<1>3. r.doc = f /\ r.stage = s /\ r.live = client[t].live
  BY <1>1 DEF Client
<1> HIDE DEF r
<1>4. /\ \A u \in Threads : u # t => client'[u] = client[u]
      /\ client'[t].doc = f /\ client'[t].stage = s
      /\ client'[t].live = client[t].live
  BY <1>1, <1>2, <1>3
<1>5. client[t].live /\ client[t].stage = "none"  BY DEF Publish
<1>6. \A u \in Threads : client[u].stage # "linked"
  BY <1>5, AloneFact
<1>7. f \in disk => f \in kept \union journal
  BY <1>6 DEF Inv, Accounted
<1>8. UNCHANGED <<owner, pending, durable, journal, kept>>
  BY DEF Publish
<1> QED BY <1>4, <1>5, <1>6, <1>7, <1>8 DEF Unshared

LEMMA RegisterUnshared ==
    ASSUME Inv, Unshared, NEW t \in Threads, Register(t)
    PROVE  Unshared'
<1> DEFINE f == client[t].doc
           r == [client[t] EXCEPT !.stage = "ready"]
<1>1. client[t] \in Client /\ client \in [Threads -> Client]
  BY DEF Inv, TypeOK
<1>2. client' = [client EXCEPT ![t] = r]  BY <1>1 DEF Register
<1>3. r.doc = f /\ r.stage = "ready" /\ r.live = client[t].live
  BY <1>1 DEF Client
<1> HIDE DEF r
<1>4. /\ \A u \in Threads : u # t => client'[u] = client[u]
      /\ client'[t].doc = f /\ client'[t].stage = "ready"
      /\ client'[t].live = client[t].live
  BY <1>1, <1>2, <1>3
<1>5. kept \subseteq kept' /\ kept' \union journal' =
                                  kept \union journal \union {f}
  BY DEF Register
<1>6. UNCHANGED <<owner, pending, durable>>  BY DEF Register
<1> HIDE DEF f
<1> QED BY <1>4, <1>5, <1>6 DEF Unshared

LEMMA WriteUnshared ==
    ASSUME Inv, Unshared, NEW t \in Threads, Write(t) \/ WriteFails(t)
    PROVE  Unshared'
<1> DEFINE row == RowOf(t)
<1>1. /\ client' = EmptyHanded(client, t) /\ client[t].stage # "linked"
      /\ UNCHANGED <<owner, journal, kept>>
  BY DEF Write, WriteFails
<1>2. client \in [Threads -> Client]  BY DEF Inv, TypeOK
<1>3. /\ \A u \in Threads : u # t => client'[u] = client[u]
      /\ client'[t].stage = "none" /\ client'[t].live = client[t].live
  BY <1>1, <1>2, EmptyHandedFact
<1>4. row[2] # NoFile => row[2] \in kept \union journal
  BY <1>1, RowNamesKept
<1> HIDE DEF row
<1>5. \/ /\ pending' \subseteq pending \union {row} /\ durable' = durable
      \/ /\ depth = 0 /\ pending' = {}
         /\ durable' = durable \union pending \union {row}
  <2>1. CASE WriteFails(t)  BY <2>1 DEF WriteFails, row
  <2>2. CASE Write(t)
    <3>1. depth \in Nat  BY BoundsAssumption DEF Inv, TypeOK
    <3> QED BY <2>2, <3>1 DEF Write, row
  <2> QED BY <2>1, <2>2
<1>6. depth = 0 => journal = {}  BY DEF Inv, Turn
<1>7. \A x \in durable' : x[2] # NoFile => x[2] \in kept
  BY <1>4, <1>5, <1>6 DEF Unshared
<1>8. \A x \in pending' : x[2] # NoFile => x[2] \in kept \union journal
  BY <1>4, <1>5 DEF Unshared
<1> QED BY <1>1, <1>3, <1>7, <1>8 DEF Unshared

LEMMA CommitUnshared ==
    ASSUME Inv, Unshared, NEW t \in Threads, Commit(t)
    PROVE  Unshared'
<1> DEFINE level == client[t].level - 1
<1>1. client[t].level \in 0 .. MaxLevel /\ client[t].level > 0
  BY RecordFact DEF Commit, AtEnd, Inv, TypeOK
<1>2. level \in 0 .. MaxLevel  BY <1>1, BoundsAssumption
<1>3. CASE depth = 1
  <2>1. /\ client' = Woken(Unwound(client, t, level)) /\ Released
        /\ durable' = durable \union pending /\ owner = t
    BY <1>3 DEF Commit, MayEnter
  <2>2. (\A u \in Threads : u # t => Stays(u)) /\ Emptied(t)
    <3> HIDE DEF level
    <3> QED BY <1>2, <2>1, LeftAndWoken DEF Inv
  <2> QED BY <2>1, <2>2, OverUnshared DEF Released
<1>4. CASE depth # 1
  <2>1. /\ client' = Unwound(client, t, level)
        /\ UNCHANGED <<owner, pending, durable, journal, kept>>
    BY <1>4 DEF Commit
  <2>2. client \in [Threads -> Client]  BY DEF Inv, TypeOK
  <2> HIDE DEF level
  <2>3. /\ \A u \in Threads : u # t => client'[u] = client[u]
        /\ client'[t].stage = "none" /\ ~client'[t].live
    BY <1>2, <2>1, <2>2, UnwoundFact
  <2> QED BY <2>1, <2>3 DEF Unshared
<1> QED BY <1>3, <1>4

LEMMA CommitRaisesUnshared ==
    ASSUME Inv, Unshared, NEW t \in Threads, CommitRaises(t)
    PROVE  Unshared'
<1>1. client[t].level \in 0 .. MaxLevel /\ client[t].level > 0
  BY RecordFact DEF CommitRaises, AtEnd, Inv, TypeOK
<1>2. client' = Woken(Thrown(t))  BY DEF CommitRaises
<1>4. (\A u \in Threads : u # t => Stays(u)) /\ Emptied(t)
  BY <1>1, <1>2, ThrownAndWoken DEF Inv
<1>5. owner = t  BY DEF CommitRaises
<1>6. CASE RolledBack(t)  BY <1>4, <1>5, <1>6, OverUnshared DEF RolledBack
<1>7. CASE /\ Released
           /\ durable' \in {durable, durable \union pending}
           /\ UNCHANGED disk
  BY <1>4, <1>5, <1>7, OverUnshared DEF Released
<1> QED BY <1>6, <1>7 DEF CommitRaises

LEMMA AbortUnshared ==
    ASSUME Inv, Unshared, NEW t \in Threads, Abort(t)
    PROVE  Unshared'
<1>1. RolledBack(t) /\ owner = t /\ client' = Woken(Thrown(t))
  BY DEF Abort
<1>2. client[t].level > 0  BY <1>1, OwnerInside DEF Inv
<1>3. (\A u \in Threads : u # t => Stays(u)) /\ Emptied(t)
  BY <1>1, <1>2, ThrownAndWoken DEF Inv
<1> QED BY <1>1, <1>3, OverUnshared DEF RolledBack

LEMMA LeaveUnshared ==
    ASSUME Inv, Unshared, NEW t \in Threads, Leave(t)
    PROVE  Unshared'
<1>1. client \in [Threads -> Client] /\ 0 \in 0 .. MaxLevel
  BY BoundsAssumption DEF Inv, TypeOK
<1>2. /\ client' = Unwound(client, t, 0)
      /\ UNCHANGED <<owner, pending, durable, journal, kept>>
  BY DEF Leave
<1>3. /\ \A u \in Threads : u # t => client'[u] = client[u]
      /\ client'[t].stage = "none" /\ ~client'[t].live
  BY <1>1, <1>2, UnwoundFact
<1> QED BY <1>2, <1>3 DEF Unshared

LEMMA CrashUnshared ==
    ASSUME Inv, Unshared, Crash
    PROVE  Unshared'
<1>1. \A t \in Threads : client'[t].stage = "none" /\ ~client'[t].live
  <2> TAKE t \in Threads
  <2> DEFINE b == client[t].begun
  <2>1. client'[t] = Idle(b)  BY DEF Crash
  <2> HIDE DEF b
  <2>2. Idle(b).stage = "none" /\ ~Idle(b).live  BY DEF Idle
  <2> QED BY <2>1, <2>2
<1>2. kept \subseteq kept'  BY DEF Crash, Inv, Journaled
<1> QED BY <1>1, <1>2 DEF Crash, Unshared

LEMMA NextUnshared ==
    ASSUME Rollbackers = {}, Inv, Unshared, [Next]_vars
    PROVE  Unshared'
<1>1. CASE UNCHANGED vars  BY <1>1 DEF vars, Unshared
<1>2. CASE Next
  <2>1. CASE Crash  BY <2>1, CrashUnshared
  <2>2. ASSUME NEW t \in Threads, NEW f \in Files, Publish(t, f)
        PROVE  Unshared'
    BY <2>2, PublishUnshared
  <2>3. ASSUME NEW t \in Threads,
               \/ Block(t) \/ Begin(t) \/ Register(t) \/ Write(t)
               \/ WriteFails(t) \/ Commit(t) \/ CommitRaises(t)
               \/ Abort(t) \/ HandOff(t) \/ Leave(t)
        PROVE  Unshared'
    <3>1. ~HandOff(t)  BY DEF HandOff
    <3> QED BY <2>3, <3>1, BlockUnshared, BeginUnshared, RegisterUnshared,
               WriteUnshared, CommitUnshared, CommitRaisesUnshared,
               AbortUnshared, LeaveUnshared
  <2> QED BY <1>2, <2>1, <2>2, <2>3, Steps
<1> QED BY <1>1, <1>2

\* What the threads hold and what the rows name stay with the transaction's
\* owner (storage.py:128-191, 1421-1437).
THEOREM SpecUnshared ==
    ASSUME Rollbackers = {}
    PROVE  Spec => [](Inv /\ Unshared)
<1>1. Init => Inv /\ Unshared  BY InitInv, InitUnshared
<1>2. Inv /\ Unshared /\ [Next]_vars => Inv' /\ Unshared'
  BY NextInv, NextUnshared
<1> QED BY <1>1, <1>2, PTL DEF Spec

\* A committed row never names a file a rollback has removed, where every
\* thread rolls back only what it owns (storage.py:184-187, 1421-1437).
THEOREM SurviveCorrect ==
    ASSUME Rollbackers = {}
    PROVE  Spec => []CommittedFilesSurvive
<1>1. Inv /\ Unshared => CommittedFilesSurvive
  BY DEF Inv, Unshared, Journaled, CommittedFilesSurvive
<1> QED BY <1>1, SpecUnshared, PTL

LEMMA EndedStep ==
    ASSUME Rollbackers = {}, Inv, Next, NEW t \in Threads,
           owner = t, owner' # t
    PROVE  client'[t].level < client[t].level
<1>1. /\ client \in [Threads -> Client] /\ client[t].level \in 0 .. MaxLevel
      /\ client[t].level > 0 /\ depth > 0
  BY RecordFact, OwnerInside DEF Inv, TypeOK
<1>2. ASSUME NEW level \in 0 .. MaxLevel, level < client[t].level,
             client' = Woken(Unwound(client, t, level))
      PROVE  client'[t].level < client[t].level
  BY <1>2, LeftAndWoken DEF Inv
<1>3. 0 \in 0 .. MaxLevel /\ client[t].level - 1 \in 0 .. MaxLevel
      /\ 0 < client[t].level /\ client[t].level - 1 < client[t].level
  BY <1>1, BoundsAssumption
<1>4. CASE Crash
  <2> DEFINE b == client[t].begun
  <2>1. client'[t] = Idle(b)  BY <1>4 DEF Crash
  <2> HIDE DEF b
  <2>2. Idle(b).level = 0  BY DEF Idle
  <2> QED BY <1>1, <2>1, <2>2
<1>5. ASSUME NEW u \in Threads,
             \/ Begin(u) \/ Commit(u) \/ CommitRaises(u) \/ Abort(u)
      PROVE  client'[t].level < client[t].level
  <2>1. u = t
    <3>1. depth # 0  BY <1>1, BoundsAssumption DEF Inv, TypeOK
    <3> QED BY <1>5, <3>1 DEF Begin, Commit, CommitRaises, Abort, MayEnter
  <2>2. CASE Begin(t)  BY <2>2 DEF Begin
  <2>3. CASE Commit(t)
    <3>1. depth = 1  BY <2>3 DEF Commit
    <3>2. client' = Woken(Unwound(client, t, client[t].level - 1))
      BY <2>3, <3>1 DEF Commit
    <3> QED BY <1>2, <1>3, <3>2
  <2>4. CASE CommitRaises(t) \/ Abort(t)
    <3>1. client' = Woken(Thrown(t))  BY <2>4 DEF CommitRaises, Abort
    <3>2. client'[t].level = client[t].level - 1
      BY <1>1, <3>1, ThrownAndWoken DEF Inv
    <3> QED BY <1>1, <3>2
  <2> QED BY <1>5, <2>1, <2>2, <2>3, <2>4
<1>6. ASSUME NEW u \in Threads, NEW f \in Files, Publish(u, f)
      PROVE  FALSE
  BY <1>6 DEF Publish
<1>7. ASSUME NEW u \in Threads,
             \/ Block(u) \/ Register(u) \/ Write(u) \/ WriteFails(u)
             \/ HandOff(u) \/ Leave(u)
      PROVE  FALSE
  BY <1>7 DEF Block, Register, Write, WriteFails, HandOff, Leave
<1> QED BY <1>4, <1>5, <1>6, <1>7, Steps

\* A transaction ends only when its own owner leaves a scope, or with the
\* process (agentic_orchestration.py:6293-6299).
THEOREM EndedCorrect ==
    ASSUME Rollbackers = {}
    PROVE  Spec => EndedByOwner
<1>1. Inv /\ [Next]_vars =>
          [\A t \in Threads : owner = t /\ owner' # t =>
                                  client'[t].level < client[t].level]_vars
  BY EndedStep
<1> QED BY <1>1, SpecInv, PTL DEF Spec, EndedByOwner

-----------------------------------------------------------------------------
(* Writes are deferred to the end of the outermost scope.                  *)

\* u keeps its scopes, and its stage unless it hands a document on.
Inside(u) ==
    /\ client'[u].level = client[u].level
    /\ (client'[u].stage = "failed") <=> (client[u].stage = "failed")

\* Scoped depends on no more than scopes, owner and writers.
LEMMA ScopedKept ==
    ASSUME Inv, Scoped, \A t \in Threads : Inside(t),
           UNCHANGED <<depth, owner>>,
           \A row \in pending' :
               \/ row \in pending
               \/ depth = 0 => client[row[1]].level = 0,
           pending' \in SUBSET Rows
    PROVE  Scoped'
<1>1. \A row \in Rows : row[1] \in Threads  BY DEF Rows
<1> QED BY <1>1 DEF Scoped, Inside

\* The end of a transaction: its owner leaves all but failed scopes.
LEMMA ScopedOver ==
    ASSUME Inv, Scoped, NEW t \in Threads, owner = t,
           \A u \in Threads : u # t => Stays(u),
           client'[t].level > 0 => client'[t].stage = "failed",
           client'[t].level \in Nat,
           depth' = 0, owner' = NoThread, pending' = {}
    PROVE  Scoped'
<1>1. \A u \in Threads :
          u # t /\ client'[u].level > 0 => client'[u].stage = "failed"
  BY DEF Scoped, Stays
<1> QED BY <1>1, NoThreadAssumption DEF Scoped

LEMMA BeginScoped ==
    ASSUME Inv, Scoped, NEW t \in Threads, Begin(t)
    PROVE  Scoped'
<1> DEFINE r == [client[t] EXCEPT !.level = @ + 1, !.live = TRUE,
                                  !.begun = @ + 1]
<1>1. client[t] \in Client /\ client \in [Threads -> Client]
  BY DEF Inv, TypeOK
<1>2. client' = [client EXCEPT ![t] = r]  BY <1>1 DEF Begin
<1>3. r.stage = client[t].stage /\ r.level = client[t].level + 1
  BY <1>1 DEF Client
<1> HIDE DEF r
<1>4. /\ \A u \in Threads : u # t => client'[u] = client[u]
      /\ client'[t].stage = "none"
      /\ client'[t].level = client[t].level + 1
  BY <1>1, <1>2, <1>3 DEF Begin
<1>5. client[t].level \in Nat /\ depth \in Nat
  BY RecordFact, BoundsAssumption DEF Inv, TypeOK
<1>6. client[t].level = depth /\ (owner = NoThread \/ owner = t)
  <2>1. CASE depth = 0
    <3>1. owner = NoThread  BY <2>1 DEF Inv, Turn
    <3>2. client[t].stage = "none"  BY DEF Begin
    <3> QED BY <1>5, <2>1, <3>1, <3>2, NoThreadAssumption DEF Scoped
  <2>2. CASE owner = t  BY <2>2 DEF Scoped
  <2> QED BY <2>1, <2>2 DEF Begin, MayEnter
<1>7. depth' = depth + 1 /\ depth' # 0 /\ owner' = t  BY <1>5 DEF Begin
<1> QED BY <1>4, <1>6, <1>7, NoThreadAssumption DEF Scoped

LEMMA PublishScoped ==
    ASSUME Inv, Scoped, NEW t \in Threads,
           \/ Block(t) \/ Register(t)
           \/ \E f \in Files : Publish(t, f)
    PROVE  Scoped'
<1>1. client[t] \in Client /\ client \in [Threads -> Client]
  BY DEF Inv, TypeOK
<1>2. ASSUME NEW r \in Client, client' = [client EXCEPT ![t] = r],
             r.level = client[t].level,
             \/ r.stage = client[t].stage
             \/ r.stage # "failed" /\ client[t].stage # "failed"
      PROVE  \A u \in Threads : Inside(u)
  <2>1. client'[t] = r /\ \A u \in Threads : u # t => client'[u] = client[u]
    BY <1>1, <1>2
  <2>2. Inside(t)  BY <1>2, <2>1 DEF Inside
  <2> QED BY <2>1, <2>2 DEF Inside
<1>3. CASE Block(t)
  <2> DEFINE r == [client[t] EXCEPT !.step = "waiting"]
  <2>1. client' = [client EXCEPT ![t] = r]  BY <1>1, <1>3 DEF Block
  <2>2. /\ r \in Client /\ r.level = client[t].level
        /\ r.stage = client[t].stage
    BY <1>1 DEF Client
  <2> HIDE DEF r
  <2>3. \A u \in Threads : Inside(u)  BY <1>2, <2>1, <2>2
  <2>4. UNCHANGED <<depth, owner, pending>> /\ pending \in SUBSET Rows
    BY <1>3 DEF Block, Inv, TypeOK
  <2> QED BY <2>3, <2>4, ScopedKept
<1>4. CASE Register(t)
  <2> DEFINE r == [client[t] EXCEPT !.stage = "ready"]
  <2>1. client' = [client EXCEPT ![t] = r] /\ client[t].stage = "linked"
    BY <1>1, <1>4 DEF Register
  <2>2. r \in Client /\ r.level = client[t].level /\ r.stage = "ready"
    BY <1>1 DEF Client
  <2> HIDE DEF r
  <2>3. \A u \in Threads : Inside(u)  BY <1>2, <2>1, <2>2
  <2>4. UNCHANGED <<depth, owner, pending>> /\ pending \in SUBSET Rows
    BY <1>4 DEF Register, Inv, TypeOK
  <2> QED BY <2>3, <2>4, ScopedKept
<1>5. ASSUME NEW f \in Files, Publish(t, f)
      PROVE  Scoped'
  <2> DEFINE s == IF f \in disk THEN "ready" ELSE "linked"
             r == [client[t] EXCEPT !.doc = f, !.stage = s]
  <2>1. client' = [client EXCEPT ![t] = r] /\ client[t].stage = "none"
    BY <1>1, <1>5 DEF Publish
  <2>2. r \in Client /\ r.level = client[t].level /\ r.stage = s
    BY <1>1 DEF Client, Items
  <2> HIDE DEF r
  <2>3. \A u \in Threads : Inside(u)  BY <1>2, <2>1, <2>2
  <2>4. UNCHANGED <<depth, owner, pending>> /\ pending \in SUBSET Rows
    BY <1>5 DEF Publish, Inv, TypeOK
  <2> QED BY <2>3, <2>4, ScopedKept
<1> QED BY <1>3, <1>4, <1>5

\* A thread that writes outside a transaction is in no scope.
LEMMA WriterOutside ==
    ASSUME Inv, Scoped, NEW t \in Threads, depth = 0,
           client[t].stage # "failed"
    PROVE  client[t].level = 0
<1>1. client[t].level \in Nat  BY RecordFact DEF Inv, TypeOK
<1>2. owner = NoThread  BY DEF Inv, Turn
<1> QED BY <1>1, <1>2, NoThreadAssumption DEF Scoped

LEMMA WriteScoped ==
    ASSUME Inv, Scoped, NEW t \in Threads, Write(t) \/ WriteFails(t)
    PROVE  Scoped'
<1> DEFINE row == RowOf(t)
<1>1. /\ client' = EmptyHanded(client, t)
      /\ client[t].stage \in {"none", "ready"}
      /\ UNCHANGED <<depth, owner>>
  BY DEF Write, WriteFails
<1>2. client \in [Threads -> Client]  BY DEF Inv, TypeOK
<1>3. \A u \in Threads : Inside(u)
  <2>1. /\ \A u \in Threads : u # t => client'[u] = client[u]
        /\ client'[t].stage = "none" /\ client'[t].level = client[t].level
    BY <1>1, <1>2, EmptyHandedFact
  <2> QED BY <1>1, <2>1 DEF Inside
<1>4. row \in Rows /\ row[1] = t  BY RowOfFact DEF Inv
<1> HIDE DEF row
<1>5. pending' \subseteq pending \union {row}
  BY DEF Write, WriteFails, row
<1>6. depth = 0 => client[t].level = 0  BY <1>1, WriterOutside
<1>7. pending' \in SUBSET Rows  BY <1>4, <1>5 DEF Inv, TypeOK
<1> QED BY <1>1, <1>3, <1>4, <1>5, <1>6, <1>7, ScopedKept

LEMMA CommitScoped ==
    ASSUME Inv, Scoped, NEW t \in Threads, Commit(t)
    PROVE  Scoped'
<1> DEFINE level == client[t].level - 1
<1>1. /\ client[t].level \in 0 .. MaxLevel /\ client[t].level > 0
      /\ depth \in Nat
  BY RecordFact, BoundsAssumption DEF Commit, AtEnd, Inv, TypeOK
<1>2. level \in 0 .. MaxLevel  BY <1>1, BoundsAssumption
<1>3. CASE depth = 1
  <2>1. client' = Woken(Unwound(client, t, level)) /\ Released /\ owner = t
    BY <1>3 DEF Commit, MayEnter
  <2>2. level = 0  BY <1>3, <2>1 DEF Scoped
  <2>3. (\A u \in Threads : u # t => Stays(u)) /\ client'[t].level = level
    <3> HIDE DEF level
    <3> QED BY <1>2, <2>1, LeftAndWoken DEF Inv
  <2> QED BY <2>1, <2>2, <2>3, ScopedOver DEF Released
<1>4. CASE depth # 1
  <2>1. /\ client' = Unwound(client, t, level)
        /\ depth' = IF depth = 0 THEN 0 ELSE depth - 1
        /\ UNCHANGED <<owner, pending>>
    BY <1>4 DEF Commit
  <2>2. client \in [Threads -> Client]  BY DEF Inv, TypeOK
  <2>3. /\ \A u \in Threads : u # t => client'[u] = client[u]
        /\ client'[t].stage = "none" /\ client'[t].level = level
    <3> HIDE DEF level
    <3> QED BY <1>2, <2>1, <2>2, UnwoundFact
  <2>4. CASE depth = 0
    <3>1. client[t].stage = "failed" /\ client[t].level = 1
      BY <1>1, <2>4, WriterOutside DEF Commit, AtEnd
    <3>2. owner = NoThread /\ pending \in SUBSET Rows
      BY <2>4 DEF Inv, Turn, TypeOK
    <3>3. \A row \in Rows : row[1] \in Threads  BY DEF Rows
    <3> QED BY <2>1, <2>3, <2>4, <3>1, <3>2, <3>3, NoThreadAssumption
            DEF Scoped
  <2>5. CASE depth # 0
    <3>1. owner = t /\ level = depth - 1  BY <2>5 DEF Commit, MayEnter, Scoped
    <3>2. depth' = depth - 1 /\ depth' # 0  BY <1>1, <1>4, <2>1, <2>5
    <3> QED BY <2>1, <2>3, <3>1, <3>2 DEF Scoped
  <2> QED BY <2>4, <2>5
<1> QED BY <1>3, <1>4

LEMMA AbortScoped ==
    ASSUME Inv, Scoped, NEW t \in Threads, Abort(t) \/ CommitRaises(t)
    PROVE  Scoped'
<1>1. /\ client' = Woken(Thrown(t)) /\ owner = t
      /\ RolledBack(t) \/ Released
  BY DEF Abort, CommitRaises
<1>2. client[t].level \in Nat /\ client[t].level > 0
  BY <1>1, OwnerInside, RecordFact DEF Inv, TypeOK
<1>3. /\ \A u \in Threads : u # t => Stays(u)
      /\ client'[t].level = client[t].level - 1
      /\ client'[t].stage = IF client[t].level > 1 THEN "failed" ELSE "none"
  BY <1>1, <1>2, ThrownAndWoken DEF Inv
<1>4. client'[t].level \in Nat
      /\ (client'[t].level > 0 => client'[t].stage = "failed")
  BY <1>2, <1>3
<1>5. depth' = 0 /\ owner' = NoThread /\ pending' = {}
  BY <1>1 DEF RolledBack, Released
<1> QED BY <1>1, <1>3, <1>4, <1>5, ScopedOver

LEMMA LeaveScoped ==
    ASSUME Inv, Scoped, NEW t \in Threads, Leave(t)
    PROVE  Scoped'
<1>1. client \in [Threads -> Client] /\ 0 \in 0 .. MaxLevel
  BY BoundsAssumption DEF Inv, TypeOK
<1>2. /\ client' = Unwound(client, t, 0) /\ owner # t
      /\ UNCHANGED <<depth, owner, pending>>
  BY DEF Leave
<1>3. /\ \A u \in Threads : u # t => client'[u] = client[u]
      /\ client'[t].stage = "none" /\ client'[t].level = 0
  BY <1>1, <1>2, UnwoundFact
<1>4. \A row \in pending : row[1] \in Threads  BY DEF Inv, TypeOK, Rows
<1> QED BY <1>2, <1>3, <1>4 DEF Scoped

LEMMA CrashScoped ==
    ASSUME Inv, Crash
    PROVE  Scoped'
<1>1. \A t \in Threads : client'[t].level = 0
  <2> TAKE t \in Threads
  <2> DEFINE b == client[t].begun
  <2>1. client'[t] = Idle(b)  BY DEF Crash
  <2> HIDE DEF b
  <2>2. Idle(b).level = 0  BY DEF Idle
  <2> QED BY <2>1, <2>2
<1> QED BY <1>1, NoThreadAssumption DEF Crash, Scoped

LEMMA NextScoped ==
    ASSUME Rollbackers = {}, Inv, Scoped, [Next]_vars
    PROVE  Scoped'
<1>1. CASE UNCHANGED vars  BY <1>1 DEF vars, Scoped
<1>2. CASE Crash  BY <1>2, CrashScoped
<1>3. ASSUME NEW t \in Threads, NEW f \in Files, Publish(t, f)
      PROVE  Scoped'
  BY <1>3, PublishScoped
<1>4. ASSUME NEW t \in Threads,
             \/ Block(t) \/ Begin(t) \/ Register(t) \/ Write(t)
             \/ WriteFails(t) \/ Commit(t) \/ CommitRaises(t)
             \/ Abort(t) \/ HandOff(t) \/ Leave(t)
      PROVE  Scoped'
  <2>1. ~HandOff(t)  BY DEF HandOff
  <2> QED BY <1>4, <2>1, BeginScoped, PublishScoped, WriteScoped,
             CommitScoped, AbortScoped, LeaveScoped
<1> QED BY <1>1, <1>2, <1>3, <1>4, Steps

LEMMA DeferredStep ==
    ASSUME Inv, Inv', Scoped, Next, NEW t \in Threads,
           client[t].level > 0, client'[t].level > 0,
           NEW row \in durable' \ durable, row[1] = t
    PROVE  FALSE
<1>1. /\ client[t].level \in Nat /\ depth \in Nat
  BY RecordFact, BoundsAssumption DEF Inv, TypeOK
<1>2. depth = 0 => row \notin pending  BY <1>1 DEF Scoped
<1>3. ASSUME NEW u \in Threads, Write(u)
      PROVE  FALSE
  <2>1. depth = 0 /\ row = RowOf(u) /\ client[u].stage \in {"none", "ready"}
    BY <1>1, <1>2, <1>3 DEF Write
  <2>2. u = t  BY <2>1, RowOfFact DEF Inv
  <2> QED BY <1>1, <2>1, <2>2, WriterOutside
<1>4. ASSUME NEW u \in Threads, Commit(u) \/ CommitRaises(u)
      PROVE  FALSE
  <2>1. depth = 1 /\ row \in pending /\ owner = u
    BY <1>4 DEF Commit, CommitRaises, MayEnter, Released, RolledBack
  <2>2. u = t /\ client[t].level = 1  BY <2>1 DEF Inv, Turn, Scoped
  <2>3. CASE Commit(u)
    <3>1. client' = Woken(Unwound(client, t, 0))
      BY <2>1, <2>2, <2>3 DEF Commit
    <3>2. 0 \in 0 .. MaxLevel  BY BoundsAssumption
    <3> QED BY <3>1, <3>2, LeftAndWoken DEF Inv
  <2>4. CASE CommitRaises(u)
    BY <2>2, <2>4, ThrownAndWoken DEF CommitRaises, Inv
  <2> QED BY <1>4, <2>3, <2>4
<1>5. ASSUME durable' = durable
      PROVE  FALSE
  BY <1>5
<1> QED BY <1>3, <1>4, <1>5, Steps DEF Block, Begin, Register, WriteFails,
           Abort, RolledBack, HandOff, Leave, Publish, Crash

\* No row of a thread becomes durable while the thread is still in a scope,
\* at any depth and after any rollback, where every thread rolls back only
\* what it owns (storage.py:137-191).
THEOREM DeferredCorrect ==
    ASSUME Rollbackers = {}
    PROVE  Spec => WritesDeferred
<1>1. Init => Scoped
  <2>1. ASSUME Init, NEW t \in Threads
        PROVE  client[t].level = 0
    <3>1. client[t] = Idle(0)  BY <2>1 DEF Init
    <3> QED BY <3>1 DEF Idle
  <2>2. Init => depth = 0 /\ owner = NoThread /\ pending = {}  BY DEF Init
  <2> QED BY <2>1, <2>2, NoThreadAssumption DEF Scoped
<1>2. Inv /\ Scoped /\ [Next]_vars => Scoped'  BY NextScoped
<1>3. Inv /\ Inv' /\ Scoped /\ [Next]_vars =>
          [\A t \in Threads :
               client[t].level > 0 /\ client'[t].level > 0 =>
                   \A row \in durable' \ durable : row[1] # t]_vars
  BY DeferredStep
<1> QED BY <1>1, <1>2, <1>3, SpecInv, PTL DEF Spec, WritesDeferred

-----------------------------------------------------------------------------
(* StorageTransaction implements UnitOfWork.                               *)

Busy == [t \in Threads |-> owner = t]
Unit == [t \in Threads |-> IF owner = t THEN pending ELSE {}]
Loose == IF depth = 0 THEN pending ELSE {}

\* The mapped state of a transaction owned by t, and of none.
LEMMA OwnedFact ==
    ASSUME Inv, NEW t \in Threads, owner = t
    PROVE  depth > 0 /\ depth # 0 /\ Busy[t] /\ Unit[t] = pending /\ Loose = {}
<1>1. depth \in Nat /\ depth > 0
  BY OwnerInside, BoundsAssumption DEF Inv, TypeOK
<1>2. Unit[t] = pending /\ Loose = {}  BY <1>1 DEF Unit, Loose
<1>3. Busy[t]  BY Zenon DEF Busy
<1> QED BY <1>1, <1>2, <1>3

LEMMA FreeFact ==
    ASSUME Inv, depth = 0
    PROVE  /\ Units!Free /\ Loose = pending /\ owner = NoThread
<1>1. owner = NoThread  BY DEF Inv, Turn
<1>2. \A t \in Threads : owner # t  BY <1>1, NoThreadAssumption
<1>3. Units!Free  BY <1>2, Zenon DEF Units!Free
<1> QED BY <1>1, <1>3 DEF Loose

\* Giving the transaction up empties its owner's unit.
LEMMA GivenUp ==
    ASSUME Inv, NEW t \in Threads, owner = t, owner' = NoThread,
           depth' = 0, pending' = {}
    PROVE  /\ Busy' = [Busy EXCEPT ![t] = FALSE]
           /\ Unit' = [Unit EXCEPT ![t] = {}]
           /\ Loose' = Loose
<1>1. \A u \in Threads : (owner' = u) = (IF u = t THEN FALSE ELSE owner = u)
  BY NoThreadAssumption
<1>2. Busy' = [u \in Threads |-> IF u = t THEN FALSE ELSE owner = u]
  BY <1>1, Zenon DEF Busy
<1>3. Busy' = [Busy EXCEPT ![t] = FALSE]
  BY <1>2, Zenon DEF Busy
<1>4. Unit' = [Unit EXCEPT ![t] = {}]
  BY NoThreadAssumption DEF Unit
<1>5. Loose' = Loose  BY OwnedFact DEF Loose
<1> QED BY <1>3, <1>4, <1>5

\* A step that leaves the owner and SQLite's rows alone is no step of a unit.
LEMMA Invisible ==
    ASSUME Inv, Inv', UNCHANGED <<owner, pending, durable>>
    PROVE  UNCHANGED Units!vars
<1>1. depth = 0 <=> depth' = 0  BY DEF Inv, Turn
<1>2. Busy' = Busy  BY Zenon DEF Busy
<1>3. Unit' = Unit  BY DEF Unit
<1>4. Loose' = Loose  BY <1>1 DEF Loose
<1> QED BY <1>2, <1>3, <1>4 DEF Units!vars, Busy, Unit, Loose

LEMMA UnitsBegin ==
    ASSUME Inv, NEW t \in Threads, Begin(t)
    PROVE  [Units!Next]_(Units!vars)
<1>1. owner' = t /\ depth' # 0 /\ pending' = pending /\ durable' = durable
      /\ (depth = 0 => ~open) /\ (depth = 0 \/ owner = t)
  BY BoundsAssumption DEF Begin, MayEnter, Inv, TypeOK
<1>2. CASE depth = 0
  <2>1. pending = {} /\ owner = NoThread  BY <1>1, <1>2 DEF Inv, Turn
  <2>2. Units!Free /\ Loose = {}  BY <1>2, <2>1, FreeFact
  <2>3. Busy' = [Busy EXCEPT ![t] = TRUE]
    <3>1. \A u \in Threads :
              (owner' = u) = (IF u = t THEN TRUE ELSE owner = u)
      BY <1>1, <2>1, NoThreadAssumption
    <3>2. Busy' = [u \in Threads |-> IF u = t THEN TRUE ELSE owner = u]
      BY <3>1, Zenon DEF Busy
    <3> QED BY <3>2, Zenon DEF Busy
  <2>4. Unit' = Unit  BY <1>1, <2>1 DEF Unit
  <2>5. Loose' = Loose  BY <1>1, <2>1 DEF Loose
  <2>6. Units!Begin(t)
    BY <1>1, <2>2, <2>3, <2>4, <2>5 DEF Units!Begin, Busy, Unit, Loose
  <2> QED BY <2>6 DEF Units!Next
<1>3. CASE owner = t
  <2>1. depth # 0  BY <1>3, OwnedFact
  <2>2. Busy' = Busy  BY <1>1, <1>3, Zenon DEF Busy
  <2>3. Unit' = Unit  BY <1>1, <1>3 DEF Unit
  <2>4. Loose' = Loose  BY <1>1, <2>1 DEF Loose
  <2> QED BY <1>1, <2>2, <2>3, <2>4 DEF Units!vars, Busy, Unit, Loose
<1> QED BY <1>1, <1>2, <1>3

LEMMA UnitsAbort ==
    ASSUME Inv, NEW t \in Threads, owner = t, owner' = NoThread,
           depth' = 0, pending' = {}, durable' = durable
    PROVE  Units!Next
<1>1. Units!Abort(t)
  BY OwnedFact, GivenUp DEF Units!Abort, Busy, Unit, Loose
<1> QED BY <1>1 DEF Units!Next

LEMMA UnitsCommit ==
    ASSUME Inv, NEW t \in Threads, owner = t, owner' = NoThread,
           depth' = 0, pending' = {}, durable' = durable \union pending
    PROVE  Units!Next
<1>1. Units!Commit(t)
  BY OwnedFact, GivenUp DEF Units!Commit, Busy, Unit, Loose
<1> QED BY <1>1 DEF Units!Next

LEMMA UnitsCommitted ==
    ASSUME Inv, Inv', NEW t \in Threads, Commit(t)
    PROVE  [Units!Next]_(Units!vars)
<1>1. CASE depth = 1
  <2>1. owner = t  BY <1>1 DEF Commit, MayEnter
  <2> QED BY <1>1, <2>1, UnitsCommit DEF Commit, Released
<1>2. CASE depth # 1
  BY <1>2, Invisible DEF Commit
<1> QED BY <1>1, <1>2

LEMMA UnitsWrite ==
    ASSUME Inv, NEW t \in Threads, Write(t)
    PROVE  [Units!Next]_(Units!vars)
<1>1. PICK item \in Items : RowOf(t) = <<t, item>>
  BY RecordFact DEF Inv, TypeOK, RowOf
<1>2. depth \in Nat /\ (depth = 0 \/ owner = t) /\ owner' = owner
      /\ depth' = depth
  BY BoundsAssumption DEF Inv, TypeOK, Write, MayEnter
<1>3. Busy' = Busy  BY <1>2, Zenon DEF Busy
<1>4. CASE depth = 0
  <2>1. /\ durable' = durable \union pending \union {<<t, item>>}
        /\ pending' = {}
    BY <1>1, <1>2, <1>4 DEF Write
  <2>2. Units!Free /\ Loose = pending /\ owner = NoThread
    BY <1>4, FreeFact
  <2>3. Unit' = Unit  BY <1>2, <2>2, NoThreadAssumption DEF Unit
  <2>4. Loose' = {}  BY <2>1 DEF Loose
  <2>5. Units!Save(t, item)
    BY <1>3, <2>1, <2>2, <2>3, <2>4 DEF Units!Save, Busy, Unit, Loose
  <2> QED BY <2>5 DEF Units!Next
<1>5. CASE depth # 0
  <2>1. /\ pending' = pending \union {<<t, item>>} /\ durable' = durable
        /\ owner = t
    BY <1>1, <1>2, <1>5 DEF Write
  <2>2. Busy[t] /\ Unit[t] = pending /\ Loose = {}
    BY <2>1, OwnedFact
  <2>3. Unit' = [Unit EXCEPT ![t] = @ \union {<<t, item>>}]
    BY <1>2, <2>1, <2>2 DEF Unit
  <2>4. Loose' = Loose  BY <1>2, <1>5 DEF Loose
  <2>5. Units!Add(t, item)
    BY <1>3, <2>1, <2>2, <2>3, <2>4 DEF Units!Add, Busy, Unit, Loose
  <2> QED BY <2>5 DEF Units!Next
<1> QED BY <1>4, <1>5

LEMMA UnitsWriteFails ==
    ASSUME Inv, Inv', NEW t \in Threads, WriteFails(t)
    PROVE  [Units!Next]_(Units!vars)
<1>1. PICK item \in Items : RowOf(t) = <<t, item>>
  BY RecordFact DEF Inv, TypeOK, RowOf
<1>2. owner' = owner /\ durable' = durable /\ depth' = depth
  BY DEF WriteFails
<1>3. CASE pending' = pending  BY <1>2, <1>3, Invisible
<1>4. CASE depth = 0 /\ pending' = pending \union {<<t, item>>}
  <2>1. Units!Free /\ Loose = pending /\ owner = NoThread
    BY <1>4, FreeFact
  <2>2. Busy' = Busy  BY <1>2, Zenon DEF Busy
  <2>3. Unit' = Unit  BY <1>2, <2>1, NoThreadAssumption DEF Unit
  <2>4. Loose' = Loose \union {<<t, item>>}
    BY <1>2, <1>4, <2>1 DEF Loose
  <2>5. Units!Lose(t, item)
    BY <1>2, <2>1, <2>2, <2>3, <2>4 DEF Units!Lose, Busy, Unit, Loose
  <2> QED BY <2>5 DEF Units!Next
<1> QED BY <1>1, <1>3, <1>4 DEF WriteFails

LEMMA UnitsCrash ==
    ASSUME Crash
    PROVE  Units!Next
<1>1. \A t \in Threads : owner' # t  BY NoThreadAssumption DEF Crash
<1>2. Busy' = [t \in Threads |-> FALSE]
  <2>1. \A t \in Threads : (owner' = t) = FALSE  BY <1>1
  <2> QED BY <2>1, Zenon DEF Busy
<1>3. Unit' = [t \in Threads |-> {}]  BY <1>1 DEF Unit
<1>4. Loose' = {} /\ durable' = durable  BY DEF Loose, Crash
<1>5. Units!Crash
  BY <1>2, <1>3, <1>4 DEF Units!Crash, Busy, Unit, Loose
<1> QED BY <1>5 DEF Units!Next

LEMMA UnitsRolledBack ==
    ASSUME Inv, NEW t \in Threads, RolledBack(t), depth # 0
    PROVE  Units!Next
<1>1. owner \in Threads  BY DEF Inv, TypeOK, Turn
<1> QED BY <1>1, UnitsAbort DEF RolledBack

LEMMA UnitsStep ==
    ASSUME Inv, Inv', [Next]_vars
    PROVE  [Units!Next]_(Units!vars)
<1>1. CASE UNCHANGED vars  BY <1>1, Invisible DEF vars
<1>2. CASE Crash  BY <1>2, UnitsCrash
<1>3. ASSUME NEW t \in Threads, NEW f \in Files, Publish(t, f)
      PROVE  [Units!Next]_(Units!vars)
  BY <1>3, Invisible DEF Publish
<1>4. ASSUME NEW t \in Threads, Block(t) \/ Register(t) \/ Leave(t)
      PROVE  [Units!Next]_(Units!vars)
  BY <1>4, Invisible DEF Block, Register, Leave
<1>5. ASSUME NEW t \in Threads, Abort(t) \/ HandOff(t)
      PROVE  [Units!Next]_(Units!vars)
  <2>1. RolledBack(t)  BY <1>5 DEF Abort, HandOff
  <2>2. depth # 0
    <3>1. CASE HandOff(t)  BY <3>1 DEF HandOff, MayEnter
    <3>2. CASE owner = t  BY <3>2, OwnedFact
    <3> QED BY <1>5, <3>1, <3>2 DEF Abort
  <2> QED BY <2>1, <2>2, UnitsRolledBack
<1>6. ASSUME NEW t \in Threads, CommitRaises(t)
      PROVE  [Units!Next]_(Units!vars)
  <2>1. owner = t /\ depth # 0  BY <1>6 DEF CommitRaises
  <2>2. CASE RolledBack(t)  BY <2>1, <2>2, UnitsRolledBack
  <2>3. CASE Released /\ durable' = durable
    BY <2>1, <2>3, UnitsAbort DEF Released
  <2>4. CASE Released /\ durable' = durable \union pending
    BY <2>1, <2>4, UnitsCommit DEF Released
  <2> QED BY <1>6, <2>2, <2>3, <2>4 DEF CommitRaises
<1>7. ASSUME NEW t \in Threads,
             \/ Begin(t) \/ Write(t) \/ WriteFails(t) \/ Commit(t)
      PROVE  [Units!Next]_(Units!vars)
  BY <1>7, UnitsBegin, UnitsWrite, UnitsWriteFails, UnitsCommitted
<1>8. CASE Next
  BY <1>2, <1>3, <1>4, <1>5, <1>6, <1>7, <1>8, Steps
<1> QED BY <1>1, <1>8

LEMMA UnitsInit ==
    ASSUME Init
    PROVE  Units!Init
<1>1. \A t \in Threads : owner # t  BY NoThreadAssumption DEF Init
<1>2. Busy = [t \in Threads |-> FALSE]
  <2>1. \A t \in Threads : (owner = t) = FALSE  BY <1>1
  <2> QED BY <2>1, Zenon DEF Busy
<1>3. Unit = [t \in Threads |-> {}]  BY <1>1 DEF Unit
<1>4. Loose = {} /\ durable \in SUBSET (Threads \X Items)
  BY DEF Loose, Init
<1> QED BY <1>2, <1>3, <1>4 DEF Units!Init, Units!Rows, Busy, Unit, Loose

\* The turn-taking, the counted nesting, the commit that may raise and the
\* rollbacks of blocks/storage.py together implement one atomic unit of work
\* per owner.
THEOREM UnitsImplemented == Spec => ImplementsUnits
<1>1. Init => Units!Init  BY UnitsInit
<1>2. Inv /\ Inv' /\ [Next]_vars => [Units!Next]_(Units!vars)
  BY UnitsStep
<1> QED BY <1>1, <1>2, SpecInv, PTL DEF Spec, ImplementsUnits, Units!Spec
=============================================================================
