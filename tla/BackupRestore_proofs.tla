------------------------ MODULE BackupRestore_proofs ------------------------
(***************************************************************************)
(* Proofs about BackupRestore, for every set of threads, tasks, backups    *)
(* and approvals and any number of crashes and corruptions.  The idea: all *)
(* copies of the records, in memory, in the rows, listed by a sync or read *)
(* by a reload, are genuine, and so is every restore that is under way.    *)
(***************************************************************************)
EXTENDS BackupRestore, TLAPS

-----------------------------------------------------------------------------
(* Shapes *)

Applying == [pc : {"apply"}, snapshot : Snapshots, backup : Backups,
             approval : Approvals, checkpoint : Backups]
Syncing == [pc : {"sync"}, listed : Rows, load : Nat, next : {Idle} \cup Applying]
Loading == [pc : {"load"}, approval : Approvals]
Swapping == [pc : {"swap"}, approval : Approvals, loaded : Rows]
ThreadStates == {Idle} \cup Syncing \cup Applying \cup Loading \cup Swapping

\* Approval records and stored backups
Entries == {None} \cup [target : Backups, status : {"pending", "approved", "rejected"},
                        by : Deciders \cup {None}]
Kept == {None} \cup [snapshot : Snapshots, checksum : Snapshots]

Shapes ==
  /\ mem \in Rows
  /\ db \in [rows : Rows, ledger : SUBSET Approvals, loads : Nat]
  /\ th \in [Threads -> ThreadStates]
  /\ made \in [Backups -> {None} \cup Snapshots]
  /\ asked \in [Approvals -> {None} \cup Backups]
  /\ granted \in SUBSET Approvals
  /\ applied \in [Approvals -> Nat]

LEMMA ShapesGiveTypes == Shapes => TypeOK
BY DEF Shapes, TypeOK, ThreadStates, Idle, Syncing, Applying, Loading, Swapping

LEMMA EmptyShape == EmptyRows \in Rows
BY BoundsAssumption DEF EmptyRows, Rows, Snapshots

\* One collection of the records is replaced.
LEMMA RecordUpdate ==
  ASSUME NEW r \in Rows
  PROVE  /\ \A x \in Snapshots : [r EXCEPT !.tasks = x] \in Rows
         /\ \A x \in [Approvals -> Entries] : [r EXCEPT !.approvals = x] \in Rows
         /\ \A x \in [Backups -> Kept] : [r EXCEPT !.backups = x] \in Rows
         /\ \A x \in SUBSET Approvals : [r EXCEPT !.restored = x] \in Rows
<1> Rows = [tasks : Snapshots, approvals : [Approvals -> Entries],
            backups : [Backups -> Kept], restored : SUBSET Approvals]
  BY DEF Rows, Entries, Kept
<1> QED
  OBVIOUS

\* What a sync writes are records.
LEMMA WrittenShape ==
  ASSUME NEW r \in Rows, NEW m \in Rows
  PROVE  Written(r, m) \in Rows
<1>1. [k \in Tasks |-> IF m.tasks[k] = 0 THEN r.tasks[k] ELSE m.tasks[k]] \in Snapshots
  BY DEF Rows, Snapshots
<1>2. Rows = [tasks : Snapshots, approvals : [Approvals -> Entries],
              backups : [Backups -> Kept], restored : SUBSET Approvals]
  BY DEF Rows, Entries, Kept
<1>3. [a \in Approvals |-> IF m.approvals[a] = None THEN r.approvals[a] ELSE m.approvals[a]]
        \in [Approvals -> Entries]
  BY <1>2
<1>4. [b \in Backups |-> IF r.backups[b] = None THEN m.backups[b] ELSE r.backups[b]]
        \in [Backups -> Kept]
  BY <1>2
<1> QED
  BY <1>1, <1>2, <1>3, <1>4 DEF Written

LEMMA CurrentShape ==
  ASSUME NEW m \in Rows, mem \in Rows
  PROVE  Current(m) \in Rows
<1>1. \A k \in Tasks : (IF m.tasks[k] = 0 THEN 0 ELSE mem.tasks[k]) \in 0 .. MaxVersion
  BY BoundsAssumption DEF Rows, Snapshots
<1> QED
  BY <1>1 DEF Current, Rows, Snapshots

-----------------------------------------------------------------------------
(* What makes a copy genuine                                               *)

\* The history so far, with the restores that the ledger knows.
H == [made |-> made, asked |-> asked, granted |-> granted, ledger |-> db.ledger]

\* The backups of r have the checksum they were made with, its approvals the
\* target they were asked for, those of human_root were given by human_root, and
\* the restores it knows of are in the ledger.
Genuine(r, h) ==
  /\ \A b \in Backups :
       r.backups[b] # None => h.made[b] # None /\ r.backups[b].checksum = h.made[b]
  /\ \A a \in Approvals :
       r.approvals[a] # None =>
         /\ r.approvals[a].target = h.asked[a]
         /\ r.approvals[a].status = "approved" /\ r.approvals[a].by = "human_root"
              => a \in h.granted
  /\ r.restored \subseteq h.ledger

\* A restore that is about to be applied.
Ready(w, h) ==
  /\ h.asked[w.approval] = w.backup
  /\ w.approval \in h.granted
  /\ h.made[w.backup] # None /\ w.snapshot = h.made[w.backup]

\* What a thread holds, over the stored backups.
ThreadOK(w, h, stored) ==
  /\ w.pc = "sync" => /\ Genuine(w.listed, h)
                      /\ w.next.pc = "apply" =>
                           Ready(w.next, h) /\ w.listed.backups[w.next.checkpoint] # None
  /\ w.pc = "apply" => Ready(w, h) /\ stored[w.checkpoint] # None
  /\ w.pc = "swap" => Genuine(w.loaded, h)
  /\ w.pc \in {"load", "swap"} => w.approval \in h.ledger

CopiesGenuine ==
  /\ Genuine(mem, H) /\ Genuine(db.rows, H)
  /\ \A t \in Threads : ThreadOK(th[t], H, db.rows.backups)

LedgerCounts == \A a \in Approvals : applied[a] = IF a \in db.ledger THEN 1 ELSE 0

Inv == Shapes /\ CopiesGenuine /\ LedgerCounts

\* What was made, asked or granted stays as it is, and so does the ledger.
Grows(h, k) ==
  /\ \A b \in Backups : h.made[b] # None => k.made[b] = h.made[b]
  /\ \A a \in Approvals : h.asked[a] # None => k.asked[a] = h.asked[a]
  /\ h.granted \subseteq k.granted /\ h.ledger \subseteq k.ledger

LEMMA GenuineStays ==
  ASSUME NEW r \in Rows, NEW h, NEW k, Genuine(r, h), Grows(h, k)
  PROVE  Genuine(r, k)
<1>1. \A a \in Approvals : r.approvals[a] # None => r.approvals[a].target # None
  BY NoneAssumption DEF Rows
<1> QED
  BY <1>1 DEF Genuine, Grows

LEMMA ReadyStays ==
  ASSUME NEW w \in Applying, NEW h, NEW k, Ready(w, h), Grows(h, k)
  PROVE  Ready(w, k)
BY NoneAssumption DEF Ready, Grows, Applying

LEMMA ThreadStays ==
  ASSUME NEW w \in ThreadStates, NEW h, NEW k, NEW s, NEW u,
         ThreadOK(w, h, s), Grows(h, k), \A b \in Backups : s[b] # None => u[b] # None
  PROVE  ThreadOK(w, k, u)
<1>1. CASE w.pc = "sync"
  <2>1. w.listed \in Rows /\ w.next \in {Idle} \cup Applying
    BY <1>1 DEF ThreadStates, Idle, Syncing, Applying, Loading, Swapping
  <2>2. w.next.pc = "apply" => w.next \in Applying
    BY <2>1 DEF Idle
  <2> QED
    BY <1>1, <2>1, <2>2, GenuineStays, ReadyStays DEF ThreadOK
<1>2. CASE w.pc = "apply"
  <2>1. w \in Applying
    BY <1>2 DEF ThreadStates, Idle, Syncing, Applying, Loading, Swapping
  <2> QED
    BY <1>2, <2>1, ReadyStays DEF ThreadOK, Applying
<1>3. CASE w.pc = "swap"
  <2>1. w.loaded \in Rows
    BY <1>3 DEF ThreadStates, Idle, Syncing, Applying, Loading, Swapping
  <2> QED
    BY <1>3, <2>1, GenuineStays DEF ThreadOK, Grows
<1>4. CASE w.pc \notin {"sync", "apply", "swap"}
  BY <1>4 DEF ThreadOK, Grows
<1> QED
  BY <1>1, <1>2, <1>3, <1>4

\* An upsert of a genuine copy leaves the rows genuine, and writes its backups.
LEMMA GenuineWritten ==
  ASSUME NEW r \in Rows, NEW c \in Rows, NEW h, Genuine(r, h), Genuine(c, h)
  PROVE  /\ Genuine(Written(r, c), h)
         /\ \A b \in Backups : r.backups[b] # None \/ c.backups[b] # None =>
              Written(r, c).backups[b] # None
BY DEF Genuine, Written, Rows

LEMMA GenuineCurrent ==
  ASSUME NEW c \in Rows, mem \in Rows, NEW h, Genuine(mem, h), Genuine(c, h)
  PROVE  Genuine(Current(c), h) /\ Current(c).backups = c.backups
BY DEF Genuine, Current, Rows

-----------------------------------------------------------------------------
(* Steps                                                                   *)

\* A step of thread t keeps the invariant if what it writes is genuine.
LEMMA OneThreadSteps ==
  ASSUME Inv, Shapes', NEW t \in Threads,
         Grows(H, H'), Genuine(mem', H'), Genuine(db'.rows, H'),
         \A b \in Backups : db.rows.backups[b] # None => db'.rows.backups[b] # None,
         \A u \in Threads : u # t => th'[u] = th[u],
         ThreadOK(th'[t], H', db'.rows.backups),
         LedgerCounts'
  PROVE  Inv'
<1>1. ASSUME NEW u \in Threads PROVE ThreadOK(th'[u], H', db'.rows.backups)
  <2>1. CASE u # t
    <3>1. th[u] \in ThreadStates /\ ThreadOK(th[u], H, db.rows.backups)
      BY DEF Inv, Shapes, CopiesGenuine
    <3>2. ThreadOK(th[u], H', db'.rows.backups)
      BY <3>1, ThreadStays
    <3> QED
      BY <2>1, <3>2
  <2> QED
    BY <2>1
<1> QED
  BY <1>1 DEF Inv, CopiesGenuine

\* A request changes memory, lists it and says what comes after the sync.
LEMMA RequestSteps ==
  ASSUME Inv, NEW t \in Threads, NEW next \in {Idle} \cup Applying,
         BeginSync(t, mem', next), mem' \in Rows, Genuine(mem', H'),
         UNCHANGED <<db, applied>>, Grows(H, H'),
         made' \in [Backups -> {None} \cup Snapshots],
         asked' \in [Approvals -> {None} \cup Backups], granted' \in SUBSET Approvals,
         next.pc = "apply" => Ready(next, H') /\ mem'.backups[next.checkpoint] # None
  PROVE  Inv'
<1>1. /\ th'[t] = [pc |-> "sync", listed |-> mem', load |-> db.loads, next |-> next]
      /\ \A u \in Threads : u # t => th'[u] = th[u]
      /\ th' \in [Threads -> ThreadStates]
  <2>1. [pc |-> "sync", listed |-> mem', load |-> db.loads, next |-> next] \in Syncing
    BY DEF Inv, Shapes, Syncing
  <2> QED
    BY <2>1 DEF Inv, Shapes, BeginSync, ThreadStates
<1>2. Shapes'
  BY <1>1 DEF Inv, Shapes
<1>3. ThreadOK(th'[t], H', db'.rows.backups)
  BY <1>1 DEF ThreadOK
<1>4. Genuine(db'.rows, H')
  BY GenuineStays DEF Inv, Shapes, CopiesGenuine
<1>5. LedgerCounts'
  BY DEF Inv, LedgerCounts
<1> QED
  BY <1>1, <1>2, <1>3, <1>4, <1>5, OneThreadSteps

LEMMA WriteTaskStep ==
  ASSUME Inv, NEW t \in Threads, NEW k \in Tasks, WriteTask(t, k)
  PROVE  Inv'
<1>1. mem \in Rows /\ mem.tasks \in Snapshots /\ UNCHANGED <<made, asked, granted>>
  BY DEF Inv, Shapes, Rows, WriteTask, history
<1> DEFINE new == [mem.tasks EXCEPT ![k] = @ + 1]
<1>2. mem' = [mem EXCEPT !.tasks = new]
  BY DEF WriteTask
<1>3. new \in Snapshots
  BY <1>1, BoundsAssumption DEF Snapshots, WriteTask
<1> HIDE DEF new
<1>4. mem' \in Rows /\ mem'.backups = mem.backups /\ mem'.approvals = mem.approvals
      /\ mem'.restored = mem.restored
  <2>1. \A r \in Rows : [r EXCEPT !.tasks = new] \in Rows
    BY <1>3, RecordUpdate
  <2> QED
    BY <1>1, <1>2, <2>1 DEF Rows
<1>5. H' = H /\ Grows(H, H')
  BY <1>1 DEF H, WriteTask, Grows
<1>6. Genuine(mem', H')
  BY <1>4, <1>5 DEF Inv, CopiesGenuine, Genuine
<1> QED
  BY <1>1, <1>4, <1>5, <1>6, RequestSteps DEF Inv, Shapes, WriteTask, Idle

LEMMA BackupStep ==
  ASSUME Inv, NEW t \in Threads, NEW b \in Backups, NEW next \in {Idle} \cup Applying,
         MakesBackup(t, b, next),
         next.pc = "apply" => Ready(next, H) /\ next.checkpoint = b
  PROVE  Inv'
<1> DEFINE new == [snapshot |-> mem.tasks, checksum |-> mem.tasks]
           kept == [mem.backups EXCEPT ![b] = new]
<1>1. /\ mem \in Rows /\ mem.tasks \in Snapshots /\ made[b] = None
      /\ made' = [made EXCEPT ![b] = mem.tasks] /\ made \in [Backups -> {None} \cup Snapshots]
      /\ UNCHANGED <<asked, granted, db, applied>>
      /\ BeginSync(t, mem', next)
  BY DEF Inv, Shapes, Rows, MakesBackup
<1>2. new # None /\ mem.tasks # None
  BY <1>1, NoneAssumption DEF Snapshots
<1>3. kept \in [Backups -> Kept] /\ kept[b] = new
      /\ \A c \in Backups : c # b => kept[c] = mem.backups[c]
  BY <1>1 DEF Rows, Kept
<1>4. mem' = [mem EXCEPT !.backups = kept]
  BY DEF MakesBackup
<1> HIDE DEF kept
<1>5. mem' \in Rows /\ mem'.backups = kept /\ mem'.approvals = mem.approvals
      /\ mem'.restored = mem.restored
  <2>1. \A r \in Rows : [r EXCEPT !.backups = kept] \in Rows
    BY <1>3, RecordUpdate
  <2> QED
    BY <1>1, <1>4, <2>1 DEF Rows
<1>6. /\ H'.made = made' /\ H'.asked = asked /\ H'.granted = granted /\ H'.ledger = db.ledger
      /\ H.made = made /\ H.asked = asked /\ H.granted = granted /\ H.ledger = db.ledger
  BY <1>1 DEF H
<1>7. Grows(H, H')
  BY <1>1, <1>6 DEF Grows
<1>8. Genuine(mem, H')
  BY <1>1, <1>7, GenuineStays DEF Inv, CopiesGenuine
<1>9. made'[b] = mem.tasks
  BY <1>1
<1>10. Genuine(mem', H')
  BY <1>2, <1>3, <1>5, <1>6, <1>8, <1>9 DEF Genuine
<1>11. next.pc = "apply" => Ready(next, H') /\ mem'.backups[next.checkpoint] # None
  <2> SUFFICES ASSUME next.pc = "apply"
               PROVE  Ready(next, H') /\ mem'.backups[next.checkpoint] # None
    OBVIOUS
  <2>1. next \in Applying
    BY DEF Idle
  <2> QED
    BY <1>2, <1>3, <1>5, <1>7, <2>1, ReadyStays
<1>12. made' \in [Backups -> {None} \cup Snapshots]
  BY <1>1
<1> QED
  BY <1>1, <1>5, <1>7, <1>10, <1>11, <1>12, RequestSteps DEF Inv, Shapes

LEMMA RequestRestoreStep ==
  ASSUME Inv, NEW t \in Threads, NEW b \in Backups, NEW a \in Approvals,
         RequestRestore(t, b, a)
  PROVE  Inv'
<1> DEFINE new == [target |-> b, status |-> "pending", by |-> None]
           entries == [mem.approvals EXCEPT ![a] = new]
<1>1. /\ mem \in Rows /\ asked[a] = None /\ asked' = [asked EXCEPT ![a] = b]
      /\ asked \in [Approvals -> {None} \cup Backups]
      /\ UNCHANGED <<made, granted, db, applied>>
      /\ BeginSync(t, mem', Idle)
  BY DEF Inv, Shapes, RequestRestore
<1>2. entries \in [Approvals -> Entries] /\ entries[a] = new
      /\ \A c \in Approvals : c # a => entries[c] = mem.approvals[c]
  BY <1>1 DEF Rows, Entries
<1>3. mem' = [mem EXCEPT !.approvals = entries]
  BY DEF RequestRestore
<1> HIDE DEF entries
<1>4. mem' \in Rows /\ mem'.approvals = entries /\ mem'.backups = mem.backups
      /\ mem'.restored = mem.restored
  <2>1. \A r \in Rows : [r EXCEPT !.approvals = entries] \in Rows
    BY <1>2, RecordUpdate
  <2> QED
    BY <1>1, <1>3, <2>1 DEF Rows
<1>5. /\ H'.made = made /\ H'.asked = asked' /\ H'.granted = granted /\ H'.ledger = db.ledger
      /\ H.made = made /\ H.asked = asked /\ H.granted = granted /\ H.ledger = db.ledger
  BY <1>1 DEF H
<1>6. Grows(H, H') /\ asked'[a] = b /\ asked' \in [Approvals -> {None} \cup Backups]
  BY <1>1, <1>5 DEF Grows
<1>7. Genuine(mem, H')
  BY <1>1, <1>6, GenuineStays DEF Inv, CopiesGenuine
<1>8. Genuine(mem', H')
  BY <1>2, <1>4, <1>5, <1>6, <1>7 DEF Genuine
<1>9. Idle.pc # "apply" /\ Idle \in {Idle} \cup Applying
  BY DEF Idle
<1> QED
  BY <1>1, <1>4, <1>6, <1>8, <1>9, RequestSteps DEF Inv, Shapes

LEMMA DecideStep ==
  ASSUME Inv, NEW t \in Threads, NEW a \in Approvals,
         NEW decision \in {"approved", "rejected"}, NEW by \in Deciders,
         Decide(t, a, decision, by)
  PROVE  Inv'
<1> DEFINE old == mem.approvals[a]
           new == [old EXCEPT !.status = decision, !.by = by]
           entries == [mem.approvals EXCEPT ![a] = new]
<1>1. /\ mem \in Rows /\ old # None /\ old \in Entries
      /\ granted' = IF decision = "approved" /\ by = "human_root" THEN granted \cup {a}
                                                                   ELSE granted
      /\ UNCHANGED <<made, asked, db, applied>>
      /\ BeginSync(t, mem', Idle)
  BY DEF Inv, Shapes, Decide, Rows, Entries
<1>2. new \in Entries /\ new.target = old.target /\ new.status = decision /\ new.by = by
  BY <1>1 DEF Entries
<1>3. entries \in [Approvals -> Entries] /\ entries[a] = new
      /\ \A c \in Approvals : c # a => entries[c] = mem.approvals[c]
  BY <1>1, <1>2 DEF Rows, Entries
<1>4. mem' = [mem EXCEPT !.approvals = entries]
  BY <1>1 DEF Decide, Rows, Entries
<1> HIDE DEF entries, new
<1>5. mem' \in Rows /\ mem'.approvals = entries /\ mem'.backups = mem.backups
      /\ mem'.restored = mem.restored
  <2>1. \A r \in Rows : [r EXCEPT !.approvals = entries] \in Rows
    BY <1>3, RecordUpdate
  <2> QED
    BY <1>1, <1>4, <2>1 DEF Rows
<1>6. /\ H'.made = made /\ H'.asked = asked /\ H'.granted = granted' /\ H'.ledger = db.ledger
      /\ H.made = made /\ H.asked = asked /\ H.granted = granted /\ H.ledger = db.ledger
  BY <1>1 DEF H
<1>7. Grows(H, H') /\ granted' \in SUBSET Approvals
  BY <1>1, <1>6 DEF Grows, Inv, Shapes
<1>8. Genuine(mem, H')
  BY <1>1, <1>7, GenuineStays DEF Inv, CopiesGenuine
<1>9. decision = "approved" /\ by = "human_root" => a \in granted'
  BY <1>1
<1>10. Genuine(mem', H')
  BY <1>1, <1>2, <1>3, <1>5, <1>6, <1>8, <1>9 DEF Genuine
<1>11. Idle.pc # "apply" /\ Idle \in {Idle} \cup Applying
  BY DEF Idle
<1> QED
  BY <1>1, <1>5, <1>7, <1>10, <1>11, RequestSteps DEF Inv, Shapes

\* execute_backup_restore checks what makes the restore genuine.
LEMMA RestoreStartsStep ==
  ASSUME Inv, NEW t \in Threads, NEW b \in Backups, NEW c \in Backups, NEW a \in Approvals,
         RestoreStarts(t, b, a, c)
  PROVE  Inv'
<1> DEFINE w == [pc |-> "apply", snapshot |-> mem.backups[b].snapshot,
                 backup |-> b, approval |-> a, checkpoint |-> c]
<1>1. MayRestore(b, a) /\ MakesBackup(t, c, w)
  BY DEF RestoreStarts
<1>2. mem.backups[b] \in [snapshot : Snapshots, checksum : Snapshots]
  BY <1>1 DEF MayRestore, Inv, Shapes, Rows
<1>3. w \in Applying
  BY <1>2 DEF Applying
<1>4. Ready(w, H)
  <2>1. mem.backups[b].snapshot = mem.backups[b].checksum
    BY <1>1 DEF MayRestore, Verified
  <2>2. Genuine(mem, H)
    BY DEF Inv, CopiesGenuine
  <2>3. H.made[b] # None /\ mem.backups[b].checksum = H.made[b]
    BY <1>1, <2>2 DEF Genuine, MayRestore
  <2>4. H.asked[a] = b /\ a \in H.granted
    BY <1>1, <2>2 DEF Genuine, MayRestore
  <2> QED
    BY <2>1, <2>3, <2>4 DEF Ready
<1> QED
  BY <1>1, <1>3, <1>4, BackupStep

\* Steps of a thread that change neither memory nor the history.
LEMMA CommitStep ==
  ASSUME Inv, NEW t \in Threads, Commit(t)
  PROVE  Inv'
<1> DEFINE w == th[t]
           c == IF w.load = db.loads THEN Current(w.listed) ELSE w.listed
           rows == Written(db.rows, c)
<1>1. /\ w \in Syncing /\ ThreadOK(w, H, db.rows.backups) /\ th \in [Threads -> ThreadStates]
      /\ Genuine(mem, H) /\ Genuine(db.rows, H) /\ mem \in Rows /\ db.rows \in Rows
      /\ db' = [db EXCEPT !.rows = rows] /\ th' = [th EXCEPT ![t] = w.next]
      /\ UNCHANGED <<mem, made, asked, granted, applied>>
      /\ db \in [rows : Rows, ledger : SUBSET Approvals, loads : Nat]
  BY DEF Inv, CopiesGenuine, Shapes, ThreadStates, Idle, Applying, Loading, Swapping, Commit,
         history
<1>2. w.pc = "sync" /\ w.listed \in Rows /\ w.next \in {Idle} \cup Applying
  BY <1>1 DEF Syncing
<1>3. Genuine(w.listed, H)
  BY <1>1, <1>2 DEF ThreadOK
<1>4. c \in Rows /\ Genuine(c, H) /\ c.backups = w.listed.backups
  BY <1>1, <1>2, <1>3, CurrentShape, GenuineCurrent
<1> HIDE DEF c
<1>5. /\ rows \in Rows /\ Genuine(rows, H)
      /\ \A b \in Backups : db.rows.backups[b] # None \/ c.backups[b] # None =>
           rows.backups[b] # None
  BY <1>1, <1>4, WrittenShape, GenuineWritten
<1> HIDE DEF rows
<1>6. /\ db' \in [rows : Rows, ledger : SUBSET Approvals, loads : Nat]
      /\ db'.rows = rows /\ db'.ledger = db.ledger
  BY <1>1, <1>5
<1>7. H' = H
  BY <1>1, <1>6 DEF H
<1>8. Shapes'
  BY <1>1, <1>2, <1>6 DEF Inv, Shapes, ThreadStates
<1>9. ThreadOK(w.next, H', db'.rows.backups)
  <2>1. CASE w.next = Idle
    BY <2>1 DEF ThreadOK, Idle
  <2>2. CASE w.next \in Applying
    <3>1. w.next.pc = "apply" /\ w.next.checkpoint \in Backups
      BY <2>2 DEF Applying
    <3>2. Ready(w.next, H) /\ w.listed.backups[w.next.checkpoint] # None
      BY <1>1, <1>2, <3>1 DEF ThreadOK
    <3> QED
      BY <1>4, <1>5, <1>6, <1>7, <3>1, <3>2 DEF ThreadOK
  <2> QED
    BY <1>2, <2>1, <2>2
<1>10. th'[t] = w.next /\ \A u \in Threads : u # t => th'[u] = th[u]
  BY <1>1
<1>11. LedgerCounts'
  BY <1>1, <1>6 DEF Inv, LedgerCounts
<1>12. Genuine(mem', H') /\ Genuine(db'.rows, H') /\ Grows(H, H')
  BY <1>1, <1>5, <1>6, <1>7 DEF Grows
<1>13. \A b \in Backups : db.rows.backups[b] # None => db'.rows.backups[b] # None
  BY <1>5, <1>6
<1> QED
  BY <1>8, <1>9, <1>10, <1>11, <1>12, <1>13, OneThreadSteps

LEMMA ApplyStep ==
  ASSUME Inv, NEW t \in Threads, Apply(t)
  PROVE  Inv'
<1> DEFINE w == th[t]
           rows == [db.rows EXCEPT !.tasks = w.snapshot]
<1>1. /\ w \in Applying /\ ThreadOK(w, H, db.rows.backups) /\ th \in [Threads -> ThreadStates]
      /\ Genuine(mem, H) /\ Genuine(db.rows, H) /\ db.rows \in Rows
      /\ UNCHANGED <<mem, made, asked, granted>>
      /\ db \in [rows : Rows, ledger : SUBSET Approvals, loads : Nat]
      /\ w.approval \notin db.ledger
  BY DEF Inv, CopiesGenuine, Shapes, ThreadStates, Idle, Syncing, Loading, Swapping, Apply,
         history
<1>2. w.approval \in Approvals /\ w.snapshot \in Snapshots
  BY <1>1 DEF Applying
<1>3. db' = [db EXCEPT !.rows = rows, !.ledger = @ \cup {w.approval}]
  BY <1>1 DEF Apply, Rows
<1>4. rows \in Rows /\ rows.backups = db.rows.backups /\ rows.approvals = db.rows.approvals
      /\ rows.restored = db.rows.restored
  <2>1. \A x \in Snapshots : [db.rows EXCEPT !.tasks = x] \in Rows
    BY <1>1, RecordUpdate
  <2> QED
    BY <1>1, <1>2, <2>1 DEF Rows
<1> HIDE DEF rows
<1>5. /\ db' \in [rows : Rows, ledger : SUBSET Approvals, loads : Nat]
      /\ db'.rows = rows /\ db'.ledger = db.ledger \cup {w.approval}
  BY <1>1, <1>2, <1>3, <1>4
<1>6. /\ H'.made = made /\ H'.asked = asked /\ H'.granted = granted /\ H'.ledger = db'.ledger
      /\ H.made = made /\ H.asked = asked /\ H.granted = granted /\ H.ledger = db.ledger
  BY <1>1 DEF H
<1>7. Grows(H, H')
  BY <1>1, <1>5, <1>6 DEF Grows
<1>8. th' = [th EXCEPT ![t] = [pc |-> "load", approval |-> w.approval]]
  BY DEF Apply
<1>9. Genuine(mem, H') /\ Genuine(db.rows, H')
  BY <1>1, <1>7, GenuineStays DEF Inv, Shapes
<1>10. Genuine(mem', H') /\ Genuine(db'.rows, H')
  BY <1>1, <1>4, <1>5, <1>9 DEF Genuine
<1>11. applied' = [applied EXCEPT ![w.approval] = @ + 1] /\ applied \in [Approvals -> Nat]
  BY DEF Apply, Inv, Shapes
<1>12. LedgerCounts'
  BY <1>1, <1>2, <1>5, <1>11 DEF Inv, LedgerCounts
<1>13. [pc |-> "load", approval |-> w.approval] \in Loading
  BY <1>2 DEF Loading
<1>14. Shapes'
  BY <1>1, <1>2, <1>5, <1>8, <1>11, <1>13 DEF Inv, Shapes, ThreadStates
<1>15. ThreadOK(th'[t], H', db'.rows.backups)
  BY <1>1, <1>5, <1>6, <1>8 DEF ThreadOK
<1>16. \A u \in Threads : u # t => th'[u] = th[u]
  BY <1>1, <1>8
<1>17. \A b \in Backups : db.rows.backups[b] # None => db'.rows.backups[b] # None
  BY <1>4, <1>5
<1> QED
  BY <1>7, <1>10, <1>12, <1>14, <1>15, <1>16, <1>17, OneThreadSteps

LEMMA QuietStep ==
  ASSUME Inv, NEW t \in Threads, ApplyRefused(t) \/ Load(t)
  PROVE  Inv'
<1>1. UNCHANGED <<mem, db, made, asked, granted, applied>> /\ th \in [Threads -> ThreadStates]
  BY DEF Inv, Shapes, ApplyRefused, Load, history
<1>2. H' = H /\ Grows(H, H')
  BY <1>1 DEF H, Grows
<1>3. th'[t] \in ThreadStates /\ ThreadOK(th'[t], H, db.rows.backups)
  <2>1. CASE ApplyRefused(t)
    BY <1>1, <2>1 DEF ApplyRefused, ThreadStates, ThreadOK, Idle
  <2>2. CASE Load(t)
    <3>1. th[t] \in Loading /\ ThreadOK(th[t], H, db.rows.backups)
      BY <2>2 DEF Inv, CopiesGenuine, Shapes, ThreadStates, Idle, Syncing, Applying, Swapping, Load
    <3>2. th'[t] = [pc |-> "swap", approval |-> th[t].approval, loaded |-> db.rows]
      BY <1>1, <2>2 DEF Load
    <3>3. db.rows \in Rows /\ Genuine(db.rows, H)
      BY DEF Inv, Shapes, CopiesGenuine
    <3> QED
      BY <3>1, <3>2, <3>3 DEF ThreadStates, ThreadOK, Loading, Swapping
  <2> QED
    BY <2>1, <2>2
<1>4. th' \in [Threads -> ThreadStates] /\ \A u \in Threads : u # t => th'[u] = th[u]
  BY <1>1, <1>3 DEF ApplyRefused, Load
<1>5. Shapes' /\ LedgerCounts'
  BY <1>1, <1>4 DEF Inv, Shapes, LedgerCounts
<1>6. Genuine(mem', H') /\ Genuine(db'.rows, H')
  BY <1>1, <1>2 DEF Inv, CopiesGenuine
<1> QED
  BY <1>1, <1>2, <1>3, <1>4, <1>5, <1>6, OneThreadSteps

LEMMA SwapStep ==
  ASSUME Inv, NEW t \in Threads, Swap(t)
  PROVE  Inv'
<1> DEFINE w == th[t]
           new == w.loaded.restored \cup {w.approval}
<1>1. /\ w \in Swapping /\ ThreadOK(w, H, db.rows.backups) /\ th \in [Threads -> ThreadStates]
      /\ UNCHANGED <<made, asked, granted, applied>>
      /\ db \in [rows : Rows, ledger : SUBSET Approvals, loads : Nat]
      /\ db' = [db EXCEPT !.loads = @ + 1]
      /\ mem' = [w.loaded EXCEPT !.restored = new]
      /\ th' = [th EXCEPT ![t] = [pc |-> "sync", listed |-> mem', load |-> db.loads + 1,
                                  next |-> Idle]]
  BY DEF Inv, CopiesGenuine, Shapes, ThreadStates, Idle, Syncing, Loading, Applying, Swap, history
<1>2. w.approval \in Approvals /\ w.loaded \in Rows /\ w.pc = "swap"
  BY <1>1 DEF Swapping
<1>3. new \in SUBSET Approvals
  BY <1>2 DEF Rows
<1>4. mem' \in Rows /\ mem'.backups = w.loaded.backups /\ mem'.approvals = w.loaded.approvals
      /\ mem'.restored = new
  <2>1. \A x \in SUBSET Approvals : [w.loaded EXCEPT !.restored = x] \in Rows
    BY <1>2, RecordUpdate
  <2> QED
    BY <1>1, <1>2, <1>3, <2>1 DEF Rows
<1>5. db' \in [rows : Rows, ledger : SUBSET Approvals, loads : Nat]
      /\ db'.rows = db.rows /\ db'.ledger = db.ledger
  BY <1>1
<1>6. H' = H /\ Grows(H, H') /\ H.ledger = db.ledger
  BY <1>1, <1>5 DEF H, Grows
<1>7. Genuine(w.loaded, H) /\ w.approval \in H.ledger
  BY <1>1, <1>2 DEF ThreadOK
<1>8. Genuine(mem', H')
  BY <1>4, <1>6, <1>7 DEF Genuine
<1>9. th'[t] = [pc |-> "sync", listed |-> mem', load |-> db.loads + 1, next |-> Idle]
      /\ \A u \in Threads : u # t => th'[u] = th[u]
  BY <1>1
<1>10. [pc |-> "sync", listed |-> mem', load |-> db.loads + 1, next |-> Idle] \in Syncing
  BY <1>1, <1>4 DEF Syncing
<1>11. Shapes'
  BY <1>1, <1>4, <1>5, <1>10 DEF Inv, Shapes, ThreadStates
<1>12. ThreadOK(th'[t], H', db'.rows.backups)
  BY <1>8, <1>9 DEF ThreadOK, Idle
<1>13. LedgerCounts' /\ Genuine(db'.rows, H')
  BY <1>1, <1>5, <1>6 DEF Inv, LedgerCounts, CopiesGenuine
<1> QED
  BY <1>5, <1>6, <1>8, <1>9, <1>11, <1>12, <1>13, OneThreadSteps

\* After a crash memory is what was stored.
LEMMA RestartStep == Inv /\ Restart => Inv'
<1> SUFFICES ASSUME Inv, Restart PROVE Inv'
  OBVIOUS
<1>1. UNCHANGED <<db, made, asked, granted, applied>> /\ mem' = db.rows
  BY DEF Restart, history
<1>2. th' \in [Threads -> ThreadStates] /\ \A t \in Threads : th'[t] = Idle
  BY DEF Restart, ThreadStates
<1>3. H' = H
  BY <1>1 DEF H
<1>4. Shapes' /\ LedgerCounts'
  BY <1>1, <1>2 DEF Inv, Shapes, LedgerCounts
<1>5. \A t \in Threads : ThreadOK(th'[t], H', db'.rows.backups)
  BY <1>2 DEF ThreadOK, Idle
<1> QED
  BY <1>1, <1>3, <1>4, <1>5 DEF Inv, CopiesGenuine

\* A changed snapshot no longer fits its checksum, which stays genuine.
LEMMA CorruptStep ==
  ASSUME Inv, NEW b \in Backups, Corrupt(b)
  PROVE  Inv'
<1>1. PICK s \in Snapshots : db' = [db EXCEPT !.rows.backups[b].snapshot = s]
  BY DEF Corrupt, Snapshots
<1> DEFINE old == db.rows.backups[b]
           new == [old EXCEPT !.snapshot = s]
           kept == [db.rows.backups EXCEPT ![b] = new]
           rows == [db.rows EXCEPT !.backups = kept]
<1>2. /\ UNCHANGED <<mem, th, made, asked, granted, applied>> /\ old # None
      /\ db \in [rows : Rows, ledger : SUBSET Approvals, loads : Nat] /\ db.rows \in Rows
      /\ old \in [snapshot : Snapshots, checksum : Snapshots]
  BY DEF Inv, Shapes, Rows, Corrupt, history
<1>3. new = [snapshot |-> s, checksum |-> old.checksum] /\ new \in Kept /\ new # None
  BY <1>2, NoneAssumption DEF Kept, Snapshots
<1>4. new.checksum = old.checksum
  BY <1>3
<1> HIDE DEF new
<1>5. kept \in [Backups -> Kept] /\ kept[b] = new
      /\ \A c \in Backups : c # b => kept[c] = db.rows.backups[c]
  BY <1>2, <1>3 DEF Rows, Kept
<1>6. db' = [db EXCEPT !.rows = rows]
  BY <1>1, <1>2 DEF Rows, new
<1> HIDE DEF kept
<1>7. rows \in Rows /\ rows.backups = kept /\ rows.approvals = db.rows.approvals
      /\ rows.restored = db.rows.restored
  <2>1. \A x \in [Backups -> Kept] : [db.rows EXCEPT !.backups = x] \in Rows
    BY <1>2, RecordUpdate
  <2> QED
    BY <1>2, <1>5, <2>1 DEF Rows
<1> HIDE DEF rows
<1>8. db' \in [rows : Rows, ledger : SUBSET Approvals, loads : Nat]
      /\ db'.rows = rows /\ db'.ledger = db.ledger
  BY <1>2, <1>6, <1>7
<1>9. H' = H /\ Grows(H, H')
  BY <1>2, <1>8 DEF H, Grows
<1>10. Genuine(db'.rows, H')
  <2>1. Genuine(db.rows, H)
    BY DEF Inv, CopiesGenuine
  <2> QED
    BY <1>2, <1>4, <1>5, <1>7, <1>8, <1>9, <2>1 DEF Genuine
<1>11. \A c \in Backups : db.rows.backups[c] # None => db'.rows.backups[c] # None
  BY <1>3, <1>5, <1>7, <1>8
<1>12. \A t \in Threads : ThreadOK(th'[t], H', db'.rows.backups)
  <2> SUFFICES ASSUME NEW t \in Threads PROVE ThreadOK(th[t], H', db'.rows.backups)
    BY <1>2
  <2>1. th[t] \in ThreadStates /\ ThreadOK(th[t], H, db.rows.backups)
    BY DEF Inv, Shapes, CopiesGenuine
  <2> QED
    BY <1>9, <1>11, <2>1, ThreadStays
<1>13. Shapes' /\ LedgerCounts' /\ Genuine(mem', H')
  BY <1>2, <1>8, <1>9 DEF Inv, Shapes, LedgerCounts, CopiesGenuine
<1> QED
  BY <1>10, <1>12, <1>13 DEF Inv, CopiesGenuine

-----------------------------------------------------------------------------
(* The invariant, and what follows from it                                 *)

LEMMA InvInit == Init => Inv
<1> SUFFICES ASSUME Init PROVE Inv
  OBVIOUS
<1>1. Shapes
  BY EmptyShape DEF Init, Shapes, ThreadStates
<1>2. Genuine(EmptyRows, H)
  BY DEF Genuine, EmptyRows
<1>3. \A t \in Threads : ThreadOK(th[t], H, db.rows.backups)
  BY DEF Init, ThreadOK, Idle
<1>4. CopiesGenuine
  BY <1>2, <1>3 DEF Init, CopiesGenuine
<1> QED
  BY <1>1, <1>4 DEF Inv, LedgerCounts, Init

LEMMA InvStep == Inv /\ [Next]_vars => Inv'
<1> SUFFICES ASSUME Inv, [Next]_vars PROVE Inv'
  OBVIOUS
<1>1. ASSUME NEW t \in Threads, Requests(t) PROVE Inv'
  <2>1. ASSUME NEW b \in Backups, CreateBackup(t, b) PROVE Inv'
    <3>1. Idle.pc # "apply"
      BY DEF Idle
    <3> QED
      BY <2>1, <3>1, BackupStep DEF CreateBackup
  <2> QED
    BY <1>1, <2>1, WriteTaskStep, RequestRestoreStep, DecideStep, RestoreStartsStep DEF Requests
<1>2. ASSUME NEW t \in Threads, Continues(t) PROVE Inv'
  BY <1>2, CommitStep, ApplyStep, QuietStep, SwapStep DEF Continues
<1>3. CASE UNCHANGED vars
  BY <1>3 DEF vars, history, Inv, Shapes, CopiesGenuine, LedgerCounts, Genuine, ThreadOK, Ready, H
<1> QED
  BY <1>1, <1>2, <1>3, RestartStep, CorruptStep DEF Next

LEMMA InvAlways == Spec => []Inv
BY InvInit, InvStep, PTL DEF Spec

\* Records, rows and threads keep their shape.
THEOREM TypesAlways == Spec => []TypeOK
<1>1. Inv => TypeOK
  BY ShapesGiveTypes DEF Inv
<1> QED
  BY <1>1, InvAlways, PTL

\* An approval restores at most once: restores are counted by the ledger, which
\* is written in the same transaction.
THEOREM RestoredOnce == Spec => []ApprovalRestoresOnce
<1>1. Inv => ApprovalRestoresOnce
  BY DEF Inv, LedgerCounts, ApprovalRestoresOnce
<1> QED
  BY <1>1, InvAlways, PTL

\* The audit log, in memory and stored, is never ahead of the ledger.
THEOREM AuditBehindLedger == Spec => []AuditImpliesLedger
<1>1. Inv => AuditImpliesLedger
  BY DEF Inv, CopiesGenuine, Genuine, H, AuditImpliesLedger
<1> QED
  BY <1>1, InvAlways, PTL

\* Only what human_root approved for that backup is restored, as it was backed
\* up, and with a stored checkpoint.
THEOREM OnlyGenuineRestores == Spec => RestoreIsGenuine
<1>1. Inv => [\A t \in Threads :
                Applies(t) =>
                  LET w == th[t] IN
                  /\ asked[w.approval] = w.backup
                  /\ w.approval \in granted
                  /\ w.snapshot = made[w.backup]
                  /\ db.rows.backups[w.checkpoint] # None]_vars
  BY DEF Inv, CopiesGenuine, ThreadOK, Ready, H, Applies
<1> QED
  BY <1>1, InvAlways, PTL DEF RestoreIsGenuine
=============================================================================
