---------------------------- MODULE BackupRestore ----------------------------
(***************************************************************************)
(* Backups and their approved restore: a snapshot with its checksum, the   *)
(* restore request and its approval, the safety checkpoint, the restore    *)
(* transaction with its one-use ledger, and the reload of the service's    *)
(* memory while other request threads go on.  A sync lists the records it  *)
(* will write when it starts and writes them as they are when it commits;  *)
(* records that a reload has replaced in memory are still written by the   *)
(* syncs that listed them.  PostgreSQL commits a sync in one transaction.  *)
(***************************************************************************)
EXTENDS Integers, FiniteSets

CONSTANTS Threads, Tasks, Backups, Approvals,
          Deciders, None,
          MaxVersion,                 \* bound on the changes of a task
          MaxRestarts, MaxCorruptions

ASSUME RootDecides == "human_root" \in Deciders
ASSUME NoneAssumption ==
  /\ None \notin Backups
  /\ \A s, c \in [Tasks -> 0 .. MaxVersion] : None # s /\ None # [snapshot |-> s, checksum |-> c]
ASSUME BoundsAssumption ==
  MaxVersion \in Nat /\ MaxRestarts \in Nat /\ MaxCorruptions \in Nat

VARIABLES
  mem,       \* the service's memory
  db,        \* the stored rows and the ledger backup_restore_executions
  th,        \* what each request thread is doing
  made,      \* what each backup recorded when it was created
  asked,     \* the backup each approval was requested for, None for an unused id
  granted,   \* the approvals human_root has approved
  applied,   \* committed restores of each approval
  restarts, corruptions

history == <<made, asked, granted>>
vars == <<mem, db, th, history, applied, restarts, corruptions>>
bounds == <<restarts, corruptions>>

Idle == [pc |-> "idle"]

\* 0 is a task that does not exist; a restore replaces tasks and nothing else.
EmptyRows == [tasks |-> [k \in Tasks |-> 0],
              approvals |-> [a \in Approvals |-> None],
              backups |-> [b \in Backups |-> None],
              restored |-> {}]                \* backup_restored audit events

Init ==
  /\ mem = EmptyRows
  /\ db = [rows |-> EmptyRows, ledger |-> {}, loads |-> 0]
  /\ th = [t \in Threads |-> Idle]
  /\ made = [b \in Backups |-> None]
  /\ asked = [a \in Approvals |-> None]
  /\ granted = {}
  /\ applied = [a \in Approvals |-> 0]
  /\ restarts = 0 /\ corruptions = 0

-----------------------------------------------------------------------------
(* sync *)

\* `loads' counts reloads of memory, to tell listed records that were replaced.
BeginSync(t, m, next) ==
  th' = [th EXCEPT ![t] = [pc |-> "sync", listed |-> m, load |-> db.loads, next |-> next]]

\* Upsert of tasks and approvals; backups and audit rows are append-only.
Written(rows, m) ==
  [tasks |-> [k \in Tasks |-> IF m.tasks[k] = 0 THEN rows.tasks[k] ELSE m.tasks[k]],
   approvals |-> [a \in Approvals |->
                    IF m.approvals[a] = None THEN rows.approvals[a] ELSE m.approvals[a]],
   backups |-> [b \in Backups |->
                  IF rows.backups[b] = None THEN m.backups[b] ELSE rows.backups[b]],
   restored |-> rows.restored \cup m.restored]

\* The listed records as they are now in memory, if memory still holds them.
Current(listed) ==
  [tasks |-> [k \in Tasks |-> IF listed.tasks[k] = 0 THEN 0 ELSE mem.tasks[k]],
   approvals |-> [a \in Approvals |->
                    IF listed.approvals[a] = None THEN None ELSE mem.approvals[a]],
   backups |-> listed.backups,
   restored |-> listed.restored]

Commit(t) ==
  LET w == th[t] IN
  /\ w.pc = "sync"
  /\ db' = [db EXCEPT !.rows =
              Written(@, IF w.load = db.loads THEN Current(w.listed) ELSE w.listed)]
  /\ th' = [th EXCEPT ![t] = w.next]
  /\ UNCHANGED <<mem, history, applied, bounds>>

-----------------------------------------------------------------------------
(* Requests *)

\* Any request that changes a task.
WriteTask(t, k) ==
  /\ th[t].pc = "idle"
  /\ mem.tasks[k] < MaxVersion
  /\ mem' = [mem EXCEPT !.tasks[k] = @ + 1]
  /\ BeginSync(t, mem', Idle)
  /\ UNCHANGED <<db, history, applied, bounds>>

\* create_backup; `next' is what its caller does after the sync.
MakesBackup(t, b, next) ==
  /\ made[b] = None
  /\ mem' = [mem EXCEPT !.backups[b] = [snapshot |-> mem.tasks, checksum |-> mem.tasks]]
  /\ made' = [made EXCEPT ![b] = mem.tasks]
  /\ BeginSync(t, mem', next)
  /\ UNCHANGED <<db, asked, granted, applied, bounds>>

CreateBackup(t, b) == th[t].pc = "idle" /\ MakesBackup(t, b, Idle)

Verified(b) == mem.backups[b].checksum = mem.backups[b].snapshot

\* Mutated: the approval targets itself.
RequestRestoreOfApproval(t, b, a) ==
  /\ th[t].pc = "idle"
  /\ mem.backups[b] # None
  /\ Verified(b)
  /\ asked[a] = None
  /\ mem' = [mem EXCEPT !.approvals[a] = [target |-> a, status |-> "pending", by |-> None]]
  /\ asked' = [asked EXCEPT ![a] = b]
  /\ BeginSync(t, mem', Idle)
  /\ UNCHANGED <<db, made, granted, applied, bounds>>

RequestRestore(t, b, a) ==
  /\ th[t].pc = "idle"
  /\ mem.backups[b] # None
  /\ Verified(b)
  /\ asked[a] = None    \* a new id
  /\ mem' = [mem EXCEPT !.approvals[a] = [target |-> b, status |-> "pending", by |-> None]]
  /\ asked' = [asked EXCEPT ![a] = b]
  /\ BeginSync(t, mem', Idle)
  /\ UNCHANGED <<db, made, granted, applied, bounds>>

Decide(t, a, decision, by) ==
  /\ th[t].pc = "idle"
  /\ mem.approvals[a] # None
  /\ mem.approvals[a].status = "pending"
  /\ mem' = [mem EXCEPT !.approvals[a].status = decision, !.approvals[a].by = by]
  /\ granted' = IF decision = "approved" /\ by = "human_root" THEN granted \cup {a} ELSE granted
  /\ BeginSync(t, mem', Idle)
  /\ UNCHANGED <<db, made, asked, applied, bounds>>

-----------------------------------------------------------------------------
(* execute_backup_restore *)

\* Mutated: the checksum is not looked at again.
MayRestoreUnverified(b, a) ==
  /\ mem.backups[b] # None
  /\ mem.approvals[a] # None
  /\ mem.approvals[a].target = b
  /\ mem.approvals[a].status = "approved"
  /\ mem.approvals[a].by = "human_root"
  /\ a \notin mem.restored

MayRestore(b, a) ==
  /\ mem.backups[b] # None
  /\ Verified(b)
  /\ mem.approvals[a] # None
  /\ mem.approvals[a].target = b
  /\ mem.approvals[a].status = "approved"
  /\ mem.approvals[a].by = "human_root"
  /\ a \notin mem.restored

\* The checks, and the automatic pre-restore checkpoint c.
RestoreStarts(t, b, a, c) ==
  /\ th[t].pc = "idle"
  /\ MayRestore(b, a)
  /\ MakesBackup(t, c, [pc |-> "apply", snapshot |-> mem.backups[b].snapshot,
                        backup |-> b, approval |-> a, checkpoint |-> c])

\* Mutated: the ledger is not asked.
ApplyAgain(t) ==
  LET w == th[t] IN
  /\ w.pc = "apply"
  /\ db' = [db EXCEPT !.ledger = @ \cup {w.approval}, !.rows.tasks = w.snapshot]
  /\ applied' = [applied EXCEPT ![w.approval] = @ + 1]
  /\ th' = [th EXCEPT ![t] = [pc |-> "load", approval |-> w.approval]]
  /\ UNCHANGED <<mem, history, bounds>>

\* Mutated: the rows are replaced without a ledger row.
ApplyUnrecorded(t) ==
  LET w == th[t] IN
  /\ w.pc = "apply"
  /\ w.approval \notin db.ledger
  /\ db' = [db EXCEPT !.rows.tasks = w.snapshot]
  /\ applied' = [applied EXCEPT ![w.approval] = @ + 1]
  /\ th' = [th EXCEPT ![t] = [pc |-> "load", approval |-> w.approval]]
  /\ UNCHANGED <<mem, history, bounds>>

\* restore_snapshot: ledger row and replaced rows in one transaction.
Apply(t) ==
  LET w == th[t] IN
  /\ w.pc = "apply"
  /\ w.approval \notin db.ledger
  /\ db' = [db EXCEPT !.ledger = @ \cup {w.approval}, !.rows.tasks = w.snapshot]
  /\ applied' = [applied EXCEPT ![w.approval] = @ + 1]
  /\ th' = [th EXCEPT ![t] = [pc |-> "load", approval |-> w.approval]]
  /\ UNCHANGED <<mem, history, bounds>>

\* The ledger's primary key refuses an approval that was used.
ApplyRefused(t) ==
  /\ th[t].pc = "apply"
  /\ th[t].approval \in db.ledger
  /\ th' = [th EXCEPT ![t] = Idle]
  /\ UNCHANGED <<mem, db, history, applied, bounds>>

\* __post_init__ reads every table, then replaces what memory holds.
Load(t) ==
  /\ th[t].pc = "load"
  /\ th' = [th EXCEPT ![t] = [pc |-> "swap", approval |-> @.approval, loaded |-> db.rows]]
  /\ UNCHANGED <<mem, db, history, applied, bounds>>

Swap(t) ==
  /\ th[t].pc = "swap"
  /\ mem' = [th[t].loaded EXCEPT !.restored = @ \cup {th[t].approval}]
  /\ db' = [db EXCEPT !.loads = @ + 1]
  /\ th' = [th EXCEPT ![t] = [pc |-> "sync", listed |-> mem', load |-> db.loads + 1,
                              next |-> Idle]]
  /\ UNCHANGED <<history, applied, bounds>>

-----------------------------------------------------------------------------
\* The process dies; the next one loads what is stored.
Restart ==
  /\ restarts < MaxRestarts
  /\ restarts' = restarts + 1
  /\ mem' = db.rows
  /\ th' = [t \in Threads |-> Idle]
  /\ UNCHANGED <<db, history, applied, corruptions>>

\* A stored snapshot is changed behind the service's back.
Corrupt(b) ==
  /\ corruptions < MaxCorruptions
  /\ corruptions' = corruptions + 1
  /\ db.rows.backups[b] # None
  /\ \E s \in [Tasks -> 0 .. MaxVersion] :
       /\ s # db.rows.backups[b].snapshot
       /\ db' = [db EXCEPT !.rows.backups[b].snapshot = s]
  /\ UNCHANGED <<mem, th, history, applied, restarts>>

Requests(t) ==
  \/ \E k \in Tasks : WriteTask(t, k)
  \/ \E b \in Backups : CreateBackup(t, b)
  \/ \E b \in Backups, a \in Approvals : RequestRestore(t, b, a)
  \/ \E a \in Approvals, decision \in {"approved", "rejected"}, by \in Deciders :
       Decide(t, a, decision, by)
  \/ \E b, c \in Backups, a \in Approvals : RestoreStarts(t, b, a, c)

Continues(t) == Commit(t) \/ Apply(t) \/ ApplyRefused(t) \/ Load(t) \/ Swap(t)

Next ==
  \/ \E t \in Threads : Requests(t) \/ Continues(t)
  \/ Restart
  \/ \E b \in Backups : Corrupt(b)

Spec == Init /\ [][Next]_vars

-----------------------------------------------------------------------------
Snapshots == [Tasks -> 0 .. MaxVersion]
Rows == [tasks : Snapshots,
         approvals : [Approvals -> {None} \cup [target : Backups,
                        status : {"pending", "approved", "rejected"},
                        by : Deciders \cup {None}]],
         backups : [Backups -> {None} \cup [snapshot : Snapshots, checksum : Snapshots]],
         restored : SUBSET Approvals]

\* Memory, rows and threads keep their shape.
TypeOK ==
  /\ mem \in Rows
  /\ db.rows \in Rows
  /\ db.ledger \subseteq Approvals
  /\ \A t \in Threads : th[t].pc \in {"idle", "sync", "apply", "load", "swap"}
  /\ made \in [Backups -> {None} \cup Snapshots]
  /\ asked \in [Approvals -> {None} \cup Backups]
  /\ granted \subseteq Approvals
  /\ applied \in [Approvals -> Nat]

\* One approval restores at most once, also when the process dies after the
\* restore committed and before its audit event was stored, and when two
\* requests use the approval at the same time.
ApprovalRestoresOnce == \A a \in Approvals : applied[a] <= 1

\* A restore that is recorded in the audit log is one whose ledger row exists.
AuditImpliesLedger == mem.restored \cup db.rows.restored \subseteq db.ledger

Applies(t) == th[t].pc = "apply" /\ applied' # applied

\* Whatever other requests, reloads and crashes do meanwhile: when a restore
\* commits, human_root has approved the restore of that very backup, the rows
\* applied are what the backup recorded when it was created (even if its stored
\* snapshot was changed since), and the checkpoint that undoes it is stored.
RestoreIsGenuine ==
  [][\A t \in Threads :
       Applies(t) =>
         LET w == th[t] IN
         /\ asked[w.approval] = w.backup
         /\ w.approval \in granted
         /\ w.snapshot = made[w.backup]
         /\ db.rows.backups[w.checkpoint] # None]_vars
=============================================================================
