---------------------------- MODULE TrunkSyncProofs ----------------------------
(***************************************************************************)
(* For every set of numbers, any number of concurrent jobs and of          *)
(* operations, failures and restarts: a row that says PENDING has a job at *)
(* work on it unless one was lost, and every field keeps its type.         *)
(***************************************************************************)
EXTENDS TrunkSync, TLAPS

Ids     == 0..made
Targets == Numbers \cup 1..made
Row     == [stage : {"absent", "present", "deleted"}, lid : Ids, status : Statuses,
            content : Content]
Task    == [pc : {"idle", "load", "flush", "delete", "call", "commit"}, kind : Kinds,
            repair : BOOLEAN, lid : Ids, old : Ids, content : Content, to : SUBSET Targets,
            result : Statuses]
Deleter == [pc : {"idle", "call", "commit"}, kind : Kinds, lid : Nat]
Findings == {"uncovered", "unchanged", "SYNCED", "DRIFTED"}

\* The types of what tasks, handlers and checks carry, and what a task commits.
Carried ==
  /\ made \in Nat
  /\ job \in [Jobs -> Task]
  /\ lock \in [Kinds -> 0..MaxJobs]
  /\ deleter \in Deleter
  /\ "finding" \in DOMAIN check /\ check.finding \in [Kinds -> Findings]
  /\ \A j \in Jobs : job[j].pc = "commit" => job[j].result \in {"SYNCED", "FAILED"}

IInv == TypeOK /\ Carried /\ PendingHasJob

-----------------------------------------------------------------------------
LEMMA SyncConstants ==
  /\ MaxJobs \in Nat /\ 1 \in Jobs
  /\ \A j \in Jobs : j # Nobody /\ j \in 0..MaxJobs
  /\ Plain \in Content /\ "trunk" \in Kinds /\ "rule" \in Kinds
BY SyncAssumption DEF SyncAssumption, Jobs, Nobody, Plain, Content, Kinds

\* A task that has not begun, and one about to commit, are tasks.
LEMMA TaskTypes ==
  ASSUME made \in Nat
  PROVE  /\ Idle \in Task
         /\ \A k \in Kinds, repair \in BOOLEAN :
              Fresh(k, repair) \in Task /\ Fresh(k, repair).kind = k /\ Fresh(k, repair).pc = "load"
         /\ \A t \in Task, result \in {"SYNCED", "FAILED"} :
              /\ Settled(t, result) \in Task /\ Settled(t, result).kind = t.kind
              /\ Settled(t, result).pc = "commit" /\ Settled(t, result).result = result
<1>1. Idle \in Task
  BY SyncConstants DEF Idle, Task, Ids, Targets, Statuses, Kinds, None
<1>2. ASSUME NEW k \in Kinds, NEW repair \in BOOLEAN
      PROVE  Fresh(k, repair) \in Task /\ Fresh(k, repair).kind = k /\ Fresh(k, repair).pc = "load"
  <2>1. (repair /\ k = "trunk") \in BOOLEAN
    OBVIOUS
  <2>2. \A b \in BOOLEAN : LET f == [Idle EXCEPT !.pc = "load", !.kind = k, !.repair = b]
                           IN  f \in Task /\ f.kind = k /\ f.pc = "load"
    BY <1>1 DEF Task
  <2> QED
    BY <2>1, <2>2 DEF Fresh
<1>3. ASSUME NEW t \in Task, NEW result \in {"SYNCED", "FAILED"}
      PROVE  /\ Settled(t, result) \in Task /\ Settled(t, result).kind = t.kind
             /\ Settled(t, result).pc = "commit" /\ Settled(t, result).result = result
  BY <1>1 DEF Settled, Task, Statuses
<1> QED
  BY <1>1, <1>2, <1>3

\* Ids that LiveKit has given out stay valid as it gives out more.
LEMMA Growing ==
  ASSUME made \in Nat, made' \in Nat, made <= made'
  PROVE  Ids \subseteq Ids' /\ Targets \subseteq Targets' /\ Task \subseteq Task' /\ Row \subseteq Row'
<1>1. Ids \subseteq Ids' /\ Targets \subseteq Targets'
  BY DEF Ids, Targets
<1> QED
  BY <1>1 DEF Task, Row

\* The initial platform has no task and nothing pending that exists.
LEMMA InitInv == Init => IInv
<1> SUFFICES ASSUME Init PROVE IInv
    OBVIOUS
<1>1. made \in Nat
  BY DEF Init
<1>2. row \in [Kinds -> Row]
  BY SyncConstants DEF Init, Row, Ids, Statuses, None, Kinds
<1>3. live \subseteq [id : 1..made, kind : Kinds, content : Content,
                      to : SUBSET (Numbers \cup 1..made)]
  BY SyncConstants DEF Init, Resource, Kinds
<1>4. lock = [k \in Kinds |-> Nobody] /\ assigned \subseteq Numbers /\ active \subseteq Numbers
      /\ lost \subseteq Kinds
  BY DEF Init
<1>5. TypeOK
  BY <1>2, <1>3, <1>4 DEF TypeOK, Row, Ids
<1>6. Carried
  BY <1>1, <1>4, TaskTypes, SyncConstants
     DEF Init, Carried, NoDelete, Deleter, None, Resting, Findings, Kinds, Idle, Nobody
<1>7. PendingHasJob
  BY DEF Init, PendingHasJob, Present
<1> QED
  BY <1>5, <1>6, <1>7 DEF IInv

-----------------------------------------------------------------------------
(* Handlers *)

\* A started task takes a free place and leaves the others alone.
LEMMA StartsKeeps ==
  ASSUME IInv, NEW k \in Kinds, NEW repair \in BOOLEAN, Starts(k, repair),
         made' = made, lock' = lock
  PROVE  /\ job' \in [Jobs -> Task]
         /\ \E j \in Jobs : Running(j)' /\ job'[j].kind = k
         /\ \A j \in Jobs : Running(j) => job'[j] = job[j]
         /\ \A j \in Jobs : job'[j] = job[j] \/ job'[j].pc = "load"
<1>1. PICK j \in Jobs : ~Running(j) /\ job' = [job EXCEPT ![j] = Fresh(k, repair)]
  BY DEF Starts
<1>2. /\ Fresh(k, repair) \in Task /\ Fresh(k, repair).kind = k /\ Fresh(k, repair).pc = "load"
      /\ job \in [Jobs -> Task]
  BY TaskTypes DEF IInv, Carried
<1> QED
  BY <1>1, <1>2 DEF Running

\* A handler that marks rows PENDING and starts a task for them.
LEMMA HandlerKeeps ==
  ASSUME IInv, NEW k \in Kinds, NEW repair \in BOOLEAN, Starts(k, repair),
         row' \in [Kinds -> Row],
         \A i \in Kinds : i # k => row'[i] = row[i],
         assigned' \subseteq Numbers, active' \subseteq Numbers,
         UNCHANGED <<mirror, lock, deleter, check, lost>>
  PROVE  IInv'
<1>1. made' = made /\ live' = live /\ lock' = lock /\ deleter' = deleter /\ check' = check
      /\ lost' = lost
  BY DEF mirror
<1>2. /\ job' \in [Jobs -> Task]
      /\ \E j \in Jobs : Running(j)' /\ job'[j].kind = k
      /\ \A j \in Jobs : Running(j) => job'[j] = job[j]
      /\ \A j \in Jobs : job'[j] = job[j] \/ job'[j].pc = "load"
  BY <1>1, StartsKeeps
<1>3. TypeOK'
  <2>1. ASSUME NEW i \in Kinds, lock[i] # Nobody
        PROVE  /\ job'[lock[i]].pc # "idle" /\ job'[lock[i]].kind = i
               /\ job'[lock[i]].pc \notin {"load", "flush"}
    <3>1. lock[i] \in Jobs
      BY <2>1, SyncConstants DEF IInv, Carried, Nobody, Jobs
    <3>2. Running(lock[i]) /\ job[lock[i]].kind = i /\ job[lock[i]].pc \notin {"load", "flush"}
      BY <2>1 DEF IInv, TypeOK
    <3> QED
      BY <1>2, <3>1, <3>2 DEF Running
  <2>2. /\ live' \subseteq [id : 1..made', kind : Kinds, content : Content,
                           to : SUBSET (Numbers \cup 1..made')]
        /\ row' \in [Kinds -> [stage : {"absent", "present", "deleted"}, lid : 0..made',
                              status : Statuses, content : Content]]
        /\ lost' \subseteq Kinds
    BY <1>1 DEF IInv, TypeOK, Row, Ids
  <2> QED
    BY <1>1, <2>1, <2>2 DEF TypeOK, Running
<1>4. Carried'
  BY <1>1, <1>2 DEF IInv, Carried, Task, Ids, Targets
<1>5. PendingHasJob'
  BY <1>1, <1>2 DEF IInv, PendingHasJob, Present, Running
<1> QED
  BY <1>3, <1>4, <1>5 DEF IInv

\* An operation that marks nothing and starts nothing.
LEMMA NothingMarked ==
  ASSUME IInv, UNCHANGED <<row, mirror, job, lock, lost>>,
         assigned' \subseteq Numbers, active' \subseteq Numbers,
         deleter' \in Deleter, "finding" \in DOMAIN check', check'.finding \in [Kinds -> Findings]
  PROVE  IInv'
<1>1. /\ row' = row /\ made' = made /\ live' = live /\ job' = job /\ lock' = lock
      /\ lost' = lost
  BY DEF mirror
<1> QED
  BY <1>1 DEF IInv, TypeOK, Carried, PendingHasJob, Present, Running, Task, Ids, Targets

\* create_, update_, sync_, retry_ and repair_: the row is marked and its task started.
LEMMA MarkingKeeps ==
  ASSUME IInv,
         \/ \E k \in Kinds : Create(k) \/ Push(k, FALSE)
         \/ Update \/ Push("trunk", TRUE)
  PROVE  IInv'
<1>1. row \in [Kinds -> Row] /\ assigned \subseteq Numbers /\ active \subseteq Numbers
  BY DEF IInv, TypeOK, Row, Ids
<1>2. ASSUME NEW k \in Kinds, Create(k) PROVE IInv'
  <2>1. row' \in [Kinds -> Row] /\ \A i \in Kinds : i # k => row'[i] = row[i]
    BY <1>1, <1>2 DEF Create, Created, Row, Statuses
  <2> QED
    BY <1>1, <1>2, <2>1, HandlerKeeps DEF Create, Operation
<1>3. ASSUME NEW k \in Kinds, NEW repair \in BOOLEAN, Push(k, repair) PROVE IInv'
  <2>1. row' \in [Kinds -> Row] /\ \A i \in Kinds : i # k => row'[i] = row[i]
    BY <1>1, <1>3 DEF Push, Row, Statuses
  <2> QED
    BY <1>1, <1>3, <2>1, HandlerKeeps DEF Push, Operation
<1>4. ASSUME Update PROVE IInv'
  <2>1. row["trunk"].content \in Content
    BY <1>1, SyncConstants DEF Row
  <2>2. PICK content \in Content : Edits(content)
    BY <1>4, <2>1 DEF Update, Content
  <2>3. row' \in [Kinds -> Row] /\ \A i \in Kinds : i # "trunk" => row'[i] = row[i]
    BY <1>1, <2>2, SyncConstants DEF Edits, Row, Statuses
  <2> QED
    BY <1>1, <1>4, <2>2, <2>3, SyncConstants, HandlerKeeps DEF Update, Edits, Operation
<1> QED
  BY <1>2, <1>3, <1>4, SyncConstants

\* The phone numbers: the trunk is marked when the number is, or was, its own.
LEMMA NumberKeeps ==
  ASSUME IInv, NEW n \in Numbers, Assign(n) \/ Unassign(n) \/ SetStatus(n)
  PROVE  IInv'
<1>1. row \in [Kinds -> Row] /\ assigned \subseteq Numbers /\ active \subseteq Numbers
  BY DEF IInv, TypeOK, Row, Ids
<1>2. /\ assigned' \subseteq Numbers /\ active' \subseteq Numbers
      /\ UNCHANGED <<mirror, lock, deleter, check, lost>>
      /\ \/ UNCHANGED <<row, job>>
         \/ row' = [row EXCEPT !["trunk"].status = "PENDING"] /\ Starts("trunk", FALSE)
  BY <1>1 DEF Assign, Unassign, SetStatus, Operation, PendingTrunks
<1>3. CASE UNCHANGED <<row, job>>
  BY <1>2, <1>3, NothingMarked DEF IInv, Carried
<1>4. CASE row' = [row EXCEPT !["trunk"].status = "PENDING"] /\ Starts("trunk", FALSE)
  <2>1. row' \in [Kinds -> Row] /\ \A i \in Kinds : i # "trunk" => row'[i] = row[i]
    BY <1>1, <1>4, SyncConstants DEF Row, Statuses
  <2> QED
    BY <1>2, <1>4, <2>1, SyncConstants, HandlerKeeps
<1> QED
  BY <1>2, <1>3, <1>4

\* The delete handler.
LEMMA DeleterKeeps ==
  ASSUME IInv, (\E k \in Kinds : Delete(k)) \/ DeleteCall \/ DeleteCommit
  PROVE  IInv'
<1>1. /\ NoDelete \in Deleter /\ deleter \in Deleter
      /\ \A k \in Kinds : row[k].lid \in Nat
  BY DEF NoDelete, Deleter, Kinds, None, IInv, Carried, TypeOK
<1>2. ASSUME NEW k \in Kinds, Delete(k) PROVE IInv'
  <2>1. deleter' \in Deleter
    BY <1>1, <1>2 DEF Delete, Deleter
  <2> QED
    BY <1>2, <2>1, NothingMarked DEF Delete, Operation, rows, IInv, TypeOK, Carried
<1>3. ASSUME DeleteCall PROVE IInv'
  <2>1. /\ live' \subseteq live
        /\ deleter' \in Deleter
    BY <1>1, <1>3 DEF DeleteCall, Deleter
  <2>2. UNCHANGED <<row, assigned, active, made, job, lock, check, lost>>
    BY <1>3 DEF DeleteCall, rows
  <2> QED
    BY <2>1, <2>2 DEF IInv, TypeOK, Carried, PendingHasJob, Present, Running, Task, Ids, Targets
<1>4. ASSUME DeleteCommit PROVE IInv'
  <2>1. /\ row' \in [Kinds -> Row]
        /\ \A k \in Kinds : row'[k] = row[k] \/ row'[k].stage = "deleted"
    BY <1>4 DEF DeleteCommit, Gone, IInv, TypeOK, Row, Ids
  <2>2. UNCHANGED <<active, live, made, job, lock, check, lost>>
        /\ deleter' \in Deleter /\ assigned' \subseteq Numbers
    BY <1>1, <1>4 DEF DeleteCommit, mirror, history, IInv, TypeOK
  <2> QED
    BY <2>1, <2>2
       DEF IInv, TypeOK, Carried, PendingHasJob, Present, Running, Task, Row, Ids, Targets
<1> QED
  BY <1>2, <1>3, <1>4

-----------------------------------------------------------------------------
(* Tasks *)

LiveTyped ==
  live \subseteq [id : 1..made, kind : Kinds, content : Content, to : SUBSET Targets]

\* A task that goes on, keeps its row; it may take the row's lock and LiveKit's next id.
LEMMA TaskMoves ==
  ASSUME IInv, NEW j \in Jobs, NEW t, t \in Task',
         job' = [job EXCEPT ![j] = t],
         t.kind = job[j].kind, t.pc \notin {"idle", "load", "flush"} \/ (t.pc = "flush" /\ job[j].pc = "load"),
         t.pc = "commit" => t.result \in {"SYNCED", "FAILED"},
         lock' = lock \/ (lock' = [lock EXCEPT ![t.kind] = j] /\ t.pc # "flush"),
         made' \in Nat, made <= made', LiveTyped',
         UNCHANGED <<rows, deleter, check, lost>>
  PROVE  IInv'
<1>1. /\ row' = row /\ assigned' = assigned /\ active' = active
      /\ deleter' = deleter /\ check' = check /\ lost' = lost
  BY DEF rows
<1>2. /\ made \in Nat /\ job \in [Jobs -> Task] /\ lock \in [Kinds -> 0..MaxJobs]
      /\ row \in [Kinds -> Row] /\ t.kind \in Kinds /\ j \in 0..MaxJobs /\ j # Nobody
  BY SyncConstants DEF IInv, Carried, TypeOK, Row, Ids, Task
<1>3. Ids \subseteq Ids' /\ Targets \subseteq Targets' /\ Task \subseteq Task' /\ Row \subseteq Row'
  BY <1>2, Growing
<1>4. job' \in [Jobs -> Task'] /\ job'[j] = t /\ \A i \in Jobs \ {j} : job'[i] = job[i]
  BY <1>2, <1>3
<1>5. ASSUME NEW k \in Kinds, lock'[k] # Nobody
      PROVE  /\ job'[lock'[k]].pc \notin {"idle", "load", "flush"} /\ job'[lock'[k]].kind = k
  <2>1. (lock'[k] = j /\ k = t.kind /\ t.pc # "flush") \/ lock'[k] = lock[k]
    BY <1>2
  <2>2. CASE lock'[k] = j /\ k = t.kind /\ t.pc # "flush"
    BY <1>4, <2>2
  <2>3. CASE lock'[k] = lock[k]
    <3>1. /\ lock[k] \in Jobs /\ job[lock[k]].kind = k
          /\ job[lock[k]].pc \notin {"idle", "load", "flush"}
      BY <1>2, <1>5, <2>3 DEF IInv, TypeOK, Running, Jobs, Nobody
    <3>2. CASE lock[k] = j
      BY <1>4, <2>3, <3>1, <3>2
    <3>3. CASE lock[k] # j
      BY <1>4, <2>3, <3>1, <3>3
    <3> QED
      BY <3>2, <3>3
  <2> QED
    BY <2>1, <2>2, <2>3
<1>6. TypeOK'
  <2>1. row' \in [Kinds -> Row']
    BY <1>1, <1>2, <1>3
  <2>2. assigned' \subseteq Numbers /\ active' \subseteq Numbers /\ lost' \subseteq Kinds
    BY <1>1 DEF IInv, TypeOK
  <2> QED
    BY <1>5, <2>1, <2>2 DEF TypeOK, LiveTyped, Row, Ids, Targets, Running
<1>7. Carried'
  <2>1. lock' \in [Kinds -> 0..MaxJobs]
    BY <1>2
  <2>2. ASSUME NEW i \in Jobs, job'[i].pc = "commit" PROVE job'[i].result \in {"SYNCED", "FAILED"}
    BY <1>4, <2>2 DEF IInv, Carried
  <2> QED
    BY <1>1, <1>4, <2>1, <2>2 DEF IInv, Carried
<1>8. PendingHasJob'
  <2> SUFFICES ASSUME NEW k \in Kinds, row[k].status = "PENDING", Present(k), k \notin lost
               PROVE  \E i \in Jobs : job'[i].pc # "idle" /\ job'[i].kind = k
      BY <1>1 DEF PendingHasJob, Present, Running
  <2>1. PICK i \in Jobs : Running(i) /\ job[i].kind = k
    BY DEF IInv, PendingHasJob
  <2>2. CASE i = j
    BY <1>4, <2>1, <2>2
  <2>3. CASE i # j
    BY <1>4, <2>1, <2>3 DEF Running
  <2> QED
    BY <2>2, <2>3
<1> QED
  BY <1>6, <1>7, <1>8 DEF IInv

\* What the invariant says of one task.
LEMMA OneTask ==
  ASSUME IInv, NEW j \in Jobs
  PROVE  /\ job[j] \in Task /\ job[j].kind \in Kinds /\ row[job[j].kind] \in Row
         /\ made \in Nat /\ LiveTyped
         /\ made' = made => (Task' = Task /\ (live' = live => LiveTyped'))
<1>1. LiveTyped /\ made \in Nat
  BY DEF IInv, TypeOK, Carried, LiveTyped, Targets
<1>2. job[j] \in Task /\ job[j].kind \in Kinds /\ row[job[j].kind] \in Row
  BY DEF IInv, TypeOK, Carried, Row, Ids, Task
<1>3. ASSUME made' = made PROVE Task' = Task /\ (live' = live => LiveTyped')
  BY <1>1, <1>3 DEF Task, Ids, Targets, LiveTyped
<1> QED
  BY <1>1, <1>2, <1>3

\* A task whose row is gone ends: it holds no lock yet.
LEMMA TaskLeaves ==
  ASSUME IInv, NEW j \in Jobs, job[j].pc \in {"load", "flush"}, ~Present(job[j].kind), Ends(j),
         UNCHANGED <<rows, mirror, lock, deleter, check, lost>>
  PROVE  IInv'
<1>1. /\ row' = row /\ assigned' = assigned /\ active' = active /\ made' = made /\ live' = live
      /\ lock' = lock /\ deleter' = deleter /\ check' = check /\ lost' = lost
  BY DEF rows, mirror
<1>2. /\ job' \in [Jobs -> Task] /\ job'[j] = Idle /\ \A i \in Jobs \ {j} : job'[i] = job[i]
      /\ Idle.pc = "idle"
  BY TaskTypes DEF IInv, Carried, Ends, Idle
<1>3. ASSUME NEW k \in Kinds, lock[k] # Nobody
      PROVE  /\ job'[lock[k]].pc \notin {"idle", "load", "flush"} /\ job'[lock[k]].kind = k
  <2>1. /\ lock[k] \in Jobs /\ job[lock[k]].kind = k
        /\ job[lock[k]].pc \notin {"idle", "load", "flush"}
    BY <1>3 DEF IInv, TypeOK, Carried, Running, Jobs, Nobody
  <2> QED
    BY <1>2, <2>1
<1>4. TypeOK'
  BY <1>1, <1>3 DEF IInv, TypeOK, Running
<1>5. Carried'
  BY <1>1, <1>2 DEF IInv, Carried, Task, Ids, Targets
<1>6. PendingHasJob'
  BY <1>1, <1>2 DEF IInv, PendingHasJob, Present, Running
<1> QED
  BY <1>4, <1>5, <1>6 DEF IInv

\* A task reads what it pushes, or fails to.
LEMMA ReadsKeeps ==
  ASSUME IInv, NEW j \in Jobs, NEW t \in Task, t.kind = job[j].kind, Reads(j, t),
         lock' = lock \/ lock' = [lock EXCEPT ![t.kind] = j],
         UNCHANGED <<rows, mirror, deleter, check, lost>>
  PROVE  IInv'
<1>1. made' = made /\ live' = live
  BY DEF mirror
<1>2. Wanted(t.kind) \in SUBSET Targets
  BY SyncConstants DEF Wanted, IInv, TypeOK, Targets, None
<1>3. /\ made \in Nat /\ LiveTyped' /\ Task' = Task
  BY <1>1, OneTask
<1>4. CASE job' = [job EXCEPT ![j] = Settled(t, "FAILED")]
  <2>1. PICK u : u = Settled(t, "FAILED")
    OBVIOUS
  <2>2. u \in Task /\ u.kind = t.kind /\ u.pc = "commit" /\ u.result = "FAILED"
    BY <1>3, <2>1, TaskTypes
  <2> QED
    <3>1. /\ u \in Task' /\ job' = [job EXCEPT ![j] = u] /\ u.kind = job[j].kind
          /\ u.pc \notin {"idle", "load", "flush"} \/ (u.pc = "flush" /\ job[j].pc = "load")
          /\ u.pc = "commit" => u.result \in {"SYNCED", "FAILED"}
          /\ lock' = lock \/ (lock' = [lock EXCEPT ![u.kind] = j] /\ u.pc # "flush")
          /\ made' \in Nat /\ made <= made'
      BY <1>1, <1>3, <1>4, <2>1, <2>2
    <3> QED
      BY <1>3, <3>1, TaskMoves
<1>5. CASE job' = [job EXCEPT ![j] = [t EXCEPT !.to = Wanted(t.kind),
                                        !.pc = IF DeletesFirst(t) THEN "delete" ELSE "call"]]
  <2>1. PICK u : u = [t EXCEPT !.to = Wanted(t.kind),
                               !.pc = IF DeletesFirst(t) THEN "delete" ELSE "call"]
    OBVIOUS
  <2>2. u \in Task /\ u.kind = t.kind /\ u.pc \in {"delete", "call"}
    BY <1>2, <2>1 DEF Task
  <2> QED
    <3>1. /\ u \in Task' /\ job' = [job EXCEPT ![j] = u] /\ u.kind = job[j].kind
          /\ u.pc \notin {"idle", "load", "flush"} \/ (u.pc = "flush" /\ job[j].pc = "load")
          /\ u.pc = "commit" => u.result \in {"SYNCED", "FAILED"}
          /\ lock' = lock \/ (lock' = [lock EXCEPT ![u.kind] = j] /\ u.pc # "flush")
          /\ made' \in Nat /\ made <= made'
      BY <1>1, <1>3, <1>5, <2>1, <2>2
    <3> QED
      BY <1>3, <3>1, TaskMoves
<1> QED
  BY <1>4, <1>5 DEF Reads

\* session.get and the flush of PENDING.
LEMMA LoadKeeps ==
  ASSUME IInv, NEW j \in Jobs, Load(j) \/ Flush(j)
  PROVE  IInv'
<1> DEFINE k == job[j].kind
           loaded == [job[j] EXCEPT !.lid = row[k].lid, !.old = row[k].lid,
                                    !.content = row[k].content]
<1>1. /\ job[j] \in Task /\ k \in Kinds /\ row[k] \in Row /\ made \in Nat /\ LiveTyped
  BY OneTask
<1>2. loaded \in Task /\ loaded.kind = k
  BY <1>1 DEF Task, Row
<1>3. UNCHANGED <<rows, mirror, deleter, check, lost>>
      /\ job[j].pc \in {"load", "flush"}
  BY DEF Load, Flush
<1>4. CASE ~Present(k) /\ Ends(j) /\ lock' = lock
  BY <1>3, <1>4, TaskLeaves
<1>5. CASE Load(j) /\ Reads(j, loaded)
  <2>1. lock' = lock
    BY <1>5 DEF Load
  <2> HIDE DEF loaded
  <2> QED
    BY <1>2, <1>3, <1>5, <2>1, ReadsKeeps
<1>6. CASE Load(j) /\ job' = [job EXCEPT ![j] = [loaded EXCEPT !.pc = "flush"]]
  <2>1. PICK u : u = [loaded EXCEPT !.pc = "flush"]
    OBVIOUS
  <2> HIDE DEF loaded
  <2>2. u \in Task /\ u.kind = k /\ u.pc = "flush"
    BY <1>2, <2>1 DEF Task
  <2>3. made' = made /\ live' = live /\ lock' = lock /\ job[j].pc = "load"
    BY <1>3, <1>6 DEF Load, mirror
  <2>4. Task' = Task /\ LiveTyped'
    BY <2>3, OneTask
  <2> QED
    <3>1. /\ u \in Task' /\ job' = [job EXCEPT ![j] = u] /\ u.kind = job[j].kind
          /\ u.pc \notin {"idle", "load", "flush"} \/ (u.pc = "flush" /\ job[j].pc = "load")
          /\ u.pc = "commit" => u.result \in {"SYNCED", "FAILED"}
          /\ lock' = lock \/ (lock' = [lock EXCEPT ![u.kind] = j] /\ u.pc # "flush")
          /\ made' \in Nat /\ made <= made'
      BY <1>1, <1>3, <1>6, <2>1, <2>2, <2>3, <2>4
    <3> QED
      BY <1>3, <2>4, <3>1, TaskMoves
<1>7. CASE Flush(j) /\ Reads(j, job[j]) /\ lock' = [lock EXCEPT ![k] = j]
  BY <1>1, <1>3, <1>7, ReadsKeeps
<1> QED
  BY <1>4, <1>5, <1>6, <1>7 DEF Load, Flush

\* Deleting the old resource, and pushing the row.
LEMMA CallsKeep ==
  ASSUME IInv, NEW j \in Jobs, DeleteOld(j) \/ Call(j)
  PROVE  IInv'
<1>1. /\ job[j] \in Task /\ job[j].kind \in Kinds /\ made \in Nat /\ LiveTyped
  BY OneTask
<1>2. UNCHANGED <<rows, deleter, check, lost>> /\ lock' = lock
  BY DEF DeleteOld, Call
<1>3. CASE DeleteOld(j)
  <2>1. PICK u : u = [job[j] EXCEPT !.lid = None, !.pc = "call"]
    OBVIOUS
  <2>2. u \in Task /\ u.kind = job[j].kind /\ u.pc = "call"
    <3>1. None \in Ids
      BY <1>1 DEF Ids, None
    <3> QED
      BY <1>1, <2>1, <3>1 DEF Task
  <2>3. job' = [job EXCEPT ![j] = u] /\ made' = made /\ live' \subseteq live
    BY <1>3, <2>1 DEF DeleteOld, IInv, Carried
  <2>4. Task' = Task /\ LiveTyped'
    BY <1>1, <2>3 DEF Task, Ids, Targets, LiveTyped
  <2> QED
    <3>1. /\ u \in Task' /\ job' = [job EXCEPT ![j] = u] /\ u.kind = job[j].kind
          /\ u.pc \notin {"idle", "load", "flush"} \/ (u.pc = "flush" /\ job[j].pc = "load")
          /\ u.pc = "commit" => u.result \in {"SYNCED", "FAILED"}
          /\ lock' = lock \/ (lock' = [lock EXCEPT ![u.kind] = j] /\ u.pc # "flush")
          /\ made' \in Nat /\ made <= made'
      BY <1>1, <1>2, <2>2, <2>3, <2>4
    <3> QED
      BY <1>2, <2>4, <3>1, TaskMoves
<1>4. CASE Call(j)
  <2> DEFINE id == IF job[j].lid = None THEN made + 1 ELSE job[j].lid
  <2>1. job[j].lid \in 0..made /\ job[j].content \in Content /\ job[j].to \in SUBSET Targets
    BY <1>1 DEF Task, Ids
  <2>2. /\ made' \in Nat /\ made <= made'
        /\ made' = made \/ (made' = id /\ job[j].lid = None)
    BY <1>1, <1>4, <2>1 DEF Call, mirror
  <2>3. Targets \subseteq Targets' /\ Task \subseteq Task' /\ Ids \subseteq Ids'
    BY <1>1, <2>2, Growing
  <2>4. CASE job' = [job EXCEPT ![j] = Settled([job[j] EXCEPT !.lid = id], "SYNCED")]
             /\ live' = {r \in live : r.id # id} \cup {Pushed(j, id)}
             /\ made' = IF job[j].lid = None THEN id ELSE made
    <3>1. id \in 1..made'
      BY <1>1, <2>1, <2>4 DEF None
    <3>2. LiveTyped'
      <4>1. Pushed(j, id) \in [id : 1..made', kind : Kinds, content : Content, to : SUBSET Targets']
        BY <1>1, <2>1, <2>3, <3>1 DEF Pushed, Resource
      <4>2. live \subseteq [id : 1..made', kind : Kinds, content : Content, to : SUBSET Targets']
        BY <1>1, <2>2, <2>3 DEF LiveTyped
      <4> QED
        BY <2>4, <4>1, <4>2 DEF LiveTyped
    <3>3. PICK v : v = [job[j] EXCEPT !.lid = id]
      OBVIOUS
    <3>4. v \in Task' /\ v.kind = job[j].kind
      BY <1>1, <2>3, <3>1, <3>3 DEF Task, Ids
    <3>5. PICK u : u = Settled(v, "SYNCED")
      OBVIOUS
    <3>6. u \in Task' /\ u.kind = job[j].kind /\ u.pc = "commit" /\ u.result = "SYNCED"
      BY <3>4, <3>5, <2>2 DEF Settled, Idle, Task, Ids, Targets, Kinds, Statuses, Plain, Content, None
    <3>7. job' = [job EXCEPT ![j] = u]
      BY <2>4, <3>3, <3>5
    <3> QED
      BY <1>2, <2>2, <3>2, <3>6, <3>7, TaskMoves
  <2>5. CASE Fails(j) /\ LiveTyped'
    <3>1. PICK u : u = Settled(job[j], "FAILED")
      OBVIOUS
    <3>2. u \in Task /\ u.kind = job[j].kind /\ u.pc = "commit" /\ u.result = "FAILED"
      BY <1>1, <3>1, TaskTypes
    <3>3. job' = [job EXCEPT ![j] = u]
      BY <2>5, <3>1 DEF Fails, IInv, Carried
    <3>4. u \in Task'
      BY <2>3, <3>2
    <3> QED
      BY <1>2, <2>2, <2>5, <3>2, <3>3, <3>4, TaskMoves
  <2>6. CASE Fails(j) /\ UNCHANGED mirror
    <3>1. LiveTyped'
      BY <1>1, <2>6 DEF mirror, LiveTyped, Targets
    <3> QED
      BY <2>5, <2>6, <3>1
  <2>7. CASE Fails(j) /\ live' = {r \in live : r.id # id} \cup {Pushed(j, id)}
             /\ made' = IF job[j].lid = None THEN id ELSE made
    <3>1. id \in 1..made'
      BY <1>1, <2>1, <2>7 DEF None
    <3>2. LiveTyped'
      <4>1. Pushed(j, id) \in [id : 1..made', kind : Kinds, content : Content, to : SUBSET Targets']
        BY <1>1, <2>1, <2>3, <3>1 DEF Pushed, Resource
      <4>2. live \subseteq [id : 1..made', kind : Kinds, content : Content, to : SUBSET Targets']
        BY <1>1, <2>2, <2>3 DEF LiveTyped
      <4> QED
        BY <2>7, <4>1, <4>2 DEF LiveTyped
    <3> QED
      BY <2>5, <2>7, <3>2
  <2> QED
    BY <1>4, <2>4, <2>6, <2>7 DEF Call
<1> QED
  BY <1>3, <1>4

\* What a row says after a commit or a check, and what a task does after its commit.
LEMMA WritesKeep ==
  ASSUME IInv, row' \in [Kinds -> Row], job' \in [Jobs -> Task],
         NEW done \in SUBSET Jobs,
         \A i \in Jobs \ done : job'[i] = job[i],
         \A i \in done : \/ ~Present(job[i].kind)
                        \/ row'[job[i].kind].status # "PENDING" \/ job[i].kind \in lost',
         lost' \subseteq Kinds,
         \A k \in Kinds : k \in lost => k \in lost' \/ row'[k].status # "PENDING",
         \A i \in done : job'[i].pc # "commit",
         \A k \in Kinds : \/ row'[k].status = row[k].status \/ row'[k].status # "PENDING",
         \A k \in Kinds : row'[k].stage = row[k].stage,
         lock' \in [Kinds -> 0..MaxJobs],
         \A k \in Kinds : lock'[k] = Nobody \/ (lock'[k] = lock[k] /\ lock[k] \notin done),
         "finding" \in DOMAIN check', check'.finding \in [Kinds -> Findings],
         UNCHANGED <<assigned, active, mirror, deleter>>
  PROVE  IInv'
<1>1. /\ made' = made /\ live' = live /\ assigned' = assigned /\ active' = active
      /\ deleter' = deleter
  BY DEF mirror
<1>2. ASSUME NEW k \in Kinds, lock'[k] # Nobody
      PROVE  /\ job'[lock'[k]].pc \notin {"idle", "load", "flush"} /\ job'[lock'[k]].kind = k
  <2>1. /\ lock'[k] = lock[k] /\ lock[k] \in Jobs \ done /\ job[lock[k]].kind = k
        /\ job[lock[k]].pc \notin {"idle", "load", "flush"}
    BY <1>2 DEF IInv, TypeOK, Carried, Running, Jobs, Nobody
  <2> QED
    BY <2>1
<1>3. TypeOK'
  BY <1>1, <1>2 DEF IInv, TypeOK, Row, Ids, Running
<1>4. Carried'
  BY <1>1 DEF IInv, Carried, Task, Ids, Targets
<1>5. PendingHasJob'
  <2> SUFFICES ASSUME NEW k \in Kinds, row'[k].stage = "present", row'[k].status = "PENDING", k \notin lost'
               PROVE  \E i \in Jobs : job'[i].pc # "idle" /\ job'[i].kind = k
      BY <1>1 DEF PendingHasJob, Present, Running
  <2>1. PICK i \in Jobs : Running(i) /\ job[i].kind = k
    BY DEF IInv, PendingHasJob, Present
  <2>2. i \notin done
    BY <2>1 DEF Present
  <2> QED
    BY <2>1, <2>2 DEF Running
<1> QED
  BY <1>3, <1>4, <1>5 DEF IInv

\* The commit of a task settles its row; after a Repair it turns to the rule, and the trunk
\* it leaves is no longer pending.
LEMMA CommitKeeps ==
  ASSUME IInv, NEW j \in Jobs, Commit(j)
  PROVE  IInv'
<1> DEFINE k == job[j].kind
<1>1. /\ job[j] \in Task /\ k \in Kinds /\ row[k] \in Row /\ made \in Nat
      /\ job \in [Jobs -> Task] /\ row \in [Kinds -> Row] /\ lock \in [Kinds -> 0..MaxJobs]
      /\ job[j].pc = "commit" /\ job[j].result \in {"SYNCED", "FAILED"}
      /\ "finding" \in DOMAIN check /\ check.finding \in [Kinds -> Findings]
  BY OneTask DEF Commit, IInv, Carried, TypeOK, Row, Ids
<1>2. /\ UNCHANGED <<assigned, active, mirror, deleter, check>>
      /\ lost \subseteq Kinds /\ lost' = IF Present(k) THEN lost \ {k} ELSE lost
  BY DEF Commit, IInv, TypeOK
<1>3. /\ lock' \in [Kinds -> 0..MaxJobs]
      /\ \A i \in Kinds : lock'[i] = Nobody \/ (lock'[i] = lock[i] /\ lock[i] # j)
  BY <1>1, SyncConstants DEF Commit, Release, Nobody
<1>4. PICK t \in Task : job' = [job EXCEPT ![j] = t] /\ t.pc # "commit"
  <2>1. /\ Idle \in Task /\ Idle.pc = "idle"
        /\ Fresh("rule", TRUE) \in Task /\ Fresh("rule", TRUE).pc = "load"
    BY <1>1, TaskTypes, SyncConstants DEF Idle
  <2>2. job' = [job EXCEPT ![j] = Idle] \/ job' = [job EXCEPT ![j] = Fresh("rule", TRUE)]
    BY DEF Commit, Ends
  <2> QED
    BY <2>1, <2>2
<1>5. /\ job' \in [Jobs -> Task] /\ \A i \in Jobs \ {j} : job'[i] = job[i]
      /\ job'[j].pc # "commit"
  BY <1>1, <1>4
<1>6. CASE Present(k)
  <2> DEFINE lid == IdOf(j, row[k].lid)
  <2>1. lid \in Ids
    BY <1>1 DEF IdOf, Row, Task
  <2>2. row' = [row EXCEPT ![k].status = job[j].result, ![k].lid = lid]
    BY <1>1, <1>6 DEF Commit
  <2> HIDE DEF lid
  <2>3. /\ row' \in [Kinds -> Row] /\ row'[k].status = job[j].result
        /\ row'[k].stage = row[k].stage /\ \A i \in Kinds \ {k} : row'[i] = row[i]
    BY <1>1, <2>1, <2>2 DEF Row, Statuses
  <2> QED
    <3>1. /\ {j} \in SUBSET Jobs /\ \A i \in Jobs \ {j} : job'[i] = job[i]
          /\ \A i \in {j} : \/ ~Present(job[i].kind)
                           \/ row'[job[i].kind].status # "PENDING" \/ job[i].kind \in lost'
          /\ \A i \in {j} : job'[i].pc # "commit"
      BY <1>1, <1>5, <2>3
    <3>2. /\ row' \in [Kinds -> Row]
          /\ \A i \in Kinds : row'[i].status = row[i].status \/ row'[i].status # "PENDING"
          /\ \A i \in Kinds : row'[i].stage = row[i].stage
          /\ lost' \subseteq Kinds
          /\ \A i \in Kinds : i \in lost => i \in lost' \/ row'[i].status # "PENDING"
      BY <1>1, <1>2, <1>6, <2>3
    <3>3. /\ lock' \in [Kinds -> 0..MaxJobs]
          /\ \A i \in Kinds : lock'[i] = Nobody \/ (lock'[i] = lock[i] /\ lock[i] \notin {j})
          /\ "finding" \in DOMAIN check' /\ check'.finding \in [Kinds -> Findings]
      BY <1>1, <1>2, <1>3
    <3> HIDE DEF k
    <3> QED
      BY <1>2, <1>5, <3>1, <3>2, <3>3, WritesKeep
<1>7. CASE ~Present(k)
  <2>1. row' = row
    BY <1>7 DEF Commit
  <2> QED
    <3>1. /\ {j} \in SUBSET Jobs /\ \A i \in Jobs \ {j} : job'[i] = job[i]
          /\ \A i \in {j} : \/ ~Present(job[i].kind)
                           \/ row'[job[i].kind].status # "PENDING" \/ job[i].kind \in lost'
          /\ \A i \in {j} : job'[i].pc # "commit"
      BY <1>1, <1>5, <1>7
    <3>2. /\ row' \in [Kinds -> Row]
          /\ \A i \in Kinds : row'[i].status = row[i].status \/ row'[i].status # "PENDING"
          /\ \A i \in Kinds : row'[i].stage = row[i].stage
          /\ lost' \subseteq Kinds
          /\ \A i \in Kinds : i \in lost => i \in lost' \/ row'[i].status # "PENDING"
      BY <1>1, <1>2, <1>7, <2>1
    <3>3. /\ lock' \in [Kinds -> 0..MaxJobs]
          /\ \A i \in Kinds : lock'[i] = Nobody \/ (lock'[i] = lock[i] /\ lock[i] \notin {j})
          /\ "finding" \in DOMAIN check' /\ check'.finding \in [Kinds -> Findings]
      BY <1>1, <1>2, <1>3
    <3> HIDE DEF k
    <3> QED
      BY <1>2, <1>5, <3>1, <3>2, <3>3, WritesKeep
<1> QED
  BY <1>6, <1>7

\* A task that dies gives its lock up, and its row is lost.
LEMMA DiesKeeps ==
  ASSUME IInv, NEW j \in Jobs, Dies(j)
  PROVE  IInv'
<1>1. /\ made \in Nat /\ job \in [Jobs -> Task] /\ row \in [Kinds -> Row]
      /\ lock \in [Kinds -> 0..MaxJobs] /\ job[j].kind \in Kinds /\ lost \subseteq Kinds
      /\ "finding" \in DOMAIN check /\ check.finding \in [Kinds -> Findings]
  BY OneTask DEF IInv, Carried, TypeOK, Row, Ids
<1>2. /\ row' = row /\ check' = check /\ UNCHANGED <<assigned, active, mirror, deleter>>
      /\ lost' = lost \cup {job[j].kind} /\ job' = [job EXCEPT ![j] = Idle]
  BY DEF Dies, rows, Ends
<1>3. /\ lock' \in [Kinds -> 0..MaxJobs]
      /\ \A i \in Kinds : lock'[i] = Nobody \/ (lock'[i] = lock[i] /\ lock[i] \notin {j})
  BY <1>1, SyncConstants DEF Dies, Release, Nobody
<1>4. /\ job' \in [Jobs -> Task] /\ {j} \in SUBSET Jobs /\ \A i \in Jobs \ {j} : job'[i] = job[i]
      /\ \A i \in {j} : job'[i].pc # "commit"
      /\ \A i \in {j} : job[i].kind \in lost'
  BY <1>1, <1>2, TaskTypes DEF Idle
<1>5. /\ row' \in [Kinds -> Row] /\ lost' \subseteq Kinds
      /\ \A i \in Kinds : row'[i].status = row[i].status /\ row'[i].stage = row[i].stage
      /\ \A i \in Kinds : i \in lost => i \in lost'
      /\ "finding" \in DOMAIN check' /\ check'.finding \in [Kinds -> Findings]
  BY <1>1, <1>2
<1> QED
  BY <1>2, <1>3, <1>4, <1>5, WritesKeep

\* The drift check overwrites statuses, never with PENDING.
LEMMA CheckKeeps ==
  ASSUME IInv, List \/ Compare \/ Apply
  PROVE  IInv'
<1>1. /\ "finding" \in DOMAIN check /\ check.finding \in [Kinds -> Findings] /\ row \in [Kinds -> Row] /\ made \in Nat
      /\ job \in [Jobs -> Task] /\ lock \in [Kinds -> 0..MaxJobs] /\ deleter \in Deleter
      /\ assigned \subseteq Numbers /\ active \subseteq Numbers
      /\ Resting.finding \in [Kinds -> Findings] /\ "finding" \in DOMAIN Resting
  BY DEF IInv, Carried, TypeOK, Row, Ids, Resting, Findings
<1>2. CASE List
  <2>1. check'.finding = check.finding /\ "finding" \in DOMAIN check'
    BY <1>1, <1>2 DEF List
  <2> QED
    BY <1>1, <1>2, <2>1, NothingMarked DEF List, rows
<1>3. CASE Compare
  <2>1. check' = [Resting EXCEPT !.pc = "compared", !.finding = [k \in Kinds |-> Finding(k)],
                                 !.orphans = Orphans]
    BY <1>3 DEF Compare
  <2>2. [k \in Kinds |-> Finding(k)] \in [Kinds -> Findings]
    BY DEF Finding, Findings, Verdict
  <2>3. check'.finding = [k \in Kinds |-> Finding(k)] /\ "finding" \in DOMAIN check'
    BY <2>1 DEF Resting
  <2> QED
    BY <1>1, <1>3, <2>2, <2>3, NothingMarked DEF Compare, rows, history
<1>4. CASE Apply
  <2>1. /\ check' = Resting /\ UNCHANGED <<assigned, active, mirror, job, lock, deleter, lost>>
      /\ lost' \subseteq Kinds
    BY <1>4 DEF Apply, history, IInv, TypeOK
  <2>2. \/ row' = row
        \/ row' = [k \in Kinds |-> IF check.finding[k] \in {"SYNCED", "DRIFTED"}
                                   THEN [row[k] EXCEPT !.status = check.finding[k]] ELSE row[k]]
    BY <1>4 DEF Apply
  <2>3. /\ row' \in [Kinds -> Row]
        /\ \A k \in Kinds : row'[k].stage = row[k].stage
        /\ \A k \in Kinds : row'[k].status = row[k].status \/ row'[k].status # "PENDING"
    <3>1. ASSUME NEW k \in Kinds, check.finding[k] \in {"SYNCED", "DRIFTED"}
          PROVE  LET w == [row[k] EXCEPT !.status = check.finding[k]]
                 IN  w \in Row /\ w.stage = row[k].stage /\ w.status # "PENDING"
      BY <1>1, <3>1 DEF Row, Statuses
    <3>2. CASE row' = row
      BY <1>1, <3>2
    <3>3. CASE row' # row
      <4>1. row' = [k \in Kinds |-> IF check.finding[k] \in {"SYNCED", "DRIFTED"}
                                   THEN [row[k] EXCEPT !.status = check.finding[k]] ELSE row[k]]
        BY <2>2, <3>3
      <4>2. ASSUME NEW k \in Kinds
            PROVE  /\ row'[k] \in Row /\ row'[k].stage = row[k].stage
                   /\ row'[k].status = row[k].status \/ row'[k].status # "PENDING"
        <5>1. CASE check.finding[k] \in {"SYNCED", "DRIFTED"}
          <6>1. row'[k] = [row[k] EXCEPT !.status = check.finding[k]]
            BY <4>1, <5>1
          <6> QED
            BY <3>1, <5>1, <6>1
        <5>2. CASE check.finding[k] \notin {"SYNCED", "DRIFTED"}
          <6>1. row'[k] = row[k]
            BY <4>1, <5>2
          <6> QED
            BY <1>1, <6>1
        <5> QED
          BY <5>1, <5>2
      <4>3. row' = [k \in Kinds |-> row'[k]]
        BY <4>1, Zenon
      <4> QED
        BY <4>2, <4>3, Zenon
    <3> QED
      BY <3>2, <3>3
  <2>4. "finding" \in DOMAIN check' /\ check'.finding \in [Kinds -> Findings] /\ {} \in SUBSET Jobs /\ job' = job /\ lock' = lock
    BY <1>1, <2>1
  <2>5. job' \in [Jobs -> Task] /\ lock' \in [Kinds -> 0..MaxJobs]
        /\ \A i \in Jobs \ {} : job'[i] = job[i]
        /\ \A k \in Kinds : lock'[k] = lock[k] /\ lock[k] \notin {}
    BY <1>1, <2>4
  <2> QED
    BY <2>1, <2>3, <2>4, <2>5, WritesKeep
<1> QED
  BY <1>2, <1>3, <1>4

\* A restart leaves the rows, and loses the tasks of both.
LEMMA CrashKeeps ==
  ASSUME IInv, Crash
  PROVE  IInv'
<1>1. /\ row' = row /\ assigned' = assigned /\ active' = active /\ made' = made /\ live' = live
      /\ lost' = Kinds /\ deleter' = NoDelete /\ check' = Resting
      /\ job' = [j \in Jobs |-> Idle] /\ lock' = [k \in Kinds |-> Nobody]
  BY DEF Crash, rows, mirror
<1>2. made \in Nat /\ Idle \in Task /\ Idle.pc = "idle" /\ NoDelete \in Deleter
      /\ Resting.finding \in [Kinds -> Findings] /\ "finding" \in DOMAIN Resting
  BY TaskTypes DEF IInv, Carried, Idle, NoDelete, Deleter, Kinds, None, Resting, Findings
<1>3. TypeOK'
  BY <1>1 DEF IInv, TypeOK
<1>4. Carried'
  BY <1>1, <1>2, SyncConstants DEF Carried, Task, Ids, Targets, Nobody
<1>5. PendingHasJob'
  BY <1>1 DEF PendingHasJob
<1> QED
  BY <1>3, <1>4, <1>5 DEF IInv

\* Every step keeps the invariant.
LEMMA NextInv == IInv /\ [Next]_vars => IInv'
<1> SUFFICES ASSUME IInv, [Next]_vars PROVE IInv'
    OBVIOUS
<1>1. CASE (\E k \in Kinds : Create(k) \/ Push(k, FALSE)) \/ Update \/ Push("trunk", TRUE)
  BY <1>1, MarkingKeeps
<1>2. CASE (\E k \in Kinds : Delete(k)) \/ DeleteCall \/ DeleteCommit
  BY <1>2, DeleterKeeps
<1>3. CASE \E n \in Numbers : Assign(n) \/ Unassign(n) \/ SetStatus(n)
  BY <1>3, NumberKeeps
<1>4. CASE \E j \in Jobs : JobStep(j) \/ Dies(j)
  BY <1>4, LoadKeeps, CallsKeep, CommitKeeps, DiesKeeps DEF JobStep
<1>5. CASE List \/ Compare \/ Apply
  BY <1>5, CheckKeeps
<1>6. CASE Crash
  BY <1>6, CrashKeeps
<1>7. CASE UNCHANGED vars
  <2>1. UNCHANGED <<row, mirror, job, lock, lost, assigned, active, deleter, check>>
    BY <1>7 DEF vars, mirror
  <2> QED
    BY <2>1, NothingMarked DEF IInv, TypeOK, Carried
<1> QED
  BY <1>1, <1>2, <1>3, <1>4, <1>5, <1>6, <1>7 DEF Next

\* A trunk or rule that says PENDING has a task at work on it, unless a restart or an exception
\* lost one that nothing has made up for since; every row keeps its type (livekit/jobs.py,
\* livekit/drift.py).
THEOREM PendingIsSettled == Spec => []RowsSound
<1>1. Init => IInv
  BY InitInv
<1>2. IInv /\ [Next]_vars => IInv'
  BY NextInv
<1>3. IInv => RowsSound
  BY DEF IInv, RowsSound
<1> QED
  BY <1>1, <1>2, <1>3, PTL DEF Spec
=============================================================================
