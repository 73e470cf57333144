------------------------------ MODULE TrunkSync ------------------------------
(***************************************************************************)
(* One SIP trunk, the phone numbers assigned to it and the dispatch rule    *)
(* attached to it, as PostgreSQL rows, and their mirror in LiveKit.         *)
(* HTTP handlers (api/v1/sip_trunks.py, phone_numbers.py,                   *)
(* dispatch_rules.py, platform.py) write a row, mark it PENDING and start a *)
(* task (livekit/jobs.py) that pushes the row into LiveKit in a session of  *)
(* its own; the drift checker (livekit/drift.py) lists LiveKit, reads the   *)
(* rows and overwrites their status.  Sessions write only the columns they  *)
(* changed; a row whose UPDATE is not committed is locked.                  *)
(***************************************************************************)
EXTENDS Naturals, FiniteSets

CONSTANTS
  Numbers,     \* phone numbers of the tenant
  MaxJobs,     \* bound: background tasks that run at once
  MaxEvents    \* bound: operations of administrators, failures and restarts together

ASSUME SyncAssumption ==
  /\ IsFiniteSet(Numbers)
  /\ MaxJobs \in Nat \ {0}
  /\ MaxEvents \in Nat

Kinds == {"trunk", "rule"}
None == 0        \* livekit_resource_id IS NULL; ids are 1, 2, ...
Jobs == 1..MaxJobs
Nobody == 0

VARIABLES
  row,       \* the two rows: stage, livekit_resource_id, sync_status, and their content
  assigned,  \* numbers whose sip_trunk_id is the trunk
  active,    \* numbers whose status is ACTIVE
  live,      \* what LiveKit holds: id, kind, content, numbers or trunk id
  made,      \* ids LiveKit has given out
  job,       \* the background tasks
  lock,      \* the job whose transaction holds the row's lock
  deleter,   \* the delete handler between its check and its commit
  check,     \* the drift check: where it is and what it has read
  report,    \* _LAST_REPORT: the orphans of the last check
  events,
  lost,      \* history: rows whose task ended without settling them
  calm       \* history: no failure, no restart, no operation while another one's task ran

rows == <<row, assigned, active>>
mirror == <<live, made>>
history == <<events, lost, calm>>
vars == <<row, assigned, active, live, made, job, lock, deleter, check, report,
          events, lost, calm>>

\* What a row says of its resource: the fields trunk_matches and rule_matches compare
\* (name, addresses, user name, prefix, ...) and those only the push writes (password,
\* media encryption).
Content == [shown : {0, 1}, secret : {0, 1}]
Plain == [shown |-> 0, secret |-> 0]

Idle == [pc |-> "idle", kind |-> "trunk", repair |-> FALSE,
         lid |-> None, old |-> None, content |-> Plain, to |-> {}, result |-> "PENDING"]

\* The drift check: LiveKit as listed; per row "uncovered", "unchanged" or the new status.
Resting == [pc |-> "idle", live |-> {}, finding |-> [k \in Kinds |-> "uncovered"],
            orphans |-> {}]

Present(k) == row[k].stage = "present"
Running(j) == job[j].pc # "idle"
Quiet == \A j \in Jobs : ~Running(j)
Wanted(k) == IF k = "trunk" THEN assigned \cap active
             ELSE IF row["trunk"].lid = None THEN {} ELSE {row["trunk"].lid}
Resource(id, k, content, to) == [id |-> id, kind |-> k, content |-> content, to |-> to]
LiveIds(k) == {r.id : r \in {s \in live : s.kind = k}}
Fresh(k, repair) == [Idle EXCEPT !.pc = "load", !.kind = k, !.repair = repair /\ k = "trunk"]
Settled(t, result) == [Idle EXCEPT !.pc = "commit", !.kind = t.kind, !.repair = t.repair,
                                   !.old = t.old, !.lid = t.lid, !.result = result]
NoDelete == [pc |-> "idle", kind |-> "trunk", lid |-> None]

\* A platform whose trunk and rule were mirrored, though someone may have removed either in
\* LiveKit since, or one whose trunk is yet to be made.
Init ==
  /\ \/ /\ row = [k \in Kinds |-> [stage |-> "absent", lid |-> None, status |-> "PENDING",
                                   content |-> Plain]]
        /\ assigned = {} /\ live = {} /\ made = 0
     \/ /\ row = [k \in Kinds |-> [stage |-> "present", status |-> "SYNCED", content |-> Plain,
                                   lid |-> IF k = "trunk" THEN 1 ELSE 2]]
        /\ assigned \in SUBSET Numbers
        /\ live \in SUBSET {Resource(1, "trunk", Plain, assigned), Resource(2, "rule", Plain, {1})}
        /\ made = 2
  /\ active = Numbers
  /\ job = [j \in Jobs |-> Idle]
  /\ lock = [k \in Kinds |-> Nobody]
  /\ deleter = NoDelete
  /\ check = Resting
  /\ report = {}
  /\ events = 0
  /\ lost = {}
  /\ calm = \A k \in Kinds : Present(k) => row[k].lid \in LiveIds(k)

-----------------------------------------------------------------------------
(* Handlers: one request is one transaction, committed before the task starts. *)

Event == events < MaxEvents /\ events' = events + 1

\* An operation of an administrator, and whether it disturbs a job or a delete that runs.
Operation ==
  /\ Event
  /\ calm' = (calm /\ Quiet /\ deleter.pc = "idle")
  /\ UNCHANGED lost

\* An UPDATE waits for the row's lock; marking a PENDING row PENDING is no UPDATE.
Unlocked(k) == lock[k] = Nobody
Markable(k) == row[k].status = "PENDING" \/ Unlocked(k)

\* create_task: tasks have no order, so the first free place will do.
Starts(k, repair) ==
  \E j \in Jobs :
    /\ ~Running(j) /\ \A i \in 1..(j - 1) : Running(i)
    /\ job' = [job EXCEPT ![j] = Fresh(k, repair)]

Created(k) == [row EXCEPT ![k].stage = "present", ![k].status = "PENDING"]

\* create_trunk and create_rule (a rule's trunk must exist).
Create(k) ==
  /\ Operation
  /\ row[k].stage = "absent"
  /\ k = "rule" => Present("trunk")
  /\ row' = Created(k)
  /\ Starts(k, FALSE)
  /\ UNCHANGED <<assigned, active, mirror, lock, deleter, check, report>>

Edits(content) ==
  /\ row' = [row EXCEPT !["trunk"].content = content, !["trunk"].status = "PENDING"]
  /\ Starts("trunk", FALSE)

\* update_trunk, changing a mirrored field.
Update ==
  /\ Operation
  /\ Present("trunk") /\ Unlocked("trunk")
  /\ \/ Edits([row["trunk"].content EXCEPT !.shown = 1 - @])
     \/ Edits([row["trunk"].content EXCEPT !.secret = 1 - @])
  /\ UNCHANGED <<assigned, active, mirror, lock, deleter, check, report>>

\* sync_, retry_ and repair_ of a trunk or a rule, the tenant's own or the platform's;
\* update_rule too, as a rule's own fields are left out.
Push(k, repair) ==
  /\ Operation
  /\ Present(k) /\ Markable(k)
  /\ row' = [row EXCEPT ![k].status = "PENDING"]
  /\ Starts(k, repair)
  /\ UNCHANGED <<assigned, active, mirror, lock, deleter, check, report>>

\* Mutant: the trunk is marked, the task forgotten.
PendingOnly(now) ==
  IF Present("trunk") /\ now
  THEN Markable("trunk") /\ row' = [row EXCEPT !["trunk"].status = "PENDING"] /\ UNCHANGED job
  ELSE UNCHANGED <<row, job>>

\* _pending_trunks, when the number belongs, or belonged, to the trunk.
PendingTrunks(now) ==
  IF Present("trunk") /\ now
  THEN /\ Markable("trunk")
       /\ row' = [row EXCEPT !["trunk"].status = "PENDING"]
       /\ Starts("trunk", FALSE)
  ELSE UNCHANGED <<row, job>>

\* create_number, update_number (to this trunk or to another) and delete_number.
Assign(n) ==
  /\ Operation
  /\ Present("trunk") /\ n \notin assigned
  /\ assigned' = assigned \cup {n}
  /\ PendingTrunks(TRUE)
  /\ UNCHANGED <<active, mirror, lock, deleter, check, report>>

Unassign(n) ==
  /\ Operation
  /\ n \in assigned
  /\ assigned' = assigned \ {n}
  /\ PendingTrunks(TRUE)
  /\ UNCHANGED <<active, mirror, lock, deleter, check, report>>

\* enable_number and disable_number.
SetStatus(n) ==
  /\ Operation
  /\ active' = (active \ {n}) \cup ({n} \ active)
  /\ PendingTrunks(n \in assigned)
  /\ UNCHANGED <<assigned, mirror, lock, deleter, check, report>>

\* delete_trunk and delete_rule up to the call to LiveKit: refused while a number uses
\* the trunk.
Delete(k) ==
  /\ Operation
  /\ deleter.pc = "idle"
  /\ Present(k)
  /\ k = "trunk" => assigned = {}
  /\ deleter' = [pc |-> IF row[k].lid = None THEN "commit" ELSE "call",
                 kind |-> k, lid |-> row[k].lid]
  /\ UNCHANGED <<rows, mirror, job, lock, check, report>>

Fault == Event /\ calm' = FALSE
NoFault == UNCHANGED <<events, calm>>

\* The mirror is removed first.  A resource LiveKit does not have, or a call that fails
\* or goes unanswered, ends the request with 502 and leaves the row.
DeleteCall ==
  /\ deleter.pc = "call"
  /\ \/ /\ deleter.lid \in LiveIds(deleter.kind)
        /\ live' = {r \in live : r.id # deleter.lid}
        /\ deleter' = [deleter EXCEPT !.pc = "commit"]
        /\ NoFault
     \/ /\ deleter.lid \notin LiveIds(deleter.kind)
        /\ deleter' = NoDelete
        /\ UNCHANGED live /\ NoFault
     \/ /\ Fault
        /\ live' \in {live, {r \in live : r.id # deleter.lid}}
        /\ deleter' = NoDelete
  /\ UNCHANGED <<rows, made, job, lock, check, report, lost>>

\* ON DELETE CASCADE takes the trunk's rule with it, ON DELETE SET NULL its numbers.
Gone(k) == [r \in Kinds |-> IF r = k \/ (k = "trunk" /\ row[r].stage = "present")
                            THEN [row[r] EXCEPT !.stage = "deleted"] ELSE row[r]]

DeleteCommit ==
  /\ deleter.pc = "commit"
  /\ Unlocked(deleter.kind)
  /\ deleter.kind = "trunk" => Unlocked("rule")
  /\ row' = Gone(deleter.kind)
  /\ assigned' = IF deleter.kind = "trunk" THEN {} ELSE assigned
  /\ deleter' = NoDelete
  /\ UNCHANGED <<active, mirror, job, lock, check, report, history>>

-----------------------------------------------------------------------------
(* Background tasks: _run_trunk_sync and _run_dispatch_rule_sync. *)

Ends(j) == job' = [job EXCEPT ![j] = Idle]
\* Mutant: the lock outlives the transaction.
KeepsLock(j) == UNCHANGED lock

Release(j) == lock' = [k \in Kinds |-> IF lock[k] = j THEN Nobody ELSE lock[k]]

\* Only Repair deletes a trunk's resource; a rule is always deleted and created again.
DeletesFirst(t) == t.lid # None /\ (t.repair \/ t.kind = "rule")

\* accepted_numbers, or the rule's trunk id (a rule whose trunk has none fails), and
\* decrypt_trunk_password (without a key the trunk fails), for a task t.
Reads(j, t) ==
  \/ /\ ~(t.kind = "rule" /\ Wanted("rule") = {})
     /\ job' = [job EXCEPT ![j] = [t EXCEPT !.to = Wanted(t.kind),
                                     !.pc = IF DeletesFirst(t) THEN "delete" ELSE "call"]]
     /\ NoFault
  \/ /\ IF t.kind = "rule" THEN Wanted("rule") = {} /\ NoFault ELSE Fault
     /\ job' = [job EXCEPT ![j] = Settled(t, "FAILED")]

\* session.get: a row that is gone ends the task; one that is PENDING needs no UPDATE.
Load(j) ==
  LET k == job[j].kind
      loaded == [job[j] EXCEPT !.lid = row[k].lid, !.old = row[k].lid,
                               !.content = row[k].content]
  IN
  /\ job[j].pc = "load"
  /\ \/ ~Present(k) /\ Ends(j) /\ NoFault
     \/ Present(k) /\ row[k].status = "PENDING" /\ Reads(j, loaded)
     \/ /\ Present(k) /\ row[k].status # "PENDING" /\ NoFault
        /\ job' = [job EXCEPT ![j] = [loaded EXCEPT !.pc = "flush"]]
  /\ UNCHANGED <<rows, mirror, lock, deleter, check, report, lost>>

\* The flush of PENDING over another status locks the row until the commit.
Flush(j) ==
  LET k == job[j].kind IN
  /\ job[j].pc = "flush"
  /\ Unlocked(k)
  /\ \/ Present(k) /\ Reads(j, job[j]) /\ lock' = [lock EXCEPT ![k] = j]
     \/ ~Present(k) /\ Ends(j) /\ NoFault /\ UNCHANGED lock
  /\ UNCHANGED <<rows, mirror, deleter, check, report, lost>>

Fails(j) == job' = [job EXCEPT ![j] = Settled(@, "FAILED")]

\* The old resource goes; a failure to delete it is logged and ignored.
DeleteOld(j) ==
  /\ job[j].pc = "delete"
  /\ \/ live' = {r \in live : r.id # job[j].lid} /\ NoFault
     \/ live' \in {live, {r \in live : r.id # job[j].lid}} /\ Fault
  /\ job' = [job EXCEPT ![j].lid = None, ![j].pc = "call"]
  /\ UNCHANGED <<rows, made, lock, deleter, check, report, lost>>

Pushed(j, id) == Resource(id, job[j].kind, job[j].content, job[j].to)

\* create_inbound_trunk, create_dispatch_rule, update_inbound_trunk: done and answered;
\* an update of a resource LiveKit does not have; refused, or no answer within the
\* timeout, whether LiveKit did it or not.
Call(j) ==
  LET creates == job[j].lid = None
      id == IF creates THEN made + 1 ELSE job[j].lid
      known == creates \/ id \in LiveIds(job[j].kind)
      done == /\ live' = {r \in live : r.id # id} \cup {Pushed(j, id)}
              /\ made' = IF creates THEN id ELSE made
  IN
  /\ job[j].pc = "call"
  /\ \/ /\ known /\ done /\ NoFault
        /\ job' = [job EXCEPT ![j] = Settled([@ EXCEPT !.lid = id], "SYNCED")]
     \/ ~known /\ UNCHANGED mirror /\ NoFault /\ Fails(j)
     \/ known /\ Fault /\ (done \/ UNCHANGED mirror) /\ Fails(j)
  /\ UNCHANGED <<rows, lock, deleter, check, report, lost>>

\* Mutant: Repair leaves the rules of the trunk alone.
NoRules(j) == FALSE

\* _enqueue_dependent_rules, after a successful Repair of the trunk.
RepairsRules(j) ==
  /\ job[j].kind = "trunk" /\ job[j].repair /\ job[j].result = "SYNCED"
  /\ Present("rule")

\* Mutant: an id is written once.
FirstId(j, lid) == IF lid = None THEN job[j].lid ELSE lid

\* The id after the commit: only a changed column is written.
IdOf(j, lid) == IF job[j].lid = job[j].old THEN lid ELSE job[j].lid

\* The commit writes the status, and the id if the job changed it; an UPDATE of a row
\* that is gone raises, and the task ends.
Commit(j) ==
  LET k == job[j].kind IN
  /\ job[j].pc = "commit"
  /\ lock[k] \in {Nobody, j}
  /\ IF Present(k)
     THEN /\ row' = [row EXCEPT ![k].status = job[j].result,
                                ![k].lid = IdOf(j, @)]
          /\ lost' = lost \ {k}
          /\ job' = [job EXCEPT ![j] = IF RepairsRules(j) THEN Fresh("rule", TRUE) ELSE Idle]
     ELSE Ends(j) /\ UNCHANGED <<row, lost>>
  /\ Release(j)
  /\ UNCHANGED <<assigned, active, mirror, deleter, check, report, events, calm>>

\* An exception that is no LiveKitError, from the password's decryption or the database:
\* _guarded logs it, and the transaction is rolled back.
Dies(j) ==
  /\ Running(j) /\ Fault
  /\ Ends(j) /\ Release(j)
  /\ lost' = lost \cup {job[j].kind}
  /\ UNCHANGED <<rows, mirror, deleter, check, report>>

JobStep(j) == Load(j) \/ Flush(j) \/ DeleteOld(j) \/ Call(j) \/ Commit(j)

-----------------------------------------------------------------------------
(* The drift checker. *)

\* list_inbound_trunks and list_dispatch_rules; when LiveKit does not answer the check
\* ends with an empty report.
List ==
  /\ check.pc = "idle"
  /\ \/ check' = [check EXCEPT !.pc = "listed", !.live = live] /\ NoFault /\ UNCHANGED report
     \/ Fault /\ report' = {} /\ UNCHANGED check
  /\ UNCHANGED <<rows, mirror, job, lock, deleter, lost>>

\* trunk_matches and rule_matches.
Matches(r, k, content, to) == r.kind = k /\ r.content.shown = content.shown /\ r.to = to

\* What a row is compared with: _numbers_by_trunk counts disabled numbers too.
Compared(k) == IF k = "trunk" THEN assigned ELSE Wanted("rule")
Covered(k) == Present(k) /\ row[k].lid # None

\* Mutant: a resource that exists is taken for a match.
VerdictOfPresence(k) == IF row[k].lid \in {r.id : r \in check.live} THEN "SYNCED" ELSE "DRIFTED"

Verdict(k) ==
  IF \E r \in check.live : r.id = row[k].lid /\ Matches(r, k, row[k].content, Compared(k))
  THEN "SYNCED" ELSE "DRIFTED"

\* Mutant: a resource is an orphan only if its row is gone.
OfDeletedRows == {r.id : r \in {s \in check.live : ~Present(s.kind)}}

Finding(k) ==
  IF ~Covered(k) THEN "uncovered"
  ELSE IF Verdict(k) = row[k].status THEN "unchanged" ELSE Verdict(k)

Orphans == {r.id : r \in {s \in check.live : ~(Present(s.kind) /\ row[s.kind].lid = s.id)}}

\* compare_trunks and compare_rules, on the rows as they are now and LiveKit as it was
\* listed.
Compare ==
  /\ check.pc = "listed"
  /\ check' = [Resting EXCEPT !.pc = "compared", !.finding = [k \in Kinds |-> Finding(k)],
                              !.orphans = Orphans]
  /\ UNCHANGED <<rows, mirror, job, lock, deleter, report, history>>

\* apply_findings and the commit: only a status that differs from the one read is written.
\* A covered row that is gone by now makes the whole check fail.
Apply ==
  /\ check.pc = "compared"
  /\ \A k \in Kinds : check.finding[k] # "uncovered" => Unlocked(k)
  /\ IF \A k \in Kinds : check.finding[k] # "uncovered" => Present(k)
     THEN /\ row' = [k \in Kinds |->
                       IF check.finding[k] \in {"SYNCED", "DRIFTED"}
                       THEN [row[k] EXCEPT !.status = check.finding[k]] ELSE row[k]]
          /\ report' = check.orphans
     ELSE UNCHANGED <<row, report>>
  /\ check' = Resting
  /\ UNCHANGED <<assigned, active, mirror, job, lock, deleter, history>>

-----------------------------------------------------------------------------
\* The API process is killed: tasks, open transactions and the report are gone.
Crash ==
  /\ Fault
  /\ lost' = Kinds
  /\ job' = [j \in Jobs |-> Idle]
  /\ lock' = [k \in Kinds |-> Nobody]
  /\ deleter' = NoDelete
  /\ check' = Resting
  /\ report' = {}
  /\ UNCHANGED <<rows, mirror>>

Next ==
  \/ \E k \in Kinds : Create(k) \/ Push(k, FALSE) \/ Delete(k)
  \/ Update \/ Push("trunk", TRUE)
  \/ \E n \in Numbers : Assign(n) \/ Unassign(n) \/ SetStatus(n)
  \/ DeleteCall \/ DeleteCommit
  \/ \E j \in Jobs : JobStep(j) \/ Dies(j)
  \/ List \/ Compare \/ Apply
  \/ Crash

\* Tasks, handlers and the check loop go on; administrators need not.
Fairness ==
  /\ \A j \in Jobs : WF_vars(JobStep(j))
  /\ WF_vars(DeleteCall) /\ WF_vars(DeleteCommit)
  /\ WF_vars(List) /\ WF_vars(Compare) /\ WF_vars(Apply)

Spec == Init /\ [][Next]_vars /\ Fairness

-----------------------------------------------------------------------------
(* Properties *)

Statuses == {"PENDING", "SYNCED", "FAILED", "DRIFTED"}

\* Every field keeps to its type, and a lock is held by a job at work on that row.
TypeOK ==
  /\ row \in [Kinds -> [stage : {"absent", "present", "deleted"}, lid : 0..made,
                        status : Statuses, content : Content]]
  /\ assigned \subseteq Numbers /\ active \subseteq Numbers
  /\ live \subseteq [id : 1..made, kind : Kinds, content : Content,
                     to : SUBSET (Numbers \cup 1..made)]
  /\ lost \subseteq Kinds
  /\ \A k \in Kinds : lock[k] # Nobody =>
       Running(lock[k]) /\ job[lock[k]].kind = k /\ job[lock[k]].pc \notin {"load", "flush"}

\* The resource the row names is in LiveKit with exactly the row's content.
Exact(k) ==
  \E r \in live : r.id = row[k].lid /\ r = Resource(r.id, k, row[k].content, Wanted(k))

\* PENDING means that LiveKit work is queued: a task is going to settle the row, however
\* operations, tasks and checks interleave, unless a task of the row was lost, to a restart
\* or an exception, and none has settled it since.
PendingHasJob ==
  \A k \in Kinds : Present(k) /\ row[k].status = "PENDING" /\ k \notin lost =>
    \E j \in Jobs : Running(j) /\ job[j].kind = k

\* Drift detection (spec 46): once the administrators rest, a row that names a resource and
\* says SYNCED matches it in every compared field, whatever raced, failed or crashed.
EventuallyHonest ==
  <>[] (\A k \in Kinds : Covered(k) /\ row[k].status = "SYNCED" =>
          \E r \in live : r.id = row[k].lid /\ Matches(r, k, row[k].content, Compared(k)))

\* The orphan direction: a resource that no row names ends up in the report.
OrphansReported ==
  <>[] (\A r \in live : (Present(r.kind) /\ row[r.kind].lid = r.id) \/ r.id \in report)

\* "PostgreSQL is the source of truth": with nothing going wrong and each operation given
\* the time to finish, every change of a row or a number reaches LiveKit exactly, and
\* LiveKit holds no trunk but the one the row names: one left over "would keep accepting
\* calls for a configuration that no longer exists" (delete_trunk).  (The rule of a deleted
\* trunk is left behind: its row goes by cascade.)
ChangeReachesLiveKit ==
  <>[] (calm =>
          /\ \A k \in Kinds : Present(k) => Exact(k)
          /\ deleter.pc = "idle" =>
               \A id \in LiveIds("trunk") : Present("trunk") /\ row["trunk"].lid = id)

\* What the rows keep at every moment: their types, and a job for every PENDING one.
RowsSound == TypeOK /\ PendingHasJob
=============================================================================
