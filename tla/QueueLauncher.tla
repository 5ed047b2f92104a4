--------------------------- MODULE QueueLauncher ---------------------------
(***************************************************************************)
(* The file-backed task queue (queue.py, QueueStore) and the launcher pass *)
(* that drains it (launcher.py, Launcher._run_pass), with the REST handlers *)
(* that write the same entries (webapi/server.py, webapi/settings_routes)  *)
(* and the restart recovery of restart_recovery.py.                        *)
(*                                                                         *)
(* An entry is one JSON file.  Each write is atomic, but every operation   *)
(* reads the whole entry, changes a field and writes the whole entry back, *)
(* and nothing locks the file in between: a read and the write that        *)
(* follows it are two steps here, for the launcher thread and for the      *)
(* REST handler running beside it.                                         *)
(*                                                                         *)
(* Abstracted: an entry's task, workspace and trio are a Work item; wall   *)
(* clock conditions (quota backoff, disk, key health, a dirty workspace)   *)
(* are the launcher refusing an entry for a reason of the environment;     *)
(* skip reasons and event logs are left out, the writes that carry them    *)
(* are not.                                                                *)
(***************************************************************************)
EXTENDS Integers, FiniteSets

CONSTANTS Work,        \* task texts
          WsOf,        \* the workspace a task names
          TrioOf,      \* the trio (lane) a task names
          MaxTasks,    \* bound: entries created through the API
          MaxEntries,  \* bound: entries ever created, retries included
          MaxRuns,     \* bound: run slots
          MaxRetries,  \* [queue.capacity] max_retries
          TrioMax,     \* [queue.capacity] <trio>_max
          NodeMax,     \* [queue] node_max_runs
          ApiOps,      \* REST operations that may run
          MaxCalls,    \* bound: REST calls other than create
          Keyed,       \* whether enqueues carry a dedup_key: both, or one
          MaxCrashes   \* bound: restarts of the service

ASSUME QueueAssumption ==
    /\ Work # {} /\ MaxTasks \in Nat
    /\ MaxEntries \in Nat /\ MaxRuns \in Nat /\ MaxRetries \in Nat
    /\ TrioMax \in Nat /\ NodeMax \in Nat \ {0} /\ MaxCrashes \in Nat
    /\ Keyed \subseteq BOOLEAN /\ MaxCalls \in Nat
    /\ ApiOps \subseteq {"create", "edit", "priority", "limit", "delete", "drain"}

Entry == 1..MaxEntries
Run == 1..MaxRuns
Trio == {TrioOf[w] : w \in Work}

VARIABLES store,    \* [Entry -> entry file]
          born,     \* entries created so far; ids grow with created_at
          runs,     \* [Run -> run as the supervisor reports it]
          drain,    \* the operator's drain flag
          crashes,  \* restarts so far
          lp,       \* what the launcher thread does next
          snap,     \* entries of the pass's first list() still to visit
          active,   \* run ids the pass found active
          todo,     \* launched entries of the second list() still to visit
          obj,      \* the entry object the launcher thread holds
          newrun,   \* the run this pass created, 0 if none
          launched, \* the pass has launched an entry
          free,     \* remaining capacity per trio
          api,      \* the REST handler in flight
          calls     \* REST calls so far, creates apart

queue == <<store, born>>
pass == <<snap, active, todo, obj, newrun, launched, free>>
rest == <<api, calls>>
vars == <<store, born, runs, drain, crashes, lp, pass, rest>>

----------------------------------------------------------------------------
(* Entries and runs.                                                       *)

NonTerminal == {"pending", "launched"}
Status == NonTerminal \cup {"done", "failed"}
Causes == {"none", "backend", "restart", "time_limit"}

\* A QueueEntry; "absent" stands for a missing file.  keyed: it carries a
\* dedup_key (the Work item); r1: its name has the -r1 suffix.
Entries == [status : Status \cup {"absent"}, work : Work, prio : {0, 1},
            run : 0..MaxRuns, attempt : Nat, retryOf : 0..MaxEntries,
            cause : Causes, intr : 0..MaxRuns, succ : 0..MaxEntries,
            review : BOOLEAN, limit : BOOLEAN, keyed : BOOLEAN, r1 : BOOLEAN]

Blank(w) == [status |-> "absent", work |-> w, prio |-> 0, run |-> 0,
             attempt |-> 1, retryOf |-> 0, cause |-> "none", intr |-> 0,
             succ |-> 0, review |-> FALSE, limit |-> FALSE,
             keyed |-> FALSE, r1 |-> FALSE]

\* An entry object in memory: its id and the record last read or changed.
Objects == [id : 0..MaxEntries, rec : Entries]
Object(e) == [id |-> e, rec |-> store[e]]
With(o, rec) == [o EXCEPT !.rec = rec]

\* Lifecycle states of lifecycle.py the launcher tells apart.  "gone": the
\* worker disappeared without a final report; "backend": a retryable fault.
ActiveStates == {"running", "stopping"}
Ended == {"completed", "backend", "fatal", "gone"}

\* old: the worker belongs to an earlier service epoch.  conf: the launcher
\* confirmed the launch.
Runs == [st : ActiveStates \cup Ended \cup {"none"}, entry : 0..MaxEntries,
         work : Work, alive : BOOLEAN, old : BOOLEAN, conf : BOOLEAN]

ActiveRuns == {r \in Run : runs[r].st \in ActiveStates}

\* _QUEUE_TRANSITIONS; nothing ever writes the status "blocked".
Transitions == {<<"pending", "launched">>, <<"pending", "done">>,
                <<"pending", "failed">>, <<"launched", "done">>,
                <<"launched", "failed">>}

Present == {e \in Entry : store[e].status # "absent"}

\* QueueStore.list, restricted to a status.
Listing(status) == {Object(e) : e \in {f \in Entry : store[f].status = status}}

\* The sort key of list(): (-priority, created_at).
Before(x, y) == \/ x.rec.prio > y.rec.prio
                \/ x.rec.prio = y.rec.prio /\ x.id < y.id

First(S) == CHOOSE x \in S : \A y \in S \ {x} : Before(x, y)

\* QueueStore._write: the whole entry replaces what is on disk.
Put(o) == store' = [store EXCEPT ![o.id] = o.rec]

Goto(l) == lp' = l

\* The object in hand when there is none.
NoObject == [id |-> 0, rec |-> Blank(CHOOSE w \in Work : TRUE)]

\* The pass is over, normally or on an exception: its locals are gone.
LeavePass == /\ Goto("idle")
             /\ snap' = {} /\ active' = {} /\ todo' = {}
             /\ obj' = NoObject /\ newrun' = 0 /\ launched' = FALSE
             /\ free' = [t \in Trio |-> 0]

\* QueueStore.requeue: the successor of a failed entry below the retry cap.
CanRequeue(e) == /\ store[e].attempt <= MaxRetries
                 /\ store[e].status = "failed"
                 /\ born < MaxEntries

Requeue(e, cause, intr) ==
    /\ store' = [store EXCEPT ![born + 1] =
           [Blank(store[e].work) EXCEPT
               !.status = "pending", !.prio = store[e].prio,
               !.attempt = store[e].attempt + 1, !.retryOf = e,
               !.cause = cause, !.intr = intr, !.limit = store[e].limit,
               !.r1 = store[e].r1 \/ intr # 0]]
    /\ born' = born + 1

----------------------------------------------------------------------------
(* The launcher pass, first half: settle the launched entries.             *)

\* _run_pass: entries = list(), before anything else is read.
PassBegin == /\ lp = "idle" /\ Goto("active")
             /\ snap' = Listing("pending")
             /\ UNCHANGED <<queue, runs, drain, crashes, active, todo, obj,
                            newrun, launched, free, rest>>

ReadActive == /\ lp = "active" /\ Goto("list")
              /\ active' = ActiveRuns
              /\ UNCHANGED <<queue, runs, drain, crashes, snap, todo, obj,
                             newrun, launched, free, rest>>

\* Mutant: a pass settles only runs of its own service epoch.
ListOwnEpoch == /\ lp = "list" /\ Goto("update")
                /\ todo' = {o \in Listing("launched") :
                               o.rec.run # 0 /\ ~runs[o.rec.run].old}
                /\ UNCHANGED <<queue, runs, drain, crashes, snap, active, obj,
                               newrun, launched, free, rest>>

\* _update_launched_entries lists again: entries launched by an earlier pass.
ListLaunched == /\ lp = "list" /\ Goto("update")
                /\ todo' = {o \in Listing("launched") : o.rec.run # 0}
                /\ UNCHANGED <<queue, runs, drain, crashes, snap, active, obj,
                               newrun, launched, free, rest>>

Visiting == First(todo)
Visited == todo' = todo \ {Visiting}

\* _enforce_time_limit: stop the run, then write the listed entry back.
StopOverrun ==
    /\ lp = "update" /\ todo # {}
    /\ Visiting.rec.run \in active
    /\ Visiting.rec.limit /\ Visiting.rec.cause # "time_limit"
    /\ runs' = IF runs[Visiting.rec.run].st = "running"
               THEN [runs EXCEPT ![Visiting.rec.run].st = "stopping"] ELSE runs
    /\ obj' = With(Visiting, [Visiting.rec EXCEPT !.cause = "time_limit"])
    /\ Goto("limitWrite")
    /\ UNCHANGED <<queue, drain, crashes, snap, active, todo, newrun, launched,
                   free, rest>>

LimitWrite == /\ lp = "limitWrite" /\ Goto("update")
              /\ Put(obj) /\ Visited /\ obj' = NoObject
              /\ UNCHANGED <<born, runs, drain, crashes, snap, active, newrun,
                             launched, free, rest>>

\* The run is active, or the entry file has vanished: nothing to settle.
LeaveLaunched ==
    /\ lp = "update" /\ todo # {}
    /\ \/ Visiting.rec.run \in active
       \/ runs[Visiting.rec.run].st \in ActiveStates
       \/ store[Visiting.id].status = "absent"
    /\ Visited
    /\ UNCHANGED <<queue, runs, drain, crashes, lp, snap, active, obj, newrun,
                   launched, free, rest>>

Verdict(r) == IF runs[r].st = "completed" THEN "done" ELSE "failed"

\* The restart classification: the worker vanished, and it belonged to an
\* earlier service epoch.
Interrupted(r) == runs[r].st = "gone" /\ runs[r].old

\* mark_done and mark_failed read the entry again and refuse an edge that is
\* not in the table; the ValueError ends the pass (_tick_sync).
MarkEnded ==
    /\ lp = "update" /\ todo # {}
    /\ Visiting.rec.run \notin active
    /\ runs[Visiting.rec.run].st \in Ended
    /\ store[Visiting.id].status # "absent"
    /\ LET to == Verdict(Visiting.rec.run)
           now == Object(Visiting.id) IN
       IF <<now.rec.status, to>> \in Transitions
       THEN /\ obj' = With(now, [now.rec EXCEPT !.status = to])
            /\ Goto("markWrite")
            /\ UNCHANGED <<snap, active, todo, newrun, launched, free>>
       ELSE LeavePass
    /\ UNCHANGED <<queue, runs, drain, crashes, rest>>

MarkWrite ==
    /\ lp = "markWrite"
    /\ Put(obj)
    /\ LET r == Visiting.rec.run IN
       Goto(CASE Interrupted(r) -> "intrWrite"
              [] runs[r].st = "backend" /\ Visiting.rec.cause # "time_limit"
                   -> "retry"
              [] OTHER -> "touch")
    /\ UNCHANGED <<born, runs, drain, crashes, pass, rest>>

\* _handle_retry; a refused requeue is swallowed.
HandleRetry == /\ lp = "retry" /\ Goto("touch")
               /\ IF CanRequeue(obj.id) THEN Requeue(obj.id, "backend", 0)
                                        ELSE UNCHANGED queue
               /\ UNCHANGED <<runs, drain, crashes, pass, rest>>

\* The interruption becomes the entry's own failure cause.
IntrWrite == /\ lp = "intrWrite" /\ Goto("recover")
             /\ obj' = With(obj, [obj.rec EXCEPT !.cause = "restart"])
             /\ Put(obj')
             /\ UNCHANGED <<born, runs, drain, crashes, snap, active, todo,
                            newrun, launched, free, rest>>

\* Mutant: the retry's own origin is not looked at.
SuccessorExists(o) == \E e \in Present : store[e].retryOf = o.id

\* find_restart_successor and already_restart_retried.
HadSecondChance(o) ==
    \/ \E e \in Present : store[e].retryOf = o.id
    \/ o.rec.retryOf \in Present /\ store[o.rec.retryOf].cause = "restart"

\* reconcile_interrupted_run up to step 3: one second chance, and none when
\* the run's effects cannot be decided (the entry is flagged for review).
Reconcile ==
    /\ lp = "recover"
    /\ \/ HadSecondChance(obj) /\ Goto("touch") /\ UNCHANGED <<store, obj>>
       \/ ~HadSecondChance(obj) /\ Goto("secondChance") /\ UNCHANGED <<store, obj>>
       \/ /\ ~HadSecondChance(obj)
          /\ obj' = With(obj, [obj.rec EXCEPT !.review = TRUE])
          /\ Put(obj') /\ Goto("touch")
    /\ UNCHANGED <<born, runs, drain, crashes, snap, active, todo, newrun,
                   launched, free, rest>>

\* Step 5: the -r1 successor, which names the interrupted run.
SecondChance ==
    /\ lp = "secondChance"
    /\ \/ /\ CanRequeue(obj.id)
          /\ Requeue(obj.id, "restart", obj.rec.run)
          /\ obj' = With(obj, [obj.rec EXCEPT !.succ = born + 1])
          /\ Goto("link")
       \/ ~CanRequeue(obj.id) /\ Goto("touch") /\ UNCHANGED <<queue, obj>>
    /\ UNCHANGED <<runs, drain, crashes, snap, active, todo, newrun, launched,
                   free, rest>>

\* _record_successor, and the last_checked_at write that ends every entry.
LinkSuccessor == /\ lp = "link" /\ Goto("touch")
                 /\ Put(obj)
                 /\ UNCHANGED <<born, runs, drain, crashes, pass, rest>>

Touch == /\ lp = "touch" /\ Goto("update")
         /\ Put(obj) /\ Visited /\ obj' = NoObject
         /\ UNCHANGED <<born, runs, drain, crashes, snap, active, newrun,
                        launched, free, rest>>

\* Mutant: one more than the lane.
RemainingOffByOne(t) ==
    LET used == Cardinality({e \in Entry : /\ store[e].status = "launched"
                                           /\ store[e].run \in active
                                           /\ TrioOf[store[e].work] = t})
    IN IF used > TrioMax THEN 0 ELSE TrioMax - used + 1

\* _remaining_capacity counts the launched entries whose run is active.
Remaining(t) ==
    LET used == Cardinality({e \in Entry : /\ store[e].status = "launched"
                                           /\ store[e].run \in active
                                           /\ TrioOf[store[e].work] = t})
    IN IF used >= TrioMax THEN 0 ELSE TrioMax - used

ReadCapacity == /\ lp = "update" /\ todo = {} /\ Goto("loop")
                /\ free' = [t \in Trio |-> Remaining(t)]
                /\ UNCHANGED <<queue, runs, drain, crashes, snap, active, todo,
                               obj, newrun, launched, rest>>

----------------------------------------------------------------------------
(* The launcher pass, second half: at most one launch.                     *)

Head == First(snap)
NextEntry == snap' = snap \ {Head} /\ Goto("loop")
Workspace(r) == WsOf[runs[r].work]

\* Mutant: the node's runs counted through the entries that name them.
NodeActiveByEntry ==
    Cardinality({e \in Entry : /\ store[e].status = "launched"
                               /\ store[e].run \in active})
    + (IF launched THEN 1 ELSE 0)

NodeActive == Cardinality(active) + (IF launched THEN 1 ELSE 0)

\* Mutants of _check_eligibility: one gate dropped, or one that waits for the
\* interrupted run to be forgotten.
NodeGate(o) == ~drain /\ NodeActive < NodeMax
LaneGate(o) == free[TrioOf[o.rec.work]] > 0
ChanceGate(o) == o.rec.intr # 0 => ~runs[o.rec.intr].alive
WorkspaceGate(o) == \A r \in active : Workspace(r) # WsOf[o.rec.work]
NoWorkspaceGate(o) == NodeGate(o) /\ LaneGate(o) /\ ChanceGate(o)
NoChanceGate(o) == NodeGate(o) /\ LaneGate(o) /\ WorkspaceGate(o)
NoDrainGate(o) == /\ NodeActive < NodeMax
                  /\ LaneGate(o) /\ ChanceGate(o) /\ WorkspaceGate(o)
WaitsForForgotten(o) == /\ NodeGate(o) /\ LaneGate(o) /\ WorkspaceGate(o)
                        /\ o.rec.intr # 0 => runs[o.rec.intr].st = "none"

\* _check_eligibility on the snapshot's entry.  workspace_is_reserved answers
\* False for reservations of the service's own pid, so it never fires here.
Eligible(o) == /\ ~drain
               /\ free[TrioOf[o.rec.work]] > 0
               /\ NodeActive < NodeMax
               /\ o.rec.intr # 0 => ~runs[o.rec.intr].alive
               /\ \A r \in active : Workspace(r) # WsOf[o.rec.work]

\* A pending entry is skipped once the pass has launched one, when it is not
\* eligible, or for a reason of the environment.
Refuse == /\ lp = "loop" /\ snap # {} /\ Goto("skip")
          /\ UNCHANGED <<queue, runs, drain, crashes, pass, rest>>

Accept == /\ lp = "loop" /\ snap # {}
          /\ ~launched /\ Eligible(Head)
          /\ Goto("launch")
          /\ UNCHANGED <<queue, runs, drain, crashes, pass, rest>>

PassEnd == /\ lp = "loop" /\ snap = {} /\ LeavePass
           /\ UNCHANGED <<queue, runs, drain, crashes, rest>>

\* record_skip reads the entry and writes it back; _skip writes it again.
SkipGet == /\ lp = "skip"
           /\ IF store[Head.id].status \in {"pending", "failed"}
              THEN obj' = Object(Head.id) /\ Goto("skipWrite") /\ UNCHANGED snap
              ELSE NextEntry /\ UNCHANGED obj
           /\ UNCHANGED <<queue, runs, drain, crashes, active, todo, newrun,
                          launched, free, rest>>

SkipWrite == /\ lp = "skipWrite" /\ Goto("skipTouch")
             /\ Put(obj)
             /\ UNCHANGED <<born, runs, drain, crashes, pass, rest>>

SkipTouch == /\ lp = "skipTouch" /\ NextEntry
             /\ Put(obj) /\ obj' = NoObject
             /\ UNCHANGED <<born, runs, drain, crashes, active, todo, newrun,
                            launched, free, rest>>

\* The auditor-profile and workspace-base guards refuse: the entry is skipped.
LaunchRefused == /\ lp = "launch" /\ Goto("skip")
                 /\ UNCHANGED <<queue, runs, drain, crashes, pass, rest>>

\* A run slot nothing refers to any more stands for a fresh run id.
Unused(r) == /\ runs[r].st \notin ActiveStates
             /\ ~runs[r].alive /\ ~runs[r].conf
             /\ \A e \in Entry : store[e].run # r /\ store[e].intr # r
             /\ \A o \in todo \cup snap : o.rec.run # r /\ o.rec.intr # r
             /\ api.obj.rec.run # r

\* supervisor.create_run: the worker is running before the entry says so.
CreateRun ==
    /\ lp = "launch" /\ Goto("claim")
    /\ \E r \in Run : /\ Unused(r) /\ \A s \in 1..(r - 1) : ~Unused(s)
                      /\ runs' = [runs EXCEPT ![r] =
                            [st |-> "running", entry |-> Head.id,
                             work |-> Head.rec.work, alive |-> TRUE,
                             old |-> FALSE, conf |-> FALSE]]
                      /\ newrun' = r
    /\ UNCHANGED <<queue, drain, crashes, snap, active, todo, obj, launched,
                   free, rest>>

\* create_run raises, or returns no run id: mark_failed.
CreateFails ==
    /\ lp = "launch"
    /\ \/ /\ <<store[Head.id].status, "failed">> \in Transitions
          /\ obj' = With(Object(Head.id), [store[Head.id] EXCEPT !.status = "failed"])
          /\ Goto("failWrite")
          /\ UNCHANGED <<snap, active, todo, newrun, launched, free>>
       \/ /\ store[Head.id].status = "absent"
          /\ NextEntry
          /\ UNCHANGED <<obj, active, todo, newrun, launched, free>>
       \/ store[Head.id].status \in {"done", "failed"} /\ LeavePass
    /\ UNCHANGED <<queue, runs, drain, crashes, rest>>

\* The failure text decides whether a successor is asked for.
FailWrite == /\ lp = "failWrite" /\ Put(obj)
             /\ \/ Goto("failRetry") /\ UNCHANGED <<snap, obj>>
                \/ NextEntry /\ obj' = NoObject
             /\ UNCHANGED <<born, runs, drain, crashes, active, todo, newrun,
                            launched, free, rest>>

FailRetry == /\ lp = "failRetry" /\ NextEntry
             /\ obj' = NoObject
             /\ IF CanRequeue(obj.id) THEN Requeue(obj.id, "backend", 0)
                                      ELSE UNCHANGED queue
             /\ UNCHANGED <<runs, drain, crashes, active, todo, newrun, launched,
                            free, rest>>

\* The launch counts against the batch, the trio and the node.
CountLaunch == /\ launched' = TRUE
               /\ free' = [free EXCEPT ![TrioOf[Head.rec.work]] = @ - 1]
               /\ NextEntry

\* mark_launched reads the entry again.  A deleted entry leaves the run
\* without one; an entry that is no longer pending ends the pass.
Claim ==
    /\ lp = "claim"
    /\ \/ /\ store[Head.id].status = "pending"
          /\ obj' = With(Object(Head.id), [store[Head.id] EXCEPT
                             !.status = "launched", !.run = newrun])
          /\ Goto("claimWrite")
          /\ UNCHANGED <<snap, active, todo, newrun, launched, free>>
       \/ /\ store[Head.id].status = "absent"
          /\ CountLaunch /\ UNCHANGED <<obj, active, todo, newrun>>
       \/ store[Head.id].status \notin {"pending", "absent"} /\ LeavePass
    /\ UNCHANGED <<queue, runs, drain, crashes, rest>>

ClaimWrite == /\ lp = "claimWrite" /\ Goto("confirm")
              /\ Put(obj)
              /\ UNCHANGED <<born, runs, drain, crashes, pass, rest>>

\* The worker is still there: the launch counts.
Confirm == /\ lp = "confirm"
           /\ runs[newrun].st \in ActiveStates
           /\ runs' = [runs EXCEPT ![newrun].conf = TRUE]
           /\ Goto("launchTouch")
           /\ UNCHANGED <<queue, drain, crashes, pass, rest>>

LaunchTouch == /\ lp = "launchTouch" /\ Put(obj)
               /\ CountLaunch /\ obj' = NoObject
               /\ UNCHANGED <<born, runs, drain, crashes, active, todo, newrun,
                              rest>>

\* Mutant: the confirmation is not looked at.
RollbackAlways ==
    /\ lp = "confirm"
    /\ newrun' = 0
    /\ IF store[Head.id].status \in {"pending", "failed"}
       THEN obj' = Object(Head.id) /\ Goto("rollbackSkip")
       ELSE obj' = NoObject /\ Goto("rollback")
    /\ UNCHANGED <<queue, runs, drain, crashes, snap, active, todo, launched,
                   free, rest>>

\* The worker has already exited: record_skip (pending and failed entries
\* only), then a second read, which forces the entry back to pending.
Rollback ==
    /\ lp = "confirm"
    /\ runs[newrun].st \notin ActiveStates
    /\ newrun' = 0
    /\ IF store[Head.id].status \in {"pending", "failed"}
       THEN obj' = Object(Head.id) /\ Goto("rollbackSkip")
       ELSE obj' = NoObject /\ Goto("rollback")
    /\ UNCHANGED <<queue, runs, drain, crashes, snap, active, todo, launched,
                   free, rest>>

RollbackSkip == /\ lp = "rollbackSkip" /\ Goto("rollback")
                /\ Put(obj) /\ obj' = NoObject
                /\ UNCHANGED <<born, runs, drain, crashes, snap, active, todo,
                               newrun, launched, free, rest>>

Revert ==
    /\ lp = "rollback"
    /\ IF store[Head.id].status \in {"absent", "pending"}
       THEN NextEntry /\ UNCHANGED obj
       ELSE /\ obj' = With(Object(Head.id), [store[Head.id] EXCEPT
                               !.status = "pending", !.run = 0])
            /\ Goto("rollbackWrite") /\ UNCHANGED snap
    /\ UNCHANGED <<queue, runs, drain, crashes, active, todo, newrun, launched,
                   free, rest>>

RollbackWrite == /\ lp = "rollbackWrite" /\ NextEntry
                 /\ Put(obj) /\ obj' = NoObject
                 /\ UNCHANGED <<born, runs, drain, crashes, active, todo, newrun,
                                launched, free, rest>>

LauncherStep ==
    \/ PassBegin \/ ReadActive \/ ListLaunched
    \/ StopOverrun \/ LimitWrite \/ LeaveLaunched \/ MarkEnded \/ MarkWrite
    \/ HandleRetry \/ IntrWrite \/ Reconcile \/ SecondChance \/ LinkSuccessor
    \/ Touch \/ ReadCapacity
    \/ Refuse \/ Accept \/ PassEnd \/ SkipGet \/ SkipWrite \/ SkipTouch
    \/ LaunchRefused \/ CreateRun \/ CreateFails \/ FailWrite \/ FailRetry
    \/ Claim \/ ClaimWrite \/ Confirm \/ LaunchTouch \/ Rollback
    \/ RollbackSkip \/ Revert \/ RollbackWrite

----------------------------------------------------------------------------
(* REST handlers: a read and a check, then a write of what was read.       *)

NoCall == [op |-> "none", obj |-> NoObject]
Call(op, o) == api' = [op |-> op, obj |-> o]
Counted == calls < MaxCalls /\ calls' = calls + 1
KeepLauncher == UNCHANGED <<runs, crashes, lp, pass>>

\* Mutant: only pending entries are live.
DuplicatePending(w, keyed) == \E e \in Present : /\ store[e].status = "pending"
                                                 /\ store[e].work = w
                                                 /\ IF keyed THEN store[e].keyed
                                                             ELSE ~store[e].r1

\* create: a live entry with the dedup key, or without one with the name.
Duplicate(w, keyed) == \E e \in Present : /\ store[e].status \in NonTerminal
                                          /\ store[e].work = w
                                          /\ IF keyed THEN store[e].keyed
                                                      ELSE ~store[e].r1

Tasks == {e \in 1..born : store[e].retryOf = 0}

CreateCheck(w, keyed) ==
    /\ "create" \in ApiOps /\ api = NoCall
    /\ Cardinality(Tasks) < MaxTasks
    /\ ~Duplicate(w, keyed)
    /\ Call("create", [id |-> 0, rec |-> [Blank(w) EXCEPT !.status = "pending",
                                                         !.keyed = keyed]])
    /\ KeepLauncher /\ UNCHANGED <<queue, drain, calls>>

CreateWrite == /\ api.op = "create" /\ born < MaxEntries
               /\ Put([api.obj EXCEPT !.id = born + 1])
               /\ born' = born + 1 /\ api' = NoCall
               /\ KeepLauncher /\ UNCHANGED <<drain, calls>>

\* The pending-only handlers: model/roles edit, priority, delete.
PendingCheck(e, op) == /\ op \in ApiOps \cap {"edit", "priority", "delete"}
                       /\ api = NoCall
                       /\ store[e].status = "pending"
                       /\ Call(op, Object(e)) /\ Counted
                       /\ KeepLauncher /\ UNCHANGED <<queue, drain>>

\* set_priority reads the entry once more, and checks nothing.
PriorityGet == /\ api.op = "priority"
               /\ IF store[api.obj.id].status = "absent" THEN api' = NoCall
                  ELSE Call("setPriority", Object(api.obj.id))
               /\ KeepLauncher /\ UNCHANGED <<queue, drain, calls>>

PriorityWrite == /\ api.op = "setPriority"
                 /\ Put(With(api.obj, [api.obj.rec EXCEPT !.prio = 1 - @]))
                 /\ api' = NoCall
                 /\ KeepLauncher /\ UNCHANGED <<born, drain, calls>>

\* An edit of model or roles, which no rule here reads, writes the entry back
\* unless nothing changed.
EditWrite == /\ api.op = "edit"
             /\ Put(api.obj) \/ UNCHANGED store
             /\ api' = NoCall
             /\ KeepLauncher /\ UNCHANGED <<born, drain, calls>>

\* QueueStore.delete unlinks the file, whatever its status is by now.
DeleteFile == /\ api.op = "delete"
              /\ store' = [store EXCEPT ![api.obj.id].status = "absent"]
              /\ api' = NoCall
              /\ KeepLauncher /\ UNCHANGED <<born, drain, calls>>

\* POST /api/runs/{id}/time_limit: any entry that names the run.
LimitRead(e) == /\ "limit" \in ApiOps /\ api = NoCall
                /\ e \in Present /\ store[e].run # 0
                /\ Call("limit", Object(e)) /\ Counted
                /\ KeepLauncher /\ UNCHANGED <<queue, drain>>

LimitSet == /\ api.op = "limit"
            /\ Put(With(api.obj, [api.obj.rec EXCEPT !.limit = ~@]))
            /\ api' = NoCall
            /\ KeepLauncher /\ UNCHANGED <<born, drain, calls>>

\* POST /api/queue/drain.
SetDrain == /\ "drain" \in ApiOps /\ drain' = ~drain /\ Counted
            /\ KeepLauncher /\ UNCHANGED <<queue, api>>

ApiStep == \/ \E w \in Work, keyed \in Keyed : CreateCheck(w, keyed)
           \/ \E e \in Entry, op \in ApiOps : PendingCheck(e, op)
           \/ \E e \in Entry : LimitRead(e)
           \/ CreateWrite \/ PriorityGet \/ PriorityWrite \/ EditWrite
           \/ DeleteFile \/ LimitSet \/ SetDrain

----------------------------------------------------------------------------
(* Workers and the service process.                                        *)

\* A worker ends; one that was asked to stop is cancelled, or was satisfied.
RunEnds(r) == /\ runs[r].st \in ActiveStates
              /\ \E st \in Ended :
                    /\ runs[r].st = "stopping" => st \in {"fatal", "completed"}
                    /\ runs' = [runs EXCEPT ![r].st = st, ![r].alive = FALSE]
              /\ UNCHANGED <<queue, drain, crashes, lp, pass, rest>>

\* A worker the supervisor lost track of exits at last.
LingererExits(r) == /\ runs[r].alive /\ runs[r].st \notin ActiveStates
                    /\ runs' = [runs EXCEPT ![r].alive = FALSE]
                    /\ UNCHANGED <<queue, drain, crashes, lp, pass, rest>>

\* The service dies and comes back as a new epoch.  Locals and calls are
\* lost; of the workers some survive, some die with it, and some survive
\* without the new service recognising them.
Restart == /\ crashes < MaxCrashes /\ crashes' = crashes + 1
           /\ \E lost \in SUBSET ActiveRuns : \E linger \in SUBSET lost :
                runs' = [r \in Run |->
                    [runs[r] EXCEPT !.old = runs[r].st # "none",
                                    !.st = IF r \in lost THEN "gone" ELSE @,
                                    !.alive = @ /\ (r \in lost => r \in linger)]]
           /\ LeavePass /\ api' = NoCall
           /\ UNCHANGED <<queue, drain, calls>>

Environment == Restart \/ \E r \in Run : RunEnds(r) \/ LingererExits(r)

Init == LET w == CHOOSE v \in Work : TRUE IN
        /\ store = [e \in Entry |-> Blank(w)] /\ born = 0
        /\ runs = [r \in Run |-> [st |-> "none", entry |-> 0, work |-> w,
                                  alive |-> FALSE, old |-> FALSE, conf |-> FALSE]]
        /\ drain = FALSE /\ crashes = 0
        /\ lp = "idle" /\ snap = {} /\ active = {} /\ todo = {}
        /\ obj = NoObject /\ newrun = 0 /\ launched = FALSE
        /\ free = [t \in Trio |-> 0]
        /\ api = NoCall /\ calls = 0

Next == LauncherStep \/ ApiStep \/ Environment

Spec == Init /\ [][Next]_vars

\* The poll loop keeps ticking and each of its steps returns; workers end.
\* An entry the environment could let through is not refused for ever.
Fairness == /\ WF_vars(LauncherStep)
            /\ SF_vars(Accept) /\ SF_vars(CreateRun)
            /\ \A r \in Run : WF_vars(RunEnds(r)) /\ WF_vars(LingererExits(r))
            /\ WF_vars(CreateWrite \/ PriorityGet \/ PriorityWrite \/ EditWrite
                       \/ DeleteFile \/ LimitSet)

FairSpec == Spec /\ Fairness

----------------------------------------------------------------------------
(* Properties.                                                             *)

LauncherLabels ==
    {"idle", "active", "list", "update", "limitWrite", "markWrite", "retry",
     "intrWrite", "recover", "secondChance", "link", "touch", "loop", "skip",
     "skipWrite", "skipTouch", "launch", "failWrite", "failRetry", "claim",
     "claimWrite", "confirm", "launchTouch", "rollback",
     "rollbackSkip", "rollbackWrite"}

StoreType == store \in [Entry -> Entries] /\ born \in 0..MaxEntries
RunsType == runs \in [Run -> Runs]
FlagsType == drain \in BOOLEAN /\ launched \in BOOLEAN
PassType == /\ lp \in LauncherLabels
            /\ snap \subseteq Objects /\ todo \subseteq Objects /\ obj \in Objects
            /\ active \subseteq Run /\ newrun \in 0..MaxRuns
CallType == /\ api \in [op : {"none", "create", "edit", "priority",
                              "setPriority", "limit", "delete"}, obj : Objects]
            /\ calls \in 0..MaxCalls /\ crashes \in 0..MaxCrashes

\* The entry files, the runs, the pass's locals and the call in flight have
\* their types; in particular a lane's free capacity (_remaining_capacity,
\* counted down by each launch) never goes negative.
TypeOK == /\ StoreType /\ RunsType /\ FlagsType /\ PassType /\ CallType
          /\ free \in [Trio -> Nat]

\* _check_eligibility, the active-run rule: whatever handlers interleave with
\* the pass and whenever the service restarts, the launcher never has two
\* active runs in one workspace.
WorkspaceExclusive ==
    \A r, s \in ActiveRuns : r # s => Workspace(r) # Workspace(s)

\* _node_capacity_reason: the node never runs more than node_max_runs.
NodeCeiling == Cardinality(ActiveRuns) <= NodeMax

\* _interrupted_worker_alive_reason: the restart successor of a run never
\* runs beside that run's own worker ("two workers for one task is the thing
\* this gate exists to prevent").
SecondChanceWaits ==
    \A r \in ActiveRuns : \A e \in Present :
        e = runs[r].entry /\ store[e].intr # 0 => ~runs[store[e].intr].alive

\* requeue: a retry continues exactly one entry, one attempt later, within
\* the cap of max_retries + 1 attempts; no entry has two successors, and a
\* second chance never gets a second chance (already_restart_retried).
LineageLinear ==
    \A e \in Present : store[e].retryOf # 0 =>
        /\ store[e].attempt = store[store[e].retryOf].attempt + 1
        /\ store[e].attempt <= MaxRetries + 1
        /\ \A f \in Present : store[f].retryOf = store[e].retryOf => f = e
        /\ store[e].intr # 0 => store[store[e].retryOf].intr = 0

\* _remaining_capacity: a trio never has more active runs than its lane.
TrioCeiling ==
    \A t \in Trio :
        Cardinality({r \in ActiveRuns : TrioOf[runs[r].work] = t}) <= TrioMax

\* _launch: outside the launch itself, every active run is the run of a
\* launched entry, so the queue knows about all the work that is running.
NoOrphanRun ==
    \A r \in ActiveRuns :
        \/ store[runs[r].entry].status = "launched" /\ store[runs[r].entry].run = r
        \/ r = newrun /\ lp \in {"claim", "claimWrite"}

\* create: one live entry per dedup key, as long as callers come one by one.
DedupUnique ==
    \A e, f \in Present :
        /\ store[e].keyed /\ store[f].keyed
        /\ store[e].status \in NonTerminal /\ store[f].status \in NonTerminal
        /\ store[e].work = store[f].work
        => e = f

\* create's docstring: the entry "is launched at most once".
LaunchedOnce ==
    \A r, s \in Run :
        runs[r].conf /\ runs[s].conf /\ runs[r].entry = runs[s].entry => r = s

\* _update_launched_entries: a launched entry whose run has ended does not
\* stay launched, across aborted passes, racing handlers and restarts.
EndedRunsSettle ==
    \A e \in Entry : (store[e].status = "launched" /\ runs[store[e].run].st \in Ended)
                     ~> (store[e].status # "launched")

\* _drain_skip_reason: under a lasting drain the node becomes and stays idle,
\* the window a deploy waits for.
DrainEmptiesNode == <>[]drain => <>[](ActiveRuns = {})

\* _run_pass: every pending entry comes to an end, while launching is allowed
\* and workers do not exit before their confirmation for ever (the rollback
\* to pending counts no attempt, so no cap ends that loop).
WorkSettles ==
    <>[](~drain /\ lp # "rollback") => \A e \in Entry : (store[e].status = "pending")
                                   ~> (store[e].status \in {"done", "failed", "absent"})
============================================================================
