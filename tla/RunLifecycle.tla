---------------------------- MODULE RunLifecycle ----------------------------
(***************************************************************************)
(* The lifecycle of one supervised run (supervisor/service.py): its create *)
(* under an idempotency key, which is retried after a refusal or a crash,  *)
(* the launch transaction, status polls, stop and abort, their replay      *)
(* after a crash, and the in-place resume that reopens a finished run as a *)
(* new epoch.                                                              *)
(*                                                                         *)
(* An actor is a thread of an API process.  _lifecycle_lock is a lock of   *)
(* one process, and creating a run does not take it, so steps of different *)
(* processes, and of a launch and a poll of one process, interleave.  A    *)
(* status write under ControlBus.update_status is one step: the run's      *)
(* control lock is held from its read to its write.                        *)
(*                                                                         *)
(* Left out: runs with managed = False, the embedded supervisor            *)
(* (attached), resume in retry mode (a new run), the key of a resume, and  *)
(* the crash report a poll writes when there is no report, which reads     *)
(* like no report at all.  A create without a key launches the same way,   *)
(* once, for an id of its own.                                             *)
(***************************************************************************)
EXTENDS Integers, FiniteSets

CONSTANTS Actor,        \* threads that call the supervisor
          ProcOf,       \* the API process of a thread
          Ops,          \* calls that may be made
          MaxEpoch,     \* MAX_RESUME_EPOCH
          MaxWorkers,   \* bound: worker processes ever spawned
          MaxCrashes,   \* bound: API processes that die
          Faults,       \* failures that may happen: spawn, metadata, denied, busy
          LaunchAlone   \* TRUE: no other call overlaps a create or a resume

ASSUME LifecycleAssumption ==
    /\ MaxEpoch \in Nat /\ MaxWorkers \in Nat /\ MaxCrashes \in Nat
    /\ Ops \subseteq {"poll", "stop", "abort", "resume"}
    /\ Faults \subseteq {"spawn", "metadata", "denied", "busy"}
    /\ LaunchAlone \in BOOLEAN
    /\ "none" \notin {ProcOf[a] : a \in Actor}

Proc == {ProcOf[a] : a \in Actor}
Worker == 1..MaxWorkers
Epoch == 0..MaxEpoch

VARIABLES exists,    \* the run directory has been made
          idem,      \* the record of the create's idempotency key
          status,    \* control/status.json
          owner,     \* control/owner.json
          cmds,      \* commands in control/commands.jsonl
          receipts,  \* commands with a line in control/receipts.jsonl
          report,    \* the outcome in logs/report.json
          workers,   \* [Worker -> worker process]
          handle,    \* [Proc -> Popen of the run in _processes, 0 if none]
          pc,        \* what each actor does next
          loc,       \* the locals of its call
          crashes,   \* API processes that died so far
          denials    \* history: a signal has been denied

files == <<status, owner, cmds, receipts>>
made == <<exists, idem>>
world == <<made, report, workers, handle, crashes, denials>>
vars == <<files, world, pc, loc>>

----------------------------------------------------------------------------
(* Records.                                                                *)

Terminal == {"completed", "incomplete", "failed", "cancelled"}
ActiveStatus == {"creating", "starting", "running", "stopping"}
Signals == {"stop", "abort"}
Launches == {"create", "resume"}

\* lifecycle.py: waiting_approval is "running" here, blocked "incomplete".
Statuses == [st : Terminal \cup ActiveStatus \cup {"idle"},
             act : Signals \cup {"none"}, epoch : Epoch, alive : BOOLEAN]
NoStatus == [st |-> "idle", act |-> "none", epoch |-> 0, alive |-> FALSE]

Owners == [pid : 0..MaxWorkers, epoch : Epoch]

\* Mutant: ids are not scoped by the resume generation.
CommandIdUnscoped(kind, epoch) == <<kind, 0>>

\* _lifecycle_command_id; the idempotency key of a command.
CommandId(kind, epoch) == <<kind, epoch>>

CommandIds == (Signals \cup {"resume"}) \X Epoch

\* parent: the API process that will reap it; an exited worker stays a
\* zombie until then, and a signal to a zombie does not fail.
Workers == [st : {"unborn", "live", "zombie", "reaped"}, rc : {0, 1}, sig : BOOLEAN,
            parent : Proc \cup {"none"}, epoch : Epoch]
Live == {w \in Worker : workers[w].st = "live"}

Reports == {"none", "completed", "incomplete"}

Locals == [op : {"none", "poll"} \cup Signals \cup Launches, cur : Statuses,
           pid : 0..MaxWorkers, rev : Nat, epoch : Epoch]
NoLocals == [op |-> "none", cur |-> NoStatus, pid |-> 0, rev |-> 0, epoch |-> 0]

Step(a, from, to) == pc[a] = from /\ pc' = [pc EXCEPT ![a] = to]
Returns(a) == pc' = [pc EXCEPT ![a] = "idle"] /\ loc' = [loc EXCEPT ![a] = NoLocals]
Cur(a) == loc[a].cur
SetCur(a, s) == loc' = [loc EXCEPT ![a].cur = s]

\* _terminal_status_for_exit.
ExitStatus(rc, act) == CASE act # "none" -> "cancelled"
                         [] act = "none" /\ (rc # 0 \/ report = "none") -> "failed"
                         [] OTHER -> report

\* Without a Popen the exit code is taken from the report's existence.
GuessedExit(act) == ExitStatus(IF report = "none" THEN 1 ELSE 0, act)

Rank(st) == CASE st \in {"idle", "creating"} -> 0
              [] st = "starting" -> 1
              [] OTHER -> 2

\* {**current, **candidate}: an absent field does not overwrite.
Over(current, cand) ==
    [cand EXCEPT !.act = IF @ = "none" THEN current.act ELSE @,
                 !.epoch = IF @ = 0 THEN current.epoch ELSE @]

\* Mutant: the operator's intent is not looked at.
MergeNoIntent(current, cand) ==
    CASE cand.epoch > current.epoch -> cand
      [] cand.epoch <= current.epoch /\ current.st \in Terminal
           -> [Over(current, cand) EXCEPT !.st = current.st, !.alive = FALSE]
      [] OTHER -> Over(current, cand)

\* _merge_lifecycle_status.
Merge(current, cand) ==
    LET m == Over(current, cand) IN
    IF cand.epoch > current.epoch THEN cand
    ELSE IF current.st \in Terminal
      THEN [m EXCEPT !.st = current.st, !.alive = FALSE]
    ELSE IF current.st = "stopping" \/ current.act # "none"
      THEN [m EXCEPT !.act = IF current.act # "none" THEN current.act ELSE @,
                     !.st = IF cand.st \in Terminal THEN "cancelled" ELSE "stopping"]
    ELSE IF cand.st \notin Terminal /\ Rank(cand.st) < Rank(current.st)
      THEN [m EXCEPT !.st = current.st]
    ELSE m

\* Mutant: only a Popen of its own tells that a worker is alive.
IsAliveOwnChild(a) ==
    handle[ProcOf[a]] # 0 /\ handle[ProcOf[a]] \in Live

\* _is_alive: the Popen of this process, or the owner's verified pid.
IsAlive(a) == LET h == handle[ProcOf[a]] IN
              IF h # 0 THEN h \in Live ELSE owner.pid \in Live

\* poll() of an exited child reaps it.
Reaped(w) == [workers EXCEPT ![w].st = IF @ = "zombie" THEN "reaped" ELSE @]

----------------------------------------------------------------------------
(* _refresh, the first part of every call.                                 *)

\* The lifecycle lock of the process is free, and the run exists.
Begin(a, op) ==
    /\ exists /\ pc[a] = "idle"
    /\ \A b \in Actor \ {a} : pc[b] # "idle" =>
          /\ ProcOf[b] = ProcOf[a] => loc[b].op = "create"
          /\ LaunchAlone => {op, loc[b].op} \cap Launches = {}
    /\ pc' = [pc EXCEPT ![a] = "read"]
    /\ loc' = [loc EXCEPT ![a] = [NoLocals EXCEPT !.op = op]]
    /\ UNCHANGED <<files, world>>

RefreshRead(a) == /\ Step(a, "read", "replay")
                  /\ SetCur(a, status)
                  /\ UNCHANGED <<files, world>>

\* Mutant: an undelivered command is never looked for.
UndeliveredNone(s) == FALSE

\* A stop or abort whose sender died before its receipt.
Undelivered(s) == /\ s.st = "stopping" /\ s.act # "none"
                  /\ CommandId(s.act, s.epoch) \in cmds \ receipts

\* _replay_pending_lifecycle: nothing to do, the target is gone, or send it.
Replay(a) ==
    /\ \/ ~Undelivered(Cur(a)) /\ Step(a, "replay", "observe") /\ UNCHANGED loc
       \/ /\ Undelivered(Cur(a)) /\ ~(owner.pid # 0 /\ IsAlive(a))
          /\ Step(a, "replay", "closeReceipt") /\ UNCHANGED loc
       \/ /\ Undelivered(Cur(a)) /\ owner.pid # 0 /\ IsAlive(a)
          /\ Step(a, "replay", "replayKill")
          /\ loc' = [loc EXCEPT ![a].pid = owner.pid]
    /\ UNCHANGED <<files, world>>

\* killpg: ProcessLookupError when the process is gone, PermissionError
\* when the signal is denied.
Deliver(a, from, sent, lookup, denied) ==
    \/ /\ Step(a, from, sent) /\ workers[loc[a].pid].st # "reaped"
       /\ workers' = [workers EXCEPT ![loc[a].pid].sig = TRUE]
       /\ UNCHANGED denials
    \/ /\ Step(a, from, lookup) /\ workers[loc[a].pid].st = "reaped"
       /\ UNCHANGED <<workers, denials>>
    \/ /\ Step(a, from, denied) /\ workers[loc[a].pid].st = "live"
       /\ "denied" \in Faults /\ denials' = TRUE /\ UNCHANGED workers

ReplayKill(a) == /\ Deliver(a, "replayKill", "replayReceipt", "closeReceipt",
                            "denyReceipt")
                 /\ UNCHANGED <<files, made, report, handle, crashes, loc>>

\* The receipt of the replayed command, then a status write that changes
\* nothing modelled and returns the record.
ReplayReceipt(a) == /\ Step(a, "replayReceipt", "replayed")
                    /\ receipts' = receipts \cup {CommandId(Cur(a).act, Cur(a).epoch)}
                    /\ UNCHANGED <<status, owner, cmds, world, loc>>

Replayed(a) == /\ Step(a, "replayed", "observe")
               /\ SetCur(a, status)
               /\ UNCHANGED <<files, world>>

\* PermissionError: receipt "failed", then the intent is taken back.
DenyReceipt(a) == /\ Step(a, "denyReceipt", "denyStatus")
                  /\ receipts' = receipts \cup {CommandId(Cur(a).act, Cur(a).epoch)}
                  /\ UNCHANGED <<status, owner, cmds, world, loc>>

DenyStatus(a) == /\ Step(a, "denyStatus", "observe")
                 /\ status' = [status EXCEPT !.st = "running", !.alive = TRUE,
                                             !.act = "none"]
                 /\ SetCur(a, status')
                 /\ UNCHANGED <<owner, cmds, receipts, world>>

\* reconcile_unavailable: receipt "rejected", then the report's verdict
\* replaces whatever the status is by now.
CloseReceipt(a) == /\ Step(a, "closeReceipt", "closeStatus")
                   /\ receipts' = receipts \cup {CommandId(Cur(a).act, Cur(a).epoch)}
                   /\ loc' = [loc EXCEPT ![a].cur.st = GuessedExit("none")]
                   /\ UNCHANGED <<status, owner, cmds, world>>

CloseStatus(a) == /\ Step(a, "closeStatus", "observe")
                  /\ status' = [status EXCEPT !.st = Cur(a).st, !.alive = FALSE]
                  /\ SetCur(a, status')
                  /\ UNCHANGED <<owner, cmds, receipts, world>>

\* What the poll makes of the process.
ObservedExit(a) ==
    LET h == handle[ProcOf[a]] IN
    /\ h # 0 /\ h \notin Live
    /\ SetCur(a, [Cur(a) EXCEPT !.alive = FALSE,
                    !.st = IF @ \in Terminal THEN @
                           ELSE ExitStatus(workers[h].rc, Cur(a).act)])
    /\ workers' = Reaped(h)

\* A worker's first event turns "starting" into "running".
ObservedAlive(a) ==
    /\ IsAlive(a)
    /\ \E st \in {Cur(a).st} \cup
                 (IF Cur(a).st \in Terminal \cup {"stopping"} THEN {} ELSE {"running"}) :
          SetCur(a, [Cur(a) EXCEPT !.alive = TRUE, !.st = st])
    /\ UNCHANGED workers

\* No Popen, and the owner's process is gone.
ObservedGone(a) ==
    /\ handle[ProcOf[a]] = 0 /\ ~IsAlive(a)
    /\ SetCur(a, [Cur(a) EXCEPT !.alive = FALSE,
                    !.st = CASE @ \in ActiveStatus -> GuessedExit(Cur(a).act)
                             [] @ = "idle" /\ report # "none" -> GuessedExit("none")
                             [] OTHER -> @])
    /\ UNCHANGED workers

Observe(a) == /\ Step(a, "observe", "merge")
              /\ ObservedExit(a) \/ ObservedAlive(a) \/ ObservedGone(a)
              /\ UNCHANGED <<files, made, report, handle, crashes, denials>>

\* The merge ends a poll; the other calls go on with the merged record.
MergeStatus(a) ==
    /\ pc[a] = "merge"
    /\ status' = Merge(status, Cur(a))
    /\ \/ loc[a].op = "poll" /\ Returns(a)
       \/ loc[a].op \in Signals /\ Step(a, "merge", "decide") /\ SetCur(a, status')
       \/ loc[a].op = "resume" /\ Step(a, "merge", "resume") /\ SetCur(a, status')
    /\ UNCHANGED <<owner, cmds, receipts, world>>

----------------------------------------------------------------------------
(* _signal: stop and abort.                                                *)

\* A signal is under way already, unless this is an abort after a stop.
Requested(s, kind) == /\ s.st = "stopping" \/ s.act # "none"
                      /\ ~(kind = "abort" /\ s.act = "stop")

Decide(a) ==
    LET kind == loc[a].op IN
    /\ pc[a] = "decide"
    /\ IF /\ CommandId(kind, Cur(a).epoch) \notin cmds
          /\ ~Requested(Cur(a), kind)
          /\ Cur(a).alive /\ owner.pid # 0
       THEN /\ Step(a, "decide", "append")
            /\ loc' = [loc EXCEPT ![a].pid = owner.pid, ![a].rev = Cardinality(cmds)]
       ELSE Returns(a)
    /\ UNCHANGED <<files, world>>

\* append(expected_revision): a replay of the id, or a RevisionConflict,
\* ends the call.
Append(a) ==
    LET id == CommandId(loc[a].op, Cur(a).epoch) IN
    /\ pc[a] = "append"
    /\ IF id \in cmds \/ Cardinality(cmds) # loc[a].rev
       THEN Returns(a) /\ UNCHANGED cmds
       ELSE /\ Step(a, "append", "mark") /\ UNCHANGED loc
            /\ cmds' = cmds \cup {id}
    /\ UNCHANGED <<status, owner, receipts, world>>

\* mark_stopping keeps a terminal decision made meanwhile.
MarkStopping(a) ==
    /\ \/ status.st \in Terminal /\ Step(a, "mark", "receipt") /\ UNCHANGED status
       \/ /\ status.st \notin Terminal /\ Step(a, "mark", "kill")
          /\ status' = [status EXCEPT !.st = "stopping", !.act = loc[a].op]
    /\ UNCHANGED <<owner, cmds, receipts, world, loc>>

Kill(a) == /\ Deliver(a, "kill", "receipt", "lookup", "restore")
           /\ UNCHANGED <<files, made, report, handle, crashes, loc>>

\* The signal raced with the exit: the report's verdict replaces the status.
LookupFailed(a) == /\ Step(a, "lookup", "receipt")
                   /\ status' = [status EXCEPT !.st = GuessedExit("none"),
                                               !.alive = FALSE]
                   /\ UNCHANGED <<owner, cmds, receipts, world, loc>>

\* restore_active: back to the state before the request.
RestoreActive(a) ==
    /\ Step(a, "restore", "receipt")
    /\ status' = [status EXCEPT !.act = "none", !.alive = Cur(a).alive,
                    !.st = IF Cur(a).st \in ActiveStatus THEN Cur(a).st ELSE "running"]
    /\ UNCHANGED <<owner, cmds, receipts, world, loc>>

Receipt(a) == /\ pc[a] = "receipt" /\ Returns(a)
              /\ receipts' = receipts \cup {CommandId(loc[a].op, Cur(a).epoch)}
              /\ UNCHANGED <<status, owner, cmds, world>>

----------------------------------------------------------------------------
(* Launching: create_run, _resume_once, _continue_run_in_place and the     *)
(* transaction they share, _launch_worker.                                 *)

\* Mutant: creates are not serialized.
LockIgnored == FALSE

\* _supervisor_locked: the lock of creates, let go when its holder dies.
Locked == \E b \in Actor : pc[b] # "idle" /\ loc[b].op = "create"

\* A client sends its create, or sends it again.
BeginCreate(a) ==
    /\ pc[a] = "idle" /\ ~Locked
    /\ LaunchAlone => \A b \in Actor : pc[b] = "idle" \/ loc[b].op = "create"
    /\ pc' = [pc EXCEPT ![a] = "readKey"]
    /\ loc' = [loc EXCEPT ![a] = [NoLocals EXCEPT !.op = "create"]]
    /\ UNCHANGED <<files, world>>

\* A resume takes the fingerprint of the create off the owner.
Marked == owner.epoch = 0

\* Mutant: a launch that failed is no answer.
ExistingOwned == Marked /\ owner.pid > 0

\* _existing_run_result: what a retry is answered with.
Existing == Marked /\ (owner.pid > 0 \/ status.st \in Terminal)

\* Mutant: a launch is under way only if its worker is on record.
UnderWayOwned == owner.pid > 0

UnderWay == owner.pid > 0 \/ status.st \in ActiveStatus

\* The key's record: an answer, a launch to recover, or a new request.
ReadKey(a) ==
    /\ pc[a] = "readKey"
    /\ \/ idem = "completed" /\ Returns(a) /\ UNCHANGED idem
       \/ idem = "creating" /\ Existing /\ Returns(a) /\ idem' = "completed"
       \/ /\ idem = "creating" /\ ~Existing
          /\ Step(a, "readKey", "recheck") /\ UNCHANGED <<loc, idem>>
       \/ /\ idem = "none"
          /\ Step(a, "readKey", "claim") /\ UNCHANGED <<loc, idem>>
    /\ UNCHANGED <<files, exists, report, workers, handle, crashes, denials>>

\* "request is already being created"; or the retry takes the launch over.
Recheck(a) == /\ \/ exists /\ UnderWay /\ pc[a] = "recheck" /\ Returns(a)
                 \/ /\ ~(exists /\ UnderWay)
                    /\ Step(a, "recheck", "claim") /\ UNCHANGED loc
              /\ UNCHANGED <<files, world>>

Claim(a) == /\ Step(a, "claim", "mkdir") /\ idem' = "creating"
            /\ UNCHANGED <<files, exists, report, workers, handle, crashes, denials, loc>>

\* Another launch has reserved the workspace, or run_dir.mkdir, and a look
\* at what is there if the directory exists.
MakeDir(a) ==
    /\ pc[a] = "mkdir"
    /\ \/ "busy" \in Faults /\ Returns(a) /\ UNCHANGED exists
       \/ exists /\ (~Marked \/ UnderWay) /\ Returns(a) /\ UNCHANGED exists
       \/ /\ ~exists \/ (Marked /\ ~UnderWay)
          /\ exists' = TRUE /\ Step(a, "mkdir", "reserve") /\ UNCHANGED loc
    /\ UNCHANGED <<files, idem, report, workers, handle, crashes, denials>>

\* The result is stored under the key.
Record(a) == /\ pc[a] = "record" /\ Returns(a)
             /\ idem' = "completed"
             /\ UNCHANGED <<files, exists, report, workers, handle, crashes, denials>>

OwnerEpoch(a) == IF owner.epoch # 0 THEN owner.epoch ELSE Cur(a).epoch

\* Mutants: an active run is resumed; the cap is passed by one; the
\* generation is not counted.
ResumeActive(a) ==
    /\ pc[a] = "resume"
    /\ IF OwnerEpoch(a) < MaxEpoch
       THEN /\ Step(a, "resume", "resumeAppend")
            /\ loc' = [loc EXCEPT ![a].epoch = OwnerEpoch(a) + 1]
       ELSE Returns(a)
    /\ UNCHANGED <<files, world>>

ResumePastCap(a) ==
    /\ pc[a] = "resume"
    /\ IF ~Cur(a).alive /\ Cur(a).st \in Terminal /\ OwnerEpoch(a) <= MaxEpoch
       THEN /\ Step(a, "resume", "resumeAppend")
            /\ loc' = [loc EXCEPT ![a].epoch = OwnerEpoch(a) + 1]
       ELSE Returns(a)
    /\ UNCHANGED <<files, world>>

ResumeSameEpoch(a) ==
    /\ pc[a] = "resume"
    /\ IF ~Cur(a).alive /\ Cur(a).st \in Terminal /\ OwnerEpoch(a) < MaxEpoch
       THEN /\ Step(a, "resume", "resumeAppend")
            /\ loc' = [loc EXCEPT ![a].epoch = OwnerEpoch(a)]
       ELSE Returns(a)
    /\ UNCHANGED <<files, world>>

Resume(a) ==
    /\ pc[a] = "resume"
    /\ IF ~Cur(a).alive /\ Cur(a).st \in Terminal /\ OwnerEpoch(a) < MaxEpoch
       THEN /\ Step(a, "resume", "resumeAppend")
            /\ loc' = [loc EXCEPT ![a].epoch = OwnerEpoch(a) + 1]
       ELSE Returns(a)
    /\ UNCHANGED <<files, world>>

\* append without an expected revision; an id already there changes nothing.
ResumeAppend(a) == /\ Step(a, "resumeAppend", "reserve")
                   /\ cmds' = cmds \cup {CommandId("resume", loc[a].epoch)}
                   /\ UNCHANGED <<status, owner, receipts, world, loc>>

WriteReservation(a) == /\ Step(a, "reserve", "creating")
                       /\ owner' = [pid |-> 0, epoch |-> loc[a].epoch]
                       /\ UNCHANGED <<status, cmds, receipts, world, loc>>

\* Mutant: the new generation keeps the old intent.
WriteCreatingKeeps(a) == /\ Step(a, "creating", "spawn")
                         /\ status' = [status EXCEPT !.st = "creating", !.alive = FALSE,
                                                     !.epoch = loc[a].epoch]
                         /\ UNCHANGED <<owner, cmds, receipts, world, loc>>

\* write_status replaces the whole record.
WriteCreating(a) == /\ Step(a, "creating", "spawn")
                    /\ status' = [NoStatus EXCEPT !.st = "creating",
                                                  !.epoch = loc[a].epoch]
                    /\ UNCHANGED <<owner, cmds, receipts, world, loc>>

Spawn(a) ==
    /\ Step(a, "spawn", "own")
    /\ \E w \in Worker :
          /\ \A v \in Worker : workers[v].st = "unborn" <=> v >= w
          /\ workers' = [workers EXCEPT ![w] = [st |-> "live", rc |-> 0, sig |-> FALSE,
                             parent |-> ProcOf[a], epoch |-> loc[a].epoch]]
          /\ loc' = [loc EXCEPT ![a].pid = w]
    /\ UNCHANGED <<files, made, report, handle, crashes, denials>>

\* The worker cannot be launched: {**read_status(), status: failed}.
SpawnFails(a) == /\ "spawn" \in Faults
                 /\ Step(a, "spawn", "failWrite")
                 /\ SetCur(a, status)
                 /\ UNCHANGED <<files, world>>

FailWrite(a) == /\ pc[a] = "failWrite" /\ Returns(a)
                /\ status' = [Cur(a) EXCEPT !.st = "failed", !.alive = FALSE]
                /\ UNCHANGED <<owner, cmds, receipts, world>>

WriteOwner(a) == /\ Step(a, "own", "starting")
                 /\ owner' = [pid |-> loc[a].pid, epoch |-> loc[a].epoch]
                 /\ UNCHANGED <<status, cmds, receipts, world, loc>>

WriteStarting(a) ==
    /\ \/ loc[a].op = "create" /\ Step(a, "starting", "record") /\ UNCHANGED loc
       \/ loc[a].op = "resume" /\ pc[a] = "starting" /\ Returns(a)
    /\ status' = [st |-> "starting", act |-> "none", epoch |-> loc[a].epoch, alive |-> TRUE]
    /\ handle' = [handle EXCEPT ![ProcOf[a]] = loc[a].pid]
    /\ UNCHANGED <<owner, cmds, receipts, made, report, workers, crashes, denials>>

\* The owner or the status cannot be written: the worker is killed.
MetadataFails(a) ==
    /\ "metadata" \in Faults
    /\ pc[a] \in {"own", "starting"} /\ Returns(a)
    /\ workers' = [workers EXCEPT ![loc[a].pid].sig = TRUE,
                                  ![loc[a].pid].parent = "none",
                                  ![loc[a].pid].st = IF @ = "zombie" THEN "reaped" ELSE @]
    /\ UNCHANGED <<files, made, report, handle, crashes, denials>>

----------------------------------------------------------------------------
(* Processes.                                                              *)

\* The worker exits, cleanly with its own report, or on a failure or signal
\* with or without one.
WorkerExits(w) ==
    /\ w \in Live
    /\ \E rc \in {0, 1}, res \in {"kept", "completed", "incomplete"} :
          /\ rc = 0 => res # "kept"
          /\ report' = IF res = "kept" THEN report ELSE res
          /\ workers' = [workers EXCEPT ![w].rc = rc,
                  ![w].st = IF workers[w].parent = "none" THEN "reaped" ELSE "zombie"]
    /\ UNCHANGED <<files, made, handle, crashes, denials, pc, loc>>

\* An API process dies and another takes its place: calls and Popens are
\* lost, workers are not.
Crash(p) ==
    /\ crashes < MaxCrashes /\ crashes' = crashes + 1
    /\ pc' = [a \in Actor |-> IF ProcOf[a] = p THEN "idle" ELSE pc[a]]
    /\ loc' = [a \in Actor |-> IF ProcOf[a] = p THEN NoLocals ELSE loc[a]]
    /\ handle' = [handle EXCEPT ![p] = 0]
    /\ workers' = [w \in Worker |->
                     IF workers[w].parent = p
                     THEN [workers[w] EXCEPT !.parent = "none",
                                 !.st = IF @ = "zombie" THEN "reaped" ELSE @]
                     ELSE workers[w]]
    /\ UNCHANGED <<files, made, report, denials>>

Init == /\ exists = FALSE /\ idem = "none" /\ status = NoStatus
        /\ owner = [pid |-> 0, epoch |-> 0]
        /\ cmds = {} /\ receipts = {} /\ crashes = 0 /\ denials = FALSE
        /\ report = "none"
        /\ workers = [w \in Worker |-> [st |-> "unborn", rc |-> 0, sig |-> FALSE,
                                     parent |-> "none", epoch |-> 0]]
        /\ handle = [p \in Proc |-> 0]
        /\ pc = [a \in Actor |-> "idle"] /\ loc = [a \in Actor |-> NoLocals]

RefreshStep(a) == \/ RefreshRead(a) \/ Replay(a) \/ ReplayKill(a)
                  \/ ReplayReceipt(a) \/ Replayed(a) \/ DenyReceipt(a)
                  \/ DenyStatus(a) \/ CloseReceipt(a) \/ CloseStatus(a)
                  \/ Observe(a) \/ MergeStatus(a)
SignalStep(a) == \/ Decide(a) \/ Append(a) \/ MarkStopping(a) \/ Kill(a)
                 \/ LookupFailed(a) \/ RestoreActive(a) \/ Receipt(a)
LaunchStep(a) == \/ Resume(a) \/ ResumeAppend(a) \/ WriteReservation(a)
                 \/ WriteCreating(a) \/ Spawn(a) \/ SpawnFails(a) \/ FailWrite(a)
                 \/ WriteOwner(a) \/ WriteStarting(a) \/ MetadataFails(a)
CreateStep(a) == ReadKey(a) \/ Recheck(a) \/ Claim(a) \/ MakeDir(a) \/ Record(a)
CallStep(a) == RefreshStep(a) \/ SignalStep(a) \/ CreateStep(a) \/ LaunchStep(a)

Next == \/ \E a \in Actor : \/ BeginCreate(a) \/ CallStep(a)
                            \/ \E op \in Ops : Begin(a, op)
        \/ \E w \in Worker : WorkerExits(w)
        \/ \E p \in Proc : Crash(p)

Spec == Init /\ [][Next]_vars

\* A call that began goes on, the dashboard and the launcher keep polling, a
\* client sends its create until it has an answer, and a worker that was signalled ends.  A worker left alone may run on.
Fairness == /\ \A a \in Actor : /\ WF_vars(CallStep(a)) /\ SF_vars(Begin(a, "poll"))
                              /\ SF_vars(BeginCreate(a))
            /\ \A w \in Worker : WF_vars(workers[w].sig /\ WorkerExits(w))

FairSpec == Spec /\ Fairness

----------------------------------------------------------------------------
(* Properties.                                                             *)

Labels == {"idle", "read", "replay", "replayKill", "replayReceipt", "replayed",
           "denyReceipt", "denyStatus", "closeReceipt", "closeStatus", "observe",
           "merge", "decide", "append", "mark", "kill", "lookup", "restore",
           "receipt", "resume", "resumeAppend", "reserve", "creating", "spawn",
           "failWrite", "own", "starting", "readKey", "recheck", "claim", "mkdir",
           "record"}

\* The control files, the processes and the calls in flight have their types;
\* in particular no resume goes past MAX_RESUME_EPOCH.
TypeOK == /\ exists \in BOOLEAN /\ idem \in {"none", "creating", "completed"}
          /\ status \in Statuses /\ owner \in Owners
          /\ cmds \subseteq CommandIds /\ receipts \subseteq cmds
          /\ report \in Reports /\ workers \in [Worker -> Workers]
          /\ handle \in [Proc -> 0..MaxWorkers]
          /\ pc \in [Actor -> Labels] /\ loc \in [Actor -> Locals]
          /\ crashes \in 0..MaxCrashes /\ denials \in BOOLEAN

\* _merge_lifecycle_status: "a stale poll could still overwrite stopping":
\* once an operator's intent is on disk the run ends or is reopened, it
\* never goes back to running, unless the signal was denied.
StopSticks ==
    [][status.st = "stopping" => \/ status'.st \in Terminal \cup {"stopping"}
                                 \/ status'.epoch > status.epoch
                                 \/ denials]_vars

\* _refresh: "Durable terminal decisions are monotonic": only a resume, with
\* a higher epoch, leaves a terminal status.
TerminalMonotonic ==
    [][status.st \in Terminal => \/ status'.st = status.st
                                 \/ status'.epoch > status.epoch]_vars

\* _terminal_status_for_exit: only a stop or abort of this very generation
\* makes a run "cancelled".
CancelledByOperator ==
    status.st = "cancelled" =>
        \E kind \in Signals : CommandId(kind, status.epoch) \in cmds

Launching(w) == \E a \in Actor : loc[a].pid = w /\ pc[a] \in {"own", "starting"}

\* _refresh: the run whose owned worker is alive, and was not told to end, is
\* in an active status: it can be stopped, is counted, and is not resumed.
LiveWorkerActive ==
    \A w \in Live : owner.pid = w /\ ~Launching(w) /\ ~workers[w].sig
                    => status.st \in ActiveStatus

\* _launch_worker: "no worker is ever left running without a durable owner",
\* whatever spawn or write fails, so a resume never starts a second worker
\* beside a live one.  An API process that dies between the spawn and the
\* write of the owner does leave one.
OwnedUntilCrash ==
    \A w \in Live : \/ workers[w].sig \/ Launching(w) \/ owner.pid = w
                    \/ crashes > 0

\* _signal: a stop or abort that finds the worker alive reaches it, in every
\* generation (the receipt of an earlier one never answers for this one),
\* until an API process dies or a signal is denied.
HeardUntilCrash ==
    \A a \in Actor, w \in Worker :
        (pc[a] = "decide" /\ Cur(a).alive /\ owner.pid = w /\ w \in Live)
        ~> (w \notin Live \/ workers[w].sig \/ crashes > 0 \/ denials)

\* _replay_pending_lifecycle: a run never stays "stopping" for ever, though
\* the sender dies between the intent and the signal.
StoppingSettles == (status.st = "stopping") ~> (status.st \in Terminal \/ denials)

\* create_run: "A crash or client disconnect after launch can therefore be
\* reconciled by a retry instead of starting a second process": however
\* often a keyed create is sent, by whichever API process, refused, failed or
\* cut short, its run gets one worker; later ones belong to resumes.
CreatedOnce ==
    \A v, w \in Worker :
        v # w /\ workers[v].st # "unborn" /\ workers[w].st # "unborn"
        => workers[v].epoch # workers[w].epoch

\* create_run: a client that keeps sending its create gets an answer: a
\* launch cut short at any point is recovered or reported, unless its run
\* has been resumed meanwhile, which takes the fingerprint away.
RetryAnswered == (idem = "creating") ~> (idem = "completed" \/ ~Marked)
============================================================================
