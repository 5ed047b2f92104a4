---------------------------- MODULE Maintenance ----------------------------
(***************************************************************************)
(* The deploy window (webapi/server.py, launcher.py).  A suspend closes    *)
(* the launch gate, and a job thread stops every active run and lists it   *)
(* in the manifest of its suspend id.  A resume that names the id brings   *)
(* the runs back and opens the gate; a suspend that fails does the same    *)
(* for the runs it paused.                                                 *)
(*                                                                         *)
(* The launch pause and the manifests are files and survive a crash of the *)
(* API process; the suspend's record, its job and the handlers do not.     *)
(* Every call of the supervisor, every file write and every section under  *)
(* _suspend_lock is a step of its own.                                     *)
(*                                                                         *)
(* A manifest without runs stands for a missing file: both read the same.  *)
(* Time is abstract: a poll may find the grace of a run over, and a job at *)
(* the top of its loop its deadline passed.  The drain flag is no state    *)
(* here: a suspend and a launch read it, operators set it at any time, and *)
(* whatever it is when read may be.  Left out: the queue entries of the    *)
(* runs and their restoration, and the manifest without an id, which only  *)
(* older releases wrote.                                                   *)
(***************************************************************************)
EXTENDS Integers

CONSTANTS Run,          \* runs of the node
          Caller,       \* threads that serve POST /api/maintenance/resume
          MaxSuspends,  \* bound: accepted suspends
          MaxMishaps    \* bound: crashes of the API process, failing calls and
                        \* resumes by hand

ASSUME MaintenanceAssumption ==
    /\ MaxSuspends \in Nat /\ MaxMishaps \in Nat
    /\ Caller \cap (0..MaxSuspends) = {}
    /\ "none" \notin Run

Suspend == 1..MaxSuspends
Thread == Suspend \cup Caller  \* the cleanup of a job, or a resume handler

VARIABLES flag,      \* suspend id in maintenance_launch_pause.json, 0 if absent
          manifest,  \* [Suspend -> runs in maintenance_manifest_<id>.json]
          issued,    \* suspend ids given out
          rec,       \* [Suspend -> state of its record in _suspend_records]
          job,       \* [Suspend -> locals of _suspend_job]
          rev,       \* [Thread -> locals of _resume_manifest_records]
          run,       \* [Run -> lifecycle]
          pass,      \* the run whose launch the gate has let through, or none
          mishaps,   \* how many of these there were
          fate,      \* history: what became of a run that a suspend stopped
          asked,     \* history: ids resumed since the API process started
          broken     \* history: <<"list", s>>: s failed to list a run it stopped;
                     \* <<"flag", s>>: an attempt to end window s failed

files == <<flag, manifest>>
world == <<run, pass>>
history == <<fate, asked, broken>>
vars == <<files, world, issued, mishaps, history, rec, job, rev>>

----------------------------------------------------------------------------
Live == {r \in Run : run[r] = "active"}  \* ACTIVE_STATUSES, stopping included
Open == {"running", "suspended"}         \* _SUSPEND_OPEN_STATES

Jobs == [pc : {"idle", "loop", "scan", "stop", "note", "poll", "final", "close"},
         todo : SUBSET Run, cur : Run \cup {"none"}, paused : SUBSET Run,
         pending : SUBSET Run, given : SUBSET Run,
         failed : BOOLEAN, found : BOOLEAN]
JobAt(at) == [pc |-> at, todo |-> {}, cur |-> "none", paused |-> {}, pending |-> {},
              given |-> {}, failed |-> FALSE, found |-> FALSE]
NoJob == JobAt("idle")

Revs == [pc : {"idle", "read", "start", "write", "clear", "finish"},
         sid : 0..MaxSuspends, todo : SUBSET Run, cur : Run \cup {"none"}, left : SUBSET Run]
RevAt(at, s, rs) == [pc |-> at, sid |-> s, todo |-> rs, cur |-> "none", left |-> {}]
NoRev == RevAt("idle", 0, {})

\* Something that is not part of an undisturbed window happens.
Mishap == mishaps < MaxMishaps /\ mishaps' = mishaps + 1
Works == UNCHANGED mishaps

\* The runs of a list are handled in its order.
First(rs) == CHOOSE r \in rs : TRUE

\* The run lives again: what a suspend parked is parked no more.
Revive(r) == /\ run' = [run EXCEPT ![r] = "active"]
             /\ fate' = [s \in Suspend |->
                          [fate[s] EXCEPT ![r] = IF @ = "parked" THEN "stopped" ELSE @]]

SetFate(s, r, f) == fate' = [fate EXCEPT ![s][r] = f]

----------------------------------------------------------------------------
(* Workers, the operator and the launcher.                                 *)

\* A worker ends by itself, or after a stop of an operator or of a suspend: a
\* stop only asks, and the status stays active until the worker ends.
WorkerEnds(r) == /\ r \in Live
                 /\ run' = [run EXCEPT ![r] = "terminal"]
                 /\ UNCHANGED <<files, pass, issued, mishaps, history, rec, job, rev>>

\* A resume from the dashboard; it does not look at the launch pause.
OperatorResume(r) == /\ run[r] = "terminal"
                     /\ Mishap
                     /\ Revive(r)
                     /\ UNCHANGED <<files, pass, issued, asked, broken, rec, job, rev>>

\* _check_eligibility: the launch pause; the launch comes later.
LaunchGate(r) == /\ pass = "none" /\ run[r] = "idle"
                 /\ flag = 0
                 /\ pass' = r
                 /\ UNCHANGED <<files, run, issued, mishaps, history, rec, job, rev>>

Launch == /\ pass # "none"
          /\ run' = [run EXCEPT ![pass] = "active"]
          /\ pass' = "none"
          /\ UNCHANGED <<files, issued, mishaps, history, rec, job, rev>>

----------------------------------------------------------------------------
(* maintenance_suspend and _suspend_job.                                   *)

\* No suspend of this process is open.
OneWindow == \A s \in Suspend : rec[s] \notin Open

\* One section under _suspend_lock: no open window, the pause, the record.
SuspendAccepted ==
    /\ OneWindow
    /\ issued < MaxSuspends
    /\ LET s == issued + 1 IN
       /\ issued' = s
       /\ flag' = s
       /\ rec' = [rec EXCEPT ![s] = "running"]
       /\ job' = [job EXCEPT ![s] = JobAt("loop")]
    /\ UNCHANGED <<manifest, mishaps, world, history, rev>>

JobStays(s) == UNCHANGED <<flag, issued, asked, world, rec, rev>>
Goes(s, j) == job' = [job EXCEPT ![s] = j]

\* The loop ends on a failure once nothing is pending, and when the deadline
\* has passed; what is still pending then is left out of the manifest.
JobBreak(s) ==
    /\ job[s].pc = "loop"
    /\ Goes(s, [job[s] EXCEPT !.pc = "final", !.pending = {},
                              !.failed = @ \/ job[s].pending # {}])
    /\ JobStays(s) /\ UNCHANGED <<manifest, mishaps, fate, broken>>

JobList(s) ==
    /\ job[s].pc = "loop"
    /\ job[s].pending # {} \/ ~job[s].failed
    /\ \/ /\ Works
          /\ Goes(s, [job[s] EXCEPT !.pc = "scan", !.found = FALSE,
                        !.todo = {r \in Run : run[r] # "idle"}
                                   \ (job[s].paused \cup job[s].pending \cup job[s].given)])
       \/ /\ Mishap
          /\ Goes(s, [job[s] EXCEPT !.pc = "final", !.pending = {}, !.failed = TRUE])
    /\ JobStays(s) /\ UNCHANGED <<manifest, fate, broken>>

\* The status of one listed run; its stop is a later step.
JobScan(s) ==
    /\ job[s].pc = "scan"
    /\ \/ /\ job[s].todo = {} /\ Works
          /\ Goes(s, [job[s] EXCEPT !.pc = "poll", !.todo = job[s].pending])
       \/ /\ job[s].todo # {}
          /\ LET r == First(job[s].todo) IN
            \/ /\ Works /\ r \notin Live
               /\ Goes(s, [job[s] EXCEPT !.todo = @ \ {r}])
            \/ /\ Works /\ r \in Live
               /\ Goes(s, [job[s] EXCEPT !.pc = "stop", !.todo = @ \ {r},
                                         !.cur = r, !.found = TRUE])
            \/ /\ Mishap
               /\ Goes(s, [job[s] EXCEPT !.todo = @ \ {r}, !.given = @ \cup {r},
                                         !.failed = TRUE])
    /\ JobStays(s) /\ UNCHANGED <<manifest, fate, broken>>

\* supervisor.stop: accepted, also when an operator's stop came first; or it
\* raises, which is a failure only if the run is still active after it.
JobStop(s) ==
    /\ job[s].pc = "stop"
    /\ LET r == job[s].cur
           J == [job[s] EXCEPT !.pc = "scan", !.cur = "none"] IN
       \/ /\ Works
          /\ SetFate(s, r, "stopped")
          /\ Goes(s, [job[s] EXCEPT !.pc = "note", !.cur = "none", !.pending = @ \cup {r}])
       \/ /\ r \notin Live /\ Works
          /\ Goes(s, J)
          /\ UNCHANGED fate
       \/ /\ r \in Live /\ Mishap
          /\ Goes(s, [J EXCEPT !.given = @ \cup {r}, !.failed = TRUE])
          /\ UNCHANGED fate
    /\ JobStays(s) /\ UNCHANGED <<manifest, broken>>

\* Mutant: the manifest is only written when every run has paused.
ListedLate(s) == job[s].paused

\* What persist writes while runs are stopping, and at the end.
Listed(s) == job[s].paused \cup job[s].pending

\* persist.
Persist(s) == \/ /\ Works
                 /\ manifest' = [manifest EXCEPT ![s] = Listed(s)]
                 /\ broken' = broken \ {<<"list", s>>}
              \/ /\ Mishap
                 /\ manifest' = manifest
                 /\ broken' = broken \cup {<<"list", s>>}

JobNote(s) == /\ job[s].pc = "note"
              /\ Persist(s)
              /\ Goes(s, [job[s] EXCEPT !.pc = "scan"])
              /\ JobStays(s) /\ UNCHANGED fate

Park(j, r) == [j EXCEPT !.pending = @ \ {r}, !.paused = @ \cup {r}]

\* One pending run: paused, still active within its grace, or given up.
JobPoll(s) ==
    /\ job[s].pc = "poll"
    /\ \/ /\ job[s].todo = {} /\ Works
          /\ Goes(s, [job[s] EXCEPT !.pc = IF job[s].pending = {} /\ ~job[s].found
                                             THEN "final" ELSE "loop"])
          /\ UNCHANGED fate
       \/ /\ job[s].todo # {}
          /\ LET r == First(job[s].todo)
                 J == [job[s] EXCEPT !.todo = @ \ {r}] IN
            \/ /\ Works /\ r \notin Live
               /\ Goes(s, Park(J, r))
               /\ SetFate(s, r, "parked")
            \/ /\ Works /\ r \in Live
               /\ \/ Goes(s, J)
                  \/ Goes(s, [J EXCEPT !.pending = @ \ {r}, !.given = @ \cup {r},
                                       !.failed = TRUE])
               /\ UNCHANGED fate
            \/ /\ Mishap
               /\ Goes(s, [J EXCEPT !.given = @ \cup {r}, !.failed = TRUE])
               /\ UNCHANGED fate
    /\ JobStays(s) /\ UNCHANGED <<manifest, broken>>

\* The last persist; one that fails makes the suspend fail.
JobFinal(s) ==
    /\ job[s].pc = "final"
    /\ Persist(s)
    /\ Goes(s, [job[s] EXCEPT !.pc = "close", !.failed = @ \/ mishaps' # mishaps])
    /\ JobStays(s) /\ UNCHANGED fate

\* Under _suspend_lock; a failed suspend goes on in _suspend_cleanup.
JobClose(s) ==
    /\ job[s].pc = "close"
    /\ rec' = [rec EXCEPT ![s] = IF job[s].failed THEN "failed" ELSE "suspended"]
    /\ rev' = IF job[s].failed
              THEN [rev EXCEPT ![s] = RevAt("read", s, job[s].paused)]
              ELSE rev
    /\ Goes(s, NoJob)
    /\ UNCHANGED <<files, world, issued, mishaps, history>>

----------------------------------------------------------------------------
(* maintenance_resume, _suspend_cleanup and _resume_manifest_records.      *)

\* Mutant: whatever manifest there is gets consumed.
ParkedByAny(s) == UNION {manifest[t] : t \in Suspend}

\* read_maintenance_manifest, for the one id.
ParkedBy(s) == manifest[s]

\* The id is the one given, or that of the open record.
ResumeAccepted(c, s) ==
    /\ rev[c].pc = "idle" /\ s <= issued
    /\ rec[s] # "running"
    /\ asked' = asked \cup {s}
    /\ rev' = [rev EXCEPT ![c] = RevAt("read", s, ParkedBy(s))]
    /\ UNCHANGED <<files, world, issued, mishaps, fate, broken, rec, job>>

RevStays(t) == UNCHANGED <<issued, pass, asked, job>>
Turns(t, v) == rev' = [rev EXCEPT ![t] = v]
Done(t, r) == [rev[t] EXCEPT !.pc = "read", !.cur = "none", !.todo = @ \ {r}]
Keep(t, r) == [rev[t] EXCEPT !.pc = "read", !.cur = "none", !.todo = @ \ {r}, !.left = @ \cup {r}]

\* The status of one parked run; a run that is active counts as resumed.
ReviveRead(t) ==
    /\ rev[t].pc = "read"
    /\ \/ /\ rev[t].todo = {} /\ Works
          /\ Turns(t, [rev[t] EXCEPT !.pc = "write"])
       \/ /\ rev[t].todo # {}
          /\ LET r == First(rev[t].todo) IN
            \/ /\ Works
               /\ IF r \in Live THEN Turns(t, Done(t, r))
                                ELSE Turns(t, [rev[t] EXCEPT !.pc = "start", !.cur = r])
            \/ Mishap /\ Turns(t, Keep(t, r))
    /\ RevStays(t) /\ UNCHANGED <<flag, manifest, run, fate, broken, rec>>

\* supervisor.resume; it refuses a run that has become active, among others.
ReviveStart(t) ==
    /\ rev[t].pc = "start"
    /\ LET r == rev[t].cur IN
       \/ /\ Works /\ r \notin Live
          /\ Revive(r)
          /\ Turns(t, Done(t, r))
       \/ /\ (r \in Live /\ Works) \/ (r \notin Live /\ Mishap)
          /\ Turns(t, Keep(t, r))
          /\ UNCHANGED <<run, fate>>
    /\ RevStays(t) /\ UNCHANGED <<flag, manifest, broken, rec>>

\* A failing write is noted by the cleanup, and ends a handler with a 500.
ReviveWrite(t) ==
    /\ rev[t].pc = "write"
    /\ \/ /\ Works
          /\ manifest' = [manifest EXCEPT ![rev[t].sid] = rev[t].left]
          /\ Turns(t, [rev[t] EXCEPT !.pc = "clear"])
          /\ UNCHANGED broken
       \/ /\ Mishap
          /\ IF t \in Suspend
               THEN Turns(t, [rev[t] EXCEPT !.pc = "clear"]) /\ UNCHANGED broken
               ELSE Turns(t, NoRev) /\ broken' = broken \cup {<<"flag", rev[t].sid>>}
          /\ UNCHANGED manifest
    /\ RevStays(t) /\ UNCHANGED <<flag, run, fate, rec>>

\* Mutant: the pause is cleared without looking at whose it is.
ClearedAny(s) == 0

\* Mutant: a resume that finds no record leaves the pause alone.
ClearedRecorded(s) == IF flag = s /\ rec[s] # "none" THEN 0 ELSE flag

\* clear_maintenance_launch_pause(if_suspend_id), under _suspend_lock.
Cleared(s) == IF flag = s THEN 0 ELSE flag

ReviveClear(t) ==
    /\ rev[t].pc = "clear"
    /\ \/ /\ Works
          /\ flag' = Cleared(rev[t].sid)
          /\ Turns(t, IF t \in Suspend THEN NoRev ELSE [rev[t] EXCEPT !.pc = "finish"])
          /\ UNCHANGED broken
       \/ /\ Mishap
          /\ broken' = broken \cup {<<"flag", rev[t].sid>>}
          /\ Turns(t, NoRev)
          /\ UNCHANGED flag
    /\ RevStays(t) /\ UNCHANGED <<manifest, run, fate, rec>>

\* A window whose runs did not all come back stays in its state.
ReviveFinish(t) ==
    /\ rev[t].pc = "finish"
    /\ rec' = IF rec[rev[t].sid] # "none" /\ rev[t].left = {}
              THEN [rec EXCEPT ![rev[t].sid] = "resumed"] ELSE rec
    /\ Turns(t, NoRev)
    /\ RevStays(t) /\ UNCHANGED <<flag, manifest, mishaps, run, fate, broken>>

\* The API process dies and starts again: records and threads are gone.
Crash ==
    /\ Mishap
    /\ rec' = [s \in Suspend |-> "none"]
    /\ job' = [s \in Suspend |-> NoJob]
    /\ rev' = [t \in Thread |-> NoRev]
    /\ asked' = {}
    /\ UNCHANGED <<files, issued, world, fate, broken>>

----------------------------------------------------------------------------
Init ==
    /\ flag = 0
    /\ manifest = [s \in Suspend |-> {}]
    /\ issued = 0 /\ mishaps = 0
    /\ rec = [s \in Suspend |-> "none"]
    /\ job = [s \in Suspend |-> NoJob]
    /\ rev = [t \in Thread |-> NoRev]
    /\ run \in [Run -> {"idle", "active"}]
    /\ pass = "none"
    /\ fate = [s \in Suspend |-> [r \in Run |-> "none"]]
    /\ asked = {} /\ broken = {}

JobNext(s) == \/ JobBreak(s) \/ JobList(s) \/ JobScan(s) \/ JobStop(s)
              \/ JobNote(s) \/ JobPoll(s) \/ JobFinal(s) \/ JobClose(s)

RevNext(t) == \/ ReviveRead(t) \/ ReviveStart(t)
              \/ ReviveWrite(t) \/ ReviveClear(t) \/ ReviveFinish(t)

Next == \/ \E r \in Run : \/ WorkerEnds(r) \/ OperatorResume(r) \/ LaunchGate(r)
        \/ Launch
        \/ SuspendAccepted \/ Crash
        \/ \E s \in Suspend : JobNext(s)
        \/ \E c \in Caller, s \in Suspend : ResumeAccepted(c, s)
        \/ \E t \in Thread : RevNext(t)

Spec == Init /\ [][Next]_vars

----------------------------------------------------------------------------
(* Properties.                                                             *)

\* Every variable has the form the code gives it.
Types ==
    /\ flag \in 0..MaxSuspends
    /\ manifest \in [Suspend -> SUBSET Run]
    /\ issued \in 0..MaxSuspends /\ mishaps \in 0..MaxMishaps
    /\ rec \in [Suspend -> Open \cup {"none", "failed", "resumed"}]
    /\ job \in [Suspend -> Jobs] /\ rev \in [Thread -> Revs]
    /\ run \in [Run -> {"idle", "active", "terminal"}]
    /\ pass \in Run \cup {"none"}
    /\ fate \in [Suspend -> [Run -> {"none", "stopped", "parked"}]]
    /\ asked \subseteq Suspend
    /\ broken \subseteq ({"list", "flag"} \X Suspend)

\* Type correctness; a job has no run among the pending and the paused ones.
TypeOK == Types /\ \A s \in Suspend : job[s].pending \cap job[s].paused = {}

\* The launch gate is closed, in the name of the window, from the moment its
\* suspend is accepted until a resume names it: neither the late cleanup of
\* an earlier window nor a retry for one opens it (if_suspend_id).
GateHeld ==
    \A s \in Suspend :
        rec[s] = "running" \/ (rec[s] = "suspended" /\ s \notin asked) => flag = s

\* A run that a suspend paused is in the manifest of that suspend until it
\* lives again, through every crash and however resumes, retries and the
\* cleanup overlap: an operator with the id can always get it back.
ParkedListed ==
    \A s \in Suspend, r \in Run :
        fate[s][r] = "parked" => r \in manifest[s] \/ <<"list", s>> \in broken

\* A run comes back to life only through an operator, or through a window that
\* stopped it and that has failed or has been named by a resume.
OwnRunsOnly ==
    [][\A r \in Run : run[r] = "terminal" /\ run'[r] = "active" =>
         \/ OperatorResume(r)
         \/ \E s \in Suspend : fate[s][r] # "none" /\ (rec[s] = "failed" \/ s \in asked)]_vars

\* When the rollback of a failed suspend, or a resume, is over, the gate is
\* open, also for a window of a process that died; unless a file could not
\* be written.
GateReopens ==
    \A s \in Suspend :
        /\ rec[s] = "failed" \/ s \in asked
        /\ \A t \in Thread : rev[t].sid # s
        => flag # s \/ <<"flag", s>> \in broken

============================================================================
