------------------------- MODULE MaintenanceProofs -------------------------
(***************************************************************************)
(* Proofs about Maintenance, for any sets of runs and handlers and any     *)
(* number of windows, crashes and failures.                                *)
(***************************************************************************)
EXTENDS Maintenance, TLAPS

USE DEF Suspend, Thread

----------------------------------------------------------------------------
(* The inductive invariant.                                                *)

Parked(s) == {r \in Run : fate[s][r] = "parked"}
Touched(s) == {r \in Run : fate[s][r] # "none"}
Unlisted(s) == <<"list", s>> \in broken

\* A record is running exactly as long as its job; an unused id is untouched.
IJob ==
    \A s \in Suspend :
        /\ rec[s] = "running" <=> job[s].pc # "idle"
        /\ rec[s] = "running" => rev[s].sid = 0
        /\ s > issued => rec[s] = "none" /\ s \notin asked /\ manifest[s] = {} /\ Touched(s) = {}

\* What the job holds has been launched and was stopped by it; what it has
\* paused is all that is parked, and past the early persist it is listed.
Fits(s, j) ==
    /\ j.pc = "stop" => j.cur \in Run /\ run[j.cur] # "idle"
    /\ \A r \in j.todo \cup j.pending \cup j.paused : run[r] # "idle"
    /\ j.pending \cup j.paused \subseteq Touched(s)
    /\ j.pending \cap j.paused = {}
    /\ j.pc \in {"scan", "stop", "note"} => j.todo \cap j.paused = {}
    /\ j.pc = "stop" => j.cur \notin j.paused
    /\ j.pc = "poll" => j.todo \subseteq j.pending
    /\ j.pc # "idle" => Parked(s) \subseteq j.paused
    /\ j.pc \in {"loop", "scan", "stop", "poll"} =>
           Unlisted(s) \/ j.pending \subseteq manifest[s]

WorkOf(s) == Fits(s, job[s])

IWork == \A s \in Suspend : WorkOf(s)

\* The launcher launches what has not run, a window touches what has; a parked
\* run is down.
IRun == /\ pass # "none" => run[pass] = "idle"
        /\ \A s \in Suspend, r \in Run : fate[s][r] # "none" => run[r] # "idle"
        /\ \A s \in Suspend, r \in Run : fate[s][r] = "parked" => run[r] = "terminal"

\* A reviver works for a window that failed or was named, on runs of it, and
\* has every parked run of it still before it or among those it will keep.
RevOf(t) ==
        /\ rev[t].pc = "idle" <=> rev[t].sid = 0
        /\ rev[t].sid # 0 =>
             /\ rev[t].sid <= issued /\ rec[rev[t].sid] # "running"
             /\ t \in Suspend => rev[t].sid = t
             /\ t \in Caller => rev[t].sid \in asked
             /\ rec[rev[t].sid] = "failed" \/ rev[t].sid \in asked
             /\ rev[t].todo \cup rev[t].left \subseteq Touched(rev[t].sid)
        /\ rev[t].pc \in {"read", "start", "write"} =>
             Unlisted(rev[t].sid) \/ Parked(rev[t].sid) \subseteq rev[t].todo \cup rev[t].left
        /\ rev[t].pc = "start" => rev[t].cur \in rev[t].todo
        /\ rev[t].pc = "write" => rev[t].todo = {}
        /\ rev[t].pc = "finish" => t \in Caller
        /\ rev[t].pc = "finish" => flag # rev[t].sid \/ <<"flag", rev[t].sid>> \in broken

IRev == \A t \in Thread : RevOf(t)

IFiles == /\ flag <= issued
          /\ \A s \in Suspend : manifest[s] \subseteq Touched(s)

IInv == IJob /\ IWork /\ IRun /\ IRev /\ IFiles /\ GateHeld /\ ParkedListed /\ GateReopens

----------------------------------------------------------------------------
(* Types.                                                                  *)

\* First picks a member of a non-empty set of runs.
LEMMA FirstIn == ASSUME NEW rs, rs # {} PROVE First(rs) \in rs
  BY DEF First

\* The locals of a job and of a reviver that are not there have their types.
LEMMA NoLocals == NoJob \in Jobs /\ NoRev \in Revs
  BY MaintenanceAssumption DEF NoJob, JobAt, Jobs, NoRev, RevAt, Revs

\* The initial state is well typed.
LEMMA InitTypes == Init => Types
  BY MaintenanceAssumption, NoLocals DEF Init, Types, Open

\* Every step of a job leaves it with locals of the right form.
LEMMA JobTyped ==
  ASSUME Types, IWork, NEW s \in Suspend, JobNext(s)
  PROVE  \E j \in Jobs : Goes(s, j)
  <1>1. job[s] \in Jobs
    BY DEF Types
  <1>2. job[s].todo # {} => First(job[s].todo) \in Run
    BY <1>1, FirstIn DEF Jobs
  <1>a. CASE JobBreak(s) BY <1>a, <1>1 DEF JobBreak, Jobs
  <1>b. CASE JobList(s) BY <1>b, <1>1 DEF JobList, Jobs
  <1>c. CASE JobScan(s) BY <1>c, <1>1, <1>2 DEF JobScan, Jobs
  <1>d. CASE JobStop(s)
    <2>1. job[s].cur \in Run
      BY <1>d DEF JobStop, IWork, WorkOf, Fits
    <2>2. /\ [job[s] EXCEPT !.pc = "scan", !.cur = "none"] \in Jobs
          /\ [job[s] EXCEPT !.pc = "note", !.cur = "none", !.pending = @ \cup {job[s].cur}] \in Jobs
      BY <1>1, <2>1 DEF Jobs
    <2>3. [[job[s] EXCEPT !.pc = "scan", !.cur = "none"] EXCEPT
              !.given = @ \cup {job[s].cur}, !.failed = TRUE] \in Jobs
      BY <1>1, <2>1 DEF Jobs
    <2> QED BY <1>d, <2>2, <2>3 DEF JobStop
  <1>e. CASE JobNote(s) BY <1>e, <1>1 DEF JobNote, Jobs
  <1>f. CASE JobPoll(s) BY <1>f, <1>1, <1>2 DEF JobPoll, Jobs, Park
  <1>g. CASE JobFinal(s) BY <1>g, <1>1 DEF JobFinal, Jobs
  <1>h. CASE JobClose(s) BY <1>h, NoLocals DEF JobClose
  <1> QED BY <1>a, <1>b, <1>c, <1>d, <1>e, <1>f, <1>g, <1>h DEF JobNext

\* So does every step of a reviver.
LEMMA RevTyped ==
  ASSUME Types, IRev, NEW t \in Thread, RevNext(t)
  PROVE  \E v \in Revs : Turns(t, v)
  <1>1. rev[t] \in Revs
    BY DEF Types
  <1>2. rev[t].todo # {} => First(rev[t].todo) \in Run
    BY <1>1, FirstIn DEF Revs
  <1>a. CASE ReviveRead(t) BY <1>a, <1>1, <1>2 DEF ReviveRead, Revs, Done, Keep
  <1>b. CASE ReviveStart(t)
    <2>1. rev[t].cur \in Run
      BY <1>1, <1>b DEF ReviveStart, IRev, RevOf, Revs
    <2> QED BY <1>b, <1>1, <2>1 DEF ReviveStart, Revs, Done, Keep
  <1>c. CASE ReviveWrite(t) BY <1>c, <1>1, NoLocals DEF ReviveWrite, Revs
  <1>d. CASE ReviveClear(t) BY <1>d, <1>1, NoLocals DEF ReviveClear, Revs
  <1>e. CASE ReviveFinish(t) BY <1>e, NoLocals DEF ReviveFinish
  <1> QED BY <1>a, <1>b, <1>c, <1>d, <1>e DEF RevNext

\* Noting what became of a run keeps the type of fate.
LEMMA FateTyped ==
  ASSUME Types, NEW s \in Suspend, NEW r \in Run, NEW f \in {"none", "stopped", "parked"},
         SetFate(s, r, f) \/ Revive(r)
  PROVE  fate' \in [Suspend -> [Run -> {"none", "stopped", "parked"}]]
  <1>1. CASE SetFate(s, r, f)
    BY <1>1 DEF SetFate, Types
  <1>2. CASE Revive(r)
    BY <1>2 DEF Revive, Types
  <1> QED BY <1>1, <1>2

\* Every step keeps the types; the invariants of the jobs and of the revivers
\* say which runs their locals name.
LEMMA NextTypes == Types /\ IWork /\ IRev /\ [Next]_vars => Types'
  <1> SUFFICES ASSUME Types, IWork, IRev, [Next]_vars PROVE Types'
    OBVIOUS
  <1> USE MaintenanceAssumption, NoLocals
  <1>1. ASSUME NEW r \in Run, WorkerEnds(r) \/ OperatorResume(r) \/ LaunchGate(r)
        PROVE  Types'
    <2>1. CASE WorkerEnds(r) \/ LaunchGate(r)
      BY <2>1 DEF Types, WorkerEnds, LaunchGate, files, history
    <2>2. CASE OperatorResume(r)
      <3>1. fate' \in [Suspend -> [Run -> {"none", "stopped", "parked"}]]
        BY <2>2 DEF OperatorResume, Revive, Types
      <3> QED BY <2>2, <3>1 DEF Types, OperatorResume, Mishap, Revive, files
    <2> QED BY <1>1, <2>1, <2>2
  <1>2. CASE Launch
    BY <1>2 DEF Types, Launch, files, history
  <1>3. CASE SuspendAccepted
    <2>1. JobAt("loop") \in Jobs
      BY DEF JobAt, Jobs
    <2> QED BY <1>3, <2>1 DEF Types, SuspendAccepted, world, history, Open
  <1>4. CASE Crash
    BY <1>4 DEF Types, Crash, files, world, Mishap
  <1>5. ASSUME NEW s \in Suspend, JobNext(s) PROVE Types'
    <2>0. PICK j \in Jobs : Goes(s, j)
      BY <1>5, JobTyped
    <2>z. job' \in [Suspend -> Jobs]
      BY <2>0 DEF Goes, Types
    <2>r. RevAt("read", s, job[s].paused) \in Revs
      BY DEF RevAt, Revs, Types, Jobs
    <2>1. CASE JobBreak(s)
      BY <2>1, <2>z DEF Types, JobBreak, JobStays, world
    <2>2. CASE JobList(s)
      BY <2>2, <2>z DEF Types, JobList, JobStays, world, Mishap, Works
    <2>3. CASE JobScan(s)
      BY <2>3, <2>z DEF Types, JobScan, JobStays, world, Mishap, Works
    <2>4. CASE JobStop(s)
      <3>1. fate' \in [Suspend -> [Run -> {"none", "stopped", "parked"}]]
        BY <2>4, FateTyped DEF JobStop, IWork, WorkOf, Fits, Types
      <3> QED BY <2>4, <2>z, <3>1 DEF Types, JobStop, JobStays, world, Mishap, Works
    <2>5. CASE JobNote(s) \/ JobFinal(s)
      <3>1. Listed(s) \in SUBSET Run
        BY DEF Listed, Types, Jobs
      <3>2. manifest' \in [Suspend -> SUBSET Run]
        BY <2>5, <3>1 DEF JobNote, JobFinal, Persist, Types
      <3>3. broken' \subseteq ({"list", "flag"} \X Suspend)
        BY <2>5 DEF JobNote, JobFinal, Persist, Types
      <3> QED BY <2>5, <2>z, <3>2, <3>3 DEF Types, JobNote, JobFinal, JobStays, world, Mishap, Works, Persist
    <2>6. CASE JobPoll(s)
      <3>0. job[s].todo # {} => First(job[s].todo) \in Run
        BY FirstIn DEF Types, Jobs
      <3>1. fate' \in [Suspend -> [Run -> {"none", "stopped", "parked"}]]
        BY <2>6, <3>0, FateTyped DEF JobPoll, Types
      <3> QED BY <2>6, <2>z, <3>1 DEF Types, JobPoll, JobStays, world, Mishap, Works
    <2>8. CASE JobClose(s)
      BY <2>8, <2>z, <2>r DEF Types, JobClose, files, world, history, Open
    <2> QED BY <1>5, <2>1, <2>2, <2>3, <2>4, <2>5, <2>6, <2>8 DEF JobNext
  <1>6. ASSUME NEW c \in Caller, NEW s \in Suspend, ResumeAccepted(c, s) PROVE Types'
    <2>1. RevAt("read", s, manifest[s]) \in Revs
      BY DEF RevAt, Revs, Types
    <2> QED BY <1>6, <2>1 DEF Types, ResumeAccepted, files, world, ParkedBy
  <1>7. ASSUME NEW t \in Thread, RevNext(t) PROVE Types'
    <2>0. PICK v \in Revs : Turns(t, v)
      BY <1>7, RevTyped
    <2>z. rev' \in [Thread -> Revs]
      BY <2>0 DEF Turns, Types
    <2>y. rev[t].sid \in 0..MaxSuspends /\ rev[t].left \in SUBSET Run
      BY DEF Types, Revs
    <2>x. rev[t].pc # "idle" => rev[t].sid \in Suspend
      <3>1. ASSUME rev[t].pc # "idle" PROVE rev[t].sid # 0
        BY <3>1 DEF IRev, RevOf
      <3> QED BY <2>y, <3>1
    <2>1. CASE ReviveRead(t)
      BY <2>1, <2>z DEF Types, ReviveRead, RevStays, Mishap, Works
    <2>2. CASE ReviveStart(t)
      <3>0. rev[t].cur \in Run
        BY <2>2 DEF ReviveStart, IRev, RevOf, Types, Revs
      <3>1. Revive(rev[t].cur) \/ UNCHANGED <<run, fate>>
        BY <2>2 DEF ReviveStart
      <3>2. fate' \in [Suspend -> [Run -> {"none", "stopped", "parked"}]]
        <4>1. CASE Revive(rev[t].cur)
          BY <4>1 DEF Revive, Types
        <4> QED BY <3>1, <4>1 DEF Types
      <3>3. run' \in [Run -> {"idle", "active", "terminal"}]
        BY <3>1, <3>0 DEF Revive, Types
      <3>4. mishaps' \in 0..MaxMishaps
        BY <2>2 DEF ReviveStart, Mishap, Works, Types
      <3> QED BY <2>2, <2>z, <3>2, <3>3, <3>4 DEF Types, ReviveStart, RevStays
    <2>3. CASE ReviveWrite(t)
      <3>1. broken' \subseteq ({"list", "flag"} \X Suspend)
        BY <2>3, <2>x DEF ReviveWrite, Types
      <3>2. manifest' \in [Suspend -> SUBSET Run]
        BY <2>3, <2>y DEF ReviveWrite, Types
      <3> QED BY <2>3, <2>z, <3>1, <3>2 DEF Types, ReviveWrite, RevStays, Mishap, Works
    <2>4. CASE ReviveClear(t)
      <3>1. broken' \subseteq ({"list", "flag"} \X Suspend)
        BY <2>4, <2>x DEF ReviveClear, Types
      <3> QED BY <2>4, <2>z, <3>1 DEF Types, ReviveClear, RevStays, Mishap, Works, Cleared
    <2>5. CASE ReviveFinish(t)
      BY <2>5, <2>z, <2>y DEF Types, ReviveFinish, RevStays, Open
    <2> QED BY <1>7, <2>1, <2>2, <2>3, <2>4, <2>5 DEF RevNext
  <1>8. CASE UNCHANGED vars
    BY <1>8 DEF Types, vars, files, world, history
  <1> QED BY <1>1, <1>2, <1>3, <1>4, <1>5, <1>6, <1>7, <1>8 DEF Next

----------------------------------------------------------------------------
(* The inductive step.                                                     *)

\* A reviver that works has the id of a window.
LEMMA SidTyped ==
  ASSUME Types
  PROVE  \A t \in Thread : rev[t].sid # 0 => rev[t].sid \in Suspend
  <1>1. ASSUME NEW t \in Thread, rev[t].sid # 0 PROVE rev[t].sid \in Suspend
    <2>1. rev[t] \in Revs
      BY DEF Types
    <2>2. rev[t].sid \in 0..MaxSuspends
      BY <2>1 DEF Revs
    <2> QED BY <1>1, <2>2, MaintenanceAssumption
  <1> QED BY <1>1

\* What the jobs hold stays right when no job moves, no manifest changes, and
\* no run becomes idle or newly parked.
LEMMA WorkKept ==
  ASSUME Types, IWork, UNCHANGED <<job, manifest, broken>>,
         \A r \in Run : run[r] # "idle" => run'[r] # "idle",
         \A s \in Suspend : Touched(s)' = Touched(s) /\ Parked(s)' \subseteq Parked(s)
  PROVE  IWork'
  <1>1. \A s \in Suspend : job[s] \in Jobs
    BY DEF Types
  <1>2. \A s \in Suspend : job[s].todo \subseteq Run /\ job[s].pending \subseteq Run /\ job[s].paused \subseteq Run
    BY <1>1 DEF Jobs
  <1>3. ASSUME NEW s \in Suspend PROVE WorkOf(s)'
    <2>1. WorkOf(s)
      BY DEF IWork
    <2> QED BY <1>2, <2>1 DEF WorkOf, Fits, Unlisted
  <1> QED BY <1>3 DEF IWork

\* What the revivers hold stays right when none of them moves, no record or flag
\* changes, and no run is newly parked.
LEMMA RevKept ==
  ASSUME IRev, UNCHANGED <<rev, issued, rec, asked, flag, broken>>,
         \A s \in Suspend : Touched(s)' = Touched(s) /\ Parked(s)' \subseteq Parked(s),
         Types
  PROVE  IRev'
  <1>1. ASSUME NEW t \in Thread PROVE RevOf(t)'
    <2>1. RevOf(t) /\ (rev[t].sid # 0 => rev[t].sid \in Suspend)
      BY SidTyped DEF IRev
    <2> QED BY <2>1 DEF RevOf, Unlisted
  <1> QED BY <1>1 DEF IRev

\* The steps outside the windows keep the invariant: workers that end,
\* resumes by hand, the launcher, an accepted suspend, the crash of the API.
LEMMA InvEnv ==
  ASSUME Types, Types', IInv
  PROVE  /\ \A r \in Run : WorkerEnds(r) \/ OperatorResume(r) \/ LaunchGate(r) => IInv'
         /\ Launch \/ SuspendAccepted \/ Crash => IInv'
  <1> USE MaintenanceAssumption
  <1> USE DEF IInv
  <1>1. ASSUME NEW r \in Run, WorkerEnds(r) PROVE IInv'
    <2>1. IJob'
      BY <1>1 DEF WorkerEnds, files, history, Live, Types, IJob, Touched
    <2>2. IWork'
      BY <1>1, WorkKept DEF WorkerEnds, files, history, Live, Types, Touched, Parked
    <2>3. IRun'
      BY <1>1 DEF WorkerEnds, files, history, Live, Types, IRun
    <2>4. IRev'
      BY <1>1 DEF WorkerEnds, files, history, Live, Types, IRev, RevOf, Touched, Parked, Unlisted
    <2>5. IFiles'
      BY <1>1 DEF WorkerEnds, files, history, Live, Types, IFiles, Touched
    <2>6. GateHeld'
      BY <1>1 DEF WorkerEnds, files, history, Live, Types, GateHeld
    <2>7. ParkedListed'
      BY <1>1 DEF WorkerEnds, files, history, Live, Types, ParkedListed, Unlisted
    <2>8. GateReopens'
      BY <1>1 DEF WorkerEnds, files, history, Live, Types, GateReopens
    <2> QED BY <2>1, <2>2, <2>3, <2>4, <2>5, <2>6, <2>7, <2>8 DEF IInv
  <1>2. ASSUME NEW r \in Run, OperatorResume(r) PROVE IInv'
    <2>f. \A s \in Suspend : Touched(s)' = Touched(s) /\ Parked(s)' \subseteq Parked(s)
      BY <1>2 DEF OperatorResume, Revive, Types, Touched, Parked
    <2>1. IJob'
      BY <1>2 DEF OperatorResume, files, Revive, Types, IJob, Touched
    <2>2. IWork'
      BY <1>2, <2>f, WorkKept DEF OperatorResume, files, Revive, Types
    <2>3. IRun'
      BY <1>2 DEF OperatorResume, files, Revive, Types, IRun
    <2>4. IRev'
      BY <1>2, <2>f, RevKept DEF OperatorResume, files
    <2>5. IFiles'
      BY <1>2 DEF OperatorResume, files, Revive, Types, IFiles, Touched
    <2>6. GateHeld'
      BY <1>2 DEF OperatorResume, files, Revive, Types, GateHeld
    <2>7. ParkedListed'
      BY <1>2 DEF OperatorResume, files, Revive, Types, ParkedListed, Unlisted
    <2>8. GateReopens'
      BY <1>2 DEF OperatorResume, files, Revive, Types, GateReopens
    <2> QED BY <2>1, <2>2, <2>3, <2>4, <2>5, <2>6, <2>7, <2>8 DEF IInv
  <1>3. ASSUME NEW r \in Run, LaunchGate(r) PROVE IInv'
    <2>1. IJob'
      BY <1>3 DEF LaunchGate, files, history, Types, IJob, Touched
    <2>2. IWork'
      BY <1>3 DEF LaunchGate, files, history, Types, IWork, WorkOf, Fits, Touched, Parked, Unlisted
    <2>3. IRun'
      BY <1>3 DEF LaunchGate, files, history, Types, IRun
    <2>4. IRev'
      BY <1>3 DEF LaunchGate, files, history, Types, IRev, RevOf, Touched, Parked, Unlisted
    <2>5. IFiles'
      BY <1>3 DEF LaunchGate, files, history, Types, IFiles, Touched
    <2>6. GateHeld'
      BY <1>3 DEF LaunchGate, files, history, Types, GateHeld
    <2>7. ParkedListed'
      BY <1>3 DEF LaunchGate, files, history, Types, ParkedListed, Unlisted
    <2>8. GateReopens'
      BY <1>3 DEF LaunchGate, files, history, Types, GateReopens
    <2> QED BY <2>1, <2>2, <2>3, <2>4, <2>5, <2>6, <2>7, <2>8 DEF IInv
  <1>4. CASE Launch
    <2>1. IJob'
      BY <1>4 DEF Launch, files, history, Types, IJob, Touched
    <2>2. IWork'
      BY <1>4, WorkKept DEF Launch, files, history, Types, Touched, Parked
    <2>3. IRun'
      BY <1>4 DEF Launch, files, history, Types, IRun
    <2>4. IRev'
      BY <1>4 DEF Launch, files, history, Types, IRev, RevOf, Touched, Parked, Unlisted
    <2>5. IFiles'
      BY <1>4 DEF Launch, files, history, Types, IFiles, Touched
    <2>6. GateHeld'
      BY <1>4 DEF Launch, files, history, Types, GateHeld
    <2>7. ParkedListed'
      BY <1>4 DEF Launch, files, history, Types, ParkedListed, Unlisted
    <2>8. GateReopens'
      BY <1>4 DEF Launch, files, history, Types, GateReopens
    <2> QED BY <2>1, <2>2, <2>3, <2>4, <2>5, <2>6, <2>7, <2>8 DEF IInv
  <1>5. CASE SuspendAccepted
    <2>0. issued + 1 \in Suspend
      BY <1>5 DEF SuspendAccepted, Types
    <2>a. PICK n \in Suspend :
          /\ n = issued + 1 /\ issued' = n /\ flag' = n
          /\ rec' = [rec EXCEPT ![n] = "running"] /\ job' = [job EXCEPT ![n] = JobAt("loop")]
          /\ UNCHANGED <<manifest, mishaps, run, pass, fate, asked, broken, rev>>
          /\ \A s \in Suspend : rec[s] \notin Open
      BY <1>5, <2>0 DEF SuspendAccepted, OneWindow, world, history
    <2>b. n > issued /\ issued \in Nat
      BY <2>a DEF Types
    <2>c. /\ rec[n] = "none" /\ n \notin asked /\ manifest[n] = {} /\ Touched(n) = {}
          /\ Parked(n) = {} /\ rev[n].sid = 0
      <3>1. rec[n] = "none" /\ n \notin asked /\ manifest[n] = {} /\ Touched(n) = {}
        BY <2>a, <2>b DEF IJob
      <3>2. rev[n].sid = 0
        BY <2>a, <2>b, <3>1 DEF IRev, RevOf
      <3> QED BY <3>1, <3>2 DEF Touched, Parked
    <2>d. \A s \in Suspend : Touched(s)' = Touched(s) /\ Parked(s)' = Parked(s)
      BY <2>a DEF Touched, Parked
    <2>e. /\ job'[n] = JobAt("loop") /\ rec'[n] = "running"
          /\ \A s \in Suspend : s # n => job'[s] = job[s] /\ rec'[s] = rec[s]
      BY <2>a DEF Types
    <2>1. IJob'
      <3>1. ASSUME NEW s \in Suspend, s > n PROVE s > issued
        BY <3>1, <2>b
      <3> QED BY <2>a, <2>c, <2>d, <2>e, <3>1 DEF IJob, JobAt
    <2>2. IWork'
      <3>1. ASSUME NEW s \in Suspend, s # n PROVE job'[s] = job[s] /\ Touched(s)' = Touched(s) /\ Parked(s)' = Parked(s)
        BY <3>1, <2>d, <2>e
      <3>2. job'[n].todo = {} /\ job'[n].pending = {} /\ job'[n].paused = {} /\ job'[n].pc = "loop"
        BY <2>e DEF JobAt
      <3>3. Parked(n)' = {}
        BY <2>a, <2>c, <2>d
      <3>4. WorkOf(n)'
        BY <2>a, <3>2, <3>3 DEF WorkOf, Fits, Unlisted
      <3>5. ASSUME NEW s \in Suspend, s # n PROVE WorkOf(s)'
        <4>1. WorkOf(s)
          BY DEF IWork
        <4> QED BY <2>a, <3>1, <3>5, <4>1 DEF WorkOf, Fits, Unlisted
      <3> QED BY <3>4, <3>5 DEF IWork
    <2>3. IRun'
      BY <2>a DEF IRun
    <2>4. IRev'
      <3>1. ASSUME NEW t \in Thread, rev[t].sid # 0
            PROVE  rev[t].sid \in Suspend /\ rev[t].sid <= issued /\ rev[t].sid # n
        <4>1. rev[t].sid \in 0..MaxSuspends
          BY DEF Types, Revs
        <4>2. rev[t].sid <= issued
          BY <3>1 DEF IRev, RevOf
        <4> QED BY <3>1, <4>1, <4>2, <2>b
      <3>2. ASSUME NEW t \in Thread, rev[t].sid # 0
            PROVE  rev[t].sid <= n /\ flag' # rev[t].sid
        BY <3>1, <3>2, <2>a, <2>b
      <3> QED BY <2>a, <2>d, <2>e, <3>1, <3>2 DEF IRev, RevOf, Unlisted
    <2>5. IFiles'
      BY <2>a, <2>b, <2>d DEF IFiles
    <2>6. GateHeld'
      BY <2>a, <2>e DEF GateHeld, Open
    <2>7. ParkedListed'
      BY <2>a DEF ParkedListed
    <2>8. GateReopens'
      BY <2>a, <2>c, <2>e DEF GateReopens
    <2> QED BY <2>1, <2>2, <2>3, <2>4, <2>5, <2>6, <2>7, <2>8 DEF IInv
  <1>6. CASE Crash
    <2>1. IJob'
      BY <1>6 DEF Crash, files, world, NoJob, JobAt, NoRev, RevAt, Types, IJob, Touched
    <2>2. IWork'
      BY <1>6 DEF Crash, files, world, NoJob, JobAt, NoRev, RevAt, Types, IWork, WorkOf, Fits, Touched, Parked, Unlisted
    <2>3. IRun'
      BY <1>6 DEF Crash, files, world, NoJob, JobAt, NoRev, RevAt, Types, IRun
    <2>4. IRev'
      BY <1>6 DEF Crash, files, world, NoJob, JobAt, NoRev, RevAt, Types, IRev, RevOf, Touched, Parked, Unlisted
    <2>5. IFiles'
      BY <1>6 DEF Crash, files, world, NoJob, JobAt, NoRev, RevAt, Types, IFiles, Touched
    <2>6. GateHeld'
      BY <1>6 DEF Crash, files, world, NoJob, JobAt, NoRev, RevAt, Types, GateHeld
    <2>7. ParkedListed'
      BY <1>6 DEF Crash, files, world, NoJob, JobAt, NoRev, RevAt, Types, ParkedListed, Unlisted
    <2>8. GateReopens'
      BY <1>6 DEF Crash, files, world, NoJob, JobAt, NoRev, RevAt, Types, GateReopens
    <2> QED BY <2>1, <2>2, <2>3, <2>4, <2>5, <2>6, <2>7, <2>8 DEF IInv
  <1> QED BY <1>1, <1>2, <1>3, <1>4, <1>5, <1>6

\* What a step of job s has to keep: no reviver works for s, and nothing of
\* another window changes.
LEMMA JobStep ==
  ASSUME Types, Types', IInv, NEW s \in Suspend, JobStays(s),
         job[s].pc # "idle", job'[s].pc # "idle",
         \A q \in Suspend : q # s =>
             /\ job'[q] = job[q] /\ manifest'[q] = manifest[q] /\ fate'[q] = fate[q]
             /\ Unlisted(q)' <=> Unlisted(q),
         \A q \in Suspend : <<"flag", q>> \in broken' <=> <<"flag", q>> \in broken,
         manifest'[s] \subseteq Touched(s)',
         \A r \in Touched(s)' : run[r] # "idle",
         \A r \in Parked(s)' : run[r] = "terminal" /\ (r \in manifest'[s] \/ Unlisted(s)'),
         WorkOf(s)'
  PROVE  IInv'
  <1> USE DEF IInv
  <1>a. UNCHANGED <<flag, issued, asked, run, pass, rec, rev>>
    BY DEF JobStays, world
  <1>b. \A q \in Suspend : q # s => Touched(q)' = Touched(q) /\ Parked(q)' = Parked(q)
    BY DEF Touched, Parked
  <1>c. rec[s] = "running" /\ s <= issued
    BY DEF IJob, Types
  <1>d. ASSUME NEW t \in Thread PROVE rev[t].sid # s
    <2>1. RevOf(t)
      BY DEF IRev
    <2> QED BY <1>c, <2>1, s # 0 DEF RevOf
  <1>e. \A t \in Thread : rev[t].sid # 0 => rev[t].sid \in Suspend
    BY SidTyped
  <1>1. IJob'
    <2>1. ~(s > issued)
      BY <1>c DEF Types
    <2> QED BY <1>a, <1>b, <1>c, <2>1 DEF IJob
  <1>2. IWork'
    <2>1. ASSUME NEW q \in Suspend, q # s PROVE WorkOf(q)'
      <3>1. WorkOf(q)
        BY DEF IWork
      <3> QED BY <1>a, <1>b, <2>1, <3>1 DEF WorkOf, Fits
    <2> QED BY <2>1 DEF IWork
  <1>3. IRun'
    BY <1>a DEF IRun, Parked, Touched
  <1>4. IRev'
    <2>1. ASSUME NEW t \in Thread PROVE RevOf(t)'
      <3>1. RevOf(t)
        BY DEF IRev
      <3>2. CASE rev[t].sid = 0
        BY <1>a, <3>1, <3>2 DEF RevOf
      <3>3. CASE rev[t].sid # 0
        <4>1. rev[t].sid \in Suspend /\ rev[t].sid # s
          BY <1>d, <1>e, <3>3
        <4> QED BY <1>a, <1>b, <3>1, <4>1 DEF RevOf
      <3> QED BY <3>2, <3>3
    <2> QED BY <2>1 DEF IRev
  <1>5. IFiles'
    BY <1>a, <1>b DEF IFiles
  <1>6. GateHeld'
    BY <1>a DEF GateHeld
  <1>7. ParkedListed'
    BY DEF ParkedListed, Parked, Unlisted
  <1>8. GateReopens'
    BY <1>a DEF GateReopens
  <1> QED BY <1>1, <1>2, <1>3, <1>4, <1>5, <1>6, <1>7, <1>8

\* Most steps of a job only change its locals.
LEMMA QuietStep ==
  ASSUME Types, Types', IInv, NEW s \in Suspend, NEW j \in Jobs, Goes(s, j), JobStays(s),
         UNCHANGED <<manifest, fate, broken>>,
         job[s].pc # "idle", j.pc # "idle", Fits(s, j)
  PROVE  IInv'
  <1>1. job'[s] = j /\ \A q \in Suspend : q # s => job'[q] = job[q]
    BY DEF Goes, Types
  <1>2. \A q \in Suspend : Touched(q)' = Touched(q) /\ Parked(q)' = Parked(q) /\ (Unlisted(q)' <=> Unlisted(q))
    BY DEF Touched, Parked, Unlisted
  <1>3. WorkOf(s)'
    BY <1>1, <1>2 DEF WorkOf, Fits, JobStays, world
  <1>4. manifest'[s] \subseteq Touched(s)'
    BY <1>2 DEF IInv, IFiles
  <1>5. \A r \in Parked(s)' : run[r] = "terminal" /\ (r \in manifest'[s] \/ Unlisted(s)')
    BY <1>2 DEF IInv, IRun, ParkedListed, Parked, Unlisted
  <1>6. \A r \in Touched(s)' : run[r] # "idle"
    BY <1>2 DEF IInv, IRun, Touched
  <1> QED BY <1>1, <1>2, <1>3, <1>4, <1>5, <1>6, JobStep

\* Every step of a suspend job keeps the invariant.
LEMMA InvJob ==
  ASSUME Types, Types', IInv, NEW s \in Suspend, JobNext(s)
  PROVE  IInv'
  <1>w. Fits(s, job[s]) /\ (\A q \in Suspend : manifest[q] \subseteq Touched(q))
    BY DEF IInv, IWork, WorkOf, IFiles
  <1>p. \A r \in Parked(s) : run[r] = "terminal" /\ (r \in manifest[s] \/ Unlisted(s))
    BY DEF IInv, IRun, ParkedListed, Parked, Unlisted
  <1>t. \A r \in Touched(s) : run[r] # "idle"
    BY DEF IInv, IRun, Touched
  <1>j. /\ job[s] \in Jobs
        /\ job[s].todo \subseteq Run /\ job[s].pending \subseteq Run /\ job[s].paused \subseteq Run
    BY DEF Types, Jobs
  <1>f. job[s].todo # {} => First(job[s].todo) \in job[s].todo /\ First(job[s].todo) \in Run
    BY <1>j, FirstIn
  <1> DEFINE x == First(job[s].todo)
  <1> HIDE DEF x
  <1>1. CASE JobBreak(s)
    <2>1. PICK j : /\ Goes(s, j) /\ JobStays(s) /\ UNCHANGED <<manifest, fate, broken>>
                   /\ job[s].pc = "loop"
                   /\ j = [job[s] EXCEPT !.pc = "final", !.pending = {},
                                         !.failed = @ \/ job[s].pending # {}]
      BY <1>1 DEF JobBreak
    <2>2. j \in Jobs /\ j.pc = "final" /\ Fits(s, j)
      BY <1>w, <1>j, <2>1 DEF Fits, Jobs
    <2> QED BY <2>1, <2>2, QuietStep
  <1>2. CASE JobList(s)
    <2>1. PICK j : /\ Goes(s, j) /\ JobStays(s) /\ UNCHANGED <<manifest, fate, broken>>
                   /\ job[s].pc = "loop"
                   /\ \/ j = [job[s] EXCEPT !.pc = "final", !.pending = {}, !.failed = TRUE]
                      \/ j = [job[s] EXCEPT !.pc = "scan", !.found = FALSE,
                                !.todo = {r \in Run : run[r] # "idle"}
                                           \ (job[s].paused \cup job[s].pending \cup job[s].given)]
      BY <1>2 DEF JobList
    <2>2. /\ j \in Jobs /\ j.paused = job[s].paused
          /\ \/ j.pc = "final" /\ j.pending = {} /\ j.todo = job[s].todo
             \/ /\ j.pc = "scan" /\ j.pending = job[s].pending
                /\ \A r \in j.todo : run[r] # "idle" /\ r \notin job[s].paused
      <3>1. CASE j = [job[s] EXCEPT !.pc = "final", !.pending = {}, !.failed = TRUE]
        BY <1>j, <3>1 DEF Jobs
      <3>2. CASE j = [job[s] EXCEPT !.pc = "scan", !.found = FALSE,
                        !.todo = {r \in Run : run[r] # "idle"}
                                   \ (job[s].paused \cup job[s].pending \cup job[s].given)]
        BY <1>j, <3>2 DEF Jobs
      <3> QED BY <2>1, <3>1, <3>2
    <2>3. Fits(s, j)
      BY <1>w, <2>1, <2>2 DEF Fits
    <2> QED BY <2>1, <2>2, <2>3, QuietStep
  <1>3. CASE JobScan(s)
    <2>1. PICK j : /\ Goes(s, j) /\ JobStays(s) /\ UNCHANGED <<manifest, fate, broken>>
                   /\ job[s].pc = "scan"
                   /\ \/ /\ job[s].todo = {}
                         /\ j = [job[s] EXCEPT !.pc = "poll", !.todo = job[s].pending]
                      \/ /\ job[s].todo # {}
                         /\ \/ j = [job[s] EXCEPT !.todo = @ \ {x}]
                            \/ j = [job[s] EXCEPT !.pc = "stop", !.todo = @ \ {x}, !.cur = x, !.found = TRUE]
                            \/ j = [job[s] EXCEPT !.todo = @ \ {x}, !.given = @ \cup {x}, !.failed = TRUE]
      BY <1>3 DEF JobScan, x
    <2>x. job[s].todo # {} => x \in job[s].todo /\ x \in Run
      BY <1>f DEF x
    <2>2. /\ j \in Jobs /\ j.paused = job[s].paused /\ j.pending = job[s].pending
          /\ \/ j.pc = "poll" /\ j.todo = job[s].pending
             \/ /\ job[s].todo # {} /\ j.todo = job[s].todo \ {x}
                /\ j.pc = "scan" \/ (j.pc = "stop" /\ j.cur = x)
      <3>1. CASE j = [job[s] EXCEPT !.pc = "poll", !.todo = job[s].pending]
        BY <1>j, <3>1 DEF Jobs
      <3>2. CASE job[s].todo # {} /\ j = [job[s] EXCEPT !.todo = @ \ {x}]
        BY <1>j, <2>1, <3>2 DEF Jobs
      <3>3. CASE /\ job[s].todo # {}
                 /\ j = [job[s] EXCEPT !.pc = "stop", !.todo = @ \ {x}, !.cur = x, !.found = TRUE]
        BY <1>j, <2>x, <3>3 DEF Jobs
      <3>4. CASE /\ job[s].todo # {}
                 /\ j = [job[s] EXCEPT !.todo = @ \ {x}, !.given = @ \cup {x}, !.failed = TRUE]
        BY <1>j, <2>1, <2>x, <3>4 DEF Jobs
      <3> QED BY <2>1, <3>1, <3>2, <3>3, <3>4
    <2>3. Fits(s, j)
      BY <1>w, <2>1, <2>2, <2>x DEF Fits
    <2> QED BY <2>1, <2>2, <2>3, QuietStep
  <1>4. CASE JobStop(s)
    <2>c. job[s].pc = "stop" /\ job[s].cur \in Run
      BY <1>4, <1>w DEF JobStop, Fits
    <2>1. CASE /\ UNCHANGED fate
               /\ \E j : /\ Goes(s, j)
                         /\ \/ j = [job[s] EXCEPT !.pc = "scan", !.cur = "none"]
                            \/ j = [[job[s] EXCEPT !.pc = "scan", !.cur = "none"] EXCEPT
                                       !.given = @ \cup {job[s].cur}, !.failed = TRUE]
      <3>1. PICK j : /\ Goes(s, j) /\ JobStays(s) /\ UNCHANGED <<manifest, fate, broken>>
                     /\ \/ j = [job[s] EXCEPT !.pc = "scan", !.cur = "none"]
                        \/ j = [[job[s] EXCEPT !.pc = "scan", !.cur = "none"] EXCEPT
                                   !.given = @ \cup {job[s].cur}, !.failed = TRUE]
        BY <1>4, <2>1 DEF JobStop
      <3>2. /\ j \in Jobs /\ j.pc = "scan" /\ j.paused = job[s].paused
            /\ j.pending = job[s].pending /\ j.todo = job[s].todo
        <4>1. CASE j = [job[s] EXCEPT !.pc = "scan", !.cur = "none"]
          BY <1>j, <4>1 DEF Jobs
        <4>2. CASE j = [[job[s] EXCEPT !.pc = "scan", !.cur = "none"] EXCEPT
                           !.given = @ \cup {job[s].cur}, !.failed = TRUE]
          BY <1>j, <2>c, <4>2 DEF Jobs
        <4> QED BY <3>1, <4>1, <4>2
      <3>3. Fits(s, j)
        BY <1>w, <2>c, <3>2 DEF Fits
      <3> QED BY <2>c, <3>1, <3>2, <3>3, QuietStep
    <2>2. CASE /\ SetFate(s, job[s].cur, "stopped")
               /\ Goes(s, [job[s] EXCEPT !.pc = "note", !.cur = "none", !.pending = @ \cup {job[s].cur}])
      <3>1. JobStays(s) /\ UNCHANGED <<manifest, broken, run>>
        BY <1>4 DEF JobStop, JobStays, world
      <3>2. PICK j : job'[s] = j /\ j = [job[s] EXCEPT !.pc = "note", !.cur = "none", !.pending = @ \cup {job[s].cur}]
                     /\ \A q \in Suspend : q # s => job'[q] = job[q]
        BY <2>2 DEF Goes, Types
      <3>3. /\ fate'[s] = [fate[s] EXCEPT ![job[s].cur] = "stopped"]
            /\ \A q \in Suspend : q # s => fate'[q] = fate[q]
        BY <2>2 DEF SetFate, Types
      <3>4. /\ Touched(s)' = Touched(s) \cup {job[s].cur}
            /\ Parked(s)' = Parked(s) \ {job[s].cur}
            /\ \A q \in Suspend : Unlisted(q)' <=> Unlisted(q)
        BY <2>c, <3>1, <3>3 DEF Touched, Parked, Unlisted, Types
      <3>5. Fits(s, j)'
        BY <1>w, <1>j, <2>c, <3>1, <3>2, <3>4 DEF Fits, Jobs
      <3>6. WorkOf(s)' /\ job'[s].pc = "note"
        BY <3>2, <3>5, <1>j DEF WorkOf, Jobs
      <3>7. run[job[s].cur] # "idle"
        BY <1>w, <2>c DEF Fits
      <3> QED BY <1>w, <1>p, <1>t, <2>c, <3>1, <3>2, <3>3, <3>4, <3>6, <3>7, JobStep
    <2> QED BY <1>4, <2>1, <2>2 DEF JobStop
  <1>5. CASE JobNote(s) \/ JobFinal(s)
    <2>1. PICK j : /\ Goes(s, j) /\ JobStays(s) /\ UNCHANGED <<fate, run>> /\ Persist(s)
                   /\ job[s].pc # "idle"
                   /\ j.todo = job[s].todo /\ j.pending = job[s].pending /\ j.paused = job[s].paused
                   /\ \/ job[s].pc = "note" /\ j.pc = "scan"
                      \/ job[s].pc = "final" /\ j.pc = "close"
      <3>1. CASE JobNote(s)
        <4>1. Goes(s, [job[s] EXCEPT !.pc = "scan"]) /\ job[s].pc = "note"
          BY <3>1 DEF JobNote
        <4> QED BY <3>1, <4>1, <1>j DEF JobNote, JobStays, world, Jobs
      <3>2. CASE JobFinal(s)
        <4>1. Goes(s, [job[s] EXCEPT !.pc = "close", !.failed = @ \/ mishaps' # mishaps])
              /\ job[s].pc = "final"
          BY <3>2 DEF JobFinal
        <4>2. PICK j : j = [job[s] EXCEPT !.pc = "close", !.failed = @ \/ mishaps' # mishaps]
          OBVIOUS
        <4>3. /\ j.pc = "close" /\ j.todo = job[s].todo
              /\ j.pending = job[s].pending /\ j.paused = job[s].paused
          BY <4>2, <1>j DEF Jobs
        <4>4. Goes(s, j) /\ JobStays(s) /\ UNCHANGED <<fate, run>> /\ Persist(s)
          BY <3>2, <4>1, <4>2 DEF JobFinal, JobStays, world
        <4> QED BY <4>1, <4>3, <4>4
      <3> QED BY <1>5, <3>1, <3>2
    <2>2. job'[s] = j /\ \A q \in Suspend : q # s => job'[q] = job[q]
      BY <2>1 DEF Goes, Types
    <2>3. /\ \A q \in Suspend : q # s => manifest'[q] = manifest[q] /\ (Unlisted(q)' <=> Unlisted(q))
          /\ \A q \in Suspend : <<"flag", q>> \in broken' <=> <<"flag", q>> \in broken
          /\ \/ manifest'[s] = job[s].paused \cup job[s].pending
             \/ manifest'[s] = manifest[s] /\ Unlisted(s)'
      BY <2>1 DEF Persist, Listed, Unlisted, Types
    <2>4. Touched(s)' = Touched(s) /\ Parked(s)' = Parked(s)
      BY <2>1 DEF Touched, Parked
    <2>5. WorkOf(s)'
      BY <1>w, <2>1, <2>2, <2>3, <2>4 DEF WorkOf, Fits
    <2>6. manifest'[s] \subseteq Touched(s)'
      BY <1>w, <2>3, <2>4 DEF Fits
    <2>7. \A r \in Parked(s)' : run[r] = "terminal" /\ (r \in manifest'[s] \/ Unlisted(s)')
      BY <1>w, <1>p, <2>1, <2>3, <2>4 DEF Fits
    <2> QED BY <1>t, <2>1, <2>2, <2>3, <2>4, <2>5, <2>6, <2>7, JobStep
  <1>6. CASE JobPoll(s)
    <2>c. job[s].pc = "poll" /\ JobStays(s) /\ UNCHANGED <<manifest, broken, run>>
      BY <1>6 DEF JobPoll, JobStays, world
    <2>x. job[s].todo # {} => x \in job[s].todo /\ x \in Run
      BY <1>f DEF x
    <2>1. ASSUME UNCHANGED fate, NEW j, Goes(s, j),
                 \/ /\ job[s].todo = {}
                    /\ j = [job[s] EXCEPT !.pc = IF job[s].pending = {} /\ ~job[s].found
                                                  THEN "final" ELSE "loop"]
                 \/ /\ job[s].todo # {}
                    /\ \/ j = [job[s] EXCEPT !.todo = @ \ {x}]
                       \/ j = [[job[s] EXCEPT !.todo = @ \ {x}] EXCEPT
                                 !.pending = @ \ {x}, !.given = @ \cup {x}, !.failed = TRUE]
                       \/ j = [[job[s] EXCEPT !.todo = @ \ {x}] EXCEPT
                                 !.given = @ \cup {x}, !.failed = TRUE]
          PROVE  IInv'
      <3>1. /\ j \in Jobs /\ j.paused = job[s].paused
            /\ \/ j.pc \in {"final", "loop"} /\ j.pending = job[s].pending /\ j.todo = {}
               \/ /\ j.pc = "poll" /\ j.todo = job[s].todo \ {x}
                  /\ j.pending = job[s].pending \/ j.pending = job[s].pending \ {x}
        <4>1. CASE j = [job[s] EXCEPT !.pc = IF job[s].pending = {} /\ ~job[s].found
                                               THEN "final" ELSE "loop"]
                   /\ job[s].todo = {}
          BY <1>j, <4>1 DEF Jobs
        <4>2. CASE j = [job[s] EXCEPT !.todo = @ \ {x}]
          BY <1>j, <2>c, <4>2 DEF Jobs
        <4>3. CASE job[s].todo # {}
                   /\ j = [[job[s] EXCEPT !.todo = @ \ {x}] EXCEPT
                             !.pending = @ \ {x}, !.given = @ \cup {x}, !.failed = TRUE]
          BY <1>j, <2>c, <2>x, <4>3 DEF Jobs
        <4>4. CASE job[s].todo # {}
                   /\ j = [[job[s] EXCEPT !.todo = @ \ {x}] EXCEPT
                             !.given = @ \cup {x}, !.failed = TRUE]
          BY <1>j, <2>c, <2>x, <4>4 DEF Jobs
        <4> QED BY <2>1, <4>1, <4>2, <4>3, <4>4
      <3>2. Fits(s, j)
        BY <1>w, <2>c, <3>1 DEF Fits
      <3> QED BY <2>c, <2>1, <3>1, <3>2, QuietStep
    <2>2. ASSUME job[s].todo # {}, x \notin Live, SetFate(s, x, "parked"),
                 Goes(s, Park([job[s] EXCEPT !.todo = @ \ {x}], x))
          PROVE  IInv'
      <3>2. PICK j : /\ job'[s] = j /\ \A q \in Suspend : q # s => job'[q] = job[q]
                     /\ j = [[job[s] EXCEPT !.todo = @ \ {x}] EXCEPT
                               !.pending = @ \ {x}, !.paused = @ \cup {x}]
        BY <2>2 DEF Goes, Types, Park
      <3>a. /\ j.pc = "poll" /\ j.todo = job[s].todo \ {x}
            /\ j.pending = job[s].pending \ {x} /\ j.paused = job[s].paused \cup {x}
        BY <1>j, <2>c, <3>2 DEF Jobs
      <3>3. /\ fate'[s] = [fate[s] EXCEPT ![x] = "parked"]
            /\ \A q \in Suspend : q # s => fate'[q] = fate[q]
        BY <2>2 DEF SetFate, Types
      <3>4. /\ Touched(s)' = Touched(s) \cup {x}
            /\ Parked(s)' = Parked(s) \cup {x}
            /\ \A q \in Suspend : Unlisted(q)' <=> Unlisted(q)
        BY <2>c, <2>x, <2>2, <3>3 DEF Touched, Parked, Unlisted, Types
      <3>5. WorkOf(s)' /\ job'[s].pc = "poll"
        BY <1>w, <2>c, <2>2, <2>x, <3>2, <3>a, <3>4 DEF WorkOf, Fits
      <3>6. run[x] = "terminal" /\ (x \in manifest[s] \/ Unlisted(s))
        BY <1>w, <2>c, <2>2, <2>x DEF Fits, Live, Types
      <3> QED BY <1>w, <1>p, <1>t, <2>c, <3>2, <3>3, <3>4, <3>5, <3>6, JobStep
    <2> QED BY <1>6, <2>1, <2>2 DEF JobPoll, x
  <1>7. CASE JobClose(s)
    <2>a. /\ UNCHANGED <<flag, manifest, run, pass, issued, mishaps, fate, asked, broken>>
          /\ job[s].pc = "close"
          /\ \/ job[s].failed /\ rec' = [rec EXCEPT ![s] = "failed"]
                /\ rev' = [rev EXCEPT ![s] = RevAt("read", s, job[s].paused)]
             \/ ~job[s].failed /\ rec' = [rec EXCEPT ![s] = "suspended"] /\ rev' = rev
      BY <1>7 DEF JobClose, files, world, history
    <2>b. job'[s] = NoJob /\ \A q \in Suspend : q # s => job'[q] = job[q]
      BY <1>7 DEF JobClose, Goes, Types
    <2>c. /\ rec'[s] \in {"failed", "suspended"}
          /\ \A q \in Suspend : q # s => rec'[q] = rec[q]
      BY <2>a DEF Types
    <2>d. rec[s] = "running" /\ ~(s > issued) /\ s <= issued /\ flag = s /\ rev[s].sid = 0
      BY <2>a DEF IInv, IJob, GateHeld, Types
    <2>e. \A q \in Suspend : Touched(q)' = Touched(q) /\ Parked(q)' = Parked(q) /\ (Unlisted(q)' <=> Unlisted(q))
      BY <2>a DEF Touched, Parked, Unlisted
    <2>f. \A t \in Thread : t # s => rev'[t] = rev[t]
      BY <2>a DEF Types
    <2>g. \A t \in Thread : rev[t].sid # s
      <3>1. ASSUME NEW t \in Thread PROVE rev[t].sid # s
        <4>1. RevOf(t)
          BY DEF IInv, IRev
        <4> QED BY <2>d, <4>1, s # 0 DEF RevOf
      <3> QED BY <3>1
    <2>1. IJob'
      <3>1. ASSUME NEW q \in Suspend, q # s PROVE rev'[q] = rev[q]
        BY <2>f, <3>1
      <3>2. job'[s].pc = "idle"
        BY <2>b DEF NoJob, JobAt
      <3> QED BY <2>a, <2>b, <2>c, <2>d, <2>e, <3>1, <3>2 DEF IInv, IJob
    <2>2. IWork'
      <3>1. WorkOf(s)'
        BY <2>a, <2>b, <2>e DEF WorkOf, Fits, NoJob, JobAt
      <3>2. ASSUME NEW q \in Suspend, q # s PROVE WorkOf(q)'
        <4>1. WorkOf(q)
          BY DEF IInv, IWork
        <4> QED BY <2>a, <2>b, <2>e, <3>2, <4>1 DEF WorkOf, Fits
      <3> QED BY <3>1, <3>2 DEF IWork
    <2>3. IRun'
      BY <2>a DEF IInv, IRun
    <2>4. IRev'
      <3>1. ASSUME NEW t \in Thread, rev'[t] = rev[t] PROVE RevOf(t)'
        <4>1. RevOf(t) /\ rev[t].sid # s
          BY <2>g DEF IInv, IRev
        <4>2. rev[t].sid # 0 => rev[t].sid \in Suspend
          BY SidTyped
        <4> QED BY <2>a, <2>c, <2>e, <3>1, <4>1, <4>2 DEF RevOf
      <3>2. ASSUME rev'[s] = RevAt("read", s, job[s].paused), rec'[s] = "failed"
            PROVE  RevOf(s)'
        <4>1. Parked(s) \subseteq job[s].paused /\ job[s].paused \subseteq Touched(s)
          BY <1>w, <2>a DEF Fits
        <4>2. /\ rev'[s].pc = "read" /\ rev'[s].sid = s /\ rev'[s].todo = job[s].paused
              /\ rev'[s].left = {}
          BY <3>2 DEF RevAt
        <4>3. s # 0 /\ s \notin Caller
          BY MaintenanceAssumption
        <4> QED BY <2>a, <2>d, <2>e, <3>2, <4>1, <4>2, <4>3 DEF RevOf
      <3> QED BY <2>a, <2>f, <3>1, <3>2 DEF IRev, Types
    <2>5. IFiles'
      BY <2>a, <2>e DEF IInv, IFiles
    <2>6. GateHeld'
      BY <2>a, <2>c, <2>d DEF IInv, GateHeld
    <2>7. ParkedListed'
      BY <2>a DEF IInv, ParkedListed
    <2>8. GateReopens'
      BY <2>a, <2>d, <2>g DEF IInv, GateReopens, Types, RevAt
    <2> QED BY <2>1, <2>2, <2>3, <2>4, <2>5, <2>6, <2>7, <2>8 DEF IInv
  <1> QED BY <1>1, <1>2, <1>3, <1>4, <1>5, <1>6, <1>7 DEF JobNext

\* What a step of reviver t keeps as long as it writes no file and no record.
LEMMA RevStep ==
  ASSUME Types, Types', IInv, NEW t \in Thread,
         UNCHANGED <<issued, pass, asked, job, rec, flag, broken, manifest>>,
         \A q \in Thread : q # t => rev'[q] = rev[q],
         rev'[t].sid = rev[t].sid,
         \A s \in Suspend : Touched(s)' = Touched(s) /\ Parked(s)' \subseteq Parked(s),
         \A r \in Run : run[r] # "idle" => run'[r] # "idle",
         IRun', RevOf(t)'
  PROVE  IInv'
  <1>s. \A q \in Thread : rev'[q].sid = rev[q].sid
    OBVIOUS
  <1>1. IJob'
    <2>1. \A s \in Suspend : rev'[s].sid = rev[s].sid
      BY <1>s
    <2> QED BY <2>1 DEF IInv, IJob
  <1>2. IWork'
    BY WorkKept DEF IInv
  <1>4. IRev'
    <2>1. ASSUME NEW q \in Thread, q # t PROVE RevOf(q)'
      <3>1. RevOf(q) /\ rev'[q] = rev[q]
        BY <2>1 DEF IInv, IRev
      <3>2. rev[q].sid # 0 => rev[q].sid \in Suspend
        BY SidTyped
      <3> QED BY <3>1, <3>2 DEF RevOf, Unlisted
    <2> QED BY <2>1 DEF IRev
  <1>5. IFiles'
    BY DEF IInv, IFiles
  <1>6. GateHeld'
    BY DEF IInv, GateHeld
  <1>7. ParkedListed'
    BY DEF IInv, ParkedListed, Parked
  <1>8. GateReopens'
    BY <1>s DEF IInv, GateReopens
  <1> QED BY <1>1, <1>2, <1>4, <1>5, <1>6, <1>7, <1>8 DEF IInv

\* Every step of a resume or of a cleanup keeps the invariant.
LEMMA InvRev ==
  ASSUME Types, Types', IInv, NEW t \in Thread, RevNext(t)
  PROVE  IInv'
  <1>v. /\ rev[t] \in Revs /\ RevOf(t)
        /\ rev[t].todo \subseteq Run /\ rev[t].left \subseteq Run
    BY DEF Types, Revs, IInv, IRev
  <1>b. rev[t].pc # "idle"
    BY DEF RevNext, ReviveRead, ReviveStart, ReviveWrite, ReviveClear, ReviveFinish
  <1>s. rev[t].sid \in Suspend /\ rev[t].sid # 0
    BY <1>v, <1>b, SidTyped DEF RevOf
  <1>q. ASSUME NEW v, Turns(t, v)
        PROVE  rev'[t] = v /\ \A q \in Thread : q # t => rev'[q] = rev[q]
    BY <1>q DEF Turns, Types
  <1>k. \A q \in Thread : q # t => RevOf(q)
    BY DEF IInv, IRev
  <1>e. rev[t].sid <= issued /\ ~(rev[t].sid > issued) /\ rec[rev[t].sid] # "running"
    BY <1>v, <1>s DEF RevOf, Types
  <1>1. CASE ReviveRead(t)
    <2>a. UNCHANGED <<issued, pass, asked, job, rec, flag, broken, manifest, run, fate>>
      BY <1>1 DEF ReviveRead, RevStays
    <2>b. \A s \in Suspend : Touched(s)' = Touched(s) /\ Parked(s)' = Parked(s)
      BY <2>a DEF Touched, Parked
    <2> DEFINE x == First(rev[t].todo)
    <2>x. rev[t].todo # {} => x \in rev[t].todo /\ x \in Run
      BY <1>v, FirstIn
    <2> HIDE DEF x
    <2>1. PICK v : /\ Turns(t, v) /\ rev[t].pc = "read"
                   /\ \/ rev[t].todo = {} /\ v = [rev[t] EXCEPT !.pc = "write"]
                      \/ rev[t].todo # {} /\ v = Done(t, x) /\ run[x] = "active"
                      \/ rev[t].todo # {} /\ v = [rev[t] EXCEPT !.pc = "start", !.cur = x]
                      \/ rev[t].todo # {} /\ v = Keep(t, x)
      BY <1>1 DEF ReviveRead, x, Live
    <2>2. /\ v.sid = rev[t].sid
          /\ \/ v.pc = "write" /\ v.todo = {} /\ rev[t].todo = {} /\ v.left = rev[t].left
             \/ v.pc = "read" /\ v.todo = rev[t].todo \ {x} /\ v.left = rev[t].left /\ run[x] = "active"
             \/ v.pc = "start" /\ v.todo = rev[t].todo /\ v.left = rev[t].left /\ v.cur = x /\ x \in rev[t].todo
             \/ /\ v.pc = "read" /\ v.todo = rev[t].todo \ {x} /\ v.left = rev[t].left \cup {x}
                /\ x \in rev[t].todo
      <3>1. CASE rev[t].todo = {} /\ v = [rev[t] EXCEPT !.pc = "write"]
        BY <1>v, <3>1 DEF Revs
      <3>2. CASE rev[t].todo # {} /\ v = Done(t, x) /\ run[x] = "active"
        BY <1>v, <3>2 DEF Revs, Done
      <3>3. CASE rev[t].todo # {} /\ v = [rev[t] EXCEPT !.pc = "start", !.cur = x]
        BY <1>v, <2>x, <3>3 DEF Revs
      <3>4. CASE rev[t].todo # {} /\ v = Keep(t, x)
        BY <1>v, <2>x, <3>4 DEF Revs, Keep
      <3> QED BY <2>1, <3>1, <3>2, <3>3, <3>4
    <2>3. run[x] = "active" => x \notin Parked(rev[t].sid)
      BY <1>s DEF IInv, IRun, Parked
    <2>4. RevOf(t)'
      BY <1>v, <1>s, <1>q, <2>a, <2>b, <2>1, <2>2, <2>3 DEF RevOf, Unlisted
    <2>5. IRun'
      BY <2>a DEF IInv, IRun
    <2> QED BY <1>q, <2>a, <2>b, <2>1, <2>2, <2>4, <2>5, RevStep
  <1>2. CASE ReviveStart(t)
    <2>a. UNCHANGED <<issued, pass, asked, job, rec, flag, broken, manifest>> /\ rev[t].pc = "start"
      BY <1>2 DEF ReviveStart, RevStays
    <2>c. rev[t].cur \in rev[t].todo /\ rev[t].cur \in Run
      BY <1>v, <2>a DEF RevOf
    <2>1. CASE Revive(rev[t].cur) /\ Turns(t, Done(t, rev[t].cur)) /\ run[rev[t].cur] # "idle"
      <3>1. \A s \in Suspend : Touched(s)' = Touched(s) /\ Parked(s)' = Parked(s) \ {rev[t].cur}
        BY <2>1, <2>c DEF Touched, Parked, Revive, Types
      <3>2. run' = [run EXCEPT ![rev[t].cur] = "active"]
        BY <2>1 DEF Revive
      <3>3. IRun'
        <4>1. ASSUME NEW s \in Suspend, NEW r \in Run
              PROVE  /\ fate'[s][r] # "none" => run'[r] # "idle"
                     /\ fate'[s][r] = "parked" => run'[r] = "terminal"
          <5>1. /\ fate'[s][r] # "none" <=> fate[s][r] # "none"
                /\ fate'[s][r] = "parked" => fate[s][r] = "parked" /\ r # rev[t].cur
            BY <3>1 DEF Touched, Parked
          <5> QED BY <2>c, <3>2, <5>1 DEF IInv, IRun, Types
        <4>2. pass' # "none" => run'[pass'] = "idle"
          BY <2>1, <2>a, <2>c, <3>2 DEF IInv, IRun, Types
        <4> QED BY <4>1, <4>2 DEF IRun
      <3>4. PICK v : Turns(t, v) /\ v = Done(t, rev[t].cur)
        BY <2>1
      <3>5. /\ v.pc = "read" /\ v.sid = rev[t].sid /\ v.todo = rev[t].todo \ {rev[t].cur}
            /\ v.left = rev[t].left
        BY <1>v, <3>4 DEF Done, Revs
      <3>6. RevOf(t)'
        BY <1>v, <1>s, <1>q, <2>a, <3>1, <3>4, <3>5 DEF RevOf, Unlisted
      <3>7. \A r \in Run : run[r] # "idle" => run'[r] # "idle"
        BY <3>2 DEF Types
      <3> QED BY <1>q, <2>a, <3>1, <3>3, <3>4, <3>5, <3>6, <3>7, RevStep
    <2>2. CASE UNCHANGED <<run, fate>> /\ Turns(t, Keep(t, rev[t].cur))
      <3>1. \A s \in Suspend : Touched(s)' = Touched(s) /\ Parked(s)' = Parked(s)
        BY <2>2 DEF Touched, Parked
      <3>3. IRun'
        BY <2>2, <2>a DEF IInv, IRun
      <3>4. PICK v : Turns(t, v) /\ v = Keep(t, rev[t].cur)
        BY <2>2
      <3>5. /\ v.pc = "read" /\ v.sid = rev[t].sid /\ v.todo = rev[t].todo \ {rev[t].cur}
            /\ v.left = rev[t].left \cup {rev[t].cur}
        BY <1>v, <3>4 DEF Keep, Revs
      <3>6. RevOf(t)'
        BY <1>v, <1>s, <1>q, <2>a, <2>c, <3>1, <3>4, <3>5 DEF RevOf, Unlisted
      <3> QED BY <1>q, <2>2, <2>a, <3>1, <3>3, <3>4, <3>5, <3>6, RevStep
    <2>3. run[rev[t].cur] # "idle"
      BY <1>v, <1>s, <2>c DEF RevOf, Touched, IInv, IRun
    <2> QED BY <1>2, <2>1, <2>2, <2>3 DEF ReviveStart
  <1>3. CASE ReviveWrite(t)
    <2>a. UNCHANGED <<issued, pass, asked, job, rec, flag, run, fate>> /\ rev[t].pc = "write"
      BY <1>3 DEF ReviveWrite, RevStays
    <2>b. \A s \in Suspend : Touched(s)' = Touched(s) /\ Parked(s)' = Parked(s)
      BY <2>a DEF Touched, Parked
    <2>c. rev[t].left \subseteq Touched(rev[t].sid)
          /\ (Unlisted(rev[t].sid) \/ Parked(rev[t].sid) \subseteq rev[t].left)
      BY <1>v, <1>s, <2>a DEF RevOf
    <2>d. \A q \in Suspend : Unlisted(q)' <=> Unlisted(q)
      BY <1>3 DEF ReviveWrite, Unlisted
    <2>e. \A q \in Suspend : <<"flag", q>> \in broken => <<"flag", q>> \in broken'
      BY <1>3 DEF ReviveWrite
    <2>f. /\ \A q \in Suspend : q # rev[t].sid => manifest'[q] = manifest[q]
          /\ manifest'[rev[t].sid] \in {rev[t].left, manifest[rev[t].sid]}
      BY <1>3, <1>s DEF ReviveWrite, Types
    <2>1. PICK v : Turns(t, v) /\ \/ v = [rev[t] EXCEPT !.pc = "clear"]
                                  \/ v = NoRev /\ <<"flag", rev[t].sid>> \in broken'
      BY <1>3 DEF ReviveWrite
    <2>2. \/ v.sid = rev[t].sid /\ v.pc = "clear" /\ v.todo = rev[t].todo /\ v.left = rev[t].left
          \/ v.sid = 0 /\ v.pc = "idle" /\ v.todo = {} /\ v.left = {} /\ <<"flag", rev[t].sid>> \in broken'
      BY <1>v, <2>1 DEF Revs, NoRev, RevAt
    <2>3. rev'[t] = v /\ \A q \in Thread : q # t => rev'[q] = rev[q]
      BY <1>q, <2>1
    <2>4. IJob'
      <3>1. \A s \in Suspend : rev[s].sid = 0 => rev'[s].sid = 0
        BY <2>2, <2>3
      <3> QED BY <1>e, <2>a, <2>b, <2>f, <3>1 DEF IInv, IJob
    <2>5. IWork'
      <3>1. ASSUME NEW q \in Suspend PROVE WorkOf(q)'
        <4>1. WorkOf(q) /\ (job[q].pc = "idle" \/ q # rev[t].sid)
          BY <1>e, <1>s DEF IInv, IWork, IJob
        <4> QED BY <2>a, <2>b, <2>d, <2>f, <4>1 DEF WorkOf, Fits
      <3> QED BY <3>1 DEF IWork
    <2>6. IRun'
      BY <2>a DEF IInv, IRun
    <2>7. IRev'
      <3>1. RevOf(t)'
        BY <1>v, <1>s, <2>a, <2>b, <2>2, <2>3 DEF RevOf
      <3>2. ASSUME NEW q \in Thread, q # t PROVE RevOf(q)'
        <4>1. RevOf(q) /\ rev'[q] = rev[q] /\ (rev[q].sid # 0 => rev[q].sid \in Suspend)
          BY <1>k, <2>3, <3>2, SidTyped
        <4> QED BY <2>a, <2>b, <2>d, <2>e, <4>1 DEF RevOf
      <3> QED BY <3>1, <3>2 DEF IRev
    <2>8. IFiles'
      BY <2>a, <2>b, <2>c, <2>f DEF IInv, IFiles
    <2>9. GateHeld'
      BY <2>a DEF IInv, GateHeld
    <2>10. ParkedListed'
      <3>1. ASSUME NEW s \in Suspend, NEW r \in Run, fate'[s][r] = "parked"
            PROVE  r \in manifest'[s] \/ <<"list", s>> \in broken'
        <4>1. r \in Parked(s) /\ (r \in manifest[s] \/ Unlisted(s))
          BY <2>a, <3>1 DEF IInv, ParkedListed, Parked, Unlisted
        <4>2. Unlisted(s) => <<"list", s>> \in broken'
          BY <2>d DEF Unlisted
        <4> QED BY <1>s, <2>c, <2>f, <4>1, <4>2
      <3> QED BY <3>1 DEF ParkedListed
    <2>11. GateReopens'
      <3>1. ASSUME NEW s \in Suspend, rec[s] = "failed" \/ s \in asked,
                   \A q \in Thread : rev'[q].sid # s
            PROVE  flag # s \/ <<"flag", s>> \in broken'
        <4>1. CASE s = rev[t].sid
          BY <2>2, <2>3, <3>1, <4>1
        <4>2. CASE s # rev[t].sid
          <5>1. \A q \in Thread : rev[q].sid # s
            BY <2>3, <3>1, <4>2
          <5> QED BY <2>e, <3>1, <5>1 DEF IInv, GateReopens
        <4> QED BY <4>1, <4>2
      <3> QED BY <2>a, <3>1 DEF GateReopens
    <2> QED BY <2>4, <2>5, <2>6, <2>7, <2>8, <2>9, <2>10, <2>11 DEF IInv
  <1>4. CASE ReviveClear(t)
    <2>a. UNCHANGED <<issued, pass, asked, job, rec, run, fate, manifest>> /\ rev[t].pc = "clear"
      BY <1>4 DEF ReviveClear, RevStays
    <2>b. \A s \in Suspend : Touched(s)' = Touched(s) /\ Parked(s)' = Parked(s)
      BY <2>a DEF Touched, Parked
    <2>d. \A q \in Suspend : Unlisted(q)' <=> Unlisted(q)
      BY <1>4 DEF ReviveClear, Unlisted
    <2>e. \A q \in Suspend : <<"flag", q>> \in broken => <<"flag", q>> \in broken'
      BY <1>4 DEF ReviveClear
    <2>f. \/ flag' = flag /\ <<"flag", rev[t].sid>> \in broken'
          \/ flag' = flag /\ flag # rev[t].sid
          \/ flag' = 0 /\ flag = rev[t].sid
      BY <1>4 DEF ReviveClear, Cleared
    <2>1. PICK v : Turns(t, v) /\ \/ v = [rev[t] EXCEPT !.pc = "finish"] /\ t \notin Suspend
                                  \/ v = NoRev
      BY <1>4 DEF ReviveClear
    <2>2. \/ v.sid = rev[t].sid /\ v.pc = "finish" /\ v.todo = rev[t].todo /\ v.left = rev[t].left
             /\ t \in Caller
          \/ v.sid = 0 /\ v.pc = "idle" /\ v.todo = {} /\ v.left = {}
      BY <1>v, <2>1 DEF Revs, NoRev, RevAt
    <2>3. rev'[t] = v /\ \A q \in Thread : q # t => rev'[q] = rev[q]
      BY <1>q, <2>1
    <2>4. IJob'
      <3>1. \A s \in Suspend : rev[s].sid = 0 => rev'[s].sid = 0
        BY <2>2, <2>3
      <3> QED BY <2>a, <2>b, <3>1 DEF IInv, IJob
    <2>5. IWork'
      BY <2>a, <2>b, <2>d DEF IInv, IWork, WorkOf, Fits
    <2>6. IRun'
      BY <2>a DEF IInv, IRun
    <2>7. IRev'
      <3>1. RevOf(t)'
        BY <1>v, <1>s, <2>a, <2>b, <2>f, <2>2, <2>3 DEF RevOf
      <3>2. ASSUME NEW q \in Thread, q # t PROVE RevOf(q)'
        <4>1. RevOf(q) /\ rev'[q] = rev[q] /\ (rev[q].sid # 0 => rev[q].sid \in Suspend)
          BY <1>k, <2>3, <3>2, SidTyped
        <4> QED BY <2>a, <2>b, <2>d, <2>e, <2>f, <4>1 DEF RevOf
      <3> QED BY <3>1, <3>2 DEF IRev
    <2>8. IFiles'
      BY <2>a, <2>b, <2>f DEF IInv, IFiles, Types
    <2>9. GateHeld'
      <3>1. rec[rev[t].sid] = "failed" \/ rev[t].sid \in asked
        BY <1>v, <1>s DEF RevOf
      <3> QED BY <1>e, <2>a, <2>f, <3>1 DEF IInv, GateHeld
    <2>10. ParkedListed'
      BY <2>a, <2>d DEF IInv, ParkedListed, Unlisted
    <2>11. GateReopens'
      <3>1. ASSUME NEW s \in Suspend, rec[s] = "failed" \/ s \in asked,
                   \A q \in Thread : rev'[q].sid # s
            PROVE  flag' # s \/ <<"flag", s>> \in broken'
        <4>1. CASE s = rev[t].sid
          BY <1>s, <2>f, <4>1
        <4>2. CASE s # rev[t].sid
          <5>1. \A q \in Thread : rev[q].sid # s
            BY <2>3, <3>1, <4>2
          <5> QED BY <2>e, <2>f, <3>1, <5>1, <4>2, s # 0 DEF IInv, GateReopens
        <4> QED BY <4>1, <4>2
      <3> QED BY <2>a, <3>1 DEF GateReopens
    <2> QED BY <2>4, <2>5, <2>6, <2>7, <2>8, <2>9, <2>10, <2>11 DEF IInv
  <1>5. CASE ReviveFinish(t)
    <2>a. /\ UNCHANGED <<flag, issued, pass, asked, job, run, fate, manifest, broken>>
          /\ rev[t].pc = "finish"
      BY <1>5 DEF ReviveFinish, RevStays
    <2>b. \A s \in Suspend : Touched(s)' = Touched(s) /\ Parked(s)' = Parked(s) /\ (Unlisted(s)' <=> Unlisted(s))
      BY <2>a DEF Touched, Parked, Unlisted
    <2>c. /\ \A q \in Suspend : q # rev[t].sid => rec'[q] = rec[q]
          /\ rec'[rev[t].sid] \in {"resumed", rec[rev[t].sid]}
      BY <1>5, <1>s DEF ReviveFinish, Types
    <2>d. rev[t].sid \in asked /\ (flag # rev[t].sid \/ <<"flag", rev[t].sid>> \in broken)
      BY <1>v, <1>s, <2>a DEF RevOf
    <2>3. rev'[t] = NoRev /\ \A q \in Thread : q # t => rev'[q] = rev[q]
      BY <1>5 DEF ReviveFinish, Turns, Types
    <2>2. NoRev.sid = 0 /\ NoRev.pc = "idle" /\ NoRev.todo = {} /\ NoRev.left = {}
      BY DEF NoRev, RevAt
    <2>4. IJob'
      <3>1. \A s \in Suspend : rev[s].sid = 0 => rev'[s].sid = 0
        BY <2>2, <2>3
      <3>2. job[rev[t].sid].pc = "idle"
        BY <1>e, <1>s DEF IInv, IJob
      <3> QED BY <1>e, <2>a, <2>b, <2>c, <3>1, <3>2 DEF IInv, IJob
    <2>5. IWork'
      BY <2>a, <2>b DEF IInv, IWork, WorkOf, Fits
    <2>6. IRun'
      BY <2>a DEF IInv, IRun
    <2>7. IRev'
      <3>1. RevOf(t)'
        BY <2>2, <2>3 DEF RevOf
      <3>2. ASSUME NEW q \in Thread, q # t PROVE RevOf(q)'
        <4>1. RevOf(q) /\ rev'[q] = rev[q] /\ (rev[q].sid # 0 => rev[q].sid \in Suspend)
          BY <1>k, <2>3, <3>2, SidTyped
        <4> QED BY <1>e, <2>a, <2>b, <2>c, <2>d, <4>1 DEF RevOf
      <3> QED BY <3>1, <3>2 DEF IRev
    <2>8. IFiles'
      BY <2>a, <2>b DEF IInv, IFiles
    <2>9. GateHeld'
      BY <2>a, <2>c DEF IInv, GateHeld
    <2>10. ParkedListed'
      BY <2>a DEF IInv, ParkedListed
    <2>11. GateReopens'
      <3>1. ASSUME NEW s \in Suspend, rec'[s] = "failed" \/ s \in asked,
                   \A q \in Thread : rev'[q].sid # s
            PROVE  flag # s \/ <<"flag", s>> \in broken
        <4>1. CASE s = rev[t].sid
          BY <2>d, <4>1
        <4>2. CASE s # rev[t].sid
          <5>1. \A q \in Thread : rev[q].sid # s
            BY <2>3, <3>1, <4>2
          <5> QED BY <2>c, <3>1, <5>1, <4>2 DEF IInv, GateReopens
        <4> QED BY <4>1, <4>2
      <3> QED BY <2>a, <3>1 DEF GateReopens
    <2> QED BY <2>4, <2>5, <2>6, <2>7, <2>8, <2>9, <2>10, <2>11 DEF IInv
  <1> QED BY <1>1, <1>2, <1>3, <1>4, <1>5 DEF RevNext

\* Accepting a resume keeps the invariant.
LEMMA InvAsk ==
  ASSUME Types, Types', IInv, NEW c \in Caller, NEW s \in Suspend, ResumeAccepted(c, s)
  PROVE  IInv'
  <1>a. /\ UNCHANGED <<flag, manifest, run, pass, issued, fate, broken, rec, job>>
        /\ asked' = asked \cup {s} /\ s <= issued /\ ~(s > issued) /\ rec[s] # "running"
        /\ rev[c].pc = "idle"
    BY DEF ResumeAccepted, files, world, Types
  <1>b. \A q \in Suspend : Touched(q)' = Touched(q) /\ Parked(q)' = Parked(q) /\ (Unlisted(q)' <=> Unlisted(q))
    BY <1>a DEF Touched, Parked, Unlisted
  <1>c. c \in Thread /\ c \notin Suspend /\ s # 0
    BY MaintenanceAssumption
  <1>d. /\ rev'[c] = RevAt("read", s, manifest[s])
        /\ \A q \in Thread : q # c => rev'[q] = rev[q]
    BY <1>c DEF ResumeAccepted, ParkedBy, Types
  <1>e. rev'[c].pc = "read" /\ rev'[c].sid = s /\ rev'[c].todo = manifest[s] /\ rev'[c].left = {}
    BY <1>d DEF RevAt
  <1>f. rev[c].sid = 0
    BY <1>a, <1>c DEF IInv, IRev, RevOf
  <1>1. IJob'
    <2>1. \A q \in Suspend : rev'[q] = rev[q]
      BY <1>c, <1>d
    <2> QED BY <1>a, <1>b, <2>1 DEF IInv, IJob
  <1>2. IWork'
    BY <1>a, <1>b DEF IInv, IWork, WorkOf, Fits
  <1>3. IRun'
    BY <1>a DEF IInv, IRun
  <1>4. IRev'
    <2>1. RevOf(c)'
      <3>1. Unlisted(s) \/ Parked(s) \subseteq manifest[s]
        BY DEF IInv, ParkedListed, Parked, Unlisted
      <3>2. manifest[s] \subseteq Touched(s)
        BY DEF IInv, IFiles
      <3> QED BY <1>a, <1>b, <1>c, <1>e, <3>1, <3>2 DEF RevOf
    <2>2. ASSUME NEW q \in Thread, q # c PROVE RevOf(q)'
      <3>1. RevOf(q) /\ rev'[q] = rev[q] /\ (rev[q].sid # 0 => rev[q].sid \in Suspend)
        BY <1>d, <2>2, SidTyped DEF IInv, IRev
      <3> QED BY <1>a, <1>b, <3>1 DEF RevOf
    <2> QED BY <2>1, <2>2 DEF IRev
  <1>5. IFiles'
    BY <1>a, <1>b DEF IInv, IFiles
  <1>6. GateHeld'
    BY <1>a DEF IInv, GateHeld
  <1>7. ParkedListed'
    BY <1>a DEF IInv, ParkedListed
  <1>8. GateReopens'
    <2>1. ASSUME NEW p \in Suspend, rec[p] = "failed" \/ p \in asked',
                 \A q \in Thread : rev'[q].sid # p
          PROVE  flag # p \/ <<"flag", p>> \in broken
      <3>1. p # s /\ \A q \in Thread : rev[q].sid # p
        BY <1>c, <1>d, <1>e, <1>f, <2>1
      <3> QED BY <1>a, <2>1, <3>1 DEF IInv, GateReopens
    <2> QED BY <1>a, <2>1 DEF GateReopens
  <1> QED BY <1>1, <1>2, <1>3, <1>4, <1>5, <1>6, <1>7, <1>8 DEF IInv

\* The invariant holds at the start.
LEMMA InitInv == Init => IInv
  <1> SUFFICES ASSUME Init PROVE IInv
    OBVIOUS
  <1> USE MaintenanceAssumption
  <1>a. /\ \A s \in Suspend : job[s].pc = "idle" /\ job[s].todo = {} /\ job[s].pending = {} /\ job[s].paused = {}
        /\ \A t \in Thread : rev[t].pc = "idle" /\ rev[t].sid = 0 /\ rev[t].todo = {} /\ rev[t].left = {}
    BY DEF Init, NoJob, JobAt, NoRev, RevAt
  <1>b. \A s \in Suspend : Touched(s) = {} /\ Parked(s) = {} /\ rec[s] = "none" /\ manifest[s] = {}
    BY DEF Init, Touched, Parked
  <1>c. \A s \in Suspend, r \in Run : fate[s][r] = "none"
    BY DEF Init
  <1>1. IJob
    BY <1>a, <1>b DEF Init, IJob
  <1>2. IWork
    BY <1>a, <1>b DEF IWork, WorkOf, Fits
  <1>3. IRun
    BY <1>c DEF Init, IRun
  <1>4. IRev
    BY <1>a DEF IRev, RevOf
  <1>5. IFiles /\ GateHeld /\ ParkedListed /\ GateReopens
    BY <1>b, <1>c DEF Init, IFiles, GateHeld, ParkedListed, GateReopens
  <1> QED BY <1>1, <1>2, <1>3, <1>4, <1>5 DEF IInv

\* Every step keeps types and invariant.
LEMMA NextInv == Types /\ IInv /\ [Next]_vars => Types' /\ IInv'
  <1> SUFFICES ASSUME Types, IInv, [Next]_vars PROVE Types' /\ IInv'
    OBVIOUS
  <1>0. Types'
    BY NextTypes DEF IInv
  <1>1. CASE UNCHANGED vars
    <2>1. UNCHANGED <<flag, manifest, run, pass, issued, fate, asked, broken, rec, job, rev>>
      BY <1>1 DEF vars, files, world, history
    <2>2. \A q \in Suspend : Touched(q)' = Touched(q) /\ Parked(q)' = Parked(q)
      BY <2>1 DEF Touched, Parked
    <2>3. IWork'
      BY <2>1, <2>2, WorkKept DEF IInv
    <2>4. IRev'
      BY <2>1, <2>2, RevKept DEF IInv
    <2>5. IJob'
      BY <2>1, <2>2 DEF IInv, IJob
    <2>6. IRun' /\ ParkedListed'
      BY <2>1 DEF IInv, IRun, ParkedListed
    <2>7. IFiles'
      BY <2>1, <2>2 DEF IInv, IFiles
    <2>8. GateHeld' /\ GateReopens'
      BY <2>1 DEF IInv, GateHeld, GateReopens
    <2> QED BY <1>0, <2>3, <2>4, <2>5, <2>6, <2>7, <2>8 DEF IInv
  <1> QED BY <1>0, <1>1, InvEnv, InvJob, InvRev, InvAsk DEF Next

\* Types and the inductive invariant hold in every reachable state of the
\* maintenance window (maintenance_suspend, _suspend_job, maintenance_resume).
THEOREM InvHolds == Spec => [](Types /\ IInv)
  BY InitTypes, InitInv, NextInv, PTL DEF Spec

----------------------------------------------------------------------------
(* The theorems.                                                           *)

\* Every reachable state is well typed, and a job of _suspend_job never has a
\* run among the pending and the paused ones.
THEOREM TypeCorrect == Spec => []TypeOK
  <1>1. Types /\ IInv => TypeOK
    BY DEF TypeOK, IInv, IWork, WorkOf, Fits
  <1> QED BY <1>1, InvHolds, PTL

\* The launch gate stays closed in the name of the open window until a resume
\* names it (set_ and clear_maintenance_launch_pause with if_suspend_id).
THEOREM GateStaysClosed == Spec => []GateHeld
  <1>1. Types /\ IInv => GateHeld
    BY DEF IInv
  <1> QED BY <1>1, InvHolds, PTL

\* A run that a suspend paused stays in its manifest until it lives again
\* (persist and _resume_manifest_records).
THEOREM ParkedRunsListed == Spec => []ParkedListed
  <1>1. Types /\ IInv => ParkedListed
    BY DEF IInv
  <1> QED BY <1>1, InvHolds, PTL

\* After the rollback of a failed suspend, and after a resume, the gate is open
\* unless a file could not be written (_suspend_cleanup, maintenance_resume).
THEOREM GateOpensAgain == Spec => []GateReopens
  <1>1. Types /\ IInv => GateReopens
    BY DEF IInv
  <1> QED BY <1>1, InvHolds, PTL

\* A step that brings a run back to life is an operator's resume, or that of a
\* window that stopped the run and has failed or been named
\* (_resume_manifest_records).
THEOREM RevivesOwnRuns == Spec => OwnRunsOnly
  <1> DEFINE Own(r) ==
        run[r] = "terminal" /\ run'[r] = "active" =>
          \/ OperatorResume(r)
          \/ \E s \in Suspend : fate[s][r] # "none" /\ (rec[s] = "failed" \/ s \in asked)
  <1>1. Types /\ IInv /\ [Next]_vars => [\A r \in Run : Own(r)]_vars
    <2> SUFFICES ASSUME Types, IInv, Next, NEW r \in Run,
                        run[r] = "terminal", run'[r] = "active", ~OperatorResume(r)
                 PROVE  \E s \in Suspend : fate[s][r] # "none" /\ (rec[s] = "failed" \/ s \in asked)
      OBVIOUS
    <2>1. ASSUME NEW q \in Run, WorkerEnds(q) \/ OperatorResume(q) \/ LaunchGate(q)
          PROVE  FALSE
      BY <2>1 DEF WorkerEnds, OperatorResume, LaunchGate, Revive, Types
    <2>2. ~Launch
      BY DEF Launch, IInv, IRun, Types
    <2>3. ~SuspendAccepted /\ ~Crash
      BY DEF SuspendAccepted, Crash, world, Types
    <2>4. ASSUME NEW s \in Suspend, JobNext(s) PROVE FALSE
      <3>1. run' = run
        BY <2>4 DEF JobNext, JobBreak, JobList, JobScan, JobStop, JobNote, JobPoll, JobFinal,
                    JobClose, JobStays, world
      <3> QED BY <3>1
    <2>5. ASSUME NEW c \in Caller, NEW s \in Suspend, ResumeAccepted(c, s) PROVE FALSE
      BY <2>5 DEF ResumeAccepted, world
    <2>6. PICK t \in Thread : RevNext(t)
      BY <2>1, <2>2, <2>3, <2>4, <2>5 DEF Next
    <2>7. ReviveStart(t)
      BY <2>6 DEF RevNext, ReviveRead, ReviveWrite, ReviveClear, ReviveFinish
    <2>8. Revive(rev[t].cur) /\ rev[t].pc = "start"
      BY <2>7 DEF ReviveStart
    <2>9. r = rev[t].cur
      BY <2>8 DEF Revive, Types
    <2>10. RevOf(t) /\ (rev[t].sid # 0 => rev[t].sid \in Suspend)
      BY SidTyped DEF IInv, IRev
    <2> QED BY <2>8, <2>9, <2>10 DEF RevOf, Touched
  <1>2. Spec => [][\A r \in Run : Own(r)]_vars
    BY <1>1, InvHolds, PTL DEF Spec
  <1> QED BY <1>2 DEF OwnRunsOnly

============================================================================
