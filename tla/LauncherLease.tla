--------------------------- MODULE LauncherLease ---------------------------
(***************************************************************************)
(* The cross-process launcher lease (queue.py, "Cross-process launcher     *)
(* lease"; launcher.py, Launcher._tick_sync and Launcher._acquire_lease).  *)
(*                                                                         *)
(* One file, runs_root/queue/.lease, names the process that may run        *)
(* launcher passes.  acquire_lease is a sequence of separate file system   *)
(* calls (read, O_EXCL create, write, unlink, rename), and every one of    *)
(* them is a step here, so two processes can be anywhere inside it at the  *)
(* same time.  An O_EXCL create makes an EMPTY file that a reader cannot   *)
(* parse until the payload is written through the descriptor.              *)
(*                                                                         *)
(* Times are ages: file.age is how long ago the file's ts was, since[p]    *)
(* how long ago p captured now_ts.  (now_ts - ts) of the code is           *)
(* file.age - since[p].                                                    *)
(*                                                                         *)
(* overlap is history: two acquire_lease calls have been under way at the  *)
(* same time.  The lease keeps its promise until that happens.             *)
(***************************************************************************)
EXTENDS Integers

CONSTANTS Proc,        \* launcher processes, each a (pid, host)
          Interval,    \* poll interval, in clock ticks
          MaxDelay,    \* bound: ticks an acquire_lease call may take
          LeaseFails   \* TRUE: the lease mechanism may raise OSError

ASSUME LeaseAssumption ==
    /\ Interval \in Nat \ {0}
    /\ MaxDelay \in Nat
    /\ LeaseFails \in BOOLEAN
    /\ "none" \notin Proc

VARIABLES file,    \* the lease file, or NoFile
          pc,      \* what each process does next
          since,   \* age of the now_ts its current call or pass captured
          overlap  \* two calls have been inside acquire_lease together

vars == <<file, pc, since, overlap>>

\* _LEASE_STALE_INTERVALS missed intervals.
StaleAfter == 3 * Interval

\* Ages grow to the point where every captured now_ts sees the lease stale.
MaxAge == StaleAfter + MaxDelay

NoFile == [owner |-> "none", age |-> 0, written |-> FALSE]

Record(p, age) == [owner |-> p, age |-> age, written |-> TRUE]

Files == [owner : Proc, age : 0..MaxAge, written : BOOLEAN] \cup {NoFile}

Acquiring == {"read", "refresh", "mint", "reread", "recheck", "unlink",
              "recreate", "write", "rewrite"}

\* read_lease returns None for a missing and for an unparseable file.
Readable == file # NoFile /\ file.written

\* Mutant of Stale: one tick early.
StaleEarly(p) == file.age - since[p] >= StaleAfter - 1

\* _lease_stale, against the now_ts captured when the call began.
Stale(p) == file.age - since[p] >= StaleAfter

LiveFor(p) == Readable /\ ~Stale(p)

\* Ages saturate at MaxAge, where every reader sees the lease stale.
Older(age) == IF age < MaxAge THEN age + 1 ELSE age

Goto(p, l) == pc' = [pc EXCEPT ![p] = l]

----------------------------------------------------------------------------
Init == /\ file = NoFile
        /\ pc = [p \in Proc |-> "idle"]
        /\ since = [p \in Proc |-> 0]
        /\ overlap = FALSE

\* A tick of the launcher: now_ts is captured before anything is read.
Begin(p) == /\ pc[p] = "idle"
            /\ Goto(p, "read")
            /\ since' = [since EXCEPT ![p] = 0]
            /\ overlap' = (overlap \/ \E q \in Proc : pc[q] \in Acquiring)
            /\ UNCHANGED file

\* existing = read_lease(): a live lease is refreshed or respected, an
\* unreadable one is minted, a stale one reclaimed.
ReadLease(p) == /\ pc[p] = "read"
                /\ \/ LiveFor(p) /\ file.owner = p /\ Goto(p, "refresh")
                   \/ LiveFor(p) /\ file.owner # p /\ Goto(p, "idle")
                   \/ ~Readable /\ Goto(p, "mint")
                   \/ Readable /\ Stale(p) /\ Goto(p, "recheck")
                /\ UNCHANGED <<file, since, overlap>>

\* The holder rewrites the record atomically, whatever is there by now.
Refresh(p) == /\ pc[p] = "refresh"
              /\ file' = Record(p, since[p])
              /\ Goto(p, "pass")
              /\ UNCHANGED <<since, overlap>>

\* O_EXCL create of the empty file; FileExistsError otherwise.
CreateExcl(p, onCreated, onExists) ==
    \/ /\ file = NoFile
       /\ file' = [owner |-> p, age |-> since[p], written |-> FALSE]
       /\ Goto(p, onCreated)
    \/ /\ file # NoFile
       /\ Goto(p, onExists)
       /\ UNCHANGED file

Mint(p) == /\ pc[p] = "mint"
           /\ CreateExcl(p, "write", "reread")
           /\ UNCHANGED <<since, overlap>>

\* The payload goes to the descriptor: if the path was unlinked meanwhile it
\* goes to a file nobody can open any more.
WritePayload(p) == /\ pc[p] \in {"write", "rewrite"}
                   /\ file' = IF file.owner = p /\ ~file.written
                              THEN Record(p, file.age) ELSE file
                   /\ Goto(p, "pass")
                   /\ UNCHANGED <<since, overlap>>

\* Mutant of Reread: an unreadable file is taken for a live lease.
RereadTrusting(p) == /\ pc[p] = "reread"
                     /\ Goto(p, IF Readable /\ Stale(p) THEN "recheck" ELSE "idle")
                     /\ UNCHANGED <<file, since, overlap>>

\* The loser of the mint re-reads once, and gives up only on a live lease.
Reread(p) == /\ pc[p] = "reread"
             /\ Goto(p, IF LiveFor(p) THEN "idle" ELSE "recheck")
             /\ UNCHANGED <<file, since, overlap>>

\* "still stale at the moment of the unlink": one more read before it.
Recheck(p) == /\ pc[p] = "recheck"
              /\ Goto(p, IF LiveFor(p) THEN "idle" ELSE "unlink")
              /\ UNCHANGED <<file, since, overlap>>

Unlink(p) == /\ pc[p] = "unlink"
             /\ file' = NoFile
             /\ Goto(p, "recreate")
             /\ UNCHANGED <<since, overlap>>

Recreate(p) == /\ pc[p] = "recreate"
               /\ CreateExcl(p, "rewrite", "idle")
               /\ UNCHANGED <<since, overlap>>

\* An OSError out of acquire_lease: _acquire_lease runs the pass without a
\* lease.  A failed payload write leaves the empty file behind.
FailOpen(p) == /\ LeaseFails
               /\ pc[p] \in {"refresh", "mint", "write"}
               /\ Goto(p, "open")
               /\ UNCHANGED <<file, since, overlap>>

\* An OSError while reclaiming is caught: no lease, no pass.
FailClosed(p) == /\ LeaseFails
                 /\ pc[p] \in {"unlink", "recreate", "rewrite"}
                 /\ Goto(p, "idle")
                 /\ UNCHANGED <<file, since, overlap>>

\* _run_pass returned (or raised; _tick_sync swallows it).
EndPass(p) == /\ pc[p] \in {"pass", "open"}
              /\ Goto(p, "idle")
              /\ UNCHANGED <<file, since, overlap>>

\* The process dies anywhere; its lease stays on disk.
Crash(p) == /\ pc[p] # "dead"
            /\ Goto(p, "dead")
            /\ UNCHANGED <<file, since, overlap>>

\* A clock tick.  No acquire_lease call outlasts MaxDelay ticks.
Tick == /\ \A p \in Proc : pc[p] \in Acquiring => since[p] < MaxDelay
        /\ since' = [p \in Proc |-> CASE pc[p] \in Acquiring -> since[p] + 1
                                      [] pc[p] = "pass" -> Older(since[p])
                                      [] OTHER -> 0]
        /\ file' = IF file = NoFile THEN file
                   ELSE [file EXCEPT !.age = Older(@)]
        /\ UNCHANGED <<pc, overlap>>

Acquire(p) == \/ ReadLease(p) \/ Refresh(p) \/ Mint(p) \/ WritePayload(p)
              \/ Reread(p) \/ Recheck(p) \/ Unlink(p) \/ Recreate(p)

Next == \/ Tick
        \/ \E p \in Proc : \/ Begin(p) \/ Acquire(p) \/ EndPass(p)
                           \/ FailOpen(p) \/ FailClosed(p) \/ Crash(p)

Spec == Init /\ [][Next]_vars

\* Launchers poll forever (_loop), calls return, passes end, time passes, and
\* a file system call that is tried again and again does not always fail.
Fairness == /\ \A p \in Proc :
                 /\ WF_vars(Begin(p) \/ Acquire(p) \/ EndPass(p))
                 /\ SF_vars(Unlink(p))
                 /\ SF_vars(Recreate(p))
                 /\ SF_vars(WritePayload(p))
            /\ SF_vars(Tick)

FairSpec == Spec /\ Fairness

----------------------------------------------------------------------------
\* The lease file, the program counters and the ages have their types.
TypeOK == /\ file \in Files
          /\ pc \in [Proc -> Acquiring \cup {"idle", "pass", "open", "dead"}]
          /\ since \in [Proc -> 0..MaxAge]
          /\ overlap \in BOOLEAN

\* Two passes under a lease at the same time, neither of which has overrun
\* its own lease (lasted three poll intervals).
PassesCollide(p, q) ==
    /\ p # q /\ pc[p] = "pass" /\ pc[q] = "pass"
    /\ since[p] < StaleAfter /\ since[q] < StaleAfter

\* acquire_lease: as long as acquisitions came one after the other, whatever
\* crashed and whatever call failed in them, no two passes collide.
SerialExclusive == overlap \/ \A p, q \in Proc : ~PassesCollide(p, q)

\* acquire_lease: "exactly one contender can mint a lease out of nothing":
\* no two passes collide, however acquisitions overlap.
ExclusivePass == \A p, q \in Proc : ~PassesCollide(p, q)

\* acquire_lease reclaims what a dead process leaves behind, an empty file
\* included: whatever crashes, some launcher keeps getting passes as long as
\* one is alive.
LauncherKeepsRunning ==
    []<>(\/ \E p \in Proc : pc[p] \in {"pass", "open"}
         \/ \A p \in Proc : pc[p] = "dead")
============================================================================
