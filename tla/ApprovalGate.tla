---------------------------- MODULE ApprovalGate ----------------------------
(***************************************************************************)
(* The end-of-round approval of a supervised run: dashboard/gate.py (the   *)
(* worker's blocking wait), dashboard/state.py (approval records, decision *)
(* commands, annotations) and the routes of webapi/server.py that reach    *)
(* them.  The worker and the API are processes of their own; they share    *)
(* two append-only files, approvals.jsonl (the LATEST line of an approval  *)
(* is its state) and the control bus (commands and receipts).              *)
(*                                                                         *)
(* get_approval is not a pure read: it applies the decision commands that  *)
(* have no receipt yet.  The worker's poll calls it, and so does the route *)
(* that only labels a gate, so several threads may consume one command.    *)
(***************************************************************************)
EXTENDS Integers

CONSTANTS
    Annotator,     \* request threads of the annotate route
    Operator,      \* request threads of the resolve route
    Worker,        \* the run's worker
    Embedded,      \* the dashboard runs inside the worker's process
    Action,        \* the option values of a gate
    KeyOf,         \* the Idempotency-Key an operator's requests carry, or ""
    MaxGates,      \* bound: gates the run raises
    MaxResolves,   \* bound: resolve requests
    MaxAnnotates,  \* bound: annotate requests
    MaxCrashes     \* bound: crashes of the API and of the worker, together

ASSUME ActorAssumption == Worker \notin Annotator
ASSUME ActionAssumption ==
    /\ "stop" \in Action
    /\ "none" \notin Action /\ "pending" \notin Action
ASSUME KeyAssumption == KeyOf \in [Operator -> STRING]
ASSUME BoundAssumption ==
    /\ MaxGates \in Nat \ {0}
    /\ MaxResolves \in Nat /\ MaxAnnotates \in Nat /\ MaxCrashes \in Nat

Gate == 1..MaxGates
Consumer == Annotator \cup {Worker}
NoCommand == [action |-> "none", key |-> ""]

\* An approval as a record or as an object in memory: unknown, pending, or
\* resolved with the action it carries.
Approval == {"none", "pending"} \cup Action

\* The process a thread runs in: the API's request threads share one
\* DashboardState per run; an embedded dashboard shares the worker's.
Process == {"api", "worker"}
Of(a) == IF a # Worker \/ Embedded THEN "api" ELSE "worker"

VARIABLES
    record,     \* approvals.jsonl: the latest line of each approval
    command,    \* control bus: the decision command of each approval
    receipts,   \* control bus: the approvals whose command has a receipt
    marked,     \* status: the operator's stop is on record
    mem,        \* the approval objects of each process
    at,         \* consumer threads: [pc, gate, buf, todo, cmd]
    req,        \* resolve requests under way: [pc, gate, dec]
    told,       \* decisions a resolve request was told are accepted
    acted,      \* what the worker did at each gate
    calls,      \* requests so far, by kind
    crashes     \* crashes so far

vars == <<record, command, receipts, marked, mem, at, req, told, acted,
          calls, crashes>>

disk == <<record, command, receipts, marked>>
count == <<calls, crashes>>

Thread == [pc   : {"idle", "read", "store", "scan", "cread", "cstore", "apply",
                   "persist", "mark", "receipt", "check",
                   "nread", "nstore", "edit", "append", "exited"},
           gate : 0..MaxGates, buf : Approval, todo : SUBSET Gate,
           cmd  : 0..MaxGates]
Decision == [action : Action, key : {KeyOf[o] : o \in Operator}]
Request == [pc : {"idle", "scan", "append"}, gate : 0..MaxGates,
            dec : Decision \cup {NoCommand}]

Idle == [pc |-> "idle", gate |-> 0, buf |-> "none", todo |-> {}, cmd |-> 0]
NoRequest == [pc |-> "idle", gate |-> 0, dec |-> NoCommand]

\* Type correctness.
TypeOK ==
    /\ record \in [Gate -> Approval]
    /\ command \in [Gate -> Decision \cup {NoCommand}]
    /\ receipts \subseteq Gate
    /\ marked \in BOOLEAN
    /\ mem \in [Process -> [Gate -> Approval]]
    /\ at \in [Consumer -> Thread]
    /\ req \in [Operator -> Request]
    /\ told \in [Gate -> SUBSET Action]
    /\ acted \in [Gate -> Action \cup {"none"}]
    /\ calls \in [resolve : 0..MaxResolves, annotate : 0..MaxAnnotates]
    /\ crashes \in 0..MaxCrashes

Init ==
    /\ record = [g \in Gate |-> "none"]
    /\ command = [g \in Gate |-> NoCommand]
    /\ receipts = {}
    /\ marked = FALSE
    /\ mem = [p \in Process |-> [g \in Gate |-> "none"]]
    /\ at = [a \in Consumer |-> Idle]
    /\ req = [o \in Operator |-> NoRequest]
    /\ told = [g \in Gate |-> {}]
    /\ acted = [g \in Gate |-> "none"]
    /\ calls = [resolve |-> 0, annotate |-> 0]
    /\ crashes = 0

Alive == at[Worker].pc # "exited"

\* RunSupervisor.can_control: a stopping run and a run without a live worker
\* take no more requests.
CanControl == Alive /\ ~marked

Goto(a, pc) == at' = [at EXCEPT ![a].pc = pc]

(***************************************************************************)
(* get_approval and what it calls, one step per file access or lock.       *)
(***************************************************************************)

\* _refresh_approval_from_disk: read the latest line, then, under the lock,
\* replace the object in memory.  Another thread may run in between.
RefreshRead(a, g, from, to) ==
    /\ at[a].pc = from
    /\ at' = [at EXCEPT ![a].pc = to, ![a].buf = record[g]]
    /\ UNCHANGED <<disk, mem, req, told, acted, count>>

RefreshStore(a, g, from, to) ==
    /\ at[a].pc = from
    /\ mem' = IF at[a].buf = "none" THEN mem
              ELSE [mem EXCEPT ![Of(a)][g] = at[a].buf]
    /\ at' = [at EXCEPT ![a].pc = to, ![a].buf = "none"]
    /\ UNCHANGED <<disk, req, told, acted, count>>

\* The loop over the commands without a receipt: out of it, or on to another
\* one (the order of the bus is left open).
Loop(a, rest) ==
    \/ /\ rest = {}
       /\ at' = [at EXCEPT ![a].pc = "check", ![a].todo = {}, ![a].cmd = 0]
    \/ \E c \in rest :
         at' = [at EXCEPT ![a].pc = "cread", ![a].todo = rest, ![a].cmd = c]

Pending == {g \in Gate : command[g] # NoCommand} \ receipts

ScanBus(a) ==
    /\ at[a].pc = "scan"
    /\ Loop(a, Pending)
    /\ UNCHANGED <<disk, mem, req, told, acted, count>>

\* Under the lock: an approval that is already resolved is skipped, and its
\* command gets no receipt; a pending one takes the command's answer.
Apply(a) ==
    LET c == at[a].cmd IN
    /\ at[a].pc = "apply"
    /\ IF mem[Of(a)][c] = "pending"
       THEN /\ mem' = [mem EXCEPT ![Of(a)][c] = command[c].action]
            /\ at' = [at EXCEPT ![a].pc = "persist", ![a].buf = command[c].action]
       ELSE /\ Loop(a, at[a].todo \ {c})
            /\ UNCHANGED mem
    /\ UNCHANGED <<disk, req, told, acted, count>>

\* Mutant: the resolved approval stays in memory.
PersistForgotten(a) ==
    /\ at[a].pc = "persist"
    /\ at' = [at EXCEPT ![a].pc = IF at[a].buf = "stop" THEN "mark" ELSE "receipt",
                        ![a].buf = "none"]
    /\ UNCHANGED <<disk, mem, req, told, acted, count>>

\* _persist_approval appends the snapshot, which is now the latest line.
Persist(a) ==
    /\ at[a].pc = "persist"
    /\ record' = [record EXCEPT ![at[a].cmd] = at[a].buf]
    /\ at' = [at EXCEPT ![a].pc = IF at[a].buf = "stop" THEN "mark" ELSE "receipt",
                        ![a].buf = "none"]
    /\ UNCHANGED <<command, receipts, marked, mem, req, told, acted, count>>

\* mark_operator_stop.
Mark(a) ==
    /\ at[a].pc = "mark"
    /\ marked' = TRUE
    /\ Goto(a, "receipt")
    /\ UNCHANGED <<record, command, receipts, mem, req, told, acted, count>>

Receipt(a) ==
    /\ at[a].pc = "receipt"
    /\ receipts' = receipts \cup {at[a].cmd}
    /\ Loop(a, at[a].todo \ {at[a].cmd})
    /\ UNCHANGED <<record, command, marked, mem, req, told, acted, count>>

GetApproval(a) ==
    \/ RefreshRead(a, at[a].gate, "read", "store")
    \/ RefreshStore(a, at[a].gate, "store", "scan")
    \/ ScanBus(a)
    \/ RefreshRead(a, at[a].cmd, "cread", "cstore")
    \/ RefreshStore(a, at[a].cmd, "cstore", "apply")
    \/ Apply(a)
    \/ Persist(a)
    \/ Mark(a)
    \/ Receipt(a)

(***************************************************************************)
(* The worker.                                                             *)
(***************************************************************************)

\* create_approval: the next gate of the run, in memory and on disk.  The
\* rounds between two gates are the subject of ManagerLoop.
OpenGate ==
    LET g == at[Worker].gate + 1 IN
    /\ at[Worker].pc = "idle"
    /\ g <= MaxGates
    /\ mem' = [mem EXCEPT ![Of(Worker)][g] = "pending"]
    /\ record' = [record EXCEPT ![g] = "pending"]
    /\ at' = [at EXCEPT ![Worker] = [Idle EXCEPT !.pc = "read", !.gate = g]]
    /\ UNCHANGED <<command, receipts, marked, req, told, acted, count>>

\* Mutant: the poll looks at the object it has instead of asking again.
WorkerSeesCached ==
    LET g == at[Worker].gate
        m == mem[Of(Worker)][g] IN
    /\ at[Worker].pc = "check"
    /\ m \in Action
    /\ acted' = [acted EXCEPT ![g] = m]
    /\ Goto(Worker, IF m = "stop" THEN "exited" ELSE "idle")
    /\ UNCHANGED <<disk, mem, req, told, count>>

\* _wait_resolved: get_approval's answer, the object in memory, releases the
\* gate or sends the worker back to polling.
WorkerSees ==
    LET g == at[Worker].gate
        m == mem[Of(Worker)][g] IN
    /\ at[Worker].pc = "check"
    /\ IF m \in Action
       THEN /\ acted' = [acted EXCEPT ![g] = m]
            /\ Goto(Worker, IF m = "stop" THEN "exited" ELSE "idle")
       ELSE /\ Goto(Worker, "read")
            /\ UNCHANGED acted
    /\ UNCHANGED <<disk, mem, req, told, count>>

\* The worker dies and the run is resumed in place: the rounds are restored,
\* the gate is not.  It stays pending on disk and the new worker will raise
\* another one.  The new generation starts without the old stop request.
WorkerRestart ==
    /\ Alive
    /\ crashes < MaxCrashes
    /\ crashes' = crashes + 1
    /\ marked' = FALSE
    /\ mem' = [mem EXCEPT ![Of(Worker)] = [g \in Gate |-> "none"]]
    /\ at' = [a \in Consumer |->
                 IF a = Worker THEN [Idle EXCEPT !.gate = at[Worker].gate]
                 ELSE IF Embedded THEN Idle ELSE at[a]]
    /\ req' = IF Embedded THEN [o \in Operator |-> NoRequest] ELSE req
    /\ UNCHANGED <<record, command, receipts, told, acted, calls>>

(***************************************************************************)
(* The API.                                                                *)
(***************************************************************************)

\* POST .../annotate on gate g.
Annotate(a, g) ==
    /\ at[a].pc = "idle"
    /\ CanControl
    /\ calls.annotate < MaxAnnotates
    /\ calls' = [calls EXCEPT !.annotate = @ + 1]
    /\ at' = [at EXCEPT ![a] = [Idle EXCEPT !.pc = "read", !.gate = g]]
    /\ UNCHANGED <<disk, mem, req, told, acted, crashes>>

\* An unknown approval is a 404 and a resolved one a 409; a pending one is
\* annotated.
AnnotateCheck(a) ==
    /\ at[a].pc = "check"
    /\ at' = IF mem["api"][at[a].gate] = "pending"
             THEN [at EXCEPT ![a].pc = "nread"]
             ELSE [at EXCEPT ![a] = Idle]
    /\ UNCHANGED <<disk, mem, req, told, acted, count>>

\* annotate_gate: after its own refresh it labels the object and takes the
\* snapshot it will append.
AnnotateEdit(a) ==
    /\ at[a].pc = "edit"
    /\ at' = [at EXCEPT ![a].pc = "append", ![a].buf = mem["api"][at[a].gate]]
    /\ UNCHANGED <<disk, mem, req, told, acted, count>>

AnnotateAppend(a) ==
    /\ at[a].pc = "append"
    /\ record' = [record EXCEPT ![at[a].gate] = at[a].buf]
    /\ at' = [at EXCEPT ![a] = Idle]
    /\ UNCHANGED <<command, receipts, marked, mem, req, told, acted, count>>

AnnotatorStep(a) ==
    \/ GetApproval(a)
    \/ AnnotateCheck(a)
    \/ RefreshRead(a, at[a].gate, "nread", "nstore")
    \/ RefreshStore(a, at[a].gate, "nstore", "edit")
    \/ AnnotateEdit(a)
    \/ AnnotateAppend(a)

\* POST .../resolve, up to the check that the approval is known and not
\* resolved (else 409, and nothing is left of the request).
Resolve(o, g, x) ==
    LET d == [action |-> x, key |-> KeyOf[o]] IN
    /\ req[o].pc = "idle"
    /\ CanControl
    /\ calls.resolve < MaxResolves
    /\ calls' = [calls EXCEPT !.resolve = @ + 1]
    /\ mem' = IF record[g] = "none" THEN mem
              ELSE [mem EXCEPT !["api"][g] = record[g]]
    /\ req' = IF mem'["api"][g] = "pending"
              THEN [req EXCEPT ![o] = [pc |-> "scan", gate |-> g, dec |-> d]]
              ELSE req
    /\ UNCHANGED <<disk, at, told, acted, crashes>>

\* The answer to a request whose approval has command c already: an exact
\* retry is accepted.
Agrees(c, d) ==
    /\ c.action = d.action
    /\ c.key = "" \/ d.key = "" \/ c.key = d.key

Answer(o, ok) ==
    /\ told' = IF ok THEN [told EXCEPT ![req[o].gate] = @ \cup {req[o].dec.action}]
               ELSE told
    /\ req' = [req EXCEPT ![o] = NoRequest]

\* The first look at the bus, without its lock.
ResolveScan(o) ==
    LET g == req[o].gate IN
    /\ req[o].pc = "scan"
    /\ IF command[g] = NoCommand
       THEN req' = [req EXCEPT ![o].pc = "append"] /\ UNCHANGED told
       ELSE Answer(o, Agrees(command[g], req[o].dec))
    /\ UNCHANGED <<disk, mem, at, acted, count>>

\* Mutant: the bus does not look for the command id under its lock.
ResolveAppendBlind(o) ==
    /\ req[o].pc = "append"
    /\ command' = [command EXCEPT ![req[o].gate] = req[o].dec]
    /\ Answer(o, TRUE)
    /\ UNCHANGED <<record, receipts, marked, mem, at, acted, count>>

\* ControlBus.append under the bus lock.  The command id is made from the
\* approval id, so a second command of the gate is never written: the same
\* payload and key replay it, anything else is a CommandConflict.
ResolveAppend(o) ==
    LET g == req[o].gate IN
    /\ req[o].pc = "append"
    /\ IF command[g] = NoCommand
       THEN /\ command' = [command EXCEPT ![g] = req[o].dec]
            /\ Answer(o, TRUE)
       ELSE /\ Answer(o, command[g] = req[o].dec)
            /\ UNCHANGED command
    /\ UNCHANGED <<record, receipts, marked, mem, at, acted, count>>

\* The API process dies: its requests and its memory are gone.
ApiRestart ==
    /\ ~Embedded
    /\ crashes < MaxCrashes
    /\ crashes' = crashes + 1
    /\ mem' = [mem EXCEPT !["api"] = [g \in Gate |-> "none"]]
    /\ at' = [a \in Consumer |-> IF a = Worker THEN at[a] ELSE Idle]
    /\ req' = [o \in Operator |-> NoRequest]
    /\ UNCHANGED <<disk, told, acted, calls>>

WorkerStep == GetApproval(Worker) \/ WorkerSees

Next ==
    \/ OpenGate
    \/ WorkerStep
    \/ WorkerRestart
    \/ \E a \in Annotator : AnnotatorStep(a) \/ \E g \in Gate : Annotate(a, g)
    \/ \E o \in Operator : \/ \E g \in Gate, x \in Action : Resolve(o, g, x)
                           \/ ResolveScan(o)
                           \/ ResolveAppend(o)
    \/ ApiRestart

Spec == Init /\ [][Next]_vars

\* The worker's poll is a loop of its own event loop, a request that was
\* accepted runs to its end.  Nobody is forced to send a request.
FairSpec ==
    /\ Spec
    /\ WF_vars(OpenGate \/ WorkerStep)
    /\ \A a \in Annotator : WF_vars(AnnotatorStep(a))
    /\ \A o \in Operator : WF_vars(ResolveScan(o) \/ ResolveAppend(o))

-----------------------------------------------------------------------------
\* The one-shot decision register of GateDecision.
Register == INSTANCE GateDecision
                WITH decision <- [g \in Gate |-> command[g].action]

\* Every gate is a write-once register: approvals.jsonl, the bus, the two
\* processes' memories and their crashes together look like one decision per
\* gate, told alike to everybody and acted on at most once (state.py:1005).
OneDecision == Register!Spec

\* A decision with a receipt has reached the worker or is on disk for it: as
\* long as the worker waits at the gate, nobody has put a pending record over
\* the decision (receipt of state.py:1216 against the append of 1277).
ReceiptReachesWorker ==
    \A g \in receipts :
        at[Worker].gate = g /\ at[Worker].pc \notin {"idle", "exited"} =>
            record[g] \in Action \/ mem[Of(Worker)][g] \in Action

\* An accepted decision releases the worker's wait (gate.py:116), unless the
\* worker dies first.
Waits(g) == at[Worker].gate = g /\ at[Worker].pc \notin {"idle", "exited"}
Released == \A g \in Gate : Waits(g) /\ told[g] # {} ~> ~Waits(g)
=============================================================================
