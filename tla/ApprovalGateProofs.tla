------------------------- MODULE ApprovalGateProofs -------------------------
(***************************************************************************)
(* Proofs about ApprovalGate, for any sets of threads and option values,   *)
(* any number of gates, requests and crashes, and wherever the dashboard   *)
(* runs: types, and that the gate implements the write-once register of    *)
(* GateDecision.  Then that decisions arrive, with one annotator at a time. *)
(***************************************************************************)
EXTENDS ApprovalGate, TLAPS

(***************************************************************************)
(* The inductive invariant.  A decision may be seen in the approval log, in *)
(* either memory and in the hands of a thread; wherever it is seen, it is  *)
(* the one of the command on the bus.                                      *)
(***************************************************************************)
Backed(x, g) == x \in Action => x = command[g].action

\* A thread at work has a gate, one that applies a command has the gate of
\* that command, and what it has read is backed.
Fit(t) ==
    /\ t.pc \notin {"idle", "exited"} => t.gate \in Gate
    /\ t.pc \in {"cread", "cstore", "apply", "persist", "mark", "receipt"} => t.cmd \in Gate
    /\ t.pc \in {"cstore", "persist"} => Backed(t.buf, t.cmd)
    /\ t.pc \in {"store", "nstore", "append"} => Backed(t.buf, t.gate)

Threads == \A a \in Consumer : Fit(at[a])

Requests ==
    \A o \in Operator : req[o].pc # "idle" => req[o].gate \in Gate /\ req[o].dec \in Decision

Seen == \A g \in Gate : /\ Backed(record[g], g)
                        /\ \A p \in Process : Backed(mem[p][g], g)

\* The worker has acted on no gate beyond its own, and not on the one where
\* it waits.
Ahead ==
    \A g \in Gate :
        \/ g > at[Worker].gate
        \/ g = at[Worker].gate /\ at[Worker].pc \notin {"idle", "exited"}
        => acted[g] = "none"

Counted ==
    /\ calls \in [resolve : 0..MaxResolves, annotate : 0..MaxAnnotates]
    /\ crashes \in 0..MaxCrashes

Inv == TypeOK /\ Threads /\ Requests /\ Seen /\ Ahead

-----------------------------------------------------------------------------
(* What a step of one thread has to keep.                                  *)

\* The shape of the state a step of thread a starts from.
LEMMA Shapes ==
  ASSUME TypeOK, NEW a \in Consumer
  PROVE  /\ at \in [Consumer -> Thread] /\ at[a] \in Thread
         /\ Worker \in Consumer /\ 0 \in 0..MaxGates
         /\ Gate \subseteq 0..MaxGates /\ Of(a) \in Process
         /\ "none" \in Approval /\ "pending" \in Approval /\ Action \subseteq Approval
  BY BoundAssumption DEF TypeOK, Consumer, Gate, Of, Process, Approval

\* A value that no command backs is no decision: a first command backs it.
LEMMA StillBacked ==
  ASSUME NEW g \in Gate, NEW x, Backed(x, g),
         command[g] = NoCommand \/ command'[g] = command[g]
  PROVE  x \in Action => x = command'[g].action
  <1>1. CASE command[g] = NoCommand
    <2>1. NoCommand.action = "none"
      BY DEF NoCommand
    <2>2. x \notin Action
      BY <1>1, <2>1, ActionAssumption DEF Backed
    <2> QED BY <2>2
  <1>2. CASE command'[g] = command[g]
    BY <1>2 DEF Backed
  <1> QED BY <1>1, <1>2

\* A thread at work goes on to a fitting state, what it writes is backed.
LEMMA ThreadStep ==
  ASSUME Inv, NEW a \in Consumer, NEW t \in Thread,
         at' = [at EXCEPT ![a] = t], Fit(t),
         a = Worker => t.gate = at[a].gate /\ at[a].pc \notin {"idle", "exited"},
         UNCHANGED <<command, req, told, acted>>, Counted',
         record' \in [Gate -> Approval], mem' \in [Process -> [Gate -> Approval]],
         receipts' \subseteq Gate, marked' \in BOOLEAN, Seen'
  PROVE  Inv'
  <1>1. at \in [Consumer -> Thread] /\ Worker \in Consumer
    BY Shapes DEF Inv
  <1>2. at' \in [Consumer -> Thread]
    BY <1>1
  <1>3. TypeOK'
    BY <1>2 DEF Inv, TypeOK, Counted
  <1>4. Threads'
    <2> SUFFICES ASSUME NEW b \in Consumer PROVE Fit(at[b])'
      BY DEF Threads
    <2>1. at'[b] = IF b = a THEN t ELSE at[b]
      BY <1>1
    <2>2. Fit(at[b])
      BY DEF Inv, Threads
    <2> QED BY <2>1, <2>2 DEF Fit, Backed
  <1>5. Requests'
    BY DEF Inv, Requests
  <1>6. Ahead'
    <2>1. at'[Worker] = IF Worker = a THEN t ELSE at[Worker]
      BY <1>1
    <2>2. CASE a = Worker
      BY <2>1, <2>2 DEF Inv, Ahead
    <2>3. CASE a # Worker
      BY <2>1, <2>3 DEF Inv, Ahead
    <2> QED BY <2>2, <2>3
  <1> QED BY <1>3, <1>4, <1>5, <1>6 DEF Inv

\* A step that writes neither the log nor a memory.
LEMMA QuietStep ==
  ASSUME Inv, NEW a \in Consumer, NEW t \in Thread,
         at' = [at EXCEPT ![a] = t], Fit(t),
         a = Worker => t.gate = at[a].gate /\ at[a].pc \notin {"idle", "exited"},
         UNCHANGED <<record, command, mem, req, told, acted, count>>,
         receipts' \subseteq Gate, marked' \in BOOLEAN
  PROVE  Inv'
  <1>1. Seen'
    BY DEF Inv, Seen, Backed
  <1>2. /\ record' \in [Gate -> Approval] /\ Counted'
        /\ mem' \in [Process -> [Gate -> Approval]]
    BY DEF Inv, TypeOK, Counted, count
  <1> QED BY <1>1, <1>2, ThreadStep

\* A step that appends a backed line to the log.
LEMMA LogStep ==
  ASSUME Inv, NEW a \in Consumer, NEW t \in Thread,
         at' = [at EXCEPT ![a] = t], Fit(t),
         a = Worker => t.gate = at[a].gate /\ at[a].pc \notin {"idle", "exited"},
         UNCHANGED <<command, receipts, marked, mem, req, told, acted, count>>,
         NEW g \in Gate, NEW x \in Approval, Backed(x, g),
         record' = [record EXCEPT ![g] = x]
  PROVE  Inv'
  <1>1. record \in [Gate -> Approval]
    BY DEF Inv, TypeOK
  <1>2. record' \in [Gate -> Approval]
    BY <1>1
  <1>3. Seen'
    BY <1>1 DEF Inv, Seen, Backed
  <1>4. /\ mem' \in [Process -> [Gate -> Approval]] /\ Counted'
        /\ receipts' \subseteq Gate /\ marked' \in BOOLEAN
    BY DEF Inv, TypeOK, Counted, count
  <1> QED BY <1>2, <1>3, <1>4, ThreadStep

\* A memory that takes a backed value is as backed as it was.
LEMMA Remembers ==
  ASSUME Inv, NEW p \in Process, NEW g \in Gate, NEW x \in Approval, Backed(x, g),
         UNCHANGED <<command, record>>,
         mem' = [mem EXCEPT ![p][g] = x] \/ mem' = mem
  PROVE  mem' \in [Process -> [Gate -> Approval]] /\ Seen'
  <1>1. mem \in [Process -> [Gate -> Approval]]
    BY DEF Inv, TypeOK
  <1>2. CASE mem' = mem
    BY <1>1, <1>2 DEF Inv, Seen, Backed
  <1>3. CASE mem' = [mem EXCEPT ![p][g] = x]
    <2>1. mem' \in [Process -> [Gate -> Approval]]
      BY <1>1, <1>3
    <2>2. ASSUME NEW q \in Process, NEW h \in Gate
          PROVE  mem'[q][h] = IF q = p /\ h = g THEN x ELSE mem[q][h]
      BY <1>1, <1>3
    <2>3. ASSUME NEW q \in Process, NEW h \in Gate
          PROVE  Backed(mem[q][h], h)'
      BY <2>2 DEF Inv, Seen, Backed
    <2>4. ASSUME NEW h \in Gate PROVE Backed(record[h], h)'
      BY DEF Inv, Seen, Backed
    <2> QED BY <2>1, <2>3, <2>4 DEF Seen
  <1> QED BY <1>2, <1>3

\* A step that takes a backed value into the memory of its process.
LEMMA MemoryStep ==
  ASSUME Inv, NEW a \in Consumer, NEW t \in Thread,
         at' = [at EXCEPT ![a] = t], Fit(t),
         a = Worker => t.gate = at[a].gate /\ at[a].pc \notin {"idle", "exited"},
         UNCHANGED <<disk, req, told, acted, count>>,
         NEW g \in Gate, NEW x \in Approval, Backed(x, g),
         mem' = [mem EXCEPT ![Of(a)][g] = x] \/ mem' = mem
  PROVE  Inv'
  <1>1. Of(a) \in Process
    BY DEF Of, Process
  <1>2. UNCHANGED <<command, record>>
    BY DEF disk
  <1>3. mem' \in [Process -> [Gate -> Approval]] /\ Seen'
    BY <1>1, <1>2, Remembers
  <1>4. /\ record' \in [Gate -> Approval] /\ Counted'
        /\ receipts' \subseteq Gate /\ marked' \in BOOLEAN
    BY DEF Inv, TypeOK, disk, Counted, count
  <1>5. UNCHANGED <<command, req, told, acted>>
    BY DEF disk
  <1> QED BY <1>3, <1>4, <1>5, ThreadStep

\* Leaving the loop over the commands, or going on in it.
LEMMA LoopMoves ==
  ASSUME TypeOK, NEW a \in Consumer, NEW rest \in SUBSET Gate, Fit(at[a]),
         at[a].pc \notin {"idle", "exited"}, Loop(a, rest)
  PROVE  \E t \in Thread :
            at' = [at EXCEPT ![a] = t] /\ Fit(t) /\ t.gate = at[a].gate
  <1>1. /\ at[a] \in Thread /\ at \in [Consumer -> Thread] /\ at[a].gate \in Gate
        /\ 0 \in 0..MaxGates /\ Gate \subseteq 0..MaxGates
    BY Shapes DEF Fit
  <1>2. CASE at' = [at EXCEPT ![a].pc = "check", ![a].todo = {}, ![a].cmd = 0]
    <2> DEFINE t == [at[a] EXCEPT !.pc = "check", !.todo = {}, !.cmd = 0]
    <2>1. t \in Thread /\ t.gate = at[a].gate /\ t.pc = "check"
      BY <1>1 DEF Thread
    <2>2. Fit(t)
      BY <1>1, <2>1 DEF Fit
    <2>3. at' = [at EXCEPT ![a] = t]
      BY <1>1, <1>2 DEF Thread
    <2> QED BY <2>1, <2>2, <2>3
  <1>3. ASSUME NEW c \in rest,
               at' = [at EXCEPT ![a].pc = "cread", ![a].todo = rest, ![a].cmd = c]
        PROVE  \E t \in Thread :
                  at' = [at EXCEPT ![a] = t] /\ Fit(t) /\ t.gate = at[a].gate
    <2> DEFINE t == [at[a] EXCEPT !.pc = "cread", !.todo = rest, !.cmd = c]
    <2>0. c \in Gate /\ c \in 0..MaxGates
      BY <1>1
    <2>1. t \in Thread /\ t.gate = at[a].gate /\ t.pc = "cread" /\ t.cmd = c
      BY <1>1, <2>0 DEF Thread
    <2>2. Fit(t)
      BY <1>1, <2>0, <2>1 DEF Fit
    <2>3. at' = [at EXCEPT ![a] = t]
      BY <1>1, <1>3 DEF Thread
    <2> QED BY <2>1, <2>2, <2>3
  <1> QED BY <1>2, <1>3 DEF Loop

-----------------------------------------------------------------------------
(* get_approval.                                                           *)

\* Reading the latest line of an approval.
LEMMA ReadStep ==
  ASSUME Inv, NEW a \in Consumer, NEW g, NEW from, NEW to, RefreshRead(a, g, from, to),
         \/ from = "read" /\ to = "store" /\ g = at[a].gate
         \/ from = "nread" /\ to = "nstore" /\ g = at[a].gate
         \/ from = "cread" /\ to = "cstore" /\ g = at[a].cmd
  PROVE  Inv'
  <1>1. /\ at \in [Consumer -> Thread] /\ at[a] \in Thread
        /\ at[a].pc = from /\ Fit(at[a]) /\ g \in Gate
    BY Shapes DEF Inv, Threads, Fit, RefreshRead
  <1>2. record[g] \in Approval /\ Backed(record[g], g)
    BY <1>1 DEF Inv, TypeOK, Seen
  <1> DEFINE t == [at[a] EXCEPT !.pc = to, !.buf = record[g]]
  <1>3. t \in Thread /\ t.gate = at[a].gate /\ t.pc = to /\ t.buf = record[g] /\ t.cmd = at[a].cmd
    BY <1>1, <1>2 DEF Thread
  <1>4. Fit(t)
    BY <1>1, <1>2, <1>3 DEF Fit
  <1>5. at' = [at EXCEPT ![a] = t]
    BY <1>1 DEF RefreshRead, Thread
  <1>6. /\ UNCHANGED <<record, command, mem, req, told, acted, count>>
        /\ receipts' \subseteq Gate /\ marked' \in BOOLEAN
    BY DEF RefreshRead, disk, Inv, TypeOK
  <1>7. at[a].pc \notin {"idle", "exited"}
    BY <1>1
  <1> HIDE DEF t
  <1> QED BY <1>3, <1>4, <1>5, <1>6, <1>7, QuietStep

\* Replacing the object in memory by what was read.
LEMMA StoreStep ==
  ASSUME Inv, NEW a \in Consumer, NEW g, NEW from, NEW to, RefreshStore(a, g, from, to),
         \/ from = "store" /\ to = "scan" /\ g = at[a].gate
         \/ from = "nstore" /\ to = "edit" /\ g = at[a].gate
         \/ from = "cstore" /\ to = "apply" /\ g = at[a].cmd
  PROVE  Inv'
  <1>1. /\ at \in [Consumer -> Thread] /\ at[a] \in Thread
        /\ at[a].pc = from /\ Fit(at[a]) /\ g \in Gate
    BY Shapes DEF Inv, Threads, Fit, RefreshStore
  <1>2. at[a].buf \in Approval /\ Backed(at[a].buf, g)
    BY <1>1 DEF Thread, Fit
  <1> DEFINE t == [at[a] EXCEPT !.pc = to, !.buf = "none"]
  <1>3. t \in Thread /\ t.gate = at[a].gate /\ t.pc = to /\ t.cmd = at[a].cmd
    BY <1>1 DEF Thread, Approval
  <1>4. Fit(t)
    BY <1>1, <1>3 DEF Fit
  <1>5. at' = [at EXCEPT ![a] = t]
    BY <1>1 DEF RefreshStore, Thread
  <1>6. /\ UNCHANGED <<disk, req, told, acted, count>>
        /\ mem' = [mem EXCEPT ![Of(a)][g] = at[a].buf] \/ mem' = mem
    BY DEF RefreshStore
  <1>7. at[a].pc \notin {"idle", "exited"}
    BY <1>1
  <1> HIDE DEF t
  <1> QED BY <1>1, <1>2, <1>3, <1>4, <1>5, <1>6, <1>7, MemoryStep

\* A step that only goes on in the loop over the commands.
LEMMA LoopStep ==
  ASSUME Inv, NEW a \in Consumer, NEW rest \in SUBSET Gate, Loop(a, rest),
         at[a].pc \notin {"idle", "exited"},
         UNCHANGED <<record, command, mem, req, told, acted, count>>,
         receipts' \subseteq Gate, marked' \in BOOLEAN
  PROVE  Inv'
  <1>1. TypeOK /\ Fit(at[a])
    BY DEF Inv, Threads
  <1>2. PICK t \in Thread : at' = [at EXCEPT ![a] = t] /\ Fit(t) /\ t.gate = at[a].gate
    BY <1>1, LoopMoves
  <1> QED BY <1>2, QuietStep

\* Every step of get_approval keeps the invariant.
LEMMA GetApprovalInv ==
  ASSUME Inv, NEW a \in Consumer, GetApproval(a)
  PROVE  Inv'
  <1>1. /\ at \in [Consumer -> Thread] /\ at[a] \in Thread /\ Fit(at[a])
        /\ 0 \in 0..MaxGates /\ Of(a) \in Process /\ "none" \in Approval
    BY Shapes DEF Inv, Threads
  <1>2. CASE RefreshRead(a, at[a].gate, "read", "store")
    BY <1>2, ReadStep
  <1>3. CASE RefreshStore(a, at[a].gate, "store", "scan")
    BY <1>3, StoreStep
  <1>4. CASE ScanBus(a)
    <2>1. Loop(a, Pending) /\ Pending \in SUBSET Gate /\ at[a].pc = "scan"
      BY <1>4 DEF ScanBus, Pending
    <2>2. /\ UNCHANGED <<record, command, mem, req, told, acted, count>>
          /\ receipts' \subseteq Gate /\ marked' \in BOOLEAN
      BY <1>4 DEF ScanBus, disk, Inv, TypeOK
    <2>3. at[a].pc \notin {"idle", "exited"}
      BY <2>1
    <2> QED BY <2>1, <2>2, <2>3, LoopStep
  <1>5. CASE RefreshRead(a, at[a].cmd, "cread", "cstore")
    BY <1>5, ReadStep
  <1>6. CASE RefreshStore(a, at[a].cmd, "cstore", "apply")
    BY <1>6, StoreStep
  <1>7. CASE Apply(a)
    <2> DEFINE c == at[a].cmd
               x == command[c].action
    <2>1. at[a].pc = "apply" /\ c \in Gate /\ at[a].gate \in Gate
      BY <1>1, <1>7 DEF Apply, Fit
    <2>0. command[c] \in Decision \cup {NoCommand}
      BY <2>1 DEF Inv, TypeOK
    <2>2. x \in Approval /\ Backed(x, c)
      <3>1. CASE command[c] \in Decision
        BY <3>1 DEF Decision, Approval, Backed
      <3>2. CASE command[c] = NoCommand
        <4>1. NoCommand.action = "none"
          BY DEF NoCommand
        <4> QED BY <3>2, <4>1 DEF Approval, Backed
      <3> QED BY <2>0, <3>1, <3>2
    <2>3. /\ UNCHANGED <<disk, req, told, acted, count>>
          /\ UNCHANGED <<record, command, req, told, acted, count>>
          /\ receipts' \subseteq Gate /\ marked' \in BOOLEAN
      BY <1>7 DEF Apply, disk, Inv, TypeOK
    <2>4. CASE mem[Of(a)][c] = "pending"
      <3> DEFINE t == [at[a] EXCEPT !.pc = "persist", !.buf = x]
      <3>1. /\ mem' = [mem EXCEPT ![Of(a)][c] = x]
            /\ at' = [at EXCEPT ![a].pc = "persist", ![a].buf = x]
        BY <1>7, <2>4 DEF Apply
      <3>2. /\ t \in Thread /\ t.gate = at[a].gate /\ t.pc = "persist"
            /\ t.buf = x /\ t.cmd = c
        BY <1>1, <2>2 DEF Thread
      <3>3. at' = [at EXCEPT ![a] = t]
        BY <1>1, <3>1 DEF Thread
      <3>4. Fit(t)
        BY <2>1, <2>2, <3>2 DEF Fit
      <3>5. at[a].pc \notin {"idle", "exited"}
        BY <2>1
      <3> HIDE DEF t, x, c
      <3> QED BY <2>1, <2>2, <2>3, <3>1, <3>2, <3>3, <3>4, <3>5, MemoryStep
    <2>5. CASE mem[Of(a)][c] # "pending"
      <3>1. Loop(a, at[a].todo \ {c}) /\ mem' = mem
        BY <1>7, <2>5 DEF Apply
      <3>2. at[a].todo \ {c} \in SUBSET Gate
        BY <1>1 DEF Thread
      <3>3. at[a].pc \notin {"idle", "exited"}
        BY <2>1
      <3> QED BY <2>3, <3>1, <3>2, <3>3, LoopStep
    <2> QED BY <2>4, <2>5
  <1>8. CASE Persist(a)
    <2> DEFINE c == at[a].cmd
               x == at[a].buf
               to == IF x = "stop" THEN "mark" ELSE "receipt"
               t == [at[a] EXCEPT !.pc = to, !.buf = "none"]
    <2>1. at[a].pc = "persist" /\ c \in Gate /\ at[a].gate \in Gate /\ Backed(x, c)
      BY <1>1, <1>8 DEF Persist, Fit
    <2>2. x \in Approval
      BY <1>1 DEF Thread
    <2>3. /\ t \in Thread /\ t.gate = at[a].gate /\ t.pc \in {"mark", "receipt"}
          /\ t.buf = "none" /\ t.cmd = c
      BY <1>1 DEF Thread
    <2>4. at' = [at EXCEPT ![a] = t]
      BY <1>1, <1>8 DEF Persist, Thread
    <2>5. Fit(t)
      BY <2>1, <2>3 DEF Fit
    <2>6. /\ UNCHANGED <<command, receipts, marked, mem, req, told, acted, count>>
          /\ record' = [record EXCEPT ![c] = x]
      BY <1>8 DEF Persist
    <2>7. at[a].pc \notin {"idle", "exited"}
      BY <2>1
    <2> HIDE DEF t, x, c, to
    <2> QED BY <2>1, <2>2, <2>3, <2>4, <2>5, <2>6, <2>7, LogStep
  <1>9. CASE Mark(a)
    <2> DEFINE t == [at[a] EXCEPT !.pc = "receipt"]
    <2>1. at[a].pc = "mark" /\ at[a].cmd \in Gate /\ at[a].gate \in Gate
      BY <1>1, <1>9 DEF Mark, Fit
    <2>2. /\ t \in Thread /\ t.gate = at[a].gate /\ t.pc = "receipt" /\ t.cmd = at[a].cmd
      BY <1>1 DEF Thread
    <2>3. at' = [at EXCEPT ![a] = t]
      BY <1>1, <1>9 DEF Mark, Goto, Thread
    <2>4. Fit(t)
      BY <2>1, <2>2 DEF Fit
    <2>5. /\ UNCHANGED <<record, command, mem, req, told, acted, count>>
          /\ receipts' \subseteq Gate /\ marked' \in BOOLEAN
      BY <1>9 DEF Mark, Inv, TypeOK
    <2>6. at[a].pc \notin {"idle", "exited"}
      BY <2>1
    <2> HIDE DEF t
    <2> QED BY <2>2, <2>3, <2>4, <2>5, <2>6, QuietStep
  <1>10. CASE Receipt(a)
    <2>1. at[a].pc = "receipt" /\ at[a].cmd \in Gate
      BY <1>1, <1>10 DEF Receipt, Fit
    <2>2. /\ Loop(a, at[a].todo \ {at[a].cmd})
          /\ UNCHANGED <<record, command, mem, req, told, acted, count>>
          /\ receipts' \subseteq Gate /\ marked' \in BOOLEAN
      BY <1>10, <2>1 DEF Receipt, Inv, TypeOK
    <2>3. at[a].todo \ {at[a].cmd} \in SUBSET Gate /\ at[a].pc \notin {"idle", "exited"}
      BY <1>1, <2>1 DEF Thread
    <2> QED BY <2>2, <2>3, LoopStep
  <1> QED BY <1>2, <1>3, <1>4, <1>5, <1>6, <1>7, <1>8, <1>9, <1>10 DEF GetApproval

-----------------------------------------------------------------------------
(* The worker.                                                             *)

\* Raising the next gate: it is pending everywhere and not acted on.
LEMMA OpenGateInv ==
  ASSUME Inv, OpenGate PROVE Inv'
  <1> DEFINE g == at[Worker].gate + 1
             t == [Idle EXCEPT !.pc = "read", !.gate = g]
  <1>1. /\ at \in [Consumer -> Thread] /\ at[Worker] \in Thread /\ Worker \in Consumer
        /\ 0 \in 0..MaxGates /\ Of(Worker) \in Process /\ MaxGates \in Nat
        /\ "none" \in Approval /\ "pending" \in Approval
    BY Shapes, BoundAssumption DEF Inv, Consumer
  <1>2. at[Worker].gate \in 0..MaxGates /\ at[Worker].pc = "idle" /\ g \in Gate /\ g \in 0..MaxGates
    BY <1>1 DEF OpenGate, Thread, Gate
  <1>3. /\ mem' = [mem EXCEPT ![Of(Worker)][g] = "pending"]
        /\ record' = [record EXCEPT ![g] = "pending"]
        /\ at' = [at EXCEPT ![Worker] = t]
        /\ UNCHANGED <<command, receipts, marked, req, told, acted, calls, crashes>>
    BY DEF OpenGate, count
  <1>4. /\ t \in Thread /\ t.gate = g /\ t.pc = "read"
    BY <1>1, <1>2 DEF Thread, Idle
  <1>5. Fit(t)
    BY <1>2, <1>4 DEF Fit
  <1>6. record \in [Gate -> Approval] /\ mem \in [Process -> [Gate -> Approval]]
    BY DEF Inv, TypeOK
  <1> HIDE DEF t
  <1>7. TypeOK'
    <2>1. record' \in [Gate -> Approval] /\ mem' \in [Process -> [Gate -> Approval]]
      BY <1>1, <1>2, <1>3, <1>6
    <2>2. at' \in [Consumer -> Thread]
      BY <1>1, <1>3, <1>4
    <2> QED BY <1>3, <2>1, <2>2 DEF Inv, TypeOK
  <1>8. Threads'
    <2> SUFFICES ASSUME NEW b \in Consumer PROVE Fit(at[b])'
      BY DEF Threads
    <2>1. at'[b] = IF b = Worker THEN t ELSE at[b]
      BY <1>1, <1>3
    <2>2. Fit(at[b])
      BY DEF Inv, Threads
    <2> QED BY <1>3, <1>5, <2>1, <2>2 DEF Fit, Backed
  <1>9. Requests'
    BY <1>3 DEF Inv, Requests
  <1>10. Seen'
    <2> SUFFICES ASSUME NEW h \in Gate, NEW p \in Process
                 PROVE  Backed(record[h], h)' /\ Backed(mem[p][h], h)'
      BY <1>1 DEF Seen
    <2>1. record'[h] = IF h = g THEN "pending" ELSE record[h]
      BY <1>2, <1>3, <1>6
    <2>2. mem'[p][h] = IF p = Of(Worker) /\ h = g THEN "pending" ELSE mem[p][h]
      BY <1>1, <1>2, <1>3, <1>6
    <2> HIDE DEF g
    <2> QED BY <1>3, <2>1, <2>2, ActionAssumption DEF Inv, Seen, Backed
  <1>11. Ahead'
    <2>1. at'[Worker] = t
      BY <1>1, <1>3
    <2> QED BY <1>2, <1>3, <1>4, <2>1 DEF Inv, Ahead, Gate
  <1> QED BY <1>7, <1>8, <1>9, <1>10, <1>11 DEF Inv

\* The worker takes the answer it waited for, or polls again.
LEMMA WorkerSeesInv ==
  ASSUME Inv, WorkerSees PROVE Inv'
  <1> DEFINE g == at[Worker].gate
             m == mem[Of(Worker)][g]
  <1>1. /\ at \in [Consumer -> Thread] /\ at[Worker] \in Thread /\ Worker \in Consumer
        /\ Fit(at[Worker]) /\ at[Worker].pc = "check" /\ g \in Gate /\ g \in 0..MaxGates
    <2>1. Worker \in Consumer
      BY DEF Consumer
    <2> QED BY <2>1, Shapes DEF Inv, Threads, Fit, WorkerSees
  <1>2. /\ UNCHANGED <<disk, mem, req, told, count>>
        /\ UNCHANGED <<record, command, mem, req, told, count>>
        /\ receipts' \subseteq Gate /\ marked' \in BOOLEAN
    BY DEF WorkerSees, disk, Inv, TypeOK
  <1>3. CASE m \in Action
    <2> DEFINE t == [at[Worker] EXCEPT !.pc = IF m = "stop" THEN "exited" ELSE "idle"]
    <2>1. acted' = [acted EXCEPT ![g] = m]
      BY <1>3 DEF WorkerSees
    <2>2. t \in Thread /\ t.gate = g /\ t.pc \in {"idle", "exited"}
      BY <1>1 DEF Thread
    <2>3. at' = [at EXCEPT ![Worker] = t]
      BY <1>1, <1>3 DEF WorkerSees, Goto, Thread
    <2> HIDE DEF t, m
    <2>4. at' \in [Consumer -> Thread]
      BY <1>1, <2>2, <2>3
    <2>5. acted' \in [Gate -> Action \cup {"none"}]
      BY <1>1, <1>3, <2>1 DEF Inv, TypeOK
    <2>6. TypeOK'
      BY <1>2, <2>4, <2>5 DEF Inv, TypeOK, disk, count
    <2>7. Threads'
      <3> SUFFICES ASSUME NEW b \in Consumer PROVE Fit(at[b])'
        BY DEF Threads
      <3>1. at'[b] = IF b = Worker THEN t ELSE at[b]
        BY <1>1, <2>3
      <3>2. Fit(at[b])
        BY DEF Inv, Threads
      <3> QED BY <1>2, <2>2, <3>1, <3>2 DEF Fit, Backed
    <2>8. Requests' /\ Seen'
      BY <1>2 DEF Inv, Requests, Seen, Backed
    <2>9. Ahead'
      <3>1. at'[Worker] = t
        BY <1>1, <2>3
      <3>2. \A h \in Gate : h > g => h # g
        BY <1>1 DEF Gate
      <3>3. \A h \in Gate : h # g => acted'[h] = acted[h]
        BY <1>1, <2>1 DEF Inv, TypeOK
      <3> QED BY <2>2, <3>1, <3>2, <3>3 DEF Inv, Ahead
    <2> QED BY <2>6, <2>7, <2>8, <2>9 DEF Inv
  <1>4. CASE m \notin Action
    <2> DEFINE t == [at[Worker] EXCEPT !.pc = "read"]
    <2>1. t \in Thread /\ t.gate = g /\ t.pc = "read"
      BY <1>1 DEF Thread
    <2>2. at' = [at EXCEPT ![Worker] = t] /\ acted' = acted
      BY <1>1, <1>4 DEF WorkerSees, Goto, Thread
    <2>3. Fit(t)
      BY <1>1, <2>1 DEF Fit
    <2>4. UNCHANGED <<record, command, mem, req, told, acted, count>>
      BY <1>2, <2>2
    <2>5. at[Worker].pc \notin {"idle", "exited"}
      BY <1>1
    <2> HIDE DEF t, m
    <2> QED BY <1>1, <1>2, <2>1, <2>2, <2>3, <2>4, <2>5, QuietStep
  <1> QED BY <1>3, <1>4

\* Starting again: every thread is idle or as it was, the worker is at the
\* gate it had reached, and what is lost of a memory was backed.
LEMMA RestartInv ==
  ASSUME Inv, UNCHANGED <<record, command, receipts, told, acted, calls>>,
         marked' \in BOOLEAN, crashes' \in 0..MaxCrashes,
         NEW p \in Process, mem' = [mem EXCEPT ![p] = [g \in Gate |-> "none"]],
         at' \in [Consumer -> Thread],
         \A a \in Consumer : at'[a] = at[a] \/ at'[a].pc = "idle",
         at'[Worker].gate = at[Worker].gate,
         req' = req \/ req' = [o \in Operator |-> NoRequest]
  PROVE  Inv'
  <1>1. mem \in [Process -> [Gate -> Approval]] /\ "none" \in Approval
    BY DEF Inv, TypeOK, Approval
  <1>2. mem' \in [Process -> [Gate -> Approval]]
    BY <1>1
  <1>3. 0 \in 0..MaxGates
    BY BoundAssumption
  <1>4. req' \in [Operator -> Request]
    BY <1>3 DEF Inv, TypeOK, Request, NoRequest
  <1>5. TypeOK'
    BY <1>2, <1>4 DEF Inv, TypeOK
  <1>6. Threads'
    BY DEF Inv, Threads, Fit, Backed
  <1>7. Requests'
    BY DEF Inv, Requests, NoRequest
  <1>8. Seen'
    <2> SUFFICES ASSUME NEW h \in Gate, NEW q \in Process
                 PROVE  Backed(record[h], h)' /\ Backed(mem[q][h], h)'
      BY DEF Seen
    <2>1. mem'[q][h] = IF q = p THEN "none" ELSE mem[q][h]
      BY <1>1
    <2> QED BY <2>1, ActionAssumption DEF Inv, Seen, Backed
  <1>9. Ahead'
    BY DEF Inv, Ahead, Consumer
  <1> QED BY <1>5, <1>6, <1>7, <1>8, <1>9 DEF Inv

\* The worker dies and starts again.
LEMMA WorkerRestartInv ==
  ASSUME Inv, WorkerRestart PROVE Inv'
  <1>1. /\ at \in [Consumer -> Thread] /\ Worker \in Consumer /\ 0 \in 0..MaxGates
        /\ at[Worker] \in Thread /\ Of(Worker) \in Process /\ "none" \in Approval
    <2>1. Worker \in Consumer
      BY DEF Consumer
    <2> QED BY <2>1, Shapes DEF Inv
  <1> DEFINE t == [Idle EXCEPT !.gate = at[Worker].gate]
  <1>2. t \in Thread /\ Idle \in Thread /\ t.gate = at[Worker].gate /\ t.pc = "idle" /\ Idle.pc = "idle"
    BY <1>1 DEF Idle, Thread
  <1>3. at' = [a \in Consumer |-> IF a = Worker THEN t ELSE IF Embedded THEN Idle ELSE at[a]]
    BY DEF WorkerRestart
  <1> HIDE DEF t
  <1>4. /\ at' \in [Consumer -> Thread]
        /\ \A a \in Consumer : at'[a] = at[a] \/ at'[a].pc = "idle"
        /\ at'[Worker].gate = at[Worker].gate
    BY <1>1, <1>2, <1>3
  <1>5. /\ UNCHANGED <<record, command, receipts, told, acted, calls>>
        /\ marked' \in BOOLEAN
        /\ mem' = [mem EXCEPT ![Of(Worker)] = [g \in Gate |-> "none"]]
        /\ req' = req \/ req' = [o \in Operator |-> NoRequest]
    BY DEF WorkerRestart
  <1>6. crashes' \in 0..MaxCrashes
    BY BoundAssumption DEF WorkerRestart, Inv, TypeOK
  <1> QED BY <1>1, <1>4, <1>5, <1>6, RestartInv

-----------------------------------------------------------------------------
(* The API.                                                                *)

\* The API process dies and starts again.
LEMMA ApiRestartInv ==
  ASSUME Inv, ApiRestart PROVE Inv'
  <1>1. at \in [Consumer -> Thread] /\ Worker \in Consumer /\ 0 \in 0..MaxGates
    <2>1. Worker \in Consumer
      BY DEF Consumer
    <2> QED BY <2>1, Shapes DEF Inv
  <1>2. Idle \in Thread /\ Idle.pc = "idle"
    BY <1>1 DEF Idle, Thread, Approval
  <1>3. at' = [a \in Consumer |-> IF a = Worker THEN at[a] ELSE Idle]
    BY DEF ApiRestart
  <1>4. /\ at' \in [Consumer -> Thread]
        /\ \A a \in Consumer : at'[a] = at[a] \/ at'[a].pc = "idle"
        /\ at'[Worker].gate = at[Worker].gate
    BY <1>1, <1>2, <1>3
  <1>5. /\ UNCHANGED <<record, command, receipts, told, acted, calls>>
        /\ marked' \in BOOLEAN /\ "api" \in Process
        /\ mem' = [mem EXCEPT !["api"] = [g \in Gate |-> "none"]]
        /\ req' = req \/ req' = [o \in Operator |-> NoRequest]
    BY DEF ApiRestart, disk, Process, Inv, TypeOK
  <1>6. crashes' \in 0..MaxCrashes
    BY BoundAssumption DEF ApiRestart, Inv, TypeOK
  <1> QED BY <1>4, <1>5, <1>6, RestartInv

\* Every step of an annotate request keeps the invariant.
LEMMA AnnotateInv ==
  ASSUME Inv, NEW a \in Annotator, AnnotatorStep(a) \/ \E g \in Gate : Annotate(a, g)
  PROVE  Inv'
  <1>1. /\ a \in Consumer /\ a # Worker /\ Worker \in Consumer
        /\ at \in [Consumer -> Thread] /\ at[a] \in Thread /\ Fit(at[a])
        /\ 0 \in 0..MaxGates /\ Gate \subseteq 0..MaxGates
    <2>1. a \in Consumer /\ a # Worker
      BY ActorAssumption DEF Consumer
    <2> QED BY <2>1, Shapes DEF Inv, Threads
  <1>2. Idle \in Thread /\ Fit(Idle)
    BY <1>1 DEF Idle, Thread, Approval, Fit
  <1>3. CASE GetApproval(a)
    BY <1>1, <1>3, GetApprovalInv
  <1>4. CASE AnnotateCheck(a)
    <2> DEFINE u == [at[a] EXCEPT !.pc = "nread"]
    <2>1. at[a].pc = "check" /\ at[a].gate \in Gate
      BY <1>1, <1>4 DEF AnnotateCheck, Fit
    <2>2. u \in Thread /\ u.pc = "nread" /\ u.gate = at[a].gate
      BY <1>1 DEF Thread
    <2>3. Fit(u)
      BY <2>1, <2>2 DEF Fit
    <2>4. at' = [at EXCEPT ![a] = u] \/ at' = [at EXCEPT ![a] = Idle]
      BY <1>1, <1>4 DEF AnnotateCheck, Thread
    <2>5. PICK t \in {u, Idle} : at' = [at EXCEPT ![a] = t]
      BY <2>4
    <2>6. t \in Thread /\ Fit(t)
      BY <1>2, <2>2, <2>3
    <2>7. /\ UNCHANGED <<record, command, mem, req, told, acted, count>>
          /\ receipts' \subseteq Gate /\ marked' \in BOOLEAN
      BY <1>4 DEF AnnotateCheck, disk, Inv, TypeOK
    <2> QED BY <1>1, <2>5, <2>6, <2>7, QuietStep
  <1>5. CASE RefreshRead(a, at[a].gate, "nread", "nstore")
    BY <1>1, <1>5, ReadStep
  <1>6. CASE RefreshStore(a, at[a].gate, "nstore", "edit")
    BY <1>1, <1>6, StoreStep
  <1>7. CASE AnnotateEdit(a)
    <2> DEFINE x == mem["api"][at[a].gate]
               t == [at[a] EXCEPT !.pc = "append", !.buf = x]
    <2>1. at[a].pc = "edit" /\ at[a].gate \in Gate
      BY <1>1, <1>7 DEF AnnotateEdit, Fit
    <2>2. x \in Approval /\ Backed(x, at[a].gate)
      BY <2>1 DEF Inv, TypeOK, Seen, Process
    <2>3. t \in Thread /\ t.pc = "append" /\ t.gate = at[a].gate /\ t.buf = x
      BY <1>1, <2>2 DEF Thread
    <2>4. at' = [at EXCEPT ![a] = t]
      BY <1>1, <1>7 DEF AnnotateEdit, Thread
    <2>5. Fit(t)
      BY <2>1, <2>2, <2>3 DEF Fit
    <2>6. /\ UNCHANGED <<record, command, mem, req, told, acted, count>>
          /\ receipts' \subseteq Gate /\ marked' \in BOOLEAN
      BY <1>7 DEF AnnotateEdit, disk, Inv, TypeOK
    <2> HIDE DEF t, x
    <2> QED BY <1>1, <2>3, <2>4, <2>5, <2>6, QuietStep
  <1>8. CASE AnnotateAppend(a)
    <2>1. at[a].pc = "append" /\ at[a].gate \in Gate /\ Backed(at[a].buf, at[a].gate)
      BY <1>1, <1>8 DEF AnnotateAppend, Fit
    <2>2. at[a].buf \in Approval
      BY <1>1 DEF Thread
    <2>3. /\ UNCHANGED <<command, receipts, marked, mem, req, told, acted, count>>
          /\ record' = [record EXCEPT ![at[a].gate] = at[a].buf]
          /\ at' = [at EXCEPT ![a] = Idle]
      BY <1>8 DEF AnnotateAppend
    <2> QED BY <1>1, <1>2, <2>1, <2>2, <2>3, LogStep
  <1>9. ASSUME NEW g \in Gate, Annotate(a, g) PROVE Inv'
    <2> DEFINE t == [Idle EXCEPT !.pc = "read", !.gate = g]
    <2>1. t \in Thread /\ t.pc = "read" /\ t.gate = g
      BY <1>1 DEF Idle, Thread, Approval
    <2>2. Fit(t)
      BY <2>1 DEF Fit
    <2>3. at' = [at EXCEPT ![a] = t] /\ UNCHANGED <<record, command, mem, req, told, acted>>
      BY <1>9 DEF Annotate, disk
    <2>4. /\ record' \in [Gate -> Approval] /\ mem' \in [Process -> [Gate -> Approval]]
          /\ receipts' \subseteq Gate /\ marked' \in BOOLEAN /\ Seen'
      BY <1>9 DEF Annotate, disk, Inv, TypeOK, Seen, Backed
    <2>5. Counted'
      <3>1. /\ calls.annotate \in 0..MaxAnnotates /\ calls.annotate < MaxAnnotates
            /\ calls' = [calls EXCEPT !.annotate = calls.annotate + 1]
            /\ calls \in [resolve : 0..MaxResolves, annotate : 0..MaxAnnotates]
            /\ crashes' = crashes /\ crashes \in 0..MaxCrashes
        BY <1>9 DEF Annotate, Inv, TypeOK
      <3>2. calls.annotate + 1 \in 0..MaxAnnotates
        BY <3>1, BoundAssumption
      <3> QED BY <3>1, <3>2 DEF Counted
    <2> HIDE DEF t
    <2> QED BY <1>1, <2>1, <2>2, <2>3, <2>4, <2>5, ThreadStep
  <1> QED BY <1>3, <1>4, <1>5, <1>6, <1>7, <1>8, <1>9 DEF AnnotatorStep

\* A resolve request that arrives.
LEMMA ResolveInv ==
  ASSUME Inv, NEW o \in Operator, NEW g \in Gate, NEW x \in Action, Resolve(o, g, x)
  PROVE  Inv'
  <1> DEFINE d == [action |-> x, key |-> KeyOf[o]]
             r == [pc |-> "scan", gate |-> g, dec |-> d]
  <1>1. /\ req \in [Operator -> Request] /\ "api" \in Process /\ g \in 0..MaxGates
        /\ record[g] \in Approval /\ Backed(record[g], g)
    BY BoundAssumption DEF Inv, TypeOK, Seen, Process, Gate
  <1>2. /\ UNCHANGED <<record, command, receipts, marked, at, told, acted, crashes>>
        /\ UNCHANGED <<record, command>>
        /\ mem' = [mem EXCEPT !["api"][g] = record[g]] \/ mem' = mem
        /\ req' = [req EXCEPT ![o] = r] \/ req' = req
    BY DEF Resolve, disk
  <1>3. mem' \in [Process -> [Gate -> Approval]] /\ Seen'
    BY <1>1, <1>2, Remembers
  <1>4. d \in Decision
    BY DEF Decision
  <1>5. r \in Request /\ r.pc = "scan" /\ r.gate = g /\ r.dec = d
    BY <1>1, <1>4 DEF Request
  <1> HIDE DEF r, d
  <1>6. req' \in [Operator -> Request] /\ \A q \in Operator : req'[q] = req[q] \/ req'[q] = r
    BY <1>1, <1>2, <1>5
  <1>7. calls' \in [resolve : 0..MaxResolves, annotate : 0..MaxAnnotates]
    <2>1. /\ calls.resolve \in 0..MaxResolves /\ calls.resolve < MaxResolves
          /\ calls' = [calls EXCEPT !.resolve = calls.resolve + 1]
          /\ calls \in [resolve : 0..MaxResolves, annotate : 0..MaxAnnotates]
      BY DEF Resolve, Inv, TypeOK
    <2>2. calls.resolve + 1 \in 0..MaxResolves
      BY <2>1, BoundAssumption
    <2> QED BY <2>1, <2>2
  <1>8. TypeOK'
    BY <1>2, <1>3, <1>6, <1>7 DEF Inv, TypeOK
  <1>9. Threads' /\ Ahead'
    BY <1>2 DEF Inv, Threads, Fit, Backed, Ahead
  <1>10. Requests'
    BY <1>4, <1>5, <1>6 DEF Inv, Requests
  <1> QED BY <1>3, <1>8, <1>9, <1>10 DEF Inv

\* A resolve request that goes on or ends: the commands only grow, what is
\* told is an option of the gate.
LEMMA RequestStep ==
  ASSUME Inv, NEW o \in Operator, NEW r \in Request,
         req' = [req EXCEPT ![o] = r],
         \/ r.pc = "idle"
         \/ r.pc = "append" /\ r.gate = req[o].gate /\ r.dec = req[o].dec,
         req[o].pc # "idle",
         UNCHANGED <<record, receipts, marked, mem, at, acted, count>>,
         told' \in [Gate -> SUBSET Action],
         command' \in [Gate -> Decision \cup {NoCommand}],
         \A g \in Gate : command[g] = NoCommand \/ command'[g] = command[g]
  PROVE  Inv'
  <1>1. req \in [Operator -> Request]
    BY DEF Inv, TypeOK
  <1>2. /\ req' \in [Operator -> Request]
        /\ \A q \in Operator : req'[q] = IF q = o THEN r ELSE req[q]
    BY <1>1
  <1>3. TypeOK'
    BY <1>2 DEF Inv, TypeOK, count
  <1>4. Threads'
    <2> SUFFICES ASSUME NEW a \in Consumer PROVE Fit(at[a])'
      BY DEF Threads
    <2>1. Fit(at[a])
      BY DEF Inv, Threads
    <2>2. /\ at[a].pc \notin {"idle", "exited"} => at[a].gate \in Gate
          /\ at[a].pc \in {"cread", "cstore", "apply", "persist", "mark", "receipt"} => at[a].cmd \in Gate
      BY <2>1 DEF Fit
    <2>3. ASSUME at[a].pc \in {"cstore", "persist"} PROVE Backed(at[a].buf, at[a].cmd)'
      <3>1. Backed(at[a].buf, at[a].cmd) /\ at[a].cmd \in Gate
        BY <2>1, <2>3 DEF Fit
      <3>2. at[a].buf \in Action => at[a].buf = command'[at[a].cmd].action
        BY <3>1, StillBacked
      <3> QED BY <3>2 DEF Backed
    <2>4. ASSUME at[a].pc \in {"store", "nstore", "append"} PROVE Backed(at[a].buf, at[a].gate)'
      <3>1. Backed(at[a].buf, at[a].gate) /\ at[a].gate \in Gate
        BY <2>1, <2>4 DEF Fit
      <3>2. at[a].buf \in Action => at[a].buf = command'[at[a].gate].action
        BY <3>1, StillBacked
      <3> QED BY <3>2 DEF Backed
    <2> QED BY <2>2, <2>3, <2>4 DEF Fit
  <1>5. Requests'
    BY <1>2 DEF Inv, Requests
  <1>6. Seen'
    <2>1. ASSUME NEW g \in Gate PROVE Backed(record[g], g)'
      <3>1. Backed(record[g], g)
        BY DEF Inv, Seen
      <3>2. record[g] \in Action => record[g] = command'[g].action
        BY <3>1, StillBacked
      <3> QED BY <3>2 DEF Backed
    <2>2. ASSUME NEW g \in Gate, NEW p \in Process PROVE Backed(mem[p][g], g)'
      <3>1. Backed(mem[p][g], g)
        BY DEF Inv, Seen
      <3>2. mem[p][g] \in Action => mem[p][g] = command'[g].action
        BY <3>1, StillBacked
      <3> QED BY <3>2 DEF Backed
    <2> QED BY <2>1, <2>2 DEF Seen
  <1>7. Ahead'
    BY DEF Inv, Ahead
  <1> QED BY <1>3, <1>4, <1>5, <1>6, <1>7 DEF Inv

\* The answer to a request: the request is over, and an accepted decision is
\* one more that was told.
LEMMA Answered ==
  ASSUME Inv, NEW o \in Operator, req[o].pc # "idle", NEW ok \in BOOLEAN, Answer(o, ok)
  PROVE  /\ req' = [req EXCEPT ![o] = NoRequest] /\ NoRequest \in Request
         /\ NoRequest.pc = "idle"
         /\ req[o].gate \in Gate /\ req[o].dec \in Decision /\ req[o].dec.action \in Action
         /\ told' \in [Gate -> SUBSET Action]
         /\ told' = IF ok THEN [told EXCEPT ![req[o].gate] = @ \cup {req[o].dec.action}]
                    ELSE told
  <1>1. 0 \in 0..MaxGates
    BY BoundAssumption
  <1>2. req[o].gate \in Gate /\ req[o].dec \in Decision
    BY DEF Inv, Requests
  <1>3. req[o].dec.action \in Action
    BY <1>2 DEF Decision
  <1>4. NoRequest \in Request /\ NoRequest.pc = "idle"
    BY <1>1 DEF NoRequest, Request
  <1>5. told \in [Gate -> SUBSET Action]
    BY DEF Inv, TypeOK
  <1> QED BY <1>2, <1>3, <1>4, <1>5 DEF Answer

\* The decision register of GateDecision in a state of the gate.
Decided == [g \in Gate |-> command[g].action]

\* What the register allows a gate that was answered.
LEMMA Decides ==
  ASSUME NEW g \in Gate, NEW d \in Action, Decided[g] = "none",
         Decided' = [Decided EXCEPT ![g] = d],
         told' = [told EXCEPT ![g] = told[g] \cup {d}], UNCHANGED acted
  PROVE  Register!Next
  <1>1. Register!Decide(g, d)
    BY DEF Register!Decide, Decided
  <1> QED BY <1>1 DEF Register!Next

\* And one that was answered again.
LEMMA Confirms ==
  ASSUME NEW g \in Gate, Decided[g] # "none", UNCHANGED <<Decided, acted>>,
         told' = [told EXCEPT ![g] = told[g] \cup {Decided[g]}]
  PROVE  Register!Next
  <1>1. Register!Confirm(g)
    BY DEF Register!Confirm, Decided
  <1> QED BY <1>1 DEF Register!Next

\* And one the worker acts on.
LEMMA Acts ==
  ASSUME NEW g \in Gate, Decided[g] # "none", acted[g] = "none",
         acted' = [acted EXCEPT ![g] = Decided[g]], UNCHANGED <<Decided, told>>
  PROVE  Register!Next
  <1>1. Register!Act(g)
    BY DEF Register!Act, Decided
  <1> QED BY <1>1 DEF Register!Next

\* A step that neither writes a command, nor answers, nor acts.
LEMMA Stutters ==
  ASSUME UNCHANGED <<command, told, acted>>
  PROVE  UNCHANGED Register!vars
  BY DEF Register!vars

\* Every decision in the register is an option, and is there because of a
\* command.
LEMMA DecidedIs ==
  ASSUME Inv, NEW g \in Gate
  PROVE  /\ command[g] = NoCommand => Decided[g] = "none"
         /\ command[g] # NoCommand => Decided[g] \in Action /\ Decided[g] # "none"
         /\ Decided[g] = command[g].action
  <1>1. NoCommand.action = "none"
    BY DEF NoCommand
  <1>2. command[g] \in Decision \cup {NoCommand} /\ Decided[g] = command[g].action
    BY DEF Inv, TypeOK, Decided
  <1>3. CASE command[g] = NoCommand
    BY <1>1, <1>2, <1>3
  <1>4. CASE command[g] # NoCommand
    <2>1. command[g].action \in Action
      BY <1>2, <1>4 DEF Decision
    <2> QED BY <1>2, <1>4, <2>1, ActionAssumption
  <1> QED BY <1>3, <1>4

\* The first look at the bus keeps the invariant and confirms a decision or
\* changes nothing the register shows.
LEMMA ResolveScanStep ==
  ASSUME Inv, NEW o \in Operator, ResolveScan(o)
  PROVE  Inv' /\ (Register!Next \/ UNCHANGED Register!vars)
  <1> DEFINE g == req[o].gate
  <1>1. /\ req \in [Operator -> Request] /\ req[o].pc = "scan" /\ req[o].pc # "idle"
        /\ g \in Gate /\ req[o].dec \in Decision
        /\ told \in [Gate -> SUBSET Action] /\ command \in [Gate -> Decision \cup {NoCommand}]
    BY DEF ResolveScan, Inv, TypeOK, Requests
  <1>2. /\ UNCHANGED <<record, receipts, marked, mem, at, acted, count>>
        /\ UNCHANGED <<command, acted>>
        /\ command' \in [Gate -> Decision \cup {NoCommand}]
        /\ \A h \in Gate : command[h] = NoCommand \/ command'[h] = command[h]
    BY <1>1 DEF ResolveScan, disk
  <1>3. CASE command[g] = NoCommand
    <2> DEFINE r == [req[o] EXCEPT !.pc = "append"]
    <2>1. req' = [req EXCEPT ![o].pc = "append"] /\ told' = told
      BY <1>3 DEF ResolveScan
    <2>2. r \in Request /\ r.pc = "append" /\ r.gate = req[o].gate /\ r.dec = req[o].dec
      BY <1>1 DEF Request
    <2>3. req' = [req EXCEPT ![o] = r] /\ told' \in [Gate -> SUBSET Action]
      BY <1>1, <2>1 DEF Request
    <2>4. UNCHANGED Register!vars
      BY <1>2, <2>1, Stutters
    <2> HIDE DEF r, g
    <2> QED BY <1>1, <1>2, <2>2, <2>3, <2>4, RequestStep
  <1>4. CASE command[g] # NoCommand
    <2> DEFINE ok == Agrees(command[g], req[o].dec)
    <2>1. Answer(o, ok) /\ ok \in BOOLEAN
      BY <1>4 DEF ResolveScan, Agrees
    <2>2. ok => command[g].action = req[o].dec.action
      BY DEF Agrees
    <2> HIDE DEF ok
    <2>3. /\ req' = [req EXCEPT ![o] = NoRequest] /\ NoRequest \in Request
          /\ NoRequest.pc = "idle"
          /\ told' \in [Gate -> SUBSET Action]
          /\ told' = IF ok THEN [told EXCEPT ![g] = @ \cup {req[o].dec.action}] ELSE told
      BY <1>1, <2>1, Answered
    <2>4. Inv'
      BY <1>1, <1>2, <2>3, RequestStep
    <2>5. CASE ok
      <3>1. Decided[g] # "none" /\ Decided[g] = req[o].dec.action
        BY <1>1, <1>4, <2>2, <2>5, DecidedIs
      <3>2. UNCHANGED <<Decided, acted>>
        BY <1>2 DEF Decided
      <3>3. told' = [told EXCEPT ![g] = told[g] \cup {Decided[g]}]
        BY <2>3, <2>5, <3>1
      <3> HIDE DEF g
      <3> QED BY <1>1, <2>4, <3>1, <3>2, <3>3, Confirms
    <2>6. CASE ~ok
      BY <1>2, <2>3, <2>4, <2>6, Stutters
    <2> QED BY <2>5, <2>6
  <1> QED BY <1>3, <1>4

\* The append under the bus lock keeps the invariant; it decides, confirms, or
\* changes nothing the register shows.
LEMMA ResolveAppendStep ==
  ASSUME Inv, NEW o \in Operator, ResolveAppend(o)
  PROVE  Inv' /\ (Register!Next \/ UNCHANGED Register!vars)
  <1> DEFINE g == req[o].gate
             d == req[o].dec
  <1>1. /\ req \in [Operator -> Request] /\ req[o].pc = "append" /\ req[o].pc # "idle"
        /\ g \in Gate /\ d \in Decision /\ d.action \in Action
        /\ told \in [Gate -> SUBSET Action] /\ command \in [Gate -> Decision \cup {NoCommand}]
    BY DEF ResolveAppend, Inv, TypeOK, Requests, Decision
  <1>2. /\ UNCHANGED <<record, receipts, marked, mem, at, acted, count>>
        /\ acted' = acted
    BY DEF ResolveAppend
  <1>3. CASE command[g] = NoCommand
    <2>1. command' = [command EXCEPT ![g] = d] /\ Answer(o, TRUE)
      BY <1>3 DEF ResolveAppend
    <2>2. /\ req' = [req EXCEPT ![o] = NoRequest] /\ NoRequest \in Request
          /\ NoRequest.pc = "idle"
          /\ told' \in [Gate -> SUBSET Action]
          /\ told' = [told EXCEPT ![g] = @ \cup {d.action}]
      BY <1>1, <2>1, Answered
    <2>3. /\ command' \in [Gate -> Decision \cup {NoCommand}]
          /\ \A h \in Gate : command[h] = NoCommand \/ command'[h] = command[h]
      BY <1>1, <1>3, <2>1
    <2>4. Inv'
      BY <1>1, <1>2, <2>2, <2>3, RequestStep
    <2>5. Decided[g] = "none"
      BY <1>1, <1>3, DecidedIs
    <2>6. Decided' = [Decided EXCEPT ![g] = d.action]
      BY <1>1, <2>1 DEF Decided
    <2> HIDE DEF g, d
    <2> QED BY <1>1, <1>2, <2>2, <2>4, <2>5, <2>6, Decides
  <1>4. CASE command[g] # NoCommand
    <2> DEFINE ok == command[g] = d
    <2>1. Answer(o, ok) /\ ok \in BOOLEAN /\ command' = command
      BY <1>4 DEF ResolveAppend
    <2>2. ok => Decided[g] = d.action
      BY <1>1, DecidedIs
    <2> HIDE DEF ok
    <2>3. /\ req' = [req EXCEPT ![o] = NoRequest] /\ NoRequest \in Request
          /\ NoRequest.pc = "idle"
          /\ told' \in [Gate -> SUBSET Action]
          /\ told' = IF ok THEN [told EXCEPT ![g] = @ \cup {d.action}] ELSE told
      BY <1>1, <2>1, Answered
    <2>4. /\ command' \in [Gate -> Decision \cup {NoCommand}]
          /\ \A h \in Gate : command[h] = NoCommand \/ command'[h] = command[h]
      BY <1>1, <2>1
    <2>5. Inv'
      BY <1>1, <1>2, <2>3, <2>4, RequestStep
    <2>6. CASE ok
      <3>1. Decided[g] # "none" /\ Decided[g] = d.action
        BY <1>1, <1>4, <2>2, <2>6, DecidedIs
      <3>2. UNCHANGED <<Decided, acted>>
        BY <1>2, <2>1 DEF Decided
      <3>3. told' = [told EXCEPT ![g] = told[g] \cup {Decided[g]}]
        BY <2>3, <2>6, <3>1
      <3> HIDE DEF g, d
      <3> QED BY <1>1, <2>5, <3>1, <3>2, <3>3, Confirms
    <2>7. CASE ~ok
      BY <1>2, <2>1, <2>3, <2>5, <2>7, Stutters
    <2> QED BY <2>6, <2>7
  <1> QED BY <1>3, <1>4

\* The worker acts with the gate's decision, once.
LEMMA WorkerSeesStep ==
  ASSUME Inv, WorkerSees
  PROVE  Register!Next \/ UNCHANGED Register!vars
  <1> DEFINE g == at[Worker].gate
             m == mem[Of(Worker)][g]
  <1>1. Worker \in Consumer /\ Of(Worker) \in Process
    BY DEF Consumer, Of, Process
  <1>2. g \in Gate /\ at[Worker].pc = "check"
    BY <1>1 DEF Inv, Threads, Fit, WorkerSees
  <1>3. acted[g] = "none"
    BY <1>2 DEF Inv, Ahead
  <1>4. UNCHANGED <<command, told, Decided>>
    BY DEF WorkerSees, disk, Decided
  <1>5. CASE m \in Action
    <2>1. acted' = [acted EXCEPT ![g] = m]
      BY <1>5 DEF WorkerSees
    <2>2. m = command[g].action
      BY <1>1, <1>2, <1>5 DEF Inv, Seen, Backed
    <2>3. Decided[g] = m /\ Decided[g] # "none"
      BY <1>2, <1>5, <2>2, DecidedIs, ActionAssumption
    <2> HIDE DEF g, m
    <2> QED BY <1>2, <1>3, <1>4, <2>1, <2>3, Acts
  <1>6. CASE m \notin Action
    <2>1. acted' = acted
      BY <1>6 DEF WorkerSees
    <2> QED BY <1>4, <2>1, Stutters
  <1> QED BY <1>5, <1>6

-----------------------------------------------------------------------------
(* The theorems.                                                           *)

\* The invariant holds at the start.
LEMMA InitInv == Init => Inv
  <1> SUFFICES ASSUME Init PROVE Inv
    OBVIOUS
  <1>1. 0 \in 0..MaxGates /\ 0 \in 0..MaxResolves /\ 0 \in 0..MaxAnnotates /\ 0 \in 0..MaxCrashes
    BY BoundAssumption
  <1>2. Idle \in Thread /\ Idle.pc = "idle" /\ NoRequest \in Request /\ NoRequest.pc = "idle"
    BY <1>1 DEF Idle, Thread, Approval, NoRequest, Request
  <1>3. TypeOK
    BY <1>1, <1>2 DEF Init, TypeOK, Approval
  <1>4. Threads /\ Requests
    BY <1>2 DEF Init, Threads, Fit, Requests
  <1>5. Seen
    BY ActionAssumption DEF Init, Seen, Backed
  <1>6. Ahead
    BY DEF Init, Ahead
  <1> QED BY <1>3, <1>4, <1>5, <1>6 DEF Inv

\* Every step keeps the invariant, and is a step of the register or a stutter.
LEMMA StepInv ==
  ASSUME Inv, [Next]_vars
  PROVE  Inv' /\ (Register!Next \/ UNCHANGED Register!vars)
  <1>1. CASE OpenGate
    <2>1. UNCHANGED <<command, told, acted>>
      BY <1>1 DEF OpenGate
    <2> QED BY <1>1, <2>1, OpenGateInv, Stutters
  <1>2. ASSUME NEW a \in Consumer, GetApproval(a)
        PROVE  Inv' /\ UNCHANGED Register!vars
    <2>1. UNCHANGED <<command, told, acted>>
      BY <1>2 DEF GetApproval, RefreshRead, RefreshStore, ScanBus, Apply, Persist, Mark, Receipt, disk
    <2> QED BY <1>2, <2>1, GetApprovalInv, Stutters
  <1>3. CASE WorkerSees
    BY <1>3, WorkerSeesInv, WorkerSeesStep
  <1>4. CASE WorkerRestart
    <2>1. UNCHANGED <<command, told, acted>>
      BY <1>4 DEF WorkerRestart
    <2> QED BY <1>4, <2>1, WorkerRestartInv, Stutters
  <1>5. ASSUME NEW a \in Annotator, AnnotatorStep(a) \/ \E g \in Gate : Annotate(a, g)
        PROVE  Inv' /\ UNCHANGED Register!vars
    <2>1. UNCHANGED <<command, told, acted>>
      BY <1>5 DEF AnnotatorStep, Annotate, AnnotateCheck, AnnotateEdit, AnnotateAppend,
                  GetApproval, RefreshRead, RefreshStore, ScanBus, Apply, Persist, Mark,
                  Receipt, disk
    <2> QED BY <1>5, <2>1, AnnotateInv, Stutters
  <1>6. ASSUME NEW o \in Operator, NEW g \in Gate, NEW x \in Action, Resolve(o, g, x)
        PROVE  Inv' /\ UNCHANGED Register!vars
    <2>1. UNCHANGED <<command, told, acted>>
      BY <1>6 DEF Resolve, disk
    <2> QED BY <1>6, <2>1, ResolveInv, Stutters
  <1>7. ASSUME NEW o \in Operator, ResolveScan(o)
        PROVE  Inv' /\ (Register!Next \/ UNCHANGED Register!vars)
    BY <1>7, ResolveScanStep
  <1>8. ASSUME NEW o \in Operator, ResolveAppend(o)
        PROVE  Inv' /\ (Register!Next \/ UNCHANGED Register!vars)
    BY <1>8, ResolveAppendStep
  <1>9. CASE ApiRestart
    <2>1. UNCHANGED <<command, told, acted>>
      BY <1>9 DEF ApiRestart, disk
    <2> QED BY <1>9, <2>1, ApiRestartInv, Stutters
  <1>10. CASE UNCHANGED vars
    <2>1. UNCHANGED <<command, told, acted>>
      BY <1>10 DEF vars
    <2>2. Inv'
      BY <1>10 DEF vars, Inv, TypeOK, Threads, Fit, Backed, Requests, Seen, Ahead
    <2> QED BY <2>1, <2>2, Stutters
  <1>11. Worker \in Consumer
    BY DEF Consumer
  <1> QED BY <1>1, <1>2, <1>3, <1>4, <1>5, <1>6, <1>7, <1>8, <1>9, <1>10, <1>11
          DEF Next, WorkerStep

\* Wherever a decision shows -- the approval log, a memory, a thread's hands --
\* it is the one of the command on the bus (state.py:1005), and the worker has
\* not acted on the gate where it waits (gate.py:116).
THEOREM InvHolds == Spec => []Inv
  <1>1. Inv /\ [Next]_vars => Inv'
    BY StepInv
  <1> QED BY InitInv, <1>1, PTL DEF Spec

\* Every reachable state of the approval log, the bus, the memories and the
\* request threads has its type.
THEOREM TypeCorrect == Spec => []TypeOK
  <1>1. Inv => TypeOK
    BY DEF Inv
  <1> QED BY InvHolds, <1>1, PTL

\* A gate is a write-once register: the first accepted decision fixes it, all
\* who are told "accepted" are told so of it, and the worker acts on it once
\* (state.py:1005, gate.py:116).
THEOREM GateIsOneShot == Spec => OneDecision
  <1>1. Init => Register!Init
    <2>1. NoCommand.action = "none"
      BY DEF NoCommand
    <2> QED BY <2>1 DEF Init, Register!Init
  <1>2. Inv /\ [Next]_vars => [Register!Next]_(Register!vars)
    BY StepInv
  <1> QED BY <1>1, <1>2, InvHolds, PTL DEF Spec, OneDecision, Register!Spec
-----------------------------------------------------------------------------
(* That a decision reaches the worker, as long as gates are labelled one   *)
(* at a time and not in the worker's own process.  Two labels at once can  *)
(* put a pending line over a decision whose command is already received.   *)

OneAtATime == ~Embedded /\ \A a, b \in Annotator : a = b

Given(g) == command[g] # NoCommand

\* The worker has raised gate g.
Behind(g) == g <= at[Worker].gate

InLoop == {"cread", "cstore", "apply", "persist", "mark", "receipt"}
Applied == {"persist", "mark", "receipt"}
Labelling == {"nread", "nstore", "edit", "append"}

\* Nothing is known of a gate that the worker has not raised.
Raised ==
    /\ \A g \in receipts : Given(g)
    /\ \A g \in Gate : Given(g) \/ record[g] # "none" => Behind(g)
    /\ \A g \in Gate, p \in Process : mem[p][g] # "none" => Behind(g)
    /\ \A o \in Operator : req[o].pc # "idle" => Behind(req[o].gate)

\* What a thread knows of the command it applies: an applied decision is in
\* the worker's memory, or, when the API applied it, on disk.
Certain(a) ==
    /\ at[a].pc \in InLoop => at[a].cmd \in at[a].todo /\ \A c \in at[a].todo : Given(c)
    /\ at[a].pc \in Labelling => Behind(at[a].gate)
    /\ at[a].pc = "store" /\ at[a].buf # "none" => Behind(at[a].gate)
    /\ at[a].pc = "persist" => at[a].buf \in Action
    /\ a = Worker /\ at[a].pc \in Applied => mem["worker"][at[a].cmd] \in Action
    /\ a # Worker /\ at[a].pc \in {"mark", "receipt"} => record[at[a].cmd] \in Action

Sure == \A a \in Consumer : Certain(a)

\* The worker has the decision in memory and will not read the log again
\* before it looks there.
Kept(g) ==
    /\ mem["worker"][g] \in Action
    /\ \/ at[Worker].pc \in {"scan", "check"}
       \/ at[Worker].pc \in InLoop \ Applied /\ g \notin at[Worker].todo
       \/ at[Worker].pc \in Applied /\ g \notin at[Worker].todo \ {at[Worker].cmd}

\* The decision is on disk and nobody is about to put a pending line over it.
Lasting(g) ==
    /\ record[g] \in Action
    /\ \A a \in Annotator : at[a].gate = g =>
           /\ at[a].pc \in {"nstore", "append"} => at[a].buf \in Action
           /\ at[a].pc = "edit" => mem["api"][g] \in Action

Delivered == \A g \in receipts : Waits(g) => Kept(g) \/ Lasting(g)

DeliveryInv == Inv /\ Raised /\ Sure /\ Delivered

-----------------------------------------------------------------------------
\* Only the worker runs in its process.
LEMMA Apart ==
  ASSUME OneAtATime
  PROVE  /\ Of(Worker) = "worker" /\ Worker \in Consumer
         /\ \A a \in Annotator : Of(a) = "api" /\ a # Worker /\ a \in Consumer
  BY ActorAssumption DEF OneAtATime, Of, Consumer

\* The other threads are where they were.
Others(a) == \A b \in Consumer : b # a => at'[b] = at[b]

\* What every thread may rely on: a command and a gate raised stay so, the
\* worker's memory is its own, and the worker undoes no decision in the log.
Relied(a) ==
    /\ \A g \in Gate : Given(g) => Given(g)'
    /\ \A g \in Gate : Behind(g) => Behind(g)'
    /\ a # Worker => mem'["worker"] = mem["worker"]
    /\ a = Worker => \A g \in Gate : Behind(g) /\ record[g] \in Action => record'[g] \in Action

LEMMA SureStep ==
  ASSUME OneAtATime, DeliveryInv, NEW a \in Consumer, Others(a), Relied(a), Certain(a)'
  PROVE  Sure'
  <1> SUFFICES ASSUME NEW b \in Consumer, b # a PROVE Certain(b)'
    BY DEF Sure
  <1>1. /\ at'[b] = at[b] /\ Certain(b) /\ Fit(at[b])
        /\ at[b].gate \in 0..MaxGates /\ at[b].todo \in SUBSET Gate
    BY Shapes DEF Others, DeliveryInv, Sure, Inv, Threads, Thread
  <1>2. at[b].pc \in InLoop => /\ at'[b].cmd \in at'[b].todo
                               /\ \A c \in at'[b].todo : Given(c)'
    BY <1>1 DEF Certain, Relied
  <1>3. at[b].pc \in Labelling \/ (at[b].pc = "store" /\ at[b].buf # "none")
        => Behind(at[b].gate)'
    BY <1>1 DEF Certain, Relied, Fit, Labelling, Behind
  <1>4. b = Worker /\ at[b].pc \in Applied => mem'["worker"][at[b].cmd] \in Action
    BY <1>1 DEF Certain, Relied
  <1>5. b # Worker /\ at[b].pc \in {"mark", "receipt"} => record'[at[b].cmd] \in Action
    <2> SUFFICES ASSUME b # Worker, at[b].pc \in {"mark", "receipt"}
                 PROVE  record'[at[b].cmd] \in Action
      OBVIOUS
    <2>1. a = Worker
      BY DEF OneAtATime, Consumer
    <2>2. at[b].cmd \in Gate /\ Given(at[b].cmd)
      BY <1>1 DEF Fit, Certain, InLoop
    <2>3. Behind(at[b].cmd) /\ record[at[b].cmd] \in Action
      BY <1>1, <2>2 DEF Certain, DeliveryInv, Raised
    <2> QED BY <2>1, <2>2, <2>3 DEF Relied
  <1> QED BY <1>1, <1>2, <1>3, <1>4, <1>5 DEF Certain

\* A step of an annotator, which the worker does not see but in the log.
LEMMA AnnotatorDelivers ==
  ASSUME OneAtATime, DeliveryInv, NEW a \in Annotator, Others(a),
         mem'["worker"] = mem["worker"],
         \A g \in receipts' : g \in receipts \/ Lasting(g)',
         \A g \in Gate : Lasting(g) => Lasting(g)'
  PROVE  Delivered'
  <1>1. at'[Worker] = at[Worker] /\ receipts \subseteq Gate
    BY Apart DEF Others, DeliveryInv, Inv, TypeOK
  <1> SUFFICES ASSUME NEW g \in receipts', Waits(g)', g \in receipts
               PROVE  Kept(g)' \/ Lasting(g)'
    BY DEF Delivered
  <1>2. Waits(g) /\ (Kept(g) => Kept(g)')
    BY <1>1 DEF Waits, Kept
  <1> QED BY <1>1, <1>2 DEF DeliveryInv, Delivered

\* A step of the worker that leaves the log of a decided gate decided.
LEMMA WorkerDelivers ==
  ASSUME OneAtATime, DeliveryInv, Others(Worker), mem'["api"] = mem["api"],
         at'[Worker].gate = at[Worker].gate, at[Worker].pc \notin {"idle", "exited"},
         \A g \in Gate : record[g] \in Action => record'[g] \in Action,
         \A g \in receipts' : g \notin receipts => Kept(g)',
         \A g \in receipts : Waits(g)' /\ Kept(g) => Kept(g)'
  PROVE  Delivered'
  <1> SUFFICES ASSUME NEW g \in receipts, Waits(g)' PROVE Kept(g)' \/ Lasting(g)'
    BY DEF Delivered
  <1>1. g \in Gate /\ Waits(g)
    BY DEF Waits, DeliveryInv, Inv, TypeOK
  <1>2. ASSUME Lasting(g) PROVE Lasting(g)'
    BY <1>1, <1>2, Apart DEF Lasting, Others
  <1> QED BY <1>1, <1>2 DEF DeliveryInv, Delivered
\* A step of a thread shows nothing of a gate that was not raised.
LEMMA RaisedStep ==
  ASSUME DeliveryInv, UNCHANGED <<command, req>>, at'[Worker].gate = at[Worker].gate,
         \A g \in receipts' : g \in receipts \/ Given(g),
         \A g \in Gate : record'[g] # "none" => record[g] # "none" \/ Behind(g),
         \A g \in Gate, p \in Process :
            mem'[p][g] # "none" => mem[p][g] # "none" \/ Behind(g)
  PROVE  Raised'
  BY DEF DeliveryInv, Raised, Given, Behind

\* What a thread at work is sure of.
LEMMA AtWork ==
  ASSUME OneAtATime, DeliveryInv, NEW a \in Consumer
  PROVE  /\ at \in [Consumer -> Thread] /\ at[a] \in Thread /\ Fit(at[a]) /\ Certain(a)
         /\ Worker \in Consumer /\ (a # Worker => a \in Annotator)
         /\ Of(a) = IF a = Worker THEN "worker" ELSE "api"
         /\ mem \in [Process -> [Gate -> Approval]] /\ record \in [Gate -> Approval]
         /\ at[a].pc \in InLoop => at[a].cmd \in Gate /\ Given(at[a].cmd) /\ Behind(at[a].cmd)
  <1>1. /\ at \in [Consumer -> Thread] /\ at[a] \in Thread /\ Fit(at[a]) /\ Certain(a)
        /\ mem \in [Process -> [Gate -> Approval]] /\ record \in [Gate -> Approval]
    BY Shapes DEF DeliveryInv, Inv, Threads, Sure, TypeOK
  <1>2. /\ Worker \in Consumer /\ (a # Worker => a \in Annotator)
        /\ Of(a) = IF a = Worker THEN "worker" ELSE "api"
    BY Apart DEF Consumer
  <1>3. at[a].pc \in InLoop => at[a].cmd \in Gate /\ Given(at[a].cmd)
    BY <1>1 DEF Fit, InLoop, Certain
  <1>4. at[a].pc \in InLoop => Behind(at[a].cmd)
    BY <1>3 DEF DeliveryInv, Raised
  <1> QED BY <1>1, <1>2, <1>3, <1>4

\* The worker stays at its gate when any thread goes on.
LEMMA SameGate ==
  ASSUME NEW a, Others(a), at'[a].gate = at[a].gate
  PROVE  at'[Worker].gate = at[Worker].gate
  BY DEF Others, Consumer

\* Only one annotator can be about to put a line over a decision.
LEMMA LastingStep ==
  ASSUME OneAtATime, NEW a \in Annotator, NEW g, record'[g] \in Action,
         at'[a].gate = g /\ at'[a].pc \in {"nstore", "append"} => at'[a].buf \in Action,
         at'[a].gate = g /\ at'[a].pc = "edit" => mem'["api"][g] \in Action
  PROVE  Lasting(g)'
  BY DEF Lasting, OneAtATime

\* Reading the log.
LEMMA ReadDelivers ==
  ASSUME OneAtATime, DeliveryInv, NEW a \in Consumer, NEW g, NEW from, NEW to,
         RefreshRead(a, g, from, to),
         \/ from = "read" /\ to = "store" /\ g = at[a].gate
         \/ from = "nread" /\ to = "nstore" /\ g = at[a].gate /\ a # Worker
         \/ from = "cread" /\ to = "cstore" /\ g = at[a].cmd
  PROVE  Raised' /\ Sure' /\ Delivered'
  <1>1. /\ at \in [Consumer -> Thread] /\ at[a] \in Thread /\ Fit(at[a]) /\ Certain(a)
        /\ Worker \in Consumer /\ (a # Worker => a \in Annotator)
    BY AtWork
  <1>2. /\ at[a].pc = from /\ at'[a].pc = to /\ at'[a].buf = record[g]
        /\ at'[a].gate = at[a].gate /\ at'[a].todo = at[a].todo /\ at'[a].cmd = at[a].cmd
        /\ Others(a)
    BY <1>1 DEF RefreshRead, Thread, Others
  <1>3. /\ UNCHANGED <<record, command, receipts, mem, req>>
        /\ at'[Worker].gate = at[Worker].gate
    BY <1>2, SameGate DEF RefreshRead, disk
  <1>4. Raised'
    BY <1>3, RaisedStep
  <1>5. Relied(a)
    BY <1>3 DEF Relied, Given, Behind
  <1>6. Certain(a)'
    <2>1. at[a].pc \notin {"idle", "exited"} /\ at[a].gate \in Gate
      BY <1>1, <1>2 DEF Fit
    <2>2. from = "read" /\ record[g] # "none" => Behind(at[a].gate)
      BY <2>1 DEF DeliveryInv, Raised
    <2>3. at[a].pc = "nread" => Behind(at[a].gate)
      BY <1>1 DEF Certain, Labelling
    <2>4. at'[a].pc \in Labelling \/ (at'[a].pc = "store" /\ at'[a].buf # "none")
          => Behind(at[a].gate)'
      BY <1>2, <1>3, <2>2, <2>3 DEF Behind, Labelling
    <2>5. at'[a].pc \in InLoop => at'[a].cmd \in at'[a].todo /\ \A c \in at'[a].todo : Given(c)'
      BY <1>1, <1>2, <1>3 DEF Certain, Given, InLoop
    <2>6. at'[a].pc \notin {"persist", "mark", "receipt"}
      BY <1>2
    <2> QED BY <2>4, <2>5, <2>6 DEF Certain, Applied
  <1>7. Sure'
    BY <1>2, <1>5, <1>6, SureStep
  <1>8. CASE a = Worker
    <2>1. \A h \in receipts : Waits(h)' /\ Kept(h) => Kept(h)'
      BY <1>2, <1>3, <1>8 DEF Kept, InLoop, Applied
    <2>2. /\ at[Worker].pc \notin {"idle", "exited"} /\ mem'["api"] = mem["api"]
          /\ Others(Worker)
          /\ \A h \in Gate : record[h] \in Action => record'[h] \in Action
          /\ \A h \in receipts' : h \notin receipts => Kept(h)'
      BY <1>2, <1>3, <1>8
    <2> QED BY <1>2, <1>3, <1>4, <1>7, <1>8, <2>1, <2>2, WorkerDelivers
  <1>9. CASE a # Worker
    <2>1. ASSUME NEW h \in Gate, Lasting(h) PROVE Lasting(h)'
      <3>1. record[h] \in Action /\ (at'[a].pc = "nstore" /\ at[a].gate = h => g = h)
        BY <1>2, <2>1 DEF Lasting
      <3>2. at'[a].pc \notin {"edit", "append"}
        BY <1>2
      <3> QED BY <1>1, <1>2, <1>3, <1>9, <2>1, <3>1, <3>2, LastingStep
    <2>2. /\ mem'["worker"] = mem["worker"] /\ \A h \in receipts' : h \in receipts
          /\ \A h \in Gate : Lasting(h) => Lasting(h)'
      BY <1>3, <2>1
    <2> QED BY <1>1, <1>2, <1>4, <1>7, <1>9, <2>1, <2>2, AnnotatorDelivers
  <1> QED BY <1>4, <1>7, <1>8, <1>9

\* Replacing the object in memory.
LEMMA StoreDelivers ==
  ASSUME OneAtATime, DeliveryInv, NEW a \in Consumer, NEW g, NEW from, NEW to,
         RefreshStore(a, g, from, to),
         \/ from = "store" /\ to = "scan" /\ g = at[a].gate
         \/ from = "nstore" /\ to = "edit" /\ g = at[a].gate /\ a # Worker
         \/ from = "cstore" /\ to = "apply" /\ g = at[a].cmd
  PROVE  Raised' /\ Sure' /\ Delivered'
  <1>1. /\ at \in [Consumer -> Thread] /\ at[a] \in Thread /\ Fit(at[a]) /\ Certain(a)
        /\ Worker \in Consumer /\ (a # Worker => a \in Annotator)
        /\ Of(a) = IF a = Worker THEN "worker" ELSE "api"
        /\ mem \in [Process -> [Gate -> Approval]]
    BY AtWork
  <1>2. /\ at[a].pc = from /\ at'[a].pc = to /\ at'[a].buf = "none"
        /\ at'[a].gate = at[a].gate /\ at'[a].todo = at[a].todo /\ at'[a].cmd = at[a].cmd
        /\ Others(a)
    BY <1>1 DEF RefreshStore, Thread, Others
  <1>3. /\ UNCHANGED <<record, command, receipts, req>>
        /\ at'[Worker].gate = at[Worker].gate
    BY <1>2, SameGate DEF RefreshStore, disk
  <1>4. g \in Gate /\ (at[a].buf # "none" => Behind(g))
    <2>1. from = "cstore" => g \in Gate /\ Behind(g)
      BY <1>2, AtWork DEF InLoop
    <2> QED BY <1>1, <1>2, <2>1 DEF Fit, Certain, Labelling
  <1>5. \A p \in Process, h \in Gate :
           mem'[p][h] = IF p = Of(a) /\ h = g /\ at[a].buf # "none" THEN at[a].buf
                        ELSE mem[p][h]
    BY <1>1, <1>4 DEF RefreshStore, Process
  <1>6. /\ a = Worker => mem'["api"] = mem["api"]
        /\ a # Worker => mem'["worker"] = mem["worker"]
    BY <1>1 DEF RefreshStore, Process
  <1>7. Raised'
    BY <1>3, <1>4, <1>5, RaisedStep
  <1>8. Relied(a)
    BY <1>3, <1>6 DEF Relied, Given, Behind
  <1>9. Certain(a)'
    BY <1>1, <1>2, <1>3 DEF Certain, Given, Behind, InLoop, Applied, Labelling
  <1>10. Sure'
    BY <1>2, <1>8, <1>9, SureStep
  <1>11. CASE a = Worker
    <2>1. ASSUME NEW h \in receipts, Kept(h) PROVE Kept(h)'
      <3>1. h \in Gate /\ from = "cstore" /\ h \notin at[Worker].todo
        BY <1>2, <1>11, <2>1 DEF DeliveryInv, Inv, TypeOK, Kept, InLoop, Applied
      <3>2. h # g
        BY <1>1, <1>2, <1>11, <3>1 DEF Certain, InLoop
      <3>3. mem'["worker"][h] = mem["worker"][h]
        BY <1>5, <3>1, <3>2 DEF Process
      <3> QED BY <1>2, <1>11, <2>1, <3>1, <3>3 DEF Kept, InLoop, Applied
    <2>2. /\ at[Worker].pc \notin {"idle", "exited"}
          /\ mem'["api"] = mem["api"] /\ Others(Worker)
          /\ \A h \in Gate : record[h] \in Action => record'[h] \in Action
          /\ \A h \in receipts' : h \notin receipts => Kept(h)'
      BY <1>2, <1>3, <1>6, <1>11
    <2> QED BY <1>2, <1>3, <1>7, <1>10, <1>11, <2>1, <2>2, WorkerDelivers
  <1>12. CASE a # Worker
    <2>1. ASSUME NEW h \in Gate, Lasting(h) PROVE Lasting(h)'
      <3>1. CASE to = "edit" /\ at[a].gate = h
        <4>1. at[a].buf \in Action /\ at[a].buf # "none"
          BY <1>1, <1>2, <1>12, <2>1, <3>1, ActionAssumption DEF Lasting
        <4>2. mem'["api"][h] \in Action
          BY <1>1, <1>2, <1>5, <1>12, <3>1, <4>1 DEF Process
        <4>3. at'[a].pc \notin {"nstore", "append"}
          BY <1>2
        <4> QED BY <1>1, <1>2, <1>3, <1>12, <2>1, <4>2, <4>3, LastingStep DEF Lasting
      <3>2. CASE ~(to = "edit" /\ at[a].gate = h)
        <4>1. at'[a].gate = h => at'[a].pc \notin {"nstore", "append", "edit"}
          BY <1>2, <3>2
        <4> QED BY <1>1, <1>3, <1>12, <2>1, <4>1, LastingStep DEF Lasting
      <3> QED BY <3>1, <3>2
    <2>2. \A h \in receipts' : h \in receipts
      BY <1>3
    <2> QED BY <1>1, <1>2, <1>6, <1>7, <1>10, <1>12, <2>1, <2>2, AnnotatorDelivers
  <1> QED BY <1>7, <1>10, <1>11, <1>12
\* Out of the loop over the commands, or on to one that is left.
LEMMA LoopGoes ==
  ASSUME DeliveryInv, NEW a \in Consumer, NEW rest, Loop(a, rest)
  PROVE  /\ Others(a) /\ at'[a].gate = at[a].gate
         /\ \/ at'[a].pc = "check"
            \/ at'[a].pc = "cread" /\ at'[a].cmd \in rest /\ at'[a].todo = rest
  <1>1. at \in [Consumer -> Thread] /\ at[a] \in Thread
    BY Shapes DEF DeliveryInv, Inv
  <1>2. CASE at' = [at EXCEPT ![a].pc = "check", ![a].todo = {}, ![a].cmd = 0]
    BY <1>1, <1>2 DEF Thread, Others
  <1>3. ASSUME NEW c \in rest,
               at' = [at EXCEPT ![a].pc = "cread", ![a].todo = rest, ![a].cmd = c]
        PROVE  /\ Others(a) /\ at'[a].gate = at[a].gate
               /\ at'[a].pc = "cread" /\ at'[a].cmd \in rest /\ at'[a].todo = rest
    BY <1>1, <1>3 DEF Thread, Others
  <1> QED BY <1>2, <1>3 DEF Loop

\* What goes through the loop: the scan, a skipped command, a receipt.
LEMMA LoopDelivers ==
  ASSUME OneAtATime, DeliveryInv, NEW a \in Consumer, NEW rest \in SUBSET Gate,
         Loop(a, rest), at[a].pc \in {"scan", "apply", "receipt"},
         UNCHANGED <<record, command, mem, req>>,
         \A c \in rest : Given(c),
         \A g \in receipts : a = Worker /\ Kept(g) => g \notin rest,
         \/ receipts' = receipts
         \/ at[a].pc = "receipt" /\ receipts' = receipts \cup {at[a].cmd} /\ at[a].cmd \notin rest
  PROVE  Raised' /\ Sure' /\ Delivered'
  <1>1. /\ Certain(a) /\ Worker \in Consumer /\ (a # Worker => a \in Annotator)
        /\ (at[a].pc = "receipt" => at[a].cmd \in Gate /\ Given(at[a].cmd))
    BY AtWork DEF InLoop
  <1>2. /\ Others(a) /\ at'[a].gate = at[a].gate
        /\ \/ at'[a].pc = "check"
           \/ at'[a].pc = "cread" /\ at'[a].cmd \in rest /\ at'[a].todo = rest
    BY LoopGoes
  <1>3. at'[Worker].gate = at[Worker].gate
    BY <1>2, SameGate
  <1>4. Raised'
    BY <1>1, <1>3, RaisedStep
  <1>5. Relied(a)
    BY <1>3 DEF Relied, Given, Behind
  <1>6. Certain(a)'
    BY <1>2 DEF Certain, Given, InLoop, Applied, Labelling
  <1>7. Sure'
    BY <1>2, <1>5, <1>6, SureStep
  <1>8. CASE a = Worker
    <2>1. ASSUME NEW g \in receipts', g \notin receipts PROVE Kept(g)'
      <3>1. g = at[a].cmd /\ g \notin rest /\ at[a].pc = "receipt"
        BY <2>1
      <3>2. mem["worker"][g] \in Action
        BY <1>1, <1>8, <3>1 DEF Certain, Applied
      <3> QED BY <1>2, <1>8, <3>1, <3>2 DEF Kept, InLoop, Applied
    <2>2. ASSUME NEW g \in receipts, Kept(g) PROVE Kept(g)'
      BY <1>2, <1>8, <2>2 DEF Kept, InLoop, Applied
    <2>3. /\ at[Worker].pc \notin {"idle", "exited"} /\ Others(Worker)
          /\ mem'["api"] = mem["api"] /\ at'[Worker].gate = at[Worker].gate
          /\ \A g \in Gate : record[g] \in Action => record'[g] \in Action
      BY <1>2, <1>8
    <2>4. Delivered'
      BY <2>1, <2>2, <2>3, WorkerDelivers
    <2> QED BY <1>4, <1>7, <2>4
  <1>9. CASE a # Worker
    <2>1. ASSUME NEW g \in Gate, record[g] \in Action PROVE Lasting(g)'
      <3>1. record'[g] \in Action /\ at'[a].pc \notin {"nstore", "append", "edit"}
        BY <1>2, <2>1
      <3> QED BY <1>1, <1>9, <3>1, LastingStep
    <2>2. \A g \in Gate : Lasting(g) => Lasting(g)'
      BY <2>1 DEF Lasting
    <2>3. ASSUME NEW g \in receipts', g \notin receipts PROVE Lasting(g)'
      <3>1. g = at[a].cmd /\ at[a].pc = "receipt"
        BY <2>3
      <3>2. record[g] \in Action
        BY <1>1, <1>9, <3>1 DEF Certain
      <3> QED BY <1>1, <2>1, <3>1, <3>2
    <2>4. Delivered'
      BY <1>1, <1>2, <1>9, <2>2, <2>3, AnnotatorDelivers
    <2> QED BY <1>4, <1>7, <2>4
  <1> QED BY <1>8, <1>9

\* Looking at the bus for commands without a receipt.
LEMMA ScanDelivers ==
  ASSUME OneAtATime, DeliveryInv, NEW a \in Consumer, ScanBus(a)
  PROVE  Raised' /\ Sure' /\ Delivered'
  <1>1. /\ Pending \in SUBSET Gate /\ \A c \in Pending : Given(c)
        /\ \A g \in receipts : g \notin Pending
    BY DEF Pending, Given
  <1>2. /\ Loop(a, Pending) /\ at[a].pc \in {"scan", "apply", "receipt"}
        /\ UNCHANGED <<record, command, mem, req>> /\ receipts' = receipts
    BY DEF ScanBus, disk
  <1> QED BY <1>1, <1>2, LoopDelivers

\* The receipt of an applied command.
LEMMA ReceiptDelivers ==
  ASSUME OneAtATime, DeliveryInv, NEW a \in Consumer, Receipt(a)
  PROVE  Raised' /\ Sure' /\ Delivered'
  <1> DEFINE rest == at[a].todo \ {at[a].cmd}
  <1>1. /\ at[a].pc = "receipt" /\ at[a] \in Thread
        /\ \A c \in at[a].todo : Given(c)
    BY AtWork DEF Receipt, Certain, InLoop
  <1>2. rest \in SUBSET Gate /\ at[a].cmd \notin rest /\ \A c \in rest : Given(c)
    BY <1>1 DEF Thread
  <1>3. /\ Loop(a, rest) /\ UNCHANGED <<record, command, mem, req>>
        /\ receipts' = receipts \cup {at[a].cmd}
    BY DEF Receipt
  <1>4. \A g \in receipts : a = Worker /\ Kept(g) => g \notin rest
    BY <1>1 DEF Kept, InLoop, Applied
  <1> HIDE DEF rest
  <1> QED BY <1>1, <1>2, <1>3, <1>4, LoopDelivers
\* A thread that applies a command, on its way to the receipt.
LEMMA ApplyingDelivers ==
  ASSUME OneAtATime, DeliveryInv, NEW a \in Consumer, Others(a),
         at[a].pc \in {"apply"} \cup Applied, at'[a].pc \in Applied,
         at'[a].gate = at[a].gate, at'[a].todo = at[a].todo, at'[a].cmd = at[a].cmd,
         receipts' = receipts,
         a = Worker => mem'["api"] = mem["api"],
         a # Worker => mem'["worker"] = mem["worker"],
         \A g \in Gate : record[g] \in Action => record'[g] \in Action,
         \A g \in receipts : a = Worker /\ Kept(g) => mem'["worker"][g] \in Action
  PROVE  Delivered'
  <1>1. a # Worker => a \in Annotator
    BY AtWork
  <1>2. CASE a = Worker
    <2>1. \A g \in receipts : Kept(g) => Kept(g)'
      BY <1>2 DEF Kept, InLoop, Applied
    <2>2. /\ at[Worker].pc \notin {"idle", "exited"} /\ Others(Worker)
          /\ mem'["api"] = mem["api"] /\ at'[Worker].gate = at[Worker].gate
          /\ \A g \in receipts' : g \notin receipts => Kept(g)'
      BY <1>2 DEF Applied
    <2> QED BY <2>1, <2>2, WorkerDelivers
  <1>3. CASE a # Worker
    <2>1. ASSUME NEW g \in Gate, Lasting(g) PROVE Lasting(g)'
      <3>1. record'[g] \in Action /\ at'[a].pc \notin {"nstore", "append", "edit"}
        BY <2>1 DEF Lasting, Applied
      <3> QED BY <1>1, <1>3, <3>1, LastingStep
    <2> QED BY <1>1, <1>3, <2>1, AnnotatorDelivers
  <1> QED BY <1>2, <1>3

\* A command is applied to a pending approval, or skipped.
LEMMA ApplyDelivers ==
  ASSUME OneAtATime, DeliveryInv, NEW a \in Consumer, Apply(a)
  PROVE  Raised' /\ Sure' /\ Delivered'
  <1> DEFINE c == at[a].cmd
             x == command[c].action
  <1>1. /\ at \in [Consumer -> Thread] /\ at[a] \in Thread /\ Certain(a)
        /\ Of(a) = IF a = Worker THEN "worker" ELSE "api"
        /\ mem \in [Process -> [Gate -> Approval]]
    BY AtWork
  <1>2. at[a].pc = "apply"
    BY DEF Apply
  <1>3. c \in Gate /\ Given(c) /\ Behind(c) /\ c \in at[a].todo /\ \A d \in at[a].todo : Given(d)
    BY <1>1, <1>2, AtWork DEF Certain, InLoop
  <1>4. UNCHANGED <<record, command, receipts, req>>
    BY DEF Apply, disk
  <1>5. CASE mem[Of(a)][c] = "pending"
    <2>1. x \in Action
      BY <1>3 DEF DeliveryInv, Inv, TypeOK, Given, Decision
    <2>2. /\ mem' = [mem EXCEPT ![Of(a)][c] = x]
          /\ at' = [at EXCEPT ![a].pc = "persist", ![a].buf = x]
      BY <1>5 DEF Apply
    <2>3. /\ Others(a) /\ at'[a].gate = at[a].gate /\ at'[a].todo = at[a].todo
          /\ at'[a].cmd = at[a].cmd /\ at'[a].pc = "persist" /\ at'[a].buf = x
      BY <1>1, <2>2 DEF Thread, Others
    <2>4. \A p \in Process, h \in Gate :
             mem'[p][h] = IF p = Of(a) /\ h = c THEN x ELSE mem[p][h]
      BY <1>1, <1>3, <2>2 DEF Process
    <2>5. /\ a = Worker => mem'["api"] = mem["api"]
          /\ a # Worker => mem'["worker"] = mem["worker"]
      BY <1>1, <2>2 DEF Process
    <2>6. at'[Worker].gate = at[Worker].gate
      BY <2>3, SameGate
    <2> HIDE DEF x, c
    <2>7. Raised'
      BY <1>3, <1>4, <2>4, <2>6, RaisedStep
    <2>8. Relied(a)
      BY <1>4, <2>5, <2>6 DEF Relied, Given, Behind
    <2>9. a = Worker => mem'["worker"][c] \in Action
      BY <1>1, <1>3, <2>1, <2>4 DEF Process
    <2>10. Certain(a)'
      BY <1>3, <1>4, <2>1, <2>3, <2>9 DEF Certain, Given, InLoop, Applied, Labelling, c
    <2>11. Sure'
      BY <2>3, <2>8, <2>10, SureStep
    <2>12. ASSUME NEW h \in receipts, a = Worker, Kept(h)
           PROVE  mem'["worker"][h] \in Action
      <3>1. h \in Gate
        BY DEF DeliveryInv, Inv, TypeOK
      <3>2. mem["worker"][h] \in Action
        BY <2>12 DEF Kept
      <3>3. mem'["worker"][h] = mem["worker"][h] \/ mem'["worker"][h] = x
        BY <2>4, <3>1 DEF Process
      <3> QED BY <2>1, <3>2, <3>3
    <2>13. \A g \in Gate : record[g] \in Action => record'[g] \in Action
      BY <1>4
    <2>14. Delivered'
      BY <1>2, <1>4, <2>3, <2>5, <2>12, <2>13, ApplyingDelivers DEF Applied
    <2> QED BY <2>7, <2>11, <2>14
  <1>6. CASE mem[Of(a)][c] # "pending"
    <2>1. Loop(a, at[a].todo \ {c}) /\ mem' = mem
      BY <1>6 DEF Apply
    <2>2. at[a].todo \ {c} \in SUBSET Gate
      BY <1>1 DEF Thread
    <2>3. \A g \in receipts : a = Worker /\ Kept(g) => g \notin at[a].todo \ {c}
      BY <1>2 DEF Kept, InLoop, Applied
    <2> HIDE DEF c
    <2> QED BY <1>2, <1>3, <1>4, <2>1, <2>2, <2>3, LoopDelivers
  <1> QED BY <1>5, <1>6

\* The applied decision is appended to the log.
LEMMA PersistDelivers ==
  ASSUME OneAtATime, DeliveryInv, NEW a \in Consumer, Persist(a)
  PROVE  Raised' /\ Sure' /\ Delivered'
  <1> DEFINE c == at[a].cmd
  <1>1. /\ at \in [Consumer -> Thread] /\ at[a] \in Thread /\ Certain(a)
        /\ record \in [Gate -> Approval]
    BY AtWork
  <1>2. at[a].pc = "persist" /\ at[a].buf \in Action
    BY <1>1 DEF Persist, Certain
  <1>3. c \in Gate /\ Behind(c) /\ c \in at[a].todo /\ \A d \in at[a].todo : Given(d)
    BY <1>1, <1>2, AtWork DEF Certain, InLoop
  <1>4. UNCHANGED <<command, receipts, mem, req>>
    BY DEF Persist
  <1>5. /\ Others(a) /\ at'[a].gate = at[a].gate /\ at'[a].todo = at[a].todo
        /\ at'[a].cmd = at[a].cmd /\ at'[a].pc \in {"mark", "receipt"}
    BY <1>1 DEF Persist, Thread, Others
  <1>6. \A h \in Gate : record'[h] = IF h = c THEN at[a].buf ELSE record[h]
    BY <1>1, <1>3 DEF Persist
  <1>7. at'[Worker].gate = at[Worker].gate
    BY <1>5, SameGate
  <1>8. Raised'
    BY <1>3, <1>4, <1>6, <1>7, RaisedStep
  <1>9. \A g \in Gate : record[g] \in Action => record'[g] \in Action
    BY <1>2, <1>6
  <1>10. Relied(a)
    BY <1>4, <1>7, <1>9 DEF Relied, Given, Behind
  <1>11. Certain(a)'
    <2>1. record'[c] \in Action
      BY <1>2, <1>3, <1>6
    <2>2. a = Worker => mem["worker"][c] \in Action
      BY <1>1, <1>2 DEF Certain, Applied
    <2> QED BY <1>3, <1>4, <1>5, <2>1, <2>2 DEF Certain, Given, InLoop, Applied, Labelling
  <1>12. Sure'
    BY <1>5, <1>10, <1>11, SureStep
  <1>13. Delivered'
    <2>1. \A g \in receipts : a = Worker /\ Kept(g) => mem'["worker"][g] \in Action
      BY <1>4 DEF Kept
    <2>2. at[a].pc \in {"apply"} \cup Applied /\ at'[a].pc \in Applied
      BY <1>2, <1>5 DEF Applied
    <2> QED BY <1>4, <1>5, <1>9, <2>1, <2>2, ApplyingDelivers
  <1> QED BY <1>8, <1>12, <1>13

\* A stop is marked before its receipt.
LEMMA MarkDelivers ==
  ASSUME OneAtATime, DeliveryInv, NEW a \in Consumer, Mark(a)
  PROVE  Raised' /\ Sure' /\ Delivered'
  <1>1. at \in [Consumer -> Thread] /\ at[a] \in Thread /\ Certain(a) /\ at[a].pc = "mark"
    BY AtWork DEF Mark
  <1>2. UNCHANGED <<record, command, receipts, mem, req>>
    BY DEF Mark
  <1>3. /\ Others(a) /\ at'[a].gate = at[a].gate /\ at'[a].todo = at[a].todo
        /\ at'[a].cmd = at[a].cmd /\ at'[a].pc = "receipt"
    BY <1>1 DEF Mark, Goto, Thread, Others
  <1>4. at'[Worker].gate = at[Worker].gate
    BY <1>3, SameGate
  <1>5. Raised'
    BY <1>2, <1>4, RaisedStep
  <1>6. Relied(a)
    BY <1>2, <1>4 DEF Relied, Given, Behind
  <1>7. Certain(a)'
    BY <1>1, <1>2, <1>3 DEF Certain, Given, InLoop, Applied, Labelling
  <1>8. Sure'
    BY <1>3, <1>6, <1>7, SureStep
  <1>9. Delivered'
    <2>1. \A g \in receipts : a = Worker /\ Kept(g) => mem'["worker"][g] \in Action
      BY <1>2 DEF Kept
    <2>2. at[a].pc \in {"apply"} \cup Applied /\ at'[a].pc \in Applied
      BY <1>1, <1>3 DEF Applied
    <2> QED BY <1>2, <1>3, <2>1, <2>2, ApplyingDelivers
  <1> QED BY <1>5, <1>8, <1>9

\* get_approval, whoever calls it.
LEMMA GetApprovalDelivers ==
  ASSUME OneAtATime, DeliveryInv, NEW a \in Consumer, GetApproval(a)
  PROVE  Raised' /\ Sure' /\ Delivered'
  <1>1. CASE RefreshRead(a, at[a].gate, "read", "store")
    BY <1>1, ReadDelivers
  <1>2. CASE RefreshStore(a, at[a].gate, "store", "scan")
    BY <1>2, StoreDelivers
  <1>3. CASE RefreshRead(a, at[a].cmd, "cread", "cstore")
    BY <1>3, ReadDelivers
  <1>4. CASE RefreshStore(a, at[a].cmd, "cstore", "apply")
    BY <1>4, StoreDelivers
  <1> QED BY <1>1, <1>2, <1>3, <1>4, ScanDelivers, ApplyDelivers, PersistDelivers,
             MarkDelivers, ReceiptDelivers DEF GetApproval
\* A step of an annotator outside get_approval.
LEMMA LabelDelivers ==
  ASSUME OneAtATime, DeliveryInv, NEW a \in Annotator, Others(a), Certain(a)',
         UNCHANGED <<command, receipts, mem, req>>,
         \A g \in Gate : record'[g] # "none" => record[g] # "none" \/ Behind(g),
         \A g \in Gate : Lasting(g) => Lasting(g)'
  PROVE  Raised' /\ Sure' /\ Delivered'
  <1>1. a \in Consumer /\ a # Worker /\ Worker \in Consumer
    BY Apart
  <1>2. at'[Worker] = at[Worker]
    BY <1>1 DEF Others
  <1>3. Raised'
    BY <1>2, RaisedStep
  <1>4. Relied(a)
    BY <1>1, <1>2 DEF Relied, Given, Behind
  <1>5. Sure'
    BY <1>1, <1>4, SureStep
  <1>6. Delivered'
    BY AnnotatorDelivers
  <1> QED BY <1>3, <1>5, <1>6

\* The annotate route.
LEMMA AnnotateDelivers ==
  ASSUME OneAtATime, DeliveryInv, NEW a \in Annotator,
         AnnotatorStep(a) \/ \E g \in Gate : Annotate(a, g)
  PROVE  Raised' /\ Sure' /\ Delivered'
  <1>1. /\ at \in [Consumer -> Thread] /\ at[a] \in Thread /\ Fit(at[a]) /\ Certain(a)
        /\ a \in Consumer /\ a # Worker
        /\ mem \in [Process -> [Gate -> Approval]] /\ record \in [Gate -> Approval]
    BY AtWork, Apart
  <1>2. CASE GetApproval(a)
    BY <1>1, <1>2, GetApprovalDelivers
  <1>3. CASE RefreshRead(a, at[a].gate, "nread", "nstore")
    BY <1>1, <1>3, ReadDelivers
  <1>4. CASE RefreshStore(a, at[a].gate, "nstore", "edit")
    BY <1>1, <1>4, StoreDelivers
  <1>5. ASSUME NEW g \in Gate, Annotate(a, g)
        PROVE  Raised' /\ Sure' /\ Delivered'
    <2>1. /\ at' = [at EXCEPT ![a] = [Idle EXCEPT !.pc = "read", !.gate = g]]
          /\ UNCHANGED <<record, command, receipts, mem, req>>
      BY <1>5 DEF Annotate, disk
    <2>2. Others(a) /\ at'[a].pc = "read"
      BY <1>1, <2>1 DEF Others, Idle
    <2>3. Certain(a)'
      BY <1>1, <2>2 DEF Certain, InLoop, Applied, Labelling
    <2>4. ASSUME NEW h \in Gate, Lasting(h) PROVE Lasting(h)'
      BY <2>1, <2>2, <2>4, LastingStep DEF Lasting
    <2> QED BY <2>1, <2>2, <2>3, <2>4, LabelDelivers
  <1>6. CASE AnnotateCheck(a)
    <2>1. UNCHANGED <<record, command, receipts, mem, req>> /\ at[a].pc = "check"
      BY <1>6 DEF AnnotateCheck, disk
    <2>2. at[a].gate \in Gate
      BY <1>1, <2>1 DEF Fit
    <2>3. CASE mem["api"][at[a].gate] = "pending"
      <3>1. at' = [at EXCEPT ![a].pc = "nread"]
        BY <1>6, <2>3 DEF AnnotateCheck
      <3>2. Others(a) /\ at'[a].pc = "nread" /\ at'[a].gate = at[a].gate
        BY <1>1, <3>1 DEF Others, Thread
      <3>3. Behind(at[a].gate)
        BY <2>2, <2>3 DEF DeliveryInv, Raised, Process
      <3>4. at'[Worker] = at[Worker]
        BY <1>1, <3>2, Apart DEF Others
      <3>5. Certain(a)'
        BY <1>1, <3>2, <3>3, <3>4 DEF Certain, InLoop, Applied, Labelling, Behind
      <3>6. ASSUME NEW h \in Gate, Lasting(h) PROVE Lasting(h)'
        BY <2>1, <3>2, <3>6, LastingStep DEF Lasting
      <3> QED BY <2>1, <3>2, <3>5, <3>6, LabelDelivers
    <2>4. CASE mem["api"][at[a].gate] # "pending"
      <3>1. at' = [at EXCEPT ![a] = Idle]
        BY <1>6, <2>4 DEF AnnotateCheck
      <3>2. Others(a) /\ at'[a].pc = "idle"
        BY <1>1, <3>1 DEF Others, Idle
      <3>3. Certain(a)'
        BY <1>1, <3>2 DEF Certain, InLoop, Applied, Labelling
      <3>4. ASSUME NEW h \in Gate, Lasting(h) PROVE Lasting(h)'
        BY <2>1, <3>2, <3>4, LastingStep DEF Lasting
      <3> QED BY <2>1, <3>2, <3>3, <3>4, LabelDelivers
    <2> QED BY <2>3, <2>4
  <1>7. CASE AnnotateEdit(a)
    <2>1. UNCHANGED <<record, command, receipts, mem, req>> /\ at[a].pc = "edit"
      BY <1>7 DEF AnnotateEdit, disk
    <2>2. /\ Others(a) /\ at'[a].pc = "append" /\ at'[a].gate = at[a].gate
          /\ at'[a].buf = mem["api"][at[a].gate]
      BY <1>1, <1>7 DEF AnnotateEdit, Others, Thread
    <2>3. at'[Worker] = at[Worker]
      BY <1>1, <2>2, Apart DEF Others
    <2>4. Certain(a)'
      BY <1>1, <2>1, <2>2, <2>3 DEF Certain, InLoop, Applied, Labelling, Behind
    <2>5. ASSUME NEW h \in Gate, Lasting(h) PROVE Lasting(h)'
      <3>1. record'[h] \in Action /\ (at'[a].gate = h => at'[a].buf \in Action)
        BY <2>1, <2>2, <2>5 DEF Lasting
      <3>2. at'[a].pc # "edit"
        BY <2>2
      <3> QED BY <3>1, <3>2, LastingStep
    <2> QED BY <2>1, <2>2, <2>4, <2>5, LabelDelivers
  <1>8. CASE AnnotateAppend(a)
    <2>1. UNCHANGED <<command, receipts, mem, req>> /\ at[a].pc = "append"
      BY <1>8 DEF AnnotateAppend
    <2>2. at[a].gate \in Gate /\ Behind(at[a].gate)
      BY <1>1, <2>1 DEF Fit, Certain, Labelling
    <2>3. Others(a) /\ at'[a].pc = "idle"
      BY <1>1, <1>8 DEF AnnotateAppend, Others, Idle
    <2>4. \A h \in Gate : record'[h] = IF h = at[a].gate THEN at[a].buf ELSE record[h]
      BY <1>1, <1>8, <2>2 DEF AnnotateAppend
    <2>5. Certain(a)'
      BY <1>1, <2>3 DEF Certain, InLoop, Applied, Labelling
    <2>6. ASSUME NEW h \in Gate, Lasting(h) PROVE Lasting(h)'
      <3>1. record'[h] \in Action
        BY <2>1, <2>4, <2>6 DEF Lasting
      <3> QED BY <2>3, <3>1, LastingStep
    <2>7. \A h \in Gate : record'[h] # "none" => record[h] # "none" \/ Behind(h)
      BY <2>2, <2>4
    <2> QED BY <2>1, <2>3, <2>5, <2>6, <2>7, LabelDelivers
  <1> QED BY <1>2, <1>3, <1>4, <1>5, <1>6, <1>7, <1>8 DEF AnnotatorStep

\* A gate that is raised has no receipt yet.
LEMMA OpenGateDelivers ==
  ASSUME OneAtATime, DeliveryInv, OpenGate
  PROVE  Raised' /\ Sure' /\ Delivered'
  <1>1. /\ at \in [Consumer -> Thread] /\ at[Worker] \in Thread /\ Worker \in Consumer
        /\ mem \in [Process -> [Gate -> Approval]] /\ record \in [Gate -> Approval]
        /\ Of(Worker) = "worker" /\ at[Worker].gate \in 0..MaxGates
    BY AtWork, Apart DEF Thread
  <1>2. PICK g \in Gate : g = at[Worker].gate + 1
    BY <1>1, BoundAssumption DEF OpenGate, Gate
  <1>3. /\ UNCHANGED <<command, receipts, req>> /\ at[Worker].pc = "idle"
        /\ mem' = [mem EXCEPT !["worker"][g] = "pending"]
        /\ record' = [record EXCEPT ![g] = "pending"]
        /\ at' = [at EXCEPT ![Worker] = [Idle EXCEPT !.pc = "read", !.gate = g]]
    BY <1>1, <1>2 DEF OpenGate
  <1>4. Others(Worker) /\ at'[Worker].pc = "read" /\ at'[Worker].gate = g
    BY <1>1, <1>3 DEF Others, Idle
  <1>5. /\ \A h \in Gate : Behind(h) => h # g /\ Behind(h)'
        /\ Behind(g)'
    <2>1. \A h \in Gate : h \in Nat
      BY DEF Gate
    <2> QED BY <1>1, <1>2, <1>4, <2>1 DEF Behind
  <1>6. \A h \in Gate : record'[h] = IF h = g THEN "pending" ELSE record[h]
    BY <1>1, <1>2, <1>3
  <1>7. \A p \in Process, h \in Gate :
           mem'[p][h] = IF p = "worker" /\ h = g THEN "pending" ELSE mem[p][h]
    BY <1>1, <1>2, <1>3 DEF Process
  <1>8. Raised'
    <2>1. \A h \in receipts' : Given(h)'
      BY <1>3 DEF DeliveryInv, Raised, Given
    <2>2. ASSUME NEW h \in Gate, Given(h)' \/ record'[h] # "none" PROVE Behind(h)'
      <3>1. Given(h) \/ record[h] # "none" \/ h = g
        BY <1>3, <1>6, <2>2 DEF Given
      <3>2. Behind(h) \/ h = g
        BY <3>1 DEF DeliveryInv, Raised
      <3> QED BY <1>5, <3>2
    <2>3. ASSUME NEW h \in Gate, NEW p \in Process, mem'[p][h] # "none" PROVE Behind(h)'
      <3>1. mem[p][h] # "none" \/ h = g
        BY <1>7, <2>3
      <3>2. Behind(h) \/ h = g
        BY <3>1 DEF DeliveryInv, Raised
      <3> QED BY <1>5, <3>2
    <2>4. \A o \in Operator : req'[o].pc # "idle" => Behind(req[o].gate)'
      BY <1>3, <1>5 DEF DeliveryInv, Raised, Inv, Requests
    <2> QED BY <1>3, <2>1, <2>2, <2>3, <2>4 DEF Raised
  <1>9. Relied(Worker)
    BY <1>3, <1>5, <1>6 DEF Relied, Given
  <1>10. Certain(Worker)'
    BY <1>4 DEF Certain, InLoop, Applied, Labelling
  <1>11. Sure'
    BY <1>1, <1>4, <1>9, <1>10, SureStep
  <1>12. Delivered'
    <2>1. \A h \in receipts' : h \in Gate /\ Behind(h)
      BY <1>3 DEF DeliveryInv, Raised, Inv, TypeOK
    <2> QED BY <1>4, <1>5, <2>1 DEF Delivered, Waits
  <1> QED BY <1>8, <1>11, <1>12
\* The worker leaves the gate with a decision it has in memory.
LEMMA SeesDelivers ==
  ASSUME OneAtATime, DeliveryInv, WorkerSees
  PROVE  Raised' /\ Sure' /\ Delivered'
  <1> DEFINE g == at[Worker].gate
             m == mem["worker"][g]
  <1>1. /\ at \in [Consumer -> Thread] /\ at[Worker] \in Thread /\ Worker \in Consumer
        /\ Of(Worker) = "worker" /\ at[Worker].pc = "check"
    BY AtWork, Apart DEF WorkerSees
  <1>2. UNCHANGED <<record, command, receipts, mem, req>>
    BY DEF WorkerSees, disk
  <1>3. /\ Others(Worker) /\ at'[Worker].gate = g
        /\ IF m \in Action THEN at'[Worker].pc \in {"idle", "exited"}
           ELSE at'[Worker].pc = "read"
    BY <1>1 DEF WorkerSees, Goto, Thread, Others
  <1>4. Raised'
    BY <1>2, <1>3, RaisedStep
  <1>5. Relied(Worker)
    BY <1>2, <1>3 DEF Relied, Given, Behind
  <1>6. Certain(Worker)'
    BY <1>3 DEF Certain, InLoop, Applied, Labelling
  <1>7. Sure'
    BY <1>1, <1>3, <1>5, <1>6, SureStep
  <1>8. CASE m \in Action
    <2>1. Delivered'
      BY <1>3, <1>8 DEF Delivered, Waits
    <2> QED BY <1>4, <1>7, <2>1
  <1>9. CASE m \notin Action
    <2>1. \A h \in receipts : Waits(h)' /\ Kept(h) => Kept(h)'
      BY <1>3, <1>9 DEF Waits, Kept
    <2>2. /\ at[Worker].pc \notin {"idle", "exited"} /\ mem'["api"] = mem["api"]
          /\ \A h \in Gate : record[h] \in Action => record'[h] \in Action
          /\ \A h \in receipts' : h \notin receipts => Kept(h)'
      BY <1>1, <1>2
    <2>3. Delivered'
      BY <1>3, <2>1, <2>2, WorkerDelivers
    <2> QED BY <1>4, <1>7, <2>3
  <1> QED BY <1>8, <1>9

\* What a restart takes from a memory is not missed.
LEMMA RestartRaised ==
  ASSUME OneAtATime, DeliveryInv, NEW p \in Process,
         mem' = [mem EXCEPT ![p] = [g \in Gate |-> "none"]],
         UNCHANGED <<record, command, receipts>>, at'[Worker].gate = at[Worker].gate,
         req' = req \/ req' = [o \in Operator |-> NoRequest]
  PROVE  Raised'
  <1>1. mem \in [Process -> [Gate -> Approval]]
    BY DEF DeliveryInv, Inv, TypeOK
  <1>2. \A q \in Process, g \in Gate : mem'[q][g] = mem[q][g] \/ mem'[q][g] = "none"
    BY <1>1
  <1>3. \A o \in Operator : req'[o].pc # "idle" => req' = req
    BY DEF NoRequest
  <1> QED BY <1>2, <1>3 DEF DeliveryInv, Raised, Given, Behind

\* The worker dies: the new one raises a gate of its own.
LEMMA WorkerRestartDelivers ==
  ASSUME OneAtATime, DeliveryInv, WorkerRestart
  PROVE  Raised' /\ Sure' /\ Delivered'
  <1>1. /\ at \in [Consumer -> Thread] /\ Worker \in Consumer /\ Of(Worker) = "worker"
        /\ "worker" \in Process
    BY AtWork, Apart DEF Process
  <1>2. /\ UNCHANGED <<record, command, receipts>>
        /\ mem' = [mem EXCEPT !["worker"] = [g \in Gate |-> "none"]]
        /\ req' = req
        /\ at' = [a \in Consumer |->
                     IF a = Worker THEN [Idle EXCEPT !.gate = at[Worker].gate] ELSE at[a]]
    BY <1>1 DEF WorkerRestart, OneAtATime
  <1>3. /\ Others(Worker) /\ at'[Worker].pc = "idle" /\ at'[Worker].gate = at[Worker].gate
    BY <1>1, <1>2 DEF Others, Idle
  <1>4. Raised'
    BY <1>1, <1>2, <1>3, RestartRaised
  <1>5. Relied(Worker)
    BY <1>2, <1>3 DEF Relied, Given, Behind
  <1>6. Certain(Worker)'
    BY <1>3 DEF Certain, InLoop, Applied, Labelling
  <1>7. Sure'
    BY <1>1, <1>3, <1>5, <1>6, SureStep
  <1>8. Delivered'
    BY <1>3 DEF Delivered, Waits
  <1> QED BY <1>4, <1>7, <1>8

\* The API dies, and what it was about to append with it.
LEMMA ApiRestartDelivers ==
  ASSUME OneAtATime, DeliveryInv, ApiRestart
  PROVE  Raised' /\ Sure' /\ Delivered'
  <1>1. /\ at \in [Consumer -> Thread] /\ Worker \in Consumer /\ "api" \in Process
        /\ \A a \in Annotator : a \in Consumer /\ a # Worker
        /\ mem \in [Process -> [Gate -> Approval]]
    BY AtWork, Apart DEF Process
  <1>2. /\ UNCHANGED <<record, command, receipts>>
        /\ mem' = [mem EXCEPT !["api"] = [g \in Gate |-> "none"]]
        /\ req' = [o \in Operator |-> NoRequest]
        /\ at' = [a \in Consumer |-> IF a = Worker THEN at[a] ELSE Idle]
    BY DEF ApiRestart, disk
  <1>3. /\ at'[Worker] = at[Worker]
        /\ \A a \in Consumer : a # Worker => at'[a].pc = "idle"
        /\ mem'["worker"] = mem["worker"]
    BY <1>1, <1>2 DEF Idle, Process
  <1>4. Raised'
    BY <1>1, <1>2, <1>3, RestartRaised
  <1>5. Sure'
    <2> SUFFICES ASSUME NEW a \in Consumer PROVE Certain(a)'
      BY DEF Sure
    <2>1. CASE a = Worker
      BY <1>2, <1>3, <2>1 DEF DeliveryInv, Sure, Certain, Given, Behind
    <2>2. CASE a # Worker
      BY <1>3, <2>2 DEF Certain, InLoop, Applied, Labelling
    <2> QED BY <2>1, <2>2
  <1>6. Delivered'
    <2> SUFFICES ASSUME NEW g \in receipts, Waits(g)' PROVE Kept(g)' \/ Lasting(g)'
      BY <1>2 DEF Delivered
    <2>1. Waits(g) /\ (Kept(g) => Kept(g)')
      BY <1>3 DEF Waits, Kept
    <2>2. Lasting(g) => Lasting(g)'
      BY <1>1, <1>2, <1>3 DEF Lasting
    <2> QED BY <2>1, <2>2 DEF DeliveryInv, Delivered
  <1> QED BY <1>4, <1>5, <1>6

\* A request of the resolve route, which reads the log into the API's memory.
LEMMA ResolveDelivers ==
  ASSUME OneAtATime, DeliveryInv, NEW o \in Operator, NEW g \in Gate, NEW x \in Action,
         Resolve(o, g, x)
  PROVE  Raised' /\ Sure' /\ Delivered'
  <1>1. /\ mem \in [Process -> [Gate -> Approval]] /\ req \in [Operator -> Request]
        /\ receipts \subseteq Gate
    BY DEF DeliveryInv, Inv, TypeOK
  <1>2. UNCHANGED <<record, command, receipts, at>>
    BY DEF Resolve, disk
  <1>3. /\ \A h \in Gate : mem'["api"][h] = IF h = g /\ record[g] # "none" THEN record[g]
                                          ELSE mem["api"][h]
        /\ mem'["worker"] = mem["worker"]
    BY <1>1 DEF Resolve, Process
  <1>4. mem'["api"][g] = "pending" => Behind(g)
    BY <1>3 DEF DeliveryInv, Raised, Process
  <1>5. /\ req' = IF mem'["api"][g] = "pending"
                  THEN [req EXCEPT ![o] = [pc |-> "scan", gate |-> g,
                                           dec |-> [action |-> x, key |-> KeyOf[o]]]]
                  ELSE req
    BY DEF Resolve
  <1>6. Raised'
    <2>1. \A h \in Gate, p \in Process : mem'[p][h] # "none" => Behind(h)
      BY <1>3 DEF DeliveryInv, Raised, Process
    <2>2. \A q \in Operator : req'[q].pc # "idle" => Behind(req'[q].gate)
      BY <1>1, <1>4, <1>5 DEF DeliveryInv, Raised
    <2> QED BY <1>2, <2>1, <2>2 DEF DeliveryInv, Raised, Given, Behind
  <1>7. Sure'
    BY <1>2, <1>3 DEF DeliveryInv, Sure, Certain, Given, Behind
  <1>8. Delivered'
    <2> SUFFICES ASSUME NEW h \in receipts, Waits(h)' PROVE Kept(h)' \/ Lasting(h)'
      BY <1>2 DEF Delivered
    <2>1. Waits(h) /\ (Kept(h) => Kept(h)')
      BY <1>2, <1>3 DEF Waits, Kept
    <2>2. Lasting(h) => Lasting(h)'
      BY <1>1, <1>2, <1>3 DEF Lasting
    <2> QED BY <2>1, <2>2 DEF DeliveryInv, Delivered
  <1> QED BY <1>6, <1>7, <1>8

\* A request that is answered, or appends the command of its gate.
LEMMA RequestDelivers ==
  ASSUME OneAtATime, DeliveryInv, NEW o \in Operator, ResolveScan(o) \/ ResolveAppend(o)
  PROVE  Raised' /\ Sure' /\ Delivered'
  <1>1. /\ req \in [Operator -> Request] /\ command \in [Gate -> Decision \cup {NoCommand}]
        /\ req[o].pc # "idle"
    BY DEF DeliveryInv, Inv, TypeOK, ResolveScan, ResolveAppend
  <1>2. req[o].gate \in Gate /\ Behind(req[o].gate)
    BY <1>1 DEF DeliveryInv, Inv, Requests, Raised
  <1>3. UNCHANGED <<record, receipts, mem, at>>
    BY DEF ResolveScan, ResolveAppend, disk
  <1>4. \A h \in Gate : command'[h] = command[h] \/ (h = req[o].gate /\ ~Given(h))
    BY <1>1, <1>2 DEF ResolveScan, ResolveAppend, disk, Given
  <1>5. \A h \in Gate : Given(h) => Given(h)'
    BY <1>4 DEF Given
  <1>6. \/ req' = [req EXCEPT ![o].pc = "append"]
        \/ req' = [req EXCEPT ![o] = NoRequest]
    BY DEF ResolveScan, ResolveAppend, Answer
  <1>7. Raised'
    <2>1. \A h \in Gate : Given(h)' => Given(h) \/ Behind(h)
      BY <1>2, <1>4 DEF Given
    <2>2. ASSUME NEW q \in Operator, req'[q].pc # "idle"
          PROVE  req'[q].gate = req[q].gate /\ req[q].pc # "idle"
      BY <1>1, <1>6, <2>2 DEF NoRequest, Request
    <2>3. receipts \subseteq Gate
      BY DEF DeliveryInv, Inv, TypeOK
    <2> QED BY <1>3, <1>5, <2>1, <2>2, <2>3 DEF DeliveryInv, Raised, Behind
  <1>8. Sure'
    <2> SUFFICES ASSUME NEW a \in Consumer PROVE Certain(a)'
      BY DEF Sure
    <2>1. Certain(a) /\ at[a].todo \in SUBSET Gate
      BY Shapes DEF DeliveryInv, Sure, Inv, Thread
    <2> QED BY <1>3, <1>5, <2>1 DEF Certain, Behind
  <1>9. Delivered'
    BY <1>3 DEF DeliveryInv, Delivered, Waits, Kept, Lasting
  <1> QED BY <1>7, <1>8, <1>9

\* Every step keeps the strengthened invariant.
LEMMA DeliveryStep ==
  ASSUME OneAtATime, DeliveryInv, [Next]_vars
  PROVE  DeliveryInv'
  <1>1. Inv'
    BY StepInv DEF DeliveryInv
  <1>2. ASSUME NEW a \in Annotator, AnnotatorStep(a) \/ \E g \in Gate : Annotate(a, g)
        PROVE  Raised' /\ Sure' /\ Delivered'
    BY <1>2, AnnotateDelivers
  <1>3. ASSUME NEW o \in Operator,
               \/ \E g \in Gate, x \in Action : Resolve(o, g, x)
               \/ ResolveScan(o)
               \/ ResolveAppend(o)
        PROVE  Raised' /\ Sure' /\ Delivered'
    BY <1>3, ResolveDelivers, RequestDelivers
  <1>4. CASE WorkerStep
    <2>1. Worker \in Consumer
      BY Apart
    <2> QED BY <1>1, <1>4, <2>1, GetApprovalDelivers, SeesDelivers DEF WorkerStep, DeliveryInv
  <1>5. CASE UNCHANGED vars
    <2>1. Raised' /\ Sure'
      BY <1>5 DEF vars, DeliveryInv, Raised, Sure, Certain, Given, Behind
    <2>2. Delivered'
      BY <1>5 DEF vars, DeliveryInv, Delivered, Waits, Kept, Lasting
    <2> QED BY <1>1, <2>1, <2>2 DEF DeliveryInv
  <1> QED BY <1>1, <1>2, <1>3, <1>4, <1>5, OpenGateDelivers, WorkerRestartDelivers,
             ApiRestartDelivers DEF Next, DeliveryInv

\* It holds at the start, when nobody has done anything.
LEMMA DeliveryStart == Init => DeliveryInv
  <1> SUFFICES ASSUME Init PROVE DeliveryInv
    OBVIOUS
  <1>1. Inv
    BY InitInv
  <1>2. Raised
    BY DEF Init, Raised, Given, NoRequest
  <1>3. Sure
    BY DEF Init, Sure, Certain, Idle, InLoop, Applied, Labelling
  <1>4. Delivered
    BY DEF Init, Delivered
  <1> QED BY <1>1, <1>2, <1>3, <1>4 DEF DeliveryInv

\* A received decision is on disk or in the worker's memory as long as the
\* worker waits for it (state.py:1216, 1277), if the API labels gates one at a
\* time and is a process of its own; whatever the order in which it and the
\* worker consume commands, and whichever of them dies.
THEOREM DecisionReachesWorker == OneAtATime => (Spec => []ReceiptReachesWorker)
  <1> SUFFICES ASSUME OneAtATime PROVE Spec => []ReceiptReachesWorker
    OBVIOUS
  <1>1. DeliveryInv => ReceiptReachesWorker
    <2> SUFFICES ASSUME DeliveryInv PROVE ReceiptReachesWorker
      OBVIOUS
    <2>1. \A g \in receipts : Kept(g) => mem[Of(Worker)][g] \in Action
      BY Apart DEF Kept
    <2>2. \A g \in receipts : Lasting(g) => record[g] \in Action
      BY DEF Lasting
    <2> QED BY <2>1, <2>2 DEF DeliveryInv, Delivered, Waits, ReceiptReachesWorker
  <1>2. DeliveryInv /\ [Next]_vars => DeliveryInv'
    BY DeliveryStep
  <1> QED BY <1>1, <1>2, DeliveryStart, PTL DEF Spec
=============================================================================
