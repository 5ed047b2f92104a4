------------------------- MODULE RunLifecycleProofs -------------------------
(***************************************************************************)
(* Proofs about RunLifecycle, for any threads, API processes, calls,       *)
(* faults and crashes, any number of workers and any epoch cap.            *)
(***************************************************************************)
EXTENDS RunLifecycle, FiniteSetTheorems, TLAPS

----------------------------------------------------------------------------
(* Types, and what a call knows at each point.                             *)

Keyed == {"readKey", "recheck", "claim", "mkdir", "record"}
Launch == {"reserve", "creating", "spawn", "failWrite", "own", "starting"}
Refreshing == {"replay", "replayKill", "replayReceipt", "replayed", "denyReceipt",
               "denyStatus", "closeReceipt", "closeStatus", "observe", "merge"}
Signalling == {"decide", "append", "mark", "kill", "lookup", "restore", "receipt"}

ShapeOf(a) ==
    /\ pc[a] = "idle" => loc[a] = NoLocals
    /\ pc[a] \in Keyed => loc[a].op = "create"
    /\ pc[a] \in Launch => loc[a].op \in Launches
    /\ pc[a] \in {"resume", "resumeAppend"} => loc[a].op = "resume"
    /\ pc[a] \in Signalling => loc[a].op \in Signals
    /\ pc[a] \in Refreshing \cup {"read"} => loc[a].op \in {"poll", "resume"} \cup Signals
    /\ loc[a].op = "create" => loc[a].epoch = 0
    /\ pc[a] \in {"append", "mark", "kill", "replayKill", "own", "starting"} =>
          loc[a].pid \in Worker
    /\ pc[a] \in {"replayKill", "replayReceipt", "denyReceipt", "closeReceipt"} =>
          CommandId(Cur(a).act, Cur(a).epoch) \in cmds
    /\ pc[a] \in {"mark", "kill", "lookup", "restore", "receipt"} =>
          CommandId(loc[a].op, Cur(a).epoch) \in cmds
    /\ pc[a] \in {"denyReceipt", "denyStatus", "restore"} => denials
    /\ pc[a] = "closeStatus" => Cur(a).st \in Terminal \ {"cancelled"}
    /\ pc[a] \notin Keyed \cup {"idle"} => exists
    /\ pc[a] = "mkdir" => idem # "none"

TypeInv == TypeOK /\ \A a \in Actor : ShapeOf(a)

\* A call that does not move keeps its shape: commands, denials and the run
\* directory stay.
LEMMA ShapeStays ==
  ASSUME NEW b \in Actor, ShapeOf(b), pc'[b] = pc[b], loc'[b] = loc[b],
         cmds \subseteq cmds', denials => denials', exists => exists',
         idem # "none" => idem' # "none"
  PROVE  ShapeOf(b)'
  BY DEF ShapeOf, CommandId, Cur

\* The commands can be counted: the revision a request expects is a number.
LEMMA CommandsFinite ==
  ASSUME TypeOK
  PROVE  IsFiniteSet(cmds) /\ Cardinality(cmds) \in Nat
  <1>1. IsFiniteSet(Signals \cup {"resume"})
    <2>1. IsFiniteSet({"stop"}) /\ IsFiniteSet({"abort"}) /\ IsFiniteSet({"resume"})
      BY FS_Singleton
    <2>2. IsFiniteSet({"stop"} \cup {"abort"})
      BY <2>1, FS_Union
    <2>3. IsFiniteSet(({"stop"} \cup {"abort"}) \cup {"resume"})
      BY <2>1, <2>2, FS_Union
    <2>4. Signals \cup {"resume"} = ({"stop"} \cup {"abort"}) \cup {"resume"}
      BY DEF Signals
    <2> QED BY <2>3, <2>4
  <1>2. IsFiniteSet(Epoch)
    BY LifecycleAssumption, FS_Interval DEF Epoch
  <1>3. IsFiniteSet(CommandIds)
    BY <1>1, <1>2, FS_Product DEF CommandIds
  <1> QED BY <1>3, FS_Subset, FS_CardinalityType DEF TypeOK

\* No status yet, and a thread that makes no call.
LEMMA Empty == NoStatus \in Statuses /\ NoLocals \in Locals
  <1>1. NoStatus \in Statuses
    BY LifecycleAssumption DEF NoStatus, Statuses, Epoch
  <1>2. NoLocals \in Locals
    BY <1>1, LifecycleAssumption DEF NoLocals, Locals, Epoch
  <1> QED BY <1>1, <1>2

\* Nothing has begun.
LEMMA InitType == Init => TypeInv
  <1> SUFFICES ASSUME Init PROVE TypeInv
    OBVIOUS
  <1>3. TypeOK
    <2>1. owner \in Owners /\ report \in Reports /\ crashes \in 0..MaxCrashes
      BY LifecycleAssumption DEF Init, Owners, Epoch, Reports
    <2>2. workers \in [Worker -> Workers] /\ handle \in [Proc -> 0..MaxWorkers]
      BY LifecycleAssumption DEF Init, Workers, Epoch
    <2> QED BY <2>1, <2>2, Empty DEF Init, TypeOK, Labels
  <1>4. \A a \in Actor : ShapeOf(a)
    BY DEF Init, ShapeOf, Keyed, Launch, Refreshing, Signalling, NoLocals
  <1> QED BY <1>3, <1>4 DEF TypeInv

----------------------------------------------------------------------------
(* What a step of a call does to the calls.                                *)

\* The other calls stay where they are.
Others(a) == \A b \in Actor \ {a} : pc'[b] = pc[b] /\ loc'[b] = loc[b]

\* What a step of one call leaves alone.
Frame(a) == /\ Others(a) /\ cmds \subseteq cmds' /\ (denials => denials')
            /\ (exists => exists') /\ (idem # "none" => idem' # "none")

CallsOK == pc \in [Actor -> Labels] /\ loc \in [Actor -> Locals]

FilesOK == /\ exists \in BOOLEAN /\ idem \in {"none", "creating", "completed"}
           /\ status \in Statuses /\ owner \in Owners
           /\ cmds \subseteq CommandIds /\ receipts \subseteq cmds

ProcessesOK == /\ report \in Reports /\ workers \in [Worker -> Workers]
               /\ handle \in [Proc -> 0..MaxWorkers]
               /\ crashes \in 0..MaxCrashes /\ denials \in BOOLEAN

\* The types, in three parts: the calls, the files and the processes.
LEMMA TypeParts == TypeOK <=> CallsOK /\ FilesOK /\ ProcessesOK
  BY DEF TypeOK, CallsOK, FilesOK, ProcessesOK

LEMMA TypePartsNext == TypeOK' <=> CallsOK' /\ FilesOK' /\ ProcessesOK'
  BY DEF TypeOK, CallsOK, FilesOK, ProcessesOK

\* A call that returns leaves its thread idle.
LEMMA Returned ==
  ASSUME TypeOK, NEW a \in Actor, Returns(a)
  PROVE  CallsOK' /\ ShapeOf(a)' /\ Others(a)
  <1>1. CallsOK' /\ Others(a) /\ pc'[a] = "idle" /\ loc'[a] = NoLocals
    BY Empty DEF TypeOK, CallsOK, Returns, Others, Labels
  <1> QED BY <1>1 DEF ShapeOf, Keyed, Launch, Refreshing, Signalling, NoLocals

\* A call that goes on, with other locals or with the same.
LEMMA Moved ==
  ASSUME TypeOK, NEW a \in Actor, NEW k \in Locals, NEW from, NEW to \in Labels,
         Step(a, from, to), loc' = [loc EXCEPT ![a] = k]
  PROVE  CallsOK' /\ Others(a) /\ pc[a] = from /\ pc'[a] = to /\ loc'[a] = k
  BY DEF TypeOK, CallsOK, Step, Others

LEMMA Stepped ==
  ASSUME TypeOK, NEW a \in Actor, NEW from, NEW to \in Labels, Step(a, from, to),
         UNCHANGED loc
  PROVE  CallsOK' /\ Others(a) /\ pc[a] = from /\ pc'[a] = to /\ loc'[a] = loc[a]
  BY DEF TypeOK, CallsOK, Step, Others

LEMMA MovedCur ==
  ASSUME TypeOK, NEW a \in Actor, NEW s \in Statuses, NEW from, NEW to \in Labels,
         Step(a, from, to), SetCur(a, s)
  PROVE  /\ CallsOK' /\ Others(a) /\ pc[a] = from /\ pc'[a] = to
         /\ loc'[a] = [loc[a] EXCEPT !.cur = s]
  BY DEF TypeOK, CallsOK, Step, Others, SetCur, Locals

\* _merge_lifecycle_status builds a status of two.
LEMMA MergeType ==
  ASSUME NEW c \in Statuses, NEW d \in Statuses
  PROVE  Merge(c, d) \in Statuses
  <1> DEFINE m == Over(c, d)
  <1>1. m \in Statuses
    BY DEF Over, Statuses
  <1>2. /\ [m EXCEPT !.st = c.st, !.alive = FALSE] \in Statuses
        /\ [m EXCEPT !.st = c.st] \in Statuses
    BY <1>1 DEF Statuses
  <1>3. [m EXCEPT !.act = IF c.act # "none" THEN c.act ELSE @,
                  !.st = IF d.st \in Terminal THEN "cancelled" ELSE "stopping"] \in Statuses
    BY <1>1 DEF Statuses, Terminal, ActiveStatus
  <1> HIDE DEF m
  <1> QED BY <1>1, <1>2, <1>3 DEF Merge, m

Done(a) == TypeOK' /\ ShapeOf(a)' /\ Frame(a)

\* One step of a call keeps the types, has the shape of where it is next, and
\* touches no other call.
LEMMA TypeCall ==
  ASSUME TypeInv, NEW a \in Actor,
         CallStep(a) \/ BeginCreate(a) \/ \E op \in Ops : Begin(a, op)
  PROVE  Done(a)
  <1>a. TypeOK /\ ShapeOf(a)
    BY DEF TypeInv
  <1>1. CASE RefreshRead(a)
    BY <1>a, <1>1, LifecycleAssumption
      DEF RefreshRead, Done, Frame, Others, TypeOK, ShapeOf, Cur, SetCur, Step, Returns,
          files, world, made, Keyed, Launch, Refreshing, Signalling, Labels, Locals,
          NoLocals, NoStatus, Statuses, Signals, Launches, Epoch
  <1>2. CASE Replay(a)
    <2>1. CallsOK' /\ Others(a) /\ pc[a] = "replay" /\ Cur(a)' = Cur(a)
          /\ loc'[a].op = loc[a].op /\ loc'[a].epoch = loc[a].epoch
          /\ \/ pc'[a] = "observe"
             \/ pc'[a] \in {"closeReceipt", "replayKill"} /\ Undelivered(Cur(a))
                /\ (pc'[a] = "replayKill" => loc'[a].pid \in Worker)
      <3>1. [loc[a] EXCEPT !.pid = owner.pid] \in Locals
        BY <1>a DEF TypeOK, Locals, Owners
      <3>2. loc[a] \in Locals
        BY <1>a DEF TypeOK
      <3> QED BY <1>a, <1>2, <3>1, <3>2, Moved, Stepped
         DEF Replay, Labels, Cur, TypeOK, Owners, Worker, Locals
    <2>2. ShapeOf(a)'
      BY <1>a, <1>2, <2>1
         DEF Replay, Undelivered, files, world, made, CommandId, Cur, ShapeOf,
             Keyed, Launch, Refreshing, Signalling
    <2> QED BY <1>a, <1>2, <2>1, <2>2, TypeParts, TypePartsNext
       DEF Replay, Done, Frame, FilesOK, ProcessesOK, files, world, made
  <1>3. CASE ReplayKill(a)
    <2>1. CallsOK' /\ Others(a) /\ pc[a] = "replayKill" /\ loc'[a] = loc[a]
          /\ pc'[a] \in {"replayReceipt", "closeReceipt", "denyReceipt"}
      BY <1>a, <1>3, Stepped DEF ReplayKill, Deliver, Labels
    <2>2. workers' \in [Worker -> Workers] /\ denials' \in BOOLEAN
          /\ (denials => denials')
          /\ (pc'[a] = "denyReceipt" => denials')
      <3>1. loc[a].pid \in Worker
            /\ [workers[loc[a].pid] EXCEPT !.sig = TRUE] \in Workers
        <4>1. loc[a].pid \in Worker
          BY <1>a, <2>1 DEF ShapeOf
        <4>2. workers[loc[a].pid] \in Workers
          BY <1>a, <4>1 DEF TypeOK
        <4> QED BY <4>1, <4>2 DEF Workers
      <3>2. [workers EXCEPT ![loc[a].pid].sig = TRUE] \in [Worker -> Workers]
        BY <1>a, <3>1 DEF TypeOK
      <3> QED BY <1>a, <1>3, <2>1, <3>2 DEF ReplayKill, Deliver, TypeOK, Step
    <2>3. ShapeOf(a)'
      BY <1>a, <1>3, <2>1, <2>2
         DEF ReplayKill, files, made, CommandId, Cur, ShapeOf, Keyed, Launch,
             Refreshing, Signalling
    <2> QED BY <1>a, <1>3, <2>1, <2>2, <2>3, TypeParts, TypePartsNext
       DEF ReplayKill, Done, Frame, FilesOK, ProcessesOK, files, made
  <1>4. CASE ReplayReceipt(a)
    BY <1>a, <1>4, LifecycleAssumption
      DEF ReplayReceipt, Done, Frame, Others, TypeOK, ShapeOf, Cur, SetCur, Step,
          Returns, files, world, made, Keyed, Launch, Refreshing, Signalling, Labels,
          Locals, NoLocals, NoStatus, Statuses, Signals, Launches, Epoch
  <1>5. CASE Replayed(a)
    BY <1>a, <1>5, LifecycleAssumption
      DEF Replayed, Done, Frame, Others, TypeOK, ShapeOf, Cur, SetCur, Step, Returns,
          files, world, made, Keyed, Launch, Refreshing, Signalling, Labels, Locals,
          NoLocals, NoStatus, Statuses, Signals, Launches, Epoch
  <1>6. CASE DenyReceipt(a)
    BY <1>a, <1>6, LifecycleAssumption
      DEF DenyReceipt, Done, Frame, Others, TypeOK, ShapeOf, Cur, SetCur, Step, Returns,
          files, world, made, Keyed, Launch, Refreshing, Signalling, Labels, Locals,
          NoLocals, NoStatus, Statuses, Signals, Launches, Epoch
  <1>7. CASE DenyStatus(a)
    <2>1. status' \in Statuses
      BY <1>a, <1>7
         DEF DenyStatus, TypeOK, ShapeOf, Statuses, ActiveStatus, Terminal,
             Signals, Cur, Locals, Step
    <2>2. CallsOK' /\ Others(a) /\ pc[a] = "denyStatus" /\ pc'[a] = "observe"
          /\ loc'[a] = [loc[a] EXCEPT !.cur = status']
      BY <1>a, <1>7, <2>1, MovedCur DEF DenyStatus, Labels
    <2>3. loc'[a].op = loc[a].op /\ loc'[a].epoch = loc[a].epoch
      BY <1>a, <2>2 DEF TypeOK, Locals
    <2>4. ShapeOf(a)'
      BY <1>a, <1>7, <2>2, <2>3
         DEF DenyStatus, world, made, ShapeOf, Keyed, Launch, Refreshing,
             Signalling
    <2> QED BY <1>a, <1>7, <2>1, <2>2, <2>4, TypeParts, TypePartsNext
       DEF DenyStatus, Done, Frame, FilesOK, ProcessesOK, world, made
  <1>8. CASE CloseReceipt(a)
    BY <1>a, <1>8, LifecycleAssumption
      DEF CloseReceipt, GuessedExit, ExitStatus, Terminal, Reports, Done, Frame, Others,
          TypeOK, ShapeOf, Cur, SetCur, Step, Returns, files, world, made, Keyed,
          Launch, Refreshing, Signalling, Labels, Locals, NoLocals, NoStatus, Statuses,
          Signals, Launches, Epoch
  <1>9. CASE CloseStatus(a)
    <2>1. status' \in Statuses
      BY <1>a, <1>9
         DEF CloseStatus, TypeOK, ShapeOf, Statuses, ActiveStatus, Terminal,
             Signals, Cur, Locals, Step
    <2>2. CallsOK' /\ Others(a) /\ pc[a] = "closeStatus" /\ pc'[a] = "observe"
          /\ loc'[a] = [loc[a] EXCEPT !.cur = status']
      BY <1>a, <1>9, <2>1, MovedCur DEF CloseStatus, Labels
    <2>3. loc'[a].op = loc[a].op /\ loc'[a].epoch = loc[a].epoch
      BY <1>a, <2>2 DEF TypeOK, Locals
    <2>4. ShapeOf(a)'
      BY <1>a, <1>9, <2>2, <2>3
         DEF CloseStatus, world, made, ShapeOf, Keyed, Launch, Refreshing,
             Signalling
    <2> QED BY <1>a, <1>9, <2>1, <2>2, <2>4, TypeParts, TypePartsNext
       DEF CloseStatus, Done, Frame, FilesOK, ProcessesOK, world, made
  <1>10. CASE Observe(a)
    <2>1. PICK s \in Statuses : SetCur(a, s)
      <3>1. Cur(a) \in Statuses
        BY <1>a DEF TypeOK, Cur, Locals
      <3>2. CASE ObservedExit(a)
        BY <1>a, <3>1, <3>2
           DEF ObservedExit, Statuses, ExitStatus, Terminal, ActiveStatus,
               Reports, TypeOK
      <3>3. CASE ObservedAlive(a)
        BY <1>a, <3>1, <3>3 DEF ObservedAlive, Statuses, Terminal, ActiveStatus
      <3>4. CASE ObservedGone(a)
        <4>1. \A act \in Signals \cup {"none"} : GuessedExit(act) \in Terminal
          BY <1>a DEF GuessedExit, ExitStatus, Terminal, Signals, Reports, TypeOK
        <4> DEFINE st == CASE Cur(a).st \in ActiveStatus -> GuessedExit(Cur(a).act)
                           [] Cur(a).st = "idle" /\ report # "none" ->
                                GuessedExit("none")
                           [] OTHER -> Cur(a).st
        <4>2. st \in Terminal \cup ActiveStatus \cup {"idle"}
          BY <3>1, <4>1 DEF Statuses
        <4>3. SetCur(a, [Cur(a) EXCEPT !.alive = FALSE, !.st = st])
          BY <3>4 DEF ObservedGone
        <4>4. [Cur(a) EXCEPT !.alive = FALSE, !.st = st] \in Statuses
          BY <3>1, <4>2 DEF Statuses
        <4> QED BY <4>3, <4>4
      <3> QED BY <1>10, <3>2, <3>3, <3>4 DEF Observe
    <2>2. CallsOK' /\ Others(a) /\ pc[a] = "observe" /\ pc'[a] = "merge"
          /\ loc'[a] = [loc[a] EXCEPT !.cur = s]
      BY <1>a, <1>10, <2>1, MovedCur DEF Observe, Labels
    <2>3. workers' \in [Worker -> Workers]
      <3>1. \A h \in Worker : Reaped(h) \in [Worker -> Workers]
        BY <1>a DEF Reaped, Workers, TypeOK
      <3>2. handle[ProcOf[a]] \in 0..MaxWorkers
        BY <1>a DEF TypeOK, Proc
      <3>3. ObservedExit(a) => workers' \in [Worker -> Workers]
        BY <3>1, <3>2, LifecycleAssumption DEF ObservedExit, Worker
      <3> QED BY <1>a, <1>10, <3>3 DEF Observe, ObservedAlive, ObservedGone, TypeOK
    <2>4. loc'[a].op = loc[a].op /\ loc'[a].epoch = loc[a].epoch
      BY <1>a, <2>2 DEF TypeOK, Locals
    <2>5. ShapeOf(a)'
      BY <1>a, <1>10, <2>2, <2>4
         DEF Observe, files, made, ShapeOf, Keyed, Launch, Refreshing, Signalling
    <2> QED BY <1>a, <1>10, <2>2, <2>3, <2>5, TypeParts, TypePartsNext
       DEF Observe, Done, Frame, FilesOK, ProcessesOK, files, made
  <1>11. CASE MergeStatus(a)
    <2>1. status' \in Statuses
      BY <1>a, <1>11, MergeType DEF MergeStatus, TypeOK, Cur, Locals
    <2>2. CallsOK' /\ Others(a) /\ ShapeOf(a)'
      <3>1. CASE loc[a].op = "poll" /\ Returns(a)
        BY <1>a, <3>1, Returned
      <3>2. CASE /\ loc[a].op \in Signals \cup {"resume"} /\ SetCur(a, status')
                 /\ \/ loc[a].op \in Signals /\ Step(a, "merge", "decide")
                    \/ loc[a].op = "resume" /\ Step(a, "merge", "resume")
        <4>1. CallsOK' /\ Others(a) /\ loc'[a] = [loc[a] EXCEPT !.cur = status']
              /\ pc[a] = "merge"
              /\ pc'[a] = IF loc[a].op = "resume" THEN "resume" ELSE "decide"
          BY <1>a, <2>1, <3>2, MovedCur DEF Labels, Signals
        <4>2. loc'[a].op = loc[a].op /\ loc'[a].epoch = loc[a].epoch
          BY <1>a, <4>1 DEF TypeOK, Locals
        <4>3. ShapeOf(a)'
          BY <1>a, <1>11, <3>2, <4>1, <4>2
             DEF MergeStatus, world, made, ShapeOf, Keyed, Launch,
                 Refreshing, Signalling
        <4> QED BY <4>1, <4>3
      <3> QED BY <1>11, <3>1, <3>2 DEF MergeStatus
    <2> QED BY <1>a, <1>11, <2>1, <2>2, TypeParts, TypePartsNext
       DEF MergeStatus, Done, Frame, FilesOK, ProcessesOK, world, made
  <1>12. CASE Decide(a)
    <2>1. CASE Returns(a)
      BY <1>a, <1>12, <2>1, Returned, TypeParts, TypePartsNext
         DEF Decide, Done, Frame, FilesOK, ProcessesOK, files, world, made
    <2>2. CASE ~Returns(a)
      <3>1. [loc[a] EXCEPT !.pid = owner.pid, !.rev = Cardinality(cmds)] \in Locals
        BY <1>a, CommandsFinite DEF TypeOK, Locals, Owners
      <3>2. CallsOK' /\ Others(a) /\ pc[a] = "decide" /\ pc'[a] = "append"
            /\ loc'[a] = [loc[a] EXCEPT !.pid = owner.pid, !.rev = Cardinality(cmds)]
            /\ owner.pid # 0
        <4>1. /\ Step(a, "decide", "append") /\ owner.pid # 0
              /\ loc' = [loc EXCEPT ![a].pid = owner.pid, ![a].rev = Cardinality(cmds)]
          BY <1>12, <2>2 DEF Decide
        <4>2. loc' = [loc EXCEPT ![a] = [loc[a] EXCEPT !.pid = owner.pid,
                                                       !.rev = Cardinality(cmds)]]
          BY <1>a, <4>1 DEF TypeOK
        <4> QED BY <1>a, <3>1, <4>1, <4>2, Moved DEF Labels
      <3>3. loc'[a].op = loc[a].op /\ loc'[a].epoch = loc[a].epoch
            /\ loc'[a].pid \in Worker
        BY <1>a, <3>2 DEF TypeOK, Locals, Owners, Worker
      <3>4. ShapeOf(a)'
        BY <1>a, <1>12, <3>2, <3>3
           DEF Decide, files, world, made, ShapeOf, Keyed, Launch, Refreshing,
               Signalling
      <3> QED BY <1>a, <1>12, <2>2, <3>2, <3>4, TypeParts, TypePartsNext
         DEF Decide, Done, Frame, FilesOK, ProcessesOK, files, world, made
    <2> QED BY <2>1, <2>2
  <1>13. CASE Append(a)
    <2>1. CASE Returns(a) /\ UNCHANGED cmds
      BY <1>a, <1>13, <2>1, Returned, TypeParts, TypePartsNext
         DEF Append, Done, Frame, FilesOK, ProcessesOK, files, world, made
    <2>2. CASE ~(Returns(a) /\ UNCHANGED cmds)
      <3>1. CallsOK' /\ Others(a) /\ pc[a] = "append" /\ pc'[a] = "mark"
            /\ loc'[a] = loc[a]
            /\ cmds' = cmds \cup {CommandId(loc[a].op, Cur(a).epoch)}
        BY <1>a, <1>13, <2>2, Stepped DEF Append, Labels
      <3>2. CommandId(loc[a].op, Cur(a).epoch) \in CommandIds
        BY <1>a, <3>1
           DEF TypeOK, ShapeOf, Signalling, Locals, Statuses, Cur, CommandId,
               CommandIds
      <3>3. ShapeOf(a)'
        BY <1>a, <1>13, <3>1
           DEF Append, world, made, CommandId, Cur, ShapeOf, Keyed, Launch,
               Refreshing, Signalling
      <3> QED BY <1>a, <1>13, <2>2, <3>1, <3>2, <3>3, TypeParts, TypePartsNext
         DEF Append, Done, Frame, FilesOK, ProcessesOK, files, world, made
    <2> QED BY <2>1, <2>2
  <1>14. CASE MarkStopping(a)
    <2>1. CallsOK' /\ Others(a) /\ pc[a] = "mark" /\ pc'[a] \in {"receipt", "kill"}
          /\ loc'[a] = loc[a]
      BY <1>a, <1>14, Stepped DEF MarkStopping, Labels
    <2>2. status' \in Statuses
      BY <1>a, <1>14, <2>1
         DEF MarkStopping, TypeOK, ShapeOf, Signalling, Statuses, ActiveStatus
    <2>3. ShapeOf(a)'
      BY <1>a, <1>14, <2>1
         DEF MarkStopping, world, made, CommandId, Cur, ShapeOf, Keyed, Launch,
             Refreshing, Signalling
    <2> QED BY <1>a, <1>14, <2>1, <2>2, <2>3, TypeParts, TypePartsNext
       DEF MarkStopping, Done, Frame, FilesOK, ProcessesOK, world, made
  <1>15. CASE Kill(a)
    <2>1. CallsOK' /\ Others(a) /\ pc[a] = "kill" /\ loc'[a] = loc[a]
          /\ pc'[a] \in {"receipt", "lookup", "restore"}
      BY <1>a, <1>15, Stepped DEF Kill, Deliver, Labels
    <2>2. workers' \in [Worker -> Workers] /\ denials' \in BOOLEAN
          /\ (denials => denials')
          /\ (pc'[a] = "restore" => denials')
      <3>1. loc[a].pid \in Worker
            /\ [workers[loc[a].pid] EXCEPT !.sig = TRUE] \in Workers
        <4>1. loc[a].pid \in Worker
          BY <1>a, <2>1 DEF ShapeOf
        <4>2. workers[loc[a].pid] \in Workers
          BY <1>a, <4>1 DEF TypeOK
        <4> QED BY <4>1, <4>2 DEF Workers
      <3>2. [workers EXCEPT ![loc[a].pid].sig = TRUE] \in [Worker -> Workers]
        BY <1>a, <3>1 DEF TypeOK
      <3> QED BY <1>a, <1>15, <2>1, <3>2 DEF Kill, Deliver, TypeOK, Step
    <2>3. ShapeOf(a)'
      BY <1>a, <1>15, <2>1, <2>2
         DEF Kill, files, made, CommandId, Cur, ShapeOf, Keyed, Launch,
             Refreshing, Signalling
    <2> QED BY <1>a, <1>15, <2>1, <2>2, <2>3, TypeParts, TypePartsNext
       DEF Kill, Done, Frame, FilesOK, ProcessesOK, files, made
  <1>16. CASE LookupFailed(a)
    <2>1. CallsOK' /\ Others(a) /\ pc[a] = "lookup" /\ pc'[a] = "receipt"
          /\ loc'[a] = loc[a]
      BY <1>a, <1>16, Stepped DEF LookupFailed, Labels
    <2>2. status' \in Statuses
      BY <1>a, <1>16
         DEF LookupFailed, TypeOK, Statuses, GuessedExit, ExitStatus, Terminal,
             Reports
    <2>3. ShapeOf(a)'
      BY <1>a, <1>16, <2>1
         DEF LookupFailed, world, made, CommandId, Cur, ShapeOf, Keyed, Launch,
             Refreshing, Signalling
    <2> QED BY <1>a, <1>16, <2>1, <2>2, <2>3, TypeParts, TypePartsNext
       DEF LookupFailed, Done, Frame, FilesOK, ProcessesOK, world, made
  <1>17. CASE RestoreActive(a)
    BY <1>a, <1>17, LifecycleAssumption
      DEF RestoreActive, ActiveStatus, Done, Frame, Others, TypeOK, ShapeOf, Cur,
          SetCur, Step, Returns, files, world, made, Keyed, Launch, Refreshing,
          Signalling, Labels, Locals, NoLocals, NoStatus, Statuses, Signals, Launches,
          Epoch
  <1>18. CASE Receipt(a)
    BY <1>a, <1>18, LifecycleAssumption
      DEF Receipt, Done, Frame, Others, TypeOK, ShapeOf, Cur, SetCur, Step, Returns,
          files, world, made, Keyed, Launch, Refreshing, Signalling, Labels, Locals,
          NoLocals, NoStatus, Statuses, Signals, Launches, Epoch
  <1>19. CASE ReadKey(a)
    <2>1. CASE Returns(a)
      BY <1>a, <1>19, <2>1, Returned, TypeParts, TypePartsNext
         DEF ReadKey, Done, Frame, FilesOK, ProcessesOK, files, world, made
    <2>2. CASE ~Returns(a)
      <3>1. CallsOK' /\ Others(a) /\ pc[a] = "readKey"
            /\ pc'[a] \in {"recheck", "claim"} /\ loc'[a] = loc[a]
        BY <1>a, <1>19, <2>2, Stepped DEF ReadKey, Labels
      <3>2. ShapeOf(a)'
        BY <1>a, <1>19, <2>2, <3>1
           DEF ReadKey, files, world, made, ShapeOf, Keyed, Launch, Refreshing,
               Signalling
      <3> QED BY <1>a, <1>19, <2>2, <3>1, <3>2, TypeParts, TypePartsNext
         DEF ReadKey, Done, Frame, FilesOK, ProcessesOK, files, world, made
    <2> QED BY <2>1, <2>2
  <1>20. CASE Recheck(a)
    <2>1. CASE Returns(a)
      BY <1>a, <1>20, <2>1, Returned, TypeParts, TypePartsNext
         DEF Recheck, Done, Frame, FilesOK, ProcessesOK, files, world, made
    <2>2. CASE ~Returns(a)
      <3>1. CallsOK' /\ Others(a) /\ pc[a] = "recheck" /\ pc'[a] \in {"claim"}
            /\ loc'[a] = loc[a]
        BY <1>a, <1>20, <2>2, Stepped DEF Recheck, Labels
      <3>2. ShapeOf(a)'
        BY <1>a, <1>20, <2>2, <3>1
           DEF Recheck, files, world, made, ShapeOf, Keyed, Launch, Refreshing,
               Signalling
      <3> QED BY <1>a, <1>20, <2>2, <3>1, <3>2, TypeParts, TypePartsNext
         DEF Recheck, Done, Frame, FilesOK, ProcessesOK, files, world, made
    <2> QED BY <2>1, <2>2
  <1>21. CASE Claim(a)
    BY <1>a, <1>21, LifecycleAssumption
      DEF Claim, Done, Frame, Others, TypeOK, ShapeOf, Cur, SetCur, Step, Returns,
          files, world, made, Keyed, Launch, Refreshing, Signalling, Labels, Locals,
          NoLocals, NoStatus, Statuses, Signals, Launches, Epoch
  <1>22. CASE MakeDir(a)
    <2>1. CASE Returns(a)
      BY <1>a, <1>22, <2>1, Returned, TypeParts, TypePartsNext
         DEF MakeDir, Done, Frame, FilesOK, ProcessesOK, files, world, made
    <2>2. CASE ~Returns(a)
      <3>1. CallsOK' /\ Others(a) /\ pc[a] = "mkdir" /\ pc'[a] \in {"reserve"}
            /\ loc'[a] = loc[a]
        BY <1>a, <1>22, <2>2, Stepped DEF MakeDir, Labels
      <3>2. ShapeOf(a)'
        BY <1>a, <1>22, <2>2, <3>1
           DEF MakeDir, files, world, made, Launches, ShapeOf, Keyed, Launch,
               Refreshing, Signalling
      <3> QED BY <1>a, <1>22, <2>2, <3>1, <3>2, TypeParts, TypePartsNext
         DEF MakeDir, Done, Frame, FilesOK, ProcessesOK, files, world, made
    <2> QED BY <2>1, <2>2
  <1>23. CASE Record(a)
    BY <1>a, <1>23, LifecycleAssumption
      DEF Record, Done, Frame, Others, TypeOK, ShapeOf, Cur, SetCur, Step, Returns,
          files, world, made, Keyed, Launch, Refreshing, Signalling, Labels, Locals,
          NoLocals, NoStatus, Statuses, Signals, Launches, Epoch
  <1>24. CASE Resume(a)
    <2>1. CASE Returns(a)
      BY <1>a, <1>24, <2>1, Returned, TypeParts, TypePartsNext
         DEF Resume, Done, Frame, FilesOK, ProcessesOK, files, world, made
    <2>2. CASE ~Returns(a)
      <3>1. OwnerEpoch(a) + 1 \in Epoch
        BY <1>a, <1>24, <2>2, LifecycleAssumption
           DEF Resume, OwnerEpoch, TypeOK, Locals, Statuses, Owners, Epoch, Cur
      <3>2. [loc[a] EXCEPT !.epoch = OwnerEpoch(a) + 1] \in Locals
        BY <1>a, <3>1 DEF TypeOK, Locals
      <3>3. CallsOK' /\ Others(a) /\ pc[a] = "resume" /\ pc'[a] = "resumeAppend"
            /\ loc'[a] = [loc[a] EXCEPT !.epoch = OwnerEpoch(a) + 1]
        BY <1>a, <1>24, <2>2, <3>2, Moved DEF Resume, Labels
      <3>4. loc'[a].op = loc[a].op
        BY <1>a, <3>3 DEF TypeOK, Locals
      <3>5. ShapeOf(a)'
        BY <1>a, <1>24, <3>3, <3>4
           DEF Resume, files, world, made, ShapeOf, Keyed, Launch, Refreshing,
               Signalling
      <3> QED BY <1>a, <1>24, <2>2, <3>3, <3>5, TypeParts, TypePartsNext
         DEF Resume, Done, Frame, FilesOK, ProcessesOK, files, world, made
    <2> QED BY <2>1, <2>2
  <1>25. CASE ResumeAppend(a)
    BY <1>a, <1>25, LifecycleAssumption
      DEF ResumeAppend, CommandId, CommandIds, Done, Frame, Others, TypeOK, ShapeOf,
          Cur, SetCur, Step, Returns, files, world, made, Keyed, Launch, Refreshing,
          Signalling, Labels, Locals, NoLocals, NoStatus, Statuses, Signals, Launches,
          Epoch
  <1>26. CASE WriteReservation(a)
    BY <1>a, <1>26, LifecycleAssumption
      DEF WriteReservation, Owners, Done, Frame, Others, TypeOK, ShapeOf, Cur, SetCur,
          Step, Returns, files, world, made, Keyed, Launch, Refreshing, Signalling,
          Labels, Locals, NoLocals, NoStatus, Statuses, Signals, Launches, Epoch
  <1>27. CASE WriteCreating(a)
    <2>1. CallsOK' /\ Others(a) /\ pc[a] = "creating" /\ pc'[a] = "spawn"
          /\ loc'[a] = loc[a]
      BY <1>a, <1>27, Stepped DEF WriteCreating, Labels
    <2>2. status' \in Statuses
      BY <1>a, <1>27, Empty DEF WriteCreating, TypeOK, Statuses, ActiveStatus, Locals
    <2>3. ShapeOf(a)'
      BY <1>a, <1>27, <2>1
         DEF WriteCreating, world, made, ShapeOf, Keyed, Launch, Refreshing,
             Signalling
    <2> QED BY <1>a, <1>27, <2>1, <2>2, <2>3, TypeParts, TypePartsNext
       DEF WriteCreating, Done, Frame, FilesOK, ProcessesOK, world, made
  <1>28. CASE Spawn(a)
    <2>1. PICK w \in Worker :
            /\ workers' = [workers EXCEPT ![w] = [st |-> "live", rc |-> 0, sig |-> FALSE,
                               parent |-> ProcOf[a], epoch |-> loc[a].epoch]]
            /\ loc' = [loc EXCEPT ![a].pid = w]
      BY <1>28 DEF Spawn
    <2>2. [loc[a] EXCEPT !.pid = w] \in Locals
      <3>1. w \in 0..MaxWorkers /\ loc[a] \in Locals
        BY <1>a, LifecycleAssumption DEF TypeOK, Worker
      <3> QED BY <3>1 DEF Locals
    <2>3. CallsOK' /\ Others(a) /\ pc[a] = "spawn" /\ pc'[a] = "own"
          /\ loc'[a] = [loc[a] EXCEPT !.pid = w]
      BY <1>a, <1>28, <2>1, <2>2, Moved DEF Spawn, Labels, TypeOK
    <2>4. loc'[a].op = loc[a].op /\ loc'[a].epoch = loc[a].epoch /\ loc'[a].pid = w
      BY <1>a, <2>3 DEF TypeOK, Locals
    <2>5. workers' \in [Worker -> Workers]
      <3>1. loc[a].epoch \in Epoch /\ ProcOf[a] \in Proc
        BY <1>a DEF TypeOK, Locals, Proc
      <3> QED BY <1>a, <2>1, <3>1 DEF TypeOK, Workers
    <2>6. ShapeOf(a)'
      BY <1>a, <1>28, <2>3, <2>4
         DEF Spawn, files, made, ShapeOf, Keyed, Launch, Refreshing, Signalling
    <2> QED BY <1>a, <1>28, <2>3, <2>5, <2>6, TypeParts, TypePartsNext
       DEF Spawn, Done, Frame, FilesOK, ProcessesOK, files, made
  <1>29. CASE SpawnFails(a)
    BY <1>a, <1>29, LifecycleAssumption
      DEF SpawnFails, Done, Frame, Others, TypeOK, ShapeOf, Cur, SetCur, Step, Returns,
          files, world, made, Keyed, Launch, Refreshing, Signalling, Labels, Locals,
          NoLocals, NoStatus, Statuses, Signals, Launches, Epoch
  <1>30. CASE FailWrite(a)
    <2>1. status' \in Statuses
      BY <1>a, <1>30 DEF FailWrite, TypeOK, Statuses, Terminal, Locals, Cur
    <2> QED BY <1>a, <1>30, <2>1, Returned, TypeParts, TypePartsNext
       DEF FailWrite, Done, Frame, FilesOK, ProcessesOK, world, made
  <1>31. CASE WriteOwner(a)
    BY <1>a, <1>31, LifecycleAssumption
      DEF WriteOwner, Owners, Worker, Done, Frame, Others, TypeOK, ShapeOf, Cur, SetCur,
          Step, Returns, files, world, made, Keyed, Launch, Refreshing, Signalling,
          Labels, Locals, NoLocals, NoStatus, Statuses, Signals, Launches, Epoch
  <1>32. CASE WriteStarting(a)
    <2>1. status' \in Statuses /\ handle' \in [Proc -> 0..MaxWorkers]
      BY <1>a, <1>32 DEF WriteStarting, TypeOK, Statuses, ActiveStatus, Locals
    <2>2. CallsOK' /\ Others(a) /\ ShapeOf(a)'
      <3>1. CASE Returns(a)
        BY <1>a, <3>1, Returned
      <3>2. CASE loc[a].op = "create" /\ Step(a, "starting", "record") /\ UNCHANGED loc
        <4>1. CallsOK' /\ Others(a) /\ pc[a] = "starting" /\ pc'[a] = "record"
              /\ loc'[a] = loc[a]
          BY <1>a, <3>2, Stepped DEF Labels
        <4>2. ShapeOf(a)'
          BY <1>a, <1>32, <3>2, <4>1
             DEF WriteStarting, made, ShapeOf, Keyed, Launch, Refreshing,
                 Signalling
        <4> QED BY <4>1, <4>2
      <3> QED BY <1>32, <3>1, <3>2 DEF WriteStarting
    <2> QED BY <1>a, <1>32, <2>1, <2>2, TypeParts, TypePartsNext
       DEF WriteStarting, Done, Frame, FilesOK, ProcessesOK, made
  <1>33. CASE MetadataFails(a)
    <2>1. workers' \in [Worker -> Workers]
      <3> DEFINE w == loc[a].pid
                 v == [workers[w] EXCEPT !.sig = TRUE, !.parent = "none",
                         !.st = IF @ = "zombie" THEN "reaped" ELSE @]
      <3>1. w \in Worker /\ workers[w] \in Workers
        BY <1>a, <1>33 DEF MetadataFails, TypeOK, ShapeOf
      <3>2. v \in Workers
        BY <3>1 DEF Workers
      <3>3. workers' = [workers EXCEPT ![w] = v]
        BY <1>a, <1>33, <3>1 DEF MetadataFails, TypeOK
      <3> QED BY <1>a, <3>1, <3>2, <3>3 DEF TypeOK
    <2> QED BY <1>a, <1>33, <2>1, Returned, TypeParts, TypePartsNext
       DEF MetadataFails, Done, Frame, FilesOK, ProcessesOK, files, made
  <1>34. CASE BeginCreate(a)
    <2>1. [NoLocals EXCEPT !.op = "create"] \in Locals
      BY Empty, LifecycleAssumption DEF Locals, Launches, Signals
    <2>2. CallsOK' /\ Others(a) /\ pc'[a] = "readKey"
          /\ loc'[a] = [NoLocals EXCEPT !.op = "create"]
      BY <1>a, <1>34, <2>1 DEF BeginCreate, CallsOK, Others, TypeOK, Labels
    <2>3. loc'[a].op = "create" /\ loc'[a].epoch = 0
      BY <2>2 DEF NoLocals
    <2>4. ShapeOf(a)'
      BY <1>a, <1>34, <2>2, <2>3, LifecycleAssumption
         DEF BeginCreate, files, world, made, Signals, ShapeOf, Keyed, Launch,
             Refreshing, Signalling
    <2> QED BY <1>a, <1>34, <2>2, <2>4, TypeParts, TypePartsNext
       DEF BeginCreate, Done, Frame, FilesOK, ProcessesOK, files, world, made
  <1>35. ASSUME NEW op \in Ops, Begin(a, op) PROVE Done(a)
    <2>1. [NoLocals EXCEPT !.op = op] \in Locals
      BY Empty, LifecycleAssumption DEF Locals, Launches, Signals
    <2>2. CallsOK' /\ Others(a) /\ pc'[a] = "read"
          /\ loc'[a] = [NoLocals EXCEPT !.op = op]
      BY <1>a, <1>35, <2>1 DEF Begin, CallsOK, Others, TypeOK, Labels
    <2>3. loc'[a].op = op /\ loc'[a].epoch = 0
      BY <2>2 DEF NoLocals
    <2>4. ShapeOf(a)'
      BY <1>a, <1>35, <2>2, <2>3, LifecycleAssumption
         DEF Begin, files, world, made, Signals, ShapeOf, Keyed, Launch,
             Refreshing, Signalling
    <2> QED BY <1>a, <1>35, <2>2, <2>4, TypeParts, TypePartsNext
       DEF Begin, Done, Frame, FilesOK, ProcessesOK, files, world, made
  <1> QED
    BY <1>1, <1>2, <1>3, <1>4, <1>5, <1>6, <1>7, <1>8, <1>9, <1>10, <1>11, <1>12,
       <1>13, <1>14, <1>15, <1>16, <1>17, <1>18, <1>19, <1>20, <1>21, <1>22, <1>23,
       <1>24, <1>25, <1>26, <1>27, <1>28, <1>29, <1>30, <1>31, <1>32, <1>33, <1>34,
       <1>35
    DEF CallStep, RefreshStep, SignalStep, CreateStep, LaunchStep

\* A worker that exits, and an API process that dies.
LEMMA TypeExit ==
  ASSUME TypeInv, NEW w \in Worker, WorkerExits(w)
  PROVE  TypeInv'
  <1>1. PICK rc \in {0, 1}, res \in {"kept", "completed", "incomplete"} :
          /\ report' = IF res = "kept" THEN report ELSE res
          /\ workers' = [workers EXCEPT ![w].rc = rc,
                  ![w].st = IF workers[w].parent = "none" THEN "reaped" ELSE "zombie"]
    BY DEF WorkerExits
  <1>2. report' \in Reports
    BY <1>1 DEF TypeInv, TypeOK, Reports
  <1>3. workers' \in [Worker -> Workers]
    <2> DEFINE v == [workers[w] EXCEPT !.rc = rc,
                       !.st = IF workers[w].parent = "none" THEN "reaped" ELSE "zombie"]
    <2>1. workers[w] \in Workers
      BY DEF TypeInv, TypeOK
    <2>2. v \in Workers
      BY <2>1 DEF Workers
    <2>3. workers' = [workers EXCEPT ![w] = v]
      BY <1>1 DEF TypeInv, TypeOK
    <2> QED BY <2>2, <2>3 DEF TypeInv, TypeOK
  <1>4. TypeOK'
    BY <1>2, <1>3 DEF WorkerExits, TypeInv, TypeOK, files, made
  <1>5. \A b \in Actor : ShapeOf(b)'
    BY ShapeStays DEF TypeInv, WorkerExits, files, made
  <1> QED BY <1>4, <1>5 DEF TypeInv

LEMMA TypeCrash ==
  ASSUME TypeInv, NEW p \in Proc, Crash(p)
  PROVE  TypeInv'
  <1>1. workers' \in [Worker -> Workers]
    <2> SUFFICES ASSUME NEW w \in Worker PROVE workers'[w] \in Workers
      BY DEF Crash
    <2>1. workers[w] \in Workers
      BY DEF TypeInv, TypeOK
    <2> QED BY <2>1 DEF Crash, Workers
  <1>2. pc' \in [Actor -> Labels] /\ loc' \in [Actor -> Locals]
    BY Empty DEF TypeInv, TypeOK, Crash, Labels
  <1>3. handle' \in [Proc -> 0..MaxWorkers] /\ crashes' \in 0..MaxCrashes
    <2>1. 0 \in 0..MaxWorkers /\ (crashes < MaxCrashes => crashes + 1 \in 0..MaxCrashes)
      BY LifecycleAssumption DEF TypeInv, TypeOK
    <2> QED BY <2>1 DEF TypeInv, TypeOK, Crash
  <1>4. TypeOK'
    BY <1>1, <1>2, <1>3 DEF Crash, TypeInv, TypeOK, files, made
  <1>5. \A b \in Actor : ShapeOf(b)'
    <2> SUFFICES ASSUME NEW b \in Actor PROVE ShapeOf(b)'
      OBVIOUS
    <2>1. CASE ProcOf[b] = p
      BY <2>1 DEF Crash, ShapeOf, Keyed, Launch, Refreshing, Signalling, NoLocals
    <2>2. CASE ProcOf[b] # p
      BY <2>2, ShapeStays DEF TypeInv, Crash, files, made
    <2> QED BY <2>1, <2>2
  <1> QED BY <1>4, <1>5 DEF TypeInv

\* Every step keeps the types.
LEMMA TypeStep == TypeInv /\ [Next]_vars => TypeInv'
  <1> SUFFICES ASSUME TypeInv, [Next]_vars PROVE TypeInv'
    OBVIOUS
  <1>1. ASSUME NEW a \in Actor,
               CallStep(a) \/ BeginCreate(a) \/ \E op \in Ops : Begin(a, op)
        PROVE  TypeInv'
    <2>1. Done(a)
      BY <1>1, TypeCall
    <2>2. \A b \in Actor \ {a} : ShapeOf(b)'
      BY <2>1, ShapeStays DEF Done, Frame, Others, TypeInv
    <2> QED BY <2>1, <2>2 DEF Done, TypeInv
  <1>2. CASE UNCHANGED vars
    <2>1. \A b \in Actor : ShapeOf(b)'
      BY <1>2, ShapeStays DEF TypeInv, vars, files, world, made
    <2>2. TypeOK'
      BY <1>2 DEF TypeInv, TypeOK, vars, files, world, made
    <2> QED BY <2>1, <2>2 DEF TypeInv
  <1> QED BY <1>1, <1>2, TypeExit, TypeCrash DEF Next

\* The control files, the processes and the calls in flight keep their types:
\* no resume goes past MAX_RESUME_EPOCH, and a receipt answers a command that
\* was appended.
THEOREM TypeCorrect == Spec => []TypeOK
  <1>1. TypeInv => TypeOK
    BY DEF TypeInv
  <1> QED BY <1>1, InitType, TypeStep, PTL DEF Spec

----------------------------------------------------------------------------
(* The files and the calls, when no other call overlaps a launch.          *)

Looked == Refreshing \cup Signalling \cup {"resume"}

Spawned(w) == workers[w].st # "unborn"
Launched == \E w \in Worker : Spawned(w)

\* LaunchAlone: while a create or a resume is under way no other call is.
Alone == \A a, b \in Actor : a # b /\ loc[a].op \in Launches => pc[b] = "idle"

\* What is on disk before the run has a directory, and how the generations
\* of the status, of the owner and of the workers compare.
Disk == /\ idem = "none" => ~exists
        /\ ~exists => status = NoStatus /\ owner.epoch = 0
        /\ status.epoch <= owner.epoch
        /\ \A w \in Worker : Spawned(w) => workers[w].epoch <= owner.epoch
        /\ Launched => status.st # "idle"

\* A call that looked at the status knows the generation on disk.
Knows(a) == pc[a] \in Looked => /\ Cur(a).epoch = status.epoch
                                /\ Launched => Cur(a).st # "idle"

\* A launch: what is on disk at each of its steps.  No worker of its
\* generation exists until it spawns one.
LaunchOf(a) ==
    /\ pc[a] \in {"recheck", "claim", "mkdir"} => ~Existing \/ ~exists
    /\ pc[a] = "resume" => Cur(a) = status
    /\ pc[a] \in {"resumeAppend", "reserve", "creating"} =>
          status.st \in IF loc[a].op = "create" THEN {"idle"} ELSE Terminal
    /\ pc[a] \in {"resumeAppend", "reserve", "creating", "spawn"} =>
          \A w \in Worker : Spawned(w) => workers[w].epoch < loc[a].epoch
    /\ pc[a] \in {"resumeAppend", "reserve"} =>
          loc[a].epoch = IF loc[a].op = "create" THEN owner.epoch ELSE owner.epoch + 1
    /\ pc[a] = "creating" /\ loc[a].op = "resume" => status.epoch < loc[a].epoch
    /\ pc[a] \in {"creating", "spawn", "failWrite", "own"} =>
          owner.pid = 0 /\ owner.epoch = loc[a].epoch
    /\ pc[a] = "starting" => owner.pid = loc[a].pid /\ owner.epoch = loc[a].epoch
    /\ pc[a] \in {"own", "starting"} => Spawned(loc[a].pid)
    /\ pc[a] \in {"spawn", "failWrite", "own", "starting"} =>
          /\ status.st = "creating" /\ status.act = "none"
          /\ status.epoch = loc[a].epoch
    /\ pc[a] = "failWrite" => Cur(a) = status

\* An intent, on disk or in a call, is backed by a command of its generation.
HasIntent(s) == s.st \in {"stopping", "cancelled"} \/ s.act # "none"
Meant(s) == HasIntent(s) => \E kind \in Signals : CommandId(kind, s.epoch) \in cmds
MeantBy(a) == pc[a] \in Looked => Meant(Cur(a))

CallInv(a) == Knows(a) /\ LaunchOf(a) /\ MeantBy(a)

DiskInv == TypeInv /\ Alone /\ Disk /\ CreatedOnce /\ Meant(status)
/\ \A a \in Actor : CallInv(a)

\* What a merge makes of a status and of a candidate of the same generation.
LEMMA MergeIs ==
  ASSUME NEW c \in Statuses, NEW d \in Statuses, d.epoch = c.epoch
  PROVE  /\ Merge(c, d).epoch = c.epoch
         /\ c.st \in Terminal => Merge(c, d).st = c.st
         /\ Merge(c, d).st \in Terminal => c.st \in Terminal \/ d.st \in Terminal
         /\ Merge(c, d).st = "idle" => c.st = "idle" \/ d.st = "idle"
         /\ c.st = "stopping" => Merge(c, d).st \in {"cancelled", "stopping"}
         /\ HasIntent(Merge(c, d)) => HasIntent(c) \/ HasIntent(d)
  BY LifecycleAssumption
     DEF Merge, Over, Rank, Statuses, Terminal, ActiveStatus, Signals, HasIntent, Epoch

\* A call that began is not idle; it goes on under its name or returns.
LEMMA KeepsName ==
  ASSUME TypeInv, NEW a \in Actor, CallStep(a)
  PROVE  /\ pc[a] # "idle" /\ (pc'[a] = "idle" \/ loc'[a].op = loc[a].op)
  <1>a. TypeOK /\ ShapeOf(a)
    BY DEF TypeInv
  <1>1. CASE RefreshStep(a)
    <2>1. CASE RefreshRead(a)
      BY <1>a, <2>1 DEF RefreshRead, Step, SetCur, Returns, TypeOK, Labels, Locals
    <2>2. CASE Replay(a)
      BY <1>a, <2>2 DEF Replay, Step, SetCur, Returns, TypeOK, Labels, Locals
    <2>3. CASE ReplayKill(a)
      BY <1>a, <2>3 DEF ReplayKill, Deliver, Step, SetCur, Returns, TypeOK, Labels,
         Locals
    <2>4. CASE ReplayReceipt(a)
      BY <1>a, <2>4 DEF ReplayReceipt, Step, SetCur, Returns, TypeOK, Labels, Locals
    <2>5. CASE Replayed(a)
      BY <1>a, <2>5 DEF Replayed, Step, SetCur, Returns, TypeOK, Labels, Locals
    <2>6. CASE DenyReceipt(a)
      BY <1>a, <2>6 DEF DenyReceipt, Step, SetCur, Returns, TypeOK, Labels, Locals
    <2>7. CASE DenyStatus(a)
      BY <1>a, <2>7 DEF DenyStatus, Step, SetCur, Returns, TypeOK, Labels, Locals
    <2>8. CASE CloseReceipt(a)
      BY <1>a, <2>8 DEF CloseReceipt, Step, SetCur, Returns, TypeOK, Labels, Locals
    <2>9. CASE CloseStatus(a)
      BY <1>a, <2>9 DEF CloseStatus, Step, SetCur, Returns, TypeOK, Labels, Locals
    <2>10. CASE Observe(a)
      <3>1. PICK s : SetCur(a, s)
        BY <2>10 DEF Observe, ObservedExit, ObservedAlive, ObservedGone
      <3> QED BY <1>a, <2>10, <3>1 DEF Observe, Step, SetCur, TypeOK, Locals
    <2>11. CASE MergeStatus(a)
      BY <1>a, <2>11 DEF MergeStatus, Step, SetCur, Returns, TypeOK, Labels, Locals
    <2> QED BY <1>1, <2>1, <2>2, <2>3, <2>4, <2>5, <2>6, <2>7, <2>8, <2>9, <2>10, <2>11 DEF RefreshStep
  <1>2. CASE SignalStep(a)
    BY <1>a, <1>2 DEF SignalStep, Decide, Append, MarkStopping, Kill, LookupFailed,
       RestoreActive, Receipt, Deliver, Step, SetCur, Returns, TypeOK, Labels, Locals
  <1>3. CASE CreateStep(a)
    BY <1>a, <1>3 DEF CreateStep, ReadKey, Recheck, Claim, MakeDir, Record, Step,
       Returns, TypeOK, Labels, Locals
  <1>4. CASE LaunchStep(a)
    BY <1>a, <1>4 DEF LaunchStep, Resume, ResumeAppend, WriteReservation, WriteCreating,
       Spawn, SpawnFails, FailWrite, WriteOwner, WriteStarting, MetadataFails, Step,
       SetCur, Returns, TypeOK, Labels, Locals
  <1> QED BY <1>1, <1>2, <1>3, <1>4 DEF CallStep

\* A step that spawns no worker.
SameBirths == \A w \in Worker :
                 /\ workers'[w].st = "unborn" <=> workers[w].st = "unborn"
                 /\ workers'[w].epoch = workers[w].epoch

\* Only the spawn of a launch brings a worker into being.
LEMMA BirthsStay ==
  ASSUME TypeInv, NEW a \in Actor, CallStep(a), ~Spawn(a)
  PROVE  SameBirths
  <1>a. TypeOK /\ ShapeOf(a)
    BY DEF TypeInv
  <1>1. CASE UNCHANGED workers
    BY <1>1 DEF SameBirths
  <1>2. CASE ReplayKill(a) \/ Kill(a)
    BY <1>a, <1>2 DEF ReplayKill, Kill, Deliver, SameBirths, TypeOK, Workers
  <1>3. CASE Observe(a)
    <2>1. CASE ObservedExit(a)
      <3>1. workers' = Reaped(handle[ProcOf[a]])
        BY <2>1 DEF ObservedExit
      <3> QED BY <1>a, <3>1 DEF Reaped, SameBirths, TypeOK, Workers
    <2> QED BY <1>3, <2>1 DEF Observe, ObservedAlive, ObservedGone, SameBirths
  <1>4. CASE MetadataFails(a)
    BY <1>a, <1>4 DEF MetadataFails, SameBirths, TypeOK, Workers
  <1> QED
    BY <1>1, <1>2, <1>3, <1>4
    DEF CallStep, RefreshStep, SignalStep, CreateStep, LaunchStep, RefreshRead, Replay,
        ReplayReceipt, Replayed, DenyReceipt, DenyStatus, CloseReceipt, CloseStatus,
        MergeStatus, Decide, Append, MarkStopping, LookupFailed, RestoreActive, Receipt,
        ReadKey, Recheck, Claim, MakeDir, Record, Resume, ResumeAppend,
        WriteReservation, WriteCreating, SpawnFails, FailWrite, WriteOwner,
        WriteStarting, world, made

\* A poll, a stop or an abort, and the poll a resume begins with: the generation
\* on disk stays, and what the call read of it still holds.
LookKept(a) == /\ status'.epoch = status.epoch
               /\ Launched /\ status'.st = "idle" => status.st = "idle"
               /\ Meant(status)' /\ CallInv(a)'

\* A call that is to go on needs to know the generation and to mean its intent.
LEMMA CallHas ==
  ASSUME TypeInv, NEW a \in Actor, SameBirths, pc'[a] \in Refreshing \cup Signalling,
         Cur(a)'.epoch = status'.epoch, Launched => Cur(a)'.st # "idle", Meant(Cur(a))'
  PROVE  CallInv(a)'
  BY DEF CallInv, Knows, LaunchOf, MeantBy, Launched, Spawned, SameBirths, Looked,
         Refreshing, Signalling

\* An idle thread owes nothing.
LEMMA CallReturns ==
  ASSUME NEW a \in Actor, pc'[a] = "idle"
  PROVE  CallInv(a)'
  BY DEF CallInv, Knows, LaunchOf, MeantBy, Looked, Refreshing, Signalling

\* The candidate of a poll: the record it read with another state.
LEMMA Candidate ==
  ASSUME NEW c \in Statuses, NEW st \in Terminal \cup ActiveStatus \cup {"idle"},
         NEW alive \in BOOLEAN
  PROVE  LET s == [c EXCEPT !.alive = alive, !.st = st] IN
         s \in Statuses /\ s.epoch = c.epoch /\ s.act = c.act /\ s.st = st
  BY DEF Statuses

\* Every step of a poll, a stop or an abort leaves what the next one relies on.
LEMMA LookStep ==
  ASSUME DiskInv, NEW a \in Actor, RefreshStep(a) \/ SignalStep(a)
  PROVE  LookKept(a)
  <1>a. TypeInv /\ TypeOK /\ ShapeOf(a) /\ CallInv(a) /\ Meant(status) /\ Disk
    BY DEF DiskInv, TypeInv
  <1>b. TypeOK' /\ ShapeOf(a)' /\ cmds \subseteq cmds'
    BY <1>a, TypeCall DEF Done, Frame, CallStep
  <1>c. SameBirths
    <2>1. ~Spawn(a)
      BY
         DEF RefreshStep, SignalStep, Spawn, Step, RefreshRead, Replay,
             ReplayKill, ReplayReceipt, Replayed, DenyReceipt, DenyStatus,
             CloseReceipt, CloseStatus, Observe, MergeStatus, Decide, Append,
             MarkStopping, Kill, LookupFailed, RestoreActive, Receipt, Deliver
    <2> QED BY <1>a, <2>1, BirthsStay DEF CallStep
  <1>d. status \in Statuses /\ Cur(a) \in Statuses /\ loc[a] \in Locals
        /\ (Launched => status.st # "idle")
    BY <1>a DEF TypeOK, Locals, Cur, Disk
  <1>1. CASE RefreshRead(a)
    <2>1. pc'[a] = "replay" /\ Cur(a)' = status /\ status' = status /\ cmds' = cmds
      BY <1>a, <1>d, <1>1 DEF RefreshRead, Step, SetCur, Cur, TypeOK, Locals, files
    <2> QED BY <1>a, <1>c, <1>d, <2>1, CallHas
       DEF LookKept, Meant, HasIntent, Refreshing
  <1>2. CASE Replay(a)
    <2>1. pc[a] = "replay" /\ pc'[a] \in {"observe", "closeReceipt", "replayKill"}
          /\ Cur(a)' = Cur(a) /\ status' = status /\ cmds' = cmds
      BY <1>a, <1>d, <1>2 DEF Replay, Step, Cur, TypeOK, Locals, files
    <2> QED BY <1>a, <1>c, <1>d, <2>1, CallHas
          DEF LookKept, CallInv, Knows, MeantBy, Meant, HasIntent, Looked, Refreshing
  <1>3. CASE ReplayKill(a)
    BY <1>a, <1>c, <1>d, <1>3
       DEF ReplayKill, Deliver, LookKept, CallInv, Knows, LaunchOf, MeantBy,
           Meant, HasIntent, Launched, Spawned, SameBirths, ShapeOf, TypeOK, Cur,
           SetCur, Step, Returns, files, world, made, Looked, Refreshing,
           Signalling, Keyed, Locals, Statuses, Signals, CommandId, Terminal,
           ActiveStatus
  <1>4. CASE ReplayReceipt(a)
    BY <1>a, <1>c, <1>d, <1>4
       DEF ReplayReceipt, LookKept, CallInv, Knows, LaunchOf, MeantBy, Meant,
           HasIntent, Launched, Spawned, SameBirths, ShapeOf, TypeOK, Cur,
           SetCur, Step, Returns, files, world, made, Looked, Refreshing,
           Signalling, Keyed, Locals, Statuses, Signals, CommandId, Terminal,
           ActiveStatus
  <1>5. CASE Replayed(a)
    <2>1. pc'[a] = "observe" /\ Cur(a)' = status /\ status' = status /\ cmds' = cmds
      BY <1>a, <1>d, <1>5 DEF Replayed, Step, SetCur, Cur, TypeOK, Locals, files
    <2> QED BY <1>a, <1>c, <1>d, <2>1, CallHas
       DEF LookKept, Meant, HasIntent, Refreshing
  <1>6. CASE DenyReceipt(a)
    BY <1>a, <1>c, <1>d, <1>6
       DEF DenyReceipt, LookKept, CallInv, Knows, LaunchOf, MeantBy, Meant,
           HasIntent, Launched, Spawned, SameBirths, ShapeOf, TypeOK, Cur,
           SetCur, Step, Returns, files, world, made, Looked, Refreshing,
           Signalling, Keyed, Locals, Statuses, Signals, CommandId, Terminal,
           ActiveStatus
  <1>7. CASE DenyStatus(a)
    BY <1>a, <1>c, <1>d, <1>7
       DEF DenyStatus, LookKept, CallInv, Knows, LaunchOf, MeantBy, Meant,
           HasIntent, Launched, Spawned, SameBirths, ShapeOf, TypeOK, Cur,
           SetCur, Step, Returns, files, world, made, Looked, Refreshing,
           Signalling, Keyed, Locals, Statuses, Signals, CommandId, Terminal,
           ActiveStatus
  <1>8. CASE CloseReceipt(a)
    <2>1. /\ pc[a] = "closeReceipt" /\ pc'[a] = "closeStatus" /\ cmds' = cmds
          /\ status' = status /\ loc' = [loc EXCEPT ![a].cur.st = GuessedExit("none")]
      BY <1>a, <1>8 DEF CloseReceipt, Step, TypeOK
    <2>2. GuessedExit("none") \in {"completed", "incomplete", "failed"}
      BY <1>a DEF GuessedExit, ExitStatus, TypeOK, Reports
    <2>3. /\ Cur(a)'.epoch = Cur(a).epoch /\ Cur(a)'.act = Cur(a).act
          /\ Cur(a)'.st = GuessedExit("none")
      BY <1>a, <1>d, <2>1 DEF Cur, TypeOK, Locals, Statuses
    <2> QED BY <1>a, <1>c, <2>1, <2>2, <2>3, CallHas
          DEF LookKept, CallInv, Knows, MeantBy, Meant, HasIntent, Looked, Refreshing
  <1>9. CASE CloseStatus(a)
    BY <1>a, <1>c, <1>d, <1>9
       DEF CloseStatus, LookKept, CallInv, Knows, LaunchOf, MeantBy, Meant,
           HasIntent, Launched, Spawned, SameBirths, ShapeOf, TypeOK, Cur,
           SetCur, Step, Returns, files, world, made, Looked, Refreshing,
           Signalling, Keyed, Locals, Statuses, Signals, CommandId, Terminal,
           ActiveStatus
  <1>10. CASE Observe(a)
    <2>1. pc[a] = "observe" /\ pc'[a] = "merge" /\ status' = status /\ cmds' = cmds
      BY <1>a, <1>10 DEF Observe, Step, TypeOK, files
    <2>2. PICK s \in Statuses :
             /\ SetCur(a, s) /\ s.epoch = Cur(a).epoch /\ s.act = Cur(a).act
             /\ s.st = "idle" => Cur(a).st = "idle"
             /\ s.st \in {"stopping", "cancelled"} => HasIntent(Cur(a))
      <3>0. \A rc \in {0, 1}, act \in Signals \cup {"none"} :
              /\ ExitStatus(rc, act) \in Terminal
              /\ ExitStatus(rc, act) = "cancelled" => act # "none"
        BY <1>a DEF ExitStatus, Terminal, Signals, Reports, TypeOK
      <3>1. CASE ObservedExit(a)
        <4>1. handle[ProcOf[a]] \in Worker
          BY <1>a, <3>1, LifecycleAssumption DEF ObservedExit, TypeOK, Proc, Worker
        <4>2. workers[handle[ProcOf[a]]].rc \in {0, 1}
          BY <1>a, <4>1 DEF TypeOK, Workers
        <4> DEFINE st == IF Cur(a).st \in Terminal THEN Cur(a).st
                         ELSE ExitStatus(workers[handle[ProcOf[a]]].rc, Cur(a).act)
        <4>3. SetCur(a, [Cur(a) EXCEPT !.alive = FALSE, !.st = st])
          BY <3>1 DEF ObservedExit
        <4>4. Cur(a).act \in Signals \cup {"none"}
          BY <1>d DEF Statuses
        <4>5. /\ st \in Terminal /\ st # "idle"
              /\ st \in {"stopping", "cancelled"} => HasIntent(Cur(a))
          BY <3>0, <4>2, <4>4 DEF HasIntent, Terminal
        <4> HIDE DEF st
        <4> DEFINE t == [Cur(a) EXCEPT !.alive = FALSE, !.st = st]
        <4>6. t \in Statuses /\ t.epoch = Cur(a).epoch /\ t.act = Cur(a).act
              /\ t.st = st
          BY <1>d, <4>5, Candidate
        <4>7. SetCur(a, t)
          BY <4>3
        <4> HIDE DEF t
        <4> QED BY <4>5, <4>6, <4>7
      <3>2. CASE ObservedAlive(a)
        <4>1. PICK st \in {Cur(a).st, "running"} :
                 SetCur(a, [Cur(a) EXCEPT !.alive = TRUE, !.st = st])
          BY <3>2 DEF ObservedAlive
        <4>2. st \in Terminal \cup ActiveStatus \cup {"idle"}
          BY <1>d DEF Statuses, ActiveStatus
        <4> DEFINE t == [Cur(a) EXCEPT !.alive = TRUE, !.st = st]
        <4>6. t \in Statuses /\ t.epoch = Cur(a).epoch /\ t.act = Cur(a).act
              /\ t.st = st
          BY <1>d, <4>2, Candidate
        <4>7. SetCur(a, t)
          BY <4>1
        <4> HIDE DEF t
        <4> QED BY <4>1, <4>6, <4>7 DEF HasIntent
      <3>3. CASE ObservedGone(a)
        <4>1. \A act \in Signals \cup {"none"} :
                 /\ GuessedExit(act) \in Terminal
                 /\ GuessedExit(act) = "cancelled" => act # "none"
          BY <3>0 DEF GuessedExit
        <4> DEFINE st == CASE Cur(a).st \in ActiveStatus -> GuessedExit(Cur(a).act)
                           [] Cur(a).st = "idle" /\ report # "none" ->
                                GuessedExit("none")
                           [] OTHER -> Cur(a).st
        <4>2. SetCur(a, [Cur(a) EXCEPT !.alive = FALSE, !.st = st])
          BY <3>3 DEF ObservedGone
        <4>3. /\ st \in Terminal \cup ActiveStatus \cup {"idle"}
              /\ st = "idle" => Cur(a).st = "idle"
              /\ st \in {"stopping", "cancelled"} => HasIntent(Cur(a))
          <5>1. Cur(a).act \in Signals \cup {"none"}
            BY <1>d DEF Statuses
          <5> QED BY <1>d, <4>1, <5>1 DEF Statuses, HasIntent, Terminal, ActiveStatus
        <4> HIDE DEF st
        <4> DEFINE t == [Cur(a) EXCEPT !.alive = FALSE, !.st = st]
        <4>6. t \in Statuses /\ t.epoch = Cur(a).epoch /\ t.act = Cur(a).act
              /\ t.st = st
          BY <1>d, <4>3, Candidate
        <4>7. SetCur(a, t)
          BY <4>2
        <4> HIDE DEF t
        <4> QED BY <4>3, <4>6, <4>7
      <3> QED BY <1>10, <3>1, <3>2, <3>3 DEF Observe
    <2>3. Cur(a)' = s
      BY <1>a, <1>d, <2>2 DEF SetCur, Cur, TypeOK, Locals
    <2>4. Meant(Cur(a))'
      BY <1>a, <2>1, <2>2, <2>3
         DEF CallInv, MeantBy, Meant, HasIntent, Looked, Refreshing
    <2> QED BY <1>a, <1>c, <2>1, <2>2, <2>3, <2>4, CallHas
          DEF LookKept, CallInv, Knows, Meant, Looked, Refreshing
  <1>11. CASE MergeStatus(a)
    <2>1. status' = Merge(status, Cur(a)) /\ pc[a] = "merge" /\ cmds' = cmds
      BY <1>11 DEF MergeStatus
    <2>2. Cur(a).epoch = status.epoch /\ (Launched => Cur(a).st # "idle")
          /\ Meant(Cur(a))
      BY <1>a, <2>1 DEF CallInv, Knows, MeantBy, Looked, Refreshing
    <2>3. /\ status'.epoch = status.epoch
          /\ status'.st = "idle" => status.st = "idle" \/ Cur(a).st = "idle"
          /\ HasIntent(status') => HasIntent(status) \/ HasIntent(Cur(a))
      BY <1>d, <2>1, <2>2, MergeIs
    <2>4. Meant(status)'
      BY <1>a, <2>1, <2>2, <2>3 DEF Meant, HasIntent
    <2>5. CASE Returns(a)
      BY <1>a, <2>2, <2>3, <2>4, <2>5, CallReturns DEF LookKept, Returns, TypeOK
    <2>6. CASE ~Returns(a)
      <3>1. pc'[a] \in {"decide", "resume"} /\ Cur(a)' = status'
            /\ UNCHANGED workers
        BY <1>a, <1>d, <1>11, <2>6
           DEF MergeStatus, Step, SetCur, Cur, TypeOK, Locals, world
      <3>2. Launched => status'.st # "idle"
        BY <1>d, <2>2, <2>3
      <3>3. CASE pc'[a] = "decide"
        BY <1>a, <1>c, <2>2, <2>3, <2>4, <3>1, <3>2, <3>3, CallHas
           DEF LookKept, Meant, HasIntent, Signalling
      <3>4. CASE pc'[a] = "resume"
        BY <1>c, <2>3, <2>4, <3>1, <3>2, <3>4
           DEF LookKept, CallInv, Knows, LaunchOf, MeantBy, Meant, HasIntent, Looked,
               Launched, Spawned, SameBirths
      <3> QED BY <3>1, <3>3, <3>4
    <2> QED BY <2>5, <2>6
  <1>12. CASE Decide(a)
    <2>1. pc[a] = "decide" /\ pc'[a] \in {"idle", "append"} /\ status' = status
          /\ cmds' = cmds
      BY <1>a, <1>12 DEF Decide, Step, Returns, TypeOK, files
    <2>2. CASE pc'[a] = "idle"
      BY <1>a, <2>1, <2>2, CallReturns DEF LookKept, Meant, HasIntent
    <2>3. CASE pc'[a] = "append"
      <3>1. Cur(a)' = Cur(a)
        BY <1>a, <1>d, <1>12, <2>3 DEF Decide, Step, Returns, Cur, TypeOK, Locals
      <3> QED BY <1>a, <1>c, <2>1, <2>3, <3>1, CallHas
            DEF LookKept, CallInv, Knows, MeantBy, Meant, HasIntent, Looked, Signalling
    <2> QED BY <2>1, <2>2, <2>3
  <1>13. CASE Append(a)
    BY <1>a, <1>c, <1>d, <1>13
       DEF Append, LookKept, CallInv, Knows, LaunchOf, MeantBy, Meant, HasIntent,
           Launched, Spawned, SameBirths, ShapeOf, TypeOK, Cur, SetCur, Step,
           Returns, files, world, made, Looked, Refreshing, Signalling, Keyed,
           Locals, Statuses, Signals, CommandId, Terminal, ActiveStatus
  <1>14. CASE MarkStopping(a)
    <2>1. /\ pc[a] = "mark" /\ pc'[a] \in {"kill", "receipt"} /\ Cur(a)' = Cur(a)
          /\ cmds' = cmds /\ status'.epoch = status.epoch /\ status'.st # "idle"
          /\ HasIntent(status') => HasIntent(status) \/ status'.act = loc[a].op
      BY <1>a, <1>d, <1>14
         DEF MarkStopping, Step, Cur, TypeOK, Statuses, Terminal, HasIntent
    <2>2. loc[a].op \in Signals /\ CommandId(loc[a].op, status.epoch) \in cmds
      BY <1>a, <2>1 DEF ShapeOf, CallInv, Knows, Looked, Signalling
    <2>3. Meant(status)'
      BY <1>a, <2>1, <2>2 DEF Meant, HasIntent, CommandId
    <2> QED BY <1>a, <1>c, <2>1, <2>3, CallHas
          DEF LookKept, CallInv, Knows, MeantBy, Meant, HasIntent, Looked, Signalling
  <1>15. CASE Kill(a)
    BY <1>a, <1>c, <1>d, <1>15
       DEF Kill, Deliver, LookKept, CallInv, Knows, LaunchOf, MeantBy, Meant,
           HasIntent, Launched, Spawned, SameBirths, ShapeOf, TypeOK, Cur,
           SetCur, Step, Returns, files, world, made, Looked, Refreshing,
           Signalling, Keyed, Locals, Statuses, Signals, CommandId, Terminal,
           ActiveStatus
  <1>16. CASE LookupFailed(a)
    <2>1. /\ pc[a] = "lookup" /\ pc'[a] = "receipt" /\ Cur(a)' = Cur(a)
          /\ cmds' = cmds /\ status'.epoch = status.epoch /\ status'.act = status.act
          /\ status'.st \in {"completed", "incomplete", "failed"}
      BY <1>a, <1>d, <1>16
         DEF LookupFailed, Step, Cur, TypeOK, Statuses, GuessedExit, ExitStatus, Reports
    <2>2. Meant(status)'
      BY <1>a, <2>1 DEF Meant, HasIntent
    <2> QED BY <1>a, <1>c, <2>1, <2>2, CallHas
          DEF LookKept, CallInv, Knows, MeantBy, Meant, HasIntent, Looked, Signalling
  <1>17. CASE RestoreActive(a)
    <2>1. /\ pc[a] = "restore" /\ pc'[a] = "receipt" /\ Cur(a)' = Cur(a)
          /\ cmds' = cmds /\ status'.epoch = status.epoch /\ status'.act = "none"
          /\ status'.st \in ActiveStatus
          /\ status'.st = "stopping" => Cur(a).st = "stopping"
      BY <1>a, <1>d, <1>17 DEF RestoreActive, Step, Cur, TypeOK, Statuses, ActiveStatus
    <2>2. Meant(Cur(a)) /\ Cur(a).epoch = status.epoch
      BY <1>a, <2>1 DEF CallInv, Knows, MeantBy, Looked, Signalling
    <2>3. Meant(status)'
      BY <2>1, <2>2 DEF Meant, HasIntent, ActiveStatus
    <2> QED BY <1>a, <1>c, <2>1, <2>2, <2>3, CallHas
          DEF LookKept, CallInv, Knows, Meant, HasIntent, Looked, Signalling,
              ActiveStatus
  <1>18. CASE Receipt(a)
    BY <1>a, <1>c, <1>d, <1>18
       DEF Receipt, LookKept, CallInv, Knows, LaunchOf, MeantBy, Meant,
           HasIntent, Launched, Spawned, SameBirths, ShapeOf, TypeOK, Cur,
           SetCur, Step, Returns, files, world, made, Looked, Refreshing,
           Signalling, Keyed, Locals, Statuses, Signals, CommandId, Terminal,
           ActiveStatus
  <1> QED BY <1>1, <1>2, <1>3, <1>4, <1>5, <1>6, <1>7, <1>8, <1>9, <1>10, <1>11,
     <1>12, <1>13, <1>14, <1>15, <1>16, <1>17, <1>18
     DEF RefreshStep, SignalStep

\* The files of a run that has a directory, at a step that spawns nothing.
LEMMA DiskHas ==
  ASSUME TypeInv, TypeOK', Disk, SameBirths, exists, exists', idem' # "none",
         status'.epoch <= owner'.epoch, owner.epoch <= owner'.epoch,
         Launched => status'.st # "idle"
  PROVE  Disk'
  <1>1. owner.epoch \in Int /\ owner'.epoch \in Int
    BY LifecycleAssumption DEF TypeInv, TypeOK, Owners, Epoch
  <1>2. \A w \in Worker : workers[w].epoch \in Int
    BY LifecycleAssumption DEF TypeInv, TypeOK, Workers, Epoch
  <1> QED BY <1>1, <1>2 DEF Disk, SameBirths, Spawned, Launched

LEMMA OnceStays == CreatedOnce /\ SameBirths => CreatedOnce'
  BY DEF CreatedOnce, SameBirths

\* A create or a resume: each step leaves on disk what the next one relies on.
LEMMA LaunchingStep ==
  ASSUME DiskInv, NEW a \in Actor, CreateStep(a) \/ LaunchStep(a)
  PROVE  Disk' /\ CreatedOnce' /\ Meant(status)' /\ CallInv(a)'
  <1>a. /\ TypeInv /\ TypeOK /\ ShapeOf(a) /\ CallInv(a) /\ Meant(status) /\ Disk
        /\ CreatedOnce
    BY DEF DiskInv, TypeInv
  <1>b. TypeOK' /\ ShapeOf(a)' /\ cmds \subseteq cmds' /\ (exists => exists')
        /\ (idem # "none" => idem' # "none")
    BY <1>a, TypeCall DEF Done, Frame, CallStep
  <1>c. ~Spawn(a) => SameBirths /\ CreatedOnce'
    BY <1>a, BirthsStay, OnceStays DEF CallStep
  <1>d. /\ status \in Statuses /\ Cur(a) \in Statuses /\ loc[a] \in Locals
        /\ owner \in Owners /\ status.epoch \in Nat /\ owner.epoch \in Nat
        /\ loc[a].epoch \in Nat /\ owner.pid \in Nat
    BY <1>a, LifecycleAssumption DEF TypeOK, Locals, Cur, Statuses, Owners, Epoch
  <1>e. SameBirths /\ UNCHANGED files /\ exists' = exists
        /\ (idem' = "none" <=> idem = "none")
        => Disk' /\ Meant(status)'
    BY <1>a, <1>c DEF Disk, SameBirths, Spawned, Launched, Meant, HasIntent, files
  <1>1. CASE ReadKey(a)
    <2>1. pc[a] = "readKey" /\ pc'[a] \in {"idle", "recheck", "claim"}
          /\ UNCHANGED files
          /\ SameBirths /\ exists' = exists /\ (idem' = "none" <=> idem = "none")
      BY <1>a, <1>c, <1>1 DEF ReadKey, Spawn, Step, Returns, TypeOK
    <2>2. pc'[a] = "recheck" => ~Existing
      BY <1>a, <1>1 DEF ReadKey, Step, Returns, TypeOK
    <2>3. pc'[a] = "claim" => ~exists
      BY <1>a, <1>1 DEF ReadKey, Step, Returns, TypeOK, Disk
    <2>4. CallInv(a)'
      BY <2>1, <2>2, <2>3
         DEF CallInv, Knows, LaunchOf, MeantBy, Launched, Spawned, SameBirths,
             Looked, Refreshing, Signalling, Cur, Existing, Marked, files
    <2> QED BY <1>c, <1>e, <2>1, <2>4, <1>1 DEF ReadKey, Spawn, Step
  <1>2. CASE Recheck(a)
    <2>1. pc[a] = "recheck" /\ pc'[a] \in {"idle", "claim"}
          /\ UNCHANGED <<files, world>>
          /\ SameBirths
      BY <1>a, <1>c, <1>2 DEF Recheck, Spawn, Step, Returns, TypeOK
    <2>2. CallInv(a)'
      BY <1>a, <2>1
         DEF CallInv, Knows, LaunchOf, MeantBy, Launched, Spawned, SameBirths,
             Looked, Refreshing, Signalling, Cur, Existing, Marked, files,
             world, made
    <2> QED BY <1>c, <1>e, <2>1, <2>2, <1>2 DEF Recheck, Spawn, Step, world, made
  <1>3. CASE Claim(a)
    <2>1. pc[a] = "claim" /\ pc'[a] = "mkdir" /\ UNCHANGED files /\ exists' = exists
          /\ SameBirths /\ idem' = "creating"
      BY <1>a, <1>c, <1>3 DEF Claim, Spawn, Step, TypeOK
    <2>2. CallInv(a)'
      BY <1>a, <2>1
         DEF CallInv, Knows, LaunchOf, MeantBy, Launched, Spawned, SameBirths,
             Looked, Refreshing, Signalling, Cur, Existing, Marked, files
    <2>3. Disk' /\ Meant(status)'
      BY <1>a, <2>1 DEF Disk, SameBirths, Spawned, Launched, Meant, HasIntent, files
    <2> QED BY <1>c, <2>1, <2>2, <2>3, <1>3 DEF Claim, Spawn, Step
  <1>4. CASE MakeDir(a)
    <2>1. pc[a] = "mkdir" /\ pc'[a] \in {"idle", "reserve"} /\ UNCHANGED files
          /\ SameBirths /\ idem' = idem /\ idem # "none" /\ CreatedOnce'
      BY <1>a, <1>c, <1>4 DEF MakeDir, Spawn, Step, Returns, TypeOK, ShapeOf
    <2>2. Disk' /\ Meant(status)'
      BY <1>a, <2>1, <1>4
         DEF MakeDir, Disk, SameBirths, Spawned, Launched, Meant, HasIntent,
             files
    <2>3. CASE pc'[a] = "idle"
      BY <2>1, <2>2, <2>3, CallReturns
    <2>4. CASE pc'[a] = "reserve"
      <3>1. (~exists \/ (Marked /\ ~UnderWay)) /\ loc'[a] = loc[a]
        BY <1>a, <1>4, <2>4 DEF MakeDir, Step, Returns, TypeOK
      <3>2. ~exists \/ ~Existing
        BY <1>a, <2>1 DEF CallInv, LaunchOf
      <3>3. status.st = "idle" /\ owner.epoch = 0
        BY <1>a, <1>d, <3>1, <3>2
           DEF Disk, Existing, Marked, UnderWay, NoStatus, Statuses
      <3>4. ~Launched /\ loc[a].op = "create" /\ loc[a].epoch = 0
        BY <1>a, <2>1, <3>3 DEF Disk, ShapeOf, Keyed
      <3>5. CallInv(a)'
        BY <2>1, <2>4, <3>1, <3>3, <3>4
           DEF CallInv, Knows, LaunchOf, MeantBy, Launched, Spawned,
               SameBirths, Looked, Refreshing, Signalling, Cur, files
      <3> QED BY <2>1, <2>2, <3>5
    <2> QED BY <2>1, <2>3, <2>4
  <1>5. CASE Record(a)
    <2>1. pc[a] = "record" /\ pc'[a] = "idle" /\ UNCHANGED files /\ exists' = exists
          /\ SameBirths /\ idem' = "completed" /\ CreatedOnce'
      BY <1>a, <1>c, <1>5 DEF Record, Spawn, Step, Returns, TypeOK
    <2>2. Disk' /\ Meant(status)'
      BY <1>a, <2>1 DEF Disk, SameBirths, Spawned, Launched, Meant, HasIntent, files
    <2> QED BY <2>1, <2>2, CallReturns
  <1>6. CASE Resume(a)
    <2>1. pc[a] = "resume" /\ pc'[a] \in {"idle", "resumeAppend"}
          /\ UNCHANGED <<files, world>>
          /\ SameBirths /\ CreatedOnce'
      BY <1>a, <1>c, <1>6 DEF Resume, Spawn, Step, Returns, TypeOK
    <2>2. Disk' /\ Meant(status)'
      BY <1>e, <2>1 DEF world, made
    <2>3. CASE pc'[a] = "idle"
      BY <2>1, <2>2, <2>3, CallReturns
    <2>4. CASE pc'[a] = "resumeAppend"
      <3>1. Cur(a).st \in Terminal
            /\ loc'[a] = [loc[a] EXCEPT !.epoch = OwnerEpoch(a) + 1]
        BY <1>a, <1>6, <2>4 DEF Resume, Step, Returns, TypeOK
      <3>2. Cur(a) = status /\ OwnerEpoch(a) = owner.epoch
        BY <1>a, <1>d, <2>1 DEF CallInv, LaunchOf, OwnerEpoch, Disk
      <3>3. loc'[a].op = "resume" /\ loc'[a].epoch = owner.epoch + 1
        BY <1>a, <1>d, <2>1, <3>1, <3>2 DEF Locals, ShapeOf
      <3>4. \A w \in Worker : Spawned(w) => workers[w].epoch < owner.epoch + 1
        <4>1. \A w \in Worker : workers[w].epoch \in Int
          BY <1>a, LifecycleAssumption DEF TypeOK, Workers, Epoch
        <4> QED BY <1>a, <1>d, <4>1 DEF Disk
      <3>5. CallInv(a)'
        BY <2>1, <2>4, <3>1, <3>2, <3>3, <3>4
           DEF CallInv, Knows, LaunchOf, MeantBy, Launched, Spawned,
               SameBirths, Looked, Refreshing, Signalling, Cur, files, world
      <3> QED BY <2>1, <2>2, <3>5
    <2> QED BY <2>1, <2>3, <2>4
  <1>7. CASE ResumeAppend(a)
    <2>1. pc[a] = "resumeAppend" /\ pc'[a] = "reserve"
          /\ UNCHANGED <<status, owner, world, loc>>
          /\ SameBirths /\ CreatedOnce'
      BY <1>a, <1>c, <1>7 DEF ResumeAppend, Spawn, Step, TypeOK
    <2>2. Disk' /\ Meant(status)'
      BY <1>a, <1>b, <2>1 DEF Disk, Spawned, Launched, Meant, HasIntent, world, made
    <2>3. CallInv(a)'
      BY <1>a, <2>1
         DEF CallInv, Knows, LaunchOf, MeantBy, Launched, Spawned, SameBirths,
             Looked, Refreshing, Signalling, Cur, world
    <2> QED BY <2>1, <2>2, <2>3
  <1>8. CASE WriteReservation(a)
    <2>1. /\ pc[a] = "reserve" /\ pc'[a] = "creating"
          /\ UNCHANGED <<status, cmds, world, loc>>
          /\ owner' = [pid |-> 0, epoch |-> loc[a].epoch] /\ SameBirths /\ CreatedOnce'
          /\ exists /\ idem' # "none"
      BY <1>a, <1>b, <1>c, <1>8
         DEF WriteReservation, Spawn, Step, TypeOK, ShapeOf, Keyed, Disk
    <2>2. /\ loc[a].op \in Launches /\ owner.epoch <= loc[a].epoch
          /\ loc[a].op = "resume" => status.epoch < loc[a].epoch
      BY <1>a, <1>d, <2>1 DEF CallInv, LaunchOf, ShapeOf, Launch, Launches, Disk
    <2>3. Disk'
      <3>1. status'.epoch <= owner'.epoch /\ owner.epoch <= owner'.epoch
        BY <1>a, <1>d, <2>1, <2>2 DEF Disk
      <3>2. Launched => status'.st # "idle"
        BY <1>a, <2>1 DEF Disk
      <3> QED BY <1>a, <1>b, <2>1, <3>1, <3>2, DiskHas
    <2>4. CallInv(a)' /\ Meant(status)'
      BY <1>a, <2>1, <2>2
         DEF CallInv, Knows, LaunchOf, MeantBy, Launched, Spawned, SameBirths,
             Looked, Refreshing, Signalling, Cur, Meant, HasIntent, world
    <2> QED BY <2>1, <2>3, <2>4
  <1>9. CASE WriteCreating(a)
    <2>1. /\ pc[a] = "creating" /\ pc'[a] = "spawn"
          /\ UNCHANGED <<owner, cmds, world, loc>>
          /\ status' = [NoStatus EXCEPT !.st = "creating", !.epoch = loc[a].epoch]
          /\ SameBirths /\ CreatedOnce' /\ exists /\ exists' /\ idem' # "none"
      BY <1>a, <1>b, <1>c, <1>9
         DEF WriteCreating, Spawn, Step, TypeOK, ShapeOf, Keyed, Disk
    <2>2. status'.st = "creating" /\ status'.act = "none"
          /\ status'.epoch = loc[a].epoch
      BY <2>1 DEF NoStatus
    <2>3. owner.pid = 0 /\ owner.epoch = loc[a].epoch
      BY <1>a, <2>1 DEF CallInv, LaunchOf
    <2>4. Disk'
      BY <1>a, <1>b, <1>d, <2>1, <2>2, <2>3, DiskHas
    <2>5. CallInv(a)' /\ Meant(status)'
      BY <1>a, <2>1, <2>2, <2>3
         DEF CallInv, Knows, LaunchOf, MeantBy, Launched, Spawned, SameBirths,
             Looked, Refreshing, Signalling, Cur, Meant, HasIntent, world
    <2> QED BY <2>1, <2>4, <2>5
  <1>10. CASE Spawn(a)
    <2>1. PICK w \in Worker :
            /\ \A v \in Worker : workers[v].st = "unborn" <=> v >= w
            /\ workers' = [workers EXCEPT ![w] = [st |-> "live", rc |-> 0, sig |-> FALSE,
                               parent |-> ProcOf[a], epoch |-> loc[a].epoch]]
            /\ loc' = [loc EXCEPT ![a].pid = w]
      BY <1>10 DEF Spawn
    <2>2. /\ pc[a] = "spawn" /\ pc'[a] = "own" /\ UNCHANGED <<files, made>>
          /\ loc'[a].epoch = loc[a].epoch /\ loc'[a].op = loc[a].op /\ loc'[a].pid = w
      BY <1>a, <1>d, <1>10, <2>1 DEF Spawn, Step, TypeOK, Locals
    <2>3. /\ ~Spawned(w) /\ Spawned(w)' /\ workers'[w].epoch = loc[a].epoch
          /\ \A v \in Worker \ {w} : workers'[v] = workers[v]
      BY <1>a, <2>1 DEF Spawned, TypeOK, Worker
    <2>4. /\ \A v \in Worker : Spawned(v) => workers[v].epoch < loc[a].epoch
          /\ owner.pid = 0 /\ owner.epoch = loc[a].epoch
          /\ status.st = "creating" /\ status.act = "none"
          /\ status.epoch = loc[a].epoch
      BY <1>a, <2>2 DEF CallInv, LaunchOf
    <2>5. \A v \in Worker : workers[v].epoch \in Int
      BY <1>a, LifecycleAssumption DEF TypeOK, Workers, Epoch
    <2>6. CreatedOnce'
      <3> SUFFICES ASSUME NEW u \in Worker, NEW v \in Worker, u # v, Spawned(u)', Spawned(v)'
                   PROVE  workers'[u].epoch # workers'[v].epoch
        BY DEF CreatedOnce, Spawned
      <3> QED BY <1>a, <1>d, <2>3, <2>4, <2>5 DEF CreatedOnce, Spawned
    <2>7. Disk'
      BY <1>a, <1>d, <2>2, <2>3, <2>4 DEF Disk, Spawned, Launched, files, made
    <2>8. CallInv(a)' /\ Meant(status)'
      BY <1>a, <2>2, <2>3, <2>4
         DEF CallInv, Knows, LaunchOf, MeantBy, Launched, Spawned, SameBirths,
             Looked, Refreshing, Signalling, Cur, Meant, HasIntent, files
    <2> QED BY <2>6, <2>7, <2>8
  <1>11. CASE SpawnFails(a)
    <2>1. /\ pc[a] = "spawn" /\ pc'[a] = "failWrite" /\ UNCHANGED <<files, world>>
          /\ loc'[a] = [loc[a] EXCEPT !.cur = status] /\ SameBirths /\ CreatedOnce'
      BY <1>a, <1>c, <1>11 DEF SpawnFails, Spawn, Step, SetCur, TypeOK
    <2>2. Cur(a)' = status /\ loc'[a].epoch = loc[a].epoch /\ loc'[a].op = loc[a].op
      BY <1>d, <2>1 DEF Cur, Locals
    <2>3. CallInv(a)'
      BY <1>a, <2>1, <2>2
         DEF CallInv, Knows, LaunchOf, MeantBy, Launched, Spawned, SameBirths,
             Looked, Refreshing, Signalling, Cur, files, world
    <2> QED BY <1>e, <2>1, <2>3 DEF world, made
  <1>12. CASE FailWrite(a)
    <2>1. /\ pc[a] = "failWrite" /\ pc'[a] = "idle" /\ UNCHANGED <<owner, cmds, world>>
          /\ status' = [Cur(a) EXCEPT !.st = "failed", !.alive = FALSE]
          /\ SameBirths /\ CreatedOnce' /\ exists /\ exists' /\ idem' # "none"
      BY <1>a, <1>b, <1>c, <1>12
         DEF FailWrite, Spawn, Step, Returns, TypeOK, ShapeOf, Keyed, Disk
    <2>2. Cur(a) = status /\ status.act = "none"
      BY <1>a, <2>1 DEF CallInv, LaunchOf
    <2>3. status'.st = "failed" /\ status'.act = "none" /\ status'.epoch = status.epoch
      BY <1>d, <2>1, <2>2 DEF Statuses
    <2>4. Disk'
      BY <1>a, <1>b, <1>d, <2>1, <2>3, DiskHas DEF Disk
    <2> QED BY <2>1, <2>3, <2>4, CallReturns DEF Meant, HasIntent
  <1>13. CASE WriteOwner(a)
    <2>1. /\ pc[a] = "own" /\ pc'[a] = "starting"
          /\ UNCHANGED <<status, cmds, world, loc>>
          /\ owner' = [pid |-> loc[a].pid, epoch |-> loc[a].epoch]
          /\ SameBirths /\ CreatedOnce'
      BY <1>a, <1>c, <1>13 DEF WriteOwner, Spawn, Step, TypeOK
    <2>2. owner.epoch = loc[a].epoch
      BY <1>a, <2>1 DEF CallInv, LaunchOf
    <2>3. Disk'
      BY <1>a, <2>1, <2>2 DEF Disk, Spawned, Launched, world, made
    <2>4. CallInv(a)' /\ Meant(status)'
      BY <1>a, <2>1, <2>2
         DEF CallInv, Knows, LaunchOf, MeantBy, Launched, Spawned, SameBirths,
             Looked, Refreshing, Signalling, Cur, Meant, HasIntent, world
    <2> QED BY <2>1, <2>3, <2>4
  <1>14. CASE WriteStarting(a)
    <2>1. /\ pc[a] = "starting" /\ pc'[a] \in {"idle", "record"}
          /\ UNCHANGED <<owner, cmds, made, workers>>
          /\ status' = [st |-> "starting", act |-> "none", epoch |-> loc[a].epoch, alive |-> TRUE]
          /\ SameBirths /\ CreatedOnce' /\ exists /\ exists' /\ idem' # "none"
      BY <1>a, <1>b, <1>c, <1>14
         DEF WriteStarting, Spawn, Step, Returns, TypeOK, ShapeOf, Keyed, Disk,
             made
    <2>2. owner.epoch = loc[a].epoch
      BY <1>a, <2>1 DEF CallInv, LaunchOf
    <2>3. Disk'
      BY <1>a, <1>b, <1>d, <2>1, <2>2, DiskHas
    <2>4. CallInv(a)' /\ Meant(status)'
      BY <2>1
         DEF CallInv, Knows, LaunchOf, MeantBy, Launched, Spawned, SameBirths,
             Looked, Refreshing, Signalling, Cur, Meant, HasIntent
    <2> QED BY <2>1, <2>3, <2>4
  <1>15. CASE MetadataFails(a)
    <2>1. pc[a] \in {"own", "starting"} /\ pc'[a] = "idle" /\ UNCHANGED <<files, made>>
          /\ SameBirths /\ CreatedOnce'
      BY <1>a, <1>c, <1>15 DEF MetadataFails, Spawn, Step, Returns, TypeOK
    <2> QED BY <1>e, <2>1, CallReturns DEF made
  <1> QED BY <1>1, <1>2, <1>3, <1>4, <1>5, <1>6, <1>7, <1>8, <1>9, <1>10, <1>11,
     <1>12, <1>13, <1>14, <1>15
     DEF CreateStep, LaunchStep

\* What a call knows stays true while the files and the births do.
LEMMA CallStays ==
  ASSUME NEW b \in Actor, ShapeOf(b), CallInv(b), pc'[b] = pc[b], loc'[b] = loc[b],
         UNCHANGED <<status, owner, cmds, exists>>, SameBirths
  PROVE  CallInv(b)'
  <1>1. Cur(b)' = Cur(b) /\ (Launched' <=> Launched)
    BY DEF Cur, Launched, Spawned, SameBirths
  <1>2. Knows(b)' /\ MeantBy(b)'
    BY <1>1 DEF CallInv, Knows, MeantBy, Meant, HasIntent
  <1>3. LaunchOf(b)'
    <2>1. Existing' <=> Existing
      BY DEF Existing, Marked
    <2>2. \A w : w \in Worker => (Spawned(w)' <=> Spawned(w))
      BY DEF Spawned, SameBirths
    <2>3. pc[b] \in {"own", "starting"} => loc[b].pid \in Worker
      BY DEF ShapeOf
    <2> QED BY <1>1, <2>1, <2>2, <2>3 DEF CallInv, LaunchOf, SameBirths
  <1> QED BY <1>2, <1>3 DEF CallInv

\* A step of a call that launches nothing, as another one sees it.
LEMMA CallBeside ==
  ASSUME TypeInv, NEW b \in Actor, CallInv(b), loc[b].op \notin Launches, pc'[b] = pc[b],
         loc'[b] = loc[b], status'.epoch = status.epoch, cmds \subseteq cmds', SameBirths
  PROVE  CallInv(b)'
  <1>1. ShapeOf(b) /\ pc[b] \in Labels
    BY DEF TypeInv, TypeOK
  <1>2. pc[b] \in {"idle", "read"} \cup Refreshing \cup Signalling
    BY <1>1 DEF ShapeOf, Keyed, Launch, Launches, Labels, Refreshing, Signalling
  <1>3. LaunchOf(b)'
    BY <1>2 DEF LaunchOf, Refreshing, Signalling
  <1> QED BY <1>3 DEF CallInv, Knows, MeantBy, Meant, HasIntent, Launched, Spawned,
                  SameBirths, Cur

\* What is on disk stays true while nothing is written.
LEMMA DiskStays ==
  ASSUME Disk, CreatedOnce, Meant(status), UNCHANGED <<status, owner, cmds, made>>, SameBirths
  PROVE  Disk' /\ CreatedOnce' /\ Meant(status)'
  BY OnceStays DEF Disk, Meant, HasIntent, SameBirths, Spawned, Launched, made

\* Before any call there is no run.
LEMMA InitDisk == Init => DiskInv
  <1> SUFFICES ASSUME Init PROVE DiskInv
    OBVIOUS
  <1>1. TypeInv
    BY InitType
  <1>2. Alone /\ CreatedOnce
    BY DEF Init, Alone, NoLocals, Launches, CreatedOnce
  <1>3. Disk /\ Meant(status)
    BY DEF Init, Disk, Spawned, Launched, Meant, HasIntent, NoStatus
  <1>4. \A a \in Actor : CallInv(a)
    BY DEF Init, CallInv, Knows, LaunchOf, MeantBy, Looked, Refreshing, Signalling
  <1> QED BY <1>1, <1>2, <1>3, <1>4 DEF DiskInv

\* A step of a call leaves no call beside a launch.
LEMMA AloneStays ==
  ASSUME TypeInv, Alone, NEW a \in Actor, CallStep(a)
  PROVE  Alone'
  <1>1. Others(a) /\ ShapeOf(a)'
    BY TypeCall DEF Done, Frame
  <1>2. pc[a] # "idle" /\ (pc'[a] = "idle" \/ loc'[a].op = loc[a].op)
    BY KeepsName
  <1>3. loc'[a].op \in Launches => loc[a].op \in Launches
    BY <1>1, <1>2 DEF ShapeOf, NoLocals, Launches
  <1> QED BY <1>1, <1>2, <1>3 DEF Alone, Others

\* A step of any call, with the other calls beside it.
LEMMA DiskCall ==
  ASSUME DiskInv, NEW a \in Actor, CallStep(a)
  PROVE  DiskInv'
  <1>1. TypeInv /\ Alone /\ Disk /\ CreatedOnce /\ Meant(status) /\ CallInv(a)
        /\ TypeOK /\ ShapeOf(a)
    BY DEF DiskInv, TypeInv
  <1>2. TypeInv' /\ Alone' /\ pc[a] # "idle" /\ Others(a) /\ cmds \subseteq cmds'
    BY <1>1, TypeStep, AloneStays, KeepsName, TypeCall DEF Next, Done, Frame
  <1>3. CASE CreateStep(a) \/ LaunchStep(a)
    <2>1. loc[a].op \in Launches
      BY <1>1, <1>3 DEF CreateStep, LaunchStep, ReadKey, Recheck, Claim, MakeDir,
         Record, Resume, ResumeAppend, WriteReservation, WriteCreating, Spawn,
         SpawnFails, FailWrite, WriteOwner, WriteStarting, MetadataFails, Step, ShapeOf,
         Keyed, Launch, Launches
    <2>2. \A b \in Actor \ {a} : pc'[b] = "idle"
      BY <1>1, <1>2, <2>1 DEF Alone, Others
    <2>3. \A b \in Actor : CallInv(b)'
      BY <1>3, <2>2, LaunchingStep, CallReturns
    <2> QED BY <1>2, <1>3, <2>3, LaunchingStep DEF DiskInv
  <1>4. CASE RefreshStep(a) \/ SignalStep(a)
    <2>1. LookKept(a)
      BY <1>4, LookStep
    <2>2. /\ UNCHANGED <<owner, made>> /\ ~Spawn(a) /\ SameBirths
          /\ pc[a] \in {"read"} \cup Refreshing \cup Signalling
      <3>1. pc[a] \in {"read"} \cup Refreshing \cup Signalling
        BY <1>4 DEF RefreshStep, SignalStep, RefreshRead, Replay, ReplayKill,
           ReplayReceipt, Replayed, DenyReceipt, DenyStatus, CloseReceipt, CloseStatus,
           Observe, MergeStatus, Decide, Append, MarkStopping, Kill, LookupFailed,
           RestoreActive, Receipt, Deliver, Step, Refreshing, Signalling
      <3>2. UNCHANGED <<owner, made>>
        BY <1>4 DEF RefreshStep, SignalStep, RefreshRead, Replay, ReplayKill,
           ReplayReceipt, Replayed, DenyReceipt, DenyStatus, CloseReceipt, CloseStatus,
           Observe, MergeStatus, Decide, Append, MarkStopping, Kill, LookupFailed,
           RestoreActive, Receipt, files, world, made
      <3>3. ~Spawn(a)
        BY <3>1 DEF Spawn, Step, Refreshing, Signalling
      <3> QED BY <1>1, <3>1, <3>2, <3>3, BirthsStay, <1>4 DEF CallStep
    <2>3. exists /\ exists' /\ idem' # "none"
      BY <1>1, <2>2 DEF ShapeOf, Keyed, Refreshing, Signalling, Disk, made
    <2>4. Disk'
      <3>1. status'.epoch <= owner'.epoch /\ owner.epoch <= owner'.epoch
        BY <1>1, <2>1, <2>2, LifecycleAssumption
           DEF LookKept, Disk, TypeOK, Owners, Epoch
      <3>2. Launched => status'.st # "idle"
        BY <1>1, <2>1 DEF LookKept, Disk
      <3>3. TypeOK'
        BY <1>2 DEF TypeInv
      <3> QED BY <1>1, <2>2, <2>3, <3>1, <3>2, <3>3, DiskHas
    <2>5. ASSUME NEW b \in Actor \ {a} PROVE CallInv(b)'
      <3>1. loc[b].op \notin Launches
        BY <1>1, <1>2 DEF Alone
      <3>2. CallInv(b) /\ pc'[b] = pc[b] /\ loc'[b] = loc[b]
        BY <1>2 DEF DiskInv, Others
      <3> QED BY <1>1, <1>2, <2>1, <2>2, <3>1, <3>2, CallBeside DEF LookKept
    <2>6. CreatedOnce'
      BY <1>1, <2>2, OnceStays
    <2> QED BY <1>2, <2>1, <2>4, <2>5, <2>6 DEF LookKept, DiskInv
  <1> QED BY <1>3, <1>4 DEF CallStep

\* A call begins: LaunchAlone keeps it from a launch, and a launch from it.
LEMMA DiskBegin ==
  ASSUME DiskInv, LaunchAlone, NEW a \in Actor,
         BeginCreate(a) \/ \E op \in Ops : Begin(a, op)
  PROVE  DiskInv'
  <1>1. TypeInv /\ TypeInv' /\ Others(a)
    BY TypeStep, TypeCall DEF DiskInv, Next, Done, Frame
  <1>2. UNCHANGED <<files, world>> /\ pc'[a] \in {"read", "readKey"}
    BY <1>1 DEF BeginCreate, Begin, TypeInv, TypeOK
  <1>3. Alone'
    <2>1. \A b \in Actor \ {a} : loc[b].op \in Launches => pc[b] # "idle"
      BY <1>1 DEF TypeInv, ShapeOf, NoLocals, Launches
    <2>2. CASE BeginCreate(a)
      <3>1. \A b \in Actor \ {a} : pc[b] = "idle"
        BY <2>2 DEF BeginCreate, Locked
      <3> QED BY <1>1, <2>1, <3>1 DEF Alone, Others
    <2>3. ASSUME NEW op \in Ops, Begin(a, op) PROVE Alone'
      <3>1. loc'[a].op = op
        BY <1>1, <2>3 DEF Begin, TypeInv, TypeOK, NoLocals
      <3>2. \A b \in Actor \ {a} : pc[b] # "idle" => {op, loc[b].op} \cap Launches = {}
        BY <2>3 DEF Begin
      <3> QED BY <1>1, <2>1, <3>1, <3>2 DEF Alone, Others
    <2> QED BY <2>2, <2>3
  <1>4. SameBirths
    BY <1>2 DEF SameBirths, world
  <1>5. \A b \in Actor : CallInv(b)'
    <2>1. CallInv(a)'
      BY <1>2 DEF CallInv, Knows, LaunchOf, MeantBy, Looked, Refreshing, Signalling
    <2>2. ASSUME NEW b \in Actor \ {a} PROVE CallInv(b)'
      BY <1>1, <1>2, <1>4, CallStays DEF Others, DiskInv, TypeInv, files, world, made
    <2> QED BY <2>1, <2>2
  <1> QED BY <1>1, <1>2, <1>3, <1>4, <1>5, DiskStays DEF DiskInv, files, world

\* A worker exits or an API process dies: the files stay, its calls end.
LEMMA DiskProcess ==
  ASSUME DiskInv,
         (\E w \in Worker : WorkerExits(w)) \/ (\E p \in Proc : Crash(p)) \/ UNCHANGED vars
  PROVE  DiskInv'
  <1>1. TypeInv'
    BY TypeStep DEF DiskInv, Next
  <1>2. UNCHANGED <<files, made>> /\ SameBirths
    <2>1. CASE UNCHANGED vars
      BY <2>1 DEF vars, world, SameBirths
    <2>2. ASSUME NEW w \in Worker, WorkerExits(w) PROVE UNCHANGED <<files, made>>
          /\ SameBirths
      BY <2>2 DEF WorkerExits, Live, SameBirths, DiskInv, TypeInv, TypeOK, Workers
    <2>3. ASSUME NEW p \in Proc, Crash(p) PROVE UNCHANGED <<files, made>> /\ SameBirths
      BY <2>3 DEF Crash, SameBirths, DiskInv, TypeInv, TypeOK, Workers
    <2> QED BY <2>1, <2>2, <2>3
  <1>3. \A b \in Actor : \/ pc'[b] = pc[b] /\ loc'[b] = loc[b]
                         \/ pc'[b] = "idle" /\ loc'[b] = NoLocals
    BY DEF WorkerExits, Crash, vars, DiskInv, TypeInv, TypeOK
  <1>4. Alone'
    BY <1>3 DEF DiskInv, Alone, NoLocals, Launches
  <1>5. \A b \in Actor : CallInv(b)'
    BY <1>2, <1>3, CallStays, CallReturns DEF DiskInv, TypeInv, files, made
  <1> QED BY <1>1, <1>2, <1>4, <1>5, DiskStays DEF DiskInv, files

LEMMA DiskStep == DiskInv /\ LaunchAlone /\ [Next]_vars => DiskInv'
  BY DiskCall, DiskBegin, DiskProcess DEF Next

LEMMA DiskAlways == LaunchAlone => (Spec => []DiskInv)
  <1> SUFFICES ASSUME LaunchAlone PROVE Spec => []DiskInv
    OBVIOUS
  <1>1. DiskInv /\ [Next]_vars => DiskInv'
    BY DiskStep
  <1> QED BY <1>1, InitDisk, PTL DEF Spec

\* Only a stop or abort of this very generation makes a run "cancelled".
LEMMA CancelledByCommand == DiskInv => CancelledByOperator
  BY DEF DiskInv, Meant, HasIntent, CancelledByOperator

\* _terminal_status_for_exit, while no other call overlaps a launch: whatever
\* polls, merges, replays and crashes happen in between, a run is "cancelled"
\* only if a stop or an abort of its present generation was appended.
THEOREM CancelledCorrect == LaunchAlone => (Spec => []CancelledByOperator)
  BY CancelledByCommand, DiskAlways, PTL

\* create_run, while no other call overlaps a launch: however often a keyed
\* create is sent, refused, failed or cut short, no two workers are of one
\* generation, so the run's create starts one worker.
THEOREM CreatedOnceCorrect == LaunchAlone => (Spec => []CreatedOnce)
  <1>1. DiskInv => CreatedOnce
    BY DEF DiskInv
  <1> QED BY <1>1, DiskAlways, PTL

\* A stop or abort on disk is not taken back.
LEMMA StopStep ==
  ASSUME DiskInv, [Next]_vars, status.st = "stopping"
  PROVE  \/ status'.st \in Terminal \cup {"stopping"}
         \/ status'.epoch > status.epoch \/ denials
  <1>a. TypeOK
    BY DEF DiskInv, TypeInv
  <1>1. ASSUME NEW a \in Actor, CallStep(a)
        PROVE  status'.st \in Terminal \cup {"stopping"} \/ denials
    <2>a. ShapeOf(a) /\ CallInv(a) /\ status \in Statuses /\ Cur(a) \in Statuses
      BY DEF DiskInv, TypeInv, TypeOK, Cur, Locals
    <2>1. CASE UNCHANGED status
      BY <2>1
    <2>2. CASE DenyStatus(a) \/ RestoreActive(a)
      BY <2>a, <2>2 DEF DenyStatus, RestoreActive, Step, ShapeOf
    <2>3. CASE CloseStatus(a)
      BY <2>a, <2>3 DEF CloseStatus, Step, ShapeOf, Statuses
    <2>4. CASE MergeStatus(a)
      <3>1. Cur(a).epoch = status.epoch
        BY <2>a, <2>4 DEF MergeStatus, CallInv, Knows, Looked, Refreshing
      <3> QED BY <2>a, <2>4, <3>1, MergeIs DEF MergeStatus, Terminal
    <2>5. CASE MarkStopping(a)
      BY <2>a, <2>5 DEF MarkStopping, Statuses
    <2>6. CASE LookupFailed(a)
      BY <1>a, <2>a, <2>6
         DEF LookupFailed, Statuses, GuessedExit, ExitStatus, TypeOK, Reports, Terminal
    <2>7. CASE WriteCreating(a) \/ FailWrite(a) \/ WriteStarting(a)
      BY <2>a, <2>7
         DEF WriteCreating, FailWrite, WriteStarting, Step, CallInv, LaunchOf, Terminal
    <2> QED
      BY <1>1, <2>1, <2>2, <2>3, <2>4, <2>5, <2>6, <2>7
      DEF CallStep, RefreshStep, SignalStep, CreateStep, LaunchStep, RefreshRead,
          Replay, ReplayKill, ReplayReceipt, Replayed, DenyReceipt, CloseReceipt,
          Observe, Decide, Append, Kill, Receipt, ReadKey, Recheck, Claim, MakeDir,
          Record, Resume, ResumeAppend, WriteReservation, Spawn, SpawnFails, WriteOwner,
          MetadataFails, files
  <1>2. CASE UNCHANGED status
    BY <1>2
  <1> QED BY <1>1, <1>2 DEF Next, BeginCreate, Begin, WorkerExits, Crash, vars, files

\* _merge_lifecycle_status, while no other call overlaps a launch: an intent on
\* disk is followed by the end of the run or by a new generation, never by
\* "running", whatever stale polls are merged, unless a signal was denied.
THEOREM StopSticksCorrect == LaunchAlone => (Spec => StopSticks)
  <1> SUFFICES ASSUME LaunchAlone PROVE Spec => StopSticks
    OBVIOUS
  <1>1. DiskInv /\ [Next]_vars =>
          [status.st = "stopping" => \/ status'.st \in Terminal \cup {"stopping"}
                                     \/ status'.epoch > status.epoch
                                     \/ denials]_vars
    BY StopStep
  <1> QED BY <1>1, DiskAlways, PTL DEF Spec, StopSticks

----------------------------------------------------------------------------
(* The workers and their owner.  A Popen outlives its worker, so a process *)
(* that made one before a resume by another process takes the new worker   *)
(* for dead: the facts hold of a run that is resumed by one process only.  *)

OneProcess == \A a, b \in Actor : ProcOf[a] = ProcOf[b]
ResumedAtHome == LaunchAlone /\ ("resume" \in Ops => OneProcess)

\* No worker runs but, perhaps, one that was told to end.
Quiet == /\ \A w \in Live : owner.pid = w => workers[w].sig
         /\ \A p \in Proc : handle[p] \notin Live

\* A Popen is of the owned worker, or of the worker of an earlier generation,
\* which is over: then the new worker is being launched or was told to end.
Earlier(p) == /\ "resume" \in Ops /\ handle[p] \in Worker
              /\ Spawned(handle[p]) /\ handle[p] \notin Live
              /\ owner.pid \in Live => workers[owner.pid].sig \/ Launching(owner.pid)
HandleOf(p) == handle[p] \in {0, owner.pid} \/ Earlier(p)

\* A call acts on a worker that is gone, or on the owned one.
Trusts(a) == /\ loc[a].op = "resume" => "resume" \in Ops
             /\ pc[a] \in Looked =>
                  /\ Cur(a).st \in Terminal => Quiet
                  /\ pc[a] \in {"lookup", "closeReceipt", "closeStatus"} => Quiet
                  /\ pc[a] \in {"append", "mark", "kill", "replayKill"} =>
                        loc[a].pid = owner.pid

OwnerInv == /\ DiskInv /\ OwnedUntilCrash
            /\ owner.pid # 0 => Spawned(owner.pid)
            /\ status.st \in Terminal => Quiet
            /\ \A p \in Proc : HandleOf(p)
            /\ \A a \in Actor : Trusts(a)

\* A step that starts no worker and forgets no signal.
Fading == \A w \in Worker : /\ workers'[w].st = "live" => workers[w].st = "live"
                            /\ workers[w].sig => workers'[w].sig
                            /\ workers'[w].st = "unborn" <=> workers[w].st = "unborn"

\* Only the spawn of a launch brings a worker to life.
LEMMA FadingCall ==
  ASSUME TypeInv, NEW a \in Actor, CallStep(a), ~Spawn(a)
  PROVE  Fading
  <1>a. TypeOK /\ ShapeOf(a)
    BY DEF TypeInv
  <1>1. CASE UNCHANGED workers
    BY <1>1 DEF Fading
  <1>2. CASE ReplayKill(a) \/ Kill(a)
    BY <1>a, <1>2 DEF ReplayKill, Kill, Deliver, Fading, TypeOK, Workers
  <1>3. CASE Observe(a)
    <2>1. CASE ObservedExit(a)
      <3>1. workers' = Reaped(handle[ProcOf[a]])
        BY <2>1 DEF ObservedExit
      <3> QED BY <1>a, <3>1 DEF Reaped, Fading, TypeOK, Workers
    <2> QED BY <1>3, <2>1 DEF Observe, ObservedAlive, ObservedGone, Fading
  <1>4. CASE MetadataFails(a)
    BY <1>a, <1>4 DEF MetadataFails, Fading, TypeOK, Workers
  <1> QED
    BY <1>1, <1>2, <1>3, <1>4
    DEF CallStep, RefreshStep, SignalStep, CreateStep, LaunchStep, RefreshRead, Replay,
        ReplayReceipt, Replayed, DenyReceipt, DenyStatus, CloseReceipt, CloseStatus,
        MergeStatus, Decide, Append, MarkStopping, LookupFailed, RestoreActive, Receipt,
        ReadKey, Recheck, Claim, MakeDir, Record, Resume, ResumeAppend,
        WriteReservation, WriteCreating, SpawnFails, FailWrite, WriteOwner,
        WriteStarting, world, made

\* A run with no worker has none until the next launch.
LEMMA QuietStays ==
  ASSUME Quiet, Fading, owner'.pid = owner.pid,
         \A p \in Proc : handle'[p] \in {handle[p], 0}
  PROVE  Quiet'
  <1>1. 0 \notin Live' /\ Live' \subseteq Live
    BY LifecycleAssumption DEF Live, Worker, Fading
  <1> QED BY <1>1 DEF Quiet, Fading, Live

\* Who finds the worker gone, by its Popen or by the owner, is right.
LEMMA NobodyRuns ==
  ASSUME OwnerInv, ResumedAtHome, NEW a \in Actor, pc[a] \notin {"idle", "own", "starting"},
         owner.pid \notin Live \/ ~IsAlive(a)
  PROVE  Quiet
  <1>1. \A p \in Proc : HandleOf(p)
    BY DEF OwnerInv
  <1>2. CASE owner.pid \notin Live
    <2>1. 0 \notin Live
      BY LifecycleAssumption DEF Live, Worker
    <2> QED BY <1>1, <1>2, <2>1 DEF Quiet, HandleOf, Earlier
  <1>3. CASE owner.pid \in Live
    <2>1. handle[ProcOf[a]] # 0 /\ handle[ProcOf[a]] \notin Live
      BY <1>3 DEF IsAlive
    <2>2. Earlier(ProcOf[a])
      BY <1>1, <1>3, <2>1 DEF HandleOf, Proc
    <2>3. ~Launching(owner.pid)
      <3> SUFFICES ASSUME NEW b \in Actor, pc[b] \in {"own", "starting"} PROVE FALSE
        BY DEF Launching
      <3>1. loc[b].op \in Launches
        BY DEF OwnerInv, DiskInv, TypeInv, ShapeOf, Launch
      <3> QED BY <3>1 DEF OwnerInv, DiskInv, Alone
    <2>4. \A p \in Proc : p = ProcOf[a]
      BY <2>2 DEF Earlier, ResumedAtHome, OneProcess, Proc
    <2> QED BY <1>3, <2>1, <2>2, <2>3, <2>4 DEF Quiet, Earlier
  <1> QED BY <1>2, <1>3

\* What a poll, a stop or an abort must keep: a terminal status is one of a run
\* whose worker is over.
LEMMA LookTrusts ==
  ASSUME OwnerInv, ResumedAtHome, NEW a \in Actor, RefreshStep(a) \/ SignalStep(a)
  PROVE  (status'.st \in Terminal => Quiet') /\ Trusts(a)'
  <1>a. /\ TypeInv /\ TypeOK /\ ShapeOf(a) /\ CallInv(a) /\ Trusts(a) /\ DiskInv
        /\ status.st \in Terminal => Quiet
    BY DEF OwnerInv, DiskInv, TypeInv
  <1>b. TypeOK' /\ ShapeOf(a)'
    BY <1>a, TypeCall DEF Done, CallStep
  <1>c. /\ status \in Statuses /\ Cur(a) \in Statuses /\ loc[a] \in Locals
        /\ pc[a] # "idle" /\ (pc'[a] = "idle" \/ loc'[a].op = loc[a].op)
    BY <1>a, KeepsName DEF TypeOK, Locals, Cur, CallStep
  <1>d. /\ pc[a] \in {"read"} \cup Refreshing \cup Signalling
        /\ UNCHANGED <<owner, handle>>
    <2>1. pc[a] \in {"read"} \cup Refreshing \cup Signalling
      BY
         DEF RefreshStep, SignalStep, RefreshRead, Replay, ReplayKill,
             ReplayReceipt, Replayed, DenyReceipt, DenyStatus, CloseReceipt,
             CloseStatus, Observe, MergeStatus, Decide, Append, MarkStopping,
             Kill, LookupFailed, RestoreActive, Receipt, Deliver, Step,
             Refreshing, Signalling
    <2>2. UNCHANGED <<owner, handle>>
      BY
         DEF RefreshStep, SignalStep, RefreshRead, Replay, ReplayKill,
             ReplayReceipt, Replayed, DenyReceipt, DenyStatus, CloseReceipt,
             CloseStatus, Observe, MergeStatus, Decide, Append, MarkStopping,
             Kill, LookupFailed, RestoreActive, Receipt, files, world
    <2> QED BY <2>1, <2>2
  <1>e. Quiet => Quiet'
    <2>1. ~Spawn(a)
      BY <1>d DEF Spawn, Step, Refreshing, Signalling
    <2> QED BY <1>a, <1>d, <2>1, FadingCall, QuietStays DEF CallStep
  <1>f. loc'[a].op = "resume" => "resume" \in Ops
    BY <1>a, <1>b, <1>c DEF Trusts, ShapeOf, NoLocals
  <1>g. CASE pc'[a] = "idle" /\ UNCHANGED status
    BY <1>a, <1>e, <1>f, <1>g DEF Trusts, Looked, Refreshing, Signalling
  <1>1. CASE RefreshRead(a)
    <2>1. pc'[a] = "replay" /\ Cur(a)' = status /\ status' = status
      BY <1>a, <1>c, <1>1 DEF RefreshRead, Step, SetCur, Cur, TypeOK, Locals, files
    <2> QED BY <1>a, <1>e, <1>f, <2>1 DEF Trusts, Looked, Refreshing, Signalling
  <1>2. CASE Replay(a)
    <2>1. pc[a] = "replay" /\ pc'[a] \in {"observe", "closeReceipt", "replayKill"}
          /\ Cur(a)' = Cur(a) /\ status' = status
      BY <1>a, <1>c, <1>2 DEF Replay, Step, Cur, TypeOK, Locals, files
    <2>2. pc'[a] = "replayKill" => loc'[a].pid = owner.pid
      BY <1>a, <1>c, <1>2 DEF Replay, Step, TypeOK, Locals
    <2>3. pc'[a] = "closeReceipt" => Quiet
      <3>1. pc'[a] = "closeReceipt" => owner.pid \notin Live \/ ~IsAlive(a)
        BY <1>a, <1>2, LifecycleAssumption DEF Replay, Step, TypeOK, Live, Worker
      <3> QED BY <2>1, <3>1, NobodyRuns
    <2> QED BY <1>a, <1>d, <1>e, <1>f, <2>1, <2>2, <2>3
       DEF Trusts, Looked, Refreshing, Signalling
  <1>3. CASE ReplayKill(a)
    <2>1. pc[a] = "replayKill"
          /\ pc'[a] \in {"closeReceipt", "replayReceipt", "denyReceipt"}
          /\ UNCHANGED <<loc, status>>
      BY <1>a, <1>3 DEF ReplayKill, Deliver, Step, TypeOK, files
    <2>2. pc'[a] = "closeReceipt" => Quiet
      <3>1. pc'[a] = "closeReceipt" => workers[loc[a].pid].st = "reaped"
        BY <1>a, <2>1, <1>3 DEF ReplayKill, Deliver, Step, TypeOK
      <3>2. loc[a].pid = owner.pid
        BY <1>a, <2>1 DEF Trusts, Looked, Refreshing, Signalling
      <3> QED BY <2>1, <3>1, <3>2, NobodyRuns DEF Live
    <2> QED BY <1>a, <1>e, <1>f, <2>1, <2>2
       DEF Trusts, Looked, Refreshing, Signalling, Cur
  <1>4. CASE ReplayReceipt(a)
    <2>1. pc[a] = "replayReceipt" /\ pc'[a] = "replayed" /\ UNCHANGED <<loc, status>>
      BY <1>a, <1>4 DEF ReplayReceipt, Step, TypeOK
    <2> QED BY <1>a, <1>e, <1>f, <2>1 DEF Trusts, Looked, Refreshing, Signalling, Cur
  <1>5. CASE Replayed(a)
    <2>1. pc'[a] = "observe" /\ Cur(a)' = status /\ status' = status
      BY <1>a, <1>c, <1>5 DEF Replayed, Step, SetCur, Cur, TypeOK, Locals, files
    <2> QED BY <1>a, <1>e, <1>f, <2>1 DEF Trusts, Looked, Refreshing, Signalling
  <1>6. CASE DenyReceipt(a)
    <2>1. pc[a] = "denyReceipt" /\ pc'[a] = "denyStatus" /\ UNCHANGED <<loc, status>>
      BY <1>a, <1>6 DEF DenyReceipt, Step, TypeOK
    <2> QED BY <1>a, <1>e, <1>f, <2>1 DEF Trusts, Looked, Refreshing, Signalling, Cur
  <1>7. CASE DenyStatus(a)
    <2>1. pc'[a] = "observe" /\ Cur(a)' = status' /\ status'.st = "running"
      BY <1>a, <1>c, <1>7 DEF DenyStatus, Step, SetCur, Cur, TypeOK, Locals, Statuses
    <2> QED BY <1>e, <1>f, <2>1 DEF Trusts, Looked, Refreshing, Signalling, Terminal
  <1>8. CASE CloseReceipt(a)
    <2>1. pc[a] = "closeReceipt" /\ pc'[a] = "closeStatus" /\ UNCHANGED status
      BY <1>a, <1>8 DEF CloseReceipt, Step, TypeOK
    <2> QED BY <1>a, <1>e, <1>f, <2>1 DEF Trusts, Looked, Refreshing, Signalling
  <1>9. CASE CloseStatus(a)
    <2>1. pc[a] = "closeStatus" /\ pc'[a] = "observe"
      BY <1>a, <1>9 DEF CloseStatus, Step, TypeOK
    <2> QED BY <1>a, <1>e, <1>f, <2>1 DEF Trusts, Looked, Refreshing, Signalling
  <1>10. CASE Observe(a)
    <2>1. pc[a] = "observe" /\ pc'[a] = "merge" /\ status' = status
      BY <1>a, <1>10 DEF Observe, Step, TypeOK, files
    <2>2. Cur(a)'.st \in Terminal => Cur(a).st \in Terminal \/ Quiet
      <3>1. CASE ObservedAlive(a)
        <4>1. PICK st \in {Cur(a).st, "running"} :
                 SetCur(a, [Cur(a) EXCEPT !.alive = TRUE, !.st = st])
          BY <3>1 DEF ObservedAlive
        <4>2. Cur(a)'.st = st
          BY <1>a, <1>c, <4>1 DEF SetCur, Cur, TypeOK, Locals, Statuses
        <4> QED BY <4>2 DEF Terminal
      <3>2. CASE ObservedExit(a) \/ ObservedGone(a)
        <4>1. ~IsAlive(a)
          BY <3>2 DEF ObservedExit, ObservedGone, IsAlive
        <4> QED BY <2>1, <4>1, NobodyRuns
      <3> QED BY <1>10, <3>1, <3>2 DEF Observe
    <2> QED BY <1>a, <1>e, <1>f, <2>1, <2>2 DEF Trusts, Looked, Refreshing, Signalling
  <1>11. CASE MergeStatus(a)
    <2>1. status' = Merge(status, Cur(a)) /\ pc[a] = "merge"
      BY <1>11 DEF MergeStatus
    <2>2. Cur(a).epoch = status.epoch /\ (Cur(a).st \in Terminal => Quiet)
      BY <1>a, <2>1 DEF CallInv, Knows, Trusts, Looked, Refreshing, Signalling
    <2>3. status'.st \in Terminal => Quiet
      BY <1>a, <1>c, <2>1, <2>2, MergeIs
    <2>4. CASE Returns(a)
      BY <1>a, <1>e, <1>f, <2>3, <2>4
         DEF Returns, TypeOK, Trusts, Looked, Refreshing, Signalling
    <2>5. CASE ~Returns(a)
      <3>1. pc'[a] \in {"decide", "resume"} /\ Cur(a)' = status'
        BY <1>a, <1>c, <1>11, <2>5 DEF MergeStatus, Step, SetCur, Cur, TypeOK, Locals
      <3> QED BY <1>e, <1>f, <2>3, <3>1 DEF Trusts, Looked, Refreshing, Signalling
    <2> QED BY <2>4, <2>5
  <1>12. CASE Decide(a)
    <2>1. CASE Returns(a)
      BY <1>a, <1>g, <1>12, <2>1 DEF Decide, Returns, TypeOK, files
    <2>2. CASE ~Returns(a)
      <3>1. pc[a] = "decide" /\ pc'[a] = "append" /\ Cur(a)' = Cur(a)
            /\ status' = status
            /\ loc'[a].pid = owner.pid
        BY <1>a, <1>c, <1>12, <2>2 DEF Decide, Step, Cur, TypeOK, Locals, files
      <3> QED BY <1>a, <1>d, <1>e, <1>f, <3>1 DEF Trusts, Looked, Refreshing, Signalling
    <2> QED BY <2>1, <2>2
  <1>13. CASE Append(a)
    <2>1. CASE pc'[a] = "idle"
      BY <1>g, <1>13, <2>1 DEF Append
    <2>2. CASE pc'[a] # "idle"
      <3>1. pc[a] = "append" /\ pc'[a] = "mark" /\ UNCHANGED <<loc, status>>
        BY <1>a, <1>13, <2>2 DEF Append, Step, Returns, TypeOK
      <3> QED BY <1>a, <1>d, <1>e, <1>f, <3>1
         DEF Trusts, Looked, Refreshing, Signalling, Cur
    <2> QED BY <2>1, <2>2
  <1>14. CASE MarkStopping(a)
    <2>1. /\ pc[a] = "mark" /\ pc'[a] \in {"kill", "receipt"} /\ UNCHANGED loc
          /\ status'.st = status.st \/ status'.st = "stopping"
      BY <1>a, <1>c, <1>14 DEF MarkStopping, Step, TypeOK, Statuses
    <2> QED BY <1>a, <1>d, <1>e, <1>f, <2>1
       DEF Trusts, Looked, Refreshing, Signalling, Cur, Terminal
  <1>15. CASE Kill(a)
    <2>1. pc[a] = "kill" /\ pc'[a] \in {"lookup", "receipt", "restore"}
          /\ UNCHANGED <<loc, status>>
      BY <1>a, <1>15 DEF Kill, Deliver, Step, TypeOK, files
    <2>2. pc'[a] = "lookup" => Quiet
      <3>1. pc'[a] = "lookup" => workers[loc[a].pid].st = "reaped"
        BY <1>a, <2>1, <1>15 DEF Kill, Deliver, Step, TypeOK
      <3>2. loc[a].pid = owner.pid
        BY <1>a, <2>1 DEF Trusts, Looked, Refreshing, Signalling
      <3> QED BY <2>1, <3>1, <3>2, NobodyRuns DEF Live
    <2> QED BY <1>a, <1>e, <1>f, <2>1, <2>2
       DEF Trusts, Looked, Refreshing, Signalling, Cur
  <1>16. CASE LookupFailed(a)
    <2>1. pc[a] = "lookup" /\ pc'[a] = "receipt" /\ UNCHANGED loc
      BY <1>a, <1>16 DEF LookupFailed, Step, TypeOK
    <2> QED BY <1>a, <1>d, <1>e, <1>f, <2>1
       DEF Trusts, Looked, Refreshing, Signalling, Cur
  <1>17. CASE RestoreActive(a)
    <2>1. pc[a] = "restore" /\ pc'[a] = "receipt" /\ UNCHANGED loc
          /\ status'.st \notin Terminal
      BY <1>a, <1>c, <1>17
         DEF RestoreActive, Step, TypeOK, Statuses, ActiveStatus, Terminal
    <2> QED BY <1>a, <1>d, <1>e, <1>f, <2>1
       DEF Trusts, Looked, Refreshing, Signalling, Cur
  <1>18. CASE Receipt(a)
    <2>1. pc'[a] = "idle" /\ UNCHANGED status
      BY <1>a, <1>18 DEF Receipt, Returns, TypeOK
    <2> QED BY <1>g, <2>1
  <1> QED BY <1>1, <1>2, <1>3, <1>4, <1>5, <1>6, <1>7, <1>8, <1>9, <1>10, <1>11,
     <1>12, <1>13, <1>14, <1>15, <1>16, <1>17, <1>18
     DEF RefreshStep, SignalStep

\* What the launch transaction and the processes must keep.
Owned == /\ OwnedUntilCrash
         /\ owner.pid # 0 => Spawned(owner.pid)
         /\ \A p \in Proc : HandleOf(p)

\* A step that starts no worker, moves no owner and ends no launch.
LEMMA OwnedStays ==
  ASSUME TypeInv, Owned, Fading, owner'.pid = owner.pid, crashes' = crashes,
         UNCHANGED handle, \A w \in Worker : Launching(w) => Launching(w)'
  PROVE  Owned'
  <1>1. /\ owner.pid \in {0} \cup Worker /\ 0 \notin Worker
        /\ \A p \in Proc : handle[p] \in {0} \cup Worker
    BY LifecycleAssumption DEF TypeInv, TypeOK, Owners, Worker
  <1>2. Live' \subseteq Live /\ \A w \in Worker : Spawned(w)' <=> Spawned(w)
    BY DEF Live, Fading, Spawned
  <1>3. OwnedUntilCrash'
    BY <1>2 DEF Owned, OwnedUntilCrash, Fading, Live
  <1>4. \A p \in Proc : HandleOf(p)'
    BY <1>1, <1>2 DEF Owned, HandleOf, Earlier, Fading, Live
  <1> QED BY <1>1, <1>2, <1>3, <1>4 DEF Owned

\* While a launch is under way nobody but it is at its end.
LEMMA LaunchesAlone ==
  ASSUME DiskInv, NEW a \in Actor, loc[a].op \in Launches
  PROVE  /\ \A b \in Actor \ {a} : pc[b] = "idle"
         /\ \A w : Launching(w) => loc[a].pid = w /\ pc[a] \in {"own", "starting"}
  BY DEF DiskInv, Alone, Launching

\* A poll, a stop or an abort moves no owner and no Popen.
LEMMA OwnedLook ==
  ASSUME OwnerInv, ResumedAtHome, NEW a \in Actor, RefreshStep(a) \/ SignalStep(a)
  PROVE  Owned'
  <1>1. TypeInv /\ Owned
    BY DEF OwnerInv, DiskInv, Owned
  <1>2. pc[a] \in {"read"} \cup Refreshing \cup Signalling
    BY
       DEF RefreshStep, SignalStep, RefreshRead, Replay, ReplayKill,
           ReplayReceipt, Replayed, DenyReceipt, DenyStatus, CloseReceipt,
           CloseStatus, Observe, MergeStatus, Decide, Append, MarkStopping, Kill,
           LookupFailed, RestoreActive, Receipt, Deliver, Step, Refreshing,
           Signalling
  <1>3. UNCHANGED <<owner, handle, crashes>>
    BY
       DEF RefreshStep, SignalStep, RefreshRead, Replay, ReplayKill,
           ReplayReceipt, Replayed, DenyReceipt, DenyStatus, CloseReceipt,
           CloseStatus, Observe, MergeStatus, Decide, Append, MarkStopping, Kill,
           LookupFailed, RestoreActive, Receipt, files, world
  <1>4. Fading
    <2>1. ~Spawn(a)
      BY <1>2 DEF Spawn, Step, Refreshing, Signalling
    <2> QED BY <1>1, <2>1, FadingCall DEF CallStep
  <1>5. \A w \in Worker : Launching(w) => Launching(w)'
    <2>1. Others(a)
      BY <1>1, TypeCall DEF Done, Frame, CallStep
    <2> QED BY <1>2, <2>1 DEF Launching, Others, Refreshing, Signalling
  <1> QED BY <1>1, <1>3, <1>4, <1>5, OwnedStays

\* A create or a resume.
LEMMA OwnedLaunch ==
  ASSUME OwnerInv, ResumedAtHome, NEW a \in Actor, CreateStep(a) \/ LaunchStep(a)
  PROVE  Owned' /\ (status'.st \in Terminal => Quiet') /\ Trusts(a)'
  <1>a. /\ TypeInv /\ TypeOK /\ ShapeOf(a) /\ CallInv(a) /\ Trusts(a) /\ DiskInv
        /\ Owned /\ Disk
        /\ status.st \in Terminal => Quiet
    BY DEF OwnerInv, Owned, DiskInv, TypeInv
  <1>b. TypeOK' /\ ShapeOf(a)'
    BY <1>a, TypeCall DEF Done, CallStep
  <1>c. /\ status \in Statuses /\ Cur(a) \in Statuses /\ loc[a] \in Locals
        /\ owner \in Owners /\ owner.pid \in {0} \cup Worker /\ 0 \notin Worker
        /\ \A p \in Proc : handle[p] \in {0} \cup Worker
    BY <1>a, LifecycleAssumption DEF TypeOK, Locals, Cur, Owners, Worker
  <1>d. loc[a].op \in Launches
    BY <1>a
       DEF CreateStep, LaunchStep, ReadKey, Recheck, Claim, MakeDir, Record,
           Resume, ResumeAppend, WriteReservation, WriteCreating, Spawn,
           SpawnFails, FailWrite, WriteOwner, WriteStarting, MetadataFails, Step,
           ShapeOf, Keyed, Launch, Launches
  <1>e. /\ \A b \in Actor \ {a} : pc[b] = "idle" /\ pc'[b] = "idle"
        /\ \A w : Launching(w) => loc[a].pid = w /\ pc[a] \in {"own", "starting"}
    <2>1. Others(a)
      BY <1>a, TypeCall DEF Done, Frame, CallStep
    <2> QED BY <1>a, <1>d, <2>1, LaunchesAlone DEF Others
  <1>f. Trusts(a)'
    <2>1. pc'[a] \in {"idle", "recheck", "claim", "mkdir", "reserve", "resumeAppend",
                       "creating", "spawn", "own", "failWrite", "starting", "record"}
      BY <1>a
         DEF CreateStep, LaunchStep, ReadKey, Recheck, Claim, MakeDir, Record,
             Resume, ResumeAppend, WriteReservation, WriteCreating, Spawn,
             SpawnFails, FailWrite, WriteOwner, WriteStarting, MetadataFails,
             Step, Returns, TypeOK
    <2>2. pc'[a] = "idle" \/ loc'[a].op = loc[a].op
      BY <1>a, KeepsName DEF CallStep
    <2> QED BY <1>a, <1>b, <2>1, <2>2
            DEF Trusts, Looked, Refreshing, Signalling, ShapeOf, NoLocals
  <1>g. ~Spawn(a) => Fading
    BY <1>a, FadingCall DEF CallStep
  <1>h. ASSUME ~Spawn(a), UNCHANGED <<owner, handle, crashes>>,
               pc[a] \notin {"own", "starting"}
        PROVE  Owned'
    <2>1. \A w \in Worker : Launching(w) => Launching(w)'
      BY <1>e, <1>h
    <2> QED BY <1>a, <1>g, <1>h, <2>1, OwnedStays
  <1>i. ASSUME UNCHANGED <<status, owner, workers, handle>>
        PROVE  status'.st \in Terminal => Quiet'
    <2>1. Quiet => Quiet'
      BY <1>i, QuietStays DEF Fading
    <2> QED BY <1>a, <1>i, <2>1
  <1>1. CASE ReadKey(a)
    <2>1. ~Spawn(a) /\ UNCHANGED <<status, owner, workers, handle, crashes>>
          /\ pc[a] \notin {"own", "starting"}
      BY <1>a, <1>1 DEF ReadKey, Spawn, Step, TypeOK, files, world
    <2> QED BY <1>f, <1>h, <1>i, <2>1
  <1>2. CASE Recheck(a)
    <2>1. ~Spawn(a) /\ UNCHANGED <<status, owner, workers, handle, crashes>>
          /\ pc[a] \notin {"own", "starting"}
      BY <1>a, <1>2 DEF Recheck, Spawn, Step, TypeOK, files, world
    <2> QED BY <1>f, <1>h, <1>i, <2>1
  <1>3. CASE Claim(a)
    <2>1. ~Spawn(a) /\ UNCHANGED <<status, owner, workers, handle, crashes>>
          /\ pc[a] \notin {"own", "starting"}
      BY <1>a, <1>3 DEF Claim, Spawn, Step, TypeOK, files, world
    <2> QED BY <1>f, <1>h, <1>i, <2>1
  <1>4. CASE MakeDir(a)
    <2>1. ~Spawn(a) /\ UNCHANGED <<status, owner, workers, handle, crashes>>
          /\ pc[a] \notin {"own", "starting"}
      BY <1>a, <1>4 DEF MakeDir, Spawn, Step, TypeOK, files, world
    <2> QED BY <1>f, <1>h, <1>i, <2>1
  <1>5. CASE Record(a)
    <2>1. ~Spawn(a) /\ UNCHANGED <<status, owner, workers, handle, crashes>>
          /\ pc[a] \notin {"own", "starting"}
      BY <1>a, <1>5 DEF Record, Spawn, Step, TypeOK, files, world
    <2> QED BY <1>f, <1>h, <1>i, <2>1
  <1>6. CASE Resume(a)
    <2>1. ~Spawn(a) /\ UNCHANGED <<status, owner, workers, handle, crashes>>
          /\ pc[a] \notin {"own", "starting"}
      BY <1>a, <1>6 DEF Resume, Spawn, Step, TypeOK, files, world
    <2> QED BY <1>f, <1>h, <1>i, <2>1
  <1>7. CASE ResumeAppend(a)
    <2>1. ~Spawn(a) /\ UNCHANGED <<status, owner, workers, handle, crashes>>
          /\ pc[a] \notin {"own", "starting"}
      BY <1>a, <1>7 DEF ResumeAppend, Spawn, Step, TypeOK, files, world
    <2> QED BY <1>f, <1>h, <1>i, <2>1
  <1>8. CASE WriteReservation(a)
    <2>1. /\ pc[a] = "reserve" /\ owner'.pid = 0
          /\ UNCHANGED <<status, workers, handle, crashes>>
          /\ status.st \in IF loc[a].op = "create" THEN {"idle"} ELSE Terminal
          /\ pc'[a] = "creating"
      BY <1>a, <1>8 DEF WriteReservation, Step, TypeOK, world, CallInv, LaunchOf
    <2>2. ~Launching(0) /\ \A w \in Worker : ~Launching(w)
          /\ (Spawned(w)' <=> Spawned(w))
      BY <1>e, <2>1 DEF Spawned
    <2>3. CASE loc[a].op = "create"
      <3>1. \A w \in Worker : ~Spawned(w)
        BY <1>a, <2>1, <2>3 DEF Disk, Launched
      <3>2. \A p \in Proc : handle[p] = 0
        BY <1>a, <1>c, <3>1 DEF Owned, HandleOf, Earlier
      <3>3. Live' = {}
        BY <2>1, <3>1 DEF Live, Spawned
      <3> QED BY <1>f, <2>1, <2>2, <3>2, <3>3
         DEF Owned, OwnedUntilCrash, HandleOf, Quiet
    <2>4. CASE loc[a].op = "resume"
      <3>1. /\ Quiet /\ "resume" \in Ops /\ Live' = Live
            /\ 0 \notin Live /\ Live \subseteq Worker
        BY <1>a, <1>c, <2>1, <2>4 DEF Trusts, Live
      <3>2. OwnedUntilCrash'
        BY <1>a, <2>1, <2>2, <3>1 DEF Owned, OwnedUntilCrash, Quiet
      <3>3. \A p \in Proc : HandleOf(p)'
        <4> SUFFICES ASSUME NEW p \in Proc, handle[p] # 0 PROVE Earlier(p)'
          BY <2>1 DEF HandleOf
        <4>1. handle[p] \in Worker /\ Spawned(handle[p]) /\ handle[p] \notin Live
          BY <1>a, <1>c, <3>1 DEF Owned, HandleOf, Earlier, Quiet
        <4> QED BY <2>1, <2>2, <3>1, <4>1 DEF Earlier
      <3>4. Quiet'
        BY <2>1, <3>1 DEF Quiet
      <3> QED BY <1>f, <2>1, <3>2, <3>3, <3>4 DEF Owned
    <2> QED BY <1>d, <2>3, <2>4 DEF Launches
  <1>9. CASE WriteCreating(a)
    <2>1. /\ pc[a] = "creating" /\ ~Spawn(a) /\ UNCHANGED <<owner, handle, crashes>>
          /\ status'.st = "creating"
      BY <1>a, <1>9 DEF WriteCreating, Spawn, Step, TypeOK, world, NoStatus
    <2> QED BY <1>f, <1>h, <2>1 DEF Terminal
  <1>10. CASE Spawn(a)
    <2>1. PICK w \in Worker :
            /\ \A v \in Worker : workers[v].st = "unborn" <=> v >= w
            /\ workers' = [workers EXCEPT ![w] = [st |-> "live", rc |-> 0, sig |-> FALSE,
                               parent |-> ProcOf[a], epoch |-> loc[a].epoch]]
            /\ loc' = [loc EXCEPT ![a].pid = w]
      BY <1>10 DEF Spawn
    <2>2. /\ pc[a] = "spawn" /\ pc'[a] = "own"
          /\ UNCHANGED <<status, owner, handle, crashes>>
          /\ loc'[a].pid = w /\ owner.pid = 0 /\ status.st = "creating"
      BY <1>a, <1>c, <1>10, <2>1
         DEF Spawn, Step, TypeOK, Locals, files, CallInv, LaunchOf
    <2>3. /\ ~Spawned(w) /\ Live' = Live \cup {w}
          /\ \A v \in Worker \ {w} : workers'[v] = workers[v]
      BY <1>a, <2>1 DEF Spawned, TypeOK, Worker, Live
    <2>4. OwnedUntilCrash'
      <3>1. Launching(w)'
        BY <2>2 DEF Launching
      <3>2. \A v \in Live : workers[v].sig \/ crashes > 0
        BY <1>a, <1>c, <1>e, <2>2 DEF Owned, OwnedUntilCrash, Live
      <3> QED BY <2>2, <2>3, <3>1, <3>2 DEF OwnedUntilCrash, Live
    <2>5. \A p \in Proc : HandleOf(p)'
      <3> SUFFICES ASSUME NEW p \in Proc, handle[p] # 0 PROVE Earlier(p)'
        BY <2>2 DEF HandleOf
      <3>1. Earlier(p) /\ handle[p] # w
        BY <1>a, <2>2, <2>3 DEF Owned, HandleOf, Earlier
      <3> QED BY <1>c, <2>2, <2>3, <3>1 DEF Earlier, Spawned, Live
    <2> QED BY <1>f, <2>2, <2>4, <2>5 DEF Owned, Terminal
  <1>11. CASE SpawnFails(a)
    <2>1. ~Spawn(a) /\ UNCHANGED <<status, owner, workers, handle, crashes>>
          /\ pc[a] \notin {"own", "starting"}
      BY <1>a, <1>11 DEF SpawnFails, Spawn, Step, TypeOK, files, world
    <2> QED BY <1>f, <1>h, <1>i, <2>1
  <1>12. CASE FailWrite(a)
    <2>1. /\ pc[a] = "failWrite" /\ ~Spawn(a)
          /\ UNCHANGED <<owner, handle, crashes, workers>>
          /\ owner.pid = 0
      BY <1>a, <1>12 DEF FailWrite, Spawn, Step, TypeOK, world, CallInv, LaunchOf
    <2>2. Quiet'
      BY <1>a, <1>c, <2>1 DEF Owned, HandleOf, Earlier, Quiet, Live
    <2> QED BY <1>f, <1>h, <2>1, <2>2
  <1>13. CASE WriteOwner(a)
    <2>1. /\ pc[a] = "own" /\ pc'[a] = "starting"
          /\ UNCHANGED <<status, workers, handle, crashes, loc>>
          /\ owner'.pid = loc[a].pid /\ owner.pid = 0 /\ Spawned(loc[a].pid)
          /\ status.st = "creating"
      BY <1>a, <1>13 DEF WriteOwner, Step, TypeOK, world, CallInv, LaunchOf
    <2>2. Launching(loc[a].pid)' /\ Live' = Live /\ \A w : Spawned(w)' <=> Spawned(w)
      BY <2>1 DEF Launching, Live, Spawned
    <2>3. OwnedUntilCrash'
      BY <1>a, <1>c, <1>e, <2>1, <2>2 DEF Owned, OwnedUntilCrash, Live
    <2>4. \A p \in Proc : HandleOf(p)'
      BY <1>a, <2>1, <2>2 DEF Owned, HandleOf, Earlier
    <2> QED BY <1>f, <2>1, <2>2, <2>3, <2>4 DEF Owned, Terminal
  <1>14. CASE WriteStarting(a)
    <2>1. /\ pc[a] = "starting" /\ UNCHANGED <<workers, owner, crashes>>
          /\ status'.st = "starting"
          /\ handle' = [handle EXCEPT ![ProcOf[a]] = loc[a].pid]
          /\ owner.pid = loc[a].pid
      BY <1>a, <1>14 DEF WriteStarting, Step, Returns, CallInv, LaunchOf
    <2>2. OwnedUntilCrash'
      BY <1>a, <1>e, <2>1 DEF Owned, OwnedUntilCrash, Live
    <2>3. ASSUME NEW p \in Proc PROVE HandleOf(p)'
      <3>1. CASE p = ProcOf[a]
        BY <1>a, <2>1, <3>1 DEF HandleOf, TypeOK
      <3>2. CASE p # ProcOf[a]
        <4>1. handle'[p] = handle[p] /\ ~OneProcess
          BY <1>a, <2>1, <2>3, <3>2 DEF TypeOK, OneProcess, Proc
        <4>2. handle[p] \in {0, owner.pid}
          BY <1>a, <4>1 DEF Owned, HandleOf, Earlier, ResumedAtHome
        <4> QED BY <2>1, <4>1, <4>2 DEF HandleOf
      <3> QED BY <3>1, <3>2
    <2> QED BY <1>a, <1>f, <2>1, <2>2, <2>3 DEF Owned, Spawned, Terminal
  <1>15. CASE MetadataFails(a)
    <2>1. /\ pc[a] \in {"own", "starting"}
          /\ UNCHANGED <<status, owner, handle, crashes>>
          /\ ~Spawn(a) /\ Fading
      BY <1>g, <1>15 DEF MetadataFails, Spawn, Step, files
    <2>2. workers'[loc[a].pid].sig /\ loc[a].pid \in Worker
      BY <1>a, <2>1, <1>15 DEF MetadataFails, TypeOK, ShapeOf, Workers
    <2>3. Live' \subseteq Live /\ \A w \in Worker : Spawned(w)' <=> Spawned(w)
      BY <2>1 DEF Live, Fading, Spawned
    <2>4. status.st = "creating"
      BY <1>a, <2>1 DEF CallInv, LaunchOf
    <2>5. OwnedUntilCrash'
      BY <1>a, <1>e, <2>1, <2>2, <2>3 DEF Owned, OwnedUntilCrash, Fading, Live
    <2>6. \A p \in Proc : HandleOf(p)'
      BY <1>a, <1>c, <1>e, <2>1, <2>2, <2>3 DEF Owned, HandleOf, Earlier, Fading, Live
    <2> QED BY <1>a, <1>c, <1>f, <2>1, <2>3, <2>4, <2>5, <2>6 DEF Owned, Terminal
  <1> QED BY <1>1, <1>2, <1>3, <1>4, <1>5, <1>6, <1>7, <1>8, <1>9, <1>10, <1>11,
     <1>12, <1>13, <1>14, <1>15
     DEF CreateStep, LaunchStep

\* A worker that exits ends no launch, and an API process that dies ends its own.
LEMMA OwnedProcess ==
  ASSUME OwnerInv, ResumedAtHome,
         (\E w \in Worker : WorkerExits(w)) \/ (\E p \in Proc : Crash(p)) \/ UNCHANGED vars
  PROVE  Owned' /\ (status'.st \in Terminal => Quiet') /\ \A b \in Actor : Trusts(b)'
  <1>1. TypeInv /\ TypeOK /\ Owned /\ DiskInv
    BY DEF OwnerInv, DiskInv, TypeInv, Owned
  <1>2. UNCHANGED files /\ Fading /\ \A p \in Proc : handle'[p] \in {handle[p], 0}
    <2>1. CASE UNCHANGED vars
      BY <2>1 DEF vars, world, Fading
    <2>2. ASSUME NEW w \in Worker, WorkerExits(w)
          PROVE  UNCHANGED files /\ Fading /\ UNCHANGED handle
      BY <1>1, <2>2 DEF WorkerExits, Live, Fading, TypeOK, Workers
    <2>3. ASSUME NEW p \in Proc, Crash(p)
          PROVE  UNCHANGED files /\ Fading
          /\ \A q \in Proc : handle'[q] \in {handle[q], 0}
      BY <1>1, <2>3 DEF Crash, Fading, TypeOK, Workers
    <2> QED BY <2>1, <2>2, <2>3
  <1>3. Quiet => Quiet'
    BY <1>2, QuietStays DEF files
  <1>4. \A b \in Actor : \/ pc'[b] = pc[b] /\ loc'[b] = loc[b]
                         \/ pc'[b] = "idle" /\ loc'[b] = NoLocals
    BY <1>1 DEF WorkerExits, Crash, vars, TypeOK
  <1>5. \A b \in Actor : Trusts(b)'
    BY <1>2, <1>3, <1>4
       DEF OwnerInv, Trusts, Looked, Refreshing, Signalling, NoLocals, Cur, files
  <1>6. Owned'
    <2>1. CASE UNCHANGED <<handle, pc, loc, crashes>>
      BY <1>1, <1>2, <2>1, OwnedStays DEF Launching, files
    <2>2. ASSUME NEW p \in Proc, Crash(p) PROVE Owned'
      <3>1. crashes' > 0
        <4>1. crashes \in 0..MaxCrashes
          BY <1>1 DEF TypeOK
        <4>2. crashes' = crashes + 1
          BY <2>2 DEF Crash
        <4> QED BY <4>1, <4>2, LifecycleAssumption
      <3>2. ASSUME NEW q \in Proc PROVE HandleOf(q)'
        <4>1. CASE handle[q] \in {0, owner.pid}
          BY <1>2, <4>1 DEF HandleOf, files
        <4>2. CASE Earlier(q)
          <5>1. q = p
            BY <4>2 DEF Earlier, ResumedAtHome, OneProcess, Proc
          <5> QED BY <1>1, <2>2, <5>1 DEF Crash, HandleOf, TypeOK
        <4> QED BY <1>1, <4>1, <4>2 DEF Owned, HandleOf
      <3>3. (owner.pid # 0 => Spawned(owner.pid))'
        <4>1. owner.pid # 0 => owner.pid \in Worker
          BY <1>1, LifecycleAssumption DEF TypeOK, Owners, Worker
        <4> QED BY <1>1, <1>2, <4>1 DEF Owned, Spawned, Fading, files
      <3> QED BY <3>1, <3>2, <3>3 DEF Owned, OwnedUntilCrash
    <2>3. CASE \E w \in Worker : WorkerExits(w)
      BY <2>1, <2>3 DEF WorkerExits
    <2>4. CASE UNCHANGED vars
      BY <2>1, <2>4 DEF vars, world
    <2> QED BY <2>2, <2>3, <2>4
  <1> QED BY <1>2, <1>3, <1>5, <1>6 DEF OwnerInv, files

\* Before any call there is no worker and no Popen.
LEMMA InitOwner == Init => OwnerInv
  <1> SUFFICES ASSUME Init PROVE OwnerInv
    OBVIOUS
  <1>1. DiskInv
    BY InitDisk
  <1>2. OwnedUntilCrash /\ owner.pid = 0 /\ status.st \notin Terminal
    BY DEF Init, OwnedUntilCrash, Live, NoStatus, Terminal
  <1>3. (\A p \in Proc : HandleOf(p)) /\ (\A a \in Actor : Trusts(a))
    BY DEF Init, HandleOf, Trusts, NoLocals, Looked, Refreshing, Signalling
  <1> QED BY <1>1, <1>2, <1>3 DEF OwnerInv

\* Every step keeps the owner, the Popens and the workers in accord.
LEMMA OwnerStep == OwnerInv /\ ResumedAtHome /\ [Next]_vars => OwnerInv'
  <1> SUFFICES ASSUME OwnerInv, ResumedAtHome, [Next]_vars PROVE OwnerInv'
    OBVIOUS
  <1>1. DiskInv /\ DiskInv' /\ TypeInv /\ Owned
    BY DiskStep DEF OwnerInv, DiskInv, ResumedAtHome, Owned
  <1>2. ASSUME NEW a \in Actor, CallStep(a) PROVE OwnerInv'
    <2>1. Owned' /\ (status'.st \in Terminal => Quiet') /\ Trusts(a)'
      BY <1>2, OwnedLook, LookTrusts, OwnedLaunch DEF CallStep
    <2>2. ASSUME NEW b \in Actor \ {a} PROVE Trusts(b)'
      <3>1. pc'[b] = pc[b] /\ loc'[b] = loc[b] /\ Trusts(b) /\ ShapeOf(b) /\ ShapeOf(a)
        BY <1>1, <1>2, TypeCall DEF Done, Frame, Others, OwnerInv, TypeInv
      <3>2. CASE loc[a].op \in Launches
        <4>1. pc[b] = "idle" /\ loc[b].op = "none"
          BY <1>1, <3>1, <3>2 DEF DiskInv, Alone, ShapeOf, NoLocals
        <4> QED BY <3>1, <4>1 DEF Trusts, Looked, Refreshing, Signalling
      <3>3. CASE loc[a].op \notin Launches
        <4>1. ~CreateStep(a) /\ ~LaunchStep(a)
          BY <3>1, <3>3
             DEF CreateStep, LaunchStep, ReadKey, Recheck, Claim, MakeDir,
                 Record, Resume, ResumeAppend, WriteReservation,
                 WriteCreating, Spawn, SpawnFails, FailWrite, WriteOwner,
                 WriteStarting, MetadataFails, Step, ShapeOf, Keyed,
                 Launch, Launches
        <4>2. RefreshStep(a) \/ SignalStep(a)
          BY <1>2, <4>1 DEF CallStep
        <4>3. UNCHANGED <<owner, handle>> /\ ~Spawn(a)
          <5>1. UNCHANGED <<owner, handle>>
            BY <4>2
               DEF RefreshStep, SignalStep, RefreshRead, Replay,
                   ReplayKill, ReplayReceipt, Replayed, DenyReceipt,
                   DenyStatus, CloseReceipt, CloseStatus, Observe,
                   MergeStatus, Decide, Append, MarkStopping, Kill,
                   LookupFailed, RestoreActive, Receipt, files, world
          <5> QED BY <4>1, <5>1 DEF LaunchStep
        <4>4. Quiet => Quiet'
          BY <1>1, <1>2, <4>3, FadingCall, QuietStays
        <4> QED BY <3>1, <4>3, <4>4 DEF Trusts, Cur
      <3> QED BY <3>2, <3>3
    <2> QED BY <1>1, <2>1, <2>2 DEF OwnerInv, Owned
  <1>3. ASSUME NEW a \in Actor, BeginCreate(a) \/ \E op \in Ops : Begin(a, op)
        PROVE  OwnerInv'
    <2>1. UNCHANGED <<files, world>> /\ Others(a) /\ pc[a] = "idle"
      BY <1>1, <1>3, TypeCall DEF BeginCreate, Begin, Done, Frame
    <2>2. pc'[a] \in {"read", "readKey"} /\ loc'[a].op \in Ops \cup {"create"}
      BY <1>1, <1>3 DEF BeginCreate, Begin, NoLocals, TypeInv, TypeOK
    <2>3. Fading /\ (Quiet => Quiet')
      BY <2>1, QuietStays DEF Fading, files, world
    <2>4. Owned'
      BY <1>1, <2>1, <2>3, OwnedStays DEF Launching, Others, files, world
    <2>5. \A b \in Actor : Trusts(b)'
      BY <2>1, <2>2, <2>3
         DEF OwnerInv, Trusts, Others, Looked, Refreshing, Signalling, Cur,
             files
    <2> QED BY <1>1, <2>1, <2>3, <2>4, <2>5 DEF OwnerInv, Owned, files
  <1>4. CASE (\E w \in Worker : WorkerExits(w)) \/ (\E p \in Proc : Crash(p)) \/ UNCHANGED vars
    BY <1>1, <1>4, OwnedProcess DEF OwnerInv, Owned
  <1> QED BY <1>2, <1>3, <1>4 DEF Next

LEMMA OwnerAlways == ResumedAtHome => (Spec => []OwnerInv)
  <1> SUFFICES ASSUME ResumedAtHome PROVE Spec => []OwnerInv
    OBVIOUS
  <1>1. OwnerInv /\ [Next]_vars => OwnerInv'
    BY OwnerStep
  <1> QED BY <1>1, InitOwner, PTL DEF Spec

\* _launch_worker, while no other call overlaps a launch and one API process
\* resumes: whatever spawn or write fails, a worker that runs is the owner's,
\* is being written there, or was told to end, until an API process dies.
THEOREM OwnedCorrect == ResumedAtHome => (Spec => []OwnedUntilCrash)
  <1>1. OwnerInv => OwnedUntilCrash
    BY DEF OwnerInv
  <1> QED BY <1>1, OwnerAlways, PTL

\* _refresh, under the same conditions: no poll, merge, replay or crash leaves
\* the run of an owned, living worker that was not told to end in a terminal
\* or idle status.
THEOREM LiveActiveCorrect == ResumedAtHome => (Spec => []LiveWorkerActive)
  <1>1. OwnerInv => LiveWorkerActive
    <2> SUFFICES ASSUME OwnerInv, NEW w \in Live, owner.pid = w, ~workers[w].sig
                 PROVE  status.st \in ActiveStatus
      BY DEF LiveWorkerActive
    <2>1. status.st \notin Terminal
      BY DEF OwnerInv, Quiet
    <2>2. status.st # "idle"
      BY DEF OwnerInv, DiskInv, Disk, Launched, Spawned, Live
    <2> QED BY <2>1, <2>2 DEF OwnerInv, DiskInv, TypeInv, TypeOK, Statuses
  <1> QED BY <1>1, OwnerAlways, PTL

----------------------------------------------------------------------------
(* Terminal decisions, with one API process: _lifecycle_lock then keeps    *)
(* every call from the others'.                                            *)

\* A replay sees the status on disk, and a call that is about to write over it
\* finds a run that is stopping.
Sees(a) == /\ pc[a] = "replay" => Cur(a) = status
           /\ pc[a] \in {"replayKill", "replayReceipt", "denyReceipt", "denyStatus",
                        "closeReceipt", "closeStatus", "kill", "lookup", "restore"} =>
                 status.st = "stopping"

OneInv == /\ DiskInv
          /\ \A a, b \in Actor : a # b /\ pc[a] # "idle" => pc[b] = "idle"
          /\ \A a \in Actor : Sees(a)

\* A replay or a signal that finds a stopping run keeps it so until it writes.
LEMMA SeesCall ==
  ASSUME OneInv, NEW a \in Actor, CallStep(a)
  PROVE  Sees(a)'
  <1>a. TypeOK /\ Sees(a) /\ loc[a] \in Locals /\ status \in Statuses
    BY DEF OneInv, DiskInv, TypeInv, TypeOK
  <1>1. CASE RefreshRead(a)
    BY <1>a, <1>1 DEF RefreshRead, Sees, Step, SetCur, Cur, TypeOK, Locals, files
  <1>2. CASE Replay(a)
    BY <1>a, <1>2 DEF Replay, Undelivered, Sees, Step, TypeOK, files
  <1>3. CASE ReplayKill(a) \/ Kill(a)
    BY <1>a, <1>3 DEF ReplayKill, Kill, Deliver, Sees, Step, TypeOK, files
  <1>4. CASE ReplayReceipt(a) \/ DenyReceipt(a) \/ CloseReceipt(a)
    BY <1>a, <1>4 DEF ReplayReceipt, DenyReceipt, CloseReceipt, Sees, Step, TypeOK
  <1>5. CASE Replayed(a) \/ DenyStatus(a) \/ CloseStatus(a) \/ Observe(a) \/ MergeStatus(a)
    BY <1>a, <1>5
       DEF Replayed, DenyStatus, CloseStatus, Observe, MergeStatus, Sees, Step, Returns,
           TypeOK
  <1>6. CASE MarkStopping(a)
    BY <1>a, <1>6 DEF MarkStopping, Sees, Step, TypeOK, Statuses
  <1>7. CASE Decide(a) \/ Append(a) \/ LookupFailed(a) \/ RestoreActive(a) \/ Receipt(a)
    BY <1>a, <1>7
       DEF Decide, Append, LookupFailed, RestoreActive, Receipt, Sees, Step, Returns,
           TypeOK
  <1>8. CASE CreateStep(a)
    BY <1>a, <1>8
       DEF CreateStep, ReadKey, Recheck, Claim, MakeDir, Record, Sees, Step,
           Returns, TypeOK
  <1>9. CASE LaunchStep(a)
    BY <1>a, <1>9
       DEF LaunchStep, Resume, ResumeAppend, WriteReservation, WriteCreating,
           Spawn, SpawnFails, FailWrite, WriteOwner, WriteStarting,
           MetadataFails, Sees, Step, Returns, TypeOK
  <1> QED
    BY <1>1, <1>2, <1>3, <1>4, <1>5, <1>6, <1>7, <1>8, <1>9
    DEF CallStep, RefreshStep, SignalStep

\* Before any call nothing is seen.
LEMMA InitOne == Init => OneInv
  BY InitDisk DEF Init, OneInv, Sees

\* With one process a call begins when no other is under way.
LEMMA OneStep == OneInv /\ LaunchAlone /\ OneProcess /\ [Next]_vars => OneInv'
  <1> SUFFICES ASSUME OneInv, LaunchAlone, OneProcess, [Next]_vars PROVE OneInv'
    OBVIOUS
  <1>1. DiskInv /\ DiskInv' /\ TypeInv /\ TypeOK
    BY DiskStep DEF OneInv, DiskInv, TypeInv
  <1>2. ASSUME NEW a \in Actor, CallStep(a) PROVE OneInv'
    <2>1. pc[a] # "idle" /\ Others(a)
      BY <1>1, <1>2, KeepsName, TypeCall DEF Done, Frame
    <2>2. \A b \in Actor \ {a} : pc[b] = "idle" /\ pc'[b] = "idle"
      BY <2>1 DEF OneInv, Others
    <2>3. Sees(a)'
      BY <1>2, SeesCall
    <2> QED BY <1>1, <2>2, <2>3 DEF OneInv, Sees
  <1>3. ASSUME NEW a \in Actor, BeginCreate(a) \/ \E op \in Ops : Begin(a, op)
        PROVE  OneInv'
    <2>1. UNCHANGED status /\ Others(a) /\ pc'[a] \in {"read", "readKey"}
      BY <1>1, <1>3, TypeCall DEF BeginCreate, Begin, Done, Frame, files, TypeOK
    <2>2. \A b \in Actor \ {a} : pc[b] = "idle"
      <3>1. CASE BeginCreate(a)
        BY <3>1 DEF BeginCreate, Locked
      <3>2. ASSUME NEW op \in Ops, Begin(a, op) PROVE \A b \in Actor \ {a} : pc[b] = "idle"
        BY <3>2 DEF Begin, OneProcess, Launches
      <3> QED BY <1>3, <3>1, <3>2
    <2> QED BY <1>1, <2>1, <2>2 DEF OneInv, Sees, Others
  <1>4. CASE (\E w \in Worker : WorkerExits(w)) \/ (\E p \in Proc : Crash(p)) \/ UNCHANGED vars
    <2>1. /\ UNCHANGED status
          /\ \A b \in Actor : \/ pc'[b] = pc[b] /\ loc'[b] = loc[b]
                             \/ pc'[b] = "idle"
      BY <1>1, <1>4 DEF WorkerExits, Crash, vars, files, TypeOK
    <2> QED BY <1>1, <2>1 DEF OneInv, Sees, Cur
  <1> QED BY <1>2, <1>3, <1>4 DEF Next

\* No write turns a terminal status into another of the same generation.
LEMMA TerminalStep ==
  ASSUME OneInv, [Next]_vars, status.st \in Terminal
  PROVE  status'.st = status.st \/ status'.epoch > status.epoch
  <1>1. ASSUME NEW a \in Actor, CallStep(a)
        PROVE  status'.st = status.st \/ status'.epoch > status.epoch
    <2>a. /\ TypeOK /\ CallInv(a) /\ Sees(a) /\ status \in Statuses
          /\ Cur(a) \in Statuses
          /\ loc[a] \in Locals /\ status.st \notin {"stopping", "idle", "creating"}
          /\ ShapeOf(a)
      BY DEF OneInv, DiskInv, TypeInv, TypeOK, Cur, Locals, Terminal
    <2>1. CASE UNCHANGED status
      BY <2>1
    <2>2. CASE DenyStatus(a) \/ RestoreActive(a) \/ CloseStatus(a) \/ LookupFailed(a)
      BY <2>a, <2>2 DEF DenyStatus, RestoreActive, CloseStatus, LookupFailed, Step, Sees
    <2>3. CASE MergeStatus(a)
      <3>1. Cur(a).epoch = status.epoch
        BY <2>a, <2>3 DEF MergeStatus, CallInv, Knows, Looked, Refreshing
      <3> QED BY <2>a, <2>3, <3>1, MergeIs DEF MergeStatus
    <2>4. CASE MarkStopping(a)
      BY <2>4 DEF MarkStopping
    <2>5. CASE WriteCreating(a)
      <3>1. pc[a] = "creating" /\ status'.epoch = loc[a].epoch
        BY <2>5 DEF WriteCreating, Step, NoStatus
      <3>2. loc[a].op = "resume"
        BY <2>a, <3>1 DEF CallInv, LaunchOf, ShapeOf, Launch, Launches
      <3>3. status.epoch < loc[a].epoch
        BY <2>a, <3>1, <3>2 DEF CallInv, LaunchOf
      <3> QED BY <2>a, <3>1, <3>3, LifecycleAssumption DEF Statuses, Locals, Epoch
    <2>6. CASE FailWrite(a) \/ WriteStarting(a)
      BY <2>a, <2>6 DEF FailWrite, WriteStarting, Step, CallInv, LaunchOf
    <2> QED
      BY <1>1, <2>1, <2>2, <2>3, <2>4, <2>5, <2>6
      DEF CallStep, RefreshStep, SignalStep, CreateStep, LaunchStep, RefreshRead,
          Replay, ReplayKill, ReplayReceipt, Replayed, DenyReceipt, CloseReceipt,
          Observe, Decide, Append, Kill, Receipt, ReadKey, Recheck, Claim, MakeDir,
          Record, Resume, ResumeAppend, WriteReservation, Spawn, SpawnFails, WriteOwner,
          MetadataFails, files
  <1>2. CASE UNCHANGED status
    BY <1>2
  <1> QED BY <1>1, <1>2 DEF Next, BeginCreate, Begin, WorkerExits, Crash, vars, files

\* _refresh: "Durable terminal decisions are monotonic": with one API process,
\* and no other call beside a launch, a terminal status is left by a resume
\* alone, with a higher generation.
THEOREM TerminalCorrect == LaunchAlone /\ OneProcess => (Spec => TerminalMonotonic)
  <1> SUFFICES ASSUME LaunchAlone, OneProcess PROVE Spec => TerminalMonotonic
    OBVIOUS
  <1>1. OneInv /\ [Next]_vars => OneInv'
    BY OneStep
  <1>2. OneInv /\ [Next]_vars =>
          [status.st \in Terminal => \/ status'.st = status.st
                                    \/ status'.epoch > status.epoch]_vars
    BY TerminalStep
  <1> QED BY <1>1, <1>2, InitOne, PTL DEF Spec, TerminalMonotonic
=============================================================================
