------------------------- MODULE QueueLineageProofs -------------------------
(* Proofs about the entries of the queue: their lineages, second chances,  *)
(* keys and runs.                                                          *)
EXTENDS QueueLauncherProofs

----------------------------------------------------------------------------
(* What no write changes.  Every write replaces the whole entry by what    *)
(* was read earlier, but the origin of an entry is set when it is created. *)

Origin(rec) == <<rec.work, rec.attempt, rec.retryOf, rec.intr, rec.keyed>>

\* An object in memory is of an entry that was created, and of its origin.
SameTask(o) == o.id \in 1..born /\ Origin(o.rec) = Origin(store[o.id])

\* The handlers that write an entry back.
Rewrites == {"edit", "priority", "setPriority", "delete", "limit"}

Known == /\ \A o \in snap \cup todo : SameTask(o)
         /\ lp \in Holding => SameTask(obj)
         /\ api.op \in Rewrites => SameTask(api.obj)

\* Ids are given out in order, and runs are of entries.
Unborn == /\ \A e \in Entry : e > born => store[e].status = "absent"
          /\ api.op = "create" => api.obj.rec.retryOf = 0
          /\ \A r \in Run : runs[r].entry \in 0..born

Ancestry == \A e \in 1..born : store[e].retryOf # 0 =>
                /\ store[e].retryOf \in 1..born
                /\ store[e].attempt = store[store[e].retryOf].attempt + 1
                /\ store[e].attempt <= MaxRetries + 1

OriginInv == Shape /\ Known /\ Unborn /\ Ancestry

LEMMA OriginIs ==
    ASSUME NEW q, NEW r, Origin(q) = Origin(r)
    PROVE  /\ q.work = r.work /\ q.attempt = r.attempt /\ q.retryOf = r.retryOf
           /\ q.intr = r.intr /\ q.keyed = r.keyed
BY DEF Origin

\* What each update of an entry leaves of status, run and cause.
Like(q, r, st, run, cause) == /\ q.status = st /\ q.run = run /\ q.cause = cause
                              /\ Origin(q) = Origin(r)

LEMMA Updated ==
    ASSUME NEW r \in Entries
    PROVE  /\ \A v : Like([r EXCEPT !.status = v], r, v, r.run, r.cause)
           /\ \A v, n : Like([r EXCEPT !.status = v, !.run = n], r, v, n, r.cause)
           /\ \A c : Like([r EXCEPT !.cause = c], r, r.status, r.run, c)
           /\ Like([r EXCEPT !.review = TRUE], r, r.status, r.run, r.cause)
           /\ \A n : Like([r EXCEPT !.succ = n], r, r.status, r.run, r.cause)
           /\ Like([r EXCEPT !.prio = 1 - @], r, r.status, r.run, r.cause)
           /\ Like([r EXCEPT !.limit = ~@], r, r.status, r.run, r.cause)
<1>1. \A v : Like([r EXCEPT !.status = v], r, v, r.run, r.cause)
    BY Zenon DEF Entries, Origin, Like
<1>2. \A v, n : Like([r EXCEPT !.status = v, !.run = n], r, v, n, r.cause)
    BY Zenon DEF Entries, Origin, Like
<1>3. \A c : Like([r EXCEPT !.cause = c], r, r.status, r.run, c)
    BY Zenon DEF Entries, Origin, Like
<1>4. Like([r EXCEPT !.review = TRUE], r, r.status, r.run, r.cause)
    BY Zenon DEF Entries, Origin, Like
<1>5. \A n : Like([r EXCEPT !.succ = n], r, r.status, r.run, r.cause)
    BY Zenon DEF Entries, Origin, Like
<1>6. Like([r EXCEPT !.prio = 1 - @], r, r.status, r.run, r.cause)
    BY Zenon DEF Entries, Origin, Like
<1>7. Like([r EXCEPT !.limit = ~@], r, r.status, r.run, r.cause)
    BY Zenon DEF Entries, Origin, Like
<1> QED
    BY <1>1, <1>2, <1>3, <1>4, <1>5, <1>6, <1>7, Zenon

\* Object p is o with another status, run or cause.
Update(o, p, st, run, cause) == /\ p \in Objects /\ p.id = o.id
                                /\ Like(p.rec, o.rec, st, run, cause)

LEMMA UpdatedObject ==
    ASSUME NEW o \in Objects
    PROVE  /\ \A v \in Status :
                 Update(o, With(o, [o.rec EXCEPT !.status = v]), v, o.rec.run, o.rec.cause)
           /\ \A v \in Status, n \in 0..MaxRuns :
                 Update(o, With(o, [o.rec EXCEPT !.status = v, !.run = n]), v, n, o.rec.cause)
           /\ \A c \in Causes :
                 Update(o, With(o, [o.rec EXCEPT !.cause = c]), o.rec.status, o.rec.run, c)
           /\ Update(o, With(o, [o.rec EXCEPT !.review = TRUE]),
                     o.rec.status, o.rec.run, o.rec.cause)
           /\ \A n \in 0..MaxEntries :
                 Update(o, With(o, [o.rec EXCEPT !.succ = n]),
                        o.rec.status, o.rec.run, o.rec.cause)
           /\ Update(o, With(o, [o.rec EXCEPT !.prio = 1 - @]),
                     o.rec.status, o.rec.run, o.rec.cause)
           /\ Update(o, With(o, [o.rec EXCEPT !.limit = ~@]),
                     o.rec.status, o.rec.run, o.rec.cause)
<1>1. o.rec \in Entries
    BY DEF Objects
<1>2. ASSUME NEW q \in Entries, NEW st, NEW run, NEW c, Like(q, o.rec, st, run, c)
      PROVE  Update(o, With(o, q), st, run, c)
    BY <1>2, ObjectWith DEF Update
<1> QED
    BY <1>1, <1>2, EntryFields, Updated, Zenon

\* An object read from the store, or changed after that, is of its origin.
LEMMA SameRead ==
    ASSUME OriginInv, NEW e \in Entry, e \in 1..born
    PROVE  SameTask(Object(e)) /\ Object(e).id = e /\ Object(e).rec = store[e]
           /\ Object(e) \in Objects
BY ObjectRead DEF OriginInv, Shape, TypeOK, StoreType, SameTask

LEMMA SameUpdate ==
    ASSUME NEW o \in Objects, SameTask(o)
    PROVE  /\ \A v \in Status : SameTask(With(o, [o.rec EXCEPT !.status = v]))
           /\ \A v \in Status, n \in 0..MaxRuns :
                 SameTask(With(o, [o.rec EXCEPT !.status = v, !.run = n]))
           /\ \A c \in Causes : SameTask(With(o, [o.rec EXCEPT !.cause = c]))
           /\ SameTask(With(o, [o.rec EXCEPT !.review = TRUE]))
           /\ \A n \in 0..MaxEntries : SameTask(With(o, [o.rec EXCEPT !.succ = n]))
           /\ SameTask(With(o, [o.rec EXCEPT !.prio = 1 - @]))
           /\ SameTask(With(o, [o.rec EXCEPT !.limit = ~@]))
<1>1. \A p, st, run, c : Update(o, p, st, run, c) => SameTask(p)
    BY DEF SameTask, Update, Like
<1> QED
    BY <1>1, UpdatedObject, Zenon

\* Whoever is present was created.
LEMMA BornIs ==
    ASSUME OriginInv, NEW e \in Entry
    PROVE  /\ store[e].status # "absent" => e \in 1..born
           /\ store[e] \in Entries
BY QueueAssumption DEF OriginInv, Shape, TypeOK, StoreType, Unborn, Entry

\* One entry is written back, with its origin, or one is added.
Rewrite == /\ born' = born
           /\ \E e \in 1..born : \E q \in Entries :
                 store' = [store EXCEPT ![e] = q] /\ Origin(q) = Origin(store[e])
Appended(q) == /\ born < MaxEntries /\ born' = born + 1
               /\ store' = [store EXCEPT ![born + 1] = q]

LEMMA PutIs ==
    ASSUME OriginInv, NEW o \in Objects, SameTask(o), Put(o), born' = born
    PROVE  Rewrite
BY DEF SameTask, Put, Rewrite, Objects

\* What requeue adds: an entry without a key, of the entry it goes on from.
LEMMA RequeueIs ==
    ASSUME OriginInv, NEW e \in 1..born, NEW c \in Causes, NEW i \in 0..MaxRuns,
           CanRequeue(e), Requeue(e, c, i)
    PROVE  \E q \in Entries :
              /\ Appended(q) /\ q.retryOf = e /\ q.attempt = store[e].attempt + 1
              /\ q.work = store[e].work /\ q.intr = i /\ q.cause = c
              /\ q.status = "pending" /\ ~q.keyed
<1> DEFINE b == (store[e].r1 \/ i # 0)
           n == store[e].attempt + 1
           new == [Blank(store[e].work) EXCEPT
               !.status = "pending", !.prio = store[e].prio,
               !.attempt = n, !.retryOf = e,
               !.cause = c, !.intr = i, !.limit = store[e].limit,
               !.r1 = b]
<1>1. store' = [store EXCEPT ![born + 1] = new] /\ born' = born + 1
    BY Zenon DEF Requeue
<1>2. e \in Entry /\ born \in 0..MaxEntries /\ store[e] \in Entries
    BY QueueAssumption DEF OriginInv, Shape, TypeOK, StoreType, Entry
<1>3. /\ store[e].work \in Work /\ store[e].prio \in {0, 1}
      /\ n \in Nat /\ store[e].limit \in BOOLEAN
    BY <1>2 DEF Entries
<1>4. b \in BOOLEAN
    BY Zenon
<1>5. e \in 0..MaxEntries /\ Blank(store[e].work) \in Entries
    BY <1>2, <1>3, BlankEntry DEF Entry
<1>6. new \in Entries
    <2> HIDE DEF b, n
    <2> QED BY <1>3, <1>4, <1>5, QueueAssumption
               DEF Entries, Blank, Status, NonTerminal, Causes
<1>7. /\ new.retryOf = e /\ new.attempt = n /\ new.work = store[e].work
      /\ new.intr = i /\ new.cause = c /\ new.status = "pending" /\ ~new.keyed
    <2> HIDE DEF b, n
    <2> QED BY DEF Blank
<1>8. born < MaxEntries
    BY DEF CanRequeue
<1> HIDE DEF new
<1> QED
    BY <1>1, <1>6, <1>7, <1>8, Zenon DEF Appended

\* What the launcher holds is of the entry it was read from.
LEMMA HeldSame ==
    ASSUME OriginInv, LauncherStep
    PROVE  obj' \in Objects /\ (lp' \in Holding => SameTask(obj'))
<1> USE DEF Goto, Holding, UpdateLabels
<1>0. /\ obj \in Objects /\ (lp \in Holding => SameTask(obj))
      /\ todo # {} => /\ Visiting \in Objects /\ SameTask(Visiting)
                      /\ SameTask(Object(Visiting.id)) /\ Object(Visiting.id) \in Objects
                      /\ Object(Visiting.id).rec = store[Visiting.id]
      /\ snap # {} => /\ SameTask(Object(Head.id)) /\ Object(Head.id) \in Objects
                      /\ Object(Head.id).rec = store[Head.id]
      /\ newrun \in 0..MaxRuns /\ 0 \in 0..MaxRuns
      /\ lp \in UpdateLabels => todo # {}
      /\ lp \in LaunchLabels => snap # {}
    BY Visit, HeadOfSnap, SameRead, QueueAssumption
       DEF OriginInv, Shape, TypeOK, PassType, PassShape, Known, SameTask
<1>1. obj' \in Objects
    BY LauncherShape DEF OriginInv, Shape, TypeOK, PassType
<1>2. CASE lp' \notin Holding
    BY <1>1, <1>2
<1>3. CASE UNCHANGED obj /\ lp \in Holding
    BY <1>0, <1>1, <1>3
<1>5. CASE StopOverrun
    BY <1>0, <1>1, <1>5, SameUpdate, Zenon DEF StopOverrun, Causes
<1>6. CASE MarkEnded
    <2>1. Verdict(Visiting.rec.run) \in Status
        BY DEF Verdict, Status
    <2>2. \/ LeavePass
          \/ obj' = With(Object(Visiting.id),
                         [Object(Visiting.id).rec EXCEPT !.status = Verdict(Visiting.rec.run)])
        BY <1>6, Zenon DEF MarkEnded
    <2>3. lp' = "idle" => lp' \notin Holding
        OBVIOUS
    <2>4. todo # {}
        BY <1>6 DEF MarkEnded
    <2>5. SameTask(With(Object(Visiting.id),
                   [Object(Visiting.id).rec EXCEPT !.status = Verdict(Visiting.rec.run)]))
        BY <1>0, <2>1, <2>4, SameUpdate, Zenon
    <2>6. LeavePass => lp' = "idle"
        BY DEF LeavePass
    <2> QED BY <1>1, <1>2, <2>2, <2>3, <2>5, <2>6, Zenon
<1>7. CASE IntrWrite
    BY <1>0, <1>1, <1>7, SameUpdate, Zenon DEF IntrWrite, Causes
<1>8. CASE Reconcile
    <2>1. lp \in Holding
        BY <1>8 DEF Reconcile
    <2>2. obj' = obj \/ obj' = With(obj, [obj.rec EXCEPT !.review = TRUE])
        BY <1>8, Zenon DEF Reconcile
    <2>3. SameTask(With(obj, [obj.rec EXCEPT !.review = TRUE]))
        BY <1>0, <2>1, SameUpdate, Zenon
    <2> QED BY <1>1, <1>3, <2>1, <2>2, <2>3, Zenon
<1>9. CASE SecondChance
    <2>1. CASE CanRequeue(obj.id) /\ obj' = With(obj, [obj.rec EXCEPT !.succ = born + 1])
        <3>1. born + 1 \in 0..MaxEntries /\ SameTask(obj)
            BY <1>0, <1>9, <2>1, QueueAssumption
               DEF CanRequeue, SecondChance, OriginInv, Shape, TypeOK, StoreType
        <3> QED BY <1>0, <1>1, <2>1, <3>1, SameUpdate, Zenon
    <2>2. obj' = obj \/ (CanRequeue(obj.id)
                  /\ obj' = With(obj, [obj.rec EXCEPT !.succ = born + 1]))
        BY <1>9, Zenon DEF SecondChance
    <2>3. lp \in Holding
        BY <1>9 DEF SecondChance
    <2> QED BY <1>3, <2>1, <2>2, <2>3
<1>10. CASE SkipGet \/ Rollback
    BY <1>0, <1>1, <1>2, <1>10 DEF SkipGet, NextEntry, Rollback, LaunchLabels
<1>11. CASE CreateFails
    <2>1. \/ lp' = "loop" \/ lp' = "idle"
          \/ obj' = With(Object(Head.id), [Object(Head.id).rec EXCEPT !.status = "failed"])
        BY <1>0, <1>11 DEF CreateFails, NextEntry, LeavePass, LaunchLabels
    <2>2. snap # {} /\ "failed" \in Status /\ {"loop", "idle"} \cap Holding = {}
        BY <1>0, <1>11 DEF CreateFails, Status, LaunchLabels
    <2>3. lp' \notin Holding
          \/ obj' = With(Object(Head.id), [Object(Head.id).rec EXCEPT !.status = "failed"])
        BY <2>1, <2>2
    <2>4. SameTask(With(Object(Head.id), [Object(Head.id).rec EXCEPT
                             !.status = "failed"]))
        BY <1>0, <2>2, SameUpdate, Zenon
    <2> QED BY <1>1, <1>2, <2>3, <2>4, Zenon
<1>12. CASE Claim
    <2>1. \/ lp' = "loop" \/ lp' = "idle"
          \/ obj' = With(Object(Head.id), [Object(Head.id).rec EXCEPT
                             !.status = "launched", !.run = newrun])
        BY <1>0, <1>12 DEF Claim, CountLaunch, NextEntry, LeavePass, LaunchLabels
    <2>2. snap # {} /\ "launched" \in Status /\ {"loop", "idle"} \cap Holding = {}
        BY <1>0, <1>12 DEF Claim, Status, NonTerminal, LaunchLabels
    <2>3. lp' \notin Holding
          \/ obj' = With(Object(Head.id), [Object(Head.id).rec EXCEPT
                             !.status = "launched", !.run = newrun])
        BY <2>1, <2>2
    <2>4. SameTask(With(Object(Head.id), [Object(Head.id).rec EXCEPT
                             !.status = "launched", !.run = newrun]))
        BY <1>0, <2>2, SameUpdate, Zenon
    <2> QED BY <1>1, <1>2, <2>3, <2>4, Zenon
<1>13. CASE Revert
    <2>1. \/ lp' = "loop"
          \/ obj' = With(Object(Head.id), [Object(Head.id).rec EXCEPT
                             !.status = "pending", !.run = 0])
        BY <1>0, <1>13 DEF Revert, NextEntry, LaunchLabels
    <2>2. snap # {} /\ "pending" \in Status /\ {"loop", "idle"} \cap Holding = {}
        BY <1>0, <1>13 DEF Revert, Status, NonTerminal, LaunchLabels
    <2>3. lp' \notin Holding
          \/ obj' = With(Object(Head.id), [Object(Head.id).rec EXCEPT
                             !.status = "pending", !.run = 0])
        BY <2>1, <2>2
    <2>4. SameTask(With(Object(Head.id), [Object(Head.id).rec EXCEPT
                             !.status = "pending", !.run = 0]))
        BY <1>0, <2>2, SameUpdate, Zenon
    <2> QED BY <1>1, <1>2, <2>3, <2>4, Zenon
<1>14. CASE ~(\/ StopOverrun \/ MarkEnded \/ IntrWrite \/ Reconcile \/ SecondChance \/ SkipGet
              \/ Rollback \/ CreateFails \/ Claim \/ Revert)
    <2>1. (UNCHANGED obj /\ lp \in Holding) \/ lp' \notin Holding
        BY <1>14
           DEF LauncherStep, PassBegin, ReadActive, ListLaunched, LimitWrite, LeaveLaunched,
               MarkWrite, HandleRetry, LinkSuccessor, Touch, ReadCapacity, Refuse, Accept,
               PassEnd, SkipWrite, SkipTouch, LaunchRefused, CreateRun, FailWrite, FailRetry,
               ClaimWrite, Confirm, LaunchTouch, RollbackSkip, RollbackWrite, NextEntry,
               CountLaunch, LeavePass, pass
    <2> QED BY <1>2, <1>3, <2>1
<1> QED
    BY <1>5, <1>6, <1>7, <1>8, <1>9, <1>10, <1>11, <1>12, <1>13, <1>14

\* An entry is added: a task, or what a failed entry goes on with.
Added == \E q \in Entries :
    /\ Appended(q)
    /\ \/ q.retryOf = 0
       \/ /\ q.retryOf \in 1..born /\ q.attempt = store[q.retryOf].attempt + 1
          /\ store[q.retryOf].attempt <= MaxRetries

LEMMA LauncherQueue ==
    ASSUME OriginInv, LauncherStep
    PROVE  UNCHANGED queue \/ Rewrite \/ Added
<1>0. /\ obj \in Objects /\ (lp \in Holding => SameTask(obj))
      /\ obj' \in Objects /\ (lp' \in Holding => SameTask(obj'))
    BY HeldSame DEF OriginInv, Shape, TypeOK, PassType, Known
<1>1. CASE Put(obj) /\ born' = born /\ lp \in Holding
    BY <1>0, <1>1, PutIs
<1>2. CASE LimitWrite \/ MarkWrite \/ LinkSuccessor \/ Touch \/ SkipWrite \/ SkipTouch
    BY <1>1, <1>2
       DEF LimitWrite, MarkWrite, LinkSuccessor, Touch, SkipWrite, SkipTouch, Holding,
           UpdateLabels
<1>3. CASE FailWrite \/ ClaimWrite \/ LaunchTouch \/ RollbackSkip \/ RollbackWrite
    BY <1>1, <1>3
       DEF FailWrite, ClaimWrite, LaunchTouch, RollbackSkip, RollbackWrite, Holding
<1>4. CASE IntrWrite \/ Reconcile
    <2>1. born' = born /\ lp' \in Holding /\ (UNCHANGED store \/ Put(obj'))
        BY <1>4 DEF IntrWrite, Reconcile, Goto, Holding, UpdateLabels
    <2> QED BY <1>0, <2>1, PutIs DEF queue
<1>5. CASE HandleRetry \/ FailRetry \/ SecondChance
    <2>1. lp \in Holding
        BY <1>5 DEF HandleRetry, FailRetry, SecondChance, Holding, UpdateLabels
    <2>2. obj.id \in 1..born /\ obj.rec.run \in 0..MaxRuns
        BY <1>0, <2>1 DEF SameTask, Objects, Entries
    <2>3. "backend" \in Causes /\ "restart" \in Causes /\ 0 \in 0..MaxRuns
        BY QueueAssumption DEF Causes
    <2>4. \/ UNCHANGED queue
          \/ CanRequeue(obj.id) /\ Requeue(obj.id, "backend", 0)
          \/ CanRequeue(obj.id) /\ Requeue(obj.id, "restart", obj.rec.run)
        BY <1>5, Zenon DEF HandleRetry, FailRetry, SecondChance
    <2>5. ASSUME NEW c \in Causes, NEW i \in 0..MaxRuns, CanRequeue(obj.id),
                 Requeue(obj.id, c, i)
          PROVE  Added
        BY <2>2, <2>5, RequeueIs DEF CanRequeue, Added
    <2> QED
        BY <2>2, <2>3, <2>4, <2>5
<1>6. \/ UNCHANGED queue \/ LimitWrite \/ MarkWrite \/ LinkSuccessor \/ Touch
      \/ SkipWrite \/ SkipTouch \/ FailWrite \/ ClaimWrite \/ LaunchTouch
      \/ RollbackSkip \/ RollbackWrite \/ IntrWrite \/ Reconcile \/ HandleRetry
      \/ FailRetry \/ SecondChance
    BY DEF LauncherStep, PassBegin, ReadActive, ListLaunched, StopOverrun,
           LeaveLaunched, MarkEnded, ReadCapacity, Refuse, Accept, PassEnd,
           SkipGet, LaunchRefused, CreateRun, CreateFails, Claim, Confirm,
           Rollback, Revert
<1> QED
    BY <1>2, <1>3, <1>4, <1>5, <1>6

\* A handler writes an entry back, or adds the task it was given; the object
\* of the next call is of the entry it reads.
LEMMA ApiQueue ==
    ASSUME OriginInv, ApiStep
    PROVE  /\ UNCHANGED queue \/ Rewrite \/ Added
           /\ api'.op \in Rewrites => SameTask(api'.obj)
           /\ api'.op = "create" => api'.obj.rec.retryOf = 0
<1> USE DEF Rewrites
<1>0. /\ api.obj \in Objects /\ (api.op \in Rewrites => SameTask(api.obj))
      /\ store \in [Entry -> Entries] /\ born \in 0..MaxEntries
      /\ NoCall.op = "none"
      /\ \A e \in Entry : store[e].status # "absent" => SameTask(Object(e))
      /\ api.op = "create" => api.obj.rec.retryOf = 0
    BY SameRead, BornIs DEF OriginInv, Shape, TypeOK, CallType, StoreType, Known, NoCall, Unborn
<1>1. ASSUME NEW w \in Work, NEW keyed \in Keyed, CreateCheck(w, keyed)
      PROVE  UNCHANGED queue /\ api'.op = "create" /\ api'.obj.rec.retryOf = 0
    <2> DEFINE fresh == [Blank(w) EXCEPT !.status = "pending", !.keyed = keyed]
    <2>1. fresh.retryOf = 0
        BY DEF Blank
    <2>2. UNCHANGED queue /\ api' = [op |-> "create", obj |-> [id |-> 0, rec |-> fresh]]
        BY <1>1, Zenon DEF CreateCheck, Call, KeepLauncher
    <2> HIDE DEF fresh
    <2> QED BY <2>1, <2>2
<1>2. CASE CreateWrite
    <2> DEFINE o == [api.obj EXCEPT !.id = born + 1]
    <2>1. o.id = born + 1 /\ o.rec = api.obj.rec /\ api.obj.rec \in Entries
        BY <1>0, Zenon DEF Objects
    <2>2. store' = [store EXCEPT ![o.id] = o.rec] /\ born' = born + 1 /\ born < MaxEntries
          /\ api.op = "create" /\ api' = NoCall
        BY <1>2, Zenon DEF CreateWrite, Put
    <2> HIDE DEF o
    <2> QED BY <1>0, <2>1, <2>2 DEF Added, Appended
<1>3. ASSUME NEW e \in Entry, NEW op \in ApiOps, PendingCheck(e, op)
      PROVE  UNCHANGED queue /\ api'.op # "create" /\ SameTask(api'.obj)
    BY <1>0, <1>3 DEF PendingCheck, Call, queue
<1>4. ASSUME NEW e \in Entry, LimitRead(e)
      PROVE  UNCHANGED queue /\ api'.op # "create" /\ SameTask(api'.obj)
    BY <1>0, <1>4 DEF LimitRead, Call, queue, Present
<1>5. CASE PriorityGet
    <2>1. api.obj.id \in Entry
        BY <1>0, <1>5, QueueAssumption DEF PriorityGet, SameTask, Entry
    <2> QED BY <1>0, <1>5, <2>1 DEF PriorityGet, Call, queue
<1>6. CASE PriorityWrite \/ LimitSet
    <2>1. \/ Put(With(api.obj, [api.obj.rec EXCEPT !.prio = 1 - @]))
          \/ Put(With(api.obj, [api.obj.rec EXCEPT !.limit = ~@]))
        BY <1>6, Zenon DEF PriorityWrite, LimitSet
    <2>2. api.op \in Rewrites /\ api' = NoCall /\ born' = born
        BY <1>6 DEF PriorityWrite, LimitSet
    <2>3. /\ SameTask(With(api.obj, [api.obj.rec EXCEPT !.prio = 1 - @]))
          /\ SameTask(With(api.obj, [api.obj.rec EXCEPT !.limit = ~@]))
        BY <1>0, <2>2, SameUpdate, Zenon
    <2>4. /\ With(api.obj, [api.obj.rec EXCEPT !.prio = 1 - @]) \in Objects
          /\ With(api.obj, [api.obj.rec EXCEPT !.limit = ~@]) \in Objects
        BY <1>0, UpdatedObject, Zenon DEF Update
    <2>5. Rewrite
        BY <2>1, <2>2, <2>3, <2>4, PutIs, Zenon
    <2> QED BY <1>0, <2>2, <2>5
<1>7. CASE EditWrite
    BY <1>0, <1>7, PutIs DEF EditWrite, queue
<1>8. CASE DeleteFile
    <2>1. api.obj.id \in 1..born /\ api.obj.id \in Entry /\ api' = NoCall /\ born' = born
        BY <1>0, <1>8, QueueAssumption DEF DeleteFile, SameTask, Entry
    <2> DEFINE q == [store[api.obj.id] EXCEPT !.status = "absent"]
    <2>2. q \in Entries /\ Origin(q) = Origin(store[api.obj.id])
        BY <1>0, <2>1, EntryFields, Updated, Zenon DEF Like
    <2>3. store' = [store EXCEPT ![api.obj.id] = q]
        BY <1>8, Zenon DEF DeleteFile
    <2> HIDE DEF q
    <2> QED BY <1>0, <2>1, <2>2, <2>3 DEF Rewrite
<1>9. CASE SetDrain
    BY <1>0, <1>9 DEF SetDrain, queue
<1> QED
    BY <1>1, <1>2, <1>3, <1>4, <1>5, <1>6, <1>7, <1>8, <1>9 DEF ApiStep

\* An origin is kept by every step, and so is what is known of an object.
LEMMA OriginStays ==
    ASSUME OriginInv, UNCHANGED queue \/ Rewrite \/ Added
    PROVE  /\ 1..born \subseteq 1..born' /\ born' \in born..MaxEntries
           /\ \A e \in 1..born : Origin(store'[e]) = Origin(store[e])
           /\ \A o : SameTask(o) => /\ o.id \in 1..born'
                                    /\ Origin(o.rec) = Origin(store'[o.id])
           /\ \A e \in Entry : e > born' => store'[e].status = "absent"
<1>0. /\ born \in 0..MaxEntries /\ store \in [Entry -> Entries]
      /\ \A e \in Entry : e > born => store[e].status = "absent"
    BY DEF OriginInv, Shape, TypeOK, StoreType, Unborn
<1>1. /\ 1..born \subseteq 1..born' /\ born' \in born..MaxEntries
      /\ \A e \in 1..born : Origin(store'[e]) = Origin(store[e])
      /\ \A e \in Entry : e > born' => store'[e].status = "absent"
    <2>1. CASE UNCHANGED queue
        BY <1>0, <2>1, QueueAssumption DEF queue
    <2>2. CASE Rewrite
        BY <1>0, <2>2, QueueAssumption DEF Rewrite, Entry
    <2>3. CASE Added
        BY <1>0, <2>3, QueueAssumption DEF Added, Appended, Entry
    <2> QED BY <2>1, <2>2, <2>3
<1> QED BY <1>1 DEF SameTask

\* A step that leaves ancestries in place, or adds one.
LEMMA AncestryStays ==
    ASSUME OriginInv, UNCHANGED queue \/ Rewrite \/ Added
    PROVE  Ancestry'
<1>0. /\ born \in 0..MaxEntries /\ store \in [Entry -> Entries] /\ Ancestry
      /\ 1..born \subseteq 1..born'
    BY OriginStays DEF OriginInv, Shape, TypeOK, StoreType
<1>1. \A e \in 1..born : /\ store'[e].retryOf = store[e].retryOf
                         /\ store'[e].attempt = store[e].attempt
    BY OriginStays, OriginIs
<1>2. \A e \in 1..born : store[e].attempt \in Nat
    BY BornIs, QueueAssumption, <1>0 DEF Entries, Entry
<1>3. CASE born' = born
    BY <1>0, <1>1, <1>3 DEF Ancestry
<1>4. CASE Added
    <2>1. PICK q \in Entries :
             /\ Appended(q)
             /\ \/ q.retryOf = 0
                \/ /\ q.retryOf \in 1..born /\ q.attempt = store[q.retryOf].attempt + 1
                   /\ store[q.retryOf].attempt <= MaxRetries
        BY <1>4 DEF Added
    <2>2. store'[born + 1] = q /\ born' = born + 1
        BY <1>0, <2>1, QueueAssumption DEF Appended, Entry
    <2>3. \A e \in 1..born' : e \in 1..born \/ e = born + 1
        BY <1>0, <2>2
    <2> QED BY <1>0, <1>1, <1>2, <2>1, <2>2, <2>3, QueueAssumption DEF Ancestry
<1> QED BY <1>3, <1>4 DEF queue, Rewrite

\* Only create_run gives a run another entry, or brings a worker to life.
LEMMA RunsStay ==
    ASSUME OriginInv, [Next]_vars, ~CreateRun
    PROVE  \A r \in Run : /\ runs'[r].entry = runs[r].entry
                          /\ runs'[r].alive => runs[r].alive
<1>0. runs \in [Run -> Runs]
    BY DEF OriginInv, Shape, TypeOK, RunsType
<1>1. CASE UNCHANGED runs
    BY <1>1
<1>2. CASE StopOverrun
    BY <1>0, <1>2, Visit DEF StopOverrun, Runs, OriginInv
<1>3. CASE Confirm
    BY <1>0, <1>3 DEF Confirm, Runs
<1>5. ASSUME NEW r \in Run, RunEnds(r) \/ LingererExits(r)
      PROVE  \A q \in Run : /\ runs'[q].entry = runs[q].entry
                            /\ runs'[q].alive => runs[q].alive
    <2>1. /\ \A st \in Ended : LET v == [runs[r] EXCEPT !.st = st, !.alive = FALSE] IN
                                v.entry = runs[r].entry /\ ~v.alive
          /\ LET v == [runs[r] EXCEPT !.alive = FALSE] IN v.entry = runs[r].entry /\ ~v.alive
        BY <1>0, Zenon DEF Runs
    <2>2. \/ runs' = [runs EXCEPT ![r] = [runs[r] EXCEPT !.alive = FALSE]]
          \/ \E st \in Ended :
                 runs' = [runs EXCEPT ![r] = [runs[r] EXCEPT !.st = st, !.alive = FALSE]]
        BY <1>0, <1>5, Zenon DEF RunEnds, LingererExits
    <2> QED BY <1>0, <2>1, <2>2, Zenon
<1>6. CASE Restart
    <2>1. PICK lost \in SUBSET ActiveRuns, linger \in SUBSET ActiveRuns :
            runs' = [r \in Run |->
                [runs[r] EXCEPT !.old = runs[r].st # "none",
                                !.st = IF r \in lost THEN "gone" ELSE @,
                                !.alive = @ /\ (r \in lost => r \in linger)]]
        BY <1>6, Zenon DEF Restart
    <2>2. ASSUME NEW r \in Run
          PROVE  runs'[r].entry = runs[r].entry /\ (runs'[r].alive => runs[r].alive)
        <3> DEFINE a == runs[r].st # "none"
                   b == IF r \in lost THEN "gone" ELSE runs[r].st
                   c == runs[r].alive /\ (r \in lost => r \in linger)
        <3>1. runs'[r] = [runs[r] EXCEPT !.old = a, !.st = b, !.alive = c]
            BY <2>1, Zenon
        <3>2. /\ [runs[r] EXCEPT !.old = a, !.st = b, !.alive = c].entry = runs[r].entry
              /\ [runs[r] EXCEPT !.old = a, !.st = b, !.alive = c].alive = c
            <4>1. runs[r] \in Runs
                BY <1>0
            <4> HIDE DEF a, b, c
            <4> QED BY <4>1, Zenon DEF Runs
        <3>3. c => runs[r].alive
            OBVIOUS
        <3> HIDE DEF a, b, c
        <3> QED BY <3>1, <3>2, <3>3, Zenon
    <2> QED BY <2>2
<1>7. CASE LauncherStep
    <2>1. UNCHANGED runs \/ StopOverrun \/ Confirm
        BY <1>7
           DEF LauncherStep, PassBegin, ReadActive, ListLaunched, LimitWrite,
               LeaveLaunched, MarkEnded, MarkWrite, HandleRetry, IntrWrite,
               Reconcile, SecondChance, LinkSuccessor, Touch, ReadCapacity,
               Refuse, Accept, PassEnd, SkipGet, SkipWrite, SkipTouch,
               LaunchRefused, CreateFails, FailWrite, FailRetry, Claim,
               ClaimWrite, LaunchTouch, Rollback, RollbackSkip, Revert,
               RollbackWrite
    <2> QED BY <1>1, <1>2, <1>3, <2>1
<1>8. CASE ApiStep
    BY <1>1, <1>8
       DEF ApiStep, CreateCheck, CreateWrite, PendingCheck, PriorityGet, PriorityWrite,
           EditWrite, DeleteFile, LimitRead, LimitSet, SetDrain, KeepLauncher
<1>9. CASE UNCHANGED vars
    BY <1>1, <1>9 DEF vars
<1> QED
    BY <1>5, <1>6, <1>7, <1>8, <1>9 DEF Next, Environment

\* The two lists of a pass hold entries as they were listed.
LEMMA ListsSame ==
    ASSUME OriginInv, [Next]_vars
    PROVE  \A o \in snap' \cup todo' : SameTask(o)
<1>0. /\ \A o \in snap \cup todo : SameTask(o)
      /\ \A st : st # "absent" => \A o \in Listing(st) : SameTask(o)
    BY BornIs, SameRead DEF OriginInv, Known, Listing
<1>1. CASE snap' \subseteq snap /\ todo' \subseteq todo
    BY <1>0, <1>1
<1>2. CASE PassBegin
    BY <1>0, <1>2 DEF PassBegin
<1>3. CASE ListLaunched
    BY <1>0, <1>3 DEF ListLaunched
<1>4. CASE LauncherStep /\ ~PassBegin /\ ~ListLaunched
    <2>1. snap' \subseteq snap /\ todo' \subseteq todo
        BY <1>4
           DEF LauncherStep, ReadActive, StopOverrun, LimitWrite, LeaveLaunched, MarkEnded,
               MarkWrite, HandleRetry, IntrWrite, Reconcile, SecondChance, LinkSuccessor,
               Touch, ReadCapacity, Refuse, Accept, PassEnd, SkipGet, SkipWrite, SkipTouch,
               LaunchRefused, CreateRun, CreateFails, FailWrite, FailRetry, Claim,
               ClaimWrite, Confirm, LaunchTouch, Rollback, RollbackSkip, Revert,
               RollbackWrite, NextEntry, CountLaunch, Visited, LeavePass, pass
    <2> QED BY <1>1, <2>1
<1>5. CASE ApiStep
    BY <1>1, <1>5
       DEF ApiStep, CreateCheck, CreateWrite, PendingCheck, PriorityGet, PriorityWrite,
           EditWrite, DeleteFile, LimitRead, LimitSet, SetDrain, KeepLauncher, pass
<1>6. CASE Environment \/ UNCHANGED vars
    BY <1>1, <1>6 DEF Environment, Restart, LeavePass, RunEnds, LingererExits, vars, pass
<1> QED
    BY <1>2, <1>3, <1>4, <1>5, <1>6 DEF Next

LEMMA OriginStep == OriginInv /\ [Next]_vars => OriginInv'
<1> SUFFICES ASSUME OriginInv, [Next]_vars PROVE OriginInv'
    OBVIOUS
<1>1. Shape'
    BY ShapeStep DEF OriginInv
<1>2. UNCHANGED queue \/ Rewrite \/ Added
    <2>1. CASE Environment \/ UNCHANGED vars
        BY <2>1 DEF Environment, Restart, RunEnds, LingererExits, vars, queue
    <2> QED BY <2>1, LauncherQueue, ApiQueue DEF Next
<1>3. \A o : SameTask(o) => o.id \in 1..born' /\ Origin(o.rec) = Origin(store'[o.id])
    BY <1>2, OriginStays
<1>4. \A o \in snap' \cup todo' : SameTask(o)
    BY ListsSame
<1>5. /\ lp' \in Holding => SameTask(obj')
      /\ api'.op \in Rewrites => SameTask(api'.obj)
      /\ api'.op = "create" => api'.obj.rec.retryOf = 0
    <2>0. /\ lp \in Holding => SameTask(obj)
          /\ api.op \in Rewrites => SameTask(api.obj)
          /\ api.op = "create" => api.obj.rec.retryOf = 0
        BY DEF OriginInv, Known, Unborn
    <2>1. CASE LauncherStep
        BY <2>0, <2>1, HeldSame, LauncherFrame
           DEF LauncherStep, PassBegin, ReadActive, ListLaunched,
               StopOverrun, LimitWrite, LeaveLaunched, MarkEnded,
               MarkWrite, HandleRetry, IntrWrite, Reconcile, SecondChance, LinkSuccessor,
               Touch, ReadCapacity, Refuse, Accept, PassEnd, SkipGet, SkipWrite, SkipTouch,
               LaunchRefused, CreateRun, CreateFails, FailWrite, FailRetry, Claim,
               ClaimWrite, Confirm, LaunchTouch, Rollback, RollbackSkip, Revert,
               RollbackWrite, rest
    <2>2. CASE ApiStep
        <3>1. UNCHANGED <<lp, obj>>
            BY <2>2
               DEF ApiStep, CreateCheck, CreateWrite, PendingCheck, PriorityGet,
                   PriorityWrite, EditWrite, DeleteFile, LimitRead, LimitSet, SetDrain,
                   KeepLauncher, pass
        <3> QED BY <2>0, <2>2, <3>1, ApiQueue
    <2>3. CASE Environment \/ UNCHANGED vars
        <3>1. UNCHANGED <<lp, obj, api>> \/ (lp' = "idle" /\ api' = NoCall)
            BY <2>3 DEF Environment, Restart, LeavePass, Goto, RunEnds, LingererExits, vars,
                        pass, rest
        <3> QED BY <2>0, <3>1 DEF NoCall, Holding, UpdateLabels, Rewrites
    <2> QED BY <2>1, <2>2, <2>3 DEF Next
<1>6. \A r \in Run : runs'[r].entry \in 0..born'
    <2>1. born \in 0..MaxEntries /\ born' \in born..MaxEntries
        BY <1>2, OriginStays DEF OriginInv, Shape, TypeOK, StoreType
    <2>2. CreateRun => Head.id \in 1..born
        BY HeadOfSnap DEF CreateRun, OriginInv, Shape, PassShape, LaunchLabels, Known, SameTask
    <2>3. CASE CreateRun
        <3>1. PICK r \in Run : runs' = [runs EXCEPT ![r] =
                            [st |-> "running", entry |-> Head.id,
                             work |-> Head.rec.work, alive |-> TRUE,
                             old |-> FALSE, conf |-> FALSE]]
            BY <2>3 DEF CreateRun
        <3> QED BY <2>1, <2>2, <2>3, <3>1, QueueAssumption
                DEF OriginInv, Unborn, Shape, TypeOK, RunsType
    <2> QED BY <2>1, <2>3, RunsStay, QueueAssumption DEF OriginInv, Unborn
<1>7. Unborn'
    BY <1>2, <1>5, <1>6, OriginStays DEF Unborn
<1> QED
    BY <1>1, <1>2, <1>3, <1>4, <1>5, <1>7, AncestryStays DEF OriginInv, Known, SameTask

LEMMA OriginInit == Init => OriginInv
<1> SUFFICES ASSUME Init PROVE OriginInv
    OBVIOUS
<1>1. /\ lp = "idle" /\ snap = {} /\ todo = {} /\ api = NoCall /\ born = 0
      /\ runs = [r \in Run |-> [st |-> "none", entry |-> 0, work |-> CHOOSE v \in Work : TRUE,
                                alive |-> FALSE, old |-> FALSE, conf |-> FALSE]]
      /\ store = [e \in Entry |-> Blank(CHOOSE v \in Work : TRUE)]
    BY Zenon DEF Init
<1> QED
    BY <1>1, InitShape
       DEF OriginInv, Known, Unborn, Ancestry, NoCall, Rewrites, Holding, UpdateLabels,
           Blank, Entry

LEMMA OriginAlways == Spec => []OriginInv
BY OriginInit, OriginStep, PTL DEF Spec

----------------------------------------------------------------------------
(* A second chance waits for the worker it replaces.                       *)

\* The gate was passed with the worker dead, and stays so until create_run;
\* a run slot a restart successor refers to is never given to another run.
Chances == /\ lp = "launch" /\ Head.rec.intr # 0 => ~runs[Head.rec.intr].alive
           /\ \A r \in ActiveRuns, e \in 1..born :
                 e = runs[r].entry /\ store[e].intr # 0 => ~runs[store[e].intr].alive

\* create_run adds a run of the entry that passed the gate.
LEMMA ChanceTaken ==
    ASSUME OriginInv, Chances, CreateRun
    PROVE  Chances'
<1>1. PICK r \in Run : /\ \A e \in Entry : store[e].intr # r
                       /\ runs' = [runs EXCEPT ![r] =
                            [st |-> "running", entry |-> Head.id,
                             work |-> Head.rec.work, alive |-> TRUE,
                             old |-> FALSE, conf |-> FALSE]]
    BY DEF CreateRun, Unused
<1>2. /\ runs \in [Run -> Runs] /\ lp = "launch" /\ lp' = "claim" /\ UNCHANGED queue
      /\ born \in 0..MaxEntries /\ store \in [Entry -> Entries]
    BY DEF CreateRun, Goto, OriginInv, Shape, TypeOK, RunsType, StoreType
<1>3. Head \in snap /\ SameTask(Head)
    BY HeadOfSnap, <1>2 DEF OriginInv, Shape, PassShape, LaunchLabels, Known
<1>4. store[Head.id].intr = Head.rec.intr
    BY <1>3, OriginIs DEF SameTask
<1>5. ASSUME NEW q \in ActiveRuns', NEW e \in 1..born, e = runs'[q].entry, store[e].intr # 0
      PROVE  ~runs'[store[e].intr].alive
    <2>0. e \in Entry /\ store[e] \in Entries
        BY <1>2, <1>5, QueueAssumption DEF Entry
    <2>1. store[e].intr \in Run /\ store[e].intr # r
        BY <1>1, <1>5, <2>0, QueueAssumption DEF Entries, Run
    <2>2. runs'[store[e].intr] = runs[store[e].intr]
        BY <1>1, <1>2, <2>1
    <2>3. CASE q = r
        BY <1>1, <1>2, <1>4, <1>5, <2>2, <2>3 DEF Chances
    <2>4. CASE q # r
        BY <1>1, <1>2, <1>5, <2>2, <2>4 DEF Chances, ActiveRuns
    <2> QED BY <2>3, <2>4
<1> QED BY <1>2, <1>5 DEF Chances, queue

LEMMA ChanceStep ==
    ASSUME OriginInv, Chances, [Next]_vars
    PROVE  Chances'
<1>1. CASE ~CreateRun
    <2>1. /\ ActiveRuns' \subseteq ActiveRuns /\ ActiveRuns \subseteq Run
          /\ \A r \in Run : /\ runs'[r].entry = runs[r].entry
                            /\ runs'[r].alive => runs[r].alive
        BY <1>1, NoNewRun, RunsStay DEF OriginInv, ActiveRuns
    <2>2. UNCHANGED queue \/ Rewrite \/ Added
        <3>1. CASE Environment \/ UNCHANGED vars
            BY <3>1 DEF Environment, Restart, RunEnds, LingererExits, vars, queue
        <3> QED BY <3>1, LauncherQueue, ApiQueue DEF Next
    <2>3. /\ 1..born \subseteq 1..born' /\ born \in 0..MaxEntries
          /\ \A e \in 1..born : store'[e].intr = store[e].intr
        BY <2>2, OriginStays, OriginIs DEF OriginInv, Shape, TypeOK, StoreType
    <2>4. ASSUME NEW r \in ActiveRuns', NEW e \in 1..born', e = runs'[r].entry,
                 store'[e].intr # 0
          PROVE  ~runs'[store'[e].intr].alive
        <3>1. e \in 1..born /\ e = runs[r].entry
            BY <2>1, <2>3, <2>4 DEF OriginInv, Unborn
        <3>2. store[e].intr \in Run
            BY <2>3, <2>4, <3>1, BornIs, QueueAssumption DEF Entries, Run, Entry
        <3> QED BY <2>1, <2>3, <2>4, <3>1, <3>2 DEF Chances
    <2>5. ASSUME lp' = "launch", Head'.rec.intr # 0
          PROVE  ~runs'[Head'.rec.intr].alive
        <3>1. \/ lp = "launch" /\ UNCHANGED <<lp, snap>>
              \/ Accept
            BY <1>1, <2>5
               DEF Next, LauncherStep, PassBegin, ReadActive, ListLaunched,
                   StopOverrun, LimitWrite, LeaveLaunched, MarkEnded, MarkWrite, HandleRetry,
                   IntrWrite, Reconcile, SecondChance, LinkSuccessor, Touch, ReadCapacity,
                   Refuse, PassEnd, SkipGet, SkipWrite, SkipTouch, LaunchRefused,
                   CreateFails, FailWrite, FailRetry, Claim, ClaimWrite, Confirm,
                   LaunchTouch, Rollback, RollbackSkip, Revert, RollbackWrite, NextEntry,
                   CountLaunch, LeavePass, Goto, ApiStep, CreateCheck, CreateWrite,
                   PendingCheck, PriorityGet, PriorityWrite, EditWrite, DeleteFile,
                   LimitRead, LimitSet, SetDrain, KeepLauncher, Environment, Restart,
                   RunEnds, LingererExits, vars, pass
        <3>2. Head' = Head /\ Head.rec.intr # 0 /\ ~runs[Head.rec.intr].alive /\ snap # {}
            BY <2>5, <3>1
               DEF Accept, Eligible, Chances, Head, pass, OriginInv, Shape, PassShape,
                   LaunchLabels
        <3>3. Head.rec.intr \in Run
            BY <3>2, HeadOfSnap, QueueAssumption DEF OriginInv, Entries, Run
        <3> QED BY <2>1, <3>2, <3>3
    <2> QED BY <2>4, <2>5 DEF Chances
<1> QED BY <1>1, ChanceTaken

\* _interrupted_worker_alive_reason: whatever handlers, crashes and lingering
\* workers interleave with the pass, and whatever run slots are used again, the
\* successor of an interrupted run never runs beside that run's own worker.
THEOREM SecondChanceAlone == Spec => []SecondChanceWaits
<1>1. Init => Chances
    <2>1. Init => lp = "idle" /\ \A r \in Run : runs[r].st = "none"
        BY DEF Init
    <2> QED BY <2>1 DEF Chances, ActiveRuns, ActiveStates
<1>2. OriginInv /\ Chances /\ [Next]_vars => Chances'
    BY ChanceStep
<1>3. OriginInv /\ Chances => SecondChanceWaits
    BY BornIs DEF SecondChanceWaits, Chances, Present
<1> QED BY <1>1, <1>2, <1>3, OriginAlways, PTL DEF Spec

----------------------------------------------------------------------------
(* What follows holds as long as no handler writes back, or unlinks, an    *)
(* entry that the launcher may be at work on.  Then what the launcher      *)
(* holds is what is on disk, up to the writes of its own pass.             *)

QuietApi == ApiOps \subseteq {"create", "drain"}

\* Entry e has no successor.
Childless(e) == \A f \in 1..born : store[f].retryOf # e

\* The labels at which the visited entry is settled, and at which the file of
\* the head is no longer what was listed.
Settled == {"retry", "intrWrite", "recover", "secondChance", "link", "touch"}
Handled == {"failRetry", "confirm", "launchTouch", "rollback", "rollbackWrite"}

\* The lists are those on disk; files stay; the call in flight is a create.
Fresh ==
    /\ api.op = "create" => api.obj.rec.status = "pending" /\ api.obj.rec.intr = 0
    /\ api.op \in {"none", "create"}
    /\ \A e \in 1..born : store[e].status # "absent"
    /\ lp \notin UpdateLabels \cup {"update"} => todo = {}
    /\ \A o \in todo : /\ o.rec.status = "launched"
                       /\ o # Visiting \/ lp \notin Settled => store[o.id] = o.rec
    /\ \A o \in snap : /\ o.rec.status = "pending"
                       /\ o # Head \/ lp \notin Handled => store[o.id] = o.rec

\* What the launcher holds while it settles an entry, and while it launches one.
HeldSettling ==
    /\ lp \in UpdateLabels => obj.id = Visiting.id
    /\ lp = "limitWrite" => obj.rec.status = "launched" /\ obj.rec.run = Visiting.rec.run
    /\ lp = "markWrite" => obj.rec.status \in {"done", "failed"}
    /\ lp \in Settled => /\ store[obj.id].status \in {"done", "failed"}
                         /\ obj.rec.status = store[obj.id].status
                         /\ obj.rec.cause = store[obj.id].cause
    /\ lp \in {"retry", "intrWrite", "recover", "secondChance"} => Childless(obj.id)
    /\ lp \in {"recover", "secondChance"} => obj.rec.cause = "restart"
    /\ lp = "secondChance" => obj.rec.intr = 0

HeldLaunching ==
    /\ lp \in Holding \ UpdateLabels => obj.id = Head.id
    /\ lp \in {"skipWrite", "skipTouch", "confirm", "launchTouch"} => obj.rec = store[obj.id]
    /\ lp = "failWrite" => obj.rec.status = "failed"
    /\ lp = "failRetry" => Childless(obj.id)
    /\ lp \in {"claimWrite", "confirm", "launchTouch"} =>
           obj.rec.status = "launched" /\ obj.rec.run = newrun
    /\ lp \in {"rollback", "rollbackWrite"} => store[Head.id].status = "launched"
    /\ lp = "rollbackWrite" => obj.rec.status = "pending"
    /\ lp # "rollbackSkip"

\* A successor is of an entry that failed, and is its only one; that of an
\* interrupted run is of one that was no second chance itself.
Lines == \A f \in 1..born :
    /\ store[f].retryOf # 0 =>
           /\ store[store[f].retryOf].status = "failed"
           /\ \A g \in 1..born : store[g].retryOf = store[f].retryOf => f = g
    /\ store[f].intr # 0 => /\ store[f].retryOf # 0
                            /\ store[store[f].retryOf].cause = "restart"
                            /\ store[store[f].retryOf].intr = 0

FreshInv == OriginInv /\ Fresh /\ HeldSettling /\ HeldLaunching /\ Lines

\* A write that gives no life back to an entry, nor loses its interruption.
Written == /\ born' = born
           /\ \E i \in 1..born : \E rec \in Entries :
                 /\ store' = [store EXCEPT ![i] = rec] /\ Origin(rec) = Origin(store[i])
                 /\ rec.status # "absent"
                 /\ rec.status \in NonTerminal => store[i].status \in NonTerminal
                 /\ store[i].status = "failed" =>
                       /\ rec.status = "failed"
                       /\ store[i].cause = "restart" => rec.cause = "restart"

\* A new entry is a task that was asked for, or the first successor.
Successor(q) == /\ q.retryOf \in 1..born /\ ~q.keyed /\ Childless(q.retryOf)
                /\ store[q.retryOf].status = "failed"
                /\ q.intr # 0 => /\ store[q.retryOf].cause = "restart"
                                 /\ store[q.retryOf].intr = 0
Grown == \E q \in Entries :
    /\ Appended(q) /\ q.status = "pending"
    /\ \/ q.retryOf = 0 /\ q.intr = 0 /\ CreateWrite /\ q = api.obj.rec
       \/ Successor(q)

\* The launcher writes what it holds.
LEMMA PutWritten ==
    ASSUME FreshInv, NEW o \in Objects, SameTask(o), Put(o), born' = born,
           o.rec.status # "absent",
           o.rec.status \in NonTerminal => store[o.id].status \in NonTerminal,
           store[o.id].status = "failed" =>
               o.rec.status = "failed" /\ (store[o.id].cause = "restart" => o.rec.cause = "restart")
    PROVE  Written
BY DEF SameTask, Put, Written, Objects

\* What is visited, and the head, on disk.
LEMMA OnDisk ==
    ASSUME FreshInv
    PROVE  /\ todo # {} => /\ Visiting \in todo /\ Visiting.id \in 1..born
                           /\ Visiting.id \in Entry /\ Visiting.rec.status = "launched"
                           /\ lp \notin Settled => store[Visiting.id] = Visiting.rec
           /\ snap # {} => /\ Head \in snap /\ Head.id \in 1..born
                           /\ Head.id \in Entry /\ Head.rec.status = "pending"
                           /\ lp \notin Handled => store[Head.id] = Head.rec
           /\ lp \in UpdateLabels => todo # {}
           /\ lp \in LaunchLabels => snap # {}
           /\ lp \in Holding => SameTask(obj)
BY Visit, HeadOfSnap DEF FreshInv, OriginInv, Known, Fresh, SameTask, Shape, PassShape

LEMMA QuietQueue ==
    ASSUME FreshInv, [Next]_vars
    PROVE  UNCHANGED queue \/ Written \/ Grown
<1> USE DEF NonTerminal, Goto
<1>0. /\ obj \in Objects /\ (lp \in Holding => SameTask(obj))
      /\ \A e \in 1..born : store[e] \in Entries
    BY QueueAssumption, BornIs
       DEF FreshInv, OriginInv, Shape, TypeOK, PassType, Known, Entry, StoreType
<1>1. CASE LimitWrite \/ MarkWrite
    <2>1. Put(obj) /\ born' = born /\ lp \in {"limitWrite", "markWrite"}
        BY <1>1 DEF LimitWrite, MarkWrite
    <2>2. /\ lp \in Holding /\ lp \notin Settled /\ lp \in UpdateLabels
          /\ obj.id = Visiting.id /\ obj.rec.status \in {"launched", "done", "failed"}
        BY <2>1 DEF FreshInv, HeldSettling, Holding, UpdateLabels, Settled
    <2>3. store[obj.id].status = "launched"
        BY <2>2, OnDisk
    <2> QED BY <1>0, <2>1, <2>2, <2>3, PutWritten
<1>2. CASE LinkSuccessor \/ Touch
    <2>1. Put(obj) /\ born' = born /\ lp \in {"link", "touch"}
        BY <1>2 DEF LinkSuccessor, Touch
    <2>2. /\ lp \in Holding /\ store[obj.id].status \in {"done", "failed"}
          /\ obj.rec.status = store[obj.id].status /\ obj.rec.cause = store[obj.id].cause
        BY <2>1 DEF FreshInv, HeldSettling, Holding, UpdateLabels, Settled
    <2> QED BY <1>0, <2>1, <2>2, PutWritten
<1>3. CASE SkipWrite \/ SkipTouch \/ LaunchTouch
    <2>1. Put(obj) /\ born' = born /\ lp \in {"skipWrite", "skipTouch", "launchTouch"}
        BY <1>3 DEF SkipWrite, SkipTouch, LaunchTouch
    <2>2. lp \in Holding /\ obj.rec = store[obj.id]
        BY <2>1 DEF FreshInv, HeldLaunching, Holding
    <2>3. obj.rec.status # "absent"
        BY <1>0, <2>2 DEF FreshInv, Fresh, SameTask
    <2> QED BY <1>0, <2>1, <2>2, <2>3, PutWritten
<1>4. CASE FailWrite \/ ClaimWrite
    <2>1. Put(obj) /\ born' = born /\ lp \in {"failWrite", "claimWrite"}
        BY <1>4 DEF FailWrite, ClaimWrite
    <2>2. /\ lp \in Holding /\ lp \notin Handled /\ lp \in LaunchLabels
          /\ obj.id = Head.id /\ obj.rec.status \in {"failed", "launched"}
        BY <2>1 DEF FreshInv, HeldLaunching, Holding, UpdateLabels, Handled, LaunchLabels
    <2>3. store[obj.id].status = "pending"
        BY <2>2, OnDisk
    <2> QED BY <1>0, <2>1, <2>2, <2>3, PutWritten
<1>5. CASE RollbackWrite
    <2>1. Put(obj) /\ born' = born /\ lp = "rollbackWrite"
        BY <1>5 DEF RollbackWrite
    <2>2. lp \in Holding /\ store[obj.id].status = "launched" /\ obj.rec.status = "pending"
        BY <2>1 DEF FreshInv, HeldLaunching, Holding, UpdateLabels
    <2> QED BY <1>0, <2>1, <2>2, PutWritten
<1>6. CASE IntrWrite \/ Reconcile
    <2>0. lp \in Holding /\ lp \in Settled /\ "restart" \in Causes
        BY <1>6 DEF IntrWrite, Reconcile, Holding, UpdateLabels, Settled, Causes
    <2>1. \/ UNCHANGED queue
          \/ born' = born /\ Put(With(obj, [obj.rec EXCEPT !.cause = "restart"]))
          \/ born' = born /\ Put(With(obj, [obj.rec EXCEPT !.review = TRUE]))
        BY <1>6, Zenon DEF IntrWrite, Reconcile, queue
    <2>2. ASSUME NEW p, Update(obj, p, obj.rec.status, obj.rec.run, obj.rec.cause)
                        \/ Update(obj, p, obj.rec.status, obj.rec.run, "restart"),
                 Put(p), born' = born
          PROVE  Written
        <3>1. /\ store[obj.id].status \in {"done", "failed"}
              /\ obj.rec.status = store[obj.id].status /\ obj.rec.cause = store[obj.id].cause
            BY <2>0 DEF FreshInv, HeldSettling
        <3>2. /\ p \in Objects /\ p.id = obj.id /\ SameTask(p) /\ p.rec.status = obj.rec.status
              /\ p.rec.cause \in {obj.rec.cause, "restart"}
            BY <1>0, <2>0, <2>2 DEF Update, Like, SameTask
        <3> QED BY <2>2, <3>1, <3>2, PutWritten
    <2>3. /\ Update(obj, With(obj, [obj.rec EXCEPT !.cause = "restart"]),
                    obj.rec.status, obj.rec.run, "restart")
          /\ Update(obj, With(obj, [obj.rec EXCEPT !.review = TRUE]),
                    obj.rec.status, obj.rec.run, obj.rec.cause)
        BY <1>0, <2>0, UpdatedObject, Zenon
    <2> QED BY <2>1, <2>2, <2>3, Zenon
<1>7. CASE HandleRetry \/ FailRetry \/ SecondChance
    <2>1. lp \in Holding /\ obj.id \in 1..born /\ Childless(obj.id)
        BY <1>0, <1>7 DEF HandleRetry, FailRetry, SecondChance, Holding, UpdateLabels, SameTask,
                          FreshInv, HeldSettling, HeldLaunching
    <2>2. obj.rec.run \in 0..MaxRuns /\ "backend" \in Causes /\ "restart" \in Causes
          /\ 0 \in 0..MaxRuns
        BY <1>0, QueueAssumption DEF Objects, Entries, Causes
    <2>3. \/ UNCHANGED queue
          \/ CanRequeue(obj.id) /\ Requeue(obj.id, "backend", 0)
          \/ SecondChance /\ CanRequeue(obj.id) /\ Requeue(obj.id, "restart", obj.rec.run)
        BY <1>7, Zenon DEF HandleRetry, FailRetry, SecondChance
    <2>4. ASSUME NEW c \in Causes, NEW i \in 0..MaxRuns, CanRequeue(obj.id),
                 Requeue(obj.id, c, i),
                 i # 0 => store[obj.id].cause = "restart" /\ store[obj.id].intr = 0
          PROVE  Grown
        <3>1. PICK q \in Entries :
                /\ Appended(q) /\ q.retryOf = obj.id /\ q.intr = i
                /\ q.status = "pending" /\ ~q.keyed
            BY <2>1, <2>4, RequeueIs DEF FreshInv
        <3>2. store[obj.id].status = "failed"
            BY <2>4 DEF CanRequeue
        <3> QED BY <2>1, <2>4, <3>1, <3>2 DEF Grown, Successor
    <2>5. SecondChance => store[obj.id].cause = "restart" /\ store[obj.id].intr = 0
        <3>1. SecondChance => /\ obj.rec.cause = "restart" /\ obj.rec.intr = 0
                              /\ obj.rec.cause = store[obj.id].cause
            BY DEF SecondChance, FreshInv, HeldSettling, Settled
        <3>2. obj.rec.intr = store[obj.id].intr
            BY <1>0, <2>1, OriginIs DEF SameTask
        <3> QED BY <3>1, <3>2
    <2> QED BY <2>2, <2>3, <2>4, <2>5
<1>8. CASE LauncherStep /\ ~(\/ LimitWrite \/ MarkWrite \/ LinkSuccessor \/ Touch \/ SkipWrite
          \/ SkipTouch \/ LaunchTouch \/ FailWrite \/ ClaimWrite \/ RollbackWrite \/ IntrWrite
          \/ Reconcile \/ HandleRetry \/ FailRetry \/ SecondChance)
    BY <1>8 DEF LauncherStep, PassBegin, ReadActive, ListLaunched, StopOverrun,
           LeaveLaunched, MarkEnded, ReadCapacity, Refuse, Accept, PassEnd,
           SkipGet, LaunchRefused, CreateRun, CreateFails, Claim, Confirm,
           Rollback, Revert, RollbackSkip, FreshInv, HeldLaunching
<1>9. CASE CreateWrite
    <2> DEFINE o == [api.obj EXCEPT !.id = born + 1]
    <2>0. api.obj \in Objects
        BY DEF FreshInv, OriginInv, Shape, TypeOK, CallType
    <2>1. o.id = born + 1 /\ o.rec = api.obj.rec /\ api.obj.rec \in Entries
        BY <2>0, Zenon DEF Objects
    <2>2. store' = [store EXCEPT ![o.id] = o.rec] /\ born' = born + 1 /\ born < MaxEntries
          /\ api.op = "create"
        BY <1>9, Zenon DEF CreateWrite, Put
    <2> HIDE DEF o
    <2> QED BY <1>9, <2>1, <2>2 DEF Grown, Appended, FreshInv, OriginInv, Unborn, Fresh
<1>10. CASE ApiStep /\ ~CreateWrite
    BY <1>10 DEF ApiStep, CreateCheck, PendingCheck, PriorityGet, PriorityWrite, EditWrite,
          DeleteFile, LimitRead, LimitSet, SetDrain, FreshInv, Fresh, queue
<1>11. CASE Environment \/ UNCHANGED vars
    BY <1>11 DEF Environment, Restart, RunEnds, LingererExits, vars, queue
<1> QED
    BY <1>1, <1>2, <1>3, <1>4, <1>5, <1>6, <1>7, <1>8, <1>9, <1>10, <1>11 DEF Next

\* What every step leaves of an entry.
LEMMA QuietStays ==
    ASSUME FreshInv, [Next]_vars
    PROVE  /\ 1..born \subseteq 1..born' /\ born' \in {born, born + 1} /\ born \in 0..MaxEntries
           /\ \A e \in 1..born :
                 /\ store'[e].work = store[e].work /\ store'[e].keyed = store[e].keyed
                 /\ store'[e].retryOf = store[e].retryOf /\ store'[e].intr = store[e].intr
                 /\ store'[e].status \in NonTerminal => store[e].status \in NonTerminal
                 /\ store[e].status = "failed" => store'[e].status = "failed"
                 /\ store[e].status = "failed" /\ store[e].cause = "restart" =>
                       store'[e].cause = "restart"
           /\ \A e \in 1..born' : store'[e].status # "absent"
           /\ born' # born => Grown
<1>0. /\ born \in 0..MaxEntries /\ store \in [Entry -> Entries]
      /\ \A e \in 1..born : store[e].status # "absent" /\ e \in Entry
    BY QueueAssumption DEF FreshInv, OriginInv, Shape, TypeOK, StoreType, Fresh, Entry
<1>1. CASE UNCHANGED queue
    BY <1>0, <1>1 DEF queue
<1>2. CASE Written
    <2>1. PICK i \in 1..born, rec \in Entries :
                 /\ store' = [store EXCEPT ![i] = rec] /\ Origin(rec) = Origin(store[i])
                 /\ rec.status # "absent"
                 /\ rec.status \in NonTerminal => store[i].status \in NonTerminal
                 /\ store[i].status = "failed" =>
                       /\ rec.status = "failed"
                       /\ store[i].cause = "restart" => rec.cause = "restart"
        BY <1>2 DEF Written
    <2>2. \A e \in 1..born : store'[e] = IF e = i THEN rec ELSE store[e]
        BY <1>0, <2>1
    <2>3. /\ rec.work = store[i].work /\ rec.keyed = store[i].keyed
          /\ rec.retryOf = store[i].retryOf /\ rec.intr = store[i].intr
        BY <2>1, OriginIs
    <2> QED BY <1>0, <1>2, <2>1, <2>2, <2>3 DEF Written
<1>3. CASE Grown
    <2>1. PICK q \in Entries : Appended(q) /\ q.status = "pending"
        BY <1>3 DEF Grown
    <2>2. \A e \in 1..born : store'[e] = store[e]
        BY <1>0, <2>1 DEF Appended
    <2>3. store'[born + 1] = q /\ born' = born + 1
        BY <1>0, <2>1, QueueAssumption DEF Appended, Entry
    <2> QED BY <1>0, <1>3, <2>1, <2>2, <2>3
<1> QED BY <1>1, <1>2, <1>3, QuietQueue

\* Lineages stay lines.
LEMMA LinesStay ==
    ASSUME FreshInv, [Next]_vars
    PROVE  Lines'
<1>0. /\ Lines /\ born \in 0..MaxEntries /\ store \in [Entry -> Entries]
      /\ \A e \in 1..born : store[e].retryOf # 0 => store[e].retryOf \in 1..born
    BY DEF FreshInv, OriginInv, Shape, TypeOK, StoreType, Ancestry
<1>1. \A e \in 1..born :
          /\ store'[e].retryOf = store[e].retryOf /\ store'[e].intr = store[e].intr
          /\ store[e].status = "failed" => store'[e].status = "failed"
          /\ store[e].status = "failed" /\ store[e].cause = "restart" =>
                       store'[e].cause = "restart"
    BY QuietStays
<1>2. CASE born' = born
    BY <1>0, <1>1, <1>2 DEF Lines
<1>3. CASE Grown
    <2>1. PICK q \in Entries :
             Appended(q) /\ ((q.retryOf = 0 /\ q.intr = 0) \/ Successor(q))
        BY <1>3 DEF Grown
    <2>2. /\ store'[born + 1] = q /\ born' = born + 1
          /\ \A e \in 1..born' : e \in 1..born \/ e = born + 1
        BY <1>0, <2>1, QueueAssumption DEF Appended, Entry
    <2>3. ASSUME NEW f \in 1..born', store'[f].retryOf # 0
          PROVE  /\ store'[store'[f].retryOf].status = "failed"
                 /\ \A g \in 1..born' : store'[g].retryOf = store'[f].retryOf => f = g
        BY <1>0, <1>1, <2>1, <2>2, <2>3 DEF Lines, Successor, Childless
    <2>4. ASSUME NEW f \in 1..born', store'[f].intr # 0
          PROVE  /\ store'[f].retryOf # 0
                 /\ store'[store'[f].retryOf].cause = "restart"
                 /\ store'[store'[f].retryOf].intr = 0
        BY <1>0, <1>1, <2>1, <2>2, <2>4 DEF Lines, Successor
    <2> QED BY <2>3, <2>4 DEF Lines
<1> QED BY <1>2, <1>3, QuietStays

\* Only the launcher writes an entry that exists, and only the one it holds.
LEMMA WritesOwn ==
    ASSUME FreshInv, [Next]_vars, NEW e \in 1..born, store'[e] # store[e]
    PROVE  LauncherStep /\ lp \in Holding /\ e = obj.id
<1>0. /\ born \in 0..MaxEntries /\ e \in Entry /\ store \in [Entry -> Entries]
    BY QueueAssumption DEF FreshInv, OriginInv, Shape, TypeOK, StoreType, Entry
<1>1. CASE born' # born
    BY <1>0, <1>1, QuietStays DEF Grown, Appended
<1>2. CASE LauncherStep /\ born' = born
    <2>1. CASE IntrWrite \/ Reconcile
        <3>1. lp \in Holding
            BY <2>1 DEF IntrWrite, Reconcile, Holding, UpdateLabels
        <3>2. obj'.id = obj.id /\ (UNCHANGED store \/ Put(obj'))
            <4>1. "restart" \in Causes /\ obj \in Objects
                BY DEF Causes, FreshInv, OriginInv, Shape, TypeOK, PassType
            <4>2. \/ obj' = obj \/ obj' = With(obj, [obj.rec EXCEPT !.cause = "restart"])
                  \/ obj' = With(obj, [obj.rec EXCEPT !.review = TRUE])
                BY <2>1, Zenon DEF IntrWrite, Reconcile
            <4>3. obj'.id = obj.id
                <5>1. /\ Update(obj, With(obj, [obj.rec EXCEPT !.cause = "restart"]),
                                obj.rec.status, obj.rec.run, "restart")
                      /\ Update(obj, With(obj, [obj.rec EXCEPT !.review = TRUE]),
                                obj.rec.status, obj.rec.run, obj.rec.cause)
                    BY <4>1, UpdatedObject, Zenon
                <5>2. /\ With(obj, [obj.rec EXCEPT !.cause = "restart"]).id = obj.id
                      /\ With(obj, [obj.rec EXCEPT !.review = TRUE]).id = obj.id
                    BY <5>1, Zenon DEF Update
                <5> QED BY <4>2, <5>2, Zenon
            <4>4. UNCHANGED store \/ Put(obj')
                BY <2>1, Zenon DEF IntrWrite, Reconcile
            <4> QED BY <4>3, <4>4
        <3> QED BY <1>0, <1>2, <3>1, <3>2 DEF Put
    <2>2. CASE HandleRetry \/ SecondChance \/ FailRetry
        BY <1>0, <1>2, <2>2 DEF HandleRetry, SecondChance, FailRetry, Requeue, queue
    <2>3. CASE ~(IntrWrite \/ Reconcile \/ HandleRetry \/ SecondChance \/ FailRetry)
        <3>1. UNCHANGED store \/ (Put(obj) /\ lp \in Holding)
            BY <1>2, <2>3 DEF LauncherStep, PassBegin, ReadActive, ListLaunched,
                   StopOverrun, LimitWrite, LeaveLaunched, MarkEnded, MarkWrite,
                   LinkSuccessor, Touch, ReadCapacity,
                   Refuse, Accept, PassEnd, SkipGet, SkipWrite, SkipTouch, LaunchRefused,
                   CreateRun, CreateFails, FailWrite, Claim, ClaimWrite, Confirm,
                   LaunchTouch, Rollback, RollbackSkip, Revert, RollbackWrite, Holding,
                   UpdateLabels, queue
        <3> QED BY <1>0, <1>2, <3>1 DEF Put
    <2> QED BY <2>1, <2>2, <2>3
<1>3. CASE ApiStep /\ born' = born
    <2>1. ~CreateWrite
        BY <1>0, <1>3 DEF CreateWrite
    <2>2. api.op \in {"none", "create"}
        BY DEF FreshInv, Fresh
    <2>3. store' = store
        BY <1>3, <2>1, <2>2
           DEF ApiStep, CreateCheck, PendingCheck, PriorityGet, PriorityWrite, EditWrite,
               DeleteFile, LimitRead, LimitSet, SetDrain, queue
    <2> QED BY <2>3
<1>4. CASE Environment \/ UNCHANGED vars
    BY <1>4 DEF Environment, Restart, RunEnds, LingererExits, vars, queue
<1> QED BY <1>1, <1>2, <1>3, <1>4 DEF Next

\* A handler runs beside the pass, and is a create.
LEMMA QuietCall ==
    ASSUME QuietApi, FreshInv, ApiStep
    PROVE  /\ UNCHANGED <<lp, pass, runs, crashes>>
           /\ api'.op \in {"none", "create"}
           /\ api'.op = "create" => /\ api'.obj.rec.status = "pending"
                                    /\ api'.obj.rec.intr = 0
                                    /\ \/ api' = api
                                       \/ ~Duplicate(api'.obj.rec.work, api'.obj.rec.keyed)
<1>1. ASSUME NEW w \in Work, NEW keyed \in Keyed, CreateCheck(w, keyed)
      PROVE  /\ api'.op = "create" /\ api'.obj.rec.status = "pending"
             /\ api'.obj.rec.intr = 0 /\ api'.obj.rec.work = w /\ api'.obj.rec.keyed = keyed
    <2> DEFINE fresh == [Blank(w) EXCEPT !.status = "pending", !.keyed = keyed]
    <2>1. /\ fresh.status = "pending" /\ fresh.intr = 0 /\ fresh.work = w
          /\ fresh.keyed = keyed
        BY DEF Blank
    <2>2. api' = [op |-> "create", obj |-> [id |-> 0, rec |-> fresh]]
        BY <1>1, Zenon DEF CreateCheck, Call
    <2> HIDE DEF fresh
    <2> QED BY <2>1, <2>2
<1>2. ASSUME NEW w \in Work, NEW keyed \in Keyed, CreateCheck(w, keyed)
      PROVE  ~Duplicate(api'.obj.rec.work, api'.obj.rec.keyed)
    <2>1. ~Duplicate(w, keyed)
        BY <1>2 DEF CreateCheck
    <2> QED BY <1>1, <1>2, <2>1, Zenon
<1>3. UNCHANGED <<lp, pass, runs, crashes>>
    BY DEF ApiStep, CreateCheck, CreateWrite, PendingCheck, PriorityGet, PriorityWrite,
           EditWrite, DeleteFile, LimitRead, LimitSet, SetDrain, KeepLauncher
<1>4. api.op \in {"none", "create"} /\ NoCall.op = "none"
    BY DEF FreshInv, Fresh, NoCall
<1>5. \/ \E w \in Work, keyed \in Keyed : CreateCheck(w, keyed)
      \/ api' = NoCall \/ api' = api
    BY <1>4 DEF ApiStep, CreateWrite, PendingCheck, PriorityGet, PriorityWrite,
           EditWrite, DeleteFile, LimitRead, LimitSet, SetDrain, QuietApi
<1> QED BY <1>1, <1>2, <1>3, <1>4, <1>5 DEF FreshInv, Fresh

\* How the list of the first half shrinks.
LEMMA TodoSteps ==
    ASSUME FreshInv, LauncherStep
    PROVE  \/ todo' = {}
           \/ ListLaunched
           \/ lp \in UpdateLabels \cup {"update"} /\ Visited /\ lp' = "update"
           \/ lp = "update" /\ todo' = todo /\ (lp' \in UpdateLabels \/ todo = {})
           \/ lp \in UpdateLabels /\ todo' = todo /\ lp' \in Settled
BY Zenon DEF Fresh, FreshInv, Goto, UpdateLabels, Settled,
       LauncherStep, PassBegin, ReadActive, StopOverrun, LimitWrite, LeaveLaunched, MarkEnded,
       MarkWrite, HandleRetry, IntrWrite, Reconcile, SecondChance, LinkSuccessor, Touch,
       ReadCapacity, Refuse, Accept, PassEnd, SkipGet, SkipWrite, SkipTouch, LaunchRefused,
       CreateRun, CreateFails, FailWrite, FailRetry, Claim, ClaimWrite, Confirm, LaunchTouch,
       Rollback, RollbackSkip, Revert, RollbackWrite, NextEntry, CountLaunch, LeavePass, pass

\* How the list of the second half shrinks.
LEMMA SnapSteps ==
    ASSUME FreshInv, LauncherStep
    PROVE  \/ snap' = {}
           \/ PassBegin
           \/ lp \in LaunchLabels /\ snap' = snap \ {Head} /\ lp' = "loop"
           \/ /\ snap' = snap
              /\ lp \in Handled => lp' \in Handled
              /\ lp \in Holding \ UpdateLabels => lp' \in Handled \/ SkipWrite
<1> USE DEF Goto, UpdateLabels, LaunchLabels, Handled, Holding
<1>1. CASE Rollback
    <2>1. store[Head.id].status = "launched" /\ snap' = snap /\ lp = "confirm"
        BY <1>1 DEF Rollback, FreshInv, HeldLaunching
    <2> QED BY <1>1, <2>1 DEF Rollback
<1>2. CASE \/ SkipGet \/ SkipWrite \/ SkipTouch \/ LaunchRefused \/ CreateRun \/ CreateFails
          \/ FailWrite \/ FailRetry \/ Claim \/ ClaimWrite \/ Confirm \/ LaunchTouch
          \/ RollbackSkip \/ Revert \/ RollbackWrite
    BY <1>2, Zenon
       DEF FreshInv, HeldLaunching, SkipGet, SkipTouch, SkipWrite, LaunchRefused,
           CreateRun, CreateFails, FailWrite, FailRetry, Claim, ClaimWrite, Confirm, LaunchTouch,
           RollbackSkip, Revert, RollbackWrite, NextEntry, CountLaunch, LeavePass, pass
<1>3. CASE \/ ReadActive \/ ListLaunched \/ StopOverrun \/ LimitWrite \/ LeaveLaunched \/ MarkEnded
          \/ MarkWrite \/ HandleRetry \/ IntrWrite \/ Reconcile \/ SecondChance \/ LinkSuccessor
          \/ Touch \/ ReadCapacity \/ Refuse \/ Accept \/ PassEnd
    <2>1. /\ snap' = {} \/ snap' = snap
          /\ lp \in UpdateLabels \cup {"active", "list", "update", "loop"}
        BY <1>3
           DEF ReadActive, ListLaunched, StopOverrun, LimitWrite, LeaveLaunched, MarkEnded,
               MarkWrite, HandleRetry, IntrWrite, Reconcile, SecondChance, LinkSuccessor, Touch,
               ReadCapacity, Refuse, Accept, PassEnd, LeavePass, pass
    <2> QED BY <2>1
<1> QED BY <1>1, <1>2, <1>3 DEF LauncherStep

\* A write of the pass is of the entry it settles, or of the one it launches.
LEMMA WritesWhich ==
    ASSUME FreshInv, [Next]_vars, NEW e \in 1..born, store'[e] # store[e]
    PROVE  \/ lp \in UpdateLabels /\ e = Visiting.id
           \/ lp \in Holding \ UpdateLabels /\ e = Head.id
BY WritesOwn DEF FreshInv, HeldSettling, HeldLaunching

\* The launched entries the pass has still to visit are as they were listed.
LEMMA FreshTodo ==
    ASSUME FreshInv, LauncherStep
    PROVE  /\ lp' \notin UpdateLabels \cup {"update"} => todo' = {}
           /\ \A o \in todo' : /\ o.rec.status = "launched"
                               /\ o # Visiting' \/ lp' \notin Settled => store'[o.id] = o.rec
<1>0. /\ \A o \in todo : /\ o.rec.status = "launched" /\ o.id \in 1..born
                         /\ o # Visiting \/ lp \notin Settled => store[o.id] = o.rec
      /\ \A o \in todo : o.id = Visiting.id => o = Visiting
      /\ lp \notin UpdateLabels \cup {"update"} => todo = {}
      /\ lp \notin Holding => \A e \in 1..born : store'[e] = store[e]
    <2>1. \A o \in todo : o.id = Visiting.id => o = Visiting
        BY OnDisk DEF FreshInv, OriginInv, Shape, PassShape, WellFormed
    <2>2. [Next]_vars
        BY DEF Next
    <2> QED BY <2>1, <2>2, WritesOwn DEF FreshInv, Fresh, OriginInv, Known, SameTask
<1>1. CASE todo' = {}
    BY <1>1
<1>2. CASE ListLaunched
    <2>1. /\ lp' = "update" /\ todo' \subseteq Listing("launched") /\ UNCHANGED store
        BY <1>2 DEF ListLaunched, Goto, queue
    <2>2. \A o \in Listing("launched") : o.rec.status = "launched" /\ store[o.id] = o.rec
        BY ObjectRead DEF Listing, FreshInv, OriginInv, Shape, TypeOK, StoreType
    <2> QED BY <2>1, <2>2
<1>3. CASE lp \in UpdateLabels \cup {"update"} /\ Visited /\ lp' = "update"
    <2>1. ASSUME NEW o \in todo'
          PROVE  o.rec.status = "launched" /\ store'[o.id] = o.rec
        <3>1. o \in todo /\ o # Visiting
            BY <1>3, <2>1 DEF Visited
        <3>2. o.id # Visiting.id /\ store[o.id] = o.rec /\ o.id \in 1..born
            BY <1>0, <3>1
        <3>3. [Next]_vars /\ lp \notin Holding \ UpdateLabels
            BY <1>3 DEF Next, Holding, UpdateLabels
        <3>4. store'[o.id] = store[o.id]
            BY <3>2, <3>3, WritesWhich
        <3> QED BY <1>0, <3>1, <3>2, <3>4
    <2> QED BY <1>3, <2>1
<1>4. CASE lp = "update" /\ todo' = todo /\ (lp' \in UpdateLabels \/ todo = {})
    BY <1>0, <1>4 DEF Holding, UpdateLabels, Settled
<1>5. CASE lp \in UpdateLabels /\ todo' = todo /\ lp' \in Settled
    <2>1. Visiting' = Visiting
        BY <1>5 DEF Visiting
    <2>2. [Next]_vars /\ lp \notin Holding \ UpdateLabels
        BY <1>5 DEF Next, Holding, UpdateLabels
    <2>3. ASSUME NEW o \in todo, o # Visiting
          PROVE  store'[o.id] = o.rec
        BY <1>0, <2>2, <2>3, WritesWhich
    <2>4. lp' \in UpdateLabels
        BY <1>5 DEF Settled, UpdateLabels
    <2> QED BY <1>0, <1>5, <2>1, <2>3, <2>4
<1> QED BY <1>1, <1>2, <1>3, <1>4, <1>5, TodoSteps

\* The pending entries the pass has still to visit are as they were listed.
LEMMA FreshSnap ==
    ASSUME FreshInv, LauncherStep
    PROVE  \A o \in snap' : /\ o.rec.status = "pending"
                            /\ o # Head' \/ lp' \notin Handled => store'[o.id] = o.rec
<1>0. /\ \A o \in snap : /\ o.rec.status = "pending" /\ o.id \in 1..born
                         /\ o # Head \/ lp \notin Handled => store[o.id] = o.rec
      /\ \A o \in snap : o.id = Head.id => o = Head
      /\ [Next]_vars
      /\ lp \in UpdateLabels => lp \notin Handled
    <2>1. \A o \in snap : o.id = Head.id => o = Head
        BY OnDisk DEF FreshInv, OriginInv, Shape, PassShape, WellFormed
    <2> QED BY <2>1 DEF FreshInv, Fresh, OriginInv, Known, SameTask, Next, UpdateLabels, Handled
<1>1. CASE snap' = {}
    BY <1>1
<1>2. CASE PassBegin
    <2>1. snap' = Listing("pending") /\ UNCHANGED store
        BY <1>2 DEF PassBegin, queue
    <2>2. \A o \in Listing("pending") : o.rec.status = "pending" /\ store[o.id] = o.rec
        BY ObjectRead DEF Listing, FreshInv, OriginInv, Shape, TypeOK, StoreType
    <2> QED BY <2>1, <2>2
<1>3. ASSUME NEW o \in snap, lp \in UpdateLabels, store[o.id] = o.rec
      PROVE  store'[o.id] = o.rec
    <2>1. store[Visiting.id].status # "pending"
        <3>1. CASE lp \in Settled
            BY <1>3, <3>1 DEF FreshInv, HeldSettling
        <3>2. CASE lp \notin Settled
            BY <1>3, <3>2, OnDisk
        <3> QED BY <3>1, <3>2
    <2> QED BY <1>0, <1>3, <2>1, WritesWhich
<1>4. ASSUME NEW o \in snap, o # Head, store[o.id] = o.rec
      PROVE  store'[o.id] = o.rec
    <2>1. CASE lp \in UpdateLabels
        BY <1>3, <1>4, <2>1
    <2>2. CASE lp \notin UpdateLabels
        BY <1>0, <1>4, <2>2, WritesWhich
    <2> QED BY <2>1, <2>2
<1>5. CASE lp \in LaunchLabels /\ snap' = snap \ {Head} /\ lp' = "loop"
    BY <1>0, <1>4, <1>5
<1>6. CASE /\ snap' = snap
           /\ lp \in Handled => lp' \in Handled
           /\ lp \in Holding \ UpdateLabels => lp' \in Handled \/ SkipWrite
    <2>1. Head' = Head
        BY <1>6 DEF Head
    <2>2. ASSUME lp' \notin Handled, snap # {}
          PROVE  store'[Head.id] = Head.rec
        <3>1. Head \in snap /\ store[Head.id] = Head.rec /\ Head.id \in 1..born
            BY <1>0, <1>6, <2>2, OnDisk
        <3>2. CASE lp \in UpdateLabels
            BY <1>3, <3>1, <3>2
        <3>3. CASE lp \notin Holding
            BY <1>0, <3>1, <3>3, WritesOwn
        <3>4. CASE SkipWrite
            <4>1. Put(obj) /\ obj.rec = store[obj.id]
                BY <3>4 DEF SkipWrite, FreshInv, HeldLaunching
            <4>2. store \in [Entry -> Entries]
                BY DEF FreshInv, OriginInv, Shape, TypeOK, StoreType
            <4>3. store' = store
                BY <4>1, <4>2 DEF Put
            <4> QED BY <3>1, <4>3
        <3> QED BY <1>6, <2>2, <3>2, <3>3, <3>4
    <2> QED BY <1>0, <1>4, <1>6, <2>1, <2>2
<1> QED BY <1>1, <1>2, <1>5, <1>6, SnapSteps

\* The environment leaves the files alone, and the pass, or ends it.
LEMMA QuietEnvironment ==
    ASSUME Environment \/ UNCHANGED vars
    PROVE  /\ UNCHANGED queue
           /\ \/ UNCHANGED <<lp, pass, api>>
              \/ /\ lp' = "idle" /\ snap' = {} /\ todo' = {} /\ newrun' = 0
                 /\ api' = NoCall /\ crashes < MaxCrashes
BY DEF Environment, Restart, LeavePass, Goto, RunEnds, LingererExits, vars, pass, rest, queue

LEMMA FreshStays ==
    ASSUME QuietApi, FreshInv, [Next]_vars
    PROVE  Fresh'
<1>1. \A e \in 1..born' : store'[e].status # "absent"
    BY QuietStays
<1>2. ASSUME UNCHANGED <<lp, pass>>, ~LauncherStep
      PROVE  /\ lp' \notin UpdateLabels \cup {"update"} => todo' = {}
             /\ \A o \in todo' : /\ o.rec.status = "launched"
                                 /\ o # Visiting' \/ lp' \notin Settled => store'[o.id] = o.rec
             /\ \A o \in snap' : /\ o.rec.status = "pending"
                                 /\ o # Head' \/ lp' \notin Handled => store'[o.id] = o.rec
    <2>1. \A o \in snap \cup todo : store'[o.id] = store[o.id]
        BY <1>2, WritesOwn DEF FreshInv, OriginInv, Known, SameTask
    <2>2. /\ snap' = snap /\ todo' = todo /\ lp' = lp
          /\ Head' = Head /\ Visiting' = Visiting
        BY <1>2 DEF pass, Head, Visiting
    <2> QED BY <2>1, <2>2 DEF FreshInv, Fresh
<1>3. CASE LauncherStep
    <2>1. api' = api
        BY <1>3
           DEF LauncherStep, PassBegin, ReadActive, ListLaunched, StopOverrun, LimitWrite,
               LeaveLaunched, MarkEnded, MarkWrite, HandleRetry, IntrWrite, Reconcile,
               SecondChance, LinkSuccessor, Touch, ReadCapacity, Refuse, Accept, PassEnd,
               SkipGet, SkipWrite, SkipTouch, LaunchRefused, CreateRun, CreateFails,
               FailWrite, FailRetry, Claim, ClaimWrite, Confirm, LaunchTouch, Rollback,
               RollbackSkip, Revert, RollbackWrite, rest
    <2> QED BY <1>1, <1>3, <2>1, FreshTodo, FreshSnap DEF FreshInv, Fresh
<1>4. CASE ApiStep /\ ~LauncherStep
    BY <1>1, <1>2, <1>4, QuietCall DEF Fresh
<1>5. CASE (Environment \/ UNCHANGED vars) /\ ~LauncherStep
    <2>1. CASE UNCHANGED <<lp, pass, api>>
        BY <1>1, <1>2, <1>5, <2>1 DEF FreshInv, Fresh
    <2>2. CASE lp' = "idle" /\ snap' = {} /\ todo' = {} /\ api' = NoCall
        BY <1>1, <2>2 DEF Fresh, NoCall, UpdateLabels
    <2> QED BY <1>5, <2>1, <2>2, QuietEnvironment
<1> QED BY <1>3, <1>4, <1>5 DEF Next

\* An entry that has no successor gets one from the launcher alone.
LEMMA ChildlessStays ==
    ASSUME FreshInv, [Next]_vars, NEW e \in 1..born, Childless(e),
           ~(HandleRetry \/ SecondChance \/ FailRetry)
    PROVE  Childless(e)'
<1>0. /\ born \in 0..MaxEntries /\ store \in [Entry -> Entries]
      /\ \A f \in 1..born : store'[f].retryOf = store[f].retryOf
    BY QuietStays DEF FreshInv, OriginInv, Shape, TypeOK, StoreType
<1>1. CASE born' = born
    BY <1>0, <1>1 DEF Childless
<1>2. CASE CreateWrite
    <2> DEFINE o == [api.obj EXCEPT !.id = born + 1]
    <2>0. api.obj \in Objects /\ api.op = "create"
        BY <1>2 DEF CreateWrite, FreshInv, OriginInv, Shape, TypeOK, CallType
    <2>1. o.id = born + 1 /\ o.rec = api.obj.rec
        BY <2>0, Zenon DEF Objects
    <2>2. store' = [store EXCEPT ![o.id] = o.rec] /\ born' = born + 1 /\ born < MaxEntries
        BY <1>2, Zenon DEF CreateWrite, Put
    <2>3. o.rec.retryOf = 0
        BY <2>0, <2>1 DEF FreshInv, OriginInv, Unborn
    <2> HIDE DEF o
    <2>4. store'[born + 1].retryOf = 0 /\ \A f \in 1..born' : f \in 1..born \/ f = born + 1
        BY <1>0, <2>1, <2>2, <2>3, QueueAssumption DEF Entry
    <2> QED BY <1>0, <2>4 DEF Childless
<1>3. born' = born \/ CreateWrite
    <2>1. CASE LauncherStep
        BY <2>1 DEF LauncherStep, PassBegin, ReadActive, ListLaunched, StopOverrun, LimitWrite,
               LeaveLaunched, MarkEnded, MarkWrite, HandleRetry, IntrWrite, Reconcile,
               SecondChance, LinkSuccessor, Touch, ReadCapacity, Refuse, Accept, PassEnd,
               SkipGet, SkipWrite, SkipTouch, LaunchRefused, CreateRun, CreateFails,
               FailWrite, FailRetry, Claim, ClaimWrite, Confirm, LaunchTouch, Rollback,
               RollbackSkip, Revert, RollbackWrite, queue
    <2>2. CASE ApiStep
        BY <2>2 DEF ApiStep, CreateCheck, PendingCheck, PriorityGet, PriorityWrite,
               EditWrite, DeleteFile, LimitRead, LimitSet, SetDrain, queue
    <2>3. CASE Environment \/ UNCHANGED vars
        BY <2>3, QuietEnvironment DEF queue
    <2> QED BY <2>1, <2>2, <2>3 DEF Next
<1> QED BY <1>1, <1>2, <1>3

\* What is settled when the entry in hand and its file agree.
Agreed(o) == /\ store[o.id].status \in {"done", "failed"}
             /\ o.rec.status = store[o.id].status /\ o.rec.cause = store[o.id].cause

\* An entry that has not failed has no successor.
LEMMA LiveChildless ==
    ASSUME FreshInv, NEW e \in 1..born, store[e].status # "failed"
    PROVE  Childless(e)
BY DEF FreshInv, Lines, Childless, OriginInv, Shape, TypeOK, StoreType

LEMMA SettlingBegins ==
    ASSUME FreshInv, StopOverrun \/ MarkEnded
    PROVE  HeldSettling'
<1> USE DEF Goto
<1>0. /\ todo # {} /\ lp = "update"
      /\ lp' # "idle" => todo' = todo
      /\ Visiting \in Objects /\ Visiting.id \in Entry /\ Visiting.rec.status = "launched"
      /\ Object(Visiting.id) \in Objects /\ Object(Visiting.id).id = Visiting.id
    <2>1. todo # {} /\ lp = "update" /\ (lp' # "idle" => todo' = todo)
        BY DEF StopOverrun, MarkEnded, LeavePass
    <2> QED BY <2>1, OnDisk, Visit, ObjectRead DEF FreshInv, OriginInv, Shape, TypeOK, StoreType
<1>1. CASE lp' = "idle"
    BY <1>1 DEF HeldSettling, UpdateLabels, Settled
<1>2. CASE StopOverrun
    <2>1. /\ obj' = With(Visiting, [Visiting.rec EXCEPT !.cause = "time_limit"])
          /\ lp' = "limitWrite" /\ "time_limit" \in Causes
        BY <1>2, Zenon DEF StopOverrun, Causes
    <2>2. Update(Visiting, With(Visiting, [Visiting.rec EXCEPT !.cause = "time_limit"]),
                 Visiting.rec.status, Visiting.rec.run, "time_limit")
        BY <1>0, <2>1, UpdatedObject, Zenon
    <2>3. obj'.id = Visiting.id /\ obj'.rec.status = "launched" /\ obj'.rec.run = Visiting.rec.run
        BY <1>0, <2>1, <2>2 DEF Update, Like
    <2>4. Visiting' = Visiting
        BY <1>0, <2>1 DEF Visiting
    <2> QED BY <2>1, <2>3, <2>4 DEF HeldSettling, Settled
<1>3. CASE MarkEnded /\ lp' # "idle"
    <2> DEFINE to == Verdict(Visiting.rec.run)
               now == Object(Visiting.id)
    <2>1. obj' = With(now, [now.rec EXCEPT !.status = to]) /\ lp' = "markWrite"
        BY <1>3, Zenon DEF MarkEnded, LeavePass
    <2>2. to \in {"done", "failed"} /\ to \in Status
        BY DEF Verdict, Status
    <2>3. Update(now, With(now, [now.rec EXCEPT !.status = to]), to, now.rec.run, now.rec.cause)
        BY <1>0, <2>2, UpdatedObject, Zenon
    <2> HIDE DEF to
    <2>4. obj'.id = Visiting.id /\ obj'.rec.status \in {"done", "failed"}
        BY <1>0, <2>1, <2>2, <2>3 DEF Update, Like
    <2>5. Visiting' = Visiting
        BY <1>0, <1>3 DEF Visiting
    <2> QED BY <2>1, <2>4, <2>5 DEF HeldSettling, Settled
<1> QED BY <1>1, <1>2, <1>3

\* The verdict is written; what follows depends on how the run ended.
LEMMA SettlingMarked ==
    ASSUME FreshInv, MarkWrite
    PROVE  HeldSettling'
<1>1. /\ lp = "markWrite" /\ Put(obj) /\ UNCHANGED <<born, pass>>
      /\ lp' \in {"intrWrite", "retry", "touch"}
    BY DEF MarkWrite, Goto
<1>2. /\ obj.id = Visiting.id /\ obj.rec.status \in {"done", "failed"} /\ SameTask(obj)
      /\ store[obj.id].status = "launched" /\ obj.id \in 1..born
    <2>1. lp \in UpdateLabels /\ lp \in Holding /\ lp \notin Settled
        BY <1>1 DEF UpdateLabels, Holding, Settled
    <2> QED BY <1>1, <2>1, OnDisk DEF FreshInv, HeldSettling, SameTask
<1>3. obj' = obj /\ Visiting' = Visiting /\ store'[obj.id] = obj.rec
    BY <1>1, <1>2, QueueAssumption
       DEF pass, Visiting, Put, FreshInv, OriginInv, Shape, TypeOK, StoreType, Entry
<1>4. Childless(obj.id)'
    <2>1. [Next]_vars /\ ~(HandleRetry \/ SecondChance \/ FailRetry)
        BY <1>1 DEF Next, LauncherStep, HandleRetry, SecondChance, FailRetry
    <2>2. Childless(obj.id)
        BY <1>2, LiveChildless
    <2>3. \A e \in 1..born : Childless(e) => Childless(e)'
        BY <2>1, ChildlessStays
    <2> QED BY <1>2, <1>3, <2>2, <2>3
<1> QED BY <1>1, <1>2, <1>3, <1>4 DEF HeldSettling, Settled, UpdateLabels

LEMMA SettlingInterrupted ==
    ASSUME FreshInv, IntrWrite \/ Reconcile
    PROVE  HeldSettling'
<1>0. /\ lp \in UpdateLabels /\ lp \in Holding /\ lp \in Settled /\ "restart" \in Causes
      /\ UNCHANGED <<born, todo>> /\ Childless(obj.id)
    BY DEF IntrWrite, Reconcile, Holding, UpdateLabels, Settled, Causes, FreshInv, HeldSettling
<1>1. /\ obj \in Objects /\ obj.id = Visiting.id /\ SameTask(obj) /\ Agreed(obj)
      /\ obj.id \in 1..born /\ obj.id \in Entry /\ store \in [Entry -> Entries]
    BY <1>0, OnDisk, QueueAssumption
       DEF FreshInv, HeldSettling, SameTask, Agreed, OriginInv, Shape, TypeOK, PassType, Entry,
           StoreType
<1>2. Visiting' = Visiting
    BY <1>0 DEF Visiting
<1>3. \A e \in 1..born : Childless(e) => Childless(e)'
    BY <1>0, ChildlessStays
       DEF Next, LauncherStep, HandleRetry, SecondChance, FailRetry, IntrWrite, Reconcile
<1>4. ASSUME NEW p, NEW c, Update(obj, p, obj.rec.status, obj.rec.run, c), obj' = p, Put(p)
      PROVE  Agreed(obj)' /\ obj'.id = obj.id /\ obj'.rec.cause = c
    BY <1>1, <1>4 DEF Update, Like, Put, Agreed
<1>5. /\ Update(obj, With(obj, [obj.rec EXCEPT !.cause = "restart"]),
                obj.rec.status, obj.rec.run, "restart")
      /\ Update(obj, With(obj, [obj.rec EXCEPT !.review = TRUE]),
                obj.rec.status, obj.rec.run, obj.rec.cause)
    BY <1>0, <1>1, UpdatedObject, Zenon
<1>6. CASE IntrWrite
    <2>1. /\ lp' = "recover" /\ obj' = With(obj, [obj.rec EXCEPT !.cause = "restart"])
          /\ Put(obj')
        BY <1>6, Zenon DEF IntrWrite, Goto
    <2>2. Agreed(obj)' /\ obj'.id = obj.id /\ obj'.rec.cause = "restart"
        BY <1>4, <1>5, <2>1, Zenon
    <2> QED BY <1>0, <1>1, <1>2, <1>3, <2>1, <2>2 DEF HeldSettling, Agreed, Settled, UpdateLabels
<1>7. CASE Reconcile /\ UNCHANGED <<store, obj>>
    <2>1. lp' = "touch" \/ (lp' = "secondChance" /\ ~HadSecondChance(obj))
        BY <1>7 DEF Reconcile, Goto
    <2>2. obj.rec.cause = "restart"
        BY <1>7 DEF Reconcile, FreshInv, HeldSettling
    <2>3. ~HadSecondChance(obj) => obj.rec.intr = 0
        <3>1. obj.rec.intr = store[obj.id].intr /\ obj.rec.retryOf = store[obj.id].retryOf
            BY <1>1, OriginIs DEF SameTask
        <3>2. store[obj.id].intr # 0 => /\ store[obj.id].retryOf # 0
                                        /\ store[store[obj.id].retryOf].cause = "restart"
            BY <1>1 DEF FreshInv, Lines
        <3>3. store[obj.id].retryOf # 0 => store[obj.id].retryOf \in 1..born
            BY <1>1 DEF FreshInv, OriginInv, Ancestry
        <3>4. 1..born \subseteq Present
            BY QueueAssumption
               DEF FreshInv, OriginInv, Shape, TypeOK, StoreType, Fresh, Present, Entry
        <3> QED BY <3>1, <3>2, <3>3, <3>4 DEF HadSecondChance
    <2> QED BY <1>0, <1>1, <1>2, <1>3, <1>7, <2>1, <2>2, <2>3
            DEF HeldSettling, Agreed, Settled, UpdateLabels
<1>8. CASE Reconcile /\ ~UNCHANGED <<store, obj>>
    <2>1. /\ lp' = "touch" /\ obj' = With(obj, [obj.rec EXCEPT !.review = TRUE])
          /\ Put(obj')
        BY <1>8, Zenon DEF Reconcile, Goto
    <2>2. Agreed(obj)' /\ obj'.id = obj.id
        BY <1>4, <1>5, <2>1, Zenon
    <2> QED BY <1>1, <1>2, <2>1, <2>2 DEF HeldSettling, Agreed, Settled, UpdateLabels
<1> QED BY <1>6, <1>7, <1>8

LEMMA SettlingContinues ==
    ASSUME FreshInv, HandleRetry \/ SecondChance \/ LinkSuccessor
    PROVE  HeldSettling'
<1>0. /\ lp \in UpdateLabels /\ lp \in Holding /\ lp \in Settled
      /\ UNCHANGED todo /\ lp' \in {"link", "touch"} /\ [Next]_vars
    BY DEF HandleRetry, SecondChance, LinkSuccessor, Holding, UpdateLabels, Settled, pass, Goto,
           Next, LauncherStep
<1>1. /\ obj \in Objects /\ obj.id = Visiting.id /\ SameTask(obj) /\ Agreed(obj)
      /\ obj.id \in 1..born /\ obj.id \in Entry /\ store \in [Entry -> Entries]
      /\ born \in 0..MaxEntries
    BY <1>0, OnDisk, QueueAssumption
       DEF FreshInv, HeldSettling, SameTask, Agreed, OriginInv, Shape, TypeOK, PassType, Entry,
           StoreType
<1>2. Visiting' = Visiting
    BY <1>0 DEF Visiting
<1>3. obj'.id = obj.id /\ obj'.rec.status = obj.rec.status /\ obj'.rec.cause = obj.rec.cause
    <2>1. CASE obj' = obj
        BY <2>1
    <2>2. CASE CanRequeue(obj.id) /\ obj' = With(obj, [obj.rec EXCEPT !.succ = born + 1])
        <3>1. born + 1 \in 0..MaxEntries
            BY <1>1, <2>2, QueueAssumption DEF CanRequeue
        <3>2. Update(obj, With(obj, [obj.rec EXCEPT !.succ = born + 1]),
                     obj.rec.status, obj.rec.run, obj.rec.cause)
            BY <1>1, <3>1, UpdatedObject, Zenon
        <3> QED BY <2>2, <3>2 DEF Update, Like
    <2>3. \/ obj' = obj
          \/ CanRequeue(obj.id) /\ obj' = With(obj, [obj.rec EXCEPT !.succ = born + 1])
        BY Zenon DEF HandleRetry, SecondChance, LinkSuccessor, pass
    <2> QED BY <2>1, <2>2, <2>3
<1>4. store'[obj.id].status = store[obj.id].status /\ store'[obj.id].cause = store[obj.id].cause
    <2>1. CASE LinkSuccessor
        BY <1>1, <2>1 DEF LinkSuccessor, Put, Agreed
    <2>2. CASE HandleRetry \/ SecondChance
        BY <1>1, <2>2 DEF HandleRetry, SecondChance, Requeue, queue
    <2> QED BY <2>1, <2>2
<1> QED BY <1>0, <1>1, <1>2, <1>3, <1>4 DEF HeldSettling, Agreed, UpdateLabels

\* What the launcher holds is not disturbed from outside.
LEMMA HeldOutside ==
    ASSUME QuietApi, FreshInv, ApiStep \/ Environment \/ UNCHANGED vars
    PROVE  /\ UNCHANGED <<lp, pass>> \/ lp' = "idle"
           /\ \A e \in 1..born : store'[e] = store[e] /\ (Childless(e) => Childless(e)')
<1>1. UNCHANGED <<lp, pass>> \/ lp' = "idle"
    BY QuietCall, QuietEnvironment
<1>2. [Next]_vars
    BY DEF Next
<1>3. \A e \in 1..born : store[e].retryOf = store'[e].retryOf /\ born' \in {born, born + 1}
                         /\ born \in 0..MaxEntries
    BY <1>2, QuietStays
<1>4. UNCHANGED queue \/ (CreateWrite /\ api.op = "create")
    BY QuietEnvironment DEF ApiStep, CreateCheck, CreateWrite, PendingCheck, PriorityGet,
           PriorityWrite, EditWrite, DeleteFile, LimitRead, LimitSet, SetDrain, FreshInv, Fresh,
           queue
<1>5. CASE UNCHANGED queue
    BY <1>1, <1>5 DEF queue, Childless
<1>6. CASE CreateWrite
    <2> DEFINE o == [api.obj EXCEPT !.id = born + 1]
    <2>0. api.obj \in Objects /\ api.op = "create"
        BY <1>6 DEF CreateWrite, FreshInv, OriginInv, Shape, TypeOK, CallType
    <2>1. o.id = born + 1 /\ o.rec = api.obj.rec
        BY <2>0, Zenon DEF Objects
    <2>2. store' = [store EXCEPT ![o.id] = o.rec] /\ born' = born + 1 /\ born < MaxEntries
        BY <1>6, Zenon DEF CreateWrite, Put
    <2>3. \A e \in 1..born : e # born + 1 /\ e \in Entry
        BY QueueAssumption DEF FreshInv, OriginInv, Shape, TypeOK, StoreType, Entry
    <2>4. store \in [Entry -> Entries]
        BY DEF FreshInv, OriginInv, Shape, TypeOK, StoreType
    <2> HIDE DEF o
    <2>5. \A e \in 1..born : store'[e] = store[e]
        BY <2>1, <2>2, <2>3, <2>4
    <2>6. ~(HandleRetry \/ SecondChance \/ FailRetry)
        BY <1>6, <2>0 DEF HandleRetry, SecondChance, FailRetry, CreateWrite, rest, NoCall
    <2> QED BY <1>1, <1>2, <2>5, <2>6, ChildlessStays
<1> QED BY <1>1, <1>4, <1>5, <1>6

LEMMA SettlingStays ==
    ASSUME QuietApi, FreshInv, [Next]_vars
    PROVE  HeldSettling'
<1>1. CASE lp' \notin UpdateLabels
    BY <1>1 DEF HeldSettling, UpdateLabels, Settled
<1>2. CASE LauncherStep
    <2>1. \/ StopOverrun \/ MarkEnded \/ MarkWrite \/ IntrWrite \/ Reconcile \/ HandleRetry
          \/ SecondChance \/ LinkSuccessor \/ lp' \notin UpdateLabels
        BY <1>2 DEF LauncherStep, PassBegin, ReadActive, ListLaunched, LimitWrite, LeaveLaunched,
               Touch, ReadCapacity, Refuse, Accept, PassEnd, SkipGet, SkipWrite, SkipTouch,
               LaunchRefused, CreateRun, CreateFails, FailWrite, FailRetry, Claim, ClaimWrite,
               Confirm, LaunchTouch, Rollback, RollbackSkip, Revert, RollbackWrite, NextEntry,
               CountLaunch, LeavePass, Goto, UpdateLabels
    <2> QED BY <1>1, <2>1, SettlingBegins, SettlingMarked, SettlingInterrupted, SettlingContinues
<1>3. CASE (ApiStep \/ Environment \/ UNCHANGED vars) /\ lp' \in UpdateLabels
    <2>1. /\ UNCHANGED <<lp, pass>> /\ lp \in UpdateLabels
          /\ \A e \in 1..born : store'[e] = store[e] /\ (Childless(e) => Childless(e)')
        BY <1>3, HeldOutside DEF UpdateLabels
    <2>2. obj.id \in 1..born
        BY <2>1, OnDisk DEF SameTask, Holding
    <2>3. obj' = obj /\ Visiting' = Visiting
        BY <2>1 DEF pass, Visiting
    <2>4. Childless(obj.id) => Childless(obj.id)'
        BY <2>1, <2>2, <2>3
    <2> QED BY <2>1, <2>2, <2>3, <2>4 DEF FreshInv, HeldSettling
<1> QED BY <1>1, <1>2, <1>3 DEF Next

\* Where the launch of the head depends on what the launcher holds or on disk.
Launching == (Holding \ UpdateLabels) \cup {"rollback"}

\* What a launch has in hand: the head, as it is on disk.
LEMMA HeadInHand ==
    ASSUME FreshInv, lp \in LaunchLabels
    PROVE  /\ Head.id \in 1..born /\ Head.id \in Entry /\ Object(Head.id) \in Objects
           /\ Object(Head.id).id = Head.id /\ Object(Head.id).rec = store[Head.id]
           /\ store[Head.id] \in Entries /\ store \in [Entry -> Entries]
           /\ store[Head.id].status # "absent"
           /\ lp \notin Handled => store[Head.id].status = "pending"
           /\ obj \in Objects /\ newrun \in 0..MaxRuns
           /\ lp \in Holding => obj.id = Head.id
BY OnDisk, ObjectRead, BornIs
   DEF FreshInv, OriginInv, Shape, TypeOK, StoreType, PassType, Fresh, HeldLaunching, LaunchLabels,
       Holding, UpdateLabels

\* Reading the head, with or without a change to write.
LEMMA LaunchingReads ==
    ASSUME FreshInv, SkipGet \/ CreateFails \/ Claim \/ Revert, lp' \in Launching
    PROVE  HeldLaunching'
<1> USE DEF Goto
<1>0. /\ lp \in {"skip", "launch", "claim", "rollback"} 
      /\ snap' = snap /\ UNCHANGED <<queue, newrun>> /\ Head' = Head
    BY DEF SkipGet, CreateFails, Claim, Revert, NextEntry, CountLaunch, LeavePass, Launching,
           Holding, UpdateLabels, Head
<1>1. lp \in LaunchLabels
    BY <1>0 DEF LaunchLabels
<1>2. CASE SkipGet
    <2>1. obj' = Object(Head.id) /\ lp' = "skipWrite"
        BY <1>2 DEF SkipGet, NextEntry, Launching, Holding, UpdateLabels
    <2>2. obj'.id = Head.id /\ obj'.rec = store[Head.id]
        BY <1>1, <2>1, HeadInHand
    <2> QED BY <1>0, <2>1, <2>2 DEF HeldLaunching, queue
<1>3. ASSUME NEW p, NEW st, NEW run, NEW c, Update(Object(Head.id), p, st, run, c), obj' = p
      PROVE  obj'.id = Head.id /\ obj'.rec.status = st /\ obj'.rec.run = run
    BY <1>1, <1>3, HeadInHand DEF Update, Like
<1>4. /\ \A v \in Status :
            Update(Object(Head.id), With(Object(Head.id), [store[Head.id] EXCEPT !.status = v]),
                   v, Object(Head.id).rec.run, Object(Head.id).rec.cause)
      /\ \A v \in Status, n \in 0..MaxRuns :
            Update(Object(Head.id),
                   With(Object(Head.id), [store[Head.id] EXCEPT !.status = v, !.run = n]),
                   v, n, Object(Head.id).rec.cause)
    <2>1. Object(Head.id) \in Objects /\ Object(Head.id).rec = store[Head.id]
        BY <1>1, HeadInHand
    <2> QED BY <2>1, UpdatedObject, Zenon
<1>5. /\ "failed" \in Status /\ "launched" \in Status /\ "pending" \in Status
      /\ newrun \in 0..MaxRuns /\ 0 \in 0..MaxRuns
    BY <1>1, HeadInHand, QueueAssumption DEF Status, NonTerminal
<1>6. CASE CreateFails
    <2>1. /\ lp' = "failWrite"
          /\ obj' = With(Object(Head.id), [store[Head.id] EXCEPT !.status = "failed"])
        BY <1>6, Zenon DEF CreateFails, NextEntry, LeavePass, Launching, Holding, UpdateLabels
    <2>2. obj'.id = Head.id /\ obj'.rec.status = "failed"
        BY <1>3, <1>4, <1>5, <2>1, Zenon
    <2> QED BY <1>0, <2>1, <2>2 DEF HeldLaunching
<1>7. CASE Claim
    <2>1. /\ lp' = "claimWrite"
          /\ obj' = With(Object(Head.id), [store[Head.id] EXCEPT
                             !.status = "launched", !.run = newrun])
        BY <1>7, Zenon
           DEF Claim, CountLaunch, NextEntry, LeavePass, Launching, Holding, UpdateLabels
    <2>2. obj'.id = Head.id /\ obj'.rec.status = "launched" /\ obj'.rec.run = newrun
        BY <1>3, <1>4, <1>5, <2>1, Zenon
    <2> QED BY <1>0, <2>1, <2>2 DEF HeldLaunching
<1>8. CASE Revert
    <2>1. /\ lp' = "rollbackWrite" /\ lp = "rollback"
          /\ obj' = With(Object(Head.id), [store[Head.id] EXCEPT !.status = "pending", !.run = 0])
        BY <1>8, Zenon DEF Revert, NextEntry, Launching, Holding, UpdateLabels
    <2>2. obj'.id = Head.id /\ obj'.rec.status = "pending"
        BY <1>3, <1>4, <1>5, <2>1, Zenon
    <2>3. store'[Head'.id].status = "launched"
        BY <1>0, <2>1 DEF FreshInv, HeldLaunching, queue
    <2> QED BY <1>0, <2>1, <2>2, <2>3 DEF HeldLaunching
<1> QED BY <1>2, <1>6, <1>7, <1>8

\* Writing the head, and looking at its run.
LEMMA LaunchingWrites ==
    ASSUME FreshInv, SkipWrite \/ FailWrite \/ ClaimWrite \/ Confirm \/ Rollback, lp' \in Launching
    PROVE  HeldLaunching'
<1> USE DEF Goto
<1>0. /\ lp \in {"skipWrite", "failWrite", "claimWrite", "confirm"} /\ UNCHANGED <<snap, born>>
      /\ Head' = Head /\ lp \in LaunchLabels /\ lp \in Holding
    BY DEF SkipWrite, FailWrite, ClaimWrite, Confirm, Rollback, NextEntry, Launching,
           Holding, UpdateLabels, Head, pass, queue, LaunchLabels
<1>1. CASE SkipWrite
    <2>1. lp' = "skipTouch" /\ obj' = obj /\ Put(obj) /\ lp = "skipWrite"
        BY <1>1 DEF SkipWrite, pass
    <2> QED BY <1>0, <2>1, HeadInHand DEF HeldLaunching, FreshInv, Put
<1>2. CASE FailWrite
    <2>1. lp' = "failRetry" /\ obj' = obj /\ lp = "failWrite"
        BY <1>2 DEF FailWrite, NextEntry, Launching, Holding, UpdateLabels
    <2>2. [Next]_vars /\ ~(HandleRetry \/ SecondChance \/ FailRetry)
        BY <1>2, <2>1 DEF Next, LauncherStep, HandleRetry, SecondChance, FailRetry
    <2>3. obj.id = Head.id /\ obj.id \in 1..born /\ store[obj.id].status = "pending"
        BY <1>0, <2>1, HeadInHand DEF Handled
    <2>4. Childless(obj.id)
        BY <2>3, LiveChildless
    <2>5. \A e \in 1..born : Childless(e) => Childless(e)'
        BY <2>2, ChildlessStays
    <2>6. Childless(obj.id)'
        BY <2>1, <2>3, <2>4, <2>5
    <2> QED BY <1>0, <2>1, <2>3, <2>6 DEF HeldLaunching
<1>3. CASE ClaimWrite
    <2>1. lp' = "confirm" /\ UNCHANGED <<obj, newrun>> /\ Put(obj) /\ lp = "claimWrite"
        BY <1>3 DEF ClaimWrite, pass
    <2> QED BY <1>0, <2>1, HeadInHand DEF HeldLaunching, FreshInv, Put
<1>4. CASE Confirm
    <2>1. lp' = "launchTouch" /\ UNCHANGED <<obj, newrun, store>> /\ lp = "confirm"
        BY <1>4 DEF Confirm, pass, queue
    <2> QED BY <1>0, <2>1, HeadInHand DEF HeldLaunching, FreshInv
<1>5. CASE Rollback
    <2>1. store[Head.id].status = "launched"
        BY <1>0, <1>5, HeadInHand DEF Rollback, HeldLaunching, FreshInv
    <2>2. lp' = "rollback" /\ store' = store
        BY <1>5, <2>1 DEF Rollback, queue
    <2> QED BY <1>0, <2>1, <2>2 DEF HeldLaunching, Holding, UpdateLabels
<1> QED BY <1>1, <1>2, <1>3, <1>4, <1>5

LEMMA LaunchingStays ==
    ASSUME QuietApi, FreshInv, [Next]_vars
    PROVE  HeldLaunching'
<1>1. CASE lp' \notin Launching
    BY <1>1 DEF HeldLaunching, Launching, Holding, UpdateLabels
<1>2. CASE LauncherStep
    <2>1. \/ SkipGet \/ CreateFails \/ Claim \/ Revert
          \/ SkipWrite \/ FailWrite \/ ClaimWrite \/ Confirm \/ Rollback \/ lp' \notin Launching
        BY <1>2 DEF LauncherStep, PassBegin, ReadActive, ListLaunched, StopOverrun, LimitWrite,
               LeaveLaunched, MarkEnded, MarkWrite, HandleRetry, IntrWrite, Reconcile,
               SecondChance, LinkSuccessor, Touch, ReadCapacity, Refuse, Accept, PassEnd,
               SkipTouch, LaunchRefused, CreateRun, FailRetry, LaunchTouch, RollbackSkip,
               RollbackWrite, NextEntry, CountLaunch, LeavePass, Goto, Launching, Holding,
               UpdateLabels, FreshInv, HeldLaunching
    <2> QED BY <1>1, <2>1, LaunchingReads, LaunchingWrites
<1>3. CASE (ApiStep \/ Environment \/ UNCHANGED vars) /\ lp' \in Launching
    <2>1. /\ UNCHANGED <<lp, pass>> /\ lp \in LaunchLabels
          /\ \A e \in 1..born : store'[e] = store[e] /\ (Childless(e) => Childless(e)')
        BY <1>3, HeldOutside DEF Launching, Holding, UpdateLabels, LaunchLabels
    <2>2. Head.id \in 1..born
        BY <2>1, HeadInHand
    <2>3. obj' = obj /\ Head' = Head /\ newrun' = newrun
        BY <2>1 DEF pass, Head
    <2>4. lp \in Holding => obj.id = Head.id
        BY <2>1, HeadInHand
    <2>5. lp \in Holding => /\ store'[obj.id] = store[obj.id]
                            /\ Childless(obj.id) => Childless(obj.id)'
        BY <2>1, <2>2, <2>3, <2>4
    <2>6. store'[Head.id] = store[Head.id]
        BY <2>1, <2>2
    <2> QED BY <2>1, <2>3, <2>4, <2>5, <2>6 DEF FreshInv, HeldLaunching, Holding, UpdateLabels
<1> QED BY <1>1, <1>2, <1>3 DEF Next

LEMMA FreshStep == QuietApi /\ FreshInv /\ [Next]_vars => FreshInv'
BY OriginStep, FreshStays, SettlingStays, LaunchingStays, LinesStay DEF FreshInv

LEMMA FreshAlways == QuietApi => (Spec => []FreshInv)
<1> SUFFICES ASSUME QuietApi PROVE Spec => []FreshInv
    OBVIOUS
<1>1. Init => FreshInv
    <2> SUFFICES ASSUME Init PROVE FreshInv
        OBVIOUS
    <2>1. OriginInv
        BY OriginInit
    <2>2. /\ lp = "idle" /\ snap = {} /\ todo = {} /\ api = NoCall /\ born = 0
        BY Zenon DEF Init
    <2> QED BY <2>1, <2>2
            DEF FreshInv, Fresh, HeldSettling, HeldLaunching, Lines, NoCall, UpdateLabels, Settled,
                Holding
<1>2. FreshInv /\ [Next]_vars => FreshInv'
    BY FreshStep
<1> QED BY <1>1, <1>2, PTL DEF Spec

\* requeue, _handle_retry and reconcile_interrupted_run: with any number of
\* crashes, retries and refusals, a retry continues exactly one entry, one
\* attempt later and below the cap, and a second chance never gets another.
THEOREM LineagesStayLinear == QuietApi => (Spec => []LineageLinear)
<1> SUFFICES ASSUME QuietApi PROVE Spec => []LineageLinear
    OBVIOUS
<1>1. FreshInv => LineageLinear
    <2> SUFFICES ASSUME FreshInv PROVE LineageLinear
        OBVIOUS
    <2>1. Present \subseteq 1..born
        BY BornIs DEF FreshInv, Present
    <2> QED BY <2>1 DEF LineageLinear, FreshInv, Lines, OriginInv, Ancestry
<1> QED BY <1>1, FreshAlways, PTL

----------------------------------------------------------------------------
(* One live entry per dedup key.                                           *)

\* The check of create still holds when its write comes: the launcher adds
\* entries without a key, and no write gives life back to an entry.
Unmatched == api.op = "create" /\ api.obj.rec.keyed =>
                 \A e \in Present : store[e].keyed /\ store[e].status \in NonTerminal
                                    => store[e].work # api.obj.rec.work

LEMMA LauncherKeeps ==
    ASSUME LauncherStep
    PROVE  api' = api /\ crashes' = crashes
BY DEF LauncherStep, PassBegin, ReadActive, ListLaunched, StopOverrun, LimitWrite,
       LeaveLaunched, MarkEnded, MarkWrite, HandleRetry, IntrWrite, Reconcile,
       SecondChance, LinkSuccessor, Touch, ReadCapacity, Refuse, Accept, PassEnd,
       SkipGet, SkipWrite, SkipTouch, LaunchRefused, CreateRun, CreateFails,
       FailWrite, FailRetry, Claim, ClaimWrite, Confirm, LaunchTouch, Rollback,
       RollbackSkip, Revert, RollbackWrite, rest

LEMMA CreatedIds ==
    ASSUME FreshInv, FreshInv', NEW e \in Present'
    PROVE  /\ e \in Entry /\ e \in 1..born'
           /\ 1..born \subseteq Entry /\ born \in 0..MaxEntries
           /\ store \in [Entry -> Entries]
<1>1. e \in Entry /\ store'[e].status # "absent"
    BY DEF Present
<1>2. born' \in 0..MaxEntries /\ ~(e > born')
    BY <1>1 DEF FreshInv, OriginInv, Unborn, Shape, TypeOK, StoreType
<1>3. born \in 0..MaxEntries /\ store \in [Entry -> Entries]
    BY DEF FreshInv, OriginInv, Shape, TypeOK, StoreType
<1> QED BY <1>1, <1>2, <1>3, QueueAssumption DEF Entry

LEMMA UnmatchedStays ==
    ASSUME QuietApi, FreshInv, Unmatched, [Next]_vars
    PROVE  Unmatched'
<1> SUFFICES ASSUME api'.op = "create", api'.obj.rec.keyed,
                    NEW e \in Present', store'[e].keyed, store'[e].status \in NonTerminal
             PROVE  store'[e].work # api'.obj.rec.work
    BY DEF Unmatched, Present
<1>0. FreshInv'
    BY FreshStep
<1>1. /\ e \in Entry /\ e \in 1..born'
      /\ 1..born \subseteq Entry /\ born \in 0..MaxEntries
      /\ store \in [Entry -> Entries]
    BY <1>0, CreatedIds
<1>2. CASE e \in 1..born
    <2>1. /\ store[e].work = store'[e].work /\ store[e].keyed /\ store[e].status \in NonTerminal
          /\ e \in Present
        BY <1>1, <1>2, QuietStays DEF Present, NonTerminal
    <2>2. CASE api' = api
        BY <2>1, <2>2 DEF Unmatched
    <2>3. CASE ~Duplicate(api'.obj.rec.work, api'.obj.rec.keyed) /\ api' # api
        BY <2>1, <2>3 DEF Duplicate
    <2>4. api' = api \/ ~Duplicate(api'.obj.rec.work, api'.obj.rec.keyed)
        <3>1. CASE LauncherStep
            BY <3>1, LauncherKeeps
        <3>2. CASE Environment \/ UNCHANGED vars
            <4>1. NoCall.op # "create"
                BY DEF NoCall
            <4>2. api' = api \/ api' = NoCall
                BY <3>2, QuietEnvironment
            <4> QED BY <4>1, <4>2, Zenon
        <3> QED BY <3>1, <3>2, QuietCall DEF Next
    <2> QED BY <2>2, <2>3, <2>4
<1>3. CASE e \notin 1..born
    <2>1. born' # born
        BY <1>1, <1>3
    <2>2. PICK q \in Entries :
             /\ Appended(q)
             /\ (CreateWrite /\ q = api.obj.rec) \/ ~q.keyed
        BY <2>1, QuietStays DEF Grown, Successor
    <2>3. e = born + 1 /\ store'[e] = q
        BY <1>1, <1>3, <2>2, QueueAssumption DEF Appended, Entry
    <2> QED BY <2>2, <2>3 DEF CreateWrite, NoCall
<1> QED BY <1>2, <1>3

LEMMA UniqueStays ==
    ASSUME QuietApi, FreshInv, Unmatched, DedupUnique, [Next]_vars
    PROVE  DedupUnique'
<1> SUFFICES ASSUME NEW e \in Present', NEW f \in Present',
                    store'[e].keyed, store'[f].keyed,
                    store'[e].status \in NonTerminal, store'[f].status \in NonTerminal,
                    store'[e].work = store'[f].work, e # f
             PROVE  FALSE
    BY DEF DedupUnique, Present
<1>0. FreshInv'
    BY FreshStep
<1>1. /\ e \in 1..born' /\ f \in 1..born'
      /\ 1..born \subseteq Entry /\ born \in 0..MaxEntries
      /\ store \in [Entry -> Entries]
    BY <1>0, CreatedIds
<1>2. \A d \in 1..born : store'[d].keyed /\ store'[d].status \in NonTerminal =>
          /\ store[d].work = store'[d].work /\ store[d].keyed
          /\ store[d].status \in NonTerminal /\ d \in Present
    BY <1>1, QuietStays DEF Present, NonTerminal
<1>3. CASE e \in 1..born /\ f \in 1..born
    BY <1>2, <1>3 DEF DedupUnique
<1>4. CASE ~(e \in 1..born /\ f \in 1..born)
    <2>1. born' # born
        BY <1>1, <1>4
    <2>2. PICK q \in Entries :
             Appended(q) /\ ((CreateWrite /\ q = api.obj.rec) \/ ~q.keyed)
        BY <2>1, QuietStays DEF Grown, Successor
    <2>3. store'[born + 1] = q /\ \A d \in 1..born' : d \in 1..born \/ d = born + 1
        BY <1>1, <2>2, QueueAssumption DEF Appended, Entry
    <2>4. CreateWrite /\ q = api.obj.rec /\ q.keyed
        BY <1>1, <1>4, <2>2, <2>3
    <2>5. PICK d \in 1..born : store'[d].keyed /\ store'[d].status \in NonTerminal
                               /\ store'[d].work = q.work
        BY <1>1, <1>4, <2>3
    <2> QED BY <1>2, <2>4, <2>5 DEF Unmatched, CreateWrite
<1> QED BY <1>3, <1>4

\* create ("one live entry per dedup key"): the check and the write are two
\* steps, and between them the launcher may settle, requeue and launch; still
\* no key is ever carried by two live entries, as long as creates do not
\* overlap each other (the window its docstring leaves open).
THEOREM KeysStayUnique == QuietApi => (Spec => []DedupUnique)
<1> SUFFICES ASSUME QuietApi PROVE Spec => []DedupUnique
    OBVIOUS
<1>1. Init => Unmatched /\ DedupUnique
    <2> SUFFICES ASSUME Init PROVE Unmatched /\ DedupUnique
        OBVIOUS
    <2>1. /\ api = NoCall
          /\ store = [e \in Entry |-> Blank(CHOOSE v \in Work : TRUE)]
        BY Zenon DEF Init
    <2> QED BY <2>1 DEF Unmatched, DedupUnique, NoCall, Present, Blank
<1>2. FreshInv /\ Unmatched /\ DedupUnique /\ [Next]_vars => Unmatched' /\ DedupUnique'
    BY UnmatchedStays, UniqueStays
<1> QED BY <1>1, <1>2, FreshAlways, PTL DEF Spec

----------------------------------------------------------------------------
(* Every active run is that of a launched entry, as long as the service    *)
(* does not stop between create_run and the entry's own write.             *)

OneEpoch == QuietApi /\ MaxCrashes = 0

Early == {"idle", "active", "list", "update"} \cup UpdateLabels
WithNew == WithRun \cup {"launchTouch"}

\* A pass has no run of its own until it creates one, which is of the head.
OwnRun == /\ lp \in Early => newrun = 0
          /\ lp \in WithNew => newrun \in Run /\ runs[newrun].entry = Head.id

\* What is being settled or rolled back has no active run, and an active run
\* does what its entry asks for.
RunsOf == /\ lp \in Settled \cup {"markWrite"} => Visiting.rec.run \notin ActiveRuns
          /\ lp \in {"rollback", "rollbackWrite"} => store[Head.id].run \notin ActiveRuns
          /\ \A r \in ActiveRuns : /\ runs[r].entry \in 1..born
                                   /\ store[runs[r].entry].work = runs[r].work

OwnInv == FreshInv /\ OwnRun /\ RunsOf /\ NoOrphanRun

\* Without crashes the environment leaves the pass alone.
LEMMA PassGoesOn ==
    ASSUME OneEpoch, OwnInv, ~LauncherStep, [Next]_vars
    PROVE  /\ UNCHANGED <<lp, pass>> /\ ~CreateRun
           /\ \A e \in 1..born : store'[e] = store[e]
<1>1. UNCHANGED <<lp, pass>>
    <2>1. crashes \in 0..MaxCrashes /\ MaxCrashes = 0
        BY DEF OneEpoch, OwnInv, FreshInv, OriginInv, Shape, TypeOK, CallType
    <2>2. ~(crashes < MaxCrashes)
        BY <2>1
    <2> QED BY <2>2, QuietCall, QuietEnvironment DEF Next, OneEpoch, OwnInv
<1>2. \A e \in 1..born : store'[e] = store[e]
    BY WritesOwn DEF OwnInv
<1> QED BY <1>1, <1>2 DEF LauncherStep

LEMMA OwnRunStays ==
    ASSUME OneEpoch, OwnInv, [Next]_vars
    PROVE  OwnRun'
<1>1. CASE CreateRun
    <2>1. PICK r \in Run : /\ newrun' = r
                           /\ runs' = [runs EXCEPT ![r] =
                                [st |-> "running", entry |-> Head.id,
                                 work |-> Head.rec.work, alive |-> TRUE,
                                 old |-> FALSE, conf |-> FALSE]]
        BY <1>1 DEF CreateRun
    <2>2. lp' = "claim" /\ Head' = Head /\ runs \in [Run -> Runs]
        BY <1>1 DEF CreateRun, Goto, Head, OwnInv, FreshInv, OriginInv, Shape, TypeOK, RunsType
    <2> QED BY <2>1, <2>2 DEF OwnRun, Early, UpdateLabels
<1>2. CASE LauncherStep /\ ~CreateRun
    <2>0. \A r \in Run : runs'[r].entry = runs[r].entry
        BY <1>2, RunsStay DEF OwnInv, FreshInv
    <2>1. lp' \in Early => newrun' = 0
        <3>1. CASE \/ PassBegin \/ ReadActive \/ ListLaunched \/ StopOverrun \/ LimitWrite
                  \/ LeaveLaunched \/ MarkEnded \/ MarkWrite \/ HandleRetry \/ IntrWrite
                  \/ Reconcile \/ SecondChance \/ LinkSuccessor \/ Touch \/ ReadCapacity
            <4>1. lp \in Early /\ (UNCHANGED newrun \/ newrun' = 0)
                BY <3>1 DEF PassBegin, ReadActive, ListLaunched, StopOverrun, LimitWrite,
                       LeaveLaunched, MarkEnded, MarkWrite, HandleRetry, IntrWrite, Reconcile,
                       SecondChance, LinkSuccessor, Touch, ReadCapacity, LeavePass, Early,
                       UpdateLabels, pass
            <4> QED BY <4>1 DEF OwnInv, OwnRun
        <3>2. CASE \/ Refuse \/ Accept \/ PassEnd \/ SkipGet \/ SkipWrite \/ SkipTouch
                  \/ LaunchRefused \/ CreateFails \/ FailWrite \/ FailRetry \/ Claim \/ ClaimWrite
                  \/ Confirm \/ LaunchTouch \/ Rollback \/ RollbackSkip \/ Revert \/ RollbackWrite
            BY <3>2 DEF Refuse, Accept, PassEnd, SkipGet, SkipWrite, SkipTouch, LaunchRefused,
                   CreateFails, FailWrite, FailRetry, Claim, ClaimWrite, Confirm, LaunchTouch,
                   Rollback, RollbackSkip, Revert, RollbackWrite, NextEntry, CountLaunch,
                   LeavePass, Goto, Early, UpdateLabels
        <3> QED BY <1>2, <3>1, <3>2 DEF LauncherStep
    <2>2. lp' \in WithNew => lp \in WithNew /\ UNCHANGED <<newrun, snap>>
        BY <1>2 DEF LauncherStep, PassBegin, ReadActive, ListLaunched, StopOverrun, LimitWrite,
               LeaveLaunched, MarkEnded, MarkWrite, HandleRetry, IntrWrite, Reconcile,
               SecondChance, LinkSuccessor, Touch, ReadCapacity, Refuse, Accept, PassEnd,
               SkipGet, SkipWrite, SkipTouch, LaunchRefused, CreateFails, FailWrite,
               FailRetry, Claim, ClaimWrite, Confirm, LaunchTouch, Rollback, RollbackSkip,
               Revert, RollbackWrite, NextEntry, CountLaunch, LeavePass, Goto, WithNew,
               WithRun, pass, OwnInv, FreshInv, Fresh
    <2> QED BY <2>0, <2>1, <2>2 DEF OwnInv, OwnRun, Head
<1>3. CASE ~LauncherStep
    <2>1. UNCHANGED <<lp, pass>> /\ ~CreateRun
        BY <1>3, PassGoesOn
    <2>2. \A r \in Run : runs'[r].entry = runs[r].entry
        BY <2>1, RunsStay DEF OwnInv, FreshInv
    <2> QED BY <2>1, <2>2 DEF OwnInv, OwnRun, Head, pass
<1> QED BY <1>1, <1>2, <1>3

\* An active run keeps its entry, and the entry its task.
LEMMA TasksStay ==
    ASSUME OneEpoch, OwnInv, [Next]_vars
    PROVE  \A r \in ActiveRuns' : /\ runs'[r].entry \in 1..born'
                                  /\ store'[runs'[r].entry].work = runs'[r].work
<1>0. /\ 1..born \subseteq 1..born' /\ \A e \in 1..born : store'[e].work = store[e].work
      /\ Shape /\ runs \in [Run -> Runs]
    BY QuietStays DEF OwnInv, FreshInv, OriginInv, Shape, TypeOK, RunsType
<1>1. CASE ~CreateRun
    <2>1. ActiveRuns' \subseteq ActiveRuns /\ \A r \in Run : runs'[r].work = runs[r].work
        BY <1>0, <1>1, NoNewRun
    <2>2. \A r \in Run : runs'[r].entry = runs[r].entry
        BY <1>1, RunsStay DEF OwnInv, FreshInv
    <2> QED BY <1>0, <2>1, <2>2 DEF OwnInv, RunsOf, ActiveRuns
<1>2. CASE CreateRun
    <2>1. PICK r \in Run : runs' = [runs EXCEPT ![r] =
                                [st |-> "running", entry |-> Head.id,
                                 work |-> Head.rec.work, alive |-> TRUE,
                                 old |-> FALSE, conf |-> FALSE]]
        BY <1>2 DEF CreateRun
    <2>2. Head.id \in 1..born /\ store[Head.id].work = Head.rec.work
        <3>1. lp = "launch"
            BY <1>2 DEF CreateRun
        <3>2. lp \in LaunchLabels /\ lp \notin Handled
            BY <3>1 DEF LaunchLabels, Handled
        <3> QED BY <3>2, OnDisk DEF OwnInv
    <2>3. \A q \in ActiveRuns' : q # r => q \in ActiveRuns /\ runs'[q] = runs[q]
        BY <1>0, <2>1 DEF ActiveRuns
    <2>4. runs'[r].entry = Head.id /\ runs'[r].work = Head.rec.work
        BY <1>0, <2>1
    <2> QED BY <1>0, <2>2, <2>3, <2>4 DEF OwnInv, RunsOf
<1> QED BY <1>1, <1>2

\* The run of what is settled has ended, and that of what is rolled back.
LEMMA EndedStays ==
    ASSUME OneEpoch, OwnInv, [Next]_vars
    PROVE  /\ lp' \in Settled \cup {"markWrite"} => Visiting'.rec.run \notin ActiveRuns'
           /\ lp' \in {"rollback", "rollbackWrite"} => store'[Head'.id].run \notin ActiveRuns'
<1>0. ~CreateRun => ActiveRuns' \subseteq ActiveRuns
    BY NoNewRun DEF OwnInv, FreshInv, OriginInv
<1>1. CASE CreateRun
    BY <1>1 DEF CreateRun, Goto, Settled
<1>2. CASE ~LauncherStep
    <2>1. UNCHANGED <<lp, pass>> /\ \A e \in 1..born : store'[e] = store[e]
        BY <1>2, PassGoesOn
    <2>2. Visiting' = Visiting /\ Head' = Head
        BY <2>1 DEF pass, Visiting, Head
    <2>3. lp \in LaunchLabels => Head.id \in 1..born
        BY HeadInHand DEF OwnInv
    <2> QED BY <1>0, <1>2, <2>1, <2>2, <2>3 DEF OwnInv, RunsOf, LaunchLabels, LauncherStep
<1>3. CASE LauncherStep /\ ~CreateRun /\ lp' \in Settled \cup {"markWrite"}
    <2>1. /\ todo' = todo
          /\ lp \in Settled \cup {"markWrite"} \/ Visiting.rec.run \notin ActiveRuns
        BY <1>3 DEF LauncherStep, PassBegin, ReadActive, ListLaunched, StopOverrun, LimitWrite,
               LeaveLaunched, MarkEnded, MarkWrite, HandleRetry, IntrWrite, Reconcile,
               SecondChance, LinkSuccessor, Touch, ReadCapacity, Refuse, Accept, PassEnd,
               SkipGet, SkipWrite, SkipTouch, LaunchRefused, CreateFails, FailWrite,
               FailRetry, Claim, ClaimWrite, Confirm, LaunchTouch, Rollback, RollbackSkip,
               Revert, RollbackWrite, NextEntry, CountLaunch, LeavePass, Goto, Settled, pass,
               ActiveRuns, ActiveStates, Ended
    <2>2. Visiting' = Visiting
        BY <2>1 DEF Visiting
    <2>3. Visiting.rec.run \notin ActiveRuns
        BY <2>1 DEF OwnInv, RunsOf
    <2> QED BY <1>0, <1>3, <2>2, <2>3 DEF Settled
<1>4. CASE LauncherStep /\ ~CreateRun /\ lp' \in {"rollback", "rollbackWrite"}
    <2>1. /\ snap' = snap /\ store' = store
          /\ \/ lp = "rollback"
             \/ Rollback /\ lp = "confirm"
        BY <1>4 DEF LauncherStep, PassBegin, ReadActive, ListLaunched, StopOverrun, LimitWrite,
               LeaveLaunched, MarkEnded, MarkWrite, HandleRetry, IntrWrite, Reconcile,
               SecondChance, LinkSuccessor, Touch, ReadCapacity, Refuse, Accept, PassEnd,
               SkipGet, SkipWrite, SkipTouch, LaunchRefused, CreateFails, FailWrite,
               FailRetry, Claim, ClaimWrite, Confirm, LaunchTouch, Rollback, RollbackSkip,
               Revert, RollbackWrite, NextEntry, CountLaunch, LeavePass, Goto, pass, queue,
               OwnInv, FreshInv, HeldLaunching
    <2>2. Head' = Head
        BY <2>1 DEF Head
    <2>3. Rollback => store[Head.id].run \notin ActiveRuns
        BY <2>1 DEF Rollback, OwnInv, FreshInv, HeldLaunching, Holding, UpdateLabels, ActiveRuns
    <2>4. store[Head.id].run \notin ActiveRuns
        BY <2>1, <2>3 DEF OwnInv, RunsOf
    <2> QED BY <1>0, <1>4, <2>1, <2>2, <2>4 DEF Settled
<1> QED BY <1>1, <1>2, <1>3, <1>4

\* The launched entry of an active run stays launched, with that run.
LEMMA ActiveKept ==
    ASSUME OneEpoch, OwnInv, [Next]_vars, NEW r \in ActiveRuns, NEW e \in 1..born,
           store[e].status = "launched", store[e].run = r
    PROVE  store'[e].status = "launched" /\ store'[e].run = r
<1> SUFFICES ASSUME store'[e] # store[e] PROVE store'[e].status = "launched" /\ store'[e].run = r
    OBVIOUS
<1>0. /\ LauncherStep /\ lp \in Holding /\ e = obj.id
      /\ store \in [Entry -> Entries] /\ e \in Entry
    BY WritesOwn, QueueAssumption DEF OwnInv, FreshInv, OriginInv, Shape, TypeOK, StoreType, Entry
<1>1. CASE lp \in UpdateLabels
    <2>1. e = Visiting.id
        BY <1>0, <1>1 DEF OwnInv, FreshInv, HeldSettling
    <2>2. lp \notin Settled
        BY <1>0 DEF OwnInv, FreshInv, HeldSettling
    <2>3. Visiting.rec.run = r
        BY <1>1, <2>1, <2>2, OnDisk DEF OwnInv
    <2>4. lp = "limitWrite"
        BY <1>1, <2>2, <2>3 DEF UpdateLabels, Settled, OwnInv, RunsOf
    <2>5. LimitWrite
        BY <1>0, <2>4 DEF LauncherStep, PassBegin, ReadActive, ListLaunched, StopOverrun,
               LeaveLaunched, MarkEnded, MarkWrite, HandleRetry, IntrWrite, Reconcile,
               SecondChance, LinkSuccessor, Touch, ReadCapacity, Refuse, Accept, PassEnd,
               SkipGet, SkipWrite, SkipTouch, LaunchRefused, CreateRun, CreateFails, FailWrite,
               FailRetry, Claim, ClaimWrite, Confirm, LaunchTouch, Rollback, RollbackSkip,
               Revert, RollbackWrite
    <2>6. store'[e] = obj.rec
        BY <1>0, <2>5 DEF LimitWrite, Put
    <2> QED BY <2>3, <2>4, <2>6 DEF OwnInv, FreshInv, HeldSettling
<1>2. CASE lp \notin UpdateLabels
    <2>1. e = Head.id /\ lp \in LaunchLabels /\ store[e].status # "pending"
        BY <1>0, <1>2 DEF OwnInv, FreshInv, HeldLaunching, Holding, LaunchLabels
    <2>2. lp \in Handled
        BY <2>1, HeadInHand DEF OwnInv
    <2>3. lp # "rollbackWrite"
        BY <2>1 DEF OwnInv, RunsOf
    <2>4. lp \in {"failRetry", "confirm", "launchTouch"}
        BY <1>0, <1>2, <2>2, <2>3 DEF Handled, Holding
    <2>5. UNCHANGED store \/ (Put(obj) /\ lp = "launchTouch") \/ FailRetry
        BY <1>0, <2>4
           DEF LauncherStep, PassBegin, ReadActive, ListLaunched, StopOverrun, LimitWrite,
               LeaveLaunched, MarkEnded, MarkWrite, HandleRetry, IntrWrite, Reconcile,
               SecondChance, LinkSuccessor, Touch, ReadCapacity, Refuse, Accept, PassEnd,
               SkipGet, SkipWrite, SkipTouch, LaunchRefused, CreateRun, CreateFails, FailWrite,
               FailRetry, Claim, ClaimWrite, Confirm, LaunchTouch, Rollback, RollbackSkip,
               Revert, RollbackWrite, queue
    <2>6. lp = "launchTouch" => obj.rec = store[e]
        BY <1>0 DEF OwnInv, FreshInv, HeldLaunching
    <2>7. FailRetry => UNCHANGED store \/ store'[e] = store[e]
        BY <1>0, QueueAssumption
           DEF FailRetry, Requeue, queue, OwnInv, FreshInv, OriginInv, Shape, TypeOK, StoreType
    <2> QED BY <1>0, <2>5, <2>6, <2>7 DEF Put
<1> QED BY <1>1, <1>2

LEMMA NoOrphanStays ==
    ASSUME OneEpoch, OwnInv, [Next]_vars
    PROVE  NoOrphanRun'
<1> SUFFICES ASSUME NEW r \in ActiveRuns'
             PROVE  \/ /\ store'[runs'[r].entry].status = "launched"
                       /\ store'[runs'[r].entry].run = r
                    \/ r = newrun' /\ lp' \in {"claim", "claimWrite"}
    BY DEF NoOrphanRun
<1>0. runs \in [Run -> Runs] /\ store \in [Entry -> Entries]
    BY DEF OwnInv, FreshInv, OriginInv, Shape, TypeOK, RunsType, StoreType
<1>1. CASE CreateRun
    <2>1. PICK n \in Run : /\ newrun' = n
                           /\ runs' = [runs EXCEPT ![n] =
                                [st |-> "running", entry |-> Head.id,
                                 work |-> Head.rec.work, alive |-> TRUE,
                                 old |-> FALSE, conf |-> FALSE]]
        BY <1>1 DEF CreateRun
    <2>2. lp = "launch" /\ lp' = "claim" /\ store' = store
        BY <1>1 DEF CreateRun, Goto, queue
    <2>3. r # n => r \in ActiveRuns /\ runs'[r] = runs[r]
        BY <1>0, <2>1 DEF ActiveRuns
    <2> QED BY <2>1, <2>2, <2>3 DEF OwnInv, NoOrphanRun
<1>2. CASE ~CreateRun
    <2>1. r \in ActiveRuns /\ runs'[r].entry = runs[r].entry /\ runs[r].entry \in 1..born
        BY <1>2, NoNewRun, RunsStay DEF OwnInv, FreshInv, OriginInv, RunsOf, ActiveRuns
    <2>2. CASE store[runs[r].entry].status = "launched" /\ store[runs[r].entry].run = r
        BY <2>1, <2>2, ActiveKept
    <2>3. CASE r = newrun /\ lp \in {"claim", "claimWrite"}
        <3>1. CASE ~LauncherStep
            BY <2>3, <3>1, PassGoesOn DEF pass
        <3>2. /\ lp \in LaunchLabels /\ lp \in WithNew
              /\ store[Head.id].status = "pending"
            BY <2>3, HeadInHand DEF LaunchLabels, Handled, WithNew, WithRun, OwnInv
        <3>3. CASE LauncherStep /\ lp = "claim"
            <4>1. Claim
                BY <1>2, <3>3 DEF LauncherStep, PassBegin, ReadActive, ListLaunched, StopOverrun,
                   LimitWrite, LeaveLaunched, MarkEnded, MarkWrite, HandleRetry, IntrWrite,
                   Reconcile, SecondChance, LinkSuccessor, Touch, ReadCapacity, Refuse, Accept,
                   PassEnd, SkipGet, SkipWrite, SkipTouch, LaunchRefused, CreateFails, FailWrite,
                   FailRetry, ClaimWrite, Confirm, LaunchTouch, Rollback, RollbackSkip, Revert,
                   RollbackWrite
            <4> QED BY <2>3, <3>2, <4>1 DEF Claim, Goto
        <3>4. CASE LauncherStep /\ lp = "claimWrite"
            <4>1. ClaimWrite
                BY <3>4 DEF LauncherStep, PassBegin, ReadActive, ListLaunched, StopOverrun,
                   LimitWrite, LeaveLaunched, MarkEnded, MarkWrite, HandleRetry, IntrWrite,
                   Reconcile, SecondChance, LinkSuccessor, Touch, ReadCapacity, Refuse, Accept,
                   PassEnd, SkipGet, SkipWrite, SkipTouch, LaunchRefused, CreateRun, CreateFails,
                   FailWrite, FailRetry, Claim, Confirm, LaunchTouch, Rollback, RollbackSkip,
                   Revert, RollbackWrite
            <4>2. /\ obj.id = Head.id /\ obj.rec.status = "launched" /\ obj.rec.run = newrun
                BY <3>4 DEF OwnInv, FreshInv, HeldLaunching, Holding, UpdateLabels
            <4>3. runs[r].entry = Head.id
                BY <2>3, <3>2 DEF OwnInv, OwnRun
            <4>4. Head.id \in Entry
                BY <3>2, HeadInHand DEF OwnInv
            <4> QED BY <1>0, <2>1, <2>3, <4>1, <4>2, <4>3, <4>4 DEF ClaimWrite, Put
        <3> QED BY <2>3, <3>1, <3>3, <3>4
    <2> QED BY <2>1, <2>2, <2>3 DEF OwnInv, NoOrphanRun
<1> QED BY <1>1, <1>2

LEMMA OwnAlways == OneEpoch => (Spec => []OwnInv)
<1> SUFFICES ASSUME OneEpoch PROVE Spec => []OwnInv
    OBVIOUS
<1>1. Init => OwnRun /\ RunsOf /\ NoOrphanRun
    <2>1. Init => lp = "idle" /\ newrun = 0 /\ \A r \in Run : runs[r].st = "none"
        BY DEF Init
    <2> QED BY <2>1 DEF OwnRun, RunsOf, NoOrphanRun, ActiveRuns, ActiveStates, WithNew, WithRun,
                        Settled
<1>2. OwnInv /\ FreshInv' /\ [Next]_vars => OwnInv'
    BY OwnRunStays, TasksStay, EndedStays, NoOrphanStays DEF OwnInv, RunsOf
<1>3. Spec => []FreshInv
    BY FreshAlways DEF OneEpoch
<1> QED BY <1>1, <1>2, <1>3, PTL DEF Spec, OwnInv

\* _launch: at every step of every pass, whatever enqueues and worker exits
\* interleave with it, an active run outside its own launch is the run of a
\* launched entry.  A crash inside the launch does leave a run without one.
THEOREM EveryRunHasItsEntry == OneEpoch => (Spec => []NoOrphanRun)
<1> SUFFICES ASSUME OneEpoch PROVE Spec => []NoOrphanRun
    OBVIOUS
<1>1. OwnInv => NoOrphanRun
    BY DEF OwnInv
<1> QED BY <1>1, OwnAlways, PTL

----------------------------------------------------------------------------
(* A trio never runs more than its lane.                                   *)

\* The active runs of a trio; TrioCeiling bounds their number.
Lane(t) == {r \in ActiveRuns : TrioOf[runs[r].work] = t}

\* The run this pass creates is counted against its lane only at the end.
Uncounted == IF lp \in WithNew THEN {newrun} ELSE {}

\* The capacity the pass counts with covers what its lanes run by now.
LaneInv == lp \in {"loop"} \cup LaunchLabels =>
               \A t \in Trio : Cardinality(Lane(t) \ Uncounted) + free[t] <= TrioMax

LEMMA LaneFinite ==
    \A t, S : /\ IsFiniteSet(Lane(t)) /\ Cardinality(Lane(t)) \in Nat
              /\ IsFiniteSet(Lane(t) \ S) /\ Cardinality(Lane(t) \ S) \in Nat
              /\ Cardinality(Lane(t) \ S) <= Cardinality(Lane(t))
<1> TAKE t, S
<1>1. IsFiniteSet(Run) /\ Lane(t) \in SUBSET Run
    BY FS_Interval, QueueAssumption DEF Run, Lane, ActiveRuns
<1>2. IsFiniteSet(Lane(t))
    BY <1>1, FS_Subset
<1> QED
    BY <1>2, FS_Subset, FS_CardinalityType

\* _remaining_capacity counts entries; each active run has one of its own.
LEMMA CapacityCovers ==
    ASSUME OwnInv, LaunchInv, TrioCeiling, lp = "update", NEW t \in Trio
    PROVE  Cardinality(Lane(t)) + Remaining(t) <= TrioMax
<1> DEFINE U == {e \in Entry : /\ store[e].status = "launched"
                               /\ store[e].run \in active
                               /\ TrioOf[store[e].work] = t}
           f == [r \in Lane(t) |-> runs[r].entry]
<1>1. newrun = 0 /\ ActiveRuns \subseteq active
    BY QueueAssumption DEF OwnInv, OwnRun, Early, LaunchInv, SnapshotCovers, ActiveRuns, Run
<1>2. \A r \in ActiveRuns : /\ runs[r].entry \in Entry
                            /\ store[runs[r].entry].status = "launched"
                            /\ store[runs[r].entry].run = r
                            /\ store[runs[r].entry].work = runs[r].work
    BY QueueAssumption
       DEF OwnInv, NoOrphanRun, RunsOf, FreshInv, OriginInv, Shape, TypeOK, StoreType, Entry
<1>3. f \in Injection(Lane(t), U)
    <2>1. f \in [Lane(t) -> U]
        BY <1>1, <1>2 DEF Lane
    <2>2. \A r, s \in Lane(t) : f[r] = f[s] => r = s
        BY <1>2 DEF Lane
    <2> HIDE DEF f, U
    <2> QED BY <2>1, <2>2 DEF Injection, IsInjective
<1>4. IsFiniteSet(U) /\ Cardinality(U) \in Nat
    <2>1. IsFiniteSet(Entry) /\ U \in SUBSET Entry
        BY FS_Interval, QueueAssumption DEF Entry
    <2> HIDE DEF U
    <2> QED BY <2>1, FS_Subset, FS_CardinalityType
<1>5. Cardinality(Lane(t)) <= Cardinality(U)
    <2> HIDE DEF f, U
    <2> QED BY <1>3, <1>4, FS_Injection
<1>6. Remaining(t) = IF Cardinality(U) >= TrioMax THEN 0 ELSE TrioMax - Cardinality(U)
    BY DEF Remaining
<1>7. Cardinality(Lane(t)) <= TrioMax
    BY DEF TrioCeiling, Lane
<1>8. Cardinality(Lane(t)) \in Nat
    BY LaneFinite
<1> HIDE DEF U
<1> QED BY <1>4, <1>5, <1>6, <1>7, <1>8, QueueAssumption

\* What a step of the pass does to the capacity it counts with.
LEMMA LaneSteps ==
    ASSUME OwnInv, LauncherStep, ~CreateRun, lp' \in {"loop"} \cup LaunchLabels
    PROVE  \/ ReadCapacity
           \/ /\ lp \in {"loop"} \cup LaunchLabels /\ UNCHANGED free
              /\ newrun' = newrun /\ (lp \in WithNew <=> lp' \in WithNew)
           \/ lp = "confirm" /\ lp' = "rollback" /\ UNCHANGED free
              /\ runs[newrun].st \notin ActiveStates
           \/ LaunchTouch
<1> USE DEF Goto, LaunchLabels, WithNew, WithRun
<1>1. CASE \/ PassBegin \/ ReadActive \/ ListLaunched \/ StopOverrun \/ LimitWrite
          \/ LeaveLaunched \/ MarkEnded \/ MarkWrite \/ HandleRetry \/ IntrWrite
          \/ Reconcile \/ SecondChance \/ LinkSuccessor \/ Touch
    BY <1>1 DEF PassBegin, ReadActive, ListLaunched, StopOverrun, LimitWrite,
           LeaveLaunched, MarkEnded, MarkWrite, HandleRetry, IntrWrite, Reconcile,
           SecondChance, LinkSuccessor, Touch, LeavePass
<1>2. CASE Rollback
    <2>1. store[Head.id].status = "launched"
        BY <1>2 DEF Rollback, OwnInv, FreshInv, HeldLaunching, Holding, UpdateLabels
    <2> QED BY <1>2, <2>1 DEF Rollback
<1>3. CASE Claim
    <2>1. store[Head.id].status = "pending"
        BY <1>3, HeadInHand DEF Claim, OwnInv, Handled
    <2> QED BY <1>3, <2>1 DEF Claim
<1>4. CASE \/ Refuse \/ Accept \/ PassEnd \/ SkipGet \/ SkipWrite \/ SkipTouch
          \/ LaunchRefused \/ CreateFails \/ FailWrite \/ FailRetry \/ ClaimWrite
          \/ Confirm \/ RollbackSkip \/ Revert \/ RollbackWrite
    BY <1>4 DEF Refuse, Accept, PassEnd, SkipGet, SkipWrite, SkipTouch, LaunchRefused,
           CreateFails, FailWrite, FailRetry, ClaimWrite, Confirm, RollbackSkip, Revert,
           RollbackWrite, NextEntry, LeavePass, pass
<1> QED BY <1>1, <1>2, <1>3, <1>4 DEF LauncherStep

\* Fewer runs, with the same tasks, in each lane.
LEMMA LanesShrink ==
    ASSUME OwnInv, [Next]_vars, ~CreateRun
    PROVE  /\ \A t : Lane(t)' \subseteq Lane(t)
           /\ \A t, S, T : S \subseteq T => /\ Cardinality(Lane(t)' \ T) \in Nat
                                            /\ Cardinality(Lane(t)' \ T) <= Cardinality(Lane(t) \ S)
           /\ \A t : Cardinality(Lane(t)') <= Cardinality(Lane(t)) /\ Cardinality(Lane(t)') \in Nat
<1>1. ActiveRuns' \subseteq ActiveRuns /\ \A r \in Run : runs'[r].work = runs[r].work
    BY NoNewRun DEF OwnInv, FreshInv, OriginInv
<1>2. \A t : Lane(t)' \subseteq Lane(t)
    BY <1>1 DEF Lane, ActiveRuns
<1>3. ASSUME NEW t, NEW S, NEW T, S \subseteq T
      PROVE  /\ Cardinality(Lane(t)' \ T) \in Nat
             /\ Cardinality(Lane(t)' \ T) <= Cardinality(Lane(t) \ S)
    <2>1. (Lane(t)' \ T) \in SUBSET (Lane(t) \ S)
        BY <1>2, <1>3
    <2>2. IsFiniteSet(Lane(t) \ S)
        BY LaneFinite
    <2> QED BY <2>1, <2>2, FS_Subset, FS_CardinalityType
<1>4. ASSUME NEW t
      PROVE  Cardinality(Lane(t)') <= Cardinality(Lane(t)) /\ Cardinality(Lane(t)') \in Nat
    <2>1. Lane(t)' \in SUBSET Lane(t) /\ IsFiniteSet(Lane(t))
        BY <1>2, LaneFinite
    <2> QED BY <2>1, FS_Subset, FS_CardinalityType
<1> QED BY <1>2, <1>3, <1>4

\* The launch's own run joins its lane within the capacity that was left.
LEMMA LaneGrows ==
    ASSUME OwnInv, LaneInv, TrioCeiling, CreateRun
    PROVE  LaneInv' /\ TrioCeiling'
<1>0. /\ lp = "launch" /\ lp' = "claim" /\ UNCHANGED <<free, snap>>
      /\ free[TrioOf[Head.rec.work]] > 0 /\ runs \in [Run -> Runs] /\ free \in [Trio -> Nat]
    BY DEF CreateRun, Goto, OwnInv, FreshInv, OriginInv, Shape, PassShape, Committed, TypeOK,
           RunsType
<1>1. PICK n \in Run : /\ newrun' = n
                       /\ runs' = [runs EXCEPT ![n] =
                            [st |-> "running", entry |-> Head.id,
                             work |-> Head.rec.work, alive |-> TRUE,
                             old |-> FALSE, conf |-> FALSE]]
    BY DEF CreateRun
<1>2. \A q \in Run : q # n => runs'[q] = runs[q]
    BY <1>0, <1>1
<1>3. runs'[n].work = Head.rec.work
    BY <1>0, <1>1
<1>4. \A t \in Trio : Cardinality(Lane(t)) + free[t] <= TrioMax
    <2>1. lp \notin WithNew /\ lp \in LaunchLabels
        BY <1>0 DEF WithNew, WithRun, LaunchLabels
    <2>2. \A t : Lane(t) \ Uncounted = Lane(t)
        BY <2>1 DEF Uncounted
    <2> QED BY <2>1, <2>2 DEF LaneInv
<1>5. ASSUME NEW t \in Trio
      PROVE  /\ Cardinality(Lane(t)' \ {n}) <= Cardinality(Lane(t))
             /\ Cardinality(Lane(t)' \ {n}) \in Nat
             /\ Cardinality(Lane(t)') <= TrioMax
    <2>1. /\ (Lane(t)' \ {n}) \in SUBSET Lane(t)
          /\ t # TrioOf[Head.rec.work] => Lane(t)' \in SUBSET Lane(t)
          /\ Lane(t)' \in SUBSET (Lane(t) \cup {n})
        BY <1>0, <1>1, <1>2, <1>3 DEF Lane, ActiveRuns
    <2>2. IsFiniteSet(Lane(t)) /\ Cardinality(Lane(t)) \in Nat /\ free[t] \in Nat
        BY <1>0, LaneFinite
    <2>3. /\ Cardinality(Lane(t)' \ {n}) <= Cardinality(Lane(t))
          /\ Cardinality(Lane(t)' \ {n}) \in Nat
        BY <2>1, <2>2, FS_Subset, FS_CardinalityType
    <2>4. CASE t # TrioOf[Head.rec.work]
        <3>1. /\ Cardinality(Lane(t)') <= Cardinality(Lane(t))
              /\ Cardinality(Lane(t)') \in Nat
            BY <2>1, <2>2, <2>4, FS_Subset, FS_CardinalityType
        <3> QED BY <1>4, <2>2, <2>3, <3>1, QueueAssumption
    <2>5. CASE t = TrioOf[Head.rec.work]
        <3>1. /\ IsFiniteSet(Lane(t) \cup {n})
              /\ Cardinality(Lane(t) \cup {n}) <= Cardinality(Lane(t)) + 1
            <4>1. /\ IsFiniteSet(Lane(t) \cup {n})
                  /\ Cardinality(Lane(t) \cup {n}) =
                       IF n \in Lane(t) THEN Cardinality(Lane(t)) ELSE Cardinality(Lane(t)) + 1
                BY <2>2, FS_AddElement
            <4> QED BY <2>2, <4>1
        <3>2. /\ Cardinality(Lane(t)') <= Cardinality(Lane(t) \cup {n})
              /\ Cardinality(Lane(t)') \in Nat /\ Cardinality(Lane(t) \cup {n}) \in Nat
            BY <2>1, <3>1, FS_Subset, FS_CardinalityType
        <3> QED BY <1>0, <1>4, <2>2, <2>3, <2>5, <3>1, <3>2, QueueAssumption
    <2> QED BY <2>3, <2>4, <2>5
<1>6. Uncounted' = {n}
    BY <1>0, <1>1 DEF Uncounted, WithNew, WithRun
<1>7. LaneInv'
    <2> SUFFICES ASSUME NEW t \in Trio
                 PROVE  Cardinality(Lane(t)' \ Uncounted') + free'[t] <= TrioMax
        BY DEF LaneInv
    <2>1. free'[t] = free[t] /\ free[t] \in Nat /\ Cardinality(Lane(t)) \in Nat
        BY <1>0, LaneFinite
    <2> QED BY <1>4, <1>5, <1>6, <2>1, QueueAssumption
<1>8. TrioCeiling'
    BY <1>5 DEF TrioCeiling, Lane
<1> QED BY <1>7, <1>8

LEMMA LaneStays ==
    ASSUME OneEpoch, OwnInv, LaunchInv, LaneInv, TrioCeiling, [Next]_vars, ~CreateRun
    PROVE  LaneInv' /\ TrioCeiling'
<1>0. /\ free \in [Trio -> Nat] /\ newrun \in 0..MaxRuns
      /\ \A t : Cardinality(Lane(t)) \in Nat
      /\ \A t, S : Cardinality(Lane(t) \ S) \in Nat
    BY LaneFinite DEF OwnInv, FreshInv, OriginInv, Shape, TypeOK, PassType
<1>1. TrioCeiling'
    <2> SUFFICES ASSUME NEW t \in Trio PROVE Cardinality(Lane(t)') <= TrioMax
        BY DEF TrioCeiling, Lane
    <2>1. Cardinality(Lane(t)) <= TrioMax
        BY DEF TrioCeiling, Lane
    <2> QED BY <1>0, <2>1, LanesShrink, QueueAssumption
<1>2. ASSUME lp \in {"loop"} \cup LaunchLabels, UNCHANGED free, Uncounted \subseteq Uncounted',
             NEW t \in Trio
      PROVE  Cardinality(Lane(t)' \ Uncounted') + free'[t] <= TrioMax
    <2>1. Cardinality(Lane(t) \ Uncounted) + free[t] <= TrioMax
        BY <1>2 DEF LaneInv
    <2>2. /\ Cardinality(Lane(t)' \ Uncounted') \in Nat
          /\ Cardinality(Lane(t)' \ Uncounted') <= Cardinality(Lane(t) \ Uncounted)
        BY <1>2, LanesShrink
    <2>3. /\ free'[t] = free[t] /\ free[t] \in Nat /\ TrioMax \in Nat
          /\ Cardinality(Lane(t) \ Uncounted) \in Nat
        BY <1>0, <1>2, QueueAssumption
    <2> QED BY <2>1, <2>2, <2>3
<1>3. CASE ~LauncherStep
    <2>1. /\ lp' = lp /\ UNCHANGED free /\ newrun' = newrun
        BY <1>3, PassGoesOn DEF pass
    <2>2. Uncounted' = Uncounted
        BY <2>1 DEF Uncounted
    <2> QED BY <1>1, <1>2, <2>1, <2>2 DEF LaneInv
<1>4. CASE ReadCapacity
    <2>1. /\ lp = "update" /\ lp' = "loop" /\ free' = [t \in Trio |-> Remaining(t)]
        BY <1>4 DEF ReadCapacity, Goto
    <2>2. Uncounted' = {}
        BY <2>1 DEF Uncounted, WithNew, WithRun
    <2>3. ASSUME NEW t \in Trio
          PROVE  Cardinality(Lane(t)' \ Uncounted') + free'[t] <= TrioMax
        <3>1. Cardinality(Lane(t)) + Remaining(t) <= TrioMax
            BY <2>1, CapacityCovers
        <3>2. Cardinality(Lane(t)') <= Cardinality(Lane(t)) /\ Cardinality(Lane(t)') \in Nat
            BY LanesShrink
        <3>3. Lane(t)' \ Uncounted' = Lane(t)' /\ free'[t] = Remaining(t) /\ Remaining(t) \in Nat
            BY <2>1, <2>2, RemainingNat
        <3>4. Cardinality(Lane(t)) \in Nat /\ TrioMax \in Nat
            BY <1>0, QueueAssumption
        <3>5. Cardinality(Lane(t)' \ Uncounted') = Cardinality(Lane(t)')
            BY <3>3, Zenon
        <3> QED BY <3>1, <3>2, <3>3, <3>4, <3>5
    <2> QED BY <1>1, <2>3 DEF LaneInv
<1>5. CASE /\ lp \in {"loop"} \cup LaunchLabels /\ UNCHANGED free
           /\ newrun' = newrun /\ (lp \in WithNew <=> lp' \in WithNew)
    <2>1. Uncounted' = Uncounted
        BY <1>5 DEF Uncounted
    <2> QED BY <1>1, <1>2, <1>5, <2>1 DEF LaneInv
<1>6. CASE /\ lp = "confirm" /\ lp' = "rollback" /\ UNCHANGED free
           /\ runs[newrun].st \notin ActiveStates
    <2>1. Uncounted = {newrun} /\ Uncounted' = {} /\ lp \in LaunchLabels
        BY <1>6 DEF Uncounted, WithNew, WithRun, LaunchLabels
    <2>2. ASSUME NEW t \in Trio
          PROVE  Cardinality(Lane(t)' \ Uncounted') + free'[t] <= TrioMax
        <3>1. Lane(t) \ Uncounted = Lane(t)
            BY <1>6, <2>1 DEF Lane, ActiveRuns
        <3>2. Cardinality(Lane(t)) + free[t] <= TrioMax
            BY <2>1, <3>1 DEF LaneInv
        <3>3. Lane(t)' \ Uncounted' = Lane(t)'
            BY <2>1
        <3>4. Cardinality(Lane(t)') <= Cardinality(Lane(t)) /\ Cardinality(Lane(t)') \in Nat
            BY LanesShrink
        <3> QED BY <1>0, <1>6, <3>2, <3>3, <3>4, QueueAssumption
    <2> QED BY <1>1, <2>2 DEF LaneInv
<1>7. CASE LaunchTouch
    <2>1. /\ lp = "launchTouch" /\ lp' = "loop" /\ newrun' = newrun
          /\ free' = [free EXCEPT ![TrioOf[Head.rec.work]] = @ - 1]
        BY <1>7 DEF LaunchTouch, CountLaunch, NextEntry, Goto
    <2>2. Uncounted = {newrun} /\ Uncounted' = {} /\ lp \in LaunchLabels /\ lp \in WithNew
        BY <2>1 DEF Uncounted, WithNew, WithRun, LaunchLabels
    <2>3. newrun \in ActiveRuns => runs[newrun].work = Head.rec.work
        <3>1. runs[newrun].entry = Head.id
            BY <2>2 DEF OwnInv, OwnRun
        <3>2. store[Head.id].work = Head.rec.work
            <4>1. SameTask(Head)
                BY <2>2, OnDisk DEF OwnInv, FreshInv, OriginInv, Known
            <4> QED BY <4>1, OriginIs DEF SameTask
        <3> QED BY <3>1, <3>2 DEF OwnInv, RunsOf
    <2>4. ASSUME NEW t \in Trio
          PROVE  Cardinality(Lane(t)' \ Uncounted') + free'[t] <= TrioMax
        <3>1. Cardinality(Lane(t) \ {newrun}) + free[t] <= TrioMax
            BY <2>2 DEF LaneInv
        <3>2. Lane(t)' \ Uncounted' = Lane(t)'
            BY <2>2
        <3>3. /\ Cardinality(Lane(t)') <= Cardinality(Lane(t)) /\ Cardinality(Lane(t)') \in Nat
            BY LanesShrink
        <3>4. CASE newrun \in Lane(t)
            <4>1. t = TrioOf[Head.rec.work]
                BY <2>3, <3>4 DEF Lane
            <4>2. free'[t] = free[t] - 1
                BY <1>0, <2>1, <4>1
            <4>3. Cardinality(Lane(t) \ {newrun}) = Cardinality(Lane(t)) - 1
                <5>1. IsFiniteSet(Lane(t))
                    BY LaneFinite
                <5>2. Cardinality(Lane(t) \ {newrun}) =
                        IF newrun \in Lane(t) THEN Cardinality(Lane(t)) - 1
                                               ELSE Cardinality(Lane(t))
                    BY <5>1, FS_RemoveElement
                <5> QED BY <3>4, <5>2
            <4>4. Cardinality(Lane(t)) \in Nat /\ free[t] \in Nat /\ TrioMax \in Nat
                BY <1>0, QueueAssumption
            <4>5. Cardinality(Lane(t)' \ Uncounted') = Cardinality(Lane(t)')
                BY <3>2, Zenon
            <4> QED BY <3>1, <3>3, <4>2, <4>3, <4>4, <4>5
        <3>5. CASE newrun \notin Lane(t)
            <4>1. Lane(t) \ {newrun} = Lane(t)
                BY <3>5
            <4>2. free'[t] \in {free[t], free[t] - 1}
                BY <1>0, <2>1
            <4> QED BY <1>0, <3>1, <3>2, <3>3, <4>1, <4>2, QueueAssumption
        <3> QED BY <3>4, <3>5
    <2> QED BY <1>1, <2>4 DEF LaneInv
<1>8. CASE LauncherStep /\ lp' \notin {"loop"} \cup LaunchLabels
    BY <1>1, <1>8 DEF LaneInv
<1> QED BY <1>3, <1>4, <1>5, <1>6, <1>7, <1>8, LaneSteps

\* _remaining_capacity and the count each launch takes off it: however
\* enqueues and worker exits interleave with the passes, a trio never has more
\* active runs than its lane.
THEOREM LanesNeverOverCommitted == OneEpoch => (Spec => []TrioCeiling)
<1> SUFFICES ASSUME OneEpoch PROVE Spec => []TrioCeiling
    OBVIOUS
<1>1. Init => LaneInv /\ TrioCeiling
    <2> SUFFICES ASSUME Init PROVE LaneInv /\ TrioCeiling
        OBVIOUS
    <2>1. lp = "idle" /\ \A r \in Run : runs[r].st = "none"
        BY DEF Init
    <2>2. \A t : {r \in ActiveRuns : TrioOf[runs[r].work] = t} = {}
        BY <2>1 DEF ActiveRuns, ActiveStates
    <2> QED BY <2>1, <2>2, FS_EmptySet, QueueAssumption DEF LaneInv, LaunchLabels, TrioCeiling
<1>2. OwnInv /\ LaunchInv /\ LaneInv /\ TrioCeiling /\ [Next]_vars => LaneInv' /\ TrioCeiling'
    BY LaneGrows, LaneStays
<1> QED BY <1>1, <1>2, OwnAlways, LaunchInvHolds, PTL DEF Spec
=============================================================================
