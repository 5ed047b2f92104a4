------------------------ MODULE QueueLauncherProofs ------------------------
(* Proofs about the launcher pass, for any number of tasks, entries, runs, *)
(* REST calls and restarts.                                                *)
EXTENDS QueueLauncher, FiniteSetTheorems, WellFoundedInduction, TLAPS

----------------------------------------------------------------------------
(* The operators of the model.                                             *)

\* A listing: one object per entry id.
WellFormed(S) == /\ S \subseteq Objects
                 /\ \A x \in S : x.id # 0
                 /\ \A x, y \in S : x.id = y.id => x = y

\* A non-empty set of natural numbers has a least element.
LEMMA LeastNatural ==
    ASSUME NEW T, T \subseteq Nat, T # {}
    PROVE  \E x \in T : \A y \in T : x <= y
<1> DEFINE R == {ss \in Nat \X Nat : ss[1] < ss[2]}
<1>1. IsWellFoundedOn(R, Nat)
    BY NatLessThanWellFounded DEF OpToRel
<1>2. PICK x \in T : \A y \in T : ~(<<y, x>> \in R)
    <2> HIDE DEF R
    <2> QED BY <1>1, WFMin
<1>3. \A y \in T : ~(y < x)
    BY <1>2
<1> QED
    BY <1>3

\* The sort key of list() singles out one object of a non-empty listing.
LEMMA FirstIn ==
    ASSUME NEW S, WellFormed(S), S # {}
    PROVE  First(S) \in S
<1> DEFINE key(o) == (1 - o.rec.prio) * (MaxEntries + 1) + o.id
<1>1. \A o \in S : o.rec.prio \in {0, 1} /\ o.id \in 0..MaxEntries
    BY DEF WellFormed, Objects, Entries
<1>2. {key(o) : o \in S} \subseteq Nat
    BY <1>1, QueueAssumption
<1>3. PICK k \in {key(o) : o \in S} : \A j \in {key(o) : o \in S} : k <= j
    <2> HIDE DEF key
    <2> QED BY <1>2, LeastNatural
<1>4. PICK x \in S : \A y \in S : key(x) <= key(y)
    <2> HIDE DEF key
    <2> QED BY <1>3
<1>5. \A y \in S \ {x} : Before(x, y)
    BY <1>1, <1>4, QueueAssumption DEF WellFormed, Before
<1> QED
    BY <1>5 DEF First

\* Every field an operation changes keeps its type.
LEMMA EntryFields ==
    ASSUME NEW r \in Entries
    PROVE  /\ \A v \in Status : [r EXCEPT !.status = v] \in Entries
           /\ [r EXCEPT !.status = "absent"] \in Entries
           /\ \A v \in Status, n \in 0..MaxRuns :
                 [r EXCEPT !.status = v, !.run = n] \in Entries
           /\ \A v \in Causes : [r EXCEPT !.cause = v] \in Entries
           /\ [r EXCEPT !.review = TRUE] \in Entries
           /\ \A n \in 0..MaxEntries : [r EXCEPT !.succ = n] \in Entries
           /\ [r EXCEPT !.prio = 1 - @] \in Entries
           /\ [r EXCEPT !.limit = ~@] \in Entries
<1>1. 1 - r.prio \in {0, 1}
    BY DEF Entries
<1>2. \A p \in {0, 1} : [r EXCEPT !.prio = p] \in Entries
    BY Zenon DEF Entries
<1>3. [r EXCEPT !.prio = 1 - @] \in Entries
    BY <1>1, <1>2, Zenon
<1>4. \A v \in Status : [r EXCEPT !.status = v] \in Entries
    BY Zenon DEF Entries
<1>5. [r EXCEPT !.status = "absent"] \in Entries
    BY Zenon DEF Entries
<1>6. \A v \in Status, n \in 0..MaxRuns :
          [r EXCEPT !.status = v, !.run = n] \in Entries
    BY Zenon DEF Entries
<1>7. /\ \A v \in Causes : [r EXCEPT !.cause = v] \in Entries
      /\ [r EXCEPT !.review = TRUE] \in Entries
    BY Zenon DEF Entries
<1>8. \A n \in 0..MaxEntries : [r EXCEPT !.succ = n] \in Entries
    BY Zenon DEF Entries
<1>9. [r EXCEPT !.limit = ~@] \in Entries
    BY Zenon DEF Entries
<1> QED
    BY <1>3, <1>4, <1>5, <1>6, <1>7, <1>8, <1>9, Zenon

\* What Put writes is an entry; what Object and With build is an object.
LEMMA StoreWrite ==
    ASSUME store \in [Entry -> Entries], NEW o \in Objects
    PROVE  [store EXCEPT ![o.id] = o.rec] \in [Entry -> Entries]
BY DEF Objects

LEMMA ObjectRead ==
    ASSUME store \in [Entry -> Entries], NEW e \in Entry
    PROVE  Object(e) \in Objects /\ Object(e).id = e /\ Object(e).rec = store[e]
BY QueueAssumption DEF Object, Objects, Entry

LEMMA ObjectWith ==
    ASSUME NEW o \in Objects, NEW r \in Entries
    PROVE  With(o, r) \in Objects /\ With(o, r).id = o.id /\ With(o, r).rec = r
BY DEF With, Objects

LEMMA BlankEntry ==
    ASSUME NEW w \in Work
    PROVE  Blank(w) \in Entries
BY QueueAssumption DEF Blank, Entries, Status, NonTerminal, Causes

LEMMA NoObjectType == NoObject \in Objects /\ NoObject.id = 0
<1>1. (CHOOSE w \in Work : TRUE) \in Work
    BY QueueAssumption
<1>2. Blank(CHOOSE w \in Work : TRUE) \in Entries
    BY <1>1, BlankEntry
<1> QED
    BY <1>2, QueueAssumption DEF NoObject, Objects

\* list() returns one object per entry.
LEMMA ListingForm ==
    ASSUME store \in [Entry -> Entries], NEW st
    PROVE  WellFormed(Listing(st))
<1>1. \A e \in Entry : Object(e) \in Objects /\ Object(e).id = e /\ e # 0
    BY ObjectRead DEF Entry
<1> QED
    BY <1>1 DEF WellFormed, Listing

\* A lane's remaining capacity is not negative.
LEMMA RemainingNat == \A t \in Trio : Remaining(t) \in Nat
<1> SUFFICES ASSUME NEW t \in Trio PROVE Remaining(t) \in Nat
    OBVIOUS
<1> DEFINE U == {e \in Entry : /\ store[e].status = "launched"
                               /\ store[e].run \in active
                               /\ TrioOf[store[e].work] = t}
<1>1. IsFiniteSet(Entry)
    BY FS_Interval, QueueAssumption DEF Entry
<1>2. Cardinality(U) \in Nat
    BY <1>1, FS_Subset, FS_CardinalityType
<1> QED
    BY <1>2, QueueAssumption DEF Remaining

\* requeue adds one entry.
LEMMA RequeueType ==
    ASSUME store \in [Entry -> Entries], born \in 0..MaxEntries,
           NEW e \in Entry, NEW c \in Causes, NEW i \in 0..MaxRuns,
           CanRequeue(e), Requeue(e, c, i)
    PROVE  store' \in [Entry -> Entries] /\ born' \in 0..MaxEntries
<1> DEFINE b == (store[e].r1 \/ i # 0)
           n == store[e].attempt + 1
           new == [Blank(store[e].work) EXCEPT
               !.status = "pending", !.prio = store[e].prio,
               !.attempt = n, !.retryOf = e,
               !.cause = c, !.intr = i, !.limit = store[e].limit,
               !.r1 = b]
<1>1. store' = [store EXCEPT ![born + 1] = new] /\ born' = born + 1
    BY Zenon DEF Requeue
<1>2. /\ store[e].work \in Work /\ store[e].prio \in {0, 1}
      /\ n \in Nat /\ store[e].limit \in BOOLEAN
    BY DEF Entries
<1>3. b \in BOOLEAN
    BY Zenon
<1>4. e \in 0..MaxEntries /\ Blank(store[e].work) \in Entries
    BY <1>2, BlankEntry DEF Entry
<1>5. new \in Entries
    <2> HIDE DEF b, n
    <2> QED BY <1>2, <1>3, <1>4, QueueAssumption
               DEF Entries, Blank, Status, NonTerminal, Causes
<1>6. born < MaxEntries
    BY DEF CanRequeue
<1> HIDE DEF new
<1> QED
    BY <1>1, <1>5, <1>6, QueueAssumption DEF Entry

----------------------------------------------------------------------------
(* The shape of a pass: which locals are set at which label.               *)

UpdateLabels == {"limitWrite", "markWrite", "retry", "intrWrite", "recover",
                 "secondChance", "link", "touch"}
LaunchLabels == {"skip", "skipWrite", "skipTouch", "launch", "failWrite",
                 "failRetry", "claim", "claimWrite", "confirm", "launchTouch",
                 "rollback", "rollbackSkip", "rollbackWrite"}
Holding == UpdateLabels \cup
           {"skipWrite", "skipTouch", "failWrite", "failRetry", "claimWrite",
            "confirm", "launchTouch", "rollbackSkip", "rollbackWrite"}
WithRun == {"claim", "claimWrite", "confirm"}
Committed == {"launch", "claim", "claimWrite", "confirm", "launchTouch"}

PassShape ==
    /\ WellFormed(snap) /\ WellFormed(todo)
    /\ \A o \in todo : o.rec.run # 0
    /\ lp \in UpdateLabels => todo # {}
    /\ lp \in LaunchLabels => snap # {}
    /\ lp \in Holding => obj.id # 0
    /\ lp \in WithRun => newrun # 0
    /\ lp \in Committed => free[TrioOf[Head.rec.work]] > 0

CallShape == api.op \in {"edit", "priority", "setPriority", "delete", "limit"}
             => api.obj.id # 0

Shape == TypeOK /\ PassShape /\ CallShape
\* The object visited, in either half of the pass.
LEMMA Visit ==
    ASSUME Shape, todo # {}
    PROVE  /\ Visiting \in todo /\ Visiting \in Objects
           /\ Visiting.id \in Entry /\ Visiting.rec \in Entries
           /\ Visiting.rec.run \in Run
<1>1. Visiting \in todo /\ Visiting \in Objects /\ Visiting.id # 0
    BY FirstIn DEF Shape, PassShape, Visiting, WellFormed
<1>2. Visiting.rec.run # 0
    BY <1>1 DEF Shape, PassShape
<1> QED
    BY <1>1, <1>2, QueueAssumption DEF Objects, Entries, Entry, Run

LEMMA HeadOfSnap ==
    ASSUME Shape, snap # {}
    PROVE  /\ Head \in snap /\ Head \in Objects
           /\ Head.id \in Entry /\ Head.rec \in Entries /\ Head.rec.work \in Work
<1>1. Head \in snap /\ Head \in Objects /\ Head.id # 0
    BY FirstIn DEF Shape, PassShape, Head, WellFormed
<1> QED
    BY <1>1, QueueAssumption DEF Objects, Entries, Entry

\* The pass can be left from anywhere.
LEMMA LeaveShape ==
    ASSUME Shape, LeavePass, UNCHANGED <<queue, drain, calls>>,
           runs' \in [Run -> Runs], crashes' \in 0..MaxCrashes,
           api' = api \/ api' = NoCall
    PROVE  Shape'
<1>1. NoObject \in Objects /\ NoObject.id = 0
    BY NoObjectType
<1>2. StoreType' /\ RunsType'
    BY DEF Shape, TypeOK, StoreType, RunsType, queue
<1>3. FlagsType'
    BY Zenon DEF Shape, TypeOK, FlagsType, LeavePass
<1>4. PassType' /\ free' \in [Trio -> Nat]
    BY <1>1, QueueAssumption DEF LeavePass, PassType, Goto, LauncherLabels
<1>5. CallType'
    BY <1>1 DEF Shape, TypeOK, CallType, NoCall
<1>6. TypeOK'
    BY <1>2, <1>3, <1>4, <1>5 DEF TypeOK
<1>7. PassShape'
    BY DEF Shape, PassShape, LeavePass, Goto, WellFormed, Holding, UpdateLabels,
           LaunchLabels, WithRun, Committed
<1>8. CallShape'
    BY DEF Shape, CallShape, NoCall
<1> QED
    BY <1>6, <1>7, <1>8 DEF Shape

\* Locals == what the pass knows.
Locals == PassType /\ PassShape /\ free \in [Trio -> Nat]

LEMMA SettleLocals ==
    ASSUME Shape,
           \/ PassBegin \/ ReadActive \/ ListLaunched
           \/ StopOverrun \/ LimitWrite \/ LeaveLaunched \/ MarkEnded \/ MarkWrite
           \/ HandleRetry \/ IntrWrite \/ Reconcile \/ SecondChance \/ LinkSuccessor
           \/ Touch \/ ReadCapacity
    PROVE  Locals'
<1> USE DEF Locals, PassType, PassShape, Goto, LauncherLabels, UpdateLabels,
            LaunchLabels, Holding, WithRun, Committed
<1>0. /\ Locals /\ StoreType /\ RunsType
    BY DEF Shape, TypeOK
<1>1. NoObject \in Objects
    BY NoObjectType
<1>2. \A st : WellFormed(Listing(st)) /\ Listing(st) \subseteq Objects
    BY <1>0, ListingForm DEF StoreType, WellFormed
<1>3. CASE PassBegin
    BY <1>0, <1>2, <1>3 DEF PassBegin
<1>4. CASE ReadActive
    BY <1>0, <1>4 DEF ReadActive, ActiveRuns, Head
<1>5. CASE ListLaunched
    BY <1>0, <1>2, <1>5 DEF ListLaunched, WellFormed, Head
<1>6. CASE StopOverrun
    <2>1. Visiting \in Objects /\ Visiting.id \in Entry /\ Visiting.rec \in Entries
        BY <1>6, Visit DEF StopOverrun
    <2>2. [Visiting.rec EXCEPT !.cause = "time_limit"] \in Entries
        BY <2>1, EntryFields, Zenon DEF Causes
    <2>3. obj' \in Objects /\ obj'.id = Visiting.id
        BY <1>6, <2>1, <2>2, ObjectWith, Zenon DEF StopOverrun
    <2>4. /\ todo # {} /\ lp' = "limitWrite"
          /\ UNCHANGED <<snap, active, todo, newrun, launched, free>>
        BY <1>6 DEF StopOverrun
    <2> QED
        BY <1>0, <2>1, <2>3, <2>4 DEF Head, Entry
<1>7. CASE LimitWrite
    BY <1>0, <1>1, <1>7 DEF LimitWrite, Visited, WellFormed, Head
<1>8. CASE LeaveLaunched
    BY <1>0, <1>8 DEF LeaveLaunched, Visited, WellFormed, Head
<1>9. CASE MarkEnded
    <2>1. Visiting.id \in Entry
        BY <1>9, Visit DEF MarkEnded
    <2>2. Object(Visiting.id) \in Objects
        BY <1>0, <2>1, ObjectRead DEF StoreType
    <2> DEFINE now == Object(Visiting.id)
               to == Verdict(Visiting.rec.run)
    <2>3. /\ now \in Objects /\ now.id = Visiting.id /\ now.rec \in Entries
          /\ [now.rec EXCEPT !.status = to] \in Entries
        <3>1. now \in Objects /\ now.id = Visiting.id /\ now.rec \in Entries
            BY <2>1, <2>2, <1>0, ObjectRead DEF StoreType
        <3>2. to \in Status
            BY DEF Verdict, Status
        <3> HIDE DEF now, to
        <3> QED BY <3>1, <3>2, EntryFields, Zenon
    <2>4. With(now, [now.rec EXCEPT !.status = to]) \in Objects
          /\ With(now, [now.rec EXCEPT !.status = to]).id = Visiting.id
        <3> HIDE DEF now, to
        <3> QED BY <2>3, ObjectWith, Zenon
    <2>5. CASE LeavePass
        BY <1>9, <2>5, LeaveShape DEF MarkEnded, Shape, TypeOK, RunsType, CallType, rest
    <2>6. CASE ~LeavePass
        <3>1. /\ obj' = With(now, [now.rec EXCEPT !.status = to])
              /\ lp' = "markWrite" /\ todo # {}
              /\ UNCHANGED <<snap, active, todo, newrun, launched, free>>
            BY <1>9, <2>6, Zenon DEF MarkEnded, Goto
        <3> HIDE DEF now, to
        <3> QED BY <1>0, <2>1, <2>4, <3>1 DEF Head, Entry
    <2> QED
        BY <2>5, <2>6
<1>10. CASE MarkWrite
    BY <1>0, <1>10 DEF MarkWrite, Head, pass
<1>11. CASE HandleRetry
    BY <1>0, <1>11 DEF HandleRetry, Head, pass
<1>12. CASE IntrWrite
    <2>1. obj \in Objects /\ obj.id # 0 /\ obj.rec \in Entries
        BY <1>0, <1>12 DEF IntrWrite, Objects
    <2>2. [obj.rec EXCEPT !.cause = "restart"] \in Entries
        BY <2>1, EntryFields, Zenon DEF Causes
    <2>3. obj' \in Objects /\ obj'.id = obj.id
        BY <1>12, <2>1, <2>2, ObjectWith, Zenon DEF IntrWrite
    <2>4. /\ lp = "intrWrite" /\ lp' = "recover"
          /\ UNCHANGED <<snap, active, todo, newrun, launched, free>>
        BY <1>12 DEF IntrWrite
    <2> QED
        BY <1>0, <2>1, <2>3, <2>4 DEF Head
<1>13. CASE Reconcile
    <2>1. obj \in Objects /\ obj.id # 0 /\ obj.rec \in Entries
        BY <1>0, <1>13 DEF Reconcile, Objects
    <2>2. [obj.rec EXCEPT !.review = TRUE] \in Entries
        BY <2>1, EntryFields, Zenon
    <2>3. /\ With(obj, [obj.rec EXCEPT !.review = TRUE]) \in Objects
          /\ With(obj, [obj.rec EXCEPT !.review = TRUE]).id = obj.id
        BY <2>1, <2>2, ObjectWith, Zenon
    <2>4. obj' \in Objects /\ obj'.id = obj.id
        BY <1>13, <2>1, <2>3, Zenon DEF Reconcile
    <2>5. /\ lp = "recover" /\ lp' \in {"touch", "secondChance"}
          /\ UNCHANGED <<snap, active, todo, newrun, launched, free>>
        BY <1>13 DEF Reconcile
    <2> QED
        BY <1>0, <2>1, <2>4, <2>5 DEF Head
<1>14. CASE SecondChance
    <2>1. obj \in Objects /\ obj.id # 0 /\ obj.rec \in Entries
        BY <1>0, <1>14 DEF SecondChance, Objects
    <2>2. ASSUME CanRequeue(obj.id)
          PROVE  [obj.rec EXCEPT !.succ = born + 1] \in Entries
        <3>1. born + 1 \in 0..MaxEntries
            BY <1>0, <2>2, QueueAssumption DEF CanRequeue, StoreType
        <3> QED BY <2>1, <3>1, EntryFields, Zenon
    <2> DEFINE linked == [obj.rec EXCEPT !.succ = born + 1]
    <2>3. obj' \in Objects /\ obj'.id = obj.id
        <3>1. \/ CanRequeue(obj.id) /\ obj' = With(obj, linked)
              \/ obj' = obj
            BY <1>14, Zenon DEF SecondChance
        <3>2. CASE CanRequeue(obj.id) /\ obj' = With(obj, linked)
            <4>1. linked \in Entries
                BY <2>2, <3>2
            <4> HIDE DEF linked
            <4> QED BY <2>1, <3>2, <4>1, ObjectWith
        <3> QED BY <2>1, <3>1, <3>2
    <2>4. /\ lp = "secondChance" /\ lp' \in {"touch", "link"}
          /\ UNCHANGED <<snap, active, todo, newrun, launched, free>>
        BY <1>14 DEF SecondChance
    <2> QED
        BY <1>0, <2>1, <2>3, <2>4 DEF Head
<1>15. CASE LinkSuccessor
    BY <1>0, <1>15 DEF LinkSuccessor, Head, pass
<1>16. CASE Touch
    BY <1>0, <1>1, <1>16 DEF Touch, Visited, WellFormed, Head
<1>17. CASE ReadCapacity
    <2>1. \A t \in Trio : Remaining(t) \in Nat
        BY RemainingNat
    <2> QED
        BY <1>0, <1>17, <2>1 DEF ReadCapacity, Head
<1> QED
    BY <1>3, <1>4, <1>5, <1>6, <1>7, <1>8, <1>9, <1>10, <1>11, <1>12, <1>13,
       <1>14, <1>15, <1>16, <1>17

\* An entry read again with another status and run.
LEMMA Restated ==
    ASSUME StoreType, NEW e \in Entry, NEW v \in Status, NEW n \in 0..MaxRuns
    PROVE  /\ With(Object(e), [store[e] EXCEPT !.status = v]) \in Objects
           /\ With(Object(e), [store[e] EXCEPT !.status = v]).id = e
           /\ With(Object(e), [store[e] EXCEPT !.status = v, !.run = n]) \in Objects
           /\ With(Object(e), [store[e] EXCEPT !.status = v, !.run = n]).id = e
<1> DEFINE one == [store[e] EXCEPT !.status = v]
           two == [store[e] EXCEPT !.status = v, !.run = n]
<1>1. Object(e) \in Objects /\ Object(e).id = e /\ store[e] \in Entries
    BY ObjectRead DEF StoreType
<1>2. one \in Entries /\ two \in Entries
    BY <1>1, EntryFields, Zenon
<1> HIDE DEF one, two
<1>3. /\ With(Object(e), one) \in Objects /\ With(Object(e), one).id = e
      /\ With(Object(e), two) \in Objects /\ With(Object(e), two).id = e
    BY <1>1, <1>2, ObjectWith
<1> QED
    BY <1>3 DEF one, two

\* The second half of the pass.
LEMMA LaunchLocals ==
    ASSUME Shape,
           \/ Refuse \/ Accept \/ PassEnd \/ SkipGet \/ SkipWrite \/ SkipTouch
           \/ LaunchRefused \/ CreateRun \/ CreateFails \/ FailWrite \/ FailRetry
           \/ Claim \/ ClaimWrite \/ Confirm \/ LaunchTouch \/ Rollback
           \/ RollbackSkip \/ Revert \/ RollbackWrite
    PROVE  Locals'
<1> USE DEF Locals, PassType, PassShape, Goto, LauncherLabels, UpdateLabels,
            LaunchLabels, Holding, WithRun, Committed
<1>0. Locals /\ StoreType /\ RunsType
    BY DEF Shape, TypeOK
<1>1. NoObject \in Objects
    BY NoObjectType
<1>2. ASSUME snap # {}
      PROVE  /\ Head.id \in Entry /\ Head.id # 0 /\ Object(Head.id) \in Objects
             /\ Object(Head.id).id = Head.id /\ store[Head.id] \in Entries
             /\ TrioOf[Head.rec.work] \in Trio
    BY <1>0, <1>2, HeadOfSnap, ObjectRead DEF StoreType, Entry, Trio
<1>3. CASE Refuse
    BY <1>0, <1>3 DEF Refuse, pass, Head
<1>4. CASE Accept
    BY <1>0, <1>4 DEF Accept, pass, Head, Eligible
<1>5. CASE PassEnd
    BY <1>5, LeaveShape DEF PassEnd, Shape, TypeOK, RunsType, CallType, rest
<1>6. CASE SkipGet
    BY <1>0, <1>2, <1>6 DEF SkipGet, NextEntry, WellFormed
<1>7. CASE SkipWrite
    BY <1>0, <1>7 DEF SkipWrite, pass, Head
<1>8. CASE SkipTouch
    BY <1>0, <1>1, <1>8 DEF SkipTouch, NextEntry, WellFormed
<1>9. CASE LaunchRefused
    BY <1>0, <1>9 DEF LaunchRefused, pass, Head
<1>10. CASE CreateRun
    BY <1>0, <1>10, QueueAssumption DEF CreateRun, Head, Run
<1>11. CASE CreateFails
    <2> DEFINE failed == With(Object(Head.id),
                              [store[Head.id] EXCEPT !.status = "failed"])
    <2>1. snap # {} /\ Head.id \in Entry
        BY <1>0, <1>2, <1>11 DEF CreateFails
    <2>2. failed \in Objects /\ failed.id # 0
        <3>1. "failed" \in Status /\ 0 \in 0..MaxRuns /\ Head.id # 0
            BY <1>0, <2>1, QueueAssumption DEF Status, NonTerminal, Entry
        <3>2. failed \in Objects /\ failed.id = Head.id
            BY <1>0, <2>1, <3>1, Restated, Zenon
        <3> QED BY <3>1, <3>2, Zenon
    <2>3. CASE LeavePass
        BY <1>11, <2>3, LeaveShape
           DEF CreateFails, Shape, TypeOK, RunsType, CallType, rest
    <2>4. CASE ~LeavePass
        <3>1. /\ \/ obj' = failed /\ lp' = "failWrite" /\ snap' = snap
                 \/ NextEntry /\ obj' = obj
              /\ UNCHANGED <<active, todo, newrun, launched, free>>
            BY <1>11, <2>4, Zenon DEF CreateFails, Goto
        <3> HIDE DEF failed
        <3> QED BY <1>0, <2>1, <2>2, <3>1 DEF NextEntry, WellFormed
    <2> QED
        BY <2>3, <2>4
<1>12. CASE FailWrite
    BY <1>0, <1>1, <1>12 DEF FailWrite, NextEntry, WellFormed, Head
<1>13. CASE FailRetry
    BY <1>0, <1>1, <1>13 DEF FailRetry, NextEntry, WellFormed
<1>14. CASE Claim
    <2> DEFINE claimed == With(Object(Head.id), [store[Head.id] EXCEPT
                                   !.status = "launched", !.run = newrun])
    <2>1. snap # {} /\ Head.id \in Entry
        BY <1>0, <1>2, <1>14 DEF Claim
    <2>2. claimed \in Objects /\ claimed.id # 0
        <3>1. "launched" \in Status /\ newrun \in 0..MaxRuns /\ Head.id # 0
            BY <1>0, <2>1, QueueAssumption DEF Status, NonTerminal, Entry
        <3>2. claimed \in Objects /\ claimed.id = Head.id
            BY <1>0, <2>1, <3>1, Restated, Zenon
        <3> QED BY <3>1, <3>2, Zenon
    <2>3. CASE LeavePass
        BY <1>14, <2>3, LeaveShape
           DEF Claim, Shape, TypeOK, RunsType, CallType, rest
    <2>4. CASE ~LeavePass
        <3>1. /\ lp = "claim"
              /\ \/ /\ obj' = claimed /\ lp' = "claimWrite"
                    /\ UNCHANGED <<snap, active, todo, newrun, launched, free>>
                 \/ CountLaunch /\ UNCHANGED <<obj, active, todo, newrun>>
            BY <1>14, <2>4, Zenon DEF Claim, Goto
        <3> HIDE DEF claimed
        <3>2. CASE obj' = claimed /\ lp' = "claimWrite"
                   /\ UNCHANGED <<snap, active, todo, newrun, launched, free>>
            BY <1>0, <2>1, <2>2, <3>1, <3>2 DEF Head
        <3>3. CASE CountLaunch /\ UNCHANGED <<obj, active, todo, newrun>>
            BY <1>0, <1>2, <2>1, <3>1, <3>3 DEF CountLaunch, NextEntry, WellFormed
        <3> QED BY <3>1, <3>2, <3>3
    <2> QED
        BY <2>3, <2>4
<1>15. CASE ClaimWrite
    BY <1>0, <1>15 DEF ClaimWrite, pass, Head
<1>16. CASE Confirm
    BY <1>0, <1>16 DEF Confirm, pass, Head
<1>17. CASE LaunchTouch
    BY <1>0, <1>1, <1>2, <1>17 DEF LaunchTouch, CountLaunch, NextEntry, WellFormed
<1>18. CASE Rollback
    BY <1>0, <1>1, <1>2, <1>18, QueueAssumption DEF Rollback, Head
<1>19. CASE RollbackSkip
    BY <1>0, <1>1, <1>19 DEF RollbackSkip, Head
<1>20. CASE Revert
    <2> DEFINE reverted == With(Object(Head.id), [store[Head.id] EXCEPT
                                    !.status = "pending", !.run = 0])
    <2>1. snap # {} /\ Head.id \in Entry
        BY <1>0, <1>2, <1>20 DEF Revert
    <2>2. reverted \in Objects /\ reverted.id # 0
        <3>1. "pending" \in Status /\ 0 \in 0..MaxRuns /\ Head.id # 0
            BY <1>0, <2>1, QueueAssumption DEF Status, NonTerminal, Entry
        <3>2. reverted \in Objects /\ reverted.id = Head.id
            BY <1>0, <2>1, <3>1, Restated, Zenon
        <3> QED BY <3>1, <3>2, Zenon
    <2>3. /\ \/ obj' = reverted /\ lp' = "rollbackWrite" /\ snap' = snap
             \/ NextEntry /\ obj' = obj
          /\ UNCHANGED <<active, todo, newrun, launched, free>>
        BY <1>20, Zenon DEF Revert, Goto
    <2> HIDE DEF reverted
    <2> QED BY <1>0, <2>1, <2>2, <2>3 DEF NextEntry, WellFormed
<1>21. CASE RollbackWrite
    BY <1>0, <1>1, <1>21 DEF RollbackWrite, NextEntry, WellFormed
<1> QED
    BY <1>3, <1>4, <1>5, <1>6, <1>7, <1>8, <1>9, <1>10, <1>11, <1>12, <1>13,
       <1>14, <1>15, <1>16, <1>17, <1>18, <1>19, <1>20, <1>21

\* Every launcher step leaves entries in the entry files.
LEMMA LauncherWrites ==
    ASSUME Shape, LauncherStep
    PROVE  StoreType'
<1> USE DEF StoreType, queue
<1>0. /\ store \in [Entry -> Entries] /\ born \in 0..MaxEntries /\ obj \in Objects
      /\ PassShape /\ Locals'
    BY SettleLocals, LaunchLocals
       DEF Shape, TypeOK, LauncherStep, PassType
<1>1. [store EXCEPT ![obj.id] = obj.rec] \in [Entry -> Entries]
    BY <1>0, StoreWrite
<1>2. CASE Put(obj) /\ UNCHANGED born
    BY <1>0, <1>1, <1>2 DEF Put
<1>3. ASSUME obj.id \in Entry, CanRequeue(obj.id), NEW c \in Causes, NEW i \in 0..MaxRuns,
             Requeue(obj.id, c, i)
      PROVE  StoreType'
    BY <1>0, <1>3, RequeueType
<1>4. CASE LimitWrite \/ MarkWrite \/ LinkSuccessor \/ Touch \/ SkipWrite \/ SkipTouch
    BY <1>2, <1>4
       DEF LimitWrite, MarkWrite, LinkSuccessor, Touch, SkipWrite, SkipTouch
<1>5. CASE FailWrite \/ ClaimWrite \/ LaunchTouch \/ RollbackSkip \/ RollbackWrite
    BY <1>2, <1>5
       DEF FailWrite, ClaimWrite, LaunchTouch, RollbackSkip, RollbackWrite
<1>6. CASE IntrWrite \/ Reconcile
    <2>1. obj' \in Objects /\ born' = born
        BY <1>0, <1>6 DEF Locals, PassType, IntrWrite, Reconcile
    <2>2. store' = store \/ store' = [store EXCEPT ![obj'.id] = obj'.rec]
        BY <1>6, Zenon DEF IntrWrite, Reconcile, Put
    <2>3. [store EXCEPT ![obj'.id] = obj'.rec] \in [Entry -> Entries]
        BY <1>0, <2>1, StoreWrite
    <2> QED
        BY <1>0, <2>1, <2>2, <2>3
<1>7. CASE HandleRetry \/ FailRetry \/ SecondChance
    <2>1. lp \in Holding
        BY <1>7 DEF HandleRetry, FailRetry, SecondChance, Holding, UpdateLabels
    <2>2. obj.id \in Entry /\ obj.rec.run \in 0..MaxRuns
        BY <1>0, <2>1, QueueAssumption DEF PassShape, Objects, Entry, Entries
    <2>3. "backend" \in Causes /\ "restart" \in Causes /\ 0 \in 0..MaxRuns
        BY QueueAssumption DEF Causes
    <2>4. \/ UNCHANGED queue
          \/ CanRequeue(obj.id) /\ Requeue(obj.id, "backend", 0)
          \/ CanRequeue(obj.id) /\ Requeue(obj.id, "restart", obj.rec.run)
        BY <1>7, Zenon DEF HandleRetry, FailRetry, SecondChance
    <2> QED
        BY <1>0, <1>3, <2>2, <2>3, <2>4
<1>8. CASE UNCHANGED queue
    BY <1>0, <1>8
<1>9. \/ UNCHANGED queue \/ LimitWrite \/ MarkWrite \/ LinkSuccessor \/ Touch
      \/ SkipWrite \/ SkipTouch \/ FailWrite \/ ClaimWrite \/ LaunchTouch
      \/ RollbackSkip \/ RollbackWrite \/ IntrWrite \/ Reconcile \/ HandleRetry
      \/ FailRetry \/ SecondChance
    BY DEF LauncherStep, PassBegin, ReadActive, ListLaunched, StopOverrun,
           LeaveLaunched, MarkEnded, ReadCapacity, Refuse, Accept, PassEnd,
           SkipGet, LaunchRefused, CreateRun, CreateFails, Claim, Confirm,
           Rollback, Revert
<1> QED
    BY <1>4, <1>5, <1>6, <1>7, <1>8, <1>9

\* The supervisor's view of the runs keeps its type.
LEMMA LauncherRuns ==
    ASSUME Shape, LauncherStep
    PROVE  RunsType'
<1>0. RunsType
    BY DEF Shape, TypeOK
<1>1. CASE StopOverrun
    BY <1>0, <1>1, Visit DEF StopOverrun, RunsType, Runs, ActiveStates
<1>2. CASE CreateRun
    <2>1. Head.id \in 0..MaxEntries /\ Head.rec.work \in Work
        BY <1>2, HeadOfSnap DEF CreateRun, Shape, PassShape, LaunchLabels, Entry
    <2>2. PICK r \in Run : runs' = [runs EXCEPT ![r] =
                            [st |-> "running", entry |-> Head.id,
                             work |-> Head.rec.work, alive |-> TRUE,
                             old |-> FALSE, conf |-> FALSE]]
        BY <1>2 DEF CreateRun
    <2> QED
        BY <1>0, <2>1, <2>2 DEF RunsType, Runs, ActiveStates
<1>3. CASE Confirm
    BY <1>0, <1>3 DEF Confirm, RunsType, Runs
<1>4. CASE UNCHANGED runs
    BY <1>0, <1>4 DEF RunsType
<1>5. UNCHANGED runs \/ StopOverrun \/ CreateRun \/ Confirm
    BY DEF LauncherStep, PassBegin, ReadActive, ListLaunched, LimitWrite,
           LeaveLaunched, MarkEnded, MarkWrite, HandleRetry, IntrWrite,
           Reconcile, SecondChance, LinkSuccessor, Touch, ReadCapacity, Refuse,
           Accept, PassEnd, SkipGet, SkipWrite, SkipTouch, LaunchRefused,
           CreateFails, FailWrite, FailRetry, Claim, ClaimWrite, LaunchTouch,
           Rollback, RollbackSkip, Revert, RollbackWrite
<1> QED
    BY <1>1, <1>2, <1>3, <1>4, <1>5

\* The launcher leaves the drain flag, the calls and the restarts alone.
LEMMA LauncherFrame ==
    ASSUME Shape, LauncherStep
    PROVE  FlagsType' /\ CallType' /\ CallShape'
<1>1. /\ UNCHANGED <<drain, crashes, rest>>
      /\ UNCHANGED launched \/ LeavePass \/ CountLaunch
    BY Zenon
       DEF LauncherStep, PassBegin, ReadActive, ListLaunched, StopOverrun,
           LimitWrite, LeaveLaunched, MarkEnded, MarkWrite, HandleRetry,
           IntrWrite, Reconcile, SecondChance, LinkSuccessor, Touch,
           ReadCapacity, Refuse, Accept, PassEnd, SkipGet, SkipWrite, SkipTouch,
           LaunchRefused, CreateRun, CreateFails, FailWrite, FailRetry, Claim,
           ClaimWrite, Confirm, LaunchTouch, Rollback, RollbackSkip, Revert,
           RollbackWrite, pass
<1>2. FlagsType'
    BY <1>1, Zenon DEF Shape, TypeOK, FlagsType, LeavePass, CountLaunch
<1>3. CallType' /\ CallShape'
    BY <1>1 DEF Shape, TypeOK, CallType, CallShape, rest
<1> QED
    BY <1>2, <1>3

LEMMA LauncherShape ==
    ASSUME Shape, LauncherStep
    PROVE  Shape'
BY SettleLocals, LaunchLocals, LauncherWrites, LauncherRuns, LauncherFrame
   DEF LauncherStep, Locals, Shape, TypeOK

\* A REST handler.
LEMMA ApiShape ==
    ASSUME Shape, ApiStep
    PROVE  Shape'
<1>0. /\ StoreType /\ RunsType /\ FlagsType /\ CallType /\ Locals /\ CallShape
      /\ api.obj \in Objects /\ api.obj.rec \in Entries
    BY DEF Shape, TypeOK, Locals, CallType, Objects
<1>1. NoCall.op = "none" /\ NoCall.obj \in Objects
      /\ NoCall \in [op : {"none", "create", "edit", "priority", "setPriority",
                           "limit", "delete"}, obj : Objects]
    BY NoObjectType DEF NoCall
<1>2. RunsType' /\ Locals' /\ launched' = launched /\ crashes' = crashes
    BY <1>0 DEF ApiStep, CreateCheck, CreateWrite, PendingCheck, PriorityGet, PriorityWrite,
                EditWrite, DeleteFile, LimitRead, LimitSet, SetDrain,
                KeepLauncher, pass, RunsType, Locals, PassType, PassShape, Head
<1>3. FlagsType'
    BY <1>0, <1>2, Zenon
       DEF ApiStep, CreateCheck, CreateWrite, PendingCheck, PriorityGet, PriorityWrite,
           EditWrite, DeleteFile, LimitRead, LimitSet, SetDrain, FlagsType
<1> SUFFICES StoreType' /\ CallType' /\ CallShape'
    BY <1>2, <1>3 DEF Shape, TypeOK, Locals
<1>4. ASSUME NEW w \in Work, NEW keyed \in Keyed, CreateCheck(w, keyed)
      PROVE  StoreType' /\ CallType' /\ CallShape'
    <2> DEFINE fresh == [Blank(w) EXCEPT !.status = "pending", !.keyed = keyed]
    <2>1. keyed \in BOOLEAN /\ Blank(w) \in Entries
        BY BlankEntry, QueueAssumption
    <2>2. fresh \in Entries
        BY <2>1, QueueAssumption
           DEF Entries, Blank, Status, NonTerminal, Causes
    <2>3. api' = [op |-> "create", obj |-> [id |-> 0, rec |-> fresh]]
          /\ UNCHANGED <<queue, calls, crashes>>
        BY <1>4, Zenon DEF CreateCheck, Call, KeepLauncher
    <2> HIDE DEF fresh
    <2> QED
        BY <1>0, <2>2, <2>3, QueueAssumption
           DEF StoreType, CallType, CallShape, Objects, queue
<1>5. CASE CreateWrite
    <2> DEFINE o == [api.obj EXCEPT !.id = born + 1]
    <2>1. born + 1 \in 0..MaxEntries
        BY <1>0, <1>5, QueueAssumption DEF CreateWrite, StoreType
    <2>2. o \in Objects
        BY <1>0, <2>1, Zenon DEF Objects
    <2>3. store' = [store EXCEPT ![o.id] = o.rec] /\ born' = born + 1
        BY <1>5, Zenon DEF CreateWrite, Put
    <2> HIDE DEF o
    <2>4. StoreType'
        BY <1>0, <2>1, <2>2, <2>3, StoreWrite DEF StoreType
    <2> QED
        BY <1>0, <1>1, <1>2, <1>5, <2>4 DEF CreateWrite, CallType, CallShape
<1>6. ASSUME NEW e \in Entry, NEW op \in ApiOps, PendingCheck(e, op)
      PROVE  StoreType' /\ CallType' /\ CallShape'
    BY <1>0, <1>2, <1>6, ObjectRead, QueueAssumption
       DEF PendingCheck, Call, Counted, StoreType, CallType, CallShape, Entry, queue
<1>7. ASSUME NEW e \in Entry, LimitRead(e)
      PROVE  StoreType' /\ CallType' /\ CallShape'
    BY <1>0, <1>2, <1>7, ObjectRead, QueueAssumption
       DEF LimitRead, Call, Counted, StoreType, CallType, CallShape, Entry, queue
<1>8. CASE PriorityGet
    <2>1. api.obj.id \in Entry
        BY <1>0, <1>8, QueueAssumption DEF PriorityGet, PriorityWrite, CallShape, Objects, Entry
    <2> QED
        BY <1>0, <1>1, <1>2, <1>8, <2>1, ObjectRead
           DEF PriorityGet, PriorityWrite, Call, StoreType, CallType, CallShape, Entry, queue
<1>9. CASE PriorityWrite \/ LimitSet
    <2> DEFINE edited == [api.obj.rec EXCEPT !.prio = 1 - @]
               limited == [api.obj.rec EXCEPT !.limit = ~@]
    <2>1. edited \in Entries /\ limited \in Entries
        BY <1>0, EntryFields, Zenon
    <2>2. /\ \/ store' = [store EXCEPT ![With(api.obj, edited).id]
                                           = With(api.obj, edited).rec]
             \/ store' = [store EXCEPT ![With(api.obj, limited).id]
                                           = With(api.obj, limited).rec]
          /\ api' = NoCall /\ UNCHANGED <<born, calls>>
        BY <1>9, Zenon DEF PriorityWrite, LimitSet, Put
    <2> HIDE DEF edited, limited
    <2>3. With(api.obj, edited) \in Objects /\ With(api.obj, limited) \in Objects
        BY <1>0, <2>1, ObjectWith
    <2>4. StoreType'
        BY <1>0, <2>2, <2>3, StoreWrite DEF StoreType
    <2> QED
        BY <1>0, <1>1, <1>2, <2>2, <2>4 DEF CallType, CallShape
<1>10. CASE DeleteFile
    <2>1. \A e \in Entry : [store[e] EXCEPT !.status = "absent"] \in Entries
        BY <1>0, EntryFields, Zenon DEF StoreType
    <2>2. StoreType'
        BY <1>0, <1>10, <2>1, Zenon DEF DeleteFile, StoreType
    <2> QED
        BY <1>0, <1>1, <1>2, <1>10, <2>2 DEF DeleteFile, CallType, CallShape
<1>11. CASE SetDrain
    BY <1>0, <1>2, <1>11, QueueAssumption
       DEF SetDrain, Counted, StoreType, CallType, CallShape, queue
<1>12. CASE EditWrite
    <2>1. StoreType'
        BY <1>0, <1>12, StoreWrite DEF EditWrite, StoreType, Put
    <2> QED
        BY <1>0, <1>1, <1>2, <1>12, <2>1 DEF EditWrite, CallType, CallShape
<1> QED
    BY <1>4, <1>5, <1>6, <1>7, <1>8, <1>9, <1>10, <1>11, <1>12 DEF ApiStep

LEMMA RunFields ==
    ASSUME NEW u \in Runs
    PROVE  /\ \A v \in Ended : [u EXCEPT !.st = v, !.alive = FALSE] \in Runs
           /\ [u EXCEPT !.alive = FALSE] \in Runs
           /\ \A a, b \in BOOLEAN, v \in ActiveStates \cup Ended \cup {"none"} :
                 [u EXCEPT !.old = a, !.st = v, !.alive = b] \in Runs
BY Zenon DEF Runs

\* Workers and restarts.
LEMMA EnvironmentShape ==
    ASSUME Shape, Environment
    PROVE  Shape'
<1>0. RunsType /\ crashes \in 0..MaxCrashes
    BY DEF Shape, TypeOK, CallType
<1>1. ASSUME NEW r \in Run, RunEnds(r) \/ LingererExits(r)
      PROVE  Shape'
    <2>1. RunsType'
        <3>1. CASE RunEnds(r)
            <4>1. PICK v \in Ended : runs' = [runs EXCEPT ![r] =
                                         [runs[r] EXCEPT !.st = v, !.alive = FALSE]]
                BY <1>0, <3>1 DEF RunEnds, RunsType
            <4>2. [runs[r] EXCEPT !.st = v, !.alive = FALSE] \in Runs
                BY <1>0, RunFields, Zenon DEF RunsType
            <4> QED BY <1>0, <4>1, <4>2, Zenon DEF RunsType
        <3>2. CASE LingererExits(r)
            <4>1. [runs[r] EXCEPT !.alive = FALSE] \in Runs
                BY <1>0, RunFields, Zenon DEF RunsType
            <4> QED BY <1>0, <3>2, <4>1, Zenon DEF LingererExits, RunsType
        <3> QED BY <1>1, <3>1, <3>2
    <2> QED
        BY <1>1, <2>1
           DEF RunEnds, LingererExits, Shape, TypeOK, StoreType, FlagsType,
               PassType, CallType, PassShape, CallShape, queue, pass, rest, Head
<1>2. CASE Restart
    <2>1. RunsType'
        <3>1. PICK lost \in SUBSET ActiveRuns, linger \in SUBSET ActiveRuns :
                runs' = [r \in Run |->
                    [runs[r] EXCEPT !.old = runs[r].st # "none",
                                    !.st = IF r \in lost THEN "gone" ELSE @,
                                    !.alive = @ /\ (r \in lost => r \in linger)]]
            BY <1>2, Zenon DEF Restart
        <3>2. ASSUME NEW r \in Run
              PROVE  [runs[r] EXCEPT !.old = runs[r].st # "none",
                                     !.st = IF r \in lost THEN "gone" ELSE @,
                                     !.alive = @ /\ (r \in lost => r \in linger)]
                        \in Runs
            <4>1. runs[r] \in Runs
                BY <1>0 DEF RunsType
            <4>2. (IF r \in lost THEN "gone" ELSE runs[r].st)
                     \in ActiveStates \cup Ended \cup {"none"}
                BY <4>1, Zenon DEF Runs, Ended
            <4>3. /\ (runs[r].st # "none") \in BOOLEAN
                  /\ (runs[r].alive /\ (r \in lost => r \in linger)) \in BOOLEAN
                BY Zenon
            <4> QED BY <4>1, <4>2, <4>3, RunFields, Zenon
        <3> QED BY <3>1, <3>2, Zenon DEF RunsType
    <2>2. crashes' \in 0..MaxCrashes
        <3>1. crashes < MaxCrashes /\ crashes' = crashes + 1
            BY <1>2, Zenon DEF Restart
        <3> QED BY <1>0, <3>1, QueueAssumption
    <2>3. LeavePass /\ UNCHANGED <<queue, drain, calls>> /\ api' = NoCall
        BY <1>2 DEF Restart
    <2> QED
        BY <2>1, <2>2, <2>3, LeaveShape DEF RunsType
<1> QED
    BY <1>1, <1>2 DEF Environment

LEMMA InitShape == Init => Shape
<1> SUFFICES ASSUME Init PROVE Shape
    OBVIOUS
<1> DEFINE w == CHOOSE v \in Work : TRUE
<1>1. w \in Work
    BY QueueAssumption
<1>2. Blank(w) \in Entries
    BY <1>1, BlankEntry
<1>3. /\ store = [e \in Entry |-> Blank(w)] /\ born = 0
      /\ runs = [r \in Run |-> [st |-> "none", entry |-> 0, work |-> w,
                                alive |-> FALSE, old |-> FALSE, conf |-> FALSE]]
      /\ drain = FALSE /\ crashes = 0
      /\ lp = "idle" /\ snap = {} /\ active = {} /\ todo = {}
      /\ obj = NoObject /\ newrun = 0 /\ launched = FALSE
      /\ free = [t \in Trio |-> 0]
      /\ api = NoCall /\ calls = 0
    BY Zenon DEF Init
<1> HIDE DEF w
<1>4. StoreType
    BY <1>2, <1>3, QueueAssumption DEF StoreType
<1>5. RunsType
    BY <1>1, <1>3, QueueAssumption DEF RunsType, Runs
<1>6. FlagsType
    BY <1>3, Zenon DEF FlagsType
<1>7. PassType /\ PassShape /\ free \in [Trio -> Nat]
    BY <1>3, NoObjectType, QueueAssumption
       DEF PassType, PassShape, LauncherLabels, WellFormed, UpdateLabels,
           LaunchLabels, Holding, WithRun, Committed
<1>8. CallType /\ CallShape
    BY <1>3, NoObjectType, QueueAssumption DEF CallType, CallShape, NoCall
<1> QED
    BY <1>4, <1>5, <1>6, <1>7, <1>8 DEF Shape, TypeOK

LEMMA ShapeStep == Shape /\ [Next]_vars => Shape'
<1> SUFFICES ASSUME Shape, [Next]_vars PROVE Shape'
    OBVIOUS
<1>1. CASE UNCHANGED vars
    BY <1>1 DEF vars, pass, rest, Shape, TypeOK, StoreType, RunsType, FlagsType,
                PassType, CallType, PassShape, CallShape, Head
<1> QED
    BY <1>1, LauncherShape, ApiShape, EnvironmentShape DEF Next

\* Type correctness of the queue and the launcher pass (QueueEntry, _run_pass),
\* whatever REST calls and restarts interleave: every file written is an entry,
\* every run id read names a run, and no lane's free count goes negative.
THEOREM QueueTypeCorrect == Spec => []TypeOK
<1>1. Spec => []Shape
    BY InitShape, ShapeStep, PTL DEF Spec
<1>2. Shape => TypeOK
    BY DEF Shape
<1> QED
    BY <1>1, <1>2, PTL

----------------------------------------------------------------------------
(* At most one run per workspace, and at most node_max_runs of them.       *)
(*                                                                         *)
(* The pass reads the active runs once and decides on that snapshot, so    *)
(* the invariant says how stale it can be: everything active is in the     *)
(* snapshot or is the one run this pass created.                           *)

SnapshotCovers == lp \notin {"idle", "active"} => ActiveRuns \subseteq active \cup {newrun}

OneLaunch == /\ newrun # 0 => launched \/ lp \in WithRun \cup {"launchTouch"}
             /\ launched => lp \notin Committed

Decided == lp = "launch" => /\ Cardinality(active) < NodeMax
                            /\ \A r \in active : Workspace(r) # WsOf[Head.rec.work]

LaunchInv == /\ Shape /\ SnapshotCovers /\ OneLaunch /\ Decided
             /\ WorkspaceExclusive /\ NodeCeiling

LEMMA RunUpdates ==
    ASSUME NEW u \in Runs
    PROVE  /\ \A v \in Ended : /\ [u EXCEPT !.st = v, !.alive = FALSE].st = v
                               /\ [u EXCEPT !.st = v, !.alive = FALSE].work = u.work
           /\ [u EXCEPT !.alive = FALSE].st = u.st
           /\ [u EXCEPT !.alive = FALSE].work = u.work
BY Zenon DEF Runs

\* Only create_run adds an active run, and no run changes its workspace.
LEMMA NoNewRun ==
    ASSUME Shape, [Next]_vars, ~CreateRun
    PROVE  /\ ActiveRuns' \subseteq ActiveRuns
           /\ \A r \in Run : runs'[r].work = runs[r].work
<1>0. runs \in [Run -> Runs]
    BY DEF Shape, TypeOK, RunsType
<1>1. CASE UNCHANGED runs
    BY <1>1 DEF ActiveRuns
<1>2. CASE StopOverrun
    BY <1>0, <1>2, Visit DEF StopOverrun, ActiveRuns, ActiveStates, Runs
<1>3. CASE Confirm
    BY <1>0, <1>3 DEF Confirm, ActiveRuns, Runs
<1>4. ASSUME NEW r \in Run, RunEnds(r) \/ LingererExits(r)
      PROVE  /\ ActiveRuns' \subseteq ActiveRuns
             /\ \A q \in Run : runs'[q].work = runs[q].work
    <2>1. CASE RunEnds(r)
        <3>1. PICK v \in Ended : runs' = [runs EXCEPT ![r] =
                                     [runs[r] EXCEPT !.st = v, !.alive = FALSE]]
            BY <1>0, <2>1 DEF RunEnds
        <3>2. [runs[r] EXCEPT !.st = v, !.alive = FALSE].st = v
              /\ [runs[r] EXCEPT !.st = v, !.alive = FALSE].work = runs[r].work
            BY <1>0, RunUpdates, Zenon
        <3>3. \A q \in Run : /\ runs'[q].work = runs[q].work
                             /\ runs'[q].st = IF q = r THEN v ELSE runs[q].st
            BY <1>0, <3>1, <3>2, Zenon
        <3> QED BY <3>3 DEF ActiveRuns, ActiveStates, Ended
    <2>2. CASE LingererExits(r)
        <3>1. [runs[r] EXCEPT !.alive = FALSE].st = runs[r].st
              /\ [runs[r] EXCEPT !.alive = FALSE].work = runs[r].work
            BY <1>0, RunUpdates, Zenon
        <3>2. \A q \in Run : runs'[q].work = runs[q].work /\ runs'[q].st = runs[q].st
            BY <1>0, <2>2, <3>1, Zenon DEF LingererExits
        <3> QED BY <3>2 DEF ActiveRuns
    <2> QED BY <1>4, <2>1, <2>2
<1>5. CASE Restart
    <2>1. \A r \in Run : /\ runs'[r].work = runs[r].work
                         /\ runs'[r].st \in {runs[r].st, "gone"}
        <3>1. PICK lost \in SUBSET ActiveRuns, linger \in SUBSET ActiveRuns :
                runs' = [r \in Run |->
                    [runs[r] EXCEPT !.old = runs[r].st # "none",
                                    !.st = IF r \in lost THEN "gone" ELSE @,
                                    !.alive = @ /\ (r \in lost => r \in linger)]]
            BY <1>5, Zenon DEF Restart
        <3>2. \A r \in Run : /\ runs'[r].work = runs[r].work
                             /\ runs'[r].st = IF r \in lost THEN "gone" ELSE runs[r].st
            <4> TAKE r \in Run
            <4> DEFINE a == runs[r].st # "none"
                       v == IF r \in lost THEN "gone" ELSE runs[r].st
                       b == runs[r].alive /\ (r \in lost => r \in linger)
            <4>1. runs'[r] = [runs[r] EXCEPT !.old = a, !.st = v, !.alive = b]
                BY <3>1, Zenon
            <4>2. /\ [runs[r] EXCEPT !.old = a, !.st = v, !.alive = b].st = v
                  /\ [runs[r] EXCEPT !.old = a, !.st = v, !.alive = b].work = runs[r].work
                <5>1. runs[r] \in Runs
                    BY <1>0
                <5> HIDE DEF a, v, b
                <5> QED BY <5>1, Zenon DEF Runs
            <4> QED BY <4>1, <4>2, Zenon
        <3> QED BY <3>2, Zenon
    <2> QED
        BY <2>1 DEF ActiveRuns, ActiveStates
<1>6. CASE LauncherStep
    <2>1. UNCHANGED runs \/ StopOverrun \/ Confirm
        BY <1>6
           DEF LauncherStep, PassBegin, ReadActive, ListLaunched, LimitWrite,
               LeaveLaunched, MarkEnded, MarkWrite, HandleRetry, IntrWrite,
               Reconcile, SecondChance, LinkSuccessor, Touch, ReadCapacity,
               Refuse, Accept, PassEnd, SkipGet, SkipWrite, SkipTouch,
               LaunchRefused, CreateFails, FailWrite, FailRetry, Claim,
               ClaimWrite, LaunchTouch, Rollback, RollbackSkip, Revert,
               RollbackWrite
    <2> QED
        BY <1>1, <1>2, <1>3, <2>1
<1>7. CASE ApiStep
    BY <1>1, <1>7
       DEF ApiStep, CreateCheck, CreateWrite, PendingCheck, PriorityGet, PriorityWrite,
           EditWrite, DeleteFile, LimitRead, LimitSet, SetDrain, KeepLauncher
<1>8. CASE UNCHANGED vars
    BY <1>1, <1>8 DEF vars
<1> QED
    BY <1>4, <1>5, <1>6, <1>7, <1>8 DEF Next, Environment

\* Fewer active runs in unchanged workspaces break neither limit.
LEMMA LimitsKept ==
    ASSUME LaunchInv, [Next]_vars, ~CreateRun
    PROVE  WorkspaceExclusive' /\ NodeCeiling'
<1>1. /\ ActiveRuns' \subseteq ActiveRuns
      /\ \A r \in Run : runs'[r].work = runs[r].work
    BY NoNewRun DEF LaunchInv
<1>2. WorkspaceExclusive'
    BY <1>1 DEF LaunchInv, WorkspaceExclusive, Workspace, ActiveRuns
<1>3. IsFiniteSet(Run) /\ ActiveRuns \subseteq Run
    BY FS_Interval, QueueAssumption DEF Run, ActiveRuns
<1>4. /\ IsFiniteSet(ActiveRuns) /\ IsFiniteSet(ActiveRuns')
      /\ Cardinality(ActiveRuns') <= Cardinality(ActiveRuns)
      /\ Cardinality(ActiveRuns) \in Nat /\ Cardinality(ActiveRuns') \in Nat
    BY <1>1, <1>3, FS_Subset, FS_CardinalityType
<1>5. NodeCeiling'
    BY <1>4, QueueAssumption DEF LaunchInv, NodeCeiling
<1> QED
    BY <1>2, <1>5

\* create_run itself: the run it adds is the only one the decision did not see.
LEMMA CreateKeeps ==
    ASSUME LaunchInv, CreateRun
    PROVE  SnapshotCovers' /\ OneLaunch' /\ Decided' /\ WorkspaceExclusive' /\ NodeCeiling'
<1>0. /\ runs \in [Run -> Runs] /\ active \subseteq Run /\ snap # {}
      /\ lp = "launch" /\ lp' = "claim" /\ ~launched /\ newrun = 0
      /\ UNCHANGED <<snap, active, launched>>
    BY DEF LaunchInv, Shape, TypeOK, RunsType, PassType, PassShape, OneLaunch,
           CreateRun, LaunchLabels, Committed, WithRun, Goto
<1>1. PICK r \in Run : /\ runs[r].st \notin ActiveStates
                       /\ runs' = [runs EXCEPT ![r] =
                              [st |-> "running", entry |-> Head.id,
                               work |-> Head.rec.work, alive |-> TRUE,
                               old |-> FALSE, conf |-> FALSE]]
                       /\ newrun' = r
    BY DEF CreateRun, Unused
<1>2. /\ ActiveRuns' = ActiveRuns \cup {r}
      /\ Workspace(r)' = WsOf[Head.rec.work]
      /\ \A q \in ActiveRuns : Workspace(q)' = Workspace(q)
    BY <1>0, <1>1 DEF ActiveRuns, ActiveStates, Workspace
<1>3. ActiveRuns \subseteq active
    BY <1>0, QueueAssumption DEF LaunchInv, SnapshotCovers, ActiveRuns, Run
<1>4. SnapshotCovers' /\ OneLaunch' /\ Decided'
    BY <1>0, <1>1, <1>2, <1>3
       DEF SnapshotCovers, OneLaunch, Decided, WithRun
<1>5. WorkspaceExclusive'
    BY <1>0, <1>2, <1>3 DEF LaunchInv, WorkspaceExclusive, Decided
<1>6. NodeCeiling'
    <2>1. IsFiniteSet(Run)
        BY FS_Interval, QueueAssumption DEF Run
    <2>2. IsFiniteSet(active) /\ IsFiniteSet(ActiveRuns)
          /\ Cardinality(ActiveRuns) <= Cardinality(active)
          /\ Cardinality(active) \in Nat /\ Cardinality(ActiveRuns) \in Nat
        BY <1>0, <1>3, <2>1, FS_Subset, FS_CardinalityType
    <2>3. Cardinality(ActiveRuns') <= Cardinality(ActiveRuns) + 1
          /\ Cardinality(ActiveRuns') \in Nat
        <3>1. /\ IsFiniteSet(ActiveRuns \cup {r})
              /\ Cardinality(ActiveRuns \cup {r}) =
                     IF r \in ActiveRuns THEN Cardinality(ActiveRuns)
                                         ELSE Cardinality(ActiveRuns) + 1
            BY <2>2, FS_AddElement
        <3> QED BY <1>2, <2>2, <3>1
    <2>4. Cardinality(active) < NodeMax
        BY <1>0 DEF LaunchInv, Decided
    <2> QED
        BY <2>2, <2>3, <2>4, QueueAssumption DEF NodeCeiling
<1> QED
    BY <1>4, <1>5, <1>6

\* The snapshot the pass decides on stays a cover of what is active.
LEMMA SnapshotKept ==
    ASSUME LaunchInv, [Next]_vars, ~CreateRun
    PROVE  SnapshotCovers' /\ OneLaunch' /\ Decided'
<1> USE DEF SnapshotCovers, OneLaunch, Decided, WithRun, Committed, Goto
<1>0. /\ Shape /\ SnapshotCovers /\ OneLaunch /\ Decided /\ lp \in LauncherLabels
      /\ active \subseteq Run /\ ActiveRuns \subseteq Run
    BY DEF LaunchInv, Shape, TypeOK, PassType, ActiveRuns
<1>1. /\ ActiveRuns' \subseteq ActiveRuns
      /\ \A r \in Run : Workspace(r)' = Workspace(r)
    BY NoNewRun DEF LaunchInv, Workspace
<1>2. CASE LeavePass
    BY <1>1, <1>2 DEF LeavePass
<1>3. CASE UNCHANGED <<lp, snap, active, newrun, launched>>
    BY <1>0, <1>1, <1>3 DEF Head
<1>4. CASE PassBegin \/ ReadActive \/ ListLaunched
    BY <1>0, <1>1, <1>4 DEF PassBegin, ReadActive, ListLaunched
<1>5. CASE \/ StopOverrun \/ LimitWrite \/ LeaveLaunched \/ MarkWrite \/ HandleRetry
           \/ IntrWrite \/ Reconcile \/ SecondChance \/ LinkSuccessor \/ Touch
           \/ ReadCapacity
    BY <1>0, <1>1, <1>5
       DEF StopOverrun, LimitWrite, LeaveLaunched, MarkWrite, HandleRetry,
           IntrWrite, Reconcile, SecondChance, LinkSuccessor, Touch,
           ReadCapacity, pass
<1>6. CASE MarkEnded
    BY <1>0, <1>1, <1>2, <1>6 DEF MarkEnded
<1>7. CASE Accept
    <2>0. IsFiniteSet(Run)
        BY FS_Interval, QueueAssumption DEF Run
    <2>1. Cardinality(active) \in Nat
        BY <1>0, <2>0, FS_Subset, FS_CardinalityType
    <2>2. /\ ~launched /\ lp = "loop" /\ lp' = "launch"
          /\ UNCHANGED <<snap, active, newrun, launched>>
          /\ \A r \in active : Workspace(r) # WsOf[Head.rec.work]
        BY <1>7 DEF Accept, Eligible, pass
    <2>3. Cardinality(active) < NodeMax
        BY <1>7, <2>1, <2>2, QueueAssumption DEF Accept, Eligible, NodeActive
    <2> QED
        BY <1>0, <1>1, <2>2, <2>3 DEF Head
<1>8. CASE \/ Refuse \/ SkipGet \/ SkipWrite \/ SkipTouch \/ LaunchRefused
           \/ FailWrite \/ FailRetry \/ RollbackSkip \/ Revert \/ RollbackWrite
    BY <1>0, <1>1, <1>8
       DEF Refuse, SkipGet, SkipWrite, SkipTouch, LaunchRefused, FailWrite,
           FailRetry, RollbackSkip, Revert, RollbackWrite, NextEntry, pass
<1>9. CASE PassEnd \/ CreateFails \/ Claim
    <2>1. CASE Claim /\ ~LeavePass
        <3>1. /\ lp = "claim" /\ UNCHANGED <<active, newrun>>
              /\ \/ lp' = "claimWrite" /\ UNCHANGED <<snap, launched>>
                 \/ launched' /\ lp' = "loop"
            BY <2>1, Zenon DEF Claim, CountLaunch, NextEntry
        <3> QED BY <1>0, <1>1, <3>1
    <2>2. CASE CreateFails /\ ~LeavePass
        <3>1. /\ lp = "launch" /\ lp' \in {"failWrite", "loop"}
              /\ UNCHANGED <<active, newrun, launched>>
            BY <2>2, Zenon DEF CreateFails, NextEntry
        <3> QED BY <1>0, <1>1, <3>1
    <2> QED BY <1>2, <1>9, <2>1, <2>2 DEF PassEnd
<1>10. CASE ClaimWrite \/ Confirm \/ LaunchTouch
    BY <1>0, <1>1, <1>10
       DEF ClaimWrite, Confirm, LaunchTouch, CountLaunch, NextEntry, pass
<1>11. CASE Rollback
    BY <1>0, <1>1, <1>11 DEF Rollback, ActiveRuns
<1>12. CASE ApiStep \/ (\E r \in Run : RunEnds(r) \/ LingererExits(r))
    BY <1>3, <1>12
       DEF ApiStep, CreateCheck, CreateWrite, PendingCheck, PriorityGet, PriorityWrite,
           EditWrite, DeleteFile, LimitRead, LimitSet, SetDrain, KeepLauncher,
           RunEnds, LingererExits, pass
<1>13. CASE Restart
    BY <1>2, <1>13 DEF Restart
<1>14. CASE UNCHANGED vars
    BY <1>3, <1>14 DEF vars, pass
<1> QED
    BY <1>4, <1>5, <1>6, <1>7, <1>8, <1>9, <1>10, <1>11, <1>12, <1>13, <1>14
       DEF Next, LauncherStep, Environment

LEMMA LaunchInvHolds == Spec => []LaunchInv
<1>1. Init => LaunchInv
    <2> SUFFICES ASSUME Init PROVE LaunchInv
        OBVIOUS
    <2>1. ActiveRuns = {}
        BY DEF Init, ActiveRuns, ActiveStates
    <2>2. Cardinality(ActiveRuns) = 0
        BY <2>1, FS_EmptySet
    <2>3. lp = "idle" /\ newrun = 0 /\ ~launched
        BY Zenon DEF Init
    <2> QED
        BY <2>1, <2>2, <2>3, InitShape, QueueAssumption
           DEF LaunchInv, SnapshotCovers, OneLaunch, Decided, WorkspaceExclusive,
               NodeCeiling, Committed
<1>2. LaunchInv /\ [Next]_vars => LaunchInv'
    BY ShapeStep, CreateKeeps, LimitsKept, SnapshotKept DEF LaunchInv
<1> QED
    BY <1>1, <1>2, PTL DEF Spec

\* _check_eligibility's active-run rule holds for every queue, every number of
\* runs and every interleaving of the pass with REST handlers, worker exits and
\* restarts: no two active runs share a workspace.
THEOREM WorkspaceNeverShared == Spec => []WorkspaceExclusive
<1>1. LaunchInv => WorkspaceExclusive
    BY DEF LaunchInv
<1> QED
    BY <1>1, LaunchInvHolds, PTL

\* _node_capacity_reason holds likewise: although the pass counts the active
\* runs once, before it settles anything, the node never exceeds node_max_runs.
THEOREM NodeNeverOverCommitted == Spec => []NodeCeiling
<1>1. LaunchInv => NodeCeiling
    BY DEF LaunchInv
<1> QED
    BY <1>1, LaunchInvHolds, PTL
============================================================================
