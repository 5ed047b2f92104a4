-------------------------- MODULE EffectLeaseProofs --------------------------
(***************************************************************************)
(* Proofs about EffectLease, for every number of runtimes, requests and    *)
(* action ids and every value of the bounds.                               *)
(*                                                                         *)
(* GrantInv is the inductive strengthening of EpochOneHolder: the grants   *)
(* of the row in place never run ahead of its epoch, and the grant of its  *)
(* epoch is its holder's.                                                  *)
(***************************************************************************)
EXTENDS EffectLease, TLAPS

----------------------------------------------------------------------------
(* Type correctness.                                                       *)

\* A grant keeps the lease's types.
LEMMA GrantTyped ==
    ASSUME LeaseType, NEW c \in Runtime, op[c] # NoOp,
           NEW e \in 1..MaxEpoch, Grant(c, e)
    PROVE  /\ row' \in Rows \cup {NoRow}
           /\ grants' \subseteq [life : 0..MaxReleases, epoch : 1..MaxEpoch,
                                 holder : Runtime]
           /\ told' \in [Runtime -> Tenures]
<1>1. op[c].cur \in 0..MaxTime /\ op[c].cur + Ttl \in 0..(MaxTime + Ttl)
  BY EffectAssumption DEF LeaseType, Operations
<1>2. row' \in Rows
  BY <1>1 DEF Grant, Rows
<1>3. [life |-> life, epoch |-> e] \in Tenures
  BY EffectAssumption DEF LeaseType, Tenures
<1> QED BY <1>2, <1>3 DEF Grant, LeaseType

\* Every operation of the store keeps the lease's types.
LEMMA LeaseStepTyped ==
    ASSUME TypeOK, NEW c \in Runtime, LeaseStep(c)
    PROVE  TypeOK'
<1> USE EffectAssumption
<1> USE DEF LeaseType, TypeOK
<1>1. NoOp \in Operations
  BY DEF NoOp, Operations
<1>2. ASSUME NEW kind \in Ops, Begin(c, kind) PROVE TypeOK'
  <2>1. row.epoch \in 0..MaxEpoch /\ told[c].epoch \in 0..MaxEpoch
    BY DEF Rows, NoRow, Tenures
  <2>2. [kind |-> kind, cur |-> now, seen |-> IF kind = "takeover" THEN row.epoch
                                             ELSE told[c].epoch] \in Operations
    BY <2>1 DEF Operations
  <2> QED BY <1>2, <2>2 DEF Begin, lease, gate, GateType
<1>3. CASE Acquire(c)
  <2>1. op' \in [Runtime -> Operations]
    BY <1>1, <1>3 DEF Acquire, Runs
  <2>2. op[c] # NoOp
    BY <1>3 DEF Acquire, Runs, NoOp
  <2>3. CASE MaxEpoch > 0 /\ Grant(c, 1)
    BY <1>3, <2>1, <2>2, <2>3, GrantTyped DEF Acquire, gate, GateType
  <2>4. CASE row # NoRow /\ row.epoch < MaxEpoch /\ Grant(c, row.epoch + 1)
    <3>1. row.epoch + 1 \in 1..MaxEpoch
      BY <2>4 DEF Rows
    <3> QED BY <1>3, <2>1, <2>2, <2>4, <3>1, GrantTyped DEF Acquire, gate, GateType
  <2>5. CASE UNCHANGED <<row, grants, told>>
    BY <1>3, <2>1, <2>5 DEF Acquire, gate, GateType
  <2> QED BY <1>3, <2>3, <2>4, <2>5 DEF Acquire
<1>4. CASE Renew(c)
  <2>1. op' \in [Runtime -> Operations]
    BY <1>1, <1>4 DEF Renew, Runs
  <2>2. op[c].cur \in 0..MaxTime /\ op[c].cur + Ttl \in 0..(MaxTime + Ttl)
    BY DEF Operations
  <2>3. row.holder = c => row \in Rows
    BY DEF NoRow
  <2>4. row' \in Rows \cup {NoRow}
    BY <1>4, <2>2, <2>3 DEF Renew, Rows
  <2> QED BY <1>4, <2>1, <2>4 DEF Renew, gate, GateType
<1>5. CASE Release(c)
  BY <1>1, <1>5 DEF Release, Runs, gate, GateType
<1>6. CASE Takeover(c)
  <2>1. op' \in [Runtime -> Operations]
    BY <1>1, <1>6 DEF Takeover, Runs
  <2>2. op[c] # NoOp
    BY <1>6 DEF Takeover, Runs, NoOp
  <2>3. CASE row # NoRow /\ row.epoch = op[c].seen /\ row.epoch < MaxEpoch
             /\ Grant(c, op[c].seen + 1)
    <3>1. op[c].seen + 1 \in 1..MaxEpoch
      BY <2>3 DEF Rows
    <3> QED BY <1>6, <2>1, <2>2, <2>3, <3>1, GrantTyped DEF Takeover, gate, GateType
  <2>4. CASE UNCHANGED <<row, grants, told>>
    BY <1>6, <2>1, <2>4 DEF Takeover, gate, GateType
  <2> QED BY <1>6, <2>3, <2>4 DEF Takeover
<1>7. CASE TimesOut(c)
  BY <1>1, <1>7 DEF TimesOut, lease, gate, GateType
<1> QED BY <1>2, <1>3, <1>4, <1>5, <1>6, <1>7 DEF LeaseStep

\* Every step of a request keeps the gate's types.
LEMMA GateStepTyped ==
    ASSUME TypeOK, NEW q \in Request, GateStep(q)
    PROVE  TypeOK'
<1> USE EffectAssumption
<1> USE DEF GateType, TypeOK
<1>0. /\ call[q] \in Calls /\ call[q].cur \in 0..MaxTime
      /\ call[q].tenure.epoch \in 0..MaxEpoch
  BY DEF Calls, Tenures
<1>1. NoCall \in Calls
  BY DEF NoCall, Calls, Tenures
<1>2. ASSUME UNCHANGED <<now, lease, op>> PROVE LeaseType'
  BY <1>2 DEF LeaseType, lease
<1>3. ASSUME Answered(q) PROVE call' \in [Request -> Calls]
  BY <1>1, <1>3 DEF Answered
<1>4. ASSUME NEW l \in {"select", "insert", "execute"}, Goto(q, l)
      PROVE  call' \in [Request -> Calls]
  BY <1>0, <1>4 DEF Goto, Calls
<1>5. [epoch |-> call[q].tenure.epoch, at |-> call[q].cur] \in Receipts
  BY <1>0 DEF Receipts
<1>6. ASSUME NEW c \in Runtime, NEW a \in Action, Send(q, c, a) PROVE TypeOK'
  <2>1. told[c] \in Tenures
    BY DEF LeaseType
  <2>2. [pc |-> "sent", by |-> c, act |-> a, cur |-> 0, tenure |-> told[c]] \in Calls
    BY <2>1 DEF Calls
  <2> QED BY <1>2, <1>6, <2>2 DEF Send
<1>7. CASE Arrive(q)
  <2>1. now \in 0..MaxTime
    BY DEF LeaseType
  <2>2. call' \in [Request -> Calls]
    BY <1>0, <1>7, <2>1 DEF Arrive, Calls
  <2> QED BY <1>2, <1>7, <2>2 DEF Arrive
<1>8. CASE Check(q)
  BY <1>2, <1>3, <1>4, <1>8 DEF Check
<1>9. CASE Select(q)
  BY <1>2, <1>4, <1>9 DEF Select
<1>10. CASE Insert(q)
  <2>1. receipts' \in [Runtime \X Action -> Receipts]
    BY <1>5, <1>10 DEF Insert
  <2> QED BY <1>2, <1>3, <1>4, <1>10, <2>1 DEF Insert
<1>11. CASE Execute(q)
  <2> DEFINE k == Key(q)
  <2>1. CASE k \in Runtime \X Action
    <3>1. effects[k] \in 0..2
      BY <2>1
    <3>2. (IF effects[k] < 2 THEN effects[k] + 1 ELSE effects[k]) \in 0..2
      BY <3>1
    <3> HIDE DEF k
    <3>3. effects' = [effects EXCEPT ![k] = IF effects[k] < 2 THEN effects[k] + 1
                                            ELSE effects[k]]
      BY <1>11 DEF Execute, k
    <3>4. effects' \in [Runtime \X Action -> 0..2]
      BY <3>2, <3>3
    <3> QED BY <1>2, <1>3, <1>11, <3>4 DEF Execute
  <2>2. CASE k \notin Runtime \X Action
    <3>1. effects' = effects
      BY <1>11, <2>2 DEF Execute
    <3> QED BY <1>2, <1>3, <1>11, <3>1 DEF Execute
  <2> QED BY <2>1, <2>2
<1>12. CASE Refuse(q)
  BY <1>2, <1>3, <1>12 DEF Refuse
<1> QED BY <1>6, <1>7, <1>8, <1>9, <1>10, <1>11, <1>12 DEF GateStep

\* The row, the receipts and the requests always have their types.
THEOREM EffectTypeCorrect == Spec => []TypeOK
<1>1. Init => TypeOK
  BY EffectAssumption DEF Init, TypeOK, LeaseType, GateType, Tenures, Operations,
     NoOp, Receipts, NoReceipt, Calls, NoCall
<1>2. TypeOK /\ [Next]_vars => TypeOK'
  <2> SUFFICES ASSUME TypeOK, [Next]_vars PROVE TypeOK'
    OBVIOUS
  <2>1. CASE Tick
    BY <2>1, EffectAssumption DEF Tick, TypeOK, LeaseType, GateType, lease, gate
  <2>2. CASE UNCHANGED vars
    BY <2>2 DEF vars, TypeOK, LeaseType, GateType, lease, gate
  <2> QED BY <2>1, <2>2, LeaseStepTyped, GateStepTyped DEF Next
<1> QED BY <1>1, <1>2, PTL DEF Spec

----------------------------------------------------------------------------
(* Epochs.                                                                 *)

\* The grants of the row in place.
GrantInv ==
    /\ EpochOneHolder
    /\ \A g \in grants : g.life <= life
    /\ \A g \in grants : g.life = life =>
           /\ row # NoRow /\ g.epoch <= row.epoch
           /\ g.epoch = row.epoch => g.holder = row.holder

\* A grant of a new row, or of the next epoch of the row in place.
LEMMA GrantKeeps ==
    ASSUME LeaseType, GrantInv, NEW c \in Runtime, NEW e \in 1..MaxEpoch,
           Grant(c, e), life' = life,
           \/ row = NoRow
           \/ row # NoRow /\ e = row.epoch + 1
    PROVE  GrantInv'
<1> DEFINE new == [life |-> life, epoch |-> e, holder |-> c]
<1>1. row'.holder = c /\ row'.epoch = e /\ row' # NoRow /\ grants' = grants \cup {new}
  BY EffectAssumption DEF Grant, NoRow
<1>2. \A g \in grants : /\ g.epoch \in Nat /\ g.life \in Nat
                        /\ g.life <= life
                        /\ g.life = life => g.epoch < e
  BY DEF LeaseType, GrantInv, Rows
<1>3. EpochOneHolder'
  BY <1>1, <1>2 DEF EpochOneHolder, GrantInv
<1>4. \A g \in grants' : g.life <= life'
  BY <1>1, <1>2 DEF LeaseType
<1>5. \A g \in grants' : g.life = life' => g.epoch <= row'.epoch
                                         /\ (g.epoch = row'.epoch => g.holder = row'.holder)
  BY <1>1, <1>2
<1> QED BY <1>1, <1>3, <1>4, <1>5 DEF GrantInv

\* Every operation of the store keeps the grants in order.
LEMMA LeaseStepGrants ==
    ASSUME TypeOK, GrantInv, NEW c \in Runtime, LeaseStep(c)
    PROVE  GrantInv'
<1> USE EffectAssumption
<1>1. ASSUME UNCHANGED <<row, life, grants>> PROVE GrantInv'
  BY <1>1 DEF GrantInv, EpochOneHolder
<1>2. CASE \E kind \in Ops : Begin(c, kind)
  BY <1>1, <1>2 DEF Begin, lease
<1>3. CASE Acquire(c)
  <2>1. CASE row = NoRow /\ MaxEpoch > 0 /\ Grant(c, 1)
    BY <1>3, <2>1, GrantKeeps DEF Acquire, TypeOK
  <2>2. CASE row # NoRow /\ row.epoch < MaxEpoch /\ Grant(c, row.epoch + 1)
    <3>1. row.epoch + 1 \in 1..MaxEpoch
      BY <2>2 DEF TypeOK, LeaseType, Rows
    <3> QED BY <1>3, <2>2, <3>1, GrantKeeps DEF Acquire, TypeOK
  <2> QED BY <1>1, <1>3, <2>1, <2>2 DEF Acquire
<1>4. CASE Renew(c)
  <2>1. row' = row \/ (row # NoRow /\ row' # NoRow /\ row'.epoch = row.epoch
                       /\ row'.holder = row.holder)
    BY <1>4 DEF Renew, TypeOK, LeaseType, Rows, NoRow
  <2> QED BY <1>4, <2>1 DEF Renew, GrantInv, EpochOneHolder
<1>5. CASE Release(c)
  <2>1. CASE row' = NoRow /\ life' = life + 1
    <3>1. \A g \in grants' : g.life < life'
      BY <1>5, <2>1 DEF Release, GrantInv, TypeOK, LeaseType
    <3>2. EpochOneHolder'
      BY <1>5 DEF Release, GrantInv, EpochOneHolder
    <3>3. \A g \in grants' : g.life <= life' /\ g.life # life'
      BY <1>5, <2>1, <3>1 DEF Release, TypeOK, LeaseType
    <3> QED BY <3>2, <3>3 DEF GrantInv
  <2> QED BY <1>1, <1>5, <2>1 DEF Release
<1>6. CASE Takeover(c)
  <2>1. CASE row # NoRow /\ row.epoch = op[c].seen /\ row.epoch < MaxEpoch
             /\ Grant(c, op[c].seen + 1)
    <3>1. op[c].seen + 1 \in 1..MaxEpoch
      BY <2>1 DEF TypeOK, LeaseType, Rows
    <3> QED BY <1>6, <2>1, <3>1, GrantKeeps DEF Takeover, TypeOK
  <2> QED BY <1>1, <1>6, <2>1 DEF Takeover
<1>7. CASE TimesOut(c)
  BY <1>1, <1>7 DEF TimesOut, lease
<1> QED BY <1>2, <1>3, <1>4, <1>5, <1>6, <1>7 DEF LeaseStep

\* A request does not touch the lease.
LEMMA GateStepKeepsLease ==
    ASSUME NEW q \in Request, GateStep(q)
    PROVE  UNCHANGED <<now, lease, op>>
BY DEF GateStep, Send, Arrive, Check, Select, Insert, Execute, Refuse

\* The grants stay in order.
LEMMA GrantsInOrder == Spec => []GrantInv
<1>1. Init => GrantInv
  BY DEF Init, GrantInv, EpochOneHolder
<1>2. TypeOK /\ GrantInv /\ [Next]_vars => GrantInv'
  <2> SUFFICES ASSUME TypeOK, GrantInv, [Next]_vars PROVE GrantInv'
    OBVIOUS
  <2>1. ASSUME UNCHANGED lease PROVE GrantInv'
    BY <2>1 DEF lease, GrantInv, EpochOneHolder
  <2>2. CASE Tick
    BY <2>1, <2>2 DEF Tick
  <2>3. CASE UNCHANGED vars
    BY <2>1, <2>3 DEF vars
  <2> QED BY <2>1, <2>2, <2>3, LeaseStepGrants, GateStepKeepsLease DEF Next
<1> QED BY <1>1, <1>2, EffectTypeCorrect, PTL DEF Spec

\* However acquires, takeovers and releases race, an epoch of a row belongs
\* to one runtime (LeaseStore.acquire, LeaseStore.takeover).
THEOREM EpochNeverShared == Spec => []EpochOneHolder
<1>1. GrantInv => EpochOneHolder
  BY DEF GrantInv
<1> QED BY <1>1, GrantsInOrder, PTL

----------------------------------------------------------------------------
(* A lease that has not expired.                                           *)

\* Every operation in flight read the clock in the past.
ClockInv == \A c \in Runtime : op[c].cur <= now

LEMMA ClocksArePast == Spec => []ClockInv
<1>1. Init => ClockInv
  <2> SUFFICES ASSUME Init, NEW c \in Runtime PROVE op[c].cur <= now
    BY DEF ClockInv
  <2>1. op[c].cur = 0 /\ now = 0
    BY DEF Init, NoOp
  <2> QED BY <2>1
<1>2. TypeOK /\ ClockInv /\ [Next]_vars => ClockInv'
  <2> SUFFICES ASSUME TypeOK, ClockInv, [Next]_vars PROVE ClockInv'
    OBVIOUS
  <2> USE DEF TypeOK, LeaseType, ClockInv
  <2>1. \A c \in Runtime : op[c].cur \in 0..MaxTime
    BY DEF Operations
  <2>2. CASE Tick
    BY <2>1, <2>2, EffectAssumption DEF Tick
  <2>3. CASE UNCHANGED vars
    BY <2>3 DEF vars
  <2>4. ASSUME NEW c \in Runtime, LeaseStep(c) PROVE ClockInv'
    <3>1. now' = now
      BY <2>4 DEF LeaseStep, Begin, Acquire, Renew, Release, Takeover, TimesOut
    <3>2. \/ op' = [op EXCEPT ![c] = NoOp]
          \/ \E kind \in Ops : op' = [op EXCEPT ![c] = [kind |-> kind, cur |-> now,
                 seen |-> IF kind = "takeover" THEN row.epoch ELSE told[c].epoch]]
      BY <2>4 DEF LeaseStep, Begin, Acquire, Renew, Release, Takeover, TimesOut, Runs
    <3>3. op'[c].cur <= now
      BY <3>2, EffectAssumption DEF NoOp
    <3>4. \A d \in Runtime \ {c} : op'[d] = op[d]
      BY <3>2
    <3> QED BY <3>1, <3>3, <3>4
  <2> QED BY <2>2, <2>3, <2>4, GateStepKeepsLease DEF Next
<1> QED BY <1>1, <1>2, EffectTypeCorrect, PTL DEF Spec

\* An acquire that waited for the write lock never takes a lease that is
\* still live when it gets the lock (LeaseStore.acquire): the clock it
\* compares with is older than the present one.
THEOREM LiveLeaseIsKept == Spec => LiveLeaseKept
<1> DEFINE Kept ==
      row # NoRow /\ row.expires > now =>
         \/ row'.holder = row.holder
         \/ \E c \in Runtime : /\ op[c].kind = "takeover" /\ op[c].seen = row.epoch
                               /\ row'.holder = c
         \/ row' = NoRow /\ op[row.holder].kind = "release"
<1>1. TypeOK /\ ClockInv /\ [Next]_vars => [Kept]_vars
  <2> SUFFICES ASSUME TypeOK, ClockInv, Next, row # NoRow, row.expires > now,
                      row' # row
               PROVE  Kept
    OBVIOUS
  <2>1. PICK c \in Runtime : LeaseStep(c)
    BY GateStepKeepsLease DEF Next, Tick, lease
  <2>2. op[c].cur \in Int /\ op[c].cur <= now /\ now \in Int /\ row.expires \in Int
    BY EffectAssumption DEF TypeOK, ClockInv, LeaseType, Operations, Rows
  <2>3. CASE Acquire(c)
    BY <2>2, <2>3 DEF Acquire
  <2>4. CASE Renew(c)
    BY <2>4 DEF Renew, TypeOK, LeaseType, Rows
  <2>5. CASE Release(c)
    BY <2>5 DEF Release, Runs
  <2>6. CASE Takeover(c)
    BY <2>6 DEF Takeover, Runs, Grant
  <2> QED BY <2>1, <2>3, <2>4, <2>5, <2>6 DEF LeaseStep, Begin, TimesOut, lease
<1> QED BY <1>1, EffectTypeCorrect, ClocksArePast, PTL DEF Spec, LiveLeaseKept

----------------------------------------------------------------------------
(* Delayed requests.                                                       *)

\* An accepted request of the row in place is fenced (LeaseGate.check): every
\* grant to another runtime is older than the tenure the request was sent
\* under, however long it was under way.
THEOREM DelayedCallsFenced == Spec => StaleCallFenced
<1> DEFINE Fenced == \A q \in Request : Accepted(q) /\ call[q].tenure.life = life =>
         \A g \in grants : g.holder # call[q].by => Earlier(g, call[q].tenure)
<1>1. TypeOK /\ GrantInv /\ [Next]_vars => [Fenced]_vars
  <2> SUFFICES ASSUME TypeOK, GrantInv, Next,
                      NEW q \in Request, Accepted(q), call[q].tenure.life = life,
                      NEW g \in grants, g.holder # call[q].by
               PROVE  Earlier(g, call[q].tenure)
    OBVIOUS
  <2>1. Check(q)
    <3>1. call'[q] # call[q]
      BY DEF Accepted
    <3>2. PICK r \in Request : GateStep(r)
      BY <3>1 DEF Next, Tick, LeaseStep, Begin, Acquire, Renew, Release, Takeover,
         TimesOut, gate
    <3>3. r = q
      BY <3>1, <3>2 DEF GateStep, Send, Arrive, Check, Select, Insert, Execute, Refuse,
         Goto, Answered, TypeOK, GateType
    <3> QED BY <3>2, <3>3 DEF GateStep, Send, Arrive, Check, Select, Insert, Execute,
            Refuse, Goto, Answered, Accepted
  <2>2. row.holder = call[q].by /\ row.epoch = call[q].tenure.epoch
    BY <2>1 DEF Check, Answered, Accepted, NoCall, TypeOK, GateType
  <2>3. /\ g.life \in Int /\ life \in Int /\ g.life <= life
        /\ g.epoch \in Int /\ row.epoch \in Int
    BY <2>2, EffectAssumption DEF GrantInv, TypeOK, LeaseType, GateType, Calls, Tenures
  <2>4. g.life = life => g.epoch <= row.epoch /\ g.epoch # row.epoch
    BY <2>2 DEF GrantInv
  <2> QED BY <2>2, <2>3, <2>4 DEF Earlier
<1> QED BY <1>1, EffectTypeCorrect, GrantsInOrder, PTL DEF Spec, StaleCallFenced

----------------------------------------------------------------------------
(* Receipts.                                                               *)

\* A request under way has a sender, an action and a tenure, and one that
\* may have its effect has a receipt.
ReceiptInv ==
    /\ \A q \in Request : call[q].pc # "idle" =>
           Key(q) \in Runtime \X Action /\ call[q].tenure.epoch > 0
    /\ \A q \in Request : call[q].pc = "execute" => receipts[Key(q)] # NoReceipt
    /\ EffectsRecorded

\* The first receipt of an action is the only one ever stored.
LEMMA ReceiptsGrow ==
    ASSUME TypeOK, ReceiptInv, Next
    PROVE  /\ \A k \in Runtime \X Action : receipts[k] # NoReceipt
                                           => receipts'[k] = receipts[k]
           /\ \A q \in Request : Insert(q) /\ call'[q].pc = "execute"
                                 => receipts'[Key(q)] # NoReceipt
<1>1. ASSUME NEW q \in Request, Insert(q)
      PROVE  /\ \A k \in Runtime \X Action : receipts[k] # NoReceipt
                                              => receipts'[k] = receipts[k]
             /\ call'[q].pc = "execute" => receipts'[Key(q)] # NoReceipt
  <2> DEFINE new == [epoch |-> call[q].tenure.epoch, at |-> call[q].cur]
  <2>1. Key(q) \in Runtime \X Action /\ new # NoReceipt
    BY <1>1, EffectAssumption
    DEF Insert, ReceiptInv, NoReceipt, TypeOK, GateType, Calls, Tenures
  <2>2. \/ receipts[Key(q)] = NoReceipt /\ receipts' = [receipts EXCEPT ![Key(q)] = new]
        \/ receipts' = receipts /\ call'[q].pc = "idle"
    BY <1>1 DEF Insert, Answered, NoCall, TypeOK, GateType
  <2> HIDE DEF new
  <2> QED BY <2>1, <2>2 DEF TypeOK, GateType
<1>2. ASSUME \A q \in Request : ~Insert(q) PROVE receipts' = receipts
  BY <1>2 DEF Next, Tick, LeaseStep, Begin, Acquire, Renew, Release, Takeover,
     TimesOut, GateStep, Send, Arrive, Check, Select, Execute, Refuse, gate
<1> QED BY <1>1, <1>2

\* No step has an effect without a receipt.
LEMMA ReceiptStep == TypeOK /\ ReceiptInv /\ [Next]_vars => ReceiptInv'
<1> SUFFICES ASSUME TypeOK, ReceiptInv, [Next]_vars PROVE ReceiptInv'
  OBVIOUS
<1>1. CASE UNCHANGED gate
  BY <1>1 DEF gate, ReceiptInv, EffectsRecorded, Key
<1>2. ASSUME NEW q \in Request, GateStep(q), Next PROVE ReceiptInv'
  <2>1. \A r \in Request \ {q} : call'[r] = call[r]
    BY <1>2 DEF GateStep, Send, Arrive, Check, Select, Insert, Execute, Refuse,
       Goto, Answered, TypeOK, GateType
  <2>2. \/ \E c \in Runtime, a \in Action : Send(q, c, a)
        \/ call'[q] = NoCall
        \/ /\ call[q].pc # "idle" /\ Key(q)' = Key(q)
           /\ call'[q].tenure = call[q].tenure
    BY <1>2 DEF GateStep, Arrive, Check, Select, Insert, Execute, Refuse,
       Goto, Answered, TypeOK, GateType, Calls, Key
  <2>3. ASSUME NEW r \in Request, call'[r].pc # "idle"
        PROVE  (Key(r) \in Runtime \X Action /\ call[r].tenure.epoch > 0)'
    <3>1. CASE r # q
      BY <2>1, <2>3, <3>1 DEF ReceiptInv, Key
    <3>2. CASE r = q
      BY <2>2, <2>3, <3>2 DEF ReceiptInv, Key, Send, NoCall, TypeOK, GateType
    <3> QED BY <3>1, <3>2
  <2>4. ASSUME NEW r \in Request, call'[r].pc = "execute"
        PROVE  (receipts[Key(r)] # NoReceipt)'
    <3>1. CASE call[r].pc = "execute" /\ Key(r)' = Key(r)
      BY <1>2, <3>1, ReceiptsGrow DEF ReceiptInv
    <3>2. CASE r # q
      BY <2>1, <2>4, <3>1, <3>2 DEF Key
    <3>3. CASE r = q /\ Select(q)
      <4>1. Key(q)' = Key(q) /\ receipts' = receipts /\ receipts[Key(q)] # NoReceipt
        BY <2>4, <3>3 DEF Select, Goto, Key, TypeOK, GateType
      <4> QED BY <3>3, <4>1
    <3>4. CASE r = q /\ Insert(q)
      <4>1. Key(q)' = Key(q)
        BY <2>2, <2>4, <3>4 DEF Send, NoCall, TypeOK, GateType
      <4> QED BY <1>2, <2>4, <3>4, <4>1, ReceiptsGrow
    <3>5. CASE r = q /\ ~Select(q) /\ ~Insert(q)
      <4>1. \/ \E c \in Runtime, a \in Action : Send(q, c, a)
            \/ Arrive(q) \/ Check(q) \/ Execute(q) \/ Refuse(q)
        BY <1>2, <3>5 DEF GateStep
      <4>2. call'[q].pc \in {"sent", "check", "select", "idle"}
        BY <4>1 DEF Send, Arrive, Check, Execute, Refuse, Goto, Answered, NoCall,
           TypeOK, GateType, Calls
      <4> QED BY <2>4, <3>5, <4>2
    <3> QED BY <3>2, <3>3, <3>4, <3>5
  <2>5. EffectsRecorded'
    <3> SUFFICES ASSUME NEW k \in Runtime \X Action, effects'[k] > 0
                 PROVE  receipts'[k] # NoReceipt
      BY DEF EffectsRecorded
    <3>1. effects'[k] = effects[k] \/ (Execute(q) /\ k = Key(q))
      BY <1>2 DEF GateStep, Send, Arrive, Check, Select, Insert, Execute, Refuse,
         TypeOK, GateType
    <3>2. receipts[k] # NoReceipt
      BY <3>1 DEF ReceiptInv, EffectsRecorded, Execute
    <3> QED BY <1>2, <3>2, ReceiptsGrow
  <2> QED BY <2>3, <2>4, <2>5 DEF ReceiptInv
<1> QED BY <1>1, <1>2 DEF Next, Tick, LeaseStep, Begin, Acquire, Renew, Release,
        Takeover, TimesOut, vars

LEMMA ReceiptsKept == Spec => []ReceiptInv
<1>1. Init => ReceiptInv
  BY DEF Init, ReceiptInv, EffectsRecorded, NoCall
<1> QED BY <1>1, ReceiptStep, EffectTypeCorrect, PTL DEF Spec

\* Nothing has an effect through the gate without a stored receipt, however
\* many requests, retries and runtimes race (LeaseGate.check,
\* LeaseStore.record_action).
THEOREM EveryEffectRecorded == Spec => []EffectsRecorded
<1>1. ReceiptInv => EffectsRecorded
  BY DEF ReceiptInv
<1> QED BY <1>1, ReceiptsKept, PTL

\* The first receipt of an action id is its receipt for ever
\* (LeaseStore.record_action).
THEOREM ReceiptsAreFinal == Spec => ReceiptStable
<1>1. TypeOK /\ ReceiptInv /\ [Next]_vars =>
        [\A k \in Runtime \X Action :
            receipts[k] # NoReceipt => receipts'[k] = receipts[k]]_vars
  BY ReceiptsGrow
<1> QED BY <1>1, ReceiptsKept, EffectTypeCorrect, PTL DEF Spec, ReceiptStable
=============================================================================
