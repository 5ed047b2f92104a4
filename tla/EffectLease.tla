----------------------------- MODULE EffectLease -----------------------------
(***************************************************************************)
(* The single-family writer lease (effect_lease.py, LeaseStore and         *)
(* LeaseGate; effect_lease_wire.py, check_effect), with the flag on.       *)
(*                                                                         *)
(* The row of one family: families never meet, so one is enough.  Every    *)
(* lease operation captures its clock first and then runs one serialized   *)
(* transaction, possibly much later (it waits for the write lock).  A      *)
(* mutating request is checked, recorded and only then carried out, in     *)
(* separate steps, and it may be under way for a while before it arrives.  *)
(*                                                                         *)
(* life and grants are history: life numbers the rows (release deletes the *)
(* row), grants remembers who was granted which epoch of which row.        *)
(*                                                                         *)
(* Left out: requests without an epoch, always denied; requests without an *)
(* action id, whose fresh id never meets another; callers of no family,    *)
(* which are not gated.                                                    *)
(***************************************************************************)
EXTENDS Integers

CONSTANTS Runtime,      \* callers of the family
          Action,       \* action ids a caller supplies
          Request,      \* mutating requests in flight
          Ops,          \* lease operations that may run
          Ttl,          \* ttl_seconds
          MaxTime,      \* bound: the clock
          MaxEpoch,     \* bound: epochs
          MaxReleases   \* bound: releases

ASSUME EffectAssumption ==
    /\ Ttl \in Nat \ {0} /\ MaxTime \in Nat /\ MaxEpoch \in Nat
    /\ MaxReleases \in Nat
    /\ Ops \subseteq {"acquire", "renew", "release", "takeover"}
    /\ "none" \notin Runtime

VARIABLES now, row, life, grants,
          told,      \* [Runtime -> the tenure it believes to hold]
          op,        \* [Runtime -> its lease operation in flight]
          receipts,  \* the lease_action table
          call,      \* [Request -> mutating request in flight]
          effects    \* how often each action was carried out, up to twice

lease == <<row, life, grants, told>>
gate == <<receipts, call, effects>>
vars == <<now, lease, op, gate>>

Tenures == [life : 0..MaxReleases, epoch : 0..MaxEpoch]

NoRow == [holder |-> "none", epoch |-> 0, expires |-> 0]
Rows == [holder : Runtime, epoch : 1..MaxEpoch, expires : 0..(MaxTime + Ttl)]

NoOp == [kind |-> "none", cur |-> 0, seen |-> 0]
Operations == [kind : Ops \cup {"none"}, cur : 0..MaxTime, seen : 0..MaxEpoch]

NoReceipt == [epoch |-> 0, at |-> 0]
Receipts == [epoch : 0..MaxEpoch, at : 0..MaxTime]

NoCall == [pc |-> "idle", by |-> "none", act |-> "none", cur |-> 0,
           tenure |-> [life |-> 0, epoch |-> 0]]
Calls == [pc : {"idle", "sent", "check", "select", "insert", "execute"},
          by : Runtime \cup {"none"}, act : Action \cup {"none"},
          cur : 0..MaxTime, tenure : Tenures]

----------------------------------------------------------------------------
(* LeaseStore: one transaction per operation.                              *)

\* The clock is read before BEGIN IMMEDIATE.  A takeover names the epoch it
\* finds, the holder's operations the epoch the holder was told.
Begin(c, kind) ==
    /\ op[c] = NoOp /\ kind \in Ops
    /\ kind = "takeover" => row # NoRow
    /\ kind \in {"renew", "release"} => told[c].epoch > 0
    /\ op' = [op EXCEPT ![c] = [kind |-> kind, cur |-> now,
                  seen |-> IF kind = "takeover" THEN row.epoch ELSE told[c].epoch]]
    /\ UNCHANGED <<now, lease, gate>>

Runs(c, kind) == op[c].kind = kind /\ op' = [op EXCEPT ![c] = NoOp]

Grant(c, epoch) ==
    /\ row' = [holder |-> c, epoch |-> epoch, expires |-> op[c].cur + Ttl]
    /\ grants' = grants \cup {[life |-> life, epoch |-> epoch, holder |-> c]}
    /\ told' = [told EXCEPT ![c] = [life |-> life, epoch |-> epoch]]

\* Mutants: an expired row is taken over without a new epoch; a row is taken
\* one tick before it expires.
AcquireSameEpoch(c) ==
    /\ Runs(c, "acquire")
    /\ \/ row = NoRow /\ MaxEpoch > 0 /\ Grant(c, 1)
       \/ row # NoRow /\ row.expires <= op[c].cur /\ Grant(c, row.epoch)
       \/ row # NoRow /\ row.expires > op[c].cur /\ UNCHANGED <<row, grants, told>>
    /\ UNCHANGED <<now, life, gate>>

AcquireEarly(c) ==
    /\ Runs(c, "acquire")
    /\ \/ row = NoRow /\ MaxEpoch > 0 /\ Grant(c, 1)
       \/ /\ row # NoRow /\ row.expires <= op[c].cur + 1
          /\ row.epoch < MaxEpoch /\ Grant(c, row.epoch + 1)
       \/ row # NoRow /\ row.expires > op[c].cur /\ UNCHANGED <<row, grants, told>>
    /\ UNCHANGED <<now, life, gate>>

\* No row, or an expired one; LeaseTaken otherwise.
Acquire(c) ==
    /\ Runs(c, "acquire")
    /\ \/ row = NoRow /\ MaxEpoch > 0 /\ Grant(c, 1)
       \/ /\ row # NoRow /\ row.expires <= op[c].cur
          /\ row.epoch < MaxEpoch /\ Grant(c, row.epoch + 1)
       \/ row # NoRow /\ row.expires > op[c].cur /\ UNCHANGED <<row, grants, told>>
    /\ UNCHANGED <<now, life, gate>>

\* The holder, under the epoch it was told, of a row that has not expired.
Renew(c) ==
    /\ Runs(c, "renew")
    /\ row' = IF row.holder = c /\ row.epoch = op[c].seen /\ row.expires > op[c].cur
              THEN [row EXCEPT !.expires = op[c].cur + Ttl] ELSE row
    /\ UNCHANGED <<now, life, grants, told, gate>>

Release(c) ==
    /\ Runs(c, "release")
    /\ \/ /\ row.holder = c /\ row.epoch = op[c].seen /\ life < MaxReleases
          /\ row' = NoRow /\ life' = life + 1
       \/ (row.holder # c \/ row.epoch # op[c].seen) /\ UNCHANGED <<row, life>>
    /\ UNCHANGED <<now, grants, told, gate>>

\* Any holder, expired or not, as long as the epoch is the one observed.
Takeover(c) ==
    /\ Runs(c, "takeover")
    /\ \/ /\ row # NoRow /\ row.epoch = op[c].seen
          /\ row.epoch < MaxEpoch /\ Grant(c, op[c].seen + 1)
       \/ (row = NoRow \/ row.epoch # op[c].seen) /\ UNCHANGED <<row, grants, told>>
    /\ UNCHANGED <<now, life, gate>>

\* "database is locked": the write lock did not come within the timeout.
TimesOut(c) == /\ op[c] # NoOp /\ op' = [op EXCEPT ![c] = NoOp]
               /\ UNCHANGED <<now, lease, gate>>

LeaseStep(c) == \/ \E kind \in Ops : Begin(c, kind)
                \/ Acquire(c) \/ Renew(c) \/ Release(c) \/ Takeover(c)
                \/ TimesOut(c)

----------------------------------------------------------------------------
(* LeaseGate.check in front of a mutating route, then the route itself.    *)

Key(q) == <<call[q].by, call[q].act>>
Goto(q, l) == call' = [call EXCEPT ![q].pc = l]
Answered(q) == call' = [call EXCEPT ![q] = NoCall]

\* A runtime sends a request under the epoch it believes in; the same action
\* id again is a retry.
Send(q, c, a) ==
    /\ call[q].pc = "idle" /\ told[c].epoch > 0
    /\ call' = [call EXCEPT ![q] = [pc |-> "sent", by |-> c, act |-> a, cur |-> 0,
                                    tenure |-> told[c]]]
    /\ UNCHANGED <<now, lease, op, receipts, effects>>

Arrive(q) == /\ call[q].pc = "sent"
             /\ call' = [call EXCEPT ![q].pc = "check", ![q].cur = now]
             /\ UNCHANGED <<now, lease, op, receipts, effects>>

\* Mutant: the holder is accepted under any epoch.
CheckHolderOnly(q) ==
    /\ call[q].pc = "check"
    /\ \/ /\ row.holder = call[q].by /\ row.expires > call[q].cur
          /\ Goto(q, "select")
       \/ /\ (row.holder # call[q].by \/ row.expires <= call[q].cur)
          /\ Answered(q)
    /\ UNCHANGED <<now, lease, op, receipts, effects>>

\* store.get and the four refusals.
Check(q) ==
    /\ call[q].pc = "check"
    /\ \/ /\ row.holder = call[q].by /\ row.epoch = call[q].tenure.epoch
          /\ row.expires > call[q].cur
          /\ Goto(q, "select")
       \/ /\ \/ row.holder # call[q].by \/ row.epoch # call[q].tenure.epoch
             \/ row.expires <= call[q].cur
          /\ Answered(q)
    /\ UNCHANGED <<now, lease, op, receipts, effects>>

\* record_action: a known action id answers with its first receipt.
Select(q) == /\ call[q].pc = "select"
             /\ Goto(q, IF receipts[Key(q)] # NoReceipt THEN "execute" ELSE "insert")
             /\ UNCHANGED <<now, lease, op, receipts, effects>>

\* Mutant: a second insert replaces the first receipt.
InsertOrReplace(q) ==
    /\ call[q].pc = "insert" /\ Goto(q, "execute")
    /\ receipts' = [receipts EXCEPT ![Key(q)] =
                       [epoch |-> call[q].tenure.epoch, at |-> call[q].cur]]
    /\ UNCHANGED <<now, lease, op, effects>>

\* Mutant: the effect goes ahead whether or not the insert succeeds.
InsertFailsOpen(q) ==
    /\ call[q].pc = "insert" /\ Goto(q, "execute")
    /\ \/ receipts' = [receipts EXCEPT ![Key(q)] =
                          [epoch |-> call[q].tenure.epoch, at |-> call[q].cur]]
       \/ UNCHANGED receipts
    /\ UNCHANGED <<now, lease, op, effects>>

\* INSERT in a transaction of its own: a twin that came first makes it an
\* IntegrityError, which ends the request.
Insert(q) ==
    /\ call[q].pc = "insert"
    /\ \/ /\ receipts[Key(q)] = NoReceipt /\ Goto(q, "execute")
          /\ receipts' = [receipts EXCEPT ![Key(q)] =
                             [epoch |-> call[q].tenure.epoch, at |-> call[q].cur]]
       \/ receipts[Key(q)] # NoReceipt /\ Answered(q) /\ UNCHANGED receipts
    /\ UNCHANGED <<now, lease, op, effects>>

\* The route goes on and has its effect; it does not look at the receipt.
Execute(q) ==
    /\ call[q].pc = "execute" /\ Answered(q)
    /\ effects' = [effects EXCEPT ![Key(q)] = IF @ < 2 THEN @ + 1 ELSE @]
    /\ UNCHANGED <<now, lease, op, receipts>>

\* The route refuses the request for a reason of its own.
Refuse(q) == /\ call[q].pc = "execute" /\ Answered(q)
             /\ UNCHANGED <<now, lease, op, receipts, effects>>

GateStep(q) == \/ \E c \in Runtime, a \in Action : Send(q, c, a)
               \/ Arrive(q) \/ Check(q) \/ Select(q) \/ Insert(q)
               \/ Execute(q) \/ Refuse(q)

Tick == now < MaxTime /\ now' = now + 1 /\ UNCHANGED <<lease, op, gate>>

Init == /\ now = 0 /\ row = NoRow /\ life = 0 /\ grants = {}
        /\ told = [c \in Runtime |-> [life |-> 0, epoch |-> 0]]
        /\ op = [c \in Runtime |-> NoOp]
        /\ receipts = [k \in Runtime \X Action |-> NoReceipt]
        /\ call = [q \in Request |-> NoCall]
        /\ effects = [k \in Runtime \X Action |-> 0]

Next == \/ Tick
        \/ \E c \in Runtime : LeaseStep(c)
        \/ \E q \in Request : GateStep(q)

Spec == Init /\ [][Next]_vars

----------------------------------------------------------------------------
(* Properties.                                                             *)

LeaseType == /\ now \in 0..MaxTime /\ row \in Rows \cup {NoRow}
             /\ life \in 0..MaxReleases
             /\ grants \subseteq [life : 0..MaxReleases, epoch : 1..MaxEpoch,
                                  holder : Runtime]
             /\ told \in [Runtime -> Tenures] /\ op \in [Runtime -> Operations]
GateType == /\ receipts \in [Runtime \X Action -> Receipts]
            /\ call \in [Request -> Calls]
            /\ effects \in [Runtime \X Action -> 0..2]

\* The row, the receipts and the requests have their types.
TypeOK == LeaseType /\ GateType

\* LeaseStore: "exactly one wins": however acquires and takeovers race, an
\* epoch of a row belongs to one runtime.
EpochOneHolder ==
    \A g, h \in grants : g.life = h.life /\ g.epoch = h.epoch => g.holder = h.holder

\* acquire, with a clock read before it waited for the lock: a lease that has
\* not expired changes hands only by a takeover that saw its epoch, and goes
\* away only by its holder's release.
LiveLeaseKept ==
    [][row # NoRow /\ row.expires > now =>
         \/ row'.holder = row.holder
         \/ \E c \in Runtime : /\ op[c].kind = "takeover" /\ op[c].seen = row.epoch
                               /\ row'.holder = c
         \/ row' = NoRow /\ op[row.holder].kind = "release"]_vars

Earlier(g, t) == g.life < t.life \/ (g.life = t.life /\ g.epoch < t.epoch)
Accepted(q) == call[q].pc = "check" /\ call'[q].pc = "select"

\* LeaseGate.check: a request that was under way while another runtime held
\* the lease is refused when it arrives, even if its sender is the holder
\* again, as long as the row it was sent under has not been released.
StaleCallFenced ==
    [][\A q \in Request : Accepted(q) /\ call[q].tenure.life = life =>
         \A g \in grants : g.holder # call[q].by => Earlier(g, call[q].tenure)]_vars

\* record_action: the first receipt of an action id stays its receipt.
ReceiptStable ==
    [][\A k \in Runtime \X Action :
         receipts[k] # NoReceipt => receipts'[k] = receipts[k]]_vars

\* check_effect: whatever has an effect is on record: an action was carried
\* out only after its receipt was stored, however retries of it race.
EffectsRecorded ==
    \A k \in Runtime \X Action : effects[k] > 0 => receipts[k] # NoReceipt
=============================================================================
