------------------------- MODULE ManagerLoopProofs -------------------------
(***************************************************************************)
(* Proofs about ManagerLoop, for any budget, round limit, streak limit and *)
(* grants, and any number of generations, instructions, answers and gates  *)
(* answered.                                                               *)
(***************************************************************************)
EXTENDS ManagerLoop, SequenceTheorems, WellFoundedInduction, TLAPS

(***************************************************************************)
(* The inductive invariant.                                                *)
(***************************************************************************)

\* A budget is open at the head of the loop; a completion is on its way out
\* or at its gate, and audited; a loop that is over was decided.
Control ==
    /\ pc = "round" => ctx.round_index < ctx.round_budget
    /\ ctx.completion_satisfied =>
         /\ pc \in {"ending", "hook", "gate", "final"}
         /\ pc # "final" => ctx.outcome = "completed"
         /\ LatestIsClean(rounds)
    /\ pc = "final" => ctx.completion_satisfied \/ ctx.abort_reason # NoReason
    /\ report.status = "complete" => report.clean

\* Instructions that the worker has not claimed wait in order.
Queue ==
    /\ ctx.todo <= Len(bus)
    /\ Len(bus) = sent - applied
    /\ \A i \in DOMAIN bus : bus[i] = applied + i

\* One of the worker's two lists is empty at a time: it carries texts over
\* into a prompt, then collects the hook's.
Lists ==
    /\ pc \in {"round", "drain"} => ctx.inj = <<>>
    /\ pc \in {"manager", "executor", "auditor", "ending"} => Held = <<>>
    /\ pc \in {"hook", "gate"} => ctx.carryover = <<>>
    /\ pc \in {"down", "exited"} => Held = <<>>

\* The round the worker is in is not yet recorded while an agent is at work;
\* all before it are, and no other.
AtWork == pc \in {"drain", "manager", "executor", "auditor"}
Reached == IF AtWork THEN ctx.round_index - 1 ELSE ctx.round_index

Filled(n) == /\ \A i \in Indexes : i <= n
             /\ \A i \in 1..MAX_ROUNDS : i <= n => i \in Indexes

Files ==
    /\ \A k \in DOMAIN ledger : ledger[k].index >= 1
    /\ \A i \in Indexes : \A j \in 1..i : j \in Indexes
    /\ AtWork => ctx.round_index >= 1
    /\ pc \notin {"down", "exited", "final"} => Filled(Reached)

Inv == TypeOK /\ Control /\ Queue /\ Lists /\ Files /\ LedgerGoesOn /\ TextsOnce

-----------------------------------------------------------------------------
(* Numbers, sequences and the operators of the module.                     *)

\* A bounded set of natural numbers has its maximum.
LEMMA MaxIn ==
  ASSUME NEW n \in Nat, NEW S \in SUBSET (0..n), S # {}
  PROVE  Max(S) \in S /\ \A x \in S : x <= Max(S)
  <1> DEFINE T == {n - x : x \in S}
  <1>1. T \subseteq Nat
    OBVIOUS
  <1>2. T # {}
    OBVIOUS
  <1> HIDE DEF T
  <1>3. PICK y \in T : \A z \in T : ~(<<z, y>> \in OpToRel(<, Nat))
    BY <1>1, <1>2, NatLessThanWellFounded, WFMin
  <1>4. \A z \in T : ~(z < y)
    BY <1>1, <1>3 DEF OpToRel
  <1>5. PICK x \in S : y = n - x
    BY DEF T
  <1>6. \A z \in S : x >= z
    <2> SUFFICES ASSUME NEW z \in S PROVE x >= z
      OBVIOUS
    <2>1. n - z \in T
      BY DEF T
    <2>2. ~(n - z < n - x)
      BY <1>4, <1>5, <2>1
    <2> QED BY <2>2
  <1> QED BY <1>6 DEF Max

\* The last restored index is one of the ledger, or 0.
LEMMA LastIndexIs ==
  /\ LastIndex \in Nat /\ LastIndex <= MAX_ROUNDS
  /\ LastIndex # 0 => LastIndex \in Indexes
  /\ \A i \in Indexes : i <= LastIndex
  <1>1. MAX_ROUNDS \in Nat
    BY LoopAssumption
  <1>2. Indexes \cup {0} \in SUBSET (0..MAX_ROUNDS) /\ Indexes \cup {0} # {}
    BY <1>1 DEF Indexes
  <1>3. /\ Max(Indexes \cup {0}) \in Indexes \cup {0}
        /\ \A x \in Indexes \cup {0} : x <= Max(Indexes \cup {0})
    BY <1>1, <1>2, MaxIn
  <1> QED BY <1>1, <1>2, <1>3 DEF LastIndex

\* What a resume restores are rounds, if no index is missing.
LEMMA RecordedIs ==
  ASSUME ledger \in Seq(Round), \A i \in Indexes : \A j \in 1..i : j \in Indexes
  PROVE  Recorded \in Seq(Round)
  <1>1. ASSUME NEW i \in 1..LastIndex
        PROVE  ledger[Max({k \in DOMAIN ledger : ledger[k].index = i})] \in Round
    <2> DEFINE K == {k \in DOMAIN ledger : ledger[k].index = i}
    <2>1. LastIndex # 0 /\ LastIndex \in Nat
      BY LastIndexIs
    <2>2. i \in Indexes
      BY <2>1, LastIndexIs
    <2>3. K # {}
      BY <2>2 DEF Indexes
    <2>4. Len(ledger) \in Nat /\ K \in SUBSET (0..Len(ledger))
      OBVIOUS
    <2> HIDE DEF K
    <2>5. Max(K) \in K
      BY <2>3, <2>4, MaxIn
    <2> QED BY <2>5 DEF K
  <1>2. LastIndex \in Nat
    BY LastIndexIs
  <1> QED BY <1>1, <1>2 DEF Recorded

\* Every abort is for a reason.
LEMMA Reasons ==
  /\ NoReason \in Reason /\ "user_cancelled" \in Reason /\ "provider_error" \in Reason
  /\ "manager_blocked" \in Reason /\ "needs_human_input" \in Reason
  /\ "max_rounds_exhausted" \in Reason /\ "human_abort" \in Reason
  /\ "user_cancelled" # NoReason /\ "provider_error" # NoReason
  /\ "manager_blocked" # NoReason /\ "needs_human_input" # NoReason
  /\ "max_rounds_exhausted" # NoReason /\ "human_abort" # NoReason
  BY DEF Reason, NoReason

\* A new generation's state.
LEMMA NewCtxIs ==
  ASSUME NEW n \in Nat
  PROVE  /\ NewCtx(n) \in Context
         /\ NewCtx(n).round_index = n /\ NewCtx(n).round_budget > n
         /\ ~NewCtx(n).completion_satisfied
         /\ NewCtx(n).carryover = <<>> /\ NewCtx(n).inj = <<>> /\ NewCtx(n).todo = 0
  <1> DEFINE b == n + (IF Episodes > 1 THEN Episodes ELSE 1)
  <1>1. b \in Nat /\ b > n
    BY LoopAssumption
  <1>2. <<>> \in Seq(Int)
    OBVIOUS
  <1>3. NewCtx(n) = [round_index |-> n, round_budget |-> b,
                     completion_satisfied |-> FALSE, abort_reason |-> NoReason,
                     carryover |-> <<>>, inj |-> <<>>, todo |-> 0, outcome |-> "progress",
                     response_round |-> 0, final_response |-> FALSE]
    BY DEF NewCtx
  <1> HIDE DEF b
  <1>4. NewCtx(n) \in Context
    BY <1>1, <1>2, <1>3, Reasons DEF Context
  <1> QED BY <1>1, <1>3, <1>4

\* What the operators on the loop's state leave alone.
Same(c, d) ==
    /\ d \in Context
    /\ d.round_index = c.round_index /\ d.todo = c.todo
    /\ d.carryover = c.carryover /\ d.inj = c.inj

\* A continued run has a budget for another round if it was about to finish.
LEMMA ContinuedIs ==
  ASSUME NEW c \in Context, NEW extra \in Nat
  PROVE  /\ Same(c, Continued(c, extra))
         /\ Continued(c, extra).completion_satisfied <=>
                c.completion_satisfied /\ c.outcome # "completed"
         /\ \/ Continued(c, extra).round_budget > c.round_index
            \/ ~Extends(c) /\ Continued(c, extra).round_budget = c.round_budget
  <1> DEFINE b == IF Extends(c) THEN Extended(c, extra) ELSE c.round_budget
             s == c.completion_satisfied /\ c.outcome # "completed"
             d == [c EXCEPT !.outcome = "progress", !.final_response = FALSE,
                            !.completion_satisfied = s, !.round_budget = b]
  <1>1. Continued(c, extra) = d
    BY DEF Continued
  <1>2. c.round_index \in Nat /\ c.round_budget \in Nat /\ c.completion_satisfied \in BOOLEAN
    BY DEF Context
  <1>3. Extended(c, extra) \in Nat /\ Extended(c, extra) > c.round_index
    BY <1>2, LoopAssumption DEF Extended
  <1>4. b \in Nat /\ (b > c.round_index \/ (~Extends(c) /\ b = c.round_budget))
    <2>1. CASE Extends(c)
      BY <1>3, <2>1
    <2>2. CASE ~Extends(c)
      BY <1>2, <2>2
    <2> QED BY <2>1, <2>2
  <1>5. s \in BOOLEAN
    BY <1>2
  <1> HIDE DEF b, s
  <1>6. d \in Context
    BY <1>4, <1>5 DEF Context
  <1>7. /\ d.round_index = c.round_index /\ d.todo = c.todo /\ d.carryover = c.carryover
        /\ d.inj = c.inj /\ d.completion_satisfied = s /\ d.round_budget = b
    BY DEF Context
  <1> HIDE DEF d
  <1> QED BY <1>1, <1>4, <1>6, <1>7 DEF Same, s

\* Carrying texts over takes the place of the worker's two lists.
LEMMA CarryIs ==
  ASSUME NEW c \in Context, NEW texts \in Seq(Int)
  PROVE  LET d == Carry(c, texts) IN
         /\ d \in Context /\ d.round_index = c.round_index /\ d.todo = c.todo
         /\ d.round_budget = c.round_budget /\ d.outcome = c.outcome
         /\ d.completion_satisfied = c.completion_satisfied
         /\ texts = <<>> => d = c
         /\ texts # <<>> => d.carryover = texts /\ d.inj = <<>>
  <1>1. CASE texts = <<>>
    BY <1>1 DEF Carry
  <1>2. CASE texts # <<>>
    <2> DEFINE d == [c EXCEPT !.carryover = texts, !.inj = <<>>]
    <2>1. Carry(c, texts) = d
      BY <1>2 DEF Carry
    <2>2. <<>> \in Seq(Int)
      OBVIOUS
    <2>3. d \in Context
      BY <2>2 DEF Context
    <2>4. /\ d.round_index = c.round_index /\ d.todo = c.todo
          /\ d.round_budget = c.round_budget /\ d.outcome = c.outcome
          /\ d.completion_satisfied = c.completion_satisfied
          /\ d.carryover = texts /\ d.inj = <<>>
      BY DEF Context
    <2> HIDE DEF d
    <2> QED BY <1>2, <2>1, <2>3, <2>4
  <1> QED BY <1>1, <1>2

\* A reply changes nothing but itself.
LEMMA RepliedIs ==
  ASSUME NEW c \in Context, NEW reply \in BOOLEAN, ctx \in Context
  PROVE  LET d == Replied(c, reply) IN
         /\ Same(c, d) /\ d.round_budget = c.round_budget /\ d.outcome = c.outcome
         /\ d.completion_satisfied = c.completion_satisfied /\ d.abort_reason = c.abort_reason
  <1>1. CASE Replies
    <2> DEFINE d == [c EXCEPT !.response_round = ctx.round_index, !.final_response = reply]
    <2>1. Replied(c, reply) = d
      BY <1>1 DEF Replied
    <2>2. ctx.round_index \in Nat
      BY DEF Context
    <2>3. d \in Context
      BY <2>2 DEF Context
    <2>4. /\ d.round_index = c.round_index /\ d.todo = c.todo /\ d.carryover = c.carryover
          /\ d.inj = c.inj /\ d.round_budget = c.round_budget /\ d.outcome = c.outcome
          /\ d.completion_satisfied = c.completion_satisfied /\ d.abort_reason = c.abort_reason
      BY DEF Context
    <2> HIDE DEF d
    <2> QED BY <2>1, <2>3, <2>4 DEF Same
  <1>2. CASE ~Replies
    BY <1>2 DEF Replied, Same
  <1> QED BY <1>1, <1>2

\* A cancelled reply cancels the run.
LEMMA ReplyCancelledIs ==
  ASSUME NEW c \in Context, ctx \in Context
  PROVE  LET d == ReplyCancelled(c) IN
         /\ Same(c, d) /\ ~d.completion_satisfied /\ d.abort_reason # NoReason
  <1> DEFINE d == [c EXCEPT !.response_round = ctx.round_index,
                            !.abort_reason = "user_cancelled", !.completion_satisfied = FALSE]
  <1>1. ReplyCancelled(c) = d
    BY DEF ReplyCancelled
  <1>2. ctx.round_index \in Nat
    BY DEF Context
  <1>3. d \in Context
    BY <1>2, Reasons DEF Context
  <1>4. /\ d.round_index = c.round_index /\ d.todo = c.todo /\ d.carryover = c.carryover
        /\ d.inj = c.inj /\ ~d.completion_satisfied /\ d.abort_reason = "user_cancelled"
    BY DEF Context
  <1> HIDE DEF d
  <1> QED BY <1>1, <1>3, <1>4, Reasons DEF Same

\* A new reason changes nothing else.
LEMMA AbortIs ==
  ASSUME NEW c \in Context, NEW reason \in Reason
  PROVE  LET d == [c EXCEPT !.abort_reason = reason] IN
         /\ Same(c, d) /\ d.round_budget = c.round_budget /\ d.outcome = c.outcome
         /\ d.completion_satisfied = c.completion_satisfied /\ d.abort_reason = reason
  BY DEF Same, Context

\* A run that is stopped at its gate has a reason, or has completed.
LEMMA StoppedIs ==
  ASSUME NEW c \in Context
  PROVE  LET d == Stopped(c) IN
         /\ Same(c, d) /\ d.round_budget = c.round_budget /\ d.outcome = c.outcome
         /\ d.completion_satisfied = c.completion_satisfied
         /\ d.completion_satisfied \/ d.abort_reason # NoReason
  <1>1. c.abort_reason \in Reason
    BY DEF Context
  <1>2. PICK r \in Reason : /\ Stopped(c) = [c EXCEPT !.abort_reason = r]
                            /\ c.completion_satisfied \/ r # NoReason
    <2>1. CASE ReachedMax
      BY <2>1, Reasons DEF Stopped
    <2>2. CASE ~ReachedMax /\ c.outcome = "blocked"
      BY <2>2, Reasons DEF Stopped
    <2>3. CASE ~ReachedMax /\ c.outcome # "blocked" /\ ~c.completion_satisfied
      BY <2>3, Reasons DEF Stopped
    <2>4. CASE ~ReachedMax /\ c.outcome # "blocked" /\ c.completion_satisfied
      BY <1>1, <2>4 DEF Stopped
    <2> QED BY <2>1, <2>2, <2>3, <2>4
  <1> QED BY <1>2, AbortIs

\* So has one that ends without a gate.
LEMMA AloneIs ==
  ASSUME NEW c \in Context
  PROVE  LET d == Alone(c) IN
         /\ Same(c, d) /\ d.round_budget = c.round_budget /\ d.outcome = c.outcome
         /\ d.completion_satisfied = c.completion_satisfied
         /\ d.completion_satisfied \/ d.abort_reason # NoReason
  <1>1. CASE c.completion_satisfied
    BY <1>1 DEF Alone, Same
  <1>2. CASE ~c.completion_satisfied
    <2>1. PICK r \in Reason : Alone(c) = [c EXCEPT !.abort_reason = r] /\ r # NoReason
      <3>1. CASE ctx.outcome = "blocked"
        BY <1>2, <3>1, Reasons DEF Alone
      <3>2. CASE ctx.outcome = "ask"
        BY <1>2, <3>2, Reasons DEF Alone
      <3>3. CASE ctx.outcome \notin {"blocked", "ask"}
        BY <1>2, <3>3, Reasons DEF Alone
      <3> QED BY <3>1, <3>2, <3>3
    <2> QED BY <2>1, AbortIs
  <1> QED BY <1>1, <1>2

-----------------------------------------------------------------------------
(* Texts.                                                                  *)

All == delivered \o Held

\* All texts of a worker are integers in a sequence.
LEMMA AllIs ==
  ASSUME TypeOK
  PROVE  /\ Held \in Seq(Int) /\ All \in Seq(Int)
         /\ applied \in Nat /\ answers \in Nat /\ lost \subseteq Int
  <1>1. /\ delivered \in Seq(Int) /\ ctx.carryover \in Seq(Int) /\ ctx.inj \in Seq(Int)
        /\ applied \in Nat /\ answers \in Nat /\ lost \subseteq Int
    BY LoopAssumption DEF TypeOK, Context
  <1>2. Held \in Seq(Int)
    BY <1>1, ConcatProperties DEF Held
  <1>3. All \in Seq(Int)
    BY <1>1, <1>2, ConcatProperties DEF All
  <1> QED BY <1>1, <1>2, <1>3

\* A step that moves texts between the worker's lists and prompts, in order.
LEMMA TextsKept ==
  ASSUME TextsOnce, All' = All, UNCHANGED <<lost, applied, answers>>
  PROVE  TextsOnce'
  BY DEF TextsOnce, All

\* One more text, the next instruction or the next answer, at the end.
LEMMA TextAdded ==
  ASSUME TypeOK, TextsOnce, NEW x \in Int, All' = Append(All, x), UNCHANGED lost,
         \/ x = applied + 1 /\ applied' = x /\ UNCHANGED answers
         \/ x = -(answers + 1) /\ answers' = -x /\ UNCHANGED applied
  PROVE  TextsOnce'
  <1> DEFINE new == (1..applied') \cup ((-answers')..(-1))
             old == (1..applied) \cup ((-answers)..(-1))
  <1>1. /\ All \in Seq(Int) /\ applied \in Nat /\ answers \in Nat /\ lost \subseteq Int
    BY AllIs
  <1>2. /\ Len(All') = Len(All) + 1 /\ DOMAIN All' = 1..(Len(All) + 1)
        /\ \A i \in 1..Len(All) : All'[i] = All[i]
        /\ All'[Len(All) + 1] = x
        /\ DOMAIN All = 1..Len(All) /\ Len(All) \in Nat
    BY <1>1, AppendProperties, LenProperties
  <1>3. /\ ToSet(All) \cap lost = {} /\ ToSet(All) \cup lost = old
        /\ \A i, j \in DOMAIN All : i < j =>
              /\ All[i] > 0 /\ All[j] > 0 => All[i] < All[j]
              /\ All[i] < 0 /\ All[j] < 0 => All[i] > All[j]
    BY DEF TextsOnce, All
  <1>4. new = old \cup {x} /\ x \notin old
    BY <1>1
  <1>5. \A y \in old : (y > 0 /\ x > 0 => y < x) /\ (y < 0 /\ x < 0 => y > x)
    BY <1>1
  <1>6. \A i \in 1..Len(All) : All[i] \in old
    BY <1>2, <1>3 DEF ToSet
  <1> HIDE DEF new, old
  <1>7. ToSet(All') = ToSet(All) \cup {x}
    BY <1>2 DEF ToSet
  <1>8. ToSet(All') \cap lost = {} /\ ToSet(All') \cup lost = new
    BY <1>3, <1>4, <1>7
  <1>9. ASSUME NEW i \in DOMAIN All', NEW j \in DOMAIN All', i < j
        PROVE  /\ All'[i] > 0 /\ All'[j] > 0 => All'[i] < All'[j]
               /\ All'[i] < 0 /\ All'[j] < 0 => All'[i] > All'[j]
    <2>1. i \in 1..Len(All) /\ All'[i] = All[i]
      BY <1>2, <1>9
    <2>2. CASE j \in 1..Len(All)
      BY <1>2, <1>3, <1>9, <2>1, <2>2
    <2>3. CASE j \notin 1..Len(All)
      <3>1. All'[j] = x
        BY <1>2, <2>3
      <3> QED BY <1>5, <1>6, <2>1, <3>1
    <2> QED BY <2>2, <2>3
  <1> QED BY <1>8, <1>9 DEF TextsOnce, All, new

\* A worker that is gone takes what it held with it.
LEMMA TextsLost ==
  ASSUME TypeOK, TextsOnce, Held' = <<>>, lost' = lost \cup ToSet(Held),
         UNCHANGED <<delivered, applied, answers>>
  PROVE  TextsOnce'
  <1>0. delivered \in Seq(Int) /\ Held \in Seq(Int)
    BY AllIs DEF TypeOK
  <1>1. /\ delivered \in Seq(Int) /\ Held \in Seq(Int)
        /\ Len(delivered) \in Nat /\ DOMAIN delivered = 1..Len(delivered)
        /\ Len(Held) \in Nat /\ DOMAIN Held = 1..Len(Held)
    BY <1>0, LenProperties
  <1>2. All' = delivered
    BY <1>1, ConcatEmptySeq DEF All
  <1>3. /\ DOMAIN All = 1..(Len(delivered) + Len(Held))
        /\ \A i \in 1..Len(delivered) : All[i] = delivered[i]
        /\ \A i \in 1..Len(Held) :
              \E n \in DOMAIN All : n > Len(delivered) /\ All[n] = Held[i]
        /\ \A n \in DOMAIN All : n > Len(delivered) =>
              n - Len(delivered) \in 1..Len(Held) /\ All[n] = Held[n - Len(delivered)]
    <2>1. /\ All \in Seq(Int)
          /\ Len(All) = Len(delivered) + Len(Held)
          /\ \A i \in 1..(Len(delivered) + Len(Held)) : All[i] =
                 IF i <= Len(delivered) THEN delivered[i] ELSE Held[i - Len(delivered)]
      BY <1>1, ConcatProperties DEF All
    <2>2. DOMAIN All = 1..(Len(delivered) + Len(Held))
      BY <2>1, LenProperties
    <2>3. \A i \in 1..Len(delivered) : All[i] = delivered[i]
      BY <1>1, <2>1
    <2>4. ASSUME NEW n \in DOMAIN All, n > Len(delivered)
          PROVE  n - Len(delivered) \in 1..Len(Held) /\ All[n] = Held[n - Len(delivered)]
      <3>1. n \in 1..(Len(delivered) + Len(Held)) /\ ~(n <= Len(delivered))
        BY <1>1, <2>2, <2>4
      <3>2. All[n] = Held[n - Len(delivered)]
        BY <2>1, <3>1
      <3>3. n - Len(delivered) \in 1..Len(Held)
        BY <1>1, <3>1
      <3> QED BY <3>2, <3>3
    <2>5. ASSUME NEW i \in 1..Len(Held)
          PROVE  \E n \in DOMAIN All : n > Len(delivered) /\ All[n] = Held[i]
      <3>1. PICK n \in DOMAIN All : n > Len(delivered) /\ n - Len(delivered) = i
        <4>1. /\ Len(delivered) + i \in DOMAIN All /\ Len(delivered) + i > Len(delivered)
              /\ (Len(delivered) + i) - Len(delivered) = i
          BY <1>1, <2>2
        <4> QED BY <4>1
      <3> QED BY <2>4, <3>1
    <2> QED BY <2>2, <2>3, <2>4, <2>5
  <1>4. ToSet(All) = ToSet(delivered) \cup ToSet(Held)
    <2>1. \A y \in ToSet(All) : y \in ToSet(delivered) \cup ToSet(Held)
      <3> SUFFICES ASSUME NEW i \in DOMAIN All
                   PROVE  All[i] \in ToSet(delivered) \cup ToSet(Held)
        BY DEF ToSet
      <3>1. CASE i <= Len(delivered)
        BY <1>1, <1>3, <3>1 DEF ToSet
      <3>2. CASE i > Len(delivered)
        <4>1. i - Len(delivered) \in 1..Len(Held) /\ All[i] = Held[i - Len(delivered)]
          BY <1>3, <3>2
        <4> QED BY <1>1, <4>1 DEF ToSet
      <3> QED BY <1>1, <1>3, <3>1, <3>2
    <2>2. ASSUME NEW i \in DOMAIN delivered PROVE delivered[i] \in ToSet(All)
      <3>1. i \in DOMAIN All /\ All[i] = delivered[i]
        BY <1>1, <1>3
      <3> QED BY <3>1 DEF ToSet
    <2>3. ASSUME NEW i \in DOMAIN Held PROVE Held[i] \in ToSet(All)
      <3>1. \E n \in DOMAIN All : All[n] = Held[i]
        BY <1>1, <1>3
      <3> QED BY <3>1 DEF ToSet
    <2>4. \A y \in ToSet(delivered) \cup ToSet(Held) : y \in ToSet(All)
      BY <2>2, <2>3 DEF ToSet
    <2> QED BY <2>1, <2>4
  <1>5. \A i \in DOMAIN delivered : i \in DOMAIN All /\ All[i] = delivered[i]
    BY <1>1, <1>3
  <1>6. /\ ToSet(All) \cap lost = {}
        /\ ToSet(All) \cup lost = (1..applied) \cup ((-answers)..(-1))
        /\ \A i, j \in DOMAIN All : i < j =>
              /\ All[i] > 0 /\ All[j] > 0 => All[i] < All[j]
              /\ All[i] < 0 /\ All[j] < 0 => All[i] > All[j]
    BY DEF TextsOnce, All
  <1>7. ToSet(delivered) \cap ToSet(Held) = {}
    <2> SUFFICES ASSUME NEW i \in DOMAIN delivered, NEW j \in DOMAIN Held,
                        delivered[i] = Held[j]
                 PROVE  FALSE
      BY DEF ToSet
    <2>0. PICK n \in DOMAIN All : n > Len(delivered) /\ All[n] = Held[j]
      BY <1>1, <1>3
    <2>1. i \in DOMAIN All /\ i < n /\ All[i] = delivered[i] /\ All[n] = Held[j]
      BY <1>1, <1>3, <2>0
    <2>2. All[i] \in ToSet(All)
      BY <2>1 DEF ToSet
    <2>3. All[i] \in Int /\ All[i] # 0
      <3>1. All[i] \in (1..applied) \cup ((-answers)..(-1))
        BY <1>6, <2>2
      <3> QED BY <3>1, AllIs
    <2> QED BY <1>6, <2>1, <2>3
  <1>8. /\ ToSet(All') \cap lost' = {}
        /\ ToSet(All') \cup lost' = (1..applied') \cup ((-answers')..(-1))
    BY <1>2, <1>4, <1>6, <1>7
  <1>9. \A i, j \in DOMAIN All' : i < j =>
              /\ All'[i] > 0 /\ All'[j] > 0 => All'[i] < All'[j]
              /\ All'[i] < 0 /\ All'[j] < 0 => All'[i] > All'[j]
    BY <1>2, <1>5, <1>6
  <1> QED BY <1>8, <1>9 DEF TextsOnce, All

-----------------------------------------------------------------------------
(* Steps of one kind.                                                      *)

Places == {"down", "round", "drain", "manager", "executor", "auditor",
           "ending", "hook", "gate", "final", "exited"}

\* The ledger stays, and what is reached of it.
LEMMA FilesKept ==
  ASSUME Inv, UNCHANGED ledger,
         AtWork' => ctx'.round_index >= 1,
         \/ pc' \in {"down", "exited", "final"}
         \/ pc \notin {"down", "exited", "final"} /\ Reached' = Reached
  PROVE  Files' /\ LedgerGoesOn'
  <1>1. Indexes' = Indexes
    BY DEF Indexes
  <1>2. LedgerGoesOn'
    BY DEF Inv, LedgerGoesOn
  <1>3. /\ \A k \in DOMAIN ledger' : ledger'[k].index >= 1
        /\ \A i \in Indexes' : \A j \in 1..i : j \in Indexes'
    BY <1>1 DEF Inv, Files
  <1>4. pc' \notin {"down", "exited", "final"} => Filled(Reached)'
    BY <1>1 DEF Inv, Files, Filled
  <1> QED BY <1>2, <1>3, <1>4 DEF Files

\* A step inside a worker that touches no file.
LEMMA WorkerMoves ==
  ASSUME Inv, pc \notin {"down", "exited", "final"},
         UNCHANGED <<rounds, ledger, report, bus, sent, applied, lost, hook, gen>>,
         delivered' \in Seq(Int), pc' \in Places, ctx' \in Context, ctx'.todo <= Len(bus),
         continues' \in 0..MaxContinues, answers' \in 0..MaxAnswers,
         pc' = "final" \/ Reached' = Reached,
         AtWork' => ctx'.round_index >= 1,
         pc' = "round" => ctx'.round_index < ctx'.round_budget,
         ctx'.completion_satisfied =>
            /\ ctx.completion_satisfied
            /\ pc' \in {"ending", "hook", "gate", "final"}
            /\ pc' # "final" => ctx'.outcome = "completed",
         pc' = "final" => ctx'.completion_satisfied \/ ctx'.abort_reason # NoReason,
         Lists', TextsOnce'
  PROVE  Inv'
  <1>1. TypeOK'
    BY DEF Inv, TypeOK, Places
  <1>2. Control'
    BY DEF Inv, Control, LatestIsClean
  <1>3. Queue'
    BY DEF Inv, Queue
  <1>4. Files' /\ LedgerGoesOn'
    BY FilesKept
  <1> QED BY <1>1, <1>2, <1>3, <1>4 DEF Inv

\* Claiming the oldest instruction for the list at the end of the texts.
LEMMA ClaimKeeps ==
  ASSUME Inv, NEW into \in {"carryover", "inj"}, Claim(into), pc \in {"drain", "hook"},
         into = "carryover" => pc = "drain", into = "inj" => pc = "hook"
  PROVE  Inv'
  <1> DEFINE x == Head(bus)
             d == [ctx EXCEPT !.todo = ctx.todo - 1, ![into] = Append(ctx[into], x)]
  <1>1. /\ ctx \in Context /\ ctx.todo > 0 /\ bus \in Seq(Nat) /\ Len(bus) \in Nat
        /\ applied \in 0..MaxNotes /\ sent \in 0..MaxNotes /\ MaxNotes \in Nat
    BY LoopAssumption DEF Inv, TypeOK, Claim
  <1>2. ctx.todo \in Nat /\ ctx.todo <= Len(bus) /\ bus # <<>>
    BY <1>1 DEF Inv, Queue, Context
  <1>3. /\ x \in Nat /\ Tail(bus) \in Seq(Nat) /\ Len(Tail(bus)) = Len(bus) - 1
        /\ \A i \in 1..Len(Tail(bus)) : Tail(bus)[i] = bus[i + 1]
    BY <1>1, <1>2, HeadTailProperties
  <1>4. x = applied + 1
    <2>1. x = bus[1] /\ 1 \in DOMAIN bus
      BY <1>1, <1>2
    <2> QED BY <2>1 DEF Inv, Queue
  <1>5. /\ bus' = Tail(bus) /\ applied' = applied + 1 /\ ctx' = d
        /\ UNCHANGED <<pc, rounds, ledger, report, sent, answers, delivered, lost, hook, continues, gen>>
    BY DEF Claim, durable, bounds
  <1>6. ctx.carryover \in Seq(Int) /\ ctx.inj \in Seq(Int) /\ ctx[into] \in Seq(Int)
    BY <1>1 DEF Context
  <1>7. Append(ctx[into], x) \in Seq(Int)
    BY <1>3, <1>6, AppendProperties
  <1>8. /\ d \in Context /\ d.round_index = ctx.round_index /\ d.round_budget = ctx.round_budget
        /\ d.completion_satisfied = ctx.completion_satisfied /\ d.outcome = ctx.outcome
        /\ d.abort_reason = ctx.abort_reason /\ d.todo = ctx.todo - 1
        /\ d[into] = Append(ctx[into], x)
        /\ into = "carryover" => d.inj = ctx.inj
        /\ into = "inj" => d.carryover = ctx.carryover
    <2>1. ctx.todo - 1 \in Nat
      BY <1>1, <1>2
    <2>2. CASE into = "carryover"
      <3> DEFINE s == Append(ctx.carryover, x)
                 e == [ctx EXCEPT !.todo = ctx.todo - 1, !.carryover = s]
      <3>1. d = e /\ s \in Seq(Int) /\ s = Append(ctx[into], x)
        BY <1>7, <2>2
      <3> HIDE DEF s
      <3> QED BY <1>1, <2>1, <2>2, <3>1 DEF Context
    <2>3. CASE into = "inj"
      <3> DEFINE s == Append(ctx.inj, x)
                 e == [ctx EXCEPT !.todo = ctx.todo - 1, !.inj = s]
      <3>1. d = e /\ s \in Seq(Int) /\ s = Append(ctx[into], x)
        BY <1>7, <2>3
      <3> HIDE DEF s
      <3> QED BY <1>1, <2>1, <2>3, <3>1 DEF Context
    <2> QED BY <2>2, <2>3
  <1> HIDE DEF d, x
  <1>9. TypeOK'
    BY <1>1, <1>2, <1>3, <1>5, <1>8 DEF Inv, TypeOK, Queue
  <1>10. Control'
    BY <1>5, <1>8 DEF Inv, Control, LatestIsClean
  <1>11. Queue'
    <2>1. Len(bus) = sent - applied /\ \A i \in 1..Len(bus) : bus[i] = applied + i
      BY <1>1 DEF Inv, Queue
    <2>2. ASSUME NEW i \in DOMAIN Tail(bus) PROVE Tail(bus)[i] = applied + 1 + i
      <3>1. i \in 1..Len(Tail(bus)) /\ i + 1 \in 1..Len(bus)
        BY <1>1, <1>3
      <3>2. bus[i + 1] = applied + (i + 1)
        BY <2>1, <3>1
      <3> QED BY <1>1, <1>3, <3>1, <3>2
    <2>3. ctx'.todo <= Len(bus') /\ Len(bus') = sent' - applied'
      BY <1>1, <1>2, <1>3, <1>5, <1>8, <2>1
    <2> QED BY <1>5, <2>2, <2>3 DEF Queue
  <1>12. Lists'
    BY <1>5, <1>8 DEF Inv, Lists
  <1>13. Files' /\ LedgerGoesOn'
    BY <1>5, <1>8, FilesKept DEF Reached, AtWork, Inv, Files
  <1>14. TextsOnce'
    <2>1. delivered \in Seq(Int) /\ Held \in Seq(Int) /\ x \in Int /\ <<>> \in Seq(Int)
      BY <1>3, AllIs DEF Inv, TypeOK
    <2>2. Held' = Append(Held, x)
      <3>1. CASE into = "carryover"
        BY <1>5, <1>6, <1>7, <1>8, <3>1, ConcatEmptySeq DEF Held, Inv, Lists
      <3>2. CASE into = "inj"
        BY <1>5, <1>6, <1>7, <1>8, <3>2, ConcatEmptySeq DEF Held, Inv, Lists
      <3> QED BY <3>1, <3>2
    <2>3. All' = Append(All, x)
      <3>1. <<x>> \in Seq(Int)
        BY <2>1
      <3>2. Held' = Held \o <<x>>
        BY <2>1, <2>2, AppendIsConcat
      <3>3. delivered \o Held \in Seq(Int) /\ Append(All, x) = All \o <<x>>
        BY <2>1, ConcatProperties, AppendIsConcat DEF All
      <3>4. delivered \o (Held \o <<x>>) = (delivered \o Held) \o <<x>>
        BY <2>1, <3>1, ConcatAssociative
      <3> QED BY <1>5, <3>2, <3>3, <3>4 DEF All
    <2> QED BY <1>4, <1>5, <2>1, <2>3, TextAdded DEF Inv
  <1> QED BY <1>9, <1>10, <1>11, <1>12, <1>13, <1>14 DEF Inv

\* A round without a report takes nothing from the latest audit.
LEMMA StaysClean ==
  ASSUME NEW rs \in Seq(Round), NEW r \in Round, r.audit = "none", LatestIsClean(rs)
  PROVE  LatestIsClean(Append(rs, r))
  <1>1. /\ Len(rs) \in Nat /\ DOMAIN rs = 1..Len(rs)
        /\ DOMAIN Append(rs, r) = 1..(Len(rs) + 1)
        /\ \A i \in 1..Len(rs) : Append(rs, r)[i] = rs[i]
        /\ Append(rs, r)[Len(rs) + 1] = r
    BY AppendProperties, LenProperties
  <1>2. PICK i \in 1..Len(rs) : /\ rs[i].audit = "clean"
                                /\ \A j \in DOMAIN rs : j > i => rs[j].audit = "none"
    BY <1>1 DEF LatestIsClean
  <1>3. ASSUME NEW j \in 1..(Len(rs) + 1), j > i PROVE Append(rs, r)[j].audit = "none"
    <2>1. CASE j \in 1..Len(rs)
      BY <1>1, <1>2, <1>3, <2>1
    <2>2. CASE j \notin 1..Len(rs)
      <3>1. j = Len(rs) + 1
        BY <1>1, <2>2
      <3> QED BY <1>1, <3>1
    <2> QED BY <2>1, <2>2
  <1>4. i \in DOMAIN Append(rs, r) /\ Append(rs, r)[i].audit = "clean"
    BY <1>1, <1>2
  <1> QED BY <1>1, <1>3, <1>4 DEF LatestIsClean

\* A round that is recorded is the next one of the ledger.
LEMMA FilesGrow ==
  ASSUME Inv, pc \in {"manager", "executor", "auditor"}, pc' \in {"ending", "final"},
         NEW r \in Round, r.index = ctx.round_index, ledger' = Append(ledger, r),
         ctx'.round_index = ctx.round_index
  PROVE  Files' /\ LedgerGoesOn'
  <1> DEFINE n == ctx.round_index
  <1>1. ledger \in Seq(Round) /\ n \in Nat /\ MAX_ROUNDS \in Nat
    BY LoopAssumption DEF Inv, TypeOK, Context
  <1>2. /\ Len(ledger) \in Nat /\ DOMAIN ledger = 1..Len(ledger)
        /\ DOMAIN ledger' = 1..(Len(ledger) + 1)
        /\ \A k \in 1..Len(ledger) : ledger'[k] = ledger[k]
        /\ ledger'[Len(ledger) + 1] = r
    BY <1>1, AppendProperties, LenProperties
  <1>3. \A k \in 1..Len(ledger) : ledger[k].index \in Nat
    <2> SUFFICES ASSUME NEW k \in 1..Len(ledger) PROVE ledger[k].index \in Nat
      OBVIOUS
    <2>1. ledger[k] \in Round
      BY <1>1, ElementOfSeq
    <2> QED BY <2>1 DEF Round
  <1>4. /\ n >= 1 /\ Reached = n - 1 /\ Filled(n - 1)
        /\ \A k \in DOMAIN ledger : ledger[k].index >= 1
        /\ \A i \in Indexes : \A j \in 1..i : j \in Indexes
    BY <1>1 DEF Inv, Files, AtWork, Reached
  <1>5. Indexes' = Indexes \cup ({n} \cap 1..MAX_ROUNDS)
    <2>1. ASSUME NEW k \in DOMAIN ledger' PROVE ledger'[k].index \in {ledger[m].index : m \in DOMAIN ledger} \cup {n}
      <3>1. CASE k \in 1..Len(ledger)
        BY <1>2, <3>1
      <3>2. CASE k \notin 1..Len(ledger)
        <4>1. k = Len(ledger) + 1
          BY <1>2, <3>2
        <4> QED BY <1>2, <4>1
      <3> QED BY <3>1, <3>2
    <2>2. ASSUME NEW m \in DOMAIN ledger PROVE ledger[m].index \in {ledger'[k].index : k \in DOMAIN ledger'}
      <3>1. m \in DOMAIN ledger' /\ ledger'[m] = ledger[m]
        BY <1>2
      <3> QED BY <3>1
    <2>3. n \in {ledger'[k].index : k \in DOMAIN ledger'}
      <3>1. Len(ledger) + 1 \in DOMAIN ledger'
        BY <1>2
      <3> QED BY <1>2, <3>1
    <2> QED BY <2>1, <2>2, <2>3 DEF Indexes
  <1> HIDE DEF n
  <1>6. \A i \in Indexes : i \in 1..MAX_ROUNDS
    BY DEF Indexes
  <1>7. Files'
    <2>1. ASSUME NEW k \in DOMAIN ledger' PROVE ledger'[k].index >= 1
      <3>1. CASE k \in 1..Len(ledger)
        BY <1>2, <1>4, <3>1
      <3>2. CASE k \notin 1..Len(ledger)
        <4>1. k = Len(ledger) + 1
          BY <1>2, <3>2
        <4> QED BY <1>2, <1>4, <4>1 DEF n
      <3> QED BY <3>1, <3>2
    <2>2. ASSUME NEW i \in Indexes', NEW j \in 1..i PROVE j \in Indexes'
      <3>1. CASE i \in Indexes
        BY <1>4, <1>5, <3>1
      <3>2. CASE i \notin Indexes
        <4>1. i = n /\ n \in 1..MAX_ROUNDS
          BY <1>5, <3>2
        <4>2. CASE j = n
          BY <1>5, <4>1, <4>2
        <4>3. CASE j # n
          <5>1. j \in 1..MAX_ROUNDS /\ j <= n - 1
            BY <1>1, <4>1, <4>3
          <5> QED BY <1>4, <1>5, <5>1 DEF Filled
        <4> QED BY <4>2, <4>3
      <3> QED BY <3>1, <3>2
    <2>3. ASSUME pc' = "ending" PROVE Filled(Reached)'
      <3>1. Reached' = n
        BY <2>3 DEF Reached, AtWork, n
      <3>2. ASSUME NEW i \in Indexes' PROVE i <= n
        BY <1>1, <1>4, <1>5, <1>6 DEF Filled
      <3>3. ASSUME NEW i \in 1..MAX_ROUNDS, i <= n PROVE i \in Indexes'
        <4>1. CASE i = n
          BY <1>5, <4>1
        <4>2. CASE i # n
          <5>1. i <= n - 1
            BY <1>1, <3>3, <4>2
          <5> QED BY <1>4, <1>5, <5>1 DEF Filled
        <4> QED BY <4>1, <4>2
      <3> QED BY <3>1, <3>2, <3>3 DEF Filled
    <2> QED BY <2>1, <2>2, <2>3 DEF Files, AtWork
  <1>8. LedgerGoesOn'
    <2> SUFFICES ASSUME NEW i \in DOMAIN ledger', NEW j \in DOMAIN ledger', i < j,
                        ledger'[i].index <= MAX_ROUNDS
                 PROVE  ledger'[i].index < ledger'[j].index
      BY DEF LedgerGoesOn
    <2>1. i \in 1..Len(ledger) /\ ledger'[i] = ledger[i]
      BY <1>2
    <2>2. CASE j \in 1..Len(ledger)
      BY <1>2, <2>1, <2>2 DEF Inv, LedgerGoesOn
    <2>3. CASE j \notin 1..Len(ledger)
      <3>1. j = Len(ledger) + 1
        BY <1>2, <2>3
      <3>2. ledger[i].index \in 1..MAX_ROUNDS
        BY <1>1, <1>2, <1>3, <1>4, <2>1
      <3>3. ledger[i].index \in Indexes
        BY <1>2, <2>1, <3>2 DEF Indexes
      <3>4. ledger[i].index <= n - 1
        BY <1>4, <3>3 DEF Filled
      <3> QED BY <1>1, <1>2, <2>1, <3>1, <3>2, <3>4 DEF n
    <2> QED BY <2>2, <2>3
  <1> QED BY <1>7, <1>8

\* Recording the round and going to its gate, or out of the loop.
LEMMA RecordKeeps ==
  ASSUME Inv, pc \in {"manager", "executor", "auditor"},
         NEW audit \in {"none", "clean", "dirty"}, NEW failed \in BOOLEAN, Record(audit, failed),
         UNCHANGED <<report, notes, bounds>>,
         Same(ctx, ctx'), pc' \in {"ending", "final"},
         pc' = "final" => ctx'.completion_satisfied \/ ctx'.abort_reason # NoReason,
         ctx'.completion_satisfied =>
            /\ pc' = "ending" /\ ctx'.outcome = "completed"
            /\ audit = "none" /\ LatestIsClean(rounds)
  PROVE  Inv'
  <1> DEFINE r == [index |-> ctx.round_index, audit |-> audit, failed |-> failed]
  <1>1. ctx \in Context /\ rounds \in Seq(Round) /\ ledger \in Seq(Round)
    BY DEF Inv, TypeOK
  <1>2. r \in Round /\ r.index = ctx.round_index /\ r.audit = audit
    BY <1>1 DEF Round, Context
  <1>3. rounds' = Append(rounds, r) /\ ledger' = Append(ledger, r)
    BY DEF Record
  <1> HIDE DEF r
  <1>4. TypeOK'
    <2>1. rounds' \in Seq(Round) /\ ledger' \in Seq(Round)
      BY <1>1, <1>2, <1>3, AppendProperties
    <2> QED BY <2>1 DEF Inv, TypeOK, Same, notes, bounds
  <1>5. Control'
    <2>1. ctx'.completion_satisfied => LatestIsClean(rounds')
      BY <1>1, <1>2, <1>3, StaysClean
    <2> QED BY <2>1 DEF Inv, Control, LatestIsClean
  <1>6. Queue'
    BY DEF Inv, Queue, Same, notes
  <1>7. Held = <<>> /\ Held' = Held
    BY DEF Inv, Lists, Held, Same
  <1>8. Lists'
    BY <1>7 DEF Lists
  <1>9. Files' /\ LedgerGoesOn'
    BY <1>2, <1>3, FilesGrow DEF Same
  <1>10. TextsOnce'
    BY <1>7, TextsKept DEF All, notes, Inv
  <1> QED BY <1>4, <1>5, <1>6, <1>8, <1>9, <1>10 DEF Inv

\* A worker that is gone leaves its files and the report as they are, or a
\* report that is complete only on a clean audit.
LEMMA ExitKeeps ==
  ASSUME Inv, Exit, report' \in [status : {"none", "complete", "cancelled", "failed",
                                           "blocked", "incomplete"}, clean : BOOLEAN],
         report'.status = "complete" => report'.clean
  PROVE  Inv'
  <1>1. /\ pc' = "exited" /\ ctx' = NewCtx(0) /\ rounds' = <<>>
        /\ lost' = lost \cup ToSet(Held)
        /\ UNCHANGED <<ledger, bus, sent, applied, answers, delivered, hook, continues, gen>>
    BY DEF Exit, bounds
  <1>2. /\ ctx' \in Context /\ ~ctx'.completion_satisfied /\ ctx'.todo = 0
        /\ ctx'.carryover = <<>> /\ ctx'.inj = <<>>
    BY <1>1, NewCtxIs
  <1>3. Held' = <<>>
    BY <1>2, ConcatEmptySeq DEF Held
  <1>4. TypeOK'
    <2>1. Held \in Seq(Int) /\ lost \subseteq Int
      BY AllIs DEF Inv
    <2>2. ToSet(Held) \subseteq Int
      BY <2>1 DEF ToSet
    <2>3. rounds' \in Seq(Round)
      BY <1>1
    <2> QED BY <1>1, <1>2, <2>1, <2>2, <2>3 DEF Inv, TypeOK
  <1>5. Control'
    BY <1>1, <1>2 DEF Control
  <1>6. Queue'
    <2>1. Len(bus) \in Nat
      BY DEF Inv, TypeOK
    <2> QED BY <1>1, <1>2, <2>1 DEF Inv, Queue
  <1>7. Lists'
    BY <1>1, <1>3 DEF Lists
  <1>8. Files' /\ LedgerGoesOn'
    BY <1>1, FilesKept DEF AtWork
  <1>9. TextsOnce'
    BY <1>1, <1>3, TextsLost DEF Inv
  <1> QED BY <1>4, <1>5, <1>6, <1>7, <1>8, <1>9 DEF Inv

-----------------------------------------------------------------------------
(* The actions.                                                            *)

\* What every step can use.
LEMMA Facts ==
  ASSUME Inv
  PROVE  /\ ctx \in Context /\ pc \in Places /\ rounds \in Seq(Round)
         /\ ctx.round_index \in Nat /\ ctx.round_budget \in Nat
         /\ ctx.completion_satisfied \in BOOLEAN /\ ctx.todo \in Nat
         /\ ctx.carryover \in Seq(Int) /\ ctx.inj \in Seq(Int)
         /\ bus \in Seq(Nat) /\ Len(bus) \in Nat /\ ctx.todo <= Len(bus)
         /\ delivered \in Seq(Int) /\ <<>> \in Seq(Int)
         /\ continues \in 0..MaxContinues /\ answers \in 0..MaxAnswers
         /\ TextsOnce
  BY DEF Inv, TypeOK, Context, Places, Queue

\* The head of the loop: with the invariant there is always a budget.
LEMMA RoundStartKeeps ==
  ASSUME Inv, RoundStart PROVE Inv'
  <1> DEFINE d == [ctx EXCEPT !.round_index = ctx.round_index + 1, !.todo = Len(bus)]
  <1>1. pc = "round" /\ ctx.round_index < ctx.round_budget
    BY DEF RoundStart, Inv, Control
  <1>2. /\ pc' = "drain" /\ ctx' = d
        /\ UNCHANGED <<rounds, ledger, report, notes, hook, continues, gen>>
    BY <1>1 DEF RoundStart, durable, bounds
  <1>3. /\ d \in Context /\ d.round_index = ctx.round_index + 1 /\ d.todo = Len(bus)
        /\ d.inj = ctx.inj /\ d.carryover = ctx.carryover
        /\ d.completion_satisfied = ctx.completion_satisfied
    <2>1. ctx \in Context /\ ctx.round_index + 1 \in Nat /\ Len(bus) \in Nat
      BY Facts
    <2> QED BY <2>1 DEF Context
  <1> HIDE DEF d
  <1>4. ~ctx.completion_satisfied
    BY <1>1 DEF Inv, Control
  <1>5. Reached' = Reached /\ ctx'.round_index >= 1
    <2>1. ctx.round_index \in Nat
      BY Facts
    <2>2. Reached = ctx.round_index /\ Reached' = ctx'.round_index - 1
      BY <1>1, <1>2 DEF Reached, AtWork
    <2> QED BY <1>2, <1>3, <2>1, <2>2
  <1>6. Held' = Held /\ Lists'
    BY <1>1, <1>2, <1>3 DEF Held, Lists, Inv
  <1>7. TextsOnce'
    BY <1>2, <1>6, Facts, TextsKept DEF All, notes
  <1>8. UNCHANGED <<rounds, ledger, report, bus, sent, applied, delivered, answers, lost,
                    hook, continues, gen>>
    BY <1>2 DEF notes
  <1> QED BY <1>1, <1>2, <1>3, <1>4, <1>5, <1>6, <1>7, <1>8, Facts, WorkerMoves DEF Places

\* The prompt takes what was carried over.
LEMMA PromptKeeps ==
  ASSUME Inv, Prompt PROVE Inv'
  <1> DEFINE d == [ctx EXCEPT !.carryover = <<>>]
  <1>1. /\ pc = "drain" /\ pc' = "manager" /\ ctx' = d
        /\ delivered' = delivered \o ctx.carryover
        /\ UNCHANGED <<rounds, ledger, report, bus, sent, applied, answers, lost,
                       hook, continues, gen>>
    BY DEF Prompt, durable, bounds
  <1>2. /\ d \in Context /\ d.round_index = ctx.round_index /\ d.todo = ctx.todo
        /\ d.inj = ctx.inj /\ d.carryover = <<>>
        /\ d.completion_satisfied = ctx.completion_satisfied
    BY Facts DEF Context
  <1> HIDE DEF d
  <1>3. ctx.inj = <<>> /\ ~ctx.completion_satisfied /\ ctx.round_index >= 1
    BY <1>1 DEF Inv, Lists, Control, Files, AtWork
  <1>4. Held = ctx.carryover /\ Held' = <<>>
    BY <1>1, <1>2, <1>3, Facts, ConcatEmptySeq DEF Held
  <1>5. delivered' \in Seq(Int)
    BY <1>1, Facts, ConcatProperties
  <1>6. All' = All
    BY <1>1, <1>4, <1>5, ConcatEmptySeq DEF All
  <1>7. TextsOnce'
    BY <1>1, <1>6, Facts, TextsKept
  <1>8. Reached' = Reached
    BY <1>1, <1>2 DEF Reached, AtWork
  <1>9. Lists'
    BY <1>1, <1>4 DEF Lists
  <1> QED BY <1>1, <1>2, <1>3, <1>5, <1>7, <1>8, <1>9, Facts, WorkerMoves DEF Places

\* An agent answers and the round goes on.
LEMMA RoutesKeeps ==
  ASSUME Inv, ManagerRoutes \/ ExecutorDone PROVE Inv'
  <1>1. /\ pc \in {"manager", "executor"} /\ pc' \in {"executor", "auditor"} /\ ctx' = ctx
        /\ UNCHANGED <<rounds, ledger, report, bus, sent, applied, delivered, answers, lost,
                       hook, continues, gen>>
    BY DEF ManagerRoutes, ExecutorDone, durable, notes, bounds
  <1>2. ~ctx.completion_satisfied /\ ctx.round_index >= 1
    BY <1>1 DEF Inv, Control, Files, AtWork
  <1>3. Held' = Held /\ Lists'
    BY <1>1 DEF Held, Lists, Inv
  <1>4. TextsOnce'
    BY <1>1, <1>3, Facts, TextsKept DEF All
  <1>5. Reached' = Reached
    BY <1>1 DEF Reached, AtWork
  <1> QED BY <1>1, <1>2, <1>3, <1>4, <1>5, Facts, WorkerMoves DEF Places

\* A cancelled manager episode ends the loop.
LEMMA ManagerCancelledKeeps ==
  ASSUME Inv, ManagerCancelled PROVE Inv'
  <1> DEFINE d == [ctx EXCEPT !.abort_reason = "user_cancelled"]
  <1>1. /\ pc = "manager" /\ pc' = "final" /\ ctx' = d
        /\ UNCHANGED <<rounds, ledger, report, bus, sent, applied, delivered, answers, lost,
                       hook, continues, gen>>
    BY DEF ManagerCancelled, Break, durable, notes, bounds
  <1>2. /\ Same(ctx, d) /\ d.abort_reason # NoReason
        /\ d.completion_satisfied = ctx.completion_satisfied
    BY Facts, AbortIs, Reasons
  <1> HIDE DEF d
  <1>3. ~ctx.completion_satisfied
    BY <1>1 DEF Inv, Control
  <1>4. Held' = Held /\ Lists'
    BY <1>1, <1>2 DEF Held, Lists, Same
  <1>5. TextsOnce'
    BY <1>1, <1>4, Facts, TextsKept DEF All
  <1>6. ~AtWork'
    BY <1>1 DEF AtWork
  <1>7. ctx' \in Context /\ ctx'.todo = ctx.todo
    BY <1>1, <1>2 DEF Same
  <1> QED BY <1>1, <1>2, <1>3, <1>4, <1>5, <1>6, <1>7, Facts, WorkerMoves DEF Places

\* Recording a round that is not done, and going on to the gate or out.
LEMMA RoundEnds ==
  ASSUME Inv, pc \in {"manager", "executor", "auditor"},
         NEW audit \in {"none", "clean", "dirty"}, NEW failed \in BOOLEAN, Record(audit, failed),
         UNCHANGED <<report, notes, bounds>>,
         \/ \E o \in {"progress", "blocked", "ask"} : ToGate(o)
         \/ \E a \in {"user_cancelled", "provider_error"} : Break(a)
  PROVE  Inv'
  <1>1. ~ctx.completion_satisfied
    BY DEF Inv, Control
  <1>2. ASSUME NEW o \in {"progress", "blocked", "ask"}, ToGate(o) PROVE Inv'
    <2> DEFINE d == [ctx EXCEPT !.outcome = o]
    <2>1. pc' = "ending" /\ ctx' = d
      BY <1>2 DEF ToGate
    <2>2. Same(ctx, d) /\ d.completion_satisfied = ctx.completion_satisfied
      BY Facts DEF Same, Context
    <2> HIDE DEF d
    <2> QED BY <1>1, <2>1, <2>2, RecordKeeps
  <1>3. ASSUME NEW a \in {"user_cancelled", "provider_error"}, Break(a) PROVE Inv'
    <2> DEFINE d == [ctx EXCEPT !.abort_reason = a]
    <2>1. pc' = "final" /\ ctx' = d
      BY <1>3 DEF Break
    <2>2. a \in Reason /\ a # NoReason
      BY Reasons
    <2>3. /\ Same(ctx, d) /\ d.completion_satisfied = ctx.completion_satisfied
          /\ d.abort_reason = a
      BY <2>2, Facts, AbortIs
    <2> HIDE DEF d
    <2> QED BY <1>1, <2>1, <2>2, <2>3, RecordKeeps
  <1> QED BY <1>2, <1>3

\* The ends of the three episodes that are recorded.
LEMMA EpisodeKeeps ==
  ASSUME Inv, ManagerFailed \/ ManagerHolds \/ ExecutorEnds \/ AuditorEnds
  PROVE  Inv'
  <1>1. CASE ManagerFailed
    BY <1>1, RoundEnds DEF ManagerFailed
  <1>2. CASE ManagerHolds
    BY <1>2, RoundEnds DEF ManagerHolds
  <1>3. CASE ExecutorEnds
    BY <1>3, RoundEnds DEF ExecutorEnds
  <1>4. CASE AuditorEnds
    BY <1>4, RoundEnds DEF AuditorEnds
  <1> QED BY <1>1, <1>2, <1>3, <1>4

\* The manager says done: accepted on a clean latest audit only.
LEMMA ManagerDoneKeeps ==
  ASSUME Inv, ManagerDone PROVE Inv'
  <1>1. pc = "manager" /\ UNCHANGED <<report, notes, bounds>>
    BY DEF ManagerDone
  <1>2. CASE LatestIsClean(rounds)
    <2> DEFINE d == [ctx EXCEPT !.outcome = "completed", !.completion_satisfied = TRUE]
    <2>1. Record("none", FALSE) /\ pc' = "ending" /\ ctx' = d
      BY <1>2 DEF ManagerDone
    <2>2. Same(ctx, d) /\ d.outcome = "completed"
      BY Facts DEF Same, Context
    <2> HIDE DEF d
    <2> QED BY <1>1, <1>2, <2>1, <2>2, RecordKeeps
  <1>3. CASE ~LatestIsClean(rounds)
    <2>1. Record("none", TRUE) /\ ToGate("progress")
      BY <1>3 DEF ManagerDone
    <2> QED BY <1>1, <2>1, RoundEnds
  <1> QED BY <1>2, <1>3

\* At the end of a round a reply may be written; the hook is asked, the loop
\* goes on with a budget, or it ends for a reason.
LEMMA EndingKeeps ==
  ASSUME Inv, Ending PROVE Inv'
  <1>1. /\ pc = "ending"
        /\ UNCHANGED <<rounds, ledger, report, bus, sent, applied, delivered, answers, lost,
                       hook, continues, gen>>
    BY DEF Ending, durable, notes, bounds
  <1>2. /\ ctx.carryover = <<>> /\ ctx.inj = <<>>
        /\ ctx.completion_satisfied => ctx.outcome = "completed"
    <2>1. Held = <<>>
      BY <1>1 DEF Inv, Lists
    <2> QED BY <1>1, <2>1, Facts, ConcatEqualIffEmpty, ConcatSimplifications DEF Held, Inv, Control
  <1>3. ASSUME pc' \in {"hook", "round", "final"}, ctx' \in Context,
               ctx'.round_index = ctx.round_index, ctx'.todo <= Len(bus),
               ctx'.carryover = <<>>, ctx'.inj = <<>>,
               pc' = "round" => ~ctx'.completion_satisfied /\ ctx'.round_index < ctx'.round_budget,
               ctx'.completion_satisfied => ctx.completion_satisfied,
               pc' = "hook" => ctx'.outcome = ctx.outcome,
               pc' = "final" => ctx'.completion_satisfied \/ ctx'.abort_reason # NoReason
        PROVE  Inv'
    <2>1. Reached' = Reached /\ ~AtWork'
      BY <1>1, <1>3 DEF Reached, AtWork
    <2>2. Held = <<>> /\ Held' = <<>>
      BY <1>2, <1>3, Facts, ConcatEmptySeq DEF Held
    <2>3. Lists'
      BY <1>3, <2>2 DEF Lists
    <2>4. TextsOnce'
      BY <1>1, <2>2, Facts, TextsKept DEF All
    <2>5. ctx'.completion_satisfied => (pc' # "final" => ctx'.outcome = "completed")
      BY <1>2, <1>3
    <2> QED BY <1>1, <1>3, <2>1, <2>3, <2>4, <2>5, Facts, WorkerMoves DEF Places
  <1>4. ASSUME NEW c \in Context, Same(ctx, c), c.round_budget = ctx.round_budget,
               c.outcome = ctx.outcome, c.completion_satisfied = ctx.completion_satisfied,
               \/ pc' = "hook" /\ ctx' = [c EXCEPT !.todo = Len(bus), !.inj = <<>>]
               \/ pc' = "final" /\ ctx' = Alone(c)
               \/ pc' = "round" /\ ctx' = c /\ ~ReachedMax /\ ~ctx.completion_satisfied
        PROVE  Inv'
    <2>1. CASE pc' = "hook" /\ ctx' = [c EXCEPT !.todo = Len(bus), !.inj = <<>>]
      <3> DEFINE n == Len(bus)
                 d == [c EXCEPT !.todo = n, !.inj = <<>>]
      <3>1. n \in Nat /\ <<>> \in Seq(Int)
        BY Facts
      <3> HIDE DEF n
      <3>2. /\ d \in Context /\ d.round_index = c.round_index /\ d.todo = n
            /\ d.carryover = c.carryover /\ d.inj = <<>> /\ d.outcome = c.outcome
            /\ d.completion_satisfied = c.completion_satisfied
        BY <1>4, <3>1 DEF Context
      <3> HIDE DEF d
      <3>3. ctx' = d
        BY <2>1 DEF d, n
      <3>4. ctx'.todo <= Len(bus)
        BY <3>1, <3>2, <3>3 DEF n
      <3> QED BY <1>2, <1>3, <1>4, <2>1, <3>2, <3>3, <3>4 DEF Same
    <2>2. CASE pc' = "final" /\ ctx' = Alone(c)
      <3>1. /\ Same(c, ctx') /\ ctx'.completion_satisfied = c.completion_satisfied
            /\ ctx'.completion_satisfied \/ ctx'.abort_reason # NoReason
        BY <2>2, AloneIs
      <3> QED BY <1>2, <1>3, <1>4, <2>2, <3>1, Facts DEF Same
    <2>3. CASE pc' = "round" /\ ctx' = c /\ ~ReachedMax /\ ~ctx.completion_satisfied
      <3>1. ctx.round_index < ctx.round_budget
        BY <2>3, Facts DEF ReachedMax
      <3> QED BY <1>2, <1>3, <1>4, <2>3, <3>1, Facts DEF Same
    <2> QED BY <1>4, <2>1, <2>2, <2>3
  <1> DEFINE ends == ctx.completion_satisfied \/ ctx.outcome = "blocked" \/ ReachedMax
             replies == ends \/ (~hook /\ ctx.outcome = "ask")
             Path(c) == IF hook
                        THEN pc' = "hook" /\ ctx' = [c EXCEPT !.todo = Len(bus), !.inj = <<>>]
                        ELSE IF ends \/ ctx.outcome = "ask"
                        THEN pc' = "final" /\ ctx' = Alone(c)
                        ELSE pc' = "round" /\ ctx' = c
  <1>5. ASSUME NEW reply \in BOOLEAN,
               Path(IF replies THEN Replied(ctx, reply) ELSE ctx)
        PROVE  Inv'
    <2>1. PICK c : c = IF replies THEN Replied(ctx, reply) ELSE ctx
      OBVIOUS
    <2>2. /\ Same(ctx, c) /\ c.round_budget = ctx.round_budget /\ c.outcome = ctx.outcome
          /\ c.completion_satisfied = ctx.completion_satisfied
      <3>1. CASE replies
        BY <2>1, <3>1, Facts, RepliedIs
      <3>2. CASE ~replies
        BY <2>1, <3>2, Facts DEF Same
      <3> QED BY <3>1, <3>2
    <2>3. c \in Context
      BY <2>2 DEF Same
    <2>4. Path(c)
      BY <1>5, <2>1
    <2> QED BY <1>4, <2>2, <2>3, <2>4
  <1>6. CASE pc' = "final" /\ ctx' = ReplyCancelled(ctx)
    <2>1. Same(ctx, ctx') /\ ~ctx'.completion_satisfied /\ ctx'.abort_reason # NoReason
      BY <1>6, Facts, ReplyCancelledIs
    <2> QED BY <1>2, <1>3, <1>6, <2>1, Facts DEF Same
  <1>7. \/ \E reply \in BOOLEAN : Path(IF replies THEN Replied(ctx, reply) ELSE ctx)
        \/ pc' = "final" /\ ctx' = ReplyCancelled(ctx)
    BY DEF Ending
  <1> HIDE DEF Path, replies
  <1> QED BY <1>5, <1>6, <1>7

\* The gate opens.
LEMMA OpenGateKeeps ==
  ASSUME Inv, OpenGate PROVE Inv'
  <1>1. /\ pc = "hook" /\ pc' = "gate" /\ ctx' = ctx
        /\ UNCHANGED <<rounds, ledger, report, bus, sent, applied, delivered, answers, lost,
                       hook, continues, gen>>
    BY DEF OpenGate, durable, notes, bounds
  <1>2. ctx.completion_satisfied => ctx.outcome = "completed"
    BY <1>1 DEF Inv, Control
  <1>3. Held' = Held /\ Lists'
    BY <1>1 DEF Held, Lists, Inv
  <1>4. TextsOnce'
    BY <1>1, <1>3, Facts, TextsKept DEF All
  <1>5. Reached' = Reached /\ ~AtWork'
    BY <1>1 DEF Reached, AtWork
  <1> QED BY <1>1, <1>2, <1>3, <1>4, <1>5, Facts, WorkerMoves DEF Places

\* What the hook brings back is all the worker holds, in order.
LEMMA HookCarries ==
  ASSUME Inv, pc \in {"hook", "gate"}, NEW text \in Seq(Int)
  PROVE  LET e == Carry(ctx, ctx.inj \o text) IN
         /\ e \in Context /\ e.round_index = ctx.round_index /\ e.todo = ctx.todo
         /\ e.round_budget = ctx.round_budget /\ e.outcome = ctx.outcome
         /\ e.completion_satisfied = ctx.completion_satisfied
         /\ e.inj = <<>> /\ e.carryover = ctx.inj \o text
  <1> DEFINE texts == ctx.inj \o text
             e == Carry(ctx, texts)
  <1>1. texts \in Seq(Int) /\ ctx.carryover = <<>> /\ ctx \in Context
    BY Facts, ConcatProperties DEF Inv, Lists
  <1>2. texts = <<>> => ctx.inj = <<>>
    BY Facts, ConcatEqualIffEmpty, ConcatSimplifications
  <1> HIDE DEF texts
  <1>3. /\ e \in Context /\ e.round_index = ctx.round_index /\ e.todo = ctx.todo
        /\ e.round_budget = ctx.round_budget /\ e.outcome = ctx.outcome
        /\ e.completion_satisfied = ctx.completion_satisfied
        /\ texts = <<>> => e = ctx
        /\ texts # <<>> => e.carryover = texts /\ e.inj = <<>>
    BY <1>1, CarryIs
  <1> HIDE DEF e
  <1>4. e.inj = <<>> /\ e.carryover = texts
    BY <1>1, <1>2, <1>3
  <1> QED BY <1>3, <1>4 DEF e, texts

\* An answer's text is a sequence of texts.
LEMMA AnswerIs ==
  ASSUME Inv, NEW text \in AnswerText PROVE text \in Seq(Int)
  <1>1. answers \in Nat /\ <<>> \in Seq(Int)
    BY Facts, LoopAssumption
  <1>2. -(answers + 1) \in Int
    BY <1>1
  <1>3. <<-(answers + 1)>> \in Seq(Int)
    BY <1>2
  <1> QED BY <1>1, <1>3 DEF AnswerText

\* An answer at the gate is the next text, if it has one.
LEMMA AnswerKeeps ==
  ASSUME Inv, pc \in {"hook", "gate"}, NEW text \in AnswerText,
         answers' = answers + Len(text), UNCHANGED <<delivered, lost, applied>>,
         ctx'.carryover = ctx.inj \o text, ctx'.inj = <<>>
  PROVE  TextsOnce' /\ answers' \in 0..MaxAnswers
  <1>1. /\ delivered \in Seq(Int) /\ ctx.inj \in Seq(Int) /\ <<>> \in Seq(Int)
        /\ answers \in 0..MaxAnswers /\ MaxAnswers \in Nat /\ TextsOnce
    BY Facts, LoopAssumption
  <1>2. Held = ctx.inj
    BY <1>1, ConcatEmptySeq DEF Held, Inv, Lists
  <1>3. CASE text = <<>>
    <2>1. Held' = Held /\ answers' = answers
      BY <1>1, <1>2, <1>3, ConcatEmptySeq DEF Held
    <2> QED BY <1>1, <2>1, TextsKept DEF All
  <1>4. CASE answers < MaxAnswers /\ text = <<-(answers + 1)>>
    <2> DEFINE x == -(answers + 1)
    <2>1. x \in Int /\ answers + 1 \in 0..MaxAnswers /\ -x = answers + 1 /\ Len(<<x>>) = 1
      BY <1>1, <1>4
    <2>2. answers' = -x
      BY <1>4, <2>1
    <2> HIDE DEF x
    <2>3. <<x>> \in Seq(Int) /\ text = <<x>>
      BY <1>4, <2>1 DEF x
    <2>4. Held' = Held \o <<x>>
      <3>1. ctx.inj \o <<x>> \in Seq(Int)
        BY <1>1, <2>3, ConcatProperties
      <3> QED BY <1>2, <2>3, <3>1, ConcatEmptySeq DEF Held
    <2>5. All' = Append(All, x)
      <3>1. delivered \o Held \in Seq(Int) /\ Append(All, x) = All \o <<x>>
        BY <1>1, <1>2, <2>1, ConcatProperties, AppendIsConcat DEF All
      <3>2. delivered \in Seq(Int) /\ Held \in Seq(Int) /\ <<x>> \in Seq(Int)
        BY <1>1, <1>2, <2>3
      <3>3. delivered \o (Held \o <<x>>) = (delivered \o Held) \o <<x>>
        BY <3>2, ConcatAssociative
      <3> QED BY <2>4, <3>1, <3>3 DEF All
    <2>6. TextsOnce'
      BY <1>1, <2>1, <2>2, <2>5, TextAdded DEF Inv, x
    <2> QED BY <2>1, <2>2, <2>6
  <1> QED BY <1>3, <1>4 DEF AnswerText

\* A loop that goes on has a budget: it had one, or gets one because it was
\* about to finish.
LEMMA ContinueKeeps ==
  ASSUME Inv, pc \in {"hook", "gate"}, NEW text \in AnswerText, NEW extra \in Nat,
         answers' = answers + Len(text), pc' = "round",
         ctx' = Continued(Carry(ctx, ctx.inj \o text), extra),
         continues' \in 0..MaxContinues,
         UNCHANGED <<rounds, ledger, report, bus, sent, applied, delivered, lost, hook, gen>>
  PROVE  Inv'
  <1>1. text \in Seq(Int)
    BY AnswerIs
  <1>2. PICK e \in Context :
          /\ e = Carry(ctx, ctx.inj \o text)
          /\ e.round_index = ctx.round_index /\ e.todo = ctx.todo
          /\ e.round_budget = ctx.round_budget /\ e.outcome = ctx.outcome
          /\ e.completion_satisfied = ctx.completion_satisfied
          /\ e.inj = <<>> /\ e.carryover = ctx.inj \o text
    BY <1>1, HookCarries
  <1>3. /\ Same(e, ctx')
        /\ ctx'.completion_satisfied <=> e.completion_satisfied /\ e.outcome # "completed"
        /\ \/ ctx'.round_budget > e.round_index
           \/ ~Extends(e) /\ ctx'.round_budget = e.round_budget
    BY <1>2, ContinuedIs
  <1>4. /\ ctx' \in Context /\ ctx'.round_index = ctx.round_index /\ ctx'.todo = ctx.todo
        /\ ctx'.inj = <<>> /\ ctx'.carryover = ctx.inj \o text
    BY <1>2, <1>3 DEF Same
  <1>5. ctx.completion_satisfied => ctx.outcome = "completed"
    BY DEF Inv, Control
  <1>6. ~ctx'.completion_satisfied
    BY <1>2, <1>3, <1>5, Facts
  <1>7. ctx'.round_index < ctx'.round_budget
    <2>1. CASE ctx'.round_budget > e.round_index
      BY <1>2, <1>4, <2>1, Facts DEF Context
    <2>2. CASE ~Extends(e) /\ ctx'.round_budget = e.round_budget
      BY <1>2, <1>4, <1>5, <2>2, Facts DEF Extends, ReachedMax
    <2> QED BY <1>3, <2>1, <2>2
  <1>8. TextsOnce' /\ answers' \in 0..MaxAnswers
    BY <1>4, AnswerKeeps
  <1>9. Lists'
    BY <1>4 DEF Lists
  <1>10. Reached' = Reached /\ ~AtWork'
    BY <1>4 DEF Reached, AtWork
  <1> QED BY <1>4, <1>6, <1>7, <1>8, <1>9, <1>10, Facts, WorkerMoves DEF Places

\* No gate is needed and the loop goes on.
LEMMA NoGateKeeps ==
  ASSUME Inv, NoGate PROVE Inv'
  <1>1. /\ pc = "hook" /\ pc' = "round" /\ ctx' = Continued(Carry(ctx, ctx.inj), 0)
        /\ UNCHANGED <<rounds, ledger, report, bus, sent, applied, delivered, answers, lost,
                       hook, continues, gen>>
    BY DEF NoGate, durable, notes, bounds
  <1>2. <<>> \in AnswerText /\ Len(<<>>) = 0 /\ answers' = answers + 0
    BY <1>1, Facts, LoopAssumption DEF AnswerText
  <1>3. ctx.inj \o <<>> = ctx.inj
    BY Facts, ConcatEmptySeq
  <1> QED BY <1>1, <1>2, <1>3, Facts, ContinueKeeps

\* The operator lets the run go on.
LEMMA GateContinueKeeps ==
  ASSUME Inv, GateContinue PROVE Inv'
  <1>1. /\ pc = "gate" /\ pc' = "round"
        /\ continues < MaxContinues /\ continues' = continues + 1
        /\ UNCHANGED <<rounds, ledger, report, bus, sent, applied, delivered, lost, hook, gen>>
    BY DEF GateContinue, durable
  <1>2. continues' \in 0..MaxContinues
    BY <1>1, Facts, LoopAssumption
  <1>3. PICK text \in AnswerText, extra \in Grant :
          /\ answers' = answers + Len(text)
          /\ ctx' = Continued(Carry(ctx, ctx.inj \o text), extra)
    BY DEF GateContinue
  <1>4. extra \in Nat
    BY LoopAssumption
  <1> QED BY <1>1, <1>2, <1>3, <1>4, ContinueKeeps

\* The operator ends it.
LEMMA GateStopKeeps ==
  ASSUME Inv, GateStop PROVE Inv'
  <1>1. /\ pc = "gate" /\ pc' = "final"
        /\ UNCHANGED <<rounds, ledger, report, bus, sent, applied, delivered, lost,
                       hook, continues, gen>>
    BY DEF GateStop, durable, bounds
  <1>2. PICK text \in AnswerText :
          /\ answers' = answers + Len(text)
          /\ \/ \E reply \in BOOLEAN :
                  ctx' = Replied(Stopped(Carry(ctx, ctx.inj \o text)), reply)
             \/ ctx' = ReplyCancelled(Stopped(Carry(ctx, ctx.inj \o text)))
    BY DEF GateStop
  <1>3. text \in Seq(Int)
    BY AnswerIs
  <1>4. PICK e \in Context :
          /\ e = Carry(ctx, ctx.inj \o text)
          /\ e.round_index = ctx.round_index /\ e.todo = ctx.todo
          /\ e.round_budget = ctx.round_budget /\ e.outcome = ctx.outcome
          /\ e.completion_satisfied = ctx.completion_satisfied
          /\ e.inj = <<>> /\ e.carryover = ctx.inj \o text
    BY <1>1, <1>3, HookCarries
  <1>5. PICK s : /\ s = Stopped(e) /\ Same(e, s)
                 /\ s.completion_satisfied = e.completion_satisfied
                 /\ s.completion_satisfied \/ s.abort_reason # NoReason
    BY StoppedIs
  <1>6. s \in Context
    BY <1>5 DEF Same
  <1>7. /\ Same(s, ctx')
        /\ ctx'.completion_satisfied => s.completion_satisfied
        /\ ctx'.completion_satisfied \/ ctx'.abort_reason # NoReason
    <2>1. ASSUME NEW reply \in BOOLEAN, ctx' = Replied(s, reply)
          PROVE  /\ Same(s, ctx')
                 /\ ctx'.completion_satisfied => s.completion_satisfied
                 /\ ctx'.completion_satisfied \/ ctx'.abort_reason # NoReason
      BY <1>5, <1>6, <2>1, RepliedIs, Facts
    <2>2. CASE ctx' = ReplyCancelled(s)
      BY <1>6, <2>2, ReplyCancelledIs, Facts
    <2> QED BY <1>2, <1>4, <1>5, <2>1, <2>2
  <1>8. /\ ctx' \in Context /\ ctx'.round_index = ctx.round_index /\ ctx'.todo = ctx.todo
        /\ ctx'.inj = <<>> /\ ctx'.carryover = ctx.inj \o text
        /\ ctx'.completion_satisfied => ctx.completion_satisfied
    BY <1>4, <1>5, <1>7 DEF Same
  <1>9. TextsOnce' /\ answers' \in 0..MaxAnswers
    BY <1>1, <1>2, <1>8, AnswerKeeps
  <1>10. Lists' /\ ~AtWork'
    BY <1>1 DEF Lists, AtWork
  <1> QED BY <1>1, <1>7, <1>8, <1>9, <1>10, Facts, WorkerMoves DEF Places

\* The final report says complete on a clean latest audit only.
LEMMA FinalKeeps ==
  ASSUME Inv, Final PROVE Inv'
  <1>1. pc = "final" /\ report' = Report(FinalStatus) /\ Exit
    BY DEF Final
  <1>2. FinalStatus \in {"complete", "cancelled", "failed", "blocked", "incomplete"}
    BY DEF FinalStatus
  <1>3. FinalStatus = "complete" => ctx.completion_satisfied
    BY DEF FinalStatus
  <1>4. ctx.completion_satisfied => LatestIsClean(rounds)
    BY DEF Inv, Control
  <1>5. LatestIsClean(rounds) \in BOOLEAN
    BY DEF LatestIsClean
  <1>6. report' = [status |-> FinalStatus, clean |-> LatestIsClean(rounds)]
    BY <1>1 DEF Report
  <1> QED BY <1>1, <1>2, <1>3, <1>4, <1>5, <1>6, ExitKeeps

\* The exception boundary and a worker that vanishes leave a report that is
\* there, or write one that does not say complete.
LEMMA DeathKeeps ==
  ASSUME Inv, Boundary \/ Vanish PROVE Inv'
  <1>1. /\ report \in [status : {"none", "complete", "cancelled", "failed", "blocked",
                                 "incomplete"}, clean : BOOLEAN]
        /\ report.status = "complete" => report.clean
    BY DEF Inv, TypeOK, Control
  <1>2. CASE Boundary
    <2>1. PICK status \in {"cancelled", "failed"} :
            report' = IF report = NoReport THEN Report(status) ELSE report
      BY <1>2 DEF Boundary
    <2>2. Exit
      BY <1>2 DEF Boundary
    <2>3. LatestIsClean(rounds) \in BOOLEAN
      BY DEF LatestIsClean
    <2>4. report' = [status |-> status, clean |-> LatestIsClean(rounds)] \/ report' = report
      BY <2>1 DEF Report
    <2> QED BY <1>1, <2>2, <2>3, <2>4, ExitKeeps
  <1>3. CASE Vanish
    <2>1. Exit /\ (report' = [status |-> "failed", clean |-> FALSE] \/ report' = report)
      BY <1>3 DEF Vanish, NoReport
    <2>2. CASE report' = [status |-> "failed", clean |-> FALSE]
      BY <2>1, <2>2, ExitKeeps
    <2>3. CASE report' = report
      BY <1>1, <2>1, <2>3, ExitKeeps
    <2> QED BY <2>1, <2>2, <2>3
  <1> QED BY <1>2, <1>3

\* An instruction that is sent is the last of the bus.
LEMMA SendKeeps ==
  ASSUME Inv, Send PROVE Inv'
  <1>1. /\ sent < MaxNotes /\ sent' = sent + 1 /\ bus' = Append(bus, sent + 1)
        /\ UNCHANGED <<pc, ctx, rounds, ledger, report, applied, answers, delivered, lost,
                       hook, continues, gen>>
    BY DEF Send, durable, bounds
  <1>2. /\ sent \in 0..MaxNotes /\ applied \in 0..MaxNotes /\ MaxNotes \in Nat
        /\ bus \in Seq(Nat) /\ Len(bus) \in Nat /\ ctx.todo \in Nat
    BY Facts, LoopAssumption DEF Inv, TypeOK
  <1>3. sent + 1 \in Nat
    BY <1>2
  <1>4. /\ bus' \in Seq(Nat) /\ Len(bus') = Len(bus) + 1
        /\ DOMAIN bus' = 1..(Len(bus) + 1) /\ DOMAIN bus = 1..Len(bus)
        /\ \A i \in 1..Len(bus) : bus'[i] = bus[i]
        /\ bus'[Len(bus) + 1] = sent + 1
    BY <1>1, <1>2, <1>3, AppendProperties, LenProperties
  <1>5. TypeOK'
    BY <1>1, <1>2, <1>4 DEF Inv, TypeOK
  <1>6. Queue'
    <2>1. /\ ctx.todo <= Len(bus) /\ Len(bus) = sent - applied
          /\ \A i \in DOMAIN bus : bus[i] = applied + i
      BY DEF Inv, Queue
    <2>2. ASSUME NEW i \in DOMAIN bus' PROVE bus'[i] = applied + i
      <3>1. CASE i \in 1..Len(bus)
        BY <1>4, <2>1, <3>1
      <3>2. CASE i \notin 1..Len(bus)
        <4>1. i = Len(bus) + 1 /\ bus'[i] = sent + 1
          BY <1>2, <1>4, <3>2
        <4> QED BY <1>2, <2>1, <4>1
      <3> QED BY <3>1, <3>2
    <2>3. ctx.todo <= Len(bus') /\ Len(bus') = sent' - applied
      BY <1>1, <1>2, <1>4, <2>1
    <2> QED BY <1>1, <2>2, <2>3 DEF Queue
  <1>7. Control' /\ Lists' /\ Files' /\ LedgerGoesOn'
    BY <1>1 DEF Inv, Control, LatestIsClean, Lists, Held, Files, Indexes, AtWork, Reached,
                Filled, LedgerGoesOn
  <1>8. TextsOnce'
    BY <1>1, Facts, TextsKept DEF All, Held
  <1> QED BY <1>5, <1>6, <1>7, <1>8 DEF Inv

\* A launch restores the rounds of the ledger and opens a budget after them.
LEMMA LaunchKeeps ==
  ASSUME Inv, Launch PROVE Inv'
  <1>1. /\ pc \in {"down", "exited"} /\ pc' = "round" /\ gen < MaxLaunches /\ gen' = gen + 1
        /\ rounds' = Recorded /\ ctx' = NewCtx(LastIndex)
        /\ UNCHANGED <<ledger, report, bus, sent, applied, answers, delivered, lost,
                       hook, continues>>
    BY DEF Launch, durable, notes
  <1>2. /\ LastIndex \in Nat /\ (LastIndex # 0 => LastIndex \in Indexes)
        /\ \A i \in Indexes : i <= LastIndex
    BY LastIndexIs
  <1>3. /\ ctx' \in Context /\ ctx'.round_index = LastIndex /\ ctx'.round_budget > LastIndex
        /\ ~ctx'.completion_satisfied
        /\ ctx'.carryover = <<>> /\ ctx'.inj = <<>> /\ ctx'.todo = 0
    BY <1>1, <1>2, NewCtxIs
  <1>4. /\ ledger \in Seq(Round)
        /\ \A k \in DOMAIN ledger : ledger[k].index >= 1
        /\ \A i \in Indexes : \A j \in 1..i : j \in Indexes
    BY DEF Inv, TypeOK, Files
  <1>5. rounds' \in Seq(Round)
    BY <1>1, <1>4, RecordedIs
  <1>6. TypeOK'
    <2>1. gen' \in 0..MaxLaunches
      BY <1>1, LoopAssumption DEF Inv, TypeOK
    <2> QED BY <1>1, <1>3, <1>5, <2>1 DEF Inv, TypeOK
  <1>7. Control'
    BY <1>1, <1>2, <1>3 DEF Inv, Control
  <1>8. Queue'
    BY <1>1, <1>3, Facts DEF Inv, Queue
  <1>9. Held = <<>> /\ Held' = <<>>
    BY <1>1, <1>3, Facts, ConcatEmptySeq DEF Inv, Lists, Held
  <1>10. Lists'
    BY <1>1, <1>3 DEF Lists
  <1>11. Indexes' = Indexes
    BY <1>1 DEF Indexes
  <1>12. Files'
    <2>1. Reached' = LastIndex /\ ~AtWork'
      BY <1>1, <1>3 DEF Reached, AtWork
    <2>2. ASSUME NEW i \in 1..MAX_ROUNDS, i <= LastIndex PROVE i \in Indexes
      <3>1. LastIndex # 0 /\ i \in 1..LastIndex
        BY <1>2, <2>2, LoopAssumption
      <3> QED BY <1>2, <1>4, <3>1
    <2> QED BY <1>1, <1>2, <1>4, <1>11, <2>1, <2>2 DEF Files, Filled
  <1>13. LedgerGoesOn'
    BY <1>1 DEF Inv, LedgerGoesOn
  <1>14. TextsOnce'
    BY <1>1, <1>9, Facts, TextsKept DEF All
  <1> QED BY <1>6, <1>7, <1>8, <1>10, <1>12, <1>13, <1>14 DEF Inv

-----------------------------------------------------------------------------
(* The theorems.                                                           *)

\* Nothing has been launched.
LEMMA InitInv ==
  Init => Inv
  <1> SUFFICES ASSUME Init PROVE Inv
    OBVIOUS
  <1>1. /\ ctx \in Context /\ ~ctx.completion_satisfied /\ ctx.todo = 0
        /\ ctx.carryover = <<>> /\ ctx.inj = <<>>
    BY NewCtxIs DEF Init
  <1>2. /\ <<>> \in Seq(Round) /\ <<>> \in Seq(Nat) /\ <<>> \in Seq(Int)
        /\ Len(<<>>) = 0 /\ DOMAIN <<>> = {}
    OBVIOUS
  <1>3. Held = <<>> /\ delivered \o Held = <<>>
    BY <1>1, <1>2, ConcatEmptySeq DEF Held, Init
  <1>4. TypeOK
    BY <1>1, <1>2, LoopAssumption DEF Init, TypeOK, NoReport
  <1>5. Control /\ Queue /\ Lists
    BY <1>1, <1>2, <1>3 DEF Init, Control, Queue, Lists, NoReport
  <1>6. Files /\ LedgerGoesOn
    BY <1>2 DEF Init, Files, LedgerGoesOn, Indexes, AtWork
  <1>7. TextsOnce
    <2>1. ToSet(<<>>) = {}
      BY <1>2 DEF ToSet
    <2>2. (1..applied) \cup ((-answers)..(-1)) = {}
      BY DEF Init
    <2> QED BY <1>2, <1>3, <2>1, <2>2 DEF Init, TextsOnce
  <1> QED BY <1>4, <1>5, <1>6, <1>7 DEF Inv

\* Every step keeps the invariant.
LEMMA StepInv ==
  Inv /\ [Next]_vars => Inv'
  <1> SUFFICES ASSUME Inv, [Next]_vars PROVE Inv'
    OBVIOUS
  <1>1. CASE Launch
    BY <1>1, LaunchKeeps
  <1>2. CASE RoundStart \/ Prompt
    BY <1>2, RoundStartKeeps, PromptKeeps
  <1>3. CASE RoundDrain \/ HookDrain
    BY <1>3, ClaimKeeps DEF RoundDrain, HookDrain
  <1>4. CASE ManagerCancelled \/ ManagerDone
    BY <1>4, ManagerCancelledKeeps, ManagerDoneKeeps
  <1>5. CASE ManagerFailed \/ ManagerHolds \/ ExecutorEnds \/ AuditorEnds
    BY <1>5, EpisodeKeeps
  <1>6. CASE ManagerRoutes \/ ExecutorDone
    BY <1>6, RoutesKeeps
  <1>7. CASE Ending \/ NoGate \/ OpenGate
    BY <1>7, EndingKeeps, NoGateKeeps, OpenGateKeeps
  <1>8. CASE GateContinue \/ GateStop
    BY <1>8, GateContinueKeeps, GateStopKeeps
  <1>9. CASE Final \/ Boundary \/ Vanish
    BY <1>9, FinalKeeps, DeathKeeps
  <1>10. CASE Send
    BY <1>10, SendKeeps
  <1>11. CASE UNCHANGED vars
    <2>1. UNCHANGED <<hook, pc, ctx, rounds, ledger, report, bus, sent, applied, answers,
                      delivered, lost, continues, gen>>
      BY <1>11 DEF vars, durable, notes, bounds
    <2>2. TypeOK' /\ Queue' /\ LedgerGoesOn'
      BY <2>1 DEF Inv, TypeOK, Queue, LedgerGoesOn
    <2>3. Control' /\ Lists' /\ TextsOnce'
      BY <2>1 DEF Inv, Control, LatestIsClean, Lists, Held, TextsOnce
    <2>4. Files'
      BY <2>1 DEF Inv, Files, Indexes, AtWork, Reached, Filled
    <2> QED BY <2>2, <2>3, <2>4 DEF Inv
  <1> QED BY <1>1, <1>2, <1>3, <1>4, <1>5, <1>6, <1>7, <1>8, <1>9, <1>10, <1>11 DEF Next, Step

\* The invariant of the loop (manager.py:546, 1106, 1240, 2385).
THEOREM InvHolds == Spec => []Inv
  BY InitInv, StepInv, PTL DEF Spec

\* Type correctness of the loop's state (_GateContext, manager.py:1106).
THEOREM TypeCorrect == Spec => []TypeOK
  <1>1. Inv => TypeOK
    BY DEF Inv
  <1> QED BY <1>1, InvHolds, PTL

\* The loop ends by completion, the operator, a cancellation or a failure,
\* never because its budget ran out under it (manager.py:1240).
THEOREM LoopEndsByDecision == Spec => []NeverFallsOut
  <1>1. Inv => NeverFallsOut
    BY DEF Inv, Control, NeverFallsOut
  <1> QED BY <1>1, InvHolds, PTL

\* No run is reported complete but on a clean latest audit (manager.py:546,
\* 1624).
THEOREM CompletionIsAudited == Spec => []CompleteIsAudited
  <1>1. Inv => CompleteIsAudited
    BY DEF Inv, Control, CompleteIsAudited
  <1> QED BY <1>1, InvHolds, PTL

\* A resumed run continues the numbering of its ledger (manager.py:285, 2385).
THEOREM ResumeContinuesLedger == Spec => []LedgerGoesOn
  <1>1. Inv => LedgerGoesOn
    BY DEF Inv
  <1> QED BY <1>1, InvHolds, PTL

\* An instruction or an answer reaches one prompt, in order, or is lost with
\* the worker that had claimed it (manager.py:383, 1212, state.py:1426).
THEOREM TextsDeliveredOnce == Spec => []TextsOnce
  <1>1. Inv => TextsOnce
    BY DEF Inv
  <1> QED BY <1>1, InvHolds, PTL
=============================================================================
