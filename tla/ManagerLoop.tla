----------------------------- MODULE ManagerLoop -----------------------------
(***************************************************************************)
(* The round loop of one run: manager.py (run, _run_impl, _human_gate,     *)
(* _write_final_response, _final_report, _write_terminal_failure,          *)
(* _recorded_rounds) with the classification of dashboard/gate.py and the  *)
(* instructions of the control bus.                                        *)
(*                                                                         *)
(* Agents are external: an episode ends in any way the loop distinguishes. *)
(* The gate is GateDecision's register seen from the worker: the operator  *)
(* answers it once (ApprovalGate shows how).  A worker may be killed, or   *)
(* leave through the exception boundary of `run`, anywhere; the run may be *)
(* resumed in place, on the same ledger and the same report file.          *)
(***************************************************************************)
EXTENDS Integers, Sequences, SequencesExt

CONSTANTS
    Episodes,      \* config.max_total_episodes
    MAX_ROUNDS,    \* the largest round index a ledger restores
    FailureLimit,  \* failing rounds in a row that raise a gate
    Grant,         \* extra_rounds values an operator may send, 0 for none
    MaxNotes,      \* bound: instructions sent through the bus
    MaxAnswers,    \* bound: answers with a text
    MaxContinues,  \* bound: gates answered with "continue"
    MaxLaunches,   \* bound: generations of the worker
    MaxIndex       \* bound: round index; the last two rounds are not continued

ASSUME LoopAssumption ==
    /\ Episodes \in Nat /\ MAX_ROUNDS \in Nat \ {0} /\ FailureLimit \in Nat \ {0}
    /\ Grant \subseteq Nat
    /\ MaxNotes \in Nat /\ MaxAnswers \in Nat /\ MaxContinues \in Nat
    /\ MaxLaunches \in Nat /\ MaxIndex \in Nat

VARIABLES
    hook,        \* the run has a human hook (dashboard or supervisor)
    pc,          \* where the worker is
    ctx,         \* the loop's state (_GateContext and the loop's locals)
    rounds,      \* the rounds in the worker's memory
    ledger,      \* rounds.jsonl
    report,      \* report.json: its status, and if the audit it quotes is clean
    bus,         \* instructions on the bus without a receipt
    sent,        \* instructions sent so far
    applied,     \* instructions with a receipt
    answers,     \* free-form answers given at gates
    delivered,   \* what the manager prompts have carried, in order
    lost,        \* what a worker had claimed and took down with it
    continues,   \* gates answered with "continue"
    gen          \* launches of the worker

vars == <<hook, pc, ctx, rounds, ledger, report, bus, sent, applied, answers,
          delivered, lost, continues, gen>>

durable == <<ledger, report>>
notes   == <<bus, sent, applied, answers, delivered, lost>>
bounds  == <<hook, continues, gen>>

\* A round as the loop looks back at it: the audit report it carries and
\* whether it counts as failing for the repeated-failure rule.
Round == [index : Nat, audit : {"none", "clean", "dirty"}, failed : BOOLEAN]

\* ctx: outcome is the argument of the pending _human_gate call, todo the
\* instructions the drain under way still has to claim, inj the hook's own
\* list of them.
NoReason == ""
Reason == {NoReason, "user_cancelled", "provider_error", "manager_blocked",
           "needs_human_input", "max_rounds_exhausted", "human_abort"}
Context == [round_index : Nat, round_budget : Nat,
            completion_satisfied : BOOLEAN, abort_reason : Reason,
            carryover : Seq(Int), inj : Seq(Int), todo : Nat,
            outcome : {"progress", "completed", "blocked", "ask"},
            response_round : Nat, final_response : BOOLEAN]

NewCtx(index) ==
    [round_index |-> index,
     round_budget |-> index + (IF Episodes > 1 THEN Episodes ELSE 1),
     completion_satisfied |-> FALSE, abort_reason |-> NoReason,
     carryover |-> <<>>, inj |-> <<>>, todo |-> 0, outcome |-> "progress",
     response_round |-> 0, final_response |-> FALSE]

NoReport == [status |-> "none", clean |-> FALSE]

\* The texts a worker has claimed and not yet put into a prompt.
Held == ctx.carryover \o ctx.inj

Running == pc \notin {"down", "exited"}

Init ==
    /\ hook \in BOOLEAN
    /\ pc = "down"
    /\ ctx = NewCtx(0)
    /\ rounds = <<>> /\ ledger = <<>>
    /\ report = NoReport
    /\ bus = <<>> /\ sent = 0 /\ applied = 0 /\ answers = 0
    /\ delivered = <<>> /\ lost = {}
    /\ continues = 0 /\ gen = 0

-----------------------------------------------------------------------------
(* Start and resume.                                                       *)

\* _recorded_rounds: the round indexes the ledger still vouches for.  They are
\* restored in order, so the last round has the largest one.
Indexes == {ledger[k].index : k \in DOMAIN ledger} \cap 1..MAX_ROUNDS

\* Mutant: a resumed worker numbers its rounds from 1 again.
LastIndexForgotten == 0

LastIndex == Max(Indexes \cup {0})

\* The latest entry of an index wins.  No index is missing below the last one.
Recorded == [i \in 1..LastIndex |->
                 ledger[Max({k \in DOMAIN ledger : ledger[k].index = i})]]

\* A launch of the worker.  The first one finds an empty ledger; a resume in
\* place restores it and gets a fresh budget on top.  The report stays.
Launch ==
    /\ pc \in {"down", "exited"}
    /\ gen < MaxLaunches
    /\ gen' = gen + 1
    /\ pc' = "round"
    /\ rounds' = Recorded
    /\ ctx' = NewCtx(LastIndex)
    /\ UNCHANGED <<hook, durable, notes, continues>>

-----------------------------------------------------------------------------
(* A round.                                                                *)

\* The head of the while loop.
RoundStart ==
    /\ pc = "round"
    /\ IF ctx.round_index < ctx.round_budget
       THEN /\ ctx.round_index < MaxIndex
            /\ pc' = "drain"
            /\ ctx' = [ctx EXCEPT !.round_index = @ + 1, !.todo = Len(bus)]
       ELSE /\ pc' = "final"
            /\ UNCHANGED ctx
    /\ UNCHANGED <<rounds, durable, notes, bounds>>

\* Mutant: a claimed instruction replaces what was carried over instead of
\* joining it.
ClaimReplaces(into) ==
    /\ ctx.todo > 0
    /\ bus' = Tail(bus)
    /\ applied' = applied + 1
    /\ ctx' = [ctx EXCEPT !.todo = @ - 1, ![into] = <<Head(bus)>>]
    /\ UNCHANGED <<pc, rounds, durable, sent, answers, delivered, lost, bounds>>

\* drain_injections: claim one instruction of the snapshot, receipt first.
\* Both callers keep what they claimed in memory only.
Claim(into) ==
    /\ ctx.todo > 0
    /\ bus' = Tail(bus)
    /\ applied' = applied + 1
    /\ ctx' = [ctx EXCEPT !.todo = @ - 1, ![into] = Append(@, Head(bus))]
    /\ UNCHANGED <<pc, rounds, durable, sent, answers, delivered, lost, bounds>>

RoundDrain == pc = "drain" /\ Claim("carryover")

\* The manager prompt takes everything carried over, once.
Prompt ==
    /\ pc = "drain" /\ ctx.todo = 0
    /\ pc' = "manager"
    /\ delivered' = delivered \o ctx.carryover
    /\ ctx' = [ctx EXCEPT !.carryover = <<>>]
    /\ UNCHANGED <<rounds, durable, bus, sent, applied, answers, lost, bounds>>

\* rounds.append and _record_round; then the gate, or the end of the loop.
Record(audit, failed) ==
    LET r == [index |-> ctx.round_index, audit |-> audit, failed |-> failed] IN
    /\ rounds' = Append(rounds, r)
    /\ ledger' = Append(ledger, r)

ToGate(outcome) ==
    /\ pc' = "ending"
    /\ ctx' = [ctx EXCEPT !.outcome = outcome]

Break(reason) ==
    /\ pc' = "final"
    /\ ctx' = [ctx EXCEPT !.abort_reason = reason]

\* _latest_auditor_is_clean_complete: rounds without a report are skipped.
LatestIsClean(rs) ==
    \E i \in DOMAIN rs : /\ rs[i].audit = "clean"
                         /\ \A j \in DOMAIN rs : j > i => rs[j].audit = "none"

\* The manager episode and what its answer leads to.
ManagerCancelled ==
    /\ pc = "manager"
    /\ Break("user_cancelled")
    /\ UNCHANGED <<rounds, durable, notes, bounds>>

ManagerFailed ==
    /\ pc = "manager"
    /\ \/ Record("none", TRUE) /\ ToGate("progress")     \* timeout: recoverable
       \/ Record("none", FALSE) /\ Break("provider_error")
    /\ UNCHANGED <<report, notes, bounds>>

ManagerDone ==
    /\ pc = "manager"
    /\ IF LatestIsClean(rounds)
       THEN /\ Record("none", FALSE)
            /\ pc' = "ending"
            /\ ctx' = [ctx EXCEPT !.outcome = "completed", !.completion_satisfied = TRUE]
       ELSE Record("none", TRUE) /\ ToGate("progress")
    /\ UNCHANGED <<report, notes, bounds>>

ManagerHolds ==
    /\ pc = "manager"
    /\ \/ Record("none", FALSE) /\ (ToGate("blocked") \/ ToGate("ask"))
       \/ Record("none", TRUE) /\ ToGate("progress")     \* invalid route
    /\ UNCHANGED <<report, notes, bounds>>

ManagerRoutes ==
    /\ pc = "manager"
    /\ pc' = "executor"
    /\ UNCHANGED <<ctx, rounds, durable, notes, bounds>>

\* The executor episode.
ExecutorEnds ==
    /\ pc = "executor"
    /\ \/ Record("none", FALSE) /\ Break("user_cancelled")
       \/ Record("none", TRUE) /\ Break("provider_error")
       \/ Record("none", TRUE) /\ ToGate("progress")     \* timeout
    /\ UNCHANGED <<report, notes, bounds>>

ExecutorDone ==
    /\ pc = "executor"
    /\ pc' = "auditor"
    /\ UNCHANGED <<ctx, rounds, durable, notes, bounds>>

\* The auditor episode with its format repair: a report that the repair could
\* not bring into form is never a clean one.
AuditorEnds ==
    /\ pc = "auditor"
    /\ \/ Record("none", FALSE) /\ Break("user_cancelled")
       \/ Record("none", TRUE) /\ Break("provider_error")
       \/ Record("none", TRUE) /\ ToGate("progress")     \* timeout
       \/ Record("clean", FALSE) /\ ToGate("progress")
       \/ \E failed \in BOOLEAN : Record("dirty", failed) /\ ToGate("progress")
    /\ UNCHANGED <<report, notes, bounds>>

-----------------------------------------------------------------------------
(* _human_gate.                                                            *)

ReachedMax == ~ctx.completion_satisfied /\ ctx.round_index >= ctx.round_budget

\* _write_final_response: at most one attempt per round.
Replies == ~ctx.final_response /\ rounds # <<>> /\ ctx.response_round # ctx.round_index

\* The reply episode ends with a reply, without one, or cancelled, which ends
\* the run as cancelled (_mark_cancelled).
Replied(c, reply) ==
    IF Replies THEN [c EXCEPT !.response_round = ctx.round_index, !.final_response = reply]
    ELSE c

ReplyCancelled(c) ==
    [c EXCEPT !.response_round = ctx.round_index,
              !.abort_reason = "user_cancelled", !.completion_satisfied = FALSE]

\* Without a hook the gate decides by itself.
Alone(c) ==
    IF c.completion_satisfied THEN c
    ELSE [c EXCEPT !.abort_reason =
              CASE ctx.outcome = "blocked" -> "manager_blocked"
                [] ctx.outcome = "ask"     -> "needs_human_input"
                [] OTHER                   -> "max_rounds_exhausted"]

\* Up to the hook: an ending round writes its reply before anyone is asked.
Ending ==
    LET ends == ctx.completion_satisfied \/ ctx.outcome = "blocked" \/ ReachedMax
        alone == ends \/ ctx.outcome = "ask" IN
    /\ pc = "ending"
    /\ \/ \E reply \in BOOLEAN :
            LET c == IF ends \/ (~hook /\ ctx.outcome = "ask") THEN Replied(ctx, reply) ELSE ctx IN
            IF hook
            THEN pc' = "hook" /\ ctx' = [c EXCEPT !.todo = Len(bus), !.inj = <<>>]
            ELSE IF alone
            THEN pc' = "final" /\ ctx' = Alone(c)
            ELSE pc' = "round" /\ ctx' = c
       \/ /\ ends \/ (~hook /\ ctx.outcome = "ask")
          /\ Replies
          /\ pc' = "final"
          /\ ctx' = ReplyCancelled(ctx)
    /\ UNCHANGED <<rounds, durable, notes, bounds>>

HookDrain == pc = "hook" /\ Claim("inj")

\* rule_repeated_failure.
Streak == Len(rounds) >= FailureLimit
          /\ \A i \in 0..(FailureLimit - 1) : rounds[Len(rounds) - i].failed

\* Mutant: the round limit raises no gate of its own.
NeedsGateNoLimit == ctx.outcome \in {"completed", "ask", "blocked"} \/ Streak

\* _classify: does this round need the operator?
NeedsGate == ctx.outcome \in {"completed", "ask", "blocked"} \/ ReachedMax \/ Streak

\* Mutant: the budget stops at MAX_ROUNDS, also below the round the run is in.
ExtendedClamped(c, extra) ==
    LET grant == IF extra > 0 THEN IF extra < MAX_ROUNDS THEN extra ELSE MAX_ROUNDS
                 ELSE IF Episodes > 1 THEN Episodes ELSE 1 IN
    IF c.round_index + grant < MAX_ROUNDS THEN c.round_index + grant ELSE MAX_ROUNDS

\* _extra_rounds and the budget of a run that was about to finish: what the
\* operator grants, up to MAX_ROUNDS, and at least one more round.
Extended(c, extra) ==
    LET grant == IF extra > 0 THEN IF extra < MAX_ROUNDS THEN extra ELSE MAX_ROUNDS
                 ELSE IF Episodes > 1 THEN Episodes ELSE 1
        upto  == IF c.round_index + grant < MAX_ROUNDS THEN c.round_index + grant ELSE MAX_ROUNDS IN
    IF upto > c.round_index THEN upto ELSE c.round_index + 1

Extends(c) == ReachedMax \/ c.outcome \in {"completed", "blocked"}

\* Mutant: the completion stays satisfied.
ContinuedSatisfied(c, extra) ==
    [c EXCEPT !.outcome = "progress", !.final_response = FALSE,
              !.round_budget = IF Extends(c) THEN Extended(c, extra) ELSE @]

\* A continued run takes its reply and its completion back and, if it was
\* about to finish, gets a new budget.
Continued(c, extra) ==
    [c EXCEPT !.outcome = "progress", !.final_response = FALSE,
              !.completion_satisfied = @ /\ c.outcome # "completed",
              !.round_budget = IF Extends(c) THEN Extended(c, extra) ELSE @]

\* The hook's instructions replace what was carried over: the prompt of this
\* round has taken that.
Carry(c, texts) == IF texts = <<>> THEN c
                   ELSE [c EXCEPT !.carryover = texts, !.inj = <<>>]

NoGate ==
    /\ pc = "hook" /\ ctx.todo = 0
    /\ ~NeedsGate
    /\ pc' = "round"
    /\ ctx' = Continued(Carry(ctx, ctx.inj), 0)
    /\ UNCHANGED <<rounds, durable, notes, bounds>>

OpenGate ==
    /\ pc = "hook" /\ ctx.todo = 0
    /\ NeedsGate
    /\ pc' = "gate"
    /\ UNCHANGED <<ctx, rounds, durable, notes, bounds>>

\* The operator's answer, with or without a text of its own.
AnswerText == {<<>>} \cup (IF answers < MaxAnswers THEN {<<-(answers + 1)>>} ELSE {})

GateContinue ==
    /\ pc = "gate"
    /\ continues < MaxContinues /\ ctx.round_index + 1 < MaxIndex
    /\ continues' = continues + 1
    /\ \E text \in AnswerText, extra \in Grant :
         /\ answers' = answers + Len(text)
         /\ ctx' = Continued(Carry(ctx, ctx.inj \o text), extra)
    /\ pc' = "round"
    /\ UNCHANGED <<hook, gen, rounds, durable, bus, sent, applied, delivered, lost>>

Stopped(c) ==
    [c EXCEPT !.abort_reason =
        CASE ReachedMax                 -> "max_rounds_exhausted"
          [] c.outcome = "blocked"      -> "manager_blocked"
          [] ~c.completion_satisfied    -> "human_abort"
          [] OTHER                      -> @]

GateStop ==
    /\ pc = "gate"
    /\ \E text \in AnswerText :
         LET c == Stopped(Carry(ctx, ctx.inj \o text)) IN
         /\ answers' = answers + Len(text)
         /\ \/ \E reply \in BOOLEAN : ctx' = Replied(c, reply)
            \/ Replies /\ ctx' = ReplyCancelled(c)
    /\ pc' = "final"
    /\ UNCHANGED <<rounds, durable, bus, sent, applied, delivered, lost, bounds>>

-----------------------------------------------------------------------------
(* The end of a worker.                                                    *)

FinalStatus ==
    CASE ctx.completion_satisfied               -> "complete"
      [] ctx.abort_reason = "user_cancelled"    -> "cancelled"
      [] ctx.abort_reason = "provider_error"    -> "failed"
      [] ctx.abort_reason = "manager_blocked"   -> "blocked"
      [] OTHER                                  -> "incomplete"

\* The process is gone, with all it held in memory.
Exit ==
    /\ pc' = "exited"
    /\ ctx' = NewCtx(0)
    /\ rounds' = <<>>
    /\ lost' = lost \cup ToSet(Held)
    /\ UNCHANGED <<ledger, bus, sent, applied, answers, delivered, bounds>>

\* _final_report, with the latest audit it quotes.
Report(status) == [status |-> status, clean |-> LatestIsClean(rounds)]

Final ==
    /\ pc = "final"
    /\ report' = Report(FinalStatus)
    /\ Exit

\* Bound: deaths and instructions come to all generations but the last, which
\* still claims what was sent before it.
BeforeLast == Running /\ gen < MaxLaunches

\* The exception boundary of `run`: a cancelled or failed report, unless the
\* run already has one.
Boundary ==
    /\ BeforeLast
    /\ \E status \in {"cancelled", "failed"} :
         report' = IF report = NoReport THEN Report(status) ELSE report
    /\ Exit

\* The worker vanishes; the supervisor that finds it gone leaves a failure
\* report where there is none.
Vanish ==
    /\ BeforeLast
    /\ report' = IF report = NoReport
                 THEN [NoReport EXCEPT !.status = "failed"] ELSE report
    /\ Exit

\* POST .../instructions on a run with a live worker.
Send ==
    /\ BeforeLast
    /\ sent < MaxNotes
    /\ sent' = sent + 1
    /\ bus' = Append(bus, sent + 1)
    /\ UNCHANGED <<pc, ctx, rounds, durable, applied, answers, delivered, lost, bounds>>

Step ==
    \/ RoundStart \/ RoundDrain \/ Prompt
    \/ ManagerCancelled \/ ManagerFailed \/ ManagerDone \/ ManagerHolds \/ ManagerRoutes
    \/ ExecutorEnds \/ ExecutorDone \/ AuditorEnds
    \/ Ending \/ HookDrain \/ NoGate \/ OpenGate
    \/ Final

Next ==
    \/ Launch
    \/ Step
    \/ GateContinue \/ GateStop
    \/ Boundary \/ Vanish
    \/ Send

Spec == Init /\ [][Next]_vars

\* Every episode has a timeout and the loop between episodes is the worker's
\* own; no operator is assumed to answer.
FairSpec == Spec /\ WF_vars(Step)

-----------------------------------------------------------------------------
\* Type correctness.
TypeOK ==
    /\ hook \in BOOLEAN
    /\ pc \in {"down", "round", "drain", "manager", "executor", "auditor",
               "ending", "hook", "gate", "final", "exited"}
    /\ ctx \in Context
    /\ rounds \in Seq(Round) /\ ledger \in Seq(Round)
    /\ report \in [status : {"none", "complete", "cancelled", "failed", "blocked",
                            "incomplete"}, clean : BOOLEAN]
    /\ bus \in Seq(Nat) /\ sent \in 0..MaxNotes /\ applied \in 0..MaxNotes
    /\ answers \in 0..MaxAnswers /\ delivered \in Seq(Int) /\ lost \subseteq Int
    /\ continues \in 0..MaxContinues /\ gen \in 0..MaxLaunches

\* A run reported complete rests on a clean latest audit, also when the
\* operator reopened it after an earlier completion and later audits found
\* fault (manager.py:546 "Completion is not accepted unless it is grounded").
CompleteIsAudited ==
    /\ ctx.completion_satisfied => LatestIsClean(rounds)
    /\ report.status = "complete" => report.clean

\* The loop ends by a decision: completion, the operator, a cancellation or a
\* failure.  A gate answered "continue" always gives another round, also at
\* the round limit (manager.py:1240 "Always grant at least one more round").
NeverFallsOut ==
    pc = "final" => ctx.completion_satisfied \/ ctx.abort_reason # NoReason

\* Every claimed instruction and every answer typed at a gate is in exactly one
\* place: in one prompt, with the worker, or lost with an earlier worker; and
\* prompts keep their order (manager.py:383, 1212, state.py:1426).
\* An instruction is its number, an answer its number below zero.
TextsOnce ==
    LET all == delivered \o Held IN
    /\ \A i, j \in DOMAIN all : i < j =>
          /\ all[i] > 0 /\ all[j] > 0 => all[i] < all[j]
          /\ all[i] < 0 /\ all[j] < 0 => all[i] > all[j]
    /\ ToSet(all) \cap lost = {}
    /\ ToSet(all) \cup lost = (1..applied) \cup ((-answers)..(-1))

\* A resumed run continues the ledger: up to MAX_ROUNDS no round index is
\* recorded twice and none goes back (manager.py:2385).
LedgerGoesOn ==
    \A i, j \in DOMAIN ledger :
        i < j /\ ledger[i].index <= MAX_ROUNDS => ledger[i].index < ledger[j].index

\* The loop comes back to the operator: it never goes on for ever between two
\* gates (manager.py:361).
ReturnsToOperator == []<>(pc \in {"gate", "exited", "down"})
=============================================================================
