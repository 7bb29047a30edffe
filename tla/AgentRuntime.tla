---------------------------- MODULE AgentRuntime ----------------------------
(***************************************************************************)
(* runAgent() of src/src/agent-runtime.ts, called by any number of processes *)
(* for one run, of one objective, over a memory they share.  A call starts   *)
(* the run, or resumes it from a snapshot: it lists the history, claims the   *)
(* start or the snapshot, and then calls the host's executors stage by stage, *)
(* recording each result before the next.  A call may crash at any await.    *)
(*                                                                         *)
(* What an executor does with its skills, servers and subagents is part of   *)
(* its call; what it returns is left to it.                                 *)
(***************************************************************************)
EXTENDS AgentMemory, FiniteSetsExt

CONSTANTS
  Start,            \* the claim 'start', and the lack of a snapshot
  Nothing,
  Stages,           \* how many stages; AGENT_FABRIC_STAGE_ORDER has five
  Tokens,           \* what a stage may say it consumed
  MaxBudget,        \* the largest context budget, MAX_CONTEXT_BUDGET
  Budgets,          \* the context budgets requests set
  Forged,           \* snapshots that callers make up
  MaxCrashes        \* bound on the crashes explored

Stage == 1..Stages

Status == {"completed", "handoff"}

StageRecord == [stage : Stage, status : Status, tokens : Tokens]

\* next: the stage to do; used: the tokens all records account for.
Snapshot == [next : Stage, used : 0..MaxBudget]

RunClaims == Snapshot \cup {Start}

ASSUME RuntimeAssumption ==
  /\ Stages \in Nat \ {0} /\ Tokens \subseteq Nat
  /\ MaxBudget \in Nat /\ Budgets \subseteq 0..MaxBudget
  /\ Record = StageRecord
  /\ Start \notin Snapshot /\ Nothing \notin Snapshot \cup {Start}
  /\ ClaimId = RunClaims /\ Forged \subseteq Snapshot
  /\ MaxCrashes \in Nat

VARIABLES
  run,              \* the call to runAgent() each process is in
  calls,            \* how often each stage's executor was called (history)
  issued,           \* the snapshots handed out
  crashes

vars == <<entries, claims, appends, failures, run, calls, issued, crashes>>

Places == {"list", "claim", "ready", "executing", "append", "completed"}

NoRun == [at |-> "idle", from |-> Nothing, budget |-> 0, next |-> 1, used |-> 0]

Run ==
  {NoRun} \cup
  [at : Places, from : RunClaims, budget : 0..MaxBudget, next : Stage, used : 0..MaxBudget]

Init ==
  /\ MemoryInit
  /\ run = [p \in Process |-> NoRun]
  /\ calls = [s \in Stage |-> 0]
  /\ issued = {} /\ crashes = 0

At(p, place) == run[p].at = place

Go(p, place) == run' = [run EXCEPT ![p].at = place]

Leave(p) == run' = [run EXCEPT ![p] = NoRun]

-----------------------------------------------------------------------------
(* The history, and the snapshot it stands for.                             *)

Before(e) == {f \in entries : f.sequence < e.sequence}

CompletedIn(S) == {e \in S : e.record.status = "completed"}

InStageOrder == \A e \in entries : e.record.stage = 1 + Cardinality(CompletedIn(Before(e)))

TokensOf(S) == MapThenSumSet(LAMBDA e : e.record.tokens, S)

EndsInHandoff ==
  \E e \in entries : e.record.status = "handoff" /\ \A f \in entries : f.sequence <= e.sequence

SnapshotOfHistory ==
  [next |-> 1 + Cardinality(CompletedIn(entries)), used |-> TokensOf(entries)]

\* Mutant of HistoryMatches: only the stages are compared.
StagesMatch(snapshot) ==
  /\ InStageOrder /\ EndsInHandoff
  /\ snapshot.next = 1 + Cardinality(CompletedIn(entries))

\* historyMatchesSnapshot().
HistoryMatches(snapshot) ==
  InStageOrder /\ EndsInHandoff /\ snapshot = SnapshotOfHistory

-----------------------------------------------------------------------------
(* A call, up to its claim.                                                 *)

StartRun(p, budget) ==
  /\ At(p, "idle")
  /\ run' = [run EXCEPT ![p] = [at |-> "list", from |-> Start, budget |-> budget,
                                next |-> 1, used |-> 0]]
  /\ UNCHANGED <<memory, calls, issued, crashes>>

ResumeRun(p, snapshot, budget) ==
  /\ At(p, "idle")
  /\ snapshot.used <= budget
  /\ run' = [run EXCEPT ![p] = [at |-> "list", from |-> snapshot, budget |-> budget,
                                next |-> snapshot.next, used |-> snapshot.used]]
  /\ UNCHANGED <<memory, calls, issued, crashes>>

HistoryAllows(from) ==
  IF from = Start THEN entries = {} ELSE HistoryMatches(from)

ListHistory(p) ==
  /\ At(p, "list")
  /\ IF InSequence /\ HistoryAllows(run[p].from) THEN Go(p, "claim") ELSE Leave(p)
  /\ UNCHANGED <<memory, calls, issued, crashes>>

\* Mutant of Claim: a claim that is there already is as good as a new one.
ClaimAgain(p) ==
  /\ At(p, "claim")
  /\ claims' = claims \cup {run[p].from}
  /\ Go(p, "ready")
  /\ UNCHANGED <<entries, appends, failures, calls, issued, crashes>>

Claim(p) ==
  /\ At(p, "claim")
  /\ TakeClaim(run[p].from)
  /\ Go(p, "ready")
  /\ UNCHANGED <<calls, issued, crashes>>

\* The claim is there already, or one too many.
ClaimRefused(p) ==
  /\ At(p, "claim")
  /\ ~Unclaimed(run[p].from) \/ ClaimFull(run[p].from)
  /\ Leave(p)
  /\ UNCHANGED <<memory, calls, issued, crashes>>

\* The listing or the claim fails; the claim may have been stored all the same.
MemoryFails(p) ==
  /\ At(p, "list") \/ At(p, "claim")
  /\ failures < MaxFailures /\ failures' = failures + 1
  /\ \/ UNCHANGED claims
     \/ /\ At(p, "claim") /\ Unclaimed(run[p].from) /\ ~ClaimFull(run[p].from)
        /\ claims' = claims \cup {run[p].from}
  /\ Leave(p)
  /\ UNCHANGED <<entries, appends, calls, issued, crashes>>

-----------------------------------------------------------------------------
(* The stages.                                                              *)

CallExecutor(p) ==
  /\ At(p, "ready")
  /\ Go(p, "executing")
  /\ calls' = [calls EXCEPT ![run[p].next] = @ + 1]
  /\ UNCHANGED <<memory, issued, crashes>>

\* There is no executor for the stage; or it throws, says it failed, or
\* returns what is invalid, lacks evidence or exceeds the budget.
StageFails(p) ==
  /\ At(p, "ready") \/ At(p, "executing")
  /\ Leave(p)
  /\ UNCHANGED <<memory, calls, issued, crashes>>

\* Mutant of StageReturns: the tokens of a handoff are not accounted for.
HandoffIsFree(p, status, tokens) ==
  /\ At(p, "executing")
  /\ run[p].used + tokens <= run[p].budget
  /\ run' = [run EXCEPT ![p].at = "append",
                        ![p].used = IF status = "handoff" THEN @ ELSE @ + tokens]
  /\ BeginAppend(p, [stage |-> run[p].next, status |-> status, tokens |-> tokens])
  /\ UNCHANGED <<calls, issued, crashes>>

StageReturns(p, status, tokens) ==
  /\ At(p, "executing")
  /\ run[p].used + tokens <= run[p].budget
  /\ run' = [run EXCEPT ![p].at = "append", ![p].used = @ + tokens]
  /\ BeginAppend(p, [stage |-> run[p].next, status |-> status, tokens |-> tokens])
  /\ UNCHANGED <<calls, issued, crashes>>

Appending(p) ==
  /\ At(p, "append")
  /\ AppendStep(p)
  /\ UNCHANGED <<run, calls, issued, crashes>>

\* snapshotFor().
SnapshotFor(p) == [next |-> run[p].next, used |-> run[p].used]

\* The record is stored: the run goes on, is completed, or is handed off with
\* a snapshot.
Recorded(p) ==
  /\ At(p, "append") /\ appends[p].at = "stored"
  /\ EndAppend(p)
  /\ IF appends[p].record.status = "handoff"
     THEN Leave(p) /\ issued' = issued \cup {SnapshotFor(p)}
     ELSE /\ IF run[p].next = Stages THEN Go(p, "completed")
             ELSE run' = [run EXCEPT ![p].at = "ready", ![p].next = @ + 1]
          /\ UNCHANGED issued
  /\ UNCHANGED <<calls, crashes>>

NotRecorded(p) ==
  /\ At(p, "append") /\ appends[p].at = "rejected"
  /\ EndAppend(p)
  /\ Leave(p)
  /\ UNCHANGED <<calls, issued, crashes>>

Return(p) ==
  /\ At(p, "completed")
  /\ Leave(p)
  /\ UNCHANGED <<memory, calls, issued, crashes>>

Crash(p) ==
  /\ ~At(p, "idle") /\ crashes < MaxCrashes
  /\ crashes' = crashes + 1
  /\ Leave(p)
  /\ appends' = [appends EXCEPT ![p] = NoAppend]
  /\ UNCHANGED <<entries, claims, failures, calls, issued>>

Next ==
  \E p \in Process :
    \/ \E budget \in Budgets : StartRun(p, budget)
    \/ \E snapshot \in issued \cup Forged, budget \in Budgets : ResumeRun(p, snapshot, budget)
    \/ ListHistory(p) \/ Claim(p) \/ ClaimRefused(p) \/ MemoryFails(p)
    \/ CallExecutor(p) \/ StageFails(p)
    \/ \E status \in Status, tokens \in Tokens : StageReturns(p, status, tokens)
    \/ Appending(p) \/ Recorded(p) \/ NotRecorded(p)
    \/ Return(p) \/ Crash(p)

Spec == Init /\ [][Next]_vars

-----------------------------------------------------------------------------
(* Properties.                                                              *)

\* The variables have the types the code gives them.
TypeOK ==
  /\ MemoryTypeOK
  /\ run \in [Process -> Run]
  /\ calls \in [Stage -> Nat]
  /\ issued \subseteq Snapshot
  /\ crashes \in 0..MaxCrashes

\* A call that will call an executor, or return "completed".
Active(p) ==
  \/ run[p].at \in {"ready", "executing", "completed"}
  \/ /\ At(p, "append") /\ appends[p].at # "rejected"
     /\ ~(appends[p].at = "stored" /\ appends[p].record.status = "handoff")

\* Whatever callers start and resume, from whatever snapshots, and wherever
\* calls fail or crash, at most one of them executes the run.
OneExecution == \A p, q \in Process : Active(p) /\ Active(q) => p = q

\* Why: what the history allows to claim is claimed already while somebody executes,
\* and a call about to claim has either lost, or has seen the history as it still is.
ClaimDecides ==
  /\ \A q \in Process :
       At(q, "claim") /\ Unclaimed(run[q].from) =>
         HistoryAllows(run[q].from) /\ \A p \in Process : ~Active(p)
  /\ \A p \in Process, from \in RunClaims :
       Active(p) /\ HistoryAllows(from) => ~Unclaimed(from)

\* No effect of a stage is repeated: its executor is called once, and once more
\* for each time that it was recorded to have handed off, and never before the
\* stage before it was recorded as completed.
EffectsOnce ==
  \A s \in Stage :
    /\ calls[s] <= 1 + Cardinality({e \in entries : e.record.stage = s /\ e.record.status = "handoff"})
    /\ calls[s] > 0 /\ s > 1 => \E e \in entries :
         e.record.stage = s - 1 /\ e.record.status = "completed"

\* A snapshot that was handed out, and not claimed since, is true of the history:
\* a resume from it is not refused as invalid.
IssuedIsTrue == \A snapshot \in issued : Unclaimed(snapshot) => HistoryMatches(snapshot)
==============================================================================
