------------------------------- MODULE Workflow --------------------------------
(*****************************************************************************)
(* WorkflowEngine.run: the ready queue that drives a DAG of steps.           *)
(*                                                                           *)
(* Steps that are ready together run as one batch, in parallel; when all of  *)
(* them have ended their successors' in-degrees go down and the next batch   *)
(* is taken.  A conditional step marks what lies behind the branches it did  *)
(* not choose as skipped.  Steps are retried, time out, fail, and a cancel   *)
(* event is looked at here and there.                                        *)
(*                                                                           *)
(* Agent and parallel steps are both "work": they run, then return or raise. *)
(*****************************************************************************)
EXTENDS Naturals, FiniteSets

CONSTANTS
    Steps,          \* step ids
    Workflows,      \* the workflows: [edges, kind, failFast]
    Attempts        \* retry_config.max_retries + 1

Kinds == {"work", "cond", "loop"}

\* validate_workflow_strict: the edges join steps of the workflow, and every
\* set of steps has one without a predecessor in it.
ASSUME WorkflowsAreDags ==
    \A w \in Workflows :
        /\ w.edges \subseteq Steps \X Steps
        /\ w.kind \in [Steps -> Kinds]
        /\ w.failFast \in BOOLEAN
        /\ \A X \in (SUBSET Steps) \ {{}} : \E s \in X : \A p \in X : <<p, s>> \notin w.edges

ASSUME StepsFinite == IsFiniteSet(Steps)

ASSUME AttemptsPositive == Attempts \in Nat \ {0}

VARIABLES
    wf,         \* the workflow that runs
    cancel,     \* cancel_event
    status,     \* result.status
    ready,      \* the ready queue
    batch,      \* to_run, while its steps run
    skipped,    \* steps behind a branch not chosen
    passed,     \* processed_skipped
    indeg,      \* in_degree
    at,         \* at[s]: not begun, between attempts, in one, or done with
    tries,      \* tries[s]: attempts begun
    results,    \* result.step_results
    chosen      \* chosen[s]: the branch a conditional has chosen

vars == <<wf, cancel, status, ready, batch, skipped, passed, indeg, at, tries, results, chosen>>
queueVars == <<ready, passed, indeg>>

None == "none"

-----------------------------------------------------------------------------
Preds(s) == {p \in Steps : <<p, s>> \in wf.edges}
Succs(s) == {t \in Steps : <<s, t>> \in wf.edges}

\* A set and all that can be reached from it: what _mark_subtree_skipped marks.
Downstream(A) ==
    {t \in Steps :
        \A X \in SUBSET Steps : A \subseteq X /\ (\A x \in X : Succs(x) \subseteq X) => t \in X}

Init ==
    /\ wf \in Workflows
    /\ cancel = FALSE
    /\ status = "running"
    /\ indeg = [s \in Steps |-> Cardinality(Preds(s))]
    /\ ready = {s \in Steps : indeg[s] = 0}
    /\ batch = {}
    /\ skipped = {}
    /\ passed = {}
    /\ at = [s \in Steps |-> "idle"]
    /\ tries = [s \in Steps |-> 0]
    /\ results = [s \in Steps |-> None]
    /\ chosen = [s \in Steps |-> {}]

-----------------------------------------------------------------------------
(* The main loop *)

\* Mutant: a step is freed by the first of its predecessors.
DeliverAny(from, to, queue) ==
    LET done(s) == Preds(s) \cap from
    IN /\ indeg' = [s \in Steps |-> IF s \in to THEN indeg[s] - Cardinality(done(s)) ELSE indeg[s]]
       /\ ready' = queue \cup {s \in to : done(s) # {}}

\* The in-degrees of the steps in to go down by their predecessors in from;
\* those that reach zero join the queue.
Deliver(from, to, queue) ==
    LET done(s) == Preds(s) \cap from
    IN /\ indeg' = [s \in Steps |-> IF s \in to THEN indeg[s] - Cardinality(done(s)) ELSE indeg[s]]
       /\ ready' = queue \cup {s \in to : done(s) # {} /\ indeg'[s] = 0}

Top == status = "running" /\ batch = {} /\ ready # {}

\* Mutant: the queue is not filtered.
TakeUnfiltered ==
    /\ Top
    /\ ~cancel
    /\ Deliver(skipped \ passed, Steps, {})
    /\ passed' = skipped
    /\ batch' = ready
    /\ at' = [s \in Steps |-> IF s \in batch' THEN "trying" ELSE at[s]]
    /\ UNCHANGED <<wf, cancel, status, skipped, tries, results, chosen>>

\* The next batch: what is ready and not skipped.  Newly skipped steps are
\* passed on here, as if they had run.
Take ==
    /\ Top
    /\ ~cancel
    /\ Deliver(skipped \ passed, Steps, {})
    /\ passed' = skipped
    /\ batch' = ready \ skipped
    /\ at' = [s \in Steps |-> IF s \in batch' THEN "trying" ELSE at[s]]
    /\ UNCHANGED <<wf, cancel, status, skipped, tries, results, chosen>>

TopCancelled ==
    /\ Top
    /\ cancel
    /\ status' = "cancelled"
    /\ UNCHANGED <<wf, cancel, queueVars, batch, skipped, at, tries, results, chosen>>

\* The deadline is looked at between batches only.
TopExpired ==
    /\ Top
    /\ ~cancel
    /\ status' = "failed"
    /\ UNCHANGED <<wf, cancel, queueVars, batch, skipped, at, tries, results, chosen>>

EndBatch ==
    /\ status = "running"
    /\ batch # {}
    /\ \A s \in batch : at[s] = "left"
    /\ Deliver(batch, Steps \ skipped, ready)
    /\ batch' = {}
    /\ UNCHANGED <<wf, cancel, status, skipped, passed, at, tries, results, chosen>>

\* Mutant: failures are not looked for.
FinishBlind ==
    /\ status = "running"
    /\ batch = {}
    /\ ready = {}
    /\ status' = "completed"
    /\ UNCHANGED <<wf, cancel, queueVars, batch, skipped, at, tries, results, chosen>>

Finish ==
    /\ status = "running"
    /\ batch = {}
    /\ ready = {}
    /\ status' = IF \E s \in Steps : results[s] = "failed" THEN "failed" ELSE "completed"
    /\ UNCHANGED <<wf, cancel, queueVars, batch, skipped, at, tries, results, chosen>>

-----------------------------------------------------------------------------
(* _execute_step, one attempt after the other *)

\* s has got its result r, or None if its task was cancelled.
Leave(s, r) ==
    /\ at' = [at EXCEPT ![s] = "left"]
    /\ results' = [results EXCEPT ![s] = r]

Turn(s) == status = "running" /\ s \in batch /\ at[s] = "trying"

SeeCancel(s) ==
    /\ Turn(s)
    /\ cancel
    /\ Leave(s, "cancelled")
    /\ UNCHANGED <<wf, cancel, status, queueVars, batch, skipped, tries, chosen>>

\* Mutant: attempts are not counted.
AttemptUncounted(s) ==
    /\ Turn(s)
    /\ ~cancel
    /\ UNCHANGED tries

\* An attempt begins, unless the run was cancelled.
Attempt(s) ==
    /\ Turn(s)
    /\ ~cancel
    /\ tries' = [tries EXCEPT ![s] = @ + 1]

Work(s) ==
    /\ wf.kind[s] # "cond"
    /\ Attempt(s)
    /\ at' = [at EXCEPT ![s] = "working"]
    /\ UNCHANGED <<wf, cancel, status, queueVars, batch, skipped, results, chosen>>

Complete(s) ==
    /\ status = "running"
    /\ s \in batch
    /\ at[s] = "working"
    /\ Leave(s, "completed")
    /\ UNCHANGED <<wf, cancel, status, queueVars, batch, skipped, tries, chosen>>

\* Mutant: the chosen branch is marked as well.
DecideNone(s) ==
    /\ wf.kind[s] = "cond"
    /\ Attempt(s)
    /\ \E T \in {{}} \cup {{t} : t \in Succs(s)} :
        /\ chosen' = [chosen EXCEPT ![s] = T]
        /\ skipped' = skipped \cup Downstream(Succs(s))
    /\ Leave(s, "completed")
    /\ UNCHANGED <<wf, cancel, status, queueVars, batch>>

\* The branch that applies leads to a successor, or none does, which a branch to
\* any other step amounts to: the other successors and all behind are skipped.
Decide(s) ==
    /\ wf.kind[s] = "cond"
    /\ Attempt(s)
    /\ \E T \in {{}} \cup {{t} : t \in Succs(s)} :
        /\ chosen' = [chosen EXCEPT ![s] = T]
        /\ skipped' = skipped \cup Downstream(Succs(s) \ T)
    /\ Leave(s, "completed")
    /\ UNCHANGED <<wf, cancel, status, queueVars, batch>>

\* Mutant: fail_fast is not looked at.
GiveUpQuietly(s) == Leave(s, "failed")

\* The failure is recorded and, after the span has ended, raised.
GiveUp(s) ==
    /\ at' = [at EXCEPT ![s] = IF wf.failFast THEN "raising" ELSE "left"]
    /\ results' = [results EXCEPT ![s] = "failed"]

\* With fail_fast the error cancels the other steps of the batch, which leave
\* no result from here on, and ends the run.
Raise(s) ==
    /\ status = "running"
    /\ s \in batch
    /\ at[s] = "raising"
    /\ at' = [at EXCEPT ![s] = "left"]
    /\ status' = "failed"
    /\ batch' = {}
    /\ UNCHANGED <<wf, cancel, queueVars, skipped, tries, results, chosen>>

\* The n-th attempt raises or times out.
Error(s, n) ==
    \/ /\ n < Attempts
       /\ at' = [at EXCEPT ![s] = "trying"]
       /\ UNCHANGED results
    \/ n >= Attempts /\ GiveUp(s)

\* The condition cannot be evaluated.
CondFails(s) ==
    /\ wf.kind[s] = "cond"
    /\ Attempt(s)
    /\ Error(s, tries[s] + 1)
    /\ UNCHANGED <<wf, cancel, status, queueVars, batch, skipped, chosen>>

WorkFails(s) ==
    /\ status = "running"
    /\ s \in batch
    /\ at[s] = "working"
    /\ Error(s, tries[s])
    /\ UNCHANGED <<wf, cancel, status, queueVars, batch, skipped, tries, chosen>>

\* An agent that does not exist is not asked for again.
AgentNotFound(s) ==
    /\ status = "running"
    /\ s \in batch
    /\ at[s] = "working"
    /\ GiveUp(s)
    /\ UNCHANGED <<wf, cancel, status, queueVars, batch, skipped, tries, chosen>>

\* A loop raises CancelledError.  On its own it ends the run; a task group
\* takes the same error for a task that was cancelled, and waits for the rest.
LoopSeesCancel(s) ==
    /\ status = "running"
    /\ s \in batch
    /\ at[s] = "working"
    /\ wf.kind[s] = "loop"
    /\ cancel
    /\ at' = [at EXCEPT ![s] = "left"]
    /\ IF batch = {s}
       THEN status' = "cancelled" /\ batch' = {}
       ELSE UNCHANGED <<status, batch>>
    /\ UNCHANGED <<wf, cancel, queueVars, skipped, tries, results, chosen>>

-----------------------------------------------------------------------------
SetCancel ==
    /\ ~cancel
    /\ status = "running"
    /\ cancel' = TRUE
    /\ UNCHANGED <<wf, status, queueVars, batch, skipped, at, tries, results, chosen>>

\* The task of run itself is cancelled while steps run: the result says so.
TaskCancelled ==
    /\ status = "running"
    /\ batch # {}
    /\ status' = "cancelled"
    /\ batch' = {}
    /\ UNCHANGED <<wf, cancel, queueVars, skipped, at, tries, results, chosen>>

Loop == Take \/ TopCancelled \/ EndBatch \/ Finish

StepGoes(s) ==
    \/ SeeCancel(s) \/ Work(s) \/ Complete(s) \/ Decide(s)
    \/ CondFails(s) \/ WorkFails(s) \/ AgentNotFound(s) \/ Raise(s)
    \/ LoopSeesCancel(s)

Next ==
    \/ Loop
    \/ TopExpired
    \/ \E s \in Steps : StepGoes(s)
    \/ SetCancel
    \/ TaskCancelled

Spec == Init /\ [][Next]_vars

\* The event loop runs the engine, and every attempt returns or raises.
FairSpec ==
    /\ Spec
    /\ WF_vars(Loop)
    /\ \A s \in Steps : WF_vars(StepGoes(s))

-----------------------------------------------------------------------------
Begun(s) == at[s] # "idle"

\* Done with, and no longer in the batch: its successors have been told.
Told(s) == at[s] = "left" /\ s \notin batch

\* Types; in-degrees never fall below zero, attempts never exceed their limit.
TypeOK ==
    /\ wf \in Workflows
    /\ cancel \in BOOLEAN
    /\ status \in {"running", "completed", "failed", "cancelled"}
    /\ ready \subseteq Steps
    /\ batch \subseteq Steps
    /\ skipped \subseteq Steps
    /\ passed \subseteq skipped
    /\ indeg \in [Steps -> Nat]
    /\ at \in [Steps -> {"idle", "trying", "working", "raising", "left"}]
    /\ tries \in [Steps -> 0..Attempts]
    /\ results \in [Steps -> {None, "completed", "failed", "cancelled"}]
    /\ chosen \in [Steps -> SUBSET Steps]

\* A step begins only when all its predecessors have ended, whatever
\* conditionals, failures and batches came before: their outputs are there.
InOrder ==
    \A s \in Steps : Begun(s) => \A p \in Preds(s) : at[p] = "left" /\ p \notin batch

\* No skipped step ever begins, and a step that begins is never skipped.
SkippedIdle == \A s \in skipped : ~Begun(s)

\* No step is taken twice.
TakenOnce == [][\A s \in batch' \ batch : ~Begun(s)]_vars

\* A run that completes, and that nobody cancelled, has completed every step
\* but those behind branches that were not chosen: none is forgotten.
CompletedWhole ==
    status = "completed" /\ ~cancel =>
        \A s \in Steps :
            \/ results[s] = "completed"
            \/ \E c \in Steps :
                /\ wf.kind[c] = "cond"
                /\ results[c] = "completed"
                /\ s \in Downstream(Succs(c) \ chosen[c])

\* A failed step shows: the run does not complete, and with fail_fast it is
\* over as soon as the error is out.
FailureShows ==
    (\E s \in Steps : results[s] = "failed") =>
        /\ status # "completed"
        /\ wf.failFast /\ status = "running" => \E s \in Steps : at[s] = "raising"

\* Every run ends.
WorkflowEnds == <>(status # "running")

\* The design's step 5: a cancelled run has status CANCELLED.  Refuted: a step
\* of the last batch that sees the event is CANCELLED, the run COMPLETED.
CancelShows == (\E s \in Steps : results[s] = "cancelled") => status # "completed"
=============================================================================
