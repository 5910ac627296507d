------------------------------- MODULE ToolBatch -------------------------------
(*****************************************************************************)
(* What the runner relies on when it hands the tool calls of a reply to      *)
(* _execute_tool_calls (kasaya/kasaya/runner/runner.py): a call runs at most *)
(* once and not without the consent it needs, and the answers come all at    *)
(* once, in the order of the calls, or not at all.  How the calls overlap,   *)
(* and what guardrails and middleware do to them, is in ToolCalls.           *)
(*****************************************************************************)
EXTENDS Naturals, FiniteSets, SequencesExt

CONSTANT Longest        \* positions in a batch

VARIABLES
    asked,      \* the positions of the calls that must be answered
    needs,      \* those of them that need a human's consent
    granted,    \* those that have it
    begun,      \* those whose tool has been run
    answers,    \* the positions whose results were appended, in order
    open        \* the batch is being executed

batchVars == <<asked, needs, granted, begun, answers, open>>

\* The positions of S in the order of the calls.
InOrder(S) == SetToSortSeq(S, <)

BatchInit ==
    /\ asked = {}
    /\ needs = {}
    /\ granted = {}
    /\ begun = {}
    /\ answers = <<>>
    /\ open = FALSE

Open(positions, guarded) ==
    /\ ~open
    /\ open' = TRUE
    /\ asked' = positions
    /\ needs' = guarded
    /\ granted' = {}
    /\ begun' = {}
    /\ answers' = <<>>

Grant(c) ==
    /\ open
    /\ c \in needs \ granted
    /\ granted' = granted \cup {c}
    /\ UNCHANGED <<asked, needs, begun, answers, open>>

Run(c) ==
    /\ open
    /\ c \in asked \ begun
    /\ granted' \in {granted, granted \cup ({c} \cap needs)}
    /\ c \in needs => c \in granted'
    /\ begun' = begun \cup {c}
    /\ UNCHANGED <<asked, needs, answers, open>>

\* A call that ran and cancelled itself is the only one without an answer.
Answer(lost) ==
    /\ open
    /\ lost \subseteq begun
    /\ answers' = InOrder(asked \ lost)
    /\ open' = FALSE
    /\ UNCHANGED <<asked, needs, granted, begun>>

Fail ==
    /\ open
    /\ open' = FALSE
    /\ UNCHANGED <<asked, needs, granted, begun, answers>>

BatchNext ==
    \/ \E n \in 0 .. Longest : \E guarded \in SUBSET (1 .. n) : Open(1 .. n, guarded)
    \/ \E c \in asked : Grant(c) \/ Run(c)
    \/ \E lost \in SUBSET begun : Answer(lost)
    \/ Fail

BatchSpec == BatchInit /\ [][BatchNext]_batchVars

=============================================================================
