------------------------------ MODULE HistoryTrim ------------------------------
(*****************************************************************************)
(* HistoryTrimmer (kasaya/kasaya/session/history_trimmer.py): what a run     *)
(* loads of the history of its session.  The history grows by whole runs,    *)
(* the way session.append saves them; trimming is a function of it.          *)
(*****************************************************************************)
EXTENDS Integers, SequencesExt

CONSTANTS
    SavedRuns,      \* what one run may save: sequences of messages
    MaxRuns,        \* bound of the model: runs in a history
    Budgets,        \* values of max_history_tokens
    Caps,           \* values of max_history_messages
    ToolLimit,      \* progressive_tool_result_limit
    Suffix          \* the length of "... [truncated]"

Roles == {"system", "user", "assistant", "tool"}
Strategies == {"sliding_window", "token_budget", "progressive", "summary_prefix"}

\* What trimming reads of a message: the length of its content and the
\* total_tokens of its token_usage, 0 for none.
Message == [role : Roles, chars : Nat, usage : Nat]

ASSUME TrimAssumption ==
    /\ \A s \in SavedRuns : s \in Seq(Message)
    /\ MaxRuns \in Nat /\ ToolLimit \in Nat /\ Suffix \in Nat
    /\ Budgets \subseteq Nat \ {0} /\ Caps \subseteq Nat \ {0}

VARIABLES
    history,    \* the messages of the session
    saved,      \* the runs that saved them
    strategy, budget, cap       \* the HistoryTrimConfig of the runs

trimVars == <<history, saved, strategy, budget, cap>>

TrimInit ==
    /\ history = <<>>
    /\ saved = 0
    /\ strategy \in Strategies
    /\ budget \in Budgets
    /\ cap \in Caps

\* A run ends and appends its messages.
SaveRun(s) ==
    /\ saved < MaxRuns
    /\ saved' = saved + 1
    /\ history' = history \o s
    /\ UNCHANGED <<strategy, budget, cap>>

TrimNext == \E s \in SavedRuns : SaveRun(s)

TrimSpec == TrimInit /\ [][TrimNext]_trimVars

-----------------------------------------------------------------------------
(* The strategies.                                                           *)

\* _estimate_tokens.
Tokens(m) ==
    IF m.usage > 0 THEN m.usage
    ELSE IF m.chars \div 3 > 1 THEN m.chars \div 3 ELSE 1

Total(ms) ==
    LET sum[i \in 0 .. Len(ms)] == IF i = 0 THEN 0 ELSE sum[i - 1] + Tokens(ms[i])
    IN  sum[Len(ms)]

\* The messages in some roles, in their order.
In(roles, ms) ==
    LET in[i \in 0 .. Len(ms)] ==
            IF i = 0 THEN <<>>
            ELSE IF ms[i].role \in roles THEN Append(in[i - 1], ms[i])
            ELSE in[i - 1]
    IN  in[Len(ms)]

System(ms) == In({"system"}, ms)
Talk(ms) == In(Roles \ {"system"}, ms)

\* ms[-n:] for a positive n, and nothing for 0.
Newest(ms, n) == IF Len(ms) <= n THEN ms ELSE SubSeq(ms, Len(ms) - n + 1, Len(ms))

\* _trim_sliding_window, which is also the hard limit of _trim_token_budget:
\* the system messages first, then the newest of the others.
Window(ms) ==
    IF Len(ms) <= cap THEN ms
    ELSE IF Len(System(ms)) >= cap THEN Newest(System(ms), cap)
    ELSE System(ms) \o Newest(Talk(ms), cap - Len(System(ms)))

\* Mutant: a message that does not fit is left out, older ones are not.
FitAny(ms, room) ==
    FoldRight(LAMBDA m, fit :
                IF Total(fit) + Tokens(m) <= room THEN <<m>> \o fit ELSE fit,
              ms, <<>>)

\* From the newest message on, until one does not fit: how many of the i newest
\* are kept.
Fit(ms, room) ==
    LET fit[i \in 0 .. Len(ms)] ==
            IF i = 0 THEN 0
            ELSE LET n == fit[i - 1]
                 IN  IF n = i - 1 /\ Total(Newest(ms, i)) <= room THEN i ELSE n
    IN  Newest(ms, fit[Len(ms)])

TokenBudget(ms) ==
    LET capped == Window(ms)
        room == budget - Total(System(capped))
    IN  IF room <= 0 THEN System(capped)
        ELSE System(capped) \o Fit(Talk(capped), room)

\* A long tool result is cut, and marked as cut.
Compress(m) ==
    IF m.role = "tool" /\ m.chars > ToolLimit
    THEN [role |-> "tool", chars |-> ToolLimit + Suffix, usage |-> 0]
    ELSE m

Compressed(ms) == [i \in DOMAIN ms |-> Compress(ms[i])]

\* Tool results are compressed if less than half the messages would be kept.
Progressive(ms) ==
    LET first == TokenBudget(ms) IN
    IF 2 * Len(Talk(first)) >= Len(Talk(ms)) THEN first ELSE TokenBudget(Compressed(ms))

Summary == [role |-> "system", chars |-> ToolLimit, usage |-> 0]

\* What is cut leaves a line each in one more system message, if it has any
\* content.
SummaryPrefix(ms) ==
    LET kept == TokenBudget(ms)
        cut == SubSeq(Talk(ms), 1, Len(Talk(ms)) - Len(Talk(kept)))
    IN  IF \E i \in DOMAIN cut : cut[i].chars > 0
        THEN System(kept) \o <<Summary>> \o Talk(kept)
        ELSE kept

Trim(ms) ==
    CASE strategy = "sliding_window" -> Window(ms)
      [] strategy = "token_budget" -> TokenBudget(ms)
      [] strategy = "progressive" -> Progressive(ms)
      [] strategy = "summary_prefix" -> SummaryPrefix(ms)

-----------------------------------------------------------------------------
TrimTypeOK ==
    /\ history \in Seq(Message)
    /\ saved \in 0 .. MaxRuns

\* What may be kept of the others beside the system messages sys.
Fits(kept, sys) ==
    /\ Len(kept) + Len(sys) <= cap
    /\ strategy # "sliding_window" => Total(kept) + Total(sys) <= budget

\* Whatever was saved, a run sees the newest messages without a gap, as many
\* as the limits allow and no more, after every system message there is
\* (when those alone do not exceed the limits).
TrimSound ==
    LET kept == Talk(Trim(history))
        sys == System(history)
        said == Talk(history)
    IN  /\ \E all \in {said} \cup {t \in {Compressed(said)} : strategy = "progressive"} :
              /\ IsSuffix(kept, all)
              /\ Len(kept) < Len(all) => ~Fits(Newest(all, Len(kept) + 1), sys)
        /\ kept # <<>> => Fits(kept, sys) /\ IsPrefix(sys, System(Trim(history)))

\* With the same budget, "progressive" keeps no fewer messages than
\* "token_budget" does.
ProgressiveKeepsMore ==
    strategy = "progressive" => Len(Trim(history)) >= Len(TokenBudget(history))

=============================================================================
