---------------------------- MODULE MCHistoryTrim ----------------------------
\* What runs save: a question and its answer; one with a tool call, whose
\* result is short, just above the limit, or long; and one whose caller put a
\* system message into its input.
EXTENDS HistoryTrim

Said(r, n, u) == [role |-> r, chars |-> n, usage |-> u]

Question == Said("user", 60, 0)
AnswerOf(u) == Said("assistant", 90, u)
ToolCall(u) == Said("assistant", 0, u)

MCSavedRuns ==
    {<<Question, AnswerOf(40)>>}
    \cup {<<Question, ToolCall(40), Said("tool", n, 0), AnswerOf(90)>> :
             n \in {90, 501, 3000}}
    \cup {<<Said("system", 45, 0), Question, AnswerOf(40)>>,
          <<Question, Question, Question, ToolCall(40), Said("tool", 501, 0)>>}
=============================================================================
