------------------------------ MODULE MCToolCalls ------------------------------
\* An instance of ToolCalls: a tool that is safe and called with one of two
\* arguments, one that is risky, and one the agent does not have.
EXTENDS ToolCalls

CONSTANTS look, send, lost

MCCalls == {<<look, 1>>, <<look, 2>>, <<send, 1>>, <<lost, 1>>}
MCReplies ==
    {<<<<<<look, 1>>, <<look, 1>>>>, FALSE>>,
     <<<<<<look, 2>>, <<send, 1>>>>, TRUE>>,
     <<<<<<lost, 1>>, <<look, 1>>>>, FALSE>>,
     <<<<<<send, 1>>>>, FALSE>>}
MCSettings ==
    {[mode |-> "full-auto", handler |-> FALSE, pipeline |-> <<"cache", "loop", "rate">>, limit |-> 0],
     [mode |-> "auto-edit", handler |-> TRUE,  pipeline |-> <<"rate", "loop", "cache">>, limit |-> 1],
     [mode |-> "auto-edit", handler |-> FALSE, pipeline |-> <<"loop", "cache">>,         limit |-> 2],
     [mode |-> "suggest",   handler |-> TRUE,  pipeline |-> <<"loop", "rate", "cache">>, limit |-> 0]}
=============================================================================
