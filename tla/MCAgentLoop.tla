------------------------------ MODULE MCAgentLoop ------------------------------
\* An instance of DebuggedLoop: triage and writer hand to each other, writer
\* to critic, who hands to nobody.
EXTENDS DebuggedLoop

CONSTANTS triage, writer, critic

Pairs == {<<triage, writer>>, <<writer, triage>>, <<writer, critic>>}
=============================================================================
