------------------------------- MODULE MCAgentRun ------------------------------
\* Instances of AgentRun: one handoff from triage to writer.
EXTENDS AgentRun

CONSTANTS triage, writer

OneHandoff == {<<triage, writer>>}
NoHandoffs == {}
=============================================================================
