--------------------------- MODULE MCCopilotChat ---------------------------
\* A Copilot turn and its stream on a small instance.
EXTENDS CopilotChat, TLC

ASSUME OneTurnAssumption
============================================================================
