---------------------------- MODULE MCAgentChat ----------------------------
EXTENDS AgentChat

CONSTANTS c1, c2

\* The ids are the model's choice; it asks for two tools at a time, or for none.
TwoIds == {c1, c2}
TwoCalls == {<<c2, c1>>}
=============================================================================
