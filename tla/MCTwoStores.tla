---------------------------- MODULE MCTwoStores ----------------------------
\* One or two messages of a chat: a goal, that may be read as a plan, and a thought.
EXTENDS TwoStores

CONSTANTS m1, m2
=============================================================================
