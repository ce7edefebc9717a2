--------------------------- MODULE MCConversation ---------------------------
(* Conversation on one chat: two handlers, so that a press can wait behind a turn, the sweeper, *)
(* and two messages, so that an answer can be read together with the request it answers.        *)
EXTENDS Conversation, TLC
CONSTANTS h1, h2, m1, m2
Symmetry == Permutations({h1, h2}) \cup Permutations({m1, m2})
=============================================================================
