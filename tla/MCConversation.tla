--------------------------- MODULE MCConversation ---------------------------
(* Small instances of Conversation for TLC. *)
EXTENDS Conversation, TLC

\* Coroutines are interchangeable; sound where only safety is checked.
TaskSymmetry == Permutations(Task)
=============================================================================
