----------------------------- MODULE MCChatLock -----------------------------
(* ChatLock on a small instance: four turns, so that a newcomer can race a woken waiter that has *)
(* another behind it, and two chats, so that a lock object can be reused by the other one.       *)
EXTENDS ChatLock
=============================================================================
