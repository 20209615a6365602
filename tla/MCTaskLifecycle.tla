-------------------------- MODULE MCTaskLifecycle ---------------------------
(***************************************************************************)
(* Instances of TaskLifecycle for TLC: a first request, its retry, and an  *)
(* edited retry.                                                           *)
(***************************************************************************)
EXTENDS TaskLifecycle

CONSTANTS c1, c2, c3, k1

Command(owner, key, payload) ==
    [owner |-> owner, key |-> key, payload |-> payload]

RetriedCommands ==
    [c \in Creators |->
       CASE c \in {c1, c2} -> Command("alice", "req-1", "greet")
         [] c = c3 -> Command("alice", "req-1", "edited")]

FailsEdited == [c \in Creators |-> IF c = c3 THEN 1 ELSE 0]

=============================================================================
