--------------------------- MODULE MCTaskAction ----------------------------
(* Small instances of TaskAction for TLC.                                   *)
EXTENDS TaskAction, TLC

CONSTANTS r1, r2, r3, s1, s2, a1, a2, a3, alice, mallory,
          plain, ui, uiBare, banned

Cmd(subject, suspend, action, content) ==
    [subject |-> subject, suspend |-> suspend, action |-> action,
     content |-> content]

\* One suspension contended by two actions, one of them retried as an A2UI
\* command.
ContendedCommands ==
    {Cmd(alice, s1, a1, plain), Cmd(alice, s1, a1, ui),
     Cmd(alice, s1, a2, plain)}

\* One suspension per action, for liveness, an A2UI command, and every early
\* return: a foreign caller, a type no suspension allows, A2UI without
\* metadata.
SeparateCommands ==
    {Cmd(alice, s1, a1, plain),
     Cmd(alice, s2, a3, plain), Cmd(alice, s2, a3, ui),
     Cmd(alice, s2, a3, uiBare), Cmd(alice, s2, a2, banned),
     Cmd(mallory, s1, a2, plain)}

ActorSymmetry == Permutations(Requests) \cup Permutations(Reconcilers)
=============================================================================
