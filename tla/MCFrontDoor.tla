---------------------------- MODULE MCFrontDoor ----------------------------
(* A small instance of FrontDoor for TLC.                                   *)
EXTENDS FrontDoor, TLC

CONSTANTS alice, bob

Callers == Permutations({alice, bob})

Text == [kind |-> "text", type |-> "none", size |-> 0, path |-> <<>>]
File(type, size, path) ==
    [kind |-> "file", type |-> type, size |-> size, path |-> path]

\* Text in the place of a file, a file at the limit and one whose path ends
\* in a directory; a file over the limit, one without a type, and one of
\* another type behind a good one.  A JSON body has no attachment.
MixedFiles ==
    {<<Text, File("image", 2, <<"dir", "a">>), File("image", 1, <<"dir", "">>)>>,
     <<File("image", 3, <<"a">>)>>,
     <<File("none", 1, <<>>)>>,
     <<File("image", 1, <<"a">>), File("script", 1, <<"b">>)>>}

=============================================================================
