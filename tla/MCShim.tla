------------------------------- MODULE MCShim -------------------------------
(* Small instances of Shim. *)
EXTENDS Shim

CONSTANTS id1, id2

Both == {"agent", "child"}

Calm(frames) == [frames |-> frames, chatty |-> {}, leaving |-> {}, fails |-> FALSE]

\* Four frames reuse an id while reads and appends fail and the server exits at
\* any point; fewer mix in everything else the peers may do.
OrderHabits ==
    {[Calm(4) EXCEPT !.leaving = {"child"}, !.fails = TRUE],
     [frames |-> 2, chatty |-> Both, leaving |-> Both, fails |-> TRUE]}

\* Two calls whose peers leave and whose reads and appends fail at any point, or
\* peers that stay and, writing on their own, fill the pipes with three frames.
LiveHabits ==
    {[Calm(2) EXCEPT !.leaving = Both, !.fails = TRUE], [Calm(3) EXCEPT !.chatty = Both]}

AbortHabits == {[Calm(2) EXCEPT !.leaving = Both]}
=============================================================================
