--------------------------- MODULE MCJournalIndex ---------------------------
(* Small instances of JournalIndex. *)
EXTENDS JournalIndex

Call(event, capture, session, seq) ==
    [event |-> event, capture |-> capture, session |-> session, seq |-> seq]

Event == Call(1, 1, 1, 1)
OfEvent == {[event |-> 1, session |-> 0, seq |-> 0]}
OfPlace == {[event |-> 0, session |-> 1, seq |-> 1]}

\* An event and a call from before calls had events, in a journal that is cut.
MCAppends ==
    {[files |-> Names, calls |-> {Event, Call(0, 0, 1, 1)}, notes |-> OfPlace,
      writes |-> 3, edits |-> 1, kinds |-> {"truncate", "remove"}]}

\* Two events of one capture, and a journal whose lines are replaced.
MCEdits ==
    {[files |-> Names, calls |-> {Event, Call(2, 1, 1, 2)}, notes |-> OfEvent,
      writes |-> 3, edits |-> 1, kinds |-> {"replace"}]}

\* An event, and another one that takes its number or leaves its session.
MCConflicts ==
    {[files |-> {1, 2}, calls |-> {Event, Call(2, 1, 1, 1), Call(2, 1, 2, 2)}, notes |-> OfEvent,
      writes |-> 3, edits |-> 0, kinds |-> {}]}

\* Annotations of events while a refresh goes from file to file.
MCLinks ==
    {[files |-> {1, 2}, calls |-> {Event, Call(2, 1, 1, 2)}, notes |-> OfEvent,
      writes |-> 4, edits |-> 0, kinds |-> {}]}

MCEditsAndConflicts == MCEdits \cup MCConflicts \cup MCLinks
=============================================================================
