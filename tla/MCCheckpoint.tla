----------------------------- MODULE MCCheckpoint -----------------------------
EXTENDS Checkpoint, TLC

\* The one word the server knows; with a blank line and a line of two words.
Commands == {<<"checkpoint">>}
AllLines == {<<"checkpoint">>, <<>>, <<"now", "checkpoint">>}

\* Files and connections are told apart by nothing but equality.
Alike == Permutations(Files) \cup Permutations(Conn)
===============================================================================
