----------------------------- MODULE MCProduction -----------------------------
EXTENDS Production

OneLoad  == <<"hp">>
TwoLoads == <<"hp", "mp">>
TwoOuts  == <<"aim", "fire">>
Sizes    == [hp |-> 2, mp |-> 1, aim |-> 2, fire |-> 1]
Types    == [aim |-> "UI", fire |-> "D"]
NoLine   == {}
OneLine  == {<<"train", 2>>}
NoTree   == {Fresh}

\* An earlier version of the program stored a longer aim and something else.
OldInfos == <<[name |-> "aim", tID |-> "UI", nmemb |-> 3],
              [name |-> "lead", tID |-> "F", nmemb |-> 1]>>
OldFile(p) == <<[kind |-> "load", name |-> p, nmemb |-> 2, lines |-> <<2, 1>>],
                [kind |-> "store", name |-> "aim", nmemb |-> 3, lines |-> <<3, 3, 2, 1>>]>>

\* What it left: no tree; all; nothing but the model's directory, with one of those below
\* it, with all of them, with an empty record; half a record with half its data.
AllDirs == {Model} \cup Places
OldTrees ==
  {Fresh, [dirs |-> AllDirs, store |-> OldInfos, files |-> [x \in Places \X Line |-> OldFile(x[1])],
           templates |-> Places]}
  \cup {[Fresh EXCEPT !.dirs = d] : d \in {{Model}, {Model, "hp"}, AllDirs}}
  \cup {[Fresh EXCEPT !.dirs = AllDirs, !.store = <<>>],
        [dirs |-> AllDirs, store |-> SubSeq(OldInfos, 1, 1), templates |-> {"hp"},
         files |-> [x \in Places \X Line |->
                      IF x[2] = First THEN SubSeq(OldFile(x[1]), 1, 1) ELSE <<>>]]}
===============================================================================
