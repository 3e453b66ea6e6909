------------------------------- MODULE MCRuntime -------------------------------
\* Two models that share a store: A is given two loads combined and one of them, B the other.
EXTENDS Runtime

MCParts    == [x |-> <<"x">>, y |-> <<"y">>, x_y |-> <<"x", "y">>]
MCLoadsOf  == [A |-> <<"x_y", "y">>, B |-> <<"x">>]
MCStoresOf == [A |-> <<"s">>, B |-> <<"s", "t">>]
MCHow      == [x |-> {"alias"}, y |-> {"copy", "callback"}]
MCLen      == <<[s |-> 1, t |-> 1], [s |-> 2, t |-> 1]>>

MCModel    == {"A", "B"}
MCProduced == {{}, {"A"}}
===============================================================================
