----------------------------- MODULE MCRecording -----------------------------
EXTENDS Recording

\* "aa" matches "a*a"; "a" does not: one character cannot be both ends.
MCEntities == {"lamp", "other"}
MCSpelling == [e \in MCEntities |-> IF e = "lamp" THEN <<"a", "a">> ELSE <<"a">>]
MCPatterns == { <<"a", "*", "a">> }
MCDomainOf == [e \in MCEntities |-> e]
MCAgeBounds == << >>
=============================================================================
