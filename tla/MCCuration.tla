----------------------------- MODULE MCCuration -----------------------------
EXTENDS Curation

MCEntities == {"lamp", "door"}
MCDomainOf == [e \in MCEntities |-> e]
MCAgeBounds == << 0 >>
MCOlderThan == { {}, {0} }
MCKeepEvery == { {}, {2} }
=============================================================================
