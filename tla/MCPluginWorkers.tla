-------------------------- MODULE MCPluginWorkers --------------------------
EXTENDS PluginWorkers

CONSTANTS p1, p2, j1, s1, s2

MCOwner == [e \in Jobs \cup Scheds |-> IF e = s1 THEN p1 ELSE p2]
MCFound == {{p1}}
MCHooks == [p \in Plugins |-> IF p = p1 THEN {"ItemImported", "PauseChanged"}
                                        ELSE {}]
MCCalls == {<<"register", s1>>, <<"register", s2>>, <<"remove", s1>>}
============================================================================
