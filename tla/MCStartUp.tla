----------------------------- MODULE MCStartUp -----------------------------
EXTENDS StartUp

CONSTANTS
    MaxSettings,   \* rows of settings created
    MaxNames       \* names administrators take or delete

\* Administrators change the configuration or the names, not both in one behaviour: only
\* the server's way through the parts connects them.
ConfigEdited == raced # {} \/ lastSettings > 1 \/ \E l \in Levels : meant[l] # SeededThresholds(l)
NamesEdited == taken # {} \/ struck # {} \/ clash

Bounded ==
    /\ lastSettings <= MaxSettings
    /\ Cardinality(taken) + Cardinality(struck) <= MaxNames
    /\ ~(ConfigEdited /\ NamesEdited)
=============================================================================
