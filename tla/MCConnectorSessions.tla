------------------------ MODULE MCConnectorSessions ------------------------
EXTENDS ConnectorSessions, TLC

CONSTANTS s1, s2, s3, a1, a2, x, y

Symmetry == Permutations(Attachments) \cup Permutations(Ids) \cup Permutations(Saves \ Unimportable)
=============================================================================
