--------------------------- MODULE MCGcrImporting ---------------------------
EXTENDS GcrImporting

CONSTANTS c1, c2, k1, k2, rq, pg, fpr, s1, s2, s3

LOCAL Given == INSTANCE MCItems

MCClass == Given!Classes
MCPair == Given!Pairs
MCSlot == Given!Slots
MCFlags == Given!FlagsOf

ImportingSpec == ImportingInit /\ [][ImportingNext]_importingVars /\ ImportingFairness
=============================================================================
