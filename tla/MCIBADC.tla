--------------------------------- MODULE MCIBADC -------------------------------
EXTENDS IBADC

MCConversions == [c \in Channels |-> IF c = 1 THEN 4 ELSE 1]
=============================================================================
