--------------------------- MODULE MCTaskChannels ---------------------------
\* Three nodes: a leader and two followers, one of which needs the other's data.
EXTENDS TaskChannels

CONSTANTS l, f1, f2

TalkOfThree == {<<f1, f2>>}
=============================================================================
