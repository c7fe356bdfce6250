---------------------------- MODULE MCUcxServer -----------------------------
EXTENDS UcxServer

CONSTANTS c1, c2

TwoClients == {c1, c2}
AllTypes == {"stream", "tag", "am"}
=============================================================================
