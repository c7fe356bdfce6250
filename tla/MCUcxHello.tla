----------------------------- MODULE MCUcxHello -----------------------------
EXTENDS UcxHello

AllFailureModes == {"none", "send", "recv", "keepalive"}
AllTestModes == {"probe", "wait", "eventfd"}
=============================================================================
