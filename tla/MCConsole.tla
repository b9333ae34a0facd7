----------------------------- MODULE MCConsole ------------------------------
EXTENDS Console

MCMarker == <<2, 3>>
MCTexts  == {<<2, 3, 1>>, <<2, 2, 3, 1, 1>>, <<3, 2, 1, 3>>, <<1, 2, 1, 3>>, <<2, 3, 2, 3, 0, 1>>}
=============================================================================
