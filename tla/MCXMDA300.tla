------------------------------- MODULE MCXMDA300 -------------------------------
EXTENDS XMDA300

MCOrder == <<"battery", "analog">>
================================================================================
