------------------------------ MODULE MCServers ------------------------------
EXTENDS Servers
==============================================================================
