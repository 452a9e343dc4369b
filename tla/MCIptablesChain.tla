--------------------------- MODULE MCIptablesChain ---------------------------
EXTENDS IptablesChain

MCPorts   == {53, 80}
MCForeign == {1}
=============================================================================
