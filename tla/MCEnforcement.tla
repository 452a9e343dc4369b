---------------------------- MODULE MCEnforcement ----------------------------
EXTENDS BlockListRefinement

MCPorts   == {53, 80}
AllKinds  == {"block", "unblock", "policy"}
AllEnds   == {"shutdown", "crash", "reboot"}
Graceful  == {"shutdown"}
OneFault  == {{}, {"os"}, {"db"}, {"second"}}
NoFaults  == {{}}
Mac       == {"darwin"}
Linux     == {"linux"}
AllPlatforms == {"linux", "windows", "darwin"}
=============================================================================
