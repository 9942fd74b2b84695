---------------------------- MODULE MCAgentUpgrade ----------------------------
(***************************************************************************)
(* AgentUpgrade with four releases: v1 knows neither Herdr nor how to tell *)
(* the version of its daemon, v2 has Herdr support, v3 captures host-wide, *)
(* and v4 follows it.                                                      *)
(***************************************************************************)
EXTENDS AgentUpgrade

CONSTANTS v1, v2, v3, v4

MCVersions == {v1, v2, v3, v4}
MCCapabilities == [v \in MCVersions |->
    CASE v = v1 -> {} [] v = v2 -> {"herdr-v2"} [] OTHER -> {"herdr-v2", HostCapture}]
MCReporting == {v2, v3, v4}
MCAllSteps == Steps
MCAllButBackup == Steps \ {"backup"}
==============================================================================
