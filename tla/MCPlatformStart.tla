-------------------------- MODULE MCPlatformStart --------------------------
(* Two replicas on one database, or a server and the upgrade Job. *)
EXTENDS PlatformStart

CONSTANTS s1, s2, job

MCServers == {s1, s2}
MCJobs == {job}
MCDeployments == {{s1, s2}, {s1, job}}
MCReleases == {3, 6, 8}
MCProcesses == MCServers \cup MCJobs
=============================================================================
