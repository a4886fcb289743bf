----------------------------- MODULE MCMcpServer -----------------------------
(* McpServer for TLC: two servers, on one port or on two.                    *)
EXTENDS McpServer

CONSTANTS p1, p2, n1, n2

MCPid == {p1, p2}
MCPort == {n1, n2}
MCOnePort == {n1}
=============================================================================
