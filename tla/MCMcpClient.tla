------------------------------ MODULE MCMcpClient ------------------------------
EXTENDS McpClient

CONSTANTS hello, c1, c2, c3

MCCalls == {hello, c1, c2, c3}
=============================================================================
