---------------------------- MODULE MCPolicyPorts ----------------------------
EXTENDS PolicyPorts

MCSelector == [p \in Policies |-> Labels]
MCVersions == [p \in Policies |-> SUBSET Specs]
=============================================================================
