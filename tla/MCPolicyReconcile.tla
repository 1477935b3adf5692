-------------------------- MODULE MCPolicyReconcile --------------------------
EXTENDS PolicyReconcile

\* Two policies, of which one selects both labels and one only "worker".
MCSelector == [p \in Policies |-> IF p = "base" THEN {"worker", "infra"} ELSE {"worker"}]

\* Either policy may name either bridge, "base" both of them; "extra" may ask
\* for the first MTU that is too large.
MCVersions ==
    [p \in Policies |->
        IF p = "base" THEN SUBSET {<<"br0", NoMtu>>, <<"br1", NoMtu>>}
                      ELSE {{}, {<<"br0", NoMtu>>}, {<<"br1", NoMtu>>}, {<<"br1", 65536>>}}]
=============================================================================
