------------------------- MODULE MCTenantRegistry --------------------------
EXTENDS TenantRegistry

Key(kid) == [kid |-> kid, bytes |-> 32]

\* Two keys in turn active, one retired, and four rings the cipher refuses.
MCRings ==
    {[keyring |-> <<Key("v1")>>, activeKid |-> "v1"],
     [keyring |-> <<Key("v1"), Key("v2")>>, activeKid |-> "v1"],
     [keyring |-> <<Key("v1"), Key("v2")>>, activeKid |-> "v2"],
     [keyring |-> <<Key("v2")>>, activeKid |-> "v2"],
     [keyring |-> << >>, activeKid |-> "v1"],
     [keyring |-> <<Key("v1")>>, activeKid |-> "v2"],
     [keyring |-> <<Key("v1"), Key("v1")>>, activeKid |-> "v1"],
     [keyring |-> <<[kid |-> "v1", bytes |-> 16]>>, activeKid |-> "v1"]}

MCMaterials ==
    {[production |-> "p1", compliance |-> Null],
     [production |-> "p2", compliance |-> "c2"]}
=============================================================================
