--------------------------- MODULE MCRemoteCommand ---------------------------
EXTENDS RemoteCommand, TLC

CONSTANTS a1, a2, human, k1, k2, kx, n1

MCOwner == (k1 :> a1) @@ (k2 :> a1) @@ (kx :> a2)

Grant(readable, writable, admin) ==
    [read |-> readable, write |-> writable, admin |-> admin, wellFormed |-> TRUE]

None == Grant({}, {}, FALSE)

Conf(mode, keys, grants, build) ==
    [mode |-> mode, keys |-> (a1 :> keys) @@ (a2 :> kx) @@ (human :> NoKey),
     grants |-> (a1 :> grants) @@ (a2 :> None) @@ (human :> None),
     loopback |-> TRUE, build |-> build]

\* The agent may write; its key is rotated and its grants are gone; an older
\* build; a grant no server may start with.
MCDeployments ==
    {Conf("signed-agent", k1, Grant({n1}, {n1}, FALSE), "current"),
     Conf("signed-agent", k2, None, "current"),
     Conf("signed-agent", k1, Grant({n1}, {n1}, FALSE), "unspoken"),
     Conf("signed-agent", k1, Grant({n1}, {n1}, TRUE), "current")}

Credential(agent, key, life) ==
    [agent |-> agent, key |-> key, exp |-> life, actor |-> agent, sealedWith |-> key,
     evidence |-> "pinned"]

\* Good credentials of the key before and after the rotation, and the token of
\* one agent signed with the key of another.
MCWallets == {Credential(a1, k1, 1), Credential(a1, k2, 1), Credential(a1, kx, 1)}

Op(op, keyed, dry, wellFormed) ==
    [op |-> op, namespace |-> n1, keyed |-> keyed, dry |-> dry, wellFormed |-> wellFormed]

MCOperations ==
    {Op("write", TRUE, FALSE, TRUE), Op("write", FALSE, FALSE, TRUE),
     Op("close", TRUE, TRUE, TRUE), Op("get", FALSE, FALSE, TRUE),
     Op("write", FALSE, FALSE, FALSE),
     Op("distill", FALSE, FALSE, TRUE)}
=============================================================================
