--------------------------- MODULE MCControlPlane ---------------------------
(* A small instance of ControlPlane for TLC.                               *)
EXTENDS ControlPlane, TLC

CONSTANTS u1, u2, u3, o1, o2, c1, k1, k2, k3, k4, k5, k6, r1, r2, acme, initech

MCScopeSets == {{"sessions:write"}, {"sessions:write", "organization:read"}}

Empty ==
    [user |-> [u \in Users |-> None], org |-> [o \in Organizations |-> None],
     client |-> [c \in Clients |-> None], cred |-> [k \in Credentials |-> None], minted |-> 0]

Account(o, role, operator, hash) ==
    [org |-> o, role |-> role, operator |-> operator, active |-> TRUE, verified |-> TRUE,
     hash |-> hash]
Browser(u, row) ==
    [kind |-> "browser", user |-> u, client |-> None, scopes |-> {}, holder |-> row]

\* An organization with an operator and an administrator, another with an operator, and
\* a client of both with the administrator's token and its own.
Running ==
    LET a1 == Account(o1, "admin", TRUE, 1)
        a2 == Account(o1, "admin", FALSE, 2)
        a3 == Account(o2, "member", TRUE, 3)
        scopes == {"sessions:write", "organization:read"}
    IN  [user |-> u1 :> a1 @@ u2 :> a2 @@ u3 :> a3,
         org |-> o1 :> acme @@ o2 :> initech,
         client |-> c1 :>
            [confidential |-> TRUE, active |-> TRUE,
             grants |-> {"authorization_code", "client_credentials"}, scopes |-> scopes,
             secret |-> 4, userAccess |-> "selected", userOrgs |-> {o1, o2},
             machineAccess |-> "single", machineOrgs |-> {o1}],
         cred |-> k1 :> Browser(u1, a1) @@ k2 :> Browser(u3, a3) @@
                  k3 :> [kind |-> "user", user |-> u2, client |-> c1, scopes |-> scopes,
                         holder |-> a2] @@
                  k4 :> [kind |-> "machine", user |-> None, client |-> c1,
                         scopes |-> scopes, holder |-> None] @@
                  k5 :> Browser(u2, a2) @@ k6 :> None,
         minted |-> 4]

MCStart == {Empty, Running}
Symmetry == Permutations({r1, r2})
=============================================================================
