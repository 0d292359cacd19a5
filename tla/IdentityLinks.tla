---------------------------- MODULE IdentityLinks ----------------------------
(***************************************************************************)
(* What identity links promise, without rows, tokens, clocks or requests:  *)
(* a link is for one purpose and one address for good, at most one of them *)
(* works at a time, it is confirmed at most once and only while it works,  *)
(* setting a password kills every password link of the user that is open,  *)
(* and what happens to one user leaves the links of the others alone.      *)
(***************************************************************************)
EXTENDS Integers

CONSTANTS Links, Users, Addresses, Holder, Purposes, Credentials, None

VARIABLES
    phase,    \* "none", "requested", "live", "confirmed" or "void"
    subject,  \* the purpose and address of a requested link
    password  \* how many passwords each user has set
linkVars == <<phase, subject, password>>

Subjects == [purpose : Purposes, email : Addresses]
OpenLinks == {l \in Links : phase[l] \in {"requested", "live"}}
Owner(l) == Holder[subject[l].email]
OpenLinksOf(u) == {l \in OpenLinks : Owner(l) = u}
SetsPassword(l) == subject[l].purpose \in Credentials
OpenPasswordLinksOf(u) == {l \in OpenLinksOf(u) : SetsPassword(l)}

Without(lost) == [l \in Links |-> IF l \in lost THEN "void" ELSE phase[l]]

Init ==
    /\ phase = [l \in Links |-> "none"]
    /\ subject = [l \in Links |-> None]
    /\ password = [u \in Users |-> 0]

\* A new address of the user may void links to the old ones with it.
Request(l, s, lost) ==
    /\ phase[l] = "none"
    /\ lost \subseteq OpenLinksOf(Holder[s.email])
    /\ phase' = [Without(lost) EXCEPT ![l] = "requested"]
    /\ subject' = [subject EXCEPT ![l] = s]
    /\ UNCHANGED password

\* The link that worked before for the same purpose and address is void.
Mail(l) ==
    /\ phase[l] = "requested"
    /\ phase' = [Without({k \in Links : phase[k] = "live" /\ subject[k] = subject[l]})
                    EXCEPT ![l] = "live"]
    /\ UNCHANGED <<subject, password>>

Confirm(l, lost) ==
    /\ phase[l] = "live"
    /\ lost \subseteq OpenLinksOf(Owner(l)) \ {l}
    /\ SetsPassword(l) => lost = OpenPasswordLinksOf(Owner(l)) \ {l}
    /\ phase' = [Without(lost) EXCEPT ![l] = "confirmed"]
    /\ password' = IF SetsPassword(l) THEN [password EXCEPT ![Owner(l)] = @ + 1] ELSE password
    /\ UNCHANGED subject

ChangePassword(u) ==
    /\ phase' = Without(OpenPasswordLinksOf(u))
    /\ password' = [password EXCEPT ![u] = @ + 1]
    /\ UNCHANGED subject

\* A user is deactivated.
Void(u, lost) ==
    /\ lost \subseteq OpenLinksOf(u)
    /\ phase' = Without(lost)
    /\ UNCHANGED <<subject, password>>

Next ==
    \/ \E l \in Links, s \in Subjects, lost \in SUBSET Links : Request(l, s, lost)
    \/ \E l \in Links : Mail(l)
    \/ \E l \in Links, lost \in SUBSET Links : Confirm(l, lost)
    \/ \E u \in Users : ChangePassword(u) \/ \E lost \in SUBSET Links : Void(u, lost)

Spec == Init /\ [][Next]_linkVars
=============================================================================
