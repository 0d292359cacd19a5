-------------------------- MODULE PasswordSessions --------------------------
(***************************************************************************)
(* What browser sessions promise, without rows, times, requests or logins: *)
(* a session acts for one user, on the password that was the user's when   *)
(* it was opened; a new password ends all sessions of the user and no one  *)
(* else's; what is over stays over; a user has no more sessions than the   *)
(* limit, and none of them gives way to a new one before it is reached.    *)
(***************************************************************************)
EXTENDS Integers, FiniteSets

CONSTANTS Sessions, Users, Limit

VARIABLES
    session,   \* not opened, over, or live: for whom and on which password
    password   \* how many passwords each user has set
sessionVars == <<session, password>>

Unopened == [standing |-> "none"]
Over == [standing |-> "over"]
Live(u, p) == [standing |-> "live", user |-> u, password |-> p]

LiveSessions == {s \in Sessions : session[s].standing = "live"}
LiveSessionsOf(u) == {s \in LiveSessions : session[s].user = u}
Ended(S) == [s \in Sessions |-> IF s \in S THEN Over ELSE session[s]]

Init ==
    /\ session = [s \in Sessions |-> Unopened]
    /\ password = [u \in Users |-> 0]

\* Those that give way are the user's own, and only what the limit takes.
Open(s, u) ==
    /\ session[s] = Unopened
    /\ UNCHANGED password
    /\ \E kept \in SUBSET LiveSessionsOf(u) :
        /\ session' = [Ended(LiveSessionsOf(u) \ kept) EXCEPT ![s] = Live(u, password[u])]
        /\ Cardinality(kept) < Limit
        /\ kept # LiveSessionsOf(u) => Cardinality(kept) = Limit - 1

\* A session that is opened while its user is being secured never lives.
Miss(s) ==
    /\ session[s] = Unopened
    /\ UNCHANGED password
    /\ session' = Ended({s})

\* By its user, by an administrator or by time.
End ==
    /\ UNCHANGED password
    /\ \E S \in SUBSET LiveSessions : session' = Ended(S)

ChangePassword(u) ==
    /\ password' = [password EXCEPT ![u] = @ + 1]
    /\ session' = Ended(LiveSessionsOf(u))

Next ==
    \/ \E s \in Sessions : Miss(s) \/ \E u \in Users : Open(s, u)
    \/ End
    \/ \E u \in Users : ChangePassword(u)

Spec == Init /\ [][Next]_sessionVars
=============================================================================
