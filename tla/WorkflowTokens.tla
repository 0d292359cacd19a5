--------------------------- MODULE WorkflowTokens ---------------------------
(***************************************************************************)
(* Identity links (app/workflow_tokens): verification, email-change,       *)
(* invitation and password-reset tokens, derived from outbox events, bound *)
(* to one user_email row, and confirmed once, while addresses are replaced *)
(* and promoted, passwords change and accounts are (de)activated.          *)
(*                                                                         *)
(* Each action is one committed transaction.  A password link and a        *)
(* password change hash the new password between two transactions.  An     *)
(* outbox row may be built any number of times and at any time (module     *)
(* NotificationOutbox says when); one update that changes several fields   *)
(* of a user is several steps here.                                        *)
(***************************************************************************)
EXTENDS Integers

CONSTANTS
    Users,
    Emails,        \* ids of user_email rows (bound)
    Holder,        \* the user a row is inserted for
    Events,        \* ids of notification events (bound); random, but ordered
    Requests,      \* concurrent requests that set a password
    None,
    Lifetime,      \* token lifetime by purpose, in ticks
    MaxPasswords,  \* passwords set per user (bound)
    MaxNow         \* the clock stops here (bound)

Credentials == {"invite", "reset_password"}  \* CREDENTIAL_TOKEN_PURPOSES
Purposes == {"verify_email", "email_change"} \cup Credentials

ASSUME WorkflowTokensAssumption ==
    /\ Holder \in [Emails -> Users]
    /\ Events \subseteq Nat
    /\ None \notin Users /\ None \notin Emails /\ None \notin Events /\ None \notin Purposes
    /\ Lifetime \in [Purposes -> Nat \ {0}]
    /\ MaxPasswords \in Nat /\ MaxNow \in Nat \ {0}

VARIABLES
    status,         \* of each user_email row; "absent" before its insert
    verified,       \* rows with a verified_at
    active,         \* users with is_active
    invited,        \* users with invitation_pending
    invalidBefore,  \* sessions_invalid_before; 0 is NULL
    password,       \* identity of hashed_password
    event,          \* payload and occurred_at of each published event
    token,          \* the user_workflow_token row of each event
    now,
    request,        \* what each request carries while it hashes
    uses,           \* history: confirmations committed by each link
    outdated        \* history: links that must never be confirmed again

account == <<status, verified, active, invited, invalidBefore, password>>
ghosts == <<uses, outdated>>
vars == <<account, event, token, now, request, ghosts>>

Time == 0..MaxNow
Unpublished == [purpose |-> None, email |-> None, occurred |-> 0]
NoToken == [state |-> "none", expires |-> 0]
Idle == [pc |-> "idle", link |-> None, user |-> None, seen |-> 0]

Published == {e \in Events : event[e] # Unpublished}
LinksTo(M) == {e \in Published : event[e].email \in M}
RowsOf(u) == {m \in Emails : Holder[m] = u}
PasswordLinks(u) == {e \in LinksTo(RowsOf(u)) : event[e].purpose \in Credentials}

Init ==
    /\ \E current \in SUBSET Emails :
          /\ \A u \in Users : \E m \in RowsOf(u) : current \cap RowsOf(u) = {m}
          /\ status = [m \in Emails |-> IF m \in current THEN "current" ELSE "absent"]
          /\ invited \in SUBSET Users
          /\ verified \in SUBSET {m \in current : Holder[m] \notin invited}
    /\ active \in SUBSET Users
    /\ invalidBefore = [u \in Users |-> 0]
    /\ password = [u \in Users |-> 0]
    /\ event = [e \in Events |-> Unpublished]
    /\ token = [e \in Events |-> NoToken]
    /\ now = 1
    /\ request = [r \in Requests |-> Idle]
    /\ uses = [e \in Events |-> 0]
    /\ outdated = {}

-----------------------------------------------------------------------------
(* Publication.                                                            *)

Publish(purpose, m) ==
    \E e \in Events \ Published :
        event' = [event EXCEPT ![e] =
                    [purpose |-> purpose, email |-> m, occurred |-> now]]

RequestReset(m) ==
    /\ status[m] = "current" /\ Holder[m] \in active
    /\ Publish("reset_password", m)
    /\ UNCHANGED <<account, token, now, request, ghosts>>

RequestVerification(m) ==
    /\ status[m] = "current" /\ Holder[m] \in active /\ m \notin verified
    /\ Publish("verify_email", m)
    /\ UNCHANGED <<account, token, now, request, ghosts>>

ResendInvitation(m) ==
    /\ status[m] = "current" /\ Holder[m] \in active \cap invited /\ m \notin verified
    /\ Publish("invite", m)
    /\ UNCHANGED <<account, token, now, request, ghosts>>

-----------------------------------------------------------------------------
(* Building a message (the outbox dispatcher).                             *)

TargetStatus(purpose) == IF purpose = "email_change" THEN "pending" ELSE "current"

\* Mutant: the time of the request does not matter.
ActionableAnytime(e) ==
    LET m == event[e].email
        u == Holder[m]
    IN /\ status[m] = TargetStatus(event[e].purpose) /\ u \in active
       /\ event[e].purpose \in {"verify_email", "invite"} => m \notin verified
       /\ event[e].purpose = "invite" => u \in invited

\* The builders discard an event that is no longer actionable.
Actionable(e) ==
    LET m == event[e].email
        u == Holder[m]
    IN /\ status[m] = TargetStatus(event[e].purpose) /\ u \in active
       /\ event[e].purpose \in {"verify_email", "invite"} => m \notin verified
       /\ event[e].purpose = "invite" => u \in invited
       /\ event[e].purpose \in Credentials => event[e].occurred > invalidBefore[u]

SameTarget(d, e) ==
    event[d].purpose = event[e].purpose /\ event[d].email = event[e].email

Newer(d, e) ==
    \/ event[d].occurred > event[e].occurred
    \/ event[d].occurred = event[e].occurred /\ d > e

\* Mutant: a newer link that was used already does not count.
SupersededByActive(e) ==
    \E d \in Published : token[d].state = "active" /\ SameTarget(d, e) /\ Newer(d, e)

Superseded(e) ==
    \E d \in Published : token[d].state # "none" /\ SameTarget(d, e) /\ Newer(d, e)

Used(t) == [t EXCEPT !.state = "used"]

\* Every unused token of the links in L gets a used_at.
Invalidated(L) ==
    [e \in Events |-> IF e \in L /\ token[e].state = "active" THEN Used(token[e])
                                                              ELSE token[e]]

Granted(e) ==
    [state |-> "active", expires |-> now + Lifetime[event[e].purpose]]

\* The first build of an event replaces the active token of its address and purpose.
Issue(e) ==
    /\ e \in Published /\ Actionable(e)
    /\ token[e].state = "none" /\ ~Superseded(e)
    /\ token' = [Invalidated({d \in Published : SameTarget(d, e)}) EXCEPT ![e] = Granted(e)]
    /\ UNCHANGED <<account, event, now, request, ghosts>>

\* Mutant: a token that was used or superseded is granted again.
RenewUsed(e) ==
    /\ e \in Published /\ Actionable(e)
    /\ token[e].state # "none" /\ token[e].expires <= now
    /\ token' = [token EXCEPT ![e] = Granted(e)]
    /\ UNCHANGED <<account, event, now, request, ghosts>>

\* A later build of it finds its token expired; an unexpired one is mailed again.
Renew(e) ==
    /\ e \in Published /\ Actionable(e)
    /\ token[e].state = "active" /\ token[e].expires <= now
    /\ token' = [token EXCEPT ![e] = Granted(e)]
    /\ UNCHANGED <<account, event, now, request, ghosts>>

-----------------------------------------------------------------------------
(* Confirming a link.                                                      *)

Valid(e) == e \in Published /\ token[e].state = "active" /\ token[e].expires > now

\* The exact address version a consumed token authorizes.
OnTarget(e) ==
    /\ status[event[e].email] = TargetStatus(event[e].purpose)
    /\ Holder[event[e].email] \in active

Confirmed(e) == uses' = [uses EXCEPT ![e] = @ + 1]

\* revoke_user_security_sessions, as far as links can tell.
Revoke(u) == invalidBefore' = [invalidBefore EXCEPT ![u] = now]

VerifyEmail(e) ==
    /\ Valid(e) /\ event[e].purpose = "verify_email" /\ OnTarget(e)
    /\ verified' = verified \cup {event[e].email}
    /\ Revoke(Holder[event[e].email])
    /\ token' = Invalidated({e})
    /\ Confirmed(e)
    /\ UNCHANGED <<status, active, invited, password, event, now, request, outdated>>

\* Mutant: the replaced rows are not retired.
ReplacesNothing(replaced, m) == status' = [status EXCEPT ![m] = "current"]

Replaces(replaced, m) ==
    status' = [x \in Emails |-> IF x = m THEN "current"
                                ELSE IF x \in replaced THEN "retired" ELSE status[x]]

\* Mutant: the links of the replaced address stay.
ChangeEmailOnly(e) ==
    LET m == event[e].email
        replaced == {x \in RowsOf(Holder[m]) : status[x] = "current"}
    IN /\ Valid(e) /\ event[e].purpose = "email_change" /\ OnTarget(e)
       /\ Replaces(replaced, m)
       /\ verified' = verified \cup {m}
       /\ Revoke(Holder[m])
       /\ token' = Invalidated({e})
       /\ Confirmed(e)
       /\ outdated' = outdated \cup LinksTo(replaced)
       /\ UNCHANGED <<active, invited, password, event, now, request>>

\* The pending address becomes the current one, which is retired.
ChangeEmail(e) ==
    LET m == event[e].email
        replaced == {x \in RowsOf(Holder[m]) : status[x] = "current"}
    IN /\ Valid(e) /\ event[e].purpose = "email_change" /\ OnTarget(e)
       /\ Replaces(replaced, m)
       /\ verified' = verified \cup {m}
       /\ Revoke(Holder[m])
       /\ token' = Invalidated({e} \cup LinksTo(replaced))
       /\ Confirmed(e)
       /\ outdated' = outdated \cup LinksTo(replaced)
       /\ UNCHANGED <<active, invited, password, event, now, request>>

\* A password link is checked before the new password is hashed,
Preview(r, e) ==
    /\ request[r] = Idle
    /\ Valid(e) /\ event[e].purpose \in Credentials
    /\ request' = [request EXCEPT ![r] = [pc |-> "link", link |-> e, user |-> None, seen |-> 0]]
    /\ UNCHANGED <<account, event, token, now, ghosts>>

\* Mutant: an invitation stays open.
SetPasswordStillInvited(u) ==
    /\ password[u] < MaxPasswords
    /\ password' = [password EXCEPT ![u] = @ + 1]
    /\ invited' = invited
    /\ token' = Invalidated(PasswordLinks(u))
    /\ outdated' = outdated \cup PasswordLinks(u)
    /\ Revoke(u)

SetPassword(u) ==
    /\ password[u] < MaxPasswords
    /\ password' = [password EXCEPT ![u] = @ + 1]
    /\ invited' = invited \ {u}
    /\ token' = Invalidated(PasswordLinks(u))
    /\ outdated' = outdated \cup PasswordLinks(u)
    /\ Revoke(u)

\* Mutant: what was checked before hashing is trusted.
RedeemableAsSeen(e) == OnTarget(e)

\* and once more when it is consumed.
Redeemable(e) ==
    /\ Valid(e) /\ event[e].purpose \in Credentials /\ OnTarget(e)
    /\ event[e].purpose = "invite" => Holder[event[e].email] \in invited

\* reset_password and accept_invite; a link no longer redeemable rolls back (Abandon).
SetPasswordByLink(r) ==
    LET e == request[r].link
        m == event[e].email
    IN /\ request[r].pc = "link"
       /\ Redeemable(e)
       /\ SetPassword(Holder[m])
       /\ verified' = verified \cup {m}
       /\ Confirmed(e)
       /\ request' = [request EXCEPT ![r] = Idle]
       /\ UNCHANGED <<status, active, event, now>>

-----------------------------------------------------------------------------
(* Password change by its owner, outside the request's transaction.        *)

BeginPasswordChange(r, u) ==
    /\ request[r] = Idle
    /\ u \in active
    /\ request' = [request EXCEPT ![r] =
                     [pc |-> "change", link |-> None, user |-> u, seen |-> password[u]]]
    /\ UNCHANGED <<account, event, token, now, ghosts>>

\* Mutant: the hash read before hashing is not compared.
UnchangedUnchecked(u, hash) == u \in active

Unchanged(u, hash) == u \in active /\ password[u] = hash

ChangePassword(r) ==
    LET u == request[r].user
    IN /\ request[r].pc = "change"
       /\ Unchanged(u, request[r].seen)
       /\ SetPassword(u)
       /\ request' = [request EXCEPT ![r] = Idle]
       /\ UNCHANGED <<status, verified, active, event, now, uses>>

\* A check fails or the process dies: nothing was written.
Abandon(r) ==
    /\ request[r] # Idle
    /\ request' = [request EXCEPT ![r] = Idle]
    /\ UNCHANGED <<account, event, token, now, ghosts>>

-----------------------------------------------------------------------------
(* Administration.                                                         *)

\* An unverified address is replaced at once, and its invitation sent again.
ReplaceUnverified(m, fresh) ==
    LET u == Holder[m]
        replaced == {x \in RowsOf(u) : status[x] \in {"current", "pending"}}
    IN /\ status[m] = "current" /\ m \notin verified
       /\ status[fresh] = "absent" /\ Holder[fresh] = u
       /\ Replaces(replaced, fresh)
       /\ token' = Invalidated(LinksTo(replaced))
       /\ outdated' = outdated \cup LinksTo(replaced)
       /\ Revoke(u)
       /\ IF u \in invited THEN Publish("invite", fresh) ELSE event' = event
       /\ UNCHANGED <<verified, active, invited, password, now, request, uses>>

\* A verified address, or any address its owner edits, stays until a link is confirmed.
ProposeEmail(m, fresh) ==
    LET u == Holder[m]
        replaced == {x \in RowsOf(u) : status[x] = "pending"}
    IN /\ status[m] = "current" /\ (m \in verified \/ u \in active)
       /\ status[fresh] = "absent" /\ Holder[fresh] = u
       /\ status' = [x \in Emails |-> IF x = fresh THEN "pending"
                                      ELSE IF x \in replaced THEN "retired" ELSE status[x]]
       /\ token' = Invalidated(LinksTo(replaced))
       /\ outdated' = outdated \cup LinksTo(replaced)
       /\ Publish("email_change", fresh)
       /\ UNCHANGED <<verified, active, invited, invalidBefore, password, now, request, uses>>

\* An operator vouches for an address, or withdraws it.
SetVerified(m) ==
    /\ status[m] = "current"
    /\ verified' = IF m \in verified THEN verified \ {m} ELSE verified \cup {m}
    /\ Revoke(Holder[m])
    /\ UNCHANGED <<status, active, invited, password, event, token, now, request,
                   uses, outdated>>

Deactivate(u) ==
    /\ u \in active
    /\ active' = active \ {u}
    /\ Revoke(u)
    /\ token' = Invalidated(LinksTo(RowsOf(u)))
    /\ outdated' = outdated \cup PasswordLinks(u)
                     \cup {e \in LinksTo(RowsOf(u)) : token[e].state # "none"}
    /\ UNCHANGED <<status, verified, invited, password, event, now, request, uses>>

Reactivate(u) ==
    /\ u \notin active
    /\ active' = active \cup {u}
    /\ Revoke(u)
    /\ UNCHANGED <<status, verified, invited, password, event, token, now, request, ghosts>>

\* A role or organization changes, or an administrator revokes the user's sessions.
RevokeSessions(u) ==
    /\ Revoke(u)
    /\ UNCHANGED <<status, verified, active, invited, password, event, token, now, request,
                   ghosts>>

Tick ==
    /\ now < MaxNow
    /\ now' = now + 1
    /\ UNCHANGED <<account, event, token, request, ghosts>>

Next ==
    \/ \E m \in Emails :
          RequestReset(m) \/ RequestVerification(m) \/ ResendInvitation(m) \/ SetVerified(m)
    \/ \E e \in Events : Issue(e) \/ Renew(e) \/ VerifyEmail(e) \/ ChangeEmail(e)
    \/ \E r \in Requests, e \in Events : Preview(r, e)
    \/ \E r \in Requests, u \in Users : BeginPasswordChange(r, u)
    \/ \E r \in Requests : SetPasswordByLink(r) \/ ChangePassword(r) \/ Abandon(r)
    \/ \E m, fresh \in Emails : ReplaceUnverified(m, fresh) \/ ProposeEmail(m, fresh)
    \/ \E u \in Users : Deactivate(u) \/ Reactivate(u) \/ RevokeSessions(u)
    \/ Tick

Spec == Init /\ [][Next]_vars

-----------------------------------------------------------------------------
(* Properties.                                                             *)

\* The partial unique indexes and checks of user_email: one current address, at most one
\* pending one, and that unverified.
AddressRows ==
    /\ \A u \in Users : \E m \in RowsOf(u) : status[m] = "current"
    /\ \A m, x \in Emails :
          /\ Holder[m] = Holder[x] /\ status[m] = status[x]
          /\ status[m] \in {"current", "pending"}
          => m = x
    /\ \A m \in verified : status[m] \in {"current", "retired"}

\* The types of all variables, and the rows of user_email as its indexes demand.
TypeOK ==
    /\ status \in [Emails -> {"absent", "current", "pending", "retired"}]
    /\ verified \subseteq Emails /\ active \subseteq Users /\ invited \subseteq Users
    /\ invalidBefore \in [Users -> Time] /\ password \in [Users -> 0..MaxPasswords]
    /\ event \in [Events -> {Unpublished} \cup
                    [purpose : Purposes, email : Emails, occurred : Time]]
    /\ token \in [Events -> [state : {"none", "active", "used"}, expires : Nat]]
    /\ now \in Time
    /\ request \in [Requests ->
         {Idle} \cup [pc : {"link"}, link : Events, user : {None}, seen : {0}]
                \cup [pc : {"change"}, link : {None}, user : Users, seen : 0..MaxPasswords]]
    /\ uses \in [Events -> Nat] /\ outdated \subseteq Published
    /\ AddressRows

\* Of the links ever mailed for one purpose to one address only the newest can work,
\* whatever the order in which the dispatchers built their events.
NewestLinkWins ==
    \A d, e \in Published :
        /\ SameTarget(d, e) /\ Newer(d, e)
        /\ token[d].state # "none"
        => token[e].state # "active"

\* A working link belongs to an active user's address in the state its purpose needs.
WorkingLinksHaveATarget ==
    \A e \in Published : token[e].state = "active" => OnTarget(e)

\* No two confirmations of one link commit, however many requests hold it.
LinksWorkOnce == \A e \in Events : uses[e] <= 1

\* A link that was confirmed, by whichever of the requests that hold it, a password link
\* requested before a password change or deactivation, a link mailed before a
\* deactivation, and every link to a retired address stay dead.
SpentLinksStayDead ==
    [][\A e \in Events : e \in outdated \/ uses[e] > 0 => uses'[e] = uses[e]]_vars

\* An invitation sets the first password and never replaces one the user chose.
InvitationsOnlySetFirstPasswords ==
    [][\A e \in Published :
          event[e].purpose = "invite" /\ uses'[e] # uses[e] =>
             password[Holder[event[e].email]] = 0]_vars

\* A password is replaced only by a request that started from it or by a link that still
\* worked: of two changes that start from one password one fails.
NoLostPasswordChange ==
    [][\A r \in Requests :
          request[r].pc = "change" /\ request'[r] = Idle /\ password' # password =>
             request[r].seen = password[request[r].user]]_vars

\* What a link promises: see IdentityLinks.
Phase == [e \in Events |->
             IF e \notin Published THEN "none"
             ELSE IF uses[e] = 1 THEN "confirmed"
             ELSE IF e \in outdated \/ token[e].state = "used" THEN "void"
             ELSE IF token[e].state = "active" THEN "live" ELSE "requested"]
Subject == [e \in Events |-> IF e \notin Published THEN None
                             ELSE [purpose |-> event[e].purpose, email |-> event[e].email]]
Link == INSTANCE IdentityLinks
          WITH Links <- Events, Addresses <- Emails, phase <- Phase, subject <- Subject

\* One link at a time works for an address and purpose, until it is confirmed, superseded
\* or voided; a confirmation, and a password change, ends all the password links it must,
\* requested or mailed, in the same commit, and no link of another user.
ImplementsLinks == Link!Spec
=============================================================================
