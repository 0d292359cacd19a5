------------------------ MODULE WorkflowTokensProofs ------------------------
(* Proofs about WorkflowTokens for any users, addresses, events, requests. *)
EXTENDS WorkflowTokens, TLAPS

\* Only published events have a token.
PublishedTokens == \A e \in Events : token[e].state # "none" => e \in Published

\* Nothing happened in the future.
ClockInv ==
    /\ \A e \in Published : event[e].occurred <= now
    /\ \A u \in Users : invalidBefore[u] <= now

\* A confirmed link is a used one.
UsesInv == \A e \in Events : uses[e] <= 1 /\ (token[e].state # "used" => uses[e] = 0)

\* What keeps an event that was never built from being built.
Barred(e) ==
    \/ status[event[e].email] = "retired"
    \/ /\ event[e].purpose \in Credentials
       /\ event[e].occurred <= invalidBefore[Holder[event[e].email]]

OutdatedInv ==
    \A e \in outdated : /\ token[e].state # "active"
                        /\ token[e].state = "none" => Barred(e)

\* Whoever chose a password has no invitation open.
ChosenInv == \A u \in Users : password[u] # 0 => u \notin invited

LinkInv ==
    /\ PublishedTokens
    /\ ClockInv
    /\ NewestLinkWins
    /\ WorkingLinksHaveATarget
    /\ UsesInv
    /\ OutdatedInv
    /\ ChosenInv

USE WorkflowTokensAssumption

-----------------------------------------------------------------------------
(* Operators.                                                              *)

Tokens == [state : {"none", "active", "used"}, expires : Nat]
Links == [purpose : Purposes, email : Emails, occurred : Time]

\* A published link has the type of a link.
LEMMA PublishedType ==
    ASSUME TypeOK, NEW e \in Published
    PROVE  event[e] \in Links /\ event[e].purpose \in Purposes /\ event[e].email \in Emails
           /\ event[e].occurred \in Time /\ e \in Events
  BY DEF TypeOK, Published, Links, Unpublished

\* No link equals the unpublished event.
LEMMA LinkIsPublished ==
    ASSUME NEW p \in Purposes, NEW m, NEW t
    PROVE  [purpose |-> p, email |-> m, occurred |-> t] # Unpublished
<1>1. [purpose |-> p, email |-> m, occurred |-> t].purpose = p
  OBVIOUS
<1>2. Unpublished.purpose = None
  BY DEF Unpublished
<1> QED
  BY <1>1, <1>2

\* A granted token is active and has the type of a token.
LEMMA GrantedState ==
    ASSUME TypeOK, NEW e \in Published
    PROVE  Granted(e) \in Tokens /\ Granted(e).state = "active"
<1>1. now \in Nat /\ Lifetime[event[e].purpose] \in Nat
  BY PublishedType DEF TypeOK, Time
<1> QED
  BY <1>1 DEF Granted, Tokens

\* Invalidation only turns active tokens into used ones.
LEMMA InvalidatedStates ==
    ASSUME TypeOK, NEW L
    PROVE  /\ Invalidated(L) \in [Events -> Tokens]
           /\ \A e \in Events :
                 Invalidated(L)[e].state =
                   IF e \in L /\ token[e].state = "active" THEN "used" ELSE token[e].state
  BY DEF TypeOK, Invalidated, Used, Tokens

\* Issuing activates one token and uses up those it invalidates.
LEMMA IssuedStates ==
    ASSUME TypeOK, NEW L, NEW e \in Published,
           token' = [Invalidated(L) EXCEPT ![e] = Granted(e)]
    PROVE  /\ token' \in [Events -> Tokens]
           /\ token'[e].state = "active"
           /\ \A d \in Events \ {e} :
                 token'[d].state =
                   IF d \in L /\ token[d].state = "active" THEN "used" ELSE token[d].state
<1>1. Granted(e) \in Tokens /\ Granted(e).state = "active"
  BY GrantedState
<1>2. e \in Events
  BY DEF Published
<1> QED
  BY <1>1, <1>2, InvalidatedStates

\* What a publication adds.
LEMMA PublishStates ==
    ASSUME TypeOK, NEW p \in Purposes, NEW m \in Emails, Publish(p, m)
    PROVE  \E e \in Events \ Published :
              /\ event'[e] = [purpose |-> p, email |-> m, occurred |-> now]
              /\ \A d \in Events \ {e} : event'[d] = event[d]
              /\ event' \in [Events -> {Unpublished} \cup Links]
              /\ Published' = Published \cup {e}
<1>1. PICK e \in Events \ Published :
         event' = [event EXCEPT ![e] = [purpose |-> p, email |-> m, occurred |-> now]]
  BY DEF Publish
<1>2. event'[e] = [purpose |-> p, email |-> m, occurred |-> now] /\ event'[e] \in Links
  BY <1>1 DEF TypeOK, Links
<1>3. \A d \in Events \ {e} : event'[d] = event[d]
  BY <1>1 DEF TypeOK
<1>4. event' \in [Events -> {Unpublished} \cup Links]
  BY <1>1, <1>2 DEF TypeOK, Links
<1>5. Published' = Published \cup {e}
  BY <1>2, <1>3, LinkIsPublished DEF Published
<1> QED
  BY <1>2, <1>3, <1>4, <1>5

-----------------------------------------------------------------------------
(* Types.                                                                  *)

\* The initial state has the types.
LEMMA InitTypes == Init => TypeOK
<1> SUFFICES ASSUME Init PROVE TypeOK
  OBVIOUS
<1>1. PICK current \in SUBSET Emails :
         /\ \A u \in Users : \E m \in RowsOf(u) : current \cap RowsOf(u) = {m}
         /\ status = [m \in Emails |-> IF m \in current THEN "current" ELSE "absent"]
         /\ invited \in SUBSET Users
         /\ verified \in SUBSET {m \in current : Holder[m] \notin invited}
  BY DEF Init
<1>3. AddressRows
  <2>1. \A u \in Users : \E m \in RowsOf(u) : status[m] = "current"
    BY <1>1 DEF RowsOf
  <2>2. ASSUME NEW m \in Emails, NEW x \in Emails, Holder[m] = Holder[x],
               status[m] = status[x], status[m] \in {"current", "pending"}
        PROVE  m = x
    <3>1. m \in current \cap RowsOf(Holder[m]) /\ x \in current \cap RowsOf(Holder[m])
      BY <1>1, <2>2 DEF RowsOf
    <3> QED
      BY <3>1, <1>1
  <2> QED
    BY <2>1, <2>2, <1>1 DEF AddressRows
<1>4. outdated \subseteq Published
  BY DEF Init
<1> QED
  BY <1>1, <1>3, <1>4 DEF Init, TypeOK, Time, Unpublished, NoToken, Idle

\* How an address takes the place of others of its user.
LEMMA ReplacedRows ==
    ASSUME TypeOK, NEW m \in Emails, NEW replaced \in SUBSET RowsOf(Holder[m]),
           \A x \in RowsOf(Holder[m]) : status[x] = "current" => x \in replaced,
           m \notin replaced, Replaces(replaced, m),
           verified' \subseteq verified \cup {m}
    PROVE  AddressRows'
<1>1. status' \in [Emails -> {"absent", "current", "pending", "retired"}]
  BY DEF TypeOK, Replaces
<1>2. \A x \in Emails : status'[x] = IF x = m THEN "current"
                                     ELSE IF x \in replaced THEN "retired" ELSE status[x]
  BY DEF Replaces
<1>3. \A u \in Users : \E x \in RowsOf(u) : status'[x] = "current"
  BY <1>2 DEF TypeOK, AddressRows, RowsOf
<1>4. ASSUME NEW a \in Emails, NEW b \in Emails, Holder[a] = Holder[b],
             status'[a] = status'[b], status'[a] \in {"current", "pending"}
      PROVE  a = b
  BY <1>2, <1>4 DEF TypeOK, AddressRows, RowsOf
<1>5. \A x \in verified' : status'[x] \in {"current", "retired"}
  BY <1>2 DEF TypeOK, AddressRows
<1> QED
  BY <1>3, <1>4, <1>5 DEF AddressRows, RowsOf

\* Every action keeps the types.
LEMMA NextTypes == TypeOK /\ [Next]_vars => TypeOK'
<1> SUFFICES ASSUME TypeOK, [Next]_vars PROVE TypeOK'
  OBVIOUS
<1> DEFINE Parts ==
      /\ status' \in [Emails -> {"absent", "current", "pending", "retired"}]
      /\ verified' \subseteq Emails /\ active' \subseteq Users /\ invited' \subseteq Users
      /\ invalidBefore' \in [Users -> Time] /\ password' \in [Users -> 0..MaxPasswords]
      /\ event' \in [Events -> {Unpublished} \cup Links]
      /\ token' \in [Events -> Tokens]
      /\ now' \in Time
      /\ request' \in [Requests ->
           {Idle} \cup [pc : {"link"}, link : Events, user : {None}, seen : {0}]
                  \cup [pc : {"change"}, link : {None}, user : Users, seen : 0..MaxPasswords]]
      /\ uses' \in [Events -> Nat] /\ outdated' \subseteq Published'
      /\ AddressRows'
<1> SUFFICES Parts
  BY DEF TypeOK, Links, Tokens
<1>1. token \in [Events -> Tokens] /\ event \in [Events -> {Unpublished} \cup Links]
  BY DEF TypeOK, Tokens, Links
<1>2. ASSUME NEW u \in Users, Revoke(u) PROVE invalidBefore' \in [Users -> Time]
  BY <1>2 DEF Revoke, TypeOK
<1>3. ASSUME UNCHANGED <<status, verified>> PROVE AddressRows'
  BY <1>3 DEF TypeOK, AddressRows, RowsOf
<1>4. ASSUME event' = event, outdated' \subseteq outdated \cup Published
      PROVE  outdated' \subseteq Published'
  BY <1>4 DEF TypeOK, Published
<1>5. ASSUME NEW M PROVE LinksTo(M) \subseteq Published
  BY DEF LinksTo
<1>6. ASSUME NEW u PROVE PasswordLinks(u) \subseteq Published
  BY DEF PasswordLinks, LinksTo
<1>7. ASSUME NEW p \in Purposes, NEW m \in Emails, Publish(p, m),
             UNCHANGED <<account, token, now, request, ghosts>>
      PROVE  Parts
  BY <1>1, <1>3, <1>7, PublishStates DEF account, ghosts, TypeOK
<1>8. ASSUME NEW u \in Users, SetPassword(u)
      PROVE  /\ password' \in [Users -> 0..MaxPasswords] /\ invited' \subseteq Users
             /\ token' \in [Events -> Tokens] /\ invalidBefore' \in [Users -> Time]
             /\ outdated' \subseteq outdated \cup Published
  <2>1. password[u] + 1 \in 0..MaxPasswords
    BY <1>8 DEF SetPassword, TypeOK
  <2> QED
    BY <2>1, <1>2, <1>6, <1>8, InvalidatedStates DEF SetPassword, TypeOK
<1>9. Purposes = {"verify_email", "email_change", "invite", "reset_password"}
  BY DEF Purposes, Credentials
<1>10. CASE UNCHANGED vars
  BY <1>1, <1>3, <1>4, <1>10 DEF vars, account, ghosts, TypeOK
<1>11. ASSUME NEW m \in Emails, RequestReset(m) PROVE Parts
  BY <1>7, <1>9, <1>11 DEF RequestReset
<1>12. ASSUME NEW m \in Emails, RequestVerification(m) PROVE Parts
  BY <1>7, <1>9, <1>12 DEF RequestVerification
<1>13. ASSUME NEW m \in Emails, ResendInvitation(m) PROVE Parts
  BY <1>7, <1>9, <1>13 DEF ResendInvitation
<1>14. ASSUME NEW m \in Emails, SetVerified(m) PROVE Parts
  <2>1. AddressRows'
    BY <1>14 DEF SetVerified, TypeOK, AddressRows, RowsOf
  <2>2. Holder[m] \in Users
    OBVIOUS
  <2> QED
    BY <1>1, <1>2, <1>4, <1>14, <2>1, <2>2 DEF SetVerified, TypeOK
<1>15. ASSUME NEW e \in Events, Issue(e) PROVE Parts
  <2>1. token' \in [Events -> Tokens]
    BY <1>15, IssuedStates DEF Issue
  <2> QED
    BY <1>1, <1>3, <1>4, <1>15, <2>1 DEF Issue, account, ghosts, TypeOK
<1>16. ASSUME NEW e \in Events, Renew(e) PROVE Parts
  <2>1. Granted(e) \in Tokens
    BY <1>16, GrantedState DEF Renew
  <2> QED
    BY <1>1, <1>3, <1>4, <1>16, <2>1 DEF Renew, account, ghosts, TypeOK
<1>17. ASSUME NEW e \in Events, VerifyEmail(e) PROVE Parts
  <2>1. event[e].email \in Emails /\ status[event[e].email] = "current"
    BY <1>17, PublishedType DEF VerifyEmail, Valid, OnTarget, TargetStatus
  <2>2. AddressRows'
    BY <1>17, <2>1 DEF VerifyEmail, TypeOK, AddressRows, RowsOf
  <2> QED
    BY <1>1, <1>2, <1>4, <1>17, <2>1, <2>2, InvalidatedStates
       DEF VerifyEmail, Confirmed, TypeOK
<1>18. ASSUME NEW e \in Events, ChangeEmail(e) PROVE Parts
  <2> DEFINE m == event[e].email
             replaced == {x \in RowsOf(Holder[m]) : status[x] = "current"}
  <2>1. m \in Emails /\ status[m] = "pending"
    BY <1>18, PublishedType DEF ChangeEmail, Valid, OnTarget, TargetStatus
  <2>2. AddressRows'
    <3>1. m \notin replaced /\ replaced \in SUBSET RowsOf(Holder[m])
      BY <2>1
    <3>2. Replaces(replaced, m) /\ verified' = verified \cup {m}
      BY <1>18 DEF ChangeEmail
    <3> HIDE DEF m
    <3> QED
      BY <2>1, <3>1, <3>2, ReplacedRows
  <2>3. status' \in [Emails -> {"absent", "current", "pending", "retired"}]
    BY <1>18 DEF ChangeEmail, Replaces, TypeOK
  <2>4. outdated' \subseteq outdated \cup Published
    BY <1>5, <1>18 DEF ChangeEmail
  <2>5. token' \in [Events -> Tokens]
    BY <1>18, InvalidatedStates DEF ChangeEmail
  <2>6. invalidBefore' \in [Users -> Time]
    BY <1>2, <1>18, <2>1 DEF ChangeEmail
  <2>7. verified' \subseteq Emails /\ uses' \in [Events -> Nat]
    BY <1>18, <2>1 DEF ChangeEmail, Confirmed, TypeOK
  <2> QED
    BY <1>1, <1>4, <1>18, <2>2, <2>3, <2>4, <2>5, <2>6, <2>7 DEF ChangeEmail, TypeOK
<1>19. ASSUME NEW r \in Requests, NEW e \in Events, Preview(r, e) PROVE Parts
  BY <1>1, <1>3, <1>4, <1>19 DEF Preview, account, ghosts, TypeOK
<1>20. ASSUME NEW r \in Requests, NEW u \in Users, BeginPasswordChange(r, u) PROVE Parts
  BY <1>1, <1>3, <1>4, <1>20 DEF BeginPasswordChange, account, ghosts, TypeOK
<1>21. ASSUME NEW r \in Requests, SetPasswordByLink(r) PROVE Parts
  <2> DEFINE e == request[r].link
  <2>1. e \in Events /\ event[e].email \in Emails /\ status[event[e].email] = "current"
    <3>1. e \in Published /\ OnTarget(e) /\ event[e].purpose \in Credentials
      BY <1>21 DEF SetPasswordByLink, Redeemable, Valid
    <3> HIDE DEF e
    <3> QED
      BY <3>1, PublishedType DEF OnTarget, TargetStatus, Credentials
  <2>2. SetPassword(Holder[event[e].email]) /\ verified' = verified \cup {event[e].email}
        /\ Confirmed(e) /\ request' = [request EXCEPT ![r] = Idle]
        /\ UNCHANGED <<status, active, event, now>>
    BY <1>21 DEF SetPasswordByLink
  <2> HIDE DEF e
  <2>3. AddressRows'
    BY <2>1, <2>2 DEF TypeOK, AddressRows, RowsOf
  <2>4. uses' \in [Events -> Nat] /\ verified' \subseteq Emails
    BY <2>1, <2>2 DEF Confirmed, TypeOK
  <2> QED
    BY <1>1, <1>4, <1>8, <2>1, <2>2, <2>3, <2>4 DEF TypeOK
<1>22. ASSUME NEW r \in Requests, ChangePassword(r) PROVE Parts
  <2>1. request[r].user \in Users
    BY <1>22 DEF ChangePassword, TypeOK, Unchanged
  <2> QED
    BY <1>1, <1>3, <1>4, <1>8, <1>22, <2>1 DEF ChangePassword, TypeOK
<1>23. ASSUME NEW r \in Requests, Abandon(r) PROVE Parts
  BY <1>1, <1>3, <1>4, <1>23 DEF Abandon, account, ghosts, TypeOK
<1>24. ASSUME NEW m \in Emails, NEW fresh \in Emails, ReplaceUnverified(m, fresh) PROVE Parts
  <2> DEFINE u == Holder[m]
             replaced == {x \in RowsOf(u) : status[x] \in {"current", "pending"}}
  <2>1. AddressRows'
    <3>1. fresh \notin replaced /\ replaced \in SUBSET RowsOf(Holder[fresh])
          /\ \A x \in RowsOf(Holder[fresh]) : status[x] = "current" => x \in replaced
      BY <1>24 DEF ReplaceUnverified
    <3>2. Replaces(replaced, fresh) /\ verified' = verified
      BY <1>24 DEF ReplaceUnverified
    <3> HIDE DEF replaced
    <3> QED
      BY <3>1, <3>2, ReplacedRows
  <2>2. status' \in [Emails -> {"absent", "current", "pending", "retired"}]
    BY <1>24 DEF ReplaceUnverified, Replaces, TypeOK
  <2>3. event' \in [Events -> {Unpublished} \cup Links] /\ Published \subseteq Published'
    BY <1>1, <1>9, <1>24, PublishStates DEF ReplaceUnverified, Published
  <2>4. outdated' \subseteq Published'
    BY <1>5, <1>24, <2>3 DEF ReplaceUnverified, TypeOK
  <2> QED
    BY <1>1, <1>2, <1>24, <2>1, <2>2, <2>3, <2>4, InvalidatedStates
       DEF ReplaceUnverified, TypeOK
<1>25. ASSUME NEW m \in Emails, NEW fresh \in Emails, ProposeEmail(m, fresh) PROVE Parts
  <2> DEFINE u == Holder[m]
             replaced == {x \in RowsOf(u) : status[x] = "pending"}
  <2>1. \A x \in Emails : status'[x] = IF x = fresh THEN "pending"
                                       ELSE IF x \in replaced THEN "retired" ELSE status[x]
    BY <1>25 DEF ProposeEmail
  <2>2. AddressRows'
    <3>1. Holder[fresh] = u /\ status[fresh] = "absent" /\ verified' = verified
      BY <1>25 DEF ProposeEmail
    <3>2. \A v \in Users : \E x \in RowsOf(v) : status'[x] = "current"
      BY <2>1, <3>1 DEF TypeOK, AddressRows, RowsOf
    <3>3. ASSUME NEW a \in Emails, NEW b \in Emails, Holder[a] = Holder[b],
                 status'[a] = status'[b], status'[a] \in {"current", "pending"}
          PROVE  a = b
      BY <2>1, <3>1, <3>3 DEF TypeOK, AddressRows, RowsOf
    <3> QED
      BY <2>1, <3>1, <3>2, <3>3 DEF TypeOK, AddressRows, RowsOf
  <2>3. status' \in [Emails -> {"absent", "current", "pending", "retired"}]
    BY <1>25 DEF ProposeEmail, TypeOK
  <2>4. event' \in [Events -> {Unpublished} \cup Links] /\ Published \subseteq Published'
    BY <1>9, <1>25, PublishStates DEF ProposeEmail
  <2>5. outdated' \subseteq Published'
    BY <1>5, <1>25, <2>4 DEF ProposeEmail, TypeOK
  <2> QED
    BY <1>1, <1>25, <2>2, <2>3, <2>4, <2>5, InvalidatedStates DEF ProposeEmail, TypeOK
<1>26. ASSUME NEW u \in Users, Deactivate(u) PROVE Parts
  <2>1. outdated' \subseteq outdated \cup Published
    BY <1>5, <1>6, <1>26 DEF Deactivate
  <2> QED
    BY <1>1, <1>2, <1>3, <1>4, <1>26, <2>1, InvalidatedStates DEF Deactivate, TypeOK
<1>27. ASSUME NEW u \in Users, Reactivate(u) PROVE Parts
  BY <1>1, <1>2, <1>3, <1>4, <1>27 DEF Reactivate, ghosts, TypeOK
<1>28. ASSUME NEW u \in Users, RevokeSessions(u) PROVE Parts
  BY <1>1, <1>2, <1>3, <1>4, <1>28 DEF RevokeSessions, ghosts, TypeOK
<1>29. CASE Tick
  BY <1>1, <1>3, <1>4, <1>29 DEF Tick, account, ghosts, TypeOK, Time
<1> QED
  BY <1>10, <1>11, <1>12, <1>13, <1>14, <1>15, <1>16, <1>17, <1>18, <1>19, <1>20, <1>21,
     <1>22, <1>23, <1>24, <1>25, <1>26, <1>27, <1>28, <1>29 DEF Next

-----------------------------------------------------------------------------
(* What every step does to events, tokens, clocks and rows.                *)

KeepsEvents ==
    /\ \A e \in Published : e \in Published' /\ event'[e] = event[e]
    /\ \A e \in Published' \ Published : event'[e].occurred = now

TokensDie ==
    \A e \in Events : \/ token'[e].state = token[e].state
                      \/ token[e].state = "active" /\ token'[e].state = "used"

ClocksAdvance ==
    /\ now <= now'
    /\ \A u \in Users : invalidBefore[u] <= invalidBefore'[u] /\ invalidBefore'[u] <= now'

RetiredStays == \A m \in Emails : status[m] = "retired" => status'[m] = "retired"

Shape ==
    /\ KeepsEvents /\ ClocksAdvance /\ RetiredStays
    /\ TokensDie \/ \E e \in Events : Issue(e) \/ Renew(e)

\* Every step has the Shape: events stay, clocks advance, tokens only die except by issue.
LEMMA Shapes == TypeOK /\ ClockInv /\ [Next]_vars => Shape
<1> SUFFICES ASSUME TypeOK, ClockInv, [Next]_vars PROVE Shape
  OBVIOUS
<1>1. ASSUME event' = event PROVE KeepsEvents
  BY <1>1 DEF KeepsEvents, Published
<1>2. ASSUME NEW p \in Purposes, NEW m \in Emails, Publish(p, m) PROVE KeepsEvents
  <2>1. PICK e \in Events \ Published :
           /\ event'[e] = [purpose |-> p, email |-> m, occurred |-> now]
           /\ \A d \in Events \ {e} : event'[d] = event[d]
           /\ Published' = Published \cup {e}
    BY <1>2, PublishStates
  <2>2. Published \subseteq Events
    BY DEF Published
  <2> QED
    BY <2>1, <2>2 DEF KeepsEvents
<1>3. ASSUME now' = now, invalidBefore' = invalidBefore PROVE ClocksAdvance
  BY <1>3 DEF ClocksAdvance, ClockInv, TypeOK, Time
<1>4. ASSUME now' = now, NEW u \in Users, Revoke(u) PROVE ClocksAdvance
  BY <1>4 DEF ClocksAdvance, ClockInv, Revoke, TypeOK, Time
<1>5. ASSUME status' = status PROVE RetiredStays
  BY <1>5 DEF RetiredStays
<1>6. ASSUME token' = token PROVE TokensDie
  BY <1>6 DEF TokensDie
<1>7. ASSUME NEW L, token' = Invalidated(L) PROVE TokensDie
  BY <1>7, InvalidatedStates DEF TokensDie
<1>8. Purposes = {"verify_email", "email_change", "invite", "reset_password"}
  BY DEF Purposes, Credentials
<1>9. ASSUME NEW m \in Emails, NEW replaced, Replaces(replaced, m), status[m] # "retired"
      PROVE  RetiredStays
  BY <1>9 DEF RetiredStays, Replaces
<1>10. CASE UNCHANGED vars
  BY <1>1, <1>3, <1>5, <1>6, <1>10 DEF vars, account, Shape
<1>11. ASSUME NEW m \in Emails, RequestReset(m) PROVE Shape
  BY <1>2, <1>3, <1>5, <1>6, <1>8, <1>11 DEF RequestReset, account, Shape
<1>12. ASSUME NEW m \in Emails, RequestVerification(m) PROVE Shape
  BY <1>2, <1>3, <1>5, <1>6, <1>8, <1>12 DEF RequestVerification, account, Shape
<1>13. ASSUME NEW m \in Emails, ResendInvitation(m) PROVE Shape
  BY <1>2, <1>3, <1>5, <1>6, <1>8, <1>13 DEF ResendInvitation, account, Shape
<1>14. ASSUME NEW m \in Emails, SetVerified(m) PROVE Shape
  BY <1>1, <1>4, <1>5, <1>6, <1>14 DEF SetVerified, Shape
<1>15. ASSUME NEW e \in Events, Issue(e) PROVE Shape
  BY <1>1, <1>3, <1>5, <1>15 DEF Issue, account, Shape
<1>16. ASSUME NEW e \in Events, Renew(e) PROVE Shape
  BY <1>1, <1>3, <1>5, <1>16 DEF Renew, account, Shape
<1>17. ASSUME NEW e \in Events, VerifyEmail(e) PROVE Shape
  <2>1. Holder[event[e].email] \in Users
    BY <1>17, PublishedType DEF VerifyEmail, Valid
  <2> QED
    BY <1>1, <1>4, <1>5, <1>7, <1>17, <2>1 DEF VerifyEmail, Shape
<1>18. ASSUME NEW e \in Events, ChangeEmail(e) PROVE Shape
  <2>1. event[e].email \in Emails /\ status[event[e].email] = "pending"
    BY <1>18, PublishedType DEF ChangeEmail, Valid, OnTarget, TargetStatus
  <2>2. ClocksAdvance
    BY <1>4, <1>18, <2>1 DEF ChangeEmail
  <2>3. RetiredStays
    BY <1>9, <1>18, <2>1 DEF ChangeEmail
  <2> QED
    BY <1>1, <1>7, <1>18, <2>2, <2>3 DEF ChangeEmail, Shape
<1>19. ASSUME NEW r \in Requests, NEW e \in Events, Preview(r, e) PROVE Shape
  BY <1>1, <1>3, <1>5, <1>6, <1>19 DEF Preview, account, Shape
<1>20. ASSUME NEW r \in Requests, NEW u \in Users, BeginPasswordChange(r, u) PROVE Shape
  BY <1>1, <1>3, <1>5, <1>6, <1>20 DEF BeginPasswordChange, account, Shape
<1>21. ASSUME NEW r \in Requests, SetPasswordByLink(r) PROVE Shape
  <2>1. Holder[event[request[r].link].email] \in Users
    BY <1>21, PublishedType DEF SetPasswordByLink, Redeemable, Valid
  <2> QED
    BY <1>1, <1>4, <1>5, <1>7, <1>21, <2>1 DEF SetPasswordByLink, SetPassword, Shape
<1>22. ASSUME NEW r \in Requests, ChangePassword(r) PROVE Shape
  <2>1. request[r].user \in Users
    BY <1>22 DEF ChangePassword, TypeOK, Unchanged
  <2> QED
    BY <1>1, <1>4, <1>5, <1>7, <1>22, <2>1 DEF ChangePassword, SetPassword, Shape
<1>23. ASSUME NEW r \in Requests, Abandon(r) PROVE Shape
  BY <1>1, <1>3, <1>5, <1>6, <1>23 DEF Abandon, account, Shape
<1>24. ASSUME NEW m \in Emails, NEW fresh \in Emails, ReplaceUnverified(m, fresh) PROVE Shape
  <2>1. KeepsEvents
    BY <1>1, <1>2, <1>8, <1>24 DEF ReplaceUnverified
  <2>2. ClocksAdvance /\ RetiredStays /\ TokensDie
    BY <1>4, <1>7, <1>9, <1>24 DEF ReplaceUnverified
  <2> QED
    BY <2>1, <2>2 DEF Shape
<1>25. ASSUME NEW m \in Emails, NEW fresh \in Emails, ProposeEmail(m, fresh) PROVE Shape
  <2>1. RetiredStays
    BY <1>25 DEF ProposeEmail, RetiredStays
  <2> QED
    BY <1>2, <1>3, <1>7, <1>8, <1>25, <2>1 DEF ProposeEmail, Shape
<1>26. ASSUME NEW u \in Users, Deactivate(u) PROVE Shape
  BY <1>1, <1>4, <1>5, <1>7, <1>26 DEF Deactivate, Shape
<1>27. ASSUME NEW u \in Users, Reactivate(u) PROVE Shape
  BY <1>1, <1>4, <1>5, <1>6, <1>27 DEF Reactivate, Shape
<1>28. ASSUME NEW u \in Users, RevokeSessions(u) PROVE Shape
  BY <1>1, <1>4, <1>5, <1>6, <1>28 DEF RevokeSessions, Shape
<1>29. CASE Tick
  <2>1. ClocksAdvance
    BY <1>29 DEF Tick, account, ClocksAdvance, ClockInv, TypeOK, Time
  <2> QED
    BY <1>1, <1>5, <1>6, <1>29, <2>1 DEF Tick, account, Shape
<1> QED
  BY <1>10, <1>11, <1>12, <1>13, <1>14, <1>15, <1>16, <1>17, <1>18, <1>19, <1>20, <1>21,
     <1>22, <1>23, <1>24, <1>25, <1>26, <1>27, <1>28, <1>29 DEF Next

\* A confirmation uses up a link that works; an invitation, one that is still open.
ConfirmsWorkingLink ==
    \E e \in Published :
        /\ Confirmed(e)
        /\ token[e].state = "active" /\ token'[e].state = "used"
        /\ event[e].purpose = "invite" => Holder[event[e].email] \in invited

\* A use is counted only by a step that confirms a working link.
LEMMA Confirmations == TypeOK /\ [Next]_vars => uses' = uses \/ ConfirmsWorkingLink
<1> SUFFICES ASSUME TypeOK, [Next]_vars PROVE uses' = uses \/ ConfirmsWorkingLink
  OBVIOUS
<1>1. ASSUME NEW e \in Events, VerifyEmail(e) PROVE ConfirmsWorkingLink
  BY <1>1, InvalidatedStates DEF VerifyEmail, Valid, ConfirmsWorkingLink
<1>2. ASSUME NEW e \in Events, ChangeEmail(e) PROVE ConfirmsWorkingLink
  <2>1. PICK L : token' = Invalidated({e} \cup L)
    BY <1>2 DEF ChangeEmail
  <2>2. e \in Published /\ token[e].state = "active" /\ Confirmed(e)
        /\ event[e].purpose = "email_change"
    BY <1>2 DEF ChangeEmail, Valid
  <2>3. token'[e].state = "used"
    BY <2>1, <2>2, InvalidatedStates
  <2> QED
    BY <2>2, <2>3 DEF ConfirmsWorkingLink
<1>3. ASSUME NEW r \in Requests, SetPasswordByLink(r) PROVE ConfirmsWorkingLink
  <2> DEFINE e == request[r].link
             u == Holder[event[e].email]
  <2>1. Valid(e) /\ event[e].purpose \in Credentials
        /\ (event[e].purpose = "invite" => u \in invited)
        /\ token' = Invalidated(PasswordLinks(u)) /\ Confirmed(e)
    BY <1>3 DEF SetPasswordByLink, SetPassword, Redeemable
  <2> HIDE DEF e
  <2>2. e \in Published /\ token[e].state = "active" /\ event[e].email \in Emails
    BY <2>1, PublishedType DEF Valid
  <2>3. e \in PasswordLinks(u) /\ e \in Events
    BY <2>1, <2>2 DEF PasswordLinks, LinksTo, RowsOf, Published
  <2> QED
    BY <2>1, <2>2, <2>3, InvalidatedStates DEF ConfirmsWorkingLink
<1>4. CASE UNCHANGED vars
  BY <1>4 DEF vars, ghosts
<1> QED
  BY <1>1, <1>2, <1>3, <1>4
     DEF Next, RequestReset, RequestVerification, ResendInvitation, SetVerified, Issue, Renew,
         Preview, BeginPasswordChange, ChangePassword, Abandon, ReplaceUnverified,
         ProposeEmail, Deactivate, Reactivate, RevokeSessions, Tick, ghosts

-----------------------------------------------------------------------------
(* The inductive invariant.                                                *)

\* The initial state satisfies the invariant.
LEMMA InitLinks == Init => LinkInv
<1> SUFFICES ASSUME Init PROVE LinkInv
  OBVIOUS
<1>1. Published = {}
  BY DEF Init, Published
<1>2. \A e \in Events : token[e] = NoToken /\ NoToken.state = "none" /\ uses[e] = 0
  BY DEF Init, NoToken
<1>3. outdated = {} /\ \A u \in Users : password[u] = 0 /\ invalidBefore[u] = 0
  BY DEF Init
<1>4. now = 1
  BY DEF Init
<1> QED
  BY <1>1, <1>2, <1>3, <1>4
     DEF LinkInv, PublishedTokens, ClockInv, NewestLinkWins, WorkingLinksHaveATarget,
         UsesInv, OutdatedInv, ChosenInv

\* Order of publication is total.
LEMMA NewerOrder ==
    ASSUME TypeOK, NEW d \in Published, NEW e \in Published
    PROVE  /\ ~(Newer(d, e) /\ Newer(e, d))
           /\ d # e => Newer(d, e) \/ Newer(e, d)
<1>1. event[d].occurred \in Nat /\ event[e].occurred \in Nat /\ d \in Nat /\ e \in Nat
  <2>1. event[d].occurred \in Time /\ d \in Events
    BY PublishedType
  <2>2. event[e].occurred \in Time /\ e \in Events
    BY PublishedType
  <2> QED
    BY <2>1, <2>2 DEF Time
<1> QED
  BY <1>1 DEF Newer

\* Every step keeps the tokens published ones.
LEMMA NextPublishedTokens ==
    TypeOK /\ PublishedTokens /\ Shape => PublishedTokens'
<1> SUFFICES ASSUME TypeOK, PublishedTokens, Shape, NEW e \in Events, token'[e].state # "none"
             PROVE  e \in Published'
  BY DEF PublishedTokens
<1>1. CASE TokensDie
  BY <1>1 DEF TokensDie, PublishedTokens, Shape, KeepsEvents
<1>2. ASSUME NEW x \in Events, Issue(x) PROVE e \in Published'
  BY <1>2, IssuedStates DEF Issue, PublishedTokens, Shape, KeepsEvents
<1>3. ASSUME NEW x \in Events, Renew(x) PROVE e \in Published'
  BY <1>3 DEF Renew, PublishedTokens, Shape, KeepsEvents, TypeOK
<1> QED
  BY <1>1, <1>2, <1>3 DEF Shape

\* Every step keeps the order of the clocks.
LEMMA NextClock ==
    TypeOK /\ TypeOK' /\ ClockInv /\ Shape => ClockInv'
<1> SUFFICES ASSUME TypeOK, TypeOK', ClockInv, Shape PROVE ClockInv'
  OBVIOUS
<1>1. ASSUME NEW e \in Published' PROVE event'[e].occurred <= now'
  <2>1. now \in Int /\ now' \in Int /\ now <= now'
    BY DEF TypeOK, Time, Shape, ClocksAdvance
  <2>2. CASE e \in Published
    BY <2>1, <2>2, PublishedType DEF ClockInv, Shape, KeepsEvents, Time
  <2> QED
    BY <2>1, <2>2 DEF Shape, KeepsEvents
<1> QED
  BY <1>1 DEF ClockInv, Shape, ClocksAdvance

\* Every step leaves the newest link of an address the only one that can work.
LEMMA NextNewest ==
    TypeOK /\ TypeOK' /\ PublishedTokens /\ NewestLinkWins /\ Shape => NewestLinkWins'
<1> SUFFICES ASSUME TypeOK, TypeOK', PublishedTokens, NewestLinkWins, Shape,
                    NEW d \in Published', NEW e \in Published',
                    SameTarget(d, e)', Newer(d, e)', token'[d].state # "none",
                    token'[e].state = "active"
             PROVE  FALSE
  BY DEF NewestLinkWins
<1>1. d \in Events /\ e \in Events
  BY DEF Published
<1>2. ASSUME d \in Published, e \in Published PROVE SameTarget(d, e) /\ Newer(d, e)
  BY <1>2 DEF SameTarget, Newer, Shape, KeepsEvents
<1>3. CASE TokensDie
  <2>1. token[d].state # "none" /\ token[e].state = "active"
    BY <1>1, <1>3 DEF TokensDie
  <2> QED
    BY <1>1, <1>2, <2>1 DEF PublishedTokens, NewestLinkWins
<1>4. ASSUME NEW x \in Events, Issue(x) PROVE FALSE
  <2>1. Published' = Published /\ x \in Published /\ ~Superseded(x)
    BY <1>4 DEF Issue, Published
  <2>2. \A y \in Events \ {x} : token'[y].state =
           IF y \in {z \in Published : SameTarget(z, x)} /\ token[y].state = "active"
             THEN "used" ELSE token[y].state
    BY <1>4, <2>1, IssuedStates DEF Issue
  <2>3. SameTarget(d, e) /\ Newer(d, e)
    BY <1>2, <2>1
  <2>4. d # e
    BY <2>1, <2>3, NewerOrder
  <2>5. CASE e = x
    BY <1>1, <2>1, <2>2, <2>3, <2>4, <2>5 DEF Superseded
  <2>6. CASE d = x
    <3>1. SameTarget(e, x)
      BY <2>3, <2>6 DEF SameTarget
    <3> QED
      BY <1>1, <2>1, <2>2, <2>4, <2>6, <3>1
  <2>7. CASE d # x /\ e # x
    BY <1>1, <2>1, <2>2, <2>3, <2>7 DEF NewestLinkWins
  <2> QED
    BY <2>5, <2>6, <2>7
<1>5. ASSUME NEW x \in Events, Renew(x) PROVE FALSE
  <2>1. Published' = Published /\ Granted(x).state = "active" /\ token[x].state = "active"
    BY <1>5, GrantedState DEF Renew, Published
  <2>2. \A y \in Events : token'[y].state = token[y].state
    BY <1>5, <2>1 DEF Renew, TypeOK
  <2> QED
    BY <1>1, <1>2, <2>1, <2>2 DEF NewestLinkWins
<1> QED
  BY <1>3, <1>4, <1>5 DEF Shape

\* Every step keeps the account of the uses.
LEMMA NextUses ==
    TypeOK /\ TypeOK' /\ UsesInv /\ Shape /\ (uses' = uses \/ ConfirmsWorkingLink) => UsesInv'
<1> SUFFICES ASSUME TypeOK, TypeOK', UsesInv, Shape, uses' = uses \/ ConfirmsWorkingLink,
                    NEW e \in Events
             PROVE  uses'[e] <= 1 /\ (token'[e].state # "used" => uses'[e] = 0)
  BY DEF UsesInv
<1>1. token[e].state = "used" => token'[e].state = "used"
  <2>1. CASE TokensDie
    BY <2>1 DEF TokensDie
  <2>2. ASSUME NEW x \in Events, Issue(x), token[e].state = "used"
        PROVE  token'[e].state = "used"
    BY <2>2, IssuedStates DEF Issue
  <2>3. ASSUME NEW x \in Events, Renew(x), token[e].state = "used"
        PROVE  token'[e].state = "used"
    BY <2>3 DEF Renew, TypeOK
  <2> QED
    BY <2>1, <2>2, <2>3 DEF Shape
<1>2. CASE uses' = uses
  BY <1>1, <1>2 DEF UsesInv
<1>3. CASE ConfirmsWorkingLink
  <2>1. PICK x \in Published : Confirmed(x) /\ token[x].state = "active"
                               /\ token'[x].state = "used"
    BY <1>3 DEF ConfirmsWorkingLink
  <2>2. x \in Events /\ uses[x] = 0
    BY <2>1 DEF UsesInv, Published
  <2> QED
    BY <1>1, <2>1, <2>2 DEF UsesInv, Confirmed, TypeOK
<1> QED
  BY <1>2, <1>3

\* Links that go on working keep their address and its user as they were.
TargetsKept ==
    \A e \in Published :
        token[e].state = "active" /\ token'[e].state = "active" =>
           /\ status'[event[e].email] = status[event[e].email]
           /\ Holder[event[e].email] \in active => Holder[event[e].email] \in active'

\* What a step does to the row a working link is for.
LEMMA Targets ==
    TypeOK /\ NewestLinkWins /\ WorkingLinksHaveATarget /\ [Next]_vars => TargetsKept
<1> SUFFICES ASSUME TypeOK, NewestLinkWins, WorkingLinksHaveATarget, [Next]_vars
             PROVE  TargetsKept
  OBVIOUS
<1>1. ASSUME UNCHANGED <<status, active>> PROVE TargetsKept
  BY <1>1 DEF TargetsKept
<1>2. ASSUME NEW M, NEW e \in LinksTo(M), NEW L, LinksTo(M) \subseteq L,
             token' = Invalidated(L)
      PROVE  token'[e].state # "active"
  BY <1>2, InvalidatedStates DEF LinksTo, Published
<1>3. ASSUME NEW x \in Events, ChangeEmail(x) PROVE TargetsKept
  <2> DEFINE m == event[x].email
             replaced == {y \in RowsOf(Holder[m]) : status[y] = "current"}
  <2>1. /\ x \in Published /\ token[x].state = "active" /\ active' = active
        /\ event[x].purpose = "email_change" /\ OnTarget(x)
        /\ Replaces(replaced, m) /\ token' = Invalidated({x} \cup LinksTo(replaced))
    BY <1>3 DEF ChangeEmail, Valid
  <2>2. m \in Emails /\ status[m] = "pending"
    BY <2>1, PublishedType DEF OnTarget, TargetStatus
  <2>3. token'[x].state = "used"
    <3>1. PICK L : token' = Invalidated({x} \cup L)
      BY <2>1
    <3>2. token[x].state = "active" /\ x \in Events
      BY <2>1
    <3> QED
      BY <3>1, <3>2, InvalidatedStates
  <2>4. ASSUME NEW e \in Published, token[e].state = "active", token'[e].state = "active"
        PROVE  event[e].email \notin replaced /\ event[e].email # m
    <3>1. event[e].email \notin replaced
      BY <1>2, <2>1, <2>4 DEF LinksTo
    <3>2. ASSUME event[e].email = m PROVE FALSE
      <4>1. event[e].purpose = "email_change"
        BY <2>2, <2>4, <3>2 DEF WorkingLinksHaveATarget, OnTarget, TargetStatus
      <4>2. SameTarget(e, x) /\ SameTarget(x, e) /\ e # x
        BY <2>1, <2>3, <2>4, <3>2, <4>1 DEF SameTarget
      <4>3. Newer(e, x) \/ Newer(x, e)
        BY <2>1, <4>2, NewerOrder
      <4> QED
        BY <2>1, <2>4, <4>2, <4>3 DEF NewestLinkWins
    <3> QED
      BY <3>1, <3>2
  <2>5. ASSUME NEW e \in Published, token[e].state = "active", token'[e].state = "active"
        PROVE  status'[event[e].email] = status[event[e].email]
    <3>1. event[e].email \in Emails
      BY PublishedType
    <3> HIDE DEF m, replaced
    <3> QED
      BY <2>1, <2>4, <2>5, <3>1 DEF Replaces
  <2> QED
    BY <2>1, <2>5 DEF TargetsKept
<1>4. ASSUME NEW m \in Emails, NEW fresh \in Emails, ReplaceUnverified(m, fresh)
      PROVE  TargetsKept
  <2> DEFINE replaced == {y \in RowsOf(Holder[m]) : status[y] \in {"current", "pending"}}
  <2>1. /\ status[fresh] = "absent" /\ active' = active
        /\ Replaces(replaced, fresh) /\ token' = Invalidated(LinksTo(replaced))
    BY <1>4 DEF ReplaceUnverified
  <2>2. ASSUME NEW e \in Published, token[e].state = "active", token'[e].state = "active"
        PROVE  status'[event[e].email] = status[event[e].email]
    <3>1. event[e].email \in Emails /\ status[event[e].email] # "absent"
      BY <2>2, PublishedType DEF WorkingLinksHaveATarget, OnTarget, TargetStatus
    <3>2. event[e].email \notin replaced
      BY <1>2, <2>1, <2>2 DEF LinksTo
    <3> HIDE DEF replaced
    <3> QED
      BY <2>1, <3>1, <3>2 DEF Replaces
  <2> QED
    BY <2>1, <2>2 DEF TargetsKept
<1>5. ASSUME NEW m \in Emails, NEW fresh \in Emails, ProposeEmail(m, fresh)
      PROVE  TargetsKept
  <2> DEFINE replaced == {y \in RowsOf(Holder[m]) : status[y] = "pending"}
  <2>1. /\ status[fresh] = "absent" /\ active' = active
        /\ status' = [x \in Emails |-> IF x = fresh THEN "pending"
                                       ELSE IF x \in replaced THEN "retired" ELSE status[x]]
        /\ token' = Invalidated(LinksTo(replaced))
    BY <1>5 DEF ProposeEmail
  <2>2. ASSUME NEW e \in Published, token[e].state = "active", token'[e].state = "active"
        PROVE  status'[event[e].email] = status[event[e].email]
    <3>1. event[e].email \in Emails /\ status[event[e].email] # "absent"
      BY <2>2, PublishedType DEF WorkingLinksHaveATarget, OnTarget, TargetStatus
    <3>2. event[e].email \notin replaced
      BY <1>2, <2>1, <2>2 DEF LinksTo
    <3> HIDE DEF replaced
    <3> QED
      BY <2>1, <3>1, <3>2
  <2> QED
    BY <2>1, <2>2 DEF TargetsKept
<1>6. ASSUME NEW u \in Users, Deactivate(u) PROVE TargetsKept
  <2>1. status' = status /\ active' = active \ {u}
        /\ token' = Invalidated(LinksTo(RowsOf(u)))
    BY <1>6 DEF Deactivate
  <2>2. ASSUME NEW e \in Published, token'[e].state = "active"
        PROVE  Holder[event[e].email] # u
    <3>1. event[e].email \in Emails
      BY PublishedType
    <3>2. e \notin LinksTo(RowsOf(u))
      BY <1>2, <2>1, <2>2
    <3> QED
      BY <3>1, <3>2 DEF LinksTo, RowsOf
  <2> QED
    BY <2>1, <2>2 DEF TargetsKept
<1>7. ASSUME NEW u \in Users, Reactivate(u) PROVE TargetsKept
  BY <1>7 DEF Reactivate, TargetsKept
<1>8. CASE UNCHANGED vars
  BY <1>1, <1>8 DEF vars, account
<1> QED
  BY <1>1, <1>3, <1>4, <1>5, <1>6, <1>7, <1>8
     DEF Next, RequestReset, RequestVerification, ResendInvitation, SetVerified, Issue, Renew,
         VerifyEmail, Preview, BeginPasswordChange, SetPasswordByLink, ChangePassword, Abandon,
         RevokeSessions, Tick, account

\* Every step leaves each working link a row in the state it is for.
LEMMA NextTargets ==
    TypeOK /\ TypeOK' /\ PublishedTokens /\ WorkingLinksHaveATarget /\ Shape /\ TargetsKept
    => WorkingLinksHaveATarget'
<1> SUFFICES ASSUME TypeOK, TypeOK', PublishedTokens, WorkingLinksHaveATarget, Shape,
                    TargetsKept, NEW e \in Published', token'[e].state = "active"
             PROVE  OnTarget(e)'
  BY DEF WorkingLinksHaveATarget
<1>1. e \in Events
  BY DEF Published
<1>2. ASSUME token[e].state = "active" PROVE OnTarget(e)'
  BY <1>1, <1>2
     DEF PublishedTokens, WorkingLinksHaveATarget, OnTarget, TargetStatus, TargetsKept, Shape,
         KeepsEvents
<1>3. CASE TokensDie
  BY <1>1, <1>2, <1>3 DEF TokensDie
<1>4. ASSUME NEW x \in Events, Issue(x) PROVE OnTarget(e)'
  <2>1. CASE e = x
    BY <1>4, <2>1 DEF Issue, account, Actionable, OnTarget, TargetStatus
  <2>2. CASE e # x
    BY <1>1, <1>2, <1>4, <2>2, IssuedStates DEF Issue
  <2> QED
    BY <2>1, <2>2
<1>5. ASSUME NEW x \in Events, Renew(x) PROVE OnTarget(e)'
  BY <1>1, <1>2, <1>5 DEF Renew, TypeOK
<1> QED
  BY <1>3, <1>4, <1>5 DEF Shape

\* A link that becomes outdated is used up, or can never be built.
NewlyOutdated ==
    \A e \in outdated' \ outdated : /\ token'[e].state # "active"
                                    /\ token'[e].state = "none" => Barred(e)'

\* The links a step outdates are those it names.
LEMMA Outdated == TypeOK /\ ClockInv /\ [Next]_vars => NewlyOutdated
<1> SUFFICES ASSUME TypeOK, ClockInv, [Next]_vars PROVE NewlyOutdated
  OBVIOUS
<1>1. ASSUME outdated' = outdated PROVE NewlyOutdated
  BY <1>1 DEF NewlyOutdated
<1>2. ASSUME NEW L, token' = Invalidated(L), NEW e \in L, e \in Events
      PROVE  token'[e].state # "active"
  BY <1>2, InvalidatedStates
<1>3. ASSUME NEW u \in Users, NEW e \in PasswordLinks(u), Revoke(u), now' = now,
             event' = event
      PROVE  Barred(e)' /\ e \in Events
  <2>1. e \in Published /\ event[e].email \in Emails /\ Holder[event[e].email] = u
        /\ event[e].purpose \in Credentials
    BY <1>3, PublishedType DEF PasswordLinks, LinksTo, RowsOf
  <2>2. event[e].occurred <= now /\ invalidBefore'[u] = now
    BY <1>3, <2>1 DEF ClockInv, Revoke, TypeOK
  <2> QED
    BY <1>3, <2>1, <2>2 DEF Barred, Published
<1>4. ASSUME NEW u \in Users, SetPassword(u), UNCHANGED <<event, now>> PROVE NewlyOutdated
  <2>1. ASSUME NEW e \in outdated' \ outdated
        PROVE  token'[e].state # "active" /\ Barred(e)'
    <3>1. e \in PasswordLinks(u) /\ token' = Invalidated(PasswordLinks(u)) /\ Revoke(u)
      BY <1>4, <2>1 DEF SetPassword
    <3> QED
      BY <1>2, <1>3, <1>4, <3>1
  <2> QED
    BY <2>1 DEF NewlyOutdated
<1>5. ASSUME NEW R \in SUBSET Emails, NEW L, token' = Invalidated(L), LinksTo(R) \subseteq L,
             outdated' = outdated \cup LinksTo(R), \A x \in R : status'[x] = "retired",
             \A e \in Published : event'[e] = event[e]
      PROVE  NewlyOutdated
  <2>1. ASSUME NEW e \in outdated' \ outdated
        PROVE  token'[e].state # "active" /\ Barred(e)'
    <3>1. e \in LinksTo(R) /\ e \in Published /\ event[e].email \in R /\ e \in Events
      BY <1>5, <2>1 DEF LinksTo, Published
    <3> QED
      BY <1>2, <1>5, <3>1 DEF Barred
  <2> QED
    BY <2>1 DEF NewlyOutdated
<1>6. ASSUME NEW x \in Events, ChangeEmail(x) PROVE NewlyOutdated
  <2> DEFINE m == event[x].email
             replaced == {y \in RowsOf(Holder[m]) : status[y] = "current"}
  <2>1. /\ Replaces(replaced, m) /\ token' = Invalidated({x} \cup LinksTo(replaced))
        /\ outdated' = outdated \cup LinksTo(replaced) /\ event' = event
    BY <1>6 DEF ChangeEmail
  <2>2. m \notin replaced /\ replaced \in SUBSET Emails
    BY <1>6 DEF ChangeEmail, OnTarget, TargetStatus, RowsOf
  <2> HIDE DEF m, replaced
  <2>3. \A y \in replaced : status'[y] = "retired"
    BY <2>1, <2>2 DEF Replaces
  <2> QED
    BY <1>5, <2>1, <2>2, <2>3
<1>7. ASSUME NEW m \in Emails, NEW fresh \in Emails, ReplaceUnverified(m, fresh)
      PROVE  NewlyOutdated
  <2> DEFINE replaced == {y \in RowsOf(Holder[m]) : status[y] \in {"current", "pending"}}
  <2>1. /\ Replaces(replaced, fresh) /\ token' = Invalidated(LinksTo(replaced))
        /\ outdated' = outdated \cup LinksTo(replaced)
        /\ event' = event \/ Publish("invite", fresh)
    BY <1>7 DEF ReplaceUnverified
  <2>2. fresh \notin replaced /\ replaced \in SUBSET Emails
    BY <1>7 DEF ReplaceUnverified, RowsOf
  <2>3. \A e \in Published : event'[e] = event[e]
    BY <2>1, PublishStates DEF Purposes, Credentials, Published
  <2> HIDE DEF replaced
  <2>4. \A y \in replaced : status'[y] = "retired"
    BY <2>1, <2>2 DEF Replaces
  <2> QED
    BY <1>5, <2>1, <2>2, <2>3, <2>4
<1>8. ASSUME NEW m \in Emails, NEW fresh \in Emails, ProposeEmail(m, fresh)
      PROVE  NewlyOutdated
  <2> DEFINE replaced == {y \in RowsOf(Holder[m]) : status[y] = "pending"}
  <2>1. /\ status' = [x \in Emails |-> IF x = fresh THEN "pending"
                                       ELSE IF x \in replaced THEN "retired" ELSE status[x]]
        /\ token' = Invalidated(LinksTo(replaced))
        /\ outdated' = outdated \cup LinksTo(replaced) /\ Publish("email_change", fresh)
    BY <1>8 DEF ProposeEmail
  <2>2. fresh \notin replaced /\ replaced \in SUBSET Emails
    BY <1>8 DEF ProposeEmail, RowsOf
  <2>3. \A e \in Published : event'[e] = event[e]
    BY <2>1, PublishStates DEF Purposes, Credentials, Published
  <2> HIDE DEF replaced
  <2>4. \A y \in replaced : status'[y] = "retired"
    BY <2>1, <2>2
  <2> QED
    BY <1>5, <2>1, <2>2, <2>3, <2>4
<1>9. ASSUME NEW u \in Users, Deactivate(u) PROVE NewlyOutdated
  <2>1. /\ token' = Invalidated(LinksTo(RowsOf(u))) /\ Revoke(u)
        /\ outdated' = outdated \cup PasswordLinks(u)
                         \cup {e \in LinksTo(RowsOf(u)) : token[e].state # "none"}
        /\ now' = now /\ event' = event
    BY <1>9 DEF Deactivate
  <2>2. ASSUME NEW e \in outdated' \ outdated
        PROVE  /\ token'[e].state # "active"
               /\ token'[e].state = "none" => Barred(e)'
    <3>1. e \in LinksTo(RowsOf(u)) /\ e \in Events
      BY <2>1, <2>2 DEF PasswordLinks, LinksTo, Published
    <3>2. token'[e].state # "active"
      BY <1>2, <2>1, <3>1
    <3>3. CASE e \in PasswordLinks(u)
      BY <1>3, <2>1, <3>2, <3>3
    <3>4. CASE token[e].state # "none"
      BY <2>1, <3>1, <3>2, <3>4, InvalidatedStates
    <3> QED
      BY <2>1, <2>2, <3>3, <3>4
  <2> QED
    BY <2>2 DEF NewlyOutdated
<1>10. ASSUME NEW r \in Requests, SetPasswordByLink(r) PROVE NewlyOutdated
  <2>1. Holder[event[request[r].link].email] \in Users
    BY <1>10, PublishedType DEF SetPasswordByLink, Redeemable, Valid
  <2> QED
    BY <1>4, <1>10, <2>1 DEF SetPasswordByLink
<1>11. ASSUME NEW r \in Requests, ChangePassword(r) PROVE NewlyOutdated
  <2>1. request[r].user \in Users
    BY <1>11 DEF ChangePassword, TypeOK, Unchanged
  <2> QED
    BY <1>4, <1>11, <2>1 DEF ChangePassword
<1>12. CASE UNCHANGED vars
  BY <1>1, <1>12 DEF vars, ghosts
<1> QED
  BY <1>1, <1>6, <1>7, <1>8, <1>9, <1>10, <1>11, <1>12
     DEF Next, RequestReset, RequestVerification, ResendInvitation, SetVerified, Issue, Renew,
         VerifyEmail, Preview, BeginPasswordChange, Abandon, Reactivate, RevokeSessions, Tick,
         ghosts

\* Every step keeps outdated links barred.
LEMMA NextOutdated ==
    TypeOK /\ TypeOK' /\ OutdatedInv /\ Shape /\ NewlyOutdated => OutdatedInv'
<1> SUFFICES ASSUME TypeOK, TypeOK', OutdatedInv, Shape, NewlyOutdated, NEW e \in outdated'
             PROVE  /\ token'[e].state # "active"
                    /\ token'[e].state = "none" => Barred(e)'
  BY DEF OutdatedInv
<1>1. CASE e \notin outdated
  BY <1>1 DEF NewlyOutdated
<1>2. CASE e \in outdated
  <2>1. e \in Published /\ e \in Events /\ event[e].email \in Emails /\ event'[e] = event[e]
        /\ event[e].occurred \in Time
    BY <1>2, PublishedType DEF TypeOK, Published, Shape, KeepsEvents
  <2>2. Barred(e) => Barred(e)'
    <3>1. status[event[e].email] = "retired" => status'[event[e].email] = "retired"
      BY <2>1 DEF Shape, RetiredStays
    <3>2. LET u == Holder[event[e].email]
          IN  event[e].occurred <= invalidBefore[u] => event[e].occurred <= invalidBefore'[u]
      <4>1. Holder[event[e].email] \in Users
        BY <2>1
      <4>2. \A u \in Users : /\ invalidBefore[u] \in Int /\ invalidBefore'[u] \in Int
                             /\ invalidBefore[u] <= invalidBefore'[u]
        BY DEF TypeOK, Time, Shape, ClocksAdvance
      <4> QED
        BY <2>1, <4>1, <4>2 DEF Time
    <3> QED
      BY <2>1, <3>1, <3>2 DEF Barred
  <2>3. token[e].state # "active" /\ (token[e].state = "none" => Barred(e))
    BY <1>2 DEF OutdatedInv
  <2>4. CASE TokensDie
    BY <2>1, <2>2, <2>3, <2>4 DEF TokensDie
  <2>5. ASSUME NEW x \in Events, Issue(x)
        PROVE  token'[e].state # "active" /\ (token'[e].state = "none" => Barred(e)')
    <3>1. e # x
      <4>1. CASE e = x
        <5>1. token[x].state = "none" /\ Actionable(x) /\ Barred(x)
          BY <2>3, <2>5, <4>1 DEF Issue
        <5>2. \A u \in Users : invalidBefore[u] \in Int
          BY DEF TypeOK, Time
        <5>3. event[x].occurred \in Int /\ Holder[event[x].email] \in Users
          BY <2>1, <4>1 DEF Time
        <5> QED
          BY <5>1, <5>2, <5>3 DEF Actionable, Barred, TargetStatus
      <4> QED
        BY <4>1
    <3> QED
      BY <2>1, <2>2, <2>3, <2>5, <3>1, IssuedStates DEF Issue
  <2>6. ASSUME NEW x \in Events, Renew(x)
        PROVE  token'[e].state # "active" /\ (token'[e].state = "none" => Barred(e)')
    BY <2>1, <2>2, <2>3, <2>6 DEF Renew, TypeOK
  <2> QED
    BY <2>4, <2>5, <2>6 DEF Shape
<1> QED
  BY <1>1, <1>2

\* Every step keeps the account of first passwords.
LEMMA NextChosen == TypeOK /\ ChosenInv /\ [Next]_vars => ChosenInv'
<1> SUFFICES ASSUME TypeOK, ChosenInv, [Next]_vars PROVE ChosenInv'
  OBVIOUS
<1>1. ASSUME UNCHANGED <<password, invited>> PROVE ChosenInv'
  BY <1>1 DEF ChosenInv
<1>2. ASSUME NEW u, SetPassword(u) PROVE ChosenInv'
  BY <1>2 DEF SetPassword, ChosenInv, TypeOK
<1>3. ASSUME NEW r \in Requests, SetPasswordByLink(r) \/ ChangePassword(r) PROVE ChosenInv'
  BY <1>2, <1>3 DEF SetPasswordByLink, ChangePassword
<1>4. CASE UNCHANGED vars
  BY <1>1, <1>4 DEF vars, account
<1> QED
  BY <1>1, <1>3, <1>4
     DEF Next, RequestReset, RequestVerification, ResendInvitation, SetVerified, Issue, Renew,
         VerifyEmail, ChangeEmail, Preview, BeginPasswordChange, Abandon, ReplaceUnverified,
         ProposeEmail, Deactivate, Reactivate, RevokeSessions, Tick, account

IInv == TypeOK /\ LinkInv

\* Every step keeps the invariant.
LEMMA NextIInv == IInv /\ [Next]_vars => IInv'
<1> SUFFICES ASSUME IInv, [Next]_vars PROVE IInv'
  OBVIOUS
<1>1. TypeOK' /\ Shape
  BY NextTypes, Shapes DEF IInv, LinkInv
<1>2. PublishedTokens' /\ ClockInv' /\ NewestLinkWins'
  BY <1>1, NextPublishedTokens, NextClock, NextNewest DEF IInv, LinkInv
<1>3. WorkingLinksHaveATarget'
  BY <1>1, Targets, NextTargets DEF IInv, LinkInv
<1>4. UsesInv' /\ OutdatedInv' /\ ChosenInv'
  BY <1>1, Confirmations, NextUses, Outdated, NextOutdated, NextChosen DEF IInv, LinkInv
<1> QED
  BY <1>1, <1>2, <1>3, <1>4 DEF IInv, LinkInv

-----------------------------------------------------------------------------
(* Theorems.                                                               *)

\* The inductive invariant: newest links, working links' targets, what was used and what
\* can never be used again, and closed invitations, beside the types of all variables.
THEOREM IInvHolds == Spec => []IInv
<1>1. Init => IInv
  BY InitTypes, InitLinks DEF IInv
<1> QED
  BY <1>1, NextIInv, PTL DEF Spec

\* Every variable keeps its type, and a user has one current address and at most one
\* pending, unverified one, through every replacement and promotion.
THEOREM TypeCorrect == Spec => []TypeOK
  BY IInvHolds, PTL DEF IInv

\* Whatever the order in which dispatchers build the events of one address and purpose,
\* only the newest link that was mailed can work.
THEOREM NewestWins == Spec => []NewestLinkWins
  BY IInvHolds, PTL DEF IInv, LinkInv

\* A link works only while its address is in the state its purpose needs and its user is
\* active: replacing, promoting and deactivating never leave a working link behind.
THEOREM TargetsMatch == Spec => []WorkingLinksHaveATarget
  BY IInvHolds, PTL DEF IInv, LinkInv

\* However many requests hold a link, one confirmation of it commits.
THEOREM SingleUse == Spec => []LinksWorkOnce
<1>1. IInv => LinksWorkOnce
  BY DEF IInv, LinkInv, UsesInv, LinksWorkOnce
<1> QED
  BY <1>1, IInvHolds, PTL

\* A link that was confirmed, or that a password change, a deactivation or a new address
\* should have killed, is never confirmed again, however many requests hold it and also
\* if its event is built, or built again, afterwards.
THEOREM SpentStayDead == Spec => SpentLinksStayDead
<1>1. IInv /\ [Next]_vars =>
        [\A e \in Events : e \in outdated \/ uses[e] > 0 => uses'[e] = uses[e]]_vars
  <2> SUFFICES ASSUME IInv, [Next]_vars, NEW e \in Events, e \in outdated \/ uses[e] > 0
               PROVE  uses'[e] = uses[e]
    OBVIOUS
  <2>1. token[e].state # "active"
    BY DEF IInv, LinkInv, OutdatedInv, UsesInv
  <2> QED
    BY <2>1, Confirmations DEF IInv, ConfirmsWorkingLink, Confirmed, TypeOK
<1> QED
  BY <1>1, IInvHolds, PTL DEF Spec, SpentLinksStayDead

\* An invitation never replaces a password its user chose, by whatever way.
THEOREM InvitationsAreFirst == Spec => InvitationsOnlySetFirstPasswords
<1> DEFINE A == \A e \in Published :
                   event[e].purpose = "invite" /\ uses'[e] # uses[e] =>
                      password[Holder[event[e].email]] = 0
<1>1. IInv /\ [Next]_vars => [A]_vars
  <2> SUFFICES ASSUME IInv, [Next]_vars, NEW e \in Published,
                      event[e].purpose = "invite", uses'[e] # uses[e]
               PROVE  password[Holder[event[e].email]] = 0
    OBVIOUS
  <2>1. Holder[event[e].email] \in Users /\ e \in Events
    BY PublishedType DEF IInv
  <2>2. Holder[event[e].email] \in invited
    BY <2>1, Confirmations DEF IInv, ConfirmsWorkingLink, Confirmed, TypeOK
  <2> QED
    BY <2>1, <2>2 DEF IInv, LinkInv, ChosenInv
<1> QED
  BY <1>1, IInvHolds, PTL DEF Spec, InvitationsOnlySetFirstPasswords

\* Of two password changes that start from one password only one commits.
THEOREM NoLostChange == Spec => NoLostPasswordChange
<1> DEFINE A == \A r \in Requests :
                   request[r].pc = "change" /\ request'[r] = Idle /\ password' # password =>
                      request[r].seen = password[request[r].user]
<1>1. IInv /\ [Next]_vars => [A]_vars
  <2> SUFFICES ASSUME IInv, [Next]_vars, NEW r \in Requests, request[r].pc = "change",
                      request'[r] = Idle, password' # password
               PROVE  request[r].seen = password[request[r].user]
    OBVIOUS
  <2>1. request[r] # Idle
    BY DEF Idle
  <2>2. ASSUME NEW q \in Requests, SetPasswordByLink(q) PROVE FALSE
    BY <2>1, <2>2 DEF SetPasswordByLink, IInv, TypeOK
  <2>3. ASSUME NEW q \in Requests, ChangePassword(q)
        PROVE  request[r].seen = password[request[r].user]
    BY <2>1, <2>3 DEF ChangePassword, Unchanged, IInv, TypeOK
  <2> QED
    BY <2>2, <2>3
       DEF Next, RequestReset, RequestVerification, ResendInvitation, SetVerified, Issue,
           Renew, VerifyEmail, ChangeEmail, Preview, BeginPasswordChange, Abandon,
           ReplaceUnverified, ProposeEmail, Deactivate, Reactivate, RevokeSessions, Tick,
           vars, account
<1> QED
  BY <1>1, IInvHolds, PTL DEF Spec, NoLostPasswordChange
-----------------------------------------------------------------------------
(* Links implement what IdentityLinks promises.                            *)

\* The phase of a link before and after a step, and its subject.
LEMMA PhaseIs ==
    ASSUME NEW e \in Events
    PROVE  /\ Phase[e] = IF e \notin Published THEN "none"
                         ELSE IF uses[e] = 1 THEN "confirmed"
                         ELSE IF e \in outdated \/ token[e].state = "used" THEN "void"
                         ELSE IF token[e].state = "active" THEN "live" ELSE "requested"
           /\ Phase'[e] = IF e \notin Published' THEN "none"
                          ELSE IF uses'[e] = 1 THEN "confirmed"
                          ELSE IF e \in outdated' \/ token'[e].state = "used" THEN "void"
                          ELSE IF token'[e].state = "active" THEN "live" ELSE "requested"
  BY DEF Phase

LEMMA SubjectIs ==
    ASSUME NEW e \in Events
    PROVE  /\ e \notin Published => Subject[e] = None
           /\ e \in Published => Subject[e] =
                 [purpose |-> event[e].purpose, email |-> event[e].email]
           /\ e \notin Published' => Subject'[e] = None
           /\ e \in Published' => Subject'[e] =
                 [purpose |-> event'[e].purpose, email |-> event'[e].email]
  BY DEF Subject

\* The open links, those that have a phase of their own to lose.
IsOpen(e) == e \in Published /\ Phase[e] \in {"requested", "live"}

\* Open links, their owners and the open password links, in terms of the tables.
LEMMA OpenIs ==
    ASSUME TypeOK
    PROVE  /\ \A e : e \in Link!OpenLinks <=> IsOpen(e)
           /\ \A e \in Published : /\ Link!Owner(e) = Holder[event[e].email]
                                   /\ Link!SetsPassword(e) <=> event[e].purpose \in Credentials
           /\ \A u : Link!OpenPasswordLinksOf(u) = {e \in PasswordLinks(u) : IsOpen(e)}
<1>1. \A e : e \in Link!OpenLinks <=> IsOpen(e)
  BY PhaseIs DEF Link!OpenLinks, IsOpen, Published
<1>2. \A e \in Published : /\ Link!Owner(e) = Holder[event[e].email]
                           /\ Link!SetsPassword(e) <=> event[e].purpose \in Credentials
  <2> SUFFICES ASSUME NEW e \in Published
               PROVE  /\ Link!Owner(e) = Holder[event[e].email]
                      /\ Link!SetsPassword(e) <=> event[e].purpose \in Credentials
    OBVIOUS
  <2>1. Subject[e] = [purpose |-> event[e].purpose, email |-> event[e].email]
    BY SubjectIs DEF Published
  <2> QED
    BY <2>1 DEF Link!Owner, Link!SetsPassword
<1>3. ASSUME NEW u, NEW e
      PROVE  e \in Link!OpenPasswordLinksOf(u) <=> e \in PasswordLinks(u) /\ IsOpen(e)
  <2>1. CASE ~IsOpen(e)
    BY <1>1, <2>1 DEF Link!OpenPasswordLinksOf, Link!OpenLinksOf
  <2>2. CASE IsOpen(e)
    <3>1. e \in Published /\ event[e].email \in Emails
      BY <2>2, PublishedType DEF IsOpen
    <3>2. e \in PasswordLinks(u) <=>
            Holder[event[e].email] = u /\ event[e].purpose \in Credentials
      BY <3>1 DEF PasswordLinks, LinksTo, RowsOf
    <3> QED
      BY <1>1, <1>2, <2>2, <3>1, <3>2 DEF Link!OpenPasswordLinksOf, Link!OpenLinksOf
  <2> QED
    BY <2>1, <2>2
<1> QED
  BY <1>1, <1>2, <1>3

\* Apart from x, a step uses up the working tokens of the links in L, which it outdates
\* with others: O, all of them links of u.
Loss(L, O, u, x) ==
    /\ \A e \in Events \ {x} :
          token'[e].state = IF e \in L /\ token[e].state = "active" THEN "used"
                                                                   ELSE token[e].state
    /\ \A e \in Published \ {x} : e \in L /\ token[e].state = "active" => e \in O
    /\ outdated' = outdated \cup O
    /\ O \subseteq Published
    /\ \A e \in O : Holder[event[e].email] = u

Lost(O) == {e \in O : IsOpen(e)}

\* A published link that the step does not confirm is void if the step outdated it.
LEMMA PhaseAfter ==
    ASSUME IInv, NEW L, NEW O, NEW u, NEW x, Loss(L, O, u, x),
           NEW e \in Published \ {x}, e \in Published', event'[e] = event[e],
           uses'[e] = uses[e]
    PROVE  /\ Phase'[e] = IF e \in Lost(O) THEN "void" ELSE Phase[e]
           /\ Subject'[e] = Subject[e]
<1>1. e \in Events /\ token[e].state \in {"none", "active", "used"}
  BY DEF Published, IInv, TypeOK
<1>2. uses[e] \in {0, 1} /\ (token[e].state # "used" => uses[e] = 0)
  <2>1. uses[e] \in Nat
    BY <1>1 DEF IInv, TypeOK
  <2>2. uses[e] <= 1 /\ (token[e].state # "used" => uses[e] = 0)
    BY <1>1 DEF IInv, LinkInv, UsesInv
  <2> QED
    BY <2>1, <2>2
<1>3. Subject'[e] = Subject[e]
  <2>1. e \in Published /\ e \in Published' /\ event'[e] = event[e]
    OBVIOUS
  <2>2. Subject[e] = [purpose |-> event[e].purpose, email |-> event[e].email]
    BY <1>1, <2>1, SubjectIs
  <2>3. Subject'[e] = [purpose |-> event'[e].purpose, email |-> event'[e].email]
    BY <1>1, <2>1, SubjectIs
  <2> QED
    BY <2>1, <2>2, <2>3
<1>4. Phase[e] = IF uses[e] = 1 THEN "confirmed"
                 ELSE IF e \in outdated \/ token[e].state = "used" THEN "void"
                 ELSE IF token[e].state = "active" THEN "live" ELSE "requested"
  BY <1>1, PhaseIs
<1>5. Phase'[e] = IF uses[e] = 1 THEN "confirmed"
                  ELSE IF e \in outdated \cup O \/ token'[e].state = "used" THEN "void"
                  ELSE IF token'[e].state = "active" THEN "live" ELSE "requested"
  BY <1>1, PhaseIs DEF Loss
<1>6. e \in Lost(O) <=> e \in O /\ Phase[e] \in {"requested", "live"}
  BY DEF Lost, IsOpen
<1>7. token'[e].state = (IF e \in L /\ token[e].state = "active" THEN "used"
                                                               ELSE token[e].state)
      /\ (e \in L /\ token[e].state = "active" => e \in O)
  BY <1>1 DEF Loss
<1> HIDE DEF Phase, Lost
<1>8. Phase'[e] = IF e \in Lost(O) THEN "void" ELSE Phase[e]
  BY <1>1, <1>2, <1>4, <1>5, <1>6, <1>7
<1> QED
  BY <1>3, <1>8

\* What is lost belongs to the user it is taken from.
LEMMA LostLinks ==
    ASSUME TypeOK, NEW L, NEW O, NEW u, NEW x, Loss(L, O, u, x)
    PROVE  Lost(O) \subseteq Link!OpenLinksOf(u) /\ Lost(O) \in SUBSET Events
  BY OpenIs DEF Loss, Lost, Link!OpenLinksOf, Published

\* A step that only takes links away voids them.
LEMMA VoidStep ==
    ASSUME IInv, NEW L, NEW O, NEW u \in Users, Loss(L, O, u, None),
           UNCHANGED <<event, uses, password>>
    PROVE  Link!Next
<1>1. Published' = Published
  BY DEF Published
<1>2. \A e \in Published : /\ Phase'[e] = IF e \in Lost(O) THEN "void" ELSE Phase[e]
                           /\ Subject'[e] = Subject[e]
  <2> SUFFICES ASSUME NEW e \in Published
               PROVE  /\ Phase'[e] = IF e \in Lost(O) THEN "void" ELSE Phase[e]
                      /\ Subject'[e] = Subject[e]
    OBVIOUS
  <2>1. None # e /\ e \in Published' /\ event'[e] = event[e] /\ uses'[e] = uses[e]
    BY <1>1 DEF Published
  <2> HIDE DEF Phase, Subject
  <2> QED
    BY <2>1, PhaseAfter
<1>3. \A e \in Events \ Published : Phase'[e] = Phase[e] /\ Subject'[e] = Subject[e]
                                    /\ e \notin Lost(O)
  BY <1>1, PhaseIs, SubjectIs DEF Lost, IsOpen
<1>4. Phase' = Link!Without(Lost(O)) /\ Subject' = Subject
  BY <1>2, <1>3 DEF Link!Without, Phase, Subject, Published
<1>5. Lost(O) \subseteq Link!OpenLinksOf(u) /\ Lost(O) \in SUBSET Events
  BY LostLinks DEF IInv
<1>6. Link!Void(u, Lost(O))
  BY <1>4, <1>5 DEF Link!Void
<1> QED
  BY <1>5, <1>6 DEF Link!Next

\* A step that publishes a link, and takes away links of the same user, requests it.
LEMMA RequestStep ==
    ASSUME IInv, NEW L, NEW O, NEW p \in Purposes, NEW m \in Emails, Publish(p, m),
           Loss(L, O, Holder[m], None), UNCHANGED <<uses, password>>
    PROVE  Link!Next
<1> DEFINE s == [purpose |-> p, email |-> m]
<1>1. PICK x \in Events \ Published :
         /\ event'[x] = [purpose |-> p, email |-> m, occurred |-> now]
         /\ \A d \in Events \ {x} : event'[d] = event[d]
         /\ Published' = Published \cup {x}
  BY PublishStates DEF IInv
<1>2. \A e \in Published : /\ Phase'[e] = IF e \in Lost(O) THEN "void" ELSE Phase[e]
                           /\ Subject'[e] = Subject[e]
  <2> SUFFICES ASSUME NEW e \in Published
               PROVE  /\ Phase'[e] = IF e \in Lost(O) THEN "void" ELSE Phase[e]
                      /\ Subject'[e] = Subject[e]
    OBVIOUS
  <2>1. None # e /\ e \in Published' /\ event'[e] = event[e] /\ uses'[e] = uses[e]
    BY <1>1 DEF Published
  <2> HIDE DEF Phase, Subject
  <2> QED
    BY <2>1, PhaseAfter
<1>3. \A e \in Events \ (Published \cup {x}) :
         Phase'[e] = Phase[e] /\ Subject'[e] = Subject[e] /\ e \notin Lost(O)
  BY <1>1, PhaseIs, SubjectIs DEF Lost, IsOpen
<1>4. Phase[x] = "none" /\ x \notin Lost(O)
  BY <1>1, PhaseIs DEF Lost, IsOpen
<1>5. Phase'[x] = "requested" /\ Subject'[x] = s
  <2>1. token[x].state = "none" /\ uses[x] = 0
    BY <1>1 DEF IInv, TypeOK, LinkInv, PublishedTokens, UsesInv
  <2>2. token'[x].state = "none" /\ uses'[x] = 0
    <3>1. x # None
      BY <1>1
    <3> QED
      BY <1>1, <2>1, <3>1 DEF Loss
  <2>3. x \notin outdated'
    BY <1>1 DEF Loss, IInv, TypeOK
  <2>4. x \in Published'
    BY <1>1
  <2>5. Phase'[x] = "requested"
    BY <1>1, <2>2, <2>3, <2>4, PhaseIs
  <2>6. Subject'[x] = [purpose |-> event'[x].purpose, email |-> event'[x].email]
    BY <1>1, <2>4, SubjectIs
  <2> QED
    BY <1>1, <2>5, <2>6
<1>6. Phase' = [Link!Without(Lost(O)) EXCEPT ![x] = "requested"]
  <2>1. \A e \in Events : Phase'[e] = IF e = x THEN "requested" ELSE Link!Without(Lost(O))[e]
    BY <1>2, <1>3, <1>5 DEF Link!Without
  <2> QED
    BY <2>1 DEF Phase, Link!Without
<1>7. Subject' = [Subject EXCEPT ![x] = s]
  <2>1. \A e \in Events : Subject'[e] = IF e = x THEN s ELSE Subject[e]
    BY <1>2, <1>3, <1>5
  <2> QED
    BY <2>1 DEF Subject
<1>8. Lost(O) \subseteq Link!OpenLinksOf(Holder[m]) /\ Lost(O) \in SUBSET Events
  BY LostLinks DEF IInv
<1>9. s \in Link!Subjects /\ s.email = m
  BY DEF Link!Subjects
<1> HIDE DEF s
<1>10. Link!Request(x, s, Lost(O))
  BY <1>4, <1>6, <1>7, <1>8, <1>9 DEF Link!Request
<1> QED
  BY <1>8, <1>9, <1>10 DEF Link!Next

\* A step that confirms a working link, and takes away links of its user, confirms it.
LEMMA ConfirmStep ==
    ASSUME IInv, NEW L, NEW O, NEW x \in Published, token[x].state = "active", Confirmed(x),
           Loss(L, O, Holder[event[x].email], x), event' = event,
           IF event[x].purpose \in Credentials
             THEN /\ O = PasswordLinks(Holder[event[x].email])
                  /\ password' = [password EXCEPT ![Holder[event[x].email]] = @ + 1]
             ELSE password' = password
    PROVE  Link!Next
<1> DEFINE u == Holder[event[x].email]
           lost == Lost(O) \ {x}
<1>1. Published' = Published /\ x \in Events
  BY DEF Published
<1>2. \A e \in Published \ {x} : /\ Phase'[e] = IF e \in Lost(O) THEN "void" ELSE Phase[e]
                                 /\ Subject'[e] = Subject[e]
  <2> SUFFICES ASSUME NEW e \in Published \ {x}
               PROVE  /\ Phase'[e] = IF e \in Lost(O) THEN "void" ELSE Phase[e]
                      /\ Subject'[e] = Subject[e]
    OBVIOUS
  <2>1. e \in Published' /\ event'[e] = event[e] /\ uses'[e] = uses[e]
    BY <1>1 DEF Published, Confirmed, IInv, TypeOK
  <2> HIDE DEF Phase, Subject
  <2> QED
    BY <2>1, PhaseAfter
<1>3. \A e \in Events \ Published : Phase'[e] = Phase[e] /\ Subject'[e] = Subject[e]
                                    /\ e \notin Lost(O)
  BY <1>1, PhaseIs, SubjectIs DEF Lost, IsOpen
<1>4. uses[x] = 0 /\ x \notin outdated /\ uses'[x] = 1
  BY <1>1 DEF IInv, LinkInv, UsesInv, OutdatedInv, TypeOK, Confirmed
<1>5. Phase[x] = "live" /\ Phase'[x] = "confirmed" /\ Subject'[x] = Subject[x]
  <2>1. Phase[x] = "live"
    BY <1>1, <1>4, PhaseIs
  <2>2. Phase'[x] = "confirmed"
    BY <1>1, <1>4, PhaseIs
  <2>3. Subject'[x] = Subject[x]
    BY <1>1, SubjectIs
  <2> QED
    BY <2>1, <2>2, <2>3
<1>6. Phase' = [Link!Without(lost) EXCEPT ![x] = "confirmed"] /\ Subject' = Subject
  <2>1. \A e \in Events :
           Phase'[e] = IF e = x THEN "confirmed" ELSE Link!Without(lost)[e]
    BY <1>2, <1>3, <1>5 DEF Link!Without
  <2>2. \A e \in Events : Subject'[e] = Subject[e]
    BY <1>2, <1>3, <1>5
  <2> QED
    BY <2>1, <2>2 DEF Phase, Subject, Link!Without
<1>7. /\ Link!Owner(x) = u
      /\ Link!SetsPassword(x) <=> event[x].purpose \in Credentials
      /\ Link!OpenPasswordLinksOf(u) = {e \in PasswordLinks(u) : IsOpen(e)}
  BY OpenIs DEF IInv
<1>8. lost \subseteq Link!OpenLinksOf(u) \ {x} /\ lost \in SUBSET Events
  BY LostLinks DEF IInv
<1>9. event[x].purpose \in Credentials => lost = Link!OpenPasswordLinksOf(u) \ {x}
  BY <1>7 DEF Lost
<1>10. Link!Confirm(x, lost)
  <2> HIDE DEF u, lost
  <2>1. password' = IF Link!SetsPassword(x) THEN [password EXCEPT ![u] = @ + 1] ELSE password
    BY <1>7 DEF u
  <2> QED
    BY <1>5, <1>6, <1>7, <1>8, <1>9, <2>1 DEF Link!Confirm
<1> QED
  BY <1>1, <1>8, <1>10 DEF Link!Next

\* A step that sets a password without a link voids the open password links.
LEMMA PasswordStep ==
    ASSUME IInv, NEW u \in Users, NEW L, Loss(L, PasswordLinks(u), u, None),
           password' = [password EXCEPT ![u] = @ + 1], UNCHANGED <<event, uses>>
    PROVE  Link!Next
<1> DEFINE lost == Lost(PasswordLinks(u))
<1>1. Published' = Published
  BY DEF Published
<1>2. \A e \in Published : /\ Phase'[e] = IF e \in lost THEN "void" ELSE Phase[e]
                           /\ Subject'[e] = Subject[e]
  <2> SUFFICES ASSUME NEW e \in Published
               PROVE  /\ Phase'[e] = IF e \in lost THEN "void" ELSE Phase[e]
                      /\ Subject'[e] = Subject[e]
    OBVIOUS
  <2>1. None # e /\ e \in Published' /\ event'[e] = event[e] /\ uses'[e] = uses[e]
    BY <1>1 DEF Published
  <2> HIDE DEF Phase, Subject
  <2> QED
    BY <2>1, PhaseAfter
<1>3. \A e \in Events \ Published : Phase'[e] = Phase[e] /\ Subject'[e] = Subject[e]
                                    /\ e \notin lost
  BY <1>1, PhaseIs, SubjectIs DEF Lost, IsOpen
<1>4. Phase' = Link!Without(lost) /\ Subject' = Subject
  BY <1>2, <1>3 DEF Link!Without, Phase, Subject, Published
<1>5. lost = Link!OpenPasswordLinksOf(u)
  BY OpenIs DEF Lost, IInv
<1>6. Link!ChangePassword(u)
  BY <1>4, <1>5 DEF Link!ChangePassword
<1> QED
  BY <1>6 DEF Link!Next

\* A first build makes a requested link the working one of its address and purpose.
LEMMA MailStep ==
    ASSUME IInv, NEW x \in Events, Issue(x)
    PROVE  Link!Next
<1> DEFINE others == {k \in Events : Phase[k] = "live" /\ Subject[k] = Subject[x]}
<1>1. /\ x \in Published /\ Actionable(x) /\ token[x].state = "none"
      /\ UNCHANGED <<event, uses, outdated, password>> /\ Published' = Published
  BY DEF Issue, account, ghosts, Published
<1>2. /\ token'[x].state = "active"
      /\ \A d \in Events \ {x} :
            token'[d].state = IF d \in {k \in Published : SameTarget(k, x)}
                                 /\ token[d].state = "active" THEN "used" ELSE token[d].state
  BY IssuedStates DEF Issue, IInv
<1>3. x \notin outdated
  <2>1. CASE x \in outdated
    <3>1. Barred(x)
      BY <1>1, <2>1 DEF IInv, LinkInv, OutdatedInv
    <3>2. event[x].occurred \in Int /\ invalidBefore[Holder[event[x].email]] \in Int
      BY <1>1, PublishedType DEF IInv, TypeOK, Time
    <3> QED
      BY <1>1, <3>1, <3>2 DEF Actionable, Barred, TargetStatus
  <2> QED
    BY <2>1
<1>4. uses[x] = 0
  BY <1>1 DEF IInv, LinkInv, UsesInv
<1>5. Phase[x] = "requested" /\ Phase'[x] = "live"
  <2>1. Phase[x] = "requested"
    BY <1>1, <1>3, <1>4, PhaseIs
  <2>2. Phase'[x] = "live"
    BY <1>1, <1>2, <1>3, <1>4, PhaseIs
  <2> QED
    BY <2>1, <2>2
<1>6. ASSUME NEW e \in Events
      PROVE  Subject'[e] = Subject[e]
  BY <1>1, SubjectIs
<1>7. ASSUME NEW e \in Events \ {x}
      PROVE  Phase'[e] = IF e \in others THEN "void" ELSE Phase[e]
  <2>1. CASE e \notin Published
    BY <1>1, <2>1, PhaseIs
  <2>2. CASE e \in Published
    <3>1. Subject[e] = Subject[x] <=> SameTarget(e, x)
      <4>1. /\ Subject[e] = [purpose |-> event[e].purpose, email |-> event[e].email]
            /\ Subject[x] = [purpose |-> event[x].purpose, email |-> event[x].email]
        BY <1>1, <2>2, SubjectIs
      <4> QED
        BY <4>1 DEF SameTarget
    <3>2. token[e].state = "active" => uses[e] = 0 /\ e \notin outdated
      BY DEF IInv, LinkInv, UsesInv, OutdatedInv
    <3>3. Phase[e] = "live" <=> token[e].state = "active"
      <4>1. Phase[e] = "live" => token[e].state = "active"
        BY <2>2, PhaseIs
      <4>2. ASSUME token[e].state = "active" PROVE Phase[e] = "live"
        <5>1. uses[e] # 1 /\ e \notin outdated /\ token[e].state # "used" /\ e \in Events
          BY <3>2, <4>2
        <5> QED
          BY <2>2, <4>2, <5>1, PhaseIs
      <4> QED
        BY <4>1, <4>2
    <3>4. token'[e].state = IF SameTarget(e, x) /\ token[e].state = "active" THEN "used"
                                                                          ELSE token[e].state
      BY <1>2, <2>2
    <3>5. CASE e \in others
      BY <1>1, <2>2, <3>1, <3>2, <3>3, <3>4, <3>5, PhaseIs
    <3>6. CASE e \notin others
      <4>1. token'[e].state = token[e].state
        BY <3>1, <3>3, <3>4, <3>6
      <4> QED
        BY <1>1, <2>2, <3>6, <4>1, PhaseIs
    <3> QED
      BY <3>5, <3>6
  <2> QED
    BY <2>1, <2>2
<1>8. Phase' = [Link!Without(others) EXCEPT ![x] = "live"] /\ Subject' = Subject
  <2>1. \A e \in Events : Phase'[e] = IF e = x THEN "live" ELSE Link!Without(others)[e]
    BY <1>5, <1>7 DEF Link!Without
  <2>2. /\ Phase' = [e \in Events |-> Phase'[e]]
        /\ Subject = [e \in Events |-> Subject[e]] /\ Subject' = [e \in Events |-> Subject'[e]]
    BY DEF Phase, Subject
  <2> HIDE DEF others
  <2> QED
    BY <1>6, <2>1, <2>2 DEF Link!Without
<1>9. Link!Mail(x)
  BY <1>1, <1>5, <1>8 DEF Link!Mail
<1> QED
  BY <1>9 DEF Link!Next

\* Every step is a step of the links it concerns or leaves them alone.
LEMMA LinkStep == IInv /\ [Next]_vars => [Link!Next]_(Link!linkVars)
<1> SUFFICES ASSUME IInv, [Next]_vars PROVE [Link!Next]_(Link!linkVars)
  OBVIOUS
<1>a. TypeOK
  BY DEF IInv
<1>1. ASSUME UNCHANGED <<event, uses, outdated, password>>,
             \A e \in Events : token'[e].state = token[e].state
      PROVE  UNCHANGED Link!linkVars
  <2>1. Published' = Published
    BY <1>1 DEF Published
  <2>2. \A e \in Events : Phase'[e] = Phase[e] /\ Subject'[e] = Subject[e]
    <3>1. \A e \in Events : Phase'[e] = Phase[e]
      BY <1>1, <2>1, PhaseIs
    <3>2. \A e \in Events : Subject'[e] = Subject[e]
      BY <1>1, <2>1, SubjectIs
    <3> QED
      BY <3>1, <3>2
  <2> QED
    BY <1>1, <2>2 DEF Phase, Subject, Link!linkVars
<1>2. ASSUME NEW p \in Purposes, NEW m \in Emails, Publish(p, m),
             UNCHANGED <<account, token, now, request, ghosts>>
      PROVE  Link!Next
  <2>1. Loss({}, {}, Holder[m], None)
    BY <1>2 DEF Loss, ghosts
  <2> QED
    BY <1>2, <2>1, RequestStep DEF account, ghosts
<1>3. ASSUME NEW u \in Users, NEW M \in SUBSET RowsOf(u), NEW N, token' = Invalidated(LinksTo(M)),
             outdated' = outdated \cup LinksTo(M)
      PROVE  Loss(LinksTo(M), LinksTo(M), u, N)
  BY <1>a, <1>3, InvalidatedStates DEF Loss, LinksTo, RowsOf
<1>4. Purposes = {"verify_email", "email_change", "invite", "reset_password"}
  BY DEF Purposes, Credentials
<1>5. CASE UNCHANGED vars
  BY <1>1, <1>5 DEF vars, account, ghosts
<1>6. ASSUME NEW m \in Emails, RequestReset(m) \/ RequestVerification(m) \/ ResendInvitation(m)
      PROVE  Link!Next
  BY <1>2, <1>4, <1>6 DEF RequestReset, RequestVerification, ResendInvitation
<1>7. ASSUME NEW m \in Emails, SetVerified(m) PROVE UNCHANGED Link!linkVars
  BY <1>1, <1>7 DEF SetVerified
<1>8. ASSUME NEW e \in Events, Issue(e) PROVE Link!Next
  BY <1>8, MailStep
<1>9. ASSUME NEW e \in Events, Renew(e) PROVE UNCHANGED Link!linkVars
  <2>1. token[e].state = "active" /\ Granted(e).state = "active"
    BY <1>a, <1>9, GrantedState DEF Renew
  <2>2. \A d \in Events : token'[d].state = token[d].state
    BY <1>a, <1>9, <2>1 DEF Renew, TypeOK
  <2> QED
    BY <1>1, <1>9, <2>2 DEF Renew, account, ghosts
<1>10. ASSUME NEW e \in Events, VerifyEmail(e) PROVE Link!Next
  <2>1. /\ e \in Published /\ token[e].state = "active" /\ Confirmed(e) /\ event' = event
        /\ event[e].purpose \notin Credentials /\ password' = password
    BY <1>10 DEF VerifyEmail, Valid, Credentials
  <2>2. Loss({}, {}, Holder[event[e].email], e)
    BY <1>a, <1>10, InvalidatedStates DEF VerifyEmail, Loss
  <2> QED
    BY <2>1, <2>2, ConfirmStep
<1>11. ASSUME NEW e \in Events, ChangeEmail(e) PROVE Link!Next
  <2> DEFINE m == event[e].email
             replaced == {x \in RowsOf(Holder[m]) : status[x] = "current"}
  <2>1. /\ e \in Published /\ token[e].state = "active" /\ Confirmed(e) /\ event' = event
        /\ event[e].purpose \notin Credentials /\ password' = password
    BY <1>11 DEF ChangeEmail, Valid, Credentials
  <2>2. Loss(LinksTo(replaced), LinksTo(replaced), Holder[m], e)
    <3>1. token' = Invalidated({e} \cup LinksTo(replaced))
          /\ outdated' = outdated \cup LinksTo(replaced)
      BY <1>11 DEF ChangeEmail
    <3>2. replaced \subseteq RowsOf(Holder[m])
      OBVIOUS
    <3> HIDE DEF m, replaced
    <3> QED
      BY <1>a, <3>1, <3>2, InvalidatedStates DEF Loss, LinksTo, RowsOf
  <2> QED
    BY <2>1, <2>2, ConfirmStep
<1>12. ASSUME NEW r \in Requests, NEW e \in Events, Preview(r, e) PROVE UNCHANGED Link!linkVars
  BY <1>1, <1>12 DEF Preview, account, ghosts
<1>13. ASSUME NEW r \in Requests, NEW u \in Users, BeginPasswordChange(r, u)
       PROVE  UNCHANGED Link!linkVars
  BY <1>1, <1>13 DEF BeginPasswordChange, account, ghosts
<1>14. ASSUME NEW u \in Users, NEW N, SetPassword(u)
       PROVE  /\ Loss(PasswordLinks(u), PasswordLinks(u), u, N)
              /\ password' = [password EXCEPT ![u] = @ + 1]
  <2>1. PasswordLinks(u) \subseteq Published
        /\ \A e \in PasswordLinks(u) : Holder[event[e].email] = u
    BY DEF PasswordLinks, LinksTo, RowsOf
  <2> QED
    BY <1>a, <1>14, <2>1, InvalidatedStates DEF SetPassword, Loss
<1>15. ASSUME NEW r \in Requests, SetPasswordByLink(r) PROVE Link!Next
  <2> DEFINE e == request[r].link
             u == Holder[event[e].email]
  <2>1. /\ e \in Published /\ token[e].state = "active" /\ Confirmed(e) /\ event' = event
        /\ event[e].purpose \in Credentials /\ SetPassword(u)
    BY <1>15 DEF SetPasswordByLink, Redeemable, Valid
  <2> HIDE DEF e
  <2>2. u \in Users
    BY <1>a, <2>1, PublishedType
  <2> QED
    BY <1>14, <2>1, <2>2, ConfirmStep
<1>16. ASSUME NEW r \in Requests, ChangePassword(r) PROVE Link!Next
  <2>1. request[r].user \in Users
    BY <1>a, <1>16 DEF ChangePassword, TypeOK, Unchanged
  <2> QED
    BY <1>14, <1>16, <2>1, PasswordStep DEF ChangePassword
<1>17. ASSUME NEW r \in Requests, Abandon(r) PROVE UNCHANGED Link!linkVars
  BY <1>1, <1>17 DEF Abandon, account, ghosts
<1>18. ASSUME NEW m \in Emails, NEW fresh \in Emails, ReplaceUnverified(m, fresh)
       PROVE  Link!Next
  <2> DEFINE replaced == {x \in RowsOf(Holder[m]) : status[x] \in {"current", "pending"}}
  <2>1. /\ token' = Invalidated(LinksTo(replaced)) /\ outdated' = outdated \cup LinksTo(replaced)
        /\ Holder[fresh] = Holder[m] /\ UNCHANGED <<uses, password>>
        /\ event' = event \/ Publish("invite", fresh)
    BY <1>18 DEF ReplaceUnverified
  <2>2. replaced \in SUBSET RowsOf(Holder[m]) /\ Holder[m] \in Users
    OBVIOUS
  <2> HIDE DEF replaced
  <2>3. Loss(LinksTo(replaced), LinksTo(replaced), Holder[fresh], None)
    BY <1>3, <2>1, <2>2
  <2> QED
    BY <1>4, <2>1, <2>2, <2>3, VoidStep, RequestStep
<1>19. ASSUME NEW m \in Emails, NEW fresh \in Emails, ProposeEmail(m, fresh) PROVE Link!Next
  <2> DEFINE replaced == {x \in RowsOf(Holder[m]) : status[x] = "pending"}
  <2>1. /\ token' = Invalidated(LinksTo(replaced)) /\ outdated' = outdated \cup LinksTo(replaced)
        /\ Holder[fresh] = Holder[m] /\ UNCHANGED <<uses, password>>
        /\ Publish("email_change", fresh)
    BY <1>19 DEF ProposeEmail
  <2>2. replaced \in SUBSET RowsOf(Holder[m]) /\ Holder[m] \in Users
    OBVIOUS
  <2> HIDE DEF replaced
  <2>3. Loss(LinksTo(replaced), LinksTo(replaced), Holder[fresh], None)
    BY <1>3, <2>1, <2>2
  <2> QED
    BY <1>4, <2>1, <2>3, RequestStep
<1>20. ASSUME NEW u \in Users, Deactivate(u) PROVE Link!Next
  <2> DEFINE O == PasswordLinks(u) \cup {e \in LinksTo(RowsOf(u)) : token[e].state # "none"}
  <2>1. /\ token' = Invalidated(LinksTo(RowsOf(u))) /\ outdated' = outdated \cup O
        /\ UNCHANGED <<event, uses, password>>
    BY <1>20 DEF Deactivate
  <2>2. /\ O \subseteq LinksTo(RowsOf(u))
        /\ \A e \in LinksTo(RowsOf(u)) : token[e].state = "active" => e \in O
    BY DEF PasswordLinks, LinksTo
  <2>3. LinksTo(RowsOf(u)) \subseteq Published
        /\ \A e \in LinksTo(RowsOf(u)) : Holder[event[e].email] = u
    BY DEF LinksTo, RowsOf
  <2> HIDE DEF O
  <2>4. Loss(LinksTo(RowsOf(u)), O, u, None)
    BY <1>a, <2>1, <2>2, <2>3, InvalidatedStates DEF Loss
  <2> QED
    BY <2>1, <2>4, VoidStep
<1>21. ASSUME NEW u \in Users, Reactivate(u) \/ RevokeSessions(u)
       PROVE  UNCHANGED Link!linkVars
  BY <1>1, <1>21 DEF Reactivate, RevokeSessions, ghosts
<1>22. CASE Tick
  BY <1>1, <1>22 DEF Tick, account, ghosts
<1> QED
  BY <1>5, <1>6, <1>7, <1>8, <1>9, <1>10, <1>11, <1>12, <1>13, <1>15, <1>16, <1>17, <1>18,
     <1>19, <1>20, <1>21, <1>22 DEF Next

\* For one purpose and address one link works at a time; it is confirmed once, and a new
\* password, an address change or a deactivation voids open links of that user only.
THEOREM TokensAreLinks == Spec => ImplementsLinks
<1>1. Init => Link!Init
  <2> SUFFICES ASSUME Init PROVE Link!Init
    OBVIOUS
  <2>1. Published = {} /\ password = [u \in Users |-> 0]
    BY DEF Init, Published
  <2> QED
    BY <2>1 DEF Link!Init, Phase, Subject
<1> QED
  BY <1>1, LinkStep, IInvHolds, PTL DEF Spec, ImplementsLinks, Link!Spec
=============================================================================
