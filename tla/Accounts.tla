------------------------------ MODULE Accounts ------------------------------
(***************************************************************************)
(* Who may sign in, and who belongs to which organization: the accounts of *)
(* apps/api (EmailAuthService, SocialAuthService, PasswordService,         *)
(* VerificationService), with the organizations, members and invitations   *)
(* (OrganizationService, InvitationService, MemberService).                *)
(*                                                                         *)
(* A request takes a step for each statement or transaction that another   *)
(* request may come between; one that is refused at its first reading      *)
(* never begins.  What Sessions follows row by row is here a set: the      *)
(* account and the password under which each live session was opened.     *)
(***************************************************************************)
EXTENDS Naturals, FiniteSets

CONSTANTS
    Clients,         \* requests that may be under way at once
    Emails,
    Socials,         \* what providers know as one user: (provider, providerId)
    Provider,        \* [Socials -> provider]
    Roles,           \* of a member; the model tells OWNER and ADMIN from the others
    None,
    Workloads,       \* bound: each behaviour mixes the kinds of request of one of them, and its
                     \* requests overlap when "overlap" is among them
    MaxAccounts, MaxOrganizations, MaxMembers, MaxInvitations, MaxMails, MaxPassword  \* bounds

ASSUME BoundsAssumption ==
    /\ {MaxAccounts, MaxOrganizations, MaxMembers, MaxInvitations, MaxMails, MaxPassword} \subseteq Nat
    /\ None \notin Emails /\ "OWNER" \in Roles /\ DOMAIN Provider = Socials

Accounts == 1..MaxAccounts
Organizations == 1..MaxOrganizations
Members == 1..MaxMembers
Invitations == 1..MaxInvitations
Mails == 1..MaxMails
Nobody == 0

VARIABLES
    account,     \* [Accounts -> [state, email, password]]; password 0: there is none
    identity,    \* [Socials -> account], the rows of AccountIdentity
    live,        \* the <<account, password>> of each session not revoked
    mail,        \* [Mails -> [type, account, state, spent]], the rows of VerificationToken
    mergeable,   \* the <<source, target>> of each merge token that still holds
    member,      \* [Members -> [account, org, role, isActive]], the rows of OrganizationMember
    invitation,  \* [Invitations -> [state, org, email, role, accepted, declined, expired, joined]]
    req,         \* [Clients -> the request under way]
    load,        \* the kinds of request of this behaviour
    orderly      \* history: requests did not overlap, and none stopped before it marked its token

rows == <<account, identity, live, mail, mergeable, member, invitation, req, load, orderly>>

NoAccount == [state |-> "none", email |-> None, password |-> 0]
NoMail == [type |-> "none", account |-> Nobody, state |-> "none", spent |-> 0]
NoMember == [account |-> Nobody, org |-> Nobody, role |-> "OWNER", isActive |-> FALSE]
NoInvitation == [state |-> "none", org |-> Nobody, email |-> None, role |-> "OWNER", accepted |-> FALSE,
                 declined |-> FALSE, expired |-> FALSE, joined |-> 0]
Rest == [kind |-> "none", step |-> "none", account |-> Nobody, password |-> 0, email |-> None, social |-> None,
         row |-> Nobody, org |-> Nobody, role |-> "OWNER"]

AccountsInit ==
    /\ account = [a \in Accounts |-> NoAccount]
    /\ identity = [s \in Socials |-> Nobody]
    /\ live = {}
    /\ mail = [m \in Mails |-> NoMail]
    /\ mergeable = {}
    /\ member = [m \in Members |-> NoMember]
    /\ invitation = [i \in Invitations |-> NoInvitation]
    /\ req = [w \in Clients |-> Rest]
    /\ load \in Workloads
    /\ orderly = TRUE

\* The next free row of a table.
NewAccount == {a \in Accounts : account[a].state = "none" /\ \A b \in 1..(a - 1) : account[b].state # "none"}
NewOrganization == {o \in Organizations : /\ \A m \in Members : member[m].org < o
                                          /\ o = 1 \/ \E m \in Members : member[m].org = o - 1}
NewMember == {m \in Members : member[m] = NoMember /\ \A n \in 1..(m - 1) : member[n] # NoMember}
NewInvitation == {i \in Invitations : invitation[i].state = "none"
                                      /\ \A j \in 1..(i - 1) : invitation[j].state # "none"}
NewMail == {m \in Mails : mail[m].state = "none" /\ \A n \in 1..(m - 1) : mail[n].state # "none"}

ByEmail(e) == {a \in Accounts : account[a].email = e}
Known == {a \in Accounts : account[a].state # "none"}
IdentitiesOf(a) == {s \in Socials : identity[s] = a}
RowsOf(a, o) == {m \in Members : member[m].account = a /\ member[m].org = o}
ActiveIn(a, o) == \E m \in RowsOf(a, o) : member[m].isActive

\* OrganizationGuard, with Roles('OWNER', 'ADMIN').
Manages(a, o) == \E m \in RowsOf(a, o) : member[m].isActive /\ member[m].role \in {"OWNER", "ADMIN"}

Quiescent == \A w \in Clients : req[w] = Rest

May(kind) == kind \in load /\ (Quiescent \/ "overlap" \in load)

Begin(w, r) ==
    /\ req[w] = Rest /\ May(r.kind)
    /\ req' = [req EXCEPT ![w] = r]
    /\ orderly' = (orderly /\ Quiescent)

At(w, kinds, step) == req[w].kind \in kinds /\ req[w].step = step
Continue(w, step) == req' = [req EXCEPT ![w].step = step] /\ UNCHANGED orderly
End(w) == req' = [req EXCEPT ![w] = Rest] /\ UNCHANGED orderly

\* A request of one statement or one transaction.
Once(kind) == May(kind) /\ orderly' = (orderly /\ Quiescent) /\ UNCHANGED req

SessionsOf(a) == {s \in live : s[1] = a}
SecondTime(n) == IF n = 0 THEN 1 ELSE 2

-----------------------------------------------------------------------------
(* Signing up and signing in *)

\* register and signup look for the email, then hash the password.
SignUp(w) ==
    /\ \E e \in Emails, k \in {"register", "signup"} :
         /\ ByEmail(e) = {}
         /\ Begin(w, [Rest EXCEPT !.kind = k, !.step = "hash", !.email = e])
    /\ UNCHANGED <<account, identity, live, mail, mergeable, member, invitation, load>>

\* One transaction; the email is unique.  A signup founds an organization and signs in.
SignUpCommit(w) ==
    /\ At(w, {"register", "signup"}, "hash")
    /\ ByEmail(req[w].email) = {}
    /\ \E a \in NewAccount :
         /\ account' = [account EXCEPT ![a] = [state |-> "active", email |-> req[w].email, password |-> 1]]
         /\ IF req[w].kind = "signup"
            THEN /\ \E o \in NewOrganization, m \in NewMember :
                      member' = [member EXCEPT ![m] = [account |-> a, org |-> o, role |-> "OWNER", isActive |-> TRUE]]
                 /\ req' = [req EXCEPT ![w].step = "issue", ![w].account = a, ![w].password = 1]
                 /\ UNCHANGED orderly
            ELSE End(w) /\ UNCHANGED member
    /\ UNCHANGED <<identity, live, mail, mergeable, invitation, load>>

\* validateCredentials, with the right password.
SignIn(w) ==
    /\ \E a \in Accounts :
         /\ account[a].state = "active" /\ account[a].email # None /\ account[a].password # 0
         /\ Begin(w, [Rest EXCEPT !.kind = "login", !.step = "issue", !.account = a,
                                  !.password = account[a].password])
    /\ UNCHANGED <<account, identity, live, mail, mergeable, member, invitation, load>>

\* _processLogin finds the identity, or will make an account for it.
SocialLogin(w) ==
    /\ \E s \in Socials :
         LET a == identity[s] IN
         IF a = Nobody
         THEN Begin(w, [Rest EXCEPT !.kind = "social", !.step = "create", !.social = s])
         ELSE /\ account[a].state = "active"
              /\ Begin(w, [Rest EXCEPT !.kind = "social", !.step = "issue", !.account = a,
                                       !.password = account[a].password])
    /\ UNCHANGED <<account, identity, live, mail, mergeable, member, invitation, load>>

\* The new account takes the provider's email unless another account has it.
SocialCreate(w) ==
    /\ At(w, {"social"}, "create")
    /\ identity[req[w].social] = Nobody
    /\ \E a \in NewAccount, e \in Emails :
         /\ account' = [account EXCEPT ![a] = [state |-> "active", password |-> 0,
                                               email |-> IF ByEmail(e) = {} THEN e ELSE None]]
         /\ identity' = [identity EXCEPT ![req[w].social] = a]
         /\ req' = [req EXCEPT ![w].step = "issue", ![w].account = a]
    /\ UNCHANGED <<live, mail, mergeable, member, invitation, load, orderly>>

IssueTokens(w) ==
    /\ req[w].step = "issue"
    /\ live' = live \cup {<<req[w].account, req[w].password>>}
    /\ End(w)
    /\ UNCHANGED <<account, identity, mail, mergeable, member, invitation, load>>

\* refreshSession reads the session and the account, then rotates.
RefreshSession(w) ==
    /\ \E s \in live :
         /\ account[s[1]].state = "active"
         /\ Begin(w, [Rest EXCEPT !.kind = "refresh", !.step = "rotate", !.account = s[1], !.password = s[2]])
    /\ UNCHANGED <<account, identity, live, mail, mergeable, member, invitation, load>>

RotateSession(w) ==
    /\ At(w, {"refresh"}, "rotate")
    /\ live' = live \cup {<<req[w].account, req[w].password>>}
    /\ End(w)
    /\ UNCHANGED <<account, identity, mail, mergeable, member, invitation, load>>

\* A sign-out or a session's end; a sign-out everywhere, or a token sent twice.
SessionEnds ==
    /\ \/ \E s \in live : live' = live \ {s}
       \/ \E a \in Accounts : SessionsOf(a) # {} /\ live' = live \ SessionsOf(a)
    /\ UNCHANGED <<account, identity, mail, mergeable, member, invitation, req, load, orderly>>

-----------------------------------------------------------------------------
(* Providers *)

\* linkAccount and linkAccountWithCode: an identity that another account has may be merged.
Link(w) ==
    /\ \E a \in Known, s \in Socials :
         /\ identity[s] = Nobody
         /\ Begin(w, [Rest EXCEPT !.kind = "link", !.step = "create", !.account = a, !.social = s])
    /\ UNCHANGED <<account, identity, live, mail, mergeable, member, invitation, load>>

LinkCreate(w) ==
    /\ At(w, {"link"}, "create")
    /\ identity[req[w].social] = Nobody
    /\ \A s \in IdentitiesOf(req[w].account) : Provider[s] # Provider[req[w].social]
    /\ identity' = [identity EXCEPT ![req[w].social] = req[w].account]
    /\ End(w)
    /\ UNCHANGED <<account, live, mail, mergeable, member, invitation, load>>

OfferMerge ==
    /\ Once("merge")
    /\ \E a \in Known, s \in Socials :
         /\ identity[s] \notin {Nobody, a}
         /\ mergeable' = mergeable \cup {<<identity[s], a>>}
    /\ UNCHANGED <<account, identity, live, mail, member, invitation, load>>

\* mergeAccounts: one transaction.  What the target has already stays with the source.
Merge ==
    /\ Once("merge")
    /\ \E src, dst \in Accounts :
         LET taken(s) == \E t \in IdentitiesOf(dst) : Provider[t] = Provider[s] IN
         /\ <<src, dst>> \in mergeable
         /\ identity' = [s \in Socials |-> IF identity[s] = src /\ ~taken(s) THEN dst ELSE identity[s]]
         /\ member' = [m \in Members |->
                         IF member[m].account = src /\ RowsOf(dst, member[m].org) = {}
                         THEN [member[m] EXCEPT !.account = dst] ELSE member[m]]
         /\ live' = live \ SessionsOf(src)
         /\ account' = [account EXCEPT ![src].state = "merged", ![src].email = None]
    /\ UNCHANGED <<mail, mergeable, invitation, load>>

MergeTokenLapses ==
    /\ \E t \in mergeable : mergeable' = mergeable \ {t}
    /\ UNCHANGED <<account, identity, live, mail, member, invitation, req, load, orderly>>

\* Mutated: the last identity may go when there is no password.
UnlinkAny(w) ==
    /\ \E s \in Socials :
         /\ identity[s] # Nobody
         /\ Begin(w, [Rest EXCEPT !.kind = "unlink", !.step = "delete", !.social = s])
    /\ UNCHANGED <<account, identity, live, mail, mergeable, member, invitation, load>>

\* unlinkAccount: without a password there must be another identity.
Unlink(w) ==
    /\ \E s \in Socials :
         /\ identity[s] # Nobody
         /\ account[identity[s]].password # 0 \/ IdentitiesOf(identity[s]) # {s}
         /\ Begin(w, [Rest EXCEPT !.kind = "unlink", !.step = "delete", !.social = s])
    /\ UNCHANGED <<account, identity, live, mail, mergeable, member, invitation, load>>

UnlinkDelete(w) ==
    /\ At(w, {"unlink"}, "delete")
    /\ identity' = [identity EXCEPT ![req[w].social] = Nobody]
    /\ End(w)
    /\ UNCHANGED <<account, live, mail, mergeable, member, invitation, load>>

-----------------------------------------------------------------------------
(* Passwords and one-time tokens *)

\* sendResetEmail and sendVerificationEmail.
SendMail ==
    /\ Once("mail")
    /\ \E m \in NewMail, a \in Accounts, type \in {"PASSWORD_RESET", "EMAIL_VERIFY"} :
         /\ account[a].email # None
         /\ mail' = [mail EXCEPT ![m] = [type |-> type, account |-> a, state |-> "sent", spent |-> 0]]
    /\ UNCHANGED <<account, identity, live, mergeable, member, invitation, load>>

MailLapses ==
    /\ \E m \in Mails : mail[m].state = "sent" /\ mail' = [mail EXCEPT ![m].state = "lapsed"]
    /\ UNCHANGED <<account, identity, live, mergeable, member, invitation, req, load, orderly>>

\* changePassword, with the right password; the new one is none of the last five.
ChangePassword(w) ==
    /\ \E a \in Known :
         /\ account[a].password # 0
         /\ Begin(w, [Rest EXCEPT !.kind = "change", !.step = "hash", !.account = a])
    /\ UNCHANGED <<account, identity, live, mail, mergeable, member, invitation, load>>

\* Mutated: a token that was used is taken again.
UseMailAgain(w) ==
    /\ \E m \in Mails :
         /\ mail[m].state \in {"sent", "used"}
         /\ Begin(w, [Rest EXCEPT !.kind = "mail", !.account = mail[m].account, !.row = m,
                                  !.step = IF mail[m].type = "PASSWORD_RESET" THEN "hash" ELSE "verify"])
    /\ UNCHANGED <<account, identity, live, mail, mergeable, member, invitation, load>>

\* resetPassword and verifyEmail look for a token neither used nor lapsed.
UseMail(w) ==
    /\ \E m \in Mails :
         /\ mail[m].state = "sent"
         /\ Begin(w, [Rest EXCEPT !.kind = "mail", !.account = mail[m].account, !.row = m,
                                  !.step = IF mail[m].type = "PASSWORD_RESET" THEN "hash" ELSE "verify"])
    /\ UNCHANGED <<account, identity, live, mail, mergeable, member, invitation, load>>

\* Mutated: the sessions go on.
PasswordCommitOnly(w) ==
    LET a == req[w].account IN
    /\ At(w, {"change", "mail"}, "hash")
    /\ account[a].password < MaxPassword
    /\ account' = [account EXCEPT ![a].password = @ + 1]
    /\ IF req[w].kind = "mail"
       THEN Continue(w, "mark") /\ mail' = [mail EXCEPT ![req[w].row].spent = SecondTime(@)]
       ELSE End(w) /\ UNCHANGED mail
    /\ UNCHANGED <<identity, live, mergeable, member, invitation, load>>

\* One transaction: the new password, and every session of the account revoked.
PasswordCommit(w) ==
    LET a == req[w].account IN
    /\ At(w, {"change", "mail"}, "hash")
    /\ account[a].password < MaxPassword
    /\ account' = [account EXCEPT ![a].password = @ + 1]
    /\ live' = live \ SessionsOf(a)
    /\ IF req[w].kind = "mail"
       THEN Continue(w, "mark") /\ mail' = [mail EXCEPT ![req[w].row].spent = SecondTime(@)]
       ELSE End(w) /\ UNCHANGED mail
    /\ UNCHANGED <<identity, mergeable, member, invitation, load>>

\* emailVerifiedAt, which nothing reads.
VerifyCommit(w) ==
    /\ At(w, {"mail"}, "verify")
    /\ mail' = [mail EXCEPT ![req[w].row].spent = SecondTime(@)]
    /\ Continue(w, "mark")
    /\ UNCHANGED <<account, identity, live, mergeable, member, invitation, load>>

\* markUsed, after the transaction.
MarkUsed(w) ==
    /\ At(w, {"mail"}, "mark")
    /\ mail' = [mail EXCEPT ![req[w].row].state = "used"]
    /\ End(w)
    /\ UNCHANGED <<account, identity, live, mergeable, member, invitation, load>>

-----------------------------------------------------------------------------
(* Organizations and their members *)

\* OrganizationService.create, for a user who has an access token.
CreateOrganization ==
    /\ Once("organization")
    /\ \E a \in Known, o \in NewOrganization, m \in NewMember :
         member' = [member EXCEPT ![m] = [account |-> a, org |-> o, role |-> "OWNER", isActive |-> TRUE]]
    /\ UNCHANGED <<account, identity, live, mail, mergeable, invitation, load>>

\* MemberService.update and deactivate: an OWNER is left alone.
ChangeMember(w) ==
    /\ \E a \in Known, m \in Members, r \in Roles, k \in {"update", "deactivate"} :
         /\ Manages(a, member[m].org) /\ member[m].role # "OWNER"
         /\ Begin(w, [Rest EXCEPT !.kind = k, !.step = "update", !.row = m,
                                  !.role = IF k = "update" THEN r ELSE Rest.role])
    /\ UNCHANGED <<account, identity, live, mail, mergeable, member, invitation, load>>

\* By the row's id, whatever the row says by now.
ChangeMemberCommit(w) ==
    /\ At(w, {"update", "deactivate"}, "update")
    /\ member' = IF req[w].kind = "update"
                 THEN [member EXCEPT ![req[w].row].role = req[w].role]
                 ELSE [member EXCEPT ![req[w].row].isActive = FALSE]
    /\ End(w)
    /\ UNCHANGED <<account, identity, live, mail, mergeable, invitation, load>>

-----------------------------------------------------------------------------
(* Invitations *)

\* What a token's link finds (getByToken), and what its addressee finds (getMinePending).
Open(i) == invitation[i].state = "row" /\ ~invitation[i].accepted /\ ~invitation[i].expired
OpenFor(i, e) == Open(i) /\ invitation[i].email = e /\ ~invitation[i].declined

Invitable(e, o) == \A a \in ByEmail(e) : ~ActiveIn(a, o)

\* send, by a manager of the organization.
Send(w) ==
    /\ \E a \in Known, o \in Organizations, e \in Emails, r \in Roles :
         /\ Manages(a, o) /\ Invitable(e, o)
         /\ Begin(w, [Rest EXCEPT !.kind = "invite", !.step = "clear", !.org = o, !.email = e, !.role = r])
    /\ UNCHANGED <<account, identity, live, mail, mergeable, member, invitation, load>>

\* resend reads an invitation not accepted, then sends another like it.
Resend(w) ==
    /\ \E a \in Known, i \in Invitations :
         LET inv == invitation[i] IN
         /\ inv.state = "row" /\ ~inv.accepted /\ Manages(a, inv.org) /\ Invitable(inv.email, inv.org)
         /\ Begin(w, [Rest EXCEPT !.kind = "invite", !.step = "clear", !.org = inv.org,
                                  !.email = inv.email, !.role = inv.role])
    /\ UNCHANGED <<account, identity, live, mail, mergeable, member, invitation, load>>

Unaccepted(e, o) == {i \in Invitations : /\ invitation[i].state = "row" /\ ~invitation[i].accepted
                                         /\ invitation[i].email = e /\ invitation[i].org = o}

\* Mutated: an invitation declined before stays.
ClearUndeclined(w) ==
    /\ At(w, {"invite"}, "clear")
    /\ LET old == {i \in Unaccepted(req[w].email, req[w].org) : ~invitation[i].declined} IN
       invitation' = [i \in Invitations |->
                        IF i \in old THEN [NoInvitation EXCEPT !.state = "gone"] ELSE invitation[i]]
    /\ Continue(w, "create")
    /\ UNCHANGED <<account, identity, live, mail, mergeable, member, load>>

\* The invitations of that email not accepted are deleted, in a statement of its own.
Clear(w) ==
    /\ At(w, {"invite"}, "clear")
    /\ LET old == Unaccepted(req[w].email, req[w].org) IN
       invitation' = [i \in Invitations |->
                        IF i \in old THEN [NoInvitation EXCEPT !.state = "gone"] ELSE invitation[i]]
    /\ Continue(w, "create")
    /\ UNCHANGED <<account, identity, live, mail, mergeable, member, load>>

Create(w) ==
    /\ At(w, {"invite"}, "create")
    /\ \E i \in NewInvitation :
         invitation' = [invitation EXCEPT ![i] = [NoInvitation EXCEPT !.state = "row", !.org = req[w].org,
                                                                      !.email = req[w].email, !.role = req[w].role]]
    /\ End(w)
    /\ UNCHANGED <<account, identity, live, mail, mergeable, member, load>>

\* cancel deletes the row, also of one accepted.
Cancel ==
    /\ Once("cancel")
    /\ \E a \in Known, i \in Invitations :
         /\ invitation[i].state = "row" /\ Manages(a, invitation[i].org)
         /\ invitation' = [invitation EXCEPT ![i] = [NoInvitation EXCEPT !.state = "gone"]]
    /\ UNCHANGED <<account, identity, live, mail, mergeable, member, load>>

InvitationExpires ==
    /\ \E i \in Invitations : Open(i) /\ invitation' = [invitation EXCEPT ![i].expired = TRUE]
    /\ UNCHANGED <<account, identity, live, mail, mergeable, member, req, load, orderly>>


Accepting(a, i) == [Rest EXCEPT !.kind = "accept", !.step = "member", !.account = a, !.row = i,
                                !.org = invitation[i].org, !.role = invitation[i].role]

\* accept, with the link's token, by whoever has it.
Accept(w) ==
    /\ \E a \in Known, i \in Invitations : Open(i) /\ Begin(w, Accepting(a, i))
    /\ UNCHANGED <<account, identity, live, mail, mergeable, member, invitation, load>>

\* acceptById, by its addressee.
AcceptMine(w) ==
    /\ \E a \in Known, i \in Invitations : OpenFor(i, account[a].email) /\ Begin(w, Accepting(a, i))
    /\ UNCHANGED <<account, identity, live, mail, mergeable, member, invitation, load>>

\* createMembership looks for the member: an active one needs no invitation.
CheckMember(w) ==
    LET a == req[w].account  o == req[w].org IN
    /\ At(w, {"accept"}, "member")
    /\ IF ActiveIn(a, o) THEN End(w) ELSE Continue(w, IF RowsOf(a, o) = {} THEN "join" ELSE "rejoin")
    /\ UNCHANGED <<account, identity, live, mail, mergeable, member, invitation, load>>

Joined(i) == [invitation EXCEPT ![i].accepted = TRUE, ![i].joined = SecondTime(@)]

\* Mutated: the invitation is marked if it is still there.
JoinAnyway(w) ==
    LET a == req[w].account  o == req[w].org IN
    /\ At(w, {"accept"}, "join") /\ RowsOf(a, o) = {}
    /\ \E m \in NewMember :
         member' = [member EXCEPT ![m] = [account |-> a, org |-> o, role |-> req[w].role, isActive |-> TRUE]]
    /\ invitation' = IF invitation[req[w].row].state = "row" THEN Joined(req[w].row) ELSE invitation
    /\ End(w)
    /\ UNCHANGED <<account, identity, live, mail, mergeable, load>>

\* One transaction: it fails when the invitation is gone, or the user has a row by now.
Join(w) ==
    LET a == req[w].account  o == req[w].org IN
    /\ At(w, {"accept"}, "join") /\ RowsOf(a, o) = {}
    /\ invitation[req[w].row].state = "row"
    /\ \E m \in NewMember :
         member' = [member EXCEPT ![m] = [account |-> a, org |-> o, role |-> req[w].role, isActive |-> TRUE]]
    /\ invitation' = Joined(req[w].row)
    /\ End(w)
    /\ UNCHANGED <<account, identity, live, mail, mergeable, load>>

\* A member who left comes back, in the invitation's role.
Rejoin(w) ==
    /\ At(w, {"accept"}, "rejoin")
    /\ invitation[req[w].row].state = "row"
    /\ \E m \in RowsOf(req[w].account, req[w].org) :
         member' = [member EXCEPT ![m].role = req[w].role, ![m].isActive = TRUE]
    /\ invitation' = Joined(req[w].row)
    /\ End(w)
    /\ UNCHANGED <<account, identity, live, mail, mergeable, load>>

\* signupAccept, for an email that no account has, whomever the invitation names.
SignUpAccept(w) ==
    /\ \E i \in Invitations, e \in Emails :
         /\ Open(i) /\ ByEmail(e) = {}
         /\ Begin(w, [Accepting(Nobody, i) EXCEPT !.kind = "signupAccept", !.step = "hash", !.email = e])
    /\ UNCHANGED <<account, identity, live, mail, mergeable, member, invitation, load>>

SignUpJoin(w) ==
    /\ At(w, {"signupAccept"}, "hash")
    /\ ByEmail(req[w].email) = {} /\ invitation[req[w].row].state = "row"
    /\ \E a \in NewAccount, m \in NewMember :
         /\ account' = [account EXCEPT ![a] = [state |-> "active", email |-> req[w].email, password |-> 1]]
         /\ member' = [member EXCEPT ![m] = [account |-> a, org |-> req[w].org, role |-> req[w].role,
                                             isActive |-> TRUE]]
         /\ req' = [req EXCEPT ![w].step = "issue", ![w].account = a, ![w].password = 1]
    /\ invitation' = Joined(req[w].row)
    /\ UNCHANGED <<identity, live, mail, mergeable, load, orderly>>

\* declineByToken, and declineById for one not declined.
Decline(w) ==
    /\ \E i \in Invitations : Open(i) /\ Begin(w, [Rest EXCEPT !.kind = "decline", !.step = "update", !.row = i])
    /\ UNCHANGED <<account, identity, live, mail, mergeable, member, invitation, load>>

DeclineUpdate(w) ==
    /\ At(w, {"decline"}, "update")
    /\ invitation[req[w].row].state = "row"
    /\ invitation' = [invitation EXCEPT ![req[w].row].declined = TRUE]
    /\ End(w)
    /\ UNCHANGED <<account, identity, live, mail, mergeable, member, load>>

-----------------------------------------------------------------------------
\* A statement fails, or the program stops.
Stop(w) ==
    /\ req[w] # Rest
    /\ req' = [req EXCEPT ![w] = Rest]
    /\ orderly' = (orderly /\ req[w].step # "mark")
    /\ UNCHANGED <<account, identity, live, mail, mergeable, member, invitation, load>>

SignInNext ==
    \/ \E w \in Clients :
         \/ SignUp(w) \/ SignUpCommit(w) \/ SignIn(w) \/ SocialLogin(w) \/ SocialCreate(w) \/ IssueTokens(w)
         \/ RefreshSession(w) \/ RotateSession(w) \/ Link(w) \/ LinkCreate(w) \/ Unlink(w) \/ UnlinkDelete(w)
         \/ ChangePassword(w) \/ UseMail(w) \/ PasswordCommit(w) \/ VerifyCommit(w) \/ MarkUsed(w)
    \/ SessionEnds \/ OfferMerge \/ Merge \/ MergeTokenLapses \/ SendMail \/ MailLapses

MembersNext ==
    \/ \E w \in Clients :
         \/ ChangeMember(w) \/ ChangeMemberCommit(w) \/ Send(w) \/ Resend(w) \/ Clear(w) \/ Create(w)
         \/ Accept(w) \/ AcceptMine(w) \/ CheckMember(w) \/ Join(w) \/ Rejoin(w)
         \/ SignUpAccept(w) \/ SignUpJoin(w) \/ Decline(w) \/ DeclineUpdate(w)
    \/ CreateOrganization \/ Cancel \/ InvitationExpires

AccountsNext == SignInNext \/ MembersNext \/ \E w \in Clients : Stop(w)

AccountsSpec == AccountsInit /\ [][AccountsNext]_rows

-----------------------------------------------------------------------------
\* The rows, the sessions and the requests have their shape.
AccountsTypeOK ==
    /\ account \in [Accounts -> [state : {"none", "active", "merged"}, email : Emails \cup {None}, password : Nat]]
    /\ identity \in [Socials -> Accounts \cup {Nobody}]
    /\ live \subseteq Accounts \X Nat
    /\ mail \in [Mails -> [type : {"none", "PASSWORD_RESET", "EMAIL_VERIFY"}, account : Accounts \cup {Nobody},
                           state : {"none", "sent", "used", "lapsed"}, spent : 0..2]]
    /\ mergeable \subseteq Accounts \X Accounts
    /\ member \in [Members -> [account : Accounts \cup {Nobody}, org : Organizations \cup {Nobody},
                               role : Roles, isActive : BOOLEAN]]
    /\ invitation \in [Invitations -> [state : {"none", "row", "gone"}, org : Organizations \cup {Nobody},
                                       email : Emails \cup {None}, role : Roles, accepted : BOOLEAN,
                                       declined : BOOLEAN, expired : BOOLEAN, joined : 0..2]]
    /\ req \in [Clients -> [kind : {"none", "register", "signup", "login", "social", "refresh", "link",
                                    "unlink", "change", "mail", "update", "deactivate", "invite",
                                    "accept", "signupAccept", "decline"},
                            step : {"none", "hash", "create", "issue", "rotate", "delete", "verify",
                                    "mark", "update", "clear", "member", "join", "rejoin"},
                            account : Accounts \cup {Nobody}, password : Nat,
                            email : Emails \cup {None}, social : Socials \cup {None},
                            row : Mails \cup Members \cup Invitations \cup {Nobody},
                            org : Organizations \cup {Nobody}, role : Roles]]
    /\ orderly \in BOOLEAN

\* Requests one after another, nobody loses the way in: who has no password, or no email to
\* give it with, has an identity (unlinkAccount, mergeAccounts, the accounts without email).
NobodyLockedOut ==
    orderly => \A a \in Accounts :
        account[a].state = "active" =>
            \/ account[a].password # 0 /\ account[a].email # None
            \/ IdentitiesOf(a) # {}

\* Requests one after another, a session lives as long as the password it was opened under
\* and the account it is of: a new password and a merge leave no old one behind.
SessionsFollowPassword ==
    orderly => \A s \in live : account[s[1]].state = "active" /\ s[2] = account[s[1]].password

\* Requests one after another, what is sent for once works once: a reset or verification
\* token, whose use is marked after its effect, and an invitation.
OnceOnly ==
    orderly => /\ \A m \in Mails : mail[m].spent < 2
               /\ \A i \in Invitations : invitation[i].joined < 2

\* Requests one after another, an organization has one answer open for an email: sending
\* again, and however the last one was answered, leaves one invitation not accepted.
OneOpenInvitation ==
    orderly => \A i, j \in Invitations :
        /\ invitation[i].state = "row" /\ ~invitation[i].accepted
        /\ invitation[j].state = "row" /\ ~invitation[j].accepted
        /\ invitation[i].org = invitation[j].org /\ invitation[i].email = invitation[j].email
        => i = j

\* However requests overlap, who becomes a member was let in: by founding the organization, by
\* taking over a member's account, or by an invitation that was there until it was accepted
\* and never by one deleted in the meantime, in the role it names.
InvitedOnly ==
    [][\A m \in Members :
         LET n == member'[m] IN
         n.isActive /\ ~ActiveIn(n.account, n.org) =>
             \/ member[m].isActive /\ account'[member[m].account].state = "merged"
             \/ \A k \in Members : member[k].org # n.org
             \/ \E i \in Invitations :
                  /\ invitation[i].state = "row" /\ invitation'[i].accepted
                  /\ invitation[i].org = n.org /\ invitation[i].role = n.role]_rows
=============================================================================
