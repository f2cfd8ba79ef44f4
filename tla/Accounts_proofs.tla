--------------------------- MODULE Accounts_proofs ---------------------------
(***************************************************************************)
(* Theorems about Accounts, for any accounts, organizations, invitations   *)
(* and tokens, and any number of requests under way.                       *)
(***************************************************************************)
EXTENDS Accounts, TLAPS

AccountRow == [state : {"none", "active", "merged"}, email : Emails \cup {None}, password : Nat]
MailRow == [type : {"none", "PASSWORD_RESET", "EMAIL_VERIFY"}, account : Accounts \cup {Nobody},
            state : {"none", "sent", "used", "lapsed"}, spent : 0..2]
MemberRow == [account : Accounts \cup {Nobody}, org : Organizations \cup {Nobody}, role : Roles,
              isActive : BOOLEAN]
InvitationRow == [state : {"none", "row", "gone"}, org : Organizations \cup {Nobody},
                  email : Emails \cup {None}, role : Roles, accepted : BOOLEAN, declined : BOOLEAN,
                  expired : BOOLEAN, joined : 0..2]
Kinds == {"none", "register", "signup", "login", "social", "refresh", "link", "unlink", "change", "mail",
          "update", "deactivate", "invite", "accept", "signupAccept", "decline"}
Steps == {"none", "hash", "create", "issue", "rotate", "delete", "verify", "mark", "update", "clear",
          "member", "join", "rejoin"}
Request == [kind : Kinds, step : Steps, account : Accounts \cup {Nobody}, password : Nat,
            email : Emails \cup {None}, social : Socials \cup {None},
            row : Mails \cup Members \cup Invitations \cup {Nobody},
            org : Organizations \cup {Nobody}, role : Roles]

Tables == <<account, identity, live, mail, mergeable, member, invitation, load>>

-----------------------------------------------------------------------------
(* Shape *)

LEMMA Values ==
    /\ Rest \in Request /\ Rest.kind = "none" /\ Rest.step = "none" /\ Rest.account = Nobody
    /\ Rest.password = 0
    /\ NoAccount \in AccountRow /\ NoMail \in MailRow /\ NoMember \in MemberRow
    /\ NoInvitation \in InvitationRow
<1>1. "OWNER" \in Roles
  BY BoundsAssumption DEF BoundsAssumption
<1>2. Rest \in Request /\ Rest.kind = "none" /\ Rest.step = "none" /\ Rest.account = Nobody /\ Rest.password = 0
  BY <1>1 DEF Rest, Request, Kinds, Steps
<1>3. NoAccount \in AccountRow /\ NoMail \in MailRow
  BY DEF NoAccount, AccountRow, NoMail, MailRow
<1>4. NoMember \in MemberRow /\ NoInvitation \in InvitationRow
  BY <1>1 DEF NoMember, MemberRow, NoInvitation, InvitationRow
<1>. QED BY <1>2, <1>3, <1>4

LEMMA TypeParts ==
    AccountsTypeOK <=> /\ account \in [Accounts -> AccountRow]
                       /\ identity \in [Socials -> Accounts \cup {Nobody}]
                       /\ live \subseteq Accounts \X Nat
                       /\ mail \in [Mails -> MailRow]
                       /\ mergeable \subseteq Accounts \X Accounts
                       /\ member \in [Members -> MemberRow]
                       /\ invitation \in [Invitations -> InvitationRow]
                       /\ req \in [Clients -> Request]
                       /\ orderly \in BOOLEAN
BY DEF AccountsTypeOK, AccountRow, MailRow, MemberRow, InvitationRow, Request, Kinds, Steps

LEMMA TypePartsNext ==
    AccountsTypeOK' <=> /\ account' \in [Accounts -> AccountRow]
                        /\ identity' \in [Socials -> Accounts \cup {Nobody}]
                        /\ live' \subseteq Accounts \X Nat
                        /\ mail' \in [Mails -> MailRow]
                        /\ mergeable' \subseteq Accounts \X Accounts
                        /\ member' \in [Members -> MemberRow]
                        /\ invitation' \in [Invitations -> InvitationRow]
                        /\ req' \in [Clients -> Request]
                        /\ orderly' \in BOOLEAN
BY DEF AccountsTypeOK, AccountRow, MailRow, MemberRow, InvitationRow, Request, Kinds, Steps

\* Who opens a session has an account; who unlinks an identity, or uses a token, names it.
Fits(r) ==
    /\ r.step \in {"issue", "rotate"} => r.account \in Accounts
    /\ r.kind = "unlink" \/ (r.kind = "social" /\ r.step = "create") => r.social \in Socials
    /\ r.kind \in {"change", "mail"} => r.account \in Accounts
    /\ r.kind = "mail" => r.row \in Mails

\* Who accepts an invitation does so for the organization and the role it names.
Accepts(r) == r.kind \in {"accept", "signupAccept"} /\ r.step # "issue"
Named(r) ==
    Accepts(r) =>
        /\ r.row \in Invitations /\ invitation[r.row].state # "none"
        /\ invitation[r.row].state = "row" =>
             invitation[r.row].org = r.org /\ invitation[r.row].role = r.role

MailsNamed == \A m \in Mails : mail[m].state = "sent" => mail[m].account \in Accounts

Typed == AccountsTypeOK /\ MailsNamed /\ \A w \in Clients : Fits(req[w]) /\ Named(req[w])

\* An account that can be given a password by mail, or has one.
WithMail(a) == /\ a \in Accounts /\ account[a].state # "none"
               /\ account[a].state = "active" => account[a].email # None

-----------------------------------------------------------------------------
(* While requests do not overlap: what one has read is still so when it writes. *)

Relies(r) ==
    /\ r.step \in {"issue", "rotate"} =>
         account[r.account].state = "active" /\ account[r.account].password = r.password
    /\ r.kind = "social" /\ r.step = "create" => r.password = 0
    /\ r.kind = "unlink" /\ identity[r.social] # Nobody =>
         \/ account[identity[r.social]].password # 0
         \/ \E s \in Socials : s # r.social /\ identity[s] = identity[r.social]
    /\ r.kind \in {"change", "mail"} => WithMail(r.account)
    /\ r.kind = "mail" /\ r.step # "mark" => mail[r.row].spent = 0
    /\ Accepts(r) => invitation[r.row].joined = 0
    /\ r.kind = "invite" /\ r.step = "create" => Unaccepted(r.email, r.org) = {}

Sole == \A u, w \in Clients : req[u] # Rest /\ req[w] # Rest => u = w

LiveSessions == \A s \in live : account[s[1]].state = "active" /\ s[2] = account[s[1]].password

Blank == \A a \in Accounts : account[a].state = "none" => account[a].email = None

WayIn == \A a \in Accounts : account[a].state = "active" =>
            IF account[a].password = 0 THEN \E s \in Socials : identity[s] = a ELSE account[a].email # None

Marking(m) == \E w \in Clients : req[w].kind = "mail" /\ req[w].step = "mark" /\ req[w].row = m
SpentOnce == \A m \in Mails : /\ mail[m].spent \in 0..1
                              /\ mail[m].state = "sent" /\ mail[m].spent # 0 => Marking(m)
                              /\ mail[m].state = "sent" => WithMail(mail[m].account)

JoinedOnce == \A i \in Invitations : /\ invitation[i].joined \in 0..1
                                     /\ ~invitation[i].accepted => invitation[i].joined = 0

Answerable(i) == invitation[i].state = "row" /\ ~invitation[i].accepted
OneOpen == \A i, j \in Invitations :
    /\ Answerable(i) /\ Answerable(j)
    /\ invitation[i].org = invitation[j].org /\ invitation[i].email = invitation[j].email
    => i = j

Reads == \A w \in Clients : Relies(req[w])
Peace == Sole /\ Reads /\ LiveSessions /\ Blank /\ WayIn /\ SpentOnce /\ JoinedOnce /\ OneOpen
Calm == orderly => Peace

-----------------------------------------------------------------------------
(* Requests that begin change no table *)

BeginStep(w) ==
    \/ SignUp(w) \/ SignIn(w) \/ SocialLogin(w) \/ RefreshSession(w) \/ Link(w) \/ Unlink(w)
    \/ ChangePassword(w) \/ UseMail(w)
    \/ ChangeMember(w) \/ Send(w) \/ Resend(w) \/ Accept(w) \/ AcceptMine(w) \/ SignUpAccept(w) \/ Decline(w)

Begun(r) == /\ r \in Request /\ Fits(r) /\ Named(r)
            /\ Calm /\ orderly /\ Quiescent => Relies(r)

LEMMA Beginning ==
    ASSUME Typed, NEW w \in Clients, BeginStep(w)
    PROVE  \E r : Begun(r) /\ Begin(w, r) /\ UNCHANGED Tables
<1> DEFINE Goal == \E r : Begun(r) /\ Begin(w, r) /\ UNCHANGED Tables
<1>0. /\ account \in [Accounts -> AccountRow] /\ identity \in [Socials -> Accounts \cup {Nobody}]
      /\ live \subseteq Accounts \X Nat /\ mail \in [Mails -> MailRow]
      /\ member \in [Members -> MemberRow] /\ invitation \in [Invitations -> InvitationRow]
  BY TypeParts DEF Typed
<1>00. Rest \in Request /\ Rest.password = 0 /\ Rest.role \in Roles
  BY Values DEF Request
<1> USE DEF Fits, Named, Accepts, Relies
<1>1. ASSUME SignUp(w) PROVE Goal
  <2> PICK e \in Emails, k \in {"register", "signup"} :
             /\ ByEmail(e) = {}
             /\ Begin(w, [Rest EXCEPT !.kind = k, !.step = "hash", !.email = e])
    BY <1>1 DEF SignUp
  <2> DEFINE r == [Rest EXCEPT !.kind = k, !.step = "hash", !.email = e]
  <2>1. /\ r \in Request
        /\ r.kind = k /\ r.step = "hash"
    BY <1>00 DEF Request, Kinds, Steps
  <2>2. Begin(w, r) /\ UNCHANGED Tables
    BY <1>1 DEF SignUp, Tables
  <2>3. Begun(r)
    <3> HIDE DEF r
    <3>. QED BY <1>0, <2>1 DEF Begun
  <2>. QED BY <2>2, <2>3
<1>2. ASSUME SignIn(w) PROVE Goal
  <2> PICK a \in Accounts :
             /\ account[a].state = "active"
             /\ Begin(w, [Rest EXCEPT !.kind = "login", !.step = "issue", !.account = a, !.password = account[a].password])
    BY <1>2 DEF SignIn
  <2> DEFINE r == [Rest EXCEPT !.kind = "login", !.step = "issue", !.account = a, !.password = account[a].password]
  <2>1. /\ r \in Request
        /\ r.kind = "login" /\ r.account = a /\ r.password = account[a].password
    BY <1>0, <1>00 DEF Request, Kinds, Steps, AccountRow
  <2>2. Begin(w, r) /\ UNCHANGED Tables
    BY <1>2 DEF SignIn, Tables
  <2>3. Begun(r)
    <3> HIDE DEF r
    <3>. QED BY <1>0, <2>1 DEF Begun
  <2>. QED BY <2>2, <2>3
<1>3. ASSUME RefreshSession(w) PROVE Goal
  <2> PICK s \in live :
             /\ account[s[1]].state = "active"
             /\ Begin(w, [Rest EXCEPT !.kind = "refresh", !.step = "rotate", !.account = s[1], !.password = s[2]])
    BY <1>3 DEF RefreshSession
  <2> DEFINE r == [Rest EXCEPT !.kind = "refresh", !.step = "rotate", !.account = s[1], !.password = s[2]]
  <2>1. /\ r \in Request
        /\ r.kind = "refresh" /\ r.account = s[1] /\ r.password = s[2] /\ r.account \in Accounts
    BY <1>0, <1>00 DEF Request, Kinds, Steps
  <2>2. Begin(w, r) /\ UNCHANGED Tables
    BY <1>3 DEF RefreshSession, Tables
  <2>3. Begun(r)
    <3> HIDE DEF r
    <3>. QED BY <1>0, <2>1 DEF Begun, Calm, Peace, LiveSessions
  <2>. QED BY <2>2, <2>3
<1>4. ASSUME Link(w) PROVE Goal
  <2> PICK a \in Known, s \in Socials :
             /\ identity[s] = Nobody
             /\ Begin(w, [Rest EXCEPT !.kind = "link", !.step = "create", !.account = a, !.social = s])
    BY <1>4 DEF Link
  <2> DEFINE r == [Rest EXCEPT !.kind = "link", !.step = "create", !.account = a, !.social = s]
  <2>1. /\ r \in Request
        /\ r.kind = "link" /\ r.step = "create"
    BY <1>0, <1>00 DEF Request, Kinds, Steps, Known
  <2>2. Begin(w, r) /\ UNCHANGED Tables
    BY <1>4 DEF Link, Tables
  <2>3. Begun(r)
    <3> HIDE DEF r
    <3>. QED BY <1>0, <2>1 DEF Begun
  <2>. QED BY <2>2, <2>3
<1>5. ASSUME Unlink(w) PROVE Goal
  <2> PICK s \in Socials :
             /\ identity[s] # Nobody
             /\ account[identity[s]].password # 0 \/ IdentitiesOf(identity[s]) # {s}
             /\ Begin(w, [Rest EXCEPT !.kind = "unlink", !.step = "delete", !.social = s])
    BY <1>5 DEF Unlink
  <2> DEFINE r == [Rest EXCEPT !.kind = "unlink", !.step = "delete", !.social = s]
  <2>1. /\ r \in Request
        /\ r.kind = "unlink" /\ r.step = "delete" /\ r.social = s
    BY <1>0, <1>00 DEF Request, Kinds, Steps
  <2>2. Begin(w, r) /\ UNCHANGED Tables
    BY <1>5 DEF Unlink, Tables
  <2>3. Begun(r)
    <3> HIDE DEF r
    <3>. QED BY <1>0, <2>1 DEF Begun, IdentitiesOf
  <2>. QED BY <2>2, <2>3
<1>6. ASSUME ChangePassword(w) PROVE Goal
  <2> PICK a \in Known :
             /\ account[a].password # 0
             /\ Begin(w, [Rest EXCEPT !.kind = "change", !.step = "hash", !.account = a])
    BY <1>6 DEF ChangePassword
  <2> DEFINE r == [Rest EXCEPT !.kind = "change", !.step = "hash", !.account = a]
  <2>1. /\ r \in Request
        /\ r.kind = "change" /\ r.step = "hash" /\ r.account = a
    BY <1>0, <1>00 DEF Request, Kinds, Steps, Known
  <2>2. Begin(w, r) /\ UNCHANGED Tables
    BY <1>6 DEF ChangePassword, Tables
  <2>3. Begun(r)
    <3> HIDE DEF r
    <3>. QED BY <1>0, <2>1 DEF Begun, Calm, Peace, WithMail, WayIn, Known
  <2>. QED BY <2>2, <2>3
<1>7. ASSUME UseMail(w) PROVE Goal
  <2> PICK m \in Mails :
             /\ mail[m].state = "sent"
             /\ Begin(w, [Rest EXCEPT !.kind = "mail", !.account = mail[m].account, !.row = m,
                                  !.step = IF mail[m].type = "PASSWORD_RESET" THEN "hash" ELSE "verify"])
    BY <1>7 DEF UseMail
  <2> DEFINE next == IF mail[m].type = "PASSWORD_RESET" THEN "hash" ELSE "verify"
             r == [Rest EXCEPT !.kind = "mail", !.account = mail[m].account, !.row = m, !.step = next]
  <2>0. next \in {"hash", "verify"} /\ mail[m].account \in Accounts \cup {Nobody}
    BY <1>0 DEF MailRow
  <2>1. /\ r \in Request
        /\ r.kind = "mail" /\ r.step \in {"hash", "verify"} /\ r.account = mail[m].account /\ r.row = m
    <3> HIDE DEF next
    <3>. QED BY <2>0, <1>00 DEF Request, Kinds, Steps
  <2>2. Begin(w, r) /\ UNCHANGED Tables
    BY <1>7 DEF UseMail, Tables
  <2>3. Begun(r)
    <3> HIDE DEF r
    <3>. QED BY <1>0, <2>1, Values DEF Begun, Calm, Peace, SpentOnce, Marking, Quiescent, Typed, MailsNamed
  <2>. QED BY <2>2, <2>3
<1>8. ASSUME ChangeMember(w) PROVE Goal
  <2> PICK a \in Known, m \in Members, t \in Roles, k \in {"update", "deactivate"} :
             /\ member[m].role # "OWNER"
             /\ Begin(w, [Rest EXCEPT !.kind = k, !.step = "update", !.row = m,
                                  !.role = IF k = "update" THEN t ELSE Rest.role])
    BY <1>8 DEF ChangeMember
  <2> DEFINE role == IF k = "update" THEN t ELSE Rest.role
             r == [Rest EXCEPT !.kind = k, !.step = "update", !.row = m, !.role = role]
  <2>0. role \in Roles
    BY <1>00
  <2>1. /\ r \in Request
        /\ r.kind = k /\ r.step = "update"
    <3> HIDE DEF role
    <3>. QED BY <2>0, <1>00 DEF Request, Kinds, Steps
  <2>2. Begin(w, r) /\ UNCHANGED Tables
    BY <1>8 DEF ChangeMember, Tables
  <2>3. Begun(r)
    <3> HIDE DEF r
    <3>. QED BY <1>0, <2>1 DEF Begun
  <2>. QED BY <2>2, <2>3
<1>9. ASSUME Send(w) PROVE Goal
  <2> PICK a \in Known, o \in Organizations, e \in Emails, t \in Roles :
             /\ Invitable(e, o)
             /\ Begin(w, [Rest EXCEPT !.kind = "invite", !.step = "clear", !.org = o, !.email = e, !.role = t])
    BY <1>9 DEF Send
  <2> DEFINE r == [Rest EXCEPT !.kind = "invite", !.step = "clear", !.org = o, !.email = e, !.role = t]
  <2>1. /\ r \in Request
        /\ r.kind = "invite" /\ r.step = "clear"
    BY <1>0, <1>00 DEF Request, Kinds, Steps
  <2>2. Begin(w, r) /\ UNCHANGED Tables
    BY <1>9 DEF Send, Tables
  <2>3. Begun(r)
    <3> HIDE DEF r
    <3>. QED BY <1>0, <2>1 DEF Begun
  <2>. QED BY <2>2, <2>3
<1>10. ASSUME Resend(w) PROVE Goal
  <2> PICK a \in Known, i \in Invitations :
             /\ invitation[i].state = "row"
             /\ Begin(w, [Rest EXCEPT !.kind = "invite", !.step = "clear", !.org = invitation[i].org, !.email = invitation[i].email, !.role = invitation[i].role])
    BY <1>10 DEF Resend
  <2> DEFINE r == [Rest EXCEPT !.kind = "invite", !.step = "clear", !.org = invitation[i].org, !.email = invitation[i].email, !.role = invitation[i].role]
  <2>1. /\ r \in Request
        /\ r.kind = "invite" /\ r.step = "clear"
    BY <1>0, <1>00 DEF Request, Kinds, Steps, InvitationRow
  <2>2. Begin(w, r) /\ UNCHANGED Tables
    BY <1>10 DEF Resend, Tables
  <2>3. Begun(r)
    <3> HIDE DEF r
    <3>. QED BY <1>0, <2>1 DEF Begun
  <2>. QED BY <2>2, <2>3
<1>11. ASSUME Accept(w) PROVE Goal
  <2> PICK a \in Known, i \in Invitations :
             /\ Open(i)
             /\ Begin(w, Accepting(a, i))
    BY <1>11 DEF Accept
  <2> DEFINE r == Accepting(a, i)
  <2>1. /\ r \in Request
        /\ r.kind = "accept" /\ r.step = "member" /\ r.row = i
        /\ r.org = invitation[i].org /\ r.role = invitation[i].role
    BY <1>0, <1>00 DEF Request, Kinds, Steps, Accepting, InvitationRow, Known
  <2>2. Begin(w, r) /\ UNCHANGED Tables
    BY <1>11 DEF Accept, Tables
  <2>3. Begun(r)
    <3> HIDE DEF r
    <3>. QED BY <1>0, <2>1 DEF Begun, Calm, Peace, JoinedOnce, Open
  <2>. QED BY <2>2, <2>3
<1>12. ASSUME AcceptMine(w) PROVE Goal
  <2> PICK a \in Known, i \in Invitations :
             /\ OpenFor(i, account[a].email)
             /\ Begin(w, Accepting(a, i))
    BY <1>12 DEF AcceptMine
  <2> DEFINE r == Accepting(a, i)
  <2>1. /\ r \in Request
        /\ r.kind = "accept" /\ r.step = "member" /\ r.row = i
        /\ r.org = invitation[i].org /\ r.role = invitation[i].role
    BY <1>0, <1>00 DEF Request, Kinds, Steps, Accepting, InvitationRow, Known
  <2>2. Begin(w, r) /\ UNCHANGED Tables
    BY <1>12 DEF AcceptMine, Tables
  <2>3. Begun(r)
    <3> HIDE DEF r
    <3>. QED BY <1>0, <2>1 DEF Begun, Calm, Peace, JoinedOnce, Open, OpenFor
  <2>. QED BY <2>2, <2>3
<1>13. ASSUME SignUpAccept(w) PROVE Goal
  <2> PICK i \in Invitations, e \in Emails :
             /\ Open(i)
             /\ Begin(w, [Accepting(Nobody, i) EXCEPT !.kind = "signupAccept", !.step = "hash", !.email = e])
    BY <1>13 DEF SignUpAccept
  <2> DEFINE r == [Accepting(Nobody, i) EXCEPT !.kind = "signupAccept", !.step = "hash", !.email = e]
  <2>1. /\ r \in Request
        /\ r.kind = "signupAccept" /\ r.step = "hash" /\ r.row = i
        /\ r.org = invitation[i].org /\ r.role = invitation[i].role
    BY <1>0, <1>00 DEF Request, Kinds, Steps, Accepting, InvitationRow
  <2>2. Begin(w, r) /\ UNCHANGED Tables
    BY <1>13 DEF SignUpAccept, Tables
  <2>3. Begun(r)
    <3> HIDE DEF r
    <3>. QED BY <1>0, <2>1 DEF Begun, Calm, Peace, JoinedOnce, Open
  <2>. QED BY <2>2, <2>3
<1>14. ASSUME Decline(w) PROVE Goal
  <2> PICK i \in Invitations :
             /\ Open(i)
             /\ Begin(w, [Rest EXCEPT !.kind = "decline", !.step = "update", !.row = i])
    BY <1>14 DEF Decline
  <2> DEFINE r == [Rest EXCEPT !.kind = "decline", !.step = "update", !.row = i]
  <2>1. /\ r \in Request
        /\ r.kind = "decline" /\ r.step = "update"
    BY <1>00 DEF Request, Kinds, Steps
  <2>2. Begin(w, r) /\ UNCHANGED Tables
    BY <1>14 DEF Decline, Tables
  <2>3. Begun(r)
    <3> HIDE DEF r
    <3>. QED BY <1>0, <2>1 DEF Begun
  <2>. QED BY <2>2, <2>3
<1>15. ASSUME SocialLogin(w) PROVE Goal
  <2> PICK s \in Socials :
             LET a == identity[s] IN
             IF a = Nobody
             THEN Begin(w, [Rest EXCEPT !.kind = "social", !.step = "create", !.social = s])
             ELSE /\ account[a].state = "active"
                  /\ Begin(w, [Rest EXCEPT !.kind = "social", !.step = "issue", !.account = a,
                                           !.password = account[a].password])
    BY <1>15 DEF SocialLogin
  <2>1. CASE identity[s] = Nobody
    <3> DEFINE r == [Rest EXCEPT !.kind = "social", !.step = "create", !.social = s]
    <3>1. r \in Request /\ r.kind = "social" /\ r.step = "create" /\ r.password = 0 /\ r.social = s
      BY <1>00 DEF Request, Kinds, Steps
    <3>2. Begin(w, r) /\ UNCHANGED Tables
      BY <1>15, <2>1 DEF SocialLogin, Tables
    <3>3. Begun(r)
      <4> HIDE DEF r
      <4>. QED BY <3>1 DEF Begun
    <3>. QED BY <3>2, <3>3
  <2>2. CASE identity[s] # Nobody
    <3> DEFINE a == identity[s]
               r == [Rest EXCEPT !.kind = "social", !.step = "issue", !.account = a,
                                 !.password = account[a].password]
    <3>1. /\ r \in Request /\ r.kind = "social" /\ r.step = "issue" /\ r.account = a
          /\ r.password = account[a].password /\ a \in Accounts /\ account[a].state = "active"
      BY <1>0, <1>00, <2>2 DEF Request, Kinds, Steps, AccountRow
    <3>2. Begin(w, r) /\ UNCHANGED Tables
      BY <1>15, <2>2 DEF SocialLogin, Tables
    <3>3. Begun(r)
      <4> HIDE DEF r, a
      <4>. QED BY <3>1 DEF Begun
    <3>. QED BY <3>2, <3>3
  <2>. QED BY <2>1, <2>2
<1>. QED BY <1>1, <1>2, <1>3, <1>4, <1>5, <1>6, <1>7, <1>8, <1>9, <1>10, <1>11, <1>12, <1>13, <1>14, <1>15 DEF BeginStep

-----------------------------------------------------------------------------
(* The shape is kept *)

Shaped == /\ account \in [Accounts -> AccountRow]
          /\ identity \in [Socials -> Accounts \cup {Nobody}]
          /\ live \subseteq Accounts \X Nat
          /\ mail \in [Mails -> MailRow] /\ MailsNamed
          /\ mergeable \subseteq Accounts \X Accounts
          /\ member \in [Members -> MemberRow]
          /\ invitation \in [Invitations -> InvitationRow]

\* An invitation's row keeps what it says, and is not made again once it is gone.
Kept == \A i \in Invitations : invitation[i].state # "none" =>
            /\ invitation'[i].state # "none"
            /\ invitation'[i].state = "row" =>
                 /\ invitation[i].state = "row"
                 /\ invitation'[i].org = invitation[i].org /\ invitation'[i].role = invitation[i].role

Follows(r, s) == Accepts(s) => Accepts(r) /\ s.row = r.row /\ s.org = r.org /\ s.role = r.role
Moved == /\ req' \in [Clients -> Request] /\ orderly' \in BOOLEAN
         /\ \A u \in Clients : Fits(req'[u]) /\ Follows(req[u], req'[u])

LEMMA Retyped ==
    ASSUME Typed, Shaped', Kept, Moved
    PROVE  Typed'
<1>1. AccountsTypeOK' /\ MailsNamed'
  BY TypePartsNext DEF Shaped, Moved
<1>2. ASSUME NEW u \in Clients PROVE Fits(req'[u]) /\ Named(req[u])
  BY DEF Moved, Typed
<1>3. ASSUME NEW u \in Clients PROVE Named(req[u])'
  BY <1>2 DEF Moved, Follows, Named, Kept
<1>4. ASSUME NEW u \in Clients PROVE Fits(req[u])'
  BY <1>2 DEF Fits
<1>. QED BY <1>1, <1>3, <1>4 DEF Typed

LEMMA Shapes ==
    ASSUME Typed
    PROVE  /\ Shaped /\ req \in [Clients -> Request] /\ orderly \in BOOLEAN
           /\ \A u \in Clients : Fits(req[u])
BY TypeParts DEF Typed, Shaped

LEMMA Ended ==
    ASSUME Typed, NEW w \in Clients, End(w)
    PROVE  /\ Moved /\ orderly' = orderly
           /\ \A u \in Clients : req'[u] = IF u = w THEN Rest ELSE req[u]
<1>1. req' = [req EXCEPT ![w] = Rest] /\ req \in [Clients -> Request] /\ orderly' = orderly
  BY Shapes DEF End
<1>2. \A u \in Clients : req'[u] = IF u = w THEN Rest ELSE req[u]
  BY <1>1
<1>3. req' \in [Clients -> Request] /\ Fits(Rest) /\ ~Accepts(Rest)
  BY <1>1, Values DEF Fits, Accepts
<1>. QED BY <1>1, <1>2, <1>3, Shapes DEF Moved, Follows

LEMMA Continued ==
    ASSUME Typed, NEW w \in Clients, NEW step \in Steps \ {"issue", "rotate"}, Continue(w, step),
           req[w].step # "issue", req[w].kind # "social"
    PROVE  /\ Moved /\ orderly' = orderly
           /\ \A u \in Clients : req'[u] = IF u = w THEN [req[w] EXCEPT !.step = step] ELSE req[u]
<1>1. req' = [req EXCEPT ![w].step = step] /\ req \in [Clients -> Request] /\ orderly' = orderly
  BY Shapes DEF Continue
<1>2. \A u \in Clients : req'[u] = IF u = w THEN [req[w] EXCEPT !.step = step] ELSE req[u]
  BY <1>1
<1> DEFINE r == [req[w] EXCEPT !.step = step]
<1>3. /\ r \in Request /\ r.step = step /\ r.kind = req[w].kind /\ r.account = req[w].account
      /\ r.social = req[w].social /\ r.row = req[w].row /\ r.org = req[w].org /\ r.role = req[w].role
  BY <1>1 DEF Request
<1>4. req' \in [Clients -> Request]
  BY <1>1, <1>3
<1>5. Fits(r) /\ Follows(req[w], r)
  <2> HIDE DEF r
  <2>. QED BY <1>3, Shapes DEF Fits, Follows, Accepts
<1> HIDE DEF r
<1>6. \A u \in Clients : Fits(req'[u]) /\ Follows(req[u], req'[u])
  BY <1>2, <1>5, Shapes DEF Follows, r
<1>. QED BY <1>1, <1>2, <1>4, <1>6, Shapes DEF Moved

\* A new account, or one that joins by signing up, goes on to open its session.
LEMMA Issuing ==
    ASSUME Typed, NEW w \in Clients, NEW a \in Accounts, NEW p \in Nat, orderly' = orderly,
           req' = [req EXCEPT ![w] = [req[w] EXCEPT !.step = "issue", !.account = a, !.password = p]],
           req[w].kind \notin {"unlink", "change", "mail"}
    PROVE  Moved
<1> DEFINE r == [req[w] EXCEPT !.step = "issue", !.account = a, !.password = p]
<1>1. req \in [Clients -> Request] /\ req[w] \in Request
  BY Shapes
<1>2. r \in Request /\ r.step = "issue" /\ r.kind = req[w].kind /\ r.account = a /\ r.password = p
  BY <1>1 DEF Request, Steps
<1> HIDE DEF r
<1>3. req' = [req EXCEPT ![w] = r]
  BY DEF r
<1>4. req' \in [Clients -> Request] /\ \A u \in Clients : req'[u] = IF u = w THEN r ELSE req[u]
  BY <1>1, <1>2, <1>3
<1>5. Fits(r) /\ ~Accepts(r)
  BY <1>2 DEF Fits, Accepts
<1>. QED BY <1>2, <1>4, <1>5, Shapes DEF Moved, Follows

LEMMA Begins ==
    ASSUME Typed, NEW w \in Clients, NEW r, Begun(r), Begin(w, r), UNCHANGED Tables
    PROVE  /\ Typed'
           /\ req[w] = Rest /\ orderly' = (orderly /\ Quiescent)
           /\ \A u \in Clients : req'[u] = IF u = w THEN r ELSE req[u]
<1>1. /\ req' = [req EXCEPT ![w] = r] /\ orderly' = (orderly /\ Quiescent) /\ req[w] = Rest
      /\ r \in Request /\ Fits(r) /\ Named(r)
  BY DEF Begin, Begun
<1>2. req' \in [Clients -> Request] /\ \A u \in Clients : req'[u] = IF u = w THEN r ELSE req[u]
  BY <1>1, Shapes
<1>3. orderly' \in BOOLEAN
  BY <1>1, Shapes, Zenon
<1>4. AccountsTypeOK' /\ MailsNamed'
  BY <1>2, <1>3, Shapes, TypePartsNext DEF Tables, Shaped, MailsNamed
<1>5. ASSUME NEW u \in Clients PROVE Fits(req'[u]) /\ Named(req'[u])
  BY <1>1, <1>2 DEF Typed
<1>6. ASSUME NEW u \in Clients PROVE Fits(req[u])' /\ Named(req[u])'
  BY <1>5 DEF Tables, Fits, Named
<1>. QED BY <1>1, <1>2, <1>4, <1>6 DEF Typed

LEMMA NewRows == /\ NewAccount \subseteq Accounts /\ NewOrganization \subseteq Organizations
                 /\ NewMember \subseteq Members /\ NewInvitation \subseteq Invitations
                 /\ NewMail \subseteq Mails /\ Known \subseteq Accounts
BY DEF NewAccount, NewOrganization, NewMember, NewInvitation, NewMail, Known

LEMMA NewMemberRow ==
    ASSUME NEW a \in Accounts \cup {Nobody}, NEW o \in Organizations \cup {Nobody}, NEW t \in Roles
    PROVE  [account |-> a, org |-> o, role |-> t, isActive |-> TRUE] \in MemberRow
BY DEF MemberRow

LEMMA OwnerIsARole == "OWNER" \in Roles
BY BoundsAssumption DEF BoundsAssumption

\* The invitation that is accepted stays, as it was.
LEMMA JoinedKeeps ==
    ASSUME Typed, NEW i \in Invitations, invitation' = Joined(i)
    PROVE  /\ invitation' \in [Invitations -> InvitationRow] /\ Kept
           /\ \A j \in Invitations : /\ j # i => invitation'[j] = invitation[j]
                                     /\ invitation'[i].accepted /\ invitation'[i].state = invitation[i].state
                                     /\ invitation'[i].joined = SecondTime(invitation[i].joined)
<1>1. invitation \in [Invitations -> InvitationRow]
  BY Shapes DEF Shaped
<1>2. \A n \in 0..2 : SecondTime(n) \in 0..2
  BY DEF SecondTime
<1> DEFINE row == [invitation[i] EXCEPT !.accepted = TRUE, !.joined = SecondTime(@)]
<1>3. /\ row \in InvitationRow /\ row.state = invitation[i].state /\ row.org = invitation[i].org
      /\ row.role = invitation[i].role /\ row.accepted /\ row.joined = SecondTime(invitation[i].joined)
  BY <1>1, <1>2 DEF InvitationRow
<1>4. invitation' = [invitation EXCEPT ![i] = row]
  BY <1>1 DEF Joined
<1> HIDE DEF row
<1>. QED BY <1>1, <1>3, <1>4 DEF Kept

LEMMA GoneKeeps ==
    ASSUME Typed, NEW S \in SUBSET Invitations,
           invitation' = [i \in Invitations |->
                            IF i \in S THEN [NoInvitation EXCEPT !.state = "gone"] ELSE invitation[i]]
    PROVE  /\ invitation' \in [Invitations -> InvitationRow] /\ Kept
           /\ \A i \in Invitations : invitation'[i] =
                IF i \in S THEN [NoInvitation EXCEPT !.state = "gone"] ELSE invitation[i]
<1>1. invitation \in [Invitations -> InvitationRow]
  BY Shapes DEF Shaped
<1>2. [NoInvitation EXCEPT !.state = "gone"] \in InvitationRow /\ [NoInvitation EXCEPT !.state = "gone"].state = "gone"
  BY Values DEF InvitationRow
<1>. QED BY <1>1, <1>2 DEF Kept

-----------------------------------------------------------------------------
LEMMA SignUpCommitType == ASSUME Typed, NEW w \in Clients, SignUpCommit(w) PROVE Typed'
<1>0. Shaped /\ req[w] \in Request /\ req[w].kind \in {"register", "signup"}
  BY Shapes DEF SignUpCommit, At
<1>1. PICK a \in NewAccount :
         /\ account' = [account EXCEPT ![a] = [state |-> "active", email |-> req[w].email, password |-> 1]]
         /\ IF req[w].kind = "signup"
            THEN /\ \E o \in NewOrganization, m \in NewMember :
                      member' = [member EXCEPT ![m] = [account |-> a, org |-> o, role |-> "OWNER", isActive |-> TRUE]]
                 /\ req' = [req EXCEPT ![w].step = "issue", ![w].account = a, ![w].password = 1]
                 /\ UNCHANGED orderly
            ELSE End(w) /\ UNCHANGED member
  BY DEF SignUpCommit
<1>2. account' \in [Accounts -> AccountRow]
  BY <1>0, <1>1, NewRows DEF Shaped, AccountRow, Request
<1>3. member' \in [Members -> MemberRow]
  BY <1>0, <1>1, NewRows, NewMemberRow, OwnerIsARole DEF Shaped
<1>4. Moved
  <2>1. CASE req[w].kind = "signup"
    <3>1. req' = [req EXCEPT ![w] = [req[w] EXCEPT !.step = "issue", !.account = a, !.password = 1]]
      BY <1>1, <2>1, Shapes
    <3>. QED BY <1>0, <1>1, <2>1, <3>1, Issuing, NewRows
  <2>. QED BY <1>1, <2>1, Ended
<1>5. Shaped' /\ Kept
  BY <1>0, <1>2, <1>3 DEF SignUpCommit, Shaped, MailsNamed, Kept
<1>. QED BY <1>4, <1>5, Retyped

LEMMA SocialCreateType == ASSUME Typed, NEW w \in Clients, SocialCreate(w) PROVE Typed'
<1>0. Shaped /\ req[w] \in Request /\ req[w].kind = "social"
  BY Shapes DEF SocialCreate, At
<1>1. PICK a \in NewAccount, e \in Emails :
         /\ account' = [account EXCEPT ![a] = [state |-> "active", password |-> 0,
                                               email |-> IF ByEmail(e) = {} THEN e ELSE None]]
         /\ identity' = [identity EXCEPT ![req[w].social] = a]
         /\ req' = [req EXCEPT ![w].step = "issue", ![w].account = a]
  BY DEF SocialCreate
<1>2. account' \in [Accounts -> AccountRow]
  <2> DEFINE email == IF ByEmail(e) = {} THEN e ELSE None
  <2>1. email \in Emails \cup {None}
    OBVIOUS
  <2> HIDE DEF email
  <2>2. account' = [account EXCEPT ![a] = [state |-> "active", password |-> 0, email |-> email]]
    BY <1>1 DEF email
  <2>. QED BY <1>0, <2>1, <2>2, NewRows DEF Shaped, AccountRow
<1>3. identity' \in [Socials -> Accounts \cup {Nobody}]
  BY <1>0, <1>1, NewRows DEF Shaped
<1>4. req' = [req EXCEPT ![w] = [req[w] EXCEPT !.step = "issue", !.account = a, !.password = req[w].password]]
  BY <1>0, <1>1, Shapes DEF Request
<1>5. Moved
  BY <1>0, <1>4, Issuing, NewRows DEF SocialCreate, Request
<1>6. Shaped' /\ Kept
  BY <1>0, <1>2, <1>3 DEF SocialCreate, Shaped, MailsNamed, Kept
<1>. QED BY <1>5, <1>6, Retyped

LEMMA SignUpJoinType == ASSUME Typed, NEW w \in Clients, SignUpJoin(w) PROVE Typed'
<1>0. Shaped /\ req[w] \in Request /\ req[w].kind = "signupAccept" /\ req[w].step = "hash"
  BY Shapes DEF SignUpJoin, At
<1>1. PICK a \in NewAccount, m \in NewMember :
         /\ account' = [account EXCEPT ![a] = [state |-> "active", email |-> req[w].email, password |-> 1]]
         /\ member' = [member EXCEPT ![m] = [account |-> a, org |-> req[w].org, role |-> req[w].role,
                                             isActive |-> TRUE]]
         /\ req' = [req EXCEPT ![w].step = "issue", ![w].account = a, ![w].password = 1]
  BY DEF SignUpJoin
<1>2. account' \in [Accounts -> AccountRow]
  BY <1>0, <1>1, NewRows DEF Shaped, AccountRow, Request
<1>3. member' \in [Members -> MemberRow]
  <2>1. req[w].org \in Organizations \cup {Nobody} /\ req[w].role \in Roles
    BY <1>0 DEF Request
  <2>. QED BY <1>0, <1>1, <2>1, NewRows, NewMemberRow DEF Shaped
<1>4. req' = [req EXCEPT ![w] = [req[w] EXCEPT !.step = "issue", !.account = a, !.password = 1]]
  BY <1>1, Shapes
<1>5. Moved
  BY <1>0, <1>4, Issuing, NewRows DEF SignUpJoin
<1>6. req[w].row \in Invitations
  BY <1>0 DEF Typed, Named, Accepts
<1>7. Shaped' /\ Kept
  BY <1>0, <1>2, <1>3, <1>6, JoinedKeeps DEF SignUpJoin, Shaped, MailsNamed
<1>. QED BY <1>5, <1>7, Retyped

LEMMA MergeType == ASSUME Typed, Merge PROVE Typed'
<1>0. Shaped
  BY Shapes
<1>1. PICK src, dst \in Accounts :
         LET taken(s) == \E t \in IdentitiesOf(dst) : Provider[t] = Provider[s] IN
         /\ identity' = [s \in Socials |-> IF identity[s] = src /\ ~taken(s) THEN dst ELSE identity[s]]
         /\ member' = [m \in Members |->
                         IF member[m].account = src /\ RowsOf(dst, member[m].org) = {}
                         THEN [member[m] EXCEPT !.account = dst] ELSE member[m]]
         /\ live' = live \ SessionsOf(src)
         /\ account' = [account EXCEPT ![src].state = "merged", ![src].email = None]
  BY DEF Merge
<1>2. identity' \in [Socials -> Accounts \cup {Nobody}]
  BY <1>0, <1>1 DEF Shaped
<1>3. member' \in [Members -> MemberRow]
  BY <1>0, <1>1 DEF Shaped, MemberRow
<1>4. live' \subseteq Accounts \X Nat
  BY <1>0, <1>1 DEF Shaped
<1>5. account' \in [Accounts -> AccountRow]
  BY <1>0, <1>1 DEF Shaped, AccountRow
<1>6. Moved
  BY Shapes DEF Merge, Once, Moved, Follows
<1>7. Shaped' /\ Kept
  BY <1>0, <1>2, <1>3, <1>4, <1>5 DEF Merge, Shaped, MailsNamed, Kept
<1>. QED BY <1>6, <1>7, Retyped

LEMMA PasswordCommitType == ASSUME Typed, NEW w \in Clients, PasswordCommit(w) PROVE Typed'
<1> DEFINE a == req[w].account
<1>0. Shaped /\ req[w].step = "hash" /\ req[w].kind # "social" /\ a \in Accounts
  BY Shapes DEF PasswordCommit, At, Fits
<1>1. account' \in [Accounts -> AccountRow]
  <2> DEFINE row == [account[a] EXCEPT !.password = @ + 1]
  <2>1. account \in [Accounts -> AccountRow] /\ account[a] \in AccountRow
    BY <1>0 DEF Shaped
  <2>2. row \in AccountRow
    BY <2>1 DEF AccountRow
  <2>3. account' = [account EXCEPT ![a] = row]
    BY <1>0, <2>1 DEF PasswordCommit
  <2> HIDE DEF row, a
  <2>. QED BY <2>1, <2>2, <2>3
<1>2. live' \subseteq Accounts \X Nat
  BY <1>0 DEF PasswordCommit, Shaped
<1>3. mail' \in [Mails -> MailRow] /\ MailsNamed'
  BY <1>0 DEF PasswordCommit, Shaped, MailRow, MailsNamed, SecondTime
<1>4. Moved
  BY <1>0, Ended, Continued DEF PasswordCommit, Steps
<1>5. Shaped' /\ Kept
  BY <1>0, <1>1, <1>2, <1>3 DEF PasswordCommit, Shaped, Kept
<1>. QED BY <1>4, <1>5, Retyped

LEMMA JoinType == ASSUME Typed, NEW w \in Clients, Join(w) \/ Rejoin(w) PROVE Typed'
<1>0. Shaped /\ req[w] \in Request /\ req[w].kind = "accept" /\ req[w].step # "issue"
  BY Shapes DEF Join, Rejoin, At
<1>1. req[w].row \in Invitations
  BY <1>0 DEF Typed, Named, Accepts
<1>2. /\ req[w].account \in Accounts \cup {Nobody} /\ req[w].org \in Organizations \cup {Nobody}
      /\ req[w].role \in Roles
  BY <1>0 DEF Request
<1>3. member' \in [Members -> MemberRow]
  <2>1. CASE Join(w)
    <3>1. PICK m \in NewMember :
             member' = [member EXCEPT ![m] = [account |-> req[w].account, org |-> req[w].org,
                                              role |-> req[w].role, isActive |-> TRUE]]
      BY <2>1 DEF Join
    <3>. QED BY <1>0, <1>2, <3>1, NewMemberRow DEF Shaped
  <2>2. CASE Rejoin(w)
    BY <1>0, <1>2, <2>2 DEF Rejoin, Shaped, MemberRow, RowsOf
  <2>. QED BY <2>1, <2>2
<1>4. Moved
  BY Ended DEF Join, Rejoin
<1>5. Shaped' /\ Kept
  BY <1>0, <1>1, <1>3, JoinedKeeps DEF Join, Rejoin, Shaped, MailsNamed
<1>. QED BY <1>4, <1>5, Retyped

LEMMA InviteType ==
    ASSUME Typed, NEW w \in Clients, Clear(w) \/ Create(w) \/ DeclineUpdate(w)
    PROVE  Typed'
<1>0. Shaped /\ req[w] \in Request /\ req[w].step # "issue" /\ req[w].kind # "social"
  BY Shapes DEF Clear, Create, DeclineUpdate, At
<1>1. invitation' \in [Invitations -> InvitationRow] /\ Kept
  <2>1. CASE Clear(w)
    BY <2>1, GoneKeeps DEF Clear, Unaccepted
  <2>2. CASE Create(w)
    <3> DEFINE row == [NoInvitation EXCEPT !.state = "row", !.org = req[w].org, !.email = req[w].email,
                                           !.role = req[w].role]
    <3>1. row \in InvitationRow
      BY <1>0, Values DEF InvitationRow, Request
    <3>2. PICK i \in NewInvitation : invitation' = [invitation EXCEPT ![i] = row]
      BY <2>2 DEF Create
    <3> HIDE DEF row
    <3>. QED BY <1>0, <3>1, <3>2, NewRows DEF Shaped, Kept, NewInvitation
  <2>3. CASE DeclineUpdate(w)
    <3> DEFINE i == req[w].row
               row == [invitation[i] EXCEPT !.declined = TRUE]
    <3>1. invitation \in [Invitations -> InvitationRow] /\ invitation' = [invitation EXCEPT ![i] = row]
      BY <1>0, <2>3 DEF DeclineUpdate, Shaped
    <3>2. i \in Invitations => /\ row \in InvitationRow /\ row.state = invitation[i].state
                               /\ row.org = invitation[i].org /\ row.role = invitation[i].role
      BY <3>1 DEF InvitationRow
    <3> HIDE DEF row, i
    <3>. QED BY <3>1, <3>2 DEF Kept
  <2>. QED BY <2>1, <2>2, <2>3
<1>2. Moved
  BY <1>0, Ended, Continued DEF Clear, Create, DeclineUpdate, Steps
<1>3. Shaped'
  BY <1>0, <1>1 DEF Clear, Create, DeclineUpdate, Shaped, MailsNamed
<1>. QED BY <1>1, <1>2, <1>3, Retyped

LEMMA RequestCommitType ==
    ASSUME Typed, NEW w \in Clients,
           \/ IssueTokens(w) \/ RotateSession(w) \/ LinkCreate(w) \/ UnlinkDelete(w) \/ VerifyCommit(w)
           \/ MarkUsed(w) \/ ChangeMemberCommit(w) \/ CheckMember(w) \/ Stop(w)
    PROVE  Typed'
<1>0. Shaped /\ req[w] \in Request /\ Fits(req[w])
  BY Shapes
<1>1. CASE IssueTokens(w) \/ RotateSession(w)
  <2>1. req[w].account \in Accounts /\ req[w].password \in Nat
    BY <1>0, <1>1 DEF IssueTokens, RotateSession, At, Fits, Request
  <2>2. Moved
    BY <1>1, Ended DEF IssueTokens, RotateSession
  <2>3. Shaped' /\ Kept
    BY <1>0, <1>1, <2>1 DEF IssueTokens, RotateSession, Shaped, MailsNamed, Kept
  <2>. QED BY <2>2, <2>3, Retyped
<1>2. CASE LinkCreate(w) \/ UnlinkDelete(w)
  <2>1. req[w].account \in Accounts \cup {Nobody}
    BY <1>0 DEF Request
  <2>2. Moved
    BY <1>2, Ended DEF LinkCreate, UnlinkDelete
  <2>3. identity' \in [Socials -> Accounts \cup {Nobody}]
    BY <1>0, <1>2, <2>1 DEF LinkCreate, UnlinkDelete, Shaped
  <2>4. Shaped' /\ Kept
    BY <1>0, <1>2, <2>3 DEF LinkCreate, UnlinkDelete, Shaped, MailsNamed, Kept
  <2>. QED BY <2>2, <2>4, Retyped
<1>3. CASE VerifyCommit(w) \/ MarkUsed(w)
  <2> DEFINE m == req[w].row
             row == IF VerifyCommit(w) THEN [mail[m] EXCEPT !.spent = SecondTime(@)]
                                       ELSE [mail[m] EXCEPT !.state = "used"]
  <2>a. mail \in [Mails -> MailRow] /\ mail' = [mail EXCEPT ![m] = row] /\ MailsNamed
    BY <1>0, <1>3 DEF VerifyCommit, MarkUsed, Shaped, At
  <2>b. m \in Mails => row \in MailRow /\ row.account = mail[m].account
                       /\ (row.state = "sent" => mail[m].state = "sent")
    BY <2>a DEF MailRow, SecondTime
  <2>1. mail' \in [Mails -> MailRow] /\ MailsNamed'
    <3> HIDE DEF row, m
    <3>. QED BY <2>a, <2>b DEF MailsNamed
  <2>2. Moved
    BY <1>3, Ended, Continued DEF VerifyCommit, MarkUsed, At, Steps
  <2>3. Shaped' /\ Kept
    BY <1>0, <1>3, <2>1 DEF VerifyCommit, MarkUsed, Shaped, Kept
  <2>. QED BY <2>2, <2>3, Retyped
<1>4. CASE ChangeMemberCommit(w)
  <2>1. req[w].role \in Roles
    BY <1>0 DEF Request
  <2>2. member' \in [Members -> MemberRow]
    BY <1>0, <1>4, <2>1 DEF ChangeMemberCommit, Shaped, MemberRow
  <2>3. Moved
    BY <1>4, Ended DEF ChangeMemberCommit
  <2>4. Shaped' /\ Kept
    BY <1>0, <1>4, <2>2 DEF ChangeMemberCommit, Shaped, MailsNamed, Kept
  <2>. QED BY <2>3, <2>4, Retyped
<1>5. CASE CheckMember(w)
  <2>1. Moved
    BY <1>5, Ended, Continued DEF CheckMember, At, Steps
  <2>2. Shaped' /\ Kept
    BY <1>0, <1>5 DEF CheckMember, Shaped, MailsNamed, Kept
  <2>. QED BY <2>1, <2>2, Retyped
<1>6. CASE Stop(w)
  <2>1. req' = [req EXCEPT ![w] = Rest] /\ orderly' \in BOOLEAN /\ req \in [Clients -> Request]
    BY <1>6, Shapes, Zenon DEF Stop
  <2>2. Fits(Rest) /\ ~Accepts(Rest)
    BY Values DEF Fits, Accepts
  <2>3. Moved
    BY <2>1, <2>2, Values, Shapes DEF Moved, Follows
  <2>4. Shaped' /\ Kept
    BY <1>0, <1>6 DEF Stop, Shaped, MailsNamed, Kept
  <2>. QED BY <2>3, <2>4, Retyped
<1>. QED BY <1>1, <1>2, <1>3, <1>4, <1>5, <1>6

LEMMA StatementType ==
    ASSUME Typed, \/ SessionEnds \/ OfferMerge \/ MergeTokenLapses \/ SendMail \/ MailLapses
                  \/ CreateOrganization \/ Cancel \/ InvitationExpires
    PROVE  Typed'
<1>0. Shaped
  BY Shapes
<1>1. orderly' \in BOOLEAN
  BY Shapes, Zenon DEF SessionEnds, OfferMerge, MergeTokenLapses, SendMail, MailLapses, CreateOrganization,
                       Cancel, InvitationExpires, Once
<1>2. Moved
  BY <1>1, Shapes DEF SessionEnds, OfferMerge, MergeTokenLapses, SendMail, MailLapses, CreateOrganization,
                      Cancel, InvitationExpires, Once, Moved, Follows
<1>3. CASE SessionEnds
  BY <1>0, <1>2, <1>3, Retyped DEF SessionEnds, Shaped, MailsNamed, Kept
<1>4. CASE OfferMerge \/ MergeTokenLapses
  <2>1. mergeable' \subseteq Accounts \X Accounts
    BY <1>0, <1>4, NewRows DEF OfferMerge, MergeTokenLapses, Shaped
  <2>2. Shaped' /\ Kept
    BY <1>0, <1>4, <2>1 DEF OfferMerge, MergeTokenLapses, Shaped, MailsNamed, Kept
  <2>. QED BY <1>2, <2>2, Retyped
<1>5. CASE SendMail
  <2>1. PICK m \in NewMail, a \in Accounts, type \in {"PASSWORD_RESET", "EMAIL_VERIFY"} :
           mail' = [mail EXCEPT ![m] = [type |-> type, account |-> a, state |-> "sent", spent |-> 0]]
    BY <1>5 DEF SendMail
  <2>2. [type |-> type, account |-> a, state |-> "sent", spent |-> 0] \in MailRow
    BY DEF MailRow
  <2>3. mail' \in [Mails -> MailRow] /\ MailsNamed'
    BY <1>0, <2>1, <2>2, NewRows DEF Shaped, MailsNamed
  <2>. QED BY <1>0, <1>2, <1>5, <2>3, Retyped DEF SendMail, Shaped, Kept
<1>6. CASE MailLapses
  <2>1. mail' \in [Mails -> MailRow] /\ MailsNamed'
    BY <1>0, <1>6 DEF MailLapses, Shaped, MailsNamed, MailRow
  <2>. QED BY <1>0, <1>2, <1>6, <2>1, Retyped DEF MailLapses, Shaped, Kept
<1>7. CASE CreateOrganization
  <2>1. PICK a \in Known, o \in NewOrganization, m \in NewMember :
           member' = [member EXCEPT ![m] = [account |-> a, org |-> o, role |-> "OWNER", isActive |-> TRUE]]
    BY <1>7 DEF CreateOrganization
  <2>2. member' \in [Members -> MemberRow]
    BY <1>0, <2>1, NewRows, NewMemberRow, OwnerIsARole DEF Shaped
  <2>. QED BY <1>0, <1>2, <1>7, <2>2, Retyped DEF CreateOrganization, Shaped, MailsNamed, Kept
<1>8. CASE Cancel
  <2>1. PICK i \in Invitations : invitation' = [invitation EXCEPT ![i] = [NoInvitation EXCEPT !.state = "gone"]]
    BY <1>8 DEF Cancel
  <2>2. invitation' = [j \in Invitations |->
                         IF j \in {i} THEN [NoInvitation EXCEPT !.state = "gone"] ELSE invitation[j]]
    BY <1>0, <2>1 DEF Shaped
  <2>3. invitation' \in [Invitations -> InvitationRow] /\ Kept
    BY <2>2, GoneKeeps
  <2>. QED BY <1>0, <1>2, <1>8, <2>3, Retyped DEF Cancel, Shaped, MailsNamed
<1>9. CASE InvitationExpires
  <2>1. PICK i \in Invitations : invitation' = [invitation EXCEPT ![i] = [invitation[i] EXCEPT !.expired = TRUE]]
    BY <1>0, <1>9 DEF InvitationExpires, Shaped
  <2> DEFINE row == [invitation[i] EXCEPT !.expired = TRUE]
  <2>2. /\ row \in InvitationRow /\ row.state = invitation[i].state /\ row.org = invitation[i].org
        /\ row.role = invitation[i].role
    BY <1>0 DEF Shaped, InvitationRow
  <2>3. invitation' \in [Invitations -> InvitationRow] /\ Kept
    <3> HIDE DEF row
    <3>. QED BY <1>0, <2>1, <2>2 DEF Shaped, Kept, row
  <2>. QED BY <1>0, <1>2, <1>9, <2>3, Retyped DEF InvitationExpires, Shaped, MailsNamed
<1>. QED BY <1>3, <1>4, <1>5, <1>6, <1>7, <1>8, <1>9

\* What a step is: the beginning of a request, or what one writes.
LEMMA StepsAre ==
    ASSUME AccountsNext
    PROVE  \/ \E w \in Clients :
                \/ BeginStep(w)
                \/ SignUpCommit(w) \/ SocialCreate(w) \/ SignUpJoin(w) \/ PasswordCommit(w)
                \/ Join(w) \/ Rejoin(w) \/ Clear(w) \/ Create(w) \/ DeclineUpdate(w)
                \/ IssueTokens(w) \/ RotateSession(w) \/ LinkCreate(w) \/ UnlinkDelete(w) \/ VerifyCommit(w)
                \/ MarkUsed(w) \/ ChangeMemberCommit(w) \/ CheckMember(w) \/ Stop(w)
           \/ Merge \/ SessionEnds \/ OfferMerge \/ MergeTokenLapses \/ SendMail \/ MailLapses
           \/ CreateOrganization \/ Cancel \/ InvitationExpires
BY DEF AccountsNext, SignInNext, MembersNext, BeginStep

LEMMA InitTyped == AccountsInit => Typed
<1> SUFFICES ASSUME AccountsInit PROVE Typed
  OBVIOUS
<1>1. AccountsTypeOK
  BY Values, TypeParts DEF AccountsInit
<1>2. MailsNamed
  BY DEF AccountsInit, MailsNamed, NoMail
<1>3. \A w \in Clients : Fits(req[w]) /\ Named(req[w])
  BY Values DEF AccountsInit, Fits, Named, Accepts
<1>. QED BY <1>1, <1>2, <1>3 DEF Typed

LEMMA TypedStep == Typed /\ [AccountsNext]_rows => Typed'
<1> SUFFICES ASSUME Typed, [AccountsNext]_rows PROVE Typed'
  OBVIOUS
<1>1. CASE UNCHANGED rows
  BY <1>1 DEF rows, Typed, AccountsTypeOK, MailsNamed, Named, Accepts
<1>2. ASSUME NEW w \in Clients, BeginStep(w) PROVE Typed'
  BY <1>2, Beginning, Begins
<1>3. CASE AccountsNext
  BY <1>2, <1>3, StepsAre, SignUpCommitType, SocialCreateType, SignUpJoinType, PasswordCommitType, JoinType,
     InviteType, RequestCommitType, MergeType, StatementType
<1>. QED BY <1>1, <1>3

\* The rows, the sessions and the requests keep the shape of the schema, for any number of them.
THEOREM TypeCorrect == AccountsSpec => []AccountsTypeOK
<1>1. Typed => AccountsTypeOK
  BY DEF Typed
<1>. QED BY <1>1, InitTyped, TypedStep, PTL DEF AccountsSpec

-----------------------------------------------------------------------------
(* Who becomes a member *)

\* A row that is as it was makes nobody a member.
LEMMA StayedMember ==
    ASSUME Typed, NEW m \in Members, member'[m].isActive, member'[m].account = member[m].account,
           member'[m].org = member[m].org, member[m].isActive
    PROVE  ActiveIn(member'[m].account, member'[m].org)
BY DEF ActiveIn, RowsOf

LetIn(m) ==
    LET n == member'[m] IN
    \/ member[m].isActive /\ account'[member[m].account].state = "merged"
    \/ \A k \in Members : member[k].org # n.org
    \/ \E i \in Invitations : /\ invitation[i].state = "row" /\ invitation'[i].accepted
                              /\ invitation[i].org = n.org /\ invitation[i].role = n.role

LEMMA OrganizationIsNew ==
    ASSUME Typed, NEW o \in NewOrganization
    PROVE  \A k \in Members : member[k].org # o
<1>1. \A k \in Members : member[k].org < o
  BY DEF NewOrganization
<1>2. \A k \in Members : member[k].org \in Organizations \cup {Nobody}
  BY Shapes DEF Shaped, MemberRow
<1>3. o \in Nat /\ \A k \in Members : member[k].org \in Nat
  BY <1>2 DEF NewOrganization, Organizations, Nobody
<1>. QED BY <1>1, <1>3

LEMMA MemberStep ==
    ASSUME Typed, AccountsNext, NEW m \in Members, member'[m].isActive,
           ~ActiveIn(member'[m].account, member'[m].org)
    PROVE  LetIn(m)
<1>0. Shaped /\ req \in [Clients -> Request]
  BY Shapes
<1>1. CASE member'[m] = member[m]
  BY <1>1, StayedMember
<1>2. ASSUME NEW w \in Clients, SignUpCommit(w), member'[m] # member[m] PROVE LetIn(m)
  <2>1. PICK a \in NewAccount, o \in NewOrganization, k \in NewMember :
           member' = [member EXCEPT ![k] = [account |-> a, org |-> o, role |-> "OWNER", isActive |-> TRUE]]
    BY <1>2 DEF SignUpCommit
  <2>2. member'[m].org = o
    BY <1>0, <1>2, <2>1 DEF Shaped
  <2>. QED BY <2>2, OrganizationIsNew DEF LetIn
<1>3. ASSUME CreateOrganization, member'[m] # member[m] PROVE LetIn(m)
  <2>1. PICK a \in Known, o \in NewOrganization, k \in NewMember :
           member' = [member EXCEPT ![k] = [account |-> a, org |-> o, role |-> "OWNER", isActive |-> TRUE]]
    BY <1>3 DEF CreateOrganization
  <2>2. member'[m].org = o
    BY <1>0, <1>3, <2>1 DEF Shaped
  <2>. QED BY <2>2, OrganizationIsNew DEF LetIn
<1>4. ASSUME NEW w \in Clients, Join(w) \/ SignUpJoin(w) \/ Rejoin(w), member'[m] # member[m] PROVE LetIn(m)
  <2> DEFINE i == req[w].row
  <2>1. Accepts(req[w])
    BY <1>4 DEF Join, SignUpJoin, Rejoin, At, Accepts
  <2>2. /\ i \in Invitations /\ invitation[i].state = "row" /\ invitation' = Joined(i)
        /\ invitation[i].org = req[w].org /\ invitation[i].role = req[w].role
    BY <1>4, <2>1 DEF Join, SignUpJoin, Rejoin, Typed, Named
  <2>3. invitation'[i].accepted
    BY <2>2, JoinedKeeps
  <2>4. member'[m].org = req[w].org /\ member'[m].role = req[w].role
    <3>1. CASE Join(w)
      <4>1. PICK k \in NewMember :
               member' = [member EXCEPT ![k] = [account |-> req[w].account, org |-> req[w].org,
                                                role |-> req[w].role, isActive |-> TRUE]]
        BY <3>1 DEF Join
      <4>. QED BY <1>0, <1>4, <4>1 DEF Shaped
    <3>2. CASE SignUpJoin(w)
      <4>1. PICK a \in NewAccount, k \in NewMember :
               member' = [member EXCEPT ![k] = [account |-> a, org |-> req[w].org,
                                                role |-> req[w].role, isActive |-> TRUE]]
        BY <3>2 DEF SignUpJoin
      <4>. QED BY <1>0, <1>4, <4>1 DEF Shaped
    <3>3. CASE Rejoin(w)
      <4>1. PICK k \in RowsOf(req[w].account, req[w].org) :
               member' = [member EXCEPT ![k].role = req[w].role, ![k].isActive = TRUE]
        BY <3>3 DEF Rejoin
      <4>2. member[k].org = req[w].org /\ k \in Members /\ member \in [Members -> MemberRow]
        BY <1>0 DEF RowsOf, Shaped
      <4>. QED BY <1>4, <4>1, <4>2 DEF MemberRow
    <3>. QED BY <1>4, <3>1, <3>2, <3>3
  <2> HIDE DEF i
  <2>. QED BY <2>2, <2>3, <2>4 DEF LetIn
<1>5. ASSUME Merge, member'[m] # member[m] PROVE LetIn(m)
  <2>1. PICK src, dst \in Accounts :
           /\ member' = [k \in Members |->
                           IF member[k].account = src /\ RowsOf(dst, member[k].org) = {}
                           THEN [member[k] EXCEPT !.account = dst] ELSE member[k]]
           /\ account' = [account EXCEPT ![src].state = "merged", ![src].email = None]
    BY <1>5 DEF Merge
  <2>2. member[m].account = src /\ member'[m] = [member[m] EXCEPT !.account = dst]
    BY <1>5, <2>1
  <2>3. member[m].isActive
    BY <1>0, <2>2 DEF Shaped, MemberRow
  <2>4. account'[src].state = "merged"
    BY <1>0, <2>1 DEF Shaped, AccountRow
  <2>. QED BY <2>2, <2>3, <2>4 DEF LetIn
<1>6. ASSUME NEW w \in Clients, ChangeMemberCommit(w) PROVE LetIn(m)
  <2>1. member'[m].account = member[m].account /\ member'[m].org = member[m].org /\ member[m].isActive
    BY <1>0, <1>6 DEF ChangeMemberCommit, Shaped, MemberRow
  <2>. QED BY <2>1, StayedMember
<1>7. ASSUME NEW w \in Clients, BeginStep(w) PROVE member' = member
  <2>1. \E r : Begun(r) /\ Begin(w, r) /\ UNCHANGED Tables
    BY <1>7, Beginning
  <2>. QED BY <2>1 DEF Tables
<1>8. ASSUME \/ \E w \in Clients :
                   \/ SocialCreate(w) \/ PasswordCommit(w) \/ Clear(w) \/ Create(w) \/ DeclineUpdate(w)
                   \/ IssueTokens(w) \/ RotateSession(w) \/ LinkCreate(w) \/ UnlinkDelete(w)
                   \/ VerifyCommit(w) \/ MarkUsed(w) \/ CheckMember(w) \/ Stop(w)
             \/ SessionEnds \/ OfferMerge \/ MergeTokenLapses \/ SendMail \/ MailLapses \/ Cancel
             \/ InvitationExpires
      PROVE  member' = member
  BY <1>8 DEF SocialCreate, PasswordCommit, Clear, Create, DeclineUpdate, IssueTokens, RotateSession,
     LinkCreate, UnlinkDelete, VerifyCommit, MarkUsed, CheckMember, Stop, SessionEnds, OfferMerge,
     MergeTokenLapses, SendMail, MailLapses, Cancel, InvitationExpires
<1>. QED BY <1>1, <1>2, <1>3, <1>4, <1>5, <1>6, <1>7, <1>8, StepsAre

\* However requests overlap, and for any number of them: nobody becomes a member but by founding the
\* organization, by a merge, or by an invitation that is still there.
THEOREM MembersAreInvited == AccountsSpec => InvitedOnly
<1>1. ASSUME Typed, [AccountsNext]_rows
      PROVE  [\A m \in Members :
                LET n == member'[m] IN
                n.isActive /\ ~ActiveIn(n.account, n.org) => LetIn(m)]_rows
  BY <1>1, MemberStep
<1>2. ASSUME Typed, [AccountsNext]_rows
      PROVE  [\A m \in Members :
                LET n == member'[m] IN
                n.isActive /\ ~ActiveIn(n.account, n.org) =>
                    \/ member[m].isActive /\ account'[member[m].account].state = "merged"
                    \/ \A k \in Members : member[k].org # n.org
                    \/ \E i \in Invitations :
                         /\ invitation[i].state = "row" /\ invitation'[i].accepted
                         /\ invitation[i].org = n.org /\ invitation[i].role = n.role]_rows
  BY <1>1, <1>2 DEF LetIn
<1>. QED BY <1>2, InitTyped, TypedStep, PTL DEF AccountsSpec, InvitedOnly

-----------------------------------------------------------------------------
(* One request at a time *)

LEMMA RestRelies ==
    /\ Relies(Rest) /\ Relies(Rest)' /\ Rest.step = "none" /\ Rest.kind = "none"
    /\ ~Accepts(Rest)
BY Values DEF Relies, Accepts

LEMMA OrderlyBefore == ASSUME AccountsNext, orderly' PROVE orderly
<1>1. ASSUME NEW w \in Clients, BeginStep(w) PROVE orderly
  BY <1>1 DEF BeginStep, SignUp, SignIn, SocialLogin, RefreshSession, Link, Unlink, ChangePassword, UseMail,
              ChangeMember, Send, Resend, Accept, AcceptMine, SignUpAccept, Decline, Begin
<1>2. ASSUME NEW w \in Clients, SignUpCommit(w) \/ SocialCreate(w) \/ SignUpJoin(w) \/ PasswordCommit(w)
      PROVE  orderly
  BY <1>2 DEF SignUpCommit, SocialCreate, SignUpJoin, PasswordCommit, End, Continue
<1>3. ASSUME NEW w \in Clients,
             \/ Join(w) \/ Rejoin(w) \/ Clear(w) \/ Create(w) \/ DeclineUpdate(w) \/ IssueTokens(w)
             \/ RotateSession(w) \/ LinkCreate(w) \/ UnlinkDelete(w) \/ VerifyCommit(w) \/ MarkUsed(w)
             \/ ChangeMemberCommit(w) \/ CheckMember(w) \/ Stop(w)
      PROVE  orderly
  BY <1>3 DEF Join, Rejoin, Clear, Create, DeclineUpdate, IssueTokens, RotateSession, LinkCreate, UnlinkDelete,
              VerifyCommit, MarkUsed, ChangeMemberCommit, CheckMember, Stop, End, Continue
<1>4. ASSUME Merge \/ SessionEnds \/ OfferMerge \/ MergeTokenLapses \/ SendMail \/ MailLapses
             \/ CreateOrganization \/ Cancel \/ InvitationExpires
      PROVE  orderly
  BY <1>4 DEF Merge, SessionEnds, OfferMerge, MergeTokenLapses, SendMail, MailLapses, CreateOrganization,
              Cancel, InvitationExpires, Once
<1>. QED BY <1>1, <1>2, <1>3, <1>4, StepsAre

\* A request that writes is the only one.
LEMMA Lone ==
    ASSUME Peace, NEW w \in Clients, req[w].step # "none"
    PROVE  /\ \A u \in Clients : u # w => req[u] = Rest
           /\ Relies(req[w])
           /\ req[w].step # "mark" => \A m \in Mails : ~Marking(m)
BY RestRelies DEF Peace, Sole, Reads, Marking

\* It ends: nobody is at work.
LEMMA LoneEnds ==
    ASSUME Typed, Peace, NEW w \in Clients, req[w].step # "none", End(w)
    PROVE  Sole' /\ Reads'
<1>1. \A u \in Clients : req'[u] = Rest
  BY Lone, Ended
<1>. QED BY <1>1, RestRelies DEF Sole, Reads

\* It goes on: it must still find what it read.
LEMMA LoneGoesOn ==
    ASSUME Peace, NEW w \in Clients, req[w].step # "none",
           \A u \in Clients : u # w => req'[u] = req[u], Relies(req[w])'
    PROVE  Sole' /\ Reads'
<1>1. \A u \in Clients : u # w => req'[u] = Rest
  BY Lone
<1>2. Sole'
  BY <1>1 DEF Sole
<1>3. ASSUME NEW u \in Clients PROVE Relies(req[u])'
  BY <1>1, RestRelies
<1>. QED BY <1>2, <1>3 DEF Reads

\* What is not written stays true.
LEMMA Stays ==
    ASSUME Peace
    PROVE  /\ UNCHANGED account /\ live' \subseteq live => LiveSessions'
           /\ UNCHANGED account => Blank'
           /\ UNCHANGED <<account, identity>> => WayIn'
           /\ UNCHANGED <<account, mail>> /\ (\A m \in Mails : ~Marking(m)) => SpentOnce'
           /\ UNCHANGED <<account, mail, req>> => SpentOnce'
           /\ UNCHANGED invitation => JoinedOnce' /\ OneOpen'
<1>1. UNCHANGED account /\ live' \subseteq live => LiveSessions'
  BY DEF Peace, LiveSessions
<1>2. UNCHANGED account => Blank'
  BY DEF Peace, Blank
<1>3. UNCHANGED <<account, identity>> => WayIn'
  BY DEF Peace, WayIn
<1>4. UNCHANGED <<account, mail>> /\ (\A m \in Mails : ~Marking(m)) => SpentOnce'
  BY DEF Peace, SpentOnce, WithMail
<1>5. UNCHANGED <<account, mail, req>> => SpentOnce'
  BY DEF Peace, SpentOnce, WithMail, Marking
<1>6. UNCHANGED invitation => JoinedOnce' /\ OneOpen'
  BY DEF Peace, JoinedOnce, OneOpen, Answerable
<1>. QED BY <1>1, <1>2, <1>3, <1>4, <1>5, <1>6

\* A statement that comes while nothing is under way.
LEMMA AtRest ==
    ASSUME Quiescent, UNCHANGED req
    PROVE  /\ Sole' /\ Reads' /\ Quiescent'
           /\ \A m \in Mails : ~Marking(m)
<1>1. \A u \in Clients : req[u] = Rest /\ req'[u] = Rest
  BY DEF Quiescent
<1>. QED BY <1>1, RestRelies DEF Sole, Reads, Marking, Quiescent

LEMMA BeginPeace ==
    ASSUME Typed, Calm, orderly', NEW w \in Clients, BeginStep(w)
    PROVE  Peace'
<1>1. PICK r : Begun(r) /\ Begin(w, r) /\ UNCHANGED Tables
  BY Beginning
<1>2. /\ orderly /\ Quiescent /\ \A u \in Clients : req'[u] = IF u = w THEN r ELSE req[u]
      /\ Peace /\ Relies(r)
  BY <1>1, Begins DEF Calm, Begun
<1>3. UNCHANGED <<account, identity, live, mail, invitation>>
  BY <1>1 DEF Tables
<1>4. \A u \in Clients : u # w => req'[u] = Rest
  BY <1>2 DEF Quiescent
<1>5. Relies(r)'
  BY <1>2, <1>3 DEF Relies, WithMail, Accepts, Unaccepted
<1>6. Sole' /\ Reads'
  BY <1>2, <1>4, <1>5, RestRelies DEF Sole, Reads
<1>7. \A m \in Mails : ~Marking(m)
  BY <1>2, RestRelies DEF Quiescent, Marking
<1>. QED BY <1>2, <1>3, <1>6, <1>7, Stays DEF Peace

\* An invitation accepted for the first time.
LEMMA JoinedPeace ==
    ASSUME Typed, Peace, NEW i \in Invitations, invitation[i].joined = 0, invitation' = Joined(i)
    PROVE  JoinedOnce' /\ OneOpen'
<1>1. /\ \A j \in Invitations : j # i => invitation'[j] = invitation[j]
      /\ invitation'[i].accepted /\ invitation'[i].joined = 1
  BY JoinedKeeps DEF SecondTime
<1>2. JoinedOnce'
  BY <1>1 DEF Peace, JoinedOnce
<1>3. OneOpen'
  BY <1>1 DEF Peace, OneOpen, Answerable
<1>. QED BY <1>2, <1>3

\* An email no account has is an email.
LEMMA FreeEmail ==
    ASSUME Blank, NEW e, ByEmail(e) = {}, NEW a \in NewAccount
    PROVE  e # None
<1>1. account[a].email = None /\ a \in Accounts
  BY DEF Blank, NewAccount
<1>. QED BY <1>1 DEF ByEmail

\* A new account disturbs nobody.
LEMMA NewAccountPeace ==
    ASSUME Typed, Peace, NEW a \in NewAccount, NEW row \in AccountRow, account' = [account EXCEPT ![a] = row],
           row.state = "active", \A m \in Mails : ~Marking(m), UNCHANGED <<live, mail>>
    PROVE  LiveSessions' /\ Blank' /\ SpentOnce'
<1>0. account \in [Accounts -> AccountRow] /\ live \subseteq Accounts \X Nat /\ mail \in [Mails -> MailRow]
  BY Shapes DEF Shaped
<1>1. account[a].state = "none" /\ a \in Accounts /\ account'[a] = row
      /\ \A b \in Accounts : b # a => account'[b] = account[b]
  BY <1>0 DEF NewAccount
<1>2. LiveSessions'
  BY <1>0, <1>1 DEF Peace, LiveSessions
<1>3. Blank'
  BY <1>1 DEF Peace, Blank
<1>4. SpentOnce'
  BY <1>1 DEF Peace, SpentOnce, WithMail
<1>. QED BY <1>2, <1>3, <1>4

LEMMA SignUpPeace ==
    ASSUME Typed, Typed', Peace, NEW w \in Clients, SignUpCommit(w) \/ SignUpJoin(w)
    PROVE  Peace'
<1>0. /\ Shaped /\ req[w] \in Request /\ req[w].kind \in {"register", "signup", "signupAccept"}
      /\ req[w].step = "hash"
  BY Shapes DEF SignUpCommit, SignUpJoin, At
<1>1. PICK a \in NewAccount :
         /\ account' = [account EXCEPT ![a] = [state |-> "active", email |-> req[w].email, password |-> 1]]
         /\ \/ req' = [req EXCEPT ![w].step = "issue", ![w].account = a, ![w].password = 1]
               /\ UNCHANGED orderly
            \/ End(w)
  BY DEF SignUpCommit, SignUpJoin
<1> DEFINE row == [state |-> "active", email |-> req[w].email, password |-> 1]
<1>2. ByEmail(req[w].email) = {} /\ UNCHANGED <<identity, live, mail>>
  BY DEF SignUpCommit, SignUpJoin
<1>3. req[w].email # None
  BY <1>2, FreeEmail DEF Peace
<1>4. row \in AccountRow /\ row.state = "active" /\ row.email # None /\ row.password = 1
  BY <1>0, <1>3 DEF AccountRow, Request
<1>5. \A m \in Mails : ~Marking(m)
  BY <1>0, Lone
<1>6. a \in Accounts /\ account' = [account EXCEPT ![a] = row]
  BY <1>1, NewRows
<1> HIDE DEF row
<1>7. LiveSessions' /\ Blank' /\ SpentOnce'
  BY <1>2, <1>4, <1>5, <1>6, NewAccountPeace
<1>8. account'[a] = row /\ \A b \in Accounts : b # a => account'[b] = account[b]
  BY <1>0, <1>6 DEF Shaped
<1>9. WayIn'
  BY <1>2, <1>4, <1>8 DEF Peace, WayIn
<1>10. Sole' /\ Reads'
  <2>1. CASE End(w)
    BY <1>0, <2>1, LoneEnds
  <2>2. CASE req' = [req EXCEPT ![w].step = "issue", ![w].account = a, ![w].password = 1] /\ UNCHANGED orderly
    <3>1. req' = [req EXCEPT ![w] = [req[w] EXCEPT !.step = "issue", !.account = a, !.password = 1]]
      BY <2>2, Shapes
    <3>2. /\ \A u \in Clients : u # w => req'[u] = req[u]
          /\ req'[w].kind = req[w].kind /\ req'[w].step = "issue" /\ req'[w].account = a /\ req'[w].password = 1
      BY <1>0, <3>1, Shapes DEF Request
    <3>3. Relies(req[w])'
      BY <1>0, <1>4, <1>8, <3>2 DEF Relies, Accepts
    <3>. QED BY <1>0, <3>2, <3>3, LoneGoesOn
  <2>. QED BY <1>1, <2>1, <2>2
<1>11. JoinedOnce' /\ OneOpen'
  <2>1. CASE SignUpCommit(w)
    BY <2>1, Stays DEF SignUpCommit
  <2>2. CASE SignUpJoin(w)
    <3>1. Accepts(req[w])
      BY <1>0, <2>2 DEF SignUpJoin, At, Accepts
    <3>2. req[w].row \in Invitations /\ invitation[req[w].row].joined = 0 /\ invitation' = Joined(req[w].row)
      BY <1>0, <2>2, <3>1, Lone DEF SignUpJoin, Typed, Named, Relies
    <3>. QED BY <3>2, JoinedPeace
  <2>. QED BY <2>1, <2>2
<1>. QED BY <1>7, <1>9, <1>10, <1>11 DEF Peace

LEMMA SocialCreatePeace ==
    ASSUME Typed, Peace, NEW w \in Clients, SocialCreate(w)
    PROVE  Peace'
<1>0. /\ Shaped /\ req[w] \in Request /\ req[w].kind = "social" /\ req[w].step = "create"
      /\ req[w].social \in Socials /\ identity[req[w].social] = Nobody /\ req[w].password = 0
      /\ UNCHANGED <<live, mail, invitation, orderly>>
  BY Shapes, Lone DEF SocialCreate, At, Fits, Relies
<1>1. PICK a \in NewAccount, e \in Emails :
         /\ account' = [account EXCEPT ![a] = [state |-> "active", password |-> 0,
                                               email |-> IF ByEmail(e) = {} THEN e ELSE None]]
         /\ identity' = [identity EXCEPT ![req[w].social] = a]
         /\ req' = [req EXCEPT ![w].step = "issue", ![w].account = a]
  BY DEF SocialCreate
<1> DEFINE row == [state |-> "active", password |-> 0, email |-> IF ByEmail(e) = {} THEN e ELSE None]
<1>2. row \in AccountRow /\ row.state = "active" /\ row.password = 0
  BY DEF AccountRow
<1>3. \A m \in Mails : ~Marking(m)
  BY <1>0, Lone
<1>4. a \in Accounts /\ account' = [account EXCEPT ![a] = row]
  BY <1>1, NewRows
<1> HIDE DEF row
<1>5. LiveSessions' /\ Blank' /\ SpentOnce'
  BY <1>0, <1>2, <1>3, <1>4, NewAccountPeace
<1>6. account'[a] = row /\ \A b \in Accounts : b # a => account'[b] = account[b]
  BY <1>0, <1>4 DEF Shaped
<1>7. /\ identity'[req[w].social] = a
      /\ \A s \in Socials : identity[s] # Nobody => identity'[s] = identity[s]
  BY <1>0, <1>1 DEF Shaped
<1>8. WayIn'
  <2> SUFFICES ASSUME NEW b \in Accounts, account'[b].state = "active"
               PROVE  IF account'[b].password = 0 THEN \E s \in Socials : identity'[s] = b
                                                  ELSE account'[b].email # None
    BY DEF WayIn
  <2>1. CASE b = a
    BY <1>0, <1>2, <1>6, <1>7, <2>1
  <2>2. CASE b # a
    <3>1. account'[b] = account[b] /\ b # Nobody
      BY <1>6, <2>2 DEF Accounts, Nobody
    <3>. QED BY <1>7, <3>1 DEF Peace, WayIn
  <2>. QED BY <2>1, <2>2
<1>9. req' = [req EXCEPT ![w] = [req[w] EXCEPT !.step = "issue", !.account = a, !.password = 0]]
  <2>1. [req[w] EXCEPT !.step = "issue", !.account = a]
        = [req[w] EXCEPT !.step = "issue", !.account = a, !.password = 0]
    BY <1>0 DEF Request
  <2>. QED BY <1>1, <2>1, Shapes
<1>10. /\ \A u \in Clients : u # w => req'[u] = req[u]
       /\ req'[w].kind = "social" /\ req'[w].step = "issue" /\ req'[w].account = a /\ req'[w].password = 0
  BY <1>0, <1>9, Shapes DEF Request
<1>11. Relies(req[w])'
  BY <1>2, <1>6, <1>10 DEF Relies, Accepts
<1>12. Sole' /\ Reads'
  BY <1>0, <1>10, <1>11, LoneGoesOn
<1>. QED BY <1>0, <1>5, <1>8, <1>12, Stays DEF Peace

LEMMA SessionPeace ==
    ASSUME Typed, Peace, NEW w \in Clients, IssueTokens(w) \/ RotateSession(w)
    PROVE  Peace'
<1>1. /\ live' = live \cup {<<req[w].account, req[w].password>>} /\ End(w)
      /\ req[w].step \in {"issue", "rotate"} /\ UNCHANGED <<account, identity, mail, invitation>>
  BY DEF IssueTokens, RotateSession, At
<1>2. account[req[w].account].state = "active" /\ account[req[w].account].password = req[w].password
  BY <1>1, Lone DEF Relies
<1>3. LiveSessions'
  BY <1>1, <1>2 DEF Peace, LiveSessions
<1>4. Sole' /\ Reads' /\ \A m \in Mails : ~Marking(m)
  BY <1>1, LoneEnds, Lone
<1>. QED BY <1>1, <1>3, <1>4, Stays DEF Peace

LEMMA ProviderPeace ==
    ASSUME Typed, Peace, NEW w \in Clients, LinkCreate(w) \/ UnlinkDelete(w)
    PROVE  Peace'
<1>0. /\ Shaped /\ End(w) /\ req[w].step \in {"create", "delete"}
      /\ UNCHANGED <<account, live, mail, invitation>>
  BY Shapes DEF LinkCreate, UnlinkDelete, At
<1>1. Sole' /\ Reads' /\ \A m \in Mails : ~Marking(m)
  BY <1>0, LoneEnds, Lone
<1>2. WayIn'
  <2> SUFFICES ASSUME NEW a \in Accounts, account[a].state = "active", account[a].password = 0
               PROVE  \E s \in Socials : identity'[s] = a
    BY <1>0 DEF Peace, WayIn
  <2>1. PICK s \in Socials : identity[s] = a
    BY DEF Peace, WayIn
  <2>2. a # Nobody
    BY DEF Accounts, Nobody
  <2>3. CASE LinkCreate(w)
    BY <1>0, <2>1, <2>2, <2>3 DEF LinkCreate, Shaped
  <2>4. CASE UnlinkDelete(w)
    <3>1. \A t \in Socials : t # req[w].social => identity'[t] = identity[t]
      BY <1>0, <2>4 DEF UnlinkDelete, Shaped
    <3>2. CASE s # req[w].social
      BY <2>1, <3>1, <3>2
    <3>3. CASE s = req[w].social
      <4>1. Relies(req[w]) /\ req[w].kind = "unlink"
        BY <1>0, <2>4, Lone DEF UnlinkDelete, At
      <4>2. \E t \in Socials : t # s /\ identity[t] = a
        BY <2>1, <2>2, <3>3, <4>1 DEF Relies
      <4>. QED BY <3>1, <3>3, <4>2
    <3>. QED BY <3>2, <3>3
  <2>. QED BY <2>3, <2>4
<1>. QED BY <1>0, <1>1, <1>2, Stays DEF Peace

\* WithMail, after the step.
StillWithMail(a) == /\ a \in Accounts /\ account'[a].state # "none"
                    /\ account'[a].state = "active" => account'[a].email # None

\* A token is used once: what it was used for is marked before another request begins.
LEMMA SpentPeace ==
    ASSUME Typed, Peace, NEW w \in Clients, req[w].kind = "mail", req[w].step \notin {"mark", "issue", "none"},
           mail' = [mail EXCEPT ![req[w].row].spent = SecondTime(@)], Continue(w, "mark"),
           \A a \in Accounts : WithMail(a) => StillWithMail(a)
    PROVE  SpentOnce' /\ Sole' /\ Reads'
<1> PICK m : m = req[w].row
  OBVIOUS
<1>1. mail \in [Mails -> MailRow] /\ Relies(req[w]) /\ \A n \in Mails : ~Marking(n)
  BY Shapes, Lone DEF Shaped
<1>2. mail[m].spent = 0 /\ WithMail(req[w].account)
  BY <1>1 DEF Relies
<1>3. \A u \in Clients : req'[u] = IF u = w THEN [req[w] EXCEPT !.step = "mark"] ELSE req[u]
  BY Continued DEF Steps
<1>4. /\ req'[w].kind = "mail" /\ req'[w].step = "mark" /\ req'[w].row = m
      /\ req'[w].account = req[w].account
  BY <1>3, Shapes DEF Request
<1>5. /\ \A n \in Mails : n # m => mail'[n] = mail[n]
      /\ m \in Mails => /\ mail'[m].spent = 1 /\ mail'[m].state = mail[m].state
                        /\ mail'[m].account = mail[m].account
  BY <1>1, <1>2 DEF MailRow, SecondTime
<1>6. Marking(m)'
  BY <1>4 DEF Marking
<1>7. SpentOnce'
  <2> SUFFICES ASSUME NEW n \in Mails
               PROVE  /\ mail'[n].spent \in 0..1
                      /\ mail'[n].state = "sent" /\ mail'[n].spent # 0 => Marking(n)'
                      /\ mail'[n].state = "sent" => StillWithMail(mail'[n].account)
    BY DEF SpentOnce, WithMail, StillWithMail
  <2>1. /\ mail[n].spent \in 0..1 /\ (mail[n].state = "sent" => WithMail(mail[n].account))
        /\ (mail[n].state = "sent" => mail[n].spent = 0)
    BY <1>1 DEF Peace, SpentOnce
  <2>2. mail[n].state = "sent" => StillWithMail(mail[n].account)
    BY <2>1 DEF WithMail
  <2>3. CASE n = m
    BY <1>5, <1>6, <2>1, <2>2, <2>3
  <2>4. CASE n # m
    BY <1>5, <2>1, <2>2, <2>4
  <2>. QED BY <2>3, <2>4
<1>8. Relies(req[w])'
  <2>1. StillWithMail(req'[w].account)
    BY <1>2, <1>4 DEF WithMail
  <2>. QED BY <1>4, <2>1 DEF Relies, Accepts, WithMail, StillWithMail
<1>9. Sole' /\ Reads'
  BY <1>3, <1>8, LoneGoesOn
<1>. QED BY <1>7, <1>9

LEMMA PasswordCommitPeace ==
    ASSUME Typed, Peace, NEW w \in Clients, PasswordCommit(w)
    PROVE  Peace'
<1> DEFINE a == req[w].account
<1>0. /\ Shaped /\ a \in Accounts /\ req[w].step = "hash" /\ req[w].kind \in {"change", "mail"}
      /\ UNCHANGED <<identity, invitation>> /\ live' = live \ SessionsOf(a)
  BY Shapes DEF PasswordCommit, At, Fits
<1>1. Relies(req[w]) /\ \A m \in Mails : ~Marking(m)
  BY <1>0, Lone
<1>2. WithMail(a)
  BY <1>0, <1>1 DEF Relies
<1>3. /\ account' = [account EXCEPT ![a].password = @ + 1] /\ account \in [Accounts -> AccountRow]
      /\ live \subseteq Accounts \X Nat
  BY <1>0 DEF PasswordCommit, Shaped
<1> HIDE DEF a
<1>4. /\ \A b \in Accounts : b # a => account'[b] = account[b]
      /\ account'[a].state = account[a].state /\ account'[a].email = account[a].email
      /\ account'[a].password # 0
  BY <1>0, <1>3 DEF AccountRow
<1>5. LiveSessions'
  <2> SUFFICES ASSUME NEW s \in live, s \notin SessionsOf(a)
               PROVE  account'[s[1]].state = "active" /\ s[2] = account'[s[1]].password
    BY <1>0 DEF LiveSessions
  <2>1. s[1] # a /\ s[1] \in Accounts
    BY <1>3 DEF SessionsOf
  <2>. QED BY <1>4, <2>1 DEF Peace, LiveSessions
<1>6. Blank' /\ WayIn'
  BY <1>0, <1>2, <1>4 DEF Peace, Blank, WayIn, WithMail
<1>7. \A b \in Accounts : WithMail(b) => StillWithMail(b)
  BY <1>4 DEF WithMail, StillWithMail
<1>8. SpentOnce' /\ Sole' /\ Reads'
  <2>1. CASE req[w].kind = "mail"
    BY <1>0, <1>7, <2>1, SpentPeace DEF PasswordCommit
  <2>2. CASE req[w].kind # "mail"
    <3>1. End(w) /\ UNCHANGED mail
      BY <2>2 DEF PasswordCommit
    <3>2. SpentOnce'
      BY <1>1, <1>7, <3>1 DEF Peace, SpentOnce, WithMail, StillWithMail
    <3>. QED BY <1>0, <3>1, <3>2, LoneEnds
  <2>. QED BY <2>1, <2>2
<1>. QED BY <1>0, <1>5, <1>6, <1>8, Stays DEF Peace

LEMMA MailPeace ==
    ASSUME Typed, Peace, NEW w \in Clients, VerifyCommit(w) \/ MarkUsed(w)
    PROVE  Peace'
<1>0. Shaped /\ req[w].kind = "mail" /\ req[w].step \in {"verify", "mark"}
      /\ UNCHANGED <<account, identity, live, invitation>>
  BY Shapes DEF VerifyCommit, MarkUsed, At
<1>1. SpentOnce' /\ Sole' /\ Reads'
  <2>1. CASE VerifyCommit(w)
    <3>1. \A a \in Accounts : WithMail(a) => StillWithMail(a)
      BY <1>0 DEF WithMail, StillWithMail
    <3>. QED BY <1>0, <2>1, <3>1, SpentPeace DEF VerifyCommit, At
  <2>2. CASE MarkUsed(w)
    <3> DEFINE m == req[w].row
    <3>1. /\ mail' = [mail EXCEPT ![m] = [mail[m] EXCEPT !.state = "used"]] /\ End(w)
          /\ mail \in [Mails -> MailRow]
      BY <1>0, <2>2 DEF MarkUsed, Shaped
    <3>2. \A n \in Mails : n # m => ~Marking(n)
      BY <1>0, Lone, RestRelies DEF Marking
    <3> HIDE DEF m
    <3>3. /\ \A n \in Mails : n # m => mail'[n] = mail[n]
          /\ m \in Mails => mail'[m].state = "used" /\ mail'[m].spent = mail[m].spent
      BY <3>1 DEF MailRow
    <3>4. SpentOnce'
      BY <1>0, <3>2, <3>3 DEF Peace, SpentOnce, WithMail
    <3>. QED BY <1>0, <3>1, <3>4, LoneEnds
  <2>. QED BY <2>1, <2>2
<1>. QED BY <1>0, <1>1, Stays DEF Peace

LEMMA MembershipPeace ==
    ASSUME Typed, Peace, NEW w \in Clients,
           \/ Join(w) \/ Rejoin(w) \/ CheckMember(w) \/ ChangeMemberCommit(w)
    PROVE  Peace'
<1>0. /\ Shaped /\ req[w] \in Request /\ req[w].step \in {"member", "join", "rejoin", "update"}
      /\ UNCHANGED <<account, identity, live, mail>>
  BY Shapes DEF Join, Rejoin, CheckMember, ChangeMemberCommit, At
<1>1. Relies(req[w]) /\ \A m \in Mails : ~Marking(m)
  BY <1>0, Lone
<1>2. JoinedOnce' /\ OneOpen'
  <2>1. CASE Join(w) \/ Rejoin(w)
    <3>1. Accepts(req[w])
      BY <2>1 DEF Join, Rejoin, At, Accepts
    <3>2. req[w].row \in Invitations /\ invitation[req[w].row].joined = 0 /\ invitation' = Joined(req[w].row)
      BY <1>1, <2>1, <3>1 DEF Join, Rejoin, Typed, Named, Relies
    <3>. QED BY <3>2, JoinedPeace
  <2>2. CASE CheckMember(w) \/ ChangeMemberCommit(w)
    BY <2>2, Stays DEF CheckMember, ChangeMemberCommit
  <2>. QED BY <2>1, <2>2
<1>3. Sole' /\ Reads'
  <2>1. CASE End(w)
    BY <1>0, <2>1, LoneEnds
  <2>2. CASE ~End(w)
    <3>1. PICK step \in {"join", "rejoin"} : Continue(w, step)
      BY <2>2 DEF Join, Rejoin, CheckMember, ChangeMemberCommit
    <3>2. req[w].kind = "accept" /\ req[w].step = "member" /\ UNCHANGED invitation
      BY <2>2 DEF Join, Rejoin, CheckMember, ChangeMemberCommit, At
    <3>3. \A u \in Clients : req'[u] = IF u = w THEN [req[w] EXCEPT !.step = step] ELSE req[u]
      <4>1. req[w].step # "issue" /\ req[w].kind # "social" /\ step \in Steps \ {"issue", "rotate"}
        BY <3>1, <3>2 DEF Steps
      <4>. QED BY <3>1, <4>1, Continued
    <3>4. req'[w].kind = "accept" /\ req'[w].row = req[w].row /\ req'[w].step = step
      BY <1>0, <3>2, <3>3 DEF Request
    <3>5. Relies(req[w])'
      BY <1>1, <3>1, <3>2, <3>4 DEF Relies, Accepts
    <3>. QED BY <1>0, <3>3, <3>5, LoneGoesOn
  <2>. QED BY <2>1, <2>2
<1>. QED BY <1>0, <1>1, <1>2, <1>3, Stays DEF Peace

\* Fewer invitations, or none that is open.
LEMMA GonePeace ==
    ASSUME Typed, Peace, NEW S \in SUBSET Invitations,
           invitation' = [i \in Invitations |->
                            IF i \in S THEN [NoInvitation EXCEPT !.state = "gone"] ELSE invitation[i]]
    PROVE  JoinedOnce' /\ OneOpen'
<1>1. \A i \in Invitations : invitation'[i] =
        IF i \in S THEN [NoInvitation EXCEPT !.state = "gone"] ELSE invitation[i]
  BY GoneKeeps
<1>2. LET gone == [NoInvitation EXCEPT !.state = "gone"] IN
      gone.state = "gone" /\ gone.joined = 0 /\ ~gone.accepted
  BY DEF NoInvitation
<1>3. JoinedOnce'
  BY <1>1, <1>2 DEF Peace, JoinedOnce
<1>4. OneOpen'
  BY <1>1, <1>2 DEF Peace, OneOpen, Answerable
<1>. QED BY <1>3, <1>4

LEMMA InvitationPeace ==
    ASSUME Typed, Peace, NEW w \in Clients, Clear(w) \/ Create(w) \/ DeclineUpdate(w)
    PROVE  Peace'
<1>0. /\ Shaped /\ req[w] \in Request /\ req[w].step \in {"clear", "create", "update"}
      /\ UNCHANGED <<account, identity, live, mail>>
  BY Shapes DEF Clear, Create, DeclineUpdate, At
<1>1. Relies(req[w]) /\ \A m \in Mails : ~Marking(m)
  BY <1>0, Lone
<1>2. JoinedOnce' /\ OneOpen' /\ Sole' /\ Reads'
  <2>1. CASE Clear(w)
    <3> DEFINE old == Unaccepted(req[w].email, req[w].org)
    <3>1. /\ invitation' = [i \in Invitations |->
                              IF i \in old THEN [NoInvitation EXCEPT !.state = "gone"] ELSE invitation[i]]
          /\ old \in SUBSET Invitations /\ Continue(w, "create") /\ req[w].kind = "invite"
      BY <2>1 DEF Clear, Unaccepted, At
    <3>2. JoinedOnce' /\ OneOpen'
      BY <3>1, GonePeace
    <3>3. \A i \in Invitations : invitation'[i] =
            IF i \in old THEN [NoInvitation EXCEPT !.state = "gone"] ELSE invitation[i]
      BY <3>1
    <3>4. \A u \in Clients : req'[u] = IF u = w THEN [req[w] EXCEPT !.step = "create"] ELSE req[u]
      BY <1>0, <3>1, Continued DEF Steps
    <3>5. /\ req'[w].kind = "invite" /\ req'[w].step = "create" /\ req'[w].email = req[w].email
          /\ req'[w].org = req[w].org
      BY <1>0, <3>1, <3>4 DEF Request
    <3>6. [NoInvitation EXCEPT !.state = "gone"].state = "gone"
      BY DEF NoInvitation
    <3>7. Unaccepted(req[w].email, req[w].org)' = {}
      BY <3>3, <3>5, <3>6 DEF Unaccepted
    <3>8. Relies(req[w])'
      BY <3>5, <3>7 DEF Relies, Accepts
    <3>. QED BY <1>0, <3>2, <3>4, <3>8, LoneGoesOn
  <2>2. CASE Create(w)
    <3> DEFINE row == [NoInvitation EXCEPT !.state = "row", !.org = req[w].org, !.email = req[w].email,
                                           !.role = req[w].role]
    <3>1. PICK i \in NewInvitation : invitation' = [invitation EXCEPT ![i] = row]
      BY <2>2 DEF Create
    <3>2. Unaccepted(req[w].email, req[w].org) = {}
      BY <1>1, <2>2 DEF Create, At, Relies
    <3>3. row.joined = 0 /\ row.email = req[w].email /\ row.org = req[w].org
      BY DEF NoInvitation
    <3>4. /\ i \in Invitations /\ invitation'[i] = row
          /\ \A j \in Invitations : j # i => invitation'[j] = invitation[j]
      BY <1>0, <3>1, NewRows DEF Shaped
    <3> HIDE DEF row
    <3>5. JoinedOnce'
      BY <3>3, <3>4 DEF Peace, JoinedOnce
    <3>6. \A j \in Invitations : j # i /\ Answerable(j) =>
             invitation[j].org # row.org \/ invitation[j].email # row.email
      BY <3>2, <3>3 DEF Unaccepted, Answerable
    <3>7. OneOpen'
      BY <3>4, <3>6 DEF Peace, OneOpen, Answerable
    <3>. QED BY <1>0, <2>2, <3>5, <3>7, LoneEnds DEF Create
  <2>3. CASE DeclineUpdate(w)
    <3>1. PICK i : i = req[w].row
      OBVIOUS
    <3> DEFINE row == [invitation[i] EXCEPT !.declined = TRUE]
    <3>2. invitation \in [Invitations -> InvitationRow] /\ invitation' = [invitation EXCEPT ![i] = row]
      BY <1>0, <2>3, <3>1 DEF DeclineUpdate, Shaped
    <3>3. i \in Invitations => /\ row.state = invitation[i].state /\ row.org = invitation[i].org
                               /\ row.email = invitation[i].email /\ row.accepted = invitation[i].accepted
                               /\ row.joined = invitation[i].joined
      BY <3>2 DEF InvitationRow
    <3> HIDE DEF row
    <3>4. \A j \in Invitations : /\ invitation'[j].state = invitation[j].state
                                 /\ invitation'[j].org = invitation[j].org
                                 /\ invitation'[j].email = invitation[j].email
                                 /\ invitation'[j].accepted = invitation[j].accepted
                                 /\ invitation'[j].joined = invitation[j].joined
      BY <3>2, <3>3
    <3>5. JoinedOnce' /\ OneOpen'
      BY <3>4 DEF Peace, JoinedOnce, OneOpen, Answerable
    <3>. QED BY <1>0, <2>3, <3>5, LoneEnds DEF DeclineUpdate
  <2>. QED BY <2>1, <2>2, <2>3
<1>. QED BY <1>0, <1>1, <1>2, Stays DEF Peace

LEMMA StopPeace ==
    ASSUME Typed, Peace, NEW w \in Clients, Stop(w), orderly'
    PROVE  Peace'
<1>0. /\ req' = [req EXCEPT ![w] = Rest] /\ req[w].step # "mark" /\ req[w] # Rest
      /\ UNCHANGED <<account, identity, live, mail, invitation>> /\ req \in [Clients -> Request]
  BY Shapes DEF Stop
<1>1. \A u \in Clients : req'[u] = Rest /\ (u # w => req[u] = Rest)
  BY <1>0 DEF Peace, Sole
<1>2. Sole' /\ Reads'
  BY <1>1, RestRelies DEF Sole, Reads
<1>3. \A m \in Mails : ~Marking(m)
  BY <1>0, <1>1, RestRelies DEF Marking
<1>. QED BY <1>0, <1>2, <1>3, Stays DEF Peace

LEMMA MergePeace ==
    ASSUME Typed, Peace, Merge, orderly'
    PROVE  Peace'
<1>0. /\ Shaped /\ Quiescent /\ UNCHANGED <<req, mail, invitation>>
  BY Shapes DEF Merge, Once
<1>1. PICK src, dst \in Accounts :
         LET taken(s) == \E t \in IdentitiesOf(dst) : Provider[t] = Provider[s] IN
         /\ identity' = [s \in Socials |-> IF identity[s] = src /\ ~taken(s) THEN dst ELSE identity[s]]
         /\ live' = live \ SessionsOf(src)
         /\ account' = [account EXCEPT ![src].state = "merged", ![src].email = None]
  BY DEF Merge
<1>2. /\ \A a \in Accounts : a # src => account'[a] = account[a]
      /\ account'[src].state = "merged"
  BY <1>0, <1>1 DEF Shaped, AccountRow
<1>3. \A s \in Socials : identity[s] # src => identity'[s] = identity[s]
  BY <1>1
<1>4. live \subseteq Accounts \X Nat /\ live' = live \ SessionsOf(src)
  BY <1>0, <1>1 DEF Shaped
<1>5. LiveSessions'
  <2> SUFFICES ASSUME NEW s \in live, s \notin SessionsOf(src)
               PROVE  account'[s[1]].state = "active" /\ s[2] = account'[s[1]].password
    BY <1>4 DEF LiveSessions
  <2>1. s[1] # src /\ s[1] \in Accounts
    BY <1>4 DEF SessionsOf
  <2>. QED BY <1>2, <2>1 DEF Peace, LiveSessions
<1>6. Blank'
  BY <1>2 DEF Peace, Blank
<1>7. WayIn'
  BY <1>2, <1>3 DEF Peace, WayIn
<1>8. SpentOnce'
  BY <1>0, <1>2, AtRest DEF Peace, SpentOnce, WithMail
<1>. QED BY <1>0, <1>5, <1>6, <1>7, <1>8, AtRest, Stays DEF Peace

LEMMA StatementPeace ==
    ASSUME Typed, Peace, orderly', OfferMerge \/ SendMail \/ CreateOrganization \/ Cancel
    PROVE  Peace'
<1>0. Shaped /\ Quiescent /\ UNCHANGED <<req, account, identity, live>>
  BY Shapes DEF OfferMerge, SendMail, CreateOrganization, Cancel, Once
<1>1. SpentOnce'
  <2>1. CASE SendMail
    <3>1. PICK m \in NewMail, a \in Accounts, type \in {"PASSWORD_RESET", "EMAIL_VERIFY"} :
             /\ account[a].email # None
             /\ mail' = [mail EXCEPT ![m] = [type |-> type, account |-> a, state |-> "sent", spent |-> 0]]
      BY <2>1 DEF SendMail
    <3>2. WithMail(a)
      BY <3>1 DEF Peace, Blank, WithMail
    <3>3. /\ m \in Mails /\ mail'[m].account = a /\ mail'[m].spent = 0
          /\ \A n \in Mails : n # m => mail'[n] = mail[n]
      BY <1>0, <3>1, NewRows DEF Shaped
    <3>. QED BY <1>0, <3>2, <3>3, AtRest DEF Peace, SpentOnce, WithMail
  <2>2. CASE ~SendMail
    BY <1>0, <2>2, Stays DEF OfferMerge, CreateOrganization, Cancel
  <2>. QED BY <2>1, <2>2
<1>2. JoinedOnce' /\ OneOpen'
  <2>1. CASE Cancel
    <3>1. PICK i \in Invitations : invitation' = [invitation EXCEPT ![i] = [NoInvitation EXCEPT !.state = "gone"]]
      BY <2>1 DEF Cancel
    <3>2. invitation' = [j \in Invitations |->
                           IF j \in {i} THEN [NoInvitation EXCEPT !.state = "gone"] ELSE invitation[j]]
      BY <1>0, <3>1 DEF Shaped
    <3>. QED BY <3>2, GonePeace
  <2>2. CASE ~Cancel
    BY <2>2, Stays DEF OfferMerge, SendMail, CreateOrganization
  <2>. QED BY <2>1, <2>2
<1>. QED BY <1>0, <1>1, <1>2, AtRest, Stays DEF Peace

\* What comes to an end by itself, also while a request is under way.
LEMMA LapsePeace ==
    ASSUME Typed, Peace, SessionEnds \/ MergeTokenLapses \/ MailLapses \/ InvitationExpires
    PROVE  Peace'
<1>0. Shaped /\ UNCHANGED <<req, account, identity>>
  BY Shapes DEF SessionEnds, MergeTokenLapses, MailLapses, InvitationExpires
<1>1. live' \subseteq live
  BY DEF SessionEnds, MergeTokenLapses, MailLapses, InvitationExpires
<1>2. \A m \in Mails : /\ mail'[m].state = mail[m].state \/ mail'[m].state = "lapsed"
                       /\ mail'[m].spent = mail[m].spent /\ mail'[m].account = mail[m].account
  <2>1. CASE MailLapses
    <3>1. PICK m \in Mails : mail' = [mail EXCEPT ![m] = [mail[m] EXCEPT !.state = "lapsed"]]
      BY <2>1 DEF MailLapses
    <3>. QED BY <1>0, <3>1 DEF Shaped, MailRow
  <2>2. CASE ~MailLapses
    <3>1. UNCHANGED mail
      BY <2>2 DEF SessionEnds, MergeTokenLapses, InvitationExpires
    <3>. QED BY <3>1
  <2>. QED BY <2>1, <2>2
<1>3. \A i \in Invitations : /\ invitation'[i].state = invitation[i].state
                             /\ invitation'[i].org = invitation[i].org
                             /\ invitation'[i].email = invitation[i].email
                             /\ invitation'[i].accepted = invitation[i].accepted
                             /\ invitation'[i].joined = invitation[i].joined
  BY <1>0 DEF SessionEnds, MergeTokenLapses, MailLapses, InvitationExpires, Shaped, InvitationRow
<1>4. JoinedOnce' /\ OneOpen'
  BY <1>3 DEF Peace, JoinedOnce, OneOpen, Answerable
<1>5. SpentOnce'
  BY <1>0, <1>2 DEF Peace, SpentOnce, WithMail, Marking
<1>6. Sole'
  BY <1>0 DEF Peace, Sole
<1>7. ASSUME NEW u \in Clients PROVE Relies(req[u])'
  <2>1. Relies(req[u]) /\ req'[u] = req[u]
    BY <1>0 DEF Peace, Reads
  <2>2. Accepts(req[u]) => req[u].row \in Invitations
    BY DEF Typed, Named
  <2>3. \A e, o : Unaccepted(e, o) = {} => Unaccepted(e, o)' = {}
    BY <1>3 DEF Unaccepted
  <2>4. req[u].kind = "mail" => req[u].row \in Mails
    BY Shapes DEF Fits
  <2>. QED BY <1>0, <1>2, <1>3, <2>1, <2>2, <2>3, <2>4 DEF Relies, WithMail, Accepts, Unaccepted
<1>. QED BY <1>0, <1>1, <1>4, <1>5, <1>6, <1>7, Stays DEF Peace, Reads

-----------------------------------------------------------------------------
(* What follows, for any number of requests *)

LEMMA CalmInit == AccountsInit => Calm
<1> SUFFICES ASSUME AccountsInit PROVE Peace
  BY DEF Calm
<1>1. /\ \A w \in Clients : req[w] = Rest
      /\ \A a \in Accounts : account[a].state = "none" /\ account[a].email = None
      /\ \A m \in Mails : mail[m].state = "none" /\ mail[m].spent = 0
      /\ \A i \in Invitations : invitation[i].state = "none" /\ invitation[i].joined = 0
      /\ live = {}
  BY DEF AccountsInit, NoAccount, NoMail, NoInvitation
<1>2. Sole /\ Reads
  BY <1>1, RestRelies DEF Sole, Reads
<1>3. LiveSessions /\ Blank /\ WayIn
  BY <1>1 DEF LiveSessions, Blank, WayIn
<1>4. SpentOnce /\ JoinedOnce /\ OneOpen
  BY <1>1 DEF SpentOnce, JoinedOnce, OneOpen, Answerable
<1>. QED BY <1>2, <1>3, <1>4 DEF Peace

LEMMA PeaceStep ==
    ASSUME Typed, Typed', Peace, AccountsNext, orderly'
    PROVE  Peace'
<1>1. ASSUME NEW w \in Clients, BeginStep(w) PROVE Peace'
  BY <1>1, BeginPeace DEF Calm
<1>2. ASSUME NEW w \in Clients,
             \/ SignUpCommit(w) \/ SocialCreate(w) \/ SignUpJoin(w) \/ PasswordCommit(w)
             \/ IssueTokens(w) \/ RotateSession(w) \/ LinkCreate(w) \/ UnlinkDelete(w) \/ VerifyCommit(w)
             \/ MarkUsed(w)
      PROVE  Peace'
  BY <1>2, SignUpPeace, SocialCreatePeace, PasswordCommitPeace, SessionPeace, ProviderPeace, MailPeace
<1>3. ASSUME NEW w \in Clients,
             \/ Join(w) \/ Rejoin(w) \/ Clear(w) \/ Create(w) \/ DeclineUpdate(w) \/ ChangeMemberCommit(w)
             \/ CheckMember(w) \/ Stop(w)
      PROVE  Peace'
  BY <1>3, MembershipPeace, InvitationPeace, StopPeace
<1>4. ASSUME \/ Merge \/ SessionEnds \/ OfferMerge \/ MergeTokenLapses \/ SendMail \/ MailLapses
             \/ CreateOrganization \/ Cancel \/ InvitationExpires
      PROVE  Peace'
  BY <1>4, MergePeace, StatementPeace, LapsePeace
<1>. QED BY <1>1, <1>2, <1>3, <1>4, StepsAre

LEMMA CalmStep ==
    ASSUME Typed, Typed', Calm, [AccountsNext]_rows
    PROVE  Calm'
<1>1. CASE UNCHANGED rows
  <2>1. UNCHANGED orderly /\ (Peace => Peace')
    BY <1>1 DEF rows, Peace, Sole, Reads, Relies, Accepts, WithMail, Unaccepted, LiveSessions, Blank, WayIn,
                SpentOnce, Marking, JoinedOnce, OneOpen, Answerable
  <2>. QED BY <2>1 DEF Calm
<1>2. CASE AccountsNext
  <2> SUFFICES ASSUME orderly' PROVE Peace'
    BY DEF Calm
  <2>1. Peace
    BY <1>2, OrderlyBefore DEF Calm
  <2>. QED BY <1>2, <2>1, PeaceStep
<1>. QED BY <1>1, <1>2

LEMMA AlwaysCalm == AccountsSpec => []Calm
BY InitTyped, TypedStep, CalmInit, CalmStep, PTL DEF AccountsSpec

\* A new password and a merge leave no older session behind, whatever was done before.
THEOREM SessionsDieWithPassword == AccountsSpec => []SessionsFollowPassword
<1>1. Calm => SessionsFollowPassword
  BY DEF Calm, Peace, LiveSessions, SessionsFollowPassword
<1>. QED BY <1>1, AlwaysCalm, PTL

\* A token is marked as used before another request can find it, an invitation as accepted with
\* the membership it gives: each works once.
THEOREM TokensWorkOnce == AccountsSpec => []OnceOnly
<1>1. Calm => OnceOnly
  BY DEF Calm, Peace, SpentOnce, JoinedOnce, OnceOnly
<1>. QED BY <1>1, AlwaysCalm, PTL

\* Neither unlinking nor a merge takes the last way in away.
THEOREM NobodyIsLockedOut == AccountsSpec => []NobodyLockedOut
<1>1. Calm => NobodyLockedOut
  BY DEF Calm, Peace, WayIn, NobodyLockedOut, IdentitiesOf
<1>. QED BY <1>1, AlwaysCalm, PTL

\* An email has one invitation of an organization to answer.
THEOREM OneInvitationOpen == AccountsSpec => []OneOpenInvitation
<1>1. Calm => OneOpenInvitation
  BY DEF Calm, Peace, OneOpen, Answerable, OneOpenInvitation
<1>. QED BY <1>1, AlwaysCalm, PTL
=============================================================================
