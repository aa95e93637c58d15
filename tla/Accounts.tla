------------------------------ MODULE Accounts ------------------------------
(***************************************************************************)
(* Accounts, the links they are sent by e-mail and their sessions: the     *)
(* handlers of registration, sign-in with a password or with Google,       *)
(* refresh, forgotten passwords, verification and change of the address,   *)
(* and deletion, over the tables users, email_verification_tokens,         *)
(* password_reset_tokens, consumed_email_change_tokens and refresh_tokens. *)
(*                                                                         *)
(* A step is one statement outside a transaction or one transaction: those *)
(* that follow a link begin IMMEDIATE, and SQLite refuses one whose first  *)
(* read another commit has overtaken.  Mail goes out from goroutines of    *)
(* its own, and may be lost.  A link is known to who reads its mail.       *)
(***************************************************************************)
EXTENDS Naturals, Sequences

CONSTANTS Workers,          \* goroutines that serve requests
          Addresses,
          Scenarios         \* accounts to begin with, requests and faults

Requests == {"ask", "forget", "register", "login", "refresh", "logout", "password",
             "change", "google", "delete"}

Account == [alive : BOOLEAN, email : Addresses, password : BOOLEAN, google : BOOLEAN,
            verified : BOOLEAN, pending : Addresses \cup {"none"}, link : Nat]

\* Accounts, none with a change of its address under way; the addresses Google
\* knows the one Google user by; the links people ask for until they come;
\* further requests, failing statements or lost mails, and links that lapse
\* before they are opened.
ASSUME ScenariosAssumption ==
    \A s \in Scenarios : /\ s.accounts \in Seq(Account)
                         /\ \A u \in DOMAIN s.accounts : s.accounts[u].link = 0
                         /\ s.google \subseteq Addresses
                         /\ s.asks \subseteq {"reset", "verify"}
                         /\ s.budget \in [Requests -> Nat]
                         /\ {s.failures, s.lapses} \subseteq Nat

VARIABLES scenario,
          users,            \* the users table, by id; a deleted row is not alive
          links,            \* every link made, by number, with its row
          consumed,         \* consumed_email_change_tokens
          sessions,         \* refresh_tokens
          issued,           \* refresh tokens issued so far
          pc, loc,          \* each worker's step, and what it carries
          budget, failures, lapses,
          forgot,           \* accounts whose owner does not know the password
          proven,           \* history: addresses shown to belong to an account's owner
          followed          \* history: how often each link had its effect

tables == <<users, links, consumed>>
tokens == <<sessions, issued>>
faults == <<failures, lapses>>
histories == <<proven, followed>>
vars == <<scenario, users, links, consumed, sessions, issued, pc, loc,
          budget, failures, lapses, forgot, proven, followed>>

NoRequest == [user |-> 0, to |-> "none", token |-> 0]

Init == /\ scenario \in Scenarios
        /\ users = scenario.accounts
        /\ links = <<>> /\ consumed = {} /\ sessions = {} /\ issued = 0
        /\ pc = [p \in Workers |-> "idle"] /\ loc = [p \in Workers |-> NoRequest]
        /\ budget = scenario.budget /\ failures = 0 /\ lapses = 0
        /\ forgot = {} /\ followed = <<>>
        /\ proven = {<<u, users[u].email>> : u \in {v \in DOMAIN users : users[v].verified}}

Goto(p, at, l) == pc' = [pc EXCEPT ![p] = at] /\ loc' = [loc EXCEPT ![p] = l]
Continue(p, at) == Goto(p, at, loc[p])
Done(p) == Goto(p, "idle", NoRequest)
Serve(p, at, u, e) == /\ pc[p] = "idle"
                      /\ Goto(p, at, [NoRequest EXCEPT !.user = u, !.to = e])
Stay == UNCHANGED <<pc, loc>>

Spend(kind) == budget[kind] > 0 /\ budget' = [budget EXCEPT ![kind] = @ - 1]

Alive == {u \in DOMAIN users : users[u].alive}
ByEmail(e) == {u \in Alive : users[u].email = e}
ByGoogleID == {u \in Alive : users[u].google}
LinksOf(u, kind) == {l \in DOMAIN links : links[l].user = u /\ links[l].kind = kind}
SessionsOf(u) == {t \in sessions : t.user = u}

\* A row of a token table, or the token in a users row: used_at, expires_at,
\* created_at within five minutes, and what became of the mail.
NewLink(kind, u, to) ==
    [kind |-> kind, user |-> u, to |-> to, state |-> "live",
     recent |-> kind # "change", mail |-> "queued"]

Insert(kind, u, to) == /\ links' = Append(links, NewLink(kind, u, to))
                       /\ followed' = Append(followed, 0)
Discard(ls, state) == [l \in DOMAIN links |-> IF l \in ls THEN [links[l] EXCEPT !.state = state]
                                                          ELSE links[l]]
Follow(l) == followed' = [followed EXCEPT ![l] = @ + 1]

\* Unused tokens made within the last five minutes.
RecentUnused(u, kind) == {l \in LinksOf(u, kind) : links[l].state = "live" /\ links[l].recent}

(***************************************************************************)
(* Signing up, in and out.                                                 *)
(***************************************************************************)
NewAccount(e, password) ==
    [alive |-> TRUE, email |-> e, password |-> password, google |-> ~password,
     verified |-> ~password, pending |-> "none", link |-> 0]

\* users.email is unique.
Register(p) ==
    \E e \in Addresses :
        /\ Spend("register") /\ ByEmail(e) = {}
        /\ users' = Append(users, NewAccount(e, TRUE))
        /\ Serve(p, "register_token", Len(users) + 1, e)
        /\ UNCHANGED <<scenario, links, consumed, tokens, faults, forgot, histories>>

\* CreateVerificationToken: the row refers to the account's.  Its failure is
\* only logged.
RegisterToken(p) ==
    /\ pc[p] = "register_token"
    /\ IF loc[p].user \in Alive THEN Insert("verify", loc[p].user, loc[p].to)
                                ELSE UNCHANGED <<links, followed>>
    /\ Continue(p, "issue")
    /\ UNCHANGED <<scenario, users, consumed, tokens, budget, faults, forgot, proven>>

RegisterTokenFails(p) ==
    /\ pc[p] = "register_token"
    /\ failures < scenario.failures /\ failures' = failures + 1
    /\ Continue(p, "issue")
    /\ UNCHANGED <<scenario, tables, tokens, budget, lapses, forgot, histories>>

Login(p) ==
    \E u \in Alive \ forgot :
        /\ users[u].password /\ Spend("login")
        /\ Serve(p, "issue", u, users[u].email)
        /\ UNCHANGED <<scenario, tables, tokens, faults, forgot, histories>>

\* SaveRefreshToken, the end of issueTokens and of Google's callback.
SaveRefreshToken(p) ==
    /\ pc[p] = "issue"
    /\ IF loc[p].user \in Alive
       THEN /\ issued' = issued + 1
            /\ sessions' = sessions \cup {[token |-> issued + 1, user |-> loc[p].user]}
       ELSE UNCHANGED tokens
    /\ Done(p)
    /\ UNCHANGED <<scenario, tables, budget, faults, forgot, histories>>

\* ConsumeRefreshToken reads the token here and deletes it in the next step,
\* without asking whether it was still there.
Refresh(p) ==
    \E t \in sessions :
        /\ Spend("refresh")
        /\ pc[p] = "idle"
        /\ Goto(p, "refresh_delete", [NoRequest EXCEPT !.user = t.user, !.token = t.token])
        /\ UNCHANGED <<scenario, tables, tokens, faults, forgot, histories>>

ConsumeRefreshToken(p) ==
    /\ pc[p] = "refresh_delete"
    /\ sessions' = {t \in sessions : t.token # loc[p].token}
    /\ Goto(p, "issue", [loc[p] EXCEPT !.token = 0])
    /\ UNCHANGED <<scenario, tables, issued, budget, faults, forgot, histories>>

Logout ==
    \E u \in Alive :
        /\ Spend("logout")
        /\ sessions' = sessions \ SessionsOf(u)
        /\ UNCHANGED <<scenario, tables, issued, faults, forgot, histories>>
        /\ Stay

\* UpsertGoogle: the row is looked for by Google id, then by address.
Google(p) ==
    \E e \in scenario.google :
        /\ Spend("google")
        /\ IF ByGoogleID # {} THEN \E u \in ByGoogleID : Serve(p, "google_update", u, e)
                              ELSE Serve(p, "google_by_email", 0, e)
        /\ UNCHANGED <<scenario, tables, tokens, faults, forgot, histories>>

\* An address another row has makes the update fail, which is only logged.
GoogleUpdate(p) ==
    LET u == loc[p].user  e == loc[p].to
    IN  /\ pc[p] = "google_update"
        /\ IF u \in Alive /\ ByEmail(e) \subseteq {u}
           THEN /\ users' = [users EXCEPT ![u].email = e, ![u].verified = TRUE]
                /\ proven' = proven \cup {<<u, e>>}
           ELSE UNCHANGED <<users, proven>>
        /\ Continue(p, "issue")
        /\ UNCHANGED <<scenario, links, consumed, tokens, budget, faults, forgot, followed>>

GoogleByEmail(p) ==
    LET e == loc[p].to
    IN  /\ pc[p] = "google_by_email"
        /\ IF ByEmail(e) # {}
           THEN \E u \in ByEmail(e) : Goto(p, "google_link", [loc[p] EXCEPT !.user = u])
           ELSE Continue(p, "google_insert")
        /\ UNCHANGED <<scenario, tables, tokens, budget, faults, forgot, histories>>

\* google_id is unique as well.  The address is left as it is now.
GoogleLink(p) ==
    LET u == loc[p].user
    IN  /\ pc[p] = "google_link"
        /\ IF u \in Alive /\ ByGoogleID \subseteq {u}
           THEN /\ users' = [users EXCEPT ![u].google = TRUE, ![u].verified = TRUE]
                /\ proven' = proven \cup {<<u, loc[p].to>>}
           ELSE UNCHANGED <<users, proven>>
        /\ Continue(p, "issue")
        /\ UNCHANGED <<scenario, links, consumed, tokens, budget, faults, forgot, followed>>

GoogleInsert(p) ==
    LET e == loc[p].to
    IN  /\ pc[p] = "google_insert"
        /\ IF ByEmail(e) = {} /\ ByGoogleID = {}
           THEN /\ users' = Append(users, NewAccount(e, FALSE))
                /\ proven' = proven \cup {<<Len(users) + 1, e>>}
                /\ Goto(p, "issue", [loc[p] EXCEPT !.user = Len(users) + 1])
           ELSE UNCHANGED <<users, proven>> /\ Done(p)
        /\ UNCHANGED <<scenario, links, consumed, tokens, budget, faults, forgot, followed>>

(***************************************************************************)
(* Asking for a link: a forgotten password, or an address to verify.       *)
(***************************************************************************)
\* People ask again unless a mail is on its way or waits to be opened, or they
\* are being served; budget.ask is for the impatient, and for those who ask once.
Arrives(l) == links[l].state = "live" /\ links[l].mail # "lost"
Waiting(u, kind) == \/ \E l \in LinksOf(u, kind) : Arrives(l)
                    \/ \E p \in Workers : loc[p].user = u
Asks(u, kind) ==
    IF kind \in scenario.asks /\ ~Waiting(u, kind) THEN UNCHANGED budget ELSE Spend("ask")

ForgotPassword(p, u) ==
    /\ u \in Alive /\ users[u].password
    /\ u \in forgot /\ Asks(u, "reset")
    /\ Serve(p, "reset_create", u, users[u].email)
    /\ UNCHANGED <<scenario, tables, tokens, faults, forgot, histories>>

\* Mutant of RateLimited: any unused token counts, however old.
RateLimitedByAny(u, kind) == \E l \in LinksOf(u, kind) : links[l].state # "used"

RateLimited(u, kind) == RecentUnused(u, kind) # {}

\* CreatePasswordResetTokenIfAllowed checks and inserts in one transaction.
CreatePasswordResetToken(p) ==
    /\ pc[p] = "reset_create"
    /\ IF loc[p].user \in Alive /\ ~RateLimited(loc[p].user, "reset")
       THEN Insert("reset", loc[p].user, loc[p].to)
       ELSE UNCHANGED <<links, followed>>
    /\ Done(p)
    /\ UNCHANGED <<scenario, users, consumed, tokens, budget, faults, forgot, proven>>

ResendVerification(p, u) ==
    /\ u \in Alive /\ ~users[u].verified /\ Asks(u, "verify")
    /\ Serve(p, "verify_check", u, users[u].email)
    /\ UNCHANGED <<scenario, tables, tokens, faults, forgot, histories>>

\* CanResendVerification and CreateVerificationToken are two statements.
CanResendVerification(p) ==
    /\ pc[p] = "verify_check"
    /\ IF RateLimited(loc[p].user, "verify") THEN Done(p) ELSE Continue(p, "verify_create")
    /\ UNCHANGED <<scenario, tables, tokens, budget, faults, forgot, histories>>

CreateVerificationToken(p) ==
    /\ pc[p] = "verify_create"
    /\ IF loc[p].user \in Alive THEN Insert("verify", loc[p].user, loc[p].to)
                                ELSE UNCHANGED <<links, followed>>
    /\ Done(p)
    /\ UNCHANGED <<scenario, users, consumed, tokens, budget, faults, forgot, proven>>

(***************************************************************************)
(* Opening a link, as often as one likes.                                  *)
(***************************************************************************)
Opened(l, kind) == links[l].kind = kind /\ links[l].mail = "sent"

\* Mutant of Unused: used_at is not looked at.
UnusedOrNot(l) == links[l].state \in {"live", "used"}

Unused(l) == links[l].state = "live"

\* ConsumeVerificationToken.  The owner of the address it was sent to has it.
VerifyEmail(l) ==
    /\ Opened(l, "verify") /\ Unused(l)
    /\ links' = Discard({l}, "used")
    /\ users' = [users EXCEPT ![links[l].user].verified = TRUE]
    /\ proven' = proven \cup {<<links[l].user, links[l].to>>}
    /\ Follow(l)
    /\ UNCHANGED <<scenario, consumed, tokens, budget, faults, forgot>>
    /\ Stay

\* ConsumePasswordResetToken sets the password and ends every session.
ResetPassword(l) ==
    LET u == links[l].user
    IN  /\ Opened(l, "reset") /\ Unused(l)
        /\ links' = Discard({l}, "used")
        /\ users' = [users EXCEPT ![u].password = TRUE]
        /\ sessions' = sessions \ SessionsOf(u)
        /\ forgot' = forgot \ {u}
        /\ Follow(l)
        /\ UNCHANGED <<scenario, consumed, issued, budget, faults, proven>>
        /\ Stay

(***************************************************************************)
(* Changing password and address, and deleting the account.                *)
(***************************************************************************)
\* The current password is checked here, and the new one written in the next
\* step; the request may name a session to be kept.
ChangePassword(p) ==
    \E u \in Alive \ forgot : \E t \in {0} \cup {x.token : x \in sessions} :
        /\ users[u].password /\ Spend("password")
        /\ pc[p] = "idle"
        /\ Goto(p, "password_write", [NoRequest EXCEPT !.user = u, !.token = t])
        /\ UNCHANGED <<scenario, tables, tokens, faults, forgot, histories>>

UpdatePasswordAndRevokeOtherSessions(p) ==
    LET u == loc[p].user
    IN  /\ pc[p] = "password_write"
        /\ sessions' = sessions \ {t \in SessionsOf(u) : t.token # loc[p].token}
        /\ forgot' = forgot \ {u}
        /\ Done(p)
        /\ UNCHANGED <<scenario, tables, issued, budget, faults, histories>>

\* The password is checked, and that the new address differs from the account's
\* and belongs to nobody; neither is asked again when the token is stored.
RequestEmailChange(p) ==
    \E u \in Alive \ forgot, e \in Addresses :
        /\ users[u].password /\ ByEmail(e) = {} /\ Spend("change")
        /\ Serve(p, "change_create", u, e)
        /\ UNCHANGED <<scenario, tables, tokens, faults, forgot, histories>>

\* Mutant of ReplacePending: an outstanding link is kept for the new address.
AmendPending(u, e, l) ==
    /\ users' = [users EXCEPT ![u].pending = e, ![u].link = IF @ = 0 THEN l ELSE @]
    /\ UNCHANGED consumed

\* One pending change for an account; the link it replaces counts as consumed.
ReplacePending(u, e, l) ==
    /\ users' = [users EXCEPT ![u].pending = e, ![u].link = l]
    /\ consumed' = consumed \cup ({users[u].link} \ {0})

\* CreateEmailChangeToken.  The link of an account deleted meanwhile is mailed
\* all the same, and leads nowhere.
CreateEmailChangeToken(p) ==
    LET u == loc[p].user
    IN  /\ pc[p] = "change_create"
        /\ Insert("change", u, loc[p].to)
        /\ IF u \in Alive THEN ReplacePending(u, loc[p].to, Len(links) + 1)
                          ELSE UNCHANGED <<users, consumed>>
        /\ Done(p)
        /\ UNCHANGED <<scenario, tokens, budget, faults, forgot, proven>>

\* ConsumeEmailChangeToken, for an address nobody has taken since.
VerifyEmailChange(l) ==
    /\ Opened(l, "change") /\ l \notin consumed /\ links[l].state = "live"
    /\ \E u \in Alive :
          LET e == users[u].pending
          IN  /\ users[u].link = l /\ ByEmail(e) \subseteq {u}
              /\ users' = [users EXCEPT ![u].email = e, ![u].verified = TRUE,
                                        ![u].pending = "none", ![u].link = 0]
              /\ proven' = proven \cup {<<u, links[l].to>>}
              /\ sessions' = sessions \ SessionsOf(u)
    /\ consumed' = consumed \cup {l}
    /\ Follow(l)
    /\ UNCHANGED <<scenario, links, issued, budget, faults, forgot>>
    /\ Stay

\* DeleteUser, by the owner or an administrator: sessions and token rows go
\* with the row they refer to.
DeleteUser ==
    \E u \in Alive :
        /\ Spend("delete")
        /\ users' = [users EXCEPT ![u] = [NewAccount(@.email, TRUE) EXCEPT !.alive = FALSE]]
        /\ links' = Discard({l \in DOMAIN links : links[l].user = u}, "gone")
        /\ sessions' = sessions \ SessionsOf(u)
        /\ forgot' = forgot \ {u}
        /\ UNCHANGED <<scenario, consumed, issued, faults, histories>>
        /\ Stay

(***************************************************************************)
(* Time, mail, faults and forgetful people.                                *)
(***************************************************************************)
MailGoesOut(l) ==
    /\ links[l].mail = "queued"
    /\ links' = [links EXCEPT ![l].mail = "sent"]
    /\ UNCHANGED <<scenario, users, consumed, tokens, budget, faults, forgot, histories>>
    /\ Stay

MailIsLost(l) ==
    /\ links[l].mail = "queued" /\ failures < scenario.failures
    /\ failures' = failures + 1
    /\ links' = [links EXCEPT ![l].mail = "lost"]
    /\ UNCHANGED <<scenario, users, consumed, tokens, budget, lapses, forgot, histories>>
    /\ Stay

FiveMinutesPass(l) ==
    /\ links[l].recent
    /\ links' = [links EXCEPT ![l].recent = FALSE]
    /\ UNCHANGED <<scenario, users, consumed, tokens, budget, faults, forgot, histories>>
    /\ Stay

\* A link lapses, after an hour or a day.
Lapse(l) ==
    /\ links[l].state = "live" /\ ~links[l].recent
    /\ lapses < scenario.lapses /\ lapses' = lapses + 1
    /\ links' = Discard({l}, "lapsed")
    /\ UNCHANGED <<scenario, users, consumed, tokens, budget, failures, forgot, histories>>
    /\ Stay

\* The daily sweep of verification tokens.
SweepExpiredVerificationTokens ==
    LET expired == {l \in DOMAIN links : links[l].kind = "verify" /\ links[l].state = "lapsed"}
    IN  /\ expired # {}
        /\ links' = Discard(expired, "gone")
        /\ UNCHANGED <<scenario, users, consumed, tokens, budget, faults, forgot, histories>>
        /\ Stay

\* A statement fails, or the server stops: the request ends there.
Fails(p) ==
    /\ pc[p] # "idle" /\ failures < scenario.failures
    /\ failures' = failures + 1
    /\ Done(p)
    /\ UNCHANGED <<scenario, tables, tokens, budget, lapses, forgot, histories>>

Forget ==
    \E u \in Alive \ forgot :
        /\ users[u].password /\ Spend("forget")
        /\ forgot' = forgot \cup {u}
        /\ UNCHANGED <<scenario, tables, tokens, faults, histories>>
        /\ Stay

Request(p) == \/ Register(p) \/ Login(p) \/ Refresh(p) \/ Google(p)
              \/ ChangePassword(p) \/ RequestEmailChange(p)

Step(p) == \/ RegisterToken(p)
           \/ SaveRefreshToken(p)
           \/ ConsumeRefreshToken(p)
           \/ GoogleUpdate(p)
           \/ GoogleByEmail(p)
           \/ GoogleLink(p)
           \/ GoogleInsert(p)
           \/ CreatePasswordResetToken(p)
           \/ CanResendVerification(p)
           \/ CreateVerificationToken(p)
           \/ UpdatePasswordAndRevokeOtherSessions(p)
           \/ CreateEmailChangeToken(p)

Open(l) == VerifyEmail(l) \/ ResetPassword(l) \/ VerifyEmailChange(l)

Next == \/ \E p \in Workers : Request(p)
        \/ \E p \in Workers, u \in DOMAIN users : ForgotPassword(p, u) \/ ResendVerification(p, u)
        \/ \E p \in Workers : Step(p)
        \/ \E l \in DOMAIN links : Open(l)
        \/ \E l \in DOMAIN links : MailGoesOut(l) \/ FiveMinutesPass(l) \/ Lapse(l) \/ MailIsLost(l)
        \/ \E p \in Workers : RegisterTokenFails(p) \/ Fails(p)
        \/ SweepExpiredVerificationTokens
        \/ Logout
        \/ DeleteUser
        \/ Forget

Spec == Init /\ [][Next]_vars

CONSTANTS MaxUsers, MaxLinks        \* that can come to be in Scenarios

ASSUME BoundsAssumption == {MaxUsers, MaxLinks} \subseteq Nat

\* Requests are served, mail goes out and time passes.  Who needs a link asks
\* for it until it comes, and opens it when it comes.
Fairness ==
    /\ \A p \in Workers : WF_vars(Step(p))
    /\ WF_vars(\E l \in DOMAIN links : MailGoesOut(l))
    /\ WF_vars(\E l \in DOMAIN links : FiveMinutesPass(l))
    /\ \A u \in 1..MaxUsers :
          /\ SF_vars(u \in DOMAIN users /\ \E p \in Workers : ForgotPassword(p, u))
          /\ SF_vars(u \in DOMAIN users /\ \E p \in Workers : ResendVerification(p, u))
    /\ SF_vars(\E l \in DOMAIN links : VerifyEmail(l))
    /\ SF_vars(\E l \in DOMAIN links : ResetPassword(l))

FairSpec == Spec /\ Fairness

-----------------------------------------------------------------------------
TypeOK ==
    /\ scenario \in Scenarios
    /\ users \in Seq(Account)
    /\ links \in Seq([kind : {"verify", "reset", "change"}, user : DOMAIN users, to : Addresses,
                      state : {"live", "used", "lapsed", "gone"}, recent : BOOLEAN,
                      mail : {"queued", "sent", "lost"}])
    /\ consumed \subseteq DOMAIN links
    /\ issued \in Nat /\ sessions \subseteq [token : 1..issued, user : Alive]
    /\ pc \in [Workers -> {"idle", "register_token", "issue", "refresh_delete", "google_update",
                           "google_by_email", "google_link", "google_insert", "reset_create",
                           "verify_check", "verify_create", "password_write", "change_create"}]
    /\ loc \in [Workers -> [user : {0} \cup DOMAIN users, to : Addresses \cup {"none"}, token : Nat]]
    /\ budget \in [Requests -> Nat] /\ {failures, lapses} \subseteq Nat
    /\ forgot \subseteq Alive /\ proven \subseteq (DOMAIN users) \X Addresses
    /\ followed \in Seq(Nat) /\ Len(followed) = Len(links)

\* An address that counts as verified was shown to belong to the account's
\* owner: by opening a link sent to that address, or by Google.  No order of
\* registrations, changes of address, replaced links and sign-ins with Google
\* leaves the flag on an address nobody confirmed (email_verified as written by
\* ConsumeVerificationToken, ConsumeEmailChangeToken and UpsertGoogle).
AddressIsProven == \A u \in Alive : users[u].verified => <<u, users[u].email>> \in proven

\* The newest request for a change of address; of the others, several may be
\* good at once.
Newest(l) == links[l].kind = "change" =>
                 \A m \in DOMAIN links : links[m].kind = "change" /\ links[m].user = links[l].user => m <= l

Good(l) == /\ links[l].user \in Alive /\ links[l].state \notin {"lapsed", "gone"}
           /\ followed[l] = 0 /\ Newest(l)

GoodLinks == {l \in DOMAIN links : Good(l)}

Padded(f, default) == [l \in 1..MaxLinks |-> IF l \in DOMAIN f THEN f[l] ELSE default]
TimesFollowed == Padded(followed, 0)
\* A reset or a change of address ends the sessions of the account.
Ends(row) == IF row.kind = "verify" THEN {} ELSE {row.user}
SessionsEnded == Padded([l \in DOMAIN links |-> Ends(links[l])], {})
SignedIn == {t.user : t \in sessions}

Promise == INSTANCE MailedLinks
    WITH Links <- 1..MaxLinks, Accounts <- 1..MaxUsers,
         made <- DOMAIN links, good <- GoodLinks, followed <- TimesFollowed,
         ends <- SessionsEnded, sessions <- SignedIn

\* Whatever the requests under way, a link has its effect once, while it is the
\* newest of its kind that counts, and a reset or a change of address leaves the
\* account without sessions: the handlers keep the promise of MailedLinks
\* (ConsumePasswordResetToken, ConsumeEmailChangeToken, ConsumeVerificationToken).
LinksKeepTheirPromise == Promise!Spec

\* Who forgot the password or has an address to verify, and keeps asking, gets
\* a link and gets in, though mail is lost, links lapse before they are opened,
\* requests die half way and another one less than five minutes after the
\* last is refused.
WhoAsksGetsIn ==
    \A u \in 1..MaxUsers :
        /\ ("reset" \in scenario.asks /\ u \in forgot) ~> (u \notin forgot)
        /\ ("verify" \in scenario.asks /\ u \in Alive) ~> (u \in Alive => users[u].verified)
=============================================================================
