---------------------------- MODULE Accounts_proofs ----------------------------
(***************************************************************************)
(* For any number of goroutines, addresses, requests and faults: an        *)
(* address that counts as verified was confirmed, and the handlers keep    *)
(* the promise of MailedLinks.                                             *)
(*                                                                         *)
(* The argument: an address that some request, link or Google sign-in is   *)
(* about to confirm is the account's, unless the account has changed to    *)
(* one that was confirmed; and an account's change of address is its       *)
(* newest, so it is followed before another one replaces it or never.      *)
(***************************************************************************)
EXTENDS Accounts, SequenceTheorems, TLAPS

Kinds == {"verify", "reset", "change"}
States == {"live", "used", "lapsed", "gone"}
LinkRow == [kind : Kinds, user : Nat, to : Addresses, state : States, recent : BOOLEAN,
            mail : {"queued", "sent", "lost"}]
Steps == {"idle", "register_token", "issue", "refresh_delete", "google_update", "google_by_email",
          "google_link", "google_insert", "reset_create", "verify_check", "verify_create",
          "password_write", "change_create"}
Carried == [user : Nat, to : Addresses \cup {"none"}, token : Nat]

\* To confirm e for account u leaves no doubt about the address u has.
Settles(us, pr, u, e) == /\ u \in DOMAIN us
                         /\ us[u].email = e \/ <<u, us[u].email>> \in pr

VerifiedAreProven(us, pr) ==
    \A u \in DOMAIN us : us[u].verified => <<u, us[u].email>> \in pr

LinksSettle(us, pr, ls) ==
    \A l \in DOMAIN ls : ls[l].kind = "verify" => Settles(us, pr, ls[l].user, ls[l].to)

\* Link l is the change of address that is under way for account u.
IsPending(us, ls, u, l) ==
    /\ us[u].alive
    /\ l \in DOMAIN ls /\ ls[l].kind = "change" /\ ls[l].user = u /\ ls[l].to = us[u].pending
    /\ \A m \in DOMAIN ls : ls[m].kind = "change" /\ ls[m].user = u => m <= l

PendingLinks(us, ls) ==
    \A u \in DOMAIN us : us[u].link # 0 => IsPending(us, ls, u, us[u].link)

\* A link that had its effect is used up.
FollowedAreSpent(ls, f, con) ==
    \A l \in DOMAIN ls :
        f[l] # 0 => IF ls[l].kind = "change" THEN l \in con ELSE ls[l].state # "live"

\* A link to verify or reset that can still be used belongs to an account.
LiveHaveOwners(us, ls) ==
    \A l \in DOMAIN ls : /\ ls[l].user \in DOMAIN us
                         /\ ls[l].kind # "change" /\ ls[l].state = "live" => us[ls[l].user].alive

\* A request that is served.
Sound(us, pr, at, r) ==
    /\ r \in Carried
    /\ at \in {"register_token", "verify_check", "verify_create", "google_link"} =>
           r.to \in Addresses /\ Settles(us, pr, r.user, r.to)
    /\ at \in {"reset_create", "change_create"} => r.to \in Addresses /\ r.user \in DOMAIN us
    /\ at \in {"google_update", "google_by_email", "google_insert"} => r.to \in Addresses

Workspace(us, pr, at, r) ==
    /\ at \in [Workers -> Steps] /\ r \in [Workers -> Carried]
    /\ \A p \in Workers : Sound(us, pr, at[p], r[p])

Typed ==
    /\ scenario \in Scenarios
    /\ users \in Seq(Account) /\ links \in Seq(LinkRow)
    /\ followed \in Seq(Nat) /\ Len(followed) = Len(links)
    /\ issued \in Nat
    /\ \A t \in sessions : t.user \in DOMAIN users /\ t.token \in Nat

AccountsInv ==
    /\ Typed
    /\ VerifiedAreProven(users, proven)
    /\ LinksSettle(users, proven, links)
    /\ PendingLinks(users, links)
    /\ FollowedAreSpent(links, followed, consumed)
    /\ LiveHaveOwners(users, links)
    /\ Workspace(users, proven, pc, loc)

-----------------------------------------------------------------------------
\* Tables that grow, and rows that change.

LEMMA Appended ==
    ASSUME NEW S, NEW s \in Seq(S), NEW x \in S
    PROVE  /\ Append(s, x) \in Seq(S) /\ Len(Append(s, x)) = Len(s) + 1
           /\ DOMAIN Append(s, x) = DOMAIN s \cup {Len(s) + 1}
           /\ Len(s) + 1 \notin DOMAIN s /\ Len(s) \in Nat
           /\ \A i \in DOMAIN s : Append(s, x)[i] = s[i] /\ i \in Nat /\ i < Len(s) + 1
           /\ Append(s, x)[Len(s) + 1] = x
<1>1. Append(s, x) \in Seq(S) /\ Len(Append(s, x)) = Len(s) + 1 /\ Len(s) \in Nat
  OBVIOUS
<1>2. DOMAIN s = 1..Len(s) /\ DOMAIN Append(s, x) = 1..(Len(s) + 1)
  BY <1>1, LenProperties
<1>3. \A i \in DOMAIN s : Append(s, x)[i] = s[i]
  BY <1>2
<1>4. Append(s, x)[Len(s) + 1] = x
  OBVIOUS
<1> QED BY <1>1, <1>2, <1>3, <1>4

LEMMA Replaced ==
    ASSUME NEW S, NEW s \in Seq(S), NEW i \in DOMAIN s, NEW x \in S
    PROVE  /\ [s EXCEPT ![i] = x] \in Seq(S) /\ Len([s EXCEPT ![i] = x]) = Len(s)
           /\ DOMAIN [s EXCEPT ![i] = x] = DOMAIN s
           /\ \A j \in DOMAIN s : [s EXCEPT ![i] = x][j] = IF j = i THEN x ELSE s[j]
<1>1. DOMAIN s = 1..Len(s)
  BY LenProperties
<1> QED BY <1>1, ExceptSeq

\* No account loses the assurance that it had of its address.
Settling(us, pr, usn, prn) ==
    /\ DOMAIN us \subseteq DOMAIN usn /\ pr \subseteq prn
    /\ \A u \in DOMAIN us : usn[u].email = us[u].email \/ <<u, usn[u].email>> \in prn

\* No account changes its pending link, dies or revives.
Keeping(us, usn) ==
    /\ DOMAIN us \subseteq DOMAIN usn
    /\ \A u \in DOMAIN us :
        usn[u].alive = us[u].alive /\ usn[u].link = us[u].link /\ usn[u].pending = us[u].pending
    /\ \A u \in DOMAIN usn \ DOMAIN us : usn[u].link = 0

\* Links stay whose they are, and do not come to life.
Retiring(ls, lsn) ==
    /\ DOMAIN lsn = DOMAIN ls
    /\ \A l \in DOMAIN ls :
        /\ lsn[l].kind = ls[l].kind /\ lsn[l].user = ls[l].user /\ lsn[l].to = ls[l].to
        /\ lsn[l].state = "live" => ls[l].state = "live"

\* Rows stay as they are, and the new one is live and was not followed.
Adds(ls, lsn, f, fn, row) ==
    /\ lsn \in Seq(LinkRow) /\ fn \in Seq(Nat) /\ Len(fn) = Len(lsn)
    /\ DOMAIN lsn = DOMAIN ls \cup {Len(ls) + 1} /\ Len(ls) + 1 \notin DOMAIN ls
    /\ \A l \in DOMAIN ls : lsn[l] = ls[l] /\ fn[l] = f[l] /\ l < Len(ls) + 1 /\ l \in Nat
    /\ lsn[Len(ls) + 1] = row /\ fn[Len(ls) + 1] = 0 /\ Len(ls) + 1 \in Nat

\* Nobody revives, and no link is followed or becomes good.
Quiet ==
    /\ DOMAIN users \subseteq DOMAIN users'
    /\ \A u \in DOMAIN users : users'[u].alive => users[u].alive
    /\ followed' = followed /\ Retiring(links, links')
    /\ \A l \in DOMAIN links : links'[l].state \in {links[l].state, "lapsed", "gone"}

\* A link is made.
Makes(row) ==
    /\ Adds(links, links', followed, followed', row) /\ row.user \in DOMAIN users
    /\ DOMAIN users' = DOMAIN users /\ (\A u \in DOMAIN users : users'[u].alive = users[u].alive)
    /\ sessions' = sessions

\* A good link is followed.
Follows(l) ==
    /\ l \in DOMAIN links /\ Good(l)
    /\ DOMAIN users' = DOMAIN users /\ (\A u \in DOMAIN users : users'[u].alive = users[u].alive)
    /\ Retiring(links, links')
    /\ \A m \in DOMAIN links : m # l => links'[m].state = links[m].state
    /\ \A m \in DOMAIN links : followed'[m] = IF m = l THEN followed[m] + 1 ELSE followed[m]
    /\ followed[l] = 0 /\ DOMAIN followed' = DOMAIN links
    /\ SignedIn' = SignedIn \ Ends(links[l])

\* A step keeps the invariant, and is one that is promised.
Proceeds == AccountsInv' /\ (Quiet \/ (\E row : Makes(row)) \/ (\E l : Follows(l)))

LEMMA SettlesStays ==
    \A us, pr, usn, prn, u, e :
        Settling(us, pr, usn, prn) /\ Settles(us, pr, u, e) => Settles(usn, prn, u, e)
BY DEF Settling, Settles

LEMMA LinksSettleStay ==
    \A us, pr, usn, prn, ls :
        Settling(us, pr, usn, prn) /\ LinksSettle(us, pr, ls) => LinksSettle(usn, prn, ls)
BY SettlesStays DEF LinksSettle

LEMMA SoundStays ==
    \A us, pr, usn, prn, at, r :
        Settling(us, pr, usn, prn) /\ Sound(us, pr, at, r) => Sound(usn, prn, at, r)
<1> TAKE us, pr, usn, prn, at, r
<1>1. Settling(us, pr, usn, prn) => DOMAIN us \subseteq DOMAIN usn
  BY DEF Settling
<1> QED BY <1>1, SettlesStays DEF Sound

LEMMA WorkspaceStays ==
    \A us, pr, usn, prn, at, r :
        Settling(us, pr, usn, prn) /\ Workspace(us, pr, at, r) => Workspace(usn, prn, at, r)
BY SoundStays DEF Workspace

LEMMA WorkspaceMoves ==
    \A us, pr, at, r, p, a, x :
        Workspace(us, pr, at, r) /\ p \in Workers /\ a \in Steps /\ Sound(us, pr, a, x) =>
            Workspace(us, pr, [at EXCEPT ![p] = a], [r EXCEPT ![p] = x])
<1> TAKE us, pr, at, r, p, a, x
<1> SUFFICES ASSUME Workspace(us, pr, at, r), p \in Workers, a \in Steps, Sound(us, pr, a, x)
             PROVE  Workspace(us, pr, [at EXCEPT ![p] = a], [r EXCEPT ![p] = x])
  OBVIOUS
<1>1. x \in Carried
  BY DEF Sound
<1>2. [at EXCEPT ![p] = a] \in [Workers -> Steps] /\ [r EXCEPT ![p] = x] \in [Workers -> Carried]
  BY <1>1 DEF Workspace
<1>3. \A q \in Workers : /\ [at EXCEPT ![p] = a][q] = (IF q = p THEN a ELSE at[q])
                          /\ [r EXCEPT ![p] = x][q] = IF q = p THEN x ELSE r[q]
  BY DEF Workspace
<1> QED BY <1>2, <1>3 DEF Workspace

LEMMA PendingStays ==
    \A us, usn, ls :
        Keeping(us, usn) /\ PendingLinks(us, ls) => PendingLinks(usn, ls)
BY DEF Keeping, PendingLinks, IsPending

LEMMA OwnersStay ==
    \A us, usn, ls :
        Keeping(us, usn) /\ LiveHaveOwners(us, ls) => LiveHaveOwners(usn, ls)
BY DEF Keeping, LiveHaveOwners

LEMMA LinksRetire ==
    \A us, pr, ls, lsn, f, con :
        Retiring(ls, lsn) =>
            /\ LinksSettle(us, pr, ls) => LinksSettle(us, pr, lsn)
            /\ PendingLinks(us, ls) => PendingLinks(us, lsn)
            /\ FollowedAreSpent(ls, f, con) => FollowedAreSpent(lsn, f, con)
            /\ LiveHaveOwners(us, ls) => LiveHaveOwners(us, lsn)
<1> TAKE us, pr, ls, lsn, f, con
<1> SUFFICES ASSUME Retiring(ls, lsn)
             PROVE  /\ LinksSettle(us, pr, ls) => LinksSettle(us, pr, lsn)
                    /\ PendingLinks(us, ls) => PendingLinks(us, lsn)
                    /\ FollowedAreSpent(ls, f, con) => FollowedAreSpent(lsn, f, con)
                    /\ LiveHaveOwners(us, ls) => LiveHaveOwners(us, lsn)
  OBVIOUS
<1>1. LinksSettle(us, pr, ls) => LinksSettle(us, pr, lsn)
  BY DEF Retiring, LinksSettle
<1>2. \A u, l : IsPending(us, ls, u, l) => IsPending(us, lsn, u, l)
  BY DEF Retiring, IsPending
<1>3. PendingLinks(us, ls) => PendingLinks(us, lsn)
  BY <1>2 DEF PendingLinks
<1>4. FollowedAreSpent(ls, f, con) => FollowedAreSpent(lsn, f, con)
  BY DEF Retiring, FollowedAreSpent
<1>5. LiveHaveOwners(us, ls) => LiveHaveOwners(us, lsn)
  BY DEF Retiring, LiveHaveOwners
<1> QED BY <1>1, <1>3, <1>4, <1>5

\* A new link for an account with no change under way that it would overtake.
LEMMA LinkMade ==
    \A us, pr, ls, lsn, f, fn, con, n :
        /\ DOMAIN lsn = DOMAIN ls \cup {n} /\ n \notin DOMAIN ls
        /\ \A l \in DOMAIN ls : lsn[l] = ls[l] /\ fn[l] = f[l]
        /\ fn[n] = 0 /\ lsn[n].user \in DOMAIN us
        =>
            /\ LinksSettle(us, pr, ls) /\ (lsn[n].kind = "verify" => Settles(us, pr, lsn[n].user, lsn[n].to))
                   => LinksSettle(us, pr, lsn)
            /\ PendingLinks(us, ls) /\ lsn[n].kind # "change" => PendingLinks(us, lsn)
            /\ FollowedAreSpent(ls, f, con) => FollowedAreSpent(lsn, fn, con)
            /\ LiveHaveOwners(us, ls) /\ (lsn[n].kind # "change" => us[lsn[n].user].alive)
                   => LiveHaveOwners(us, lsn)
BY DEF LinksSettle, PendingLinks, IsPending, FollowedAreSpent, LiveHaveOwners

-----------------------------------------------------------------------------
\* Steps that only touch a request, or the sessions.

LEMMA IdleIsSound == \A us, pr : NoRequest \in Carried /\ Sound(us, pr, "idle", NoRequest)
<1>1. NoRequest \in Carried
  BY DEF NoRequest, Carried
<1> QED BY <1>1 DEF Sound

LEMMA InvInit == Init => AccountsInv
<1> SUFFICES ASSUME Init  PROVE AccountsInv
  OBVIOUS
<1>1. scenario \in Scenarios /\ users \in Seq(Account) /\ \A u \in DOMAIN users : users[u].link = 0
  BY ScenariosAssumption DEF Init
<1>2. Typed
  BY <1>1, EmptySeq DEF Init, Typed
<1>3. VerifiedAreProven(users, proven)
  BY DEF Init, VerifiedAreProven
<1>4. DOMAIN links = {}
  BY DEF Init
<1>5. /\ LinksSettle(users, proven, links) /\ FollowedAreSpent(links, followed, consumed)
      /\ LiveHaveOwners(users, links)
  BY <1>4 DEF LinksSettle, FollowedAreSpent, LiveHaveOwners
<1>6. PendingLinks(users, links)
  BY <1>1 DEF PendingLinks
<1>7. NoRequest \in Carried /\ Sound(users, proven, "idle", NoRequest)
  BY IdleIsSound
<1>8. pc = [p \in Workers |-> "idle"] /\ loc = [p \in Workers |-> NoRequest]
  BY DEF Init
<1>9. pc \in [Workers -> Steps] /\ loc \in [Workers -> Carried]
  BY <1>7, <1>8 DEF Steps
<1>10. \A p \in Workers : pc[p] = "idle" /\ loc[p] = NoRequest
  BY <1>8
<1>11. Workspace(users, proven, pc, loc)
  BY <1>7, <1>9, <1>10 DEF Workspace
<1> QED BY <1>2, <1>3, <1>5, <1>6, <1>11 DEF AccountsInv

\* The step of one request.
LEMMA GoesTo ==
    \A p, a, x :
        AccountsInv /\ p \in Workers /\ a \in Steps /\ Goto(p, a, x) /\ Sound(users, proven, a, x)
            => Workspace(users, proven, pc', loc')
<1> TAKE p, a, x
<1> HAVE AccountsInv /\ p \in Workers /\ a \in Steps /\ Goto(p, a, x) /\ Sound(users, proven, a, x)
<1>1. Workspace(users, proven, pc, loc)
  BY DEF AccountsInv
<1>2. Workspace(users, proven, [pc EXCEPT ![p] = a], [loc EXCEPT ![p] = x])
  BY <1>1, WorkspaceMoves
<1> QED BY <1>2 DEF Goto

LEMMA RequestIsSound ==
    AccountsInv => \A p \in Workers : Sound(users, proven, pc[p], loc[p]) /\ loc[p] \in Carried
BY DEF AccountsInv, Workspace

\* Its end.
LEMMA GoesIdle ==
    \A p : AccountsInv /\ p \in Workers /\ Done(p) => Workspace(users, proven, pc', loc')
<1>1. Sound(users, proven, "idle", NoRequest) /\ "idle" \in Steps
  BY IdleIsSound DEF Steps
<1> QED BY <1>1, GoesTo DEF Done

LEMMA Fresh ==
    \A u, e : [NoRequest EXCEPT !.user = u, !.to = e] = [user |-> u, to |-> e, token |-> 0]
<1> TAKE u, e
<1> DEFINE r == [NoRequest EXCEPT !.user = u, !.to = e]
           x == [user |-> u, to |-> e, token |-> 0]
<1>1. DOMAIN r = {"user", "to", "token"} /\ DOMAIN x = {"user", "to", "token"}
  BY DEF NoRequest
<1>2. r.user = u /\ r.to = e /\ r.token = 0 /\ x.user = u /\ x.to = e /\ x.token = 0
  BY DEF NoRequest
<1>3. r = [i \in DOMAIN r |-> r[i]] /\ x = [i \in DOMAIN x |-> x[i]]
  BY DEF NoRequest
<1>4. r = x
  <2> HIDE DEF r, x
  <2> QED BY <1>1, <1>2, <1>3
<1> QED BY <1>4

\* Its beginning.
LEMMA Serves ==
    \A p, a, u, e :
        (/\ AccountsInv /\ p \in Workers /\ a \in Steps /\ Serve(p, a, u, e)
         /\ Sound(users, proven, a, [user |-> u, to |-> e, token |-> 0]))
            => Workspace(users, proven, pc', loc')
BY GoesTo, Fresh DEF Serve

LEMMA TablesRest ==
    (/\ AccountsInv /\ UNCHANGED <<scenario, tables, proven, followed>>
     /\ issued' \in Nat /\ (\A t \in sessions' : t.user \in DOMAIN users /\ t.token \in Nat)
     /\ Workspace(users, proven, pc', loc'))
        => Proceeds
<1> HAVE (/\ AccountsInv /\ UNCHANGED <<scenario, tables, proven, followed>>
          /\ issued' \in Nat /\ (\A t \in sessions' : t.user \in DOMAIN users /\ t.token \in Nat)
          /\ Workspace(users, proven, pc', loc'))
<1>1. AccountsInv'
  BY DEF AccountsInv, Typed, tables
<1>2. Quiet
  BY DEF Quiet, Retiring, tables
<1> QED BY <1>1, <1>2 DEF Proceeds

LEMMA SameSessions ==
    AccountsInv /\ UNCHANGED tokens =>
        issued' \in Nat /\ (\A t \in sessions' : t.user \in DOMAIN users /\ t.token \in Nat)
BY DEF AccountsInv, Typed, tokens

LEMMA AliveTyped ==
    AccountsInv => \A u \in DOMAIN users : u \in Nat /\ users[u] \in Account /\ users[u].email \in Addresses
<1> SUFFICES ASSUME AccountsInv, NEW u \in DOMAIN users
             PROVE  u \in Nat /\ users[u] \in Account /\ users[u].email \in Addresses
  OBVIOUS
<1>1. users \in Seq(Account)
  BY DEF AccountsInv, Typed
<1>2. u \in 1..Len(users) /\ Len(users) \in Nat
  BY <1>1, LenProperties
<1>3. users[u] \in Account
  BY <1>1, <1>2, ElementOfSeq
<1> QED BY <1>2, <1>3 DEF Account

LEMMA InvLogin == ASSUME NEW p \in Workers, AccountsInv, Login(p)  PROVE Proceeds
<1>1. PICK u \in Alive : /\ Serve(p, "issue", u, users[u].email)
                         /\ UNCHANGED <<scenario, tables, tokens, faults, forgot, histories>>
  BY DEF Login
<1>2. u \in Nat /\ users[u].email \in Addresses
  BY AliveTyped DEF Alive
<1>3. Sound(users, proven, "issue", [user |-> u, to |-> users[u].email, token |-> 0])
  BY <1>2 DEF Sound, Carried
<1>4. Workspace(users, proven, pc', loc')
  BY <1>1, <1>3, Serves DEF Steps
<1> QED BY <1>1, <1>4, TablesRest, SameSessions DEF histories

LEMMA InvSaveRefreshToken ==
    ASSUME NEW p \in Workers, AccountsInv, SaveRefreshToken(p)  PROVE Proceeds
<1>1. Workspace(users, proven, pc', loc')
  BY GoesIdle DEF SaveRefreshToken
<1>2. issued \in Nat /\ (\A t \in sessions : t.user \in DOMAIN users /\ t.token \in Nat)
  BY DEF AccountsInv, Typed
<1>3. issued' \in Nat /\ (\A t \in sessions' : t.user \in DOMAIN users /\ t.token \in Nat)
  BY <1>2 DEF SaveRefreshToken, tokens, Alive
<1> QED BY <1>1, <1>3, TablesRest DEF SaveRefreshToken, histories

LEMMA InvRefresh == ASSUME NEW p \in Workers, AccountsInv, Refresh(p)  PROVE Proceeds
<1>1. PICK t \in sessions :
          /\ Goto(p, "refresh_delete", [NoRequest EXCEPT !.user = t.user, !.token = t.token])
          /\ UNCHANGED <<scenario, tables, tokens, faults, forgot, histories>>
  BY DEF Refresh
<1>2. t.user \in Nat /\ t.token \in Nat
  BY AliveTyped DEF AccountsInv, Typed
<1>3. [NoRequest EXCEPT !.user = t.user, !.token = t.token] \in Carried
  BY <1>2 DEF NoRequest, Carried
<1>4. Sound(users, proven, "refresh_delete", [NoRequest EXCEPT !.user = t.user, !.token = t.token])
  BY <1>3 DEF Sound
<1>5. Workspace(users, proven, pc', loc')
  BY <1>1, <1>4, GoesTo DEF Steps
<1> QED BY <1>1, <1>5, TablesRest, SameSessions DEF histories

LEMMA InvConsumeRefreshToken ==
    ASSUME NEW p \in Workers, AccountsInv, ConsumeRefreshToken(p)  PROVE Proceeds
<1>1. [loc[p] EXCEPT !.token = 0] \in Carried
  BY RequestIsSound DEF Carried
<1>2. Sound(users, proven, "issue", [loc[p] EXCEPT !.token = 0])
  BY <1>1 DEF Sound
<1>3. Workspace(users, proven, pc', loc')
  BY <1>2, GoesTo DEF ConsumeRefreshToken, Steps
<1>4. issued' \in Nat /\ (\A t \in sessions' : t.user \in DOMAIN users /\ t.token \in Nat)
  BY DEF ConsumeRefreshToken, AccountsInv, Typed
<1> QED BY <1>3, <1>4, TablesRest DEF ConsumeRefreshToken, histories

LEMMA WorkspaceRests ==
    AccountsInv /\ Stay => Workspace(users, proven, pc', loc')
BY DEF AccountsInv, Stay

LEMMA InvLogout == AccountsInv /\ Logout => Proceeds
<1> SUFFICES ASSUME AccountsInv, Logout  PROVE Proceeds
  OBVIOUS
<1>1. Workspace(users, proven, pc', loc')
  BY WorkspaceRests DEF Logout
<1>2. issued' \in Nat /\ (\A t \in sessions' : t.user \in DOMAIN users /\ t.token \in Nat)
  BY DEF Logout, AccountsInv, Typed
<1> QED BY <1>1, <1>2, TablesRest DEF Logout, histories

LEMMA InvForget == AccountsInv /\ Forget => Proceeds
BY WorkspaceRests, SameSessions, TablesRest DEF Forget, histories

LEMMA InvFails == ASSUME NEW p \in Workers, AccountsInv, Fails(p)  PROVE Proceeds
BY GoesIdle, SameSessions, TablesRest DEF Fails, histories

\* What Google knows.
LEMMA GoogleAddress == AccountsInv => scenario.google \subseteq Addresses
BY ScenariosAssumption DEF AccountsInv, Typed

LEMMA InvGoogle == ASSUME NEW p \in Workers, AccountsInv, Google(p)  PROVE Proceeds
<1>1. PICK e \in scenario.google :
          /\ \/ \E u \in ByGoogleID : Serve(p, "google_update", u, e)
             \/ Serve(p, "google_by_email", 0, e)
          /\ UNCHANGED <<scenario, tables, tokens, faults, forgot, histories>>
  BY DEF Google
<1>2. e \in Addresses
  BY GoogleAddress
<1>3. ASSUME NEW u \in ByGoogleID, Serve(p, "google_update", u, e)
      PROVE  Workspace(users, proven, pc', loc')
  <2>1. u \in Nat
    BY AliveTyped DEF ByGoogleID, Alive
  <2>2. Sound(users, proven, "google_update", [user |-> u, to |-> e, token |-> 0])
    BY <1>2, <2>1 DEF Sound, Carried
  <2> QED BY <1>3, <2>2, Serves DEF Steps
<1>4. ASSUME Serve(p, "google_by_email", 0, e)
      PROVE  Workspace(users, proven, pc', loc')
  <2>1. Sound(users, proven, "google_by_email", [user |-> 0, to |-> e, token |-> 0])
    BY <1>2 DEF Sound, Carried
  <2> QED BY <1>4, <2>1, Serves DEF Steps
<1> QED BY <1>1, <1>3, <1>4, TablesRest, SameSessions DEF histories

LEMMA InvGoogleByEmail ==
    ASSUME NEW p \in Workers, AccountsInv, GoogleByEmail(p)  PROVE Proceeds
<1>1. loc[p] \in Carried /\ loc[p].to \in Addresses
  BY RequestIsSound DEF GoogleByEmail, Sound
<1>2. ASSUME NEW u \in ByEmail(loc[p].to), Goto(p, "google_link", [loc[p] EXCEPT !.user = u])
      PROVE  Workspace(users, proven, pc', loc')
  <2>1. u \in DOMAIN users /\ users[u].email = loc[p].to /\ u \in Nat
    BY AliveTyped DEF ByEmail, Alive
  <2>2. /\ [loc[p] EXCEPT !.user = u] \in Carried
        /\ [loc[p] EXCEPT !.user = u].to = loc[p].to /\ [loc[p] EXCEPT !.user = u].user = u
    BY <1>1, <2>1 DEF Carried
  <2>3. Sound(users, proven, "google_link", [loc[p] EXCEPT !.user = u])
    BY <1>1, <2>1, <2>2 DEF Sound, Settles
  <2> QED BY <1>2, <2>3, GoesTo DEF Steps
<1>3. ASSUME Continue(p, "google_insert")
      PROVE  Workspace(users, proven, pc', loc')
  <2>1. Sound(users, proven, "google_insert", loc[p])
    BY <1>1 DEF Sound
  <2> QED BY <1>3, <2>1, GoesTo DEF Continue, Steps
<1>4. Workspace(users, proven, pc', loc')
  BY <1>2, <1>3 DEF GoogleByEmail
<1> QED BY <1>4, TablesRest, SameSessions DEF GoogleByEmail, histories

LEMMA InvForgotPassword ==
    ASSUME NEW p \in Workers, NEW u \in DOMAIN users, AccountsInv, ForgotPassword(p, u)
    PROVE  Proceeds
<1>1. u \in Nat /\ users[u].email \in Addresses
  BY AliveTyped
<1>2. Sound(users, proven, "reset_create", [user |-> u, to |-> users[u].email, token |-> 0])
  BY <1>1 DEF Sound, Carried
<1>3. Workspace(users, proven, pc', loc')
  BY <1>2, Serves DEF ForgotPassword, Steps
<1> QED BY <1>3, TablesRest, SameSessions DEF ForgotPassword, histories

LEMMA InvResendVerification ==
    ASSUME NEW p \in Workers, NEW u \in DOMAIN users, AccountsInv, ResendVerification(p, u)
    PROVE  Proceeds
<1>1. u \in Nat /\ users[u].email \in Addresses
  BY AliveTyped
<1>2. Sound(users, proven, "verify_check", [user |-> u, to |-> users[u].email, token |-> 0])
  BY <1>1 DEF Sound, Carried, Settles
<1>3. Workspace(users, proven, pc', loc')
  BY <1>2, Serves DEF ResendVerification, Steps
<1> QED BY <1>3, TablesRest, SameSessions DEF ResendVerification, histories

LEMMA InvCanResendVerification ==
    ASSUME NEW p \in Workers, AccountsInv, CanResendVerification(p)  PROVE Proceeds
<1>1. Sound(users, proven, "verify_check", loc[p])
  BY RequestIsSound DEF CanResendVerification
<1>2. Sound(users, proven, "verify_create", loc[p])
  BY <1>1 DEF Sound
<1>3. Continue(p, "verify_create") => Workspace(users, proven, pc', loc')
  BY <1>2, GoesTo DEF Continue, Steps
<1>4. Workspace(users, proven, pc', loc')
  BY <1>3, GoesIdle DEF CanResendVerification
<1> QED BY <1>4, TablesRest, SameSessions DEF CanResendVerification, histories

LEMMA InvRegisterTokenFails ==
    ASSUME NEW p \in Workers, AccountsInv, RegisterTokenFails(p)  PROVE Proceeds
<1>1. Sound(users, proven, "issue", loc[p])
  BY RequestIsSound DEF Sound
<1>2. Workspace(users, proven, pc', loc')
  BY <1>1, GoesTo DEF RegisterTokenFails, Continue, Steps
<1> QED BY <1>2, TablesRest, SameSessions DEF RegisterTokenFails, histories

LEMMA InvChangePassword ==
    ASSUME NEW p \in Workers, AccountsInv, ChangePassword(p)  PROVE Proceeds
<1>1. PICK u \in Alive, t \in {0} \cup {x.token : x \in sessions} :
          /\ Goto(p, "password_write", [NoRequest EXCEPT !.user = u, !.token = t])
          /\ UNCHANGED <<scenario, tables, tokens, faults, forgot, histories>>
  BY DEF ChangePassword
<1>2. u \in Nat /\ t \in Nat
  BY AliveTyped DEF Alive, AccountsInv, Typed
<1>3. [NoRequest EXCEPT !.user = u, !.token = t] \in Carried
  BY <1>2 DEF NoRequest, Carried
<1>4. Sound(users, proven, "password_write", [NoRequest EXCEPT !.user = u, !.token = t])
  BY <1>3 DEF Sound
<1>5. Workspace(users, proven, pc', loc')
  BY <1>1, <1>4, GoesTo DEF Steps
<1> QED BY <1>1, <1>5, TablesRest, SameSessions DEF histories

LEMMA InvUpdatePassword ==
    ASSUME NEW p \in Workers, AccountsInv, UpdatePasswordAndRevokeOtherSessions(p)
    PROVE  Proceeds
<1>1. Workspace(users, proven, pc', loc')
  BY GoesIdle DEF UpdatePasswordAndRevokeOtherSessions
<1>2. issued' \in Nat /\ (\A t \in sessions' : t.user \in DOMAIN users /\ t.token \in Nat)
  BY DEF UpdatePasswordAndRevokeOtherSessions, AccountsInv, Typed
<1> QED BY <1>1, <1>2, TablesRest DEF UpdatePasswordAndRevokeOtherSessions, histories

LEMMA InvRequestEmailChange ==
    ASSUME NEW p \in Workers, AccountsInv, RequestEmailChange(p)  PROVE Proceeds
<1>1. PICK u \in Alive \ forgot, e \in Addresses :
          /\ Serve(p, "change_create", u, e)
          /\ UNCHANGED <<scenario, tables, tokens, faults, forgot, histories>>
  BY DEF RequestEmailChange
<1>2. u \in DOMAIN users /\ u \in Nat
  BY AliveTyped DEF Alive
<1>3. Sound(users, proven, "change_create", [user |-> u, to |-> e, token |-> 0])
  BY <1>2 DEF Sound, Carried
<1>4. Workspace(users, proven, pc', loc')
  BY <1>1, <1>3, Serves DEF Steps
<1> QED BY <1>1, <1>4, TablesRest, SameSessions DEF histories

-----------------------------------------------------------------------------
\* Steps that change an account.

\* What such a step has to show, when the links stay as they are.
LEMMA AccountsMove ==
    (/\ AccountsInv /\ UNCHANGED <<scenario, links, consumed, followed, tokens>>
     /\ users' \in Seq(Account) /\ Settling(users, proven, users', proven') /\ Keeping(users, users')
     /\ VerifiedAreProven(users', proven')
     /\ Workspace(users', proven', pc', loc'))
        => Proceeds
<1> SUFFICES ASSUME AccountsInv, UNCHANGED <<scenario, links, consumed, followed, tokens>>,
                    users' \in Seq(Account), Settling(users, proven, users', proven'),
                    Keeping(users, users'), VerifiedAreProven(users', proven'),
                    Workspace(users', proven', pc', loc')
             PROVE  Proceeds
  OBVIOUS
<1>1. DOMAIN users \subseteq DOMAIN users'
  BY DEF Settling
<1>2. Typed'
  BY <1>1 DEF AccountsInv, Typed, tokens
<1>3. LinksSettle(users', proven', links')
  BY LinksSettleStay DEF AccountsInv
<1>4. PendingLinks(users', links') /\ LiveHaveOwners(users', links')
  BY PendingStays, OwnersStay DEF AccountsInv
<1>5. FollowedAreSpent(links', followed', consumed')
  BY DEF AccountsInv
<1>6. Quiet
  BY DEF Keeping, Quiet, Retiring
<1> QED BY <1>2, <1>3, <1>4, <1>5, <1>6 DEF AccountsInv, Proceeds

\* One account's row changes, to an address that is known if it is another.
LEMMA RowChanges ==
    \A us, pr, prn, u, row :
        (/\ us \in Seq(Account) /\ u \in DOMAIN us /\ row \in Account /\ pr \subseteq prn
         /\ row.email = us[u].email \/ <<u, row.email>> \in prn
         /\ row.verified => <<u, row.email>> \in prn
         /\ VerifiedAreProven(us, pr))
        => /\ [us EXCEPT ![u] = row] \in Seq(Account)
           /\ Settling(us, pr, [us EXCEPT ![u] = row], prn)
           /\ VerifiedAreProven([us EXCEPT ![u] = row], prn)
           /\ row.alive = us[u].alive /\ row.link = us[u].link /\ row.pending = us[u].pending
                  => Keeping(us, [us EXCEPT ![u] = row])
<1> TAKE us, pr, prn, u, row
<1> DEFINE usn == [us EXCEPT ![u] = row]
<1> SUFFICES ASSUME us \in Seq(Account), u \in DOMAIN us, row \in Account, pr \subseteq prn,
                    row.email = us[u].email \/ <<u, row.email>> \in prn,
                    row.verified => <<u, row.email>> \in prn,
                    VerifiedAreProven(us, pr)
             PROVE  /\ usn \in Seq(Account)
                    /\ Settling(us, pr, usn, prn)
                    /\ VerifiedAreProven(usn, prn)
                    /\ row.alive = us[u].alive /\ row.link = us[u].link /\ row.pending = us[u].pending
                           => Keeping(us, usn)
  OBVIOUS
<1>1. /\ usn \in Seq(Account) /\ DOMAIN usn = DOMAIN us
      /\ \A v \in DOMAIN us : usn[v] = IF v = u THEN row ELSE us[v]
  BY Replaced
<1> HIDE DEF usn
<1>2. Settling(us, pr, usn, prn)
  BY <1>1 DEF Settling
<1>3. VerifiedAreProven(usn, prn)
  BY <1>1 DEF VerifiedAreProven
<1>4. ASSUME row.alive = us[u].alive, row.link = us[u].link, row.pending = us[u].pending
      PROVE  Keeping(us, usn)
  BY <1>1, <1>4 DEF Keeping
<1> QED BY <1>1, <1>2, <1>3, <1>4

\* A new account, of which nothing but its address may be known.
LEMMA RowComes ==
    \A us, pr, prn, row :
        (/\ us \in Seq(Account) /\ row \in Account /\ pr \subseteq prn
         /\ row.verified => <<Len(us) + 1, row.email>> \in prn
         /\ row.link = 0 /\ VerifiedAreProven(us, pr))
        => /\ Append(us, row) \in Seq(Account)
           /\ Settling(us, pr, Append(us, row), prn)
           /\ VerifiedAreProven(Append(us, row), prn)
           /\ Keeping(us, Append(us, row))
<1> TAKE us, pr, prn, row
<1> DEFINE usn == Append(us, row)
           n == Len(us) + 1
<1> SUFFICES ASSUME us \in Seq(Account), row \in Account, pr \subseteq prn,
                    row.verified => <<n, row.email>> \in prn,
                    row.link = 0, VerifiedAreProven(us, pr)
             PROVE  /\ usn \in Seq(Account)
                    /\ Settling(us, pr, usn, prn)
                    /\ VerifiedAreProven(usn, prn)
                    /\ Keeping(us, usn)
  OBVIOUS
<1>1. /\ usn \in Seq(Account) /\ DOMAIN usn = DOMAIN us \cup {n}
      /\ n \notin DOMAIN us /\ \A v \in DOMAIN us : usn[v] = us[v]
      /\ usn[n] = row
  BY Appended
<1> HIDE DEF usn, n
<1>2. Settling(us, pr, usn, prn)
  BY <1>1 DEF Settling
<1>3. VerifiedAreProven(usn, prn)
  BY <1>1 DEF VerifiedAreProven
<1>4. Keeping(us, usn)
  BY <1>1 DEF Keeping
<1> QED BY <1>1, <1>2, <1>3, <1>4

LEMMA GoesOn ==
    \A p, a, x :
        (/\ AccountsInv /\ p \in Workers /\ a \in Steps /\ Goto(p, a, x)
         /\ Settling(users, proven, users', proven') /\ Sound(users', proven', a, x))
            => Workspace(users', proven', pc', loc')
<1> TAKE p, a, x
<1> HAVE (/\ AccountsInv /\ p \in Workers /\ a \in Steps /\ Goto(p, a, x)
          /\ Settling(users, proven, users', proven') /\ Sound(users', proven', a, x))
<1>1. Workspace(users', proven', pc, loc)
  BY WorkspaceStays DEF AccountsInv
<1>2. Workspace(users', proven', [pc EXCEPT ![p] = a], [loc EXCEPT ![p] = x])
  BY <1>1, WorkspaceMoves
<1> QED BY <1>2 DEF Goto

LEMMA Unsettled == \A us, pr : Settling(us, pr, us, pr) /\ Keeping(us, us)
BY DEF Settling, Keeping

LEMMA NewAccountTyped ==
    \A e \in Addresses, b \in BOOLEAN :
        /\ NewAccount(e, b) \in Account /\ NewAccount(e, b).email = e
        /\ NewAccount(e, b).link = 0 /\ NewAccount(e, b).verified = ~b
BY DEF NewAccount, Account

LEMMA AccountAppended ==
    \A us \in Seq(Account), row \in Account :
        /\ Len(us) + 1 \in DOMAIN Append(us, row) /\ Len(us) + 1 \in Nat
        /\ Append(us, row)[Len(us) + 1] = row
BY Appended

LEMMA InvRegister == ASSUME NEW p \in Workers, AccountsInv, Register(p)  PROVE Proceeds
<1>1. PICK e \in Addresses :
          /\ users' = Append(users, NewAccount(e, TRUE))
          /\ Serve(p, "register_token", Len(users) + 1, e)
          /\ UNCHANGED <<scenario, links, consumed, tokens, faults, forgot, histories>>
  BY DEF Register
<1> DEFINE row == NewAccount(e, TRUE)
           n == Len(users) + 1
<1>2. row \in Account /\ row.email = e /\ row.link = 0 /\ ~row.verified
  BY NewAccountTyped
<1>3. users \in Seq(Account) /\ VerifiedAreProven(users, proven)
  BY DEF AccountsInv, Typed
<1>4. proven' = proven /\ followed' = followed
  BY <1>1 DEF histories
<1> HIDE DEF row
<1>5. /\ users' \in Seq(Account) /\ Settling(users, proven, users', proven')
      /\ VerifiedAreProven(users', proven') /\ Keeping(users, users')
  BY <1>1, <1>2, <1>3, <1>4, RowComes DEF row
<1>6. users'[n] = row /\ n \in DOMAIN users' /\ n \in Nat
  BY <1>1, <1>2, <1>3, AccountAppended DEF row
<1>7. Sound(users', proven', "register_token", [user |-> n, to |-> e, token |-> 0])
  BY <1>2, <1>6 DEF Sound, Carried, Settles
<1>8. Workspace(users', proven', pc', loc')
  BY <1>1, <1>5, <1>7, GoesOn, Fresh DEF Serve, Steps
<1> QED BY <1>1, <1>4, <1>5, <1>8, AccountsMove

\* What the updates of one row come to.
LEMMA Updates ==
    \A us, u, e, n :
        us \in Seq(Account) /\ u \in DOMAIN us =>
            /\ [us EXCEPT ![u].email = e, ![u].verified = TRUE]
                   = [us EXCEPT ![u] = [us[u] EXCEPT !.email = e, !.verified = TRUE]]
            /\ [us EXCEPT ![u].google = TRUE, ![u].verified = TRUE]
                   = [us EXCEPT ![u] = [us[u] EXCEPT !.google = TRUE, !.verified = TRUE]]
            /\ [us EXCEPT ![u].pending = e, ![u].link = n]
                   = [us EXCEPT ![u] = [us[u] EXCEPT !.pending = e, !.link = n]]
<1> TAKE us, u, e, n
<1> HAVE us \in Seq(Account) /\ u \in DOMAIN us
<1>1. \A a : [us EXCEPT ![u] = a][u] = a
  OBVIOUS
<1>2. \A a, b : [[us EXCEPT ![u] = a] EXCEPT ![u] = b] = [us EXCEPT ![u] = b]
  OBVIOUS
<1>3. [us EXCEPT ![u].email = e, ![u].verified = TRUE]
          = [us EXCEPT ![u] = [us[u] EXCEPT !.email = e, !.verified = TRUE]]
  BY <1>1, <1>2, Zenon
<1>4. [us EXCEPT ![u].google = TRUE, ![u].verified = TRUE]
          = [us EXCEPT ![u] = [us[u] EXCEPT !.google = TRUE, !.verified = TRUE]]
  BY <1>1, <1>2, Zenon
<1>5. [us EXCEPT ![u].pending = e, ![u].link = n]
          = [us EXCEPT ![u] = [us[u] EXCEPT !.pending = e, !.link = n]]
  BY <1>1, <1>2, Zenon
<1> QED BY <1>3, <1>4, <1>5

LEMMA UpdatedRows ==
    \A row \in Account : \A e \in Addresses :
        /\ LET r == [row EXCEPT !.email = e, !.verified = TRUE]
           IN  r \in Account /\ r.email = e /\ r.alive = row.alive /\ r.link = row.link /\ r.pending = row.pending
        /\ LET r == [row EXCEPT !.google = TRUE, !.verified = TRUE]
           IN  r \in Account /\ r.email = row.email /\ r.alive = row.alive /\ r.link = row.link /\ r.pending = row.pending
        /\ LET r == [row EXCEPT !.verified = TRUE]
           IN  r \in Account /\ r.email = row.email /\ r.alive = row.alive /\ r.link = row.link /\ r.pending = row.pending
        /\ LET r == [row EXCEPT !.password = TRUE]
           IN  /\ r \in Account /\ r.email = row.email /\ r.alive = row.alive /\ r.link = row.link
               /\ r.pending = row.pending /\ r.verified = row.verified
BY DEF Account

LEMMA InvGoogleUpdate ==
    ASSUME NEW p \in Workers, AccountsInv, GoogleUpdate(p)  PROVE Proceeds
<1> DEFINE u == loc[p].user
           e == loc[p].to
           row == [users[u] EXCEPT !.email = e, !.verified = TRUE]
<1>1. loc[p] \in Carried /\ e \in Addresses
  BY RequestIsSound DEF GoogleUpdate, Sound
<1>2. users \in Seq(Account) /\ VerifiedAreProven(users, proven)
  BY DEF AccountsInv, Typed
<1>3. UNCHANGED <<scenario, links, consumed, followed, tokens>> /\ Continue(p, "issue")
  BY DEF GoogleUpdate
<1>4. Sound(users', proven', "issue", loc[p])
  BY <1>1 DEF Sound
<1>5. CASE UNCHANGED <<users, proven>>
  <2>1. Workspace(users', proven', pc', loc')
    BY <1>3, <1>4, <1>5, Unsettled, GoesOn DEF Continue, Steps
  <2> QED BY <1>2, <1>3, <1>5, <2>1, Unsettled, AccountsMove
<1>6. CASE ~UNCHANGED <<users, proven>>
  <2>1. u \in DOMAIN users /\ proven' = proven \cup {<<u, e>>}
    BY <1>6 DEF GoogleUpdate, Alive
  <2>2. users' = [users EXCEPT ![u] = row]
    <3>1. users' = [users EXCEPT ![u].email = e, ![u].verified = TRUE]
      BY <1>6 DEF GoogleUpdate
    <3> QED BY <1>2, <2>1, <3>1, Updates
  <2>3. users[u] \in Account
    BY <2>1, AliveTyped
  <2>4. /\ row \in Account /\ row.email = e /\ row.alive = users[u].alive
        /\ row.link = users[u].link /\ row.pending = users[u].pending
    BY <1>1, <2>3, UpdatedRows
  <2> HIDE DEF row, u, e
  <2>5. <<u, row.email>> \in proven' /\ proven \subseteq proven'
    BY <2>1, <2>4
  <2>6. /\ users' \in Seq(Account) /\ Settling(users, proven, users', proven')
        /\ VerifiedAreProven(users', proven') /\ Keeping(users, users')
    BY <1>2, <2>1, <2>2, <2>4, <2>5, RowChanges
  <2>7. Workspace(users', proven', pc', loc')
    BY <1>3, <1>4, <2>6, GoesOn DEF Continue, Steps
  <2> QED BY <1>3, <2>6, <2>7, AccountsMove
<1> QED BY <1>5, <1>6

LEMMA InvGoogleLink ==
    ASSUME NEW p \in Workers, AccountsInv, GoogleLink(p)  PROVE Proceeds
<1> DEFINE u == loc[p].user
           e == loc[p].to
           row == [users[u] EXCEPT !.google = TRUE, !.verified = TRUE]
<1>1. loc[p] \in Carried /\ e \in Addresses /\ Settles(users, proven, u, e)
  BY RequestIsSound DEF GoogleLink, Sound
<1>2. users \in Seq(Account) /\ VerifiedAreProven(users, proven)
  BY DEF AccountsInv, Typed
<1>3. UNCHANGED <<scenario, links, consumed, followed, tokens>> /\ Continue(p, "issue")
  BY DEF GoogleLink
<1>4. Sound(users', proven', "issue", loc[p])
  BY <1>1 DEF Sound
<1>5. CASE UNCHANGED <<users, proven>>
  <2>1. Workspace(users', proven', pc', loc')
    BY <1>3, <1>4, <1>5, Unsettled, GoesOn DEF Continue, Steps
  <2> QED BY <1>2, <1>3, <1>5, <2>1, Unsettled, AccountsMove
<1>6. CASE ~UNCHANGED <<users, proven>>
  <2>1. u \in DOMAIN users /\ proven' = proven \cup {<<u, e>>}
    BY <1>6 DEF GoogleLink, Alive
  <2>2. users' = [users EXCEPT ![u] = row]
    <3>1. users' = [users EXCEPT ![u].google = TRUE, ![u].verified = TRUE]
      BY <1>6 DEF GoogleLink
    <3> QED BY <1>2, <2>1, <3>1, Updates
  <2>3. users[u] \in Account
    BY <2>1, AliveTyped
  <2>4. /\ row \in Account /\ row.email = users[u].email /\ row.alive = users[u].alive
        /\ row.link = users[u].link /\ row.pending = users[u].pending
    BY <1>1, <2>3, UpdatedRows
  <2> HIDE DEF row, u, e
  <2>5. <<u, row.email>> \in proven' /\ proven \subseteq proven'
    BY <1>1, <2>1, <2>4 DEF Settles
  <2>6. /\ users' \in Seq(Account) /\ Settling(users, proven, users', proven')
        /\ VerifiedAreProven(users', proven') /\ Keeping(users, users')
    BY <1>2, <2>1, <2>2, <2>4, <2>5, RowChanges
  <2>7. Workspace(users', proven', pc', loc')
    BY <1>3, <1>4, <2>6, GoesOn DEF Continue, Steps
  <2> QED BY <1>3, <2>6, <2>7, AccountsMove
<1> QED BY <1>5, <1>6

LEMMA InvGoogleInsert ==
    ASSUME NEW p \in Workers, AccountsInv, GoogleInsert(p)  PROVE Proceeds
<1> DEFINE e == loc[p].to
           row == NewAccount(e, FALSE)
           n == Len(users) + 1
<1>1. loc[p] \in Carried /\ e \in Addresses
  BY RequestIsSound DEF GoogleInsert, Sound
<1>2. users \in Seq(Account) /\ VerifiedAreProven(users, proven)
  BY DEF AccountsInv, Typed
<1>3. UNCHANGED <<scenario, links, consumed, followed, tokens>>
  BY DEF GoogleInsert
<1>4. CASE UNCHANGED <<users, proven>> /\ Done(p)
  <2>1. Workspace(users', proven', pc', loc')
    BY <1>4, GoesIdle
  <2> QED BY <1>2, <1>3, <1>4, <2>1, Unsettled, AccountsMove
<1>5. CASE /\ users' = Append(users, row) /\ proven' = proven \cup {<<n, e>>}
           /\ Goto(p, "issue", [loc[p] EXCEPT !.user = n])
  <2>1. row \in Account /\ row.email = e /\ row.link = 0
    BY <1>1, NewAccountTyped
  <2> HIDE DEF row, e
  <2>2. <<n, row.email>> \in proven' /\ proven \subseteq proven'
    BY <1>5, <2>1
  <2>3. /\ users' \in Seq(Account) /\ Settling(users, proven, users', proven')
        /\ VerifiedAreProven(users', proven') /\ Keeping(users, users')
    BY <1>2, <1>5, <2>1, <2>2, RowComes
  <2>4. n \in Nat
    BY <1>2, <2>1, AccountAppended
  <2>5. [loc[p] EXCEPT !.user = n] \in Carried
    BY <1>1, <2>4 DEF Carried
  <2>6. Sound(users', proven', "issue", [loc[p] EXCEPT !.user = n])
    BY <2>5 DEF Sound
  <2>7. Workspace(users', proven', pc', loc')
    BY <1>5, <2>3, <2>6, GoesOn DEF Steps
  <2> QED BY <1>3, <2>3, <2>7, AccountsMove
<1> QED BY <1>4, <1>5 DEF GoogleInsert

-----------------------------------------------------------------------------
\* Steps that make a link, or change one.

LEMMA LinksMove ==
    (/\ AccountsInv /\ UNCHANGED <<scenario, users, proven, tokens>>
     /\ links' \in Seq(LinkRow) /\ followed' \in Seq(Nat) /\ Len(followed') = Len(links')
     /\ LinksSettle(users, proven, links') /\ PendingLinks(users, links')
     /\ FollowedAreSpent(links', followed', consumed') /\ LiveHaveOwners(users, links')
     /\ Workspace(users, proven, pc', loc'))
        => AccountsInv'
BY DEF AccountsInv, Typed, tokens

LEMMA NewLinkTyped ==
    \A kind \in Kinds, u \in Nat, e \in Addresses :
        /\ NewLink(kind, u, e) \in LinkRow /\ NewLink(kind, u, e).kind = kind
        /\ NewLink(kind, u, e).user = u /\ NewLink(kind, u, e).to = e
        /\ NewLink(kind, u, e).state = "live"
BY DEF NewLink, LinkRow, Kinds, States

LEMMA LinkAppended ==
    \A ls, f, row :
        ls \in Seq(LinkRow) /\ f \in Seq(Nat) /\ Len(f) = Len(ls) /\ row \in LinkRow =>
            Adds(ls, Append(ls, row), f, Append(f, 0), row)
<1> TAKE ls, f, row
<1> HAVE ls \in Seq(LinkRow) /\ f \in Seq(Nat) /\ Len(f) = Len(ls) /\ row \in LinkRow
<1> DEFINE lsn == Append(ls, row)
           fn == Append(f, 0)
<1>1. /\ lsn \in Seq(LinkRow) /\ Len(lsn) = Len(ls) + 1
      /\ DOMAIN lsn = DOMAIN ls \cup {Len(ls) + 1}
      /\ Len(ls) + 1 \notin DOMAIN ls /\ Len(ls) \in Nat
      /\ \A i \in DOMAIN ls : lsn[i] = ls[i] /\ i \in Nat /\ i < Len(ls) + 1
      /\ lsn[Len(ls) + 1] = row
  BY Appended
<1>2. 0 \in Nat
  OBVIOUS
<1>3. /\ fn \in Seq(Nat) /\ Len(fn) = Len(f) + 1
      /\ \A i \in DOMAIN f : fn[i] = f[i]
      /\ fn[Len(f) + 1] = 0
  BY <1>2, Appended
<1>4. DOMAIN f = DOMAIN ls
  BY LenProperties
<1> HIDE DEF lsn, fn
<1>5. Adds(ls, lsn, f, fn, row)
  BY <1>1, <1>3, <1>4 DEF Adds
<1> QED BY <1>5 DEF lsn, fn

LEMMA Inserted ==
    \A kind \in Kinds, u \in DOMAIN users, e \in Addresses :
        AccountsInv /\ Insert(kind, u, e) => Adds(links, links', followed, followed', NewLink(kind, u, e))
<1> TAKE kind \in Kinds, u \in DOMAIN users, e \in Addresses
<1> HAVE AccountsInv /\ Insert(kind, u, e)
<1>1. NewLink(kind, u, e) \in LinkRow
  BY NewLinkTyped, AliveTyped
<1>2. links \in Seq(LinkRow) /\ followed \in Seq(Nat) /\ Len(followed) = Len(links)
  BY DEF AccountsInv, Typed
<1> QED BY <1>1, <1>2, LinkAppended DEF Insert

\* A link to verify or to reset, for an account that is there.
LEMMA LinkIsMade ==
    \A kind, u, e :
        (/\ AccountsInv /\ UNCHANGED <<scenario, users, proven, consumed, tokens>>
         /\ kind \in {"verify", "reset"} /\ u \in Alive /\ e \in Addresses
         /\ Insert(kind, u, e) /\ (kind = "verify" => Settles(users, proven, u, e))
         /\ Workspace(users, proven, pc', loc'))
            => Proceeds
<1> TAKE kind, u, e
<1> HAVE (/\ AccountsInv /\ UNCHANGED <<scenario, users, proven, consumed, tokens>>
          /\ kind \in {"verify", "reset"} /\ u \in Alive /\ e \in Addresses
          /\ Insert(kind, u, e) /\ (kind = "verify" => Settles(users, proven, u, e))
          /\ Workspace(users, proven, pc', loc'))
<1> DEFINE row == NewLink(kind, u, e)
           n == Len(links) + 1
<1>1. u \in DOMAIN users /\ users[u].alive /\ kind \in Kinds /\ kind # "change"
  BY DEF Alive, Kinds
<1>2. row.kind = kind /\ row.user = u /\ row.to = e
  BY <1>1, AliveTyped, NewLinkTyped
<1>3. Adds(links, links', followed, followed', row)
  BY <1>1, Inserted
<1> HIDE DEF row
<1>4. /\ links' \in Seq(LinkRow) /\ followed' \in Seq(Nat) /\ Len(followed') = Len(links')
  BY <1>3 DEF Adds
<1>5. /\ DOMAIN links' = DOMAIN links \cup {n} /\ n \notin DOMAIN links
      /\ \A l \in DOMAIN links : links'[l] = links[l] /\ followed'[l] = followed[l]
      /\ followed'[n] = 0 /\ links'[n] = row
  BY <1>3 DEF Adds
<1> HIDE DEF n
<1>6. /\ LinksSettle(users, proven, links) /\ PendingLinks(users, links)
      /\ FollowedAreSpent(links, followed, consumed) /\ LiveHaveOwners(users, links)
  BY DEF AccountsInv
<1>7. /\ LinksSettle(users, proven, links') /\ PendingLinks(users, links')
      /\ FollowedAreSpent(links', followed', consumed) /\ LiveHaveOwners(users, links')
  BY <1>1, <1>2, <1>5, <1>6, LinkMade
<1>8. Makes(row)
  BY <1>1, <1>2, <1>3 DEF Makes, tokens
<1> QED BY <1>4, <1>7, <1>8, LinksMove DEF Proceeds

LEMMA InvRegisterToken ==
    ASSUME NEW p \in Workers, AccountsInv, RegisterToken(p)  PROVE Proceeds
<1> DEFINE u == loc[p].user
           e == loc[p].to
<1>1. loc[p] \in Carried /\ e \in Addresses /\ Settles(users, proven, u, e)
  BY RequestIsSound DEF RegisterToken, Sound
<1>2. Sound(users, proven, "issue", loc[p])
  BY <1>1 DEF Sound
<1>3. Workspace(users, proven, pc', loc')
  BY <1>2, GoesTo DEF RegisterToken, Continue, Steps
<1>4. UNCHANGED <<scenario, users, consumed, tokens, proven>>
  BY DEF RegisterToken
<1>5. CASE u \in Alive
  <2>1. Insert("verify", u, e)
    BY <1>5 DEF RegisterToken
  <2> QED BY <1>1, <1>3, <1>4, <1>5, <2>1, LinkIsMade
<1>6. CASE u \notin Alive
  <2>1. UNCHANGED <<links, followed>>
    BY <1>6 DEF RegisterToken
  <2> QED BY <1>3, <1>4, <2>1, TablesRest, SameSessions DEF tables
<1> QED BY <1>5, <1>6

LEMMA InvCreatePasswordResetToken ==
    ASSUME NEW p \in Workers, AccountsInv, CreatePasswordResetToken(p)  PROVE Proceeds
<1> DEFINE u == loc[p].user
           e == loc[p].to
<1>1. e \in Addresses
  BY RequestIsSound DEF CreatePasswordResetToken, Sound
<1>2. Workspace(users, proven, pc', loc')
  BY GoesIdle DEF CreatePasswordResetToken
<1>3. UNCHANGED <<scenario, users, consumed, tokens, proven>>
  BY DEF CreatePasswordResetToken
<1>4. CASE u \in Alive /\ ~RateLimited(u, "reset")
  <2>1. Insert("reset", u, e)
    BY <1>4 DEF CreatePasswordResetToken
  <2> QED BY <1>1, <1>2, <1>3, <1>4, <2>1, LinkIsMade
<1>5. CASE ~(u \in Alive /\ ~RateLimited(u, "reset"))
  <2>1. UNCHANGED <<links, followed>>
    BY <1>5 DEF CreatePasswordResetToken
  <2> QED BY <1>2, <1>3, <2>1, TablesRest, SameSessions DEF tables
<1> QED BY <1>4, <1>5

LEMMA InvCreateVerificationToken ==
    ASSUME NEW p \in Workers, AccountsInv, CreateVerificationToken(p)  PROVE Proceeds
<1> DEFINE u == loc[p].user
           e == loc[p].to
<1>1. e \in Addresses /\ Settles(users, proven, u, e)
  BY RequestIsSound DEF CreateVerificationToken, Sound
<1>2. Workspace(users, proven, pc', loc')
  BY GoesIdle DEF CreateVerificationToken
<1>3. UNCHANGED <<scenario, users, consumed, tokens, proven>>
  BY DEF CreateVerificationToken
<1>4. CASE u \in Alive
  <2>1. Insert("verify", u, e)
    BY <1>4 DEF CreateVerificationToken
  <2> QED BY <1>1, <1>2, <1>3, <1>4, <2>1, LinkIsMade
<1>5. CASE u \notin Alive
  <2>1. UNCHANGED <<links, followed>>
    BY <1>5 DEF CreateVerificationToken
  <2> QED BY <1>2, <1>3, <2>1, TablesRest, SameSessions DEF tables
<1> QED BY <1>4, <1>5

\* A row that changes, or several that are discarded.
LEMMA IsTable ==
    ASSUME NEW S, NEW s \in Seq(S), NEW f \in [DOMAIN s -> S]
    PROVE  f \in Seq(S) /\ Len(f) = Len(s)
<1>1. Len(s) \in Nat /\ DOMAIN s = 1..Len(s)
  BY LenProperties
<1>2. f \in [1..Len(s) -> S]
  BY <1>1
<1>3. f \in Seq(S)
  BY <1>1, <1>2, SeqDef
<1>4. DOMAIN f = 1..Len(f) /\ DOMAIN f = 1..Len(s) /\ Len(f) \in Nat
  BY <1>2, <1>3, LenProperties
<1>5. Len(f) = Len(s)
  BY <1>1, <1>4
<1> QED BY <1>3, <1>5

LEMMA LinkTyped == AccountsInv => \A l \in DOMAIN links : l \in Nat \ {0} /\ links[l] \in LinkRow
<1> SUFFICES ASSUME AccountsInv, NEW l \in DOMAIN links
             PROVE  l \in Nat \ {0} /\ links[l] \in LinkRow
  OBVIOUS
<1>1. links \in Seq(LinkRow)
  BY DEF AccountsInv, Typed
<1>2. l \in 1..Len(links) /\ Len(links) \in Nat
  BY <1>1, LenProperties
<1> QED BY <1>1, <1>2, ElementOfSeq

LEMMA Discarded ==
    \A S : \A st \in States \ {"live"} :
        AccountsInv => /\ Discard(S, st) \in Seq(LinkRow) /\ Len(Discard(S, st)) = Len(links)
                       /\ Retiring(links, Discard(S, st))
                       /\ \A l \in DOMAIN links : Discard(S, st)[l].state = IF l \in S THEN st ELSE links[l].state
<1> TAKE S
<1> TAKE st \in States \ {"live"}
<1> DEFINE lsn == Discard(S, st)
<1> SUFFICES ASSUME AccountsInv
             PROVE  /\ lsn \in Seq(LinkRow) /\ Len(lsn) = Len(links) /\ Retiring(links, lsn)
                    /\ \A l \in DOMAIN links : lsn[l].state = IF l \in S THEN st ELSE links[l].state
  OBVIOUS
<1>1. \A l \in DOMAIN links : lsn[l] = IF l \in S THEN [links[l] EXCEPT !.state = st] ELSE links[l]
  BY DEF Discard
<1>2. DOMAIN lsn = DOMAIN links
  BY DEF Discard
<1>3. \A row \in LinkRow :
          LET r == [row EXCEPT !.state = st]
          IN  r \in LinkRow /\ r.kind = row.kind /\ r.user = row.user /\ r.to = row.to /\ r.state = st
  BY DEF LinkRow
<1>4. \A l \in DOMAIN links : links[l] \in LinkRow /\ lsn[l] \in LinkRow
  BY <1>1, <1>3, LinkTyped
<1>5. lsn \in [DOMAIN links -> LinkRow]
  BY <1>4 DEF Discard
<1>6. lsn \in Seq(LinkRow) /\ Len(lsn) = Len(links)
  BY <1>5, IsTable DEF AccountsInv, Typed
<1> HIDE DEF lsn
<1>7. ASSUME NEW l \in DOMAIN links
      PROVE  /\ lsn[l].kind = links[l].kind /\ lsn[l].user = links[l].user /\ lsn[l].to = links[l].to
             /\ lsn[l].state = IF l \in S THEN st ELSE links[l].state
  <2>1. CASE l \in S
    BY <1>1, <1>3, <1>4, <2>1
  <2>2. CASE l \notin S
    BY <1>1, <2>2
  <2> QED BY <2>1, <2>2
<1>8. Retiring(links, lsn)
  BY <1>2, <1>7 DEF Retiring
<1> QED BY <1>6, <1>7, <1>8

LEMMA LinksRetired ==
    (/\ AccountsInv /\ UNCHANGED <<scenario, users, proven, consumed, followed, tokens>>
     /\ links' \in Seq(LinkRow) /\ Len(links') = Len(links) /\ Retiring(links, links') /\ Stay
     /\ \A l \in DOMAIN links : links'[l].state \in {links[l].state, "lapsed", "gone"})
        => Proceeds
<1> HAVE (/\ AccountsInv /\ UNCHANGED <<scenario, users, proven, consumed, followed, tokens>>
          /\ links' \in Seq(LinkRow) /\ Len(links') = Len(links) /\ Retiring(links, links') /\ Stay
          /\ \A l \in DOMAIN links : links'[l].state \in {links[l].state, "lapsed", "gone"})
<1>1. /\ LinksSettle(users, proven, links') /\ PendingLinks(users, links')
      /\ FollowedAreSpent(links', followed', consumed') /\ LiveHaveOwners(users, links')
  BY LinksRetire DEF AccountsInv
<1>2. followed' \in Seq(Nat) /\ Len(followed') = Len(links')
  BY DEF AccountsInv, Typed
<1>3. Quiet
  BY DEF Quiet
<1> QED BY <1>1, <1>2, <1>3, WorkspaceRests, LinksMove DEF Proceeds

\* One link's row changes.
LEMMA LinkRetired ==
    \A l, row :
        (/\ AccountsInv /\ UNCHANGED <<scenario, users, proven, consumed, followed, tokens>>
         /\ l \in DOMAIN links /\ row \in LinkRow
         /\ row.kind = links[l].kind /\ row.user = links[l].user /\ row.to = links[l].to
         /\ row.state = links[l].state
         /\ links' = [links EXCEPT ![l] = row] /\ Stay)
            => Proceeds
<1> TAKE l, row
<1> HAVE (/\ AccountsInv /\ UNCHANGED <<scenario, users, proven, consumed, followed, tokens>>
          /\ l \in DOMAIN links /\ row \in LinkRow
          /\ row.kind = links[l].kind /\ row.user = links[l].user /\ row.to = links[l].to
          /\ row.state = links[l].state
          /\ links' = [links EXCEPT ![l] = row] /\ Stay)
<1>1. links \in Seq(LinkRow)
  BY DEF AccountsInv, Typed
<1> DEFINE lsn == [links EXCEPT ![l] = row]
<1>2. /\ lsn \in Seq(LinkRow) /\ Len(lsn) = Len(links) /\ Retiring(links, lsn)
      /\ \A m \in DOMAIN links : lsn[m].state = links[m].state
  <2>1. /\ lsn \in Seq(LinkRow) /\ Len(lsn) = Len(links) /\ DOMAIN lsn = DOMAIN links
        /\ \A m \in DOMAIN links : lsn[m] = IF m = l THEN row ELSE links[m]
    BY <1>1, Replaced
  <2> HIDE DEF lsn
  <2> QED BY <2>1 DEF Retiring
<1> HIDE DEF lsn
<1>3. \A m \in DOMAIN links : lsn[m].state \in {links[m].state, "lapsed", "gone"}
  BY <1>2
<1>4. links' = lsn
  BY DEF lsn
<1> QED BY <1>2, <1>3, <1>4, LinksRetired

LEMMA Mailed ==
    \A row \in LinkRow : \A m \in {"sent", "lost"} :
        /\ LET r == [row EXCEPT !.mail = m]
           IN  r \in LinkRow /\ r.kind = row.kind /\ r.user = row.user /\ r.to = row.to /\ r.state = row.state
        /\ LET r == [row EXCEPT !.recent = FALSE]
           IN  r \in LinkRow /\ r.kind = row.kind /\ r.user = row.user /\ r.to = row.to /\ r.state = row.state
BY DEF LinkRow

LEMMA InvMailGoesOut ==
    ASSUME NEW l \in DOMAIN links, AccountsInv, MailGoesOut(l)  PROVE Proceeds
<1> DEFINE row == [links[l] EXCEPT !.mail = "sent"]
<1>1. row \in LinkRow /\ row.kind = links[l].kind /\ row.user = links[l].user /\ row.to = links[l].to
      /\ row.state = links[l].state
  BY LinkTyped, Mailed
<1>2. links' = [links EXCEPT ![l] = row]
  BY DEF MailGoesOut
<1>3. UNCHANGED <<scenario, users, proven, consumed, followed, tokens>> /\ Stay
  BY DEF MailGoesOut, histories
<1> HIDE DEF row
<1> QED BY <1>1, <1>2, <1>3, LinkRetired

LEMMA InvMailIsLost ==
    ASSUME NEW l \in DOMAIN links, AccountsInv, MailIsLost(l)  PROVE Proceeds
<1> DEFINE row == [links[l] EXCEPT !.mail = "lost"]
<1>1. row \in LinkRow /\ row.kind = links[l].kind /\ row.user = links[l].user /\ row.to = links[l].to
      /\ row.state = links[l].state
  BY LinkTyped, Mailed
<1>2. links' = [links EXCEPT ![l] = row]
  BY DEF MailIsLost
<1>3. UNCHANGED <<scenario, users, proven, consumed, followed, tokens>> /\ Stay
  BY DEF MailIsLost, histories
<1> HIDE DEF row
<1> QED BY <1>1, <1>2, <1>3, LinkRetired

LEMMA InvFiveMinutesPass ==
    ASSUME NEW l \in DOMAIN links, AccountsInv, FiveMinutesPass(l)  PROVE Proceeds
<1> DEFINE row == [links[l] EXCEPT !.recent = FALSE]
<1>1. row \in LinkRow /\ row.kind = links[l].kind /\ row.user = links[l].user /\ row.to = links[l].to
      /\ row.state = links[l].state
  BY LinkTyped, Mailed
<1>2. links' = [links EXCEPT ![l] = row]
  BY DEF FiveMinutesPass
<1>3. UNCHANGED <<scenario, users, proven, consumed, followed, tokens>> /\ Stay
  BY DEF FiveMinutesPass, histories
<1> HIDE DEF row
<1> QED BY <1>1, <1>2, <1>3, LinkRetired

LEMMA InvLapse == ASSUME NEW l \in DOMAIN links, AccountsInv, Lapse(l)  PROVE Proceeds
<1>1. links' = Discard({l}, "lapsed")
  BY DEF Lapse
<1>2. "lapsed" \in States \ {"live"}
  BY DEF States
<1>3. UNCHANGED <<scenario, users, proven, consumed, followed, tokens>> /\ Stay
  BY DEF Lapse, histories
<1> QED BY <1>1, <1>2, <1>3, Discarded, LinksRetired

LEMMA InvSweep == AccountsInv /\ SweepExpiredVerificationTokens => Proceeds
<1> HAVE AccountsInv /\ SweepExpiredVerificationTokens
<1>1. PICK S : links' = Discard(S, "gone")
  BY DEF SweepExpiredVerificationTokens
<1>2. "gone" \in States \ {"live"}
  BY DEF States
<1>3. UNCHANGED <<scenario, users, proven, consumed, followed, tokens>> /\ Stay
  BY DEF SweepExpiredVerificationTokens, histories
<1> QED BY <1>1, <1>2, <1>3, Discarded, LinksRetired

-----------------------------------------------------------------------------
\* Following a link, asking for another address, and deleting an account.

LEMMA EverythingMoves ==
    (/\ AccountsInv /\ scenario' = scenario
     /\ users' \in Seq(Account) /\ Settling(users, proven, users', proven')
     /\ VerifiedAreProven(users', proven')
     /\ links' \in Seq(LinkRow) /\ followed' \in Seq(Nat) /\ Len(followed') = Len(links')
     /\ issued' = issued /\ sessions' \subseteq sessions
     /\ LinksSettle(users', proven', links') /\ PendingLinks(users', links')
     /\ FollowedAreSpent(links', followed', consumed') /\ LiveHaveOwners(users', links')
     /\ Stay)
        => AccountsInv'
<1> HAVE (/\ AccountsInv /\ scenario' = scenario
          /\ users' \in Seq(Account) /\ Settling(users, proven, users', proven')
          /\ VerifiedAreProven(users', proven')
          /\ links' \in Seq(LinkRow) /\ followed' \in Seq(Nat) /\ Len(followed') = Len(links')
          /\ issued' = issued /\ sessions' \subseteq sessions
          /\ LinksSettle(users', proven', links') /\ PendingLinks(users', links')
          /\ FollowedAreSpent(links', followed', consumed') /\ LiveHaveOwners(users', links')
          /\ Stay)
<1>1. DOMAIN users \subseteq DOMAIN users'
  BY DEF Settling
<1>2. Typed'
  BY <1>1 DEF AccountsInv, Typed
<1>3. Workspace(users', proven', pc', loc')
  BY WorkspaceStays DEF AccountsInv, Stay
<1> QED BY <1>2, <1>3 DEF AccountsInv

LEMMA FollowTyped ==
    \A l \in DOMAIN links :
        AccountsInv /\ Follow(l) =>
            /\ followed' \in Seq(Nat) /\ Len(followed') = Len(links)
            /\ \A m \in DOMAIN links : followed'[m] = IF m = l THEN followed[m] + 1 ELSE followed[m]
            /\ \A m \in DOMAIN links : followed[m] \in Nat
<1> TAKE l \in DOMAIN links
<1> HAVE AccountsInv /\ Follow(l)
<1>1. /\ followed \in Seq(Nat) /\ Len(followed) = Len(links)
      /\ DOMAIN followed = DOMAIN links
  BY LenProperties DEF AccountsInv, Typed
<1>2. \A m \in DOMAIN links : followed[m] \in Nat
  BY <1>1, ElementOfSeq, LenProperties
<1>3. followed[l] + 1 \in Nat /\ followed' = [followed EXCEPT ![l] = followed[l] + 1]
  BY <1>2 DEF Follow
<1> QED BY <1>1, <1>2, <1>3, Replaced

\* A followed link is used up from now on.
LEMMA FollowSpends ==
    \A ls, lsn, f, fn, con, conn, l :
        (/\ Retiring(ls, lsn) /\ (\A m \in DOMAIN ls : m # l => fn[m] = f[m]) /\ con \subseteq conn
         /\ IF ls[l].kind = "change" THEN l \in conn ELSE lsn[l].state # "live"
         /\ FollowedAreSpent(ls, f, con))
            => FollowedAreSpent(lsn, fn, conn)
BY DEF Retiring, FollowedAreSpent

\* A link to verify or reset is good as long as it can be used.
LEMMA UnusedIsGood ==
    \A l \in DOMAIN links : AccountsInv /\ links[l].kind # "change" /\ Unused(l) => Good(l)
<1> TAKE l \in DOMAIN links
<1> HAVE AccountsInv /\ links[l].kind # "change" /\ Unused(l)
<1>1. links[l].user \in Alive
  BY DEF AccountsInv, LiveHaveOwners, Unused, Alive
<1>2. followed[l] = 0
  BY DEF AccountsInv, FollowedAreSpent, Unused
<1>3. links[l].state \notin {"lapsed", "gone"}
  BY DEF Unused
<1>4. Newest(l)
  BY DEF Newest
<1> QED BY <1>1, <1>2, <1>3, <1>4 DEF Good

LEMMA NoneSignedIn ==
    \A u : sessions' = sessions \ SessionsOf(u) => SignedIn' = SignedIn \ {u}
BY DEF SignedIn, SessionsOf

LEMMA GoodIsFollowed ==
    ASSUME NEW l \in DOMAIN links, AccountsInv, Good(l), Follow(l),
           DOMAIN users' = DOMAIN users, \A u \in DOMAIN users : users'[u].alive = users[u].alive,
           Retiring(links, links'), \A m \in DOMAIN links : m # l => links'[m].state = links[m].state,
           SignedIn' = SignedIn \ Ends(links[l])
    PROVE  Follows(l)
<1>1. /\ followed' \in Seq(Nat) /\ Len(followed') = Len(links)
      /\ \A m \in DOMAIN links : followed'[m] = IF m = l THEN followed[m] + 1 ELSE followed[m]
  BY FollowTyped
<1>2. DOMAIN followed' = DOMAIN links
  BY <1>1, LenProperties DEF AccountsInv, Typed
<1>3. followed[l] = 0
  BY DEF Good
<1> QED BY <1>1, <1>2, <1>3 DEF Follows

LEMMA InvVerifyEmail ==
    ASSUME NEW l \in DOMAIN links, AccountsInv, VerifyEmail(l)  PROVE Proceeds
<1> DEFINE u == links[l].user
           row == [users[u] EXCEPT !.verified = TRUE]
<1>1. /\ users \in Seq(Account) /\ VerifiedAreProven(users, proven)
      /\ LinksSettle(users, proven, links) /\ PendingLinks(users, links)
      /\ FollowedAreSpent(links, followed, consumed) /\ LiveHaveOwners(users, links)
  BY DEF AccountsInv, Typed
<1>2. /\ links[l].kind = "verify" /\ links' = Discard({l}, "used") /\ Follow(l)
      /\ proven' = proven \cup {<<u, links[l].to>>}
      /\ scenario' = scenario /\ consumed' = consumed /\ issued' = issued /\ sessions' = sessions /\ Stay
  BY DEF VerifyEmail, Opened, tokens
<1>3. Settles(users, proven, u, links[l].to) /\ u \in DOMAIN users
  BY <1>1, <1>2 DEF LinksSettle, Settles
<1>4. users' = [users EXCEPT ![u] = row]
  BY DEF VerifyEmail
<1>5. users[u] \in Account /\ users[u].email \in Addresses
  BY <1>3, AliveTyped
<1>6. /\ row \in Account /\ row.email = users[u].email /\ row.alive = users[u].alive
      /\ row.link = users[u].link /\ row.pending = users[u].pending
  BY <1>5, UpdatedRows
<1>7. <<u, users[u].email>> \in proven'
  BY <1>2, <1>3 DEF Settles
<1>8. "used" \in States \ {"live"}
  BY DEF States
<1>9. /\ links' \in Seq(LinkRow) /\ Len(links') = Len(links) /\ Retiring(links, links')
      /\ \A m \in DOMAIN links : links'[m].state = IF m \in {l} THEN "used" ELSE links[m].state
  BY <1>2, <1>8, Discarded
<1>10. /\ followed' \in Seq(Nat) /\ Len(followed') = Len(links)
       /\ \A m \in DOMAIN links : m # l => followed'[m] = followed[m]
  BY <1>2, FollowTyped
<1> HIDE DEF u, row
<1>11. proven \subseteq proven'
  BY <1>2
<1>12. /\ users' \in Seq(Account) /\ Settling(users, proven, users', proven')
       /\ VerifiedAreProven(users', proven') /\ Keeping(users, users')
  BY <1>1, <1>3, <1>4, <1>6, <1>7, <1>11, RowChanges
<1>13. /\ LinksSettle(users', proven', links') /\ PendingLinks(users', links')
       /\ LiveHaveOwners(users', links')
  BY <1>1, <1>9, <1>12, LinksSettleStay, PendingStays, OwnersStay, LinksRetire
<1>14. links[l].kind # "change" /\ links'[l].state # "live"
  BY <1>2, <1>9
<1>15. FollowedAreSpent(links', followed', consumed')
  BY <1>1, <1>2, <1>9, <1>10, <1>14, FollowSpends
<1>16. AccountsInv'
  BY <1>2, <1>9, <1>10, <1>12, <1>13, <1>15, EverythingMoves
<1>17. Good(l)
  BY <1>14, UnusedIsGood DEF VerifyEmail
<1>18. /\ DOMAIN users' = DOMAIN users
       /\ \A v \in DOMAIN users : users'[v].alive = users[v].alive
  <2>1. DOMAIN users' = DOMAIN users
    BY <1>4
  <2> QED BY <1>12, <2>1 DEF Keeping
<1>19. SignedIn' = SignedIn \ Ends(links[l])
  BY <1>2 DEF SignedIn, Ends
<1>20. Follows(l)
  BY <1>2, <1>9, <1>17, <1>18, <1>19, GoodIsFollowed
<1> QED BY <1>16, <1>20 DEF Proceeds

LEMMA InvResetPassword ==
    ASSUME NEW l \in DOMAIN links, AccountsInv, ResetPassword(l)  PROVE Proceeds
<1> DEFINE u == links[l].user
           row == [users[u] EXCEPT !.password = TRUE]
<1>1. /\ users \in Seq(Account) /\ VerifiedAreProven(users, proven)
      /\ LinksSettle(users, proven, links) /\ PendingLinks(users, links)
      /\ FollowedAreSpent(links, followed, consumed) /\ LiveHaveOwners(users, links)
  BY DEF AccountsInv, Typed
<1>2. /\ links[l].kind = "reset" /\ links' = Discard({l}, "used") /\ Follow(l)
      /\ proven' = proven /\ scenario' = scenario /\ consumed' = consumed
      /\ issued' = issued /\ sessions' \subseteq sessions /\ Stay
  BY DEF ResetPassword, Opened
<1>3. u \in DOMAIN users
  BY <1>1 DEF LiveHaveOwners
<1>4. users' = [users EXCEPT ![u] = row]
  BY DEF ResetPassword
<1>5. users[u] \in Account /\ users[u].email \in Addresses
  BY <1>3, AliveTyped
<1>6. /\ row \in Account /\ row.email = users[u].email /\ row.alive = users[u].alive
      /\ row.link = users[u].link /\ row.pending = users[u].pending
      /\ row.verified = users[u].verified
  BY <1>5, UpdatedRows
<1>7. row.verified => <<u, row.email>> \in proven'
  BY <1>1, <1>2, <1>3, <1>6 DEF VerifiedAreProven
<1>8. "used" \in States \ {"live"}
  BY DEF States
<1>9. /\ links' \in Seq(LinkRow) /\ Len(links') = Len(links) /\ Retiring(links, links')
      /\ \A m \in DOMAIN links : links'[m].state = IF m \in {l} THEN "used" ELSE links[m].state
  BY <1>2, <1>8, Discarded
<1>10. /\ followed' \in Seq(Nat) /\ Len(followed') = Len(links)
       /\ \A m \in DOMAIN links : m # l => followed'[m] = followed[m]
  BY <1>2, FollowTyped
<1> HIDE DEF u, row
<1>11. proven \subseteq proven'
  BY <1>2
<1>12. /\ users' \in Seq(Account) /\ Settling(users, proven, users', proven')
       /\ VerifiedAreProven(users', proven') /\ Keeping(users, users')
  BY <1>1, <1>3, <1>4, <1>6, <1>7, <1>11, RowChanges
<1>13. /\ LinksSettle(users', proven', links') /\ PendingLinks(users', links')
       /\ LiveHaveOwners(users', links')
  BY <1>1, <1>9, <1>12, LinksSettleStay, PendingStays, OwnersStay, LinksRetire
<1>14. links[l].kind # "change" /\ links'[l].state # "live"
  BY <1>2, <1>9
<1>15. FollowedAreSpent(links', followed', consumed')
  BY <1>1, <1>2, <1>9, <1>10, <1>14, FollowSpends
<1>16. AccountsInv'
  BY <1>2, <1>9, <1>10, <1>12, <1>13, <1>15, EverythingMoves
<1>17. Good(l)
  BY <1>14, UnusedIsGood DEF ResetPassword
<1>18. /\ DOMAIN users' = DOMAIN users
       /\ \A v \in DOMAIN users : users'[v].alive = users[v].alive
  <2>1. DOMAIN users' = DOMAIN users
    BY <1>4
  <2> QED BY <1>12, <2>1 DEF Keeping
<1>19. SignedIn' = SignedIn \ Ends(links[l])
  BY <1>2, NoneSignedIn DEF ResetPassword, Ends
<1>20. Follows(l)
  BY <1>2, <1>9, <1>17, <1>18, <1>19, GoodIsFollowed
<1> QED BY <1>16, <1>20 DEF Proceeds

\* The newest link of an account becomes its pending one.
LEMMA PendingReplaced ==
    \A us, usn, ls, lsn, u, n :
        (/\ PendingLinks(us, ls) /\ DOMAIN usn = DOMAIN us
         /\ \A v \in DOMAIN us : v # u => usn[v] = us[v]
         /\ u \in DOMAIN us /\ usn[u].link # 0 => IsPending(usn, lsn, u, usn[u].link)
         /\ DOMAIN lsn = DOMAIN ls \cup {n} /\ n \notin DOMAIN ls
         /\ \A l \in DOMAIN ls : lsn[l] = ls[l]
         /\ lsn[n].user = u)
            => PendingLinks(usn, lsn)
<1> TAKE us, usn, ls, lsn, u, n
<1> HAVE (/\ PendingLinks(us, ls) /\ DOMAIN usn = DOMAIN us
          /\ \A v \in DOMAIN us : v # u => usn[v] = us[v]
          /\ u \in DOMAIN us /\ usn[u].link # 0 => IsPending(usn, lsn, u, usn[u].link)
          /\ DOMAIN lsn = DOMAIN ls \cup {n} /\ n \notin DOMAIN ls
          /\ \A l \in DOMAIN ls : lsn[l] = ls[l]
          /\ lsn[n].user = u)
<1>1. ASSUME NEW v \in DOMAIN us, v # u, us[v].link # 0
      PROVE  IsPending(usn, lsn, v, us[v].link)
  <2>1. IsPending(us, ls, v, us[v].link) /\ usn[v] = us[v]
    BY <1>1 DEF PendingLinks
  <2> QED BY <1>1, <2>1 DEF IsPending
<1> QED BY <1>1 DEF PendingLinks

LEMMA InvCreateEmailChangeToken ==
    ASSUME NEW p \in Workers, AccountsInv, CreateEmailChangeToken(p)  PROVE Proceeds
<1> DEFINE u == loc[p].user
           e == loc[p].to
           n == Len(links) + 1
           new == NewLink("change", u, e)
           row == [users[u] EXCEPT !.pending = e, !.link = n]
<1>1. /\ users \in Seq(Account) /\ VerifiedAreProven(users, proven)
      /\ LinksSettle(users, proven, links) /\ PendingLinks(users, links)
      /\ FollowedAreSpent(links, followed, consumed) /\ LiveHaveOwners(users, links)
  BY DEF AccountsInv, Typed
<1>2. e \in Addresses /\ u \in DOMAIN users
  BY RequestIsSound DEF CreateEmailChangeToken, Sound
<1>3. /\ Insert("change", u, e) /\ Done(p) /\ scenario' = scenario /\ proven' = proven
      /\ UNCHANGED tokens
  BY DEF CreateEmailChangeToken
<1>4. "change" \in Kinds
  BY DEF Kinds
<1>5. Adds(links, links', followed, followed', new)
  BY <1>2, <1>3, <1>4, Inserted
<1>6. new.kind = "change" /\ new.user = u /\ new.to = e /\ u \in Nat /\ users[u] \in Account
  BY <1>2, <1>4, NewLinkTyped, AliveTyped
<1> HIDE DEF new
<1>7. /\ links' \in Seq(LinkRow) /\ followed' \in Seq(Nat) /\ Len(followed') = Len(links')
  BY <1>5 DEF Adds
<1>8. /\ DOMAIN links' = DOMAIN links \cup {n} /\ n \notin DOMAIN links
      /\ \A l \in DOMAIN links : links'[l] = links[l] /\ followed'[l] = followed[l]
      /\ followed'[n] = 0 /\ links'[n] = new
  BY <1>5 DEF Adds
<1>9. n \in Nat /\ n # 0 /\ \A l \in DOMAIN links' : l <= n
  <2>1. n \in Nat /\ \A l \in DOMAIN links : l < n /\ l \in Nat
    BY <1>5 DEF Adds
  <2>2. n # 0
    BY LenProperties DEF AccountsInv, Typed
  <2> QED BY <1>8, <2>1, <2>2
<1>10. /\ LinksSettle(users, proven, links') /\ LiveHaveOwners(users, links')
       /\ \A con : FollowedAreSpent(links, followed, con) => FollowedAreSpent(links', followed', con)
  <2> HIDE DEF n, u, e
  <2>1. LinksSettle(users, proven, links') /\ LiveHaveOwners(users, links')
    BY <1>1, <1>2, <1>6, <1>8 DEF LinksSettle, LiveHaveOwners
  <2>2. ASSUME NEW con, FollowedAreSpent(links, followed, con)
        PROVE  FollowedAreSpent(links', followed', con)
    BY <1>2, <1>6, <1>8, <2>2, LinkMade
  <2> QED BY <2>1, <2>2
<1>11. CASE u \notin Alive
  <2>1. users' = users /\ consumed' = consumed
    BY <1>11 DEF CreateEmailChangeToken
  <2>2. users[u].link = 0
    BY <1>1, <1>2, <1>11 DEF PendingLinks, IsPending, Alive
  <2>3. PendingLinks(users, links')
    <3> HIDE DEF n, u, e
    <3> QED BY <1>1, <1>6, <1>8, <2>2, PendingReplaced
  <2>4. Workspace(users, proven, pc', loc')
    BY <1>3, GoesIdle
  <2>5. Makes(new)
    BY <1>2, <1>3, <1>5, <1>6, <2>1 DEF Makes, tokens
  <2> QED BY <1>1, <1>3, <1>7, <1>10, <2>1, <2>3, <2>4, <2>5, LinksMove DEF Proceeds
<1>12. CASE u \in Alive
  <2>1. users' = [users EXCEPT ![u] = row]
    <3>1. users' = [users EXCEPT ![u].pending = e, ![u].link = n]
      BY <1>12 DEF CreateEmailChangeToken, ReplacePending
    <3> QED BY <1>1, <1>2, <3>1, Updates
  <2>2. consumed \subseteq consumed'
    BY <1>12 DEF CreateEmailChangeToken, ReplacePending
  <2>3. users[u].alive
    BY <1>12 DEF Alive
  <2>4. /\ row \in Account /\ row.email = users[u].email /\ row.alive = users[u].alive
        /\ row.verified = users[u].verified /\ row.pending = e /\ row.link = n
    <3> HIDE DEF n, u, e
    <3> QED BY <1>2, <1>6, <1>9 DEF Account
  <2>5. row.verified => <<u, row.email>> \in proven'
    BY <1>1, <1>2, <1>3, <2>4 DEF VerifiedAreProven
  <2> HIDE DEF row, n, u, e
  <2>6. /\ users' \in Seq(Account) /\ Settling(users, proven, users', proven')
        /\ VerifiedAreProven(users', proven')
    BY <1>1, <1>2, <1>3, <2>1, <2>4, <2>5, RowChanges
  <2>7. /\ DOMAIN users' = DOMAIN users
        /\ \A v \in DOMAIN users : users'[v] = IF v = u THEN row ELSE users[v]
    BY <1>1, <1>2, <2>1, <2>4, Replaced
  <2>8. IsPending(users', links', u, n)
    BY <1>2, <1>6, <1>8, <1>9, <2>3, <2>4, <2>7 DEF IsPending
  <2>9. PendingLinks(users', links')
    BY <1>1, <1>2, <1>6, <1>8, <2>4, <2>7, <2>8, PendingReplaced
  <2>10. LinksSettle(users', proven', links')
    BY <1>10, <2>6, LinksSettleStay
  <2>11. LiveHaveOwners(users', links')
    BY <1>10, <2>3, <2>4, <2>7 DEF LiveHaveOwners
  <2>12. FollowedAreSpent(links', followed', consumed')
    <3>1. FollowedAreSpent(links, followed, consumed')
      BY <1>1, <2>2 DEF FollowedAreSpent
    <3> QED BY <1>10, <3>1
  <2>13. Workspace(users', proven', pc', loc')
    BY <1>3, <2>6, IdleIsSound, GoesOn DEF Done, Steps
  <2>14. Typed'
    BY <1>3, <1>7, <2>6, <2>7 DEF AccountsInv, Typed, tokens
  <2>15. AccountsInv'
    BY <2>6, <2>9, <2>10, <2>11, <2>12, <2>13, <2>14 DEF AccountsInv
  <2>16. Makes(new)
    BY <1>2, <1>3, <1>5, <1>6, <2>4, <2>7 DEF Makes, tokens
  <2> QED BY <2>15, <2>16 DEF Proceeds
<1> QED BY <1>11, <1>12

LEMMA InvVerifyEmailChange ==
    ASSUME NEW l \in DOMAIN links, AccountsInv, VerifyEmailChange(l)  PROVE Proceeds
<1>1. /\ users \in Seq(Account) /\ VerifiedAreProven(users, proven)
      /\ LinksSettle(users, proven, links) /\ PendingLinks(users, links)
      /\ FollowedAreSpent(links, followed, consumed) /\ LiveHaveOwners(users, links)
  BY DEF AccountsInv, Typed
<1>2. PICK u \in Alive :
          /\ users[u].link = l
          /\ users' = [users EXCEPT ![u].email = users[u].pending, ![u].verified = TRUE,
                                    ![u].pending = "none", ![u].link = 0]
          /\ proven' = proven \cup {<<u, links[l].to>>}
          /\ sessions' = sessions \ SessionsOf(u)
  BY DEF VerifyEmailChange
<1>3. /\ links[l].kind = "change" /\ consumed' = consumed \cup {l} /\ Follow(l)
      /\ scenario' = scenario /\ links' = links /\ issued' = issued /\ Stay
  BY DEF VerifyEmailChange, Opened
<1> DEFINE e == users[u].pending
           row == [users[u] EXCEPT !.email = e, !.verified = TRUE, !.pending = "none", !.link = 0]
<1>4. u \in DOMAIN users /\ users[u].alive /\ users[u] \in Account
  BY AliveTyped DEF Alive
<1>5. links[l].user = u /\ links[l].to = e /\ e \in Addresses
  <2>1. l # 0 /\ links[l] \in LinkRow
    BY LinkTyped
  <2>2. IsPending(users, links, u, l)
    BY <1>1, <1>2, <1>4, <2>1 DEF PendingLinks
  <2> QED BY <2>1, <2>2 DEF IsPending, LinkRow
<1>6. users' = [users EXCEPT ![u] = row]
  <2>1. \A a : [users EXCEPT ![u] = a][u] = a
    BY <1>1, <1>4
  <2>2. \A a, b : [[users EXCEPT ![u] = a] EXCEPT ![u] = b] = [users EXCEPT ![u] = b]
    BY <1>1, <1>4
  <2> QED BY <1>2, <2>1, <2>2, Zenon
<1>7. /\ row \in Account /\ row.email = e /\ row.alive = users[u].alive /\ row.link = 0
  <2> HIDE DEF e
  <2> QED BY <1>4, <1>5 DEF Account
<1> HIDE DEF row, e
<1>8. <<u, row.email>> \in proven' /\ proven \subseteq proven'
  BY <1>2, <1>5, <1>7
<1>9. /\ users' \in Seq(Account) /\ Settling(users, proven, users', proven')
      /\ VerifiedAreProven(users', proven')
  BY <1>1, <1>4, <1>6, <1>7, <1>8, RowChanges
<1>10. /\ DOMAIN users' = DOMAIN users
       /\ \A v \in DOMAIN users : users'[v] = IF v = u THEN row ELSE users[v]
  BY <1>1, <1>4, <1>6, <1>7, Replaced
<1>11. LinksSettle(users', proven', links')
  BY <1>1, <1>3, <1>9, LinksSettleStay
<1>12. PendingLinks(users', links')
  BY <1>1, <1>3, <1>7, <1>10 DEF PendingLinks, IsPending
<1>13. LiveHaveOwners(users', links')
  BY <1>1, <1>3, <1>7, <1>10 DEF LiveHaveOwners
<1>14. /\ followed' \in Seq(Nat) /\ Len(followed') = Len(links)
       /\ \A m \in DOMAIN links : m # l => followed'[m] = followed[m]
  BY <1>3, FollowTyped
<1>15. FollowedAreSpent(links', followed', consumed')
  BY <1>1, <1>3, <1>14 DEF FollowedAreSpent
<1>16. links \in Seq(LinkRow) /\ sessions' \subseteq sessions
  BY <1>2 DEF AccountsInv, Typed
<1>17. AccountsInv'
  BY <1>3, <1>9, <1>11, <1>12, <1>13, <1>14, <1>15, <1>16, EverythingMoves
<1>18. Good(l)
  <2>1. /\ u \in Alive /\ links[l].user = u /\ links[l].kind = "change" /\ links[l].state = "live"
        /\ l \notin consumed
    BY <1>3, <1>5 DEF VerifyEmailChange
  <2>2. followed[l] = 0
    BY <1>1, <2>1 DEF FollowedAreSpent
  <2>3. IsPending(users, links, u, l)
    BY <1>1, <1>2, <1>4, LinkTyped DEF PendingLinks
  <2>4. Newest(l)
    BY <2>1, <2>3 DEF Newest, IsPending
  <2> QED BY <2>1, <2>2, <2>4 DEF Good
<1>19. Retiring(links, links')
  BY <1>3 DEF Retiring
<1>20. SignedIn' = SignedIn \ Ends(links[l])
  BY <1>2, <1>3, <1>5, NoneSignedIn DEF Ends
<1>21. \A v \in DOMAIN users : users'[v].alive = users[v].alive
  BY <1>7, <1>10
<1>22. Follows(l)
  BY <1>3, <1>10, <1>18, <1>19, <1>20, <1>21, GoodIsFollowed
<1> QED BY <1>17, <1>22 DEF Proceeds

LEMMA InvDeleteUser == AccountsInv /\ DeleteUser => Proceeds
<1> SUFFICES ASSUME AccountsInv, DeleteUser  PROVE Proceeds
  OBVIOUS
<1>1. /\ users \in Seq(Account) /\ VerifiedAreProven(users, proven)
      /\ LinksSettle(users, proven, links) /\ PendingLinks(users, links)
      /\ FollowedAreSpent(links, followed, consumed) /\ LiveHaveOwners(users, links)
      /\ followed \in Seq(Nat) /\ Len(followed) = Len(links)
  BY DEF AccountsInv, Typed
<1>2. PICK u \in Alive :
          /\ users' = [users EXCEPT ![u] = [NewAccount(@.email, TRUE) EXCEPT !.alive = FALSE]]
          /\ links' = Discard({l \in DOMAIN links : links[l].user = u}, "gone")
          /\ sessions' = sessions \ SessionsOf(u)
  BY DEF DeleteUser
<1>3. /\ scenario' = scenario /\ proven' = proven /\ consumed' = consumed
      /\ followed' = followed /\ issued' = issued /\ Stay
  BY DEF DeleteUser, histories
<1> DEFINE row == [NewAccount(users[u].email, TRUE) EXCEPT !.alive = FALSE]
<1>4. u \in DOMAIN users /\ users[u].email \in Addresses
  BY AliveTyped DEF Alive
<1>5. /\ row \in Account /\ row.email = users[u].email /\ row.link = 0 /\ ~row.verified
  BY <1>4 DEF NewAccount, Account
<1>6. users' = [users EXCEPT ![u] = row]
  BY <1>2
<1> HIDE DEF row
<1>7. /\ users' \in Seq(Account) /\ Settling(users, proven, users', proven')
      /\ VerifiedAreProven(users', proven')
  BY <1>1, <1>3, <1>4, <1>5, <1>6, RowChanges
<1>8. /\ DOMAIN users' = DOMAIN users
      /\ \A v \in DOMAIN users : users'[v] = IF v = u THEN row ELSE users[v]
  BY <1>1, <1>4, <1>5, <1>6, Replaced
<1>9. "gone" \in States \ {"live"}
  BY DEF States
<1>10. /\ links' \in Seq(LinkRow) /\ Len(links') = Len(links) /\ Retiring(links, links')
       /\ \A m \in DOMAIN links :
              links'[m].state = IF m \in {l \in DOMAIN links : links[l].user = u}
                                THEN "gone" ELSE links[m].state
  BY <1>2, <1>9, Discarded
<1>11. LinksSettle(users', proven', links')
  BY <1>1, <1>7, <1>10, LinksSettleStay, LinksRetire
<1>12. PendingLinks(users', links')
  <2>1. PendingLinks(users, links')
    BY <1>1, <1>10, LinksRetire
  <2> QED BY <1>5, <1>8, <2>1 DEF PendingLinks, IsPending
<1>13. LiveHaveOwners(users', links')
  <2>1. LiveHaveOwners(users, links')
    BY <1>1, <1>10, LinksRetire
  <2>2. ASSUME NEW l \in DOMAIN links', links'[l].state = "live"  PROVE links'[l].user # u
    BY <1>10, <2>2 DEF Retiring
  <2> QED BY <1>8, <2>1, <2>2 DEF LiveHaveOwners
<1>14. FollowedAreSpent(links', followed', consumed')
  BY <1>1, <1>3, <1>10, LinksRetire
<1>15. sessions' \subseteq sessions
  BY <1>2
<1>16. AccountsInv'
  BY <1>1, <1>3, <1>7, <1>10, <1>11, <1>12, <1>13, <1>14, <1>15, EverythingMoves
<1>17. ~row.alive
  BY DEF row
<1>18. Quiet
  BY <1>3, <1>8, <1>10, <1>17 DEF Quiet
<1> QED BY <1>16, <1>18 DEF Proceeds

-----------------------------------------------------------------------------
LEMMA InvNext == AccountsInv /\ [Next]_vars => Proceeds
<1> SUFFICES ASSUME AccountsInv, [Next]_vars  PROVE Proceeds
  OBVIOUS
<1>1. ASSUME NEW p \in Workers, Request(p)  PROVE Proceeds
  BY <1>1, InvRegister, InvLogin, InvRefresh, InvGoogle, InvChangePassword, InvRequestEmailChange DEF Request
<1>2. ASSUME NEW p \in Workers, Step(p)  PROVE Proceeds
  BY <1>2, InvRegisterToken, InvSaveRefreshToken, InvConsumeRefreshToken, InvGoogleUpdate,
     InvGoogleByEmail, InvGoogleLink, InvGoogleInsert, InvCreatePasswordResetToken,
     InvCanResendVerification, InvCreateVerificationToken, InvUpdatePassword,
     InvCreateEmailChangeToken DEF Step
<1>3. ASSUME NEW l \in DOMAIN links, Open(l)  PROVE Proceeds
  BY <1>3, InvVerifyEmail, InvResetPassword, InvVerifyEmailChange DEF Open
<1>4. ASSUME NEW l \in DOMAIN links, MailGoesOut(l) \/ FiveMinutesPass(l) \/ Lapse(l) \/ MailIsLost(l)
      PROVE  Proceeds
  BY <1>4, InvMailGoesOut, InvFiveMinutesPass, InvLapse, InvMailIsLost
<1>5. ASSUME NEW p \in Workers, NEW u \in DOMAIN users, ForgotPassword(p, u) \/ ResendVerification(p, u)
      PROVE  Proceeds
  BY <1>5, InvForgotPassword, InvResendVerification
<1>6. ASSUME NEW p \in Workers, RegisterTokenFails(p) \/ Fails(p)  PROVE Proceeds
  BY <1>6, InvRegisterTokenFails, InvFails
<1>7. ASSUME SweepExpiredVerificationTokens \/ Logout \/ DeleteUser \/ Forget  PROVE Proceeds
  BY <1>7, InvSweep, InvLogout, InvDeleteUser, InvForget
<1>8. ASSUME UNCHANGED vars  PROVE Proceeds
  <2>1. AccountsInv'
    BY <1>8 DEF vars, AccountsInv, Typed
  <2>2. Quiet
    BY <1>8 DEF vars, Quiet, Retiring
  <2> QED BY <2>1, <2>2 DEF Proceeds
<1> QED BY <1>1, <1>2, <1>3, <1>4, <1>5, <1>6, <1>7, <1>8 DEF Next

LEMMA AccountsInvariant == Spec => []AccountsInv
<1>1. AccountsInv /\ [Next]_vars => AccountsInv'
  BY InvNext DEF Proceeds
<1> QED BY <1>1, InvInit, PTL DEF Spec

(* An address that counts as verified was confirmed by its owner or by Google, *)
(* whatever requests, changes of address, deletions and sign-ins with Google   *)
(* run at once (ConsumeVerificationToken, ConsumeEmailChangeToken and          *)
(* UpsertGoogle, which write email_verified).                                  *)
THEOREM VerifiedAddressIsProven == Spec => []AddressIsProven
<1>1. AccountsInv => AddressIsProven
  BY DEF AccountsInv, VerifiedAreProven, AddressIsProven, Alive
<1> QED BY <1>1, AccountsInvariant, PTL

-----------------------------------------------------------------------------
\* The promise of MailedLinks.

\* MaxUsers and MaxLinks are as many as come to be.
WithinBounds == Len(users) <= MaxUsers /\ Len(links) <= MaxLinks

InRange ==
    /\ DOMAIN users \subseteq 1..MaxUsers /\ DOMAIN links \subseteq 1..MaxLinks
    /\ DOMAIN followed = DOMAIN links /\ SignedIn \subseteq 1..MaxUsers

LEMMA Numbered == AccountsInv /\ WithinBounds => InRange
<1> SUFFICES ASSUME AccountsInv, WithinBounds  PROVE InRange
  OBVIOUS
<1>1. /\ DOMAIN users \subseteq 1..MaxUsers /\ DOMAIN links \subseteq 1..MaxLinks
      /\ DOMAIN followed = DOMAIN links
  BY LenProperties, BoundsAssumption DEF AccountsInv, Typed, WithinBounds
<1>2. SignedIn \subseteq 1..MaxUsers
  BY <1>1 DEF SignedIn, AccountsInv, Typed
<1> QED BY <1>1, <1>2 DEF InRange

LEMMA PromiseInit == Init /\ InRange => Promise!Init
<1> SUFFICES ASSUME Init, InRange  PROVE Promise!Init
  OBVIOUS
<1>1. DOMAIN links = {} /\ DOMAIN followed = {}
  BY DEF Init
<1>2. GoodLinks = {}
  BY <1>1 DEF GoodLinks
<1>3. TimesFollowed = [l \in 1..MaxLinks |-> 0]
  BY <1>1 DEF TimesFollowed, Padded
<1>4. SessionsEnded = [l \in 1..MaxLinks |-> {}]
  BY <1>1 DEF SessionsEnded, Padded
<1> QED BY <1>1, <1>2, <1>3, <1>4 DEF Promise!Init, InRange

LEMMA QuietlyKept ==
    AccountsInv /\ InRange /\ InRange' /\ Quiet => Promise!Otherwise
<1> SUFFICES ASSUME AccountsInv, InRange, InRange', Quiet  PROVE Promise!Otherwise
  OBVIOUS
<1>1. SignedIn' \subseteq 1..MaxUsers
  BY DEF InRange
<1>2. DOMAIN links' = DOMAIN links /\ DOMAIN followed = DOMAIN links
  BY DEF InRange, Quiet, Retiring
<1>3. ASSUME NEW l \in GoodLinks'  PROVE l \in GoodLinks
  <2>1. /\ l \in DOMAIN links /\ links'[l].user \in DOMAIN users' /\ users'[links'[l].user].alive
        /\ links'[l].state \notin {"lapsed", "gone"} /\ followed'[l] = 0 /\ Newest(l)'
    BY <1>2, <1>3 DEF GoodLinks, Good, Alive
  <2>2. links[l].user \in DOMAIN users /\ links'[l].user = links[l].user
    BY <2>1 DEF AccountsInv, LiveHaveOwners, Quiet, Retiring
  <2>3. links[l].user \in Alive /\ links[l].state \notin {"lapsed", "gone"} /\ followed[l] = 0
    BY <2>1, <2>2 DEF Alive, Quiet
  <2>4. Newest(l)
    BY <1>2, <2>1 DEF Newest, Quiet, Retiring
  <2> QED BY <2>1, <2>3, <2>4 DEF GoodLinks, Good
<1>4. TimesFollowed' = TimesFollowed
  BY DEF TimesFollowed, Padded, Quiet
<1>5. SessionsEnded' = SessionsEnded
  <2>1. \A l \in DOMAIN links : Ends(links'[l]) = Ends(links[l])
    BY DEF Quiet, Retiring, Ends
  <2> QED BY <1>2, <2>1 DEF SessionsEnded, Padded
<1> QED BY <1>1, <1>2, <1>3, <1>4, <1>5 DEF Promise!Otherwise

LEMMA MakesAsPromised ==
    \A row : AccountsInv /\ InRange /\ InRange' /\ Makes(row) => Promise!Make
<1> TAKE row
<1> SUFFICES ASSUME AccountsInv, InRange, InRange', Makes(row)  PROVE Promise!Make
  OBVIOUS
<1> DEFINE n == Len(links) + 1
<1>1. /\ DOMAIN links' = DOMAIN links \cup {n} /\ n \notin DOMAIN links
      /\ \A l \in DOMAIN links : links'[l] = links[l] /\ followed'[l] = followed[l]
      /\ links'[n] = row /\ followed'[n] = 0
  BY DEF Makes, Adds
<1> HIDE DEF n
<1>2. DOMAIN links' \subseteq 1..MaxLinks /\ DOMAIN users' \subseteq 1..MaxUsers
  BY DEF InRange
<1>3. n \in (1..MaxLinks) \ DOMAIN links
  BY <1>1, <1>2
<1>4. DOMAIN followed = DOMAIN links /\ DOMAIN followed' = DOMAIN links'
  BY DEF InRange
<1>5. Alive' = Alive
  BY DEF Makes, Alive
<1>6. ASSUME NEW l \in GoodLinks', l # n  PROVE l \in GoodLinks
  <2>1. l \in DOMAIN links /\ links[l].user \in Alive /\ links[l].state \notin {"lapsed", "gone"}
        /\ followed[l] = 0 /\ Newest(l)'
    BY <1>1, <1>5, <1>6 DEF GoodLinks, Good
  <2>2. Newest(l)
    BY <1>1, <2>1 DEF Newest
  <2> QED BY <2>1, <2>2 DEF GoodLinks, Good
<1>7. GoodLinks' \in SUBSET (GoodLinks \cup {n})
  BY <1>6
<1>8. Ends(row) \in SUBSET (1..MaxUsers)
  BY <1>2 DEF Ends, Makes
<1>9. SessionsEnded' = [SessionsEnded EXCEPT ![n] = Ends(row)]
  BY <1>1, <1>3 DEF SessionsEnded, Padded
<1>10. TimesFollowed' = TimesFollowed
  BY <1>1, <1>3, <1>4 DEF TimesFollowed, Padded
<1>11. SignedIn' = SignedIn
  BY DEF SignedIn, Makes
<1> QED BY <1>1, <1>3, <1>7, <1>8, <1>9, <1>10, <1>11 DEF Promise!Make

LEMMA FollowsAsPromised ==
    \A l : InRange /\ Follows(l) => Promise!Follow
<1> TAKE l
<1> SUFFICES ASSUME InRange, Follows(l)  PROVE Promise!Follow
  OBVIOUS
<1>1. l \in GoodLinks /\ l \in 1..MaxLinks /\ l \in DOMAIN links
  BY DEF InRange, Follows, GoodLinks
<1>2. DOMAIN links' = DOMAIN links /\ DOMAIN followed = DOMAIN links /\ DOMAIN followed' = DOMAIN links
  BY DEF InRange, Follows, Retiring
<1>3. Alive' = Alive
  BY DEF Follows, Alive
<1>4. l \notin GoodLinks'
  BY <1>1 DEF Follows, GoodLinks, Good
<1>5. ASSUME NEW m \in DOMAIN links, m # l  PROVE m \in GoodLinks' <=> m \in GoodLinks
  <2>1. Newest(m)' <=> Newest(m)
    BY <1>2 DEF Newest, Follows, Retiring
  <2>2. /\ links'[m].user = links[m].user /\ links'[m].state = links[m].state
        /\ followed'[m] = followed[m]
    BY <1>5 DEF Follows, Retiring
  <2> QED BY <1>2, <1>3, <2>1, <2>2 DEF GoodLinks, Good
<1>6. GoodLinks' = GoodLinks \ {l}
  BY <1>2, <1>4, <1>5 DEF GoodLinks
<1>7. TimesFollowed' = [TimesFollowed EXCEPT ![l] = @ + 1]
  BY <1>1, <1>2 DEF TimesFollowed, Padded, Follows
<1>8. SessionsEnded' = SessionsEnded
  <2>1. \A m \in DOMAIN links : Ends(links'[m]) = Ends(links[m])
    BY DEF Follows, Retiring, Ends
  <2> QED BY <1>2, <2>1 DEF SessionsEnded, Padded
<1>9. SignedIn' = SignedIn \ SessionsEnded[l]
  BY <1>1 DEF Follows, SessionsEnded, Padded
<1> QED BY <1>1, <1>2, <1>6, <1>7, <1>8, <1>9 DEF Promise!Follow

LEMMA StepsAreAsPromised ==
    AccountsInv /\ InRange /\ InRange' /\ [Next]_vars => [Promise!Next]_Promise!vars
<1> SUFFICES ASSUME AccountsInv, InRange, InRange', [Next]_vars
             PROVE  Promise!Next
  OBVIOUS
<1>1. Quiet \/ (\E row : Makes(row)) \/ (\E l : Follows(l))
  BY InvNext DEF Proceeds
<1> QED BY <1>1, QuietlyKept, MakesAsPromised, FollowsAsPromised DEF Promise!Next

(* A link has its effect once, while it is the newest of its kind that counts, *)
(* and a reset or a change of address leaves the account without sessions: the *)
(* handlers keep the promise of MailedLinks (ConsumePasswordResetToken,        *)
(* ConsumeEmailChangeToken, ConsumeVerificationToken), for as many accounts    *)
(* and links as come to be: MaxUsers and MaxLinks only number them.            *)
THEOREM LinksAreKeptAsPromised == Spec /\ []WithinBounds => LinksKeepTheirPromise
<1>1. AccountsInv /\ WithinBounds => InRange
  BY Numbered
<1> QED BY <1>1, PromiseInit, StepsAreAsPromised, AccountsInvariant, PTL
        DEF Spec, LinksKeepTheirPromise, Promise!Spec
=============================================================================
