------------------------------ MODULE Sessions ------------------------------
(***************************************************************************)
(* The login chains of one account: refresh tokens as the control plane    *)
(* rotates and revokes them (AuthService), and as the tabs of one browser  *)
(* keep and exchange them (lib/api.ts, lib/auth.ts).                       *)
(*                                                                         *)
(* The tabs share localStorage.  Each has its own refreshInFlight, which   *)
(* makes refreshing serial within the tab and not between tabs.  On the    *)
(* server a refresh reads the token, reads the user, marks the token and   *)
(* inserts its successor: four queries with other requests between them.   *)
(*                                                                         *)
(* Left out: the 30 days after which an unused token expires, and roles.   *)
(***************************************************************************)
EXTENDS Naturals, Sequences

CONSTANTS
    Tabs,        \* tabs of the browser
    Requests,    \* API requests a page may have under way
    TabOf,       \* request -> its tab
    MaxToken,    \* bound: refresh tokens issued
    MaxCall,     \* bound: calls of /auth/refresh and /auth/logout
    MaxExpiry,   \* bound: times the access token expires
    MaxBlip,     \* bound: refreshes whose answer never reaches the tab
    MaxToggle    \* bound: deactivations and reactivations of the account

Token == 1..MaxToken
Call == 1..MaxCall

\* refreshInFlight holds no promise, that of a call, or one resolved to false
\* that nothing clears any more.
NoFlight == 0
Stuck == MaxCall + 1

\* Whose answer nobody awaits any more: the page that made the call was left.
Gone == "gone"

VARIABLES
    active,   \* User.active
    tokens,   \* refresh_token rows, in order of issue
    calls,    \* calls the server works on or has answered
    store,    \* localStorage: the access token's state and the refresh token
    page,     \* tab -> "app" or "login"
    flight,   \* tab -> refreshInFlight
    req,      \* request -> [st, access, retried]
    bounds    \* what is left of the bounds

vars == <<active, tokens, calls, store, page, flight, req, bounds>>
server == <<active, tokens, calls>>
browser == <<store, page, flight, req>>

TypeOK ==
    /\ active \in BOOLEAN
    /\ tokens \in Seq([family : Token, used : BOOLEAN, revoked : BOOLEAN])
    /\ calls \in Seq([kind : {"refresh", "logout"}, tab : Tabs \cup {Gone}, token : Token, answer : 0..MaxToken,
                      step : {"find", "kill", "user", "mark", "issue", "ok", "refused"}])
    /\ store \in [access : {"none", "live", "stale"}, refresh : 0..MaxToken]
    /\ page \in [Tabs -> {"app", "login"}]
    /\ flight \in [Tabs -> 0..Stuck]
    /\ req \in [Requests -> [st : {"idle", "sent", "waiting"},
                             access : {"none", "live", "stale"}, retried : BOOLEAN]]
    /\ bounds \in [expiry : 0..MaxExpiry, blip : 0..MaxBlip, toggle : 0..MaxToggle]

Idle == [st |-> "idle", access |-> "none", retried |-> FALSE]
Empty == [access |-> "none", refresh |-> 0]

Init ==
    /\ active = TRUE
    /\ tokens = <<>>
    /\ calls = <<>>
    /\ store = Empty
    /\ page = [t \in Tabs |-> "login"]
    /\ flight = [t \in Tabs |-> NoFlight]
    /\ req = [r \in Requests |-> Idle]
    /\ bounds = [expiry |-> MaxExpiry, blip |-> MaxBlip, toggle |-> MaxToggle]

-----------------------------------------------------------------------------
(* The server                                                              *)

Row(family) == [family |-> family, used |-> FALSE, revoked |-> FALSE]

RevokeFamily(f) ==
    tokens' = [i \in DOMAIN tokens |->
                 IF tokens[i].family = f
                 THEN [tokens[i] EXCEPT !.revoked = TRUE] ELSE tokens[i]]

\* What refresh() decides from the row it found.
Verdict_Why(row) == IF row.used THEN "kill" ELSE "user"

Verdict(row) ==
    IF row.used THEN "kill" ELSE IF row.revoked THEN "refused" ELSE "user"

Becomes(c, step) == calls' = [calls EXCEPT ![c].step = step]

Find(c) ==
    /\ calls[c].step = "find"
    /\ Becomes(c, IF calls[c].kind = "logout" THEN "kill"
                  ELSE Verdict(tokens[calls[c].token]))
    /\ UNCHANGED <<active, tokens, browser, bounds>>

\* revokeFamily: of a replayed token, or of the chain signed out.
Kill(c) ==
    /\ calls[c].step = "kill"
    /\ RevokeFamily(tokens[calls[c].token].family)
    /\ Becomes(c, IF calls[c].kind = "logout" THEN "ok" ELSE "refused")
    /\ UNCHANGED <<active, browser, bounds>>

FindUser(c) ==
    /\ calls[c].step = "user"
    /\ Becomes(c, IF active THEN "mark" ELSE "refused")
    /\ UNCHANGED <<active, tokens, browser, bounds>>

MarkUsed_Why(c) ==
    /\ calls[c].step = "mark"
    /\ Becomes(c, "issue")
    /\ UNCHANGED <<active, tokens, browser, bounds>>

MarkUsed(c) ==
    /\ calls[c].step = "mark"
    /\ tokens' = [tokens EXCEPT ![calls[c].token].used = TRUE]
    /\ Becomes(c, "issue")
    /\ UNCHANGED <<active, browser, bounds>>

\* issueTokens in the family of the token that was exchanged.
Issue(c) ==
    /\ calls[c].step = "issue"
    /\ Len(tokens) < MaxToken
    /\ tokens' = Append(tokens, Row(tokens[calls[c].token].family))
    /\ calls' = [calls EXCEPT ![c].step = "ok", ![c].answer = Len(tokens) + 1]
    /\ UNCHANGED <<active, browser, bounds>>

\* PATCH /users/:id with active.
Toggle ==
    /\ bounds.toggle > 0
    /\ active' = ~active
    /\ bounds' = [bounds EXCEPT !.toggle = @ - 1]
    /\ UNCHANGED <<tokens, calls, browser>>

-----------------------------------------------------------------------------
(* The browser                                                             *)

MayCall == Len(calls) < MaxCall

NewCall(t, kind) ==
    calls' = Append(calls, [kind |-> kind, tab |-> t, token |-> store.refresh,
                            step |-> "find", answer |-> 0])

ClearToken_Why == store' = [store EXCEPT !.access = "none"]

ClearToken == store' = Empty

\* login() and then router.replace('/dashboard'): the modules, and with them
\* refreshInFlight and the requests under way, stay as they are.
SignIn(t) ==
    /\ page[t] = "login" /\ active /\ Len(tokens) < MaxToken
    /\ tokens' = Append(tokens, Row(Len(tokens) + 1))
    /\ store' = [access |-> "live", refresh |-> Len(tokens) + 1]
    /\ page' = [page EXCEPT ![t] = "app"]
    /\ UNCHANGED <<active, calls, flight, req, bounds>>

\* The app is loaded in a tab, or loaded anew, over a refresh under way perhaps:
\* nothing is left of what the tab was doing but what localStorage holds.
LoadApp(t) ==
    /\ page' = [page EXCEPT ![t] = IF store.access = "none" THEN "login" ELSE "app"]
    /\ flight' = [flight EXCEPT ![t] = NoFlight]
    /\ req' = [r \in Requests |-> IF TabOf[r] = t THEN Idle ELSE req[r]]
    /\ calls' = [c \in DOMAIN calls |->
                   IF c = flight[t] THEN [calls[c] EXCEPT !.tab = Gone] ELSE calls[c]]
    /\ UNCHANGED <<active, tokens, store, bounds>>

\* logout(): the revocation is sent and not waited for.
Logout(t) ==
    /\ page[t] = "app"
    /\ IF store.refresh = 0 THEN UNCHANGED calls
       ELSE MayCall /\ NewCall(t, "logout")
    /\ ClearToken
    /\ page' = [page EXCEPT ![t] = "login"]
    /\ UNCHANGED <<active, tokens, flight, req, bounds>>

\* The access token's lifetime ends, wherever it is.
Expire ==
    /\ bounds.expiry > 0 /\ store.access = "live"
    /\ store' = [store EXCEPT !.access = "stale"]
    /\ req' = [r \in Requests |->
                 IF req[r].access = "live" THEN [req[r] EXCEPT !.access = "stale"] ELSE req[r]]
    /\ bounds' = [bounds EXCEPT !.expiry = @ - 1]
    /\ UNCHANGED <<server, page, flight>>

\* request(): send() puts in the access token of the moment.
Send(r) ==
    /\ page[TabOf[r]] = "app" /\ req[r].st = "idle"
    /\ req' = [req EXCEPT ![r] = [st |-> "sent", access |-> store.access, retried |-> FALSE]]
    /\ UNCHANGED <<server, store, page, flight, bounds>>

\* endSession() in tab t, whose requests `failed` it fails.  Away from /login it
\* loads the page anew, which ends all the tab's requests and gives it fresh
\* modules; on /login it only clears, and refreshInFlight is as the caller left it.
EndSession(t, failed, left) ==
    LET reload == page[t] = "app" IN
    /\ ClearToken
    /\ page' = [page EXCEPT ![t] = "login"]
    /\ flight' = [flight EXCEPT ![t] = IF reload THEN NoFlight ELSE left]
    /\ req' = [r \in Requests |->
                 IF r \in failed \/ (reload /\ TabOf[r] = t) THEN Idle ELSE req[r]]

Waiting(t) == {r \in Requests : TabOf[r] = t /\ req[r].st = "waiting"}

\* The guard lets the request pass.
Accepted(r) ==
    /\ req[r].st = "sent" /\ req[r].access = "live"
    /\ req' = [req EXCEPT ![r] = Idle]
    /\ UNCHANGED <<server, store, page, flight, bounds>>

\* 401 to a first attempt: refreshSession(), which shares a refresh under way.
Refresh_Why(r) ==
    LET t == TabOf[r] IN
    /\ req[r].st = "sent" /\ req[r].access # "live" /\ ~req[r].retried
    /\ flight[t] # Stuck
    /\ store.refresh # 0 /\ MayCall
    /\ req' = [req EXCEPT ![r].st = "waiting"]
    /\ NewCall(t, "refresh") /\ flight' = [flight EXCEPT ![t] = Len(calls) + 1]
    /\ UNCHANGED <<active, tokens, store, page, bounds>>

Refresh(r) ==
    LET t == TabOf[r] IN
    /\ req[r].st = "sent" /\ req[r].access # "live" /\ ~req[r].retried
    /\ flight[t] # Stuck
    /\ flight[t] = NoFlight => store.refresh # 0 /\ MayCall
    /\ req' = [req EXCEPT ![r].st = "waiting"]
    /\ IF flight[t] # NoFlight THEN UNCHANGED <<calls, flight>>
       ELSE NewCall(t, "refresh") /\ flight' = [flight EXCEPT ![t] = Len(calls) + 1]
    /\ UNCHANGED <<active, tokens, store, page, bounds>>

\* 401 with nothing to refresh with.  The early return of refreshSession is
\* outside its try: the promise it leaves in refreshInFlight stays there.
NoRefresh(r) ==
    LET t == TabOf[r] IN
    /\ req[r].st = "sent" /\ req[r].access # "live" /\ ~req[r].retried
    /\ \/ flight[t] = Stuck
       \/ flight[t] = NoFlight /\ store.refresh = 0
    /\ EndSession(t, {r}, Stuck)
    /\ UNCHANGED <<server, bounds>>

\* 401 to the second attempt as well.
RefusedTwice(r) ==
    /\ req[r].st = "sent" /\ req[r].access # "live" /\ req[r].retried
    /\ EndSession(TabOf[r], {r}, flight[TabOf[r]])
    /\ UNCHANGED <<server, bounds>>

\* The new pair arrives: setTokens, and everyone who waited sends once more.
Refreshed(t) ==
    /\ flight[t] \in DOMAIN calls /\ calls[flight[t]].step = "ok"
    /\ store' = [access |-> "live", refresh |-> calls[flight[t]].answer]
    /\ flight' = [flight EXCEPT ![t] = NoFlight]
    /\ req' = [r \in Requests |->
                 IF r \in Waiting(t)
                 THEN [st |-> "sent", access |-> "live", retried |-> TRUE] ELSE req[r]]
    /\ UNCHANGED <<server, page, bounds>>

\* The refresh is refused.
RefreshRefused(t) ==
    /\ flight[t] \in DOMAIN calls /\ calls[flight[t]].step = "refused"
    /\ EndSession(t, Waiting(t), NoFlight)
    /\ UNCHANGED <<server, bounds>>

\* The network fails under a refresh, which the server may still carry out.
\* refreshSession resolves to false, as for a refusal.
Blip(t) ==
    /\ flight[t] \in DOMAIN calls /\ bounds.blip > 0
    /\ bounds' = [bounds EXCEPT !.blip = @ - 1]
    /\ EndSession(t, Waiting(t), NoFlight)
    /\ UNCHANGED server

-----------------------------------------------------------------------------
ServerStep(c) == Find(c) \/ Kill(c) \/ FindUser(c) \/ MarkUsed(c) \/ Issue(c)
TabStep(t) == SignIn(t) \/ LoadApp(t) \/ Logout(t) \/ Refreshed(t) \/ RefreshRefused(t) \/ Blip(t)
RequestStep(r) == Send(r) \/ Accepted(r) \/ Refresh(r) \/ NoRefresh(r) \/ RefusedTwice(r)

Next ==
    \/ \E c \in DOMAIN calls : ServerStep(c)
    \/ \E t \in Tabs : TabStep(t)
    \/ \E r \in Requests : RequestStep(r)
    \/ Expire
    \/ Toggle

Spec == Init /\ [][Next]_vars

-----------------------------------------------------------------------------
(* Properties                                                              *)

Usable(f) == {i \in DOMAIN tokens :
                tokens[i].family = f /\ ~tokens[i].used /\ ~tokens[i].revoked}

\* Refreshes of family f that have passed the check and not yet issued.
Underway(f) == {c \in DOMAIN calls :
                  /\ tokens[calls[c].token].family = f
                  /\ calls[c].step \in {"user", "mark", "issue"}}

\* A chain is dead when it holds no token that can be exchanged, because it was
\* signed out or a token of it was replayed, and no refresh has passed its check
\* and not yet issued (the window of AuthService.refresh).  It stays dead.
Dead(f) == Usable(f) = {} /\ Underway(f) = {}

DeadChainStaysDead == [][\A f \in DOMAIN tokens : Dead(f) => Dead(f)']_vars

\* A chain forks, into two tokens that can both be exchanged, only when two page
\* loads presented one token: rotation leaves one token per chain otherwise,
\* whatever answers were lost on the way.
ForksTakeTwoTabs ==
    \A f \in DOMAIN tokens : \A i, j \in Usable(f) : i # j =>
      \E c, d \in DOMAIN calls :
        /\ calls[c].kind = "refresh" /\ calls[d].kind = "refresh"
        /\ calls[c].token = calls[d].token /\ c # d
        /\ calls[c].tab # calls[d].tab \/ calls[c].tab = Gone

\* What the single flight of lib/api.ts is for: a page never presents a refresh
\* token twice, whatever its requests do.  The server sees a replay only of two
\* tabs that refresh at once, or of one loaded anew over a refresh under way.
TabSpendsOnce ==
    \A c, d \in DOMAIN calls :
      (/\ c # d /\ calls[c].token = calls[d].token
       /\ calls[c].kind = "refresh" /\ calls[d].kind = "refresh")
      => calls[c].tab # calls[d].tab \/ calls[c].tab = Gone

\* Signing out is final: once localStorage is cleared and no tab has a refresh
\* under way, no tab starts one and no token comes back until somebody signs in.
SignedOut == store.access = "none" /\ \A t \in Tabs : flight[t] \in {NoFlight, Stuck}

SignedOutStaysOut == [][SignedOut /\ (\A t \in Tabs : ~SignIn(t)) => SignedOut']_vars

\* What lib/api.ts says of a refresh: a network failure does not end the
\* session.  A session whose refresh token the server would still exchange is
\* ended by signing out and by nothing else.
BlipKeepsSession ==
    [][(/\ store.refresh # 0 /\ active
        /\ store.refresh \in Usable(tokens[store.refresh].family)
        /\ \A t \in Tabs : ~Logout(t))
       => store'.refresh # 0]_vars

=============================================================================
