------------------------------- MODULE Session -------------------------------
(***************************************************************************)
(* A user's session: the server's tokens (services/auth_service.py,        *)
(* token_repository.py, user_repository.py, core/dependencies.py) against  *)
(* the browser's use of them (services/api.ts with its 401 interceptor,    *)
(* context/AuthContext.tsx).                                               *)
(*                                                                         *)
(* A request is a slot of a tab.  Each SQL transaction of its handler is a *)
(* step, and so is each callback of the browser.  Tokens are numbered in   *)
(* the order they are issued; number n stands for an access token and for  *)
(* the refresh token issued with it.  The tabs share localStorage.         *)
(***************************************************************************)
EXTENDS Naturals

CONSTANTS
  User,       \* email addresses
  Closable,   \* bound: accounts that may be deactivated
  Tab,        \* tabs of one browser
  Slot,       \* requests a tab can have in flight
  TabOf,      \* the tab of each slot
  None,
  MaxIssued,  \* bound: tokens issued in one behaviour
  MaxFaults   \* bound: lost messages, reloads, expired refresh tokens, ...

Token == 1..MaxIssued
Kind  == {"page", "me", "login", "register", "logout"}

ASSUME SessionAssumption ==
  /\ TabOf \in [Slot -> Tab]
  /\ Closable \subseteq User
  /\ MaxIssued \in Nat /\ MaxFaults \in Nat
  /\ None \notin User \cup Slot \cup Kind

VARIABLES
  rows,        \* users table: how many rows each email has
  active,      \* users.is_active
  owner,       \* whom each token was issued to
  row,         \* refresh_tokens: the row of each token
  issued,      \* how many tokens were issued
  expired,     \* access tokens up to this one have expired
  ls,          \* localStorage: access_token, refresh_token, user
  tab,         \* each tab: left, checking (/me under way) or open, and the
               \* user it shows
  refreshing,  \* isRefreshing of each tab, with the slot that set it
  call,        \* the requests
  retried,     \* slots whose request has _retry set
  gone,        \* slots whose page was left: the server may still be at work
  old,         \* history: in flight when the session was replaced or cleared
  mixed,       \* history: "yes" once an old request wrote to localStorage
  exchanged,   \* history: how many answers each refresh token was given
  ended,       \* history: tokens of sessions whose logout was answered
  faults

server  == <<rows, active, owner, row, issued, expired>>
browser == <<ls, tab, refreshing>>
history == <<old, mixed, exchanged, ended>>
vars == <<server, browser, call, retried, gone, history, faults>>

NoSession == [access |-> 0, refresh |-> 0, user |-> None]
Blank == [pc |-> "idle", kind |-> None, who |-> None, auth |-> 0, rt |-> 0,
          tok |-> 0]

Init ==
  /\ rows = [u \in User |-> 0]
  /\ active = User
  /\ owner = [n \in Token |-> None]
  /\ row = [n \in Token |-> "absent"]
  /\ issued = 0
  /\ expired = 0
  /\ ls = NoSession
  /\ tab = [t \in Tab |-> [phase |-> "open", user |-> None]]
  /\ refreshing = [t \in Tab |-> None]
  /\ call = [s \in Slot |-> Blank]
  /\ retried = {} /\ gone = {} /\ old = {}
  /\ mixed = "no"
  /\ exchanged = [n \in Token |-> 0]
  /\ ended = {}
  /\ faults = 0

SlotsOf(t) == {s \in Slot : TabOf[s] = t}
InFlight   == {s \in Slot : call[s].pc # "idle"}
RefreshPc  == {"validate", "rotate", "issue", "refreshed", "refused"}
ServerPc   == {"sent", "create", "save", "revoke", "validate", "rotate", "issue"}

Goto(s, pc) == call' = [call EXCEPT ![s].pc = pc]

-----------------------------------------------------------------------------
(* The tables: each of these is one SQL statement.                          *)

Registered(u)  == rows[u] > 0
InsertUser(u)  == rows' = [rows EXCEPT ![u] = @ + 1]
Accessible(u)  == u \in active
TokenRow(n)    == row[n]
InsertToken(n) == row' = [row EXCEPT ![n] = "live"]

-----------------------------------------------------------------------------
(* What the user and the tabs start.                                        *)

\* The request interceptor attaches the stored access token.
Send(s, kind, who, rt) ==
  /\ call[s].pc = "idle"
  /\ call' = [call EXCEPT ![s] =
                [pc |-> "sent", kind |-> kind, who |-> who,
                 auth |-> IF kind \in {"login", "register"} THEN 0 ELSE ls.access,
                 rt |-> rt, tok |-> 0]]

Browse(s) ==
  /\ tab[TabOf[s]].phase = "open" /\ tab[TabOf[s]].user # None
  /\ Send(s, "page", None, 0)
  /\ UNCHANGED <<server, browser, retried, gone, history, faults>>

\* The login page is open to anyone, a signed-in user included.
SignIn(s) ==
  /\ tab[TabOf[s]].phase # "left"
  /\ issued < MaxIssued
  /\ \E kind \in {"login", "register"}, u \in User : Send(s, kind, u, 0)
  /\ UNCHANGED <<server, browser, retried, gone, history, faults>>

\* logout: the refresh token of now goes into the body.
SignOut(s) ==
  /\ tab[TabOf[s]].phase = "open" /\ tab[TabOf[s]].user # None
  /\ ls.refresh # 0
  /\ Send(s, "logout", None, ls.refresh)
  /\ UNCHANGED <<server, browser, retried, gone, history, faults>>

\* Another tab has cleared the session: logout has nothing to revoke.
SignOutLocally(t) ==
  /\ tab[t].phase = "open" /\ tab[t].user # None
  /\ ls.refresh = 0
  /\ ls' = NoSession
  /\ tab' = [tab EXCEPT ![t].user = None]
  /\ old' = InFlight
  /\ mixed' = "no"
  /\ UNCHANGED <<server, refreshing, call, retried, gone, exchanged, ended, faults>>

\* AuthProvider's effect: show the stored user, verify it with /me.
Mount(t) ==
  /\ tab[t].phase = "left"
  /\ tab' = [tab EXCEPT ![t] = [phase |-> IF ls.access = 0 THEN "open" ELSE "checking",
                               user |-> ls.user]]
  /\ IF ls.access = 0 THEN UNCHANGED call
     ELSE \E s \in SlotsOf(t) : Send(s, "me", None, 0)
  /\ UNCHANGED <<server, ls, refreshing, retried, gone, history, faults>>

-----------------------------------------------------------------------------
(* The server.                                                              *)

\* decode_access_token and the user's row: get_current_user.
Admits(n) == n > expired /\ Accessible(owner[n])

Serve(s) ==
  /\ call[s].pc = "sent" /\ call[s].kind \in {"page", "me", "logout"}
  /\ IF Admits(call[s].auth)
       THEN Goto(s, IF call[s].kind = "logout" THEN "revoke" ELSE "ok")
       ELSE call' = [call EXCEPT ![s].pc = "unauthorized", ![s].auth = 0]
  /\ UNCHANGED <<server, browser, retried, gone, history, faults>>

\* The password, checked against the row that was read, may be wrong.
CheckLogin(s) ==
  /\ call[s].pc = "sent" /\ call[s].kind = "login"
  /\ \E pc \in {"save", "unauthorized"} :
       /\ pc = "save" => Registered(call[s].who) /\ Accessible(call[s].who)
       /\ Goto(s, pc)
  /\ UNCHANGED <<server, browser, retried, gone, history, faults>>

CheckRegister(s) ==
  /\ call[s].pc = "sent" /\ call[s].kind = "register"
  /\ Goto(s, IF Registered(call[s].who) THEN "failed" ELSE "create")
  /\ UNCHANGED <<server, browser, retried, gone, history, faults>>

\* The insert meets the UNIQUE constraint if another registration was faster.
Create(s) ==
  /\ call[s].pc = "create"
  /\ IF Registered(call[s].who)
       THEN Goto(s, "failed") /\ UNCHANGED rows
       ELSE InsertUser(call[s].who) /\ Goto(s, "save")
  /\ UNCHANGED <<active, owner, row, issued, expired, browser, retried, gone,
                 history, faults>>

\* Mutant: the pair that is answered is not the one recorded for the user.
BuildOther(s, u, pc) ==
  /\ issued < MaxIssued
  /\ issued' = issued + 1
  /\ owner' = [owner EXCEPT ![issued'] = u]
  /\ call' = [call EXCEPT ![s].pc = pc, ![s].tok = issued' + 1]

\* _build_token_response: a new pair for the user.
Build(s, u, pc) ==
  /\ issued < MaxIssued
  /\ issued' = issued + 1
  /\ owner' = [owner EXCEPT ![issued'] = u]
  /\ call' = [call EXCEPT ![s].pc = pc, ![s].tok = issued']

\* _issue_tokens: the refresh token of a login is saved.
Save(s) ==
  /\ call[s].pc = "save"
  /\ Build(s, call[s].who, "ok")
  /\ InsertToken(issued')
  /\ UNCHANGED <<rows, active, expired, browser, retried, gone, history, faults>>

\* Mutant: logout answers without revoking.
RevokeNothing(s) ==
  /\ call[s].pc = "revoke"
  /\ Goto(s, "ok")
  /\ UNCHANGED <<server, browser, retried, gone, history, faults>>

Revoked(n) == IF row[n] = "absent" THEN row ELSE [row EXCEPT ![n] = "revoked"]

Revoke(s) ==
  /\ call[s].pc = "revoke"
  /\ row' = Revoked(call[s].rt)
  /\ Goto(s, "ok")
  /\ UNCHANGED <<rows, active, owner, issued, expired, browser, retried, gone,
                 history, faults>>

\* AuthService.refresh: validate, revoke and build are three steps.
Validate(s) ==
  /\ call[s].pc = "validate"
  /\ Goto(s, IF TokenRow(call[s].tok) = "live" THEN "rotate" ELSE "refused")
  /\ UNCHANGED <<server, browser, retried, gone, history, faults>>

\* Mutant: a refresh does not revoke the token it was given.
RotateKeeps(s) ==
  /\ call[s].pc = "rotate"
  /\ Goto(s, "issue")
  /\ UNCHANGED <<server, browser, retried, gone, history, faults>>

Rotate(s) ==
  /\ call[s].pc = "rotate"
  /\ row' = Revoked(call[s].tok)
  /\ Goto(s, "issue")
  /\ UNCHANGED <<rows, active, owner, issued, expired, browser, retried, gone,
                 history, faults>>

\* The user is looked up and a new pair answered.  Its refresh token is not
\* saved: its row stays absent.
Issue(s) ==
  /\ call[s].pc = "issue"
  /\ LET n == call[s].tok IN
       IF Accessible(owner[n])
         THEN /\ Build(s, owner[n], "refreshed")
              /\ exchanged' = [exchanged EXCEPT ![n] = @ + 1]
         ELSE Goto(s, "refused") /\ UNCHANGED <<issued, owner, exchanged>>
  /\ UNCHANGED <<rows, active, row, expired, browser, retried, gone, old, mixed,
                 ended, faults>>

ServerStep(s) ==
  \/ Serve(s) \/ CheckLogin(s) \/ CheckRegister(s) \/ Create(s) \/ Save(s)
  \/ Revoke(s) \/ Validate(s) \/ Rotate(s) \/ Issue(s)

-----------------------------------------------------------------------------
(* The browser receives an answer.                                          *)

\* Mutant: clearSession leaves the refresh token.
ClearKeepsRefresh == [ls EXCEPT !.access = 0, !.user = None]

\* clearSession.
Clear == NoSession

Finish(s) ==
  /\ call' = [call EXCEPT ![s] = Blank]
  /\ retried' = retried \ {s}

\* Mutant: persistSession does not store the refresh token.
PersistNoRefresh(n, u) == [ls EXCEPT !.access = n, !.user = u]

\* persistSession.
Persist(n, u) == [access |-> n, refresh |-> n, user |-> u]

Succeed(s) ==
  /\ call[s].pc = "ok" /\ s \notin gone
  /\ LET c == call[s]
         t == TabOf[s] IN
     \/ /\ c.kind = "page"
        /\ old' = old \ {s}
        /\ UNCHANGED <<ls, tab, mixed, ended>>
     \/ /\ c.kind = "me"
        /\ ls' = [ls EXCEPT !.user = owner[c.auth]]
        /\ tab' = [tab EXCEPT ![t] = [phase |-> "open", user |-> owner[c.auth]]]
        /\ mixed' = IF s \in old THEN "yes" ELSE mixed
        /\ old' = old \ {s}
        /\ UNCHANGED ended
     \/ /\ c.kind \in {"login", "register"}
        /\ ls' = Persist(c.tok, c.who)
        /\ tab' = [tab EXCEPT ![t].user = c.who]
        /\ old' = InFlight \ {s}
        /\ mixed' = "no"
        /\ UNCHANGED ended
     \/ /\ c.kind = "logout"
        /\ ls' = Clear
        /\ tab' = [tab EXCEPT ![t].user = None]
        /\ old' = InFlight \ {s}
        /\ mixed' = "no"
        /\ ended' = ended \cup {c.rt} \cup (IF s \in old \/ ls.refresh = 0 THEN {}
                                            ELSE {ls.refresh})
  /\ Finish(s)
  /\ UNCHANGED <<server, refreshing, gone, exchanged, faults>>

\* The promise is rejected: an error, or a 401 after the retry.  /me and
\* logout clear the session all the same.
Fail(s) ==
  /\ s \notin gone
  /\ call[s].pc = "failed" \/ (call[s].pc = "unauthorized" /\ s \in retried)
  /\ IF call[s].kind \in {"me", "logout"}
       THEN /\ ls' = Clear
            /\ tab' = [tab EXCEPT ![TabOf[s]] =
                         [phase |-> IF call[s].kind = "me" THEN "open" ELSE @.phase,
                          user |-> None]]
            /\ old' = InFlight \ {s}
            /\ mixed' = "no"
       ELSE old' = old \ {s} /\ UNCHANGED <<ls, tab, mixed>>
  /\ Finish(s)
  /\ UNCHANGED <<server, refreshing, gone, exchanged, ended,
                 faults>>

\* The page is left: its callbacks are dropped, the server goes on.
Leave(t) ==
  /\ tab' = [tab EXCEPT ![t] = [phase |-> "left", user |-> None]]
  /\ refreshing' = [refreshing EXCEPT ![t] = None]
  /\ call' = [s \in Slot |-> IF s \in SlotsOf(t) /\ call[s].pc \notin ServerPc
                               THEN Blank ELSE call[s]]
  /\ gone' = gone \cup {s \in SlotsOf(t) : call[s].pc \in ServerPc}
  /\ retried' = retried \ SlotsOf(t)

\* window.location.href = '/login' after clearSession.
ToLogin(t) ==
  /\ ls' = Clear
  /\ mixed' = "no"
  /\ old' = InFlight \ SlotsOf(t)
  /\ Leave(t)

\* The first 401 of a request: give up, wait in failedQueue, or refresh.
Unauthorized(s) ==
  /\ call[s].pc = "unauthorized" /\ s \notin gone \cup retried
  /\ LET t == TabOf[s] IN
     \/ /\ ls.refresh = 0
        /\ ToLogin(t)
     \/ /\ ls.refresh # 0 /\ refreshing[t] # None
        /\ retried' = retried \cup {s}
        /\ Goto(s, "waiting")
        /\ UNCHANGED <<browser, gone, old, mixed>>
     \/ /\ ls.refresh # 0 /\ refreshing[t] = None
        /\ retried' = retried \cup {s}
        /\ refreshing' = [refreshing EXCEPT ![t] = s]
        /\ call' = [call EXCEPT ![s].pc = "validate", ![s].tok = ls.refresh]
        /\ UNCHANGED <<ls, tab, gone, old, mixed>>
  /\ UNCHANGED <<server, exchanged, ended, faults>>

\* Mutants: the waiting requests are not flushed; isRefreshing is not reset.
RefreshedNoFlush(s) ==
  /\ call[s].pc = "refreshed" /\ s \notin gone
  /\ ls' = [ls EXCEPT !.access = call[s].tok, !.refresh = call[s].tok]
  /\ refreshing' = [refreshing EXCEPT ![TabOf[s]] = None]
  /\ call' = [call EXCEPT ![s].pc = "sent", ![s].auth = call[s].tok,
                          ![s].tok = 0]
  /\ mixed' = IF s \in old THEN "yes" ELSE mixed
  /\ UNCHANGED <<server, tab, retried, gone, old, exchanged, ended,
                 faults>>
RefreshedKeepsFlag(s) ==
  /\ call[s].pc = "refreshed" /\ s \notin gone
  /\ ls' = [ls EXCEPT !.access = call[s].tok, !.refresh = call[s].tok]
  /\ call' = [call EXCEPT ![s].pc = "sent", ![s].auth = call[s].tok,
                          ![s].tok = 0]
  /\ mixed' = IF s \in old THEN "yes" ELSE mixed
  /\ UNCHANGED <<server, tab, refreshing, retried, gone, old, exchanged,
                 ended, faults>>

\* failedQueue.
Queued(t) == {x \in SlotsOf(t) : call[x].pc = "waiting"}

\* The pair is stored, flushQueue resolves the waiting requests, and they and
\* this one are sent again, all before another callback runs.
Refreshed(s) ==
  /\ call[s].pc = "refreshed" /\ s \notin gone
  /\ LET n == call[s].tok
         again == {s} \cup Queued(TabOf[s]) IN
       /\ ls' = [ls EXCEPT !.access = n, !.refresh = n]
       /\ call' = [x \in Slot |-> IF x \in again
                     THEN [call[x] EXCEPT !.pc = "sent", !.auth = n, !.tok = 0]
                     ELSE call[x]]
  /\ refreshing' = [refreshing EXCEPT ![TabOf[s]] = None]
  /\ mixed' = IF s \in old THEN "yes" ELSE mixed
  /\ UNCHANGED <<server, tab, retried, gone, old, exchanged, ended,
                 faults>>

\* flushQueue rejects the waiting requests and the tab goes to the login page.
Refused(s) ==
  /\ call[s].pc = "refused" /\ s \notin gone
  /\ ToLogin(TabOf[s])
  /\ UNCHANGED <<server, exchanged, ended, faults>>

\* An answer to a page that was left.
Ignore(s) ==
  /\ s \in gone /\ call[s].pc \notin ServerPc
  /\ Finish(s)
  /\ gone' = gone \ {s}
  /\ UNCHANGED <<server, browser, history, faults>>

Receive(s) ==
  Succeed(s) \/ Fail(s) \/ Unauthorized(s) \/ Refreshed(s) \/ Refused(s) \/ Ignore(s)

-----------------------------------------------------------------------------
(* The environment.                                                         *)

\* Access tokens live equally long, so they expire in the order of issue.
ExpireAccess ==
  /\ expired < issued
  /\ expired' = expired + 1
  /\ UNCHANGED <<rows, active, owner, row, issued, browser, call, retried, gone,
                 history, faults>>

Fault == faults < MaxFaults /\ faults' = faults + 1

\* A request or its answer is lost, the handler fails, or, at the bound on
\* tokens, no more are issued.
Lose(s) ==
  /\ call[s].pc \notin {"idle", "waiting", "failed", "refused"}
  /\ \/ Fault
     \/ issued = MaxIssued /\ call[s].pc \in {"save", "issue"} /\ UNCHANGED faults
  /\ Goto(s, IF call[s].pc \in RefreshPc THEN "refused" ELSE "failed")
  /\ UNCHANGED <<server, browser, retried, gone, history>>

Reload(t) ==
  /\ tab[t].phase # "left"
  /\ Fault
  /\ Leave(t)
  /\ old' = old \ SlotsOf(t)
  /\ UNCHANGED <<server, ls, mixed, exchanged, ended>>

ExpireRefresh(n) ==
  /\ n <= expired /\ row[n] = "live"
  /\ Fault
  /\ row' = [row EXCEPT ![n] = "expired"]
  /\ UNCHANGED <<rows, active, owner, issued, expired, browser, call, retried,
                 gone, history>>

\* No endpoint does this: an operator sets is_active to 0 in the database.
Deactivate(u) ==
  /\ u \in active \cap Closable /\ rows[u] > 0
  /\ Fault
  /\ active' = active \ {u}
  /\ UNCHANGED <<rows, owner, row, issued, expired, browser, call, retried, gone,
                 history>>

Environment ==
  \/ ExpireAccess
  \/ \E n \in Token : ExpireRefresh(n)
  \/ \E s \in Slot : Lose(s)
  \/ \E t \in Tab : Reload(t)
  \/ \E u \in User : Deactivate(u)

Next ==
  \/ \E s \in Slot : Browse(s) \/ SignIn(s) \/ SignOut(s)
  \/ \E s \in Slot : ServerStep(s) \/ Receive(s)
  \/ \E t \in Tab : Mount(t) \/ SignOutLocally(t)
  \/ Environment

\* The server answers, the browser runs its callbacks.  The refresh call has
\* no timeout of its own: were the server to hold it for ever, so would be the
\* waiting requests.
Fairness ==
  \A s \in Slot : WF_vars(ServerStep(s) \/ Lose(s)) /\ WF_vars(Receive(s))

Spec == Init /\ [][Next]_vars /\ Fairness

-----------------------------------------------------------------------------
(* Properties.                                                              *)

Pc == {"idle", "waiting", "ok", "unauthorized", "failed", "refreshed", "refused"}
        \cup ServerPc

TypeOK ==
  /\ rows \in [User -> Nat]
  /\ active \subseteq User
  /\ owner \in [Token -> User \cup {None}]
  /\ row \in [Token -> {"absent", "live", "revoked", "expired"}]
  /\ issued \in 0..MaxIssued
  /\ expired \in 0..issued
  /\ ls \in [access : 0..issued, refresh : 0..issued, user : User \cup {None}]
  /\ tab \in [Tab -> [phase : {"left", "checking", "open"}, user : User \cup {None}]]
  /\ refreshing \in [Tab -> Slot \cup {None}]
  /\ call \in [Slot -> [pc : Pc, kind : Kind \cup {None},
                        who : User \cup {None}, auth : 0..issued,
                        rt : 0..issued, tok : 0..issued]]
  /\ retried \subseteq Slot /\ gone \subseteq Slot /\ old \subseteq Slot
  /\ mixed \in {"no", "yes"}
  /\ exchanged \in [Token -> Nat]
  /\ ended \subseteq Token
  /\ faults \in Nat

\* "Prevents simultaneous refresh races" (services/api.ts): a tab has at most
\* one refresh under way, and a request waits for a new token only while the
\* refresh that will flush the queue is under way.
OneRefreshPerTab ==
  \A s \in Slot \ gone :
    /\ call[s].pc \in RefreshPc <=> refreshing[TabOf[s]] = s
    /\ call[s].pc = "waiting" => refreshing[TabOf[s]] # None

\* The three entries of localStorage belong to one login, whatever the tabs
\* and the requests in flight do, unless a request from before a login or a
\* logout was answered after it.
OneUsersSession ==
  (ls.access # 0 /\ mixed = "no")
    => ls.refresh = ls.access /\ ls.user = owner[ls.access]

\* "If a refresh token is reused after rotation, the server returns 401"
\* (docs/security.md): a refresh whose token has been exchanged already does not
\* get past the validation, whichever of the tabs kept the old token and however
\* late it presents it.
ReuseRefused ==
  [][\A s \in Slot : (call[s].pc = "validate" /\ call'[s].pc = "rotate")
                        => exchanged[call[s].tok] = 0]_vars

\* "Refresh tokens are single-use" (routers/auth.py): no refresh token is
\* exchanged for a second pair.
SingleUse == \A n \in Token : exchanged[n] <= 1

\* Once a logout has been answered, no refresh token of that session is of any
\* use, the one posted and the one a refresh put in its place meanwhile.
LogoutEndsSession == \A n \in ended : row[n] # "live"

\* A browser without a session gets one by a login only, or by the late answer
\* to a refresh that was under way when the session was cleared.
SessionOnlyByLogin ==
  [][(ls.access = 0 /\ ls'.access # 0)
       => \/ mixed' = "yes"
          \/ \E s \in Slot : /\ call[s].kind \in {"login", "register"}
                             /\ call[s].pc = "ok"
                             /\ call'[s].pc = "idle"]_vars

\* Every request is answered, waiting ones included.
AnswersComeBack ==
  \A s \in Slot : (call[s].pc # "idle") ~> (call[s].pc = "idle")

\* docs/evolution.md: the user never sees a login page unless the refresh
\* token has expired too.
LoginOnlyAfterExpiry ==
  \A s \in Slot : call[s].pc = "refused" => row[call[s].tok] = "expired"
=============================================================================
