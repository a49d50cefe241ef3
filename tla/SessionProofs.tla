---------------------------- MODULE SessionProofs ----------------------------
(***************************************************************************)
(* Theorems about Session, for any number of users, tabs and requests.     *)
(***************************************************************************)
EXTENDS Session, TLAPS

USE DEF Registered, InsertUser, Accessible, TokenRow, InsertToken, Queued

Signing == {"login", "register"}

\* The requests whose tokens are of a set.
Request(A) == [pc : Pc, kind : Kind \cup {None}, who : User \cup {None},
               auth : A, rt : A, tok : A]

\* A request holds what its next step needs.
Shaped(s) ==
  /\ call[s].pc \in {"validate", "rotate", "issue", "refreshed"} => call[s].tok # 0
  /\ call[s].pc \in {"create", "save"} => call[s].kind \in Signing
  /\ call[s].pc = "revoke" => call[s].kind = "logout"
  /\ call[s].kind = "logout" => call[s].rt # 0
  /\ call[s].kind \in Signing => call[s].who # None
  /\ call[s].pc = "ok" =>
       IF call[s].kind \in Signing
         THEN call[s].tok # 0 /\ owner[call[s].tok] = call[s].who
         ELSE call[s].kind = "me" => call[s].auth # 0

ServerTypes ==
  /\ rows \in [User -> Nat]
  /\ active \subseteq User
  /\ owner \in [Token -> User \cup {None}]
  /\ row \in [Token -> {"absent", "live", "revoked", "expired"}]
  /\ issued \in 0..MaxIssued
  /\ expired \in 0..issued
  /\ exchanged \in [Token -> Nat]
  /\ ended \subseteq Token

BrowserTypes ==
  /\ ls \in [access : 0..issued, refresh : 0..issued, user : User \cup {None}]
  /\ tab \in [Tab -> [phase : {"left", "checking", "open"}, user : User \cup {None}]]
  /\ refreshing \in [Tab -> Slot \cup {None}]
  /\ retried \subseteq Slot /\ gone \subseteq Slot /\ old \subseteq Slot
  /\ mixed \in {"no", "yes"}
  /\ faults \in Nat

CallTypes ==
  /\ call \in [Slot -> Request(0..issued)]
  /\ \A s \in Slot : Shaped(s)

Types == ServerTypes /\ BrowserTypes /\ CallTypes

LEMMA TypesAreTypeOK == Types => TypeOK
BY DEF Types, ServerTypes, BrowserTypes, CallTypes, Request, TypeOK

LEMMA RequestGrows ==
  ASSUME NEW m \in Nat, NEW n \in Nat, m <= n
  PROVE  Request(0..m) \subseteq Request(0..n)
BY DEF Request

LEMMA PcFacts ==
  /\ {"idle", "waiting", "ok", "unauthorized", "failed", "refreshed", "refused"} \subseteq Pc
  /\ ServerPc \subseteq Pc
  /\ RefreshPc \subseteq Pc
BY DEF Pc, ServerPc, RefreshPc

LEMMA RequestChanged ==
  ASSUME NEW A, NEW r \in Request(A), NEW pc \in Pc, NEW k \in A, NEW m \in A
  PROVE  /\ [r EXCEPT !.pc = pc, !.tok = k] \in Request(A)
         /\ [r EXCEPT !.pc = pc, !.auth = k] \in Request(A)
         /\ [r EXCEPT !.pc = pc, !.auth = k, !.tok = m] \in Request(A)
<1>1. [r EXCEPT !.pc = pc, !.tok = k] \in Request(A)
  BY DEF Request
<1>2. [r EXCEPT !.pc = pc, !.auth = k] \in Request(A)
  BY DEF Request
<1>3. [r EXCEPT !.pc = pc, !.auth = k, !.tok = m] \in Request(A)
  BY DEF Request
<1> QED BY <1>1, <1>2, <1>3

LEMMA BlankIsRequest ==
  ASSUME NEW n \in Nat
  PROVE  Blank \in Request(0..n)
BY DEF Blank, Request, Pc

-----------------------------------------------------------------------------

LEMMA ServerTypesInit == Init => ServerTypes
<1> SUFFICES ASSUME Init PROVE ServerTypes
  OBVIOUS
<1>1. rows \in [User -> Nat] /\ exchanged \in [Token -> Nat]
  BY DEF Init
<1>2. owner \in [Token -> User \cup {None}]
  BY DEF Init
<1>3. row \in [Token -> {"absent", "live", "revoked", "expired"}]
  BY DEF Init
<1>4. issued \in 0..MaxIssued /\ expired \in 0..issued
  BY SessionAssumption DEF Init
<1> QED BY <1>1, <1>2, <1>3, <1>4 DEF Init, ServerTypes

\* Starts of requests, and steps of the browser, leave the server alone.
LEMMA ServerTypesStep == Types /\ [Next]_vars => ServerTypes'
<1> SUFFICES ASSUME Types, [Next]_vars PROVE ServerTypes'
  OBVIOUS
<1> USE DEF server
<1>1. ASSUME NEW s \in Slot, Browse(s) \/ SignIn(s) \/ SignOut(s) PROVE ServerTypes'
  BY <1>1 DEF Browse, SignIn, SignOut, history, Types, ServerTypes
<1>2. ASSUME NEW s \in Slot, ServerStep(s) PROVE ServerTypes'
  <2>1. CASE Serve(s) \/ CheckLogin(s) \/ CheckRegister(s)
    BY <2>1 DEF Serve, CheckLogin, CheckRegister, history, Types, ServerTypes
  <2>2. CASE Create(s)
    <3>1. rows' \in [User -> Nat]
      BY <2>2 DEF Create, Types, ServerTypes
    <3> QED BY <2>2, <3>1 DEF Create, history, Types, ServerTypes
  <2>3. CASE Save(s)
    <3>1. issued' = issued + 1 /\ issued' \in Token /\ issued' \in 0..MaxIssued /\ expired' \in 0..issued'
      BY <2>3, SessionAssumption DEF Save, Build, Types, ServerTypes, Token
    <3>2. call[s].who \in User
      <4>1. call[s] \in Request(0..issued) /\ Shaped(s)
        BY DEF Types, CallTypes
      <4> QED BY <4>1, <2>3 DEF Save, Shaped, Request, Signing
    <3>3. owner' \in [Token -> User \cup {None}]
      BY <2>3, <3>2 DEF Save, Build, Types, ServerTypes
    <3>4. row' \in [Token -> {"absent", "live", "revoked", "expired"}]
      BY <2>3 DEF Save, Types, ServerTypes
    <3> QED BY <2>3, <3>1, <3>3, <3>4 DEF Save, history, Types, ServerTypes
  <2>4. CASE Revoke(s)
    <3>1. row' \in [Token -> {"absent", "live", "revoked", "expired"}]
      BY <2>4 DEF Revoke, Revoked, Types, ServerTypes
    <3> QED BY <2>4, <3>1 DEF Revoke, history, Types, ServerTypes
  <2>5. CASE Validate(s)
    BY <2>5 DEF Validate, history, Types, ServerTypes
  <2>6. CASE Rotate(s)
    <3>1. row' \in [Token -> {"absent", "live", "revoked", "expired"}]
      BY <2>6 DEF Rotate, Revoked, Types, ServerTypes
    <3> QED BY <2>6, <3>1 DEF Rotate, history, Types, ServerTypes
  <2>7. CASE Issue(s)
    <3>1. CASE owner[call[s].tok] \in active
      <4>1. issued' = issued + 1 /\ issued' \in 0..MaxIssued /\ expired' \in 0..issued'
        BY <2>7, <3>1, SessionAssumption DEF Issue, Build, Types, ServerTypes
      <4>2. owner' \in [Token -> User \cup {None}]
        BY <2>7, <3>1 DEF Issue, Build, Types, ServerTypes
      <4>3. exchanged' \in [Token -> Nat]
        BY <2>7, <3>1 DEF Issue, Types, ServerTypes
      <4> QED BY <2>7, <4>1, <4>2, <4>3 DEF Issue, Types, ServerTypes
    <3>2. CASE owner[call[s].tok] \notin active
      BY <2>7, <3>2 DEF Issue, Types, ServerTypes
    <3> QED BY <3>1, <3>2
  <2> QED BY <1>2, <2>1, <2>2, <2>3, <2>4, <2>5, <2>6, <2>7 DEF ServerStep
<1>3. ASSUME NEW s \in Slot, Receive(s) PROVE ServerTypes'
  <2>1. CASE Succeed(s)
    <3>1. UNCHANGED <<server, exchanged>>
      BY <2>1 DEF Succeed
    <3>2. ended' \subseteq Token
      <4>1. call[s] \in Request(0..issued) /\ Shaped(s)
        BY DEF Types, CallTypes
      <4>2. ls.refresh \in 0..issued /\ issued <= MaxIssued /\ MaxIssued \in Nat /\ issued \in Nat
        BY SessionAssumption DEF Types, BrowserTypes, ServerTypes
      <4>3. call[s].kind = "logout" => call[s].rt \in Token
        BY <4>1, <4>2 DEF Shaped, Request, Token
      <4>4. ls.refresh # 0 => ls.refresh \in Token
        BY <4>2 DEF Token
      <4> QED BY <2>1, <4>3, <4>4 DEF Succeed, Types, ServerTypes
    <3> QED BY <3>1, <3>2 DEF Types, ServerTypes
  <2>2. CASE Fail(s)
    BY <2>2 DEF Fail, Types, ServerTypes
  <2>3. CASE Unauthorized(s)
    BY <2>3 DEF Unauthorized, Types, ServerTypes
  <2>4. CASE Refreshed(s)
    BY <2>4 DEF Refreshed, Types, ServerTypes
  <2>5. CASE Refused(s)
    BY <2>5 DEF Refused, Types, ServerTypes
  <2>6. CASE Ignore(s)
    BY <2>6 DEF Ignore, history, Types, ServerTypes
  <2> QED BY <1>3, <2>1, <2>2, <2>3, <2>4, <2>5, <2>6 DEF Receive
<1>4. ASSUME NEW t \in Tab, Mount(t) \/ SignOutLocally(t) PROVE ServerTypes'
  BY <1>4 DEF Mount, SignOutLocally, history, Types, ServerTypes
<1>5. CASE Environment
  <2>1. CASE ExpireAccess
    BY <2>1 DEF ExpireAccess, history, Types, ServerTypes
  <2>2. ASSUME NEW n \in Token, ExpireRefresh(n) PROVE ServerTypes'
    <3>1. row' \in [Token -> {"absent", "live", "revoked", "expired"}]
      BY <2>2 DEF ExpireRefresh, Types, ServerTypes
    <3> QED BY <2>2, <3>1 DEF ExpireRefresh, history, Types, ServerTypes
  <2>3. ASSUME NEW s \in Slot, Lose(s) PROVE ServerTypes'
    BY <2>3 DEF Lose, history, Types, ServerTypes
  <2>4. ASSUME NEW t \in Tab, Reload(t) PROVE ServerTypes'
    BY <2>4 DEF Reload, Types, ServerTypes
  <2>5. ASSUME NEW u \in User, Deactivate(u) PROVE ServerTypes'
    BY <2>5 DEF Deactivate, history, Types, ServerTypes
  <2> QED BY <1>5, <2>1, <2>2, <2>3, <2>4, <2>5 DEF Environment
<1>6. CASE UNCHANGED vars
  BY <1>6 DEF vars, history, Types, ServerTypes
<1> QED BY <1>1, <1>2, <1>3, <1>4, <1>5, <1>6 DEF Next

-----------------------------------------------------------------------------
(* The requests.                                                            *)

LEMMA CallTypesInit == Init => CallTypes
<1> SUFFICES ASSUME Init PROVE CallTypes
  OBVIOUS
<1>1. issued = 0 /\ Blank \in Request(0..0) /\ call = [s \in Slot |-> Blank]
  BY BlankIsRequest DEF Init
<1>2. call \in [Slot -> Request(0..issued)]
  BY <1>1
<1>3. ASSUME NEW s \in Slot PROVE Shaped(s)
  <2>1. call[s] = Blank
    BY <1>1
  <2> QED BY <2>1, SessionAssumption DEF Shaped, Blank, Signing, Kind
<1> QED BY <1>2, <1>3 DEF CallTypes

\* What a step of one request has to show for it.
LEMMA OneCallChanges ==
  ASSUME Types, NEW s \in Slot, NEW STATE c, c \in Request(0..issued'),
         call' = [call EXCEPT ![s] = c],
         issued' \in Nat, issued <= issued',
         \A n \in 1..issued : owner'[n] = owner[n],
         Shaped(s)'
  PROVE  CallTypes'
<1>1. issued \in Nat /\ call \in [Slot -> Request(0..issued)]
  BY SessionAssumption DEF Types, ServerTypes, CallTypes
<1>2. call \in [Slot -> Request(0..issued')]
  BY <1>1, RequestGrows
<1>3. call' \in [Slot -> Request(0..issued')]
  BY <1>2
<1>4. ASSUME NEW x \in Slot PROVE Shaped(x)'
  <2>1. CASE x = s
    BY <2>1
  <2>2. CASE x # s
    <3>1. call'[x] = call[x] /\ Shaped(x) /\ call[x] \in Request(0..issued)
      BY <1>1, <2>2 DEF Types, CallTypes
    <3>2. call[x].tok # 0 => owner'[call[x].tok] = owner[call[x].tok]
      BY <1>1, <3>1 DEF Request
    <3> QED BY <3>1, <3>2 DEF Shaped
  <2> QED BY <2>1, <2>2
<1> QED BY <1>3, <1>4 DEF CallTypes

\* Requests that do not step keep their shape, the ones that become idle too.
LEMMA CallsKept ==
  ASSUME Types, UNCHANGED <<issued, owner>>,
         call' \in [Slot -> Request(0..issued)],
         \A s \in Slot : call'[s] \in {call[s], Blank}
  PROVE  CallTypes'
<1>1. ASSUME NEW s \in Slot PROVE Shaped(s)'
  <2>1. CASE call'[s] = call[s]
    BY <2>1 DEF Types, CallTypes, Shaped
  <2>2. CASE call'[s] = Blank
    BY <2>2, SessionAssumption DEF Shaped, Blank, Signing, Kind
  <2> QED BY <2>1, <2>2
<1> QED BY <1>1 DEF CallTypes

LEMMA SendTypes ==
  ASSUME Types, NEW s \in Slot, NEW kind \in Kind, NEW who \in User \cup {None},
         NEW STATE rt, rt \in 0..issued,
         kind \in Signing => who # None, kind = "logout" => rt # 0,
         Send(s, kind, who, rt), UNCHANGED server
  PROVE  CallTypes'
<1> DEFINE c == [pc |-> "sent", kind |-> kind, who |-> who,
                 auth |-> IF kind \in {"login", "register"} THEN 0 ELSE ls.access,
                 rt |-> rt, tok |-> 0]
<1>1. issued \in Nat /\ issued' = issued /\ owner' = owner
  BY SessionAssumption DEF Types, ServerTypes, server
<1>2. c \in Request(0..issued')
  BY <1>1 DEF Request, Pc, ServerPc, Types, BrowserTypes
<1>3. call' = [call EXCEPT ![s] = c]
  BY DEF Send
<1>4. call'[s] = c
  BY <1>3 DEF Types, CallTypes
<1>5. Shaped(s)'
  BY <1>4 DEF Shaped, Signing
<1>6. issued' \in Nat /\ issued <= issued' /\ \A n \in 1..issued : owner'[n] = owner[n]
  BY <1>1
<1> HIDE DEF c
<1> QED BY <1>2, <1>3, <1>5, <1>6, OneCallChanges

\* A request moves on and keeps its data.
LEMMA GotoTypes ==
  ASSUME Types, NEW s \in Slot, NEW pc \in Pc, Goto(s, pc),
         issued' = issued, owner' = owner,
         pc \in {"validate", "rotate", "issue", "refreshed"} => call[s].tok # 0,
         pc \in {"create", "save"} => call[s].kind \in Signing,
         pc = "revoke" => call[s].kind = "logout",
         pc = "ok" => /\ call[s].kind \notin Signing
                      /\ call[s].kind = "me" => call[s].auth # 0
  PROVE  CallTypes'
<1> DEFINE c == [call[s] EXCEPT !.pc = pc]
<1>1. issued \in Nat /\ call[s] \in Request(0..issued) /\ Shaped(s)
  BY SessionAssumption DEF Types, ServerTypes, CallTypes
<1>2. c \in Request(0..issued')
  BY <1>1 DEF Request
<1>3. call' = [call EXCEPT ![s] = c]
  BY DEF Goto
<1>4. call'[s] = c
  BY <1>3 DEF Types, CallTypes
<1>5. Shaped(s)'
  BY <1>1, <1>4 DEF Shaped, Request
<1>6. issued' \in Nat /\ issued <= issued' /\ \A n \in 1..issued : owner'[n] = owner[n]
  BY <1>1
<1> HIDE DEF c
<1> QED BY <1>2, <1>3, <1>5, <1>6, OneCallChanges

LEMMA StartCallTypes ==
  ASSUME Types, NEW s \in Slot, Browse(s) \/ SignIn(s) \/ SignOut(s)
  PROVE  CallTypes'
<1>1. issued \in Nat /\ ls.refresh \in 0..issued
  BY SessionAssumption DEF Types, ServerTypes, BrowserTypes
<1>2. CASE Browse(s)
  <2>1. "page" \in Kind /\ "page" \notin Signing /\ 0 \in 0..issued
    BY <1>1 DEF Kind, Signing
  <2> QED BY <1>2, <2>1, SendTypes DEF Browse
<1>3. CASE SignIn(s)
  <2>1. PICK kind \in {"login", "register"}, u \in User : Send(s, kind, u, 0)
    BY <1>3 DEF SignIn
  <2>2. kind \in Kind /\ u # None /\ 0 \in 0..issued /\ kind # "logout"
    BY <1>1, SessionAssumption DEF Kind
  <2> QED BY <1>3, <2>1, <2>2, SendTypes DEF SignIn
<1>4. CASE SignOut(s)
  <2>1. "logout" \in Kind /\ "logout" \notin Signing
    BY DEF Kind, Signing
  <2> QED BY <1>1, <1>4, <2>1, SendTypes DEF SignOut
<1> QED BY <1>2, <1>3, <1>4

LEMMA ServerCallTypes ==
  ASSUME Types, NEW s \in Slot, ServerStep(s)
  PROVE  CallTypes'
<1>1. /\ issued \in Nat /\ expired \in Nat /\ MaxIssued \in Nat /\ issued <= MaxIssued
      /\ call[s] \in Request(0..issued) /\ Shaped(s)
  BY SessionAssumption DEF Types, ServerTypes, CallTypes
<1> USE PcFacts DEF ServerPc, RefreshPc
<1>2. CASE Serve(s)
  <2>0. UNCHANGED <<issued, owner>> /\ call[s].kind \notin Signing
    BY <1>2 DEF Serve, server, Signing
  <2>1. CASE Admits(call[s].auth) /\ call[s].kind = "logout"
    <3>1. Goto(s, "revoke") /\ "revoke" \in Pc
      BY <1>2, <2>1 DEF Serve
    <3> QED BY <2>0, <2>1, <3>1, GotoTypes
  <2>2. CASE Admits(call[s].auth) /\ call[s].kind # "logout"
    <3>1. Goto(s, "ok") /\ "ok" \in Pc /\ call[s].auth # 0
      BY <1>1, <1>2, <2>2 DEF Serve, Admits
    <3> QED BY <2>0, <3>1, GotoTypes
  <2>3. CASE ~Admits(call[s].auth)
    <3> DEFINE c == [call[s] EXCEPT !.pc = "unauthorized", !.auth = 0]
    <3>1. c \in Request(0..issued')
      <4>1. "unauthorized" \in Pc /\ 0 \in 0..issued /\ issued' = issued
        BY <1>1, <2>0
      <4> QED BY <1>1, <4>1, RequestChanged, Zenon
    <3>2. call' = [call EXCEPT ![s] = c]
      BY <1>2, <2>3 DEF Serve
    <3>3. Shaped(s)'
      BY <1>1, <3>2 DEF Shaped, Request, Types, CallTypes
    <3>4. issued' \in Nat /\ issued <= issued' /\ \A n \in 1..issued : owner'[n] = owner[n]
      BY <1>1, <2>0
    <3> HIDE DEF c
    <3> QED BY <3>1, <3>2, <3>3, <3>4, OneCallChanges
  <2> QED BY <2>1, <2>2, <2>3
<1>3. CASE CheckLogin(s)
  <2>1. PICK pc \in {"save", "unauthorized"} : Goto(s, pc)
    BY <1>3 DEF CheckLogin
  <2>2. pc \in Pc /\ call[s].kind \in Signing /\ UNCHANGED <<issued, owner>>
    BY <1>3 DEF CheckLogin, server, Signing
  <2> QED BY <2>1, <2>2, GotoTypes
<1>4. CASE CheckRegister(s)
  <2>1. PICK pc \in {"create", "failed"} : Goto(s, pc)
    BY <1>4 DEF CheckRegister
  <2>2. pc \in Pc /\ call[s].kind \in Signing /\ UNCHANGED <<issued, owner>>
    BY <1>4 DEF CheckRegister, server, Signing
  <2> QED BY <2>1, <2>2, GotoTypes
<1>5. CASE Create(s)
  <2>1. PICK pc \in {"save", "failed"} : Goto(s, pc)
    BY <1>5 DEF Create
  <2>2. pc \in Pc /\ call[s].kind \in Signing /\ UNCHANGED <<issued, owner>>
    BY <1>1, <1>5 DEF Create, Shaped
  <2> QED BY <2>1, <2>2, GotoTypes
<1>6. CASE Save(s)
  <2> DEFINE c == [call[s] EXCEPT !.pc = "ok", !.tok = issued + 1]
  <2>1. issued' = issued + 1 /\ issued' \in Token /\ call[s].kind \in Signing
    BY <1>1, <1>6 DEF Save, Build, Shaped, Token
  <2>2. c \in Request(0..issued')
    <3>1. call[s] \in Request(0..issued')
      BY <1>1, <2>1, RequestGrows
    <3>2. "ok" \in Pc /\ issued + 1 \in 0..issued'
      BY <1>1, <2>1
    <3> QED BY <3>1, <3>2, RequestChanged, Zenon
  <2>3. call' = [call EXCEPT ![s] = c]
    BY <1>6, <2>1 DEF Save, Build
  <2>4. owner'[issued'] = call[s].who
    BY <1>6, <2>1 DEF Save, Build, Types, ServerTypes
  <2>5. call'[s] = c
    BY <2>3 DEF Types, CallTypes
  <2>6. Shaped(s)'
    BY <1>1, <2>1, <2>4, <2>5 DEF Shaped, Request, Signing
  <2>7. issued' \in Nat /\ issued <= issued' /\ \A n \in 1..issued : owner'[n] = owner[n]
    BY <1>1, <1>6, <2>1 DEF Save, Build, Types, ServerTypes
  <2> HIDE DEF c
  <2> QED BY <2>2, <2>3, <2>6, <2>7, OneCallChanges
<1>7. CASE Revoke(s)
  <2>1. Goto(s, "ok") /\ UNCHANGED <<issued, owner>>
    BY <1>7 DEF Revoke
  <2>2. "ok" \in Pc /\ call[s].kind \notin Signing /\ call[s].kind # "me"
    BY <1>1, <1>7 DEF Revoke, Shaped, Signing
  <2> QED BY <1>7, <2>1, <2>2, GotoTypes
<1>8. CASE Validate(s)
  <2>1. PICK pc \in {"rotate", "refused"} : Goto(s, pc)
    BY <1>8 DEF Validate
  <2>2. pc \in Pc /\ call[s].tok # 0 /\ UNCHANGED <<issued, owner>>
    BY <1>1, <1>8 DEF Validate, Shaped, server
  <2> QED BY <2>1, <2>2, GotoTypes
<1>9. CASE Rotate(s)
  <2>1. Goto(s, "issue") /\ "issue" \in Pc /\ call[s].tok # 0 /\ UNCHANGED <<issued, owner>>
    BY <1>1, <1>9 DEF Rotate, Shaped
  <2> QED BY <2>1, GotoTypes
<1>10. CASE Issue(s)
  <2>1. CASE owner[call[s].tok] \in active
    <3> DEFINE c == [call[s] EXCEPT !.pc = "refreshed", !.tok = issued + 1]
    <3>1. issued' = issued + 1 /\ issued' \in Token
      BY <1>1, <1>10, <2>1 DEF Issue, Build, Token
    <3>2. c \in Request(0..issued')
      <4>1. call[s] \in Request(0..issued')
        BY <1>1, <3>1, RequestGrows
      <4>2. "refreshed" \in Pc /\ issued + 1 \in 0..issued'
        BY <1>1, <3>1
      <4> QED BY <4>1, <4>2, RequestChanged, Zenon
    <3>3. call' = [call EXCEPT ![s] = c]
      BY <1>10, <2>1, <3>1 DEF Issue, Build
    <3>4. call'[s] = c
      BY <3>3 DEF Types, CallTypes
    <3>5. Shaped(s)'
      BY <1>1, <3>1, <3>4 DEF Shaped, Request
    <3>6. issued' \in Nat /\ issued <= issued' /\ \A n \in 1..issued : owner'[n] = owner[n]
      <4>1. owner' = [owner EXCEPT ![issued'] = owner[call[s].tok]]
        BY <1>10, <2>1 DEF Issue, Build
      <4>2. \A n \in 1..issued : n \in Token /\ n # issued'
        BY <1>1, <3>1 DEF Token
      <4> QED BY <1>1, <3>1, <4>1, <4>2 DEF Types, ServerTypes
    <3> HIDE DEF c
    <3> QED BY <3>2, <3>3, <3>5, <3>6, OneCallChanges
  <2>2. CASE owner[call[s].tok] \notin active
    <3>1. Goto(s, "refused") /\ "refused" \in Pc /\ UNCHANGED <<issued, owner>>
      BY <1>10, <2>2 DEF Issue
    <3> QED BY <3>1, GotoTypes
  <2> QED BY <2>1, <2>2
<1> QED BY <1>2, <1>3, <1>4, <1>5, <1>6, <1>7, <1>8, <1>9, <1>10 DEF ServerStep

LEMMA FinishTypes ==
  ASSUME Types, NEW s \in Slot, Finish(s), UNCHANGED <<issued, owner>>
  PROVE  CallTypes'
<1>1. call' \in [Slot -> Request(0..issued)]
  <2>1. issued \in Nat /\ Blank \in Request(0..issued)
    BY SessionAssumption, BlankIsRequest DEF Types, ServerTypes
  <2> QED BY <2>1 DEF Finish, Types, CallTypes
<1>2. \A x \in Slot : call'[x] \in {call[x], Blank}
  BY DEF Finish, Types, CallTypes
<1> QED BY <1>1, <1>2, CallsKept

LEMMA LeaveTypes ==
  ASSUME Types, NEW t \in Tab, Leave(t), UNCHANGED <<issued, owner>>
  PROVE  CallTypes'
<1>1. call' \in [Slot -> Request(0..issued)]
  <2>1. issued \in Nat /\ Blank \in Request(0..issued)
    BY SessionAssumption, BlankIsRequest DEF Types, ServerTypes
  <2> QED BY <2>1 DEF Leave, Types, CallTypes
<1>2. \A x \in Slot : call'[x] \in {call[x], Blank}
  BY DEF Leave, Types, CallTypes
<1> QED BY <1>1, <1>2, CallsKept

LEMMA ReceiveCallTypes ==
  ASSUME Types, NEW s \in Slot, Receive(s)
  PROVE  CallTypes'
<1>1. /\ issued \in Nat /\ call \in [Slot -> Request(0..issued)]
      /\ call[s] \in Request(0..issued) /\ Shaped(s)
      /\ ls.refresh \in 0..issued /\ TabOf[s] \in Tab
  BY SessionAssumption DEF Types, ServerTypes, BrowserTypes, CallTypes
<1>2. CASE Succeed(s) \/ Fail(s) \/ Ignore(s)
  BY <1>2, FinishTypes DEF Succeed, Fail, Ignore, server
<1>3. CASE Unauthorized(s)
  <2>0. UNCHANGED <<issued, owner>>
    BY <1>3 DEF Unauthorized, server
  <2>1. CASE ls.refresh = 0
    BY <1>1, <1>3, <2>0, <2>1, LeaveTypes DEF Unauthorized, ToLogin
  <2>2. CASE ls.refresh # 0 /\ refreshing[TabOf[s]] # None
    <3>1. Goto(s, "waiting") /\ "waiting" \in Pc
      BY <1>3, <2>2, PcFacts DEF Unauthorized
    <3> QED BY <2>0, <3>1, GotoTypes
  <2>3. CASE ls.refresh # 0 /\ refreshing[TabOf[s]] = None
    <3> DEFINE c == [call[s] EXCEPT !.pc = "validate", !.tok = ls.refresh]
    <3>1. c \in Request(0..issued')
      <4>1. "validate" \in Pc /\ issued' = issued
        BY <2>0 DEF Pc, ServerPc
      <4> QED BY <1>1, <4>1, RequestChanged, Zenon
    <3>2. call' = [call EXCEPT ![s] = c]
      BY <1>3, <2>3 DEF Unauthorized
    <3>3. Shaped(s)'
      BY <1>1, <2>3, <3>2 DEF Shaped, Request
    <3>4. issued' \in Nat /\ issued <= issued' /\ \A n \in 1..issued : owner'[n] = owner[n]
      BY <1>1, <2>0
    <3> HIDE DEF c
    <3> QED BY <3>1, <3>2, <3>3, <3>4, OneCallChanges
  <2> QED BY <2>1, <2>2, <2>3
<1>4. CASE Refreshed(s)
  <2> DEFINE again == {s} \cup {x \in SlotsOf(TabOf[s]) : call[x].pc = "waiting"}
  <2>1. call' = [x \in Slot |-> IF x \in again
                   THEN [call[x] EXCEPT !.pc = "sent", !.auth = call[s].tok, !.tok = 0]
                   ELSE call[x]]
    BY <1>4 DEF Refreshed
  <2>2. UNCHANGED <<issued, owner>>
    BY <1>4 DEF Refreshed, server
  <2>3. "sent" \in Pc /\ 0 \in 0..issued /\ call[s].tok \in 0..issued
    BY <1>1 DEF Pc, ServerPc, Request
  <2> HIDE DEF again
  <2>4. ASSUME NEW x \in Slot PROVE call'[x] \in Request(0..issued)
    <3>1. call[x] \in Request(0..issued)
      BY <1>1
    <3>2. [call[x] EXCEPT !.pc = "sent", !.auth = call[s].tok, !.tok = 0] \in Request(0..issued)
      BY <2>3, <3>1, RequestChanged, Zenon
    <3> QED BY <2>1, <3>1, <3>2
  <2>5. call' \in [Slot -> Request(0..issued')]
    BY <2>1, <2>2, <2>4
  <2>6. ASSUME NEW x \in Slot PROVE Shaped(x)'
    <3>1. call[x] \in Request(0..issued) /\ Shaped(x)
      BY <1>1 DEF Types, CallTypes
    <3>2. CASE x \in again
      <4>1. /\ call'[x].pc = "sent" /\ call'[x].kind = call[x].kind
            /\ call'[x].rt = call[x].rt /\ call'[x].who = call[x].who
        BY <2>1, <3>1, <3>2 DEF Request
      <4> QED BY <3>1, <4>1 DEF Shaped
    <3>3. CASE x \notin again
      <4>1. call'[x] = call[x]
        BY <2>1, <3>3
      <4> QED BY <2>2, <3>1, <4>1 DEF Shaped
    <3> QED BY <3>2, <3>3
  <2> QED BY <2>5, <2>6 DEF CallTypes
<1>5. CASE Refused(s)
  BY <1>1, <1>5, LeaveTypes DEF Refused, ToLogin, server
<1> QED BY <1>2, <1>3, <1>4, <1>5 DEF Receive

LEMMA CallTypesStep == Types /\ [Next]_vars => CallTypes'
<1> SUFFICES ASSUME Types, [Next]_vars PROVE CallTypes'
  OBVIOUS
<1>1. ASSUME NEW s \in Slot, Browse(s) \/ SignIn(s) \/ SignOut(s) PROVE CallTypes'
  BY <1>1, StartCallTypes
<1>2. ASSUME NEW s \in Slot, ServerStep(s) PROVE CallTypes'
  BY <1>2, ServerCallTypes
<1>3. ASSUME NEW s \in Slot, Receive(s) PROVE CallTypes'
  BY <1>3, ReceiveCallTypes
<1>4. ASSUME NEW t \in Tab, Mount(t) PROVE CallTypes'
  <2>0. UNCHANGED server
    BY <1>4 DEF Mount
  <2>1. CASE ls.access = 0
    BY <1>4, <2>0, <2>1 DEF Mount, server, Types, CallTypes, Shaped
  <2>2. CASE ls.access # 0
    <3>1. PICK s \in Slot : Send(s, "me", None, 0)
      BY <1>4, <2>2 DEF Mount, SlotsOf
    <3>2. "me" \in Kind /\ "me" \notin Signing /\ 0 \in 0..issued
      BY SessionAssumption DEF Kind, Signing, Types, ServerTypes
    <3> QED BY <2>0, <3>1, <3>2, SendTypes
  <2> QED BY <2>1, <2>2
<1>5. ASSUME NEW t \in Tab, SignOutLocally(t) PROVE CallTypes'
  BY <1>5 DEF SignOutLocally, server, Types, CallTypes, Shaped
<1>6. CASE ExpireAccess \/ (\E n \in Token : ExpireRefresh(n)) \/ (\E u \in User : Deactivate(u))
  BY <1>6 DEF ExpireAccess, ExpireRefresh, Deactivate, Types, CallTypes, Shaped
<1>7. ASSUME NEW s \in Slot, Lose(s) PROVE CallTypes'
  <2>1. UNCHANGED <<issued, owner>>
    BY <1>7 DEF Lose, server
  <2>2. CASE call[s].pc \in RefreshPc
    <3>1. Goto(s, "refused") /\ "refused" \in Pc
      BY <1>7, <2>2, PcFacts DEF Lose
    <3> QED BY <2>1, <3>1, GotoTypes
  <2>3. CASE call[s].pc \notin RefreshPc
    <3>1. Goto(s, "failed") /\ "failed" \in Pc
      BY <1>7, <2>3, PcFacts DEF Lose
    <3> QED BY <2>1, <3>1, GotoTypes
  <2> QED BY <2>2, <2>3
<1>8. ASSUME NEW t \in Tab, Reload(t) PROVE CallTypes'
  BY <1>8, LeaveTypes DEF Reload, server
<1>9. CASE UNCHANGED vars
  BY <1>9 DEF vars, server, Types, CallTypes, Shaped
<1> QED BY <1>1, <1>2, <1>3, <1>4, <1>5, <1>6, <1>7, <1>8, <1>9 DEF Next, Environment

-----------------------------------------------------------------------------
(* The browser.                                                             *)

LEMMA BrowserTypesInit == Init => BrowserTypes
<1> SUFFICES ASSUME Init PROVE BrowserTypes
  OBVIOUS
<1>1. ls \in [access : 0..issued, refresh : 0..issued, user : User \cup {None}]
  BY DEF Init, NoSession
<1>2. tab \in [Tab -> [phase : {"left", "checking", "open"}, user : User \cup {None}]]
  BY DEF Init
<1>3. refreshing \in [Tab -> Slot \cup {None}]
  BY DEF Init
<1> QED BY <1>1, <1>2, <1>3 DEF Init, BrowserTypes

\* What localStorage and a tab may hold.
Stored(n) == [access : 0..n, refresh : 0..n, user : User \cup {None}]
Shown     == [phase : {"left", "checking", "open"}, user : User \cup {None}]

LEMMA StoredGrows ==
  ASSUME NEW m \in Nat, NEW n \in Nat, m <= n
  PROVE  Stored(m) \subseteq Stored(n)
BY DEF Stored

LEMMA NoSessionIsStored ==
  ASSUME NEW n \in Nat
  PROVE  NoSession \in Stored(n)
BY DEF NoSession, Stored

\* A step that leaves the browser alone while the server may issue.
LEMMA BrowserKept ==
  ASSUME Types, UNCHANGED <<browser, mixed>>, issued' \in Nat, issued <= issued',
         retried' \subseteq Slot, gone' \subseteq Slot, old' \subseteq Slot,
         faults' \in Nat
  PROVE  BrowserTypes'
<1>1. issued \in Nat /\ ls' = ls /\ ls \in Stored(issued)
  BY SessionAssumption DEF browser, Types, ServerTypes, BrowserTypes, Stored
<1>2. ls' \in Stored(issued')
  BY <1>1, StoredGrows
<1> QED BY <1>2 DEF browser, Types, BrowserTypes, Stored

\* A page is left, and the session kept or cleared.
LEMMA LeavingTypes ==
  ASSUME Types, NEW t \in Tab, Leave(t), ls' \in {ls, NoSession}, issued' = issued,
         old' \subseteq Slot, mixed' \in {"no", "yes"}, faults' \in Nat
  PROVE  BrowserTypes'
<1>1. ls' \in Stored(issued')
  BY NoSessionIsStored, SessionAssumption DEF Types, ServerTypes, BrowserTypes, Stored
<1>2. tab' \in [Tab -> Shown]
  <2>1. [phase |-> "left", user |-> None] \in Shown
    BY DEF Shown
  <2> QED BY <2>1 DEF Leave, Types, BrowserTypes, Shown
<1>3. refreshing' \in [Tab -> Slot \cup {None}]
  BY DEF Leave, Types, BrowserTypes
<1>4. retried' \subseteq Slot /\ gone' \subseteq Slot
  BY DEF Leave, SlotsOf, Types, BrowserTypes
<1> QED BY <1>1, <1>2, <1>3, <1>4 DEF BrowserTypes, Stored, Shown

LEMMA ToLoginTypes ==
  ASSUME Types, NEW t \in Tab, ToLogin(t), issued' = issued, faults' = faults
  PROVE  BrowserTypes'
<1>1. /\ Leave(t) /\ ls' \in {ls, NoSession} /\ old' \subseteq Slot
      /\ mixed' \in {"no", "yes"} /\ faults' \in Nat
  BY DEF ToLogin, Clear, InFlight, Types, BrowserTypes
<1> QED BY <1>1, LeavingTypes

LEMMA ReceiveBrowserTypes ==
  ASSUME Types, NEW s \in Slot, Receive(s)
  PROVE  BrowserTypes'
<1>1. /\ issued \in Nat /\ MaxIssued \in Nat /\ issued <= MaxIssued
      /\ call[s] \in Request(0..issued) /\ Shaped(s)
      /\ ls \in Stored(issued) /\ tab \in [Tab -> Shown] /\ TabOf[s] \in Tab
      /\ owner \in [Token -> User \cup {None}]
  BY SessionAssumption DEF Types, ServerTypes, BrowserTypes, CallTypes, Stored, Shown
<1>2. CASE Succeed(s)
  <2>1. /\ issued' = issued /\ refreshing' = refreshing /\ gone' = gone
        /\ faults' = faults /\ retried' = retried \ {s}
    BY <1>2 DEF Succeed, Finish, server
  <2>2. old' \subseteq Slot /\ mixed' \in {"no", "yes"}
    BY <1>2 DEF Succeed, InFlight, Types, BrowserTypes
  <2>3. ls' \in Stored(issued) /\ tab' \in [Tab -> Shown]
    <3>1. CASE call[s].kind = "page"
      BY <1>1, <1>2, <3>1 DEF Succeed
    <3>2. CASE call[s].kind = "me"
      <4>1. call[s].auth \in Token
        BY <1>1, <1>2, <3>2 DEF Succeed, Shaped, Request, Signing, Token
      <4>2. owner[call[s].auth] \in User \cup {None}
        BY <1>1, <4>1
      <4>3. ls' = [ls EXCEPT !.user = owner[call[s].auth]]
            /\ tab' = [tab EXCEPT ![TabOf[s]] = [phase |-> "open", user |-> owner[call[s].auth]]]
        BY <1>2, <3>2 DEF Succeed
      <4>4. [phase |-> "open", user |-> owner[call[s].auth]] \in Shown
        BY <4>2 DEF Shown
      <4> QED BY <1>1, <4>2, <4>3, <4>4 DEF Stored
    <3>3. CASE call[s].kind \in {"login", "register"}
      <4>1. call[s].tok \in 0..issued /\ call[s].who \in User \cup {None}
        BY <1>1 DEF Request
      <4>2. ls' = Persist(call[s].tok, call[s].who)
            /\ tab' = [tab EXCEPT ![TabOf[s]].user = call[s].who]
        BY <1>2, <3>3 DEF Succeed
      <4>3. [tab[TabOf[s]] EXCEPT !.user = call[s].who] \in Shown
        BY <1>1, <4>1 DEF Shown
      <4> QED BY <1>1, <4>1, <4>2, <4>3 DEF Persist, Stored
    <3>4. CASE call[s].kind = "logout"
      <4>1. ls' = NoSession /\ tab' = [tab EXCEPT ![TabOf[s]].user = None]
        BY <1>2, <3>4 DEF Succeed, Clear
      <4>2. [tab[TabOf[s]] EXCEPT !.user = None] \in Shown
        BY <1>1 DEF Shown
      <4> QED BY <1>1, <4>1, <4>2, NoSessionIsStored
    <3> QED BY <1>2, <3>1, <3>2, <3>3, <3>4 DEF Succeed
  <2> QED BY <2>1, <2>2, <2>3 DEF Types, BrowserTypes, Stored, Shown
<1>3. CASE Fail(s)
  <2>1. /\ issued' = issued /\ refreshing' = refreshing /\ gone' = gone
        /\ faults' = faults /\ retried' = retried \ {s}
    BY <1>3 DEF Fail, Finish, server
  <2>2. old' \subseteq Slot /\ mixed' \in {"no", "yes"}
    BY <1>3 DEF Fail, InFlight, Types, BrowserTypes
  <2>3. ls' \in Stored(issued) /\ tab' \in [Tab -> Shown]
    <3>1. CASE call[s].kind \in {"me", "logout"}
      <4>1. \E p \in {"left", "checking", "open"} :
              tab' = [tab EXCEPT ![TabOf[s]] = [phase |-> p, user |-> None]]
        <5>1. tab[TabOf[s]].phase \in {"left", "checking", "open"}
          BY <1>1 DEF Shown
        <5> QED BY <1>1, <1>3, <3>1, <5>1 DEF Fail
      <4>2. \A p \in {"left", "checking", "open"} : [phase |-> p, user |-> None] \in Shown
        BY DEF Shown
      <4>3. ls' = NoSession
        BY <1>3, <3>1 DEF Fail, Clear
      <4> QED BY <1>1, <4>1, <4>2, <4>3, NoSessionIsStored
    <3>2. CASE call[s].kind \notin {"me", "logout"}
      BY <1>1, <1>3, <3>2 DEF Fail
    <3> QED BY <3>1, <3>2
  <2> QED BY <2>1, <2>2, <2>3 DEF Types, BrowserTypes, Stored, Shown
<1>4. CASE Unauthorized(s)
  <2>0. issued' = issued /\ faults' = faults
    BY <1>4 DEF Unauthorized, server
  <2>1. CASE ls.refresh = 0
    BY <1>1, <1>4, <2>0, <2>1, ToLoginTypes DEF Unauthorized
  <2>2. CASE ls.refresh # 0 /\ refreshing[TabOf[s]] # None
    BY <1>1, <1>4, <2>0, <2>2, BrowserKept DEF Unauthorized, Types, BrowserTypes
  <2>3. CASE ls.refresh # 0 /\ refreshing[TabOf[s]] = None
    BY <1>4, <2>0, <2>3 DEF Unauthorized, Types, BrowserTypes
  <2> QED BY <2>1, <2>2, <2>3
<1>5. CASE Refreshed(s)
  <2>1. ls' \in Stored(issued)
    <3>1. call[s].tok \in 0..issued
      BY <1>1 DEF Request
    <3>2. ls' = [ls EXCEPT !.access = call[s].tok, !.refresh = call[s].tok]
      BY <1>5 DEF Refreshed
    <3> DEFINE A == 0..issued
    <3>3. ls \in [access : A, refresh : A, user : User \cup {None}] /\ call[s].tok \in A
      BY <1>1, <3>1 DEF Stored
    <3> HIDE DEF A
    <3>4. ls' \in [access : A, refresh : A, user : User \cup {None}]
      BY <3>2, <3>3
    <3> QED BY <3>4 DEF A, Stored
  <2>2. refreshing' \in [Tab -> Slot \cup {None}] /\ mixed' \in {"no", "yes"}
    BY <1>5 DEF Refreshed, Types, BrowserTypes
  <2> QED BY <1>5, <2>1, <2>2 DEF Refreshed, server, Types, BrowserTypes, Stored
<1>6. CASE Refused(s)
  BY <1>1, <1>6, ToLoginTypes DEF Refused, server
<1>7. CASE Ignore(s)
  BY <1>1, <1>7, BrowserKept DEF Ignore, Finish, server, history, Types, BrowserTypes
<1> QED BY <1>2, <1>3, <1>4, <1>5, <1>6, <1>7 DEF Receive

LEMMA BrowserTypesStep == Types /\ [Next]_vars => BrowserTypes'
<1> SUFFICES ASSUME Types, [Next]_vars PROVE BrowserTypes'
  OBVIOUS
<1>0. /\ issued \in Nat /\ faults \in Nat
      /\ retried \subseteq Slot /\ gone \subseteq Slot /\ old \subseteq Slot
  BY SessionAssumption DEF Types, ServerTypes, BrowserTypes
<1>1. ASSUME NEW s \in Slot, Browse(s) \/ SignIn(s) \/ SignOut(s) PROVE BrowserTypes'
  BY <1>0, <1>1, BrowserKept DEF Browse, SignIn, SignOut, server, history
<1>2. ASSUME NEW s \in Slot, ServerStep(s) PROVE BrowserTypes'
  <2>1. UNCHANGED <<browser, retried, gone, old, mixed, faults>>
    BY <1>2 DEF ServerStep, Serve, CheckLogin, CheckRegister, Create, Save, Revoke,
                Validate, Rotate, Issue, history
  <2>2. issued' = issued \/ issued' = issued + 1
    BY <1>2 DEF ServerStep, Serve, CheckLogin, CheckRegister, Create, Save, Revoke,
                Validate, Rotate, Issue, Build, server
  <2> QED BY <1>0, <2>1, <2>2, BrowserKept
<1>3. ASSUME NEW s \in Slot, Receive(s) PROVE BrowserTypes'
  BY <1>3, ReceiveBrowserTypes
<1>4. ASSUME NEW t \in Tab, Mount(t) PROVE BrowserTypes'
  <2>1. tab' \in [Tab -> Shown]
    <3>1. PICK p \in {"open", "checking"} :
            tab' = [tab EXCEPT ![t] = [phase |-> p, user |-> ls.user]]
      BY <1>4 DEF Mount
    <3>2. [phase |-> p, user |-> ls.user] \in Shown
      BY <1>0 DEF Shown, Types, BrowserTypes
    <3> QED BY <3>1, <3>2 DEF Types, BrowserTypes, Shown
  <2> QED BY <1>4, <2>1 DEF Mount, server, history, Types, BrowserTypes, Shown
<1>5. ASSUME NEW t \in Tab, SignOutLocally(t) PROVE BrowserTypes'
  <2>1. tab' \in [Tab -> Shown]
    <3>1. [tab[t] EXCEPT !.user = None] \in Shown
      BY DEF Shown, Types, BrowserTypes
    <3> QED BY <1>5, <3>1 DEF SignOutLocally, Types, BrowserTypes, Shown
  <2>2. ls' \in Stored(issued)
    BY <1>0, <1>5, NoSessionIsStored DEF SignOutLocally
  <2> QED BY <1>5, <2>1, <2>2
          DEF SignOutLocally, InFlight, server, Types, BrowserTypes, Shown, Stored
<1>6. CASE ExpireAccess \/ (\E n \in Token : ExpireRefresh(n)) \/ (\E u \in User : Deactivate(u))
  BY <1>0, <1>6, BrowserKept DEF ExpireAccess, ExpireRefresh, Deactivate, Fault, history
<1>7. ASSUME NEW s \in Slot, Lose(s) PROVE BrowserTypes'
  BY <1>0, <1>7, BrowserKept DEF Lose, Fault, server, history
<1>8. ASSUME NEW t \in Tab, Reload(t) PROVE BrowserTypes'
  BY <1>0, <1>8, LeavingTypes DEF Reload, Fault, server, Types, BrowserTypes
<1>9. CASE UNCHANGED vars
  BY <1>0, <1>9, BrowserKept DEF vars, server, history
<1> QED BY <1>1, <1>2, <1>3, <1>4, <1>5, <1>6, <1>7, <1>8, <1>9 DEF Next, Environment

LEMMA TypesInvariant == Spec => []Types
<1>1. Init => Types
  BY ServerTypesInit, BrowserTypesInit, CallTypesInit DEF Types
<1>2. Types /\ [Next]_vars => Types'
  BY ServerTypesStep, BrowserTypesStep, CallTypesStep DEF Types
<1> QED BY <1>1, <1>2, PTL DEF Spec

\* The tables, the tokens, the browser and the requests keep their types, for
\* any users, tabs and requests and however many tokens are issued.
THEOREM SessionTypes == Spec => []TypeOK
BY TypesInvariant, TypesAreTypeOK, PTL

-----------------------------------------------------------------------------
(* A token that has been exchanged is refused from then on.  The refresh    *)
(* that has revoked it and not answered yet is at "issue".                  *)

Exchanging(s) == call[s].pc \in {"rotate", "issue"}

TokenInv ==
  /\ \A n \in Token : n > issued => row[n] = "absent" /\ exchanged[n] = 0
  /\ \A s \in Slot : call[s].pc = "issue" => row[call[s].tok] # "live"
  /\ \A n \in Token : exchanged[n] > 0 => row[n] # "live"

\* The steps that put no request between validate and issue, and issue nothing.
LEMMA TokenFrame ==
  ASSUME Types, TokenInv, UNCHANGED <<issued, exchanged>>,
         row' \in [Token -> {"absent", "live", "revoked", "expired"}],
         \A n \in Token : row'[n] = row[n] \/ (row[n] # "absent" /\ row'[n] # "live"),
         \A s \in Slot : Exchanging(s)' =>
            /\ call'[s].tok = call[s].tok
            /\ Exchanging(s)
            /\ call'[s].pc = "issue" => call[s].pc = "issue"
  PROVE  TokenInv'
<1>1. ASSUME NEW s \in Slot, Exchanging(s)'
      PROVE  /\ call'[s].tok = call[s].tok /\ Exchanging(s)
             /\ call'[s].pc = "issue" => call[s].pc = "issue"
             /\ call[s].tok \in Token
  <2>1. call[s] \in Request(0..issued) /\ Shaped(s)
    BY DEF Types, CallTypes
  <2> QED BY <1>1, <2>1, SessionAssumption
          DEF Shaped, Exchanging, Request, Token, Types, ServerTypes
<1>2. \A n \in Token : (n > issued => row[n] = "absent" /\ exchanged[n] = 0)'
  BY DEF TokenInv
<1>3. \A s \in Slot : (call[s].pc = "issue" => row[call[s].tok] # "live")'
  BY <1>1 DEF TokenInv, Exchanging
<1>4. \A n \in Token : (exchanged[n] > 0 => row[n] # "live")'
  BY DEF TokenInv
<1> QED BY <1>2, <1>3, <1>4 DEF TokenInv

LEMMA ValidateTokens ==
  ASSUME Types, TokenInv, NEW s \in Slot, Validate(s)
  PROVE  TokenInv'
<1> DEFINE n == call[s].tok
<1>1. /\ n \in Token /\ UNCHANGED <<issued, row, exchanged>>
      /\ call \in [Slot -> Request(0..issued)]
  <2>1. call[s] \in Request(0..issued) /\ Shaped(s)
    BY DEF Types, CallTypes
  <2> QED BY <2>1, SessionAssumption
          DEF Validate, Shaped, Request, Token, Types, ServerTypes, CallTypes, server, history
<1>2. CASE row[n] = "live"
  <2>1. call' = [call EXCEPT ![s].pc = "rotate"]
    BY <1>2 DEF Validate, Goto
  <2>2. \A x \in Slot : call'[x].tok = call[x].tok /\ (x # s => call'[x] = call[x])
    BY <1>1, <2>1 DEF Request
  <2>3. call'[s].pc = "rotate"
    BY <1>1, <2>1 DEF Request
  <2>4. \A x \in Slot : (call[x].pc = "issue" => row[call[x].tok] # "live")'
    BY <1>1, <2>2, <2>3 DEF TokenInv
  <2> QED BY <1>1, <2>4 DEF TokenInv
<1>3. CASE row[n] # "live"
  <2>1. call' = [call EXCEPT ![s].pc = "refused"]
    BY <1>3 DEF Validate, Goto
  <2>2. \A x \in Slot : Exchanging(x)' => call'[x] = call[x] /\ Exchanging(x)
    BY <1>1, <2>1 DEF Exchanging, Request
  <2> QED BY <1>1, <2>1, <2>2, TokenFrame DEF Types, ServerTypes
<1> QED BY <1>2, <1>3

LEMMA RotateTokens ==
  ASSUME Types, TokenInv, NEW s \in Slot, Rotate(s)
  PROVE  TokenInv'
<1> DEFINE n == call[s].tok
<1>1. /\ n \in Token /\ UNCHANGED <<issued, exchanged>>
      /\ call \in [Slot -> Request(0..issued)] /\ Exchanging(s)
  <2>1. call[s] \in Request(0..issued) /\ Shaped(s)
    BY DEF Types, CallTypes
  <2> QED BY <2>1, SessionAssumption
          DEF Rotate, Shaped, Request, Token, Types, ServerTypes, CallTypes, history,
              Exchanging
<1>2. /\ \A k \in Token : row'[k] = row[k] \/ row'[k] # "live"
      /\ row'[n] # "live"
      /\ \A k \in Token : row[k] = "absent" => row'[k] = "absent"
  BY <1>1 DEF Rotate, Revoked, Types, ServerTypes
<1>3. call' = [call EXCEPT ![s].pc = "issue"]
  BY DEF Rotate, Goto
<1>4. \A x \in Slot : /\ call'[x].tok = call[x].tok
                      /\ x # s => call'[x] = call[x]
                      /\ Exchanging(x)' <=> Exchanging(x)
  BY <1>1, <1>3 DEF Request, Exchanging
<1>5. \A x \in Slot : Exchanging(x) => call[x].tok \in Token
  <2>1. \A x \in Slot : call[x] \in Request(0..issued) /\ Shaped(x)
    BY DEF Types, CallTypes
  <2> QED BY <2>1, SessionAssumption
          DEF Shaped, Request, Token, Types, ServerTypes, Exchanging
<1>6. \A k \in Token : (k > issued => row[k] = "absent" /\ exchanged[k] = 0)'
  BY <1>1, <1>2 DEF TokenInv
<1>7. \A x \in Slot : (call[x].pc = "issue" => row[call[x].tok] # "live")'
  <2> SUFFICES ASSUME NEW x \in Slot, (call[x].pc = "issue")'
               PROVE  (row[call[x].tok] # "live")'
    OBVIOUS
  <2>1. CASE x = s
    BY <1>2, <1>4, <2>1
  <2>2. CASE x # s
    BY <1>2, <1>4, <1>5, <2>2 DEF TokenInv, Exchanging
  <2> QED BY <2>1, <2>2
<1>8. \A k \in Token : (exchanged[k] > 0 => row[k] # "live")'
  BY <1>1, <1>2 DEF TokenInv
<1> QED BY <1>6, <1>7, <1>8 DEF TokenInv

LEMMA IssueTokens ==
  ASSUME Types, TokenInv, NEW s \in Slot, Issue(s)
  PROVE  TokenInv'
<1> DEFINE n == call[s].tok
<1>1. /\ n \in Token /\ n <= issued /\ UNCHANGED row
      /\ call \in [Slot -> Request(0..issued)] /\ Exchanging(s)
      /\ issued \in Nat /\ exchanged \in [Token -> Nat]
  <2>1. call[s] \in Request(0..issued) /\ Shaped(s)
    BY DEF Types, CallTypes
  <2> QED BY <2>1, SessionAssumption
          DEF Issue, Shaped, Request, Token, Types, ServerTypes, CallTypes, Exchanging
<1>2. CASE owner[n] \in active
  <2>1. /\ issued' = issued + 1
        /\ call' = [call EXCEPT ![s].pc = "refreshed", ![s].tok = issued']
        /\ exchanged' = [exchanged EXCEPT ![n] = @ + 1]
    BY <1>2 DEF Issue, Build
  <2>2. \A x \in Slot : Exchanging(x)' => x # s /\ call'[x] = call[x] /\ Exchanging(x)
    BY <1>1, <2>1 DEF Exchanging, Request
  <2>3. row[n] # "live"
    BY DEF TokenInv, Issue
  <2>4. \A k \in Token : exchanged'[k] = IF k = n THEN exchanged[k] + 1 ELSE exchanged[k]
    BY <1>1, <2>1
  <2> HIDE DEF n
  <2>5. \A k \in Token : (k > issued => row[k] = "absent" /\ exchanged[k] = 0)'
    BY <1>1, <2>1, <2>4 DEF TokenInv, Token
  <2>6. \A x \in Slot : (call[x].pc = "issue" => row[call[x].tok] # "live")'
    <3> SUFFICES ASSUME NEW x \in Slot, (call[x].pc = "issue")'
                 PROVE  (row[call[x].tok] # "live")'
      OBVIOUS
    <3>1. Exchanging(x)'
      BY DEF Exchanging
    <3> QED BY <1>1, <2>2, <3>1 DEF TokenInv
  <2>7. \A k \in Token : (exchanged[k] > 0 => row[k] # "live")'
    BY <1>1, <2>3, <2>4 DEF TokenInv
  <2> QED BY <2>5, <2>6, <2>7 DEF TokenInv
<1>3. CASE owner[n] \notin active
  <2>1. call' = [call EXCEPT ![s].pc = "refused"] /\ UNCHANGED <<issued, exchanged>>
    BY <1>3 DEF Issue, Goto
  <2>2. \A x \in Slot : Exchanging(x)' => call'[x] = call[x] /\ Exchanging(x)
    BY <1>1, <2>1 DEF Exchanging, Request
  <2> QED BY <1>1, <2>1, <2>2, TokenFrame DEF Types, ServerTypes
<1> QED BY <1>2, <1>3

LEMMA SaveTokens ==
  ASSUME Types, TokenInv, NEW s \in Slot, Save(s)
  PROVE  TokenInv'
<1>1. /\ issued' = issued + 1 /\ issued' \in Token /\ issued \in Nat
      /\ UNCHANGED <<exchanged>>
      /\ call \in [Slot -> Request(0..issued)]
      /\ exchanged \in [Token -> Nat]
  BY SessionAssumption DEF Save, Build, Token, Types, ServerTypes, CallTypes, history
<1>2. \A k \in Token : row'[k] = IF k = issued' THEN "live" ELSE row[k]
  BY <1>1 DEF Save, Types, ServerTypes
<1>3. call' = [call EXCEPT ![s].pc = "ok", ![s].tok = issued']
  BY DEF Save, Build
<1>4. \A x \in Slot : Exchanging(x)' =>
         /\ call'[x] = call[x] /\ Exchanging(x)
         /\ call[x].tok \in Token /\ call[x].tok # issued'
  <2>1. \A x \in Slot : call[x] \in Request(0..issued) /\ Shaped(x)
    BY DEF Types, CallTypes
  <2>2. \A x \in Slot : Exchanging(x)' => call'[x] = call[x] /\ Exchanging(x)
    BY <1>1, <1>3 DEF Exchanging, Request
  <2>3. \A x \in Slot : Exchanging(x) => call[x].tok \in 1..issued
    BY <1>1, <2>1 DEF Shaped, Request, Exchanging
  <2>4. \A n \in 1..issued : n \in Token /\ n # issued'
    BY <1>1, SessionAssumption DEF Token
  <2> QED BY <2>2, <2>3, <2>4
<1>5. \A k \in Token : (k > issued => row[k] = "absent" /\ exchanged[k] = 0)'
  BY <1>1, <1>2 DEF TokenInv, Token
<1>6. \A x \in Slot : (call[x].pc = "issue" => row[call[x].tok] # "live")'
  BY <1>2, <1>4 DEF TokenInv, Exchanging
<1>7. \A k \in Token : (exchanged[k] > 0 => row[k] # "live")'
  <2>1. exchanged[issued'] = 0
    BY <1>1 DEF TokenInv
  <2> QED BY <1>1, <1>2, <2>1 DEF TokenInv
<1> QED BY <1>5, <1>6, <1>7 DEF TokenInv

\* The other steps of the server.
LEMMA ServerTokens ==
  ASSUME Types, TokenInv, NEW s \in Slot, ServerStep(s)
  PROVE  TokenInv'
<1>0. /\ call \in [Slot -> Request(0..issued)]
      /\ row \in [Token -> {"absent", "live", "revoked", "expired"}]
  BY DEF Types, ServerTypes, CallTypes
<1>1. CASE Serve(s) \/ CheckLogin(s) \/ CheckRegister(s) \/ Create(s) \/ Revoke(s)
  <2>1. UNCHANGED <<issued, exchanged>>
    BY <1>1 DEF Serve, CheckLogin, CheckRegister, Create, Revoke, server, history
  <2>2. /\ row' \in [Token -> {"absent", "live", "revoked", "expired"}]
        /\ \A n \in Token : row'[n] = row[n] \/ (row[n] # "absent" /\ row'[n] # "live")
    BY <1>0, <1>1 DEF Serve, CheckLogin, CheckRegister, Create, Revoke, Revoked, server
  <2>3. /\ \A x \in Slot \ {s} : call'[x] = call[x]
        /\ call'[s].pc \notin {"rotate", "issue"}
    BY <1>0, <1>1 DEF Serve, CheckLogin, CheckRegister, Create, Revoke, Goto, Request
  <2>4. \A x \in Slot : Exchanging(x)' => call'[x] = call[x] /\ Exchanging(x)
    BY <2>3 DEF Exchanging
  <2> QED BY <2>1, <2>2, <2>4, TokenFrame
<1> QED BY <1>1, ValidateTokens, RotateTokens, IssueTokens, SaveTokens DEF ServerStep

\* No step of the browser or of the environment brings a refresh further.
LEMMA NoExchangeElsewhere ==
  ASSUME Types, Next, ~\E s \in Slot : ServerStep(s)
  PROVE  /\ \A x \in Slot : Exchanging(x)' => call'[x] = call[x] /\ Exchanging(x)
         /\ UNCHANGED <<issued, exchanged>>
<1>0. call \in [Slot -> Request(0..issued)] /\ TabOf \in [Slot -> Tab]
  BY SessionAssumption DEF Types, CallTypes
<1>1. ASSUME NEW s \in Slot, Browse(s) \/ SignIn(s) \/ SignOut(s)
      PROVE  /\ \A x \in Slot : Exchanging(x)' => call'[x] = call[x] /\ Exchanging(x)
             /\ UNCHANGED <<issued, exchanged>>
  <2>1. UNCHANGED <<issued, exchanged>>
    BY <1>1 DEF Browse, SignIn, SignOut, server, history
  <2>2. (\A x \in Slot \ {s} : call'[x] = call[x]) /\ call'[s].pc = "sent"
    BY <1>0, <1>1 DEF Browse, SignIn, SignOut, Send
  <2> QED BY <2>1, <2>2 DEF Exchanging
<1>2. ASSUME NEW s \in Slot, Receive(s)
      PROVE  /\ \A x \in Slot : Exchanging(x)' => call'[x] = call[x] /\ Exchanging(x)
             /\ UNCHANGED <<issued, exchanged>>
  <2>1. UNCHANGED <<issued, exchanged>>
    BY <1>2 DEF Receive, Succeed, Fail, Unauthorized, Refreshed, Refused, Ignore, server,
                history
  <2>2. CASE Succeed(s) \/ Fail(s) \/ Ignore(s)
    BY <1>0, <2>1, <2>2 DEF Succeed, Fail, Ignore, Finish, Exchanging, Blank
  <2>3. CASE Unauthorized(s)
    <3>1. CASE ls.refresh = 0
      BY <1>0, <2>1, <2>3, <3>1 DEF Unauthorized, ToLogin, Leave, Exchanging, Blank
    <3>2. CASE ls.refresh # 0
      <4>1. (\A x \in Slot \ {s} : call'[x] = call[x]) /\ call'[s].pc \in {"waiting", "validate"}
        BY <1>0, <2>3, <3>2 DEF Unauthorized, Goto, Request
      <4> QED BY <2>1, <4>1 DEF Exchanging
    <3> QED BY <3>1, <3>2
  <2>4. CASE Refreshed(s)
    <3>1. \A x \in Slot : call'[x] = call[x] \/ call'[x].pc = "sent"
      BY <1>0, <2>4 DEF Refreshed, Request
    <3> QED BY <2>1, <3>1 DEF Exchanging
  <2>5. CASE Refused(s)
    BY <1>0, <2>1, <2>5 DEF Refused, ToLogin, Leave, Exchanging, Blank
  <2> QED BY <1>2, <2>2, <2>3, <2>4, <2>5 DEF Receive
<1>3. ASSUME NEW t \in Tab, Mount(t) \/ SignOutLocally(t)
      PROVE  /\ \A x \in Slot : Exchanging(x)' => call'[x] = call[x] /\ Exchanging(x)
             /\ UNCHANGED <<issued, exchanged>>
  <2>1. UNCHANGED <<issued, exchanged>>
    BY <1>3 DEF Mount, SignOutLocally, server, history
  <2>2. \A x \in Slot : call'[x] = call[x] \/ call'[x].pc = "sent"
    BY <1>0, <1>3 DEF Mount, SignOutLocally, Send, SlotsOf
  <2> QED BY <2>1, <2>2 DEF Exchanging
<1>4. CASE Environment
  <2>1. UNCHANGED <<issued, exchanged>>
    BY <1>4 DEF Environment, ExpireAccess, ExpireRefresh, Lose, Reload, Deactivate,
                server, history
  <2>2. \A x \in Slot : call'[x] = call[x] \/ call'[x].pc \in {"failed", "refused", "idle"}
    BY <1>0, <1>4 DEF Environment, ExpireAccess, ExpireRefresh, Lose, Reload, Deactivate,
                      Goto, Leave, Blank, Request
  <2> QED BY <2>1, <2>2 DEF Exchanging
<1> QED BY <1>1, <1>2, <1>3, <1>4 DEF Next

\* Rows of refresh tokens: only revoked or expired there.
LEMMA NoRevivalElsewhere ==
  ASSUME Types, Next, ~\E s \in Slot : ServerStep(s)
  PROVE  /\ row' \in [Token -> {"absent", "live", "revoked", "expired"}]
         /\ \A n \in Token : row'[n] = row[n] \/ (row[n] # "absent" /\ row'[n] # "live")
<1>0. row \in [Token -> {"absent", "live", "revoked", "expired"}]
  BY DEF Types, ServerTypes
<1>1. row' = row \/ \E n \in Token : ExpireRefresh(n)
  BY DEF Next, Browse, SignIn, SignOut, Receive, Succeed, Fail, Unauthorized, Refreshed,
         Refused, Ignore, Mount, SignOutLocally, Environment, ExpireAccess, Lose, Reload,
         Deactivate, server
<1>2. CASE row' = row
  BY <1>0, <1>2
<1>3. CASE \E n \in Token : ExpireRefresh(n)
  BY <1>0, <1>3 DEF ExpireRefresh
<1> QED BY <1>1, <1>2, <1>3

LEMMA TokenInvariant == Spec => []TokenInv
<1>1. Init => TokenInv
  <2> SUFFICES ASSUME Init PROVE TokenInv
    OBVIOUS
  <2>1. \A n \in Token : row[n] = "absent" /\ exchanged[n] = 0
    BY DEF Init
  <2>2. \A s \in Slot : call[s].pc = "idle"
    BY DEF Init, Blank
  <2> QED BY <2>1, <2>2 DEF TokenInv, Exchanging
<1>2. TokenInv /\ Types /\ [Next]_vars => TokenInv'
  <2> SUFFICES ASSUME TokenInv, Types, [Next]_vars PROVE TokenInv'
    OBVIOUS
  <2>1. CASE \E s \in Slot : ServerStep(s)
    BY <2>1, ServerTokens
  <2>2. CASE Next /\ ~\E s \in Slot : ServerStep(s)
    BY <2>2, NoExchangeElsewhere, NoRevivalElsewhere, TokenFrame
  <2>3. CASE UNCHANGED vars
    BY <2>3, TokenFrame DEF vars, server, history, Exchanging, Types, ServerTypes
  <2> QED BY <2>1, <2>2, <2>3
<1> QED BY <1>1, <1>2, TypesInvariant, PTL DEF Spec

\* A refresh whose token has been exchanged is refused by the validation, with
\* any number of tabs and requests: what revoked the row cannot be undone, and
\* no other statement of the server puts a request past the validation.
THEOREM ReusedTokenRefused == Spec => ReuseRefused
<1> DEFINE Refuses ==
      \A s \in Slot : (call[s].pc = "validate" /\ call'[s].pc = "rotate")
                        => exchanged[call[s].tok] = 0
<1>1. Types /\ TokenInv /\ [Next]_vars => [Refuses]_vars
  <2> SUFFICES ASSUME Types, TokenInv, Next, NEW s \in Slot,
                      call[s].pc = "validate", call'[s].pc = "rotate"
               PROVE  exchanged[call[s].tok] = 0
    OBVIOUS
  <2>0. /\ call \in [Slot -> Request(0..issued)]
        /\ exchanged \in [Token -> Nat]
        /\ call[s].tok \in Token
    <3>1. call[s] \in Request(0..issued) /\ Shaped(s)
      BY DEF Types, CallTypes
    <3> QED BY <3>1, SessionAssumption
            DEF Shaped, Request, Token, Types, ServerTypes, CallTypes
  <2>1. PICK x \in Slot : ServerStep(x)
    BY NoExchangeElsewhere DEF Exchanging
  <2>2. \A y \in Slot \ {x} : call'[y] = call[y]
    BY <2>0, <2>1 DEF ServerStep, Serve, CheckLogin, CheckRegister, Create, Save, Build,
                      Revoke, Validate, Rotate, Issue, Goto
  <2>3. x = s
    BY <2>2
  <2>4. Validate(s)
    BY <2>1, <2>3 DEF ServerStep, Serve, CheckLogin, CheckRegister, Create, Save, Revoke,
                      Rotate, Issue
  <2>5. row[call[s].tok] = "live"
    BY <2>0, <2>4 DEF Validate, Goto, Request
  <2> QED BY <2>0, <2>5 DEF TokenInv
<1> QED BY <1>1, TypesInvariant, TokenInvariant, PTL DEF Spec, ReuseRefused

-----------------------------------------------------------------------------
(* A logout ends the session: the token it posts is the stored one or, if a *)
(* refresh took its place, the stored one has no row.                       *)

LogoutInv ==
  /\ \A s \in Slot : call[s].kind = "logout" => call[s].pc # "idle"
  /\ \A s \in Slot : (call[s].kind = "logout" /\ call[s].pc = "ok")
                       => row[call[s].rt] # "live"
  /\ \A s \in Slot : (call[s].kind = "logout" /\ s \notin old \cup gone)
                       => \/ ls.refresh \in {0, call[s].rt}
                          \/ row[ls.refresh] # "live"
  /\ \A s \in Slot : call[s].pc = "refreshed" => row[call[s].tok] # "live"
  /\ ended \subseteq 1..issued
  /\ LogoutEndsSession

\* The token of a request that the invariant is about has a row.
LEMMA LogoutTokens ==
  ASSUME Types
  PROVE  /\ issued \in Nat /\ 1..issued \subseteq Token
         /\ ls.refresh \in 0..issued
         /\ \A s \in Slot : /\ call[s].tok \in 0..issued
                            /\ call[s].kind = "logout" => call[s].rt \in 1..issued
                            /\ call[s].pc = "refreshed" => call[s].tok \in 1..issued
<1>1. issued \in Nat /\ 1..issued \subseteq Token /\ ls.refresh \in 0..issued
  BY SessionAssumption DEF Types, ServerTypes, BrowserTypes, Token
<1>2. ASSUME NEW s \in Slot
      PROVE  /\ call[s].tok \in 0..issued
             /\ call[s].kind = "logout" => call[s].rt \in 1..issued
             /\ call[s].pc = "refreshed" => call[s].tok \in 1..issued
  <2>1. call[s] \in Request(0..issued) /\ Shaped(s)
    BY DEF Types, CallTypes
  <2> QED BY <1>1, <2>1 DEF Request, Shaped
<1> QED BY <1>1, <1>2

\* A step that makes no row live and whose requests keep what they are about.
\* The session stays, is cleared, or is refreshed with a token without a row.
LEMMA LogoutFrame ==
  ASSUME Types, LogoutInv, issued' \in Nat, issued <= issued',
         \A n \in 1..issued : row'[n] = "live" => row[n] = "live",
         \A s \in Slot :
           /\ call'[s].kind = "logout" => call'[s].pc # "idle"
           /\ call'[s].kind = "logout" =>
                \/ call'[s].rt = ls.refresh /\ ls' = ls /\ call'[s].pc # "ok"
                \/ /\ call[s].kind = "logout" /\ call'[s].rt = call[s].rt
                   /\ call'[s].pc = "ok" => call[s].pc = "ok" \/ row'[call[s].rt] # "live"
                   /\ s \notin old' \cup gone' =>
                        \/ s \notin old \cup gone
                        \/ ls'.refresh = 0
           /\ call'[s].pc = "refreshed" =>
                \/ call[s].pc = "refreshed" /\ call'[s].tok = call[s].tok
                \/ row'[call'[s].tok] # "live",
         \/ ls'.refresh \in {0, ls.refresh}
         \/ row'[ls'.refresh] # "live"
         \/ \A s \in Slot : call'[s].kind = "logout" => s \in old',
         \A n \in ended' \ ended : n \in 1..issued /\ row'[n] # "live"
  PROVE  LogoutInv'
<1>1. \A s \in Slot : ((call[s].kind = "logout" /\ call[s].pc = "ok")
                         => row[call[s].rt] # "live")'
  BY LogoutTokens DEF LogoutInv
<1>2. \A s \in Slot : ((call[s].kind = "logout" /\ s \notin old \cup gone)
                         => \/ ls.refresh \in {0, call[s].rt}
                            \/ row[ls.refresh] # "live")'
  <2> SUFFICES ASSUME NEW s \in Slot, (call[s].kind = "logout" /\ s \notin old \cup gone)',
                      ls'.refresh # 0, row'[ls'.refresh] = "live"
               PROVE  ls'.refresh = call'[s].rt
    OBVIOUS
  <2>1. ls'.refresh = ls.refresh /\ ls.refresh \in 1..issued
    BY LogoutTokens
  <2>2. row[ls.refresh] = "live"
    BY <2>1
  <2> QED BY <2>1, <2>2 DEF LogoutInv
<1>3. \A s \in Slot : (call[s].pc = "refreshed" => row[call[s].tok] # "live")'
  BY LogoutTokens DEF LogoutInv
<1>4. (ended \subseteq 1..issued /\ LogoutEndsSession)'
  <2> SUFFICES ASSUME NEW n \in ended' PROVE n \in 1..issued' /\ row'[n] # "live"
    BY DEF LogoutEndsSession
  <2>1. n \in 1..issued /\ (n \in ended => row[n] # "live")
    BY DEF LogoutInv, LogoutEndsSession
  <2>2. row'[n] # "live"
    BY <2>1
  <2> QED BY <2>1, <2>2, LogoutTokens
<1>5. \A s \in Slot : (call[s].kind = "logout" => call[s].pc # "idle")'
  OBVIOUS
<1> QED BY <1>1, <1>2, <1>3, <1>4, <1>5 DEF LogoutInv

\* What the step of one request has to show, with a browser left alone.
LEMMA LogoutOneCall ==
  ASSUME Types, LogoutInv, NEW s \in Slot, UNCHANGED <<browser, old, gone, ended>>,
         issued' \in Nat, issued <= issued',
         \A n \in 1..issued : row'[n] = "live" => row[n] = "live",
         \A x \in Slot \ {s} : call'[x] = call[x],
         call'[s].kind = "logout" =>
           /\ call'[s].pc # "idle"
           /\ \/ call'[s].rt = ls.refresh /\ call'[s].pc # "ok"
              \/ /\ call[s].kind = "logout" /\ call'[s].rt = call[s].rt
                 /\ call'[s].pc = "ok" => call[s].pc = "ok" \/ row'[call[s].rt] # "live",
         call'[s].pc = "refreshed" => row'[call'[s].tok] # "live"
  PROVE  LogoutInv'
<1>1. ls' = ls
  BY DEF browser
<1>2. ASSUME NEW x \in Slot
      PROVE  /\ call'[x].kind = "logout" => call'[x].pc # "idle"
             /\ call'[x].kind = "logout" =>
                \/ call'[x].rt = ls.refresh /\ ls' = ls /\ call'[x].pc # "ok"
                \/ /\ call[x].kind = "logout" /\ call'[x].rt = call[x].rt
                   /\ call'[x].pc = "ok" => call[x].pc = "ok" \/ row'[call[x].rt] # "live"
                   /\ x \notin old' \cup gone' =>
                        \/ x \notin old \cup gone
                        \/ ls'.refresh = 0
             /\ call'[x].pc = "refreshed" =>
                \/ call[x].pc = "refreshed" /\ call'[x].tok = call[x].tok
                \/ row'[call'[x].tok] # "live"
  <2>1. CASE x = s
    BY <1>1, <2>1
  <2>2. CASE x # s
    BY <2>2 DEF LogoutInv
  <2> QED BY <2>1, <2>2
<1> QED BY <1>1, <1>2, LogoutFrame

LEMMA LogoutStart ==
  ASSUME Types, LogoutInv, NEW s \in Slot, Browse(s) \/ SignIn(s) \/ SignOut(s)
  PROVE  LogoutInv'
<1>1. /\ UNCHANGED <<browser, old, gone, ended>> /\ UNCHANGED <<issued, row>>
      /\ issued' \in Nat /\ issued <= issued'
  BY SessionAssumption DEF Browse, SignIn, SignOut, server, history, Types, ServerTypes
<1>2. /\ \A x \in Slot \ {s} : call'[x] = call[x]
      /\ call'[s].pc = "sent"
      /\ call'[s].kind = "logout" => call'[s].rt = ls.refresh
  BY DEF Browse, SignIn, SignOut, Send, Types, CallTypes
<1> QED BY <1>1, <1>2, LogoutOneCall

LEMMA LogoutServer ==
  ASSUME Types, LogoutInv, TokenInv, NEW s \in Slot, ServerStep(s)
  PROVE  LogoutInv'
<1>1. /\ UNCHANGED <<browser, old, gone, ended>>
      /\ call \in [Slot -> Request(0..issued)] /\ issued \in Nat
      /\ call[s] \in Request(0..issued)
      /\ row \in [Token -> {"absent", "live", "revoked", "expired"}]
  BY SessionAssumption DEF ServerStep, Serve, CheckLogin, CheckRegister, Create, Save, Revoke, Validate,
         Rotate, Issue, history, Types, ServerTypes, CallTypes
<1>2. CASE Serve(s) \/ CheckLogin(s) \/ CheckRegister(s) \/ Create(s) \/ Validate(s)
  <2>1. UNCHANGED <<issued, row>>
    BY <1>2 DEF Serve, CheckLogin, CheckRegister, Create, Validate, server
  <2>2. /\ \A x \in Slot \ {s} : call'[x] = call[x]
        /\ call'[s].kind = call[s].kind /\ call'[s].rt = call[s].rt
        /\ call'[s].pc \notin {"idle", "refreshed"}
        /\ call'[s].kind = "logout" => call'[s].pc # "ok"
    BY <1>1, <1>2 DEF Serve, CheckLogin, CheckRegister, Create, Validate, Goto, Request
  <2> QED BY <1>1, <2>1, <2>2, LogoutOneCall
<1>3. CASE Revoke(s)
  <2>1. /\ issued' = issued
        /\ \A n \in 1..issued : row'[n] = "live" => row[n] = "live"
        /\ call[s].kind = "logout" => row'[call[s].rt] # "live"
    <3>1. issued' = issued /\ row' = Revoked(call[s].rt)
      BY <1>3 DEF Revoke
    <3> QED BY <1>1, <3>1, LogoutTokens DEF Revoked
  <2>2. /\ \A x \in Slot \ {s} : call'[x] = call[x]
        /\ call'[s].kind = call[s].kind /\ call'[s].rt = call[s].rt
        /\ call'[s].pc = "ok"
    BY <1>1, <1>3 DEF Revoke, Goto, Request
  <2> QED BY <1>1, <2>1, <2>2, LogoutOneCall
<1>4. CASE Rotate(s)
  <2>1. issued' = issued /\ \A n \in 1..issued : row'[n] = "live" => row[n] = "live"
    BY <1>1, <1>4, LogoutTokens DEF Rotate, Revoked
  <2>2. /\ \A x \in Slot \ {s} : call'[x] = call[x]
        /\ call'[s].kind = call[s].kind /\ call'[s].rt = call[s].rt
        /\ call'[s].pc = "issue"
    BY <1>1, <1>4 DEF Rotate, Goto, Request
  <2> QED BY <1>1, <2>1, <2>2, LogoutOneCall
<1>5. CASE Save(s)
  <2>1. /\ issued' = issued + 1 /\ row' = [row EXCEPT ![issued'] = "live"]
        /\ call' = [call EXCEPT ![s].pc = "ok", ![s].tok = issued']
    BY <1>5 DEF Save, Build
  <2>2. \A n \in 1..issued : row'[n] = row[n]
    BY <1>1, <2>1, LogoutTokens
  <2>3. call[s].kind \in Signing
    <3>1. Shaped(s)
      BY DEF Types, CallTypes
    <3> QED BY <1>5, <3>1 DEF Shaped, Save
  <2>4. /\ \A x \in Slot \ {s} : call'[x] = call[x]
        /\ call'[s].kind = call[s].kind /\ call'[s].pc = "ok"
    BY <1>1, <2>1 DEF Request
  <2> QED BY <1>1, <2>1, <2>2, <2>3, <2>4, LogoutOneCall DEF Signing
<1>6. CASE Issue(s)
  <2>0. row' = row
    BY <1>6 DEF Issue
  <2>1. CASE owner[call[s].tok] \in active
    <3>1. /\ issued' = issued + 1 /\ issued' \in Token
          /\ call' = [call EXCEPT ![s].pc = "refreshed", ![s].tok = issued']
      BY <1>1, <1>6, <2>1, SessionAssumption DEF Issue, Build, Token
    <3>2. row[issued'] = "absent"
      BY <1>1, <3>1 DEF TokenInv
    <3>3. /\ \A x \in Slot \ {s} : call'[x] = call[x]
          /\ call'[s].kind = call[s].kind /\ call'[s].rt = call[s].rt
          /\ call'[s].pc = "refreshed" /\ call'[s].tok = issued'
      BY <1>1, <3>1 DEF Request
    <3> QED BY <1>1, <2>0, <3>1, <3>2, <3>3, LogoutOneCall
  <2>2. CASE owner[call[s].tok] \notin active
    <3>1. issued' = issued /\ call' = [call EXCEPT ![s].pc = "refused"]
      BY <1>6, <2>2 DEF Issue, Goto
    <3>2. /\ \A x \in Slot \ {s} : call'[x] = call[x]
          /\ call'[s].kind = call[s].kind /\ call'[s].rt = call[s].rt
          /\ call'[s].pc = "refused"
      BY <1>1, <3>1 DEF Request
    <3> QED BY <1>1, <2>0, <3>1, <3>2, LogoutOneCall
  <2> QED BY <2>1, <2>2
<1> QED BY <1>2, <1>3, <1>4, <1>5, <1>6 DEF ServerStep

\* Requests end, and the session is kept, cleared or replaced.
LEMMA LogoutEnding ==
  ASSUME Types, LogoutInv, UNCHANGED server,
         \A x \in Slot : \/ call'[x] = Blank
                         \/ /\ call'[x] = call[x]
                            /\ (call[x].kind = "logout" /\ x \notin old' \cup gone')
                                 => x \notin old \cup gone \/ ls'.refresh = 0,
         \/ ls'.refresh \in {0, ls.refresh}
         \/ \A x \in Slot : call'[x].kind = "logout" => x \in old',
         \A n \in ended' \ ended : n \in 1..issued /\ row[n] # "live"
  PROVE  LogoutInv'
<1>1. issued' = issued /\ row' = row /\ issued \in Nat
  BY LogoutTokens DEF server
<1>2. Blank.kind # "logout" /\ Blank.pc = "idle"
  BY SessionAssumption DEF Blank, Kind
<1>3. ASSUME NEW x \in Slot
      PROVE  /\ call'[x].kind = "logout" => call'[x].pc # "idle"
             /\ call'[x].kind = "logout" =>
                \/ call'[x].rt = ls.refresh /\ ls' = ls /\ call'[x].pc # "ok"
                \/ /\ call[x].kind = "logout" /\ call'[x].rt = call[x].rt
                   /\ call'[x].pc = "ok" => call[x].pc = "ok" \/ row'[call[x].rt] # "live"
                   /\ x \notin old' \cup gone' =>
                        \/ x \notin old \cup gone
                        \/ ls'.refresh = 0
             /\ call'[x].pc = "refreshed" =>
                \/ call[x].pc = "refreshed" /\ call'[x].tok = call[x].tok
                \/ row'[call'[x].tok] # "live"
  <2>1. CASE call'[x] = Blank
    BY <1>2, <2>1
  <2>2. CASE call'[x] = call[x]
    <3>1. (call[x].kind = "logout" /\ x \notin old' \cup gone')
            => x \notin old \cup gone \/ ls'.refresh = 0
      BY <1>2, <2>2
    <3> QED BY <1>2, <2>2, <3>1 DEF LogoutInv
  <2> QED BY <2>1, <2>2
<1> QED BY <1>1, <1>3, LogoutFrame

LEMMA LogoutLeaving ==
  ASSUME Types, LogoutInv, NEW t \in Tab, ToLogin(t), UNCHANGED <<server, ended>>
  PROVE  LogoutInv'
<1>1. \A x \in Slot : call'[x] = Blank \/ call'[x] = call[x]
  BY DEF ToLogin, Leave
<1>2. ls'.refresh = 0
  BY DEF ToLogin, Clear, NoSession
<1> QED BY <1>1, <1>2, LogoutEnding

LEMMA LogoutReceive ==
  ASSUME Types, LogoutInv, NEW s \in Slot, Receive(s)
  PROVE  LogoutInv'
<1>1. /\ call \in [Slot -> Request(0..issued)] /\ issued \in Nat /\ TabOf[s] \in Tab
      /\ call[s] \in Request(0..issued) /\ Shaped(s)
  BY SessionAssumption DEF Types, ServerTypes, CallTypes
<1>2. CASE Succeed(s)
  <2>1. UNCHANGED <<server, gone>> /\ call' = [call EXCEPT ![s] = Blank]
    BY <1>2 DEF Succeed, Finish
  <2>2. call'[s] = Blank /\ \A x \in Slot \ {s} : call'[x] = call[x]
    BY <1>1, <2>1
  <2>3. CASE call[s].kind \in {"page", "me"}
    <3>1. ls'.refresh = ls.refresh /\ old' = old \ {s} /\ ended' = ended
      BY <1>2, <2>3 DEF Succeed, Types, BrowserTypes
    <3> QED BY <2>1, <2>2, <3>1, LogoutEnding
  <2>4. CASE call[s].kind \in {"login", "register"}
    <3>1. old' = InFlight \ {s} /\ ended' = ended
      BY <1>2, <2>4 DEF Succeed
    <3>2. \A x \in Slot : call'[x].kind = "logout" => x \in old'
      <4>1. Blank.kind # "logout"
        BY SessionAssumption DEF Blank, Kind
      <4> QED BY <2>2, <3>1, <4>1 DEF InFlight, LogoutInv
    <3> QED BY <2>1, <2>2, <3>1, <3>2, LogoutEnding
  <2>5. CASE call[s].kind = "logout"
    <3>1. /\ ls'.refresh = 0
          /\ ended' = ended \cup {call[s].rt}
                        \cup (IF s \in old \/ ls.refresh = 0 THEN {} ELSE {ls.refresh})
      BY <1>2, <2>5 DEF Succeed, Clear, NoSession
    <3>2. call[s].rt \in 1..issued /\ row[call[s].rt] # "live"
      BY <1>2, <2>5, LogoutTokens DEF LogoutInv, Succeed
    <3>3. (s \notin old /\ ls.refresh # 0) => ls.refresh \in 1..issued /\ row[ls.refresh] # "live"
      BY <1>2, <2>5, <3>2, LogoutTokens DEF LogoutInv, Succeed
    <3> QED BY <2>1, <2>2, <3>1, <3>2, <3>3, LogoutEnding
  <2> QED BY <1>2, <2>3, <2>4, <2>5 DEF Succeed
<1>3. CASE Fail(s)
  <2>1. UNCHANGED <<server, gone, ended>> /\ call' = [call EXCEPT ![s] = Blank]
    BY <1>3 DEF Fail, Finish
  <2>2. call'[s] = Blank /\ \A x \in Slot \ {s} : call'[x] = call[x]
    BY <1>1, <2>1
  <2>3. CASE call[s].kind \in {"me", "logout"}
    <3>1. ls'.refresh = 0
      BY <1>3, <2>3 DEF Fail, Clear, NoSession
    <3> QED BY <2>1, <2>2, <3>1, LogoutEnding
  <2>4. CASE call[s].kind \notin {"me", "logout"}
    <3>1. ls' = ls /\ old' = old \ {s}
      BY <1>3, <2>4 DEF Fail
    <3> QED BY <2>1, <2>2, <3>1, LogoutEnding
  <2> QED BY <2>3, <2>4
<1>4. CASE Unauthorized(s)
  <2>0. UNCHANGED <<server, ended>>
    BY <1>4 DEF Unauthorized
  <2>1. CASE ls.refresh = 0
    BY <1>1, <1>4, <2>0, <2>1, LogoutLeaving DEF Unauthorized
  <2>2. CASE ls.refresh # 0
    <3>1. /\ UNCHANGED <<ls, gone, old>>
          /\ \A x \in Slot \ {s} : call'[x] = call[x]
          /\ call'[s].kind = call[s].kind /\ call'[s].rt = call[s].rt
          /\ call'[s].pc \in {"waiting", "validate"}
      BY <1>1, <1>4, <2>2 DEF Unauthorized, Goto, Request, browser
    <3>2. issued' = issued /\ row' = row
      BY <2>0 DEF server
    <3>3. ASSUME NEW x \in Slot
          PROVE  /\ call'[x].kind = "logout" => call'[x].pc # "idle"
                 /\ call'[x].kind = "logout" =>
                    \/ call'[x].rt = ls.refresh /\ ls' = ls /\ call'[x].pc # "ok"
                    \/ /\ call[x].kind = "logout" /\ call'[x].rt = call[x].rt
                       /\ call'[x].pc = "ok" => call[x].pc = "ok" \/ row'[call[x].rt] # "live"
                       /\ x \notin old' \cup gone' =>
                            \/ x \notin old \cup gone
                            \/ ls'.refresh = 0
                 /\ call'[x].pc = "refreshed" =>
                    \/ call[x].pc = "refreshed" /\ call'[x].tok = call[x].tok
                    \/ row'[call'[x].tok] # "live"
      BY <3>1 DEF LogoutInv
    <3> QED BY <1>1, <2>0, <3>1, <3>2, <3>3, LogoutFrame
  <2> QED BY <2>1, <2>2
<1>5. CASE Refreshed(s)
  <2>1. UNCHANGED <<server, gone, old, ended>>
    BY <1>5 DEF Refreshed
  <2>2. ls'.refresh = call[s].tok /\ row[call[s].tok] # "live"
    BY <1>5 DEF Refreshed, LogoutInv, Types, BrowserTypes
  <2>3. \A x \in Slot : \/ call'[x] = call[x]
                        \/ /\ call'[x].pc = "sent"
                           /\ call'[x].kind = call[x].kind /\ call'[x].rt = call[x].rt
    BY <1>1, <1>5 DEF Refreshed, Request
  <2>4. issued' = issued /\ row' = row
    BY <2>1 DEF server
  <2>5. ASSUME NEW x \in Slot
        PROVE  /\ call'[x].kind = "logout" => call'[x].pc # "idle"
               /\ call'[x].kind = "logout" =>
                  \/ call'[x].rt = ls.refresh /\ ls' = ls /\ call'[x].pc # "ok"
                  \/ /\ call[x].kind = "logout" /\ call'[x].rt = call[x].rt
                     /\ call'[x].pc = "ok" => call[x].pc = "ok" \/ row'[call[x].rt] # "live"
                     /\ x \notin old' \cup gone' =>
                          \/ x \notin old \cup gone
                          \/ ls'.refresh = 0
               /\ call'[x].pc = "refreshed" =>
                  \/ call[x].pc = "refreshed" /\ call'[x].tok = call[x].tok
                  \/ row'[call'[x].tok] # "live"
    BY <2>1, <2>3 DEF LogoutInv
  <2> QED BY <1>1, <2>1, <2>2, <2>4, <2>5, LogoutFrame
<1>6. CASE Refused(s)
  BY <1>1, <1>6, LogoutLeaving DEF Refused
<1>7. CASE Ignore(s)
  <2>1. UNCHANGED <<server, browser, old, ended>> /\ call' = [call EXCEPT ![s] = Blank]
        /\ gone' = gone \ {s}
    BY <1>7 DEF Ignore, Finish, history
  <2>2. call'[s] = Blank /\ (\A x \in Slot \ {s} : call'[x] = call[x]) /\ ls' = ls
    BY <1>1, <2>1 DEF browser
  <2> QED BY <2>1, <2>2, LogoutEnding
<1> QED BY <1>2, <1>3, <1>4, <1>5, <1>6, <1>7 DEF Receive

LEMMA LogoutStep == Types /\ TokenInv /\ LogoutInv /\ [Next]_vars => LogoutInv'
<1> SUFFICES ASSUME Types, TokenInv, LogoutInv, [Next]_vars PROVE LogoutInv'
  OBVIOUS
<1>0. issued \in Nat /\ row \in [Token -> {"absent", "live", "revoked", "expired"}]
  BY SessionAssumption DEF Types, ServerTypes
<1>1. ASSUME NEW s \in Slot, Browse(s) \/ SignIn(s) \/ SignOut(s) PROVE LogoutInv'
  BY <1>1, LogoutStart
<1>2. ASSUME NEW s \in Slot, ServerStep(s) PROVE LogoutInv'
  BY <1>2, LogoutServer
<1>3. ASSUME NEW s \in Slot, Receive(s) PROVE LogoutInv'
  BY <1>3, LogoutReceive
<1>4. ASSUME NEW t \in Tab, Mount(t) PROVE LogoutInv'
  <2>1. UNCHANGED <<server, ls, gone, old, ended>> /\ UNCHANGED <<issued, row>>
    BY <1>4 DEF Mount, server, history
  <2>2. \A x \in Slot : \/ call'[x] = call[x]
                        \/ call'[x].pc = "sent" /\ call'[x].kind = "me"
    BY <1>4 DEF Mount, Send, SlotsOf, Types, CallTypes
  <2>3. ASSUME NEW x \in Slot
        PROVE  /\ call'[x].kind = "logout" => call'[x].pc # "idle"
               /\ call'[x].kind = "logout" =>
                  \/ call'[x].rt = ls.refresh /\ ls' = ls /\ call'[x].pc # "ok"
                  \/ /\ call[x].kind = "logout" /\ call'[x].rt = call[x].rt
                     /\ call'[x].pc = "ok" => call[x].pc = "ok" \/ row'[call[x].rt] # "live"
                     /\ x \notin old' \cup gone' =>
                          \/ x \notin old \cup gone
                          \/ ls'.refresh = 0
               /\ call'[x].pc = "refreshed" =>
                  \/ call[x].pc = "refreshed" /\ call'[x].tok = call[x].tok
                  \/ row'[call'[x].tok] # "live"
    BY <2>1, <2>2 DEF LogoutInv
  <2> QED BY <1>0, <2>1, <2>3, LogoutFrame
<1>5. ASSUME NEW t \in Tab, SignOutLocally(t) PROVE LogoutInv'
  <2>1. UNCHANGED <<server, call, gone, ended>> /\ ls'.refresh = 0
    BY <1>5 DEF SignOutLocally, NoSession
  <2> QED BY <2>1, LogoutEnding
<1>6. CASE ExpireAccess \/ (\E n \in Token : ExpireRefresh(n)) \/ (\E u \in User : Deactivate(u))
  <2>1. /\ UNCHANGED <<browser, call, old, gone, ended>> /\ issued' = issued
        /\ ls' = ls
    BY <1>6 DEF ExpireAccess, ExpireRefresh, Deactivate, history, browser
  <2>2. \A n \in 1..issued : row'[n] = "live" => row[n] = "live"
    BY <1>0, <1>6, LogoutTokens DEF ExpireAccess, ExpireRefresh, Deactivate
  <2>3. \A n \in 1..issued : row[n] # "live" => row'[n] # "live"
    BY <2>2
  <2> QED BY <2>1, <2>2, <2>3, LogoutTokens DEF LogoutInv, LogoutEndsSession
<1>7. ASSUME NEW s \in Slot, Lose(s) PROVE LogoutInv'
  <2>1. /\ UNCHANGED <<browser, old, gone, ended>> /\ UNCHANGED <<issued, row>>
    BY <1>7 DEF Lose, server, history
  <2>2. /\ \A x \in Slot \ {s} : call'[x] = call[x]
        /\ call'[s].kind = call[s].kind /\ call'[s].rt = call[s].rt
        /\ call'[s].pc \in {"failed", "refused"}
    BY <1>7 DEF Lose, Goto, Types, CallTypes, Request
  <2> QED BY <1>0, <2>1, <2>2, LogoutOneCall
<1>8. ASSUME NEW t \in Tab, Reload(t) PROVE LogoutInv'
  <2>1. UNCHANGED <<server, ls, ended>> /\ old' = old \ SlotsOf(t)
    BY <1>8 DEF Reload
  <2>2. \A x \in Slot : \/ call'[x] = Blank
                        \/ call'[x] = call[x] /\ (x \in SlotsOf(t) => x \in gone')
    BY <1>8 DEF Reload, Leave
  <2>3. gone \subseteq gone'
    BY <1>8 DEF Reload, Leave
  <2> QED BY <2>1, <2>2, <2>3, LogoutEnding
<1>9. CASE UNCHANGED vars
  <2>1. UNCHANGED <<call, row, ls, ended, issued, old, gone>>
    BY <1>9 DEF vars, server, browser, history
  <2> QED BY <2>1 DEF LogoutInv, LogoutEndsSession
<1> QED BY <1>1, <1>2, <1>3, <1>4, <1>5, <1>6, <1>7, <1>8, <1>9 DEF Next, Environment

\* After an answered logout neither the token it posted nor the one that a
\* refresh put in its place has a live row, for any tabs and requests.
THEOREM LogoutIsFinal == Spec => []LogoutEndsSession
<1>1. Init => LogoutInv
  <2> SUFFICES ASSUME Init PROVE LogoutInv
    OBVIOUS
  <2>1. \A s \in Slot : call[s].pc = "idle" /\ call[s].kind # "logout"
    BY SessionAssumption DEF Init, Blank, Kind
  <2> QED BY <2>1 DEF Init, LogoutInv, LogoutEndsSession
<1>2. LogoutInv => LogoutEndsSession
  BY DEF LogoutInv
<1> QED BY <1>1, <1>2, LogoutStep, TypesInvariant, TokenInvariant, PTL DEF Spec

-----------------------------------------------------------------------------
(* What localStorage holds belongs to one login, and so does what the       *)
(* requests that no login or logout has overtaken are about to write there. *)

\* The refreshes with a token in hand.
Refresher(s) == call[s].pc \in {"validate", "rotate", "issue", "refreshed"}

\* A request of now may write only what belongs to the stored user.
OwnsUp(s) ==
  /\ Refresher(s) => owner[call[s].tok] = ls.user
  /\ (call[s].kind = "me" /\ call[s].auth # 0) => owner[call[s].auth] = ls.user

StoredInv ==
  /\ ls.access = 0 <=> ls.refresh = 0
  /\ \A s \in Slot : call[s].kind = "me" => call[s].pc # "idle"
  /\ \A s \in Slot \ gone : (ls.access = 0 /\ call[s].pc \in RefreshPc) => s \in old
  /\ \A s \in Slot \ (gone \cup old) : (ls.access # 0 /\ mixed = "no") => OwnsUp(s)
  /\ OneUsersSession

LEMMA StoredTokens ==
  ASSUME Types
  PROVE  /\ issued \in Nat
         /\ ls.access \in 0..issued /\ ls.refresh \in 0..issued
         /\ \A s \in Slot : /\ Refresher(s) => call[s].tok \in 1..issued
                            /\ call[s].auth \in 0..issued
<1>1. issued \in Nat /\ ls.access \in 0..issued /\ ls.refresh \in 0..issued
  BY SessionAssumption DEF Types, ServerTypes, BrowserTypes
<1>2. ASSUME NEW s \in Slot
      PROVE  (Refresher(s) => call[s].tok \in 1..issued) /\ call[s].auth \in 0..issued
  <2>1. call[s] \in Request(0..issued) /\ Shaped(s)
    BY DEF Types, CallTypes
  <2> QED BY <1>1, <2>1 DEF Request, Shaped, Refresher
<1> QED BY <1>1, <1>2

\* The session stays as it is.
LEMMA StoredFrame ==
  ASSUME Types, StoredInv, ls' = ls, mixed' = mixed,
         \A n \in 1..issued : owner'[n] = owner[n],
         \A x \in Slot \ gone' :
           /\ call'[x].kind = "me" => call'[x].pc # "idle"
           /\ call'[x].pc \in RefreshPc =>
                \/ ls.access # 0
                \/ call[x].pc \in RefreshPc /\ x \notin gone /\ (x \in old => x \in old')
           /\ (x \notin old' /\ ls.access # 0 /\ mixed = "no") =>
                \/ x \notin gone \cup old /\ call'[x] = call[x]
                \/ OwnsUp(x)',
         \A x \in gone' : call'[x].kind = "me" => call'[x].pc # "idle"
  PROVE  StoredInv'
<1>1. \A x \in Slot : (call[x].kind = "me" => call[x].pc # "idle")'
  OBVIOUS
<1>2. ASSUME NEW x \in Slot \ gone', (ls.access = 0 /\ call[x].pc \in RefreshPc)'
      PROVE  x \in old'
  BY <1>2 DEF StoredInv
<1>3. ASSUME NEW x \in Slot \ (gone' \cup old'), (ls.access # 0 /\ mixed = "no")'
      PROVE  OwnsUp(x)'
  <2>1. CASE x \notin gone \cup old /\ call'[x] = call[x]
    <3>1. OwnsUp(x)
      BY <1>3, <2>1 DEF StoredInv
    <3> QED BY <2>1, <3>1, StoredTokens DEF OwnsUp, Refresher
  <2>2. CASE OwnsUp(x)'
    BY <2>2
  <2> QED BY <1>3, <2>1, <2>2
<1>4. OneUsersSession'
  BY StoredTokens DEF StoredInv, OneUsersSession
<1> QED BY <1>1, <1>2, <1>3, <1>4 DEF StoredInv

\* The session is cleared.
LEMMA ClearedFrame ==
  ASSUME StoredInv, ls' = NoSession,
         \A x \in Slot : call'[x].kind = "me" => call'[x].pc # "idle",
         \A x \in Slot \ gone' : call'[x].pc \in RefreshPc => x \in old'
  PROVE  StoredInv'
BY DEF StoredInv, OneUsersSession, NoSession

LEMMA BlankIsIdle ==
  /\ Blank.kind \notin Kind /\ Blank.pc = "idle"
  /\ "idle" \notin RefreshPc
BY SessionAssumption DEF Blank, RefreshPc

\* One request steps, and the browser stays as it is.
LEMMA StoredOneCall ==
  ASSUME Types, StoredInv, NEW s \in Slot, UNCHANGED <<browser, old, mixed, gone>>,
         \A n \in 1..issued : owner'[n] = owner[n],
         \A x \in Slot \ {s} : call'[x] = call[x],
         call'[s].kind = "me" => call'[s].pc # "idle",
         call'[s].pc \in RefreshPc => call[s].pc \in RefreshPc,
         s \notin gone \cup old /\ ls.access # 0 /\ mixed = "no" => OwnsUp(s)'
  PROVE  StoredInv'
<1>1. ls' = ls
  BY DEF browser
<1>2. ASSUME NEW x \in Slot
      PROVE  /\ call'[x].kind = "me" => call'[x].pc # "idle"
             /\ x \notin gone' /\ call'[x].pc \in RefreshPc =>
                \/ ls.access # 0
                \/ call[x].pc \in RefreshPc /\ x \notin gone /\ (x \in old => x \in old')
             /\ (x \notin gone' /\ x \notin old' /\ ls.access # 0 /\ mixed = "no") =>
                \/ x \notin gone \cup old /\ call'[x] = call[x]
                \/ OwnsUp(x)'
  <2>1. CASE x = s
    BY <2>1
  <2>2. CASE x # s
    BY <2>2 DEF StoredInv
  <2> QED BY <2>1, <2>2
<1>3. \A x \in gone' : call'[x].kind = "me" => call'[x].pc # "idle"
  <2>1. gone' \subseteq Slot
    BY DEF Types, BrowserTypes
  <2> QED BY <1>2, <2>1
<1> HIDE DEF StoredInv, Types
<1> QED BY <1>1, <1>2, <1>3, StoredFrame

LEMMA StoredStart ==
  ASSUME Types, StoredInv, NEW s \in Slot, Browse(s) \/ SignIn(s) \/ SignOut(s)
  PROVE  StoredInv'
<1>1. UNCHANGED <<browser, old, mixed, gone>> /\ owner' = owner
  BY DEF Browse, SignIn, SignOut, server, history
<1>2. /\ \A x \in Slot \ {s} : call'[x] = call[x]
      /\ call'[s].pc = "sent" /\ call'[s].kind # "me"
  BY DEF Browse, SignIn, SignOut, Send, Types, CallTypes
<1>3. OwnsUp(s)'
  BY <1>2 DEF OwnsUp, Refresher
<1> QED BY <1>1, <1>2, <1>3, StoredOneCall DEF RefreshPc

LEMMA StoredServer ==
  ASSUME Types, StoredInv, NEW s \in Slot, ServerStep(s)
  PROVE  StoredInv'
<1>1. /\ UNCHANGED <<browser, old, mixed, gone>> /\ ls' = ls
      /\ call \in [Slot -> Request(0..issued)] /\ issued \in Nat
      /\ call[s] \in Request(0..issued)
  BY SessionAssumption DEF ServerStep, Serve, CheckLogin, CheckRegister, Create, Save,
         Revoke, Validate, Rotate, Issue, history, browser, Types, ServerTypes, CallTypes
<1>2. CASE Serve(s) \/ CheckLogin(s) \/ CheckRegister(s) \/ Create(s) \/ Revoke(s)
  <2>1. owner' = owner
    BY <1>2 DEF Serve, CheckLogin, CheckRegister, Create, Revoke, server
  <2>2. /\ \A x \in Slot \ {s} : call'[x] = call[x]
        /\ call'[s].kind = call[s].kind /\ call'[s].auth \in {0, call[s].auth}
        /\ call'[s].pc \notin {"idle"} \cup RefreshPc
    BY <1>1, <1>2 DEF Serve, CheckLogin, CheckRegister, Create, Revoke, Goto, Request, RefreshPc
  <2>3. s \notin gone \cup old /\ ls.access # 0 /\ mixed = "no" => OwnsUp(s)'
    BY <1>1, <2>1, <2>2 DEF StoredInv, OwnsUp, Refresher, RefreshPc
  <2> QED BY <1>1, <2>1, <2>2, <2>3, StoredOneCall
<1>3. CASE Save(s)
  <2>1. /\ issued' = issued + 1
        /\ call' = [call EXCEPT ![s].pc = "ok", ![s].tok = issued']
        /\ owner' = [owner EXCEPT ![issued'] = call[s].who]
    BY <1>3 DEF Save, Build
  <2>2. call[s].kind \in Signing
    <3>1. Shaped(s)
      BY DEF Types, CallTypes
    <3> QED BY <1>3, <3>1 DEF Shaped, Save
  <2>3. /\ \A x \in Slot \ {s} : call'[x] = call[x]
        /\ call'[s].kind = call[s].kind /\ call'[s].pc = "ok"
    BY <1>1, <2>1 DEF Request
  <2>4. \A n \in 1..issued : owner'[n] = owner[n]
    BY <1>1, <2>1, LogoutTokens DEF Types, ServerTypes
  <2>5. OwnsUp(s)'
    BY <2>2, <2>3 DEF OwnsUp, Refresher, Signing
  <2> QED BY <1>1, <2>2, <2>3, <2>4, <2>5, StoredOneCall DEF RefreshPc
<1>4. CASE Validate(s) \/ Rotate(s)
  <2>1. owner' = owner /\ call[s].pc \in RefreshPc /\ Refresher(s)
    BY <1>4 DEF Validate, Rotate, server, RefreshPc, Refresher
  <2>2. /\ \A x \in Slot \ {s} : call'[x] = call[x]
        /\ call'[s].kind = call[s].kind /\ call'[s].auth = call[s].auth
        /\ call'[s].tok = call[s].tok /\ call'[s].pc # "idle"
    BY <1>1, <1>4 DEF Validate, Rotate, Goto, Request
  <2>3. s \notin gone \cup old /\ ls.access # 0 /\ mixed = "no" => OwnsUp(s)'
    BY <1>1, <2>1, <2>2 DEF StoredInv, OwnsUp
  <2> QED BY <1>1, <2>1, <2>2, <2>3, StoredOneCall
<1>5. CASE Issue(s)
  <2>0. call[s].pc \in RefreshPc /\ Refresher(s)
    BY <1>5 DEF Issue, RefreshPc, Refresher
  <2>1. CASE owner[call[s].tok] \in active
    <3>1. /\ issued' = issued + 1 /\ issued' \in Token
          /\ call' = [call EXCEPT ![s].pc = "refreshed", ![s].tok = issued']
          /\ owner' = [owner EXCEPT ![issued'] = owner[call[s].tok]]
      BY <1>1, <1>5, <2>1, SessionAssumption DEF Issue, Build, Token
    <3>2. \A n \in 1..issued : owner'[n] = owner[n]
      BY <1>1, <3>1, LogoutTokens DEF Types, ServerTypes
    <3>3. owner'[issued'] = owner[call[s].tok]
      BY <3>1 DEF Types, ServerTypes
    <3>4. /\ \A x \in Slot \ {s} : call'[x] = call[x]
          /\ call'[s].kind = call[s].kind /\ call'[s].auth = call[s].auth
          /\ call'[s].tok = issued' /\ call'[s].pc = "refreshed"
      BY <1>1, <3>1 DEF Request
    <3>5. s \notin gone \cup old /\ ls.access # 0 /\ mixed = "no" => OwnsUp(s)'
      <4> SUFFICES ASSUME s \notin gone \cup old, ls.access # 0, mixed = "no"
                   PROVE  OwnsUp(s)'
        OBVIOUS
      <4>1. OwnsUp(s)
        BY DEF StoredInv
      <4>2. call[s].auth # 0 => owner'[call[s].auth] = owner[call[s].auth]
        BY <1>1, <3>2, StoredTokens
      <4> QED BY <1>1, <2>0, <3>3, <3>4, <4>1, <4>2 DEF OwnsUp
    <3> QED BY <1>1, <2>0, <3>2, <3>4, <3>5, StoredOneCall
  <2>2. CASE owner[call[s].tok] \notin active
    <3>1. owner' = owner /\ call' = [call EXCEPT ![s].pc = "refused"]
      BY <1>5, <2>2 DEF Issue, Goto
    <3>2. /\ \A x \in Slot \ {s} : call'[x] = call[x]
          /\ call'[s].kind = call[s].kind /\ call'[s].auth = call[s].auth
          /\ call'[s].pc = "refused"
      BY <1>1, <3>1 DEF Request
    <3>3. s \notin gone \cup old /\ ls.access # 0 /\ mixed = "no" => OwnsUp(s)'
      BY <1>1, <3>1, <3>2 DEF StoredInv, OwnsUp, Refresher
    <3> QED BY <1>1, <2>0, <3>1, <3>2, <3>3, StoredOneCall
  <2> QED BY <2>1, <2>2
<1> QED BY <1>2, <1>3, <1>4, <1>5 DEF ServerStep

LEMMA StoredLeaving ==
  ASSUME Types, StoredInv, NEW t \in Tab, ToLogin(t)
  PROVE  StoredInv'
<1>1. ls' = NoSession
  BY DEF ToLogin, Clear
<1>2. \A x \in Slot : \/ call'[x] = Blank
                      \/ /\ call'[x] = call[x]
                         /\ x \in SlotsOf(t) => x \in gone'
  BY DEF ToLogin, Leave
<1>3. old' = InFlight \ SlotsOf(t)
  BY DEF ToLogin
<1>4. \A x \in Slot : call'[x].kind = "me" => call'[x].pc # "idle"
  BY <1>2, BlankIsIdle DEF StoredInv, Kind
<1>5. \A x \in Slot \ gone' : call'[x].pc \in RefreshPc => x \in old'
  BY <1>2, <1>3, BlankIsIdle DEF InFlight
<1> QED BY <1>1, <1>4, <1>5, ClearedFrame

LEMMA StoredReceive ==
  ASSUME Types, StoredInv, NEW s \in Slot, Receive(s)
  PROVE  StoredInv'
<1>1. /\ call \in [Slot -> Request(0..issued)] /\ issued \in Nat /\ TabOf[s] \in Tab
      /\ call[s] \in Request(0..issued) /\ Shaped(s) /\ ls \in Stored(issued)
  BY SessionAssumption DEF Types, ServerTypes, CallTypes, BrowserTypes, Stored
<1>2. CASE Succeed(s)
  <2>1. /\ UNCHANGED <<server, gone>> /\ call' = [call EXCEPT ![s] = Blank]
        /\ owner' = owner /\ s \notin gone /\ call[s].pc = "ok"
    BY <1>2 DEF Succeed, Finish, server
  <2>2. call'[s] = Blank /\ \A x \in Slot \ {s} : call'[x] = call[x]
    BY <1>1, <2>1
  <2>3. \A x \in Slot : call'[x].kind = "me" => call'[x].pc # "idle"
    BY <2>2, BlankIsIdle DEF StoredInv, Kind
  <2>4. CASE call[s].kind = "page"
    <3>1. UNCHANGED <<ls, mixed>> /\ old' = old \ {s}
      BY <1>2, <2>4 DEF Succeed
    <3>2. (OwnsUp(s))'
      BY <2>2, BlankIsIdle DEF OwnsUp, Refresher, Kind
    <3>3. gone \subseteq Slot
      BY DEF Types, BrowserTypes
    <3> QED BY <2>1, <2>2, <2>3, <3>1, <3>2, <3>3, BlankIsIdle, StoredFrame
  <2>5. CASE call[s].kind = "me"
    <3>1. /\ ls' = [ls EXCEPT !.user = owner[call[s].auth]]
          /\ mixed' = IF s \in old THEN "yes" ELSE mixed
          /\ old' = old \ {s}
      BY <1>2, <2>5 DEF Succeed
    <3>2. ls'.access = ls.access /\ ls'.refresh = ls.refresh
      BY <1>1, <3>1 DEF Stored
    <3>3. call[s].auth # 0
      BY <1>1, <2>1, <2>5 DEF Shaped, Signing
    <3>4. (ls.access # 0 /\ mixed' = "no") => ls' = ls /\ mixed' = mixed
      <4> SUFFICES ASSUME ls.access # 0, mixed' = "no" PROVE ls' = ls /\ mixed' = mixed
        OBVIOUS
      <4>1. s \notin old /\ mixed = "no" /\ mixed' = mixed
        BY <3>1
      <4>2. OwnsUp(s)
        BY <2>1, <4>1 DEF StoredInv
      <4>3. ls.user = owner[call[s].auth]
        BY <2>5, <3>3, <4>2 DEF OwnsUp
      <4> QED BY <1>1, <3>1, <4>1, <4>3 DEF Stored
    <3>5. ASSUME NEW x \in Slot \ gone', ls'.access = 0, call'[x].pc \in RefreshPc
          PROVE  x \in old'
      BY <2>1, <2>2, <3>1, <3>2, <3>5, BlankIsIdle DEF StoredInv
    <3>6. ASSUME NEW x \in Slot \ (gone' \cup old'), ls'.access # 0, mixed' = "no"
          PROVE  OwnsUp(x)'
      <4>1. ls' = ls /\ mixed' = mixed
        BY <3>2, <3>4, <3>6
      <4>2. CASE x = s
        BY <2>2, <4>2, BlankIsIdle DEF OwnsUp, Refresher, Kind
      <4>3. CASE x # s
        BY <2>1, <2>2, <3>1, <3>6, <4>1, <4>3 DEF StoredInv, OwnsUp, Refresher
      <4> QED BY <4>2, <4>3
    <3>7. OneUsersSession'
      BY <2>1, <3>2, <3>4 DEF StoredInv, OneUsersSession
    <3> QED BY <2>3, <3>2, <3>5, <3>6, <3>7 DEF StoredInv
  <2>6. CASE call[s].kind \in {"login", "register"}
    <3>1. /\ ls' = Persist(call[s].tok, call[s].who)
          /\ old' = InFlight \ {s} /\ mixed' = "no"
      BY <1>2, <2>6 DEF Succeed
    <3>2. call[s].tok # 0 /\ owner[call[s].tok] = call[s].who
      BY <1>1, <2>1, <2>6 DEF Shaped, Signing
    <3>3. \A x \in Slot \ {s} : x \notin old' => call[x].pc = "idle"
      BY <3>1 DEF InFlight
    <3>4. \A x \in Slot \ (gone' \cup old') : OwnsUp(x)'
      BY <2>2, <3>3, BlankIsIdle DEF StoredInv, OwnsUp, Refresher, Kind
    <3>5. OneUsersSession'
      BY <2>1, <3>1, <3>2 DEF OneUsersSession, Persist
    <3> QED BY <2>3, <3>1, <3>2, <3>4, <3>5 DEF StoredInv, Persist
  <2>7. CASE call[s].kind = "logout"
    <3>1. ls' = NoSession /\ old' = InFlight \ {s}
      BY <1>2, <2>7 DEF Succeed, Clear
    <3>2. \A x \in Slot : call'[x].pc \in RefreshPc => x \in old'
      BY <2>2, <3>1, BlankIsIdle DEF InFlight
    <3> QED BY <2>3, <3>1, <3>2, ClearedFrame
  <2> QED BY <1>2, <2>4, <2>5, <2>6, <2>7 DEF Succeed
<1>3. CASE Fail(s)
  <2>1. /\ UNCHANGED <<server, gone>> /\ call' = [call EXCEPT ![s] = Blank]
        /\ owner' = owner
    BY <1>3 DEF Fail, Finish, server
  <2>2. call'[s] = Blank /\ \A x \in Slot \ {s} : call'[x] = call[x]
    BY <1>1, <2>1
  <2>3. \A x \in Slot : call'[x].kind = "me" => call'[x].pc # "idle"
    BY <2>2, BlankIsIdle DEF StoredInv, Kind
  <2>4. CASE call[s].kind \in {"me", "logout"}
    <3>1. ls' = NoSession /\ old' = InFlight \ {s}
      BY <1>3, <2>4 DEF Fail, Clear
    <3>2. \A x \in Slot : call'[x].pc \in RefreshPc => x \in old'
      BY <2>2, <3>1, BlankIsIdle DEF InFlight
    <3> QED BY <2>3, <3>1, <3>2, ClearedFrame
  <2>5. CASE call[s].kind \notin {"me", "logout"}
    <3>1. UNCHANGED <<ls, mixed>> /\ old' = old \ {s}
      BY <1>3, <2>5 DEF Fail
    <3>2. (OwnsUp(s))'
      BY <2>2, BlankIsIdle DEF OwnsUp, Refresher, Kind
    <3>3. gone \subseteq Slot
      BY DEF Types, BrowserTypes
    <3> QED BY <2>1, <2>2, <2>3, <3>1, <3>2, <3>3, BlankIsIdle, StoredFrame
  <2> QED BY <2>4, <2>5
<1>4. CASE Unauthorized(s)
  <2>0. owner' = owner /\ s \notin gone
    BY <1>4 DEF Unauthorized, server
  <2>1. CASE ls.refresh = 0
    BY <1>1, <1>4, <2>1, StoredLeaving DEF Unauthorized
  <2>2. CASE ls.refresh # 0
    <3>1. /\ UNCHANGED <<ls, mixed, gone, old>>
          /\ \A x \in Slot \ {s} : call'[x] = call[x]
          /\ call'[s].kind = call[s].kind /\ call'[s].auth = call[s].auth
          /\ \/ call'[s].pc = "waiting"
             \/ call'[s].pc = "validate" /\ call'[s].tok = ls.refresh
      BY <1>1, <1>4, <2>2 DEF Unauthorized, Goto, Request, browser
    <3>2. ls.access # 0
      BY <2>2 DEF StoredInv
    <3>3. \A x \in Slot : call'[x].kind = "me" => call'[x].pc # "idle"
      BY <3>1 DEF StoredInv
    <3>4. ASSUME s \notin gone \cup old, mixed = "no" PROVE OwnsUp(s)'
      <4>1. OwnsUp(s) /\ owner[ls.refresh] = ls.user
        BY <3>2, <3>4 DEF StoredInv, OneUsersSession
      <4> QED BY <2>0, <3>1, <4>1 DEF OwnsUp, Refresher
    <3>5. ASSUME NEW x \in Slot \ gone', x \notin old', ls.access # 0, mixed = "no"
          PROVE  (x \notin gone \cup old /\ call'[x] = call[x]) \/ OwnsUp(x)'
      <4>1. CASE x = s
        BY <3>1, <3>4, <3>5, <4>1
      <4>2. CASE x # s
        BY <3>1, <3>5, <4>2
      <4> QED BY <4>1, <4>2
    <3>6. gone' \subseteq Slot
      BY <3>1 DEF Types, BrowserTypes
    <3> HIDE DEF StoredInv, Types
    <3> QED BY <2>0, <3>1, <3>2, <3>3, <3>5, <3>6, StoredFrame
  <2> QED BY <2>1, <2>2
<1>5. CASE Refreshed(s)
  <2> DEFINE n == call[s].tok
  <2>1. /\ UNCHANGED <<gone, old>> /\ owner' = owner /\ s \notin gone
        /\ call[s].pc = "refreshed" /\ Refresher(s) /\ call[s].pc \in RefreshPc
        /\ mixed' = IF s \in old THEN "yes" ELSE mixed
    BY <1>5 DEF Refreshed, server, Refresher, RefreshPc
  <2>2. n \in 1..issued /\ n # 0
    BY <2>1, StoredTokens
  <2>3. ls'.access = n /\ ls'.refresh = n /\ ls'.user = ls.user
    BY <1>1, <1>5 DEF Refreshed, Stored
  <2>4. \A x \in Slot : \/ call'[x] = call[x]
                        \/ /\ call'[x].pc = "sent" /\ call'[x].auth = n
                           /\ call'[x].kind = call[x].kind
    BY <1>1, <1>5 DEF Refreshed, Request
  <2>5. \A x \in Slot : call'[x].kind = "me" => call'[x].pc # "idle"
    BY <2>4 DEF StoredInv
  <2>6. mixed' = "no" => ls.access # 0 /\ mixed = "no" /\ owner[n] = ls.user
    <3> SUFFICES ASSUME mixed' = "no" PROVE ls.access # 0 /\ mixed = "no" /\ owner[n] = ls.user
      OBVIOUS
    <3>1. s \notin old /\ mixed = "no"
      BY <2>1
    <3>2. ls.access # 0
      BY <2>1, <3>1 DEF StoredInv
    <3> QED BY <2>1, <3>1, <3>2 DEF StoredInv, OwnsUp
  <2> HIDE DEF n
  <2>7. ASSUME NEW x \in Slot \ (gone' \cup old'), mixed' = "no"
        PROVE  OwnsUp(x)'
    <3>1. x \notin gone \cup old
      BY <2>1, <2>7
    <3>2. OwnsUp(x)
      BY <2>6, <2>7, <3>1 DEF StoredInv
    <3>3. CASE call'[x] = call[x]
      BY <2>1, <2>3, <3>2, <3>3 DEF OwnsUp, Refresher
    <3>4. CASE call'[x].pc = "sent" /\ call'[x].auth = n
      BY <2>1, <2>3, <2>6, <2>7, <3>4 DEF OwnsUp, Refresher
    <3> QED BY <2>4, <3>3, <3>4
  <2>8. OneUsersSession'
    BY <2>1, <2>3, <2>6 DEF OneUsersSession
  <2> QED BY <2>2, <2>3, <2>5, <2>7, <2>8 DEF StoredInv
<1>6. CASE Refused(s)
  BY <1>1, <1>6, StoredLeaving DEF Refused
<1>7. CASE Ignore(s)
  <2>1. /\ UNCHANGED <<server, browser, old, mixed>> /\ call' = [call EXCEPT ![s] = Blank]
        /\ gone' = gone \ {s}
    BY <1>7 DEF Ignore, Finish, history
  <2>2. /\ call'[s] = Blank /\ \A x \in Slot \ {s} : call'[x] = call[x]
        /\ ls' = ls /\ owner' = owner
    BY <1>1, <2>1 DEF browser, server
  <2>3. \A x \in Slot : call'[x].kind = "me" => call'[x].pc # "idle"
    BY <2>2, BlankIsIdle DEF StoredInv, Kind
  <2>4. (OwnsUp(s))'
    BY <2>2, BlankIsIdle DEF OwnsUp, Refresher, Kind
  <2>5. gone \subseteq Slot
    BY DEF Types, BrowserTypes
  <2> QED BY <2>1, <2>2, <2>3, <2>4, <2>5, BlankIsIdle, StoredFrame
<1> QED BY <1>2, <1>3, <1>4, <1>5, <1>6, <1>7 DEF Receive

LEMMA StoredStep == Types /\ StoredInv /\ [Next]_vars => StoredInv'
<1> SUFFICES ASSUME Types, StoredInv, [Next]_vars PROVE StoredInv'
  OBVIOUS
<1>0. gone \subseteq Slot /\ call \in [Slot -> Request(0..issued)]
  BY DEF Types, BrowserTypes, CallTypes
<1>1. ASSUME NEW s \in Slot, Browse(s) \/ SignIn(s) \/ SignOut(s) PROVE StoredInv'
  BY <1>1, StoredStart
<1>2. ASSUME NEW s \in Slot, ServerStep(s) PROVE StoredInv'
  BY <1>2, StoredServer
<1>3. ASSUME NEW s \in Slot, Receive(s) PROVE StoredInv'
  BY <1>3, StoredReceive
<1>4. ASSUME NEW t \in Tab, Mount(t) PROVE StoredInv'
  <2>1. UNCHANGED <<ls, mixed, gone, old>> /\ owner' = owner
    BY <1>4 DEF Mount, server, history
  <2>2. \A x \in Slot :
          \/ call'[x] = call[x]
          \/ /\ call'[x].pc = "sent" /\ call'[x].kind = "me" /\ call'[x].auth = ls.access
             /\ ls.access # 0
    BY <1>0, <1>4 DEF Mount, Send, SlotsOf
  <2>3. ASSUME NEW x \in Slot, call'[x].pc = "sent", call'[x].auth = ls.access,
               ls.access # 0, mixed = "no"
        PROVE  OwnsUp(x)'
    BY <2>1, <2>3 DEF StoredInv, OneUsersSession, OwnsUp, Refresher
  <2>4. \A x \in Slot : call'[x].kind = "me" => call'[x].pc # "idle"
    BY <2>2 DEF StoredInv
  <2>5. ASSUME NEW x \in Slot \ gone'
        PROVE  /\ call'[x].pc \in RefreshPc =>
                  \/ ls.access # 0
                  \/ call[x].pc \in RefreshPc /\ x \notin gone /\ (x \in old => x \in old')
               /\ (x \notin old' /\ ls.access # 0 /\ mixed = "no") =>
                  \/ x \notin gone \cup old /\ call'[x] = call[x]
                  \/ OwnsUp(x)'
    BY <2>1, <2>2, <2>3
  <2> HIDE DEF StoredInv, Types
  <2> QED BY <1>0, <2>1, <2>4, <2>5, StoredFrame
<1>5. ASSUME NEW t \in Tab, SignOutLocally(t) PROVE StoredInv'
  <2>1. ls' = NoSession /\ call' = call /\ old' = InFlight
    BY <1>5 DEF SignOutLocally
  <2>2. \A x \in Slot : call'[x].pc \in RefreshPc => x \in old'
    BY <2>1, BlankIsIdle DEF InFlight
  <2> QED BY <2>1, <2>2, ClearedFrame DEF StoredInv
<1>6. CASE \/ ExpireAccess \/ (\E n \in Token : ExpireRefresh(n))
           \/ (\E u \in User : Deactivate(u)) \/ UNCHANGED vars
  <2>1. UNCHANGED <<ls, call, old, gone, mixed, owner>>
    BY <1>6 DEF ExpireAccess, ExpireRefresh, Deactivate, vars, server, history, browser
  <2> QED BY <2>1 DEF StoredInv, OwnsUp, Refresher, OneUsersSession
<1>7. ASSUME NEW s \in Slot, Lose(s) PROVE StoredInv'
  <2>1. UNCHANGED <<browser, old, mixed, gone>> /\ owner' = owner /\ ls' = ls
    BY <1>7 DEF Lose, server, history, browser
  <2>2. /\ \A x \in Slot \ {s} : call'[x] = call[x]
        /\ call'[s].kind = call[s].kind /\ call'[s].auth = call[s].auth
        /\ call'[s].pc \in {"failed", "refused"}
        /\ call'[s].pc = "refused" => call[s].pc \in RefreshPc
    BY <1>0, <1>7 DEF Lose, Goto, Request
  <2>3. "failed" \notin RefreshPc
    BY DEF RefreshPc
  <2>4. s \notin gone \cup old /\ ls.access # 0 /\ mixed = "no" => OwnsUp(s)'
    BY <2>1, <2>2 DEF StoredInv, OwnsUp, Refresher
  <2> QED BY <2>1, <2>2, <2>3, <2>4, StoredOneCall
<1>8. ASSUME NEW t \in Tab, Reload(t) PROVE StoredInv'
  <2>1. UNCHANGED <<ls, mixed>> /\ owner' = owner /\ old' = old \ SlotsOf(t)
        /\ gone \subseteq gone'
    BY <1>8 DEF Reload, Leave, server
  <2>2. \A x \in Slot : \/ call'[x] = Blank
                        \/ /\ call'[x] = call[x]
                           /\ x \in SlotsOf(t) => x \in gone'
    BY <1>8 DEF Reload, Leave
  <2>3. \A x \in Slot : call'[x].kind = "me" => call'[x].pc # "idle"
    BY <2>2, BlankIsIdle DEF StoredInv, Kind
  <2>4. \A x \in Slot : call'[x] = Blank => OwnsUp(x)'
    BY BlankIsIdle DEF OwnsUp, Refresher, Kind
  <2>5. gone' \subseteq Slot
    BY <1>0, <1>8 DEF Reload, Leave, SlotsOf
  <2>6. ASSUME NEW x \in Slot \ gone'
        PROVE  /\ call'[x].pc \in RefreshPc =>
                  \/ ls.access # 0
                  \/ call[x].pc \in RefreshPc /\ x \notin gone /\ (x \in old => x \in old')
               /\ (x \notin old' /\ ls.access # 0 /\ mixed = "no") =>
                  \/ x \notin gone \cup old /\ call'[x] = call[x]
                  \/ OwnsUp(x)'
    BY <2>1, <2>2, <2>4, BlankIsIdle
  <2> HIDE DEF StoredInv, Types
  <2> QED BY <2>1, <2>3, <2>5, <2>6, StoredFrame
<1> QED BY <1>1, <1>2, <1>3, <1>4, <1>5, <1>6, <1>7, <1>8 DEF Next, Environment

LEMMA StoredInvariant == Spec => []StoredInv
<1>1. Init => StoredInv
  <2> SUFFICES ASSUME Init PROVE StoredInv
    OBVIOUS
  <2>1. \A s \in Slot : call[s].pc = "idle" /\ call[s].kind # "me"
    BY SessionAssumption DEF Init, Blank, Kind
  <2>2. ls.access = 0 /\ ls.refresh = 0
    BY DEF Init, NoSession
  <2> QED BY <2>1, <2>2 DEF StoredInv, OneUsersSession, RefreshPc
<1> QED BY <1>1, StoredStep, TypesInvariant, PTL DEF Spec

\* Tokens and user in localStorage are of one login, however the tabs, their
\* refreshes and their logouts interleave, unless an overtaken request wrote.
THEOREM SessionOfOneUser == Spec => []OneUsersSession
BY StoredInvariant, PTL DEF StoredInv

\* Only a login, or the answer to a refresh that a logout overtook, gives a
\* session to a browser that has none.
THEOREM NoSessionFromNowhere == Spec => SessionOnlyByLogin
<1> DEFINE Lawful ==
      (ls.access = 0 /\ ls'.access # 0)
        => \/ mixed' = "yes"
           \/ \E s \in Slot : /\ call[s].kind \in {"login", "register"}
                              /\ call[s].pc = "ok"
                              /\ call'[s].pc = "idle"
<1>1. Types /\ StoredInv /\ [Next]_vars => [Lawful]_vars
  <2> SUFFICES ASSUME Types, StoredInv, Next, ls.access = 0, ls'.access # 0
               PROVE  \/ mixed' = "yes"
                      \/ \E s \in Slot : /\ call[s].kind \in {"login", "register"}
                                         /\ call[s].pc = "ok"
                                         /\ call'[s].pc = "idle"
    OBVIOUS
  <2>0. ls \in Stored(issued) /\ NoSession.access = 0
    BY DEF Types, BrowserTypes, Stored, NoSession
  <2>1. ASSUME NEW s \in Slot, Succeed(s)
        PROVE  call[s].kind \in {"login", "register"} /\ call[s].pc = "ok" /\ call'[s].pc = "idle"
    <3>1. call[s].pc = "ok" /\ call' = [call EXCEPT ![s] = Blank]
      BY <2>1 DEF Succeed, Finish
    <3>2. call'[s].pc = "idle"
      BY <3>1 DEF Blank, Types, CallTypes
    <3>3. call[s].kind \in {"login", "register"}
      BY <2>0, <2>1 DEF Succeed, Clear, Stored
    <3> QED BY <3>1, <3>2, <3>3
  <2>2. ASSUME NEW s \in Slot, Refreshed(s) PROVE mixed' = "yes"
    <3>1. s \in old
      BY <2>2 DEF Refreshed, StoredInv, RefreshPc
    <3> QED BY <2>2, <3>1 DEF Refreshed
  <2>3. \/ \E s \in Slot : Succeed(s) \/ Refreshed(s)
        \/ ls'.access \in {0, ls.access}
    BY <2>0 DEF Next, Browse, SignIn, SignOut, ServerStep, Serve, CheckLogin, CheckRegister,
           Create, Save, Revoke, Validate, Rotate, Issue, Receive, Fail, Unauthorized,
           ToLogin, Clear, Refused, Ignore, Mount, SignOutLocally, Environment,
           ExpireAccess, ExpireRefresh, Lose, Reload, Deactivate, browser
  <2> QED BY <2>1, <2>2, <2>3
<1> QED BY <1>1, TypesInvariant, StoredInvariant, PTL DEF Spec, SessionOnlyByLogin

-----------------------------------------------------------------------------
(* One refresh per tab.                                                     *)

RefreshInv ==
  /\ OneRefreshPerTab
  /\ \A s \in gone : refreshing[TabOf[s]] # s

\* Requests go on inside or outside of a refresh, or end outside of one.
LEMMA RefreshFrame ==
  ASSUME RefreshInv, refreshing' = refreshing, gone' = gone,
         \A s \in Slot :
            /\ call'[s].pc \in RefreshPc <=> call[s].pc \in RefreshPc
            /\ call'[s].pc = "waiting" => call[s].pc = "waiting"
  PROVE  RefreshInv'
BY DEF RefreshInv, OneRefreshPerTab

LEMMA RefreshLeave ==
  ASSUME Types, RefreshInv, NEW t \in Tab, Leave(t)
  PROVE  RefreshInv'
<1>1. /\ \A x \in Tab : refreshing'[x] = IF x = t THEN None ELSE refreshing[x]
      /\ gone' = gone \cup {s \in SlotsOf(t) : call[s].pc \in ServerPc}
      /\ gone \subseteq Slot /\ TabOf \in [Slot -> Tab] /\ None \notin Slot
  BY SessionAssumption DEF Leave, Types, BrowserTypes
<1>2. \A s \in Slot : \/ call'[s] = Blank /\ TabOf[s] = t
                      \/ call'[s] = call[s] /\ (TabOf[s] = t => s \in gone')
  BY DEF Leave, SlotsOf
<1>3. Blank.pc = "idle" /\ "idle" \notin RefreshPc
  BY BlankIsIdle
<1>4. OneRefreshPerTab'
  <2> SUFFICES ASSUME NEW s \in Slot \ gone'
               PROVE  /\ (call[s].pc \in RefreshPc <=> refreshing[TabOf[s]] = s)'
                      /\ (call[s].pc = "waiting" => refreshing[TabOf[s]] # None)'
    BY DEF OneRefreshPerTab
  <2>1. CASE TabOf[s] = t
    BY <1>1, <1>2, <1>3, <2>1
  <2>2. CASE TabOf[s] # t
    <3>1. call'[s] = call[s] /\ refreshing'[TabOf[s]] = refreshing[TabOf[s]] /\ s \notin gone
      BY <1>1, <1>2, <2>2
    <3> QED BY <3>1 DEF RefreshInv, OneRefreshPerTab
  <2> QED BY <2>1, <2>2
<1>5. \A s \in gone' : refreshing'[TabOf[s]] # s
  <2> SUFFICES ASSUME NEW s \in gone' PROVE refreshing'[TabOf[s]] # s
    OBVIOUS
  <2>1. s \in Slot /\ (s \in gone \/ TabOf[s] = t)
    BY <1>1 DEF SlotsOf
  <2> QED BY <1>1, <2>1 DEF RefreshInv
<1> QED BY <1>4, <1>5 DEF RefreshInv

LEMMA RefreshReceive ==
  ASSUME Types, RefreshInv, NEW s \in Slot, Receive(s)
  PROVE  RefreshInv'
<1>1. /\ call \in [Slot -> Request(0..issued)] /\ TabOf \in [Slot -> Tab]
      /\ refreshing \in [Tab -> Slot \cup {None}] /\ None \notin Slot
      /\ TabOf[s] \in Tab /\ gone \subseteq Slot
  BY SessionAssumption DEF Types, CallTypes, BrowserTypes
<1>2. CASE Succeed(s) \/ Fail(s)
  <2>1. /\ refreshing' = refreshing /\ gone' = gone /\ call' = [call EXCEPT ![s] = Blank]
        /\ call[s].pc \in {"ok", "failed", "unauthorized"}
    BY <1>2 DEF Succeed, Fail, Finish
  <2>2. \A x \in Slot : call'[x] = IF x = s THEN Blank ELSE call[x]
    BY <1>1, <2>1
  <2>3. call[s].pc \notin RefreshPc /\ call'[s].pc = "idle" /\ "idle" \notin RefreshPc
    BY <2>1, <2>2, BlankIsIdle DEF RefreshPc
  <2> QED BY <2>1, <2>2, <2>3, RefreshFrame
<1>3. CASE Unauthorized(s)
  <2>0. s \notin gone /\ call[s].pc = "unauthorized" /\ call[s].pc \notin RefreshPc
    BY <1>3 DEF Unauthorized, RefreshPc
  <2>1. CASE ls.refresh = 0
    BY <1>1, <1>3, <2>1, RefreshLeave DEF Unauthorized, ToLogin
  <2>2. CASE ls.refresh # 0 /\ refreshing[TabOf[s]] # None
    <3>1. /\ UNCHANGED <<refreshing, gone>> /\ call'[s].pc = "waiting"
          /\ \A x \in Slot \ {s} : call'[x] = call[x]
      BY <1>1, <1>3, <2>2 DEF Unauthorized, Goto, browser, Request
    <3>2. "waiting" \notin RefreshPc
      BY DEF RefreshPc
    <3>3. OneRefreshPerTab'
      <4> SUFFICES ASSUME NEW x \in Slot \ gone'
                   PROVE  /\ (call[x].pc \in RefreshPc <=> refreshing[TabOf[x]] = x)'
                          /\ (call[x].pc = "waiting" => refreshing[TabOf[x]] # None)'
        BY DEF OneRefreshPerTab
      <4>1. CASE x = s
        BY <2>0, <2>2, <3>1, <3>2, <4>1 DEF RefreshInv, OneRefreshPerTab
      <4>2. CASE x # s
        BY <3>1, <4>2 DEF RefreshInv, OneRefreshPerTab
      <4> QED BY <4>1, <4>2
    <3> QED BY <3>1, <3>3 DEF RefreshInv
  <2>3. CASE ls.refresh # 0 /\ refreshing[TabOf[s]] = None
    <3>1. /\ gone' = gone /\ call'[s].pc = "validate"
          /\ \A x \in Slot \ {s} : call'[x] = call[x]
          /\ \A t \in Tab : refreshing'[t] = IF t = TabOf[s] THEN s ELSE refreshing[t]
      BY <1>1, <1>3, <2>3 DEF Unauthorized, Request
    <3>2. "validate" \in RefreshPc
      BY DEF RefreshPc
    <3>3. OneRefreshPerTab'
      <4> SUFFICES ASSUME NEW x \in Slot \ gone'
                   PROVE  /\ (call[x].pc \in RefreshPc <=> refreshing[TabOf[x]] = x)'
                          /\ (call[x].pc = "waiting" => refreshing[TabOf[x]] # None)'
        BY DEF OneRefreshPerTab
      <4>1. CASE x = s
        BY <1>1, <3>1, <3>2, <4>1
      <4>2. CASE x # s
        BY <1>1, <2>3, <3>1, <4>2 DEF RefreshInv, OneRefreshPerTab
      <4> QED BY <4>1, <4>2
    <3>4. \A x \in gone' : refreshing'[TabOf[x]] # x
      BY <1>1, <2>0, <3>1 DEF RefreshInv
    <3> QED BY <3>3, <3>4 DEF RefreshInv
  <2> QED BY <2>1, <2>2, <2>3
<1>4. CASE Refreshed(s)
  <2>1. /\ gone' = gone /\ s \notin gone /\ call[s].pc \in RefreshPc
        /\ \A t \in Tab : refreshing'[t] = IF t = TabOf[s] THEN None ELSE refreshing[t]
    BY <1>1, <1>4 DEF Refreshed, RefreshPc
  <2>2. \A x \in Slot :
          IF x = s \/ (TabOf[x] = TabOf[s] /\ call[x].pc = "waiting")
            THEN call'[x].pc = "sent" ELSE call'[x] = call[x]
    BY <1>1, <1>4 DEF Refreshed, SlotsOf, Request
  <2>3. "sent" \notin RefreshPc
    BY DEF RefreshPc
  <2>4. refreshing[TabOf[s]] = s
    BY <2>1 DEF RefreshInv, OneRefreshPerTab
  <2>5. OneRefreshPerTab'
    <3> SUFFICES ASSUME NEW x \in Slot \ gone'
                 PROVE  /\ (call[x].pc \in RefreshPc <=> refreshing[TabOf[x]] = x)'
                        /\ (call[x].pc = "waiting" => refreshing[TabOf[x]] # None)'
      BY DEF OneRefreshPerTab
    <3>1. CASE TabOf[x] = TabOf[s]
      BY <1>1, <2>1, <2>2, <2>3, <2>4, <3>1 DEF RefreshInv, OneRefreshPerTab
    <3>2. CASE TabOf[x] # TabOf[s]
      BY <1>1, <2>1, <2>2, <3>2 DEF RefreshInv, OneRefreshPerTab
    <3> QED BY <3>1, <3>2
  <2>6. \A x \in gone' : refreshing'[TabOf[x]] # x
    BY <1>1, <2>1 DEF RefreshInv
  <2> QED BY <2>5, <2>6 DEF RefreshInv
<1>5. CASE Refused(s)
  BY <1>1, <1>5, RefreshLeave DEF Refused, ToLogin
<1>6. CASE Ignore(s)
  <2>1. /\ s \in gone /\ gone' = gone \ {s} /\ refreshing' = refreshing
        /\ \A x \in Slot : call'[x] = IF x = s THEN Blank ELSE call[x]
    BY <1>1, <1>6 DEF Ignore, Finish, browser
  <2> QED BY <2>1, BlankIsIdle DEF RefreshInv, OneRefreshPerTab
<1> QED BY <1>2, <1>3, <1>4, <1>5, <1>6 DEF Receive

\* A tab has one refresh under way at most, isRefreshing tells, and no request
\* waits in failedQueue without it, for any number of requests.
THEOREM RefreshesDoNotRace == Spec => []OneRefreshPerTab
<1>1. Init => RefreshInv
  <2> SUFFICES ASSUME Init PROVE RefreshInv
    OBVIOUS
  <2>1. /\ gone = {} /\ TabOf \in [Slot -> Tab] /\ None \notin Slot
        /\ \A t \in Tab : refreshing[t] = None
        /\ \A s \in Slot : call[s].pc = "idle"
    BY SessionAssumption DEF Init, Blank
  <2> QED BY <2>1 DEF RefreshInv, OneRefreshPerTab, RefreshPc
<1>2. RefreshInv /\ Types /\ [Next]_vars => RefreshInv'
  <2> SUFFICES ASSUME RefreshInv, Types, [Next]_vars PROVE RefreshInv'
    OBVIOUS
  <2>0. call \in [Slot -> Request(0..issued)]
    BY DEF Types, CallTypes
  <2>1. ASSUME NEW s \in Slot, Browse(s) \/ SignIn(s) \/ SignOut(s) PROVE RefreshInv'
    <3>1. /\ UNCHANGED <<refreshing, gone>> /\ call[s].pc = "idle" /\ call'[s].pc = "sent"
          /\ \A x \in Slot \ {s} : call'[x] = call[x]
      BY <2>0, <2>1 DEF Browse, SignIn, SignOut, Send, browser
    <3> QED BY <3>1, RefreshFrame DEF RefreshPc
  <2>2. ASSUME NEW s \in Slot, ServerStep(s) PROVE RefreshInv'
    <3>1. UNCHANGED <<refreshing, gone>>
      BY <2>2 DEF ServerStep, Serve, CheckLogin, CheckRegister, Create, Save, Revoke,
                  Validate, Rotate, Issue, browser
    <3>2. \A x \in Slot \ {s} : call'[x] = call[x]
      BY <2>0, <2>2 DEF ServerStep, Serve, CheckLogin, CheckRegister, Create, Save, Revoke,
                  Validate, Rotate, Issue, Goto, Build
    <3>3. /\ call'[s].pc # "waiting"
          /\ call'[s].pc \in RefreshPc <=> call[s].pc \in RefreshPc
      BY <2>0, <2>2 DEF ServerStep, Serve, CheckLogin, CheckRegister, Create, Save, Revoke,
                  Validate, Rotate, Issue, Goto, Build, Request, RefreshPc
    <3> QED BY <3>1, <3>2, <3>3, RefreshFrame
  <2>3. ASSUME NEW s \in Slot, Receive(s) PROVE RefreshInv'
    BY <2>3, RefreshReceive
  <2>4. ASSUME NEW t \in Tab, Mount(t) \/ SignOutLocally(t) PROVE RefreshInv'
    <3>1. UNCHANGED <<refreshing, gone>>
      BY <2>4 DEF Mount, SignOutLocally
    <3>2. \A x \in Slot : \/ call'[x] = call[x]
                          \/ call[x].pc = "idle" /\ call'[x].pc = "sent"
      BY <2>0, <2>4 DEF Mount, SignOutLocally, Send, SlotsOf
    <3> QED BY <3>1, <3>2, RefreshFrame DEF RefreshPc
  <2>5. ASSUME NEW s \in Slot, Lose(s) PROVE RefreshInv'
    <3>1. /\ UNCHANGED <<refreshing, gone>>
          /\ \A x \in Slot \ {s} : call'[x] = call[x]
          /\ call'[s].pc = IF call[s].pc \in RefreshPc THEN "refused" ELSE "failed"
      BY <2>0, <2>5 DEF Lose, Goto, browser, Request
    <3> QED BY <3>1, RefreshFrame DEF RefreshPc
  <2>6. ASSUME NEW t \in Tab, Reload(t) PROVE RefreshInv'
    BY <2>6, RefreshLeave DEF Reload
  <2>7. CASE \/ ExpireAccess \/ (\E n \in Token : ExpireRefresh(n))
             \/ (\E u \in User : Deactivate(u)) \/ UNCHANGED vars
    BY <2>7, RefreshFrame DEF ExpireAccess, ExpireRefresh, Deactivate, vars, browser
  <2> QED BY <2>1, <2>2, <2>3, <2>4, <2>5, <2>6, <2>7 DEF Next, Environment
<1>3. RefreshInv => OneRefreshPerTab
  BY DEF RefreshInv
<1> QED BY <1>1, <1>2, <1>3, TypesInvariant, PTL DEF Spec
=============================================================================
