------------------------------- MODULE Session -------------------------------
(***************************************************************************)
(* The cookie session: auth_sessions rows with the platform's tokens in    *)
(* them, the requests that resolve a cookie and refresh an expired access  *)
(* token on the way, sign-in and sign-out, and the tabs of one browser     *)
(* (AuthContext) that believe what /v1/auth/user last told them.           *)
(*                                                                         *)
(* The platform rotates the refresh token on every use (external); two     *)
(* requests of one page therefore race for it.                             *)
(***************************************************************************)
EXTENDS Integers, FiniteSets

CONSTANTS
  Tab,              \* open tabs
  Request,          \* requests in flight at once
  MaxSessions,      \* bound: sign-ins
  MaxRotations,     \* bound: refreshes of one session
  MaxSessionFaults  \* bound: calls lost and statements that throw

ASSUME SessionAssumption ==
  /\ Tab # {}
  /\ MaxSessions \in Nat \ {0}
  /\ MaxRotations \in Nat
  /\ MaxSessionFaults \in Nat

VARIABLES
  session,  \* auth_sessions: state, refresh token, access token not expired
  live,     \* the platform's refresh token per session, 0 = revoked
  jar,      \* the browser's cookie: a session id, 0 = none
  request,  \* where each request is, the cookie and token it carries
  tab,      \* AuthContext: believes it is signed in
  news,     \* a broadcast on its way to the tab
  faults

sessionVars == <<session, live, jar, request, tab, news, faults>>

Id == 1..MaxSessions
Token == 0..(MaxRotations + 1)
Idle == [pc |-> "idle", what |-> "user", tab |-> CHOOSE t \in Tab : TRUE, id |-> 0, token |-> 0]

(* Every variable of the cookie session has the type its comment gives.    *)
SessionTypeOK ==
  /\ session \in [Id -> [st : {"none", "live", "gone"}, token : Token, fresh : BOOLEAN]]
  /\ live \in [Id -> Token]
  /\ jar \in 0..MaxSessions
  /\ request \in [Request ->
       [pc : {"idle", "sent", "refresh", "write", "actor", "refused", "done"},
        what : {"user", "signout"}, tab : Tab, id : 0..MaxSessions, token : Token]]
  /\ tab \in [Tab -> BOOLEAN]
  /\ news \in [Tab -> {"none", "in", "out"}]
  /\ faults \in 0..MaxSessionFaults

SessionInit ==
  /\ session = [s \in Id |-> [st |-> "none", token |-> 0, fresh |-> FALSE]]
  /\ live = [s \in Id |-> 0]
  /\ jar = 0
  /\ request = [r \in Request |-> Idle]
  /\ tab = [t \in Tab |-> FALSE]
  /\ news = [t \in Tab |-> "none"]
  /\ faults = 0

Fault == faults < MaxSessionFaults /\ faults' = faults + 1

(* broadcastAuthEvent: the other tabs hear it, by either channel.          *)
Broadcast(t, what) == news' = [u \in Tab |-> IF u = t THEN news[u] ELSE what]

Step(r, pc) == request' = [request EXCEPT ![r].pc = pc]
-----------------------------------------------------------------------------
(* startSession, behind any door: a row, its cookie, and the other tabs.   *)
SignedIn(t) ==
  /\ \E s \in Id :
       /\ session[s].st = "none" /\ \A q \in Id : q < s => session[q].st # "none"
       /\ session' = [session EXCEPT ![s] = [st |-> "live", token |-> 1, fresh |-> TRUE]]
       /\ live' = [live EXCEPT ![s] = 1]
       /\ jar' = s
  /\ Broadcast(t, "in")
  /\ UNCHANGED <<request, tab, faults>>

(* A tab asks who it is (mount, focus, poll, broadcast), or signs out.     *)
Ask(r, t, what) ==
  /\ request[r].pc = "idle"
  /\ request' = [request EXCEPT ![r] =
       [pc |-> "sent", what |-> what, tab |-> t, id |-> jar, token |-> 0]]

Refresh(r, t) == Ask(r, t, "user") /\ UNCHANGED <<session, live, jar, tab, news, faults>>

SignOut(r, t) ==
  /\ tab[t] /\ Ask(r, t, "signout")
  /\ UNCHANGED <<session, live, jar, tab, news, faults>>

(* The broadcast arrives: "out" is believed, "in" only prompts a look.     *)
Hear(r, t) ==
  /\ \/ news[t] = "out" /\ tab' = [tab EXCEPT ![t] = FALSE] /\ UNCHANGED request
     \/ news[t] = "in" /\ Ask(r, t, "user") /\ UNCHANGED tab
  /\ news' = [news EXCEPT ![t] = "none"]
  /\ UNCHANGED <<session, live, jar, faults>>
-----------------------------------------------------------------------------
(* resolveSession. *)
Resolve(r) ==
  LET s == request[r].id IN
  /\ request[r].pc = "sent"
  /\ \/ /\ s = 0 \/ (s # 0 /\ session[s].st # "live")
        /\ Step(r, "refused") /\ UNCHANGED faults
     \/ /\ s # 0 /\ session[s].st = "live"
        /\ IF session[s].fresh THEN Step(r, "actor")
           ELSE request' = [request EXCEPT ![r] = [@ EXCEPT !.pc = "refresh", !.token = session[s].token]]
        /\ UNCHANGED faults
     \/ Step(r, "refused") /\ Fault
  /\ UNCHANGED <<session, live, jar, tab, news>>

(* refreshAccessToken: the platform takes a token once; its answer may be  *)
(* lost after the rotation, or the call before it.                         *)
RefreshToken(r) ==
  LET s == request[r].id
      n == request[r].token + 1
  IN
  /\ request[r].pc = "refresh"
  /\ \/ /\ request[r].token = live[s] /\ live[s] <= MaxRotations
        /\ live' = [live EXCEPT ![s] = n]
        /\ \/ request' = [request EXCEPT ![r] = [@ EXCEPT !.pc = "write", !.token = n]] /\ UNCHANGED faults
           \/ Step(r, "refused") /\ Fault
     \/ request[r].token # live[s] /\ Step(r, "refused") /\ UNCHANGED <<live, faults>>
     \/ Step(r, "refused") /\ UNCHANGED live /\ Fault
  /\ UNCHANGED <<session, jar, tab, news>>

(* Mutant: the new access token is stored, the new refresh token is not.   *)
KeepOldToken(row, token) == [row EXCEPT !.fresh = TRUE]

(* What updateAuthSessionTokens writes.                                    *)
Rotated(row, token) == [row EXCEPT !.token = token, !.fresh = TRUE]

(* Mutant: the rotated pair is inserted if the row is not there. *)
UpsertRow(row, token) == [st |-> "live", token |-> token, fresh |-> TRUE]

(* An UPDATE: of a row that is gone, nothing.                              *)
UpdateRow(row, token) == IF row.st = "live" THEN Rotated(row, token) ELSE row

WriteTokens(r) ==
  LET s == request[r].id IN
  /\ request[r].pc = "write"
  /\ \/ session' = [session EXCEPT ![s] = UpdateRow(@, request[r].token)]
        /\ Step(r, "actor") /\ UNCHANGED faults
     \/ Step(r, "refused") /\ UNCHANGED session /\ Fault
  /\ UNCHANGED <<live, jar, tab, news>>

(* The handler: handleAuthUser answers, handleAuthSignout deletes the row. *)
Handle(r) ==
  LET s == request[r].id IN
  /\ request[r].pc = "actor"
  /\ Step(r, "done")
  /\ session' = IF request[r].what = "signout"
                THEN [session EXCEPT ![s] = [@ EXCEPT !.st = "gone", !.token = 0, !.fresh = FALSE]]
                ELSE session
  /\ UNCHANGED <<live, jar, tab, news, faults>>

(* The answer reaches its tab.  A sign-out clears it whatever came back,   *)
(* and tells the others; only its success clears the cookie.               *)
Answer(r) ==
  LET t == request[r].tab
      ok == request[r].pc = "done"
  IN
  /\ request[r].pc \in {"done", "refused"}
  /\ request' = [request EXCEPT ![r] = Idle]
  /\ IF request[r].what = "signout"
     THEN /\ tab' = [tab EXCEPT ![t] = FALSE] /\ Broadcast(t, "out")
          /\ jar' = IF ok THEN 0 ELSE jar
     ELSE /\ tab' = [tab EXCEPT ![t] = ok]
          /\ UNCHANGED <<jar, news>>
  /\ UNCHANGED <<session, live, faults>>
-----------------------------------------------------------------------------
(* Forty-five minutes, or the session's days; an account-wide revocation.  *)
AccessExpires(s) ==
  /\ session[s].st = "live" /\ session[s].fresh /\ live[s] <= MaxRotations
  /\ session' = [session EXCEPT ![s].fresh = FALSE]
  /\ UNCHANGED <<live, jar, request, tab, news, faults>>

(* getAuthSession's filter and deleteExpiredAuthSessions.                  *)
SessionExpires(s) ==
  /\ session[s].st = "live"
  /\ session' = [session EXCEPT ![s] = [st |-> "gone", token |-> 0, fresh |-> FALSE]]
  /\ UNCHANGED <<live, jar, request, tab, news, faults>>

Revoked(s) ==
  /\ live[s] # 0
  /\ live' = [live EXCEPT ![s] = 0]
  /\ UNCHANGED <<session, jar, request, tab, news, faults>>

SessionNext ==
  \/ \E t \in Tab : SignedIn(t) \/ \E r \in Request : Refresh(r, t) \/ SignOut(r, t) \/ Hear(r, t)
  \/ \E r \in Request : Resolve(r) \/ RefreshToken(r) \/ WriteTokens(r) \/ Handle(r) \/ Answer(r)
  \/ \E s \in Id : AccessExpires(s) \/ SessionExpires(s) \/ Revoked(s)

SessionSpec == SessionInit /\ [][SessionNext]_sessionVars
-----------------------------------------------------------------------------
(* The row's refresh token is the platform's, or the request that rotated  *)
(* it is about to write the new one; it is never stranded by a race, only  *)
(* by a fault.                                                             *)
TokenNotStranded ==
  \A s \in Id :
    session[s].st = "live" /\ live[s] # 0 /\ faults = 0 =>
      \/ session[s].token = live[s]
      \/ \E r \in Request : /\ request[r].pc = "write"
                            /\ request[r].id = s /\ request[r].token = live[s]

(* A deleted or expired session does not come back: not by a request that  *)
(* resolved it before, nor by the tokens such a request writes.            *)
GoneStaysGone ==
  [][\A s \in Id : session[s].st = "gone" => session'[s].st = "gone"]_sessionVars
=============================================================================
