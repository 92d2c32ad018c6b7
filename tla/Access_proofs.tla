----------------------------- MODULE Access_proofs ----------------------------
(***************************************************************************)
(* Proofs about who may call the service and what they see: sessions, the  *)
(* payment doors of the MCP server, the gate of the API, the account       *)
(* pages; for any number of tabs, requests, calls, accounts and keys.      *)
(***************************************************************************)
EXTENDS Session, Agent, Gate, Account, FiniteSetTheorems, TLAPS

-----------------------------------------------------------------------------
(* Sessions: no race of two requests strands a session with a refresh      *)
(* token the platform has replaced, and a session that is gone stays gone. *)

RowType     == [st : {"none", "live", "gone"}, token : Token, fresh : BOOLEAN]
RequestType == [pc : {"idle", "sent", "refresh", "write", "actor", "refused", "done"},
                what : {"user", "signout"}, tab : Tab, id : 0..MaxSessions, token : Token]

Refreshes(r)    == request[r].pc = "refresh"
AboutToWrite(r) == request[r].pc = "write"
Lives(s)        == session[s].st = "live"

(* A request past resolveSession knows a session that was there; the token *)
(* it carries, like that of a row, is a real one.                          *)
KnownInv ==
  /\ \A r \in Request :
       request[r].pc \in {"refresh", "write", "actor"} =>
         /\ request[r].id \in Id
         /\ session[request[r].id].st # "none"
         /\ Refreshes(r) \/ AboutToWrite(r) => request[r].token >= 1
  /\ \A s \in Id : Lives(s) => session[s].token >= 1

(* While the platform's token lives nobody has a later one, a request about *)
(* to write has the platform's and the row a smaller one.                  *)
BehindInv ==
  /\ \A s \in Id : Lives(s) /\ live[s] # 0 => session[s].token <= live[s]
  /\ \A r \in Request : Refreshes(r) /\ live[request[r].id] # 0 => request[r].token <= live[request[r].id]
  /\ \A r \in Request : AboutToWrite(r) =>
       /\ live[request[r].id] # 0 => request[r].token = live[request[r].id]
       /\ Lives(request[r].id) => session[request[r].id].token < request[r].token

(* A session has one writer at most, and those who still have to spend a   *)
(* token for it have one it has replaced.                                  *)
OneWriter ==
  \A q, r \in Request :
    AboutToWrite(q) /\ request[r].id = request[q].id =>
      /\ AboutToWrite(r) => r = q
      /\ Refreshes(r) => request[r].token < request[q].token

SInv == SessionTypeOK /\ KnownInv /\ BehindInv /\ OneWriter /\ TokenNotStranded

-----------------------------------------------------------------------------
(* The types. *)
LEMMA SessionConstants ==
  /\ 0 \in 0..MaxSessions /\ 0 \in Token /\ 1 \in Token
  /\ \A n \in Token : n <= MaxRotations => n + 1 \in Token
  /\ Id \subseteq 0..MaxSessions
  BY SessionAssumption DEF Token, Id

LEMMA IdleType == Idle \in RequestType
<1>1. (CHOOSE t \in Tab : TRUE) \in Tab
  BY SessionAssumption
<1> QED BY <1>1, SessionConstants DEF Idle, RequestType

LEMMA SessionInitTypes == SessionInit => SessionTypeOK
<1> SUFFICES ASSUME SessionInit PROVE SessionTypeOK
  OBVIOUS
<1>1. session \in [Id -> RowType] /\ live \in [Id -> Token]
  BY SessionConstants DEF SessionInit, RowType
<1>2. request \in [Request -> RequestType]
  BY IdleType DEF SessionInit
<1>3. 0 \in 0..MaxSessionFaults
  BY SessionAssumption
<1> QED BY <1>1, <1>2, <1>3, SessionConstants DEF SessionInit, SessionTypeOK, RowType, RequestType

LEMMA SessionStepTypes == SessionTypeOK /\ [SessionNext]_sessionVars => SessionTypeOK'
<1> SUFFICES ASSUME SessionTypeOK, [SessionNext]_sessionVars PROVE SessionTypeOK'
  OBVIOUS
<1>a. /\ session \in [Id -> RowType] /\ live \in [Id -> Token]
      /\ request \in [Request -> RequestType]
      /\ jar \in 0..MaxSessions /\ tab \in [Tab -> BOOLEAN]
      /\ news \in [Tab -> {"none", "in", "out"}] /\ faults \in 0..MaxSessionFaults
  BY DEF SessionTypeOK, RowType, RequestType
<1> SUFFICES /\ session' \in [Id -> RowType] /\ live' \in [Id -> Token]
             /\ request' \in [Request -> RequestType]
             /\ jar' \in 0..MaxSessions /\ tab' \in [Tab -> BOOLEAN]
             /\ news' \in [Tab -> {"none", "in", "out"}] /\ faults' \in 0..MaxSessionFaults
  BY DEF SessionTypeOK, RowType, RequestType
<1>f. Fault => faults' \in 0..MaxSessionFaults
  BY <1>a, SessionAssumption DEF Fault
<1>s. \A r \in Request, pc \in {"idle", "sent", "refresh", "write", "actor", "refused", "done"} :
        Step(r, pc) => request' \in [Request -> RequestType]
  BY <1>a DEF Step, RequestType
<1>1. CASE UNCHANGED sessionVars
  BY <1>1, <1>a DEF sessionVars
<1>2. ASSUME NEW t \in Tab, SignedIn(t) PROVE SessionTypeOK'
  <2>1. session' \in [Id -> RowType] /\ live' \in [Id -> Token] /\ jar' \in 0..MaxSessions
    BY <1>2, <1>a, SessionConstants DEF SignedIn, RowType
  <2>2. news' \in [Tab -> {"none", "in", "out"}]
    BY <1>2, <1>a DEF SignedIn, Broadcast
  <2> QED BY <1>2, <1>a, <2>1, <2>2 DEF SignedIn, SessionTypeOK, RowType, RequestType
<1>3. ASSUME NEW t \in Tab, NEW r \in Request, Refresh(r, t) \/ SignOut(r, t) \/ Hear(r, t)
      PROVE  SessionTypeOK'
  <2>1. \A what \in {"user", "signout"} : Ask(r, t, what) => request' \in [Request -> RequestType]
    BY <1>a, SessionConstants DEF Ask, RequestType
  <2>2. CASE Refresh(r, t) \/ SignOut(r, t)
    BY <2>1, <2>2, <1>a DEF Refresh, SignOut, SessionTypeOK, RowType, RequestType
  <2>3. CASE Hear(r, t)
    <3>1. request' \in [Request -> RequestType]
      BY <2>1, <2>3, <1>a DEF Hear
    <3>2. tab' \in [Tab -> BOOLEAN] /\ news' \in [Tab -> {"none", "in", "out"}]
      BY <2>3, <1>a DEF Hear
    <3> QED BY <2>3, <3>1, <3>2, <1>a DEF Hear, SessionTypeOK, RowType, RequestType
  <2> QED BY <1>3, <2>2, <2>3
<1>4. ASSUME NEW r \in Request, Resolve(r) PROVE SessionTypeOK'
  <2>1. request' \in [Request -> RequestType]
    <3>1. CASE Step(r, "refused") \/ Step(r, "actor")
      BY <3>1, <1>s
    <3>2. CASE /\ request[r].id # 0
               /\ request' = [request EXCEPT ![r] = [@ EXCEPT !.pc = "refresh", !.token = session[request[r].id].token]]
      <4>1. request[r].id \in Id
        BY <3>2, <1>a DEF RequestType, Id
      <4> DEFINE n == session[request[r].id].token
      <4>2. n \in Token
        BY <4>1, <1>a DEF RowType
      <4>3. request' = [request EXCEPT ![r] = [@ EXCEPT !.pc = "refresh", !.token = n]]
        BY <3>2
      <4> HIDE DEF n
      <4>4. \A q \in Request \ {r} : request'[q] = request[q]
        BY <4>3, <1>a
      <4>5. request'[r] \in RequestType
        BY <4>2, <4>3, <1>a DEF RequestType
      <4>6. request' \in [Request -> {request'[q] : q \in Request}]
        BY <4>3, <1>a
      <4> QED BY <4>4, <4>5, <4>6, <1>a
    <3> QED BY <1>4, <3>1, <3>2 DEF Resolve
  <2> QED BY <1>4, <2>1, <1>a, <1>f DEF Resolve, SessionTypeOK, RowType, RequestType
<1>5. ASSUME NEW r \in Request, RefreshToken(r) PROVE SessionTypeOK'
  <2>1. CASE Step(r, "refused") /\ UNCHANGED live
    BY <1>5, <2>1, <1>a, <1>s, <1>f DEF RefreshToken, SessionTypeOK, RowType, RequestType
  <2>2. CASE /\ request[r].token = live[request[r].id] /\ live[request[r].id] <= MaxRotations
             /\ live' = [live EXCEPT ![request[r].id] = request[r].token + 1]
             /\ \/ request' = [request EXCEPT ![r] = [@ EXCEPT !.pc = "write", !.token = request[r].token + 1]]
                   /\ UNCHANGED faults
                \/ Step(r, "refused") /\ Fault
    <3>1. request[r].token + 1 \in Token
      BY <2>2, <1>a, SessionConstants DEF RequestType
    <3>2. live' \in [Id -> Token]
      BY <2>2, <3>1, <1>a
    <3>3. request' \in [Request -> RequestType]
      <4>1. CASE Step(r, "refused")
        BY <4>1, <1>s
      <4>2. CASE request' = [request EXCEPT ![r] = [@ EXCEPT !.pc = "write", !.token = request[r].token + 1]]
        <5> DEFINE n == request[r].token + 1
        <5>1. n \in Token
          BY <3>1
        <5>2. request' = [request EXCEPT ![r] = [@ EXCEPT !.pc = "write", !.token = n]]
          BY <4>2
        <5> HIDE DEF n
        <5>3. [request[r] EXCEPT !.pc = "write", !.token = n] \in RequestType
          BY <5>1, <1>a DEF RequestType
        <5> QED BY <5>2, <5>3, <1>a
      <4> QED BY <2>2, <4>1, <4>2
    <3> QED BY <1>5, <2>2, <3>2, <3>3, <1>a, <1>f DEF RefreshToken, SessionTypeOK, RowType, RequestType
  <2> QED BY <1>5, <2>1, <2>2 DEF RefreshToken
<1>6. ASSUME NEW r \in Request, WriteTokens(r) PROVE SessionTypeOK'
  <2>1. \A row \in RowType, n \in Token : UpdateRow(row, n) \in RowType
    BY DEF UpdateRow, Rotated, RowType
  <2>2. request[r].token \in Token
    BY <1>a DEF RequestType
  <2>3. session' \in [Id -> RowType]
    BY <1>6, <2>1, <2>2, <1>a DEF WriteTokens
  <2> QED BY <1>6, <2>3, <1>a, <1>s, <1>f DEF WriteTokens, SessionTypeOK, RowType, RequestType
<1>7. ASSUME NEW r \in Request, Handle(r) PROVE SessionTypeOK'
  <2>1. session' \in [Id -> RowType]
    BY <1>7, <1>a, SessionConstants DEF Handle, RowType
  <2> QED BY <1>7, <2>1, <1>a, <1>s DEF Handle, SessionTypeOK, RowType, RequestType
<1>8. ASSUME NEW r \in Request, Answer(r) PROVE SessionTypeOK'
  <2>1. request' \in [Request -> RequestType]
    BY <1>8, <1>a, IdleType DEF Answer
  <2>2. jar' \in 0..MaxSessions
    BY <1>8, <1>a, SessionConstants DEF Answer
  <2>3. news' \in [Tab -> {"none", "in", "out"}]
    BY <1>8, <1>a DEF Answer, Broadcast
  <2>4. tab' \in [Tab -> BOOLEAN]
    BY <1>8, <1>a DEF Answer
  <2> QED BY <1>8, <2>1, <2>2, <2>3, <2>4, <1>a DEF Answer, SessionTypeOK, RowType, RequestType
<1>9. ASSUME NEW s \in Id, AccessExpires(s) \/ SessionExpires(s) \/ Revoked(s) PROVE SessionTypeOK'
  <2>1. session' \in [Id -> RowType]
    <3>1. CASE AccessExpires(s)
      BY <3>1, <1>a DEF AccessExpires, RowType
    <3>2. CASE SessionExpires(s)
      <4>1. [st |-> "gone", token |-> 0, fresh |-> FALSE] \in RowType
        BY SessionConstants DEF RowType
      <4> QED BY <3>2, <4>1, <1>a DEF SessionExpires
    <3>3. CASE Revoked(s)
      BY <3>3, <1>a DEF Revoked
    <3> QED BY <1>9, <3>1, <3>2, <3>3
  <2>2. live' \in [Id -> Token]
    BY <1>9, <1>a, SessionConstants DEF AccessExpires, SessionExpires, Revoked
  <2> QED BY <1>9, <2>1, <2>2, <1>a
        DEF AccessExpires, SessionExpires, Revoked, SessionTypeOK, RowType, RequestType
<1> QED BY <1>1, <1>2, <1>3, <1>4, <1>5, <1>6, <1>7, <1>8, <1>9, <1>a
      DEF SessionNext, SessionTypeOK, RowType, RequestType

-----------------------------------------------------------------------------
(* The invariant.  Rows and requests, one at a time. *)
SameRow(s)     == session'[s].st = session[s].st /\ session'[s].token = session[s].token
SameRequest(r) ==
  request'[r].pc = request[r].pc /\ request'[r].id = request[r].id /\ request'[r].token = request[r].token
Outside(r)     == request'[r].pc \in {"idle", "sent", "refused", "done"}

(* A step that leaves rows and platform alone and at most takes requests   *)
(* out of the way keeps all of it.                                         *)
LEMMA CalmStep ==
  ASSUME SInv, SessionTypeOK', live' = live, \A s \in Id : SameRow(s),
         \A r \in Request : SameRequest(r) \/ Outside(r),
         faults' = 0 => faults = 0 /\ \A r \in Request : AboutToWrite(r) => SameRequest(r)
  PROVE  SInv'
<1>1. KnownInv'
  BY DEF SInv, KnownInv, SameRow, SameRequest, Outside, Lives, Refreshes, AboutToWrite
<1>2. BehindInv'
  <2>1. \A s \in Id : Lives(s)' /\ live'[s] # 0 => session'[s].token <= live'[s]
    BY DEF SInv, BehindInv, SameRow, Lives
  <2>2. \A r \in Request : Refreshes(r)' \/ AboutToWrite(r)' => SameRequest(r) /\ request[r].id \in Id
    BY DEF SInv, KnownInv, SameRequest, Outside, Refreshes, AboutToWrite
  <2> QED BY <2>1, <2>2 DEF SInv, BehindInv, SameRow, SameRequest, Lives, Refreshes, AboutToWrite
<1>3. OneWriter'
  BY DEF SInv, OneWriter, SameRequest, Outside, Refreshes, AboutToWrite
<1>4. TokenNotStranded'
  BY DEF SInv, TokenNotStranded, SameRow, SameRequest, AboutToWrite
<1> QED BY <1>1, <1>2, <1>3, <1>4 DEF SInv

(* One request moves, by Step or by writing all of it.                     *)
LEMMA StepMoves ==
  ASSUME SessionTypeOK, NEW r \in Request, NEW pc, Step(r, pc)
  PROVE  /\ \A q \in Request \ {r} : SameRequest(q)
         /\ request'[r].pc = pc /\ request'[r].id = request[r].id
         /\ request'[r].token = request[r].token
  BY DEF SessionTypeOK, Step, SameRequest

LEMMA AskMoves ==
  ASSUME SessionTypeOK, NEW r \in Request, NEW t, NEW what, Ask(r, t, what)
  PROVE  (\A q \in Request \ {r} : SameRequest(q)) /\ Outside(r) /\ ~AboutToWrite(r)
  BY DEF SessionTypeOK, Ask, SameRequest, Outside, AboutToWrite

LEMMA FaultCounts == ASSUME SessionTypeOK, Fault PROVE faults' # 0
  BY DEF SessionTypeOK, Fault

LEMMA TabStep ==
  ASSUME SInv, SessionTypeOK', NEW t \in Tab, NEW r \in Request,
         Refresh(r, t) \/ SignOut(r, t) \/ Hear(r, t)
  PROVE  SInv'
<1>1. session' = session /\ live' = live /\ faults' = faults
  BY DEF Refresh, SignOut, Hear
<1>2. (\E what : Ask(r, t, what)) \/ request' = request
  BY Zenon DEF Refresh, SignOut, Hear
<1>3. \A q \in Request : SameRequest(q) \/ (Outside(q) /\ ~AboutToWrite(q))
  BY <1>2, AskMoves DEF SInv, SameRequest
<1>4. \A s \in Id : SameRow(s)
  BY <1>1 DEF SameRow
<1>5. faults' = 0 => faults = 0 /\ \A q \in Request : AboutToWrite(q) => SameRequest(q)
  BY <1>1, <1>3
<1> QED BY <1>1, <1>3, <1>4, <1>5, CalmStep

(* A request that fails, or has its answer. *)
LEMMA RefusedStep ==
  ASSUME SInv, SessionTypeOK', UNCHANGED <<session, live>>, NEW r \in Request, Step(r, "refused"),
         Fault \/ (UNCHANGED faults /\ ~AboutToWrite(r))
  PROVE  SInv'
<1>1. (\A q \in Request \ {r} : SameRequest(q)) /\ Outside(r)
  BY StepMoves DEF SInv, Outside
<1>2. \A s \in Id : SameRow(s)
  BY DEF SameRow
<1>3. faults' = 0 => faults = 0 /\ \A q \in Request : AboutToWrite(q) => SameRequest(q)
  BY <1>1, FaultCounts DEF SInv
<1> QED BY <1>1, <1>2, <1>3, CalmStep

LEMMA AnswerStep ==
  ASSUME SInv, SessionTypeOK', NEW r \in Request, Answer(r)
  PROVE  SInv'
<1>1. \A q \in Request \ {r} : SameRequest(q)
  BY DEF Answer, SInv, SessionTypeOK, SameRequest
<1>2. Outside(r) /\ ~AboutToWrite(r)
  BY DEF Answer, SInv, SessionTypeOK, Outside, Idle, AboutToWrite
<1>3. \A s \in Id : SameRow(s)
  BY DEF Answer, SameRow
<1>4. live' = live /\ faults' = faults
  BY DEF Answer
<1> QED BY <1>1, <1>2, <1>3, <1>4, CalmStep

(* A new session: nobody knows it yet. *)
LEMMA SignedInStep ==
  ASSUME SInv, SessionTypeOK', NEW t \in Tab, SignedIn(t)
  PROVE  SInv'
<1>1. PICK n \in Id :
        /\ session[n].st = "none"
        /\ session' = [session EXCEPT ![n] = [st |-> "live", token |-> 1, fresh |-> TRUE]]
        /\ live' = [live EXCEPT ![n] = 1]
  BY DEF SignedIn
<1>2. request' = request /\ faults' = faults
  BY DEF SignedIn
<1>3. \A s \in Id \ {n} : SameRow(s) /\ live'[s] = live[s]
  BY <1>1 DEF SInv, SessionTypeOK, SameRow
<1>4. session'[n].st = "live" /\ session'[n].token = 1 /\ live'[n] = 1
  BY <1>1 DEF SInv, SessionTypeOK
<1>5. \A r \in Request : Refreshes(r) \/ AboutToWrite(r) \/ request[r].pc = "actor" =>
        request[r].id \in Id \ {n}
  BY <1>1 DEF SInv, KnownInv, Refreshes, AboutToWrite
<1>6. KnownInv'
  BY <1>2, <1>3, <1>4, <1>5 DEF SInv, KnownInv, SameRow, Lives, Refreshes, AboutToWrite
<1>7. BehindInv'
  BY <1>2, <1>3, <1>4, <1>5 DEF SInv, BehindInv, SameRow, Lives, Refreshes, AboutToWrite
<1>8. OneWriter'
  BY <1>2 DEF SInv, OneWriter, Refreshes, AboutToWrite
<1>9. TokenNotStranded'
  BY <1>2, <1>3, <1>4 DEF SInv, TokenNotStranded, SameRow
<1> QED BY <1>6, <1>7, <1>8, <1>9 DEF SInv

(* resolveSession: fresh, or with the row's token to spend.  A writer of   *)
(* that session has a later one.                                           *)
LEMMA ResolveStep ==
  ASSUME SInv, SessionTypeOK', NEW r \in Request, Resolve(r)
  PROVE  SInv'
<1> DEFINE s == request[r].id
<1>0. UNCHANGED <<session, live>> /\ request[r].pc = "sent" /\ ~AboutToWrite(r)
  BY DEF Resolve, AboutToWrite
<1>1. CASE Step(r, "refused") /\ (UNCHANGED faults \/ Fault)
  BY <1>0, <1>1, RefusedStep
<1>2. CASE ~Step(r, "refused")
  <2>1. /\ s # 0 /\ session[s].st = "live" /\ UNCHANGED faults
        /\ \/ Step(r, "actor")
           \/ request' = [request EXCEPT ![r] = [@ EXCEPT !.pc = "refresh", !.token = session[s].token]]
    BY <1>2 DEF Resolve
  <2>2. s \in Id
    BY <2>1 DEF SInv, SessionTypeOK, Id
  <2> DEFINE tok == session[s].token
  <2>a. \/ Step(r, "actor")
        \/ request' = [request EXCEPT ![r] = [@ EXCEPT !.pc = "refresh", !.token = tok]]
    BY <2>1
  <2> HIDE DEF tok
  <2>3. \A q \in Request \ {r} : SameRequest(q)
    BY <2>a, StepMoves DEF SInv, SessionTypeOK, SameRequest
  <2>b. /\ request'[r].id = s
        /\ \/ request'[r].pc = "actor"
           \/ request'[r].pc = "refresh" /\ request'[r].token = tok
    <3>1. CASE Step(r, "actor")
      BY <3>1 DEF Step, SInv, SessionTypeOK
    <3>2. CASE request' = [request EXCEPT ![r] = [@ EXCEPT !.pc = "refresh", !.token = tok]]
      BY <3>2 DEF SInv, SessionTypeOK
    <3> QED BY <2>a, <3>1, <3>2
  <2>4. /\ request'[r].id = s
        /\ \/ request'[r].pc = "actor"
           \/ request'[r].pc = "refresh" /\ request'[r].token = session[s].token
    BY <2>b DEF tok
  <2>5. KnownInv'
    BY <1>0, <2>1, <2>2, <2>3, <2>4 DEF SInv, KnownInv, SameRequest, Lives, Refreshes, AboutToWrite
  <2>6. BehindInv'
    BY <1>0, <2>1, <2>2, <2>3, <2>4 DEF SInv, BehindInv, SameRequest, Lives, Refreshes, AboutToWrite
  <2>7. OneWriter'
    BY <1>0, <2>1, <2>3, <2>4 DEF SInv, OneWriter, BehindInv, SameRequest, Lives, Refreshes, AboutToWrite
  <2>8. TokenNotStranded'
    <3>1. \A q \in Request : AboutToWrite(q) => SameRequest(q)
      BY <1>0, <2>3 DEF AboutToWrite
    <3> QED BY <1>0, <2>1, <3>1 DEF SInv, TokenNotStranded, SameRequest, AboutToWrite
  <2> QED BY <2>5, <2>6, <2>7, <2>8 DEF SInv
<1> QED BY <1>1, <1>2 DEF Resolve

(* The platform takes the token and gives the next: the one writer of that *)
(* session is the request that has it.                                     *)
LEMMA RefreshStep ==
  ASSUME SInv, SessionTypeOK', NEW r \in Request, RefreshToken(r)
  PROVE  SInv'
<1> DEFINE s == request[r].id
<1> DEFINE n == request[r].token + 1
<1>0. UNCHANGED session /\ request[r].pc = "refresh" /\ ~AboutToWrite(r) /\ s \in Id /\ n - 1 >= 1
  BY DEF RefreshToken, AboutToWrite, Refreshes, SInv, KnownInv, SessionTypeOK, Token
<1>t. n \in Nat /\ \A q \in Id : live[q] \in Nat /\ session[q].token \in Nat
  BY SessionAssumption DEF SInv, SessionTypeOK, Token
<1>u. \A q \in Request : request[q].token \in Nat
  BY SessionAssumption DEF SInv, SessionTypeOK, Token
<1>1. CASE UNCHANGED live /\ Step(r, "refused")
  BY <1>0, <1>1, RefusedStep DEF RefreshToken
<1>2. CASE /\ request[r].token = live[s] /\ live' = [live EXCEPT ![s] = n]
           /\ \/ request' = [request EXCEPT ![r] = [@ EXCEPT !.pc = "write", !.token = n]] /\ UNCHANGED faults
              \/ Step(r, "refused") /\ Fault
  <2>1. \A q \in Request \ {r} : SameRequest(q)
    BY <1>2, StepMoves DEF SInv, SessionTypeOK, SameRequest
  <2>2. /\ request'[r].id = s
        /\ \/ request'[r].pc = "write" /\ request'[r].token = n /\ UNCHANGED faults
           \/ request'[r].pc = "refused" /\ Fault
    <3>1. request \in [Request -> RequestType] /\ request[r] \in RequestType
      BY DEF SInv, SessionTypeOK, RequestType
    <3>2. CASE Step(r, "refused") /\ Fault
      BY <3>2, StepMoves DEF SInv, SessionTypeOK
    <3>3. CASE request' = [request EXCEPT ![r] = [@ EXCEPT !.pc = "write", !.token = n]] /\ UNCHANGED faults
      <4> HIDE DEF n
      <4> QED BY <3>1, <3>3 DEF RequestType
    <3> QED BY <1>2, <3>2, <3>3
  <2>3. live'[s] = n /\ live[s] = n - 1 /\ \A q \in Id \ {s} : live'[q] = live[q]
    BY <1>0, <1>2, <1>u DEF SInv, SessionTypeOK
  <2>4. \A q \in Request : request[q].id = s => ~AboutToWrite(q)
    <3> SUFFICES ASSUME NEW q \in Request, request[q].id = s, AboutToWrite(q) PROVE FALSE
      OBVIOUS
    <3>1. request[q].token = n - 1
      BY <1>0, <1>t, <2>3 DEF SInv, BehindInv
    <3>2. request[r].token < request[q].token
      BY <1>0 DEF SInv, OneWriter, Refreshes
    <3> QED BY <3>1, <3>2, <1>u
  <2>5. KnownInv'
    BY <1>0, <1>t, <2>1, <2>2 DEF SInv, KnownInv, SameRequest, Lives, Refreshes, AboutToWrite
  <2>6. BehindInv'
    <3>1. \A q \in Id : Lives(q)' /\ live'[q] # 0 => session'[q].token <= live'[q]
      BY <1>0, <1>t, <2>3 DEF SInv, BehindInv, Lives
    <3>2. ASSUME NEW q \in Request, Refreshes(q)', live'[request'[q].id] # 0
          PROVE  request'[q].token <= live'[request'[q].id]
      <4>1. q # r /\ Refreshes(q) /\ SameRequest(q)
        BY <2>1, <2>2, <3>2 DEF Refreshes, SameRequest
      <4>2. request[q].id \in Id
        BY <4>1 DEF SInv, KnownInv, Refreshes
      <4>3. CASE request[q].id = s
        BY <1>0, <1>t, <1>u, <2>3, <4>1, <4>3 DEF SInv, BehindInv, SameRequest
      <4>4. CASE request[q].id # s
        BY <2>3, <3>2, <4>1, <4>2, <4>4 DEF SInv, BehindInv, SameRequest
      <4> QED BY <4>3, <4>4
    <3>3. ASSUME NEW q \in Request, AboutToWrite(q)'
          PROVE  /\ live'[request'[q].id] # 0 => request'[q].token = live'[request'[q].id]
                 /\ session'[request'[q].id].st = "live" => session'[request'[q].id].token < request'[q].token
      <4>1. CASE q = r
        <5>1. request'[r].id = s /\ request'[r].token = n
          BY <2>2, <3>3, <4>1 DEF AboutToWrite
        <5>2. Lives(s) => session[s].token <= n - 1
          BY <1>0, <1>t, <2>3 DEF SInv, BehindInv
        <5>3. session[s].st = "live" => session[s].token < n
          BY <1>0, <1>t, <5>2 DEF Lives
        <5> QED BY <1>0, <2>3, <4>1, <5>1, <5>3
      <4>2. CASE q # r
        <5>1. SameRequest(q) /\ AboutToWrite(q)
          BY <2>1, <3>3, <4>2 DEF AboutToWrite, SameRequest
        <5>2. request[q].id \in Id /\ request[q].id # s
          BY <2>4, <5>1 DEF SInv, KnownInv, AboutToWrite
        <5> QED BY <1>0, <2>3, <5>1, <5>2 DEF SInv, BehindInv, SameRequest, Lives
      <4> QED BY <4>1, <4>2
    <3> QED BY <3>1, <3>2, <3>3 DEF BehindInv, Lives, Refreshes, AboutToWrite
  <2>7. OneWriter'
    <3> SUFFICES ASSUME NEW q \in Request, NEW p \in Request, AboutToWrite(q)', request'[p].id = request'[q].id
                 PROVE  /\ AboutToWrite(p)' => p = q
                        /\ Refreshes(p)' => request'[p].token < request'[q].token
      BY DEF OneWriter
    <3>1. CASE q = r
      <4>1. request'[q].id = s /\ request'[q].token = n
        BY <2>2, <3>1 DEF AboutToWrite
      <4>2. p = r \/ (SameRequest(p) /\ request[p].id = s)
        BY <2>1, <4>1 DEF SameRequest
      <4>3. CASE p = r
        BY <2>2, <3>1, <4>3 DEF AboutToWrite, Refreshes
      <4>4. CASE SameRequest(p) /\ request[p].id = s /\ p # r
        <5>1. ~AboutToWrite(p)'
          BY <2>4, <4>4 DEF SameRequest, AboutToWrite
        <5>2. Refreshes(p) => request[p].token <= n - 1
          BY <1>0, <1>t, <2>3, <4>4 DEF SInv, BehindInv
        <5>3. Refreshes(p)' => request'[p].token < n
          BY <1>t, <1>u, <4>4, <5>2 DEF SameRequest, Refreshes
        <5> QED BY <4>1, <5>1, <5>3
      <4> QED BY <4>2, <4>3, <4>4
    <3>2. CASE q # r
      <4>1. SameRequest(q) /\ AboutToWrite(q)
        BY <2>1, <3>2 DEF AboutToWrite, SameRequest
      <4>2. request[q].id # s
        BY <2>4, <4>1
      <4>3. p # r
        BY <2>2, <4>1, <4>2 DEF SameRequest
      <4>4. SameRequest(p)
        BY <2>1, <4>3
      <4> QED BY <4>1, <4>4 DEF SInv, OneWriter, SameRequest, AboutToWrite, Refreshes
    <3> QED BY <3>1, <3>2
  <2>8. TokenNotStranded'
    <3> SUFFICES ASSUME NEW q \in Id, session'[q].st = "live", live'[q] # 0, faults' = 0
                 PROVE  \/ session'[q].token = live'[q]
                        \/ \E p \in Request : /\ request'[p].pc = "write"
                                              /\ request'[p].id = q /\ request'[p].token = live'[q]
      BY DEF TokenNotStranded
    <3>1. request'[r].pc = "write" /\ request'[r].token = n /\ faults = 0
      BY <2>2, FaultCounts DEF SInv
    <3>2. CASE q = s
      BY <2>2, <2>3, <3>1, <3>2
    <3>3. CASE q # s
      <4>1. live'[q] = live[q]
        BY <2>3, <3>3
      <4>2. CASE session[q].token = live[q]
        BY <1>0, <4>1, <4>2
      <4>3. CASE session[q].token # live[q]
        <5>1. PICK p \in Request : request[p].pc = "write" /\ request[p].id = q /\ request[p].token = live[q]
          BY <1>0, <3>1, <4>1, <4>3 DEF SInv, TokenNotStranded
        <5>2. SameRequest(p)
          BY <1>0, <2>1, <5>1
        <5> QED BY <4>1, <5>1, <5>2 DEF SameRequest
      <4> QED BY <4>2, <4>3
    <3> QED BY <3>2, <3>3
  <2> QED BY <2>5, <2>6, <2>7, <2>8 DEF SInv
<1> QED BY <1>1, <1>2 DEF RefreshToken

(* updateAuthSessionTokens: the row catches up with the platform, unless   *)
(* the call is lost or the row is gone.                                    *)
LEMMA WriteStep ==
  ASSUME SInv, SessionTypeOK', NEW r \in Request, WriteTokens(r)
  PROVE  SInv'
<1> DEFINE s == request[r].id
<1>0. AboutToWrite(r) /\ s \in Id /\ UNCHANGED live
  BY DEF WriteTokens, AboutToWrite, SInv, KnownInv
<1>1. CASE Step(r, "refused") /\ UNCHANGED session /\ Fault
  BY <1>0, <1>1, RefusedStep
<1>2. CASE /\ session' = [session EXCEPT ![s] = UpdateRow(session[s], request[r].token)]
           /\ Step(r, "actor") /\ UNCHANGED faults
  <2>1. /\ \A q \in Request \ {r} : SameRequest(q)
        /\ request'[r].pc = "actor" /\ request'[r].id = s
    BY <1>2, StepMoves DEF SInv
  <2>2. \A q \in Id \ {s} : SameRow(q)
    BY <1>2 DEF SInv, SessionTypeOK, SameRow
  <2>3. /\ session'[s].st = session[s].st
        /\ Lives(s) => session'[s].token = request[r].token
        /\ ~Lives(s) => session'[s].token = session[s].token
    BY <1>0, <1>2 DEF SInv, SessionTypeOK, UpdateRow, Rotated, Lives
  <2>4. request[r].token >= 1 /\ (live[s] # 0 => request[r].token = live[s])
    <3>1. request[r].pc = "write"
      BY <1>0 DEF AboutToWrite
    <3>2. request[r].token >= 1
      BY <1>0, <3>1 DEF SInv, KnownInv
    <3>3. live[s] # 0 => request[r].token = live[s]
      BY <1>0 DEF SInv, BehindInv
    <3> QED BY <3>2, <3>3
  <2>5. \A q \in Request : Refreshes(q)' \/ AboutToWrite(q)' => q # r /\ SameRequest(q) /\ request[q].id \in Id
    BY <2>1 DEF SInv, KnownInv, SameRequest, Refreshes, AboutToWrite
  <2>t. \A q \in Id : live[q] \in Nat /\ session[q].token \in Nat
    BY SessionAssumption DEF SInv, SessionTypeOK, Token
  <2>6. KnownInv'
    <3>1. \A q \in Id : Lives(q)' => session'[q].token >= 1
      BY <2>2, <2>3, <2>4 DEF SInv, KnownInv, SameRow, Lives
    <3>2. \A q \in Id : session'[q].st = session[q].st
      BY <2>2, <2>3 DEF SameRow
    <3> QED BY <1>0, <2>1, <3>1, <3>2 DEF SInv, KnownInv, SameRequest, Refreshes, AboutToWrite
  <2>7. BehindInv'
    <3>1. \A q \in Id : Lives(q)' /\ live'[q] # 0 => session'[q].token <= live'[q]
      BY <1>0, <2>2, <2>3, <2>4, <2>t DEF SInv, BehindInv, SameRow, Lives
    <3>2. \A q \in Request : Refreshes(q)' /\ live'[request'[q].id] # 0 => request'[q].token <= live'[request'[q].id]
      BY <1>0, <2>5 DEF SInv, BehindInv, SameRequest, Refreshes
    <3>3. ASSUME NEW q \in Request, AboutToWrite(q)'
          PROVE  /\ live'[request'[q].id] # 0 => request'[q].token = live'[request'[q].id]
                 /\ session'[request'[q].id].st = "live" => session'[request'[q].id].token < request'[q].token
      <4>1. q # r /\ SameRequest(q) /\ AboutToWrite(q) /\ request[q].id \in Id
        BY <2>5, <3>3 DEF SameRequest, AboutToWrite
      <4>2. request[q].id # s
        BY <1>0, <4>1 DEF SInv, OneWriter
      <4> QED BY <1>0, <2>2, <4>1, <4>2 DEF SInv, BehindInv, SameRequest, SameRow, Lives
    <3> QED BY <3>1, <3>2, <3>3 DEF BehindInv, Lives, Refreshes, AboutToWrite
  <2>8. OneWriter'
    BY <2>1, <2>5 DEF SInv, OneWriter, SameRequest, Refreshes, AboutToWrite
  <2>9. TokenNotStranded'
    <3> SUFFICES ASSUME NEW q \in Id, session'[q].st = "live", live'[q] # 0, faults' = 0
                 PROVE  \/ session'[q].token = live'[q]
                        \/ \E p \in Request : /\ request'[p].pc = "write"
                                              /\ request'[p].id = q /\ request'[p].token = live'[q]
      BY DEF TokenNotStranded
    <3>1. CASE q = s
      BY <1>0, <2>3, <2>4, <3>1 DEF Lives
    <3>2. CASE q # s
      <4>1. SameRow(q) /\ faults = 0 /\ live'[q] = live[q]
        BY <1>0, <1>2, <2>2, <3>2
      <4>2. CASE session[q].token = live[q]
        BY <4>1, <4>2 DEF SameRow
      <4>3. CASE session[q].token # live[q]
        <5>1. PICK p \in Request :
                request[p].pc = "write" /\ request[p].id = q /\ request[p].token = live[q]
          BY <4>1, <4>3 DEF SInv, TokenNotStranded, SameRow
        <5>2. SameRequest(p)
          BY <2>1, <3>2, <5>1
        <5> QED BY <4>1, <5>1, <5>2 DEF SameRequest
      <4> QED BY <4>2, <4>3
    <3> QED BY <3>1, <3>2
  <2> QED BY <2>6, <2>7, <2>8, <2>9 DEF SInv
<1> QED BY <1>1, <1>2 DEF WriteTokens

(* A row or its platform token goes; nobody else's changes.                *)
LEMMA GoneStep ==
  ASSUME SInv, SessionTypeOK', faults' = faults, NEW s \in Id,
         \A q \in Request : SameRequest(q) \/ (Outside(q) /\ ~AboutToWrite(q)),
         \A q \in Id \ {s} : SameRow(q) /\ live'[q] = live[q],
         \/ session'[s].st = "gone" /\ live'[s] = live[s]
         \/ SameRow(s) /\ live'[s] = 0
  PROVE  SInv'
<1>1. \A q \in Request : Refreshes(q)' \/ AboutToWrite(q)' => SameRequest(q) /\ request[q].id \in Id
  BY DEF SInv, KnownInv, SameRequest, Outside, Refreshes, AboutToWrite
<1>2. KnownInv'
  <2>1. \A q \in Request : request'[q].pc = "actor" => SameRequest(q) /\ request[q].id \in Id
    BY DEF SInv, KnownInv, SameRequest, Outside
  <2>2. \A q \in Id : session[q].st # "none" => session'[q].st # "none"
    BY DEF SameRow
  <2>3. \A q \in Id : Lives(q)' => session'[q].token >= 1
    BY DEF SInv, KnownInv, SameRow, Lives
  <2> QED BY <1>1, <2>1, <2>2, <2>3 DEF SInv, KnownInv, SameRequest, Refreshes, AboutToWrite
<1>3. BehindInv'
  <2>1. \A q \in Id : Lives(q)' /\ live'[q] # 0 => session'[q].token <= live'[q]
    BY DEF SInv, BehindInv, SameRow, Lives
  <2>2. \A q \in Request : Refreshes(q)' /\ live'[request'[q].id] # 0 => request'[q].token <= live'[request'[q].id]
    BY <1>1 DEF SInv, BehindInv, SameRequest, Refreshes
  <2>3. ASSUME NEW q \in Request, AboutToWrite(q)'
        PROVE  /\ live'[request'[q].id] # 0 => request'[q].token = live'[request'[q].id]
               /\ session'[request'[q].id].st = "live" => session'[request'[q].id].token < request'[q].token
    BY <1>1, <2>3 DEF SInv, BehindInv, SameRequest, SameRow, Lives, AboutToWrite
  <2> QED BY <2>1, <2>2, <2>3 DEF BehindInv, Lives, Refreshes, AboutToWrite
<1>4. OneWriter'
  BY <1>1 DEF SInv, OneWriter, SameRequest, Refreshes, AboutToWrite
<1>5. TokenNotStranded'
  <2>1. \A q \in Id : session'[q].st = "live" /\ live'[q] # 0 => SameRow(q) /\ live'[q] = live[q]
    OBVIOUS
  <2>2. \A p \in Request : request[p].pc = "write" => SameRequest(p)
    BY DEF AboutToWrite
  <2> QED BY <2>1, <2>2 DEF SInv, TokenNotStranded, SameRow, SameRequest
<1> QED BY <1>2, <1>3, <1>4, <1>5 DEF SInv

LEMMA HandleStep ==
  ASSUME SInv, SessionTypeOK', NEW r \in Request, Handle(r)
  PROVE  SInv'
<1> DEFINE s == request[r].id
<1>1. /\ UNCHANGED <<live, faults>> /\ ~AboutToWrite(r) /\ s \in Id
  BY DEF Handle, AboutToWrite, SInv, KnownInv
<1>2. (\A q \in Request \ {r} : SameRequest(q)) /\ Outside(r)
  BY StepMoves DEF Handle, SInv, Outside
<1>3. \A q \in Request : SameRequest(q) \/ (Outside(q) /\ ~AboutToWrite(q))
  BY <1>1, <1>2
<1>4. \A q \in Id \ {s} : SameRow(q) /\ live'[q] = live[q]
  BY <1>1 DEF Handle, SInv, SessionTypeOK, SameRow
<1>5. CASE request[r].what = "signout"
  <2>1. session'[s].st = "gone" /\ live'[s] = live[s]
    BY <1>1, <1>5 DEF Handle, SInv, SessionTypeOK
  <2> QED BY <1>1, <1>3, <1>4, <2>1, GoneStep
<1>6. CASE request[r].what # "signout"
  <2>1. \A q \in Id : SameRow(q)
    BY <1>6 DEF Handle, SameRow
  <2>2. \A q \in Request : AboutToWrite(q) => SameRequest(q)
    BY <1>3
  <2> QED BY <1>1, <1>3, <2>1, <2>2, CalmStep
<1> QED BY <1>5, <1>6

LEMMA ExpiryStep ==
  ASSUME SInv, SessionTypeOK', NEW s \in Id, AccessExpires(s) \/ SessionExpires(s) \/ Revoked(s)
  PROVE  SInv'
<1>1. UNCHANGED <<request, faults>> /\ \A q \in Request : SameRequest(q)
  BY DEF AccessExpires, SessionExpires, Revoked, SameRequest
<1>2. CASE AccessExpires(s)
  <2>1. \A q \in Id : SameRow(q)
    BY <1>2 DEF AccessExpires, SInv, SessionTypeOK, SameRow
  <2> QED BY <1>1, <1>2, <2>1, CalmStep DEF AccessExpires
<1>3. CASE SessionExpires(s) \/ Revoked(s)
  <2>1. \A q \in Id \ {s} : SameRow(q) /\ live'[q] = live[q]
    BY <1>3 DEF SessionExpires, Revoked, SInv, SessionTypeOK, SameRow
  <2>2. \/ session'[s].st = "gone" /\ live'[s] = live[s]
        \/ SameRow(s) /\ live'[s] = 0
    BY <1>3 DEF SessionExpires, Revoked, SInv, SessionTypeOK, SameRow
  <2> QED BY <1>1, <2>1, <2>2, GoneStep
<1> QED BY <1>2, <1>3

LEMMA SessionStart == SessionInit => SInv
<1> SUFFICES ASSUME SessionInit PROVE SInv
  OBVIOUS
<1>1. SessionTypeOK
  BY SessionInitTypes
<1>2. \A r \in Request : request[r].pc = "idle"
  BY DEF SessionInit, Idle
<1>3. \A s \in Id : session[s].st = "none" /\ live[s] = 0
  BY DEF SessionInit
<1> QED BY <1>1, <1>2, <1>3
      DEF SInv, KnownInv, BehindInv, OneWriter, TokenNotStranded, Lives, Refreshes, AboutToWrite

(* SInv is an invariant of the session. *)
THEOREM SessionInvariant == SessionSpec => []SInv
<1>1. SInv /\ [SessionNext]_sessionVars => SInv'
  <2> SUFFICES ASSUME SInv, [SessionNext]_sessionVars PROVE SInv'
    OBVIOUS
  <2>0. SessionTypeOK'
    BY SessionStepTypes DEF SInv
  <2>1. CASE UNCHANGED sessionVars
    BY <2>0, <2>1, CalmStep DEF sessionVars, SameRow, SameRequest
  <2>2. ASSUME NEW t \in Tab, SignedIn(t) PROVE SInv'
    BY <2>0, <2>2, SignedInStep
  <2>3. ASSUME NEW t \in Tab, NEW r \in Request, Refresh(r, t) \/ SignOut(r, t) \/ Hear(r, t)
        PROVE  SInv'
    BY <2>0, <2>3, TabStep
  <2>4. ASSUME NEW r \in Request,
               Resolve(r) \/ RefreshToken(r) \/ WriteTokens(r) \/ Handle(r) \/ Answer(r)
        PROVE  SInv'
    BY <2>0, <2>4, ResolveStep, RefreshStep, WriteStep, HandleStep, AnswerStep
  <2>5. ASSUME NEW s \in Id, AccessExpires(s) \/ SessionExpires(s) \/ Revoked(s) PROVE SInv'
    BY <2>0, <2>5, ExpiryStep
  <2> QED BY <2>1, <2>2, <2>3, <2>4, <2>5 DEF SessionNext
<1> QED BY <1>1, SessionStart, PTL DEF SessionSpec

(* Every variable of the cookie session keeps its type.                    *)
THEOREM SessionTypes == SessionSpec => []SessionTypeOK
<1>1. SInv => SessionTypeOK
  BY DEF SInv
<1> QED BY <1>1, SessionInvariant, PTL

(* However many requests of a page find the access token expired at once,  *)
(* and whatever is signed out, expired or revoked meanwhile: while no call *)
(* fails, a live session holds the platform's refresh token, or a request  *)
(* is about to write it.                                                   *)
THEOREM RaceStrandsNothing == SessionSpec => []TokenNotStranded
<1>1. SInv => TokenNotStranded
  BY DEF SInv
<1> QED BY <1>1, SessionInvariant, PTL

(* A session that was signed out or has expired never comes back, whatever *)
(* a request that resolved it before still writes.                         *)
THEOREM GoneForGood == SessionSpec => GoneStaysGone
<1>1. SInv /\ [SessionNext]_sessionVars
        => [\A s \in Id : session[s].st = "gone" => session'[s].st = "gone"]_sessionVars
  <2> SUFFICES ASSUME SInv, SessionNext, NEW s \in Id, session[s].st = "gone"
               PROVE  session'[s].st = "gone"
    BY DEF sessionVars
  <2>0. session \in [Id -> RowType]
    BY DEF SInv, SessionTypeOK, RowType
  <2>1. ASSUME NEW t \in Tab, SignedIn(t) PROVE session'[s].st = "gone"
    BY <2>0, <2>1 DEF SignedIn, RowType
  <2>2. ASSUME NEW r \in Request, WriteTokens(r) PROVE session'[s].st = "gone"
    BY <2>0, <2>2 DEF WriteTokens, UpdateRow, Rotated, RowType
  <2>3. ASSUME NEW r \in Request, Handle(r) PROVE session'[s].st = "gone"
    BY <2>0, <2>3 DEF Handle, RowType
  <2>4. ASSUME NEW q \in Id, AccessExpires(q) \/ SessionExpires(q) \/ Revoked(q)
        PROVE  session'[s].st = "gone"
    BY <2>0, <2>4 DEF AccessExpires, SessionExpires, Revoked, RowType
  <2>5. CASE UNCHANGED session
    BY <2>5
  <2> QED BY <2>1, <2>2, <2>3, <2>4, <2>5
        DEF SessionNext, Refresh, SignOut, Hear, Resolve, RefreshToken, Answer
<1> QED BY <1>1, SessionInvariant, PTL DEF SessionSpec, GoneStaysGone

-----------------------------------------------------------------------------
(* The MCP payment doors: a credited payment is on the balance or drawn by *)
(* an envelope, a settled one is owed by a call, and where nothing fails   *)
(* every envelope is drawn.                                                *)

CallType == [pc : {"none", "preflight", "terms", "balance", "pay", "credit",
                   "reserve", "create", "row", "debit", "mark", "reply", "over"},
             door : {"local", "web"}, key : Key, payment : 0..MaxCalls,
             out : Answers, said : Answers, settled : BOOLEAN]
PaidType == {"none", "signed", "settled", "credited"}

(* What no call's payments or envelopes depend on.                         *)
RestTypes ==
  /\ intent \in [Key -> {"none", "held", "done"}]
  /\ wallet \in 0..MaxFunds
  /\ told \subseteq Key
  /\ agentFaults \in 0..MaxAgentFaults

(* The types, but for the credit's bound, which the ledger gives.          *)
AgentTypes ==
  /\ call \in [Call -> CallType]
  /\ paid \in [Call -> PaidType]
  /\ made \in [Call -> {"none", "free", "drawn"}]
  /\ banked \in Nat
  /\ RestTypes

Charged == Answers \ (Unpaid \cup {"refused"})
Before(c) == call[c].pc \in {"none", "preflight", "terms", "balance"}

(* A call that has not paid has signed nothing; the payment a call carries *)
(* was signed, and is settled when the handler credits it.                 *)
PaidInv(c) ==
  /\ Before(c) => paid[c] = "none"
  /\ call[c].payment # 0 => paid[call[c].payment] # "none"
  /\ call[c].pc \in {"pay", "credit"} => call[c].payment # 0
  /\ call[c].pc = "credit" => paid[call[c].payment] \in {"settled", "credited"}

(* What a call may have been answered where it is.                         *)
SaidInv(c) ==
  /\ call[c].said \in {"terms", "refused"} => call[c].pc = "over"
  /\ call[c].pc \notin {"reply", "over"} => call[c].out = ""
  /\ call[c].pc = "reply" => call[c].out # ""
  /\ Before(c) \/ call[c].pc = "pay" => call[c].said = "" /\ ~call[c].settled
  /\ call[c].settled => call[c].out \in Charged /\ call[c].said \in Charged

(* Which envelope there is where it is.                                    *)
MadeInv(c) ==
  /\ call[c].pc = "debit" => made[c] = "free"
  /\ call[c].pc \in {"debit", "mark", "reply", "over"} \/ made[c] = "none"

CallInv(c) == PaidInv(c) /\ SaidInv(c) /\ MadeInv(c)

AllOwed == \A p \in Call : paid[p] = "settled" => Owed(p)

(* Where nothing failed, one call at a time is at work, and the credit its *)
(* gate saw is there for its debit.                                        *)
OneAtWork ==
  /\ \A c \in Call : call[c].said # "" => call[c].pc = "over"
  /\ \A c, d \in Call : c < d /\ call[d].pc # "none" => call[c].said # ""
  /\ \A c \in Call : call[c].pc \in {"row", "debit"} => banked >= Price
  /\ \A c \in Call : made[c] = "free" => call[c].pc = "debit"

AInv ==
  /\ AgentTypes
  /\ \A c \in Call : CallInv(c)
  /\ CreditKept
  /\ AllOwed
  /\ agentFaults = 0 => OneAtWork

-----------------------------------------------------------------------------
LEMMA AgentConstants ==
  /\ MaxCalls \in Nat \ {0} /\ MaxFunds \in Nat /\ MaxAgentFaults \in Nat
  /\ Call \subseteq Key /\ 0 \in Key /\ Key = 0..MaxCalls
  BY AgentAssumption DEF Call, Key

LEMMA FaultTypes ==
  ASSUME RestTypes, AgentFault \/ NoAgentFault
  PROVE  /\ agentFaults' \in 0..MaxAgentFaults
         /\ agentFaults' = 0 => agentFaults = 0
         /\ AgentFault => agentFaults' # 0
  BY AgentConstants DEF RestTypes, AgentFault, NoAgentFault

(* Sets of calls are finite.                                               *)
LEMMA PaymentsFinite ==
  ASSUME NEW S \in SUBSET Call
  PROVE  IsFiniteSet(S) /\ Cardinality(S) \in Nat /\ Cardinality(S) <= MaxCalls
<1>1. IsFiniteSet(Call) /\ Cardinality(Call) = MaxCalls
  BY AgentConstants, FS_Interval DEF Call
<1> QED BY <1>1, FS_Subset, FS_CardinalityType

LEMMA NoCallType == NoCall \in CallType
  BY AgentConstants DEF NoCall, CallType, Answers

-----------------------------------------------------------------------------
(* What a step of call c does to the rest: the other calls stay as they    *)
(* are, and a payment is signed by its own call, or moves on in c's hands. *)
Moved(c) ==
  /\ call' \in [Call -> CallType]
  /\ \A d \in Call : d # c => call'[d] = call[d] /\ made'[d] = made[d]
  /\ made' \in [Call -> {"none", "free", "drawn"}]
  /\ paid' \in [Call -> PaidType]
  /\ \A p \in Call :
       \/ paid'[p] = paid[p]
       \/ p = c /\ paid[p] = "none" /\ paid'[p] = "signed"
       \/ /\ p = call'[c].payment /\ paid[p] # "none"
          /\ paid'[p] = "credited" \/ (paid'[p] = "settled" /\ call'[c].pc = "credit")
          /\ paid[p] = "credited" => paid'[p] = "credited"

(* What keeps its payment owed.                                            *)
StaysOwed(c) ==
  call[c].pc = "credit" \/ call[c].out = "failed" =>
    /\ call'[c].payment = call[c].payment
    /\ \/ call'[c].pc = "credit" \/ call'[c].out = "failed"
       \/ call[c].pc = "credit" /\ paid'[call[c].payment] = "credited"

(* What keeps one call at work, while nothing fails.                       *)
StaysAlone(c) ==
  agentFaults' = 0 =>
    /\ agentFaults = 0
    /\ call'[c].said # "" => call'[c].pc = "over"
    /\ call[c].said # "" => call'[c].said # ""
    /\ call[c].pc = "none" /\ call'[c].pc # "none" => (c > 1 => call[c - 1].said # "")
    /\ call'[c].pc \in {"row", "debit"} => banked' >= Price
    /\ made'[c] = "free" => call'[c].pc = "debit"
    /\ banked' = banked \/ banked' = banked + 1 \/ call[c].pc = "debit"

LEMMA OthersKeep ==
  ASSUME AInv, NEW c \in Call, Moved(c), NEW d \in Call, d # c
  PROVE  CallInv(d)'
<1>1. call[d] \in CallType /\ call'[d] = call[d] /\ made'[d] = made[d] /\ CallInv(d)
  BY DEF AInv, AgentTypes, Moved
<1>2. call[d].payment # 0 => call[d].payment \in Call
  BY <1>1, AgentConstants DEF CallType, Call
<1>3. PaidInv(d)'
  <2>1. Before(d) => paid'[d] = "none"
    BY <1>1 DEF Moved, CallInv, PaidInv, Before
  <2>2. call[d].payment # 0 => paid'[call[d].payment] # "none"
    BY <1>1, <1>2 DEF Moved, CallInv, PaidInv
  <2>3. call[d].pc = "credit" => paid'[call[d].payment] \in {"settled", "credited"}
    BY <1>1, <1>2 DEF Moved, CallInv, PaidInv
  <2> QED BY <1>1, <2>1, <2>2, <2>3 DEF CallInv, PaidInv, Before
<1>4. SaidInv(d)' /\ MadeInv(d)'
  BY <1>1 DEF CallInv, SaidInv, MadeInv, Before
<1> QED BY <1>3, <1>4 DEF CallInv

LEMMA OwedKeeps ==
  ASSUME AInv, NEW c \in Call, Moved(c), StaysOwed(c)
  PROVE  AllOwed'
<1> SUFFICES ASSUME NEW p \in Call, paid'[p] = "settled" PROVE Owed(p)'
  BY DEF AllOwed
<1>1. CASE paid[p] = "settled"
  <2>1. PICK d \in Call : call[d].payment = p /\ (call[d].pc = "credit" \/ call[d].out = "failed")
    BY <1>1 DEF AInv, AllOwed, Owed
  <2>2. CASE d = c
    <3>1. call'[c].payment = p /\ (call'[c].pc = "credit" \/ call'[c].out = "failed")
      BY <2>1, <2>2 DEF StaysOwed
    <3> QED BY <3>1 DEF Owed
  <2>3. CASE d # c
    <3>1. call'[d] = call[d]
      BY <2>3 DEF Moved
    <3> QED BY <2>1, <3>1 DEF Owed
  <2> QED BY <2>2, <2>3
<1>2. CASE paid[p] # "settled"
  <2>1. p = call'[c].payment /\ call'[c].pc = "credit"
    BY <1>2 DEF Moved
  <2> QED BY <2>1 DEF Owed
<1> QED BY <1>1, <1>2

LEMMA AloneKeeps ==
  ASSUME AInv, NEW c \in Call, Moved(c), StaysAlone(c), banked' \in Nat, agentFaults' = 0
  PROVE  OneAtWork'
<1>1. OneAtWork /\ agentFaults = 0 /\ banked \in Nat /\ \A d \in Call : d \in Nat /\ d >= 1
  <2>1. \A d \in Call : d \in Nat /\ d >= 1
    BY AgentConstants DEF Call
  <2> QED BY <2>1 DEF AInv, AgentTypes, StaysAlone
<1>o. \A d \in Call : d # c => call'[d] = call[d] /\ made'[d] = made[d]
  BY DEF Moved
<1>2. ASSUME NEW d \in Call, call'[d].said # "" PROVE call'[d].pc = "over"
  BY <1>1, <1>2, <1>o DEF OneAtWork, StaysAlone
<1>3. ASSUME NEW b \in Call, NEW d \in Call, b < d, call'[d].pc # "none"
      PROVE  call'[b].said # ""
  <2>1. CASE call[d].pc # "none"
    <3>1. call[b].said # ""
      BY <1>1, <1>3, <2>1 DEF OneAtWork
    <3> QED BY <1>o, <3>1 DEF StaysAlone
  <2>2. CASE call[d].pc = "none"
    <3>0. d = c
      BY <1>3, <1>o, <2>2
    <3>i. b \in Nat /\ c \in Nat /\ b < c
      BY <1>1, <1>3, <3>0
    <3>1. c > 1 /\ c - 1 \in Call /\ call[c - 1].said # ""
      <4>1. b \in Nat /\ b >= 1 /\ c \in Nat /\ b < c
        BY <1>1, <1>3, <3>0
      <4>2. c > 1 /\ c - 1 \in Call
        BY <4>1, AgentConstants DEF Call
      <4> QED BY <1>3, <2>2, <3>0, <4>1, <4>2 DEF StaysAlone
    <3>2. call[b].said # ""
      <4>1. CASE b = c - 1
        BY <3>1, <4>1
      <4>2. CASE b < c - 1
        <5>1. call[c - 1].pc # "none"
          BY <1>1, <3>1 DEF OneAtWork
        <5> QED BY <1>1, <3>1, <4>2, <5>1 DEF OneAtWork
      <4>3. b = c - 1 \/ b < c - 1
        BY <3>i
      <4> QED BY <4>1, <4>2, <4>3
    <3>3. b # c
      BY <3>i
    <3> QED BY <1>o, <3>2, <3>3
  <2> QED BY <2>1, <2>2
<1>4. ASSUME NEW d \in Call, call'[d].pc \in {"row", "debit"} PROVE banked' >= Price
  <2>1. CASE d = c
    BY <1>4, <2>1 DEF StaysAlone
  <2>2. CASE d # c
    <3>1. call[d].pc \in {"row", "debit"} /\ banked >= Price
      BY <1>1, <1>4, <1>o, <2>2 DEF OneAtWork
    <3>2. call[c].pc # "debit"
      <4>1. c < d \/ d < c
        BY <1>1, <2>2
      <4>2. call[d].said = ""
        BY <1>1, <3>1 DEF OneAtWork
      <4>3. c < d => call[c].pc = "over"
        BY <1>1, <3>1 DEF OneAtWork
      <4>4. d < c => call[c].pc = "none"
        BY <1>1, <4>2 DEF OneAtWork
      <4> QED BY <4>1, <4>3, <4>4
    <3>3. banked' = banked \/ banked' = banked + 1
      BY <1>1, <3>2 DEF StaysAlone
    <3> QED BY <1>1, <3>1, <3>3 DEF Price
  <2> QED BY <2>1, <2>2
<1>5. ASSUME NEW d \in Call, made'[d] = "free" PROVE call'[d].pc = "debit"
  BY <1>1, <1>5, <1>o DEF OneAtWork, StaysAlone
<1> QED BY <1>2, <1>3, <1>4, <1>5 DEF OneAtWork

(* The four together.                                                      *)
LEMMA DoorStep ==
  ASSUME AInv, NEW c \in Call, Moved(c), RestTypes', banked' \in Nat, CallInv(c)', CreditKept',
         StaysOwed(c), StaysAlone(c)
  PROVE  AInv'
<1>1. \A d \in Call : CallInv(d)'
  BY OthersKeep
<1>2. AllOwed' /\ (agentFaults' = 0 => OneAtWork')
  BY OwedKeeps, AloneKeeps
<1>3. AgentTypes'
  BY DEF AgentTypes, Moved
<1> QED BY <1>1, <1>2, <1>3 DEF AInv

(* The ledger of a step that credits and debits nothing.                   *)
LEMMA LedgerKeeps ==
  ASSUME AInv, UNCHANGED banked,
         \A p \in Call : paid'[p] = "credited" <=> paid[p] = "credited",
         \A c \in Call : made'[c] = "drawn" <=> made[c] = "drawn"
  PROVE  CreditKept'
<1>1. Credits' = Credits /\ Drawn' = Drawn
  BY DEF Credits, Drawn
<1> QED BY <1>1 DEF AInv, CreditKept

-----------------------------------------------------------------------------
(* The record of the call that moves.                                      *)
LEMMA CallMoves ==
  ASSUME AgentTypes, NEW c \in Call, NEW r \in CallType, call' = [call EXCEPT ![c] = r]
  PROVE  /\ call' \in [Call -> CallType] /\ call'[c] = r
         /\ \A d \in Call : d # c => call'[d] = call[d]
  BY DEF AgentTypes

(* A step that leaves payments, credit and envelopes alone.                *)
LEMMA PlainStep ==
  ASSUME AInv, NEW c \in Call, UNCHANGED <<paid, banked, made>>, RestTypes',
         agentFaults' = 0 => agentFaults = 0,
         NEW r \in CallType, call' = [call EXCEPT ![c] = r],
         r.payment = call[c].payment, call[c].out = "failed" => r.out = "failed",
         call[c].pc = "credit" => r.pc = "credit" \/ r.out = "failed",
         PaidInv(c)', SaidInv(c)', MadeInv(c)',
         agentFaults' = 0 =>
           /\ r.said # "" => r.pc = "over"
           /\ call[c].said # "" => r.said # ""
           /\ call[c].pc # "none"
           /\ r.pc \in {"row", "debit"} => banked >= Price
           /\ call[c].pc = "debit" => r.pc = "debit"
  PROVE  AInv'
<1>t. AgentTypes /\ banked \in Nat
  BY DEF AInv, AgentTypes
<1>1. /\ call' \in [Call -> CallType] /\ call'[c] = r
      /\ \A d \in Call : d # c => call'[d] = call[d]
  BY <1>t, CallMoves
<1>2. Moved(c)
  BY <1>1, <1>t DEF Moved, AgentTypes
<1>3. StaysOwed(c)
  BY <1>1 DEF StaysOwed
<1>4. StaysAlone(c)
  <2>1. agentFaults = 0 /\ made[c] = "free" => call[c].pc = "debit"
    BY DEF AInv, OneAtWork
  <2> QED BY <1>1, <2>1 DEF StaysAlone
<1>5. CreditKept' /\ banked' \in Nat
  BY <1>t, LedgerKeeps
<1> QED BY <1>2, <1>3, <1>4, <1>5, DoorStep DEF CallInv

(* The tool answers.                                                       *)
LEMMA SaysStep ==
  ASSUME AInv, NEW c \in Call, NEW a \in Answers \ {""}, Says(c, a),
         call[c].pc \in {"preflight", "terms", "balance", "pay"},
         UNCHANGED <<paid, banked, made>>, RestTypes', agentFaults' = 0 => agentFaults = 0
  PROVE  AInv'
<1>t. AgentTypes /\ call[c] \in CallType /\ CallInv(c)
  BY DEF AInv, AgentTypes
<1> DEFINE r == [call[c] EXCEPT !.pc = "over", !.said = a]
<1>1. r \in CallType
  BY <1>t DEF CallType
<1>2. /\ r.pc = "over" /\ r.said = a /\ r.out = call[c].out
      /\ r.payment = call[c].payment /\ r.settled = call[c].settled
  BY <1>t DEF CallType
<1>3. call' = [call EXCEPT ![c] = r]
  BY DEF Says
<1> HIDE DEF r
<1>4. call'[c] = r
  BY <1>t, <1>1, <1>3, CallMoves
<1>5. ~call[c].settled /\ call[c].out = "" /\ call[c].said = "" /\ made[c] = "none"
  BY <1>t DEF CallInv, SaidInv, MadeInv, Before
<1>6. PaidInv(c)' /\ SaidInv(c)' /\ MadeInv(c)'
  BY <1>t, <1>2, <1>4, <1>5 DEF CallInv, PaidInv, SaidInv, MadeInv, Before
<1> QED BY <1>1, <1>2, <1>3, <1>5, <1>6, PlainStep

(* It goes on.                                                             *)
LEMMA GoesStep ==
  ASSUME AInv, NEW c \in Call, NEW pc \in {"terms", "balance", "pay", "credit", "create", "row"}, Goes(c, pc),
         pc \in {"terms", "balance"} => call[c].pc \in {"preflight", "terms"},
         pc = "pay" => call[c].pc = "preflight" /\ call[c].payment # 0,
         pc = "credit" => call[c].pc = "pay" /\ paid[call[c].payment] \in {"settled", "credited"},
         pc = "create" => call[c].pc = "reserve",
         pc = "row" => call[c].pc = "create" /\ banked >= Price,
         UNCHANGED <<paid, banked, made>>, RestTypes', agentFaults' = 0 => agentFaults = 0
  PROVE  AInv'
<1>t. AgentTypes /\ call[c] \in CallType /\ CallInv(c)
  BY DEF AInv, AgentTypes
<1> DEFINE r == [call[c] EXCEPT !.pc = pc]
<1>1. r \in CallType
  BY <1>t DEF CallType
<1>2. /\ r.pc = pc /\ r.said = call[c].said /\ r.out = call[c].out
      /\ r.payment = call[c].payment /\ r.settled = call[c].settled
  BY <1>t DEF CallType
<1>3. call' = [call EXCEPT ![c] = r]
  BY DEF Goes
<1> HIDE DEF r
<1>4. call'[c] = r
  BY <1>t, <1>1, <1>3, CallMoves
<1>5. call[c].out = "" /\ made[c] = "none"
  BY <1>t DEF CallInv, SaidInv, MadeInv, Before
<1>6. PaidInv(c)' /\ SaidInv(c)' /\ MadeInv(c)'
  BY <1>t, <1>2, <1>4, <1>5 DEF CallInv, PaidInv, SaidInv, MadeInv, Before
<1>7. agentFaults' = 0 => call[c].said = ""
  BY DEF AInv, OneAtWork
<1> QED BY <1>1, <1>2, <1>3, <1>5, <1>6, <1>7, PlainStep

(* The route answers; without a fault never between its row and its debit. *)
LEMMA EndsStep ==
  ASSUME AInv, NEW c \in Call, NEW a \in {"refused", "failed", "made"}, Outcome(c, a),
         a = "refused" => call[c].pc = "pay",
         a # "refused" => call[c].pc \in {"credit", "reserve", "create", "row", "debit", "mark"},
         call[c].pc = "credit" => a = "failed",
         agentFaults' = 0 => call[c].pc # "debit",
         UNCHANGED <<paid, banked, made>>, RestTypes', agentFaults' = 0 => agentFaults = 0
  PROVE  AInv'
<1>t. AgentTypes /\ call[c] \in CallType /\ CallInv(c)
  BY DEF AInv, AgentTypes
<1> DEFINE r == [call[c] EXCEPT !.pc = "reply", !.out = a]
<1>0. a \in Answers /\ a # "" /\ (a # "refused" => a \in Charged)
  BY DEF Answers, Unpaid, Charged
<1>1. r \in CallType
  BY <1>t, <1>0 DEF CallType
<1>2. /\ r.pc = "reply" /\ r.said = call[c].said /\ r.out = a
      /\ r.payment = call[c].payment /\ r.settled = call[c].settled
  BY <1>t DEF CallType
<1>3. call' = [call EXCEPT ![c] = r]
  BY DEF Outcome
<1> HIDE DEF r
<1>4. call'[c] = r
  BY <1>t, <1>1, <1>3, CallMoves
<1>5. call[c].out = "" /\ (a = "refused" => ~call[c].settled)
  BY <1>t DEF CallInv, SaidInv, Before
<1>6. PaidInv(c)' /\ MadeInv(c)'
  BY <1>t, <1>2, <1>4 DEF CallInv, PaidInv, MadeInv, Before
<1>7. SaidInv(c)'
  BY <1>t, <1>0, <1>2, <1>4, <1>5 DEF CallInv, SaidInv, Before
<1>8. agentFaults' = 0 => call[c].said = ""
  BY DEF AInv, OneAtWork
<1> QED BY <1>1, <1>2, <1>3, <1>5, <1>6, <1>7, <1>8, PlainStep

(* A call past its payment is over, or not heard any more.                 *)
LEMMA OverStep ==
  ASSUME AInv, NEW c \in Call, UNCHANGED <<paid, banked, made>>, RestTypes',
         agentFaults' = 0 => agentFaults = 0,
         NEW a \in Answers, NEW pc \in {"over", call[c].pc},
         call[c].pc \in {"credit", "reserve", "reply"} \cup Creating,
         call' = [call EXCEPT ![c] = [@ EXCEPT !.pc = pc, !.said = a]],
         \/ a = "unsure" /\ agentFaults' # 0
         \/ a = call[c].said /\ agentFaults' # 0
         \/ call[c].pc = "reply" /\ pc = "over" /\ a = (IF call[c].said = "" THEN call[c].out ELSE call[c].said),
         call[c].pc = "credit" => pc = "credit"
  PROVE  AInv'
<1>t. AgentTypes /\ call[c] \in CallType /\ CallInv(c)
  BY DEF AInv, AgentTypes
<1> DEFINE r == [call[c] EXCEPT !.pc = pc, !.said = a]
<1>1. r \in CallType
  BY <1>t DEF CallType, Creating
<1>2. /\ r.pc = pc /\ r.said = a /\ r.out = call[c].out
      /\ r.payment = call[c].payment /\ r.settled = call[c].settled
  BY <1>t DEF CallType
<1>3. call' = [call EXCEPT ![c] = r]
  OBVIOUS
<1> HIDE DEF r
<1>4. call'[c] = r
  BY <1>t, <1>1, <1>3, CallMoves
<1>5. call[c].settled => a \in Charged
  BY <1>t DEF CallInv, SaidInv, Charged, Answers, Unpaid
<1>6. PaidInv(c)' /\ MadeInv(c)'
  BY <1>t, <1>2, <1>4 DEF CallInv, PaidInv, MadeInv, Before, Creating
<1>n. /\ call[c].pc \notin {"none", "preflight", "terms", "balance", "pay", "over"}
      /\ call[c].said \notin {"terms", "refused"}
  BY <1>t DEF CallInv, SaidInv, Creating
<1>7. SaidInv(c)'
  <2>1. a \in {"terms", "refused"} => pc = "over"
    BY <1>n
  <2>2. pc \notin {"reply", "over"} => call[c].out = ""
    BY <1>t DEF CallInv, SaidInv
  <2>3. pc = "reply" => call[c].out # ""
    BY <1>t DEF CallInv, SaidInv
  <2>4. pc \notin {"none", "preflight", "terms", "balance", "pay"}
    BY <1>n
  <2>5. call[c].settled => call[c].out \in Charged
    BY <1>t DEF CallInv, SaidInv
  <2> QED BY <1>2, <1>4, <1>5, <2>1, <2>2, <2>3, <2>4, <2>5 DEF SaidInv, Before
<1>8. agentFaults' = 0 => /\ pc = "over" /\ (call[c].said # "" => a # "") /\ call[c].pc = "reply"
  OBVIOUS
<1> QED BY <1>1, <1>2, <1>3, <1>6, <1>7, <1>8, <1>n, PlainStep

-----------------------------------------------------------------------------
(* The actions. *)
LEMMA BeginStep ==
  ASSUME AInv, NEW c \in Call, BeginWeb(c) \/ BeginLocal(c)
  PROVE  AInv'
<1>t. AgentTypes /\ CallInv(c)
  BY DEF AInv
<1>1. PICK door \in {"local", "web"}, k \in Key, p \in 0..MaxCalls,
           refusals \in SUBSET {"invalid", "no_payer"} :
        Begin(c, door, k, p, refusals) /\ (p # 0 => paid[p] # "none")
  <2>1. CASE BeginWeb(c)
    BY <1>t, <2>1, AgentConstants DEF BeginWeb, AgentTypes, RestTypes
  <2>2. CASE BeginLocal(c)
    BY <1>t, <2>2, AgentConstants DEF BeginLocal, AgentTypes, RestTypes
  <2> QED BY <2>1, <2>2
<1>2. PICK said \in {"invalid", "no_payer", ""} :
        call' = [call EXCEPT ![c] =
          [NoCall EXCEPT !.pc = IF said = "" THEN "preflight" ELSE "over",
                         !.door = door, !.key = k, !.payment = p, !.said = said]]
  BY <1>1 DEF Begin
<1> DEFINE r == [NoCall EXCEPT !.pc = IF said = "" THEN "preflight" ELSE "over",
                               !.door = door, !.key = k, !.payment = p, !.said = said]
<1>3. r \in CallType
  BY NoCallType DEF CallType, Answers, Unpaid
<1>4. /\ r.pc = (IF said = "" THEN "preflight" ELSE "over") /\ r.said = said /\ r.out = ""
      /\ r.payment = p /\ r.settled = FALSE
  BY DEF NoCall
<1>5. call' = [call EXCEPT ![c] = r]
  BY <1>2
<1> HIDE DEF r
<1>6. /\ call'[c] = r /\ call' \in [Call -> CallType]
      /\ \A d \in Call : d # c => call'[d] = call[d]
  BY <1>t, <1>3, <1>5, CallMoves
<1>7. /\ UNCHANGED <<paid, intent, wallet, banked, made, told, agentFaults>>
      /\ call[c].pc = "none" /\ (c > 1 => call[c - 1].said # "")
  BY <1>1 DEF Begin
<1>8. /\ call[c].out = "" /\ call[c].said = "" /\ made[c] = "none" /\ paid[c] = "none"
  BY <1>t, <1>7 DEF CallInv, PaidInv, SaidInv, MadeInv, Before
<1>9. CallInv(c)'
  BY <1>1, <1>4, <1>6, <1>7, <1>8 DEF CallInv, PaidInv, SaidInv, MadeInv, Before
<1>10. Moved(c) /\ RestTypes' /\ banked' \in Nat
  BY <1>t, <1>6, <1>7 DEF Moved, AgentTypes, RestTypes
<1>11. StaysOwed(c)
  BY <1>7, <1>8 DEF StaysOwed
<1>12. StaysAlone(c)
  BY <1>4, <1>6, <1>7, <1>8 DEF StaysAlone
<1>13. CreditKept'
  BY <1>7, LedgerKeeps
<1> QED BY <1>9, <1>10, <1>11, <1>12, <1>13, DoorStep

LEMMA PreflightStep ==
  ASSUME AInv, NEW c \in Call, Preflight(c)
  PROVE  AInv'
<1>t. AgentTypes /\ RestTypes /\ call[c].key \in Key
  BY DEF AInv, AgentTypes, CallType
<1>1. UNCHANGED <<paid, intent, wallet, banked, made>> /\ call[c].pc = "preflight"
  BY DEF Preflight
<1>2. AgentFault \/ NoAgentFault
  BY DEF Preflight
<1>3. RestTypes' /\ (agentFaults' = 0 => agentFaults = 0)
  <2>1. told' \subseteq Key
    BY <1>t DEF Preflight, RestTypes
  <2> QED BY <1>t, <1>1, <1>2, <2>1, FaultTypes DEF RestTypes
<1>4. CASE \E a \in {"unreachable", "replayed", "rejected"} : Says(c, a)
  BY <1>1, <1>3, <1>4, SaysStep DEF Answers, Unpaid
<1>5. CASE \E pc \in {"pay", "terms"} : Goes(c, pc) /\ (pc = "pay" => call[c].payment # 0)
  BY <1>1, <1>3, <1>5, GoesStep
<1> QED BY <1>4, <1>5 DEF Preflight

LEMMA TermsStep ==
  ASSUME AInv, NEW c \in Call, Terms(c)
  PROVE  AInv'
<1>t. RestTypes
  BY DEF AInv, AgentTypes
<1>1. UNCHANGED <<paid, intent, wallet, banked, made, told>> /\ call[c].pc = "terms"
  BY DEF Terms
<1>2. RestTypes' /\ (agentFaults' = 0 => agentFaults = 0)
  BY <1>t, <1>1, FaultTypes DEF Terms, RestTypes
<1>3. CASE \E a \in {"no_terms", "terms"} : Says(c, a)
  BY <1>1, <1>2, <1>3, SaysStep DEF Answers, Unpaid
<1>4. CASE Goes(c, "balance")
  BY <1>1, <1>2, <1>4, GoesStep
<1> QED BY <1>3, <1>4 DEF Terms

LEMMA SignStep ==
  ASSUME AInv, NEW c \in Call, Sign(c)
  PROVE  AInv'
<1>t. AgentTypes /\ CallInv(c)
  BY DEF AInv
<1>1. /\ UNCHANGED <<call, intent, wallet, banked, made, told, agentFaults>>
      /\ paid[c] = "none" /\ paid' = [paid EXCEPT ![c] = "signed"] /\ call[c].pc = "over"
  BY <1>t DEF Sign, CallInv, SaidInv
<1>2. /\ paid' \in [Call -> PaidType] /\ paid'[c] = "signed"
      /\ \A p \in Call : p # c => paid'[p] = paid[p]
  BY <1>t, <1>1 DEF AgentTypes, PaidType
<1>3. Moved(c) /\ RestTypes' /\ banked' \in Nat
  BY <1>t, <1>1, <1>2 DEF Moved, AgentTypes, RestTypes
<1>4. CallInv(c)'
  <2>1. call[c].payment # 0 => call[c].payment \in Call
    BY <1>t, AgentConstants DEF AgentTypes, CallType, Call
  <2> QED BY <1>t, <1>1, <1>2, <2>1 DEF CallInv, PaidInv, SaidInv, MadeInv, Before
<1>5. StaysOwed(c)
  BY <1>1 DEF StaysOwed
<1>6. StaysAlone(c)
  <2>1. agentFaults = 0 => (made[c] = "free" => call[c].pc = "debit")
    BY DEF AInv, OneAtWork
  <2> QED BY <1>1, <2>1 DEF StaysAlone
<1>7. CreditKept'
  BY <1>1, <1>2, LedgerKeeps
<1> QED BY <1>3, <1>4, <1>5, <1>6, <1>7, DoorStep

LEMMA BalanceStep ==
  ASSUME AInv, NEW c \in Call, Balance(c)
  PROVE  AInv'
<1>t. AgentTypes /\ RestTypes /\ call[c] \in CallType /\ call[c].key \in Key /\ CallInv(c)
  BY DEF AInv, AgentTypes, CallType
<1>1. UNCHANGED <<intent, wallet, banked, made>> /\ call[c].pc = "balance"
  BY DEF Balance
<1>2. AgentFault \/ NoAgentFault
  BY DEF Balance
<1>3. RestTypes' /\ (agentFaults' = 0 => agentFaults = 0)
  <2>1. told' \subseteq Key
    BY <1>t DEF Balance, RestTypes
  <2> QED BY <1>t, <1>1, <1>2, <2>1, FaultTypes DEF RestTypes
<1>4. CASE UNCHANGED paid /\ \E a \in {"no_address", "unknown_balance", "insufficient", "no_stack"} :
             Says(c, a)
  BY <1>1, <1>3, <1>4, SaysStep DEF Answers, Unpaid
<1>5. CASE /\ call' = [call EXCEPT ![c] = [@ EXCEPT !.pc = "pay", !.payment = c]]
           /\ paid' = [paid EXCEPT ![c] = "signed"]
  <2> DEFINE r == [call[c] EXCEPT !.pc = "pay", !.payment = c]
  <2>1. r \in CallType
    BY <1>t, AgentConstants DEF CallType, Call
  <2>2. /\ r.pc = "pay" /\ r.said = call[c].said /\ r.out = call[c].out
        /\ r.payment = c /\ r.settled = call[c].settled
    BY <1>t DEF CallType
  <2>3. call' = [call EXCEPT ![c] = r]
    BY <1>5
  <2> HIDE DEF r
  <2>4. /\ call'[c] = r /\ call' \in [Call -> CallType]
        /\ \A d \in Call : d # c => call'[d] = call[d]
    BY <1>t, <2>1, <2>3, CallMoves
  <2>5. /\ paid[c] = "none" /\ call[c].said = "" /\ ~call[c].settled /\ call[c].out = ""
        /\ made[c] = "none"
    BY <1>t, <1>1 DEF CallInv, PaidInv, SaidInv, MadeInv, Before
  <2>c. c # 0
    BY AgentConstants DEF Call
  <2>6. /\ paid' \in [Call -> PaidType] /\ paid'[c] = "signed"
        /\ \A p \in Call : p # c => paid'[p] = paid[p]
    BY <1>t, <1>5 DEF AgentTypes, PaidType
  <2>7. Moved(c) /\ banked' \in Nat
    BY <1>t, <1>1, <2>4, <2>5, <2>6 DEF Moved, AgentTypes
  <2>8. CallInv(c)'
    BY <1>1, <2>2, <2>4, <2>5, <2>6, <2>c DEF CallInv, PaidInv, SaidInv, MadeInv, Before
  <2>9. StaysOwed(c) /\ StaysAlone(c)
    BY <1>1, <1>3, <2>2, <2>4, <2>5 DEF StaysOwed, StaysAlone
  <2>10. CreditKept'
    BY <1>1, <2>5, <2>6, LedgerKeeps
  <2> QED BY <1>3, <2>7, <2>8, <2>9, <2>10, DoorStep
<1> QED BY <1>4, <1>5 DEF Balance

LEMMA SettleStep ==
  ASSUME AInv, NEW c \in Call, Settle(c)
  PROVE  AInv'
<1>t. AgentTypes /\ RestTypes /\ call[c] \in CallType /\ CallInv(c)
  BY DEF AInv, AgentTypes
<1> DEFINE p == call[c].payment
<1>1. UNCHANGED <<intent, banked, made, told>> /\ call[c].pc = "pay"
  BY DEF Settle
<1>p. p \in Call /\ paid[p] # "none" /\ p # 0
  BY <1>t, <1>1, AgentConstants DEF CallInv, PaidInv, CallType, Call
<1>2. agentFaults' \in 0..MaxAgentFaults /\ (agentFaults' = 0 => agentFaults = 0)
  BY <1>t, FaultTypes DEF Settle
<1>3. CASE UNCHANGED <<paid, wallet>> /\ (Says(c, "unsure") \/ Outcome(c, "refused"))
  <2>1. RestTypes'
    BY <1>t, <1>1, <1>2, <1>3 DEF RestTypes
  <2>2. CASE Says(c, "unsure")
    BY <1>1, <1>2, <1>3, <2>1, <2>2, SaysStep DEF Answers
  <2>3. CASE Outcome(c, "refused")
    BY <1>1, <1>2, <1>3, <2>1, <2>3, EndsStep
  <2> QED BY <1>3, <2>2, <2>3
<1>4. CASE /\ paid[p] = "signed" /\ wallet >= Price
           /\ paid' = [paid EXCEPT ![p] = "settled"] /\ wallet' = wallet - Price
           /\ call' = [call EXCEPT ![c] = [@ EXCEPT !.pc = "credit", !.settled = TRUE]]
  <2> DEFINE r == [call[c] EXCEPT !.pc = "credit", !.settled = TRUE]
  <2>1. r \in CallType
    BY <1>t DEF CallType
  <2>2. /\ r.pc = "credit" /\ r.said = call[c].said /\ r.out = call[c].out /\ r.payment = p
    BY <1>t DEF CallType
  <2>3. call' = [call EXCEPT ![c] = r]
    BY <1>4
  <2> HIDE DEF r
  <2>4. Moved(c) /\ call'[c] = r /\ paid'[p] = "settled"
        /\ \A q \in Call : q # p => paid'[q] = paid[q]
    <3>1. paid[p] = "signed" /\ paid' = [paid EXCEPT ![p] = "settled"] /\ made' = made
      BY <1>1, <1>4
    <3>2. /\ call'[c] = r /\ call' \in [Call -> CallType]
          /\ \A d \in Call : d # c => call'[d] = call[d]
      BY <1>t, <2>1, <2>3, CallMoves
    <3>3. /\ paid' \in [Call -> PaidType] /\ paid'[p] = "settled"
          /\ \A q \in Call : q # p => paid'[q] = paid[q]
      BY <1>t, <1>p, <3>1 DEF AgentTypes, PaidType
    <3>4. Moved(c)
      BY <1>t, <2>2, <3>1, <3>2, <3>3 DEF Moved, AgentTypes
    <3> QED BY <3>2, <3>3, <3>4
  <2>5. call[c].said = "" /\ call[c].out = "" /\ made[c] = "none" /\ "" \in Charged
    BY <1>t, <1>1 DEF CallInv, SaidInv, MadeInv, Before, Charged, Answers, Unpaid
  <2>6. CallInv(c)'
    BY <1>1, <1>p, <2>2, <2>4, <2>5 DEF CallInv, PaidInv, SaidInv, MadeInv, Before
  <2>7. StaysOwed(c) /\ StaysAlone(c)
    BY <1>1, <1>2, <2>2, <2>4, <2>5 DEF StaysOwed, StaysAlone
  <2>8. CreditKept'
    BY <1>1, <1>4, <2>4, LedgerKeeps
  <2>9. RestTypes' /\ banked' \in Nat
    BY <1>t, <1>1, <1>2, <1>4, AgentConstants DEF RestTypes, AgentTypes, Price
  <2> QED BY <2>4, <2>6, <2>7, <2>8, <2>9, DoorStep
<1>5. CASE UNCHANGED <<paid, wallet>> /\ paid[p] \in {"settled", "credited"} /\ Goes(c, "credit")
  <2>1. RestTypes'
    BY <1>t, <1>1, <1>2, <1>5 DEF RestTypes
  <2> QED BY <1>1, <1>2, <1>5, <2>1, GoesStep
<1> QED BY <1>3, <1>4, <1>5 DEF Settle

LEMMA CreditStep ==
  ASSUME AInv, NEW c \in Call, Credit(c)
  PROVE  AInv'
<1>t. AgentTypes /\ RestTypes /\ call[c] \in CallType /\ CallInv(c)
  BY DEF AInv, AgentTypes
<1> DEFINE p == call[c].payment
<1>1. UNCHANGED <<intent, wallet, made, told>> /\ call[c].pc = "credit"
  BY DEF Credit
<1>p. p \in Call /\ paid[p] \in {"settled", "credited"} /\ p # 0
  BY <1>t, <1>1, AgentConstants DEF CallInv, PaidInv, CallType, Call
<1>2. RestTypes' /\ (agentFaults' = 0 => agentFaults = 0)
  BY <1>t, <1>1, FaultTypes DEF Credit, RestTypes
<1>3. CASE UNCHANGED <<banked, paid>> /\ Outcome(c, "failed")
  BY <1>1, <1>2, <1>3, EndsStep
<1>4. CASE /\ Goes(c, "reserve") /\ banked' = (IF Credited(c) THEN banked ELSE banked + 1)
           /\ paid' = [paid EXCEPT ![p] = "credited"]
  <2> DEFINE r == [call[c] EXCEPT !.pc = "reserve"]
  <2>1. r \in CallType
    BY <1>t DEF CallType
  <2>2. /\ r.pc = "reserve" /\ r.said = call[c].said /\ r.out = call[c].out /\ r.payment = p
        /\ r.settled = call[c].settled
    BY <1>t DEF CallType
  <2>3. call' = [call EXCEPT ![c] = r]
    BY <1>4 DEF Goes
  <2> HIDE DEF r
  <2>4. Moved(c) /\ call'[c] = r /\ paid'[p] = "credited"
        /\ \A q \in Call : q # p => paid'[q] = paid[q]
    <3>2. /\ call'[c] = r /\ call' \in [Call -> CallType]
          /\ \A d \in Call : d # c => call'[d] = call[d]
      BY <1>t, <2>1, <2>3, CallMoves
    <3>3. /\ paid' \in [Call -> PaidType] /\ paid'[p] = "credited"
          /\ \A q \in Call : q # p => paid'[q] = paid[q]
      BY <1>t, <1>4, <1>p DEF AgentTypes, PaidType
    <3>4. Moved(c)
      BY <1>t, <1>1, <1>p, <2>2, <3>2, <3>3 DEF Moved, AgentTypes
    <3> QED BY <3>2, <3>3, <3>4
  <2>5. CallInv(c)'
    BY <1>t, <1>1, <1>p, <2>2, <2>4 DEF CallInv, PaidInv, SaidInv, MadeInv, Before
  <2>6. StaysOwed(c)
    BY <1>1, <2>2, <2>4 DEF StaysOwed
  <2>7. StaysAlone(c)
    <3>1. agentFaults = 0 => call[c].said = "" /\ (made[c] = "free" => call[c].pc = "debit")
      BY <1>1 DEF AInv, OneAtWork
    <3> QED BY <1>1, <1>2, <1>4, <2>2, <2>4, <3>1 DEF StaysAlone
  <2>8. CreditKept' /\ banked' \in Nat
    <3>1. CASE Credited(c)
      <4>1. \A q \in Call : paid'[q] = "credited" <=> paid[q] = "credited"
        BY <2>4, <3>1 DEF Credited
      <4> QED BY <1>t, <1>1, <1>4, <3>1, <4>1, LedgerKeeps DEF AgentTypes
    <3>2. CASE ~Credited(c)
      <4>1. Credits' = Credits \cup {p} /\ p \notin Credits /\ Drawn' = Drawn
        BY <1>1, <1>p, <2>4, <3>2 DEF Credits, Drawn, Credited
      <4>2. IsFiniteSet(Credits) /\ Cardinality(Credits) \in Nat
        BY PaymentsFinite DEF Credits
      <4>3. Cardinality(Credits') = Cardinality(Credits) + 1
        BY <4>1, <4>2, FS_AddElement
      <4>4. Cardinality(Drawn) \in Nat /\ banked + Cardinality(Drawn) = Cardinality(Credits)
        BY PaymentsFinite DEF AInv, CreditKept, Drawn
      <4>5. banked' = banked + 1 /\ banked \in Nat
        BY <1>t, <1>4, <3>2 DEF AgentTypes
      <4>6. banked' + Cardinality(Drawn) = Cardinality(Credits')
        BY <4>2, <4>3, <4>4, <4>5
      <4> QED BY <4>1, <4>5, <4>6 DEF CreditKept
    <3> QED BY <3>1, <3>2
  <2> QED BY <1>2, <2>4, <2>5, <2>6, <2>7, <2>8, DoorStep
<1> QED BY <1>3, <1>4 DEF Credit

LEMMA ReserveStep ==
  ASSUME AInv, NEW c \in Call, ReserveIntent(c)
  PROVE  AInv'
<1>t. RestTypes /\ call[c].key \in Key
  BY DEF AInv, AgentTypes, CallType
<1>1. /\ UNCHANGED <<paid, wallet, banked, made, told, agentFaults>>
      /\ call[c].pc = "reserve"
  BY DEF ReserveIntent
<1>2. RestTypes'
  BY <1>t, <1>1 DEF ReserveIntent, RestTypes
<1>3. CASE \E a \in {"failed", "made"} : Outcome(c, a)
  BY <1>1, <1>2, <1>3, EndsStep
<1>4. CASE Goes(c, "create")
  BY <1>1, <1>2, <1>4, GoesStep
<1> QED BY <1>3, <1>4 DEF ReserveIntent

LEMMA GateStep ==
  ASSUME AInv, NEW c \in Call, PassGate(c)
  PROVE  AInv'
<1>t. RestTypes /\ call[c].key \in Key
  BY DEF AInv, AgentTypes, CallType
<1>1. /\ UNCHANGED <<paid, wallet, banked, made, told, agentFaults>>
      /\ call[c].pc = "create"
  BY DEF PassGate
<1>2. RestTypes'
  BY <1>t, <1>1 DEF PassGate, Releases, RestTypes
<1>3. CASE Outcome(c, "failed")
  BY <1>1, <1>2, <1>3, EndsStep
<1>4. CASE Goes(c, "row") /\ banked >= Price
  BY <1>1, <1>2, <1>4, GoesStep
<1> QED BY <1>3, <1>4 DEF PassGate, Releases

LEMMA InsertStep ==
  ASSUME AInv, NEW c \in Call, InsertRow(c)
  PROVE  AInv'
<1>t. AgentTypes /\ RestTypes /\ call[c] \in CallType /\ CallInv(c)
  BY DEF AInv, AgentTypes
<1>1. /\ UNCHANGED <<paid, intent, wallet, banked, told, agentFaults>>
      /\ call[c].pc = "row" /\ made' = [made EXCEPT ![c] = "free"]
  BY DEF InsertRow
<1> DEFINE r == [call[c] EXCEPT !.pc = "debit"]
<1>2. r \in CallType
  BY <1>t DEF CallType
<1>3. /\ r.pc = "debit" /\ r.said = call[c].said /\ r.out = call[c].out
      /\ r.payment = call[c].payment /\ r.settled = call[c].settled
  BY <1>t DEF CallType
<1>4. call' = [call EXCEPT ![c] = r]
  BY DEF InsertRow, Goes
<1> HIDE DEF r
<1>5. /\ call'[c] = r /\ call' \in [Call -> CallType]
      /\ \A d \in Call : d # c => call'[d] = call[d]
  BY <1>t, <1>2, <1>4, CallMoves
<1>6. /\ made' \in [Call -> {"none", "free", "drawn"}] /\ made'[c] = "free"
      /\ \A d \in Call : d # c => made'[d] = made[d]
  BY <1>t, <1>1 DEF AgentTypes
<1>7. Moved(c) /\ RestTypes' /\ banked' \in Nat
  BY <1>t, <1>1, <1>5, <1>6 DEF Moved, AgentTypes, RestTypes
<1>8. CallInv(c)'
  BY <1>t, <1>1, <1>3, <1>5, <1>6 DEF CallInv, PaidInv, SaidInv, MadeInv, Before
<1>9. call[c].out = "" /\ made[c] = "none"
  BY <1>t, <1>1 DEF CallInv, SaidInv, MadeInv
<1>10. StaysOwed(c)
  BY <1>1, <1>9 DEF StaysOwed
<1>11. StaysAlone(c)
  <2>1. agentFaults = 0 => call[c].said = "" /\ banked >= Price
    BY <1>1 DEF AInv, OneAtWork
  <2> QED BY <1>1, <1>3, <1>5, <2>1 DEF StaysAlone
<1>12. CreditKept'
  BY <1>1, <1>6, <1>9, LedgerKeeps
<1> QED BY <1>7, <1>8, <1>10, <1>11, <1>12, DoorStep

LEMMA DebitStep ==
  ASSUME AInv, NEW c \in Call, Debit(c)
  PROVE  AInv'
<1>t. AgentTypes /\ RestTypes /\ call[c] \in CallType /\ CallInv(c) /\ banked \in Nat
  BY DEF AInv, AgentTypes
<1>1. /\ UNCHANGED <<paid, intent, wallet, told>>
      /\ call[c].pc = "debit"
  BY DEF Debit
<1>2. RestTypes' /\ (agentFaults' = 0 => agentFaults = 0) /\ (AgentFault => agentFaults' # 0)
  BY <1>t, <1>1, FaultTypes DEF Debit, RestTypes
<1> DEFINE r == [call[c] EXCEPT !.pc = "mark"]
<1>3. r \in CallType
  BY <1>t DEF CallType
<1>4. /\ r.pc = "mark" /\ r.said = call[c].said /\ r.out = call[c].out
      /\ r.payment = call[c].payment /\ r.settled = call[c].settled
  BY <1>t DEF CallType
<1>5. call' = [call EXCEPT ![c] = r]
  BY DEF Debit, Goes
<1> HIDE DEF r
<1>6. /\ call'[c] = r /\ call' \in [Call -> CallType]
      /\ \A d \in Call : d # c => call'[d] = call[d]
  BY <1>t, <1>3, <1>5, CallMoves
<1>7. made[c] = "free" /\ call[c].out = ""
  BY <1>t, <1>1 DEF CallInv, SaidInv, MadeInv
<1>s. agentFaults = 0 => call[c].said = "" /\ banked >= Price
  BY <1>1 DEF AInv, OneAtWork
<1>8. CASE /\ banked >= Price /\ banked' = Debited(banked)
           /\ made' = [made EXCEPT ![c] = "drawn"]
  <2>1. /\ made' \in [Call -> {"none", "free", "drawn"}] /\ made'[c] = "drawn"
        /\ \A d \in Call : d # c => made'[d] = made[d]
    BY <1>t, <1>8 DEF AgentTypes
  <2>2. Moved(c)
    BY <1>t, <1>1, <1>6, <2>1 DEF Moved, AgentTypes
  <2>3. banked' = banked - 1 /\ banked >= 1 /\ banked' \in Nat
    BY <1>t, <1>8 DEF Debited, Price
  <2>4. CallInv(c)'
    BY <1>t, <1>1, <1>4, <1>6, <2>1 DEF CallInv, PaidInv, SaidInv, MadeInv, Before
  <2>5. StaysOwed(c)
    BY <1>1, <1>7 DEF StaysOwed
  <2>6. StaysAlone(c)
    BY <1>1, <1>2, <1>4, <1>6, <1>s, <2>1 DEF StaysAlone
  <2>7. CreditKept'
    <3>1. Drawn' = Drawn \cup {c} /\ c \notin Drawn /\ Credits' = Credits
      BY <1>1, <1>7, <2>1 DEF Drawn, Credits
    <3>2. IsFiniteSet(Drawn) /\ Cardinality(Drawn) \in Nat
      BY PaymentsFinite DEF Drawn
    <3>3. Cardinality(Drawn') = Cardinality(Drawn) + 1
      BY <3>1, <3>2, FS_AddElement
    <3>4. banked + Cardinality(Drawn) = Cardinality(Credits)
      BY DEF AInv, CreditKept
    <3>5. banked' + Cardinality(Drawn') = Cardinality(Credits)
      BY <1>t, <2>3, <3>2, <3>3, <3>4
    <3> QED BY <3>1, <3>5 DEF CreditKept
  <2> QED BY <1>2, <2>2, <2>3, <2>4, <2>5, <2>6, <2>7, DoorStep
<1>9. CASE UNCHANGED <<banked, made>> /\ (banked < Price \/ AgentFault)
  <2>0. agentFaults' # 0
    <3>0. banked \in Nat
      BY <1>t
    <3>1. banked < Price => ~(banked >= Price)
      BY <3>0 DEF Price
    <3> QED BY <1>2, <1>9, <1>s, <3>1
  <2>1. PaidInv(c)' /\ SaidInv(c)' /\ MadeInv(c)'
    BY <1>t, <1>1, <1>4, <1>6, <1>9 DEF CallInv, PaidInv, SaidInv, MadeInv, Before
  <2> QED BY <1>1, <1>2, <1>3, <1>4, <1>5, <1>7, <1>9, <2>0, <2>1, PlainStep
<1> QED BY <1>8, <1>9 DEF Debit

LEMMA MarkStep ==
  ASSUME AInv, NEW c \in Call, MarkDone(c)
  PROVE  AInv'
<1>t. RestTypes /\ call[c].key \in Key
  BY DEF AInv, AgentTypes, CallType
<1>1. UNCHANGED <<paid, wallet, banked, made, told>> /\ call[c].pc = "mark"
  BY DEF MarkDone
<1>2. RestTypes' /\ (agentFaults' = 0 => agentFaults = 0)
  <2>1. intent' \in [Key -> {"none", "held", "done"}]
    BY <1>t DEF MarkDone, RestTypes
  <2>2. AgentFault \/ NoAgentFault
    BY DEF MarkDone
  <2> QED BY <1>t, <1>1, <2>1, <2>2, FaultTypes DEF RestTypes
<1>3. \E a \in {"made", "failed"} : Outcome(c, a)
  BY DEF MarkDone
<1> QED BY <1>1, <1>2, <1>3, EndsStep

LEMMA CutStep ==
  ASSUME AInv, NEW c \in Call, CutShort(c)
  PROVE  AInv'
<1>t. AgentTypes /\ RestTypes /\ call[c] \in CallType /\ call[c].key \in Key /\ CallInv(c)
  BY DEF AInv, AgentTypes, CallType
<1>1. UNCHANGED <<paid, wallet, banked, made, told>> /\ call[c].pc \in Creating
  BY DEF CutShort
<1>2. RestTypes' /\ agentFaults' # 0
  <2>1. intent' \in [Key -> {"none", "held", "done"}]
    BY <1>t DEF CutShort, Releases, RestTypes
  <2> QED BY <1>t, <1>1, <2>1, FaultTypes DEF RestTypes, CutShort
<1>3. CASE Releases(c)
  <2>1. Outcome(c, "failed")
    BY <1>3 DEF Releases
  <2> QED BY <1>1, <1>2, <2>1, EndsStep DEF Creating
<1>4. CASE call' = [call EXCEPT ![c] = [@ EXCEPT !.pc = "over",
                                   !.said = IF call[c].said = "" THEN "unsure" ELSE call[c].said]]
  <2> DEFINE a == IF call[c].said = "" THEN "unsure" ELSE call[c].said
  <2>1. a \in Answers /\ (a = "unsure" \/ a = call[c].said)
    BY <1>t DEF CallType, Answers
  <2>2. call' = [call EXCEPT ![c] = [@ EXCEPT !.pc = "over", !.said = a]]
    BY <1>4
  <2>3. call[c].pc # "credit"
    BY <1>1 DEF Creating
  <2> HIDE DEF a
  <2> QED BY <1>1, <1>2, <2>1, <2>2, <2>3, OverStep
<1> QED BY <1>3, <1>4 DEF CutShort

LEMMA ReplyStep ==
  ASSUME AInv, NEW c \in Call, ReplyWeb(c) \/ ReplyLocal(c)
  PROVE  AInv'
<1>t. AgentTypes /\ RestTypes /\ call[c] \in CallType /\ call[c].key \in Key
  BY DEF AInv, AgentTypes, CallType
<1>1. /\ UNCHANGED <<paid, intent, wallet, banked, made, agentFaults>>
      /\ call[c].pc = "reply" /\ told' \subseteq Key
      /\ call' = [call EXCEPT ![c] = [@ EXCEPT !.pc = "over",
                              !.said = IF call[c].said = "" THEN call[c].out ELSE call[c].said]]
  BY <1>t DEF ReplyWeb, ReplyLocal, Heard, RestTypes
<1>2. RestTypes'
  BY <1>t, <1>1 DEF RestTypes
<1> DEFINE a == IF call[c].said = "" THEN call[c].out ELSE call[c].said
<1>3. a \in Answers
  BY <1>t DEF CallType
<1>4. call' = [call EXCEPT ![c] = [@ EXCEPT !.pc = "over", !.said = a]]
  BY <1>1
<1> QED BY <1>1, <1>2, <1>3, <1>4, OverStep

LEMMA DropStep ==
  ASSUME AInv, NEW c \in Call, Drop(c)
  PROVE  AInv'
<1>t. AgentTypes /\ RestTypes /\ call[c] \in CallType
  BY DEF AInv, AgentTypes
<1>1. /\ UNCHANGED <<paid, intent, wallet, banked, made, told>>
      /\ call[c].pc \in {"credit", "reserve", "reply"} \cup Creating
      /\ call' = [call EXCEPT ![c].said = "unsure"]
  BY DEF Drop
<1>2. RestTypes' /\ agentFaults' # 0
  BY <1>t, <1>1, FaultTypes DEF Drop, RestTypes
<1>3. call' = [call EXCEPT ![c] = [@ EXCEPT !.pc = call[c].pc, !.said = "unsure"]]
  BY <1>t, <1>1 DEF CallType, AgentTypes
<1>4. "unsure" \in Answers
  BY DEF Answers
<1> QED BY <1>1, <1>2, <1>3, <1>4, OverStep

-----------------------------------------------------------------------------
LEMMA AgentStart == AgentInit => AInv
<1> SUFFICES ASSUME AgentInit PROVE AInv
  OBVIOUS
<1>1. AgentTypes
  BY NoCallType, AgentConstants DEF AgentInit, AgentTypes, RestTypes, PaidType
<1>2. \A c \in Call : CallInv(c)
  BY DEF AgentInit, CallInv, PaidInv, SaidInv, MadeInv, Before, NoCall
<1>3. Credits = {} /\ Drawn = {}
  BY DEF AgentInit, Credits, Drawn
<1>4. CreditKept
  BY <1>3, FS_EmptySet DEF AgentInit, CreditKept
<1>5. AllOwed /\ OneAtWork
  BY DEF AgentInit, AllOwed, OneAtWork, NoCall
<1> QED BY <1>1, <1>2, <1>4, <1>5 DEF AInv

(* A step that leaves the calls, the payments and the envelopes alone.     *)
LEMMA AgentRests ==
  ASSUME AInv, UNCHANGED <<call, paid, banked, made, agentFaults>>, RestTypes'
  PROVE  AInv'
<1>1. AgentTypes'
  BY DEF AInv, AgentTypes
<1>2. \A c \in Call : CallInv(c)'
  BY DEF AInv, CallInv, PaidInv, SaidInv, MadeInv, Before
<1>3. CreditKept' /\ AllOwed'
  BY DEF AInv, CreditKept, AllOwed, Owed, Credits, Drawn
<1>4. agentFaults' = 0 => OneAtWork'
  BY DEF AInv, OneAtWork
<1> QED BY <1>1, <1>2, <1>3, <1>4 DEF AInv

(* AInv is an invariant of the payment doors. *)
THEOREM AgentInvariant == AgentSpec => []AInv
<1>1. AInv /\ [AgentNext]_agentVars => AInv'
  <2> SUFFICES ASSUME AInv, [AgentNext]_agentVars PROVE AInv'
    OBVIOUS
  <2>t. RestTypes
    BY DEF AInv, AgentTypes
  <2>1. CASE UNCHANGED agentVars
    BY <2>t, <2>1, AgentRests DEF agentVars, RestTypes
  <2>2. ASSUME NEW c \in Call,
               \/ BeginWeb(c) \/ BeginLocal(c) \/ Preflight(c) \/ Terms(c)
               \/ Sign(c) \/ Balance(c) \/ Settle(c)
        PROVE  AInv'
    BY <2>2, BeginStep, PreflightStep, TermsStep, SignStep, BalanceStep, SettleStep
  <2>3. ASSUME NEW c \in Call,
               \/ Credit(c) \/ ReserveIntent(c) \/ PassGate(c) \/ InsertRow(c) \/ Debit(c)
               \/ MarkDone(c) \/ CutShort(c) \/ ReplyWeb(c) \/ ReplyLocal(c) \/ Drop(c)
        PROVE  AInv'
    BY <2>3, CreditStep, ReserveStep, GateStep, InsertStep, DebitStep, MarkStep, CutStep,
       ReplyStep, DropStep
  <2>4. CASE FundWallet
    <3>1. wallet' \in 0..MaxFunds
      BY <2>t, <2>4, AgentConstants DEF FundWallet, RestTypes
    <3> QED BY <2>t, <2>4, <3>1, AgentRests DEF FundWallet, RestTypes
  <2> QED BY <2>1, <2>2, <2>3, <2>4 DEF AgentNext
<1> QED BY <1>1, AgentStart, PTL DEF AgentSpec

(* Every variable of the payment doors keeps its type: the credit never    *)
(* outgrows the payments.                                                  *)
THEOREM DoorTypes == AgentSpec => []AgentTypeOK
<1>1. AInv => AgentTypeOK
  <2> SUFFICES ASSUME AInv PROVE AgentTypeOK
    OBVIOUS
  <2>1. /\ Cardinality(Credits) <= MaxCalls /\ Cardinality(Credits) \in Nat
        /\ Cardinality(Drawn) \in Nat
    BY PaymentsFinite DEF Credits, Drawn
  <2>2. banked \in Nat /\ banked + Cardinality(Drawn) = Cardinality(Credits)
    BY DEF AInv, AgentTypes, CreditKept
  <2>3. banked \in 0..MaxCalls
    BY <2>1, <2>2, AgentConstants
  <2> QED BY <2>3 DEF AInv, AgentTypes, RestTypes, AgentTypeOK, CallType, PaidType
<1> QED BY <1>1, AgentInvariant, PTL

(* However connections drop, calls are repeated under the same proof or    *)
(* another key, creates throw and processes die: a credited payment is on  *)
(* the balance or was drawn by one envelope, a settled one is owed by a    *)
(* call that was told so or is at work, nobody who paid was told that      *)
(* nothing was charged, and where none of that happens no envelope is      *)
(* left undrawn.                                                           *)
THEOREM NoPaymentLost == AgentSpec => []PaymentsKept
<1>1. AInv => PaymentsKept
  <2> SUFFICES ASSUME AInv PROVE PaymentsKept
    OBVIOUS
  <2>1. SettledIsOwed
    BY DEF AInv, AllOwed, SettledIsOwed, CallInv, SaidInv, Charged
  <2>2. CreateIsDrawn
    BY DEF AInv, OneAtWork, CreateIsDrawn
  <2> QED BY <2>1, <2>2 DEF AInv, PaymentsKept
<1> QED BY <1>1, AgentInvariant, PTL

-----------------------------------------------------------------------------
(* Access to the API: a request acts as the credential it presented,       *)
(* whoever signs in or out and whatever keys come and go meanwhile.        *)

KeyType   == [st : {"none", "live", "revoked"}, owner : Account \cup {Nobody},
              by : {"none", "cookie", "key"}]
VisitType == [pc : {"idle", "gate", "handler", "done"}, route : Route, header : Header,
              cookie : Account \cup {Nobody}, csrf : BOOLEAN,
              target : Account \cup {Nobody}, actor : Account \cup {Nobody},
              out : {"ok", "401", "403", "404"}]

(* A key that is presented was minted: nobody mints it again.              *)
KeyExists ==
  visit.pc # "idle" /\ visit.header.kind = "key" => apiKey[visit.header.of].st # "none"

(* What the gate has settled once it admits a request.                     *)
Trusted ==
  visit.pc = "handler" /\ visit.route \notin Public =>
    /\ visit.header.kind \in {"none", "key"}
    /\ visit.header.kind = "key" =>
         visit.route \in Bearer /\ visit.actor = apiKey[visit.header.of].owner
    /\ visit.route = "admin" => visit.actor \in operators

GInv == GateTypeOK /\ KeyExists /\ Trusted /\ ActsAsPresented

-----------------------------------------------------------------------------
(* The types. *)
LEMMA GateTyped == GateTypeOK <=> /\ operators \subseteq Account /\ signedIn \subseteq Account
                              /\ apiKey \in [KeyId -> KeyType] /\ visit \in VisitType
  BY DEF GateTypeOK, KeyType, VisitType

LEMMA HeaderKinds ==
  ASSUME NEW h \in Header
  PROVE  /\ h.kind \in {"none", "junk", "token", "key"}
         /\ h.kind = "token" => h.of \in Account
         /\ h.kind = "key" => h.of \in KeyId
  BY DEF Header

LEMMA NoVisitType == NoVisit \in VisitType
<1>1. [kind |-> "none", of |-> Nobody] \in Header
  BY DEF Header
<1>2. "public" \in Route
  BY DEF Route, Public
<1> QED BY <1>1, <1>2 DEF NoVisit, VisitType

(* A key minted by an account is of its type, and is a new one.            *)
LEMMA MintKeeps ==
  ASSUME apiKey \in [KeyId -> KeyType], NEW p \in Account \cup {Nobody},
         NEW by \in {"cookie", "key"}, Mint(p, by)
  PROVE  /\ apiKey' \in [KeyId -> KeyType]
         /\ \A k \in KeyId : apiKey[k].st # "none" => apiKey'[k] = apiKey[k]
         /\ \A k \in KeyId : apiKey'[k].by = apiKey[k].by \/ apiKey'[k].by = by
<1>1. PICK k \in KeyId : /\ apiKey[k].st = "none"
                         /\ apiKey' = [apiKey EXCEPT ![k] = [st |-> "live", owner |-> p, by |-> by]]
  BY DEF Mint
<1>2. [st |-> "live", owner |-> p, by |-> by] \in KeyType
  BY DEF KeyType
<1> QED BY <1>1, <1>2

(* A revocation leaves everything of a key but its state.                  *)
LEMMA RevokeKeeps ==
  ASSUME apiKey \in [KeyId -> KeyType], NEW k \in KeyId,
         apiKey' = [apiKey EXCEPT ![k].st = "revoked"]
  PROVE  /\ apiKey' \in [KeyId -> KeyType]
         /\ \A j \in KeyId : /\ apiKey'[j].owner = apiKey[j].owner /\ apiKey'[j].by = apiKey[j].by
                             /\ apiKey[j].st # "none" => apiKey'[j].st # "none"
  BY DEF KeyType

-----------------------------------------------------------------------------
(* What a step may do to the keys: none is unmade, no owner changes, and   *)
(* no request under a key mints one.                                       *)
KeysGrow ==
  /\ apiKey' \in [KeyId -> KeyType]
  /\ \A k \in KeyId : apiKey[k].st # "none" =>
       apiKey'[k].st # "none" /\ apiKey'[k].owner = apiKey[k].owner
  /\ \A k \in KeyId : apiKey'[k].by # "key"

LEMMA KeysOnlyGrow == GInv /\ [GateNext]_gateVars => KeysGrow
<1> SUFFICES ASSUME GInv, [GateNext]_gateVars PROVE KeysGrow
  OBVIOUS
<1>t. /\ apiKey \in [KeyId -> KeyType] /\ visit \in VisitType /\ signedIn \subseteq Account
      /\ \A k \in KeyId : apiKey[k].by # "key"
  BY GateTyped DEF GInv, ActsAsPresented
<1>0. UNCHANGED apiKey => KeysGrow
  BY <1>t DEF KeysGrow
<1>m. ASSUME NEW p \in Account \cup {Nobody}, Mint(p, "cookie") PROVE KeysGrow
  BY <1>t, <1>m, MintKeeps DEF KeysGrow
<1>r. ASSUME NEW k \in KeyId, apiKey' = [apiKey EXCEPT ![k].st = "revoked"] PROVE KeysGrow
  BY <1>t, <1>r, RevokeKeeps DEF KeysGrow
<1>1. CASE UNCHANGED gateVars
  BY <1>0, <1>1 DEF gateVars
<1>2. ASSUME NEW route \in Route, NEW header \in Header, NEW cookie \in Account \cup {Nobody},
             NEW csrf \in BOOLEAN, NEW target \in Account,
             Arrive(route, header, cookie, csrf, target)
      PROVE  KeysGrow
  BY <1>0, <1>2 DEF Arrive
<1>3. CASE Authenticate \/ Depart
  BY <1>0, <1>3 DEF Authenticate, Depart
<1>4. CASE Perform
  <2>1. CASE TouchEnvelope \/ ActForSelf
    BY <1>0, <2>1 DEF TouchEnvelope, ActForSelf
  <2>2. CASE ManageKeys
    <3>1. visit.pc = "handler" /\ visit.route = "keys"
      BY <1>4, <2>2 DEF Perform, ManageKeys
    <3>2. Credential = "cookie"
      BY <3>1 DEF GInv, Trusted, Public, Bearer, Credential
    <3>3. visit.actor \in Account \cup {Nobody}
      BY <1>t DEF VisitType
    <3>4. CASE Mint(visit.actor, Credential)
      BY <1>m, <3>2, <3>3, <3>4
    <3> QED BY <1>0, <1>r, <2>2, <3>4 DEF ManageKeys
  <2> QED BY <1>4, <2>1, <2>2 DEF Perform
<1>5. ASSUME NEW p \in Account, Elsewhere(p) PROVE KeysGrow
  BY <1>0, <1>m, <1>r, <1>5 DEF Elsewhere
<1> QED BY <1>1, <1>2, <1>3, <1>4, <1>5 DEF GateNext

-----------------------------------------------------------------------------
(* The steps of the request. *)
LEMMA VisitStep == GInv /\ GateNext /\ KeysGrow => GInv'
<1> SUFFICES ASSUME GInv, GateNext, KeysGrow PROVE GInv'
  OBVIOUS
<1>t. /\ operators \subseteq Account /\ signedIn \subseteq Account
      /\ apiKey \in [KeyId -> KeyType] /\ visit \in VisitType
  BY GateTyped DEF GInv
<1>o. UNCHANGED operators
  BY DEF GateNext, Arrive, Authenticate, Perform, Depart, Elsewhere
<1>s. signedIn' \subseteq Account
  BY <1>t DEF GateNext, Arrive, Authenticate, Perform, Depart, Elsewhere
<1>h. /\ visit.header \in Header
      /\ visit.header.kind \in {"none", "junk", "token", "key"}
      /\ visit.header.kind = "key" => visit.header.of \in KeyId
      /\ visit.header.kind = "token" => visit.header.of \in Account
  BY <1>t, HeaderKinds DEF VisitType
(* While the request stands still, its key keeps its owner.                *)
<1>0. ASSUME UNCHANGED visit PROVE GInv'
  <2>1. GateTypeOK'
    BY <1>0, <1>o, <1>s, <1>t, GateTyped DEF KeysGrow, GateTypeOK, KeyType, VisitType
  <2>2. KeyExists'
    BY <1>0, <1>h DEF GInv, KeyExists, KeysGrow
  <2>3. Trusted'
    BY <1>0, <1>h, <1>o DEF GInv, Trusted, KeyExists, KeysGrow
  <2>4. ActsAsPresented'
    BY <1>0, <1>h, <1>o DEF GInv, ActsAsPresented, KeyExists, KeysGrow
  <2> QED BY <2>1, <2>2, <2>3, <2>4 DEF GInv
<1>1. ASSUME NEW route \in Route, NEW header \in Header, NEW cookie \in Account \cup {Nobody},
             NEW csrf \in BOOLEAN, NEW target \in Account,
             Arrive(route, header, cookie, csrf, target)
      PROVE  GInv'
  <2>1. visit'.pc = "gate" /\ visit'.header = header /\ visit' \in VisitType
    BY <1>1, NoVisitType DEF Arrive, VisitType, NoVisit
  <2>2. GateTypeOK'
    BY <2>1, <1>o, <1>s, <1>t DEF KeysGrow, GateTypeOK, KeyType, VisitType
  <2>3. KeyExists'
    BY <1>1, <2>1 DEF KeyExists, Arrive
  <2>4. Trusted' /\ ActsAsPresented'
    BY <2>1 DEF Trusted, ActsAsPresented, KeysGrow
  <2> QED BY <2>2, <2>3, <2>4 DEF GInv
<1>2. CASE Depart
  <2>1. visit' = NoVisit /\ visit'.pc = "idle" /\ visit' \in VisitType
    BY <1>2, NoVisitType DEF Depart, NoVisit
  <2>2. GateTypeOK'
    BY <2>1, <1>o, <1>s, <1>t DEF KeysGrow, GateTypeOK, KeyType, VisitType
  <2>3. KeyExists' /\ Trusted' /\ ActsAsPresented'
    BY <2>1 DEF KeyExists, Trusted, ActsAsPresented, KeysGrow
  <2> QED BY <2>2, <2>3 DEF GInv
(* The gate and the handler write their place, the actor and the answer.   *)
<1>w. ASSUME NEW pc \in {"handler", "done"}, NEW actor \in Account \cup {Nobody},
             NEW out \in {"ok", "401", "403", "404"}, visit.pc # "idle",
             visit' = [visit EXCEPT !.pc = pc, !.actor = actor, !.out = out]
      PROVE  GateTypeOK' /\ KeyExists'
  <2>1. visit' \in VisitType
    BY <1>t, <1>w DEF VisitType
  <2>2. GateTypeOK'
    BY <2>1, <1>o, <1>s, <1>t DEF KeysGrow, GateTypeOK, KeyType, VisitType
  <2>3. visit'.header = visit.header
    BY <1>t, <1>w DEF VisitType
  <2>4. KeyExists'
    BY <1>h, <1>w, <2>3 DEF GInv, KeyExists, KeysGrow
  <2> QED BY <2>2, <2>4
<1>f. ASSUME NEW out \in {"401", "403", "404"}, visit.pc # "idle",
             visit' = [visit EXCEPT !.pc = "done", !.out = out]
      PROVE  GInv'
  <2>1. visit' = [visit EXCEPT !.pc = "done", !.actor = visit.actor, !.out = out]
    BY <1>t, <1>f DEF VisitType
  <2>2. visit'.pc = "done" /\ visit'.out # "ok" /\ visit.actor \in Account \cup {Nobody}
    BY <1>t, <1>f DEF VisitType
  <2>3. GateTypeOK' /\ KeyExists'
    BY <1>w, <1>f, <2>1, <2>2
  <2>4. Trusted' /\ ActsAsPresented'
    BY <2>2 DEF Trusted, ActsAsPresented, KeysGrow
  <2> QED BY <2>3, <2>4 DEF GInv
<1>a. ASSUME NEW who \in Account \cup {Nobody}, visit.pc = "gate", Admitted(who),
             visit.route \notin Public =>
               /\ visit.header.kind \in {"none", "key"}
               /\ visit.header.kind = "key" =>
                    visit.route \in Bearer /\ who = apiKey[visit.header.of].owner
               /\ visit.route = "admin" => who \in operators
      PROVE  GInv'
  <2>1. visit' = [visit EXCEPT !.pc = "handler", !.actor = who, !.out = visit.out]
    BY <1>t, <1>a DEF VisitType, Admitted
  <2>2. /\ visit'.pc = "handler" /\ visit'.actor = who /\ visit'.header = visit.header
        /\ visit'.route = visit.route
    BY <1>t, <2>1 DEF VisitType
  <2>3. visit.out \in {"ok", "401", "403", "404"}
    BY <1>t DEF VisitType
  <2>4. GateTypeOK' /\ KeyExists'
    BY <1>w, <1>a, <2>1, <2>3
  <2>5. Trusted'
    BY <1>a, <1>h, <1>o, <2>2 DEF Trusted, KeysGrow, GInv, KeyExists
  <2>6. ActsAsPresented'
    BY <2>2 DEF ActsAsPresented, KeysGrow
  <2> QED BY <2>4, <2>5, <2>6 DEF GInv
<1>3. CASE Authenticate
  <2>p. visit.pc = "gate"
    BY <1>3 DEF Authenticate
  <2>n. visit.cookie \in Account \cup {Nobody}
    BY <1>t DEF VisitType
  <2>1. CASE ByToken /\ visit.header.kind = "token"
    <3>1. CASE visit.route # "read"
      BY <1>f, <2>1, <2>p, <3>1 DEF ByToken, Refused
    <3>2. CASE visit.route = "read" /\ visit.target # visit.header.of
      BY <1>f, <2>1, <2>p, <3>2 DEF ByToken, Refused
    <3>3. CASE visit.route = "read" /\ visit.target = visit.header.of
      <4>1. visit' = [visit EXCEPT !.pc = "done", !.actor = visit.header.of, !.out = visit.out]
        BY <1>t, <2>1, <3>3 DEF ByToken, VisitType
      <4>2. visit.out \in {"ok", "401", "403", "404"} /\ visit.header.of \in Account
        BY <1>h, <1>t, <2>1 DEF VisitType
      <4>3. GateTypeOK' /\ KeyExists'
        BY <1>w, <2>p, <4>1, <4>2
      <4>4. /\ visit'.pc = "done" /\ visit'.header = visit.header /\ visit'.route = "read"
            /\ visit'.actor = visit.header.of /\ visit'.target = visit.header.of
        BY <1>t, <3>3, <4>1 DEF VisitType
      <4>5. Trusted' /\ ActsAsPresented'
        BY <2>1, <4>4 DEF Trusted, ActsAsPresented, KeysGrow
      <4> QED BY <4>3, <4>5 DEF GInv
    <3> QED BY <3>1, <3>2, <3>3
  <2>2. CASE visit.header.kind # "token" /\ visit.route \in Public /\ Admitted(Nobody)
    BY <1>a, <2>2, <2>p
  <2>3. CASE visit.header.kind = "none" /\ visit.route \notin Public /\ ByCookie
    <3>1. CASE Refused("401") \/ Refused("403")
      BY <1>f, <2>p, <3>1 DEF Refused
    <3>2. CASE Admitted(visit.cookie) /\ (visit.route = "admin" => visit.cookie \in operators)
      BY <1>a, <2>3, <2>n, <2>p, <3>2
    <3> QED BY <2>3, <3>1, <3>2 DEF ByCookie, IsOperator
  <2>4. CASE visit.header.kind \in {"key", "junk"} /\ visit.route \notin Public /\ ByHeader
    <3>1. CASE Refused("401") \/ Refused("403")
      BY <1>f, <2>p, <3>1 DEF Refused
    <3>2. CASE /\ visit.header.kind = "key" /\ visit.route \in Bearer
               /\ Admitted(apiKey[visit.header.of].owner)
      <4>1. apiKey[visit.header.of].owner \in Account \cup {Nobody}
        BY <1>h, <1>t, <3>2 DEF KeyType
      <4>2. visit.route # "admin"
        BY <3>2 DEF Bearer
      <4> QED BY <1>a, <2>p, <3>2, <4>1, <4>2
    <3> QED BY <2>4, <3>1, <3>2 DEF ByHeader
  <2>5. CASE visit.header.kind = "token"
    BY <1>3, <2>1, <2>5 DEF Authenticate
  <2>6. CASE visit.header.kind # "token" /\ visit.route \in Public
    BY <1>3, <2>2, <2>6 DEF Authenticate
  <2>7. CASE visit.header.kind = "none" /\ visit.route \notin Public
    BY <1>3, <2>3, <2>7 DEF Authenticate
  <2>8. CASE visit.header.kind \in {"key", "junk"} /\ visit.route \notin Public
    BY <1>3, <2>4, <2>8 DEF Authenticate
  <2> QED BY <1>h, <2>5, <2>6, <2>7, <2>8
(* A handler answers for the actor the gate named.                         *)
<1>k. ASSUME visit.pc = "handler", Answered("ok"),
             visit.route \in Owned => visit.target = visit.actor
      PROVE  GInv'
  <2>1. visit' = [visit EXCEPT !.pc = "done", !.actor = visit.actor, !.out = "ok"]
    BY <1>t, <1>k DEF VisitType, Answered
  <2>2. visit.actor \in Account \cup {Nobody}
    BY <1>t DEF VisitType
  <2>3. GateTypeOK' /\ KeyExists'
    BY <1>w, <1>k, <2>1, <2>2
  <2>4. /\ visit'.pc = "done" /\ visit'.header = visit.header /\ visit'.route = visit.route
        /\ visit'.actor = visit.actor /\ visit'.target = visit.target
    BY <1>t, <2>1 DEF VisitType
  <2>5. Trusted'
    BY <2>4 DEF Trusted
  <2>6. ActsAsPresented'
    BY <1>h, <1>k, <1>o, <2>4 DEF GInv, Trusted, KeyExists, ActsAsPresented, KeysGrow
  <2> QED BY <2>3, <2>5, <2>6 DEF GInv
<1>4. CASE Perform
  <2>p. visit.pc = "handler"
    BY <1>4 DEF Perform
  <2>1. ASSUME NEW code \in {"401", "403", "404"}, Answered(code) PROVE GInv'
    BY <1>f, <2>1, <2>p DEF Answered
  <2>2. CASE TouchEnvelope
    BY <1>k, <2>1, <2>2, <2>p DEF TouchEnvelope
  <2>3. CASE ManageKeys
    BY <1>k, <2>1, <2>3, <2>p DEF ManageKeys, Owned
  <2>4. CASE ActForSelf
    BY <1>k, <2>1, <2>4, <2>p
       DEF ActForSelf, ServePublic, ServeSigner, ServeCreator, ServeAccount, ServeConsole, Owned
  <2> QED BY <1>4, <2>2, <2>3, <2>4 DEF Perform
<1>5. ASSUME NEW p \in Account, Elsewhere(p) PROVE GInv'
  BY <1>0, <1>5 DEF Elsewhere
<1> QED BY <1>1, <1>2, <1>3, <1>4, <1>5 DEF GateNext

-----------------------------------------------------------------------------
LEMMA GateStart == GateInit => GInv
<1> SUFFICES ASSUME GateInit PROVE GInv
  OBVIOUS
<1>1. GateTypeOK
  BY NoVisitType, GateTyped DEF GateInit, KeyType
<1>2. visit.pc = "idle" /\ \A k \in KeyId : apiKey[k].by # "key"
  BY DEF GateInit, NoVisit
<1> QED BY <1>1, <1>2 DEF GInv, KeyExists, Trusted, ActsAsPresented

(* GInv is an invariant of the gate. *)
THEOREM GateInvariant == GateSpec => []GInv
<1>1. GInv /\ [GateNext]_gateVars => GInv'
  <2> SUFFICES ASSUME GInv, [GateNext]_gateVars PROVE GInv'
    OBVIOUS
  <2>1. CASE GateNext
    BY <2>1, KeysOnlyGrow, VisitStep
  <2>2. CASE UNCHANGED gateVars
    BY <2>2 DEF gateVars, GInv, GateTypeOK, KeyExists, Trusted, ActsAsPresented
  <2> QED BY <2>1, <2>2
<1> QED BY <1>1, GateStart, PTL DEF GateSpec

(* Whatever accounts and keys there are, and whoever signs in or out, mints *)
(* or revokes while a request is under way, the request acts as what it    *)
(* presented: a broken key never becomes the cookie, a key never makes or  *)
(* unmakes a key, a token reads its own envelope.                          *)
THEOREM PresentedIsActor == GateSpec => []ActsAsPresented
<1>1. GInv => ActsAsPresented
  BY DEF GInv
<1> QED BY <1>1, GateInvariant, PTL

-----------------------------------------------------------------------------
(* The account pages: a copy on show is the account, or one of the calls   *)
(* that changed it will still have it read again, or say that it failed,   *)
(* or it lacks only what was done for a page left before.                  *)

(* A call of this page has been made whose answer it still waits for.      *)
Stirred == \E c \in Slot : act[c].pc \in {"done", "failed"} /\ act[c].of = page.from

(* A copy lacks nothing but strays, says so, or is from before a call that *)
(* will have it read again, or tell.                                       *)
Fresh(copy) == copy \in 0..holds /\ (copy + 1)..holds \subseteq strays
Good(copy) == Fresh(copy) \/ copy = NotConnected \/ page.unsure \/ Stirred

PageInv ==
  /\ lastRead >= 1 /\ page.by <= lastRead
  /\ \A r \in reads : r.n <= lastRead
  /\ ~page.open => reads = {}
  /\ page.open /\ page.by = lastRead => Good(page.shows)
  /\ \A r \in reads : r.n = lastRead => r.got = Unknown \/ Good(r.got)

PInv == AccountTypeOK /\ PageInv

Notice == {"none", "error", "reauth", "ceremony_error", "linked"}
Place  == {"idle", "options", "browser", "asked", "done", "stale", "failed"}
Act    == [b : Button, of : 0..MaxReads, pc : Place]
Page   == [open : BOOLEAN, away : BOOLEAN, from : 1..MaxReads,
           shows : NotConnected..MaxChanges, by : 0..MaxReads, unsure : BOOLEAN,
           notice : Notice]
Read   == [n : 1..MaxReads, got : NotConnected..MaxChanges, mount : BOOLEAN]
-----------------------------------------------------------------------------
LEMMA PageTyped ==
  AccountTypeOK <=> /\ kind \in Kind /\ holds \in 0..MaxChanges /\ recent \in BOOLEAN
                    /\ page \in Page /\ reads \subseteq Read /\ lastRead \in 0..MaxReads
                    /\ act \in [Slot -> Act] /\ strays \subseteq 1..MaxChanges
                    /\ accountFaults \in 0..MaxAccountFaults
  BY DEF AccountTypeOK, Page, Notice, Read, Place, Act

LEMMA AccountFaultTypes ==
  ASSUME accountFaults \in 0..MaxAccountFaults, AccountFault \/ NoAccountFault
  PROVE  accountFaults' \in 0..MaxAccountFaults
  BY AccountAssumption DEF AccountFault, NoAccountFault

LEMMA NewPageType ==
  ASSUME NEW first \in 1..MaxReads, NEW notice \in Notice
  PROVE  LET q == [NewPage(first) EXCEPT !.notice = notice]
         IN  /\ NewPage(first) \in Page /\ NewPage(first).open /\ NewPage(first).by = 0
             /\ q \in Page /\ q.open /\ q.by = 0
<1>1. Unknown \in NotConnected..MaxChanges /\ 0 \in 0..MaxReads
  BY AccountAssumption DEF Unknown, NotConnected
<1> QED BY <1>1 DEF NewPage, Page, Notice

LEMMA NoActType == NoAct \in Act /\ NoAct.pc = "idle"
  BY AccountAssumption DEF NoAct, Act, Button, Place

LEMMA AccountStart == AccountInit => PInv
<1> SUFFICES ASSUME AccountInit PROVE PInv
  OBVIOUS
<1>1. Unknown \in NotConnected..MaxChanges /\ 1 \in 1..MaxReads
  BY AccountAssumption DEF Unknown, NotConnected
<1>2. page = NewPage(1) /\ page \in Page /\ page.by = 0 /\ page.open
  BY <1>1, NewPageType DEF AccountInit, Notice
<1>3. reads \subseteq Read /\ \A r \in reads : r.n = 1 /\ r.got = Unknown
  BY <1>1, AccountAssumption DEF AccountInit, Read
<1>4. act \in [Slot -> Act]
  BY NoActType DEF AccountInit
<1>5. AccountTypeOK
  BY <1>2, <1>3, <1>4, AccountAssumption, PageTyped DEF AccountInit
<1>6. PageInv
  BY <1>2, <1>3 DEF PageInv, AccountInit
<1> QED BY <1>5, <1>6 DEF PInv

(* What a call under way becomes.                                          *)
LEMMA ActMoves ==
  ASSUME act \in [Slot -> Act], NEW c \in Slot, NEW to \in Place, Moves(c, to)
  PROVE  /\ act' \in [Slot -> Act]
         /\ act'[c].pc = to /\ act'[c].of = act[c].of
         /\ \A d \in Slot : d # c => act'[d] = act[d]
<1> DEFINE a == [act[c] EXCEPT !.pc = to]
<1>1. a \in Act /\ a.pc = to /\ a.of = act[c].of
  BY DEF Act
<1>2. act' = [act EXCEPT ![c] = a]
  BY DEF Moves
<1> HIDE DEF a
<1> QED BY <1>1, <1>2

LEMMA ActEnds ==
  ASSUME act \in [Slot -> Act], NEW c \in Slot, Ends(c)
  PROVE  act' \in [Slot -> Act] /\ \A d \in Slot : d # c => act'[d] = act[d]
  BY NoActType DEF Ends

LEMMA ActBegins ==
  ASSUME act \in [Slot -> Act], NEW c \in Slot, NEW b \in Button, NEW pc \in Place,
         NEW first \in 1..MaxReads, Begins(c, b, pc, first)
  PROVE  /\ act' \in [Slot -> Act] /\ act[c].pc = "idle"
         /\ \A d \in Slot : d # c => act'[d] = act[d]
<1> DEFINE a == [b |-> b, pc |-> pc, of |-> first]
<1>1. a \in Act
  BY AccountAssumption DEF Act
<1>2. act' = [act EXCEPT ![c] = a] /\ act[c].pc = "idle"
  BY DEF Begins
<1> HIDE DEF a
<1> QED BY <1>1, <1>2

(* A page that was just opened has begun its own read and shows nothing.   *)
LEMMA FreshPage ==
  ASSUME PInv, page' \in Page, page'.by = 0, page'.open, Reads({}, TRUE),
         act' \in [Slot -> Act], UNCHANGED <<kind, holds, strays, accountFaults>>,
         recent' \in BOOLEAN
  PROVE  PInv'
<1>1. /\ lastRead' = lastRead + 1 /\ lastRead' \in 1..MaxReads
      /\ reads' = {[n |-> lastRead + 1, got |-> Unknown, mount |-> TRUE]}
  BY PageTyped, AccountAssumption DEF Reads, PInv
<1>2. Unknown \in NotConnected..MaxChanges
  BY AccountAssumption DEF Unknown, NotConnected
<1>3. \A r \in reads' : r \in Read /\ r.n = lastRead' /\ r.got = Unknown
  <2> DEFINE new == [n |-> lastRead + 1, got |-> Unknown, mount |-> TRUE]
  <2>1. new \in Read /\ new.n = lastRead + 1 /\ new.got = Unknown
    BY <1>1, <1>2 DEF Read
  <2>2. reads' = {new}
    BY <1>1
  <2> HIDE DEF new
  <2> QED BY <1>1, <2>1, <2>2
<1>4. AccountTypeOK'
  BY <1>1, <1>3, PageTyped DEF AccountTypeOK, PInv, Page, Read, Notice, Place, Act
<1>5. PageInv'
  BY <1>1, <1>3 DEF PageInv
<1> QED BY <1>4, <1>5 DEF PInv

(* A page that is left has nothing in flight to it.                        *)
LEMMA LeftPage ==
  ASSUME PInv, NEW away \in BOOLEAN, Leave(away),
         UNCHANGED <<kind, holds, recent, lastRead, act, strays, accountFaults>>
  PROVE  PInv'
<1>1. page' \in Page /\ ~page'.open /\ page'.by = page.by
  <2> DEFINE q == [page EXCEPT !.open = FALSE]
  <2>1. q \in Page /\ ~q.open /\ q.by = page.by
    BY PageTyped DEF PInv, Page
  <2>2. page' = [q EXCEPT !.away = away]
    BY DEF Leave
  <2> HIDE DEF q
  <2> QED BY <2>1, <2>2 DEF Page
<1>2. AccountTypeOK'
  BY <1>1, PageTyped DEF AccountTypeOK, PInv, Page, Notice, Leave
<1>3. PageInv'
  BY <1>1 DEF PageInv, PInv, Leave
<1> QED BY <1>2, <1>3 DEF PInv

(* A step that keeps the account, the calls whose answer is awaited and    *)
(* what is on show keeps the invariant.                                    *)
LEMMA PageKept ==
  ASSUME PInv, page' \in Page, page'.open = page.open, page'.by = page.by,
         page'.shows = page.shows, page'.from = page.from, page.unsure => page'.unsure,
         act' \in [Slot -> Act], Stirred => Stirred' \/ page'.unsure,
         accountFaults' \in 0..MaxAccountFaults,
         UNCHANGED <<kind, holds, recent, reads, lastRead, strays>>
  PROVE  PInv'
<1>1. AccountTypeOK'
  BY PageTyped DEF AccountTypeOK, PInv, Page, Notice, Act, Place
<1>2. \A copy : Good(copy) => Good(copy)'
  BY DEF Good, Fresh
<1>3. PageInv'
  BY <1>2 DEF PageInv, PInv
<1> QED BY <1>1, <1>3 DEF PInv

LEMMA ReadStep ==
  ASSUME PInv, NEW r \in reads, ServeRead(r) \/ ReadArrives(r) \/ ReadFails(r)
  PROVE  PInv'
<1>1. r \in Read /\ page \in Page /\ reads \subseteq Read
  BY PageTyped DEF PInv
<1>2. CASE ServeRead(r)
  <2>1. PICK got \in {holds, NotConnected} :
          /\ reads' = (reads \ {r}) \cup {[r EXCEPT !.got = got]}
          /\ accountFaults' \in 0..MaxAccountFaults
    BY <1>2, AccountAssumption, PageTyped
    DEF ServeRead, AccountFault, NoAccountFault, PInv
  <2>2. got \in NotConnected..MaxChanges /\ (got = NotConnected \/ Fresh(got))
    BY <2>1, AccountAssumption, PageTyped DEF PInv, NotConnected, Fresh
  <2>3. [r EXCEPT !.got = got] \in Read /\ [r EXCEPT !.got = got].n = r.n
        /\ [r EXCEPT !.got = got].got = got
    BY <1>1, <2>2 DEF Read
  <2>4. UNCHANGED <<kind, holds, recent, page, lastRead, act, strays>>
    BY <1>2 DEF ServeRead
  <2>5. AccountTypeOK'
    BY <1>1, <2>1, <2>3, <2>4 DEF AccountTypeOK, PInv, Read
  <2>6. \A copy : Good(copy)' <=> Good(copy)
    BY <2>4 DEF Good, Fresh, Stirred
  <2>7. Good(got)
    BY <2>2 DEF Good
  <2>8. PageInv'
    BY <2>1, <2>3, <2>4, <2>6, <2>7 DEF PageInv, PInv
  <2> QED BY <2>5, <2>8 DEF PInv
<1>3. CASE ReadArrives(r)
  <2>1. /\ page' = [page EXCEPT !.shows = r.got, !.by = r.n]
        /\ reads' = reads \ {r} /\ r.got # Unknown
        /\ UNCHANGED <<kind, holds, recent, lastRead, act, strays, accountFaults>>
    BY <1>3 DEF ReadArrives
  <2>2. /\ page' \in Page /\ page'.open = page.open /\ page'.unsure = page.unsure
        /\ page'.shows = r.got /\ page'.by = r.n /\ page'.from = page.from
    <3>1. r.got \in NotConnected..MaxChanges /\ r.n \in 0..MaxReads
      BY <1>1, AccountAssumption DEF Read
    <3> DEFINE q == [page EXCEPT !.shows = r.got]
    <3>2. /\ q \in Page /\ q.open = page.open /\ q.unsure = page.unsure
          /\ q.shows = r.got /\ q.from = page.from
      BY <1>1, <3>1 DEF Page
    <3>3. page' = [q EXCEPT !.by = r.n]
      BY <2>1
    <3> HIDE DEF q
    <3> QED BY <3>1, <3>2, <3>3 DEF Page
  <2>3. AccountTypeOK'
    BY <2>1, <2>2, <1>1 DEF AccountTypeOK, PInv, Page, Notice
  <2>4. \A copy : Good(copy)' <=> Good(copy)
    BY <2>1, <2>2 DEF Good, Fresh, Stirred
  <2>5. PageInv'
    BY <2>1, <2>2, <2>4 DEF PageInv, PInv
  <2> QED BY <2>3, <2>5 DEF PInv
<1>4. CASE ReadFails(r)
  <2>1. /\ reads' = reads \ {r}
        /\ UNCHANGED <<kind, holds, recent, lastRead, act, strays>>
        /\ accountFaults' \in 0..MaxAccountFaults
    BY <1>4, AccountAssumption, PageTyped DEF ReadFails, AccountFault, PInv
  <2>2. /\ page' \in Page /\ page'.open = page.open /\ page'.by \in {page.by, r.n}
        /\ page'.unsure \/ page'.shows = NotConnected
        /\ page.unsure => page'.unsure
        /\ page'.from = page.from
    <3>1. NotConnected \in NotConnected..MaxChanges /\ r.n \in 0..MaxReads /\ "error" \in Notice
      BY <1>1, AccountAssumption DEF Read, NotConnected, Notice
    <3>2. CASE page' = [page EXCEPT !.shows = NotConnected, !.by = r.n]
      <4> DEFINE q == [page EXCEPT !.shows = NotConnected]
      <4>1. /\ q \in Page /\ q.open = page.open /\ q.unsure = page.unsure
            /\ q.shows = NotConnected /\ q.from = page.from
        BY <1>1, <3>1 DEF Page
      <4>2. page' = [q EXCEPT !.by = r.n]
        BY <3>2
      <4> HIDE DEF q
      <4> QED BY <3>1, <4>1, <4>2 DEF Page
    <3>3. CASE page' = [page EXCEPT !.notice = "error", !.unsure = TRUE]
      <4> DEFINE q == [page EXCEPT !.notice = "error"]
      <4>1. q \in Page /\ q.open = page.open /\ q.by = page.by /\ q.from = page.from
        BY <1>1, <3>1 DEF Page
      <4>2. page' = [q EXCEPT !.unsure = TRUE]
        BY <3>3
      <4> HIDE DEF q
      <4> QED BY <4>1, <4>2 DEF Page
    <3> QED BY <1>4, <3>2, <3>3 DEF ReadFails
  <2>3. AccountTypeOK'
    BY <1>1, <2>1, <2>2 DEF AccountTypeOK, PInv, Page, Notice
  <2>4. \A copy : Good(copy) => Good(copy)'
    BY <2>1, <2>2 DEF Good, Fresh, Stirred
  <2>5. page'.unsure \/ page'.shows = NotConnected => Good(page.shows)'
    BY DEF Good
  <2>6. PageInv'
    BY <2>1, <2>2, <2>4, <2>5 DEF PageInv, PInv
  <2> QED BY <2>3, <2>6 DEF PInv
<1> QED BY <1>2, <1>3, <1>4

LEMMA PressStep ==
  ASSUME PInv,
         \/ MintKey \/ AddPasskey \/ \E c \in Slot : PasskeyCeremony(c)
         \/ RevokeKey \/ RemovePasskey \/ DisconnectGoogle
  PROVE  PInv'
<1>1. page \in Page /\ act \in [Slot -> Act] /\ page.from \in 1..MaxReads
      /\ accountFaults \in 0..MaxAccountFaults
  BY PageTyped DEF PInv, Page
<1>2. PICK c \in Slot :
        /\ \/ \E to \in Place : Moves(c, to) /\ act[c].pc \in {"options", "browser"}
           \/ \E b \in Button, pc \in Place : Begins(c, b, pc, page.from)
        /\ page' = page \/ page' = [page EXCEPT !.notice = "none"]
        /\ UNCHANGED <<kind, holds, recent, reads, lastRead, strays, accountFaults>>
  BY DEF MintKey, AddPasskey, PasskeyCeremony, RevokeKey, RemovePasskey, DisconnectGoogle, Press,
         Button, Place
<1>3. /\ page' \in Page /\ page'.open = page.open /\ page'.by = page.by
      /\ page'.shows = page.shows /\ page'.unsure = page.unsure /\ page'.from = page.from
  BY <1>1, <1>2 DEF Page, Notice
<1>4. /\ act' \in [Slot -> Act] /\ act[c].pc \notin {"done", "failed"}
      /\ \A d \in Slot : d # c => act'[d] = act[d]
  BY <1>1, <1>2, ActMoves, ActBegins
<1>5. Stirred => Stirred'
  BY <1>3, <1>4 DEF Stirred
<1> QED BY <1>1, <1>2, <1>3, <1>4, <1>5, PageKept

(* A call is served: a change is awaited by its page, or a stray.          *)
LEMMA ServedStep ==
  ASSUME PInv, NEW c \in Slot, ServeCall(c)
  PROVE  PInv'
<1>1. /\ page \in Page /\ act \in [Slot -> Act] /\ holds \in 0..MaxChanges
      /\ strays \subseteq 1..MaxChanges /\ accountFaults \in 0..MaxAccountFaults
  BY PageTyped DEF PInv
<1>2. PICK to \in {"stale", "done", "failed"} :
        /\ act[c].pc = "asked" /\ Moves(c, to)
        /\ \/ UNCHANGED <<holds, strays>>
           \/ /\ to # "stale" /\ holds < MaxChanges /\ holds' = holds + 1
              /\ strays' = IF act[c].of # page.from THEN strays \cup {holds + 1} ELSE strays
        /\ UNCHANGED <<kind, recent, page, reads, lastRead>>
  BY DEF ServeCall
<1>3. /\ holds' \in 0..MaxChanges /\ strays' \subseteq 1..MaxChanges
      /\ accountFaults' \in 0..MaxAccountFaults
  <2>1. accountFaults' \in 0..MaxAccountFaults
    BY <1>1, AccountFaultTypes DEF ServeCall
  <2>2. CASE UNCHANGED <<holds, strays>>
    BY <1>1, <2>1, <2>2
  <2>3. CASE /\ holds < MaxChanges /\ holds' = holds + 1
             /\ strays' = IF act[c].of # page.from THEN strays \cup {holds + 1} ELSE strays
    <3>1. holds \in 0..MaxChanges
      BY <1>1
    <3>2. holds + 1 \in 1..MaxChanges /\ holds + 1 \in 0..MaxChanges
      BY <2>3, <3>1, AccountAssumption
    <3> QED BY <1>1, <2>1, <2>3, <3>2
  <2> QED BY <1>2, <2>2, <2>3
<1>4. /\ act' \in [Slot -> Act] /\ act'[c].pc = to /\ act'[c].of = act[c].of
      /\ \A d \in Slot : d # c => act'[d] = act[d]
  BY <1>1, <1>2, ActMoves DEF Place
<1>5. AccountTypeOK'
  BY <1>2, <1>3, <1>4 DEF AccountTypeOK, PInv, Act, Place
<1>6. Stirred => Stirred'
  BY <1>2, <1>4 DEF Stirred
<1>7. ASSUME NEW copy, Good(copy) PROVE Good(copy)'
  <2>1. CASE UNCHANGED <<holds, strays>>
    BY <1>2, <1>6, <1>7, <2>1 DEF Good, Fresh
  <2>2. CASE to # "stale" /\ act[c].of = page.from
    BY <1>2, <1>4, <2>2 DEF Good, Stirred
  <2>3. CASE holds' = holds + 1 /\ strays' = strays \cup {holds + 1}
    <3>1. Fresh(copy) => Fresh(copy)'
      BY <1>1, <2>3 DEF Fresh
    <3> QED BY <1>2, <1>6, <1>7, <3>1 DEF Good
  <2> QED BY <1>2, <2>1, <2>2, <2>3
<1>8. PageInv'
  BY <1>2, <1>7 DEF PageInv, PInv
<1> QED BY <1>5, <1>8 DEF PInv

LEMMA CallStep ==
  ASSUME PInv, NEW c \in Slot, CallAnswered(c) \/ CallForgotten(c)
  PROVE  PInv'
<1>0. page \in Page /\ act \in [Slot -> Act] /\ accountFaults \in 0..MaxAccountFaults
  BY PageTyped DEF PInv
<1>1. /\ act' \in [Slot -> Act] /\ \A d \in Slot : d # c => act'[d] = act[d]
      /\ UNCHANGED <<kind, holds, recent, strays, accountFaults>>
  BY <1>0, ActEnds DEF CallAnswered, CallForgotten
<1>2. CASE CallAnswered(c) /\ Done(c)
  <2>1. /\ lastRead < MaxReads /\ lastRead' = lastRead + 1
        /\ reads' = reads \cup {[n |-> lastRead + 1, got |-> Unknown, mount |-> FALSE]}
    BY <1>2 DEF Done, ReadsAgain, Reads
  <2>2. [n |-> lastRead + 1, got |-> Unknown, mount |-> FALSE] \in Read
    BY <2>1, AccountAssumption, PageTyped DEF Read, Unknown, NotConnected, PInv
  <2>3. page' \in Page /\ page'.open = page.open /\ page'.by = page.by
    BY <1>0, <1>2 DEF Done, Page, Notice
  <2>l. lastRead \in 0..MaxReads /\ reads \subseteq Read
    BY PageTyped DEF PInv
  <2>n. lastRead + 1 \in 0..MaxReads /\ lastRead < lastRead + 1
    <3>1. lastRead \in 0..MaxReads /\ lastRead < MaxReads
      BY <2>1, <2>l
    <3> QED BY <3>1, AccountAssumption
  <2>4. lastRead' \in 0..MaxReads /\ reads' \subseteq Read
    BY <2>1, <2>2, <2>l, <2>n
  <2>5. AccountTypeOK'
    BY <1>1, <2>3, <2>4 DEF AccountTypeOK, PInv, Page, Notice, Read, Place, Act
  <2>6. page.open
    BY <1>2 DEF CallAnswered, Hears
  <2>7. PageInv'
    <3>1. /\ lastRead \in Nat /\ lastRead' = lastRead + 1 /\ page.by \in Nat
          /\ \A r \in reads : r.n \in Nat
      BY <1>0, <2>1, <2>l, AccountAssumption DEF Page, Read
    <3>2. lastRead' >= 1 /\ page'.by < lastRead' /\ \A r \in reads : r.n < lastRead'
      BY <2>3, <3>1 DEF PageInv, PInv
    <3>3. \A r \in reads' : r.n <= lastRead' /\ (r.n = lastRead' => r.got = Unknown)
      BY <2>1, <3>1, <3>2
    <3> QED BY <2>3, <2>6, <3>1, <3>2, <3>3 DEF PageInv, PInv
  <2> QED BY <2>5, <2>7 DEF PInv
<1>3. CASE CallAnswered(c) /\ NotDone(c)
  <2>1. UNCHANGED <<reads, lastRead>> /\ act[c].pc \in {"stale", "failed"}
    BY <1>3 DEF NotDone
  <2>2. /\ page' \in Page /\ page'.open = page.open /\ page'.by = page.by
        /\ page'.shows = page.shows /\ page'.from = page.from
        /\ page.unsure \/ act[c].pc = "failed" => page'.unsure
    <3>1. CASE act[c].pc = "stale"
      <4>1. page' = [page EXCEPT !.notice = "reauth"] /\ "reauth" \in Notice
        BY <1>3, <3>1 DEF NotDone, Notice
      <4> QED BY <1>0, <3>1, <4>1 DEF Page
    <3>2. CASE act[c].pc # "stale"
      <4>1. PICK notice \in Notice : page' = [page EXCEPT !.unsure = TRUE, !.notice = notice]
        BY <1>3, <3>2 DEF NotDone, Notice
      <4> DEFINE q == [page EXCEPT !.unsure = TRUE]
      <4>2. /\ q \in Page /\ q.open = page.open /\ q.by = page.by /\ q.shows = page.shows
            /\ q.from = page.from /\ q.unsure
        BY <1>0 DEF Page
      <4>3. page' = [q EXCEPT !.notice = notice]
        BY <4>1
      <4> HIDE DEF q
      <4> QED BY <4>1, <4>2, <4>3 DEF Page
    <3> QED BY <3>1, <3>2
  <2>3. Stirred => Stirred' \/ page'.unsure
    BY <1>1, <2>1, <2>2 DEF Stirred
  <2> QED BY <1>0, <1>1, <2>1, <2>2, <2>3, PageKept
<1>4. CASE CallForgotten(c)
  <2>1. UNCHANGED <<page, reads, lastRead>> /\ (page.open => act[c].of # page.from)
    BY <1>4 DEF CallForgotten, Hears
  <2>2. CASE page.open
    <3>1. Stirred => Stirred'
      BY <1>1, <2>1, <2>2 DEF Stirred
    <3> QED BY <1>0, <1>1, <2>1, <3>1, PageKept
  <2>3. CASE ~page.open
    <3>1. AccountTypeOK'
      BY <1>1, <2>1 DEF AccountTypeOK, PInv, Act, Place
    <3> QED BY <2>1, <2>3, <3>1 DEF PageInv, PInv
  <2> QED BY <2>2, <2>3
<1> QED BY <1>2, <1>3, <1>4 DEF CallAnswered

LEMMA ComingStep ==
  ASSUME PInv,
         ConnectGoogle \/ CeremonyReturns \/ GoAway \/ ComeBack \/ UNCHANGED accountVars
  PROVE  PInv'
<1>0. page \in Page /\ act \in [Slot -> Act] /\ accountFaults \in 0..MaxAccountFaults
      /\ recent \in BOOLEAN /\ lastRead \in 0..MaxReads
  BY PageTyped DEF PInv
<1>1. CASE ConnectGoogle
  <2>1. CASE Leave(TRUE) /\ NoAccountFault
    BY <1>1, <2>1, LeftPage DEF ConnectGoogle, NoAccountFault
  <2>2. CASE page' = [page EXCEPT !.notice = "error"] /\ AccountFault /\ UNCHANGED reads
    <3>1. /\ page' \in Page /\ page'.open = page.open /\ page'.by = page.by
          /\ page'.shows = page.shows /\ page'.unsure = page.unsure /\ page'.from = page.from
      BY <1>0, <2>2 DEF Page, Notice
    <3>2. /\ UNCHANGED <<act, reads, kind, holds, recent, lastRead, strays>>
          /\ accountFaults' \in 0..MaxAccountFaults
      BY <1>0, <1>1, <2>2, AccountAssumption DEF ConnectGoogle, AccountFault
    <3>3. Stirred => Stirred'
      BY <3>1, <3>2 DEF Stirred
    <3> QED BY <1>0, <3>1, <3>2, <3>3, PageKept
  <2> QED BY <1>1, <2>1, <2>2 DEF ConnectGoogle
<1>2. CASE CeremonyReturns
  <2>1. lastRead + 1 \in 1..MaxReads
    BY <1>0, <1>2, AccountAssumption DEF CeremonyReturns, Reads
  <2>2. page' \in Page /\ page'.by = 0 /\ page'.open
    BY <1>2, <2>1, NewPageType DEF CeremonyReturns, Notice
  <2>3. act' \in [Slot -> Act]
    BY <1>0, <1>2, <2>1, ActBegins DEF CeremonyReturns, Button, Place
  <2> QED BY <1>0, <1>2, <2>2, <2>3, FreshPage DEF CeremonyReturns
<1>3. CASE GoAway
  BY <1>3, LeftPage DEF GoAway
<1>4. CASE ComeBack
  <2>1. lastRead + 1 \in 1..MaxReads
    BY <1>0, <1>4, AccountAssumption DEF ComeBack, Reads
  <2>2. page' \in Page /\ page'.by = 0 /\ page'.open
    BY <1>4, <2>1, NewPageType DEF ComeBack, Notice
  <2> QED BY <1>0, <1>4, <2>2, FreshPage DEF ComeBack
<1>5. CASE UNCHANGED accountVars
  BY <1>5 DEF accountVars, PInv, AccountTypeOK, PageInv, Good, Fresh, Stirred
<1> QED BY <1>1, <1>2, <1>3, <1>4, <1>5

\* Every part of the invariant, from the start on.
LEMMA AccountInvariant == AccountSpec => []PInv
<1>1. PInv /\ [AccountNext]_accountVars => PInv'
  BY ReadStep, PressStep, ServedStep, CallStep, ComingStep DEF AccountNext
<1> QED BY <1>1, AccountStart, PTL DEF AccountSpec

\* PasskeysPage.tsx, ApiKeysPage.tsx: for any number of changes, reads, calls
\* at once and faults, a page with nothing in flight to it shows the account,
\* but for what calls of a page left before did since: every call of its own
\* that changed it is followed by a read that began later, or tells its failure.
THEOREM QuietPageIsRight == AccountSpec => []QuietPageShowsAccount
<1>1. ASSUME PInv PROVE QuietPageShowsAccount
  <2>1. SUFFICES ASSUME Quiet, page.by = lastRead, ~page.unsure, page.shows # NotConnected
                 PROVE  page.shows <= holds /\ (page.shows + 1)..holds \subseteq strays
    BY DEF QuietPageShowsAccount
  <2>2. ~Stirred
    <3>1. \A c \in Slot : act[c].b \in Button
      BY <1>1, PageTyped DEF PInv, Act
    <3> QED BY <2>1, <3>1 DEF Stirred, Quiet, Busy, Hears
  <2>3. Fresh(page.shows)
    BY <1>1, <2>1, <2>2 DEF PInv, PageInv, Good, Quiet
  <2> QED BY <1>1, <2>3, PageTyped DEF PInv, Fresh
<1> QED BY <1>1, AccountInvariant, PTL

===============================================================================
