--------------------------------- MODULE Gate ---------------------------------
(***************************************************************************)
(* Every request of the /v1 API: the route table, the authentication gate  *)
(* (cookie session, creator API key, tracking token, operator list), and   *)
(* the handler behind it with its own check of whose object it touches.    *)
(* One request is followed from its arrival to its answer while another    *)
(* browser of the same people signs out, mints keys and revokes them.      *)
(*                                                                         *)
(* Each account has one envelope, named by the account.                    *)
(***************************************************************************)
EXTENDS Naturals, FiniteSets

CONSTANTS
  Account,     \* creators
  KeyId        \* bound: API keys ever minted

VARIABLES
  operators,   \* KYSIGNED_OPERATOR_EMAILS
  signedIn,    \* accounts whose cookie session lives
  apiKey,      \* api_keys: state, creator, and what minted it
  visit        \* the request followed

gateVars == <<operators, signedIn, apiKey, visit>>

Nobody == "nobody"

(* API_ROUTES by what the gate and the handler do with them.               *)
Public  == {"public", "signer"}
Bearer  == {"create", "list", "read", "change", "pdf"}
Cookie  == {"account", "keys", "admin"}
Route   == Public \cup Bearer \cup Cookie
Writes  == {"create", "change", "account", "keys"}
Owned   == {"read", "change", "pdf"}

(* What the Authorization header holds.                                    *)
Header ==
  {[kind |-> "none", of |-> Nobody], [kind |-> "junk", of |-> Nobody]}
    \cup {[kind |-> "token", of |-> p] : p \in Account}
    \cup {[kind |-> "key", of |-> k] : k \in KeyId}

NoVisit == [pc |-> "idle", route |-> "public", header |-> [kind |-> "none", of |-> Nobody],
            cookie |-> Nobody, csrf |-> FALSE, target |-> Nobody, actor |-> Nobody, out |-> "ok"]

(* Every variable of the gate has the type its comment gives.              *)
GateTypeOK ==
  /\ operators \subseteq Account
  /\ signedIn \subseteq Account
  /\ apiKey \in [KeyId -> [st : {"none", "live", "revoked"}, owner : Account \cup {Nobody},
                           by : {"none", "cookie", "key"}]]
  /\ visit \in [pc : {"idle", "gate", "handler", "done"}, route : Route, header : Header,
                cookie : Account \cup {Nobody}, csrf : BOOLEAN,
                target : Account \cup {Nobody}, actor : Account \cup {Nobody},
                out : {"ok", "401", "403", "404"}]

GateInit ==
  /\ operators \in SUBSET Account
  /\ signedIn = {}
  /\ apiKey = [k \in KeyId |-> [st |-> "none", owner |-> Nobody, by |-> "none"]]
  /\ visit = NoVisit
-----------------------------------------------------------------------------
(* A request the router knows: any header, the cookie of its browser, the  *)
(* CSRF header or not, and an envelope, or an account's key, it names.     *)
Arrive(route, header, cookie, csrf, target) ==
  /\ visit.pc = "idle"
  /\ header.kind = "key" => apiKey[header.of].st # "none"
  /\ visit' = [NoVisit EXCEPT !.pc = "gate", !.route = route, !.header = header,
                              !.cookie = cookie, !.csrf = csrf, !.target = target]
  /\ UNCHANGED <<operators, signedIn, apiKey>>

Refused(code) == visit' = [visit EXCEPT !.pc = "done", !.out = code]
Admitted(who) == visit' = [visit EXCEPT !.pc = "handler", !.actor = who]

ResolveSession(p) == p \in signedIn
IsOperator(p)     == p \in operators

(* resolveSession, then csrfOk, then the operators' list.                  *)
ByCookie ==
  IF ~ResolveSession(visit.cookie) THEN Refused("401")
  ELSE IF visit.route \in Writes /\ ~visit.csrf THEN Refused("403")
  ELSE IF visit.route = "admin" /\ ~IsOperator(visit.cookie) THEN Refused("403")
  ELSE Admitted(visit.cookie)

(* Mutant: a header that does not resolve falls back to the cookie. *)
ByHeaderOrCookie ==
  LET h == visit.header IN
  IF h.kind = "key" /\ visit.route \in Bearer /\ apiKey[h.of].st = "live"
  THEN Admitted(apiKey[h.of].owner) ELSE ByCookie

(* A presented key is the whole credential: it wins or the request fails.  *)
ByHeader ==
  LET h == visit.header IN
  IF visit.route \notin Bearer THEN Refused("403")
  ELSE IF h.kind # "key" \/ apiKey[h.of].st # "live" THEN Refused("401")
  ELSE Admitted(apiKey[h.of].owner)

(* A tracking token reads the status of the envelope it was minted for,    *)
(* on every route it is refused before anything else is looked at.         *)
ByToken ==
  IF visit.route # "read" THEN Refused("403")
  ELSE IF visit.target # visit.header.of THEN Refused("404")
  ELSE visit' = [visit EXCEPT !.pc = "done", !.actor = visit.header.of]

Authenticate ==
  /\ visit.pc = "gate"
  /\ CASE visit.header.kind = "token"                            -> ByToken
       [] visit.header.kind # "token" /\ visit.route \in Public  -> Admitted(Nobody)
       [] visit.header.kind = "none" /\ visit.route \notin Public -> ByCookie
       [] OTHER                                                  -> ByHeader
  /\ UNCHANGED <<operators, signedIn, apiKey>>
-----------------------------------------------------------------------------
Answered(code) == visit' = [visit EXCEPT !.pc = "done", !.out = code]

(* Creator-scoped handlers: another creator's envelope does not exist for  *)
(* them (the document download says 403).                                  *)
TouchEnvelope ==
  /\ visit.route \in Owned
  /\ Answered(IF visit.target = visit.actor THEN "ok"
              ELSE IF visit.route = "pdf" THEN "403" ELSE "404")
  /\ UNCHANGED apiKey

(* handleMintApiKey and handleRevokeApiKey; the latter owner-scoped.       *)
Mint(owner, by) ==
  \E k \in KeyId :
    /\ apiKey[k].st = "none"
    /\ apiKey' = [apiKey EXCEPT ![k] = [st |-> "live", owner |-> owner, by |-> by]]

Revocable(k, owner) == apiKey[k].st = "live" /\ apiKey[k].owner = owner

(* What the handler will trust: the gate told it who acts, and how.        *)
Credential == IF visit.header.kind = "key" THEN "key" ELSE "cookie"

ManageKeys ==
  /\ visit.route = "keys"
  /\ \/ Mint(visit.actor, Credential) /\ Answered("ok")
     \/ \E k \in KeyId :
          /\ Revocable(k, visit.target) /\ visit.target = visit.actor
          /\ apiKey' = [apiKey EXCEPT ![k].st = "revoked"]
          /\ Answered("ok")
     \/ Answered("404") /\ UNCHANGED apiKey

(* Everything whose object is the actor's own by construction: sign-in and *)
(* health; a signer's link, validated by its own token; the creator's      *)
(* create and lists; the account's session, passkeys and pending sends;    *)
(* and the operator's console.                                             *)
ServePublic  == visit.route = "public" /\ Answered("ok")
ServeSigner  == visit.route = "signer" /\ (Answered("ok") \/ Answered("404"))
ServeCreator == visit.route \in {"create", "list"} /\ Answered("ok")
ServeAccount == visit.route = "account" /\ (Answered("ok") \/ Answered("404"))
ServeConsole == visit.route = "admin" /\ (Answered("ok") \/ Answered("404"))

ActForSelf ==
  /\ ServePublic \/ ServeSigner \/ ServeCreator \/ ServeAccount \/ ServeConsole
  /\ UNCHANGED apiKey

Perform ==
  /\ visit.pc = "handler"
  /\ TouchEnvelope \/ ManageKeys \/ ActForSelf
  /\ UNCHANGED <<operators, signedIn>>

Depart ==
  /\ visit.pc = "done"
  /\ visit' = NoVisit
  /\ UNCHANGED <<operators, signedIn, apiKey>>

(* The other browser.                                                      *)
Elsewhere(p) ==
  /\ \/ signedIn' = signedIn \cup {p} /\ UNCHANGED apiKey
     \/ signedIn' = signedIn \ {p} /\ UNCHANGED apiKey
     \/ p \in signedIn /\ Mint(p, "cookie") /\ UNCHANGED signedIn
     \/ /\ p \in signedIn
        /\ \E k \in KeyId : Revocable(k, p) /\ apiKey' = [apiKey EXCEPT ![k].st = "revoked"]
        /\ UNCHANGED signedIn
  /\ UNCHANGED <<operators, visit>>

GateNext ==
  \/ \E route \in Route, header \in Header, cookie \in Account \cup {Nobody},
        csrf \in BOOLEAN, target \in Account : Arrive(route, header, cookie, csrf, target)
  \/ Authenticate \/ Perform \/ Depart
  \/ \E p \in Account : Elsewhere(p)

GateSpec == GateInit /\ [][GateNext]_gateVars
-----------------------------------------------------------------------------
(* Whatever a request carries, what it presented explicitly is what it     *)
(* acted with: a key acts as its creator, on creator routes and on the     *)
(* creator's envelope, and never makes or unmakes a key; a tracking token  *)
(* reads its own envelope; only a cookie reaches the rest, an operator's   *)
(* the console.  A broken or revoked key never becomes the cookie.         *)
ActsAsPresented ==
  /\ visit.pc = "done" /\ visit.out = "ok" /\ visit.route \notin Public =>
       /\ visit.header.kind = "key" =>
            visit.route \in Bearer /\ visit.actor = apiKey[visit.header.of].owner
       /\ visit.header.kind = "token" => visit.route = "read" /\ visit.actor = visit.header.of
       /\ visit.header.kind # "junk"
       /\ visit.route = "admin" => visit.actor \in operators
       /\ visit.route \in Owned => visit.target = visit.actor
  /\ \A k \in KeyId : apiKey[k].by # "key"
=============================================================================
