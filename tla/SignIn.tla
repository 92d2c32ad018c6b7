------------------------------- MODULE SignIn --------------------------------
(***************************************************************************)
(* One visitor signing in: by the emailed link, by the code of the same    *)
(* email, or through Google; with or without a filled-in document held at  *)
(* the send gate.  SignInScreen.tsx in one tab, a mail client's tab for    *)
(* the link, the handlers of api/auth behind both, and the platform that   *)
(* owns challenges and authorization codes (external).  Every request is   *)
(* answered later than it was made, and answers can change places.         *)
(*                                                                         *)
(* The address, its inbox and its account are one; passkeys open the same  *)
(* session as the other doors and are in module Session.                   *)
(***************************************************************************)
EXTENDS Integers, FiniteSets

CONSTANTS
  Gate,        \* how the screen was met: "plain", or "send" with a document
  MaxLinks,    \* bound: sign-in emails asked for
  MaxCodes,    \* bound: codes confirmed
  MaxTries,    \* wrong codes that burn a challenge (5 on the platform)
  MaxGoogle,   \* bound: Google ceremonies started
  MaxFailures  \* bound: calls and processes that fail

ASSUME SignInAssumption ==
  /\ Gate \in {"plain", "send"}
  /\ MaxLinks \in Nat /\ MaxCodes \in Nat /\ MaxGoogle \in Nat
  /\ MaxTries \in Nat \ {0} /\ MaxFailures \in Nat

Links == 1..MaxLinks
Codes == 1..MaxCodes
Ceremonies == 1..MaxGoogle

(* What establishes a session: a challenge (link or code) or a ceremony.   *)
Door == {<<"email", k>> : k \in Links} \cup {<<"google", g>> : g \in Ceremonies}

VARIABLES
  challenge, \* the platform's: state, wrong tries, whether it has a code
  send,      \* handleAuthMagicLink for each email: where it is
  code,      \* POST /v1/auth/code: the challenge and the answer on its way
  ceremony,  \* google_signin_ceremonies: state, link or sign-in; a tab left with it
  spent,     \* token requests made upstream with a ceremony's code
  flow,      \* what runs after a verified credential, per door
  opened,    \* auth_sessions rows started, per door
  granted,   \* signup_grant ledger rows
  capture,   \* attribution_captures has a row of this inbox
  stamp,     \* creator_attribution: none, organic, paid
  converted, \* the sign_up conversion run exists
  draft,     \* pending_sends: none, held, claimed (an envelope under way) or sent
  screen,    \* SignInScreen
  mail,      \* the mail client's tab
  stash,     \* the draft handle in sessionStorage
  storage,   \* this browser has sessionStorage at all
  cookie,    \* the browser holds a session cookie
  dead,      \* challenges the screen was told are dead (history)
  failures

serverVars == <<challenge, send, code, ceremony, spent, flow, opened>>
accountVars == <<granted, capture, stamp, converted>>
tabVars == <<screen, mail, stash, storage, cookie, dead>>
vars == <<serverVars, accountVars, draft, tabVars, failures>>

Dead == {"spent", "burned", "replaced"}
Terminal == {"exhausted", "used", "too_many"}
FlowPcs == {"none", "open", "grant", "record", "read", "stamp", "purge", "convert",
            "claim", "create", "answer", "over"}
SendPcs == {"none", "asked", "accepted", "refused", "answered"}
CodePcs == {"none", "posted", "verified", "invalid", "failed", "over"} \cup Terminal
CeremonyPcs == {"none", "open", "used", "gone"}
Places == {"gate", "google", "landing", "restore", "claim", "creating", "envelope", "dashboard"}
MailPlaces == {"closed", "landing", "restore", "claim", "creating", "envelope", "dashboard", "error"}
Claims == {"none", "sent", "pending", "refused"}

(* The state is of its type; with it, a link past its tries is dead, a     *)
(* ceremony's authorization code is spent once, one credential opens one   *)
(* session, and the inbox is granted its trial once through every door.    *)
TypeOK ==
  /\ challenge \in [Links -> [st : {"none", "live"} \cup Dead,
                              wrong : 0..MaxTries, coded : BOOLEAN]]
  /\ \A k \in Links : challenge[k].wrong = MaxTries => challenge[k].st \in Dead
  /\ send \in [Links -> SendPcs]
  /\ code \in [Codes -> [pc : CodePcs, of : 0..MaxLinks]]
  /\ ceremony \in [Ceremonies -> [st : CeremonyPcs, link : BOOLEAN, left : BOOLEAN]]
  /\ spent \in [Ceremonies -> 0..1]
  /\ flow \in [Door -> [pc : FlowPcs, tab : {"screen", "mail"}, row : BOOLEAN,
                        bound : BOOLEAN, claim : Claims]]
  /\ opened \in [Door -> 0..1]
  /\ granted \in 0..1
  /\ capture \in BOOLEAN
  /\ stamp \in {"none", "organic", "paid"}
  /\ converted \in BOOLEAN
  /\ draft \in {"none", "held", "claimed", "sent"}
  /\ screen \in [place : Places, waiting : BOOLEAN, ch : 0..MaxLinks,
                 resending : 0..MaxLinks, latch : BOOLEAN, user : BOOLEAN,
                 fired : BOOLEAN, at : 0..MaxGoogle]
  /\ mail \in [place : MailPlaces, of : 0..MaxLinks]
  /\ stash \in BOOLEAN /\ storage \in BOOLEAN
  /\ cookie \in BOOLEAN
  /\ dead \subseteq Links
  /\ failures \in 0..MaxFailures

NoFlow == [pc |-> "none", tab |-> "screen", row |-> FALSE, bound |-> FALSE, claim |-> "none"]

Init ==
  /\ challenge = [k \in Links |-> [st |-> "none", wrong |-> 0, coded |-> FALSE]]
  /\ send = [k \in Links |-> "none"]
  /\ code = [i \in Codes |-> [pc |-> "none", of |-> 0]]
  /\ ceremony = [g \in Ceremonies |-> [st |-> "none", link |-> FALSE, left |-> FALSE]]
  /\ spent = [g \in Ceremonies |-> 0]
  /\ flow = [d \in Door |-> NoFlow]
  /\ opened = [d \in Door |-> 0]
  /\ granted = 0 /\ capture = FALSE /\ stamp = "none" /\ converted = FALSE
  /\ draft = "none"
  /\ screen = [place |-> "gate", waiting |-> FALSE, ch |-> 0, resending |-> 0,
               latch |-> FALSE, user |-> FALSE, fired |-> FALSE, at |-> 0]
  /\ mail = [place |-> "closed", of |-> 0]
  /\ stash = FALSE /\ storage \in BOOLEAN /\ cookie = FALSE /\ dead = {} /\ failures = 0

Failure == failures < MaxFailures /\ failures' = failures + 1
Holds == Gate = "send"
Kept == UNCHANGED failures

Email(k) == <<"email", k>>
Google(g) == <<"google", g>>
-----------------------------------------------------------------------------
(* The email and its two credentials. *)

(* prepareDraft, before any link goes out.                                 *)
StoreDraft == draft' = IF Holds /\ draft = "none" THEN "held" ELSE draft

(* requestMagicLink: the form's button is never disabled while a request   *)
(* is out; the resend button is while its own is.                          *)
Resending == screen.resending # 0 /\ send[screen.resending] # "answered"

AskLink(k) ==
  /\ screen.place = "gate" /\ ~screen.user
  /\ \/ ~screen.waiting /\ UNCHANGED screen
     \/ /\ screen.waiting /\ screen.latch /\ screen.ch # 0 /\ ~Resending
        /\ screen' = [screen EXCEPT !.resending = k]
  /\ send[k] = "none" /\ \A j \in Links : j < k => send[j] # "none"
  /\ StoreDraft
  /\ send' = [send EXCEPT ![k] = "asked"]
  /\ UNCHANGED <<challenge, code, ceremony, spent, flow, opened, accountVars, mail, stash,
                 storage, cookie, dead, failures>>

(* handleAuthMagicLink reaches the platform: the newest challenge replaces *)
(* the live one; a refusal (429 or any other) is no error to the handler.  *)
SendLink(k) ==
  /\ send[k] = "asked"
  /\ \/ \E coded \in BOOLEAN :
          challenge' = [j \in Links |->
             IF j = k THEN [st |-> "live", wrong |-> 0, coded |-> coded]
             ELSE IF challenge[j].st = "live" THEN [challenge[j] EXCEPT !.st = "replaced"]
             ELSE challenge[j]]
        /\ send' = [send EXCEPT ![k] = "accepted"] /\ Kept
     \/ send' = [send EXCEPT ![k] = "refused"] /\ UNCHANGED challenge /\ Failure
     \/ send' = [send EXCEPT ![k] = "answered"] /\ UNCHANGED challenge /\ Failure
  /\ UNCHANGED <<code, ceremony, spent, flow, opened, accountVars, draft, tabVars>>

(* The rider becomes a capture, and the answer reaches the screen: only a  *)
(* fresh challenge lifts the latch.                                        *)
LinkAnswer(k) ==
  LET fresh == send[k] = "accepted" /\ challenge[k].coded IN
  /\ send[k] \in {"accepted", "refused"}
  /\ send' = [send EXCEPT ![k] = "answered"]
  /\ capture' \in {capture, TRUE}
  /\ IF screen.place # "gate" THEN UNCHANGED screen
     ELSE screen' = [screen EXCEPT !.waiting = TRUE, !.ch = IF fresh THEN k ELSE 0,
                                   !.latch = screen.latch /\ ~fresh]
  /\ UNCHANGED <<challenge, code, ceremony, spent, flow, opened, granted, stamp,
                 converted, draft, mail, stash, storage, cookie, dead, failures>>

(* Mutant: a verdict does not stop the next confirm. *)
ConfirmAnyway(i) ==
  /\ screen.place = "gate" /\ ~screen.user /\ screen.waiting /\ screen.ch # 0
  /\ code[i].pc = "none" /\ \A j \in Codes : j < i => code[j].pc # "none"
  /\ code' = [code EXCEPT ![i] = [pc |-> "posted", of |-> screen.ch]]
  /\ UNCHANGED <<challenge, send, ceremony, spent, flow, opened, accountVars, draft,
                 tabVars, failures>>

(* confirmCode: nothing stops a second press while the first is out.       *)
ConfirmCode(i) ==
  /\ screen.place = "gate" /\ ~screen.user /\ screen.waiting
  /\ screen.ch # 0 /\ ~screen.latch
  /\ code[i].pc = "none" /\ \A j \in Codes : j < i => code[j].pc # "none"
  /\ code' = [code EXCEPT ![i] = [pc |-> "posted", of |-> screen.ch]]
  /\ UNCHANGED <<challenge, send, ceremony, spent, flow, opened, accountVars, draft,
                 tabVars, failures>>

Start(d, tab) == flow' = [flow EXCEPT ![d] = [NoFlow EXCEPT !.pc = "open", !.tab = tab]]

(* Mutant: one wrong code too many is accepted before the challenge burns. *)
BurnsLate(c) == c.wrong + 1 > MaxTries

(* The wrong code that burns its challenge. *)
Burns(c) == c.wrong + 1 = MaxTries

(* handleAuthCode: the platform's verdict, told apart by its status and    *)
(* its terminal next action; an outage reads as a wrong guess.             *)
VerifyCode(i) ==
  LET k == code[i].of
      c == challenge[k]
      Answer(a) == code' = [code EXCEPT ![i].pc = a]
  IN
  /\ code[i].pc = "posted"
  /\ \/ /\ c.st = "live"
        /\ challenge' = [challenge EXCEPT ![k].st = "spent"]
        /\ Answer("verified") /\ Start(Email(k), "screen") /\ Kept
     \/ /\ c.st = "live"
        /\ challenge' = [challenge EXCEPT ![k] = [@ EXCEPT !.wrong = c.wrong + 1,
                                                           !.st = IF Burns(c) THEN "burned" ELSE c.st]]
        /\ Answer(IF Burns(c) THEN "exhausted" ELSE "invalid")
        /\ UNCHANGED flow /\ Kept
     \/ /\ c.st \in Dead
        /\ \E a \in IF c.st = "burned" THEN {"exhausted", "too_many"} ELSE {"used"} : Answer(a)
        /\ UNCHANGED <<challenge, flow>> /\ Kept
     \/ Answer("invalid") /\ UNCHANGED <<challenge, flow>> /\ Failure
  /\ UNCHANGED <<send, ceremony, spent, opened, accountVars, draft, tabVars>>

(* The failed confirm's answer: a terminal one latches the screen.         *)
CodeAnswer(i) ==
  /\ code[i].pc \in {"invalid"} \cup Terminal
  /\ code' = [code EXCEPT ![i] = [pc |-> "over", of |-> 0]]
  /\ IF screen.place = "gate" /\ code[i].pc \in Terminal
     THEN /\ screen' = [screen EXCEPT !.latch = TRUE]
          /\ dead' = dead \cup {code[i].of}
     ELSE UNCHANGED <<screen, dead>>
  /\ UNCHANGED <<challenge, send, ceremony, spent, flow, opened, accountVars, draft,
                 mail, stash, storage, cookie, failures>>

(* The mail client opens a link, in this browser or another. *)
OpenLink(k) ==
  /\ mail.place \in {"closed", "error"}
  /\ challenge[k].st # "none"
  /\ mail' = [place |-> "landing", of |-> k]
  /\ UNCHANGED <<serverVars, accountVars, draft, screen, stash, storage, cookie, dead, failures>>

(* Where a landing ends that did not sign in: with the document, if the    *)
(* link carries one.                                                       *)
MailFails == mail' = [mail EXCEPT !.place = IF Holds THEN "restore" ELSE "error"]

(* handleAuthTokenExchange: whichever credential is first spends the       *)
(* challenge.                                                              *)
ExchangeLink ==
  LET k == mail.of IN
  /\ mail.place = "landing"
  /\ ~(flow[Email(k)].tab = "mail" /\ flow[Email(k)].pc \notin {"none", "over"})
  /\ \/ /\ challenge[k].st = "live"
        /\ challenge' = [challenge EXCEPT ![k].st = "spent"]
        /\ Start(Email(k), "mail") /\ UNCHANGED mail /\ Kept
     \/ challenge[k].st # "live" /\ MailFails /\ UNCHANGED <<challenge, flow>> /\ Kept
     \/ MailFails /\ UNCHANGED <<challenge, flow>> /\ Failure
  /\ UNCHANGED <<send, code, ceremony, spent, opened, accountVars, draft, screen, stash,
                 storage, cookie, dead>>
-----------------------------------------------------------------------------
(* Google. *)

Mint(g, link, left) ==
  ceremony' = [ceremony EXCEPT ![g] = [st |-> "open", link |-> link, left |-> left]]

NextCeremony(g) == ceremony[g].st = "none" /\ \A h \in Ceremonies : h < g => ceremony[h].st # "none"

(* attemptGoogle: the document is stored, then the ceremony, then the      *)
(* handle is stashed and the tab leaves.                                   *)
StartGoogle(g) ==
  /\ screen.place = "gate" /\ ~screen.user /\ NextCeremony(g)
  /\ StoreDraft
  /\ \/ /\ Mint(g, FALSE, TRUE) /\ stash' = (Holds /\ storage)
        /\ screen' = [screen EXCEPT !.place = "google", !.at = g] /\ Kept
     \/ Mint(g, FALSE, FALSE) /\ UNCHANGED <<stash, screen>> /\ Failure
  /\ UNCHANGED <<challenge, send, code, spent, flow, opened, accountVars, mail, storage,
                 cookie, dead>>

(* handleGoogleLink, from the sign-in methods page.                        *)
ConnectGoogle(g) ==
  /\ cookie /\ NextCeremony(g) /\ Mint(g, TRUE, TRUE)
  /\ UNCHANGED <<challenge, send, code, spent, flow, opened, accountVars, draft, tabVars,
                 failures>>

(* The landing's failure: the stashed document, or the gate of a page that *)
(* was loaded afresh.                                                      *)
GoogleFails ==
  /\ screen' = [screen EXCEPT !.place = IF stash THEN "restore" ELSE "gate",
                               !.waiting = FALSE, !.ch = 0, !.resending = 0, !.latch = FALSE]
  /\ stash' = FALSE

(* Back from Google, with a code or with an error in the hash.             *)
Callback ==
  /\ screen.place = "google"
  /\ \/ screen' = [screen EXCEPT !.place = "landing"] /\ UNCHANGED stash
     \/ GoogleFails
  /\ UNCHANGED <<serverVars, accountVars, draft, mail, storage, cookie, dead, failures>>

(* consumeGoogleCeremony has one winner.                                   *)
Consumable(g) == ceremony[g].st = "open"

SignsIn(g) == ~ceremony[g].link

Idle(d) == flow[d].pc \in {"none", "over"}

(* handleGoogleExchange, as posted by the landing (own) or, for a ceremony *)
(* some tab came back with, once more by the browser: the ceremony is      *)
(* consumed before the code is spent.                                      *)
ExchangeGoogle(g, own) ==
  /\ ceremony[g].left
  /\ IF own THEN screen.place = "landing" /\ screen.at = g /\ Idle(Google(g))
            ELSE ceremony[g].link \/ screen.place # "google"
  /\ \/ /\ Consumable(g)
        /\ ceremony' = [ceremony EXCEPT ![g].st = "used"]
        /\ spent' = [spent EXCEPT ![g] = @ + 1]
        /\ \/ /\ SignsIn(g) /\ Start(Google(g), "screen")
              /\ UNCHANGED <<screen, stash>> /\ Kept
           \/ /\ ~SignsIn(g) /\ UNCHANGED <<flow, screen, stash>> /\ Kept
           \/ /\ UNCHANGED flow /\ Failure
              /\ IF own THEN GoogleFails ELSE UNCHANGED <<screen, stash>>
     \/ /\ ~Consumable(g) /\ own /\ GoogleFails
        /\ UNCHANGED <<ceremony, spent, flow>> /\ Kept
  /\ UNCHANGED <<challenge, send, code, opened, accountVars, draft, mail, storage, cookie, dead>>

(* Ten minutes pass; the reaper deletes what is consumed or expired.       *)
ReapCeremony(g) ==
  /\ ceremony[g].st \in {"open", "used"}
  /\ ceremony' = [ceremony EXCEPT ![g].st = "gone"]
  /\ UNCHANGED <<challenge, send, code, spent, flow, opened, accountVars, draft, tabVars, failures>>
-----------------------------------------------------------------------------
(* After a verified credential: completeEmailSignIn and the rest of        *)
(* handleGoogleExchange, statement by statement.                           *)

At(d, pc) == flow[d].pc = pc
Go(d, pc) == flow' = [flow EXCEPT ![d].pc = pc]
End(d) == flow' = [flow EXCEPT ![d] = [NoFlow EXCEPT !.pc = "over"]]
Server == <<challenge, send, code, ceremony, spent>>

(* A request that ends badly: its tab is told. *)
Cut(d) ==
  /\ Failure /\ End(d)
  /\ IF d[1] = "google"
     THEN /\ UNCHANGED mail
          /\ IF screen.place = "landing" /\ screen.at = d[2] THEN GoogleFails
             ELSE UNCHANGED <<screen, stash>>
     ELSE /\ UNCHANGED <<screen, stash>>
          /\ IF flow[d].tab = "mail" THEN MailFails ELSE UNCHANGED mail

(* startSession; its INSERT can fail, after the credential was spent.      *)
OpenSession(d) ==
  /\ At(d, "open")
  /\ \/ Go(d, "grant") /\ opened' = [opened EXCEPT ![d] = @ + 1]
        /\ UNCHANGED <<screen, mail, stash>> /\ Kept
     \/ Cut(d) /\ UNCHANGED opened
  /\ UNCHANGED <<Server, accountVars, draft, storage, cookie, dead>>

(* The process dies further on. *)
Crash(d) ==
  /\ flow[d].pc \notin {"none", "open", "over"}
  /\ Cut(d)
  /\ UNCHANGED <<Server, opened, accountVars, draft, storage, cookie, dead>>

(* creditUser under the normalized inbox, once.                            *)
GrantOnce == granted' = IF granted = 0 THEN 1 ELSE granted

Quiet == UNCHANGED <<Server, opened, draft, tabVars>>

(* grantSignupCreditIfEligible: refused to an address Google does not      *)
(* vouch for; a failure is swallowed.                                      *)
GrantSignup(d) ==
  /\ At(d, "grant")
  /\ Go(d, IF d[1] = "google" THEN "record" ELSE "read")
  /\ \/ GrantOnce /\ Kept
     \/ d[1] = "google" /\ UNCHANGED granted /\ Kept
     \/ UNCHANGED granted /\ Failure
  /\ UNCHANGED <<capture, stamp, converted>> /\ Quiet

(* recordAttributionCapture for the rider a ceremony holds.                *)
RecordRider(d) ==
  /\ At(d, "record") /\ Go(d, "read")
  /\ capture' \in {capture, TRUE}
  /\ UNCHANGED <<granted, stamp, converted, failures>> /\ Quiet

(* bindAttributionIfPending in its three statements.                       *)
ReadCapture(d) ==
  /\ At(d, "read")
  /\ flow' = [flow EXCEPT ![d] = [@ EXCEPT !.pc = "stamp", !.row = capture]]
  /\ UNCHANGED <<accountVars, failures>> /\ Quiet

StampOnce(row) == stamp' = IF stamp # "none" THEN stamp ELSE IF row THEN "paid" ELSE "organic"

StampAccount(d) ==
  /\ At(d, "stamp")
  /\ StampOnce(flow[d].row)
  /\ flow' = [flow EXCEPT ![d] = [@ EXCEPT !.pc = "purge", !.row = FALSE,
                                           !.bound = flow[d].row /\ stamp = "none"]]
  /\ UNCHANGED <<granted, capture, converted, failures>> /\ Quiet

(* Mutant: a capture another sign-in purged first is not bound. *)
BoundIfThere(d) == flow[d].bound /\ capture

(* What bindAttributionIfPending returns after its DELETE.                 *)
Bound(d) == flow[d].bound

(* A failing DELETE throws out of the bind, and the fresh stamp with it.   *)
PurgeCaptures(d) ==
  /\ At(d, "purge")
  /\ \/ Go(d, IF Bound(d) THEN "convert" ELSE "claim") /\ capture' = FALSE /\ Kept
     \/ Go(d, "claim") /\ UNCHANGED capture /\ Failure
  /\ UNCHANGED <<granted, stamp, converted>> /\ Quiet

(* enqueueAdsConversion: only for a stamped click, and it never throws.    *)
EnqueueConversion(d) ==
  /\ At(d, "convert") /\ Go(d, "claim")
  /\ \/ converted' = (converted \/ stamp = "paid") /\ Kept
     \/ UNCHANGED converted /\ Failure
  /\ UNCHANGED <<granted, capture, stamp>> /\ Quiet

(* claimPendingSend: one UPDATE decides who has the document; the others   *)
(* are told "already", with the envelope if it is there by then.           *)
Takes == draft = "held" /\ draft' = "claimed"

(* finishClaim after its claim: the envelope is made and recorded, or the  *)
(* claim released after a refusal; what dies in between leaves it claimed. *)
Sends    == draft' = "sent" /\ Kept
Releases == draft' = "held" /\ Kept
Strands  == UNCHANGED draft /\ Failure

Told(d, claim) == flow' = [flow EXCEPT ![d] = [@ EXCEPT !.pc = "answer", !.claim = claim]]

(* The ceremony's document is claimed for the session just opened, unless  *)
(* it was held too long; a refusal rides the answer.                       *)
ClaimDraft(d) ==
  /\ At(d, "claim")
  /\ IF d[1] = "google" /\ Holds
     THEN \/ Takes /\ Go(d, "create")
          \/ draft = "claimed" /\ UNCHANGED draft /\ Told(d, "pending")
          \/ draft = "sent" /\ UNCHANGED draft /\ Told(d, "sent")
          \/ draft \notin {"claimed", "sent"} /\ UNCHANGED draft /\ Told(d, "refused")
     ELSE UNCHANGED draft /\ Go(d, "answer")
  /\ UNCHANGED <<Server, opened, accountVars, tabVars, failures>>

CreateFromDraft(d) ==
  /\ At(d, "create")
  /\ \/ Sends /\ Told(d, "sent")
     \/ Releases /\ Told(d, "refused")
     \/ Strands /\ Told(d, "refused")
  /\ UNCHANGED <<Server, opened, accountVars, tabVars>>

(* Mutant: a refused claim goes to the dashboard like a plain sign-in. *)
LandOnDashboard(claim) == IF claim = "sent" THEN "envelope" ELSE "dashboard"

(* Where the Google landing goes, signed in: to the envelope, with what    *)
(* was refused to the form again, and otherwise to the dashboard.          *)
Land(claim) ==
  IF claim = "sent" THEN "envelope"
  ELSE IF claim = "refused" /\ stash THEN "claim" ELSE "dashboard"

(* The answer sets the cookie and moves the tab that posted.               *)
FlowAnswer(d) ==
  /\ At(d, "answer") /\ End(d)
  /\ IF d[1] = "google"
     THEN /\ cookie' = TRUE /\ UNCHANGED mail
          /\ IF screen.place = "landing" /\ screen.at = d[2]
             THEN screen' = [screen EXCEPT !.place = Land(flow[d].claim)] /\ stash' = FALSE
             ELSE UNCHANGED <<screen, stash>>
     ELSE /\ UNCHANGED <<screen, stash>>
          /\ IF flow[d].tab = "mail"
             THEN /\ cookie' \in {cookie, TRUE}
                  /\ mail' = [mail EXCEPT !.place = IF Holds THEN "claim" ELSE "dashboard"]
             ELSE cookie' = TRUE /\ UNCHANGED mail
  /\ UNCHANGED <<Server, opened, accountVars, draft, storage, dead, failures>>
-----------------------------------------------------------------------------
(* The page that a landing went to with the document claims and sends it.  *)

(* "Already" counts as sent, with an envelope or without.                  *)
ClaimInTab(from, to) ==
  /\ from = "claim"
  /\ \/ Takes /\ to = "creating" /\ Kept
     \/ draft \in {"claimed", "sent"} /\ UNCHANGED draft /\ to = "envelope" /\ Kept
     \/ UNCHANGED draft /\ to = "restore" /\ Failure

CreateInTab(from, to) ==
  /\ from = "creating"
  /\ \/ Sends /\ to = "envelope"
     \/ Releases /\ to = "restore"
     \/ Strands /\ to = "restore"

PageSends(from, to) == ClaimInTab(from, to) \/ CreateInTab(from, to)

MailSends ==
  /\ \E to \in MailPlaces : PageSends(mail.place, to) /\ mail' = [mail EXCEPT !.place = to]
  /\ UNCHANGED <<serverVars, accountVars, screen, stash, storage, cookie, dead>>

ScreenSends ==
  /\ \E to \in Places : PageSends(screen.place, to) /\ screen' = [screen EXCEPT !.place = to]
  /\ UNCHANGED <<serverVars, accountVars, mail, stash, storage, cookie, dead>>
-----------------------------------------------------------------------------
(* Mutant: a tab that shows the code entry does not poll. *)
PollsWithoutCode == screen.place = "gate" /\ ~screen.user /\ screen.ch = 0

(* The poll's effect runs until there is a user, latched or not. *)
Polls == screen.place = "gate" /\ ~screen.user

(* The waiting tab polls the session; a broadcast or the focus do the same.*)
Poll ==
  /\ Polls /\ cookie
  /\ screen' = [screen EXCEPT !.user = TRUE]
  /\ UNCHANGED <<serverVars, accountVars, draft, mail, stash, storage, cookie, dead, failures>>

(* The user effect: the embedding page's held send, once (signedInFired),  *)
(* or the dashboard.                                                       *)
Pivot ==
  /\ screen.place = "gate" /\ screen.user
  /\ IF Holds THEN ~screen.fired /\ screen' = [screen EXCEPT !.fired = TRUE]
     ELSE screen' = [screen EXCEPT !.place = "dashboard"]
  /\ UNCHANGED <<serverVars, accountVars, draft, mail, stash, storage, cookie, dead, failures>>

Next ==
  \/ \E k \in Links : AskLink(k) \/ SendLink(k) \/ LinkAnswer(k) \/ OpenLink(k)
  \/ \E i \in Codes : ConfirmCode(i) \/ VerifyCode(i) \/ CodeAnswer(i)
  \/ ExchangeLink \/ Callback \/ Poll \/ Pivot \/ MailSends \/ ScreenSends
  \/ \E g \in Ceremonies :
       StartGoogle(g) \/ ConnectGoogle(g) \/ ReapCeremony(g) \/ \E own \in BOOLEAN : ExchangeGoogle(g, own)
  \/ \E d \in Door :
       \/ OpenSession(d) \/ Crash(d) \/ GrantSignup(d) \/ RecordRider(d) \/ ReadCapture(d)
       \/ StampAccount(d) \/ PurgeCaptures(d) \/ EnqueueConversion(d) \/ ClaimDraft(d)
       \/ CreateFromDraft(d) \/ FlowAnswer(d)

(* The interval timer of a tab that waits for its email, and the user      *)
(* effect, run while the tab is open; focus and broadcasts are luck.       *)
Fairness == WF_vars(screen.waiting /\ Poll) /\ WF_vars(Pivot)

Spec == Init /\ [][Next]_vars /\ Fairness
-----------------------------------------------------------------------------
(* Once the screen was told that a challenge is dead it confirms no code   *)
(* against it again, whatever order the answers come in.                   *)
NoConfirmAfterVerdict ==
  [][\A i \in Codes :
        code[i].pc = "none" /\ code'[i].pc = "posted" => code'[i].of \notin dead]_vars

(* A document stored for the send gate stays in its owner's reach through  *)
(* a Google sign-in that is refused, cut, replayed, told no, or told that  *)
(* another tab is sending it: while it is unsent and nobody has a claim on *)
(* it, the screen has its handle, or the e-mail tab that had the claim     *)
(* shows it again.                                                         *)
HeldDraftInReach ==
  storage /\ draft = "held" =>
    /\ screen.place \in {"google", "landing"} => stash
    /\ screen.place \in {"dashboard", "envelope"} => mail.place \in {"claim", "restore"}

(* Statement of the repository that the code does not keep: "A success, not *)
(* an error: the other tab already sent it".  The answer is given while the *)
(* other tab is still sending, and it may yet be refused or die.            *)
AlreadyMeansSent ==
  /\ \A d \in Door : flow[d].claim = "pending" => draft = "sent"
  /\ "envelope" \in {screen.place, mail.place} => draft = "sent"

(* Of any number of overlapping sign-ins the one that stamped the click    *)
(* enqueues its conversion, unless something failed on the way.            *)
PaidIsConverted ==
  failures = 0 /\ stamp = "paid" /\ (\A d \in Door : flow[d].pc \in {"none", "over"})
    => converted

(* A tab that waits for its email moves on when a session appears in its   *)
(* browser, its code entry open, closed or missing.                        *)
WaitingTabMovesOn ==
  (screen.place = "gate" /\ screen.waiting /\ cookie)
    ~> (screen.place # "gate" \/ screen.fired)
=============================================================================
