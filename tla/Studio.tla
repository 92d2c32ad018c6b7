------------------------------- MODULE Studio --------------------------------
(***************************************************************************)
(* The create page and the handover of a guest's document: the tab that    *)
(* composed it, the tab the sign-in link landed in (of this browser or of  *)
(* another), and the pending send between them.  CreateEnvelopePage.tsx    *)
(* with pendingSend.ts and db/pendingSends.ts behind it.                   *)
(*                                                                         *)
(* What is on a form is a version: 0 is an empty form, each edit makes a   *)
(* new one.  A version is what currentSnapshot compares (name, signers,    *)
(* auto-close); another PDF of the same name is not told apart.  The page  *)
(* remembers which version the service holds and which one its held        *)
(* payload was built from.                                                 *)
(*                                                                         *)
(* Each press, resend and load of a page is an act; what it sets going     *)
(* goes on under its number, whatever becomes of the page meanwhile.       *)
(***************************************************************************)
EXTENDS Integers, FiniteSets

CONSTANTS
  MaxVersions,     \* bound: edits
  MaxActs,         \* bound: presses, resends, pages loaded
  MaxStudioFaults  \* bound: calls whose failure costs something

ASSUME StudioAssumption ==
  MaxVersions \in Nat \ {0} /\ MaxActs \in Nat \ {0} /\ MaxStudioFaults \in Nat

VARIABLES
  page,      \* the two tabs
  call,      \* what each act has on its way, and the tab it was made in
  acts,      \* so far
  pending,   \* the pending_sends row; every version it ever held (history)
  envelopes, \* made: the version, and the act, tab and route that asked for it
  cookies,   \* browsers with a session
  shared,    \* the link opens in the composing browser
  link,      \* the sign-in email
  latest,    \* the newest version anywhere
  mishaps    \* so far

studioVars == <<page, call, acts, pending, envelopes, cookies, shared, link, latest, mishaps>>

Tabs == {"composer", "landing"}
Browser(p) == IF p = "composer" \/ shared THEN "here" ELSE "there"
Version == 0..MaxVersions
Acts == 1..MaxActs
Route == {"create", "claim"}

Phases == {"closed", "form", "gate", "sending", "away", "sent", "elsewhere"}
Calls == {"none", "build", "preflight", "patch", "save", "resend", "create", "claim",
          "claimed", "made", "done", "refused", "unauthorized", "already"}

PageType ==
  [phase : Phases, text : Version, stored : Version, held : Version, turn : 0..MaxActs,
   handle : BOOLEAN, restored : BOOLEAN, reads : BOOLEAN, claims : BOOLEAN, user : BOOLEAN,
   fired : BOOLEAN, seen : BOOLEAN, retried : BOOLEAN, allow : BOOLEAN, busy : BOOLEAN,
   mount : 0..MaxActs, behind : BOOLEAN]
CallType == [pc : Calls, by : Tabs, v : Version]

(* Every variable of the studio has the type its comment gives.            *)
StudioTypeOK ==
  /\ page \in [Tabs -> PageType]
  /\ call \in [Acts -> CallType]
  /\ acts \in 0..MaxActs
  /\ pending \in [st : {"none", "held", "claimed", "receipt", "gone"}, v : Version,
                 saved : SUBSET (1..MaxVersions)]
  /\ pending.st = "receipt" => pending.v = 0
  /\ envelopes \subseteq [n : Nat \ {0}, v : 1..MaxVersions, act : Acts, by : Tabs, route : Route]
  /\ cookies \subseteq {"here", "there"}
  /\ shared \in BOOLEAN
  /\ link \in {"none", "sent", "spent"}
  /\ latest \in Version
  /\ mishaps \in 0..MaxStudioFaults

(* A tab that is not there; a mounted one starts from this too.            *)
Blank == [phase |-> "closed", text |-> 0, stored |-> 0, held |-> 0, turn |-> 0,
          handle |-> FALSE, restored |-> FALSE, reads |-> FALSE, claims |-> FALSE,
          user |-> FALSE, fired |-> FALSE, seen |-> FALSE, retried |-> FALSE, allow |-> FALSE,
          busy |-> FALSE, mount |-> 0, behind |-> FALSE]

(* An empty editor; the page may believe in a session that is not there    *)
(* (hydrating, or stale).                                                  *)
StudioInit ==
  /\ \E u \in BOOLEAN :
       page = [p \in Tabs |-> IF p = "composer"
                              THEN [Blank EXCEPT !.phase = "form", !.user = u] ELSE Blank]
  /\ call = [a \in Acts |-> [pc |-> "none", by |-> "composer", v |-> 0]]
  /\ acts = 0
  /\ pending = [st |-> "none", v |-> 0, saved |-> {}]
  /\ envelopes = {} /\ cookies = {} /\ shared \in BOOLEAN /\ link = "none"
  /\ latest = 0 /\ mishaps = 0

Mishap == mishaps < MaxStudioFaults /\ mishaps' = mishaps + 1
Shows(p, g) == page' = [page EXCEPT ![p] = g]
Calling(a, pc, v) == call' = [call EXCEPT ![a] = [@ EXCEPT !.pc = pc, !.v = v]]
Quit(a) == Calling(a, "none", 0)

(* A new act of tab p, with what it sets going.                            *)
Acts1(p, pc, v) ==
  /\ acts < MaxActs /\ acts' = acts + 1
  /\ call' = [call EXCEPT ![acts + 1] = [pc |-> pc, by |-> p, v |-> v]]

(* The page an act was made in is still there to hear of it. (A late       *)
(* answer to a tab that says the document was sent would only show it the  *)
(* envelope instead.)                                                      *)
Hears(a) ==
  LET g == page[call[a].by] IN g.phase \in {"form", "gate", "sending", "away"} /\ a >= g.mount

(* What remains of a page that says the document was sent.                 *)
Over(g) == [Blank EXCEPT !.phase = "elsewhere", !.claims = g.claims, !.user = g.user,
                         !.mount = g.mount]

(* The gate's sign-in screen, which has seen the session or not, is        *)
(* unmounted with it.                                                      *)
AtGate(g) == [g EXCEPT !.phase = "gate"]
OffGate(g, phase) == [g EXCEPT !.phase = phase, !.seen = FALSE]
Holds(g, v, a) == [AtGate(g) EXCEPT !.held = v, !.turn = a]

(* A page that loads the editor with a draft's handle; claim=1 sends it.   *)
Mounted(claims, u, a) ==
  [Blank EXCEPT !.phase = "form", !.handle = TRUE, !.reads = TRUE, !.claims = claims,
                !.user = u, !.mount = a]
-----------------------------------------------------------------------------
(* The form. *)

(* Typing, picking and dropping, whatever is on its way; an emptied form's *)
(* new document would be another one.                                      *)
Edit(p) ==
  /\ page[p].phase = "form" /\ latest < MaxVersions
  /\ latest = 0 \/ page[p].text # 0
  /\ latest' = latest + 1
  /\ Shows(p, [page[p] EXCEPT !.text = latest + 1])
  /\ UNCHANGED <<call, acts, pending, envelopes, cookies, shared, link, mishaps>>

(* handleSubmit: a restored draft is saved first, a creator's payload is   *)
(* built, a guest's draft is checked before the gate opens. The button is  *)
(* disabled while submitting, which a creator's press is not yet.          *)
PressSend(p) ==
  LET g     == page[p]
      saves == g.restored /\ g.handle
  IN
  /\ g.phase = "form" /\ ~g.busy /\ g.text # 0
  /\ Acts1(p, IF saves THEN IF g.user THEN "patch" ELSE "save"
              ELSE IF g.user THEN "build" ELSE "preflight", g.text)
  /\ Shows(p, [g EXCEPT !.retried = FALSE, !.busy = saves \/ ~g.user])
  /\ UNCHANGED <<pending, envelopes, cookies, shared, link, latest, mishaps>>

(* dispatchEnvelope, once the file has been read; a page loaded over it    *)
(* stops it.                                                               *)
Dispatch(a) ==
  /\ call[a].pc = "build"
  /\ IF Hears(a)
     THEN Calling(a, "create", call[a].v) /\ Shows(call[a].by, [page[call[a].by] EXCEPT !.busy = TRUE])
     ELSE (Calling(a, "create", call[a].v) \/ Quit(a)) /\ UNCHANGED page
  /\ UNCHANGED <<acts, pending, envelopes, cookies, shared, link, latest, mishaps>>

PreflightAnswer(a) ==
  LET p == call[a].by
      g == [page[p] EXCEPT !.busy = FALSE]
  IN
  /\ call[a].pc = "preflight"
  /\ Quit(a)
  /\ IF Hears(a) THEN Shows(p, Holds(g, call[a].v, a)) \/ Shows(p, g) ELSE UNCHANGED page
  /\ UNCHANGED <<acts, pending, envelopes, cookies, shared, link, latest, mishaps>>

Holding(v) == [st |-> "held", v |-> v, saved |-> pending.saved \cup ({v} \ {0})]

(* updatePendingSendDraft's WHERE. *)
Editable == pending.st = "held"

(* handlePatchPendingSend, then the claim of whoever was signed in when it *)
(* was pressed, or the gate.                                               *)
PatchAnswer(a) ==
  LET c == call[a]
      g == [page[c.by] EXCEPT !.busy = (c.pc = "resend") /\ page[c.by].busy]
      h == [g EXCEPT !.stored = c.v]
  IN
  /\ c.pc \in {"patch", "save", "resend"}
  /\ \/ /\ Editable
        /\ pending' = Holding(c.v)
        /\ IF c.pc = "patch" THEN Calling(a, "claim", 0) ELSE Quit(a)
        /\ IF ~Hears(a) THEN UNCHANGED page
           ELSE IF c.pc = "patch"
           THEN Shows(c.by, [OffGate(h, "sending") EXCEPT !.busy = TRUE])
           ELSE Shows(c.by, AtGate(h))
     \/ /\ Quit(a) /\ UNCHANGED pending
        /\ IF Hears(a) THEN Shows(c.by, g) ELSE UNCHANGED page
  /\ UNCHANGED <<acts, envelopes, cookies, shared, link, latest, mishaps>>

(* The restored notice's "Send me a fresh link" saves and opens the gate,  *)
(* signed in or not.                                                       *)
ResendFromRestore(p) ==
  /\ page[p].phase = "form" /\ page[p].restored
  /\ Acts1(p, "resend", page[p].text)
  /\ UNCHANGED <<page, pending, envelopes, cookies, shared, link, latest, mishaps>>
-----------------------------------------------------------------------------
(* The gate. *)

BackToForm(p) ==
  /\ page[p].phase = "gate" /\ Shows(p, OffGate(page[p], "form"))
  /\ UNCHANGED <<call, acts, pending, envelopes, cookies, shared, link, latest, mishaps>>

Waits(p) == page[p].phase = "gate" /\ ~page[p].user

(* storeDraftForLink and storeDraftForCeremony: a draft with a handle is   *)
(* taken to be stored already. The held payload goes out, and what the     *)
(* form shows is remembered as committed.                                  *)
Store(p, g) ==
  IF g.handle
  THEN Shows(p, g) /\ UNCHANGED pending
  ELSE /\ pending' = Holding(g.held)
       /\ Shows(p, [g EXCEPT !.handle = TRUE, !.stored = g.text, !.behind = (g.held # g.text)])

(* The document first, then the email, which may fail; a store that fails  *)
(* changes nothing.                                                        *)
AskForLink(p) ==
  /\ Waits(p)
  /\ Store(p, page[p])
  /\ link' \in {"sent", link}
  /\ UNCHANGED <<call, acts, envelopes, cookies, shared, latest, mishaps>>

(* The link opens: the tab lands with claim=1, or with signin_failed=1.    *)
OpenSignInLink ==
  LET ok == link = "sent" IN
  /\ page["landing"].phase = "closed" /\ link # "none"
  /\ link' = "spent"
  /\ cookies' = IF ok THEN cookies \cup {Browser("landing")} ELSE cookies
  /\ Acts1("landing", "none", 0)
  /\ Shows("landing", Mounted(ok, ok, acts + 1))
  /\ UNCHANGED <<pending, envelopes, shared, latest, mishaps>>

(* The answer that verified a credential sets the browser's cookie.        *)
SignedIn(p) == cookies' = cookies \cup {Browser(p)}

(* A code, a passkey, or another tab: this browser is signed in.           *)
SignInHere(p) ==
  /\ Waits(p)
  /\ SignedIn(p)
  /\ UNCHANGED <<page, call, acts, pending, envelopes, shared, link, latest, mishaps>>

(* attemptGoogle: stored, the page lets itself go, then the ceremony (here *)
(* from the composing tab).                                                *)
LeaveForGoogle(p) ==
  LET g == [page[p] EXCEPT !.allow = TRUE] IN
  /\ Waits(p) /\ p = "composer"
  /\ \/ /\ Acts1(p, "none", 0)
        /\ Store(p, [g EXCEPT !.phase = "away", !.claims = FALSE, !.mount = acts + 1])
        /\ UNCHANGED mishaps
     \/ Store(p, g) /\ Mishap /\ UNCHANGED <<call, acts>>
  /\ UNCHANGED <<envelopes, cookies, shared, link, latest>>

(* Back with a session and the exchange's claim under way, or with neither *)
(* and the stashed handle.                                                 *)
BackFromGoogle(p) ==
  LET m == page[p].mount IN
  /\ page[p].phase = "away" /\ call[m].pc = "none"
  /\ \/ SignedIn(p) /\ Calling(m, "claim", 0) /\ UNCHANGED page
     \/ Shows(p, Mounted(FALSE, FALSE, m)) /\ UNCHANGED <<call, cookies>>
  /\ UNCHANGED <<acts, pending, envelopes, shared, link, latest, mishaps>>

(* AuthContext looks again: the page's belief is the browser's session.    *)
SeeSession(p) ==
  /\ page[p].phase \in {"form", "gate"} /\ page[p].user # (Browser(p) \in cookies)
  /\ Shows(p, [page[p] EXCEPT !.user = ~@])
  /\ UNCHANGED <<call, acts, pending, envelopes, cookies, shared, link, latest, mishaps>>

(* The screen reports the session once, and handleGateSignedIn dispatches  *)
(* the held payload: a restored draft has none.                            *)
GateFires(p) ==
  LET g == page[p] IN
  /\ g.phase = "gate" /\ g.user /\ ~g.seen
  /\ IF g.held # 0 /\ ~g.fired
     THEN /\ Shows(p, [OffGate(g, "sending") EXCEPT !.fired = TRUE, !.busy = TRUE])
          /\ Calling(g.turn, "create", g.held)
     ELSE Shows(p, [g EXCEPT !.seen = TRUE]) /\ UNCHANGED call
  /\ UNCHANGED <<acts, pending, envelopes, cookies, shared, link, latest, mishaps>>

(* Mutant: the watch is set for the handle the page was loaded with. *)
WatchesRestored(p) == page[p].phase = "gate" /\ page[p].handle /\ page[p].restored

Watches(p) == page[p].phase = "gate" /\ page[p].handle

(* The three-second look at the draft while the gate is up.                *)
WatchDraft(p) ==
  /\ Watches(p) /\ pending.st = "receipt"
  /\ Shows(p, Over(page[p]))
  /\ UNCHANGED <<call, acts, pending, envelopes, cookies, shared, link, latest, mishaps>>
-----------------------------------------------------------------------------
(* The landing. *)

(* GET /v1/pending-send/:handle into the form; a receipt has no contents.  *)
RestoreDraft(p) ==
  LET g == [page[p] EXCEPT !.reads = FALSE] IN
  /\ page[p].reads
  /\ \/ /\ pending.st \in {"held", "claimed"}
        /\ Shows(p, [g EXCEPT !.restored = TRUE, !.text = pending.v, !.stored = pending.v])
     \/ /\ pending.st = "receipt"
        /\ Shows(p, Over(g))
     \/ Shows(p, [g EXCEPT !.handle = FALSE])
  /\ UNCHANGED <<call, acts, pending, envelopes, cookies, shared, link, latest, mishaps>>

(* The claim effect, once per mount, whatever the page is at. *)
ClaimOnLanding(p) ==
  LET g == page[p] IN
  /\ g.phase \notin {"closed", "away", "sent"} /\ g.claims /\ g.user
  /\ LET h == [g EXCEPT !.claims = FALSE] IN
       Shows(p, IF g.phase = "elsewhere" THEN h ELSE OffGate(h, "sending"))
  /\ Calling(g.mount, "claim", 0)
  /\ UNCHANGED <<acts, pending, envelopes, cookies, shared, link, latest, mishaps>>
-----------------------------------------------------------------------------
(* The service. *)

Make(a, route) ==
  envelopes' = envelopes \cup
    {[n |-> Cardinality({x \in envelopes : x.act = a}) + 1, act |-> a, by |-> call[a].by,
      v |-> call[a].v, route |-> route]}

Goes(a, pc) == Calling(a, pc, call[a].v)

(* Mutant: the claim's WHERE does not ask that nobody claimed. *)
ClaimableAgain == pending.st \in {"held", "claimed"}

Claimable == pending.st = "held"

(* claimPendingSend, which reads the version it takes.                     *)
ClaimPending(a) ==
  /\ call[a].pc = "claim"
  /\ IF Browser(call[a].by) \notin cookies THEN Goes(a, "refused") /\ UNCHANGED pending
     ELSE IF Claimable
     THEN Calling(a, "claimed", pending.v) /\ pending' = [pending EXCEPT !.st = "claimed"]
     ELSE Goes(a, IF pending.st \in {"claimed", "receipt"} THEN "already" ELSE "refused")
          /\ UNCHANGED pending
  /\ UNCHANGED <<page, acts, envelopes, cookies, shared, link, latest, mishaps>>

(* finishClaim: the create, and the release if it refuses. *)
CreateFromDraft(a) ==
  /\ call[a].pc = "claimed"
  /\ \/ Goes(a, "made") /\ Make(a, "claim") /\ UNCHANGED pending
     \/ /\ Goes(a, "refused") /\ UNCHANGED envelopes
        /\ pending' = IF pending.st = "claimed" THEN [pending EXCEPT !.st = "held"] ELSE pending
  /\ UNCHANGED <<page, acts, cookies, shared, link, latest, mishaps>>

(* Mutant: the row keeps what it held. *)
ReceiptWithContents == [pending EXCEPT !.st = "receipt"]

(* recordClaimedEnvelope's redaction. *)
Receipt == [pending EXCEPT !.st = "receipt", !.v = 0]

RecordReceipt(a) ==
  /\ call[a].pc = "made"
  /\ Goes(a, "done")
  /\ pending' = IF pending.st = "gone" THEN pending ELSE Receipt
  /\ UNCHANGED <<page, acts, envelopes, cookies, shared, link, latest, mishaps>>

(* POST /v1/envelope: made, refused, no session, or made and not heard of. *)
CreateEnvelope(a) ==
  /\ call[a].pc = "create"
  /\ IF Browser(call[a].by) \notin cookies
     THEN Goes(a, "unauthorized") /\ UNCHANGED <<envelopes, mishaps>>
     ELSE \/ Goes(a, "done") /\ Make(a, "create") /\ UNCHANGED mishaps
          \/ Goes(a, "refused") /\ UNCHANGED <<envelopes, mishaps>>
          \/ Goes(a, "refused") /\ Make(a, "create") /\ Mishap
  /\ UNCHANGED <<page, acts, pending, cookies, shared, link, latest>>

(* dispatchEnvelope's and the claims' endings: the envelope's page; or the *)
(* form; or, once per press, the gate with the payload held. Only the      *)
(* landing's claim leaves the button as it is.                             *)
Ending(a) ==
  LET c == call[a]
      p == c.by
      g == [page[p] EXCEPT !.busy = (a = page[p].mount) /\ page[p].busy]
  IN
  IF c.pc \in {"done", "already"} THEN [Blank EXCEPT !.phase = "sent"]
  ELSE IF c.pc = "unauthorized" /\ ~g.retried
  THEN [Holds(g, c.v, a) EXCEPT !.fired = FALSE, !.retried = TRUE, !.user = Browser(p) \in cookies]
  ELSE IF g.phase = "away" THEN Mounted(TRUE, TRUE, a)
  ELSE OffGate(g, "form")

SendAnswer(a) ==
  /\ call[a].pc \in {"done", "already", "refused", "unauthorized"}
  /\ Quit(a)
  /\ IF Hears(a) THEN Shows(call[a].by, Ending(a)) ELSE UNCHANGED page
  /\ UNCHANGED <<acts, pending, envelopes, cookies, shared, link, latest, mishaps>>

(* deleteFinishedPendingSends, daily: a receipt, or seven days.            *)
SweepPending ==
  /\ pending.st \in {"held", "claimed", "receipt"}
  /\ pending' = [pending EXCEPT !.st = "gone"]
  /\ UNCHANGED <<page, call, acts, envelopes, cookies, shared, link, latest, mishaps>>

-----------------------------------------------------------------------------
(* Mutant: what was stored once counts as committed for good. *)
CommittedOnce(p) == page[p].handle

(* committedAndClean. *)
CommittedAndClean(p) ==
  page[p].handle /\ page[p].stored # 0 /\ page[p].stored = page[p].text

(* hasUnsentDraft. *)
Dirty(p) == page[p].phase \in {"gate", "sending"} \/ page[p].text # 0

Guarded(p) == Dirty(p) /\ ~CommittedAndClean(p) /\ ~page[p].allow

(* The visitor goes elsewhere and nothing asks whether they mean it.       *)
LeaveSilently(p) ==
  /\ page[p].phase \in {"form", "gate", "sending"}
  /\ ~Guarded(p)
  /\ Shows(p, Blank)
  /\ UNCHANGED <<call, acts, pending, envelopes, cookies, shared, link, latest, mishaps>>

StudioNext ==
  \/ OpenSignInLink \/ SweepPending
  \/ \E p \in Tabs :
       \/ Edit(p) \/ PressSend(p) \/ ResendFromRestore(p) \/ BackToForm(p) \/ AskForLink(p)
       \/ SignInHere(p) \/ LeaveForGoogle(p) \/ BackFromGoogle(p) \/ SeeSession(p)
       \/ GateFires(p) \/ WatchDraft(p) \/ RestoreDraft(p) \/ ClaimOnLanding(p)
       \/ LeaveSilently(p)
  \/ \E a \in Acts :
       \/ Dispatch(a) \/ PreflightAnswer(a) \/ PatchAnswer(a) \/ ClaimPending(a)
       \/ CreateFromDraft(a) \/ RecordReceipt(a) \/ CreateEnvelope(a) \/ SendAnswer(a)

(* The timer of a waiting tab ticks; no property needs more.               *)
StudioFairness == \A p \in Tabs : WF_studioVars(WatchDraft(p))

StudioSpec == StudioInit /\ [][StudioNext]_studioVars /\ StudioFairness
-----------------------------------------------------------------------------
Leaves(p) ==
  /\ page[p].phase \in {"form", "gate", "sending"} /\ page'[p].phase = "closed"
  /\ mishaps = 0 /\ pending.st # "gone"

(* A tab that may be left without a question loses nothing: what its form  *)
(* shows has been stored with the service, unless it was edited between    *)
(* the press and the gate, whose payload is the older one.                 *)
SilentLeaveKeepsWork ==
  [][\A p \in Tabs : Leaves(p) /\ ~page[p].behind
                       => page[p].text \in {0} \cup pending.saved]_studioVars

(* CreateEnvelopePage.tsx:216: "a draft that is COMMITTED to the service   *)
(* has nothing unsaved about it: leaving is safe by construction". An edit *)
(* made while the preflight or the create is on its way is left behind.    *)
LeavingIsSafeByConstruction ==
  [][\A p \in Tabs : Leaves(p) => page[p].text \in {0} \cup pending.saved]_studioVars

(* However presses, claims, refusals, retries and 401s interleave, no act  *)
(* of the visitor makes two envelopes, and no two make one of the stored   *)
(* draft.                                                                  *)
EachActSendsOnce ==
  mishaps = 0 =>
    \A x, y \in envelopes : x.act = y.act \/ (x.route = "claim" /\ y.route = "claim") => x = y

(* A tab waiting at the gate gets its ending once another has sent the     *)
(* document, unless the sweep has removed the receipt it looks for.        *)
WaitingTabEnds ==
  \A p \in Tabs :
    (page[p].phase = "gate" /\ page[p].handle /\ pending.st = "receipt")
      ~> (page[p].phase # "gate" \/ pending.st = "gone")

(* Statement of the repository that the code does not keep: "two tabs      *)
(* racing produce one envelope and one credit movement".                   *)
TwoTabsOneEnvelope ==
  mishaps = 0 => \A x, y \in envelopes : x.v = y.v => x.by = y.by

(* Statement of the repository that the code does not keep: the held draft *)
(* is stored "BEFORE the sign-in email goes out".  Composed, sent, edited  *)
(* and sent again, the draft behind the new email is the first one.        *)
EmailCarriesHeldDraft ==
  [][page["landing"].phase = "closed" /\ page["composer"].phase = "gate"
     /\ page["composer"].held # 0 /\ link # "sent" /\ link' = "sent"
     /\ pending'.st = "held"
       => pending'.v = page["composer"].held]_studioVars
=============================================================================
