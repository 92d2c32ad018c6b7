-------------------------------- MODULE Account --------------------------------
(***************************************************************************)
(* The account pages: sign-in methods (PasskeysPage.tsx: the Google        *)
(* connection and the passkey list) and API keys (ApiKeysPage.tsx).  Each  *)
(* shows a copy it read from the API, changes the account with calls of    *)
(* its own and reads again; reads and calls overlap and arrive in any      *)
(* order.  A visitor who leaves a page comes back to a fresh one, as does  *)
(* one who connected Google; what the page left behind goes on and is      *)
(* served, and nobody hears its answer.  The kinds share nothing, so one   *)
(* of them is followed: "google", "passkeys" or "keys".                    *)
(*                                                                         *)
(* What the account holds of it is the number of changes made to it;       *)
(* Google is connected when that number is odd.                            *)
(***************************************************************************)
EXTENDS Integers

CONSTANTS
  Slot,             \* bound: calls under way at once
  MaxChanges,       \* bound: changes
  MaxReads,         \* bound: reads
  MaxAccountFaults  \* bound: calls and reads that fail, or whose answer is lost

ASSUME AccountAssumption ==
  /\ MaxChanges \in Nat
  /\ MaxReads \in Nat \ {0}
  /\ MaxAccountFaults \in Nat

VARIABLES
  kind,           \* what is followed
  holds,          \* the account, on the platform or in api_keys
  recent,         \* the session authenticated recently
  page,           \* what the visitor sees, and which read it came from
  reads,          \* reads in flight
  lastRead,       \* the latest read begun
  act,            \* the calls under way: their button, progress and page
  strays,         \* history: the changes made by calls of a page left before
  accountFaults

accountVars == <<kind, holds, recent, page, reads, lastRead, act, strays, accountFaults>>

Kind == {"google", "passkeys", "keys"}
Button == {"make", "drop"}
Unknown == -1
NotConnected == -2     \* what a read that failed upstream says

NewPage(first) == [open |-> TRUE, away |-> FALSE, from |-> first, shows |-> Unknown, by |-> 0,
                   unsure |-> FALSE, notice |-> "none"]
NoAct == [b |-> "make", pc |-> "idle", of |-> 0]

(* Every variable of the account pages has the type its comment gives.     *)
AccountTypeOK ==
  /\ kind \in Kind
  /\ holds \in 0..MaxChanges
  /\ recent \in BOOLEAN
  /\ page \in [open : BOOLEAN, away : BOOLEAN, from : 1..MaxReads,
               shows : NotConnected..MaxChanges, by : 0..MaxReads, unsure : BOOLEAN, notice : {"none", "error", "reauth", "ceremony_error", "linked"}]
  /\ reads \subseteq [n : 1..MaxReads, got : NotConnected..MaxChanges, mount : BOOLEAN]
  /\ lastRead \in 0..MaxReads
  /\ act \in [Slot -> [b : Button, of : 0..MaxReads,
                       pc : {"idle", "options", "browser", "asked", "done", "stale", "failed"}]]
  /\ strays \subseteq 1..MaxChanges
  /\ accountFaults \in 0..MaxAccountFaults

Connected(n) == n % 2 = 1

AccountFault == accountFaults < MaxAccountFaults /\ accountFaults' = accountFaults + 1
NoAccountFault == UNCHANGED accountFaults

Moves(c, to) == act' = [act EXCEPT ![c].pc = to]
Ends(c) == act' = [act EXCEPT ![c] = NoAct]

(* A page is named by its first read; a call under way belongs to the page *)
(* whose button was pressed, and only that page hears its answer.          *)
Hears(c) == page.open /\ act[c].of = page.from
Busy(b) == \E c \in Slot : act[c].b = b /\ act[c].pc # "idle" /\ Hears(c)

(* A read begins: of the mount effects, or after a call.                   *)
Reads(before, mount) ==
  /\ lastRead < MaxReads /\ lastRead' = lastRead + 1
  /\ reads' = before \cup {[n |-> lastRead + 1, got |-> Unknown, mount |-> mount]}

AccountInit ==
  /\ kind \in Kind
  /\ holds = 0
  /\ recent \in BOOLEAN
  /\ page = NewPage(1)
  /\ reads = {[n |-> 1, got |-> Unknown, mount |-> TRUE]}
  /\ lastRead = 1
  /\ act = [c \in Slot |-> NoAct]
  /\ strays = {}
  /\ accountFaults = 0
-----------------------------------------------------------------------------
(* The API answers a read: the list, or the identities, whose upstream     *)
(* failure is answered as "not connected".                                 *)
ServeRead(r) ==
  /\ r.got = Unknown
  /\ \/ reads' = (reads \ {r}) \cup {[r EXCEPT !.got = holds]} /\ NoAccountFault
     \/ /\ kind = "google" /\ AccountFault
        /\ reads' = (reads \ {r}) \cup {[r EXCEPT !.got = NotConnected]}
  /\ UNCHANGED <<kind, holds, recent, page, lastRead, act, strays>>

(* It arrives, whatever was read meanwhile: nothing orders two of them.    *)
ReadArrives(r) ==
  /\ r.got # Unknown
  /\ reads' = reads \ {r}
  /\ page' = [page EXCEPT !.shows = r.got, !.by = r.n]
  /\ UNCHANGED <<kind, holds, recent, lastRead, act, strays, accountFaults>>

(* It fails: an error is shown and the copy stays, except that the mount's *)
(* identities read falls back to "not connected".                          *)
ReadFails(r) ==
  /\ AccountFault
  /\ reads' = reads \ {r}
  /\ page' = IF kind = "google" /\ r.mount
             THEN [page EXCEPT !.shows = NotConnected, !.by = r.n]
             ELSE [page EXCEPT !.notice = "error", !.unsure = TRUE]
  /\ UNCHANGED <<kind, holds, recent, lastRead, act, strays>>
-----------------------------------------------------------------------------
(* The page goes, and its reads and calls are not heard any more.          *)
Leave(away) ==
  /\ page.open /\ page' = [page EXCEPT !.open = FALSE, !.away = away]
  /\ reads' = {}

(* Connect Google: the link call answers with where to go, and the page is *)
(* left; or it fails and the page stays.                                   *)
ConnectGoogle ==
  /\ kind = "google" /\ page.open /\ ~Busy("make")
  /\ page.shows # Unknown /\ ~Connected(page.shows)
  /\ \/ Leave(TRUE) /\ NoAccountFault
     \/ page' = [page EXCEPT !.notice = "error"] /\ AccountFault /\ UNCHANGED reads
  /\ UNCHANGED <<kind, holds, recent, lastRead, act, strays>>

Begins(c, b, pc, first) ==
  /\ act[c].pc = "idle"
  /\ act' = [act EXCEPT ![c] = [b |-> b, pc |-> pc, of |-> first]]

(* The ceremony returns to a fresh page: its hash is consumed once, an     *)
(* error is told, a code is exchanged while the mount effects read.        *)
CeremonyReturns ==
  /\ ~page.open /\ page.away
  /\ \/ /\ page' = [NewPage(lastRead + 1) EXCEPT !.notice = "ceremony_error"]
        /\ UNCHANGED act
     \/ /\ page' = NewPage(lastRead + 1)
        /\ \E c \in Slot : Begins(c, "make", "asked", lastRead + 1)
  /\ Reads({}, TRUE)
  /\ UNCHANGED <<kind, holds, recent, strays, accountFaults>>

Press(b, pc) ==
  /\ page.open /\ page' = [page EXCEPT !.notice = "none"]
  /\ \E c \in Slot : Begins(c, b, pc, page.from)
  /\ UNCHANGED <<kind, holds, recent, reads, lastRead, strays, accountFaults>>

\* The forms wait for their own call; each row of a list has a button.
MintKey    == kind = "keys" /\ ~Busy("make") /\ Press("make", "asked")
AddPasskey == kind = "passkeys" /\ ~Busy("make") /\ Press("make", "options")

RevokeKey        == kind = "keys" /\ Press("drop", "asked")
RemovePasskey    == kind = "passkeys" /\ Press("drop", "asked")
DisconnectGoogle == kind = "google" /\ Connected(page.shows) /\ ~Busy("drop")
                    /\ Press("drop", "asked")

(* Adding a passkey: options, the browser's own ceremony, verification.    *)
PasskeyCeremony(c) ==
  /\ act[c].pc \in {"options", "browser"}
  /\ \/ Moves(c, IF act[c].pc = "options" THEN "browser" ELSE "asked")
     \/ Moves(c, "failed")
  /\ UNCHANGED <<kind, holds, recent, page, reads, lastRead, strays, accountFaults>>

(* A call reaches the platform.  Linking what is linked and unlinking what *)
(* is not change nothing; unlinking needs a recent sign-in.                *)
Changes(b) == kind = "google" => Connected(holds) = (b = "drop")
TooOld(b) == kind = "google" /\ b = "drop" /\ Connected(holds) /\ ~recent

ServeCall(c) ==
  LET b == act[c].b
  IN /\ act[c].pc = "asked"
     /\ \/ TooOld(b) /\ Moves(c, "stale") /\ NoAccountFault /\ UNCHANGED <<holds, strays>>
        \/ /\ ~TooOld(b)
           /\ Changes(b) => holds < MaxChanges
           /\ holds' = IF Changes(b) THEN holds + 1 ELSE holds
           /\ strays' = IF Changes(b) /\ act[c].of # page.from THEN strays \cup {holds + 1}
                        ELSE strays
           /\ \/ Moves(c, "done") /\ NoAccountFault
              \/ Moves(c, "failed") /\ AccountFault
        \/ Moves(c, "failed") /\ AccountFault /\ UNCHANGED <<holds, strays>>
     /\ UNCHANGED <<kind, recent, page, reads, lastRead>>

(* Mutant: the call's own answer is taken for the new state.               *)
ReadsAfterLink(b) == b = "make"

(* What a successful call is followed by.                                  *)
ReadsAgain(b) == TRUE

(* Its answer: the page reads again, or tells the error, and asks for a    *)
(* fresh sign-in in words of its own.                                      *)
Done(c) ==
  /\ act[c].pc = "done"
  /\ page' = [page EXCEPT !.notice = IF kind = "google" /\ act[c].b = "make" THEN "linked" ELSE "none"]
  /\ IF ReadsAgain(act[c].b) THEN Reads(reads, FALSE) ELSE UNCHANGED <<reads, lastRead>>

NotDone(c) ==
  /\ act[c].pc \in {"stale", "failed"}
  /\ page' = IF act[c].pc = "stale" THEN [page EXCEPT !.notice = "reauth"]
             ELSE [page EXCEPT !.unsure = TRUE,
                     !.notice = IF kind = "google" /\ act[c].b = "make" THEN "ceremony_error" ELSE "error"]
  /\ UNCHANGED <<reads, lastRead>>

CallAnswered(c) ==
  /\ Hears(c)
  /\ Done(c) \/ NotDone(c)
  /\ Ends(c)
  /\ UNCHANGED <<kind, holds, recent, strays, accountFaults>>

(* Nobody is there to hear it.                                             *)
CallForgotten(c) ==
  /\ ~Hears(c) /\ act[c].pc \in {"done", "stale", "failed"}
  /\ Ends(c)
  /\ UNCHANGED <<kind, holds, recent, page, reads, lastRead, strays, accountFaults>>

(* The visitor leaves, and comes back, by signing in anew or not.          *)
GoAway ==
  /\ Leave(FALSE)
  /\ UNCHANGED <<kind, holds, recent, lastRead, act, strays, accountFaults>>

ComeBack ==
  /\ ~page.open
  /\ page' = NewPage(lastRead + 1) /\ Reads({}, TRUE)
  /\ recent' \in BOOLEAN
  /\ UNCHANGED <<kind, holds, act, strays, accountFaults>>

AccountNext ==
  \/ \E r \in reads : ServeRead(r) \/ ReadArrives(r) \/ ReadFails(r)
  \/ ConnectGoogle \/ CeremonyReturns \/ MintKey \/ AddPasskey
  \/ RevokeKey \/ RemovePasskey \/ DisconnectGoogle
  \/ \E c \in Slot : PasskeyCeremony(c) \/ ServeCall(c) \/ CallAnswered(c) \/ CallForgotten(c)
  \/ GoAway \/ ComeBack

AccountSpec == AccountInit /\ [][AccountNext]_accountVars
-----------------------------------------------------------------------------
(* Nothing is in flight to the page.                                       *)
Quiet == page.open /\ reads = {} /\ \A b \in Button : ~Busy(b)

(* A quiet page that shows its latest read shows the account: no call,     *)
(* ceremony or way back leaves a copy from before it, and all that the     *)
(* copy may lack was done since by calls of a page left before, which      *)
(* nothing tells the page of.  (A failed call or read says so; a degraded  *)
(* read says "not connected".)                                             *)
QuietPageShowsAccount ==
  /\ Quiet /\ page.by = lastRead /\ ~page.unsure /\ page.shows # NotConnected
  => page.shows <= holds /\ (page.shows + 1)..holds \subseteq strays

(* PasskeysPage.tsx:77 re-reads "so the row reflects the connection the    *)
(* exchange just sealed".  It does not when the mount's own read, served   *)
(* before the exchange, arrives after the re-read.                         *)
RowReflectsConnection ==
  /\ Quiet /\ kind = "google" /\ page.notice = "linked" /\ accountFaults = 0
  => page.shows = holds
=============================================================================
