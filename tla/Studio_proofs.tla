---------------------------- MODULE Studio_proofs ----------------------------
(* What TLAPS proves of Studio, for every value of its constants. *)
EXTENDS Studio, FiniteSetTheorems, TLAPS

(***************************************************************************)
(* A page by itself: what it shows, holds, and has of its draft.            *)
(***************************************************************************)
Hearing == {"form", "gate", "sending", "away"}
OfGuest == {"build", "preflight", "create", "unauthorized"}
OfDraft == {"patch", "save", "resend"}

Composed(p, g) ==
  /\ g.reads => g.handle /\ ~g.restored /\ g.text = 0 /\ g.held = 0
  /\ g.restored => g.handle /\ g.held = 0 /\ g.text # 0
  /\ p = "landing" /\ g.text # 0 => g.restored
  /\ g.phase \in {"gate", "away"} => g.text # 0
  /\ g.phase = "gate" /\ ~g.restored => g.held # 0
  /\ g.phase \notin Hearing => /\ g.text = 0 /\ g.stored = 0 /\ g.held = 0
                               /\ ~g.handle /\ ~g.reads /\ ~g.restored /\ ~g.allow

(* An act by itself: what it carries, and that it has made nothing yet; n   *)
(* acts, e envelopes and m mishaps so far.                                  *)
Asked(a, c, n, e, m) ==
  /\ a > n => c.pc = "none" /\ \A x \in e : x.act # a
  /\ c.pc \in OfGuest \cup OfDraft \cup {"claimed"} => c.v # 0
  /\ m = 0 /\ c.pc \in OfGuest \cup OfDraft \cup {"claim", "claimed", "refused"} =>
       \A x \in e : x.act # a
  /\ m = 0 => \A x, y \in e : x.act = a /\ y.act = a => x = y

(* A page g that hears of act a, and what it has on its way.                *)
Heard(g, c, a) ==
  /\ c.pc \in OfGuest => ~g.restored /\ g.text # 0 /\ a # g.mount
  /\ c.pc \in OfDraft => g.restored /\ a # g.mount
  /\ g.phase = "away" /\ c.pc # "none" => a = g.mount

(* An act of tab p that has nothing on its way and made nothing, and what a *)
(* page may yet start under such an act: the held payload's, the page's.    *)
Idle(p, a, c, n, e, m) ==
  /\ a \in Acts /\ a <= n /\ c[a].by = p /\ c[a].pc = "none"
  /\ m = 0 => \A x \in e : x.act # a

Ready(p, g, c, n, e, m) ==
  /\ g.mount <= n
  /\ g.held # 0 /\ ~g.fired => Idle(p, g.turn, c, n, e, m) /\ g.turn # g.mount
  /\ g.claims => Idle(p, g.mount, c, n, e, m) /\ g.phase \notin {"closed", "away", "sent"}
  /\ g.phase = "away" => /\ g.mount \in Acts /\ c[g.mount].by = p
                         /\ c[g.mount].pc = "none" => Idle(p, g.mount, c, n, e, m)

Pages == \A p \in Tabs : Composed(p, page[p]) /\ Ready(p, page[p], call, acts, envelopes, mishaps)

Asks == \A a \in Acts : /\ Asked(a, call[a], acts, envelopes, mishaps)
                        /\ Hears(a) => Heard(page[call[a].by], call[a], a)

(* The draft behind the handle: only a page that has not stored what it     *)
(* composed may store a new one, and then there is none yet.                *)
Drafts ==
  /\ pending.st \in {"held", "claimed"} => pending.v # 0
  /\ pending.v \in {0} \cup pending.saved
  /\ \A p \in Tabs : page[p].stored \in {0} \cup pending.saved \/ page[p].behind
  /\ \A p \in Tabs : page[p].text # 0 /\ ~page[p].handle => pending.st = "none"

(* Before the first edit nothing is pressed, stored, sent or restored.      *)
Unwritten ==
  latest = 0 => /\ pending.st = "none" /\ link = "none" /\ acts = 0
                /\ page["landing"].phase = "closed"
                /\ \A p \in Tabs : page[p].text = 0 /\ ~page[p].reads

(* The visitor is let go only for Google, and comes back to a new page.     *)
LetGo == mishaps = 0 => \A p \in Tabs : page[p].allow => page[p].phase = "away"

Claiming(a) == call[a].pc \in {"claimed", "made"}
Claims == {x \in envelopes : x.route = "claim"}

(* A claim is one act's, until it makes the envelope or gives the row back. *)
ClaimedOnce ==
  /\ \A a \in Acts : Claiming(a) => pending.st \in {"claimed", "gone"}
  /\ \A a, b \in Acts : Claiming(a) /\ Claiming(b) => a = b
  /\ \A a \in Acts : call[a].pc = "claimed" => Claims = {}
  /\ Claims # {} => \/ pending.st \in {"receipt", "gone"}
                    \/ \E a \in Acts : call[a].pc = "made"
  /\ \A x, y \in Claims : x = y

StudioInv ==
  /\ StudioTypeOK /\ IsFiniteSet(envelopes)
  /\ Pages /\ Asks /\ Drafts /\ Unwritten /\ LetGo /\ ClaimedOnce

PendingType == [st : {"none", "held", "claimed", "receipt", "gone"}, v : Version,
                saved : SUBSET (1..MaxVersions)]
EnvelopeType == [n : Nat \ {0}, v : 1..MaxVersions, act : Acts, by : Tabs, route : Route]

(* Tab p comes to show h, and its act a to have d on its way: one it had    *)
(* already, or a new one.                                                   *)
Owns(p, a, d) ==
  /\ d.by = p
  /\ \/ acts' = acts /\ a <= acts /\ call[a].by = p
     \/ acts' = acts + 1 /\ a = acts + 1

Moves(p, h, a, d) ==
  /\ page' = [page EXCEPT ![p] = h] /\ call' = [call EXCEPT ![a] = d]
  /\ \/ d = call[a] /\ UNCHANGED <<acts, envelopes>>
     \/ Owns(p, a, d) /\ Asked(a, d, acts', envelopes', mishaps')
  /\ envelopes \subseteq envelopes' /\ \A x \in envelopes' \ envelopes : x.act = a
  /\ mishaps' \in 0..MaxStudioFaults /\ (mishaps' = 0 => mishaps = 0)
  /\ Composed(p, h) /\ Ready(p, h, call', acts', envelopes', mishaps')
  /\ \A b \in Acts : call'[b].by = p /\ h.phase \in Hearing /\ b >= h.mount
                       => Heard(h, call'[b], b)

-----------------------------------------------------------------------------
(* What the invariant says of one tab and of one act.                       *)
LEMMA TabState ==
  ASSUME StudioInv, NEW p \in Tabs
  PROVE  /\ page \in [Tabs -> PageType] /\ page[p] \in PageType
         /\ Composed(p, page[p])
         /\ Ready(p, page[p], call, acts, envelopes, mishaps)
         /\ page[p].stored \in {0} \cup pending.saved \/ page[p].behind
         /\ page[p].text # 0 /\ ~page[p].handle => pending.st = "none"
         /\ mishaps = 0 /\ page[p].allow => page[p].phase = "away"
         /\ page[p].text # 0 \/ page[p].reads => latest # 0
  BY DEF StudioInv, StudioTypeOK, Pages, Drafts, LetGo, Unwritten

LEMMA ActState ==
  ASSUME StudioInv, NEW a \in Acts
  PROVE  /\ call \in [Acts -> CallType] /\ call[a] \in CallType /\ call[a].by \in Tabs
         /\ Asked(a, call[a], acts, envelopes, mishaps)
         /\ Hears(a) => Heard(page[call[a].by], call[a], a)
         /\ a \in Nat /\ acts \in Nat
         /\ call[a].pc # "none" => a <= acts /\ latest # 0
  <1>1. call \in [Acts -> CallType] /\ call[a] \in CallType /\ call[a].by \in Tabs
    BY DEF StudioInv, StudioTypeOK, CallType
  <1>2. Asked(a, call[a], acts, envelopes, mishaps) /\ (Hears(a) => Heard(page[call[a].by], call[a], a))
    BY DEF StudioInv, Asks
  <1>3. a \in Nat /\ a # 0 /\ acts \in Nat
    BY StudioAssumption DEF StudioInv, StudioTypeOK, Acts
  <1>4. call[a].pc # "none" => ~(a > acts)
    BY <1>2 DEF Asked
  <1>5. latest = 0 => acts = 0
    BY DEF StudioInv, Unwritten
  <1>6. call[a].pc # "none" => a <= acts /\ acts # 0
    BY <1>3, <1>4
  <1> QED
    BY <1>1, <1>2, <1>3, <1>5, <1>6

(* The other variables.                                                     *)
LEMMA RestState ==
  ASSUME StudioInv
  PROVE  /\ pending \in PendingType /\ (pending.st = "receipt" => pending.v = 0)
         /\ envelopes \subseteq EnvelopeType /\ IsFiniteSet(envelopes)
         /\ acts \in 0..MaxActs /\ mishaps \in 0..MaxStudioFaults /\ latest \in Version
         /\ cookies \subseteq {"here", "there"} /\ link \in {"none", "sent", "spent"}
         /\ shared \in BOOLEAN
  BY DEF StudioInv, StudioTypeOK, PendingType, EnvelopeType

(* An act that waits is not disturbed by another.                           *)
LEMMA IdleStays ==
  ASSUME StudioInv, NEW q, NEW a \in Acts, NEW b \in Acts, NEW d, a # b,
         Idle(q, b, call, acts, envelopes, mishaps),
         call' = [call EXCEPT ![a] = d], acts' \in Nat, acts' = acts \/ acts' = acts + 1,
         \A x \in envelopes' \ envelopes : x.act = a,
         mishaps' = 0 => mishaps = 0
  PROVE  Idle(q, b, call', acts', envelopes', mishaps')
  <1>1. call'[b] = call[b]
    BY ActState
  <1>2. b \in Nat /\ acts \in Nat /\ b <= acts
    BY ActState DEF Idle
  <1>3. b <= acts'
    BY <1>2
  <1>4. mishaps' = 0 => \A x \in envelopes' : x.act # b
    BY DEF Idle
  <1> QED
    BY <1>1, <1>3, <1>4 DEF Idle

(* The other tab, and every other act, is as it was.                        *)
LEMMA MovesOne ==
  ASSUME StudioInv, NEW p \in Tabs, NEW h \in PageType, NEW a \in Acts, NEW d \in CallType,
         Moves(p, h, a, d)
  PROVE  /\ page' \in [Tabs -> PageType] /\ call' \in [Acts -> CallType]
         /\ acts' \in 0..MaxActs /\ mishaps' \in 0..MaxStudioFaults
         /\ Pages' /\ Asks'
         /\ page'[p] = h /\ call'[a] = d
         /\ \A q \in Tabs \ {p} : page'[q] = page[q]
         /\ \A b \in Acts \ {a} : call'[b] = call[b]
  <1>1. /\ page' \in [Tabs -> PageType] /\ page'[p] = h
        /\ \A q \in Tabs \ {p} : page'[q] = page[q]
    BY TabState DEF Moves
  <1>2. /\ call' \in [Acts -> CallType] /\ call'[a] = d
        /\ \A b \in Acts \ {a} : call'[b] = call[b]
    BY ActState DEF Moves
  <1>3. acts \in 0..MaxActs /\ acts \in Nat /\ a \in 1..MaxActs /\ a \in Nat
    BY RestState, ActState, StudioAssumption DEF Acts
  <1>4. acts' = acts \/ (acts' = acts + 1 /\ a = acts + 1)
    BY DEF Moves, Owns
  <1>5. acts' \in 0..MaxActs /\ acts' \in Nat /\ acts' >= acts
    BY <1>3, <1>4, StudioAssumption
  <1>6. d = call[a] \/ d.by = p
    BY DEF Moves, Owns
  <1>7. d # call[a] => call[a].by = p \/ a > acts
    BY <1>3 DEF Moves, Owns
  <1>8. \A q \in Tabs \ {p}, b \in Acts : Idle(q, b, call, acts, envelopes, mishaps)
          => Idle(q, b, call', acts', envelopes', mishaps')
    <2> SUFFICES ASSUME NEW q \in Tabs \ {p}, NEW b \in Acts,
                        Idle(q, b, call, acts, envelopes, mishaps)
                 PROVE  Idle(q, b, call', acts', envelopes', mishaps')
      OBVIOUS
    <2>1. CASE a # b
      BY <1>4, <1>5, <2>1, IdleStays DEF Moves
    <2>2. CASE a = b /\ d = call[a] /\ UNCHANGED <<acts, envelopes>>
      BY <1>2, <2>2 DEF Idle, Moves
    <2>3. CASE a = b /\ Owns(p, a, d)
      <3>1. a <= acts /\ call[a].by = q
        BY <2>3 DEF Idle
      <3>2. ~(a = acts + 1)
        BY <1>3, <3>1
      <3> QED
        BY <2>3, <3>1, <3>2 DEF Owns
    <2> QED
      BY <2>1, <2>2, <2>3 DEF Moves
  <1>9. Pages'
    <2> SUFFICES ASSUME NEW q \in Tabs
                 PROVE  /\ Composed(q, page'[q])
                        /\ Ready(q, page'[q], call', acts', envelopes', mishaps')
      BY DEF Pages
    <2>1. CASE q = p
      BY <1>1, <2>1 DEF Moves
    <2>2. CASE q # p
      <3>1. Composed(q, page[q]) /\ Ready(q, page[q], call, acts, envelopes, mishaps)
        BY TabState
      <3>2. page[q].mount <= acts'
        <4>1. page[q].mount \in Nat /\ page[q].mount <= acts
          BY <3>1, TabState, StudioAssumption DEF Ready, PageType
        <4> QED
          BY <1>3, <1>5, <4>1
      <3>3. page[q].phase = "away" =>
              /\ page[q].mount \in Acts /\ call'[page[q].mount].by = q
              /\ call'[page[q].mount].pc = "none"
                   => Idle(q, page[q].mount, call', acts', envelopes', mishaps')
        <4> SUFFICES ASSUME page[q].phase = "away"
                     PROVE  /\ page[q].mount \in Acts /\ call'[page[q].mount].by = q
                            /\ call'[page[q].mount].pc = "none"
                                 => Idle(q, page[q].mount, call', acts', envelopes', mishaps')
          OBVIOUS
        <4> DEFINE m == page[q].mount
        <4>1. m \in Acts /\ call[m].by = q /\ m <= acts
          BY <3>1 DEF Ready
        <4>2. m = a => d = call[a]
          <5>1. m = a => ~(a > acts)
            BY <1>3, <4>1
          <5> QED
            BY <1>7, <2>2, <4>1, <5>1
        <4>3. call'[m] = call[m]
          BY <1>2, <4>1, <4>2
        <4> QED
          BY <1>8, <2>2, <3>1, <4>1, <4>3 DEF Ready
      <3>4. /\ page[q].held # 0 /\ ~page[q].fired =>
                 Idle(q, page[q].turn, call', acts', envelopes', mishaps')
                   /\ page[q].turn # page[q].mount
            /\ page[q].claims => /\ Idle(q, page[q].mount, call', acts', envelopes', mishaps')
                                 /\ page[q].phase \notin {"closed", "away", "sent"}
        BY <1>8, <2>2, <3>1 DEF Ready, Idle
      <3> QED
        BY <1>1, <2>2, <3>1, <3>2, <3>3, <3>4 DEF Ready
    <2> QED
      BY <2>1, <2>2
  <1>10. Asks'
    <2> SUFFICES ASSUME NEW b \in Acts
                 PROVE  /\ Asked(b, call'[b], acts', envelopes', mishaps')
                        /\ Hears(b)' => Heard(page'[call'[b].by], call'[b], b)
      BY DEF Asks
    <2>1. Asked(b, call'[b], acts', envelopes', mishaps')
      <3>1. CASE b = a
        <4>1. Asked(a, call[a], acts, envelopes, mishaps)
          BY ActState
        <4> QED
          BY <1>2, <3>1, <4>1 DEF Moves, Asked
      <3>2. CASE b # a
        <4>1. Asked(b, call[b], acts, envelopes, mishaps) /\ b \in Nat
          BY ActState
        <4>2. b > acts' => b > acts
          BY <1>3, <1>5, <4>1
        <4>3. \A x \in envelopes' : x.act = b => x \in envelopes
          BY <3>2 DEF Moves
        <4> QED
          BY <1>2, <3>2, <4>1, <4>2, <4>3 DEF Moves, Asked
      <3> QED
        BY <3>1, <3>2
    <2>2. ASSUME Hears(b)' PROVE Heard(page'[call'[b].by], call'[b], b)
      <3>1. page'[call'[b].by].phase \in Hearing /\ b >= page'[call'[b].by].mount
        BY <2>2 DEF Hears, Hearing
      <3>2. CASE call'[b].by = p
        BY <1>1, <3>1, <3>2 DEF Moves
      <3>3. CASE call'[b].by # p
        <4>1. call'[b] = call[b] /\ call'[b].by \in Tabs \ {p}
          BY <1>2, <1>6, <3>3, ActState DEF CallType
        <4>2. page'[call'[b].by] = page[call[b].by]
          BY <1>1, <4>1
        <4>3. Hears(b)
          BY <3>1, <4>1, <4>2 DEF Hears, Hearing
        <4> QED
          BY <4>1, <4>2, <4>3, ActState
      <3> QED
        BY <3>2, <3>3
    <2> QED
      BY <2>1, <2>2
  <1> QED
    BY <1>1, <1>2, <1>5, <1>9, <1>10 DEF Moves

(* Tab p, which comes to show h, stores nothing, or the version it holds.   *)
Stores(p, h) ==
  \/ /\ UNCHANGED pending
     /\ h.stored \in {0} \cup pending.saved \/ h.behind
     /\ h.text # 0 /\ ~h.handle => pending.st = "none"
  \/ \E v \in 1..MaxVersions :
       /\ pending' = Holding(v) /\ (pending.st = "held" \/ (pending.st = "none" /\ p = "composer"))
       /\ h.stored \in {0, v} \cup pending.saved \/ h.behind
       /\ h.text # 0 => h.handle

(* Nothing the step does makes the claim's business another's.              *)
NoClaim(a, d) == d = call[a] \/ ~({d.pc, call[a].pc} \cap {"claimed", "made"} # {})

(* Before the first edit a step may leave the editor or look for a session. *)
StillUnwritten(p, h) ==
  /\ UNCHANGED <<latest, acts, link, pending>> /\ h.text = 0 /\ ~h.reads
  /\ p = "landing" => h.phase = "closed"

LEMMA StoresKeeps ==
  ASSUME StudioInv, NEW p \in Tabs, NEW h \in PageType, Stores(p, h),
         page' = [page EXCEPT ![p] = h]
  PROVE  /\ pending' \in PendingType /\ (pending'.st = "receipt" => pending'.v = 0)
         /\ Drafts'
  <1>1. /\ pending \in PendingType /\ (pending.st = "receipt" => pending.v = 0)
        /\ pending.st \in {"held", "claimed"} => pending.v # 0
        /\ pending.v \in {0} \cup pending.saved
    BY RestState DEF StudioInv, Drafts
  <1>2. page'[p] = h /\ \A q \in Tabs \ {p} : page'[q] = page[q]
    BY TabState
  <1>3. \A q \in Tabs : /\ page[q].stored \in {0} \cup pending.saved \/ page[q].behind
                        /\ page[q].text # 0 /\ ~page[q].handle => pending.st = "none"
                        /\ Composed(q, page[q])
    BY TabState
  <1>4. CASE /\ UNCHANGED pending
             /\ h.stored \in {0} \cup pending.saved \/ h.behind
             /\ h.text # 0 /\ ~h.handle => pending.st = "none"
    BY <1>1, <1>2, <1>3, <1>4 DEF Drafts
  <1>5. ASSUME NEW v \in 1..MaxVersions, pending' = Holding(v),
               pending.st = "held" \/ (pending.st = "none" /\ p = "composer"),
               h.stored \in {0, v} \cup pending.saved \/ h.behind,
               h.text # 0 => h.handle
        PROVE  pending' \in PendingType /\ (pending'.st = "receipt" => pending'.v = 0) /\ Drafts'
    <2>1. v \in Version /\ v # 0
      BY StudioAssumption DEF Version
    <2>2. pending'.st = "held" /\ pending'.v = v /\ pending'.saved = pending.saved \cup {v}
      BY <1>5, <2>1 DEF Holding
    <2>3. pending' \in PendingType
      BY <1>1, <1>5, <2>1 DEF Holding, PendingType
    <2>4. \A q \in Tabs : page'[q].stored \in {0} \cup pending'.saved \/ page'[q].behind
      BY <1>2, <1>3, <1>5, <2>2
    <2>5. \A q \in Tabs : page'[q].text # 0 => page'[q].handle
      <3>1. \A q \in Tabs \ {p} : page[q].text # 0 => page[q].handle
        BY <1>3, <1>5 DEF Composed, Tabs
      <3> QED
        BY <1>2, <1>5, <3>1
    <2> QED
      BY <2>1, <2>2, <2>3, <2>4, <2>5 DEF Drafts
  <1> QED
    BY <1>4, <1>5 DEF Stores

LEMMA ClaimKeeps ==
  ASSUME StudioInv, NEW p \in Tabs, NEW h \in PageType, Stores(p, h),
         NEW a \in Acts, NEW d \in CallType, NoClaim(a, d),
         call' = [call EXCEPT ![a] = d], UNCHANGED envelopes
  PROVE  ClaimedOnce'
  <1>1. call'[a] = d /\ \A b \in Acts \ {a} : call'[b] = call[b]
    BY ActState
  <1>2. \A b \in Acts : /\ Claiming(b)' <=> Claiming(b)
                        /\ Claiming(b) => call'[b] = call[b]
    BY <1>1 DEF Claiming, NoClaim
  <1>3. ClaimedOnce /\ Claims' = Claims
    BY DEF StudioInv, Claims
  <1>4. \A b \in Acts : /\ call'[b].pc = "claimed" <=> call[b].pc = "claimed"
                        /\ call'[b].pc = "made" <=> call[b].pc = "made"
    BY <1>2 DEF Claiming
  <1>5. CASE UNCHANGED pending
    BY <1>2, <1>3, <1>4, <1>5 DEF ClaimedOnce
  <1>6. CASE pending.st \in {"held", "none"} /\ pending'.st = "held"
    <2>1. \A b \in Acts : ~Claiming(b)
      BY <1>3, <1>6 DEF ClaimedOnce
    <2>2. Claims = {}
      BY <1>3, <1>6, <2>1 DEF ClaimedOnce, Claiming
    <2> QED
      BY <1>2, <1>3, <1>4, <2>1, <2>2 DEF ClaimedOnce, Claiming
  <1> QED
    BY <1>5, <1>6 DEF Stores, Holding

(* What a tab does, and an answer to it.                                    *)
LEMMA PageStep ==
  ASSUME StudioInv, NEW p \in Tabs, NEW h \in PageType, NEW a \in Acts, NEW d \in CallType,
         Moves(p, h, a, d), Stores(p, h), NoClaim(a, d),
         UNCHANGED <<envelopes, shared>>, latest' \in Version,
         link' \in {"none", "sent", "spent"}, cookies' \subseteq {"here", "there"},
         mishaps' = 0 /\ h.allow => h.phase = "away",
         latest' # 0 \/ StillUnwritten(p, h)
  PROVE  StudioInv'
  <1>1. /\ page' \in [Tabs -> PageType] /\ call' \in [Acts -> CallType]
        /\ acts' \in 0..MaxActs /\ mishaps' \in 0..MaxStudioFaults
        /\ Pages' /\ Asks'
        /\ page'[p] = h /\ \A q \in Tabs \ {p} : page'[q] = page[q]
    BY MovesOne
  <1>2. /\ pending' \in PendingType /\ (pending'.st = "receipt" => pending'.v = 0)
        /\ Drafts'
    BY StoresKeeps DEF Moves
  <1>3. ClaimedOnce'
    BY ClaimKeeps DEF Moves
  <1>4. StudioTypeOK' /\ IsFiniteSet(envelopes)'
    BY <1>1, <1>2, RestState DEF StudioTypeOK, PendingType, EnvelopeType
  <1>5. LetGo'
    BY <1>1 DEF LetGo, StudioInv, Moves
  <1>6. Unwritten'
    <2>1. CASE latest' # 0
      BY <2>1 DEF Unwritten
    <2>2. CASE StillUnwritten(p, h)
      <3>1. "landing" \in Tabs /\ (p # "landing" => page'["landing"] = page["landing"])
        BY <1>1 DEF Tabs
      <3>2. Unwritten
        BY DEF StudioInv
      <3> QED
        BY <1>1, <2>2, <3>1, <3>2 DEF Unwritten, StillUnwritten
    <2> QED
      BY <2>1, <2>2
  <1> QED
    BY <1>1, <1>2, <1>3, <1>4, <1>5, <1>6 DEF StudioInv

-----------------------------------------------------------------------------
(* A page that goes on hears what it heard.                                 *)
LEMMA Continues ==
  ASSUME StudioInv, NEW p \in Tabs, NEW h, page[p].phase \in Hearing,
         h.mount = page[p].mount, h.restored = page[p].restored,
         h.text = page[p].text \/ h.text # 0,
         h.phase = "away" => page[p].phase = "away",
         NEW b \in Acts, call[b].by = p, b >= h.mount
  PROVE  Heard(h, call[b], b)
  BY ActState DEF Heard, Hears, Hearing

(* A tab that starts nothing.                                               *)
LEMMA Still ==
  ASSUME StudioInv, NEW p \in Tabs, NEW h \in PageType, page' = [page EXCEPT ![p] = h],
         UNCHANGED <<call, acts, envelopes, mishaps>>, Composed(p, h),
         Ready(p, h, call, acts, envelopes, mishaps),
         \A b \in Acts : call[b].by = p /\ h.phase \in Hearing /\ b >= h.mount
                           => Heard(h, call[b], b)
  PROVE  1 \in Acts /\ call[1] \in CallType /\ Moves(p, h, 1, call[1]) /\ NoClaim(1, call[1])
  <1>1. 1 \in Acts
    BY StudioAssumption DEF Acts
  <1>2. call[1] \in CallType /\ call' = [call EXCEPT ![1] = call[1]]
    BY <1>1, ActState
  <1>3. mishaps' \in 0..MaxStudioFaults
    BY RestState
  <1> QED
    BY <1>1, <1>2, <1>3 DEF Moves, NoClaim

(* The acts that wait are not the one that moves.                           *)
LEMMA Undisturbed ==
  ASSUME StudioInv, NEW a \in Acts, NEW d, call[a].pc # "none" \/ a > acts,
         call' = [call EXCEPT ![a] = d], acts' \in Nat, acts' = acts \/ acts' = acts + 1,
         \A x \in envelopes' \ envelopes : x.act = a,
         mishaps' = 0 => mishaps = 0
  PROVE  \A q \in Tabs, b \in Acts : Idle(q, b, call, acts, envelopes, mishaps)
           => b # a /\ Idle(q, b, call', acts', envelopes', mishaps')
  <1> SUFFICES ASSUME NEW q \in Tabs, NEW b \in Acts, Idle(q, b, call, acts, envelopes, mishaps)
               PROVE  b # a /\ Idle(q, b, call', acts', envelopes', mishaps')
    OBVIOUS
  <1>1. b # a
    <2>1. a \in Nat /\ b \in Nat /\ acts \in Nat /\ b <= acts /\ call[b].pc = "none"
      BY ActState DEF Idle
    <2> QED
      BY <2>1
  <1> QED
    BY <1>1, IdleStays

(* An act that has come to something, of which its tab shows nothing.       *)
LEMMA CallStep ==
  ASSUME StudioInv, NEW a \in Acts, NEW d \in CallType, call[a].pc # "none",
         d.by = call[a].by, call' = [call EXCEPT ![a] = d], UNCHANGED <<page, acts>>,
         envelopes \subseteq envelopes', \A x \in envelopes' \ envelopes : x.act = a,
         mishaps' \in 0..MaxStudioFaults, mishaps' = 0 => mishaps = 0,
         Asked(a, d, acts, envelopes', mishaps'),
         Hears(a) => Heard(page[call[a].by], d, a),
         d.pc = "none" => page[call[a].by].phase # "away" \/ a # page[call[a].by].mount
  PROVE  Moves(call[a].by, page[call[a].by], a, d)
  <1> DEFINE p == call[a].by
  <1>1. p \in Tabs /\ a <= acts /\ acts \in Nat /\ page \in [Tabs -> PageType]
        /\ call \in [Acts -> CallType]
    BY ActState, TabState
  <1>2. page' = [page EXCEPT ![p] = page[p]]
    BY <1>1
  <1>3. Composed(p, page[p]) /\ Ready(p, page[p], call, acts, envelopes, mishaps)
    BY <1>1, TabState
  <1>4. \A b \in Acts : Idle(p, b, call, acts, envelopes, mishaps)
          => b # a /\ Idle(p, b, call', acts', envelopes', mishaps')
    BY <1>1, Undisturbed
  <1>5. page[p].phase = "away" =>
          /\ page[p].mount \in Acts /\ call'[page[p].mount].by = p
          /\ call'[page[p].mount].pc = "none"
               => Idle(p, page[p].mount, call', acts', envelopes', mishaps')
    BY <1>1, <1>3, <1>4 DEF Ready
  <1>6. Ready(p, page[p], call', acts', envelopes', mishaps')
    <2>1. /\ page[p].held # 0 /\ ~page[p].fired =>
               Idle(p, page[p].turn, call', acts', envelopes', mishaps')
                 /\ page[p].turn # page[p].mount
          /\ page[p].claims => /\ Idle(p, page[p].mount, call', acts', envelopes', mishaps')
                               /\ page[p].phase \notin {"closed", "away", "sent"}
      BY <1>3, <1>4 DEF Ready, Idle
    <2> QED
      BY <1>3, <1>5, <2>1 DEF Ready
  <1>7. \A b \in Acts : call'[b].by = p /\ page[p].phase \in Hearing /\ b >= page[p].mount
          => Heard(page[p], call'[b], b)
    <2> SUFFICES ASSUME NEW b \in Acts, call'[b].by = p, page[p].phase \in Hearing,
                        b >= page[p].mount
                 PROVE  Heard(page[p], call'[b], b)
      OBVIOUS
    <2>1. CASE b = a
      BY <1>1, <2>1 DEF Hears, Hearing
    <2>2. CASE b # a
      BY <1>1, <2>2, ActState DEF Hears, Hearing
    <2> QED
      BY <2>1, <2>2
  <1> QED
    BY <1>1, <1>2, <1>3, <1>6, <1>7 DEF Moves, Owns

-----------------------------------------------------------------------------
(* The steps of a tab. *)
LEMMA EditKeeps ==
  ASSUME StudioInv, NEW p \in Tabs, Edit(p)
  PROVE  StudioInv'
  <1> DEFINE g == page[p]
             h == [g EXCEPT !.text = latest + 1]
  <1>1. /\ g \in PageType /\ Composed(p, g)
        /\ Ready(p, g, call, acts, envelopes, mishaps)
        /\ g.stored \in {0} \cup pending.saved \/ g.behind
        /\ g.text # 0 /\ ~g.handle => pending.st = "none"
        /\ mishaps = 0 /\ g.allow => g.phase = "away"
        /\ g.text # 0 \/ g.reads => latest # 0
    BY TabState
  <1>2. latest \in Version /\ latest + 1 \in Version /\ latest + 1 # 0
    BY RestState, StudioAssumption DEF Edit, Version
  <1>3. h \in PageType
    BY <1>1, <1>2 DEF PageType
  <1>4. /\ h.text = latest + 1 /\ h.phase = "form" /\ g.phase = "form"
        /\ h.stored = g.stored /\ h.held = g.held /\ h.turn = g.turn /\ h.handle = g.handle
        /\ h.restored = g.restored /\ h.reads = g.reads /\ h.claims = g.claims
        /\ h.fired = g.fired /\ h.allow = g.allow /\ h.mount = g.mount /\ h.behind = g.behind
    BY <1>1 DEF PageType, Edit
  <1>5. page' = [page EXCEPT ![p] = h]
    BY DEF Edit, Shows
  <1>6. latest = 0 => pending.st = "none" /\ page["landing"].phase = "closed"
    BY DEF StudioInv, Unwritten
  <1>7. latest = 0 \/ g.text # 0
    BY DEF Edit
  <1> HIDE DEF g, h
  <1>8. p = "landing" => latest # 0
    BY <1>4, <1>6 DEF g
  <1>9. Composed(p, h)
    BY <1>1, <1>2, <1>4, <1>7, <1>8 DEF Composed, Hearing
  <1>10. Ready(p, h, call, acts, envelopes, mishaps)
    BY <1>1, <1>4 DEF Ready
  <1>11. \A b \in Acts : call[b].by = p /\ h.phase \in Hearing /\ b >= h.mount
           => Heard(h, call[b], b)
    BY <1>2, <1>4, Continues DEF g, Hearing
  <1>12. 1 \in Acts /\ call[1] \in CallType /\ Moves(p, h, 1, call[1]) /\ NoClaim(1, call[1])
    BY <1>3, <1>5, <1>9, <1>10, <1>11, Still DEF Edit
  <1>13. Stores(p, h)
    BY <1>1, <1>4, <1>6, <1>7 DEF Stores, Edit
  <1>14. latest' \in Version /\ latest' # 0
    BY <1>2 DEF Edit
  <1> QED
    BY <1>1, <1>3, <1>4, <1>12, <1>13, <1>14, PageStep, RestState DEF Edit

LEMMA BackKeeps ==
  ASSUME StudioInv, NEW p \in Tabs, BackToForm(p)
  PROVE  StudioInv'
  <1> DEFINE g == page[p]
             h == OffGate(g, "form")
  <1>1. /\ g \in PageType /\ Composed(p, g)
        /\ Ready(p, g, call, acts, envelopes, mishaps)
        /\ g.stored \in {0} \cup pending.saved \/ g.behind
        /\ g.text # 0 /\ ~g.handle => pending.st = "none"
        /\ mishaps = 0 /\ g.allow => g.phase = "away"
        /\ g.text # 0 \/ g.reads => latest # 0
    BY TabState
  <1>2. g.phase = "gate"
    BY DEF BackToForm
  <1>3. h \in PageType
    BY <1>1 DEF PageType, OffGate, Phases
  <1>4. /\ h.text = g.text /\ h.phase = "form"
        /\ h.stored = g.stored /\ h.held = g.held /\ h.turn = g.turn /\ h.handle = g.handle
        /\ h.restored = g.restored /\ h.reads = g.reads /\ h.claims = g.claims
        /\ h.fired = g.fired /\ h.allow = g.allow /\ h.mount = g.mount /\ h.behind = g.behind
    BY <1>1 DEF PageType, OffGate
  <1>5. page' = [page EXCEPT ![p] = h]
    BY DEF BackToForm, Shows
  <1> HIDE DEF g, h
  <1>6. Composed(p, h) /\ latest # 0
    BY <1>1, <1>2, <1>4 DEF Composed, Hearing
  <1>7. Ready(p, h, call, acts, envelopes, mishaps)
    BY <1>1, <1>2, <1>4 DEF Ready
  <1>8. \A b \in Acts : call[b].by = p /\ h.phase \in Hearing /\ b >= h.mount
           => Heard(h, call[b], b)
    BY <1>2, <1>4, Continues DEF g, Hearing
  <1>9. 1 \in Acts /\ call[1] \in CallType /\ Moves(p, h, 1, call[1]) /\ NoClaim(1, call[1])
    BY <1>3, <1>5, <1>6, <1>7, <1>8, Still DEF BackToForm
  <1>10. Stores(p, h)
    BY <1>1, <1>4 DEF Stores, BackToForm
  <1> QED
    BY <1>1, <1>2, <1>3, <1>4, <1>6, <1>9, <1>10, PageStep, RestState DEF BackToForm

LEMMA SeeKeeps ==
  ASSUME StudioInv, NEW p \in Tabs, SeeSession(p)
  PROVE  StudioInv'
  <1> DEFINE g == page[p]
             h == [g EXCEPT !.user = ~@]
  <1>1. /\ g \in PageType /\ Composed(p, g)
        /\ Ready(p, g, call, acts, envelopes, mishaps)
        /\ g.stored \in {0} \cup pending.saved \/ g.behind
        /\ g.text # 0 /\ ~g.handle => pending.st = "none"
        /\ mishaps = 0 /\ g.allow => g.phase = "away"
        /\ g.text # 0 \/ g.reads => latest # 0
    BY TabState
  <1>2. g.phase \in {"form", "gate"}
    BY DEF SeeSession
  <1>3. h \in PageType
    <2>1. (~g.user) \in BOOLEAN
      OBVIOUS
    <2> QED
      BY <1>1, <2>1 DEF PageType
  <1>4. /\ h.text = g.text /\ h.phase = g.phase
        /\ h.stored = g.stored /\ h.held = g.held /\ h.turn = g.turn /\ h.handle = g.handle
        /\ h.restored = g.restored /\ h.reads = g.reads /\ h.claims = g.claims
        /\ h.fired = g.fired /\ h.allow = g.allow /\ h.mount = g.mount /\ h.behind = g.behind
    BY <1>1 DEF PageType
  <1>5. page' = [page EXCEPT ![p] = h]
    BY DEF SeeSession, Shows
  <1>6. latest = 0 => page["landing"].phase = "closed"
    BY DEF StudioInv, Unwritten
  <1> HIDE DEF g, h
  <1>7. Composed(p, h)
    BY <1>1, <1>2, <1>4 DEF Composed, Hearing
  <1>8. Ready(p, h, call, acts, envelopes, mishaps)
    BY <1>1, <1>2, <1>4 DEF Ready
  <1>9. \A b \in Acts : call[b].by = p /\ h.phase \in Hearing /\ b >= h.mount
           => Heard(h, call[b], b)
    BY <1>2, <1>4, Continues DEF g, Hearing
  <1>10. 1 \in Acts /\ call[1] \in CallType /\ Moves(p, h, 1, call[1]) /\ NoClaim(1, call[1])
    BY <1>3, <1>5, <1>7, <1>8, <1>9, Still DEF SeeSession
  <1>11. Stores(p, h)
    BY <1>1, <1>4 DEF Stores, SeeSession
  <1>12. latest = 0 => StillUnwritten(p, h)
    BY <1>1, <1>2, <1>4, <1>6 DEF StillUnwritten, SeeSession, g
  <1> QED
    BY <1>1, <1>2, <1>3, <1>4, <1>10, <1>11, <1>12, PageStep, RestState DEF SeeSession

(* What is left of a page, and what a new one starts from.                  *)
LEMMA BlankPages ==
  ASSUME NEW g \in PageType
  PROVE  /\ Blank \in PageType /\ Over(g) \in PageType
         /\ \A h \in {Blank, Over(g)} :
              /\ h.text = 0 /\ h.stored = 0 /\ h.held = 0
              /\ ~h.handle /\ ~h.reads /\ ~h.restored /\ ~h.allow
         /\ Blank.mount = 0 /\ Blank.phase = "closed" /\ ~Blank.claims
         /\ Over(g).mount = g.mount /\ Over(g).phase = "elsewhere" /\ Over(g).claims = g.claims
  <1>1. Blank \in PageType
    BY StudioAssumption DEF Blank, PageType, Version, Phases
  <1>2. /\ Blank.text = 0 /\ Blank.stored = 0 /\ Blank.held = 0
        /\ ~Blank.handle /\ ~Blank.reads /\ ~Blank.restored /\ ~Blank.allow
        /\ Blank.mount = 0 /\ Blank.phase = "closed" /\ ~Blank.claims
    BY DEF Blank
  <1> DEFINE h == Over(g)
  <1>3. h \in PageType
    <2>1. "elsewhere" \in Phases /\ g.claims \in BOOLEAN /\ g.user \in BOOLEAN
          /\ g.mount \in 0..MaxActs
      BY DEF PageType, Phases
    <2> QED
      BY <1>1, <2>1 DEF Over, PageType
  <1>4. /\ h.text = Blank.text /\ h.stored = Blank.stored /\ h.held = Blank.held
        /\ h.handle = Blank.handle /\ h.reads = Blank.reads
        /\ h.restored = Blank.restored /\ h.allow = Blank.allow
        /\ h.mount = g.mount /\ h.phase = "elsewhere" /\ h.claims = g.claims
    BY <1>1 DEF Over, PageType
  <1> HIDE DEF h
  <1> QED
    BY <1>1, <1>2, <1>3, <1>4 DEF h

(* A page that ends shows nothing more of the draft.                        *)
LEMMA EndsKeep ==
  ASSUME StudioInv, NEW p \in Tabs, NEW h \in PageType,
         h = Blank \/ (h = Over(page[p]) /\ page[p].phase = "gate")
                   \/ (page[p].reads /\ h = Over([page[p] EXCEPT !.reads = FALSE])),
         page' = [page EXCEPT ![p] = h],
         UNCHANGED <<call, acts, pending, envelopes, cookies, shared, link, latest, mishaps>>
  PROVE  StudioInv'
  <1> DEFINE g == page[p]
  <1>1. /\ g \in PageType /\ Composed(p, g)
        /\ Ready(p, g, call, acts, envelopes, mishaps)
        /\ g.text # 0 \/ g.reads => latest # 0
    BY TabState
  <1>2. /\ h.phase \in {"closed", "elsewhere"} /\ h.text = 0 /\ h.stored = 0 /\ h.held = 0
        /\ ~h.handle /\ ~h.reads /\ ~h.restored /\ ~h.allow
        /\ h.mount = g.mount \/ h.mount = 0
        /\ h.claims => g.claims /\ h.mount = g.mount /\ h.phase = "elsewhere"
        /\ h.phase = "elsewhere" => g.text # 0 \/ g.reads
    <2>1. g.phase = "gate" => g.text # 0
      BY <1>1 DEF Composed
    <2>2. CASE h = Blank
      BY <1>1, <2>2, BlankPages
    <2>3. CASE h = Over(g) /\ g.phase = "gate"
      BY <1>1, <2>1, <2>3, BlankPages
    <2>4. CASE g.reads /\ h = Over([g EXCEPT !.reads = FALSE])
      <3> DEFINE f == [g EXCEPT !.reads = FALSE]
      <3>1. f \in PageType /\ f.mount = g.mount /\ f.claims = g.claims
        BY <1>1 DEF PageType
      <3> HIDE DEF f
      <3>2. h = Over(f)
        BY <2>4 DEF f
      <3> QED
        BY <2>4, <3>1, <3>2, BlankPages
    <2> QED
      BY <2>2, <2>3, <2>4
  <1>3. acts \in Nat
    BY RestState, StudioAssumption
  <1> HIDE DEF g
  <1>4. Composed(p, h)
    BY <1>2 DEF Composed, Hearing
  <1>5. Ready(p, h, call, acts, envelopes, mishaps)
    <2>1. h.mount <= acts
      <3>1. g.mount <= acts
        BY <1>1 DEF Ready
      <3>2. 0 <= acts
        BY <1>3
      <3> QED
        BY <1>2, <3>1, <3>2
    <2> QED
      BY <1>1, <1>2, <2>1 DEF Ready
  <1>6. h.phase \notin Hearing
    BY <1>2 DEF Hearing
  <1>7. 1 \in Acts /\ call[1] \in CallType /\ Moves(p, h, 1, call[1]) /\ NoClaim(1, call[1])
    BY <1>4, <1>5, <1>6, Still
  <1>8. Stores(p, h)
    BY <1>2 DEF Stores
  <1>9. latest = 0 => StillUnwritten(p, h)
    BY <1>1, <1>2 DEF StillUnwritten
  <1> QED
    BY <1>2, <1>7, <1>8, <1>9, PageStep, RestState

LEMMA WatchKeeps ==
  ASSUME StudioInv, NEW p \in Tabs, WatchDraft(p)
  PROVE  StudioInv'
  <1>1. page[p] \in PageType
    BY TabState
  <1>2. Over(page[p]) \in PageType
    BY <1>1, BlankPages
  <1> QED
    BY <1>2, EndsKeep DEF WatchDraft, Watches, Shows

LEMMA LeaveKeeps ==
  ASSUME StudioInv, NEW p \in Tabs, LeaveSilently(p)
  PROVE  StudioInv'
  <1>1. Blank \in PageType
    BY TabState, BlankPages
  <1> QED
    BY <1>1, EndsKeep DEF LeaveSilently, Shows

LEMMA RestoreKeeps ==
  ASSUME StudioInv, NEW p \in Tabs, RestoreDraft(p)
  PROVE  StudioInv'
  <1> DEFINE g == page[p]
             f == [g EXCEPT !.reads = FALSE]
  <1>1. /\ g \in PageType /\ Composed(p, g)
        /\ Ready(p, g, call, acts, envelopes, mishaps)
        /\ g.stored \in {0} \cup pending.saved \/ g.behind
        /\ mishaps = 0 /\ g.allow => g.phase = "away"
        /\ g.text # 0 \/ g.reads => latest # 0
    BY TabState
  <1>2. g.reads /\ latest # 0 /\ pending \in PendingType
    BY <1>1, RestState DEF RestoreDraft
  <1>3. f \in PageType
    BY <1>1 DEF PageType
  <1>4. CASE pending.st = "receipt" /\ Shows(p, Over(f))
    <2>1. Over(f) \in PageType
      BY <1>3, BlankPages
    <2> QED
      BY <1>2, <1>4, <2>1, EndsKeep DEF RestoreDraft, Shows
  <1>5. ASSUME NEW h \in PageType, Shows(p, h), ~h.reads, h.phase = g.phase,
               h.held = g.held, h.turn = g.turn, h.claims = g.claims, h.fired = g.fired,
               h.allow = g.allow, h.mount = g.mount, h.behind = g.behind,
               \/ /\ h.restored /\ h.handle /\ h.text = pending.v /\ h.stored = pending.v
                  /\ pending.st \in {"held", "claimed"}
               \/ /\ ~h.restored /\ ~h.handle /\ h.text = 0 /\ h.stored = g.stored
        PROVE  StudioInv'
    <2>1. /\ pending.st \in {"held", "claimed"} => pending.v # 0
          /\ pending.v \in {0} \cup pending.saved
      BY DEF StudioInv, Drafts
    <2>2. g.handle /\ ~g.restored /\ g.text = 0 /\ g.held = 0
      BY <1>1, <1>2 DEF Composed
    <2>3. g.phase \in Hearing /\ g.phase \notin {"gate", "away"}
      BY <1>1, <1>2, <2>2 DEF Composed
    <2>4. Composed(p, h)
      BY <1>5, <2>1, <2>2, <2>3 DEF Composed
    <2>5. Ready(p, h, call, acts, envelopes, mishaps)
      BY <1>1, <1>5, <2>3 DEF Ready
    <2>6. \A b \in Acts : call[b].by = p /\ h.phase \in Hearing /\ b >= h.mount
            => Heard(h, call[b], b)
      <3> SUFFICES ASSUME NEW b \in Acts, call[b].by = p, b >= g.mount
                   PROVE  Heard(h, call[b], b)
        BY <1>5
      <3>1. Heard(g, call[b], b)
        BY <2>3, ActState DEF Hears, Hearing
      <3>2. call[b].pc \notin OfGuest \cup OfDraft
        BY <2>2, <3>1 DEF Heard
      <3> QED
        BY <1>5, <2>3, <3>2 DEF Heard
    <2>7. 1 \in Acts /\ call[1] \in CallType /\ Moves(p, h, 1, call[1]) /\ NoClaim(1, call[1])
      BY <1>5, <2>4, <2>5, <2>6, Still DEF RestoreDraft, Shows
    <2>8. Stores(p, h)
      BY <1>1, <1>5, <2>1 DEF Stores, RestoreDraft
    <2> QED
      BY <1>1, <1>2, <1>5, <2>7, <2>8, PageStep, RestState DEF RestoreDraft
  <1>6. CASE /\ pending.st \in {"held", "claimed"}
             /\ Shows(p, [f EXCEPT !.restored = TRUE, !.text = pending.v, !.stored = pending.v])
    <2> DEFINE h == [f EXCEPT !.restored = TRUE, !.text = pending.v, !.stored = pending.v]
    <2>1. pending.v \in Version
      BY <1>2 DEF PendingType
    <2>2. h \in PageType
      BY <1>3, <2>1 DEF PageType
    <2>3. /\ ~h.reads /\ h.phase = g.phase /\ h.held = g.held /\ h.turn = g.turn
          /\ h.claims = g.claims /\ h.fired = g.fired /\ h.allow = g.allow
          /\ h.mount = g.mount /\ h.behind = g.behind /\ h.restored /\ h.handle = g.handle
          /\ h.text = pending.v /\ h.stored = pending.v
      BY <1>1 DEF PageType
    <2>4. g.handle
      BY <1>1, <1>2 DEF Composed
    <2> HIDE DEF h, g
    <2> QED
      BY <1>5, <1>6, <2>2, <2>3, <2>4 DEF h
  <1>7. CASE Shows(p, [f EXCEPT !.handle = FALSE])
    <2> DEFINE h == [f EXCEPT !.handle = FALSE]
    <2>1. h \in PageType
      BY <1>3 DEF PageType
    <2>2. /\ ~h.reads /\ h.phase = g.phase /\ h.held = g.held /\ h.turn = g.turn
          /\ h.claims = g.claims /\ h.fired = g.fired /\ h.allow = g.allow
          /\ h.mount = g.mount /\ h.behind = g.behind /\ h.restored = g.restored
          /\ ~h.handle /\ h.text = g.text /\ h.stored = g.stored
      BY <1>1 DEF PageType
    <2>3. ~g.restored /\ g.text = 0
      BY <1>1, <1>2 DEF Composed
    <2> HIDE DEF h, g
    <2> QED
      BY <1>5, <1>7, <2>1, <2>2, <2>3 DEF h
  <1> QED
    BY <1>4, <1>6, <1>7 DEF RestoreDraft

(* What a page of the gate stores on its way to the link or the ceremony.   *)
LEMMA StoreIs ==
  ASSUME StudioInv, NEW p \in Tabs, NEW g \in PageType, Store(p, g),
         page[p].phase = "gate", g.text = page[p].text, g.held = page[p].held,
         g.handle = page[p].handle, g.stored = page[p].stored, g.behind = page[p].behind
  PROVE  \E h \in PageType :
           /\ page' = [page EXCEPT ![p] = h] /\ Stores(p, h) /\ h.handle
           /\ h.text = g.text /\ h.held = g.held /\ h.restored = g.restored
           /\ h.phase = g.phase /\ h.turn = g.turn /\ h.reads = g.reads
           /\ h.claims = g.claims /\ h.fired = g.fired /\ h.allow = g.allow
           /\ h.mount = g.mount
  <1>1. /\ Composed(p, page[p])
        /\ page[p].stored \in {0} \cup pending.saved \/ page[p].behind
        /\ page[p].text # 0 /\ ~page[p].handle => pending.st = "none"
    BY TabState
  <1>2. CASE g.handle
    <2>1. page' = [page EXCEPT ![p] = g] /\ UNCHANGED pending
      BY <1>2 DEF Store, Shows
    <2>2. Stores(p, g)
      BY <1>1, <1>2, <2>1 DEF Stores
    <2> QED
      BY <1>2, <2>1, <2>2
  <1>3. CASE ~g.handle
    <2> DEFINE w == (g.held # g.text)
               h == [g EXCEPT !.handle = TRUE, !.stored = g.text, !.behind = w]
    <2>1. w \in BOOLEAN
      OBVIOUS
    <2> HIDE DEF w
    <2>2. g.text \in Version /\ g.held \in Version
      BY DEF PageType
    <2>3. h \in PageType
      BY <2>1, <2>2 DEF PageType
    <2>4. /\ h.handle /\ h.stored = g.text /\ h.behind = w
          /\ h.text = g.text /\ h.held = g.held /\ h.restored = g.restored
          /\ h.phase = g.phase /\ h.turn = g.turn /\ h.reads = g.reads
          /\ h.claims = g.claims /\ h.fired = g.fired /\ h.allow = g.allow
          /\ h.mount = g.mount
      BY DEF PageType
    <2>5. page' = [page EXCEPT ![p] = h] /\ pending' = Holding(g.held)
      BY <1>3 DEF Store, Shows, w
    <2> HIDE DEF h
    <2>6. page[p].text # 0 /\ ~page[p].handle /\ ~page[p].restored /\ g.held # 0
      BY <1>1, <1>3 DEF Composed
    <2>7. p = "composer" /\ pending.st = "none"
      BY <1>1, <2>6 DEF Composed, Tabs
    <2>8. g.held \in 1..MaxVersions
      BY <2>2, <2>6, StudioAssumption DEF Version
    <2>9. h.stored \in {0, g.held} \cup pending.saved \/ h.behind
      BY <2>4 DEF w
    <2>10. Stores(p, h)
      BY <2>4, <2>5, <2>7, <2>8, <2>9 DEF Stores
    <2> QED
      BY <2>3, <2>4, <2>5, <2>10
  <1> QED
    BY <1>2, <1>3

LEMMA AskKeeps ==
  ASSUME StudioInv, NEW p \in Tabs, AskForLink(p)
  PROVE  StudioInv'
  <1> DEFINE g == page[p]
  <1>1. /\ g \in PageType /\ Composed(p, g)
        /\ Ready(p, g, call, acts, envelopes, mishaps)
        /\ mishaps = 0 /\ g.allow => g.phase = "away"
        /\ g.text # 0 \/ g.reads => latest # 0
    BY TabState
  <1>2. g.phase = "gate" /\ Store(p, g)
    BY DEF AskForLink, Waits
  <1>3. PICK h \in PageType :
           /\ page' = [page EXCEPT ![p] = h] /\ Stores(p, h) /\ h.handle
           /\ h.text = g.text /\ h.held = g.held /\ h.restored = g.restored
           /\ h.phase = g.phase /\ h.turn = g.turn /\ h.reads = g.reads
           /\ h.claims = g.claims /\ h.fired = g.fired /\ h.allow = g.allow
           /\ h.mount = g.mount
    BY <1>1, <1>2, StoreIs
  <1>4. Composed(p, h) /\ latest # 0
    BY <1>1, <1>2, <1>3 DEF Composed, Hearing
  <1>5. Ready(p, h, call, acts, envelopes, mishaps)
    BY <1>1, <1>2, <1>3 DEF Ready
  <1>6. \A b \in Acts : call[b].by = p /\ h.phase \in Hearing /\ b >= h.mount
          => Heard(h, call[b], b)
    BY <1>2, <1>3, Continues DEF Hearing
  <1>7. 1 \in Acts /\ call[1] \in CallType /\ Moves(p, h, 1, call[1]) /\ NoClaim(1, call[1])
    BY <1>3, <1>4, <1>5, <1>6, Still DEF AskForLink
  <1>8. link' \in {"none", "sent", "spent"}
    BY RestState DEF AskForLink
  <1> QED
    BY <1>1, <1>2, <1>3, <1>4, <1>7, <1>8, PageStep, RestState DEF AskForLink

(* A new act's number. *)
LEMMA NewAct ==
  ASSUME StudioInv, acts < MaxActs
  PROVE  /\ acts + 1 \in Acts /\ acts + 1 \in Nat /\ acts + 1 \in 0..MaxActs
         /\ acts + 1 > acts /\ ~(acts + 1 <= acts)
         /\ \A b \in Acts : b >= acts + 1 => call[b].pc = "none"
         /\ \A x \in envelopes : x.act # acts + 1
  <1>1. acts \in Nat /\ MaxActs \in Nat
    BY RestState, StudioAssumption
  <1>2. acts + 1 \in Acts /\ acts + 1 \in Nat /\ acts + 1 > acts /\ acts + 1 \in 0..MaxActs
        /\ ~(acts + 1 <= acts)
    BY <1>1 DEF Acts
  <1>3. \A b \in Acts : Asked(b, call[b], acts, envelopes, mishaps) /\ b \in Nat
    BY ActState
  <1>4. \A b \in Acts : b >= acts + 1 => b > acts
    BY <1>1, <1>3
  <1> QED
    BY <1>2, <1>3, <1>4 DEF Asked

(* A press or a resend: the page stays, and something is on its way.        *)
LEMMA PressStep ==
  ASSUME StudioInv, NEW p \in Tabs, NEW h \in PageType, NEW d \in CallType,
         Acts1(p, d.pc, d.v), d.by = p, d.pc \in OfGuest \cup OfDraft, d.v # 0,
         page[p].phase = "form", h.phase = "form", page[p].text # 0, h.text = page[p].text,
         h.held = page[p].held, h.turn = page[p].turn, h.handle = page[p].handle,
         h.stored = page[p].stored, h.behind = page[p].behind,
         h.restored = page[p].restored, h.reads = page[p].reads,
         h.claims = page[p].claims, h.fired = page[p].fired, h.allow = page[p].allow,
         h.mount = page[p].mount,
         d.pc \in OfGuest => ~h.restored, d.pc \in OfDraft => h.restored,
         page' = [page EXCEPT ![p] = h],
         UNCHANGED <<pending, envelopes, cookies, shared, link, latest, mishaps>>
  PROVE  StudioInv'
  <1> DEFINE g == page[p]
             a == acts + 1
  <1>1. /\ g \in PageType /\ Composed(p, g)
        /\ Ready(p, g, call, acts, envelopes, mishaps)
        /\ g.stored \in {0} \cup pending.saved \/ g.behind
        /\ g.text # 0 /\ ~g.handle => pending.st = "none"
        /\ mishaps = 0 /\ g.allow => g.phase = "away"
        /\ latest # 0
    BY TabState
  <1>2. /\ a \in Acts /\ a \in Nat /\ a > acts /\ ~(a <= acts)
        /\ \A b \in Acts : b >= a => call[b].pc = "none"
        /\ \A x \in envelopes : x.act # a
        /\ acts' = a
    BY NewAct DEF Acts1
  <1>3. call' = [call EXCEPT ![a] = d] /\ call \in [Acts -> CallType]
    <2>1. d = [pc |-> d.pc, by |-> p, v |-> d.v]
      BY DEF CallType
    <2> QED
      BY <1>2, <2>1, ActState DEF Acts1
  <1> HIDE DEF a
  <1>4. \A q \in Tabs, b \in Acts : Idle(q, b, call, acts, envelopes, mishaps)
          => b # a /\ Idle(q, b, call', acts', envelopes', mishaps')
    <2>1. acts' = acts + 1
      BY <1>2 DEF a
    <2> QED
      BY <1>2, <1>3, <2>1, Undisturbed
  <1>5. g.mount <= acts' /\ a # g.mount
    <2>1. g.mount \in Nat /\ g.mount <= acts /\ acts \in Nat
      BY <1>1, RestState, StudioAssumption DEF Ready, PageType
    <2> QED
      BY <1>2, <2>1
  <1>6. Composed(p, h)
    BY <1>1 DEF Composed, Hearing
  <1>7. Ready(p, h, call', acts', envelopes', mishaps')
    BY <1>1, <1>4, <1>5 DEF Ready, Idle
  <1>8. \A b \in Acts : call'[b].by = p /\ h.phase \in Hearing /\ b >= h.mount
          => Heard(h, call'[b], b)
    <2> SUFFICES ASSUME NEW b \in Acts, call'[b].by = p, b >= h.mount
                 PROVE  Heard(h, call'[b], b)
      OBVIOUS
    <2>1. CASE b = a
      BY <1>2, <1>3, <1>5, <2>1 DEF Heard
    <2>2. CASE b # a
      BY <1>3, <2>2, Continues DEF Hearing
    <2> QED
      BY <2>1, <2>2
  <1>9. Asked(a, d, acts', envelopes', mishaps')
    <2>1. ~(a > acts')
      BY <1>2
    <2> QED
      BY <1>2, <2>1 DEF Asked
  <1>10. Moves(p, h, a, d)
    <2>1. mishaps \in 0..MaxStudioFaults
      BY RestState
    <2>2. Owns(p, a, d)
      BY <1>2 DEF Owns, a
    <2> QED
      BY <1>3, <1>6, <1>7, <1>8, <1>9, <2>1, <2>2 DEF Moves
  <1>11. Stores(p, h)
    BY <1>1 DEF Stores
  <1>12. NoClaim(a, d)
    BY <1>2 DEF NoClaim, OfGuest, OfDraft
  <1> QED
    BY <1>1, <1>2, <1>10, <1>11, <1>12, PageStep, RestState

LEMMA PressKeeps ==
  ASSUME StudioInv, NEW p \in Tabs, PressSend(p)
  PROVE  StudioInv'
  <1> DEFINE g == page[p]
             saves == g.restored /\ g.handle
             pc == IF saves THEN IF g.user THEN "patch" ELSE "save"
                   ELSE IF g.user THEN "build" ELSE "preflight"
             bs == (saves \/ ~g.user)
             h == [g EXCEPT !.retried = FALSE, !.busy = bs]
             d == [pc |-> pc, by |-> p, v |-> g.text]
  <1>1. g \in PageType /\ Composed(p, g)
    BY TabState
  <1>2. /\ g.phase = "form" /\ g.text # 0
        /\ Acts1(p, pc, g.text) /\ page' = [page EXCEPT ![p] = h]
        /\ UNCHANGED <<pending, envelopes, cookies, shared, link, latest, mishaps>>
    BY DEF PressSend, Shows
  <1>3. saves <=> g.restored
    BY <1>1 DEF Composed
  <1>4. pc \in Calls /\ (pc \in OfGuest \/ pc \in OfDraft)
        /\ (pc \in OfGuest => ~g.restored) /\ (pc \in OfDraft => g.restored)
    BY <1>3 DEF Calls, OfGuest, OfDraft
  <1>5. bs \in BOOLEAN
    BY DEF bs
  <1> HIDE DEF pc, bs
  <1>6. h \in PageType
    BY <1>1, <1>5 DEF PageType
  <1>7. /\ h.phase = g.phase /\ h.text = g.text /\ h.held = g.held /\ h.turn = g.turn
        /\ h.handle = g.handle /\ h.stored = g.stored /\ h.behind = g.behind
        /\ h.restored = g.restored /\ h.reads = g.reads /\ h.claims = g.claims
        /\ h.fired = g.fired /\ h.allow = g.allow /\ h.mount = g.mount
    BY <1>1 DEF PageType
  <1>8. d \in CallType /\ d.pc = pc /\ d.by = p /\ d.v = g.text
    BY <1>1, <1>4 DEF CallType, PageType
  <1> HIDE DEF h, d
  <1>9. d.pc \in OfGuest \cup OfDraft
    BY <1>4, <1>8
  <1>10. Acts1(p, d.pc, d.v)
    BY <1>2, <1>8 DEF Acts1
  <1>11. /\ d.pc \in OfGuest => ~h.restored
         /\ d.pc \in OfDraft => h.restored
         /\ h.phase = "form" /\ d.v # 0
    BY <1>2, <1>4, <1>7, <1>8
  <1> HIDE DEF g, saves
  <1> QED
    BY <1>2, <1>6, <1>7, <1>8, <1>9, <1>10, <1>11, PressStep DEF g

LEMMA ResendKeeps ==
  ASSUME StudioInv, NEW p \in Tabs, ResendFromRestore(p)
  PROVE  StudioInv'
  <1> DEFINE g == page[p]
             d == [pc |-> "resend", by |-> p, v |-> g.text]
  <1>1. g \in PageType /\ Composed(p, g) /\ page \in [Tabs -> PageType]
    BY TabState
  <1>2. g.phase = "form" /\ g.restored /\ g.text # 0 /\ page' = [page EXCEPT ![p] = g]
    BY <1>1 DEF ResendFromRestore, Composed
  <1>3. d \in CallType /\ d.pc = "resend" /\ d.by = p /\ d.v = g.text
    BY <1>1 DEF CallType, PageType, Calls
  <1>4. "resend" \in OfDraft /\ "resend" \notin OfGuest
    BY DEF OfDraft, OfGuest
  <1> HIDE DEF d
  <1>5. Acts1(p, d.pc, d.v)
    BY <1>3 DEF Acts1, ResendFromRestore
  <1>6. UNCHANGED <<pending, envelopes, cookies, shared, link, latest, mishaps>>
    BY DEF ResendFromRestore
  <1>7. d.pc \in OfGuest \cup OfDraft /\ d.pc \notin OfGuest /\ d.v # 0
    BY <1>2, <1>3, <1>4
  <1> HIDE DEF g
  <1> QED
    BY <1>1, <1>2, <1>3, <1>5, <1>6, <1>7, PressStep DEF g

LEMMA SignInHereKeeps ==
  ASSUME StudioInv, NEW p \in Tabs, SignInHere(p)
  PROVE  StudioInv'
  <1> DEFINE g == page[p]
  <1>1. /\ g \in PageType /\ Composed(p, g) /\ page \in [Tabs -> PageType]
        /\ Ready(p, g, call, acts, envelopes, mishaps)
        /\ g.stored \in {0} \cup pending.saved \/ g.behind
        /\ g.text # 0 /\ ~g.handle => pending.st = "none"
        /\ mishaps = 0 /\ g.allow => g.phase = "away"
        /\ g.text # 0 \/ g.reads => latest # 0
    BY TabState
  <1>2. g.phase = "gate" /\ latest # 0
    BY <1>1 DEF SignInHere, Waits, Composed
  <1>3. page' = [page EXCEPT ![p] = g]
    BY <1>1 DEF SignInHere
  <1>4. \A b \in Acts : call[b].by = p /\ g.phase \in Hearing /\ b >= g.mount
          => Heard(g, call[b], b)
    BY Continues DEF Hearing
  <1>5. 1 \in Acts /\ call[1] \in CallType /\ Moves(p, g, 1, call[1]) /\ NoClaim(1, call[1])
    BY <1>1, <1>3, <1>4, Still DEF SignInHere
  <1>6. Stores(p, g)
    BY <1>1 DEF Stores, SignInHere
  <1>7. cookies' \subseteq {"here", "there"}
    BY RestState DEF SignedIn, SignInHere, Browser
  <1> QED
    BY <1>1, <1>2, <1>5, <1>6, <1>7, PageStep, RestState DEF SignedIn, SignInHere

(* A page loaded with a draft's handle. *)
LEMMA MountedIs ==
  ASSUME NEW c \in BOOLEAN, NEW u \in BOOLEAN, NEW m \in 0..MaxActs, NEW g \in PageType
  PROVE  LET h == Mounted(c, u, m) IN
         /\ h \in PageType
         /\ h.phase = "form" /\ h.handle /\ h.reads /\ h.claims = c /\ h.mount = m
         /\ h.text = 0 /\ h.held = 0 /\ h.stored = 0 /\ ~h.restored /\ ~h.allow
  <1> DEFINE h == Mounted(c, u, m)
  <1>1. Blank \in PageType /\ "form" \in Phases
    BY BlankPages DEF Phases
  <1>2. Blank.text = 0 /\ Blank.held = 0 /\ Blank.stored = 0 /\ ~Blank.restored /\ ~Blank.allow
    BY BlankPages
  <1>3. h \in PageType
    BY <1>1 DEF Mounted, PageType
  <1>4. /\ h.phase = "form" /\ h.handle /\ h.reads /\ h.claims = c /\ h.mount = m
        /\ h.text = Blank.text /\ h.held = Blank.held /\ h.stored = Blank.stored
        /\ h.restored = Blank.restored /\ h.allow = Blank.allow
    BY <1>1 DEF Mounted, PageType
  <1> QED
    BY <1>2, <1>3, <1>4

LEMMA OpenKeeps ==
  ASSUME StudioInv, OpenSignInLink
  PROVE  StudioInv'
  <1> DEFINE ok == link = "sent"
             p == "landing"
             a == acts + 1
             h == Mounted(ok, ok, a)
             d == [pc |-> "none", by |-> p, v |-> 0]
  <1>1. p \in Tabs /\ call \in [Acts -> CallType] /\ page \in [Tabs -> PageType]
        /\ page[p] \in PageType /\ ok \in BOOLEAN
    BY DEF Tabs, StudioInv, StudioTypeOK
  <1>2. /\ a \in Acts /\ a \in Nat /\ a > acts /\ ~(a <= acts) /\ a \in 0..MaxActs
        /\ \A b \in Acts : b >= a => call[b].pc = "none"
        /\ \A x \in envelopes : x.act # a
        /\ acts' = a
        /\ call' = [call EXCEPT ![a] = d]
        /\ page' = [page EXCEPT ![p] = h]
        /\ UNCHANGED <<pending, envelopes, shared, latest, mishaps>>
    BY NewAct DEF OpenSignInLink, Acts1, Shows
  <1>3. d \in CallType /\ d.pc = "none" /\ d.by = p
    BY <1>1, StudioAssumption DEF CallType, Calls, Version
  <1>4. /\ h.phase = "form" /\ h.handle /\ h.reads /\ h.claims = ok /\ h.mount = a
        /\ h.text = 0 /\ h.held = 0 /\ h.stored = 0 /\ ~h.restored /\ ~h.allow
    BY <1>1, <1>2, MountedIs
  <1>5. h \in PageType
    <2>1. ok \in BOOLEAN
      OBVIOUS
    <2> HIDE DEF ok, a
    <2> QED
      BY <1>1, <1>2, <2>1, MountedIs
  <1> HIDE DEF a, h, d
  <1>6. Composed(p, h)
    BY <1>4 DEF Composed, Hearing
  <1>7. call'[a] = d
    BY <1>1, <1>2
  <1>8. a <= acts'
    BY <1>2
  <1>9. Ready(p, h, call', acts', envelopes', mishaps')
    BY <1>2, <1>3, <1>4, <1>7, <1>8 DEF Ready, Idle
  <1>10. \A b \in Acts : call'[b].by = p /\ h.phase \in Hearing /\ b >= h.mount
          => Heard(h, call'[b], b)
    <2> SUFFICES ASSUME NEW b \in Acts, b >= a PROVE call'[b].pc = "none"
      BY <1>4 DEF Heard, OfGuest, OfDraft
    <2> QED
      BY <1>1, <1>2, <1>3, <1>7
  <1>11. Asked(a, d, acts', envelopes', mishaps')
    <2>1. ~(a > acts')
      BY <1>2
    <2> QED
      BY <1>2, <1>3, <2>1 DEF Asked, OfGuest, OfDraft
  <1>12. Moves(p, h, a, d)
    <2>1. mishaps \in 0..MaxStudioFaults
      BY RestState
    <2>2. Owns(p, a, d)
      BY <1>2, <1>3 DEF Owns, a
    <2> QED
      BY <1>2, <1>6, <1>9, <1>10, <1>11, <2>1, <2>2 DEF Moves
  <1>13. Stores(p, h) /\ NoClaim(a, d)
    BY <1>2, <1>3, <1>4 DEF Stores, NoClaim
  <1>14. latest # 0
    BY DEF StudioInv, Unwritten, OpenSignInLink
  <1>15. cookies' \subseteq {"here", "there"} /\ link' \in {"none", "sent", "spent"}
    BY RestState DEF OpenSignInLink, Browser
  <1>16. h.allow => h.phase = "away"
    BY <1>4
  <1> HIDE DEF p
  <1> QED
    BY <1>1, <1>2, <1>3, <1>5, <1>12, <1>13, <1>14, <1>15, <1>16, PageStep, RestState

(* What an act comes to keeps its tab. *)
LEMMA CallIs ==
  ASSUME NEW c \in CallType, NEW pc \in Calls, NEW v \in Version
  PROVE  LET d == [c EXCEPT !.pc = pc, !.v = v] IN
         d \in CallType /\ d.pc = pc /\ d.v = v /\ d.by = c.by
  BY DEF CallType

LEMMA LeaveGoogleKeeps ==
  ASSUME StudioInv, NEW p \in Tabs, LeaveForGoogle(p)
  PROVE  StudioInv'
  <1> DEFINE g == page[p]
             f == [g EXCEPT !.allow = TRUE]
  <1>1. /\ g \in PageType /\ Composed(p, g) /\ call \in [Acts -> CallType]
        /\ Ready(p, g, call, acts, envelopes, mishaps)
        /\ g.text # 0 \/ g.reads => latest # 0
    BY TabState, StudioAssumption DEF StudioInv, StudioTypeOK
  <1>2. g.phase = "gate" /\ g.text # 0 /\ latest # 0
    BY <1>1 DEF LeaveForGoogle, Waits, Composed
  <1>3. /\ f \in PageType
        /\ f.text = g.text /\ f.held = g.held /\ f.handle = g.handle /\ f.stored = g.stored
        /\ f.behind = g.behind /\ f.restored = g.restored /\ f.turn = g.turn
        /\ f.reads = g.reads /\ f.fired = g.fired /\ f.claims = g.claims
        /\ f.mount = g.mount /\ f.phase = g.phase /\ f.allow
    BY <1>1 DEF PageType
  <1> HIDE DEF g, f
  <1>4. CASE Store(p, f) /\ Mishap /\ UNCHANGED <<call, acts>>
    <2>1. PICK h \in PageType :
             /\ page' = [page EXCEPT ![p] = h] /\ Stores(p, h) /\ h.handle
             /\ h.text = f.text /\ h.held = f.held /\ h.restored = f.restored
             /\ h.phase = f.phase /\ h.turn = f.turn /\ h.reads = f.reads
             /\ h.claims = f.claims /\ h.fired = f.fired /\ h.allow = f.allow
             /\ h.mount = f.mount
      BY <1>2, <1>3, <1>4, StoreIs DEF g
    <2>2. mishaps' \in 0..MaxStudioFaults /\ mishaps' # 0
      <3>1. mishaps \in 0..MaxStudioFaults
        BY RestState
      <3> QED
        BY <1>4, <3>1, StudioAssumption DEF Mishap
    <2>3. 1 \in Acts /\ call[1] \in CallType /\ NoClaim(1, call[1])
          /\ call' = [call EXCEPT ![1] = call[1]]
      BY <1>1, <1>4, StudioAssumption DEF Acts, NoClaim
    <2>4. Composed(p, h)
      BY <1>1, <1>2, <1>3, <2>1 DEF Composed, Hearing
    <2>5. Ready(p, h, call', acts', envelopes', mishaps')
      BY <1>1, <1>2, <1>3, <1>4, <2>1, <2>2 DEF Ready, Idle, LeaveForGoogle
    <2>6. \A b \in Acts : call'[b].by = p /\ h.phase \in Hearing /\ b >= h.mount
            => Heard(h, call'[b], b)
      BY <1>2, <1>3, <1>4, <2>1, Continues DEF Hearing, g
    <2>7. Moves(p, h, 1, call[1])
      BY <1>4, <2>1, <2>2, <2>3, <2>4, <2>5, <2>6 DEF Moves, LeaveForGoogle
    <2> QED
      BY <1>2, <2>1, <2>2, <2>3, <2>7, PageStep, RestState DEF LeaveForGoogle
  <1>5. ASSUME Acts1(p, "none", 0),
               Store(p, [f EXCEPT !.phase = "away", !.claims = FALSE, !.mount = acts + 1]),
               UNCHANGED mishaps
        PROVE  StudioInv'
    <2> DEFINE a == acts + 1
               e == [f EXCEPT !.phase = "away", !.claims = FALSE, !.mount = a]
               d == [pc |-> "none", by |-> p, v |-> 0]
    <2>1. /\ a \in Acts /\ a \in Nat /\ a > acts /\ ~(a <= acts) /\ a \in 0..MaxActs
          /\ \A b \in Acts : b >= a => call[b].pc = "none"
          /\ \A x \in envelopes : x.act # a
          /\ acts' = a /\ call' = [call EXCEPT ![a] = d]
      BY <1>5, NewAct DEF Acts1
    <2>2. d \in CallType /\ d.pc = "none" /\ d.by = p
      BY StudioAssumption DEF CallType, Calls, Version
    <2>3. /\ e \in PageType
          /\ e.text = f.text /\ e.held = f.held /\ e.handle = f.handle /\ e.stored = f.stored
          /\ e.behind = f.behind /\ e.restored = f.restored /\ e.turn = f.turn
          /\ e.reads = f.reads /\ e.fired = f.fired /\ ~e.claims
          /\ e.mount = a /\ e.phase = "away" /\ e.allow
      <3>1. "away" \in Phases
        BY DEF Phases
      <3> HIDE DEF a
      <3> QED
        BY <1>3, <2>1, <3>1 DEF PageType
    <2>4. Store(p, e)
      BY <1>5
    <2> HIDE DEF a, e, d
    <2>16. /\ page[p].phase = "gate" /\ e.text = page[p].text /\ e.held = page[p].held
           /\ e.handle = page[p].handle /\ e.stored = page[p].stored
           /\ e.behind = page[p].behind
      BY <1>2, <1>3, <2>3 DEF g
    <2>5. PICK h \in PageType :
             /\ page' = [page EXCEPT ![p] = h] /\ Stores(p, h) /\ h.handle
             /\ h.text = e.text /\ h.held = e.held /\ h.restored = e.restored
             /\ h.phase = e.phase /\ h.turn = e.turn /\ h.reads = e.reads
             /\ h.claims = e.claims /\ h.fired = e.fired /\ h.allow = e.allow
             /\ h.mount = e.mount
      BY <2>3, <2>4, <2>16, StoreIs
    <2>6. Composed(p, h)
      BY <1>1, <1>2, <1>3, <2>3, <2>5 DEF Composed, Hearing
    <2>7. \A q \in Tabs, b \in Acts : Idle(q, b, call, acts, envelopes, mishaps)
            => b # a /\ Idle(q, b, call', acts', envelopes', mishaps')
      <3>1. acts' = acts + 1
        BY <2>1 DEF a
      <3> QED
        BY <1>5, <2>1, <3>1, Undisturbed DEF LeaveForGoogle
    <2>8. call'[a] = d
      BY <1>1, <2>1
    <2>9. Idle(p, a, call', acts', envelopes', mishaps') /\ a <= acts'
      <3>1. a <= acts'
        BY <2>1
      <3> QED
        BY <2>1, <2>2, <2>8, <3>1 DEF Idle, LeaveForGoogle
    <2>10. h.held # 0 /\ ~h.fired =>
             Idle(p, h.turn, call', acts', envelopes', mishaps') /\ h.turn # a
      BY <1>1, <1>3, <2>3, <2>5, <2>7 DEF Ready, Idle
    <2>11. Ready(p, h, call', acts', envelopes', mishaps')
      BY <2>1, <2>2, <2>3, <2>5, <2>8, <2>9, <2>10 DEF Ready
    <2>12. \A b \in Acts : call'[b].by = p /\ h.phase \in Hearing /\ b >= h.mount
            => Heard(h, call'[b], b)
      <3> SUFFICES ASSUME NEW b \in Acts, b >= a PROVE call'[b].pc = "none"
        BY <2>3, <2>5 DEF Heard, OfGuest, OfDraft
      <3> QED
        BY <1>1, <2>1, <2>2, <2>8
    <2>13. Asked(a, d, acts', envelopes', mishaps')
      <3>1. ~(a > acts')
        BY <2>1
      <3> QED
        BY <2>1, <2>2, <3>1 DEF Asked, OfGuest, OfDraft, LeaveForGoogle
    <2>14. Moves(p, h, a, d)
      <3>1. mishaps \in 0..MaxStudioFaults
        BY RestState
      <3>2. Owns(p, a, d)
        BY <2>1, <2>2 DEF Owns, a
      <3> QED
        BY <1>5, <2>1, <2>5, <2>6, <2>11, <2>12, <2>13, <3>1, <3>2 DEF Moves, LeaveForGoogle
    <2>15. NoClaim(a, d)
      BY <2>1, <2>2 DEF NoClaim
    <2> QED
      BY <1>2, <1>5, <2>1, <2>2, <2>3, <2>5, <2>14, <2>15, PageStep, RestState DEF LeaveForGoogle
  <1> QED
    BY <1>4, <1>5 DEF LeaveForGoogle, f, g

LEMMA BackGoogleKeeps ==
  ASSUME StudioInv, NEW p \in Tabs, BackFromGoogle(p)
  PROVE  StudioInv'
  <1> DEFINE g == page[p]
             m == g.mount
             d == [call[m] EXCEPT !.pc = "claim", !.v = 0]
  <1>1. /\ g \in PageType /\ Composed(p, g) /\ page \in [Tabs -> PageType]
        /\ Ready(p, g, call, acts, envelopes, mishaps)
        /\ g.stored \in {0} \cup pending.saved \/ g.behind
        /\ g.text # 0 /\ ~g.handle => pending.st = "none"
        /\ g.text # 0 \/ g.reads => latest # 0
    BY TabState
  <1>2. g.phase = "away" /\ g.text # 0 /\ latest # 0 /\ call[m].pc = "none"
    BY <1>1 DEF BackFromGoogle, Composed
  <1>3. Idle(p, m, call, acts, envelopes, mishaps) /\ m \in Acts /\ m <= acts
    BY <1>1, <1>2 DEF Ready, Idle
  <1>4. \A b \in Acts : call[b].by = p /\ b >= m => Heard(g, call[b], b)
    BY <1>2, Continues DEF Hearing
  <1>5. CASE /\ cookies' = cookies \cup {Browser(p)} /\ Calling(m, "claim", 0)
             /\ UNCHANGED page
    <2>1. call[m] \in CallType /\ call \in [Acts -> CallType] /\ call[m].by = p
      BY <1>3, ActState DEF Idle
    <2>2. d \in CallType /\ d.pc = "claim" /\ d.by = p /\ d.v = 0
      <3>1. "claim" \in Calls /\ 0 \in Version
        BY StudioAssumption DEF Calls, Version
      <3> QED
        BY <2>1, <3>1 DEF CallType
    <2>3. call' = [call EXCEPT ![m] = d] /\ page' = [page EXCEPT ![p] = g]
      BY <1>1, <1>5, <2>1 DEF Calling
    <2> HIDE DEF d
    <2>4. call'[m] = d /\ \A b \in Acts \ {m} : call'[b] = call[b]
      BY <1>3, <2>1, <2>3
    <2>5. g.held # 0 /\ ~g.fired => Idle(p, g.turn, call', acts', envelopes', mishaps')
                                     /\ g.turn # m
      BY <1>1, <2>4 DEF Ready, Idle, BackFromGoogle
    <2>6. Ready(p, g, call', acts', envelopes', mishaps')
      BY <1>1, <1>2, <1>3, <2>2, <2>4, <2>5 DEF Ready, BackFromGoogle
    <2>7. \A b \in Acts : call'[b].by = p /\ g.phase \in Hearing /\ b >= g.mount
            => Heard(g, call'[b], b)
      BY <1>2, <1>4, <2>2, <2>4 DEF Heard, OfGuest, OfDraft
    <2>8. Asked(m, d, acts', envelopes', mishaps')
      <3>1. Asked(m, call[m], acts, envelopes, mishaps) /\ ~(m > acts)
        <4>1. m \in Nat /\ acts \in Nat
          BY <1>3, ActState
        <4> QED
          BY <1>3, <4>1, ActState
      <3> QED
        BY <1>3, <2>2, <3>1 DEF Asked, Idle, OfGuest, OfDraft, BackFromGoogle
    <2>9. Moves(p, g, m, d)
      <3>1. mishaps \in 0..MaxStudioFaults
        BY RestState
      <3>2. Owns(p, m, d)
        BY <1>3, <2>1, <2>2 DEF Owns, BackFromGoogle
      <3> QED
        BY <1>1, <2>3, <2>6, <2>7, <2>8, <3>1, <3>2 DEF Moves, BackFromGoogle
    <2>10. Stores(p, g) /\ NoClaim(m, d)
      BY <1>1, <1>2, <2>2 DEF Stores, NoClaim, BackFromGoogle
    <2>11. cookies' \subseteq {"here", "there"}
      BY <1>5, RestState DEF Browser
    <2> QED
      BY <1>1, <1>2, <1>3, <2>2, <2>9, <2>10, <2>11, PageStep, RestState DEF SignedIn, BackFromGoogle
  <1>6. CASE Shows(p, Mounted(FALSE, FALSE, m)) /\ UNCHANGED <<call, cookies>>
    <2> DEFINE h == Mounted(FALSE, FALSE, m)
    <2>1. /\ h \in PageType
          /\ h.phase = "form" /\ h.handle /\ h.reads /\ h.claims = FALSE /\ h.mount = m
          /\ h.text = 0 /\ h.held = 0 /\ h.stored = 0 /\ ~h.restored /\ ~h.allow
      <3>1. m \in 0..MaxActs
        BY <1>1 DEF PageType
      <3> QED
        BY <1>1, <3>1, MountedIs
    <2> HIDE DEF h
    <2>2. page' = [page EXCEPT ![p] = h]
      BY <1>6 DEF Shows, h
    <2>3. Composed(p, h)
      BY <2>1 DEF Composed, Hearing
    <2>4. Ready(p, h, call, acts, envelopes, mishaps)
      BY <1>3, <2>1 DEF Ready
    <2>5. \A b \in Acts : call[b].by = p /\ h.phase \in Hearing /\ b >= h.mount
            => Heard(h, call[b], b)
      BY <1>2, <1>4, <2>1 DEF Heard, OfGuest, OfDraft
    <2>6. 1 \in Acts /\ call[1] \in CallType /\ Moves(p, h, 1, call[1]) /\ NoClaim(1, call[1])
      BY <1>6, <2>1, <2>2, <2>3, <2>4, <2>5, Still DEF BackFromGoogle
    <2>7. Stores(p, h)
      BY <2>1 DEF Stores, BackFromGoogle
    <2> QED
      BY <1>2, <1>6, <2>1, <2>6, <2>7, PageStep, RestState DEF BackFromGoogle
  <1> QED
    BY <1>5, <1>6 DEF SignedIn, BackFromGoogle

LEMMA FiresKeeps ==
  ASSUME StudioInv, NEW p \in Tabs, GateFires(p)
  PROVE  StudioInv'
  <1> DEFINE g == page[p]
  <1>1. /\ g \in PageType /\ Composed(p, g)
        /\ Ready(p, g, call, acts, envelopes, mishaps)
        /\ g.stored \in {0} \cup pending.saved \/ g.behind
        /\ g.text # 0 /\ ~g.handle => pending.st = "none"
        /\ mishaps = 0 /\ g.allow => g.phase = "away"
        /\ g.text # 0 \/ g.reads => latest # 0
    BY TabState
  <1>2. g.phase = "gate" /\ g.text # 0 /\ latest # 0
    BY <1>1 DEF GateFires, Composed
  <1>3. ASSUME NEW h \in PageType, page' = [page EXCEPT ![p] = h],
               h.phase \in {"gate", "sending"},
               h.text = g.text, h.held = g.held, h.handle = g.handle, h.stored = g.stored,
               h.behind = g.behind, h.restored = g.restored, h.turn = g.turn,
               h.reads = g.reads, h.claims = g.claims, h.mount = g.mount, h.allow = g.allow
        PROVE  /\ Composed(p, h) /\ Stores(p, h) /\ (mishaps = 0 => ~h.allow)
               /\ \A b \in Acts : call[b].by = p /\ h.phase \in Hearing /\ b >= h.mount
                    => Heard(h, call[b], b)
    <2>1. Composed(p, h)
      BY <1>1, <1>2, <1>3 DEF Composed, Hearing
    <2>2. Stores(p, h)
      BY <1>1, <1>3 DEF Stores, GateFires
    <2>3. \A b \in Acts : call[b].by = p /\ h.phase \in Hearing /\ b >= h.mount
            => Heard(h, call[b], b)
      BY <1>2, <1>3, Continues DEF Hearing
    <2> QED
      BY <1>1, <1>2, <1>3, <2>1, <2>2, <2>3
  <1>4. CASE g.held # 0 /\ ~g.fired
    <2> DEFINE a == g.turn
               h == [OffGate(g, "sending") EXCEPT !.fired = TRUE, !.busy = TRUE]
               d == [call[a] EXCEPT !.pc = "create", !.v = g.held]
    <2>1. /\ Idle(p, a, call, acts, envelopes, mishaps) /\ a # g.mount
          /\ a \in Acts /\ call[a] \in CallType /\ call \in [Acts -> CallType]
          /\ call[a].by = p /\ call[a].pc = "none"
      <3>1. Idle(p, a, call, acts, envelopes, mishaps) /\ a # g.mount
        BY <1>1, <1>4 DEF Ready
      <3> QED
        BY <3>1, ActState DEF Idle
    <2>2. page' = [page EXCEPT ![p] = h] /\ call' = [call EXCEPT ![a] = d]
      BY <1>4, <2>1 DEF GateFires, Shows, Calling
    <2>3. /\ h \in PageType
          /\ h.phase = "sending" /\ h.fired /\ h.text = g.text /\ h.held = g.held
          /\ h.handle = g.handle /\ h.stored = g.stored /\ h.behind = g.behind
          /\ h.restored = g.restored /\ h.turn = g.turn /\ h.reads = g.reads
          /\ h.claims = g.claims /\ h.mount = g.mount /\ h.allow = g.allow
      <3>1. "sending" \in Phases
        BY DEF Phases
      <3> QED
        BY <1>1, <3>1 DEF PageType, OffGate
    <2>4. d \in CallType /\ d.pc = "create" /\ d.v = g.held /\ d.by = p
      <3>1. "create" \in Calls /\ g.held \in Version
        BY <1>1 DEF Calls, PageType
      <3> QED
        BY <2>1, <3>1 DEF CallType
    <2> HIDE DEF h, d, a
    <2>5. /\ Composed(p, h) /\ Stores(p, h) /\ (mishaps = 0 => ~h.allow)
          /\ \A b \in Acts : call[b].by = p /\ h.phase \in Hearing /\ b >= h.mount
               => Heard(h, call[b], b)
      BY <1>3, <2>2, <2>3
    <2>6. call'[a] = d /\ \A b \in Acts \ {a} : call'[b] = call[b]
      BY <2>1, <2>2
    <2>7. Ready(p, h, call', acts', envelopes', mishaps')
      <3>1. g.claims => Idle(p, g.mount, call', acts', envelopes', mishaps')
        BY <1>1, <2>1, <2>6 DEF Ready, Idle, GateFires
      <3> QED
        BY <1>1, <1>2, <2>3, <3>1 DEF Ready, GateFires
    <2>8. \A b \in Acts : call'[b].by = p /\ h.phase \in Hearing /\ b >= h.mount
            => Heard(h, call'[b], b)
      <3>1. ~g.restored
        BY <1>1, <1>4 DEF Composed
      <3>2. Heard(h, d, a)
        BY <1>2, <2>1, <2>3, <2>4, <3>1 DEF Heard, OfDraft
      <3> QED
        BY <2>5, <2>6, <3>2
    <2>9. Asked(a, d, acts', envelopes', mishaps')
      <3>1. ~(a > acts)
        <4>1. a \in Nat /\ acts \in Nat /\ a <= acts
          BY <2>1, ActState DEF Idle
        <4> QED
          BY <4>1
      <3> QED
        BY <1>4, <2>1, <2>4, <3>1 DEF Asked, Idle, GateFires
    <2>10. Moves(p, h, a, d)
      <3>1. mishaps \in 0..MaxStudioFaults
        BY RestState
      <3>2. Owns(p, a, d)
        BY <2>1, <2>4 DEF Owns, GateFires, Idle
      <3> QED
        BY <2>2, <2>5, <2>7, <2>8, <2>9, <3>1, <3>2 DEF Moves, GateFires
    <2>11. NoClaim(a, d)
      BY <2>1, <2>4 DEF NoClaim
    <2> QED
      BY <1>2, <2>1, <2>3, <2>4, <2>5, <2>10, <2>11, PageStep, RestState DEF GateFires
  <1>5. CASE ~(g.held # 0 /\ ~g.fired)
    <2> DEFINE h == [g EXCEPT !.seen = TRUE]
    <2>1. page' = [page EXCEPT ![p] = h] /\ UNCHANGED call
      BY <1>5 DEF GateFires, Shows
    <2>2. /\ h \in PageType
          /\ h.phase = g.phase /\ h.fired = g.fired /\ h.text = g.text /\ h.held = g.held
          /\ h.handle = g.handle /\ h.stored = g.stored /\ h.behind = g.behind
          /\ h.restored = g.restored /\ h.turn = g.turn /\ h.reads = g.reads
          /\ h.claims = g.claims /\ h.mount = g.mount /\ h.allow = g.allow
      BY <1>1 DEF PageType
    <2> HIDE DEF h
    <2>3. /\ Composed(p, h) /\ Stores(p, h) /\ (mishaps = 0 => ~h.allow)
          /\ \A b \in Acts : call[b].by = p /\ h.phase \in Hearing /\ b >= h.mount
               => Heard(h, call[b], b)
      BY <1>2, <1>3, <2>1, <2>2
    <2>4. Ready(p, h, call, acts, envelopes, mishaps)
      BY <1>1, <2>2 DEF Ready
    <2>5. 1 \in Acts /\ call[1] \in CallType /\ Moves(p, h, 1, call[1]) /\ NoClaim(1, call[1])
      BY <2>1, <2>2, <2>3, <2>4, Still DEF GateFires
    <2> QED
      BY <1>2, <2>2, <2>3, <2>5, PageStep, RestState DEF GateFires
  <1> QED
    BY <1>4, <1>5

LEMMA LandingKeeps ==
  ASSUME StudioInv, NEW p \in Tabs, ClaimOnLanding(p)
  PROVE  StudioInv'
  <1> DEFINE g == page[p]
             a == g.mount
             f == [g EXCEPT !.claims = FALSE]
             h == IF g.phase = "elsewhere" THEN f ELSE OffGate(f, "sending")
             d == [call[a] EXCEPT !.pc = "claim", !.v = 0]
  <1>1. /\ g \in PageType /\ Composed(p, g)
        /\ Ready(p, g, call, acts, envelopes, mishaps)
        /\ g.stored \in {0} \cup pending.saved \/ g.behind
        /\ g.text # 0 /\ ~g.handle => pending.st = "none"
        /\ mishaps = 0 /\ g.allow => g.phase = "away"
    BY TabState
  <1>2. g.claims /\ g.phase \notin {"closed", "away", "sent"}
    BY DEF ClaimOnLanding
  <1>3. /\ Idle(p, a, call, acts, envelopes, mishaps)
        /\ a \in Acts /\ a <= acts /\ call[a] \in CallType /\ call \in [Acts -> CallType]
        /\ call[a].by = p /\ call[a].pc = "none"
    BY <1>1, <1>2, ActState DEF Ready, Idle
  <1>4. latest # 0
    <2>1. a \in Nat /\ a # 0 /\ acts \in Nat /\ acts # 0
      BY <1>3, StudioAssumption, ActState DEF Acts
    <2> QED
      BY <2>1 DEF StudioInv, Unwritten
  <1>5. page' = [page EXCEPT ![p] = h] /\ call' = [call EXCEPT ![a] = d]
    BY <1>3 DEF ClaimOnLanding, Shows, Calling
  <1>6. /\ h \in PageType
        /\ \/ h.phase = "elsewhere" /\ g.phase = "elsewhere"
           \/ h.phase = "sending" /\ g.phase # "elsewhere"
        /\ h.fired = g.fired /\ h.text = g.text /\ h.held = g.held
        /\ h.handle = g.handle /\ h.stored = g.stored /\ h.behind = g.behind
        /\ h.restored = g.restored /\ h.turn = g.turn /\ h.reads = g.reads
        /\ ~h.claims /\ h.mount = g.mount /\ h.allow = g.allow
    <2>1. "sending" \in Phases
      BY DEF Phases
    <2>2. CASE g.phase = "elsewhere"
      <3>1. h = f
        BY <2>2
      <3> QED
        BY <1>1, <2>2, <3>1 DEF PageType
    <2>3. CASE g.phase # "elsewhere"
      <3>1. h = OffGate(f, "sending")
        BY <2>3
      <3> QED
        BY <1>1, <2>1, <2>3, <3>1 DEF PageType, OffGate
    <2> QED
      BY <2>2, <2>3
  <1>7. d \in CallType /\ d.pc = "claim" /\ d.v = 0 /\ d.by = p
    <2>1. "claim" \in Calls /\ 0 \in Version
      BY StudioAssumption DEF Calls, Version
    <2> QED
      BY <1>3, <2>1 DEF CallType
  <1> HIDE DEF h, d
  <1>8. Composed(p, h)
    BY <1>1, <1>2, <1>6 DEF Composed, Hearing
  <1>9. call'[a] = d /\ \A b \in Acts \ {a} : call'[b] = call[b]
    BY <1>3, <1>5
  <1>10. Ready(p, h, call', acts', envelopes', mishaps')
    <2>1. g.held # 0 /\ ~g.fired =>
            Idle(p, g.turn, call', acts', envelopes', mishaps') /\ g.turn # a
      BY <1>1, <1>9 DEF Ready, Idle, ClaimOnLanding
    <2> QED
      BY <1>3, <1>6, <2>1 DEF Ready, ClaimOnLanding
  <1>11. \A b \in Acts : call'[b].by = p /\ h.phase \in Hearing /\ b >= h.mount
           => Heard(h, call'[b], b)
    <2> SUFFICES ASSUME NEW b \in Acts, call'[b].by = p, h.phase = "sending", b >= h.mount
                 PROVE  Heard(h, call'[b], b)
      BY <1>6 DEF Hearing
    <2>1. CASE b = a
      BY <1>7, <1>9, <2>1 DEF Heard, OfGuest, OfDraft
    <2>2. CASE b # a
      <3>1. g.phase \in Hearing
        BY <1>1, <1>2, <1>6 DEF Hearing, PageType, Phases
      <3> QED
        BY <1>6, <1>9, <2>2, <3>1, Continues
    <2> QED
      BY <2>1, <2>2
  <1>12. Asked(a, d, acts', envelopes', mishaps')
    <2>1. ~(a > acts) /\ Asked(a, call[a], acts, envelopes, mishaps)
      <3>1. a \in Nat /\ acts \in Nat /\ a <= acts /\ Asked(a, call[a], acts, envelopes, mishaps)
        BY <1>3, ActState
      <3> QED
        BY <3>1
    <2> QED
      BY <1>3, <1>7, <2>1 DEF Asked, Idle, ClaimOnLanding, OfGuest, OfDraft
  <1>13. Moves(p, h, a, d)
    <2>1. mishaps \in 0..MaxStudioFaults
      BY RestState
    <2>2. Owns(p, a, d)
      BY <1>3, <1>7 DEF Owns, ClaimOnLanding
    <2> QED
      BY <1>5, <1>8, <1>10, <1>11, <1>12, <2>1, <2>2 DEF Moves, ClaimOnLanding
  <1>14. NoClaim(a, d) /\ Stores(p, h)
    BY <1>1, <1>3, <1>6, <1>7 DEF NoClaim, Stores, ClaimOnLanding
  <1>15. mishaps = 0 => ~h.allow
    BY <1>1, <1>2, <1>6
  <1> QED
    BY <1>3, <1>4, <1>6, <1>7, <1>13, <1>14, <1>15, PageStep, RestState DEF ClaimOnLanding
-----------------------------------------------------------------------------
(* What an act comes to, in the page that hears of it.                      *)
LEMMA AnswerStep ==
  ASSUME StudioInv, NEW a \in Acts, NEW d \in CallType, NEW h \in PageType,
         NEW p \in Tabs, p = call[a].by,
         call[a].pc # "none", Hears(a), d.by = p, call' = [call EXCEPT ![a] = d],
         page' = [page EXCEPT ![p] = h], UNCHANGED <<acts, envelopes, mishaps>>,
         Composed(p, h), Asked(a, d, acts, envelopes, mishaps), Heard(h, d, a),
         h.phase \in {"form", "gate", "sending"},
         h.mount = page[p].mount, h.restored = page[p].restored, h.text = page[p].text,
         h.claims => page[p].claims,
         \/ h.held = page[p].held /\ h.turn = page[p].turn /\ h.fired = page[p].fired
         \/ /\ h.turn = a /\ a # page[p].mount /\ d.pc = "none"
            /\ mishaps = 0 => \A x \in envelopes : x.act # a
  PROVE  Moves(p, h, a, d)
  <1> DEFINE g == page[p]
  <1>1. /\ a <= acts /\ acts \in Nat /\ call \in [Acts -> CallType]
        /\ Ready(p, g, call, acts, envelopes, mishaps)
    BY ActState, TabState
  <1>2. call'[a] = d /\ \A b \in Acts \ {a} : call'[b] = call[b]
    BY <1>1
  <1>3. \A b \in Acts : Idle(p, b, call, acts, envelopes, mishaps)
          => b # a /\ Idle(p, b, call', acts', envelopes', mishaps')
    BY <1>1, Undisturbed
  <1>4. h.held # 0 /\ ~h.fired => Idle(p, h.turn, call', acts', envelopes', mishaps')
                                   /\ h.turn # h.mount
    <2>1. CASE h.held = g.held /\ h.turn = g.turn /\ h.fired = g.fired
      BY <1>1, <1>3, <2>1 DEF Ready, Idle
    <2>2. CASE /\ h.turn = a /\ a # g.mount /\ d.pc = "none"
               /\ mishaps = 0 => \A x \in envelopes : x.act # a
      BY <1>1, <1>2, <2>2 DEF Idle
    <2> QED
      BY <2>1, <2>2
  <1>5. h.claims => Idle(p, h.mount, call', acts', envelopes', mishaps')
    BY <1>1, <1>3 DEF Ready, Idle
  <1>6. Ready(p, h, call', acts', envelopes', mishaps')
    BY <1>1, <1>4, <1>5 DEF Ready
  <1>7. \A b \in Acts : call'[b].by = p /\ h.phase \in Hearing /\ b >= h.mount
          => Heard(h, call'[b], b)
    <2> SUFFICES ASSUME NEW b \in Acts, call'[b].by = p, b >= h.mount
                 PROVE  Heard(h, call'[b], b)
      OBVIOUS
    <2>1. CASE b = a
      BY <1>2, <2>1
    <2>2. CASE b # a
      <3>1. g.phase \in Hearing
        BY DEF Hears, Hearing
      <3> QED
        BY <1>2, <2>2, <3>1, Continues
    <2> QED
      BY <2>1, <2>2
  <1>8. mishaps \in 0..MaxStudioFaults
    BY RestState
  <1> QED
    BY <1>1, <1>6, <1>7, <1>8 DEF Moves, Owns

LEMMA HeardStep ==
  ASSUME StudioInv, NEW a \in Acts, NEW d \in CallType, NEW h \in PageType,
         NEW p \in Tabs, p = call[a].by,
         call[a].pc # "none", Hears(a), d.by = p, call' = [call EXCEPT ![a] = d],
         page' = [page EXCEPT ![p] = h],
         UNCHANGED <<acts, envelopes, cookies, shared, link, latest, mishaps>>,
         Composed(p, h), Asked(a, d, acts, envelopes, mishaps), Heard(h, d, a),
         page[p].phase # "away", h.phase \in {"form", "gate", "sending"},
         h.mount = page[p].mount, h.restored = page[p].restored, h.text = page[p].text,
         h.claims => page[p].claims, h.allow => page[p].allow,
         \/ h.held = page[p].held /\ h.turn = page[p].turn /\ h.fired = page[p].fired
         \/ /\ h.turn = a /\ a # page[p].mount /\ d.pc = "none"
            /\ mishaps = 0 => \A x \in envelopes : x.act # a,
         Stores(p, h), NoClaim(a, d)
  PROVE  StudioInv'
  <1>1. Moves(p, h, a, d)
    BY AnswerStep
  <1>2. mishaps = 0 => ~h.allow
    BY TabState
  <1>3. latest # 0
    BY ActState
  <1> QED
    BY <1>1, <1>2, <1>3, PageStep, RestState

(* What an act comes to that shows nothing, or that nothing hears of.       *)
LEMMA QuietStep ==
  ASSUME StudioInv, NEW a \in Acts, NEW d \in CallType, NEW p \in Tabs, p = call[a].by,
         call[a].pc # "none", d.by = p, call' = [call EXCEPT ![a] = d],
         UNCHANGED <<page, acts, envelopes, shared, link, latest, cookies>>,
         mishaps' \in 0..MaxStudioFaults, mishaps' = 0 => mishaps = 0,
         Asked(a, d, acts, envelopes, mishaps'),
         ~Hears(a) \/ (Heard(page[p], d, a) /\ d.pc # "none"),
         Stores(p, page[p]), NoClaim(a, d)
  PROVE  StudioInv'
  <1>1. /\ page[p] \in PageType /\ (mishaps = 0 /\ page[p].allow => page[p].phase = "away")
        /\ a \in Nat /\ latest # 0
    BY TabState, ActState
  <1>2. ~Hears(a) => page[p].phase # "away" \/ a # page[p].mount
    <2>1. a >= a
      BY <1>1
    <2> QED
      BY <2>1 DEF Hears
  <1>3. Moves(p, page[p], a, d)
    BY <1>2, CallStep
  <1> QED
    BY <1>1, <1>3, PageStep, RestState

(* A tab and its act. *)
LEMMA ActOf ==
  ASSUME StudioInv, NEW a \in Acts
  PROVE  LET p == call[a].by
             g == page[p]
         IN /\ p \in Tabs /\ g \in PageType /\ Composed(p, g)
            /\ Ready(p, g, call, acts, envelopes, mishaps)
            /\ g.stored \in {0} \cup pending.saved \/ g.behind
            /\ g.text # 0 /\ ~g.handle => pending.st = "none"
            /\ call \in [Acts -> CallType] /\ call[a] \in CallType
            /\ Asked(a, call[a], acts, envelopes, mishaps)
            /\ (Hears(a) => Heard(g, call[a], a) /\ g.phase \in Hearing)
  BY ActState, TabState DEF Hears, Hearing

LEMMA DispatchKeeps ==
  ASSUME StudioInv, NEW a \in Acts, Dispatch(a)
  PROVE  StudioInv'
  <1> DEFINE p == call[a].by
             g == page[p]
             c == call[a]
             d == [c EXCEPT !.pc = "create", !.v = c.v]
             e == [c EXCEPT !.pc = "none", !.v = 0]
             h == [g EXCEPT !.busy = TRUE]
  <1>1. /\ p \in Tabs /\ g \in PageType /\ Composed(p, g)
        /\ Ready(p, g, call, acts, envelopes, mishaps)
        /\ g.stored \in {0} \cup pending.saved \/ g.behind
        /\ g.text # 0 /\ ~g.handle => pending.st = "none"
        /\ call \in [Acts -> CallType] /\ c \in CallType
        /\ Asked(a, c, acts, envelopes, mishaps)
        /\ Hears(a) => Heard(g, c, a) /\ g.phase \in Hearing
    BY ActOf
  <1>2. c.pc = "build" /\ UNCHANGED pending
    BY DEF Dispatch
  <1>3. d \in CallType /\ d.pc = "create" /\ d.v = c.v /\ d.by = p
    <2>1. "create" \in Calls
      BY DEF Calls
    <2> QED
      BY <1>1, <2>1 DEF CallType
  <1>4. e \in CallType /\ e.pc = "none" /\ e.by = p
    <2>1. "none" \in Calls /\ 0 \in Version
      BY StudioAssumption DEF Calls, Version
    <2> QED
      BY <1>1, <2>1 DEF CallType
  <1>5. /\ Asked(a, d, acts, envelopes, mishaps) /\ Asked(a, e, acts, envelopes, mishaps)
        /\ NoClaim(a, d) /\ NoClaim(a, e)
    BY <1>1, <1>2, <1>3, <1>4, ActState DEF Asked, OfGuest, OfDraft, NoClaim
  <1>6. Stores(p, g)
    BY <1>1, <1>2 DEF Stores
  <1>7. mishaps' \in 0..MaxStudioFaults /\ (mishaps' = 0 => mishaps = 0)
    BY RestState DEF Dispatch
  <1>8. CASE Hears(a)
    <2>1. ~g.restored /\ g.text # 0 /\ a # g.mount /\ g.phase # "away"
      BY <1>1, <1>2, <1>8 DEF Heard, OfGuest
    <2>2. g.phase \in {"form", "gate", "sending"}
      BY <1>1, <1>8, <2>1 DEF Hearing
    <2>3. /\ h \in PageType
          /\ h.phase = g.phase /\ h.fired = g.fired /\ h.text = g.text /\ h.held = g.held
          /\ h.handle = g.handle /\ h.stored = g.stored /\ h.behind = g.behind
          /\ h.restored = g.restored /\ h.turn = g.turn /\ h.reads = g.reads
          /\ h.claims = g.claims /\ h.mount = g.mount /\ h.allow = g.allow
      BY <1>1 DEF PageType
    <2>4. page' = [page EXCEPT ![p] = h] /\ call' = [call EXCEPT ![a] = d]
      BY <1>8 DEF Dispatch, Shows, Calling
    <2>5. UNCHANGED <<acts, envelopes, cookies, shared, link, latest, mishaps>>
      BY DEF Dispatch
    <2> HIDE DEF h, d, e, g, c, p
    <2>6. Composed(p, h)
      BY <1>1, <2>1, <2>3 DEF Composed, Hearing
    <2>7. Heard(h, d, a)
      BY <1>3, <2>1, <2>3 DEF Heard, OfGuest, OfDraft
    <2>8. Stores(p, h)
      BY <1>6, <2>3 DEF Stores
    <2> QED
      BY <1>1, <1>2, <1>3, <1>5, <1>8, <2>1, <2>2, <2>3, <2>4, <2>5, <2>6, <2>7, <2>8, HeardStep
         DEF g, p, c
  <1>9. CASE ~Hears(a)
    <2>1. UNCHANGED <<page, acts, envelopes, shared, link, latest, cookies>>
      BY <1>9 DEF Dispatch
    <2>2. call' = [call EXCEPT ![a] = d] \/ call' = [call EXCEPT ![a] = e]
      BY <1>9 DEF Dispatch, Calling, Quit
    <2> HIDE DEF d, e
    <2> QED
      BY <1>1, <1>2, <1>3, <1>4, <1>5, <1>6, <1>7, <1>9, <2>1, <2>2, QuietStep DEF Dispatch
  <1> QED
    BY <1>8, <1>9

LEMMA PreflightKeeps ==
  ASSUME StudioInv, NEW a \in Acts, PreflightAnswer(a)
  PROVE  StudioInv'
  <1> DEFINE p == call[a].by
             g == page[p]
             c == call[a]
             e == [c EXCEPT !.pc = "none", !.v = 0]
             f == [g EXCEPT !.busy = FALSE]
  <1>1. /\ p \in Tabs /\ g \in PageType /\ Composed(p, g)
        /\ Ready(p, g, call, acts, envelopes, mishaps)
        /\ g.stored \in {0} \cup pending.saved \/ g.behind
        /\ g.text # 0 /\ ~g.handle => pending.st = "none"
        /\ call \in [Acts -> CallType] /\ c \in CallType
        /\ Asked(a, c, acts, envelopes, mishaps)
        /\ Hears(a) => Heard(g, c, a) /\ g.phase \in Hearing
    BY ActOf
  <1>2. /\ c.pc = "preflight" /\ call' = [call EXCEPT ![a] = e]
        /\ UNCHANGED <<acts, pending, envelopes, cookies, shared, link, latest, mishaps>>
    BY DEF PreflightAnswer, Quit, Calling
  <1>3. e \in CallType /\ e.pc = "none" /\ e.by = p
    <2>1. "none" \in Calls /\ 0 \in Version
      BY StudioAssumption DEF Calls, Version
    <2> QED
      BY <1>1, <2>1 DEF CallType
  <1>4. Asked(a, e, acts, envelopes, mishaps) /\ NoClaim(a, e)
    BY <1>1, <1>2, <1>3, ActState DEF Asked, OfGuest, OfDraft, NoClaim
  <1>5. CASE ~Hears(a)
    <2>1. UNCHANGED page
      BY <1>5 DEF PreflightAnswer
    <2>2. Stores(p, g) /\ mishaps' \in 0..MaxStudioFaults
      BY <1>1, <1>2, RestState DEF Stores
    <2> HIDE DEF e
    <2> QED
      BY <1>1, <1>2, <1>3, <1>4, <1>5, <2>1, <2>2, QuietStep
  <1>6. CASE Hears(a)
    <2>1. /\ ~g.restored /\ g.text # 0 /\ a # g.mount /\ g.phase # "away" /\ c.v # 0
          /\ mishaps = 0 => \A x \in envelopes : x.act # a
      BY <1>1, <1>2, <1>6 DEF Heard, OfGuest, Asked
    <2>2. g.phase \in {"form", "gate", "sending"}
      BY <1>1, <1>6, <2>1 DEF Hearing
    <2>3. f \in PageType /\ (f.phase = g.phase /\ f.fired = g.fired /\ f.text = g.text
          /\ f.held = g.held /\ f.handle = g.handle /\ f.stored = g.stored
          /\ f.behind = g.behind /\ f.restored = g.restored /\ f.turn = g.turn
          /\ f.reads = g.reads /\ f.claims = g.claims /\ f.mount = g.mount
          /\ f.allow = g.allow)
      BY <1>1 DEF PageType
    <2>4. Shows(p, Holds(f, c.v, a)) \/ Shows(p, f)
      BY <1>6 DEF PreflightAnswer
    <2> HIDE DEF e, f
    <2>5. CASE Shows(p, f)
      <3>1. Composed(p, f)
        BY <1>1, <2>1, <2>3 DEF Composed, Hearing
      <3>2. Heard(f, e, a) /\ Stores(p, f)
        BY <1>1, <1>2, <1>3, <2>1, <2>3 DEF Heard, OfGuest, OfDraft, Stores
      <3>3. page' = [page EXCEPT ![p] = f]
        BY <2>5 DEF Shows
      <3> QED
        BY <1>1, <1>2, <1>3, <1>4, <1>6, <2>1, <2>2, <2>3, <3>1, <3>2, <3>3, HeardStep
    <2>6. CASE Shows(p, Holds(f, c.v, a))
      <3> DEFINE h == Holds(f, c.v, a)
      <3>1. "gate" \in Phases /\ a \in 0..MaxActs /\ c.v \in Version
        BY <1>1 DEF Phases, Acts, CallType
      <3>2. h \in PageType /\ (h.phase = "gate" /\ h.fired = f.fired /\ h.text = f.text
            /\ h.held = c.v /\ h.handle = f.handle /\ h.stored = f.stored
            /\ h.behind = f.behind /\ h.restored = f.restored /\ h.turn = a
            /\ h.reads = f.reads /\ h.claims = f.claims /\ h.mount = f.mount
            /\ h.allow = f.allow)
        BY <2>3, <3>1 DEF PageType, Holds, AtGate
      <3> HIDE DEF h
      <3>3. Composed(p, h)
        BY <1>1, <2>1, <2>3, <3>2 DEF Composed, Hearing
      <3>4. Heard(h, e, a) /\ Stores(p, h)
        BY <1>1, <1>2, <1>3, <2>1, <2>3, <3>2 DEF Heard, OfGuest, OfDraft, Stores
      <3>5. page' = [page EXCEPT ![p] = h]
        BY <2>6 DEF Shows, h
      <3>6. /\ h.phase \in {"form", "gate", "sending"} /\ h.mount = g.mount
            /\ h.restored = g.restored /\ h.text = g.text /\ h.claims = g.claims
            /\ h.allow = g.allow /\ h.turn = a
        BY <2>3, <3>2
      <3> HIDE DEF g, c, p
      <3> QED
        BY <1>1, <1>2, <1>3, <1>4, <1>6, <2>1, <3>2, <3>3, <3>4, <3>5, <3>6, HeardStep
           DEF g, c, p
    <2> QED
      BY <2>4, <2>5, <2>6
  <1> QED
    BY <1>5, <1>6

LEMMA PatchKeeps ==
  ASSUME StudioInv, NEW a \in Acts, PatchAnswer(a)
  PROVE  StudioInv'
  <1> DEFINE p == call[a].by
             g == page[p]
             c == call[a]
             e == [c EXCEPT !.pc = "none", !.v = 0]
             k == [c EXCEPT !.pc = "claim", !.v = 0]
             bs == (c.pc = "resend") /\ g.busy
             f == [g EXCEPT !.busy = bs]
             h == [f EXCEPT !.stored = c.v]
  <1>1. /\ p \in Tabs /\ g \in PageType /\ Composed(p, g)
        /\ Ready(p, g, call, acts, envelopes, mishaps)
        /\ g.stored \in {0} \cup pending.saved \/ g.behind
        /\ g.text # 0 /\ ~g.handle => pending.st = "none"
        /\ call \in [Acts -> CallType] /\ c \in CallType
        /\ Asked(a, c, acts, envelopes, mishaps)
        /\ Hears(a) => Heard(g, c, a) /\ g.phase \in Hearing
    BY ActOf
  <1>2. /\ c.pc \in OfDraft /\ mishaps \in 0..MaxStudioFaults
        /\ UNCHANGED <<acts, envelopes, cookies, shared, link, latest, mishaps>>
    BY RestState DEF PatchAnswer, OfDraft
  <1>3. e \in CallType /\ e.pc = "none" /\ e.by = p
    <2>1. "none" \in Calls /\ 0 \in Version
      BY StudioAssumption DEF Calls, Version
    <2> QED
      BY <1>1, <2>1 DEF CallType
  <1>4. k \in CallType /\ k.pc = "claim" /\ k.by = p
    <2>1. "claim" \in Calls /\ 0 \in Version
      BY StudioAssumption DEF Calls, Version
    <2> QED
      BY <1>1, <2>1 DEF CallType
  <1>5. /\ Asked(a, e, acts, envelopes, mishaps) /\ NoClaim(a, e)
        /\ Asked(a, k, acts, envelopes, mishaps) /\ NoClaim(a, k)
        /\ c.v # 0 /\ c.pc # "none"
    BY <1>1, <1>2, <1>3, <1>4, ActState DEF Asked, OfGuest, OfDraft, NoClaim
  <1>6. c.v \in 1..MaxVersions
    BY <1>1, <1>5, StudioAssumption DEF CallType, Version
  <1>7. bs \in BOOLEAN
    BY <1>1 DEF PageType
  <1> HIDE DEF bs
  <1>8. f \in PageType /\ (f.phase = g.phase /\ f.fired = g.fired /\ f.text = g.text
        /\ f.held = g.held /\ f.handle = g.handle /\ f.stored = g.stored
        /\ f.behind = g.behind /\ f.restored = g.restored /\ f.turn = g.turn
        /\ f.reads = g.reads /\ f.claims = g.claims /\ f.mount = g.mount
        /\ f.allow = g.allow)
    BY <1>1, <1>7 DEF PageType
  <1>9. h \in PageType /\ (h.phase = g.phase /\ h.fired = g.fired /\ h.text = g.text
        /\ h.held = g.held /\ h.handle = g.handle /\ h.stored = c.v
        /\ h.behind = g.behind /\ h.restored = g.restored /\ h.turn = g.turn
        /\ h.reads = g.reads /\ h.claims = g.claims /\ h.mount = g.mount
        /\ h.allow = g.allow)
    <2>1. c.v \in Version
      BY <1>1 DEF CallType
    <2> HIDE DEF f
    <2> QED
      BY <1>8, <2>1 DEF PageType
  <1>10. Hears(a) => /\ g.restored /\ g.text # 0 /\ a # g.mount /\ g.phase # "away"
                     /\ g.handle /\ g.held = 0
                     /\ g.phase \in {"form", "gate", "sending"}
    BY <1>1, <1>2, <1>5 DEF Heard, Composed, Hearing
  <1>11. \/ /\ Editable /\ pending' = Holding(c.v)
            /\ call' = [call EXCEPT ![a] = k] \/ call' = [call EXCEPT ![a] = e]
            /\ \/ ~Hears(a) /\ UNCHANGED page
               \/ /\ Hears(a)
                  /\ \/ Shows(p, [OffGate(h, "sending") EXCEPT !.busy = TRUE])
                     \/ Shows(p, AtGate(h))
         \/ /\ UNCHANGED pending /\ call' = [call EXCEPT ![a] = e]
            /\ \/ ~Hears(a) /\ UNCHANGED page
               \/ Hears(a) /\ Shows(p, f)
    BY DEF PatchAnswer, Calling, Quit, bs
  <1> HIDE DEF e, k, f, h
  <1>12. ASSUME ~Hears(a), UNCHANGED page, Stores(p, g),
                call' = [call EXCEPT ![a] = k] \/ call' = [call EXCEPT ![a] = e]
         PROVE  StudioInv'
    BY <1>1, <1>2, <1>3, <1>4, <1>5, <1>12, QuietStep
  <1>13. ASSUME Hears(a), NEW r \in PageType, page' = [page EXCEPT ![p] = r], Stores(p, r),
                r.phase \in {"form", "gate", "sending"}, r.fired = g.fired, r.text = g.text,
                r.held = g.held, r.handle = g.handle, r.restored = g.restored,
                r.turn = g.turn, r.reads = g.reads, r.claims = g.claims,
                r.mount = g.mount, r.allow = g.allow,
                call' = [call EXCEPT ![a] = k] \/ call' = [call EXCEPT ![a] = e]
         PROVE  StudioInv'
    <2>1. Composed(p, r)
      BY <1>1, <1>10, <1>13 DEF Composed, Hearing
    <2>2. Heard(r, e, a) /\ Heard(r, k, a)
      BY <1>3, <1>4, <1>13 DEF Heard, OfGuest, OfDraft
    <2> HIDE DEF g, c, p
    <2> QED
      BY <1>1, <1>2, <1>3, <1>4, <1>5, <1>10, <1>13, <2>1, <2>2, HeardStep DEF g, c, p
  <1>14. ASSUME Editable, pending' = Holding(c.v), NEW r \in PageType,
                r.stored \in {0, c.v} \cup pending.saved \/ r.behind,
                r.text # 0 => r.handle
         PROVE  Stores(p, r)
    BY <1>6, <1>14 DEF Stores, Editable
  <1>15. ASSUME UNCHANGED pending, NEW r \in PageType, r.stored = g.stored, r.text = g.text,
                r.behind = g.behind, r.handle = g.handle
         PROVE  Stores(p, r)
    BY <1>1, <1>15 DEF Stores
  <1>16. Editable => (g.text # 0 => g.handle)
    BY <1>1 DEF Editable
  <1>17. CASE ~Hears(a) /\ UNCHANGED page
    <2>1. Editable /\ pending' = Holding(c.v) => Stores(p, g)
      BY <1>1, <1>14, <1>16
    <2>2. UNCHANGED pending => Stores(p, g)
      BY <1>1, <1>15
    <2> QED
      BY <1>11, <1>12, <1>17, <2>1, <2>2
  <1>18. CASE Hears(a) /\ UNCHANGED pending /\ call' = [call EXCEPT ![a] = e] /\ Shows(p, f)
    <2>1. Stores(p, f)
      BY <1>8, <1>15, <1>18
    <2>2. page' = [page EXCEPT ![p] = f] /\ f.phase \in {"form", "gate", "sending"}
      BY <1>8, <1>10, <1>18 DEF Shows
    <2> QED
      BY <1>8, <1>13, <1>18, <2>1, <2>2
  <1>19. CASE /\ Hears(a) /\ Editable /\ pending' = Holding(c.v)
              /\ call' = [call EXCEPT ![a] = k] \/ call' = [call EXCEPT ![a] = e]
              /\ \/ Shows(p, [OffGate(h, "sending") EXCEPT !.busy = TRUE])
                 \/ Shows(p, AtGate(h))
    <2>1. ASSUME NEW r \in PageType, Shows(p, r), r.phase \in {"gate", "sending"},
                 r.fired = h.fired, r.text = h.text,
                 r.held = h.held, r.handle = h.handle, r.restored = h.restored,
                 r.turn = h.turn, r.reads = h.reads, r.claims = h.claims,
                 r.mount = h.mount, r.allow = h.allow, r.stored = h.stored
          PROVE  StudioInv'
      <3>1. Stores(p, r)
        BY <1>9, <1>10, <1>14, <1>19, <2>1
      <3>2. page' = [page EXCEPT ![p] = r]
        BY <2>1 DEF Shows
      <3> QED
        BY <1>9, <1>13, <1>19, <2>1, <3>1, <3>2
    <2>2. CASE Shows(p, [OffGate(h, "sending") EXCEPT !.busy = TRUE])
      <3> DEFINE r == [OffGate(h, "sending") EXCEPT !.busy = TRUE]
      <3>1. "sending" \in Phases
        BY DEF Phases
      <3>2. r \in PageType /\ (r.phase = "sending" /\ r.fired = h.fired /\ r.text = h.text
            /\ r.held = h.held /\ r.handle = h.handle /\ r.restored = h.restored
            /\ r.turn = h.turn /\ r.reads = h.reads /\ r.claims = h.claims
            /\ r.mount = h.mount /\ r.allow = h.allow /\ r.stored = h.stored)
        BY <1>9, <3>1 DEF PageType, OffGate
      <3> HIDE DEF r
      <3> QED
        BY <2>1, <2>2, <3>2 DEF r
    <2>3. CASE Shows(p, AtGate(h))
      <3> DEFINE r == AtGate(h)
      <3>1. "gate" \in Phases
        BY DEF Phases
      <3>2. r \in PageType /\ (r.phase = "gate" /\ r.fired = h.fired /\ r.text = h.text
            /\ r.held = h.held /\ r.handle = h.handle /\ r.restored = h.restored
            /\ r.turn = h.turn /\ r.reads = h.reads /\ r.claims = h.claims
            /\ r.mount = h.mount /\ r.allow = h.allow /\ r.stored = h.stored)
        BY <1>9, <3>1 DEF PageType, AtGate
      <3> HIDE DEF r
      <3> QED
        BY <2>1, <2>3, <3>2 DEF r
    <2> QED
      BY <1>19, <2>2, <2>3
  <1> QED
    BY <1>11, <1>17, <1>18, <1>19

LEMMA AnswerKeeps ==
  ASSUME StudioInv, NEW a \in Acts, SendAnswer(a)
  PROVE  StudioInv'
  <1> DEFINE p == call[a].by
             g == page[p]
             c == call[a]
             e == [c EXCEPT !.pc = "none", !.v = 0]
             bs == (a = g.mount) /\ g.busy
             f == [g EXCEPT !.busy = bs]
             us == Browser(p) \in cookies
  <1>1. /\ p \in Tabs /\ g \in PageType /\ Composed(p, g)
        /\ Ready(p, g, call, acts, envelopes, mishaps)
        /\ g.stored \in {0} \cup pending.saved \/ g.behind
        /\ g.text # 0 /\ ~g.handle => pending.st = "none"
        /\ call \in [Acts -> CallType] /\ c \in CallType
        /\ Asked(a, c, acts, envelopes, mishaps)
        /\ Hears(a) => Heard(g, c, a) /\ g.phase \in Hearing
    BY ActOf
  <1>2. /\ c.pc \in {"done", "already", "refused", "unauthorized"}
        /\ mishaps \in 0..MaxStudioFaults
        /\ UNCHANGED <<acts, pending, envelopes, cookies, shared, link, latest, mishaps>>
        /\ call' = [call EXCEPT ![a] = e]
    BY RestState DEF SendAnswer, Quit, Calling
  <1>3. e \in CallType /\ e.pc = "none" /\ e.by = p
    <2>1. "none" \in Calls /\ 0 \in Version
      BY StudioAssumption DEF Calls, Version
    <2> QED
      BY <1>1, <2>1 DEF CallType
  <1>4. /\ Asked(a, e, acts, envelopes, mishaps) /\ NoClaim(a, e)
        /\ c.pc # "none" /\ a <= acts /\ a \in Nat /\ acts \in Nat /\ latest # 0
    BY <1>1, <1>2, <1>3, ActState DEF Asked, OfGuest, OfDraft, NoClaim
  <1>5. bs \in BOOLEAN /\ us \in BOOLEAN
    BY <1>1 DEF PageType
  <1>6. f \in PageType /\ (f.phase = g.phase /\ f.fired = g.fired /\ f.text = g.text
        /\ f.held = g.held /\ f.handle = g.handle /\ f.stored = g.stored
        /\ f.behind = g.behind /\ f.restored = g.restored /\ f.turn = g.turn
        /\ f.reads = g.reads /\ f.claims = g.claims /\ f.mount = g.mount
        /\ f.allow = g.allow /\ f.retried = g.retried)
    <2> HIDE DEF bs
    <2> QED
      BY <1>1, <1>5 DEF PageType
  <1>7. CASE ~Hears(a)
    <2>1. UNCHANGED page /\ Stores(p, g)
      BY <1>1, <1>2, <1>7 DEF SendAnswer, Stores
    <2> HIDE DEF e
    <2> QED
      BY <1>1, <1>2, <1>3, <1>4, <1>7, <2>1, QuietStep
  <1>8. CASE Hears(a)
    <2>1. \/ /\ c.pc \in {"done", "already"} /\ Shows(p, [Blank EXCEPT !.phase = "sent"])
          \/ /\ c.pc = "unauthorized"
             /\ Shows(p, [Holds(f, c.v, a) EXCEPT !.fired = FALSE, !.retried = TRUE, !.user = us])
          \/ /\ c.pc \in {"refused", "unauthorized"}
             /\ g.phase = "away" /\ Shows(p, Mounted(TRUE, TRUE, a))
          \/ /\ g.phase # "away" /\ Shows(p, OffGate(f, "form"))
      <3>1. Shows(p, Ending(a)) /\ f.phase = g.phase
        BY <1>6, <1>8 DEF SendAnswer
      <3>2. Ending(a) = IF c.pc \in {"done", "already"} THEN [Blank EXCEPT !.phase = "sent"]
              ELSE IF c.pc = "unauthorized" /\ ~f.retried
              THEN [Holds(f, c.v, a) EXCEPT !.fired = FALSE, !.retried = TRUE, !.user = us]
              ELSE IF f.phase = "away" THEN Mounted(TRUE, TRUE, a)
              ELSE OffGate(f, "form")
        BY DEF Ending
      <3> HIDE DEF f, us
      <3> QED
        BY <1>2, <3>1, <3>2 DEF Shows
    <2>2. c.pc = "unauthorized" => /\ g.text # 0 /\ ~g.restored /\ a # g.mount /\ c.v # 0
                                   /\ mishaps = 0 => \A x \in envelopes : x.act # a
      BY <1>1, <1>8 DEF Heard, OfGuest, Asked
    <2>3. g.phase = "away" => a = g.mount
      BY <1>1, <1>4, <1>8 DEF Heard
    <2> HIDE DEF e, f, us
    <2>4. CASE c.pc \in {"done", "already"} /\ Shows(p, [Blank EXCEPT !.phase = "sent"])
      <3> DEFINE h == [Blank EXCEPT !.phase = "sent"]
      <3>1. "sent" \in Phases
        BY DEF Phases
      <3>2. h \in PageType /\ (h.phase = "sent" /\ h.mount = 0 /\ ~h.claims
            /\ h.text = 0 /\ h.stored = 0 /\ h.held = 0
            /\ ~h.handle /\ ~h.reads /\ ~h.restored /\ ~h.allow)
        BY <1>1, <3>1, BlankPages DEF PageType
      <3> HIDE DEF h
      <3>3. page' = [page EXCEPT ![p] = h]
        BY <2>4 DEF Shows, h
      <3>4. Composed(p, h)
        BY <3>2 DEF Composed, Hearing
      <3>5. 0 <= acts'
        BY <1>2, <1>4
      <3>6. Ready(p, h, call', acts', envelopes', mishaps')
        BY <3>2, <3>5 DEF Ready
      <3>7. h.phase \notin Hearing
        BY <3>2 DEF Hearing
      <3>8. Moves(p, h, a, e)
        BY <1>1, <1>2, <1>3, <1>4, <3>3, <3>4, <3>6, <3>7 DEF Moves, Owns
      <3>9. Stores(p, h)
        BY <1>2, <3>2 DEF Stores
      <3> QED
        BY <1>1, <1>2, <1>3, <1>4, <3>2, <3>8, <3>9, PageStep, RestState
    <2>5. CASE /\ c.pc = "unauthorized"
               /\ Shows(p, [Holds(f, c.v, a) EXCEPT !.fired = FALSE, !.retried = TRUE, !.user = us])
      <3> DEFINE h == [Holds(f, c.v, a) EXCEPT !.fired = FALSE, !.retried = TRUE, !.user = us]
      <3>1. "gate" \in Phases /\ a \in 0..MaxActs /\ c.v \in Version
        BY <1>1 DEF Phases, Acts, CallType
      <3>2. h \in PageType /\ (h.phase = "gate" /\ h.text = f.text
            /\ h.held = c.v /\ h.handle = f.handle /\ h.stored = f.stored
            /\ h.behind = f.behind /\ h.restored = f.restored /\ h.turn = a
            /\ h.reads = f.reads /\ h.claims = f.claims /\ h.mount = f.mount
            /\ h.allow = f.allow)
        BY <1>5, <1>6, <3>1 DEF PageType, Holds, AtGate, us
      <3> HIDE DEF h
      <3>3. Composed(p, h)
        BY <1>1, <1>6, <2>2, <2>5, <3>2 DEF Composed, Hearing
      <3>4. Heard(h, e, a) /\ Stores(p, h)
        BY <1>1, <1>2, <1>3, <1>6, <3>2 DEF Heard, OfGuest, OfDraft, Stores
      <3>5. page' = [page EXCEPT ![p] = h]
        BY <2>5 DEF Shows, h
      <3>6. /\ h.phase \in {"form", "gate", "sending"} /\ h.mount = g.mount
            /\ h.restored = g.restored /\ h.text = g.text /\ h.claims = g.claims
            /\ h.allow = g.allow /\ h.turn = a /\ g.phase # "away"
        BY <1>6, <2>2, <2>3, <2>5, <3>2
      <3> HIDE DEF g, c, p
      <3> QED
        BY <1>1, <1>2, <1>3, <1>4, <1>8, <2>2, <2>5, <3>2, <3>3, <3>4, <3>5, <3>6, HeardStep
           DEF g, c, p
    <2>6. CASE c.pc \in {"refused", "unauthorized"} /\ g.phase = "away"
               /\ Shows(p, Mounted(TRUE, TRUE, a))
      <3> DEFINE h == Mounted(TRUE, TRUE, a)
      <3>1. /\ h \in PageType
            /\ h.phase = "form" /\ h.handle /\ h.reads /\ h.claims = TRUE /\ h.mount = a
            /\ h.text = 0 /\ h.held = 0 /\ h.stored = 0 /\ ~h.restored /\ ~h.allow
        <4>1. a \in 0..MaxActs
          BY DEF Acts
        <4> QED
          BY <1>1, <4>1, MountedIs
      <3> HIDE DEF h
      <3>2. page' = [page EXCEPT ![p] = h]
        BY <2>6 DEF Shows, h
      <3>3. Composed(p, h)
        BY <3>1 DEF Composed, Hearing
      <3>4. call'[a] = e /\ \A b \in Acts \ {a} : call'[b] = call[b]
        BY <1>1, <1>2
      <3>5. Idle(p, a, call', acts', envelopes', mishaps')
        <4>1. mishaps = 0 => \A x \in envelopes : x.act # a
          BY <1>1, <2>2, <2>6 DEF Asked
        <4> QED
          BY <1>2, <1>3, <1>4, <3>4, <4>1 DEF Idle
      <3>6. Ready(p, h, call', acts', envelopes', mishaps')
        BY <1>2, <1>4, <3>1, <3>5 DEF Ready
      <3>7. \A b \in Acts : call'[b].by = p /\ h.phase \in Hearing /\ b >= h.mount
              => Heard(h, call'[b], b)
        <4> SUFFICES ASSUME NEW b \in Acts, call'[b].by = p, b >= a
                     PROVE  Heard(h, call'[b], b)
          BY <3>1
        <4>1. CASE b = a
          BY <1>3, <3>1, <3>4, <4>1 DEF Heard, OfGuest, OfDraft
        <4>2. CASE b # a
          <5>1. call[b].by = p /\ call'[b] = call[b]
            BY <3>4, <4>2
          <5>2. g.phase = "away" /\ a = g.mount
            BY <2>3, <2>6
          <5>3. Hears(b)
            BY <5>1, <5>2 DEF Hears
          <5>4. Heard(g, call[b], b)
            BY <5>1, <5>3, ActState
          <5>5. call[b].pc = "none"
            BY <4>2, <5>2, <5>4 DEF Heard
          <5> QED
            BY <3>1, <5>1, <5>5 DEF Heard, OfGuest, OfDraft
        <4> QED
          BY <4>1, <4>2
      <3>8. Moves(p, h, a, e)
        BY <1>1, <1>2, <1>3, <1>4, <3>2, <3>3, <3>6, <3>7 DEF Moves, Owns
      <3>9. Stores(p, h)
        BY <1>2, <3>1 DEF Stores
      <3> QED
        BY <1>1, <1>2, <1>3, <1>4, <3>1, <3>8, <3>9, PageStep, RestState
    <2>7. CASE g.phase # "away" /\ Shows(p, OffGate(f, "form"))
      <3> DEFINE h == OffGate(f, "form")
      <3>1. "form" \in Phases
        BY DEF Phases
      <3>2. h \in PageType /\ (h.phase = "form" /\ h.text = f.text
            /\ h.held = f.held /\ h.handle = f.handle /\ h.stored = f.stored
            /\ h.behind = f.behind /\ h.restored = f.restored /\ h.turn = f.turn
            /\ h.reads = f.reads /\ h.claims = f.claims /\ h.mount = f.mount
            /\ h.allow = f.allow /\ h.fired = f.fired)
        BY <1>6, <3>1 DEF PageType, OffGate
      <3> HIDE DEF h
      <3>3. Composed(p, h)
        BY <1>1, <1>6, <1>8, <3>2 DEF Composed, Hearing
      <3>4. Heard(h, e, a) /\ Stores(p, h)
        BY <1>1, <1>2, <1>3, <1>6, <3>2 DEF Heard, OfGuest, OfDraft, Stores
      <3>5. page' = [page EXCEPT ![p] = h]
        BY <2>7 DEF Shows, h
      <3>6. /\ h.phase \in {"form", "gate", "sending"} /\ h.mount = g.mount
            /\ h.restored = g.restored /\ h.text = g.text /\ h.claims = g.claims
            /\ h.allow = g.allow /\ h.held = g.held /\ h.turn = g.turn /\ h.fired = g.fired
        BY <1>6, <3>2
      <3> HIDE DEF g, c, p
      <3> QED
        BY <1>1, <1>2, <1>3, <1>4, <1>8, <2>7, <3>2, <3>3, <3>4, <3>5, <3>6, HeardStep
           DEF g, c, p
    <2> QED
      BY <2>1, <2>4, <2>5, <2>6, <2>7
  <1> QED
    BY <1>7, <1>8
-----------------------------------------------------------------------------
(* What the service does shows nowhere yet. *)
LEMMA ServiceStep ==
  ASSUME StudioInv, NEW a \in Acts, NEW d \in CallType, NEW p \in Tabs, p = call[a].by,
         call[a].pc # "none", d.pc # "none", d.by = p, call' = [call EXCEPT ![a] = d],
         UNCHANGED <<page, acts, shared, link, latest, cookies>>,
         mishaps' \in 0..MaxStudioFaults, mishaps' = 0 => mishaps = 0,
         envelopes \subseteq envelopes', envelopes' \subseteq EnvelopeType,
         IsFiniteSet(envelopes'), \A x \in envelopes' \ envelopes : x.act = a,
         Asked(a, d, acts, envelopes', mishaps'), d.pc \notin OfGuest \cup OfDraft,
         pending' \in PendingType, pending'.st = "receipt" => pending'.v = 0,
         pending'.st \in {"held", "claimed"} => pending'.v # 0,
         pending'.saved = pending.saved, pending'.v \in {0, pending.v},
         pending.st = "none" => pending'.st = "none",
         ClaimedOnce'
  PROVE  StudioInv'
  <1>1. Hears(a) => Heard(page[p], d, a)
    <2>1. Hears(a) => Heard(page[p], call[a], a)
      BY ActState
    <2> QED
      BY <2>1 DEF Heard
  <1>2. Moves(p, page[p], a, d) /\ page[p] \in PageType
    BY <1>1, CallStep, TabState
  <1>3. /\ page' \in [Tabs -> PageType] /\ call' \in [Acts -> CallType]
        /\ acts' \in 0..MaxActs /\ mishaps' \in 0..MaxStudioFaults
        /\ Pages' /\ Asks'
    BY <1>2, MovesOne
  <1>4. Drafts'
    BY DEF StudioInv, Drafts
  <1>5. Unwritten' /\ LetGo'
    <2>1. latest # 0
      BY ActState
    <2> QED
      BY <2>1 DEF Unwritten, LetGo, StudioInv
  <1>6. StudioTypeOK'
    BY <1>3, RestState DEF StudioTypeOK, PendingType, EnvelopeType
  <1> QED
    BY <1>3, <1>4, <1>5, <1>6 DEF StudioInv

(* An envelope made of what an act carries, the act's first and, if it is   *)
(* of the draft, the draft's.                                               *)
LEMMA MakeIs ==
  ASSUME StudioInv, NEW a \in Acts, NEW route \in Route, Make(a, route), call[a].v # 0,
         mishaps = 0 => \A x \in envelopes : x.act # a
  PROVE  /\ envelopes \subseteq envelopes' /\ envelopes' \subseteq EnvelopeType
         /\ IsFiniteSet(envelopes') /\ \A x \in envelopes' \ envelopes : x.act = a
         /\ mishaps = 0 => \A x, y \in envelopes' : x.act = a /\ y.act = a => x = y
         /\ route = "create" => Claims' = Claims
         /\ route = "claim" /\ Claims = {} =>
              Claims' # {} /\ \A x, y \in Claims' : x = y
  <1> DEFINE mine == {x \in envelopes : x.act = a}
             z == [n |-> Cardinality(mine) + 1, act |-> a, by |-> call[a].by,
                   v |-> call[a].v, route |-> route]
  <1>1. envelopes \subseteq EnvelopeType /\ IsFiniteSet(envelopes)
    BY RestState
  <1>2. Cardinality(mine) \in Nat
    BY <1>1, FS_Subset, FS_CardinalityType
  <1>3. call[a].by \in Tabs /\ call[a].v \in 1..MaxVersions
    BY ActState, StudioAssumption DEF CallType, Version
  <1>4. z \in EnvelopeType /\ z.act = a /\ z.route = route
    <2>1. Cardinality(mine) + 1 \in Nat \ {0}
      BY <1>2
    <2> HIDE DEF mine
    <2> QED
      BY <1>3, <2>1 DEF EnvelopeType
  <1>5. envelopes' = envelopes \cup {z}
    BY DEF Make
  <1> HIDE DEF z, mine
  <1>6. IsFiniteSet(envelopes')
    BY <1>1, <1>5, FS_AddElement
  <1>7. mishaps = 0 => \A x, y \in envelopes' : x.act = a /\ y.act = a => x = y
    BY <1>5
  <1>8. Claims' = IF route = "claim" THEN Claims \cup {z} ELSE Claims
    BY <1>4, <1>5 DEF Claims, Route
  <1> QED
    BY <1>1, <1>4, <1>5, <1>6, <1>7, <1>8

(* The act of a service's step. *)
LEMMA Comes ==
  ASSUME StudioInv, NEW a \in Acts, NEW pc \in Calls, NEW v \in Version, Calling(a, pc, v)
  PROVE  \E d \in CallType :
           /\ d.pc = pc /\ d.v = v /\ d.by = call[a].by
           /\ call' = [call EXCEPT ![a] = d] /\ call'[a] = d
           /\ \A b \in Acts \ {a} : call'[b] = call[b]
  <1> DEFINE d == [call[a] EXCEPT !.pc = pc, !.v = v]
  <1>1. call \in [Acts -> CallType] /\ call[a] \in CallType
    BY ActState
  <1>2. d \in CallType /\ d.pc = pc /\ d.v = v /\ d.by = call[a].by
    BY <1>1 DEF CallType
  <1>3. call' = [call EXCEPT ![a] = d]
    BY DEF Calling
  <1> HIDE DEF d
  <1> QED
    BY <1>1, <1>2, <1>3

LEMMA ClaimKeepsInv ==
  ASSUME StudioInv, NEW a \in Acts, ClaimPending(a)
  PROVE  StudioInv'
  <1> DEFINE p == call[a].by
             c == call[a]
  <1>1. /\ p \in Tabs /\ c \in CallType /\ Asked(a, c, acts, envelopes, mishaps)
        /\ c.pc = "claim" /\ a <= acts /\ a \in Nat /\ acts \in Nat /\ ~(a > acts)
        /\ Hears(a) => Heard(page[p], c, a)
    <2>1. c.pc = "claim"
      BY DEF ClaimPending
    <2>2. a <= acts /\ a \in Nat /\ acts \in Nat
      BY <2>1, ActState
    <2>3. ~(a > acts)
      BY <2>2
    <2> QED
      BY <2>1, <2>2, <2>3, ActState
  <1>2. /\ pending \in PendingType /\ (pending.st = "receipt" => pending.v = 0)
        /\ envelopes \subseteq EnvelopeType /\ IsFiniteSet(envelopes)
        /\ mishaps \in 0..MaxStudioFaults
        /\ UNCHANGED <<page, acts, envelopes, cookies, shared, link, latest, mishaps>>
    BY RestState DEF ClaimPending
  <1>3. /\ pending.st \in {"held", "claimed"} => pending.v # 0
        /\ ClaimedOnce
    BY DEF StudioInv, Drafts
  <1>4. ASSUME NEW pc \in {"refused", "already"}, Calling(a, pc, c.v), UNCHANGED pending
        PROVE  StudioInv'
    <2>1. pc \in Calls /\ c.v \in Version
      BY <1>1 DEF Calls, CallType
    <2>2. PICK d \in CallType :
             /\ d.pc = pc /\ d.v = c.v /\ d.by = p
             /\ call' = [call EXCEPT ![a] = d] /\ call'[a] = d
             /\ \A b \in Acts \ {a} : call'[b] = call[b]
      BY <1>4, <2>1, Comes
    <2>3. Asked(a, d, acts, envelopes, mishaps)
      BY <1>1, <1>4, <2>2 DEF Asked, OfGuest, OfDraft
    <2>4. Heard(page[p], d, a) \/ ~Hears(a)
      BY <1>1, <1>4, <2>2 DEF Heard, OfGuest, OfDraft
    <2>5. NoClaim(a, d)
      BY <1>1, <1>4, <2>2 DEF NoClaim
    <2>6. Stores(p, page[p])
      BY <1>1, <1>4, TabState DEF Stores
    <2>7. call[a].pc # "none" /\ d.pc # "none"
      BY <1>1, <1>4, <2>2
    <2> QED
      BY <1>1, <1>2, <2>2, <2>3, <2>4, <2>5, <2>6, <2>7, QuietStep
  <1>5. ASSUME Claimable, Calling(a, "claimed", pending.v),
               pending' = [pending EXCEPT !.st = "claimed"]
        PROVE  StudioInv'
    <2>1. "claimed" \in Calls /\ pending.v \in Version
      BY <1>2 DEF Calls, PendingType
    <2>2. PICK d \in CallType :
             /\ d.pc = "claimed" /\ d.v = pending.v /\ d.by = p
             /\ call' = [call EXCEPT ![a] = d] /\ call'[a] = d
             /\ \A b \in Acts \ {a} : call'[b] = call[b]
      BY <1>5, <2>1, Comes
    <2>3. /\ pending.st = "held" /\ pending' \in PendingType /\ pending'.st = "claimed"
          /\ pending'.v = pending.v /\ pending'.saved = pending.saved
      BY <1>2, <1>5 DEF Claimable, PendingType
    <2>4. Asked(a, d, acts, envelopes, mishaps)
      BY <1>1, <1>3, <2>2, <2>3 DEF Asked, OfGuest, OfDraft
    <2>5. ClaimedOnce'
      <3>1. \A b \in Acts : ~Claiming(b)
        BY <1>3, <2>3 DEF ClaimedOnce
      <3>2. Claims = {} /\ Claims' = {}
        BY <1>2, <1>3, <2>3, <3>1 DEF ClaimedOnce, Claiming, Claims
      <3>3. \A b \in Acts \ {a} : ~Claiming(b)'
        BY <2>2, <3>1 DEF Claiming
      <3> QED
        BY <2>3, <3>2, <3>3 DEF ClaimedOnce
    <2>6. /\ call[a].pc # "none" /\ d.pc # "none" /\ d.pc \notin OfGuest \cup OfDraft
          /\ pending'.v # 0
      BY <1>1, <1>3, <2>2, <2>3 DEF OfGuest, OfDraft
    <2> QED
      BY <1>1, <1>2, <2>2, <2>3, <2>4, <2>5, <2>6, ServiceStep
  <1> QED
    <2>1. \/ \E pc \in {"refused", "already"} : Calling(a, pc, c.v) /\ UNCHANGED pending
          \/ /\ Claimable /\ Calling(a, "claimed", pending.v)
             /\ pending' = [pending EXCEPT !.st = "claimed"]
      BY DEF ClaimPending, Goes
    <2> QED
      BY <1>4, <1>5, <2>1

LEMMA CreateDraftKeeps ==
  ASSUME StudioInv, NEW a \in Acts, CreateFromDraft(a)
  PROVE  StudioInv'
  <1> DEFINE p == call[a].by
             c == call[a]
  <1>1. /\ p \in Tabs /\ c \in CallType /\ Asked(a, c, acts, envelopes, mishaps)
        /\ c.pc = "claimed" /\ a <= acts /\ a \in Nat /\ acts \in Nat /\ ~(a > acts)
        /\ c.v \in Version
    <2>1. c.pc = "claimed"
      BY DEF CreateFromDraft
    <2>2. a <= acts /\ a \in Nat /\ acts \in Nat
      BY <2>1, ActState
    <2>3. ~(a > acts)
      BY <2>2
    <2> QED
      BY <2>1, <2>2, <2>3, ActState DEF CallType
  <1>2. /\ pending \in PendingType /\ (pending.st = "receipt" => pending.v = 0)
        /\ envelopes \subseteq EnvelopeType /\ IsFiniteSet(envelopes)
        /\ mishaps \in 0..MaxStudioFaults
        /\ UNCHANGED <<page, acts, cookies, shared, link, latest, mishaps>>
    BY RestState DEF CreateFromDraft
  <1>3. /\ pending.st \in {"held", "claimed"} => pending.v # 0
        /\ ClaimedOnce
    BY DEF StudioInv, Drafts
  <1>4. /\ Claims = {} /\ pending.st \in {"claimed", "gone"}
        /\ \A b \in Acts \ {a} : ~Claiming(b)
    BY <1>1, <1>3 DEF ClaimedOnce, Claiming
  <1>5. c.v # 0 /\ (mishaps = 0 => \A x \in envelopes : x.act # a)
    BY <1>1 DEF Asked
  <1>6. CASE Goes(a, "made") /\ Make(a, "claim") /\ UNCHANGED pending
    <2>1. "made" \in Calls /\ "claim" \in Route
      BY DEF Calls, Route
    <2>2. PICK d \in CallType :
             /\ d.pc = "made" /\ d.v = c.v /\ d.by = p
             /\ call' = [call EXCEPT ![a] = d] /\ call'[a] = d
             /\ \A b \in Acts \ {a} : call'[b] = call[b]
      BY <1>1, <1>6, <2>1, Comes DEF Goes
    <2>3. /\ envelopes \subseteq envelopes' /\ envelopes' \subseteq EnvelopeType
          /\ IsFiniteSet(envelopes') /\ \A x \in envelopes' \ envelopes : x.act = a
          /\ mishaps = 0 => \A x, y \in envelopes' : x.act = a /\ y.act = a => x = y
          /\ Claims' # {} /\ \A x, y \in Claims' : x = y
      BY <1>4, <1>5, <1>6, <2>1, MakeIs
    <2>4. Asked(a, d, acts, envelopes', mishaps')
      BY <1>1, <1>2, <2>2, <2>3 DEF Asked, OfGuest, OfDraft
    <2>5. ClaimedOnce'
      BY <1>4, <1>6, <2>2, <2>3 DEF ClaimedOnce, Claiming
    <2>6. d.pc \notin OfGuest \cup OfDraft
      BY <2>2 DEF OfGuest, OfDraft
    <2> QED
      BY <1>1, <1>2, <1>3, <1>6, <2>2, <2>3, <2>4, <2>5, <2>6, ServiceStep
  <1>7. CASE /\ Goes(a, "refused") /\ UNCHANGED envelopes
             /\ pending' = IF pending.st = "claimed" THEN [pending EXCEPT !.st = "held"]
                           ELSE pending
    <2>1. "refused" \in Calls
      BY DEF Calls
    <2>2. PICK d \in CallType :
             /\ d.pc = "refused" /\ d.v = c.v /\ d.by = p
             /\ call' = [call EXCEPT ![a] = d] /\ call'[a] = d
             /\ \A b \in Acts \ {a} : call'[b] = call[b]
      BY <1>1, <1>7, <2>1, Comes DEF Goes
    <2>3. Asked(a, d, acts, envelopes', mishaps')
      BY <1>1, <1>2, <1>7, <2>2 DEF Asked, OfGuest, OfDraft
    <2>4. /\ pending' \in PendingType /\ pending'.v = pending.v /\ pending'.saved = pending.saved
          /\ pending'.st \in {"held", "gone"}
          /\ pending'.st = "held" => pending.st = "claimed"
      BY <1>2, <1>4, <1>7 DEF PendingType
    <2>5. Claims' = {}
      BY <1>4, <1>7 DEF Claims
    <2>6. ClaimedOnce'
      BY <1>4, <2>2, <2>5 DEF ClaimedOnce, Claiming
    <2>7. d.pc \notin OfGuest \cup OfDraft
      BY <2>2 DEF OfGuest, OfDraft
    <2> QED
      BY <1>1, <1>2, <1>3, <1>4, <1>7, <2>2, <2>3, <2>4, <2>6, <2>7, ServiceStep
  <1> QED
    BY <1>6, <1>7 DEF CreateFromDraft

LEMMA ReceiptKeeps ==
  ASSUME StudioInv, NEW a \in Acts, RecordReceipt(a)
  PROVE  StudioInv'
  <1> DEFINE p == call[a].by
             c == call[a]
  <1>1. /\ p \in Tabs /\ c \in CallType /\ Asked(a, c, acts, envelopes, mishaps)
        /\ c.pc = "made" /\ a <= acts /\ a \in Nat /\ acts \in Nat /\ ~(a > acts)
        /\ c.v \in Version
    <2>1. c.pc = "made"
      BY DEF RecordReceipt
    <2>2. a <= acts /\ a \in Nat /\ acts \in Nat
      BY <2>1, ActState
    <2>3. ~(a > acts)
      BY <2>2
    <2> QED
      BY <2>1, <2>2, <2>3, ActState DEF CallType
  <1>2. /\ pending \in PendingType /\ (pending.st = "receipt" => pending.v = 0)
        /\ envelopes \subseteq EnvelopeType /\ IsFiniteSet(envelopes)
        /\ mishaps \in 0..MaxStudioFaults
        /\ UNCHANGED <<page, acts, envelopes, cookies, shared, link, latest, mishaps>>
    BY RestState DEF RecordReceipt
  <1>3. ClaimedOnce
    BY DEF StudioInv
  <1>4. /\ pending.st \in {"claimed", "gone"} /\ \A b \in Acts \ {a} : ~Claiming(b)
        /\ \A x, y \in Claims : x = y
    BY <1>1, <1>3 DEF ClaimedOnce, Claiming
  <1>5. "done" \in Calls /\ 0 \in Version
    BY StudioAssumption DEF Calls, Version
  <1>6. PICK d \in CallType :
           /\ d.pc = "done" /\ d.v = c.v /\ d.by = p
           /\ call' = [call EXCEPT ![a] = d] /\ call'[a] = d
           /\ \A b \in Acts \ {a} : call'[b] = call[b]
    BY <1>1, <1>5, Comes DEF RecordReceipt, Goes
  <1>7. Asked(a, d, acts, envelopes, mishaps)
    BY <1>1, <1>6 DEF Asked, OfGuest, OfDraft
  <1>8. /\ pending' \in PendingType /\ pending'.v \in {0, pending.v}
        /\ pending'.saved = pending.saved
        /\ pending'.st \in {"receipt", "gone"}
        /\ pending'.st = "receipt" => pending'.v = 0
    BY <1>2, <1>4, <1>5 DEF PendingType, RecordReceipt, Receipt
  <1>9. ClaimedOnce'
    <2>1. Claims' = Claims
      BY <1>2 DEF Claims
    <2> QED
      BY <1>4, <1>6, <1>8, <2>1 DEF ClaimedOnce, Claiming
  <1>10. d.pc \notin OfGuest \cup OfDraft
    BY <1>6 DEF OfGuest, OfDraft
  <1> QED
    BY <1>1, <1>2, <1>4, <1>6, <1>7, <1>8, <1>9, <1>10, ServiceStep

LEMMA CreateKeeps ==
  ASSUME StudioInv, NEW a \in Acts, CreateEnvelope(a)
  PROVE  StudioInv'
  <1> DEFINE p == call[a].by
             c == call[a]
  <1>1. /\ p \in Tabs /\ c \in CallType /\ Asked(a, c, acts, envelopes, mishaps)
        /\ c.pc = "create" /\ a <= acts /\ a \in Nat /\ acts \in Nat /\ ~(a > acts)
        /\ c.v \in Version /\ (Hears(a) => Heard(page[p], c, a))
    <2>1. c.pc = "create"
      BY DEF CreateEnvelope
    <2>2. a <= acts /\ a \in Nat /\ acts \in Nat
      BY <2>1, ActState
    <2>3. ~(a > acts)
      BY <2>2
    <2> QED
      BY <2>1, <2>2, <2>3, ActState DEF CallType
  <1>2. /\ pending \in PendingType /\ (pending.st = "receipt" => pending.v = 0)
        /\ envelopes \subseteq EnvelopeType /\ IsFiniteSet(envelopes)
        /\ mishaps \in 0..MaxStudioFaults
        /\ UNCHANGED <<page, acts, pending, cookies, shared, link, latest>>
    BY RestState DEF CreateEnvelope
  <1>3. /\ pending.st \in {"held", "claimed"} => pending.v # 0
        /\ ClaimedOnce
    BY DEF StudioInv, Drafts
  <1>4. c.v # 0 /\ (mishaps = 0 => \A x \in envelopes : x.act # a)
    BY <1>1 DEF Asked, OfGuest
  <1>5. {"unauthorized", "refused", "done"} \subseteq Calls /\ "create" \in Route
    BY DEF Calls, Route
  <1>6. ASSUME NEW pc \in {"unauthorized", "refused"}, Goes(a, pc),
               UNCHANGED <<envelopes, mishaps>>
        PROVE  StudioInv'
    <2>1. PICK d \in CallType :
             /\ d.pc = pc /\ d.v = c.v /\ d.by = p
             /\ call' = [call EXCEPT ![a] = d] /\ call'[a] = d
             /\ \A b \in Acts \ {a} : call'[b] = call[b]
      BY <1>1, <1>5, <1>6, Comes DEF Goes
    <2>2. Asked(a, d, acts, envelopes, mishaps)
      BY <1>1, <1>4, <1>6, <2>1 DEF Asked
    <2>3. Heard(page[p], d, a) \/ ~Hears(a)
      BY <1>1, <1>6, <2>1 DEF Heard, OfGuest, OfDraft
    <2>4. NoClaim(a, d)
      BY <1>1, <1>6, <2>1 DEF NoClaim
    <2>5. Stores(p, page[p])
      BY <1>1, <1>2, TabState DEF Stores
    <2>6. call[a].pc # "none" /\ d.pc # "none"
      BY <1>1, <1>6, <2>1
    <2> QED
      BY <1>1, <1>2, <1>6, <2>1, <2>2, <2>3, <2>4, <2>5, <2>6, QuietStep
  <1>7. ASSUME NEW pc \in {"refused", "done"}, Goes(a, pc), Make(a, "create"),
               mishaps' \in 0..MaxStudioFaults, mishaps' = 0 => mishaps = 0 /\ pc = "done"
        PROVE  StudioInv'
    <2>1. PICK d \in CallType :
             /\ d.pc = pc /\ d.v = c.v /\ d.by = p
             /\ call' = [call EXCEPT ![a] = d] /\ call'[a] = d
             /\ \A b \in Acts \ {a} : call'[b] = call[b]
      BY <1>1, <1>5, <1>7, Comes DEF Goes
    <2>2. /\ envelopes \subseteq envelopes' /\ envelopes' \subseteq EnvelopeType
          /\ IsFiniteSet(envelopes') /\ \A x \in envelopes' \ envelopes : x.act = a
          /\ mishaps = 0 => \A x, y \in envelopes' : x.act = a /\ y.act = a => x = y
          /\ Claims' = Claims
      BY <1>4, <1>5, <1>7, MakeIs
    <2>3. Asked(a, d, acts, envelopes', mishaps')
      BY <1>1, <1>7, <2>1, <2>2 DEF Asked, OfGuest, OfDraft
    <2>4. ClaimedOnce'
      <3>1. \A b \in Acts : /\ call'[b].pc = "claimed" <=> call[b].pc = "claimed"
                            /\ call'[b].pc = "made" <=> call[b].pc = "made"
        BY <1>1, <1>7, <2>1
      <3> QED
        BY <1>2, <1>3, <2>2, <3>1 DEF ClaimedOnce, Claiming
    <2>5. d.pc \notin OfGuest \cup OfDraft /\ call[a].pc # "none" /\ d.pc # "none"
      BY <1>1, <1>7, <2>1 DEF OfGuest, OfDraft
    <2> QED
      BY <1>1, <1>2, <1>3, <1>7, <2>1, <2>2, <2>3, <2>4, <2>5, ServiceStep
  <1>8. Mishap => mishaps' \in 0..MaxStudioFaults /\ mishaps' # 0
    BY <1>2, StudioAssumption DEF Mishap
  <1> QED
    BY <1>2, <1>6, <1>7, <1>8 DEF CreateEnvelope

LEMMA SweepKeeps ==
  ASSUME StudioInv, SweepPending
  PROVE  StudioInv'
  <1>1. /\ pending \in PendingType /\ pending.st # "none"
        /\ UNCHANGED <<page, call, acts, envelopes, cookies, shared, link, latest, mishaps>>
    BY RestState DEF SweepPending
  <1>2. /\ pending' \in PendingType /\ pending'.st = "gone" /\ pending'.v = pending.v
        /\ pending'.saved = pending.saved
    BY <1>1 DEF SweepPending, PendingType
  <1>3. StudioTypeOK' /\ IsFiniteSet(envelopes)'
    BY <1>1, <1>2 DEF StudioInv, StudioTypeOK, PendingType
  <1>4. Pages' /\ LetGo'
    BY <1>1 DEF StudioInv, Pages, LetGo
  <1>5. Asks'
    BY <1>1 DEF StudioInv, Asks, Hears
  <1>6. Drafts'
    BY <1>1, <1>2 DEF StudioInv, Drafts
  <1>7. Unwritten'
    BY <1>1, <1>2 DEF StudioInv, Unwritten
  <1>8. ClaimedOnce'
    BY <1>1, <1>2 DEF StudioInv, ClaimedOnce, Claiming, Claims
  <1> QED
    BY <1>3, <1>4, <1>5, <1>6, <1>7, <1>8 DEF StudioInv
-----------------------------------------------------------------------------
LEMMA StudioStarts == StudioInit => StudioInv
  <1> SUFFICES ASSUME StudioInit PROVE StudioInv
    OBVIOUS
  <1>1. 0 \in Version /\ 0 \in 0..MaxStudioFaults /\ 0 \in 0..MaxActs
        /\ Acts \subseteq Nat \ {0} /\ \A b \in Acts : b > 0
    BY StudioAssumption DEF Version, Acts
  <1>2. PICK u \in BOOLEAN :
          page = [p \in Tabs |-> IF p = "composer"
                                 THEN [Blank EXCEPT !.phase = "form", !.user = u] ELSE Blank]
    BY DEF StudioInit
  <1> DEFINE first == [Blank EXCEPT !.phase = "form", !.user = u]
  <1>3. Blank \in PageType
    BY StudioAssumption DEF Blank, PageType, Version, Phases
  <1>4. first \in PageType
    BY <1>3 DEF PageType, Phases
  <1>5. \A g \in {first, Blank} :
          /\ g.phase \in {"form", "closed"} /\ g.text = 0 /\ g.stored = 0 /\ g.held = 0
          /\ ~g.reads /\ ~g.restored /\ ~g.allow /\ ~g.handle /\ ~g.claims /\ g.mount = 0
    <2>1. /\ Blank.phase = "closed" /\ Blank.text = 0 /\ Blank.stored = 0 /\ Blank.held = 0
          /\ ~Blank.reads /\ ~Blank.restored /\ ~Blank.allow /\ ~Blank.handle
          /\ ~Blank.claims /\ Blank.mount = 0
      BY DEF Blank
    <2>2. /\ first.phase = "form" /\ first.text = Blank.text /\ first.stored = Blank.stored
          /\ first.held = Blank.held /\ first.reads = Blank.reads
          /\ first.restored = Blank.restored /\ first.allow = Blank.allow
          /\ first.handle = Blank.handle /\ first.claims = Blank.claims
          /\ first.mount = Blank.mount
      BY <1>3 DEF PageType
    <2> HIDE DEF first
    <2> QED
      BY <2>1, <2>2
  <1>6. page["landing"] = Blank /\ \A p \in Tabs : page[p] \in {first, Blank}
    BY <1>2 DEF Tabs
  <1>7. Blank.phase = "closed"
    BY DEF Blank
  <1> HIDE DEF first
  <1>8. page \in [Tabs -> PageType]
    BY <1>2, <1>3, <1>4 DEF first
  <1>9. call \in [Acts -> CallType] /\ \A a \in Acts : call[a].pc = "none"
    BY <1>1 DEF StudioInit, CallType, Calls, Tabs
  <1>10. pending.st = "none" /\ pending.v = 0 /\ pending.saved = {} /\ pending \in PendingType
    BY <1>1 DEF StudioInit, PendingType
  <1>11. StudioTypeOK
    BY <1>1, <1>8, <1>9, <1>10 DEF StudioInit, StudioTypeOK, PendingType
  <1>12. IsFiniteSet(envelopes)
    BY FS_EmptySet DEF StudioInit
  <1>13. Pages
    <2>1. 0 <= acts
      BY DEF StudioInit
    <2>2. \A p \in Tabs : Composed(p, page[p])
      BY <1>5, <1>6 DEF Composed, Hearing
    <2>3. \A p \in Tabs : Ready(p, page[p], call, acts, envelopes, mishaps)
      BY <1>5, <1>6, <2>1 DEF Ready
    <2> QED
      BY <2>2, <2>3 DEF Pages
  <1>14. Asks
    BY <1>9 DEF Asks, Asked, Heard, OfGuest, OfDraft, StudioInit
  <1>15. Drafts /\ LetGo /\ Unwritten
    BY <1>5, <1>6, <1>7, <1>10 DEF Drafts, LetGo, Unwritten, StudioInit
  <1>16. ClaimedOnce
    BY <1>9 DEF ClaimedOnce, Claiming, Claims, StudioInit
  <1> QED
    BY <1>11, <1>12, <1>13, <1>14, <1>15, <1>16 DEF StudioInv

(* Every step of the two tabs, their acts and the service keeps it.         *)
LEMMA StudioKeeps == StudioInv /\ [StudioNext]_studioVars => StudioInv'
  <1> SUFFICES ASSUME StudioInv, [StudioNext]_studioVars PROVE StudioInv'
    OBVIOUS
  <1>1. CASE UNCHANGED studioVars
    BY <1>1 DEF studioVars, StudioInv, StudioTypeOK, Pages, Asks, Hears, Drafts, Unwritten,
       LetGo, ClaimedOnce, Claiming, Claims
  <1>2. CASE OpenSignInLink \/ SweepPending
    BY <1>2, OpenKeeps, SweepKeeps
  <1>3. CASE \E p \in Tabs :
               \/ Edit(p) \/ PressSend(p) \/ ResendFromRestore(p) \/ BackToForm(p)
               \/ AskForLink(p) \/ SignInHere(p) \/ LeaveForGoogle(p) \/ BackFromGoogle(p)
    BY <1>3, EditKeeps, PressKeeps, ResendKeeps, BackKeeps, AskKeeps, SignInHereKeeps,
       LeaveGoogleKeeps, BackGoogleKeeps
  <1>4. CASE \E p \in Tabs :
               \/ SeeSession(p) \/ GateFires(p) \/ WatchDraft(p) \/ RestoreDraft(p)
               \/ ClaimOnLanding(p) \/ LeaveSilently(p)
    BY <1>4, SeeKeeps, FiresKeeps, WatchKeeps, RestoreKeeps, LandingKeeps, LeaveKeeps
  <1>5. CASE \E a \in Acts :
               \/ Dispatch(a) \/ PreflightAnswer(a) \/ PatchAnswer(a) \/ ClaimPending(a)
               \/ CreateFromDraft(a) \/ RecordReceipt(a) \/ CreateEnvelope(a) \/ SendAnswer(a)
    BY <1>5, DispatchKeeps, PreflightKeeps, PatchKeeps, ClaimKeepsInv, CreateDraftKeeps,
       ReceiptKeeps, CreateKeeps, AnswerKeeps
  <1> QED
    BY <1>1, <1>2, <1>3, <1>4, <1>5 DEF StudioNext

(* The invariant the theorems below rest on.                                *)
THEOREM StudioIsSound == StudioSpec => []StudioInv
  BY StudioStarts, StudioKeeps, PTL DEF StudioSpec

(* The types hold, whatever the bounds. *)
THEOREM StudioTypes == StudioSpec => []StudioTypeOK
  <1>1. StudioInv => StudioTypeOK
    BY DEF StudioInv
  <1> QED
    BY <1>1, StudioIsSound, PTL

(* Each press sends once, and the stored draft is sent once                 *)
(* (CreateEnvelopePage.tsx, pendingSend.ts).                                *)
THEOREM EachActOnce == StudioSpec => []EachActSendsOnce
  <1>1. StudioInv => EachActSendsOnce
    <2> SUFFICES ASSUME StudioInv, mishaps = 0, NEW x \in envelopes, NEW y \in envelopes,
                        x.act = y.act \/ (x.route = "claim" /\ y.route = "claim")
                 PROVE  x = y
      BY DEF EachActSendsOnce
    <2>1. CASE x.act = y.act
      <3>1. x.act \in Acts
        BY RestState DEF EnvelopeType
      <3>2. Asked(x.act, call[x.act], acts, envelopes, mishaps)
        BY <3>1, ActState
      <3> QED
        BY <2>1, <3>2 DEF Asked
    <2>2. CASE x.route = "claim" /\ y.route = "claim"
      BY <2>2 DEF StudioInv, ClaimedOnce, Claims
    <2> QED
      BY <2>1, <2>2
  <1> QED
    BY <1>1, StudioIsSound, PTL

(* A step that shows something in one tab closes none.                      *)
LEMMA StaysOpen ==
  ASSUME StudioInv, NEW p \in Tabs, NEW q \in Tabs, NEW h, Shows(q, h),
         h.phase # "closed", page[p].phase # "closed"
  PROVE  page'[p].phase # "closed"
  BY TabState DEF Shows

(* An open tab closes only by the silent leave.                             *)
LEMMA OnlyLeavingCloses ==
  ASSUME StudioInv, [StudioNext]_studioVars, NEW p \in Tabs,
         page[p].phase # "closed", page'[p].phase = "closed"
  PROVE  LeaveSilently(p)
  <1>1. ~UNCHANGED page
    OBVIOUS
  <1>2. ASSUME NEW q \in Tabs, NEW h, Shows(q, h), h.phase # "closed" PROVE FALSE
    BY <1>2, StaysOpen
  <1>3. ASSUME NEW q \in Tabs, NEW g \in PageType, Shows(q, g) PROVE g.phase = "closed"
    BY <1>3, <1>2
  <1>4. \A q \in Tabs : page[q] \in PageType
    BY TabState
  <1>5. ~OpenSignInLink /\ ~SweepPending
    <2>1. "landing" \in Tabs
      BY DEF Tabs
    <2>2. \A c, u, m : Mounted(c, u, m).phase = "form"
      BY DEF Mounted, Blank
    <2> QED
      BY <1>1, <1>2, <2>1, <2>2 DEF OpenSignInLink, SweepPending
  <1>6. ASSUME NEW q \in Tabs, NEW g, Store(q, g), g.phase # "closed", g \in PageType PROVE FALSE
    <2> DEFINE h == [g EXCEPT !.handle = TRUE, !.stored = g.text, !.behind = (g.held # g.text)]
    <2>1. h.phase = g.phase
      BY <1>6 DEF PageType
    <2> HIDE DEF h
    <2>2. Shows(q, g) \/ Shows(q, h)
      BY <1>6 DEF Store, h
    <2> QED
      BY <1>2, <1>6, <2>1, <2>2
  <1>7. ASSUME NEW q \in Tabs PROVE ~Edit(q) /\ ~PressSend(q) /\ ~BackToForm(q) /\ ~SeeSession(q)
    <2>1. /\ [page[q] EXCEPT !.text = latest + 1].phase = page[q].phase
          /\ OffGate(page[q], "form").phase = "form"
          /\ [page[q] EXCEPT !.user = ~@].phase = page[q].phase
      BY <1>4 DEF PageType, OffGate
    <2>2. \A bs : [page[q] EXCEPT !.retried = FALSE, !.busy = bs].phase = page[q].phase
      BY <1>4 DEF PageType
    <2>3. ~Edit(q) /\ ~BackToForm(q) /\ ~SeeSession(q)
      BY <1>2, <2>1 DEF Edit, BackToForm, SeeSession
    <2>4. ~PressSend(q)
      BY <1>2, <2>2 DEF PressSend
    <2> QED
      BY <2>3, <2>4
  <1>8. ASSUME NEW q \in Tabs
        PROVE  ~AskForLink(q) /\ ~SignInHere(q) /\ ~ResendFromRestore(q) /\ ~WatchDraft(q)
    <2>1. ~AskForLink(q)
      BY <1>4, <1>6 DEF AskForLink, Waits
    <2>2. Over(page[q]).phase = "elsewhere"
      BY <1>4, BlankPages
    <2> QED
      BY <1>1, <1>2, <2>1, <2>2 DEF SignInHere, ResendFromRestore, WatchDraft
  <1>9. ASSUME NEW q \in Tabs PROVE ~LeaveForGoogle(q)
    <2> DEFINE g == [page[q] EXCEPT !.allow = TRUE]
               h == [g EXCEPT !.phase = "away", !.claims = FALSE, !.mount = acts + 1]
    <2>1. g \in PageType /\ g.phase = page[q].phase
      BY <1>4 DEF PageType
    <2>2. acts < MaxActs => h \in PageType /\ h.phase = "away"
      <3>1. acts < MaxActs => acts + 1 \in 0..MaxActs
        BY NewAct
      <3>2. "away" \in Phases
        BY DEF Phases
      <3> HIDE DEF g
      <3> QED
        BY <2>1, <3>1, <3>2 DEF PageType
    <2>3. LeaveForGoogle(q) => /\ page[q].phase = "gate"
                               /\ (acts < MaxActs /\ Store(q, h)) \/ Store(q, g)
      BY DEF LeaveForGoogle, Waits, Acts1
    <2> HIDE DEF g, h
    <2> QED
      BY <1>6, <2>1, <2>2, <2>3
  <1>10. ASSUME NEW q \in Tabs PROVE ~BackFromGoogle(q) /\ ~GateFires(q) /\ ~ClaimOnLanding(q)
    <2>1. \A c, u, m : Mounted(c, u, m).phase = "form"
      BY DEF Mounted, Blank
    <2>2. ~BackFromGoogle(q)
      BY <1>1, <1>2, <2>1 DEF BackFromGoogle
    <2>3. /\ [OffGate(page[q], "sending") EXCEPT !.fired = TRUE, !.busy = TRUE].phase = "sending"
          /\ [page[q] EXCEPT !.seen = TRUE].phase = page[q].phase
      BY <1>4 DEF PageType, OffGate
    <2>4. ~GateFires(q)
      BY <1>2, <2>3 DEF GateFires
    <2> DEFINE h == [page[q] EXCEPT !.claims = FALSE]
    <2>5. h \in PageType /\ h.phase = page[q].phase
      BY <1>4 DEF PageType
    <2> HIDE DEF h
    <2>6. OffGate(h, "sending").phase = "sending"
      BY <2>5 DEF PageType, OffGate
    <2>7. ~ClaimOnLanding(q)
      BY <1>2, <2>5, <2>6 DEF ClaimOnLanding, h
    <2> QED
      BY <2>2, <2>4, <2>7
  <1>11. ASSUME NEW q \in Tabs PROVE ~RestoreDraft(q)
    <2> DEFINE g == [page[q] EXCEPT !.reads = FALSE]
               h1 == [g EXCEPT !.restored = TRUE, !.text = pending.v, !.stored = pending.v]
               h2 == Over(g)
               h3 == [g EXCEPT !.handle = FALSE]
    <2>1. g \in PageType /\ g.phase = page[q].phase
      BY <1>4 DEF PageType
    <2>2. RestoreDraft(q) => page[q].reads /\ (Shows(q, h1) \/ Shows(q, h2) \/ Shows(q, h3))
      BY DEF RestoreDraft
    <2> HIDE DEF g
    <2>3. h1.phase = g.phase /\ h2.phase = "elsewhere" /\ h3.phase = g.phase
      BY <2>1, BlankPages DEF PageType
    <2>4. page[q].reads => page[q].phase # "closed"
      BY TabState DEF Composed, Hearing
    <2> HIDE DEF h1, h2, h3
    <2> QED
      BY <1>2, <2>1, <2>2, <2>3, <2>4
  <1>12. ASSUME NEW a \in Acts PROVE ~ClaimPending(a) /\ ~CreateFromDraft(a)
                                     /\ ~RecordReceipt(a) /\ ~CreateEnvelope(a)
    BY <1>1 DEF ClaimPending, CreateFromDraft, RecordReceipt, CreateEnvelope
  <1>13. ASSUME NEW a \in Acts PROVE ~Dispatch(a) /\ ~PreflightAnswer(a)
    <2> DEFINE g == page[call[a].by]
               h1 == [g EXCEPT !.busy = TRUE]
               h2 == [g EXCEPT !.busy = FALSE]
               h3 == Holds(h2, call[a].v, a)
    <2>1. call[a].by \in Tabs /\ g \in PageType /\ (Hears(a) => g.phase # "closed")
      BY <1>4, ActState DEF Hears
    <2>2. h1.phase = g.phase /\ h2.phase = g.phase /\ h2 \in PageType
      BY <2>1 DEF PageType
    <2>3. /\ Dispatch(a) => Hears(a) /\ Shows(call[a].by, h1)
          /\ PreflightAnswer(a) => Hears(a) /\ (Shows(call[a].by, h3) \/ Shows(call[a].by, h2))
      BY <1>1 DEF Dispatch, PreflightAnswer
    <2> HIDE DEF h1, h2, g
    <2>4. h3.phase = "gate"
      BY <2>2 DEF Holds, AtGate, PageType
    <2> HIDE DEF h3
    <2> QED
      BY <1>2, <2>1, <2>2, <2>3, <2>4
  <1>14. ASSUME NEW a \in Acts PROVE ~PatchAnswer(a)
    <2> DEFINE q == call[a].by
               bs == (call[a].pc = "resend") /\ page[q].busy
               g == [page[q] EXCEPT !.busy = bs]
               h == [g EXCEPT !.stored = call[a].v]
               h1 == [OffGate(h, "sending") EXCEPT !.busy = TRUE]
               h2 == AtGate(h)
    <2>1. q \in Tabs /\ page[q] \in PageType /\ (Hears(a) => page[q].phase # "closed")
      BY <1>4, ActState DEF Hears
    <2>2. bs \in BOOLEAN /\ call[a].v \in Version
      BY <2>1, ActState DEF PageType, CallType
    <2>3. PatchAnswer(a) => Hears(a) /\ (Shows(q, h1) \/ Shows(q, h2) \/ Shows(q, g))
      BY <1>1 DEF PatchAnswer
    <2> HIDE DEF bs, q
    <2>4. g \in PageType /\ g.phase = page[q].phase
      BY <2>1, <2>2 DEF PageType
    <2> HIDE DEF g
    <2>5. h \in PageType
      BY <2>2, <2>4 DEF PageType
    <2> HIDE DEF h
    <2>6. h1.phase = "sending" /\ h2.phase = "gate"
      BY <2>5 DEF PageType, OffGate, AtGate
    <2> HIDE DEF h1, h2
    <2> QED
      BY <1>2, <2>1, <2>3, <2>4, <2>6
  <1>15. ASSUME NEW a \in Acts PROVE ~SendAnswer(a)
    <2> DEFINE q == call[a].by
               bs == (a = page[q].mount) /\ page[q].busy
               g == [page[q] EXCEPT !.busy = bs]
               us == Browser(q) \in cookies
               h1 == [Blank EXCEPT !.phase = "sent"]
               h2 == [Holds(g, call[a].v, a) EXCEPT !.fired = FALSE, !.retried = TRUE, !.user = us]
    <2>1. q \in Tabs /\ page[q] \in PageType
      BY <1>4, ActState
    <2>2. bs \in BOOLEAN
      BY <2>1 DEF PageType
    <2>3. Ending(a) \in {h1, h2, Mounted(TRUE, TRUE, a), OffGate(g, "form")}
      BY DEF Ending
    <2>4. SendAnswer(a) => Shows(q, Ending(a))
      BY <1>1 DEF SendAnswer
    <2> HIDE DEF bs, q, us
    <2>5. g \in PageType
      BY <2>1, <2>2 DEF PageType
    <2> HIDE DEF g
    <2>6. h1.phase = "sent" /\ h2.phase = "gate" /\ Mounted(TRUE, TRUE, a).phase = "form"
          /\ OffGate(g, "form").phase = "form"
      BY <2>5 DEF PageType, OffGate, AtGate, Holds, Mounted, Blank
    <2> HIDE DEF h1, h2
    <2> QED
      BY <1>2, <2>1, <2>3, <2>4, <2>6
  <1>16. ASSUME NEW q \in Tabs, LeaveSilently(q) PROVE q = p
    BY <1>16, TabState DEF LeaveSilently, Shows
  <1>17. ~UNCHANGED studioVars
    BY <1>1 DEF studioVars
  <1> QED
    BY <1>5, <1>7, <1>8, <1>9, <1>10, <1>11, <1>12, <1>13, <1>14, <1>15, <1>16, <1>17
       DEF StudioNext

(* Whoever is not asked loses nothing (committedAndClean and allow), unless *)
(* the form is ahead of the payload that was stored.                        *)
THEOREM LeavingIsSafe == StudioSpec => SilentLeaveKeepsWork
  <1> DEFINE Kept == \A p \in Tabs : Leaves(p) /\ ~page[p].behind
                                       => page[p].text \in {0} \cup pending.saved
  <1>1. StudioInv /\ [StudioNext]_studioVars => Kept
    <2> SUFFICES ASSUME StudioInv, [StudioNext]_studioVars, NEW p \in Tabs, Leaves(p),
                        ~page[p].behind
                 PROVE  page[p].text \in {0} \cup pending.saved
      OBVIOUS
    <2>1. LeaveSilently(p) /\ mishaps = 0
      BY OnlyLeavingCloses DEF Leaves
    <2>2. ~page[p].allow /\ page[p].stored \in {0} \cup pending.saved
      BY <2>1, TabState DEF LeaveSilently
    <2> QED
      BY <2>1, <2>2 DEF LeaveSilently, Guarded, Dirty, CommittedAndClean
  <1>2. StudioInv /\ StudioInv' /\ [StudioNext]_studioVars => [Kept]_studioVars
    BY <1>1
  <1> HIDE DEF Kept
  <1> QED
    BY <1>2, StudioIsSound, PTL DEF StudioSpec, SilentLeaveKeepsWork, Kept
=============================================================================
