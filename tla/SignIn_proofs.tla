---------------------------- MODULE SignIn_proofs ----------------------------
(* What TLAPS proves of SignIn, for every value of its constants. *)
EXTENDS SignIn, TLAPS

(***************************************************************************)
(* A credential opens one session: until it is spent nothing runs behind    *)
(* it, and what runs behind it opens the session in its first statement.    *)
(***************************************************************************)
Credentials ==
  /\ \A d \in Door : flow[d].pc \in {"none", "open"} => opened[d] = 0
  /\ \A k \in Links : challenge[k].st \in {"none", "live"} => flow[Email(k)].pc = "none"
  /\ \A g \in Ceremonies :
       ceremony[g].st \in {"none", "open"} => flow[Google(g)].pc = "none" /\ spent[g] = 0
  /\ \A k \in Links : send[k] \in {"none", "asked"} => challenge[k].st = "none"

(* What the screen knows of a challenge it learned from an answer, and an   *)
(* unlatched screen shows none that it was told is dead; a landing has its  *)
(* link.                                                                    *)
Verdicts ==
  /\ \A i \in Codes : code[i].pc \notin {"none", "over"} => code[i].of # 0
  /\ \A i \in Codes : code[i].of # 0 => send[code[i].of] = "answered"
  /\ screen.ch # 0 => send[screen.ch] = "answered"
  /\ \A k \in dead : send[k] = "answered"
  /\ ~screen.latch => screen.ch \notin dead
  /\ mail.place = "landing" => mail.of # 0

(* The sign-in that stamped the click has its conversion still before it.   *)
Converts(f) == f.pc \in {"purge", "convert"} /\ f.bound
StampIsFollowed ==
  failures = 0 /\ stamp = "paid" => converted \/ \E d \in Door : Converts(flow[d])

SignInInv ==
  /\ TypeOK /\ Credentials /\ Verdicts /\ StampIsFollowed

(* The type invariant in the three parts the steps change apart.            *)
FlowType == [pc : FlowPcs, tab : {"screen", "mail"}, row : BOOLEAN, bound : BOOLEAN,
             claim : Claims]
ScreenType == [place : Places, waiting : BOOLEAN, ch : 0..MaxLinks,
               resending : 0..MaxLinks, latch : BOOLEAN, user : BOOLEAN,
               fired : BOOLEAN, at : 0..MaxGoogle]
MailType == [place : MailPlaces, of : 0..MaxLinks]
ChallengeType == [st : {"none", "live"} \cup Dead, wrong : 0..MaxTries, coded : BOOLEAN]
CodeType == [pc : CodePcs, of : 0..MaxLinks]
CeremonyType == [st : CeremonyPcs, link : BOOLEAN, left : BOOLEAN]

ServerTypes ==
  /\ challenge \in [Links -> ChallengeType]
  /\ \A k \in Links : challenge[k].wrong = MaxTries => challenge[k].st \in Dead
  /\ send \in [Links -> SendPcs]
  /\ code \in [Codes -> CodeType]
  /\ ceremony \in [Ceremonies -> CeremonyType]
  /\ spent \in [Ceremonies -> 0..1]
  /\ flow \in [Door -> FlowType]
  /\ opened \in [Door -> 0..1]

AccountTypes ==
  /\ granted \in 0..1 /\ capture \in BOOLEAN
  /\ stamp \in {"none", "organic", "paid"} /\ converted \in BOOLEAN

TabTypes ==
  /\ draft \in {"none", "held", "claimed", "sent"}
  /\ screen \in ScreenType /\ mail \in MailType
  /\ stash \in BOOLEAN /\ storage \in BOOLEAN /\ cookie \in BOOLEAN
  /\ dead \subseteq Links /\ failures \in 0..MaxFailures

LEMMA TypeParts == TypeOK <=> ServerTypes /\ AccountTypes /\ TabTypes
  BY DEF TypeOK, ServerTypes, AccountTypes, TabTypes, FlowType, ScreenType, MailType,
     ChallengeType, CodeType, CeremonyType

LEMMA TypePartsNext == TypeOK' <=> ServerTypes' /\ AccountTypes' /\ TabTypes'
  BY DEF TypeOK, ServerTypes, AccountTypes, TabTypes, FlowType, ScreenType, MailType,
     ChallengeType, CodeType, CeremonyType

(* The two kinds of door are apart, and each is one challenge or ceremony.  *)
LEMMA DoorFacts ==
  /\ \A k \in Links : Email(k) \in Door /\ Email(k)[1] = "email"
  /\ \A g \in Ceremonies : Google(g) \in Door /\ Google(g)[1] = "google" /\ Google(g)[2] = g
  /\ \A j, k \in Links : Email(j) = Email(k) => j = k
  /\ \A g, h \in Ceremonies : Google(g) = Google(h) => g = h
  /\ \A k \in Links, g \in Ceremonies : Email(k) # Google(g)
  /\ \A d \in Door : \/ \E k \in Links : d = Email(k)
                     \/ d[1] = "google" /\ \E g \in Ceremonies : d = Google(g)
  <1>1. \A k \in Links : Email(k) \in Door /\ Email(k)[1] = "email"
    BY DEF Door, Email
  <1>2. \A g \in Ceremonies : Google(g) \in Door /\ Google(g)[1] = "google" /\ Google(g)[2] = g
    BY DEF Door, Google
  <1>3. \A j, k \in Links : Email(j) = Email(k) => j = k
    BY DEF Email
  <1>4. \A g, h \in Ceremonies : Google(g) = Google(h) => g = h
    BY DEF Google
  <1>5. \A k \in Links, g \in Ceremonies : Email(k) # Google(g)
    BY DEF Email, Google
  <1>6. \A d \in Door : \/ \E k \in Links : d = Email(k)
                        \/ d[1] = "google" /\ \E g \in Ceremonies : d = Google(g)
    BY DEF Door, Email, Google
  <1> QED
    BY <1>1, <1>2, <1>3, <1>4, <1>5, <1>6

LEMMA NumbersAreNumbers ==
  /\ MaxLinks \in Nat /\ MaxCodes \in Nat /\ MaxGoogle \in Nat
  /\ MaxTries \in Nat \ {0} /\ MaxFailures \in Nat
  /\ Links = 1..MaxLinks /\ Ceremonies = 1..MaxGoogle
  BY SignInAssumption DEF Links, Ceremonies

(* What fails is counted. *)
LEMMA FailureCounts ==
  ASSUME SignInInv, Kept \/ Failure
  PROVE  failures' \in 0..MaxFailures /\ failures \in 0..MaxFailures
         /\ (failures' = 0 => failures = 0) /\ (Failure => failures' # 0)
  BY NumbersAreNumbers, TypeParts DEF SignInInv, TabTypes, Kept, Failure

-----------------------------------------------------------------------------
(* A request behind a spent credential takes its next step: it is of door   *)
(* d, it becomes f, and may open the session when it is about to.           *)
LEMMA FlowMoves ==
  ASSUME SignInInv, NEW d \in Door, NEW f \in FlowType,
         flow' = [flow EXCEPT ![d] = f], flow[d].pc # "none",
         f.pc \notin {"none", "open"}, UNCHANGED Server,
         opened' = opened
           \/ (flow[d].pc = "open" /\ opened' = [opened EXCEPT ![d] = opened[d] + 1])
  PROVE  ServerTypes' /\ Credentials'
         /\ flow'[d] = f /\ \A e \in Door \ {d} : flow'[e] = flow[e]
  <1>1. ServerTypes /\ Credentials
    BY TypeParts DEF SignInInv
  <1>2. /\ flow' \in [Door -> FlowType] /\ flow'[d] = f
        /\ \A e \in Door \ {d} : flow'[e] = flow[e]
    BY <1>1 DEF ServerTypes
  <1>3. opened' \in [Door -> 0..1] /\ \A e \in Door \ {d} : opened'[e] = opened[e]
    <2>1. CASE opened' = opened
      BY <1>1, <2>1 DEF ServerTypes
    <2>2. CASE flow[d].pc = "open" /\ opened' = [opened EXCEPT ![d] = opened[d] + 1]
      <3>1. opened[d] = 0
        BY <1>1, <2>2 DEF Credentials
      <3> QED
        BY <1>1, <2>2, <3>1 DEF ServerTypes
    <2> QED
      BY <2>1, <2>2
  <1>4. ServerTypes'
    BY <1>1, <1>2, <1>3 DEF ServerTypes, Server
  <1>5. UNCHANGED <<challenge, send, ceremony, spent>>
    BY DEF Server
  <1>6. \A e \in Door : flow'[e].pc \in {"none", "open"} => opened'[e] = 0
    BY <1>1, <1>2, <1>3 DEF Credentials
  <1>7. \A k \in Links : challenge'[k].st \in {"none", "live"} => flow'[Email(k)].pc = "none"
    BY <1>1, <1>2, <1>5, DoorFacts DEF Credentials
  <1>8. \A g \in Ceremonies :
          ceremony'[g].st \in {"none", "open"} => flow'[Google(g)].pc = "none" /\ spent'[g] = 0
    BY <1>1, <1>2, <1>5, DoorFacts DEF Credentials
  <1>9. Credentials'
    BY <1>1, <1>5, <1>6, <1>7, <1>8 DEF Credentials
  <1> QED
    BY <1>2, <1>4, <1>9

(* Such a step keeps the rest when the document and the stamp are seen to.  *)
LEMMA FlowKeeps ==
  ASSUME SignInInv, NEW d \in Door, NEW f \in FlowType,
         flow' = [flow EXCEPT ![d] = f], flow[d].pc # "none",
         f.pc \notin {"none", "open"}, UNCHANGED Server,
         opened' = opened
           \/ (flow[d].pc = "open" /\ opened' = [opened EXCEPT ![d] = opened[d] + 1]),
         AccountTypes', TabTypes', Verdicts',
         failures' = 0 => failures = 0,
         failures' = 0 /\ stamp' = "paid" =>
           \/ converted' \/ Converts(f)
           \/ stamp = "paid" /\ ~Converts(flow[d]) /\ (converted => converted')
  PROVE  SignInInv'
  <1>1. /\ ServerTypes' /\ Credentials'
        /\ flow'[d] = f /\ \A e \in Door \ {d} : flow'[e] = flow[e]
    BY FlowMoves
  <1>3. StampIsFollowed'
    BY <1>1 DEF SignInInv, StampIsFollowed, Converts
  <1> QED
    BY <1>1, <1>3, TypePartsNext DEF SignInInv

(* Nothing on the visitor's side moves. *)
LEMMA TabsStay ==
  ASSUME SignInInv, UNCHANGED <<send, code, draft, tabVars>>, Kept \/ Failure
  PROVE  TabTypes' /\ Verdicts'
  <1>1. failures' \in 0..MaxFailures
    BY FailureCounts
  <1>2. TabTypes'
    BY <1>1, TypeParts DEF SignInInv, TabTypes, tabVars
  <1>3. Verdicts'
    BY DEF SignInInv, Verdicts, tabVars
  <1> QED
    BY <1>2, <1>3

(* The screen of a landing that failed: the document again, or the gate.    *)
LEMMA FailsSafely ==
  ASSUME SignInInv, GoogleFails, UNCHANGED <<send, code, draft, mail, storage, cookie, dead>>,
         Kept \/ Failure
  PROVE  TabTypes' /\ Verdicts'
  <1> DEFINE to == IF stash THEN "restore" ELSE "gate"
  <1>1. failures' \in 0..MaxFailures
    BY FailureCounts
  <1>2. screen \in ScreenType /\ TabTypes /\ to \in {"restore", "gate"}
    BY TypeParts DEF SignInInv, TabTypes
  <1>3. screen' = [screen EXCEPT !.place = to, !.waiting = FALSE, !.ch = 0,
                                       !.resending = 0, !.latch = FALSE]
    BY DEF GoogleFails
  <1>4. stash' = FALSE
    BY DEF GoogleFails
  <1> HIDE DEF to
  <1>5. /\ screen' \in ScreenType /\ screen'.place = to /\ screen'.ch = 0
        /\ screen'.fired = screen.fired
    <2>1. 0 \in 0..MaxLinks /\ to \in Places
      BY <1>2, NumbersAreNumbers DEF Places
    <2> QED
      BY <1>2, <1>3, <2>1 DEF ScreenType
  <1>6. TabTypes'
    BY <1>1, <1>2, <1>4, <1>5 DEF TabTypes
  <1>7. 0 \notin dead
    BY <1>2, NumbersAreNumbers DEF TabTypes
  <1>8. Verdicts'
    BY <1>5, <1>7 DEF SignInInv, Verdicts
  <1> QED
    BY <1>6, <1>8

(* The next statement of a request. *)
LEMMA GoTo ==
  ASSUME SignInInv, NEW d \in Door, NEW pc \in FlowPcs, Go(d, pc)
  PROVE  \E f \in FlowType :
           /\ flow' = [flow EXCEPT ![d] = f]
           /\ f.pc = pc /\ f.claim = flow[d].claim /\ f.bound = flow[d].bound
  <1> DEFINE f == [flow[d] EXCEPT !.pc = pc]
  <1>1. flow[d] \in FlowType
    BY TypeParts DEF SignInInv, ServerTypes
  <1>2. /\ f \in FlowType /\ f.pc = pc /\ f.claim = flow[d].claim /\ f.bound = flow[d].bound
    BY <1>1 DEF FlowType
  <1>3. flow' = [flow EXCEPT ![d] = f]
    BY DEF Go
  <1> QED
    BY <1>2, <1>3

(* The end of one. *)
LEMMA EndOf ==
  ASSUME SignInInv, NEW d \in Door, End(d)
  PROVE  \E f \in FlowType :
           /\ flow' = [flow EXCEPT ![d] = f]
           /\ f.pc = "over" /\ f.claim = "none" /\ ~f.bound
  <1> DEFINE f == [NoFlow EXCEPT !.pc = "over"]
  <1>1. f \in FlowType /\ f.pc = "over" /\ f.claim = "none" /\ ~f.bound
    BY DEF FlowType, NoFlow, FlowPcs, Claims
  <1>2. flow' = [flow EXCEPT ![d] = f]
    BY DEF End
  <1> QED
    BY <1>1, <1>2

(* The mail client's tab moves, or the cookie is set. *)
LEMMA MailMoves ==
  ASSUME SignInInv, mail' \in MailType, mail'.place = "landing" => mail'.of # 0,
         cookie' \in BOOLEAN,
         UNCHANGED <<send, code, draft, screen, stash, storage, dead>>, Kept \/ Failure
  PROVE  TabTypes' /\ Verdicts'
  <1>1. failures' \in 0..MaxFailures
    BY FailureCounts
  <1>2. TabTypes'
    BY <1>1, TypeParts DEF SignInInv, TabTypes
  <1>3. Verdicts'
    BY DEF SignInInv, Verdicts
  <1> QED
    BY <1>2, <1>3

(* The mail client's tab shows another place. *)
LEMMA MailPlace ==
  ASSUME SignInInv, NEW place \in MailPlaces, mail' = [mail EXCEPT !.place = place]
  PROVE  mail' \in MailType /\ mail'.place = place
  BY TypeParts DEF SignInInv, TabTypes, MailType

LEMMA AccountStays ==
  ASSUME SignInInv, UNCHANGED accountVars
  PROVE  AccountTypes' /\ stamp' = stamp /\ converted' = converted
  BY TypeParts DEF SignInInv, AccountTypes, accountVars

(* A request is cut off. *)
LEMMA CutKeeps ==
  ASSUME SignInInv, NEW d \in Door, flow[d].pc # "none", Cut(d),
         UNCHANGED <<Server, opened, accountVars, draft, storage, cookie, dead>>
  PROVE  SignInInv'
  <1>1. PICK f \in FlowType : /\ flow' = [flow EXCEPT ![d] = f]
                              /\ f.pc = "over" /\ f.claim = "none" /\ ~f.bound
    BY EndOf DEF Cut
  <1>2. Failure /\ failures' # 0
    BY FailureCounts DEF Cut
  <1>3. UNCHANGED <<send, code, storage, cookie, dead>>
    BY DEF Server
  <1>4. AccountTypes'
    BY AccountStays
  <1>5. TabTypes' /\ Verdicts'
    <2>1. CASE UNCHANGED <<screen, mail, stash>>
      BY <1>2, <1>3, <2>1, TabsStay DEF tabVars
    <2>2. CASE GoogleFails /\ UNCHANGED mail
      BY <1>2, <1>3, <2>2, FailsSafely
    <2>3. CASE MailFails /\ UNCHANGED <<screen, stash>>
      <3>1. mail' \in MailType /\ mail'.place # "landing"
        BY <2>3, MailPlace DEF MailFails, MailPlaces
      <3>2. cookie' \in BOOLEAN
        BY <1>3, TypeParts DEF SignInInv, TabTypes
      <3> QED
        BY <1>2, <1>3, <2>3, <3>1, <3>2, MailMoves
    <2> QED
      BY <2>1, <2>2, <2>3 DEF Cut
  <1> QED
    BY <1>1, <1>2, <1>4, <1>5, FlowKeeps

(* startSession, or its INSERT fails. *)
LEMMA OpenSessionKeeps ==
  ASSUME SignInInv, NEW d \in Door, OpenSession(d)
  PROVE  SignInInv'
  <1>1. flow[d].pc = "open" /\ UNCHANGED <<Server, accountVars, draft, storage, cookie, dead>>
    BY DEF OpenSession, At
  <1>2. CASE Cut(d) /\ UNCHANGED opened
    BY <1>1, <1>2, CutKeeps
  <1>3. CASE /\ Go(d, "grant") /\ opened' = [opened EXCEPT ![d] = opened[d] + 1]
             /\ UNCHANGED <<screen, mail, stash>> /\ Kept
    <2>1. PICK f \in FlowType : /\ flow' = [flow EXCEPT ![d] = f] /\ f.pc = "grant"
                                /\ f.claim = flow[d].claim
      BY <1>3, GoTo DEF FlowPcs
    <2>2. TabTypes' /\ Verdicts'
      BY <1>1, <1>3, TabsStay DEF Server, tabVars
    <2>3. AccountTypes' /\ stamp' = stamp /\ converted' = converted
      BY <1>1, AccountStays
    <2> QED
      BY <1>1, <1>3, <2>1, <2>2, <2>3, FlowKeeps DEF Kept, Converts
  <1> QED
    BY <1>2, <1>3 DEF OpenSession

(* The process dies. *)
LEMMA CrashKeeps ==
  ASSUME SignInInv, NEW d \in Door, Crash(d)
  PROVE  SignInInv'
  BY CutKeeps DEF Crash

(* The statements on the account: the tabs and the document stay.           *)
LEMMA QuietKeeps ==
  ASSUME SignInInv, NEW d \in Door, NEW f \in FlowType,
         flow' = [flow EXCEPT ![d] = f], flow[d].pc \notin {"none", "open"},
         f.pc \notin {"none", "open", "answer"}, f.claim = flow[d].claim,
         Quiet, AccountTypes', Kept \/ Failure,
         failures' = 0 /\ stamp' = "paid" =>
           \/ converted' \/ Converts(f)
           \/ stamp = "paid" /\ ~Converts(flow[d]) /\ (converted => converted')
  PROVE  SignInInv'
  <1>1. UNCHANGED <<Server, opened, draft, tabVars>>
    BY DEF Quiet
  <1>2. TabTypes' /\ Verdicts'
    BY <1>1, TabsStay DEF Server
  <1>3. failures' = 0 => failures = 0
    BY FailureCounts
  <1> QED
    BY <1>1, <1>2, <1>3, FlowKeeps

LEMMA GrantKeeps ==
  ASSUME SignInInv, NEW d \in Door, GrantSignup(d)
  PROVE  SignInInv'
  <1>1. /\ flow[d].pc = "grant" /\ Quiet /\ UNCHANGED <<capture, stamp, converted>>
        /\ Kept \/ Failure
    BY DEF GrantSignup, At
  <1>2. PICK f \in FlowType : /\ flow' = [flow EXCEPT ![d] = f] /\ f.pc \in {"record", "read"}
                              /\ f.claim = flow[d].claim
    BY GoTo DEF GrantSignup, FlowPcs
  <1>3. AccountTypes'
    BY <1>1, TypeParts DEF SignInInv, AccountTypes, GrantSignup, GrantOnce
  <1> QED
    BY <1>1, <1>2, <1>3, QuietKeeps DEF Converts

LEMMA RecordKeeps ==
  ASSUME SignInInv, NEW d \in Door, RecordRider(d)
  PROVE  SignInInv'
  <1>1. /\ flow[d].pc = "record" /\ Quiet /\ UNCHANGED <<granted, stamp, converted>>
        /\ Kept /\ capture' \in {capture, TRUE}
    BY DEF RecordRider, At, Kept
  <1>2. PICK f \in FlowType : /\ flow' = [flow EXCEPT ![d] = f] /\ f.pc = "read"
                              /\ f.claim = flow[d].claim
    BY GoTo DEF RecordRider, FlowPcs
  <1>3. AccountTypes'
    BY <1>1, TypeParts DEF SignInInv, AccountTypes
  <1> QED
    BY <1>1, <1>2, <1>3, QuietKeeps DEF Converts

LEMMA ReadKeeps ==
  ASSUME SignInInv, NEW d \in Door, ReadCapture(d)
  PROVE  SignInInv'
  <1> DEFINE f == [flow[d] EXCEPT !.pc = "stamp", !.row = capture]
  <1>1. /\ flow[d].pc = "read" /\ Quiet /\ UNCHANGED accountVars /\ Kept
        /\ flow' = [flow EXCEPT ![d] = f]
    BY DEF ReadCapture, At, Kept
  <1>2. flow[d] \in FlowType /\ capture \in BOOLEAN
    BY TypeParts DEF SignInInv, ServerTypes, AccountTypes
  <1>3. f \in FlowType /\ f.pc = "stamp" /\ f.claim = flow[d].claim
    BY <1>2 DEF FlowType, FlowPcs
  <1>4. AccountTypes' /\ stamp' = stamp /\ converted' = converted
    BY <1>1, AccountStays
  <1> HIDE DEF f
  <1> QED
    BY <1>1, <1>3, <1>4, QuietKeeps DEF Converts

(* Whoever stamps the click has the conversion before it. *)
LEMMA StampKeeps ==
  ASSUME SignInInv, NEW d \in Door, StampAccount(d)
  PROVE  SignInInv'
  <1> DEFINE won == flow[d].row /\ stamp = "none"
             f == [flow[d] EXCEPT !.pc = "purge", !.row = FALSE, !.bound = won]
  <1>1. /\ flow[d].pc = "stamp" /\ Quiet /\ UNCHANGED <<granted, capture, converted>> /\ Kept
        /\ flow' = [flow EXCEPT ![d] = f]
        /\ stamp' = IF stamp # "none" THEN stamp ELSE IF flow[d].row THEN "paid" ELSE "organic"
    BY DEF StampAccount, StampOnce, At, Kept
  <1>2. flow[d] \in FlowType /\ AccountTypes
    BY TypeParts DEF SignInInv, ServerTypes
  <1>3. won \in BOOLEAN /\ (stamp' = "paid" => stamp = "paid" \/ won)
    BY <1>1, <1>2 DEF AccountTypes
  <1> HIDE DEF won
  <1>4. f \in FlowType /\ f.pc = "purge" /\ f.claim = flow[d].claim /\ f.bound = won
    BY <1>2, <1>3 DEF FlowType, FlowPcs
  <1>5. AccountTypes'
    BY <1>1, <1>2 DEF AccountTypes
  <1> HIDE DEF f
  <1> QED
    BY <1>1, <1>3, <1>4, <1>5, QuietKeeps DEF Converts

LEMMA PurgeKeeps ==
  ASSUME SignInInv, NEW d \in Door, PurgeCaptures(d)
  PROVE  SignInInv'
  <1>1. /\ flow[d].pc = "purge" /\ Quiet /\ UNCHANGED <<granted, stamp, converted>>
        /\ capture' \in {capture, FALSE}
    BY DEF PurgeCaptures, At
  <1>2. AccountTypes'
    BY <1>1, TypeParts DEF SignInInv, AccountTypes
  <1>3. CASE Go(d, IF Bound(d) THEN "convert" ELSE "claim") /\ Kept
    <2>1. PICK f \in FlowType :
            /\ flow' = [flow EXCEPT ![d] = f]
            /\ f.pc = IF Bound(d) THEN "convert" ELSE "claim"
            /\ f.claim = flow[d].claim /\ f.bound = flow[d].bound
      BY <1>3, GoTo DEF FlowPcs
    <2>2. Converts(flow[d]) => Converts(f)
      BY <1>1, <2>1 DEF Converts, Bound
    <2> QED
      BY <1>1, <1>2, <1>3, <2>1, <2>2, QuietKeeps
  <1>4. CASE Go(d, "claim") /\ Failure
    <2>1. PICK f \in FlowType : /\ flow' = [flow EXCEPT ![d] = f] /\ f.pc = "claim"
                                /\ f.claim = flow[d].claim
      BY <1>4, GoTo DEF FlowPcs
    <2>2. failures' # 0
      BY <1>4, FailureCounts
    <2> QED
      BY <1>1, <1>2, <1>4, <2>1, <2>2, QuietKeeps
  <1> QED
    BY <1>3, <1>4 DEF PurgeCaptures

LEMMA ConvertKeeps ==
  ASSUME SignInInv, NEW d \in Door, EnqueueConversion(d)
  PROVE  SignInInv'
  <1>1. /\ flow[d].pc = "convert" /\ Quiet /\ UNCHANGED <<granted, capture, stamp>>
        /\ \/ converted' = (converted \/ stamp = "paid") /\ Kept
           \/ UNCHANGED converted /\ Failure
    BY DEF EnqueueConversion, At
  <1>2. PICK f \in FlowType : /\ flow' = [flow EXCEPT ![d] = f] /\ f.pc = "claim"
                              /\ f.claim = flow[d].claim
    BY GoTo DEF EnqueueConversion, FlowPcs
  <1>3. AccountTypes'
    BY <1>1, TypeParts DEF SignInInv, AccountTypes
  <1>4. failures' = 0 => ~Failure
    BY FailureCounts
  <1> QED
    BY <1>1, <1>2, <1>3, <1>4, QuietKeeps

(* A request is told what became of its document, or goes on to send it.    *)
LEMMA ToldFlow ==
  ASSUME SignInInv, NEW d \in Door, NEW claim \in Claims, Told(d, claim)
  PROVE  \E f \in FlowType : /\ flow' = [flow EXCEPT ![d] = f]
                             /\ f.pc = "answer" /\ f.claim = claim
  <1> DEFINE f == [flow[d] EXCEPT !.pc = "answer", !.claim = claim]
  <1>1. flow[d] \in FlowType
    BY TypeParts DEF SignInInv, ServerTypes
  <1>2. f \in FlowType /\ f.pc = "answer" /\ f.claim = claim
    BY <1>1 DEF FlowType, FlowPcs
  <1>3. flow' = [flow EXCEPT ![d] = f]
    BY DEF Told
  <1> QED
    BY <1>2, <1>3

LEMMA DocumentMoves ==
  ASSUME SignInInv, NEW d \in Door, flow[d].pc \in {"claim", "create"},
         \/ \E claim \in Claims : Told(d, claim)
         \/ \E pc \in {"create", "answer"} : Go(d, pc),
         draft' \in {"none", "held", "claimed", "sent"}, Kept \/ Failure,
         UNCHANGED <<Server, opened, accountVars, tabVars>>
  PROVE  SignInInv'
  <1>1. PICK f \in FlowType : flow' = [flow EXCEPT ![d] = f] /\ f.pc \in {"create", "answer"}
    BY ToldFlow, GoTo DEF FlowPcs
  <1>2. failures' \in 0..MaxFailures /\ (failures' = 0 => failures = 0)
    BY FailureCounts
  <1>3. TabTypes' /\ Verdicts'
    BY <1>2, TypeParts DEF SignInInv, TabTypes, Verdicts, tabVars, Server
  <1>4. AccountTypes' /\ stamp' = stamp /\ converted' = converted
    BY AccountStays
  <1> QED
    BY <1>1, <1>2, <1>3, <1>4, FlowKeeps DEF Converts

LEMMA ClaimDraftKeeps ==
  ASSUME SignInInv, NEW d \in Door, ClaimDraft(d)
  PROVE  SignInInv'
  <1>1. flow[d].pc = "claim" /\ Kept /\ UNCHANGED <<Server, opened, accountVars, tabVars>>
    BY DEF ClaimDraft, At, Kept
  <1>2. /\ draft' \in {"none", "held", "claimed", "sent"}
        /\ \/ \E claim \in Claims : Told(d, claim)
           \/ \E pc \in {"create", "answer"} : Go(d, pc)
    BY TypeParts DEF ClaimDraft, Takes, Claims, SignInInv, TabTypes
  <1> QED
    BY <1>1, <1>2, DocumentMoves

LEMMA CreateFromDraftKeeps ==
  ASSUME SignInInv, NEW d \in Door, CreateFromDraft(d)
  PROVE  SignInInv'
  <1>1. flow[d].pc = "create" /\ UNCHANGED <<Server, opened, accountVars, tabVars>>
    BY DEF CreateFromDraft, At
  <1>2. /\ draft' \in {"none", "held", "claimed", "sent"} /\ (Kept \/ Failure)
        /\ \E claim \in Claims : Told(d, claim)
    BY TypeParts DEF CreateFromDraft, Sends, Releases, Strands, Claims, SignInInv, TabTypes
  <1> QED
    BY <1>1, <1>2, DocumentMoves

(* The answer moves the tab that posted. *)
LEMMA FlowAnswerKeeps ==
  ASSUME SignInInv, NEW d \in Door, FlowAnswer(d)
  PROVE  SignInInv'
  <1>1. /\ flow[d].pc = "answer"
        /\ UNCHANGED <<Server, opened, accountVars, draft, storage, dead>> /\ Kept
    BY DEF FlowAnswer, At, Kept
  <1>2. PICK f \in FlowType : /\ flow' = [flow EXCEPT ![d] = f]
                              /\ f.pc = "over" /\ f.claim = "none" /\ ~f.bound
    BY EndOf DEF FlowAnswer
  <1>3. TabTypes /\ mail \in MailType /\ cookie' \in BOOLEAN
    BY TypeParts DEF SignInInv, TabTypes, FlowAnswer
  <1>5. TabTypes' /\ Verdicts'
    <2>1. CASE UNCHANGED <<screen, stash>>
      <3>1. mail' \in MailType /\ (mail'.place = "landing" => mail'.of # 0)
        BY <1>3, MailPlace DEF FlowAnswer, MailPlaces, SignInInv, Verdicts
      <3> QED
        BY <1>1, <1>3, <2>1, <3>1, MailMoves DEF Server
    <2>2. CASE /\ d[1] = "google" /\ UNCHANGED mail /\ screen.place = "landing"
               /\ screen' = [screen EXCEPT !.place = Land(flow[d].claim)] /\ stash' = FALSE
      <3> DEFINE to == Land(flow[d].claim)
      <3>1. to \in {"envelope", "claim", "dashboard"}
        BY DEF Land
      <3> HIDE DEF to
      <3>3. /\ screen' \in ScreenType /\ screen'.place = to /\ screen'.ch = screen.ch
            /\ screen'.latch = screen.latch
        BY <1>3, <2>2, <3>1 DEF TabTypes, ScreenType, Places, to
      <3>4. TabTypes'
        BY <1>1, <1>3, <2>2, <3>3 DEF TabTypes, Kept
      <3>5. Verdicts'
        BY <1>1, <2>2, <3>1, <3>3 DEF SignInInv, Verdicts, Server
      <3> QED
        BY <3>4, <3>5
    <2> QED
      BY <2>1, <2>2 DEF FlowAnswer
  <1>6. AccountTypes' /\ stamp' = stamp /\ converted' = converted
    BY <1>1, AccountStays
  <1> QED
    BY <1>1, <1>2, <1>5, <1>6, FlowKeeps DEF Kept, Converts

-----------------------------------------------------------------------------
(* Steps that start no request and advance none. *)
LEMMA StillKeeps ==
  ASSUME SignInInv, UNCHANGED <<flow, opened, stamp, converted>>, Kept \/ Failure,
         ServerTypes', AccountTypes', TabTypes', Credentials', Verdicts'
  PROVE  SignInInv'
  <1>1. failures' = 0 => failures = 0
    BY FailureCounts
  <1>2. StampIsFollowed'
    BY <1>1 DEF SignInInv, StampIsFollowed, Converts
  <1> QED
    BY <1>2, TypePartsNext DEF SignInInv

(* A request starts behind a credential that was just spent. *)
LEMMA StartKeeps ==
  ASSUME SignInInv, NEW d \in Door, NEW tab \in {"screen", "mail"}, Start(d, tab),
         flow[d].pc = "none", UNCHANGED <<opened, send, accountVars, draft>>, Kept \/ Failure,
         challenge' \in [Links -> ChallengeType],
         \A k \in Links : challenge'[k].wrong = MaxTries => challenge'[k].st \in Dead,
         code' \in [Codes -> CodeType],
         ceremony' \in [Ceremonies -> CeremonyType], spent' \in [Ceremonies -> 0..1],
         \A k \in Links : challenge'[k].st \in {"none", "live"} =>
                            Email(k) # d /\ challenge'[k] = challenge[k],
         \A k \in Links : challenge[k].st = "none" => challenge'[k] = challenge[k],
         \A g \in Ceremonies : ceremony'[g].st \in {"none", "open"} =>
              Google(g) # d /\ ceremony'[g] = ceremony[g] /\ spent'[g] = spent[g],
         TabTypes', Verdicts'
  PROVE  SignInInv'
  <1> DEFINE f == [NoFlow EXCEPT !.pc = "open", !.tab = tab]
  <1>1. f \in FlowType /\ f.pc = "open" /\ f.claim = "none" /\ ~f.bound
    BY DEF FlowType, NoFlow, FlowPcs, Claims
  <1>2. flow' = [flow EXCEPT ![d] = f]
    BY DEF Start
  <1> HIDE DEF f
  <1>3. ServerTypes /\ Credentials
    BY TypeParts DEF SignInInv
  <1>4. /\ flow' \in [Door -> FlowType] /\ flow'[d] = f
        /\ \A e \in Door \ {d} : flow'[e] = flow[e]
    BY <1>1, <1>2, <1>3 DEF ServerTypes
  <1>5. ServerTypes'
    BY <1>3, <1>4 DEF ServerTypes
  <1>6. Credentials'
    <2>1. \A e \in Door : flow'[e].pc \in {"none", "open"} => opened'[e] = 0
      BY <1>3, <1>4 DEF Credentials
    <2>2. \A k \in Links : challenge'[k].st \in {"none", "live"} => flow'[Email(k)].pc = "none"
      BY <1>3, <1>4, DoorFacts DEF Credentials
    <2>3. \A g \in Ceremonies : ceremony'[g].st \in {"none", "open"}
                                  => flow'[Google(g)].pc = "none" /\ spent'[g] = 0
      BY <1>3, <1>4, DoorFacts DEF Credentials
    <2>4. \A k \in Links : send'[k] \in {"none", "asked"} => challenge'[k].st = "none"
      BY <1>3 DEF Credentials
    <2> QED
      BY <2>1, <2>2, <2>3, <2>4 DEF Credentials
  <1>8. AccountTypes' /\ stamp' = stamp /\ converted' = converted
    BY AccountStays
  <1>9. failures' = 0 => failures = 0
    BY FailureCounts
  <1>10. StampIsFollowed'
    BY <1>4, <1>8, <1>9 DEF SignInInv, StampIsFollowed, Converts
  <1> QED
    BY <1>5, <1>6, <1>8, <1>10, TypePartsNext DEF SignInInv

(* The document is stored. *)
LEMMA Stored ==
  ASSUME SignInInv, StoreDraft
  PROVE  draft' \in {"none", "held", "claimed", "sent"}
  BY TypeParts DEF SignInInv, TabTypes, StoreDraft

LEMMA AskLinkKeeps ==
  ASSUME SignInInv, NEW k \in Links, AskLink(k)
  PROVE  SignInInv'
  <1>1. /\ screen.place = "gate" /\ send[k] = "none" /\ send' = [send EXCEPT ![k] = "asked"]
        /\ UNCHANGED <<challenge, code, ceremony, spent, flow, opened, accountVars, mail,
                       stash, storage, cookie, dead, failures>>
        /\ Kept /\ StoreDraft
        /\ UNCHANGED screen \/ screen' = [screen EXCEPT !.resending = k]
    BY DEF AskLink, Kept
  <1>2. ServerTypes /\ TabTypes /\ AccountTypes /\ Credentials /\ Verdicts
    BY TypeParts DEF SignInInv
  <1>3. send' \in [Links -> SendPcs] /\ send'[k] = "asked"
        /\ \A j \in Links \ {k} : send'[j] = send[j]
    BY <1>1, <1>2 DEF ServerTypes, SendPcs
  <1>4. ServerTypes'
    BY <1>1, <1>2, <1>3 DEF ServerTypes
  <1>5. Credentials'
    BY <1>1, <1>2, <1>3 DEF Credentials
  <1>6. screen' \in ScreenType /\ screen'.ch = screen.ch /\ screen'.latch = screen.latch
    BY <1>1, <1>2, NumbersAreNumbers DEF TabTypes, ScreenType
  <1>7. Verdicts'
    <2>1. /\ \A i \in Codes : code[i].of # 0 => code[i].of \in Links
          /\ screen.ch # 0 => screen.ch \in Links
          /\ dead \subseteq Links
      BY <1>2, NumbersAreNumbers DEF ServerTypes, TabTypes, CodeType, ScreenType
    <2> QED
      BY <1>1, <1>2, <1>3, <1>6, <2>1 DEF Verdicts
  <1>8. TabTypes'
    BY <1>1, <1>2, <1>6, Stored DEF TabTypes, Kept
  <1>9. AccountTypes' /\ stamp' = stamp /\ converted' = converted
    BY <1>1, AccountStays
  <1> QED
    BY <1>1, <1>4, <1>5, <1>7, <1>8, <1>9, StillKeeps

(* The newest challenge is the live one. *)
LEMMA SendLinkKeeps ==
  ASSUME SignInInv, NEW k \in Links, SendLink(k)
  PROVE  SignInInv'
  <1>1. /\ send[k] = "asked" /\ (Kept \/ Failure)
        /\ UNCHANGED <<code, ceremony, spent, flow, opened, accountVars, draft, tabVars>>
    BY DEF SendLink
  <1>2. ServerTypes /\ TabTypes /\ Credentials /\ Verdicts
    BY TypeParts DEF SignInInv
  <1>3. \E to \in {"accepted", "refused", "answered"} : send' = [send EXCEPT ![k] = to]
    BY DEF SendLink
  <1>4. /\ send' \in [Links -> SendPcs] /\ send'[k] \notin {"none", "asked"}
        /\ \A j \in Links \ {k} : send'[j] = send[j]
    BY <1>2, <1>3 DEF ServerTypes, SendPcs
  <1>5. /\ challenge' \in [Links -> ChallengeType]
        /\ \A j \in Links : challenge'[j].wrong = MaxTries => challenge'[j].st \in Dead
        /\ \A j \in Links \ {k} :
             /\ challenge[j].st = "none" => challenge'[j].st = "none"
             /\ challenge'[j].st \in {"none", "live"} => challenge'[j] = challenge[j]
        /\ UNCHANGED challenge \/ challenge'[k].st = "live"
    <2>1. CASE UNCHANGED challenge
      BY <1>2, <2>1 DEF ServerTypes
    <2>2. ASSUME NEW coded \in BOOLEAN,
                 challenge' = [j \in Links |->
                   IF j = k THEN [st |-> "live", wrong |-> 0, coded |-> coded]
                   ELSE IF challenge[j].st = "live" THEN [challenge[j] EXCEPT !.st = "replaced"]
                   ELSE challenge[j]]
          PROVE  <1>5!1 /\ <1>5!2 /\ <1>5!3 /\ <1>5!4
      <3>1. 0 \in 0..MaxTries /\ 0 # MaxTries
        BY NumbersAreNumbers
      <3>2. challenge'[k] = [st |-> "live", wrong |-> 0, coded |-> coded]
        BY <2>2
      <3>3. challenge'[k] \in ChallengeType /\ challenge'[k].wrong = 0
            /\ challenge'[k].st = "live"
        BY <3>1, <3>2 DEF ChallengeType
      <3>4. ASSUME NEW j \in Links \ {k}
            PROVE  /\ challenge'[j] \in ChallengeType
                   /\ challenge'[j].wrong = MaxTries => challenge'[j].st \in Dead
                   /\ challenge[j].st = "none" => challenge'[j].st = "none"
                   /\ challenge'[j].st \in {"none", "live"} => challenge'[j] = challenge[j]
        <4>1. challenge[j] \in ChallengeType
          BY <1>2 DEF ServerTypes
        <4>2. CASE challenge[j].st = "live"
          <5>1. challenge'[j] = [challenge[j] EXCEPT !.st = "replaced"]
            BY <2>2, <4>2
          <5> QED
            BY <4>1, <4>2, <5>1 DEF ChallengeType, Dead
        <4>3. CASE challenge[j].st # "live"
          BY <1>2, <2>2, <4>1, <4>3 DEF ServerTypes
        <4> QED
          BY <4>2, <4>3
      <3>5. challenge' \in [Links -> ChallengeType]
        <4>1. challenge' = [j \in Links |-> challenge'[j]]
          BY <2>2
        <4> QED
          BY <3>3, <3>4, <4>1
      <3> QED
        BY <3>1, <3>3, <3>4, <3>5
    <2> QED
      BY <2>1, <2>2 DEF SendLink
  <1>6. ServerTypes'
    BY <1>1, <1>2, <1>4, <1>5 DEF ServerTypes
  <1>7. Credentials'
    <2>0. challenge[k].st = "none"
      BY <1>1, <1>2 DEF Credentials
    <2>1. flow[Email(k)].pc = "none"
      BY <1>2, <2>0 DEF Credentials
    <2>2. \A j \in Links : challenge'[j].st \in {"none", "live"} => flow'[Email(j)].pc = "none"
      BY <1>1, <1>2, <1>5, <2>1 DEF Credentials
    <2> QED
      BY <1>1, <1>2, <1>4, <1>5, <2>2 DEF Credentials
  <1>8. Verdicts'
    <2>1. /\ \A i \in Codes : code[i].of # 0 => code[i].of \in Links
          /\ screen.ch # 0 => screen.ch \in Links
          /\ dead \subseteq Links
      BY <1>2, NumbersAreNumbers DEF ServerTypes, TabTypes, CodeType, ScreenType
    <2>2. \A j \in Links : send[j] = "answered" => send'[j] = "answered"
      BY <1>1, <1>4
    <2> QED
      BY <1>1, <1>2, <2>1, <2>2 DEF Verdicts, tabVars
  <1>9. TabTypes'
    BY <1>1, <1>2, FailureCounts DEF TabTypes, tabVars
  <1>11. AccountTypes' /\ stamp' = stamp /\ converted' = converted
    BY <1>1, AccountStays
  <1> QED
    BY <1>1, <1>6, <1>7, <1>8, <1>9, <1>11, StillKeeps

(* The answer to an email: an unlatched screen shows the newest challenge.  *)
LEMMA LinkAnswerKeeps ==
  ASSUME SignInInv, NEW k \in Links, LinkAnswer(k)
  PROVE  SignInInv'
  <1> DEFINE fresh == send[k] = "accepted" /\ challenge[k].coded
             shown == IF fresh THEN k ELSE 0
             shut == screen.latch /\ ~fresh
             g == [screen EXCEPT !.waiting = TRUE, !.ch = shown, !.latch = shut]
  <1>1. /\ send[k] \in {"accepted", "refused"} /\ send' = [send EXCEPT ![k] = "answered"]
        /\ capture' \in {capture, TRUE}
        /\ UNCHANGED <<challenge, code, ceremony, spent, flow, opened, granted, stamp,
                       converted, draft, mail, stash, storage, cookie, dead, failures>>
        /\ (screen' = screen \/ screen' = g)
    BY DEF LinkAnswer
  <1>2. ServerTypes /\ TabTypes /\ AccountTypes /\ Credentials /\ Verdicts
    BY TypeParts DEF SignInInv
  <1>3. send' \in [Links -> SendPcs] /\ send'[k] = "answered"
        /\ \A j \in Links \ {k} : send'[j] = send[j]
    BY <1>1, <1>2 DEF ServerTypes, SendPcs
  <1>4. ServerTypes' /\ AccountTypes'
    BY <1>1, <1>2, <1>3 DEF ServerTypes, AccountTypes
  <1>5. Credentials'
    BY <1>1, <1>2, <1>3 DEF Credentials
  <1>6. /\ shown \in 0..MaxLinks /\ shown \in {0, k} /\ shut \in BOOLEAN
        /\ k \notin dead /\ 0 \notin dead
    BY <1>1, <1>2, NumbersAreNumbers DEF Verdicts, TabTypes
  <1> HIDE DEF shown, shut
  <1>7. /\ g \in ScreenType /\ g.place = screen.place /\ g.ch = shown
        /\ g.fired = screen.fired /\ g.latch = shut
    BY <1>2, <1>6 DEF TabTypes, ScreenType
  <1> HIDE DEF g
  <1>8. TabTypes'
    BY <1>1, <1>2, <1>7 DEF TabTypes
  <1>9. Verdicts'
    BY <1>1, <1>2, <1>3, <1>6, <1>7 DEF Verdicts, ServerTypes
  <1> QED
    BY <1>1, <1>4, <1>5, <1>8, <1>9, StillKeeps DEF Kept

LEMMA OpenLinkKeeps ==
  ASSUME SignInInv, NEW k \in Links, OpenLink(k)
  PROVE  SignInInv'
  <1>1. /\ mail' = [place |-> "landing", of |-> k]
        /\ UNCHANGED <<serverVars, accountVars, draft, screen, stash, storage, cookie, dead>>
        /\ Kept
    BY DEF OpenLink, Kept
  <1>2. mail' \in MailType /\ mail'.of # 0
    BY <1>1, NumbersAreNumbers DEF MailType, MailPlaces
  <1>3. TabTypes' /\ Verdicts'
    BY <1>1, <1>2, MailMoves, TypeParts DEF serverVars, SignInInv, TabTypes
  <1>4. ServerTypes' /\ Credentials'
    BY <1>1, TypeParts DEF SignInInv, ServerTypes, Credentials, serverVars
  <1>5. AccountTypes' /\ stamp' = stamp /\ converted' = converted
    BY <1>1, AccountStays
  <1> QED
    BY <1>1, <1>3, <1>4, <1>5, StillKeeps DEF serverVars

(* The screen confirms a code only of the challenge it shows, unlatched.    *)
LEMMA ConfirmKeeps ==
  ASSUME SignInInv, NEW i \in Codes, ConfirmCode(i)
  PROVE  SignInInv'
  <1> DEFINE c == [pc |-> "posted", of |-> screen.ch]
  <1>1. /\ code' = [code EXCEPT ![i] = c] /\ screen.ch # 0 /\ Kept
        /\ UNCHANGED <<challenge, send, ceremony, spent, flow, opened, accountVars, draft,
                       tabVars>>
    BY DEF ConfirmCode, Kept
  <1>2. ServerTypes /\ TabTypes /\ Credentials /\ Verdicts
    BY TypeParts DEF SignInInv
  <1>3. c \in CodeType /\ c.of = screen.ch
    BY <1>2 DEF TabTypes, ScreenType, CodeType, CodePcs
  <1> HIDE DEF c
  <1>4. code' \in [Codes -> CodeType] /\ code'[i] = c
        /\ \A j \in Codes \ {i} : code'[j] = code[j]
    BY <1>1, <1>2, <1>3 DEF ServerTypes
  <1>5. ServerTypes' /\ Credentials'
    BY <1>1, <1>2, <1>4 DEF ServerTypes, Credentials
  <1>6. Verdicts'
    BY <1>1, <1>2, <1>3, <1>4 DEF Verdicts, tabVars
  <1>7. TabTypes'
    BY <1>1, <1>2
    DEF TabTypes, SignInInv, tabVars, Kept
  <1>8. AccountTypes' /\ stamp' = stamp /\ converted' = converted
    BY <1>1, AccountStays
  <1> QED
    BY <1>1, <1>5, <1>6, <1>7, <1>8, StillKeeps

(* A confirm is answered: an answer that is a verdict is kept.              *)
LEMMA CodeMoves ==
  ASSUME SignInInv, NEW i \in Codes, NEW a \in CodePcs, code[i].pc = "posted",
         code' = [code EXCEPT ![i].pc = a], UNCHANGED <<send, draft, tabVars>>, Kept \/ Failure
  PROVE  /\ code' \in [Codes -> CodeType]
         /\ TabTypes' /\ Verdicts'
  <1> DEFINE c == [code[i] EXCEPT !.pc = a]
  <1>1. ServerTypes /\ TabTypes /\ Verdicts /\ code[i] \in CodeType
    BY TypeParts DEF SignInInv, ServerTypes
  <1>2. c \in CodeType /\ c.of = code[i].of
    BY <1>1 DEF CodeType
  <1>3. code' = [code EXCEPT ![i] = c]
    OBVIOUS
  <1> HIDE DEF c
  <1>4. code' \in [Codes -> CodeType] /\ code'[i] = c
        /\ \A j \in Codes \ {i} : code'[j] = code[j]
    BY <1>1, <1>2, <1>3 DEF ServerTypes
  <1>5. \A j \in Codes : code'[j].of = code[j].of
                         /\ (code'[j].pc \notin {"none", "over"} => code'[j].of # 0)
    BY <1>1, <1>2, <1>4 DEF Verdicts
  <1>6. Verdicts'
    BY <1>1, <1>5 DEF Verdicts, tabVars
  <1>7. TabTypes'
    BY <1>1, FailureCounts DEF TabTypes, SignInInv, tabVars
  <1> QED
    BY <1>4, <1>6, <1>7

(* The platform's verdict on a code. *)
LEMMA VerifyKeeps ==
  ASSUME SignInInv, NEW i \in Codes, VerifyCode(i)
  PROVE  SignInInv'
  <1> DEFINE k == code[i].of
  <1>1. /\ code[i].pc = "posted" /\ (Kept \/ Failure)
        /\ UNCHANGED <<send, ceremony, spent, opened, accountVars, draft, tabVars>>
    BY DEF VerifyCode
  <1>2. ServerTypes /\ Credentials /\ Verdicts
    BY TypeParts DEF SignInInv
  <1>3. k \in Links /\ challenge[k] \in ChallengeType
    BY <1>1, <1>2, NumbersAreNumbers DEF ServerTypes, CodeType, Verdicts
  <1>4. AccountTypes' /\ stamp' = stamp /\ converted' = converted
    BY <1>1, AccountStays DEF SignInInv
  <1>5. CASE /\ challenge[k].st = "live"
             /\ challenge' = [challenge EXCEPT ![k].st = "spent"]
             /\ code' = [code EXCEPT ![i].pc = "verified"] /\ Start(Email(k), "screen")
    <2> DEFINE c == [challenge[k] EXCEPT !.st = "spent"]
    <2>1. c \in ChallengeType /\ c.st = "spent" /\ challenge' = [challenge EXCEPT ![k] = c]
      BY <1>3, <1>5 DEF ChallengeType, Dead
    <2> HIDE DEF c
    <2>2. /\ challenge' \in [Links -> ChallengeType] /\ challenge'[k].st = "spent"
          /\ \A j \in Links \ {k} : challenge'[j] = challenge[j]
      BY <1>2, <1>3, <2>1 DEF ServerTypes
    <2>3. \A j \in Links : challenge'[j].wrong = MaxTries => challenge'[j].st \in Dead
      BY <1>2, <2>2 DEF ServerTypes, Dead
    <2>4. /\ code' \in [Codes -> CodeType]
          /\ TabTypes' /\ Verdicts'
      BY <1>1, <1>5, CodeMoves DEF CodePcs
    <2>5. flow[Email(k)].pc = "none" /\ Email(k) \in Door
      BY <1>2, <1>3, <1>5, DoorFacts DEF Credentials
    <2>6. ceremony' \in [Ceremonies -> CeremonyType] /\ spent' \in [Ceremonies -> 0..1]
      BY <1>1, <1>2 DEF ServerTypes
    <2>7. \A j \in Links : challenge'[j].st \in {"none", "live"} =>
                              Email(j) # Email(k) /\ challenge'[j] = challenge[j]
      BY <1>3, <2>2, DoorFacts
    <2>8. \A g \in Ceremonies : Google(g) # Email(k) /\ ceremony'[g] = ceremony[g]
                                /\ spent'[g] = spent[g]
      BY <1>1, <1>3, DoorFacts
    <2>9. \A j \in Links : challenge[j].st = "none" => challenge'[j] = challenge[j]
      BY <1>5, <2>2
    <2> QED
      BY <1>1, <1>5, <2>2, <2>3, <2>4, <2>5, <2>6, <2>7, <2>8, <2>9, StartKeeps
  <1>6. ASSUME NEW a \in CodePcs, code' = [code EXCEPT ![i].pc = a], UNCHANGED flow,
               challenge' \in [Links -> ChallengeType],
               \A j \in Links : challenge'[j].wrong = MaxTries => challenge'[j].st \in Dead,
               \A j \in Links : challenge[j].st = "none" <=> challenge'[j].st = "none",
               \A j \in Links : challenge'[j].st = "live" => challenge[j].st = "live"
        PROVE  SignInInv'
    <2>1. /\ code' \in [Codes -> CodeType]
          /\ TabTypes' /\ Verdicts'
      BY <1>1, <1>6, CodeMoves
    <2>2. ServerTypes' /\ Credentials'
      BY <1>1, <1>2, <1>6, <2>1 DEF ServerTypes, Credentials
    <2> QED
      BY <1>1, <1>4, <1>6, <2>1, <2>2, StillKeeps
  <1>7. CASE UNCHANGED <<challenge, flow>>
             /\ \E a \in {"exhausted", "too_many", "used", "invalid"} :
                  code' = [code EXCEPT ![i].pc = a]
    <2>1. PICK a \in {"exhausted", "too_many", "used", "invalid"} :
            code' = [code EXCEPT ![i].pc = a]
      BY <1>7
    <2>2. a \in CodePcs
      BY DEF CodePcs, Terminal
    <2> QED
      BY <1>2, <1>6, <1>7, <2>1, <2>2 DEF ServerTypes
  <1>8. CASE /\ challenge[k].st = "live" /\ UNCHANGED flow
             /\ challenge' = [challenge EXCEPT ![k] =
                  [@ EXCEPT !.wrong = challenge[k].wrong + 1,
                            !.st = IF Burns(challenge[k]) THEN "burned" ELSE challenge[k].st]]
             /\ code' = [code EXCEPT ![i].pc =
                                IF Burns(challenge[k]) THEN "exhausted" ELSE "invalid"]
    <2> DEFINE to == IF Burns(challenge[k]) THEN "burned" ELSE challenge[k].st
               n == challenge[k].wrong + 1
               c == [challenge[k] EXCEPT !.wrong = n, !.st = to]
               a == IF Burns(challenge[k]) THEN "exhausted" ELSE "invalid"
    <2>1. n \in 0..MaxTries /\ (n = MaxTries => to = "burned") /\ to \in {"burned", "live"}
      <3>1. challenge[k].wrong \in 0..MaxTries /\ challenge[k].wrong # MaxTries
        BY <1>2, <1>3, <1>8 DEF ServerTypes, ChallengeType, Dead
      <3> QED
        BY <1>8, <3>1, NumbersAreNumbers DEF Burns
    <2>2. challenge' = [challenge EXCEPT ![k] = c] /\ code' = [code EXCEPT ![i].pc = a]
      BY <1>8
    <2>3. a \in CodePcs
      BY DEF CodePcs, Terminal
    <2> HIDE DEF to, n, a
    <2>4. c \in ChallengeType /\ c.st = to /\ c.wrong = n
      BY <1>3, <2>1 DEF ChallengeType, Dead
    <2> HIDE DEF c
    <2>5. /\ challenge' \in [Links -> ChallengeType] /\ challenge'[k] = c
          /\ \A j \in Links \ {k} : challenge'[j] = challenge[j]
      BY <1>2, <1>3, <2>2, <2>4 DEF ServerTypes
    <2>6. \A j \in Links : challenge'[j].wrong = MaxTries => challenge'[j].st \in Dead
      BY <1>2, <2>1, <2>4, <2>5 DEF ServerTypes, Dead
    <2>7. \A j \in Links : /\ challenge[j].st = "none" <=> challenge'[j].st = "none"
                           /\ challenge'[j].st = "live" => challenge[j].st = "live"
      BY <1>8, <2>1, <2>4, <2>5
    <2> QED
      BY <1>6, <1>8, <2>2, <2>3, <2>5, <2>6, <2>7
  <1> QED
    BY <1>5, <1>7, <1>8 DEF VerifyCode

(* A terminal answer latches the screen and marks the challenge.            *)
LEMMA CodeAnswerKeeps ==
  ASSUME SignInInv, NEW i \in Codes, CodeAnswer(i)
  PROVE  SignInInv'
  <1> DEFINE c == [pc |-> "over", of |-> 0]
             g == [screen EXCEPT !.latch = TRUE]
             k == code[i].of
  <1>1. /\ code[i].pc \in {"invalid"} \cup Terminal
        /\ code' = [code EXCEPT ![i] = c] /\ Kept
        /\ \/ UNCHANGED <<screen, dead>>
           \/ screen' = g /\ dead' = dead \cup {k}
        /\ UNCHANGED <<challenge, send, ceremony, spent, flow, opened, accountVars, draft,
                       mail, stash, storage, cookie>>
    BY DEF CodeAnswer, Kept
  <1>2. ServerTypes /\ TabTypes /\ Credentials /\ Verdicts
    BY TypeParts DEF SignInInv
  <1>3. code[i].pc \notin {"none", "over"}
    BY <1>1 DEF Terminal
  <1>4. k \in Links /\ send[k] = "answered"
    BY <1>2, <1>3, NumbersAreNumbers DEF ServerTypes, CodeType, Verdicts
  <1>5. c \in CodeType /\ c.pc = "over" /\ c.of = 0
    BY NumbersAreNumbers DEF CodeType, CodePcs
  <1>6. /\ g \in ScreenType /\ g.place = screen.place /\ g.fired = screen.fired
        /\ g.ch = screen.ch /\ g.latch
    BY <1>2 DEF TabTypes, ScreenType
  <1> HIDE DEF c, g, k
  <1>7. code' \in [Codes -> CodeType] /\ code'[i] = c
        /\ \A j \in Codes \ {i} : code'[j] = code[j]
    BY <1>1, <1>2, <1>5 DEF ServerTypes
  <1>8. ServerTypes' /\ Credentials'
    BY <1>1, <1>2, <1>7 DEF ServerTypes, Credentials
  <1>9. TabTypes'
    BY <1>1, <1>2, <1>4, <1>6 DEF TabTypes, Kept
  <1>10. Verdicts'
    BY <1>1, <1>2, <1>4, <1>5, <1>6, <1>7 DEF Verdicts
  <1>12. AccountTypes' /\ stamp' = stamp /\ converted' = converted
    BY <1>1, AccountStays
  <1> QED
    BY <1>1, <1>8, <1>9, <1>10, <1>12, StillKeeps

(* The link's exchange spends a live challenge, or fails. *)
LEMMA ExchangeLinkKeeps ==
  ASSUME SignInInv, ExchangeLink
  PROVE  SignInInv'
  <1> DEFINE k == mail.of
  <1>1. /\ Kept \/ Failure
        /\ UNCHANGED <<send, code, ceremony, spent, opened, accountVars, draft, screen, stash,
                       storage, cookie, dead>>
    BY DEF ExchangeLink
  <1>2. ServerTypes /\ Credentials /\ Verdicts /\ TabTypes
    BY TypeParts DEF SignInInv
  <1>3. AccountTypes' /\ stamp' = stamp /\ converted' = converted
    BY <1>1, AccountStays DEF SignInInv
  <1>4. ASSUME mail' \in MailType, mail'.place = "landing" => mail'.of # 0
        PROVE  TabTypes' /\ Verdicts'
    BY <1>1, <1>2, <1>4, MailMoves DEF TabTypes
  <1>5. CASE MailFails /\ UNCHANGED <<challenge, flow>>
    <2>1. mail' \in MailType /\ mail'.place # "landing"
      BY <1>5, MailPlace DEF MailFails, MailPlaces
    <2>2. ServerTypes' /\ Credentials'
      BY <1>1, <1>2, <1>5 DEF ServerTypes, Credentials
    <2> QED
      BY <1>1, <1>3, <1>4, <1>5, <2>1, <2>2, StillKeeps
  <1>6. CASE /\ challenge[k].st = "live" /\ challenge' = [challenge EXCEPT ![k].st = "spent"]
             /\ Start(Email(k), "mail") /\ UNCHANGED mail /\ k \in Links
    <2> DEFINE c == [challenge[k] EXCEPT !.st = "spent"]
    <2>1. c \in ChallengeType /\ c.st = "spent" /\ challenge' = [challenge EXCEPT ![k] = c]
      BY <1>2, <1>6 DEF ChallengeType, Dead, ServerTypes
    <2> HIDE DEF c
    <2>2. /\ challenge' \in [Links -> ChallengeType] /\ challenge'[k].st = "spent"
          /\ \A j \in Links \ {k} : challenge'[j] = challenge[j]
      BY <1>2, <1>6, <2>1 DEF ServerTypes
    <2>3. \A j \in Links : challenge'[j].wrong = MaxTries => challenge'[j].st \in Dead
      BY <1>2, <2>2 DEF ServerTypes, Dead
    <2>4. TabTypes' /\ Verdicts'
      BY <1>2, <1>4, <1>6 DEF TabTypes, Verdicts
    <2>5. flow[Email(k)].pc = "none" /\ Email(k) \in Door
      BY <1>2, <1>6, DoorFacts DEF Credentials
    <2>6. /\ code' \in [Codes -> CodeType]
          /\ ceremony' \in [Ceremonies -> CeremonyType] /\ spent' \in [Ceremonies -> 0..1]
      BY <1>1, <1>2 DEF ServerTypes
    <2>7. \A j \in Links : challenge'[j].st \in {"none", "live"} =>
                              Email(j) # Email(k) /\ challenge'[j] = challenge[j]
      BY <1>6, <2>2, DoorFacts
    <2>8. \A g \in Ceremonies : Google(g) # Email(k) /\ ceremony'[g] = ceremony[g]
                                /\ spent'[g] = spent[g]
      BY <1>1, <1>6, DoorFacts
    <2>9. \A j \in Links : challenge[j].st = "none" => challenge'[j] = challenge[j]
      BY <1>6, <2>2
    <2> QED
      BY <1>1, <1>6, <2>2, <2>3, <2>4, <2>5, <2>6, <2>7, <2>8, <2>9, StartKeeps
  <1>7. k \in Links
    BY <1>2, NumbersAreNumbers DEF ExchangeLink, Verdicts, TabTypes, MailType
  <1> QED
    BY <1>5, <1>6, <1>7 DEF ExchangeLink

-----------------------------------------------------------------------------
(* A ceremony is minted; no request is behind it yet. *)
LEMMA Minted ==
  ASSUME SignInInv, NEW g \in Ceremonies, NEW link \in BOOLEAN, NEW left \in BOOLEAN,
         NextCeremony(g), Mint(g, link, left),
         UNCHANGED <<challenge, send, code, spent, flow, opened>>
  PROVE  ServerTypes' /\ Credentials'
  <1> DEFINE c == [st |-> "open", link |-> link, left |-> left]
  <1>1. ServerTypes /\ Credentials /\ ceremony[g].st = "none"
    BY TypeParts DEF SignInInv, NextCeremony
  <1>2. ceremony' = [ceremony EXCEPT ![g] = c]
    BY DEF Mint
  <1>4. c \in CeremonyType
    BY DEF CeremonyType, CeremonyPcs
  <1> HIDE DEF c
  <1>5. ceremony' \in [Ceremonies -> CeremonyType]
        /\ \A h \in Ceremonies \ {g} : ceremony'[h] = ceremony[h]
    BY <1>1, <1>2, <1>4 DEF ServerTypes
  <1>6. ServerTypes'
    BY <1>1, <1>5 DEF ServerTypes
  <1>7. flow[Google(g)].pc = "none" /\ spent[g] = 0
    BY <1>1 DEF Credentials
  <1>8. \A h \in Ceremonies : ceremony'[h].st \in {"none", "open"}
                                => flow'[Google(h)].pc = "none" /\ spent'[h] = 0
    BY <1>1, <1>5, <1>7 DEF Credentials
  <1>9. Credentials'
    BY <1>1, <1>8 DEF Credentials
  <1> QED
    BY <1>6, <1>9

(* The tab leaves for Google with the handle in its storage. *)
LEMMA StartGoogleKeeps ==
  ASSUME SignInInv, NEW g \in Ceremonies, StartGoogle(g)
  PROVE  SignInInv'
  <1>1. /\ NextCeremony(g) /\ StoreDraft /\ \E left \in BOOLEAN : Mint(g, FALSE, left)
        /\ UNCHANGED <<challenge, send, code, spent, flow, opened, accountVars, mail, storage,
                       cookie, dead>>
        /\ (Kept \/ Failure)
    BY DEF StartGoogle
  <1>2. ServerTypes' /\ Credentials'
    BY <1>1, Minted
  <1>3. AccountTypes' /\ stamp' = stamp /\ converted' = converted
    BY <1>1, AccountStays
  <1>4. TabTypes /\ Verdicts /\ failures' \in 0..MaxFailures
    BY <1>1, TypeParts, FailureCounts DEF SignInInv
  <1>5. draft' \in {"none", "held", "claimed", "sent"}
    BY <1>1, Stored
  <1>6. TabTypes' /\ Verdicts'
    <2>1. CASE UNCHANGED <<stash, screen>>
      BY <1>1, <1>4, <1>5, <2>1 DEF TabTypes, Verdicts
    <2>2. CASE stash' = (Holds /\ storage)
               /\ screen' = [screen EXCEPT !.place = "google", !.at = g]
      <3>1. stash' \in BOOLEAN
        BY <2>2, <1>4 DEF TabTypes, Holds
      <3>2. screen' \in ScreenType /\ screen'.ch = screen.ch /\ screen'.latch = screen.latch
        <4>1. g \in 0..MaxGoogle /\ screen \in ScreenType
          BY <1>4, NumbersAreNumbers DEF TabTypes
        <4> QED
          BY <2>2, <4>1 DEF ScreenType, Places
      <3>3. TabTypes'
        BY <1>1, <1>4, <1>5, <3>1, <3>2 DEF TabTypes
      <3>4. Verdicts'
        BY <1>1, <1>4, <3>2 DEF Verdicts
      <3> QED
        BY <3>3, <3>4
    <2> QED
      BY <2>1, <2>2 DEF StartGoogle
  <1> QED
    BY <1>1, <1>2, <1>3, <1>6, StillKeeps

LEMMA ConnectKeeps ==
  ASSUME SignInInv, NEW g \in Ceremonies, ConnectGoogle(g)
  PROVE  SignInInv'
  <1>1. /\ NextCeremony(g) /\ Mint(g, TRUE, TRUE) /\ Kept
        /\ UNCHANGED <<challenge, send, code, spent, flow, opened, accountVars, draft, tabVars>>
    BY DEF ConnectGoogle, Kept
  <1>2. ServerTypes' /\ Credentials'
    BY <1>1, Minted
  <1>3. AccountTypes' /\ stamp' = stamp /\ converted' = converted
    BY <1>1, AccountStays
  <1>4. TabTypes' /\ Verdicts'
    BY <1>1, TabsStay
  <1> QED
    BY <1>1, <1>2, <1>3, <1>4, StillKeeps

(* Only the visitor's side moves. *)
LEMMA TabKeeps ==
  ASSUME SignInInv, UNCHANGED <<serverVars, accountVars>>, Kept \/ Failure,
         TabTypes', Verdicts'
  PROVE  SignInInv'
  <1>1. ServerTypes' /\ Credentials'
    BY TypeParts DEF SignInInv, ServerTypes, Credentials, serverVars
  <1>2. AccountTypes' /\ stamp' = stamp /\ converted' = converted
    BY AccountStays
  <1> QED
    BY <1>1, <1>2, StillKeeps DEF serverVars

LEMMA CallbackKeeps ==
  ASSUME SignInInv, Callback
  PROVE  SignInInv'
  <1>1. /\ screen.place = "google" /\ Kept
        /\ UNCHANGED <<serverVars, accountVars, draft, mail, storage, cookie, dead>>
    BY DEF Callback, Kept
  <1>2. CASE GoogleFails
    BY <1>1, <1>2, FailsSafely, TabKeeps DEF serverVars
  <1>3. CASE screen' = [screen EXCEPT !.place = "landing"] /\ UNCHANGED stash
    <2>1. TabTypes
      BY TypeParts DEF SignInInv
    <2>2. /\ screen' \in ScreenType /\ screen'.place = "landing" /\ screen'.ch = screen.ch
          /\ screen'.latch = screen.latch
      BY <1>3, <2>1 DEF TabTypes, ScreenType, Places
    <2>3. TabTypes' /\ Verdicts'
      BY <1>1, <1>3, <2>1, <2>2 DEF TabTypes, Verdicts,
         SignInInv, serverVars, Kept
    <2> QED
      BY <1>1, <2>3, TabKeeps
  <1> QED
    BY <1>2, <1>3 DEF Callback

(* The screen learns of the session, and acts on it. *)
LEMMA PollKeeps ==
  ASSUME SignInInv, Poll
  PROVE  SignInInv'
  <1>1. /\ screen' = [screen EXCEPT !.user = TRUE] /\ Kept
        /\ UNCHANGED <<serverVars, accountVars, draft, mail, stash, storage, cookie, dead>>
    BY DEF Poll, Kept
  <1>2. TabTypes
    BY TypeParts DEF SignInInv
  <1>3. /\ screen' \in ScreenType /\ screen'.place = screen.place /\ screen'.ch = screen.ch
        /\ screen'.latch = screen.latch
    BY <1>1, <1>2 DEF TabTypes, ScreenType
  <1>4. TabTypes' /\ Verdicts'
    BY <1>1, <1>2, <1>3 DEF TabTypes, Verdicts,
       SignInInv, serverVars, Kept
  <1> QED
    BY <1>1, <1>4, TabKeeps

LEMMA PivotKeeps ==
  ASSUME SignInInv, Pivot
  PROVE  SignInInv'
  <1>1. /\ screen.place = "gate" /\ Kept
        /\ UNCHANGED <<serverVars, accountVars, draft, mail, stash, storage, cookie, dead>>
    BY DEF Pivot, Kept
  <1>2. TabTypes
    BY TypeParts DEF SignInInv
  <1>3. CASE Holds /\ screen' = [screen EXCEPT !.fired = TRUE]
    <2>1. /\ screen' \in ScreenType /\ screen'.ch = screen.ch /\ screen'.latch = screen.latch
      BY <1>2, <1>3 DEF TabTypes, ScreenType
    <2>2. TabTypes' /\ Verdicts'
      BY <1>1, <1>2, <2>1 DEF TabTypes, Verdicts,
         SignInInv, serverVars, Kept
    <2> QED
      BY <1>1, <2>2, TabKeeps
  <1>4. CASE ~Holds /\ screen' = [screen EXCEPT !.place = "dashboard"]
    <2>1. /\ screen' \in ScreenType /\ screen'.ch = screen.ch
          /\ screen'.latch = screen.latch
      BY <1>2, <1>4 DEF TabTypes, ScreenType, Places
    <2>2. TabTypes' /\ Verdicts'
      BY <1>1, <1>2, <1>4, <2>1 DEF TabTypes, Verdicts,
         SignInInv, serverVars, Kept
    <2> QED
      BY <1>1, <2>2, TabKeeps
  <1> QED
    BY <1>3, <1>4 DEF Pivot

(* The page with the document sends it. *)
LEMMA PageMoves ==
  ASSUME SignInInv, NEW from, NEW to, PageSends(from, to)
  PROVE  /\ draft' \in {"none", "held", "claimed", "sent"} /\ (Kept \/ Failure)
         /\ to \in {"creating", "envelope", "restore"}
  BY TypeParts DEF PageSends, ClaimInTab, CreateInTab, Takes, Sends, Releases, Strands,
     SignInInv, TabTypes

LEMMA SendsKeep ==
  ASSUME SignInInv, MailSends \/ ScreenSends
  PROVE  SignInInv'
  <1>1. TabTypes /\ Verdicts /\ UNCHANGED <<serverVars, accountVars, storage, stash, cookie, dead>>
    BY TypeParts DEF SignInInv, MailSends, ScreenSends
  <1>2. CASE MailSends
    <2>1. PICK to \in MailPlaces : PageSends(mail.place, to) /\ mail' = [mail EXCEPT !.place = to]
      BY <1>2 DEF MailSends
    <2>2. /\ draft' \in {"none", "held", "claimed", "sent"} /\ (Kept \/ Failure)
          /\ mail'.place # "landing" /\ mail' \in MailType /\ UNCHANGED screen
      BY <1>2, <2>1, PageMoves, MailPlace DEF MailSends
    <2>3. TabTypes' /\ Verdicts'
      BY <1>1, <2>2, FailureCounts DEF TabTypes, Verdicts, serverVars
    <2> QED
      BY <1>1, <2>2, <2>3, TabKeeps
  <1>3. CASE ScreenSends
    <2>1. PICK to \in Places : PageSends(screen.place, to) /\ screen' = [screen EXCEPT !.place = to]
      BY <1>3 DEF ScreenSends
    <2>2. draft' \in {"none", "held", "claimed", "sent"} /\ (Kept \/ Failure)
      BY <2>1, PageMoves
    <2>3. /\ screen' \in ScreenType /\ screen'.ch = screen.ch /\ screen'.latch = screen.latch
          /\ UNCHANGED mail
      BY <1>1, <1>3, <2>1 DEF TabTypes, ScreenType, ScreenSends
    <2>4. TabTypes' /\ Verdicts'
      BY <1>1, <2>2, <2>3, FailureCounts DEF TabTypes, Verdicts, serverVars
    <2> QED
      BY <1>1, <2>2, <2>4, TabKeeps
  <1> QED
    BY <1>2, <1>3

(* A ceremony leaves "open" for good: its code is spent at most once.       *)
LEMMA CeremonyMoves ==
  ASSUME SignInInv, NEW g \in Ceremonies, NEW to \in {"used", "gone"},
         ceremony' = [ceremony EXCEPT ![g].st = to],
         spent' = spent \/ (ceremony[g].st = "open" /\ spent' = [spent EXCEPT ![g] = spent[g] + 1])
  PROVE  /\ ceremony' \in [Ceremonies -> CeremonyType] /\ spent' \in [Ceremonies -> 0..1]
         /\ ceremony'[g].st = to
         /\ \A h \in Ceremonies \ {g} : ceremony'[h] = ceremony[h] /\ spent'[h] = spent[h]
  <1> DEFINE c == [ceremony[g] EXCEPT !.st = to]
  <1>1. ServerTypes /\ Credentials
    BY TypeParts DEF SignInInv
  <1>2. c \in CeremonyType /\ c.st = to
    BY <1>1 DEF ServerTypes, CeremonyType, CeremonyPcs
  <1>3. ceremony' = [ceremony EXCEPT ![g] = c]
    OBVIOUS
  <1> HIDE DEF c
  <1>4. /\ ceremony' \in [Ceremonies -> CeremonyType] /\ ceremony'[g].st = to
        /\ \A h \in Ceremonies \ {g} : ceremony'[h] = ceremony[h]
    BY <1>1, <1>2, <1>3 DEF ServerTypes
  <1>5. spent' \in [Ceremonies -> 0..1] /\ \A h \in Ceremonies \ {g} : spent'[h] = spent[h]
    <2>1. CASE spent' = spent
      BY <1>1, <2>1 DEF ServerTypes
    <2>2. CASE ceremony[g].st = "open" /\ spent' = [spent EXCEPT ![g] = spent[g] + 1]
      <3>1. spent[g] = 0
        BY <1>1, <2>2 DEF Credentials
      <3> QED
        BY <1>1, <2>2, <3>1 DEF ServerTypes
    <2> QED
      BY <2>1, <2>2
  <1> QED
    BY <1>4, <1>5

(* No request starts behind it. *)
LEMMA CeremonyKeeps ==
  ASSUME SignInInv, NEW g \in Ceremonies, NEW to \in {"used", "gone"},
         ceremony' = [ceremony EXCEPT ![g].st = to],
         spent' = spent \/ (ceremony[g].st = "open" /\ spent' = [spent EXCEPT ![g] = spent[g] + 1]),
         UNCHANGED <<challenge, send, code, flow, opened, accountVars, draft>>, Kept \/ Failure,
         TabTypes', Verdicts'
  PROVE  SignInInv'
  <1>1. /\ ceremony' \in [Ceremonies -> CeremonyType] /\ spent' \in [Ceremonies -> 0..1]
        /\ ceremony'[g].st = to
        /\ \A h \in Ceremonies \ {g} : ceremony'[h] = ceremony[h] /\ spent'[h] = spent[h]
    BY CeremonyMoves
  <1>2. ServerTypes /\ Credentials
    BY TypeParts DEF SignInInv
  <1>3. ServerTypes'
    BY <1>1, <1>2 DEF ServerTypes
  <1>4. \A h \in Ceremonies : ceremony'[h].st \in {"none", "open"}
                                => flow'[Google(h)].pc = "none" /\ spent'[h] = 0
    BY <1>1, <1>2 DEF Credentials
  <1>5. Credentials'
    BY <1>2, <1>4 DEF Credentials
  <1>6. AccountTypes' /\ stamp' = stamp /\ converted' = converted
    BY AccountStays DEF SignInInv
  <1> QED
    BY <1>3, <1>5, <1>6, StillKeeps

LEMMA ReapKeeps ==
  ASSUME SignInInv, NEW g \in Ceremonies, ReapCeremony(g)
  PROVE  SignInInv'
  <1>1. /\ ceremony' = [ceremony EXCEPT ![g].st = "gone"] /\ Kept
        /\ UNCHANGED <<challenge, send, code, spent, flow, opened, accountVars, draft, tabVars>>
    BY DEF ReapCeremony, Kept
  <1>2. TabTypes' /\ Verdicts'
    BY <1>1, TabsStay
  <1> QED
    BY <1>1, <1>2, CeremonyKeeps

(* The exchange: the one that consumed the ceremony goes on.                *)
LEMMA ExchangeGoogleKeeps ==
  ASSUME SignInInv, NEW g \in Ceremonies, NEW own \in BOOLEAN, ExchangeGoogle(g, own)
  PROVE  SignInInv'
  <1>1. /\ UNCHANGED <<challenge, send, code, opened, accountVars, draft, mail, storage, cookie,
                       dead>>
        /\ (Kept \/ Failure)
    BY DEF ExchangeGoogle
  <1>2. GoogleFails => TabTypes' /\ Verdicts'
    BY <1>1, FailsSafely
  <1>3. UNCHANGED <<screen, stash>> =>
          TabTypes' /\ Verdicts'
    BY <1>1, TabsStay DEF tabVars
  <1>4. CASE ~Consumable(g) /\ GoogleFails /\ UNCHANGED <<ceremony, spent, flow>>
    <2>1. ServerTypes' /\ Credentials'
      BY <1>1, <1>4, TypeParts DEF SignInInv, ServerTypes, Credentials
    <2>2. AccountTypes' /\ stamp' = stamp /\ converted' = converted
      BY <1>1, AccountStays DEF SignInInv
    <2> QED
      BY <1>1, <1>2, <1>4, <2>1, <2>2, StillKeeps
  <1>5. ASSUME Consumable(g), ceremony' = [ceremony EXCEPT ![g].st = "used"],
               spent' = [spent EXCEPT ![g] = spent[g] + 1]
        PROVE  SignInInv'
    <2>1. ceremony[g].st = "open"
      BY <1>5 DEF Consumable
    <2>2. CASE UNCHANGED flow /\ (GoogleFails \/ UNCHANGED <<screen, stash>>)
      BY <1>1, <1>2, <1>3, <1>5, <2>1, <2>2, CeremonyKeeps
    <2>3. CASE Start(Google(g), "screen") /\ UNCHANGED <<screen, stash>>
      <3>1. /\ ceremony' \in [Ceremonies -> CeremonyType] /\ spent' \in [Ceremonies -> 0..1]
            /\ ceremony'[g].st = "used"
            /\ \A h \in Ceremonies \ {g} : ceremony'[h] = ceremony[h] /\ spent'[h] = spent[h]
        BY <1>5, <2>1, CeremonyMoves
      <3>2. ServerTypes /\ Credentials
        BY TypeParts DEF SignInInv
      <3>3. flow[Google(g)].pc = "none" /\ Google(g) \in Door
        BY <2>1, <3>2, DoorFacts DEF Credentials
      <3>4. /\ challenge' \in [Links -> ChallengeType] /\ code' \in [Codes -> CodeType]
            /\ \A k \in Links : challenge'[k].wrong = MaxTries => challenge'[k].st \in Dead
        BY <1>1, <3>2 DEF ServerTypes
      <3>5. \A k \in Links : Email(k) # Google(g) /\ challenge'[k] = challenge[k]
        BY <1>1, DoorFacts
      <3>6. \A h \in Ceremonies : ceremony'[h].st \in {"none", "open"} =>
              Google(h) # Google(g) /\ ceremony'[h] = ceremony[h] /\ spent'[h] = spent[h]
        BY <3>1, DoorFacts
      <3> QED
        BY <1>1, <1>3, <2>3, <3>1, <3>3, <3>4, <3>5, <3>6, StartKeeps
    <2> QED
      <3>1. \/ Start(Google(g), "screen") /\ UNCHANGED <<screen, stash>>
            \/ UNCHANGED flow /\ (GoogleFails \/ UNCHANGED <<screen, stash>>)
        BY <1>5 DEF ExchangeGoogle
      <3> QED
        BY <2>2, <2>3, <3>1
  <1> QED
    BY <1>4, <1>5 DEF ExchangeGoogle

-----------------------------------------------------------------------------
LEMMA SignInStarts == Init => SignInInv
  <1> SUFFICES ASSUME Init PROVE SignInInv
    OBVIOUS
  <1>1. /\ 0 \in 0..MaxLinks /\ 0 \in 0..MaxTries /\ 0 # MaxTries /\ 0 \in 0..MaxGoogle
        /\ 0 \in 0..MaxFailures
    BY NumbersAreNumbers
  <1>2. NoFlow \in FlowType /\ NoFlow.pc = "none" /\ NoFlow.claim = "none"
    BY DEF NoFlow, FlowType, FlowPcs, Claims
  <1>3. flow \in [Door -> FlowType] /\ \A d \in Door : flow[d] = NoFlow
    BY <1>2 DEF Init
  <1>4. /\ challenge \in [Links -> ChallengeType]
        /\ \A k \in Links : challenge[k].wrong = 0 /\ challenge[k].st = "none"
    BY <1>1 DEF Init, ChallengeType
  <1>5. code \in [Codes -> CodeType] /\ ceremony \in [Ceremonies -> CeremonyType]
        /\ \A i \in Codes : code[i].pc = "none" /\ code[i].of = 0
    BY <1>1 DEF Init, CodeType, CodePcs, CeremonyType, CeremonyPcs
  <1>6. /\ send \in [Links -> SendPcs] /\ spent \in [Ceremonies -> 0..1]
        /\ opened \in [Door -> 0..1]
    BY DEF Init, SendPcs
  <1>7. ServerTypes
    BY <1>1, <1>3, <1>4, <1>5, <1>6 DEF ServerTypes
  <1>8. /\ screen \in ScreenType /\ screen.place = "gate" /\ screen.ch = 0
        /\ mail \in MailType /\ mail.place = "closed"
    BY <1>1 DEF Init, ScreenType, Places, MailType, MailPlaces
  <1>9. AccountTypes /\ TabTypes
    <2>1. AccountTypes
      <3>1. granted = 0 /\ capture = FALSE /\ stamp = "none" /\ converted = FALSE
        BY DEF Init
      <3>2. capture \in BOOLEAN /\ converted \in BOOLEAN
        BY <3>1, Zenon
      <3>3. granted \in 0..1 /\ stamp \in {"none", "organic", "paid"}
        BY <3>1
      <3> QED
        BY <3>2, <3>3 DEF AccountTypes
    <2>2. draft = "none" /\ stash \in BOOLEAN /\ storage \in BOOLEAN /\ cookie \in BOOLEAN
          /\ dead = {} /\ failures = 0
      BY DEF Init
    <2> QED
      BY <1>1, <1>8, <2>1, <2>2 DEF TabTypes
  <1>10. Credentials
    BY <1>2, <1>3, DoorFacts DEF Init, Credentials
  <1>11. Verdicts
    BY <1>5, <1>8 DEF Init, Verdicts
  <1>12. StampIsFollowed
    BY DEF Init, StampIsFollowed
  <1> QED
    BY <1>7, <1>9, <1>10, <1>11, <1>12, TypeParts DEF SignInInv

LEMMA SignInKeeps == SignInInv /\ [Next]_vars => SignInInv'
  <1> SUFFICES ASSUME SignInInv, [Next]_vars PROVE SignInInv'
    OBVIOUS
  <1>1. CASE UNCHANGED vars
    <2>1. UNCHANGED <<serverVars, accountVars, draft, tabVars>> /\ Kept
      BY <1>1 DEF vars, Kept
    <2>2. TabTypes' /\ Verdicts'
      BY <2>1, TabsStay DEF serverVars
    <2> QED
      BY <2>1, <2>2, TabKeeps
  <1>2. CASE \E k \in Links : AskLink(k) \/ SendLink(k) \/ LinkAnswer(k) \/ OpenLink(k)
    BY <1>2, AskLinkKeeps, SendLinkKeeps, LinkAnswerKeeps, OpenLinkKeeps
  <1>3. CASE \E i \in Codes : ConfirmCode(i) \/ VerifyCode(i) \/ CodeAnswer(i)
    BY <1>3, ConfirmKeeps, VerifyKeeps, CodeAnswerKeeps
  <1>4. CASE ExchangeLink \/ Callback \/ Poll \/ Pivot \/ MailSends \/ ScreenSends
    BY <1>4, ExchangeLinkKeeps, CallbackKeeps, PollKeeps, PivotKeeps, SendsKeep
  <1>5. CASE \E g \in Ceremonies :
               StartGoogle(g) \/ ConnectGoogle(g) \/ ReapCeremony(g)
               \/ \E own \in BOOLEAN : ExchangeGoogle(g, own)
    BY <1>5, StartGoogleKeeps, ConnectKeeps, ReapKeeps, ExchangeGoogleKeeps
  <1>6. CASE \E d \in Door :
               \/ OpenSession(d) \/ Crash(d) \/ GrantSignup(d) \/ RecordRider(d)
               \/ ReadCapture(d) \/ StampAccount(d) \/ PurgeCaptures(d)
               \/ EnqueueConversion(d) \/ ClaimDraft(d) \/ CreateFromDraft(d)
               \/ FlowAnswer(d)
    BY <1>6, OpenSessionKeeps, CrashKeeps, GrantKeeps, RecordKeeps, ReadKeeps, StampKeeps,
       PurgeKeeps, ConvertKeeps, ClaimDraftKeeps, CreateFromDraftKeeps, FlowAnswerKeeps
  <1> QED
    BY <1>1, <1>2, <1>3, <1>4, <1>5, <1>6 DEF Next

THEOREM SignInIsSound == Spec => []SignInInv
  BY SignInStarts, SignInKeeps, PTL DEF Spec

(* Types, and with them: a challenge past its tries is dead, a code of      *)
(* Google's is spent once, a credential opens one session, and an inbox is  *)
(* granted its trial once, through every door.                              *)
THEOREM SignInTypes == Spec => []TypeOK
  <1>1. SignInInv => TypeOK
    BY DEF SignInInv
  <1> QED
    BY <1>1, SignInIsSound, PTL

(* The sign-in that stamped a click enqueues its conversion, whatever other *)
(* sign-ins overlap it, when nothing fails.                                 *)
THEOREM PaidSignUpsConvert == Spec => []PaidIsConverted
  <1>1. SignInInv => PaidIsConverted
    BY DEF SignInInv, StampIsFollowed, Converts, PaidIsConverted
  <1> QED
    BY <1>1, SignInIsSound, PTL

(* Only a confirm posts a code, and the screen shows no dead challenge      *)
(* unlatched.                                                               *)
LEMMA OnlyConfirmPosts ==
  ASSUME SignInInv, [Next]_vars, NEW i \in Codes,
         code[i].pc = "none", code'[i].pc = "posted"
  PROVE  code'[i].of \notin dead
  <1>1. code \in [Codes -> CodeType] /\ Verdicts
    BY TypeParts DEF SignInInv, ServerTypes
  <1>2. CASE UNCHANGED code
    BY <1>2
  <1>3. ASSUME NEW j \in Codes, ConfirmCode(j)
        PROVE  code'[i].of \notin dead
    BY <1>1, <1>3 DEF ConfirmCode, Verdicts
  <1>4. ASSUME NEW j \in Codes, VerifyCode(j)
        PROVE  FALSE
    <2>1. PICK a : code' = [code EXCEPT ![j].pc = a]
      BY <1>4 DEF VerifyCode
    <2>2. code[j].pc = "posted"
      BY <1>4 DEF VerifyCode
    <2> QED
      BY <1>1, <2>1, <2>2
  <1>5. ASSUME NEW j \in Codes, CodeAnswer(j)
        PROVE  FALSE
    BY <1>1, <1>5 DEF CodeAnswer
  <1>6. (\E j \in Codes : ConfirmCode(j) \/ VerifyCode(j) \/ CodeAnswer(j)) \/ UNCHANGED code
    <2>1. CASE UNCHANGED vars
      BY <2>1 DEF vars, serverVars
    <2>2. ASSUME NEW k \in Links, AskLink(k) \/ SendLink(k) \/ LinkAnswer(k) \/ OpenLink(k)
          PROVE  UNCHANGED code
      BY <2>2 DEF AskLink, SendLink, LinkAnswer, OpenLink, serverVars
    <2>3. CASE ExchangeLink \/ Callback \/ Poll \/ Pivot \/ MailSends \/ ScreenSends
      BY <2>3 DEF ExchangeLink, Callback, Poll, Pivot, MailSends, ScreenSends, serverVars
    <2>4. ASSUME NEW g \in Ceremonies,
                 StartGoogle(g) \/ ConnectGoogle(g) \/ ReapCeremony(g)
                 \/ \E own \in BOOLEAN : ExchangeGoogle(g, own)
          PROVE  UNCHANGED code
      BY <2>4 DEF StartGoogle, ConnectGoogle, ReapCeremony, ExchangeGoogle
    <2>5. ASSUME NEW d \in Door,
                 \/ OpenSession(d) \/ Crash(d) \/ GrantSignup(d) \/ RecordRider(d)
                 \/ ReadCapture(d) \/ StampAccount(d) \/ PurgeCaptures(d)
                 \/ EnqueueConversion(d) \/ ClaimDraft(d) \/ CreateFromDraft(d)
                 \/ FlowAnswer(d)
          PROVE  UNCHANGED code
      BY <2>5 DEF OpenSession, Crash, GrantSignup, RecordRider, ReadCapture, StampAccount,
         PurgeCaptures, EnqueueConversion, ClaimDraft, CreateFromDraft, FlowAnswer, Quiet, Server
    <2> QED
      BY <2>1, <2>2, <2>3, <2>4, <2>5 DEF Next
  <1> QED
    BY <1>2, <1>3, <1>4, <1>5, <1>6

(* No code is confirmed against a challenge the screen was told is dead.    *)
THEOREM NoLateConfirm == Spec => NoConfirmAfterVerdict
  <1> DEFINE Confirms == \A i \in Codes :
        code[i].pc = "none" /\ code'[i].pc = "posted" => code'[i].of \notin dead
  <1>1. SignInInv /\ [Next]_vars => Confirms
    BY OnlyConfirmPosts
  <1> HIDE DEF Confirms
  <1> QED
    BY <1>1, SignInIsSound, PTL DEF Spec, NoConfirmAfterVerdict, Confirms

-----------------------------------------------------------------------------
(***************************************************************************)
(* The document.  One request at most has its claim, and only that one can  *)
(* give it back; a landing that was told something of it hears the truth.   *)
(***************************************************************************)
OneClaim ==
  /\ draft # "none" => Holds
  /\ \A d \in Door : flow[d].pc = "create" =>
       draft = "claimed" /\ mail.place # "creating" /\ screen.place # "creating"
  /\ \A d, e \in Door : flow[d].pc = "create" /\ flow[e].pc = "create" => d = e
  /\ mail.place = "creating" => draft = "claimed" /\ screen.place # "creating"
  /\ screen.place = "creating" => draft = "claimed"
  /\ \A d \in Door : flow[d].claim # "none" => flow[d].pc = "answer"
  /\ \A d \in Door : flow[d].claim = "sent" => draft = "sent"
  /\ Holds => \A g \in Ceremonies :
                flow[Google(g)].pc = "answer" => flow[Google(g)].claim # "none"

(* The e-mail tab waits on its landing for the one request it posted; the   *)
(* screen that left with the document has one ceremony, which is through    *)
(* once the landing has moved on.                                           *)
Posted(d) == flow[d].tab = "mail" /\ flow[d].pc \notin {"none", "over"}
PastLanding == {"claim", "creating", "envelope", "dashboard"}

Journey ==
  /\ \A d \in Door : flow[d].claim # "none" \/ flow[d].pc = "create" =>
       \E g \in Ceremonies : d = Google(g)
  /\ \A g \in Ceremonies :
       flow[Google(g)].pc # "none" => ceremony[g].left /\ ~ceremony[g].link
  /\ \A d \in Door : Posted(d) => mail.place = "landing" /\ d = Email(mail.of)
  /\ Holds /\ storage =>
       /\ \A g \in Ceremonies : ceremony[g].left /\ ~ceremony[g].link
                                  => screen.at = g /\ screen.place # "gate"
       /\ screen.place \in {"google", "landing"} => stash
       /\ screen.place \in PastLanding =>
            \A g \in Ceremonies : screen.at = g => flow[Google(g)].pc = "over"
       /\ \A d \in Door : flow[d].claim = "pending" => draft # "held" \/ mail.place = "restore"

ReachInv == OneClaim /\ Journey /\ HeldDraftInReach

(* A request is at one place only. *)
LEMMA MovedFlow ==
  ASSUME SignInInv, NEW d \in Door, NEW f \in FlowType, flow' = [flow EXCEPT ![d] = f]
  PROVE  flow'[d] = f /\ \A e \in Door \ {d} : flow'[e] = flow[e]
  BY TypeParts DEF SignInInv, ServerTypes

(* Nothing the document depends on moves. *)
LEMMA ReachStays ==
  ASSUME SignInInv, ReachInv, UNCHANGED <<flow, ceremony, draft, mail, stash, storage>>,
         screen'.at = screen.at,
         screen'.place = screen.place \/ (~Holds /\ screen'.place = "dashboard")
  PROVE  ReachInv'
  BY DEF ReachInv, OneClaim, Journey, HeldDraftInReach, Posted, PastLanding, Holds

(* A request goes on to a statement that has nothing to do with it. *)
LEMMA ReachGoesOn ==
  ASSUME SignInInv, ReachInv, NEW d \in Door, NEW f \in FlowType,
         flow' = [flow EXCEPT ![d] = f],
         flow[d].pc \notin {"none", "over"}, f.pc \notin {"none", "over", "create"},
         f.pc = "answer" => d[1] # "google" \/ ~Holds,
         f.claim = flow[d].claim, f.tab = flow[d].tab, flow[d].pc # "answer",
         UNCHANGED <<ceremony, draft, screen, mail, stash, storage>>
  PROVE  ReachInv'
  <1>1. flow'[d] = f /\ \A e \in Door \ {d} : flow'[e] = flow[e]
    BY MovedFlow
  <1>2. flow[d].claim = "none"
    BY DEF ReachInv, OneClaim
  <1>3. OneClaim'
    <2>1. ASSUME Holds, NEW g \in Ceremonies, flow'[Google(g)].pc = "answer"
          PROVE  flow'[Google(g)].claim # "none"
      BY <1>1, <2>1, DoorFacts DEF ReachInv, OneClaim
    <2> QED
      BY <1>1, <1>2, <2>1 DEF ReachInv, OneClaim, Holds
  <1>4. Journey'
    <2>1. \A e \in Door : Posted(e)' => Posted(e)
      BY <1>1 DEF Posted
    <2>2. \A g \in Ceremonies : flow'[Google(g)].pc # "none" => flow[Google(g)].pc # "none"
      BY <1>1, DoorFacts
    <2>3. \A g \in Ceremonies : flow[Google(g)].pc = "over" => flow'[Google(g)].pc = "over"
      BY <1>1, DoorFacts
    <2> QED
      BY <1>1, <1>2, <2>1, <2>2, <2>3 DEF ReachInv, Journey, Holds
  <1> QED
    BY <1>3, <1>4 DEF ReachInv, HeldDraftInReach

(* The next statement, with its tab. *)
LEMMA GoOn ==
  ASSUME SignInInv, NEW d \in Door, NEW pc \in FlowPcs, Go(d, pc)
  PROVE  \E f \in FlowType : /\ flow' = [flow EXCEPT ![d] = f] /\ f.pc = pc
                             /\ f.claim = flow[d].claim /\ f.tab = flow[d].tab
  <1> DEFINE f == [flow[d] EXCEPT !.pc = pc]
  <1>1. flow[d] \in FlowType
    BY TypeParts DEF SignInInv, ServerTypes
  <1>2. f \in FlowType /\ f.pc = pc /\ f.claim = flow[d].claim /\ f.tab = flow[d].tab
    BY <1>1 DEF FlowType
  <1>3. flow' = [flow EXCEPT ![d] = f]
    BY DEF Go
  <1> QED
    BY <1>2, <1>3

(* The statements on the session and the account. *)
LEMMA ReachStatements ==
  ASSUME SignInInv, ReachInv, NEW d \in Door,
         \/ GrantSignup(d) \/ RecordRider(d) \/ ReadCapture(d) \/ StampAccount(d)
         \/ PurgeCaptures(d) \/ EnqueueConversion(d)
  PROVE  ReachInv'
  <1>1. /\ flow[d].pc \in {"grant", "record", "read", "stamp", "purge", "convert"}
        /\ UNCHANGED <<ceremony, draft, screen, mail, stash, storage>>
    BY DEF GrantSignup, RecordRider, ReadCapture, StampAccount, PurgeCaptures,
       EnqueueConversion, At, Quiet, Server, tabVars
  <1>2. flow[d] \in FlowType /\ capture \in BOOLEAN /\ (flow[d].row /\ stamp = "none") \in BOOLEAN
    BY TypeParts DEF SignInInv, ServerTypes, AccountTypes
  <1>3. \E f \in FlowType : /\ flow' = [flow EXCEPT ![d] = f]
                            /\ f.pc \in {"record", "read", "stamp", "purge", "convert", "claim"}
                            /\ f.claim = flow[d].claim /\ f.tab = flow[d].tab
    <2>1. ASSUME NEW pc \in {"record", "read", "convert", "claim"}, Go(d, pc)
          PROVE  <1>3
      BY <2>1, GoOn DEF FlowPcs
    <2>2. CASE ReadCapture(d)
      <3> DEFINE f == [flow[d] EXCEPT !.pc = "stamp", !.row = capture]
      <3>1. /\ f \in FlowType /\ f.pc = "stamp" /\ f.claim = flow[d].claim
            /\ f.tab = flow[d].tab
        BY <1>2 DEF FlowType, FlowPcs
      <3>2. flow' = [flow EXCEPT ![d] = f]
        BY <2>2 DEF ReadCapture
      <3> HIDE DEF f
      <3> QED
        BY <3>1, <3>2
    <2>3. CASE StampAccount(d)
      <3> DEFINE won == flow[d].row /\ stamp = "none"
                 f == [flow[d] EXCEPT !.pc = "purge", !.row = FALSE, !.bound = won]
      <3>1. flow' = [flow EXCEPT ![d] = f]
        BY <2>3 DEF StampAccount
      <3>2. won \in BOOLEAN
        BY <1>2
      <3> HIDE DEF won
      <3>3. /\ f \in FlowType /\ f.pc = "purge" /\ f.claim = flow[d].claim
            /\ f.tab = flow[d].tab
        BY <1>2, <3>2 DEF FlowType, FlowPcs
      <3> HIDE DEF f
      <3> QED
        BY <3>1, <3>3
    <2>4. CASE \E pc \in {"record", "read", "convert", "claim"} : Go(d, pc)
      BY <2>1, <2>4
    <2> QED
      BY <2>2, <2>3, <2>4 DEF GrantSignup, RecordRider, PurgeCaptures, EnqueueConversion
  <1> QED
    BY <1>1, <1>3, ReachGoesOn

(* A credential was spent and a request starts. *)
LEMMA ReachStarts ==
  ASSUME SignInInv, ReachInv, NEW d \in Door, NEW tab \in {"screen", "mail"}, Start(d, tab),
         flow[d].pc = "none",
         tab = "mail" => mail.place = "landing" /\ d = Email(mail.of),
         \A g \in Ceremonies : d = Google(g) => ceremony[g].left /\ ~ceremony[g].link,
         \A g \in Ceremonies : ceremony'[g].left = ceremony[g].left
                               /\ ceremony'[g].link = ceremony[g].link,
         UNCHANGED <<draft, screen, mail, stash, storage>>
  PROVE  ReachInv'
  <1> DEFINE f == [NoFlow EXCEPT !.pc = "open", !.tab = tab]
  <1>1. f \in FlowType /\ f.pc = "open" /\ f.claim = "none" /\ f.tab = tab
    BY DEF FlowType, NoFlow, FlowPcs, Claims
  <1>2. flow' = [flow EXCEPT ![d] = f]
    BY DEF Start
  <1> HIDE DEF f
  <1>3. flow'[d] = f /\ \A e \in Door \ {d} : flow'[e] = flow[e]
    BY <1>1, <1>2, MovedFlow
  <1>4. OneClaim'
    <2>1. ASSUME Holds, NEW g \in Ceremonies, flow'[Google(g)].pc = "answer"
          PROVE  flow'[Google(g)].claim # "none"
      BY <1>1, <1>3, <2>1, DoorFacts DEF ReachInv, OneClaim
    <2> QED
      BY <1>1, <1>3, <2>1 DEF ReachInv, OneClaim, Holds
  <1>5. Journey'
    <2>1. \A e \in Door : Posted(e)' => Posted(e) \/ (e = d /\ tab = "mail")
      BY <1>1, <1>3 DEF Posted
    <2>2. \A g \in Ceremonies : flow'[Google(g)].pc # "none"
                                  => ceremony'[g].left /\ ~ceremony'[g].link
      BY <1>3, DoorFacts DEF ReachInv, Journey
    <2>3. \A g \in Ceremonies : flow[Google(g)].pc = "over" => flow'[Google(g)].pc = "over"
      BY <1>3, DoorFacts
    <2>4. \A e \in Door : flow'[e].claim # "none" \/ flow'[e].pc = "create" =>
            \E g \in Ceremonies : e = Google(g)
      BY <1>1, <1>3 DEF ReachInv, Journey
    <2> QED
      BY <1>1, <1>3, <2>1, <2>2, <2>3, <2>4 DEF ReachInv, Journey, Holds
  <1> QED
    BY <1>4, <1>5 DEF ReachInv, HeldDraftInReach

(* The Google landing fails: with the handle in its storage, to the         *)
(* document.                                                                *)
LEMMA FailsTo ==
  ASSUME SignInInv, GoogleFails
  PROVE  /\ screen'.place = IF stash THEN "restore" ELSE "gate"
         /\ screen'.at = screen.at
  <1> DEFINE to == IF stash THEN "restore" ELSE "gate"
  <1>1. screen \in ScreenType
    BY TypeParts DEF SignInInv, TabTypes
  <1>2. screen' = [screen EXCEPT !.place = to, !.waiting = FALSE, !.ch = 0,
                                 !.resending = 0, !.latch = FALSE]
    BY DEF GoogleFails
  <1> HIDE DEF to
  <1>3. screen'.place = to /\ screen'.at = screen.at
    BY <1>1, <1>2 DEF ScreenType
  <1> QED
    BY <1>3 DEF to

LEMMA ReachFails ==
  ASSUME SignInInv, ReachInv, GoogleFails, screen.place \in {"google", "landing"},
         \A g \in Ceremonies : ceremony'[g].left = ceremony[g].left
                               /\ ceremony'[g].link = ceremony[g].link,
         UNCHANGED <<flow, draft, mail, storage>>
  PROVE  ReachInv'
  <1>1. Holds /\ storage => stash
    BY DEF ReachInv, Journey
  <1>2. /\ screen'.place \in {"restore", "gate"} /\ screen'.at = screen.at
        /\ (Holds /\ storage => screen'.place = "restore")
    BY <1>1, FailsTo
  <1> QED
    BY <1>2 DEF ReachInv, OneClaim, Journey, HeldDraftInReach, Posted, PastLanding, Holds

(* A request ends, and its tab is moved. *)
LEMMA ReachEnds ==
  ASSUME SignInInv, ReachInv, NEW d \in Door, NEW f \in FlowType,
         flow' = [flow EXCEPT ![d] = f], flow[d].pc \notin {"none", "over"},
         f.pc = "over", f.claim = "none", f.tab = "screen",
         UNCHANGED <<ceremony, draft, storage>>,
         \/ UNCHANGED <<screen, stash>>
         \/ /\ d[1] = "google" /\ screen.place = "landing" /\ screen.at = d[2]
            /\ screen'.at = screen.at
            /\ \/ GoogleFails
               \/ /\ screen'.place \in {"claim", "envelope", "dashboard"}
                  /\ Holds /\ storage /\ draft = "held" => screen'.place = "claim" \/ mail.place = "restore",
         \/ UNCHANGED mail
         \/ flow[d].tab = "mail" /\ mail'.place \in {"restore", "error", "claim", "dashboard"}
            /\ UNCHANGED <<screen, stash>>
  PROVE  ReachInv'
  <1>1. flow'[d] = f /\ \A e \in Door \ {d} : flow'[e] = flow[e]
    BY MovedFlow
  <1>2. Holds /\ storage /\ screen.place = "landing" => stash
    BY DEF ReachInv, Journey
  <1>3. CASE UNCHANGED <<screen, stash, mail>>
    <2>1. \A e \in Door : Posted(e)' => Posted(e)
      BY <1>1 DEF Posted
    <2>2. \A g \in Ceremonies : flow'[Google(g)].pc # "none" => flow[Google(g)].pc # "none"
      BY <1>1, DoorFacts
    <2>3. \A g \in Ceremonies : flow[Google(g)].pc = "over" => flow'[Google(g)].pc = "over"
      BY <1>1, DoorFacts
    <2>4. OneClaim'
      <3>1. ASSUME Holds, NEW g \in Ceremonies, flow'[Google(g)].pc = "answer"
            PROVE  flow'[Google(g)].claim # "none"
        BY <1>1, <3>1, DoorFacts DEF ReachInv, OneClaim
      <3> QED
        BY <1>1, <1>3, <3>1 DEF ReachInv, OneClaim, Holds
    <2>5. Journey'
      BY <1>1, <1>3, <2>1, <2>2, <2>3 DEF ReachInv, Journey, Holds
    <2> QED
      BY <1>3, <2>4, <2>5 DEF ReachInv, HeldDraftInReach
  <1>4. CASE flow[d].tab = "mail" /\ mail'.place \in {"restore", "error", "claim", "dashboard"}
             /\ UNCHANGED <<screen, stash>>
    <2>1. mail.place = "landing" /\ \A e \in Door : ~Posted(e)'
      BY <1>1, <1>4 DEF ReachInv, Journey, Posted
    <2>2. \A g \in Ceremonies : flow'[Google(g)].pc # "none" => flow[Google(g)].pc # "none"
      BY <1>1, DoorFacts
    <2>3. \A g \in Ceremonies : flow[Google(g)].pc = "over" => flow'[Google(g)].pc = "over"
      BY <1>1, DoorFacts
    <2>4. OneClaim'
      <3>1. ASSUME Holds, NEW g \in Ceremonies, flow'[Google(g)].pc = "answer"
            PROVE  flow'[Google(g)].claim # "none"
        BY <1>1, <3>1, DoorFacts DEF ReachInv, OneClaim
      <3> QED
        BY <1>1, <1>4, <3>1 DEF ReachInv, OneClaim, Holds
    <2>5. Journey'
      BY <1>1, <1>4, <2>1, <2>2, <2>3 DEF ReachInv, Journey, Holds
    <2>6. HeldDraftInReach'
      BY <1>4, <2>1 DEF ReachInv, HeldDraftInReach, OneClaim
    <2> QED
      BY <2>4, <2>5, <2>6 DEF ReachInv
  <1>5. CASE /\ d[1] = "google" /\ screen.place = "landing" /\ screen.at = d[2]
             /\ UNCHANGED mail /\ screen'.at = screen.at
             /\ \/ GoogleFails
                \/ /\ screen'.place \in {"claim", "envelope", "dashboard"}
                   /\ Holds /\ storage /\ draft = "held" =>
                        screen'.place = "claim" \/ mail.place = "restore"
    <2>1. /\ screen'.place \in {"restore", "gate", "claim", "envelope", "dashboard"}
          /\ (Holds /\ storage => screen'.place # "gate")
          /\ (Holds /\ storage /\ draft = "held" /\ screen'.place \in {"envelope", "dashboard"}
                => mail.place = "restore")
      BY <1>2, <1>5, FailsTo
    <2>2. PICK h \in Ceremonies : d = Google(h) /\ d[2] = h
      BY <1>5, DoorFacts
    <2>3. \A e \in Door : Posted(e)' => Posted(e)
      BY <1>1 DEF Posted
    <2>4. \A g \in Ceremonies : /\ flow'[Google(g)].pc # "none" => flow[Google(g)].pc # "none"
                                /\ screen'.at = g => flow'[Google(g)].pc = "over"
      BY <1>1, <1>5, <2>2, DoorFacts
    <2>5. OneClaim'
      <3>1. ASSUME Holds, NEW g \in Ceremonies, flow'[Google(g)].pc = "answer"
            PROVE  flow'[Google(g)].claim # "none"
        BY <1>1, <3>1, DoorFacts DEF ReachInv, OneClaim
      <3> QED
        BY <1>1, <1>5, <2>1, <3>1 DEF ReachInv, OneClaim, Holds
    <2>6. Journey'
      BY <1>1, <1>5, <2>1, <2>3, <2>4 DEF ReachInv, Journey, Holds
    <2>7. HeldDraftInReach'
      BY <1>5, <2>1 DEF ReachInv, HeldDraftInReach, OneClaim
    <2> QED
      BY <2>5, <2>6, <2>7 DEF ReachInv
  <1> QED
    BY <1>3, <1>4, <1>5

(* Its end, with its tab. *)
LEMMA Ended ==
  ASSUME SignInInv, NEW d \in Door, End(d)
  PROVE  \E f \in FlowType : /\ flow' = [flow EXCEPT ![d] = f]
                             /\ f.pc = "over" /\ f.claim = "none" /\ f.tab = "screen"
  <1> DEFINE f == [NoFlow EXCEPT !.pc = "over"]
  <1>1. f \in FlowType /\ f.pc = "over" /\ f.claim = "none" /\ f.tab = "screen"
    BY DEF FlowType, NoFlow, FlowPcs, Claims
  <1>2. flow' = [flow EXCEPT ![d] = f]
    BY DEF End
  <1> QED
    BY <1>1, <1>2

LEMMA ReachCut ==
  ASSUME SignInInv, ReachInv, NEW d \in Door, flow[d].pc \notin {"none", "over"}, Cut(d),
         UNCHANGED <<ceremony, draft, storage>>
  PROVE  ReachInv'
  <1>1. PICK f \in FlowType : /\ flow' = [flow EXCEPT ![d] = f]
                              /\ f.pc = "over" /\ f.claim = "none" /\ f.tab = "screen"
    BY Ended DEF Cut
  <1>2. CASE UNCHANGED <<screen, stash, mail>>
    BY <1>1, <1>2, ReachEnds
  <1>3. CASE d[1] = "google" /\ screen.place = "landing" /\ screen.at = d[2] /\ GoogleFails
             /\ UNCHANGED mail
    BY <1>1, <1>3, FailsTo, ReachEnds
  <1>4. CASE flow[d].tab = "mail" /\ MailFails /\ UNCHANGED <<screen, stash>>
    <2>1. mail'.place \in {"restore", "error"}
      BY <1>4, TypeParts DEF MailFails, SignInInv, TabTypes, MailType
    <2> QED
      BY <1>1, <1>4, <2>1, ReachEnds
  <1> QED
    BY <1>2, <1>3, <1>4 DEF Cut

(* The answer: a landing that hears "refused" takes the document along, and *)
(* one that hears "pending" leaves it to the e-mail tab.                    *)
LEMMA ReachAnswer ==
  ASSUME SignInInv, ReachInv, NEW d \in Door, FlowAnswer(d)
  PROVE  ReachInv'
  <1>1. /\ flow[d].pc = "answer" /\ UNCHANGED <<ceremony, draft, storage>>
        /\ screen \in ScreenType /\ mail \in MailType /\ flow[d].claim \in Claims
    BY TypeParts DEF FlowAnswer, At, Server, SignInInv, TabTypes, ServerTypes, FlowType
  <1>2. PICK f \in FlowType : /\ flow' = [flow EXCEPT ![d] = f]
                              /\ f.pc = "over" /\ f.claim = "none" /\ f.tab = "screen"
    BY Ended DEF FlowAnswer
  <1>3. CASE UNCHANGED <<screen, stash, mail>>
    BY <1>1, <1>2, <1>3, ReachEnds
  <1>4. CASE flow[d].tab = "mail" /\ UNCHANGED <<screen, stash>>
             /\ mail' = [mail EXCEPT !.place = IF Holds THEN "claim" ELSE "dashboard"]
    <2>1. mail'.place \in {"claim", "dashboard"}
      BY <1>1, <1>4 DEF MailType
    <2> QED
      BY <1>1, <1>2, <1>4, <2>1, ReachEnds
  <1>5. CASE /\ d[1] = "google" /\ screen.place = "landing" /\ screen.at = d[2]
             /\ UNCHANGED mail /\ screen' = [screen EXCEPT !.place = Land(flow[d].claim)]
    <2>1. PICK g \in Ceremonies : d = Google(g)
      BY <1>5, DoorFacts
    <2>2. Holds => flow[d].claim # "none"
      BY <1>1, <2>1 DEF ReachInv, OneClaim
    <2>3. Holds /\ storage => stash /\ (flow[d].claim = "pending" /\ draft = "held" => mail.place = "restore")
      BY <1>5 DEF ReachInv, Journey
    <2>4. flow[d].claim = "sent" => draft = "sent"
      BY DEF ReachInv, OneClaim
    <2>5. /\ Land(flow[d].claim) \in {"claim", "envelope", "dashboard"}
          /\ Holds /\ storage /\ draft = "held" =>
               Land(flow[d].claim) = "claim" \/ mail.place = "restore"
      BY <1>1, <2>2, <2>3, <2>4 DEF Land, Claims
    <2>6. screen'.place = Land(flow[d].claim) /\ screen'.at = screen.at
      BY <1>1, <1>5 DEF ScreenType
    <2> QED
      BY <1>1, <1>2, <1>5, <2>5, <2>6, ReachEnds
  <1> QED
    BY <1>3, <1>4, <1>5 DEF FlowAnswer

(* A request claims the document, makes the envelope or gives it back.      *)
LEMMA ReachDocument ==
  ASSUME SignInInv, ReachInv, NEW d \in Door, ClaimDraft(d) \/ CreateFromDraft(d)
  PROVE  ReachInv'
  <1>1. /\ flow[d].pc \in {"claim", "create"}
        /\ UNCHANGED <<ceremony, screen, mail, stash, storage>>
    BY DEF ClaimDraft, CreateFromDraft, At, Server, tabVars
  <1>2. CASE UNCHANGED draft /\ Go(d, "answer") /\ flow[d].pc = "claim"
             /\ (d[1] # "google" \/ ~Holds)
    BY <1>1, <1>2, GoOn, ReachGoesOn DEF FlowPcs
  <1>3. ASSUME d[1] = "google", Holds, NEW f \in FlowType, flow' = [flow EXCEPT ![d] = f],
               f.tab = flow[d].tab, f.pc \in {"create", "answer"},
               f.pc = "answer" <=> f.claim # "none",
               f.pc = "create" => flow[d].pc = "claim" /\ draft = "held" /\ draft' = "claimed",
               f.claim = "sent" => draft' = "sent", f.claim = "pending" => draft' # "held",
               draft' # draft => \/ f.pc = "create"
                                 \/ flow[d].pc = "create" /\ draft' \in {"held", "sent"}
        PROVE  ReachInv'
    <2>1. flow'[d] = f /\ \A e \in Door \ {d} : flow'[e] = flow[e]
      BY <1>3, MovedFlow
    <2>2. PICK h \in Ceremonies : d = Google(h)
      BY <1>3, DoorFacts
    <2>3. draft = "sent" => draft' = "sent"
      BY <1>3 DEF ReachInv, OneClaim
    <2>4. \A e \in Door : flow'[e].pc = "create" =>
            draft' = "claimed" /\ mail.place # "creating" /\ screen.place # "creating"
      BY <1>3, <2>1 DEF ReachInv, OneClaim
    <2>5. \A e, g \in Door : flow'[e].pc = "create" /\ flow'[g].pc = "create" => e = g
      BY <1>3, <2>1 DEF ReachInv, OneClaim
    <2>6. "creating" \in {mail.place, screen.place} => draft' = draft
      BY <1>3 DEF ReachInv, OneClaim
    <2>7. OneClaim'
      <3>1. \A g \in Ceremonies :
              flow'[Google(g)].pc = "answer" => flow'[Google(g)].claim # "none"
        BY <1>3, <2>1, DoorFacts DEF ReachInv, OneClaim
      <3>2. \A e \in Door : /\ flow'[e].claim # "none" => flow'[e].pc = "answer"
                            /\ flow'[e].claim = "sent" => draft' = "sent"
        BY <1>3, <2>1, <2>3 DEF ReachInv, OneClaim
      <3> QED
        BY <1>1, <1>3, <2>4, <2>5, <2>6, <3>1, <3>2 DEF ReachInv, OneClaim, Holds
    <2>8. Holds /\ storage => screen.at = h /\ screen.place \notin PastLanding \cup {"gate"}
      <3>1. ceremony[h].left /\ ~ceremony[h].link
        BY <1>1, <2>2 DEF ReachInv, Journey
      <3> QED
        BY <1>1, <2>2, <3>1 DEF ReachInv, Journey
    <2>9. Holds /\ storage => \A e \in Door : flow'[e].claim = "pending"
                                 => draft' # "held" \/ mail.place = "restore"
      <3>1. ASSUME Holds, storage, NEW e \in Door, e # d, flow[e].claim = "pending"
            PROVE  FALSE
        <4>1. PICK g \in Ceremonies : e = Google(g)
          BY <3>1 DEF ReachInv, Journey
        <4>2. flow[e].pc = "answer"
          BY <3>1 DEF ReachInv, OneClaim
        <4>3. screen.at = g
          BY <3>1, <4>1, <4>2 DEF ReachInv, Journey
        <4> QED
          BY <2>2, <2>8, <3>1, <4>1, <4>3
      <3> QED
        BY <1>3, <2>1, <3>1
    <2>10. Journey'
      <3>1. \A e \in Door : Posted(e)' => Posted(e)
        BY <1>1, <1>3, <2>1 DEF Posted
      <3>2. \A g \in Ceremonies : flow'[Google(g)].pc # "none" => flow[Google(g)].pc # "none"
        BY <1>1, <2>1, DoorFacts
      <3>3. \A e \in Door : flow'[e].claim # "none" \/ flow'[e].pc = "create" =>
              \E g \in Ceremonies : e = Google(g)
        BY <2>1, <2>2 DEF ReachInv, Journey
      <3> QED
        BY <1>1, <2>8, <2>9, <3>1, <3>2, <3>3 DEF ReachInv, Journey, Holds
    <2>11. HeldDraftInReach'
      BY <1>1, <1>3, <2>8 DEF ReachInv, Journey, HeldDraftInReach, PastLanding
    <2> QED
      BY <2>7, <2>10, <2>11 DEF ReachInv
  <1>4. ASSUME d[1] = "google", Holds, NEW claim \in Claims \ {"none"}, Told(d, claim),
               claim = "sent" => draft' = "sent", claim = "pending" => draft' # "held",
               draft' # draft => flow[d].pc = "create" /\ draft' \in {"held", "sent"}
        PROVE  ReachInv'
    <2> DEFINE f == [flow[d] EXCEPT !.pc = "answer", !.claim = claim]
    <2>1. flow[d] \in FlowType
      BY TypeParts DEF SignInInv, ServerTypes
    <2>2. f \in FlowType /\ f.pc = "answer" /\ f.claim = claim /\ f.tab = flow[d].tab
      BY <2>1 DEF FlowType, FlowPcs
    <2>3. flow' = [flow EXCEPT ![d] = f]
      BY <1>4 DEF Told
    <2> HIDE DEF f
    <2> QED
      BY <1>3, <1>4, <2>2, <2>3
  <1>5. CASE d[1] = "google" /\ Holds /\ flow[d].pc = "claim" /\ Takes /\ Go(d, "create")
    <2>1. PICK f \in FlowType : /\ flow' = [flow EXCEPT ![d] = f] /\ f.pc = "create"
                                /\ f.claim = flow[d].claim /\ f.tab = flow[d].tab
      BY <1>5, GoOn DEF FlowPcs
    <2>2. f.claim = "none"
      BY <1>5, <2>1 DEF ReachInv, OneClaim
    <2> QED
      BY <1>3, <1>5, <2>1, <2>2 DEF Takes
  <1>6. CASE ClaimDraft(d)
    <2>1. flow[d].pc = "claim"
      BY <1>6 DEF ClaimDraft, At
    <2>2. CASE d[1] = "google" /\ Holds
      <3>1. \/ Takes /\ Go(d, "create")
            \/ \E claim \in Claims \ {"none"} :
                 /\ Told(d, claim) /\ UNCHANGED draft
                 /\ claim = "sent" => draft = "sent"
                 /\ claim = "pending" => draft = "claimed"
        BY <1>6, <2>2 DEF ClaimDraft, Claims
      <3> QED
        BY <1>4, <1>5, <2>1, <2>2, <3>1
    <2> QED
      BY <1>2, <1>6, <2>1, <2>2 DEF ClaimDraft
  <1>7. CASE CreateFromDraft(d)
    <2>1. flow[d].pc = "create"
      BY <1>7 DEF CreateFromDraft, At
    <2>2. d[1] = "google" /\ Holds
      BY <2>1, DoorFacts DEF ReachInv, OneClaim, Journey
    <2>3. \E claim \in Claims \ {"none"} :
            /\ Told(d, claim) /\ claim # "pending"
            /\ claim = "sent" => draft' = "sent"
            /\ draft' # draft => draft' \in {"held", "sent"}
      BY <1>7 DEF CreateFromDraft, Sends, Releases, Strands, Claims
    <2> QED
      BY <1>4, <2>1, <2>2, <2>3
  <1> QED
    BY <1>6, <1>7

(* A page with the document does the same. *)
LEMMA PageTold ==
  ASSUME NEW from, NEW to, PageSends(from, to)
  PROVE  \/ from = "claim" /\ draft = "held" /\ draft' = "claimed" /\ to = "creating"
         \/ from = "claim" /\ draft \in {"claimed", "sent"} /\ draft' = draft /\ to = "envelope"
         \/ from = "claim" /\ draft' = draft /\ to = "restore"
         \/ from = "creating" /\ draft' = "sent" /\ to = "envelope"
         \/ from = "creating" /\ draft' \in {draft, "held"} /\ to = "restore"
  BY DEF PageSends, ClaimInTab, CreateInTab, Takes, Sends, Releases, Strands

LEMMA ReachSends ==
  ASSUME SignInInv, ReachInv, MailSends \/ ScreenSends
  PROVE  ReachInv'
  <1>1. /\ UNCHANGED <<flow, ceremony, stash, storage>>
        /\ mail \in MailType /\ screen \in ScreenType
    BY TypeParts DEF SignInInv, TabTypes, MailSends, ScreenSends, serverVars
  <1>2. CASE MailSends
    <2>1. PICK to \in MailPlaces : PageSends(mail.place, to) /\ mail' = [mail EXCEPT !.place = to]
      BY <1>2 DEF MailSends
    <2>2. mail'.place = to /\ mail'.of = mail.of /\ UNCHANGED screen
      BY <1>1, <1>2, <2>1 DEF MailType, MailSends
    <2>3. mail.place \in {"claim", "creating"} /\ to \in {"creating", "envelope", "restore"}
          /\ \A d \in Door : ~Posted(d)
      BY <2>1, PageTold DEF ReachInv, Journey
    <2>4. /\ draft = "held" /\ draft' = "claimed" /\ to = "creating"
          \/ /\ to # "creating"
             /\ draft' = draft \/ (mail.place = "creating" /\ draft' = "sent")
                \/ (mail.place = "creating" /\ draft' = "held" /\ to = "restore")
             /\ draft' = "held" => to = "restore"
      BY <2>1, PageTold DEF ReachInv, OneClaim
    <2>5. OneClaim'
      BY <1>1, <2>2, <2>3, <2>4 DEF ReachInv, OneClaim, Holds
    <2>6. Journey'
      BY <1>1, <2>2, <2>3, <2>4 DEF ReachInv, Journey, Holds, Posted
    <2>7. HeldDraftInReach'
      BY <1>1, <2>2, <2>3, <2>4 DEF ReachInv, HeldDraftInReach, Journey, OneClaim
    <2> QED
      BY <2>5, <2>6, <2>7 DEF ReachInv
  <1>3. CASE ScreenSends
    <2>1. PICK to \in Places : PageSends(screen.place, to) /\ screen' = [screen EXCEPT !.place = to]
      BY <1>3 DEF ScreenSends
    <2>2. screen'.place = to /\ screen'.at = screen.at /\ UNCHANGED mail
      BY <1>1, <1>3, <2>1 DEF ScreenType, ScreenSends
    <2>3. screen.place \in {"claim", "creating"} /\ to \in {"creating", "envelope", "restore"}
      BY <2>1, PageTold
    <2>4. /\ draft = "held" /\ draft' = "claimed" /\ to = "creating"
          \/ /\ to # "creating"
             /\ draft' = draft \/ (screen.place = "creating" /\ draft' = "sent")
                \/ (screen.place = "creating" /\ draft' = "held" /\ to = "restore")
             /\ draft' = "held" => to = "restore"
      BY <2>1, PageTold DEF ReachInv, OneClaim
    <2>5. OneClaim'
      BY <1>1, <2>2, <2>3, <2>4 DEF ReachInv, OneClaim, Holds
    <2>6. Holds /\ storage => \A d \in Door : flow[d].claim = "none"
      <3>1. ASSUME Holds, storage, NEW d \in Door, flow[d].claim # "none"
            PROVE  FALSE
        <4>1. PICK g \in Ceremonies : d = Google(g)
          BY <3>1 DEF ReachInv, Journey
        <4>2. flow[d].pc = "answer"
          BY <3>1 DEF ReachInv, OneClaim
        <4>3. screen.at = g /\ flow[d].pc = "over"
          BY <2>3, <3>1, <4>1, <4>2 DEF ReachInv, Journey, PastLanding
        <4> QED
          BY <4>2, <4>3
      <3> QED
        BY <3>1
    <2>7. Journey'
      <3>1. Holds /\ storage => \A d \in Door : flow'[d].claim # "pending"
        BY <1>1, <2>6
      <3> QED
        BY <1>1, <2>2, <2>3, <3>1 DEF ReachInv, Journey, Holds, Posted, PastLanding
    <2>8. HeldDraftInReach'
      BY <1>1, <2>2, <2>3, <2>4 DEF ReachInv, HeldDraftInReach, Journey, OneClaim
    <2> QED
      BY <2>5, <2>7, <2>8 DEF ReachInv
  <1> QED
    BY <1>2, <1>3

(* What the tabs do: the document is stored at the gate, and only there;    *)
(* the ceremony the screen leaves with is its only one.                     *)
LEMMA ReachTabs ==
  ASSUME SignInInv, ReachInv,
         \/ \E k \in Links : AskLink(k) \/ SendLink(k) \/ LinkAnswer(k) \/ OpenLink(k)
         \/ \E i \in Codes : ConfirmCode(i) \/ CodeAnswer(i)
         \/ Callback \/ Poll \/ Pivot
  PROVE  ReachInv'
  <1>1. screen \in ScreenType /\ mail \in MailType
    BY TypeParts DEF SignInInv, TabTypes
  <1>2. ASSUME NEW k \in Links, AskLink(k)
        PROVE  ReachInv'
    <2>1. /\ screen.place = "gate" /\ UNCHANGED <<flow, ceremony, mail, stash, storage>>
          /\ UNCHANGED screen \/ screen' = [screen EXCEPT !.resending = k]
          /\ draft' = draft \/ (Holds /\ draft = "none" /\ draft' = "held")
      BY <1>2 DEF AskLink, StoreDraft
    <2>2. screen'.place = "gate" /\ screen'.at = screen.at
      BY <1>1, <2>1 DEF ScreenType
    <2>3. OneClaim'
      BY <2>1, <2>2 DEF ReachInv, OneClaim, Holds
    <2>4. Holds /\ storage => \A d \in Door : flow[d].claim = "none"
      <3>1. ASSUME Holds, storage, NEW d \in Door, flow[d].claim # "none"
            PROVE  FALSE
        <4>1. PICK g \in Ceremonies : d = Google(g) /\ flow[d].pc = "answer"
          BY <3>1 DEF ReachInv, Journey, OneClaim
        <4> QED
          BY <2>1, <3>1, <4>1 DEF ReachInv, Journey
      <3> QED
        BY <3>1
    <2>5. Journey'
      <3>1. Holds /\ storage => \A d \in Door : flow'[d].claim # "pending"
        BY <2>1, <2>4
      <3> QED
        BY <2>1, <2>2, <3>1 DEF ReachInv, Journey, Holds, Posted, PastLanding
    <2> QED
      BY <2>2, <2>3, <2>5 DEF ReachInv, HeldDraftInReach
  <1>3. ASSUME NEW k \in Links, SendLink(k)
        PROVE  ReachInv'
    BY <1>3, ReachStays DEF SendLink, tabVars
  <1>4. ASSUME NEW k \in Links, LinkAnswer(k)
        PROVE  ReachInv'
    <2> DEFINE fresh == send[k] = "accepted" /\ challenge[k].coded
               shown == IF fresh THEN k ELSE 0
               shut == screen.latch /\ ~fresh
    <2>1. /\ UNCHANGED <<flow, ceremony, draft, mail, stash, storage>>
          /\ \/ UNCHANGED screen
             \/ screen' = [screen EXCEPT !.waiting = TRUE, !.ch = shown, !.latch = shut]
      BY <1>4 DEF LinkAnswer
    <2> HIDE DEF shown, shut
    <2>2. screen'.place = screen.place /\ screen'.at = screen.at
      BY <1>1, <2>1 DEF ScreenType
    <2> QED
      BY <2>1, <2>2, ReachStays
  <1>5. ASSUME NEW k \in Links, OpenLink(k)
        PROVE  ReachInv'
    <2>1. /\ mail.place \in {"closed", "error"} /\ mail'.place = "landing"
          /\ UNCHANGED <<flow, ceremony, draft, screen, stash, storage>>
      BY <1>5 DEF OpenLink, serverVars
    <2>2. \A d \in Door : ~Posted(d)
      BY <2>1 DEF ReachInv, Journey
    <2> QED
      BY <2>1, <2>2 DEF ReachInv, OneClaim, Journey, HeldDraftInReach, Posted, Holds
  <1>6. ASSUME NEW i \in Codes, ConfirmCode(i)
        PROVE  ReachInv'
    BY <1>6, ReachStays DEF ConfirmCode, tabVars
  <1>7. ASSUME NEW i \in Codes, CodeAnswer(i)
        PROVE  ReachInv'
    <2>1. /\ UNCHANGED <<flow, ceremony, draft, mail, stash, storage>>
          /\ UNCHANGED screen \/ screen' = [screen EXCEPT !.latch = TRUE]
      BY <1>7 DEF CodeAnswer
    <2>2. screen'.place = screen.place /\ screen'.at = screen.at
      BY <1>1, <2>1 DEF ScreenType
    <2> QED
      BY <2>1, <2>2, ReachStays
  <1>8. CASE Callback
    <2>1. screen.place = "google" /\ UNCHANGED <<flow, ceremony, draft, mail, storage>>
      BY <1>8 DEF Callback, serverVars
    <2>2. CASE GoogleFails
      BY <2>1, <2>2, ReachFails
    <2>3. CASE screen' = [screen EXCEPT !.place = "landing"] /\ UNCHANGED stash
      <3>1. screen'.place = "landing" /\ screen'.at = screen.at
        BY <1>1, <2>3 DEF ScreenType
      <3> QED
        BY <2>1, <2>3, <3>1
        DEF ReachInv, OneClaim, Journey, HeldDraftInReach, Posted, PastLanding, Holds
    <2> QED
      BY <1>8, <2>2, <2>3 DEF Callback
  <1>9. CASE Poll
    <2>1. screen'.place = screen.place /\ screen'.at = screen.at
      BY <1>1, <1>9 DEF Poll, ScreenType
    <2> QED
      BY <1>9, <2>1, ReachStays DEF Poll, serverVars
  <1>10. CASE Pivot
    <2>1. /\ screen'.at = screen.at
          /\ screen'.place = screen.place \/ (~Holds /\ screen'.place = "dashboard")
      BY <1>1, <1>10 DEF Pivot, ScreenType
    <2> QED
      BY <1>10, <2>1, ReachStays DEF Pivot, serverVars
  <1> QED
    BY <1>2, <1>3, <1>4, <1>5, <1>6, <1>7, <1>8, <1>9, <1>10

(* The credentials. *)
LEMMA ReachVerify ==
  ASSUME SignInInv, ReachInv, NEW i \in Codes, VerifyCode(i)
  PROVE  ReachInv'
  <1>1. UNCHANGED <<ceremony, draft, screen, mail, stash, storage>>
    BY DEF VerifyCode, tabVars
  <1>2. CASE UNCHANGED flow
    BY <1>1, <1>2, ReachStays
  <1>3. CASE challenge[code[i].of].st = "live" /\ Start(Email(code[i].of), "screen")
    <2>1. code[i].of \in Links
      <3>1. code[i].pc = "posted" /\ code[i] \in CodeType
        BY TypeParts DEF VerifyCode, SignInInv, ServerTypes, TabTypes
      <3> QED
        BY <3>1, NumbersAreNumbers DEF SignInInv, Verdicts, CodeType
    <2>2. flow[Email(code[i].of)].pc = "none" /\ Email(code[i].of) \in Door
          /\ \A g \in Ceremonies : Email(code[i].of) # Google(g)
      BY <1>3, <2>1, DoorFacts DEF SignInInv, Credentials
    <2> QED
      BY <1>1, <1>3, <2>2, ReachStarts
  <1> QED
    BY <1>2, <1>3 DEF VerifyCode

LEMMA ReachLink ==
  ASSUME SignInInv, ReachInv, ExchangeLink
  PROVE  ReachInv'
  <1>1. /\ mail.place = "landing" /\ ~Posted(Email(mail.of)) /\ mail \in MailType
        /\ UNCHANGED <<ceremony, draft, screen, stash, storage>>
    BY TypeParts DEF ExchangeLink, Posted, SignInInv, TabTypes
  <1>2. mail.of \in Links
    BY <1>1, NumbersAreNumbers DEF SignInInv, Verdicts, MailType
  <1>3. CASE MailFails /\ UNCHANGED flow
    <2>1. mail'.place \in {"restore", "error"} /\ \A d \in Door : ~Posted(d)
      BY <1>1, <1>3 DEF MailFails, MailType, ReachInv, Journey
    <2> QED
      BY <1>1, <1>3, <2>1
      DEF ReachInv, OneClaim, Journey, HeldDraftInReach, Posted, Holds
  <1>4. CASE challenge[mail.of].st = "live" /\ Start(Email(mail.of), "mail") /\ UNCHANGED mail
    <2>1. flow[Email(mail.of)].pc = "none" /\ Email(mail.of) \in Door
          /\ \A g \in Ceremonies : Email(mail.of) # Google(g)
      BY <1>2, <1>4, DoorFacts DEF SignInInv, Credentials
    <2> QED
      BY <1>1, <1>4, <2>1, ReachStarts
  <1> QED
    BY <1>3, <1>4 DEF ExchangeLink

(* The ceremonies. *)
LEMMA ReachCeremonies ==
  ASSUME SignInInv, ReachInv, NEW g \in Ceremonies,
         \/ StartGoogle(g) \/ ConnectGoogle(g) \/ ReapCeremony(g)
         \/ \E own \in BOOLEAN : ExchangeGoogle(g, own)
  PROVE  ReachInv'
  <1>1. screen \in ScreenType /\ ceremony \in [Ceremonies -> CeremonyType]
    BY TypeParts DEF SignInInv, TabTypes, ServerTypes
  <1>2. ASSUME NEW link \in BOOLEAN, NEW left \in BOOLEAN, NextCeremony(g), Mint(g, link, left)
        PROVE  /\ \A h \in Ceremonies \ {g} : ceremony'[h] = ceremony[h]
               /\ ceremony'[g].link = link /\ ceremony'[g].left = left
               /\ flow[Google(g)].pc = "none"
    BY <1>1, <1>2 DEF Mint, NextCeremony, SignInInv, Credentials
  <1>3. CASE StartGoogle(g)
    <2>1. /\ screen.place = "gate" /\ NextCeremony(g) /\ UNCHANGED <<flow, mail, storage>>
          /\ draft' = draft \/ (Holds /\ draft = "none" /\ draft' = "held")
          /\ \/ /\ Mint(g, FALSE, TRUE) /\ stash' = (Holds /\ storage)
                /\ screen' = [screen EXCEPT !.place = "google", !.at = g]
             \/ Mint(g, FALSE, FALSE) /\ UNCHANGED <<stash, screen>>
      BY <1>3 DEF StartGoogle, StoreDraft
    <2>2. Holds /\ storage => /\ \A h \in Ceremonies : ~(ceremony[h].left /\ ~ceremony[h].link)
                              /\ \A d \in Door : flow[d].claim = "none"
      <3>1. Holds /\ storage => \A h \in Ceremonies : ~(ceremony[h].left /\ ~ceremony[h].link)
        BY <2>1 DEF ReachInv, Journey
      <3>2. ASSUME Holds, storage, NEW d \in Door, flow[d].claim # "none"
            PROVE  FALSE
        <4>1. PICK h \in Ceremonies : d = Google(h) /\ flow[d].pc = "answer"
          BY <3>2 DEF ReachInv, Journey, OneClaim
        <4> QED
          BY <3>1, <3>2, <4>1 DEF ReachInv, Journey
      <3> QED
        BY <3>1, <3>2
    <2>3. \E left \in BOOLEAN : Mint(g, FALSE, left)
      BY <2>1
    <2>4. /\ \A h \in Ceremonies \ {g} : ceremony'[h] = ceremony[h]
          /\ ~ceremony'[g].link /\ flow[Google(g)].pc = "none"
      BY <1>2, <2>1, <2>3
    <2>5. \/ /\ ~ceremony'[g].left /\ UNCHANGED <<stash, screen>>
          \/ /\ screen'.place = "google" /\ screen'.at = g
             /\ stash' = (Holds /\ storage)
      <3>1. CASE Mint(g, FALSE, FALSE) /\ UNCHANGED <<stash, screen>>
        BY <1>2, <2>1, <3>1
      <3>2. CASE /\ stash' = (Holds /\ storage)
                 /\ screen' = [screen EXCEPT !.place = "google", !.at = g]
        BY <1>1, <3>2 DEF ScreenType
      <3> QED
        BY <2>1, <3>1, <3>2
    <2>6. OneClaim'
      BY <2>1, <2>5 DEF ReachInv, OneClaim, Holds
    <2>7. \A h \in Ceremonies : flow'[Google(h)].pc # "none"
                                  => ceremony'[h].left /\ ~ceremony'[h].link
      BY <2>1, <2>4 DEF ReachInv, Journey
    <2>8. Holds /\ storage =>
            /\ \A h \in Ceremonies : ceremony'[h].left /\ ~ceremony'[h].link
                                       => screen'.at = h /\ screen'.place # "gate"
            /\ screen'.place \in {"google", "landing"} => stash'
            /\ \A d \in Door : flow'[d].claim # "pending"
            /\ screen'.place \notin PastLanding
      BY <2>1, <2>2, <2>4, <2>5 DEF PastLanding
    <2>9. Journey'
      BY <2>1, <2>7, <2>8 DEF ReachInv, Journey, Holds, Posted
    <2>10. HeldDraftInReach'
      <3>1. draft' = "held" => Holds
        BY <2>6 DEF OneClaim, Holds
      <3> QED
        BY <2>1, <2>8, <3>1 DEF HeldDraftInReach, PastLanding
    <2> QED
      BY <2>6, <2>9, <2>10 DEF ReachInv
  <1>4. CASE ConnectGoogle(g)
    <2>1. /\ NextCeremony(g) /\ Mint(g, TRUE, TRUE)
          /\ UNCHANGED <<flow, draft, screen, mail, stash, storage>>
      BY <1>4 DEF ConnectGoogle, tabVars
    <2>2. /\ \A h \in Ceremonies \ {g} : ceremony'[h] = ceremony[h]
          /\ ceremony'[g].link /\ flow[Google(g)].pc = "none"
      BY <1>2, <2>1
    <2> QED
      BY <2>1, <2>2 DEF ReachInv, OneClaim, Journey, HeldDraftInReach, Posted, Holds
  <1>5. ASSUME NEW to, ceremony' = [ceremony EXCEPT ![g].st = to]
        PROVE  \A h \in Ceremonies : ceremony'[h].left = ceremony[h].left
                                     /\ ceremony'[h].link = ceremony[h].link
    <2> DEFINE c == [ceremony[g] EXCEPT !.st = to]
    <2>1. c.left = ceremony[g].left /\ c.link = ceremony[g].link
      BY <1>1 DEF CeremonyType
    <2>2. ceremony' = [ceremony EXCEPT ![g] = c]
      BY <1>5
    <2> HIDE DEF c
    <2> QED
      BY <1>1, <2>1, <2>2
  <1>6. ASSUME \A h \in Ceremonies : ceremony'[h].left = ceremony[h].left
                                     /\ ceremony'[h].link = ceremony[h].link,
               UNCHANGED <<flow, draft, screen, mail, stash, storage>>
        PROVE  ReachInv'
    BY <1>6 DEF ReachInv, OneClaim, Journey, HeldDraftInReach, Posted, PastLanding, Holds
  <1>7. CASE ReapCeremony(g)
    BY <1>5, <1>6, <1>7 DEF ReapCeremony, tabVars
  <1>8. ASSUME NEW own \in BOOLEAN, ExchangeGoogle(g, own)
        PROVE  ReachInv'
    <2>1. UNCHANGED <<draft, mail, storage>> /\ (own => screen.place = "landing")
      BY <1>8 DEF ExchangeGoogle
    <2>2. /\ \A h \in Ceremonies : ceremony'[h].left = ceremony[h].left
                                   /\ ceremony'[h].link = ceremony[h].link
      BY <1>5, <1>8 DEF ExchangeGoogle
    <2>3. CASE GoogleFails /\ own /\ UNCHANGED flow
      BY <2>1, <2>2, <2>3, ReachFails
    <2>4. CASE UNCHANGED <<screen, stash, flow>>
      BY <1>6, <2>1, <2>2, <2>4
    <2>5. CASE Consumable(g) /\ SignsIn(g) /\ Start(Google(g), "screen") /\ UNCHANGED <<screen, stash>>
      <3>1. flow[Google(g)].pc = "none" /\ Google(g) \in Door
        BY <2>5, DoorFacts DEF SignInInv, Credentials, Consumable
      <3>2. ceremony[g].left /\ ~ceremony[g].link
        BY <1>8, <2>5 DEF ExchangeGoogle, SignsIn
      <3>3. \A h \in Ceremonies : Google(g) = Google(h) => g = h
        BY DoorFacts
      <3> QED
        BY <2>1, <2>2, <2>5, <3>1, <3>2, <3>3, ReachStarts
    <2> QED
      BY <1>8, <2>3, <2>4, <2>5 DEF ExchangeGoogle
  <1> QED
    BY <1>3, <1>4, <1>7, <1>8

LEMMA ReachInit == Init => ReachInv
  <1> SUFFICES ASSUME Init PROVE ReachInv
    OBVIOUS
  <1>1. /\ draft = "none" /\ screen.place = "gate" /\ mail.place = "closed"
        /\ \A d \in Door : flow[d].pc = "none" /\ flow[d].claim = "none"
        /\ \A g \in Ceremonies : ~ceremony[g].left
    BY DEF Init, NoFlow
  <1>2. \A g \in Ceremonies : flow[Google(g)].pc = "none"
    BY <1>1, DoorFacts
  <1> QED
    BY <1>1, <1>2 DEF ReachInv, OneClaim, Journey, HeldDraftInReach, Posted, PastLanding

LEMMA ReachKeeps == SignInInv /\ ReachInv /\ [Next]_vars => ReachInv'
  <1> SUFFICES ASSUME SignInInv, ReachInv, [Next]_vars PROVE ReachInv'
    OBVIOUS
  <1>1. CASE UNCHANGED vars
    BY <1>1, ReachStays DEF vars, serverVars, tabVars
  <1>2. CASE \/ \E k \in Links : AskLink(k) \/ SendLink(k) \/ LinkAnswer(k) \/ OpenLink(k)
             \/ \E i \in Codes : ConfirmCode(i) \/ CodeAnswer(i)
             \/ Callback \/ Poll \/ Pivot
    BY <1>2, ReachTabs
  <1>3. CASE (\E i \in Codes : VerifyCode(i)) \/ ExchangeLink
    BY <1>3, ReachVerify, ReachLink
  <1>4. CASE MailSends \/ ScreenSends
    BY <1>4, ReachSends
  <1>5. CASE \E g \in Ceremonies :
               StartGoogle(g) \/ ConnectGoogle(g) \/ ReapCeremony(g)
               \/ \E own \in BOOLEAN : ExchangeGoogle(g, own)
    BY <1>5, ReachCeremonies
  <1>6. ASSUME NEW d \in Door, OpenSession(d)
        PROVE  ReachInv'
    <2>1. flow[d].pc = "open" /\ UNCHANGED <<ceremony, draft, storage>>
      BY <1>6 DEF OpenSession, At, Server
    <2>2. CASE Cut(d)
      BY <2>1, <2>2, ReachCut
    <2>3. CASE Go(d, "grant") /\ UNCHANGED <<screen, mail, stash>>
      BY <2>1, <2>3, GoOn, ReachGoesOn DEF FlowPcs
    <2> QED
      BY <1>6, <2>2, <2>3 DEF OpenSession
  <1>7. ASSUME NEW d \in Door, Crash(d)
        PROVE  ReachInv'
    BY <1>7, ReachCut DEF Crash, Server
  <1>8. CASE \E d \in Door :
               \/ GrantSignup(d) \/ RecordRider(d) \/ ReadCapture(d) \/ StampAccount(d)
               \/ PurgeCaptures(d) \/ EnqueueConversion(d)
    BY <1>8, ReachStatements
  <1>9. CASE \E d \in Door : ClaimDraft(d) \/ CreateFromDraft(d) \/ FlowAnswer(d)
    BY <1>9, ReachDocument, ReachAnswer
  <1> QED
    BY <1>1, <1>2, <1>3, <1>4, <1>5, <1>6, <1>7, <1>8, <1>9 DEF Next

(* The document stays in its owner's reach, however a sign-in through       *)
(* Google ends and whichever tab was sending it at the time                 *)
(* (SignIn!HeldDraftInReach).                                               *)
THEOREM DraftStaysInReach == Spec => []HeldDraftInReach
  <1>1. ReachInv => HeldDraftInReach
    BY DEF ReachInv
  <1> QED
    BY <1>1, SignInIsSound, ReachInit, ReachKeeps, PTL DEF Spec
==============================================================================
