------------------------------- MODULE Service -------------------------------
(***************************************************************************)
(* The parts of the service that keep their state to themselves, side by   *)
(* side.  No action of one reads or writes a variable of another, so a     *)
(* step of the service is a step of one part, and each behaviour follows   *)
(* one of them, its scene; the others stay as they began.  An invariant of *)
(* every scene is one of every interleaving of the parts.                  *)
(***************************************************************************)
EXTENDS Session, Agent, Gate, Account, Anchors, Nudges, Forward, Evidence

CONSTANT Scenes   \* the parts to play, of AllScenes

VARIABLE scene

AllScenes == {"session", "agent", "gate", "account", "anchors", "nudges", "forward", "evidence"}
ASSUME ScenesAssumption == Scenes \subseteq AllScenes

serviceVars == <<sessionVars, agentVars, gateVars, accountVars, anchorVars, nudgeVars,
                 forwardVars, evidenceVars, scene>>

-----------------------------------------------------------------------------
(* What a part's Init leaves open is open in its own scene and settled in  *)
(* the others.                                                             *)
ServiceInit ==
    /\ scene \in Scenes
    /\ SessionInit
    /\ NudgesInit
    /\ ForwardInit
    /\ AgentInit
    /\ scene # "agent" => wallet = 0
    /\ GateInit
    /\ scene # "gate" => operators = {}
    /\ AccountInit
    /\ scene # "account" => kind = "keys" /\ recent
    /\ AnchorsInit
    /\ scene # "anchors" => archive = "absent"
    /\ EvidenceInit
    /\ scene # "evidence" =>
         sound = {} /\ bundle = CHOOSE b \in [File -> [Signatory -> Kind_]] : TRUE

-----------------------------------------------------------------------------
(* One part's step                                                         *)
OfAccountPages ==
    UNCHANGED <<sessionVars, agentVars, gateVars, accountVars>>
OfEnvelopes ==
    UNCHANGED <<anchorVars, nudgeVars, forwardVars, evidenceVars>>

PlaySession ==
    /\ scene = "session" /\ SessionNext
    /\ UNCHANGED <<agentVars, gateVars, accountVars, scene>> /\ OfEnvelopes
PlayAgent ==
    /\ scene = "agent" /\ AgentNext
    /\ UNCHANGED <<sessionVars, gateVars, accountVars, scene>> /\ OfEnvelopes
PlayGate ==
    /\ scene = "gate" /\ GateNext
    /\ UNCHANGED <<sessionVars, agentVars, accountVars, scene>> /\ OfEnvelopes
PlayAccount ==
    /\ scene = "account" /\ AccountNext
    /\ UNCHANGED <<sessionVars, agentVars, gateVars, scene>> /\ OfEnvelopes
PlayAnchors ==
    /\ scene = "anchors" /\ AnchorsNext
    /\ UNCHANGED <<nudgeVars, forwardVars, evidenceVars, scene>> /\ OfAccountPages
PlayNudges ==
    /\ scene = "nudges" /\ NudgesNext
    /\ UNCHANGED <<anchorVars, forwardVars, evidenceVars, scene>> /\ OfAccountPages
PlayForward ==
    /\ scene = "forward" /\ ForwardNext
    /\ UNCHANGED <<anchorVars, nudgeVars, evidenceVars, scene>> /\ OfAccountPages
PlayEvidence ==
    /\ scene = "evidence" /\ EvidenceNext
    /\ UNCHANGED <<anchorVars, nudgeVars, forwardVars, scene>> /\ OfAccountPages

ServiceNext ==
    \/ PlaySession \/ PlayAgent \/ PlayGate \/ PlayAccount
    \/ PlayAnchors \/ PlayNudges \/ PlayForward \/ PlayEvidence

ServiceSpec == ServiceInit /\ [][ServiceNext]_serviceVars

-----------------------------------------------------------------------------
(* The part that plays keeps its state of its type: what a handler writes  *)
(* into a row, a page or a queue is a value its readers expect.            *)
ServiceTypeOK ==
    CASE scene = "session"  -> SessionTypeOK
      [] scene = "agent"    -> AgentTypeOK
      [] scene = "gate"     -> GateTypeOK
      [] scene = "account"  -> AccountTypeOK
      [] scene = "anchors"  -> AnchorsTypeOK
      [] scene = "nudges"   -> NudgesTypeOK
      [] scene = "forward"  -> ForwardTypeOK
      [] scene = "evidence" -> EvidenceTypeOK
=============================================================================
