------------------------- MODULE Study1Parts_proofs -------------------------
(***************************************************************************)
(* Proofs about the parts of Study 1 around the Session: a shared artifact,*)
(* the delegation to the Proxy, the protocol with its snapshot, and the    *)
(* reading time of the review page.                                        *)
(***************************************************************************)
EXTENDS SharedArtifact, Delegation, ProtocolFreeze, ReviewTelemetry, WellFoundedInduction,
    TLAPS

-----------------------------------------------------------------------------
(* SharedArtifact, for any non-empty set of roles and any number of          *)
(* revisions and requests in flight.                                         *)

(* Nobody has confirmed a revision that does not exist, and a request names  *)
(* a revision its sender was shown.                                          *)
ConfirmationsExist == \A row \in confirmations : row[1] \in 1 .. current

RequestsShown == \A request \in inflight :
    /\ request.revision \in shown[request.role]
    /\ request.op = "confirm" => request.revision # 0

ArtifactIInv ==
    /\ TypeOK
    /\ RevisionsChain
    /\ LockMeansAgreement
    /\ ConfirmedWhatWasShown
    /\ ConfirmationsExist
    /\ RequestsShown

LEMMA ArtifactInitInvariant == Init => ArtifactIInv
<1> SUFFICES ASSUME Init PROVE ArtifactIInv
  OBVIOUS
<1>1. TypeOK
  BY DEF Init, TypeOK, Revision, Request
<1>2. LockMeansAgreement
  BY DEF Init, LockMeansAgreement
<1>3. RevisionsChain
  BY DEF Init, RevisionsChain
<1>4. QED
  BY <1>1, <1>2, <1>3 DEF Init, ArtifactIInv, ConfirmedWhatWasShown, ConfirmationsExist, RequestsShown

(* Steps that leave the rows of the artifact alone.                          *)
LEMMA RowsUnchanged ==
    ASSUME ArtifactIInv, open' \in BOOLEAN, UNCHANGED <<revisions, current, locked, confirmations, decision>>,
           shown' \in [Roles -> SUBSET Nat], inflight' \in SUBSET Request,
           \A role \in Roles : shown[role] \subseteq shown'[role],
           \A request \in inflight' :
              \/ request \in inflight
              \/ /\ request.revision \in shown'[request.role]
                 /\ request.op = "confirm" => request.revision # 0
    PROVE  ArtifactIInv'
<1>1. TypeOK'
  BY DEF ArtifactIInv, TypeOK
<1>2. RevisionsChain' /\ LockMeansAgreement' /\ ConfirmationsExist'
  BY DEF ArtifactIInv, RevisionsChain, LockMeansAgreement, ConfirmationsExist, confirmed_by
<1>3. ConfirmedWhatWasShown'
  BY DEF ArtifactIInv, TypeOK, ConfirmedWhatWasShown
<1>4. RequestsShown'
  BY DEF ArtifactIInv, TypeOK, RequestsShown, Request
<1>5. QED
  BY <1>1, <1>2, <1>3, <1>4 DEF ArtifactIInv

LEMMA CreateStep ==
    ASSUME ArtifactIInv, NEW request \in inflight, CreateRevision(request)
    PROVE  ArtifactIInv' /\ locked = 0
<1> DEFINE number == Len(revisions) + 1
           row == [parent |-> request.revision, editor |-> request.role]
<1>1. /\ request \in Request
      /\ current = Len(revisions)
      /\ locked = 0
      /\ request.revision = current
  BY DEF ArtifactIInv, TypeOK, RevisionsChain, CreateRevision, revision_allowed
<1>2. /\ revisions' = Append(revisions, row)
      /\ current' = number
      /\ shown' = [shown EXCEPT ![request.role] = @ \cup {number}]
      /\ inflight' = inflight \ {request}
      /\ UNCHANGED <<open, locked, confirmations, decision>>
  BY DEF CreateRevision, Answer
<1>3. row \in Revision /\ current \in Nat /\ number \in Nat
  BY <1>1 DEF Request, Revision, ArtifactIInv, TypeOK
<1>4. TypeOK'
  BY <1>1, <1>2, <1>3 DEF ArtifactIInv, TypeOK, Request
<1>5. RevisionsChain'
  <2>1. revisions \in Seq(Revision)
    BY DEF ArtifactIInv, TypeOK
  <2>2. Len(revisions') = number
    BY <1>2, <1>3, <2>1
  <2>3. \A n \in 1 .. Len(revisions') :
           revisions'[n] = IF n = number THEN row ELSE revisions[n]
    BY <1>2, <1>3, <2>1
  <2>4. \A n \in 1 .. Len(revisions) : revisions[n].parent = n - 1
    BY DEF ArtifactIInv, RevisionsChain
  <2>5. row.parent = number - 1
    BY <1>1, <1>3
  <2>6. QED
    BY <1>1, <1>2, <1>3, <2>2, <2>3, <2>4, <2>5 DEF RevisionsChain
<1>6. confirmed_by(current', confirmations) = {}
  BY <1>1, <1>2, <1>3 DEF ArtifactIInv, ConfirmationsExist, confirmed_by
<1>7. LockMeansAgreement'
  BY <1>1, <1>2, <1>3, <1>6, SharedArtifactAssumption
     DEF ArtifactIInv, LockMeansAgreement, Roles, confirmed_by
<1>8. ConfirmationsExist'
  BY <1>1, <1>2, <1>3 DEF ArtifactIInv, ConfirmationsExist
<1>9. ConfirmedWhatWasShown' /\ RequestsShown'
  BY <1>1, <1>2 DEF ArtifactIInv, TypeOK, ConfirmedWhatWasShown, RequestsShown, Request
<1>10. QED
  BY <1>1, <1>4, <1>5, <1>7, <1>8, <1>9 DEF ArtifactIInv

LEMMA ConfirmStep ==
    ASSUME ArtifactIInv, NEW request \in inflight, ConfirmRevision(request)
    PROVE  /\ ArtifactIInv'
           /\ locked # 0 => UNCHANGED <<revisions, current, locked, decision>>
<1> DEFINE rows == confirmations \cup {<<current, request.role>>}
           completes == confirmed_by(current, rows) = Roles /\ locked = 0
<1>1. /\ request \in Request
      /\ request.revision = current
      /\ current \in Nat \ {0}
      /\ current \in shown[request.role]
  BY DEF ArtifactIInv, TypeOK, RequestsShown, ConfirmRevision
<1>2. /\ confirmations' = rows
      /\ locked' = IF completes THEN current ELSE locked
      /\ decision' = IF completes /\ decision = 0 THEN current ELSE decision
      /\ inflight' = inflight \ {request}
      /\ UNCHANGED <<open, revisions, current, shown>>
  BY DEF ConfirmRevision, Answer
<1>3. decision = locked
  BY DEF ArtifactIInv, LockMeansAgreement
<1>4. TypeOK'
  BY <1>1, <1>2 DEF ArtifactIInv, TypeOK, Request
<1>5. RevisionsChain'
  BY <1>2 DEF ArtifactIInv, RevisionsChain
<1>6. confirmed_by(current, confirmations) \subseteq confirmed_by(current, rows)
      /\ confirmed_by(current, rows) \subseteq Roles
  BY DEF confirmed_by
<1>7. LockMeansAgreement'
  <2>1. locked # 0 => confirmed_by(current, rows) = Roles
    BY <1>6 DEF ArtifactIInv, LockMeansAgreement
  <2>2. locked' # 0 <=> confirmed_by(current, rows) = Roles
    BY <1>1, <1>2, <2>1
  <2>3. locked' # 0 => locked' = current
    BY <1>2 DEF ArtifactIInv, LockMeansAgreement
  <2>4. decision' = locked'
    BY <1>2, <1>3
  <2>5. confirmed_by(current', confirmations') = confirmed_by(current, rows)
    BY <1>2 DEF confirmed_by
  <2>6. QED
    BY <1>1, <1>2, <2>2, <2>3, <2>4, <2>5 DEF LockMeansAgreement
<1>8. ConfirmationsExist'
  BY <1>1, <1>2 DEF ArtifactIInv, ConfirmationsExist
<1>9. ConfirmedWhatWasShown' /\ RequestsShown'
  BY <1>1, <1>2 DEF ArtifactIInv, ConfirmedWhatWasShown, RequestsShown
<1>10. locked # 0 => UNCHANGED <<revisions, current, locked, decision>>
  BY <1>2
<1>11. QED
  BY <1>4, <1>5, <1>7, <1>8, <1>9, <1>10 DEF ArtifactIInv

LEMMA OtherStep ==
    ASSUME ArtifactIInv, [Next]_vars,
           ~ \E request \in inflight : CreateRevision(request) \/ ConfirmRevision(request)
    PROVE  ArtifactIInv' /\ UNCHANGED <<revisions, current, locked, decision>>
<1>1. ASSUME NEW role \in Roles, Look(role)
      PROVE  ArtifactIInv' /\ UNCHANGED <<revisions, current, locked, decision>>
  <2>1. shown' \in [Roles -> SUBSET Nat]
        /\ \A other \in Roles : shown[other] \subseteq shown'[other]
    BY <1>1 DEF Look, ArtifactIInv, TypeOK
  <2>2. QED
    BY <1>1, <2>1, RowsUnchanged DEF Look, ArtifactIInv, TypeOK
<1>2. ASSUME NEW role \in Roles, NEW op \in {"revise", "confirm"}, NEW n \in shown[role],
             Admit(op, role, n)
      PROVE  ArtifactIInv' /\ UNCHANGED <<revisions, current, locked, decision>>
  <2> DEFINE request == [op |-> op, role |-> role, revision |-> n]
  <2>1. n \in Nat
    BY DEF ArtifactIInv, TypeOK
  <2>2. request \in Request /\ inflight' = inflight \cup {request}
    BY <1>2, <2>1 DEF Request, Admit
  <2>3. request.revision \in shown[request.role]
        /\ (request.op = "confirm" => request.revision # 0)
    BY <1>2 DEF Admit
  <2> HIDE DEF request
  <2>4. QED
    BY <1>2, <2>2, <2>3, RowsUnchanged DEF Admit, ArtifactIInv, TypeOK
<1>3. ASSUME NEW request \in inflight, Refuse(request) \/ Lose(request)
      PROVE  ArtifactIInv' /\ UNCHANGED <<revisions, current, locked, decision>>
  BY <1>3, RowsUnchanged DEF Refuse, Lose, Answer, ArtifactIInv, TypeOK
<1>4. ASSUME SessionMoves \/ UNCHANGED vars
      PROVE  ArtifactIInv' /\ UNCHANGED <<revisions, current, locked, decision>>
  BY <1>4, RowsUnchanged DEF SessionMoves, vars, ArtifactIInv, TypeOK
<1>5. QED
  BY <1>1, <1>2, <1>3, <1>4 DEF Next

LEMMA ArtifactNextInvariant ==
    ArtifactIInv /\ [Next]_vars =>
        /\ ArtifactIInv'
        /\ locked # 0 => UNCHANGED <<revisions, current, locked, decision>>
BY CreateStep, ConfirmStep, OtherStep

THEOREM Invariance == Spec => []ArtifactIInv
BY ArtifactInitInvariant, ArtifactNextInvariant, PTL DEF Spec

(* No edit of a shared artifact is ever lost.                                *)
THEOREM NoLostEdit == Spec => []RevisionsChain
<1>1. ArtifactIInv => RevisionsChain
  BY DEF ArtifactIInv
<1>2. QED
  BY <1>1, Invariance, PTL

(* The lock, the team's decision and unanimous confirmation coincide.        *)
THEOREM LockIsAgreement == Spec => []LockMeansAgreement
<1>1. ArtifactIInv => LockMeansAgreement
  BY DEF ArtifactIInv
<1>2. QED
  BY <1>1, Invariance, PTL

(* A confirmation is for a revision its participant was shown.               *)
THEOREM ConfirmationsInformed == Spec => []ConfirmedWhatWasShown
<1>1. ArtifactIInv => ConfirmedWhatWasShown
  BY DEF ArtifactIInv
<1>2. QED
  BY <1>1, Invariance, PTL

(* A locked artifact is never changed by a request that was on its way.      *)
THEOREM LockStays == Spec => LockIsFinal
<1>1. ArtifactIInv /\ [Next]_vars =>
        [locked # 0 => UNCHANGED <<revisions, current, locked, decision>>]_vars
  BY ArtifactNextInvariant
<1>2. QED
  BY <1>1, Invariance, PTL DEF Spec, LockIsFinal

(* Type correctness.                                                         *)
THEOREM TypeCorrect == Spec => []TypeOK
<1>1. ArtifactIInv => TypeOK
  BY DEF ArtifactIInv
<1>2. QED
  BY <1>1, Invariance, PTL

(* The artifact the team locked is the one all three saw.                    *)
THEOREM Agreed == Spec => []AgreementIsReal
  BY TypeCorrect, NoLostEdit, LockIsAgreement, ConfirmationsInformed, PTL
     DEF AgreementIsReal

-----------------------------------------------------------------------------
(* Delegation, for any materials, command ids, requests in flight and        *)
(* bounds.                                                                   *)

PhaseNames == {"configuration", "proxy_meeting", "handoff"}
Config == [confirmed : BOOLEAN, ids : SUBSET (Own \cup Foreign)]
Envelopes == [id : CommandIds, version : Nat, config : Nat, materials : SUBSET (Own \cup Foreign)]

(* An envelope says what A read: a version that was the Proxy meeting, and a *)
(* configuration P had confirmed with materials of P.                        *)
Faithful(e) ==
    /\ e \in Envelopes
    /\ e.version \in 1..Len(phases) /\ phases[e.version] = "proxy_meeting"
    /\ e.config \in 1..Len(configs) /\ configs[e.config].confirmed
    /\ e.materials = configs[e.config].ids /\ e.materials \subseteq Own

Histories ==
    /\ phases \in Seq(PhaseNames) /\ Len(phases) \in Nat \ {0}
    /\ configs \in Seq(Config)

(* A request under way carries a faithful envelope, and one that is about to *)
(* send has a record of its id.                                              *)
CallsFaithful ==
    /\ calls = [r \in Calls |-> calls[r]]
    /\ \A r \in Calls :
        \/ calls[r] = NoCall
        \/ /\ calls[r] = Pending(calls[r].at, calls[r].envelope, calls[r].seen)
           /\ calls[r].at \in {"record", "send"}
           /\ Faithful(calls[r].envelope)
           /\ calls[r].envelope.config = calls[r].seen
           /\ calls[r].at = "send" => \E f \in logged : f.id = calls[r].envelope.id

RowsFaithful == \A e \in logged \cup held : Faithful(e)

OneRecord == \A e, f \in logged : e.id = f.id => e = f

HeldIsRecorded == \A e \in held : \E f \in logged : f.id = e.id

DelegationIInv == Histories /\ CallsFaithful /\ RowsFaithful /\ OneRecord /\ HeldIsRecorded

-----------------------------------------------------------------------------
(* What adding a row to a history does.                                      *)
LEMMA Added ==
    ASSUME NEW S, NEW s \in Seq(S), NEW x \in S
    PROVE  /\ Append(s, x) \in Seq(S)
           /\ Len(s) \in Nat /\ Len(Append(s, x)) = Len(s) + 1
           /\ \A n \in 1..Len(s) : Append(s, x)[n] = s[n]
OBVIOUS

LEMMA One == ASSUME NEW S, NEW x \in S PROVE <<x>> \in Seq(S) /\ Len(<<x>>) = 1 /\ <<x>>[1] = x
OBVIOUS

LEMMA None == ASSUME NEW S PROVE <<>> \in Seq(S) /\ Len(<<>>) = 0
OBVIOUS

(* A history as it was, or with a row more.                                  *)
LEMMA Grows ==
    ASSUME NEW S, NEW s \in Seq(S), NEW t, t = s \/ \E x \in S : t = Append(s, x)
    PROVE  /\ t \in Seq(S) /\ Len(s) \in Nat /\ Len(t) \in Nat /\ Len(t) >= Len(s)
           /\ \A n \in 1..Len(s) : t[n] = s[n]
<1>1. CASE t = s
  BY <1>1
<1>2. CASE \E x \in S : t = Append(s, x)
  BY <1>2, Added
<1>3. QED
  BY <1>1, <1>2

LEMMA DelegationInitInvariant == DelegationInit => DelegationIInv
<1> SUFFICES ASSUME DelegationInit PROVE DelegationIInv
  OBVIOUS
<1>1. Histories
  <2>1. phases \in Seq(PhaseNames) /\ Len(phases) = 1
    <3>1. "configuration" \in PhaseNames
      BY DEF PhaseNames
    <3>2. QED
      BY <3>1, One DEF DelegationInit
  <2>2. configs \in Seq(Config)
    BY None DEF DelegationInit
  <2>3. QED
    BY <2>1, <2>2 DEF Histories
<1>2. CallsFaithful
  BY DEF DelegationInit, CallsFaithful
<1>3. RowsFaithful /\ OneRecord /\ HeldIsRecorded
  BY DEF DelegationInit, RowsFaithful, OneRecord, HeldIsRecorded
<1>4. QED
  BY <1>1, <1>2, <1>3 DEF DelegationIInv

(* What an envelope says stays true when the Session moves on and P's        *)
(* configuration is revised: both histories only grow.                       *)
LEMMA FaithfulStays ==
    ASSUME Histories, NEW e, Faithful(e),
           \/ phases' = phases
           \/ \E phase \in PhaseNames : phases' = Append(phases, phase),
           \/ configs' = configs
           \/ \E config \in Config : configs' = Append(configs, config)
    PROVE  Faithful(e)'
<1>1. phases \in Seq(PhaseNames) /\ configs \in Seq(Config)
  BY DEF Histories
<1>2. /\ Len(phases) \in Nat /\ Len(phases') \in Nat /\ Len(phases') >= Len(phases)
      /\ \A n \in 1..Len(phases) : phases'[n] = phases[n]
  BY <1>1, Grows
<1>3. /\ Len(configs) \in Nat /\ Len(configs') \in Nat /\ Len(configs') >= Len(configs)
      /\ \A n \in 1..Len(configs) : configs'[n] = configs[n]
  BY <1>1, Grows
<1>4. e.version \in 1..Len(phases') /\ e.config \in 1..Len(configs')
  BY <1>2, <1>3 DEF Faithful
<1>5. QED
  BY <1>2, <1>3, <1>4 DEF Faithful

(* Steps that add to the two histories and touch nothing else.               *)
LEMMA HistoryStep ==
    ASSUME DelegationIInv, UNCHANGED <<calls, logged, held>>,
           \/ phases' = phases
           \/ \E phase \in PhaseNames : phases' = Append(phases, phase),
           \/ configs' = configs
           \/ \E config \in Config : configs' = Append(configs, config)
    PROVE  DelegationIInv'
<1>1. Histories
  BY DEF DelegationIInv
<1>2. Histories'
  <2>1. phases \in Seq(PhaseNames) /\ configs \in Seq(Config) /\ Len(phases) \in Nat \ {0}
    BY <1>1 DEF Histories
  <2>2. phases' \in Seq(PhaseNames) /\ Len(phases') \in Nat /\ Len(phases') >= Len(phases)
    BY <2>1, Grows
  <2>3. configs' \in Seq(Config)
    BY <2>1, Grows
  <2>4. QED
    BY <2>1, <2>2, <2>3 DEF Histories
<1>3. ASSUME NEW e, Faithful(e) PROVE Faithful(e)'
  BY <1>1, <1>3, FaithfulStays
<1>4. CallsFaithful'
  BY <1>3 DEF DelegationIInv, CallsFaithful
<1>5. RowsFaithful'
  BY <1>3 DEF DelegationIInv, RowsFaithful
<1>6. OneRecord' /\ HeldIsRecorded'
  BY DEF DelegationIInv, OneRecord, HeldIsRecorded
<1>7. QED
  BY <1>2, <1>4, <1>5, <1>6 DEF DelegationIInv

LEMMA MoveStep ==
    ASSUME DelegationIInv, NEW phase \in PhaseNames, MoveSession(phase)
    PROVE  DelegationIInv'
BY HistoryStep DEF MoveSession

LEMMA SubmitStep ==
    ASSUME DelegationIInv, NEW ids \in SUBSET (Own \cup Foreign), SubmitConfig(ids)
    PROVE  DelegationIInv'
<1>1. configs' = Append(configs, [confirmed |-> TRUE, ids |-> ids])
  BY DEF SubmitConfig
<1>2. [confirmed |-> TRUE, ids |-> ids] \in Config
  BY DEF Config
<1>3. QED
  BY <1>1, <1>2, HistoryStep DEF SubmitConfig

LEMMA ReviseStep ==
    ASSUME DelegationIInv, NEW ids \in SUBSET (Own \cup Foreign), NEW confirmed \in BOOLEAN,
           ReviseConfig(confirmed, ids)
    PROVE  DelegationIInv'
<1>1. RevisionOf(confirmed, ids) \in Config
  BY DEF RevisionOf, Config
<1>2. QED
  BY <1>1, HistoryStep DEF ReviseConfig

(* Steps that leave the histories alone: what was faithful still is.         *)
LEMMA FaithfulUnchanged ==
    ASSUME UNCHANGED <<phases, configs>>
    PROVE  \A e : Faithful(e)' <=> Faithful(e)
BY DEF Faithful

LEMMA PendingFields ==
    ASSUME NEW step, NEW e, NEW seen
    PROVE  /\ Pending(step, e, seen).at = step
           /\ Pending(step, e, seen).envelope = e
           /\ Pending(step, e, seen).seen = seen
BY DEF Pending

LEMMA IssueStep ==
    ASSUME DelegationIInv, NEW r \in Calls, NEW id \in CommandIds, IssueCommand(r, id)
    PROVE  DelegationIInv'
<1>1. PICK n \in AuthorizedConfigs :
        calls' = [calls EXCEPT ![r] = Pending("record", Envelope(id, n), Len(configs))]
  BY DEF IssueCommand
<1>2. UNCHANGED <<phases, configs, logged, held>> /\ Current = "proxy_meeting"
  BY DEF IssueCommand
<1> DEFINE e == Envelope(id, n)
           p == Pending("record", e, Len(configs))
<1>3. n = Len(configs) /\ n \in 1..Len(configs) /\ configs[n].confirmed /\ configs[n].ids \subseteq Own
  BY DEF AuthorizedConfigs
<1>4. e.id = id /\ e.version = Len(phases) /\ e.config = n /\ e.materials = configs[n].ids
  BY DEF Envelope, Version
<1>5. Faithful(e)
  <2>1. configs \in Seq(Config) /\ Len(phases) \in Nat \ {0} /\ configs[n] \in Config
    BY <1>3 DEF DelegationIInv, Histories
  <2>2. e \in Envelopes
    <3>1. Len(phases) \in Nat /\ n \in Nat /\ configs[n].ids \in SUBSET (Own \cup Foreign)
      BY <1>3, <2>1 DEF Config
    <3>2. QED
      BY <3>1 DEF Envelope, Envelopes, Version
  <2>3. QED
    BY <1>2, <1>3, <1>4, <2>1, <2>2 DEF Faithful, Current, Version
<1>6. p.at = "record" /\ p.envelope = e /\ p.seen = Len(configs)
  BY PendingFields
<1>7. CallsFaithful'
  <2>1. calls = [q \in Calls |-> calls[q]]
    BY DEF DelegationIInv, CallsFaithful
  <2>2. calls' = [q \in Calls |-> IF q = r THEN p ELSE calls[q]]
    BY <1>1, <2>1
  <2>3. \A x : Faithful(x)' <=> Faithful(x)
    BY <1>2, FaithfulUnchanged
  <2>4. p = Pending(p.at, p.envelope, p.seen)
    BY <1>6
  <2> HIDE DEF p, e
  <2>5. QED
    BY <1>2, <1>3, <1>4, <1>5, <1>6, <2>2, <2>3, <2>4 DEF DelegationIInv, CallsFaithful
<1>8. RowsFaithful' /\ OneRecord' /\ HeldIsRecorded' /\ Histories'
  BY <1>2, FaithfulUnchanged DEF DelegationIInv, RowsFaithful, OneRecord, HeldIsRecorded, Histories
<1>9. QED
  BY <1>7, <1>8 DEF DelegationIInv

LEMMA RecordStep ==
    ASSUME DelegationIInv, NEW r \in Calls, RecordCommand(r)
    PROVE  DelegationIInv'
<1> DEFINE e == calls[r].envelope
           p == Pending("send", e, calls[r].seen)
<1>1. /\ calls[r].at = "record" /\ calls' = [calls EXCEPT ![r] = p]
      /\ logged' = IF \E f \in logged : f.id = e.id THEN logged ELSE logged \cup {e}
      /\ UNCHANGED <<phases, configs, held>>
  BY DEF RecordCommand
<1>2. calls[r] # NoCall
  BY <1>1 DEF NoCall
<1>3. Faithful(e) /\ e.config = calls[r].seen
  BY <1>2 DEF DelegationIInv, CallsFaithful
<1>4. p.at = "send" /\ p.envelope = e /\ p.seen = calls[r].seen
  BY PendingFields
<1>5. (\E f \in logged' : f.id = e.id) /\ logged \subseteq logged' /\ logged' \subseteq logged \cup {e}
  BY <1>1
<1>6. CallsFaithful'
  <2>1. calls = [q \in Calls |-> calls[q]]
    BY DEF DelegationIInv, CallsFaithful
  <2>2. calls' = [q \in Calls |-> IF q = r THEN p ELSE calls[q]]
    BY <1>1, <2>1
  <2>3. \A x : Faithful(x)' <=> Faithful(x)
    BY <1>1, FaithfulUnchanged
  <2>4. p = Pending(p.at, p.envelope, p.seen)
    BY <1>4
  <2> HIDE DEF p, e
  <2>5. ASSUME NEW q \in Calls, calls[q] # NoCall, calls[q].at = "send"
        PROVE  \E f \in logged' : f.id = calls[q].envelope.id
    BY <1>5, <2>5 DEF DelegationIInv, CallsFaithful
  <2>6. QED
    BY <1>3, <1>4, <1>5, <2>2, <2>3, <2>4, <2>5 DEF DelegationIInv, CallsFaithful
<1>7. RowsFaithful'
  BY <1>1, <1>3, <1>5, FaithfulUnchanged DEF DelegationIInv, RowsFaithful
<1>8. OneRecord'
  BY <1>1 DEF DelegationIInv, OneRecord
<1>9. HeldIsRecorded' /\ Histories'
  BY <1>1, <1>5 DEF DelegationIInv, HeldIsRecorded, Histories
<1>10. QED
  BY <1>6, <1>7, <1>8, <1>9 DEF DelegationIInv

(* A call that ends takes nothing with it.                                   *)
LEMMA CallEnds ==
    ASSUME DelegationIInv, NEW r \in Calls, calls' = [calls EXCEPT ![r] = NoCall],
           UNCHANGED <<phases, configs, logged>>
    PROVE  CallsFaithful' /\ OneRecord' /\ Histories'
<1>1. calls' = [q \in Calls |-> IF q = r THEN NoCall ELSE calls[q]]
  BY DEF DelegationIInv, CallsFaithful
<1>2. \A x : Faithful(x)' <=> Faithful(x)
  BY FaithfulUnchanged
<1>3. CallsFaithful'
  BY <1>1, <1>2 DEF DelegationIInv, CallsFaithful
<1>4. QED
  BY <1>3 DEF DelegationIInv, OneRecord, Histories

LEMMA SendStep ==
    ASSUME DelegationIInv, NEW r \in Calls, SendCommand(r)
    PROVE  DelegationIInv'
<1> DEFINE e == calls[r].envelope
<1>1. /\ calls[r].at = "send" /\ calls' = [calls EXCEPT ![r] = NoCall]
      /\ held' \subseteq held \cup {e}
      /\ UNCHANGED <<phases, configs, logged>>
  BY DEF SendCommand, Accept
<1>2. calls[r] # NoCall
  BY <1>1 DEF NoCall
<1>3. Faithful(e) /\ \E f \in logged : f.id = e.id
  BY <1>1, <1>2 DEF DelegationIInv, CallsFaithful
<1>4. CallsFaithful' /\ OneRecord' /\ Histories'
  BY <1>1, CallEnds
<1>5. RowsFaithful' /\ HeldIsRecorded'
  BY <1>1, <1>3, FaithfulUnchanged DEF DelegationIInv, RowsFaithful, HeldIsRecorded
<1>6. QED
  BY <1>4, <1>5 DEF DelegationIInv

LEMMA DropStep ==
    ASSUME DelegationIInv, NEW r \in Calls, DropCall(r)
    PROVE  DelegationIInv'
<1>1. calls' = [calls EXCEPT ![r] = NoCall] /\ UNCHANGED <<phases, configs, logged, held>>
  BY DEF DropCall
<1>2. CallsFaithful' /\ OneRecord' /\ Histories'
  BY <1>1, CallEnds
<1>3. RowsFaithful' /\ HeldIsRecorded'
  BY <1>1, FaithfulUnchanged DEF DelegationIInv, RowsFaithful, HeldIsRecorded
<1>4. QED
  BY <1>2, <1>3 DEF DelegationIInv

LEMMA DelegationNextInvariant == DelegationIInv /\ [DelegationNext]_delegationVars => DelegationIInv'
<1> SUFFICES ASSUME DelegationIInv, [DelegationNext]_delegationVars PROVE DelegationIInv'
  OBVIOUS
<1>1. CASE \E phase \in {"configuration", "proxy_meeting", "handoff"} : MoveSession(phase)
  BY <1>1, MoveStep DEF PhaseNames
<1>2. CASE \E ids \in SUBSET (Own \cup Foreign) : SubmitConfig(ids)
  BY <1>2, SubmitStep
<1>3. CASE \E ids \in SUBSET (Own \cup Foreign), confirmed \in BOOLEAN : ReviseConfig(confirmed, ids)
  BY <1>3, ReviseStep
<1>4. CASE \E r \in Calls, id \in CommandIds : IssueCommand(r, id)
  BY <1>4, IssueStep
<1>5. CASE \E r \in Calls : RecordCommand(r)
  BY <1>5, RecordStep
<1>6. CASE \E r \in Calls : SendCommand(r)
  BY <1>6, SendStep
<1>7. CASE \E r \in Calls : DropCall(r)
  BY <1>7, DropStep
<1>8. CASE UNCHANGED delegationVars
  <2>1. UNCHANGED <<phases, configs, calls, logged, held>>
    BY <1>8 DEF delegationVars
  <2>2. QED
    BY <2>1, HistoryStep
<1>9. QED
  BY <1>1, <1>2, <1>3, <1>4, <1>5, <1>6, <1>7, <1>8 DEF DelegationNext

-----------------------------------------------------------------------------
(* Two faithful envelopes of one id, version and configuration are the same. *)
LEMMA FaithfulDetermined ==
    ASSUME NEW e, NEW f, Faithful(e), Faithful(f),
           e.id = f.id, e.version = f.version, e.config = f.config
    PROVE  e = f
<1>1. e.materials = f.materials /\ e \in Envelopes /\ f \in Envelopes
  BY DEF Faithful
<1>2. QED
  BY <1>1 DEF Envelopes

LEMMA DelegationInvariantSuffices == DelegationIInv => ProxyIsAuthorized
<1> SUFFICES ASSUME DelegationIInv PROVE ProxyIsAuthorized
  OBVIOUS
<1>1. HeldIsAuthorized
  BY DEF DelegationIInv, RowsFaithful, HeldIsAuthorized, Faithful
<1>2. HeldIsOfProxyMeeting
  BY DEF DelegationIInv, RowsFaithful, HeldIsOfProxyMeeting, Faithful
<1>3. SentIsOnRecord
  <2>1. ASSUME NEW e \in held
        PROVE  \E f \in logged : f.id = e.id /\ (e = f \/ e.config # f.config \/ e.version # f.version)
    <3>1. PICK f \in logged : f.id = e.id
      BY DEF DelegationIInv, HeldIsRecorded
    <3>2. Faithful(e) /\ Faithful(f)
      BY DEF DelegationIInv, RowsFaithful
    <3>3. QED
      BY <3>1, <3>2, FaithfulDetermined
  <2>2. QED
    BY <2>1 DEF DelegationIInv, OneRecord, SentIsOnRecord
<1>4. NewestIsUsed
  BY DEF DelegationIInv, CallsFaithful, NewestIsUsed
<1>5. QED
  BY <1>1, <1>2, <1>3, <1>4 DEF ProxyIsAuthorized

(* However many requests, revisions and retries interleave, and whatever is  *)
(* lost between A and B, what B holds for the Proxy is a configuration P had *)
(* confirmed, with materials of P, on record in A before it was sent.        *)
THEOREM Authorized == DelegationSpec => []ProxyIsAuthorized
<1>1. DelegationInit => DelegationIInv
  BY DelegationInitInvariant
<1>2. DelegationIInv /\ [DelegationNext]_delegationVars => DelegationIInv'
  BY DelegationNextInvariant
<1>3. DelegationIInv => ProxyIsAuthorized
  BY DelegationInvariantSuffices
<1>4. QED
  BY <1>1, <1>2, <1>3, PTL DEF DelegationSpec

-----------------------------------------------------------------------------
(* ProtocolFreeze, for any roles, facts, tasks, configurations, uploads and  *)
(* number of requests in flight.                                             *)

Snapshot(s) ==
    /\ s = [config |-> s.config, checksum |-> s.checksum, frozen |-> s.frozen]
    /\ s.config \in Configs /\ s.frozen \in BOOLEAN

(* The checksum of a snapshot covers everything the Session is run with.     *)
Whole(s) == s.checksum = Checksum(s.config, definition.content, {"roles", "facts"}, materials)

DefinitionSound ==
    \/ definition = [status |-> "absent"]
    \/ /\ definition = [content |-> definition.content, status |-> definition.status]
       /\ definition.content \in Tasks /\ definition.status \in {"draft", "validated"}

SessionSound ==
    /\ session \in {"none", "waiting", "running", "terminated"}
    /\ session = "none" => ~snapshot.frozen
    /\ session # "none" => Snapshot(snapshot) /\ definition.status = "validated"

(* What a request may hold at each of its steps.  One that patches the       *)
(* snapshot holds an unfrozen copy.                                          *)
RequestSound(q) ==
    /\ q.at \in {"idle", "replace", "validate", "update", "update_write", "add",
                 "freeze", "freeze_write", "control"}
    /\ q.at = "replace" => q.row.content \in Tasks
    /\ q.at \in {"update", "update_write"} => Snapshot(q.row) /\ ~q.row.frozen
    /\ q.at = "freeze" => Snapshot(q.row)
    /\ q.at = "freeze_write" => Snapshot(q.row) /\ q.row.frozen
    /\ q.at = "add" => q.row.role \in StudyRoles /\ q.row.shows \subseteq Uploads

EditorsSound ==
    /\ editors = [e \in Editors |-> editors[e]]
    /\ \A e \in Editors :
        /\ RequestSound(editors[e])
        /\ editors[e].at # "idle" => definition.status # "absent"
        /\ Busy(e) => session # "none"

MaterialsSound == MaterialsOfTheTask /\ \A m \in materials : m.role \in StudyRoles

(* As long as no two requests overlap, what is frozen is whole, and only the *)
(* start that froze it is still busy.                                        *)
FrozenIsWhole ==
    ~overlapped =>
        /\ \A e, o \in Editors : Busy(e) /\ Busy(o) => e = o
        /\ snapshot.frozen =>
              Whole(snapshot) /\ \A e \in Editors : Busy(e) => At(e, "control")
        /\ \A e \in Editors : At(e, "freeze_write") => Whole(editors[e].row)
        /\ \A e \in Editors : At(e, "control") => snapshot.frozen
        /\ session = "running" => snapshot.frozen

ProtocolIInv ==
    /\ DefinitionSound /\ SessionSound /\ EditorsSound
    /\ MaterialsSound /\ FrozenIsWhole /\ ValidatedAsRead

-----------------------------------------------------------------------------
LEMMA ProtocolInitInvariant == ProtocolInit => ProtocolIInv
<1> SUFFICES ASSUME ProtocolInit PROVE ProtocolIInv
  OBVIOUS
<1>1. Idle.at = "idle" /\ ~NoRow.frozen
  BY DEF Idle, NoRow
<1>2. \A e \in Editors : editors[e].at = "idle" /\ ~Busy(e)
  BY <1>1 DEF ProtocolInit, Busy
<1>3. EditorsSound
  BY <1>2 DEF ProtocolInit, EditorsSound, RequestSound
<1>4. DefinitionSound /\ SessionSound /\ MaterialsSound /\ ValidatedAsRead
  BY <1>1 DEF ProtocolInit, DefinitionSound, SessionSound, MaterialsSound, MaterialsOfTheTask,
              ValidatedAsRead
<1>5. FrozenIsWhole
  BY <1>1, <1>2 DEF ProtocolInit, FrozenIsWhole, At
<1>6. QED
  BY <1>3, <1>4, <1>5 DEF ProtocolIInv

(* A request goes to its next step, and the others stay where they are.      *)
LEMMA Became ==
    ASSUME EditorsSound, NEW e \in Editors, NEW at, NEW row, Become(e, at, row)
    PROVE  /\ editors' = [o \in Editors |-> editors'[o]]
           /\ editors'[e].at = at /\ editors'[e].row = row
           /\ \A o \in Editors \ {e} : editors'[o] = editors[o]
BY DEF EditorsSound, Become

LEMMA IsDone ==
    ASSUME EditorsSound, NEW e \in Editors, Done(e)
    PROVE  /\ editors' = [o \in Editors |-> editors'[o]]
           /\ editors'[e].at = "idle"
           /\ \A o \in Editors \ {e} : editors'[o] = editors[o]
BY DEF EditorsSound, Done, Idle

(* What requests on the task, and those that die, leave alone.               *)
LEMMA TaskStep ==
    ASSUME ProtocolIInv, OnTask, DefinitionSound', ValidatedAsRead', EditorsSound',
           definition.status = "validated" => definition' = definition,
           \A e \in Editors : Busy(e)' => Busy(e) /\ editors'[e] = editors[e]
    PROVE  ProtocolIInv'
<1>1. UNCHANGED <<session, snapshot, payload, materials, overlapped>>
  BY DEF OnTask
<1>2. session # "none" => definition' = definition
  BY DEF ProtocolIInv, SessionSound
<1>3. SessionSound'
  BY <1>1, <1>2 DEF ProtocolIInv, SessionSound
<1>4. MaterialsSound'
  BY <1>1, <1>2 DEF ProtocolIInv, MaterialsSound, MaterialsOfTheTask
<1>5. FrozenIsWhole'
  <2> SUFFICES ASSUME ~overlapped PROVE FrozenIsWhole'
    BY <1>1 DEF FrozenIsWhole
  <2>1. session # "none" => \A s : Whole(s)' <=> Whole(s)
    BY <1>1, <1>2 DEF Whole
  <2>2. \A e \in Editors : At(e, "freeze_write")' \/ At(e, "control")' =>
            Busy(e) /\ editors'[e] = editors[e] /\ session # "none"
    BY DEF At, Busy, ProtocolIInv, EditorsSound
  <2>3. /\ \A e, o \in Editors : Busy(e) /\ Busy(o) => e = o
        /\ snapshot.frozen =>
              session # "none" /\ Whole(snapshot) /\ \A e \in Editors : Busy(e) => At(e, "control")
        /\ \A e \in Editors : At(e, "freeze_write") => Whole(editors[e].row)
        /\ \A e \in Editors : At(e, "control") => snapshot.frozen
        /\ session = "running" => snapshot.frozen
    BY DEF ProtocolIInv, FrozenIsWhole, SessionSound
  <2>4. \A e, o \in Editors : Busy(e)' /\ Busy(o)' => e = o
    BY <2>3
  <2>5. snapshot'.frozen => Whole(snapshot)' /\ \A e \in Editors : Busy(e)' => At(e, "control")'
    BY <1>1, <1>2, <2>3 DEF Whole, At
  <2>6. \A e \in Editors : At(e, "freeze_write")' => Whole(editors[e].row)'
    BY <1>1, <1>2, <2>2, <2>3 DEF Whole, At
  <2>7. \A e \in Editors : At(e, "control")' => snapshot'.frozen
    BY <1>1, <2>2, <2>3 DEF At
  <2>8. session' = "running" => snapshot'.frozen
    BY <1>1, <2>3
  <2>9. QED
    BY <2>4, <2>5, <2>6, <2>7, <2>8 DEF FrozenIsWhole
<1>6. QED
  BY <1>3, <1>4, <1>5 DEF ProtocolIInv

LEMMA CreateDefinitionStep ==
    ASSUME ProtocolIInv, NEW t \in Tasks, CreateDefinition(t) PROVE ProtocolIInv'
<1>1. /\ definition.status = "absent" /\ OnTask /\ UNCHANGED <<reviewed, editors>>
      /\ definition' = [content |-> t, status |-> "draft"]
  BY DEF CreateDefinition
<1>2. UNCHANGED <<session, snapshot, payload, materials, overlapped>>
  BY <1>1 DEF OnTask
<1>3. DefinitionSound' /\ ValidatedAsRead'
  BY <1>1 DEF DefinitionSound, ValidatedAsRead
<1>4. EditorsSound' /\ \A e \in Editors : Busy(e)' => Busy(e) /\ editors'[e] = editors[e]
  BY <1>1, <1>2 DEF ProtocolIInv, EditorsSound, Busy
<1>5. QED
  BY <1>1, <1>3, <1>4, TaskStep

LEMMA BeginTaskStep ==
    ASSUME ProtocolIInv, NEW e \in Editors,
           (\E t \in Tasks : BeginReplace(e, t)) \/ BeginValidate(e)
    PROVE  ProtocolIInv'
<1>1. OnTask /\ UNCHANGED <<definition, reviewed>> /\ UNCHANGED <<session, snapshot, payload, materials, overlapped>>
  BY DEF BeginReplace, BeginValidate, OnTask
<1>2. PICK at, row : /\ Become(e, at, row) /\ at \in {"replace", "validate"}
                     /\ at = "replace" => row.content \in Tasks
  <2>1. CASE \E t \in Tasks : BeginReplace(e, t)
    <3>1. PICK t \in Tasks : Become(e, "replace", [content |-> t])
      BY <2>1 DEF BeginReplace
    <3>2. [content |-> t].content \in Tasks
      OBVIOUS
    <3>3. QED
      BY <3>1, <3>2
  <2>2. CASE BeginValidate(e)
    BY <2>2 DEF BeginValidate
  <2>3. QED
    BY <2>1, <2>2
<1>3. /\ editors' = [o \in Editors |-> editors'[o]]
      /\ editors'[e].at = at /\ editors'[e].row = row
      /\ \A o \in Editors \ {e} : editors'[o] = editors[o]
  BY <1>2, Became DEF ProtocolIInv
<1>4. ~Busy(e)' /\ RequestSound(editors'[e]) /\ definition.status # "absent"
  BY <1>2, <1>3 DEF Busy, RequestSound, BeginReplace, BeginValidate
<1>5. EditorsSound' /\ \A o \in Editors : Busy(o)' => Busy(o) /\ editors'[o] = editors[o]
  BY <1>1, <1>3, <1>4 DEF ProtocolIInv, EditorsSound, Busy
<1>6. DefinitionSound' /\ ValidatedAsRead'
  BY <1>1 DEF ProtocolIInv, DefinitionSound, ValidatedAsRead
<1>7. QED
  BY <1>1, <1>5, <1>6, TaskStep

(* A validated definition is not changed by a request that ends, nor by one  *)
(* that is lost.                                                             *)
LEMMA EndTaskStep ==
    ASSUME ProtocolIInv, NEW e \in Editors, FinishReplace(e) \/ FinishValidate(e) \/ LoseRequest(e)
    PROVE  ProtocolIInv' /\ (definition.status = "validated" => definition' = definition)
<1>1. OnTask /\ Done(e) /\ UNCHANGED <<session, snapshot, payload, materials, overlapped>>
  BY DEF FinishReplace, FinishValidate, LoseRequest, OnTask
<1>2. /\ editors' = [o \in Editors |-> editors'[o]] /\ editors'[e].at = "idle"
      /\ \A o \in Editors \ {e} : editors'[o] = editors[o]
  BY <1>1, IsDone DEF ProtocolIInv
<1>3. \A o \in Editors : Busy(o)' => Busy(o) /\ editors'[o] = editors[o]
  BY <1>2 DEF Busy
<1>4. /\ DefinitionSound' /\ ValidatedAsRead'
      /\ definition.status = "validated" => definition' = definition
  <2>1. CASE FinishReplace(e)
    <3>1. editors[e].row.content \in Tasks /\ UNCHANGED reviewed
      BY <2>1 DEF FinishReplace, At, ProtocolIInv, EditorsSound, RequestSound
    <3>2. definition.status # "draft" => definition' = definition
      BY <2>1 DEF FinishReplace
    <3>3. ASSUME definition.status = "draft"
          PROVE  definition' = [content |-> editors[e].row.content, status |-> "draft"]
      BY <2>1, <3>3 DEF FinishReplace, ProtocolIInv, DefinitionSound
    <3>4. QED
      BY <3>1, <3>2, <3>3 DEF ProtocolIInv, DefinitionSound, ValidatedAsRead
  <2>2. CASE FinishValidate(e)
    <3>1. CASE definition.content = editors[e].row.content /\ definition.status # "absent"
      <4>1. /\ definition' = [definition EXCEPT !.status = "validated"]
            /\ reviewed' = reviewed \cup {definition.content}
        BY <2>2, <3>1 DEF FinishValidate
      <4>2. definition' = [content |-> definition.content, status |-> "validated"]
            /\ definition.content \in Tasks
        BY <3>1, <4>1 DEF ProtocolIInv, DefinitionSound
      <4>3. definition.status = "validated" => definition' = definition
        BY <3>1, <4>2 DEF ProtocolIInv, DefinitionSound
      <4>4. QED
        BY <4>1, <4>2, <4>3 DEF DefinitionSound, ValidatedAsRead
    <3>2. CASE definition.content # editors[e].row.content
      BY <2>2, <3>2 DEF FinishValidate, ProtocolIInv, DefinitionSound, ValidatedAsRead
    <3>3. definition.status # "absent"
      BY <2>2 DEF FinishValidate, At, ProtocolIInv, EditorsSound
    <3>4. QED
      BY <3>1, <3>2, <3>3
  <2>3. CASE LoseRequest(e)
    BY <2>3 DEF LoseRequest, ProtocolIInv, DefinitionSound, ValidatedAsRead
  <2>4. QED
    BY <2>1, <2>2, <2>3
<1>5. definition.status # "absent" => definition'.status # "absent"
  BY DEF ProtocolIInv, DefinitionSound, FinishReplace, FinishValidate, LoseRequest
<1>6. EditorsSound'
  BY <1>1, <1>2, <1>3, <1>5 DEF ProtocolIInv, EditorsSound, RequestSound
<1>7. QED
  BY <1>1, <1>3, <1>4, <1>6, TaskStep

-----------------------------------------------------------------------------
(* A step of one request on the protocol of a Session that exists.  Unless   *)
(* requests overlapped it is the only busy one, so what it leaves behind     *)
(* decides whether a frozen snapshot is whole.                               *)
LEMMA AloneStep ==
    ASSUME ProtocolIInv, NEW e \in Editors, OnProtocol, MaterialsSound', Snapshot(snapshot'),
           session # "none", session' \in {"waiting", "running", "terminated"},
           editors' = [o \in Editors |-> editors'[o]], RequestSound(editors'[e]),
           \A o \in Editors \ {e} : editors'[o] = editors[o],
           editors'[e].at # "idle" => definition.status # "absent",
           ~overlapped' =>
               /\ \A o \in Editors \ {e} : ~Busy(o)
               /\ snapshot'.frozen => Whole(snapshot)' /\ (Busy(e)' => At(e, "control")')
               /\ At(e, "freeze_write")' => Whole(editors[e].row)'
               /\ At(e, "control")' => snapshot'.frozen
               /\ session' = "running" => snapshot'.frozen
    PROVE  ProtocolIInv'
<1>1. definition' = definition /\ reviewed' = reviewed
  BY DEF OnProtocol
<1>2. DefinitionSound' /\ ValidatedAsRead'
  BY <1>1 DEF ProtocolIInv, DefinitionSound, ValidatedAsRead
<1>3. SessionSound'
  BY <1>1 DEF ProtocolIInv, SessionSound, Snapshot
<1>4. EditorsSound'
  BY <1>1 DEF ProtocolIInv, EditorsSound, Busy
<1>5. FrozenIsWhole'
  <2> SUFFICES ASSUME ~overlapped' PROVE FrozenIsWhole'
    BY DEF FrozenIsWhole
  <2>1. \A o \in Editors : Busy(o)' \/ At(o, "freeze_write")' \/ At(o, "control")' => o = e
    BY DEF Busy, At
  <2>2. QED
    BY <2>1 DEF FrozenIsWhole
<1>6. QED
  BY <1>2, <1>3, <1>4, <1>5 DEF ProtocolIInv

(* create_session shows each role what the validated task lets it see.       *)
LEMMA CreateSessionStep ==
    ASSUME ProtocolIInv, NEW c \in Configs, CreateSession(c) PROVE ProtocolIInv'
<1>1. /\ session = "none" /\ definition.status = "validated" /\ session' = "waiting"
      /\ materials' = TaskMaterials(definition.content)
      /\ UNCHANGED <<editors, overlapped, definition, reviewed>>
  BY DEF CreateSession, OnProtocol
<1>2. Snapshot(snapshot') /\ ~snapshot'.frozen
  BY DEF CreateSession, Snapshot, Unfrozen
<1>3. DefinitionSound' /\ ValidatedAsRead' /\ EditorsSound'
  BY <1>1 DEF ProtocolIInv, DefinitionSound, ValidatedAsRead, EditorsSound, Busy
<1>4. SessionSound'
  BY <1>1, <1>2 DEF SessionSound, Snapshot
<1>5. MaterialsSound'
  <2>1. /\ \A m \in materials' : \E r \in StudyRoles :
                m = [role |-> r, shows |-> {f \in Facts : r \in definition.content[f]}]
        /\ \A r \in StudyRoles :
                [role |-> r, shows |-> {f \in Facts : r \in definition.content[f]}] \in materials'
    BY <1>1 DEF TaskMaterials
  <2>2. ASSUME NEW m \in materials'
        PROVE  /\ m.role \in StudyRoles
               /\ m.shows = {f \in Facts : m.role \in definition.content[f]}
    BY <2>1
  <2>3. ASSUME NEW r \in StudyRoles, NEW f \in Facts
        PROVE  r \in definition.content[f] <=> \E m \in materials' : m.role = r /\ f \in m.shows
    <3>1. ASSUME r \in definition.content[f]
          PROVE  \E m \in materials' : m.role = r /\ f \in m.shows
      <4> DEFINE own == [role |-> r, shows |-> {g \in Facts : r \in definition.content[g]}]
      <4>1. own \in materials' /\ own.role = r /\ f \in own.shows
        BY <2>1, <3>1
      <4>2. QED
        BY <4>1
    <3>2. ASSUME NEW m \in materials', m.role = r /\ f \in m.shows
          PROVE  r \in definition.content[f]
      BY <2>2, <3>2
    <3>3. QED
      BY <3>1, <3>2
  <2>4. MaterialsOfTheTask'
    BY <1>1, <2>3 DEF MaterialsOfTheTask
  <2>5. QED
    BY <2>2, <2>4 DEF MaterialsSound
<1>6. \A e \in Editors : ~Busy(e)
  BY <1>1 DEF ProtocolIInv, EditorsSound
<1>7. FrozenIsWhole'
  BY <1>1, <1>2, <1>6 DEF FrozenIsWhole, Busy, At
<1>8. QED
  BY <1>3, <1>4, <1>5, <1>7 DEF ProtocolIInv

(* A request on the protocol begins: it is alone, or the overlap is noted.   *)
LEMMA BeginStep ==
    ASSUME ProtocolIInv, NEW e \in Editors, NEW at, NEW row,
           Become(e, at, row), Overlap(e), OnProtocol, session # "none",
           UNCHANGED <<session, snapshot, payload, materials>>,
           RequestSound([at |-> at, row |-> row]),
           at \in {"update", "add", "freeze", "control"},
           snapshot.frozen <=> at = "control"
    PROVE  ProtocolIInv'
<1>1. /\ editors' = [o \in Editors |-> editors'[o]]
      /\ editors'[e].at = at /\ editors'[e].row = row
      /\ \A o \in Editors \ {e} : editors'[o] = editors[o]
  BY Became DEF ProtocolIInv
<1>2. /\ definition' = definition /\ snapshot' = snapshot /\ materials' = materials
      /\ session' = session
  BY DEF OnProtocol
<1>3. MaterialsSound' /\ Snapshot(snapshot')
  BY <1>2 DEF ProtocolIInv, MaterialsSound, MaterialsOfTheTask, SessionSound
<1>4. session' \in {"waiting", "running", "terminated"} /\ definition.status # "absent"
  BY <1>2 DEF ProtocolIInv, SessionSound
<1>5. RequestSound(editors'[e])
  BY <1>1 DEF RequestSound
<1>6. ASSUME ~overlapped'
      PROVE  /\ \A o \in Editors \ {e} : ~Busy(o)
             /\ snapshot'.frozen => Whole(snapshot)' /\ (Busy(e)' => At(e, "control")')
             /\ At(e, "freeze_write")' => Whole(editors[e].row)'
             /\ At(e, "control")' => snapshot'.frozen
             /\ session' = "running" => snapshot'.frozen
  <2>1. ~overlapped /\ \A o \in Editors \ {e} : ~Busy(o)
    BY <1>6 DEF Overlap
  <2>2. (snapshot.frozen => Whole(snapshot)) /\ (session = "running" => snapshot.frozen)
    BY <2>1 DEF ProtocolIInv, FrozenIsWhole
  <2>3. QED
    BY <1>1, <1>2, <2>1, <2>2 DEF Whole, At
<1>7. QED
  BY <1>1, <1>3, <1>4, <1>5, <1>6, AloneStep

LEMMA BeginUpdateStep ==
    ASSUME ProtocolIInv, NEW e \in Editors, NEW f \in Fields, NEW v \in Values, BeginUpdate(e, f, v)
    PROVE  ProtocolIInv'
<1> DEFINE row == [snapshot EXCEPT !.config[f] = v]
<1>1. Snapshot(snapshot) /\ ~snapshot.frozen /\ session # "none"
  BY DEF BeginUpdate, ProtocolIInv, SessionSound
<1>2. Snapshot(row) /\ ~row.frozen
  <2>1. row = [config |-> [snapshot.config EXCEPT ![f] = v],
               checksum |-> snapshot.checksum, frozen |-> snapshot.frozen]
    BY <1>1 DEF Snapshot
  <2>2. [snapshot.config EXCEPT ![f] = v] \in Configs
    BY <1>1 DEF Snapshot, Configs
  <2>3. QED
    BY <1>1, <2>1, <2>2 DEF Snapshot
<1>3. RequestSound([at |-> "update", row |-> row])
  BY <1>2 DEF RequestSound
<1>4. QED
  BY <1>1, <1>3, BeginStep DEF BeginUpdate

LEMMA BeginAddStep ==
    ASSUME ProtocolIInv, NEW e \in Editors, NEW r \in StudyRoles, NEW u \in Uploads, BeginAdd(e, r, u)
    PROVE  ProtocolIInv'
<1>1. RequestSound([at |-> "add", row |-> [role |-> r, shows |-> {u}]])
  BY DEF RequestSound
<1>2. ~snapshot.frozen /\ session # "none"
  BY DEF BeginAdd
<1>3. QED
  BY <1>1, <1>2, BeginStep DEF BeginAdd

LEMMA BeginStartStep ==
    ASSUME ProtocolIInv, NEW e \in Editors, BeginStart(e) PROVE ProtocolIInv'
<1>1. Snapshot(snapshot) /\ session # "none"
  BY DEF BeginStart, ProtocolIInv, SessionSound
<1>2. CASE snapshot.frozen
  <2>1. RequestSound([at |-> "control", row |-> NoRow])
    BY DEF RequestSound
  <2>2. QED
    BY <1>1, <1>2, <2>1, BeginStep DEF BeginStart
<1>3. CASE ~snapshot.frozen
  <2>1. RequestSound([at |-> "freeze", row |-> snapshot])
    BY <1>1 DEF RequestSound
  <2>2. QED
    BY <1>1, <1>3, <2>1, BeginStep DEF BeginStart
<1>4. QED
  BY <1>2, <1>3

(* A request that is patching, adding or freezing goes on: unless requests   *)
(* overlapped it is alone, with a snapshot that is not frozen yet.           *)
LEMMA GoesOn ==
    ASSUME ProtocolIInv, NEW e \in Editors, Busy(e), ~At(e, "control"), OnProtocol,
           editors' = [o \in Editors |-> editors'[o]], RequestSound(editors'[e]),
           \A o \in Editors \ {e} : editors'[o] = editors[o],
           session' = session, overlapped' = overlapped,
           Snapshot(snapshot'), MaterialsSound',
           ~overlapped /\ ~snapshot.frozen =>
               /\ snapshot'.frozen => Whole(snapshot)' /\ (Busy(e)' => At(e, "control")')
               /\ At(e, "freeze_write")' => Whole(editors[e].row)'
               /\ At(e, "control")' => snapshot'.frozen
    PROVE  ProtocolIInv'
<1>1. session # "none" /\ session \in {"waiting", "running", "terminated"}
  BY DEF ProtocolIInv, EditorsSound, SessionSound
<1>2. definition.status # "absent"
  BY <1>1 DEF ProtocolIInv, SessionSound
<1>3. ~overlapped => /\ ~snapshot.frozen /\ session # "running"
                     /\ \A o \in Editors \ {e} : ~Busy(o)
  BY DEF ProtocolIInv, FrozenIsWhole
<1>4. QED
  BY <1>1, <1>2, <1>3, AloneStep

(* Materials that are not written stay sound.                                *)
LEMMA SameMaterials ==
    ASSUME ProtocolIInv, OnProtocol, session # "none", UNCHANGED materials
    PROVE  MaterialsSound'
BY DEF ProtocolIInv, MaterialsSound, MaterialsOfTheTask, OnProtocol

LEMMA UpdateChecksumStep ==
    ASSUME ProtocolIInv, NEW e \in Editors, UpdateChecksum(e) PROVE ProtocolIInv'
<1> DEFINE row == [editors[e].row EXCEPT !.checksum =
                     Checksum(editors[e].row.config, definition.content, {"roles"}, materials)]
<1>1. /\ Become(e, "update_write", row) /\ OnProtocol
      /\ UNCHANGED <<session, snapshot, payload, materials, overlapped>>
  BY DEF UpdateChecksum
<1>2. Busy(e) /\ ~At(e, "control") /\ Snapshot(editors[e].row) /\ ~editors[e].row.frozen
  BY DEF UpdateChecksum, At, Busy, ProtocolIInv, EditorsSound, RequestSound
<1>3. Snapshot(row) /\ ~row.frozen
  BY <1>2 DEF Snapshot
<1>4. session # "none" /\ Snapshot(snapshot)
  BY <1>2 DEF ProtocolIInv, EditorsSound, SessionSound
<1> HIDE DEF row
<1>6. /\ editors' = [o \in Editors |-> editors'[o]]
      /\ editors'[e].at = "update_write" /\ editors'[e].row = row
      /\ \A o \in Editors \ {e} : editors'[o] = editors[o]
  BY <1>1, Became DEF ProtocolIInv
<1>7. RequestSound(editors'[e])
  BY <1>3, <1>6 DEF RequestSound
<1>8. ~At(e, "freeze_write")' /\ ~At(e, "control")'
  BY <1>6 DEF At
<1>9. MaterialsSound'
  BY <1>1, <1>4, SameMaterials
<1>10. QED
  BY <1>1, <1>2, <1>4, <1>6, <1>7, <1>8, <1>9, GoesOn

LEMMA FreezeChecksumStep ==
    ASSUME ProtocolIInv, NEW e \in Editors, FreezeChecksum(e) PROVE ProtocolIInv'
<1> DEFINE sum == Checksum(editors[e].row.config, definition.content, {"roles", "facts"}, materials)
           row == Frozen(editors[e].row.config, sum)
<1>1. /\ Become(e, "freeze_write", row) /\ OnProtocol
      /\ UNCHANGED <<session, snapshot, payload, materials, overlapped>>
  BY DEF FreezeChecksum
<1>2. Busy(e) /\ ~At(e, "control") /\ Snapshot(editors[e].row)
  BY DEF FreezeChecksum, At, Busy, ProtocolIInv, EditorsSound, RequestSound
<1>3. Snapshot(row) /\ row.frozen /\ Whole(row)
  BY <1>2 DEF Snapshot, Whole, Frozen
<1>4. session # "none" /\ Snapshot(snapshot)
  BY <1>2 DEF ProtocolIInv, EditorsSound, SessionSound
<1> HIDE DEF row
<1>6. /\ editors' = [o \in Editors |-> editors'[o]]
      /\ editors'[e].at = "freeze_write" /\ editors'[e].row = row
      /\ \A o \in Editors \ {e} : editors'[o] = editors[o]
  BY <1>1, Became DEF ProtocolIInv
<1>7. RequestSound(editors'[e])
  BY <1>3, <1>6 DEF RequestSound
<1>8. Whole(editors[e].row)' /\ ~At(e, "control")'
  BY <1>1, <1>3, <1>6 DEF At, Whole, OnProtocol
<1>9. MaterialsSound'
  BY <1>1, <1>4, SameMaterials
<1>10. QED
  BY <1>1, <1>2, <1>4, <1>6, <1>7, <1>8, <1>9, GoesOn

LEMMA FinishUpdateStep ==
    ASSUME ProtocolIInv, NEW e \in Editors, FinishUpdate(e) PROVE ProtocolIInv'
<1>1. /\ snapshot' = editors[e].row /\ Done(e) /\ OnProtocol
      /\ UNCHANGED <<session, materials, overlapped>>
  BY DEF FinishUpdate, WriteSnapshot
<1>2. Busy(e) /\ ~At(e, "control") /\ Snapshot(editors[e].row) /\ ~editors[e].row.frozen
  BY DEF FinishUpdate, At, Busy, ProtocolIInv, EditorsSound, RequestSound
<1>3. session # "none"
  BY <1>2 DEF ProtocolIInv, EditorsSound
<1>4. /\ editors' = [o \in Editors |-> editors'[o]] /\ editors'[e].at = "idle"
      /\ \A o \in Editors \ {e} : editors'[o] = editors[o]
  BY <1>1, IsDone DEF ProtocolIInv
<1>5. RequestSound(editors'[e])
  BY <1>4 DEF RequestSound
<1>6. ~At(e, "freeze_write")' /\ ~At(e, "control")'
  BY <1>4 DEF At
<1>7. MaterialsSound'
  BY <1>1, <1>3, SameMaterials
<1>8. QED
  BY <1>1, <1>2, <1>4, <1>5, <1>6, <1>7, GoesOn

(* An upload shows no fact of the task.                                      *)
LEMMA FinishAddStep ==
    ASSUME ProtocolIInv, NEW e \in Editors, FinishAdd(e) PROVE ProtocolIInv'
<1>1. /\ materials' = materials \cup {editors[e].row} /\ Done(e) /\ OnProtocol
      /\ UNCHANGED <<session, snapshot, payload, overlapped>>
  BY DEF FinishAdd
<1>2. /\ Busy(e) /\ ~At(e, "control")
      /\ editors[e].row.role \in StudyRoles /\ editors[e].row.shows \subseteq Uploads
  BY DEF FinishAdd, At, Busy, ProtocolIInv, EditorsSound, RequestSound
<1>3. session # "none" /\ Snapshot(snapshot)
  BY <1>2 DEF ProtocolIInv, EditorsSound, SessionSound
<1>4. /\ editors' = [o \in Editors |-> editors'[o]] /\ editors'[e].at = "idle"
      /\ \A o \in Editors \ {e} : editors'[o] = editors[o]
  BY <1>1, IsDone DEF ProtocolIInv
<1>5. RequestSound(editors'[e])
  BY <1>4 DEF RequestSound
<1>6. ~At(e, "freeze_write")' /\ ~At(e, "control")' /\ ~Busy(e)'
  BY <1>4 DEF At, Busy
<1>7. MaterialsSound'
  <2>1. definition' = definition
    BY <1>1 DEF OnProtocol
  <2>2. \A f \in Facts : f \notin editors[e].row.shows
    BY <1>2, ProtocolAssumption
  <2>3. \A r \in StudyRoles, f \in Facts :
            (\E m \in materials' : m.role = r /\ f \in m.shows)
                <=> \E m \in materials : m.role = r /\ f \in m.shows
    BY <1>1, <2>2
  <2>4. MaterialsOfTheTask'
    BY <1>3, <2>1, <2>3 DEF ProtocolIInv, MaterialsSound, MaterialsOfTheTask
  <2>5. QED
    BY <1>1, <1>2, <2>4 DEF ProtocolIInv, MaterialsSound
<1>8. ~overlapped /\ ~snapshot.frozen => ~snapshot'.frozen
  BY <1>1
<1>9. QED
  BY <1>1, <1>2, <1>3, <1>4, <1>5, <1>6, <1>7, <1>8, GoesOn

LEMMA WriteFrozenStep ==
    ASSUME ProtocolIInv, NEW e \in Editors, WriteFrozen(e) PROVE ProtocolIInv'
<1>1. /\ snapshot' = editors[e].row /\ Become(e, "control", NoRow) /\ OnProtocol
      /\ UNCHANGED <<session, materials, overlapped>> /\ At(e, "freeze_write")
  BY DEF WriteFrozen, WriteSnapshot
<1>2. Busy(e) /\ ~At(e, "control") /\ Snapshot(editors[e].row) /\ editors[e].row.frozen
  BY <1>1 DEF At, Busy, ProtocolIInv, EditorsSound, RequestSound
<1>3. session # "none"
  BY <1>2 DEF ProtocolIInv, EditorsSound
<1>4. /\ editors' = [o \in Editors |-> editors'[o]] /\ editors'[e].at = "control"
      /\ \A o \in Editors \ {e} : editors'[o] = editors[o]
  BY <1>1, Became DEF ProtocolIInv
<1>5. RequestSound(editors'[e])
  BY <1>4 DEF RequestSound
<1>6. ~At(e, "freeze_write")' /\ At(e, "control")'
  BY <1>4 DEF At
<1>7. ~overlapped => Whole(snapshot)'
  BY <1>1 DEF ProtocolIInv, FrozenIsWhole, Whole, OnProtocol
<1>8. MaterialsSound'
  BY <1>1, <1>3, SameMaterials
<1>9. QED
  BY <1>1, <1>2, <1>4, <1>5, <1>6, <1>7, <1>8, GoesOn

LEMMA ControlStep ==
    ASSUME ProtocolIInv, NEW e \in Editors, Control(e) PROVE ProtocolIInv'
<1>1. /\ At(e, "control") /\ Done(e) /\ OnProtocol
      /\ UNCHANGED <<snapshot, payload, materials, overlapped>>
      /\ session' = IF session = "waiting" THEN "running" ELSE session
  BY DEF Control
<1>2. Busy(e)
  BY <1>1 DEF At, Busy
<1>3. /\ session # "none" /\ session' \in {"waiting", "running", "terminated"}
      /\ Snapshot(snapshot)
  BY <1>1, <1>2 DEF ProtocolIInv, EditorsSound, SessionSound
<1>4. /\ editors' = [o \in Editors |-> editors'[o]] /\ editors'[e].at = "idle"
      /\ \A o \in Editors \ {e} : editors'[o] = editors[o]
  BY <1>1, IsDone DEF ProtocolIInv
<1>5. RequestSound(editors'[e])
  BY <1>4 DEF RequestSound
<1>6. ~At(e, "freeze_write")' /\ ~At(e, "control")' /\ ~Busy(e)'
  BY <1>4 DEF At, Busy
<1>7. ~overlapped => snapshot.frozen /\ Whole(snapshot)' /\ \A o \in Editors \ {e} : ~Busy(o)
  BY <1>1, <1>2 DEF ProtocolIInv, FrozenIsWhole, Whole, OnProtocol
<1>8. MaterialsSound'
  BY <1>1, <1>3, SameMaterials
<1>9. QED
  BY <1>1, <1>3, <1>4, <1>5, <1>6, <1>7, <1>8, AloneStep

(* A termination, or nothing at all.                                         *)
LEMMA SessionOnlyStep ==
    ASSUME ProtocolIInv, OnProtocol, UNCHANGED <<snapshot, payload, materials, editors, overlapped>>,
           session' = session \/ (session # "none" /\ session' = "terminated")
    PROVE  ProtocolIInv'
<1>1. UNCHANGED <<definition, reviewed, snapshot, payload, materials, editors, overlapped>>
  BY DEF OnProtocol
<1>2. DefinitionSound' /\ ValidatedAsRead'
  BY <1>1 DEF ProtocolIInv, DefinitionSound, ValidatedAsRead
<1>3. SessionSound'
  BY <1>1 DEF ProtocolIInv, SessionSound
<1>4. EditorsSound'
  BY <1>1 DEF ProtocolIInv, EditorsSound, Busy
<1>5. MaterialsSound'
  BY <1>1 DEF ProtocolIInv, MaterialsSound, MaterialsOfTheTask
<1>6. FrozenIsWhole'
  BY <1>1 DEF ProtocolIInv, FrozenIsWhole, Whole, Busy, At
<1>7. QED
  BY <1>2, <1>3, <1>4, <1>5, <1>6 DEF ProtocolIInv

LEMMA ProtocolNextInvariant == ProtocolIInv /\ [ProtocolNext]_protocolVars => ProtocolIInv'
<1> SUFFICES ASSUME ProtocolIInv, [ProtocolNext]_protocolVars PROVE ProtocolIInv'
  OBVIOUS
<1>1. CASE \E t \in Tasks : CreateDefinition(t)
  BY <1>1, CreateDefinitionStep
<1>2. CASE \E c \in Configs : CreateSession(c)
  BY <1>2, CreateSessionStep
<1>3. CASE Terminate
  BY <1>3, SessionOnlyStep DEF Terminate
<1>4. ASSUME NEW e \in Editors,
             (\E t \in Tasks : BeginReplace(e, t)) \/ BeginValidate(e)
      PROVE  ProtocolIInv'
  BY <1>4, BeginTaskStep
<1>5. ASSUME NEW e \in Editors, FinishReplace(e) \/ FinishValidate(e) \/ LoseRequest(e)
      PROVE  ProtocolIInv'
  BY <1>5, EndTaskStep
<1>6. ASSUME NEW e \in Editors, \E f \in Fields, v \in Values : BeginUpdate(e, f, v)
      PROVE  ProtocolIInv'
  BY <1>6, BeginUpdateStep
<1>7. ASSUME NEW e \in Editors, \E r \in StudyRoles, u \in Uploads : BeginAdd(e, r, u)
      PROVE  ProtocolIInv'
  BY <1>7, BeginAddStep
<1>8. ASSUME NEW e \in Editors,
             \/ UpdateChecksum(e) \/ FinishUpdate(e) \/ FinishAdd(e) \/ BeginStart(e)
             \/ FreezeChecksum(e) \/ WriteFrozen(e) \/ Control(e)
      PROVE  ProtocolIInv'
  BY <1>8, UpdateChecksumStep, FinishUpdateStep, FinishAddStep, BeginStartStep,
     FreezeChecksumStep, WriteFrozenStep, ControlStep
<1>9. CASE UNCHANGED protocolVars
  BY <1>9, SessionOnlyStep DEF protocolVars, OnProtocol
<1>10. QED
  BY <1>1, <1>2, <1>3, <1>4, <1>5, <1>6, <1>7, <1>8, <1>9 DEF ProtocolNext

LEMMA ProtocolInvariantSuffices == ProtocolIInv => ProtocolIsWhole
<1> SUFFICES ASSUME ProtocolIInv PROVE ProtocolIsWhole
  OBVIOUS
<1>1. ProtocolTypeOK
  <2>1. /\ definition.status \in {"absent", "draft", "validated"}
        /\ definition.status # "absent" => definition.content \in Tasks
    BY DEF ProtocolIInv, DefinitionSound
  <2>2. /\ session \in {"none", "waiting", "running", "terminated"}
        /\ session # "none" => snapshot.config \in Configs /\ snapshot.frozen \in BOOLEAN
    BY DEF ProtocolIInv, SessionSound, Snapshot
  <2>3. \A e \in Editors : editors[e].at \in {"idle", "replace", "validate"} \/ Busy(e)
    BY DEF ProtocolIInv, EditorsSound, RequestSound, Busy
  <2>4. QED
    BY <2>1, <2>2, <2>3 DEF ProtocolTypeOK, ProtocolIInv, MaterialsSound
<1>2. WholeWithoutOverlap
  BY DEF ProtocolIInv, FrozenIsWhole, Whole, WholeWithoutOverlap
<1>3. QED
  BY <1>1, <1>2 DEF ProtocolIInv, MaterialsSound, ProtocolIsWhole

(* The protocol a Session is run with fits together, however the requests of *)
(* the researchers interleave and whichever of them die half way: the task   *)
(* is the one that was checked, each role is shown exactly its facts, and    *)
(* without an overlap the checksum of a running Session covers everything.   *)
THEOREM ProtocolSound == ProtocolSpec => []ProtocolIsWhole
<1>1. ProtocolIInv => ProtocolIsWhole
  BY ProtocolInvariantSuffices
<1>2. QED
  BY ProtocolInitInvariant, ProtocolNextInvariant, <1>1, PTL DEF ProtocolSpec

-----------------------------------------------------------------------------
(* Only a validation or a replacement writes the task definition.            *)
LEMMA ValidatedStays ==
    ASSUME ProtocolIInv, [ProtocolNext]_protocolVars, definition.status = "validated"
    PROVE  definition' = definition
<1>1. ASSUME NEW e \in Editors, FinishReplace(e) \/ FinishValidate(e) \/ LoseRequest(e)
      PROVE  definition' = definition
  BY <1>1, EndTaskStep
<1>2. ASSUME NEW t \in Tasks, CreateDefinition(t) PROVE definition' = definition
  BY <1>2 DEF CreateDefinition
<1>3. QED
  BY <1>1, <1>2 DEF ProtocolNext, protocolVars, CreateSession, Terminate, BeginReplace,
     BeginValidate, BeginUpdate, UpdateChecksum, FinishUpdate, BeginAdd, FinishAdd, BeginStart,
     FreezeChecksum, WriteFrozen, Control, OnProtocol

(* Only an update or a freeze writes the snapshot of a Session that exists.  *)
LEMMA ThawsWhenStale ==
    ASSUME ProtocolIInv, [ProtocolNext]_protocolVars, snapshot.frozen, snapshot' # snapshot
    PROVE  \E e \in Editors : At(e, "freeze_write")
                              \/ (At(e, "update_write") /\ ~editors[e].row.frozen)
<1>1. session # "none"
  BY DEF ProtocolIInv, SessionSound
<1>2. \E e \in Editors : FinishUpdate(e) \/ WriteFrozen(e)
  BY <1>1 DEF ProtocolNext, protocolVars, CreateDefinition, CreateSession, Terminate, BeginReplace,
     FinishReplace, BeginValidate, FinishValidate, BeginUpdate, UpdateChecksum, BeginAdd,
     FinishAdd, BeginStart, FreezeChecksum, Control, LoseRequest, OnTask
<1>3. PICK e \in Editors : FinishUpdate(e) \/ WriteFrozen(e)
  BY <1>2
<1>4. At(e, "freeze_write") \/ At(e, "update_write")
  BY <1>3 DEF FinishUpdate, WriteFrozen
<1>5. At(e, "update_write") => ~editors[e].row.frozen
  BY DEF At, ProtocolIInv, EditorsSound, RequestSound
<1>6. QED
  BY <1>4, <1>5

(* What was fixed stays fixed: no replacement that was on its way changes a  *)
(* validated task, and only a request that read the snapshot before it was   *)
(* frozen changes a frozen one.                                              *)
THEOREM ProtocolFixed == ProtocolSpec => FixedStaysFixed
<1>1. ProtocolIInv /\ [ProtocolNext]_protocolVars =>
          [definition.status = "validated" => UNCHANGED definition]_protocolVars
  BY ValidatedStays
<1>2. ProtocolIInv /\ [ProtocolNext]_protocolVars =>
          [snapshot.frozen /\ snapshot' # snapshot =>
              \E e \in Editors : At(e, "freeze_write")
                  \/ (At(e, "update_write") /\ ~editors[e].row.frozen)]_protocolVars
  BY ThawsWhenStale
<1>3. QED
  BY ProtocolInitInvariant, ProtocolNextInvariant, <1>1, <1>2, PTL
     DEF ProtocolSpec, FixedStaysFixed, ValidatedIsFinal, OnlyStaleRequestsThaw

-----------------------------------------------------------------------------
(* Induction over the numbers, from the theorem that they are well-founded.  *)
Below == {ss \in Nat \X Nat : ss[1] < ss[2]}
LEMMA BelowFounded == IsWellFoundedOn(Below, Nat)
BY NatLessThanWellFounded DEF OpToRel, Below

LEMMA SetInduction ==
    ASSUME NEW S, 0 \in S, \A n \in Nat : n \in S => n + 1 \in S
    PROVE  Nat \subseteq S
<1> DEFINE T == Nat \ S
<1> SUFFICES ASSUME T # {} PROVE FALSE
  OBVIOUS
<1>1. PICK x \in T : \A y \in T : ~(<<y, x>> \in Below)
  <2> T \subseteq Nat
    OBVIOUS
  <2> HIDE DEF T
  <2> QED BY WFMin, BelowFounded
<1>2. \A y \in T : ~(y < x)
  BY <1>1 DEF Below
<1>3. x # 0 /\ x - 1 \in Nat /\ x - 1 < x
  OBVIOUS
<1>4. x - 1 \in S
  BY <1>2, <1>3
<1> QED BY <1>3, <1>4

-----------------------------------------------------------------------------
(* ReviewTelemetry, for any visits, events, requests and length of a visit.  *)

Clocks(t) == [visible : BOOLEAN, focused : BOOLEAN, last : {Never} \cup (0..t), active : Nat]
Kinds == PageKinds \cup {"enter", "leave"}
Happened(t, n) == [no : 1..n, kind : Kinds, at : 0..t]

TelemetryTypes ==
    /\ now \in Nat /\ attentive \in Nat /\ page \in Visits \cup {NoVisit} /\ crossed \subseteq Visits
    /\ sent \in [Visits -> 0..MaxEvents]
    /\ tab \in [Visits -> Clocks(now)]
    /\ visit \in [Visits -> [count : Clocks(now), seen : SUBSET Nat]]
    /\ DOMAIN pending = Visits
    /\ \A v \in Visits : pending[v] \subseteq Happened(now, sent[v]) /\ visit[v].seen \subseteq 1..sent[v]
    /\ \A f \in flights :
        /\ f \in [visit : Visits, events : SUBSET Happened(now, MaxEvents), served : BOOLEAN]
        /\ f.events \subseteq Happened(now, sent[f.visit])

(* The numbers of a visit are those A has seen and those of a batch, and     *)
(* with the batch A counts what the browser does.                            *)
Complete(v, events) ==
    /\ 1..sent[v] = visit[v].seen \cup Numbers(events)
    /\ AfterBatch(visit[v], events).count = tab[v]

(* One request at a time: what waits is in the request, if there is one.     *)
InTurn(v) ==
    /\ \A f, g \in flights : f.visit = v /\ g.visit = v => f = g
    /\ (\A f \in flights : f.visit # v) => Complete(v, pending[v])
    /\ \A f \in flights : f.visit = v =>
        /\ pending[v] \subseteq f.events /\ Complete(v, f.events)
        /\ f.served => Numbers(f.events) \subseteq visit[v].seen

(* The browser counts attention, and only of the page on the screen.         *)
Watched(r, t, most) ==
    /\ r.active <= most
    /\ r.visible /\ r.focused /\ r.last # Never => r.active + (t - r.last) <= most
Attention ==
    \A v \in Visits :
        /\ Watched(tab[v], now, attentive)
        /\ v # page => ~tab[v].visible /\ ~tab[v].focused

TelemetryInv == TelemetryTypes /\ Attention /\ \A v \in Visits \ crossed : InTurn(v)

-----------------------------------------------------------------------------
(* What a batch does, event by event.                                        *)
Due(events, k) == {e \in events : e.no = k}
Trace(g, r, events, n) ==
    g = [k \in 0..n |-> IF k = 0 THEN r ELSE ByEvent(g[k - 1], Due(events, k))]

LEMMA InOrderIs ==
    ASSUME NEW r, NEW events
    PROVE  InOrder(r, events) = (CHOOSE g : Trace(g, r, events, MaxEvents))[MaxEvents]
BY DEF InOrder, Trace, Due

LEMMA TraceSteps ==
    ASSUME NEW n \in Nat, NEW g, NEW r, NEW events, Trace(g, r, events, n)
    PROVE  /\ DOMAIN g = 0..n /\ g[0] = r
           /\ \A k \in Nat : k + 1 \in 0..n => g[k + 1] = ByEvent(g[k], Due(events, k + 1))
<1>1. g = [k \in 0..n |-> IF k = 0 THEN r ELSE ByEvent(g[k - 1], Due(events, k))]
  BY DEF Trace
<1>2. \A k \in Nat : k + 1 # 0 /\ (k + 1) - 1 = k
  OBVIOUS
<1>3. 0 \in 0..n
  OBVIOUS
<1>4. DOMAIN g = 0..n /\ g[0] = r
  BY <1>1, <1>3
<1>5. ASSUME NEW k \in Nat, k + 1 \in 0..n PROVE g[k + 1] = ByEvent(g[k], Due(events, k + 1))
  <2>1. g[k + 1] = IF k + 1 = 0 THEN r ELSE ByEvent(g[(k + 1) - 1], Due(events, k + 1))
    BY <1>1, <1>5
  <2> QED BY <1>2, <2>1
<1> QED BY <1>4, <1>5

LEMMA TraceExists ==
    ASSUME NEW r, NEW events, NEW m \in Nat
    PROVE  \E g : Trace(g, r, events, m)
<1> DEFINE D == {n \in Nat : \E g : Trace(g, r, events, n)}
<1>1. 0 \in D
  <2> DEFINE g == [k \in 0..0 |-> r]
  <2>1. \A k \in 0..0 : k = 0
    OBVIOUS
  <2>2. Trace(g, r, events, 0)
    BY <2>1 DEF Trace
  <2> HIDE DEF g
  <2> QED BY <2>2
<1>2. ASSUME NEW n \in Nat, n \in D PROVE n + 1 \in D
  <2>1. PICK g : Trace(g, r, events, n)
    BY <1>2
  <2> DEFINE h == [k \in 0..(n + 1) |-> IF k = 0 THEN r ELSE ByEvent(g[k - 1], Due(events, k))]
  <2>2. \A k \in 0..n : k \in 0..(n + 1)
    OBVIOUS
  <2>3. \A k \in 0..(n + 1) : k # 0 => k - 1 \in 0..n
    OBVIOUS
  <2>4. \A k \in 0..n : h[k] = g[k]
    <3> SUFFICES ASSUME NEW k \in 0..n PROVE h[k] = g[k]
      OBVIOUS
    <3>1. g[k] = IF k = 0 THEN r ELSE ByEvent(g[k - 1], Due(events, k))
      BY <2>1 DEF Trace
    <3> QED BY <2>2, <3>1
  <2>5. Trace(h, r, events, n + 1)
    <3>1. \A k \in 0..(n + 1) : k # 0 => h[k - 1] = g[k - 1]
      BY <2>3, <2>4
    <3>2. h = [k \in 0..(n + 1) |-> IF k = 0 THEN r ELSE ByEvent(g[k - 1], Due(events, k))]
      OBVIOUS
    <3> HIDE DEF h
    <3>3. h = [k \in 0..(n + 1) |-> IF k = 0 THEN r ELSE ByEvent(h[k - 1], Due(events, k))]
      BY <3>1, <3>2
    <3> QED BY <3>3 DEF Trace
  <2> HIDE DEF h
  <2> QED BY <2>5
<1>3. Nat \subseteq D
  <2> HIDE DEF D
  <2> QED BY <1>1, <1>2, SetInduction
<1> QED BY <1>3

LEMMA Bounded == MaxEvents \in Nat /\ MaxGap \in Nat
BY TelemetryAssumption

LEMMA TraceOf ==
    ASSUME NEW r, NEW events
    PROVE  \E g : Trace(g, r, events, MaxEvents) /\ InOrder(r, events) = g[MaxEvents]
<1> DEFINE h == CHOOSE g : Trace(g, r, events, MaxEvents)
<1>1. \E g : Trace(g, r, events, MaxEvents)
  BY Bounded, TraceExists
<1>2. Trace(h, r, events, MaxEvents)
  BY <1>1
<1>3. InOrder(r, events) = h[MaxEvents]
  BY InOrderIs
<1> HIDE DEF h
<1> QED BY <1>2, <1>3

\* What every event keeps a batch keeps.
LEMMA BatchKeeps ==
    ASSUME NEW S, NEW r \in S, NEW events,
           \A x \in S : \A k \in 1..MaxEvents : ByEvent(x, Due(events, k)) \in S
    PROVE  InOrder(r, events) \in S
<1>1. PICK g : Trace(g, r, events, MaxEvents) /\ InOrder(r, events) = g[MaxEvents]
  BY TraceOf
<1>2. /\ g[0] = r
      /\ \A k \in Nat : k + 1 \in 0..MaxEvents => g[k + 1] = ByEvent(g[k], Due(events, k + 1))
  BY <1>1, Bounded, TraceSteps
<1> DEFINE D == {k \in Nat : k <= MaxEvents => g[k] \in S}
<1>3. 0 \in D
  BY <1>2
<1>4. ASSUME NEW k \in Nat, k \in D PROVE k + 1 \in D
  <2> SUFFICES ASSUME k + 1 <= MaxEvents PROVE g[k + 1] \in S
    OBVIOUS
  <2>1. k <= MaxEvents /\ k + 1 \in 0..MaxEvents /\ k + 1 \in 1..MaxEvents
    BY Bounded
  <2>2. g[k] \in S
    BY <1>4, <2>1
  <2> QED BY <1>2, <2>1, <2>2
<1>5. Nat \subseteq D
  <2> HIDE DEF D
  <2> QED BY <1>3, <1>4, SetInduction
<1>6. MaxEvents \in D /\ MaxEvents <= MaxEvents
  BY <1>5, Bounded
<1> QED BY <1>1, <1>6

\* A batch without events changes nothing.
LEMMA NoEvents == ASSUME NEW r PROVE InOrder(r, {}) = r
<1>1. \A x \in {r} : \A k \in 1..MaxEvents : ByEvent(x, Due({}, k)) \in {r}
  BY DEF ByEvent, Due
<1> QED BY <1>1, BatchKeeps

\* A later event is applied last.
LEMMA OneMore ==
    ASSUME NEW r, NEW events, NEW n \in Nat, n + 1 <= MaxEvents, \A e \in events : e.no \in 1..n,
           NEW e, e.no = n + 1
    PROVE  InOrder(r, events \cup {e}) = AfterEvent(InOrder(r, events), e.kind, e.at)
<1> DEFINE more == events \cup {e}
<1>b. MaxEvents \in Nat
  BY Bounded
<1>1. PICK g : Trace(g, r, events, MaxEvents) /\ InOrder(r, events) = g[MaxEvents]
  BY TraceOf
<1>2. PICK h : Trace(h, r, more, MaxEvents) /\ InOrder(r, more) = h[MaxEvents]
  BY TraceOf
<1>3. /\ g[0] = r
      /\ \A k \in Nat : k + 1 \in 0..MaxEvents => g[k + 1] = ByEvent(g[k], Due(events, k + 1))
  BY <1>1, Bounded, TraceSteps
<1>4. /\ h[0] = r
      /\ \A k \in Nat : k + 1 \in 0..MaxEvents => h[k + 1] = ByEvent(h[k], Due(more, k + 1))
  <2> HIDE DEF more
  <2> QED BY <1>2, Bounded, TraceSteps
<1>5. \A k \in Nat : k # n + 1 => Due(more, k) = Due(events, k)
  BY DEF Due
<1>6. Due(more, n + 1) = {e}
  BY DEF Due
<1>7. \A k \in Nat : k > n => Due(events, k) = {}
  BY DEF Due
<1>8. \A x : ByEvent(x, {}) = x
  BY DEF ByEvent
<1>9. ByEvent(h[n], {e}) = AfterEvent(h[n], e.kind, e.at)
  <2>1. (CHOOSE x \in {e} : TRUE) = e
    OBVIOUS
  <2> HIDE DEF more
  <2> QED BY <2>1 DEF ByEvent
<1> HIDE DEF more
<1> DEFINE D == {k \in Nat : k <= MaxEvents =>
                   IF k <= n THEN h[k] = g[k] ELSE g[k] = g[n] /\ h[k] = AfterEvent(h[n], e.kind, e.at)}
<1>10. 0 \in D
  BY <1>3, <1>4
<1>11. ASSUME NEW k \in Nat, k \in D PROVE k + 1 \in D
  <2> SUFFICES ASSUME k + 1 <= MaxEvents
               PROVE  IF k + 1 <= n THEN h[k + 1] = g[k + 1]
                      ELSE g[k + 1] = g[n] /\ h[k + 1] = AfterEvent(h[n], e.kind, e.at)
    OBVIOUS
  <2>1. k <= MaxEvents /\ k + 1 \in 0..MaxEvents /\ k + 1 \in Nat
    BY <1>b
  <2>2. IF k <= n THEN h[k] = g[k] ELSE g[k] = g[n] /\ h[k] = AfterEvent(h[n], e.kind, e.at)
    BY <1>11, <2>1
  <2>3. /\ g[k + 1] = ByEvent(g[k], Due(events, k + 1))
        /\ h[k + 1] = ByEvent(h[k], Due(more, k + 1))
    BY <1>3, <1>4, <2>1
  <2>4. CASE k + 1 <= n
    <3>1. k <= n /\ k + 1 # n + 1
      BY <2>4
    <3> QED BY <1>5, <2>1, <2>2, <2>3, <2>4, <3>1
  <2>5. CASE k = n
    <3>1. ~(k + 1 <= n) /\ k + 1 > n
      BY <2>5
    <3>2. g[k + 1] = g[n]
      BY <1>7, <1>8, <2>1, <2>3, <2>5, <3>1
    <3>3. h[k + 1] = AfterEvent(h[n], e.kind, e.at)
      BY <1>6, <1>9, <2>3, <2>5
    <3> QED BY <3>1, <3>2, <3>3
  <2>6. CASE k > n
    <3>1. ~(k + 1 <= n) /\ k + 1 > n /\ k + 1 # n + 1 /\ ~(k <= n)
      BY <2>6
    <3>2. g[k + 1] = g[k] /\ h[k + 1] = h[k]
      BY <1>5, <1>7, <1>8, <2>1, <2>3, <3>1
    <3> QED BY <2>2, <3>1, <3>2
  <2>7. k + 1 <= n \/ k = n \/ k > n
    OBVIOUS
  <2> QED BY <2>4, <2>5, <2>6, <2>7
<1>12. Nat \subseteq D
  <2> HIDE DEF D
  <2> QED BY <1>10, <1>11, SetInduction
<1>13. n \in D /\ MaxEvents \in D /\ n <= MaxEvents /\ n <= n /\ ~(MaxEvents <= n) /\ MaxEvents <= MaxEvents
  BY <1>12, <1>b
<1>14. h[n] = g[n] /\ g[MaxEvents] = g[n] /\ h[MaxEvents] = AfterEvent(h[n], e.kind, e.at)
  BY <1>13
<1> QED BY <1>1, <1>2, <1>14 DEF more

-----------------------------------------------------------------------------
(* What one event does.                                                      *)
LEMMA EventTypes ==
    ASSUME NEW t \in Nat, NEW r \in Clocks(t), NEW kind, NEW at \in 0..t
    PROVE  AfterEvent(r, kind, at) \in Clocks(t) /\ AfterEvent(r, kind, at).active >= r.active
<1> DEFINE s == AfterEvent(r, kind, at)
<1>0. /\ r.visible \in BOOLEAN /\ r.focused \in BOOLEAN /\ r.last \in {Never} \cup (0..t) /\ r.active \in Nat
      /\ r = [visible |-> r.visible, focused |-> r.focused, last |-> r.last, active |-> r.active]
      /\ at \in {Never} \cup (0..t) /\ Never \in {Never} \cup (0..t)
  BY DEF Clocks
<1>1. CASE kind = "enter"
  <2>1. s = [r EXCEPT !.visible = TRUE, !.focused = TRUE, !.last = at]
    BY <1>1 DEF AfterEvent
  <2> HIDE DEF s
  <2>2. s = [visible |-> TRUE, focused |-> TRUE, last |-> at, active |-> r.active]
    BY <1>0, <2>1
  <2>3. s \in Clocks(t) /\ s.active = r.active
    BY <1>0, <2>2 DEF Clocks
  <2> QED BY <1>0, <2>3 DEF s
<1>2. CASE kind = "leave"
  <2>1. s = [r EXCEPT !.visible = FALSE, !.focused = FALSE, !.last = Never]
    BY <1>2 DEF AfterEvent
  <2> HIDE DEF s
  <2>2. s = [visible |-> FALSE, focused |-> FALSE, last |-> Never, active |-> r.active]
    BY <1>0, <2>1
  <2>3. s \in Clocks(t) /\ s.active = r.active
    BY <1>0, <2>2 DEF Clocks
  <2> QED BY <1>0, <2>3 DEF s
<1>3. CASE kind \in {"visible", "hidden"}
  <2>1. s = [r EXCEPT !.visible = (kind = "visible"), !.last = IF kind = "visible" THEN at ELSE Never]
    BY <1>3 DEF AfterEvent
  <2> HIDE DEF s
  <2>2. s = [visible |-> (kind = "visible"), focused |-> r.focused, last |-> IF kind = "visible" THEN at ELSE Never, active |-> r.active]
    BY <1>0, <2>1
  <2>3. s \in Clocks(t) /\ s.active = r.active
    BY <1>0, <2>2 DEF Clocks
  <2> QED BY <1>0, <2>3 DEF s
<1>4. CASE kind \in {"focus", "blur"}
  <2>1. s = [r EXCEPT !.focused = (kind = "focus"), !.last = IF kind = "focus" THEN at ELSE Never]
    BY <1>4 DEF AfterEvent
  <2> HIDE DEF s
  <2>2. s = [visible |-> r.visible, focused |-> (kind = "focus"), last |-> IF kind = "focus" THEN at ELSE Never, active |-> r.active]
    BY <1>0, <2>1
  <2>3. s \in Clocks(t) /\ s.active = r.active
    BY <1>0, <2>2 DEF Clocks
  <2> QED BY <1>0, <2>3 DEF s
<1>5. CASE kind = "heartbeat"
  <2> DEFINE gap == IF at > r.last THEN at - r.last ELSE 0
             more == IF (r.visible /\ r.focused /\ r.last # Never) /\ gap <= MaxGap THEN gap ELSE 0
  <2>1. s = [r EXCEPT !.active = @ + more, !.last = IF r.visible /\ r.focused THEN at ELSE Never]
    BY <1>5 DEF AfterEvent
  <2>2. more \in Nat
    <3>1. at \in Int /\ r.last \in Int
      BY <1>0 DEF Never
    <3>2. gap \in Nat
      BY <3>1
    <3> HIDE DEF gap
    <3> QED BY <3>2
  <2> HIDE DEF s, more
  <2> DEFINE stamp == IF r.visible /\ r.focused THEN at ELSE Never
  <2>4. stamp \in {Never} \cup (0..t) /\ r.active + more \in Nat
    BY <1>0, <2>2
  <2>5. s = [r EXCEPT !.active = @ + more, !.last = stamp]
    BY <2>1
  <2> HIDE DEF stamp
  <2>6. s = [visible |-> r.visible, focused |-> r.focused, last |-> stamp, active |-> r.active + more]
    BY <1>0, <2>5
  <2>3. s.active = r.active + more /\ s \in Clocks(t)
    BY <1>0, <2>4, <2>6 DEF Clocks
  <2> QED BY <1>0, <2>2, <2>3 DEF s
<1>6. CASE kind \notin {"enter", "leave", "visible", "hidden", "focus", "blur", "heartbeat"}
  <2>1. s = r
    BY <1>6 DEF AfterEvent
  <2> HIDE DEF s
  <2> QED BY <1>0, <2>1 DEF Clocks, s
<1> QED BY <1>1, <1>2, <1>3, <1>4, <1>5, <1>6

\* The browser applies an event when it happens: no time is counted in which
\* nobody looked.
LEMMA EventWatched ==
    ASSUME NEW t \in Nat, NEW r \in Clocks(t), NEW most \in Nat, Watched(r, t, most), NEW kind
    PROVE  Watched(AfterEvent(r, kind, t), t, most)
<1> DEFINE s == AfterEvent(r, kind, t)
<1>0. /\ r.last \in {Never} \cup (0..t) /\ r.active \in Nat /\ r.active <= most
      /\ r.active + (t - t) <= most
      /\ r.visible /\ r.focused /\ r.last # Never => r.active + (t - r.last) <= most
      /\ DOMAIN r = {"visible", "focused", "last", "active"}
  BY DEF Clocks, Watched
<1>1. CASE kind = "enter"
  <2>1. s = [r EXCEPT !.visible = TRUE, !.focused = TRUE, !.last = t]
    BY <1>1 DEF AfterEvent
  <2> HIDE DEF s
  <2>2. s.active = r.active /\ s.last = t
    BY <1>0, <2>1
  <2> QED BY <1>0, <2>2 DEF Watched, s
<1>2. CASE kind = "leave"
  <2>1. s = [r EXCEPT !.visible = FALSE, !.focused = FALSE, !.last = Never]
    BY <1>2 DEF AfterEvent
  <2> HIDE DEF s
  <2>2. s.active = r.active /\ s.last = Never
    BY <1>0, <2>1
  <2> QED BY <1>0, <2>2 DEF Watched, s
<1>3. CASE kind \in {"visible", "hidden"}
  <2>1. s = [r EXCEPT !.visible = (kind = "visible"), !.last = IF kind = "visible" THEN t ELSE Never]
    BY <1>3 DEF AfterEvent
  <2> HIDE DEF s
  <2>2. s.active = r.active /\ s.last \in {t, Never}
    BY <1>0, <2>1
  <2> QED BY <1>0, <2>2 DEF Watched, s
<1>4. CASE kind \in {"focus", "blur"}
  <2>1. s = [r EXCEPT !.focused = (kind = "focus"), !.last = IF kind = "focus" THEN t ELSE Never]
    BY <1>4 DEF AfterEvent
  <2> HIDE DEF s
  <2>2. s.active = r.active /\ s.last \in {t, Never}
    BY <1>0, <2>1
  <2> QED BY <1>0, <2>2 DEF Watched, s
<1>5. CASE kind = "heartbeat"
  <2> DEFINE on == r.visible /\ r.focused
             gap == IF t > r.last THEN t - r.last ELSE 0
             more == IF (r.visible /\ r.focused /\ r.last # Never) /\ gap <= MaxGap THEN gap ELSE 0
  <2>1. s = [r EXCEPT !.active = @ + more, !.last = IF r.visible /\ r.focused THEN t ELSE Never]
    BY <1>5 DEF AfterEvent
  <2>2. r.active + more <= most /\ more \in Int
    <3>1. CASE r.visible /\ r.focused /\ r.last # Never
      <4>1. r.last \in 0..t /\ r.active + (t - r.last) <= most
        BY <1>0, <3>1
      <4>2. gap = t - r.last /\ gap \in Int
        BY <4>1
      <4> HIDE DEF gap
      <4>3. r.active + gap <= most /\ r.active + 0 <= most
        BY <1>0, <4>1, <4>2
      <4> QED BY <4>2, <4>3
    <3>2. CASE ~(r.visible /\ r.focused /\ r.last # Never)
      <4>1. more = 0
        BY <3>2
      <4> QED BY <1>0, <4>1
    <3> QED BY <3>1, <3>2
  <2> HIDE DEF s, more
  <2>3. s.active = r.active + more /\ s.last \in {t, Never}
    BY <1>0, <2>1
  <2>4. s.active + (t - t) <= most
    BY <1>0, <2>2, <2>3
  <2> QED BY <1>0, <2>2, <2>3, <2>4 DEF Watched, s
<1>6. CASE kind \notin {"enter", "leave", "visible", "hidden", "focus", "blur", "heartbeat"}
  BY <1>6 DEF AfterEvent
<1> QED BY <1>1, <1>2, <1>3, <1>4, <1>5, <1>6

\* A batch keeps the types, and time never counts down.
LEMMA BatchTypes ==
    ASSUME NEW t \in Nat, NEW r \in Clocks(t), NEW events,
           \A e \in events : e.at \in 0..t
    PROVE  InOrder(r, events) \in Clocks(t) /\ InOrder(r, events).active >= r.active
<1> DEFINE S == {x \in Clocks(t) : x.active >= r.active}
<1>1. r \in S
  BY DEF Clocks
<1>2. ASSUME NEW x \in S, NEW k \in 1..MaxEvents PROVE ByEvent(x, Due(events, k)) \in S
  <2> DEFINE due == Due(events, k)
  <2>1. CASE due = {}
    BY <2>1 DEF ByEvent
  <2>2. CASE due # {}
    <3> DEFINE e == CHOOSE y \in due : TRUE
    <3>1. e \in due
      BY <2>2
    <3>2. e.at \in 0..t
      BY <3>1 DEF Due
    <3>3. ByEvent(x, due) = AfterEvent(x, e.kind, e.at)
      BY <2>2 DEF ByEvent
    <3> HIDE DEF e, due
    <3>4. AfterEvent(x, e.kind, e.at) \in Clocks(t) /\ AfterEvent(x, e.kind, e.at).active >= x.active
      BY <3>2, EventTypes
    <3>5. \A y \in Clocks(t) : y.active \in Nat
      BY DEF Clocks
    <3>6. AfterEvent(x, e.kind, e.at).active >= r.active
      BY <3>4, <3>5
    <3> QED BY <3>3, <3>4, <3>6 DEF due
  <2> QED BY <2>1, <2>2
<1> HIDE DEF S
<1>3. InOrder(r, events) \in S
  BY <1>1, <1>2, BatchKeeps
<1> QED BY <1>3 DEF S

\* What A has seen changes nothing; what it gets it has seen.
LEMMA SeenBefore ==
    ASSUME NEW a, NEW events, Numbers(events) \subseteq a.seen
    PROVE  AfterBatch(a, events).count = a.count /\ AfterBatch(a, events).seen = a.seen
<1>1. {e \in events : e.no \notin a.seen} = {}
  BY DEF Numbers
<1>2. AfterBatch(a, events).count = InOrder(a.count, {}) /\ AfterBatch(a, events).seen = a.seen \cup Numbers({})
  BY <1>1 DEF AfterBatch
<1>3. Numbers({}) = {}
  BY DEF Numbers
<1> QED BY <1>2, <1>3, NoEvents

LEMMA SeenAfter ==
    ASSUME NEW a, NEW events
    PROVE  AfterBatch(a, events).seen = a.seen \cup Numbers(events)
BY DEF AfterBatch, Numbers

\* A batch with one more event, which is later than all of them.
LEMMA OneMoreIn ==
    ASSUME NEW a, NEW n \in Nat, n + 1 <= MaxEvents, a.seen \subseteq 1..n,
           NEW events, \A e \in events : e.no \in 1..n, NEW e, e.no = n + 1
    PROVE  /\ AfterBatch(a, events \cup {e}).count = AfterEvent(AfterBatch(a, events).count, e.kind, e.at)
           /\ Numbers(events \cup {e}) = Numbers(events) \cup {n + 1}
<1> DEFINE new == {x \in events : x.no \notin a.seen}
<1>1. n + 1 \notin 1..n
  OBVIOUS
<1>2. {x \in events \cup {e} : x.no \notin a.seen} = new \cup {e}
  BY <1>1
<1>3. \A x \in new : x.no \in 1..n
  OBVIOUS
<1>4. AfterBatch(a, events).count = InOrder(a.count, new)
  BY DEF AfterBatch
<1>5. AfterBatch(a, events \cup {e}).count = InOrder(a.count, new \cup {e})
  BY <1>2 DEF AfterBatch
<1> HIDE DEF new
<1>6. InOrder(a.count, new \cup {e}) = AfterEvent(InOrder(a.count, new), e.kind, e.at)
  BY <1>3, OneMore
<1>7. Numbers(events \cup {e}) = Numbers(events) \cup {n + 1}
  BY DEF Numbers
<1> QED BY <1>4, <1>5, <1>6, <1>7

-----------------------------------------------------------------------------
(* The steps.                                                                *)
LEMMA VisitTypes ==
    ASSUME TelemetryInv, NEW v \in Visits
    PROVE  /\ now \in Nat /\ sent[v] \in Nat /\ sent[v] <= MaxEvents /\ tab[v] \in Clocks(now)
           /\ visit[v].count \in Clocks(now) /\ visit[v].seen \subseteq 1..sent[v]
           /\ pending[v] \subseteq Happened(now, sent[v]) /\ attentive \in Nat
           /\ \A e \in pending[v] : e.no \in 1..sent[v] /\ e.at \in 0..now
BY Bounded DEF TelemetryInv, TelemetryTypes, Happened

LEMMA FlightTypes ==
    ASSUME TelemetryInv, NEW f \in flights
    PROVE  /\ f \in [visit : Visits, events : SUBSET Happened(now, MaxEvents), served : BOOLEAN]
           /\ f.visit \in Visits /\ f.events \subseteq Happened(now, sent[f.visit])
           /\ \A e \in f.events : e.no \in 1..sent[f.visit] /\ e.at \in 0..now
           /\ Numbers(f.events) \subseteq 1..sent[f.visit]
BY DEF TelemetryInv, TelemetryTypes, Happened, Numbers

\* A visit that a step leaves alone.
LEMMA Apart ==
    ASSUME NEW v \in Visits, InTurn(v), sent'[v] = sent[v], pending'[v] = pending[v],
           tab'[v] = tab[v], visit'[v] = visit[v],
           \A f : f.visit = v => (f \in flights' <=> f \in flights)
    PROVE  InTurn(v)'
<1>1. \A events : Complete(v, events)' <=> Complete(v, events)
  BY DEF Complete
<1> QED BY <1>1 DEF InTurn

LEMMA TickKeeps ==
    ASSUME TelemetryInv, Tick
    PROVE  TelemetryInv'
<1>1. /\ now' = now + 1
      /\ attentive' = IF page # NoVisit /\ tab[page].visible /\ tab[page].focused
                      THEN attentive + 1 ELSE attentive
      /\ UNCHANGED <<page, sent, pending, tab, flights, visit, crossed>>
  BY DEF Tick
<1>2. TelemetryTypes /\ Attention /\ now \in Nat /\ attentive \in Nat
  BY DEF TelemetryInv, TelemetryTypes
<1>3. 0..now \subseteq 0..now' /\ now' \in Nat /\ attentive' \in Nat /\ attentive <= attentive'
  BY <1>1, <1>2
<1>4. Clocks(now) \subseteq Clocks(now') /\ \A n : Happened(now, n) \subseteq Happened(now', n)
  BY <1>3 DEF Clocks, Happened
<1>5. TelemetryTypes'
  <2>1. tab \in [Visits -> Clocks(now')] /\ visit \in [Visits -> [count : Clocks(now'), seen : SUBSET Nat]]
    BY <1>2, <1>4 DEF TelemetryTypes
  <2>2. \A v \in Visits : pending[v] \subseteq Happened(now', sent[v]) /\ visit[v].seen \subseteq 1..sent[v]
    BY <1>2, <1>4 DEF TelemetryTypes
  <2>3. \A f \in flights :
          /\ f \in [visit : Visits, events : SUBSET Happened(now', MaxEvents), served : BOOLEAN]
          /\ f.events \subseteq Happened(now', sent[f.visit])
    BY <1>2, <1>4 DEF TelemetryTypes
  <2> QED BY <1>1, <1>2, <1>3, <2>1, <2>2, <2>3 DEF TelemetryTypes
<1>6. Attention'
  <2> SUFFICES ASSUME NEW v \in Visits
               PROVE  Watched(tab[v], now', attentive') /\ (v # page => ~tab[v].visible /\ ~tab[v].focused)
    BY <1>1 DEF Attention
  <2>1. Watched(tab[v], now, attentive) /\ (v # page => ~tab[v].visible /\ ~tab[v].focused)
    BY <1>2 DEF Attention
  <2>2. tab[v].active \in Nat /\ tab[v].last \in {Never} \cup (0..now)
    BY <1>2 DEF TelemetryTypes, Clocks
  <2>3. tab[v].active <= attentive'
    BY <1>2, <1>3, <2>1, <2>2 DEF Watched
  <2>4. ASSUME tab[v].visible, tab[v].focused, tab[v].last # Never
        PROVE  tab[v].active + (now' - tab[v].last) <= attentive'
    <3>1. v = page /\ page # NoVisit
      BY <2>1, <2>4, TelemetryAssumption
    <3>2. attentive' = attentive + 1
      BY <1>1, <2>4, <3>1
    <3>3. tab[v].active + (now - tab[v].last) <= attentive
      BY <2>1, <2>4 DEF Watched
    <3>4. tab[v].last \in Int
      BY <2>2, <2>4
    <3> QED BY <1>1, <1>2, <2>2, <3>2, <3>3, <3>4
  <2> QED BY <2>1, <2>3, <2>4 DEF Watched
<1>7. \A v \in Visits \ crossed : InTurn(v)'
  <2> SUFFICES ASSUME NEW v \in Visits \ crossed PROVE InTurn(v)'
    OBVIOUS
  <2>1. InTurn(v)
    BY DEF TelemetryInv
  <2> QED BY <1>1, <2>1, Apart
<1> QED BY <1>1, <1>5, <1>6, <1>7 DEF TelemetryInv

LEMMA RecordKeeps ==
    ASSUME TelemetryInv, NEW v \in Visits, NEW kind \in Kinds, Record(v, kind),
           page' \in Visits \cup {NoVisit}, v = page' \/ kind = "leave",
           \A w \in Visits \ {v} : ~tab[w].visible /\ ~tab[w].focused
    PROVE  TelemetryInv'
<1> DEFINE n == sent[v]  event == [no |-> n + 1, kind |-> kind, at |-> now]
           batch == pending[v] \cup {event}  f == [visit |-> v, events |-> batch, served |-> FALSE]
           r == AfterEvent(tab[v], kind, now)
<1>1. /\ n < MaxEvents /\ sent' = [sent EXCEPT ![v] = n + 1] /\ tab' = [tab EXCEPT ![v] = r]
      /\ flights' = flights \cup {f}
      /\ crossed' = IF \E g \in flights : g.visit = v THEN crossed \cup {v} ELSE crossed
      /\ UNCHANGED <<now, pending, visit, attentive>>
  BY DEF Record
<1>2. /\ TelemetryTypes /\ Attention /\ MaxEvents \in Nat
      /\ now \in Nat /\ n \in Nat /\ n + 1 \in 0..MaxEvents /\ n + 1 <= MaxEvents /\ attentive \in Nat
  BY <1>1, VisitTypes, Bounded DEF TelemetryInv
<1>3. /\ tab[v] \in Clocks(now) /\ visit[v].seen \subseteq 1..n /\ pending[v] \subseteq Happened(now, n)
      /\ \A e \in pending[v] : e.no \in 1..n
  BY VisitTypes
<1>4. event \in Happened(now, n + 1) /\ event \in Happened(now, MaxEvents)
      /\ event.no = n + 1 /\ event.kind = kind /\ event.at = now
  BY <1>2 DEF Happened
<1> HIDE DEF event
<1>5. 1..n \subseteq 1..(n + 1) /\ 1..(n + 1) \subseteq 1..MaxEvents /\ 1..(n + 1) = (1..n) \cup {n + 1}
  BY <1>2
<1>6. Happened(now, n) \subseteq Happened(now, n + 1) /\ Happened(now, n + 1) \subseteq Happened(now, MaxEvents)
  BY <1>5 DEF Happened
<1>7. batch \subseteq Happened(now, n + 1) /\ batch \subseteq Happened(now, MaxEvents)
  BY <1>3, <1>4, <1>6
<1>8. r \in Clocks(now)
  <2>1. now \in 0..now
    BY <1>2
  <2> QED BY <1>2, <1>3, <2>1, EventTypes
<1>9. f \in [visit : Visits, events : SUBSET Happened(now, MaxEvents), served : BOOLEAN]
      /\ f.visit = v /\ f.events = batch /\ f.served = FALSE
  BY <1>7
<1> HIDE DEF f
<1>10. /\ sent' \in [Visits -> 0..MaxEvents] /\ sent'[v] = n + 1 /\ \A w \in Visits \ {v} : sent'[w] = sent[w]
       /\ tab' \in [Visits -> Clocks(now)] /\ tab'[v] = r /\ \A w \in Visits \ {v} : tab'[w] = tab[w]
  BY <1>1, <1>2, <1>8 DEF TelemetryTypes
<1>11. TelemetryTypes'
  <2>1. \A w \in Visits : pending[w] \subseteq Happened(now, sent'[w]) /\ visit[w].seen \subseteq 1..sent'[w]
    BY <1>2, <1>3, <1>5, <1>6, <1>10 DEF TelemetryTypes
  <2>2. ASSUME NEW g \in flights'
        PROVE  /\ g \in [visit : Visits, events : SUBSET Happened(now, MaxEvents), served : BOOLEAN]
               /\ g.events \subseteq Happened(now, sent'[g.visit])
    <3>1. CASE g = f
      BY <1>7, <1>9, <1>10, <3>1
    <3>2. CASE g \in flights
      <4>1. /\ g \in [visit : Visits, events : SUBSET Happened(now, MaxEvents), served : BOOLEAN]
            /\ g.visit \in Visits /\ g.events \subseteq Happened(now, sent[g.visit])
        BY <3>2, FlightTypes
      <4>2. CASE g.visit = v
        BY <1>6, <1>10, <4>1, <4>2
      <4>3. CASE g.visit # v
        BY <1>10, <4>1, <4>3
      <4> QED BY <4>2, <4>3
    <3> QED BY <1>1, <3>1, <3>2
  <2>3. crossed' \subseteq Visits
    BY <1>1, <1>2 DEF TelemetryTypes
  <2> QED BY <1>1, <1>2, <1>10, <2>1, <2>2, <2>3 DEF TelemetryTypes
<1>12. Attention'
  <2>1. Watched(r, now, attentive)
    BY <1>2, <1>3, EventWatched DEF Attention
  <2>2. \A w \in Visits \ {v} : Watched(tab[w], now, attentive)
    BY <1>2 DEF Attention
  <2>3. kind = "leave" => ~r.visible /\ ~r.focused
    BY <1>3 DEF AfterEvent, Clocks
  <2> HIDE DEF r
  <2>4. \A w \in Visits : Watched(tab'[w], now, attentive)
    BY <1>10, <2>1, <2>2
  <2>5. \A w \in Visits : w # page' => ~tab'[w].visible /\ ~tab'[w].focused
    <3> SUFFICES ASSUME NEW w \in Visits, w # page' PROVE ~tab'[w].visible /\ ~tab'[w].focused
      OBVIOUS
    <3>1. CASE w = v
      BY <1>10, <2>3, <3>1
    <3>2. CASE w # v
      BY <1>10, <3>2
    <3> QED BY <3>1, <3>2
  <2> QED BY <1>1, <2>4, <2>5 DEF Attention
<1>13. ASSUME NEW w \in Visits \ crossed' PROVE InTurn(w)'
  <2>1. w \notin crossed /\ InTurn(w)
    BY <1>1, <1>13 DEF TelemetryInv
  <2>2. CASE w # v
    <3>1. \A g : g.visit = w => (g \in flights' <=> g \in flights)
      BY <1>1, <1>9, <2>2
    <3> QED BY <1>1, <1>10, <2>1, <2>2, <3>1, Apart
  <2>3. CASE w = v
    <3>1. \A g \in flights : g.visit # v
      BY <1>1, <1>13, <2>3
    <3>2. Complete(v, pending[v])
      BY <2>1, <2>3, <3>1 DEF InTurn
    <3>3. /\ AfterBatch(visit[v], batch).count = AfterEvent(AfterBatch(visit[v], pending[v]).count, kind, now)
          /\ Numbers(batch) = Numbers(pending[v]) \cup {n + 1}
      <4> DEFINE a == visit[v]  b == pending[v]
      <4>1. n \in Nat /\ n + 1 <= MaxEvents /\ a.seen \subseteq 1..n /\ \A e \in b : e.no \in 1..n
        BY <1>2, <1>3
      <4> HIDE DEF a, b, n
      <4>2. /\ AfterBatch(a, b \cup {event}).count = AfterEvent(AfterBatch(a, b).count, event.kind, event.at)
            /\ Numbers(b \cup {event}) = Numbers(b) \cup {n + 1}
        BY <1>4, <4>1, OneMoreIn
      <4> QED BY <1>4, <4>2 DEF a, b
    <3>4. ASSUME NEW b, b = batch PROVE Complete(v, b)'
      <4>1. 1..(n + 1) = visit[v].seen \cup Numbers(b)
        BY <1>5, <3>2, <3>3, <3>4 DEF Complete
      <4>2. AfterBatch(visit[v], b).count = r
        BY <3>2, <3>3, <3>4 DEF Complete
      <4>3. sent'[v] = n + 1 /\ visit' = visit /\ tab'[v] = r
        BY <1>1, <1>10
      <4> HIDE DEF batch, r, n
      <4> QED BY <4>1, <4>2, <4>3 DEF Complete
    <3>5. \A g \in flights' : g.visit = v => g.events = batch /\ ~g.served /\ g = f
      BY <1>1, <1>9, <3>1
    <3>6. f \in flights' /\ f.visit = v /\ pending' = pending /\ pending[v] \subseteq batch
      BY <1>1, <1>9
    <3> HIDE DEF batch
    <3>7. \A g \in flights' : g.visit = v => Complete(v, g.events)'
      BY <3>4, <3>5
    <3> QED BY <2>3, <3>5, <3>6, <3>7 DEF InTurn
  <2> QED BY <2>2, <2>3
<1> QED BY <1>11, <1>12, <1>13 DEF TelemetryInv

LEMMA PageKeeps ==
    ASSUME TelemetryInv, NEW v \in Visits,
           Mount(v) \/ Unmount(v) \/ \E kind \in PageKinds : OnPage(v, kind)
    PROVE  TelemetryInv'
<1>1. \A w \in Visits : w # page => ~tab[w].visible /\ ~tab[w].focused
  BY DEF TelemetryInv, Attention
<1>2. NoVisit \notin Visits
  BY TelemetryAssumption
<1>3. CASE Mount(v)
  <2>1. page = NoVisit /\ page' = v /\ Record(v, "enter")
    BY <1>3 DEF Mount
  <2> QED BY <1>1, <1>2, <2>1, RecordKeeps DEF Kinds
<1>4. CASE Unmount(v)
  <2>1. page = v /\ page' = NoVisit /\ Record(v, "leave")
    BY <1>4 DEF Unmount
  <2> QED BY <1>1, <2>1, RecordKeeps DEF Kinds
<1>5. ASSUME NEW kind \in PageKinds, OnPage(v, kind) PROVE TelemetryInv'
  <2>1. page = v /\ page' = v /\ Record(v, kind)
    BY <1>5 DEF OnPage
  <2> QED BY <1>1, <2>1, RecordKeeps DEF Kinds
<1> QED BY <1>3, <1>4, <1>5

\* The requests of a visit with one request, when it is served.
LEMMA ServeKeeps ==
    ASSUME TelemetryInv, NEW f \in flights, Serve(f)
    PROVE  TelemetryInv'
<1> DEFINE v == f.visit  a == AfterBatch(visit[v], f.events)  g == [f EXCEPT !.served = TRUE]
<1>1. /\ flights' = (flights \ {f}) \cup {g} /\ visit' = [visit EXCEPT ![v] = a]
      /\ UNCHANGED <<now, page, sent, pending, tab, attentive, crossed>>
  BY DEF Serve
<1>2. /\ f \in [visit : Visits, events : SUBSET Happened(now, MaxEvents), served : BOOLEAN]
      /\ v \in Visits /\ f.events \subseteq Happened(now, sent[v])
      /\ (\A e \in f.events : e.at \in 0..now) /\ Numbers(f.events) \subseteq 1..sent[v]
  BY FlightTypes
<1>3. /\ g \in [visit : Visits, events : SUBSET Happened(now, MaxEvents), served : BOOLEAN]
      /\ g.visit = v /\ g.events = f.events
  BY <1>2
<1>4. /\ TelemetryTypes /\ now \in Nat /\ sent[v] \in Nat /\ visit[v].count \in Clocks(now)
      /\ visit[v].seen \subseteq 1..sent[v]
  BY <1>2, VisitTypes DEF TelemetryInv
<1>5. a.count \in Clocks(now)
  <2> DEFINE new == {e \in f.events : e.no \notin visit[v].seen}
  <2>1. \A e \in new : e.at \in 0..now
    BY <1>2
  <2>2. a.count = InOrder(visit[v].count, new)
    BY DEF AfterBatch
  <2> HIDE DEF new, a
  <2> QED BY <1>4, <2>1, <2>2, BatchTypes
<1>6. a.seen = visit[v].seen \cup Numbers(f.events) /\ a.seen \subseteq 1..sent[v]
  BY <1>2, <1>4, SeenAfter
<1>7. a = [count |-> a.count, seen |-> a.seen]
  BY DEF AfterBatch
<1> HIDE DEF a
<1>8. a \in [count : Clocks(now), seen : SUBSET Nat]
  BY <1>4, <1>5, <1>6, <1>7
<1>9. /\ visit' \in [Visits -> [count : Clocks(now), seen : SUBSET Nat]]
      /\ visit'[v] = a /\ \A w \in Visits \ {v} : visit'[w] = visit[w]
  BY <1>1, <1>2, <1>4, <1>8 DEF TelemetryTypes
<1> HIDE DEF g
<1>10. TelemetryTypes'
  <2>1. \A w \in Visits : pending[w] \subseteq Happened(now, sent[w]) /\ visit'[w].seen \subseteq 1..sent[w]
    BY <1>4, <1>6, <1>9 DEF TelemetryTypes
  <2>2. \A h \in flights' :
          /\ h \in [visit : Visits, events : SUBSET Happened(now, MaxEvents), served : BOOLEAN]
          /\ h.events \subseteq Happened(now, sent[h.visit])
    BY <1>1, <1>2, <1>3, <1>4 DEF TelemetryTypes
  <2> QED BY <1>1, <1>4, <1>9, <2>1, <2>2 DEF TelemetryTypes
<1>11. Attention'
  BY <1>1 DEF TelemetryInv, Attention
<1>12. ASSUME NEW w \in Visits \ crossed' PROVE InTurn(w)'
  <2>1. w \notin crossed /\ InTurn(w)
    BY <1>1, <1>12 DEF TelemetryInv
  <2>2. CASE w # v
    <3>1. \A h : h.visit = w => (h \in flights' <=> h \in flights)
      BY <1>1, <1>3, <2>2
    <3> QED BY <1>1, <1>9, <2>1, <2>2, <3>1, Apart
  <2>3. CASE w = v
    <3>1. pending[v] \subseteq f.events /\ Complete(v, f.events) /\ \A h \in flights : h.visit = v => h = f
      BY <2>1, <2>3 DEF InTurn
    <3>2. Numbers(f.events) \subseteq a.seen
      BY <1>6
    <3>3. AfterBatch(a, f.events).count = a.count
      BY <3>2, SeenBefore
    <3>4. a.count = tab[v]
      BY <3>1 DEF Complete, a
    <3>5. 1..sent[v] = a.seen \cup Numbers(f.events)
      BY <1>6, <3>1 DEF Complete
    <3> DEFINE b == f.events
    <3>6. visit'[v] = a /\ tab' = tab /\ sent' = sent /\ pending' = pending
      BY <1>1, <1>9
    <3>7. ASSUME NEW c, c = b PROVE Complete(v, c)'
      BY <3>3, <3>4, <3>5, <3>6, <3>7 DEF Complete
    <3>8. \A h \in flights' : h.visit = v => h = g /\ h.events = b
      BY <1>1, <1>3, <3>1
    <3>9. g \in flights' /\ g.visit = v
      BY <1>1, <1>3
    <3> HIDE DEF b
    <3>10. \A h \in flights' : h.visit = v => Complete(v, h.events)'
      BY <3>7, <3>8
    <3>11. \A h \in flights' : h.visit = v =>
              pending'[v] \subseteq h.events /\ Numbers(h.events) \subseteq visit'[v].seen
      BY <3>1, <3>2, <3>6, <3>8 DEF b
    <3> QED BY <2>3, <3>8, <3>9, <3>10, <3>11 DEF InTurn
  <2> QED BY <2>2, <2>3
<1> QED BY <1>10, <1>11, <1>12 DEF TelemetryInv

\* A request ends: with an answer nothing waits, without one all of it does.
LEMMA EndKeeps ==
    ASSUME TelemetryInv, NEW f \in flights, Acknowledge(f) \/ Fail(f)
    PROVE  TelemetryInv'
<1> DEFINE v == f.visit
<1>1. PICK left : /\ (left = {} /\ f.served) \/ left = f.events
                  /\ flights' = flights \ {f} /\ pending' = [pending EXCEPT ![v] = left]
                  /\ UNCHANGED <<now, page, sent, tab, visit, attentive, crossed>>
  BY DEF Acknowledge, Fail
<1>2. v \in Visits /\ f.events \subseteq Happened(now, sent[v]) /\ Numbers(f.events) \subseteq 1..sent[v]
  BY FlightTypes
<1>3. TelemetryTypes /\ left \subseteq Happened(now, sent[v])
  BY <1>1, <1>2 DEF TelemetryInv
<1>4. DOMAIN pending' = Visits /\ pending'[v] = left /\ \A w \in Visits \ {v} : pending'[w] = pending[w]
  BY <1>1, <1>2, <1>3 DEF TelemetryTypes
<1>5. TelemetryTypes'
  <2>1. \A w \in Visits : pending'[w] \subseteq Happened(now, sent[w])
    BY <1>3, <1>4 DEF TelemetryTypes
  <2> QED BY <1>1, <1>3, <1>4, <2>1 DEF TelemetryTypes
<1>6. Attention'
  BY <1>1 DEF TelemetryInv, Attention
<1>7. ASSUME NEW w \in Visits \ crossed' PROVE InTurn(w)'
  <2>1. w \notin crossed /\ InTurn(w)
    BY <1>1, <1>7 DEF TelemetryInv
  <2>2. CASE w # v
    <3>1. \A h : h.visit = w => (h \in flights' <=> h \in flights)
      BY <1>1, <2>2
    <3> QED BY <1>1, <1>4, <2>1, <2>2, <3>1, Apart
  <2>3. CASE w = v
    <3>1. /\ Complete(v, f.events) /\ \A h \in flights : h.visit = v => h = f
          /\ f.served => Numbers(f.events) \subseteq visit[v].seen
      BY <2>1, <2>3 DEF InTurn
    <3>2. \A h \in flights' : h.visit # v
      BY <1>1, <3>1
    <3>3. Complete(v, left)
      <4>1. CASE left = f.events
        BY <3>1, <4>1
      <4>2. CASE left = {} /\ f.served
        <5>1. Numbers({}) = {}
          BY DEF Numbers
        <5>2. AfterBatch(visit[v], f.events).count = visit[v].count
          BY <3>1, <4>2, SeenBefore
        <5>3. AfterBatch(visit[v], {}).count = visit[v].count
          BY <5>1, SeenBefore
        <5> QED BY <3>1, <4>2, <5>1, <5>2, <5>3 DEF Complete
      <4> QED BY <1>1, <4>1, <4>2
    <3>4. Complete(v, left)'
      BY <1>1, <3>3 DEF Complete
    <3> QED BY <1>4, <2>3, <3>2, <3>4 DEF InTurn
  <2> QED BY <2>2, <2>3
<1> QED BY <1>5, <1>6, <1>7 DEF TelemetryInv

LEMMA TelemetryStarts == TelemetryInit => TelemetryInv
<1> SUFFICES ASSUME TelemetryInit PROVE TelemetryInv
  OBVIOUS
<1>1. /\ now = 0 /\ page = NoVisit /\ sent = [v \in Visits |-> 0] /\ pending = [v \in Visits |-> {}]
      /\ tab = [v \in Visits |-> Blank] /\ flights = {}
      /\ visit = [v \in Visits |-> [count |-> Blank, seen |-> {}]] /\ attentive = 0 /\ crossed = {}
  BY DEF TelemetryInit
<1>2. Blank \in Clocks(0) /\ Blank.active = 0 /\ ~Blank.visible /\ ~Blank.focused
  BY DEF Blank, Clocks
<1>3. TelemetryTypes
  BY <1>1, <1>2, Bounded DEF TelemetryTypes
<1>4. Attention
  BY <1>1, <1>2 DEF Attention, Watched
<1>5. ASSUME NEW v \in Visits PROVE InTurn(v)
  <2>1. Numbers({}) = {} /\ 1..0 = {}
    BY DEF Numbers
  <2>2. visit[v].count = Blank /\ visit[v].seen = {} /\ sent[v] = 0 /\ pending[v] = {} /\ tab[v] = Blank
    BY <1>1
  <2>3. AfterBatch(visit[v], {}).count = Blank
    BY <2>1, <2>2, SeenBefore
  <2> QED BY <1>1, <2>1, <2>2, <2>3 DEF InTurn, Complete
<1> QED BY <1>3, <1>4, <1>5 DEF TelemetryInv

LEMMA TelemetrySteps == TelemetryInv /\ [TelemetryNext]_telemetryVars => TelemetryInv'
<1> SUFFICES ASSUME TelemetryInv, [TelemetryNext]_telemetryVars PROVE TelemetryInv'
  OBVIOUS
<1>1. CASE UNCHANGED telemetryVars
  <2>1. UNCHANGED <<now, page, sent, pending, tab, flights, visit, attentive, crossed>>
    BY <1>1 DEF telemetryVars
  <2>2. TelemetryTypes' /\ Attention'
    BY <2>1 DEF TelemetryInv, TelemetryTypes, Attention
  <2>3. \A v \in Visits \ crossed' : InTurn(v)'
    BY <2>1, Apart DEF TelemetryInv
  <2> QED BY <2>2, <2>3 DEF TelemetryInv
<1> QED BY <1>1, TickKeeps, PageKeeps, ServeKeeps, EndKeeps DEF TelemetryNext

-----------------------------------------------------------------------------
(* What the invariant says of reading time.                                  *)
LEMMA TelemetryTyped == TelemetryInv => TelemetryTypeOK
<1> SUFFICES ASSUME TelemetryInv, NEW v \in Visits
             PROVE  /\ page \in Visits \cup {NoVisit}
                    /\ visit[v].seen \subseteq 1..sent[v]
                    /\ {tab[v].active, visit[v].count.active} \subseteq Nat
                    /\ {tab[v].last, visit[v].count.last} \subseteq {Never} \cup (0..now)
  BY DEF TelemetryInv, TelemetryTypes, TelemetryTypeOK
<1> QED BY VisitTypes DEF Clocks, TelemetryInv, TelemetryTypes

LEMMA NothingLost == TelemetryInv => NothingLostInTurn
<1> SUFFICES ASSUME TelemetryInv, NEW v \in Visits \ crossed
             PROVE  1..sent[v] = visit[v].seen \cup Numbers(pending[v]) \cup UnderWay(v)
  BY DEF NothingLostInTurn
<1>1. InTurn(v)
  BY DEF TelemetryInv
<1>2. CASE \A f \in flights : f.visit # v
  <2>1. UnderWay(v) = {}
    BY <1>2 DEF UnderWay
  <2>2. Complete(v, pending[v])
    BY <1>1, <1>2 DEF InTurn
  <2> QED BY <2>1, <2>2 DEF Complete
<1>3. ASSUME NEW f \in flights, f.visit = v
      PROVE  1..sent[v] = visit[v].seen \cup Numbers(pending[v]) \cup UnderWay(v)
  <2>1. pending[v] \subseteq f.events /\ Complete(v, f.events) /\ \A g \in flights : g.visit = v => g = f
    BY <1>1, <1>3 DEF InTurn
  <2>2. {Numbers(g.events) : g \in {h \in flights : h.visit = v}} = {Numbers(f.events)}
    BY <1>3, <2>1
  <2>3. UnderWay(v) = Numbers(f.events)
    BY <2>2 DEF UnderWay
  <2>4. Numbers(pending[v]) \subseteq Numbers(f.events)
    BY <2>1 DEF Numbers
  <2> QED BY <2>1, <2>3, <2>4 DEF Complete
<1> QED BY <1>2, <1>3

\* There is a batch with which A counts what the browser does.
LEMMA SomeBatch ==
    ASSUME TelemetryInv, NEW v \in Visits \ crossed
    PROVE  \E events : /\ Complete(v, events) /\ Numbers(events) \subseteq 1..sent[v]
                       /\ \A e \in events : e.at \in 0..now
<1>1. InTurn(v)
  BY DEF TelemetryInv
<1>2. CASE \A f \in flights : f.visit # v
  <2>1. Complete(v, pending[v])
    BY <1>1, <1>2 DEF InTurn
  <2> QED BY <2>1, VisitTypes DEF Numbers
<1>3. ASSUME NEW f \in flights, f.visit = v
      PROVE  \E events : /\ Complete(v, events) /\ Numbers(events) \subseteq 1..sent[v]
                         /\ \A e \in events : e.at \in 0..now
  <2>1. Complete(v, f.events)
    BY <1>1, <1>3 DEF InTurn
  <2> QED BY <1>3, <2>1, FlightTypes
<1> QED BY <1>2, <1>3

LEMMA CountsAgree == TelemetryInv => SameCount
<1> SUFFICES ASSUME TelemetryInv, NEW v \in Visits \ crossed, visit[v].seen = 1..sent[v]
             PROVE  visit[v].count = tab[v]
  BY DEF SameCount
<1>1. PICK events : Complete(v, events) /\ Numbers(events) \subseteq 1..sent[v]
  BY SomeBatch
<1> QED BY <1>1, SeenBefore DEF Complete

LEMMA OnlyAttention == TelemetryInv => OnlyAttentionCounts
<1> SUFFICES ASSUME TelemetryInv, crossed = {}
             PROVE  /\ \A v \in Visits : visit[v].count.active <= attentive
                    /\ MinimumMet => attentive >= Minimum
  BY DEF OnlyAttentionCounts
<1>1. ASSUME NEW v \in Visits
      PROVE  visit[v].count.active <= attentive /\ visit[v].count.active \in Nat /\ attentive \in Nat
  <2>1. PICK events : Complete(v, events) /\ \A e \in events : e.at \in 0..now
    BY SomeBatch
  <2>2. now \in Nat /\ visit[v].count \in Clocks(now) /\ tab[v] \in Clocks(now) /\ attentive \in Nat
    BY VisitTypes
  <2> DEFINE new == {e \in events : e.no \notin visit[v].seen}  r == visit[v].count
  <2>3. tab[v] = InOrder(r, new)
    BY <2>1 DEF Complete, AfterBatch
  <2>4. \A e \in new : e.at \in 0..now
    BY <2>1
  <2> HIDE DEF new, r
  <2>5. InOrder(r, new).active >= r.active
    BY <2>2, <2>4, BatchTypes DEF r
  <2>6. tab[v].active >= visit[v].count.active
    BY <2>3, <2>5 DEF r
  <2>7. tab[v].active <= attentive
    BY DEF TelemetryInv, Attention, Watched
  <2>8. tab[v].active \in Nat /\ visit[v].count.active \in Nat
    BY <2>2 DEF Clocks
  <2> QED BY <2>2, <2>6, <2>7, <2>8
<1>2. ASSUME NEW v \in Visits, visit[v].count.active >= Minimum PROVE attentive >= Minimum
  <2>1. Minimum \in Nat
    BY TelemetryAssumption
  <2> QED BY <1>1, <1>2, <2>1
<1> QED BY <1>1, <1>2 DEF MinimumMet

\* A counts the attention the browser saw: no event is lost with one request at a
\* time, none is counted twice, and no time in which nobody looked (record of the
\* browser and record_batch of A, with answers lost and batches repeated).
THEOREM AttentionCounted == TelemetrySpec => []AttentionIsCounted
<1>1. TelemetryInv => AttentionIsCounted
  BY TelemetryTyped, NothingLost, CountsAgree, OnlyAttention DEF AttentionIsCounted
<1> QED BY <1>1, TelemetryStarts, TelemetrySteps, PTL DEF TelemetrySpec
=============================================================================
