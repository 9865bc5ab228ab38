---------------------- MODULE IdentityVerificationProofs ----------------------
(***************************************************************************)
(* Proofs about IdentityVerification: for every number of overlapping      *)
(* calls and callbacks and all routing settings.                           *)
(***************************************************************************)
EXTENDS IdentityVerification, SequenceTheorems, FiniteSetTheorems, TLAPS

USE DEF customer

-----------------------------------------------------------------------------
(* Rows that hold an answer still hold it when rows are added after them.  *)
LEMMA HoldsGrows ==
  ASSUME NEW s \in Seq(Answer), NEW t \in Seq(Answer), NEW answer, Holds(s, answer)
  PROVE  Holds(s \o t, answer)
<1>1. PICK i \in 1..Len(s) : s[i] = answer
  BY DEF Holds
<1>2. /\ Len(s) \in Nat /\ Len(t) \in Nat
      /\ Len(s \o t) = Len(s) + Len(t)
      /\ (s \o t)[i] = s[i]
  BY <1>1, ConcatProperties, LenProperties
<1>3. i \in 1..Len(s \o t)
  BY <1>1, <1>2
<1> QED BY <1>1, <1>2, <1>3 DEF Holds

(* Rows that hold an answer are not empty, nor are rows with some in front.*)
LEMMA NonEmptyGrows ==
  ASSUME NEW s \in Seq(Answer), NEW t \in Seq(Answer), s # <<>> \/ t # <<>>
  PROVE  s \o t # <<>>
<1>1. /\ Len(s) \in Nat /\ Len(t) \in Nat
      /\ Len(s \o t) = Len(s) + Len(t)
  BY ConcatProperties, LenProperties
<1>2. (s # <<>> => Len(s) # 0) /\ (t # <<>> => Len(t) # 0)
  BY EmptySeq
<1>3. Len(s \o t) # 0
  BY <1>1, <1>2
<1> QED BY <1>3

(* A row that is added is held.                                            *)
LEMMA HoldsAdded ==
  ASSUME NEW s \in Seq(Answer), NEW answer \in Answer
  PROVE  Holds(s \o <<answer>>, answer)
<1>1. <<answer>> \in Seq(Answer) /\ Len(<<answer>>) = 1 /\ <<answer>>[1] = answer
  OBVIOUS
<1>2. Len(s) \in Nat
  BY LenProperties
<1>3. /\ Len(s \o <<answer>>) = Len(s) + 1
      /\ (s \o <<answer>>)[Len(s) + 1] = answer
  BY <1>1, <1>2, ConcatProperties
<1> QED BY <1>2, <1>3 DEF Holds

-----------------------------------------------------------------------------
(* Every step only adds rows, and what it adds are answers.                *)
LEMMA NewRowType ==
  ASSUME NEW v \in Verifier, NEW a \in Attempt
  PROVE  NewRow(v, a) \in Seq(Answer)
BY DEF NewRow, Answer

LEMMA RowsForType ==
  ASSUME NEW event PROVE RowsFor(event) \in Seq(Answer)
BY DEF RowsFor, Answer

LEMMA ConcatType ==
  ASSUME NEW s \in Seq(Answer), NEW t \in Seq(Answer) PROVE s \o t \in Seq(Answer)
BY ConcatProperties

LEMMA AfterType ==
  ASSUME NEW r, NEW role, NEW outcome
  PROVE  After(r, role, outcome) \in Role \cup {"commit", "fail"}
BY DEF After, Role

-----------------------------------------------------------------------------
LEMMA InitialRecords == NewCall \in Call /\ NoHandler \in Handler
<1>1. (CHOOSE r \in Routings : TRUE) \in Routings
  BY RoutingsAssumption
<1>2. PICK v \in Verifier : TRUE
  BY VerifierAssumption
<1>3. <<<<v, "primary">>, "pass">> \in Message
  BY DEF Message, Attempt, Role, Answer
<1>4. (CHOOSE m \in Message : TRUE) \in Message
  BY <1>3
<1> QED BY <1>1, <1>4 DEF NewCall, NoHandler, Call, Handler, Status, Early, Role, Answer

(* A call whose fields change within their types is still a call.          *)
LEMMA CallAddsRows ==
  ASSUME NEW call \in Call, NEW role \in Role \cup {"commit", "fail"},
         NEW rows \in SUBSET (Role \X Answer)
  PROVE  [call EXCEPT !.role = role, !.rows = rows] \in Call
BY DEF Call

LEMMA CallAsks ==
  ASSUME NEW call \in Call, NEW role \in Role \cup {"commit", "fail"},
         NEW asks \in SUBSET Role
  PROVE  [call EXCEPT !.role = role, !.asks = asks] \in Call
BY DEF Call

LEMMA CallBegins ==
  ASSUME NEW call \in Call, NEW r \in Routings, NEW seen \in Status
  PROVE  [call EXCEPT !.pc = "running", !.routing = r, !.seen = seen] \in Call
BY DEF Call

LEMMA CallEnds ==
  ASSUME NEW call \in Call PROVE [call EXCEPT !.pc = "done"] \in Call
BY DEF Call

(* What an identity provider's answer, or another endpoint, makes of the    *)
(* customer is of its type.                                                *)
LEMMA AdvanceType ==
  ASSUME TypeOK, NEW advances \in BOOLEAN, AdvanceIf(advances)
  PROVE  status' \in Status /\ byPatch' \in BOOLEAN
BY DEF TypeOK, AdvanceIf, Status, Early

LEMMA LumpType == ASSUME NEW kycStatus PROVE Lump(kycStatus) \in Status
BY DEF Lump, Status

LEMMA EndpointTypes ==
  ASSUME TypeOK,
         MoveOn \/ \E q \in Request : OpenRequest(q) \/ Upload(q) \/ PatchStatus(q) \/ RollbackRequest(q)
  PROVE  /\ status' \in Status /\ byPatch' \in BOOLEAN /\ ocrPass' \in BOOLEAN
         /\ req' \in [Request -> EndpointCall]
<1> USE DEF TypeOK
<1>0. NoCall \in EndpointCall
  BY DEF NoCall, EndpointCall, Status, Early
<1>1. CASE MoveOn
  BY <1>1 DEF MoveOn, Status
<1>2. ASSUME NEW q \in Request, OpenRequest(q)
      PROVE  req' \in [Request -> EndpointCall]
  BY <1>2 DEF OpenRequest, EndpointCall
<1>3. ASSUME NEW q \in Request, Close(q)
      PROVE  req' \in [Request -> EndpointCall]
  BY <1>0, <1>3 DEF Close
<1>4. ASSUME NEW q \in Request, Upload(q)
      PROVE  status' \in Status /\ byPatch' \in BOOLEAN /\ ocrPass' \in BOOLEAN
  BY <1>4, LumpType DEF Upload
<1>5. ASSUME NEW q \in Request, PatchStatus(q)
      PROVE  status' \in Status /\ byPatch' \in BOOLEAN /\ ocrPass' \in BOOLEAN
  BY <1>5, LumpType DEF PatchStatus
<1> QED
  BY <1>1, <1>2, <1>3, <1>4, <1>5 DEF OpenRequest, Upload, PatchStatus, RollbackRequest

(* Type correctness: every variable keeps its type, whatever overlaps.     *)
THEOREM VerificationTypes == Spec => []TypeOK
<1>1. Init => TypeOK
  <2>1. NoCall \in EndpointCall /\ "initiated" \in Status
    BY DEF NoCall, EndpointCall, Status, Early
  <2>2. Init => req \in [Request -> EndpointCall]
    BY <2>1 DEF Init
  <2>3. <<>> \in Seq(Answer)
    OBVIOUS
  <2> QED BY <2>1, <2>2, <2>3, InitialRecords DEF Init, TypeOK
<1>2. TypeOK /\ [Next]_vars => TypeOK'
  <2> SUFFICES ASSUME TypeOK, [Next]_vars PROVE TypeOK'
    OBVIOUS
  <2> USE DEF TypeOK
  <2>1. ASSUME NEW v \in Verifier, BeginVerify(v) PROVE TypeOK'
    <3>1. PICK r \in Routings :
            ver' = [ver EXCEPT ![v] = [ver[v] EXCEPT !.pc = "running", !.routing = r,
                                                     !.seen = status]]
      BY <2>1 DEF BeginVerify
    <3>2. ver' \in [Verifier -> Call]
      BY <3>1, CallBegins
    <3> QED BY <2>1, <3>2 DEF BeginVerify
  <2>2. ASSUME NEW v \in Verifier, RunNadra(v) PROVE TypeOK'
    <3>1. PICK outcome \in Answer \cup Outcomes(ver[v].routing, ver[v].role) :
            ver' = [ver EXCEPT
              ![v].role = After(ver[v].routing, ver[v].role, outcome),
              ![v].rows = IF outcome \in Answer
                          THEN @ \cup {<<ver[v].role, outcome>>} ELSE @]
      BY <2>2 DEF RunNadra
    <3>2. PICK next : next = After(ver[v].routing, ver[v].role, outcome)
      OBVIOUS
    <3>3. next \in Role \cup {"commit", "fail"}
      BY <3>2, AfterType
    <3>4. ver[v] \in Call /\ ver[v].role \in Role
      BY <2>2 DEF RunNadra, Running
    <3>5. PICK rows : rows = IF outcome \in Answer
                             THEN ver[v].rows \cup {<<ver[v].role, outcome>>} ELSE ver[v].rows
      OBVIOUS
    <3>6. rows \in SUBSET (Role \X Answer)
      BY <3>4, <3>5 DEF Call
    <3>7. ver' = [ver EXCEPT ![v] = [ver[v] EXCEPT !.role = next, !.rows = rows]]
      BY <3>1, <3>2, <3>5
    <3>8. ver' \in [Verifier -> Call]
      BY <3>3, <3>4, <3>6, <3>7, CallAddsRows
    <3> QED BY <2>2, <3>8 DEF RunNadra
  <2>3. ASSUME NEW v \in Verifier, RunShufti(v) PROVE TypeOK'
    <3>1. PICK outcome \in {"asked"} \cup Outcomes(ver[v].routing, ver[v].role) :
            ver' = [ver EXCEPT
              ![v].role = After(ver[v].routing, ver[v].role, outcome),
              ![v].asks = IF outcome = "asked" THEN @ \cup {ver[v].role} ELSE @]
      BY <2>3 DEF RunShufti
    <3>2. PICK next : next = After(ver[v].routing, ver[v].role, outcome)
      OBVIOUS
    <3>3. next \in Role \cup {"commit", "fail"}
      BY <3>2, AfterType
    <3>4. ver[v] \in Call /\ ver[v].role \in Role
      BY <2>3 DEF RunShufti, Running
    <3>5. PICK asks : asks = IF outcome = "asked"
                             THEN ver[v].asks \cup {ver[v].role} ELSE ver[v].asks
      OBVIOUS
    <3>6. asks \in SUBSET Role
      BY <3>4, <3>5 DEF Call
    <3>7. ver' = [ver EXCEPT ![v] = [ver[v] EXCEPT !.role = next, !.asks = asks]]
      BY <3>1, <3>2, <3>5
    <3>8. ver' \in [Verifier -> Call]
      BY <3>3, <3>4, <3>6, <3>7, CallAsks
    <3>9. created' \subseteq Attempt
      BY <2>3, <3>4 DEF RunShufti, Attempt
    <3> QED BY <2>3, <3>8, <3>9 DEF RunShufti
  <2>4. ASSUME NEW v \in Verifier, CommitVerify(v) PROVE TypeOK'
    <3>1. results' \in [Attempt -> Seq(Answer)]
      <4>1. results' = [a \in Attempt |-> results[a] \o NewRow(v, a)]
        BY <2>4 DEF CommitVerify
      <4>2. ASSUME NEW a \in Attempt PROVE results[a] \o NewRow(v, a) \in Seq(Answer)
        BY NewRowType, ConcatType
      <4> QED BY <4>1, <4>2
    <3>2. ver[v] \in Call
      OBVIOUS
    <3>3. ver[v].asks \subseteq Role /\ Returned(ver[v]) \subseteq Role
      BY <3>2 DEF Call, Returned
    <3>4. pending' \subseteq Attempt /\ offered' \subseteq Attempt
      BY <2>4, <3>3 DEF CommitVerify, Attempt
    <3>5. ver' \in [Verifier -> Call]
      <4>1. ver' = [ver EXCEPT ![v] = [ver[v] EXCEPT !.pc = "done"]]
        BY <2>4 DEF CommitVerify
      <4> QED BY <3>2, <4>1, CallEnds
    <3>6. status' \in Status /\ byPatch' \in BOOLEAN
      BY <2>4, AdvanceType DEF CommitVerify
    <3> QED BY <2>4, <3>1, <3>4, <3>5, <3>6 DEF CommitVerify
  <2>5. ASSUME NEW v \in Verifier, RollbackVerify(v) PROVE TypeOK'
    <3>1. ver' = [ver EXCEPT ![v] = [ver[v] EXCEPT !.pc = "done"]]
      BY <2>5 DEF RollbackVerify
    <3>2. ver' \in [Verifier -> Call]
      BY <3>1, CallEnds
    <3> QED BY <2>5, <3>2 DEF RollbackVerify
  <2>6. CASE CustomerMoves
    <3>1. status' \in Status /\ byPatch' \in BOOLEAN /\ ocrPass' \in BOOLEAN
          /\ req' \in [Request -> EndpointCall]
      BY <2>6, EndpointTypes DEF CustomerMoves
    <3> QED BY <2>6, <3>1 DEF CustomerMoves
  <2>7. CASE ShuftiSends
    BY <2>7 DEF ShuftiSends, Message
  <2>8. ASSUME NEW c \in Callback, NEW m \in Message, BeginCallback(c, m) PROVE TypeOK'
    BY <2>8 DEF BeginCallback, Handler
  <2>9. ASSUME NEW c \in Callback, DeletePending(c) PROVE TypeOK'
    BY <2>9 DEF DeletePending, Handler
  <2>10. ASSUME NEW c \in Callback, CommitCallback(c) PROVE TypeOK'
    <3>1. cb[c] \in Handler
      OBVIOUS
    <3>2. cb[c].msg \in Message /\ cb[c].msg[1] \in Attempt
      BY <3>1 DEF Handler, Message
    <3>3. results' \in [Attempt -> Seq(Answer)]
      <4>1. results' = [results EXCEPT ![cb[c].msg[1]] = @ \o RowsFor(cb[c].msg[2])]
        BY <2>10 DEF CommitCallback
      <4>2. results[cb[c].msg[1]] \o RowsFor(cb[c].msg[2]) \in Seq(Answer)
        BY <3>2, RowsForType, ConcatType
      <4> QED BY <4>1, <4>2
    <3>4. cb' \in [Callback -> Handler]
      BY <2>10, InitialRecords DEF CommitCallback
    <3>5. status' \in Status /\ byPatch' \in BOOLEAN
      BY <2>10, AdvanceType DEF CommitCallback, Advance
    <3>6. pending' \subseteq Attempt
      BY <2>10 DEF CommitCallback, Deleted
    <3>7. acked' \subseteq Message
      BY <2>10, <3>2 DEF CommitCallback
    <3> QED BY <2>10, <3>3, <3>4, <3>5, <3>6, <3>7 DEF CommitCallback
  <2>11. ASSUME NEW c \in Callback, CrashCallback(c) PROVE TypeOK'
    BY <2>11, InitialRecords DEF CrashCallback
  <2>12. CASE UNCHANGED vars
    BY <2>12 DEF vars
  <2> QED BY <2>1, <2>2, <2>3, <2>4, <2>5, <2>6, <2>7, <2>8, <2>9, <2>10, <2>11, <2>12 DEF Next
<1> QED BY <1>1, <1>2, PTL DEF Spec

-----------------------------------------------------------------------------
(***************************************************************************)
(* No step takes a row away: what results hold and have, they keep.        *)
(***************************************************************************)
LEMMA RowsKept ==
  ASSUME TypeOK, [Next]_vars, NEW a \in Attempt
  PROVE  \E t \in Seq(Answer) : results'[a] = results[a] \o t
<1>0. <<>> \in Seq(Answer) /\ results[a] \in Seq(Answer) /\ results[a] = results[a] \o <<>>
  BY ConcatEmptySeq DEF TypeOK
<1>1. CASE UNCHANGED results
  BY <1>0, <1>1
<1>2. ASSUME NEW v \in Verifier, CommitVerify(v)
      PROVE  \E t \in Seq(Answer) : results'[a] = results[a] \o t
  BY <1>2, NewRowType DEF CommitVerify
<1>3. ASSUME NEW c \in Callback, CommitCallback(c)
      PROVE  \E t \in Seq(Answer) : results'[a] = results[a] \o t
  <2>1. results' = [results EXCEPT ![cb[c].msg[1]] = @ \o RowsFor(cb[c].msg[2])]
    BY <1>3 DEF CommitCallback
  <2>2. CASE a = cb[c].msg[1]
    BY <2>1, <2>2, RowsForType DEF TypeOK
  <2>3. CASE a # cb[c].msg[1]
    BY <1>0, <2>1, <2>3 DEF TypeOK
  <2> QED BY <2>2, <2>3
<1> QED
  BY <1>1, <1>2, <1>3
  DEF Next, vars, BeginVerify, RunNadra, RunShufti, RollbackVerify, CustomerMoves,
      ShuftiSends, BeginCallback, DeletePending, CrashCallback

(* An upload that verifies the customer leaves a passing OCR result; one    *)
(* that does not, leaves the status as it is.                              *)
LEMMA UploadLeavesResult ==
  ASSUME TypeOK, NEW q \in Request, Upload(q), status' = "identity_verified"
  PROVE  ocrPass' \/ UNCHANGED <<status, byPatch, ocrPass>>
<1>1. PICK kind \in {"id", "selfie"}, ok \in BOOLEAN, faceOk \in BOOLEAN :
        LET read  == [status |-> req[q].seen, docs |-> {"id", "selfie"}]
            after == Lump(Endpoints!FaceMatch(Endpoints!UploadStored(read, kind, ok),
                                              kind, faceOk).status)
        IN /\ status' = IF after = req[q].seen THEN status ELSE after
           /\ byPatch' = (byPatch /\ after = req[q].seen)
           /\ ocrPass' = (ocrPass \/ (kind = "id" /\ ok))
  BY DEF Upload
<1> DEFINE read   == [status |-> req[q].seen, docs |-> {"id", "selfie"}]
           stored == Endpoints!UploadStored(read, kind, ok)
           after  == Endpoints!FaceMatch(stored, kind, faceOk).status
<1>a. CASE Lump(after) = req[q].seen
  BY <1>1, <1>a DEF TypeOK
<1>2. ASSUME Lump(after) # req[q].seen
      PROVE  /\ Lump(after) = "identity_verified" /\ ocrPass' = (ocrPass \/ (kind = "id" /\ ok))
  BY <1>1, <1>2
<1> SUFFICES ASSUME Lump(after) # req[q].seen PROVE ocrPass'
  BY <1>a
<1>3. after = "identity_verified"
  BY <1>2 DEF Lump, Early
<1>4. stored.status = "identity_verified" \/ after = "liveness_checked" \/ after = stored.status
  BY DEF Endpoints!FaceMatch, Endpoints!UploadStored
<1>5. stored.status = "identity_verified" => (kind = "id" /\ ok) \/ req[q].seen = "identity_verified"
  BY DEF Endpoints!UploadStored
<1> QED BY <1>2, <1>3, <1>4, <1>5 DEF Lump, Early

(***************************************************************************)
(* A verified customer has a passing result, of a provider or of OCR, or   *)
(* PATCH verified it, however calls, callbacks, uploads and PATCHes        *)
(* overlap: the commit that moves the status is the one that adds the row, *)
(* and no row is taken away.                                               *)
(***************************************************************************)
THEOREM VerifiedNeedsPass == Spec => []VerifiedHasPass
<1>1. Init => VerifiedHasPass
  BY DEF Init, VerifiedHasPass
<1>2. TypeOK /\ VerifiedHasPass /\ [Next]_vars => VerifiedHasPass'
  <2> SUFFICES ASSUME TypeOK, VerifiedHasPass, [Next]_vars, status' = "identity_verified"
               PROVE  byPatch' \/ ocrPass' \/ \E a \in Attempt : Holds(results'[a], "pass")
    BY DEF VerifiedHasPass, Holds
  <2>1. (\E a \in Attempt : Holds(results[a], "pass")) =>
          \E a \in Attempt : Holds(results'[a], "pass")
    <3> SUFFICES ASSUME NEW a \in Attempt, Holds(results[a], "pass")
                 PROVE  Holds(results'[a], "pass")
      OBVIOUS
    <3>1. PICK t \in Seq(Answer) : results'[a] = results[a] \o t
      BY RowsKept
    <3> QED BY <3>1, HoldsGrows DEF TypeOK
  <2>2. CASE UNCHANGED <<status, byPatch, ocrPass>>
    BY <2>1, <2>2 DEF VerifiedHasPass
  <2>3. ASSUME NEW v \in Verifier, CommitVerify(v),
               \E row \in ver[v].rows : Advance(ver[v].seen, row[2])
        PROVE  \E a \in Attempt : Holds(results'[a], "pass")
    <3>1. PICK row \in ver[v].rows : Advance(ver[v].seen, row[2])
      BY <2>3
    <3>2. row \in Role \X Answer
      <4>1. ver[v] \in Call
        BY DEF TypeOK
      <4> QED BY <3>1, <4>1 DEF Call
    <3>3. row = <<row[1], "pass">> /\ <<v, row[1]>> \in Attempt
      BY <3>1, <3>2 DEF Advance, Attempt
    <3>4. NewRow(v, <<v, row[1]>>) = <<"pass">>
      BY <3>1, <3>3 DEF NewRow
    <3>5. results'[<<v, row[1]>>] = results[<<v, row[1]>>] \o <<"pass">>
      BY <2>3, <3>3, <3>4 DEF CommitVerify
    <3> QED BY <3>3, <3>5, HoldsAdded DEF TypeOK, Answer
  <2>4. ASSUME NEW c \in Callback, CommitCallback(c), Advance(cb[c].seen, cb[c].msg[2])
        PROVE  \E a \in Attempt : Holds(results'[a], "pass")
    <3>1. cb[c].msg[1] \in Attempt
      <4>1. cb[c] \in Handler
        BY DEF TypeOK
      <4> QED BY <4>1 DEF Handler, Message
    <3>2. RowsFor(cb[c].msg[2]) = <<"pass">>
      BY <2>4 DEF Advance, RowsFor, Answer
    <3>3. results'[cb[c].msg[1]] = results[cb[c].msg[1]] \o <<"pass">>
      BY <2>4, <3>1, <3>2 DEF CommitCallback, TypeOK
    <3> QED BY <3>1, <3>3, HoldsAdded DEF TypeOK, Answer
  <2>5. ASSUME NEW advances \in BOOLEAN, AdvanceIf(advances), ~advances, ocrPass' = ocrPass
        PROVE  UNCHANGED <<status, byPatch, ocrPass>>
    BY <2>5 DEF AdvanceIf, TypeOK
  <2>6. CASE \E v \in Verifier : CommitVerify(v)
    BY <2>2, <2>3, <2>5, <2>6 DEF CommitVerify
  <2>7. CASE \E c \in Callback : CommitCallback(c)
    <3>1. PICK c \in Callback : CommitCallback(c)
      BY <2>7
    <3>2. PICK advances \in BOOLEAN : advances = Advance(cb[c].seen, cb[c].msg[2])
      BY DEF Advance
    <3>3. AdvanceIf(advances) /\ ocrPass' = ocrPass
      BY <3>1, <3>2 DEF CommitCallback
    <3> QED BY <2>2, <2>4, <2>5, <3>1, <3>2, <3>3
  <2>8. ASSUME NEW q \in Request, Upload(q), UNCHANGED results
        PROVE  byPatch' \/ ocrPass' \/ \E a \in Attempt : Holds(results'[a], "pass")
    BY <2>2, <2>8, UploadLeavesResult
  <2>9. ASSUME NEW q \in Request, PatchStatus(q) PROVE byPatch'
    <3>1. PICK move \in Endpoints!KycTransitions :
            status' = Lump(move[2]) /\ byPatch' = (move[2] = "identity_verified")
      BY <2>9 DEF PatchStatus
    <3> QED BY <3>1 DEF Lump, Early
  <2>10. CASE CustomerMoves
    <3>1. ~MoveOn
      BY DEF MoveOn
    <3>2. CASE \E q \in Request : OpenRequest(q) \/ RollbackRequest(q)
      BY <2>2, <3>2 DEF OpenRequest, RollbackRequest
    <3> QED BY <2>8, <2>9, <2>10, <3>1, <3>2 DEF CustomerMoves
  <2> QED
    BY <2>2, <2>6, <2>7, <2>10
    DEF Next, vars, BeginVerify, RunNadra, RunShufti, RollbackVerify,
        ShuftiSends, BeginCallback, DeletePending, CrashCallback
<1> QED BY <1>1, <1>2, VerificationTypes, PTL DEF Spec

(***************************************************************************)
(* A handler works on an event that Shufti sent.                           *)
(***************************************************************************)
HandlersFit == \A c \in Callback : cb[c].pc # "idle" => cb[c].msg \in sent

LEMMA HandlersAlwaysFit == Spec => []HandlersFit
<1>1. Init => HandlersFit
  BY DEF Init, HandlersFit, NoHandler
<1>2. TypeOK /\ HandlersFit /\ [Next]_vars => HandlersFit'
  <2> SUFFICES ASSUME TypeOK, HandlersFit, [Next]_vars,
                      NEW c \in Callback, cb'[c].pc # "idle"
               PROVE  cb'[c].msg \in sent'
    BY DEF HandlersFit
  <2>1. cb \in [Callback -> Handler]
    BY DEF TypeOK
  <2>2. sent \subseteq sent'
    BY DEF Next, vars, BeginVerify, RunNadra, RunShufti, CommitVerify, RollbackVerify,
           CustomerMoves, ShuftiSends, BeginCallback, DeletePending, CommitCallback,
           CrashCallback
  <2>3. CASE cb'[c] = cb[c]
    BY <2>2, <2>3 DEF HandlersFit
  <2>4. ASSUME NEW d \in Callback, NEW m \in Message, BeginCallback(d, m)
        PROVE  cb'[c].msg \in sent'
    <3>1. CASE d = c /\ cb' = [cb EXCEPT ![d].pc = "found", ![d].msg = m]
      BY <2>1, <2>2, <2>4, <3>1 DEF BeginCallback, Handler
    <3> QED BY <2>1, <2>3, <2>4, <3>1 DEF BeginCallback
  <2>5. ASSUME NEW d \in Callback, DeletePending(d)
        PROVE  cb'[c].msg \in sent'
    <3>1. CASE d = c
      BY <2>1, <2>2, <2>5, <3>1 DEF DeletePending, Handler, HandlersFit
    <3> QED BY <2>1, <2>3, <2>5, <3>1 DEF DeletePending
  <2>6. ASSUME NEW d \in Callback, CommitCallback(d) \/ CrashCallback(d)
        PROVE  cb'[c].msg \in sent'
    <3>1. cb' = [cb EXCEPT ![d] = NoHandler]
      BY <2>6 DEF CommitCallback, CrashCallback
    <3>2. NoHandler.pc = "idle"
      BY DEF NoHandler
    <3>3. c # d
      BY <2>1, <3>1, <3>2
    <3> QED BY <2>1, <2>3, <3>1, <3>3
  <2> QED
    BY <2>3, <2>4, <2>5, <2>6
    DEF Next, vars, BeginVerify, RunNadra, RunShufti, CommitVerify, RollbackVerify,
        CustomerMoves, ShuftiSends
<1> QED BY <1>1, <1>2, VerificationTypes, PTL DEF Spec

(***************************************************************************)
(* A URL that a client was given stays answerable as long as Shufti sends  *)
(* final answers only on it: the pending row leaves with the commit that   *)
(* adds the result, whatever callbacks overlap or crash.                   *)
(***************************************************************************)
THEOREM OfferStaysAnswerable == Spec => []FinalOnlyIsAnswerable
<1>1. Init => FinalOnlyIsAnswerable
  BY DEF Init, FinalOnlyIsAnswerable
<1>2. TypeOK /\ HandlersFit /\ FinalOnlyIsAnswerable /\ [Next]_vars => FinalOnlyIsAnswerable'
  <2> SUFFICES ASSUME TypeOK, HandlersFit, FinalOnlyIsAnswerable, [Next]_vars,
                      NEW a \in offered'
               PROVE  a \in pending' \/ results'[a] # <<>> \/ NonFinalSent(a)'
    BY DEF FinalOnlyIsAnswerable
  <2>1. ASSUME a \in Attempt, results[a] # <<>> PROVE results'[a] # <<>>
    <3>1. PICK t \in Seq(Answer) : results'[a] = results[a] \o t
      BY <2>1, RowsKept
    <3> QED BY <2>1, <3>1, NonEmptyGrows DEF TypeOK
  <2>2. NonFinalSent(a) => NonFinalSent(a)'
    BY DEF NonFinalSent, Next, vars, BeginVerify, RunNadra, RunShufti, CommitVerify,
           RollbackVerify, CustomerMoves, ShuftiSends, BeginCallback, DeletePending,
           CommitCallback, CrashCallback
  <2>3. a \in offered =>
          a \in Attempt /\ (a \in pending \/ results[a] # <<>> \/ NonFinalSent(a))
    BY DEF FinalOnlyIsAnswerable, TypeOK
  <2>4. ASSUME NEW v \in Verifier, CommitVerify(v)
        PROVE  a \in pending' \/ results'[a] # <<>> \/ NonFinalSent(a)'
    <3>1. pending' = pending \cup ({v} \X ver[v].asks)
          /\ offered' = offered \cup ({v} \X Returned(ver[v]))
      BY <2>4 DEF CommitVerify
    <3>2. Returned(ver[v]) \subseteq ver[v].asks
      BY DEF Returned
    <3> QED BY <2>1, <2>2, <2>3, <3>1, <3>2
  <2>5. ASSUME NEW c \in Callback, CommitCallback(c)
        PROVE  a \in pending' \/ results'[a] # <<>> \/ NonFinalSent(a)'
    <3>1. cb[c].msg \in sent /\ sent' = sent
      BY <2>5 DEF CommitCallback, HandlersFit
    <3>2. cb[c].msg \in Attempt \X (Answer \cup NonFinal)
      <4>1. cb[c] \in Handler
        BY DEF TypeOK
      <4> QED BY <4>1 DEF Handler, Message
    <3>3. CASE a = cb[c].msg[1] /\ cb[c].msg[2] \in Answer
      <4>1. results'[a] = results[a] \o <<cb[c].msg[2]>>
        BY <2>5, <3>2, <3>3 DEF CommitCallback, RowsFor, TypeOK
      <4>2. results[a] \in Seq(Answer)
        BY <3>2, <3>3 DEF TypeOK
      <4>3. <<cb[c].msg[2]>> \in Seq(Answer) /\ <<cb[c].msg[2]>> # <<>>
        BY <3>3
      <4> QED BY <4>1, <4>2, <4>3, NonEmptyGrows
    <3>4. CASE a = cb[c].msg[1] /\ cb[c].msg[2] \in NonFinal
      <4>1. <<a, cb[c].msg[2]>> = cb[c].msg
        BY <3>2, <3>4
      <4> QED BY <3>1, <3>4, <4>1 DEF NonFinalSent
    <3>5. CASE a # cb[c].msg[1]
      BY <2>1, <2>2, <2>3, <2>5, <3>5 DEF CommitCallback, Deleted
    <3> QED BY <3>2, <3>3, <3>4, <3>5
  <2> QED
    BY <2>1, <2>2, <2>3, <2>4, <2>5
    DEF Next, vars, BeginVerify, RunNadra, RunShufti, RollbackVerify, CustomerMoves,
        ShuftiSends, BeginCallback, DeletePending, CrashCallback
<1> QED BY <1>1, <1>2, VerificationTypes, HandlersAlwaysFit, PTL DEF Spec

-----------------------------------------------------------------------------
(***************************************************************************)
(* Where rows come from: NADRA rows from the commit of the call, Shufti    *)
(* rows from callbacks, which only find what a call has committed.         *)
(***************************************************************************)
CallFits(v) ==
  /\ ver[v].pc = "new" =>
       ver[v].rows = {} /\ ver[v].asks = {} /\ \A role \in Role : <<v, role>> \notin created
  /\ \A row \in ver[v].rows : ProviderOf(ver[v].routing, row[1]) = "nadra"
  /\ \A role \in Role :
       <<v, role>> \in created => ProviderOf(ver[v].routing, role) = "shufti"
  /\ \A role \in ver[v].asks : <<v, role>> \in created
  /\ ver[v].pc # "done" =>
       \A role \in Role : results[<<v, role>>] = <<>> /\ <<v, role>> \notin pending \cup offered

CallsFit == \A v \in Verifier : CallFits(v)

(* Shufti only speaks of what it was asked for, and decides it once.       *)
EventsFit ==
  /\ pending \subseteq created /\ offered \subseteq created /\ acked \subseteq sent
  /\ \A m \in sent : m[1] \in created /\ (m[2] \in Answer => m[1] \in offered)
  /\ \A a \in created : \A x, y \in Answer : <<a, x>> \in sent /\ <<a, y>> \in sent => x = y

HandlersLate == \A c \in Callback : cb[c].pc # "idle" => ver[cb[c].msg[1][1]].pc = "done"

FInv == CallsFit /\ EventsFit /\ HandlersLate

(* A call that no step touched. *)
LEMMA CallUntouched ==
  ASSUME NEW v \in Verifier, CallFits(v), ver'[v] = ver[v],
         \A role \in Role :
           /\ <<v, role>> \in created' <=> <<v, role>> \in created
           /\ <<v, role>> \in pending' \cup offered' => <<v, role>> \in pending \cup offered
           /\ ver[v].pc = "done" \/ results'[<<v, role>>] = results[<<v, role>>],
         ver[v].asks \subseteq Role
  PROVE  CallFits(v)'
BY DEF CallFits

LEMMA BeginFits ==
  ASSUME TypeOK, FInv, NEW v \in Verifier, BeginVerify(v)
  PROVE  FInv'
<1>1. PICK r \in Routings :
        ver' = [ver EXCEPT ![v] = [ver[v] EXCEPT !.pc = "running", !.routing = r,
                                                 !.seen = status]]
  BY DEF BeginVerify
<1>2. ver[v].pc = "new" /\ UNCHANGED <<results, pending, cb, created, offered, sent, acked>>
  BY DEF BeginVerify
<1>3. ver \in [Verifier -> Call]
  BY DEF TypeOK
<1>4. /\ ver'[v].pc = "running" /\ ver'[v].rows = ver[v].rows /\ ver'[v].asks = ver[v].asks
      /\ \A u \in Verifier \ {v} : ver'[u] = ver[u]
  BY <1>1, <1>3 DEF Call
<1>5. CallFits(v)'
  BY <1>2, <1>4 DEF FInv, CallsFit, CallFits
<1>6. \A u \in Verifier \ {v} : CallFits(u)'
  BY <1>2, <1>3, <1>4, CallUntouched DEF FInv, CallsFit, Call
<1>7. EventsFit'
  BY <1>2 DEF FInv, EventsFit
<1>8. HandlersLate'
  <2>1. \A c \in Callback : cb[c].msg[1][1] \in Verifier
    BY DEF TypeOK, Handler, Message, Attempt
  <2> QED BY <1>2, <1>4, <2>1 DEF FInv, HandlersLate
<1> QED BY <1>5, <1>6, <1>7, <1>8 DEF FInv, CallsFit

LEMMA NadraFits ==
  ASSUME TypeOK, FInv, NEW v \in Verifier, RunNadra(v)
  PROVE  FInv'
<1>1. PICK outcome \in Answer \cup Outcomes(ver[v].routing, ver[v].role) :
        ver' = [ver EXCEPT
          ![v].role = After(ver[v].routing, ver[v].role, outcome),
          ![v].rows = IF outcome \in Answer
                      THEN @ \cup {<<ver[v].role, outcome>>} ELSE @]
  BY DEF RunNadra
<1>2. /\ ver[v].pc = "running" /\ ProviderOf(ver[v].routing, ver[v].role) = "nadra"
      /\ UNCHANGED <<results, pending, cb, created, offered, sent, acked>>
  BY DEF RunNadra, Running
<1>3. ver \in [Verifier -> Call]
  BY DEF TypeOK
<1>4. /\ ver'[v].pc = ver[v].pc /\ ver'[v].asks = ver[v].asks
      /\ ver'[v].routing = ver[v].routing
      /\ \A row \in ver'[v].rows : row \in ver[v].rows \/ row[1] = ver[v].role
      /\ \A u \in Verifier \ {v} : ver'[u] = ver[u]
  BY <1>1, <1>3 DEF Call
<1>5. CallFits(v)'
  BY <1>2, <1>4 DEF FInv, CallsFit, CallFits
<1>6. \A u \in Verifier \ {v} : CallFits(u)'
  BY <1>2, <1>3, <1>4, CallUntouched DEF FInv, CallsFit, Call
<1>7. EventsFit'
  BY <1>2 DEF FInv, EventsFit
<1>8. HandlersLate'
  <2>1. \A c \in Callback : cb[c].msg[1][1] \in Verifier
    BY DEF TypeOK, Handler, Message, Attempt
  <2> QED BY <1>2, <1>4, <2>1 DEF FInv, HandlersLate
<1> QED BY <1>5, <1>6, <1>7, <1>8 DEF FInv, CallsFit

LEMMA ShuftiFits ==
  ASSUME TypeOK, FInv, NEW v \in Verifier, RunShufti(v)
  PROVE  FInv'
<1>1. PICK outcome \in {"asked"} \cup Outcomes(ver[v].routing, ver[v].role), reached \in BOOLEAN :
        /\ outcome = "asked" => reached
        /\ ver' = [ver EXCEPT
             ![v].role = After(ver[v].routing, ver[v].role, outcome),
             ![v].asks = IF outcome = "asked" THEN @ \cup {ver[v].role} ELSE @]
        /\ created' = IF reached THEN created \cup {<<v, ver[v].role>>} ELSE created
  BY DEF RunShufti
<1>2. /\ ver[v].pc = "running" /\ ProviderOf(ver[v].routing, ver[v].role) = "shufti"
      /\ UNCHANGED <<results, pending, cb, offered, sent, acked>>
  BY DEF RunShufti, Running
<1>3. ver \in [Verifier -> Call]
  BY DEF TypeOK
<1>4. /\ ver'[v].pc = ver[v].pc /\ ver'[v].rows = ver[v].rows
      /\ ver'[v].routing = ver[v].routing
      /\ \A role \in ver'[v].asks : role \in ver[v].asks \/ <<v, role>> \in created'
      /\ \A u \in Verifier \ {v} : ver'[u] = ver[u]
  BY <1>1, <1>3 DEF Call
<1>5. /\ created \subseteq created'
      /\ \A a \in created' : a \in created \/ a = <<v, ver[v].role>>
  BY <1>1
<1>6. CallFits(v)'
  BY <1>2, <1>4, <1>5 DEF FInv, CallsFit, CallFits
<1>7. \A u \in Verifier \ {v} : CallFits(u)'
  BY <1>2, <1>3, <1>4, <1>5, CallUntouched DEF FInv, CallsFit, Call
<1>8. EventsFit'
  <2>1. ~ \E m \in sent : m[1] \notin created
    BY DEF FInv, EventsFit
  <2>2. \A a, x : <<a, x>> \in sent => a \in created
    BY <2>1
  <2> QED BY <1>2, <1>5, <2>2 DEF FInv, EventsFit
<1>9. HandlersLate'
  <2>1. \A c \in Callback : cb[c].msg[1][1] \in Verifier
    BY DEF TypeOK, Handler, Message, Attempt
  <2> QED BY <1>2, <1>4, <2>1 DEF FInv, HandlersLate
<1> QED BY <1>6, <1>7, <1>8, <1>9 DEF FInv, CallsFit

(* The end of a call, kept or not. *)
LEMMA EndFits ==
  ASSUME TypeOK, FInv, NEW v \in Verifier, CommitVerify(v) \/ RollbackVerify(v)
  PROVE  FInv'
<1>1. ver' = [ver EXCEPT ![v] = [ver[v] EXCEPT !.pc = "done"]] /\ ver[v].pc = "running"
      /\ UNCHANGED <<cb, created, sent, acked>>
  BY DEF CommitVerify, RollbackVerify
<1>2. ver \in [Verifier -> Call]
  BY DEF TypeOK
<1>3. /\ ver'[v].pc = "done" /\ ver'[v].rows = ver[v].rows /\ ver'[v].asks = ver[v].asks
      /\ ver'[v].routing = ver[v].routing
      /\ \A u \in Verifier \ {v} : ver'[u] = ver[u]
  BY <1>1, <1>2 DEF Call
<1>4. Returned(ver[v]) \subseteq ver[v].asks
  BY DEF Returned
<1>5. /\ pending' \subseteq pending \cup ({v} \X ver[v].asks)
      /\ offered' \subseteq offered \cup ({v} \X ver[v].asks)
      /\ offered \subseteq offered'
  BY <1>4 DEF CommitVerify, RollbackVerify
<1>6. \A u \in Verifier \ {v}, role \in Role : results'[<<u, role>>] = results[<<u, role>>]
  <2>1. CASE RollbackVerify(v)
    BY <2>1 DEF RollbackVerify
  <2>2. ASSUME CommitVerify(v), NEW u \in Verifier \ {v}, NEW role \in Role
        PROVE  results'[<<u, role>>] = results[<<u, role>>]
    <3>1. <<u, role>> \in Attempt /\ results[<<u, role>>] \in Seq(Answer)
      BY DEF Attempt, TypeOK
    <3>2. NewRow(v, <<u, role>>) = <<>>
      BY DEF NewRow
    <3>3. results'[<<u, role>>] = results[<<u, role>>] \o <<>>
      BY <2>2, <3>1, <3>2 DEF CommitVerify
    <3> QED BY <3>1, <3>3, ConcatEmptySeq
  <2> QED BY <2>1, <2>2
<1>7. CallFits(v)'
  BY <1>1, <1>3 DEF FInv, CallsFit, CallFits
<1>8. \A u \in Verifier \ {v} : CallFits(u)'
  BY <1>1, <1>2, <1>3, <1>5, <1>6, CallUntouched DEF FInv, CallsFit, Call
<1>9. {v} \X ver[v].asks \subseteq created
  BY DEF FInv, CallsFit, CallFits
<1>10. EventsFit'
  BY <1>1, <1>5, <1>9 DEF FInv, EventsFit
<1>11. HandlersLate'
  <2>1. \A c \in Callback : cb[c].msg[1][1] \in Verifier
    BY DEF TypeOK, Handler, Message, Attempt
  <2> QED BY <1>1, <1>3, <2>1 DEF FInv, HandlersLate
<1> QED BY <1>7, <1>8, <1>10, <1>11 DEF FInv, CallsFit

LEMMA SendFits ==
  ASSUME TypeOK, FInv, CustomerMoves \/ ShuftiSends
  PROVE  FInv'
<1>1. UNCHANGED <<results, pending, ver, cb, created, offered, acked>>
  BY DEF CustomerMoves, ShuftiSends
<1>2. CallsFit' /\ HandlersLate'
  BY <1>1 DEF FInv, CallsFit, CallFits, HandlersLate
<1>3. ASSUME sent' = sent PROVE EventsFit'
  BY <1>1, <1>3 DEF FInv, EventsFit
<1>4. ASSUME NEW a \in created, ~Decided(a),
             NEW event \in NonFinal \cup (IF a \in offered THEN Answer ELSE {}),
             sent' = sent \cup {<<a, event>>}
      PROVE  EventsFit'
  <2>1. event \in Answer => a \in offered
    BY <1>4, NonFinalAssumption
  <2>2. \A x \in Answer : <<a, x>> \in sent' => x = event
    BY <1>4 DEF Decided
  <2> QED BY <1>1, <1>4, <2>1, <2>2 DEF FInv, EventsFit
<1>5. EventsFit'
  BY <1>3, <1>4 DEF CustomerMoves, ShuftiSends
<1> QED BY <1>2, <1>5 DEF FInv

LEMMA BeginCallbackFits ==
  ASSUME TypeOK, FInv, NEW c \in Callback, NEW m \in Message, BeginCallback(c, m)
  PROVE  FInv'
<1>1. UNCHANGED <<results, pending, ver, created, offered, sent>> /\ m \in sent
  BY DEF BeginCallback
<1>2. CallsFit'
  BY <1>1 DEF FInv, CallsFit, CallFits
<1>3. EventsFit'
  BY <1>1 DEF BeginCallback, FInv, EventsFit
<1>4. CASE m[1] \in pending
  <2>1. cb' = [cb EXCEPT ![c] = [cb[c] EXCEPT !.pc = "found", !.msg = m]]
    BY <1>4 DEF BeginCallback
  <2>2. cb \in [Callback -> Handler]
    BY DEF TypeOK
  <2>3. cb'[c].msg = m /\ \A d \in Callback \ {c} : cb'[d] = cb[d]
    BY <2>1, <2>2 DEF Handler
  <2>4. PICK v \in Verifier, role \in Role : m[1] = <<v, role>>
    BY DEF Message, Attempt
  <2>5. ver[m[1][1]].pc = "done"
    <3>1. <<v, role>> \in pending /\ CallFits(v)
      BY <1>4, <2>4 DEF FInv, CallsFit
    <3> QED BY <2>4, <3>1 DEF CallFits
  <2> QED BY <1>1, <1>2, <1>3, <2>3, <2>5 DEF FInv, HandlersLate
<1>5. CASE m[1] \notin pending
  BY <1>1, <1>2, <1>3, <1>5 DEF BeginCallback, FInv, HandlersLate
<1> QED BY <1>4, <1>5

LEMMA HandlerFits ==
  ASSUME TypeOK, FInv, HandlersFit, NEW c \in Callback,
         DeletePending(c) \/ CommitCallback(c) \/ CrashCallback(c)
  PROVE  FInv'
<1>1. UNCHANGED <<ver, created, offered, sent>> /\ pending' \subseteq pending
      /\ cb[c].pc # "idle"
  BY DEF DeletePending, CommitCallback, CrashCallback, Deleted
<1>2. \A d \in Callback \ {c} : cb'[d] = cb[d]
  BY DEF DeletePending, CommitCallback, CrashCallback, TypeOK
<1>3. HandlersLate'
  <2>1. cb'[c].pc = "idle" \/ cb'[c].msg = cb[c].msg
    <3>1. cb \in [Callback -> Handler]
      BY DEF TypeOK
    <3>2. \/ cb' = [cb EXCEPT ![c] = NoHandler]
          \/ cb' = [cb EXCEPT ![c].pc = "deleted", ![c].seen = status]
      BY DEF DeletePending, CommitCallback, CrashCallback
    <3> QED BY <3>1, <3>2 DEF NoHandler, Handler
  <2> QED BY <1>1, <1>2, <2>1 DEF FInv, HandlersLate
<1>4. acked' \subseteq sent'
  BY <1>1 DEF DeletePending, CommitCallback, CrashCallback, HandlersFit, FInv, EventsFit
<1>5. EventsFit'
  BY <1>1, <1>4 DEF FInv, EventsFit
<1>6. ASSUME NEW v \in Verifier, NEW role \in Role
      PROVE  ver[v].pc = "done" \/ results'[<<v, role>>] = results[<<v, role>>]
  <2>1. ver[cb[c].msg[1][1]].pc = "done"
    BY <1>1 DEF FInv, HandlersLate
  <2>2. results' = results
        \/ results' = [results EXCEPT ![cb[c].msg[1]] = @ \o RowsFor(cb[c].msg[2])]
    BY DEF DeletePending, CommitCallback, CrashCallback
  <2>3. CASE <<v, role>> = cb[c].msg[1]
    BY <2>1, <2>3
  <2>4. CASE <<v, role>> # cb[c].msg[1]
    BY <2>2, <2>4 DEF TypeOK, Attempt
  <2> QED BY <2>3, <2>4
<1>7. CallsFit'
  BY <1>1, <1>6, CallUntouched DEF FInv, CallsFit, TypeOK, Call
<1> QED BY <1>3, <1>5, <1>7 DEF FInv

LEMMA AlwaysFInv == Spec => []FInv
<1>1. Init => FInv
  BY InitialRecords DEF Init, FInv, CallsFit, CallFits, EventsFit, HandlersLate, NewCall, NoHandler, Attempt
<1>2. TypeOK /\ HandlersFit /\ FInv /\ [Next]_vars => FInv'
  <2> SUFFICES ASSUME TypeOK, HandlersFit, FInv, [Next]_vars PROVE FInv'
    OBVIOUS
  <2>1. CASE UNCHANGED vars
    BY <2>1 DEF vars, FInv, CallsFit, CallFits, EventsFit, HandlersLate
  <2> QED BY <2>1, BeginFits, NadraFits, ShuftiFits, EndFits, SendFits, BeginCallbackFits,
             HandlerFits DEF Next
<1> QED BY <1>1, <1>2, VerificationTypes, HandlersAlwaysFit, PTL DEF Spec

(* The rows of a Shufti reference come from its callbacks only.            *)
LEMMA ShuftiRows ==
  ASSUME TypeOK, HandlersFit, FInv, [Next]_vars, NEW a \in created'
  PROVE  /\ a \in Attempt
         /\ a \in created \/ results[a] = <<>>
         /\ \/ results'[a] = results[a]
            \/ \E c \in Callback, answer \in Answer :
                 /\ CommitCallback(c) /\ cb[c].msg = <<a, answer>>
                 /\ <<a, answer>> \in sent
                 /\ results'[a] = results[a] \o <<answer>>
<1>1. created \subseteq Attempt /\ results \in [Attempt -> Seq(Answer)]
  BY DEF TypeOK
<1>2. CASE \E v \in Verifier : RunShufti(v)
  <2>1. PICK v \in Verifier : RunShufti(v)
    BY <1>2
  <2>2. /\ results' = results /\ ver[v].pc = "running" /\ ver[v].role \in Role
        /\ created' \subseteq created \cup {<<v, ver[v].role>>}
    BY <2>1 DEF RunShufti, Running
  <2>3. results[<<v, ver[v].role>>] = <<>> /\ <<v, ver[v].role>> \in Attempt
    BY <2>2 DEF FInv, CallsFit, CallFits, Attempt
  <2> QED BY <1>1, <2>2, <2>3
<1>3. CASE \E v \in Verifier : CommitVerify(v)
  <2>1. PICK v \in Verifier : CommitVerify(v)
    BY <1>3
  <2>2. a \in created /\ a \in Attempt
    BY <1>1, <2>1 DEF CommitVerify
  <2>3. PICK u \in Verifier, role \in Role : a = <<u, role>>
    BY <2>2 DEF Attempt
  <2>4. NewRow(v, a) = <<>>
    <3>1. ASSUME NEW answer, u = v PROVE <<role, answer>> \notin ver[v].rows
      BY <2>2, <2>3, <3>1 DEF FInv, CallsFit, CallFits
    <3> QED BY <2>3, <3>1 DEF NewRow
  <2>5. results'[a] = results[a] \o <<>>
    BY <2>1, <2>2, <2>4 DEF CommitVerify
  <2>6. results'[a] = results[a]
    BY <1>1, <2>2, <2>5, ConcatEmptySeq
  <2> QED BY <2>2, <2>6
<1>4. ASSUME NEW c \in Callback, CommitCallback(c)
      PROVE  /\ a \in Attempt /\ a \in created
             /\ \/ results'[a] = results[a]
                \/ \E answer \in Answer :
                     /\ cb[c].msg = <<a, answer>> /\ <<a, answer>> \in sent
                     /\ results'[a] = results[a] \o <<answer>>
  <2>1. /\ created' = created
        /\ results' = [results EXCEPT ![cb[c].msg[1]] = @ \o RowsFor(cb[c].msg[2])]
        /\ cb[c].msg \in sent
    BY <1>4 DEF CommitCallback, HandlersFit
  <2>2. a \in Attempt /\ a \in created
    BY <1>1, <2>1
  <2>3. PICK b \in Attempt, event \in Answer \cup NonFinal : cb[c].msg = <<b, event>>
    BY DEF TypeOK, Handler, Message
  <2>4. CASE a # b
    BY <1>1, <2>1, <2>2, <2>3, <2>4
  <2>5. CASE a = b /\ event \in Answer
    <3>1. results'[a] = results[a] \o <<event>>
      BY <1>1, <2>1, <2>2, <2>3, <2>5 DEF RowsFor
    <3> QED BY <2>1, <2>2, <2>3, <2>5, <3>1
  <2>6. CASE a = b /\ event \notin Answer
    <3>1. results'[a] = results[a] \o <<>>
      BY <1>1, <2>1, <2>2, <2>3, <2>6 DEF RowsFor
    <3> QED BY <1>1, <2>2, <3>1, ConcatEmptySeq
  <2> QED BY <2>4, <2>5, <2>6
<1>5. CASE created' = created /\ results' = results
  BY <1>1, <1>5
<1> QED
  BY <1>2, <1>3, <1>4, <1>5
  DEF Next, vars, BeginVerify, RunNadra, RollbackVerify, CustomerMoves, ShuftiSends,
      BeginCallback, DeletePending, CrashCallback

LEMMA OfferedAndSentGrow == [Next]_vars => offered \subseteq offered' /\ sent \subseteq sent'
BY DEF Next, vars, BeginVerify, RunNadra, RunShufti, CommitVerify, RollbackVerify, CustomerMoves,
       ShuftiSends, BeginCallback, DeletePending, CommitCallback, CrashCallback

(* The rows after an answer was added.                                     *)
LEMMA Appended ==
  ASSUME NEW s \in Seq(Answer), NEW answer \in Answer
  PROVE  /\ s \o <<answer>> \in Seq(Answer) /\ Len(s \o <<answer>>) = Len(s) + 1
         /\ Len(s) \in Nat
         /\ \A i \in 1..(Len(s) + 1) :
              (s \o <<answer>>)[i] = answer \/ (i \in 1..Len(s) /\ (s \o <<answer>>)[i] = s[i])
<1>1. <<answer>> \in Seq(Answer) /\ Len(<<answer>>) = 1 /\ <<answer>>[1] = answer
  OBVIOUS
<1>2. Len(s) \in Nat
  BY LenProperties
<1> QED BY <1>1, <1>2, ConcatProperties

(***************************************************************************)
(* A Shufti result is the answer that Shufti gave for that reference, and  *)
(* the client was offered its URL: no call, crash or other callback writes *)
(* a result in its place.                                                  *)
(***************************************************************************)
THEOREM ResultsAreShuftis == Spec => []ResultIsShuftisAnswer
<1>1. Init => ResultIsShuftisAnswer
  BY DEF Init, ResultIsShuftisAnswer
<1>2. TypeOK /\ HandlersFit /\ FInv /\ ResultIsShuftisAnswer /\ [Next]_vars => ResultIsShuftisAnswer'
  <2> SUFFICES ASSUME TypeOK, HandlersFit, FInv, ResultIsShuftisAnswer, [Next]_vars,
                      NEW a \in created', NEW i \in 1..Len(results'[a])
               PROVE  <<a, results'[a][i]>> \in sent' /\ a \in offered'
    BY DEF ResultIsShuftisAnswer
  <2>1. offered \subseteq offered' /\ sent \subseteq sent'
    BY OfferedAndSentGrow
  <2>2. a \in Attempt /\ (a \in created \/ results[a] = <<>>) /\ results[a] \in Seq(Answer)
    BY ShuftiRows DEF TypeOK
  <2>3. \A j \in 1..Len(results[a]) : <<a, results[a][j]>> \in sent /\ a \in offered
    <3>1. CASE results[a] = <<>>
      BY <3>1
    <3> QED BY <2>2, <3>1 DEF ResultIsShuftisAnswer
  <2>4. CASE results'[a] = results[a]
    BY <2>1, <2>3, <2>4
  <2>5. ASSUME NEW answer \in Answer, <<a, answer>> \in sent, results'[a] = results[a] \o <<answer>>
        PROVE  <<a, results'[a][i]>> \in sent' /\ a \in offered'
    <3>1. a \in offered
      BY <2>5 DEF FInv, EventsFit
    <3>2. results'[a][i] = answer \/ (i \in 1..Len(results[a]) /\ results'[a][i] = results[a][i])
      BY <2>2, <2>5, Appended
    <3> QED BY <2>1, <2>3, <2>5, <3>1, <3>2
  <2> QED BY <2>4, <2>5, ShuftiRows
<1> QED BY <1>1, <1>2, VerificationTypes, HandlersAlwaysFit, AlwaysFInv, PTL DEF Spec

(***************************************************************************)
(* An answer that Shufti got its 200 for is on file, unless a non-final    *)
(* event took its reference away: neither a crash nor a lost               *)
(* acknowledgement nor the shortcut for an unknown reference loses one.    *)
(***************************************************************************)
THEOREM AckedAnswersAreOnFile == Spec => []AckedIsRecorded
<1>1. Init => AckedIsRecorded
  BY DEF Init, AckedIsRecorded
<1>2. TypeOK /\ HandlersFit /\ FInv /\ FinalOnlyIsAnswerable /\ ResultIsShuftisAnswer
      /\ AckedIsRecorded /\ [Next]_vars => AckedIsRecorded'
  <2> SUFFICES ASSUME TypeOK, HandlersFit, FInv, FinalOnlyIsAnswerable, ResultIsShuftisAnswer,
                      AckedIsRecorded, [Next]_vars,
                      NEW a \in offered', NEW answer \in Answer, <<a, answer>> \in acked'
               PROVE  Holds(results'[a], answer) \/ NonFinalSent(a)'
    BY DEF AckedIsRecorded
  <2>1. NonFinalSent(a) => NonFinalSent(a)'
    BY OfferedAndSentGrow DEF NonFinalSent
  <2>2. ASSUME a \in offered, Holds(results[a], answer) PROVE Holds(results'[a], answer)
    <3>1. a \in Attempt
      BY <2>2 DEF TypeOK
    <3>2. PICK t \in Seq(Answer) : results'[a] = results[a] \o t
      BY <3>1, RowsKept
    <3> QED BY <2>2, <3>1, <3>2, HoldsGrows DEF TypeOK
  <2>3. CASE <<a, answer>> \in acked
    <3>1. a \in offered
      BY <2>3 DEF FInv, EventsFit
    <3> QED BY <2>1, <2>2, <2>3, <3>1 DEF AckedIsRecorded
  <2>4. ASSUME <<a, answer>> \notin acked, NEW c \in Callback, NEW m \in Message, BeginCallback(c, m)
        PROVE  Holds(results'[a], answer) \/ NonFinalSent(a)'
    <3>1. m = <<a, answer>> /\ m \in sent /\ a \notin pending
      BY <2>4 DEF BeginCallback
    <3>2. a \in offered /\ a \in created /\ a \in Attempt
      BY <3>1 DEF FInv, EventsFit, TypeOK
    <3>3. NonFinalSent(a) \/ results[a] # <<>>
      BY <3>1, <3>2 DEF FinalOnlyIsAnswerable
    <3>4. CASE results[a] # <<>>
      <4>1. results[a] \in Seq(Answer)
        BY <3>2 DEF TypeOK
      <4>2. 1 \in 1..Len(results[a]) /\ results[a][1] \in Answer
        BY <3>4, <4>1, EmptySeq, LenProperties, ElementOfSeq
      <4>3. <<a, results[a][1]>> \in sent
        BY <3>2, <4>2 DEF ResultIsShuftisAnswer
      <4>4. results[a][1] = answer
        BY <3>1, <3>2, <4>2, <4>3 DEF FInv, EventsFit
      <4> QED BY <2>2, <3>2, <4>2, <4>4 DEF Holds
    <3> QED BY <2>1, <3>3, <3>4
  <2>5. ASSUME <<a, answer>> \notin acked, NEW c \in Callback, CommitCallback(c)
        PROVE  Holds(results'[a], answer) \/ NonFinalSent(a)'
    <3>1. cb[c].msg = <<a, answer>> /\ a \in Attempt
      BY <2>5 DEF CommitCallback, TypeOK
    <3>2. results'[a] = results[a] \o <<answer>>
      BY <2>5, <3>1 DEF CommitCallback, RowsFor, TypeOK
    <3> QED BY <3>1, <3>2, HoldsAdded DEF TypeOK
  <2> QED
    BY <2>3, <2>4, <2>5
    DEF Next, vars, BeginVerify, RunNadra, RunShufti, CommitVerify, RollbackVerify,
        CustomerMoves, ShuftiSends, DeletePending, CrashCallback
<1> QED BY <1>1, <1>2, VerificationTypes, HandlersAlwaysFit, AlwaysFInv, OfferStaysAnswerable,
           ResultsAreShuftis, PTL DEF Spec

-----------------------------------------------------------------------------
(***************************************************************************)
(* Every result of a reference was recorded by a handler that is gone, and *)
(* none begins any more: those at work still have room for their result.   *)
(***************************************************************************)
OpenOn(a) == {c \in Callback : cb[c].pc # "idle" /\ cb[c].msg[1] = a}

RoomLeft ==
  \A a \in created : results[a] # <<>> =>
    a \notin pending /\ Len(results[a]) + Cardinality(OpenOn(a)) <= Cardinality(Callback)

LEMMA OpenFinite ==
  ASSUME NEW S \in SUBSET Callback
  PROVE  /\ IsFiniteSet(S) /\ Cardinality(S) \in Nat /\ Cardinality(Callback) \in Nat
         /\ Cardinality(S) <= Cardinality(Callback)
BY CallbackAssumption, FS_Subset, FS_CardinalityType

(* No reference with a result waits for a callback, and none gets another. *)
LEMMA NoneReopens ==
  ASSUME TypeOK, HandlersFit, FInv, RoomLeft, [Next]_vars,
         NEW a \in created, results[a] # <<>>
  PROVE  a \notin pending' /\ OpenOn(a)' \subseteq OpenOn(a)
<1>1. a \notin pending /\ a \in Attempt
  BY DEF RoomLeft, TypeOK
<1>2. cb \in [Callback -> Handler]
  BY DEF TypeOK
<1>3. a \notin pending'
  <2>1. ASSUME NEW v \in Verifier, CommitVerify(v) PROVE a \notin {v} \X ver[v].asks
    <3>1. ver[v].pc # "done" /\ CallFits(v) /\ ver[v].asks \subseteq Role
      BY <2>1 DEF CommitVerify, FInv, CallsFit, TypeOK, Call
    <3> QED BY <3>1 DEF CallFits
  <2> QED
    BY <1>1, <2>1
    DEF Next, vars, BeginVerify, RunNadra, RunShufti, CommitVerify, RollbackVerify,
        CustomerMoves, ShuftiSends, BeginCallback, DeletePending, CommitCallback,
        CrashCallback, Deleted
<1>4. ASSUME NEW c \in Callback, cb'[c] # cb[c], cb'[c].pc # "idle", cb'[c].msg[1] = a
      PROVE  c \in OpenOn(a)
  <2>1. ASSUME NEW d \in Callback, NEW m \in Message, BeginCallback(d, m)
        PROVE  c \in OpenOn(a)
    <3>1. m[1] \in pending /\ cb' = [cb EXCEPT ![d].pc = "found", ![d].msg = m]
      BY <1>4, <2>1 DEF BeginCallback
    <3>2. d = c /\ cb'[c].msg = m
      BY <1>2, <1>4, <3>1 DEF Handler
    <3> QED BY <1>1, <1>4, <3>1, <3>2
  <2>2. ASSUME NEW d \in Callback, DeletePending(d) PROVE c \in OpenOn(a)
    <3>1. cb[d].pc = "found" /\ cb' = [cb EXCEPT ![d].pc = "deleted", ![d].seen = status]
      BY <2>2 DEF DeletePending
    <3>2. d = c /\ cb'[c].msg = cb[c].msg
      BY <1>2, <1>4, <3>1 DEF Handler
    <3> QED BY <1>4, <3>1, <3>2 DEF OpenOn
  <2>3. ASSUME NEW d \in Callback, CommitCallback(d) \/ CrashCallback(d)
        PROVE  c \in OpenOn(a)
    <3>1. cb' = [cb EXCEPT ![d] = NoHandler]
      BY <2>3 DEF CommitCallback, CrashCallback
    <3> QED BY <1>2, <1>4, <3>1 DEF NoHandler
  <2> QED
    BY <1>4, <2>1, <2>2, <2>3
    DEF Next, vars, BeginVerify, RunNadra, RunShufti, CommitVerify, RollbackVerify,
        CustomerMoves, ShuftiSends
<1>5. OpenOn(a)' \subseteq OpenOn(a)
  BY <1>4 DEF OpenOn
<1> QED BY <1>3, <1>5

(* The handler that commits is no longer at work.                          *)
LEMMA CommitCloses ==
  ASSUME TypeOK, NEW c \in Callback, CommitCallback(c), NEW a, cb[c].msg[1] = a
  PROVE  /\ c \in OpenOn(a) /\ OpenOn(a)' = OpenOn(a) \ {c} /\ a \notin pending'
<1>1. cb \in [Callback -> Handler] /\ NoHandler.pc = "idle"
  BY DEF TypeOK, NoHandler
<1>2. cb' = [cb EXCEPT ![c] = NoHandler] /\ cb[c].pc = "deleted" /\ pending' = pending \ {a}
  BY DEF CommitCallback, Deleted
<1>3. cb'[c].pc = "idle" /\ \A d \in Callback \ {c} : cb'[d] = cb[d]
  BY <1>1, <1>2
<1> QED BY <1>2, <1>3 DEF OpenOn

LEMMA RoomStaysLeft ==
  ASSUME TypeOK, HandlersFit, FInv, RoomLeft, [Next]_vars
  PROVE  RoomLeft'
<1> SUFFICES ASSUME NEW a \in created', results'[a] # <<>>
             PROVE  /\ a \notin pending'
                    /\ Len(results'[a]) + Cardinality(OpenOn(a)') <= Cardinality(Callback)
  BY DEF RoomLeft
<1>1. a \in Attempt /\ (a \in created \/ results[a] = <<>>) /\ results[a] \in Seq(Answer)
  BY ShuftiRows DEF TypeOK
<1>2. Len(results[a]) \in Nat /\ (results[a] = <<>> => Len(results[a]) = 0)
  BY <1>1, LenProperties
<1>3. OpenOn(a) \subseteq Callback /\ OpenOn(a)' \subseteq Callback
  BY DEF OpenOn
<1>4. CASE results'[a] = results[a]
  <2>1. a \in created /\ results[a] # <<>>
    BY <1>1, <1>4
  <2>2. a \notin pending' /\ OpenOn(a)' \subseteq OpenOn(a)
    BY <2>1, NoneReopens
  <2>3. /\ Cardinality(OpenOn(a)') <= Cardinality(OpenOn(a))
        /\ Cardinality(OpenOn(a)') \in Nat /\ Cardinality(OpenOn(a)) \in Nat
        /\ Cardinality(Callback) \in Nat
    BY <1>3, <2>2, OpenFinite, FS_Subset
  <2>4. Len(results[a]) + Cardinality(OpenOn(a)) <= Cardinality(Callback)
    BY <2>1 DEF RoomLeft
  <2> QED BY <1>2, <1>4, <2>2, <2>3, <2>4
<1>5. ASSUME NEW c \in Callback, NEW answer \in Answer, CommitCallback(c),
             cb[c].msg = <<a, answer>>, results'[a] = results[a] \o <<answer>>
      PROVE  /\ a \notin pending'
             /\ Len(results'[a]) + Cardinality(OpenOn(a)') <= Cardinality(Callback)
  <2>1. c \in OpenOn(a) /\ OpenOn(a)' = OpenOn(a) \ {c} /\ a \notin pending'
    <3>1. cb[c].msg[1] = a
      BY <1>5
    <3> QED BY <1>5, <3>1, CommitCloses
  <2>2. /\ Cardinality(OpenOn(a)') = Cardinality(OpenOn(a)) - 1
        /\ Cardinality(OpenOn(a)) \in Nat /\ Cardinality(Callback) \in Nat
        /\ Cardinality(OpenOn(a)) <= Cardinality(Callback)
    BY <1>3, <2>1, OpenFinite, FS_RemoveElement
  <2>3. Len(results'[a]) = Len(results[a]) + 1
    BY <1>1, <1>5, Appended
  <2>4. results[a] # <<>> => Len(results[a]) + Cardinality(OpenOn(a)) <= Cardinality(Callback)
    BY <1>1 DEF RoomLeft
  <2> QED BY <1>2, <2>1, <2>2, <2>3, <2>4
<1> QED BY <1>4, <1>5, ShuftiRows

(***************************************************************************)
(* "Delete pending so we don't process twice": an answer is recorded at    *)
(* most once by each of the handlers that overlap, whatever is delivered   *)
(* again, crashes or loses its acknowledgement.                            *)
(***************************************************************************)
THEOREM RecordedOnce == Spec => []RecordedOncePerHandler
<1>1. Init => RoomLeft
  BY DEF Init, RoomLeft
<1>2. TypeOK /\ HandlersFit /\ FInv /\ RoomLeft /\ [Next]_vars => RoomLeft'
  BY RoomStaysLeft
<1>3. TypeOK /\ RoomLeft => RecordedOncePerHandler
  <2> SUFFICES ASSUME TypeOK, RoomLeft, NEW a \in created
               PROVE  Len(results[a]) <= Cardinality(Callback)
    BY DEF RecordedOncePerHandler
  <2>1. results[a] \in Seq(Answer) /\ Len(results[a]) \in Nat
    BY LenProperties DEF TypeOK
  <2>2. OpenOn(a) \subseteq Callback
    BY DEF OpenOn
  <2>3. Cardinality(OpenOn(a)) \in Nat /\ Cardinality(Callback) \in Nat
    BY <2>2, OpenFinite
  <2>4. CASE results[a] = <<>>
    BY <2>3, <2>4
  <2>5. CASE results[a] # <<>>
    BY <2>1, <2>3, <2>5 DEF RoomLeft
  <2> QED BY <2>4, <2>5
<1> QED BY <1>1, <1>2, <1>3, VerificationTypes, HandlersAlwaysFit, AlwaysFInv, PTL DEF Spec
=============================================================================
